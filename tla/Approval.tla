------------------------------ MODULE Approval ------------------------------
(***************************************************************************)
(* Approval requests of one execution: RequestDecision and its dispatch    *)
(* (sink.go) and the exactly-once responder (approval.go).                 *)
(*                                                                         *)
(* A request is a number, fresh for each attempt.  Each step of a call is  *)
(* one critical section of the responder, or one select, of the goroutine  *)
(* that called RequestDecision; the host's handler, its other goroutines,  *)
(* the deadline, cancellation and the end of the run interleave with them. *)
(***************************************************************************)
EXTENDS Integers, FiniteSets

CONSTANTS
  Call,      \* calls of RequestDecision
  KindOf,    \* KindOf[c]: "permission" or "question"
  Policies,  \* the effective policies to consider
  MaxReqs    \* bound: requests made

None == 0
Req == 1 .. MaxReqs
Answers(k) == IF k = "question" THEN {"answered", "rejected"} ELSE {"approved", "rejected"}
Actions == {"abort", "continue", "retry"}
Policy == [mode : [{"permission", "question"} -> {"ask", "approve", "reject"}],
           onReject : Actions, onTimeout : Actions, maxRetries : Nat, retry : BOOLEAN]

\* "a question has no legitimate synthesized answer" (approval.go:61), so QuestionMode
\* has no approving mode.  Every call may ask once and retry maxRetries times.
ASSUME ApprovalAssumption ==
  /\ IsFiniteSet(Call) /\ KindOf \in [Call -> {"permission", "question"}]
  /\ Policies \subseteq Policy /\ MaxReqs \in Nat
  /\ \A p \in Policies : /\ p.mode["question"] # "approve"
                         /\ MaxReqs >= Cardinality(Call) * (p.maxRetries + 1)

VARIABLES
  policy,       \* the execution's policy
  form,         \* "handler", "events" or "standby" (events through a standby)
  pc,           \* pc[c]: where the call is
  serial,       \* the call that holds decisionSerial, or None
  attempts,     \* attempts[c]
  current,      \* current[c]: the request of the current attempt, or None
  dctx,         \* dctx[c]: error of the attempt's context
  decision,     \* decision[c]: what dispatchOnce returned
  ret,          \* ret[c]: the result and error RequestDecision returned
  state,        \* state[q] of the responder; "none" before it is made
  resp,         \* resp[q]: the response settle recorded
  handler,      \* handler[q]: the OnApproval callback: "none", "running" or how it returned
  made,         \* requests made so far
  eventsCalled, \* Events was called
  consumer,     \* the channel that says Events or Result was called is closed
  cancelled,    \* the execution's context is cancelled
  torn,         \* steps of abort and close that are done
  failure, failureBeforeCancel

callVars == <<pc, serial, attempts, current, decision, ret>>
reqVars == <<state, resp, handler, made>>
failVars == <<failure, failureBeforeCancel>>
hostVars == <<eventsCalled, consumer, cancelled, torn>>
vars == <<policy, form, dctx, callVars, reqVars, failVars, hostVars>>

Init ==
  /\ policy \in Policies /\ form \in {"handler", "events", "standby"}
  /\ pc = [c \in Call |-> "idle"] /\ serial = None
  /\ attempts = [c \in Call |-> 0] /\ current = [c \in Call |-> None]
  /\ dctx = [c \in Call |-> "none"] /\ decision = [c \in Call |-> "none"]
  /\ ret = [c \in Call |-> [result |-> "none", err |-> "none"]]
  /\ state = [q \in Req |-> "none"] /\ resp = [q \in Req |-> "none"]
  /\ handler = [q \in Req |-> "none"] /\ made = 0
  /\ eventsCalled = FALSE /\ consumer = FALSE /\ cancelled = FALSE /\ torn = {}
  /\ failure = "none" /\ failureBeforeCancel = FALSE

-----------------------------------------------------------------------------
(* The responder. *)

Respond(q, a) ==
  /\ state' = [state EXCEPT ![q] = "responded"] /\ resp' = [resp EXCEPT ![q] = a]

\* Approve, Deny or Answer on a request the host has; a late or second response
\* changes nothing and returns ErrApprovalResolved.
settle(q) ==
  /\ state[q] = "pending"
  /\ \E c \in Call : /\ current[c] = q /\ pc[c] # "publish"
                      /\ \E a \in Answers(KindOf[c]) : Respond(q, a)
  /\ UNCHANGED <<policy, form, dctx, callVars, handler, made, failVars, hostVars>>

Expired(Q) == [q \in Req |-> IF q \in Q /\ state[q] = "pending" THEN "expired" ELSE state[q]]

\* A response that won the race, or else r.
Recovered(q, r) == IF state[q] = "responded" THEN resp[q] ELSE r

-----------------------------------------------------------------------------
(* Failures. *)

setPendingFailure(code) ==
  IF failure # "none" /\ failureBeforeCancel
  THEN UNCHANGED failVars
  ELSE failure' = code /\ failureBeforeCancel' = ~cancelled

Exhausted(c) == attempts[c] > policy.maxRetries
Action(r) == IF r = "rejected" THEN policy.onReject ELSE policy.onTimeout
Retries(c, r) == Action(r) = "retry" /\ policy.retry /\ ~Exhausted(c)

Unlocked(c, r, e) ==
  /\ pc' = [pc EXCEPT ![c] = "returned"] /\ serial' = None
  /\ ret' = [ret EXCEPT ![c] = [result |-> r, err |-> e]]

\* Mutation: a retry the driver does not support aborts without a failure.
FailWithout(c, r) ==
  IF Action(r) = "continue"
  THEN Unlocked(c, r, "none") /\ UNCHANGED failVars
  ELSE /\ Unlocked(c, r, "abort")
       /\ IF Action(r) = "retry" /\ ~policy.retry
          THEN UNCHANGED failVars ELSE setPendingFailure(r)
\* applyFailureAction without the retry: continue with the result, or record the
\* failure and abort.
applyFailureAction(c, r) ==
  IF Action(r) = "continue"
  THEN Unlocked(c, r, "none") /\ UNCHANGED failVars
  ELSE Unlocked(c, r, "abort") /\ setPendingFailure(r)

-----------------------------------------------------------------------------
(* RequestDecision. *)

Goto(c, at) == pc' = [pc EXCEPT ![c] = at]

Request(c) ==
  /\ pc[c] = "idle" /\ Goto(c, "lock")
  /\ UNCHANGED <<policy, form, dctx, serial, attempts, current, decision, ret, reqVars,
                 failVars, hostVars>>

\* The context of an attempt: cancelled with the call's, or fresh.
Context(c) == IF cancelled THEN "canceled" ELSE "none"

\* The modes that answer without asking anyone.
AutoMode(c) == CASE policy.mode[KindOf[c]] = "ask" -> "ask"
             [] policy.mode[KindOf[c]] = "approve" -> "approved"
             [] policy.mode[KindOf[c]] = "reject" -> "rejected"

\* The call is next: its first attempt begins.
Lock(c) ==
  /\ pc[c] = "lock" /\ serial = None /\ AutoMode(c) = "ask" /\ serial' = c /\ Goto(c, "dispatch")
  /\ attempts' = [attempts EXCEPT ![c] = 1] /\ dctx' = [dctx EXCEPT ![c] = Context(c)]
  /\ UNCHANGED <<policy, form, current, decision, ret, reqVars, failVars, hostVars>>

\* tryAutoResolve and applyAutoResolve: a retry degrades to abort.
AutoResolve(c) ==
  /\ pc[c] = "lock" /\ serial = None /\ AutoMode(c) # "ask"
  /\ IF AutoMode(c) = "approved" THEN Unlocked(c, "approved", "none") /\ UNCHANGED failVars
                             ELSE applyFailureAction(c, "rejected")
  /\ UNCHANGED <<policy, form, dctx, attempts, current, decision, reqVars, hostVars>>

\* The dispatch returns r.
Decided(c, r) ==
  /\ Goto(c, "decided") /\ decision' = [decision EXCEPT ![c] = r]
  /\ UNCHANGED <<policy, form, dctx, serial, attempts, current, ret, handler, made, hostVars>>
ByContext(c) == IF dctx[c] = "deadline" THEN "timedOut" ELSE "aborted"

NewRequest(c, h, at) ==
  /\ made < MaxReqs /\ made' = made + 1 /\ current' = [current EXCEPT ![c] = made']
  /\ state' = [state EXCEPT ![made'] = "pending"] /\ handler' = [handler EXCEPT ![made'] = h]
  /\ Goto(c, at)
  /\ UNCHANGED <<policy, form, dctx, serial, attempts, decision, ret, resp, failVars, hostVars>>
\* Nothing was asked: the attempt has no request.
Unasked(c, r) ==
  /\ Goto(c, "decided") /\ decision' = [decision EXCEPT ![c] = r]
  /\ current' = [current EXCEPT ![c] = None]
  /\ UNCHANGED <<policy, form, dctx, serial, attempts, ret, reqVars, failVars, hostVars>>

\* dispatchOnce: the callback form, or the event form once the host reads events.
\* An execution waits for the host to pick Events or Result, a standby does not.
Dispatch(c) ==
  /\ pc[c] = "dispatch"
  /\ \/ form = "handler" /\ NewRequest(c, "running", "handling")
     \/ form # "handler" /\ eventsCalled /\ NewRequest(c, "none", "publish")
     \/ form = "standby" /\ ~eventsCalled /\ Unasked(c, "timedOut")
     \/ /\ form = "events" /\ ~eventsCalled /\ Goto(c, "consumer")
        /\ UNCHANGED <<policy, form, dctx, serial, attempts, current, decision, ret, reqVars,
                       failVars, hostVars>>

\* Mutation: only Events or Result ends the wait.
AwaitOnly(c) ==
  /\ pc[c] = "consumer"
  /\ \/ consumer /\ eventsCalled /\ NewRequest(c, "none", "publish")
     \/ consumer /\ ~eventsCalled /\ Unasked(c, "timedOut")
AwaitConsumer(c) ==
  /\ pc[c] = "consumer"
  /\ \/ consumer /\ eventsCalled /\ NewRequest(c, "none", "publish")
     \/ consumer /\ ~eventsCalled /\ Unasked(c, "timedOut")
     \/ "abort" \in torn /\ Unasked(c, "aborted")
     \/ dctx[c] # "none" /\ Unasked(c, ByContext(c))

\* The request goes on the event stream, unless the stream is sealed.
Publish(c) ==
  /\ pc[c] = "publish"
  /\ \/ /\ "close" \notin torn /\ Goto(c, "wait")
        /\ UNCHANGED <<policy, form, dctx, serial, attempts, current, decision, ret, reqVars,
                       failVars, hostVars>>
     \/ /\ "close" \in torn /\ Decided(c, Recovered(current[c], ByContext(c)))
        /\ state' = Expired({current[c]}) /\ UNCHANGED <<resp, failVars>>

\* Mutation: a response that comes with the deadline is dropped.
WaitDropping(c) ==
  /\ pc[c] = "wait"
  /\ \/ state[current[c]] # "pending" /\ Decided(c, Recovered(current[c], ByContext(c)))
     \/ "abort" \in torn /\ Decided(c, "aborted")
     \/ dctx[c] # "none" /\ Decided(c, ByContext(c))
  /\ state' = Expired({current[c]}) /\ UNCHANGED <<resp, failVars>>
\* The select of runEventDispatch: the responder is ready, the run is aborted, or
\* the context is done; each way out honours a response that won the race.
Wait(c) ==
  /\ pc[c] = "wait"
  /\ \/ state[current[c]] # "pending" /\ Decided(c, Recovered(current[c], ByContext(c)))
     \/ "abort" \in torn /\ Decided(c, Recovered(current[c], "aborted"))
     \/ dctx[c] # "none" /\ Decided(c, Recovered(current[c], ByContext(c)))
  /\ state' = Expired({current[c]}) /\ UNCHANGED <<resp, failVars>>

\* The select of runHandler.  A callback that returned nil without a response is
\* found out first and expired afterwards (Unresolved).
Handling(c) ==
  LET q == current[c] IN
  /\ pc[c] = "handling"
  /\ \/ /\ handler[q] = "panic" /\ Decided(c, "aborted") /\ setPendingFailure("agentError")
        /\ state' = Expired({q}) /\ UNCHANGED resp
     \/ /\ handler[q] = "error" /\ Decided(c, "aborted")
        /\ state' = Expired({q}) /\ UNCHANGED <<resp, failVars>>
     \/ /\ handler[q] = "nil" /\ state[q] = "responded" /\ Decided(c, resp[q])
        /\ UNCHANGED <<state, resp, failVars>>
     \/ /\ handler[q] = "nil" /\ state[q] # "responded" /\ Goto(c, "unresolved")
        /\ UNCHANGED <<policy, form, dctx, serial, attempts, current, decision, ret, reqVars,
                       failVars, hostVars>>
     \/ /\ dctx[c] # "none" /\ Decided(c, Recovered(q, ByContext(c)))
        /\ state' = Expired({q}) /\ UNCHANGED <<resp, failVars>>
Unresolved(c) ==
  /\ pc[c] = "unresolved" /\ Decided(c, "aborted") /\ setPendingFailure("agentError")
  /\ state' = Expired({current[c]}) /\ UNCHANGED resp

\* What RequestDecision makes of the dispatch: return it, apply the policy's action,
\* or ask again with a fresh deadline.
Decide(c) ==
  LET r == decision[c] IN
  /\ pc[c] = "decided"
  /\ \/ r \in {"approved", "answered"} /\ Unlocked(c, r, "none")
        /\ UNCHANGED <<dctx, attempts, failVars>>
     \/ r = "aborted" /\ Unlocked(c, r, "cause") /\ UNCHANGED <<dctx, attempts, failVars>>
     \/ /\ r \in {"rejected", "timedOut"} /\ Retries(c, r) /\ Goto(c, "dispatch")
        /\ attempts' = [attempts EXCEPT ![c] = @ + 1] /\ dctx' = [dctx EXCEPT ![c] = Context(c)]
        /\ UNCHANGED <<serial, ret, failVars>>
     \/ /\ r \in {"rejected", "timedOut"} /\ ~Retries(c, r) /\ applyFailureAction(c, r)
        /\ UNCHANGED <<dctx, attempts>>
  /\ UNCHANGED <<policy, form, current, decision, reqVars, hostVars>>

-----------------------------------------------------------------------------
(* The host, time, and the end of the run. *)

\* The callback returns; after the dispatch is over nobody looks.
HandlerReturns(c) ==
  /\ pc[c] = "handling" /\ handler[current[c]] = "running"
  /\ \E how \in {"nil", "error", "panic"} : handler' = [handler EXCEPT ![current[c]] = how]
  /\ UNCHANGED <<policy, form, dctx, callVars, state, resp, made, failVars, hostVars>>

Deadline(c) ==
  /\ pc[c] \in {"dispatch", "consumer", "publish", "wait", "handling", "unresolved"}
  /\ dctx[c] = "none" /\ dctx' = [dctx EXCEPT ![c] = "deadline"]
  /\ UNCHANGED <<policy, form, callVars, reqVars, failVars, hostVars>>

\* In the callback form neither Events and Result nor the seal of the stream
\* matters here.
Events ==
  /\ form # "handler" /\ eventsCalled' = TRUE /\ consumer' = TRUE
  /\ UNCHANGED <<policy, form, dctx, callVars, reqVars, failVars, cancelled, torn>>
Result ==
  /\ form = "events" /\ consumer' = TRUE
  /\ UNCHANGED <<policy, form, dctx, callVars, reqVars, failVars, eventsCalled, cancelled, torn>>

\* The execution's context ends, and with it every call's.
Cancel ==
  /\ ~cancelled /\ cancelled' = TRUE
  /\ dctx' = [c \in Call |-> IF dctx[c] = "none" /\ serial = c THEN "canceled" ELSE dctx[c]]
  /\ UNCHANGED <<policy, form, callVars, reqVars, failVars, eventsCalled, consumer, torn>>

\* Requests of the event form stay in outstanding until their dispatch is over.
outstanding == {q \in Req : \E c \in Call : current[c] = q /\ pc[c] \in {"publish", "wait"}}

\* expireOutstanding, the first half of abort (after a cancellation) and of close.
ExpireOutstanding(half) ==
  /\ form # "handler" /\ half \notin torn /\ (half = "abortExpires" => cancelled)
  /\ torn' = torn \cup {half} /\ state' = Expired(outstanding)
  /\ UNCHANGED <<policy, form, dctx, callVars, resp, handler, made, failVars, eventsCalled,
                 consumer, cancelled>>
\* broker.abort or broker.close.
Seal(half, how) ==
  /\ half \in torn /\ how \notin torn /\ torn' = torn \cup {how}
  /\ UNCHANGED <<policy, form, dctx, callVars, reqVars, failVars, eventsCalled, consumer, cancelled>>

Step(c) == Lock(c) \/ AutoResolve(c) \/ Dispatch(c) \/ AwaitConsumer(c) \/ Publish(c) \/ Wait(c)
           \/ Handling(c) \/ Unresolved(c) \/ Decide(c)
Next ==
  \/ \E c \in Call : Request(c) \/ Step(c) \/ Deadline(c) \/ HandlerReturns(c)
  \/ \E q \in Req : settle(q)
  \/ Events \/ Result \/ Cancel
  \/ ExpireOutstanding("abortExpires") \/ ExpireOutstanding("closeExpires")
  \/ Seal("abortExpires", "abort") \/ Seal("closeExpires", "close")

Spec == Init /\ [][Next]_vars

\* Goroutines run, and a deadline that is waited for passes.  Neither the host nor
\* its callback is assumed to do anything.
FairSpec == Spec /\ \A c \in Call : WF_vars(Step(c)) /\ WF_vars(Deadline(c))

-----------------------------------------------------------------------------
(* What the approval dispatcher promises. *)

Over(q) == \A c \in Call : current[c] = q => pc[c] \in {"decided", "dispatch", "consumer", "returned"}

\* "exactly one of Approve / Deny / Answer resolves it" (approval.go:149), and a
\* response that raced the deadline or the end of the run "is honored instead of
\* dropped" (approval.go:309): an accepted response is what the dispatch returns,
\* except when the callback fails, or returned before somebody answered; and when a
\* dispatch is over its responder is no longer open, so that nothing is accepted and
\* then ignored ("Late or duplicate responses return ErrApprovalResolved",
\* approval.go:150).
AcceptedHonoured ==
  /\ \A c \in Call : pc[c] = "decided" /\ current[c] # None =>
       LET q == current[c] IN
         state[q] = "responded" => \/ decision[c] = resp[q]
                                   \/ /\ handler[q] \in {"nil", "error", "panic"}
                                      /\ decision[c] = "aborted"
  /\ \A q \in Req : Over(q) => state[q] # "pending"

\* A call goes ahead only with a response the host gave to the request of its last
\* attempt, or with a policy that approves that kind: never with one of an earlier
\* attempt, of another call or of nobody.  It returns errApprovalAbort only when "the
\* failure context is already recorded" (sink.go:441), for finalizeRun to report.
ReturnsJustified ==
  \A c \in Call : pc[c] = "returned" =>
    /\ ret[c].result \in {"approved", "answered"} =>
         \/ policy.mode[KindOf[c]] = "approve" /\ current[c] = None
         \/ /\ current[c] # None /\ state[current[c]] = "responded"
            /\ resp[current[c]] = ret[c].result
    /\ ret[c].err = "abort" => failure # "none"

\* Every RequestDecision returns, whatever the host and its callback do.
RequestsReturn == \A c \in Call : pc[c] = "lock" ~> pc[c] = "returned"
=============================================================================
