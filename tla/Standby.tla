------------------------------- MODULE Standby -------------------------------
(***************************************************************************)
(* A Thread on standby (standby_runtime.go): Send, Cancel, the loop of run *)
(* and completeExecution.                                                  *)
(*                                                                         *)
(* s.mu protects the fields, so each step is one critical section; the end *)
(* of the lifetime context is a step of its own.  An execution is what     *)
(* standby_runtime.go sees of Invocation: its hub takes messages until it  *)
(* is finished, and every item then has a final outcome.  Delivery         *)
(* receipts are abstracted: a message sent again may be delivered again.   *)
(* The hold on the Thread key is in ThreadRuntime, the forwarded events    *)
(* are in EventBroker.                                                     *)
(***************************************************************************)
EXTENDS Integers, Sequences, FiniteSets, SequencesExt

CONSTANTS
  Msg,        \* message IDs
  Sender,     \* calls of Send
  MsgOf,      \* MsgOf[s]: the ID that s sends
  Configures, \* calls with execution options
  Impatient,  \* calls whose context may end
  MaxPending, \* s.maxPending
  MaxCancels  \* bound: calls of Cancel

ASSUME StandbyAssumption ==
  /\ MsgOf \in [Sender -> Msg] /\ Configures \subseteq Sender /\ Impatient \subseteq Sender
  /\ MaxPending \in Nat \ {0} /\ MaxCancels \in Nat

VARIABLES
  queue,     \* queue of messages that start an execution
  carry,     \* failed input that waits for the next execution
  current,   \* the execution, or Idle
  started,   \* executions started so far
  cancelled,
  over,      \* s.ctx has ended
  wake,      \* the token in s.wake
  pump,      \* run: "loop", "select" or "done"
  events,    \* the execution whose events run reads, or 0
  armed,     \* run waits for readyAt
  ending,    \* run has seen the end of s.ctx
  pc,        \* pc[s]: "new", "try", "join", "finished", "wait" or "returned"
  on,        \* on[s]: the execution s tried to join
  ret,       \* ret[s]: how Send returned
  cancels,
  settled,   \* messages whose last outcome is final
  withdrawn  \* input of the last execution that Cancel failed, not sent again since

work == <<queue, carry, current, started, cancelled>>
loop == <<pump, events, armed, ending>>
calls == <<pc, on, ret>>
history == <<settled, withdrawn>>
vars == <<work, over, wake, loop, calls, cancels, history>>

Fresh(m) == [id |-> m, retried |-> FALSE, ready |-> TRUE, carried |-> <<>>]
Idle == [n |-> 0, entry |-> Fresh(CHOOSE m \in Msg : TRUE), items |-> <<>>,
         err |-> "nil", finished |-> FALSE, stopped |-> FALSE]
Busy == current.n # 0

Ids(entries) == {e.id : e \in ToSet(entries)} \cup UNION {ToSet(e.carried) : e \in ToSet(entries)}
Items == {i.id : i \in ToSet(current.items)}

Init ==
  /\ queue = <<>> /\ carry = <<>> /\ current = Idle /\ started = 0
  /\ cancelled = FALSE /\ over = FALSE /\ wake = FALSE
  /\ pump = "loop" /\ events = 0 /\ armed = FALSE /\ ending = FALSE
  /\ pc = [s \in Sender |-> "new"] /\ on = [s \in Sender |-> 0]
  /\ ret = [s \in Sender |-> "none"]
  /\ cancels = 0 /\ settled = {} /\ withdrawn = {}

-----------------------------------------------------------------------------
(* Helpers that run under s.mu. *)

\* notifyLocked closes s.changed for the calls that wait on it, p being where the
\* calls are after the rest of the step, and leaves a token for run.
Notify(p) ==
  /\ pc' = [s \in Sender |-> IF p[s] = "wait" THEN "try" ELSE p[s]]
  /\ wake' = TRUE

pendingLocked ==
  Len(carry) + FoldSeq(LAMBDA e, n : n + 1 + Len(e.carried), 0, queue)

\* carryPrompt skips an ID the hub has, startMessage does not look.
Prompt(e) ==
  LET carried == e.carried \o [i \in DOMAIN carry |-> carry[i].id]
      once == FoldSeq(LAMBDA m, t : IF m \in ToSet(t) THEN t ELSE <<m>> \o t, <<>>, Reverse(carried))
  IN  [i \in 1 .. Len(once) + 1 |->
         [id |-> IF i > Len(once) THEN e.id ELSE Reverse(once)[i], out |-> "accepted"]]

StartExecution(e) ==
  /\ started' = started + 1
  /\ current' = [Idle EXCEPT !.n = started + 1, !.entry = e, !.items = Prompt(e)]
  /\ carry' = <<>> /\ cancelled' = FALSE

failQueuedLocked ==
  /\ settled' = settled \cup Ids(queue) \cup Ids(carry)
  /\ queue' = <<>> /\ carry' = <<>>

-----------------------------------------------------------------------------
(* Send. *)

Return(s, r) ==
  /\ pc' = [pc EXCEPT ![s] = "returned"] /\ ret' = [ret EXCEPT ![s] = r]
  /\ on' = [on EXCEPT ![s] = 0]
Reject(s) == Return(s, "rejected") /\ UNCHANGED <<work, over, wake, loop, cancels, history>>

\* Send returns r after a change that notifies.
Admit(s, r) ==
  /\ Notify([pc EXCEPT ![s] = "returned"]) /\ ret' = [ret EXCEPT ![s] = r]
  /\ settled' = settled \ {MsgOf[s]} /\ withdrawn' = withdrawn \ {MsgOf[s]}
  /\ UNCHANGED <<on, over, loop, cancels>>

Queued(s) == MsgOf[s] \in Ids(queue)
Carried(s) == \E i \in DOMAIN carry : carry[i].id = MsgOf[s]
AtRest == ~Busy /\ queue = <<>>
Unknown(s) == ~over /\ ~Queued(s) /\ ~Carried(s)
Joins(s) == Busy /\ ~cancelled /\ s \notin Configures

Refuse(s) == over /\ Reject(s)

Duplicate(s) ==
  /\ ~over /\ (Queued(s) \/ (Carried(s) /\ ~AtRest))
  /\ Return(s, "duplicate")
  /\ UNCHANGED <<work, over, wake, loop, cancels, history>>

\* A failed message sent again while nothing else would start it.
Awaken(s) ==
  /\ ~over /\ ~Queued(s) /\ Carried(s) /\ AtRest
  /\ LET i == CHOOSE i \in DOMAIN carry : 
              carry[i].id = MsgOf[s] /\ \A j \in 1 .. i - 1 : carry[j].id # MsgOf[s]
     IN  queue' = <<carry[i]>> /\ carry' = RemoveAt(carry, i)
  /\ Admit(s, "queued")
  /\ UNCHANGED <<current, started, cancelled>>

TryJoin(s) ==
  /\ Unknown(s) /\ Joins(s)
  /\ pc' = [pc EXCEPT ![s] = "join"] /\ on' = [on EXCEPT ![s] = current.n]
  /\ UNCHANGED <<ret, work, over, wake, loop, cancels, history>>

\* Fresh input wakes carried work and becomes the prompt after it.
StartNow(s) ==
  /\ Unknown(s) /\ AtRest /\ carry # <<>>
  /\ StartExecution(Fresh(MsgOf[s]))
  /\ Admit(s, "queued")
  /\ UNCHANGED queue

Enqueue(s) ==
  /\ Unknown(s) /\ ~Joins(s) /\ ~(AtRest /\ carry # <<>>)
  /\ pendingLocked < MaxPending
  /\ queue' = Append(queue, Fresh(MsgOf[s]))
  /\ Admit(s, "queued")
  /\ UNCHANGED <<carry, current, started, cancelled>>

Block(s) ==
  /\ Unknown(s) /\ ~Joins(s) /\ ~(AtRest /\ carry # <<>>)
  /\ pendingLocked >= MaxPending
  /\ pc' = [pc EXCEPT ![s] = "wait"]
  /\ UNCHANGED <<on, ret, work, over, wake, loop, cancels, history>>

Attempt(s) ==
  /\ pc[s] \in {"new", "try"}
  /\ \/ Refuse(s) \/ Duplicate(s) \/ Awaken(s) \/ TryJoin(s)
     \/ StartNow(s) \/ Enqueue(s) \/ Block(s)

\* sendWithLifetime on the hub of the execution that s saw: finished, cancelled,
\* a duplicate, refused by validation, or admitted.
Stopped == current.stopped \/ over
HubOpen(s) == current.n = on[s] /\ ~current.finished
Join(s) ==
  /\ pc[s] = "join"
  /\ \/ /\ ~HubOpen(s) /\ pc' = [pc EXCEPT ![s] = "finished"]
        /\ UNCHANGED <<on, ret, work, history>>
     \/ /\ HubOpen(s) /\ Return(s, "rejected") /\ UNCHANGED <<work, history>>
     \/ /\ HubOpen(s) /\ ~Stopped /\ MsgOf[s] \in Items
        /\ Return(s, "duplicate") /\ UNCHANGED <<work, history>>
     \/ /\ HubOpen(s) /\ ~Stopped /\ MsgOf[s] \notin Items
        /\ current' = [current EXCEPT !.items = Append(@, [id |-> MsgOf[s], out |-> "accepted"])]
        /\ Return(s, "joined")
        /\ settled' = settled \ {MsgOf[s]} /\ withdrawn' = withdrawn \ {MsgOf[s]}
        /\ UNCHANGED <<queue, carry, started, cancelled>>
  /\ UNCHANGED <<over, wake, loop, cancels>>

\* Mutation: wait without looking whether the execution is still there.
AfterFinishedBlind(s) ==
  /\ pc[s] = "finished"
  /\ pc' = [pc EXCEPT ![s] = "wait"] /\ on' = [on EXCEPT ![s] = 0]
  /\ UNCHANGED <<ret, work, over, wake, loop, cancels, history>>
\* ErrRunFinished: wait for a change, unless the execution was replaced meanwhile.
AfterFinished(s) ==
  /\ pc[s] = "finished"
  /\ pc' = [pc EXCEPT ![s] = IF current.n = on[s] THEN "wait" ELSE "try"]
  /\ on' = [on EXCEPT ![s] = 0]
  /\ UNCHANGED <<ret, work, over, wake, loop, cancels, history>>

\* The end of a context in a wait or before the next attempt.
GiveUp(s) ==
  /\ \/ pc[s] \in {"try", "wait"} /\ s \in Impatient
     \/ pc[s] = "wait" /\ over
  /\ Reject(s)

-----------------------------------------------------------------------------
(* Cancel and the end of the lifetime. *)

Cancel ==
  /\ cancels < MaxCancels /\ cancels' = cancels + 1
  /\ cancelled' = TRUE
  /\ current' = IF Busy THEN [current EXCEPT !.stopped = TRUE] ELSE current
  /\ withdrawn' = {i.id : i \in {x \in ToSet(current.items) : x.out # "delivered"}}
  /\ failQueuedLocked
  /\ Notify(pc)
  /\ UNCHANGED <<started, over, loop, on, ret>>

EndLifetime ==
  /\ ~over /\ over' = TRUE
  /\ UNCHANGED <<work, wake, loop, calls, cancels, history>>

-----------------------------------------------------------------------------
(* The execution. *)

\* byID of the hub: the last item of an ID.
ByID(i) == \A j \in i + 1 .. Len(current.items) : current.items[j].id # current.items[i].id

\* One item is delivered, or fails for good.
Settle ==
  /\ Busy /\ ~current.finished
  /\ \E i \in DOMAIN current.items, o \in {"delivered", "failed"} :
       /\ current.items[i].out = "accepted" /\ ByID(i)
       /\ current' = [current EXCEPT !.items[i].out = o]
       /\ settled' = settled \cup {current.items[i].id}
  /\ UNCHANGED <<queue, carry, started, cancelled, over, wake, loop, calls, cancels, withdrawn>>

\* The hub finishes.  What is left fails: for good when the context ended, when no
\* Driver was dispatched, and at the end of a success; with run_failed otherwise.
Finish ==
  /\ Busy /\ ~current.finished
  /\ \E err \in {"nil", "retryable", "other"}, dispatched \in BOOLEAN :
       LET o == IF err = "nil" \/ Stopped \/ ~dispatched THEN "failed" ELSE "runFailed"
           left == {i \in DOMAIN current.items : current.items[i].out = "accepted"}
       IN  /\ err = "nil" => ~Stopped /\ Last(SelectSeq(current.items,
                LAMBDA i : i.id = current.entry.id)).out = "delivered"
           /\ ~dispatched => \A i \in DOMAIN current.items : current.items[i].out # "delivered"
           /\ current' = [current EXCEPT !.finished = TRUE, !.err = err,
                !.items = [i \in DOMAIN @ |-> IF i \in left THEN [@[i] EXCEPT !.out = o] ELSE @[i]]]
           /\ settled' = IF o = "failed" THEN settled \cup {current.items[i].id : i \in left}
                                         ELSE settled
  /\ UNCHANGED <<queue, carry, started, cancelled, over, wake, loop, calls, cancels, withdrawn>>

-----------------------------------------------------------------------------
(* run. *)

Loop ==
  /\ pump = "loop"
  /\ IF over /\ ~Busy
     THEN /\ failQueuedLocked /\ Notify(pc) /\ pump' = "done"
          /\ UNCHANGED <<current, started, cancelled, events, armed, ending, on, ret, withdrawn>>
     ELSE /\ pump' = "select" /\ ending' = over
          /\ armed' = (~Busy /\ queue # <<>> /\ ~Head(queue).ready)
          /\ IF ~Busy /\ queue # <<>> /\ Head(queue).ready
             THEN /\ queue' = Tail(queue) /\ StartExecution(Head(queue)) /\ Notify(pc)
                  /\ withdrawn' = {}
             ELSE /\ cancelled' = (cancelled \/ over)
                  /\ current' = IF over THEN [current EXCEPT !.stopped = TRUE] ELSE current
                  /\ UNCHANGED <<queue, carry, started, wake, pc, withdrawn>>
          /\ events' = IF events = 0 THEN current'.n ELSE events
          /\ UNCHANGED <<on, ret, settled>>
  /\ UNCHANGED <<over, cancels>>

\* The items that failed with run_failed, in order.
RunFailed == [i \in DOMAIN SelectSeq(current.items, LAMBDA x : x.out = "runFailed") |->
  [Fresh(SelectSeq(current.items, LAMBDA x : x.out = "runFailed")[i].id)
     EXCEPT !.retried = current.entry.retried]]

\* Mutation: a failed retry is retried again.
RetryableAgain == current.err = "retryable" /\ RunFailed # <<>>
\* The one automatic retry: the first failed message with the others carried.
Retryable == current.err = "retryable" /\ ~current.entry.retried /\ RunFailed # <<>>
Copies(m) == SelectSeq([i \in DOMAIN current.items |-> current.items[i].id], LAMBDA x : x = m)
\* Mutation: the retry forgets what ran with the first message.
RetryAlone(ready) == [Head(RunFailed) EXCEPT !.retried = TRUE, !.ready = ready]
Retry(ready) ==
  [Head(RunFailed) EXCEPT !.retried = TRUE, !.ready = ready,
     !.carried = FlattenSeq([i \in 1 .. Len(RunFailed) - 1 |-> Copies(RunFailed[i + 1].id)])]

\* Mutation: only the lifetime is looked at.
KeepCancelled ==
  IF current.err = "nil" \/ over THEN UNCHANGED <<queue, carry>>
  ELSE IF Retryable
       THEN /\ \E ready \in BOOLEAN : queue' = <<Retry(ready)>> \o queue
            /\ UNCHANGED carry
       ELSE carry' = carry \o RunFailed /\ UNCHANGED queue
\* completeExecution: keeps the failed input, unless it was cancelled.
Keep ==
  IF current.err = "nil" \/ cancelled \/ over THEN UNCHANGED <<queue, carry>>
  ELSE IF Retryable
       THEN /\ \E ready \in BOOLEAN : queue' = <<Retry(ready)>> \o queue
            /\ UNCHANGED carry
       ELSE carry' = carry \o RunFailed /\ UNCHANGED queue

Again == pump' = "loop" /\ armed' = FALSE /\ ending' = FALSE
CompleteExecution ==
  /\ pump = "select" /\ events # 0 /\ current.finished
  /\ Keep
  /\ settled' = IF cancelled \/ over THEN settled \cup {e.id : e \in ToSet(RunFailed)} ELSE settled
  /\ current' = Idle /\ events' = 0 /\ Again
  /\ Notify(pc)
  /\ UNCHANGED <<started, cancelled, over, on, ret, cancels, withdrawn>>

\* The other cases of the select: a token, the end of s.ctx, the timer.
Woken ==
  /\ pump = "select" /\ wake /\ wake' = FALSE /\ Again
  /\ UNCHANGED <<work, over, events, calls, cancels, history>>
LifetimeDone ==
  /\ pump = "select" /\ over /\ ~ending /\ Again
  /\ UNCHANGED <<work, over, wake, events, calls, cancels, history>>
Timer ==
  /\ pump = "select" /\ armed /\ Again
  /\ queue' = IF queue = <<>> THEN queue ELSE [queue EXCEPT ![1].ready = TRUE]
  /\ UNCHANGED <<carry, current, started, cancelled, over, wake, events,
                 calls, cancels, history>>

run == Loop \/ CompleteExecution \/ Woken \/ LifetimeDone \/ Timer

-----------------------------------------------------------------------------
Send(s) == Attempt(s) \/ Join(s) \/ AfterFinished(s) \/ GiveUp(s)

Next == (\E s \in Sender : Send(s)) \/ Cancel \/ EndLifetime \/ Settle \/ Finish \/ run

Spec == Init /\ [][Next]_vars

\* Goroutines run, a driver returns, and a call of Send that was made goes on.
FairSpec ==
  /\ Spec /\ WF_vars(run) /\ WF_vars(Finish)
  /\ \A s \in Sender : WF_vars(pc[s] # "new" /\ Send(s))

-----------------------------------------------------------------------------
(* Properties. *)

\* "Full queues block Send until space or cancellation, never silently drop input"
\* (docs/run-policy.md:77): a message for which Send returned nil is queued, carried
\* or in the current execution, unless its last outcome was final.
NothingLost ==
  \A s \in Sender : ret[s] \in {"queued", "joined", "duplicate"} =>
    MsgOf[s] \in Ids(queue) \cup Ids(carry) \cup Items \cup settled

\* Failures "retry at most once ... Other failures do not automatically retry"
\* (docs/api-reference.md:203): every execution is the first or the only retry of
\* one that a call of Send asked for, whatever fails in between.
RetriedOnce ==
  started <= 2 * Cardinality({s \in Sender : ret[s] = "queued"})

\* "Cancellation clears pending work instead of carrying it"
\* (docs/api-reference.md:203), also when it comes after the execution failed and
\* before completeExecution looks at it.
CancelWithdraws ==
  withdrawn \cap (Ids(queue) \cup Ids(carry)) = {}

\* However executions fail and calls race them, the Standby comes to rest: every call
\* of Send returned, no input is queued and no execution runs, so that at most carried
\* input waits "for the next host message" (docs/api-reference.md:203).  After the end
\* of its context it is done.  All of it hangs on the wakeups of notifyLocked.
Quiet == AtRest /\ \A s \in Sender : pc[s] \in {"new", "returned"}
StandbyServes == (~Quiet ~> Quiet) /\ (over ~> pump = "done")

==============================================================================
