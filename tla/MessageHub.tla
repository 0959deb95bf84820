------------------------------ MODULE MessageHub ------------------------------
(***************************************************************************)
(* The message hub of one execution (messages.go): senders admit           *)
(* supplemental messages, the driver claims them at provider boundaries    *)
(* and acknowledges them, the core completes turns and seals the hub.      *)
(* Every action is one critical section of messageHub.mu.  The order in    *)
(* which the core calls the hub is left open here; Invocation.tla fixes    *)
(* it.  A message is an opaque ID; its text is reduced to its size in      *)
(* provider units.                                                         *)
(***************************************************************************)
EXTENDS Integers, Sequences, FiniteSets, FiniteSetsExt

CONSTANTS
  Msg,          \* host message IDs
  Start,        \* the ID of the starting prompt
  Carried,      \* IDs a standby carries into this execution with the prompt
  Wrap,         \* the ID of the automatic wrap-up instruction
  Sender,       \* calls of Stream.Send
  Mortal,       \* the calls whose context may end; NoSender: the execution's may
  Doubt,        \* values MessageAck.MaybeDelivered may have
  MsgOf,        \* MsgOf[s]: the ID that call s sends
  TimingOf,     \* TimingOf[m]: "soon", "interrupt" or "after"
  UnitsOf,      \* UnitsOf[m]: framed size of m in provider units
  Durable,      \* IDs the Thread's stored receipts name as delivered
  MaxPending, MaxTurns,             \* MessagePolicy
  Resume,       \* the driver supports session resume
  DescriptorCap, \* the capability the driver declares
  ResolvedCaps  \* the capabilities resolution may trim it to

NoSender == "no sender"

\* The members of a finite set, in some order.
InSomeOrder(S) == CHOOSE q \in Bijection(1 .. Cardinality(S), S) : TRUE

All == Msg \cup {Wrap}
Timings == {"soon", "interrupt", "after"}
Boundaries == {"tool", "immediate", "stop", "turn_end"}
\* "refused" stands for provider_rejected, limit_exceeded and timeout: reasons
\* that return the message to the host and differ in wording only.
Reasons == {"none", "cancelled", "refused", "run_failed"}
Capability == [inRun : BOOLEAN, interrupt : BOOLEAN, maxUnits : Nat,
               boundaries : SUBSET {"tool", "stop"}]

ASSUME HubAssumption ==
  /\ Start \in Msg /\ Carried \subseteq Msg \ {Start} /\ Wrap \notin Msg
  /\ IsFiniteSet(Msg) /\ IsFiniteSet(Sender) /\ NoSender \notin Sender
  /\ MsgOf \in [Sender -> Msg] 
  /\ Mortal \subseteq Sender \cup {NoSender} /\ Doubt \subseteq BOOLEAN
  /\ TimingOf \in [Msg -> Timings] /\ UnitsOf \in [All -> Nat]
  /\ Durable \subseteq Msg \ Carried
  /\ MaxPending \in Nat \ {0} /\ MaxTurns \in Nat \ {0}
  /\ Resume \in BOOLEAN
  /\ DescriptorCap \in Capability /\ ResolvedCaps \subseteq Capability

VARIABLES
  items,      \* h.items: admitted messages in admission order
  st,         \* i.out.State, "none" before admission (h.byID[m] == nil)
  reason,     \* i.out.Reason
  claimed,    \* i.claimed
  turnOf,     \* i.out.Turn
  endOnly,    \* i.turnEndOnly
  dup,        \* i.duplicate
  owner,      \* the call whose context the item lives under, or NoSender (h.ctx)
  delivered,  \* h.delivered
  receipts,   \* h.receipts
  finished,   \* h.finished
  cancelled,  \* h.cancelled
  turns,      \* len(h.turns); h.turn is always turns + 1
  warned,     \* h.warned
  cap,        \* h.cap
  prompt,     \* h.promptIDs: the IDs the core itself answers for
  stage,      \* "prepare", then Driver.Run is on ("run") or has returned ("between")
  ctxDone,    \* h.ctx.Err() != nil
  expired,    \* calls whose own context ended
  pc,         \* progress of each Send call
  res         \* what each Send call returned

itemVars == <<items, st, reason, claimed, turnOf, endOnly, dup, owner>>
deliveryVars == <<delivered, receipts>>
runVars == <<finished, cancelled, turns, warned, cap, prompt, stage>>
sendVars == <<pc, res>>
hubVars == <<itemVars, deliveryVars, runVars, ctxDone, expired, sendVars>>

-----------------------------------------------------------------------------
(* Items. *)

InItems(m) == \E i \in DOMAIN items : items[i] = m
Known(m) == st[m] # "none"
Position(m) == CHOOSE i \in DOMAIN items : items[i] = m
Pending == {m \in Msg : InItems(m) /\ st[m] = "accepted" /\ ~claimed[m]}

\* i.ctx.Err() != nil
Dead(m) == IF owner[m] = NoSender THEN ctxDone ELSE owner[m] \in expired

\* The framed text grows when Ack adds the duplicate warning.
Units(m) == UnitsOf[m] + IF dup[m] THEN 1 ELSE 0

\* notifyLocked closes h.changed: every call blocked on capacity re-checks.
Notified == [s \in Sender |-> IF pc[s] = "waiting" THEN "ready" ELSE pc[s]]
Notify == pc' = Notified /\ UNCHANGED res

\* failLocked on every message of F, with reason r[m].
Fail(F, r) ==
  /\ st' = [m \in All |-> IF m \in F THEN "failed" ELSE st[m]]
  /\ reason' = [m \in All |-> IF m \in F THEN r[m] ELSE reason[m]]

\* validateMessageLocked under capability c.
Unsupported(m, c) ==
  \/ ~Resume /\ ~c.inRun
  \/ TimingOf[m] = "interrupt" /\ ~c.interrupt
Oversize(units, c) == c.maxUnits > 0 /\ units > c.maxUnits
Invalid(m, units, c) == Unsupported(m, c) \/ Oversize(units, c)

-----------------------------------------------------------------------------
(* Admission: sendWithLifetime. *)

Return(s, r) ==
  /\ pc' = [pc EXCEPT ![s] = "done"]
  /\ res' = [res EXCEPT ![s] = r]

\* The first critical section only looks at finished.
SendCheck(s) ==
  /\ pc[s] = "idle"
  /\ \/ finished /\ Return(s, "error")
     \/ ~finished /\ pc' = [pc EXCEPT ![s] = "ready"] /\ UNCHANGED res
  /\ UNCHANGED <<itemVars, deliveryVars, runVars, ctxDone, expired>>

Gone(s) == cancelled \/ ctxDone \/ s \in expired

SendRejected(s) ==
  /\ pc[s] = "ready"
  /\ \/ finished /\ Return(s, "error")
     \/ ~finished /\ Gone(s) /\ Return(s, "error")
     \/ /\ ~finished /\ ~Gone(s)
        /\ Invalid(MsgOf[s], UnitsOf[MsgOf[s]], cap) /\ Return(s, "error")
  /\ UNCHANGED <<itemVars, deliveryVars, runVars, ctxDone, expired>>

AdmissibleUnchecked(s) ==
  /\ pc[s] = "ready" /\ ~Gone(s) /\ ~Invalid(MsgOf[s], UnitsOf[MsgOf[s]], cap)
Admissible(s) ==
  /\ pc[s] = "ready" /\ ~finished /\ ~Gone(s)
  /\ ~Invalid(MsgOf[s], UnitsOf[MsgOf[s]], cap)

SendDuplicate(s) ==
  /\ Admissible(s) /\ Known(MsgOf[s])
  /\ Return(s, "ok")
  /\ UNCHANGED <<itemVars, deliveryVars, runVars, ctxDone, expired>>

\* The ID is in the Thread's receipts: report it delivered, do no work.
SendDeduped(s) ==
  /\ Admissible(s) /\ ~Known(MsgOf[s]) /\ MsgOf[s] \in delivered
  /\ items' = Append(items, MsgOf[s])
  /\ st' = [st EXCEPT ![MsgOf[s]] = "delivered"]
  /\ owner' = [owner EXCEPT ![MsgOf[s]] = s]
  /\ Return(s, "ok")
  /\ UNCHANGED <<reason, claimed, turnOf, endOnly, dup, deliveryVars, runVars,
                 ctxDone, expired>>

HasRoom == Cardinality(Pending) < MaxPending

SendBlocked(s) ==
  /\ Admissible(s) /\ ~Known(MsgOf[s]) /\ MsgOf[s] \notin delivered
  /\ ~HasRoom
  /\ pc' = [pc EXCEPT ![s] = "waiting"]
  /\ UNCHANGED <<itemVars, deliveryVars, runVars, ctxDone, expired, res>>

SendAdmitted(s) ==
  /\ Admissible(s) /\ ~Known(MsgOf[s]) /\ MsgOf[s] \notin delivered
  /\ HasRoom
  /\ items' = Append(items, MsgOf[s])
  /\ st' = [st EXCEPT ![MsgOf[s]] = "accepted"]
  /\ owner' = [owner EXCEPT ![MsgOf[s]] = s]
  /\ pc' = [Notified EXCEPT ![s] = "done"]
  /\ res' = [res EXCEPT ![s] = "ok"]
  /\ UNCHANGED <<reason, claimed, turnOf, endOnly, dup, deliveryVars, runVars,
                 ctxDone, expired>>

\* The select on ctx.Done and h.ctx.Done while blocked on capacity.
SendGivesUp(s) ==
  /\ pc[s] = "waiting" /\ (ctxDone \/ s \in expired)
  /\ Return(s, "error")
  /\ UNCHANGED <<itemVars, deliveryVars, runVars, ctxDone, expired>>

Send(s) ==
  \/ SendCheck(s) \/ SendRejected(s) \/ SendDuplicate(s) \/ SendDeduped(s)
  \/ SendBlocked(s) \/ SendAdmitted(s) \/ SendGivesUp(s)

\* The context.AfterFunc of an unclaimed item whose context ended.
Withdraw(m) ==
  /\ m \in Pending /\ owner[m] \in expired
  /\ Fail({m}, [x \in {m} |-> "cancelled"])
  /\ Notify
  /\ UNCHANGED <<items, claimed, turnOf, endOnly, dup, owner, deliveryVars,
                 runVars, ctxDone, expired>>

-----------------------------------------------------------------------------
(* Claims: claimLocked and prependWrapUpLocked. *)

ClaimOpen(b) ==
  /\ ~finished /\ ~cancelled /\ ~ctxDone /\ turns < MaxTurns
  /\ \/ b = "turn_end"
     \/ b = "immediate" /\ cap.interrupt
     \/ b \in cap.boundaries

AtEnd(b) == b \in {"stop", "turn_end"}

\* Items whose timing lets boundary b take them.
Eligible(b) ==
  {m \in Pending :
     /\ ~Dead(m)
     /\ endOnly[m] => AtEnd(b)
     /\ TimingOf[m] = "after" => AtEnd(b)
     /\ TimingOf[m] = "interrupt" /\ ~endOnly[m] => b = "immediate"}

TooLarge(m) == Oversize(Units(m), cap)

\* Combined size of a batch: items are joined by a two-unit separator.
Before(m, S) == {x \in S : Position(x) < Position(m)}
BatchUnits(S) == MapThenSumSet(LAMBDA x : Units(x) + 2, S)

\* The first item that no longer fits ends the scan (batchFull).
OverflowsUnjoined(m, S) ==
  /\ cap.maxUnits > 0 /\ Before(m, S) # {}
  /\ Units(m) + MapThenSumSet(Units, Before(m, S)) > cap.maxUnits
Overflows(m, S) ==
  /\ cap.maxUnits > 0 /\ Before(m, S) # {}
  /\ Units(m) + BatchUnits(Before(m, S)) > cap.maxUnits
ScannedNewestFirst(b) ==
  LET fit == {m \in Eligible(b) : ~TooLarge(m)}
  IN  {m \in Pending : \A x \in fit : Overflows(x, fit) => Position(m) >= Position(x)}
Scanned(b) ==
  LET fit == {m \in Eligible(b) : ~TooLarge(m)}
  IN  {m \in Pending : \A x \in fit : Overflows(x, fit) => Position(m) < Position(x)}

ClaimDead(b) == {m \in Scanned(b) : Dead(m)}
ClaimTooLarge(b) == {m \in Scanned(b) \cap Eligible(b) : TooLarge(m)}
Batch(b) == {m \in Scanned(b) \cap Eligible(b) : ~TooLarge(m)}

\* The batch is delivered to the turn after the active one.
Successor(b) ==
  \/ b = "stop"
  \/ b = "immediate" /\ \E m \in Batch(b) : TimingOf[m] = "interrupt"
ClaimTurn(b) == IF Successor(b) THEN turns + 2 ELSE turns + 1

\* There is no turn left for the batch.
PastTurnLimit(b) == Successor(b) /\ turns + 1 >= MaxTurns

wrapUpThreshold == LET n == MaxTurns - MaxTurns \div 5
                   IN  IF n < MaxTurns - 1 THEN n ELSE MaxTurns - 1

WrapUpJoins(b) ==
  /\ Batch(b) # {} /\ MaxTurns > 1
  /\ warned \/ ClaimTurn(b) > wrapUpThreshold
  /\ \/ ~Known(Wrap)
     \/ st[Wrap] = "accepted" /\ ~claimed[Wrap] /\ (endOnly[Wrap] => AtEnd(b))
  /\ cap.maxUnits > 0 => Units(Wrap) + BatchUnits(Batch(b)) <= cap.maxUnits
Taken(b) == IF WrapUpJoins(b) THEN Batch(b) \cup {Wrap} ELSE Batch(b)

ClaimFailures(b) ==
  Fail(ClaimDead(b) \cup ClaimTooLarge(b),
       [m \in ClaimDead(b) \cup ClaimTooLarge(b) |->
          IF m \in ClaimDead(b) THEN "cancelled" ELSE "refused"])

\* The successor turn would pass MaxTurns: the batch stays pending.
ClaimAtTurnLimit(b) ==
  /\ ClaimOpen(b) /\ PastTurnLimit(b)
  /\ ClaimFailures(b)
  /\ UNCHANGED <<items, claimed, turnOf, endOnly, dup, owner, deliveryVars,
                 runVars, ctxDone, expired, sendVars>>

\* A claim of the whole batch by the driver, or by the core between two runs.
ClaimBatch(b) ==
  /\ ClaimOpen(b) /\ ~PastTurnLimit(b)
  /\ LET taken == Taken(b)
         dead == ClaimDead(b)
         large == ClaimTooLarge(b)
         turn == ClaimTurn(b)
     IN  /\ claimed' = [m \in All |-> claimed[m] \/ m \in taken]
         /\ turnOf' = [m \in All |-> IF m \in taken THEN turn ELSE turnOf[m]]
         /\ st' = [m \in All |-> IF m \in dead \cup large THEN "failed"
                                 ELSE IF m \in taken THEN "accepted"
                                 ELSE st[m]]
         /\ reason' = [m \in All |-> IF m \in dead THEN "cancelled"
                                     ELSE IF m \in large THEN "refused"
                                     ELSE reason[m]]
  /\ Notify
  /\ UNCHANGED <<items, endOnly, dup, owner, deliveryVars, finished, cancelled,
                 turns, warned, cap, stage, ctxDone, expired>>

DriverClaim(b) ==
  /\ stage = "run"
  /\ (ClaimBatch(b) /\ UNCHANGED prompt) \/ ClaimAtTurnLimit(b)

\* The core's Claim(BoundaryTurnEnd) and the setPrompt of the batch it got;
\* nothing reads promptIDs in between.
CoreClaim ==
  /\ stage = "between"
  /\ ClaimBatch("turn_end")
  /\ prompt' = IF Taken("turn_end") = {} THEN prompt ELSE Taken("turn_end")

-----------------------------------------------------------------------------
(* Acknowledgement: Ack, ackStart and the failing half of ackPrompt. *)

Outstanding(m) == stage # "prepare" /\ claimed[m] /\ st[m] = "accepted"
Release(m) == claimed' = [claimed EXCEPT ![m] = FALSE]
Deliver(m) ==
  /\ st' = [st EXCEPT ![m] = "delivered"]
  /\ delivered' = delivered \cup {m}
  /\ receipts' = Append(receipts, m)

\* The wrap-up instruction joins h.items only when it is delivered.
AckDelivered(m) ==
  /\ Outstanding(m)
  /\ Release(m) /\ Deliver(m)
  /\ items' = IF m = Wrap THEN Append(items, m) ELSE items
  /\ Notify
  /\ UNCHANGED <<reason, turnOf, endOnly, dup, owner, runVars, ctxDone, expired>>

MayRequeue(m) == ~cancelled /\ ~finished /\ ~ctxDone /\ ~Dead(m)

AckRequeued(m, maybeDelivered) ==
  /\ Outstanding(m) /\ MayRequeue(m)
  /\ Release(m)
  /\ endOnly' = [endOnly EXCEPT ![m] = TRUE]
  /\ dup' = [dup EXCEPT ![m] = @ \/ maybeDelivered]
  /\ Notify
  /\ UNCHANGED <<items, st, reason, turnOf, owner, deliveryVars, runVars,
                 ctxDone, expired>>

\* A refused delivery, or a requeue that came too late.
AckFailed(m) ==
  /\ Outstanding(m)
  /\ Release(m)
  /\ Fail({m}, [x \in {m} |-> IF cancelled \/ ctxDone \/ Dead(m)
                            THEN "cancelled" ELSE "refused"])
  /\ Notify
  /\ UNCHANGED <<items, turnOf, endOnly, dup, owner, deliveryVars, runVars,
                 ctxDone, expired>>

\* The driver acknowledges what it claimed, never the prompt it was given.
Ack(m) ==
  /\ m \notin prompt \cup {Start}
  /\ \/ AckDelivered(m)
     \/ \E b \in Doubt : AckRequeued(m, b)
     \/ AckFailed(m)

AckStart(success) ==
  /\ Outstanding(Start)
  /\ Release(Start)
  /\ IF success
     THEN Deliver(Start) /\ UNCHANGED reason
     ELSE /\ Fail({Start}, [x \in {Start} |-> IF ctxDone THEN "cancelled" ELSE "run_failed"])
          /\ UNCHANGED deliveryVars
  /\ UNCHANGED <<items, turnOf, endOnly, dup, owner, runVars, ctxDone, expired,
                 sendVars>>

PromptDelivered(m) == m \in prompt /\ AckDelivered(m)

PromptFailed(m) ==
  /\ m \in prompt /\ Outstanding(m)
  /\ Release(m)
  /\ Fail({m}, [x \in {m} |-> IF cancelled \/ ctxDone THEN "cancelled" ELSE "run_failed"])
  /\ Notify
  /\ UNCHANGED <<items, turnOf, endOnly, dup, owner, deliveryVars, runVars,
                 ctxDone, expired>>

-----------------------------------------------------------------------------
(* What the core does: load, setCapability, the dispatch, completeTurn,    *)
(* cancelPending, closeIfIdle, finish.                                     *)

OnlyUnclaimedDelivered == {m \in Msg : /\ InItems(m) /\ st[m] = "accepted"
                            /\ m \in Durable \cup delivered /\ ~claimed[m]}
AlreadyDelivered ==
  {m \in Msg : /\ InItems(m) /\ st[m] = "accepted"
               /\ m \in Durable \cup delivered /\ (~claimed[m] \/ m = Start)}
\* Messages admitted before the Thread lookup meet its durable receipts.
Load ==
  /\ stage = "prepare" /\ ~finished /\ Durable \ delivered # {}
  /\ delivered' = delivered \cup Durable
  /\ receipts' = receipts \o InSomeOrder(Durable \ delivered)
  /\ st' = [m \in All |-> IF m \in AlreadyDelivered THEN "delivered" ELSE st[m]]
  /\ claimed' = [m \in All |-> claimed[m] /\ m \notin AlreadyDelivered]
  /\ turnOf' = [m \in All |-> IF m \in AlreadyDelivered THEN 0 ELSE turnOf[m]]
  /\ Notify
  /\ UNCHANGED <<items, reason, endOnly, dup, owner, runVars, ctxDone, expired>>

SetCapability(c) ==
  /\ stage = "prepare" /\ ~finished
  /\ cap' = c
  /\ LET bad == {m \in Pending \ {Start} : Dead(m) \/ Invalid(m, Units(m), c)}
     IN  Fail(bad, [m \in bad |-> IF Dead(m) THEN "cancelled" ELSE "refused"])
  /\ Notify
  /\ UNCHANGED <<items, claimed, turnOf, endOnly, dup, owner, deliveryVars,
                 finished, cancelled, turns, warned, prompt, stage, ctxDone,
                 expired>>

\* Driver.Run starts on the prompt, and returns.
StartDriver ==
  /\ stage # "run" /\ ~finished
  /\ stage' = "run"
  /\ UNCHANGED <<itemVars, deliveryVars, finished, cancelled, turns, warned,
                 cap, prompt, ctxDone, expired, sendVars>>

DriverReturns ==
  /\ stage = "run"
  /\ stage' = "between"
  /\ UNCHANGED <<itemVars, deliveryVars, finished, cancelled, turns, warned,
                 cap, prompt, ctxDone, expired, sendVars>>

CompleteTurn(ok) ==
  /\ stage # "prepare" /\ ~finished /\ turns < MaxTurns
  /\ turns' = turns + 1
  /\ warned' = (warned \/ /\ ok /\ turns + 1 >= wrapUpThreshold
                          /\ turns + 1 < MaxTurns /\ (Resume \/ cap.inRun))
  /\ UNCHANGED <<itemVars, deliveryVars, finished, cancelled, cap, prompt,
                 stage, ctxDone, expired, sendVars>>

\* Stream.Cancel and the context watcher of openStream.
CancelPending ==
  /\ ctxDone /\ ~cancelled
  /\ cancelled' = TRUE
  /\ Fail(Pending, [m \in Pending |-> "cancelled"])
  /\ Notify
  /\ UNCHANGED <<items, claimed, turnOf, endOnly, dup, owner, deliveryVars,
                 finished, turns, warned, cap, prompt, stage, ctxDone, expired>>

Unsettled == {m \in All : InItems(m) /\ st[m] = "accepted"}

CloseIfIdle ==
  /\ ~finished /\ Unsettled = {}
  /\ finished' = TRUE
  /\ Notify
  /\ UNCHANGED <<itemVars, deliveryVars, cancelled, turns, warned, cap, prompt,
                 stage, ctxDone, expired>>

Finish(r) ==
  /\ ~finished
  /\ finished' = TRUE
  /\ Fail(Unsettled, [m \in Unsettled |-> r])
  /\ Notify
  /\ UNCHANGED <<items, claimed, turnOf, endOnly, dup, owner, deliveryVars,
                 cancelled, turns, warned, cap, prompt, stage, ctxDone, expired>>

-----------------------------------------------------------------------------
(* Contexts end at any time. *)

ContextDone ==
  /\ NoSender \in Mortal /\ ~ctxDone /\ ctxDone' = TRUE
  /\ UNCHANGED <<itemVars, deliveryVars, runVars, expired, sendVars>>

SenderExpires(s) ==
  /\ s \in Mortal \ expired
  /\ expired' = expired \cup {s}
  /\ UNCHANGED <<itemVars, deliveryVars, runVars, ctxDone, sendVars>>

-----------------------------------------------------------------------------

\* carryPrompt for each carried message, then startMessage.
Init ==
  LET admitted == Carried \cup {Start}
  IN  /\ items = InSomeOrder(Carried) \o <<Start>>
      /\ st = [m \in All |-> IF m \in admitted THEN "accepted" ELSE "none"]
      /\ reason = [m \in All |-> "none"]
      /\ claimed = [m \in All |-> m \in admitted]
      /\ turnOf = [m \in All |-> IF m \in admitted THEN 1 ELSE 0]
      /\ endOnly = [m \in All |-> FALSE]
      /\ dup = [m \in All |-> FALSE]
      /\ owner = [m \in All |-> NoSender]
      /\ delivered = {} /\ receipts = <<>>
      /\ finished = FALSE /\ cancelled = FALSE
      /\ turns = 0 /\ warned = FALSE /\ cap = DescriptorCap
      /\ prompt = Carried /\ stage = "prepare"
      /\ ctxDone = FALSE /\ expired = {}
      /\ pc = [s \in Sender |-> "idle"]
      /\ res = [s \in Sender |-> "none"]

SenderNext == \E s \in Sender : Send(s) \/ SenderExpires(s)
DriverNext == \/ \E b \in Boundaries : DriverClaim(b)
              \/ \E m \in All : Ack(m)
              \/ DriverReturns
CoreNext ==
  \/ Load \/ (\E c \in ResolvedCaps : SetCapability(c))
  \/ StartDriver \/ CoreClaim
  \/ (\E ok \in BOOLEAN : AckStart(ok) \/ CompleteTurn(ok))
  \/ (\E m \in All : PromptDelivered(m) \/ PromptFailed(m))
  \/ CloseIfIdle \/ (\E r \in Reasons \ {"none"} : Finish(r))
Environment == ContextDone \/ CancelPending \/ \E m \in Msg : Withdraw(m)

Next == SenderNext \/ DriverNext \/ CoreNext \/ Environment

Spec == Init /\ [][Next]_hubVars

-----------------------------------------------------------------------------
(* Properties. *)

\* Types of the hub's state.
TypeOK ==
  /\ items \in Seq(All)
  /\ st \in [All -> {"none", "accepted", "delivered", "failed"}]
  /\ reason \in [All -> Reasons]
  /\ claimed \in [All -> BOOLEAN] /\ endOnly \in [All -> BOOLEAN]
  /\ dup \in [All -> BOOLEAN] /\ turnOf \in [All -> 0 .. MaxTurns]
  /\ owner \in [All -> Sender \cup {NoSender}]
  /\ delivered \subseteq All /\ receipts \in Seq(All)
  /\ finished \in BOOLEAN /\ cancelled \in BOOLEAN /\ warned \in BOOLEAN
  /\ turns \in Nat /\ cap \in Capability /\ prompt \subseteq All
  /\ stage \in {"prepare", "run", "between"} /\ ctxDone \in BOOLEAN /\ expired \subseteq Sender
  /\ pc \in [Sender -> {"idle", "ready", "waiting", "done"}]
  /\ res \in [Sender -> {"none", "ok", "error"}]

\* Once finish or closeIfIdle has sealed the hub, every admitted message has a
\* final outcome: no admission, requeue or late acknowledgement reopens one.
SealedMeansSettled == finished => Unsettled = {}

\* An ID is delivered at most once: the receipts that will be persisted hold
\* no ID twice, are exactly h.delivered, and no ID in them is still in the
\* driver's hands (messages.go Ack, ackStart, load).
DeliveredOnce ==
  /\ \A i, j \in DOMAIN receipts : receipts[i] = receipts[j] => i = j
  /\ delivered = {receipts[i] : i \in DOMAIN receipts}
  /\ \A m \in All : /\ st[m] = "delivered" => m \in delivered
                    /\ m \in delivered => st[m] # "accepted"
                    /\ m \in delivered \ Durable => st[m] = "delivered"

\* No turn beyond MaxTurns is completed, and no message is handed to one, nor
\* to a turn further ahead than the successor of the active turn
\* (completeTurn's cap and claimLocked's turn reservation).
WithinTurnBudget ==
  /\ turns <= MaxTurns
  /\ \A m \in All : turnOf[m] <= MaxTurns /\ turnOf[m] <= turns + 2

Fresh == {m \in Pending : ~endOnly[m]}

\* Send admits at most MaxPending unclaimed messages; only messages the driver
\* gave back (requeued, hence turnEndOnly) may lift the queue above it.
FreshPendingBounded == Cardinality(Fresh) <= MaxPending

\* No lost wakeup: a Send blocked on capacity really has no capacity, except
\* in the last turn, where claimLocked may drop expired items and return
\* before notifyLocked; the seal of that turn wakes it.
BlockedOnlyWhenFull ==
  (\E s \in Sender : pc[s] = "waiting") =>
     Cardinality(Pending) >= MaxPending \/ turns + 1 >= MaxTurns

\* An outcome the host has seen as delivered or failed never changes.
OutcomesFinal ==
  [][\A m \in All : st[m] \in {"delivered", "failed"} =>
        st'[m] = st[m] /\ reason'[m] = reason[m]]_hubVars

NewlyClaimed == {m \in All : ~claimed[m] /\ claimed'[m]}

\* A claim keeps admission order: a message is never taken past an earlier
\* pending one of the same kind, also when the batch is cut at MaxUnits.
ClaimsInOrder ==
  [][\A m \in NewlyClaimed \ {Wrap} : \A x \in Before(m, Pending) :
        TimingOf[x] = TimingOf[m] /\ endOnly[x] = endOnly[m] =>
           claimed'[x] \/ st'[x] = "failed"]_hubVars

\* One claim, the wrap-up instruction included, fits the provider's budget
\* once hooks join its items with two newlines; and the wrap-up instruction
\* never travels without host input.
ClaimsFitBudget ==
  [][/\ NewlyClaimed # {} /\ cap.maxUnits > 0 =>
          MapThenSumSet(Units, NewlyClaimed) + 2 * (Cardinality(NewlyClaimed) - 1)
             <= cap.maxUnits
     /\ Wrap \in NewlyClaimed => NewlyClaimed # {Wrap}]_hubVars
=============================================================================
