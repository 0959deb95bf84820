--------------------------- MODULE InvocationProofs ---------------------------
(***************************************************************************)
(* An execution uses its hub as MessageHub specifies, so the hub's         *)
(* theorems hold of it; and a Send that succeeded is answered in the       *)
(* Result.                                                                 *)
(***************************************************************************)
EXTENDS Invocation, MessageHubProofs

\* Where run_failed can come from: the acknowledgement of a failed turn that
\* still has to be judged, or an execution that has recorded its error.
Blamed ==
  (\E m \in All : reason[m] = "run_failed") =>
     dispatched /\ (failure \/ (core \in {"ackPrompt", "persist"} /\ ~ok /\ ~inRun))

\* What the loop knows at each of its steps.
LoopInv ==
  /\ InvTypeOK /\ Blamed
  /\ core = "done" => finished
  /\ core = "cleanup" => finished \/ failure \/ ~dispatched
  /\ core \in {"running", "ackStart", "ackPrompt", "persist"} => dispatched
  /\ inRun => ok
  /\ \A s \in Sender : res[s] = "ok" => st[MsgOf[s]] # "none"

ExecInv == HubInv /\ LoopInv

\* Every step of the core, the driver and the callers is a step of the hub or
\* leaves it alone.
LEMMA StepsUseHub == ASSUME HubInv, InvTypeOK, InvNext PROVE Next \/ UNCHANGED hubVars
<1>1. CASE CoreStep
  <2>1. CASE ResolveThread \/ ResolveCapability \/ SkipDeduped \/ Dispatch
    BY <2>1, Zenon DEF ResolveThread, ResolveCapability, SkipDeduped, Dispatch, Next, CoreNext
  <2>2. CASE AcknowledgeStart \/ EndTurn
    <3>1. AckStart(ok) \/ CompleteTurn(ok) \/ UNCHANGED hubVars
      BY <2>2, Zenon DEF AcknowledgeStart, EndTurn
    <3>2. \E success \in BOOLEAN : success = ok
      BY Zenon DEF InvTypeOK
    <3>3. QED
      BY <3>1, <3>2, Zenon DEF Next, CoreNext
  <2>3. CASE AcknowledgePrompt
    BY <2>3, Zenon DEF AcknowledgePrompt, Next, CoreNext, HubInv, TypeOK
  <2>4. CASE TurnFails \/ TurnLimit \/ Seal \/ CannotContinue \/ SealEmpty
    BY <2>4, Zenon DEF TurnFails, TurnLimit, Seal, CannotContinue, SealEmpty, Next, CoreNext, Reasons
  <2>5. CASE Continue
    BY <2>5, Zenon DEF Continue, Next, CoreNext
  <2>6. CASE Cleanup
    BY <2>6, Zenon DEF Cleanup, CleanupReason, Next, CoreNext, Reasons
  <2>7. QED
    BY <1>1, <2>1, <2>2, <2>3, <2>4, <2>5, <2>6, Zenon DEF CoreStep
<1>2. CASE RunReturns
  BY <1>2, Zenon DEF RunReturns, DriverReturn, Next, DriverNext
<1>3. CASE Choice
  BY <1>3, Zenon DEF Choice, PrepareFails, ResumeRejected, TurnCompleted, DriverStep, Beside,
              Next, SenderNext, DriverNext, Environment
<1>4. CASE Background
  BY <1>4, Zenon DEF Background, Beside, Next, Environment
<1>5. CASE \E s \in Sender : Sending(s)
  BY <1>5, Zenon DEF Sending, Beside, Next, SenderNext
<1>6. QED
  BY <1>1, <1>2, <1>3, <1>4, <1>5, Zenon DEF InvNext

-----------------------------------------------------------------------------
(* What hub steps preserve. *)

\* What the host knows of a message and of the seal only grows.
Grows ==
  /\ \A m \in All : st[m] # "none" => st'[m] # "none"
  /\ finished => finished'
  /\ \A s \in Sender : res'[s] = "ok" => res[s] = "ok" \/ st'[MsgOf[s]] # "none"

\* No step of the hub takes back a stage it reached or a message it admitted.
LEMMA NextGrows == ASSUME HubInv, Next PROVE Grows
<1> USE HubAssumption DEF HubInv, All, Grows, TypeOK
<1>1. ASSUME NEW s \in Sender, Send(s) PROVE Grows
  <2>1. CASE SendCheck(s) \/ SendBlocked(s)
    <3>1. UNCHANGED <<st, finished>> /\ (UNCHANGED res \/ res' = [res EXCEPT ![s] = "error"])
      BY <2>1, Zenon DEF SendCheck, SendBlocked, Return, itemVars, runVars
    <3>2. \A q \in Sender : res'[q] = "ok" => res[q] = "ok"
      BY <3>1
    <3> QED  BY <3>1, <3>2, Zenon
  <2>1a. CASE SendRejected(s) \/ SendGivesUp(s)
    BY <2>1a DEF SendRejected, SendGivesUp, Return, itemVars, runVars
  <2>2. CASE SendDuplicate(s)
    BY <2>2, Zenon DEF SendDuplicate, Return, Known, itemVars, runVars
  <2>3. CASE SendDeduped(s)
    BY <2>3, Zenon DEF SendDeduped, Return, Known, itemVars, runVars
  <2>4. CASE SendAdmitted(s)
    BY <2>4, Zenon DEF SendAdmitted, Notified, Return, Known, itemVars, runVars
  <2>5. QED
    BY <1>1, <2>1, <2>1a, <2>2, <2>3, <2>4, Zenon DEF Send
<1>2. ASSUME NEW s \in Sender, SenderExpires(s) PROVE Grows
  BY <1>2, Zenon DEF SenderExpires, itemVars, runVars, sendVars
<1>3. ASSUME NEW b, ClaimBatch(b) PROVE Grows
  BY <1>3, Zenon DEF ClaimBatch, Notify
<1>4. ASSUME NEW b, ClaimAtTurnLimit(b) PROVE Grows
  BY <1>4, Zenon DEF ClaimAtTurnLimit, ClaimFailures, Fail, runVars, sendVars
<1>5. ASSUME NEW m \in All,
             Ack(m) \/ PromptDelivered(m) \/ PromptFailed(m)
      PROVE  Grows
  <2>1. CASE AckDelivered(m) \/ PromptDelivered(m)
    BY <2>1, Zenon DEF AckDelivered, PromptDelivered, Deliver, Notify, runVars
  <2>2. CASE AckFailed(m) \/ PromptFailed(m)
    BY <2>2 DEF AckFailed, PromptFailed, Fail, Notify, runVars
  <2>3. ASSUME NEW b \in Doubt, AckRequeued(m, b) PROVE Grows
    BY <2>3, Zenon DEF AckRequeued, Notify, runVars
  <2>4. QED
    BY <1>5, <2>1, <2>2, <2>3, Zenon DEF Ack
<1>6. ASSUME NEW success \in BOOLEAN, AckStart(success) \/ CompleteTurn(success) PROVE Grows
  <2>1. CASE AckStart(success)
    BY <2>1 DEF AckStart, Deliver, Fail, runVars, sendVars
  <2>2. CASE CompleteTurn(success)
    BY <2>2, Zenon DEF CompleteTurn, itemVars, sendVars
  <2>3. QED
    BY <1>6, <2>1, <2>2
<1>7. CASE StartDriver \/ DriverReturns \/ CloseIfIdle \/ ContextDone
  BY <1>7, Zenon DEF StartDriver, DriverReturns, CloseIfIdle, ContextDone, Notify, itemVars,
              runVars, sendVars
<1>8. CASE Load
  BY <1>8, Zenon DEF Load, Notify, runVars
<1>9. ASSUME NEW c \in ResolvedCaps, SetCapability(c) PROVE Grows
  BY <1>9, Zenon DEF SetCapability, Fail, Notify
<1>10. ASSUME NEW r \in Reasons, Finish(r) PROVE Grows
  BY <1>10, Zenon DEF Finish, Fail, Notify
<1>11. CASE CancelPending
  BY <1>11, Zenon DEF CancelPending, Fail, Notify
<1>12. ASSUME NEW m \in Msg, Withdraw(m) PROVE Grows
  BY <1>12, Zenon DEF Withdraw, Fail, Notify, runVars
<1>13. QED
  BY <1>1, <1>2, <1>3, <1>4, <1>5, <1>6, <1>7, <1>8, <1>9, <1>10, <1>11, <1>12, ZenonT(40)
  DEF Next, SenderNext, DriverNext, CoreNext, Environment, DriverClaim, CoreClaim

\* A step that leaves the hub alone grows it trivially.
LEMMA StutterGrows == ASSUME UNCHANGED hubVars PROVE Grows
BY Zenon DEF Grows, hubVars, itemVars, runVars, sendVars

\* No new message is blamed on the run.
NoBlame == \A m \in All : reason'[m] = "run_failed" => reason[m] = "run_failed"

\* Only a failed acknowledgement of the prompt and the teardown blame the run.
LEMMA OthersBlameNobody ==
  ASSUME HubInv,
         \/ UNCHANGED hubVars
         \/ Load \/ (\E c \in ResolvedCaps : SetCapability(c))
         \/ StartDriver \/ DriverReturns \/ CoreClaim \/ CloseIfIdle
         \/ (\E success \in BOOLEAN : CompleteTurn(success))
         \/ AckStart(TRUE) \/ (\E m \in All : PromptDelivered(m) \/ Ack(m))
         \/ (\E b \in Boundaries : DriverClaim(b))
         \/ Finish("refused") \/ Finish("cancelled")
         \/ Environment \/ SenderNext
  PROVE  NoBlame
<1> USE HubAssumption DEF HubInv, All, NoBlame, TypeOK
<1>1. CASE UNCHANGED hubVars \/ StartDriver \/ DriverReturns \/ CloseIfIdle \/ Load
  BY <1>1, Zenon DEF hubVars, itemVars, StartDriver, DriverReturns, CloseIfIdle, Load
<1>2. ASSUME NEW c \in ResolvedCaps, SetCapability(c) PROVE NoBlame
  BY <1>2, Zenon DEF SetCapability, Fail
<1>3. ASSUME NEW success \in BOOLEAN, CompleteTurn(success) PROVE NoBlame
  BY <1>3, Zenon DEF CompleteTurn, itemVars
<1>4. CASE AckStart(TRUE)
  BY <1>4, Zenon DEF AckStart
<1>5. ASSUME NEW m \in All, PromptDelivered(m) \/ Ack(m) PROVE NoBlame
  BY <1>5, Zenon DEF Ack, AckDelivered, AckRequeued, AckFailed, PromptDelivered, Fail
<1>6. ASSUME NEW b, ClaimBatch(b) \/ ClaimAtTurnLimit(b) PROVE NoBlame
  BY <1>6, ZenonT(40) DEF ClaimBatch, ClaimAtTurnLimit, ClaimFailures, Fail
<1>7. CASE Finish("refused") \/ Finish("cancelled")
  BY <1>7, ZenonT(40) DEF Finish, Fail
<1>8. CASE Environment
  <2>1. CASE ContextDone
    BY <2>1, Zenon DEF ContextDone, itemVars
  <2>2. CASE CancelPending
    BY <2>2, Zenon DEF CancelPending, Fail
  <2>3. ASSUME NEW m \in Msg, Withdraw(m) PROVE NoBlame
    BY <2>3, Zenon DEF Withdraw, Fail
  <2>4. QED
    BY <1>8, <2>1, <2>2, <2>3, Zenon DEF Environment
<1>9. CASE SenderNext
  BY <1>9, Zenon DEF SenderNext, Send, SendCheck, SendRejected, SendDuplicate, SendDeduped,
              SendBlocked, SendAdmitted, SendGivesUp, SenderExpires, itemVars
<1>10. QED
  BY <1>1, <1>2, <1>3, <1>4, <1>5, <1>6, <1>7, <1>8, <1>9, ZenonT(40) DEF DriverClaim, CoreClaim

-----------------------------------------------------------------------------
(* The loop's invariant. *)

\* A hub step beside the loop keeps what the loop knows.
LEMMA BesideInv ==
  ASSUME ExecInv, Grows, NoBlame, UNCHANGED coreVars
  PROVE  LoopInv'
BY HubAssumption, Zenon DEF ExecInv, LoopInv, InvTypeOK, Blamed, Grows, NoBlame, coreVars, All

\* A step of the loop itself: the error and the dispatch are remembered, and a
\* failed turn on its way to judgement stays failed.
LoopStep ==
  /\ InvTypeOK'
  /\ dispatched => dispatched'
  /\ failure => failure'
  /\ inRun' => ok'
  /\ core \in {"ackPrompt", "persist"} /\ ~ok /\ ~inRun =>
       failure' \/ (core' \in {"ackPrompt", "persist"} /\ ~ok' /\ ~inRun')
  /\ core' = "done" => finished'
  /\ core' = "cleanup" => finished' \/ failure' \/ ~dispatched'
  /\ core' \in {"running", "ackStart", "ackPrompt", "persist"} => dispatched'

\* A step of the loop that gives no reason keeps what its next place knows.
LEMMA LoopStepInv ==
  ASSUME ExecInv, Grows, NoBlame, LoopStep
  PROVE  LoopInv'
BY HubAssumption, Zenon
DEF ExecInv, LoopInv, LoopStep, InvTypeOK, Blamed, Grows, NoBlame, All

\* The calls the loop makes on the hub, one by one.
LEMMA CoreStepInv == ASSUME ExecInv, CoreStep PROVE LoopInv'
<1>1. InvTypeOK /\ HubInv
  BY Zenon DEF ExecInv, LoopInv
<1>2. Grows
  BY <1>1, StepsUseHub, NextGrows, StutterGrows, Zenon DEF InvNext
<1>3. turns \in 0 .. MaxTurns
  BY <1>1, HubAssumption DEF HubInv, TypeOK, WithinTurnBudget
<1> USE DEF Go, KeepCore, Steps
<1>4. CASE ResolveThread \/ ResolveCapability \/ SkipDeduped \/ Dispatch
  <2>1. NoBlame
    BY <1>1, <1>4, OthersBlameNobody, Zenon
    DEF ResolveThread, ResolveCapability, SkipDeduped, Dispatch
  <2>2. LoopStep
    <3>1. CASE ResolveThread
      BY <1>3, <3>1, Zenon DEF ResolveThread, LoopStep, InvTypeOK, ExecInv, LoopInv
    <3>2. CASE ResolveCapability
      BY <1>3, <3>2, Zenon DEF ResolveCapability, LoopStep, InvTypeOK, ExecInv, LoopInv
    <3>3. CASE SkipDeduped
      BY <1>3, <3>3, Zenon DEF SkipDeduped, LoopStep, InvTypeOK, ExecInv, LoopInv
    <3>4. CASE Dispatch
      BY <1>3, <3>4, Zenon DEF Dispatch, LoopStep, InvTypeOK, ExecInv, LoopInv
    <3>5. QED
      BY <1>4, <3>1, <3>2, <3>3, <3>4, Zenon
  <2>3. QED
    BY <1>2, <2>1, <2>2, LoopStepInv, Zenon
<1>5. CASE AcknowledgeStart /\ ok
  <2>1. NoBlame
    BY <1>1, <1>5, OthersBlameNobody, Zenon DEF AcknowledgeStart, InvTypeOK
  <2>2. LoopStep
    BY <1>5, Zenon DEF AcknowledgeStart, LoopStep, InvTypeOK, ExecInv, LoopInv
  <2>3. QED
    BY <1>2, <2>1, <2>2, LoopStepInv, Zenon
<1>6. CASE (AcknowledgeStart \/ AcknowledgePrompt) /\ ~ok
  <2>1. core' = "ackPrompt" /\ dispatched' /\ ~ok' /\ ~inRun'
    BY <1>6 DEF AcknowledgeStart, AcknowledgePrompt, ExecInv, LoopInv, coreVars
  <2>2. InvTypeOK'
    BY <1>1, <1>6, Zenon DEF AcknowledgeStart, AcknowledgePrompt, InvTypeOK, coreVars
  <2>3. QED
    BY <1>2, <2>1, <2>2, HubAssumption, Zenon DEF ExecInv, LoopInv, Blamed, Grows, All
<1>7. CASE AcknowledgePrompt /\ ok
  <2>1. NoBlame
    BY <1>1, <1>7, OthersBlameNobody, Zenon DEF AcknowledgePrompt, HubInv, TypeOK
  <2>2. QED
    BY <1>2, <1>7, <2>1, BesideInv, Zenon DEF AcknowledgePrompt
<1>8. CASE EndTurn
  <2>1. NoBlame
    <3>1. CompleteTurn(ok) \/ UNCHANGED hubVars
      BY <1>8, Zenon DEF EndTurn
    <3>2. \E success \in BOOLEAN : success = ok
      BY <1>1, Zenon DEF InvTypeOK
    <3>3. QED
      BY <1>1, <3>1, <3>2, OthersBlameNobody, Zenon
  <2>2. LoopStep
    BY <1>8, Zenon DEF EndTurn, LoopStep, InvTypeOK, ExecInv, LoopInv
  <2>3. QED
    BY <1>2, <2>1, <2>2, LoopStepInv, Zenon
<1>9. CASE TurnFails \/ TurnLimit \/ Seal
  <2>1. NoBlame
    BY <1>1, <1>9, OthersBlameNobody, Zenon DEF TurnFails, TurnLimit, Seal
  <2>2. LoopStep
    <3>1. CASE TurnFails
      BY <3>1, Zenon DEF TurnFails, LoopStep, InvTypeOK, ExecInv, LoopInv
    <3>2. CASE TurnLimit
      BY <3>2, Zenon DEF TurnLimit, Finish, LoopStep, InvTypeOK, ExecInv, LoopInv
    <3>3. CASE Seal
      BY <3>3, Zenon DEF Seal, CloseIfIdle, LoopStep, InvTypeOK, ExecInv, LoopInv
    <3>4. QED
      BY <1>9, <3>1, <3>2, <3>3, Zenon
  <2>3. QED
    BY <1>2, <2>1, <2>2, LoopStepInv, Zenon
<1>10. CASE CannotContinue \/ Continue \/ SealEmpty
  <2>1. NoBlame
    BY <1>1, <1>10, OthersBlameNobody, Zenon DEF CannotContinue, Continue, SealEmpty
  <2>2. LoopStep
    <3>1. CASE CannotContinue
      BY <3>1, Zenon DEF CannotContinue, Finish, LoopStep, InvTypeOK, ExecInv, LoopInv
    <3>2. CASE Continue
      BY <3>2, Zenon DEF Continue, LoopStep, InvTypeOK, ExecInv, LoopInv
    <3>3. CASE SealEmpty
      BY <3>3, Zenon DEF SealEmpty, Finish, LoopStep, InvTypeOK, ExecInv, LoopInv
    <3>4. QED
      BY <1>10, <3>1, <3>2, <3>3, Zenon
  <2>3. QED
    BY <1>2, <2>1, <2>2, LoopStepInv, Zenon
<1>11. CASE Cleanup
  <2>1. /\ finished' /\ core' = "done" /\ core = "cleanup" /\ ~inRun' /\ ~ok'
        /\ before' = 0 /\ mayRestart' = FALSE /\ dispatched' = dispatched
        /\ failure' = (failure \/ ctxDone)
    BY <1>11 DEF Cleanup, Finish, hubVars, runVars
  <2>2. InvTypeOK'
    <3>1. /\ failure' \in BOOLEAN /\ ok' \in BOOLEAN /\ inRun' \in BOOLEAN
          /\ mayRestart' \in BOOLEAN
      BY <1>11, Zenon DEF Cleanup
    <3>2. QED
      BY <1>1, <2>1, <3>1, HubAssumption DEF InvTypeOK
  <2>5. LoopStep
    BY <2>1, <2>2, Zenon DEF LoopStep
  <2>6. CASE NoBlame
    BY <1>2, <2>5, <2>6, LoopStepInv, Zenon
  <2>3. CASE ~NoBlame
    <3>1. Finish(CleanupReason) /\ CleanupReason = "run_failed"
      BY <1>1, <1>11, <2>3, OthersBlameNobody, Zenon DEF Cleanup, CleanupReason
    <3>2. dispatched /\ ~finished /\ core = "cleanup"
      BY <1>11, <3>1, Zenon DEF CleanupReason, Cleanup, Finish
    <3>3. failure
      BY <3>2, Zenon DEF ExecInv, LoopInv
    <3>4. QED
      BY <1>2, <2>1, <2>2, <3>2, <3>3, HubAssumption, Zenon
      DEF ExecInv, LoopInv, Blamed, Grows, All
  <2>4. QED
    BY <2>3, <2>6, Zenon
<1>12. QED
  BY <1>1, <1>4, <1>5, <1>6, <1>7, <1>8, <1>9, <1>10, <1>11, Zenon DEF CoreStep, InvTypeOK

\* The driver, the callers and the contexts do not move the loop.
LEMMA OtherStepInv == ASSUME ExecInv, InvNext, ~CoreStep PROVE LoopInv'
<1>1. InvTypeOK /\ HubInv
  BY Zenon DEF ExecInv, LoopInv
<1>2. Grows
  BY <1>1, StepsUseHub, NextGrows, StutterGrows, Zenon
<1> USE DEF Go, Steps
<1>3. CASE PrepareFails \/ ResumeRejected \/ TurnCompleted \/ RunReturns
  <2>1. NoBlame
    BY <1>1, <1>3, OthersBlameNobody, Zenon
    DEF PrepareFails, ResumeRejected, TurnCompleted, RunReturns, DriverReturn
  <2>2. LoopStep
    <3>1. CASE PrepareFails
      BY <3>1, Zenon DEF PrepareFails, LoopStep, InvTypeOK, ExecInv, LoopInv
    <3>2. CASE ResumeRejected
      <4>1. mayRestart' \in BOOLEAN /\ failure' \in BOOLEAN
        BY <1>1, <3>2, Zenon DEF ResumeRejected, InvTypeOK
      <4>2. QED
        BY <3>2, <4>1 DEF ResumeRejected, LoopStep, InvTypeOK, ExecInv, LoopInv
    <3>3. CASE TurnCompleted
      BY <3>3, Zenon DEF TurnCompleted, LoopStep, InvTypeOK, ExecInv, LoopInv
    <3>4. CASE RunReturns
      <4>1. ok' \in BOOLEAN /\ inRun' \in BOOLEAN
        BY <3>4, Zenon DEF RunReturns, DriverReturn
      <4>2. QED
        BY <3>4, <4>1 DEF RunReturns, DriverReturn, LoopStep, InvTypeOK, ExecInv, LoopInv
    <3>5. QED
      BY <1>3, <3>1, <3>2, <3>3, <3>4, Zenon
  <2>3. QED
    BY <1>2, <2>1, <2>2, LoopStepInv, Zenon
<1>4. CASE Background \/ DriverStep \/ Beside(ContextDone)
           \/ (\E s \in Sender : Sending(s) \/ Beside(SenderExpires(s)))
  <2>1. NoBlame
    BY <1>1, <1>4, OthersBlameNobody, Zenon
    DEF Background, DriverStep, Beside, Sending, Environment, SenderNext
  <2>2. UNCHANGED coreVars
    BY <1>4, Zenon DEF Background, DriverStep, Beside, Sending
  <2>3. QED
    BY <1>2, <2>1, <2>2, BesideInv, Zenon
<1>5. QED
  BY <1>3, <1>4, Zenon DEF InvNext, Choice

\* A new execution.
LEMMA ExecInit == InvInit => ExecInv
<1> SUFFICES ASSUME InvInit PROVE ExecInv
  BY Zenon
<1>1. HubInv
  BY InitInv, Zenon DEF InvInit
<1>2. InvTypeOK
  <2>1. /\ ok \in BOOLEAN /\ inRun \in BOOLEAN /\ mayRestart \in BOOLEAN
        /\ dispatched \in BOOLEAN /\ failure \in BOOLEAN
    BY Zenon DEF InvInit
  <2>2. QED
    BY <2>1, HubAssumption DEF InvTypeOK, InvInit, Steps
<1>3. Blamed
  BY Zenon DEF InvInit, Init, Blamed
<1>4. \A s \in Sender : res[s] # "ok"
  BY Zenon DEF InvInit, Init
<1>5. LoopInv
  BY <1>2, <1>3, <1>4, Zenon DEF LoopInv, InvInit
<1>6. QED
  BY <1>1, <1>5, Zenon DEF ExecInv

\* Every step of an execution keeps its invariant and is a step of the hub.
LEMMA ExecNext == ASSUME ExecInv, [InvNext]_vars PROVE ExecInv' /\ [Next]_hubVars
<1>1. CASE InvNext
  <2>1. HubInv /\ InvTypeOK
    BY Zenon DEF ExecInv, LoopInv
  <2>2. Next \/ UNCHANGED hubVars
    BY <1>1, <2>1, StepsUseHub, Zenon
  <2>3. HubInv'
    BY <2>1, <2>2, NextInv, StutterInv, Zenon
  <2>4. LoopInv'
    BY <1>1, CoreStepInv, OtherStepInv, Zenon
  <2>5. QED
    BY <2>2, <2>3, <2>4, Zenon DEF ExecInv
<1>2. CASE UNCHANGED vars
  <2>1. UNCHANGED hubVars /\ UNCHANGED coreVars
    BY <1>2, Zenon DEF vars
  <2>2. HubInv'
    BY <2>1, StutterInv, Zenon DEF ExecInv
  <2>3. NoBlame
    BY <2>1, Zenon DEF NoBlame, hubVars, itemVars
  <2>4. LoopInv'
    BY <2>1, <2>3, StutterGrows, BesideInv, Zenon
  <2>5. QED
    BY <2>1, <2>2, <2>4, Zenon DEF ExecInv
<1>3. QED
  BY <1>1, <1>2, Zenon

-----------------------------------------------------------------------------

\* The loop and its hub keep their joint invariant.
THEOREM ExecutionInvariant == InvSpec => []ExecInv
BY ExecInit, ExecNext, PTL DEF InvSpec

\* executeInvocation, the driver and the callers use the hub only in the ways
\* MessageHub allows: every theorem about Spec holds of an execution.
THEOREM ExecutionUsesHub == InvSpec => UsesHub
<1>1. InvInit => Init
  BY Zenon DEF InvInit
<1>2. QED
  BY <1>1, ExecutionInvariant, ExecNext, PTL DEF InvSpec, UsesHub

\* Every message whose Send returned nil is in the Result, with an outcome.
THEOREM NoneLost == InvSpec => []NoMessageLost
<1>1. ExecInv => NoMessageLost
  <2> SUFFICES ASSUME ExecInv, core = "done", NEW s \in Sender, res[s] = "ok"
               PROVE  InItems(MsgOf[s]) /\ st[MsgOf[s]] \in {"delivered", "failed"}
    BY Zenon DEF NoMessageLost
  <2>1. finished /\ st[MsgOf[s]] # "none" /\ MsgOf[s] \in Msg
    BY HubAssumption, Zenon DEF ExecInv, LoopInv
  <2>2. InItems(MsgOf[s])
    BY <2>1, Zenon DEF ExecInv, HubInv, Consistent
  <2>3. st[MsgOf[s]] # "accepted"
    BY <2>1, <2>2, Zenon DEF ExecInv, HubInv, SealedMeansSettled, Unsettled, All
  <2>4. st[MsgOf[s]] \in {"none", "accepted", "delivered", "failed"}
    BY <2>1, Zenon DEF ExecInv, HubInv, TypeOK, All
  <2>5. QED
    BY <2>1, <2>2, <2>3, <2>4, Zenon
<1>2. QED
  BY <1>1, ExecutionInvariant, PTL

\* run_failed, the reason that makes a standby carry a message, is given only
\* by an execution that dispatched its driver and reports an error.
THEOREM CarriedJustly == InvSpec => []CarriedOnlyAfterFailure
<1>1. ExecInv => CarriedOnlyAfterFailure
  BY Zenon DEF ExecInv, LoopInv, Blamed, CarriedOnlyAfterFailure
<1>2. QED
  BY <1>1, ExecutionInvariant, PTL
=============================================================================
