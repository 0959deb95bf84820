------------------------------ MODULE Invocation ------------------------------
(***************************************************************************)
(* One execution: the loop of executeInvocation (invocation.go) around the *)
(* message hub.  The core prepares the run, dispatches Driver.Run,         *)
(* acknowledges its prompt, completes the turn, persists it, and either    *)
(* seals the hub or claims what is pending as the prompt of another turn.  *)
(* Sends, cancellation and the driver's own claims interleave with every   *)
(* step.                                                                   *)
(***************************************************************************)
EXTENDS MessageHub

VARIABLES
  core,     \* the next step of executeInvocation
  ok,       \* the outcome being acknowledged is a success
  inRun,    \* it is a turn the driver completed inside Driver.Run
  before,   \* turnCount when Driver.Run was dispatched
  mayRestart, \* a rejected resume may still start over on a fresh session
  dispatched, \* driverStarted
  failure   \* resultErr # nil

coreVars == <<core, ok, inRun, before, mayRestart, dispatched, failure>>
vars == <<hubVars, coreVars>>

Steps == {"prepare", "resolve", "launch", "running", "ackStart", "ackPrompt",
          "turn", "persist", "decide", "seal", "cleanup", "done"}

Go(step) == core' = step
KeepCore == UNCHANGED <<ok, inRun, before, mayRestart, dispatched, failure>>

\* A hub step that leaves the core where it is.
Beside(A) == A /\ UNCHANGED coreVars

-----------------------------------------------------------------------------
(* Preparation. *)

\* Thread admission, run services, resolution or the session plan fail.
PrepareFails ==
  /\ core \in {"prepare", "resolve"}
  /\ Go("cleanup") /\ failure' = TRUE
  /\ UNCHANGED <<hubVars, ok, inRun, before, mayRestart, dispatched>>

\* Resolving the Thread record loads its receipts into the hub; a stateless
\* run, a new Thread or receipts past their seven days load nothing.
ResolveThread ==
  /\ core = "prepare" /\ Go("resolve") /\ KeepCore
  /\ Load \/ UNCHANGED hubVars

\* A driver that resolves nothing keeps what its descriptor says.
ResolveCapability ==
  /\ core = "resolve" /\ Go("launch") /\ KeepCore
  /\ \/ \E c \in ResolvedCaps : SetCapability(c)
     \/ DescriptorCap \in ResolvedCaps /\ UNCHANGED hubVars

\* The prompt was already delivered and nothing is carried: an empty result.
SkipDeduped ==
  /\ core = "launch" /\ ~dispatched /\ st[Start] = "delivered" /\ prompt = {}
  /\ Go("cleanup") /\ KeepCore
  /\ UNCHANGED hubVars

Dispatch ==
  /\ core = "launch" /\ (dispatched \/ st[Start] # "delivered" \/ prompt # {})
  /\ StartDriver
  /\ Go("running") /\ before' = turns /\ dispatched' = TRUE
  /\ UNCHANGED <<ok, inRun, mayRestart, failure>>

-----------------------------------------------------------------------------
(* Driver.Run. *)

\* Claims come from the driver's hooks and streams, concurrently with the turns
\* it reports; acknowledgements may even arrive after Driver.Run returned.
DriverStep ==
  Beside(\/ \E b \in Boundaries : DriverClaim(b)
         \/ \E m \in All : Ack(m))

\* The driver reports a turn completed inside the run (eventSink.Emit).
TurnCompleted ==
  /\ core = "running" /\ Go("ackStart")
  /\ ok' = TRUE /\ inRun' = TRUE
  /\ UNCHANGED <<hubVars, before, mayRestart, dispatched, failure>>

\* The provider rejects the stored checkpoint: dispatch again on a fresh one.
ResumeRejected ==
  /\ core = "running" /\ mayRestart
  /\ DriverReturns
  /\ mayRestart' = FALSE
  /\ \/ Go("launch") /\ UNCHANGED failure
     \/ Go("cleanup") /\ failure' = TRUE
  /\ UNCHANGED <<ok, inRun, before, dispatched>>

DriverReturn(success) ==
  /\ core = "running"
  /\ DriverReturns
  /\ Go("ackStart") /\ ok' = success /\ inRun' = FALSE
  /\ UNCHANGED <<before, mayRestart, dispatched, failure>>

-----------------------------------------------------------------------------
(* ackPrompt and completeTurn. *)

AcknowledgeStart ==
  /\ core = "ackStart" /\ Go("ackPrompt") /\ KeepCore
  /\ AckStart(ok) \/ (~Outstanding(Start) /\ UNCHANGED hubVars)

AcknowledgePrompt ==
  /\ core = "ackPrompt" /\ UNCHANGED coreVars
  /\ \E m \in prompt : IF ok THEN PromptDelivered(m) ELSE PromptFailed(m)

\* An in-run turn always completes one; the return of Driver.Run only when the
\* driver completed none itself.
EndTurn ==
  /\ core = "ackPrompt" /\ \A m \in prompt : ~Outstanding(m)
  /\ Go(IF inRun THEN "running" ELSE "persist") /\ KeepCore
  /\ IF (inRun \/ turns = before) /\ turns < MaxTurns
     THEN CompleteTurn(ok) ELSE UNCHANGED hubVars

-----------------------------------------------------------------------------
(* The verdict on the turn. *)

\* The lease was lost, the checkpoint could not be stored, or the turn failed.
TurnFails ==
  /\ core = "persist"
  /\ Go("cleanup") /\ failure' = TRUE
  /\ UNCHANGED <<hubVars, ok, inRun, before, mayRestart, dispatched>>

TurnLimit ==
  /\ core = "persist" /\ ok /\ turns >= MaxTurns
  /\ Finish("refused")
  /\ Go("cleanup") /\ KeepCore

SealWaiting ==
  /\ core = "persist" /\ ok /\ turns < MaxTurns /\ KeepCore
  /\ CloseIfIdle /\ Go("cleanup")
\* closeIfIdle answers whether the execution may end.
Seal ==
  /\ core = "persist" /\ ok /\ turns < MaxTurns /\ KeepCore
  /\ \/ CloseIfIdle /\ Go("cleanup")
     \/ Unsettled # {} /\ Go("decide") /\ UNCHANGED hubVars

\* Without resume, or without a usable checkpoint, pending input is returned.
CannotContinue ==
  /\ core = "decide"
  /\ Finish("refused")
  /\ Go("cleanup") /\ KeepCore

Continue ==
  /\ core = "decide" /\ Resume /\ mayRestart' = FALSE
  /\ \/ CoreClaim /\ Taken("turn_end") # {} /\ Go("launch")
     \/ CoreClaim /\ Taken("turn_end") = {} /\ Go("seal")
     \/ ~ClaimOpen("turn_end") /\ Go("seal") /\ UNCHANGED hubVars
  /\ UNCHANGED <<ok, inRun, before, dispatched, failure>>

SealEmpty ==
  /\ core = "seal"
  /\ Finish("refused")
  /\ Go("cleanup") /\ KeepCore

\* The deferred teardown: the reason for what is still pending and the seal;
\* the outcomes of that moment go into the Result.  The loop's locals die here.
CleanupReason == IF ctxDone THEN "cancelled"
                 ELSE IF dispatched THEN "run_failed" ELSE "refused"
\* Mutation: the hub is closed and what it still holds is left without an outcome.
CleanupFlagOnly ==
  /\ core = "cleanup" /\ Go("done")
  /\ finished' = TRUE
  /\ UNCHANGED <<itemVars, deliveryVars, cancelled, turns, warned, cap, prompt,
                 stage, ctxDone, expired, sendVars, ok, inRun, before,
                 mayRestart, dispatched, failure>>
Cleanup ==
  /\ core = "cleanup" /\ Go("done")
  /\ Finish(CleanupReason) \/ (finished /\ UNCHANGED hubVars)
  /\ failure' = (failure \/ ctxDone)
  /\ ok' = FALSE /\ inRun' = FALSE /\ before' = 0 /\ mayRestart' = FALSE
  /\ UNCHANGED dispatched

-----------------------------------------------------------------------------

InvInit ==
  /\ Init
  /\ core = "prepare" /\ ok = FALSE /\ inRun = FALSE /\ before = 0
  /\ mayRestart = TRUE /\ dispatched = FALSE /\ failure = FALSE

CoreStep ==
  \/ ResolveThread \/ ResolveCapability \/ SkipDeduped \/ Dispatch
  \/ AcknowledgeStart \/ AcknowledgePrompt \/ EndTurn
  \/ TurnFails \/ TurnLimit \/ Seal \/ CannotContinue \/ Continue \/ SealEmpty
  \/ Cleanup
Sending(s) == Beside(Send(s))
Background == Beside(CancelPending \/ \E m \in Msg : Withdraw(m))
Choice == \/ PrepareFails \/ ResumeRejected \/ TurnCompleted \/ DriverStep
          \/ Beside(ContextDone)
          \/ \E s \in Sender : Beside(SenderExpires(s))

RunReturns == \E success \in BOOLEAN : DriverReturn(success)

InvNext == CoreStep \/ RunReturns \/ Choice \/ Background
           \/ \E s \in Sender : Sending(s)

\* The core's own steps: it never waits for a failed turn, nor for a checkpoint
\* it cannot resume from.
Progress ==
  \/ ResolveThread \/ ResolveCapability \/ SkipDeduped \/ Dispatch
  \/ AcknowledgeStart \/ AcknowledgePrompt \/ EndTurn
  \/ (~ok /\ TurnFails) \/ TurnLimit \/ Seal \/ (~Resume /\ CannotContinue)
  \/ Continue \/ SealEmpty \/ Cleanup

\* The core and the callbacks always take their next step; a Send call that has
\* started runs on; Driver.Run returns, however many turns it reports.
Fairness ==
  /\ WF_vars(Progress) /\ WF_vars(Background) /\ SF_vars(RunReturns)
  /\ \A s \in Sender : WF_vars(Sending(s))

InvSpec == InvInit /\ [][InvNext]_vars
FairSpec == InvSpec /\ Fairness

-----------------------------------------------------------------------------
(* Properties. *)

\* Types of the loop's state.
InvTypeOK ==
  /\ core \in Steps /\ before \in 0 .. MaxTurns
  /\ ok \in BOOLEAN /\ inRun \in BOOLEAN /\ mayRestart \in BOOLEAN
  /\ dispatched \in BOOLEAN /\ failure \in BOOLEAN

\* A message whose Send returned nil is in the Result with its final outcome,
\* wherever its admission fell between the last claim, closeIfIdle and the
\* teardown of the execution.
NoMessageLost ==
  core = "done" =>
    \A s \in Sender : res[s] = "ok" =>
      InItems(MsgOf[s]) /\ st[MsgOf[s]] \in {"delivered", "failed"}

\* Reason run_failed, which makes a standby carry the message into its next
\* execution, is only ever given by an execution that dispatched its driver
\* and ends with an error.
CarriedOnlyAfterFailure ==
  (\E m \in All : reason[m] = "run_failed") =>
     dispatched /\ (core = "done" => failure)

\* The order in which the core uses the hub is one its own specification
\* allows, so whatever is proved of the hub holds of an execution.
UsesHub == Init /\ [][Next]_hubVars

\* The execution ends, and every Send call returns.
ExecutionEnds == <>[](core = "done" /\ \A s \in Sender : pc[s] \in {"idle", "done"})
=============================================================================
