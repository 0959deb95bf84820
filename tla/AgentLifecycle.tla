--------------------------- MODULE AgentLifecycle ---------------------------
(***************************************************************************)
(* The lifecycle of an Agent (agent.go): admission of runs, and Close with *)
(* its concurrent and repeated callers.                                    *)
(*                                                                         *)
(* Whatever registers with registerRun is a run here: executions, thread   *)
(* ownerships and recovery loops.  An execution claims a Tool profile and  *)
(* then calls Driver.Run, which may leave a persistent provider process    *)
(* behind.  lifecycleMu protects the fields; each step below is one        *)
(* critical section or one call Close makes between two of them.           *)
(***************************************************************************)
EXTENDS Integers, FiniteSets

CONSTANTS
  Run,           \* what may register
  Closer,        \* callers of Close
  Impatient,     \* callers whose context may end
  HasProcesses,  \* the Driver is a ProcessLifecycleDriver
  MaxFaults      \* bound: failures of process close, profile removal, tool close

ASSUME LifecycleAssumption ==
  Impatient \subseteq Closer /\ HasProcesses \in BOOLEAN /\ MaxFaults \in Nat

VARIABLES
  closeStarted, closeRunning, closeComplete,
  activeRuns,
  activeDone,   \* the channel's number, or 0 for nil
  drained,      \* numbers of the channels closed so far
  channels,     \* channels made so far
  run,          \* run[r]: "new", "rejected", "admitted", "running", "late" or "ended"
  cancelled,    \* runs whose context is cancelled
  procs,        \* runs whose persistent process is alive
  profiles,     \* runs whose Tool profile is claimed
  toolClosed,   \* the Tool runtime is closed
  pc,           \* pc[c]: where the call of Close is
  captured,     \* captured[c]: the cancel functions and activeDone it read
  ended,        \* callers whose context ended
  faults

flags == <<closeStarted, closeRunning, closeComplete>>
admission == <<activeRuns, activeDone, drained, channels>>
work == <<procs, profiles, toolClosed>>
vars == <<flags, admission, run, cancelled, work, pc, captured, ended, faults>>

Nothing == [runs |-> {}, done |-> 0]

Init ==
  /\ closeStarted = FALSE /\ closeRunning = FALSE /\ closeComplete = FALSE
  /\ activeRuns = {} /\ activeDone = 0 /\ drained = {} /\ channels = 0
  /\ run = [r \in Run |-> "new"] /\ cancelled = {}
  /\ procs = {} /\ profiles = {} /\ toolClosed = FALSE
  /\ pc = [c \in Closer |-> "none"] /\ captured = [c \in Closer |-> Nothing]
  /\ ended = {} /\ faults = MaxFaults

-----------------------------------------------------------------------------
(* Runs. *)

\* registerRun: rejected once Close started; the first active run makes activeDone.
registerRun(r) ==
  /\ run[r] = "new"
  /\ \/ /\ closeStarted
        /\ run' = [run EXCEPT ![r] = "rejected"] /\ UNCHANGED admission
     \/ /\ ~closeStarted
        /\ run' = [run EXCEPT ![r] = "admitted"] /\ activeRuns' = activeRuns \cup {r}
        /\ IF activeRuns = {} THEN channels' = channels + 1 /\ activeDone' = channels'
                              ELSE UNCHANGED <<channels, activeDone>>
        /\ UNCHANGED drained
  /\ UNCHANGED <<flags, cancelled, work, pc, captured, ended, faults>>

\* An admitted execution claims its Tool profile and enters Driver.Run; late
\* when its context is cancelled by then.
DriverRun(r) ==
  /\ run[r] = "admitted"
  /\ run' = [run EXCEPT ![r] = IF r \in cancelled THEN "late" ELSE "running"]
  /\ profiles' \in {profiles, profiles \cup {r}}
  /\ procs' \in (IF HasProcesses THEN {procs, procs \cup {r}} ELSE {procs})
  /\ UNCHANGED <<flags, admission, cancelled, toolClosed, pc, captured, ended, faults>>

\* unregisterRun: the last active run closes activeDone.
unregisterRun(r) ==
  /\ run[r] \in {"admitted", "running", "late"} /\ run' = [run EXCEPT ![r] = "ended"]
  /\ activeRuns' = activeRuns \ {r}
  /\ IF activeRuns' = {} THEN drained' = drained \cup {activeDone} /\ activeDone' = 0
                         ELSE UNCHANGED <<drained, activeDone>>
  /\ UNCHANGED <<flags, channels, cancelled, work, pc, captured, ended, faults>>

-----------------------------------------------------------------------------
(* Close. *)

Goto(c, at) == pc' = [pc EXCEPT ![c] = at]
Fault(c) == \/ faults > 0 /\ faults' = faults - 1
            \/ c \in ended /\ UNCHANGED faults

\* A new call, or another one after an attempt that did not complete.
CallClose(c) ==
  /\ pc[c] \in {"none", "failed"} /\ c \notin ended /\ Goto(c, "look")
  /\ UNCHANGED <<flags, admission, run, cancelled, work, captured, ended, faults>>

\* The section at the top of Close's loop: the result of a finished Close, a wait
\* for the running attempt, or an attempt of its own.
Look(c) ==
  /\ pc[c] = "look"
  /\ \/ closeComplete /\ Goto(c, "closed") /\ UNCHANGED <<closeStarted, closeRunning, captured>>
     \/ /\ ~closeComplete /\ closeRunning
        /\ Goto(c, "wait") /\ UNCHANGED <<closeStarted, closeRunning, captured>>
     \/ /\ ~closeComplete /\ ~closeRunning /\ Goto(c, "cancel")
        /\ closeStarted' = TRUE /\ closeRunning' = TRUE
        /\ captured' = [captured EXCEPT ![c] = [runs |-> activeRuns, done |-> activeDone]]
  /\ UNCHANGED <<closeComplete, admission, run, cancelled, work, ended, faults>>

\* A waiter's context ends before the attempt it waits for.
GiveUp(c) ==
  /\ pc[c] = "wait" /\ c \in ended /\ Goto(c, "failed")
  /\ UNCHANGED <<flags, admission, run, cancelled, work, captured, ended, faults>>

CancelRuns(c) ==
  /\ pc[c] = "cancel" /\ cancelled' = cancelled \cup captured[c].runs
  /\ Goto(c, IF HasProcesses THEN "processes" ELSE "drain")
  /\ UNCHANGED <<flags, admission, run, work, captured, ended, faults>>

\* CloseProcesses stops every process alive, or some of them when it fails or its
\* context ends, which leaves the attempt incomplete.
CloseProcesses(c, next) ==
  \/ c \notin ended /\ procs' = {} /\ Goto(c, next) /\ UNCHANGED faults
  \/ Fault(c) /\ procs' \in SUBSET procs /\ Goto(c, "incomplete")
FirstClose(c) ==
  /\ pc[c] = "processes" /\ CloseProcesses(c, "drain")
  /\ UNCHANGED <<flags, admission, run, cancelled, profiles, toolClosed, captured, ended>>

\* Mutation: no second process close after the drain.
DrainOnce(c) ==
  /\ pc[c] = "drain"
  /\ \/ captured[c].done \in drained \cup {0} /\ Goto(c, "profiles")
     \/ captured[c].done # 0 /\ c \in ended /\ Goto(c, "incomplete")
  /\ UNCHANGED <<flags, admission, run, cancelled, work, captured, ended, faults>>
\* The wait for the runs admitted before Close.
Drain(c) ==
  /\ pc[c] = "drain"
  /\ \/ captured[c].done = 0 /\ Goto(c, "profiles")
     \/ /\ captured[c].done \in drained
        /\ Goto(c, IF HasProcesses THEN "again" ELSE "profiles")
     \/ captured[c].done # 0 /\ c \in ended /\ Goto(c, "incomplete")
  /\ UNCHANGED <<flags, admission, run, cancelled, work, captured, ended, faults>>

SecondClose(c) ==
  /\ pc[c] = "again" /\ CloseProcesses(c, "profiles")
  /\ UNCHANGED <<flags, admission, run, cancelled, profiles, toolClosed, captured, ended>>

releaseHostedToolProfiles(c) ==
  /\ pc[c] = "profiles"
  /\ \/ profiles' = {} /\ Goto(c, "tools") /\ UNCHANGED faults
     \/ Fault(c) /\ profiles' \in SUBSET profiles /\ Goto(c, "incomplete")
  /\ UNCHANGED <<flags, admission, run, cancelled, procs, toolClosed, captured, ended>>

\* The Tool runtime closes last, whether or not the caller can wait for it; its
\* error is Close's result, and final.
CloseTools(c) ==
  /\ pc[c] = "tools" /\ toolClosed' = TRUE
  /\ Goto(c, IF c \in ended THEN "incomplete" ELSE "complete")
  /\ UNCHANGED <<flags, admission, run, cancelled, procs, profiles, captured, ended, faults>>

\* Mutation: an incomplete attempt leaves closeRunning set.
FinishStuck(c) ==
  /\ pc[c] \in {"complete", "incomplete"}
  /\ closeRunning' = (pc[c] = "incomplete") /\ closeComplete' = (closeComplete \/ pc[c] = "complete")
  /\ pc' = [d \in Closer |->
       IF d = c THEN (IF pc[c] = "complete" THEN "closed" ELSE "failed")
       ELSE IF pc[d] = "wait" THEN "look" ELSE pc[d]]
  /\ UNCHANGED <<closeStarted, admission, run, cancelled, work, captured, ended, faults>>
\* The section at the end of an attempt, which wakes the callers waiting for it.
Finish(c) ==
  /\ pc[c] \in {"complete", "incomplete"}
  /\ closeRunning' = FALSE /\ closeComplete' = (closeComplete \/ pc[c] = "complete")
  /\ pc' = [d \in Closer |->
       IF d = c THEN (IF pc[c] = "complete" THEN "closed" ELSE "failed")
       ELSE IF pc[d] = "wait" THEN "look" ELSE pc[d]]
  /\ UNCHANGED <<closeStarted, admission, run, cancelled, work, captured, ended, faults>>

ContextEnds(c) ==
  /\ c \in Impatient \ ended /\ ended' = ended \cup {c}
  /\ UNCHANGED <<flags, admission, run, cancelled, work, pc, captured, faults>>

-----------------------------------------------------------------------------
Attempt(c) ==
  \/ Look(c) \/ GiveUp(c) \/ CancelRuns(c) \/ FirstClose(c) \/ Drain(c)
  \/ SecondClose(c) \/ releaseHostedToolProfiles(c) \/ CloseTools(c) \/ Finish(c)
Next ==
  \/ \E r \in Run : registerRun(r) \/ DriverRun(r) \/ unregisterRun(r)
  \/ \E c \in Closer : CallClose(c) \/ Attempt(c) \/ ContextEnds(c)

Spec == Init /\ [][Next]_vars

\* A cancelled run returns once no process of its own keeps it waiting, and a
\* Driver handed a cancelled context returns.  A caller that can wait calls
\* again.  Callers of Close are goroutines that run.
FairSpec ==
  /\ Spec
  /\ \A r \in Run :
       WF_vars(r \in cancelled /\ (run[r] = "late" \/ r \notin procs) /\ unregisterRun(r))
  /\ \A c \in Closer : WF_vars(Attempt(c))
  /\ \A c \in Closer \ Impatient : WF_vars(closeStarted /\ CallClose(c))

-----------------------------------------------------------------------------
(* What Close promises. *)

Attempting == {c \in Closer : pc[c] \in
  {"cancel", "processes", "drain", "again", "profiles", "tools", "complete", "incomplete"}}

\* The types; channel numbers name channels that were made, and activeDone is an
\* open one exactly while a run is active: a closed one would be closed twice.
\* "concurrent callers wait for the first close attempt" (agent.go:95): one attempt
\* runs at a time.
TypeOK ==
  /\ closeStarted \in BOOLEAN /\ closeRunning \in BOOLEAN /\ closeComplete \in BOOLEAN
  /\ activeRuns \subseteq Run /\ cancelled \subseteq Run
  /\ procs \subseteq Run /\ profiles \subseteq Run /\ toolClosed \in BOOLEAN
  /\ channels \in Nat /\ activeDone \in 0 .. channels /\ drained \subseteq 1 .. channels
  /\ (activeDone # 0 <=> activeRuns # {}) /\ activeDone \notin drained
  /\ run \in [Run -> {"new", "rejected", "admitted", "running", "late", "ended"}]
  /\ pc \in [Closer -> {"none", "failed", "look", "wait", "closed", "cancel", "processes",
                        "drain", "again", "profiles", "tools", "complete", "incomplete"}]
  /\ captured \in [Closer -> [runs : SUBSET Run, done : 0 .. channels]]
  /\ ended \subseteq Closer /\ faults \in Nat
  /\ (\A c, d \in Attempting : c = d) /\ (closeRunning <=> Attempting # {})

\* Close "prevents new runs, cancels and drains admitted runs, closes every
\* persistent provider process ..., then closes the Agent-owned Tool runtime"
\* (agent.go:93).  Profiles are revoked, and the runtime is closed, only when no run
\* and no process can use them any more, and the runtime never closes under a
\* profile that still names it (agent.go:190).  Once Close completed, however many
\* attempts that took, all of that is done.
QuietWhenRevoked ==
  /\ (\E c \in Closer : pc[c] \in {"profiles", "tools"}) \/ toolClosed
       => activeRuns = {} /\ procs = {}
  /\ toolClosed => profiles = {}
  /\ closeComplete => toolClosed

\* Close "either observes and cancels this run, or registration observes Close"
\* (agent.go:224): past the cancellation, no active run is left uncancelled.
AdmittedCancelled ==
  closeStarted /\ (\A c \in Closer : pc[c] # "cancel") => activeRuns \subseteq cancelled

\* With a caller that waits and calls again, Close completes, although a run that
\* waits for its process returns only after the first process close.
CloseCompletes == closeStarted ~> closeComplete
=============================================================================
