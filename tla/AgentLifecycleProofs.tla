------------------------ MODULE AgentLifecycleProofs ------------------------
(***************************************************************************)
(* What Close promises, for any set of runs and callers, any number of     *)
(* failures, and Drivers with or without persistent processes.             *)
(*                                                                         *)
(* The argument: an attempt captures activeRuns and activeDone in one      *)
(* section, after which nothing registers, so what is active is always     *)
(* among what it captured and activeDone, while a run is active, is the    *)
(* channel it waits for.  Past the drain no run is active, so no process   *)
(* starts after the last process close.                                    *)
(***************************************************************************)
EXTENDS AgentLifecycle, TLAPS

\* The Agent's Close and its runs, seen as a user of the Driver's processes:
\* the Tool endpoint is released when the Tool runtime closes.
Contract == INSTANCE ProcessLifecycle WITH
  Process <- Run, running <- procs, released <- toolClosed

Types ==
  /\ closeStarted \in BOOLEAN /\ closeRunning \in BOOLEAN /\ closeComplete \in BOOLEAN
  /\ activeRuns \subseteq Run /\ cancelled \subseteq Run
  /\ procs \subseteq Run /\ profiles \subseteq Run /\ toolClosed \in BOOLEAN
  /\ channels \in Nat /\ activeDone \in 0 .. channels /\ drained \subseteq 1 .. channels
  /\ run \in [Run -> {"new", "rejected", "admitted", "running", "late", "ended"}]
  /\ pc \in [Closer -> {"none", "failed", "look", "wait", "closed", "cancel", "processes",
                        "drain", "again", "profiles", "tools", "complete", "incomplete"}]
  /\ captured \in [Closer -> [runs : SUBSET Run, done : 0 .. channels]]
  /\ ended \subseteq Closer /\ faults \in Nat

\* The channel of the active runs is open.
Channels == (activeDone # 0 <=> activeRuns # {}) /\ activeDone \notin drained

\* One attempt runs at a time.
Attempts == (\A c, d \in Attempting : c = d) /\ (closeRunning <=> Attempting # {})

\* The map activeRuns and the runs themselves.
Active ==
  /\ \A r \in Run : run[r] \in {"admitted", "running", "late"} <=> r \in activeRuns
  /\ ~HasProcesses => procs = {}

\* What an attempt has captured covers what is still active, and how far it got
\* tells what is left.
Captures ==
  \A c \in Attempting :
    /\ closeStarted /\ activeRuns \subseteq captured[c].runs
    /\ activeRuns # {} => activeDone = captured[c].done
    /\ pc[c] = "drain" /\ captured[c].done = 0 => procs = {}
    /\ pc[c] \in {"again", "profiles", "tools"} => activeRuns = {}
    /\ pc[c] \in {"profiles", "tools"} => procs = {}
    /\ pc[c] = "tools" => profiles = {}
    /\ pc[c] = "complete" => toolClosed

\* What holds once the Tool runtime is closed, and stays.
Revoked ==
  /\ toolClosed => closeStarted /\ activeRuns = {} /\ procs = {} /\ profiles = {}
  /\ closeComplete => toolClosed

IInv ==
  Types /\ Channels /\ Attempts /\ Active /\ Captures /\ Revoked /\ AdmittedCancelled

-----------------------------------------------------------------------------
\* A new Agent.
LEMMA InitInv == Init => IInv
<1> SUFFICES ASSUME Init PROVE IInv
  BY Zenon
<1>1. Types
  <2>1. Nothing \in [runs : SUBSET Run, done : 0 .. 0]
    BY DEF Nothing
  <2>2. captured \in [Closer -> [runs : SUBSET Run, done : 0 .. channels]]
    BY <2>1, Zenon DEF Init
  <2>3. channels \in Nat /\ activeDone \in 0 .. channels /\ drained \subseteq 1 .. channels
    BY DEF Init
  <2> QED  BY <2>2, <2>3, LifecycleAssumption, Zenon DEF Init, Types
<1>2. Attempting = {}
  BY Zenon DEF Init, Attempting
<1>3. Channels /\ Active /\ Revoked /\ AdmittedCancelled
  BY Zenon DEF Init, Channels, Active, Revoked, AdmittedCancelled
<1>4. Attempts /\ Captures
  BY <1>2, Zenon DEF Init, Attempts, Captures
<1> QED  BY <1>1, <1>3, <1>4, Zenon DEF IInv

\* A run registers only before Close started, so no attempt has to know of it.
LEMMA registerRunInv == ASSUME IInv, NEW r \in Run, registerRun(r) PROVE IInv'
<1>1. Types'
  <2>1. channels' \in Nat /\ channels' >= channels /\ activeDone' \in 0 .. channels'
    BY DEF IInv, Types, registerRun, admission
  <2>2. ASSUME NEW n \in drained' PROVE n \in 1 .. channels'
    <3>1. n \in 1 .. channels
      BY <2>2, Zenon DEF IInv, Types, registerRun, admission
    <3> QED  BY <2>1, <3>1 DEF IInv, Types
  <2>3. captured' \in [Closer -> [runs : SUBSET Run, done : 0 .. channels']]
    BY <2>1 DEF IInv, Types, registerRun
  <2>4. run' \in [Run -> {"new", "rejected", "admitted", "running", "late", "ended"}]
    BY Zenon DEF IInv, Types, registerRun
  <2>5. activeRuns' \subseteq Run
    BY Zenon DEF IInv, Types, registerRun, admission
  <2> QED
    BY <2>1, <2>2, <2>3, <2>4, <2>5, Zenon DEF IInv, Types, registerRun, flags, work
<1>2. Attempts' /\ Captures' /\ Revoked' /\ AdmittedCancelled'
  BY Zenon DEF IInv, Attempts, Captures, Revoked, AdmittedCancelled, Attempting, registerRun,
    flags, admission, work
<1>3. Channels'
  BY DEF IInv, Types, Channels, registerRun, flags, admission, work
<1>4. Active'
  BY Zenon DEF IInv, Types, Active, registerRun, flags, admission, work
<1> QED  BY <1>1, <1>2, <1>3, <1>4, Zenon DEF IInv

\* Only an active run starts a process or claims a profile.
LEMMA DriverRunInv == ASSUME IInv, NEW r \in Run, DriverRun(r) PROVE IInv'
<1>1. Types' /\ Channels' /\ Attempts' /\ Active' /\ AdmittedCancelled'
  BY DEF IInv, Types, Channels, Attempts, Active, AdmittedCancelled, Attempting,
    DriverRun, flags, admission, work
<1>2. Captures'
  BY Zenon DEF IInv, Types, Channels, Active, Captures, Attempting, DriverRun, flags,
    admission, work
<1>3. Revoked'
  BY Zenon DEF IInv, Types, Active, Revoked, DriverRun, flags, admission, work
<1> QED  BY <1>1, <1>2, <1>3, Zenon DEF IInv

\* The last active run closes the channel an attempt waits for.
LEMMA unregisterRunInv == ASSUME IInv, NEW r \in Run, unregisterRun(r) PROVE IInv'
<1>1. Types'
  <2>1. activeDone \in 1 .. channels
    BY DEF IInv, Types, Channels, Active, unregisterRun
  <2>2. drained' \subseteq drained \cup {activeDone} /\ drained \subseteq 1 .. channels
    BY Zenon DEF IInv, Types, unregisterRun
  <2>3. drained' \subseteq 1 .. channels'
    BY <2>1, <2>2, Zenon DEF unregisterRun
  <2>4. activeDone' \in 0 .. channels'
    BY DEF IInv, Types, unregisterRun
  <2>5. run' \in [Run -> {"new", "rejected", "admitted", "running", "late", "ended"}]
    BY Zenon DEF IInv, Types, unregisterRun
  <2>6. activeRuns' \subseteq Run
    BY Zenon DEF IInv, Types, unregisterRun
  <2> QED
    BY <2>3, <2>4, <2>5, <2>6, Zenon DEF IInv, Types, unregisterRun, flags, work
<1>2. Attempts' /\ Captures' /\ Revoked' /\ AdmittedCancelled'
  BY Zenon DEF IInv, Attempts, Captures, Revoked, AdmittedCancelled, Attempting,
    unregisterRun, flags, admission, work
<1>3. Channels'
  BY DEF IInv, Types, Channels, Active, unregisterRun, flags, admission, work
<1>4. Active'
  BY Zenon DEF IInv, Types, Active, unregisterRun, flags, admission, work
<1> QED  BY <1>1, <1>2, <1>3, <1>4, Zenon DEF IInv

\* A call that has not looked changes nothing.
LEMMA CallCloseInv == ASSUME IInv, NEW c \in Closer, CallClose(c) PROVE IInv'
<1>1. Types' /\ Channels' /\ Attempts' /\ Active' /\ Captures' /\ Revoked' /\ AdmittedCancelled'
  BY DEF IInv, Types, Channels, Attempts, Active, Captures, Revoked, AdmittedCancelled,
    Attempting, CallClose, Goto, flags, admission, work
<1> QED  BY <1>1, Zenon DEF IInv

\* An attempt starts when no other runs, and captures what is active.
LEMMA LookInv == ASSUME IInv, NEW c \in Closer, Look(c) PROVE IInv'
<1>1. Types'
  <2>1. captured' \in [Closer -> [runs : SUBSET Run, done : 0 .. channels]]
    <3>1. [runs |-> activeRuns, done |-> activeDone] \in [runs : SUBSET Run, done : 0 .. channels]
      BY Zenon DEF IInv, Types
    <3> QED  BY <3>1, Zenon DEF IInv, Types, Look
  <2>2. closeStarted' \in BOOLEAN /\ closeRunning' \in BOOLEAN
    BY Zenon DEF IInv, Types, Look
  <2>3. pc' = [pc EXCEPT ![c] = "closed"] \/ pc' = [pc EXCEPT ![c] = "wait"]
          \/ pc' = [pc EXCEPT ![c] = "cancel"]
    BY Zenon DEF Look, Goto
  <2> QED
    BY <2>1, <2>2, <2>3, Zenon DEF IInv, Types, Look, admission, work
<1>2. Channels' /\ Active' /\ Revoked'
  BY Zenon DEF IInv, Channels, Active, Revoked, Look, Goto, flags, admission, work
<1>3. Attempts'
  BY DEF IInv, Types, Attempts, Attempting, Look, Goto, flags, admission, work
<1>4. Captures'
  BY DEF IInv, Types, Captures, Attempting, Look, Goto, flags, admission, work
<1>5. AdmittedCancelled'
  BY Zenon DEF IInv, Types, AdmittedCancelled, Look, Goto, flags, admission, work
<1> QED  BY <1>1, <1>2, <1>3, <1>4, <1>5, Zenon DEF IInv

\* A waiter leaves the attempt it waits for alone.
LEMMA GiveUpInv == ASSUME IInv, NEW c \in Closer, GiveUp(c) PROVE IInv'
<1>1. Types' /\ Channels' /\ Attempts' /\ Active' /\ Captures' /\ Revoked' /\ AdmittedCancelled'
  BY DEF IInv, Types, Channels, Attempts, Active, Captures, Revoked, AdmittedCancelled,
    Attempting, GiveUp, Goto, flags, admission, work
<1> QED  BY <1>1, Zenon DEF IInv

\* Everything active was captured.
LEMMA CancelRunsInv == ASSUME IInv, NEW c \in Closer, CancelRuns(c) PROVE IInv'
<1>1. Types' /\ Channels' /\ Attempts' /\ Active' /\ Revoked'
  BY DEF IInv, Types, Channels, Attempts, Active, Revoked, Attempting, CancelRuns, Goto,
    flags, admission, work
<1>2. Captures'
  BY Zenon DEF IInv, Types, Active, Captures, Attempting, CancelRuns, Goto, flags, admission,
    work
<1>3. AdmittedCancelled'
  BY Zenon DEF IInv, Types, Captures, AdmittedCancelled, Attempting, CancelRuns, Goto, flags,
    admission, work
<1> QED  BY <1>1, <1>2, <1>3, Zenon DEF IInv

\* What the first process close leaves behind it belongs to runs still active.
LEMMA FirstCloseInv == ASSUME IInv, NEW c \in Closer, FirstClose(c) PROVE IInv'
<1>1. Types' /\ Channels' /\ Active' /\ Revoked'
  BY DEF IInv, Types, Channels, Active, Revoked, FirstClose, CloseProcesses, Fault,
    Goto, flags, admission, work
<1>2. Attempts'
  BY DEF IInv, Types, Attempts, Attempting, FirstClose, CloseProcesses, Fault, Goto,
    flags, admission, work
<1>3. Captures'
  BY DEF IInv, Types, Captures, Attempting, FirstClose, CloseProcesses, Fault, Goto,
    flags, admission, work
<1>4. AdmittedCancelled'
  BY Zenon DEF IInv, Types, AdmittedCancelled, FirstClose, CloseProcesses, Fault, Goto, flags,
    admission, work
<1> QED  BY <1>1, <1>2, <1>3, <1>4, Zenon DEF IInv

\* A closed channel is not activeDone, so nothing is active behind it.
LEMMA DrainInv == ASSUME IInv, NEW c \in Closer, Drain(c) PROVE IInv'
<1>1. Types' /\ Channels' /\ Active' /\ Revoked'
  BY Zenon DEF IInv, Types, Channels, Active, Revoked, Drain, Goto, flags, admission, work
<1>2. Attempts'
  BY DEF IInv, Types, Attempts, Attempting, Drain, Goto, flags, admission, work
<1>3. Captures'
  BY DEF IInv, Types, Channels, Active, Captures, Attempting, Drain, Goto, flags,
    admission, work
<1>4. AdmittedCancelled'
  BY Zenon DEF IInv, Types, AdmittedCancelled, Drain, Goto, flags, admission, work
<1> QED  BY <1>1, <1>2, <1>3, <1>4, Zenon DEF IInv

\* After the drain nothing can start a process again.
LEMMA SecondCloseInv == ASSUME IInv, NEW c \in Closer, SecondClose(c) PROVE IInv'
<1>1. Types' /\ Channels' /\ Active' /\ Revoked'
  BY DEF IInv, Types, Channels, Active, Revoked, SecondClose, CloseProcesses, Fault,
    Goto, flags, admission, work
<1>2. Attempts'
  BY DEF IInv, Types, Attempts, Attempting, SecondClose, CloseProcesses, Fault, Goto,
    flags, admission, work
<1>3. Captures'
  BY DEF IInv, Types, Captures, Attempting, SecondClose, CloseProcesses, Fault, Goto,
    flags, admission, work
<1>4. AdmittedCancelled'
  BY Zenon DEF IInv, Types, AdmittedCancelled, SecondClose, CloseProcesses, Fault, Goto,
    flags, admission, work
<1> QED  BY <1>1, <1>2, <1>3, <1>4, Zenon DEF IInv

\* Profiles go when no run is left that could claim one.
LEMMA releaseHostedToolProfilesInv == ASSUME IInv, NEW c \in Closer, releaseHostedToolProfiles(c) PROVE IInv'
<1>1. Types' /\ Channels' /\ Active' /\ Revoked'
  BY DEF IInv, Types, Channels, Active, Revoked, releaseHostedToolProfiles, Fault, Goto,
    flags, admission, work
<1>2. Attempts'
  BY DEF IInv, Types, Attempts, Attempting, releaseHostedToolProfiles, Fault, Goto,
    flags, admission, work
<1>3. Captures'
  BY DEF IInv, Types, Captures, Attempting, releaseHostedToolProfiles, Fault, Goto,
    flags, admission, work
<1>4. AdmittedCancelled'
  BY Zenon DEF IInv, Types, AdmittedCancelled, releaseHostedToolProfiles, Fault, Goto, flags,
    admission, work
<1> QED  BY <1>1, <1>2, <1>3, <1>4, Zenon DEF IInv

\* The Tool runtime closes after every profile is gone.
LEMMA CloseToolsInv == ASSUME IInv, NEW c \in Closer, CloseTools(c) PROVE IInv'
<1>1. Types' /\ Channels' /\ Attempts' /\ Active' /\ Captures' /\ AdmittedCancelled'
  BY DEF IInv, Types, Channels, Attempts, Active, Captures, AdmittedCancelled,
    Attempting, CloseTools, Goto, flags, admission, work
<1>2. Revoked'
  BY Zenon DEF IInv, Types, Captures, Revoked, Attempting, CloseTools, Goto, flags, admission,
    work
<1> QED  BY <1>1, <1>2, Zenon DEF IInv

\* An attempt is complete only after the Tool runtime closed.
LEMMA FinishInv == ASSUME IInv, NEW c \in Closer, Finish(c) PROVE IInv'
<1>1. Types'
  BY Zenon DEF IInv, Types, Finish, flags, admission, work
<1>2. Channels' /\ Attempts' /\ Active' /\ Captures' /\ AdmittedCancelled'
  BY DEF IInv, Channels, Attempts, Active, Captures, AdmittedCancelled, Attempting,
    Finish, flags, admission, work
<1>3. Revoked'
  BY Zenon DEF IInv, Types, Captures, Revoked, Attempting, Finish, flags, admission, work
<1> QED  BY <1>1, <1>2, <1>3, Zenon DEF IInv

\* A context that ends changes nothing by itself.
LEMMA ContextEndsInv == ASSUME IInv, NEW c \in Closer, ContextEnds(c) PROVE IInv'
<1>1. Types' /\ Channels' /\ Attempts' /\ Active' /\ Captures' /\ Revoked' /\ AdmittedCancelled'
  BY LifecycleAssumption DEF IInv, Types, Channels, Attempts, Active, Captures, Revoked,
    AdmittedCancelled, Attempting, ContextEnds, flags, admission, work
<1> QED  BY <1>1, Zenon DEF IInv

-----------------------------------------------------------------------------
\* One case for each step of Close, of a run and of a context.
LEMMA StepInv == IInv /\ [Next]_vars => IInv'
<1> SUFFICES ASSUME IInv, [Next]_vars PROVE IInv'
  BY Zenon
<1>1. ASSUME NEW r \in Run, registerRun(r) \/ DriverRun(r) \/ unregisterRun(r) PROVE IInv'
  BY <1>1, registerRunInv, DriverRunInv, unregisterRunInv, Zenon
<1>2. ASSUME NEW c \in Closer, CallClose(c) \/ ContextEnds(c) PROVE IInv'
  BY <1>2, CallCloseInv, ContextEndsInv, Zenon
<1>3. ASSUME NEW c \in Closer, Attempt(c) PROVE IInv'
  BY <1>3, LookInv, GiveUpInv, CancelRunsInv, FirstCloseInv, DrainInv, SecondCloseInv,
    releaseHostedToolProfilesInv, CloseToolsInv, FinishInv, Zenon DEF Attempt
<1>4. CASE UNCHANGED vars
  BY <1>4 DEF vars, flags, admission, work, IInv, Types, Channels, Attempts, Active,
    Captures, Revoked, AdmittedCancelled, Attempting
<1> QED  BY <1>1, <1>2, <1>3, <1>4, Zenon DEF Next

\* What an attempt of Close knows at each of its places (agent.go:93-222): what it
\* captured covers what is active, and after the drain nothing is.
THEOREM CloseInvariant == Spec => []IInv
BY InitInv, StepInv, PTL DEF Spec

\* Close prevents new runs, drains the admitted ones and closes every process
\* before it revokes profiles and closes the Tool runtime, whatever number of
\* callers, attempts, failures and ended contexts it takes (agent.go:93).
THEOREM RevokesQuiet == Spec => []QuietWhenRevoked
<1>1. IInv => QuietWhenRevoked
  BY Zenon DEF IInv, Captures, Revoked, Attempting, QuietWhenRevoked
<1> QED  BY <1>1, CloseInvariant, PTL

\* Close cancels a run or registration sees Close (agent.go:224): there is no
\* active run past the cancellation that was not cancelled.
THEOREM EveryRunCancelled == Spec => []AdmittedCancelled
<1>1. IInv => AdmittedCancelled
  BY Zenon DEF IInv
<1> QED  BY <1>1, CloseInvariant, PTL

\* Attempts never overlap, and no channel is closed twice (agent.go:95, 256).
THEOREM OneAttempt == Spec => []TypeOK
<1>1. IInv => TypeOK
  BY Zenon DEF IInv, Types, Channels, Attempts, TypeOK
<1> QED  BY <1>1, CloseInvariant, PTL

\* An Agent keeps the contract it asks of a persistent Driver: with the Tool
\* runtime closed no process runs, and none is started again (driver.go:32).
THEOREM KeepsContract == Spec => Contract!Spec
<1>1. Init => Contract!Init
  BY Zenon DEF Init, Contract!Init
<1>2. IInv /\ [Next]_vars => [Contract!Next]_<<procs, toolClosed>>
  <2> SUFFICES ASSUME IInv, [Next]_vars PROVE [Contract!Next]_<<procs, toolClosed>>
    BY Zenon
  <2>1. ASSUME NEW r \in Run, DriverRun(r) PROVE [Contract!Next]_<<procs, toolClosed>>
    <3>1. ~toolClosed
      BY <2>1, Zenon DEF IInv, Active, Revoked, DriverRun
    <3> QED  BY <2>1, <3>1, Zenon DEF DriverRun, Contract!Next, Contract!Start
  <2>2. ASSUME NEW c \in Closer, FirstClose(c) \/ SecondClose(c)
        PROVE [Contract!Next]_<<procs, toolClosed>>
    BY <2>2, Zenon DEF FirstClose, SecondClose, CloseProcesses, Contract!Next, Contract!End
  <2>3. ASSUME NEW c \in Closer, CloseTools(c) PROVE [Contract!Next]_<<procs, toolClosed>>
    BY <2>3, Zenon DEF IInv, Captures, Attempting, CloseTools, Contract!Next, Contract!Release
  <2>4. ASSUME NEW r \in Run, registerRun(r) \/ unregisterRun(r)
        PROVE UNCHANGED <<procs, toolClosed>>
    BY <2>4, Zenon DEF registerRun, unregisterRun, work
  <2>5. ASSUME NEW c \in Closer,
               \/ CallClose(c) \/ ContextEnds(c) \/ Look(c) \/ GiveUp(c) \/ CancelRuns(c)
               \/ Drain(c) \/ releaseHostedToolProfiles(c) \/ Finish(c)
        PROVE UNCHANGED <<procs, toolClosed>>
    BY <2>5, Zenon DEF CallClose, ContextEnds, Look, GiveUp, CancelRuns, Drain,
      releaseHostedToolProfiles, Finish, work
  <2>6. CASE UNCHANGED vars
    BY <2>6, Zenon DEF vars, work
  <2> QED  BY <2>1, <2>2, <2>3, <2>4, <2>5, <2>6, Zenon DEF Next, Attempt
<1> QED  BY <1>1, <1>2, CloseInvariant, PTL DEF Spec, Contract!Spec
=============================================================================
