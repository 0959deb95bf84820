---------------------------- MODULE ThreadRuntime ----------------------------
(***************************************************************************)
(* Thread executions over a shared store: thread_runtime.go, the session   *)
(* plan of internal/engine/session.go, the store adapter of                *)
(* threadstore_engine.go, and the order in which invocation.go calls them. *)
(*                                                                         *)
(* A runtime is one Agent's state for one key; runtimes of different       *)
(* Agents meet only in the store.  Its goroutines are the execution, the   *)
(* call that opens a standby, and two recovery loops.  They share          *)
(* threadRuntime.mu, which they hold across store calls: lock says who     *)
(* holds it and which call comes next, so that other Agents act between    *)
(* the calls.  Store calls fail, leases expire, and a failed Finalize may  *)
(* have been applied, MaxFaults times in all.                              *)
(***************************************************************************)
EXTENDS ThreadStore

CONSTANTS
  Runtime,    \* the (Agent, key) pairs
  Scenes      \* what a behaviour may have

ASSUME RuntimeAssumption ==
  Scenes \subseteq
       [key : [Runtime -> Key], fork : [Runtime -> Key \cup {None}],
        modes : [Runtime -> SUBSET {"start", "resume", "fork"}], sends : [Runtime -> Nat],
        turns : Nat, faults : Nat, ambiguous : BOOLEAN, standbys : SUBSET Runtime]

VARIABLES
  scene,   \* the member of Scenes this behaviour has
  rt,      \* rt[r]: the threadRuntime
  ex,      \* ex[r]: its execution and session plan
  lock,    \* lock[r]: who holds mu, at which store call, the lease just acquired
  sends,   \* executions started
  faults,  \* failures left
  ids, marks,  \* record IDs and checkpoints made so far
  saved    \* history: saved[r], the newest checkpoint Persist reported stored

KeyOf == scene.key            \* KeyOf[r]: the key of r's Thread
ForkOf == scene.fork          \* ForkOf[r]: the key it was forked from, or None
Modes == scene.modes          \* Modes[r]: session modes of r's executions
MaxSends == scene.sends       \* bound: MaxSends[r] executions and standbys of r
MaxTurns == scene.turns       \* bound: checkpoints one execution persists
MaxFaults == scene.faults     \* bound: store failures and lease expiries
Ambiguous == scene.ambiguous  \* a failed Finalize may have been applied
Standbys == scene.standbys    \* runtimes that may open a standby

fresh == <<ids, marks>>
vars == <<scene, storeVars, rt, ex, lock, sends, faults, fresh, saved>>

NoReq == [id |-> None, hist |-> <<>>, key |-> None, prev |-> None, absent |-> FALSE, held |-> {}]
Version(x) == [id |-> x.id, hist |-> x.hist]
Idle == [pc |-> "none", mode |-> "none", task |-> FALSE, owner |-> None, id |-> None,
         prev |-> None, absent |-> FALSE, reused |-> FALSE, hist |-> <<>>,
         held |-> {}, turns |-> 0, first |-> TRUE]
Unlocked == [who |-> "none", at |-> "none", cand |-> None]

RuntimeInit ==
  /\ StoreInit /\ scene \in Scenes
  /\ rt = [r \in Runtime |->
       [task |-> FALSE, standby |-> FALSE, executing |-> FALSE, owner |-> None,
        dead |-> FALSE, renewErr |-> FALSE, pending |-> NoReq, durable |-> Version(NoReq),
        validate |-> FALSE, recovering |-> "off", err |-> FALSE]]
  /\ ex = [r \in Runtime |-> Idle] /\ lock = [r \in Runtime |-> Unlocked]
  /\ sends = [r \in Runtime |-> 0] /\ faults = MaxFaults
  /\ ids = 0 /\ marks = 0
  /\ saved = [r \in Runtime |-> <<>>]

Pending(r) == rt[r].pending # NoReq

\* newLeaseOwner: an owner nobody knows of.  Forgotten ones are used again.
InUse ==
  {leases[t] : t \in Target} \cup UNION
    {{rt[r].owner, ex[r].owner, lock[r].cand} \cup {h[2] : h \in rt[r].pending.held} :
       r \in Runtime}
OwnersLeft == Owner \ InUse # {}
NewOwner == CHOOSE o \in Owner \ InUse : TRUE

Fault == faults > 0 /\ faults' = faults - 1
Locking(r, who, at) == lock' = [lock EXCEPT ![r] = [who |-> who, at |-> at, cand |-> None]]
At(r, at) == lock[r].at = at
Goto(r, at) == lock' = [lock EXCEPT ![r].at = at]
Unlock(r) == lock' = [lock EXCEPT ![r] = Unlocked]
Free(r) == lock[r] = Unlocked
Step(r, pc) == ex' = [ex EXCEPT ![r].pc = pc]

\* releaseLocked, from the runtime state x: the owner's lease goes back unless
\* the store fails, and a checkpoint still in memory must be validated later.
\* lost says that ReleaseLease reported an error.
ReleasedRuntime(x, lost) ==
  IF x.owner = None THEN x
  ELSE [x EXCEPT !.owner = None, !.dead = TRUE,
                 !.validate = @ \/ x.pending # NoReq, !.err = @ \/ lost]
ReleaseOwner(r, x) ==
  \/ /\ rt' = [rt EXCEPT ![r] = ReleasedRuntime(x, FALSE)]
     /\ leases' = Released(leases, {KeyOf[r]}, x.owner) /\ UNCHANGED faults
  \/ /\ x.owner # None /\ Fault
     /\ rt' = [rt EXCEPT ![r] = ReleasedRuntime(x, TRUE)] /\ UNCHANGED leases

-----------------------------------------------------------------------------
(* Thread.Send, and a standby's execution of a queued message. *)

Reserve(r) ==
  /\ Free(r) /\ ex[r].pc = "none" /\ sends[r] < MaxSends[r]
  /\ ~rt[r].task
  /\ sends' = [sends EXCEPT ![r] = @ + 1]
  /\ rt' = [rt EXCEPT ![r].task = ~rt[r].standby]
  /\ \E mode \in Modes[r] :
       ex' = [ex EXCEPT ![r] = [Idle EXCEPT !.pc = "begin", !.mode = mode,
                                            !.task = ~rt[r].standby]]
  /\ UNCHANGED <<storeVars, lock, faults, fresh, saved>>

\* begin up to its first store call: acquireLocked's early returns.
Begin(r) ==
  /\ Free(r) /\ ex[r].pc = "begin"
  /\ \/ /\ rt[r].err \/ (rt[r].owner # None /\ rt[r].dead)
        /\ Step(r, "cleanup") /\ UNCHANGED <<rt, lock>>
     \/ /\ ~rt[r].err /\ rt[r].owner # None /\ ~rt[r].dead
        /\ rt' = [rt EXCEPT ![r].executing = TRUE]
        /\ Locking(r, "exec", "renew") /\ UNCHANGED ex
     \/ /\ ~rt[r].err /\ rt[r].owner = None
        /\ Locking(r, "exec", "acquire") /\ UNCHANGED <<rt, ex>>
  /\ UNCHANGED <<storeVars, sends, faults, fresh, saved>>

\* A critical section that fails before it owns the key.
Refused(r) ==
  /\ Unlock(r)
  /\ IF lock[r].who = "exec" THEN Step(r, "cleanup") ELSE UNCHANGED ex

\* AcquireThreadOwnership: busy, unavailable, or a lease under a fresh owner.
Acquire(r) ==
  /\ At(r, "acquire")
  /\ \/ /\ leases[KeyOf[r]] # None /\ Refused(r)
        /\ UNCHANGED <<leases, faults>>
     \/ /\ Fault /\ Refused(r) /\ UNCHANGED leases
     \/ /\ leases[KeyOf[r]] = None /\ OwnersLeft
        /\ leases' = [leases EXCEPT ![KeyOf[r]] = NewOwner]
        /\ lock' = [lock EXCEPT ![r].at = "validate", ![r].cand = NewOwner]
        /\ UNCHANGED <<ex, faults>>
  /\ UNCHANGED <<records, active, rt, sends, fresh, saved>>

\* The acquired lease becomes the runtime's ownership.
Own(r, x) ==
  LET o == [x EXCEPT !.owner = lock[r].cand, !.dead = FALSE, !.renewErr = FALSE,
                     !.validate = FALSE]
  IN  \/ /\ lock[r].who = "exec"
         /\ rt' = [rt EXCEPT ![r] = [o EXCEPT !.executing = TRUE]] /\ Goto(r, "flush")
      \/ /\ lock[r].who = "open"
         /\ rt' = [rt EXCEPT ![r] = [o EXCEPT !.standby = TRUE]] /\ Unlock(r)
      \/ /\ lock[r].who = "released"
         /\ rt' = [rt EXCEPT ![r] = o] /\ Goto(r, "flush")

\* validatePendingLocked: a checkpoint kept in memory while the key was not owned
\* is stored already, still the newest, or superseded by another writer.
ValidateTrusting(r) ==
  /\ At(r, "validate") /\ Own(r, rt[r])
  /\ UNCHANGED <<storeVars, ex, sends, faults, fresh, saved>>
Validate(r) ==
  LET x == rt[r]  stored == Resolved(KeyOf[r])
      giveBack == Released(leases, {KeyOf[r]}, lock[r].cand)
  IN
  /\ At(r, "validate")
  /\ \/ /\ ~x.validate \/ ~Pending(r) \/ (stored = x.durable /\ stored # Version(x.pending))
        /\ Own(r, x) /\ UNCHANGED <<leases, ex, faults>>
     \/ /\ x.validate /\ Pending(r) /\ stored = Version(x.pending)
        /\ Own(r, [x EXCEPT !.pending = NoReq, !.durable = stored])
        /\ UNCHANGED <<leases, ex, faults>>
     \/ /\ x.validate /\ Pending(r) /\ stored \notin {x.durable, Version(x.pending)}
        /\ rt' = [rt EXCEPT ![r].err = TRUE] /\ Refused(r)
        /\ \/ leases' = giveBack /\ UNCHANGED faults
           \/ Fault /\ UNCHANGED leases
     \/ /\ x.validate /\ Pending(r) /\ Fault /\ Refused(r)
        /\ leases' = giveBack /\ UNCHANGED rt
  /\ UNCHANGED <<records, active, sends, fresh, saved>>

\* begin under an inherited lease proves the ownership before anything else.
Renew(r) ==
  /\ At(r, "renew")
  /\ \/ /\ leases[KeyOf[r]] = rt[r].owner
        /\ Goto(r, "flush") /\ UNCHANGED <<rt, ex, faults>>
     \/ /\ \/ leases[KeyOf[r]] # rt[r].owner /\ UNCHANGED faults
           \/ Fault
        /\ rt' = [rt EXCEPT ![r].err = TRUE, ![r].dead = TRUE] /\ Refused(r)
     \/ Refused(r) /\ UNCHANGED <<rt, faults>>   \* the execution was cancelled
  /\ UNCHANGED <<storeVars, sends, fresh, saved>>

-----------------------------------------------------------------------------
(* flushLocked: the checkpoint in memory is written under the current owner. *)

\* The pending request's leases, taken again for the current owner.
FlushTargets(r) == {h[1] : h \in rt[r].pending.held} \ {KeyOf[r]}
FlushRequest(r) ==
  [rt[r].pending EXCEPT !.held =
     {<<t, rt[r].owner>> : t \in FlushTargets(r) \cup {KeyOf[r]}}]

\* What follows flushLocked in its three callers; lost means ErrLeaseLost.
AfterFlush(r, x, lost) ==
  \/ /\ lock[r].who = "exec" /\ rt' = [rt EXCEPT ![r] = x] /\ Unlock(r)
     /\ Step(r, IF lost THEN "cleanup" ELSE "plan")
  \/ /\ lock[r].who = "recover" /\ UNCHANGED ex
     /\ rt' = [rt EXCEPT ![r] = [x EXCEPT !.err = @ \/ lost, !.dead = @ \/ lost]]
     /\ Goto(r, "settle")
  \/ /\ lock[r].who = "released" /\ UNCHANGED ex
     /\ rt' = [rt EXCEPT ![r] = [x EXCEPT !.err = @ \/ lost]]
     /\ Goto(r, "release")

\* Leases first; one that another owner holds ends the attempt.
FlushLeases(r) ==
  /\ At(r, "flush")
  /\ \/ ~Pending(r) /\ AfterFlush(r, rt[r], FALSE) /\ UNCHANGED <<leases, faults>>
     \/ /\ Pending(r) /\ AfterFlush(r, rt[r], FALSE) /\ UNCHANGED leases
        /\ \/ (\E t \in FlushTargets(r) : ~Acquirable(t, rt[r].owner)) /\ UNCHANGED faults
           \/ FlushTargets(r) # {} /\ Fault
     \/ /\ Pending(r) /\ \A t \in FlushTargets(r) : Acquirable(t, rt[r].owner)
        /\ leases' = [t \in Target |-> IF t \in FlushTargets(r) THEN rt[r].owner ELSE leases[t]]
        /\ Goto(r, "finalize") /\ UNCHANGED <<rt, ex, faults>>
  /\ UNCHANGED <<records, active, sends, fresh, saved>>

\* Then Finalize.
FlushForgetful(r) ==
  /\ At(r, "finalize") /\ Goto(r, "unflush")
  /\ rt' = [rt EXCEPT ![r].pending = NoReq]
  /\ \/ LeasesValid(FlushRequest(r)) /\ KeyFree(FlushRequest(r)) /\ Apply(FlushRequest(r))
        /\ UNCHANGED faults
     \/ Fault /\ UNCHANGED <<records, active>>
  /\ UNCHANGED <<leases, ex, sends, fresh, saved>>
FlushFinalize(r) ==
  LET req == FlushRequest(r)
      done == [rt[r] EXCEPT !.pending = NoReq, !.durable = Version(req)]
  IN
  /\ At(r, "finalize")
  /\ \/ /\ LeasesValid(req) /\ KeyFree(req) /\ Apply(req)
        /\ rt' = [rt EXCEPT ![r] = done] /\ Goto(r, "unflush") /\ UNCHANGED faults
     \/ /\ ~LeasesValid(req) /\ Goto(r, "unflushLost") /\ UNCHANGED <<records, active, rt, faults>>
     \/ /\ LeasesValid(req) /\ ~KeyFree(req) /\ Goto(r, "unflush")
        /\ UNCHANGED <<records, active, rt, faults>>
     \/ /\ Fault /\ Goto(r, "unflush") /\ UNCHANGED rt
        /\ \/ UNCHANGED <<records, active>>
           \/ Ambiguous /\ LeasesValid(req) /\ KeyFree(req) /\ Apply(req)
  /\ UNCHANGED <<leases, ex, sends, fresh, saved>>

\* Then the leases go back; a failure here costs the ownership.
FlushRelease(r) ==
  LET lost == At(r, "unflushLost")
      T == {t \in Target \ {KeyOf[r]} : leases[t] = rt[r].owner}
  IN
  /\ At(r, "unflush") \/ At(r, "unflushLost")
  /\ \/ /\ leases' = Released(leases, T, rt[r].owner)
        /\ AfterFlush(r, rt[r], lost) /\ UNCHANGED faults
     \/ /\ Fault /\ UNCHANGED leases
        /\ AfterFlush(r, [rt[r] EXCEPT !.err = TRUE, !.dead = TRUE], lost)
  /\ UNCHANGED <<records, active, sends, fresh, saved>>

-----------------------------------------------------------------------------
(* The execution's session plan: prepareSessionPlan over the store adapter. *)

\* borrowedLease: the plan's key lease is the runtime's, while that is healthy.
Borrowable(r) == rt[r].owner # None /\ ~rt[r].dead /\ ~rt[r].err

\* The plan's own leases, under a fresh owner: all of them, or the plan fails.
Take(T) ==
  /\ OwnersLeft /\ \A t \in T : leases[t] = None
  /\ leases' = [t \in Target |-> IF t \in T THEN NewOwner ELSE leases[t]]

\* Resolve through the adapter: the checkpoint in memory before the stored one,
\* whose version the runtime remembers.
Current(r) == IF Pending(r) THEN Version(rt[r].pending) ELSE Resolved(KeyOf[r])
Remember(r) ==
  rt' = [rt EXCEPT ![r].durable = IF Pending(r) THEN @ ELSE Resolved(KeyOf[r])]

\* Failing here gives back nothing but the leases: a lost ownership, a missing,
\* existing or incompatible conversation, a lease another plan holds, a store
\* failure, cancellation.
PlanFails(r) ==
  /\ Free(r) /\ ex[r].pc \in {"plan", "lease"} /\ Step(r, "cleanup")
  /\ UNCHANGED <<storeVars, rt, lock, sends, faults, fresh, saved>>

PlanResolve(r) ==
  /\ Free(r) /\ ex[r].pc = "plan" /\ Borrowable(r)
  /\ ex' = [ex EXCEPT ![r] = [@ EXCEPT !.pc = "lease", !.id = Current(r).id,
                                       !.hist = Current(r).hist]]
  /\ Remember(r)
  /\ UNCHANGED <<storeVars, lock, sends, faults, fresh, saved>>

\* Resume the record found, or start over in a fresh one that displaces it.
PlanContinue(r) ==
  LET x == ex[r] IN
  /\ Free(r) /\ x.pc = "lease" /\ Borrowable(r)
  /\ x.mode \in {"start", "resume"} /\ x.id # None
  /\ \/ /\ Take({x.id}) /\ UNCHANGED ids
        /\ ex' = [ex EXCEPT ![r] = [x EXCEPT !.pc = "run", !.owner = NewOwner,
             !.reused = TRUE, !.held = {x.id}]]
     \/ /\ x.mode = "start" /\ ids < MaxIds /\ ids' = ids + 1
        /\ Take({x.id, ids'})
        /\ ex' = [ex EXCEPT ![r] = [x EXCEPT !.pc = "run", !.owner = NewOwner, !.id = ids',
             !.prev = x.id, !.held = {x.id, ids'}]]
  /\ UNCHANGED <<records, active, rt, lock, sends, faults, marks, saved>>

\* A new conversation, or a fork, which also holds the parent's leases.
PlanNew(r) ==
  LET x == ex[r]  forks == x.mode = "fork"  parent == Resolved(ForkOf[r]) IN
  /\ Free(r) /\ x.pc = "lease" /\ Borrowable(r)
  /\ x.mode \in {"start", "fork"} /\ x.id = None /\ ids < MaxIds
  /\ forks => ForkOf[r] # None /\ parent.id # None
  /\ ids' = ids + 1
  /\ LET T == {ids'} \cup (IF forks THEN {ForkOf[r], parent.id} ELSE {}) IN
     /\ Take(T)
     /\ ex' = [ex EXCEPT ![r] = [x EXCEPT !.pc = "run", !.owner = NewOwner, !.id = ids',
          !.absent = forks, !.hist = IF forks THEN parent.hist ELSE <<>>, !.held = T]]
  /\ UNCHANGED <<records, active, rt, lock, sends, faults, marks, saved>>

\* The provider rejects the resume: PrepareFresh, once; the run fails with it.
ResumeRejected(r) ==
  /\ Free(r) /\ ex[r].pc = "run" /\ ex[r].first /\ ex[r].reused /\ ex[r].mode = "start"
  /\ \/ /\ Borrowable(r) /\ ids < MaxIds /\ ids' = ids + 1
        /\ leases' = [leases EXCEPT ![ids'] = ex[r].owner]
        /\ ex' = [ex EXCEPT ![r] = [@ EXCEPT !.id = ids', !.prev = ex[r].id,
             !.reused = FALSE, !.held = ex[r].held \cup {ids'}, !.first = FALSE]]
     \/ Step(r, "cleanup") /\ UNCHANGED <<leases, ids>>
  /\ UNCHANGED <<records, active, rt, lock, sends, faults, marks, saved>>

-----------------------------------------------------------------------------
(* The end of a turn: ownership is verified, then the checkpoint persisted. *)

TurnEnds(r) ==
  /\ ex[r].pc = "run" /\ (Step(r, "verify") \/ Step(r, "verifyFailed"))
  /\ UNCHANGED <<storeVars, rt, lock, sends, faults, fresh, saved>>

\* Renewal of the plan's own leases failed, or verifyOwnership rejects.
VerifyOwnership(r) ==
  /\ Free(r) /\ ex[r].pc \in {"verify", "verifyFailed"}
  /\ \/ /\ \E t \in ex[r].held : leases[t] # ex[r].owner
        /\ Step(r, "cleanup") /\ UNCHANGED rt
     \/ /\ rt[r].renewErr \/ rt[r].dead
        /\ rt' = [rt EXCEPT ![r].err = @ \/ rt[r].renewErr] /\ Step(r, "cleanup")
     \/ /\ ~rt[r].renewErr /\ ~rt[r].dead /\ UNCHANGED rt
        /\ Step(r, IF ex[r].pc = "verify" THEN "persist" ELSE "cleanup")
  /\ UNCHANGED <<storeVars, lock, sends, faults, fresh, saved>>

\* The request of persistSessionPlan: the borrowed lease and the plan's own.
Request(r) ==
  [id |-> ex[r].id, hist |-> Append(ex[r].hist, marks + 1), key |-> KeyOf[r],
   prev |-> ex[r].prev, absent |-> ex[r].absent,
   held |-> {<<KeyOf[r], rt[r].owner>>} \cup {<<t, ex[r].owner>> : t \in ex[r].held}]

\* A newer checkpoint replaces the one in memory and inherits its preconditions.
Merged(r, req) ==
  LET old == rt[r].pending  durable == rt[r].durable.id IN
  [req EXCEPT
     !.held = @ \cup {h \in old.held : h[1] \notin {g[1] : g \in req.held}},
     !.absent = @ \/ old.absent,
     !.prev = IF durable = req.id THEN None ELSE durable]

\* Persist returned nil: later turns continue from this checkpoint.
Persisted(r, req) ==
  /\ saved' = [saved EXCEPT ![r] = req.hist] /\ marks' = marks + 1
  /\ \E pc \in (IF ex[r].turns + 1 < MaxTurns THEN {"run", "cleanup"} ELSE {"cleanup"}) :
       ex' = [ex EXCEPT ![r] = [@ EXCEPT !.pc = pc, !.hist = req.hist, !.reused = TRUE,
         !.prev = None, !.absent = FALSE, !.first = FALSE, !.turns = ex[r].turns + 1]]

PersistFails(r) == Step(r, "cleanup") /\ UNCHANGED <<saved, marks>>

\* engineStore.Finalize, under mu.
Persist(r) ==
  LET req == Request(r)
      keep == [rt EXCEPT ![r].pending = req]
  IN
  /\ Free(r) /\ ex[r].pc = "persist"
  /\ \/ /\ ~Borrowable(r) /\ PersistFails(r)
        /\ UNCHANGED <<records, active, rt, faults>>
     \/ /\ Borrowable(r) /\ Pending(r)
        /\ rt' = [rt EXCEPT ![r].pending = Merged(r, req)]
        /\ Persisted(r, req) /\ UNCHANGED <<records, active, faults>>
     \/ /\ Borrowable(r) /\ ~Pending(r) /\ LeasesValid(req) /\ KeyFree(req) /\ Apply(req)
        /\ rt' = [rt EXCEPT ![r].durable = Version(req)]
        /\ Persisted(r, req) /\ UNCHANGED faults
     \/ /\ Borrowable(r) /\ ~Pending(r) /\ ~(LeasesValid(req) /\ KeyFree(req))
        /\ PersistFails(r) /\ UNCHANGED <<records, active, rt, faults>>
     \/ /\ Borrowable(r) /\ ~Pending(r) /\ Fault
        /\ \/ UNCHANGED <<records, active>>
           \/ Ambiguous /\ LeasesValid(req) /\ KeyFree(req) /\ Apply(req)
        /\ \/ rt' = keep /\ Persisted(r, req)
           \/ PersistFails(r) /\ UNCHANGED rt      \* the context ended as well
  /\ UNCHANGED <<leases, lock, sends, ids>>

\* The plan's leases go back, then end gives up the key unless it is needed.
Cleanup(r) ==
  /\ ex[r].pc = "cleanup" /\ Step(r, "end")
  /\ \/ leases' = Released(leases, ex[r].held, ex[r].owner) /\ UNCHANGED faults
     \/ ex[r].held # {} /\ Fault /\ UNCHANGED leases
  /\ UNCHANGED <<records, active, rt, lock, sends, fresh, saved>>

End(r) ==
  LET x == [rt[r] EXCEPT !.executing = FALSE, !.task = @ /\ ~ex[r].task] IN
  /\ Free(r) /\ ex[r].pc = "end" /\ ex' = [ex EXCEPT ![r] = Idle]
  /\ \/ (x.standby \/ Pending(r)) /\ rt' = [rt EXCEPT ![r] = x] /\ UNCHANGED <<leases, faults>>
     \/ ~x.standby /\ ~Pending(r) /\ ReleaseOwner(r, x)
  /\ UNCHANGED <<records, active, lock, sends, fresh, saved>>

-----------------------------------------------------------------------------
(* Standby, and the loops that write a checkpoint kept in memory. *)

OpenStandby(r) ==
  /\ Free(r) /\ r \in Standbys /\ ~rt[r].standby /\ ~rt[r].task /\ ~rt[r].err
  /\ sends[r] < MaxSends[r] /\ sends' = [sends EXCEPT ![r] = @ + 1]
  /\ \/ /\ rt[r].owner # None /\ ~rt[r].dead
        /\ rt' = [rt EXCEPT ![r].standby = TRUE] /\ UNCHANGED lock
     \/ rt[r].owner = None /\ Locking(r, "open", "acquire") /\ UNCHANGED rt
  /\ UNCHANGED <<storeVars, ex, faults, fresh, saved>>

\* startReleasedRecoveryLocked
RecoveryNever(x) == x
Recovery(x) ==
  IF x.pending # NoReq /\ x.recovering = "off" /\ ~x.err
  THEN [x EXCEPT !.recovering = "on"] ELSE x

\* The standby loop's deferred shutdown, with no execution left.
CloseStandby(r) ==
  LET x == [rt[r] EXCEPT !.standby = FALSE] IN
  /\ Free(r) /\ rt[r].standby /\ ex[r].pc = "none"
  /\ \/ /\ rt' = [rt EXCEPT ![r] = Recovery(ReleasedRuntime(x, FALSE))]
        /\ leases' = Released(leases, {KeyOf[r]}, x.owner) /\ UNCHANGED faults
     \/ /\ x.owner # None /\ Fault /\ UNCHANGED leases
        /\ rt' = [rt EXCEPT ![r] = ReleasedRuntime(x, TRUE)]
  /\ UNCHANGED <<records, active, ex, lock, sends, fresh, saved>>

\* recoverPersistence: one iteration of the loop that lives as long as the
\* ownership.  A lost ownership waits for the execution or standby to end.
RecoverEager(r) ==
  /\ Free(r) /\ rt[r].owner # None /\ rt[r].dead
  /\ ReleaseOwner(r, [rt[r] EXCEPT !.err = @ \/ Pending(r)])
  /\ UNCHANGED <<records, active, ex, lock, sends, fresh, saved>>
RecoverIdle(r) ==
  LET x == rt[r] IN
  /\ Free(r) /\ x.owner # None /\ ~x.task /\ ~x.standby
  /\ \/ x.dead /\ ~x.executing /\ ReleaseOwner(r, [x EXCEPT !.err = @ \/ Pending(r)])
     \/ ~x.dead /\ ~Pending(r) /\ ReleaseOwner(r, x)
  /\ UNCHANGED <<records, active, ex, lock, sends, fresh, saved>>

RecoverFlush(r) ==
  /\ Free(r) /\ rt[r].owner # None /\ ~rt[r].dead /\ ~rt[r].executing /\ Pending(r)
  /\ Locking(r, "recover", "flush")
  /\ UNCHANGED <<storeVars, rt, ex, sends, faults, fresh, saved>>

RecoverSettle(r) ==
  LET x == rt[r] IN
  /\ At(r, "settle") /\ Unlock(r)
  /\ \/ ~x.task /\ ~x.standby /\ ~Pending(r) /\ ReleaseOwner(r, x)
     \/ (x.task \/ x.standby \/ Pending(r)) /\ UNCHANGED <<rt, leases, faults>>
  /\ UNCHANGED <<records, active, ex, sends, fresh, saved>>

\* recoverReleasedPersistence: it takes the key again, writes, and gives it back.
\* When there is nothing for it to do it leaves, and looks once more on its way out.
ReleasedAttempt(r) ==
  LET x == rt[r]  idle == x.owner # None \/ ~Pending(r) \/ x.err IN
  /\ Free(r) /\ x.recovering = "on"
  /\ \/ idle /\ rt' = [rt EXCEPT ![r].recovering = "leaving"] /\ UNCHANGED lock
     \/ ~idle /\ Locking(r, "released", "acquire") /\ UNCHANGED rt
  /\ UNCHANGED <<storeVars, ex, sends, faults, fresh, saved>>

ReleasedLeaves(r) ==
  LET x == [rt[r] EXCEPT !.recovering = "off"] IN
  /\ Free(r) /\ rt[r].recovering = "leaving"
  /\ rt' = [rt EXCEPT ![r] = IF x.owner = None THEN Recovery(x) ELSE x]
  /\ UNCHANGED <<storeVars, ex, lock, sends, faults, fresh, saved>>

ReleasedSettle(r) ==
  /\ At(r, "release") /\ Unlock(r) /\ ReleaseOwner(r, rt[r])
  /\ UNCHANGED <<records, active, ex, sends, fresh, saved>>

\* The renewal loop finds the lease lost, or cannot reach the store; or the Agent
\* closes.  Either ends the owner's context.
OwnerLost(r) ==
  /\ rt[r].owner # None /\ ~rt[r].dead
  /\ \/ leases[KeyOf[r]] # rt[r].owner /\ UNCHANGED faults
        /\ rt' = [rt EXCEPT ![r].dead = TRUE, ![r].renewErr = TRUE]
     \/ Fault /\ \E e \in BOOLEAN : rt' = [rt EXCEPT ![r].dead = TRUE, ![r].renewErr = e]
  /\ UNCHANGED <<storeVars, ex, lock, sends, fresh, saved>>

LeaseExpires ==
  /\ Fault /\ \E t \in Target : Expire(t)
  /\ UNCHANGED <<rt, ex, lock, sends, fresh, saved>>

\* A lease whose holder forgot it, after a failed release, is never renewed.
OrphanExpires ==
  /\ \E t \in Target :
       /\ \A r \in Runtime : leases[t] \notin {rt[r].owner, ex[r].owner, lock[r].cand}
       /\ Expire(t)
  /\ UNCHANGED <<rt, ex, lock, sends, faults, fresh, saved>>

-----------------------------------------------------------------------------
Execution(r) ==
  \/ Begin(r) \/ PlanFails(r) \/ PlanResolve(r) \/ PlanContinue(r) \/ PlanNew(r)
  \/ ResumeRejected(r) \/ TurnEnds(r) \/ VerifyOwnership(r) \/ Persist(r)
  \/ Cleanup(r) \/ End(r)
Section(r) ==
  \/ Acquire(r) \/ Validate(r) \/ Renew(r)
  \/ FlushLeases(r) \/ FlushFinalize(r) \/ FlushRelease(r)
  \/ RecoverSettle(r) \/ ReleasedSettle(r)
Recover(r) == RecoverIdle(r) \/ RecoverFlush(r)
RecoverReleased(r) == ReleasedAttempt(r) \/ ReleasedLeaves(r)

RuntimeStep(r) ==
  \/ Reserve(r) \/ OpenStandby(r) \/ CloseStandby(r) \/ OwnerLost(r)
  \/ Execution(r) \/ Section(r) \/ Recover(r) \/ RecoverReleased(r)

RuntimeNext ==
  /\ (\E r \in Runtime : RuntimeStep(r)) \/ LeaseExpires \/ OrphanExpires
  /\ UNCHANGED scene

RuntimeSpec == RuntimeInit /\ [][RuntimeNext]_vars

\* Every goroutine keeps running and unrenewed leases expire; a standby whose
\* ownership is lost shuts down (recoverPersistence cancels its lifetime).
RuntimeFair ==
  /\ RuntimeSpec /\ WF_vars(OrphanExpires /\ UNCHANGED scene)
  /\ \A r \in Runtime :
       /\ WF_vars(Execution(r) /\ UNCHANGED scene) /\ WF_vars(Section(r) /\ UNCHANGED scene)
       /\ WF_vars(Recover(r) /\ UNCHANGED scene)
       /\ WF_vars(RecoverReleased(r) /\ UNCHANGED scene)
       /\ WF_vars(rt[r].dead /\ CloseStandby(r) /\ UNCHANGED scene)

-----------------------------------------------------------------------------
(* What the runtime promises. *)

\* standby_runtime.go:55: recovery "never overwrites a Thread that another writer
\* has advanced".  Whatever leases expire and calls fail, the conversation stored
\* under a key only ever advances to one that descends from it, and so does the
\* conversation each Agent has persisted.
NoLostUpdate ==
  [][/\ \A k \in Key : Descends(Resolved(k)'.hist, Resolved(k).hist)
     /\ \A r \in Runtime : Descends(saved[r]', saved[r])]_vars

\* A checkpoint Persist reported stored is in the store, or still in memory.
CheckpointKept ==
  \A r \in Runtime :
    \/ Descends(Resolved(KeyOf[r]).hist, saved[r])
    \/ Pending(r) /\ Descends(rt[r].pending.hist, saved[r])

\* While an execution, a flush or a standby runs, the runtime owns a lease:
\* verifyOwnership, flushLocked and the borrowed leases dereference the owner.
OwnedInUse ==
  \A r \in Runtime :
    rt[r].executing \/ rt[r].standby \/ lock[r].at \in {"renew", "flush", "finalize", "unflush", "unflushLost"}
      => rt[r].owner # None

\* A key has one conversation: every record that is not archived is the active one
\* (Finalize of the store adapter archives the record it displaces).  A Finalize that
\* failed for its caller and was applied leaves durableID behind, and the record it
\* displaced unarchived; the property is about stores without such failures.
OneActiveRecord ==
  Ambiguous \/ \A i \in Id : records[i] # NoRecord /\ ~records[i].archived
                               => active[records[i].key] = i

\* Nothing stays with an Agent for good: the key of a Thread that has nothing to
\* run or to write is given back, unless a standby keeps it, and a checkpoint kept
\* in memory is written, unless its ownership is lost.
KeysReleased ==
  []<>(\A r \in Runtime : /\ rt[r].owner = None \/ rt[r].standby
                          /\ ~Pending(r) \/ rt[r].err)
=============================================================================
