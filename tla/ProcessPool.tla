---------------------------- MODULE ProcessPool ----------------------------
(***************************************************************************)
(* The pool of resident provider processes (claude/persistent.go, and its   *)
(* siblings codebuddy/persistent.go and codex/persistent.go), the Driver    *)
(* runs that use it, the idle timers that evict from it and the Agent close *)
(* that empties it.                                                         *)
(*                                                                          *)
(* A Thread has at most one run at a time: the thread runtime serialises    *)
(* them.  A fork runs beside its parent and starts from the parent's        *)
(* provider session, so two runs meet on one session through the writer     *)
(* locks only.  A process is known by a number; what it opened is a provider *)
(* session, a number too, and 0 is no session.                              *)
(***************************************************************************)
EXTENDS Naturals, FiniteSets

CONSTANTS
  Thread,         \* host Threads
  ParentOf,       \* [Thread -> Thread]: itself, or the Thread it forks
  MaxProcs,       \* processes spawned in all
  MaxSessions,    \* provider sessions minted in all
  Bounds          \* of one behaviour: its provider, the runs of every Thread, the
                  \* processes that die by themselves, the calls of Close (all but
                  \* the last may give up), and the sessions minted before

Proc == 1..MaxProcs
Session == 1..MaxSessions
Evictor == Proc               \* the eviction goroutine of a process's timer
Actor == Thread \cup Evictor
Engine == Thread \X (0..1)    \* engine record of a Thread, before and after a rebind
ResumeKey(s) == <<"resume", s>>
Key == Engine \cup {ResumeKey(s) : s \in Session}  \* writer keys
LockId == 1..Cardinality(Actor)
NoEngine == <<>>
NoKey == <<>>

ASSUME PoolAssumption ==
  /\ IsFiniteSet(Thread) /\ Thread # {} /\ Thread \cap Nat = {} /\ "resume" \notin Thread
  /\ ParentOf \in [Thread -> Thread]
  /\ {MaxProcs, MaxSessions} \subseteq Nat
  /\ Bounds \subseteq [provider : {"claude", "codebuddy", "codex"}, runs : [Thread -> Nat],
                       crashes : Nat, closes : Nat,
                       minted : 0..MaxSessions]

VARIABLES
  provider,   \* which driver's pool this is
  \* persistentPool
  live, engines, all, closed,
  lockOf,     \* p.locks: writer key -> writerLock, 0 when absent
  refs, held, \* of a writerLock: its references, and the actor holding its mutex
  proc,       \* liveProcess and the operating system's process behind it
  run,        \* the Driver.Run in flight of every Thread
  thread,     \* what the core remembers of a Thread
  evict,      \* eviction goroutines
  closer,     \* Agent.Close
  minted,     \* provider sessions handed out
  crashes,    \* how many processes may still die
  unguarded   \* history: processes terminated without their session's writer

poolVars == <<live, engines, all, closed>>
lockVars == <<lockOf, refs, held>>
envVars == <<provider, thread, minted, crashes>>
vars == <<provider, poolVars, lockVars, proc, run, thread, evict, closer, minted,
          crashes, unguarded>>

NoProc == [os |-> "none", opened |-> 0, key |-> 0, engine |-> NoEngine,
           closed |-> FALSE, killed |-> FALSE, waiting |-> FALSE,
           reaped |-> FALSE, idle |-> FALSE]
NoRun == [pc |-> "idle", kind |-> "chat", resume |-> 0, engine |-> NoEngine,
          prev |-> NoEngine, key |-> NoKey, lock |-> 0, lp |-> 0, stale |-> {}, victim |-> 0,
          next |-> "idle", prompted |-> {}, sid |-> 0, good |-> FALSE, warm |-> FALSE,
          ctxDone |-> FALSE, left |-> 0]

Init ==
  /\ live = [s \in Session |-> 0] /\ engines = [e \in Engine |-> 0]
  /\ all = {} /\ closed = FALSE
  /\ lockOf = [k \in Key |-> 0]
  /\ refs = [l \in LockId |-> 0] /\ held = [l \in LockId |-> 0]
  /\ proc = [p \in Proc |-> NoProc]
  /\ thread = [t \in Thread |-> [session |-> 0, engine |-> <<t, 0>>]]
  /\ evict = [p \in Evictor |-> [pc |-> "none", key |-> 0, lock |-> 0]]
  /\ unguarded = {}
  /\ \E b \in Bounds :
       /\ provider = b.provider /\ crashes = b.crashes /\ minted = b.minted
       /\ run = [t \in Thread |-> [NoRun EXCEPT !.left = b.runs[t]]]
       /\ closer = [pc |-> "open", rest |-> {}, lp |-> 0, again |-> FALSE, late |-> FALSE,
               failed |-> FALSE, left |-> b.closes]

-----------------------------------------------------------------------------
(* Writer locks. *)

\* lockWriter, up to the mutex: find or make the lock and take a reference.  An
\* actor has one reference at a time, so that there is always a lock to make.
LocksLeft(k) == lockOf[k] # 0 \/ \E l \in LockId : refs[l] = 0
LockFor(k) == IF lockOf[k] # 0 THEN lockOf[k] ELSE CHOOSE l \in LockId : refs[l] = 0
Enter(k) ==
  /\ LocksLeft(k)
  /\ lockOf' = [lockOf EXCEPT ![k] = LockFor(k)]
  /\ refs' = [refs EXCEPT ![LockFor(k)] = @ + 1]
  /\ UNCHANGED held

Acquire(a, l) ==
  /\ held[l] = 0
  /\ held' = [held EXCEPT ![l] = a]
  /\ UNCHANGED <<lockOf, refs>>

\* Mutation: the entry is dropped although others wait for the lock.
UnlockEager(k, l) ==
  /\ held' = [held EXCEPT ![l] = 0]
  /\ refs' = [refs EXCEPT ![l] = @ - 1]
  /\ lockOf' = [lockOf EXCEPT ![k] = 0]
\* release: the mutex, then the reference; the last reference drops the entry.
Unlock(k, l) ==
  /\ held' = [held EXCEPT ![l] = 0]
  /\ refs' = [refs EXCEPT ![l] = @ - 1]
  /\ lockOf' = IF refs[l] = 1 /\ lockOf[k] = l THEN [lockOf EXCEPT ![k] = 0] ELSE lockOf

-----------------------------------------------------------------------------
(* Processes. *)

Up(p) == proc[p].os = "up"
isClosed(p) == proc[p].closed \/ (provider = "codex" /\ ~Up(p))
Fresh == {p \in Proc : proc[p].os = "none" /\ \A q \in 1..(p - 1) : proc[q].os # "none"}

lookup(s) == IF s = 0 THEN 0 ELSE live[s]
lookupEngine(e) == IF e = NoEngine THEN 0 ELSE engines[e]
Some(p) == {p} \ {0}

\* spawn: the process runs and is in no table yet.  codex/appserver.Open starts
\* waiting for the exit at once, the others when the process is to end.
Spawned(p, s, pooled) ==
  [proc EXCEPT ![p] = [NoProc EXCEPT !.os = "up", !.opened = s, !.key = s,
                                     !.waiting = pooled /\ provider = "codex"]]

\* beginClose, the cancellation of the process context, and startWait.
signalTerminate(P) ==
  [p \in Proc |-> IF p \in P THEN [proc[p] EXCEPT !.closed = TRUE, !.idle = FALSE,
                                                  !.killed = TRUE, !.waiting = TRUE]
                  ELSE proc[p]]

\* detach: out of both tables, where they still name the process.
detach(P) ==
  /\ live' = [s \in Session |->
       IF live[s] \in P /\ proc[live[s]].key = s THEN 0 ELSE live[s]]
  /\ engines' = [e \in Engine |->
       IF engines[e] \in P /\ proc[engines[e]].engine = e THEN 0 ELSE engines[e]]
  /\ UNCHANGED <<all, closed>>

\* A killed process dies; one whose input was closed ends its session.
Exit(p) ==
  /\ Up(p) /\ (proc[p].killed \/ proc[p].closed)
  /\ proc' = [proc EXCEPT ![p].os = "gone", ![p].opened = 0]
  /\ UNCHANGED <<envVars, poolVars, lockVars, run, evict, closer, unguarded>>

Crash(p) ==
  /\ Up(p) /\ ~proc[p].closed /\ crashes > 0
  /\ proc' = [proc EXCEPT ![p].os = "gone", ![p].opened = 0]
  /\ crashes' = crashes - 1
  /\ UNCHANGED <<provider, thread, minted, poolVars, lockVars, run, evict, closer,
                 unguarded>>

\* The goroutine of startWait: cmd.Wait returned.  The codex pool does not learn
\* of it here: forget follows whoever stopped the process.
Reap(p) ==
  /\ proc[p].os = "gone" /\ proc[p].waiting /\ ~proc[p].reaped
  /\ proc' = [proc EXCEPT ![p] = [NoProc EXCEPT !.os = "gone", !.closed = TRUE,
                  !.reaped = TRUE, !.key = proc[p].key, !.engine = proc[p].engine]]
  /\ all' = IF provider = "codex" THEN all ELSE all \ {p}
  /\ UNCHANGED <<envVars, live, engines, closed, lockVars, run, evict, closer, unguarded>>

forget(p) == IF provider = "codex" THEN all \ {p} ELSE all

-----------------------------------------------------------------------------
(* A Driver run up to its process. *)

Goto(t, r) == run' = [run EXCEPT ![t] = r]
At(t, pc) == run[t].pc = pc

\* detach and terminateAndWait of process p, if there is one, then next.  A
\* process whose session is not the one this run has locked is unguarded: others
\* may find it gone from the tables before it has ended.
Stop(t, p, next, r) ==
  /\ detach(Some(p))
  /\ proc' = signalTerminate(Some(p))
  /\ Goto(t, IF p = 0 THEN [r EXCEPT !.pc = next]
             ELSE [r EXCEPT !.pc = "wait", !.victim = p, !.next = next])
  /\ unguarded' = unguarded \cup
       {q \in Some(p) : q # r.lp /\ ResumeKey(proc[q].key) # r.key}

\* adapter.Run as far as lockWriter.  A chat run may use a resident process; a
\* "once" run may not (Spawn, a native schema, run-scoped services).  A rebind is
\* the run after a resume was given up: a new engine record, and no session.
Kinds(t) ==
  IF ParentOf[t] # t /\ thread[t].session = 0 THEN {"fork"}
  ELSE {"chat", "once"} \cup
       (IF thread[t].session # 0 /\ thread[t].engine[2] = 0 THEN {"rebind"} ELSE {})
Resume(t, kind) ==
  CASE kind = "fork" -> thread[ParentOf[t]].session
    [] kind = "rebind" -> 0
    [] OTHER -> thread[t].session
StartRun(t, kind) ==
  LET e == IF kind = "rebind" THEN <<t, 1>> ELSE thread[t].engine
      s == Resume(t, kind)
      k == IF s # 0 THEN ResumeKey(s) ELSE e
  IN  /\ At(t, "idle") /\ run[t].left > 0 /\ closer.pc = "open"
      /\ kind \in Kinds(t)
      /\ kind = "fork" => s # 0 /\ provider # "codebuddy"
      /\ Goto(t, [NoRun EXCEPT
           !.pc = "lock", !.kind = IF kind = "rebind" THEN "chat" ELSE kind,
           !.resume = s, !.engine = e, !.key = k, !.lock = LockFor(k),
           !.left = run[t].left - 1,
           !.prev = IF kind = "rebind" THEN thread[t].engine ELSE NoEngine])
      /\ Enter(k)
      /\ UNCHANGED <<envVars, poolVars, proc, evict, closer, unguarded>>

LockRun(t) ==
  /\ At(t, "lock") /\ Acquire(t, run[t].lock)
  /\ Goto(t, [run[t] EXCEPT !.pc = IF run[t].kind = "chat" THEN "handoff" ELSE "suspend"])
  /\ UNCHANGED <<envVars, poolVars, proc, evict, closer, unguarded>>

Waited(t) ==
  LET r == run[t]
  IN  /\ At(t, "wait") /\ proc[r.victim].reaped
      /\ Goto(t, [r EXCEPT !.victim = 0, !.next = "idle", !.pc = r.next])
      /\ all' = forget(r.victim)
      /\ UNCHANGED <<envVars, live, engines, closed, lockVars, proc, evict, closer,
                     unguarded>>

\* persistentWriter.run: the process of the record this run replaces goes first.
Handoff(t) ==
  /\ At(t, "handoff")
  /\ Stop(t, lookupEngine(run[t].prev), "find", [run[t] EXCEPT !.prev = NoEngine])
  /\ UNCHANGED <<envVars, lockVars, evict, closer>>

\* The resident process of the session, unless what it was started with (sig) has
\* changed since or it is closed.  With no session to resume, codebuddy stops
\* what the record still has.
Find(t, changed) ==
  LET p == lookup(run[t].resume)
      stale == IF provider = "codebuddy" /\ run[t].resume = 0
               THEN lookupEngine(run[t].engine) ELSE 0
  IN  /\ At(t, "find")
      /\ IF p # 0 /\ ~changed /\ ~isClosed(p)
         THEN /\ proc' = [proc EXCEPT ![p].idle = FALSE]
              /\ Goto(t, [run[t] EXCEPT !.pc = "turn", !.lp = p])
              /\ UNCHANGED <<poolVars, unguarded>>
         ELSE Stop(t, IF p # 0 THEN p ELSE stale, "spawn", run[t])
      /\ UNCHANGED <<envVars, lockVars, evict, closer>>

\* suspendAndWait, for a run that may not use a resident process.
Suspend(t) ==
  LET p == lookup(run[t].resume)
  IN  /\ At(t, "suspend")
      /\ Stop(t, IF p # 0 THEN p ELSE lookupEngine(run[t].engine), "once", run[t])
      /\ UNCHANGED <<envVars, lockVars, evict, closer>>

\* Where a run goes that gets no resident process.
Fallback(r) == IF r.warm THEN "release" ELSE "once"

\* spawnLive (codex: open): refused by a closed pool, or the start fails.
SpawnFails(t) ==
  /\ At(t, "spawn")
  /\ Goto(t, [run[t] EXCEPT !.pc = Fallback(run[t])])
  /\ UNCHANGED <<envVars, poolVars, lockVars, proc, evict, closer, unguarded>>
Spawn(t) ==
  /\ At(t, "spawn") /\ ~closed
  /\ \E p \in Fresh :
       /\ proc' = Spawned(p, run[t].resume, TRUE)
       /\ Goto(t, [run[t] EXCEPT !.pc = "admit", !.lp = p])
  /\ UNCHANGED <<envVars, poolVars, lockVars, evict, closer, unguarded>>
\* The second look at closed, after the start.
Admit(t) ==
  /\ At(t, "admit")
  /\ IF closed
     THEN Stop(t, run[t].lp, Fallback(run[t]), run[t])
     ELSE /\ all' = all \cup {run[t].lp}
          /\ Goto(t, [run[t] EXCEPT !.pc = IF run[t].warm THEN "register" ELSE "turn"])
          /\ UNCHANGED <<live, engines, closed, proc, unguarded>>
  /\ UNCHANGED <<envVars, lockVars, evict, closer>>

-----------------------------------------------------------------------------
(* The turn. *)

\* turn: no byte of the prompt reaches the process.
TurnRefused(t) ==
  /\ At(t, "turn")
  /\ run[t].ctxDone \/ ~Up(run[t].lp) \/ proc[run[t].lp].closed
  /\ Stop(t, run[t].lp, "unsent", run[t])
  /\ UNCHANGED <<envVars, lockVars, evict, closer>>
TurnSent(t) ==
  /\ At(t, "turn") /\ ~run[t].ctxDone /\ Up(run[t].lp) /\ ~proc[run[t].lp].closed
  /\ Goto(t, [run[t] EXCEPT !.pc = "await", !.prompted = run[t].prompted \cup {run[t].lp}])
  /\ UNCHANGED <<envVars, poolVars, lockVars, proc, evict, closer, unguarded>>

\* !sent && ctx.Err() == nil: the prompt may be given to a one-shot process.
Unsent(t) ==
  /\ At(t, "unsent")
  /\ Goto(t, [run[t] EXCEPT !.pc = IF run[t].ctxDone THEN "release" ELSE "once"])
  /\ UNCHANGED <<envVars, poolVars, lockVars, proc, evict, closer, unguarded>>

\* <-ctx.Done(): terminate, and go on reading.
TurnCancelled(t) ==
  /\ At(t, "await") /\ run[t].ctxDone
  /\ proc' = signalTerminate({run[t].lp})
  /\ Goto(t, [run[t] EXCEPT !.pc = "cancelling"])
  /\ UNCHANGED <<envVars, poolVars, lockVars, evict, closer, unguarded>>

\* Mutation: the run is tried again on a one-shot process.
TurnFailsRetried(t) ==
  /\ run[t].pc \in {"await", "cancelling"}
  /\ Stop(t, run[t].lp, "unsent", run[t])
  /\ UNCHANGED <<envVars, lockVars, evict, closer>>
\* End of output, a protocol error or a cancellation: the run fails and, as the
\* prompt was sent, is not tried again.
TurnFails(t) ==
  /\ run[t].pc \in {"await", "cancelling"}
  /\ Stop(t, run[t].lp, "release", run[t])
  /\ UNCHANGED <<envVars, lockVars, evict, closer>>

\* Sessions a turn on session s may end in: the same, or one the provider mints.
EndsIn(s) == Some(s) \cup {minted + 1}
Mint(s) == minted' = IF s > minted THEN s ELSE minted

\* What is registered for the next run.  Claude without in-run messages keeps the
\* process of a failed turn; only Claude looks at closed again.
Reusable(p, good, plain) ==
  IF provider = "claude" THEN ~isClosed(p) /\ (good \/ plain) ELSE good

\* A result read after the context ended still counts for Claude; codebuddy
\* counts it when its select took the result, codex only before the end.
ResultCounts(t) ==
  CASE provider = "claude" -> run[t].pc \in {"await", "cancelling"}
    [] provider = "codebuddy" -> At(t, "await")
    [] OTHER -> At(t, "await") /\ ~run[t].ctxDone /\ ~proc[run[t].lp].closed

TurnResult(t, good, plain, s) ==
  LET p == run[t].lp
      r == [run[t] EXCEPT !.sid = s, !.good = good]
  IN  /\ ResultCounts(t) /\ Up(p)
      /\ s \in EndsIn(proc[p].opened) /\ s \in Session
      /\ Mint(s)
      /\ IF Reusable(p, good, plain)
         THEN /\ proc' = [proc EXCEPT ![p].opened = s]
              /\ Goto(t, [r EXCEPT !.pc = "register"])
              /\ UNCHANGED <<poolVars, unguarded>>
         ELSE Stop(t, p, "release", r)
      /\ UNCHANGED <<provider, thread, crashes, lockVars, evict, closer>>

\* register: the process takes its new places; whoever held them is terminated,
\* one after the other, but not detached from its other place.
register(t) ==
  LET p == run[t].lp
      s == run[t].sid
      left == IF proc[p].key \notin {0, s} /\ live[proc[p].key] = p
              THEN [live EXCEPT ![proc[p].key] = 0] ELSE live
  IN  /\ At(t, "register")
      /\ live' = [left EXCEPT ![s] = p]
      /\ engines' = [engines EXCEPT ![run[t].engine] = p]
      /\ proc' = [proc EXCEPT ![p].key = s, ![p].engine = run[t].engine]
      /\ Goto(t, [run[t] EXCEPT !.pc = "stale",
                    !.stale = {live[s], engines[run[t].engine]} \ {0, p}])
      /\ UNCHANGED <<envVars, all, closed, lockVars, evict, closer, unguarded>>
StopStale(t) ==
  /\ At(t, "stale")
  /\ \E p \in run[t].stale :
       /\ proc' = signalTerminate({p})
       /\ Goto(t, [run[t] EXCEPT !.pc = "wait", !.victim = p, !.next = "stale",
                                 !.stale = run[t].stale \ {p}])
       /\ unguarded' = unguarded \cup {p}
  /\ UNCHANGED <<envVars, poolVars, lockVars, evict, closer>>

startIdle(t) ==
  /\ At(t, "stale") /\ run[t].stale = {}
  /\ proc' = [proc EXCEPT ![run[t].lp].idle = ~proc[run[t].lp].closed]
  /\ Goto(t, [run[t] EXCEPT !.pc = "release"])
  /\ UNCHANGED <<envVars, poolVars, lockVars, evict, closer, unguarded>>

-----------------------------------------------------------------------------
(* The one-shot process, and the resident one warmed after it. *)

\* A cancelled context starts nothing, and a start may fail.
OnceRefused(t) ==
  /\ At(t, "once")
  /\ Goto(t, [run[t] EXCEPT !.pc = "release"])
  /\ UNCHANGED <<envVars, poolVars, lockVars, proc, evict, closer, unguarded>>
Once(t) ==
  /\ At(t, "once") /\ ~run[t].ctxDone
  /\ \E p \in Fresh :
       /\ proc' = Spawned(p, run[t].resume, FALSE)
       /\ Goto(t, [run[t] EXCEPT !.pc = "oneshot", !.lp = p, !.prompted = run[t].prompted \cup {p}])
  /\ UNCHANGED <<envVars, poolVars, lockVars, evict, closer, unguarded>>

OnceCancelled(t) ==
  /\ At(t, "oneshot") /\ run[t].ctxDone /\ ~proc[run[t].lp].killed
  /\ proc' = signalTerminate({run[t].lp})
  /\ UNCHANGED <<envVars, poolVars, lockVars, run, evict, closer, unguarded>>

\* The process ends by itself, with a checkpoint for session s or with a failure.
OnceDone(t, s, warm) ==
  LET p == run[t].lp
      forking == run[t].kind = "fork"
  IN  /\ At(t, "oneshot") /\ ~proc[p].killed
      /\ s \in EndsIn(IF forking THEN 0 ELSE proc[p].opened) /\ s \in Session
      /\ Mint(s)
      /\ (forking => ~warm) /\ (run[t].kind = "chat" => warm)
      /\ proc' = [proc EXCEPT ![p] = [NoProc EXCEPT !.os = "gone"]]
      /\ Goto(t, [run[t] EXCEPT !.sid = s, !.good = TRUE,
                    !.pc = IF warm THEN "preWarm" ELSE "release"])
      /\ UNCHANGED <<provider, thread, crashes, poolVars, lockVars, evict, closer,
                     unguarded>>
OnceFailed(t) ==
  /\ At(t, "oneshot")
  /\ proc' = [proc EXCEPT ![run[t].lp] = [NoProc EXCEPT !.os = "gone"]]
  /\ Goto(t, [run[t] EXCEPT !.pc = "release"])
  /\ UNCHANGED <<envVars, poolVars, lockVars, evict, closer, unguarded>>

\* codebuddy and codex stop the session's process first; claude does not.
preWarm(t) ==
  /\ At(t, "preWarm")
  /\ Stop(t, IF provider = "claude" THEN 0 ELSE lookup(run[t].sid), "spawn",
          [run[t] EXCEPT !.warm = TRUE, !.resume = run[t].sid])
  /\ UNCHANGED <<envVars, lockVars, evict, closer>>

\* Run returns: the deferred release, and the checkpoint the core keeps.
Release(t) ==
  LET r == run[t]
  IN  /\ At(t, "release")
      /\ Unlock(r.key, r.lock)
      /\ thread' = [thread EXCEPT ![t] =
           IF r.good THEN [session |-> r.sid, engine |-> r.engine] ELSE @]
      /\ Goto(t, [NoRun EXCEPT !.left = r.left])
      /\ UNCHANGED <<provider, minted, crashes, poolVars, proc, evict, closer, unguarded>>

\* The caller cancels the run.
Cancel(t) ==
  /\ ~At(t, "idle") /\ ~run[t].ctxDone
  /\ Goto(t, [run[t] EXCEPT !.ctxDone = TRUE])
  /\ UNCHANGED <<envVars, poolVars, lockVars, proc, evict, closer, unguarded>>

-----------------------------------------------------------------------------
(* evictIdle, on the goroutine of the timer. *)

\* The timer's goroutine is running; stopping the timer no longer stops it.  One
\* goroutine for each process at a time.
TimerFires(p) ==
  /\ proc[p].idle /\ evict[p].pc = "none"
  /\ proc' = [proc EXCEPT ![p].idle = FALSE]
  /\ evict' = [evict EXCEPT ![p].pc = "fired"]
  /\ UNCHANGED <<envVars, poolVars, lockVars, run, closer, unguarded>>
\* lp.key is read without the pool's mutex.
evictIdle(p) ==
  /\ evict[p].pc = "fired"
  /\ Enter(ResumeKey(proc[p].key))
  /\ evict' = [evict EXCEPT ![p] = [pc |-> "lock", key |-> proc[p].key,
                                     lock |-> LockFor(ResumeKey(proc[p].key))]]
  /\ UNCHANGED <<envVars, poolVars, proc, run, closer, unguarded>>
\* Mutation: the eviction does not wait for the session's writer.
EvictUnlocked(p) ==
  /\ evict[p].pc = "lock"
  /\ evict' = [evict EXCEPT ![p].pc = "check"]
  /\ UNCHANGED <<envVars, poolVars, lockVars, proc, run, closer, unguarded>>
EvictLock(p) ==
  /\ evict[p].pc = "lock" /\ Acquire(p, evict[p].lock)
  /\ evict' = [evict EXCEPT ![p].pc = "check"]
  /\ UNCHANGED <<envVars, poolVars, proc, run, closer, unguarded>>
EvictCheck(p) ==
  /\ evict[p].pc = "check"
  /\ IF lookup(evict[p].key) # p
     THEN evict' = [evict EXCEPT ![p].pc = "release"] /\ UNCHANGED <<poolVars, proc>>
     ELSE /\ detach({p})
          /\ proc' = signalTerminate({p})
          /\ evict' = [evict EXCEPT ![p].pc = "wait"]
  /\ UNCHANGED <<envVars, lockVars, run, closer, unguarded>>
\* The wait is bounded to ten seconds; after it the process may still be there.
EvictWaited(p) ==
  /\ evict[p].pc = "wait"
  /\ unguarded' = IF proc[p].reaped THEN unguarded ELSE unguarded \cup {p}
  /\ all' = forget(p)
  /\ evict' = [evict EXCEPT ![p].pc = "release"]
  /\ UNCHANGED <<envVars, live, engines, closed, lockVars, proc, run, closer>>
EvictRelease(p) ==
  /\ evict[p].pc = "release"
  /\ Unlock(ResumeKey(evict[p].key), evict[p].lock)
  /\ evict' = [evict EXCEPT ![p] = [pc |-> "none", key |-> 0, lock |-> 0]]
  /\ UNCHANGED <<envVars, poolVars, proc, run, closer, unguarded>>

-----------------------------------------------------------------------------
(* Agent.Close: cancel the runs, close the pool, drain, close it again. *)

\* Mutation: the runs are not cancelled.
CloseUncancelled ==
  /\ closer.pc = "open" /\ closer.left > 0
  /\ closer' = [closer EXCEPT !.pc = "close", !.left = @ - 1,
                               !.again = \E t \in Thread : ~At(t, "idle")]
  /\ UNCHANGED <<envVars, poolVars, lockVars, proc, run, evict, unguarded>>
CloseAgent ==
  /\ closer.pc = "open" /\ closer.left > 0
  /\ run' = [t \in Thread |->
       IF At(t, "idle") THEN run[t] ELSE [run[t] EXCEPT !.ctxDone = TRUE]]
  /\ closer' = [closer EXCEPT !.pc = "close", !.left = @ - 1,
                               !.again = \E t \in Thread : ~At(t, "idle")]
  /\ UNCHANGED <<envVars, poolVars, lockVars, proc, evict, unguarded>>

\* Mutation: only the processes the tables still name are stopped.
ClosePoolLive ==
  /\ closer.pc = "close"
  /\ closed' = TRUE
  /\ live' = [s \in Session |-> 0] /\ engines' = [e \in Engine |-> 0]
  /\ closer' = [closer EXCEPT !.pc = "stop", !.rest = {live[s] : s \in Session} \ {0}]
  /\ UNCHANGED <<envVars, all, lockVars, proc, run, evict, unguarded>>
\* persistentPool.close: mark it, empty the tables, stop what all lists.
ClosePool ==
  /\ closer.pc = "close"
  /\ closed' = TRUE
  /\ live' = [s \in Session |-> 0] /\ engines' = [e \in Engine |-> 0]
  /\ closer' = [closer EXCEPT !.pc = "stop", !.rest = all]
  /\ UNCHANGED <<envVars, all, lockVars, proc, run, evict, unguarded>>

\* gracefulStop: close the input, wait, kill when the grace is over.
StopNext ==
  /\ closer.pc = "stop" /\ closer.lp = 0
  /\ \E p \in closer.rest :
       /\ closer' = [closer EXCEPT !.lp = p]
       /\ proc' = [proc EXCEPT ![p].closed = TRUE, ![p].idle = FALSE, ![p].waiting = TRUE]
  /\ UNCHANGED <<envVars, poolVars, lockVars, run, evict, unguarded>>
GraceOver ==
  /\ closer.lp # 0 /\ ~proc[closer.lp].killed
  /\ proc' = [proc EXCEPT ![closer.lp].killed = TRUE]
  /\ UNCHANGED <<envVars, poolVars, lockVars, run, evict, closer, unguarded>>
Stopped ==
  /\ closer.lp # 0 /\ proc[closer.lp].reaped
  /\ closer' = [closer EXCEPT !.rest = @ \ {closer.lp}, !.lp = 0]
  /\ all' = forget(closer.lp)
  /\ UNCHANGED <<envVars, live, engines, closed, lockVars, proc, run, evict, unguarded>>
\* The context of Close ends: the process is killed, and not waited for.
CloseExpires ==
  /\ closer.pc = "stop" /\ ~closer.late /\ closer.left > 0
  /\ closer' = [closer EXCEPT !.late = TRUE]
  /\ UNCHANGED <<envVars, poolVars, lockVars, proc, run, evict, unguarded>>
StopAbandoned ==
  /\ closer.lp # 0 /\ closer.late
  /\ proc' = [proc EXCEPT ![closer.lp].killed = TRUE]
  /\ closer' = [closer EXCEPT !.rest = @ \ {closer.lp}, !.lp = 0, !.failed = TRUE]
  /\ all' = forget(closer.lp)
  /\ UNCHANGED <<envVars, live, engines, closed, lockVars, run, evict, unguarded>>
\* Only a nil result goes on, to the drain and, when runs were active, a second
\* close of the pool; any other leaves Close to be retried.
ClosedPool ==
  /\ closer.pc = "stop" /\ closer.lp = 0 /\ closer.rest = {}
  /\ closer' = [closer EXCEPT !.late = FALSE, !.failed = FALSE,
       !.pc = IF closer.late \/ closer.failed THEN "retry"
              ELSE IF closer.again THEN "drain" ELSE "done"]
  /\ UNCHANGED <<envVars, poolVars, lockVars, proc, run, evict, unguarded>>
Drained ==
  /\ closer.pc = "drain" /\ \A t \in Thread : At(t, "idle")
  /\ closer' = [closer EXCEPT !.pc = "close", !.again = FALSE]
  /\ UNCHANGED <<envVars, poolVars, lockVars, proc, run, evict, unguarded>>
RetryClose ==
  /\ closer.pc = "retry"
  /\ closer' = [closer EXCEPT !.pc = "close", !.left = @ - 1,
                               !.again = \E t \in Thread : ~At(t, "idle")]
  /\ UNCHANGED <<envVars, poolVars, lockVars, proc, run, evict, unguarded>>

-----------------------------------------------------------------------------
RunStep(t) ==
  \/ LockRun(t) \/ Waited(t) \/ Handoff(t) \/ Suspend(t)
  \/ \E changed \in BOOLEAN : Find(t, changed)
  \/ SpawnFails(t) \/ Spawn(t) \/ Admit(t)
  \/ TurnRefused(t) \/ TurnSent(t) \/ Unsent(t) \/ TurnCancelled(t)
  \/ register(t) \/ StopStale(t) \/ startIdle(t) \/ preWarm(t) \/ Release(t)
  \/ OnceRefused(t) \/ Once(t) \/ OnceCancelled(t)
\* What the provider decides.
ProviderStep(t) ==
  \/ \E good, plain \in BOOLEAN, s \in Session : TurnResult(t, good, plain, s)
  \/ \E s \in Session, warm \in BOOLEAN : OnceDone(t, s, warm)
  \/ TurnFails(t) \/ OnceFailed(t)
\* The provider's process is gone, and its output at an end.
ProviderEnds(t) ==
  run[t].lp # 0 /\ ~Up(run[t].lp) /\ (TurnFails(t) \/ OnceFailed(t))
EvictStep(p) ==
  evictIdle(p) \/ EvictLock(p) \/ EvictCheck(p) \/ EvictWaited(p) \/ EvictRelease(p)
CloseStep ==
  \/ ClosePool \/ StopNext \/ GraceOver \/ Stopped \/ StopAbandoned \/ ClosedPool
  \/ Drained \/ RetryClose

Next ==
  \/ \E t \in Thread : RunStep(t) \/ ProviderStep(t) \/ Cancel(t)
  \/ \E t \in Thread, kind \in {"chat", "once", "fork", "rebind"} : StartRun(t, kind)
  \/ \E p \in Proc : Exit(p) \/ Crash(p) \/ Reap(p) \/ TimerFires(p) \/ EvictStep(p)
  \/ CloseAgent \/ CloseStep \/ CloseExpires

Spec == Init /\ [][Next]_vars

\* Goroutines run on, a killed process dies and is reaped, and a stream that has
\* ended is seen to have ended.  Nothing is assumed of the provider or the caller.
Progress ==
  \/ \E t \in Thread : RunStep(t) \/ ProviderEnds(t)
  \/ \E p \in Proc : Exit(p) \/ Reap(p) \/ EvictStep(p)
  \/ CloseStep
FairSpec == Spec /\ WF_vars(Progress)

-----------------------------------------------------------------------------
\* One process at a time has a provider session open: whoever opens a session,
\* resident or one-shot, has waited for the end of the one before.  Left out are
\* processes terminated without holding their session's writer lock: the previous
\* engine's process of a rebind, and one that outlives the ten seconds an
\* eviction waits.
SoleWriter ==
  \A p, q \in Proc \ unguarded :
    p # q /\ Up(p) /\ Up(q) /\ proc[p].opened # 0 => proc[p].opened # proc[q].opened

\* A prompt reaches one process: the fallback to a one-shot process is taken only
\* when no byte of the prompt was written to the resident one.
PromptOnce == \A t \in Thread : Cardinality(run[t].prompted) <= 1

\* The process of a turn in flight is terminated by nobody but the run itself
\* and Close: not by its idle timer, a fork of its Thread or another run.
TurnUndisturbed ==
  \A t \in Thread :
    At(t, "await") /\ proc[run[t].lp].killed => run[t].ctxDone \/ closed

\* CloseProcesses must "stop every process owned by that configured Driver"
\* (driver/driver.go:34): once Close has returned nil no process is left.
ClosedMeansGone == closer.pc = "done" => \A p \in Proc : ~Up(p)

\* The pool, its runs and Close implement the contract of ProcessLifecycle: none is
\* alive when Close returns nil, in however many attempts, and none starts later.
Lifecycle == INSTANCE ProcessLifecycle WITH
  Process <- Proc, running <- {p \in Proc : Up(p)}, released <- closer.pc = "done"
ImplementsLifecycle == Lifecycle!Spec

\* Close returns nil at last, when its caller retries after a timeout.
PoolCloses == closer.pc = "close" ~> closer.pc = "done"
=============================================================================
