---------------------------- MODULE AguiSession ----------------------------
(***************************************************************************)
(* The AG-UI session: HTTP runs recorded per Thread key, in-run input,     *)
(* observers that replay and follow the recording, cancellation and        *)
(* shutdown (bridges/agui/aguisession).  The recorder is a sequence of     *)
(* records per key, whose position is the HostSeq; a record keeps its      *)
(* kind, its run and the message ID of in-run input.  The event stream of  *)
(* a run is external: it emits events while it is open, stops admitting    *)
(* input, and closes.                                                      *)
(***************************************************************************)
EXTENDS Naturals, Sequences, FiniteSets

CONSTANTS
  Key,                \* Thread keys
  Home,               \* the key the clients address
  FreshOf,            \* FreshOf[r]: the key ResolveDivergence may choose
  Run,                \* POSTs of a run
  Call,               \* calls of Supplement
  IdOf,               \* IdOf[c]: the call's message ID
  RetryOf,            \* RetryOf[c]: the call that must have returned first
  Follower, Snapshot, \* readers: Observe, Snapshot
  Canceller,          \* calls of Cancel
  Casts,              \* bound: what one behaviour has besides its runs: the clients,
                      \*   "unattended" (the option), "repost" (one run ID for all),
                      \*   "branch", "events", "reserved", "shutdown", "disconnect", "fault", "crash"
  MaxConcurrentRuns,  \* Options.MaxConcurrentRuns
  MaxEvents,          \* bound: source events of one run
  MaxFaults,          \* bound: recorder failures
  MaxCrashes          \* bound: restarts of the host process

None == "none"
Reader == Follower \cup Snapshot

ASSUME SessionAssumption ==
  /\ IsFiniteSet(Run) /\ None \notin Run \cup Call
  /\ Home \in Key /\ FreshOf \in [Run -> Key \cup {None}]
  /\ RetryOf \in [Call -> Call \cup {None}]
  /\ \A n \in {MaxConcurrentRuns, MaxEvents, MaxFaults, MaxCrashes} : n \in Nat

VARIABLES
  cast,        \* what this behaviour has, the member of Casts
  log,         \* log[k]: the recording
  state,       \* state[k]: what runState reports: active, boundary, failed, revision
  sess,        \* the rest of the Session: closed, running, shutdownDone, runs, live
  run,         \* run[r]: a POST, its reservation, its drain and its liveRun
  sup,         \* sup[c]: a call of Supplement
  rd,          \* rd[o]: a call of Observe or Snapshot
  cancel,      \* cancel[c]: a call of Cancel
  shutdown,    \* the call of Shutdown: "no", "waiting", "returned"
  diagnosed,   \* runs some reader reported as ended without a terminal
  faults, crashes

vars == <<cast, log, state, sess, run, sup, rd, cancel, shutdown, diagnosed,
          faults, crashes>>

NewState == [active |-> FALSE, boundary |-> 0, failed |-> FALSE, revision |-> 0]

NewSession == [closed |-> FALSE, running |-> 0, shutdownDone |-> 0,
               runs |-> [k \in Key |-> None], live |-> [k \in Key |-> None]]

\* cancelled: the run's context; stopped: Stream.Cancel; bad: sourceErr.
NewRun == [pc |-> "idle", key |-> Home, cancelled |-> FALSE, stream |-> "none",
           stopped |-> FALSE, events |-> 0, bad |-> FALSE, failed |-> FALSE,
           sealed |-> FALSE, ids |-> {}]

NewSup == [pc |-> "idle", run |-> None, dup |-> FALSE]

\* ev: the last event delivered; orderly: whether deliveries came in order.
NewReader == [pc |-> "idle", after |-> 0, last |-> 0, upto |-> 0, before |-> NewState,
              ended |-> FALSE, incomplete |-> FALSE, terminal |-> FALSE,
              ev |-> None, orderly |-> TRUE]

Init ==
  /\ cast \in Casts
  /\ log = [k \in Key |-> <<>>] /\ state = [k \in Key |-> NewState]
  /\ sess = NewSession /\ run = [r \in Run |-> NewRun]
  /\ sup = [c \in Call |-> NewSup]
  /\ rd = [o \in Reader |-> NewReader]
  /\ cancel = [c \in Canceller |-> [pc |-> "idle", run |-> None]]
  /\ shutdown = "no" /\ diagnosed = {} /\ faults = MaxFaults /\ crashes = MaxCrashes

----------------------------------------------------------------------------
(* Shared steps *)

unattended == "unattended" \in cast
runId(r) == IF "repost" \in cast THEN "id" ELSE r

changeLocked(st) == [st EXCEPT !.revision = @ + 1]

\* A mutant: a key is reserved while another run has it.
ReserveUnchecked(r, k) ==
  /\ state' = [state EXCEPT ![k] = changeLocked([@ EXCEPT !.active = TRUE, !.boundary = 0])]
  /\ sess' = IF unattended THEN [sess EXCEPT !.runs[k] = r] ELSE sess

reserve(r, k) ==
  /\ ~state[k].active
  /\ state' = [state EXCEPT ![k] = changeLocked([@ EXCEPT !.active = TRUE, !.boundary = 0])]
  /\ sess' = IF unattended THEN [sess EXCEPT !.runs[k] = r] ELSE sess

release(k) ==
  /\ state' = [state EXCEPT ![k] = changeLocked([@ EXCEPT !.active = FALSE])]
  /\ sess' = [sess EXCEPT !.runs[k] = None]

\* A recorder call may fail: by itself, or because its context has ended.
Fault == "fault" \in cast /\ faults > 0 /\ faults' = faults - 1
ReadFails(r) == Fault \/ (run[r].cancelled /\ UNCHANGED faults)

Append1(k, kind, r, id) ==
  log' = [log EXCEPT ![k] = Append(@, [kind |-> kind, run |-> r, id |-> id])]

\* The closure record of drain: nothing is recorded after a failure, and the
\* first failure is published and cancels the stream.  R is the run's record
\* after the step.
recordFailed(r, R) ==
  /\ Fault
  /\ run' = [run EXCEPT ![r] = [R EXCEPT !.failed = TRUE, !.stopped = TRUE]]
  /\ state' = [state EXCEPT ![R.key] = changeLocked([@ EXCEPT !.failed = TRUE])]
  /\ UNCHANGED log

record(r, R, kind, id) ==
  \/ run[r].failed /\ run' = [run EXCEPT ![r] = R] /\ UNCHANGED <<log, state, faults>>
  \/ ~run[r].failed /\ recordFailed(r, R)
  \/ /\ ~run[r].failed /\ Append1(R.key, kind, r, id)
     /\ run' = [run EXCEPT ![r] = R] /\ UNCHANGED <<state, faults>>

Goto(r, pc) == run' = [run EXCEPT ![r].pc = pc]
OtherActors == UNCHANGED <<cast, rd, cancel, shutdown, diagnosed, crashes>>

----------------------------------------------------------------------------
(* Admission of a run: serveRun up to the boundary record *)

admit(r) ==
  /\ run[r].pc = "idle"
  /\ IF sess.closed \/ (unattended /\ sess.running >= MaxConcurrentRuns)
     THEN Goto(r, "refused") /\ UNCHANGED sess
     ELSE Goto(r, "reserve") /\ sess' = [sess EXCEPT !.running = @ + 1]
  /\ UNCHANGED <<log, state, sup, faults>> /\ OtherActors

Reserve(r) ==
  /\ run[r].pc = "reserve"
  /\ \/ state[run[r].key].active /\ Goto(r, "finishing") /\ UNCHANGED <<state, sess>>
     \/ reserve(r, run[r].key) /\ Goto(r, "verify")
  /\ UNCHANGED <<log, sup, faults>> /\ OtherActors

Posted(key, id) == \E i \in DOMAIN log[key] : log[key][i].kind = "boundary" /\ log[key][i].id = id

\* Under the reservation: the run ID is not in the recording, and the client's
\* history matches, cannot be continued, or is sent to a fresh key.
VerifyHistory(r) ==
  /\ run[r].pc = "verify"
  /\ \/ ReadFails(r) /\ Goto(r, "release")
     \/ /\ ~run[r].cancelled /\ UNCHANGED faults
        /\ \/ ~Posted(run[r].key, runId(r)) /\ Goto(r, "boundary")
           \/ Goto(r, "release")
           \/ /\ ~Posted(run[r].key, runId(r))
              /\ "branch" \in cast /\ FreshOf[r] # None /\ log[FreshOf[r]] = <<>>
              /\ Goto(r, "switch")
  /\ UNCHANGED <<log, state, sess, sup>> /\ OtherActors

ReserveFresh(r) ==
  /\ run[r].pc = "switch"
  /\ \/ state[FreshOf[r]].active /\ Goto(r, "release") /\ UNCHANGED <<state, sess>>
     \/ reserve(r, FreshOf[r]) /\ Goto(r, "switching")
  /\ UNCHANGED <<log, sup, faults>> /\ OtherActors

\* requireFresh under the new reservation, then the old one is given up.
requireFresh(r) ==
  /\ run[r].pc = "switching"
  /\ \/ /\ ReadFails(r) \/ (log[FreshOf[r]] # <<>> /\ UNCHANGED faults)
        /\ release(FreshOf[r]) /\ Goto(r, "release")
     \/ /\ ~run[r].cancelled /\ log[FreshOf[r]] = <<>> /\ UNCHANGED faults
        /\ release(run[r].key)
        /\ run' = [run EXCEPT ![r].pc = "boundary", ![r].key = FreshOf[r]]
  /\ UNCHANGED <<log, sup>> /\ OtherActors

\* recordBoundary, up to its Record: the key's recording failure is forgotten.
recordBoundary(r) ==
  /\ run[r].pc = "boundary"
  /\ state' = [state EXCEPT ![run[r].key].failed = FALSE]
  /\ \/ ReadFails(r) /\ Goto(r, "release") /\ UNCHANGED log
     \/ /\ ~run[r].cancelled /\ UNCHANGED faults
        /\ Append1(run[r].key, "boundary", r, runId(r)) /\ Goto(r, "publish")
  /\ UNCHANGED <<sess, sup>> /\ OtherActors

BoundaryOf(r, k) ==
  CHOOSE i \in DOMAIN log[k] : log[k][i].kind = "boundary" /\ log[k][i].run = r

PublishBoundary(r) ==
  /\ run[r].pc = "publish"
  /\ LET k == run[r].key IN
       state' = [state EXCEPT ![k] = changeLocked([@ EXCEPT !.boundary = BoundaryOf(r, k)])]
  /\ Goto(r, "start")
  /\ UNCHANGED <<log, sess, sup, faults>> /\ OtherActors

----------------------------------------------------------------------------
(* The drain of a run *)

\* Target.Send and openLive.
openLive(r) ==
  /\ run[r].pc = "start"
  /\ run' = [run EXCEPT ![r].pc = "user", ![r].stream = "open"]
  /\ sess' = [sess EXCEPT !.live[run[r].key] = r]
  /\ UNCHANGED <<log, state, sup, faults>> /\ OtherActors

RecordUserTurn(r) ==
  /\ run[r].pc = "user"
  /\ record(r, [run[r] EXCEPT !.pc = "drain"], "user", None)
  /\ UNCHANGED <<sess, sup>> /\ OtherActors

\* One source event, or a notice of a reserved kind, after which the source is
\* only drained.
DrainEvent(r) ==
  /\ "events" \in cast /\ run[r].events < MaxEvents
  /\ run[r].pc = "drain" /\ run[r].stream = "open"
  /\ LET R == [run[r] EXCEPT !.events = @ + 1] IN
       \/ /\ run[r].bad \/ "reserved" \in cast
          /\ run' = [run EXCEPT ![r] = [R EXCEPT !.bad = TRUE, !.stopped = TRUE]]
          /\ UNCHANGED <<log, state, faults>>
       \/ ~run[r].bad /\ record(r, R, "event", None)
  /\ UNCHANGED <<sess, sup>> /\ OtherActors

\* recordSupplement: what a call handed over is recorded and answered.
RecordSupplement(r, c) ==
  /\ run[r].pc \in {"drain", "sealing"}
  /\ sup[c].pc = "handoff" /\ sup[c].run = r
  /\ record(r, run[r], "supplement", IdOf[c])
  /\ sup' = [sup EXCEPT ![c].pc = IF run[r].failed \/ run'[r].failed THEN "unrecorded" ELSE "recorded"]
  /\ UNCHANGED sess /\ OtherActors

\* External: the execution ends; the stream admits no more input and closes.
StreamEnds(r) ==
  /\ run[r].stream = "open" /\ run' = [run EXCEPT ![r].stream = "finished"]
  /\ UNCHANGED <<log, state, sess, sup, faults>> /\ OtherActors

\* The events are closed: no admission is entered any more.
seal(r) ==
  /\ run[r].pc = "drain" /\ run[r].stream = "finished"
  /\ run' = [run EXCEPT ![r].pc = "sealing", ![r].sealed = TRUE]
  /\ UNCHANGED <<log, state, sess, sup, faults>> /\ OtherActors

\* A mutant: the seal does not wait for input that was handed over.
InflightUnhanded(r) == {c \in Call : sup[c].run = r /\ sup[c].pc \in {"check", "send"}}

\* The admissions seal waits for.
Inflight(r) ==
  {c \in Call : sup[c].run = r
     /\ sup[c].pc \in {"check", "send", "handoff", "recorded", "unrecorded"}}

\* Once every admission has left, the Result's text is recorded when there is
\* some and the events carried none.
RecordResultText(r) ==
  /\ run[r].pc = "sealing" /\ Inflight(r) = {}
  /\ LET R == [run[r] EXCEPT !.pc = "done"] IN
       \/ record(r, R, "result", None)
       \/ run' = [run EXCEPT ![r] = R] /\ UNCHANGED <<log, state, faults>>
  /\ UNCHANGED <<sess, sup>> /\ OtherActors

\* Done is held back until here, unless the source was given up.
RecordDone(r) ==
  /\ run[r].pc = "done"
  /\ LET R == [run[r] EXCEPT !.pc = "terminal"] IN
       IF R.bad THEN run' = [run EXCEPT ![r] = R] /\ UNCHANGED <<log, state, faults>>
       ELSE record(r, R, "done", None)
  /\ UNCHANGED <<sess, sup>> /\ OtherActors

RecordTerminal(r) ==
  /\ run[r].pc = "terminal"
  /\ record(r, [run[r] EXCEPT !.pc = "close"], "terminal", None)
  /\ UNCHANGED <<sess, sup>> /\ OtherActors

closeLive(r) ==
  /\ run[r].pc = "close"
  /\ sess' = [sess EXCEPT !.live[run[r].key] = IF @ = r THEN None ELSE @]
  /\ Goto(r, "release")
  /\ UNCHANGED <<log, state, sup, faults>> /\ OtherActors

Release(r) ==
  /\ run[r].pc = "release"
  /\ release(run[r].key) /\ Goto(r, "finishing")
  /\ UNCHANGED <<log, sup, faults>> /\ OtherActors

\* A mutant: the first run to end after Shutdown ends its wait.
FinishFirst(r) ==
  /\ run[r].pc = "finishing"
  /\ run' = [run EXCEPT ![r] = [NewRun EXCEPT !.pc = "over", !.key = run[r].key,
                                 !.failed = run[r].failed, !.sealed = run[r].sealed]]
  /\ sess' = [sess EXCEPT !.running = @ - 1,
                !.shutdownDone = IF sess.closed THEN @ + 1 ELSE @]
  /\ UNCHANGED <<log, state, sup, faults>> /\ OtherActors

\* run.cancel, finishAdmission and close(run.done).
finishAdmission(r) ==
  /\ run[r].pc = "finishing"
  /\ run' = [run EXCEPT ![r] = [NewRun EXCEPT !.pc = "over", !.key = run[r].key,
                                 !.failed = run[r].failed, !.sealed = run[r].sealed]]
  /\ sess' = [sess EXCEPT !.running = @ - 1,
                !.shutdownDone = IF sess.closed /\ sess.running = 1 THEN @ + 1 ELSE @]
  /\ UNCHANGED <<log, state, sup, faults>> /\ OtherActors

----------------------------------------------------------------------------
(* Supplement *)

Returned == {"accepted", "rejected", "failed", "gone"}
SupVars == UNCHANGED <<log, state, sess, faults>> /\ OtherActors
SupGoto(c, pc) == sup' = [sup EXCEPT ![c] = IF pc \in Returned THEN [NewSup EXCEPT !.pc = pc]
                                             ELSE [@ EXCEPT !.pc = pc]]

LookupLive(c) ==
  /\ sup[c].pc = "idle" /\ c \in cast
  /\ RetryOf[c] # None => sup[RetryOf[c]].pc \in Returned
  /\ LET r == sess.live[Home] IN
       sup' = [sup EXCEPT ![c].pc = IF r = None THEN "rejected" ELSE "enter", ![c].run = r]
  /\ UNCHANGED run /\ SupVars

enter(c) ==
  /\ sup[c].pc = "enter"
  /\ LET R == run[sup[c].run]
         dup == IdOf[c] \in R.ids
     IN IF R.sealed THEN SupGoto(c, "rejected")
        ELSE sup' = [sup EXCEPT ![c].pc = IF dup THEN "send" ELSE "check", ![c].dup = dup]
  /\ UNCHANGED run /\ SupVars

\* A mutant: the recording is not searched for the ID.
RequireNothing(c) ==
  /\ sup[c].pc = "check" /\ SupGoto(c, "send")
  /\ UNCHANGED <<run, log, state, sess, faults>> /\ OtherActors

requireNewMessageID(c) ==
  /\ sup[c].pc = "check"
  /\ \/ Fault /\ SupGoto(c, "rejected")
     \/ /\ UNCHANGED faults
        /\ SupGoto(c, IF \E i \in DOMAIN log[Home] : log[Home][i].id = IdOf[c]
                      THEN "rejected" ELSE "send")
  /\ UNCHANGED <<run, log, state, sess>> /\ OtherActors

\* Stream.Send admits while the execution is open, and answers a repeated ID.
Send(c) ==
  /\ sup[c].pc = "send"
  /\ LET R == run[sup[c].run] IN
       \/ SupGoto(c, "rejected")
       \/ /\ R.stream = "open" /\ ~R.cancelled /\ ~R.stopped
          /\ SupGoto(c, IF sup[c].dup THEN "accepted" ELSE "handoff")
  /\ UNCHANGED run /\ SupVars

leave(c) ==
  /\ sup[c].pc \in {"recorded", "unrecorded"}
  /\ SupGoto(c, IF sup[c].pc = "recorded" THEN "accepted" ELSE "failed")
  /\ run' = IF sup[c].pc = "recorded"
            THEN [run EXCEPT ![sup[c].run].ids = @ \cup {IdOf[c]}] ELSE run
  /\ SupVars

----------------------------------------------------------------------------
(* Readers *)

\* A pass begins by reading the state of the key.
Pass(p) == [p EXCEPT !.pc = "since", !.before = state[Home], !.upto = 0, !.terminal = FALSE]
Leaves(o, pc, p) ==
  rd' = [rd EXCEPT ![o] = [NewReader EXCEPT !.pc = pc, !.ev = p.ev, !.orderly = p.orderly]]

Attach(o) ==
  /\ rd[o].pc = "idle" /\ o \in cast
  /\ \E a \in 0 .. IF o \in Follower THEN Len(log[Home]) ELSE 0 :
       rd' = [rd EXCEPT ![o] = Pass([@ EXCEPT !.after = a])]

\* readRecords: Snapshot waits for the boundary of an admitted run.
Unpublished(o) == o \in Snapshot /\ rd[o].before.active /\ rd[o].before.boundary = 0

waitBoundary(o) ==
  /\ rd[o].pc = "since" /\ Unpublished(o) /\ state[Home] # rd[o].before
  /\ rd' = [rd EXCEPT ![o] = Pass(@)]

Since(o) ==
  /\ rd[o].pc = "since" /\ ~Unpublished(o)
  /\ rd' = [rd EXCEPT ![o].pc = "compare", ![o].upto = Len(log[Home])]

\* The state changed during the read: the prefix is extended.
ReadAgain(o) ==
  /\ rd[o].pc = "compare" /\ state[Home] # rd[o].before
  /\ rd' = [rd EXCEPT ![o] = Pass(@)]

\* Mutants: a run is called incomplete although its key is active, or only once
\* the key is idle.
ClosuresEager(h, p, upto, finish) ==
  {i \in p.last .. upto :
     /\ i > 0 /\ ~(IF i = p.last THEN p.ended ELSE h[i].kind = "terminal")
     /\ IF i < upto THEN h[i + 1].kind = "boundary" ELSE TRUE}
ClosuresAtEnd(h, p, upto, finish) ==
  {i \in p.last .. upto : i > 0 /\ i = upto /\ finish
     /\ ~(IF i = p.last THEN p.ended ELSE h[i].kind = "terminal")}

\* closeIncomplete: the positions after which the projector closes a run that
\* has no terminal, because a boundary follows or the key is idle.
Closures(h, p, upto, finish) ==
  {i \in p.last .. upto :
     /\ i > 0 /\ ~(IF i = p.last THEN p.ended ELSE h[i].kind = "terminal")
     /\ IF i < upto THEN h[i + 1].kind = "boundary" ELSE finish}

EventOf(rec) == CASE rec.kind = "boundary" -> "started"
                  [] rec.kind = "terminal" -> "ended"
                  [] OTHER -> "content"

\* What one pass yields: the records after the cursor, each with the terminal
\* that closes an incomplete run at it.
Projected(h, p, upto, closed) ==
  LET Emit[i \in p.after .. upto] ==
        IF i = p.after THEN <<>>
        ELSE Emit[i - 1] \o <<EventOf(h[i])>> \o IF i \in closed THEN <<"ended">> ELSE <<>>
  IN Emit[upto]

\* A run starts first or after an end, and only a run starts after an end.
Follows(ev, next) == ev # None => (next = "started" <=> ev = "ended")

project(o) ==
  /\ rd[o].pc = "compare" /\ o \in Follower /\ state[Home] = rd[o].before
  /\ LET p == rd[o]
         h == log[Home]
         closed == Closures(h, p, p.upto, ~p.before.active)
         late == \E i \in closed : i <= p.after
         out == Projected(h, p, p.upto, closed)
         marks == SelectSeq(out, LAMBDA ev : ev # "content")
         all == <<p.ev>> \o out
         P == [p EXCEPT
                !.pc = "yielded", !.last = p.upto, !.after = p.upto,
                !.ended = IF p.upto = p.last THEN @ \/ p.upto \in closed
                          ELSE h[p.upto].kind = "terminal" \/ p.upto \in closed,
                !.incomplete = p.upto \in closed \/ (p.upto = p.last /\ @),
                !.terminal = marks # <<>> /\ marks[Len(marks)] = "ended",
                !.ev = all[Len(all)],
                !.orderly = @ /\ \A i \in DOMAIN out : Follows(all[i], out[i])]
     IN /\ IF late /\ p.last # 0 THEN Leaves(o, "told", p) ELSE rd' = [rd EXCEPT ![o] = P]
        /\ diagnosed' = diagnosed \cup {h[i].run : i \in closed}

\* After delivery: a changed state is read again; otherwise the observation is
\* complete, or waits for the next change.
Recheck(o) ==
  /\ rd[o].pc = "yielded"
  /\ LET p == rd[o]
         st == p.before
     IN IF state[Home] # st THEN rd' = [rd EXCEPT ![o] = Pass(p)]
        ELSE IF p.terminal /\ (~st.active \/ (st.boundary > 0 /\ p.after >= st.boundary))
             THEN Leaves(o, "returned", p)
        ELSE IF st.active THEN rd' = [rd EXCEPT ![o] = Pass(p)]
        ELSE Leaves(o, IF ~p.terminal /\ p.last > 0 /\ p.incomplete THEN "told" ELSE "returned", p)

\* snapshotRecords: the history strictly before the active run's boundary.
snapshotRecords(o) ==
  /\ rd[o].pc = "compare" /\ o \in Snapshot /\ state[Home] = rd[o].before
  /\ LET p == rd[o]
         b == p.before.boundary
         h == log[Home]
         missing == p.before.active /\ ~(b \in 1 .. p.upto /\ h[b].kind = "boundary")
         cut == IF p.before.active THEN b - 1 ELSE p.upto
     IN IF missing
        THEN Leaves(o, "missing", p) /\ UNCHANGED diagnosed
        ELSE /\ Leaves(o, "returned", p)
             /\ diagnosed' = diagnosed \cup {h[i].run : i \in Closures(h, p, cut, TRUE)}

Reading(o) == rd[o].pc \in {"since", "compare", "yielded"}

\* The observer's context ends, or Revoke detaches it.
Detach(o) ==
  /\ o \in Follower /\ Reading(o) /\ Leaves(o, "detached", rd[o])

Read(o) ==
  /\ \/ /\ waitBoundary(o) \/ Since(o) \/ ReadAgain(o) \/ Recheck(o)
        /\ UNCHANGED diagnosed
     \/ project(o) \/ snapshotRecords(o)
  /\ UNCHANGED <<cast, log, state, sess, run, sup, cancel, shutdown, faults, crashes>>

ReaderComesAndGoes(o) ==
  /\ Attach(o) \/ Detach(o)
  /\ UNCHANGED <<cast, log, state, sess, run, sup, cancel, shutdown, diagnosed,
                 faults, crashes>>

----------------------------------------------------------------------------
(* Cancel, Shutdown, disconnects and restarts *)

Cancel(c) ==
  /\ cancel[c].pc = "idle" /\ c \in cast
  /\ LET r == sess.runs[Home] IN
       /\ cancel' = [cancel EXCEPT ![c] = [pc |-> IF r = None THEN "returned" ELSE "waiting", run |-> r]]
       /\ run' = IF r = None THEN run ELSE [run EXCEPT ![r].cancelled = TRUE]
  /\ UNCHANGED <<cast, log, state, sess, sup, rd, shutdown, diagnosed, faults, crashes>>

CancelReturns(c) ==
  /\ cancel[c].pc = "waiting" /\ run[cancel[c].run].pc = "over"
  /\ cancel' = [cancel EXCEPT ![c].pc = "returned"]
  /\ UNCHANGED <<cast, log, state, sess, run, sup, rd, shutdown, diagnosed, faults, crashes>>

InProgress(r) == run[r].pc \notin {"idle", "refused", "over", "gone"}

\* The lifetime context ends with Shutdown: it owns the unattended runs.
Shutdown ==
  /\ "shutdown" \in cast /\ shutdown = "no" /\ shutdown' = "waiting"
  /\ sess' = [sess EXCEPT !.closed = TRUE,
                !.shutdownDone = IF sess.running = 0 THEN @ + 1 ELSE @]
  /\ run' = [r \in Run |-> IF unattended /\ InProgress(r)
                           THEN [run[r] EXCEPT !.cancelled = TRUE] ELSE run[r]]
  /\ UNCHANGED <<cast, log, state, sup, rd, cancel, diagnosed, faults, crashes>>

ShutdownReturns ==
  /\ shutdown = "waiting" /\ sess.shutdownDone > 0 /\ shutdown' = "returned"
  /\ UNCHANGED <<cast, log, state, sess, run, sup, rd, cancel, diagnosed, faults, crashes>>

\* The client of an attended POST disconnects.
Disconnect(r) ==
  /\ "disconnect" \in cast /\ ~unattended /\ InProgress(r) /\ ~run[r].cancelled
  /\ run' = [run EXCEPT ![r].cancelled = TRUE]
  /\ UNCHANGED <<cast, log, state, sess, sup, rd, cancel, shutdown, diagnosed, faults, crashes>>

\* The host process dies; its recording is kept, and a new Session serves it.
Crash ==
  /\ "crash" \in cast /\ crashes > 0 /\ crashes' = crashes - 1
  /\ state' = [k \in Key |-> NewState] /\ sess' = NewSession /\ shutdown' = "no"
  /\ run' = [r \in Run |-> IF InProgress(r) THEN [NewRun EXCEPT !.pc = "gone"] ELSE run[r]]
  /\ sup' = [c \in Call |-> IF sup[c].pc \in {"idle"} \cup Returned
                            THEN sup[c] ELSE [NewSup EXCEPT !.pc = "gone"]]
  /\ rd' = [o \in Reader |-> IF Reading(o) THEN [NewReader EXCEPT !.pc = "detached"] ELSE rd[o]]
  /\ cancel' = [c \in Canceller |-> IF cancel[c].pc = "waiting"
                                    THEN [pc |-> "gone", run |-> None] ELSE cancel[c]]
  /\ UNCHANGED <<cast, log, diagnosed, faults>>

----------------------------------------------------------------------------
Admission(r) ==
  \/ Reserve(r) \/ VerifyHistory(r) \/ ReserveFresh(r)
  \/ requireFresh(r) \/ recordBoundary(r) \/ PublishBoundary(r)

Drain(r) ==
  \/ openLive(r) \/ RecordUserTurn(r) \/ seal(r)
  \/ RecordResultText(r) \/ RecordDone(r) \/ RecordTerminal(r)
  \/ closeLive(r) \/ Release(r) \/ finishAdmission(r)
  \/ \E c \in Call : RecordSupplement(r, c)

Supplement(c) == enter(c) \/ requireNewMessageID(c) \/ Send(c) \/ leave(c)

Next ==
  \/ \E r \in Run : admit(r) \/ Admission(r) \/ Drain(r) \/ DrainEvent(r) \/ StreamEnds(r) \/ Disconnect(r)
  \/ \E c \in Call : LookupLive(c) \/ Supplement(c)
  \/ \E o \in Reader : ReaderComesAndGoes(o) \/ Read(o)
  \/ \E c \in Canceller : Cancel(c) \/ CancelReturns(c)
  \/ Shutdown \/ ShutdownReturns \/ Crash

Spec == Init /\ [][Next]_vars

\* What the Session's goroutines and an execution that ends do by themselves.
Progress ==
  \/ \E r \in Run : Admission(r) \/ Drain(r) \/ StreamEnds(r)
  \/ \E c \in Call : Supplement(c)
  \/ \E c \in Canceller : CancelReturns(c)
  \/ ShutdownReturns

\* Goroutines run; nobody has to call, to disconnect or to crash.
FairSpec == Spec /\ WF_vars(Progress) /\ \A o \in Reader : WF_vars(Read(o))

----------------------------------------------------------------------------
(* Properties *)

Rank(kind) == CASE kind = "boundary" -> 0 [] kind = "user" -> 1
                [] kind \in {"event", "supplement"} -> 2
                [] kind = "result" -> 3 [] kind = "done" -> 4 [] OTHER -> 5

\* A record that begins a run nobody has recorded, or continues the run of the last.
Continues(h, i) ==
  LET e == h[i]
      d == h[i - 1]
  IN \/ /\ e.kind = "boundary"
        /\ \A j \in 1 .. i - 1 : h[j].run # e.run /\ (h[j].kind = "boundary" => h[j].id # e.id)
     \/ /\ i > 1 /\ d.run = e.run
        /\ Rank(d.kind) < Rank(e.kind) \/ (Rank(d.kind) = 2 /\ Rank(e.kind) = 2)

\* The recording of a key is one run after the other (reserve, recordBoundary, drain):
\* a boundary opens a run under an ID no earlier boundary has, every later record up
\* to the next boundary is that run's, accepted input comes before Done, and the
\* terminal is the run's last record.
HistoryInOrder == \A k \in Key : \A i \in DOMAIN log[k] : Continues(log[k], i)

Occurs(c) == Cardinality({i \in DOMAIN log[Home] :
               log[Home][i].kind = "supplement" /\ log[Home][i].id = IdOf[c]})
\* Input that Supplement answered as accepted is in the recording exactly once, and
\* input that was rejected, with no other call of its ID, is not, although the check
\* (requireNewMessageID), the admission and the record are separate steps and the seal
\* may come between them.
AcceptedRecorded ==
  \A c \in Call :
    /\ sup[c].pc = "accepted" => Occurs(c) = 1
    /\ (\A d \in Call : IdOf[d] = IdOf[c] => sup[d].pc \in {"idle", "rejected"}) => Occurs(c) = 0

\* Accepted input is recorded once (the comment of Supplement).
RecordedOnce == \A c \in Call : Occurs(c) <= 1

\* A run that closeIncomplete reported as ended without a terminal never gets one: no
\* reader calls a run incomplete while its drain may still record.
DiagnosisFinal ==
  \A k \in Key : \A i \in DOMAIN log[k] :
    log[k][i].kind = "terminal" => log[k][i].run \notin diagnosed

\* What a reader receives is well formed: a run begins first or after an end, and
\* after an end only a run begins (project, closeIncomplete); an observer that returns
\* without an error was told the end of every run it saw something of; and Snapshot
\* finds the boundary of the run it excludes (waitBoundary, snapshotRecords).
ReadersTold ==
  /\ \A o \in Follower :
       rd[o].orderly /\ (rd[o].pc = "returned" => rd[o].ev \in {None, "ended"})
  /\ \A o \in Snapshot : rd[o].pc # "missing"

Recorded(r) ==
  \E i \in DOMAIN log[run[r].key] :
    log[run[r].key][i].run = r /\ log[run[r].key][i].kind = "terminal"
Begun(r) == \E i \in DOMAIN log[run[r].key] : log[run[r].key][i].run = r

\* Cancel returns when the run it found has recorded its terminal, and Shutdown
\* when no run is in progress and every recorded run has its terminal, unless
\* recording failed; finishAdmission and Shutdown close shutdownDone only once.
StopSettles ==
  /\ sess.shutdownDone <= 1
  /\ \A r \in Run :
       (\/ shutdown = "returned" /\ run[r].pc # "idle"
        \/ \E c \in Canceller : cancel[c] = [pc |-> "returned", run |-> r])
       => ~InProgress(r) /\ ((run[r].pc = "over" /\ Begun(r)) => (Recorded(r) \/ run[r].failed))

\* Every call returns: runs end, input is answered, observations complete, and
\* Cancel and Shutdown stop waiting.  (A behaviour has finitely many calls.)
CallsReturn ==
  []<>(/\ \A r \in Run : ~InProgress(r)
       /\ \A c \in Call : sup[c].pc \in {"idle"} \cup Returned
       /\ \A o \in Reader : ~Reading(o)
       /\ \A c \in Canceller : cancel[c].pc # "waiting"
       /\ shutdown # "waiting")
=============================================================================
