-------------------------- MODULE AguiCallsProofs --------------------------
(***************************************************************************)
(* What the calls of an AG-UI session may rely on: Cancel and Shutdown,    *)
(* which wait for runs, and Supplement, whose input is in the recording    *)
(* once when it is accepted.                                               *)
(*                                                                         *)
(* The argument for Shutdown: running counts the runs in progress, so that *)
(* shutdownDone is closed once, when none is left.  The argument for       *)
(* Supplement: a call enters a run that is live and not sealed, the seal   *)
(* waits for it, and what it hands over was looked for in the recording    *)
(* while nobody else could record the same ID.                             *)
(***************************************************************************)
EXTENDS AguiSessionProofs, FiniteSetTheorems

Busy == {r \in Run : InProgress(r)}

\* The Session counts its runs, and shutdownDone is closed when there are none left.
Counted ==
  /\ sess.running = Cardinality(Busy)
  /\ sess.closed <=> shutdown # "no"
  /\ sess.shutdownDone = IF sess.closed /\ sess.running = 0 THEN 1 ELSE 0
  /\ shutdown = "returned" => sess.shutdownDone = 1
  /\ \A c \in Canceller : cancel[c].pc = "returned" /\ cancel[c].run # None =>
       run[cancel[c].run].pc = "over"

\* The calls with one message ID are retries of each other: a client sends an ID again
\* only after the call before has returned.
Sequential ==
  \A c, d \in Call : c # d /\ IdOf[c] = IdOf[d] => RetryOf[c] = d \/ RetryOf[d] = c

Has(id) == \E i \in DOMAIN log[Home] : log[Home][i].kind = "supplement" /\ log[Home][i].id = id

LivePc == {"user", "drain", "sealing", "done", "terminal", "close"}
EnteredPc == LivePc \cup {"release", "finishing", "over"}
InflightPc == {"check", "send", "handoff", "recorded", "unrecorded"}

\* A live run of a key has the key's boundary behind it and is not over.
Live ==
  /\ \A k \in Key : LET r == sess.live[k] IN
       r # None => run[r].key = k /\ run[r].pc \in LivePc
  /\ \A r \in Run : run[r].pc \in LivePc \ {"user", "drain"} => run[r].sealed

\* Where the run is that call c has entered: the seal waits for the call.
CallIn(c) ==
  LET r == sup[c].run IN
    /\ sup[c].pc = "enter" =>
         /\ r \in Run /\ run[r].key = Home /\ run[r].pc \in EnteredPc
         /\ run[r].pc \in {"user", "drain"} \/ run[r].sealed
    /\ sup[c].pc \in InflightPc =>
         r \in Run /\ run[r].key = Home /\ run[r].pc \in {"user", "drain", "sealing"}

\* A retry follows the call it repeats.
Turns ==
  \A c \in Call : RetryOf[c] # None /\ sup[c].pc # "idle" => sup[RetryOf[c]].pc \in Returned

\* Input is once in the recording, and the call it came with knows or is gone.
Single ==
  \A i, j \in DOMAIN log[Home] :
    /\ log[Home][i].kind = "supplement" /\ log[Home][j].kind = "supplement"
    /\ log[Home][i].id = log[Home][j].id
    => i = j
Claimed ==
  \A i \in DOMAIN log[Home] : log[Home][i].kind = "supplement" =>
    \E c \in Call : IdOf[c] = log[Home][i].id /\ sup[c].pc \in {"recorded", "accepted", "gone"}
\* What call c knows of the recording.
CallKnows(c) ==
  /\ sup[c].pc = "check" => ~sup[c].dup
  /\ sup[c].pc = "handoff" \/ (sup[c].pc = "send" /\ ~sup[c].dup) => ~Has(IdOf[c])
  /\ sup[c].pc = "send" /\ sup[c].dup => Has(IdOf[c])
  /\ sup[c].pc \in {"recorded", "accepted"} => Has(IdOf[c])

\* A call is answered before its run's admissions are over, by what is in the recording.
Answers ==
  /\ Live /\ Turns /\ Single /\ Claimed
  /\ \A c \in Call : CallIn(c) /\ CallKnows(c)
  /\ \A r \in Run : \A id \in run[r].ids : Has(id)

-----------------------------------------------------------------------------
(* What the steps of a run do to the Session, to the run and to recorded input. *)

\* The input in the recording of Home is what it was.
SameInput ==
  /\ \A id : Has(id)' <=> Has(id)
  /\ \A i \in DOMAIN log'[Home] : log'[Home][i].kind = "supplement" =>
       i \in DOMAIN log[Home] /\ log'[Home][i] = log[Home][i]

\* The count of runs is not touched.
SameCount(r) ==
  /\ sess'.running = sess.running /\ sess'.closed = sess.closed
  /\ sess'.shutdownDone = sess.shutdownDone /\ UNCHANGED <<shutdown, cancel>>
  /\ InProgress(r)' <=> InProgress(r)
  /\ run[r].pc = "over" => run'[r].pc = "over"

\* The run moves on the way an entered call relies on.
Moves(r) ==
  LET p == run[r].pc
      q == run'[r].pc
  IN /\ \A s \in Run : s # r => run'[s] = run[s]
     /\ p \in EnteredPc => q \in EnteredPc /\ run'[r].key = run[r].key
     /\ run[r].sealed => run'[r].sealed
     /\ p \in {"user", "drain"} => q \in {"user", "drain"} \/ run'[r].sealed
     /\ p \in {"user", "drain", "sealing"} => q \in {"user", "drain", "sealing"} \/ Inflight(r) = {}
     /\ run'[r].ids \subseteq run[r].ids
     /\ q \in LivePc \ {"user", "drain"} => run'[r].sealed
     /\ \A k \in Key : sess'.live[k] # None =>
          \/ sess'.live[k] = sess.live[k] /\ (sess.live[k] = r => q \in LivePc /\ run'[r].key = run[r].key)
          \/ sess'.live[k] = r /\ run'[r].key = k /\ q \in LivePc

\* No record, no input.
LEMMA SameLog == ASSUME UNCHANGED log PROVE SameInput
BY Zenon DEF SameInput, Has

\* A record of another kind or another key is no input.
LEMMA OtherRecord ==
  ASSUME IInv, NEW k \in Key, NEW e \in Entry, log' = [log EXCEPT ![k] = Append(@, e)],
         e.kind # "supplement" \/ k # Home
  PROVE  SameInput
<1> DEFINE h == log[Home]
           g == log'[Home]
<1>1. h \in Seq(Entry) /\ Home \in Key
  BY SessionAssumption, Zenon DEF IInv, Types
<1>2. CASE k # Home
  <2>1. g = h
    BY <1>1, <1>2, Zenon DEF IInv, Types
  <2> QED  BY <2>1, Zenon DEF SameInput, Has
<1>3. CASE k = Home
  <2>1. g = Append(h, e)
    BY <1>1, <1>3, Zenon DEF IInv, Types
  <2>2. /\ DOMAIN h = 1 .. Len(h) /\ DOMAIN g = 1 .. Len(h) + 1 /\ Len(h) \in Nat
        /\ g[Len(h) + 1] = e /\ \A i \in 1 .. Len(h) : g[i] = h[i]
    BY <1>1, <2>1, AppendFacts
  <2>3. \A i \in DOMAIN g : g[i].kind = "supplement" => i \in DOMAIN h /\ g[i] = h[i]
    BY <1>3, <2>2
  <2>4. \A i \in DOMAIN h : i \in DOMAIN g /\ g[i] = h[i]
    BY <2>2
  <2> HIDE DEF g, h
  <2>5. \A id : (\E i \in DOMAIN g : g[i].kind = "supplement" /\ g[i].id = id) <=>
                (\E i \in DOMAIN h : h[i].kind = "supplement" /\ h[i].id = id)
    BY <2>3, <2>4, Zenon
  <2> QED  BY <2>3, <2>5, Zenon DEF SameInput, Has, g, h
<1> QED  BY <1>2, <1>3, Zenon

\* The closure record of drain, for what is not input.
LEMMA RecordEffect ==
  ASSUME IInv, NEW r \in Run, NEW R \in RunRecord, NEW kind \in Kind, NEW id \in Id,
         record(r, R, kind, id)
  PROVE  /\ \A s \in Run : s # r => run'[s] = run[s]
         /\ run'[r].pc = R.pc /\ run'[r].key = R.key /\ run'[r].sealed = R.sealed
         /\ run'[r].ids = R.ids
         /\ kind # "supplement" => SameInput
<1> DEFINE Effect == /\ \A s \in Run : s # r => run'[s] = run[s]
                     /\ run'[r].pc = R.pc /\ run'[r].key = R.key /\ run'[r].sealed = R.sealed
                     /\ run'[r].ids = R.ids
<1>1. run' = [run EXCEPT ![r] = R] => Effect
  BY Zenon DEF IInv, Types
<1>2. CASE recordFailed(r, R)
  <2> DEFINE F == [R EXCEPT !.failed = TRUE, !.stopped = TRUE]
  <2>1. F.pc = R.pc /\ F.key = R.key /\ F.sealed = R.sealed /\ F.ids = R.ids
    BY Zenon DEF RunRecord
  <2>2. run' = [run EXCEPT ![r] = F] /\ UNCHANGED log
    BY <1>2, Zenon DEF recordFailed
  <2> HIDE DEF F
  <2> QED  BY <2>1, <2>2, SameLog, Zenon DEF IInv, Types
<1>3. CASE UNCHANGED log
  BY <1>1, <1>2, <1>3, SameLog, Zenon DEF record
<1>4. CASE Append1(R.key, kind, r, id) /\ run' = [run EXCEPT ![r] = R]
  <2> DEFINE e == [kind |-> kind, run |-> r, id |-> id]
  <2>1. e \in Entry /\ e.kind = kind /\ R.key \in Key
    BY Zenon DEF Entry, RunRecord
  <2>2. log' = [log EXCEPT ![R.key] = Append(@, e)]
    BY <1>4, Zenon DEF Append1
  <2> HIDE DEF e
  <2>3. kind # "supplement" => SameInput
    BY <2>1, <2>2, OtherRecord, Zenon
  <2> QED  BY <1>1, <1>4, <2>3, Zenon
<1> QED  BY <1>1, <1>2, <1>3, <1>4, Zenon DEF record

\* A step of run r.
Step(r) == Moves(r) /\ SameInput /\ UNCHANGED sup

\* What Goto changes.
LEMMA PcEffect ==
  ASSUME IInv, NEW r \in Run, NEW q, Goto(r, q)
  PROVE  /\ \A s \in Run : s # r => run'[s] = run[s]
         /\ run'[r].pc = q /\ run'[r].key = run[r].key /\ run'[r].sealed = run[r].sealed
         /\ run'[r].ids = run[r].ids
<1>1. run \in [Run -> RunRecord] /\ run[r] \in RunRecord
  BY Zenon DEF IInv, Types
<1>2. run' = [run EXCEPT ![r] = [run[r] EXCEPT !.pc = q]]
  BY Zenon DEF Goto
<1> QED  BY <1>1, <1>2, Zenon DEF RunRecord

\* A reservation leaves the counters alone.
LEMMA ReserveEffect ==
  ASSUME IInv, NEW r \in Run, NEW k \in Key, reserve(r, k)
  PROVE  /\ sess'.live = sess.live /\ sess'.running = sess.running /\ sess'.closed = sess.closed
         /\ sess'.shutdownDone = sess.shutdownDone
BY Zenon DEF IInv, Types, SessionRecord, reserve

\* So does its release.
LEMMA ReleaseEffect ==
  ASSUME IInv, NEW k \in Key, release(k)
  PROVE  /\ sess'.live = sess.live /\ sess'.running = sess.running /\ sess'.closed = sess.closed
         /\ sess'.shutdownDone = sess.shutdownDone
BY Zenon DEF IInv, Types, SessionRecord, release

\* A step before the run is live, or after.
LEMMA AsideStep ==
  ASSUME IInv, Live, NEW r \in Run, \A s \in Run : s # r => run'[s] = run[s],
         run'[r].sealed = run[r].sealed, run'[r].ids = run[r].ids,
         run[r].pc \notin LivePc, run'[r].pc \notin LivePc, sess'.live = sess.live,
         run[r].pc \in EnteredPc => run'[r].pc \in EnteredPc /\ run'[r].key = run[r].key
  PROVE  Moves(r)
<1>1. \A k \in Key : sess.live[k] # r \/ sess.live[k] = None
  BY Zenon DEF Live
<1> QED  BY <1>1, SessionAssumption, Zenon DEF Moves, LivePc

\* The steps before the drain.
LEMMA AdmissionStep == ASSUME IInv, Live, NEW r \in Run, Admission(r) PROVE Step(r) /\ SameCount(r)
<1>0. run[r].key \in Key /\ run[r].pc \in RunPc
  BY Zenon DEF IInv, Types, RunRecord
<1>1. UNCHANGED <<shutdown, cancel, sup>>
  BY Zenon DEF Admission, Reserve, VerifyHistory, ReserveFresh, requireFresh, recordBoundary,
         PublishBoundary, OtherActors
<1>2. /\ sess'.live = sess.live /\ sess'.running = sess.running /\ sess'.closed = sess.closed
      /\ sess'.shutdownDone = sess.shutdownDone
  <2>1. CASE UNCHANGED sess
    BY <2>1, Zenon
  <2>2. CASE Reserve(r)
    BY <1>0, <2>1, <2>2, ReserveEffect, Zenon DEF Reserve
  <2>3. CASE ReserveFresh(r)
    <3>1. FreshOf[r] \in Key
      BY <2>3, SessionAssumption, Zenon DEF IInv, Reserved, ReserveFresh
    <3> QED  BY <2>1, <2>3, <3>1, ReserveEffect, Zenon DEF ReserveFresh
  <2>4. CASE requireFresh(r)
    <3>1. FreshOf[r] \in Key
      BY <2>4, SessionAssumption, Zenon DEF IInv, Reserved, requireFresh
    <3> QED  BY <1>0, <2>4, <3>1, ReleaseEffect, Zenon DEF requireFresh
  <2> QED  BY <2>1, <2>2, <2>3, <2>4, Zenon DEF Admission, VerifyHistory, recordBoundary, PublishBoundary
<1>3. /\ \A s \in Run : s # r => run'[s] = run[s]
      /\ run'[r].sealed = run[r].sealed /\ run'[r].ids = run[r].ids
      /\ run[r].pc \in {"reserve", "verify", "switch", "switching", "boundary", "publish"}
      /\ run'[r].pc \in {"verify", "switch", "switching", "boundary", "publish", "start",
                         "release", "finishing"}
  <2>1. CASE \E q \in {"verify", "switch", "switching", "boundary", "publish", "start",
                       "release", "finishing"} : Goto(r, q)
    BY <2>1, PcEffect, Zenon DEF Admission, Reserve, VerifyHistory, ReserveFresh, requireFresh,
       recordBoundary, PublishBoundary
  <2>2. CASE run[r].pc = "switching" /\ run' = [run EXCEPT ![r].pc = "boundary", ![r].key = FreshOf[r]]
    <3>1. run \in [Run -> RunRecord] /\ run[r] \in RunRecord
      BY Zenon DEF IInv, Types
    <3>2. run' = [run EXCEPT ![r] = [run[r] EXCEPT !.pc = "boundary", !.key = FreshOf[r]]]
      BY <2>2, Zenon
    <3> QED  BY <2>2, <3>1, <3>2 DEF RunRecord
  <2> QED  BY <2>1, <2>2, Zenon DEF Admission, Reserve, VerifyHistory, ReserveFresh, requireFresh,
       recordBoundary, PublishBoundary
<1>4. SameInput
  <2>1. CASE UNCHANGED log
    BY <2>1, SameLog, Zenon
  <2>2. CASE Append1(run[r].key, "boundary", r, runId(r))
    <3> DEFINE e == [kind |-> "boundary", run |-> r, id |-> runId(r)]
    <3>1. e \in Entry /\ e.kind # "supplement"
      BY Zenon DEF Entry, Kind, Id, runId
    <3>2. log' = [log EXCEPT ![run[r].key] = Append(@, e)]
      BY <2>2, Zenon DEF Append1
    <3> HIDE DEF e
    <3> QED  BY <1>0, <3>1, <3>2, OtherRecord, Zenon
  <2> QED  BY <2>1, <2>2, Zenon DEF Admission, Reserve, VerifyHistory, ReserveFresh, requireFresh,
       recordBoundary, PublishBoundary
<1>5. SameCount(r)
  BY <1>1, <1>2, <1>3, Zenon DEF SameCount, InProgress
<1>6. Moves(r)
  <2>1. run[r].pc \notin EnteredPc /\ run[r].pc \notin LivePc /\ run'[r].pc \notin LivePc
    BY <1>3, Zenon DEF EnteredPc, LivePc
  <2> QED  BY <1>2, <1>3, <2>1, AsideStep, Zenon
<1> QED  BY <1>1, <1>4, <1>5, <1>6, Zenon DEF Step

\* A step that records nothing but what the run emits, while the run is live.
LEMMA LiveStep ==
  ASSUME IInv, Live, NEW r \in Run, \A s \in Run : s # r => run'[s] = run[s],
         run'[r].key = run[r].key, run'[r].ids = run[r].ids,
         run[r].sealed => run'[r].sealed,
         run[r].pc \in LivePc, run'[r].pc \in LivePc, UNCHANGED <<sess, shutdown, cancel>>,
         run[r].pc \in {"user", "drain"} => run'[r].pc \in {"user", "drain"} \/ run'[r].sealed,
         run[r].pc = "sealing" => run'[r].pc = "sealing" \/ Inflight(r) = {},
         run'[r].pc \notin {"user", "drain", "sealing"} =>
           run[r].pc \notin {"user", "drain"} /\ run'[r].sealed = run[r].sealed
  PROVE  Moves(r) /\ SameCount(r)
<1>1. run'[r].pc \in LivePc \ {"user", "drain"} => run'[r].sealed
  BY Zenon DEF Live, LivePc
<1>2. Moves(r)
  BY <1>1, Zenon DEF Moves, EnteredPc, LivePc
<1>3. SameCount(r)
  BY Zenon DEF SameCount, InProgress, LivePc
<1> QED  BY <1>2, <1>3, Zenon

\* A record of the drain, or its failure, keeps the claimed IDs.
LEMMA EmitStep ==
  ASSUME IInv, Live, NEW r \in Run, NEW R \in RunRecord,
         NEW kind \in {"user", "event", "result", "done", "terminal"},
         record(r, R, kind, None) \/ (run' = [run EXCEPT ![r] = R] /\ UNCHANGED log),
         UNCHANGED <<sess, sup, shutdown, cancel>>,
         R.key = run[r].key, R.sealed = run[r].sealed, R.ids = run[r].ids,
         \/ run[r].pc = "user" /\ R.pc = "drain"
         \/ run[r].pc = "drain" /\ R.pc = "drain"
         \/ run[r].pc = "sealing" /\ R.pc = "done" /\ Inflight(r) = {}
         \/ run[r].pc = "done" /\ R.pc = "terminal"
         \/ run[r].pc = "terminal" /\ R.pc = "close"
  PROVE  Step(r) /\ SameCount(r)
<1>1. kind \in Kind /\ None \in Id /\ kind # "supplement"
  BY Zenon DEF Kind, Id
<1>2. /\ \A s \in Run : s # r => run'[s] = run[s]
      /\ run'[r].pc = R.pc /\ run'[r].key = R.key /\ run'[r].sealed = R.sealed
      /\ run'[r].ids = R.ids /\ SameInput
  <2>1. CASE record(r, R, kind, None)
    BY <1>1, <2>1, RecordEffect, Zenon
  <2>2. CASE run' = [run EXCEPT ![r] = R] /\ UNCHANGED log
    BY <2>2, SameLog, Zenon DEF IInv, Types
  <2> QED  BY <2>1, <2>2, Zenon
<1>3. Moves(r) /\ SameCount(r)
  BY <1>2, LiveStep, Zenon DEF LivePc
<1> QED  BY <1>2, <1>3, Zenon DEF Step

\* The records of the drain that are no input.
LEMMA RecordingStep ==
  ASSUME IInv, Live, NEW r \in Run,
         \/ RecordUserTurn(r) \/ DrainEvent(r) \/ RecordResultText(r) \/ RecordDone(r)
         \/ RecordTerminal(r)
  PROVE  Step(r) /\ SameCount(r)
<1>1. run[r] \in RunRecord
  BY Zenon DEF IInv, Types
<1>2. UNCHANGED <<sess, sup, shutdown, cancel>>
  BY Zenon DEF RecordUserTurn, DrainEvent, RecordResultText, RecordDone, RecordTerminal, OtherActors
<1>3. ASSUME NEW q \in {"drain", "done", "terminal", "close"}
      PROVE  LET R == [run[r] EXCEPT !.pc = q]
             IN R \in RunRecord /\ R.pc = q /\ R.key = run[r].key /\ R.sealed = run[r].sealed
                /\ R.ids = run[r].ids
  BY <1>1, Zenon DEF RunRecord, RunPc, HoldPc
<1>4. CASE RecordUserTurn(r)
  BY <1>2, <1>3, <1>4, EmitStep, Zenon DEF RecordUserTurn
<1>5. CASE DrainEvent(r)
  <2> DEFINE R == [run[r] EXCEPT !.events = @ + 1]
             B == [R EXCEPT !.bad = TRUE, !.stopped = TRUE]
  <2>1. R \in RunRecord /\ R.pc = run[r].pc /\ R.key = run[r].key /\ R.sealed = run[r].sealed
        /\ R.ids = run[r].ids
    BY <1>1 DEF RunRecord
  <2>3. /\ run[r].pc = "drain"
        /\ (run' = [run EXCEPT ![r] = B] /\ UNCHANGED log) \/ record(r, R, "event", None)
    BY <1>5, Zenon DEF DrainEvent
  <2> HIDE DEF R
  <2>2. B \in RunRecord /\ B.pc = run[r].pc /\ B.key = run[r].key /\ B.sealed = run[r].sealed
        /\ B.ids = run[r].ids
    BY <2>1, Zenon DEF RunRecord
  <2> HIDE DEF B
  <2>4. CASE run' = [run EXCEPT ![r] = B] /\ UNCHANGED log
    BY <1>2, <2>2, <2>3, <2>4, EmitStep, Zenon
  <2>5. CASE record(r, R, "event", None)
    BY <1>2, <2>1, <2>3, <2>5, EmitStep, Zenon
  <2> QED  BY <2>3, <2>4, <2>5, Zenon
<1>6. CASE RecordResultText(r)
  BY <1>2, <1>3, <1>6, EmitStep, Zenon DEF RecordResultText
<1>7. CASE RecordDone(r)
  BY <1>2, <1>3, <1>7, EmitStep, Zenon DEF RecordDone
<1>8. CASE RecordTerminal(r)
  BY <1>2, <1>3, <1>8, EmitStep, Zenon DEF RecordTerminal
<1> QED  BY <1>4, <1>5, <1>6, <1>7, <1>8, Zenon

\* The run that opens is the only live one of its key.
LEMMA openLiveStep == ASSUME IInv, Live, NEW r \in Run, openLive(r) PROVE Step(r) /\ SameCount(r)
<1> DEFINE R == [run[r] EXCEPT !.pc = "user", !.stream = "open"]
<1>1. run[r] \in RunRecord /\ run[r].key \in Key /\ sess \in SessionRecord /\ run[r].pc = "start"
  BY Zenon DEF IInv, Types, RunRecord, openLive
<1>2. /\ run' = [run EXCEPT ![r] = R] /\ UNCHANGED <<log, sup, shutdown, cancel>>
      /\ sess' = [sess EXCEPT !.live[run[r].key] = r]
  BY Zenon DEF openLive, OtherActors
<1>3. R.pc = "user" /\ R.key = run[r].key /\ R.sealed = run[r].sealed /\ R.ids = run[r].ids
  BY <1>1, Zenon DEF RunRecord
<1> HIDE DEF R
<1>4. run'[r] = R /\ \A s \in Run : s # r => run'[s] = run[s]
  BY <1>2, Zenon DEF IInv, Types
<1>5. /\ sess'.live = [sess.live EXCEPT ![run[r].key] = r] /\ sess'.running = sess.running
      /\ sess'.closed = sess.closed /\ sess'.shutdownDone = sess.shutdownDone
  BY <1>1, <1>2, Zenon DEF SessionRecord
<1>6. \A k \in Key : sess'.live[k] = sess.live[k] \/ (sess'.live[k] = r /\ k = run[r].key)
  BY <1>1, <1>5, Zenon DEF SessionRecord
<1>7. \A k \in Key : sess.live[k] = r => FALSE
  BY <1>1, SessionAssumption DEF Live, LivePc
<1>8. Moves(r)
  BY <1>1, <1>3, <1>4, <1>6, <1>7, Zenon DEF Moves, EnteredPc, LivePc
<1>9. SameCount(r)
  BY <1>1, <1>2, <1>3, <1>4, <1>5, Zenon DEF SameCount, InProgress
<1> QED  BY <1>2, <1>8, <1>9, SameLog, Zenon DEF Step

\* The seal ends admission.
LEMMA sealStep == ASSUME IInv, Live, NEW r \in Run, seal(r) PROVE Step(r) /\ SameCount(r)
<1> DEFINE R == [run[r] EXCEPT !.pc = "sealing", !.sealed = TRUE]
<1>1. run[r] \in RunRecord /\ run[r].pc = "drain"
  BY Zenon DEF IInv, Types, seal
<1>2. run' = [run EXCEPT ![r] = R] /\ UNCHANGED <<log, sess, sup, shutdown, cancel>>
  BY Zenon DEF seal, OtherActors
<1>3. R.pc = "sealing" /\ R.key = run[r].key /\ R.sealed /\ R.ids = run[r].ids
  BY <1>1, Zenon DEF RunRecord
<1> HIDE DEF R
<1>4. run'[r] = R /\ \A s \in Run : s # r => run'[s] = run[s]
  BY <1>2, Zenon DEF IInv, Types
<1>5. Moves(r) /\ SameCount(r)
  BY <1>1, <1>2, <1>3, <1>4, LiveStep, Zenon DEF LivePc
<1> QED  BY <1>2, <1>5, SameLog, Zenon DEF Step

\* A run that closed is not live.
LEMMA closeLiveStep == ASSUME IInv, Live, NEW r \in Run, closeLive(r) PROVE Step(r) /\ SameCount(r)
<1>1. run[r].key \in Key /\ sess \in SessionRecord /\ run[r].pc = "close"
  BY Zenon DEF IInv, Types, RunRecord, closeLive
<1>2. /\ UNCHANGED <<log, sup, shutdown, cancel>> /\ Goto(r, "release")
      /\ sess' = [sess EXCEPT !.live[run[r].key] = IF @ = r THEN None ELSE @]
  BY Zenon DEF closeLive, OtherActors
<1>3. /\ \A s \in Run : s # r => run'[s] = run[s]
      /\ run'[r].pc = "release" /\ run'[r].key = run[r].key /\ run'[r].sealed = run[r].sealed
      /\ run'[r].ids = run[r].ids
  BY <1>2, PcEffect, Zenon
<1>4. /\ sess'.live = [sess.live EXCEPT ![run[r].key] = IF @ = r THEN None ELSE @]
      /\ sess'.running = sess.running
      /\ sess'.closed = sess.closed /\ sess'.shutdownDone = sess.shutdownDone
  BY <1>1, <1>2, Zenon DEF SessionRecord
<1>5. \A k \in Key : sess'.live[k] = None \/ (sess'.live[k] = sess.live[k] /\ sess.live[k] # r)
  <2> SUFFICES ASSUME NEW k \in Key
               PROVE  sess'.live[k] = None \/ (sess'.live[k] = sess.live[k] /\ sess.live[k] # r)
    BY Zenon
  <2>1. sess.live[k] = r => k = run[r].key
    BY SessionAssumption, Zenon DEF Live
  <2>2. sess.live \in [Key -> Run \cup {None}]
    BY <1>1, Zenon DEF SessionRecord
  <2> QED  BY <1>4, <2>1, <2>2, Zenon
<1>6. Moves(r)
  BY <1>1, <1>3, <1>5, Zenon DEF Moves, EnteredPc, LivePc
<1>7. SameCount(r)
  BY <1>1, <1>2, <1>3, <1>4, Zenon DEF SameCount, InProgress
<1> QED  BY <1>2, <1>6, <1>7, SameLog, Zenon DEF Step

\* The key is given back by a run that is not live.
LEMMA ReleaseStep == ASSUME IInv, Live, NEW r \in Run, Release(r) PROVE Step(r) /\ SameCount(r)
<1>1. run[r].key \in Key /\ run[r].pc = "release"
  BY Zenon DEF IInv, Types, RunRecord, Release
<1>2. UNCHANGED <<log, sup, shutdown, cancel>> /\ Goto(r, "finishing") /\ release(run[r].key)
  BY Zenon DEF Release, OtherActors
<1>3. /\ sess'.live = sess.live /\ sess'.running = sess.running /\ sess'.closed = sess.closed
      /\ sess'.shutdownDone = sess.shutdownDone
  BY <1>1, <1>2, ReleaseEffect, Zenon
<1>4. /\ \A s \in Run : s # r => run'[s] = run[s]
      /\ run'[r].pc = "finishing" /\ run'[r].key = run[r].key /\ run'[r].sealed = run[r].sealed
      /\ run'[r].ids = run[r].ids
  BY <1>2, PcEffect, Zenon
<1>5. Moves(r)
  BY <1>1, <1>3, <1>4, AsideStep, Zenon DEF EnteredPc, LivePc
<1>6. SameCount(r)
  BY <1>1, <1>2, <1>3, <1>4, Zenon DEF SameCount, InProgress
<1> QED  BY <1>2, <1>5, <1>6, SameLog, Zenon DEF Step

\* An admitted run is in progress and counted.
LEMMA admitStep == ASSUME IInv, Live, NEW r \in Run, admit(r) PROVE Step(r)
<1>1. sess \in SessionRecord /\ run[r].pc = "idle"
  BY Zenon DEF IInv, Types, admit
<1>2. /\ UNCHANGED <<log, sup>>
      /\ \/ Goto(r, "refused") /\ UNCHANGED sess
         \/ Goto(r, "reserve") /\ sess' = [sess EXCEPT !.running = @ + 1]
  BY Zenon DEF admit
<1>3. sess'.live = sess.live
  BY <1>1, <1>2, Zenon DEF SessionRecord
<1>4. /\ \A s \in Run : s # r => run'[s] = run[s]
      /\ run'[r].pc \in {"refused", "reserve"} /\ run'[r].sealed = run[r].sealed
      /\ run'[r].ids = run[r].ids
  BY <1>2, PcEffect, Zenon
<1>5. Moves(r)
  BY <1>1, <1>3, <1>4, AsideStep, Zenon DEF EnteredPc, LivePc
<1> QED  BY <1>2, <1>5, SameLog, Zenon DEF Step

\* What finishAdmission changes.
LEMMA finishAdmissionEffect ==
  ASSUME IInv, NEW r \in Run, finishAdmission(r)
  PROVE  /\ \A s \in Run : s # r => run'[s] = run[s]
         /\ run[r].pc = "finishing"
         /\ run'[r].pc = "over" /\ run'[r].key = run[r].key /\ run'[r].sealed = run[r].sealed
         /\ run'[r].ids = {}
         /\ UNCHANGED <<log, sup, shutdown, cancel>>
         /\ sess'.live = sess.live /\ sess'.running = sess.running - 1 /\ sess'.closed = sess.closed
         /\ sess'.shutdownDone =
              IF sess.closed /\ sess.running = 1 THEN sess.shutdownDone + 1 ELSE sess.shutdownDone
<1> DEFINE R == [NewRun EXCEPT !.pc = "over", !.key = run[r].key,
                               !.failed = run[r].failed, !.sealed = run[r].sealed]
           d == IF sess.closed /\ sess.running = 1 THEN sess.shutdownDone + 1 ELSE sess.shutdownDone
<1>1. run[r].pc = "finishing" /\ UNCHANGED <<log, sup, shutdown, cancel>> /\ sess \in SessionRecord
  BY Zenon DEF finishAdmission, OtherActors, IInv, Types
<1>2. R.pc = "over" /\ R.key = run[r].key /\ R.sealed = run[r].sealed /\ R.ids = {}
  BY Zenon DEF NewRun
<1>3. run' = [run EXCEPT ![r] = R] /\ sess' = [sess EXCEPT !.running = @ - 1, !.shutdownDone = d]
  BY Zenon DEF finishAdmission
<1> HIDE DEF R
<1>4. run'[r] = R /\ \A s \in Run : s # r => run'[s] = run[s]
  BY <1>3, Zenon DEF IInv, Types
<1>5. /\ sess'.live = sess.live /\ sess'.running = sess.running - 1 /\ sess'.closed = sess.closed
      /\ sess'.shutdownDone = d
  <2> HIDE DEF d
  <2> QED  BY <1>1, <1>3, Zenon DEF SessionRecord
<1> QED  BY <1>1, <1>2, <1>4, <1>5, Zenon

\* A finished run forgets its IDs, and no call is left in it.
LEMMA finishAdmissionStep == ASSUME IInv, Live, NEW r \in Run, finishAdmission(r) PROVE Step(r)
<1>1. \A k \in Key : sess.live[k] = r => FALSE
  BY SessionAssumption, finishAdmissionEffect DEF Live, LivePc
<1>2. Moves(r)
  BY <1>1, finishAdmissionEffect, Zenon DEF Moves, EnteredPc, LivePc
<1> QED  BY <1>2, SameLog, finishAdmissionEffect, Zenon DEF Step

-----------------------------------------------------------------------------
(* The calls of Supplement. *)

\* Without new input, recorded and claimed IDs stay as they are.
LEMMA InputKept ==
  ASSUME SameInput, Single, Claimed,
         \A c \in Call : sup[c].pc \in {"recorded", "accepted", "gone"} =>
           sup'[c].pc \in {"recorded", "accepted", "gone"}
  PROVE  Single' /\ Claimed'
<1>1. \A i \in DOMAIN log'[Home] : log'[Home][i].kind = "supplement" =>
        i \in DOMAIN log[Home] /\ log'[Home][i] = log[Home][i]
  BY Zenon DEF SameInput
<1>2. Single'
  BY <1>1, Zenon DEF Single
<1>3. Claimed'
  BY <1>1 DEF Claimed
<1> QED  BY <1>2, <1>3, Zenon

\* One live run for each key, after a step of a run.
LEMMA StepLive == ASSUME IInv, Live, NEW r \in Run, Moves(r) PROVE Live'
<1>1. ASSUME NEW k \in Key, sess'.live[k] # None
      PROVE  run'[sess'.live[k]].key = k /\ run'[sess'.live[k]].pc \in LivePc
  <2>1. sess.live[k] \in Run \cup {None}
    BY Zenon DEF IInv, Types, SessionRecord
  <2> QED  BY <1>1, <2>1 DEF Moves, Live
<1>2. ASSUME NEW s \in Run, run'[s].pc \in LivePc \ {"user", "drain"} PROVE run'[s].sealed
  BY <1>2, Zenon DEF Moves, Live
<1> QED  BY <1>1, <1>2, Zenon DEF Live

\* And after a step of anybody else.
LEMMA AsideLive ==
  ASSUME IInv, Live, sess'.live = sess.live,
         \A s \in Run : /\ run'[s].pc = run[s].pc /\ run'[s].key = run[s].key
                        /\ run'[s].sealed = run[s].sealed
  PROVE  Live'
<1>1. \A k \in Key : sess.live[k] # None => sess.live[k] \in Run
  BY Zenon DEF IInv, Types, SessionRecord
<1> QED  BY <1>1 DEF Live

\* A step of a run leaves every call where its answer is still right.
LEMMA StepAnswers == ASSUME IInv, Answers, NEW r \in Run, Step(r) PROVE Answers'
<1>1. /\ Moves(r) /\ SameInput /\ UNCHANGED sup
      /\ Live /\ Turns /\ Single /\ Claimed /\ \A c \in Call : CallIn(c) /\ CallKnows(c)
      /\ \A s \in Run : \A id \in run[s].ids : Has(id)
  BY Zenon DEF Answers, Step
<1>2. Live'
  BY <1>1, StepLive, Zenon
<1>3. ASSUME NEW c \in Call PROVE CallIn(c)'
  <2>1. CASE sup[c].run # r \/ sup[c].pc \notin {"enter"} \cup InflightPc
    BY <1>1, <2>1 DEF Moves, CallIn
  <2>2. CASE sup[c].run = r /\ sup[c].pc = "enter"
    BY <1>1, <2>2, Zenon DEF Moves, CallIn, InflightPc
  <2>3. CASE sup[c].run = r /\ sup[c].pc \in InflightPc
    <3>1. Inflight(r) # {}
      BY <2>3, Zenon DEF Inflight, InflightPc
    <3>2. run[r].key = Home /\ run[r].pc \in {"user", "drain", "sealing"}
      BY <1>1, <2>3, Zenon DEF CallIn
    <3>3. run'[r].key = Home /\ run'[r].pc \in {"user", "drain", "sealing"}
      BY <1>1, <3>1, <3>2, Zenon DEF Moves, EnteredPc, LivePc
    <3> QED  BY <1>1, <2>3, <3>3, Zenon DEF CallIn, InflightPc
  <2> QED  BY <2>1, <2>2, <2>3, Zenon
<1>4. Turns'
  BY <1>1, Zenon DEF Turns
<1>5. Single' /\ Claimed'
  BY <1>1, InputKept, Zenon
<1>6. \A id : Has(id)' <=> Has(id)
  BY <1>1, Zenon DEF SameInput
<1>7. \A c \in Call : CallKnows(c)'
  BY <1>1, <1>6, Zenon DEF CallKnows
<1>8. \A s \in Run : \A id \in run'[s].ids : Has(id)'
  BY <1>1, <1>6, Zenon DEF Moves
<1> QED  BY <1>2, <1>3, <1>4, <1>5, <1>7, <1>8, Zenon DEF Answers

\* A step that touches no call and no run's place.
LEMMA AsideAnswers ==
  ASSUME IInv, Answers, UNCHANGED <<log, sup>>, sess'.live = sess.live,
         \A s \in Run : /\ run'[s].pc = run[s].pc /\ run'[s].key = run[s].key
                        /\ run'[s].sealed = run[s].sealed /\ run'[s].ids = run[s].ids
  PROVE  Answers'
<1>2. \A id : Has(id)' <=> Has(id)
  BY Zenon DEF Has
<1>3. Live'
  BY AsideLive, Zenon DEF Answers
<1>4. \A c \in Call : CallIn(c)'
  BY Zenon DEF Answers, CallIn
<1>5. Turns'
  BY Zenon DEF Answers, Turns
<1>6. Single' /\ Claimed'
  BY Zenon DEF Answers, Single, Claimed
<1>7. \A c \in Call : CallKnows(c)'
  BY <1>2, Zenon DEF Answers, CallKnows
<1>8. \A s \in Run : \A id \in run'[s].ids : Has(id)'
  BY <1>2, Zenon DEF Answers
<1> QED  BY <1>3, <1>4, <1>5, <1>6, <1>7, <1>8, Zenon DEF Answers

\* A call moves on, and its run knows more IDs at most.
CallMoves(c) ==
  /\ \A d \in Call : d # c => sup'[d] = sup[d]
  /\ sup[c].pc \notin Returned
  /\ sup[c].pc = "recorded" => sup'[c].pc = "accepted"
  /\ sup[c].pc = "idle" /\ RetryOf[c] # None => sup[RetryOf[c]].pc \in Returned
  /\ UNCHANGED <<log, sess>>
  /\ \A s \in Run : /\ run'[s].pc = run[s].pc /\ run'[s].key = run[s].key
                    /\ run'[s].sealed = run[s].sealed
                    /\ \A id \in run'[s].ids : Has(id)

\* A step of one call concerns the answers of that call alone.
LEMMA CallAnswers ==
  ASSUME IInv, Answers, NEW c \in Call, CallMoves(c), CallIn(c)', CallKnows(c)'
  PROVE  Answers'
<1>2. \A id : Has(id)' <=> Has(id)
  BY Zenon DEF CallMoves, Has
<1>3. Live'
  BY AsideLive, Zenon DEF Answers, CallMoves
<1>4. ASSUME NEW d \in Call PROVE CallIn(d)'
  <2>1. CASE d # c
    <3>1. CallIn(d)
      BY Zenon DEF Answers
    <3> QED  BY <2>1, <3>1, ZenonT(40) DEF CallIn, CallMoves
  <2> QED  BY <2>1, Zenon
<1>5. Turns'
  <2> SUFFICES ASSUME NEW d \in Call, RetryOf[d] # None, sup'[d].pc # "idle"
               PROVE  sup'[RetryOf[d]].pc \in Returned
    BY Zenon DEF Turns
  <2>1. RetryOf[d] \in Call
    BY SessionAssumption, Zenon
  <2>2. sup[RetryOf[d]].pc \in Returned
    BY Zenon DEF Answers, Turns, CallMoves
  <2> QED  BY <2>1, <2>2, Zenon DEF CallMoves
<1>6. Single' /\ Claimed'
  <2>1. SameInput
    BY SameLog, Zenon DEF CallMoves
  <2>2. \A d \in Call : sup[d].pc \in {"recorded", "accepted", "gone"} =>
          sup'[d].pc \in {"recorded", "accepted", "gone"}
    BY Zenon DEF CallMoves, Returned
  <2> QED  BY <2>1, <2>2, InputKept, Zenon DEF Answers
<1>7. ASSUME NEW d \in Call PROVE CallKnows(d)'
  <2>1. CASE d # c
    <3>1. CallKnows(d)
      BY Zenon DEF Answers
    <3> QED  BY <1>2, <2>1, <3>1, Zenon DEF CallKnows, CallMoves
  <2> QED  BY <2>1, Zenon
<1>8. \A s \in Run : \A id \in run'[s].ids : Has(id)'
  BY <1>2, Zenon DEF CallMoves
<1> QED  BY <1>3, <1>4, <1>5, <1>6, <1>7, <1>8, Zenon DEF Answers

\* What SupGoto changes.
LEMMA SupGotoEffect ==
  ASSUME IInv, NEW c \in Call, NEW q, SupGoto(c, q)
  PROVE  /\ \A d \in Call : d # c => sup'[d] = sup[d]
         /\ sup'[c].pc = q
         /\ q \notin Returned => sup'[c].run = sup[c].run /\ sup'[c].dup = sup[c].dup
<1>1. sup \in [Call -> SupRecord] /\ sup[c] \in SupRecord
  BY Zenon DEF IInv, Types, SupRecord
<1> DEFINE S == IF q \in Returned THEN [NewSup EXCEPT !.pc = q] ELSE [sup[c] EXCEPT !.pc = q]
<1>2. S.pc = q /\ (q \notin Returned => S.run = sup[c].run /\ S.dup = sup[c].dup)
  BY <1>1, Zenon DEF SupRecord, NewSup
<1>3. sup' = [sup EXCEPT ![c] = S]
  BY Zenon DEF SupGoto
<1> HIDE DEF S
<1> QED  BY <1>1, <1>2, <1>3, Zenon

\* A call enters the live run of Home, and looks for its ID among what is recorded.
LEMMA AskAnswers ==
  ASSUME IInv, Answers, NEW c \in Call,
         LookupLive(c) \/ enter(c) \/ requireNewMessageID(c) \/ Send(c)
  PROVE  Answers'
<1>1. /\ UNCHANGED <<log, sess, run>> /\ Live /\ CallIn(c) /\ CallKnows(c)
      /\ \A s \in Run : \A id \in run[s].ids : Has(id)
      /\ \A id : Has(id)' <=> Has(id)
  BY Zenon DEF LookupLive, enter, requireNewMessageID, Send, SupVars, Answers, Has
<1>2. sup \in [Call -> SupRecord] /\ sup[c] \in SupRecord /\ Home \in Key
      /\ sess.live[Home] \in Run \cup {None}
  BY SessionAssumption, Zenon DEF IInv, Types, SupRecord, SessionRecord
<1>3. CASE LookupLive(c)
  <2> DEFINE r == sess.live[Home]
             S == [sup[c] EXCEPT !.pc = IF r = None THEN "rejected" ELSE "enter", !.run = r]
  <2>1. sup' = [sup EXCEPT ![c] = S] /\ sup[c].pc = "idle"
        /\ (RetryOf[c] # None => sup[RetryOf[c]].pc \in Returned)
    BY <1>3, Zenon DEF LookupLive
  <2>2. S.pc = (IF r = None THEN "rejected" ELSE "enter") /\ S.run = r
    BY <1>2, Zenon DEF SupRecord
  <2> HIDE DEF S
  <2>3. sup'[c] = S /\ \A d \in Call : d # c => sup'[d] = sup[d]
    BY <1>2, <2>1, Zenon
  <2>4. CallMoves(c)
    BY <1>1, <2>1, <2>3, Zenon DEF CallMoves, Returned
  <2>5. r # None => /\ r \in Run /\ run[r].key = Home /\ run[r].pc \in LivePc
                    /\ run[r].pc \in {"user", "drain"} \/ run[r].sealed
    BY <1>1, <1>2, Zenon DEF Live
  <2> HIDE DEF r
  <2>6. CallIn(c)' /\ CallKnows(c)'
    BY <1>1, <2>2, <2>3, <2>5, Zenon DEF CallIn, CallKnows, InflightPc, EnteredPc
  <2> QED  BY <2>4, <2>6, CallAnswers, Zenon
<1>4. CASE enter(c)
  <2> DEFINE dup == IdOf[c] \in run[sup[c].run].ids
             S == [sup[c] EXCEPT !.pc = IF dup THEN "send" ELSE "check", !.dup = dup]
  <2>1. /\ sup[c].pc = "enter"
        /\ \/ run[sup[c].run].sealed /\ SupGoto(c, "rejected")
           \/ ~run[sup[c].run].sealed /\ sup' = [sup EXCEPT ![c] = S]
    BY <1>4, Zenon DEF enter
  <2>2. S.pc = (IF dup THEN "send" ELSE "check") /\ S.run = sup[c].run /\ S.dup = dup
    BY <1>2, Zenon DEF SupRecord
  <2>3. sup[c].run \in Run /\ (dup => Has(IdOf[c]))
    BY <1>1, <2>1, Zenon DEF CallIn
  <2> HIDE DEF S, dup
  <2>4. CASE run[sup[c].run].sealed /\ SupGoto(c, "rejected")
    <3>1. sup'[c].pc = "rejected" /\ \A d \in Call : d # c => sup'[d] = sup[d]
      BY <2>4, SupGotoEffect, Zenon
    <3>2. CallMoves(c) /\ CallIn(c)' /\ CallKnows(c)'
      BY <1>1, <2>1, <3>1, Zenon DEF CallMoves, CallIn, CallKnows, InflightPc, Returned
    <3> QED  BY <3>2, CallAnswers, Zenon
  <2>5. CASE ~run[sup[c].run].sealed /\ sup' = [sup EXCEPT ![c] = S]
    <3>1. sup'[c] = S /\ \A d \in Call : d # c => sup'[d] = sup[d]
      BY <1>2, <2>5, Zenon
    <3>2. CallMoves(c)
      BY <1>1, <2>1, <3>1, Zenon DEF CallMoves, Returned
    <3>3. CallIn(c)'
      BY <1>1, <2>1, <2>2, <2>5, <3>1, Zenon DEF CallIn, InflightPc
    <3>4. dup \in BOOLEAN
      BY DEF dup
    <3>5. CASE dup
      BY <1>1, <2>2, <2>3, <3>1, <3>2, <3>3, <3>5, CallAnswers, Zenon DEF CallKnows
    <3>6. CASE ~dup
      BY <1>1, <2>2, <3>1, <3>2, <3>3, <3>6, CallAnswers, Zenon DEF CallKnows
    <3> QED  BY <3>4, <3>5, <3>6, Zenon
  <2> QED  BY <2>1, <2>4, <2>5, Zenon
<1>5. CASE requireNewMessageID(c)
  <2>1. /\ sup[c].pc = "check"
        /\ \/ SupGoto(c, "rejected")
           \/ SupGoto(c, "send") /\ ~\E i \in DOMAIN log[Home] : log[Home][i].id = IdOf[c]
    BY <1>5, Zenon DEF requireNewMessageID
  <2>2. /\ sup'[c].pc \in {"rejected", "send"} /\ \A d \in Call : d # c => sup'[d] = sup[d]
        /\ sup'[c].pc = "send" => ~Has(IdOf[c]) /\ sup'[c].run = sup[c].run /\ sup'[c].dup = sup[c].dup
    BY <2>1, SupGotoEffect, Zenon DEF Returned, Has
  <2>3. CallMoves(c)
    BY <1>1, <2>1, <2>2, Zenon DEF CallMoves, Returned
  <2>4. CallIn(c)'
    BY <1>1, <2>1, <2>2, Zenon DEF CallIn, InflightPc
  <2>5. CallKnows(c)'
    BY <1>1, <2>1, <2>2, Zenon DEF CallKnows
  <2> QED  BY <2>3, <2>4, <2>5, CallAnswers, Zenon
<1>6. CASE Send(c)
  <2>1. /\ sup[c].pc = "send" /\ sup[c].dup \in BOOLEAN
        /\ \/ SupGoto(c, "rejected") \/ (sup[c].dup /\ SupGoto(c, "accepted"))
           \/ ~sup[c].dup /\ SupGoto(c, "handoff")
    BY <1>2, <1>6, Zenon DEF Send, SupRecord
  <2>2. /\ \/ sup'[c].pc = "rejected" \/ (sup[c].dup /\ sup'[c].pc = "accepted")
           \/ ~sup[c].dup /\ sup'[c].pc = "handoff" /\ sup'[c].run = sup[c].run
        /\ \A d \in Call : d # c => sup'[d] = sup[d]
    BY <2>1, SupGotoEffect, Zenon DEF Returned
  <2>3. CallMoves(c)
    BY <1>1, <2>1, <2>2, Zenon DEF CallMoves, Returned
  <2>4. CallIn(c)'
    BY <1>1, <2>1, <2>2, Zenon DEF CallIn, InflightPc
  <2>5. CallKnows(c)'
    BY <1>1, <2>1, <2>2, Zenon DEF CallKnows
  <2> QED  BY <2>3, <2>4, <2>5, CallAnswers, Zenon
<1> QED  BY <1>3, <1>4, <1>5, <1>6, Zenon

\* An accepted call leaves its input to the drain.
LEMMA leaveAnswers == ASSUME IInv, Answers, NEW c \in Call, leave(c) PROVE Answers'
<1> DEFINE r == sup[c].run
<1>1. /\ UNCHANGED <<log, sess>> /\ CallIn(c) /\ CallKnows(c)
      /\ \A s \in Run : \A id \in run[s].ids : Has(id)
      /\ \A id : Has(id)' <=> Has(id)
      /\ sup[c].pc \in {"recorded", "unrecorded"}
  BY Zenon DEF leave, SupVars, Answers, Has
<1>2. r \in Run /\ run[r] \in RunRecord
  BY <1>1, Zenon DEF CallIn, InflightPc, IInv, Types
<1>3. /\ sup'[c].pc = IF sup[c].pc = "recorded" THEN "accepted" ELSE "failed"
      /\ \A d \in Call : d # c => sup'[d] = sup[d]
  BY SupGotoEffect, Zenon DEF leave
<1>4. ASSUME NEW s \in Run
      PROVE  /\ run'[s].pc = run[s].pc /\ run'[s].key = run[s].key /\ run'[s].sealed = run[s].sealed
             /\ \A id \in run'[s].ids : Has(id)
  <2> DEFINE R == [run[r] EXCEPT !.ids = @ \cup {IdOf[c]}]
  <2>1. R.pc = run[r].pc /\ R.key = run[r].key /\ R.sealed = run[r].sealed
        /\ R.ids = run[r].ids \cup {IdOf[c]}
    BY <1>2, Zenon DEF RunRecord
  <2>2. \/ sup[c].pc = "recorded" /\ run' = [run EXCEPT ![r] = R]
        \/ run' = run
    BY Zenon DEF leave
  <2> HIDE DEF R, r
  <2>3. sup[c].pc = "recorded" => Has(IdOf[c])
    BY <1>1, Zenon DEF CallKnows
  <2>4. run \in [Run -> RunRecord]
    BY Zenon DEF IInv, Types
  <2>5. CASE sup[c].pc = "recorded" /\ run' = [run EXCEPT ![r] = R]
    <3>1. run'[s] = IF s = r THEN R ELSE run[s]
      BY <2>4, <2>5, Zenon
    <3> QED  BY <1>1, <1>2, <2>1, <2>3, <2>5, <3>1, Zenon
  <2>6. CASE run' = run
    BY <1>1, <2>6, Zenon
  <2> QED  BY <2>2, <2>5, <2>6, Zenon
<1>5. CallMoves(c)
  BY <1>1, <1>3, <1>4, Zenon DEF CallMoves, Returned
<1>6. CallIn(c)' /\ CallKnows(c)'
  BY <1>1, <1>3, Zenon DEF CallIn, CallKnows, InflightPc
<1> QED  BY <1>5, <1>6, CallAnswers, Zenon

\* The only call that could have recorded the same ID has returned, or has not begun.
LEMMA OnlyCall ==
  ASSUME Sequential, Turns, NEW c \in Call, NEW d \in Call, c # d, IdOf[d] = IdOf[c],
         sup[c].pc \notin {"idle"} \cup Returned
  PROVE  sup[d].pc \in {"idle"} \cup Returned
<1>1. RetryOf[c] = d \/ RetryOf[d] = c
  BY Zenon DEF Sequential
<1>2. c # None /\ d # None
  BY SessionAssumption, Zenon
<1> QED  BY <1>1, <1>2, Zenon DEF Turns

\* The drain records the input of a call once: its ID is claimed and not recorded.
LEMMA RecordSupplementAnswers ==
  ASSUME IInv, Answers, Sequential, NEW r \in Run, NEW c \in Call, RecordSupplement(r, c)
  PROVE  Answers'
<1>1. /\ sup[c].pc = "handoff" /\ sup[c].run = r /\ UNCHANGED sess
      /\ run[r].pc \in {"drain", "sealing"} /\ record(r, run[r], "supplement", IdOf[c])
      /\ CallIn(c) /\ CallKnows(c) /\ Live /\ Turns /\ Single /\ Claimed
      /\ \A s \in Run : \A id \in run[s].ids : Has(id)
  BY Zenon DEF RecordSupplement, Answers
<1>2. /\ run[r] \in RunRecord /\ run[r].key = Home /\ IdOf[c] \in Id /\ "supplement" \in Kind
      /\ run \in [Run -> RunRecord]
  BY <1>1, Zenon DEF CallIn, InflightPc, IInv, Types, Id, Kind
<1>3. \A s \in Run : /\ run'[s].pc = run[s].pc /\ run'[s].key = run[s].key
                     /\ run'[s].sealed = run[s].sealed /\ run'[s].ids = run[s].ids
  BY <1>1, <1>2, RecordEffect
<1> DEFINE q == IF run[r].failed \/ run'[r].failed THEN "unrecorded" ELSE "recorded"
<1>4. /\ sup'[c].pc = q /\ sup'[c].run = r /\ \A d \in Call : d # c => sup'[d] = sup[d]
  <2>1. sup \in [Call -> SupRecord] /\ sup[c] \in SupRecord
    BY Zenon DEF IInv, Types, SupRecord
  <2>2. sup' = [sup EXCEPT ![c] = [sup[c] EXCEPT !.pc = q]]
    BY Zenon DEF RecordSupplement
  <2> HIDE DEF q
  <2> QED  BY <1>1, <2>1, <2>2, Zenon DEF SupRecord
<1>5. CASE UNCHANGED log /\ (run[r].failed \/ recordFailed(r, run[r]))
  <2> DEFINE F == [run[r] EXCEPT !.failed = TRUE, !.stopped = TRUE]
  <2>1. F.failed
    BY <1>2, Zenon DEF RunRecord
  <2>2. run[r].failed \/ run' = [run EXCEPT ![r] = F]
    BY <1>5, Zenon DEF recordFailed
  <2> HIDE DEF F
  <2>3. q = "unrecorded"
    BY <1>2, <2>1, <2>2, Zenon
  <2> HIDE DEF q
  <2>4. CallMoves(c)
    BY <1>1, <1>3, <1>4, <1>5, <2>3, Zenon DEF CallMoves, Returned
  <2>5. CallIn(c)' /\ CallKnows(c)'
    BY <1>1, <1>3, <1>4, <2>3 DEF CallIn, CallKnows, InflightPc
  <2> QED  BY <2>4, <2>5, CallAnswers, Zenon
<1>6. CASE ~run[r].failed /\ Append1(Home, "supplement", r, IdOf[c]) /\ run' = [run EXCEPT ![r] = run[r]]
  <2> DEFINE e == [kind |-> "supplement", run |-> r, id |-> IdOf[c]]
             h == log[Home]
             g == log'[Home]
  <2>1. h \in Seq(Entry) /\ e \in Entry /\ Home \in Key /\ log \in [Key -> Seq(Entry)]
    BY <1>2, SessionAssumption, Zenon DEF IInv, Types, Entry
  <2>2. e.kind = "supplement" /\ e.id = IdOf[c] /\ g = Append(h, e)
    BY <1>6, <2>1, Zenon DEF Append1
  <2> HIDE DEF e
  <2>3. /\ DOMAIN h = 1 .. Len(h) /\ DOMAIN g = 1 .. Len(h) + 1 /\ Len(h) \in Nat
        /\ g[Len(h) + 1] = e /\ \A i \in 1 .. Len(h) : g[i] = h[i]
    BY <2>1, <2>2, AppendFacts
  <2>4. sup'[c].pc = "recorded"
    BY <1>2, <1>4, <1>6, Zenon
  <2> HIDE DEF q, h, g
  <2>5. \A id : Has(id)' <=> Has(id) \/ id = IdOf[c]
    <3>1. \A id : Has(id)' <=> \E i \in DOMAIN g : g[i].kind = "supplement" /\ g[i].id = id
      BY Zenon DEF Has, g
    <3>2. \A id : Has(id) <=> \E i \in DOMAIN h : h[i].kind = "supplement" /\ h[i].id = id
      BY Zenon DEF Has, h
    <3> QED  BY <2>2, <2>3, <3>1, <3>2
  <2>6. ~Has(IdOf[c])
    BY <1>1, Zenon DEF CallKnows
  <2>7. Single'
    <3> SUFFICES ASSUME NEW i \in DOMAIN g, NEW j \in DOMAIN g, g[i].kind = "supplement",
                        g[j].kind = "supplement", g[i].id = g[j].id
                 PROVE  i = j
      BY Zenon DEF Single, g
    <3>1. \A m \in DOMAIN h : h[m].kind = "supplement" => h[m].id # IdOf[c]
      BY <2>6, Zenon DEF Has, h
    <3>2. \A m, n \in DOMAIN h : h[m].kind = "supplement" /\ h[n].kind = "supplement"
                                 /\ h[m].id = h[n].id => m = n
      BY <1>1, Zenon DEF Single, h
    <3> QED  BY <2>2, <2>3, <3>1, <3>2
  <2>8. Claimed'
    <3> SUFFICES ASSUME NEW i \in DOMAIN g, g[i].kind = "supplement"
                 PROVE  \E d \in Call : IdOf[d] = g[i].id /\ sup'[d].pc \in {"recorded", "accepted", "gone"}
      BY Zenon DEF Claimed, g
    <3>1. CASE i = Len(h) + 1
      BY <2>2, <2>3, <2>4, <3>1, Zenon
    <3>2. CASE i \in DOMAIN h
      <4>1. PICK d \in Call : IdOf[d] = h[i].id /\ sup[d].pc \in {"recorded", "accepted", "gone"}
        BY <1>1, <2>3, <3>2, Zenon DEF Claimed, h
      <4> QED  BY <1>1, <1>4, <2>3, <3>2, <4>1, Zenon
    <3> QED  BY <2>3, <3>1, <3>2
  <2>9. ASSUME NEW d \in Call PROVE CallIn(d)' /\ CallKnows(d)'
    <3>1. CASE d = c
      BY <1>1, <1>3, <1>4, <2>4, <2>5, <3>1 DEF CallIn, CallKnows, InflightPc
    <3>2. CASE d # c
      <4>1. CallIn(d) /\ CallKnows(d)
        BY Zenon DEF Answers
      <4>2. CallIn(d)'
        BY <1>3, <1>4, <3>2, <4>1 DEF CallIn
      <4>3. IdOf[d] = IdOf[c] => sup[d].pc \in {"idle"} \cup Returned
        BY <1>1, <3>2, OnlyCall, Zenon DEF Returned
      <4>4. CallKnows(d)'
        BY <1>4, <2>5, <3>2, <4>1, <4>3, Zenon DEF CallKnows, Returned
      <4> QED  BY <4>2, <4>4, Zenon
    <3> QED  BY <3>1, <3>2, Zenon
  <2>10. Live'
    BY <1>1, <1>3, AsideLive, Zenon
  <2>11. Turns'
    <3> SUFFICES ASSUME NEW d \in Call, RetryOf[d] # None, sup'[d].pc # "idle"
                 PROVE  sup'[RetryOf[d]].pc \in Returned
      BY Zenon DEF Turns
    <3>1. RetryOf[d] \in Call
      BY SessionAssumption, Zenon
    <3>2. sup[RetryOf[d]].pc \in Returned
      BY <1>1, <1>4, Zenon DEF Turns
    <3> QED  BY <1>1, <1>4, <3>1, <3>2, Zenon DEF Returned
  <2>12. \A s \in Run : \A id \in run'[s].ids : Has(id)'
    BY <1>1, <1>3, <2>5, Zenon
  <2> QED  BY <2>7, <2>8, <2>9, <2>10, <2>11, <2>12, Zenon DEF Answers
<1> QED  BY <1>1, <1>2, <1>5, <1>6, Zenon DEF record, recordFailed

\* After a crash no run is live.
LEMMA CrashLive == ASSUME Crash PROVE Live'
<1>1. /\ sess' = NewSession
      /\ \A s \in Run : run'[s] = IF InProgress(s) THEN [NewRun EXCEPT !.pc = "gone"] ELSE run[s]
  BY Zenon DEF Crash
<1>2. [NewRun EXCEPT !.pc = "gone"].pc = "gone"
  BY Zenon DEF NewRun
<1> QED  BY <1>1, <1>2, Zenon DEF NewSession, Live, LivePc, InProgress

\* A call that had not returned when the host died promised nothing.
LEMMA CrashAnswers == ASSUME IInv, Answers, Crash PROVE Answers'
<1>1. /\ UNCHANGED log /\ sess' = NewSession
      /\ \A s \in Run : run'[s] = IF InProgress(s) THEN [NewRun EXCEPT !.pc = "gone"] ELSE run[s]
      /\ \A c \in Call : sup'[c] = IF sup[c].pc \in {"idle"} \cup Returned
                                   THEN sup[c] ELSE [NewSup EXCEPT !.pc = "gone"]
  BY Zenon DEF Crash
<1>2. [NewRun EXCEPT !.pc = "gone"].pc = "gone" /\ [NewRun EXCEPT !.pc = "gone"].ids = {}
  BY Zenon DEF NewRun
<1>3. [NewSup EXCEPT !.pc = "gone"].pc = "gone"
  BY Zenon DEF NewSup
<1>4. \A id : Has(id)' <=> Has(id)
  BY <1>1, Zenon DEF Has
<1>5. Live'
  BY CrashLive, Zenon
<1>6. \A c \in Call : CallIn(c)' /\ CallKnows(c)'
  BY <1>1, <1>3, <1>4, Zenon DEF Answers, CallIn, CallKnows, InflightPc, Returned
<1>7. Turns'
  BY <1>1, <1>3, SessionAssumption DEF Answers, Turns, Returned
<1>8. Single' /\ Claimed'
  BY <1>1, <1>3, SameLog, InputKept, Zenon DEF Answers, Returned
<1>9. \A s \in Run : \A id \in run'[s].ids : Has(id)'
  BY <1>1, <1>2, <1>4, Zenon DEF Answers
<1> QED  BY <1>5, <1>6, <1>7, <1>8, <1>9, Zenon DEF Answers

\* Streams that end, cancellations and disconnects leave every run where it is.
LEMMA MarkEffect ==
  ASSUME IInv, NEW r \in Run, StreamEnds(r) \/ Disconnect(r)
  PROVE  /\ UNCHANGED <<log, sup, sess, shutdown, cancel>>
         /\ \A s \in Run : /\ run'[s].pc = run[s].pc /\ run'[s].key = run[s].key
                           /\ run'[s].sealed = run[s].sealed /\ run'[s].ids = run[s].ids
<1> DEFINE F == [run[r] EXCEPT !.stream = "finished"]
           C == [run[r] EXCEPT !.cancelled = TRUE]
<1>1. run[r] \in RunRecord /\ run \in [Run -> RunRecord]
  BY Zenon DEF IInv, Types
<1>2. \A R \in {F, C} : R.pc = run[r].pc /\ R.key = run[r].key /\ R.sealed = run[r].sealed /\ R.ids = run[r].ids
  BY <1>1, Zenon DEF RunRecord
<1>3. UNCHANGED <<log, sup, sess, shutdown, cancel>> /\ \E R \in {F, C} : run' = [run EXCEPT ![r] = R]
  BY Zenon DEF StreamEnds, Disconnect, OtherActors
<1> HIDE DEF F, C
<1> QED  BY <1>1, <1>2, <1>3, Zenon

\* Shutdown and Cancel move no run.
LEMMA StopEffect ==
  ASSUME IInv, Shutdown \/ \E c \in Canceller : Cancel(c)
  PROVE  /\ UNCHANGED <<log, sup>> /\ sess'.live = sess.live /\ sess'.running = sess.running
         /\ \A s \in Run : /\ run'[s].pc = run[s].pc /\ run'[s].key = run[s].key
                           /\ run'[s].sealed = run[s].sealed /\ run'[s].ids = run[s].ids
<1>1. run \in [Run -> RunRecord] /\ sess \in SessionRecord /\ sess.runs[Home] \in Run \cup {None}
  BY SessionAssumption, Zenon DEF IInv, Types, SessionRecord
<1>2. sess'.live = sess.live /\ sess'.running = sess.running
  <2> DEFINE d == IF sess.running = 0 THEN sess.shutdownDone + 1 ELSE sess.shutdownDone
  <2>1. sess' = sess \/ sess' = [sess EXCEPT !.closed = TRUE, !.shutdownDone = d]
    BY Zenon DEF Shutdown, Cancel
  <2> HIDE DEF d
  <2> QED  BY <1>1, <2>1, Zenon DEF SessionRecord
<1>3. ASSUME NEW s \in Run
      PROVE  /\ run'[s].pc = run[s].pc /\ run'[s].key = run[s].key
             /\ run'[s].sealed = run[s].sealed /\ run'[s].ids = run[s].ids
  <2> DEFINE C == [run[s] EXCEPT !.cancelled = TRUE]
  <2>1. C.pc = run[s].pc /\ C.key = run[s].key /\ C.sealed = run[s].sealed /\ C.ids = run[s].ids
    BY <1>1, Zenon DEF RunRecord
  <2>2. run'[s] \in {run[s], C}
    BY <1>1, Zenon DEF Shutdown, Cancel
  <2> HIDE DEF C
  <2> QED  BY <2>1, <2>2, Zenon
<1> QED  BY <1>2, <1>3, Zenon DEF Shutdown, Cancel

\* One case for each step.
LEMMA AnswersStep == ASSUME IInv, Answers, Sequential, [Next]_vars PROVE Answers'
<1>0. Live
  BY Zenon DEF Answers
<1>1. ASSUME NEW r \in Run, admit(r) \/ Admission(r) PROVE Answers'
  BY <1>0, <1>1, admitStep, AdmissionStep, StepAnswers, Zenon
<1>2. ASSUME NEW r \in Run, Drain(r) \/ DrainEvent(r) PROVE Answers'
  <2>1. CASE \E c \in Call : RecordSupplement(r, c)
    BY <2>1, RecordSupplementAnswers, Zenon
  <2>2. CASE ~\E c \in Call : RecordSupplement(r, c)
    BY <1>0, <1>2, <2>2, openLiveStep, RecordingStep, sealStep, closeLiveStep, ReleaseStep,
       finishAdmissionStep, StepAnswers, Zenon DEF Drain
  <2> QED  BY <2>1, <2>2, Zenon
<1>3. ASSUME NEW r \in Run, StreamEnds(r) \/ Disconnect(r) PROVE Answers'
  BY <1>3, MarkEffect, AsideAnswers, Zenon
<1>4. ASSUME NEW c \in Call, LookupLive(c) \/ Supplement(c) PROVE Answers'
  BY <1>4, AskAnswers, leaveAnswers, Zenon DEF Supplement
<1>5. CASE \/ \E o \in Reader : ReaderComesAndGoes(o) \/ Read(o)
           \/ \E c \in Canceller : CancelReturns(c)
           \/ ShutdownReturns \/ UNCHANGED vars
  <2>1. UNCHANGED <<log, sup, sess, run>>
    BY <1>5, Zenon DEF ReaderComesAndGoes, Read, CancelReturns, ShutdownReturns, vars
  <2> QED  BY <2>1, AsideAnswers, Zenon
<1>6. CASE Shutdown \/ \E c \in Canceller : Cancel(c)
  BY <1>6, StopEffect, AsideAnswers, Zenon
<1>7. CASE Crash
  BY <1>7, CrashAnswers, Zenon
<1> QED  BY <1>1, <1>2, <1>3, <1>4, <1>5, <1>6, <1>7, Zenon DEF Next

-----------------------------------------------------------------------------
(* The count of runs. *)

\* The runs in progress are finitely many.
LEMMA BusyFinite == IsFiniteSet(Busy)
BY SessionAssumption, FS_Subset, Zenon DEF Busy

\* What Counted says of the session's counters.
LEMMA CountFacts ==
  ASSUME IInv, Counted
  PROVE  /\ sess.running \in Nat /\ sess.shutdownDone \in Nat /\ sess.closed \in BOOLEAN
         /\ sess.closed <=> shutdown # "no"
         /\ sess.shutdownDone = IF sess.closed /\ sess.running = 0 THEN 1 ELSE 0
         /\ shutdown = "returned" => sess.shutdownDone = 1
BY BusyFinite, FS_CardinalityType DEF IInv, Counted, Types, SessionRecord

\* A run that is over stays over, so a Cancel that returned stays right.
LEMMA ReturnsKept ==
  ASSUME IInv, Counted, UNCHANGED cancel,
         \A s \in Run : run[s].pc = "over" => run'[s].pc = "over"
  PROVE  \A c \in Canceller : cancel'[c].pc = "returned" /\ cancel'[c].run # None =>
           run'[cancel'[c].run].pc = "over"
BY Zenon DEF IInv, Types, Counted

\* A step that neither starts nor ends a run keeps the count.
LEMMA CountKept ==
  ASSUME IInv, Counted, sess'.running = sess.running, sess'.closed = sess.closed,
         sess'.shutdownDone = sess.shutdownDone, UNCHANGED <<shutdown, cancel>>,
         \A s \in Run : /\ InProgress(s)' <=> InProgress(s)
                        /\ run[s].pc = "over" => run'[s].pc = "over"
  PROVE  Counted'
<1>1. Busy' = Busy
  BY Zenon DEF Busy
<1> QED  BY <1>1, ReturnsKept, Zenon DEF Counted

\* Such a step of a run.
LEMMA StepCounts == ASSUME IInv, Counted, NEW r \in Run, Step(r), SameCount(r) PROVE Counted'
<1>1. \A s \in Run : /\ InProgress(s)' <=> InProgress(s)
                     /\ run[s].pc = "over" => run'[s].pc = "over"
  BY Zenon DEF Step, Moves, SameCount, InProgress
<1> QED  BY <1>1, CountKept, Zenon DEF SameCount

\* Such a step of anybody else.
LEMMA AsideCounts ==
  ASSUME IInv, Counted, UNCHANGED <<sess, shutdown, cancel>>, \A s \in Run : run'[s].pc = run[s].pc
  PROVE  Counted'
BY CountKept, Zenon DEF InProgress

\* Admission adds one run to the set and one to the count.
LEMMA admitCounts == ASSUME IInv, Counted, NEW r \in Run, admit(r) PROVE Counted'
<1>1. run[r].pc = "idle" /\ UNCHANGED <<shutdown, cancel>> /\ sess \in SessionRecord
  BY Zenon DEF admit, OtherActors, IInv, Types
<1>2. CASE Goto(r, "refused") /\ UNCHANGED sess
  <2>1. \A s \in Run : /\ InProgress(s)' <=> InProgress(s)
                       /\ run[s].pc = "over" => run'[s].pc = "over"
    BY <1>1, <1>2, PcEffect, Zenon DEF InProgress
  <2> QED  BY <1>1, <1>2, <2>1, CountKept, Zenon
<1>3. CASE ~sess.closed /\ Goto(r, "reserve") /\ sess' = [sess EXCEPT !.running = @ + 1]
  <2>1. run'[r].pc = "reserve" /\ \A s \in Run : s # r => run'[s] = run[s]
    BY <1>3, PcEffect, Zenon
  <2>2. /\ sess'.running = sess.running + 1 /\ sess'.closed = sess.closed
        /\ sess'.shutdownDone = sess.shutdownDone
    BY <1>1, <1>3, Zenon DEF SessionRecord
  <2>3. Busy' = Busy \cup {r} /\ r \notin Busy
    BY <1>1, <2>1, Zenon DEF Busy, InProgress
  <2>4. Cardinality(Busy)' = Cardinality(Busy) + 1
    BY <2>3, BusyFinite, FS_AddElement, Zenon
  <2>5. ~sess'.closed /\ sess'.shutdownDone = 0 /\ shutdown' = "no"
    BY <1>1, <1>3, <2>2, CountFacts, Zenon
  <2>6. \A s \in Run : run[s].pc = "over" => run'[s].pc = "over"
    BY <1>1, <2>1, Zenon
  <2> QED  BY <1>1, <2>2, <2>4, <2>5, <2>6, ReturnsKept, Zenon DEF Counted
<1> QED  BY <1>2, <1>3, Zenon DEF admit

\* The last run to finish after Shutdown closes the channel, once.
LEMMA finishAdmissionCounts == ASSUME IInv, Counted, NEW r \in Run, finishAdmission(r) PROVE Counted'
<1>1. Busy' = Busy \ {r} /\ r \in Busy
  BY finishAdmissionEffect DEF Busy, InProgress
<1>2. Cardinality(Busy)' = Cardinality(Busy) - 1 /\ Cardinality(Busy)' \in Nat
  BY <1>1, BusyFinite, FS_RemoveElement, FS_CardinalityType, Zenon
<1>3. sess.running = Cardinality(Busy)
  BY Zenon DEF Counted
<1>4. /\ sess'.running = sess.running - 1 /\ sess'.running = Cardinality(Busy)' /\ sess'.running \in Nat
      /\ sess'.closed = sess.closed /\ shutdown' = shutdown
      /\ sess'.shutdownDone =
           IF sess.closed /\ sess.running = 1 THEN sess.shutdownDone + 1 ELSE sess.shutdownDone
  BY <1>2, <1>3, finishAdmissionEffect
<1>5. /\ sess'.shutdownDone = IF sess'.closed /\ sess'.running = 0 THEN 1 ELSE 0
      /\ shutdown # "returned"
  BY <1>4, CountFacts
<1>6. \A s \in Run : run[s].pc = "over" => run'[s].pc = "over"
  BY finishAdmissionEffect, Zenon
<1>7. UNCHANGED cancel /\ (sess.closed <=> shutdown # "no")
  BY finishAdmissionEffect, CountFacts, Zenon
<1> QED  BY <1>4, <1>5, <1>6, <1>7, ReturnsKept, Zenon DEF Counted

\* Shutdown closes the channel itself when nothing is in progress.
LEMMA StopCounts == ASSUME IInv, Counted, Shutdown \/ ShutdownReturns PROVE Counted'
<1>1. CASE Shutdown
  <2> DEFINE d == IF sess.running = 0 THEN sess.shutdownDone + 1 ELSE sess.shutdownDone
  <2>1. /\ shutdown = "no" /\ shutdown' = "waiting" /\ UNCHANGED cancel /\ sess \in SessionRecord
        /\ sess' = [sess EXCEPT !.closed = TRUE, !.shutdownDone = d]
    BY <1>1, Zenon DEF Shutdown, IInv, Types
  <2>2. d = IF sess.running = 0 THEN 1 ELSE 0
    BY <2>1, CountFacts
  <2> HIDE DEF d
  <2>3. sess'.closed /\ sess'.shutdownDone = d /\ sess'.running = sess.running
    BY <2>1, Zenon DEF SessionRecord
  <2>4. \A s \in Run : run'[s].pc = run[s].pc
    BY <1>1, StopEffect, Zenon
  <2>5. Busy' = Busy
    BY <2>4, Zenon DEF Busy, InProgress
  <2> QED  BY <2>1, <2>2, <2>3, <2>4, <2>5, ReturnsKept, Zenon DEF Counted
<1>2. CASE ShutdownReturns
  <2>1. UNCHANGED <<sess, run, cancel>> /\ sess.shutdownDone > 0 /\ shutdown = "waiting"
        /\ shutdown' = "returned"
    BY <1>2, Zenon DEF ShutdownReturns
  <2>2. Busy' = Busy
    BY <2>1, Zenon DEF Busy, InProgress
  <2>3. sess.shutdownDone = 1 /\ sess.closed
    BY <2>1, CountFacts
  <2> QED  BY <2>1, <2>2, <2>3, Zenon DEF Counted
<1> QED  BY <1>1, <1>2, Zenon

\* Cancel waits for the run it found.
LEMMA CancelCounts ==
  ASSUME IInv, Counted, NEW c \in Canceller, Cancel(c) \/ CancelReturns(c) PROVE Counted'
<1> DEFINE CancelRecord == [pc : {"idle", "waiting", "returned", "gone"}, run : Run \cup {None}]
<1>1. cancel \in [Canceller -> CancelRecord] /\ UNCHANGED <<sess, shutdown>>
  BY Zenon DEF IInv, Types, Cancel, CancelReturns
<1>2. \A s \in Run : run'[s].pc = run[s].pc
  BY StopEffect, Zenon DEF CancelReturns
<1>3. Busy' = Busy
  BY <1>2, Zenon DEF Busy, InProgress
<1>4. /\ \A d \in Canceller : d # c => cancel'[d] = cancel[d]
      /\ cancel'[c].pc = "returned" /\ cancel'[c].run # None =>
           cancel'[c].run \in Run /\ run[cancel'[c].run].pc = "over"
  <2>1. CASE Cancel(c)
    BY <1>1, <2>1, Zenon DEF Cancel
  <2>2. CASE CancelReturns(c)
    <3>1. cancel[c] \in CancelRecord /\ cancel' = [cancel EXCEPT ![c] = [cancel[c] EXCEPT !.pc = "returned"]]
          /\ run[cancel[c].run].pc = "over"
      BY <1>1, <2>2, Zenon DEF CancelReturns
    <3>2. [cancel[c] EXCEPT !.pc = "returned"].run = cancel[c].run
      BY <3>1, Zenon
    <3> QED  BY <1>1, <3>1, <3>2, Zenon
  <2> QED  BY <2>1, <2>2, Zenon
<1>5. ASSUME NEW d \in Canceller, cancel'[d].pc = "returned", cancel'[d].run # None
      PROVE  run'[cancel'[d].run].pc = "over"
  <2>1. cancel'[d].run \in Run /\ run[cancel'[d].run].pc = "over"
    BY <1>1, <1>4, <1>5 DEF Counted
  <2> QED  BY <1>2, <2>1, Zenon
<1> QED  BY <1>1, <1>3, <1>5, Zenon DEF Counted

\* A new process counts from nothing.
LEMMA CrashCounts == ASSUME IInv, Counted, Crash PROVE Counted'
<1>1. /\ sess' = NewSession /\ shutdown' = "no"
      /\ \A s \in Run : run'[s] = IF InProgress(s) THEN [NewRun EXCEPT !.pc = "gone"] ELSE run[s]
      /\ \A c \in Canceller : cancel'[c] = IF cancel[c].pc = "waiting"
                                           THEN [pc |-> "gone", run |-> None] ELSE cancel[c]
  BY Zenon DEF Crash
<1>2. [NewRun EXCEPT !.pc = "gone"].pc = "gone"
  BY Zenon DEF NewRun
<1>3. Busy' = {}
  BY <1>1, <1>2, Zenon DEF Busy, InProgress
<1>4. sess'.running = 0 /\ ~sess'.closed /\ sess'.shutdownDone = 0
  BY <1>1, Zenon DEF NewSession
<1>5. \A c \in Canceller : cancel'[c].pc = "returned" /\ cancel'[c].run # None =>
        run'[cancel'[c].run].pc = "over"
  BY <1>1 DEF IInv, Types, Counted, InProgress
<1> QED  BY <1>1, <1>3, <1>4, <1>5, FS_EmptySet, Zenon DEF Counted

\* One case for each step.
LEMMA CountedStep == ASSUME IInv, Live, Counted, [Next]_vars PROVE Live' /\ Counted'
<1>1. ASSUME NEW r \in Run, admit(r) \/ Admission(r) PROVE Live' /\ Counted'
  BY <1>1, admitStep, admitCounts, AdmissionStep, StepLive, StepCounts, Zenon DEF Step
<1>2. ASSUME NEW r \in Run, Drain(r) \/ DrainEvent(r) PROVE Live' /\ Counted'
  <2>1. ASSUME NEW c \in Call, RecordSupplement(r, c) PROVE Live' /\ Counted'
    <3>1. /\ UNCHANGED <<sess, shutdown, cancel>> /\ record(r, run[r], "supplement", IdOf[c])
          /\ run[r] \in RunRecord /\ IdOf[c] \in Id /\ "supplement" \in Kind
      BY <2>1, Zenon DEF RecordSupplement, OtherActors, IInv, Types, Id, Kind
    <3>2. \A s \in Run : /\ run'[s].pc = run[s].pc /\ run'[s].key = run[s].key
                         /\ run'[s].sealed = run[s].sealed
      BY <3>1, RecordEffect, Zenon
    <3> QED  BY <3>1, <3>2, AsideLive, AsideCounts, Zenon
  <2>2. CASE finishAdmission(r)
    BY <2>2, finishAdmissionStep, finishAdmissionCounts, StepLive, Zenon DEF Step
  <2>3. CASE ~finishAdmission(r) /\ ~\E c \in Call : RecordSupplement(r, c)
    <3>1. Step(r) /\ SameCount(r)
      BY <1>2, <2>3, openLiveStep, RecordingStep, sealStep, closeLiveStep, ReleaseStep, Zenon DEF Drain
    <3> QED  BY <3>1, StepLive, StepCounts, Zenon DEF Step
  <2> QED  BY <2>1, <2>2, <2>3, Zenon
<1>3. ASSUME NEW r \in Run, StreamEnds(r) \/ Disconnect(r) PROVE Live' /\ Counted'
  BY <1>3, MarkEffect, AsideLive, AsideCounts, Zenon
<1>4. ASSUME NEW c \in Call, LookupLive(c) \/ Supplement(c) PROVE Live' /\ Counted'
  <2>1. UNCHANGED <<sess, shutdown, cancel>>
    BY <1>4, Zenon DEF LookupLive, Supplement, enter, requireNewMessageID, Send, leave, SupVars, OtherActors
  <2>2. ASSUME NEW s \in Run
        PROVE  run'[s].pc = run[s].pc /\ run'[s].key = run[s].key /\ run'[s].sealed = run[s].sealed
    <3> DEFINE R == [run[s] EXCEPT !.ids = @ \cup {IdOf[c]}]
    <3>1. /\ run \in [Run -> RunRecord]
          /\ R.pc = run[s].pc /\ R.key = run[s].key /\ R.sealed = run[s].sealed
      BY DEF IInv, Types, RunRecord
    <3>2. run'[s] \in {run[s], R}
      BY <1>4, <3>1, Zenon DEF LookupLive, Supplement, enter, requireNewMessageID, Send, leave
    <3> HIDE DEF R
    <3> QED  BY <3>1, <3>2, Zenon
  <2> QED  BY <2>1, <2>2, AsideLive, AsideCounts, Zenon
<1>5. CASE (\E o \in Reader : ReaderComesAndGoes(o) \/ Read(o)) \/ UNCHANGED vars
  <2>1. UNCHANGED <<sess, shutdown, cancel, run>>
    BY <1>5, Zenon DEF ReaderComesAndGoes, Read, vars
  <2> QED  BY <2>1, AsideLive, AsideCounts, Zenon
<1>6. ASSUME NEW c \in Canceller, Cancel(c) \/ CancelReturns(c) PROVE Live' /\ Counted'
  <2>1. UNCHANGED <<sess, run>> \/ Cancel(c)
    BY <1>6, Zenon DEF CancelReturns
  <2> QED  BY <1>6, <2>1, CancelCounts, StopEffect, AsideLive, Zenon
<1>7. CASE Shutdown \/ ShutdownReturns
  <2>1. UNCHANGED <<sess, run>> \/ Shutdown
    BY <1>7, Zenon DEF ShutdownReturns
  <2> QED  BY <1>7, <2>1, StopCounts, StopEffect, AsideLive, Zenon
<1>8. CASE Crash
  BY <1>8, CrashLive, CrashCounts, Zenon
<1> QED  BY <1>1, <1>2, <1>3, <1>4, <1>5, <1>6, <1>7, <1>8, Zenon DEF Next

-----------------------------------------------------------------------------
(* The theorems. *)

\* A new session.
LEMMA CallsInit == ASSUME Init PROVE Live /\ Counted /\ Answers
<1>1. /\ \A s \in Run : run[s].pc = "idle" /\ run[s].ids = {}
      /\ \A c \in Call : sup[c].pc = "idle"
      /\ \A k \in Key : sess.live[k] = None
      /\ sess.running = 0 /\ ~sess.closed /\ sess.shutdownDone = 0 /\ shutdown = "no"
      /\ \A c \in Canceller : cancel[c].pc = "idle"
  BY Zenon DEF Init, NewRun, NewSup, NewSession
<1>2. log[Home] = <<>> /\ DOMAIN log[Home] = {}
  BY SessionAssumption DEF Init
<1>3. Live
  BY <1>1, Zenon DEF Live, LivePc
<1>4. Busy = {}
  BY <1>1, Zenon DEF Busy, InProgress
<1>5. Counted
  BY <1>1, <1>4, FS_EmptySet, Zenon DEF Counted
<1>6. \A c \in Call : CallIn(c) /\ CallKnows(c)
  BY <1>1, Zenon DEF CallIn, CallKnows, InflightPc
<1>7. Turns /\ Single /\ Claimed
  BY <1>1, <1>2, Zenon DEF Turns, Single, Claimed
<1> QED  BY <1>1, <1>3, <1>5, <1>6, <1>7, Zenon DEF Answers

\* running is the number of runs between admit and finishAdmission, and shutdownDone is
\* closed once, when Shutdown was called and that number is 0.
THEOREM RunsCounted == Spec => [](Live /\ Counted)
<1>1. IInv /\ Live /\ Counted /\ [Next]_vars => (Live /\ Counted)'
  BY CountedStep, Zenon
<1> QED  BY <1>1, CallsInit, SessionInvariant, PTL DEF Spec

\* When Cancel or Shutdown returns, the runs it waited for have recorded their terminals
\* or failed to, and shutdownDone is closed at most once (Session.finishAdmission,
\* Session.Shutdown, Session.Cancel).
THEOREM StopsSettled == Spec => []StopSettles
<1>1. IInv /\ Counted => StopSettles
  <2> SUFFICES ASSUME IInv, Counted PROVE StopSettles
    BY Zenon
  <2>1. sess.shutdownDone <= 1
    BY CountFacts
  <2>2. ASSUME NEW r \in Run, shutdown = "returned" PROVE ~InProgress(r)
    <3>1. sess.running = 0 /\ Cardinality(Busy) = 0
      BY <2>2, CountFacts DEF Counted
    <3>2. Busy = {}
      BY <3>1, BusyFinite, FS_EmptySet, Zenon
    <3> QED  BY <3>2, Zenon DEF Busy
  <2>3. ASSUME NEW r \in Run, NEW c \in Canceller, cancel[c] = [pc |-> "returned", run |-> r]
        PROVE  ~InProgress(r)
    <3>1. cancel[c].pc = "returned" /\ cancel[c].run = r /\ r # None
      BY <2>3, SessionAssumption
    <3> QED  BY <3>1, Zenon DEF Counted, InProgress
  <2>4. ASSUME NEW r \in Run, run[r].pc = "over", Begun(r) PROVE Recorded(r) \/ run[r].failed
    BY <2>4, Zenon DEF IInv, Settled, EndPc
  <2> QED  BY <2>1, <2>2, <2>3, <2>4, Zenon DEF StopSettles
<1> QED  BY <1>1, RunsCounted, SessionInvariant, PTL

\* When a client sends a message ID again only after the call before has returned, input
\* that Supplement accepted is in the recording exactly once, whatever the recorder, the
\* run's end and a restart do in between (liveRun.enter, requireNewMessageID,
\* recordSupplement, seal), and input that was only rejected is not.
THEOREM InputRecorded == ASSUME Sequential PROVE Spec => []AcceptedRecorded
<1>1. IInv /\ Answers /\ [Next]_vars => Answers'
  BY AnswersStep, Zenon
<1>2. Answers => AcceptedRecorded
  <2> SUFFICES ASSUME Answers, NEW c \in Call
               PROVE  /\ sup[c].pc = "accepted" => Occurs(c) = 1
                      /\ (\A d \in Call : IdOf[d] = IdOf[c] => sup[d].pc \in {"idle", "rejected"})
                           => Occurs(c) = 0
    BY Zenon DEF AcceptedRecorded
  <2> DEFINE S == {i \in DOMAIN log[Home] :
                     log[Home][i].kind = "supplement" /\ log[Home][i].id = IdOf[c]}
  <2>1. ASSUME sup[c].pc = "accepted" PROVE Occurs(c) = 1
    <3>1. Has(IdOf[c])
      BY <2>1, Zenon DEF Answers, CallKnows
    <3>2. PICK i \in S : TRUE
      BY <3>1, Zenon DEF Has
    <3>3. S = {i}
      BY <3>2, Zenon DEF Answers, Single
    <3> QED  BY <3>3, FS_Singleton, Zenon DEF Occurs
  <2>2. ASSUME \A d \in Call : IdOf[d] = IdOf[c] => sup[d].pc \in {"idle", "rejected"}
        PROVE  Occurs(c) = 0
    <3>1. S = {}
      BY <2>2, Zenon DEF Answers, Claimed
    <3> QED  BY <3>1, FS_EmptySet, Zenon DEF Occurs
  <2> QED  BY <2>1, <2>2, Zenon
<1> QED  BY <1>1, <1>2, CallsInit, SessionInvariant, PTL DEF Spec

=============================================================================
