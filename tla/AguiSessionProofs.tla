------------------------- MODULE AguiSessionProofs -------------------------
(***************************************************************************)
(* What the AG-UI session's recordings promise, for any keys, runs, calls, *)
(* readers and faults.                                                     *)
(*                                                                         *)
(* The argument: only the run that has a key's reservation appends to its  *)
(* recording, and between its boundary and its terminal the last record is *)
(* its own.  So a recording is a sequence of blocks, one per run, and a    *)
(* reader that sees a block followed by a boundary, or by nothing while    *)
(* the key is idle, knows that the block's run records nothing more.       *)
(***************************************************************************)
EXTENDS AguiSession, Integers, TLAPS

Kind == {"boundary", "user", "event", "supplement", "result", "done", "terminal"}
Id == {IdOf[c] : c \in Call} \cup Run \cup {"id", None}
Entry == [kind : Kind, run : Run, id : Id]

\* Where a run has its key's reservation; where it has no record; where it is past its
\* records; and where it has its boundary recorded and its terminal to come.
HoldPc == {"verify", "switch", "switching", "boundary", "publish", "start", "user", "drain",
           "sealing", "done", "terminal", "close", "release"}
FreshPc == {"idle", "refused", "reserve", "verify", "switch", "switching", "boundary"}
EndPc == {"close", "release", "finishing", "over", "gone"}
OpenPc == {"publish", "start", "user", "drain", "sealing", "done", "terminal"}
RunPc == HoldPc \cup {"idle", "refused", "reserve", "finishing", "over", "gone"}

SupPc == {"idle", "enter", "check", "send", "handoff", "recorded", "unrecorded"} \cup Returned
KeyState == [active : BOOLEAN, boundary : Nat, failed : BOOLEAN, revision : Nat]
RunRecord == [pc : RunPc, key : Key, cancelled : BOOLEAN, stream : {"none", "open", "finished"},
              stopped : BOOLEAN, events : Nat, bad : BOOLEAN, failed : BOOLEAN,
              sealed : BOOLEAN, ids : SUBSET Id]

SessionRecord == [closed : BOOLEAN, running : Int, shutdownDone : Nat,
                  runs : [Key -> Run \cup {None}], live : [Key -> Run \cup {None}]]

Types ==
  /\ log \in [Key -> Seq(Entry)]
  /\ state \in [Key -> KeyState]
  /\ sess \in SessionRecord
  /\ run \in [Run -> RunRecord]
  /\ sup \in [Call -> [pc : SupPc, run : Run \cup {None}, dup : BOOLEAN]]
  /\ cancel \in [Canceller -> [pc : {"idle", "waiting", "returned", "gone"}, run : Run \cup {None}]]
  /\ shutdown \in {"no", "waiting", "returned"}
  /\ rd = [o \in Reader |-> rd[o]] /\ \A o \in Reader : DOMAIN rd[o] = DOMAIN NewReader

\* A key's reservation is one run's.
Holds(r, k) == \/ run[r].pc \in HoldPc /\ run[r].key = k
               \/ run[r].pc = "switching" /\ FreshOf[r] = k
Reserved ==
  /\ \A r \in Run : \A k \in Key : Holds(r, k) => state[k].active
  /\ \A r, s \in Run : \A k \in Key : Holds(r, k) /\ Holds(s, k) => r = s
  /\ \A r \in Run : /\ run[r].pc \in {"switch", "switching"} => FreshOf[r] # None
                    /\ run[r].pc = "switching" => run[r].key # FreshOf[r]

\* A run that has not recorded its boundary has no record, and its ID is new.
Fresh ==
  \A r \in Run :
    /\ run[r].pc \in FreshPc => \A k \in Key : \A i \in DOMAIN log[k] : log[k][i].run # r
    /\ run[r].pc = "boundary" => ~Posted(run[r].key, runId(r))

\* The last record of a key whose run is open is that run's.
LastKinds(pc) ==
  CASE pc \in {"publish", "start", "user"} -> {"boundary"}
    [] pc \in {"drain", "sealing"} -> {"boundary", "user", "event", "supplement"}
    [] pc = "done" -> {"boundary", "user", "event", "supplement", "result"}
    [] OTHER -> {"boundary", "user", "event", "supplement", "result", "done"}
LastRecord ==
  \A r \in Run : run[r].pc \in OpenPc =>
    LET h == log[run[r].key] IN
      h # <<>> /\ h[Len(h)].run = r /\ h[Len(h)].kind \in LastKinds(run[r].pc)

\* A run's records are one block of one recording, and its terminal ends it.
Block(h) ==
  \A i, j \in DOMAIN h : i < j /\ h[i].run = h[j].run =>
    h[i].kind # "terminal" /\ \A m \in i .. j : h[m].run = h[i].run
Blocks ==
  /\ \A k \in Key : Block(log[k])
  /\ \A k, l \in Key : \A i \in DOMAIN log[k], j \in DOMAIN log[l] :
       log[k][i].run = log[l][j].run => k = l

\* A run that was reported as incomplete records nothing more.
Diagnosed ==
  \A r \in diagnosed :
    /\ r \in Run /\ run[r].pc \in EndPc
    /\ \A k \in Key : \A i \in DOMAIN log[k] : log[k][i].kind = "terminal" => log[k][i].run # r

\* What a reader knows: its revision is not ahead of the key's; while they agree the key
\* is as active as the reader saw it, and an idle key's recording is the one it read.
Knows(p) ==
  LET st == state[Home]
  IN /\ p.last \in 0 .. Len(log[Home])
     /\ p.last > 0 /\ log[Home][p.last].kind = "terminal" => p.ended
     /\ p.before \in KeyState
     /\ p.before.revision <= st.revision
     /\ p.before.revision = st.revision => p.before.active = st.active
     /\ p.pc = "compare" =>
          /\ p.upto \in 0 .. Len(log[Home])
          /\ p.before.revision = st.revision /\ ~p.before.active => p.upto = Len(log[Home])
Readers ==
  \A o \in Reader : /\ rd[o].pc = "idle" => rd[o].last = 0
                    /\ Reading(o) => Knows(rd[o])

\* A run that has ended has recorded its terminal, if it recorded anything.
Settled ==
  \A r \in Run : run[r].pc \in EndPc \ {"gone"} /\ Begun(r) =>
    Recorded(r) \/ run[r].failed

IInv == Types /\ Reserved /\ Fresh /\ LastRecord /\ HistoryInOrder /\ Blocks /\ Diagnosed /\ Readers
        /\ Settled

-----------------------------------------------------------------------------
(* A run moves on. *)

Others(r) ==
  \A s \in Run : s # r => run'[s].pc = run[s].pc /\ run'[s].key = run[s].key
                           /\ run'[s].failed = run[s].failed

\* A step of run r that records nothing.
Advance(r) ==
  LET p == run[r].pc
      q == run'[r].pc
  IN /\ run[r].failed => run'[r].failed
     /\ \/ p \in FreshPc /\ q \in FreshPc \cup EndPc
           /\ (q = "boundary" => ~Posted(run'[r].key, runId(r)))
        \/ p \in OpenPc /\ q \in OpenPc /\ LastKinds(p) \subseteq LastKinds(q)
           /\ run'[r].key = run[r].key
        \/ p \in EndPc /\ q \in EndPc \ {"gone"} /\ run'[r].key = run[r].key /\ p # "gone"
        \/ p = "terminal" /\ q = "close" /\ run'[r].key = run[r].key /\ run'[r].failed

History == Fresh /\ LastRecord /\ HistoryInOrder /\ Blocks /\ Diagnosed /\ Settled

\* Such a step disturbs nothing the recordings promise.
LEMMA AdvanceInv ==
  ASSUME IInv, Types', UNCHANGED <<cast, log, diagnosed>>, NEW r \in Run, Others(r), Advance(r)
  PROVE  History'
<1> USE DEF IInv
<1>a. run'[r].pc \in FreshPc => run[r].pc \in FreshPc
  BY Zenon DEF Advance, FreshPc, OpenPc, EndPc
<1>b. run'[r].pc = "boundary" => ~Posted(run'[r].key, runId(r))
  BY Zenon DEF Advance, OpenPc, EndPc
<1>c. run'[r].pc \in OpenPc =>
        /\ run[r].pc \in OpenPc /\ run'[r].key = run[r].key
        /\ LastKinds(run[r].pc) \subseteq LastKinds(run'[r].pc)
  BY Zenon DEF Advance, FreshPc, OpenPc, EndPc
<1>d. run[r].pc \in EndPc => run'[r].pc \in EndPc
  BY Zenon DEF Advance, FreshPc, OpenPc, EndPc
<1>e. run'[r].pc \in EndPc /\ run[r].pc \notin FreshPc =>
        /\ run'[r].key = run[r].key
        /\ run'[r].failed \/ (run[r].pc \in EndPc \ {"gone"} /\ ~run[r].failed)
  BY Zenon DEF Advance, FreshPc, OpenPc, EndPc
<1>1. Fresh'
  <2> SUFFICES ASSUME NEW s \in Run
               PROVE  /\ run'[s].pc \in FreshPc =>
                           \A k \in Key : \A i \in DOMAIN log[k] : log[k][i].run # s
                      /\ run'[s].pc = "boundary" => ~Posted(run'[s].key, runId(s))
    BY Zenon DEF Fresh, Posted, runId
  <2>1. CASE s # r
    BY <2>1, Zenon DEF Fresh, Others
  <2>2. CASE s = r
    BY <2>2, <1>a, <1>b, Zenon DEF Fresh
  <2> QED  BY <2>1, <2>2, Zenon
<1>2. LastRecord'
  <2> SUFFICES ASSUME NEW s \in Run, run'[s].pc \in OpenPc
               PROVE  /\ log[run'[s].key] # <<>>
                      /\ log[run'[s].key][Len(log[run'[s].key])].run = s
                      /\ log[run'[s].key][Len(log[run'[s].key])].kind \in LastKinds(run'[s].pc)
    BY Zenon DEF LastRecord
  <2>1. CASE s # r
    BY <2>1, Zenon DEF LastRecord, Others
  <2>2. CASE s = r
    BY <2>2, <1>c, Zenon DEF LastRecord
  <2> QED  BY <2>1, <2>2, Zenon
<1>3. HistoryInOrder' /\ Blocks'
  BY Zenon DEF HistoryInOrder, Blocks
<1>4. Diagnosed'
  BY <1>d, Zenon DEF Diagnosed, Others
<1>5. Settled'
  <2> SUFFICES ASSUME NEW s \in Run, run'[s].pc \in EndPc \ {"gone"}, Begun(s)'
               PROVE  Recorded(s)' \/ run'[s].failed
    BY Zenon DEF Settled
  <2>1. CASE s # r
    BY <2>1 DEF Settled, Others, Begun, Recorded
  <2>2. CASE s = r /\ run[r].pc \in FreshPc
    BY <2>2 DEF Types, RunRecord, Fresh, Begun
  <2>3. CASE s = r /\ run[r].pc \notin FreshPc
    BY <2>3, <1>e DEF Settled, Begun, Recorded
  <2> QED  BY <2>1, <2>2, <2>3, Zenon
<1> QED  BY <1>1, <1>2, <1>3, <1>4, <1>5, Zenon DEF History

-----------------------------------------------------------------------------
(* A run records. *)

\* What Append does to a recording.
LEMMA AppendFacts ==
  ASSUME NEW h \in Seq(Entry), NEW e \in Entry
  PROVE  /\ Append(h, e) \in Seq(Entry) /\ Len(h) \in Nat /\ DOMAIN h = 1 .. Len(h)
         /\ Len(Append(h, e)) = Len(h) + 1 /\ DOMAIN Append(h, e) = 1 .. Len(h) + 1
         /\ Append(h, e)[Len(h) + 1] = e
         /\ \A i \in DOMAIN h : Append(h, e)[i] = h[i]
OBVIOUS

\* What may be recorded next: the boundary of a run with a new ID, or more of the last run.
MayFollow(h, e) ==
  \/ /\ e.kind = "boundary"
     /\ \A j \in DOMAIN h : h[j].run # e.run /\ (h[j].kind = "boundary" => h[j].id # e.id)
  \/ /\ h # <<>> /\ h[Len(h)].run = e.run /\ h[Len(h)].kind # "terminal"
     /\ \/ Rank(h[Len(h)].kind) < Rank(e.kind)
        \/ Rank(h[Len(h)].kind) = 2 /\ Rank(e.kind) = 2

\* A recording stays in order when a record that may follow it is appended.
LEMMA AppendContinues ==
  ASSUME NEW h \in Seq(Entry), NEW e \in Entry, MayFollow(h, e),
         \A i \in DOMAIN h : Continues(h, i)
  PROVE  \A i \in DOMAIN Append(h, e) : Continues(Append(h, e), i)
<1> DEFINE g == Append(h, e)
<1>1. /\ DOMAIN h = 1 .. Len(h) /\ DOMAIN g = 1 .. Len(h) + 1 /\ Len(h) \in Nat
      /\ g[Len(h) + 1] = e /\ \A i \in 1 .. Len(h) : g[i] = h[i]
  BY AppendFacts
<1> HIDE DEF g
<1>2. ASSUME NEW i \in 1 .. Len(h) PROVE Continues(g, i)
  <2>1. Continues(h, i)
    BY <1>1, Zenon
  <2>2. g[i] = h[i] /\ \A j \in 1 .. i - 1 : g[j] = h[j]
    BY <1>1
  <2>3. i > 1 => g[i - 1] = h[i - 1]
    BY <1>1
  <2> QED  BY <2>1, <2>2, <2>3, Zenon DEF Continues
<1>3. Continues(g, Len(h) + 1)
  <2>1. CASE /\ e.kind = "boundary"
             /\ \A j \in DOMAIN h : h[j].run # e.run /\ (h[j].kind = "boundary" => h[j].id # e.id)
    <3>1. \A j \in 1 .. (Len(h) + 1) - 1 :
            g[j].run # e.run /\ (g[j].kind = "boundary" => g[j].id # e.id)
      BY <1>1, <2>1
    <3> QED  BY <1>1, <2>1, <3>1, Zenon DEF Continues
  <2>2. CASE /\ h # <<>> /\ h[Len(h)].run = e.run
             /\ \/ Rank(h[Len(h)].kind) < Rank(e.kind)
                \/ Rank(h[Len(h)].kind) = 2 /\ Rank(e.kind) = 2
    <3>1. Len(h) > 0 /\ (Len(h) + 1) - 1 = Len(h) /\ g[Len(h)] = h[Len(h)]
      BY <1>1, <2>2
    <3> QED  BY <1>1, <2>2, <3>1 DEF Continues
  <2> QED  BY <2>1, <2>2, Zenon DEF MayFollow
<1> QED  BY <1>1, <1>2, <1>3 DEF g

\* The records of a run stay one block when its next record is appended.
LEMMA AppendBlock ==
  ASSUME NEW h \in Seq(Entry), NEW e \in Entry, MayFollow(h, e), Block(h)
  PROVE  Block(Append(h, e))
<1> DEFINE g == Append(h, e)
<1>1. /\ DOMAIN h = 1 .. Len(h) /\ DOMAIN g = 1 .. Len(h) + 1 /\ Len(h) \in Nat
      /\ g[Len(h) + 1] = e /\ \A i \in 1 .. Len(h) : g[i] = h[i]
  BY AppendFacts
<1> HIDE DEF g
<1> SUFFICES ASSUME NEW i \in 1 .. Len(h) + 1, NEW j \in 1 .. Len(h) + 1,
                    i < j, g[i].run = g[j].run
             PROVE  g[i].kind # "terminal" /\ \A m \in i .. j : g[m].run = g[i].run
  BY <1>1, Zenon DEF Block, g
<1>2. CASE j <= Len(h)
  <2>1. g[i] = h[i] /\ g[j] = h[j] /\ \A m \in i .. j : g[m] = h[m]
    BY <1>1, <1>2
  <2> QED  BY <1>1, <1>2, <2>1 DEF Block
<1>3. CASE j = Len(h) + 1
  <2>1. i \in 1 .. Len(h) /\ g[i] = h[i] /\ h[i].run = e.run
    BY <1>1, <1>3
  <2>2. h # <<>> /\ h[Len(h)].run = e.run /\ h[Len(h)].kind # "terminal"
    BY <1>1, <2>1, Zenon DEF MayFollow
  <2>3. CASE i = Len(h)
    BY <1>1, <1>3, <2>1, <2>2, <2>3
  <2>4. CASE i < Len(h)
    <3>1. h[i].kind # "terminal" /\ \A m \in i .. Len(h) : h[m].run = h[i].run
      BY <1>1, <2>1, <2>2, <2>4 DEF Block
    <3>2. ASSUME NEW m \in i .. j PROVE g[m].run = g[i].run
      <4>1. CASE m = Len(h) + 1
        BY <1>1, <2>1, <4>1, Zenon
      <4>2. CASE m <= Len(h)
        BY <1>1, <2>1, <3>1, <4>2
      <4> QED  BY <1>1, <1>3, <4>1, <4>2
    <3> QED  BY <2>1, <3>1, <3>2, Zenon
  <2>5. i = Len(h) \/ i < Len(h)
    BY <1>1, <2>1
  <2> QED  BY <2>3, <2>4, <2>5, Zenon
<1> QED  BY <1>1, <1>2, <1>3

\* A step of run r that records e, its boundary or one more record.
Records(r, e) ==
  LET p == run[r].pc
      q == run'[r].pc
  IN /\ e \in Entry /\ e.run = r /\ log' = [log EXCEPT ![run[r].key] = Append(@, e)]
     /\ run'[r].key = run[r].key
     /\ \/ p = "boundary" /\ q = "publish" /\ e.kind = "boundary" /\ e.id = runId(r)
        \/ /\ p \in OpenPc /\ q \in OpenPc /\ e.kind \in LastKinds(q) \ {"boundary", "terminal"}
           /\ \A kind \in LastKinds(p) :
                Rank(kind) < Rank(e.kind) \/ (Rank(kind) = 2 /\ Rank(e.kind) = 2)
        \/ p = "terminal" /\ q = "close" /\ e.kind = "terminal"

\* A terminal comes after everything a run records before it.
LEMMA RankTerminal == \A pc : \A kind \in LastKinds(pc) : kind # "terminal" /\ Rank(kind) < Rank("terminal")
BY DEF LastKinds, Rank

\* One record of the run that has the key keeps the histories in order.
LEMMA RecordsInv ==
  ASSUME IInv, Types', UNCHANGED <<cast, diagnosed>>, NEW r \in Run, Others(r), NEW e, Records(r, e)
  PROVE  History'
<1> USE DEF IInv
<1> DEFINE k == run[r].key
           h == log[k]
<1>1. k \in Key /\ h \in Seq(Entry) /\ e \in Entry /\ e.run = r
  BY DEF Types, Records
<1>2. /\ log' = [log EXCEPT ![k] = Append(h, e)] /\ log'[k] = Append(h, e)
      /\ \A l \in Key : l # k => log'[l] = log[l]
  BY <1>1, Zenon DEF Types, Records
<1>3. /\ Len(h) \in Nat /\ DOMAIN h = 1 .. Len(h) /\ DOMAIN log'[k] = 1 .. Len(h) + 1
      /\ Len(log'[k]) = Len(h) + 1 /\ log'[k] # <<>> /\ log'[k][Len(h) + 1] = e
      /\ \A i \in 1 .. Len(h) : log'[k][i] = h[i]
  <2>1. /\ Len(h) \in Nat /\ DOMAIN h = 1 .. Len(h) /\ DOMAIN Append(h, e) = 1 .. Len(h) + 1
        /\ Len(Append(h, e)) = Len(h) + 1 /\ Append(h, e)[Len(h) + 1] = e
        /\ \A i \in 1 .. Len(h) : Append(h, e)[i] = h[i]
    BY <1>1, AppendFacts
  <2>2. Append(h, e) # <<>>
    <3>1. Len(<<>>) = 0
      BY Zenon
    <3>2. Len(h) + 1 # 0
      BY <2>1
    <3> QED  BY <2>1, <3>1, <3>2, Zenon
  <2> QED  BY <1>2, <2>1, <2>2, Zenon
<1>3a. ASSUME NEW l \in Key, NEW i \in DOMAIN log'[l]
       PROVE  \/ log'[l][i] = e /\ log'[l][i].run = r /\ l = k
              \/ i \in DOMAIN log[l] /\ log'[l][i] = log[l][i]
  <2>1. CASE l = k
    <3>1. i \in 1 .. Len(h) + 1
      BY <1>3, <1>3a, <2>1, Zenon
    <3>2. i = Len(h) + 1 \/ i \in 1 .. Len(h)
      <4>1. Len(h) \in Nat
        BY <1>3, Zenon
      <4> HIDE DEF IInv, h
      <4> QED  BY <3>1, <4>1
    <3> QED  BY <1>1, <1>3, <2>1, <3>2, Zenon
  <2>2. CASE l # k
    BY <1>2, <1>3a, <2>2, Zenon
  <2> QED  BY <2>1, <2>2, Zenon
<1>3b. ASSUME NEW l \in Key, NEW i \in DOMAIN log[l]
       PROVE  i \in DOMAIN log'[l] /\ log'[l][i] = log[l][i]
  <2>1. CASE l = k
    <3>1. i \in 1 .. Len(h)
      BY <1>3, <1>3b, <2>1, Zenon
    <3>2. i \in 1 .. Len(h) + 1
      <4>1. Len(h) \in Nat
        BY <1>3, Zenon
      <4> HIDE DEF IInv, h
      <4> QED  BY <3>1, <4>1
    <3> QED  BY <1>3, <2>1, <3>1, <3>2, Zenon
  <2>2. CASE l # k
    BY <1>2, <1>3b, <2>2, Zenon
  <2> QED  BY <2>1, <2>2, Zenon
<1>3c. h # <<>> => Len(h) \in DOMAIN h
  <2>1. h # <<>> => Len(h) # 0
    BY <1>1
  <2>2. Len(h) \in Nat /\ DOMAIN h = 1 .. Len(h)
    BY <1>3, Zenon
  <2> HIDE DEF IInv, h
  <2> QED  BY <2>1, <2>2
<1>4. run'[r].key = k /\ run[r].pc \in OpenPc \cup {"boundary"} /\ run'[r].pc \in OpenPc \cup {"close"}
  BY Zenon DEF Records, OpenPc
<1>5. \A s \in Run : s # r /\ run[s].pc \in HoldPc => run[s].key # k
  BY <1>1, <1>4, Zenon DEF Reserved, Holds, HoldPc, OpenPc
<1>6. \A i \in DOMAIN h : run[r].pc = "boundary" => h[i].run # r
  BY <1>1, Zenon DEF Fresh, FreshPc
<1>7. run[r].pc \in OpenPc => h # <<>> /\ h[Len(h)].run = r /\ h[Len(h)].kind \in LastKinds(run[r].pc)
  BY Zenon DEF LastRecord
<1>8. MayFollow(h, e)
  <2>1. CASE run[r].pc = "boundary"
    <3>1. e.kind = "boundary" /\ e.id = runId(r)
      BY <2>1, Zenon DEF Records, OpenPc
    <3>2. ~Posted(k, runId(r))
      BY <2>1, Zenon DEF Fresh
    <3> QED  BY <1>1, <1>6, <2>1, <3>1, <3>2, Zenon DEF MayFollow, Posted
  <2>2. CASE run[r].pc \in OpenPc /\ e.kind # "terminal"
    <3>1. \A kind \in LastKinds(run[r].pc) :
            Rank(kind) < Rank(e.kind) \/ (Rank(kind) = 2 /\ Rank(e.kind) = 2)
      BY <2>2, Zenon DEF Records, OpenPc
    <3>2. h[Len(h)].kind # "terminal"
      BY <1>7, <2>2, RankTerminal, Zenon
    <3> QED  BY <1>1, <1>7, <2>2, <3>1, <3>2, Zenon DEF MayFollow
  <2>3. CASE run[r].pc \in OpenPc /\ e.kind = "terminal"
    <3>1. h[Len(h)].kind # "terminal" /\ Rank(h[Len(h)].kind) < Rank(e.kind)
      BY <1>7, <2>3, RankTerminal, Zenon
    <3> QED  BY <1>1, <1>7, <2>3, <3>1, Zenon DEF MayFollow
  <2> QED  BY <1>4, <2>1, <2>2, <2>3, Zenon
<1>9. HistoryInOrder'
  <2> SUFFICES ASSUME NEW l \in Key PROVE \A i \in DOMAIN log'[l] : Continues(log'[l], i)
    BY Zenon DEF HistoryInOrder, Continues
  <2>1. \A i \in DOMAIN log[l] : Continues(log[l], i)
    BY Zenon DEF HistoryInOrder
  <2>2. CASE l = k
    BY <1>1, <1>2, <1>8, <2>1, <2>2, AppendContinues, ZenonT(40)
  <2>3. CASE l # k
    BY <1>2, <2>1, <2>3, Zenon
  <2> QED  BY <2>2, <2>3, Zenon
<1>10. Blocks'
  <2>1. ASSUME NEW l \in Key PROVE Block(log'[l])
    BY <1>1, <1>2, <1>8, AppendBlock, ZenonT(40) DEF Blocks
  <2>2. ASSUME NEW l \in Key, l # k, NEW j \in DOMAIN log[l] PROVE log[l][j].run # r
    <3>1. CASE run[r].pc = "boundary"
      BY <2>2, <3>1, Zenon DEF Fresh, FreshPc
    <3>2. CASE run[r].pc \in OpenPc
      <4>1. Len(h) \in DOMAIN h /\ h[Len(h)].run = r
        BY <1>3c, <1>7, <3>2, Zenon
      <4>2. log[l][j].run = h[Len(h)].run => l = k
        <5>1. \A m, n \in Key : \A i \in DOMAIN log[m] : \A g \in DOMAIN log[n] :
                log[m][i].run = log[n][g].run => m = n
          BY Zenon DEF Blocks
        <5> HIDE DEF IInv
        <5> QED  BY <1>1, <2>2, <4>1, <5>1, Zenon
      <4> QED  BY <2>2, <4>1, <4>2, Zenon
    <3> QED  BY <1>4, <3>1, <3>2, Zenon
  <2>3. ASSUME NEW l \in Key, NEW i \in DOMAIN log'[l]
        PROVE  (log'[l][i].run = r /\ l = k) \/ (i \in DOMAIN log[l] /\ log'[l][i] = log[l][i])
    BY <1>3a, Zenon
  <2>4. ASSUME NEW l \in Key, NEW m \in Key, NEW i \in DOMAIN log'[l], NEW j \in DOMAIN log'[m],
               log'[l][i].run = log'[m][j].run
        PROVE  l = m
    <3>1. \A a, b \in Key : \A x \in DOMAIN log[a] : \A y \in DOMAIN log[b] :
            log[a][x].run = log[b][y].run => a = b
      BY Zenon DEF Blocks
    <3>2. CASE log'[l][i].run = r
      <4>1. l = k
        BY <2>2, <2>3, <3>2, Zenon
      <4>2. log'[m][j].run = r
        BY <2>4, <3>2, Zenon
      <4>3. m = k
        BY <2>2, <2>3, <4>2, Zenon
      <4> QED  BY <4>1, <4>3, Zenon
    <3>3. CASE log'[l][i].run # r
      <4>1. i \in DOMAIN log[l] /\ log'[l][i] = log[l][i]
        BY <2>3, <3>3, Zenon
      <4>2. j \in DOMAIN log[m] /\ log'[m][j] = log[m][j]
        BY <2>3, <2>4, <3>3, Zenon
      <4> QED  BY <2>4, <3>1, <4>1, <4>2, Zenon
    <3> QED  BY <3>2, <3>3, Zenon
  <2> QED  BY <2>1, <2>4, Zenon DEF Blocks, Block
<1>11. Fresh'
  <2> SUFFICES ASSUME NEW s \in Run
               PROVE  /\ run'[s].pc \in FreshPc =>
                           \A l \in Key : \A i \in DOMAIN log'[l] : log'[l][i].run # s
                      /\ run'[s].pc = "boundary" => ~Posted(run[s].key, runId(s))'
    BY Zenon DEF Fresh
  <2>1. CASE s = r
    BY <1>4, <2>1, Zenon DEF FreshPc, OpenPc
  <2>2. CASE s # r
    <3>1. run'[s].pc = run[s].pc /\ run'[s].key = run[s].key /\ run[s].key \in Key
      BY <2>2, Zenon DEF Others, Types, RunRecord
    <3>2. ASSUME run[s].pc \in FreshPc, NEW l \in Key, NEW i \in DOMAIN log'[l]
          PROVE  log'[l][i].run # s
      BY <1>3a, <2>2, <3>2, Zenon DEF Fresh
    <3>3. ASSUME run[s].pc = "boundary" PROVE ~Posted(run[s].key, runId(s))'
      <4>1. run[s].key # k
        BY <1>5, <2>2, <3>3, Zenon DEF HoldPc
      <4>2. log'[run'[s].key] = log[run[s].key]
        BY <1>2, <3>1, <4>1, Zenon
      <4>3. ~Posted(run[s].key, runId(s))
        BY <3>3, Zenon DEF Fresh
      <4>4. runId(s)' = runId(s)
        BY Zenon DEF runId
      <4> QED  BY <4>2, <4>3, <4>4, Zenon DEF Posted
    <3> QED  BY <3>1, <3>2, <3>3, Zenon
  <2> QED  BY <2>1, <2>2, Zenon
<1>12. LastRecord'
  <2> SUFFICES ASSUME NEW s \in Run, run'[s].pc \in OpenPc
               PROVE  LET g == log'[run'[s].key] IN
                        g # <<>> /\ g[Len(g)].run = s /\ g[Len(g)].kind \in LastKinds(run'[s].pc)
    BY Zenon DEF LastRecord, LastKinds
  <2>1. CASE s = r
    <3>1. e.kind \in LastKinds(run'[r].pc)
      BY <2>1, Zenon DEF Records, LastKinds, OpenPc
    <3>2. log'[run'[s].key] = log'[k]
      BY <1>4, <2>1, Zenon
    <3>3. log'[k] # <<>> /\ log'[k][Len(log'[k])] = e
      BY <1>3, Zenon
    <3> QED  BY <1>1, <2>1, <3>1, <3>2, <3>3, Zenon
  <2>2. CASE s # r
    <3>1. run'[s].pc = run[s].pc /\ run'[s].key = run[s].key /\ run[s].key \in Key
      BY <2>2, Zenon DEF Others, Types, RunRecord
    <3>2. run[s].key # k
      BY <1>5, <2>2, <3>1, Zenon DEF HoldPc, OpenPc
    <3>3. log'[run'[s].key] = log[run[s].key]
      BY <1>2, <3>1, <3>2, Zenon
    <3>4. LET g == log[run[s].key] IN
            g # <<>> /\ g[Len(g)].run = s /\ g[Len(g)].kind \in LastKinds(run[s].pc)
      BY <2>2, <3>1, Zenon DEF LastRecord
    <3> QED  BY <3>1, <3>3, <3>4, Zenon
  <2> QED  BY <2>1, <2>2, Zenon
<1>13. Diagnosed'
  <2> SUFFICES ASSUME NEW x \in diagnosed
               PROVE  /\ x \in Run /\ run'[x].pc \in EndPc
                      /\ \A l \in Key : \A i \in DOMAIN log'[l] :
                           log'[l][i].kind = "terminal" => log'[l][i].run # x
    BY Zenon DEF Diagnosed
  <2>1. x \in Run /\ x # r /\ run'[x].pc \in EndPc
    BY <1>4, Zenon DEF Diagnosed, Others, EndPc, OpenPc
  <2>2. ASSUME NEW l \in Key, NEW i \in DOMAIN log'[l], log'[l][i].kind = "terminal"
        PROVE  log'[l][i].run # x
    BY <1>3a, <2>1, <2>2, Zenon DEF Diagnosed
  <2> QED  BY <2>1, <2>2, Zenon
<1>14. Settled'
  <2> SUFFICES ASSUME NEW s \in Run, run'[s].pc \in EndPc \ {"gone"}, Begun(s)'
               PROVE  Recorded(s)' \/ run'[s].failed
    BY Zenon DEF Settled
  <2>1. CASE s = r
    <3>1. e.kind = "terminal"
      BY <2>1, Zenon DEF Records, OpenPc, EndPc
    <3>2. Len(h) + 1 \in DOMAIN log'[k] /\ log'[k][Len(h) + 1] = e
      <4>1. Len(h) \in Nat => Len(h) + 1 \in 1 .. Len(h) + 1
        <5> HIDE DEF IInv, h
        <5> QED  OBVIOUS
      <4> QED  BY <1>3, <4>1, Zenon
    <3> QED  BY <1>1, <1>4, <2>1, <3>1, <3>2, Zenon DEF Recorded
  <2>2. CASE s # r
    <3>1. /\ run'[s].pc = run[s].pc /\ run'[s].key = run[s].key /\ run[s].key \in Key
          /\ run'[s].failed = run[s].failed
      BY <2>2, Zenon DEF Others, Types, RunRecord
    <3>2. Begun(s)
      <4>1. PICK i \in DOMAIN log'[run'[s].key] : log'[run'[s].key][i].run = s
        BY Zenon DEF Begun
      <4>2. i \in DOMAIN log[run[s].key] /\ log'[run[s].key][i] = log[run[s].key][i]
        BY <1>3a, <2>2, <3>1, <4>1, Zenon
      <4> QED  BY <3>1, <4>1, <4>2, Zenon DEF Begun
    <3>3. Recorded(s) => Recorded(s)'
      <4> SUFFICES ASSUME NEW i \in DOMAIN log[run[s].key],
                          log[run[s].key][i].run = s, log[run[s].key][i].kind = "terminal"
                   PROVE  Recorded(s)'
        BY Zenon DEF Recorded
      <4>1. i \in DOMAIN log'[run'[s].key] /\ log'[run'[s].key][i] = log[run[s].key][i]
        BY <1>3b, <3>1, Zenon
      <4> QED  BY <4>1, Zenon DEF Recorded
    <3> QED  BY <3>1, <3>2, <3>3, Zenon DEF Settled
  <2> QED  BY <2>1, <2>2, Zenon
<1> QED  BY <1>9, <1>10, <1>11, <1>12, <1>13, <1>14, Zenon DEF History

-----------------------------------------------------------------------------
(* Steps that keep the reservations and what the readers know. *)

\* Run r keeps its reservation, and the other keys are as active as before.
KeepsKey(r) ==
  /\ \A k \in Key : state'[k].active = state[k].active
  /\ run'[r].key = run[r].key /\ (run'[r].pc \in HoldPc => run[r].pc \in HoldPc)
  /\ run'[r].pc # "switching" /\ (run'[r].pc = "switch" => FreshOf[r] # None)

\* A key's state changes with its revision, but for the failure recordBoundary forgets.
Revised ==
  \A k \in Key : \/ state'[k].revision > state[k].revision
                 \/ state'[k].revision = state[k].revision /\ state'[k].active = state[k].active

\* changeLocked raises the revision and nothing else.
LEMMA ChangeFacts ==
  ASSUME NEW st \in KeyState
  PROVE  /\ changeLocked(st) \in KeyState /\ st.revision \in Nat
         /\ changeLocked(st).revision = st.revision + 1 /\ changeLocked(st).active = st.active
BY DEF KeyState, changeLocked

\* A step of a run that keeps its key keeps the reservations.
LEMMA ReservedKept ==
  ASSUME Types, Types', Reserved, NEW r \in Run, Others(r), KeepsKey(r)
  PROVE  Reserved'
<1>1. ASSUME NEW s \in Run, NEW k \in Key, Holds(s, k)' PROVE Holds(s, k)
  BY <1>1, Zenon DEF Holds, Others, KeepsKey
<1>2. ASSUME NEW s \in Run
      PROVE  /\ run'[s].pc \in {"switch", "switching"} => FreshOf[s] # None
             /\ run'[s].pc = "switching" => run'[s].key # FreshOf[s]
  BY Zenon DEF Reserved, Others, KeepsKey
<1> QED  BY <1>1, <1>2, Zenon DEF Reserved, KeepsKey

\* Readers are not misled by a record of an active run or by a revised state.
LEMMA ReadersKept ==
  ASSUME Types, Types', Readers, UNCHANGED rd, Revised,
         \/ log'[Home] = log[Home]
         \/ \E e \in Entry : log'[Home] = Append(log[Home], e) /\ state[Home].active
  PROVE  Readers'
<1> SUFFICES ASSUME NEW o \in Reader, Reading(o)'
             PROVE  (LET p == rd[o]
                         st == state[Home]
                     IN /\ p.last \in 0 .. Len(log[Home])
                        /\ p.last > 0 /\ log[Home][p.last].kind = "terminal" => p.ended
                        /\ p.before \in KeyState
                        /\ p.before.revision <= st.revision
                        /\ p.before.revision = st.revision => p.before.active = st.active
                        /\ p.pc = "compare" =>
                             /\ p.upto \in 0 .. Len(log[Home])
                             /\ p.before.revision = st.revision /\ ~p.before.active =>
                                  p.upto = Len(log[Home]))'
  BY Zenon DEF Readers, Knows
<1> DEFINE p == rd[o]
           h == log[Home]
           g == log'[Home]
           st == state[Home]
           su == state'[Home]
<1>1. Reading(o) /\ rd'[o] = rd[o]
  BY Zenon DEF Reading
<1>2. /\ p.last \in 0 .. Len(h)
      /\ p.last > 0 /\ h[p.last].kind = "terminal" => p.ended
      /\ p.before \in KeyState /\ p.before.revision <= st.revision
      /\ p.before.revision = st.revision => p.before.active = st.active
      /\ p.pc = "compare" =>
           /\ p.upto \in 0 .. Len(h)
           /\ p.before.revision = st.revision /\ ~p.before.active => p.upto = Len(h)
  BY <1>1, Zenon DEF Readers, Knows
<1>3. /\ st.revision \in Nat /\ su.revision \in Nat /\ p.before.revision \in Nat
      /\ \/ su.revision > st.revision
         \/ su.revision = st.revision /\ su.active = st.active
  BY <1>2, SessionAssumption, Zenon DEF Types, KeyState, Revised
<1>4. /\ Len(h) \in Nat /\ Len(g) \in Nat /\ Len(h) <= Len(g)
      /\ \A i \in 1 .. Len(h) : g[i] = h[i]
      /\ g = h \/ st.active
  <2>1. h \in Seq(Entry)
    BY SessionAssumption, Zenon DEF Types
  <2>2. CASE g = h
    BY <2>1, <2>2
  <2>3. ASSUME NEW e \in Entry, g = Append(h, e), st.active PROVE <1>4!:
    BY <2>1, <2>3, AppendFacts
  <2> QED  BY <2>2, <2>3, Zenon
<1> HIDE DEF p, h, g, st, su
<1>5. p.last \in 0 .. Len(g) /\ (p.last > 0 /\ g[p.last].kind = "terminal" => p.ended)
  BY <1>2, <1>4
<1>6. p.before.revision <= su.revision /\ (p.before.revision = su.revision => p.before.active = su.active)
  BY <1>2, <1>3
<1>7. p.pc = "compare" => /\ p.upto \in 0 .. Len(g)
                          /\ p.before.revision = su.revision /\ ~p.before.active => p.upto = Len(g)
  BY <1>2, <1>3, <1>4
<1> QED  BY <1>1, <1>2, <1>5, <1>6, <1>7, Zenon DEF p, h, g, st, su

\* A step that records nothing and keeps both.
LEMMA MoveInv ==
  ASSUME IInv, Types', UNCHANGED <<cast, log, diagnosed, rd>>, NEW r \in Run, Others(r),
         Advance(r), KeepsKey(r), Revised
  PROVE  IInv'
<1>1. History'
  BY AdvanceInv, Zenon
<1>2. Reserved'
  BY ReservedKept, Zenon DEF IInv
<1>3. Readers'
  BY ReadersKept, Zenon DEF IInv
<1> QED  BY <1>1, <1>2, <1>3, Zenon DEF IInv, History

\* A step that records and keeps both.
LEMMA RecordMoveInv ==
  ASSUME IInv, Types', UNCHANGED <<cast, diagnosed, rd>>, NEW r \in Run, Others(r),
         NEW e, Records(r, e), KeepsKey(r), Revised
  PROVE  IInv'
<1>1. History'
  BY RecordsInv, Zenon
<1>2. Reserved'
  BY ReservedKept, Zenon DEF IInv
<1>3. e \in Entry /\ run[r].key \in Key /\ log' = [log EXCEPT ![run[r].key] = Append(@, e)]
  BY Zenon DEF IInv, Types, Records, RunRecord
<1>4. state[run[r].key].active
  <2>1. run[r].pc \in HoldPc
    BY Zenon DEF Records, HoldPc, OpenPc
  <2> QED  BY <1>3, <2>1, Zenon DEF IInv, Reserved, Holds
<1>5. \/ log'[Home] = log[Home]
      \/ \E d \in Entry : log'[Home] = Append(log[Home], d) /\ state[Home].active
  BY <1>3, <1>4, SessionAssumption, Zenon DEF IInv, Types
<1>6. Readers'
  BY <1>5, ReadersKept, Zenon DEF IInv
<1> QED  BY <1>1, <1>2, <1>6, Zenon DEF IInv, History

\* The closure record of drain: it records, or the recording has failed.
LEMMA RecordInv ==
  ASSUME IInv, NEW r \in Run, NEW R \in RunRecord, NEW kind, NEW id \in Id, record(r, R, kind, id),
         R.key = run[r].key, R.failed = run[r].failed, run[r].pc \in OpenPc,
         \/ /\ R.pc \in OpenPc /\ LastKinds(run[r].pc) \subseteq LastKinds(R.pc)
            /\ kind \in LastKinds(R.pc) \ {"boundary", "terminal"}
            /\ \A d \in LastKinds(run[r].pc) :
                 Rank(d) < Rank(kind) \/ (Rank(d) = 2 /\ Rank(kind) = 2)
         \/ run[r].pc = "terminal" /\ R.pc = "close" /\ kind = "terminal",
         UNCHANGED <<cast, diagnosed, rd, sess, cancel, shutdown>>,
         sup' \in [Call -> [pc : SupPc, run : Run \cup {None}, dup : BOOLEAN]]
  PROVE  IInv'
<1>1. CASE run[r].failed /\ run' = [run EXCEPT ![r] = R] /\ UNCHANGED <<log, state>>
  <2>1. Types' /\ run'[r] = R
    BY <1>1, Zenon DEF IInv, Types
  <2>2. Others(r) /\ Advance(r)
    BY <1>1, <2>1, Zenon DEF IInv, Types, Others, Advance
  <2>3. KeepsKey(r) /\ Revised
    BY <1>1, <2>1, Zenon DEF KeepsKey, Revised, HoldPc, OpenPc
  <2> QED  BY <1>1, <2>1, <2>2, <2>3, MoveInv, Zenon
<1>2. CASE recordFailed(r, R)
  <2> DEFINE F == [R EXCEPT !.failed = TRUE, !.stopped = TRUE]
             S == changeLocked([state[R.key] EXCEPT !.failed = TRUE])
  <2>1. F \in RunRecord /\ F.pc = R.pc /\ F.key = R.key /\ F.failed
    BY Zenon DEF RunRecord
  <2>2. R.key \in Key /\ S \in KeyState /\ S.revision = state[R.key].revision + 1
        /\ S.active = state[R.key].active /\ state[R.key].revision \in Nat
    <3>1. R.key \in Key
      BY Zenon DEF RunRecord
    <3>2. state[R.key] \in KeyState
      BY <3>1, Zenon DEF IInv, Types
    <3>3. [state[R.key] EXCEPT !.failed = TRUE] \in KeyState
          /\ [state[R.key] EXCEPT !.failed = TRUE].revision = state[R.key].revision
          /\ [state[R.key] EXCEPT !.failed = TRUE].active = state[R.key].active
      BY <3>2, Zenon DEF KeyState
    <3> QED  BY <3>1, <3>2, <3>3, ChangeFacts, Zenon
  <2>3. run' = [run EXCEPT ![r] = F] /\ state' = [state EXCEPT ![R.key] = S] /\ UNCHANGED log
    BY <1>2, Zenon DEF recordFailed
  <2> HIDE DEF F, S
  <2>4. Types' /\ run'[r] = F
    BY <2>1, <2>2, <2>3, Zenon DEF IInv, Types
  <2>5. Others(r) /\ Advance(r)
    BY <2>1, <2>3, <2>4, Zenon DEF IInv, Types, Others, Advance
  <2>6. KeepsKey(r)
    BY <2>1, <2>2, <2>3, <2>4, Zenon DEF IInv, Types, KeepsKey, HoldPc, OpenPc
  <2>7. Revised
    BY <2>2, <2>3 DEF IInv, Types, Revised
  <2> QED  BY <2>3, <2>4, <2>5, <2>6, <2>7, MoveInv, Zenon
<1>3. CASE Append1(R.key, kind, r, id) /\ run' = [run EXCEPT ![r] = R] /\ UNCHANGED state
  <2> DEFINE e == [kind |-> kind, run |-> r, id |-> id]
  <2>1. kind \in Kind
    BY Zenon DEF LastKinds, Kind
  <2>2. e \in Entry /\ e.run = r /\ e.kind = kind /\ R.key \in Key
    BY <2>1, Zenon DEF Entry, RunRecord
  <2>3. log' = [log EXCEPT ![run[r].key] = Append(@, e)] /\ run'[r] = R
    BY <1>3, Zenon DEF Append1, IInv, Types
  <2> HIDE DEF e
  <2>4. log' \in [Key -> Seq(Entry)]
    BY <2>2, <2>3 DEF IInv, Types
  <2>5. Types'
    BY <1>3, <2>3, <2>4, Zenon DEF IInv, Types
  <2>6. Others(r) /\ Records(r, e)
    BY <1>3, <2>2, <2>3, Zenon DEF IInv, Types, Others, Records
  <2>7. KeepsKey(r) /\ Revised
    BY <1>3, <2>3, Zenon DEF KeepsKey, Revised, HoldPc, OpenPc
  <2> QED  BY <2>5, <2>6, <2>7, RecordMoveInv, Zenon
<1> QED  BY <1>1, <1>2, <1>3, Zenon DEF record

-----------------------------------------------------------------------------
(* Admission. *)

\* What Goto changes.
LEMMA GotoFacts ==
  ASSUME IInv, NEW r \in Run, NEW q \in RunPc, Goto(r, q)
  PROVE  /\ run' \in [Run -> RunRecord] /\ run'[r].pc = q /\ Others(r)
         /\ run'[r].key = run[r].key /\ run'[r].failed = run[r].failed
<1>1. run \in [Run -> RunRecord]
  BY Zenon DEF IInv, Types
<1>2. [run[r] EXCEPT !.pc = q] \in RunRecord /\ [run[r] EXCEPT !.pc = q].pc = q
      /\ [run[r] EXCEPT !.pc = q].key = run[r].key /\ [run[r] EXCEPT !.pc = q].failed = run[r].failed
  BY <1>1, Zenon DEF RunRecord
<1>3. run' = [run EXCEPT ![r] = [run[r] EXCEPT !.pc = q]]
  BY Zenon DEF Goto
<1> QED  BY <1>1, <1>2, <1>3, Zenon DEF Others

\* Admission counts the run, or refuses it after Shutdown.
LEMMA admitInv == ASSUME IInv, NEW r \in Run, admit(r) PROVE IInv'
<1>1. /\ run[r].pc = "idle" /\ UNCHANGED <<cast, log, state, sup, rd, cancel, shutdown, diagnosed>>
      /\ sess \in SessionRecord
  BY Zenon DEF admit, OtherActors, IInv, Types
<1>2. sess' \in SessionRecord
  BY <1>1 DEF admit, SessionRecord
<1>3. PICK q \in {"refused", "reserve"} : Goto(r, q)
  BY Zenon DEF admit
<1>4. /\ run' \in [Run -> RunRecord] /\ run'[r].pc = q /\ Others(r)
      /\ run'[r].key = run[r].key /\ run'[r].failed = run[r].failed
  BY <1>3, GotoFacts, Zenon DEF RunPc
<1>5. Types'
  BY <1>1, <1>2, <1>4, Zenon DEF IInv, Types
<1>6. Advance(r) /\ KeepsKey(r) /\ Revised
  BY <1>1, <1>4, Zenon DEF Advance, FreshPc, KeepsKey, HoldPc, Revised
<1> QED  BY <1>1, <1>4, <1>5, <1>6, MoveInv, Zenon

\* Run r takes the reservation of k.
LEMMA TakesInv ==
  ASSUME IInv, Types', UNCHANGED <<cast, log, diagnosed, rd>>, NEW r \in Run, Others(r), Advance(r),
         Revised, NEW k \in Key, ~state[k].active, state'[k].active,
         \A l \in Key : l # k => state'[l].active = state[l].active,
         \A l \in Key : Holds(r, l)' => Holds(r, l) \/ l = k,
         run'[r].pc # "switch", run'[r].pc = "switching" => FreshOf[r] # None /\ run'[r].key # FreshOf[r]
  PROVE  IInv'
<1>1. History' /\ Readers'
  BY AdvanceInv, ReadersKept, Zenon DEF IInv
<1>2. ASSUME NEW s \in Run, NEW l \in Key, s # r PROVE Holds(s, l)' <=> Holds(s, l)
  BY <1>2, Zenon DEF Holds, Others
<1>3. \A s \in Run : ~Holds(s, k)
  BY Zenon DEF IInv, Reserved
<1>4. \A s \in Run : \A l \in Key : Holds(s, l)' => state'[l].active
  BY <1>2, <1>3, Zenon DEF IInv, Reserved
<1>5. \A s, u \in Run : \A l \in Key : Holds(s, l)' /\ Holds(u, l)' => s = u
  BY <1>2, <1>3 DEF IInv, Reserved
<1>6. \A s \in Run : /\ run'[s].pc \in {"switch", "switching"} => FreshOf[s] # None
                     /\ run'[s].pc = "switching" => run'[s].key # FreshOf[s]
  BY Zenon DEF IInv, Reserved, Others
<1>7. Reserved'
  BY <1>4, <1>5, <1>6, Zenon DEF Reserved
<1> QED  BY <1>1, <1>7, Zenon DEF IInv, History

\* Run r gives up the reservation of k.
LEMMA GivesUpInv ==
  ASSUME IInv, Types', UNCHANGED <<cast, log, diagnosed, rd>>, NEW r \in Run, Others(r), Advance(r),
         Revised, NEW k \in Key, Holds(r, k), ~Holds(r, k)',
         \A l \in Key : l # k => state'[l].active = state[l].active,
         \A l \in Key : Holds(r, l)' => Holds(r, l), run'[r].pc \notin {"switch", "switching"}
  PROVE  IInv'
<1>1. History' /\ Readers'
  BY AdvanceInv, ReadersKept, Zenon DEF IInv
<1>2. ASSUME NEW s \in Run, NEW l \in Key, s # r PROVE Holds(s, l)' <=> Holds(s, l)
  BY <1>2, Zenon DEF Holds, Others
<1>3. \A s \in Run : s # r => ~Holds(s, k)
  BY Zenon DEF IInv, Reserved
<1>4. \A s \in Run : \A l \in Key : Holds(s, l)' => state'[l].active
  BY <1>2, <1>3 DEF IInv, Reserved
<1>5. \A s, u \in Run : \A l \in Key : Holds(s, l)' /\ Holds(u, l)' => s = u
  BY <1>2, <1>3, Zenon DEF IInv, Reserved
<1>6. \A s \in Run : /\ run'[s].pc \in {"switch", "switching"} => FreshOf[s] # None
                     /\ run'[s].pc = "switching" => run'[s].key # FreshOf[s]
  BY Zenon DEF IInv, Reserved, Others
<1>7. Reserved'
  BY <1>4, <1>5, <1>6, Zenon DEF Reserved
<1> QED  BY <1>1, <1>7, Zenon DEF IInv, History

\* What reserve and release do to the Session and to the key.
LEMMA ReserveFacts ==
  ASSUME IInv, NEW r \in Run, NEW k \in Key, reserve(r, k)
  PROVE  /\ ~state[k].active /\ state' \in [Key -> KeyState] /\ state'[k].active /\ Revised
         /\ \A l \in Key : l # k => state'[l].active = state[l].active
         /\ sess' \in SessionRecord /\ sess'.running = sess.running /\ sess'.closed = sess.closed
         /\ sess'.shutdownDone = sess.shutdownDone
<1> DEFINE S == [state[k] EXCEPT !.active = TRUE, !.boundary = 0]
<1>1. state \in [Key -> KeyState] /\ sess \in SessionRecord
  BY Zenon DEF IInv, Types
<1>2. S \in KeyState /\ S.active /\ S.revision = state[k].revision
  BY <1>1, Zenon DEF KeyState
<1>3. state' = [state EXCEPT ![k] = changeLocked(S)]
  BY Zenon DEF reserve
<1> HIDE DEF S
<1>4. /\ state' \in [Key -> KeyState] /\ state'[k].active /\ state'[k].revision > state[k].revision
      /\ \A l \in Key : l # k => state'[l] = state[l]
  BY <1>1, <1>2, <1>3, ChangeFacts
<1>5. sess' \in SessionRecord /\ sess'.running = sess.running /\ sess'.closed = sess.closed
      /\ sess'.shutdownDone = sess.shutdownDone
  <2>1. [sess EXCEPT !.runs[k] = r] \in SessionRecord
    BY <1>1, Zenon DEF SessionRecord
  <2> QED  BY <1>1, <2>1, Zenon DEF SessionRecord, reserve
<1> QED  BY <1>4, <1>5, Zenon DEF Revised, reserve

\* release gives up one key and revises its state.
LEMMA ReleaseFacts ==
  ASSUME IInv, NEW k \in Key, release(k)
  PROVE  /\ state' \in [Key -> KeyState] /\ ~state'[k].active /\ Revised
         /\ \A l \in Key : l # k => state'[l].active = state[l].active
         /\ sess' \in SessionRecord /\ sess'.running = sess.running /\ sess'.closed = sess.closed
         /\ sess'.shutdownDone = sess.shutdownDone
<1> DEFINE S == [state[k] EXCEPT !.active = FALSE]
<1>1. state \in [Key -> KeyState] /\ sess \in SessionRecord
  BY Zenon DEF IInv, Types
<1>2. S \in KeyState /\ ~S.active /\ S.revision = state[k].revision
  BY <1>1, Zenon DEF KeyState
<1>3. state' = [state EXCEPT ![k] = changeLocked(S)]
  BY Zenon DEF release
<1> HIDE DEF S
<1>4. /\ state' \in [Key -> KeyState] /\ ~state'[k].active /\ state'[k].revision > state[k].revision
      /\ \A l \in Key : l # k => state'[l] = state[l]
  BY <1>1, <1>2, <1>3, ChangeFacts
<1>5. sess' \in SessionRecord /\ sess'.running = sess.running /\ sess'.closed = sess.closed
      /\ sess'.shutdownDone = sess.shutdownDone
  BY <1>1, Zenon DEF SessionRecord, release
<1> QED  BY <1>4, <1>5, Zenon DEF Revised

\* A reservation is made only of a key that is free.
LEMMA ReserveInv == ASSUME IInv, NEW r \in Run, Reserve(r) PROVE IInv'
<1>1. run[r].pc = "reserve" /\ UNCHANGED <<cast, log, sup, rd, cancel, shutdown, diagnosed>>
      /\ run[r].key \in Key
  BY Zenon DEF Reserve, OtherActors, IInv, Types, RunRecord
<1>2. CASE Goto(r, "finishing") /\ UNCHANGED <<state, sess>>
  <2>1. /\ run' \in [Run -> RunRecord] /\ run'[r].pc = "finishing" /\ Others(r)
        /\ run'[r].key = run[r].key /\ run'[r].failed = run[r].failed
    BY <1>2, GotoFacts, Zenon DEF RunPc
  <2>2. Types'
    BY <1>1, <1>2, <2>1, Zenon DEF IInv, Types
  <2>3. Advance(r) /\ KeepsKey(r) /\ Revised
    BY <1>1, <1>2, <2>1, Zenon DEF Advance, FreshPc, EndPc, KeepsKey, HoldPc, Revised
  <2> QED  BY <1>1, <2>1, <2>2, <2>3, <1>2, MoveInv, Zenon
<1>3. CASE reserve(r, run[r].key) /\ Goto(r, "verify")
  <2>1. /\ run' \in [Run -> RunRecord] /\ run'[r].pc = "verify" /\ Others(r)
        /\ run'[r].key = run[r].key /\ run'[r].failed = run[r].failed
    BY <1>3, GotoFacts, Zenon DEF RunPc, HoldPc
  <2>2. /\ ~state[run[r].key].active /\ state' \in [Key -> KeyState] /\ state'[run[r].key].active
        /\ Revised /\ \A l \in Key : l # run[r].key => state'[l].active = state[l].active
        /\ sess' \in SessionRecord /\ sess'.running = sess.running /\ sess'.closed = sess.closed
        /\ sess'.shutdownDone = sess.shutdownDone
    BY <1>1, <1>3, ReserveFacts, Zenon
  <2>3. Types'
    BY <1>1, <2>1, <2>2, Zenon DEF IInv, Types
  <2>4. Advance(r)
    BY <1>1, <2>1, <2>2, Zenon DEF Advance, FreshPc
  <2>5. \A l \in Key : Holds(r, l)' => l = run[r].key
    BY <2>1, Zenon DEF Holds
  <2> QED  BY <1>1, <2>1, <2>2, <2>3, <2>4, <2>5, TakesInv, Zenon
<1> QED  BY <1>2, <1>3, Zenon DEF Reserve

\* The comparison of histories records nothing.
LEMMA VerifyHistoryInv == ASSUME IInv, NEW r \in Run, VerifyHistory(r) PROVE IInv'
<1>1. /\ run[r].pc = "verify"
      /\ UNCHANGED <<cast, log, state, sess, sup, rd, cancel, shutdown, diagnosed>>
  BY Zenon DEF VerifyHistory, OtherActors
<1>2. PICK q \in {"release", "boundary", "switch"} :
        /\ Goto(r, q) /\ (q = "boundary" => ~Posted(run[r].key, runId(r)))
        /\ (q = "switch" => FreshOf[r] # None)
  BY Zenon DEF VerifyHistory
<1>3. /\ run' \in [Run -> RunRecord] /\ run'[r].pc = q /\ Others(r)
      /\ run'[r].key = run[r].key /\ run'[r].failed = run[r].failed
  BY <1>2, GotoFacts, Zenon DEF RunPc, HoldPc
<1>4. Types'
  BY <1>1, <1>3, Zenon DEF IInv, Types
<1>5. Advance(r)
  BY <1>1, <1>2, <1>3, Zenon DEF Advance, FreshPc, EndPc
<1>6. KeepsKey(r) /\ Revised
  BY <1>1, <1>2, <1>3, Zenon DEF KeepsKey, HoldPc, Revised
<1> QED  BY <1>1, <1>3, <1>4, <1>5, <1>6, MoveInv, Zenon

\* A diverging client gets a second key, free as well.
LEMMA ReserveFreshInv == ASSUME IInv, NEW r \in Run, ReserveFresh(r) PROVE IInv'
<1>1. /\ run[r].pc = "switch" /\ UNCHANGED <<cast, log, sup, rd, cancel, shutdown, diagnosed>>
      /\ run[r].key \in Key /\ FreshOf[r] \in Key /\ FreshOf[r] # None
  BY SessionAssumption, ZenonT(40) DEF ReserveFresh, OtherActors, IInv, Types, RunRecord, Reserved
<1>2. CASE Goto(r, "release") /\ UNCHANGED <<state, sess>>
  <2>1. /\ run' \in [Run -> RunRecord] /\ run'[r].pc = "release" /\ Others(r)
        /\ run'[r].key = run[r].key /\ run'[r].failed = run[r].failed
    BY <1>2, GotoFacts, Zenon DEF RunPc, HoldPc
  <2>2. Types'
    BY <1>1, <1>2, <2>1, Zenon DEF IInv, Types
  <2>3. Advance(r) /\ KeepsKey(r) /\ Revised
    BY <1>1, <1>2, <2>1, Zenon DEF Advance, FreshPc, EndPc, KeepsKey, HoldPc, Revised
  <2> QED  BY <1>1, <2>1, <2>2, <2>3, <1>2, MoveInv, Zenon
<1>3. CASE reserve(r, FreshOf[r]) /\ Goto(r, "switching")
  <2>1. /\ run' \in [Run -> RunRecord] /\ run'[r].pc = "switching" /\ Others(r)
        /\ run'[r].key = run[r].key /\ run'[r].failed = run[r].failed
    BY <1>3, GotoFacts, Zenon DEF RunPc, HoldPc
  <2>2. /\ ~state[FreshOf[r]].active /\ state' \in [Key -> KeyState] /\ state'[FreshOf[r]].active
        /\ Revised /\ \A l \in Key : l # FreshOf[r] => state'[l].active = state[l].active
        /\ sess' \in SessionRecord /\ sess'.running = sess.running /\ sess'.closed = sess.closed
        /\ sess'.shutdownDone = sess.shutdownDone
    BY <1>1, <1>3, ReserveFacts, Zenon
  <2>3. Types'
    BY <1>1, <2>1, <2>2, Zenon DEF IInv, Types
  <2>4. Advance(r)
    BY <1>1, <2>1, <2>2, Zenon DEF Advance, FreshPc
  <2>5. Holds(r, run[r].key) /\ \A l \in Key : Holds(r, l)' => l = run[r].key \/ l = FreshOf[r]
    BY <1>1, <2>1, Zenon DEF Holds, HoldPc
  <2>6. run[r].key # FreshOf[r]
    BY <1>1, <2>2, <2>5, Zenon DEF IInv, Reserved
  <2> QED  BY <1>1, <2>1, <2>2, <2>3, <2>4, <2>5, <2>6, TakesInv, Zenon
<1> QED  BY <1>2, <1>3, Zenon DEF ReserveFresh

\* The first key is given back when the run moved to the fresh one.
LEMMA requireFreshInv == ASSUME IInv, NEW r \in Run, requireFresh(r) PROVE IInv'
<1>1. /\ run[r].pc = "switching" /\ UNCHANGED <<cast, log, sup, rd, cancel, shutdown, diagnosed>>
      /\ run[r].key \in Key /\ FreshOf[r] \in Key /\ run[r].key # FreshOf[r]
  BY SessionAssumption DEF requireFresh, OtherActors, IInv, Types, RunRecord, Reserved
<1>2. Holds(r, run[r].key) /\ Holds(r, FreshOf[r])
  BY <1>1, Zenon DEF Holds, HoldPc
<1>3. CASE release(FreshOf[r]) /\ Goto(r, "release")
  <2>1. /\ run' \in [Run -> RunRecord] /\ run'[r].pc = "release" /\ Others(r)
        /\ run'[r].key = run[r].key /\ run'[r].failed = run[r].failed
    BY <1>3, GotoFacts, Zenon DEF RunPc, HoldPc
  <2>2. /\ state' \in [Key -> KeyState] /\ Revised
        /\ \A l \in Key : l # FreshOf[r] => state'[l].active = state[l].active
        /\ sess' \in SessionRecord /\ sess'.running = sess.running /\ sess'.closed = sess.closed
        /\ sess'.shutdownDone = sess.shutdownDone
    BY <1>1, <1>3, ReleaseFacts, Zenon
  <2>3. Types'
    BY <1>1, <2>1, <2>2, Zenon DEF IInv, Types
  <2>4. Advance(r)
    BY <1>1, <2>1, <2>2, Zenon DEF Advance, FreshPc, EndPc
  <2>5. \A l \in Key : Holds(r, l)' => l = run[r].key
    BY <2>1, Zenon DEF Holds
  <2> QED  BY <1>1, <1>2, <2>1, <2>2, <2>3, <2>4, <2>5, GivesUpInv, Zenon
<1>4. CASE /\ log[FreshOf[r]] = <<>> /\ release(run[r].key)
           /\ run' = [run EXCEPT ![r].pc = "boundary", ![r].key = FreshOf[r]]
  <2> DEFINE R == [run[r] EXCEPT !.pc = "boundary", !.key = FreshOf[r]]
  <2>0. run \in [Run -> RunRecord]
    BY Zenon DEF IInv, Types
  <2>1. R \in RunRecord /\ R.pc = "boundary" /\ R.key = FreshOf[r] /\ R.failed = run[r].failed
    BY <1>1, <2>0, ZenonT(40) DEF RunRecord, RunPc, HoldPc
  <2>2. run' = [run EXCEPT ![r] = R]
    BY <1>4, Zenon
  <2> HIDE DEF R
  <2>3. run' \in [Run -> RunRecord] /\ run'[r] = R /\ Others(r)
    BY <2>0, <2>1, <2>2, Zenon DEF Others
  <2>4. /\ state' \in [Key -> KeyState] /\ Revised
        /\ \A l \in Key : l # run[r].key => state'[l].active = state[l].active
        /\ sess' \in SessionRecord /\ sess'.running = sess.running /\ sess'.closed = sess.closed
        /\ sess'.shutdownDone = sess.shutdownDone
    BY <1>1, <1>4, ReleaseFacts, Zenon
  <2>5. Types'
    BY <1>1, <2>3, <2>4, Zenon DEF IInv, Types
  <2>6. ~Posted(FreshOf[r], runId(r))
    BY <1>4 DEF Posted
  <2>7. Advance(r)
    BY <1>1, <2>1, <2>3, <2>4, <2>6, Zenon DEF Advance, FreshPc
  <2>8. \A l \in Key : Holds(r, l)' => l = FreshOf[r]
    BY <2>1, <2>3, Zenon DEF Holds
  <2> QED  BY <1>1, <1>2, <2>1, <2>3, <2>4, <2>5, <2>7, <2>8, GivesUpInv, Zenon
<1> QED  BY <1>3, <1>4, Zenon DEF requireFresh

\* What an assignment to one run changes.
LEMMA SetRunFacts ==
  ASSUME IInv, NEW r \in Run, NEW R \in RunRecord, run' = [run EXCEPT ![r] = R]
  PROVE  run' \in [Run -> RunRecord] /\ run'[r] = R /\ Others(r)
BY Zenon DEF IInv, Types, Others

\* A changed place keeps the run's key and its failure.
LEMMA PcFacts ==
  ASSUME NEW R \in RunRecord, NEW q \in RunPc
  PROVE  /\ [R EXCEPT !.pc = q] \in RunRecord /\ [R EXCEPT !.pc = q].pc = q
         /\ [R EXCEPT !.pc = q].key = R.key /\ [R EXCEPT !.pc = q].failed = R.failed
BY Zenon DEF RunRecord

\* The boundary is the first record of the run's block.
LEMMA recordBoundaryInv == ASSUME IInv, NEW r \in Run, recordBoundary(r) PROVE IInv'
<1> DEFINE k == run[r].key
           S == [state[k] EXCEPT !.failed = FALSE]
<1>1. /\ run[r].pc = "boundary" /\ k \in Key
      /\ UNCHANGED <<cast, sess, sup, rd, cancel, shutdown, diagnosed>>
  BY Zenon DEF recordBoundary, OtherActors, IInv, Types, RunRecord
<1>2. S \in KeyState /\ S.active = state[k].active /\ S.revision = state[k].revision
  <2>1. state[k] \in KeyState
    BY <1>1, Zenon DEF IInv, Types
  <2> QED  BY <2>1, Zenon DEF KeyState
<1>3. state' = [state EXCEPT ![k] = S]
  BY Zenon DEF recordBoundary
<1> HIDE DEF S
<1>4. /\ state' \in [Key -> KeyState] /\ Revised /\ \A l \in Key : state'[l].active = state[l].active
  BY <1>1, <1>2, <1>3, Zenon DEF IInv, Types, Revised
<1>5. CASE Goto(r, "release") /\ UNCHANGED log
  <2>1. /\ run' \in [Run -> RunRecord] /\ run'[r].pc = "release" /\ Others(r)
        /\ run'[r].key = run[r].key /\ run'[r].failed = run[r].failed
    BY <1>5, GotoFacts, Zenon DEF RunPc, HoldPc
  <2>2. Types'
    BY <1>1, <1>4, <1>5, <2>1, Zenon DEF IInv, Types
  <2>3. Advance(r) /\ KeepsKey(r)
    BY <1>1, <1>4, <2>1, Zenon DEF Advance, FreshPc, EndPc, KeepsKey, HoldPc
  <2> QED  BY <1>1, <1>4, <1>5, <2>1, <2>2, <2>3, MoveInv, Zenon
<1>6. CASE Append1(k, "boundary", r, runId(r)) /\ Goto(r, "publish")
  <2> DEFINE e == [kind |-> "boundary", run |-> r, id |-> runId(r)]
  <2>1. e \in Entry /\ e.run = r /\ e.kind = "boundary" /\ e.id = runId(r)
    BY Zenon DEF Entry, Kind, Id, runId
  <2>2. log' = [log EXCEPT ![run[r].key] = Append(@, e)]
    BY <1>6, Zenon DEF Append1
  <2> HIDE DEF e
  <2>3. /\ run' \in [Run -> RunRecord] /\ run'[r].pc = "publish" /\ Others(r)
        /\ run'[r].key = run[r].key /\ run'[r].failed = run[r].failed
    BY <1>6, GotoFacts, Zenon DEF RunPc, HoldPc
  <2>4. log' \in [Key -> Seq(Entry)]
    <3>1. log \in [Key -> Seq(Entry)] /\ Append(log[k], e) \in Seq(Entry)
      BY <1>1, <2>1, AppendFacts, Zenon DEF IInv, Types
    <3> QED  BY <2>2, <3>1, Zenon
  <2>5. Types'
    BY <1>1, <1>4, <2>3, <2>4, Zenon DEF IInv, Types
  <2>6. Records(r, e)
    BY <1>1, <2>1, <2>2, <2>3, Zenon DEF Records
  <2>7. KeepsKey(r)
    BY <1>1, <1>4, <2>3, Zenon DEF KeepsKey, HoldPc
  <2> QED  BY <1>1, <1>4, <2>3, <2>5, <2>6, <2>7, RecordMoveInv, Zenon
<1> QED  BY <1>5, <1>6, Zenon DEF recordBoundary

\* Only then do readers learn of the run.
LEMMA PublishBoundaryInv == ASSUME IInv, NEW r \in Run, PublishBoundary(r) PROVE IInv'
<1> DEFINE k == run[r].key
           b == BoundaryOf(r, k)
           S == [state[k] EXCEPT !.boundary = b]
<1>1. /\ run[r].pc = "publish" /\ k \in Key /\ log[k] \in Seq(Entry)
      /\ UNCHANGED <<cast, log, sess, sup, rd, cancel, shutdown, diagnosed>>
  BY Zenon DEF PublishBoundary, OtherActors, IInv, Types, RunRecord
<1>2. \E i \in DOMAIN log[k] : log[k][i].kind = "boundary" /\ log[k][i].run = r
  <2>1. /\ log[k] # <<>> /\ log[k][Len(log[k])].run = r
        /\ log[k][Len(log[k])].kind \in LastKinds("publish")
    BY <1>1, Zenon DEF IInv, LastRecord, OpenPc
  <2>2. log[k][Len(log[k])].kind = "boundary"
    BY <2>1, Zenon DEF LastKinds
  <2>3. Len(log[k]) \in DOMAIN log[k]
    BY <1>1, <2>1
  <2> QED  BY <2>1, <2>2, <2>3, Zenon
<1>3. b \in DOMAIN log[k]
  BY <1>2, Zenon DEF BoundaryOf
<1>4. b \in Nat
  BY <1>1, <1>3
<1>5. state' = [state EXCEPT ![k] = changeLocked(S)]
  BY Zenon DEF PublishBoundary
<1> HIDE DEF b
<1>6. S \in KeyState /\ S.active = state[k].active /\ S.revision = state[k].revision
  <2>1. state[k] \in KeyState
    BY <1>1, Zenon DEF IInv, Types
  <2> QED  BY <1>4, <2>1, Zenon DEF KeyState
<1> HIDE DEF S
<1>7. /\ state' \in [Key -> KeyState] /\ Revised /\ \A l \in Key : state'[l].active = state[l].active
  BY <1>1, <1>5, <1>6, ChangeFacts DEF IInv, Types, Revised
<1>8. /\ run' \in [Run -> RunRecord] /\ run'[r].pc = "start" /\ Others(r)
      /\ run'[r].key = run[r].key /\ run'[r].failed = run[r].failed
  BY GotoFacts, Zenon DEF PublishBoundary, RunPc, HoldPc
<1>9. Types'
  BY <1>1, <1>7, <1>8, Zenon DEF IInv, Types
<1>10. Advance(r)
  BY <1>1, <1>8, Zenon DEF Advance, OpenPc, LastKinds
<1>11. KeepsKey(r)
  BY <1>1, <1>7, <1>8, Zenon DEF KeepsKey, HoldPc
<1> QED  BY <1>1, <1>7, <1>8, <1>9, <1>10, <1>11, MoveInv, Zenon

-----------------------------------------------------------------------------
(* The drain. *)

\* Input is admitted from here on.
LEMMA openLiveInv == ASSUME IInv, NEW r \in Run, openLive(r) PROVE IInv'
<1> DEFINE R == [run[r] EXCEPT !.pc = "user", !.stream = "open"]
<1>1. /\ run[r].pc = "start" /\ run[r].key \in Key
      /\ UNCHANGED <<cast, log, state, sup, rd, cancel, shutdown, diagnosed>>
  BY Zenon DEF openLive, OtherActors, IInv, Types, RunRecord
<1>2. R \in RunRecord /\ R.pc = "user" /\ R.key = run[r].key /\ R.failed = run[r].failed
  <2>1. run[r] \in RunRecord
    BY Zenon DEF IInv, Types
  <2> QED  BY <2>1, Zenon DEF RunRecord, RunPc, HoldPc
<1>3. run' = [run EXCEPT ![r] = R]
  BY Zenon DEF openLive
<1> HIDE DEF R
<1>4. run' \in [Run -> RunRecord] /\ run'[r] = R /\ Others(r)
  BY <1>2, <1>3, SetRunFacts, Zenon
<1>5. sess' \in SessionRecord /\ sess'.running = sess.running /\ sess'.closed = sess.closed
      /\ sess'.shutdownDone = sess.shutdownDone
  BY <1>1, Zenon DEF openLive, IInv, Types, SessionRecord
<1>6. Types'
  BY <1>1, <1>4, <1>5, Zenon DEF IInv, Types
<1>7. Advance(r)
  BY <1>1, <1>2, <1>4, Zenon DEF Advance, OpenPc, LastKinds
<1>8. KeepsKey(r) /\ Revised
  BY <1>1, <1>2, <1>4, <1>5, Zenon DEF KeepsKey, HoldPc, Revised
<1> QED  BY <1>1, <1>4, <1>6, <1>7, <1>8, MoveInv, Zenon

\* No input is admitted any more.
LEMMA sealInv == ASSUME IInv, NEW r \in Run, seal(r) PROVE IInv'
<1> DEFINE R == [run[r] EXCEPT !.pc = "sealing", !.sealed = TRUE]
<1>1. /\ run[r].pc = "drain" /\ UNCHANGED <<cast, log, state, sess, sup, rd, cancel, shutdown, diagnosed>>
  BY Zenon DEF seal, OtherActors
<1>2. R \in RunRecord /\ R.pc = "sealing" /\ R.key = run[r].key /\ R.failed = run[r].failed
  <2>1. run[r] \in RunRecord
    BY Zenon DEF IInv, Types
  <2> QED  BY <2>1, Zenon DEF RunRecord, RunPc, HoldPc
<1>3. run' = [run EXCEPT ![r] = R]
  BY Zenon DEF seal
<1> HIDE DEF R
<1>4. run' \in [Run -> RunRecord] /\ run'[r] = R /\ Others(r)
  BY <1>2, <1>3, SetRunFacts, Zenon
<1>6. Types'
  BY <1>1, <1>4, Zenon DEF IInv, Types
<1>7. Advance(r)
  BY <1>1, <1>2, <1>4, Zenon DEF Advance, OpenPc, LastKinds
<1>8. KeepsKey(r) /\ Revised
  BY <1>1, <1>2, <1>4, Zenon DEF KeepsKey, HoldPc, Revised
<1> QED  BY <1>1, <1>4, <1>6, <1>7, <1>8, MoveInv, Zenon

\* The run is no longer found by Supplement.
LEMMA closeLiveInv == ASSUME IInv, NEW r \in Run, closeLive(r) PROVE IInv'
<1>1. /\ run[r].pc = "close" /\ run[r].key \in Key
      /\ UNCHANGED <<cast, log, state, sup, rd, cancel, shutdown, diagnosed>>
  BY Zenon DEF closeLive, OtherActors, IInv, Types, RunRecord
<1>2. /\ run' \in [Run -> RunRecord] /\ run'[r].pc = "release" /\ Others(r)
      /\ run'[r].key = run[r].key /\ run'[r].failed = run[r].failed
  BY GotoFacts, Zenon DEF closeLive, RunPc, HoldPc
<1>3. sess' \in SessionRecord /\ sess'.running = sess.running /\ sess'.closed = sess.closed
      /\ sess'.shutdownDone = sess.shutdownDone
  BY <1>1, Zenon DEF closeLive, IInv, Types, SessionRecord
<1>4. Types'
  BY <1>1, <1>2, <1>3, Zenon DEF IInv, Types
<1>5. Advance(r)
  BY <1>1, <1>2, Zenon DEF Advance, EndPc
<1>6. KeepsKey(r) /\ Revised
  BY <1>1, <1>2, <1>3, Zenon DEF KeepsKey, HoldPc, Revised
<1> QED  BY <1>1, <1>2, <1>4, <1>5, <1>6, MoveInv, Zenon

\* The key is given back after the last record.
LEMMA ReleaseInv == ASSUME IInv, NEW r \in Run, Release(r) PROVE IInv'
<1>1. /\ run[r].pc = "release" /\ UNCHANGED <<cast, log, sup, rd, cancel, shutdown, diagnosed>>
      /\ run[r].key \in Key
  BY Zenon DEF Release, OtherActors, IInv, Types, RunRecord
<1>2. /\ run' \in [Run -> RunRecord] /\ run'[r].pc = "finishing" /\ Others(r)
      /\ run'[r].key = run[r].key /\ run'[r].failed = run[r].failed
  BY GotoFacts, Zenon DEF Release, RunPc
<1>3. /\ state' \in [Key -> KeyState] /\ Revised
      /\ \A l \in Key : l # run[r].key => state'[l].active = state[l].active
      /\ sess' \in SessionRecord /\ sess'.running = sess.running /\ sess'.closed = sess.closed
      /\ sess'.shutdownDone = sess.shutdownDone
  BY <1>1, ReleaseFacts, Zenon DEF Release
<1>4. Types'
  BY <1>1, <1>2, <1>3, Zenon DEF IInv, Types
<1>5. Advance(r)
  BY <1>1, <1>2, <1>3, Zenon DEF Advance, EndPc
<1>6. Holds(r, run[r].key) /\ \A l \in Key : ~Holds(r, l)'
  BY <1>1, <1>2, Zenon DEF Holds, HoldPc
<1> QED  BY <1>1, <1>2, <1>3, <1>4, <1>5, <1>6, GivesUpInv, Zenon

\* The run is no longer counted.
LEMMA finishAdmissionInv == ASSUME IInv, NEW r \in Run, finishAdmission(r) PROVE IInv'
<1> DEFINE R == [NewRun EXCEPT !.pc = "over", !.key = run[r].key,
                               !.failed = run[r].failed, !.sealed = run[r].sealed]
<1>1. /\ run[r].pc = "finishing" /\ run[r] \in RunRecord /\ sess \in SessionRecord
      /\ UNCHANGED <<cast, log, state, sup, rd, cancel, shutdown, diagnosed>>
  BY Zenon DEF finishAdmission, OtherActors, IInv, Types
<1>2. R \in RunRecord /\ R.pc = "over" /\ R.key = run[r].key /\ R.failed = run[r].failed
  BY <1>1, Zenon DEF NewRun, RunRecord, RunPc
<1>3. run' = [run EXCEPT ![r] = R]
  BY Zenon DEF finishAdmission
<1> HIDE DEF R
<1>4. run' \in [Run -> RunRecord] /\ run'[r] = R /\ Others(r)
  BY <1>2, <1>3, SetRunFacts, Zenon
<1>5. sess' \in SessionRecord
  <2> DEFINE d == IF sess.closed /\ sess.running = 1 THEN sess.shutdownDone + 1 ELSE sess.shutdownDone
  <2>1. sess.running - 1 \in Int /\ d \in Nat
    BY <1>1 DEF SessionRecord
  <2>2. sess' = [sess EXCEPT !.running = sess.running - 1, !.shutdownDone = d]
    BY Zenon DEF finishAdmission
  <2> HIDE DEF d
  <2> QED  BY <1>1, <2>1, <2>2, Zenon DEF SessionRecord
<1>6. Types'
  BY <1>1, <1>4, <1>5, Zenon DEF IInv, Types
<1>7. Advance(r) /\ KeepsKey(r) /\ Revised
  BY <1>1, <1>2, <1>4, Zenon DEF Advance, EndPc, KeepsKey, HoldPc, Revised
<1> QED  BY <1>1, <1>4, <1>6, <1>7, MoveInv, Zenon

\* The user's turn follows the boundary.
LEMMA RecordUserTurnInv == ASSUME IInv, NEW r \in Run, RecordUserTurn(r) PROVE IInv'
<1> DEFINE R == [run[r] EXCEPT !.pc = "drain"]
<1>1. R \in RunRecord /\ R.pc = "drain" /\ R.key = run[r].key /\ R.failed = run[r].failed
  BY PcFacts, Zenon DEF IInv, Types, RunPc, HoldPc
<1>2. /\ record(r, R, "user", None) /\ None \in Id /\ run[r].pc = "user"
      /\ UNCHANGED <<cast, diagnosed, rd, sess, cancel, shutdown, sup>>
  BY Zenon DEF RecordUserTurn, OtherActors, Id
<1> HIDE DEF R
<1>3. /\ run[r].pc \in OpenPc /\ R.pc \in OpenPc /\ LastKinds(run[r].pc) \subseteq LastKinds(R.pc)
      /\ "user" \in LastKinds(R.pc) \ {"boundary", "terminal"}
      /\ \A d \in LastKinds(run[r].pc) : Rank(d) < Rank("user")
  BY <1>1, <1>2 DEF OpenPc, LastKinds, Rank
<1> QED  BY <1>1, <1>2, <1>3, RecordInv, Zenon DEF IInv, Types

\* Input is recorded before the result and the terminal.
LEMMA RecordSupplementInv ==
  ASSUME IInv, NEW r \in Run, NEW c \in Call, RecordSupplement(r, c) PROVE IInv'
<1>1. /\ record(r, run[r], "supplement", IdOf[c]) /\ IdOf[c] \in Id /\ run[r].pc \in {"drain", "sealing"}
      /\ run[r] \in RunRecord
      /\ UNCHANGED <<cast, diagnosed, rd, sess, cancel, shutdown>>
  BY Zenon DEF RecordSupplement, OtherActors, Id, IInv, Types
<1>2. sup' \in [Call -> [pc : SupPc, run : Run \cup {None}, dup : BOOLEAN]]
  BY DEF RecordSupplement, IInv, Types, SupPc
<1>3. /\ run[r].pc \in OpenPc
      /\ "supplement" \in LastKinds(run[r].pc) \ {"boundary", "terminal"}
      /\ \A d \in LastKinds(run[r].pc) :
           Rank(d) < Rank("supplement") \/ (Rank(d) = 2 /\ Rank("supplement") = 2)
  BY <1>1 DEF OpenPc, LastKinds, Rank
<1> QED  BY <1>1, <1>2, <1>3, RecordInv, Zenon

\* A step of the drain that only skips a record.
LEMMA SkipInv ==
  ASSUME IInv, NEW r \in Run, NEW R \in RunRecord, run' = [run EXCEPT ![r] = R],
         R.key = run[r].key, R.failed = run[r].failed, run[r].pc \in OpenPc, R.pc \in OpenPc,
         LastKinds(run[r].pc) \subseteq LastKinds(R.pc),
         UNCHANGED <<cast, log, state, sess, sup, rd, cancel, shutdown, diagnosed>>
  PROVE  IInv'
<1>1. run' \in [Run -> RunRecord] /\ run'[r] = R /\ Others(r)
  BY SetRunFacts, Zenon
<1>2. Types'
  BY <1>1, Zenon DEF IInv, Types
<1>3. Advance(r)
  BY <1>1, Zenon DEF Advance
<1>4. KeepsKey(r) /\ Revised
  BY <1>1, Zenon DEF KeepsKey, HoldPc, OpenPc, Revised
<1> QED  BY <1>1, <1>2, <1>3, <1>4, MoveInv, Zenon

\* Events are recorded while the stream lasts.
LEMMA DrainEventInv == ASSUME IInv, NEW r \in Run, DrainEvent(r) PROVE IInv'
<1> DEFINE R == [run[r] EXCEPT !.events = @ + 1]
           B == [R EXCEPT !.bad = TRUE, !.stopped = TRUE]
<1>1. R \in RunRecord /\ R.pc = run[r].pc /\ R.key = run[r].key /\ R.failed = run[r].failed
  <2>1. run[r] \in RunRecord
    BY Zenon DEF IInv, Types
  <2> QED  BY <2>1 DEF RunRecord
<1>2. /\ None \in Id /\ run[r].pc = "drain" /\ run[r].pc \in OpenPc
      /\ UNCHANGED <<cast, diagnosed, rd, sess, cancel, shutdown, sup>>
  BY Zenon DEF DrainEvent, OtherActors, Id, OpenPc
<1>3. \/ run' = [run EXCEPT ![r] = B] /\ UNCHANGED <<log, state>>
      \/ record(r, R, "event", None)
  BY Zenon DEF DrainEvent
<1> HIDE DEF R
<1>4. B \in RunRecord /\ B.pc = run[r].pc /\ B.key = run[r].key /\ B.failed = run[r].failed
  BY <1>1, Zenon DEF RunRecord
<1> HIDE DEF B
<1>5. /\ "event" \in LastKinds("drain") \ {"boundary", "terminal"}
      /\ \A d \in LastKinds("drain") :
           Rank(d) < Rank("event") \/ (Rank(d) = 2 /\ Rank("event") = 2)
  BY DEF LastKinds, Rank
<1>6. CASE record(r, R, "event", None)
  BY <1>1, <1>2, <1>5, <1>6, RecordInv, Zenon DEF IInv, Types
<1>7. CASE run' = [run EXCEPT ![r] = B] /\ UNCHANGED <<log, state>>
  BY <1>2, <1>4, <1>7, SkipInv, Zenon
<1> QED  BY <1>3, <1>6, <1>7, Zenon

\* The result follows the events.
LEMMA RecordResultTextInv == ASSUME IInv, NEW r \in Run, RecordResultText(r) PROVE IInv'
<1> DEFINE R == [run[r] EXCEPT !.pc = "done"]
<1>1. R \in RunRecord /\ R.pc = "done" /\ R.key = run[r].key /\ R.failed = run[r].failed
  BY PcFacts, ZenonT(40) DEF IInv, Types, RunPc, HoldPc
<1>2. /\ None \in Id /\ run[r].pc = "sealing"
      /\ UNCHANGED <<cast, diagnosed, rd, sess, cancel, shutdown, sup>>
  BY Zenon DEF RecordResultText, OtherActors, Id
<1>3. \/ run' = [run EXCEPT ![r] = R] /\ UNCHANGED <<log, state>>
      \/ record(r, R, "result", None)
  BY Zenon DEF RecordResultText
<1> HIDE DEF R
<1>4. /\ run[r].pc \in OpenPc /\ R.pc \in OpenPc /\ LastKinds(run[r].pc) \subseteq LastKinds(R.pc)
      /\ "result" \in LastKinds(R.pc) \ {"boundary", "terminal"}
      /\ \A d \in LastKinds(run[r].pc) : Rank(d) < Rank("result")
  BY <1>1, <1>2 DEF OpenPc, LastKinds, Rank
<1>5. CASE record(r, R, "result", None)
  BY <1>1, <1>2, <1>4, <1>5, RecordInv, Zenon DEF IInv, Types
<1>6. CASE run' = [run EXCEPT ![r] = R] /\ UNCHANGED <<log, state>>
  BY <1>1, <1>2, <1>4, <1>6, SkipInv, Zenon
<1> QED  BY <1>3, <1>5, <1>6, Zenon

\* Done follows the result.
LEMMA RecordDoneInv == ASSUME IInv, NEW r \in Run, RecordDone(r) PROVE IInv'
<1> DEFINE R == [run[r] EXCEPT !.pc = "terminal"]
<1>1. R \in RunRecord /\ R.pc = "terminal" /\ R.key = run[r].key /\ R.failed = run[r].failed
  BY PcFacts, Zenon DEF IInv, Types, RunPc, HoldPc
<1>2. /\ None \in Id /\ run[r].pc = "done"
      /\ UNCHANGED <<cast, diagnosed, rd, sess, cancel, shutdown, sup>>
  BY Zenon DEF RecordDone, OtherActors, Id
<1>3. \/ run' = [run EXCEPT ![r] = R] /\ UNCHANGED <<log, state>>
      \/ record(r, R, "done", None)
  BY Zenon DEF RecordDone
<1> HIDE DEF R
<1>4. /\ run[r].pc \in OpenPc /\ R.pc \in OpenPc /\ LastKinds(run[r].pc) \subseteq LastKinds(R.pc)
      /\ "done" \in LastKinds(R.pc) \ {"boundary", "terminal"}
      /\ \A d \in LastKinds(run[r].pc) : Rank(d) < Rank("done")
  BY <1>1, <1>2 DEF OpenPc, LastKinds, Rank
<1>5. CASE record(r, R, "done", None)
  BY <1>1, <1>2, <1>4, <1>5, RecordInv, Zenon DEF IInv, Types
<1>6. CASE run' = [run EXCEPT ![r] = R] /\ UNCHANGED <<log, state>>
  BY <1>1, <1>2, <1>4, <1>6, SkipInv, Zenon
<1> QED  BY <1>3, <1>5, <1>6, Zenon

\* The terminal ends the block.
LEMMA RecordTerminalInv == ASSUME IInv, NEW r \in Run, RecordTerminal(r) PROVE IInv'
<1> DEFINE R == [run[r] EXCEPT !.pc = "close"]
<1>1. R \in RunRecord /\ R.pc = "close" /\ R.key = run[r].key /\ R.failed = run[r].failed
  BY PcFacts, ZenonT(40) DEF IInv, Types, RunPc, HoldPc
<1>2. /\ record(r, R, "terminal", None) /\ None \in Id /\ run[r].pc = "terminal"
      /\ UNCHANGED <<cast, diagnosed, rd, sess, cancel, shutdown, sup>>
  BY Zenon DEF RecordTerminal, OtherActors, Id
<1> HIDE DEF R
<1>3. run[r].pc \in OpenPc
  BY <1>2, Zenon DEF OpenPc
<1> QED  BY <1>1, <1>2, <1>3, RecordInv, Zenon DEF IInv, Types

-----------------------------------------------------------------------------
(* Steps that leave every run where it is. *)

Still == \A s \in Run : run'[s].pc = run[s].pc /\ run'[s].key = run[s].key
                        /\ run'[s].failed = run[s].failed

\* Steps that record nothing and move no run past its places keep the histories.
LEMMA StillHistory ==
  ASSUME IInv, Types', Still, UNCHANGED <<cast, log, state, diagnosed>>
  PROVE  History' /\ Reserved'
<1>1. Fresh'
  <2>1. \A k \in Key, s \in Run : Posted(k, runId(s))' <=> Posted(k, runId(s))
    BY Zenon DEF Posted, runId
  <2>2. \A s \in Run : run[s].key \in Key
    BY Zenon DEF IInv, Types, RunRecord
  <2> SUFFICES ASSUME NEW s \in Run
               PROVE  /\ run'[s].pc \in FreshPc =>
                           \A k \in Key : \A i \in DOMAIN log[k] : log[k][i].run # s
                      /\ run'[s].pc = "boundary" => ~Posted(run[s].key, runId(s))'
    BY Zenon DEF Fresh
  <2> QED  BY <2>1, <2>2 DEF IInv, Still, Fresh, Posted, runId
<1>6. LastRecord'
  <2> SUFFICES ASSUME NEW s \in Run, run'[s].pc \in OpenPc
               PROVE  /\ log[run'[s].key] # <<>>
                      /\ log[run'[s].key][Len(log[run'[s].key])].run = s
                      /\ log[run'[s].key][Len(log[run'[s].key])].kind \in LastKinds(run'[s].pc)
    BY Zenon DEF LastRecord
  <2> QED  BY Zenon DEF IInv, Still, LastRecord
<1>2. HistoryInOrder' /\ Blocks'
  BY Zenon DEF IInv, HistoryInOrder, Blocks
<1>3. Diagnosed'
  BY Zenon DEF IInv, Still, Diagnosed
<1>4. Settled'
  <2>1. ASSUME NEW s \in Run PROVE (Begun(s)' <=> Begun(s)) /\ (Recorded(s)' <=> Recorded(s))
    BY Zenon DEF Begun, Recorded, Still
  <2> QED  BY <2>1, Zenon DEF IInv, Settled, Still
<1>5. Reserved'
  <2>1. \A s \in Run, k \in Key : Holds(s, k)' <=> Holds(s, k)
    BY Zenon DEF Still, Holds
  <2> QED  BY <2>1, Zenon DEF IInv, Still, Reserved
<1> QED  BY <1>1, <1>2, <1>3, <1>4, <1>5, <1>6, Zenon DEF History

\* They keep the readers too.
LEMMA StillInv ==
  ASSUME IInv, Types', Still, UNCHANGED <<cast, log, state, rd, diagnosed>>
  PROVE  IInv'
<1>1. History' /\ Reserved'
  BY StillHistory, Zenon
<1>2. Readers'
  BY ReadersKept, Zenon DEF IInv, Revised
<1> QED  BY <1>1, <1>2, Zenon DEF IInv, History

\* The execution ends.
LEMMA StreamEndsInv == ASSUME IInv, NEW r \in Run, StreamEnds(r) PROVE IInv'
<1> DEFINE R == [run[r] EXCEPT !.stream = "finished"]
<1>1. run[r] \in RunRecord /\ UNCHANGED <<cast, log, state, sess, sup, rd, cancel, shutdown, diagnosed>>
  BY Zenon DEF StreamEnds, OtherActors, IInv, Types
<1>2. R \in RunRecord /\ R.pc = run[r].pc /\ R.key = run[r].key /\ R.failed = run[r].failed
  BY <1>1, Zenon DEF RunRecord
<1>3. run' = [run EXCEPT ![r] = R]
  BY Zenon DEF StreamEnds
<1> HIDE DEF R
<1>4. Types' /\ Still
  BY <1>1, <1>2, <1>3, SetRunFacts, Zenon DEF IInv, Types, Others, Still
<1> QED  BY <1>1, <1>4, StillInv, Zenon

\* The client of an attended run goes away.
LEMMA DisconnectInv == ASSUME IInv, NEW r \in Run, Disconnect(r) PROVE IInv'
<1> DEFINE R == [run[r] EXCEPT !.cancelled = TRUE]
<1>1. run[r] \in RunRecord /\ UNCHANGED <<cast, log, state, sess, sup, rd, cancel, shutdown, diagnosed>>
  BY Zenon DEF Disconnect, IInv, Types
<1>2. R \in RunRecord /\ R.pc = run[r].pc /\ R.key = run[r].key /\ R.failed = run[r].failed
  BY <1>1, Zenon DEF RunRecord
<1>3. run' = [run EXCEPT ![r] = R]
  BY Zenon DEF Disconnect
<1> HIDE DEF R
<1>4. Types' /\ Still
  BY <1>1, <1>2, <1>3, SetRunFacts, Zenon DEF IInv, Types, Others, Still
<1> QED  BY <1>1, <1>4, StillInv, Zenon

SupRecord == [pc : SupPc, run : Run \cup {None}, dup : BOOLEAN]

\* What SupGoto changes.
LEMMA SupGotoFacts ==
  ASSUME IInv, NEW c \in Call, NEW q \in SupPc, SupGoto(c, q)
  PROVE  sup' \in [Call -> SupRecord]
<1>1. sup \in [Call -> SupRecord] /\ sup[c] \in SupRecord
  BY Zenon DEF IInv, Types, SupRecord
<1>2. [NewSup EXCEPT !.pc = q] \in SupRecord /\ [sup[c] EXCEPT !.pc = q] \in SupRecord
  BY <1>1, Zenon DEF SupRecord, NewSup
<1> QED  BY <1>1, <1>2, Zenon DEF SupGoto

\* The calls of Supplement before they are handed over.
LEMMA AskingInv ==
  ASSUME IInv, NEW c \in Call, LookupLive(c) \/ enter(c) \/ requireNewMessageID(c) \/ Send(c)
  PROVE  IInv'
<1>1. UNCHANGED <<cast, log, state, sess, run, rd, cancel, shutdown, diagnosed>>
  BY Zenon DEF LookupLive, enter, requireNewMessageID, Send, SupVars, OtherActors
<1>2. sup' \in [Call -> SupRecord]
  <2>0. sup \in [Call -> SupRecord] /\ sup[c] \in SupRecord
    BY Zenon DEF IInv, Types, SupRecord
  <2>1. CASE LookupLive(c)
    <3>1. sess.live[Home] \in Run \cup {None}
      BY SessionAssumption, Zenon DEF IInv, Types, SessionRecord
    <3> DEFINE S == [sup[c] EXCEPT !.pc = IF sess.live[Home] = None THEN "rejected" ELSE "enter",
                                   !.run = sess.live[Home]]
    <3>2. S \in SupRecord
      BY <2>0, <3>1, Zenon DEF SupRecord, SupPc, Returned
    <3>3. sup' = [sup EXCEPT ![c] = S]
      BY <2>1, Zenon DEF LookupLive
    <3> QED  BY <2>0, <3>2, <3>3, Zenon
  <2>2. CASE enter(c)
    <3> DEFINE dup == IdOf[c] \in run[sup[c].run].ids
               S == [sup[c] EXCEPT !.pc = IF dup THEN "send" ELSE "check", !.dup = dup]
    <3>0. dup \in BOOLEAN
      OBVIOUS
    <3> HIDE DEF dup
    <3>1. S \in SupRecord
      BY <2>0, <3>0, Zenon DEF SupRecord, SupPc
    <3>2. SupGoto(c, "rejected") \/ sup' = [sup EXCEPT ![c] = S]
      BY <2>2, Zenon DEF enter, dup
    <3>3. "rejected" \in SupPc
      BY Zenon DEF SupPc, Returned
    <3> QED  BY <2>0, <3>1, <3>2, <3>3, SupGotoFacts, Zenon
  <2>3. CASE requireNewMessageID(c) \/ Send(c)
    <3>1. PICK q \in {"rejected", "send", "accepted", "handoff"} : SupGoto(c, q)
      BY <2>3, Zenon DEF requireNewMessageID, Send
    <3> QED  BY <3>1, SupGotoFacts, Zenon DEF SupPc, Returned
  <2> QED  BY <2>1, <2>2, <2>3, Zenon
<1>3. Types' /\ Still
  BY <1>1, <1>2, Zenon DEF IInv, Types, Still, SupRecord
<1> QED  BY <1>1, <1>3, StillInv, Zenon

\* A call that leaves wakes the drain.
LEMMA leaveInv == ASSUME IInv, NEW c \in Call, leave(c) PROVE IInv'
<1>1. UNCHANGED <<cast, log, state, sess, rd, cancel, shutdown, diagnosed>>
  BY Zenon DEF leave, SupVars, OtherActors
<1>2. sup' \in [Call -> SupRecord]
  <2>1. PICK q \in {"accepted", "failed"} : SupGoto(c, q)
    BY Zenon DEF leave
  <2> QED  BY <2>1, SupGotoFacts, Zenon DEF SupPc, Returned
<1>3. run' \in [Run -> RunRecord] /\ Still
  <2>0. run \in [Run -> RunRecord]
    BY Zenon DEF IInv, Types
  <2>1. CASE run' = run
    BY <2>0, <2>1, Zenon DEF Still
  <2>2. CASE run' = [run EXCEPT ![sup[c].run].ids = @ \cup {IdOf[c]}]
    <3> DEFINE r == sup[c].run
               R == [run[r] EXCEPT !.ids = @ \cup {IdOf[c]}]
    <3>1. CASE r \in Run
      <4>1. R \in RunRecord /\ R.pc = run[r].pc /\ R.key = run[r].key /\ R.failed = run[r].failed
        <5>1. run[r] \in RunRecord /\ IdOf[c] \in Id
          BY <2>0, <3>1, Zenon DEF Id
        <5> QED  BY <5>1, Zenon DEF RunRecord
      <4>2. run' = [run EXCEPT ![r] = R]
        BY <2>2, Zenon
      <4> HIDE DEF R
      <4> QED  BY <2>0, <3>1, <4>1, <4>2, Zenon DEF Still
    <3>2. CASE r \notin Run
      BY <2>0, <2>2, <3>2, Zenon DEF Still
    <3> QED  BY <3>1, <3>2, Zenon
  <2> QED  BY <2>1, <2>2, Zenon DEF leave
<1>4. Types'
  BY <1>1, <1>2, <1>3, Zenon DEF IInv, Types, SupRecord
<1> QED  BY <1>1, <1>3, <1>4, StillInv, Zenon

-----------------------------------------------------------------------------
(* Cancel, Shutdown and restarts. *)

\* Cancel closes the run's context.
LEMMA CancelInv == ASSUME IInv, NEW c \in Canceller, Cancel(c) PROVE IInv'
<1> DEFINE r == sess.runs[Home]
           R == [run[r] EXCEPT !.cancelled = TRUE]
           C == [pc |-> IF r = None THEN "returned" ELSE "waiting", run |-> r]
<1>1. /\ UNCHANGED <<cast, log, state, sess, sup, rd, shutdown, diagnosed>>
      /\ cancel' = [cancel EXCEPT ![c] = C]
      /\ run' = IF r = None THEN run ELSE [run EXCEPT ![r] = R]
  BY Zenon DEF Cancel
<1>2. r \in Run \cup {None} /\ run \in [Run -> RunRecord]
  BY SessionAssumption, Zenon DEF IInv, Types, SessionRecord
<1>3. C \in [pc : {"idle", "waiting", "returned", "gone"}, run : Run \cup {None}]
  BY <1>2, Zenon
<1>4. r # None => R \in RunRecord /\ R.pc = run[r].pc /\ R.key = run[r].key /\ R.failed = run[r].failed
  <2>1. r # None => run[r] \in RunRecord
    BY <1>2, Zenon
  <2> QED  BY <2>1, Zenon DEF RunRecord
<1> HIDE DEF C, R, r
<1>5. run' \in [Run -> RunRecord] /\ Still
  BY <1>1, <1>2, <1>4, Zenon DEF Still
<1>6. cancel' \in [Canceller -> [pc : {"idle", "waiting", "returned", "gone"}, run : Run \cup {None}]]
  BY <1>1, <1>3, Zenon DEF IInv, Types
<1>7. Types'
  BY <1>1, <1>5, <1>6, Zenon DEF IInv, Types
<1> QED  BY <1>1, <1>5, <1>7, StillInv, Zenon

\* It returns when the run is over.
LEMMA CancelReturnsInv == ASSUME IInv, NEW c \in Canceller, CancelReturns(c) PROVE IInv'
<1> DEFINE C == [cancel[c] EXCEPT !.pc = "returned"]
           CRecord == [pc : {"idle", "waiting", "returned", "gone"}, run : Run \cup {None}]
<1>1. /\ UNCHANGED <<cast, log, state, sess, run, sup, rd, shutdown, diagnosed>>
      /\ cancel' = [cancel EXCEPT ![c] = C] /\ run[cancel[c].run].pc = "over"
  BY Zenon DEF CancelReturns
<1>2. cancel \in [Canceller -> CRecord] /\ cancel[c] \in CRecord
  BY Zenon DEF IInv, Types
<1>3. C \in CRecord
  BY <1>2, Zenon
<1> HIDE DEF C
<1>4. cancel' \in [Canceller -> CRecord]
  BY <1>1, <1>2, <1>3, Zenon
<1>5. Types' /\ Still
  BY <1>1, <1>4, Zenon DEF IInv, Types, Still
<1> QED  BY <1>1, <1>5, StillInv, Zenon

\* Shutdown refuses later runs and cancels the present ones.
LEMMA ShutdownInv == ASSUME IInv, Shutdown PROVE IInv'
<1>1. /\ UNCHANGED <<cast, log, state, sup, rd, cancel, diagnosed>>
      /\ shutdown' = "waiting" /\ sess \in SessionRecord
  BY Zenon DEF Shutdown, IInv, Types
<1>3. sess' \in SessionRecord
  <2> DEFINE d == IF sess.running = 0 THEN sess.shutdownDone + 1 ELSE sess.shutdownDone
  <2>1. d \in Nat
    BY <1>1 DEF SessionRecord
  <2>2. sess' = [sess EXCEPT !.closed = TRUE, !.shutdownDone = d]
    BY Zenon DEF Shutdown
  <2> HIDE DEF d
  <2> QED  BY <1>1, <2>1, <2>2, Zenon DEF SessionRecord
<1>4. run' \in [Run -> RunRecord] /\ Still
  <2>1. ASSUME NEW s \in Run
        PROVE  /\ run'[s] \in RunRecord /\ run'[s].pc = run[s].pc /\ run'[s].key = run[s].key
               /\ run'[s].failed = run[s].failed
    <3>1. run[s] \in RunRecord
      BY Zenon DEF IInv, Types
    <3>2. run'[s] = run[s] \/ run'[s] = [run[s] EXCEPT !.cancelled = TRUE]
      BY Zenon DEF Shutdown
    <3> QED  BY <3>1, <3>2, Zenon DEF RunRecord
  <2>2. run' = [s \in Run |-> run'[s]]
    BY Zenon DEF Shutdown
  <2> QED  BY <2>1, <2>2, Zenon DEF Still
<1>5. Types'
  BY <1>1, <1>3, <1>4, Zenon DEF IInv, Types
<1> QED  BY <1>1, <1>4, <1>5, StillInv, Zenon

\* It returns when the last of them is over.
LEMMA ShutdownReturnsInv == ASSUME IInv, ShutdownReturns PROVE IInv'
<1>1. /\ UNCHANGED <<cast, log, state, sess, run, sup, rd, cancel, diagnosed>>
      /\ shutdown' = "returned"
  BY Zenon DEF ShutdownReturns
<1>2. Types' /\ Still
  BY <1>1, Zenon DEF IInv, Types, Still
<1> QED  BY <1>1, <1>2, StillInv, Zenon

\* The host dies: the recording remains, with a block that has no terminal.
LEMMA CrashInv == ASSUME IInv, Crash PROVE IInv'
<1>1. /\ UNCHANGED <<cast, log, diagnosed>> /\ shutdown' = "no" /\ sess' = NewSession
      /\ state' = [k \in Key |-> NewState]
  BY Zenon DEF Crash
<1>2. ASSUME NEW s \in Run
      PROVE  /\ run'[s] \in RunRecord /\ ~InProgress(s)'
             /\ run'[s] = run[s] \/ (run'[s].pc = "gone" /\ InProgress(s))
  <2>1. run[s] \in RunRecord
    BY Zenon DEF IInv, Types
  <2>2. \/ run'[s] = run[s] /\ ~InProgress(s)
        \/ run'[s] = [NewRun EXCEPT !.pc = "gone"] /\ InProgress(s)
    BY Zenon DEF Crash
  <2>3. [NewRun EXCEPT !.pc = "gone"] \in RunRecord /\ [NewRun EXCEPT !.pc = "gone"].pc = "gone"
    BY SessionAssumption, Zenon DEF NewRun, RunRecord, RunPc
  <2> QED  BY <2>1, <2>2, <2>3, Zenon DEF InProgress
<1>3. run' = [s \in Run |-> run'[s]]
  BY Zenon DEF Crash
<1>4. sup' \in [Call -> [pc : SupPc, run : Run \cup {None}, dup : BOOLEAN]]
  BY Zenon DEF Crash, IInv, Types, NewSup, SupPc, Returned
<1>5. cancel' \in [Canceller -> [pc : {"idle", "waiting", "returned", "gone"}, run : Run \cup {None}]]
  BY Zenon DEF Crash, IInv, Types
<1>6. /\ rd' = [o \in Reader |-> rd'[o]]
      /\ \A o \in Reader : DOMAIN rd'[o] = DOMAIN NewReader /\ rd'[o].pc \notin {"since", "compare", "yielded"}
  BY Zenon DEF Crash, IInv, Types, NewReader, Reading
<1>7. sess' \in SessionRecord /\ state' \in [Key -> KeyState]
  BY <1>1 DEF NewSession, SessionRecord, NewState, KeyState
<1>8. Types'
  BY <1>1, <1>2, <1>3, <1>4, <1>5, <1>6, <1>7, Zenon DEF IInv, Types
<1>9. Reserved' /\ LastRecord'
  BY <1>2, Zenon DEF Reserved, LastRecord, Holds, HoldPc, OpenPc, InProgress
<1>10. Fresh'
  BY <1>1, <1>2, Zenon DEF IInv, Fresh, FreshPc, InProgress
<1>11. HistoryInOrder' /\ Blocks'
  BY <1>1, Zenon DEF IInv, HistoryInOrder, Blocks
<1>12. Diagnosed'
  BY <1>1, <1>2, Zenon DEF IInv, Diagnosed, EndPc
<1>13. Settled'
  <2> SUFFICES ASSUME NEW s \in Run, run'[s].pc \in EndPc \ {"gone"}, Begun(s)'
               PROVE  Recorded(s)' \/ run'[s].failed
    BY Zenon DEF Settled
  <2>1. run'[s] = run[s]
    BY <1>2, Zenon
  <2>2. (Begun(s)' <=> Begun(s)) /\ (Recorded(s)' <=> Recorded(s))
    BY <1>1, <2>1, Zenon DEF Begun, Recorded
  <2> QED  BY <2>1, <2>2, Zenon DEF IInv, Settled
<1>14. Readers'
  BY <1>6 DEF Crash, IInv, Readers, Reading
<1> QED  BY <1>8, <1>9, <1>10, <1>11, <1>12, <1>13, <1>14, Zenon DEF IInv

-----------------------------------------------------------------------------
(* Readers. *)

\* A step of readers only.
LEMMA ReaderInv ==
  ASSUME IInv, UNCHANGED <<cast, log, state, sess, run, sup, cancel, shutdown>>,
         NEW o \in Reader, NEW p, rd' = [rd EXCEPT ![o] = p], DOMAIN p = DOMAIN NewReader,
         p.pc # "idle", p.pc \in {"since", "compare", "yielded"} => Knows(p), Diagnosed'
  PROVE  IInv'
<1>1. /\ rd' = [x \in Reader |-> rd'[x]] /\ rd'[o] = p
      /\ \A x \in Reader : x # o => rd'[x] = rd[x]
  BY Zenon DEF IInv, Types
<1>2. Types' /\ Still
  BY <1>1, Zenon DEF IInv, Types, Still
<1>3. Readers'
  <2> SUFFICES ASSUME NEW x \in Reader
               PROVE  /\ rd'[x].pc = "idle" => rd'[x].last = 0
                      /\ Reading(x)' => Knows(rd[x])'
    BY Zenon DEF Readers
  <2>1. Knows(rd[x])' <=> Knows(rd'[x])
    BY Zenon DEF Knows
  <2>2. CASE x = o
    BY <1>1, <2>1, <2>2, Zenon DEF Reading
  <2>3. CASE x # o
    BY <1>1, <2>1, <2>3, Zenon DEF IInv, Readers, Reading
  <2> QED  BY <2>2, <2>3, Zenon
<1>4. Fresh' /\ LastRecord'
  <2>1. ASSUME NEW s \in Run PROVE Posted(run[s].key, runId(s))' <=> Posted(run[s].key, runId(s))
    BY Zenon DEF Posted, runId
  <2>2. Fresh'
    BY <2>1, Zenon DEF IInv, Fresh
  <2>3. LastRecord'
    BY Zenon DEF IInv, LastRecord
  <2> QED  BY <2>2, <2>3, Zenon
<1>5. HistoryInOrder' /\ Blocks'
  BY Zenon DEF IInv, HistoryInOrder, Blocks
<1>6. Settled' /\ Reserved'
  <2>1. ASSUME NEW s \in Run PROVE (Begun(s)' <=> Begun(s)) /\ (Recorded(s)' <=> Recorded(s))
    BY Zenon DEF Begun, Recorded
  <2>2. Settled'
    BY <2>1, Zenon DEF IInv, Settled
  <2>3. Reserved'
    BY Zenon DEF IInv, Reserved, Holds
  <2> QED  BY <2>2, <2>3, Zenon
<1> QED  BY <1>2, <1>3, <1>4, <1>5, <1>6, Zenon DEF IInv

\* A new pass of a reader.
LEMMA PassFacts ==
  ASSUME NEW p, DOMAIN p = DOMAIN NewReader
  PROVE  /\ DOMAIN Pass(p) = DOMAIN NewReader /\ Pass(p).pc = "since" /\ Pass(p).before = state[Home]
         /\ Pass(p).last = p.last /\ Pass(p).ended = p.ended
BY Zenon DEF Pass, NewReader

\* A pass begins.
LEMMA PassInv ==
  ASSUME IInv, UNCHANGED <<cast, log, state, sess, run, sup, cancel, shutdown, diagnosed>>,
         NEW o \in Reader, NEW p, DOMAIN p = DOMAIN NewReader, rd' = [rd EXCEPT ![o] = Pass(p)],
         p.last \in 0 .. Len(log[Home]), p.last > 0 /\ log[Home][p.last].kind = "terminal" => p.ended
  PROVE  IInv'
<1>1. state[Home] \in KeyState /\ state[Home].revision \in Nat
  BY SessionAssumption, Zenon DEF IInv, Types, KeyState
<1>2. Knows(Pass(p)) /\ Pass(p).pc # "idle" /\ DOMAIN Pass(p) = DOMAIN NewReader
  BY <1>1, PassFacts DEF Knows
<1>3. Diagnosed'
  BY Zenon DEF IInv, Diagnosed
<1> QED  BY <1>2, <1>3, ReaderInv, Zenon

\* A reader leaves.
LEMMA LeavesInv ==
  ASSUME IInv, UNCHANGED <<cast, log, state, sess, run, sup, cancel, shutdown>>,
         NEW o \in Reader, NEW q \in {"told", "returned", "missing", "detached"}, NEW p,
         Leaves(o, q, p), Diagnosed'
  PROVE  IInv'
<1> DEFINE P == [NewReader EXCEPT !.pc = q, !.ev = p.ev, !.orderly = p.orderly]
<1>1. DOMAIN P = DOMAIN NewReader /\ P.pc = q
  BY Zenon DEF NewReader
<1>2. rd' = [rd EXCEPT ![o] = P]
  BY Zenon DEF Leaves
<1> HIDE DEF P
<1> QED  BY <1>1, <1>2, ReaderInv, Zenon

\* A run whose last record is followed by a boundary, or by nothing while the key is
\* idle, records nothing more.
LEMMA ClosedRun ==
  ASSUME IInv, NEW i \in DOMAIN log[Home], log[Home][i].kind # "terminal",
         \/ i < Len(log[Home]) /\ log[Home][i + 1].kind = "boundary"
         \/ i = Len(log[Home]) /\ ~state[Home].active
  PROVE  /\ log[Home][i].run \in Run /\ run[log[Home][i].run].pc \in EndPc
         /\ \A k \in Key : \A j \in DOMAIN log[k] :
              log[k][j].kind = "terminal" => log[k][j].run # log[Home][i].run
<1> DEFINE h == log[Home]
           x == h[i].run
<1>1. Home \in Key /\ h \in Seq(Entry) /\ DOMAIN h = 1 .. Len(h) /\ Len(h) \in Nat
  BY SessionAssumption DEF IInv, Types
<1>2. x \in Run
  <2>1. h[i] \in Entry
    BY <1>1
  <2> QED  BY <2>1, Zenon DEF Entry
<1>3. \A j \in DOMAIN h : j > i => h[j].run # x
  <2> SUFFICES ASSUME NEW j \in DOMAIN h, j > i, h[j].run = x PROVE FALSE
    BY Zenon
  <2>1. i < Len(h) /\ h[i + 1].kind = "boundary" /\ i + 1 \in DOMAIN h
    BY <1>1
  <2>2. h[i + 1].run = h[i].run
    BY <1>1, <2>1 DEF IInv, Blocks, Block
  <2>3. Continues(h, i + 1) /\ (i + 1) - 1 = i /\ i \in 1 .. i
    BY <1>1, <2>1 DEF IInv, HistoryInOrder
  <2>4. Rank("boundary") = 0 /\ Rank(h[i].kind) \in Nat
    BY Zenon DEF Rank
  <2> QED  BY <2>1, <2>2, <2>3, <2>4 DEF Continues
<1>4. ASSUME NEW k \in Key, NEW j \in DOMAIN log[k], log[k][j].kind = "terminal", log[k][j].run = x
      PROVE  FALSE
  <2>1. k = Home
    BY <1>1, <1>4, Zenon DEF IInv, Blocks
  <2>2. j <= i /\ j # i
    BY <1>1, <1>3, <1>4, <2>1
  <2> QED  BY <1>1, <1>4, <2>1, <2>2 DEF IInv, Blocks, Block
<1>5. run[x].pc \notin FreshPc
  BY <1>1, <1>2, Zenon DEF IInv, Fresh
<1>6. run[x].pc \notin OpenPc
  <2> SUFFICES ASSUME run[x].pc \in OpenPc PROVE FALSE
    BY Zenon
  <2> DEFINE k == run[x].key
             g == log[k]
  <2>1. k \in Key /\ g \in Seq(Entry)
    BY <1>2, Zenon DEF IInv, Types, RunRecord
  <2>2. g # <<>> /\ g[Len(g)].run = x
    BY <1>2, Zenon DEF IInv, LastRecord
  <2>3. Len(g) \in DOMAIN g
    <3> HIDE DEF g, x
    <3> QED  BY <2>1, <2>2
  <2>4. k = Home
    <3>1. \A m, l \in Key : \A a \in DOMAIN log[m], b \in DOMAIN log[l] :
            log[m][a].run = log[l][b].run => m = l
      BY Zenon DEF IInv, Blocks
    <3> HIDE DEF k
    <3> QED  BY <1>1, <2>1, <2>2, <2>3, <3>1, Zenon
  <2>5. state[Home].active
    BY <1>1, <1>2, <2>4, Zenon DEF IInv, Reserved, Holds, HoldPc, OpenPc
  <2> QED  BY <1>1, <1>3, <2>2, <2>3, <2>4, <2>5, Zenon
<1>7. run[x].pc \in EndPc
  BY <1>2, <1>5, <1>6, Zenon DEF IInv, Types, RunRecord, RunPc, HoldPc, FreshPc, OpenPc, EndPc
<1> QED  BY <1>2, <1>4, <1>7, Zenon

\* The runs a reader that is up to date closes.
LEMMA ClosuresDiagnosed ==
  ASSUME IInv, UNCHANGED <<log, run>>, NEW p, Knows(p), NEW n \in 0 .. Len(log[Home]), NEW f,
         f => (n < Len(log[Home]) /\ log[Home][n + 1].kind = "boundary")
              \/ (n = Len(log[Home]) /\ ~state[Home].active),
         diagnosed' = diagnosed \cup {log[Home][i].run : i \in Closures(log[Home], p, n, f)}
  PROVE  Diagnosed'
<1> DEFINE h == log[Home]
<1>1. h \in Seq(Entry) /\ DOMAIN h = 1 .. Len(h) /\ Len(h) \in Nat
  BY SessionAssumption DEF IInv, Types
<1>2. p.last \in 0 .. Len(h) /\ (p.last > 0 /\ h[p.last].kind = "terminal" => p.ended)
  BY Zenon DEF Knows
<1>3. ASSUME NEW i \in Closures(h, p, n, f)
      PROVE  /\ h[i].run \in Run /\ run[h[i].run].pc \in EndPc
             /\ \A k \in Key : \A j \in DOMAIN log[k] :
                  log[k][j].kind = "terminal" => log[k][j].run # h[i].run
  <2>1. /\ i \in p.last .. n /\ i > 0 /\ ~(IF i = p.last THEN p.ended ELSE h[i].kind = "terminal")
        /\ IF i < n THEN h[i + 1].kind = "boundary" ELSE f
    BY <1>3, Zenon DEF Closures
  <2>2. i \in DOMAIN h /\ h[i].kind # "terminal"
    <3>1. i \in DOMAIN h
      BY <1>1, <1>2, <2>1
    <3>2. CASE i = p.last
      BY <1>2, <2>1, <3>2
    <3>3. CASE i # p.last
      BY <2>1, <3>3
    <3> QED  BY <3>1, <3>2, <3>3, Zenon
  <2>3. \/ i < Len(h) /\ h[i + 1].kind = "boundary"
        \/ i = Len(h) /\ ~state[Home].active
    <3>1. CASE i < n
      BY <1>1, <2>1, <3>1
    <3>2. CASE i = n
      BY <1>1, <2>1, <3>2
    <3> QED  BY <1>2, <2>1, <3>1, <3>2
  <2>4. /\ log[Home][i].run \in Run /\ run[log[Home][i].run].pc \in EndPc
        /\ \A k \in Key : \A j \in DOMAIN log[k] :
             log[k][j].kind = "terminal" => log[k][j].run # log[Home][i].run
    <3>1. i \in DOMAIN log[Home] /\ log[Home][i].kind # "terminal"
      BY <2>2, Zenon
    <3>2. \/ i < Len(log[Home]) /\ log[Home][i + 1].kind = "boundary"
          \/ i = Len(log[Home]) /\ ~state[Home].active
      BY <2>3, Zenon
    <3> HIDE DEF h
    <3> QED  BY <3>1, <3>2, ClosedRun, Zenon
  <2> QED  BY <2>4, Zenon
<1> QED  BY <1>3 DEF IInv, Diagnosed

\* Readers attach and leave at any time.
LEMMA ReaderComesAndGoesInv == ASSUME IInv, NEW o \in Reader, ReaderComesAndGoes(o) PROVE IInv'
<1>1. /\ UNCHANGED <<cast, log, state, sess, run, sup, cancel, shutdown, diagnosed>>
      /\ DOMAIN rd[o] = DOMAIN NewReader
  BY Zenon DEF ReaderComesAndGoes, IInv, Types
<1>2. CASE Attach(o)
  <2>1. PICK a : rd' = [rd EXCEPT ![o] = Pass([rd[o] EXCEPT !.after = a])]
    BY <1>2, Zenon DEF Attach
  <2> DEFINE p == [rd[o] EXCEPT !.after = a]
  <2>2. DOMAIN p = DOMAIN NewReader /\ p.last = rd[o].last
    BY <1>1, Zenon DEF NewReader
  <2>3. rd[o].last = 0
    BY <1>2, Zenon DEF Attach, IInv, Readers
  <2>4. Len(log[Home]) \in Nat
    BY SessionAssumption DEF IInv, Types
  <2> HIDE DEF p
  <2>5. p.last \in 0 .. Len(log[Home]) /\ ~(p.last > 0)
    BY <2>2, <2>3, <2>4
  <2> QED  BY <1>1, <2>1, <2>2, <2>5, PassInv, Zenon DEF p
<1>3. CASE Detach(o)
  <2>1. Diagnosed'
    BY <1>1, Zenon DEF IInv, Diagnosed
  <2> QED  BY <1>1, <1>3, <2>1, LeavesInv, Zenon DEF Detach
<1> QED  BY <1>2, <1>3, Zenon DEF ReaderComesAndGoes

\* A reader calls a run incomplete only if the state it read before the recording and
\* the one it reads after it agree that the run is not active.
LEMMA ReadInv == ASSUME IInv, NEW o \in Reader, Read(o) PROVE IInv'
<1> DEFINE p == rd[o]
           h == log[Home]
<1>1. /\ UNCHANGED <<cast, log, state, sess, run, sup, cancel, shutdown>>
      /\ DOMAIN p = DOMAIN NewReader
  BY Zenon DEF Read, IInv, Types
<1>2. Reading(o)
  BY Zenon DEF Read, Reading, waitBoundary, Since, ReadAgain, project, Recheck, snapshotRecords
<1>3. Knows(p)
  BY <1>2, Zenon DEF IInv, Readers
<1>4. h \in Seq(Entry) /\ DOMAIN h = 1 .. Len(h) /\ Len(h) \in Nat
      /\ p.last \in 0 .. Len(h) /\ (p.last > 0 /\ h[p.last].kind = "terminal" => p.ended)
  BY <1>3, SessionAssumption DEF IInv, Types, Knows
<1>5. UNCHANGED diagnosed => Diagnosed'
  BY <1>1, Zenon DEF IInv, Diagnosed
<1>6. CASE rd' = [rd EXCEPT ![o] = Pass(p)] /\ UNCHANGED diagnosed
  BY <1>1, <1>4, <1>6, PassInv, Zenon
<1>7. CASE Since(o) /\ UNCHANGED diagnosed
  <2> DEFINE P == [p EXCEPT !.pc = "compare", !.upto = Len(h)]
  <2>1. /\ DOMAIN P = DOMAIN NewReader /\ P.pc = "compare" /\ P.upto = Len(h) /\ P.last = p.last
        /\ P.ended = p.ended /\ P.before = p.before
    BY <1>1, Zenon DEF NewReader
  <2>2. rd' = [rd EXCEPT ![o] = P]
    BY <1>7, Zenon DEF Since
  <2> HIDE DEF P
  <2>3. Knows(P)
    <3>1. /\ p.before \in KeyState /\ p.before.revision <= state[Home].revision
          /\ p.before.revision = state[Home].revision => p.before.active = state[Home].active
      BY <1>3, Zenon DEF Knows
    <3> QED  BY <1>4, <2>1, <3>1 DEF Knows
  <2> QED  BY <1>1, <1>5, <1>7, <2>1, <2>2, <2>3, ReaderInv, Zenon
<1>8. CASE Recheck(o) /\ UNCHANGED diagnosed
  <2>1. \/ rd' = [rd EXCEPT ![o] = Pass(p)] \/ Leaves(o, "returned", p) \/ Leaves(o, "told", p)
    BY <1>8, Zenon DEF Recheck
  <2> QED  BY <1>1, <1>5, <1>6, <1>8, <2>1, LeavesInv, Zenon
<1>9. CASE project(o)
  <2> DEFINE closed == Closures(h, p, p.upto, ~p.before.active)
  <2>1. /\ p.pc = "compare" /\ state[Home] = p.before /\ p.upto \in 0 .. Len(h)
        /\ ~p.before.active => p.upto = Len(h)
    BY <1>3, <1>9, Zenon DEF project, Knows
  <2>2. diagnosed' = diagnosed \cup {h[i].run : i \in closed}
    BY <1>9, Zenon DEF project
  <2>3. Diagnosed'
    BY <1>1, <1>3, <2>1, <2>2, ClosuresDiagnosed, Zenon
  <2>4. CASE Leaves(o, "told", p)
    BY <1>1, <2>3, <2>4, LeavesInv, Zenon
  <2> DEFINE out == Projected(h, p, p.upto, closed)
             marks == SelectSeq(out, LAMBDA ev : ev # "content")
             all == <<p.ev>> \o out
             en == IF p.upto = p.last THEN p.ended \/ p.upto \in closed
                   ELSE h[p.upto].kind = "terminal" \/ p.upto \in closed
             inc == p.upto \in closed \/ (p.upto = p.last /\ p.incomplete)
             ter == marks # <<>> /\ marks[Len(marks)] = "ended"
             nxt == all[Len(all)]
             ord == p.orderly /\ \A i \in DOMAIN out : Follows(all[i], out[i])
             P == [p EXCEPT !.pc = "yielded", !.last = p.upto, !.after = p.upto, !.ended = en,
                     !.incomplete = inc, !.terminal = ter, !.ev = nxt, !.orderly = ord]
  <2>5. CASE rd' = [rd EXCEPT ![o] = P]
    <3>1. p.upto > 0 /\ h[p.upto].kind = "terminal" => en
      BY <1>4, <2>1, Zenon
    <3>2. rd' = [rd EXCEPT ![o] = P]
      BY <2>5, Zenon
    <3> HIDE DEF en, inc, ter, nxt, ord
    <3>3. /\ DOMAIN P = DOMAIN NewReader /\ P.pc = "yielded" /\ P.last = p.upto /\ P.ended = en
          /\ P.before = p.before
      BY <1>1, Zenon DEF NewReader
    <3> HIDE DEF P
    <3>4. Knows(P)
      BY <1>3, <1>4, <2>1, <3>1, <3>3, Zenon DEF Knows
    <3> QED  BY <1>1, <2>3, <3>2, <3>3, <3>4, ReaderInv, Zenon
  <2>6. Leaves(o, "told", p) \/ rd' = [rd EXCEPT ![o] = P]
    BY <1>9, Zenon DEF project
  <2> QED  BY <2>4, <2>5, <2>6, Zenon
<1>10. CASE snapshotRecords(o)
  <2> DEFINE b == p.before.boundary
             cut == IF p.before.active THEN b - 1 ELSE p.upto
  <2>1. /\ p.pc = "compare" /\ state[Home] = p.before /\ p.upto \in 0 .. Len(h)
        /\ ~p.before.active => p.upto = Len(h)
    BY <1>3, <1>10, Zenon DEF snapshotRecords, Knows
  <2>2. CASE Leaves(o, "missing", p) /\ UNCHANGED diagnosed
    BY <1>1, <1>5, <2>2, LeavesInv, Zenon
  <2>3. CASE /\ p.before.active => b \in 1 .. p.upto /\ h[b].kind = "boundary"
             /\ Leaves(o, "returned", p)
             /\ diagnosed' = diagnosed \cup {h[i].run : i \in Closures(h, p, cut, TRUE)}
    <3>1. /\ cut \in 0 .. Len(h)
          /\ \/ cut < Len(h) /\ h[cut + 1].kind = "boundary"
             \/ cut = Len(h) /\ ~state[Home].active
      <4>1. CASE p.before.active
        <5>1. b \in 1 .. Len(h) /\ h[b].kind = "boundary"
          BY <1>4, <2>1, <2>3, <4>1
        <5>2. cut = b - 1 /\ cut + 1 = b
          BY <4>1, <5>1
        <5> HIDE DEF cut, b, h
        <5> QED  BY <1>4, <5>1, <5>2
      <4>2. CASE ~p.before.active
        BY <1>4, <2>1, <4>2, Zenon
      <4> QED  BY <4>1, <4>2, Zenon
    <3> HIDE DEF cut
    <3>2. Diagnosed'
      BY <1>1, <1>3, <2>3, <3>1, ClosuresDiagnosed, Zenon
    <3> QED  BY <1>1, <2>3, <3>2, LeavesInv, Zenon
  <2> QED  BY <1>10, <2>2, <2>3, Zenon DEF snapshotRecords
<1> QED  BY <1>6, <1>7, <1>8, <1>9, <1>10, Zenon DEF Read, waitBoundary, ReadAgain

-----------------------------------------------------------------------------
(* The invariant, and what follows from it. *)

\* A new session.
LEMMA InitInv == ASSUME Init PROVE IInv
<1>1. /\ log = [k \in Key |-> <<>>] /\ state = [k \in Key |-> NewState] /\ sess = NewSession
      /\ run = [r \in Run |-> NewRun] /\ sup = [c \in Call |-> NewSup]
      /\ rd = [o \in Reader |-> NewReader] /\ diagnosed = {} /\ shutdown = "no"
      /\ cancel = [c \in Canceller |-> [pc |-> "idle", run |-> None]]
  BY Zenon DEF Init
<1>2. NewRun \in RunRecord /\ NewRun.pc = "idle"
  BY SessionAssumption, Zenon DEF NewRun, RunRecord, RunPc
<1>3. NewState \in KeyState /\ NewSession \in SessionRecord
      /\ NewSup \in [pc : SupPc, run : Run \cup {None}, dup : BOOLEAN]
  BY DEF NewState, KeyState, NewSession, SessionRecord, NewSup, SupPc
<1>4. <<>> \in Seq(Entry) /\ DOMAIN <<>> = {}
  OBVIOUS
<1>5. Types
  BY <1>1, <1>2, <1>3, <1>4, Zenon DEF Types
<1>6. \A r \in Run : run[r].pc = "idle"
  BY <1>1, <1>2, Zenon
<1>7. Reserved /\ LastRecord /\ Settled
  BY <1>6, Zenon DEF Reserved, Holds, HoldPc, LastRecord, OpenPc, Settled, EndPc
<1>8. \A k \in Key : DOMAIN log[k] = {}
  BY <1>1, <1>4, Zenon
<1>9. Fresh /\ HistoryInOrder /\ Diagnosed
  BY <1>1, <1>6, <1>8, Zenon DEF Fresh, HistoryInOrder, Diagnosed
<1>10. Blocks
  BY <1>8, Zenon DEF Blocks, Block
<1>11. Readers
  BY <1>1, Zenon DEF Readers, Reading, NewReader
<1> QED  BY <1>5, <1>7, <1>9, <1>10, <1>11, Zenon DEF IInv

\* Nothing changes.
LEMMA StutterInv == ASSUME IInv, UNCHANGED vars PROVE IInv'
<1>1. UNCHANGED <<cast, log, state, sess, run, sup, rd, cancel, shutdown, diagnosed>>
  BY Zenon DEF vars
<1>2. Types' /\ Still
  BY <1>1, Zenon DEF IInv, Types, Still
<1> QED  BY <1>1, <1>2, StillInv, Zenon

\* One case for each step of the session.
LEMMA StepInv == IInv /\ [Next]_vars => IInv'
<1> SUFFICES ASSUME IInv, [Next]_vars PROVE IInv'
  BY Zenon
<1>1. ASSUME NEW r \in Run,
             admit(r) \/ Admission(r) \/ Drain(r) \/ DrainEvent(r) \/ StreamEnds(r) \/ Disconnect(r)
      PROVE  IInv'
  <2>1. CASE Admission(r)
    BY <2>1, ReserveInv, VerifyHistoryInv, ReserveFreshInv, requireFreshInv, recordBoundaryInv,
       PublishBoundaryInv, Zenon DEF Admission
  <2>2. CASE Drain(r)
    BY <2>2, openLiveInv, RecordUserTurnInv, sealInv, RecordResultTextInv, RecordDoneInv,
       RecordTerminalInv, closeLiveInv, ReleaseInv, finishAdmissionInv, RecordSupplementInv, Zenon DEF Drain
  <2> QED  BY <1>1, <2>1, <2>2, admitInv, DrainEventInv, StreamEndsInv, DisconnectInv, Zenon
<1>2. ASSUME NEW c \in Call, LookupLive(c) \/ Supplement(c) PROVE IInv'
  BY <1>2, AskingInv, leaveInv, Zenon DEF Supplement
<1>3. ASSUME NEW o \in Reader, ReaderComesAndGoes(o) \/ Read(o) PROVE IInv'
  BY <1>3, ReaderComesAndGoesInv, ReadInv, Zenon
<1>4. ASSUME NEW c \in Canceller, Cancel(c) \/ CancelReturns(c) PROVE IInv'
  BY <1>4, CancelInv, CancelReturnsInv, Zenon
<1>5. CASE Shutdown \/ ShutdownReturns \/ Crash
  BY <1>5, ShutdownInv, ShutdownReturnsInv, CrashInv, Zenon
<1>6. CASE UNCHANGED vars
  BY <1>6, StutterInv, Zenon
<1> QED  BY <1>1, <1>2, <1>3, <1>4, <1>5, <1>6, Zenon DEF Next

\* The reservations, the recordings and what the readers know of them stay
\* consistent through every step of the session, restarts included.
THEOREM SessionInvariant == Spec => []IInv
BY InitInv, StepInv, PTL DEF Spec

\* Every recording is one run after the other, whatever runs, faults and restarts: the
\* reservation of serveRun keeps the drains of a key apart.
THEOREM RecordingInOrder == Spec => []HistoryInOrder
<1>1. IInv => HistoryInOrder
  BY Zenon DEF IInv
<1> QED  BY <1>1, SessionInvariant, PTL

\* A run that closeIncomplete reported as ended without a terminal never gets one.
THEOREM DiagnosesFinal == Spec => []DiagnosisFinal
<1>1. IInv => DiagnosisFinal
  BY Zenon DEF IInv, Diagnosed, DiagnosisFinal
<1> QED  BY <1>1, SessionInvariant, PTL

=============================================================================
