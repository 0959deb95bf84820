------------------------ MODULE ThreadRuntimeProofs ------------------------
(***************************************************************************)
(* Why no conversation is lost, for any Agents, keys, forks, faults and    *)
(* expiries.                                                               *)
(*                                                                         *)
(* The argument: an owner is new when it takes a key, and takes it once.   *)
(* So while the store still names a runtime's owner as the holder of its   *)
(* key, nobody else has written the key since the runtime looked at it,    *)
(* and what it keeps in memory or plans to write continues what is stored. *)
(* Every write names that owner, so a write by an owner that lost the key  *)
(* is refused.  A checkpoint that outlived its owner is compared with the  *)
(* store before the next owner may write it.                               *)
(***************************************************************************)
EXTENDS ThreadRuntime, TLAPS

Id0 == Id \cup {None}
Owner0 == Owner \cup {None}
PlanPc == {"lease", "run", "verify", "verifyFailed", "persist"}
ExPc == PlanPc \cup {"none", "begin", "plan", "cleanup", "end"}
FlushAt == {"flush", "finalize", "unflush", "unflushLost"}
SectionAt == FlushAt \cup {"none", "acquire", "validate", "renew", "settle", "release"}

VersionRecord == [id : Id0, hist : Seq(Nat)]
RequestRecord == [id : Id0, hist : Seq(Nat), key : Key \cup {None}, prev : Id0, absent : BOOLEAN,
                  held : SUBSET (Target \X Owner0)]
RuntimeRecord == [task : BOOLEAN, standby : BOOLEAN, executing : BOOLEAN, owner : Owner0,
                  dead : BOOLEAN, renewErr : BOOLEAN, pending : RequestRecord,
                  durable : VersionRecord, validate : BOOLEAN,
                  recovering : {"off", "on", "leaving"}, err : BOOLEAN]
ExecutionRecord == [pc : ExPc, mode : {"none", "start", "resume", "fork"}, task : BOOLEAN,
                    owner : Owner0, id : Id0, prev : Id0, absent : BOOLEAN, reused : BOOLEAN,
                    hist : Seq(Nat), held : SUBSET Target, turns : Nat, first : BOOLEAN]
LockRecord == [who : {"none", "exec", "open", "recover", "released"}, at : SectionAt, cand : Owner0]

Types ==
  /\ scene \in Scenes
  /\ leases \in [Target -> Owner0]
  /\ records \in [Id -> [key : Key \cup {None}, hist : Seq(Nat), archived : BOOLEAN]]
  /\ active \in [Key -> Id0]
  /\ rt \in [Runtime -> RuntimeRecord] /\ ex \in [Runtime -> ExecutionRecord]
  /\ lock \in [Runtime -> LockRecord]
  /\ ids \in 0 .. MaxIds /\ marks \in Nat /\ saved \in [Runtime -> Seq(Nat)]

\* The goroutines of runtime x with execution e and section l: who may be where, and
\* that the key is owned wherever it is used.
ControlOf(x, e, l) ==
  /\ x.executing \/ x.standby \/ l.at \in FlushAt \cup {"renew"} => x.owner # None
  /\ l.at \in {"acquire", "validate"} => x.owner = None
  /\ e.pc \in PlanPc \cup {"plan"} => x.executing
  /\ x.executing => e.pc # "none"
  /\ e.pc # "none" => IF e.task THEN x.task ELSE x.standby
  /\ l.at = "none" <=> l.who = "none"
  /\ l.at = "none" => l.cand = None
  /\ l.at \in {"acquire", "validate"} => l.who \in {"exec", "open", "released"}
  /\ l.at = "validate" => l.cand # None
  /\ l.at = "renew" => l.who = "exec"
  /\ l.at = "finalize" => x.pending # NoReq
  /\ l.at \in FlushAt => l.who \in {"exec", "recover", "released"}
  /\ l.at = "settle" => l.who = "recover"
  /\ l.at = "release" => l.who = "released"
  /\ l.who = "exec" => e.pc = "begin" /\ (l.at \in FlushAt \cup {"renew"} => x.executing)
  /\ l.who = "open" => e.pc = "none"
  /\ l.who = "recover" => ~x.executing
  /\ l.who = "released" => ~x.executing /\ ~x.standby
Control == \A r \in Runtime : ControlOf(rt[r], ex[r], lock[r])

\* What runtime x with execution e remembers of its key, and of the newest checkpoint s.
MemoryOf(x, e, s, key) ==
  /\ x.pending # NoReq =>
       /\ x.pending.hist = s /\ x.pending.key = key
       /\ x.pending.id # None /\ x.pending.id # x.pending.prev
       /\ Descends(x.pending.hist, x.durable.hist)
       /\ x.durable.id \in {None, x.pending.id, x.pending.prev}
       /\ x.owner = None => x.validate
  /\ e.pc \in PlanPc =>
       /\ Descends(e.hist, s) /\ Descends(e.hist, x.durable.hist)
       /\ x.pending = NoReq => x.durable.id \in {None, e.id, e.prev}
  /\ e.pc \in {"begin", "plan", "lease"} => e.prev = None /\ ~e.reused
  /\ e.pc = "lease" /\ e.id = None => e.hist = <<>>
  /\ e.pc \in PlanPc \ {"lease"} => e.id # None /\ e.id # e.prev
  /\ e.reused => e.prev = None
Memory == \A r \in Runtime : MemoryOf(rt[r], ex[r], saved[r], KeyOf[r])

\* Owners are told apart.
Owners ==
  \A r, s \in Runtime : r # s =>
    /\ rt[r].owner # None => rt[r].owner # rt[s].owner
    /\ rt[r].owner # None /\ lock[s].at = "validate" => rt[r].owner # lock[s].cand
    /\ lock[r].at = "validate" /\ lock[s].at = "validate" => lock[r].cand # lock[s].cand

\* Record IDs belong to one key.
UsesOf(x, e) == {e.id, e.prev, x.pending.id, x.pending.prev, x.durable.id} \ {None}
Uses(r) == UsesOf(rt[r], ex[r])
Named ==
  /\ \A r \in Runtime : \A i \in Uses(r) : i <= ids /\ records[i].key \in {None, KeyOf[r]}
  /\ \A r, s \in Runtime : Uses(r) \cap Uses(s) # {} => KeyOf[r] = KeyOf[s]
  /\ \A i \in Id : /\ i > ids => records[i] = NoRecord
                   /\ records[i] # NoRecord /\ ~records[i].archived => records[i].key # None
  /\ \A k \in Key : active[k] # None =>
       /\ active[k] <= ids /\ records[active[k]].key = k /\ ~records[active[k]].archived

\* The holder of a key has seen what is stored under it: runtime x with execution e, where
\* holder has the lease of the key, and stored is the conversation under it.
SeenOf(x, e, holder, stored, ambiguous) ==
  x.owner # None /\ holder = x.owner /\ (x.pending # NoReq \/ e.pc \in PlanPc) =>
    /\ Descends(IF x.pending # NoReq THEN x.pending.hist ELSE e.hist, stored.hist)
    /\ ambiguous \/ stored = x.durable
Seen ==
  \A r \in Runtime : SeenOf(rt[r], ex[r], leases[KeyOf[r]], Resolved(KeyOf[r]), Ambiguous)

\* What is not kept in memory is stored.
Stored == \A r \in Runtime : ~Pending(r) => Descends(Resolved(KeyOf[r]).hist, saved[r])

IInv == Types /\ Control /\ Memory /\ Owners /\ Named /\ Seen /\ Stored /\ OneActiveRecord

-----------------------------------------------------------------------------
(* Histories, keys and owners. *)

\* Continuation of histories is an order, and Append continues.
LEMMA DescendsFacts ==
  /\ \A h \in Seq(Nat) : Descends(h, h) /\ Descends(h, <<>>)
  /\ \A f, g, h \in Seq(Nat) : Descends(f, g) /\ Descends(g, h) => Descends(f, h)
  /\ \A h \in Seq(Nat), m \in Nat : Append(h, m) \in Seq(Nat) /\ Descends(Append(h, m), h)
  /\ \A h \in Seq(Nat) : Descends(<<>>, h) => h = <<>>
<1>1. \A h \in Seq(Nat) : Descends(h, h) /\ Descends(h, <<>>)
  BY DEF Descends
<1>2. \A f, g, h \in Seq(Nat) : Descends(f, g) /\ Descends(g, h) => Descends(f, h)
  <2> SUFFICES ASSUME NEW f \in Seq(Nat), NEW g \in Seq(Nat), NEW h \in Seq(Nat),
                      Descends(f, g), Descends(g, h)
               PROVE  Descends(f, h)
    BY Zenon
  <2>1. Len(f) \in Nat /\ Len(g) \in Nat /\ Len(h) \in Nat
    OBVIOUS
  <2> QED  BY <2>1 DEF Descends
<1>3. \A h \in Seq(Nat), m \in Nat : Append(h, m) \in Seq(Nat) /\ Descends(Append(h, m), h)
  BY DEF Descends
<1>4. \A h \in Seq(Nat) : Descends(<<>>, h) => h = <<>>
  BY DEF Descends
<1> QED  BY <1>1, <1>2, <1>3, <1>4, Zenon

\* Histories that descend from each other.
LEMMA DescendsTrans ==
  ASSUME NEW f \in Seq(Nat), NEW g \in Seq(Nat), NEW h \in Seq(Nat), Descends(f, g), Descends(g, h)
  PROVE  Descends(f, h)
BY DescendsFacts, Zenon

\* A runtime without a checkpoint in memory.
LEMMA NoReqFacts ==
  /\ NoReq \in RequestRecord /\ Version(NoReq) \in VersionRecord
  /\ NoReq.id = None /\ NoReq.prev = None /\ Version(NoReq).id = None
BY DEF NoReq, RequestRecord, VersionRecord, Version, Id0

\* A runtime without an execution.
LEMMA IdleFacts ==
  /\ Idle \in ExecutionRecord /\ Idle.pc = "none" /\ Idle.id = None /\ Idle.prev = None
  /\ Idle.reused = FALSE /\ Idle.hist = <<>>
BY DEF Idle, ExecutionRecord, ExPc, Id0, Owner0

\* The record IDs a runtime and its execution use.
LEMMA UsesHas ==
  ASSUME NEW r
  PROVE  /\ ex[r].id # None => ex[r].id \in Uses(r)
         /\ ex[r].prev # None => ex[r].prev \in Uses(r)
         /\ rt[r].pending.id # None => rt[r].pending.id \in Uses(r)
         /\ rt[r].pending.prev # None => rt[r].pending.prev \in Uses(r)
         /\ rt[r].durable.id # None => rt[r].durable.id \in Uses(r)
BY Zenon DEF Uses, UsesOf

\* They are among S when each of them is.
InUses(x, e, S) ==
  /\ e.id # None => e.id \in S
  /\ e.prev # None => e.prev \in S
  /\ x.pending.id # None => x.pending.id \in S
  /\ x.pending.prev # None => x.pending.prev \in S
  /\ x.durable.id # None => x.durable.id \in S
LEMMA UsesWithin == ASSUME NEW x, NEW e, NEW S, InUses(x, e, S) PROVE UsesOf(x, e) \subseteq S
BY DEF UsesOf, InUses

\* What the scene says of keys and forks.
LEMMA SceneFacts ==
  ASSUME Types
  PROVE  /\ KeyOf \in [Runtime -> Key] /\ ForkOf \in [Runtime -> Key \cup {None}]
         /\ Ambiguous \in BOOLEAN /\ Modes \in [Runtime -> SUBSET {"start", "resume", "fork"}]
         /\ \A r \in Runtime : KeyOf[r] \in Key /\ KeyOf[r] \in Target /\ KeyOf[r] # None
         /\ \A k \in Key : k \notin Id /\ k # None
         /\ None \notin Id /\ None \notin Owner /\ Id \subseteq Nat
BY RuntimeAssumption, StoreAssumption DEF Types, KeyOf, ForkOf, Ambiguous, Modes, Target, Id, Owner, None

\* What Resolve returns for a key.
LEMMA ResolvedFacts ==
  ASSUME IInv, NEW k \in Key
  PROVE  /\ Resolved(k) \in VersionRecord /\ Resolved(k).id = active[k] /\ Resolved(k).hist \in Seq(Nat)
         /\ active[k] = None => Resolved(k).hist = <<>>
         /\ active[k] # None => /\ active[k] \in Id /\ Resolved(k).hist = records[active[k]].hist
                                /\ active[k] <= ids /\ records[active[k]].key = k
<1>1. active[k] \in Id0 /\ records \in [Id -> [key : Key \cup {None}, hist : Seq(Nat), archived : BOOLEAN]]
  BY Zenon DEF IInv, Types
<1>2. active[k] # None => active[k] <= ids /\ records[active[k]].key = k /\ ~records[active[k]].archived
  BY Zenon DEF IInv, Named
<1>3. CASE active[k] = None
  BY <1>1, <1>3 DEF Resolved, VersionRecord, Id0
<1>4. CASE active[k] # None
  <2>1. active[k] \in Id /\ records[active[k]].hist \in Seq(Nat)
    BY <1>1, <1>4, Zenon DEF Id0
  <2> QED  BY <1>1, <1>2, <1>4, <2>1, Zenon DEF Resolved, VersionRecord
<1> QED  BY <1>3, <1>4, Zenon

\* What a write by runtime r may be: req names the key r holds and continues what is stored.
MayApply(r, req) ==
  /\ req \in RequestRecord /\ req.key = KeyOf[r] /\ req.id # None /\ req.id # req.prev
  /\ {req.id, req.prev} \ {None} \subseteq Uses(r)
  /\ rt[r].owner # None /\ leases[KeyOf[r]] = rt[r].owner /\ UNCHANGED leases
  /\ Descends(req.hist, Resolved(KeyOf[r]).hist)
  /\ Ambiguous \/ active[KeyOf[r]] \in {None, req.id, req.prev}

\* A Finalize of r's request makes it the version of r's key, leaves every other key
\* alone and continues what was stored.
LEMMA ApplyEffect ==
  ASSUME IInv, UNCHANGED scene, NEW r \in Runtime, NEW req, MayApply(r, req), Apply(req)
  PROVE  /\ records' \in [Id -> [key : Key \cup {None}, hist : Seq(Nat), archived : BOOLEAN]]
         /\ active' \in [Key -> Id0]
         /\ Resolved(KeyOf[r])' = Version(req)
         /\ \A k \in Key : k # KeyOf[r] => Resolved(k)' = Resolved(k)
         /\ \A i \in Id : records'[i].key = IF i = req.id THEN KeyOf[r] ELSE records[i].key
         /\ \A i \in Id : /\ i > ids => records'[i] = NoRecord
                          /\ records'[i] # NoRecord /\ ~records'[i].archived => records'[i].key # None
         /\ \A k \in Key : active'[k] # None =>
              /\ active'[k] <= ids /\ records'[active'[k]].key = k /\ ~records'[active'[k]].archived
         /\ OneActiveRecord'
<1> DEFINE K == KeyOf[r]
           Rec == [key : Key \cup {None}, hist : Seq(Nat), archived : BOOLEAN]
<1>1. /\ K \in Key /\ K # None /\ active \in [Key -> Id0] /\ records \in [Id -> Rec] /\ ids \in Nat
      /\ req \in RequestRecord /\ req.key = K /\ req.id \in Id /\ req.hist \in Seq(Nat) /\ req.prev \in Id0
      /\ req.id # req.prev /\ req.id \in Uses(r) /\ (req.prev # None => req.prev \in Uses(r))
  BY SceneFacts DEF IInv, Types, MayApply, RequestRecord, Id0
<1>2. /\ req.id <= ids /\ records[req.id].key \in {None, K}
      /\ req.prev # None => req.prev \in Id /\ req.prev <= ids /\ records[req.prev].key \in {None, K}
  BY <1>1, Zenon DEF IInv, Named, Id0
<1>3. /\ active' = [active EXCEPT ![K] = req.id]
      /\ \A i \in Id : records'[i] =
           IF i = req.id THEN [key |-> K, hist |-> req.hist, archived |-> i = req.prev]
           ELSE IF i = req.prev THEN [records[i] EXCEPT !.archived = TRUE]
           ELSE records[i]
      /\ DOMAIN records' = Id /\ records' = [i \in Id |-> records'[i]]
  BY <1>1, Zenon DEF Apply
<1>4. ASSUME NEW i \in Id
      PROVE  /\ records'[i] \in Rec
             /\ i = req.id => records'[i] = [key |-> K, hist |-> req.hist, archived |-> FALSE]
             /\ i # req.id => records'[i].key = records[i].key /\ records'[i].hist = records[i].hist
             /\ i # req.id /\ i # req.prev => records'[i] = records[i]
             /\ i # req.id /\ i = req.prev => records'[i].archived
  <2>1. CASE i = req.id
    <3>1. (i = req.prev) = FALSE /\ K \in Key \cup {None} /\ req.hist \in Seq(Nat)
      BY <1>1, <2>1, Zenon
    <3>2. records'[i] = [key |-> K, hist |-> req.hist, archived |-> FALSE]
      BY <1>3, <2>1, <3>1, Zenon
    <3> HIDE DEF K
    <3> QED  BY <2>1, <3>1, <3>2
  <2>2. CASE i # req.id /\ i = req.prev
    <3>1. records[i] \in Rec /\ records'[i] = [records[i] EXCEPT !.archived = TRUE]
      BY <1>1, <1>3, <2>2, Zenon
    <3> QED  BY <2>2, <3>1, Zenon
  <2>3. CASE i # req.id /\ i # req.prev
    BY <1>1, <1>3, <2>3, Zenon
  <2> QED  BY <2>1, <2>2, <2>3, Zenon
<1>5. /\ records' \in [Id -> Rec] /\ active' \in [Key -> Id0]
      /\ active'[K] = req.id /\ \A k \in Key : k # K => active'[k] = active[k]
  BY <1>1, <1>3, <1>4, Zenon DEF Id0
<1>6. ASSUME NEW k \in Key, k # K, active[k] # None
      PROVE  active[k] \in Id /\ active[k] # req.id /\ active[k] # req.prev
  <2>1. active[k] \in Id /\ records[active[k]].key = k /\ k # None
    BY <1>6, ResolvedFacts, SceneFacts, Zenon DEF IInv
  <2> QED  BY <1>2, <1>6, <2>1, Zenon
<1>7. Resolved(K)' = Version(req)
  <2>1. active'[K] = req.id /\ req.id # None /\ records'[req.id] = [key |-> K, hist |-> req.hist, archived |-> FALSE]
    BY <1>1, <1>4, <1>5, SceneFacts, Zenon DEF IInv
  <2>2. Resolved(K)' = [id |-> req.id, hist |-> req.hist]
    <3>1. KeyOf' = KeyOf
      BY Zenon DEF KeyOf
    <3> QED  BY <2>1, <3>1 DEF Resolved
  <2> QED  BY <2>2, Zenon DEF Version
<1>8. ASSUME NEW k \in Key, k # K PROVE Resolved(k)' = Resolved(k)
  BY <1>4, <1>5, <1>6, <1>8 DEF Resolved
<1>9. ASSUME NEW i \in Id
      PROVE  /\ i > ids => records'[i] = NoRecord
             /\ records'[i] # NoRecord /\ ~records'[i].archived => records'[i].key # None
  <2>1. /\ i > ids => records[i] = NoRecord
        /\ records[i] # NoRecord /\ ~records[i].archived => records[i].key # None
    BY Zenon DEF IInv, Named
  <2>2. i > ids => i # req.id /\ i # req.prev
    BY <1>1, <1>2, SceneFacts DEF IInv
  <2> QED  BY <1>1, <1>4, <2>1, <2>2
<1>10. ASSUME NEW k \in Key, active'[k] # None
       PROVE  active'[k] <= ids /\ records'[active'[k]].key = k /\ ~records'[active'[k]].archived
  <2>1. CASE k = K
    BY <1>1, <1>2, <1>4, <1>5, <2>1
  <2>2. CASE k # K
    BY <1>4, <1>5, <1>6, <1>10, <2>2 DEF IInv, Named
  <2> QED  BY <2>1, <2>2, Zenon
<1>11. OneActiveRecord'
  <2> SUFFICES ASSUME ~Ambiguous, NEW i \in Id, records'[i] # NoRecord, ~records'[i].archived
               PROVE  active'[records'[i].key] = i
    BY Zenon DEF OneActiveRecord, Ambiguous
  <2>1. CASE i = req.id
    BY <1>4, <1>5, <2>1
  <2>2. CASE i # req.id
    <3>1. i # req.prev /\ records'[i] = records[i]
      BY <1>4, <2>2, Zenon
    <3>2. active[records[i].key] = i
      BY <3>1, Zenon DEF IInv, OneActiveRecord
    <3>3. records[i].key # K
      BY <1>1, <2>2, <3>1, <3>2, SceneFacts, Zenon DEF MayApply, IInv
    <3>4. records[i].key \in Key
      BY <1>1, <3>1, Zenon DEF IInv, Named
    <3> QED  BY <1>5, <3>1, <3>2, <3>3, <3>4, Zenon
  <2> QED  BY <2>1, <2>2, Zenon
<1> QED  BY <1>4, <1>5, <1>7, <1>8, <1>9, <1>10, <1>11

-----------------------------------------------------------------------------
(* One step of runtime r, as the other runtimes and the store see it. *)

\* The stored conversations: untouched, or advanced by r.
StoreMoves(r) ==
  UNCHANGED <<records, active>> \/ \E req \in RequestRecord : MayApply(r, req) /\ Apply(req)

\* Only r's own state moves.
RtOnly(r) == rt' \in [Runtime -> RuntimeRecord] /\ \A s \in Runtime \ {r} : rt'[s] = rt[s]
ExOnly(r) == ex' \in [Runtime -> ExecutionRecord] /\ \A s \in Runtime \ {r} : ex'[s] = ex[s]
LockOnly(r) == lock' \in [Runtime -> LockRecord] /\ \A s \in Runtime \ {r} : lock'[s] = lock[s]
SavedOnly(r) == saved' \in [Runtime -> Seq(Nat)] /\ \A s \in Runtime \ {r} : saved'[s] = saved[s]

\* Nobody gets back the lease on a key that it owned and lost.
LeaseKeeps ==
  /\ leases' \in [Target -> Owner0]
  /\ \A s \in Runtime : rt[s].owner # None /\ leases'[KeyOf[s]] = rt[s].owner
                          => leases[KeyOf[s]] = rt[s].owner

Touches(r) ==
  /\ UNCHANGED scene /\ RtOnly(r) /\ ExOnly(r) /\ LockOnly(r) /\ SavedOnly(r) /\ LeaseKeeps
  /\ marks' \in Nat /\ (ids' = ids \/ (ids < MaxIds /\ ids' = ids + 1))

\* And r's state is as the invariant wants it.
Moves(r) ==
  /\ Touches(r) /\ StoreMoves(r)
  /\ ControlOf(rt'[r], ex'[r], lock'[r]) /\ MemoryOf(rt'[r], ex'[r], saved'[r], KeyOf[r])
  /\ Descends(saved'[r], saved[r])
  /\ rt'[r].owner \in {None, rt[r].owner} \/ (lock[r].at = "validate" /\ rt'[r].owner = lock[r].cand)
  /\ lock'[r].at = "validate" =>
       (lock[r].at = "validate" /\ lock'[r].cand = lock[r].cand) \/ lock'[r].cand \notin InUse
  /\ UsesOf(rt'[r], ex'[r]) \subseteq
       Uses(r) \cup {i \in {ids'} : ids' # ids} \cup {Resolved(KeyOf[r]).id}
  /\ SeenOf(rt'[r], ex'[r], leases'[KeyOf[r]], Resolved(KeyOf[r])', Ambiguous)
  /\ rt'[r].pending = NoReq => Descends(Resolved(KeyOf[r])'.hist, saved'[r])

\* What NoLostUpdate says of a step.
Advances ==
  /\ \A k \in Key : Descends(Resolved(k)'.hist, Resolved(k).hist)
  /\ \A r \in Runtime : Descends(saved[r]', saved[r])

\* The same for every step, whether it writes or not.
LEMMA StoreEffect ==
  ASSUME IInv, UNCHANGED scene, NEW r \in Runtime, StoreMoves(r)
  PROVE  /\ records' \in [Id -> [key : Key \cup {None}, hist : Seq(Nat), archived : BOOLEAN]]
         /\ active' \in [Key -> Id0]
         /\ \A k \in Key : /\ Resolved(k)'.hist \in Seq(Nat)
                           /\ Descends(Resolved(k)'.hist, Resolved(k).hist)
         /\ \A k \in Key : \/ Resolved(k)' = Resolved(k)
                           \/ k = KeyOf[r] /\ rt[r].owner # None /\ leases[k] = rt[r].owner
         /\ \A i \in Id : records'[i].key = records[i].key \/ (i \in Uses(r) /\ records'[i].key = KeyOf[r])
         /\ \A i \in Id : /\ i > ids => records'[i] = NoRecord
                          /\ records'[i] # NoRecord /\ ~records'[i].archived => records'[i].key # None
         /\ \A k \in Key : active'[k] # None =>
              /\ active'[k] <= ids /\ records'[active'[k]].key = k /\ ~records'[active'[k]].archived
         /\ OneActiveRecord'
<1>1. CASE UNCHANGED <<records, active>>
  <2>1. \A k \in Key : Resolved(k)' = Resolved(k)
    BY <1>1, Zenon DEF Resolved
  <2>2. \A k \in Key : Resolved(k).hist \in Seq(Nat) /\ Descends(Resolved(k).hist, Resolved(k).hist)
    BY ResolvedFacts, DescendsFacts, Zenon
  <2>3. OneActiveRecord'
    BY <1>1, Zenon DEF IInv, OneActiveRecord, Ambiguous
  <2> QED  BY <1>1, <2>1, <2>2, <2>3, Zenon DEF IInv, Types, Named
<1>2. CASE \E req \in RequestRecord : MayApply(r, req) /\ Apply(req)
  <2>1. PICK req \in RequestRecord : MayApply(r, req) /\ Apply(req)
    BY <1>2, Zenon
  <2>2. KeyOf' = KeyOf /\ KeyOf[r] \in Key
    BY SceneFacts, Zenon DEF KeyOf, IInv
  <2>3. /\ Resolved(KeyOf[r])' = Version(req)
        /\ \A k \in Key : k # KeyOf[r] => Resolved(k)' = Resolved(k)
        /\ \A i \in Id : records'[i].key = IF i = req.id THEN KeyOf[r] ELSE records[i].key
    BY <2>1, ApplyEffect
  <2>4. \A k \in Key : k = KeyOf[r] => Resolved(k)' = Version(req)
    BY <2>2, <2>3, Zenon
  <2>5. /\ req.hist \in Seq(Nat) /\ Descends(req.hist, Resolved(KeyOf[r]).hist)
        /\ req.id \in Uses(r) /\ rt[r].owner # None /\ leases[KeyOf[r]] = rt[r].owner
    BY <2>1, Zenon DEF MayApply, RequestRecord
  <2>6. Version(req).hist = req.hist
    BY Zenon DEF Version
  <2>7. \A k \in Key : Resolved(k).hist \in Seq(Nat) /\ Descends(Resolved(k).hist, Resolved(k).hist)
    BY ResolvedFacts, DescendsFacts, Zenon
  <2>8. ASSUME NEW k \in Key
        PROVE  /\ Resolved(k)'.hist \in Seq(Nat) /\ Descends(Resolved(k)'.hist, Resolved(k).hist)
               /\ \/ Resolved(k)' = Resolved(k)
                  \/ k = KeyOf[r] /\ rt[r].owner # None /\ leases[k] = rt[r].owner
    BY <2>3, <2>4, <2>5, <2>6, <2>7, Zenon
  <2>9. \A i \in Id : records'[i].key = records[i].key \/ (i \in Uses(r) /\ records'[i].key = KeyOf[r])
    BY <2>3, <2>5, Zenon
  <2> QED  BY <2>1, <2>8, <2>9, ApplyEffect, Zenon
<1> QED  BY <1>1, <1>2, Zenon DEF StoreMoves

\* The relation is enough: every such step keeps the invariant and loses no conversation.
LEMMA MovesInv ==
  ASSUME IInv, NEW r \in Runtime, Moves(r)
  PROVE  IInv' /\ Advances
<1> DEFINE K == KeyOf[r]
<1>1. /\ UNCHANGED scene /\ StoreMoves(r) /\ Touches(r)
      /\ KeyOf' = KeyOf /\ Ambiguous' = Ambiguous /\ K \in Key
  BY SceneFacts, Zenon DEF Moves, Touches, KeyOf, Ambiguous, IInv
<1>2. Types'
  <2>1. ids' \in 0 .. MaxIds /\ marks' \in Nat
    BY <1>1, StoreAssumption DEF IInv, Types, Touches
  <2>2. /\ records' \in [Id -> [key : Key \cup {None}, hist : Seq(Nat), archived : BOOLEAN]]
        /\ active' \in [Key -> Id0]
    BY <1>1, StoreEffect, Zenon
  <2> QED  BY <1>1, <2>1, <2>2, Zenon DEF IInv, Types, Touches, RtOnly, ExOnly, LockOnly, SavedOnly, LeaseKeeps
<1>3. \A s \in Runtime : s # r => /\ rt'[s] = rt[s] /\ ex'[s] = ex[s]
                                  /\ lock'[s] = lock[s] /\ saved'[s] = saved[s]
  BY <1>1, Zenon DEF Touches, RtOnly, ExOnly, LockOnly, SavedOnly
<1>4. Control'
  <2>1. \A s \in Runtime : ControlOf(rt'[s], ex'[s], lock'[s])
    BY <1>3, Zenon DEF IInv, Control, Moves
  <2> QED  BY <2>1, Zenon DEF Control
<1>5. Memory'
  <2>1. \A s \in Runtime : MemoryOf(rt'[s], ex'[s], saved'[s], KeyOf[s])
    BY <1>3, Zenon DEF IInv, Memory, Moves
  <2> QED  BY <1>1, <2>1, Zenon DEF Memory
<1>6. Owners'
  <2> SUFFICES ASSUME NEW s \in Runtime, s # r
               PROVE  /\ rt'[r].owner # None => rt'[r].owner # rt'[s].owner
                      /\ rt'[r].owner # None /\ lock'[s].at = "validate" => rt'[r].owner # lock'[s].cand
                      /\ rt'[s].owner # None /\ lock'[r].at = "validate" => rt'[s].owner # lock'[r].cand
                      /\ lock'[r].at = "validate" /\ lock'[s].at = "validate" => lock'[r].cand # lock'[s].cand
    BY <1>3 DEF IInv, Owners
  <2>1. /\ rt'[s] = rt[s] /\ lock'[s] = lock[s]
        /\ rt[s].owner \in InUse /\ lock[s].cand \in InUse
    BY <1>3 DEF InUse
  <2>2. /\ rt'[r].owner \in {None, rt[r].owner} \/ (lock[r].at = "validate" /\ rt'[r].owner = lock[r].cand)
        /\ lock'[r].at = "validate" =>
             (lock[r].at = "validate" /\ lock'[r].cand = lock[r].cand) \/ lock'[r].cand \notin InUse
    BY Zenon DEF Moves
  <2>3. /\ rt[r].owner # None => rt[r].owner # rt[s].owner
        /\ rt[s].owner # None => rt[r].owner # rt[s].owner
        /\ rt[r].owner # None /\ lock[s].at = "validate" => rt[r].owner # lock[s].cand
        /\ rt[s].owner # None /\ lock[r].at = "validate" => rt[s].owner # lock[r].cand
        /\ lock[r].at = "validate" /\ lock[s].at = "validate" => lock[r].cand # lock[s].cand
    BY Zenon DEF IInv, Owners
  <2> QED  BY <2>1, <2>2, <2>3, Zenon
<1>7. Named'
  <2>1. /\ \A s \in Runtime : s # r => Uses(s)' = Uses(s)
        /\ Uses(r)' \subseteq Uses(r) \cup {i \in {ids'} : ids' # ids} \cup {active[K]}
        /\ None \notin Uses(r)' /\ \A s \in Runtime : Uses(s) \subseteq Id /\ Uses(s)' \subseteq Id
    <3>1. Uses(r)' = UsesOf(rt'[r], ex'[r]) /\ None \notin Uses(r)'
      BY Zenon DEF Uses, UsesOf
    <3>2. \A s \in Runtime : s # r => Uses(s)' = Uses(s)
      BY <1>3, Zenon DEF Uses
    <3>3. Resolved(K).id = active[K]
      BY <1>1, ResolvedFacts, Zenon
    <3>4. ASSUME NEW x \in RuntimeRecord, NEW e \in ExecutionRecord PROVE UsesOf(x, e) \subseteq Id
      BY DEF UsesOf, RuntimeRecord, ExecutionRecord, RequestRecord, VersionRecord, Id0
    <3>5. \A s \in Runtime : Uses(s) \subseteq Id /\ Uses(s)' \subseteq Id
      BY <1>2, <3>4, Zenon DEF IInv, Types, Uses
    <3> QED  BY <3>1, <3>2, <3>3, <3>5, Zenon DEF Moves
  <2>2. /\ ids \in Nat /\ ids' \in Nat /\ (ids' = ids \/ ids' = ids + 1) /\ Id \subseteq Nat
    BY <1>1, SceneFacts DEF IInv, Types, Touches
  <2>3. \A s \in Runtime : \A i \in Uses(s) : i <= ids /\ records[i].key \in {None, KeyOf[s]}
    BY Zenon DEF IInv, Named
  <2>4. \A s, q \in Runtime : Uses(s) \cap Uses(q) # {} => KeyOf[s] = KeyOf[q]
    BY Zenon DEF IInv, Named
  <2>5. active[K] # None => active[K] <= ids /\ active[K] \in Id /\ records[active[K]].key = K
    BY <1>1, ResolvedFacts, Zenon
  <2>6. /\ \A i \in Id : records'[i].key = records[i].key \/ (i \in Uses(r) /\ records'[i].key = K)
        /\ \A i \in Id : /\ i > ids => records'[i] = NoRecord
                         /\ records'[i] # NoRecord /\ ~records'[i].archived => records'[i].key # None
        /\ \A k \in Key : active'[k] # None =>
             /\ active'[k] <= ids /\ records'[active'[k]].key = k /\ ~records'[active'[k]].archived
        /\ active' \in [Key -> Id0]
    BY <1>1, StoreEffect, Zenon
  <2> HIDE DEF K
  <2>7. ASSUME NEW s \in Runtime, NEW i \in Uses(s)'
        PROVE  i <= ids' /\ records'[i].key \in {None, KeyOf[s]}
    <3>1. CASE i \in Uses(s)
      <4>1. i \in Uses(r) => KeyOf[s] = K
        BY <2>4, <3>1, Zenon DEF K
      <4>2. i \in Id /\ i <= ids /\ records[i].key \in {None, KeyOf[s]}
        BY <2>1, <2>3, <3>1, Zenon
      <4>3. records'[i].key \in {None, KeyOf[s]}
        BY <2>6, <4>1, <4>2, Zenon
      <4> QED  BY <2>2, <4>2, <4>3
    <3>2. CASE i \notin Uses(s) /\ ids' # ids /\ i = ids'
      <4>1. i \in Id /\ i > ids /\ i <= ids'
        BY <2>1, <2>2, <3>2
      <4>2. records'[i].key = None
        BY <2>6, <4>1 DEF NoRecord
      <4> QED  BY <4>1, <4>2, Zenon
    <3>3. CASE i \notin Uses(s) /\ i = active[K] /\ s = r
      <4>1. i # None /\ i \in Id
        BY <2>1, <3>3, Zenon
      <4>2. i <= ids /\ records[i].key = K
        BY <2>5, <3>3, <4>1, Zenon
      <4>3. records'[i].key = K
        BY <2>6, <4>1, <4>2, Zenon
      <4> QED  BY <2>2, <3>3, <4>1, <4>2, <4>3 DEF K
    <3> QED  BY <2>1, <3>1, <3>2, <3>3, Zenon
  <2>8. ASSUME NEW s \in Runtime, s # r, NEW i \in Uses(r)' \cap Uses(s) PROVE KeyOf[s] = K
    <3>1. CASE i \in Uses(r)
      BY <2>4, <2>8, <3>1, Zenon DEF K
    <3>2. CASE ids' # ids /\ i = ids'
      BY <2>2, <2>3, <2>8, <3>2
    <3>3. CASE i = active[K]
      <4>1. i # None /\ i \in Id
        BY <2>1, <2>8, Zenon
      <4>2. records[i].key = K /\ records[i].key \in {None, KeyOf[s]} /\ K # None
        BY <1>1, <2>3, <2>5, <2>8, <3>3, <4>1, SceneFacts, Zenon DEF IInv
      <4> QED  BY <4>2, Zenon
    <3> QED  BY <2>1, <2>8, <3>1, <3>2, <3>3, Zenon
  <2>9. ASSUME NEW s \in Runtime, NEW q \in Runtime, Uses(s)' \cap Uses(q)' # {}
        PROVE  KeyOf[s] = KeyOf[q]
    <3>1. CASE s = q
      BY <3>1, Zenon
    <3>2. CASE s # r /\ q # r
      BY <2>1, <2>4, <2>9, <3>2, Zenon
    <3>3. CASE s = r /\ q # r
      BY <2>1, <2>8, <2>9, <3>3, Zenon DEF K
    <3>4. CASE s # r /\ q = r
      BY <2>1, <2>8, <2>9, <3>4, Zenon DEF K
    <3> QED  BY <3>1, <3>2, <3>3, <3>4, Zenon
  <2>10. /\ \A i \in Id : i > ids' => records'[i] = NoRecord
         /\ \A k \in Key : active'[k] # None => active'[k] <= ids'
    <3>1. \A i \in Id : i > ids' => i > ids
      BY <2>2
    <3>2. ASSUME NEW k \in Key, active'[k] # None PROVE active'[k] <= ids'
      <4>1. active'[k] \in Nat /\ active'[k] <= ids
        BY <2>2, <2>6, <3>2, Zenon DEF Id0
      <4> QED  BY <2>2, <4>1
    <3> QED  BY <2>6, <3>1, <3>2, Zenon
  <2> QED  BY <1>1, <2>6, <2>7, <2>9, <2>10, Zenon DEF Named
<1>8. Seen'
  <2> SUFFICES ASSUME NEW s \in Runtime
               PROVE  SeenOf(rt'[s], ex'[s], leases'[KeyOf[s]], Resolved(KeyOf[s])', Ambiguous)
    BY <1>1, Zenon DEF Seen
  <2>1. CASE s = r
    BY <2>1, Zenon DEF Moves
  <2>2. CASE s # r
    <3>1. /\ rt'[s] = rt[s] /\ ex'[s] = ex[s] /\ KeyOf[s] \in Key
          /\ rt[s].owner # None /\ leases'[KeyOf[s]] = rt[s].owner => leases[KeyOf[s]] = rt[s].owner
          /\ rt[r].owner # None => rt[r].owner # rt[s].owner
      BY <1>1, <1>3, <2>2, SceneFacts, Zenon DEF Touches, LeaseKeeps, IInv, Owners
    <3>2. \A k \in Key : \/ Resolved(k)' = Resolved(k)
                         \/ k = K /\ rt[r].owner # None /\ leases[k] = rt[r].owner
      BY <1>1, StoreEffect, Zenon
    <3>3. \/ Resolved(KeyOf[s])' = Resolved(KeyOf[s])
          \/ KeyOf[s] = K /\ rt[r].owner # None /\ leases[KeyOf[s]] = rt[r].owner
      BY <1>1, <3>1, <3>2, Zenon
    <3>4. SeenOf(rt[s], ex[s], leases[KeyOf[s]], Resolved(KeyOf[s]), Ambiguous)
      BY Zenon DEF IInv, Seen
    <3> QED  BY <3>1, <3>3, <3>4, Zenon DEF SeenOf
  <2> QED  BY <2>1, <2>2, Zenon
<1>9. Advances
  <2>1. \A k \in Key : Descends(Resolved(k)'.hist, Resolved(k).hist)
    BY <1>1, StoreEffect, Zenon
  <2>2. ASSUME NEW s \in Runtime PROVE Descends(saved'[s], saved[s])
    <3>1. saved[s] \in Seq(Nat)
      BY Zenon DEF IInv, Types
    <3> QED  BY <1>3, <3>1, DescendsFacts, Zenon DEF Moves
  <2> QED  BY <2>1, <2>2, Zenon DEF Advances
<1>10. Stored'
  <2> SUFFICES ASSUME NEW s \in Runtime, rt'[s].pending = NoReq
               PROVE  Descends(Resolved(KeyOf[s])'.hist, saved'[s])
    BY <1>1, Zenon DEF Stored, Pending
  <2>1. CASE s = r
    BY <2>1, Zenon DEF Moves
  <2>2. CASE s # r
    <3>1. /\ rt'[s] = rt[s] /\ saved'[s] = saved[s] /\ saved[s] \in Seq(Nat) /\ KeyOf[s] \in Key
      BY <1>3, <2>2, SceneFacts, Zenon DEF IInv, Types
    <3>2. Descends(Resolved(KeyOf[s]).hist, saved[s])
      BY <3>1, Zenon DEF IInv, Stored, Pending
    <3>3. \A k \in Key : /\ Resolved(k)'.hist \in Seq(Nat) /\ Resolved(k).hist \in Seq(Nat)
                         /\ Descends(Resolved(k)'.hist, Resolved(k).hist)
      BY <1>1, StoreEffect, ResolvedFacts, Zenon
    <3>4. /\ Resolved(KeyOf[s])'.hist \in Seq(Nat) /\ Resolved(KeyOf[s]).hist \in Seq(Nat)
          /\ Descends(Resolved(KeyOf[s])'.hist, Resolved(KeyOf[s]).hist)
      BY <1>1, <3>1, <3>3, Zenon
    <3> QED  BY <3>1, <3>2, <3>4, DescendsTrans, DescendsFacts, ZenonT(40)
  <2> QED  BY <2>1, <2>2, Zenon
<1>11. OneActiveRecord'
  BY <1>1, StoreEffect, Zenon
<1> QED  BY <1>2, <1>4, <1>5, <1>6, <1>7, <1>8, <1>9, <1>10, <1>11, Zenon DEF IInv

-----------------------------------------------------------------------------
(* Most steps move no conversation. *)

SameCand(r) ==
  lock'[r].at = "validate" =>
    (lock[r].at = "validate" /\ lock'[r].cand = lock[r].cand) \/ lock'[r].cand \notin InUse

\* The plan of runtime r stands, or ends.
PlanStands(r) ==
  \/ ex'[r].id = None /\ ex'[r].prev = None /\ ~ex'[r].reused /\ ex'[r].pc \notin PlanPc
  \/ /\ ex'[r].id = ex[r].id /\ ex'[r].prev = ex[r].prev
     /\ ex'[r].hist = ex[r].hist /\ ex'[r].reused = ex[r].reused
     /\ \/ ex'[r].pc = ex[r].pc \/ ex'[r].pc \in {"cleanup", "end"}
        \/ ex[r].pc = "begin" /\ ex'[r].pc = "plan"
        \/ {ex[r].pc, ex'[r].pc} \subseteq PlanPc \ {"lease"}

\* The checkpoint in memory stands, and is validated later if the owner goes.
CheckpointStands(r) ==
  /\ rt'[r].pending = rt[r].pending /\ rt'[r].durable = rt[r].durable
  /\ rt'[r].owner \in {None, rt[r].owner}
  /\ rt'[r].pending # NoReq /\ rt'[r].owner = None => rt'[r].validate

Quiet(r) ==
  /\ RtOnly(r) /\ ExOnly(r) /\ LockOnly(r) /\ LeaseKeeps
  /\ UNCHANGED <<scene, records, active, ids, marks, saved>>
  /\ CheckpointStands(r) /\ PlanStands(r) /\ SameCand(r)
  /\ ControlOf(rt'[r], ex'[r], lock'[r])

\* What holds of a runtime and its execution while nobody has the mutex.
Rests(x, e) ==
  /\ x.executing \/ x.standby => x.owner # None
  /\ e.pc \in PlanPc \cup {"plan"} => x.executing
  /\ x.executing => e.pc # "none"
  /\ e.pc # "none" => IF e.task THEN x.task ELSE x.standby

\* It holds inside a section of the mutex too.
LEMMA ControlRests == ASSUME NEW x, NEW e, NEW l, ControlOf(x, e, l) PROVE Rests(x, e)
BY Zenon DEF ControlOf, Rests

\* It is all there is to say when the mutex is given up.
LEMMA RestsUnlocked == ASSUME NEW x, NEW e, Rests(x, e) PROVE ControlOf(x, e, Unlocked)
<1>1. Unlocked.who = "none" /\ Unlocked.at = "none" /\ Unlocked.cand = None
  BY Zenon DEF Unlocked
<1> HIDE DEF Unlocked
<1>2. "none" \notin FlushAt
  BY Zenon DEF FlushAt
<1> QED  BY <1>1, <1>2, Zenon DEF ControlOf, Rests

\* acquireLocked is entered by a runtime that owns nothing.
LEMMA RestsAcquires ==
  ASSUME NEW x, NEW e, NEW who \in {"exec", "open", "released"}, Rests(x, e), x.owner = None,
         who = "exec" => e.pc = "begin", who = "open" => e.pc = "none"
  PROVE  ControlOf(x, e, [who |-> who, at |-> "acquire", cand |-> None])
<1> DEFINE l == [who |-> who, at |-> "acquire", cand |-> None]
<1>1. l.who = who /\ l.at = "acquire" /\ l.cand = None /\ who # "none" /\ who # "recover"
  BY Zenon
<1>2. "acquire" \notin FlushAt
  BY Zenon DEF FlushAt
<1>3. ~x.executing /\ ~x.standby
  BY Zenon DEF Rests
<1> HIDE DEF l
<1>4. ControlOf(x, e, l)
  BY <1>1, <1>2, <1>3, Zenon DEF ControlOf, Rests
<1> QED  BY <1>4, Zenon DEF l

\* A section sees the same runtime and the same execution while it runs its plan.
LEMMA PlanControl ==
  ASSUME NEW x, NEW y, NEW e, NEW f, NEW l, ControlOf(x, e, l),
         y.task = x.task, y.standby = x.standby, y.executing = x.executing, y.owner = x.owner,
         y.pending = x.pending, e.pc \in PlanPc \cup {"plan"}, f.pc \in PlanPc, f.task = e.task
  PROVE  ControlOf(y, f, l)
<1>1. x.executing /\ e.pc # "none" /\ f.pc # "none" /\ e.pc # "begin"
  BY Zenon DEF ControlOf, PlanPc
<1>2. Rests(y, f) /\ l.who # "exec" /\ l.who # "open" /\ l.who # "recover" /\ l.who # "released"
  BY <1>1, ZenonT(40) DEF ControlOf, Rests
<1> QED  BY <1>1, <1>2, Zenon DEF ControlOf, Rests

\* The invariant at one runtime.
LEMMA LocalFacts ==
  ASSUME IInv, NEW r \in Runtime
  PROVE  /\ rt[r] \in RuntimeRecord /\ ex[r] \in ExecutionRecord /\ lock[r] \in LockRecord
         /\ saved[r] \in Seq(Nat) /\ KeyOf[r] \in Key /\ leases[KeyOf[r]] \in Owner0
         /\ ControlOf(rt[r], ex[r], lock[r]) /\ MemoryOf(rt[r], ex[r], saved[r], KeyOf[r])
         /\ SeenOf(rt[r], ex[r], leases[KeyOf[r]], Resolved(KeyOf[r]), Ambiguous)
         /\ rt[r].pending = NoReq => Descends(Resolved(KeyOf[r]).hist, saved[r])
         /\ \A i \in Uses(r) : i \in Id /\ i <= ids
BY SceneFacts DEF IInv, Types, Control, Memory, Seen, Stored, Pending, Named, Uses, UsesOf,
                  RuntimeRecord, ExecutionRecord, RequestRecord, VersionRecord, Id0

\* Where a runtime, its execution and its section are.
LEMMA ControlFacts == ASSUME IInv, NEW r \in Runtime PROVE ControlOf(rt[r], ex[r], lock[r])
BY LocalFacts, Zenon

\* A step that writes nothing is a move.
LEMMA QuietMoves ==
  ASSUME IInv, NEW r \in Runtime, Quiet(r)
  PROVE  Moves(r)
<1>1. /\ KeyOf' = KeyOf /\ KeyOf[r] \in Key /\ Resolved(KeyOf[r])' = Resolved(KeyOf[r])
      /\ saved'[r] = saved[r] /\ saved[r] \in Seq(Nat) /\ marks \in Nat
  BY LocalFacts, Zenon DEF Quiet, KeyOf, Resolved, IInv, Types
<1>2. Touches(r) /\ StoreMoves(r)
  BY Zenon DEF Quiet, Touches, SavedOnly, StoreMoves, IInv, Types
<1>3. MemoryOf(rt'[r], ex'[r], saved[r], KeyOf[r])
  <2>1. MemoryOf(rt[r], ex[r], saved[r], KeyOf[r]) /\ PlanStands(r) /\ CheckpointStands(r)
    BY LocalFacts, Zenon DEF Quiet
  <2> QED  BY <2>1, Zenon DEF MemoryOf, PlanStands, CheckpointStands, PlanPc
<1>4. UsesOf(rt'[r], ex'[r]) \subseteq Uses(r)
  BY Zenon DEF Quiet, Uses, UsesOf, PlanStands, CheckpointStands
<1>5. SeenOf(rt'[r], ex'[r], leases'[KeyOf[r]], Resolved(KeyOf[r]), Ambiguous)
  <2> SUFFICES ASSUME rt'[r].owner # None, leases'[KeyOf[r]] = rt'[r].owner,
                      rt'[r].pending # NoReq \/ ex'[r].pc \in PlanPc
               PROVE  /\ Descends(IF rt'[r].pending # NoReq THEN rt'[r].pending.hist ELSE ex'[r].hist,
                                  Resolved(KeyOf[r]).hist)
                      /\ Ambiguous \/ Resolved(KeyOf[r]) = rt'[r].durable
    BY Zenon DEF SeenOf
  <2>1. rt'[r].owner = rt[r].owner /\ leases[KeyOf[r]] = rt[r].owner
    BY Zenon DEF Quiet, CheckpointStands, LeaseKeeps
  <2>2. /\ rt'[r].pending = rt[r].pending /\ rt'[r].durable = rt[r].durable
        /\ ex'[r].pc \in PlanPc => ex[r].pc \in PlanPc /\ ex'[r].hist = ex[r].hist
    BY Zenon DEF Quiet, CheckpointStands, PlanStands, PlanPc
  <2> QED  BY <2>1, <2>2, LocalFacts, Zenon DEF SeenOf
<1>6. rt'[r].pending = NoReq => Descends(Resolved(KeyOf[r]).hist, saved[r])
  BY LocalFacts, Zenon DEF Quiet, CheckpointStands
<1> QED  BY <1>1, <1>2, <1>3, <1>4, <1>5, <1>6, DescendsFacts, Zenon DEF Moves, Quiet, CheckpointStands, SameCand

\* It keeps the invariant.
LEMMA QuietInv ==
  ASSUME IInv, NEW r \in Runtime, Quiet(r)
  PROVE  IInv' /\ Advances
BY QuietMoves, MovesInv, Zenon

\* The moves the actions are made of.
LEMMA Unmoved ==
  ASSUME IInv, NEW r \in Runtime
  PROVE  /\ UNCHANGED rt => RtOnly(r) /\ rt'[r] = rt[r]
         /\ UNCHANGED ex => ExOnly(r) /\ ex'[r] = ex[r] /\ PlanStands(r)
         /\ UNCHANGED lock => LockOnly(r) /\ lock'[r] = lock[r] /\ SameCand(r)
         /\ UNCHANGED leases => LeaseKeeps
         /\ UNCHANGED saved => SavedOnly(r) /\ saved'[r] = saved[r]
BY Zenon DEF IInv, Types, RtOnly, ExOnly, LockOnly, SavedOnly, LeaseKeeps, PlanStands, SameCand

\* What an assignment to one runtime changes.
LEMMA RtEffect ==
  ASSUME IInv, NEW r \in Runtime, NEW x \in RuntimeRecord, rt' = [rt EXCEPT ![r] = x]
  PROVE  RtOnly(r) /\ rt'[r] = x
BY Zenon DEF IInv, Types, RtOnly

\* What Step changes.
LEMMA StepEffect ==
  ASSUME IInv, NEW r \in Runtime, NEW pc \in ExPc, Step(r, pc)
  PROVE  /\ ExOnly(r) /\ ex'[r] = [ex[r] EXCEPT !.pc = pc] /\ ex'[r].pc = pc
         /\ ex'[r].id = ex[r].id /\ ex'[r].prev = ex[r].prev /\ ex'[r].hist = ex[r].hist
         /\ ex'[r].reused = ex[r].reused /\ ex'[r].task = ex[r].task
<1>1. ex[r] \in ExecutionRecord /\ ex \in [Runtime -> ExecutionRecord]
  BY Zenon DEF IInv, Types
<1>2. [ex[r] EXCEPT !.pc = pc] \in ExecutionRecord
  BY <1>1, Zenon DEF ExecutionRecord
<1>3. ex' = [ex EXCEPT ![r] = [ex[r] EXCEPT !.pc = pc]]
  BY <1>1, Zenon DEF Step
<1>4. ExOnly(r) /\ ex'[r] = [ex[r] EXCEPT !.pc = pc]
  BY <1>1, <1>2, <1>3, Zenon DEF ExOnly
<1> QED  BY <1>1, <1>4, Zenon DEF ExecutionRecord

\* What the mutex operations change.
LEMMA LockEffect ==
  ASSUME IInv, NEW r \in Runtime
  PROVE  /\ Unlock(r) => LockOnly(r) /\ lock'[r] = Unlocked /\ SameCand(r)
         /\ \A at \in SectionAt \ {"validate"} : Goto(r, at) =>
              /\ LockOnly(r) /\ SameCand(r)
              /\ lock'[r].at = at /\ lock'[r].who = lock[r].who /\ lock'[r].cand = lock[r].cand
         /\ \A at \in SectionAt \ {"validate"}, who \in {"exec", "open", "recover", "released"} :
              Locking(r, who, at) =>
                LockOnly(r) /\ SameCand(r) /\ lock'[r] = [who |-> who, at |-> at, cand |-> None]
<1>1. lock[r] \in LockRecord /\ lock \in [Runtime -> LockRecord]
  BY Zenon DEF IInv, Types
<1>2. Unlock(r) => LockOnly(r) /\ lock'[r] = Unlocked /\ SameCand(r)
  BY <1>1 DEF Unlock, Unlocked, LockOnly, SameCand, LockRecord, SectionAt, Owner0
<1>3. ASSUME NEW at \in SectionAt \ {"validate"}, Goto(r, at)
      PROVE  /\ LockOnly(r) /\ SameCand(r)
             /\ lock'[r].at = at /\ lock'[r].who = lock[r].who /\ lock'[r].cand = lock[r].cand
  <2>1. [lock[r] EXCEPT !.at = at] \in LockRecord /\ lock' = [lock EXCEPT ![r] = [lock[r] EXCEPT !.at = at]]
    BY <1>1, <1>3, Zenon DEF Goto, LockRecord
  <2> QED  BY <1>1, <2>1, Zenon DEF LockOnly, SameCand, LockRecord
<1>4. ASSUME NEW at \in SectionAt \ {"validate"}, NEW who \in {"exec", "open", "recover", "released"},
             Locking(r, who, at)
      PROVE  LockOnly(r) /\ SameCand(r) /\ lock'[r] = [who |-> who, at |-> at, cand |-> None]
  <2>1. [who |-> who, at |-> at, cand |-> None] \in LockRecord
    BY Zenon DEF LockRecord, Owner0
  <2> QED  BY <1>1, <1>4, <2>1, Zenon DEF Locking, LockOnly, SameCand, LockRecord
<1> QED  BY <1>2, <1>3, <1>4, Zenon

\* The flags that say how an ownership ended, and the recovery loop, are apart.
Same(x, y) ==
  /\ x.task = y.task /\ x.standby = y.standby /\ x.executing = y.executing /\ x.owner = y.owner
  /\ x.pending = y.pending /\ x.durable = y.durable /\ x.validate = y.validate

\* A runtime with the same ownership and checkpoint has the same obligations.
LEMMA SameFacts ==
  ASSUME IInv, NEW r \in Runtime, NEW x, Same(x, rt[r])
  PROVE  /\ rt'[r] = x => CheckpointStands(r)
         /\ \A e, l : ControlOf(rt[r], e, l) => ControlOf(x, e, l)
<1>1. rt'[r] = x => CheckpointStands(r)
  BY LocalFacts DEF Same, CheckpointStands, MemoryOf
<1>2. \A e, l : ControlOf(rt[r], e, l) => ControlOf(x, e, l)
  BY DEF Same, ControlOf
<1> QED  BY <1>1, <1>2, ZenonT(40)

\* Flags touch neither.
LEMMA FlagFacts ==
  ASSUME NEW x \in RuntimeRecord, NEW a \in BOOLEAN, NEW b \in BOOLEAN, NEW c \in {"off", "on", "leaving"}
  PROVE  /\ [x EXCEPT !.err = a] \in RuntimeRecord /\ Same([x EXCEPT !.err = a], x)
         /\ [x EXCEPT !.err = a, !.dead = b] \in RuntimeRecord /\ Same([x EXCEPT !.err = a, !.dead = b], x)
         /\ [x EXCEPT !.dead = a, !.renewErr = b] \in RuntimeRecord
         /\ Same([x EXCEPT !.dead = a, !.renewErr = b], x)
         /\ [x EXCEPT !.recovering = c] \in RuntimeRecord /\ Same([x EXCEPT !.recovering = c], x)
         /\ Same(x, x) /\ x.err \in BOOLEAN /\ x.dead \in BOOLEAN /\ x.renewErr \in BOOLEAN
BY Zenon DEF RuntimeRecord, Same

\* Leases that only go back.
LEMMA ReleasedKeeps ==
  ASSUME IInv, NEW T, NEW o, leases' = Released(leases, T, o)
  PROVE  LeaseKeeps
<1>1. \A t \in Target : leases'[t] \in {leases[t], None}
  BY Zenon DEF Released
<1>2. leases' \in [Target -> Owner0]
  BY Zenon DEF Released, IInv, Types, Owner0
<1> QED  BY <1>1, <1>2, SceneFacts, Zenon DEF LeaseKeeps, IInv

\* acquireLocked fails: the caller is told and the mutex given up.
LEMMA RefusedEffect ==
  ASSUME IInv, NEW r \in Runtime, Refused(r), lock[r].at # "none"
  PROVE  /\ LockOnly(r) /\ SameCand(r) /\ ExOnly(r) /\ PlanStands(r)
         /\ ControlOf(rt[r], ex'[r], lock'[r])
<1>1. LockOnly(r) /\ SameCand(r) /\ lock'[r] = Unlocked
  BY LockEffect, Zenon DEF Refused
<1>2. CASE lock[r].who = "exec"
  <2>1. Step(r, "cleanup") /\ "cleanup" \in ExPc
    BY <1>2, Zenon DEF Refused, ExPc
  <2>2. ExOnly(r) /\ PlanStands(r) /\ ex'[r].pc = "cleanup" /\ ex'[r].task = ex[r].task
    BY <2>1, StepEffect, Zenon DEF PlanStands
  <2>3. ControlOf(rt[r], ex'[r], lock'[r])
    <3>1. Rests(rt[r], ex[r]) /\ ex[r].pc = "begin"
      BY <1>2, ControlFacts, ControlRests, Zenon DEF ControlOf
    <3>2. Rests(rt[r], ex'[r])
      BY <2>2, <3>1, Zenon DEF Rests, PlanPc
    <3> QED  BY <1>1, <3>2, RestsUnlocked, Zenon
  <2> QED  BY <1>1, <2>2, <2>3, Zenon
<1>3. CASE lock[r].who # "exec"
  <2>1. ExOnly(r) /\ PlanStands(r) /\ ex'[r] = ex[r]
    BY <1>3, Unmoved, Zenon DEF Refused
  <2>2. ControlOf(rt[r], ex'[r], lock'[r])
    BY <1>1, <2>1, ControlFacts, ControlRests, RestsUnlocked, Zenon
  <2> QED  BY <1>1, <2>1, <2>2, Zenon
<1> QED  BY <1>2, <1>3, Zenon

\* Whoever flushed goes on where its own code does.
LEMMA AfterFlushEffect ==
  ASSUME IInv, NEW r \in Runtime, NEW x \in RuntimeRecord, Same(x, rt[r]), NEW lost \in BOOLEAN,
         lock[r].at \in FlushAt, AfterFlush(r, x, lost)
  PROVE  /\ RtOnly(r) /\ ExOnly(r) /\ LockOnly(r)
         /\ CheckpointStands(r) /\ PlanStands(r) /\ SameCand(r) /\ ControlOf(rt'[r], ex'[r], lock'[r])
<1>1. CASE /\ lock[r].who = "exec" /\ rt' = [rt EXCEPT ![r] = x] /\ Unlock(r)
           /\ Step(r, IF lost THEN "cleanup" ELSE "plan")
  <2>1. RtOnly(r) /\ rt'[r] = x
    BY <1>1, RtEffect, Zenon
  <2>2. LockOnly(r) /\ SameCand(r) /\ lock'[r] = Unlocked
    BY <1>1, LockEffect, Zenon
  <2>3. PICK pc \in {"cleanup", "plan"} : Step(r, pc)
    BY <1>1, Zenon
  <2>4. ExOnly(r) /\ ex'[r].pc = pc /\ ex'[r].id = ex[r].id /\ ex'[r].prev = ex[r].prev
        /\ ex'[r].hist = ex[r].hist /\ ex'[r].reused = ex[r].reused /\ ex'[r].task = ex[r].task
    BY <2>3, StepEffect, Zenon DEF ExPc, PlanPc
  <2>5. ex[r].pc = "begin" /\ rt[r].executing
    BY <1>1, LocalFacts, Zenon DEF ControlOf
  <2>6. PlanStands(r)
    BY <2>3, <2>4, <2>5, Zenon DEF PlanStands
  <2>7. ControlOf(rt[r], ex'[r], lock'[r])
    <3>1. Rests(rt[r], ex[r])
      BY ControlFacts, ControlRests, Zenon
    <3>2. Rests(rt[r], ex'[r])
      BY <2>3, <2>4, <2>5, <3>1, Zenon DEF Rests, PlanPc
    <3> QED  BY <2>2, <3>2, RestsUnlocked, Zenon
  <2> QED  BY <2>1, <2>2, <2>4, <2>6, <2>7, SameFacts, Zenon
<1>2. CASE /\ lock[r].who = "recover" /\ UNCHANGED ex
           /\ rt' = [rt EXCEPT ![r] = [x EXCEPT !.err = @ \/ lost, !.dead = @ \/ lost]]
           /\ Goto(r, "settle")
  <2> DEFINE X == [x EXCEPT !.err = @ \/ lost, !.dead = @ \/ lost]
  <2>2. X \in RuntimeRecord /\ Same(X, rt[r])
    <3>1. (x.err \/ lost) \in BOOLEAN /\ (x.dead \/ lost) \in BOOLEAN
      BY Zenon
    <3>2. X \in RuntimeRecord /\ Same(X, x)
      BY <3>1, FlagFacts, Zenon
    <3> HIDE DEF X
    <3> QED  BY <3>2, Zenon DEF Same
  <2> HIDE DEF X
  <2>3. RtOnly(r) /\ rt'[r] = X
    BY <1>2, <2>2, RtEffect, Zenon DEF X
  <2>4. /\ LockOnly(r) /\ SameCand(r)
        /\ lock'[r].at = "settle" /\ lock'[r].who = lock[r].who /\ lock'[r].cand = lock[r].cand
    BY <1>2, LockEffect, Zenon DEF SectionAt
  <2>5. ExOnly(r) /\ PlanStands(r) /\ ex'[r] = ex[r]
    BY <1>2, Unmoved, Zenon
  <2>6. ControlOf(rt[r], ex'[r], lock'[r])
    BY <1>2, <2>4, <2>5, LocalFacts, Zenon DEF ControlOf, PlanPc, FlushAt
  <2> QED  BY <2>2, <2>3, <2>4, <2>5, <2>6, SameFacts, Zenon
<1>3. CASE /\ lock[r].who = "released" /\ UNCHANGED ex
           /\ rt' = [rt EXCEPT ![r] = [x EXCEPT !.err = @ \/ lost]]
           /\ Goto(r, "release")
  <2> DEFINE X == [x EXCEPT !.err = @ \/ lost]
  <2>2. X \in RuntimeRecord /\ Same(X, rt[r])
    <3>1. (x.err \/ lost) \in BOOLEAN /\ (x.dead \/ lost) \in BOOLEAN
      BY Zenon
    <3>2. X \in RuntimeRecord /\ Same(X, x)
      BY <3>1, FlagFacts, Zenon
    <3> HIDE DEF X
    <3> QED  BY <3>2, Zenon DEF Same
  <2> HIDE DEF X
  <2>3. RtOnly(r) /\ rt'[r] = X
    BY <1>3, <2>2, RtEffect, Zenon DEF X
  <2>4. /\ LockOnly(r) /\ SameCand(r)
        /\ lock'[r].at = "release" /\ lock'[r].who = lock[r].who /\ lock'[r].cand = lock[r].cand
    BY <1>3, LockEffect, Zenon DEF SectionAt
  <2>5. ExOnly(r) /\ PlanStands(r) /\ ex'[r] = ex[r]
    BY <1>3, Unmoved, Zenon
  <2>6. ControlOf(rt[r], ex'[r], lock'[r])
    BY <1>3, <2>4, <2>5, LocalFacts, Zenon DEF ControlOf, PlanPc, FlushAt
  <2> QED  BY <2>2, <2>3, <2>4, <2>5, <2>6, SameFacts, Zenon
<1> QED  BY <1>1, <1>2, <1>3, Zenon DEF AfterFlush

\* releaseLocked keeps the checkpoint and marks it to be validated.
LEMMA ReleasedRuntimeFacts ==
  ASSUME NEW x \in RuntimeRecord, NEW lost \in BOOLEAN
  PROVE  LET y == ReleasedRuntime(x, lost) IN
         /\ y \in RuntimeRecord /\ y.owner = None /\ y.pending = x.pending /\ y.durable = x.durable
         /\ y.task = x.task /\ y.standby = x.standby /\ y.executing = x.executing
         /\ x.owner # None /\ x.pending # NoReq => y.validate
         /\ x.owner = None => y.validate = x.validate
<1> DEFINE y == ReleasedRuntime(x, lost)
<1>1. CASE x.owner = None
  BY <1>1, Zenon DEF ReleasedRuntime
<1>2. CASE x.owner # None
  <2>1. PICK v \in BOOLEAN, e \in BOOLEAN :
          /\ v = (x.validate \/ x.pending # NoReq) /\ e = (x.err \/ lost)
    <3>1. (x.validate \/ x.pending # NoReq) \in BOOLEAN /\ (x.err \/ lost) \in BOOLEAN
      BY Zenon
    <3> QED  BY <3>1, Zenon
  <2>2. y = [x EXCEPT !.owner = None, !.dead = TRUE, !.validate = v, !.err = e]
    BY <1>2, <2>1, Zenon DEF ReleasedRuntime
  <2>3. x.pending # NoReq => v = TRUE
    BY <2>1, Zenon
  <2> HIDE DEF y
  <2>4. /\ y \in RuntimeRecord /\ y.owner = None /\ y.pending = x.pending /\ y.durable = x.durable
        /\ y.task = x.task /\ y.standby = x.standby /\ y.executing = x.executing /\ y.validate = v
    BY <2>2, Zenon DEF RuntimeRecord, Owner0
  <2> QED  BY <1>2, <2>3, <2>4, Zenon DEF y
<1> QED  BY <1>1, <1>2, Zenon

\* releaseLocked gives the key back, or loses the release.
LEMMA ReleaseEffect ==
  ASSUME IInv, NEW r \in Runtime, NEW x \in RuntimeRecord, ReleaseOwner(r, x),
         x.owner = rt[r].owner, x.pending = rt[r].pending, x.durable = rt[r].durable,
         x.validate = rt[r].validate
  PROVE  /\ RtOnly(r) /\ LeaseKeeps /\ CheckpointStands(r) /\ rt'[r].owner = None
         /\ rt'[r].pending = rt[r].pending
         /\ rt'[r].task = x.task /\ rt'[r].standby = x.standby /\ rt'[r].executing = x.executing
<1>1. LeaseKeeps
  BY ReleasedKeeps, Unmoved, Zenon DEF ReleaseOwner
<1>2. PICK lost \in BOOLEAN : rt' = [rt EXCEPT ![r] = ReleasedRuntime(x, lost)]
  BY Zenon DEF ReleaseOwner
<1> DEFINE y == ReleasedRuntime(x, lost)
<1>3. /\ y \in RuntimeRecord /\ y.owner = None /\ y.pending = x.pending /\ y.durable = x.durable
      /\ y.task = x.task /\ y.standby = x.standby /\ y.executing = x.executing
      /\ x.owner # None /\ x.pending # NoReq => y.validate
      /\ x.owner = None => y.validate = x.validate
  BY ReleasedRuntimeFacts, Zenon
<1> HIDE DEF y
<1>4. RtOnly(r) /\ rt'[r] = y
  BY <1>2, <1>3, RtEffect, Zenon DEF y
<1>5. CheckpointStands(r)
  BY <1>3, <1>4, LocalFacts, Zenon DEF CheckpointStands, MemoryOf
<1> QED  BY <1>1, <1>3, <1>4, <1>5, Zenon

\* Starting the recovery loop touches neither ownership nor checkpoint.
LEMMA RecoveryFacts ==
  ASSUME NEW x \in RuntimeRecord
  PROVE  Recovery(x) \in RuntimeRecord /\ Same(Recovery(x), x)
BY FlagFacts, Zenon DEF Recovery

-----------------------------------------------------------------------------
(* The steps that move no conversation. *)

\* begin looks at the ownership under the mutex.
LEMMA BeginQuiet ==
  ASSUME IInv, UNCHANGED scene, NEW r \in Runtime, Begin(r)
  PROVE  Quiet(r)
<1>1. /\ lock[r] = Unlocked /\ ex[r].pc = "begin" /\ LeaseKeeps
      /\ UNCHANGED <<scene, records, active, ids, marks, saved>>
  BY Unmoved, Zenon DEF Begin, Free, storeVars, fresh
<1>2. CASE Step(r, "cleanup") /\ UNCHANGED <<rt, lock>>
  <2>1. ExOnly(r) /\ PlanStands(r) /\ ex'[r].pc = "cleanup" /\ ex'[r].task = ex[r].task
    BY <1>2, StepEffect, Zenon DEF PlanStands, ExPc
  <2>2. RtOnly(r) /\ LockOnly(r) /\ SameCand(r) /\ rt'[r] = rt[r] /\ lock'[r] = lock[r]
    BY <1>2, Unmoved, Zenon
  <2>3. CheckpointStands(r)
    BY <2>2, SameFacts, Zenon DEF Same
  <2>4. ControlOf(rt'[r], ex'[r], lock'[r])
    <3>1. Rests(rt[r], ex[r])
      BY ControlFacts, ControlRests, Zenon
    <3>2. Rests(rt'[r], ex'[r])
      BY <1>1, <2>1, <2>2, <3>1, Zenon DEF Rests, PlanPc
    <3> QED  BY <1>1, <2>2, <3>2, RestsUnlocked, Zenon
  <2> QED  BY <1>1, <2>1, <2>2, <2>3, <2>4, Zenon DEF Quiet
<1>3. CASE /\ rt[r].owner # None /\ rt' = [rt EXCEPT ![r].executing = TRUE]
           /\ Locking(r, "exec", "renew") /\ UNCHANGED ex
  <2> DEFINE X == [rt[r] EXCEPT !.executing = TRUE]
  <2>1. /\ X \in RuntimeRecord /\ rt' = [rt EXCEPT ![r] = X] /\ X.executing
        /\ X.task = rt[r].task /\ X.standby = rt[r].standby /\ X.owner = rt[r].owner
        /\ X.pending = rt[r].pending /\ X.durable = rt[r].durable /\ X.validate = rt[r].validate
    BY <1>3, LocalFacts, Zenon DEF RuntimeRecord
  <2> HIDE DEF X
  <2>2. RtOnly(r) /\ rt'[r] = X
    BY <2>1, RtEffect, Zenon
  <2>3. LockOnly(r) /\ SameCand(r) /\ lock'[r] = [who |-> "exec", at |-> "renew", cand |-> None]
    BY <1>3, LockEffect, Zenon DEF SectionAt
  <2>4. ExOnly(r) /\ PlanStands(r) /\ ex'[r] = ex[r]
    BY <1>3, Unmoved, ZenonT(40)
  <2>5. CheckpointStands(r)
    BY <2>1, <2>2, LocalFacts DEF CheckpointStands, MemoryOf
  <2>6. ControlOf(rt'[r], ex'[r], lock'[r])
    BY <1>1, <1>3, <2>1, <2>2, <2>3, <2>4, ControlFacts DEF ControlOf, Unlocked, PlanPc, FlushAt
  <2> QED  BY <1>1, <2>2, <2>3, <2>4, <2>5, <2>6, Zenon DEF Quiet
<1>4. CASE rt[r].owner = None /\ Locking(r, "exec", "acquire") /\ UNCHANGED <<rt, ex>>
  <2>1. LockOnly(r) /\ SameCand(r) /\ lock'[r] = [who |-> "exec", at |-> "acquire", cand |-> None]
    BY <1>4, LockEffect, Zenon DEF SectionAt
  <2>2. RtOnly(r) /\ rt'[r] = rt[r] /\ ExOnly(r) /\ PlanStands(r) /\ ex'[r] = ex[r]
    BY <1>4, Unmoved, Zenon
  <2>3. CheckpointStands(r)
    BY <2>2, SameFacts, Zenon DEF Same
  <2>4. ControlOf(rt'[r], ex'[r], lock'[r])
    <3>1. Rests(rt'[r], ex'[r]) /\ rt'[r].owner = None /\ ex'[r].pc = "begin"
      BY <1>1, <1>4, <2>2, ControlFacts, ControlRests, Zenon
    <3> QED  BY <2>1, <3>1, RestsAcquires, Zenon
  <2> QED  BY <1>1, <2>1, <2>2, <2>3, <2>4, Zenon DEF Quiet
<1> QED  BY <1>2, <1>3, <1>4, Zenon DEF Begin

\* A new owner is named by nobody.
LEMMA FreshOwner ==
  ASSUME IInv, OwnersLeft
  PROVE  /\ NewOwner \in Owner /\ NewOwner # None /\ NewOwner \notin InUse
         /\ \A s \in Runtime : rt[s].owner # NewOwner
<1>1. NewOwner \in Owner \ InUse
  BY Zenon DEF OwnersLeft, NewOwner
<1>2. \A s \in Runtime : rt[s].owner \in InUse
  BY DEF InUse
<1> QED  BY <1>1, <1>2, SceneFacts, Zenon DEF IInv

\* The key is leased under a new owner.
LEMMA AcquireQuiet ==
  ASSUME IInv, UNCHANGED scene, NEW r \in Runtime, Acquire(r)
  PROVE  Quiet(r)
<1>1. /\ lock[r].at = "acquire" /\ RtOnly(r) /\ rt'[r] = rt[r]
      /\ UNCHANGED <<scene, records, active, ids, marks, saved>>
  BY Unmoved, Zenon DEF Acquire, At, fresh
<1>2. CheckpointStands(r)
  BY <1>1, SameFacts, Zenon DEF Same
<1>3. CASE Refused(r) /\ UNCHANGED leases
  <2>1. LeaseKeeps /\ LockOnly(r) /\ SameCand(r) /\ ExOnly(r) /\ PlanStands(r)
        /\ ControlOf(rt[r], ex'[r], lock'[r])
    BY <1>1, <1>3, Unmoved, RefusedEffect, Zenon
  <2> QED  BY <1>1, <1>2, <2>1, Zenon DEF Quiet
<1>4. CASE /\ OwnersLeft
           /\ leases' = [leases EXCEPT ![KeyOf[r]] = NewOwner]
           /\ lock' = [lock EXCEPT ![r].at = "validate", ![r].cand = NewOwner]
           /\ UNCHANGED ex
  <2>1. /\ NewOwner \in Owner /\ NewOwner # None /\ NewOwner \notin InUse
        /\ \A s \in Runtime : rt[s].owner # NewOwner
    BY <1>4, FreshOwner, Zenon
  <2>2. leases \in [Target -> Owner0] /\ \A s \in Runtime : KeyOf[s] \in Target
    BY SceneFacts, Zenon DEF IInv, Types
  <2>3. LeaseKeeps
    <3>1. leases' \in [Target -> Owner0]
      BY <1>4, <2>1, <2>2, Zenon DEF Owner0
    <3> QED  BY <1>4, <2>1, <2>2, <3>1, Zenon DEF LeaseKeeps
  <2> DEFINE L == [lock[r] EXCEPT !.at = "validate", !.cand = NewOwner]
  <2>4. /\ L \in LockRecord /\ lock' = [lock EXCEPT ![r] = L]
        /\ L.at = "validate" /\ L.who = lock[r].who /\ L.cand = NewOwner
    BY <1>4, <2>1, LocalFacts, Zenon DEF LockRecord, SectionAt, Owner0, IInv, Types
  <2> HIDE DEF L
  <2>5. LockOnly(r) /\ SameCand(r) /\ lock'[r] = L
    BY <2>1, <2>4, Zenon DEF LockOnly, SameCand, IInv, Types
  <2>6. ExOnly(r) /\ PlanStands(r) /\ ex'[r] = ex[r]
    BY <1>4, Unmoved, ZenonT(40)
  <2>7. ControlOf(rt'[r], ex'[r], lock'[r])
    BY <1>1, <2>1, <2>4, <2>5, <2>6, ControlFacts DEF ControlOf, PlanPc, FlushAt
  <2> QED  BY <1>1, <1>2, <2>3, <2>5, <2>6, <2>7, Zenon DEF Quiet
<1> QED  BY <1>3, <1>4, Zenon DEF Acquire

\* A renewal that fails marks the owner as lost.
LEMMA RenewQuiet ==
  ASSUME IInv, UNCHANGED scene, NEW r \in Runtime, Renew(r)
  PROVE  Quiet(r)
<1>1. /\ lock[r].at = "renew" /\ LeaseKeeps
      /\ UNCHANGED <<scene, records, active, ids, marks, saved>>
  BY Unmoved, Zenon DEF Renew, At, storeVars, fresh
<1>2. CASE Goto(r, "flush") /\ UNCHANGED <<rt, ex>>
  <2>1. LockOnly(r) /\ SameCand(r) /\ lock'[r].at = "flush" /\ lock'[r].who = lock[r].who
        /\ lock'[r].cand = lock[r].cand
    BY <1>2, LockEffect, Zenon DEF SectionAt, FlushAt
  <2>2. RtOnly(r) /\ rt'[r] = rt[r] /\ ExOnly(r) /\ PlanStands(r) /\ ex'[r] = ex[r]
    BY <1>2, Unmoved, Zenon
  <2>3. CheckpointStands(r)
    BY <2>2, SameFacts, Zenon DEF Same
  <2>4. ControlOf(rt'[r], ex'[r], lock'[r])
    BY <1>1, <2>1, <2>2, LocalFacts, ZenonT(40) DEF ControlOf, PlanPc, FlushAt
  <2> QED  BY <1>1, <2>1, <2>2, <2>3, <2>4, Zenon DEF Quiet
<1>3. CASE rt' = [rt EXCEPT ![r].err = TRUE, ![r].dead = TRUE] /\ Refused(r)
  <2> DEFINE X == [rt[r] EXCEPT !.err = TRUE, !.dead = TRUE]
  <2>1. X \in RuntimeRecord /\ Same(X, rt[r]) /\ rt' = [rt EXCEPT ![r] = X]
    BY <1>3, LocalFacts, FlagFacts, Zenon DEF IInv, Types
  <2> HIDE DEF X
  <2>2. RtOnly(r) /\ rt'[r] = X
    BY <2>1, RtEffect, Zenon
  <2>3. LockOnly(r) /\ SameCand(r) /\ ExOnly(r) /\ PlanStands(r) /\ ControlOf(rt[r], ex'[r], lock'[r])
    BY <1>1, <1>3, RefusedEffect, Zenon
  <2> QED  BY <1>1, <2>1, <2>2, <2>3, SameFacts, Zenon DEF Quiet
<1>4. CASE Refused(r) /\ UNCHANGED rt
  <2>1. LockOnly(r) /\ SameCand(r) /\ ExOnly(r) /\ PlanStands(r) /\ ControlOf(rt[r], ex'[r], lock'[r])
    BY <1>1, <1>4, RefusedEffect, Zenon
  <2>2. RtOnly(r) /\ rt'[r] = rt[r]
    BY <1>4, Unmoved, Zenon
  <2>3. CheckpointStands(r)
    BY <2>2, SameFacts, Zenon DEF Same
  <2> QED  BY <1>1, <2>1, <2>2, <2>3, Zenon DEF Quiet
<1> QED  BY <1>2, <1>3, <1>4, Zenon DEF Renew

\* A flush takes the leases of the record and, for a fork, of the parent.
LEMMA FlushLeasesQuiet ==
  ASSUME IInv, UNCHANGED scene, NEW r \in Runtime, FlushLeases(r)
  PROVE  Quiet(r)
<1>1. /\ lock[r].at = "flush" /\ lock[r].at \in FlushAt
      /\ UNCHANGED <<scene, records, active, ids, marks, saved>>
  BY Zenon DEF FlushLeases, At, fresh, FlushAt
<1>2. CASE AfterFlush(r, rt[r], FALSE) /\ UNCHANGED leases
  <2>1. rt[r] \in RuntimeRecord /\ Same(rt[r], rt[r])
    BY LocalFacts, Zenon DEF Same
  <2>2. /\ RtOnly(r) /\ ExOnly(r) /\ LockOnly(r)
        /\ CheckpointStands(r) /\ PlanStands(r) /\ SameCand(r) /\ ControlOf(rt'[r], ex'[r], lock'[r])
    BY <1>1, <1>2, <2>1, AfterFlushEffect, Zenon
  <2>3. LeaseKeeps
    BY <1>2, Unmoved, Zenon
  <2> QED  BY <1>1, <2>2, <2>3, Zenon DEF Quiet
<1>3. CASE /\ Pending(r) /\ Goto(r, "finalize") /\ UNCHANGED <<rt, ex>>
           /\ leases' = [t \in Target |-> IF t \in FlushTargets(r) THEN rt[r].owner ELSE leases[t]]
  <2>1. LockOnly(r) /\ SameCand(r) /\ lock'[r].at = "finalize" /\ lock'[r].who = lock[r].who
        /\ lock'[r].cand = lock[r].cand
    BY <1>3, LockEffect, Zenon DEF SectionAt, FlushAt
  <2>2. RtOnly(r) /\ rt'[r] = rt[r] /\ ExOnly(r) /\ PlanStands(r) /\ ex'[r] = ex[r]
    BY <1>3, Unmoved, Zenon
  <2>3. CheckpointStands(r)
    BY <2>2, SameFacts, Zenon DEF Same
  <2>4. ControlOf(rt'[r], ex'[r], lock'[r])
    BY <1>1, <1>3, <2>1, <2>2, LocalFacts, Zenon DEF ControlOf, PlanPc, FlushAt, Pending
  <2>5. LeaseKeeps
    <3>1. leases' \in [Target -> Owner0]
      BY <1>3, LocalFacts, Zenon DEF IInv, Types, RuntimeRecord
    <3>2. ASSUME NEW s \in Runtime, rt[s].owner # None, leases'[KeyOf[s]] = rt[s].owner
          PROVE  leases[KeyOf[s]] = rt[s].owner
      <4>1. KeyOf[s] \in Target /\ KeyOf[r] \notin FlushTargets(r)
        BY SceneFacts, Zenon DEF IInv, FlushTargets
      <4>2. CASE s = r
        BY <1>3, <3>2, <4>1, <4>2, Zenon
      <4>3. CASE s # r
        <5>1. rt[s].owner # rt[r].owner
          BY <3>2, <4>3, Zenon DEF IInv, Owners
        <5> QED  BY <1>3, <3>2, <4>1, <5>1, Zenon
      <4> QED  BY <4>2, <4>3, Zenon
    <3> QED  BY <3>1, <3>2, Zenon DEF LeaseKeeps
  <2> QED  BY <1>1, <2>1, <2>2, <2>3, <2>4, <2>5, Zenon DEF Quiet
<1> QED  BY <1>2, <1>3, Zenon DEF FlushLeases

\* It gives them back.
LEMMA FlushReleaseQuiet ==
  ASSUME IInv, UNCHANGED scene, NEW r \in Runtime, FlushRelease(r)
  PROVE  Quiet(r)
<1>1. /\ lock[r].at \in FlushAt /\ At(r, "unflushLost") \in BOOLEAN
      /\ UNCHANGED <<scene, records, active, ids, marks, saved>>
  BY Zenon DEF FlushRelease, At, fresh, FlushAt
<1>2. LeaseKeeps
  BY ReleasedKeeps, Unmoved, Zenon DEF FlushRelease
<1>3. PICK x \in RuntimeRecord : Same(x, rt[r]) /\ AfterFlush(r, x, At(r, "unflushLost"))
  <2>1. rt[r] \in RuntimeRecord /\ Same(rt[r], rt[r])
    BY LocalFacts, Zenon DEF Same
  <2>2. /\ [rt[r] EXCEPT !.err = TRUE, !.dead = TRUE] \in RuntimeRecord
        /\ Same([rt[r] EXCEPT !.err = TRUE, !.dead = TRUE], rt[r])
    BY <2>1, FlagFacts, Zenon
  <2> QED  BY <2>1, <2>2, Zenon DEF FlushRelease
<1>4. /\ RtOnly(r) /\ ExOnly(r) /\ LockOnly(r)
      /\ CheckpointStands(r) /\ PlanStands(r) /\ SameCand(r) /\ ControlOf(rt'[r], ex'[r], lock'[r])
  BY <1>1, <1>3, AfterFlushEffect, Zenon
<1> QED  BY <1>1, <1>2, <1>4, Zenon DEF Quiet

\* A step of the execution alone, to where the plan stands or ends.
LEMMA StepQuiet ==
  ASSUME IInv, UNCHANGED scene, NEW r \in Runtime, NEW pc \in ExPc, Step(r, pc),
         UNCHANGED <<lock, records, active, ids, marks, saved>>, LeaseKeeps, RtOnly(r), Same(rt'[r], rt[r]),
         ex[r].pc \notin {"none", "begin"},
         pc \in {"cleanup", "end"} \/ {ex[r].pc, pc} \subseteq PlanPc \ {"lease"}
  PROVE  Quiet(r)
<1>1. ExOnly(r) /\ PlanStands(r) /\ ex'[r].pc = pc /\ ex'[r].task = ex[r].task
  BY StepEffect, ZenonT(40) DEF PlanStands
<1>2. LockOnly(r) /\ SameCand(r) /\ lock'[r] = lock[r]
  BY Unmoved, Zenon
<1>3. ControlOf(rt[r], ex'[r], lock'[r])
  BY <1>1, <1>2, LocalFacts, Zenon DEF ControlOf, PlanPc
<1> QED  BY <1>1, <1>2, <1>3, SameFacts, Zenon DEF Quiet

\* The steps of an execution that plan and write nothing.
LEMMA ExecutionQuiet ==
  ASSUME IInv, UNCHANGED scene, NEW r \in Runtime,
         PlanFails(r) \/ TurnEnds(r) \/ VerifyOwnership(r) \/ Cleanup(r)
  PROVE  Quiet(r)
<1>0. /\ rt[r] \in RuntimeRecord /\ Same(rt[r], rt[r]) /\ (UNCHANGED rt => RtOnly(r) /\ rt'[r] = rt[r])
      /\ {"cleanup", "end", "persist", "verify", "verifyFailed"} \subseteq ExPc
  BY LocalFacts, Unmoved, Zenon DEF Same, ExPc, PlanPc
<1>1. CASE PlanFails(r)
  BY <1>0, <1>1, StepQuiet, Unmoved, Zenon DEF PlanFails, storeVars, fresh
<1>2. CASE TurnEnds(r)
  <2>1. PICK pc \in {"verify", "verifyFailed"} : Step(r, pc)
    BY <1>2, Zenon DEF TurnEnds
  <2> QED  BY <1>0, <1>2, <2>1, StepQuiet, Unmoved, Zenon DEF TurnEnds, storeVars, fresh, PlanPc
<1>3. CASE VerifyOwnership(r)
  <2>1. /\ ex[r].pc \in {"verify", "verifyFailed"} /\ UNCHANGED <<lock, records, active, ids, marks, saved>>
        /\ LeaseKeeps
    BY <1>3, Unmoved, Zenon DEF VerifyOwnership, storeVars, fresh
  <2>2. PICK pc \in {"cleanup", "persist"} : Step(r, pc)
    BY <1>3, Zenon DEF VerifyOwnership
  <2>3. RtOnly(r) /\ Same(rt'[r], rt[r])
    <3>1. CASE UNCHANGED rt
      BY <1>0, <3>1, Zenon
    <3>2. CASE rt' = [rt EXCEPT ![r].err = @ \/ rt[r].renewErr]
      <4>1. PICK b \in BOOLEAN : b = (rt[r].err \/ rt[r].renewErr)
        <5>1. (rt[r].err \/ rt[r].renewErr) \in BOOLEAN
          BY Zenon
        <5> QED  BY <5>1, Zenon
      <4>2. rt' = [rt EXCEPT ![r] = [rt[r] EXCEPT !.err = b]]
        <5>1. rt' = [rt EXCEPT ![r].err = b]
          BY <3>2, <4>1, Zenon
        <5> QED  BY <5>1, Zenon DEF IInv, Types
      <4> DEFINE X == [rt[r] EXCEPT !.err = b]
      <4>3. X \in RuntimeRecord /\ Same(X, rt[r])
        BY <1>0, FlagFacts, Zenon
      <4> HIDE DEF X
      <4>4. RtOnly(r) /\ rt'[r] = X
        BY <4>2, <4>3, RtEffect, Zenon DEF X
      <4> QED  BY <4>3, <4>4, Zenon
    <3> QED  BY <1>3, <3>1, <3>2, Zenon DEF VerifyOwnership
  <2> QED  BY <1>0, <2>1, <2>2, <2>3, StepQuiet, Zenon DEF PlanPc
<1>4. CASE Cleanup(r)
  <2>1. LeaseKeeps /\ UNCHANGED <<rt, lock, records, active, ids, marks, saved>>
    BY <1>4, Unmoved, ReleasedKeeps, Zenon DEF Cleanup, fresh
  <2> QED  BY <1>0, <1>4, <2>1, StepQuiet, Zenon DEF Cleanup
<1> QED  BY <1>1, <1>2, <1>3, <1>4, Zenon

\* A step of the runtime's flags and its critical section.
LEMMA FlagQuiet ==
  ASSUME IInv, UNCHANGED scene, NEW r \in Runtime,
         UNCHANGED <<ex, records, active, ids, marks, saved>>, LeaseKeeps, RtOnly(r),
         LockOnly(r), SameCand(r), CheckpointStands(r), ControlOf(rt'[r], ex[r], lock'[r])
  PROVE  Quiet(r)
BY Unmoved, Zenon DEF Quiet

\* A standby opens and closes.
LEMMA StandbyQuiet ==
  ASSUME IInv, UNCHANGED scene, NEW r \in Runtime, OpenStandby(r) \/ CloseStandby(r)
  PROVE  Quiet(r)
<1>0. /\ rt[r] \in RuntimeRecord /\ (UNCHANGED rt => RtOnly(r) /\ rt'[r] = rt[r] /\ CheckpointStands(r))
      /\ UNCHANGED lock => LockOnly(r) /\ lock'[r] = lock[r] /\ SameCand(r)
  BY LocalFacts, Unmoved, SameFacts, Zenon DEF Same
<1>1. ASSUME NEW b \in BOOLEAN
      PROVE  LET X == [rt[r] EXCEPT !.standby = b] IN
             /\ X \in RuntimeRecord /\ X.task = rt[r].task /\ X.standby = b
             /\ X.executing = rt[r].executing /\ X.owner = rt[r].owner /\ X.pending = rt[r].pending
             /\ X.durable = rt[r].durable /\ X.validate = rt[r].validate
  BY <1>0, Zenon DEF RuntimeRecord
<1>2. CASE OpenStandby(r)
  <2>1. /\ lock[r] = Unlocked /\ ~rt[r].standby /\ ~rt[r].task /\ LeaseKeeps
        /\ UNCHANGED <<ex, records, active, ids, marks, saved>> /\ ex[r].pc = "none"
    BY <1>2, Unmoved, LocalFacts, Zenon DEF OpenStandby, Free, storeVars, fresh, ControlOf
  <2>2. CASE rt[r].owner # None /\ rt' = [rt EXCEPT ![r].standby = TRUE] /\ UNCHANGED lock
    <3> DEFINE X == [rt[r] EXCEPT !.standby = TRUE]
    <3>1. /\ X \in RuntimeRecord /\ X.task = rt[r].task /\ X.standby
          /\ X.executing = rt[r].executing /\ X.owner = rt[r].owner /\ X.pending = rt[r].pending
          /\ X.durable = rt[r].durable /\ X.validate = rt[r].validate
      BY <1>1, Zenon
    <3>2. rt' = [rt EXCEPT ![r] = X]
      BY <2>2, Zenon DEF IInv, Types
    <3> HIDE DEF X
    <3>3. RtOnly(r) /\ rt'[r] = X
      BY <3>1, <3>2, RtEffect, Zenon
    <3>4. CheckpointStands(r)
      BY <3>1, <3>3, LocalFacts, ZenonT(40) DEF CheckpointStands, MemoryOf
    <3>5. ControlOf(rt'[r], ex[r], lock'[r])
      <4>1. Rests(rt[r], ex[r])
        BY ControlFacts, ControlRests, Zenon
      <4>2. Rests(rt'[r], ex[r])
        BY <2>2, <3>1, <3>3, <4>1, Zenon DEF Rests
      <4>3. lock'[r] = Unlocked
        BY <1>0, <2>1, <2>2, Zenon
      <4> QED  BY <4>2, <4>3, RestsUnlocked, Zenon
    <3> QED  BY <1>0, <2>1, <2>2, <3>3, <3>4, <3>5, FlagQuiet, Zenon
  <2>3. CASE rt[r].owner = None /\ Locking(r, "open", "acquire") /\ UNCHANGED rt
    <3>1. LockOnly(r) /\ SameCand(r) /\ lock'[r] = [who |-> "open", at |-> "acquire", cand |-> None]
      BY <2>3, LockEffect, Zenon DEF SectionAt
    <3>2. ControlOf(rt'[r], ex[r], lock'[r])
      <4>1. Rests(rt'[r], ex[r]) /\ rt'[r].owner = None /\ ex[r].pc = "none"
        BY <1>0, <2>1, <2>3, ControlFacts, ControlRests, Zenon
      <4> QED  BY <3>1, <4>1, RestsAcquires, Zenon
    <3> QED  BY <1>0, <2>1, <2>3, <3>1, <3>2, FlagQuiet, Zenon
  <2> QED  BY <1>2, <2>2, <2>3, Zenon DEF OpenStandby
<1>3. CASE CloseStandby(r)
  <2> DEFINE x == [rt[r] EXCEPT !.standby = FALSE]
  <2>1. /\ lock[r] = Unlocked /\ ex[r].pc = "none" /\ LeaseKeeps /\ UNCHANGED lock
        /\ UNCHANGED <<ex, records, active, ids, marks, saved>> /\ ~rt[r].executing
    <3>1. LeaseKeeps
      <4>1. UNCHANGED leases \/ leases' = Released(leases, {KeyOf[r]}, x.owner)
        BY <1>3, Zenon DEF CloseStandby
      <4> HIDE DEF x
      <4> QED  BY <4>1, Unmoved, ReleasedKeeps, Zenon
    <3>2. /\ lock[r] = Unlocked /\ ex[r].pc = "none" /\ UNCHANGED lock
          /\ UNCHANGED <<ex, records, active, ids, marks, saved>>
      BY <1>3, Zenon DEF CloseStandby, Free, fresh
    <3> QED  BY <3>1, <3>2, LocalFacts, Zenon DEF ControlOf
  <2>2. /\ x \in RuntimeRecord /\ ~x.standby
        /\ x.executing = rt[r].executing /\ x.owner = rt[r].owner /\ x.pending = rt[r].pending
        /\ x.durable = rt[r].durable /\ x.validate = rt[r].validate
    BY <1>1, Zenon
  <2>3. PICK y \in {Recovery(ReleasedRuntime(x, FALSE)), ReleasedRuntime(x, TRUE)} : rt' = [rt EXCEPT ![r] = y]
    BY <1>3, Zenon DEF CloseStandby
  <2> HIDE DEF x
  <2>4. /\ y \in RuntimeRecord /\ y.owner = None /\ y.pending = x.pending /\ y.durable = x.durable
        /\ y.standby = x.standby /\ y.executing = x.executing
        /\ x.owner # None /\ x.pending # NoReq => y.validate
        /\ x.owner = None => y.validate = x.validate
    <3>1. ASSUME NEW lost \in BOOLEAN
          PROVE  LET z == ReleasedRuntime(x, lost) IN
                 /\ z \in RuntimeRecord /\ z.owner = None /\ z.pending = x.pending /\ z.durable = x.durable
                 /\ z.standby = x.standby /\ z.executing = x.executing
                 /\ x.owner # None /\ x.pending # NoReq => z.validate
                 /\ x.owner = None => z.validate = x.validate
      BY <2>2, ReleasedRuntimeFacts, Zenon
    <3>2. CASE y = ReleasedRuntime(x, TRUE)
      BY <3>1, <3>2, Zenon
    <3>3. CASE y = Recovery(ReleasedRuntime(x, FALSE))
      <4>1. ReleasedRuntime(x, FALSE) \in RuntimeRecord
        BY <3>1, Zenon
      <4>2. y \in RuntimeRecord /\ Same(y, ReleasedRuntime(x, FALSE))
        BY <3>3, <4>1, RecoveryFacts, Zenon
      <4> QED  BY <3>1, <4>2, Zenon DEF Same
    <3> QED  BY <2>3, <3>2, <3>3, Zenon
  <2>5. RtOnly(r) /\ rt'[r] = y
    BY <2>3, <2>4, RtEffect, Zenon
  <2>6. CheckpointStands(r)
    BY <2>2, <2>4, <2>5, LocalFacts, Zenon DEF CheckpointStands, MemoryOf
  <2>7. ControlOf(rt'[r], ex[r], lock'[r])
    <3>1. Rests(rt[r], ex[r])
      BY ControlFacts, ControlRests, Zenon
    <3>2. Rests(rt'[r], ex[r]) /\ lock'[r] = Unlocked
      BY <1>0, <2>1, <2>2, <2>4, <2>5, <3>1, Zenon DEF Rests
    <3> QED  BY <3>2, RestsUnlocked, Zenon
  <2> QED  BY <1>0, <2>1, <2>5, <2>6, <2>7, FlagQuiet, Zenon
<1> QED  BY <1>2, <1>3, Zenon

\* The recovery loop of an owner.
LEMMA RecoverQuiet ==
  ASSUME IInv, UNCHANGED scene, NEW r \in Runtime,
         RecoverIdle(r) \/ RecoverFlush(r) \/ RecoverSettle(r) \/ ReleasedSettle(r)
  PROVE  Quiet(r)
<1>0. /\ rt[r] \in RuntimeRecord /\ (UNCHANGED rt => RtOnly(r) /\ rt'[r] = rt[r] /\ CheckpointStands(r))
      /\ UNCHANGED lock => LockOnly(r) /\ lock'[r] = lock[r] /\ SameCand(r)
      /\ Unlock(r) => LockOnly(r) /\ lock'[r] = Unlocked /\ SameCand(r)
  BY LocalFacts, Unmoved, SameFacts, LockEffect, Zenon DEF Same
<1>1. UNCHANGED <<ex, records, active, ids, marks, saved>>
  BY Zenon DEF RecoverIdle, RecoverFlush, RecoverSettle, ReleasedSettle, storeVars, fresh
<1>2. ASSUME NEW x \in RuntimeRecord, Same(x, rt[r]), ReleaseOwner(r, x)
      PROVE  /\ RtOnly(r) /\ LeaseKeeps /\ CheckpointStands(r) /\ rt'[r].owner = None
             /\ rt'[r].pending = rt[r].pending /\ rt'[r].task = rt[r].task
             /\ rt'[r].standby = rt[r].standby /\ rt'[r].executing = rt[r].executing
  BY <1>2, ReleaseEffect, Zenon DEF Same
<1>3. CASE RecoverIdle(r)
  <2>1. PICK x \in RuntimeRecord : Same(x, rt[r]) /\ ReleaseOwner(r, x)
    <3>1. PICK b \in BOOLEAN : b = (rt[r].err \/ Pending(r))
      <4>1. (rt[r].err \/ Pending(r)) \in BOOLEAN
        BY Zenon
      <4> QED  BY <4>1, Zenon
    <3>2. [rt[r] EXCEPT !.err = b] \in RuntimeRecord /\ Same([rt[r] EXCEPT !.err = b], rt[r])
          /\ Same(rt[r], rt[r])
      BY <1>0, FlagFacts, Zenon
    <3> QED  BY <1>0, <1>3, <3>1, <3>2, Zenon DEF RecoverIdle
  <2>2. /\ lock[r] = Unlocked /\ UNCHANGED lock /\ ~rt[r].standby /\ ~rt[r].executing /\ ex[r].pc = "none"
    BY <1>3, LocalFacts, Zenon DEF RecoverIdle, Free, ControlOf
  <2>3. /\ RtOnly(r) /\ LeaseKeeps /\ CheckpointStands(r) /\ rt'[r].owner = None
        /\ rt'[r].standby = rt[r].standby /\ rt'[r].executing = rt[r].executing
    BY <1>2, <2>1, Zenon
  <2>4. ControlOf(rt'[r], ex[r], lock'[r])
    <3>1. Rests(rt'[r], ex[r]) /\ lock'[r] = Unlocked
      BY <2>2, <2>3, Zenon DEF Rests, PlanPc
    <3> QED  BY <3>1, RestsUnlocked, Zenon
  <2> QED  BY <1>0, <1>1, <2>2, <2>3, <2>4, FlagQuiet, Zenon
<1>4. CASE RecoverFlush(r)
  <2>1. /\ lock[r] = Unlocked /\ UNCHANGED rt /\ LeaseKeeps /\ rt[r].owner # None /\ ~rt[r].executing
        /\ Locking(r, "recover", "flush")
    BY <1>4, Unmoved, Zenon DEF RecoverFlush, Free, storeVars
  <2>2. LockOnly(r) /\ SameCand(r) /\ lock'[r] = [who |-> "recover", at |-> "flush", cand |-> None]
    BY <2>1, LockEffect, Zenon DEF SectionAt, FlushAt
  <2>3. ControlOf(rt'[r], ex[r], lock'[r])
    BY <1>0, <2>1, <2>2, ControlFacts DEF ControlOf, Unlocked, FlushAt, PlanPc
  <2> QED  BY <1>0, <1>1, <2>1, <2>2, <2>3, FlagQuiet, Zenon
<1>5. CASE RecoverSettle(r)
  <2>1. lock[r].at = "settle" /\ Unlock(r) /\ lock[r].who = "recover" /\ ~rt[r].executing
    BY <1>5, LocalFacts, Zenon DEF RecoverSettle, At, ControlOf
  <2>2. CASE ~rt[r].standby /\ ReleaseOwner(r, rt[r])
    <3>1. /\ RtOnly(r) /\ LeaseKeeps /\ CheckpointStands(r) /\ rt'[r].owner = None /\ rt'[r].task = rt[r].task
          /\ rt'[r].standby = rt[r].standby /\ rt'[r].executing = rt[r].executing
      BY <1>0, <1>2, <2>2, Zenon DEF Same
    <3>2. ControlOf(rt'[r], ex[r], lock'[r])
      <4>1. lock'[r] = Unlocked
        BY <1>0, <2>1, Zenon
      <4>2. Rests(rt[r], ex[r])
        BY ControlFacts, ControlRests, Zenon
      <4>3. Rests(rt'[r], ex[r])
        BY <2>1, <2>2, <3>1, <4>2, Zenon DEF Rests
      <4> QED  BY <4>1, <4>3, RestsUnlocked, Zenon
    <3> QED  BY <1>0, <1>1, <2>1, <3>1, <3>2, FlagQuiet, Zenon
  <2>3. CASE UNCHANGED <<rt, leases>>
    <3>1. ControlOf(rt'[r], ex[r], lock'[r])
      <4>1. lock'[r] = Unlocked /\ rt'[r] = rt[r]
        BY <1>0, <2>1, <2>3, Zenon
      <4> QED  BY <4>1, ControlFacts, ControlRests, RestsUnlocked, Zenon
    <3> QED  BY <1>0, <1>1, <2>1, <2>3, <3>1, FlagQuiet, Unmoved, Zenon
  <2> QED  BY <1>5, <2>2, <2>3, Zenon DEF RecoverSettle
<1>6. CASE ReleasedSettle(r)
  <2>1. /\ lock[r].at = "release" /\ Unlock(r) /\ ReleaseOwner(r, rt[r]) /\ ~rt[r].executing /\ ~rt[r].standby
    BY <1>6, LocalFacts, Zenon DEF ReleasedSettle, At, ControlOf
  <2>2. /\ RtOnly(r) /\ LeaseKeeps /\ CheckpointStands(r) /\ rt'[r].owner = None /\ rt'[r].task = rt[r].task
        /\ rt'[r].standby = rt[r].standby /\ rt'[r].executing = rt[r].executing
    BY <1>0, <1>2, <2>1, Zenon DEF Same
  <2>3. ControlOf(rt'[r], ex[r], lock'[r])
    <3>1. lock'[r] = Unlocked
      BY <1>0, <2>1, Zenon
    <3>2. Rests(rt[r], ex[r])
      BY ControlFacts, ControlRests, Zenon
    <3>3. Rests(rt'[r], ex[r])
      BY <2>1, <2>2, <3>2, Zenon DEF Rests
    <3> QED  BY <3>1, <3>3, RestsUnlocked, Zenon
  <2> QED  BY <1>0, <1>1, <2>1, <2>2, <2>3, FlagQuiet, Zenon
<1> QED  BY <1>3, <1>4, <1>5, <1>6, Zenon

\* The recovery loop of a released key, and the loss of the owner.
LEMMA LoopQuiet ==
  ASSUME IInv, UNCHANGED scene, NEW r \in Runtime,
         ReleasedAttempt(r) \/ ReleasedLeaves(r) \/ OwnerLost(r)
  PROVE  Quiet(r)
<1>0. /\ rt[r] \in RuntimeRecord /\ (UNCHANGED rt => RtOnly(r) /\ rt'[r] = rt[r] /\ CheckpointStands(r))
      /\ UNCHANGED lock => LockOnly(r) /\ lock'[r] = lock[r] /\ SameCand(r)
  BY LocalFacts, Unmoved, SameFacts, Zenon DEF Same
<1>1. LeaseKeeps /\ UNCHANGED <<ex, records, active, ids, marks, saved>>
  BY Unmoved, Zenon DEF ReleasedAttempt, ReleasedLeaves, OwnerLost, storeVars, fresh
<1>2. ASSUME NEW x \in RuntimeRecord, Same(x, rt[r]), rt' = [rt EXCEPT ![r] = x], UNCHANGED lock
      PROVE  Quiet(r)
  <2>1. RtOnly(r) /\ rt'[r] = x
    BY <1>2, RtEffect, Zenon
  <2>2. CheckpointStands(r) /\ ControlOf(x, ex[r], lock[r])
    BY <1>2, <2>1, SameFacts, LocalFacts, Zenon
  <2> QED  BY <1>0, <1>1, <1>2, <2>1, <2>2, FlagQuiet, Zenon
<1>3. CASE ReleasedAttempt(r) /\ rt' = [rt EXCEPT ![r].recovering = "leaving"] /\ UNCHANGED lock
  <2>1. rt' = [rt EXCEPT ![r] = [rt[r] EXCEPT !.recovering = "leaving"]]
    BY <1>3, Zenon DEF IInv, Types
  <2> QED  BY <1>0, <1>2, <1>3, <2>1, FlagFacts, Zenon
<1>4. CASE /\ ReleasedAttempt(r) /\ UNCHANGED rt /\ Locking(r, "released", "acquire")
           /\ rt[r].owner = None
  <2>1. LockOnly(r) /\ SameCand(r) /\ lock'[r] = [who |-> "released", at |-> "acquire", cand |-> None]
    BY <1>4, LockEffect, Zenon DEF SectionAt
  <2>2. ControlOf(rt'[r], ex[r], lock'[r])
    <3>1. Rests(rt'[r], ex[r]) /\ rt'[r].owner = None
      BY <1>4, ControlFacts, ControlRests, Zenon
    <3> QED  BY <2>1, <3>1, RestsAcquires, Zenon
  <2> QED  BY <1>0, <1>1, <1>4, <2>1, <2>2, FlagQuiet, Zenon
<1>5. CASE ReleasedLeaves(r)
  <2> DEFINE x == [rt[r] EXCEPT !.recovering = "off"]
  <2>1. x \in RuntimeRecord /\ Same(x, rt[r])
    BY <1>0, FlagFacts, Zenon
  <2>2. PICK y \in {x, Recovery(x)} : rt' = [rt EXCEPT ![r] = y]
    BY <1>5, Zenon DEF ReleasedLeaves
  <2>3. UNCHANGED lock
    BY <1>5, Zenon DEF ReleasedLeaves
  <2> HIDE DEF x
  <2>4. y \in RuntimeRecord /\ Same(y, rt[r])
    BY <2>1, <2>2, RecoveryFacts DEF Same
  <2> QED  BY <1>2, <2>2, <2>3, <2>4, Zenon
<1>6. CASE OwnerLost(r)
  <2>1. PICK e \in BOOLEAN : rt' = [rt EXCEPT ![r].dead = TRUE, ![r].renewErr = e]
    BY <1>6, Zenon DEF OwnerLost
  <2>2. rt' = [rt EXCEPT ![r] = [rt[r] EXCEPT !.dead = TRUE, !.renewErr = e]]
    BY <2>1, Zenon DEF IInv, Types
  <2>3. UNCHANGED lock
    BY <1>6, Zenon DEF OwnerLost
  <2> QED  BY <1>0, <1>2, <2>2, <2>3, FlagFacts, Zenon
<1>7. ReleasedAttempt(r) => <1>3!1 \/ <1>4!1
  BY Zenon DEF ReleasedAttempt
<1> QED  BY <1>3, <1>4, <1>5, <1>6, <1>7, Zenon

\* A task is reserved before it begins.
LEMMA ReserveQuiet ==
  ASSUME IInv, UNCHANGED scene, NEW r \in Runtime, Reserve(r)
  PROVE  Quiet(r)
<1>1. /\ lock[r] = Unlocked /\ ex[r].pc = "none" /\ ~rt[r].task /\ UNCHANGED lock /\ LeaseKeeps
      /\ UNCHANGED <<records, active, ids, marks, saved>>
      /\ rt[r] \in RuntimeRecord /\ ~rt[r].executing
  BY Unmoved, LocalFacts, Zenon DEF Reserve, Free, storeVars, fresh, ControlOf
<1>2. PICK b \in BOOLEAN : b = ~rt[r].standby
  <2>1. (~rt[r].standby) \in BOOLEAN
    BY Zenon
  <2> QED  BY <2>1, Zenon
<1>3. PICK mode \in Modes[r] :
        ex' = [ex EXCEPT ![r] = [Idle EXCEPT !.pc = "begin", !.mode = mode, !.task = b]]
  BY <1>2, Zenon DEF Reserve
<1>4. mode \in {"none", "start", "resume", "fork"}
  BY <1>3, SceneFacts, Zenon DEF IInv
<1> DEFINE E == [Idle EXCEPT !.pc = "begin", !.mode = mode, !.task = b]
           X == [rt[r] EXCEPT !.task = b]
<1>5. /\ E \in ExecutionRecord /\ E.pc = "begin" /\ E.task = b /\ E.id = None /\ E.prev = None
      /\ E.reused = FALSE
  <2>1. Idle \in ExecutionRecord /\ Idle.id = None /\ Idle.prev = None /\ Idle.reused = FALSE
    BY IdleFacts, Zenon
  <2> QED  BY <1>4, <2>1, Zenon DEF ExecutionRecord, ExPc
<1>6. /\ X \in RuntimeRecord /\ X.task = b /\ X.standby = rt[r].standby
      /\ X.executing = rt[r].executing /\ X.owner = rt[r].owner /\ X.pending = rt[r].pending
      /\ X.durable = rt[r].durable /\ X.validate = rt[r].validate
  BY <1>1, Zenon DEF RuntimeRecord
<1>7. rt' = [rt EXCEPT ![r] = X]
  <2>1. rt' = [rt EXCEPT ![r].task = b]
    BY <1>2, Zenon DEF Reserve
  <2> QED  BY <2>1, Zenon DEF IInv, Types
<1> HIDE DEF E, X
<1>8. RtOnly(r) /\ rt'[r] = X
  BY <1>6, <1>7, RtEffect, Zenon
<1>9. ExOnly(r) /\ ex'[r] = E
  BY <1>3, <1>5, Zenon DEF ExOnly, IInv, Types, E
<1>10. LockOnly(r) /\ SameCand(r) /\ lock'[r] = lock[r]
  BY <1>1, Unmoved, Zenon
<1>11. CheckpointStands(r)
  BY <1>6, <1>8, LocalFacts, Zenon DEF CheckpointStands, MemoryOf
<1>12. PlanStands(r)
  BY <1>5, <1>9, Zenon DEF PlanStands, PlanPc
<1>13. ControlOf(rt'[r], ex'[r], lock'[r])
  <2>1. IF E.task THEN X.task ELSE X.standby
    BY <1>2, <1>5, <1>6, Zenon
  <2>2. Rests(rt[r], ex[r])
    BY ControlFacts, ControlRests, Zenon
  <2>3. Rests(X, E)
    BY <1>1, <1>5, <1>6, <2>1, <2>2, Zenon DEF Rests, PlanPc
  <2> QED  BY <1>1, <1>8, <1>9, <1>10, <2>3, RestsUnlocked, Zenon
<1> QED  BY <1>1, <1>8, <1>9, <1>10, <1>11, <1>12, <1>13, Zenon DEF Quiet

\* A task ends, and may give the key back.
LEMMA EndQuiet ==
  ASSUME IInv, UNCHANGED scene, NEW r \in Runtime, End(r)
  PROVE  Quiet(r)
<1>1. /\ lock[r] = Unlocked /\ UNCHANGED lock /\ UNCHANGED <<records, active, ids, marks, saved>>
      /\ rt[r] \in RuntimeRecord /\ ex' = [ex EXCEPT ![r] = Idle]
  BY LocalFacts, Zenon DEF End, Free, fresh
<1>2. PICK b \in BOOLEAN : b = (rt[r].task /\ ~ex[r].task)
  <2>1. (rt[r].task /\ ~ex[r].task) \in BOOLEAN
    BY Zenon
  <2> QED  BY <2>1, Zenon
<1> DEFINE X == [rt[r] EXCEPT !.executing = FALSE, !.task = b]
<1>3. /\ X \in RuntimeRecord /\ X.task = b /\ X.standby = rt[r].standby
      /\ X.executing = FALSE /\ X.owner = rt[r].owner /\ X.pending = rt[r].pending
      /\ X.durable = rt[r].durable /\ X.validate = rt[r].validate
  BY <1>1, Zenon DEF RuntimeRecord
<1>4. \/ rt' = [rt EXCEPT ![r] = X] /\ UNCHANGED leases
      \/ ~X.standby /\ ReleaseOwner(r, X)
  BY <1>2, Zenon DEF End
<1> HIDE DEF X
<1>5. /\ RtOnly(r) /\ LeaseKeeps /\ CheckpointStands(r) /\ ~rt'[r].executing
      /\ rt'[r].standby = rt[r].standby /\ (rt'[r].owner = rt[r].owner \/ ~rt'[r].standby)
  <2>1. CASE rt' = [rt EXCEPT ![r] = X] /\ UNCHANGED leases
    <3>1. RtOnly(r) /\ rt'[r] = X /\ LeaseKeeps
      BY <1>3, <2>1, RtEffect, Unmoved, Zenon
    <3>2. CheckpointStands(r)
      BY <1>3, <3>1, LocalFacts, Zenon DEF CheckpointStands, MemoryOf
    <3> QED  BY <1>3, <3>1, <3>2, Zenon
  <2>2. CASE ~X.standby /\ ReleaseOwner(r, X)
    BY <1>3, <2>2, ReleaseEffect, Zenon
  <2> QED  BY <1>4, <2>1, <2>2, Zenon
<1>6. /\ Idle \in ExecutionRecord /\ Idle.pc = "none" /\ Idle.id = None /\ Idle.prev = None
      /\ Idle.reused = FALSE
  BY IdleFacts, Zenon
<1>7. ExOnly(r) /\ ex'[r] = Idle
  BY <1>1, <1>6, Zenon DEF ExOnly, IInv, Types
<1>8. PlanStands(r)
  BY <1>6, <1>7, Zenon DEF PlanStands, PlanPc
<1>9. LockOnly(r) /\ SameCand(r) /\ lock'[r] = lock[r]
  BY <1>1, Unmoved, Zenon
<1>10. ControlOf(rt'[r], ex'[r], lock'[r])
  <2>1. Rests(rt[r], ex[r])
    BY ControlFacts, ControlRests, Zenon
  <2>2. Rests(rt'[r], ex'[r])
    BY <1>5, <1>6, <1>7, <2>1, Zenon DEF Rests, PlanPc
  <2> QED  BY <1>1, <1>9, <2>2, RestsUnlocked, Zenon
<1> QED  BY <1>1, <1>5, <1>7, <1>8, <1>9, <1>10, Zenon DEF Quiet

-----------------------------------------------------------------------------
(* The steps that move a conversation. *)

\* Where a critical section runs, no plan does.
LEMMA SectionFacts ==
  ASSUME IInv, NEW r \in Runtime, lock[r].at \in FlushAt \cup {"validate"}
  PROVE  ex[r].pc \notin PlanPc
BY LocalFacts, Zenon DEF ControlOf, FlushAt, PlanPc

\* The acquired owner is kept together with a checkpoint that is still right.
LEMMA OwnMoves ==
  ASSUME IInv, UNCHANGED scene, NEW r \in Runtime, lock[r].at = "validate", NEW x \in RuntimeRecord,
         Own(r, x), UNCHANGED <<leases, ex, records, active, ids, marks, saved>>,
         x.task = rt[r].task, x.standby = rt[r].standby, x.executing = rt[r].executing,
         \/ /\ x.pending = rt[r].pending /\ x.durable = rt[r].durable
            /\ x.pending = NoReq \/ Resolved(KeyOf[r]) = x.durable
         \/ /\ rt[r].pending # NoReq /\ x.pending = NoReq /\ x.durable = Version(rt[r].pending)
            /\ Resolved(KeyOf[r]) = Version(rt[r].pending)
  PROVE  Moves(r)
<1> DEFINE K == KeyOf[r]
           o == [x EXCEPT !.owner = lock[r].cand, !.dead = FALSE, !.renewErr = FALSE, !.validate = FALSE]
<1>1. /\ KeyOf' = KeyOf /\ K \in Key /\ Resolved(K)' = Resolved(K) /\ lock[r].cand \in Owner0
      /\ lock[r].cand # None /\ rt[r].owner = None /\ ex[r].pc \notin PlanPc /\ saved[r] \in Seq(Nat)
      /\ ControlOf(rt[r], ex[r], lock[r]) /\ MemoryOf(rt[r], ex[r], saved[r], K)
  BY LocalFacts, SectionFacts, Zenon DEF KeyOf, Resolved, ControlOf, LockRecord
<1>2. /\ o \in RuntimeRecord /\ o.task = rt[r].task /\ o.standby = rt[r].standby
      /\ o.executing = rt[r].executing /\ o.owner = lock[r].cand /\ o.pending = x.pending
      /\ o.durable = x.durable
  BY <1>1, Zenon DEF RuntimeRecord
<1>3. /\ lock[r].who = "exec" =>
           /\ rt' = [rt EXCEPT ![r] = [o EXCEPT !.executing = TRUE]] /\ Goto(r, "flush")
      /\ lock[r].who = "open" =>
           /\ rt' = [rt EXCEPT ![r] = [o EXCEPT !.standby = TRUE]] /\ Unlock(r)
      /\ lock[r].who = "released" => rt' = [rt EXCEPT ![r] = o] /\ Goto(r, "flush")
      /\ lock[r].who \in {"exec", "open", "released"}
  BY Zenon DEF Own
<1> HIDE DEF o
<1>4. /\ RtOnly(r) /\ LockOnly(r) /\ SameCand(r) /\ rt'[r].owner = lock[r].cand
      /\ rt'[r].pending = x.pending /\ rt'[r].durable = x.durable
      /\ ControlOf(rt'[r], ex[r], lock'[r])
  <2>1. CASE lock[r].who = "exec"
    <3> DEFINE X == [o EXCEPT !.executing = TRUE]
    <3>1. /\ X \in RuntimeRecord /\ X.task = rt[r].task /\ X.standby = rt[r].standby
          /\ X.executing /\ X.owner = lock[r].cand /\ X.pending = x.pending /\ X.durable = x.durable
      BY <1>2, Zenon DEF RuntimeRecord
    <3>2. rt' = [rt EXCEPT ![r] = X] /\ Goto(r, "flush")
      BY <1>3, <2>1, Zenon
    <3> HIDE DEF X
    <3>3. RtOnly(r) /\ rt'[r] = X
      BY <3>1, <3>2, RtEffect, Zenon
    <3>4. /\ LockOnly(r) /\ SameCand(r)
          /\ lock'[r].at = "flush" /\ lock'[r].who = lock[r].who /\ lock'[r].cand = lock[r].cand
      BY <3>2, LockEffect, Zenon DEF SectionAt, FlushAt
    <3>5. ControlOf(rt'[r], ex[r], lock'[r])
      BY <1>1, <2>1, <3>1, <3>3, <3>4, Zenon DEF ControlOf, PlanPc, FlushAt
    <3> QED  BY <3>1, <3>3, <3>4, <3>5, Zenon
  <2>2. CASE lock[r].who = "open"
    <3> DEFINE X == [o EXCEPT !.standby = TRUE]
    <3>1. /\ X \in RuntimeRecord /\ X.task = rt[r].task /\ X.standby
          /\ X.executing = rt[r].executing /\ X.owner = lock[r].cand
          /\ X.pending = x.pending /\ X.durable = x.durable
      BY <1>2, Zenon DEF RuntimeRecord
    <3>2. rt' = [rt EXCEPT ![r] = X] /\ Unlock(r)
      BY <1>3, <2>2, Zenon
    <3> HIDE DEF X
    <3>3. RtOnly(r) /\ rt'[r] = X
      BY <3>1, <3>2, RtEffect, Zenon
    <3>4. LockOnly(r) /\ SameCand(r) /\ lock'[r] = Unlocked
      BY <3>2, LockEffect, Zenon
    <3>5. ControlOf(rt'[r], ex[r], lock'[r])
      <4>1. Rests(rt[r], ex[r]) /\ lock[r].cand # None
        BY <1>1, ControlFacts, ControlRests, Zenon DEF ControlOf
      <4>2. Rests(rt'[r], ex[r])
        BY <3>1, <3>3, <4>1, Zenon DEF Rests
      <4> QED  BY <3>4, <4>2, RestsUnlocked, Zenon
    <3> QED  BY <3>1, <3>3, <3>4, <3>5, Zenon
  <2>3. CASE lock[r].who = "released"
    <3>2. rt' = [rt EXCEPT ![r] = o] /\ Goto(r, "flush")
      BY <1>3, <2>3, Zenon
    <3>3. RtOnly(r) /\ rt'[r] = o
      BY <1>2, <3>2, RtEffect, Zenon
    <3>4. /\ LockOnly(r) /\ SameCand(r)
          /\ lock'[r].at = "flush" /\ lock'[r].who = lock[r].who /\ lock'[r].cand = lock[r].cand
      BY <3>2, LockEffect, Zenon DEF SectionAt, FlushAt
    <3>5. ControlOf(rt'[r], ex[r], lock'[r])
      BY <1>1, <1>2, <2>3, <3>3, <3>4, Zenon DEF ControlOf, PlanPc, FlushAt
    <3> QED  BY <1>2, <3>3, <3>4, <3>5, Zenon
  <2> QED  BY <1>3, <2>1, <2>2, <2>3, Zenon
<1>5. /\ ExOnly(r) /\ ex'[r] = ex[r] /\ SavedOnly(r) /\ saved'[r] = saved[r] /\ LeaseKeeps
      /\ marks \in Nat
  BY Unmoved, Zenon DEF IInv, Types
<1>6. Touches(r) /\ StoreMoves(r)
  BY <1>4, <1>5, Zenon DEF Touches, StoreMoves
<1>7. MemoryOf(rt'[r], ex[r], saved[r], K)
  BY <1>1, <1>4, ZenonT(40) DEF MemoryOf, PlanPc
<1>8. UsesOf(rt'[r], ex'[r]) \subseteq Uses(r)
  <2>1. Version(rt[r].pending).id = rt[r].pending.id
    BY Zenon DEF Version
  <2>2. InUses(rt'[r], ex'[r], Uses(r))
    BY <1>4, <1>5, <2>1, NoReqFacts, UsesHas, Zenon DEF InUses
  <2> QED  BY <2>2, UsesWithin, Zenon
<1>9. SeenOf(rt'[r], ex[r], leases'[K], Resolved(K), Ambiguous)
  <2>1. rt'[r].pending # NoReq => /\ rt'[r].pending = rt[r].pending /\ Resolved(K) = rt'[r].durable
                                  /\ Descends(rt[r].pending.hist, rt'[r].durable.hist)
    BY <1>1, <1>4, Zenon DEF MemoryOf
  <2> QED  BY <1>1, <2>1, Zenon DEF SeenOf
<1>10. rt'[r].pending = NoReq => Descends(Resolved(K).hist, saved[r])
  <2>1. CASE rt[r].pending = NoReq
    BY <2>1, LocalFacts, Zenon
  <2>2. CASE rt[r].pending # NoReq /\ rt'[r].pending = NoReq
    <3>1. Resolved(K) = Version(rt[r].pending) /\ rt[r].pending.hist = saved[r]
      BY <1>1, <1>4, <2>2, ZenonT(40) DEF MemoryOf
    <3>2. Resolved(K).hist = saved[r]
      BY <3>1 DEF Version
    <3> QED  BY <1>1, <3>2, DescendsFacts, Zenon
  <2> QED  BY <2>1, <2>2, Zenon
<1> QED  BY <1>1, <1>4, <1>5, <1>6, <1>7, <1>8, <1>9, <1>10, DescendsFacts, Zenon DEF Moves, SameCand

\* A checkpoint that outlived its owner is written on, or dropped as already stored,
\* only if what it replaces is what is stored now.
LEMMA ValidateMoves ==
  ASSUME IInv, UNCHANGED scene, NEW r \in Runtime, Validate(r)
  PROVE  Moves(r)
<1>1. /\ lock[r].at = "validate" /\ UNCHANGED <<records, active, ids, marks, saved>>
      /\ rt[r] \in RuntimeRecord /\ rt[r].owner = None
      /\ rt[r].pending # NoReq => rt[r].validate
  BY LocalFacts, Zenon DEF Validate, At, fresh, ControlOf, MemoryOf
<1>2. CASE /\ ~rt[r].validate \/ ~Pending(r) \/ (Resolved(KeyOf[r]) = rt[r].durable /\ Resolved(KeyOf[r]) # Version(rt[r].pending))
           /\ Own(r, rt[r]) /\ UNCHANGED <<leases, ex>>
  <2>1. rt[r].pending = NoReq \/ Resolved(KeyOf[r]) = rt[r].durable
    BY <1>1, <1>2, Zenon DEF Pending
  <2> QED  BY <1>1, <1>2, <2>1, OwnMoves, Zenon
<1>3. CASE /\ Pending(r) /\ Resolved(KeyOf[r]) = Version(rt[r].pending)
           /\ Own(r, [rt[r] EXCEPT !.pending = NoReq, !.durable = Resolved(KeyOf[r])])
           /\ UNCHANGED <<leases, ex>>
  <2> DEFINE X == [rt[r] EXCEPT !.pending = NoReq, !.durable = Resolved(KeyOf[r])]
  <2>1. Resolved(KeyOf[r]) \in VersionRecord /\ NoReq \in RequestRecord
    BY LocalFacts, ResolvedFacts, NoReqFacts, Zenon
  <2>2. /\ X \in RuntimeRecord /\ X.task = rt[r].task /\ X.standby = rt[r].standby
        /\ X.executing = rt[r].executing /\ X.pending = NoReq /\ X.durable = Resolved(KeyOf[r])
    BY <1>1, <2>1, Zenon DEF RuntimeRecord
  <2>3. Own(r, X)
    BY <1>3, Zenon
  <2> HIDE DEF X
  <2> QED  BY <1>1, <1>3, <2>2, <2>3, OwnMoves, Zenon DEF Pending
<1>4. CASE /\ rt' = [rt EXCEPT ![r].err = TRUE] /\ Refused(r)
           /\ UNCHANGED leases \/ leases' = Released(leases, {KeyOf[r]}, lock[r].cand)
  <2> DEFINE X == [rt[r] EXCEPT !.err = TRUE]
  <2>1. X \in RuntimeRecord /\ Same(X, rt[r]) /\ rt' = [rt EXCEPT ![r] = X]
    BY <1>1, <1>4, FlagFacts, Zenon DEF IInv, Types
  <2> HIDE DEF X
  <2>2. RtOnly(r) /\ rt'[r] = X
    BY <2>1, RtEffect, Zenon
  <2>3. LockOnly(r) /\ SameCand(r) /\ ExOnly(r) /\ PlanStands(r) /\ ControlOf(rt[r], ex'[r], lock'[r])
    BY <1>1, <1>4, RefusedEffect, Zenon
  <2>4. LeaseKeeps
    BY <1>4, Unmoved, ReleasedKeeps, Zenon
  <2>5. Quiet(r)
    BY <1>1, <2>1, <2>2, <2>3, <2>4, SameFacts, Zenon DEF Quiet
  <2> QED  BY <2>5, QuietMoves, Zenon
<1>5. CASE Refused(r) /\ leases' = Released(leases, {KeyOf[r]}, lock[r].cand) /\ UNCHANGED rt
  <2>1. LockOnly(r) /\ SameCand(r) /\ ExOnly(r) /\ PlanStands(r) /\ ControlOf(rt[r], ex'[r], lock'[r])
    BY <1>1, <1>5, RefusedEffect, Zenon
  <2>2. RtOnly(r) /\ rt'[r] = rt[r] /\ LeaseKeeps
    BY <1>5, Unmoved, ReleasedKeeps, Zenon
  <2>3. CheckpointStands(r)
    BY <2>2, SameFacts, Zenon DEF Same
  <2>4. Quiet(r)
    BY <1>1, <2>1, <2>2, <2>3, Zenon DEF Quiet
  <2> QED  BY <2>4, QuietMoves, Zenon
<1> QED  BY <1>2, <1>3, <1>4, <1>5, Zenon DEF Validate

\* Finalize under the lease of the key, by the runtime that remembers what is stored.
LEMMA FlushFinalizeMoves ==
  ASSUME IInv, UNCHANGED scene, NEW r \in Runtime, FlushFinalize(r)
  PROVE  Moves(r)
<1> DEFINE K == KeyOf[r]
           req == FlushRequest(r)
           p == rt[r].pending
<1>1. /\ lock[r].at = "finalize" /\ ex[r].pc \notin PlanPc /\ rt[r].owner # None /\ p # NoReq
      /\ rt[r] \in RuntimeRecord /\ p \in RequestRecord /\ saved[r] \in Seq(Nat) /\ K \in Key
      /\ p.hist = saved[r] /\ p.key = K /\ p.id # None /\ p.id # p.prev
      /\ Descends(p.hist, rt[r].durable.hist) /\ rt[r].durable.id \in {None, p.id, p.prev}
      /\ UNCHANGED <<leases, ex, ids, marks, saved>>
  BY LocalFacts, SectionFacts, Zenon DEF FlushFinalize, At, ControlOf, FlushAt, MemoryOf, RuntimeRecord, fresh
<1>2. /\ KeyOf' = KeyOf /\ marks \in Nat /\ LeaseKeeps /\ ExOnly(r) /\ ex'[r] = ex[r]
      /\ SavedOnly(r) /\ saved'[r] = saved[r]
  BY <1>1, Unmoved, Zenon DEF KeyOf, IInv, Types
<1>3. /\ req \in RequestRecord /\ req.id = p.id /\ req.hist = p.hist /\ req.key = p.key
      /\ req.prev = p.prev /\ <<K, rt[r].owner>> \in req.held
  <2>1. {<<t, rt[r].owner>> : t \in FlushTargets(r) \cup {K}} \in SUBSET (Target \X Owner0)
    BY <1>1 DEF FlushTargets, RequestRecord, RuntimeRecord, Target
  <2> QED  BY <1>1, <2>1, Zenon DEF FlushRequest, RequestRecord
<1> HIDE DEF req
<1>4. LeasesValid(req) => MayApply(r, req)
  <2> SUFFICES ASSUME LeasesValid(req) PROVE MayApply(r, req)
    BY Zenon
  <2>1. leases[K] = rt[r].owner
    BY <1>3, Zenon DEF LeasesValid
  <2>2. Descends(p.hist, Resolved(K).hist) /\ (Ambiguous \/ Resolved(K) = rt[r].durable)
    BY <1>1, <2>1, LocalFacts, Zenon DEF SeenOf
  <2>3. Ambiguous \/ active[K] \in {None, req.id, req.prev}
    BY <1>1, <1>3, <2>2, ResolvedFacts, Zenon
  <2>4. {req.id, req.prev} \ {None} \subseteq Uses(r)
    BY <1>3, ZenonT(40) DEF Uses, UsesOf
  <2> QED  BY <1>1, <1>3, <2>1, <2>2, <2>3, <2>4, Zenon DEF MayApply
<1>5. ASSUME NEW at \in {"unflush", "unflushLost"}, Goto(r, at)
      PROVE  /\ LockOnly(r) /\ SameCand(r) /\ lock'[r].at = at
             /\ \A x : x.task = rt[r].task /\ x.standby = rt[r].standby /\ x.executing = rt[r].executing
                       /\ x.owner = rt[r].owner => ControlOf(x, ex[r], lock'[r])
  <2>1. /\ LockOnly(r) /\ SameCand(r)
        /\ lock'[r].at = at /\ lock'[r].who = lock[r].who /\ lock'[r].cand = lock[r].cand
    BY <1>5, LockEffect, Zenon DEF SectionAt, FlushAt
  <2> QED  BY <1>1, <2>1, ControlFacts DEF ControlOf, PlanPc, FlushAt
<1>6. CASE /\ LeasesValid(req) /\ Apply(req) /\ Goto(r, "unflush")
           /\ rt' = [rt EXCEPT ![r] = [rt[r] EXCEPT !.pending = NoReq, !.durable = Version(req)]]
  <2> DEFINE X == [rt[r] EXCEPT !.pending = NoReq, !.durable = Version(req)]
  <2>1. NoReq \in RequestRecord /\ Version(req) \in VersionRecord /\ Version(req).id = req.id /\ Version(req).hist = req.hist
    BY <1>3, NoReqFacts, Zenon DEF Version, VersionRecord, RequestRecord
  <2>2. /\ X \in RuntimeRecord /\ X.task = rt[r].task /\ X.standby = rt[r].standby
        /\ X.executing = rt[r].executing /\ X.owner = rt[r].owner /\ X.pending = NoReq
        /\ X.durable = Version(req)
    BY <1>1, <2>1, Zenon DEF RuntimeRecord
  <2> HIDE DEF X
  <2>3. RtOnly(r) /\ rt'[r] = X
    BY <1>6, <2>2, RtEffect, Zenon DEF X
  <2>4. LockOnly(r) /\ SameCand(r) /\ ControlOf(X, ex[r], lock'[r])
    BY <1>5, <1>6, <2>2, Zenon
  <2>5. Touches(r) /\ StoreMoves(r)
    BY <1>1, <1>2, <1>3, <1>4, <1>6, <2>3, <2>4, Zenon DEF Touches, StoreMoves
  <2>6. MemoryOf(X, ex[r], saved[r], K)
    BY <1>1, <2>2, LocalFacts, Zenon DEF MemoryOf, PlanPc
  <2>7. UsesOf(X, ex[r]) \subseteq Uses(r)
    <3>1. InUses(X, ex[r], Uses(r))
      BY <1>3, <2>1, <2>2, NoReqFacts, UsesHas, Zenon DEF InUses
    <3> QED  BY <3>1, UsesWithin, Zenon
  <2>8. SeenOf(X, ex[r], leases'[K], Resolved(K)', Ambiguous)
    BY <1>1, <2>2, Zenon DEF SeenOf
  <2>9. Resolved(K)' = Version(req)
    BY <1>4, <1>6, ApplyEffect, Zenon
  <2>10. Descends(Resolved(K)'.hist, saved[r])
    BY <1>1, <1>3, <2>1, <2>9, DescendsFacts, Zenon
  <2> QED  BY <1>1, <1>2, <2>2, <2>3, <2>4, <2>5, <2>6, <2>7, <2>8, <2>10, DescendsFacts, Zenon DEF Moves, SameCand
<1>7. CASE /\ UNCHANGED <<records, active, rt>> /\ (Goto(r, "unflush") \/ Goto(r, "unflushLost"))
  <2>1. RtOnly(r) /\ rt'[r] = rt[r]
    BY <1>7, Unmoved, Zenon
  <2>2. LockOnly(r) /\ SameCand(r) /\ ControlOf(rt[r], ex[r], lock'[r])
    BY <1>5, <1>7, Zenon
  <2>3. CheckpointStands(r) /\ PlanStands(r)
    BY <1>1, <2>1, SameFacts, Unmoved, Zenon DEF Same
  <2>4. Quiet(r)
    BY <1>1, <1>2, <1>7, <2>1, <2>2, <2>3, Zenon DEF Quiet
  <2> QED  BY <2>4, QuietMoves, Zenon
<1>8. CASE Ambiguous /\ LeasesValid(req) /\ Apply(req) /\ Goto(r, "unflush") /\ UNCHANGED rt
  <2>1. RtOnly(r) /\ rt'[r] = rt[r]
    BY <1>8, Unmoved, Zenon
  <2>2. LockOnly(r) /\ SameCand(r) /\ ControlOf(rt[r], ex[r], lock'[r])
    BY <1>5, <1>8, Zenon
  <2>3. Touches(r) /\ StoreMoves(r)
    BY <1>1, <1>2, <1>3, <1>4, <1>8, <2>1, <2>2, Zenon DEF Touches, StoreMoves
  <2>4. MemoryOf(rt[r], ex[r], saved[r], K)
    BY LocalFacts, Zenon
  <2>5. UsesOf(rt[r], ex[r]) \subseteq Uses(r)
    BY Zenon DEF Uses
  <2>6. Resolved(K)' = Version(req)
    BY <1>4, <1>8, ApplyEffect, Zenon
  <2>7. Resolved(K)'.hist = p.hist /\ Descends(p.hist, p.hist)
    <3>1. p.hist \in Seq(Nat) /\ Version(req).hist = req.hist
      BY <1>1, <1>3, Zenon DEF Version, RequestRecord
    <3> QED  BY <1>3, <2>6, <3>1, DescendsFacts, Zenon
  <2>8. SeenOf(rt[r], ex[r], leases'[K], Resolved(K)', Ambiguous)
    BY <1>1, <1>8, <2>7, Zenon DEF SeenOf
  <2> QED  BY <1>1, <1>2, <2>1, <2>2, <2>3, <2>4, <2>5, <2>8, DescendsFacts, Zenon DEF Moves, SameCand
<1> QED  BY <1>6, <1>7, <1>8, Zenon DEF FlushFinalize, req

\* A step of the session plan: the runtime may look at what is stored.
LEMMA PlanMoves ==
  ASSUME IInv, UNCHANGED scene, NEW r \in Runtime, UNCHANGED <<records, active, lock, marks, saved>>,
         LeaseKeeps, RtOnly(r), ExOnly(r), ids' = ids \/ (ids < MaxIds /\ ids' = ids + 1),
         rt'[r].task = rt[r].task, rt'[r].standby = rt[r].standby, rt'[r].executing = rt[r].executing,
         rt'[r].owner = rt[r].owner, rt'[r].pending = rt[r].pending,
         ex[r].pc \in PlanPc \cup {"plan"}, ex'[r].pc \in PlanPc, ex'[r].task = ex[r].task,
         MemoryOf(rt'[r], ex'[r], saved[r], KeyOf[r]),
         UsesOf(rt'[r], ex'[r]) \subseteq
           Uses(r) \cup {i \in {ids'} : ids' # ids} \cup {Resolved(KeyOf[r]).id},
         SeenOf(rt'[r], ex'[r], leases'[KeyOf[r]], Resolved(KeyOf[r]), Ambiguous)
  PROVE  Moves(r)
<1>1. /\ KeyOf' = KeyOf /\ Resolved(KeyOf[r])' = Resolved(KeyOf[r]) /\ marks \in Nat
      /\ LockOnly(r) /\ lock'[r] = lock[r] /\ SameCand(r) /\ SavedOnly(r) /\ saved'[r] = saved[r]
      /\ saved[r] \in Seq(Nat)
  BY Unmoved, LocalFacts, Zenon DEF KeyOf, Resolved, IInv, Types
<1>2. Touches(r) /\ StoreMoves(r)
  BY <1>1, Zenon DEF Touches, StoreMoves
<1>3. ControlOf(rt'[r], ex'[r], lock'[r])
  BY <1>1, ControlFacts, PlanControl, Zenon
<1>4. rt'[r].pending = NoReq => Descends(Resolved(KeyOf[r]).hist, saved[r])
  BY LocalFacts, Zenon
<1> QED  BY <1>1, <1>2, <1>3, <1>4, DescendsFacts, Zenon DEF Moves, SameCand

\* Leases taken under a fresh owner.
LEMMA TakeFacts ==
  ASSUME IInv, NEW T, Take(T)
  PROVE  LeaseKeeps /\ NewOwner \in Owner
<1>1. /\ NewOwner \in Owner /\ NewOwner # None /\ \A s \in Runtime : rt[s].owner # NewOwner
  BY FreshOwner, Zenon DEF Take
<1>2. leases' \in [Target -> Owner0]
  BY <1>1, Zenon DEF Take, IInv, Types, Owner0
<1>3. \A s \in Runtime : KeyOf[s] \in Target
  BY SceneFacts, Zenon DEF IInv
<1> QED  BY <1>1, <1>2, <1>3, Zenon DEF Take, LeaseKeeps

\* A plan starts from the checkpoint in memory, or from what is stored.
LEMMA PlanResolveMoves ==
  ASSUME IInv, UNCHANGED scene, NEW r \in Runtime, PlanResolve(r)
  PROVE  Moves(r)
<1> DEFINE K == KeyOf[r]
           c == Current(r)
           E == [ex[r] EXCEPT !.pc = "lease", !.id = c.id, !.hist = c.hist]
           d == IF Pending(r) THEN rt[r].durable ELSE Resolved(K)
           X == [rt[r] EXCEPT !.durable = d]
<1>1. /\ ex[r].pc = "plan" /\ rt[r].owner # None /\ LeaseKeeps /\ ids' = ids
      /\ UNCHANGED <<records, active, lock, marks, saved>>
      /\ rt[r] \in RuntimeRecord /\ ex[r] \in ExecutionRecord /\ saved[r] \in Seq(Nat)
      /\ K \in Key /\ Resolved(K) \in VersionRecord /\ Resolved(K).hist \in Seq(Nat)
      /\ MemoryOf(rt[r], ex[r], saved[r], K) /\ ex[r].prev = None /\ ~ex[r].reused
      /\ leases' = leases
  BY LocalFacts, ResolvedFacts, Unmoved, Zenon DEF PlanResolve, Borrowable, storeVars, fresh, MemoryOf
<1>2. /\ c \in VersionRecord /\ c.id \in Id0 /\ c.hist \in Seq(Nat) /\ d \in VersionRecord
      /\ Pending(r) => c.id = rt[r].pending.id /\ c.hist = rt[r].pending.hist /\ d = rt[r].durable
      /\ ~Pending(r) => c = Resolved(K) /\ d = Resolved(K)
  BY <1>1, Zenon DEF Current, Version, VersionRecord, RuntimeRecord, RequestRecord
<1>3. rt' = [rt EXCEPT ![r] = X] /\ ex' = [ex EXCEPT ![r] = E]
  <2>1. ex' = [ex EXCEPT ![r] = E]
    BY Zenon DEF PlanResolve, IInv, Types
  <2>2. rt' = [rt EXCEPT ![r] = X]
    BY Zenon DEF PlanResolve, Remember, IInv, Types
  <2> QED  BY <2>1, <2>2, Zenon
<1> HIDE DEF c, d
<1>4. /\ E \in ExecutionRecord /\ E.pc = "lease" /\ E.id = c.id /\ E.hist = c.hist /\ E.prev = ex[r].prev
      /\ E.reused = ex[r].reused /\ E.task = ex[r].task
  BY <1>1, <1>2, Zenon DEF ExecutionRecord, ExPc, PlanPc
<1>5. /\ X \in RuntimeRecord /\ X.task = rt[r].task /\ X.standby = rt[r].standby
      /\ X.executing = rt[r].executing /\ X.owner = rt[r].owner /\ X.pending = rt[r].pending
      /\ X.validate = rt[r].validate /\ X.durable = d
  BY <1>1, <1>2, Zenon DEF RuntimeRecord
<1> HIDE DEF E, X
<1>6. RtOnly(r) /\ rt'[r] = X /\ ExOnly(r) /\ ex'[r] = E
  BY <1>3, <1>4, <1>5, RtEffect, Zenon DEF ExOnly, IInv, Types
<1>7. MemoryOf(X, E, saved[r], K)
  <2>1. Pending(r) => /\ c.id # None /\ c.hist = saved[r] /\ Descends(c.hist, d.hist)
    BY <1>1, <1>2, ZenonT(40) DEF MemoryOf, Pending
  <2>2. ~Pending(r) => /\ Descends(c.hist, saved[r]) /\ c.id = d.id /\ c.hist = d.hist
                       /\ c.id = None => c.hist = <<>>
    BY <1>1, <1>2, LocalFacts, ResolvedFacts DEF Pending
  <2>3. Descends(c.hist, saved[r]) /\ Descends(c.hist, d.hist)
    BY <1>1, <1>2, <2>1, <2>2, DescendsFacts, Zenon
  <2>4. c.id = None => c.hist = <<>>
    BY <2>1, <2>2, Zenon
  <2> QED  BY <1>1, <1>2, <1>4, <1>5, <2>2, <2>3, <2>4, Zenon DEF MemoryOf, Pending, PlanPc
<1>8. UsesOf(X, E) \subseteq Uses(r) \cup {Resolved(K).id}
  BY <1>2, <1>4, <1>5, Zenon DEF UsesOf, Uses
<1>9. SeenOf(X, E, leases'[K], Resolved(K), Ambiguous)
  <2>1. CASE Pending(r)
    BY <1>1, <1>2, <1>5, <2>1, LocalFacts, Zenon DEF SeenOf, Pending
  <2>2. CASE ~Pending(r)
    BY <1>1, <1>2, <1>4, <1>5, <2>2, DescendsFacts, Zenon DEF SeenOf, Pending
  <2> QED  BY <2>1, <2>2, Zenon
<1> QED  BY <1>1, <1>4, <1>5, <1>6, <1>7, <1>8, <1>9, PlanMoves, Zenon DEF PlanPc

\* A plan continues what it resolved.
LEMMA PlanContinueMoves ==
  ASSUME IInv, UNCHANGED scene, NEW r \in Runtime, PlanContinue(r)
  PROVE  Moves(r)
<1> DEFINE K == KeyOf[r]
           x == ex[r]
<1>1. /\ x.pc = "lease" /\ x.id # None /\ UNCHANGED <<records, active, lock, marks, saved>>
      /\ RtOnly(r) /\ rt'[r] = rt[r] /\ x \in ExecutionRecord /\ x.id \in Id /\ x.id <= ids /\ ids \in Nat
      /\ MemoryOf(rt[r], x, saved[r], K) /\ x.prev = None /\ ~x.reused
  <2>1. x.id # None => x.id \in Uses(r)
    BY Zenon DEF Uses, UsesOf
  <2> QED  BY <2>1, LocalFacts, Unmoved DEF PlanContinue, MemoryOf, IInv, Types
<1>2. LeaseKeeps /\ NewOwner \in Owner
  BY TakeFacts, Zenon DEF PlanContinue
<1>3. PICK E :
        /\ ex' = [ex EXCEPT ![r] = E] /\ E \in ExecutionRecord /\ E.pc = "run" /\ E.hist = x.hist /\ E.task = x.task
        /\ \/ ids' = ids /\ E.id = x.id /\ E.prev = None
           \/ ids < MaxIds /\ ids' = ids + 1 /\ E.id = ids' /\ E.prev = x.id /\ ~E.reused
  <2>1. CASE /\ UNCHANGED ids
             /\ ex' = [ex EXCEPT ![r] = [x EXCEPT !.pc = "run", !.owner = NewOwner,
                  !.reused = TRUE, !.held = {x.id}]]
    <3> DEFINE E == [x EXCEPT !.pc = "run", !.owner = NewOwner, !.reused = TRUE, !.held = {x.id}]
    <3>1. /\ E \in ExecutionRecord /\ E.pc = "run" /\ E.hist = x.hist /\ E.task = x.task
          /\ E.id = x.id /\ E.prev = x.prev
      BY <1>1, <1>2, Zenon DEF ExecutionRecord, ExPc, PlanPc, Owner0, Target
    <3> HIDE DEF E
    <3>2. ex' = [ex EXCEPT ![r] = E]
      BY <2>1, Zenon DEF E
    <3> QED  BY <1>1, <2>1, <3>1, <3>2, Zenon
  <2>2. CASE /\ ids < MaxIds /\ ids' = ids + 1
             /\ ex' = [ex EXCEPT ![r] = [x EXCEPT !.pc = "run", !.owner = NewOwner, !.id = ids',
                  !.prev = x.id, !.held = {x.id, ids'}]]
    <3> DEFINE E == [x EXCEPT !.pc = "run", !.owner = NewOwner, !.id = ids', !.prev = x.id, !.held = {x.id, ids'}]
    <3>1. ids' \in Id
      BY <1>1, <2>2, StoreAssumption DEF Id
    <3>2. /\ E \in ExecutionRecord /\ E.pc = "run" /\ E.hist = x.hist /\ E.task = x.task
          /\ E.id = ids' /\ E.prev = x.id /\ E.reused = x.reused
      BY <1>1, <1>2, <3>1, ZenonT(40) DEF ExecutionRecord, ExPc, PlanPc, Owner0, Target, Id0
    <3> HIDE DEF E
    <3>3. ex' = [ex EXCEPT ![r] = E]
      BY <2>2, Zenon DEF E
    <3> QED  BY <1>1, <2>2, <3>2, <3>3, Zenon
  <2> QED  BY <2>1, <2>2, Zenon DEF PlanContinue
<1>4. ExOnly(r) /\ ex'[r] = E
  BY <1>3, Zenon DEF ExOnly, IInv, Types
<1>5. E.id # None /\ E.id # E.prev /\ (E.reused => E.prev = None) /\ x.id \in {E.id, E.prev}
  BY <1>1, <1>3, StoreAssumption DEF None
<1>6. MemoryOf(rt[r], E, saved[r], K)
  BY <1>1, <1>3, <1>5, Zenon DEF MemoryOf, PlanPc
<1>7. UsesOf(rt[r], E) \subseteq Uses(r) \cup {i \in {ids'} : ids' # ids}
  <2> DEFINE S == Uses(r) \cup {i \in {ids'} : ids' # ids}
  <2>1. (ids' # ids => ids' \in S) /\ Uses(r) \subseteq S
    BY Zenon
  <2> HIDE DEF S
  <2>2. InUses(rt[r], E, S)
    <3>1. ids \in Nat => ids + 1 # ids
      OBVIOUS
    <3> QED  BY <1>1, <1>3, <2>1, <3>1, UsesHas, Zenon DEF InUses
  <2>3. UsesOf(rt[r], E) \subseteq S
    BY <2>2, UsesWithin, Zenon
  <2> QED  BY <2>3, Zenon DEF S
<1>8. SeenOf(rt[r], E, leases'[K], Resolved(K), Ambiguous)
  BY <1>1, <1>2, <1>3, LocalFacts, Zenon DEF SeenOf, LeaseKeeps, PlanPc
<1> QED  BY <1>1, <1>2, <1>3, <1>4, <1>6, <1>7, <1>8, PlanMoves, ZenonT(40) DEF PlanPc

\* A plan for a new record archives the one it resolved.
LEMMA PlanNewMoves ==
  ASSUME IInv, UNCHANGED scene, NEW r \in Runtime, PlanNew(r)
  PROVE  Moves(r)
<1> DEFINE K == KeyOf[r]
           x == ex[r]
           parent == Resolved(ForkOf[r])
           T == {ids'} \cup (IF x.mode = "fork" THEN {ForkOf[r], parent.id} ELSE {})
           h == IF x.mode = "fork" THEN parent.hist ELSE <<>>
           E == [x EXCEPT !.pc = "run", !.owner = NewOwner, !.id = ids', !.absent = (x.mode = "fork"),
                          !.hist = h, !.held = T]
<1>1. /\ x.pc = "lease" /\ x.id = None /\ UNCHANGED <<records, active, lock, marks, saved>>
      /\ RtOnly(r) /\ rt'[r] = rt[r] /\ x \in ExecutionRecord /\ rt[r] \in RuntimeRecord
      /\ ids \in Nat /\ ids < MaxIds /\ ids' = ids + 1 /\ ids' \in Id /\ ids' # None
      /\ MemoryOf(rt[r], x, saved[r], K) /\ x.prev = None /\ ~x.reused /\ x.hist = <<>>
      /\ saved[r] \in Seq(Nat) /\ K \in Key
  BY LocalFacts, Unmoved, StoreAssumption DEF PlanNew, MemoryOf, IInv, Types, Id, None
<1>2. LeaseKeeps /\ NewOwner \in Owner
  <2>1. Take(T)
    BY Zenon DEF PlanNew
  <2> HIDE DEF T
  <2> QED  BY <2>1, TakeFacts, Zenon
<1>3. h \in Seq(Nat) /\ T \in SUBSET Target
  <2>1. CASE x.mode = "fork"
    <3>1. ForkOf[r] \in Key /\ parent.id # None
      BY <2>1, SceneFacts, Zenon DEF PlanNew, IInv
    <3>2. parent \in VersionRecord /\ parent.hist \in Seq(Nat)
      BY <3>1, ResolvedFacts, Zenon
    <3>3. parent.id \in Id
      BY <3>1, <3>2, Zenon DEF VersionRecord, Id0
    <3> HIDE DEF parent
    <3> QED  BY <1>1, <2>1, <3>1, <3>2, <3>3, Zenon DEF Target
  <2>2. CASE x.mode # "fork"
    BY <1>1, <2>2 DEF Target
  <2> QED  BY <2>1, <2>2, Zenon
<1>4. ex' = [ex EXCEPT ![r] = E]
  BY Zenon DEF PlanNew
<1> HIDE DEF h, T
<1>5. PICK b \in BOOLEAN : E = [x EXCEPT !.pc = "run", !.owner = NewOwner, !.id = ids', !.absent = b,
                                         !.hist = h, !.held = T]
  <2>1. (x.mode = "fork") \in BOOLEAN
    BY Zenon
  <2> QED  BY <2>1, Zenon
<1> HIDE DEF E
<1>6. /\ E \in ExecutionRecord /\ E.pc = "run" /\ E.hist = h /\ E.task = x.task
      /\ E.id = ids' /\ E.prev = None /\ E.reused = x.reused
  BY <1>1, <1>2, <1>3, <1>5, Zenon DEF ExecutionRecord, ExPc, PlanPc, Owner0, Id0
<1>7. ExOnly(r) /\ ex'[r] = E
  BY <1>4, <1>6, Zenon DEF ExOnly, IInv, Types
<1>8. MemoryOf(rt[r], E, saved[r], K)
  <2>1. rt[r].durable.hist \in Seq(Nat)
    BY <1>1, Zenon DEF RuntimeRecord, VersionRecord
  <2>2. saved[r] = <<>> /\ rt[r].durable.hist = <<>>
    BY <1>1, <2>1, DescendsFacts DEF MemoryOf, PlanPc
  <2>3. Descends(h, saved[r]) /\ Descends(h, rt[r].durable.hist)
    BY <1>3, <2>2, DescendsFacts, Zenon
  <2> QED  BY <1>1, <1>6, <2>3, Zenon DEF MemoryOf, PlanPc
<1>9. UsesOf(rt[r], E) \subseteq Uses(r) \cup {i \in {ids'} : ids' # ids}
  <2> DEFINE S == Uses(r) \cup {i \in {ids'} : ids' # ids}
  <2>1. (ids' # ids => ids' \in S) /\ Uses(r) \subseteq S
    BY Zenon
  <2> HIDE DEF S
  <2>2. InUses(rt[r], E, S)
    <3>1. ids \in Nat => ids + 1 # ids
      OBVIOUS
    <3> QED  BY <1>1, <1>6, <2>1, <3>1, UsesHas, Zenon DEF InUses
  <2>3. UsesOf(rt[r], E) \subseteq S
    BY <2>2, UsesWithin, Zenon
  <2> QED  BY <2>3, Zenon DEF S
<1>10. SeenOf(rt[r], E, leases'[K], Resolved(K), Ambiguous)
  <2> SUFFICES ASSUME rt[r].owner # None, leases'[K] = rt[r].owner
               PROVE  /\ Descends(IF rt[r].pending # NoReq THEN rt[r].pending.hist ELSE E.hist, Resolved(K).hist)
                      /\ Ambiguous \/ Resolved(K) = rt[r].durable
    BY Zenon DEF SeenOf
  <2>1. leases[K] = rt[r].owner
    BY <1>2, Zenon DEF LeaseKeeps
  <2>2. /\ Descends(IF rt[r].pending # NoReq THEN rt[r].pending.hist ELSE <<>>, Resolved(K).hist)
        /\ Ambiguous \/ Resolved(K) = rt[r].durable
    BY <1>1, <2>1, LocalFacts, Zenon DEF SeenOf, PlanPc
  <2>3. Resolved(K).hist \in Seq(Nat)
    BY <1>1, ResolvedFacts, Zenon
  <2>4. rt[r].pending = NoReq => Resolved(K).hist = <<>>
    BY <2>2, <2>3, DescendsFacts, Zenon
  <2>5. Descends(h, <<>>)
    BY <1>3, DescendsFacts, Zenon
  <2> QED  BY <1>6, <2>2, <2>4, <2>5, Zenon
<1> QED  BY <1>1, <1>2, <1>6, <1>7, <1>8, <1>9, <1>10, PlanMoves, ZenonT(40) DEF PlanPc

\* PrepareFresh: a record of its own instead of the one that was refused.
LEMMA ResumeRejectedMoves ==
  ASSUME IInv, UNCHANGED scene, NEW r \in Runtime, ResumeRejected(r)
  PROVE  Moves(r)
<1> DEFINE K == KeyOf[r]
           x == ex[r]
<1>1. /\ x.pc = "run" /\ x.reused /\ UNCHANGED <<records, active, rt, lock, marks, saved>>
      /\ RtOnly(r) /\ rt'[r] = rt[r] /\ x \in ExecutionRecord /\ ids \in Nat
      /\ MemoryOf(rt[r], x, saved[r], K) /\ x.prev = None /\ x.id # None /\ x.id \in Id /\ x.id <= ids
  <2>1. x.id # None => x.id \in Uses(r)
    BY Zenon DEF Uses, UsesOf
  <2> QED  BY <2>1, LocalFacts, Unmoved DEF ResumeRejected, MemoryOf, IInv, Types, PlanPc
<1>2. CASE Step(r, "cleanup") /\ UNCHANGED <<leases, ids>>
  <2>1. LeaseKeeps /\ Same(rt'[r], rt[r]) /\ "cleanup" \in ExPc
    BY <1>1, <1>2, Unmoved, Zenon DEF Same, ExPc
  <2>2. Quiet(r)
    BY <1>1, <1>2, <2>1, StepQuiet, Zenon
  <2> QED  BY <2>2, QuietMoves, Zenon
<1>3. CASE /\ ids < MaxIds /\ ids' = ids + 1
           /\ leases' = [leases EXCEPT ![ids'] = ex[r].owner]
           /\ ex' = [ex EXCEPT ![r] = [@ EXCEPT !.id = ids', !.prev = ex[r].id,
                !.reused = FALSE, !.held = ex[r].held \cup {ids'}, !.first = FALSE]]
  <2>1. ids' \in Id /\ ids' # None /\ ids' # x.id
    BY <1>1, <1>3, StoreAssumption DEF Id, None
  <2>2. LeaseKeeps
    <3>1. leases' \in [Target -> Owner0]
      BY <1>1, <1>3, <2>1, Zenon DEF IInv, Types, ExecutionRecord, Target
    <3>2. \A s \in Runtime : KeyOf[s] \in Target /\ KeyOf[s] # ids'
      BY <2>1, SceneFacts, Zenon DEF IInv
    <3>3. leases \in [Target -> Owner0]
      BY Zenon DEF IInv, Types
    <3> QED  BY <1>3, <3>1, <3>2, <3>3, Zenon DEF LeaseKeeps
  <2> DEFINE E == [x EXCEPT !.id = ids', !.prev = x.id, !.reused = FALSE, !.held = x.held \cup {ids'}, !.first = FALSE]
  <2>3. /\ E \in ExecutionRecord /\ E.pc = "run" /\ E.hist = x.hist /\ E.task = x.task
        /\ E.id = ids' /\ E.prev = x.id /\ E.reused = FALSE
    <3>1. x.held \cup {ids'} \in SUBSET Target
      BY <1>1, <2>1, Zenon DEF ExecutionRecord, Target
    <3> QED  BY <1>1, <2>1, <3>1, Zenon DEF ExecutionRecord, Id0
  <2>4. ex' = [ex EXCEPT ![r] = E]
    BY <1>3, Zenon
  <2> HIDE DEF E
  <2>5. ExOnly(r) /\ ex'[r] = E
    BY <2>3, <2>4, Zenon DEF ExOnly, IInv, Types
  <2>6. MemoryOf(rt[r], E, saved[r], K)
    BY <1>1, <2>1, <2>3, Zenon DEF MemoryOf, PlanPc
  <2>7. UsesOf(rt[r], E) \subseteq Uses(r) \cup {i \in {ids'} : ids' # ids}
    <3> DEFINE S == Uses(r) \cup {i \in {ids'} : ids' # ids}
    <3>1. (ids' # ids => ids' \in S) /\ Uses(r) \subseteq S
      BY Zenon
    <3> HIDE DEF S
    <3>2. InUses(rt[r], E, S)
      <4>1. ids \in Nat => ids + 1 # ids
        OBVIOUS
      <4> QED  BY <1>1, <1>3, <2>3, <3>1, <4>1, UsesHas, Zenon DEF InUses
    <3>3. UsesOf(rt[r], E) \subseteq S
      BY <3>2, UsesWithin, Zenon
    <3> QED  BY <3>3, Zenon DEF S
  <2>8. SeenOf(rt[r], E, leases'[K], Resolved(K), Ambiguous)
    BY <1>1, <2>2, <2>3, LocalFacts, Zenon DEF SeenOf, LeaseKeeps, PlanPc
  <2> QED  BY <1>1, <1>3, <2>2, <2>3, <2>5, <2>6, <2>7, <2>8, PlanMoves, Zenon DEF PlanPc
<1> QED  BY <1>2, <1>3, ZenonT(40) DEF ResumeRejected

\* The request of Persist continues the plan's conversation, and under the lease of the
\* key nobody else has written it.
LEMMA RequestFacts ==
  ASSUME IInv, NEW r \in Runtime, ex[r].pc = "persist", rt[r].owner # None, UNCHANGED leases
  PROVE  LET req == Request(r) IN
         /\ req \in RequestRecord /\ req.id = ex[r].id /\ req.prev = ex[r].prev /\ req.key = KeyOf[r]
         /\ req.id # None /\ req.id # req.prev /\ req.hist \in Seq(Nat)
         /\ Descends(req.hist, ex[r].hist) /\ Descends(req.hist, saved[r])
         /\ Descends(req.hist, rt[r].durable.hist)
         /\ LeasesValid(req) /\ rt[r].pending = NoReq => MayApply(r, req)
<1> DEFINE K == KeyOf[r]
           req == Request(r)
<1>1. /\ rt[r] \in RuntimeRecord /\ ex[r] \in ExecutionRecord /\ K \in Key /\ saved[r] \in Seq(Nat)
      /\ MemoryOf(rt[r], ex[r], saved[r], K) /\ marks \in Nat
      /\ SeenOf(rt[r], ex[r], leases[K], Resolved(K), Ambiguous)
      /\ Resolved(K).hist \in Seq(Nat) /\ Resolved(K).id = active[K]
  BY LocalFacts, ResolvedFacts, Zenon DEF IInv, Types
<1>2. /\ ex[r].hist \in Seq(Nat) /\ rt[r].durable.hist \in Seq(Nat) /\ rt[r].owner \in Owner0
      /\ ex[r].owner \in Owner0 /\ ex[r].held \in SUBSET Target /\ ex[r].id \in Id0 /\ ex[r].prev \in Id0
      /\ ex[r].absent \in BOOLEAN
  BY <1>1, Zenon DEF RuntimeRecord, ExecutionRecord, VersionRecord
<1>3. /\ Append(ex[r].hist, marks + 1) \in Seq(Nat) /\ Descends(Append(ex[r].hist, marks + 1), ex[r].hist)
  <2>1. marks + 1 \in Nat
    BY <1>1
  <2> QED  BY <1>2, <2>1, DescendsFacts, Zenon
<1>4. {<<K, rt[r].owner>>} \cup {<<t, ex[r].owner>> : t \in ex[r].held} \in SUBSET (Target \X Owner0)
  BY <1>1, <1>2 DEF Target
<1>5. /\ req \in RequestRecord /\ req.id = ex[r].id /\ req.prev = ex[r].prev /\ req.key = K
      /\ req.hist = Append(ex[r].hist, marks + 1) /\ <<K, rt[r].owner>> \in req.held
  BY <1>1, <1>2, <1>3, <1>4, Zenon DEF Request, RequestRecord
<1> HIDE DEF req
<1>5a. req.hist \in Seq(Nat) /\ Descends(req.hist, ex[r].hist)
  BY <1>3, <1>5, Zenon
<1>6. /\ ex[r].id # None /\ ex[r].id # ex[r].prev
      /\ Descends(ex[r].hist, saved[r]) /\ Descends(ex[r].hist, rt[r].durable.hist)
      /\ rt[r].pending = NoReq => rt[r].durable.id \in {None, ex[r].id, ex[r].prev}
  BY <1>1, Zenon DEF MemoryOf, PlanPc
<1>7. Descends(req.hist, saved[r]) /\ Descends(req.hist, rt[r].durable.hist)
  BY <1>1, <1>2, <1>5a, <1>6, DescendsTrans, Zenon
<1>8. ASSUME LeasesValid(req), rt[r].pending = NoReq PROVE MayApply(r, req)
  <2>1. leases[K] = rt[r].owner
    BY <1>5, <1>8, Zenon DEF LeasesValid
  <2>2. Descends(ex[r].hist, Resolved(K).hist) /\ (Ambiguous \/ Resolved(K) = rt[r].durable)
    BY <1>1, <1>8, <2>1, Zenon DEF SeenOf, PlanPc
  <2>3. Ambiguous \/ active[K] \in {None, req.id, req.prev}
    BY <1>1, <1>5, <1>6, <1>8, <2>2, Zenon
  <2>4. {req.id, req.prev} \ {None} \subseteq Uses(r)
    BY <1>5, Zenon DEF Uses, UsesOf
  <2>5. Descends(req.hist, Resolved(K).hist)
    BY <1>1, <1>2, <1>5a, <2>2, DescendsTrans, Zenon
  <2> QED  BY <1>5, <1>6, <2>1, <2>3, <2>4, <2>5, Zenon DEF MayApply
<1> QED  BY <1>5, <1>5a, <1>6, <1>7, <1>8, Zenon DEF req

\* Persist returned nil.
LEMMA PersistedFacts ==
  ASSUME IInv, NEW r \in Runtime, ex[r].pc = "persist", NEW req \in RequestRecord, Persisted(r, req),
         ex[r].id # None
  PROVE  /\ ExOnly(r) /\ SavedOnly(r) /\ saved'[r] = req.hist /\ marks' \in Nat
         /\ ex'[r].pc \in {"run", "cleanup"} /\ ex'[r].id = ex[r].id /\ ex'[r].prev = None
         /\ ex'[r].hist = req.hist /\ ex'[r].task = ex[r].task /\ ex'[r].reused = TRUE
<1>1. /\ ex[r] \in ExecutionRecord /\ ex \in [Runtime -> ExecutionRecord] /\ marks \in Nat
      /\ saved \in [Runtime -> Seq(Nat)] /\ req.hist \in Seq(Nat)
  BY Zenon DEF IInv, Types, RequestRecord
<1>2. PICK pc \in {"run", "cleanup"} :
        ex' = [ex EXCEPT ![r] = [@ EXCEPT !.pc = pc, !.hist = req.hist, !.reused = TRUE,
                 !.prev = None, !.absent = FALSE, !.first = FALSE, !.turns = ex[r].turns + 1]]
  BY Zenon DEF Persisted
<1> DEFINE E == [ex[r] EXCEPT !.pc = pc, !.hist = req.hist, !.reused = TRUE,
                 !.prev = None, !.absent = FALSE, !.first = FALSE, !.turns = ex[r].turns + 1]
<1>3. ex' = [ex EXCEPT ![r] = E]
  BY <1>2, Zenon
<1>4. /\ E \in ExecutionRecord /\ E.pc = pc /\ E.id = ex[r].id /\ E.prev = None /\ E.hist = req.hist
      /\ E.task = ex[r].task /\ E.reused = TRUE
  <2>1. ex[r].turns + 1 \in Nat
    BY <1>1 DEF ExecutionRecord
  <2> QED  BY <1>1, <2>1, Zenon DEF ExecutionRecord, ExPc, PlanPc, Id0
<1> HIDE DEF E
<1>5. ExOnly(r) /\ ex'[r] = E
  BY <1>1, <1>3, <1>4, Zenon DEF ExOnly
<1>6. SavedOnly(r) /\ saved'[r] = req.hist /\ marks' \in Nat
  BY <1>1 DEF Persisted, SavedOnly
<1> QED  BY <1>4, <1>5, <1>6, Zenon

\* The request continues what the plan resolved; a Finalize that fails leaves it in
\* memory.
LEMMA PersistMoves ==
  ASSUME IInv, UNCHANGED scene, NEW r \in Runtime, Persist(r)
  PROVE  Moves(r)
<1> DEFINE K == KeyOf[r]
           req == Request(r)
<1>1. /\ lock[r] = Unlocked /\ ex[r].pc = "persist" /\ UNCHANGED <<leases, lock, ids>> /\ K \in Key
      /\ rt[r] \in RuntimeRecord /\ ex[r] \in ExecutionRecord /\ saved[r] \in Seq(Nat)
      /\ MemoryOf(rt[r], ex[r], saved[r], K) /\ ControlOf(rt[r], ex[r], lock[r])
      /\ SeenOf(rt[r], ex[r], leases[K], Resolved(K), Ambiguous)
      /\ rt[r].executing /\ rt[r].owner # None
  BY LocalFacts, Zenon DEF Persist, Free, ControlOf, PlanPc
<1>2. /\ KeyOf' = KeyOf /\ LeaseKeeps /\ LockOnly(r) /\ lock'[r] = lock[r] /\ SameCand(r)
  BY <1>1, Unmoved, Zenon DEF KeyOf
<1>3. /\ req \in RequestRecord /\ req.id = ex[r].id /\ req.prev = ex[r].prev /\ req.key = K
      /\ req.id # None /\ req.id # req.prev /\ req.hist \in Seq(Nat)
      /\ Descends(req.hist, ex[r].hist) /\ Descends(req.hist, saved[r])
      /\ Descends(req.hist, rt[r].durable.hist)
      /\ LeasesValid(req) /\ rt[r].pending = NoReq => MayApply(r, req)
  BY <1>1, RequestFacts, Zenon
<1> HIDE DEF req
<1>4. ASSUME PersistFails(r)
      PROVE  /\ ExOnly(r) /\ PlanStands(r) /\ SavedOnly(r) /\ saved'[r] = saved[r] /\ marks' \in Nat
             /\ UNCHANGED <<saved, marks>> /\ ex'[r].pc = "cleanup" /\ ex'[r].task = ex[r].task
             /\ ex'[r].id = ex[r].id /\ ex'[r].prev = ex[r].prev /\ ex'[r].reused = ex[r].reused
  <2>1. "cleanup" \in ExPc /\ marks \in Nat
    BY Zenon DEF ExPc, IInv, Types
  <2> QED  BY <1>4, <2>1, StepEffect, Unmoved, Zenon DEF PersistFails, PlanStands
<1>5. ASSUME Persisted(r, req)
      PROVE  /\ ExOnly(r) /\ SavedOnly(r) /\ saved'[r] = req.hist /\ marks' \in Nat
             /\ ex'[r].pc \in {"run", "cleanup"} /\ ex'[r].id = ex[r].id /\ ex'[r].prev = None
             /\ ex'[r].hist = req.hist /\ ex'[r].task = ex[r].task /\ ex'[r].reused = TRUE
  BY <1>1, <1>3, <1>5, PersistedFacts, Zenon
<1>6. ASSUME NEW x, ex'[r].pc \in {"run", "cleanup"}, ex'[r].task = ex[r].task, x.task = rt[r].task,
             x.standby = rt[r].standby, x.executing = rt[r].executing, x.owner = rt[r].owner
      PROVE  ControlOf(x, ex'[r], lock'[r])
  BY <1>1, <1>2, <1>6, Zenon DEF ControlOf, PlanPc, FlushAt, Unlocked
<1>7. CASE PersistFails(r) /\ UNCHANGED <<records, active, rt>>
  <2>1. RtOnly(r) /\ rt'[r] = rt[r]
    BY <1>7, Unmoved, Zenon
  <2>2. CheckpointStands(r)
    BY <2>1, SameFacts, Zenon DEF Same
  <2>3. ControlOf(rt[r], ex'[r], lock'[r])
    BY <1>4, <1>6, <1>7
  <2>4. Quiet(r)
    BY <1>1, <1>2, <1>4, <1>7, <2>1, <2>2, <2>3, Zenon DEF Quiet
  <2> QED  BY <2>4, QuietMoves, Zenon
\* Into memory: over the checkpoint there, or after a failed Finalize.
<1>8. ASSUME NEW p \in RequestRecord, NEW x \in RuntimeRecord,
             rt' = [rt EXCEPT ![r] = x], x = [rt[r] EXCEPT !.pending = p], Persisted(r, req),
             p.id = req.id, p.hist = req.hist, p.key = req.key, p.prev \in {None, req.prev, rt[r].durable.id},
             p.prev # p.id, rt[r].durable.id \in {None, p.id, p.prev},
             StoreMoves(r),
             leases[K] = rt[r].owner => /\ Descends(req.hist, Resolved(K)'.hist)
                                        /\ Ambiguous \/ Resolved(K)' = rt[r].durable
      PROVE  Moves(r)
  <2>1. /\ x.task = rt[r].task /\ x.standby = rt[r].standby /\ x.executing = rt[r].executing
        /\ x.owner = rt[r].owner /\ x.pending = p /\ x.durable = rt[r].durable
    BY <1>1, <1>8, Zenon DEF RuntimeRecord
  <2>2. RtOnly(r) /\ rt'[r] = x
    BY <1>8, RtEffect, Zenon
  <2>3. Touches(r)
    BY <1>1, <1>2, <1>5, <1>8, <2>2, Zenon DEF Touches
  <2>4. p # NoReq
    BY <1>3, <1>8, NoReqFacts, Zenon
  <2>5. MemoryOf(x, ex'[r], req.hist, K)
    <3>1. Descends(req.hist, req.hist) /\ Descends(req.hist, rt[r].durable.hist)
      BY <1>3, DescendsFacts, Zenon
    <3> QED  BY <1>1, <1>3, <1>5, <1>8, <2>1, <2>4, <3>1, ZenonT(40) DEF MemoryOf, PlanPc
  <2>6. UsesOf(x, ex'[r]) \subseteq Uses(r)
    <3>1. InUses(x, ex'[r], Uses(r))
      <4>1. /\ ex'[r].id = ex[r].id /\ ex'[r].prev = None /\ x.durable = rt[r].durable /\ x.pending = p
            /\ p.id = ex[r].id /\ p.prev \in {None, ex[r].prev, rt[r].durable.id}
        BY <1>3, <1>5, <1>8, <2>1, Zenon
      <4> QED  BY <4>1, UsesHas, Zenon DEF InUses
    <3> QED  BY <3>1, UsesWithin, Zenon
  <2>7. SeenOf(x, ex'[r], leases'[K], Resolved(K)', Ambiguous)
    BY <1>1, <1>8, <2>1, <2>4, Zenon DEF SeenOf
  <2>8. ControlOf(x, ex'[r], lock'[r])
    <3>1. ex'[r].pc \in {"run", "cleanup"} /\ ex'[r].task = ex[r].task
      BY <1>5, <1>8, Zenon
    <3> QED  BY <1>6, <2>1, <3>1
  <2> QED  BY <1>1, <1>2, <1>3, <1>5, <1>8, <2>1, <2>2, <2>3, <2>4, <2>5, <2>6, <2>7, <2>8, ZenonT(40) DEF Moves, SameCand
<1>9. CASE /\ Pending(r) /\ rt' = [rt EXCEPT ![r].pending = Merged(r, req)]
           /\ Persisted(r, req) /\ UNCHANGED <<records, active>>
  <2> DEFINE p == Merged(r, req)
             old == rt[r].pending
             held == req.held \cup {h \in old.held : h[1] \notin {g[1] : g \in req.held}}
             prev == IF rt[r].durable.id = req.id THEN None ELSE rt[r].durable.id
             x == [rt[r] EXCEPT !.pending = p]
  <2>1. old \in RequestRecord /\ old.held \in SUBSET (Target \X Owner0) /\ rt[r].durable.id \in Id0
        /\ req.held \in SUBSET (Target \X Owner0)
    BY <1>1, <1>3, Zenon DEF RuntimeRecord, RequestRecord, VersionRecord
  <2>2. held \in SUBSET (Target \X Owner0) /\ prev \in Id0
    BY <2>1, Zenon DEF Id0
  <2>3. PICK b \in BOOLEAN : b = (req.absent \/ old.absent)
    <3>1. (req.absent \/ old.absent) \in BOOLEAN
      BY Zenon
    <3> QED  BY <3>1, Zenon
  <2>4. p = [req EXCEPT !.held = held, !.absent = b, !.prev = prev]
    BY <2>3, Zenon DEF Merged
  <2> HIDE DEF p, held
  <2>5. p \in RequestRecord /\ p.id = req.id /\ p.hist = req.hist /\ p.key = req.key /\ p.prev = prev
    BY <1>3, <2>2, <2>4, Zenon DEF RequestRecord
  <2>6. x \in RuntimeRecord /\ rt' = [rt EXCEPT ![r] = x]
    BY <1>1, <1>9, <2>5, Zenon DEF RuntimeRecord, IInv, Types, p
  <2>7. p.prev \in {None, rt[r].durable.id} /\ p.prev # p.id /\ rt[r].durable.id \in {None, p.id, p.prev}
    BY <1>3, <2>5, Zenon
  <2>8. Resolved(K)' = Resolved(K) /\ StoreMoves(r)
    BY <1>2, <1>9, Zenon DEF Resolved, StoreMoves
  <2>9. leases[K] = rt[r].owner => /\ Descends(req.hist, Resolved(K).hist)
                                   /\ Ambiguous \/ Resolved(K) = rt[r].durable
    <3> SUFFICES ASSUME leases[K] = rt[r].owner
                 PROVE  /\ Descends(req.hist, Resolved(K).hist) /\ (Ambiguous \/ Resolved(K) = rt[r].durable)
      BY Zenon
    <3>1. Descends(old.hist, Resolved(K).hist) /\ (Ambiguous \/ Resolved(K) = rt[r].durable)
      BY <1>1, <1>9, Zenon DEF SeenOf, Pending
    <3>2. old.hist = saved[r] /\ Resolved(K).hist \in Seq(Nat)
      BY <1>1, <1>9, ResolvedFacts, Zenon DEF MemoryOf, Pending
    <3>3. req.hist \in Seq(Nat) /\ Descends(req.hist, saved[r])
      BY <1>1, <1>3, Zenon DEF RequestRecord
    <3> QED  BY <1>1, <3>1, <3>2, <3>3, DescendsTrans, Zenon
  <2> HIDE DEF prev
  <2> QED  BY <1>8, <1>9, <2>5, <2>6, <2>7, <2>8, <2>9, ZenonT(40)
<1>10. CASE /\ ~Pending(r) /\ LeasesValid(req) /\ Apply(req)
            /\ rt' = [rt EXCEPT ![r].durable = Version(req)] /\ Persisted(r, req)
  <2> DEFINE x == [rt[r] EXCEPT !.durable = Version(req)]
  <2>1. Version(req) \in VersionRecord /\ Version(req).id = req.id /\ Version(req).hist = req.hist
    BY <1>3, Zenon DEF Version, VersionRecord, RequestRecord
  <2>2. /\ x \in RuntimeRecord /\ rt' = [rt EXCEPT ![r] = x] /\ x.task = rt[r].task
        /\ x.standby = rt[r].standby /\ x.executing = rt[r].executing
        /\ x.owner = rt[r].owner /\ x.pending = NoReq /\ x.durable = Version(req)
    BY <1>1, <1>10, <2>1, Zenon DEF RuntimeRecord, Pending, IInv, Types
  <2> HIDE DEF x
  <2>3. RtOnly(r) /\ rt'[r] = x
    BY <2>2, RtEffect, Zenon
  <2>4. MayApply(r, req) /\ StoreMoves(r) /\ Resolved(K)' = Version(req)
    BY <1>3, <1>10, ApplyEffect, Zenon DEF Pending, StoreMoves
  <2>5. Touches(r)
    BY <1>1, <1>2, <1>5, <1>10, <2>3, Zenon DEF Touches
  <2>6. MemoryOf(x, ex'[r], req.hist, K)
    BY <1>3, <1>5, <1>10, <2>1, <2>2, DescendsFacts, Zenon DEF MemoryOf, PlanPc
  <2>7. UsesOf(x, ex'[r]) \subseteq Uses(r)
    <3>1. InUses(x, ex'[r], Uses(r))
      BY <1>3, <1>5, <1>10, <2>1, <2>2, NoReqFacts, UsesHas, Zenon DEF InUses
    <3> QED  BY <3>1, UsesWithin, Zenon
  <2>8. SeenOf(x, ex'[r], leases'[K], Resolved(K)', Ambiguous)
    BY <1>3, <1>5, <1>10, <2>1, <2>2, <2>4, DescendsFacts, Zenon DEF SeenOf
  <2>9. ControlOf(x, ex'[r], lock'[r])
    BY <1>5, <1>6, <1>10, <2>2
  <2>10. Descends(Resolved(K)'.hist, req.hist)
    BY <1>3, <2>1, <2>4, DescendsFacts, Zenon
  <2> QED  BY <1>1, <1>2, <1>3, <1>5, <1>10, <2>2, <2>3, <2>4, <2>5, <2>6, <2>7, <2>8, <2>9, <2>10, ZenonT(40) DEF Moves, SameCand
<1>11. ASSUME ~Pending(r), UNCHANGED <<records, active>> \/ (Ambiguous /\ LeasesValid(req) /\ Apply(req))
       PROVE  /\ StoreMoves(r)
              /\ leases[K] = rt[r].owner => /\ Descends(req.hist, Resolved(K)'.hist)
                                            /\ Ambiguous \/ Resolved(K)' = rt[r].durable
              /\ Descends(Resolved(K)'.hist, saved[r])
  <2>1. CASE UNCHANGED <<records, active>>
    <3>1. Resolved(K)' = Resolved(K) /\ StoreMoves(r) /\ Resolved(K).hist \in Seq(Nat)
      BY <1>1, <1>2, <2>1, ResolvedFacts, Zenon DEF Resolved, StoreMoves
    <3>2. Descends(Resolved(K).hist, saved[r])
      BY <1>11, LocalFacts, Zenon DEF Pending
    <3>3. leases[K] = rt[r].owner => /\ Descends(ex[r].hist, Resolved(K).hist)
                                     /\ Ambiguous \/ Resolved(K) = rt[r].durable
      BY <1>1, <1>11, Zenon DEF SeenOf, Pending, PlanPc
    <3>4. ex[r].hist \in Seq(Nat)
      BY <1>1, Zenon DEF ExecutionRecord
    <3>5. req.hist \in Seq(Nat) /\ Descends(req.hist, ex[r].hist)
      BY <1>3, Zenon DEF RequestRecord
    <3>6. Descends(ex[r].hist, Resolved(K).hist) => Descends(req.hist, Resolved(K).hist)
      BY <3>1, <3>4, <3>5, DescendsTrans, Zenon
    <3> QED  BY <3>1, <3>2, <3>3, <3>6, Zenon
  <2>2. CASE Ambiguous /\ LeasesValid(req) /\ Apply(req)
    <3>1. MayApply(r, req) /\ StoreMoves(r) /\ Resolved(K)' = Version(req)
      BY <1>3, <1>11, <2>2, ApplyEffect, Zenon DEF Pending, StoreMoves
    <3>2. Resolved(K)'.hist = req.hist
      BY <3>1 DEF Version
    <3> QED  BY <1>3, <2>2, <3>1, <3>2, DescendsFacts, Zenon
  <2> QED  BY <1>11, <2>1, <2>2, Zenon
<1>12. CASE /\ ~Pending(r) /\ (UNCHANGED <<records, active>> \/ (Ambiguous /\ LeasesValid(req) /\ Apply(req)))
            /\ rt' = [rt EXCEPT ![r].pending = req] /\ Persisted(r, req)
  <2> DEFINE x == [rt[r] EXCEPT !.pending = req]
  <2>1. x \in RuntimeRecord /\ rt' = [rt EXCEPT ![r] = x]
    BY <1>1, <1>3, <1>12, Zenon DEF RuntimeRecord, IInv, Types
  <2>2. rt[r].durable.id \in {None, req.id, req.prev}
    BY <1>1, <1>3, <1>12, Zenon DEF MemoryOf, Pending, PlanPc
  <2> QED  BY <1>3, <1>8, <1>11, <1>12, <2>1, <2>2, Zenon
<1>13. CASE /\ ~Pending(r) /\ (UNCHANGED <<records, active>> \/ (Ambiguous /\ LeasesValid(req) /\ Apply(req)))
            /\ PersistFails(r) /\ UNCHANGED rt
  <2>1. RtOnly(r) /\ rt'[r] = rt[r]
    BY <1>13, Unmoved, Zenon
  <2>2. Touches(r)
    BY <1>1, <1>2, <1>4, <1>13, <2>1, Zenon DEF Touches
  <2>3. MemoryOf(rt[r], ex'[r], saved[r], K)
    BY <1>1, <1>4, <1>13, Zenon DEF MemoryOf, PlanPc
  <2>4. UsesOf(rt[r], ex'[r]) \subseteq Uses(r)
    BY <1>4, <1>13, Zenon DEF UsesOf, Uses
  <2>5. SeenOf(rt[r], ex'[r], leases'[K], Resolved(K)', Ambiguous)
    BY <1>4, <1>13, Zenon DEF SeenOf, Pending, PlanPc
  <2>6. ControlOf(rt[r], ex'[r], lock'[r])
    BY <1>4, <1>6, <1>13
  <2> QED  BY <1>1, <1>2, <1>4, <1>11, <1>13, <2>1, <2>2, <2>3, <2>4, <2>5, <2>6, DescendsFacts, ZenonT(40) DEF Moves, SameCand
<1> QED  BY <1>7, <1>9, <1>10, <1>12, <1>13, Zenon DEF Persist, req

-----------------------------------------------------------------------------
(* Leases expire, and the theorems. *)

\* A step that leaves the runtimes and their records as they are.
LEMMA StandStill ==
  ASSUME IInv, UNCHANGED <<records, active, rt, ex, lock, ids, saved>>, KeyOf' = KeyOf,
         Ambiguous' = Ambiguous
  PROVE  Control' /\ Memory' /\ Owners' /\ Named' /\ OneActiveRecord'
<1>1. Control' /\ Owners'
  BY Zenon DEF IInv, Control, Owners
<1>2. Memory'
  BY Zenon DEF IInv, Memory
<1>3. Named'
  <2>1. \A r \in Runtime : Uses(r)' = Uses(r)
    BY Zenon DEF Uses
  <2> QED  BY <2>1, Zenon DEF IInv, Named
<1>4. OneActiveRecord'
  BY Zenon DEF IInv, OneActiveRecord
<1> QED  BY <1>1, <1>2, <1>3, <1>4, Zenon

\* A lease that expires makes nobody an owner.
LEMMA ExpiryInv ==
  ASSUME IInv, UNCHANGED scene, LeaseExpires \/ OrphanExpires
  PROVE  IInv' /\ Advances
<1>1. UNCHANGED <<records, active, rt, ex, lock, ids, marks, saved>>
  BY Zenon DEF LeaseExpires, OrphanExpires, Expire, fresh
<1>2. PICK t \in Target : leases' = [leases EXCEPT ![t] = None]
  BY Zenon DEF LeaseExpires, OrphanExpires, Expire
<1>3. leases' \in [Target -> Owner0] /\ \A u \in Target : leases'[u] \in {leases[u], None}
  BY <1>2, Zenon DEF IInv, Types, Owner0
<1>4. /\ KeyOf' = KeyOf /\ Ambiguous' = Ambiguous /\ \A k \in Key : Resolved(k)' = Resolved(k)
      /\ \A r \in Runtime : KeyOf[r] \in Key /\ KeyOf[r] \in Target
  BY <1>1, SceneFacts, Zenon DEF KeyOf, Ambiguous, Resolved, IInv
<1>5. Types' /\ Control' /\ Memory' /\ Owners' /\ Named' /\ OneActiveRecord'
  <2>1. Types'
    BY <1>1, <1>3, Zenon DEF IInv, Types
  <2> QED  BY <1>1, <1>4, <2>1, StandStill, Zenon
<1>6. Seen'
  <2> SUFFICES ASSUME NEW r \in Runtime
               PROVE  SeenOf(rt[r], ex[r], leases'[KeyOf[r]], Resolved(KeyOf[r]), Ambiguous)
    <3>1. \A r \in Runtime : Resolved(KeyOf[r])' = Resolved(KeyOf[r])
      BY <1>4, Zenon
    <3> QED  BY <1>1, <1>4, <3>1, Zenon DEF Seen
  <2>1. leases'[KeyOf[r]] \in {leases[KeyOf[r]], None}
    BY <1>3, <1>4, Zenon
  <2> QED  BY <2>1, LocalFacts, Zenon DEF SeenOf
<1>7. Stored'
  <2>1. \A r \in Runtime : Resolved(KeyOf[r])' = Resolved(KeyOf[r])
    BY <1>4, Zenon
  <2> QED  BY <1>1, <2>1, Zenon DEF IInv, Stored, Pending
<1>8. Advances
  BY <1>1, <1>4, ResolvedFacts, LocalFacts, DescendsFacts, Zenon DEF Advances
<1> QED  BY <1>5, <1>6, <1>7, <1>8, Zenon DEF IInv

\* One case for each step.
LEMMA StepInv ==
  ASSUME IInv, RuntimeNext
  PROVE  IInv' /\ Advances
<1>1. CASE LeaseExpires \/ OrphanExpires
  BY <1>1, ExpiryInv, Zenon DEF RuntimeNext
<1>2. ASSUME NEW r \in Runtime, RuntimeStep(r) PROVE IInv' /\ Advances
  <2>0. UNCHANGED scene
    BY Zenon DEF RuntimeNext
  <2>1. CASE Reserve(r) \/ OpenStandby(r) \/ CloseStandby(r) \/ OwnerLost(r)
    BY <2>0, <2>1, QuietInv, ReserveQuiet, StandbyQuiet, LoopQuiet, Zenon
  <2>2. CASE Execution(r)
    BY <2>0, <2>2, QuietInv, MovesInv, BeginQuiet, ExecutionQuiet, EndQuiet, PlanResolveMoves,
       PlanContinueMoves, PlanNewMoves, ResumeRejectedMoves, PersistMoves, Zenon DEF Execution
  <2>3. CASE Section(r)
    BY <2>0, <2>3, QuietInv, MovesInv, AcquireQuiet, ValidateMoves, RenewQuiet, FlushLeasesQuiet,
       FlushFinalizeMoves, FlushReleaseQuiet, RecoverQuiet, Zenon DEF Section
  <2>4. CASE Recover(r) \/ RecoverReleased(r)
    BY <2>0, <2>4, QuietInv, RecoverQuiet, LoopQuiet, Zenon DEF Recover, RecoverReleased
  <2> QED  BY <1>2, <2>1, <2>2, <2>3, <2>4, Zenon DEF RuntimeStep
<1> QED  BY <1>1, <1>2, Zenon DEF RuntimeNext

\* New runtimes and an empty store.
LEMMA InitInv ==
  ASSUME RuntimeInit
  PROVE  IInv
<1>1. Types
  <2>1. NoReq \in RequestRecord /\ Version(NoReq) \in VersionRecord
    BY NoReqFacts, Zenon
  <2>2. Idle \in ExecutionRecord /\ Unlocked \in LockRecord
    <3>1. Unlocked \in LockRecord
      BY Zenon DEF Unlocked, LockRecord, SectionAt, Owner0
    <3> QED  BY <3>1, IdleFacts, Zenon
  <2>3. rt \in [Runtime -> RuntimeRecord]
    BY <2>1, Zenon DEF RuntimeInit, RuntimeRecord, Owner0
  <2>4. /\ leases \in [Target -> Owner0] /\ active \in [Key -> Id0]
        /\ records \in [Id -> [key : Key \cup {None}, hist : Seq(Nat), archived : BOOLEAN]]
    BY DEF RuntimeInit, StoreInit, NoRecord, Owner0, Id0
  <2>5. ids \in 0 .. MaxIds /\ marks \in Nat /\ saved \in [Runtime -> Seq(Nat)] /\ scene \in Scenes
    BY StoreAssumption DEF RuntimeInit
  <2>6. ex \in [Runtime -> ExecutionRecord] /\ lock \in [Runtime -> LockRecord]
    BY <2>2, Zenon DEF RuntimeInit
  <2> QED  BY <2>3, <2>4, <2>5, <2>6, Zenon DEF Types
<1>2. \A r \in Runtime : /\ rt[r].pending = NoReq /\ rt[r].durable = Version(NoReq) /\ rt[r].owner = None
                         /\ ~rt[r].executing /\ ~rt[r].standby /\ ~rt[r].task
                         /\ ex[r] = Idle /\ lock[r] = Unlocked /\ saved[r] = <<>>
  BY Zenon DEF RuntimeInit
<1>3. Control
  <2> SUFFICES ASSUME NEW r \in Runtime PROVE ControlOf(rt[r], ex[r], lock[r])
    BY Zenon DEF Control
  <2>1. Idle.pc = "none"
    BY Zenon DEF Idle
  <2>2. Rests(rt[r], ex[r])
    BY <1>2, <2>1, Zenon DEF Rests, PlanPc
  <2> QED  BY <1>2, <2>2, RestsUnlocked, Zenon
<1>4. Memory
  BY <1>2, IdleFacts, Zenon DEF Memory, MemoryOf, PlanPc
<1>5. Owners
  BY <1>2 DEF Owners, Unlocked
<1>6. Named
  <2>1. \A r \in Runtime : Uses(r) = {}
    <3> SUFFICES ASSUME NEW r \in Runtime PROVE Uses(r) = {}
      BY Zenon
    <3>1. InUses(rt[r], ex[r], {})
      BY <1>2, NoReqFacts, IdleFacts, Zenon DEF InUses
    <3> QED  BY <3>1, UsesWithin, Zenon DEF Uses
  <2> QED  BY <2>1, Zenon DEF Named, RuntimeInit, StoreInit
<1>7. Seen
  BY <1>2, Zenon DEF Seen, SeenOf
<1>8. Stored
  <2>1. \A k \in Key : Resolved(k).hist = <<>>
    BY Zenon DEF RuntimeInit, StoreInit, Resolved
  <2>2. \A r \in Runtime : KeyOf[r] \in Key
    BY <1>1, SceneFacts, Zenon
  <2>3. <<>> \in Seq(Nat) /\ Descends(<<>>, <<>>)
    BY DEF Descends
  <2> QED  BY <1>2, <2>1, <2>2, <2>3, Zenon DEF Stored
<1>9. OneActiveRecord
  BY Zenon DEF RuntimeInit, StoreInit, OneActiveRecord
<1> QED  BY <1>1, <1>3, <1>4, <1>5, <1>6, <1>7, <1>8, <1>9, Zenon DEF IInv

\* Every reachable state of the Thread runtimes and the store satisfies the invariant: owners
\* are told apart, record IDs belong to one key, and the runtime whose owner the store names as
\* the holder of a key has seen what is stored under it.
THEOREM RuntimeInvariant == RuntimeSpec => []IInv
<1>1. RuntimeInit => IInv
  BY InitInv, Zenon
<1>2. IInv /\ [RuntimeNext]_vars => IInv'
  <2> SUFFICES ASSUME IInv, [RuntimeNext]_vars PROVE IInv'
    BY Zenon
  <2>1. CASE RuntimeNext
    BY <2>1, StepInv, Zenon
  <2>2. CASE UNCHANGED vars
    <3>1. UNCHANGED <<scene, leases, records, active, rt, ex, lock, ids, marks, saved>>
      BY <2>2, Zenon DEF vars, storeVars, fresh
    <3>2. /\ KeyOf' = KeyOf /\ Ambiguous' = Ambiguous
          /\ \A r \in Runtime : Resolved(KeyOf[r])' = Resolved(KeyOf[r])
      BY <3>1, Zenon DEF KeyOf, Ambiguous, Resolved
    <3>3. Types' /\ Control' /\ Memory' /\ Owners' /\ Named' /\ OneActiveRecord'
      <4>1. Types'
        BY <3>1, Zenon DEF IInv, Types
      <4> QED  BY <3>1, <3>2, <4>1, StandStill, Zenon
    <3>4. Seen' /\ Stored'
      BY <3>1, <3>2, Zenon DEF IInv, Seen, Stored, Pending
    <3> QED  BY <3>3, <3>4, Zenon DEF IInv
  <2> QED  BY <2>1, <2>2, Zenon
<1> QED  BY <1>1, <1>2, PTL DEF RuntimeSpec

\* While an execution, a flush or a standby of thread_runtime.go runs, the runtime owns the lease
\* it dereferences, whatever expires or fails under it.
THEOREM OwnerPresent == RuntimeSpec => []OwnedInUse
<1>1. IInv => OwnedInUse
  BY Zenon DEF IInv, Control, ControlOf, OwnedInUse, FlushAt
<1> QED  BY <1>1, RuntimeInvariant, PTL

\* A checkpoint that Persist reported stored is in the store or still in memory: neither an
\* expired lease, a failed Finalize nor another Agent's writes make both copies go.
THEOREM CheckpointsKept == RuntimeSpec => []CheckpointKept
<1>1. IInv => CheckpointKept
  <2> SUFFICES ASSUME IInv, NEW r \in Runtime, Pending(r) PROVE Descends(rt[r].pending.hist, saved[r])
    BY Zenon DEF CheckpointKept, IInv, Stored
  <2>1. rt[r].pending.hist = saved[r] /\ saved[r] \in Seq(Nat)
    BY LocalFacts, Zenon DEF MemoryOf, Pending
  <2> QED  BY <2>1, DescendsFacts, Zenon
<1> QED  BY <1>1, RuntimeInvariant, PTL

\* Without writes that fail for their caller and are applied, every record of a key but the
\* active one is archived: Finalize of the store adapter archives what it displaces.
THEOREM OneConversation == RuntimeSpec => []OneActiveRecord
<1>1. IInv => OneActiveRecord
  BY Zenon DEF IInv
<1> QED  BY <1>1, RuntimeInvariant, PTL

\* No write of any Agent replaces a conversation by one that does not continue it, and what an
\* Agent has persisted only grows: the owner named in every Finalize has seen what is stored.
THEOREM UpdatesKept == RuntimeSpec => NoLostUpdate
<1>1. IInv /\ [RuntimeNext]_vars =>
        [/\ \A k \in Key : Descends(Resolved(k)'.hist, Resolved(k).hist)
         /\ \A r \in Runtime : Descends(saved[r]', saved[r])]_vars
  BY StepInv, Zenon DEF Advances
<1> QED  BY <1>1, RuntimeInvariant, PTL DEF RuntimeSpec, NoLostUpdate
=============================================================================
