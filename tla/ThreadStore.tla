----------------------------- MODULE ThreadStore -----------------------------
(***************************************************************************)
(* The thread store (memory/store.go, the contract in                      *)
(* threadstore/threadstore.go): conversation records, the active record of *)
(* each key, and leases.  Each operation is one critical section of        *)
(* Store.mu.                                                               *)
(*                                                                         *)
(* A lease is the owner that holds its target.  An expired entry behaves   *)
(* like an absent one in every operation, so expiry removes the entry; and *)
(* every owner acquires a target at most once before it releases it, so    *)
(* the owner stands for the pair of owner and token.  A record's content   *)
(* is the history of checkpoints it descends from.                         *)
(***************************************************************************)
EXTENDS Naturals, Sequences

CONSTANTS
  Key,      \* thread keys
  MaxIds,   \* bound: record IDs (newEngineSessionID)
  MaxOwners \* bound: lease owners in use at a time (newLeaseOwner)

Id == 1 .. MaxIds
None == 0
Target == Key \cup Id
Owner == 1 .. MaxOwners

\* Keys and record IDs are leased alike and never confused (their target prefixes).
ASSUME StoreAssumption ==
  MaxIds \in Nat /\ MaxOwners \in Nat /\ Key \cap (Id \cup {None}) = {}

VARIABLES
  leases,   \* leases[t]: the owner of an unexpired lease on t, or None
  records,  \* records[i]: the stored record
  active    \* keyIndex[k]: the ID of k's conversation, or None

storeVars == <<leases, records, active>>

NoRecord == [key |-> None, hist |-> <<>>, archived |-> FALSE]

StoreInit ==
  /\ leases = [t \in Target |-> None]
  /\ records = [i \in Id |-> NoRecord]
  /\ active = [k \in Key |-> None]

\* AcquireLease succeeds on a free, expired or self-owned target.
Acquirable(t, o) == leases[t] \in {None, o}

\* ReleaseLease of o's leases on the targets T; lost leases are ignored.
Released(l, T, o) == [t \in Target |-> IF t \in T /\ l[t] = o THEN None ELSE l[t]]

\* Finalize.  A request names the record, the record it displaces, whether the
\* key must be unbound, and the leases held as pairs <<target, owner>>.
LeasesValid(req) == \A h \in req.held : leases[h[1]] = h[2]
KeyFree(req) == req.absent => active[req.key] = None

ApplyWithoutArchive(req) ==
  /\ records' = [records EXCEPT ![req.id] =
       [key |-> req.key, hist |-> req.hist, archived |-> FALSE]]
  /\ active' = [active EXCEPT ![req.key] = req.id]
Apply(req) ==
  /\ records' = [i \in Id |->
       IF i = req.id THEN [key |-> req.key, hist |-> req.hist, archived |-> i = req.prev]
       ELSE IF i = req.prev THEN [records[i] EXCEPT !.archived = TRUE]
       ELSE records[i]]
  /\ active' = [active EXCEPT ![req.key] = req.id]

\* Resolve by key: the ID and content of the active record, which is what the
\* version hash of a record tells apart.
Resolved(k) ==
  IF active[k] # None /\ ~records[active[k]].archived
  THEN [id |-> active[k], hist |-> records[active[k]].hist]
  ELSE [id |-> None, hist |-> <<>>]

\* The history h is continued by g.
Descends(g, h) == Len(h) <= Len(g) /\ \A i \in 1 .. Len(h) : g[i] = h[i]

\* Time passes a lease's deadline.
Expire(t) ==
  /\ leases[t] # None
  /\ leases' = [leases EXCEPT ![t] = None]
  /\ UNCHANGED <<records, active>>
=============================================================================
