--------------------------- MODULE MessageHubProofs ---------------------------
(***************************************************************************)
(* The hub's invariants, for any set of messages and calls, any policy and *)
(* any order of calls that MessageHub allows.                              *)
(***************************************************************************)
EXTENDS MessageHub, FiniteSetTheorems, TLAPS

\* What ties the pieces of the hub together: byID and items name the same
\* messages, the wrap-up instruction enters items with its delivery, nothing
\* but the prompt and carried messages is claimed before the driver runs.
Consistent ==
  /\ \A m \in Msg : InItems(m) <=> st[m] # "none"
  /\ InItems(Wrap) <=> st[Wrap] = "delivered"
  /\ stage = "prepare" =>
       /\ st[Wrap] = "none"
       /\ \A m \in Msg : claimed[m] /\ st[m] = "accepted" => m \in Carried \cup {Start}
  /\ st[Start] # "none" /\ (st[Start] = "accepted" => claimed[Start])
  /\ \A m \in All : st[m] = "none" => ~claimed[m]

\* The inductive invariant.
HubInv ==
  /\ TypeOK /\ Consistent
  /\ SealedMeansSettled /\ DeliveredOnce /\ WithinTurnBudget
  /\ FreshPendingBounded /\ BlockedOnlyWhenFull

-----------------------------------------------------------------------------
(* Facts about the operators. *)

NoRepeats(q) == \A i, j \in DOMAIN q : q[i] = q[j] => i = j
Enumerates(q, S) == \A x : x \in S <=> \E i \in DOMAIN q : q[i] = x

\* InSomeOrder enumerates a finite set without repetition.
LEMMA OrderEnumerates ==
  ASSUME NEW S, IsFiniteSet(S)
  PROVE  /\ InSomeOrder(S) \in Seq(S)
         /\ NoRepeats(InSomeOrder(S)) /\ Enumerates(InSomeOrder(S), S)
<1> DEFINE n == Cardinality(S)
           f == InSomeOrder(S)
<1>1. n \in Nat /\ ExistsBijection(1 .. n, S)
  BY FS_CardinalityType, Zenon
<1>2. f \in Bijection(1 .. n, S)
  BY <1>1, Zenon DEF ExistsBijection, InSomeOrder
<1>3. f \in [1 .. n -> S] /\ IsInjective(f) /\ f \in Surjection(1 .. n, S)
  BY <1>2, Zenon DEF Bijection, Injection
<1>7. f \in Seq(S) /\ DOMAIN f = 1 .. n
  BY <1>1, <1>3
<1>8. \A x : x \in S <=> \E i \in 1 .. n : f[i] = x
  BY <1>3, Zenon DEF Surjection
<1>9. QED
  BY <1>3, <1>7, <1>8, Zenon DEF IsInjective, NoRepeats, Enumerates

\* Appending to a sequence adds one element to those it holds.
LEMMA AppendAdds ==
  ASSUME NEW S, NEW q \in Seq(S), NEW e \in S
  PROVE  /\ Append(q, e) \in Seq(S)
         /\ \A x : (\E i \in DOMAIN Append(q, e) : Append(q, e)[i] = x)
                     <=> (\E i \in DOMAIN q : q[i] = x) \/ x = e
<1> DEFINE n == Len(q)
           r == Append(q, e)
<1>1. n \in Nat /\ DOMAIN q = 1 .. n
  OBVIOUS
<1>2. /\ r \in Seq(S) /\ DOMAIN r = 1 .. n + 1
      /\ \A i \in 1 .. n : r[i] = q[i]
      /\ r[n + 1] = e
  OBVIOUS
<1> HIDE DEF n, r
<1>3. \A i : i \in 1 .. n + 1 <=> i \in 1 .. n \/ i = n + 1
  BY <1>1
<1>4. QED
  BY <1>1, <1>2, <1>3, Zenon DEF r

\* Appending a new element enumerates a set with that element.
LEMMA AppendEnumerates ==
  ASSUME NEW S, NEW q \in Seq(S), NEW e \in S, NEW D, Enumerates(q, D)
  PROVE  Enumerates(q \o <<e>>, D \cup {e}) /\ q \o <<e>> \in Seq(S)
<1>1. q \o <<e>> = Append(q, e)
  OBVIOUS
<1>2. /\ Append(q, e) \in Seq(S)
      /\ \A x : (\E i \in DOMAIN Append(q, e) : Append(q, e)[i] = x)
                   <=> (\E i \in DOMAIN q : q[i] = x) \/ x = e
  BY AppendAdds
<1>3. QED
  BY <1>1, <1>2, Zenon DEF Enumerates

\* An appended message is in the items, and nothing else changes.
LEMMA ItemsGrow ==
  ASSUME items \in Seq(All), NEW m \in All, items' = Append(items, m)
  PROVE  \A x : InItems(x)' <=> InItems(x) \/ x = m
<1>1. \A x : (\E i \in DOMAIN Append(items, m) : Append(items, m)[i] = x)
                <=> (\E i \in DOMAIN items : items[i] = x) \/ x = m
  BY AppendAdds
<1>2. QED
  BY <1>1, Zenon DEF InItems

\* A claim only touches pending messages and the wrap-up instruction.
LEMMA ClaimTouchesPending ==
  ASSUME NEW b
  PROVE  /\ ClaimDead(b) \subseteq Pending
         /\ ClaimTooLarge(b) \subseteq Pending
         /\ Batch(b) \subseteq Pending
         /\ Taken(b) \subseteq Pending \cup {Wrap}
         /\ (ClaimDead(b) \cup ClaimTooLarge(b)) \cap Taken(b) = {}
         /\ Wrap \in Taken(b) => ~Known(Wrap) \/ (st[Wrap] = "accepted" /\ ~claimed[Wrap])
<1>1. Scanned(b) \subseteq Pending
  BY Zenon DEF Scanned
<1>2. Eligible(b) \subseteq Pending /\ \A m \in Eligible(b) : ~Dead(m)
  BY Zenon DEF Eligible
<1>3. Wrap \notin Pending
  BY HubAssumption, Zenon DEF Pending
<1>4. /\ ClaimDead(b) \subseteq Pending /\ ClaimTooLarge(b) \subseteq Pending
      /\ Batch(b) \subseteq Pending
      /\ (ClaimDead(b) \cup ClaimTooLarge(b)) \cap Batch(b) = {}
  BY <1>1, <1>2, Zenon DEF ClaimDead, ClaimTooLarge, Batch
<1>5. /\ Taken(b) \subseteq Batch(b) \cup {Wrap}
      /\ Wrap \in Taken(b) => Wrap \in Batch(b) \/ WrapUpJoins(b)
  BY Zenon DEF Taken
<1>6. WrapUpJoins(b) => ~Known(Wrap) \/ (st[Wrap] = "accepted" /\ ~claimed[Wrap])
  BY Zenon DEF WrapUpJoins
<1>7. QED
  BY <1>3, <1>4, <1>5, <1>6, Zenon

\* A claim is for a turn the policy allows, at most the successor turn.
LEMMA ClaimTurnBounded ==
  ASSUME TypeOK, WithinTurnBudget, NEW b, ClaimOpen(b), ~PastTurnLimit(b)
  PROVE  ClaimTurn(b) \in 0 .. MaxTurns /\ ClaimTurn(b) <= turns + 2
BY HubAssumption DEF TypeOK, WithinTurnBudget, ClaimOpen, PastTurnLimit, ClaimTurn

\* Pending is finite, so its cardinality is a number.
LEMMA PendingFinite == IsFiniteSet(Pending) /\ Cardinality(Pending) \in Nat
BY HubAssumption, FS_Subset, FS_CardinalityType, Zenon DEF Pending

\* A step that adds no fresh message keeps the admission bound.
LEMMA FreshShrinks ==
  ASSUME FreshPendingBounded, Fresh' \subseteq Fresh
  PROVE  FreshPendingBounded'
<1>1. IsFiniteSet(Fresh) /\ Cardinality(Fresh) \in Nat
  BY PendingFinite, FS_Subset, FS_CardinalityType, Zenon DEF Fresh
<1>2. IsFiniteSet(Fresh') /\ Cardinality(Fresh') <= Cardinality(Fresh)
  BY <1>1, FS_Subset, Zenon
<1>3. Cardinality(Fresh') \in Nat
  BY <1>2, FS_CardinalityType, Zenon
<1>4. QED
  BY <1>1, <1>2, <1>3, HubAssumption DEF FreshPendingBounded

Waiting == {s \in Sender : pc[s] = "waiting"}

\* The turn count of a step that completes no turn.
LEMMA StillNotLess == ASSUME NEW m \in Nat, NEW n, n = m PROVE n >= m
  OBVIOUS

\* A step that wakes every blocked call, or blocks none and leaves the queue
\* alone, keeps blocked calls justified.
LEMMA BlockedStays ==
  ASSUME BlockedOnlyWhenFull, TypeOK, turns' \in Nat, turns' >= turns,
         Waiting' = {} \/ (Pending' = Pending /\ Waiting' \subseteq Waiting)
  PROVE  BlockedOnlyWhenFull'
<1>1. CASE Waiting' = {}
  BY <1>1, Zenon DEF BlockedOnlyWhenFull, Waiting
<1>2. CASE Pending' = Pending /\ Waiting' \subseteq Waiting
  <2>1. SUFFICES ASSUME Waiting' # {}
                 PROVE  Cardinality(Pending) >= MaxPending \/ turns' + 1 >= MaxTurns
    BY <1>2, Zenon DEF BlockedOnlyWhenFull, Waiting
  <2>2. Cardinality(Pending) >= MaxPending \/ turns + 1 >= MaxTurns
    BY <1>2, <2>1, Zenon DEF BlockedOnlyWhenFull, Waiting
  <2>3. turns \in Nat /\ MaxTurns \in Nat
    BY HubAssumption, Zenon DEF TypeOK
  <2>4. \A x, y, n \in Nat : y >= x /\ x + 1 >= n => y + 1 >= n
    OBVIOUS
  <2>5. QED
    BY <2>2, <2>3, <2>4, Zenon
<1>3. QED
  BY <1>1, <1>2, Zenon

\* Notify leaves nobody blocked.
LEMMA NotifyWakes == ASSUME Notify PROVE Waiting' = {}
BY Zenon DEF Notify, Notified, Waiting

\* A step that spends no turn and wakes the blocked calls.
LEMMA Woken ==
  ASSUME HubInv, Waiting' = {}, UNCHANGED <<turns, turnOf>>
  PROVE  WithinTurnBudget' /\ BlockedOnlyWhenFull'
<1>1. BlockedOnlyWhenFull'
  BY Zenon DEF BlockedOnlyWhenFull, Waiting
<1>2. QED
  BY <1>1, Zenon DEF HubInv, WithinTurnBudget

\* A step that leaves the deliveries alone, and neither takes back a delivered
\* message nor delivers one that has no receipt.
LEMMA DeliveryKept ==
  ASSUME DeliveredOnce, UNCHANGED deliveryVars,
         \A x \in All : \/ st'[x] = st[x]
                        \/ x \notin delivered /\ st'[x] # "delivered"
                        \/ x \in delivered /\ st'[x] = "delivered"
  PROVE  DeliveredOnce'
<1>1. delivered' = delivered /\ receipts' = receipts
  BY Zenon DEF deliveryVars
<1>2. \A m \in All : /\ st'[m] = "delivered" => m \in delivered
                     /\ m \in delivered => st'[m] # "accepted"
                     /\ m \in delivered \ Durable => st'[m] = "delivered"
  BY Zenon DEF DeliveredOnce
<1>3. QED
  BY <1>1, <1>2, Zenon DEF DeliveredOnce

-----------------------------------------------------------------------------
(* Three kinds of step. *)

\* The conjuncts that speak of items and deliveries.
ItemsInv == Consistent /\ SealedMeansSettled /\ DeliveredOnce /\ FreshPendingBounded

\* A step that leaves the items alone, and seals only an idle hub.
LEMMA ItemsAlone ==
  ASSUME HubInv, UNCHANGED <<itemVars, deliveryVars>>,
         stage' = "prepare" => stage = "prepare",
         finished' => finished \/ Unsettled = {}
  PROVE  ItemsInv' /\ Pending' = Pending
<1> USE DEF HubInv, itemVars, deliveryVars
<1>1. Pending' = Pending /\ Fresh' = Fresh
  BY Zenon DEF Pending, Fresh, InItems
<1>2. Consistent'
  BY Zenon DEF Consistent, InItems
<1>3. SealedMeansSettled'
  BY Zenon DEF SealedMeansSettled, Unsettled, InItems
<1>4. DeliveredOnce'
  BY Zenon DEF DeliveredOnce
<1>5. QED
  BY <1>1, <1>2, <1>3, <1>4, FreshShrinks, Zenon DEF ItemsInv

\* A step that fails some accepted messages, releasing no other claim.
LEMMA Failing ==
  ASSUME HubInv, NEW F \in SUBSET {m \in All : st[m] = "accepted"},
         st' = [m \in All |-> IF m \in F THEN "failed" ELSE st[m]],
         claimed' \in [All -> BOOLEAN],
         \A m \in All : (claimed'[m] => claimed[m]) /\ (m \notin F => claimed'[m] = claimed[m]),
         UNCHANGED <<items, endOnly, deliveryVars, stage>>,
         finished' => finished \/ Unsettled \subseteq F
  PROVE  ItemsInv'
<1> USE HubAssumption DEF HubInv, All, deliveryVars
<1>1. Consistent'
  BY DEF Consistent, InItems, TypeOK
<1>2. SealedMeansSettled'
  BY DEF SealedMeansSettled, Unsettled, InItems, TypeOK
<1>3. DeliveredOnce'
  BY DEF DeliveredOnce, TypeOK
<1>4. Fresh' \subseteq Fresh
  BY Zenon DEF Fresh, Pending, InItems, TypeOK
<1>5. QED
  BY <1>1, <1>2, <1>3, <1>4, FreshShrinks, Zenon DEF ItemsInv

\* A step that delivers one accepted message, releasing its claim.
LEMMA Delivering ==
  ASSUME HubInv, NEW m \in All, Outstanding(m), Release(m), Deliver(m),
         items' = IF m = Wrap THEN Append(items, m) ELSE items,
         UNCHANGED <<endOnly, stage, finished>>
  PROVE  ItemsInv'
<1> USE HubAssumption DEF HubInv, All, Outstanding, Release, Deliver
<1>1. \A x \in Msg : InItems(x)' <=> InItems(x)
  <2>1. CASE m = Wrap
    BY <2>1, ItemsGrow, Zenon DEF TypeOK
  <2>2. CASE m # Wrap
    BY <2>2, Zenon DEF InItems
  <2>3. QED
    BY <2>1, <2>2, Zenon
<1>2. m = Wrap => InItems(Wrap)'
  BY ItemsGrow, Zenon DEF TypeOK
<1>3. m # Wrap => (InItems(Wrap)' <=> InItems(Wrap))
  BY Zenon DEF InItems
<1>4. Consistent'
  BY <1>1, <1>2, <1>3, Zenon DEF Consistent, TypeOK
<1>5. SealedMeansSettled'
  BY <1>1, <1>3 DEF SealedMeansSettled, Unsettled, TypeOK
<1>6. DeliveredOnce'
  <2>1. m \notin delivered
    BY Zenon DEF DeliveredOnce
  <2>2. /\ DOMAIN receipts' = 1 .. Len(receipts) + 1
        /\ \A i \in 1 .. Len(receipts) : receipts'[i] = receipts[i]
        /\ receipts'[Len(receipts) + 1] = m
        /\ DOMAIN receipts = 1 .. Len(receipts) /\ Len(receipts) \in Nat
    <3>1. receipts \in Seq(All) /\ receipts' = Append(receipts, m)
      BY Zenon DEF TypeOK
    <3> HIDE HubAssumption DEF HubInv, Outstanding, Release, Deliver
    <3>2. QED
      BY <3>1
  <2>3. \A i \in DOMAIN receipts : receipts[i] # m
    BY <2>1, Zenon DEF DeliveredOnce
  <2>4. \A i, j \in DOMAIN receipts' : receipts'[i] = receipts'[j] => i = j
    <3>1. \A i, j \in DOMAIN receipts : receipts[i] = receipts[j] => i = j
      BY Zenon DEF DeliveredOnce
    <3> HIDE DEF HubInv
    <3>2. QED
      BY <2>2, <2>3, <3>1
  <2>5. delivered' = {receipts'[i] : i \in DOMAIN receipts'}
    BY <2>2 DEF DeliveredOnce
  <2>6. QED
    BY <2>4, <2>5, Zenon DEF DeliveredOnce, TypeOK
<1>7. Fresh' \subseteq Fresh
  BY <1>1, Zenon DEF Fresh, Pending, TypeOK
<1>8. QED
  BY <1>4, <1>5, <1>6, <1>7, FreshShrinks, Zenon DEF ItemsInv

-----------------------------------------------------------------------------
(* Each action preserves the invariant. *)

\* Steps of a Send call that admit nothing.
LEMMA SendQuietInv ==
  ASSUME HubInv, NEW s \in Sender,
         SendCheck(s) \/ SendRejected(s) \/ SendDuplicate(s) \/ SendGivesUp(s)
  PROVE  HubInv'
<1> USE HubAssumption DEF HubInv
<1>1. /\ UNCHANGED <<itemVars, deliveryVars, runVars, ctxDone, expired>>
      /\ \E v \in {"ready", "done"} : pc' = [pc EXCEPT ![s] = v]
      /\ res' = res \/ \E v \in {"ok", "error"} : res' = [res EXCEPT ![s] = v]
  BY Zenon DEF SendCheck, SendRejected, SendDuplicate, SendGivesUp, Return
<1>2. TypeOK'
  <2>1. pc' \in [Sender -> {"idle", "ready", "waiting", "done"}]
    BY <1>1, Zenon DEF TypeOK
  <2>2. res' \in [Sender -> {"none", "ok", "error"}]
    BY <1>1, Zenon DEF TypeOK
  <2>3. QED
    BY <1>1, <2>1, <2>2, Zenon DEF TypeOK, itemVars, deliveryVars, runVars
<1>3. ItemsInv' /\ Pending' = Pending
  BY <1>1, ItemsAlone, Zenon DEF runVars
<1>4. Waiting' \subseteq Waiting
  BY <1>1, Zenon DEF Waiting, TypeOK
<1>5. WithinTurnBudget' /\ BlockedOnlyWhenFull'
  BY <1>1, <1>3, <1>4, BlockedStays DEF WithinTurnBudget, itemVars, runVars, TypeOK
<1>6. QED
  BY <1>2, <1>3, <1>5, Zenon DEF ItemsInv

\* A call that finds the queue full records only that it waits.
LEMMA SendBlockedInv == ASSUME HubInv, NEW s \in Sender, SendBlocked(s) PROVE HubInv'
<1> USE HubAssumption DEF HubInv, SendBlocked
<1>1. TypeOK'
  BY Zenon DEF TypeOK, itemVars, deliveryVars, runVars
<1>2. ItemsInv' /\ Pending' = Pending
  BY ItemsAlone, Zenon DEF runVars
<1>3. Cardinality(Pending) >= MaxPending
  BY PendingFinite DEF HasRoom
<1>4. WithinTurnBudget' /\ BlockedOnlyWhenFull'
  BY <1>2, <1>3, Zenon DEF WithinTurnBudget, BlockedOnlyWhenFull, itemVars, runVars
<1>5. QED
  BY <1>1, <1>2, <1>4, Zenon DEF ItemsInv

\* The receipts already name the message.
LEMMA SendDedupedInv == ASSUME HubInv, NEW s \in Sender, SendDeduped(s) PROVE HubInv'
<1> USE HubAssumption DEF HubInv, SendDeduped, All
<1> DEFINE m == MsgOf[s]
<1>1. /\ m \in Msg /\ st[m] = "none" /\ m \in delivered /\ m # Wrap
      /\ st' = [st EXCEPT ![m] = "delivered"] /\ ~finished /\ ~finished'
  BY Zenon DEF Known, Admissible, runVars
<1>2. TypeOK'
  <2>1. items' \in Seq(All)
    BY <1>1 DEF TypeOK
  <2>2. st' \in [All -> {"none", "accepted", "delivered", "failed"}]
    BY <1>1 DEF TypeOK
  <2>3. owner' \in [All -> Sender \cup {NoSender}]
    BY Zenon DEF TypeOK
  <2>4. /\ pc' \in [Sender -> {"idle", "ready", "waiting", "done"}]
        /\ res' \in [Sender -> {"none", "ok", "error"}]
    BY Zenon DEF TypeOK, Return
  <2>5. QED
    BY <2>1, <2>2, <2>3, <2>4, Zenon DEF TypeOK, deliveryVars, runVars
<1>3. \A x : InItems(x)' <=> InItems(x) \/ x = m
  BY <1>1, ItemsGrow, Zenon DEF TypeOK
<1>4. Consistent'
  BY <1>1, <1>3, Zenon DEF Consistent, TypeOK, runVars
<1>5. SealedMeansSettled' /\ DeliveredOnce' /\ WithinTurnBudget'
  <2>1. \A x \in All : x = m \/ st'[x] = st[x]
    BY <1>1, Zenon DEF TypeOK
  <2>2. DeliveredOnce'
    BY <1>1, <2>1, DeliveryKept DEF TypeOK
  <2>3. QED
    BY <1>1, <2>2, Zenon DEF SealedMeansSettled, WithinTurnBudget, runVars
<1>6. Pending' = Pending /\ Fresh' \subseteq Fresh
  BY <1>1, <1>3 DEF Pending, Fresh, TypeOK
<1>7. Waiting' \subseteq Waiting
  BY Zenon DEF Waiting, Return, TypeOK
<1>8. FreshPendingBounded' /\ BlockedOnlyWhenFull'
  <2>1. turns' = turns /\ turns' \in Nat
    BY Zenon DEF runVars, TypeOK
  <2>2. turns' >= turns
    BY <2>1, StillNotLess, Zenon
  <2>3. QED
    BY <1>6, <1>7, <2>1, <2>2, FreshShrinks, BlockedStays, Zenon
<1>9. QED
  BY <1>2, <1>4, <1>5, <1>8, Zenon

\* Admission appends a pending message and takes a place of the queue.
LEMMA SendAdmittedInv == ASSUME HubInv, NEW s \in Sender, SendAdmitted(s) PROVE HubInv'
<1> USE HubAssumption DEF HubInv, SendAdmitted, All
<1> DEFINE m == MsgOf[s]
<1>1. /\ m \in Msg /\ st[m] = "none" /\ m \notin delivered /\ m # Wrap
      /\ st' = [st EXCEPT ![m] = "accepted"] /\ ~finished /\ ~finished'
      /\ m # Start
  BY Zenon DEF Known, Admissible, runVars, Consistent
<1>2. TypeOK'
  <2>1. items' \in Seq(All)
    BY <1>1 DEF TypeOK
  <2>2. st' \in [All -> {"none", "accepted", "delivered", "failed"}]
    BY <1>1 DEF TypeOK
  <2>3. owner' \in [All -> Sender \cup {NoSender}]
    BY Zenon DEF TypeOK
  <2>4. /\ pc' \in [Sender -> {"idle", "ready", "waiting", "done"}]
        /\ res' \in [Sender -> {"none", "ok", "error"}]
    BY Zenon DEF TypeOK, Notified
  <2>5. QED
    BY <2>1, <2>2, <2>3, <2>4, Zenon DEF TypeOK, deliveryVars, runVars
<1>3. \A x : InItems(x)' <=> InItems(x) \/ x = m
  BY <1>1, ItemsGrow, Zenon DEF TypeOK
<1>4. Consistent'
  BY <1>1, <1>3, Zenon DEF Consistent, TypeOK, runVars
<1>5. SealedMeansSettled' /\ DeliveredOnce' /\ WithinTurnBudget'
  <2>1. \A x \in All : x = m \/ st'[x] = st[x]
    BY <1>1, Zenon DEF TypeOK
  <2>2. DeliveredOnce'
    BY <1>1, <2>1, DeliveryKept, Zenon DEF TypeOK
  <2>3. QED
    BY <1>1, <2>2, Zenon DEF SealedMeansSettled, WithinTurnBudget, runVars
<1>6. FreshPendingBounded'
  <2>1. Fresh' \subseteq Pending \cup {m}
    BY <1>1, <1>3, Zenon DEF Fresh, Pending, TypeOK
  <2>2. /\ IsFiniteSet(Pending \cup {m})
        /\ Cardinality(Pending \cup {m}) <= Cardinality(Pending) + 1
    <3>1. Cardinality(Pending \cup {m})
            = IF m \in Pending THEN Cardinality(Pending) ELSE Cardinality(Pending) + 1
      BY PendingFinite, FS_AddElement, Zenon
    <3>2. QED
      BY <3>1, PendingFinite, FS_AddElement
  <2>3. Cardinality(Pending) + 1 <= MaxPending
    BY PendingFinite DEF HasRoom
  <2>4. /\ IsFiniteSet(Fresh') /\ Cardinality(Fresh') <= Cardinality(Pending \cup {m})
        /\ Cardinality(Fresh') \in Nat /\ Cardinality(Pending \cup {m}) \in Nat
    BY <2>1, <2>2, FS_Subset, FS_CardinalityType, Zenon
  <2>5. QED
    BY <2>2, <2>3, <2>4, PendingFinite DEF FreshPendingBounded
<1>7. Waiting' = {}
  BY Zenon DEF Waiting, Notified, TypeOK
<1>8. BlockedOnlyWhenFull'
  <2>1. turns' = turns /\ turns' \in Nat
    BY Zenon DEF runVars, TypeOK
  <2>2. turns' >= turns
    BY <2>1, StillNotLess, Zenon
  <2>3. QED
    BY <1>7, <2>1, <2>2, BlockedStays, Zenon
<1>9. QED
  BY <1>2, <1>4, <1>5, <1>6, <1>8, Zenon

\* Contexts end, Driver.Run starts and returns, a turn completes.
LEMMA ContextInv ==
  ASSUME HubInv, ContextDone \/ \E s \in Sender : SenderExpires(s)
  PROVE  HubInv'
<1> USE HubAssumption DEF HubInv
<1>1. /\ UNCHANGED <<itemVars, deliveryVars, runVars, sendVars>>
      /\ ctxDone' \in BOOLEAN /\ expired' \subseteq Sender
  BY Zenon DEF ContextDone, SenderExpires, TypeOK
<1>2. TypeOK'
  BY <1>1, Zenon DEF TypeOK, itemVars, deliveryVars, runVars, sendVars
<1>3. ItemsInv' /\ Pending' = Pending
  BY <1>1, ItemsAlone, Zenon DEF runVars
<1>4. WithinTurnBudget' /\ BlockedOnlyWhenFull'
  BY <1>1, <1>3, Zenon DEF WithinTurnBudget, BlockedOnlyWhenFull, itemVars, runVars, sendVars
<1>5. QED
  BY <1>2, <1>3, <1>4, Zenon DEF ItemsInv

\* The driver's dispatch and return move the stage alone.
LEMMA StageInv == ASSUME HubInv, StartDriver \/ DriverReturns PROVE HubInv'
<1> USE HubAssumption DEF HubInv
<1>1. /\ UNCHANGED <<itemVars, deliveryVars, finished, cancelled, turns, warned,
                     cap, prompt, ctxDone, expired, sendVars>>
      /\ stage' \in {"run", "between"}
  BY Zenon DEF StartDriver, DriverReturns
<1>2. TypeOK'
  BY <1>1, Zenon DEF TypeOK, itemVars, deliveryVars, sendVars
<1>3. ItemsInv' /\ Pending' = Pending
  BY <1>1, ItemsAlone, Zenon
<1>4. WithinTurnBudget' /\ BlockedOnlyWhenFull'
  BY <1>1, <1>3, Zenon DEF WithinTurnBudget, BlockedOnlyWhenFull, itemVars, sendVars
<1>5. QED
  BY <1>2, <1>3, <1>4, Zenon DEF ItemsInv

\* A completed turn is within the budget the claim was made in.
LEMMA CompleteTurnInv ==
  ASSUME HubInv, NEW ok \in BOOLEAN, CompleteTurn(ok)
  PROVE  HubInv'
<1> USE HubAssumption DEF HubInv, CompleteTurn
<1>1. warned' \in BOOLEAN
  BY Zenon DEF TypeOK
<1>2. turns' \in Nat /\ turns' = turns + 1 /\ turns' <= MaxTurns
  BY DEF TypeOK
<1>3. TypeOK'
  BY <1>1, <1>2, Zenon DEF TypeOK, itemVars, deliveryVars, sendVars
<1>4. ItemsInv' /\ Pending' = Pending
  BY ItemsAlone, Zenon
<1>5. WithinTurnBudget'
  <2>1. \A m \in All : turnOf'[m] \in Nat /\ turnOf'[m] <= MaxTurns /\ turnOf'[m] <= turns + 2
    BY DEF WithinTurnBudget, itemVars, TypeOK
  <2>2. \A x, y \in Nat : x <= y + 2 => x <= (y + 1) + 2
    OBVIOUS
  <2>3. turns \in Nat
    BY Zenon DEF TypeOK
  <2>4. QED
    BY <1>2, <2>1, <2>2, <2>3, Zenon DEF WithinTurnBudget
<1>6. BlockedOnlyWhenFull'
  <2>1. turns' >= turns
    BY <1>2 DEF TypeOK
  <2>2. Waiting' = Waiting
    BY Zenon DEF Waiting, sendVars
  <2>3. QED
    BY <1>2, <1>4, <2>1, <2>2, BlockedStays, Zenon
<1>7. QED
  BY <1>3, <1>4, <1>5, <1>6, Zenon DEF ItemsInv

\* An idle hub seals with nothing to settle.
LEMMA CloseIfIdleInv == ASSUME HubInv, CloseIfIdle PROVE HubInv'
<1> USE HubAssumption DEF HubInv, CloseIfIdle
<1>1. TypeOK'
  BY Zenon DEF TypeOK, Notify, Notified, itemVars, deliveryVars
<1>2. ItemsInv' /\ Pending' = Pending
  BY ItemsAlone, Zenon
<1>3. WithinTurnBudget' /\ BlockedOnlyWhenFull'
  BY NotifyWakes, Woken, Zenon DEF itemVars
<1>4. QED
  BY <1>1, <1>2, <1>3, Zenon DEF ItemsInv

\* Steps that fail messages.
LEMMA WithdrawInv == ASSUME HubInv, NEW m \in Msg, Withdraw(m) PROVE HubInv'
<1> USE HubAssumption DEF HubInv, Withdraw, Fail, All
<1>1. m \in Pending /\ st[m] = "accepted"
  BY Zenon DEF Pending
<1>2. TypeOK'
  BY Zenon DEF TypeOK, Notify, Notified, Reasons, deliveryVars, runVars
<1>3. ItemsInv'
  <2>1. {m} \in SUBSET {x \in All : st[x] = "accepted"}
    BY <1>1, Zenon
  <2>2. claimed' \in [All -> BOOLEAN]
    BY Zenon DEF TypeOK
  <2>3. QED
    BY <2>1, <2>2, Failing, Zenon DEF runVars
<1>4. WithinTurnBudget' /\ BlockedOnlyWhenFull'
  BY NotifyWakes, Woken, Zenon DEF runVars
<1>5. QED
  BY <1>2, <1>3, <1>4, Zenon DEF ItemsInv

\* Cancellation fails what is pending and leaves claims to the driver.
LEMMA CancelPendingInv == ASSUME HubInv, CancelPending PROVE HubInv'
<1> USE HubAssumption DEF HubInv, CancelPending, Fail, All
<1>1. Pending \subseteq {m \in All : st[m] = "accepted"}
  BY Zenon DEF Pending
<1>2. TypeOK'
  BY Zenon DEF TypeOK, Notify, Notified, Reasons, deliveryVars
<1>3. ItemsInv'
  BY <1>1, Failing, Zenon DEF TypeOK
<1>4. WithinTurnBudget' /\ BlockedOnlyWhenFull'
  BY NotifyWakes, Woken, Zenon
<1>5. QED
  BY <1>2, <1>3, <1>4, Zenon DEF ItemsInv

\* The seal settles everything that is left.
LEMMA FinishInv ==
  ASSUME HubInv, NEW r \in Reasons, Finish(r)
  PROVE  HubInv'
<1> USE HubAssumption DEF HubInv, Finish, Fail, All
<1>1. Unsettled \subseteq {m \in All : st[m] = "accepted"}
  BY Zenon DEF Unsettled
<1>2. TypeOK'
  BY Zenon DEF TypeOK, Notify, Notified, deliveryVars
<1>3. ItemsInv'
  BY <1>1, Failing, Zenon DEF TypeOK
<1>4. WithinTurnBudget' /\ BlockedOnlyWhenFull'
  BY NotifyWakes, Woken, Zenon
<1>5. QED
  BY <1>2, <1>3, <1>4, Zenon DEF ItemsInv

\* The resolved capability changes what later claims may take.
LEMMA SetCapabilityInv ==
  ASSUME HubInv, NEW c \in ResolvedCaps, SetCapability(c)
  PROVE  HubInv'
<1> USE HubAssumption DEF HubInv, SetCapability, Fail, All
<1> DEFINE bad == {m \in Pending \ {Start} : Dead(m) \/ Invalid(m, Units(m), c)}
<1>1. bad \in SUBSET {m \in All : st[m] = "accepted"}
  BY Zenon DEF Pending
<1>2. st' = [m \in All |-> IF m \in bad THEN "failed" ELSE st[m]]
  BY Zenon
<1>3. reason' \in [All -> Reasons]
  BY Zenon DEF TypeOK, Reasons
<1> HIDE DEF bad
<1>4. TypeOK'
  BY <1>2, <1>3, Zenon DEF TypeOK, Notify, Notified, deliveryVars
<1>5. ItemsInv'
  BY <1>1, <1>2, Failing, Zenon DEF TypeOK
<1>6. WithinTurnBudget' /\ BlockedOnlyWhenFull'
  BY NotifyWakes, Woken, Zenon
<1>7. QED
  BY <1>4, <1>5, <1>6, Zenon DEF ItemsInv

\* The claim that finds no turn left drops what expired and wakes nobody.
LEMMA ClaimAtTurnLimitInv ==
  ASSUME HubInv, NEW b, ClaimAtTurnLimit(b)
  PROVE  HubInv'
<1> USE HubAssumption DEF HubInv, ClaimAtTurnLimit, All
<1> DEFINE F == ClaimDead(b) \cup ClaimTooLarge(b)
<1>1. F \in SUBSET {m \in All : st[m] = "accepted"}
  BY ClaimTouchesPending, Zenon DEF Pending
<1>2. st' = [m \in All |-> IF m \in F THEN "failed" ELSE st[m]]
  BY Zenon DEF ClaimFailures, Fail
<1>3. reason' \in [All -> Reasons]
  BY Zenon DEF ClaimFailures, Fail, TypeOK, Reasons
<1> HIDE DEF F
<1>4. TypeOK'
  BY <1>2, <1>3, Zenon DEF TypeOK, deliveryVars, runVars, sendVars
<1>5. ItemsInv'
  BY <1>1, <1>2, Failing, Zenon DEF TypeOK, runVars
<1>6. WithinTurnBudget' /\ BlockedOnlyWhenFull'
  BY Zenon DEF WithinTurnBudget, BlockedOnlyWhenFull, PastTurnLimit, runVars, TypeOK
<1>7. QED
  BY <1>4, <1>5, <1>6, Zenon DEF ItemsInv

\* A failure is acknowledged for a claimed message only.
LEMMA AckFailedInv ==
  ASSUME HubInv, NEW m \in All, AckFailed(m) \/ PromptFailed(m)
  PROVE  HubInv'
<1> USE HubAssumption DEF HubInv, All
<1>1. /\ Outstanding(m) /\ Release(m) /\ Notify
      /\ UNCHANGED <<items, turnOf, endOnly, dup, owner, deliveryVars, runVars,
                     ctxDone, expired>>
  BY Zenon DEF AckFailed, PromptFailed
<1>2. st' = [x \in All |-> IF x \in {m} THEN "failed" ELSE st[x]]
  BY Zenon DEF AckFailed, PromptFailed, Fail
<1>3. reason' \in [All -> Reasons]
  BY Zenon DEF AckFailed, PromptFailed, Fail, TypeOK, Reasons
<1>4. /\ claimed' \in [All -> BOOLEAN]
      /\ \A x \in All : /\ claimed'[x] => claimed[x]
                        /\ x \notin {m} => claimed'[x] = claimed[x]
  BY <1>1, Zenon DEF Release, TypeOK
<1>5. {m} \in SUBSET {x \in All : st[x] = "accepted"}
  BY <1>1, Zenon DEF Outstanding
<1>6. TypeOK'
  BY <1>1, <1>2, <1>3, <1>4, Zenon DEF TypeOK, Notify, Notified, deliveryVars, runVars
<1>7. ItemsInv'
  BY <1>1, <1>2, <1>4, <1>5, Failing, Zenon DEF runVars
<1>8. WithinTurnBudget' /\ BlockedOnlyWhenFull'
  BY <1>1, NotifyWakes, Woken, Zenon DEF runVars
<1>9. QED
  BY <1>6, <1>7, <1>8, Zenon DEF ItemsInv

\* The prompt is claimed from the first moment, so it never counts as pending.
LEMMA AckStartInv ==
  ASSUME HubInv, NEW ok \in BOOLEAN, AckStart(ok)
  PROVE  HubInv'
<1> USE HubAssumption DEF HubInv, All
<1>1. /\ Outstanding(Start) /\ Release(Start)
      /\ UNCHANGED <<items, turnOf, endOnly, dup, owner, runVars, ctxDone,
                     expired, sendVars>>
  BY Zenon DEF AckStart
<1>2. claimed' \in [All -> BOOLEAN] /\ st[Start] = "accepted"
  BY <1>1, Zenon DEF Release, Outstanding, TypeOK
<1>3. /\ \A x \in All \ {Start} : st'[x] = st[x] /\ claimed'[x] = claimed[x]
      /\ st'[Start] # "accepted"
  BY <1>1 DEF AckStart, Deliver, Fail, Release, TypeOK
<1>4. Pending' = Pending
  BY <1>1, <1>3, Zenon DEF Pending, Outstanding, InItems, TypeOK
<1>5. WithinTurnBudget' /\ BlockedOnlyWhenFull'
  BY <1>1, <1>4, Zenon DEF WithinTurnBudget, BlockedOnlyWhenFull, runVars, sendVars
<1>6. CASE ok
  <2>1. Deliver(Start) /\ UNCHANGED reason
    BY <1>6, Zenon DEF AckStart
  <2>2. receipts' \in Seq(Msg \cup {Wrap})
    BY <2>1 DEF Deliver, TypeOK
  <2>3. TypeOK'
    BY <1>1, <1>2, <2>1, <2>2, Zenon DEF TypeOK, Deliver, runVars, sendVars
  <2>4. ItemsInv'
    BY <1>1, <2>1, Delivering, Zenon DEF runVars
  <2>5. QED
    BY <1>5, <2>3, <2>4, Zenon DEF ItemsInv
<1>7. CASE ~ok
  <2>1. /\ st' = [x \in All |-> IF x \in {Start} THEN "failed" ELSE st[x]]
        /\ reason' \in [All -> Reasons] /\ UNCHANGED deliveryVars
    BY <1>7 DEF AckStart, Fail, TypeOK, Reasons
  <2>2. TypeOK'
    BY <1>1, <1>2, <2>1, Zenon DEF TypeOK, deliveryVars, runVars, sendVars
  <2>3. \A x \in All : /\ claimed'[x] => claimed[x]
                       /\ x \notin {Start} => claimed'[x] = claimed[x]
    BY <1>1, Zenon DEF Release, Outstanding, TypeOK
  <2>4. {Start} \in SUBSET {x \in All : st[x] = "accepted"}
    BY <1>2, Zenon
  <2>5. ItemsInv'
    BY <1>1, <1>2, <2>1, <2>3, <2>4, Failing, Zenon DEF runVars
  <2>6. QED
    BY <1>5, <2>2, <2>5, Zenon DEF ItemsInv
<1>8. QED
  BY <1>6, <1>7, Zenon

\* A delivery is acknowledged once and its receipt appended once.
LEMMA AckDeliveredInv == ASSUME HubInv, NEW m \in All, AckDelivered(m) PROVE HubInv'
<1> USE HubAssumption DEF HubInv, AckDelivered
<1>1. items' \in Seq(All) /\ receipts' \in Seq(All)
  BY DEF Deliver, TypeOK
<1>2. TypeOK'
  BY <1>1, Zenon DEF TypeOK, Deliver, Release, Notify, Notified, runVars
<1>3. ItemsInv'
  BY Delivering, Zenon DEF runVars
<1>4. WithinTurnBudget' /\ BlockedOnlyWhenFull'
  BY NotifyWakes, Woken, Zenon DEF runVars
<1>5. QED
  BY <1>2, <1>3, <1>4, Zenon DEF ItemsInv

\* A requeued message is pending again, but for the end of a turn only.
LEMMA AckRequeuedInv ==
  ASSUME HubInv, NEW m \in All \ {Start}, NEW d \in BOOLEAN, AckRequeued(m, d)
  PROVE  HubInv'
<1> USE HubAssumption DEF HubInv, AckRequeued, Release, Outstanding, All
<1>1. TypeOK'
  BY Zenon DEF TypeOK, Notify, Notified, deliveryVars, runVars
<1>2. \A x : InItems(x)' <=> InItems(x)
  BY Zenon DEF InItems
<1>3. Consistent'
  BY <1>2, Zenon DEF Consistent, TypeOK, runVars
<1>4. SealedMeansSettled' /\ DeliveredOnce'
  <2>1. SealedMeansSettled'
    BY <1>2, Zenon DEF SealedMeansSettled, Unsettled, runVars
  <2>2. QED
    BY <2>1, DeliveryKept, Zenon
<1>5. Fresh' \subseteq Fresh
  BY <1>2, Zenon DEF Fresh, Pending, TypeOK
<1>6. WithinTurnBudget' /\ BlockedOnlyWhenFull'
  BY NotifyWakes, Woken, Zenon DEF runVars
<1>7. QED
  BY <1>1, <1>3, <1>4, <1>5, <1>6, FreshShrinks, Zenon

\* A claim takes pending messages and wakes the blocked calls.
LEMMA ClaimBatchInv ==
  ASSUME HubInv, NEW b, ClaimBatch(b), prompt' \subseteq All, stage # "prepare"
  PROVE  HubInv'
<1> USE HubAssumption DEF HubInv, All
<1> DEFINE taken == Taken(b)
           lost == ClaimDead(b) \cup ClaimTooLarge(b)
           turn == ClaimTurn(b)
<1>1. /\ claimed' = [m \in All |-> claimed[m] \/ m \in taken]
      /\ turnOf' = [m \in All |-> IF m \in taken THEN turn ELSE turnOf[m]]
      /\ st' = [m \in All |-> IF m \in lost THEN "failed"
                              ELSE IF m \in taken THEN "accepted" ELSE st[m]]
      /\ reason' = [m \in All |-> IF m \in ClaimDead(b) THEN "cancelled"
                                  ELSE IF m \in ClaimTooLarge(b) THEN "refused"
                                  ELSE reason[m]]
      /\ Notify
      /\ UNCHANGED <<items, endOnly, dup, owner, deliveryVars, finished,
                     cancelled, turns, warned, cap, stage, ctxDone, expired>>
      /\ ~finished
  BY Zenon DEF ClaimBatch, ClaimOpen
<1>2. turn \in 0 .. MaxTurns /\ turn <= turns + 2
  BY ClaimTurnBounded, Zenon DEF ClaimBatch
<1>3. /\ lost \subseteq Pending /\ taken \subseteq Pending \cup {Wrap}
      /\ lost \cap taken = {}
      /\ Wrap \in taken => st[Wrap] = "none" \/ (st[Wrap] = "accepted" /\ ~claimed[Wrap])
  BY ClaimTouchesPending, Zenon DEF Known
<1>4. reason' \in [All -> Reasons]
  BY <1>1, Zenon DEF TypeOK, Reasons
<1> HIDE DEF taken, lost, turn
<1>5. TypeOK'
  BY <1>1, <1>2, <1>4, Zenon DEF TypeOK, Notify, Notified, deliveryVars
<1>6. \A m \in Pending : m \in Msg /\ InItems(m) /\ st[m] = "accepted" /\ ~claimed[m]
  BY Zenon DEF Pending
<1>7. \A x : InItems(x)' <=> InItems(x)
  BY <1>1, Zenon DEF InItems
<1>8. Consistent'
  <2>1. \A m \in Msg : InItems(m)' <=> st'[m] # "none"
    BY <1>1, <1>3, <1>6, <1>7, Zenon DEF Consistent, TypeOK
  <2>2. InItems(Wrap)' <=> st'[Wrap] = "delivered"
    BY <1>1, <1>3, <1>6, <1>7, Zenon DEF Consistent, TypeOK
  <2>3. st'[Start] # "none" /\ (st'[Start] = "accepted" => claimed'[Start])
    BY <1>1, <1>3, <1>6, Zenon DEF Consistent, TypeOK
  <2>4. \A m \in All : st'[m] = "none" => ~claimed'[m]
    BY <1>1, <1>3, <1>6, Zenon DEF Consistent, TypeOK
  <2>5. QED
    BY <1>1, <2>1, <2>2, <2>3, <2>4, Zenon DEF Consistent
<1>9. SealedMeansSettled'
  BY <1>1, Zenon DEF SealedMeansSettled
<1>10. DeliveredOnce'
  <2>1. \A m \in Pending : m \notin delivered
    BY <1>6, Zenon DEF DeliveredOnce
  <2>2. Wrap \in taken => Wrap \notin delivered
    BY <1>3, Zenon DEF DeliveredOnce
  <2>3. \A x \in All : \/ st'[x] = st[x]
                       \/ x \notin delivered /\ st'[x] # "delivered"
    BY <1>1, <1>3, <2>1, <2>2, Zenon
  <2>4. QED
    BY <1>1, <2>3, DeliveryKept, Zenon
<1>11. Fresh' \subseteq Fresh
  BY <1>1, <1>3, <1>6, <1>7, Zenon DEF Fresh, Pending, TypeOK
<1>12. WithinTurnBudget'
  <2>1. \A m \in All : turnOf'[m] = turn \/ turnOf'[m] = turnOf[m]
    BY <1>1, Zenon
  <2>2. turn <= MaxTurns /\ turn <= turns + 2
    BY <1>2
  <2>3. QED
    BY <1>1, <2>1, <2>2, Zenon DEF WithinTurnBudget
<1>13. BlockedOnlyWhenFull'
  BY <1>1, NotifyWakes, Zenon DEF BlockedOnlyWhenFull, Waiting
<1>14. QED
  BY <1>5, <1>8, <1>9, <1>10, <1>11, <1>12, <1>13, FreshShrinks, Zenon

\* Joining two repetition-free sequences over disjoint sets.
LEMMA ConcatDistinct ==
  ASSUME NEW S, NEW p \in Seq(S), NEW q \in Seq(S),
         \A i, j \in DOMAIN p : p[i] = p[j] => i = j,
         \A i, j \in DOMAIN q : q[i] = q[j] => i = j,
         \A i \in DOMAIN p, j \in DOMAIN q : p[i] # q[j]
  PROVE  /\ p \o q \in Seq(S)
         /\ \A i, j \in DOMAIN (p \o q) : (p \o q)[i] = (p \o q)[j] => i = j
         /\ \A x : (\E i \in DOMAIN (p \o q) : (p \o q)[i] = x)
                     <=> (\E i \in DOMAIN p : p[i] = x) \/ (\E i \in DOMAIN q : q[i] = x)
<1> DEFINE m == Len(p)
           n == Len(q)
           r == p \o q
<1>1. /\ m \in Nat /\ n \in Nat /\ DOMAIN p = 1 .. m /\ DOMAIN q = 1 .. n
      /\ r \in Seq(S) /\ DOMAIN r = 1 .. m + n
      /\ \A i \in 1 .. m + n : r[i] = IF i <= m THEN p[i] ELSE q[i - m]
  <2>1. m \in Nat /\ n \in Nat /\ DOMAIN p = 1 .. m /\ DOMAIN q = 1 .. n
    OBVIOUS
  <2>2. r \in Seq(S) /\ DOMAIN r = 1 .. m + n
    OBVIOUS
  <2>3. \A i \in 1 .. m + n : r[i] = IF i <= m THEN p[i] ELSE q[i - m]
    OBVIOUS
  <2>4. QED
    BY <2>1, <2>2, <2>3, Zenon
<1> HIDE DEF m, n, r
<1>2. \A i \in 1 .. m + n : \/ i \in 1 .. m /\ r[i] = p[i]
                            \/ /\ i - m \in 1 .. n /\ r[i] = q[i - m]
                               /\ ~(i <= m)
  BY <1>1
<1>3. \A i, j \in DOMAIN r : r[i] = r[j] => i = j
  <2> SUFFICES ASSUME NEW i \in 1 .. m + n, NEW j \in 1 .. m + n, r[i] = r[j]
               PROVE  i = j
    BY <1>1, Zenon
  <2>1. CASE i \in 1 .. m /\ j \in 1 .. m
    BY <1>1, <2>1
  <2>2. CASE ~(i <= m) /\ ~(j <= m)
    <3>1. i - m \in DOMAIN q /\ j - m \in DOMAIN q /\ q[i - m] = q[j - m]
      BY <1>1, <1>2, <2>2
    <3>2. i - m = j - m
      BY <3>1, Zenon
    <3>3. QED
      BY <1>1, <3>2
  <2>3. CASE i \in 1 .. m /\ ~(j <= m)
    <3>1. r[i] = p[i] /\ j - m \in 1 .. n /\ r[j] = q[j - m]
      BY <1>1, <1>2, <2>3
    <3>2. QED
      BY <1>1, <2>3, <3>1, Zenon
  <2>4. CASE j \in 1 .. m /\ ~(i <= m)
    <3>1. r[j] = p[j] /\ i - m \in 1 .. n /\ r[i] = q[i - m]
      BY <1>1, <1>2, <2>4
    <3>2. QED
      BY <1>1, <2>4, <3>1, Zenon
  <2>5. QED
    BY <1>1, <2>1, <2>2, <2>3, <2>4
<1>4. \A i \in DOMAIN r : (\E k \in DOMAIN p : r[i] = p[k]) \/ (\E k \in DOMAIN q : r[i] = q[k])
  BY <1>1, <1>2, Zenon
<1>5. \A k \in DOMAIN p : k \in DOMAIN r /\ r[k] = p[k]
  BY <1>1
<1>6. \A k \in DOMAIN q : k + m \in DOMAIN r /\ r[k + m] = q[k]
  <2> SUFFICES ASSUME NEW k \in 1 .. n PROVE k + m \in DOMAIN r /\ r[k + m] = q[k]
    BY <1>1, Zenon
  <2>1. k + m \in 1 .. m + n /\ ~(k + m <= m) /\ (k + m) - m = k
    BY <1>1
  <2>2. QED
    BY <1>1, <2>1, Zenon
<1>7. \A x : (\E i \in DOMAIN r : r[i] = x)
               <=> (\E i \in DOMAIN p : p[i] = x) \/ (\E i \in DOMAIN q : q[i] = x)
  BY <1>4, <1>5, <1>6
<1>8. QED
  BY <1>1, <1>3, <1>7, Zenon DEF r

\* Appending an enumeration of a disjoint set.
LEMMA SetAppended ==
  ASSUME NEW S, NEW p \in Seq(S), NEW N \in SUBSET S, IsFiniteSet(N),
         NEW D, D \cap N = {}, NoRepeats(p), Enumerates(p, D)
  PROVE  /\ p \o InSomeOrder(N) \in Seq(S)
         /\ NoRepeats(p \o InSomeOrder(N)) /\ Enumerates(p \o InSomeOrder(N), D \cup N)
<1> DEFINE q == InSomeOrder(N)
<1>1. q \in Seq(N) /\ NoRepeats(q) /\ Enumerates(q, N)
  BY OrderEnumerates, Zenon
<1> HIDE DEF q
<1>2. q \in Seq(S)
  BY <1>1
<1>3. \A i \in DOMAIN p, j \in DOMAIN q : p[i] # q[j]
  BY <1>1, Zenon DEF Enumerates
<1>4. /\ p \o q \in Seq(S)
      /\ \A i, j \in DOMAIN (p \o q) : (p \o q)[i] = (p \o q)[j] => i = j
      /\ \A x : (\E i \in DOMAIN (p \o q) : (p \o q)[i] = x)
                  <=> (\E i \in DOMAIN p : p[i] = x) \/ (\E i \in DOMAIN q : q[i] = x)
  BY <1>1, <1>2, <1>3, ConcatDistinct, Zenon DEF NoRepeats
<1>5. NoRepeats(p \o q) /\ Enumerates(p \o q, D \cup N)
  BY <1>1, <1>4, Zenon DEF NoRepeats, Enumerates
<1>6. QED
  BY <1>4, <1>5, Zenon DEF q

\* Receipts of the Thread meet messages admitted before they were read.
LEMMA LoadInv == ASSUME HubInv, Load PROVE HubInv'
<1> USE HubAssumption DEF HubInv, All
<1> DEFINE met == AlreadyDelivered
           new == Durable \ delivered
<1>1. /\ stage = "prepare" /\ ~finished /\ Notify
      /\ delivered' = delivered \cup Durable
      /\ receipts' = receipts \o InSomeOrder(new)
      /\ st' = [m \in All |-> IF m \in met THEN "delivered" ELSE st[m]]
      /\ claimed' = [m \in All |-> claimed[m] /\ m \notin met]
      /\ turnOf' = [m \in All |-> IF m \in met THEN 0 ELSE turnOf[m]]
      /\ UNCHANGED <<items, reason, endOnly, dup, owner, runVars, ctxDone, expired>>
  BY Zenon DEF Load
<1>2. \A m \in met : /\ m \in Msg /\ InItems(m) /\ st[m] = "accepted"
                     /\ m \in Durable \cup delivered
  BY Zenon DEF AlreadyDelivered
<1>3. \A m \in Durable : st[m] = "accepted" => m \in met
  <2> SUFFICES ASSUME NEW m \in Durable, st[m] = "accepted" PROVE m \in met
    BY Zenon
  <2>1. InItems(m) /\ m \in Msg
    BY Zenon DEF Consistent
  <2>2. claimed[m] => m = Start
    BY <1>1, Zenon DEF Consistent
  <2>3. QED
    BY <2>1, <2>2, Zenon DEF AlreadyDelivered
<1>4. IsFiniteSet(new)
  BY FS_Subset, Zenon
<1>5. /\ receipts' \in Seq(All)
      /\ \A i, j \in DOMAIN receipts' : receipts'[i] = receipts'[j] => i = j
      /\ delivered' = {receipts'[i] : i \in DOMAIN receipts'}
  <2>1. /\ receipts \in Seq(All) /\ new \in SUBSET All
        /\ NoRepeats(receipts)
    BY Zenon DEF TypeOK, DeliveredOnce, NoRepeats
  <2>2. Enumerates(receipts, delivered)
    BY Zenon DEF DeliveredOnce, Enumerates
  <2>3. delivered' = delivered \cup new /\ delivered \cap new = {}
    BY <1>1, Zenon
  <2>4. receipts' = receipts \o InSomeOrder(new)
    BY <1>1, Zenon
  <2> HIDE DEF new
  <2>5. receipts' \in Seq(All) /\ NoRepeats(receipts') /\ Enumerates(receipts', delivered')
    <3> HIDE HubAssumption DEF HubInv, All
    <3>1. QED
      BY <1>4, <2>1, <2>2, <2>3, <2>4, SetAppended, Zenon
  <2>6. QED
    BY <2>5 DEF NoRepeats, Enumerates
<1> HIDE DEF met, new
<1>6. TypeOK'
  <2>1. /\ st' \in [All -> {"none", "accepted", "delivered", "failed"}]
        /\ claimed' \in [All -> BOOLEAN]
    BY <1>1, Zenon DEF TypeOK
  <2>2. turnOf' \in [All -> 0 .. MaxTurns]
    BY <1>1 DEF TypeOK
  <2>3. pc' \in [Sender -> {"idle", "ready", "waiting", "done"}] /\ res' = res
    BY <1>1, Zenon DEF TypeOK, Notify, Notified
  <2>4. delivered' \subseteq All
    BY <1>1, Zenon DEF TypeOK
  <2>5. QED
    BY <1>1, <1>5, <2>1, <2>2, <2>3, <2>4, Zenon DEF TypeOK, runVars
<1>7. \A x : InItems(x)' <=> InItems(x)
  BY <1>1, Zenon DEF InItems
<1>8. Consistent'
  BY <1>1, <1>2, <1>7, Zenon DEF Consistent, TypeOK, runVars
<1>9. SealedMeansSettled'
  BY <1>1, Zenon DEF SealedMeansSettled, runVars
<1>10. DeliveredOnce'
  <2>1. \A m \in All : /\ st'[m] = "delivered" => m \in delivered'
                       /\ m \in delivered' => st'[m] # "accepted"
                       /\ m \in delivered' \ Durable => st'[m] = "delivered"
    BY <1>1, <1>2, <1>3, Zenon DEF DeliveredOnce, TypeOK
  <2>2. QED
    BY <1>1, <1>5, <2>1, Zenon DEF DeliveredOnce
<1>11. Fresh' \subseteq Fresh
  BY <1>1, <1>7, Zenon DEF Fresh, Pending, TypeOK
<1>12. WithinTurnBudget'
  <2>1. \A m \in All : turnOf'[m] = 0 \/ turnOf'[m] = turnOf[m]
    BY <1>1, Zenon
  <2>2. 0 <= MaxTurns /\ 0 <= turns + 2 /\ turns' = turns
    BY <1>1 DEF TypeOK, runVars
  <2>3. QED
    BY <2>1, <2>2, Zenon DEF WithinTurnBudget
<1>13. BlockedOnlyWhenFull'
  BY <1>1, NotifyWakes, Zenon DEF BlockedOnlyWhenFull, Waiting
<1>14. QED
  BY <1>6, <1>8, <1>9, <1>10, <1>11, <1>12, <1>13, FreshShrinks, Zenon

-----------------------------------------------------------------------------
(* The invariant, and what it says of every execution. *)

\* The carried messages, then the prompt.
LEMMA InitItems ==
  ASSUME items = InSomeOrder(Carried) \o <<Start>>
  PROVE  /\ items \in Seq(All)
         /\ \A x : InItems(x) <=> x \in Carried \/ x = Start
<1> DEFINE q == InSomeOrder(Carried)
<1>1. IsFiniteSet(Carried) /\ Carried \subseteq Msg /\ Start \in Msg
  BY HubAssumption, FS_Subset, Zenon
<1>2. q \in Seq(Carried) /\ Enumerates(q, Carried)
  BY <1>1, OrderEnumerates, Zenon
<1>3. items = q \o <<Start>>
  BY Zenon
<1> HIDE DEF q
<1>4. q \in Seq(All) /\ Start \in All
  BY <1>1, <1>2 DEF All
<1>5. Enumerates(q \o <<Start>>, Carried \cup {Start}) /\ q \o <<Start>> \in Seq(All)
  BY <1>2, <1>4, AppendEnumerates, Zenon
<1>6. Enumerates(items, Carried \cup {Start}) /\ items \in Seq(All)
  BY <1>3, <1>5, Zenon
<1>7. QED
  BY <1>6, Zenon DEF InItems, Enumerates

\* A new hub holds the prompt and what was carried to it.
LEMMA InitInv == Init => HubInv
<1> SUFFICES ASSUME Init PROVE HubInv
  BY Zenon
<1>3. /\ items \in Seq(All)
      /\ \A x : InItems(x) <=> x \in Carried \/ x = Start
  BY InitItems, Zenon DEF Init
<1> USE HubAssumption DEF Init, All
<1>4. TypeOK
  <2>1. /\ st \in [All -> {"none", "accepted", "delivered", "failed"}]
        /\ claimed \in [All -> BOOLEAN] /\ reason \in [All -> Reasons]
        /\ endOnly \in [All -> BOOLEAN] /\ dup \in [All -> BOOLEAN]
    BY DEF Reasons
  <2>2. turnOf \in [All -> 0 .. MaxTurns] /\ owner \in [All -> Sender \cup {NoSender}]
    OBVIOUS
  <2>3. delivered \subseteq All /\ receipts \in Seq(All)
    OBVIOUS
  <2>4. /\ finished \in BOOLEAN /\ cancelled \in BOOLEAN /\ warned \in BOOLEAN
        /\ turns \in Nat /\ cap \in Capability /\ prompt \subseteq All
        /\ stage \in {"prepare", "run", "between"} /\ ctxDone \in BOOLEAN
        /\ expired \subseteq Sender
    BY Zenon
  <2>5. /\ pc \in [Sender -> {"idle", "ready", "waiting", "done"}]
        /\ res \in [Sender -> {"none", "ok", "error"}]
    BY Zenon
  <2>6. QED
    BY <1>3, <2>1, <2>2, <2>3, <2>4, <2>5, Zenon DEF TypeOK
<1>5. Consistent
  BY <1>3, Zenon DEF Consistent
<1>6. SealedMeansSettled /\ DeliveredOnce /\ WithinTurnBudget
  <2>1. SealedMeansSettled /\ WithinTurnBudget
    BY DEF SealedMeansSettled, WithinTurnBudget
  <2>2. DOMAIN receipts = {}
    OBVIOUS
  <2>3. \A m \in All : st[m] # "delivered"
    BY Zenon
  <2>4. delivered = {}
    BY Zenon
  <2>5. DeliveredOnce
    BY <2>2, <2>3, <2>4 DEF DeliveredOnce
  <2>6. QED
    BY <2>1, <2>5, Zenon
<1>7. Pending = {}
  BY <1>3, Zenon DEF Pending
<1>8. FreshPendingBounded
  <2>1. Fresh = {}
    BY <1>7, Zenon DEF Fresh
  <2>2. QED
    <3>1. Cardinality({}) = 0 /\ 0 <= MaxPending
      BY FS_EmptySet
    <3>2. QED
      BY <2>1, <3>1, Zenon DEF FreshPendingBounded
<1>9. BlockedOnlyWhenFull
  BY Zenon DEF BlockedOnlyWhenFull
<1>10. QED
  BY <1>4, <1>5, <1>6, <1>8, <1>9, Zenon DEF HubInv

\* Nothing changes.
LEMMA StutterInv == ASSUME HubInv, UNCHANGED hubVars PROVE HubInv'
<1> USE DEF HubInv, hubVars
<1>1. TypeOK' /\ WithinTurnBudget'
  BY Zenon DEF TypeOK, WithinTurnBudget, itemVars, deliveryVars, runVars, sendVars
<1>2. ItemsInv' /\ Pending' = Pending
  BY ItemsAlone, Zenon DEF runVars
<1>3. BlockedOnlyWhenFull'
  BY <1>2, Zenon DEF BlockedOnlyWhenFull, runVars, sendVars
<1>4. QED
  BY <1>1, <1>2, <1>3, Zenon DEF ItemsInv

\* One case for each call of the hub.
LEMMA NextInv == ASSUME HubInv, Next PROVE HubInv'
<1>1. ASSUME NEW s \in Sender, Send(s) PROVE HubInv'
  BY <1>1, SendQuietInv, SendBlockedInv, SendDedupedInv, SendAdmittedInv, Zenon DEF Send
<1>2. ASSUME NEW s \in Sender, SenderExpires(s) PROVE HubInv'
  BY <1>2, ContextInv, Zenon
<1>3. ASSUME NEW b \in Boundaries, DriverClaim(b) PROVE HubInv'
  <2>1. CASE ClaimBatch(b) /\ UNCHANGED prompt
    BY <1>3, <2>1, ClaimBatchInv, Zenon DEF DriverClaim, HubInv, TypeOK
  <2>2. CASE ClaimAtTurnLimit(b)
    BY <2>2, ClaimAtTurnLimitInv, Zenon
  <2>3. QED
    BY <1>3, <2>1, <2>2, Zenon DEF DriverClaim
<1>4. ASSUME NEW m \in All, Ack(m) PROVE HubInv'
  BY <1>4, AckDeliveredInv, AckRequeuedInv, AckFailedInv, HubAssumption, Zenon DEF Ack
<1>5. CASE StartDriver \/ DriverReturns
  BY <1>5, StageInv, Zenon
<1>6. CASE CoreClaim
  <2>1. Taken("turn_end") \subseteq All
    BY ClaimTouchesPending, Zenon DEF Pending, All
  <2>2. prompt' \subseteq All
    BY <1>6, <2>1, Zenon DEF CoreClaim, HubInv, TypeOK
  <2>3. QED
    BY <1>6, <2>2, ClaimBatchInv, Zenon DEF CoreClaim
<1>7. CASE Load
  BY <1>7, LoadInv, Zenon
<1>8. ASSUME NEW c \in ResolvedCaps, SetCapability(c) PROVE HubInv'
  BY <1>8, SetCapabilityInv, Zenon
<1>9. ASSUME NEW ok \in BOOLEAN, AckStart(ok) \/ CompleteTurn(ok) PROVE HubInv'
  BY <1>9, AckStartInv, CompleteTurnInv, Zenon
<1>10. ASSUME NEW m \in All, PromptDelivered(m) \/ PromptFailed(m) PROVE HubInv'
  BY <1>10, AckDeliveredInv, AckFailedInv, Zenon DEF PromptDelivered
<1>11. CASE CloseIfIdle
  BY <1>11, CloseIfIdleInv, Zenon
<1>12. ASSUME NEW r \in Reasons, Finish(r) PROVE HubInv'
  BY <1>12, FinishInv, Zenon
<1>13. CASE Environment
  BY <1>13, ContextInv, CancelPendingInv, WithdrawInv, Zenon DEF Environment
<1>14. QED
  BY <1>1, <1>2, <1>3, <1>4, <1>5, <1>6, <1>7, <1>8, <1>9, <1>10, <1>11, <1>12,
     <1>13, Zenon DEF Next, SenderNext, DriverNext, CoreNext

\* The inductive invariant holds of every behaviour of the hub.
THEOREM HubInvariant == Spec => []HubInv
<1>1. HubInv /\ [Next]_hubVars => HubInv'
  BY NextInv, StutterInv, Zenon
<1>2. QED
  BY <1>1, InitInv, PTL DEF Spec

\* Type correctness of the hub's state.
THEOREM HubTypes == Spec => []TypeOK
<1>1. HubInv => TypeOK
  BY Zenon DEF HubInv
<1>2. QED
  BY <1>1, HubInvariant, PTL

\* finish and closeIfIdle leave no admitted message without an outcome.
THEOREM SealSettles == Spec => []SealedMeansSettled
<1>1. HubInv => SealedMeansSettled
  BY Zenon DEF HubInv
<1>2. QED
  BY <1>1, HubInvariant, PTL

\* The receipts to persist name each delivered ID once, whichever of Ack,
\* ackStart, ackPrompt and load put it there.
THEOREM DeliveryIsUnique == Spec => []DeliveredOnce
<1>1. HubInv => DeliveredOnce
  BY Zenon DEF HubInv
<1>2. QED
  BY <1>1, HubInvariant, PTL

\* completeTurn and claimLocked stay within MaxTurns.
THEOREM TurnBudgetKept == Spec => []WithinTurnBudget
<1>1. HubInv => WithinTurnBudget
  BY Zenon DEF HubInv
<1>2. QED
  BY <1>1, HubInvariant, PTL

\* Send's capacity check bounds the queue, and no call stays blocked on a
\* queue with room.
THEOREM QueueBounded == Spec => [](FreshPendingBounded /\ BlockedOnlyWhenFull)
<1>1. HubInv => FreshPendingBounded /\ BlockedOnlyWhenFull
  BY Zenon DEF HubInv
<1>2. QED
  BY <1>1, HubInvariant, PTL

\* One step of the hub changes no outcome that is final.
Kept == \A m \in All : st[m] \in {"delivered", "failed"} =>
           st'[m] = st[m] /\ reason'[m] = reason[m]

\* failLocked keeps the final outcomes when it is called on others only.
LEMMA FailKeeps ==
  ASSUME NEW F, NEW r, Fail(F, r), \A m \in F : st[m] \notin {"delivered", "failed"}
  PROVE  Kept
BY Zenon DEF Fail, Kept

\* No call rewrites a final outcome.
LEMMA NextKeeps == ASSUME HubInv, Next PROVE Kept
<1> USE HubAssumption DEF HubInv, All, Kept, TypeOK
<1>1. ASSUME NEW s \in Sender, Send(s) PROVE Kept
  BY <1>1, Zenon DEF Send, SendCheck, SendRejected, SendDuplicate, SendDeduped, SendBlocked,
              SendAdmitted, SendGivesUp, Known, itemVars
<1>2. ASSUME NEW s \in Sender, SenderExpires(s) PROVE Kept
  BY <1>2, Zenon DEF SenderExpires, itemVars
<1>3. ASSUME NEW b, ClaimBatch(b) PROVE Kept
  <2>1. /\ \A m \in ClaimDead(b) \cup ClaimTooLarge(b) : st[m] = "accepted"
        /\ \A m \in Taken(b) : st[m] \in {"accepted", "none"}
    BY ClaimTouchesPending, Zenon DEF Pending, Known
  <2>2. QED
    BY <1>3, <2>1, Zenon DEF ClaimBatch
<1>4. ASSUME NEW b, ClaimAtTurnLimit(b) PROVE Kept
  <2>1. \A m \in ClaimDead(b) \cup ClaimTooLarge(b) : st[m] = "accepted"
    BY ClaimTouchesPending, Zenon DEF Pending
  <2>2. QED
    BY <1>4, <2>1, Zenon DEF ClaimAtTurnLimit, ClaimFailures, Fail
<1>5. ASSUME NEW m \in All,
             Ack(m) \/ PromptDelivered(m) \/ PromptFailed(m)
      PROVE  Kept
  <2>1. CASE AckDelivered(m)
    BY <2>1, Zenon DEF AckDelivered, Outstanding, Deliver
  <2>2. ASSUME NEW d, AckRequeued(m, d) PROVE Kept
    BY <2>2, Zenon DEF AckRequeued
  <2>3. CASE AckFailed(m) \/ PromptFailed(m)
    BY <2>3, Zenon DEF AckFailed, PromptFailed, Outstanding, Fail
  <2>4. QED
    BY <1>5, <2>1, <2>2, <2>3, Zenon DEF Ack, PromptDelivered
<1>6. ASSUME NEW ok \in BOOLEAN, AckStart(ok) \/ CompleteTurn(ok) PROVE Kept
  <2>1. CASE AckStart(ok) /\ ok
    BY <2>1, Zenon DEF AckStart, Outstanding, Deliver
  <2>2. CASE AckStart(ok) /\ ~ok
    <3>1. st[Start] = "accepted" /\ \E r : Fail({Start}, r)
      BY <2>2, Zenon DEF AckStart, Outstanding
    <3>2. QED
      BY <3>1, FailKeeps, Zenon
  <2>3. CASE CompleteTurn(ok)
    BY <2>3, Zenon DEF CompleteTurn, itemVars
  <2>4. QED
    BY <1>6, <2>1, <2>2, <2>3, Zenon
<1>7. CASE StartDriver \/ DriverReturns \/ CloseIfIdle \/ ContextDone
  BY <1>7, Zenon DEF StartDriver, DriverReturns, CloseIfIdle, ContextDone, itemVars
<1>8. CASE Load
  BY <1>8, Zenon DEF Load, AlreadyDelivered
<1>9. ASSUME NEW c \in ResolvedCaps, SetCapability(c) PROVE Kept
  BY <1>9, Zenon DEF SetCapability, Fail, Pending
<1>10. ASSUME NEW r \in Reasons, Finish(r) PROVE Kept
  BY <1>10, Zenon DEF Finish, Fail, Unsettled
<1>11. CASE CancelPending
  BY <1>11, Zenon DEF CancelPending, Fail, Pending
<1>12. ASSUME NEW m \in Msg, Withdraw(m) PROVE Kept
  BY <1>12, Zenon DEF Withdraw, Fail, Pending
<1>13. QED
  BY <1>1, <1>2, <1>3, <1>4, <1>5, <1>6, <1>7, <1>8, <1>9, <1>10, <1>11, <1>12, Zenon
  DEF Next, SenderNext, DriverNext, CoreNext, Environment, DriverClaim, CoreClaim

\* updateLocked never rewrites an outcome the host has seen as final.
THEOREM FinalOutcomes == Spec => OutcomesFinal
<1>1. HubInv /\ [Next]_hubVars => [Kept]_hubVars
  BY NextKeeps, Zenon
<1>2. QED
  BY <1>1, HubInvariant, PTL DEF Spec, OutcomesFinal, Kept
=============================================================================
