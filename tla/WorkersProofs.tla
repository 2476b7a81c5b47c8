--------------------------- MODULE WorkersProofs ---------------------------
(***************************************************************************)
(* Proofs about Subscriptions, for any subscriptions, schedulers, plans    *)
(* and failures: cycles are billed in order, a vault pays for each of them *)
(* once, and nothing is charged to a paused subscription.  And about all   *)
(* of the workers next to each other: each behaves as it does alone.       *)
(***************************************************************************)
EXTENDS MCWorkers, OutboxRelayProofs, DispatchersProofs

-----------------------------------------------------------------------------
(* Subscriptions *)

USE CyclesAssumption, PlansAssumption

Cycles == [status : {"absent", "due", "paid", "failed"}, retries : Nat]

PaidCycles(s) == {i \in CycleIndex : cycle[s][i].status = "paid"}

\* What a pass has locked is due and active until the pass ends, and no other
\* pass has it.
LockedOK ==
  /\ \A k \in Schedulers : \A s \in locked[k] :
       IsDue(s) /\ Current(s) < MaxCycles /\ subscription[s] = "active"
  /\ \A k, q \in Schedulers : k # q => locked[k] \intersect locked[q] = {}

\* Rows that are not there are blank.
BlankOK ==
  /\ \A s \in Subs, i \in CycleIndex : cycle[s][i].status = "absent" => cycle[s][i] = NoCycle
  /\ \A s \in Subs, i \in CycleIndex : subscription[s] = "absent" => cycle[s][i] = NoCycle

SubInv == SubTypeOK /\ BlankOK /\ CyclesInOrder /\ LockedOK /\ VaultIsConserved

-----------------------------------------------------------------------------

\* The cycle that is due is the only one, and its successor is not there yet.
LEMMA CurrentIsTheDueOne ==
  ASSUME SubTypeOK, BlankOK, CyclesInOrder, NEW s \in Subs, IsDue(s)
  PROVE  /\ Current(s) \in CycleIndex
         /\ cycle[s][Current(s)].status = "due"
         /\ \A i \in CycleIndex : i < Current(s) => cycle[s][i].status = "paid"
         /\ \A i \in CycleIndex : i > Current(s) => cycle[s][i] = NoCycle
  <1>1. Current(s) \in CycleIndex /\ cycle[s][Current(s)].status = "due"
    BY Zenon DEF IsDue, Current
  <1>2. \A i \in CycleIndex : i < Current(s) => cycle[s][i].status = "paid"
    BY <1>1 DEF CyclesInOrder
  <1>3. \A i \in CycleIndex : i > Current(s) => cycle[s][i] = NoCycle
    BY <1>1 DEF CyclesInOrder, BlankOK, CycleIndex
  <1>4. QED
    BY <1>1, <1>2, <1>3

\* A step that leaves a subscription's cycles alone leaves its due one alone.
LEMMA SameCycles ==
  ASSUME NEW s, cycle'[s] = cycle[s]
  PROVE  IsDue(s)' = IsDue(s) /\ Current(s)' = Current(s) /\ PaidCycles(s)' = PaidCycles(s)
  BY DEF IsDue, Current, PaidCycles

\* The paid cycles can be counted.
LEMMA PaidCyclesAreFinite == ASSUME NEW s PROVE IsFiniteSet(PaidCycles(s))
  <1>1. IsFiniteSet(CycleIndex)
    BY FS_Interval DEF CycleIndex
  <1>2. QED
    BY <1>1, FS_Subset DEF PaidCycles

\* At first there are no subscriptions.
LEMMA InitSubInv == SubInit => SubInv
  <1> SUFFICES ASSUME SubInit PROVE SubInv
    OBVIOUS
  <1>1. SubTypeOK
    BY DEF SubInit, SubTypeOK, NoCycle
  <1>2. BlankOK /\ CyclesInOrder /\ LockedOK
    BY DEF SubInit, BlankOK, CyclesInOrder, LockedOK, NoCycle
  <1>3. \A s \in Subs : PaidCycles(s) = {}
    BY DEF SubInit, PaidCycles, NoCycle
  <1>4. VaultIsConserved
    <2>1. \A s \in Subs : Cardinality(PaidCycles(s)) = 0
      BY <1>3, FS_EmptySet
    <2>2. QED
      BY <2>1 DEF SubInit, VaultIsConserved, PaidCycles
  <1>5. QED
    BY <1>1, <1>2, <1>4 DEF SubInv

\* Failures are counted up to their bound.
LEMMA SubFaultsCount ==
  ASSUME SubTypeOK, SubFault \/ UNCHANGED subFaults
  PROVE  subFaults' \in 0 .. MaxSubFaults
  BY DEF SubTypeOK, SubFault

\* A step that moves no money and no cycle keeps what is said about them.
LEMMA SameVaults ==
  ASSUME SubInv, UNCHANGED <<price, granted, remaining, cycle>>
  PROVE  CyclesInOrder' /\ VaultIsConserved'
  BY DEF SubInv, CyclesInOrder, VaultIsConserved

\* A subscription nobody has locked may be created, paused or resumed.
LEMMA StatusChange ==
  ASSUME SubInv, NEW s \in Subs, Unlocked(s),
         NEW new \in {"active", "paused"},
         subscription' = [subscription EXCEPT ![s] = new],
         subscription[s] # "absent",
         UNCHANGED <<price, granted, remaining, cycle, ripe, locked, nestedExec>>,
         NEW kind \in {"subscription.paused", "subscription.resumed"}, Announce(kind, s)
  PROVE  SubInv'
  <1>1. subFaults' \in 0 .. MaxSubFaults
    BY SubFaultsCount DEF Announce, SubInv
  <1>2. SubTypeOK'
    BY <1>1 DEF SubInv, SubTypeOK, Announce
  <1>3. LockedOK'
    <2>1. ASSUME NEW k \in Schedulers, NEW l \in locked[k]
          PROVE  l # s /\ l \in Subs /\ subscription'[l] = "active"
                 /\ IsDue(l) /\ Current(l) < MaxCycles /\ cycle'[l] = cycle[l]
      BY <2>1 DEF SubInv, LockedOK, Unlocked, SubTypeOK
    <2>2. \A k \in Schedulers : \A l \in locked[k] :
            (IsDue(l) /\ Current(l) < MaxCycles)' /\ subscription'[l] = "active"
      BY <2>1, SameCycles
    <2>3. QED
      BY <2>2 DEF SubInv, LockedOK
  <1>4. BlankOK'
    BY DEF SubInv, BlankOK, SubTypeOK
  <1>5. QED
    BY <1>2, <1>3, <1>4, SameVaults DEF SubInv

\* What a pass writes for one subscription.
LEMMA ChargeMovesOn ==
  ASSUME SubInv, NEW s \in Subs, IsDue(s), Current(s) < MaxCycles
  PROVE  LET i == Current(s) IN
         /\ i \in CycleIndex /\ i + 1 \in CycleIndex
         /\ Charge(s) \in [CycleIndex -> Cycles]
         /\ \A j \in CycleIndex : j # i /\ j # i + 1 => Charge(s)[j] = cycle[s][j]
         /\ Covered(s) => Charge(s)[i].status = "paid" /\ Charge(s)[i + 1] = DueCycle
         /\ ~Covered(s) => Charge(s)[i].status = "failed" /\ Charge(s)[i + 1] = NoCycle
  <1> DEFINE i == Current(s)
  <1>1. i \in CycleIndex /\ i + 1 \in CycleIndex
    BY CurrentIsTheDueOne DEF SubInv, CycleIndex
  <1>2. cycle[s][i + 1] = NoCycle /\ cycle[s] \in [CycleIndex -> Cycles]
    <2>1. i + 1 > i
      BY <1>1 DEF CycleIndex
    <2>2. \A j \in CycleIndex : j > i => cycle[s][j] = NoCycle
      BY CurrentIsTheDueOne DEF SubInv
    <2>3. cycle[s] \in [CycleIndex -> Cycles]
      BY DEF SubInv, SubTypeOK, Cycles
    <2>4. QED
      BY <1>1, <2>1, <2>2, <2>3
  <1>3. CASE Covered(s)
    <2>1. Charge(s) = [cycle[s] EXCEPT ![i].status = "paid",
                                       ![i + 1] = IF @ = NoCycle THEN DueCycle ELSE @]
      BY <1>3 DEF Charge
    <2>2. i # i + 1
      BY <1>1 DEF CycleIndex
    <2>3. Charge(s)[i] = [cycle[s][i] EXCEPT !.status = "paid"] /\ Charge(s)[i + 1] = DueCycle
      BY <1>1, <1>2, <2>1, <2>2
    <2>4. Charge(s)[i] \in Cycles /\ Charge(s)[i].status = "paid" /\ DueCycle \in Cycles
      BY <1>1, <1>2, <2>3 DEF Cycles, DueCycle
    <2>5. \A j \in CycleIndex : j # i /\ j # i + 1 => Charge(s)[j] = cycle[s][j]
      BY <1>2, <2>1
    <2>6. DOMAIN Charge(s) = CycleIndex /\ Charge(s) = [j \in CycleIndex |-> Charge(s)[j]]
      BY <1>2, <2>1
    <2>7. \A j \in CycleIndex : Charge(s)[j] \in Cycles
      BY <1>2, <2>3, <2>4, <2>5
    <2>8. Charge(s) \in [CycleIndex -> Cycles]
      BY <2>6, <2>7
    <2>9. QED
      BY <1>1, <1>3, <2>3, <2>4, <2>5, <2>8
  <1>4. CASE ~Covered(s)
    <2>1. Charge(s) = [cycle[s] EXCEPT ![i] = [status |-> "failed", retries |-> @.retries + 1]]
      BY <1>4 DEF Charge
    <2>2. cycle[s][i].retries + 1 \in Nat
      BY <1>1, <1>2 DEF Cycles
    <2>3. Charge(s) \in [CycleIndex -> Cycles]
      BY <1>1, <1>2, <2>1, <2>2 DEF Cycles
    <2>4. i # i + 1
      BY <1>1 DEF CycleIndex
    <2>5. QED
      BY <1>1, <1>2, <1>4, <2>1, <2>3, <2>4
  <1>5. QED
    BY <1>3, <1>4

\* A pass that commits bills what it has locked, each vault for its cycle.
LEMMA CommitPassKeeps ==
  ASSUME SubInv, NEW k \in Schedulers, CommitPass(k) PROVE SubInv'
  <1> DEFINE S == IF nestedExec THEN locked[k] ELSE {}
  <1>1. S \subseteq Subs /\ \A s \in S : IsDue(s) /\ Current(s) < MaxCycles /\ subscription[s] = "active"
    BY DEF SubInv, SubTypeOK, LockedOK
  <1>2. /\ locked' = [locked EXCEPT ![k] = {}]
        /\ remaining' = [s \in Subs |-> IF s \in S /\ Covered(s) THEN remaining[s] - price[s]
                                        ELSE remaining[s]]
        /\ cycle' = [s \in Subs |-> IF s \in S THEN Charge(s) ELSE cycle[s]]
        /\ subscription' = [s \in Subs |->
             IF s \in S /\ ~Covered(s) /\ cycle[s][Current(s)].retries + 1 >= 3
             THEN "past_due" ELSE subscription[s]]
        /\ ripe' = ripe \ S
        /\ subEvents' = subEvents \union
             {<<IF Covered(s) THEN "subscription.debit_succeeded" ELSE "subscription.cycle_due", s>> : s \in S}
        /\ UNCHANGED <<price, granted, nestedExec, subFaults>>
    BY DEF CommitPass
  <1>3. \A s \in Subs : s \notin S => /\ cycle'[s] = cycle[s] /\ remaining'[s] = remaining[s]
                                      /\ subscription'[s] = subscription[s]
    BY <1>2
  <1>4. \A s \in S : cycle'[s] = Charge(s)
    BY <1>1, <1>2
  <1>5. SubTypeOK'
    <2>1. remaining' \in [Subs -> Nat]
      BY <1>2 DEF SubInv, SubTypeOK, Covered
    <2>2. cycle' \in [Subs -> [CycleIndex -> Cycles]]
      BY <1>1, <1>2, ChargeMovesOn DEF SubInv, SubTypeOK, Cycles
    <2>3. subscription' \in [Subs -> {"absent", "active", "paused", "past_due"}]
      BY <1>2 DEF SubInv, SubTypeOK
    <2>4. locked' \in [Schedulers -> SUBSET Subs] /\ ripe' \subseteq Subs
      BY <1>2 DEF SubInv, SubTypeOK
    <2>5. subEvents' \subseteq {"subscription.created", "subscription.paused", "subscription.resumed",
                                "subscription.debit_succeeded", "subscription.cycle_due"} \X Subs
      <3>1. \A s \in S : <<IF Covered(s) THEN "subscription.debit_succeeded"
                           ELSE "subscription.cycle_due", s>>
              \in {"subscription.debit_succeeded", "subscription.cycle_due"} \X Subs
        BY <1>1
      <3>2. QED
        BY <1>2, <3>1 DEF SubInv, SubTypeOK
    <2>6. QED
      BY <1>2, <2>1, <2>2, <2>3, <2>4, <2>5 DEF SubInv, SubTypeOK, Cycles
  <1>6. \A s \in Subs, j \in CycleIndex : s \in S =>
          LET i == Current(s) IN
          /\ j < i => cycle'[s][j].status = "paid"
          /\ j = i => cycle'[s][j].status = IF Covered(s) THEN "paid" ELSE "failed"
          /\ j = i + 1 => cycle'[s][j] = IF Covered(s) THEN DueCycle ELSE NoCycle
          /\ j > i + 1 => cycle'[s][j] = NoCycle
    <2> SUFFICES ASSUME NEW s \in S, NEW j \in CycleIndex
                 PROVE  LET i == Current(s) IN
                        /\ j < i => cycle'[s][j].status = "paid"
                        /\ j = i => cycle'[s][j].status = IF Covered(s) THEN "paid" ELSE "failed"
                        /\ j = i + 1 => cycle'[s][j] = IF Covered(s) THEN DueCycle ELSE NoCycle
                        /\ j > i + 1 => cycle'[s][j] = NoCycle
      OBVIOUS
    <2> DEFINE i == Current(s)
    <2>1. s \in Subs /\ IsDue(s) /\ i < MaxCycles /\ cycle'[s] = Charge(s)
      BY <1>1, <1>4
    <2>2. /\ i \in CycleIndex /\ i + 1 \in CycleIndex
          /\ \A l \in CycleIndex : l # i /\ l # i + 1 => Charge(s)[l] = cycle[s][l]
          /\ Covered(s) => Charge(s)[i].status = "paid" /\ Charge(s)[i + 1] = DueCycle
          /\ ~Covered(s) => Charge(s)[i].status = "failed" /\ Charge(s)[i + 1] = NoCycle
      BY <2>1, ChargeMovesOn
    <2>3. /\ \A l \in CycleIndex : l < i => cycle[s][l].status = "paid"
          /\ \A l \in CycleIndex : l > i => cycle[s][l] = NoCycle
      BY <2>1, CurrentIsTheDueOne DEF SubInv
    <2>4. j \in Int /\ i \in Int
      BY <2>2 DEF CycleIndex
    <2>5. QED
      BY <2>1, <2>2, <2>3, <2>4
  <1>7. BlankOK'
    <2>1. ASSUME NEW s \in Subs, NEW j \in CycleIndex, s \in S, cycle'[s][j].status = "absent"
          PROVE  cycle'[s][j] = NoCycle
      <3>1. Current(s) \in Int /\ j \in Int
        BY <1>1, <2>1, CurrentIsTheDueOne DEF SubInv, CycleIndex
      <3>2. j < Current(s) \/ j = Current(s) \/ j = Current(s) + 1 \/ j > Current(s) + 1
        BY <3>1
      <3>3. QED
        BY <1>6, <2>1, <3>2 DEF DueCycle
    <2>2. \A s \in S : subscription'[s] # "absent"
      BY <1>1, <1>2
    <2>3. QED
      BY <1>3, <2>1, <2>2 DEF SubInv, BlankOK
  <1>8. CyclesInOrder'
    <2>1. ASSUME NEW s \in Subs, NEW i \in CycleIndex, NEW j \in CycleIndex, s \in S,
                 i < j, cycle'[s][j].status # "absent"
          PROVE  cycle'[s][i].status = "paid"
      <3>1. Current(s) \in Int /\ j \in Int /\ i \in Int
        BY <1>1, <2>1, CurrentIsTheDueOne DEF SubInv, CycleIndex
      <3>2. j <= Current(s) + 1
        BY <1>6, <2>1, <3>1 DEF NoCycle
      <3>3. CASE i < Current(s)
        BY <1>6, <2>1, <3>3
      <3>4. CASE i = Current(s) /\ j = Current(s) + 1
        BY <1>6, <2>1, <3>4 DEF NoCycle
      <3>5. QED
        BY <2>1, <3>1, <3>2, <3>3, <3>4
    <2>2. QED
      BY <1>3, <2>1 DEF SubInv, CyclesInOrder
  <1>9. LockedOK'
    <2>1. ASSUME NEW q \in Schedulers, NEW s \in locked'[q]
          PROVE  q # k /\ s \in locked[q] /\ s \in Subs /\ s \notin S
      BY <1>2, <2>1 DEF SubInv, SubTypeOK, LockedOK
    <2>2. ASSUME NEW q \in Schedulers, NEW s \in locked'[q]
          PROVE  (IsDue(s) /\ Current(s) < MaxCycles)' /\ subscription'[s] = "active"
      <3>1. cycle'[s] = cycle[s] /\ subscription'[s] = subscription[s]
        BY <1>3, <2>1, <2>2
      <3>2. QED
        BY <2>1, <2>2, <3>1, SameCycles DEF SubInv, LockedOK
    <2>3. QED
      BY <1>2, <2>2 DEF SubInv, SubTypeOK, LockedOK
  <1>10. VaultIsConserved'
    <2> SUFFICES ASSUME NEW s \in Subs
                 PROVE  granted'[s] - remaining'[s] = price'[s] * Cardinality(PaidCycles(s)')
      BY DEF VaultIsConserved, PaidCycles
    <2>1. granted[s] - remaining[s] = price[s] * Cardinality(PaidCycles(s))
      BY DEF SubInv, VaultIsConserved, PaidCycles
    <2>2. CASE s \notin S
      BY <1>2, <1>3, <2>1, <2>2, SameCycles
    <2>3. CASE s \in S /\ ~Covered(s)
      <3>1. PaidCycles(s)' = PaidCycles(s)
        <4>1. Current(s) \in Int /\ \A j \in CycleIndex : j \in Int
          BY <1>1, <2>3, CurrentIsTheDueOne DEF SubInv, CycleIndex
        <4>2. \A j \in CycleIndex : cycle[s][j].status = "paid" <=> j < Current(s)
          BY <1>1, <2>3, <4>1, CurrentIsTheDueOne DEF SubInv, NoCycle
        <4>3. \A j \in CycleIndex : cycle'[s][j].status = "paid" <=> j < Current(s)
          BY <1>6, <2>3, <4>1 DEF NoCycle
        <4>4. QED
          BY <4>2, <4>3 DEF PaidCycles
      <3>2. remaining'[s] = remaining[s]
        BY <1>2, <2>3
      <3>3. QED
        BY <1>2, <2>1, <3>1, <3>2
    <2>4. CASE s \in S /\ Covered(s)
      <3>1. PaidCycles(s)' = PaidCycles(s) \union {Current(s)} /\ Current(s) \notin PaidCycles(s)
        <4>1. Current(s) \in Int /\ Current(s) \in CycleIndex /\ \A j \in CycleIndex : j \in Int
          BY <1>1, <2>4, CurrentIsTheDueOne DEF SubInv, CycleIndex
        <4>2. \A j \in CycleIndex : cycle[s][j].status = "paid" <=> j < Current(s)
          BY <1>1, <2>4, <4>1, CurrentIsTheDueOne DEF SubInv, NoCycle
        <4>3. \A j \in CycleIndex : cycle'[s][j].status = "paid" <=> j <= Current(s)
          BY <1>6, <2>4, <4>1 DEF NoCycle, DueCycle
        <4>4. QED
          BY <4>1, <4>2, <4>3 DEF PaidCycles
      <3>2. Cardinality(PaidCycles(s)') = Cardinality(PaidCycles(s)) + 1
        BY <3>1, PaidCyclesAreFinite, FS_AddElement
      <3>3. Cardinality(PaidCycles(s)) \in Nat
        BY PaidCyclesAreFinite, FS_CardinalityType
      <3>4. /\ granted[s] \in Nat /\ remaining[s] \in Nat /\ price[s] \in Nat
            /\ remaining'[s] = remaining[s] - price[s]
        BY <1>2, <2>4 DEF SubInv, SubTypeOK
      <3>5. \A n, p \in Nat : p * (n + 1) = p * n + p
        OBVIOUS
      <3>6. price[s] * Cardinality(PaidCycles(s)') = price[s] * Cardinality(PaidCycles(s)) + price[s]
        BY <3>2, <3>3, <3>4, <3>5
      <3>7. price[s] * Cardinality(PaidCycles(s)) \in Int
        BY <3>3, <3>4
      <3>8. QED
        BY <1>2, <2>1, <3>4, <3>6, <3>7
    <2>5. QED
      BY <2>2, <2>3, <2>4
  <1>11. QED
    BY <1>5, <1>7, <1>8, <1>9, <1>10 DEF SubInv

\* A subscription starts with a first cycle that is due and a vault that is full.
LEMMA CreateKeeps ==
  ASSUME SubInv, NEW s \in Subs, NEW p \in Plans, CreateSubscription(s, p) PROVE SubInv'
  <1>1. p.amount \in Nat /\ Grant(p) \in Nat
    BY DEF CreateSubscription, Grant
  <1>2. /\ subscription' = [subscription EXCEPT ![s] = "active"] /\ subscription[s] = "absent"
        /\ price' = [price EXCEPT ![s] = p.amount]
        /\ granted' = [granted EXCEPT ![s] = Grant(p)]
        /\ remaining' = [remaining EXCEPT ![s] = Grant(p)]
        /\ cycle' = [cycle EXCEPT ![s][1] = DueCycle]
        /\ subEvents' = subEvents \union {<<"subscription.created", s>>}
        /\ UNCHANGED <<ripe, locked, nestedExec, subFaults>>
    BY DEF CreateSubscription
  <1>3. 1 \in CycleIndex /\ \A i \in CycleIndex : i >= 1
    BY DEF CycleIndex
  <1>4. \A i \in CycleIndex : cycle[s][i] = NoCycle
    BY <1>2 DEF SubInv, BlankOK
  <1>5. /\ cycle'[s] = [cycle[s] EXCEPT ![1] = DueCycle]
        /\ \A l \in Subs : l # s => /\ cycle'[l] = cycle[l] /\ subscription'[l] = subscription[l]
                                    /\ price'[l] = price[l] /\ granted'[l] = granted[l]
                                    /\ remaining'[l] = remaining[l]
    BY <1>2 DEF SubInv, SubTypeOK
  <1>6. cycle'[s][1] = DueCycle /\ \A i \in CycleIndex : i # 1 => cycle'[s][i] = NoCycle
    BY <1>3, <1>4, <1>5 DEF SubInv, SubTypeOK
  <1>7. SubTypeOK'
    <2>1. DueCycle \in Cycles /\ cycle \in [Subs -> [CycleIndex -> Cycles]]
      BY DEF DueCycle, Cycles, SubInv, SubTypeOK
    <2>2. cycle' \in [Subs -> [CycleIndex -> Cycles]]
      BY <1>2, <2>1
    <2>3. QED
      BY <1>1, <1>2, <2>2 DEF SubInv, SubTypeOK, Cycles
  <1>8. BlankOK'
    <2>1. subscription'[s] = "active"
      BY <1>2 DEF SubInv, SubTypeOK
    <2>2. \A i \in CycleIndex : cycle'[s][i].status = "absent" => cycle'[s][i] = NoCycle
      BY <1>6 DEF DueCycle
    <2>3. ASSUME NEW l \in Subs, NEW i \in CycleIndex
          PROVE  /\ cycle'[l][i].status = "absent" => cycle'[l][i] = NoCycle
                 /\ subscription'[l] = "absent" => cycle'[l][i] = NoCycle
      <3>1. CASE l = s
        BY <2>1, <2>2, <3>1
      <3>2. CASE l # s
        BY <1>5, <3>2 DEF SubInv, BlankOK
      <3>3. QED
        BY <3>1, <3>2
    <2>4. QED
      BY <2>3 DEF BlankOK
  <1>9. CyclesInOrder'
    <2>1. \A i, j \in CycleIndex : i < j => j # 1
      BY DEF CycleIndex
    <2>2. \A i, j \in CycleIndex : i < j => cycle'[s][j].status = "absent"
      BY <1>6, <2>1 DEF NoCycle
    <2>3. ASSUME NEW l \in Subs, NEW i \in CycleIndex, NEW j \in CycleIndex,
                 i < j, cycle'[l][j].status # "absent"
          PROVE  cycle'[l][i].status = "paid"
      <3>1. l # s
        BY <2>2, <2>3
      <3>2. QED
        BY <1>5, <2>3, <3>1 DEF SubInv, CyclesInOrder
    <2>4. QED
      BY <2>3 DEF CyclesInOrder
  <1>10. LockedOK'
    <2>1. ASSUME NEW k \in Schedulers, NEW l \in locked[k]
          PROVE  l # s /\ l \in Subs /\ IsDue(l) /\ Current(l) < MaxCycles
                 /\ subscription'[l] = "active" /\ cycle'[l] = cycle[l]
      BY <1>2, <1>5, <2>1 DEF SubInv, LockedOK, SubTypeOK
    <2>2. \A k \in Schedulers : \A l \in locked[k] :
            (IsDue(l) /\ Current(l) < MaxCycles)' /\ subscription'[l] = "active"
      BY <2>1, SameCycles
    <2>3. QED
      BY <1>2, <2>2 DEF SubInv, LockedOK
  <1>11. VaultIsConserved'
    <2>1. ASSUME NEW l \in Subs, l # s
          PROVE  granted'[l] - remaining'[l] = price'[l] * Cardinality(PaidCycles(l)')
      <3>1. cycle'[l] = cycle[l] /\ granted[l] - remaining[l] = price[l] * Cardinality(PaidCycles(l))
        BY <1>5, <2>1 DEF SubInv, VaultIsConserved, PaidCycles
      <3>2. QED
        BY <1>5, <2>1, <3>1, SameCycles
    <2>2. Cardinality(PaidCycles(s)') = 0
      <3>1. PaidCycles(s)' = {}
        BY <1>6 DEF PaidCycles, NoCycle, DueCycle
      <3>2. QED
        BY <3>1, FS_EmptySet
    <2>3. granted'[s] = Grant(p) /\ remaining'[s] = Grant(p) /\ price'[s] \in Nat
      BY <1>1, <1>2 DEF SubInv, SubTypeOK
    <2>4. granted'[s] - remaining'[s] = price'[s] * Cardinality(PaidCycles(s)')
      BY <1>1, <2>2, <2>3
    <2>5. \A l \in Subs : granted'[l] - remaining'[l] = price'[l] * Cardinality(PaidCycles(l)')
      BY <2>1, <2>4
    <2>6. QED
      BY <2>5 DEF VaultIsConserved, PaidCycles
  <1>12. QED
    BY <1>7, <1>8, <1>9, <1>10, <1>11 DEF SubInv

\* Every step keeps the invariant.
LEMMA NextSubInv == SubInv /\ [SubNext]_subVars => SubInv'
  <1> SUFFICES ASSUME SubInv, [SubNext]_subVars PROVE SubInv'
    OBVIOUS
  <1>1. ASSUME NEW s \in Subs, NEW p \in Plans, CreateSubscription(s, p) PROVE SubInv'
    BY <1>1, CreateKeeps
  <1>2. ASSUME NEW s \in Subs, PauseSubscription(s) PROVE SubInv'
    BY <1>2, StatusChange DEF PauseSubscription
  <1>3. ASSUME NEW s \in Subs, ResumeSubscription(s) PROVE SubInv'
    BY <1>3, StatusChange DEF ResumeSubscription
  <1>4. ASSUME NEW s \in Subs, BillingDateComes(s) PROVE SubInv'
    <2>1. SubTypeOK' /\ BlankOK'
      BY <1>4 DEF BillingDateComes, SubInv, SubTypeOK, BlankOK
    <2>2. LockedOK'
      BY <1>4 DEF BillingDateComes, SubInv, LockedOK, IsDue, Current
    <2>3. QED
      BY <1>4, <2>1, <2>2, SameVaults DEF BillingDateComes, SubInv
  <1>5. ASSUME NEW k \in Schedulers, SelectDue(k) PROVE SubInv'
    <2> DEFINE S == {s \in Billable : Unlocked(s) /\ Current(s) < MaxCycles}
    <2>1. locked' = [locked EXCEPT ![k] = S] /\ UNCHANGED <<subscription, price, granted,
            remaining, cycle, ripe, nestedExec, subEvents, subFaults>>
      BY <1>5 DEF SelectDue
    <2>2. S \subseteq Subs /\ \A s \in S : /\ IsDue(s) /\ Current(s) < MaxCycles
                                           /\ subscription[s] = "active"
                                           /\ \A q \in Schedulers : s \notin locked[q]
      BY DEF Billable, Unlocked, SubInv, SubTypeOK
    <2>3. SubTypeOK' /\ BlankOK'
      BY <2>1, <2>2 DEF SubInv, SubTypeOK, BlankOK
    <2>4. /\ locked'[k] = S
          /\ \A q \in Schedulers : q # k => locked'[q] = locked[q]
      BY <2>1 DEF SubInv, SubTypeOK
    <2>5. \A q \in Schedulers : \A s \in locked'[q] :
            IsDue(s) /\ Current(s) < MaxCycles /\ subscription[s] = "active"
      BY <2>2, <2>4 DEF SubInv, LockedOK
    <2>6. \A q, r \in Schedulers : q # r => locked'[q] \intersect locked'[r] = {}
      BY <2>2, <2>4 DEF SubInv, LockedOK
    <2>7. LockedOK'
      BY <2>1, <2>5, <2>6 DEF LockedOK, IsDue, Current
    <2>8. QED
      BY <2>1, <2>3, <2>7, SameVaults DEF SubInv
  <1>6. ASSUME NEW k \in Schedulers, CommitPass(k) PROVE SubInv'
    BY <1>6, CommitPassKeeps
  <1>7. ASSUME NEW k \in Schedulers, AbortPass(k) PROVE SubInv'
    <2>1. subFaults' \in 0 .. MaxSubFaults
      BY <1>7, SubFaultsCount DEF AbortPass, SubInv
    <2>2. SubTypeOK' /\ BlankOK'
      BY <1>7, <2>1 DEF AbortPass, SubInv, SubTypeOK, BlankOK
    <2>3. \A q \in Schedulers : locked'[q] \subseteq locked[q]
      BY <1>7 DEF AbortPass, SubInv, SubTypeOK
    <2>4. LockedOK'
      BY <1>7, <2>3 DEF AbortPass, SubInv, LockedOK, IsDue, Current
    <2>5. QED
      BY <1>7, <2>2, <2>4, SameVaults DEF AbortPass, SubInv
  <1>8. CASE UNCHANGED subVars
    BY <1>8 DEF subVars, SubInv, SubTypeOK, BlankOK, CyclesInOrder, LockedOK, VaultIsConserved,
       IsDue, Current
  <1>9. QED
    BY <1>1, <1>2, <1>3, <1>4, <1>5, <1>6, <1>7, <1>8 DEF SubNext

\* The invariant always holds.
LEMMA AlwaysSubInv == SubSpec => []SubInv
  BY InitSubInv, NextSubInv, PTL DEF SubSpec

\* Every variable of Subscriptions has its type, whatever the schedulers do.
THEOREM SubscriptionsAreTyped == SubSpec => []SubTypeOK
  <1>1. SubInv => SubTypeOK
    BY DEF SubInv
  <1>2. QED
    BY <1>1, AlwaysSubInv, PTL

\* However many schedulers, plans and failures there are, before any cycle of
\* a subscription all are paid, so nothing is billed after a failed cycle.
THEOREM BillingIsInOrder == SubSpec => []CyclesInOrder
  <1>1. SubInv => CyclesInOrder
    BY DEF SubInv
  <1>2. QED
    BY <1>1, AlwaysSubInv, PTL

\* However many schedulers, plans and failures there are, a vault has lost
\* exactly the price of every paid cycle.
THEOREM VaultPaysOncePerCycle == SubSpec => []VaultIsConserved
  <1>1. SubInv => VaultIsConserved
    BY DEF SubInv
  <1>2. QED
    BY <1>1, AlwaysSubInv, PTL

\* A step charges only subscriptions that are active, even when the pass that
\* charges selected them long before.
LEMMA ChargedIsActive ==
  SubInv /\ [SubNext]_subVars =>
    [\A s \in Subs, i \in CycleIndex :
       cycle[s][i].status = "due" /\ cycle'[s][i].status # "due"
         => subscription[s] = "active"]_subVars
  <1> SUFFICES ASSUME SubInv, SubNext, NEW s \in Subs, NEW i \in CycleIndex,
                      cycle[s][i].status = "due", cycle'[s][i].status # "due"
               PROVE  subscription[s] = "active"
    OBVIOUS
  <1>1. ASSUME NEW l \in Subs, NEW p \in Plans, CreateSubscription(l, p)
        PROVE  subscription[s] = "active"
    <2>1. l # s
      BY <1>1 DEF CreateSubscription, SubInv, BlankOK, NoCycle
    <2>2. cycle'[s] = cycle[s]
      BY <1>1, <2>1 DEF CreateSubscription, SubInv, SubTypeOK
    <2>3. QED
      BY <2>2
  <1>2. ASSUME NEW l \in Subs,
               PauseSubscription(l) \/ ResumeSubscription(l) \/ BillingDateComes(l)
        PROVE  subscription[s] = "active"
    BY <1>2 DEF PauseSubscription, ResumeSubscription, BillingDateComes
  <1>3. ASSUME NEW k \in Schedulers, SelectDue(k) \/ AbortPass(k)
        PROVE  subscription[s] = "active"
    BY <1>3 DEF SelectDue, AbortPass
  <1>4. ASSUME NEW k \in Schedulers, CommitPass(k) PROVE subscription[s] = "active"
    <2>1. s \in locked[k]
      BY <1>4 DEF CommitPass
    <2>2. QED
      BY <2>1 DEF SubInv, LockedOK
  <1>5. QED
    BY <1>1, <1>2, <1>3, <1>4 DEF SubNext

\* No cycle is charged or fails while its subscription is paused, however a
\* pause and the passes of several schedulers interleave.
THEOREM PauseStopsBilling == SubSpec => PausedIsNotCharged
  BY AlwaysSubInv, ChargedIsActive, PTL DEF SubSpec, PausedIsNotCharged

\* Any schedulers, pauses and resumptions: cycles in order, each paid once.
THEOREM BillsAreExact == SubSpec => []BillingIsExact
  BY BillingIsInOrder, VaultPaysOncePerCycle, PTL DEF BillingIsExact

-----------------------------------------------------------------------------
(* All workers on one bus *)

\* The workers together do, to the rows of each, what it does alone.
LEMMA WorkersAreIndependent ==
  FairSpec => OutboxSpec /\ WebhookSpec /\ EmailSpec /\ TransferSpec /\ SubSpec
  <1>1. Init => OutboxInit /\ WebhookInit /\ EmailInit /\ TransferInit /\ SubInit
    BY DEF Init
  <1>2. [Next]_vars => /\ [OutboxNext]_outboxVars /\ [WebhookNext]_webhookVars
                       /\ [EmailNext]_emailVars /\ [TransferNext]_transferVars
                       /\ [SubNext]_subVars
    BY DEF Next, vars
  <1>3. QED
    BY <1>1, <1>2, PTL DEF FairSpec, OutboxSpec, WebhookSpec, EmailSpec, TransferSpec, SubSpec

\* However the workers fail, race and are restarted, each keeps to its types.
THEOREM WorkersAreTyped == FairSpec => []TypesOK
  BY WorkersAreIndependent, OutboxTypeCorrect, DeliveriesAreTyped, NotificationsAreTyped,
     TransfersAreTyped, SubscriptionsAreTyped, PTL DEF TypesOK

\* Next to each other the workers keep what each of them promises: what was
\* published, posted, mailed, recorded and billed is accounted for.
THEOREM WorkersAreSafe ==
  FairSpec => [](/\ PublicationsAreCounted /\ AttemptsBounded /\ StatusIsTrue
                 /\ MailsAreCounted /\ RequestsAreRecorded /\ BillingIsExact)
  BY WorkersAreIndependent, MarksCount, AttemptsAreBounded, DeliveryStatusIsTrue,
     MailsAreAccounted, TransfersAreRequested, BillsAreExact, PTL
=============================================================================
