-------------------------- MODULE ConsensusProofs --------------------------
(***************************************************************************)
(* Proofs about Consensus for every width of the height integer: type      *)
(* correctness, the round trip of the branch-ID wire tables, and that      *)
(* BranchId::for_height returns the epoch of the activation tables at      *)
(* every height, which rests on the tables being ordered as                *)
(* UPGRADES_IN_ORDER says.                                                 *)
(***************************************************************************)
EXTENDS Consensus, FiniteSetTheorems, TLAPS

\* The activation height of the i-th upgrade of UPGRADES_IN_ORDER.
Act(net, i) == activation_height(net, UPGRADES_IN_ORDER[i])

\* The production tables are ordered as UPGRADES_IN_ORDER.
LEMMA TablesOrdered == ActivationsInUpgradeOrder
<1> SUFFICES ASSUME NEW net \in Networks, NEW i \in 1 .. 6, NEW j \in 1 .. 6, i < j
             PROVE  Act(net, i) < Act(net, j)
  BY DEF ActivationsInUpgradeOrder, Act, UPGRADES_IN_ORDER
<1> QED
  BY DEF Act, activation_height, ActivationTable, MainNetworkActivation,
         TestNetworkActivation, UPGRADES_IN_ORDER, Networks


\* UPGRADES_IN_ORDER lists each network upgrade exactly once.
LEMMA UpgradeList ==
    /\ Len(UPGRADES_IN_ORDER) = 6
    /\ \A i \in 1 .. 6 : UPGRADES_IN_ORDER[i] \in NetworkUpgrades
    /\ \A nu \in NetworkUpgrades : \E i \in 1 .. 6 : UPGRADES_IN_ORDER[i] = nu
    /\ \A i, j \in 1 .. 6 : UPGRADES_IN_ORDER[i] = UPGRADES_IN_ORDER[j] => i = j
BY DEF UPGRADES_IN_ORDER, NetworkUpgrades

\* Every upgrade has an activation height on every network, and
\* branch_id names the branch after the upgrade.
LEMMA TableValues ==
    ASSUME NEW net \in Networks, NEW nu \in NetworkUpgrades
    PROVE  /\ ActivationTable[net][nu] \in Nat
           /\ ActivationTable[net][nu] # None
           /\ activation_height(net, nu) = ActivationTable[net][nu]
           /\ branch_id[nu] = nu
<1>1. ActivationTable[net][nu] \in Nat
  BY DEF ActivationTable, MainNetworkActivation, TestNetworkActivation,
         Networks, NetworkUpgrades
<1>2. QED
  BY <1>1, NoneAssumption DEF activation_height, branch_id, NetworkUpgrades

\* A nonempty set of upgrade indices has a greatest element.
LEMMA LastIndexExists ==
    ASSUME NEW S \in SUBSET (1 .. 6), S # {}
    PROVE  \E m \in S : \A j \in S : j <= m
<1>1. CASE 6 \in S  BY <1>1
<1>2. CASE 6 \notin S /\ 5 \in S  BY <1>2
<1>3. CASE 6 \notin S /\ 5 \notin S /\ 4 \in S  BY <1>3
<1>4. CASE 6 \notin S /\ 5 \notin S /\ 4 \notin S /\ 3 \in S  BY <1>4
<1>5. CASE 6 \notin S /\ 5 \notin S /\ 4 \notin S /\ 3 \notin S /\ 2 \in S  BY <1>5
<1>6. CASE 6 \notin S /\ 5 \notin S /\ 4 \notin S /\ 3 \notin S /\ 2 \notin S
  <2>1. PICK x \in S : TRUE
    OBVIOUS
  <2>2. x = 1 /\ \A j \in S : j <= 1
    BY <1>6
  <2>3. QED
    BY <2>2
<1>7. QED
  BY <1>1, <1>2, <1>3, <1>4, <1>5, <1>6

\* When the tables are ordered as UPGRADES_IN_ORDER, the reverse scan of
\* BranchId::for_height finds the epoch in force at every height: the upgrade
\* of greatest activation height not above it, or Sprout.
LEMMA ForHeightIsEpoch ==
    ASSUME ActivationsInUpgradeOrder, NEW net \in Networks, NEW h \in Int
    PROVE  for_height(net, h) = EpochAt(net, h)
<1> DEFINE U == UPGRADES_IN_ORDER
           T == ActivationTable[net]
           active == {i \in 1 .. Len(U) : is_nu_active(net, U[i], h)}
           reached == {nu \in NetworkUpgrades : T[nu] # None /\ T[nu] <= h}
<1>1. active = {i \in 1 .. 6 : T[U[i]] <= h}
  BY UpgradeList, TableValues DEF is_nu_active
<1>2. \A i \in 1 .. 6 : i \in active <=> U[i] \in reached
  BY <1>1, UpgradeList, TableValues
<1>3. for_height(net, h) = IF active = {} THEN "Sprout"
                           ELSE branch_id[U[LastOf(active)]]
  BY DEF for_height
<1>4. EpochAt(net, h) = IF reached = {} THEN "Sprout"
                        ELSE CHOOSE nu \in reached : \A o \in reached : T[o] <= T[nu]
  BY DEF EpochAt
<1>5. CASE active = {}
  <2>1. reached = {}
    BY <1>2, <1>5, UpgradeList
  <2>2. QED
    BY <1>3, <1>4, <1>5, <2>1
<1>6. CASE active # {}
  <2>1. active \in SUBSET (1 .. 6)
    BY <1>1
  <2>2. PICK m \in active : \A j \in active : j <= m
    BY <1>6, <2>1, LastIndexExists
  <2>3. LastOf(active) = m
    <3>1. \A i \in active : (\A j \in active : j <= i) => i = m
      BY <2>1, <2>2
    <3>2. \E i \in active : \A j \in active : j <= i
      BY <2>2
    <3>3. QED
      BY <3>1, <3>2 DEF LastOf
  <2>4. for_height(net, h) = U[m]
    BY <1>3, <1>6, <2>1, <2>3, UpgradeList, TableValues
  <2>5. U[m] \in reached
    BY <1>2, <2>1
  <2>6. \A i, j \in 1 .. 6 : i < j => T[U[i]] < T[U[j]]
    BY UpgradeList, TableValues DEF ActivationsInUpgradeOrder, activation_height
  <2>7. \A o \in reached : T[o] <= T[U[m]]
    <3> SUFFICES ASSUME NEW o \in reached PROVE T[o] <= T[U[m]]
      OBVIOUS
    <3>1. PICK k \in 1 .. 6 : U[k] = o
      BY UpgradeList
    <3>2. k \in active /\ k <= m
      BY <1>2, <2>1, <2>2, <3>1
    <3>3. QED
      BY <2>1, <2>6, <3>1, <3>2, UpgradeList, TableValues
  <2>8. \A nu \in reached : (\A o \in reached : T[o] <= T[nu]) => nu = U[m]
    <3> SUFFICES ASSUME NEW nu \in reached, \A o \in reached : T[o] <= T[nu]
                 PROVE  nu = U[m]
      OBVIOUS
    <3>1. PICK k \in 1 .. 6 : U[k] = nu
      BY UpgradeList
    <3>2. k \in active /\ k <= m
      BY <1>2, <2>1, <2>2, <3>1
    <3>3. T[U[m]] <= T[U[k]]
      BY <2>5, <3>1
    <3>4. ~(k < m)
      BY <2>1, <2>6, <3>2, <3>3, UpgradeList, TableValues
    <3>5. QED
      BY <2>1, <3>1, <3>2, <3>4
  <2>9. EpochAt(net, h) = U[m]
    BY <1>4, <2>5, <2>7, <2>8
  <2>10. QED
    BY <2>4, <2>9
<1>7. QED
  BY <1>5, <1>6


-----------------------------------------------------------------------------
(* Theorems about the specification.                                       *)

\* 2^HeightBits is a positive natural: it counts the subsets of 1..HeightBits.
LEMMA WidthPositive == 2^HeightBits \in Nat \ {0}
<1> DEFINE B == 1 .. HeightBits
<1>1. IsFiniteSet(B) /\ Cardinality(B) = HeightBits
  BY HeightBitsAssumption, FS_Interval
<1>2. IsFiniteSet(SUBSET B) /\ Cardinality(SUBSET B) = 2^HeightBits
  BY <1>1, FS_SUBSET
<1>3. Cardinality(SUBSET B) \in Nat
  BY <1>2, FS_CardinalityType
<1>4. SUBSET B # {}
  OBVIOUS
<1>5. Cardinality(SUBSET B) # 0
  BY <1>2, <1>4, FS_EmptySet
<1>6. QED
  BY <1>2, <1>3, <1>5

\* The heights and deltas asked about are integers of the model's width.
LEMMA QueryTyped ==
    /\ QueryHeights \subseteq Heights
    /\ QueryDeltas \subseteq Heights
    /\ U32Max \in Nat
<1>1. U32Max \in Nat
  <2>1. PICK p \in Nat \ {0} : p = 2^HeightBits
    BY WidthPositive
  <2>2. p - 1 \in Nat
    OBVIOUS
  <2>3. QED
    BY <2>1, <2>2 DEF U32Max
<1>2. QueryHeights \subseteq Heights /\ QueryDeltas \subseteq Heights
  BY QueryHeightsAssumption, QueryDeltasAssumption
<1>3. QED
  BY <1>1, <1>2

\* for_height returns a branch ID: Sprout, or the branch of an upgrade of
\* UPGRADES_IN_ORDER.
LEMMA ForHeightTyped ==
    ASSUME NEW net \in Networks, NEW h \in Int
    PROVE  for_height(net, h) \in BranchIds
<1> DEFINE active == {i \in 1 .. Len(UPGRADES_IN_ORDER) :
                        is_nu_active(net, UPGRADES_IN_ORDER[i], h)}
<1>1. active \in SUBSET (1 .. 6)
  BY UpgradeList
<1>2. CASE active = {}
  BY <1>2 DEF for_height, BranchIds
<1>3. CASE active # {}
  <2>1. LastOf(active) \in 1 .. 6
    BY <1>1, <1>3, LastIndexExists DEF LastOf
  <2>2. UPGRADES_IN_ORDER[LastOf(active)] \in NetworkUpgrades
    BY <2>1, UpgradeList
  <2>3. for_height(net, h) = branch_id[UPGRADES_IN_ORDER[LastOf(active)]]
    BY <1>3 DEF for_height
  <2>4. QED
    BY <2>2, <2>3, TableValues DEF BranchIds, NetworkUpgrades
<1>4. QED
  BY <1>2, <1>3

\* Adding or subtracting a u32 delta yields a height or a panic.
LEMMA HeightArithTyped ==
    ASSUME NEW h \in Heights, NEW d \in Heights
    PROVE  /\ HeightAdd(h, d) \subseteq [panicked : BOOLEAN, val : Heights]
           /\ HeightSub(h, d) \subseteq [panicked : BOOLEAN, val : Heights]
<1>1. PICK m \in Nat : m = U32Max
  BY QueryTyped
<1>2. h \in 0 .. m /\ d \in 0 .. m
  BY <1>1 DEF Heights
<1>3. (h + d) % (m + 1) \in 0 .. m
  BY <1>1, <1>2
<1>4. Panicked \in [panicked : BOOLEAN, val : Heights]
  BY <1>1 DEF Panicked, Heights
<1>5. h + d <= m => Returned(h + d) \in [panicked : BOOLEAN, val : Heights]
  BY <1>1, <1>2 DEF Returned, Heights
<1>6. Returned((h + d) % (m + 1)) \in [panicked : BOOLEAN, val : Heights]
  BY <1>1, <1>3 DEF Returned, Heights
<1>7. d <= h => Returned(h - d) \in [panicked : BOOLEAN, val : Heights]
  BY <1>1, <1>2 DEF Returned, Heights
<1>8. HeightAdd(h, d) \subseteq [panicked : BOOLEAN, val : Heights]
  <2>1. CASE h + d <= U32Max
    BY <1>5, <1>1, <2>1 DEF HeightAdd
  <2>2. CASE ~(h + d <= U32Max)
    BY <1>4, <1>6, <1>1, <2>2 DEF HeightAdd
  <2>3. QED
    BY <2>1, <2>2
<1>9. HeightSub(h, d) \subseteq [panicked : BOOLEAN, val : Heights]
  <2>1. CASE d > h
    BY <1>4, <2>1 DEF HeightSub
  <2>2. CASE ~(d > h)
    BY <1>7, <1>2, <2>2 DEF HeightSub
  <2>3. QED
    BY <2>1, <2>2
<1>10. QED
  BY <1>8, <1>9

\* Both wire tables map every branch to a u32, i.e. to a pair of halves.
LEMMA WireTablesTyped ==
    ASSUME NEW b \in BranchIds
    PROVE  BranchIdToU32[b] \in Wires /\ TryFromArms[b] \in Wires
<1> DEFINE Lits == {<<0, 0>>, <<\h5ba8, \h1b19>>, <<\h76b8, \h09bb>>,
                    <<\h374d, \h694f>>, <<\h2bb4, \h0e60>>, <<\hf5b9, \h230b>>,
                    <<\he9ff, \h75a6>>}
<1>1. BranchIdToU32[b] \in Lits /\ TryFromArms[b] \in Lits
  BY DEF BranchIdToU32, TryFromArms, BranchIds
<1>2. \A x, y \in Half : <<x, y>> \in Wires
  BY DEF Wires
<1>3. Lits \subseteq Wires
  <2>1. {0, \h5ba8, \h1b19, \h76b8, \h09bb, \h374d, \h694f, \h2bb4, \h0e60,
         \hf5b9, \h230b, \he9ff, \h75a6} \subseteq Half
    BY DEF Half
  <2>2. QED
    BY <1>2, <2>1
<1>4. QED
  BY <1>1, <1>3

\* Every operation returns a value of its result type.
LEMMA TypeStep == TypeOK /\ [Next]_vars => TypeOK'
<1> SUFFICES ASSUME TypeOK, [Next]_vars PROVE TypeOK'
  OBVIOUS
<1>1. ASSUME NEW net \in Networks, NEW h \in QueryHeights, CallForHeight(net, h)
      PROVE  TypeOK'
  <2>1. h \in Int
    BY QueryTyped DEF Heights
  <2>2. result' \in BranchIds
    BY <1>1, <2>1, ForHeightTyped DEF CallForHeight
  <2>3. QED
    BY <1>1, <2>2 DEF CallForHeight, TypeOK
<1>2. ASSUME NEW net \in Networks, NEW nu \in NetworkUpgrades, NEW h \in QueryHeights,
             CallIsNuActive(net, nu, h)
      PROVE  TypeOK'
  BY <1>2 DEF CallIsNuActive, is_nu_active, TypeOK
<1>3. ASSUME NEW h \in QueryHeights, NEW d \in QueryDeltas, CallHeightAdd(h, d)
      PROVE  TypeOK'
  <2>1. result' \in [panicked : BOOLEAN, val : Heights]
    BY <1>3, QueryTyped, HeightArithTyped DEF CallHeightAdd
  <2>2. QED
    BY <1>3, <2>1 DEF CallHeightAdd, TypeOK
<1>4. ASSUME NEW h \in QueryHeights, NEW d \in QueryDeltas, CallHeightSub(h, d)
      PROVE  TypeOK'
  <2>1. result' \in [panicked : BOOLEAN, val : Heights]
    BY <1>4, QueryTyped, HeightArithTyped DEF CallHeightSub
  <2>2. QED
    BY <1>4, <2>1 DEF CallHeightSub, TypeOK
<1>5. ASSUME NEW x \in QueryIntegers, CallHeightTryFrom(x)
      PROVE  TypeOK'
  <2>1. result' \in [ok : BOOLEAN, val : Heights]
    <3>1. 0 \in Heights
      BY QueryTyped DEF Heights
    <3>2. QED
      BY <1>5, <3>1 DEF CallHeightTryFrom, HeightTryFrom
  <2>2. QED
    BY <1>5, <2>1 DEF CallHeightTryFrom, TypeOK
<1>6. ASSUME NEW w \in QueryWires, CallBranchIdTryFrom(w)
      PROVE  TypeOK'
  <2>1. result' \in [ok : {TRUE}, val : BranchIds] \cup
                    [ok : {FALSE}, val : {"Unknown consensus branch ID"}]
    BY <1>6 DEF CallBranchIdTryFrom, BranchIdTryFrom
  <2>2. QED
    BY <1>6, <2>1 DEF CallBranchIdTryFrom, TypeOK
<1>7. ASSUME NEW b \in BranchIds, CallBranchIdToU32(b)
      PROVE  TypeOK'
  <2>1. result' \in Wires
    BY <1>7, WireTablesTyped DEF CallBranchIdToU32
  <2>2. QED
    BY <1>7, <2>1 DEF CallBranchIdToU32, TypeOK
<1>8. CASE UNCHANGED vars
  BY <1>8 DEF vars, TypeOK
<1>9. QED
  BY <1>1, <1>2, <1>3, <1>4, <1>5, <1>6, <1>7, <1>8 DEF Next


\* Consensus operations return values of their result types: for_height a
\* branch ID, BlockHeight arithmetic a height or a panic, the conversions a
\* height or a branch ID or their errors, and From<BranchId> for u32 a u32.
THEOREM TypeCorrect == Spec => []TypeOK
<1>1. Init => TypeOK
  BY DEF Init, TypeOK
<1>2. QED
  BY <1>1, TypeStep, PTL DEF Spec

-----------------------------------------------------------------------------
(* The branch ID of a height.                                              *)

\* Every for_height call returns the epoch of the activation tables.
LEMMA ForHeightStep ==
    [Next]_vars /\ ForHeightIsLatestActivated => ForHeightIsLatestActivated'
<1> SUFFICES ASSUME [Next]_vars, ForHeightIsLatestActivated
             PROVE  ForHeightIsLatestActivated'
  OBVIOUS
<1>1. ASSUME NEW net \in Networks, NEW h \in QueryHeights, CallForHeight(net, h)
      PROVE  ForHeightIsLatestActivated'
  <2>1. h \in Int
    BY QueryTyped DEF Heights
  <2>2. QED
    BY <1>1, <2>1, TablesOrdered, ForHeightIsEpoch
       DEF CallForHeight, ForHeightIsLatestActivated
<1>2. CASE UNCHANGED vars
  BY <1>2 DEF vars, ForHeightIsLatestActivated
<1>3. QED
  BY <1>1, <1>2 DEF Next, ForHeightIsLatestActivated, CallIsNuActive,
     CallHeightAdd, CallHeightSub, CallHeightTryFrom, CallBranchIdTryFrom,
     CallBranchIdToU32

\* BranchId::for_height returns, on both networks and for every width of
\* the height, the upgrade with the greatest activation height not above
\* the height: the reverse scan of UPGRADES_IN_ORDER agrees with the
\* production activation tables.
THEOREM ForHeightCorrect == Spec => []ForHeightIsLatestActivated
<1>1. Init => ForHeightIsLatestActivated
  BY DEF Init, ForHeightIsLatestActivated
<1>2. QED
  BY <1>1, ForHeightStep, PTL DEF Spec

\* Every is_nu_active call that answers true has the earlier upgrades
\* active too.
LEMMA ActivateInOrderStep ==
    [Next]_vars /\ UpgradesActivateInOrder => UpgradesActivateInOrder'
<1> SUFFICES ASSUME [Next]_vars, UpgradesActivateInOrder
             PROVE  UpgradesActivateInOrder'
  OBVIOUS
<1>1. ASSUME NEW net \in Networks, NEW nu \in NetworkUpgrades, NEW h \in QueryHeights,
             CallIsNuActive(net, nu, h)
      PROVE  UpgradesActivateInOrder'
  <2> SUFFICES ASSUME result', NEW i \in 1 .. 6, NEW j \in 1 .. 6,
                      UPGRADES_IN_ORDER[j] = nu, i < j
               PROVE  is_nu_active(net, UPGRADES_IN_ORDER[i], h)
    BY <1>1, UpgradeList DEF CallIsNuActive, UpgradesActivateInOrder
  <2>1. h \in Int
    BY QueryTyped DEF Heights
  <2>2. Act(net, j) <= h
    BY <1>1 DEF CallIsNuActive, is_nu_active, Act
  <2>3. UPGRADES_IN_ORDER[i] \in NetworkUpgrades
    BY UpgradeList
  <2>4. Act(net, i) \in Nat /\ Act(net, i) # None
        /\ Act(net, j) \in Nat /\ Act(net, j) # None
    BY <2>3, UpgradeList, TableValues DEF Act
  <2>5. Act(net, i) < Act(net, j)
    BY <2>4, TablesOrdered, UpgradeList DEF ActivationsInUpgradeOrder, Act
  <2>6. QED
    BY <2>1, <2>2, <2>4, <2>5 DEF is_nu_active, Act
<1>2. CASE UNCHANGED vars
  BY <1>2 DEF vars, UpgradesActivateInOrder
<1>3. call'.op # "is_nu_active" => UpgradesActivateInOrder'
  BY DEF UpgradesActivateInOrder
<1>4. QED
  BY <1>1, <1>2, <1>3 DEF Next, CallForHeight, CallHeightAdd, CallHeightSub,
     CallHeightTryFrom, CallBranchIdTryFrom, CallBranchIdToU32

\* Parameters::is_nu_active answers true for an upgrade only at heights
\* where every upgrade before it in UPGRADES_IN_ORDER is active as well, on
\* both networks.
THEOREM ActivateInOrder == Spec => []UpgradesActivateInOrder
<1>1. Init => UpgradesActivateInOrder
  BY DEF Init, UpgradesActivateInOrder
<1>2. QED
  BY <1>1, ActivateInOrderStep, PTL DEF Spec

-----------------------------------------------------------------------------
(* Conversions to a height.                                                *)

\* Every step leaves a conversion result that is exact or an error.
LEMMA TryFromExactStep ==
    [Next]_vars /\ HeightTryFromExact => HeightTryFromExact'
<1> SUFFICES ASSUME [Next]_vars, HeightTryFromExact PROVE HeightTryFromExact'
  OBVIOUS
<1>1. ASSUME NEW x \in QueryIntegers, CallHeightTryFrom(x)
      PROVE  HeightTryFromExact'
  BY <1>1 DEF CallHeightTryFrom, HeightTryFrom, HeightTryFromExact
<1>2. CASE UNCHANGED vars
  BY <1>2 DEF vars, HeightTryFromExact
<1>3. call'.op # "height_try_from" => HeightTryFromExact'
  BY DEF HeightTryFromExact
<1>4. QED
  BY <1>1, <1>2, <1>3 DEF Next, CallForHeight, CallIsNuActive, CallHeightAdd,
     CallHeightSub, CallBranchIdTryFrom, CallBranchIdToU32

\* TryFrom<u64>, TryFrom<i32> and TryFrom<i64> for BlockHeight fail exactly
\* on the values outside 0 .. 2^HeightBits - 1 and otherwise return the
\* value itself, at every width.
THEOREM TryFromExact == Spec => []HeightTryFromExact
<1>1. Init => HeightTryFromExact
  BY DEF Init, HeightTryFromExact
<1>2. QED
  BY <1>1, TryFromExactStep, PTL DEF Spec

-----------------------------------------------------------------------------
(* The branch-ID wire tables.                                              *)

\* The two match statements name the same literal for every branch, and
\* no literal twice.
LEMMA ArmsAgree ==
    /\ \A b \in BranchIds : TryFromArms[b] = BranchIdToU32[b]
    /\ \A b1, b2 \in BranchIds : TryFromArms[b1] = TryFromArms[b2] => b1 = b2
BY DEF TryFromArms, BranchIdToU32, BranchIds

\* Every step leaves a decoded value that encodes back, or an encoded value
\* that decodes back.
LEMMA RoundTripStep == [Next]_vars /\ BranchIdRoundTrip => BranchIdRoundTrip'
<1> SUFFICES ASSUME [Next]_vars, BranchIdRoundTrip PROVE BranchIdRoundTrip'
  OBVIOUS
<1>1. ASSUME NEW w \in QueryWires, CallBranchIdTryFrom(w)
      PROVE  BranchIdRoundTrip'
  <2>1. CASE \E b \in BranchIds : TryFromArms[b] = w
    <3>1. PICK c \in BranchIds : c = CHOOSE b \in BranchIds : TryFromArms[b] = w
      BY <2>1
    <3>2. TryFromArms[c] = w
      BY <2>1, <3>1
    <3>3. result' = [ok |-> TRUE, val |-> c]
      BY <1>1, <2>1, <3>1 DEF CallBranchIdTryFrom, BranchIdTryFrom
    <3>4. QED
      BY <1>1, <3>2, <3>3, ArmsAgree DEF CallBranchIdTryFrom, BranchIdRoundTrip
  <2>2. CASE ~\E b \in BranchIds : TryFromArms[b] = w
    BY <1>1, <2>2 DEF CallBranchIdTryFrom, BranchIdTryFrom, BranchIdRoundTrip
  <2>3. QED
    BY <2>1, <2>2
<1>2. ASSUME NEW b \in BranchIds, CallBranchIdToU32(b)
      PROVE  BranchIdRoundTrip'
  <2>1. \A c \in BranchIds : TryFromArms[c] = BranchIdToU32[b] <=> c = b
    BY ArmsAgree
  <2>2. (CHOOSE c \in BranchIds : TryFromArms[c] = BranchIdToU32[b]) = b
    BY <2>1
  <2>3. BranchIdTryFrom(BranchIdToU32[b]) = [ok |-> TRUE, val |-> b]
    BY <2>1, <2>2 DEF BranchIdTryFrom
  <2>4. QED
    BY <1>2, <2>3 DEF CallBranchIdToU32, BranchIdRoundTrip
<1>3. CASE UNCHANGED vars
  BY <1>3 DEF vars, BranchIdRoundTrip
<1>4. QED
  BY <1>1, <1>2, <1>3 DEF Next, BranchIdRoundTrip, CallForHeight,
     CallIsNuActive, CallHeightAdd, CallHeightSub, CallHeightTryFrom

\* impl TryFrom<u32> for BranchId and impl From<BranchId> for u32 are
\* inverse: a wire value that decodes encodes back to itself, and every
\* branch ID decodes back from its encoding.
THEOREM RoundTrip == Spec => []BranchIdRoundTrip
<1>1. Init => BranchIdRoundTrip
  BY DEF Init, BranchIdRoundTrip
<1>2. QED
  BY <1>1, RoundTripStep, PTL DEF Spec


-----------------------------------------------------------------------------
(* Epochs only move forward.                                               *)

\* LastOf picks the greatest index of a nonempty set of upgrade indices.
LEMMA LastOfSpec ==
    \A S \in SUBSET (1 .. 6) :
        S # {} => LastOf(S) \in S /\ \A j \in S : j <= LastOf(S)
<1> SUFFICES ASSUME NEW S \in SUBSET (1 .. 6), S # {}
             PROVE  LastOf(S) \in S /\ \A j \in S : j <= LastOf(S)
  OBVIOUS
<1> QED
  BY LastIndexExists DEF LastOf

\* On a network, the upgrades active at a height are active at every later
\* height.
LEMMA ActiveGrows ==
    ASSUME NEW net \in Networks, NEW h1 \in Int, NEW h2 \in Int, h1 <= h2,
           NEW i \in 1 .. 6, is_nu_active(net, UPGRADES_IN_ORDER[i], h1)
    PROVE  is_nu_active(net, UPGRADES_IN_ORDER[i], h2)
<1>1. activation_height(net, UPGRADES_IN_ORDER[i]) \in Int
  BY UpgradeList, TableValues
<1>2. QED
  BY <1>1 DEF is_nu_active

\* BranchId::for_height never goes back as the height grows: a height
\* after one that resolves to an upgrade's branch resolves to that upgrade
\* or a later one of UPGRADES_IN_ORDER, and a height before one that
\* resolves to Sprout resolves to Sprout.  The activation tables need not
\* be ordered for this; the reverse scan alone guarantees it.
THEOREM ForHeightMonotone ==
    ASSUME NEW net \in Networks, NEW h1 \in Int, NEW h2 \in Int, h1 <= h2
    PROVE  /\ for_height(net, h2) = "Sprout" => for_height(net, h1) = "Sprout"
           /\ \A i \in 1 .. 6 :
                 for_height(net, h1) = UPGRADES_IN_ORDER[i] =>
                    \E j \in i .. 6 : for_height(net, h2) = UPGRADES_IN_ORDER[j]
<1> DEFINE U == UPGRADES_IN_ORDER
           A1 == {k \in 1 .. Len(U) : is_nu_active(net, U[k], h1)}
           A2 == {k \in 1 .. Len(U) : is_nu_active(net, U[k], h2)}
<1>1. A1 \in SUBSET (1 .. 6) /\ A2 \in SUBSET (1 .. 6) /\ A1 \subseteq A2
  BY UpgradeList, ActiveGrows
<1>2. ASSUME NEW S \in SUBSET (1 .. 6), S # {}
      PROVE  /\ branch_id[U[LastOf(S)]] = U[LastOf(S)]
             /\ U[LastOf(S)] # "Sprout"
  <2>1. LastOf(S) \in 1 .. 6
    <3>1. LastOf(S) \in S
      BY <1>2, LastOfSpec
    <3>2. QED
      BY <3>1
  <2>2. U[LastOf(S)] \in NetworkUpgrades
    BY <2>1, UpgradeList
  <2>3. QED
    BY <2>2, TableValues DEF NetworkUpgrades
<1>3. A2 # {} => for_height(net, h2) = U[LastOf(A2)]
  BY <1>1, <1>2 DEF for_height
<1>4. A1 # {} => for_height(net, h1) = U[LastOf(A1)]
  BY <1>1, <1>2 DEF for_height
<1>5. for_height(net, h2) = "Sprout" => for_height(net, h1) = "Sprout"
  <2> SUFFICES ASSUME for_height(net, h2) = "Sprout" PROVE for_height(net, h1) = "Sprout"
    OBVIOUS
  <2>1. A2 = {}
    BY <1>1, <1>2, <1>3
  <2>2. A1 = {}
    BY <1>1, <2>1
  <2>3. QED
    BY <2>2 DEF for_height
<1>6. ASSUME NEW i \in 1 .. 6, for_height(net, h1) = U[i]
      PROVE  \E j \in i .. 6 : for_height(net, h2) = U[j]
  <2>1. A1 # {}
    <3>1. U[i] # "Sprout"
      BY UpgradeList DEF NetworkUpgrades
    <3>2. QED
      BY <1>6, <3>1 DEF for_height
  <2>2. LastOf(A1) = i
    <3>1. LastOf(A1) \in 1 .. 6 /\ U[LastOf(A1)] = U[i]
      BY <1>1, <1>4, <1>6, <2>1, LastOfSpec
    <3>2. QED
      BY <3>1, UpgradeList
  <2>3. i \in A2 /\ A2 # {}
    BY <1>1, <2>1, <2>2, LastOfSpec
  <2>4. LastOf(A2) \in i .. 6
    <3>1. LastOf(A2) \in A2 /\ \A j \in A2 : j <= LastOf(A2)
      BY <1>1, <2>3, LastOfSpec
    <3>2. QED
      BY <1>1, <2>3, <3>1
  <2>5. QED
    BY <1>3, <2>3, <2>4
<1>7. QED
  BY <1>5, <1>6


-----------------------------------------------------------------------------
(* Where BlockHeight + u32 goes wrong.                                     *)

\* impl Add<u32> for BlockHeight returns the sum whenever it fits in the
\* height's width; when it does not, a release build returns the sum less
\* 2^HeightBits, which is below the height added to.  So the lower heights
\* the height_add_wraps run finds occur at every width, and exactly on
\* overflow.
THEOREM AddWrapsExactlyOnOverflow ==
    ASSUME NEW h \in Heights, NEW d \in Heights
    PROVE  /\ h + d <= U32Max => HeightAdd(h, d) = {Returned(h + d)}
           /\ h + d > U32Max =>
                 /\ Returned(h + d - (U32Max + 1)) \in HeightAdd(h, d)
                 /\ h + d - (U32Max + 1) < h
<1>1. PICK m \in Nat : m = U32Max
  BY QueryTyped
<1>2. h \in 0 .. m /\ d \in 0 .. m
  BY <1>1 DEF Heights
<1>3. h + d > m => (h + d) % (m + 1) = h + d - (m + 1)
  BY <1>2
<1>4. QED
  BY <1>1, <1>2, <1>3 DEF HeightAdd

=============================================================================
