------------------------------ MODULE Consensus ------------------------------
(***************************************************************************)
(* Consensus parameters of zcash_primitives (consensus.rs): block heights  *)
(* and their arithmetic, the activation heights of the network upgrades    *)
(* on the main and test networks, is_nu_active, the branch ID active at a  *)
(* height (BranchId::for_height) and the u32 wire encoding of branch IDs.  *)
(*                                                                         *)
(* All of it is pure: these are the operators the code computes.  The      *)
(* u32 of a height is kept at width HeightBits (32 in the code); a u32     *)
(* wire value is written as its two 16-bit halves, the way the code's      *)
(* literals are grouped (0x5ba8_1b19 is <<\h5ba8, \h1b19>>).               *)
(* The zfuture feature (NetworkUpgrade::ZFuture) is not compiled in.       *)
(*                                                                         *)
(* The state is the last call a caller made and what it returned; each     *)
(* action is one of the operations, applied to inputs from small sets.     *)
(***************************************************************************)
EXTENDS Integers, Sequences

CONSTANTS
    HeightBits,     \* width of the integer inside BlockHeight
    None,           \* Option::None
    QueryHeights,   \* heights a caller asks about
    QueryDeltas,    \* u32 deltas a caller adds to or subtracts from a height
    QueryIntegers,  \* u64/i32/i64 values a caller converts to a height
    QueryWires      \* u32 values a caller decodes as a branch ID

U32Max == 2^HeightBits - 1

Heights == 0 .. U32Max

\* A u16, one half of a u32 wire value.
Half == 0 .. 65535

\* A u32 wire value, as its two 16-bit halves.
Wires == Half \X Half

ASSUME HeightBitsAssumption == HeightBits \in Nat \ {0}
ASSUME NoneAssumption == None \notin Int
ASSUME QueryHeightsAssumption == QueryHeights \subseteq Heights
ASSUME QueryDeltasAssumption == QueryDeltas \subseteq Heights
ASSUME QueryIntegersAssumption == QueryIntegers \subseteq Int
ASSUME QueryWiresAssumption == QueryWires \subseteq Wires

VARIABLES
    call,     \* the operation last called and its arguments
    result    \* what it returned

vars == <<call, result>>

-----------------------------------------------------------------------------
(* BlockHeight arithmetic and conversions (lines 10-124).                  *)

\* The outcome of an arithmetic operation that may panic.
Returned(x) == [panicked |-> FALSE, val |-> x]

Panicked == [panicked |-> TRUE, val |-> 0]

\* impl Add<u32> for BlockHeight: self.0 + other.  On overflow a debug build
\* panics and a release build wraps; both builds are possible outcomes.
HeightAdd(h, d) ==
    IF h + d <= U32Max THEN {Returned(h + d)}
    ELSE {Panicked, Returned((h + d) % (U32Max + 1))}

\* impl Sub<u32> for BlockHeight: panics when other > self.0.
HeightSub(h, d) ==
    IF d > h THEN {Panicked} ELSE {Returned(h - d)}

\* Fault model for HeightTryFrom: the value is taken without a range check.
HeightTryFromUnchecked(x) == [ok |-> TRUE, val |-> x]

\* Fault model for HeightTryFrom: `value as u32`, which truncates to the
\* width instead of failing.
HeightTryFromTruncating(x) == [ok |-> TRUE, val |-> x % (U32Max + 1)]

\* TryFrom<u64 | i32 | i64> for BlockHeight: u32::try_from(value).
HeightTryFrom(x) ==
    IF x \in Heights THEN [ok |-> TRUE, val |-> x] ELSE [ok |-> FALSE, val |-> 0]

-----------------------------------------------------------------------------
(* Network upgrades, branch IDs and the activation tables.                 *)

NetworkUpgrades == {"Overwinter", "Sapling", "Ycash", "Blossom", "Heartwood", "Canopy"}

BranchIds == {"Sprout", "Overwinter", "Sapling", "Ycash", "Blossom", "Heartwood", "Canopy"}

Networks == {"MainNetwork", "TestNetwork"}

\* const UPGRADES_IN_ORDER
UPGRADES_IN_ORDER == <<"Overwinter", "Sapling", "Ycash", "Blossom", "Heartwood", "Canopy">>

\* NetworkUpgrade::branch_id
branch_id ==
    [Overwinter |-> "Overwinter", Sapling |-> "Sapling", Ycash |-> "Ycash",
     Blossom |-> "Blossom", Heartwood |-> "Heartwood", Canopy |-> "Canopy"]

\* impl Parameters for MainNetwork: activation_height.
MainNetworkActivation ==
    [Overwinter |-> 347500, Sapling |-> 419200, Ycash |-> 570000,
     Blossom |-> 10000000, Heartwood |-> 20000000, Canopy |-> 30000000]

\* Fault model for TestNetworkActivation: a test-network height entered
\* below the one of the upgrade before it.
TestNetworkActivationMisordered ==
    [Overwinter |-> 207500, Sapling |-> 280000, Ycash |-> 270000,
     Blossom |-> 10000000, Heartwood |-> 20000000, Canopy |-> 30000000]

\* impl Parameters for TestNetwork: activation_height.
TestNetworkActivation ==
    [Overwinter |-> 207500, Sapling |-> 280000, Ycash |-> 510248,
     Blossom |-> 10000000, Heartwood |-> 20000000, Canopy |-> 30000000]

\* impl Parameters for Network: activation_height forwards to the network
\* the variant names.
ActivationTable ==
    [MainNetwork |-> MainNetworkActivation, TestNetwork |-> TestNetworkActivation]

\* Parameters::activation_height(nu) on the given network.
activation_height(net, nu) == ActivationTable[net][nu]

\* Fault model for is_nu_active: the activation height itself is excluded.
is_nu_active_exclusive(net, nu, height) ==
    /\ activation_height(net, nu) # None
    /\ activation_height(net, nu) < height

\* Parameters::is_nu_active: activation_height(nu).map_or(false, |h| h <= height)
is_nu_active(net, nu, height) ==
    /\ activation_height(net, nu) # None
    /\ activation_height(net, nu) <= height

\* The greatest element of a nonempty finite set of integers.
LastOf(S) == CHOOSE i \in S : \A j \in S : j <= i

\* BranchId::for_height: scan UPGRADES_IN_ORDER from the end and return the
\* branch of the first upgrade active at height, i.e. of the active upgrade
\* of greatest index; Sprout when none is.
for_height(net, height) ==
    LET active == {i \in 1 .. Len(UPGRADES_IN_ORDER) :
                      is_nu_active(net, UPGRADES_IN_ORDER[i], height)}
    IN  IF active = {} THEN "Sprout"
        ELSE branch_id[UPGRADES_IN_ORDER[LastOf(active)]]

\* impl From<BranchId> for u32, as 16-bit halves.
BranchIdToU32 ==
    [Sprout    |-> <<0, 0>>,           Overwinter |-> <<\h5ba8, \h1b19>>,
     Sapling   |-> <<\h76b8, \h09bb>>, Ycash      |-> <<\h374d, \h694f>>,
     Blossom   |-> <<\h2bb4, \h0e60>>, Heartwood  |-> <<\hf5b9, \h230b>>,
     Canopy    |-> <<\he9ff, \h75a6>>]

\* Fault model for TryFromArms: the Heartwood and Canopy literals are
\* exchanged in the match.
TryFromArmsSwapped ==
    [Sprout    |-> <<0, 0>>,           Overwinter |-> <<\h5ba8, \h1b19>>,
     Sapling   |-> <<\h76b8, \h09bb>>, Ycash      |-> <<\h374d, \h694f>>,
     Blossom   |-> <<\h2bb4, \h0e60>>, Heartwood  |-> <<\he9ff, \h75a6>>,
     Canopy    |-> <<\hf5b9, \h230b>>]

\* The arms of the match in impl TryFrom<u32> for BranchId: for each branch,
\* the literal that decodes to it.
TryFromArms ==
    [Sprout    |-> <<0, 0>>,           Overwinter |-> <<\h5ba8, \h1b19>>,
     Sapling   |-> <<\h76b8, \h09bb>>, Ycash      |-> <<\h374d, \h694f>>,
     Blossom   |-> <<\h2bb4, \h0e60>>, Heartwood  |-> <<\hf5b9, \h230b>>,
     Canopy    |-> <<\he9ff, \h75a6>>]

\* impl TryFrom<u32> for BranchId: the branch whose arm matches the literal,
\* or the error "Unknown consensus branch ID".
BranchIdTryFrom(w) ==
    IF \E b \in BranchIds : TryFromArms[b] = w
    THEN [ok |-> TRUE, val |-> CHOOSE b \in BranchIds : TryFromArms[b] = w]
    ELSE [ok |-> FALSE, val |-> "Unknown consensus branch ID"]

-----------------------------------------------------------------------------
(* The operations, one action each.                                        *)

Init ==
    /\ call = [op |-> "none"]
    /\ result = [ok |-> TRUE, val |-> 0]

CallForHeight(net, h) ==
    /\ call' = [op |-> "for_height", net |-> net, height |-> h]
    /\ result' = for_height(net, h)

CallIsNuActive(net, nu, h) ==
    /\ call' = [op |-> "is_nu_active", net |-> net, nu |-> nu, height |-> h]
    /\ result' = is_nu_active(net, nu, h)

CallHeightAdd(h, d) ==
    /\ call' = [op |-> "add", height |-> h, delta |-> d]
    /\ result' \in HeightAdd(h, d)

CallHeightSub(h, d) ==
    /\ call' = [op |-> "sub", height |-> h, delta |-> d]
    /\ result' \in HeightSub(h, d)

CallHeightTryFrom(x) ==
    /\ call' = [op |-> "height_try_from", value |-> x]
    /\ result' = HeightTryFrom(x)

CallBranchIdTryFrom(w) ==
    /\ call' = [op |-> "branch_try_from", wire |-> w]
    /\ result' = BranchIdTryFrom(w)

CallBranchIdToU32(b) ==
    /\ call' = [op |-> "branch_to_u32", branch |-> b]
    /\ result' = BranchIdToU32[b]

Next ==
    \/ \E net \in Networks, h \in QueryHeights : CallForHeight(net, h)
    \/ \E net \in Networks, nu \in NetworkUpgrades, h \in QueryHeights :
          CallIsNuActive(net, nu, h)
    \/ \E h \in QueryHeights, d \in QueryDeltas : CallHeightAdd(h, d)
    \/ \E h \in QueryHeights, d \in QueryDeltas : CallHeightSub(h, d)
    \/ \E x \in QueryIntegers : CallHeightTryFrom(x)
    \/ \E w \in QueryWires : CallBranchIdTryFrom(w)
    \/ \E b \in BranchIds : CallBranchIdToU32(b)

Spec == Init /\ [][Next]_vars

-----------------------------------------------------------------------------
(* Properties.                                                             *)

\* Type invariant: each operation returns a value of its result type.
TypeOK ==
    /\ call.op \in {"none", "for_height", "is_nu_active", "add", "sub",
                    "height_try_from", "branch_try_from", "branch_to_u32"}
    /\ call.op = "for_height" => result \in BranchIds
    /\ call.op = "is_nu_active" => result \in BOOLEAN
    /\ call.op \in {"add", "sub"} => result \in [panicked : BOOLEAN, val : Heights]
    /\ call.op = "height_try_from" => result \in [ok : BOOLEAN, val : Heights]
    /\ call.op = "branch_try_from" =>
          result \in [ok : {TRUE}, val : BranchIds] \cup
                     [ok : {FALSE}, val : {"Unknown consensus branch ID"}]
    /\ call.op = "branch_to_u32" => result \in Wires

\* The epoch in force at a height, as ZIP 200 defines it from the activation
\* table alone: the upgrade with the greatest activation height not above
\* the height (activation is inclusive), or Sprout before every upgrade.
EpochAt(net, h) ==
    LET reached == {nu \in NetworkUpgrades :
                      ActivationTable[net][nu] # None /\ ActivationTable[net][nu] <= h}
    IN  IF reached = {} THEN "Sprout"
        ELSE CHOOSE nu \in reached :
                 \A o \in reached : ActivationTable[net][o] <= ActivationTable[net][nu]

\* On every network, the activation heights strictly increase along
\* UPGRADES_IN_ORDER where both are set (spec section 8).  The order is
\* written by hand beside the tables, and the nu_ordering test checks it
\* on MAIN_NETWORK only.
ActivationsInUpgradeOrder ==
    \A net \in Networks, i, j \in 1 .. Len(UPGRADES_IN_ORDER) :
        LET hi == activation_height(net, UPGRADES_IN_ORDER[i])
            hj == activation_height(net, UPGRADES_IN_ORDER[j])
        IN  (i < j /\ hi # None /\ hj # None) => hi < hj

\* What for_height's reverse scan relies on, seen from is_nu_active: an
\* upgrade reported active at a height has every upgrade before it in
\* UPGRADES_IN_ORDER active there too, on either network.
UpgradesActivateInOrder ==
    (call.op = "is_nu_active" /\ result) =>
        \A i, j \in 1 .. Len(UPGRADES_IN_ORDER) :
            (UPGRADES_IN_ORDER[j] = call.nu /\ i < j) =>
                is_nu_active(call.net, UPGRADES_IN_ORDER[i], call.height)

\* BranchId::for_height returns the epoch in force at the height on the given
\* network.  UPGRADES_IN_ORDER and the activation tables are maintained by
\* hand as two structures; the scan is right only while they agree.
ForHeightIsLatestActivated ==
    call.op = "for_height" => result = EpochAt(call.net, call.height)

\* The two hand-written u32 tables of BranchId agree: a decoded wire value
\* encodes back to itself, and an encoded branch ID decodes to itself.
BranchIdRoundTrip ==
    /\ (call.op = "branch_try_from" /\ result.ok) => BranchIdToU32[result.val] = call.wire
    /\ call.op = "branch_to_u32" => BranchIdTryFrom(result) = [ok |-> TRUE, val |-> call.branch]

\* TryFrom<u64>, TryFrom<i32> and TryFrom<i64> for BlockHeight fail exactly
\* on the values a u32 cannot hold (negative ones and those above u32::MAX),
\* and otherwise return that very value: no height is made up by
\* truncation or wrap-around.
HeightTryFromExact ==
    call.op = "height_try_from" =>
        /\ result.ok <=> call.value \in Heights
        /\ result.ok => result.val = call.value

\* Adding a delta to a height never yields a lower height (the doc comment of
\* BlockHeight promises safe addition): it either returns the sum or panics.
HeightAddMonotone ==
    call.op = "add" => (result.panicked \/ result.val >= call.height)

=============================================================================
