---------------------------- MODULE MCConsensus ----------------------------
(***************************************************************************)
(* Instance of Consensus for TLC.  Heights are 30 bits wide, the widest    *)
(* TLC's integers allow with room for a sum of two heights; the activation *)
(* heights (at most 30 000 000) fit.  The heights asked about are 0, the   *)
(* largest height, and every activation height of either network with its *)
(* two neighbours: for_height only changes value at those heights.         *)
(***************************************************************************)
EXTENDS Consensus

MCHeightBits == 30

MCQueryHeights ==
    {0, 2^MCHeightBits - 1} \cup
    {ActivationTable[net][nu] + k : net \in Networks, nu \in NetworkUpgrades, k \in -1 .. 1}

MCQueryDeltas == {0, 1, 2^MCHeightBits - 1}

MCQueryIntegers == {-1, 0, 347500, 2^MCHeightBits - 1, 2^MCHeightBits}

\* The seven wire values of the branch IDs, 1 (rejected by the unit test),
\* ZFuture's 0xffff_ffff (unknown without the feature) and Overwinter's
\* value with its halves swapped.
MCQueryWires ==
    {BranchIdToU32[b] : b \in BranchIds} \cup
    {<<0, 1>>, <<\hffff, \hffff>>, <<\h1b19, \h5ba8>>}

=============================================================================
