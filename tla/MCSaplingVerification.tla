----------------------- MODULE MCSaplingVerification -----------------------
(***************************************************************************)
(* Small instance of SaplingVerification for TLC.  Commitments range over  *)
(* values -1..3 (-1 and 3 are values no note can have), blinds 0..1        *)
(* and a torsion subgroup of order 2, so identity, small-order,            *)
(* mixed-order and honest commitments all occur.  Three descriptions are   *)
(* enough for a transaction with two spends and an output, or for an      *)
(* accepted and a rejected description on both sides.  MinAmount stands    *)
(* for i64::MIN, below every other amount.                                 *)
(***************************************************************************)
EXTENDS SaplingVerification

MCNoteValues == 0 .. 2
MCCommitValues == -1 .. 3
MCBlinds == 0 .. 1
MCTorsion == 2
MCMinAmount == -3
MCBalances == {MCMinAmount} \cup (-2 .. 2)
MCMaxCalls == 3

=============================================================================
