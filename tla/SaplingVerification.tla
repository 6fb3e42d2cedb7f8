------------------------- MODULE SaplingVerification -------------------------
(***************************************************************************)
(* The Sapling verification context of zcash_proofs (sapling/verifier.rs): *)
(* a per-transaction accumulator cv_sum of value commitments, fed by       *)
(* check_spend (adds cv) and check_output (subtracts cv), and consumed by  *)
(* final_check, which subtracts the commitment to the declared value       *)
(* balance and verifies the binding signature over the result.             *)
(*                                                                         *)
(* Data abstraction.  A Jubjub point is represented by its coordinates     *)
(* over the value-commitment generators: v over the value generator, r     *)
(* over the randomness generator, and t, its component in the small-order  *)
(* (torsion) subgroup of order Torsion.  Point addition is componentwise.  *)
(* The cryptographic collaborators are abstracted by what they guarantee:  *)
(*  - a Groth16 proof accepted for a description commits cv to a note     *)
(*    value in NoteValues, in the prime-order subgroup (soundness);        *)
(*  - a RedJubjub signature verifies under a key only if the signer knows  *)
(*    the key's discrete log to the signing generator; for the binding    *)
(*    key bvk this means bvk has no component over the value generator;   *)
(*    verification is cofactored, so the torsion part is not seen;        *)
(*  - with zip216_enabled, a non-canonical signature encoding is refused.  *)
(* The caller is the environment: it may call the three operations in any  *)
(* order and any number of times, as the code allows.  The variables       *)
(* accepted, all_ok, verdict, declared and calls are the history of those  *)
(* calls, not state of the code.                                           *)
(***************************************************************************)
EXTENDS Integers

CONSTANTS
    NoteValues,     \* values a note may carry (the range the circuits enforce)
    CommitValues,   \* v-components of the commitments a caller may present
    Blinds,         \* r-components of the commitments a caller may present
    Torsion,        \* order of the small-order subgroup (the cofactor)
    Balances,       \* valueBalance amounts a caller may declare
    MinAmount,      \* the one amount compute_value_balance cannot negate
    MaxCalls,       \* bound on the number of spend/output checks
    None            \* the absent result of compute_value_balance

ASSUME NoteValuesAssumption == NoteValues \subseteq Nat
ASSUME CommitValuesAssumption == CommitValues \subseteq Int
ASSUME BlindsAssumption == Blinds \subseteq Int
ASSUME TorsionAssumption == Torsion \in Nat \ {0}
ASSUME BalancesAssumption == Balances \subseteq Int /\ MinAmount \in Balances
ASSUME MaxCallsAssumption == MaxCalls \in Nat
ASSUME NoneAssumption == None \notin [v : Int, r : Int, t : Int]

VARIABLES
    cv_sum,          \* SaplingVerificationContext.cv_sum
    zip216_enabled,  \* SaplingVerificationContext.zip216_enabled
    accepted,        \* history: signed sum of the commitments of calls that returned true
    all_ok,          \* history: every call so far returned true
    verdict,         \* history: result of final_check since the last description
    declared,        \* history: valueBalance of that final_check
    calls            \* history: number of spend/output checks made

vars == <<cv_sum, zip216_enabled, accepted, all_ok, verdict, declared, calls>>

-----------------------------------------------------------------------------
(* Points and the operations of the curve library that the code uses.      *)

Point == [v : Int, r : Int, t : 0 .. Torsion - 1]

Identity == [v |-> 0, r |-> 0, t |-> 0]

PAdd(p, q) == [v |-> p.v + q.v, r |-> p.r + q.r, t |-> (p.t + q.t) % Torsion]

PSub(p, q) == [v |-> p.v - q.v, r |-> p.r - q.r, t |-> (p.t - q.t) % Torsion]

\* is_small_order: [8]P is the identity, i.e. P lies in the torsion subgroup.
IsSmallOrder(p) == p.v = 0 /\ p.r = 0

\* The commitments (and keys) a caller may present: any point of the curve
\* with the given coordinates, small-order and mixed-order points included.
Commitments == [v : CommitValues, r : Blinds, t : 0 .. Torsion - 1]

SigEncodings == {"Canonical", "NonCanonical", "Forged"}

-----------------------------------------------------------------------------
(* The cryptographic checks, abstracted by what they guarantee.            *)

\* verify_with_zip216(msg, sig, generator, zip216_enabled): a signature by the
\* holder of the key verifies; its non-canonical encoding only before ZIP 216.
VerifyWithZip216(keyKnown, sig) ==
    /\ keyKnown
    /\ \/ sig = "Canonical"
       \/ sig = "NonCanonical" /\ ~zip216_enabled

\* Fault model for ProofOutcomes: cv is left out of the public input, so the
\* proof no longer binds the commitment and any cv may pass.
ProofOutcomesUnbound(cv) == BOOLEAN

\* Fault model for ProofOutcomes: the public input is built from the
\* cofactor-cleared cv ([8]cv) rather than cv, so the proof binds the value
\* of cv but no longer its torsion component.
ProofOutcomesCofactorCleared(cv) ==
    IF cv.v \in NoteValues THEN BOOLEAN ELSE {FALSE}

\* verify_proof(verifying_key, zkproof, public_input): by soundness, a proof is
\* accepted only for a cv committing to a note value in the prime-order group.
ProofOutcomes(cv) ==
    IF cv.t = 0 /\ cv.v \in NoteValues THEN BOOLEAN ELSE {FALSE}

\* compute_value_balance: the commitment value_balance * V, or None when the
\* amount has no absolute value.
ComputeValueBalance(value_balance) ==
    IF value_balance = MinAmount
    THEN None
    ELSE [v |-> value_balance, r |-> 0, t |-> 0]

-----------------------------------------------------------------------------
(* The context's state changes.                                            *)

\* self.cv_sum += cv
AccumulateSpend(cv) == PAdd(cv_sum, cv)

\* Fault model for AccumulateOutput: the output commitment is added.
AccumulateOutputAdds(cv) == PAdd(cv_sum, cv)

\* self.cv_sum -= cv
AccumulateOutput(cv) == PSub(cv_sum, cv)

\* bvk = cv_sum - value_balance
BindingKey(vb) == PSub(cv_sum, vb)

\* What the caller learns from a spend or output check that returned ok.
RecordDescription(ok, signedCv) ==
    /\ accepted' = IF ok THEN PAdd(accepted, signedCv) ELSE accepted
    /\ all_ok' = (all_ok /\ ok)
    /\ verdict' = "Pending"
    /\ calls' = calls + 1
    /\ UNCHANGED <<zip216_enabled, declared>>

-----------------------------------------------------------------------------

\* SaplingVerificationContext::new(zip216_enabled)
Init ==
    /\ cv_sum = Identity
    /\ zip216_enabled \in BOOLEAN
    /\ accepted = Identity
    /\ all_ok = TRUE
    /\ verdict = "Pending"
    /\ declared = 0
    /\ calls = 0

\* check_spend(cv, anchor, nullifier, rk, sighash, spend_auth_sig, zkproof, vk):
\* reject small-order cv or rk; accumulate cv; verify spend_auth_sig, then
\* the proof.  Anchor, nullifier and sighash only feed the signature and the
\* proof, whose outcomes are chosen here.
check_spend(cv, rkSmall, sig, proofOk) ==
    /\ calls < MaxCalls
    /\ IF IsSmallOrder(cv) \/ rkSmall
       THEN /\ cv_sum' = cv_sum
            /\ RecordDescription(FALSE, cv)
       ELSE /\ cv_sum' = AccumulateSpend(cv)
            /\ RecordDescription(VerifyWithZip216(TRUE, sig) /\ proofOk, cv)

\* check_output(cv, cmu, epk, zkproof, vk): reject small-order cv or epk;
\* subtract cv; verify the proof.
check_output(cv, epkSmall, proofOk) ==
    /\ calls < MaxCalls
    /\ IF IsSmallOrder(cv) \/ epkSmall
       THEN /\ cv_sum' = cv_sum
            /\ RecordDescription(FALSE, PSub(Identity, cv))
       ELSE /\ cv_sum' = AccumulateOutput(cv)
            /\ RecordDescription(proofOk, PSub(Identity, cv))

\* final_check(value_balance, sighash, binding_sig) takes &self: the context
\* is left as it is, and may be checked again or extended afterwards.
final_check(value_balance, sig) ==
    LET vb == ComputeValueBalance(value_balance)
        ok == /\ vb # None
              /\ VerifyWithZip216(BindingKey(vb).v = 0, sig)
    IN  /\ verdict' = IF ok THEN "Valid" ELSE "Invalid"
        /\ declared' = value_balance
        /\ all_ok' = (all_ok /\ ok)
        /\ UNCHANGED <<cv_sum, zip216_enabled, accepted, calls>>

Next ==
    \/ \E cv \in Commitments, rkSmall \in BOOLEAN, sig \in SigEncodings :
          \E proofOk \in ProofOutcomes(cv) : check_spend(cv, rkSmall, sig, proofOk)
    \/ \E cv \in Commitments, epkSmall \in BOOLEAN :
          \E proofOk \in ProofOutcomes(cv) : check_output(cv, epkSmall, proofOk)
    \/ \E value_balance \in Balances, sig \in SigEncodings :
          final_check(value_balance, sig)

Spec == Init /\ [][Next]_vars

-----------------------------------------------------------------------------
(* Properties.                                                             *)

\* Type invariant.
TypeOK ==
    /\ cv_sum \in Point
    /\ zip216_enabled \in BOOLEAN
    /\ accepted \in Point
    /\ all_ok \in BOOLEAN
    /\ verdict \in {"Pending", "Valid", "Invalid"}
    /\ declared \in Balances \cup {0}
    /\ calls \in 0 .. MaxCalls

\* Value conservation, the purpose of the binding signature: when every
\* check_spend, check_output and final_check a caller made returned true, the
\* values committed by the accepted spends minus those of the accepted outputs
\* equal the valueBalance declared to the last final_check.
ValueConservation ==
    (verdict = "Valid" /\ all_ok) => accepted.v = declared

\* A transaction the validator can still accept never has torsion in its
\* accumulator.  is_small_order (lines 45 and 111) only turns away points
\* of small order: a mixed-order cv, a note commitment plus a torsion
\* point, passes it and is added to cv_sum before anything else is
\* checked, and the cofactored binding check of final_check cannot see the
\* torsion part.  What keeps it out of every accepted transaction is the
\* proof, whose public input carries cv's coordinates (lines 79-83).
PrimeOrderWhileOk ==
    all_ok => cv_sum.t = 0

\* The running sum holds exactly the signed sum of the commitments of the
\* descriptions that were accepted (spec section 8, accumulator additivity:
\* for c1..cn accepted by check_spend and d1..dm by check_output, the
\* running sum is the sum of the ci minus the sum of the dj).
\* check_spend and check_output add cv before the signature and the proof
\* are checked, so a rejected description stays in cv_sum.
AccumulatorOfAccepted ==
    cv_sum = accepted

\* The context implements the value ledger it promises (ShieldedValueLedger):
\* the ledger's net amount is the value part of the accepted descriptions.
\* Every check_spend, check_output and final_check, in any order and any
\* number, is a step of the ledger: an accepted description moves the net by
\* a note value, and a final_check passes on a transaction whose calls all
\* passed only when the net is the declared value balance.
Ledger == INSTANCE ShieldedValueLedger
              WITH net <- accepted.v, ok <- all_ok, verdict <- verdict,
                   declared <- declared

LedgerRefinement == Ledger!LSpec

=============================================================================
