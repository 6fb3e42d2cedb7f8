--------------------- MODULE SaplingVerificationProofs ---------------------
(***************************************************************************)
(* Proofs about SaplingVerification for every value of its constants:      *)
(* type correctness, and value conservation from the inductive invariant   *)
(* IInv.                                                                   *)
(***************************************************************************)
EXTENDS SaplingVerification, TLAPS

(***************************************************************************)
(* ValueConservation is not inductive: a final_check step that accepts     *)
(* only learns that cv_sum has value component `declared`, and a          *)
(* description step keeps all_ok only if the commitment it adds to cv_sum  *)
(* is also added to accepted.  IInv says both: while every call returned   *)
(* true, cv_sum and accepted have the same value component, and an         *)
(* accepting verdict pins the value component of cv_sum to the declared    *)
(* balance.                                                                *)
(***************************************************************************)
IInv ==
    /\ TypeOK
    /\ all_ok => cv_sum.v = accepted.v
    /\ verdict = "Valid" => cv_sum.v = declared

-----------------------------------------------------------------------------
(* Lemmas about the point operations.                                      *)

\* Adding or subtracting points yields a point: the torsion part is reduced.
LEMMA PointClosed ==
    ASSUME NEW p \in Point, NEW q \in Point
    PROVE  /\ PAdd(p, q) \in Point
           /\ PSub(p, q) \in Point
BY TorsionAssumption DEF Point, PAdd, PSub

\* Every commitment a caller may present, and the identity, are points.
LEMMA CommitmentsArePoints ==
    /\ Commitments \subseteq Point
    /\ Identity \in Point
<1>1. Commitments \subseteq Point
  <2> SUFFICES ASSUME NEW c \in Commitments PROVE c \in Point
    BY DEF Commitments, Point
  <2> QED
    BY CommitValuesAssumption, BlindsAssumption DEF Commitments, Point
<1>2. Identity \in Point
  BY TorsionAssumption DEF Identity, Point
<1>3. QED
  BY <1>1, <1>2

\* The commitment of a declared balance is a point with that value part.
LEMMA ValueBalancePoint ==
    ASSUME NEW b \in Balances, ComputeValueBalance(b) # None
    PROVE  /\ ComputeValueBalance(b) \in Point
           /\ ComputeValueBalance(b).v = b
BY BalancesAssumption, TorsionAssumption DEF ComputeValueBalance, Point

\* Recording a description keeps every history variable in its type.
LEMMA RecordTyped ==
    ASSUME TypeOK, NEW ok \in BOOLEAN, NEW d, PAdd(accepted, d) \in Point,
           calls < MaxCalls, RecordDescription(ok, d)
    PROVE  /\ accepted' \in Point
           /\ zip216_enabled' \in BOOLEAN
           /\ all_ok' \in BOOLEAN
           /\ verdict' \in {"Pending", "Valid", "Invalid"}
           /\ declared' \in Balances \cup {0}
           /\ calls' \in 0 .. MaxCalls
<1>1. accepted' \in Point
  <2>1. CASE ok
    BY <2>1 DEF RecordDescription
  <2>2. CASE ~ok
    BY <2>2 DEF RecordDescription, TypeOK
  <2>3. QED
    BY <2>1, <2>2
<1>2. calls' \in 0 .. MaxCalls
  BY MaxCallsAssumption DEF RecordDescription, TypeOK
<1>3. QED
  BY <1>1, <1>2 DEF RecordDescription, TypeOK

-----------------------------------------------------------------------------
(* Type correctness.                                                       *)

\* Every step of the context keeps its state well typed.
LEMMA TypeStep == TypeOK /\ [Next]_vars => TypeOK'
<1>2. TypeOK /\ [Next]_vars => TypeOK'
  <2> SUFFICES ASSUME TypeOK, [Next]_vars PROVE TypeOK'
    OBVIOUS
  <2>1. ASSUME NEW cv \in Commitments, NEW rkSmall \in BOOLEAN,
               NEW sig \in SigEncodings, NEW proofOk \in ProofOutcomes(cv),
               check_spend(cv, rkSmall, sig, proofOk)
        PROVE  TypeOK'
    <3>1. cv \in Point /\ proofOk \in BOOLEAN
      BY CommitmentsArePoints DEF ProofOutcomes
    <3>2. AccumulateSpend(cv) \in Point /\ PAdd(accepted, cv) \in Point
      BY <3>1, PointClosed DEF TypeOK, AccumulateSpend
    <3>4. CASE IsSmallOrder(cv) \/ rkSmall
      <4>1. calls < MaxCalls /\ cv_sum' = cv_sum /\ RecordDescription(FALSE, cv)
        BY <2>1, <3>4 DEF check_spend
      <4>2. QED
        BY <3>2, <4>1, RecordTyped DEF TypeOK
    <3>5. CASE ~(IsSmallOrder(cv) \/ rkSmall)
      <4>1. calls < MaxCalls /\ cv_sum' = AccumulateSpend(cv) /\ RecordDescription(VerifyWithZip216(TRUE, sig) /\ proofOk, cv)
        BY <2>1, <3>5 DEF check_spend
      <4>2. (VerifyWithZip216(TRUE, sig) /\ proofOk) \in BOOLEAN
        BY <3>1 DEF VerifyWithZip216, TypeOK
      <4>3. QED
        BY <3>2, <4>1, <4>2, RecordTyped DEF TypeOK
    <3>6. QED
      BY <3>4, <3>5
  <2>2. ASSUME NEW cv \in Commitments, NEW epkSmall \in BOOLEAN,
               NEW proofOk \in ProofOutcomes(cv),
               check_output(cv, epkSmall, proofOk)
        PROVE  TypeOK'
    <3>1. cv \in Point /\ proofOk \in BOOLEAN
      BY CommitmentsArePoints DEF ProofOutcomes
    <3>2. /\ AccumulateOutput(cv) \in Point
          /\ PAdd(accepted, PSub(Identity, cv)) \in Point
      BY <3>1, PointClosed, CommitmentsArePoints DEF TypeOK, AccumulateOutput
    <3>4. CASE IsSmallOrder(cv) \/ epkSmall
      <4>1. calls < MaxCalls /\ cv_sum' = cv_sum /\ RecordDescription(FALSE, PSub(Identity, cv))
        BY <2>2, <3>4 DEF check_output
      <4>2. QED
        BY <3>2, <4>1, RecordTyped DEF TypeOK
    <3>5. CASE ~(IsSmallOrder(cv) \/ epkSmall)
      <4>1. calls < MaxCalls /\ cv_sum' = AccumulateOutput(cv) /\ RecordDescription(proofOk, PSub(Identity, cv))
        BY <2>2, <3>5 DEF check_output
      <4>2. (proofOk) \in BOOLEAN
        BY <3>1
      <4>3. QED
        BY <3>2, <4>1, <4>2, RecordTyped DEF TypeOK
    <3>6. QED
      BY <3>4, <3>5
  <2>3. ASSUME NEW value_balance \in Balances, NEW sig \in SigEncodings,
               final_check(value_balance, sig)
        PROVE  TypeOK'
    BY <2>3 DEF final_check, TypeOK
  <2>4. CASE UNCHANGED vars
    BY <2>4 DEF vars, TypeOK
  <2>5. QED
    BY <2>1, <2>2, <2>3, <2>4 DEF Next
<1>3. QED
  BY <1>2

\* Every reachable state of the verification context is well typed.
THEOREM TypeCorrect == Spec => []TypeOK
<1>1. Init => TypeOK
  BY CommitmentsArePoints, MaxCallsAssumption, BalancesAssumption
     DEF Init, TypeOK
<1>2. QED
  BY <1>1, TypeStep, PTL DEF Spec

-----------------------------------------------------------------------------
(* Value conservation.                                                     *)

\* IInv holds initially.
LEMMA IInvInit == Init => IInv
BY CommitmentsArePoints, MaxCallsAssumption, BalancesAssumption
   DEF Init, IInv, TypeOK, Identity

\* Every step of the context preserves IInv.
LEMMA IInvStep == IInv /\ [Next]_vars => IInv'
<1> SUFFICES ASSUME IInv, [Next]_vars PROVE IInv'
  OBVIOUS
<1>1. TypeOK'
  BY TypeStep DEF IInv
<1>2. ASSUME NEW cv \in Commitments, NEW rkSmall \in BOOLEAN,
             NEW sig \in SigEncodings, NEW proofOk \in ProofOutcomes(cv),
             check_spend(cv, rkSmall, sig, proofOk)
      PROVE  IInv'
  <2>1. cv \in Point
    BY CommitmentsArePoints
  <2>2. verdict' = "Pending"
    BY <1>2 DEF check_spend, RecordDescription
  <2>3. CASE IsSmallOrder(cv) \/ rkSmall
    <3>1. all_ok' = FALSE
      BY <1>2, <2>3 DEF check_spend, RecordDescription
    <3>2. QED
      BY <1>1, <2>2, <3>1 DEF IInv
  <2>4. CASE ~(IsSmallOrder(cv) \/ rkSmall)
    <3> DEFINE ok == VerifyWithZip216(TRUE, sig) /\ proofOk
    <3>1. cv_sum' = AccumulateSpend(cv) /\ RecordDescription(ok, cv)
      BY <1>2, <2>4 DEF check_spend
    <3>2. all_ok' => (all_ok /\ cv_sum'.v = cv_sum.v + cv.v
                             /\ accepted'.v = accepted.v + cv.v)
      BY <2>1, <3>1 DEF RecordDescription, AccumulateSpend, PAdd
    <3>3. QED
      BY <1>1, <2>2, <3>2, <2>1 DEF IInv, TypeOK, Point
  <2>5. QED
    BY <2>3, <2>4
<1>3. ASSUME NEW cv \in Commitments, NEW epkSmall \in BOOLEAN,
             NEW proofOk \in ProofOutcomes(cv),
             check_output(cv, epkSmall, proofOk)
      PROVE  IInv'
  <2>1. cv \in Point
    BY CommitmentsArePoints
  <2>2. verdict' = "Pending"
    BY <1>3 DEF check_output, RecordDescription
  <2>3. CASE IsSmallOrder(cv) \/ epkSmall
    <3>1. all_ok' = FALSE
      BY <1>3, <2>3 DEF check_output, RecordDescription
    <3>2. QED
      BY <1>1, <2>2, <3>1 DEF IInv
  <2>4. CASE ~(IsSmallOrder(cv) \/ epkSmall)
    <3>1. cv_sum' = AccumulateOutput(cv) /\ RecordDescription(proofOk, PSub(Identity, cv))
      BY <1>3, <2>4 DEF check_output
    <3>a. cv_sum'.v = cv_sum.v - cv.v
      BY <3>1 DEF AccumulateOutput, PSub
    <3>b. all_ok' => all_ok /\ proofOk
      BY <3>1 DEF RecordDescription
    <3>c. proofOk => accepted' = PAdd(accepted, PSub(Identity, cv))
      BY <3>1 DEF RecordDescription
    <3>d. PAdd(accepted, PSub(Identity, cv)).v = accepted.v - cv.v
      BY <2>1 DEF IInv, TypeOK, Point, PAdd, PSub, Identity
    <3>2. all_ok' => (all_ok /\ cv_sum'.v = cv_sum.v - cv.v
                             /\ accepted'.v = accepted.v - cv.v)
      BY <3>a, <3>b, <3>c, <3>d
    <3>3. QED
      BY <1>1, <2>2, <3>2, <2>1 DEF IInv, TypeOK, Point
  <2>5. QED
    BY <2>3, <2>4
<1>4. ASSUME NEW value_balance \in Balances, NEW sig \in SigEncodings,
             final_check(value_balance, sig)
      PROVE  IInv'
  <2> DEFINE vb == ComputeValueBalance(value_balance)
  <2>1. UNCHANGED <<cv_sum, accepted>> /\ declared' = value_balance
    BY <1>4 DEF final_check
  <2>2. verdict' = "Valid" => (vb # None /\ BindingKey(vb).v = 0)
    BY <1>4 DEF final_check, VerifyWithZip216
  <2>3. verdict' = "Valid" => cv_sum.v = value_balance
    <3> SUFFICES ASSUME verdict' = "Valid" PROVE cv_sum.v = value_balance
      OBVIOUS
    <3>1. vb # None /\ BindingKey(vb).v = 0
      BY <2>2
    <3>2. vb \in Point /\ vb.v = value_balance
      BY <3>1, ValueBalancePoint
    <3>3. QED
      BY <3>1, <3>2, BalancesAssumption DEF BindingKey, PSub, IInv, TypeOK, Point
  <2>4. all_ok' => all_ok
    BY <1>4 DEF final_check
  <2>5. QED
    BY <1>1, <2>1, <2>3, <2>4 DEF IInv
<1>5. CASE UNCHANGED vars
  BY <1>1, <1>5 DEF IInv, vars
<1>6. QED
  BY <1>2, <1>3, <1>4, <1>5 DEF Next

\* Value conservation: in every reachable state, if every call returned true
\* and the last final_check accepted, the accepted spends minus the accepted
\* outputs carry exactly the declared valueBalance.
THEOREM Conservation == Spec => []ValueConservation
<1>1. IInv => ValueConservation
  BY DEF IInv, ValueConservation
<1>2. QED
  BY IInvInit, IInvStep, <1>1, PTL DEF Spec


-----------------------------------------------------------------------------
(* Refinement of the value ledger.                                         *)

\* A proof that verifies vouches for a note value (verify_proof soundness).
LEMMA ProofVouches ==
    ASSUME NEW cv, NEW proofOk \in ProofOutcomes(cv), proofOk
    PROVE  cv.v \in NoteValues
BY DEF ProofOutcomes

\* The initial context is the empty ledger.
LEMMA LedgerInit == Init => Ledger!LInit
BY DEF Init, Ledger!LInit, Identity

\* Every step of the context, from a state satisfying IInv, is a step of the
\* ledger or leaves the ledger's variables alone.
LEMMA LedgerStep == IInv /\ [Next]_vars => [Ledger!LNext]_(Ledger!lvars)
<1> SUFFICES ASSUME IInv, [Next]_vars PROVE [Ledger!LNext]_(Ledger!lvars)
  OBVIOUS
<1>1. ASSUME NEW cv \in Commitments, NEW rkSmall \in BOOLEAN,
             NEW sig \in SigEncodings, NEW proofOk \in ProofOutcomes(cv),
             check_spend(cv, rkSmall, sig, proofOk)
      PROVE  [Ledger!LNext]_(Ledger!lvars)
  <2>1. cv \in Point
    BY CommitmentsArePoints
  <2>2. CASE IsSmallOrder(cv) \/ rkSmall
    <3>1. RecordDescription(FALSE, cv)
      BY <1>1, <2>2 DEF check_spend
    <3>2. Ledger!Reject
      BY <3>1 DEF RecordDescription, Ledger!Reject
    <3>3. QED
      BY <3>2 DEF Ledger!LNext
  <2>3. CASE ~(IsSmallOrder(cv) \/ rkSmall)
    <3> DEFINE ok == VerifyWithZip216(TRUE, sig) /\ proofOk
    <3>1. RecordDescription(ok, cv)
      BY <1>1, <2>3 DEF check_spend
    <3>2. CASE ok
      <4>1. cv.v \in NoteValues
        BY <3>2, ProofVouches
      <4>2. accepted' = PAdd(accepted, cv) /\ all_ok' = all_ok
        BY <3>1, <3>2 DEF RecordDescription, IInv, TypeOK
      <4>3. accepted'.v = accepted.v + 1 * cv.v
        BY <4>2, <2>1 DEF PAdd, IInv, TypeOK, Point
      <4>4. Ledger!Accept(cv.v, 1)
        BY <3>1, <4>2, <4>3 DEF RecordDescription, Ledger!Accept
      <4>5. QED
        BY <4>1, <4>4 DEF Ledger!LNext
    <3>3. CASE ~ok
      <4>1. Ledger!Reject
        BY <3>1, <3>3 DEF RecordDescription, Ledger!Reject
      <4>2. QED
        BY <4>1 DEF Ledger!LNext
    <3>4. QED
      BY <3>2, <3>3
  <2>4. QED
    BY <2>2, <2>3
<1>2. ASSUME NEW cv \in Commitments, NEW epkSmall \in BOOLEAN,
             NEW proofOk \in ProofOutcomes(cv),
             check_output(cv, epkSmall, proofOk)
      PROVE  [Ledger!LNext]_(Ledger!lvars)
  <2>1. cv \in Point
    BY CommitmentsArePoints
  <2>2. CASE IsSmallOrder(cv) \/ epkSmall
    <3>1. RecordDescription(FALSE, PSub(Identity, cv))
      BY <1>2, <2>2 DEF check_output
    <3>2. Ledger!Reject
      BY <3>1 DEF RecordDescription, Ledger!Reject
    <3>3. QED
      BY <3>2 DEF Ledger!LNext
  <2>3. CASE ~(IsSmallOrder(cv) \/ epkSmall)
    <3>1. RecordDescription(proofOk, PSub(Identity, cv))
      BY <1>2, <2>3 DEF check_output
    <3>2. CASE proofOk
      <4>1. cv.v \in NoteValues
        BY <3>2, ProofVouches
      <4>2. accepted' = PAdd(accepted, PSub(Identity, cv)) /\ all_ok' = all_ok
        BY <3>1, <3>2 DEF RecordDescription, IInv, TypeOK
      <4>3. accepted'.v = accepted.v + (-1) * cv.v
        BY <4>2, <2>1 DEF PAdd, PSub, Identity, IInv, TypeOK, Point
      <4>4. Ledger!Accept(cv.v, -1)
        BY <3>1, <4>2, <4>3 DEF RecordDescription, Ledger!Accept
      <4>5. QED
        BY <4>1, <4>4 DEF Ledger!LNext
    <3>3. CASE ~proofOk
      <4>1. Ledger!Reject
        BY <3>1, <3>3 DEF RecordDescription, Ledger!Reject
      <4>2. QED
        BY <4>1 DEF Ledger!LNext
    <3>4. QED
      BY <3>2, <3>3
  <2>4. QED
    BY <2>2, <2>3
<1>3. ASSUME NEW value_balance \in Balances, NEW sig \in SigEncodings,
             final_check(value_balance, sig)
      PROVE  [Ledger!LNext]_(Ledger!lvars)
  <2> DEFINE vb == ComputeValueBalance(value_balance)
             pass == verdict' = "Valid"
  <2>1. /\ UNCHANGED <<cv_sum, accepted>>
        /\ declared' = value_balance
        /\ verdict' = IF pass THEN "Valid" ELSE "Invalid"
        /\ all_ok' = (all_ok /\ pass)
    BY <1>3 DEF final_check
  <2>2. pass => cv_sum.v = value_balance
    <3> SUFFICES ASSUME pass PROVE cv_sum.v = value_balance
      OBVIOUS
    <3>1. vb # None /\ BindingKey(vb).v = 0
      BY <1>3 DEF final_check, VerifyWithZip216
    <3>2. vb \in Point /\ vb.v = value_balance
      BY <3>1, ValueBalancePoint
    <3>3. QED
      BY <3>1, <3>2, BalancesAssumption DEF BindingKey, PSub, IInv, TypeOK, Point
  <2>3. (pass /\ all_ok) => accepted.v = value_balance
    BY <2>2 DEF IInv
  <2>4. Ledger!Final(value_balance, pass)
    BY <2>1, <2>3 DEF Ledger!Final
  <2>5. QED
    BY <2>4 DEF Ledger!LNext
<1>4. CASE UNCHANGED vars
  BY <1>4 DEF vars, Ledger!lvars
<1>5. QED
  BY <1>1, <1>2, <1>3, <1>4 DEF Next

\* The verification context implements the value ledger: in every behaviour,
\* each check_spend, check_output and final_check moves the accepted values
\* the way the ledger allows, so a transaction whose calls all returned true
\* declares exactly the net of note values its descriptions carry.
THEOREM Implementation == Spec => LedgerRefinement
BY LedgerInit, LedgerStep, IInvInit, IInvStep, PTL
   DEF Spec, LedgerRefinement, Ledger!LSpec


\* The ledger's promise is enough: value conservation of the context
\* follows from the refinement and the ledger's own invariant, without
\* looking at the context's steps again.
THEOREM ConservationByRefinement == Spec => []ValueConservation
<1>1. Spec => Ledger!LSpec
  BY Implementation DEF LedgerRefinement
<1>2. Ledger!LSpec => []Ledger!LedgerConservation
  BY Ledger!LedgerSafe
<1>3. Ledger!LedgerConservation <=> ValueConservation
  BY DEF Ledger!LedgerConservation, ValueConservation
<1>4. QED
  BY <1>1, <1>2, <1>3, PTL

-----------------------------------------------------------------------------
(* No torsion in an accepted transaction.                                  *)

\* A proof accepted for cv vouches for its torsion part too.
LEMMA ProofPrimeOrder ==
    ASSUME NEW cv \in Commitments, NEW proofOk \in ProofOutcomes(cv), proofOk
    PROVE  cv.t = 0
BY DEF ProofOutcomes

\* Adding or subtracting a point with no torsion part to one with none
\* leaves none.
LEMMA TorsionFreeClosed ==
    ASSUME NEW p \in Point, NEW c \in Point, p.t = 0, c.t = 0
    PROVE  PAdd(p, c).t = 0 /\ PSub(p, c).t = 0
BY TorsionAssumption DEF PAdd, PSub

\* Every step keeps the accumulator free of torsion while every call passed.
LEMMA PrimeOrderStep ==
    TypeOK /\ PrimeOrderWhileOk /\ [Next]_vars => PrimeOrderWhileOk'
<1> SUFFICES ASSUME TypeOK, PrimeOrderWhileOk, [Next]_vars, all_ok'
             PROVE  cv_sum'.t = 0
  BY DEF PrimeOrderWhileOk
<1>1. ASSUME NEW cv \in Commitments, NEW rkSmall \in BOOLEAN,
             NEW sig \in SigEncodings, NEW proofOk \in ProofOutcomes(cv),
             check_spend(cv, rkSmall, sig, proofOk)
      PROVE  cv_sum'.t = 0
  <2>1. ~(IsSmallOrder(cv) \/ rkSmall)
    BY <1>1 DEF check_spend, RecordDescription
  <2>2. cv_sum' = PAdd(cv_sum, cv) /\ all_ok /\ proofOk
    BY <1>1, <2>1 DEF check_spend, RecordDescription, AccumulateSpend
  <2>3. cv.t = 0 /\ cv_sum.t = 0
    BY <2>2, ProofPrimeOrder DEF PrimeOrderWhileOk
  <2>4. QED
    BY <2>2, <2>3, TorsionFreeClosed, CommitmentsArePoints DEF TypeOK
<1>2. ASSUME NEW cv \in Commitments, NEW epkSmall \in BOOLEAN,
             NEW proofOk \in ProofOutcomes(cv),
             check_output(cv, epkSmall, proofOk)
      PROVE  cv_sum'.t = 0
  <2>1. ~(IsSmallOrder(cv) \/ epkSmall)
    BY <1>2 DEF check_output, RecordDescription
  <2>2. cv_sum' = PSub(cv_sum, cv) /\ all_ok /\ proofOk
    BY <1>2, <2>1 DEF check_output, RecordDescription, AccumulateOutput
  <2>3. cv.t = 0 /\ cv_sum.t = 0
    BY <2>2, ProofPrimeOrder DEF PrimeOrderWhileOk
  <2>4. QED
    BY <2>2, <2>3, TorsionFreeClosed, CommitmentsArePoints DEF TypeOK
<1>3. ASSUME NEW value_balance \in Balances, NEW sig \in SigEncodings,
             final_check(value_balance, sig)
      PROVE  cv_sum'.t = 0
  BY <1>3 DEF final_check, PrimeOrderWhileOk
<1>4. CASE UNCHANGED vars
  BY <1>4 DEF vars, PrimeOrderWhileOk
<1>5. QED
  BY <1>1, <1>2, <1>3, <1>4 DEF Next

\* For every torsion order: while every check_spend, check_output and
\* final_check returned true, cv_sum has no torsion component, although
\* is_small_order lets mixed-order commitments through and check_spend and
\* check_output add cv before the proof is checked.  The proofs keep the
\* torsion out.
THEOREM TorsionFree == Spec => []PrimeOrderWhileOk
<1>1. Init => PrimeOrderWhileOk
  BY DEF Init, PrimeOrderWhileOk, Identity
<1>2. QED
  BY <1>1, TypeCorrect, PrimeOrderStep, PTL DEF Spec

=============================================================================
