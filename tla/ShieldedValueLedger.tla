------------------------- MODULE ShieldedValueLedger -------------------------
(***************************************************************************)
(* What a Sapling verification context promises its caller, with the      *)
(* cryptography taken away: a ledger of the values of the descriptions it  *)
(* accepted.  An accepted spend adds a note value to the net amount, an    *)
(* accepted output subtracts one, a rejected description changes nothing  *)
(* but marks the transaction as failed; a final check may pass, while     *)
(* every earlier call passed, only when the net amount is exactly the      *)
(* declared value balance.  Whatever a caller does with a failed          *)
(* transaction is left open.                                               *)
(***************************************************************************)
EXTENDS Integers, TLAPS

CONSTANTS
    NoteValues,   \* the values a note may carry
    Balances      \* the value balances a transaction may declare

VARIABLES
    net,          \* values of the accepted spends minus those of the accepted outputs
    ok,           \* every call so far passed
    verdict,      \* outcome of the last final check since the last description
    declared      \* value balance declared to that final check

lvars == <<net, ok, verdict, declared>>

LInit ==
    /\ net = 0
    /\ ok = TRUE
    /\ verdict = "Pending"
    /\ declared = 0

\* A description that passes, carrying value val into (sign 1) or out of
\* (sign -1) the transaction.
Accept(val, sign) ==
    /\ net' = net + sign * val
    /\ verdict' = "Pending"
    /\ UNCHANGED <<ok, declared>>

\* A description that fails: the transaction can no longer be valid.
Reject ==
    /\ ok' = FALSE
    /\ verdict' = "Pending"
    /\ UNCHANGED <<net, declared>>

\* A final check of the declared balance b; it may pass on a transaction
\* whose calls all passed only if the accepted values balance to b.
Final(b, pass) ==
    /\ (pass /\ ok) => net = b
    /\ verdict' = IF pass THEN "Valid" ELSE "Invalid"
    /\ declared' = b
    /\ ok' = (ok /\ pass)
    /\ UNCHANGED net

LNext ==
    \/ \E val \in NoteValues, sign \in {1, -1} : Accept(val, sign)
    \/ Reject
    \/ \E b \in Balances, pass \in BOOLEAN : Final(b, pass)

LSpec == LInit /\ [][LNext]_lvars

\* The ledger's promise: a transaction whose calls all passed and whose
\* last final check passed has accepted values that balance to the value
\* balance declared to that check.
LedgerConservation == (verdict = "Valid" /\ ok) => net = declared

\* LedgerConservation is inductive: only a final check sets the verdict to
\* Valid, and it may do so on a transaction whose calls all passed only
\* when the net amount is the balance it records.
LEMMA LedgerSafe == LSpec => []LedgerConservation
<1>1. LInit => LedgerConservation
  BY DEF LInit, LedgerConservation
<1>2. LedgerConservation /\ [LNext]_lvars => LedgerConservation'
  <2> SUFFICES ASSUME LedgerConservation, [LNext]_lvars
               PROVE  LedgerConservation'
    OBVIOUS
  <2>1. ASSUME NEW val \in NoteValues, NEW sign \in {1, -1}, Accept(val, sign)
        PROVE  LedgerConservation'
    BY <2>1 DEF Accept, LedgerConservation
  <2>2. CASE Reject
    BY <2>2 DEF Reject, LedgerConservation
  <2>3. ASSUME NEW b \in Balances, NEW pass \in BOOLEAN, Final(b, pass)
        PROVE  LedgerConservation'
    BY <2>3 DEF Final, LedgerConservation
  <2>4. CASE UNCHANGED lvars
    BY <2>4 DEF lvars, LedgerConservation
  <2>5. QED
    BY <2>1, <2>2, <2>3, <2>4 DEF LNext
<1>3. QED
  BY <1>1, <1>2, PTL DEF LSpec

=============================================================================
