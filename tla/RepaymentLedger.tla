--------------------------- MODULE RepaymentLedger ---------------------------
(***************************************************************************)
(* What the repayment endpoints promise of an installment, with every      *)
(* payment a single step: money is taken against an amount that was        *)
(* scheduled, never beyond it, and the installment is settled exactly when *)
(* the whole amount has been taken.                                        *)
(***************************************************************************)
EXTENDS Naturals

CONSTANTS
    Installments,   \* the installments that may be scheduled
    Amounts,        \* the amounts an installment may be scheduled for
    Payments        \* the amounts a payment may have

VARIABLES
    owed,           \* the scheduled amount of each installment, 0 before that
    taken,          \* the money accepted for each installment
    settled         \* the installments shown as paid

ledgerVars == <<owed, taken, settled>>

LedgerInit ==
    /\ owed = [i \in Installments |-> 0]
    /\ taken = [i \in Installments |-> 0]
    /\ settled = {}

\* An installment is put on the schedule.
Schedule(i, a) ==
    /\ owed[i] = 0
    /\ owed' = [owed EXCEPT ![i] = a]
    /\ UNCHANGED <<taken, settled>>

\* A payment of m is accepted; the one that completes the amount settles it.
Take(i, m) ==
    /\ taken[i] + m <= owed[i]
    /\ taken' = [taken EXCEPT ![i] = @ + m]
    /\ settled' = IF taken[i] + m = owed[i] THEN settled \cup {i} ELSE settled
    /\ UNCHANGED owed

LedgerNext ==
    \E i \in Installments :
        \/ \E a \in Amounts : Schedule(i, a)
        \/ \E m \in Payments : Take(i, m)

LedgerSpec == LedgerInit /\ [][LedgerNext]_ledgerVars
=============================================================================
