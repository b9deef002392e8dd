--------------------------- MODULE LoanRepayments ---------------------------
(***************************************************************************)
(* LoanRepaymentService over the loan workflow: payments, cancellations    *)
(* and new installments arriving at once, the hourly MarkOverdue job, and  *)
(* PostgreSQL at READ COMMITTED underneath: a statement sees what was      *)
(* committed before it, a transaction's own writes stay invisible and keep *)
(* their rows locked until it commits.                                     *)
(*                                                                         *)
(* An installment is identified by its loan and its number, which the      *)
(* unique index uk_loan_repayment_installment makes a key.                 *)
(***************************************************************************)
EXTENDS Loans

CONSTANTS
    Numbers,        \* the installment numbers in use
    Amounts,        \* the amounts an installment may be created with
    Payments,       \* the amounts a payment may be sent with
    Days,           \* the due dates an installment may be created with
    MaxDay,         \* the last value the clock takes (a bound)
    MaxReceived,    \* payments are not sent once an installment has taken this much (a bound)
    PageSize,       \* how many rows MarkOverdue lists (1000 in the code)
    PayCalls        \* the repayment requests the server may be running at once

ASSUME RepaymentsAssumption ==
    /\ Amounts \subseteq Nat \ {0}
    /\ Payments \subseteq Nat \ {0}
    /\ Days \subseteq Nat
    /\ MaxDay \in Nat
    /\ PageSize \in Nat \ {0}

VARIABLES
    insts,      \* the committed rows of the table "loan_repayments"
    payCall,    \* what each running repayment request has read and will write
    sweep,      \* the rows MarkOverdue has listed and not yet saved
    today,      \* the clock MarkOverdue compares due dates with
    received    \* history: the money of all payments that were accepted

repaymentVars == <<insts, payCall, sweep, today, received>>
vars == <<loanVars, repaymentVars>>

-----------------------------------------------------------------------------

Installments == Loans \X Numbers

InstRow == [status : {"None", "Pending", "Paid", "Overdue", "Cancelled"},
            amount : Amounts \cup {0},
            paid   : Nat,
            due    : Days \cup {0}]

NoInst == [status |-> "None", amount |-> 0, paid |-> 0, due |-> 0]

\* "row" is the row as the request read it, or the row it will write.
PayCall == [pc    : {"idle", "creating", "cancelling", "read", "checked",
                     "written", "counted", "closing"},
            inst  : Installments \cup {Nobody},
            row   : InstRow,
            money : Nat,
            loan  : LoanRow]

IdlePayCall == [pc |-> "idle", inst |-> Nobody, row |-> NoInst, money |-> 0, loan |-> NoLoan]

\* The tables, the requests and the job have their types; a stored installment
\* has an amount; a running request knows the installment it works on.
TypeOK ==
    /\ LoansTypeOK
    /\ insts \in [Installments -> InstRow]
    /\ payCall \in [PayCalls -> PayCall]
    /\ sweep \in [Installments -> InstRow]
    /\ today \in 0..MaxDay
    /\ received \in [Installments -> Nat]
    /\ \A i \in Installments : insts[i].status # "None" => insts[i].amount \in Amounts
    /\ \A q \in PayCalls : payCall[q].pc # "idle" => payCall[q].inst \in Installments

Init ==
    /\ LoansInit
    /\ insts = [i \in Installments |-> NoInst]
    /\ payCall = [q \in PayCalls |-> IdlePayCall]
    /\ sweep = [i \in Installments |-> NoInst]
    /\ today = 0
    /\ received = [i \in Installments |-> 0]

LoanOf(i) == i[1]

Exists(i) == insts[i].status # "None"

\* Row i is locked by a payment that has written it and not yet committed.
Locked(i) ==
    \E q \in PayCalls : /\ payCall[q].pc \in {"written", "counted", "closing"}
                        /\ payCall[q].inst = i

EndPayCall(q) == payCall' = [payCall EXCEPT ![q] = IdlePayCall]

-----------------------------------------------------------------------------
(* Create                                                                  *)

\* Create up to its INSERT: the loan exists, the installment number is free.
\* The status of the loan is not looked at.
CreateInstallment(q, i, a, d) ==
    /\ payCall[q].pc = "idle"
    /\ loans[LoanOf(i)].status # "None"
    /\ ~Exists(i)
    /\ payCall' = [payCall EXCEPT ![q] =
           [IdlePayCall EXCEPT !.pc = "creating", !.inst = i,
                !.row = [status |-> "Pending", amount |-> a, paid |-> 0, due |-> d]]]
    /\ UNCHANGED <<loanVars, insts, sweep, today, received>>

\* The INSERT and the COMMIT; the unique index refuses a number taken since.
CommitInstallment(q) ==
    /\ payCall[q].pc = "creating"
    /\ ~Exists(payCall[q].inst)
    /\ insts' = [insts EXCEPT ![payCall[q].inst] = payCall[q].row]
    /\ EndPayCall(q)
    /\ UNCHANGED <<loanVars, sweep, today, received>>

-----------------------------------------------------------------------------
(* Pay                                                                     *)

\* Mutant: Paid only when more than the amount is paid.
CreditStrictly(row, m) ==
    IF row.paid + m > row.amount
    THEN [row EXCEPT !.paid = row.amount, !.status = "Paid"]
    ELSE [row EXCEPT !.paid = @ + m]

\* Mutant: any payment settles the installment.
CreditInFull(row, m) == [row EXCEPT !.paid = row.amount, !.status = "Paid"]

\* The row with m more paid: Paid once that reaches the amount.
Credit(row, m) ==
    IF row.paid + m >= row.amount
    THEN [row EXCEPT !.paid = row.amount, !.status = "Paid"]
    ELSE [row EXCEPT !.paid = @ + m]

\* The transaction reads the installment.
PayRead(q, i, m) ==
    /\ payCall[q].pc = "idle"
    /\ insts[i].status \in {"Pending", "Overdue"}
    /\ received[i] < MaxReceived
    /\ payCall' = [payCall EXCEPT ![q] =
           [IdlePayCall EXCEPT !.pc = "read", !.inst = i, !.row = insts[i], !.money = m]]
    /\ UNCHANGED <<loanVars, insts, sweep, today, received>>

\* Mutant: a payment may exceed what is left.
PayCheckLoanOnly(q) ==
    /\ payCall[q].pc = "read"
    /\ loans[LoanOf(payCall[q].inst)].status = "Active"
    /\ payCall' = [payCall EXCEPT ![q].pc = "checked",
                                  ![q].loan = loans[LoanOf(payCall[q].inst)]]
    /\ UNCHANGED <<loanVars, insts, sweep, today, received>>

\* It reads the loan: it must be Active and the payment fit what is left.
PayCheckLoan(q) ==
    LET call == payCall[q] IN
    /\ call.pc = "read"
    /\ loans[LoanOf(call.inst)].status = "Active"
    /\ call.money <= call.row.amount - call.row.paid
    /\ payCall' = [payCall EXCEPT ![q].pc = "checked",
                                  ![q].loan = loans[LoanOf(call.inst)]]
    /\ UNCHANGED <<loanVars, insts, sweep, today, received>>

\* UpdatePaymentGuarded: the write takes effect only on a row that still has
\* the status and the paid amount the transaction read.
Unchanged(q) ==
    LET call == payCall[q] IN
    /\ insts[call.inst].status = call.row.status
    /\ insts[call.inst].paid = call.row.paid

PayWrite(q) ==
    /\ payCall[q].pc = "checked"
    /\ ~Locked(payCall[q].inst)
    /\ Unchanged(q)
    /\ payCall' = [payCall EXCEPT ![q].pc = "written",
                                  ![q].row = Credit(payCall[q].row, payCall[q].money)]
    /\ UNCHANGED <<loanVars, insts, sweep, today, received>>

\* Mutant: the count does not run inside the transaction, so the installment
\* just paid still counts.
HasOutstandingOutside(q) ==
    \E i \in Installments :
        /\ LoanOf(i) = LoanOf(payCall[q].inst)
        /\ insts[i].status \in {"Pending", "Overdue"}

\* HasOutstandingRepayments, as the transaction of request q sees the table.
HasOutstanding(q) ==
    \E i \in Installments :
        /\ LoanOf(i) = LoanOf(payCall[q].inst)
        /\ i # payCall[q].inst
        /\ insts[i].status \in {"Pending", "Overdue"}

\* A payment that settles its installment closes the loan if nothing is left.
PayCount(q) ==
    LET closes == payCall[q].row.status = "Paid" /\ ~HasOutstanding(q) IN
    /\ payCall[q].pc = "written"
    /\ payCall' = [payCall EXCEPT ![q].pc = IF closes THEN "closing" ELSE "counted"]
    /\ UNCHANGED <<loanVars, insts, sweep, today, received>>

\* The loan's Save (the whole row, as read before), the audit row, the COMMIT.
PayCommit(q) ==
    LET call == payCall[q] IN
    /\ call.pc \in {"counted", "closing"}
    /\ insts' = [insts EXCEPT ![call.inst] = call.row]
    /\ loans' = IF call.pc = "closing"
                THEN [loans EXCEPT ![LoanOf(call.inst)] =
                                       [call.loan EXCEPT !.status = "Completed"]]
                ELSE loans
    /\ received' = [received EXCEPT ![call.inst] = @ + call.money]
    /\ EndPayCall(q)
    /\ UNCHANGED <<personActive, loanCall, sweep, today>>

-----------------------------------------------------------------------------
(* Cancel                                                                  *)

\* Cancel reads the row and refuses only a Paid one.
CancelInstallment(q, i) ==
    /\ payCall[q].pc = "idle"
    /\ Exists(i)
    /\ insts[i].status # "Paid"
    /\ payCall' = [payCall EXCEPT ![q] =
           [IdlePayCall EXCEPT !.pc = "cancelling", !.inst = i,
                               !.row = [insts[i] EXCEPT !.status = "Cancelled"]]]
    /\ UNCHANGED <<loanVars, insts, sweep, today, received>>

\* Its Save writes every column as it was read, and commits.
CommitCancel(q) ==
    /\ payCall[q].pc = "cancelling"
    /\ ~Locked(payCall[q].inst)
    /\ insts' = [insts EXCEPT ![payCall[q].inst] = payCall[q].row]
    /\ EndPayCall(q)
    /\ UNCHANGED <<loanVars, sweep, today, received>>

\* A guard refuses, a statement fails or the audit insert does: ROLLBACK.
FailPayCall(q) ==
    /\ payCall[q].pc # "idle"
    /\ EndPayCall(q)
    /\ UNCHANGED <<loanVars, insts, sweep, today, received>>

-----------------------------------------------------------------------------
(* MarkOverdue                                                             *)

Sweeping == \E i \in Installments : sweep[i].status # "None"

\* Mutant: the page is in descending order of due date.
LatestPage(page) ==
    LET pending == {i \in Installments : insts[i].status = "Pending"} IN
    /\ page \subseteq pending
    /\ Cardinality(page) <= PageSize
    /\ page # pending => Cardinality(page) = PageSize
    /\ \A i \in page, j \in pending \ page : insts[i].due >= insts[j].due

\* A page of Pending rows in order of due date.
OverduePage(page) ==
    LET pending == {i \in Installments : insts[i].status = "Pending"} IN
    /\ page \subseteq pending
    /\ Cardinality(page) <= PageSize
    /\ page # pending => Cardinality(page) = PageSize
    /\ \A i \in page, j \in pending \ page : insts[i].due <= insts[j].due

\* List; of its page, the loop will save the rows whose due date has passed.
ListOverdue ==
    /\ ~Sweeping
    /\ \E page \in SUBSET Installments :
        /\ OverduePage(page)
        /\ sweep' = [i \in Installments |->
                        IF i \in page /\ insts[i].due < today
                        THEN [insts[i] EXCEPT !.status = "Overdue"]
                        ELSE NoInst]
    /\ UNCHANGED <<loanVars, insts, payCall, today, received>>

\* The loop's next row: the listed ones are taken in order of due date.  Its
\* statement waits for the row lock; no statement or lock timeout is set.
NextOverdue(i) ==
    /\ sweep[i].status # "None"
    /\ \A j \in Installments : sweep[j].status # "None" => sweep[i].due <= sweep[j].due
    /\ ~Locked(i)

\* One iteration: the whole row goes back as it was listed.
SaveOverdue ==
    \E i \in Installments :
        /\ NextOverdue(i)
        /\ insts' = [insts EXCEPT ![i] = sweep[i]]
        /\ sweep' = [sweep EXCEPT ![i] = NoInst]
        /\ UNCHANGED <<loanVars, payCall, today, received>>

\* A failed Save ends the run; the rest waits for the next hour.
FailSweep ==
    /\ \E i \in Installments : NextOverdue(i)
    /\ sweep' = [i \in Installments |-> NoInst]
    /\ UNCHANGED <<loanVars, insts, payCall, today, received>>

Tick ==
    /\ today < MaxDay
    /\ today' = today + 1
    /\ UNCHANGED <<loanVars, insts, payCall, sweep, received>>

-----------------------------------------------------------------------------

PayStep(q) ==
    \/ PayCheckLoan(q)
    \/ PayWrite(q)
    \/ PayCount(q)
    \/ PayCommit(q)

\* Payments, new installments and the loan workflow.
PaymentsNext ==
    \/ \E q \in PayCalls :
        \/ \E i \in Installments, a \in Amounts, d \in Days : CreateInstallment(q, i, a, d)
        \/ CommitInstallment(q)
        \/ \E i \in Installments, m \in Payments : PayRead(q, i, m)
        \/ PayStep(q)
        \/ FailPayCall(q)
    \/ LoansNext /\ UNCHANGED repaymentVars

\* Every request handler: cancellations too.
HandlersNext ==
    \/ PaymentsNext
    \/ \E q \in PayCalls :
        \/ \E i \in Installments : CancelInstallment(q, i)
        \/ CommitCancel(q)

\* The whole component, the hourly job included.
Next ==
    \/ HandlersNext
    \/ ListOverdue
    \/ SaveOverdue
    \/ FailSweep
    \/ Tick

PaymentsSpec == Init /\ [][PaymentsNext]_vars
Spec == Init /\ [][Next]_vars
-----------------------------------------------------------------------------
(* What holds however requests and the hourly job overlap.                 *)

\* An installment reads Paid exactly when its whole amount is recorded as paid,
\* and never more: stale whole-row saves and guarded updates (Pay, Cancel,
\* MarkOverdue) may overwrite each other but never mix two versions of a row.
SettledMeansPaid ==
    \A i \in Installments : Exists(i) =>
        /\ insts[i].paid <= insts[i].amount
        /\ insts[i].status = "Paid" <=> insts[i].paid = insts[i].amount

\* No installment is credited with money that no payment brought
\* (Pay's UpdatePaymentGuarded, the saves of Cancel and MarkOverdue).
CreditedWasReceived ==
    \A i \in Installments : insts[i].paid <= received[i]

\* MarkOverdue's purpose: an installment past its due date does not stay
\* Pending for ever, whatever requests lock its row, although a run lists only
\* PageSize rows and stops at its first failed save.
PastDueIsSwept ==
    \A i \in Installments :
        (insts[i].status = "Pending" /\ insts[i].due < today) ~> insts[i].status # "Pending"

-----------------------------------------------------------------------------
(* What holds between payments, whatever their number.                     *)

\* Every payment that was accepted is on the books, and counted once: the
\* compare-and-swap of UpdatePaymentGuarded refuses the payment whose read
\* another one has made stale.
LedgerBalanced ==
    \A i \in Installments : insts[i].paid = received[i]

\* Each installment behaves like the ledger in which a payment is one step:
\* the money taken never exceeds the amount owed, and settles it exactly once.
Ledger == INSTANCE RepaymentLedger WITH
    owed <- [i \in Installments |-> insts[i].amount],
    taken <- received,
    settled <- {i \in Installments : insts[i].status = "Paid"}

LedgerRefinement == Ledger!LedgerSpec

-----------------------------------------------------------------------------
(* What holds while repayment requests come one at a time.                 *)

Quiet ==
    /\ \A q \in PayCalls : payCall[q].pc = "idle"
    /\ \A c \in LoanCalls : Idle(c)

\* Pay's comment "If there are no remaining repayments, mark the loan
\* completed": when no request runs, no Active loan has all its installments
\* Paid.
SettledLoanIsClosed ==
    Quiet => ~ \E l \in Loans :
        /\ loans[l].status = "Active"
        /\ \E n \in Numbers : Exists(<<l, n>>)
        /\ \A n \in Numbers : insts[<<l, n>>].status \in {"None", "Paid"}

-----------------------------------------------------------------------------
(* Fairness.  The job's goroutine runs every hour for as long as the       *)
(* process lives; a started request runs to its end; PostgreSQL grants a   *)
(* row lock in the order it was asked for and saves do not fail for ever,  *)
(* so a save that is possible again and again is made.                     *)
Fairness ==
    /\ WF_vars(ListOverdue)
    /\ SF_vars(SaveOverdue)
    /\ \A q \in PayCalls : WF_vars(PayStep(q) \/ FailPayCall(q))

FairSpec == Spec /\ Fairness
=============================================================================
