------------------------ MODULE LoanRepaymentsProofs ------------------------
(***************************************************************************)
(* Theorems about LoanRepayments, for any loans, installments, amounts and *)
(* numbers of overlapping requests.                                        *)
(*                                                                         *)
(* As with the loans, the stored rows are only as good as the rows that    *)
(* requests and the hourly job hold and will write back: the invariant     *)
(* speaks of all three.                                                    *)
(***************************************************************************)
EXTENDS LoanRepayments, LoansProofs

InTransaction == {"written", "counted", "closing"}

\* A row that may stand in the table when r has been received for it.
Good(row, r) ==
    /\ row.amount \in Amounts
    /\ row.paid <= row.amount
    /\ row.status = "Paid" <=> row.paid = row.amount
    /\ row.paid <= r

\* What a running request may hold when "rec" has been received.
GoodCall(call, rec) ==
    /\ call.pc # "idle" => call.inst \in Installments
    /\ call.pc = "creating" =>
          call.row.status = "Pending" /\ call.row.paid = 0 /\ call.row.amount \in Amounts
    /\ call.pc = "cancelling" =>
          call.row.status = "Cancelled" /\ Good(call.row, rec[call.inst])
    /\ call.pc \in {"read", "checked"} =>
          /\ call.row.status \in {"Pending", "Overdue"}
          /\ Good(call.row, rec[call.inst])
          /\ call.money \in Payments
    /\ call.pc = "checked" => call.money <= call.row.amount - call.row.paid
    /\ call.pc \in InTransaction =>
          /\ call.row.status # "None"
          /\ Good(call.row, rec[call.inst] + call.money)
          /\ call.money \in Payments
    /\ call.pc \in {"checked"} \cup InTransaction =>
          Complete(call.loan) /\ Sound(call.loan) /\ call.loan.status = "Active"

RepaymentTypes ==
    /\ insts \in [Installments -> InstRow]
    /\ payCall \in [PayCalls -> PayCall]
    /\ sweep \in [Installments -> InstRow]
    /\ today \in 0..MaxDay
    /\ received \in [Installments -> Nat]

GoodRows ==
    \A i \in Installments :
        /\ insts[i].status = "None" => insts[i] = NoInst
        /\ insts[i].status # "None" => Good(insts[i], received[i])

GoodSweep ==
    \A i \in Installments :
        sweep[i].status # "None" => sweep[i].status = "Overdue" /\ Good(sweep[i], received[i])

GoodCalls == \A q \in PayCalls : GoodCall(payCall[q], received)

\* The inductive invariant of the whole component.
Inv == LoansInv /\ RepaymentTypes /\ GoodRows /\ GoodSweep /\ GoodCalls

-----------------------------------------------------------------------------

LEMMA InitInv == Init => Inv
<1> SUFFICES ASSUME Init PROVE Inv
  OBVIOUS
<1>1. LoansInv
  BY LoansInitInv DEF Init
<1>2. NoInst \in InstRow /\ NoInst.status = "None"
  BY DEF NoInst, InstRow
<1>3. IdlePayCall \in PayCall /\ IdlePayCall.pc = "idle"
  BY <1>2 DEF IdlePayCall, PayCall, LoanRow, NoLoan
<1>4. RepaymentTypes
  BY <1>2, <1>3, RepaymentsAssumption DEF Init, RepaymentTypes
<1>5. GoodRows /\ GoodSweep
  BY <1>2 DEF Init, GoodRows, GoodSweep
<1>6. GoodCalls
  BY <1>3 DEF Init, GoodCalls, GoodCall, InTransaction
<1>7. QED
  BY <1>1, <1>4, <1>5, <1>6 DEF Inv

\* Only the requests change, and the one that does comes to hold a good call.
LEMMA HoldCallKeepsInv ==
    ASSUME Inv, NEW q \in PayCalls, NEW call \in PayCall, GoodCall(call, received),
           payCall' = [payCall EXCEPT ![q] = call],
           UNCHANGED <<loanVars, insts, sweep, today, received>>
    PROVE  Inv'
<1>1. LoansInv'
  BY DEF Inv, loanVars, LoansInv, LoansTypeOK, Sound, Approved, Complete
<1>2. RepaymentTypes' /\ GoodRows' /\ GoodSweep'
  BY DEF Inv, RepaymentTypes, GoodRows, GoodSweep, Good
<1>3. \A p \in PayCalls : payCall'[p] = payCall[p] \/ payCall'[p] = call
  BY DEF Inv, RepaymentTypes
<1>4. \A p \in PayCalls : GoodCall(payCall'[p], received)
  BY <1>3 DEF Inv, GoodCalls
<1>5. GoodCalls'
  BY <1>4 DEF GoodCalls, GoodCall, Good, Complete, Sound, Approved
<1>6. QED
  BY <1>1, <1>2, <1>5 DEF Inv

\* A request that ends holds nothing.
LEMMA IdleIsGood ==
    /\ IdlePayCall \in PayCall
    /\ GoodCall(IdlePayCall, received)
<1>1. NoInst \in InstRow
  BY DEF NoInst, InstRow
<1>2. NoLoan \in LoanRow
  BY DEF NoLoan, LoanRow
<1>3. QED
  BY <1>1, <1>2 DEF IdlePayCall, PayCall, GoodCall, InTransaction

\* A row that stands for r received stands for more.
LEMMA GoodMonotone ==
    ASSUME NEW row \in InstRow, NEW r \in Nat, NEW s \in Nat, r <= s, Good(row, r)
    PROVE  Good(row, s)
BY RepaymentsAssumption DEF Good, InstRow

\* A payment that fits what is left makes a good row for what was received
\* and the payment.
LEMMA CreditGood ==
    ASSUME NEW row \in InstRow, NEW r \in Nat, NEW m \in Payments, Good(row, r),
           row.status \in {"Pending", "Overdue"}, m <= row.amount - row.paid
    PROVE  /\ Credit(row, m) \in InstRow
           /\ Credit(row, m).status # "None"
           /\ Credit(row, m).paid = row.paid + m
           /\ Credit(row, m).amount = row.amount
           /\ Good(Credit(row, m), r + m)
<1>1. m \in Nat \ {0} /\ row.amount \in Nat \ {0} /\ row.paid \in Nat
  BY RepaymentsAssumption DEF Good, InstRow
<1>2. CASE row.paid + m >= row.amount
  <2> DEFINE new == [row EXCEPT !.paid = row.amount, !.status = "Paid"]
  <2>1. Credit(row, m) = new
    BY <1>2 DEF Credit
  <2>2. /\ new \in InstRow
        /\ new.status = "Paid" /\ new.amount = row.amount /\ new.paid = row.amount
    BY <1>1 DEF InstRow
  <2>3. row.amount = row.paid + m
    BY <1>1, <1>2
  <2> HIDE DEF new
  <2>4. QED
    BY <1>1, <2>1, <2>2, <2>3 DEF Good
<1>3. CASE ~(row.paid + m >= row.amount)
  <2> DEFINE new == [row EXCEPT !.paid = @ + m]
  <2>1. Credit(row, m) = new
    BY <1>3 DEF Credit
  <2>2. /\ new \in InstRow
        /\ new.status = row.status /\ new.amount = row.amount /\ new.paid = row.paid + m
    BY <1>1 DEF InstRow
  <2> HIDE DEF new
  <2>3. QED
    BY <1>1, <1>3, <2>1, <2>2 DEF Good
<1>4. QED
  BY <1>2, <1>3

-----------------------------------------------------------------------------
(* The steps of a repayment request.                                       *)

LEMMA CreateInstallmentInv ==
    ASSUME Inv, NEW q \in PayCalls, NEW i \in Installments, NEW a \in Amounts, NEW d \in Days,
           CreateInstallment(q, i, a, d)
    PROVE  Inv'
<1> DEFINE row == [status |-> "Pending", amount |-> a, paid |-> 0, due |-> d]
           call == [IdlePayCall EXCEPT !.pc = "creating", !.inst = i, !.row = row]
<1>1. row \in InstRow
  BY DEF InstRow
<1>2. row.status = "Pending" /\ row.paid = 0 /\ row.amount \in Amounts
  OBVIOUS
<1> HIDE DEF row
<1>3. call \in PayCall
  BY <1>1, IdleIsGood DEF PayCall
<1>4. call.pc = "creating" /\ call.inst = i /\ call.row = row
  BY DEF IdlePayCall
<1>5. /\ payCall' = [payCall EXCEPT ![q] = call]
      /\ UNCHANGED <<loanVars, insts, sweep, today, received>>
  BY DEF CreateInstallment, row
<1> HIDE DEF call
<1>6. GoodCall(call, received)
  BY <1>2, <1>4 DEF GoodCall, InTransaction
<1>7. QED
  BY <1>3, <1>5, <1>6, HoldCallKeepsInv

LEMMA PayReadInv ==
    ASSUME Inv, NEW q \in PayCalls, NEW i \in Installments, NEW m \in Payments,
           PayRead(q, i, m)
    PROVE  Inv'
<1> DEFINE call == [IdlePayCall EXCEPT !.pc = "read", !.inst = i,
                                       !.row = insts[i], !.money = m]
<1>1. insts[i] \in InstRow /\ m \in Nat
  BY RepaymentsAssumption DEF Inv, RepaymentTypes
<1>2. insts[i].status \in {"Pending", "Overdue"} /\ Good(insts[i], received[i])
  BY DEF PayRead, Inv, GoodRows
<1>3. call \in PayCall
  BY <1>1, IdleIsGood DEF PayCall
<1>4. call.pc = "read" /\ call.inst = i /\ call.row = insts[i] /\ call.money = m
  BY DEF IdlePayCall
<1>5. /\ payCall' = [payCall EXCEPT ![q] = call]
      /\ UNCHANGED <<loanVars, insts, sweep, today, received>>
  BY DEF PayRead
<1> HIDE DEF call
<1>6. GoodCall(call, received)
  BY <1>2, <1>4 DEF GoodCall, InTransaction
<1>7. QED
  BY <1>3, <1>5, <1>6, HoldCallKeepsInv

LEMMA PayCheckLoanInv ==
    ASSUME Inv, NEW q \in PayCalls, PayCheckLoan(q)
    PROVE  Inv'
<1> DEFINE old == payCall[q]
           loan == loans[LoanOf(old.inst)]
           call == [old EXCEPT !.pc = "checked", !.loan = loan]
<1>1. old \in PayCall /\ GoodCall(old, received) /\ old.pc = "read"
  BY DEF Inv, RepaymentTypes, GoodCalls, PayCheckLoan
<1>2. old.inst \in Installments /\ LoanOf(old.inst) \in Loans
  BY <1>1 DEF GoodCall, Installments, LoanOf
<1>3. loan \in LoanRow /\ loan.status = "Active" /\ Complete(loan) /\ Sound(loan)
  BY <1>2 DEF PayCheckLoan, Inv, LoansInv, LoansTypeOK
<1> HIDE DEF loan
<1>4. call \in PayCall
  BY <1>1, <1>3 DEF PayCall
<1>5. /\ call.pc = "checked" /\ call.inst = old.inst /\ call.row = old.row
      /\ call.money = old.money /\ call.loan = loan
  BY <1>1 DEF PayCall
<1>6. /\ payCall' = [payCall EXCEPT ![q] = call]
      /\ UNCHANGED <<loanVars, insts, sweep, today, received>>
      /\ old.money <= old.row.amount - old.row.paid
  BY DEF PayCheckLoan, loan, Inv, RepaymentTypes
<1> HIDE DEF old, call
<1>7. GoodCall(call, received)
  BY <1>1, <1>3, <1>5, <1>6 DEF GoodCall, InTransaction
<1>8. QED
  BY <1>4, <1>6, <1>7, HoldCallKeepsInv

LEMMA PayWriteInv ==
    ASSUME Inv, NEW q \in PayCalls, PayWrite(q)
    PROVE  Inv'
<1> DEFINE old == payCall[q]
           row == Credit(old.row, old.money)
           call == [old EXCEPT !.pc = "written", !.row = row]
<1>1. old \in PayCall /\ GoodCall(old, received) /\ old.pc = "checked"
  BY DEF Inv, RepaymentTypes, GoodCalls, PayWrite
<1>2. /\ old.inst \in Installments
      /\ old.row \in InstRow
      /\ received[old.inst] \in Nat
  BY <1>1 DEF GoodCall, PayCall, Inv, RepaymentTypes
<1>3. /\ row \in InstRow
      /\ row.status # "None"
      /\ Good(row, received[old.inst] + old.money)
  BY <1>1, <1>2, CreditGood DEF GoodCall
<1>4. /\ payCall' = [payCall EXCEPT ![q] = call]
      /\ UNCHANGED <<loanVars, insts, sweep, today, received>>
  BY DEF PayWrite, Inv, RepaymentTypes
<1> HIDE DEF row
<1>5. call \in PayCall
  BY <1>1, <1>3 DEF PayCall
<1>6. /\ call.pc = "written" /\ call.inst = old.inst /\ call.row = row
      /\ call.money = old.money /\ call.loan = old.loan
  BY <1>1 DEF PayCall
<1> HIDE DEF old, call
<1>7. GoodCall(call, received)
  BY <1>1, <1>3, <1>6 DEF GoodCall, InTransaction
<1>8. QED
  BY <1>4, <1>5, <1>7, HoldCallKeepsInv

LEMMA PayCountInv ==
    ASSUME Inv, NEW q \in PayCalls, PayCount(q)
    PROVE  Inv'
<1> DEFINE old == payCall[q]
<1>1. old \in PayCall /\ GoodCall(old, received) /\ old.pc = "written"
  BY DEF Inv, RepaymentTypes, GoodCalls, PayCount
<1>2. PICK pc \in {"counted", "closing"} : payCall' = [payCall EXCEPT ![q].pc = pc]
  BY DEF PayCount
<1> DEFINE call == [old EXCEPT !.pc = pc]
<1>3. /\ payCall' = [payCall EXCEPT ![q] = call]
      /\ UNCHANGED <<loanVars, insts, sweep, today, received>>
  BY <1>2 DEF PayCount, Inv, RepaymentTypes
<1>4. call \in PayCall
  BY <1>1 DEF PayCall
<1>5. /\ call.pc = pc /\ call.inst = old.inst /\ call.row = old.row
      /\ call.money = old.money /\ call.loan = old.loan
  BY <1>1 DEF PayCall
<1> HIDE DEF old, call
<1>6. GoodCall(call, received)
  BY <1>1, <1>5 DEF GoodCall, InTransaction
<1>7. QED
  BY <1>3, <1>4, <1>6, HoldCallKeepsInv

LEMMA CancelInstallmentInv ==
    ASSUME Inv, NEW q \in PayCalls, NEW i \in Installments, CancelInstallment(q, i)
    PROVE  Inv'
<1> DEFINE row == [insts[i] EXCEPT !.status = "Cancelled"]
           call == [IdlePayCall EXCEPT !.pc = "cancelling", !.inst = i, !.row = row]
<1>1. /\ insts[i] \in InstRow /\ insts[i].status \notin {"None", "Paid"}
      /\ Good(insts[i], received[i])
  BY DEF Inv, RepaymentTypes, GoodRows, CancelInstallment, Exists
<1>2. /\ row \in InstRow /\ row.status = "Cancelled"
      /\ row.amount = insts[i].amount /\ row.paid = insts[i].paid
  BY <1>1 DEF InstRow
<1>3. /\ payCall' = [payCall EXCEPT ![q] = call]
      /\ UNCHANGED <<loanVars, insts, sweep, today, received>>
  BY DEF CancelInstallment
<1> HIDE DEF row
<1>4. Good(row, received[i])
  BY <1>1, <1>2 DEF Good
<1>5. call \in PayCall
  BY <1>2, IdleIsGood DEF PayCall
<1>6. call.pc = "cancelling" /\ call.inst = i /\ call.row = row
  BY DEF IdlePayCall
<1> HIDE DEF call
<1>7. GoodCall(call, received)
  BY <1>2, <1>4, <1>6 DEF GoodCall, InTransaction
<1>8. QED
  BY <1>3, <1>5, <1>7, HoldCallKeepsInv

LEMMA FailPayCallInv ==
    ASSUME Inv, NEW q \in PayCalls, FailPayCall(q)
    PROVE  Inv'
BY IdleIsGood, HoldCallKeepsInv DEF FailPayCall, EndPayCall

-----------------------------------------------------------------------------
(* The steps that write the table.                                         *)

\* What requests and the job hold stays good when more has been received.
LEMMA MoreReceived ==
    ASSUME RepaymentTypes, NEW rec \in [Installments -> Nat],
           \A i \in Installments : received[i] <= rec[i]
    PROVE  /\ GoodSweep => \A i \in Installments : sweep[i].status # "None" =>
                  sweep[i].status = "Overdue" /\ Good(sweep[i], rec[i])
           /\ \A call \in PayCall : GoodCall(call, received) => GoodCall(call, rec)
<1>1. ASSUME GoodSweep, NEW i \in Installments, sweep[i].status # "None"
      PROVE  sweep[i].status = "Overdue" /\ Good(sweep[i], rec[i])
  <2>1. sweep[i] \in InstRow /\ received[i] \in Nat /\ rec[i] \in Nat
    BY DEF RepaymentTypes
  <2>2. QED
    BY <1>1, <2>1, GoodMonotone DEF GoodSweep
<1>2. ASSUME NEW call \in PayCall, GoodCall(call, received)
      PROVE  GoodCall(call, rec)
  <2>1. CASE call.pc = "idle"
    BY <2>1 DEF GoodCall, InTransaction
  <2>2. CASE call.pc # "idle"
    <3>1. /\ call.inst \in Installments
          /\ call.row \in InstRow
          /\ received[call.inst] \in Nat /\ rec[call.inst] \in Nat
          /\ received[call.inst] <= rec[call.inst]
          /\ call.money \in Nat
      BY <1>2, <2>2 DEF GoodCall, RepaymentTypes, PayCall
    <3>2. Good(call.row, received[call.inst]) => Good(call.row, rec[call.inst])
      BY <3>1, GoodMonotone
    <3>3. Good(call.row, received[call.inst] + call.money)
             => Good(call.row, rec[call.inst] + call.money)
      BY <3>1, GoodMonotone
    <3>4. QED
      BY <1>2, <3>2, <3>3 DEF GoodCall
  <2>3. QED
    BY <2>1, <2>2
<1>3. QED
  BY <1>1, <1>2

\* Request q ends by storing a good row for its installment.
LEMMA StoreInstKeepsInv ==
    ASSUME Inv, LoansInv', NEW q \in PayCalls, NEW i \in Installments, NEW row \in InstRow,
           NEW r \in Nat, received[i] <= r, row.status # "None", Good(row, r),
           insts' = [insts EXCEPT ![i] = row],
           received' = [received EXCEPT ![i] = r],
           EndPayCall(q), UNCHANGED <<sweep, today>>
    PROVE  Inv'
<1>1. received' \in [Installments -> Nat] /\ received'[i] = r
  BY DEF Inv, RepaymentTypes
<1>2. \A j \in Installments : received[j] <= received'[j]
  BY DEF Inv, RepaymentTypes
<1>3. payCall' = [payCall EXCEPT ![q] = IdlePayCall]
  BY DEF EndPayCall
<1>4. RepaymentTypes'
  BY <1>1, <1>3, IdleIsGood DEF Inv, RepaymentTypes
<1>5. GoodRows'
  <2>1. ASSUME NEW j \in Installments
        PROVE  /\ insts'[j].status = "None" => insts'[j] = NoInst
               /\ insts'[j].status # "None" => Good(insts'[j], received'[j])
    <3>1. CASE j = i
      BY <3>1, <1>1 DEF Inv, RepaymentTypes
    <3>2. CASE j # i
      BY <3>2 DEF Inv, RepaymentTypes, GoodRows
    <3>3. QED
      BY <3>1, <3>2
  <2>2. QED
    BY <2>1 DEF GoodRows, NoInst, Good
<1>6. GoodSweep'
  BY <1>1, <1>2, MoreReceived DEF Inv, GoodSweep, Good
<1>7. \A p \in PayCalls : GoodCall(payCall'[p], received')
  <2>1. GoodCall(IdlePayCall, received')
    BY DEF GoodCall, IdlePayCall, InTransaction
  <2>2. \A p \in PayCalls : GoodCall(payCall[p], received')
    BY <1>1, <1>2, MoreReceived DEF Inv, RepaymentTypes, GoodCalls
  <2>3. QED
    BY <1>3, <2>1, <2>2 DEF Inv, RepaymentTypes
<1>8. GoodCalls'
  BY <1>7 DEF GoodCalls, GoodCall, Good, Complete, Sound, Approved
<1>9. QED
  BY <1>4, <1>5, <1>6, <1>8 DEF Inv

\* The loans keep their invariant while they are left alone.
LEMMA LoansAlone == LoansInv /\ UNCHANGED loanVars => LoansInv'
BY DEF loanVars, LoansInv, LoansTypeOK, Sound, Approved, Complete

LEMMA CommitInstallmentInv ==
    ASSUME Inv, NEW q \in PayCalls, CommitInstallment(q)
    PROVE  Inv'
<1> DEFINE call == payCall[q]
           i == call.inst
           r == received[i]
<1>1. /\ call \in PayCall /\ call.pc = "creating"
      /\ i \in Installments /\ call.row \in InstRow /\ call.row.status = "Pending"
      /\ call.row.paid = 0 /\ call.row.amount \in Amounts
      /\ r \in Nat /\ received[i] <= r
  BY DEF CommitInstallment, Inv, RepaymentTypes, GoodCalls, GoodCall, PayCall
<1>2. Good(call.row, r) /\ call.row.status # "None"
  <2>1. call.row.amount \in Nat \ {0}
    BY <1>1, RepaymentsAssumption
  <2> HIDE DEF call, r
  <2>2. QED
    BY <1>1, <2>1 DEF Good
<1>3. received' = [received EXCEPT ![i] = r]
  BY DEF CommitInstallment, Inv, RepaymentTypes
<1>4. LoansInv'
  BY LoansAlone DEF CommitInstallment, Inv
<1>5. /\ insts' = [insts EXCEPT ![i] = call.row]
      /\ EndPayCall(q) /\ UNCHANGED <<sweep, today>>
  BY DEF CommitInstallment
<1> HIDE DEF call, i, r
<1>6. QED
  BY <1>1, <1>2, <1>3, <1>4, <1>5, StoreInstKeepsInv

LEMMA CommitCancelInv ==
    ASSUME Inv, NEW q \in PayCalls, CommitCancel(q)
    PROVE  Inv'
<1> DEFINE call == payCall[q]
           i == call.inst
           r == received[i]
<1>1. /\ call \in PayCall /\ call.pc = "cancelling"
      /\ i \in Installments /\ call.row \in InstRow /\ call.row.status # "None"
      /\ Good(call.row, r)
      /\ r \in Nat /\ received[i] <= r
  BY DEF CommitCancel, Inv, RepaymentTypes, GoodCalls, GoodCall, PayCall
<1>2. received' = [received EXCEPT ![i] = r]
  BY DEF CommitCancel, Inv, RepaymentTypes
<1>3. LoansInv'
  BY LoansAlone DEF CommitCancel, Inv
<1>4. /\ insts' = [insts EXCEPT ![i] = call.row]
      /\ EndPayCall(q) /\ UNCHANGED <<sweep, today>>
  BY DEF CommitCancel
<1> HIDE DEF call, i, r
<1>5. QED
  BY <1>1, <1>2, <1>3, <1>4, StoreInstKeepsInv

\* Closing a loan stores the Active loan the payment read, as Completed.
LEMMA CloseLoanInv ==
    ASSUME LoansInv, NEW l \in Loans, NEW loan \in LoanRow,
           Complete(loan), Sound(loan), loan.status = "Active",
           loans' = [loans EXCEPT ![l] = [loan EXCEPT !.status = "Completed"]],
           UNCHANGED <<personActive, loanCall>>
    PROVE  LoansInv'
<1> DEFINE new == [loan EXCEPT !.status = "Completed"]
<1>1. new \in LoanRow /\ Complete(new) /\ Sound(new)
  BY DEF LoanRow, Complete, Sound, Approved, LoanStatuses
<1> HIDE DEF new
<1>2. loans' = [loans EXCEPT ![l] = new]
  BY DEF new
<1>3. LoansTypeOK'
  BY <1>1, <1>2 DEF LoansInv, LoansTypeOK, Complete
<1>4. (\A m \in Loans : Sound(loans[m]))'
  BY <1>1, <1>2 DEF LoansInv, LoansTypeOK, Sound, Approved
<1>5. QED
  BY <1>3, <1>4 DEF LoansInv, Sound, Approved

LEMMA PayCommitInv ==
    ASSUME Inv, NEW q \in PayCalls, PayCommit(q)
    PROVE  Inv'
<1> DEFINE call == payCall[q]
           i == call.inst
           r == received[i] + call.money
<1>1. /\ call \in PayCall /\ call.pc \in {"counted", "closing"}
      /\ i \in Installments /\ call.row \in InstRow /\ call.row.status # "None"
      /\ Good(call.row, r)
      /\ received[i] \in Nat /\ call.money \in Nat
      /\ call.loan \in LoanRow
      /\ Complete(call.loan) /\ Sound(call.loan) /\ call.loan.status = "Active"
  BY DEF PayCommit, Inv, RepaymentTypes, GoodCalls, GoodCall, PayCall, InTransaction
<1>2. r \in Nat /\ received[i] <= r
  BY <1>1
<1>3. LoansInv'
  <2>1. LoanOf(i) \in Loans
    BY <1>1 DEF LoanOf, Installments
  <2>2. CASE call.pc = "closing"
    BY <1>1, <2>1, <2>2, CloseLoanInv DEF PayCommit, Inv
  <2>3. CASE call.pc # "closing"
    BY <2>3, LoansAlone DEF PayCommit, Inv, loanVars
  <2>4. QED
    BY <2>2, <2>3
<1>4. /\ insts' = [insts EXCEPT ![i] = call.row]
      /\ received' = [received EXCEPT ![i] = r]
      /\ EndPayCall(q) /\ UNCHANGED <<sweep, today>>
  BY DEF PayCommit
<1> HIDE DEF call, i, r
<1>5. QED
  BY <1>1, <1>2, <1>3, <1>4, StoreInstKeepsInv

-----------------------------------------------------------------------------
(* The job, the clock, the loan workflow, and everything together.         *)

LEMMA ListOverdueInv == ASSUME Inv, ListOverdue PROVE Inv'
<1>1. UNCHANGED <<loanVars, insts, payCall, today, received>>
  BY DEF ListOverdue
<1>2. PICK page \in SUBSET Installments :
        sweep' = [i \in Installments |->
                     IF i \in page /\ insts[i].due < today
                     THEN [insts[i] EXCEPT !.status = "Overdue"]
                     ELSE NoInst]
    /\ OverduePage(page)
  BY DEF ListOverdue
<1>3. ASSUME NEW i \in Installments
      PROVE  /\ sweep'[i] \in InstRow
             /\ sweep'[i].status # "None" =>
                   sweep'[i].status = "Overdue" /\ Good(sweep'[i], received[i])
  <2>1. CASE i \in page /\ insts[i].due < today
    <3>1. insts[i] \in InstRow /\ insts[i].status = "Pending" /\ Good(insts[i], received[i])
      BY <1>2, <2>1 DEF OverduePage, Inv, RepaymentTypes, GoodRows
    <3>2. sweep'[i] = [insts[i] EXCEPT !.status = "Overdue"]
      BY <1>2, <2>1
    <3>3. /\ sweep'[i] \in InstRow /\ sweep'[i].status = "Overdue"
          /\ sweep'[i].amount = insts[i].amount /\ sweep'[i].paid = insts[i].paid
      BY <3>1, <3>2 DEF InstRow
    <3>4. QED
      BY <3>1, <3>3 DEF Good
  <2>2. CASE ~(i \in page /\ insts[i].due < today)
    BY <1>2, <2>2 DEF NoInst, InstRow
  <2>3. QED
    BY <2>1, <2>2
<1>4. sweep' \in [Installments -> InstRow]
  BY <1>2, <1>3
<1>5. LoansInv'
  BY <1>1, LoansAlone DEF Inv
<1>6. RepaymentTypes' /\ GoodRows' /\ GoodSweep'
  BY <1>1, <1>3, <1>4 DEF Inv, RepaymentTypes, GoodRows, GoodSweep, Good
<1>7. GoodCalls'
  BY <1>1 DEF Inv, GoodCalls, GoodCall, Good, Complete, Sound, Approved
<1>8. QED
  BY <1>5, <1>6, <1>7 DEF Inv

LEMMA SaveOverdueInv == ASSUME Inv, SaveOverdue PROVE Inv'
<1>1. PICK i \in Installments :
        /\ sweep[i].status # "None"
        /\ insts' = [insts EXCEPT ![i] = sweep[i]]
        /\ sweep' = [sweep EXCEPT ![i] = NoInst]
        /\ UNCHANGED <<loanVars, payCall, today, received>>
  BY DEF SaveOverdue, NextOverdue
<1>2. NoInst \in InstRow /\ NoInst.status = "None"
  BY DEF NoInst, InstRow
<1>3. sweep[i] \in InstRow /\ Good(sweep[i], received[i])
  BY <1>1 DEF Inv, RepaymentTypes, GoodSweep
<1>4. LoansInv'
  BY <1>1, LoansAlone DEF Inv
<1>5. RepaymentTypes'
  BY <1>1, <1>2, <1>3 DEF Inv, RepaymentTypes
<1>6. GoodRows' /\ GoodSweep'
  BY <1>1, <1>2, <1>3 DEF Inv, RepaymentTypes, GoodRows, GoodSweep, Good
<1>7. GoodCalls'
  BY <1>1 DEF Inv, GoodCalls, GoodCall, Good, Complete, Sound, Approved
<1>8. QED
  BY <1>4, <1>5, <1>6, <1>7 DEF Inv

LEMMA FailSweepInv == ASSUME Inv, FailSweep PROVE Inv'
<1>1. NoInst \in InstRow /\ NoInst.status = "None"
  BY DEF NoInst, InstRow
<1>2. LoansInv'
  BY LoansAlone DEF Inv, FailSweep
<1>3. RepaymentTypes' /\ GoodRows' /\ GoodSweep'
  BY <1>1 DEF FailSweep, Inv, RepaymentTypes, GoodRows, GoodSweep, Good
<1>4. GoodCalls'
  BY DEF FailSweep, Inv, GoodCalls, GoodCall, Good, Complete, Sound, Approved
<1>5. QED
  BY <1>2, <1>3, <1>4 DEF Inv

LEMMA TickInv == ASSUME Inv, Tick PROVE Inv'
<1>1. LoansInv'
  BY LoansAlone DEF Inv, Tick
<1>2. RepaymentTypes' /\ GoodRows' /\ GoodSweep'
  BY RepaymentsAssumption DEF Tick, Inv, RepaymentTypes, GoodRows, GoodSweep, Good
<1>3. GoodCalls'
  BY DEF Tick, Inv, GoodCalls, GoodCall, Good, Complete, Sound, Approved
<1>4. QED
  BY <1>1, <1>2, <1>3 DEF Inv

LEMMA RepaymentsAlone ==
    ASSUME Inv, LoansInv', UNCHANGED repaymentVars PROVE Inv'
<1>1. RepaymentTypes' /\ GoodRows' /\ GoodSweep'
  BY DEF repaymentVars, Inv, RepaymentTypes, GoodRows, GoodSweep, Good
<1>2. GoodCalls'
  BY DEF repaymentVars, Inv, GoodCalls, GoodCall, Good, Complete, Sound, Approved
<1>3. QED
  BY <1>1, <1>2 DEF Inv

LEMMA StepInv == Inv /\ [Next]_vars => Inv'
<1> SUFFICES ASSUME Inv, [Next]_vars PROVE Inv'
  OBVIOUS
<1>1. ASSUME NEW q \in PayCalls, NEW i \in Installments, NEW a \in Amounts, NEW d \in Days,
             CreateInstallment(q, i, a, d)
      PROVE  Inv'
  BY <1>1, CreateInstallmentInv
<1>2. ASSUME NEW q \in PayCalls, CommitInstallment(q) PROVE Inv'
  BY <1>2, CommitInstallmentInv
<1>3. ASSUME NEW q \in PayCalls, NEW i \in Installments, NEW m \in Payments, PayRead(q, i, m)
      PROVE  Inv'
  BY <1>3, PayReadInv
<1>4. ASSUME NEW q \in PayCalls, PayStep(q) PROVE Inv'
  BY <1>4, PayCheckLoanInv, PayWriteInv, PayCountInv, PayCommitInv DEF PayStep
<1>5. ASSUME NEW q \in PayCalls, FailPayCall(q) PROVE Inv'
  BY <1>5, FailPayCallInv
<1>6. CASE LoansNext /\ UNCHANGED repaymentVars
  BY <1>6, LoansStepInv, RepaymentsAlone DEF Inv
<1>7. ASSUME NEW q \in PayCalls, NEW i \in Installments, CancelInstallment(q, i) PROVE Inv'
  BY <1>7, CancelInstallmentInv
<1>8. ASSUME NEW q \in PayCalls, CommitCancel(q) PROVE Inv'
  BY <1>8, CommitCancelInv
<1>9. CASE ListOverdue \/ SaveOverdue \/ FailSweep \/ Tick
  BY <1>9, ListOverdueInv, SaveOverdueInv, FailSweepInv, TickInv
<1>10. CASE UNCHANGED vars
  BY <1>10, LoansAlone, RepaymentsAlone DEF Inv, vars
<1>11. QED
  BY <1>1, <1>2, <1>3, <1>4, <1>5, <1>6, <1>7, <1>8, <1>9, <1>10
     DEF Next, HandlersNext, PaymentsNext

LEMMA SpecInv == Spec => []Inv
BY InitInv, StepInv, PTL DEF Spec

-----------------------------------------------------------------------------

\* Type correctness of the whole component.
THEOREM TypeCorrect == Spec => []TypeOK
<1>1. Inv => TypeOK
  BY DEF Inv, LoansInv, RepaymentTypes, GoodRows, GoodCalls, GoodCall, Good, TypeOK
<1>2. QED
  BY <1>1, SpecInv, PTL

\* An installment is Paid exactly when its whole amount is recorded as paid,
\* although Cancel and MarkOverdue write back rows read long ago.
THEOREM SettledMeansPaidHolds == Spec => []SettledMeansPaid
<1>1. Inv => SettledMeansPaid
  BY DEF Inv, GoodRows, Good, SettledMeansPaid, Exists
<1>2. QED
  BY <1>1, SpecInv, PTL

\* No installment is credited with more than was received for it.
THEOREM CreditedWasReceivedHolds == Spec => []CreditedWasReceived
<1>1. Inv => CreditedWasReceived
  <2> SUFFICES ASSUME Inv, NEW i \in Installments PROVE insts[i].paid <= received[i]
    BY DEF CreditedWasReceived
  <2>1. received[i] \in Nat
    BY DEF Inv, RepaymentTypes
  <2>2. CASE insts[i].status = "None"
    BY <2>1, <2>2 DEF Inv, GoodRows, NoInst
  <2>3. CASE insts[i].status # "None"
    BY <2>3 DEF Inv, GoodRows, Good
  <2>4. QED
    BY <2>2, <2>3
<1>2. QED
  BY <1>1, SpecInv, PTL

\* The four-eyes rule survives the payments that close loans.
THEOREM FourEyesWithRepayments == Spec => []FourEyes
<1>1. Inv => FourEyes
  BY DEF Inv, LoansInv, FourEyes, Sound
<1>2. QED
  BY <1>1, SpecInv, PTL

(***************************************************************************)
(* Between payments.  A transaction has found the row as it was read, and  *)
(* no other transaction writes there until it commits: what it will store  *)
(* is the stored row and its own payment.                                  *)
(***************************************************************************)

\* What a request holds of its installment, when nothing but payments writes.
InStep(call) ==
    /\ call.pc # "cancelling"
    /\ call.pc \in {"read", "checked"} =>
          /\ insts[call.inst].status # "None"
          /\ insts[call.inst].amount = call.row.amount
    /\ call.pc \in InTransaction =>
          /\ insts[call.inst].status # "None"
          /\ insts[call.inst].amount = call.row.amount
          /\ call.row.paid = insts[call.inst].paid + call.money
          /\ call.row.status \in {"Pending", "Paid"}

OnTheBooks ==
    \A i \in Installments : insts[i].status \in {"None", "Pending", "Paid"}
                            /\ insts[i].paid = received[i]

OneWriter ==
    \A q, r \in PayCalls :
        payCall[q].pc \in InTransaction /\ payCall[r].pc \in InTransaction
            /\ payCall[q].inst = payCall[r].inst => q = r

LedgerInv == OnTheBooks /\ OneWriter /\ \A q \in PayCalls : InStep(payCall[q])

(***************************************************************************)
(* Closing a loan.                                                         *)
(***************************************************************************)

\* Repayment requests come one at a time, and so do the requests about loans.
OneAtATime == (\A q, r \in PayCalls : q = r) /\ (\A c, d \in LoanCalls : c = d)

\* Not yet Active, and on the way there.
Early == {"None", "Pending", "Approved"}

\* Nothing has been paid of a loan that was never Active.
EarlyIsUnpaid ==
    \A l \in Loans, n \in Numbers :
        loans[l].status \in Early => insts[<<l, n>>].status # "Paid"

\* A held row takes its loan a step on, never back to before it was Active.
HeldRowFollows ==
    \A c \in LoanCalls :
        /\ loanCall[c].op # "idle" /\ loanCall[c].row.status \in Early =>
               loans[loanCall[c].loan].status \in Early
        /\ loanCall[c].op # "idle" /\ loanCall[c].row.status = "Active" =>
               loans[loanCall[c].loan].status = "Approved"

\* A payment found its loan Active, and a payment that settles its installment
\* leaves the loan open only if another installment is outstanding.
PaymentFollows ==
    \A q \in PayCalls :
        /\ payCall[q].pc \in {"checked"} \cup InTransaction =>
               loans[LoanOf(payCall[q].inst)].status \notin Early
        /\ payCall[q].pc = "counted" /\ payCall[q].row.status = "Paid" => HasOutstanding(q)

\* An Active loan with installments has one that is not Paid.
OpenIsOwing ==
    \A l \in Loans : loans[l].status = "Active" =>
        \/ \A n \in Numbers : ~Exists(<<l, n>>)
        \/ \E n \in Numbers : insts[<<l, n>>].status \notin {"None", "Paid"}

ClosingInv == EarlyIsUnpaid /\ HeldRowFollows /\ PaymentFollows /\ OpenIsOwing

-----------------------------------------------------------------------------
(* The books                                                               *)

LEMMA PaymentsStepInv == Inv /\ [PaymentsNext]_vars => Inv'
BY StepInv DEF Next, HandlersNext

\* What the invariants say of one request.
LEMMA CallHere ==
    ASSUME Inv, NEW q \in PayCalls
    PROVE  /\ payCall[q] \in PayCall
           /\ payCall[q].row \in InstRow
           /\ payCall[q].money \in Nat
           /\ GoodCall(payCall[q], received)
           /\ payCall[q].pc # "idle" => payCall[q].inst \in Installments
                                        /\ LoanOf(payCall[q].inst) \in Loans
BY DEF Inv, RepaymentTypes, GoodCalls, GoodCall, PayCall, Installments, LoanOf

\* A request moves on; the table stays.
LEMMA HoldKeepsLedger ==
    ASSUME Inv, LedgerInv, NEW q \in PayCalls, NEW call,
           payCall' = [payCall EXCEPT ![q] = call],
           InStep(call),
           call.pc \in InTransaction =>
               \A r \in PayCalls : r # q /\ payCall[r].pc \in InTransaction
                                       => payCall[r].inst # call.inst,
           UNCHANGED <<insts, received>>
    PROVE  LedgerInv'
<1>1. \A r \in PayCalls : payCall'[r] = IF r = q THEN call ELSE payCall[r]
  BY DEF Inv, RepaymentTypes
<1>2. OnTheBooks'
  BY DEF LedgerInv, OnTheBooks
<1>3. OneWriter'
  BY <1>1 DEF LedgerInv, OneWriter
<1>4. \A r \in PayCalls : InStep(payCall'[r])
  BY <1>1 DEF LedgerInv
<1>5. \A r \in PayCalls : InStep(payCall[r])'
  BY <1>4 DEF InStep
<1>6. QED
  BY <1>2, <1>3, <1>5 DEF LedgerInv

\* A request that has not written moves on.
LEMMA ReadKeepsLedger ==
    ASSUME Inv, LedgerInv, NEW q \in PayCalls, NEW call,
           payCall' = [payCall EXCEPT ![q] = call],
           call.pc \in {"idle", "creating", "read", "checked"},
           call.pc \in {"read", "checked"} =>
               /\ insts[call.inst].status # "None"
               /\ insts[call.inst].amount = call.row.amount,
           UNCHANGED <<insts, received>>
    PROVE  LedgerInv'
<1>1. InStep(call) /\ call.pc \notin InTransaction
  BY DEF InStep, InTransaction
<1>2. QED
  BY <1>1, HoldKeepsLedger

LEMMA CreateInstallmentLedger ==
    ASSUME Inv, LedgerInv, NEW q \in PayCalls, NEW i \in Installments, NEW a \in Amounts,
           NEW d \in Days, CreateInstallment(q, i, a, d)
    PROVE  LedgerInv'
<1> DEFINE call == [IdlePayCall EXCEPT !.pc = "creating", !.inst = i,
                !.row = [status |-> "Pending", amount |-> a, paid |-> 0, due |-> d]]
<1>1. /\ payCall' = [payCall EXCEPT ![q] = call]
      /\ UNCHANGED <<insts, received>>
  BY DEF CreateInstallment
<1>2. call.pc = "creating"
  BY DEF IdlePayCall
<1> HIDE DEF call
<1>3. QED
  BY <1>1, <1>2, ReadKeepsLedger

LEMMA PayReadLedger ==
    ASSUME Inv, LedgerInv, NEW q \in PayCalls, NEW i \in Installments, NEW m \in Payments,
           PayRead(q, i, m)
    PROVE  LedgerInv'
<1> DEFINE call == [IdlePayCall EXCEPT !.pc = "read", !.inst = i, !.row = insts[i], !.money = m]
<1>1. /\ payCall' = [payCall EXCEPT ![q] = call]
      /\ insts[i].status \in {"Pending", "Overdue"}
      /\ UNCHANGED <<insts, received>>
  BY DEF PayRead
<1>2. call.pc = "read" /\ call.inst = i /\ call.row = insts[i]
  BY DEF IdlePayCall
<1> HIDE DEF call
<1>3. QED
  BY <1>1, <1>2, ReadKeepsLedger

LEMMA PayCheckLoanLedger ==
    ASSUME Inv, LedgerInv, NEW q \in PayCalls, PayCheckLoan(q)
    PROVE  LedgerInv'
<1> DEFINE call == [payCall[q] EXCEPT !.pc = "checked", !.loan = loans[LoanOf(payCall[q].inst)]]
<1>1. payCall[q] \in PayCall /\ InStep(payCall[q]) /\ payCall \in [PayCalls -> PayCall]
  BY CallHere DEF LedgerInv, Inv, RepaymentTypes
<1>2. /\ payCall' = [payCall EXCEPT ![q] = call]
      /\ payCall[q].pc = "read"
      /\ UNCHANGED <<insts, received>>
  BY <1>1 DEF PayCheckLoan
<1>3. call.pc = "checked" /\ call.inst = payCall[q].inst /\ call.row = payCall[q].row
  BY <1>1 DEF PayCall
<1> HIDE DEF call
<1>4. QED
  BY <1>1, <1>2, <1>3, ReadKeepsLedger DEF InStep

\* The guarded write finds the row as it was read, and not locked.
LEMMA PayWriteLedger ==
    ASSUME Inv, LedgerInv, NEW q \in PayCalls, PayWrite(q)
    PROVE  LedgerInv'
<1> DEFINE old == payCall[q]
           row == Credit(old.row, old.money)
           call == [old EXCEPT !.pc = "written", !.row = row]
<1>1. /\ old \in PayCall /\ GoodCall(old, received) /\ old.pc = "checked"
      /\ old.inst \in Installments /\ old.row \in InstRow
      /\ InStep(old)
  BY CallHere DEF PayWrite, LedgerInv
<1>2. /\ insts[old.inst].status # "None"
      /\ insts[old.inst].amount = old.row.amount
      /\ insts[old.inst].status = old.row.status
      /\ insts[old.inst].paid = old.row.paid
      /\ ~Locked(old.inst)
  BY <1>1 DEF InStep, PayWrite, Unchanged
<1>3. /\ old.row.status = "Pending"
      /\ old.money \in Payments /\ Good(old.row, received[old.inst])
      /\ old.money <= old.row.amount - old.row.paid
      /\ received[old.inst] \in Nat
  BY <1>1, <1>2 DEF GoodCall, LedgerInv, OnTheBooks, Inv, RepaymentTypes
<1>4. row.paid = old.row.paid + old.money /\ row.amount = old.row.amount
  BY <1>1, <1>3, CreditGood
<1>5. row.status \in {"Pending", "Paid"}
  BY <1>1, <1>3 DEF Credit, InstRow
<1> HIDE DEF row
<1>6. /\ payCall' = [payCall EXCEPT ![q] = call]
      /\ UNCHANGED <<insts, received>>
  BY DEF PayWrite, row, Inv, RepaymentTypes
<1>7. call.pc = "written" /\ call.inst = old.inst /\ call.row = row /\ call.money = old.money
  BY <1>1 DEF PayCall
<1> HIDE DEF call
<1>8. InStep(call)
  BY <1>2, <1>4, <1>5, <1>7 DEF InStep
<1>9. \A r \in PayCalls : payCall[r].pc \in InTransaction => payCall[r].inst # call.inst
  BY <1>2, <1>7 DEF Locked, InTransaction
<1>10. QED
  BY <1>6, <1>8, <1>9, HoldKeepsLedger

LEMMA PayCountLedger ==
    ASSUME Inv, LedgerInv, NEW q \in PayCalls, PayCount(q)
    PROVE  LedgerInv'
<1> DEFINE old == payCall[q]
<1>1. old \in PayCall /\ InStep(old) /\ old.pc = "written" /\ payCall \in [PayCalls -> PayCall]
  BY CallHere DEF PayCount, LedgerInv, Inv, RepaymentTypes
<1>2. PICK pc \in {"counted", "closing"} : payCall' = [payCall EXCEPT ![q].pc = pc]
  BY DEF PayCount
<1> DEFINE call == [old EXCEPT !.pc = pc]
<1>3. payCall' = [payCall EXCEPT ![q] = call] /\ UNCHANGED <<insts, received>>
  BY <1>1, <1>2 DEF PayCount
<1>4. call.pc = pc /\ call.inst = old.inst /\ call.row = old.row /\ call.money = old.money
  BY <1>1 DEF PayCall
<1> HIDE DEF old, call
<1>5. InStep(call)
  BY <1>1, <1>4 DEF InStep, InTransaction
<1>6. \A r \in PayCalls : r # q /\ payCall[r].pc \in InTransaction => payCall[r].inst # call.inst
  BY <1>1, <1>4 DEF old, LedgerInv, OneWriter, InTransaction
<1>7. QED
  BY <1>3, <1>5, <1>6, HoldKeepsLedger

LEMMA EndKeepsLedger ==
    ASSUME Inv, LedgerInv, NEW q \in PayCalls, EndPayCall(q), UNCHANGED <<insts, received>>
    PROVE  LedgerInv'
BY ReadKeepsLedger DEF EndPayCall, IdlePayCall

\* A new installment owes everything.
LEMMA CommitInstallmentLedger ==
    ASSUME Inv, LedgerInv, NEW q \in PayCalls, CommitInstallment(q)
    PROVE  LedgerInv'
<1>1. /\ payCall[q].inst \in Installments /\ payCall[q].row \in InstRow
      /\ payCall[q].row.status = "Pending" /\ payCall[q].row.paid = 0
  BY CallHere DEF CommitInstallment, GoodCall
<1>2. PICK i \in Installments : i = payCall[q].inst
  BY <1>1
<1>3. PICK row \in InstRow : row = payCall[q].row
  BY <1>1
<1>4. /\ insts[i] = NoInst
      /\ insts' = [insts EXCEPT ![i] = row]
      /\ payCall' = [payCall EXCEPT ![q] = IdlePayCall]
      /\ received' = received
  BY <1>2, <1>3 DEF CommitInstallment, Exists, EndPayCall, Inv, GoodRows
<1>5. \A j \in Installments : insts'[j] = IF j = i THEN row ELSE insts[j]
  BY <1>4 DEF Inv, RepaymentTypes
<1>6. \A r \in PayCalls : payCall'[r] = IF r = q THEN IdlePayCall ELSE payCall[r]
  BY <1>4 DEF Inv, RepaymentTypes
<1>7. OnTheBooks'
  BY <1>1, <1>3, <1>4, <1>5 DEF LedgerInv, OnTheBooks, NoInst
<1>8. IdlePayCall.pc = "idle"
  BY DEF IdlePayCall
<1>9. OneWriter'
  BY <1>6, <1>8 DEF LedgerInv, OneWriter, InTransaction
<1>10. ASSUME NEW r \in PayCalls PROVE InStep(payCall[r])'
  <2>1. CASE r = q
    BY <2>1, <1>6, <1>8 DEF InStep, InTransaction
  <2>2. CASE r # q
    <3>1. payCall'[r] = payCall[r] /\ InStep(payCall[r])
      BY <2>2, <1>6 DEF LedgerInv
    <3>2. payCall[r].pc \in {"read", "checked"} \cup InTransaction =>
              payCall[r].inst \in Installments /\ payCall[r].inst # i
      BY <3>1, <1>4, CallHere DEF InStep, InTransaction, NoInst
    <3>3. QED
      BY <3>1, <3>2, <1>5 DEF InStep
  <2>3. QED
    BY <2>1, <2>2
<1>11. QED
  BY <1>7, <1>9, <1>10 DEF LedgerInv

\* What a transaction commits: the stored row with its payment.
LEMMA PayCommitStores ==
    ASSUME Inv, LedgerInv, NEW q \in PayCalls, PayCommit(q)
    PROVE  \E i \in Installments, row \in InstRow, m \in Payments :
             /\ i = payCall[q].inst
             /\ insts[i].status # "None"
             /\ row.amount = insts[i].amount
             /\ row.paid = insts[i].paid + m
             /\ row.paid <= row.amount
             /\ row.status \in {"Pending", "Paid"}
             /\ row.status = "Paid" <=> row.paid = row.amount
             /\ \A j \in Installments : insts'[j] = IF j = i THEN row ELSE insts[j]
             /\ received' = [received EXCEPT ![i] = @ + m]
             /\ payCall[q].pc \in InTransaction
             /\ payCall' = [payCall EXCEPT ![q] = IdlePayCall]
<1>1. payCall[q].pc \in InTransaction
  BY DEF PayCommit, InTransaction
<1>2. /\ GoodCall(payCall[q], received) /\ InStep(payCall[q])
      /\ payCall[q].inst \in Installments /\ payCall[q].row \in InstRow
  BY <1>1, CallHere DEF LedgerInv, InTransaction
<1>3. payCall[q].money \in Payments
  BY <1>1, <1>2 DEF GoodCall
<1>4. PICK i \in Installments : i = payCall[q].inst
  BY <1>2
<1>5. PICK row \in InstRow : row = payCall[q].row
  BY <1>2
<1>6. PICK m \in Payments : m = payCall[q].money
  BY <1>3
<1>7. Good(row, received[i] + m)
  BY <1>1, <1>2, <1>4, <1>5, <1>6 DEF GoodCall
<1>8. /\ insts[i].status # "None"
      /\ row.amount = insts[i].amount
      /\ row.paid = insts[i].paid + m
      /\ row.status \in {"Pending", "Paid"}
  BY <1>1, <1>2, <1>4, <1>5, <1>6 DEF InStep
<1>9. /\ insts' = [insts EXCEPT ![i] = row]
      /\ received' = [received EXCEPT ![i] = @ + m]
      /\ payCall' = [payCall EXCEPT ![q] = IdlePayCall]
  BY <1>4, <1>5, <1>6 DEF PayCommit, EndPayCall
<1>10. \A j \in Installments : insts'[j] = IF j = i THEN row ELSE insts[j]
  BY <1>9 DEF Inv, RepaymentTypes
<1>11. QED
  BY <1>1, <1>4, <1>7, <1>8, <1>9, <1>10 DEF Good

LEMMA PayCommitLedger ==
    ASSUME Inv, LedgerInv, NEW q \in PayCalls, PayCommit(q)
    PROVE  LedgerInv'
<1>1. PICK i \in Installments, row \in InstRow, m \in Payments :
             /\ i = payCall[q].inst
             /\ row.amount = insts[i].amount
             /\ row.paid = insts[i].paid + m
             /\ row.status \in {"Pending", "Paid"}
             /\ \A j \in Installments : insts'[j] = IF j = i THEN row ELSE insts[j]
             /\ received' = [received EXCEPT ![i] = @ + m]
             /\ payCall[q].pc \in InTransaction
             /\ payCall' = [payCall EXCEPT ![q] = IdlePayCall]
  BY PayCommitStores
<1>2. \A r \in PayCalls : payCall'[r] = IF r = q THEN IdlePayCall ELSE payCall[r]
  BY <1>1 DEF Inv, RepaymentTypes
<1>3. OnTheBooks'
  <2>1. \A j \in Installments : received'[j] = IF j = i THEN received[i] + m ELSE received[j]
    BY <1>1 DEF Inv, RepaymentTypes
  <2>2. QED
    BY <2>1, <1>1 DEF LedgerInv, OnTheBooks
<1>4. IdlePayCall.pc = "idle"
  BY DEF IdlePayCall
<1>5. OneWriter'
  BY <1>2, <1>4 DEF LedgerInv, OneWriter, InTransaction
<1>6. ASSUME NEW r \in PayCalls PROVE InStep(payCall[r])'
  <2>1. CASE r = q
    BY <2>1, <1>2, <1>4 DEF InStep, InTransaction
  <2>2. CASE r # q
    <3>1. payCall'[r] = payCall[r] /\ InStep(payCall[r])
      BY <2>2, <1>2 DEF LedgerInv
    <3>2. payCall[r].pc \in {"read", "checked"} \cup InTransaction =>
              payCall[r].inst \in Installments
      BY CallHere DEF InTransaction
    <3>3. payCall[r].pc \in InTransaction => payCall[r].inst # i
      BY <2>2, <1>1 DEF LedgerInv, OneWriter
    <3>4. payCall[r].pc \in {"read", "checked"} =>
              /\ insts'[payCall[r].inst].status # "None"
              /\ insts'[payCall[r].inst].amount = payCall[r].row.amount
      BY <3>1, <3>2, <1>1 DEF InStep
    <3>5. payCall[r].pc \in InTransaction => insts'[payCall[r].inst] = insts[payCall[r].inst]
      BY <3>2, <3>3, <1>1
    <3>6. QED
      BY <3>1, <3>4, <3>5 DEF InStep
  <2>3. QED
    BY <2>1, <2>2
<1>7. QED
  BY <1>3, <1>5, <1>6 DEF LedgerInv

LEMMA LedgerStep == Inv /\ LedgerInv /\ [PaymentsNext]_vars => LedgerInv'
<1> SUFFICES ASSUME Inv, LedgerInv, [PaymentsNext]_vars PROVE LedgerInv'
  OBVIOUS
<1>1. CASE UNCHANGED repaymentVars
  BY <1>1 DEF repaymentVars, LedgerInv, OnTheBooks, OneWriter, InStep
<1>2. ASSUME NEW q \in PayCalls, PayStep(q) PROVE LedgerInv'
  BY <1>2, PayCheckLoanLedger, PayWriteLedger, PayCountLedger, PayCommitLedger DEF PayStep
<1>3. ASSUME NEW q \in PayCalls, FailPayCall(q) PROVE LedgerInv'
  BY <1>3, EndKeepsLedger DEF FailPayCall
<1>4. QED
  BY <1>1, <1>2, <1>3, CreateInstallmentLedger, CommitInstallmentLedger, PayReadLedger
     DEF PaymentsNext, vars

LEMMA LedgerInit == Init => LedgerInv
<1>1. NoInst.status = "None" /\ NoInst.paid = 0 /\ IdlePayCall.pc = "idle"
  BY DEF NoInst, IdlePayCall
<1>2. QED
  BY <1>1 DEF Init, LedgerInv, OnTheBooks, OneWriter, InStep, InTransaction

\* While nothing but payments writes to the installments, the books are kept.
THEOREM PaymentsInvariant == PaymentsSpec => [](Inv /\ LedgerInv)
<1>1. QED
  BY InitInv, LedgerInit, PaymentsStepInv, LedgerStep, PTL DEF PaymentsSpec

\* Every accepted payment is on the books, and counted once (the guard of
\* UpdatePaymentGuarded), as long as nothing is cancelled or swept.
THEOREM PaymentsAreKept == PaymentsSpec => []LedgerBalanced
<1>1. LedgerInv => LedgerBalanced
  BY DEF LedgerInv, OnTheBooks, LedgerBalanced
<1>2. QED
  BY <1>1, PaymentsInvariant, PTL

-----------------------------------------------------------------------------
(* The ledger: every step of the payments is a step of it, or none         *)

LEMMA LedgerStarts == Init => Ledger!LedgerInit
<1>1. NoInst.status = "None" /\ NoInst.amount = 0
  BY DEF NoInst
<1>2. QED
  BY <1>1 DEF Init, Ledger!LedgerInit

\* The INSERT of an installment schedules it.
LEMMA CommitSchedules ==
    ASSUME Inv, LedgerInv, NEW q \in PayCalls, CommitInstallment(q)
    PROVE  Ledger!LedgerNext
<1>1. /\ payCall[q].inst \in Installments
      /\ payCall[q].row \in InstRow
      /\ payCall[q].row.status = "Pending" /\ payCall[q].row.amount \in Amounts
  BY CallHere DEF CommitInstallment, GoodCall
<1>2. PICK i \in Installments : i = payCall[q].inst
  BY <1>1
<1>3. PICK row \in InstRow : row = payCall[q].row
  BY <1>1
<1>4. /\ insts[i] = NoInst
      /\ insts' = [insts EXCEPT ![i] = row]
      /\ received' = received
  BY <1>2, <1>3 DEF CommitInstallment, Exists, Inv, GoodRows
<1>5. \A j \in Installments : insts'[j] = IF j = i THEN row ELSE insts[j]
  BY <1>4 DEF Inv, RepaymentTypes
<1>6. insts[i].amount = 0 /\ insts[i].status = "None"
  BY <1>4 DEF NoInst
<1> DEFINE a == row.amount
           owed == [j \in Installments |-> insts[j].amount]
<1>7. [j \in Installments |-> insts'[j].amount] = [owed EXCEPT ![i] = a]
  BY <1>5
<1>8. {j \in Installments : insts'[j].status = "Paid"}
        = {j \in Installments : insts[j].status = "Paid"}
  BY <1>1, <1>3, <1>5, <1>6
<1>9. owed[i] = 0 /\ a \in Amounts
  BY <1>1, <1>3, <1>6
<1>10. Ledger!Schedule(i, a)
  BY <1>4, <1>7, <1>8, <1>9 DEF Ledger!Schedule
<1>11. QED
  BY <1>9, <1>10 DEF Ledger!LedgerNext

\* The COMMIT of a payment takes it.
LEMMA CommitTakes ==
    ASSUME Inv, LedgerInv, NEW q \in PayCalls, PayCommit(q)
    PROVE  Ledger!LedgerNext
<1>1. PICK i \in Installments, row \in InstRow, m \in Payments :
             /\ insts[i].status # "None"
             /\ row.amount = insts[i].amount
             /\ row.paid = insts[i].paid + m
             /\ row.paid <= row.amount
             /\ row.status \in {"Pending", "Paid"}
             /\ row.status = "Paid" <=> row.paid = row.amount
             /\ \A j \in Installments : insts'[j] = IF j = i THEN row ELSE insts[j]
             /\ received' = [received EXCEPT ![i] = @ + m]
  BY PayCommitStores
<1>2. /\ insts[i].paid = received[i]
      /\ insts[i].paid \in Nat /\ insts[i].amount \in Nat /\ m \in Nat \ {0}
      /\ insts[i].status = "Paid" <=> insts[i].paid = insts[i].amount
  BY <1>1, RepaymentsAssumption
     DEF LedgerInv, OnTheBooks, Inv, RepaymentTypes, InstRow, GoodRows, Good
<1> DEFINE owed == [j \in Installments |-> insts[j].amount]
           settled == {j \in Installments : insts[j].status = "Paid"}
<1>3. [j \in Installments |-> insts'[j].amount] = owed
  BY <1>1
<1>4. received[i] + m <= owed[i] /\ owed[i] = row.amount /\ row.paid = received[i] + m
  BY <1>1, <1>2
<1>5. insts[i].status # "Paid"
  BY <1>1, <1>2
<1>6. {j \in Installments : insts'[j].status = "Paid"}
        = IF received[i] + m = owed[i] THEN settled \cup {i} ELSE settled
  <2>1. row.status = "Paid" <=> received[i] + m = owed[i]
    BY <1>1, <1>4
  <2>2. CASE received[i] + m = owed[i]
    BY <2>1, <2>2, <1>1
  <2>3. CASE received[i] + m # owed[i]
    BY <2>1, <2>3, <1>1, <1>5
  <2>4. QED
    BY <2>2, <2>3
<1>7. Ledger!Take(i, m)
  BY <1>1, <1>3, <1>4, <1>6 DEF Ledger!Take
<1>8. QED
  BY <1>7 DEF Ledger!LedgerNext

LEMMA LedgerFollows ==
    Inv /\ LedgerInv /\ [PaymentsNext]_vars => [Ledger!LedgerNext]_(Ledger!ledgerVars)
<1> SUFFICES ASSUME Inv, LedgerInv, [PaymentsNext]_vars
             PROVE  [Ledger!LedgerNext]_(Ledger!ledgerVars)
  OBVIOUS
<1>1. CASE UNCHANGED <<insts, received>>
  BY <1>1 DEF Ledger!ledgerVars
<1>2. ASSUME NEW q \in PayCalls, CommitInstallment(q) \/ PayCommit(q)
      PROVE  Ledger!LedgerNext
  BY <1>2, CommitSchedules, CommitTakes
<1>3. QED
  BY <1>1, <1>2 DEF PaymentsNext, CreateInstallment, PayRead, PayStep, PayCheckLoan, PayWrite,
     PayCount, FailPayCall, vars, repaymentVars

\* Payments that overlap in any way are the payments of the ledger, each taken
\* in one step: never beyond the amount, and settling it exactly once.
THEOREM PaymentsAreLedger == PaymentsSpec => LedgerRefinement
<1>1. QED
  BY PaymentsInvariant, LedgerStarts, LedgerFollows, PTL
     DEF PaymentsSpec, LedgerRefinement, Ledger!LedgerSpec

-----------------------------------------------------------------------------
(* Loans are closed                                                        *)

LEMMA Pairs ==
    /\ \A l \in Loans, n \in Numbers : <<l, n>> \in Installments /\ LoanOf(<<l, n>>) = l
    /\ \A i \in Installments : \E n \in Numbers : i = <<LoanOf(i), n>>
BY DEF Installments, LoanOf

\* An installment that is not the last to be paid.
Outstanding(i) ==
    \E j \in Installments : LoanOf(j) = LoanOf(i) /\ j # i
                            /\ insts[j].status \in {"Pending", "Overdue"}

\* A repayment request moves on; the tables stay.
LEMMA HoldKeepsClosing ==
    ASSUME Inv, ClosingInv, NEW q \in PayCalls, NEW call,
           payCall' = [payCall EXCEPT ![q] = call],
           call.pc \in {"checked"} \cup InTransaction => loans[LoanOf(call.inst)].status \notin Early,
           call.pc = "counted" /\ call.row.status = "Paid" => Outstanding(call.inst),
           UNCHANGED <<insts, loans, loanCall>>
    PROVE  ClosingInv'
<1>1. \A r \in PayCalls : payCall'[r] = IF r = q THEN call ELSE payCall[r]
  BY DEF Inv, RepaymentTypes
<1>2. EarlyIsUnpaid' /\ HeldRowFollows' /\ OpenIsOwing'
  BY DEF ClosingInv, EarlyIsUnpaid, HeldRowFollows, OpenIsOwing, Exists
<1>3. ASSUME NEW r \in PayCalls
      PROVE  /\ payCall'[r].pc \in {"checked"} \cup InTransaction =>
                   loans'[LoanOf(payCall'[r].inst)].status \notin Early
             /\ payCall'[r].pc = "counted" /\ payCall'[r].row.status = "Paid" => HasOutstanding(r)'
  <2>1. CASE r = q
    <3>1. payCall'[r] = call
      BY <2>1, <1>1
    <3>2. QED
      BY <3>1 DEF HasOutstanding, Outstanding
  <2>2. CASE r # q
    <3>1. payCall'[r] = payCall[r]
      BY <2>2, <1>1
    <3>2. QED
      BY <3>1 DEF ClosingInv, PaymentFollows, HasOutstanding
  <2>3. QED
    BY <2>1, <2>2
<1>4. PaymentFollows'
  BY <1>3 DEF PaymentFollows
<1>5. QED
  BY <1>2, <1>4 DEF ClosingInv

\* ... or a request that has not found its loan Active yet, or ends.
LEMMA ReadKeepsClosing ==
    ASSUME Inv, ClosingInv, NEW q \in PayCalls, NEW call,
           payCall' = [payCall EXCEPT ![q] = call],
           call.pc \in {"idle", "creating", "cancelling", "read"},
           UNCHANGED <<insts, loans, loanCall>>
    PROVE  ClosingInv'
BY HoldKeepsClosing DEF InTransaction

LEMMA StartPayKeepsClosing ==
    ASSUME Inv, ClosingInv, NEW q \in PayCalls,
           \/ \E i \in Installments, a \in Amounts, d \in Days : CreateInstallment(q, i, a, d)
           \/ \E i \in Installments, m \in Payments : PayRead(q, i, m)
           \/ \E i \in Installments : CancelInstallment(q, i)
           \/ FailPayCall(q)
    PROVE  ClosingInv'
<1>1. ASSUME NEW i \in Installments, NEW a \in Amounts, NEW d \in Days,
             CreateInstallment(q, i, a, d)
      PROVE  ClosingInv'
  BY <1>1, ReadKeepsClosing DEF CreateInstallment, IdlePayCall, loanVars
<1>2. ASSUME NEW i \in Installments, NEW m \in Payments, PayRead(q, i, m) PROVE ClosingInv'
  BY <1>2, ReadKeepsClosing DEF PayRead, IdlePayCall, loanVars
<1>3. ASSUME NEW i \in Installments, CancelInstallment(q, i) PROVE ClosingInv'
  BY <1>3, ReadKeepsClosing DEF CancelInstallment, IdlePayCall, loanVars
<1>4. CASE FailPayCall(q)
  BY <1>4, ReadKeepsClosing DEF FailPayCall, EndPayCall, IdlePayCall, loanVars
<1>5. QED
  BY <1>1, <1>2, <1>3, <1>4

LEMMA PayCheckLoanClosing ==
    ASSUME Inv, ClosingInv, NEW q \in PayCalls, PayCheckLoan(q)
    PROVE  ClosingInv'
<1> DEFINE call == [payCall[q] EXCEPT !.pc = "checked", !.loan = loans[LoanOf(payCall[q].inst)]]
<1>1. payCall[q] \in PayCall /\ payCall \in [PayCalls -> PayCall]
  BY CallHere DEF Inv, RepaymentTypes
<1>2. /\ payCall' = [payCall EXCEPT ![q] = call]
      /\ loans[LoanOf(payCall[q].inst)].status = "Active"
      /\ UNCHANGED <<insts, loans, loanCall>>
  BY <1>1 DEF PayCheckLoan, loanVars
<1>3. call.pc = "checked" /\ call.inst = payCall[q].inst
  BY <1>1 DEF PayCall
<1> HIDE DEF call
<1>4. QED
  BY <1>2, <1>3, HoldKeepsClosing DEF Early

LEMMA PayWriteClosing ==
    ASSUME Inv, ClosingInv, NEW q \in PayCalls, PayWrite(q)
    PROVE  ClosingInv'
<1> DEFINE call == [payCall[q] EXCEPT !.pc = "written",
                                      !.row = Credit(payCall[q].row, payCall[q].money)]
<1>1. payCall[q] \in PayCall /\ payCall \in [PayCalls -> PayCall]
  BY CallHere DEF Inv, RepaymentTypes
<1>2. /\ payCall' = [payCall EXCEPT ![q] = call]
      /\ payCall[q].pc = "checked"
      /\ UNCHANGED <<insts, loans, loanCall>>
  BY <1>1 DEF PayWrite, loanVars
<1>3. call.pc = "written" /\ call.inst = payCall[q].inst
  BY <1>1 DEF PayCall
<1>4. loans[LoanOf(payCall[q].inst)].status \notin Early
  BY <1>2 DEF ClosingInv, PaymentFollows
<1> HIDE DEF call
<1>5. QED
  BY <1>2, <1>3, <1>4, HoldKeepsClosing

\* The count decides whether the loan is closed.
LEMMA PayCountClosing ==
    ASSUME Inv, ClosingInv, NEW q \in PayCalls, PayCount(q)
    PROVE  ClosingInv'
<1>1. payCall[q] \in PayCall /\ payCall \in [PayCalls -> PayCall] /\ payCall[q].pc = "written"
  BY CallHere DEF Inv, RepaymentTypes, PayCount
<1>2. PICK pc \in {"counted", "closing"} :
          /\ payCall' = [payCall EXCEPT ![q].pc = pc]
          /\ pc = "counted" /\ payCall[q].row.status = "Paid" => HasOutstanding(q)
  BY DEF PayCount
<1> DEFINE call == [payCall[q] EXCEPT !.pc = pc]
<1>3. payCall' = [payCall EXCEPT ![q] = call] /\ UNCHANGED <<insts, loans, loanCall>>
  BY <1>1, <1>2 DEF PayCount, loanVars
<1>4. call.pc = pc /\ call.inst = payCall[q].inst /\ call.row = payCall[q].row
  BY <1>1 DEF PayCall
<1>5. loans[LoanOf(payCall[q].inst)].status \notin Early
  BY <1>1 DEF ClosingInv, PaymentFollows, InTransaction
<1>6. HasOutstanding(q) => Outstanding(call.inst)
  BY <1>4 DEF HasOutstanding, Outstanding
<1> HIDE DEF call
<1>7. QED
  BY <1>2, <1>3, <1>4, <1>5, <1>6, HoldKeepsClosing

\* A row is stored that is not Paid; no transaction is disturbed.
LEMMA StoreKeepsClosing ==
    ASSUME Inv, ClosingInv, NEW i \in Installments, NEW row \in InstRow,
           row.status \notin {"None", "Paid"},
           insts' = [insts EXCEPT ![i] = row],
           PaymentFollows',
           UNCHANGED <<loans, loanCall>>
    PROVE  ClosingInv'
<1>1. \A j \in Installments : insts'[j] = IF j = i THEN row ELSE insts[j]
  BY DEF Inv, RepaymentTypes
<1>2. EarlyIsUnpaid'
  BY <1>1, Pairs DEF ClosingInv, EarlyIsUnpaid
<1>3. HeldRowFollows'
  BY DEF ClosingInv, HeldRowFollows
<1>4. ASSUME NEW l \in Loans, loans[l].status = "Active"
      PROVE  \/ \A n \in Numbers : insts'[<<l, n>>].status = "None"
             \/ \E n \in Numbers : insts'[<<l, n>>].status \notin {"None", "Paid"}
  <2>1. CASE LoanOf(i) = l
    BY <2>1, <1>1, Pairs
  <2>2. CASE LoanOf(i) # l
    <3>1. \A n \in Numbers : insts'[<<l, n>>] = insts[<<l, n>>]
      BY <2>2, <1>1, Pairs
    <3>2. QED
      BY <3>1, <1>4 DEF ClosingInv, OpenIsOwing, Exists
  <2>3. QED
    BY <2>1, <2>2
<1>5. OpenIsOwing'
  BY <1>4 DEF OpenIsOwing, Exists
<1>6. QED
  BY <1>2, <1>3, <1>5 DEF ClosingInv

\* The one request is over, so no payment is under way.
LEMMA OverFollows ==
    ASSUME Inv, OneAtATime, NEW q \in PayCalls, EndPayCall(q)
    PROVE  PaymentFollows'
<1>1. \A r \in PayCalls : payCall'[r] = IdlePayCall
  BY DEF OneAtATime, EndPayCall, Inv, RepaymentTypes
<1>2. IdlePayCall.pc = "idle"
  BY DEF IdlePayCall
<1>3. QED
  BY <1>1, <1>2 DEF PaymentFollows, InTransaction

LEMMA CommitRowClosing ==
    ASSUME Inv, ClosingInv, OneAtATime, NEW q \in PayCalls,
           CommitInstallment(q) \/ CommitCancel(q)
    PROVE  ClosingInv'
<1>1. /\ payCall[q].inst \in Installments /\ payCall[q].row \in InstRow
      /\ payCall[q].row.status \in {"Pending", "Cancelled"}
  BY CallHere DEF CommitInstallment, CommitCancel, GoodCall
<1>2. PICK i \in Installments : i = payCall[q].inst
  BY <1>1
<1>3. PICK row \in InstRow : row = payCall[q].row
  BY <1>1
<1>4. /\ insts' = [insts EXCEPT ![i] = row]
      /\ EndPayCall(q)
      /\ UNCHANGED <<loans, loanCall>>
  BY <1>2, <1>3 DEF CommitInstallment, CommitCancel, loanVars
<1>5. row.status \notin {"None", "Paid"}
  BY <1>1, <1>3
<1>6. QED
  BY <1>4, <1>5, OverFollows, StoreKeepsClosing

\* The job makes outstanding rows of outstanding rows, or of others.
LEMMA SaveOverdueClosing ==
    ASSUME Inv, ClosingInv, SaveOverdue
    PROVE  ClosingInv'
<1>1. PICK i \in Installments :
        /\ sweep[i].status # "None"
        /\ insts' = [insts EXCEPT ![i] = sweep[i]]
        /\ UNCHANGED <<payCall, loans, loanCall>>
  BY DEF SaveOverdue, NextOverdue, loanVars
<1>2. sweep[i] \in InstRow /\ sweep[i].status = "Overdue"
  BY <1>1 DEF Inv, RepaymentTypes, GoodSweep
<1>3. PICK row \in InstRow : row = sweep[i]
  BY <1>2
<1>4. /\ insts' = [insts EXCEPT ![i] = row]
      /\ row.status = "Overdue"
  BY <1>1, <1>2, <1>3
<1>5. \A j \in Installments : insts'[j] = IF j = i THEN row ELSE insts[j]
  BY <1>4 DEF Inv, RepaymentTypes
<1>6. PaymentFollows'
  BY <1>1, <1>4, <1>5 DEF ClosingInv, PaymentFollows, HasOutstanding
<1>7. QED
  BY <1>1, <1>4, <1>6, StoreKeepsClosing

\* The COMMIT of a payment: the last one closes its loan.
LEMMA PayCommitClosing ==
    ASSUME Inv, ClosingInv, OneAtATime, NEW q \in PayCalls, PayCommit(q)
    PROVE  ClosingInv'
<1>1. payCall[q].pc \in {"counted", "closing"} /\ payCall[q].pc \in InTransaction
  BY DEF PayCommit, InTransaction
<1>2. /\ payCall[q].inst \in Installments /\ payCall[q].row \in InstRow
      /\ payCall[q].row.status # "None"
      /\ LoanOf(payCall[q].inst) \in Loans
      /\ payCall[q].loan \in LoanRow
  BY <1>1, CallHere DEF GoodCall, PayCall, InTransaction
<1>3. PICK i \in Installments : i = payCall[q].inst
  BY <1>2
<1>4. PICK row \in InstRow : row = payCall[q].row
  BY <1>2
<1>5. PICK l \in Loans : l = LoanOf(i)
  BY <1>2, <1>3
<1>6. loans[l].status \notin Early
  BY <1>1, <1>3, <1>5 DEF ClosingInv, PaymentFollows
<1>7. /\ \A j \in Installments : insts'[j] = IF j = i THEN row ELSE insts[j]
      /\ row.status # "None"
      /\ EndPayCall(q) /\ loanCall' = loanCall
  BY <1>2, <1>3, <1>4 DEF PayCommit, Inv, RepaymentTypes
<1>8. /\ \A k \in Loans : k # l => loans'[k] = loans[k]
      /\ payCall[q].pc = "closing" => loans'[l].status = "Completed"
      /\ payCall[q].pc = "counted" => loans' = loans
  <2>1. CASE payCall[q].pc = "closing"
    <3> DEFINE closed == [payCall[q].loan EXCEPT !.status = "Completed"]
    <3>1. closed.status = "Completed"
      BY <1>2 DEF LoanRow
    <3>2. loans' = [loans EXCEPT ![l] = closed]
      BY <2>1, <1>3, <1>5 DEF PayCommit
    <3> HIDE DEF closed
    <3>3. QED
      BY <2>1, <3>1, <3>2 DEF Inv, LoansInv, LoansTypeOK
  <2>2. CASE payCall[q].pc = "counted"
    BY <2>2 DEF PayCommit
  <2>3. QED
    BY <2>1, <2>2, <1>1
<1>9. loans'[l].status \notin Early
  BY <1>1, <1>6, <1>8 DEF Early
<1>10. \A k \in Loans, n \in Numbers : k # l => insts'[<<k, n>>] = insts[<<k, n>>]
  BY <1>5, <1>7, Pairs
<1>11. EarlyIsUnpaid'
  BY <1>8, <1>9, <1>10 DEF ClosingInv, EarlyIsUnpaid
<1>12. HeldRowFollows'
  <2>1. ASSUME NEW c \in LoanCalls, loanCall[c].op # "idle", loanCall[c].row.status \in Early \cup {"Active"}
        PROVE  loans'[loanCall[c].loan] = loans[loanCall[c].loan]
    <3>1. loans[loanCall[c].loan].status \in Early
      BY <2>1 DEF ClosingInv, HeldRowFollows, Early
    <3>2. loanCall[c].loan \in Loans /\ loanCall[c].loan # l
      BY <2>1, <3>1, <1>6 DEF Inv, LoansInv, LoansTypeOK
    <3>3. QED
      BY <3>2, <1>8
  <2>2. QED
    BY <2>1, <1>7 DEF ClosingInv, HeldRowFollows
<1>13. ASSUME NEW k \in Loans, loans'[k].status = "Active"
       PROVE  \/ \A n \in Numbers : insts'[<<k, n>>].status = "None"
              \/ \E n \in Numbers : insts'[<<k, n>>].status \notin {"None", "Paid"}
  <2>1. CASE k # l
    BY <2>1, <1>8, <1>10, <1>13 DEF ClosingInv, OpenIsOwing, Exists
  <2>2. CASE k = l /\ row.status # "Paid"
    <3>1. PICK n \in Numbers : i = <<l, n>>
      BY <1>5, Pairs
    <3>2. QED
      BY <2>2, <3>1, <1>7
  <2>3. CASE k = l /\ row.status = "Paid"
    <3>1. payCall[q].pc = "counted"
      BY <2>3, <1>1, <1>8, <1>13
    <3>2. PICK j \in Installments : /\ LoanOf(j) = l /\ j # i
                                    /\ insts[j].status \in {"Pending", "Overdue"}
      BY <2>3, <3>1, <1>3, <1>4, <1>5 DEF ClosingInv, PaymentFollows, HasOutstanding
    <3>3. PICK n \in Numbers : j = <<l, n>>
      BY <3>2, Pairs
    <3>4. insts'[<<l, n>>].status \in {"Pending", "Overdue"}
      BY <3>2, <3>3, <1>7
    <3>5. QED
      BY <2>3, <3>4
  <2>4. QED
    BY <2>1, <2>2, <2>3
<1>14. OpenIsOwing'
  BY <1>13 DEF OpenIsOwing, Exists
<1>15. QED
  BY <1>7, <1>11, <1>12, <1>14, OverFollows DEF ClosingInv

\* A loan request starts or ends; the loans stay.
LEMMA HoldLoanKeepsClosing ==
    ASSUME Inv, ClosingInv, NEW c \in LoanCalls, NEW call,
           loanCall' = [loanCall EXCEPT ![c] = call],
           /\ call.op # "idle" /\ call.row.status \in Early => loans[call.loan].status \in Early
           /\ call.op # "idle" /\ call.row.status = "Active" => loans[call.loan].status = "Approved",
           UNCHANGED <<loans, repaymentVars>>
    PROVE  ClosingInv'
<1>1. \A d \in LoanCalls : loanCall'[d] = IF d = c THEN call ELSE loanCall[d]
  BY DEF Inv, LoansInv, LoansTypeOK
<1>2. HeldRowFollows'
  BY <1>1 DEF ClosingInv, HeldRowFollows
<1>3. EarlyIsUnpaid' /\ PaymentFollows' /\ OpenIsOwing'
  BY DEF ClosingInv, EarlyIsUnpaid, PaymentFollows, OpenIsOwing, HasOutstanding, Exists,
     repaymentVars
<1>4. QED
  BY <1>2, <1>3 DEF ClosingInv

\* The one loan request stores its row and is over.
LEMMA StoreLoanKeepsClosing ==
    ASSUME Inv, ClosingInv, OneAtATime, NEW c \in LoanCalls, loanCall[c].op # "idle",
           loans' = [loans EXCEPT ![loanCall[c].loan] = loanCall[c].row],
           EndCall(c), UNCHANGED repaymentVars
    PROVE  ClosingInv'
<1>1. loanCall[c].loan \in Loans /\ loanCall[c].row \in LoanRow
  BY DEF Inv, LoansInv, LoansTypeOK, LoanCall
<1>2. PICK l \in Loans : l = loanCall[c].loan
  BY <1>1
<1>3. PICK row \in LoanRow : row = loanCall[c].row
  BY <1>1
<1>4. \A k \in Loans : loans'[k] = IF k = l THEN row ELSE loans[k]
  BY <1>2, <1>3 DEF Inv, LoansInv, LoansTypeOK
<1>5. /\ row.status \in Early => loans[l].status \in Early
      /\ row.status = "Active" => loans[l].status = "Approved"
  BY <1>2, <1>3 DEF ClosingInv, HeldRowFollows
<1>6. \A d \in LoanCalls : loanCall'[d].op = "idle"
  BY DEF OneAtATime, EndCall, IdleLoanCall, Inv, LoansInv, LoansTypeOK
<1>7. UNCHANGED <<insts, payCall>>
  BY DEF repaymentVars
<1>8. EarlyIsUnpaid'
  BY <1>4, <1>5, <1>7 DEF ClosingInv, EarlyIsUnpaid
<1>9. HeldRowFollows'
  BY <1>6 DEF HeldRowFollows
<1>10. PaymentFollows'
  <2>1. ASSUME NEW q \in PayCalls, payCall[q].pc \in {"checked"} \cup InTransaction
        PROVE  loans'[LoanOf(payCall[q].inst)].status \notin Early
    <3>1. LoanOf(payCall[q].inst) \in Loans
      BY <2>1, CallHere DEF InTransaction
    <3>2. QED
      BY <2>1, <3>1, <1>4, <1>5 DEF ClosingInv, PaymentFollows
  <2>2. QED
    BY <2>1, <1>7 DEF ClosingInv, PaymentFollows, HasOutstanding
<1>11. ASSUME NEW k \in Loans, loans'[k].status = "Active"
       PROVE  \/ \A n \in Numbers : insts[<<k, n>>].status = "None"
              \/ \E n \in Numbers : insts[<<k, n>>].status \notin {"None", "Paid"}
  <2>1. CASE k = l
    <3>1. \A n \in Numbers : insts[<<l, n>>].status # "Paid"
      BY <2>1, <1>4, <1>5, <1>11 DEF ClosingInv, EarlyIsUnpaid, Early
    <3>2. QED
      BY <2>1, <3>1
  <2>2. CASE k # l
    BY <2>2, <1>4, <1>11 DEF ClosingInv, OpenIsOwing, Exists
  <2>3. QED
    BY <2>1, <2>2
<1>12. OpenIsOwing'
  BY <1>7, <1>11 DEF OpenIsOwing, Exists
<1>13. QED
  BY <1>8, <1>9, <1>10, <1>12 DEF ClosingInv

LEMMA LoansKeepClosing ==
    ASSUME Inv, ClosingInv, OneAtATime, LoansNext, UNCHANGED repaymentVars
    PROVE  ClosingInv'
<1>1. ASSUME NEW c \in LoanCalls, NEW u \in Users, NEW p \in Persons, NEW t \in Terms,
             CreateLoan(c, u, p, t)
      PROVE  ClosingInv'
  <2>1. PICK l \in Loans :
          /\ loans[l].status = "None"
          /\ loanCall' = [loanCall EXCEPT ![c] =
               [op |-> "create", loan |-> l,
                row |-> [NoLoan EXCEPT !.status = "Pending", !.person = p,
                                       !.createdBy = u, !.terms = t]]]
          /\ loans' = loans
    BY <1>1 DEF CreateLoan
  <2>2. QED
    BY <2>1, HoldLoanKeepsClosing DEF NoLoan, Early
<1>2. ASSUME NEW c \in LoanCalls, NEW u \in Users, NEW l \in Loans, NEW s \in LoanStatuses,
             ReviewLoan(c, u, l, s)
      PROVE  ClosingInv'
  <2> DEFINE row == Decided(loans[l], u, s)
             call == [op |-> "save", loan |-> l, row |-> row]
  <2>1. loans[l] \in LoanRow
    BY DEF Inv, LoansInv, LoansTypeOK
  <2>2. row.status = s
    BY <2>1 DEF Decided, LoanRow
  <2> HIDE DEF row
  <2>3. /\ loanCall' = [loanCall EXCEPT ![c] = call]
        /\ loans' = loans
        /\ <<loans[l].status, s>> \in LoanTransitions
    BY <1>2 DEF ReviewLoan, WillSave, row
  <2>4. /\ s \in Early => loans[l].status \in Early
        /\ s = "Active" => loans[l].status = "Approved"
    BY <2>3 DEF LoanTransitions, Early
  <2>5. call.loan = l /\ call.row.status = s
    BY <2>2
  <2> HIDE DEF call
  <2>6. QED
    BY <2>3, <2>4, <2>5, HoldLoanKeepsClosing
<1>3. ASSUME NEW c \in LoanCalls, NEW l \in Loans, NEW t \in Terms, UpdateLoan(c, l, t)
      PROVE  ClosingInv'
  <2> DEFINE call == [op |-> "save", loan |-> l, row |-> [loans[l] EXCEPT !.terms = t]]
  <2>1. loans[l] \in LoanRow
    BY DEF Inv, LoansInv, LoansTypeOK
  <2>2. /\ loanCall' = [loanCall EXCEPT ![c] = call]
        /\ loans' = loans
        /\ loans[l].status = "Pending"
    BY <1>3 DEF UpdateLoan, WillSave
  <2>3. call.loan = l /\ call.row.status = "Pending"
    BY <2>1, <2>2 DEF LoanRow
  <2> HIDE DEF call
  <2>4. QED
    BY <2>2, <2>3, HoldLoanKeepsClosing DEF Early
<1>4. ASSUME NEW c \in LoanCalls, CommitCreateLoan(c) \/ SaveLoan(c) PROVE ClosingInv'
  BY <1>4, StoreLoanKeepsClosing DEF CommitCreateLoan, SaveLoan
<1>5. ASSUME NEW c \in LoanCalls, FailLoanCall(c) PROVE ClosingInv'
  BY <1>5, HoldLoanKeepsClosing DEF FailLoanCall, EndCall, IdleLoanCall
<1>6. CASE UNCHANGED <<loans, loanCall>>
  BY <1>6 DEF ClosingInv, EarlyIsUnpaid, HeldRowFollows, PaymentFollows, OpenIsOwing,
     HasOutstanding, Exists, repaymentVars
<1>7. QED
  BY <1>1, <1>2, <1>3, <1>4, <1>5, <1>6 DEF LoansNext, LoanStep

LEMMA ClosingStep == ASSUME OneAtATime PROVE Inv /\ ClosingInv /\ [Next]_vars => ClosingInv'
<1> SUFFICES ASSUME Inv, ClosingInv, [Next]_vars PROVE ClosingInv'
  OBVIOUS
<1>1. CASE UNCHANGED <<loans, loanCall, insts, payCall>>
  BY <1>1 DEF ClosingInv, EarlyIsUnpaid, HeldRowFollows, PaymentFollows, OpenIsOwing,
     HasOutstanding, Exists
<1>2. ASSUME NEW q \in PayCalls, PayStep(q) PROVE ClosingInv'
  BY <1>2, PayCheckLoanClosing, PayWriteClosing, PayCountClosing, PayCommitClosing DEF PayStep
<1>3. CASE ListOverdue \/ FailSweep \/ Tick \/ UNCHANGED vars
  BY <1>1, <1>3 DEF ListOverdue, FailSweep, Tick, vars, loanVars, repaymentVars
<1>4. QED
  BY <1>2, <1>3, StartPayKeepsClosing, CommitRowClosing, SaveOverdueClosing, LoansKeepClosing
     DEF Next, HandlersNext, PaymentsNext

LEMMA ClosingInit == Init => ClosingInv
<1>1. NoLoan.status = "None" /\ NoInst.status = "None" /\ IdlePayCall.pc = "idle"
      /\ IdleLoanCall.op = "idle"
  BY DEF NoLoan, NoInst, IdlePayCall, IdleLoanCall
<1>2. QED
  BY <1>1, Pairs DEF Init, LoansInit, ClosingInv, EarlyIsUnpaid, HeldRowFollows, PaymentFollows,
     OpenIsOwing, Exists, InTransaction

\* If requests come one at a time, no Active loan has all its installments Paid,
\* at whatever point the hourly job is (Pay's closing of the loan).
THEOREM SettledLoansAreClosed == ASSUME OneAtATime PROVE Spec => []SettledLoanIsClosed
<1>1. ClosingInv => SettledLoanIsClosed
  BY DEF ClosingInv, OpenIsOwing, SettledLoanIsClosed
<1>2. Inv /\ ClosingInv /\ [Next]_vars => ClosingInv'
  BY ClosingStep
<1>3. QED
  BY <1>1, <1>2, ClosingInit, SpecInv, PTL DEF Spec
=============================================================================
