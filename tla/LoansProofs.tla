----------------------------- MODULE LoansProofs -----------------------------
(***************************************************************************)
(* Theorems about Loans, for any number of loans, persons, users and       *)
(* overlapping requests.                                                   *)
(*                                                                         *)
(* FourEyes and ApprovedTermsWereReviewed speak of the stored rows, but a  *)
(* Save stores whatever row its request holds.  The invariant that is      *)
(* inductive says the same of the rows the requests hold.                  *)
(***************************************************************************)
EXTENDS Loans, TLAPS

\* A row past approval has an approver who is not its creator, and the terms
\* that approver read.
Sound(row) ==
    Approved(row) => /\ row.approvedBy \in Reviewers
                     /\ row.approvedBy # row.createdBy
                     /\ row.terms = row.reviewed

\* Every row is sound: stored, or read and about to be stored.
LoansInv ==
    /\ LoansTypeOK
    /\ \A l \in Loans : Sound(loans[l])
    /\ \A c \in LoanCalls : Sound(loanCall[c].row)

-----------------------------------------------------------------------------

\* Deciding on a stored loan as ReviewLoan does yields a well-typed row.
LEMMA DecidedType ==
    ASSUME NEW row \in LoanRow, NEW u \in Users, NEW s \in LoanStatuses
    PROVE  Decided(row, u, s) \in LoanRow
BY DEF Decided, LoanRow

\* ... and a sound one, if the reviewer is not the creator and the status may
\* follow the present one.
LEMMA DecidedSound ==
    ASSUME NEW row \in LoanRow, NEW u \in Reviewers, NEW s \in LoanStatuses,
           Sound(row), <<row.status, s>> \in LoanTransitions,
           s \in {"Approved", "Rejected"} => row.createdBy # u
    PROVE  Sound(Decided(row, u, s))
<1>1. CASE s = "Approved"
  BY <1>1 DEF Sound, Approved, Decided, LoanRow
<1>2. CASE s # "Approved"
  <2>1. s \in {"Active", "Completed"} => Approved(row)
    BY <1>2 DEF LoanTransitions, Approved
  <2>2. QED
    BY <1>2, <2>1 DEF Sound, Approved, Decided, LoanRow
<1>3. QED
  BY <1>1, <1>2

\* The initial table is empty and no request runs.
LEMMA LoansInitInv == LoansInit => LoansInv
BY DEF LoansInit, LoansInv, LoansTypeOK, LoanRow, LoanCall, IdleLoanCall, NoLoan,
       Sound, Approved, LoanStatuses, OpenStatuses

\* A request that stores the row it holds keeps the invariant.
LEMMA StoreKeepsInv ==
    ASSUME LoansInv, NEW c \in LoanCalls, loanCall[c].op # "idle",
           loans' = [loans EXCEPT ![loanCall[c].loan] = loanCall[c].row],
           EndCall(c), UNCHANGED personActive
    PROVE  LoansInv'
<1>1. /\ loanCall[c].loan \in Loans
      /\ loanCall[c].row \in LoanRow
      /\ Complete(loanCall[c].row)
      /\ Sound(loanCall[c].row)
  BY DEF LoansInv, LoansTypeOK, LoanCall
<1>2. IdleLoanCall \in LoanCall /\ Sound(IdleLoanCall.row) /\ IdleLoanCall.op = "idle"
  BY DEF IdleLoanCall, LoanCall, LoanRow, NoLoan, Sound, Approved
<1>3. loanCall' = [loanCall EXCEPT ![c] = IdleLoanCall]
  BY DEF EndCall
<1>4. LoansTypeOK'
  BY <1>1, <1>2, <1>3 DEF LoansInv, LoansTypeOK
<1>5. \A l \in Loans : Sound(loans'[l])
  BY <1>1 DEF LoansInv, LoansTypeOK
<1>6. \A d \in LoanCalls : Sound(loanCall'[d].row)
  BY <1>2, <1>3 DEF LoansInv, LoansTypeOK
<1>7. QED
  BY <1>4, <1>5, <1>6 DEF LoansInv, Sound, Approved

\* A request that comes to hold a complete and sound row keeps it too.
LEMMA HoldKeepsInv ==
    ASSUME LoansInv, NEW c \in LoanCalls, NEW call \in LoanCall,
           call.op # "idle" => call.loan \in Loans /\ Complete(call.row),
           Sound(call.row),
           loanCall' = [loanCall EXCEPT ![c] = call],
           UNCHANGED <<loans, personActive>>
    PROVE  LoansInv'
<1>1. LoansTypeOK'
  BY DEF LoansInv, LoansTypeOK
<1>2. \A d \in LoanCalls : Sound(loanCall'[d].row)
  BY DEF LoansInv, LoansTypeOK
<1>3. QED
  BY <1>1, <1>2 DEF LoansInv, Sound, Approved

LEMMA LoansStepInv == LoansInv /\ [LoansNext]_loanVars => LoansInv'
<1> SUFFICES ASSUME LoansInv, [LoansNext]_loanVars PROVE LoansInv'
  OBVIOUS
<1> USE DEF LoansInv
<1>1. ASSUME NEW c \in LoanCalls, NEW u \in Users, NEW p \in Persons, NEW t \in Terms,
             CreateLoan(c, u, p, t)
      PROVE  LoansInv'
  <2> DEFINE row == [NoLoan EXCEPT !.status = "Pending", !.person = p,
                                   !.createdBy = u, !.terms = t]
  <2>1. PICK l \in Loans : loanCall' = [loanCall EXCEPT ![c] =
                               [op |-> "create", loan |-> l, row |-> row]]
    BY <1>1 DEF CreateLoan
  <2>2. row \in LoanRow /\ Complete(row) /\ Sound(row)
    BY DEF LoanRow, NoLoan, LoanStatuses, OpenStatuses, Complete, Sound, Approved
  <2>3. UNCHANGED <<loans, personActive>>
    BY <1>1 DEF CreateLoan
  <2> HIDE DEF row
  <2>4. [op |-> "create", loan |-> l, row |-> row] \in LoanCall
    BY <2>2 DEF LoanCall
  <2>5. QED
    BY <2>1, <2>2, <2>3, <2>4, HoldKeepsInv
<1>2. ASSUME NEW c \in LoanCalls, CommitCreateLoan(c) PROVE LoansInv'
  BY <1>2, StoreKeepsInv DEF CommitCreateLoan
<1>3. ASSUME NEW c \in LoanCalls, NEW u \in Users, NEW l \in Loans, NEW s \in LoanStatuses,
             ReviewLoan(c, u, l, s)
      PROVE  LoansInv'
  <2> DEFINE row == Decided(loans[l], u, s)
             call == [op |-> "save", loan |-> l, row |-> row]
  <2>1. loans[l] \in LoanRow /\ Complete(loans[l])
    BY <1>3 DEF LoansTypeOK, ReviewLoan
  <2>2. row \in LoanRow
    BY <2>1, DecidedType
  <2>3. Sound(row)
    BY <1>3, <2>1, DecidedSound DEF ReviewLoan
  <2>4. Complete(row)
    BY <2>1 DEF Decided, LoanRow, Complete
  <2>5. /\ loanCall' = [loanCall EXCEPT ![c] = call]
        /\ UNCHANGED <<loans, personActive>>
    BY <1>3 DEF ReviewLoan, WillSave
  <2> HIDE DEF row
  <2>6. call \in LoanCall
    BY <2>2 DEF LoanCall
  <2>7. QED
    BY <2>3, <2>4, <2>5, <2>6, HoldKeepsInv
<1>4. ASSUME NEW c \in LoanCalls, NEW l \in Loans, NEW t \in Terms, UpdateLoan(c, l, t)
      PROVE  LoansInv'
  <2> DEFINE row == [loans[l] EXCEPT !.terms = t]
             call == [op |-> "save", loan |-> l, row |-> row]
  <2>1. loans[l] \in LoanRow /\ Complete(loans[l]) /\ loans[l].status = "Pending"
    BY <1>4 DEF LoansTypeOK, UpdateLoan
  <2>2. row \in LoanRow /\ Complete(row) /\ Sound(row)
    BY <2>1 DEF LoanRow, Complete, Sound, Approved
  <2>3. /\ loanCall' = [loanCall EXCEPT ![c] = call]
        /\ UNCHANGED <<loans, personActive>>
    BY <1>4 DEF UpdateLoan, WillSave
  <2> HIDE DEF row
  <2>4. call \in LoanCall
    BY <2>2 DEF LoanCall
  <2>5. QED
    BY <2>2, <2>3, <2>4, HoldKeepsInv
<1>5. ASSUME NEW c \in LoanCalls, SaveLoan(c) PROVE LoansInv'
  BY <1>5, StoreKeepsInv DEF SaveLoan
<1>6. ASSUME NEW c \in LoanCalls, FailLoanCall(c) PROVE LoansInv'
  <2>1. IdleLoanCall \in LoanCall /\ Sound(IdleLoanCall.row) /\ IdleLoanCall.op = "idle"
    BY DEF IdleLoanCall, LoanCall, LoanRow, NoLoan, Sound, Approved
  <2>2. QED
    BY <1>6, <2>1, HoldKeepsInv DEF FailLoanCall, EndCall
<1>7. ASSUME NEW p \in Persons, SetPersonStatus(p), UNCHANGED <<loans, loanCall>> PROVE LoansInv'
  BY <1>7 DEF SetPersonStatus, LoansTypeOK, Sound, Approved, Complete
<1>8. CASE UNCHANGED loanVars
  BY <1>8 DEF loanVars, LoansTypeOK, Sound, Approved, Complete
<1>9. QED
  BY <1>1, <1>2, <1>3, <1>4, <1>5, <1>6, <1>7, <1>8 DEF LoansNext, LoanStep

\* Type correctness of the loan workflow, whatever requests overlap.
THEOREM LoansTypeCorrect == LoansSpec => []LoansTypeOK
<1>1. LoansInv => LoansTypeOK
  BY DEF LoansInv
<1>2. QED
  BY <1>1, LoansInitInv, LoansStepInv, PTL DEF LoansSpec

\* No loan passes approval on its creator's word alone, whatever overlaps.
THEOREM FourEyesHolds == LoansSpec => []FourEyes
<1>1. LoansInv => FourEyes
  BY DEF LoansInv, FourEyes, Sound
<1>2. QED
  BY <1>1, LoansInitInv, LoansStepInv, PTL DEF LoansSpec

\* No loan passes approval with terms its approver did not read.
THEOREM ApprovedTermsHold == LoansSpec => []ApprovedTermsWereReviewed
<1>1. LoansInv => ApprovedTermsWereReviewed
  BY DEF LoansInv, ApprovedTermsWereReviewed, Sound
<1>2. QED
  BY <1>1, LoansInitInv, LoansStepInv, PTL DEF LoansSpec
=============================================================================
