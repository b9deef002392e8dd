-------------------------------- MODULE Loans --------------------------------
(***************************************************************************)
(* The loan workflow: LoanService.CreateLoan, ReviewLoan and UpdateLoan on *)
(* top of LoanRepository, as several HTTP requests run them at once.       *)
(*                                                                         *)
(* Every operation reads its row first and writes it later, and            *)
(* LoanRepository.Update is gorm's Save: it writes back EVERY column of    *)
(* the row as it was read.  A request is therefore two steps, the second   *)
(* of which writes the row the first one computed, however old it is.      *)
(*                                                                         *)
(* The push adapters of loans and repayments, which store rows as a device *)
(* has them, and have no validation, are left out.                         *)
(***************************************************************************)
EXTENDS People, FiniteSets, Naturals

CONSTANTS
    Loans,          \* the row identities uuid.New may hand out
    Terms,          \* the amount/rate/duration combinations the range checks accept
    LoanCalls       \* the loan requests the server may be running at once

ASSUME LoansAssumption == Nobody \notin Loans \cup Terms

VARIABLES
    loans,          \* the committed rows of the table "loans"
    loanCall        \* what each running loan request has read and will write

loanVars == <<loans, personActive, loanCall>>

-----------------------------------------------------------------------------

OpenStatuses == {"Pending", "Approved", "Active"}

LoanStatuses == OpenStatuses \cup {"Rejected", "Completed", "Cancelled"}

\* "reviewed" is a history column: the terms the approving reviewer read.
LoanRow == [status      : LoanStatuses \cup {"None"},
            person      : Persons \cup {Nobody},
            createdBy   : Users \cup {Nobody},
            approvedBy  : Users \cup {Nobody},
            terms       : Terms \cup {Nobody},
            reviewed    : Terms \cup {Nobody}]

NoLoan == [status |-> "None", person |-> Nobody, createdBy |-> Nobody,
           approvedBy |-> Nobody, terms |-> Nobody, reviewed |-> Nobody]

LoanCall == [op : {"idle", "create", "save"}, loan : Loans \cup {Nobody}, row : LoanRow]

IdleLoanCall == [op |-> "idle", loan |-> Nobody, row |-> NoLoan]

LoanTransitions ==
    {<<"Pending", "Approved">>, <<"Pending", "Rejected">>, <<"Pending", "Cancelled">>,
     <<"Approved", "Active">>, <<"Approved", "Cancelled">>,
     <<"Active", "Completed">>, <<"Active", "Cancelled">>}

\* A row the table accepts: the NOT NULL columns are there.
Complete(row) ==
    /\ row.status \in LoanStatuses
    /\ row.person \in Persons
    /\ row.createdBy \in Users
    /\ row.terms \in Terms

\* CountActiveByPersonID > 0.
HasOpenLoan(p) ==
    \E l \in Loans : loans[l].person = p /\ loans[l].status \in OpenStatuses

\* The table and the requests have their types; a stored loan names its person,
\* its creator and its terms; a running request knows the loan it will write.
LoansTypeOK ==
    /\ loans \in [Loans -> LoanRow]
    /\ personActive \in SUBSET Persons
    /\ loanCall \in [LoanCalls -> LoanCall]
    /\ \A l \in Loans : loans[l].status # "None" => Complete(loans[l])
    /\ \A c \in LoanCalls : loanCall[c].op # "idle" =>
          loanCall[c].loan \in Loans /\ Complete(loanCall[c].row)

LoansInit ==
    /\ loans = [l \in Loans |-> NoLoan]
    /\ personActive = Persons
    /\ loanCall = [c \in LoanCalls |-> IdleLoanCall]

-----------------------------------------------------------------------------

Idle(c) == loanCall[c].op = "idle"

EndCall(c) == loanCall' = [loanCall EXCEPT ![c] = IdleLoanCall]

\* A request has read loan l and will write row r over it.
WillSave(c, l, r) ==
    loanCall' = [loanCall EXCEPT ![c] = [op |-> "save", loan |-> l, row |-> r]]

\* CreateLoan up to its INSERT: the person is Active and has no open loan.
CreateLoan(c, u, p, t) ==
    /\ Idle(c)
    /\ p \in personActive
    /\ ~HasOpenLoan(p)
    /\ \E l \in Loans :
        /\ loans[l].status = "None"
        /\ \A d \in LoanCalls : loanCall[d].loan # l
        /\ loanCall' = [loanCall EXCEPT ![c] =
               [op |-> "create", loan |-> l,
                row |-> [NoLoan EXCEPT !.status = "Pending", !.person = p,
                                       !.createdBy = u, !.terms = t]]]
    /\ UNCHANGED <<loans, personActive>>

\* The INSERT, its audit row and the COMMIT of the handler's transaction.
CommitCreateLoan(c) ==
    /\ loanCall[c].op = "create"
    /\ loans' = [loans EXCEPT ![loanCall[c].loan] = loanCall[c].row]
    /\ EndCall(c)
    /\ UNCHANGED personActive

\* The row after reviewer u has set its status to s.
Decided(row, u, s) ==
    [row EXCEPT !.status = s,
                !.approvedBy = IF s = "Approved" THEN u ELSE @,
                !.reviewed = IF s = "Approved" THEN row.terms ELSE @]

\* Mutant: a reviewer may decide on a loan of their own.
ReviewOwnLoan(c, u, l, s) ==
    /\ Idle(c)
    /\ u \in Reviewers
    /\ loans[l].status # "None"
    /\ <<loans[l].status, s>> \in LoanTransitions
    /\ WillSave(c, l, Decided(loans[l], u, s))
    /\ UNCHANGED <<loans, personActive>>

\* ReviewLoan up to its Save: reviewer u moves loan l to status s.
ReviewLoan(c, u, l, s) ==
    /\ Idle(c)
    /\ u \in Reviewers
    /\ loans[l].status # "None"
    /\ <<loans[l].status, s>> \in LoanTransitions
    /\ s \in {"Approved", "Rejected"} => loans[l].createdBy # u
    /\ WillSave(c, l, Decided(loans[l], u, s))
    /\ UNCHANGED <<loans, personActive>>

\* Mutant: any loan may be edited.
UpdateAnyLoan(c, l, t) ==
    /\ Idle(c)
    /\ loans[l].status # "None"
    /\ WillSave(c, l, [loans[l] EXCEPT !.terms = t])
    /\ UNCHANGED <<loans, personActive>>

\* UpdateLoan up to its Save: the terms of a Pending loan are edited.
UpdateLoan(c, l, t) ==
    /\ Idle(c)
    /\ loans[l].status = "Pending"
    /\ WillSave(c, l, [loans[l] EXCEPT !.terms = t])
    /\ UNCHANGED <<loans, personActive>>

\* LoanRepository.Update: the whole row goes back, whatever it is by now.
SaveLoan(c) ==
    /\ loanCall[c].op = "save"
    /\ loans' = [loans EXCEPT ![loanCall[c].loan] = loanCall[c].row]
    /\ EndCall(c)
    /\ UNCHANGED personActive

\* The database or the mandatory audit insert fails: nothing is written.
FailLoanCall(c) ==
    /\ ~Idle(c)
    /\ EndCall(c)
    /\ UNCHANGED <<loans, personActive>>

LoanStep(c) ==
    \/ \E u \in Users, p \in Persons, t \in Terms : CreateLoan(c, u, p, t)
    \/ CommitCreateLoan(c)
    \/ \E u \in Users, l \in Loans, s \in LoanStatuses : ReviewLoan(c, u, l, s)
    \/ \E l \in Loans, t \in Terms : UpdateLoan(c, l, t)
    \/ SaveLoan(c)
    \/ FailLoanCall(c)

LoansNext ==
    \/ \E c \in LoanCalls : LoanStep(c)
    \/ \E p \in Persons : SetPersonStatus(p) /\ UNCHANGED <<loans, loanCall>>

LoansSpec == LoansInit /\ [][LoansNext]_loanVars

-----------------------------------------------------------------------------
(* What stays true however the requests overlap.                           *)

\* The statuses a loan reaches only through an approval.
Approved(row) == row.status \in {"Approved", "Active", "Completed"}

\* Four eyes (ReviewLoan's ErrCannotReviewOwnSubmission): no sequence of
\* overlapping reviews, edits and stale saves takes a loan past approval unless
\* a reviewer other than its creator approved it.
FourEyes ==
    \A l \in Loans : Approved(loans[l]) =>
        /\ loans[l].approvedBy \in Reviewers
        /\ loans[l].approvedBy # loans[l].createdBy

\* A loan past approval carries exactly the terms its approver read: an
\* UpdateLoan that overlaps the approval can undo it, but never slips other
\* terms under it.  This is what writing whole rows buys: a Save of the edited
\* columns alone would break it.
ApprovedTermsWereReviewed ==
    \A l \in Loans : Approved(loans[l]) => loans[l].terms = loans[l].reviewed

=============================================================================
