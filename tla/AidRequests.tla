----------------------------- MODULE AidRequests -----------------------------
(***************************************************************************)
(* The decision on an aid request: AidRequestService.CreateAidRequest,     *)
(* UpdateAidRequest, ReviewAidRequest, CancelAidRequest, DeleteAidRequest  *)
(* and their handlers, run by several HTTP requests at once.               *)
(*                                                                         *)
(* Each handler reads the row and writes it later, in the transaction of   *)
(* its audit entry.  AidRequestRepository.Update and UpdateReview are      *)
(* gorm's Save, which writes back every column as it was read, and which   *)
(* inserts the row anew when the UPDATE finds it deleted.                  *)
(*                                                                         *)
(* The columns person_id and reviewed_by_id are left out: Save puts the    *)
(* ids of the preloaded Person and ReviewedBy back, whatever the service   *)
(* has assigned.                                                           *)
(*                                                                         *)
(* The actions are the pages'.  A device's POST /sync/push stores any      *)
(* status and amount (the adapter aid_request of cmd/server, which has no  *)
(* validation) and is left out: what is stated is of requests of the pages.*)
(***************************************************************************)
EXTENDS People, FiniteSets, Naturals

CONSTANTS
    Aids,           \* the row identities uuid.New may hand out
    Amounts,        \* the amounts asked for and approved
    AidCalls        \* the requests the server may be running at once

ASSUME AidAssumption ==
    /\ Amounts \subseteq Nat \ {0}
    /\ Nobody \notin Aids

VARIABLES
    aids,           \* the rows of the table "aid_requests"
    aidCall         \* what each running request has read and will write

aidVars == <<aids, personActive, aidCall>>

-----------------------------------------------------------------------------

AidStatuses == {"Pending", "Under Review", "Approved", "Rejected", "Completed", "Cancelled"}

AidTransitions ==
    {"Pending"} \X {"Under Review", "Cancelled"}
        \cup {"Under Review"} \X {"Approved", "Rejected", "Cancelled"}
        \cup {"Approved"} \X {"Completed", "Cancelled"}

Editable == {"Pending", "Under Review"}

Cancellable == {"Pending", "Under Review", "Approved"}

Deletable == {"Rejected", "Cancelled"}

\* "decider" and "read" are history columns: who approved or rejected the
\* request, and the requested amount the approver had read.
AidRow == [status    : AidStatuses \cup {"None"},
           live      : BOOLEAN,
           createdBy : Users \cup {Nobody},
           requested : Amounts \cup {0},
           approved  : Amounts \cup {0},
           decider   : Users \cup {Nobody},
           read      : Amounts \cup {0}]

NoAid == [status |-> "None", live |-> FALSE, createdBy |-> Nobody, requested |-> 0,
          approved |-> 0, decider |-> Nobody, read |-> 0]

AidCall == [op  : {"idle", "create", "save", "delete"},
            aid : Aids \cup {Nobody},
            row : AidRow]

IdleAidCall == [op |-> "idle", aid |-> Nobody, row |-> NoAid]

\* A row the table accepts.
CompleteAid(row) ==
    /\ row.status \in AidStatuses
    /\ row.createdBy \in Users
    /\ row.requested \in Amounts

\* The table and the requests have their types; a stored row has a creator and
\* an amount; a request that will store a row knows which and where.
AidTypeOK ==
    /\ aids \in [Aids -> AidRow]
    /\ personActive \in SUBSET Persons
    /\ aidCall \in [AidCalls -> AidCall]
    /\ \A r \in Aids : aids[r].status # "None" => CompleteAid(aids[r])
    /\ \A c \in AidCalls :
        /\ aidCall[c].op # "idle" => aidCall[c].aid \in Aids
        /\ aidCall[c].op \in {"create", "save"} => CompleteAid(aidCall[c].row)

AidInit ==
    /\ aids = [r \in Aids |-> NoAid]
    /\ personActive = Persons
    /\ aidCall = [c \in AidCalls |-> IdleAidCall]

-----------------------------------------------------------------------------
(* Up to the write                                                         *)

IdleAid(c) == aidCall[c].op = "idle"

Holds(c, op, r, row) ==
    /\ aidCall' = [aidCall EXCEPT ![c] = [op |-> op, aid |-> r, row |-> row]]
    /\ UNCHANGED <<aids, personActive>>

EndAidCall(c) == aidCall' = [aidCall EXCEPT ![c] = IdleAidCall]

\* User u asks for the amount a on behalf of person p.
CreateAidRequest(c, u, p, a) ==
    /\ IdleAid(c)
    /\ p \in personActive
    /\ \E r \in Aids :
        /\ aids[r].status = "None"
        /\ \A d \in AidCalls : aidCall[d].aid # r
        /\ Holds(c, "create", r,
               [NoAid EXCEPT !.status = "Pending", !.live = TRUE,
                             !.createdBy = u, !.requested = a])

\* Mutant: every request may be edited.
UpdateAnyAid(c, r, p, a) ==
    /\ IdleAid(c)
    /\ aids[r].live
    /\ p \in personActive
    /\ Holds(c, "save", r, [aids[r] EXCEPT !.requested = a])

\* Any user may edit a request that is not decided; the form names an active
\* person.
UpdateAidRequest(c, r, p, a) ==
    /\ IdleAid(c)
    /\ aids[r].live
    /\ aids[r].status \in Editable
    /\ p \in personActive
    /\ Holds(c, "save", r, [aids[r] EXCEPT !.requested = a])

\* The row after user u has set it to status s, with a as the approved amount.
Reviewed(row, u, s, a) ==
    [row EXCEPT !.status = s,
                !.approved = CASE s = "Approved" -> a
                               [] s \in {"Rejected", "Cancelled"} -> 0
                               [] OTHER -> row.approved,
                !.decider = IF s \in {"Approved", "Rejected"} THEN u ELSE row.decider,
                !.read = IF s = "Approved" THEN row.requested ELSE row.read]

\* Mutant: the creator is only kept from approving.
MayReview(u, row, s) == s = "Approved" => row.createdBy # u

\* ErrCannotReviewOwnSubmission.
MayDecide(u, row, s) == s \in {"Approved", "Rejected"} => row.createdBy # u

\* Mutant: the approved amount is not compared with the requested one.
AnyAmount(row, s, a) == TRUE

\* ErrApprovedAmountTooHigh; amounts are positive.
Affordable(row, s, a) == s = "Approved" => a <= row.requested

ReviewAidRequest(c, u, r, s, a) ==
    /\ IdleAid(c)
    /\ u \in Reviewers
    /\ aids[r].live
    /\ <<aids[r].status, s>> \in AidTransitions
    /\ MayDecide(u, aids[r], s)
    /\ Affordable(aids[r], s, a)
    /\ Holds(c, "save", r, Reviewed(aids[r], u, s, a))

\* Super Admins, Admins and Staff may cancel; the approved amount stays.
CancelAidRequest(c, r) ==
    /\ IdleAid(c)
    /\ aids[r].live
    /\ aids[r].status \in Cancellable
    /\ Holds(c, "save", r, [aids[r] EXCEPT !.status = "Cancelled"])

DeleteAidRequest(c, r) ==
    /\ IdleAid(c)
    /\ aids[r].live
    /\ aids[r].status \in Deletable
    /\ Holds(c, "delete", r, aids[r])

-----------------------------------------------------------------------------
(* The write, the audit entry and the commit                               *)

\* INSERT, or Save of the whole row, whatever it is by now: a row deleted
\* meanwhile is live again.
SaveAid(c) ==
    /\ aidCall[c].op \in {"create", "save"}
    /\ aids' = [aids EXCEPT ![aidCall[c].aid] = aidCall[c].row]
    /\ EndAidCall(c)
    /\ UNCHANGED personActive

\* The soft delete, without a condition on the status.  A row that is deleted
\* already is not found, and nothing is written.
SoftDelete(c) ==
    /\ aidCall[c].op = "delete"
    /\ aids' = [aids EXCEPT ![aidCall[c].aid].live = FALSE]
    /\ EndAidCall(c)
    /\ UNCHANGED personActive

\* A statement or the mandatory audit insert fails: nothing is written.
FailAidCall(c) ==
    /\ ~IdleAid(c)
    /\ EndAidCall(c)
    /\ UNCHANGED <<aids, personActive>>

AidStep(c) ==
    \/ \E u \in Users, p \in Persons, a \in Amounts : CreateAidRequest(c, u, p, a)
    \/ \E r \in Aids, p \in Persons, a \in Amounts : UpdateAidRequest(c, r, p, a)
    \/ \E u \in Users, r \in Aids, s \in AidStatuses, a \in Amounts :
        ReviewAidRequest(c, u, r, s, a)
    \/ \E r \in Aids : CancelAidRequest(c, r) \/ DeleteAidRequest(c, r)
    \/ SaveAid(c)
    \/ SoftDelete(c)
    \/ FailAidCall(c)

AidNext ==
    \/ \E c \in AidCalls : AidStep(c)
    \/ \E p \in Persons : SetPersonStatus(p) /\ UNCHANGED <<aids, aidCall>>

AidSpec == AidInit /\ [][AidNext]_aidVars

-----------------------------------------------------------------------------

Granted(row) == row.status \in {"Approved", "Completed"}

\* "approved amount cannot exceed requested amount": a granted request has money
\* within what it asks for now, and one that is open or rejected has none,
\* whatever edits, reviews and cancellations are saved over each other.
MoneyMatchesStatus ==
    \A r \in Aids :
        /\ Granted(aids[r]) => aids[r].approved \in 1..aids[r].requested
        /\ aids[r].status \in {"Pending", "Under Review", "Rejected"} => aids[r].approved = 0

\* "you cannot approve or reject a request you submitted yourself": what was
\* granted or rejected, was so by a reviewer other than its creator, although
\* the creator may review it before and complete it afterwards.
DecidedByAnother ==
    \A r \in Aids : Granted(aids[r]) \/ aids[r].status = "Rejected" =>
        aids[r].decider \in Reviewers \ {aids[r].createdBy}

\* A granted request asks for the amount its approver read: an edit that was
\* under way may undo the approval, but not change what it was given for.
GrantedAsRead ==
    \A r \in Aids : Granted(aids[r]) => aids[r].requested = aids[r].read
=============================================================================
