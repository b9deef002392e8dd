------------------------------ MODULE UserAdmin ------------------------------
(***************************************************************************)
(* The administration of user accounts: UserService on top of              *)
(* UserRepository, and the supervised deletion of Admin accounts           *)
(* (user_admin_deletion.go).                                               *)
(*                                                                         *)
(* No operation runs in a transaction.  A request reads the accounts,      *)
(* checks its rules on what it read and writes later, one statement after  *)
(* the other; UserRepository.Update is gorm's Save, which writes back      *)
(* every column as it was read and brings a deleted row back.  The one     *)
(* rule the database enforces is the trigger of migration 000008.          *)
(***************************************************************************)
EXTENDS FiniteSets, Naturals

CONSTANTS
    Users,          \* the account identities uuid.New may hand out
    SeedUser,       \* the account SeedSuperAdmin creates and repairs at start-up
    Requests,       \* the identities of Admin deletion requests
    Orgs,           \* the rows of "organizations"
    UserCalls,      \* the requests the server may be running at once
    AskedRoles,     \* the roles requests ask for
    AskedStatuses,  \* the statuses requests ask for
    Faults,         \* statements may fail and the server may restart
    Nobody          \* an absent user, request, organization or call

Roles == {"SuperAdmin", "Admin", "Manager", "Staff"}

Statuses == {"Active", "Disabled", "Locked"}

ASSUME UsersAssumption ==
    /\ SeedUser \in Users
    /\ AskedRoles \subseteq Roles
    /\ AskedStatuses \subseteq Statuses
    /\ Faults \in BOOLEAN
    /\ Nobody \notin Users \cup Requests \cup Orgs \cup UserCalls

VARIABLES
    users,          \* the committed rows of "users"
    requests,       \* the committed rows of "admin_deletion_requests"
    slotLock,       \* the statement that holds an organization's advisory lock
    userCall        \* what each running request will write next

userVars == <<users, requests, slotLock, userCall>>

-----------------------------------------------------------------------------

\* "removers" and "bySuper" are history columns: whose requests deleted the
\* account, and whether one of them came from a Super Admin.
UserRow == [role    : Roles \cup {"None"},
            status  : Statuses,
            deleted : BOOLEAN,
            org     : Orgs \cup {Nobody},
            removers : SUBSET Users,
            bySuper  : BOOLEAN]

NoUser == [role |-> "None", status |-> "Active", deleted |-> FALSE,
           org |-> Nobody, removers |-> {}, bySuper |-> FALSE]

Request == [status  : {"None", "Pending", "Approved", "Rejected"},
            target  : Users \cup {Nobody},
            by      : Users \cup {Nobody},
            decider : Users \cup {Nobody}]

NoRequest == [status |-> "None", target |-> Nobody, by |-> Nobody, decider |-> Nobody]

\* "locked": the trigger has let the row pass and its transaction commits next.
CallOps == {"idle", "insert", "save", "status", "assign", "locked",
            "request", "approve", "reject", "delete"}

UserCall == [op      : CallOps,
             user    : Users \cup {Nobody},
             row     : UserRow,
             request : Requests \cup {Nobody},
             by      : SUBSET Users,
             bySuper : BOOLEAN]

IdleCall == [op |-> "idle", user |-> Nobody, row |-> NoUser,
             request |-> Nobody, by |-> {}, bySuper |-> FALSE]

\* FindByID finds it: there is a row and it is not soft-deleted.
Live(u) == users[u].role # "None" /\ ~users[u].deleted

\* ValidateSession lets it through: only Active accounts keep their sessions.
CanAct(u) == Live(u) /\ users[u].status = "Active"

\* CountActiveByRoleNames with user u excluded: is the count above zero?
OtherActive(roles, u) ==
    \E v \in Users \ {u} : CanAct(v) /\ users[v].role \in roles

\* Every account and every request has its type; a decided request names two
\* users and its decider; a lock is held by a request that is writing under it.
UsersTypeOK ==
    /\ users \in [Users -> UserRow]
    /\ requests \in [Requests -> Request]
    /\ slotLock \in [Orgs -> UserCalls \cup {Nobody}]
    /\ userCall \in [UserCalls -> UserCall]
    /\ \A r \in Requests :
         /\ requests[r].status # "None" =>
              requests[r].target \in Users /\ requests[r].by \in Users
         /\ requests[r].status \in {"Approved", "Rejected"} <=> requests[r].decider # Nobody
    /\ \A c \in UserCalls :
         /\ userCall[c].op # "idle" => userCall[c].user \in Users
         /\ userCall[c].op \in {"request", "approve", "reject"} => userCall[c].request \in Requests

UsersInit ==
    /\ users = [u \in Users |->
           IF u = SeedUser THEN [NoUser EXCEPT !.role = "SuperAdmin"] ELSE NoUser]
    /\ requests = [r \in Requests |-> NoRequest]
    /\ slotLock = [o \in Orgs |-> Nobody]
    /\ userCall = [c \in UserCalls |-> IdleCall]

-----------------------------------------------------------------------------
(* What a request reads and checks before it writes.                       *)

Idle(c) == userCall[c].op = "idle"

\* Request c has passed its checks and will do what "call" says.
Goes(c, call) ==
    /\ userCall' = [userCall EXCEPT ![c] = call]
    /\ UNCHANGED <<users, requests, slotLock>>

Ends(c) == userCall' = [userCall EXCEPT ![c] = IdleCall]

\* ensureManagerSlotAvailable.
ManagerSlotFree(role, status, u) ==
    role = "Manager" /\ status = "Active" => ~OtherActive({"Manager"}, u)

\* The last-active guards of UpdateUser, UpdateUserStatus and DeleteUser: may
\* user u go on with this role and status?
LastActiveGuards(u, role, status) ==
    /\ users[u].role = "SuperAdmin" /\ (role # "SuperAdmin" \/ status # "Active")
         => OtherActive({"SuperAdmin"}, u)
    /\ users[u].role = "Admin" /\ (role \notin {"Admin", "SuperAdmin"} \/ status # "Active")
         => OtherActive({"Admin", "SuperAdmin"}, u)

\* The routes admit Admins and Super Admins; what concerns a Super Admin
\* account or grants that role takes a Super Admin.
MayAdminister(a, role) ==
    /\ CanAct(a)
    /\ users[a].role \in {"Admin", "SuperAdmin"}
    /\ role = "SuperAdmin" => users[a].role = "SuperAdmin"

CreateUser(c, a, u, role) ==
    /\ Idle(c)
    /\ MayAdminister(a, role)
    /\ users[u].role = "None"
    /\ \A d \in UserCalls : userCall[d].user # u
    /\ ManagerSlotFree(role, "Active", u)
    /\ Goes(c, [IdleCall EXCEPT !.op = "insert", !.user = u,
                                !.row = [NoUser EXCEPT !.role = role]])

UpdateUser(c, a, u, role, status) ==
    /\ Idle(c)
    /\ Live(u)
    /\ MayAdminister(a, users[u].role)
    /\ MayAdminister(a, role)
    /\ ManagerSlotFree(role, status, u)
    /\ LastActiveGuards(u, role, status)
    /\ Goes(c, [IdleCall EXCEPT !.op = "save", !.user = u,
                    !.row = [users[u] EXCEPT !.role = role, !.status = status]])

\* The user's own profile: no column of interest changes, but all are saved.
UpdateOwnProfile(c, u) ==
    /\ Idle(c)
    /\ CanAct(u)
    /\ Goes(c, [IdleCall EXCEPT !.op = "save", !.user = u, !.row = users[u]])

UpdateUserStatus(c, a, u, status) ==
    /\ Idle(c)
    /\ Live(u)
    /\ MayAdminister(a, users[u].role)
    /\ LastActiveGuards(u, users[u].role, status)
    /\ ManagerSlotFree(users[u].role, status, u)
    /\ Goes(c, [IdleCall EXCEPT !.op = "status", !.user = u, !.row.status = status])

\* The DELETE route admits Super Admins alone.
DeleteUser(c, a, u) ==
    /\ Idle(c)
    /\ CanAct(a)
    /\ users[a].role = "SuperAdmin"
    /\ u # a
    /\ Live(u)
    /\ LastActiveGuards(u, "None", "Disabled")
    /\ Goes(c, [IdleCall EXCEPT !.op = "delete", !.user = u, !.by = {a}, !.bySuper = TRUE])

\* An operator assigns an account to an organization with a statement of
\* their own: no code of the application writes organization_id.
AssignOrganization(c, u, o) ==
    /\ Idle(c)
    /\ Live(u)
    /\ Goes(c, [IdleCall EXCEPT !.op = "assign", !.user = u, !.row.org = o])

-----------------------------------------------------------------------------
(* The deletion of an Admin account takes a request and a decision.        *)

Pending(r) == requests[r].status = "Pending"

MayDecide(a) == CanAct(a) /\ users[a].role \in {"Admin", "SuperAdmin"}

RequestAdminDeletion(c, a, u, r) ==
    /\ Idle(c)
    /\ MayDecide(a)
    /\ a # u
    /\ Live(u)
    /\ users[u].role = "Admin"
    /\ \A q \in Requests : ~(Pending(q) /\ requests[q].target = u)
    /\ requests[r].status = "None"
    /\ \A d \in UserCalls : userCall[d].request # r
    /\ Goes(c, [IdleCall EXCEPT !.op = "request", !.user = u, !.request = r, !.by = {a}])

\* Mutant: the requester may approve.
ApproveOwnRequest(c, a, r) ==
    /\ Idle(c)
    /\ MayDecide(a)
    /\ Pending(r)
    /\ requests[r].target # a
    /\ LET u == requests[r].target IN
        /\ Live(u)
        /\ users[u].role = "Admin"
        /\ OtherActive({"Admin"}, u)
        /\ Goes(c, [IdleCall EXCEPT !.op = "approve", !.user = u, !.request = r, !.by = {a},
                                    !.bySuper = users[a].role = "SuperAdmin"])

\* ApproveAdminDeletion up to MarkApproved: another authorized user decides,
\* the target is still an Admin and not the last active one.
ApproveAdminDeletion(c, a, r) ==
    /\ Idle(c)
    /\ MayDecide(a)
    /\ Pending(r)
    /\ requests[r].by # a
    /\ requests[r].target # a
    /\ LET u == requests[r].target IN
        /\ Live(u)
        /\ users[u].role = "Admin"
        /\ OtherActive({"Admin"}, u)
        /\ Goes(c, [IdleCall EXCEPT !.op = "approve", !.user = u, !.request = r, !.by = {a},
                                    !.bySuper = users[a].role = "SuperAdmin"])

RejectAdminDeletion(c, a, r) ==
    /\ Idle(c)
    /\ MayDecide(a)
    /\ Pending(r)
    /\ requests[r].by # a
    /\ requests[r].target # a
    /\ Goes(c, [IdleCall EXCEPT !.op = "reject", !.user = requests[r].target,
                                !.request = r, !.by = {a}])

CreatePending(c) ==
    /\ userCall[c].op = "request"
    /\ \E a \in userCall[c].by :
        requests' = [requests EXCEPT ![userCall[c].request] =
            [status |-> "Pending", target |-> userCall[c].user, by |-> a, decider |-> Nobody]]
    /\ Ends(c)
    /\ UNCHANGED <<users, slotLock>>

\* Mutant: the UPDATE is not restricted to Pending requests.
Undecided(r) == requests[r].status # "None"

\* The WHERE clause of MarkApproved and MarkRejected.
StillPending(r) == requests[r].status = "Pending"

\* The columns both statements write.
Decide(r, status, a) ==
    requests' = [requests EXCEPT ![r].status = status, ![r].decider = a]

\* MarkApproved; the account is deleted by a later statement.
MarkApproved(c) ==
    /\ userCall[c].op = "approve"
    /\ StillPending(userCall[c].request)
    /\ \E a \in userCall[c].by : Decide(userCall[c].request, "Approved", a)
    /\ userCall' = [userCall EXCEPT ![c].op = "delete",
                        ![c].by = @ \cup {requests[userCall[c].request].by}]
    /\ UNCHANGED <<users, slotLock>>

MarkRejected(c) ==
    /\ userCall[c].op = "reject"
    /\ StillPending(userCall[c].request)
    /\ \E a \in userCall[c].by : Decide(userCall[c].request, "Rejected", a)
    /\ Ends(c)
    /\ UNCHANGED <<users, slotLock>>

\* No row was updated: ErrAdminDeletionRequestNotFound.
DecidedMeanwhile(c) ==
    /\ userCall[c].op \in {"approve", "reject"}
    /\ ~StillPending(userCall[c].request)
    /\ Ends(c)
    /\ UNCHANGED <<users, requests, slotLock>>

-----------------------------------------------------------------------------
(* The statements that write accounts.                                     *)

Writing(c) == userCall[c].op \in {"insert", "save", "status", "assign"}

\* The row a statement is about to write.  Save knows no organization_id and
\* clears deleted_at; UpdateStatus writes the status and clears deleted_at.
NewRow(c) ==
    LET call == userCall[c]
        now  == users[call.user]
    IN  CASE call.op = "insert" -> call.row
          [] call.op = "save"   -> [call.row EXCEPT !.org = now.org]
          [] call.op = "status" -> [now EXCEPT !.status = call.row.status, !.deleted = FALSE,
                                               !.removers = {}, !.bySuper = FALSE]
          [] OTHER              -> [now EXCEPT !.org = call.row.org]

\* The rows the trigger looks at.
HoldsSlot(row) ==
    /\ row.org # Nobody
    /\ row.role = "Manager"
    /\ row.status = "Active"
    /\ ~row.deleted

\* No other transaction has updated this row and not committed yet.
RowFree(c, u) ==
    \A d \in UserCalls \ {c} : ~(userCall[d].op = "locked" /\ userCall[d].user = u)

\* A row the trigger does not look at is written at once.
WriteUser(c) ==
    /\ Writing(c)
    /\ RowFree(c, userCall[c].user)
    /\ ~HoldsSlot(NewRow(c))
    /\ users' = [users EXCEPT ![userCall[c].user] = NewRow(c)]
    /\ Ends(c)
    /\ UNCHANGED <<requests, slotLock>>

\* Mutant: the trigger takes no lock.
SlotUnlocked(o) == TRUE

\* pg_advisory_xact_lock(organization) does not wait.
SlotUnclaimed(o) == slotLock[o] = Nobody

\* The trigger: take the organization's lock, count after that, and let the row
\* pass only if nobody else is its active Manager.
EnforceOneActiveManager(c) ==
    /\ Writing(c)
    /\ RowFree(c, userCall[c].user)
    /\ HoldsSlot(NewRow(c))
    /\ LET o == NewRow(c).org IN
        /\ SlotUnclaimed(o)
        /\ IF \E v \in Users \ {userCall[c].user} : HoldsSlot(users[v]) /\ users[v].org = o
           THEN Ends(c) /\ UNCHANGED slotLock
           ELSE /\ slotLock' = [slotLock EXCEPT ![o] = c]
                /\ userCall' = [userCall EXCEPT ![c].op = "locked", ![c].row = NewRow(c)]
    /\ UNCHANGED <<users, requests>>

Unlocked(c) == [o \in Orgs |-> IF slotLock[o] = c THEN Nobody ELSE slotLock[o]]

\* The end of that statement's transaction.
CommitLocked(c) ==
    /\ userCall[c].op = "locked"
    /\ users' = [users EXCEPT ![userCall[c].user] = userCall[c].row]
    /\ slotLock' = Unlocked(c)
    /\ Ends(c)
    /\ UNCHANGED requests

\* RevokeAllByUserID, which writes "sessions" only, and SoftDelete.
SoftDelete(c) ==
    /\ userCall[c].op = "delete"
    /\ LET u == userCall[c].user IN
        /\ RowFree(c, u)
        /\ users' = IF users[u].deleted THEN users
                    ELSE [users EXCEPT ![u].deleted = TRUE, ![u].removers = userCall[c].by,
                                       ![u].bySuper = userCall[c].bySuper]
    /\ Ends(c)
    /\ UNCHANGED <<requests, slotLock>>

\* A statement fails: what the request has written so far stays.
FailUserCall(c) ==
    /\ Faults
    /\ ~Idle(c)
    /\ slotLock' = Unlocked(c)
    /\ Ends(c)
    /\ UNCHANGED <<users, requests>>

\* The server restarts.  SeedSuperAdmin reactivates the configured account if
\* it is a Super Admin; with that account deleted it inserts the same e-mail
\* again, the unique index refuses and the server does not start.
Restart ==
    /\ Faults
    /\ Live(SeedUser)
    /\ users' = IF users[SeedUser].role = "SuperAdmin"
                THEN [users EXCEPT ![SeedUser].status = "Active"]
                ELSE users
    /\ slotLock' = [o \in Orgs |-> Nobody]
    /\ userCall' = [c \in UserCalls |-> IdleCall]
    /\ UNCHANGED requests

UserStep(c) ==
    \/ \E a, u \in Users, role \in AskedRoles :
          \/ CreateUser(c, a, u, role)
          \/ \E status \in AskedStatuses : UpdateUser(c, a, u, role, status)
    \/ \E u \in Users : UpdateOwnProfile(c, u)
    \/ \E a, u \in Users, status \in AskedStatuses : UpdateUserStatus(c, a, u, status)
    \/ \E a, u \in Users : DeleteUser(c, a, u)
    \/ \E u \in Users, o \in Orgs : AssignOrganization(c, u, o)
    \/ \E a, u \in Users, r \in Requests : RequestAdminDeletion(c, a, u, r)
    \/ \E a \in Users, r \in Requests : ApproveAdminDeletion(c, a, r)
    \/ \E a \in Users, r \in Requests : RejectAdminDeletion(c, a, r)
    \/ CreatePending(c)
    \/ MarkApproved(c)
    \/ MarkRejected(c)
    \/ DecidedMeanwhile(c)
    \/ WriteUser(c)
    \/ EnforceOneActiveManager(c)
    \/ CommitLocked(c)
    \/ SoftDelete(c)
    \/ FailUserCall(c)

UsersNext ==
    \/ \E c \in UserCalls : UserStep(c)
    \/ Restart

UsersSpec == UsersInit /\ [][UsersNext]_userVars

-----------------------------------------------------------------------------
(* What stays true however the requests overlap.                           *)

\* The supervised deletion: an Admin account is only ever deleted by a Super
\* Admin, or by two different users of whom none is the account itself.
AdminRemovalTakesTwo ==
    \A u \in Users : users[u].deleted =>
        /\ u \notin users[u].removers
        /\ users[u].bySuper \/ Cardinality(users[u].removers) = 2

\* MarkApproved and MarkRejected: two deciders that both found the request
\* pending never both decide it, and a decision is never taken back.
DecidedOnce ==
    [][\A r \in Requests : requests[r].decider # Nobody => requests'[r] = requests[r]]_requests

\* Migration 000008: whatever requests and operators write at once, an
\* organization never has two active Managers.  (With the types: a decision has
\* somebody who took it.)
OneActiveManagerPerOrganization ==
  /\ UsersTypeOK
  /\ \A u, v \in Users :
        HoldsSlot(users[u]) /\ HoldsSlot(users[v]) /\ users[u].org = users[v].org => u = v
=============================================================================
