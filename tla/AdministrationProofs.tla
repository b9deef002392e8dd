------------------------ MODULE AdministrationProofs ------------------------
(***************************************************************************)
(* Theorems about what operators and administrators do at once: accounts   *)
(* (UserAdmin), the schema and its repair (Migrator), and the limit on     *)
(* attempts (RateLimiter), for any number of them.                         *)
(***************************************************************************)
EXTENDS UserAdmin, Migrator, RateLimiter, FiniteSetTheorems, SequenceTheorems,
    WellFoundedInduction, TLAPS

(***************************************************************************)
(* Accounts.  Each rule was checked when a request read, and the           *)
(* invariant says what of it still holds for the write that is left:       *)
(* who stands behind a deletion, and what a locked slot keeps out.         *)
(***************************************************************************)

Supervised(u, by, bySuper) == u \notin by /\ (bySuper \/ Cardinality(by) = 2)

\* What a request that has passed its checks may write.
CallInv(call) ==
    /\ call.op # "idle" => call.user \in Users
    /\ call.op \in {"request", "approve", "reject"} => call.request \in Requests
    /\ call.op \in {"insert", "save", "locked"} => ~call.row.deleted
    /\ call.op = "request" =>
        call.user \notin call.by /\ requests[call.request].status = "None"
    /\ call.op = "approve" =>
        /\ requests[call.request].status # "None"
        /\ requests[call.request].target = call.user
        /\ \E a \in Users \ {requests[call.request].by, call.user} : call.by = {a}
    /\ call.op = "delete" => Supervised(call.user, call.by, call.bySuper)

\* Who has passed the trigger owns the slot, and nobody else manages there.
LockInv(c) ==
    userCall[c].op = "locked" =>
        /\ HoldsSlot(userCall[c].row)
        /\ slotLock[userCall[c].row.org] = c
        /\ \A v \in Users \ {userCall[c].user} :
            HoldsSlot(users[v]) => users[v].org # userCall[c].row.org

\* Nobody else uses the identity of a request that is being filed.
NewRequest(c) ==
    userCall[c].op = "request" =>
        \A d \in UserCalls \ {c} : userCall[d].request # userCall[c].request

UsersInv ==
    /\ OneActiveManagerPerOrganization
    /\ AdminRemovalTakesTwo
    /\ \A r \in Requests : requests[r].status # "None" => requests[r].by # requests[r].target
    /\ \A c \in UserCalls : CallInv(userCall[c]) /\ LockInv(c) /\ NewRequest(c)

LEMMA IdleCallIsCall ==
    /\ NoUser \in UserRow /\ ~NoUser.deleted
    /\ IdleCall \in UserCall
    /\ IdleCall.op = "idle" /\ IdleCall.request = Nobody /\ IdleCall.user = Nobody
    /\ IdleCall.row = NoUser
BY DEF NoUser, IdleCall, UserRow, UserCall, CallOps, Roles, Statuses

LEMMA UsersInitInv == UsersInit => UsersInv
<1> SUFFICES ASSUME UsersInit PROVE UsersInv
  OBVIOUS
<1>1. \A u \in Users : users[u] \in UserRow /\ ~users[u].deleted /\ users[u].org = Nobody
  BY DEF UsersInit, NoUser, UserRow, Roles, Statuses
<1>2. \A r \in Requests :
        requests[r] \in Request /\ requests[r].status = "None" /\ requests[r].decider = Nobody
  BY DEF UsersInit, NoRequest, Request
<1>3. \A c \in UserCalls : userCall[c] = IdleCall
  BY DEF UsersInit
<1>4. UsersTypeOK
  BY <1>1, <1>2, <1>3, IdleCallIsCall, UsersAssumption DEF UsersInit, UsersTypeOK
<1>5. OneActiveManagerPerOrganization
  BY <1>1, <1>4 DEF OneActiveManagerPerOrganization, HoldsSlot
<1>6. AdminRemovalTakesTwo
  BY <1>1 DEF AdminRemovalTakesTwo
<1>7. QED
  BY <1>2, <1>3, <1>5, <1>6, IdleCallIsCall DEF UsersInv, CallInv, LockInv, NewRequest

\* A request that passes its checks writes nothing yet.
LEMMA GoesKeepsInv ==
    ASSUME UsersInv, NEW c \in UserCalls, NEW call \in UserCall, Goes(c, call),
           CallInv(call), call.op # "locked",
           IF call.op = "request"
           THEN \A d \in UserCalls : userCall[d].request # call.request
           ELSE call.request # Nobody => requests[call.request].status # "None"
    PROVE  UsersInv'
<1>1. \A d \in UserCalls : userCall'[d] = IF d = c THEN call ELSE userCall[d]
  BY DEF UsersInv, OneActiveManagerPerOrganization, UsersTypeOK, Goes
<1>2. users' = users /\ requests' = requests /\ slotLock' = slotLock
  BY DEF Goes
<1>3. \A d \in UserCalls : CallInv(userCall[d])'
  BY <1>1, <1>2 DEF UsersInv, CallInv
<1>4. \A d \in UserCalls : LockInv(d)'
  BY <1>1, <1>2 DEF UsersInv, LockInv, HoldsSlot
<1>5. \A d \in UserCalls : NewRequest(d)'
  <2> SUFFICES ASSUME NEW d \in UserCalls, userCall'[d].op = "request",
                      NEW e \in UserCalls \ {d}
               PROVE  userCall'[e].request # userCall'[d].request
    BY DEF NewRequest
  <2>1. CASE d = c
    BY <2>1, <1>1
  <2>2. CASE d # c /\ e # c
    BY <2>2, <1>1 DEF UsersInv, NewRequest
  <2>3. CASE d # c /\ e = c
    <3>1. /\ userCall[d].op = "request" /\ userCall[d].request \in Requests
          /\ requests[userCall[d].request].status = "None"
      BY <2>3, <1>1 DEF UsersInv, CallInv
    <3>2. userCall[d].request # Nobody
      BY <3>1, UsersAssumption
    <3>3. userCall'[e].request = call.request /\ userCall'[d].request = userCall[d].request
      BY <2>3, <1>1
    <3>4. QED
      BY <3>1, <3>2, <3>3
  <2>4. QED
    BY <2>1, <2>2, <2>3
<1>6. UsersTypeOK'
  <2>1. userCall' \in [UserCalls -> UserCall]
    BY DEF UsersInv, OneActiveManagerPerOrganization, UsersTypeOK, Goes
  <2>2. QED
    BY <2>1, <1>2, <1>3 DEF UsersInv, OneActiveManagerPerOrganization, UsersTypeOK, CallInv
<1>7. (OneActiveManagerPerOrganization /\ AdminRemovalTakesTwo)'
  BY <1>2, <1>6 DEF UsersInv, OneActiveManagerPerOrganization, HoldsSlot, AdminRemovalTakesTwo
<1>8. QED
  BY <1>2, <1>3, <1>4, <1>5, <1>7 DEF UsersInv

\* The checks of UserService: what they leave to be written.
LEMMA AccountRequestsKeepInv ==
    ASSUME UsersInv, NEW c \in UserCalls, NEW a \in Users, NEW u \in Users,
           \/ \E role \in AskedRoles :
                \/ CreateUser(c, a, u, role)
                \/ \E status \in AskedStatuses : UpdateUser(c, a, u, role, status)
           \/ UpdateOwnProfile(c, u)
           \/ \E status \in AskedStatuses : UpdateUserStatus(c, a, u, status)
           \/ DeleteUser(c, a, u)
           \/ \E o \in Orgs : AssignOrganization(c, u, o)
    PROVE  UsersInv'
<1>1. users[u] \in UserRow
  BY DEF UsersInv, OneActiveManagerPerOrganization, UsersTypeOK
<1>2. ASSUME NEW op \in {"insert", "save", "status", "assign"}, NEW row \in UserRow,
             op \in {"insert", "save"} => ~row.deleted,
             Goes(c, [IdleCall EXCEPT !.op = op, !.user = u, !.row = row])
      PROVE  UsersInv'
  <2> DEFINE call == [IdleCall EXCEPT !.op = op, !.user = u, !.row = row]
  <2>1. /\ call \in UserCall /\ call.op = op /\ call.user = u /\ call.row = row
        /\ call.request = Nobody
    BY IdleCallIsCall DEF UserCall, CallOps
  <2>2. Goes(c, call)
    BY <1>2
  <2> HIDE DEF call
  <2>3. CallInv(call)
    BY <2>1, <1>2 DEF CallInv
  <2>4. QED
    BY <2>1, <2>2, <2>3, GoesKeepsInv
<1>3. ASSUME NEW role \in AskedRoles, CreateUser(c, a, u, role) PROVE UsersInv'
  <2>1. [NoUser EXCEPT !.role = role] \in UserRow /\ ~[NoUser EXCEPT !.role = role].deleted
    BY UsersAssumption, IdleCallIsCall DEF UserRow
  <2>2. QED
    BY <1>2, <1>3, <2>1 DEF CreateUser
<1>4. ASSUME NEW role \in AskedRoles, NEW status \in AskedStatuses,
             UpdateUser(c, a, u, role, status)
      PROVE  UsersInv'
  <2> DEFINE row == [users[u] EXCEPT !.role = role, !.status = status]
  <2>1. row \in UserRow /\ ~row.deleted
    BY <1>1, <1>4, UsersAssumption DEF UserRow, UpdateUser, Live
  <2>2. QED
    BY <1>2, <1>4, <2>1 DEF UpdateUser
<1>5. CASE UpdateOwnProfile(c, u)
  BY <1>1, <1>2, <1>5 DEF UpdateOwnProfile, CanAct, Live
<1>6. ASSUME NEW status \in AskedStatuses, UpdateUserStatus(c, a, u, status) PROVE UsersInv'
  <2>1. [NoUser EXCEPT !.status = status] \in UserRow
    BY UsersAssumption, IdleCallIsCall DEF UserRow
  <2>2. [IdleCall EXCEPT !.op = "status", !.user = u, !.row.status = status]
            = [IdleCall EXCEPT !.op = "status", !.user = u, !.row = [NoUser EXCEPT !.status = status]]
    BY IdleCallIsCall DEF UserCall
  <2>3. QED
    BY <1>2, <1>6, <2>1, <2>2 DEF UpdateUserStatus
<1>7. CASE DeleteUser(c, a, u)
  <2> DEFINE call == [IdleCall EXCEPT !.op = "delete", !.user = u, !.by = {a}, !.bySuper = TRUE]
  <2>1. /\ call \in UserCall /\ call.op = "delete" /\ call.user = u /\ call.by = {a}
        /\ call.request = Nobody /\ call.bySuper
    BY IdleCallIsCall DEF UserCall, CallOps
  <2>2. Goes(c, call) /\ u # a
    BY <1>7 DEF DeleteUser
  <2> HIDE DEF call
  <2>3. CallInv(call)
    BY <2>1, <2>2 DEF CallInv, Supervised
  <2>4. QED
    BY <2>1, <2>2, <2>3, GoesKeepsInv
<1>8. CASE \E o \in Orgs : AssignOrganization(c, u, o)
  <2>1. PICK o \in Orgs : AssignOrganization(c, u, o)
    BY <1>8
  <2>2. [NoUser EXCEPT !.org = o] \in UserRow
    BY IdleCallIsCall DEF UserRow
  <2>3. [IdleCall EXCEPT !.op = "assign", !.user = u, !.row.org = o]
            = [IdleCall EXCEPT !.op = "assign", !.user = u, !.row = [NoUser EXCEPT !.org = o]]
    BY IdleCallIsCall DEF UserCall
  <2>4. QED
    BY <1>2, <2>1, <2>2, <2>3 DEF AssignOrganization
<1>9. QED
  BY <1>3, <1>4, <1>5, <1>6, <1>7, <1>8

\* The two persons of a deletion: the first files, another one decides.
LEMMA DeletionRequestsKeepInv ==
    ASSUME UsersInv, NEW c \in UserCalls, NEW a \in Users, NEW r \in Requests,
           \/ \E u \in Users : RequestAdminDeletion(c, a, u, r)
           \/ ApproveAdminDeletion(c, a, r)
           \/ RejectAdminDeletion(c, a, r)
    PROVE  UsersInv'
<1>1. /\ requests[r] \in Request /\ r # Nobody
      /\ requests[r].status # "None" => requests[r].target \in Users
  BY UsersAssumption DEF UsersInv, OneActiveManagerPerOrganization, UsersTypeOK
<1>2. ASSUME NEW u \in Users, NEW call \in UserCall, Goes(c, call),
             call.op \in {"request", "approve", "reject"},
             call.user = u, call.request = r, call.by = {a}, a # u,
             IF call.op = "request"
             THEN /\ requests[r].status = "None"
                  /\ \A d \in UserCalls : userCall[d].request # r
             ELSE Pending(r) /\ a # requests[r].by /\ u = requests[r].target
      PROVE  UsersInv'
  <2>1. call.op = "approve" => \E b \in Users \ {requests[r].by, u} : call.by = {b}
    BY <1>2
  <2>2. CallInv(call)
    BY <2>1, <1>2 DEF CallInv, Pending
  <2>3. QED
    BY <2>2, <1>2, GoesKeepsInv DEF Pending
<1>3. ASSUME NEW u \in Users, RequestAdminDeletion(c, a, u, r) PROVE UsersInv'
  <2> DEFINE call == [IdleCall EXCEPT !.op = "request", !.user = u, !.request = r, !.by = {a}]
  <2>1. /\ call \in UserCall /\ call.op = "request" /\ call.user = u /\ call.by = {a}
        /\ call.request = r
    BY IdleCallIsCall DEF UserCall, CallOps
  <2>2. Goes(c, call)
    BY <1>3 DEF RequestAdminDeletion
  <2> HIDE DEF call
  <2>3. QED
    BY <1>2, <1>3, <2>1, <2>2 DEF RequestAdminDeletion
<1>4. CASE ApproveAdminDeletion(c, a, r)
  <2> DEFINE u == requests[r].target
             call == [IdleCall EXCEPT !.op = "approve", !.user = u, !.request = r, !.by = {a},
                                      !.bySuper = users[a].role = "SuperAdmin"]
  <2>1. u \in Users
    BY <1>1, <1>4 DEF ApproveAdminDeletion, Pending
  <2>2. /\ call \in UserCall /\ call.op = "approve" /\ call.user = u /\ call.by = {a}
        /\ call.request = r
    BY <2>1, IdleCallIsCall DEF UserCall, CallOps
  <2>3. Goes(c, call)
    BY <1>4 DEF ApproveAdminDeletion
  <2> HIDE DEF call
  <2>4. QED
    BY <1>2, <1>4, <2>1, <2>2, <2>3 DEF ApproveAdminDeletion
<1>5. CASE RejectAdminDeletion(c, a, r)
  <2> DEFINE u == requests[r].target
             call == [IdleCall EXCEPT !.op = "reject", !.user = u, !.request = r, !.by = {a}]
  <2>1. u \in Users
    BY <1>1, <1>5 DEF RejectAdminDeletion, Pending
  <2>2. /\ call \in UserCall /\ call.op = "reject" /\ call.user = u /\ call.by = {a}
        /\ call.request = r
    BY <2>1, IdleCallIsCall DEF UserCall, CallOps
  <2>3. Goes(c, call)
    BY <1>5 DEF RejectAdminDeletion
  <2> HIDE DEF call
  <2>4. QED
    BY <1>2, <1>5, <2>1, <2>2, <2>3 DEF RejectAdminDeletion
<1>6. QED
  BY <1>3, <1>4, <1>5

\* A request that ends, or goes on with what the invariant allows, while the decisions
\* change only as its own statement says.
LEMMA DecisionKeepsInv ==
    ASSUME UsersInv, NEW c \in UserCalls, NEW call \in UserCall,
           CallInv(call)', call.op \in {"idle", "delete"},
           userCall' = [userCall EXCEPT ![c] = call],
           users' = users, slotLock' = slotLock,
           call.request \in {Nobody, userCall[c].request},
           requests' \in [Requests -> Request],
           \A r \in Requests : requests'[r] # requests[r] =>
                /\ r = userCall[c].request
                /\ requests[r].status # "None" =>
                        /\ requests'[r].target = requests[r].target
                        /\ requests'[r].by = requests[r].by
                /\ requests[r].status = "None" => userCall[c].op = "request"
                /\ requests'[r].target \in Users /\ requests'[r].by \in Users
                /\ requests'[r].by # requests'[r].target
                /\ requests'[r].status # "None"
                /\ requests'[r].status \in {"Approved", "Rejected"} <=> requests'[r].decider # Nobody
    PROVE  UsersInv'
<1>1. \A d \in UserCalls : userCall'[d] = IF d = c THEN call ELSE userCall[d]
  BY DEF UsersInv, OneActiveManagerPerOrganization, UsersTypeOK
<1>2. \A d \in UserCalls : CallInv(userCall[d])'
  <2> SUFFICES ASSUME NEW d \in UserCalls \ {c} PROVE CallInv(userCall[d])'
    BY <1>1 DEF CallInv
  <2>1. CallInv(userCall[d]) /\ userCall'[d] = userCall[d] /\ NewRequest(c) /\ NewRequest(d)
    BY <1>1 DEF UsersInv
  <2>2. CASE userCall[d].op = "request"
    BY <2>1, <2>2 DEF CallInv, NewRequest
  <2>3. CASE userCall[d].op = "approve"
    BY <2>1, <2>3 DEF CallInv
  <2>4. CASE userCall[d].op \notin {"request", "approve"}
    BY <2>1, <2>4 DEF CallInv
  <2>5. QED
    BY <2>2, <2>3, <2>4
<1>3. \A d \in UserCalls : LockInv(d)'
  BY <1>1 DEF UsersInv, LockInv, HoldsSlot
<1>4. \A d \in UserCalls : NewRequest(d)'
  <2> SUFFICES ASSUME NEW d \in UserCalls, userCall'[d].op = "request",
                      NEW e \in UserCalls \ {d}
               PROVE  userCall'[e].request # userCall'[d].request
    BY DEF NewRequest
  <2>1. d # c /\ userCall'[d] = userCall[d] /\ NewRequest(d) /\ CallInv(userCall[d])
    BY <1>1 DEF UsersInv
  <2>2. userCall[d].request # Nobody
    BY <2>1, UsersAssumption DEF CallInv
  <2>3. QED
    BY <1>1, <2>1, <2>2 DEF NewRequest
<1>5. UsersTypeOK'
  <2>1. userCall' \in [UserCalls -> UserCall]
    BY DEF UsersInv, OneActiveManagerPerOrganization, UsersTypeOK
  <2>2. QED
    BY <2>1, <1>2 DEF UsersInv, OneActiveManagerPerOrganization, UsersTypeOK, CallInv
<1>6. (OneActiveManagerPerOrganization /\ AdminRemovalTakesTwo)'
  BY <1>5 DEF UsersInv, OneActiveManagerPerOrganization, HoldsSlot, AdminRemovalTakesTwo
<1>7. \A r \in Requests : requests'[r].status # "None" => requests'[r].by # requests'[r].target
  BY DEF UsersInv
<1>8. QED
  BY <1>2, <1>3, <1>4, <1>6, <1>7 DEF UsersInv

LEMMA PairCardinality ==
    ASSUME NEW a, NEW b, a # b
    PROVE  Cardinality({a} \cup {b}) = 2
<1>1. IsFiniteSet({a}) /\ Cardinality({a}) = 1
  BY FS_Singleton
<1>2. Cardinality({a} \cup {b}) = Cardinality({a}) + 1
  BY <1>1, FS_AddElement
<1>3. QED
  BY <1>1, <1>2

\* MarkApproved and its siblings: what was pending is decided, by somebody else than the
\* one who filed it.
LEMMA DecisionsKeepInv ==
    ASSUME UsersInv, NEW c \in UserCalls,
           CreatePending(c) \/ MarkApproved(c) \/ MarkRejected(c) \/ DecidedMeanwhile(c)
    PROVE  UsersInv'
<1> DEFINE r == userCall[c].request
<1>1. /\ userCall[c] \in UserCall /\ CallInv(userCall[c])
      /\ requests \in [Requests -> Request]
  BY DEF UsersInv, OneActiveManagerPerOrganization, UsersTypeOK
<1>2. CallInv(IdleCall)'
  BY IdleCallIsCall DEF CallInv
<1>3. CASE CreatePending(c)
  <2>1. PICK a \in userCall[c].by : requests' = [requests EXCEPT ![r] =
            [status |-> "Pending", target |-> userCall[c].user, by |-> a, decider |-> Nobody]]
    BY <1>3 DEF CreatePending
  <2> DEFINE new == [status |-> "Pending", target |-> userCall[c].user, by |-> a, decider |-> Nobody]
  <2>2. /\ a \in Users /\ userCall[c].user \in Users /\ userCall[c].user # a
        /\ r \in Requests /\ requests[r].status = "None" /\ userCall[c].op = "request"
    BY <1>1, <1>3 DEF CreatePending, CallInv, UserCall
  <2>3. /\ new \in Request /\ new.status = "Pending" /\ new.target = userCall[c].user
        /\ new.by = a /\ new.decider = Nobody
    BY <2>2 DEF Request
  <2>4. requests' = [requests EXCEPT ![r] = new]
    BY <2>1
  <2> HIDE DEF new
  <2>5. requests' \in [Requests -> Request] /\ requests'[r] = new
    BY <1>1, <2>2, <2>3, <2>4
  <2>6. \A q \in Requests : q # r => requests'[q] = requests[q]
    BY <1>1, <2>4
  <2>7. /\ userCall' = [userCall EXCEPT ![c] = IdleCall]
        /\ users' = users /\ slotLock' = slotLock
    BY <1>3 DEF CreatePending, Ends
  <2> HIDE DEF r
  <2>8. QED
    BY <1>2, <2>2, <2>3, <2>5, <2>6, <2>7, IdleCallIsCall, DecisionKeepsInv DEF r
<1>4. ASSUME NEW a \in Users, NEW status \in {"Approved", "Rejected"}, r \in Requests,
             StillPending(r), Decide(r, status, a), users' = users, slotLock' = slotLock,
             NEW call \in UserCall, CallInv(call)', call.op \in {"idle", "delete"},
             call.request \in {Nobody, r}, userCall' = [userCall EXCEPT ![c] = call]
      PROVE  UsersInv'
  <2>1. /\ requests[r] \in Request /\ requests[r].status = "Pending"
        /\ requests[r].target \in Users /\ requests[r].by \in Users
        /\ requests[r].by # requests[r].target
    BY <1>4 DEF StillPending, UsersInv, OneActiveManagerPerOrganization, UsersTypeOK
  <2> DEFINE new == [requests[r] EXCEPT !.status = status, !.decider = a]
  <2>2. /\ new \in Request /\ new.status = status /\ new.decider = a
        /\ new.target = requests[r].target /\ new.by = requests[r].by
    BY <2>1 DEF Request
  <2>3. requests' = [requests EXCEPT ![r] = new]
    BY <1>1, <1>4 DEF Decide
  <2> HIDE DEF new
  <2>4. requests' \in [Requests -> Request] /\ requests'[r] = new
    BY <1>1, <1>4, <2>2, <2>3
  <2>5. \A q \in Requests : q # r => requests'[q] = requests[q]
    BY <1>1, <2>3
  <2>6. a # Nobody
    BY UsersAssumption
  <2> HIDE DEF r
  <2>7. QED
    BY <1>4, <2>1, <2>2, <2>4, <2>5, <2>6, DecisionKeepsInv DEF r
<1>5. CASE MarkApproved(c)
  <2>1. /\ r \in Requests /\ StillPending(r) /\ userCall[c].user \in Users
        /\ requests[r].target = userCall[c].user
    BY <1>1, <1>5 DEF MarkApproved, CallInv
  <2>2. PICK a \in Users \ {requests[r].by, userCall[c].user} : userCall[c].by = {a}
    BY <1>1, <1>5 DEF MarkApproved, CallInv
  <2>3. /\ requests[r].by \in Users /\ requests[r].by # userCall[c].user
        /\ a # requests[r].by /\ a # userCall[c].user
    BY <2>1 DEF StillPending, UsersInv, OneActiveManagerPerOrganization, UsersTypeOK
  <2> DEFINE next == [userCall[c] EXCEPT !.op = "delete", !.by = @ \cup {requests[r].by}]
  <2>4. /\ next \in UserCall /\ next.op = "delete" /\ next.request = r
        /\ next.user = userCall[c].user /\ next.by = {a} \cup {requests[r].by}
    BY <1>1, <2>2, <2>3 DEF UserCall, CallOps
  <2>5. userCall' = [userCall EXCEPT ![c] = next]
    BY <1>5 DEF MarkApproved
  <2>6. Decide(r, "Approved", a) /\ users' = users /\ slotLock' = slotLock
    BY <1>5, <2>2 DEF MarkApproved
  <2>7. Cardinality({a} \cup {requests[r].by}) = 2
    BY <2>3, PairCardinality
  <2> HIDE DEF next, r
  <2>8. PICK call \in UserCall : call = next
    BY <2>4
  <2>9. Cardinality(call.by) = 2 /\ call.user \notin call.by
    BY <2>3, <2>4, <2>7, <2>8
  <2>10. CallInv(call)'
    BY <2>1, <2>4, <2>8, <2>9 DEF CallInv, Supervised
  <2>11. QED
    BY <1>4, <2>1, <2>2, <2>4, <2>5, <2>6, <2>8, <2>10
<1>6. CASE MarkRejected(c)
  <2>1. r \in Requests /\ StillPending(r)
    BY <1>1, <1>6 DEF MarkRejected, CallInv
  <2>2. PICK a \in userCall[c].by : Decide(r, "Rejected", a)
    BY <1>6 DEF MarkRejected
  <2>3. a \in Users
    BY <1>1 DEF UserCall
  <2>4. /\ userCall' = [userCall EXCEPT ![c] = IdleCall]
        /\ users' = users /\ slotLock' = slotLock
    BY <1>6 DEF MarkRejected, Ends
  <2> HIDE DEF r
  <2>5. QED
    BY <1>2, <1>4, <2>1, <2>2, <2>3, <2>4, IdleCallIsCall
<1>7. CASE DecidedMeanwhile(c)
  <2>1. /\ userCall' = [userCall EXCEPT ![c] = IdleCall]
        /\ users' = users /\ slotLock' = slotLock /\ requests' = requests
    BY <1>7 DEF DecidedMeanwhile, Ends
  <2>2. QED
    BY <1>1, <1>2, <2>1, IdleCallIsCall, DecisionKeepsInv
<1>8. QED
  BY <1>3, <1>5, <1>6, <1>7

\* What a statement is about to write is a row; a removal it leaves standing is one of
\* before.
LEMMA NewRowIsRow ==
    ASSUME UsersInv, NEW c \in UserCalls, Writing(c)
    PROVE  /\ userCall[c].user \in Users
           /\ NewRow(c) \in UserRow
           /\ NewRow(c).deleted =>
                /\ users[userCall[c].user].deleted
                /\ NewRow(c).removers = users[userCall[c].user].removers
                /\ NewRow(c).bySuper = users[userCall[c].user].bySuper
<1> DEFINE call == userCall[c]
           now == users[call.user]
<1>1. call \in UserCall /\ call.user \in Users /\ now \in UserRow /\ CallInv(call)
  BY DEF UsersInv, OneActiveManagerPerOrganization, UsersTypeOK, CallInv, Writing
<1>2. call.row \in UserRow
  BY <1>1 DEF UserCall
<1>3. CASE call.op = "insert"
  BY <1>1, <1>2, <1>3 DEF NewRow, CallInv
<1>4. CASE call.op = "save"
  <2>1. NewRow(c) = [call.row EXCEPT !.org = now.org]
    BY <1>4 DEF NewRow
  <2>2. QED
    BY <1>1, <1>2, <1>4, <2>1 DEF CallInv, UserRow
<1>5. CASE call.op = "status"
  <2>1. NewRow(c) = [now EXCEPT !.status = call.row.status, !.deleted = FALSE,
                                !.removers = {}, !.bySuper = FALSE]
    BY <1>5 DEF NewRow
  <2>2. QED
    BY <1>1, <1>2, <2>1 DEF UserRow
<1>6. CASE call.op = "assign"
  <2>1. NewRow(c) = [now EXCEPT !.org = call.row.org]
    BY <1>6 DEF NewRow
  <2>2. QED
    BY <1>1, <1>2, <2>1 DEF UserRow
<1>7. QED
  BY <1>3, <1>4, <1>5, <1>6 DEF Writing

\* A request ends after it has written a row that takes no slot away from others, and
\* gives back the locks it holds.
LEMMA EndKeepsInv ==
    ASSUME UsersInv, NEW c \in UserCalls, NEW u \in Users, NEW row \in UserRow,
           Ends(c), users' = [users EXCEPT ![u] = row], requests' = requests,
           slotLock' = slotLock \/ slotLock' = Unlocked(c),
           row.deleted => Supervised(u, row.removers, row.bySuper),
           HoldsSlot(row) =>
                /\ \A v \in Users \ {u} : HoldsSlot(users[v]) => users[v].org # row.org
                /\ \A d \in UserCalls \ {c} :
                    userCall[d].op = "locked" /\ userCall[d].user # u
                        => userCall[d].row.org # row.org
    PROVE  UsersInv'
<1>1. \A d \in UserCalls : userCall'[d] = IF d = c THEN IdleCall ELSE userCall[d]
  BY DEF UsersInv, OneActiveManagerPerOrganization, UsersTypeOK, Ends
<1>2. \A v \in Users : users'[v] = IF v = u THEN row ELSE users[v]
  BY DEF UsersInv, OneActiveManagerPerOrganization, UsersTypeOK
<1>3. \A d \in UserCalls : CallInv(userCall[d])'
  BY <1>1, IdleCallIsCall DEF UsersInv, CallInv
<1>4. \A d \in UserCalls : LockInv(d)'
  <2> SUFFICES ASSUME NEW d \in UserCalls \ {c}, userCall[d].op = "locked"
               PROVE  LockInv(d)'
    BY <1>1, IdleCallIsCall DEF LockInv
  <2>1. userCall'[d] = userCall[d] /\ LockInv(d) /\ userCall[d] \in UserCall
    BY <1>1 DEF UsersInv, OneActiveManagerPerOrganization, UsersTypeOK
  <2>2. userCall[d].row.org \in Orgs
    BY <2>1 DEF LockInv, HoldsSlot, UserCall, UserRow
  <2>3. slotLock'[userCall[d].row.org] = d
    BY <2>1, <2>2 DEF LockInv, Unlocked
  <2>4. \A v \in Users \ {userCall[d].user} :
          HoldsSlot(users'[v]) => users'[v].org # userCall[d].row.org
    BY <1>2, <2>1 DEF LockInv
  <2>5. QED
    BY <2>1, <2>3, <2>4 DEF LockInv, HoldsSlot
<1>5. \A d \in UserCalls : NewRequest(d)'
  BY <1>1, IdleCallIsCall, UsersAssumption DEF UsersInv, NewRequest, CallInv
<1>6. UsersTypeOK'
  <2>1. userCall' \in [UserCalls -> UserCall] /\ users' \in [Users -> UserRow]
    BY IdleCallIsCall DEF UsersInv, OneActiveManagerPerOrganization, UsersTypeOK, Ends
  <2>2. slotLock' \in [Orgs -> UserCalls \cup {Nobody}]
    BY DEF UsersInv, OneActiveManagerPerOrganization, UsersTypeOK, Unlocked
  <2>3. QED
    BY <2>1, <2>2, <1>3 DEF UsersInv, OneActiveManagerPerOrganization, UsersTypeOK, CallInv
<1>7. OneActiveManagerPerOrganization'
  <2>1. \A v, w \in Users :
          HoldsSlot(users'[v]) /\ HoldsSlot(users'[w]) /\ users'[v].org = users'[w].org => v = w
    BY <1>2 DEF UsersInv, OneActiveManagerPerOrganization
  <2>2. QED
    BY <1>6, <2>1 DEF OneActiveManagerPerOrganization, HoldsSlot
<1>8. AdminRemovalTakesTwo'
  BY <1>2 DEF UsersInv, AdminRemovalTakesTwo, Supervised
<1>9. QED
  BY <1>3, <1>4, <1>5, <1>7, <1>8 DEF UsersInv

LEMMA WritesKeepInv ==
    ASSUME UsersInv, NEW c \in UserCalls,
           WriteUser(c) \/ CommitLocked(c) \/ SoftDelete(c) \/ FailUserCall(c)
    PROVE  UsersInv'
<1> DEFINE u == userCall[c].user
<1>1. /\ userCall[c] \in UserCall /\ CallInv(userCall[c]) /\ LockInv(c)
      /\ users \in [Users -> UserRow]
      /\ userCall[c].op # "idle" => u \in Users
  BY DEF UsersInv, OneActiveManagerPerOrganization, UsersTypeOK, CallInv
<1>2. \A v \in Users : users[v].deleted => Supervised(v, users[v].removers, users[v].bySuper)
  BY DEF UsersInv, AdminRemovalTakesTwo, Supervised
<1>3. CASE WriteUser(c)
  <2>1. Writing(c) /\ ~HoldsSlot(NewRow(c)) /\ users' = [users EXCEPT ![u] = NewRow(c)]
    BY <1>3 DEF WriteUser
  <2>2. /\ u \in Users /\ NewRow(c) \in UserRow
        /\ NewRow(c).deleted => Supervised(u, NewRow(c).removers, NewRow(c).bySuper)
    BY <1>2, <2>1, NewRowIsRow DEF Supervised
  <2>3. Ends(c) /\ requests' = requests /\ slotLock' = slotLock
    BY <1>3 DEF WriteUser
  <2>4. QED
    BY <2>1, <2>2, <2>3, EndKeepsInv
<1>4. CASE CommitLocked(c)
  <2> DEFINE row == userCall[c].row
  <2>1. userCall[c].op = "locked" /\ u \in Users /\ row \in UserRow
    BY <1>1, <1>4 DEF CommitLocked, UserCall
  <2>2. /\ HoldsSlot(row) /\ ~row.deleted /\ row.org \in Orgs
        /\ slotLock[row.org] = c
        /\ \A v \in Users \ {u} : HoldsSlot(users[v]) => users[v].org # row.org
    BY <1>1, <2>1 DEF LockInv, HoldsSlot, UserRow
  <2>3. \A d \in UserCalls \ {c} : userCall[d].op = "locked" => userCall[d].row.org # row.org
    BY <2>2 DEF UsersInv, LockInv
  <2>4. Ends(c) /\ requests' = requests /\ slotLock' = Unlocked(c) /\ users' = [users EXCEPT ![u] = row]
    BY <1>4 DEF CommitLocked
  <2>5. QED
    BY <2>1, <2>2, <2>3, <2>4, EndKeepsInv
<1>5. CASE SoftDelete(c)
  <2>1. /\ userCall[c].op = "delete" /\ u \in Users
        /\ Supervised(u, userCall[c].by, userCall[c].bySuper)
    BY <1>1, <1>5 DEF SoftDelete, CallInv
  <2>2. Ends(c) /\ requests' = requests /\ slotLock' = slotLock
    BY <1>5 DEF SoftDelete
  <2>3. CASE users[u].deleted
    <3>1. users' = [users EXCEPT ![u] = users[u]]
      BY <1>1, <1>5, <2>1, <2>3 DEF SoftDelete
    <3>2. ~HoldsSlot(users[u]) /\ users[u] \in UserRow
      BY <1>1, <2>1, <2>3 DEF HoldsSlot
    <3>3. QED
      BY <1>2, <2>1, <2>2, <3>1, <3>2, EndKeepsInv
  <2>4. CASE ~users[u].deleted
    <3> DEFINE row == [users[u] EXCEPT !.deleted = TRUE, !.removers = userCall[c].by,
                                       !.bySuper = userCall[c].bySuper]
    <3>1. users' = [users EXCEPT ![u] = row]
      BY <1>1, <1>5, <2>1, <2>4 DEF SoftDelete
    <3>2. /\ row \in UserRow /\ row.deleted /\ row.removers = userCall[c].by
          /\ row.bySuper = userCall[c].bySuper
      BY <1>1, <2>1 DEF UserRow, UserCall
    <3> HIDE DEF row
    <3>3. ~HoldsSlot(row)
      BY <3>2 DEF HoldsSlot
    <3>4. QED
      BY <2>1, <2>2, <3>1, <3>2, <3>3, EndKeepsInv
  <2>5. QED
    BY <2>3, <2>4
<1>6. CASE FailUserCall(c)
  <2>1. /\ Ends(c) /\ requests' = requests /\ slotLock' = Unlocked(c) /\ u \in Users
        /\ users' = [users EXCEPT ![u] = users[u]]
    BY <1>1, <1>6 DEF FailUserCall, Idle
  <2>2. users[u] \in UserRow
    BY <1>1, <2>1
  <2>3. HoldsSlot(users[u]) =>
          /\ \A v \in Users \ {u} : HoldsSlot(users[v]) => users[v].org # users[u].org
          /\ \A d \in UserCalls \ {c} :
              userCall[d].op = "locked" /\ userCall[d].user # u
                  => userCall[d].row.org # users[u].org
    BY <2>1 DEF UsersInv, OneActiveManagerPerOrganization, LockInv
  <2>4. QED
    BY <1>2, <2>1, <2>2, <2>3, EndKeepsInv
<1>7. QED
  BY <1>3, <1>4, <1>5, <1>6

\* The trigger: whoever passes it has the lock, and nobody else is the Manager.
LEMMA TriggerKeepsInv ==
    ASSUME UsersInv, NEW c \in UserCalls, EnforceOneActiveManager(c)
    PROVE  UsersInv'
<1> DEFINE u == userCall[c].user
           row == NewRow(c)
           o == row.org
<1>1. /\ Writing(c) /\ HoldsSlot(row) /\ slotLock[o] = Nobody
      /\ users' = users /\ requests' = requests
  BY DEF EnforceOneActiveManager, SlotUnclaimed
<1>2. u \in Users /\ row \in UserRow /\ o \in Orgs /\ ~row.deleted
  BY <1>1, NewRowIsRow DEF HoldsSlot, UserRow
<1>3. userCall[c] \in UserCall /\ CallInv(userCall[c])
  BY DEF UsersInv, OneActiveManagerPerOrganization, UsersTypeOK
<1>4. CASE \E v \in Users \ {u} : HoldsSlot(users[v]) /\ users[v].org = o
  <2>1. Goes(c, IdleCall)
    BY <1>1, <1>4 DEF EnforceOneActiveManager, Ends, Goes
  <2>2. QED
    BY <2>1, IdleCallIsCall, GoesKeepsInv DEF CallInv
<1>5. CASE \A v \in Users \ {u} : HoldsSlot(users[v]) => users[v].org # o
  <2> DEFINE call == [userCall[c] EXCEPT !.op = "locked", !.row = row]
  <2>1. /\ call \in UserCall /\ call.op = "locked" /\ call.user = u /\ call.row = row
        /\ call.request = userCall[c].request
    BY <1>2, <1>3 DEF UserCall, CallOps
  <2>2. /\ userCall' = [userCall EXCEPT ![c] = call]
        /\ slotLock' = [slotLock EXCEPT ![o] = c]
    BY <1>5 DEF EnforceOneActiveManager
  <2> HIDE DEF call
  <2>3. \A d \in UserCalls : userCall'[d] = IF d = c THEN call ELSE userCall[d]
    BY <2>2 DEF UsersInv, OneActiveManagerPerOrganization, UsersTypeOK
  <2>4. \A p \in Orgs : slotLock'[p] = IF p = o THEN c ELSE slotLock[p]
    BY <2>2 DEF UsersInv, OneActiveManagerPerOrganization, UsersTypeOK
  <2> HIDE DEF row
  <2>5. \A d \in UserCalls : CallInv(userCall[d])'
    BY <1>1, <1>2, <2>1, <2>3 DEF UsersInv, CallInv
  <2>6. \A d \in UserCalls : LockInv(d)'
    <3> SUFFICES ASSUME NEW d \in UserCalls, userCall'[d].op = "locked" PROVE LockInv(d)'
      BY DEF LockInv
    <3>1. CASE d = c
      BY <3>1, <1>1, <1>2, <1>5, <2>1, <2>3, <2>4 DEF LockInv, HoldsSlot
    <3>2. CASE d # c
      <4>1. userCall'[d] = userCall[d] /\ LockInv(d) /\ userCall[d] \in UserCall
        BY <3>2, <2>3 DEF UsersInv, OneActiveManagerPerOrganization, UsersTypeOK
      <4>2. userCall[d].row.org \in Orgs /\ slotLock[userCall[d].row.org] = d
        BY <4>1 DEF LockInv, HoldsSlot, UserCall, UserRow
      <4>3. d # Nobody
        BY UsersAssumption
      <4>4. QED
        BY <4>1, <4>2, <4>3, <1>1, <2>4 DEF LockInv, HoldsSlot
    <3>3. QED
      BY <3>1, <3>2
  <2>7. \A d \in UserCalls : NewRequest(d)'
    BY <2>1, <2>3 DEF UsersInv, NewRequest
  <2>8. UsersTypeOK'
    <3>1. userCall' \in [UserCalls -> UserCall] /\ slotLock' \in [Orgs -> UserCalls \cup {Nobody}]
      BY <2>1, <2>2 DEF UsersInv, OneActiveManagerPerOrganization, UsersTypeOK
    <3>2. QED
      BY <1>1, <2>5, <3>1 DEF UsersInv, OneActiveManagerPerOrganization, UsersTypeOK, CallInv
  <2>9. (OneActiveManagerPerOrganization /\ AdminRemovalTakesTwo)'
    BY <1>1, <2>8 DEF UsersInv, OneActiveManagerPerOrganization, HoldsSlot, AdminRemovalTakesTwo
  <2>10. QED
    BY <1>1, <2>5, <2>6, <2>7, <2>9 DEF UsersInv
<1>6. QED
  BY <1>4, <1>5

\* The start repairs the seeded account, which manages nothing, and forgets all requests.
LEMMA RestartKeepsInv ==
    ASSUME UsersInv, Restart
    PROVE  UsersInv'
<1>1. users \in [Users -> UserRow] /\ SeedUser \in Users /\ ~users[SeedUser].deleted
  BY UsersAssumption DEF UsersInv, OneActiveManagerPerOrganization, UsersTypeOK, Restart, Live
<1>2. \A v \in Users : /\ users'[v] \in UserRow
                       /\ users'[v].deleted => users'[v] = users[v]
                       /\ HoldsSlot(users'[v]) => users'[v] = users[v]
  <2>1. CASE users[SeedUser].role = "SuperAdmin"
    <3> DEFINE row == [users[SeedUser] EXCEPT !.status = "Active"]
    <3>1. users' = [users EXCEPT ![SeedUser] = row]
      BY <2>1, <1>1 DEF Restart
    <3>2. row \in UserRow /\ row.role = "SuperAdmin" /\ ~row.deleted
      BY <2>1, <1>1 DEF UserRow, Statuses
    <3> HIDE DEF row
    <3>3. QED
      BY <1>1, <3>1, <3>2 DEF HoldsSlot
  <2>2. CASE users[SeedUser].role # "SuperAdmin"
    BY <2>2, <1>1 DEF Restart
  <2>3. QED
    BY <2>1, <2>2
<1>3. \A c \in UserCalls : userCall'[c] = IdleCall
  BY DEF Restart
<1>4. users' \in [Users -> UserRow] /\ userCall' \in [UserCalls -> UserCall]
  BY <1>1, <1>2, IdleCallIsCall DEF Restart
<1>5. UsersTypeOK'
  BY <1>3, <1>4, IdleCallIsCall, UsersAssumption
     DEF UsersInv, OneActiveManagerPerOrganization, UsersTypeOK, Restart
<1>6. \A v, w \in Users :
        HoldsSlot(users'[v]) /\ HoldsSlot(users'[w]) /\ users'[v].org = users'[w].org => v = w
  BY <1>2 DEF UsersInv, OneActiveManagerPerOrganization
<1>7. OneActiveManagerPerOrganization'
  BY <1>5, <1>6 DEF OneActiveManagerPerOrganization, HoldsSlot
<1>8. AdminRemovalTakesTwo'
  BY <1>2 DEF UsersInv, AdminRemovalTakesTwo
<1>9. \A c \in UserCalls : (CallInv(userCall[c]) /\ LockInv(c) /\ NewRequest(c))'
  BY <1>3, IdleCallIsCall DEF CallInv, LockInv, NewRequest
<1>10. requests' = requests
  BY DEF Restart
<1>11. QED
  BY <1>7, <1>8, <1>9, <1>10 DEF UsersInv

LEMMA UsersNextKeepsInv == UsersInv /\ [UsersNext]_userVars => UsersInv'
<1> SUFFICES ASSUME UsersInv, [UsersNext]_userVars PROVE UsersInv'
  OBVIOUS
<1>1. ASSUME NEW c \in UserCalls, UserStep(c) PROVE UsersInv'
  <2>1. CASE \/ \E a, u \in Users, role \in AskedRoles :
                  \/ CreateUser(c, a, u, role)
                  \/ \E status \in AskedStatuses : UpdateUser(c, a, u, role, status)
             \/ \E a, u \in Users, status \in AskedStatuses : UpdateUserStatus(c, a, u, status)
             \/ \E a, u \in Users : DeleteUser(c, a, u)
    BY <2>1, AccountRequestsKeepInv
  <2>2. CASE \E u \in Users : UpdateOwnProfile(c, u) \/ \E o \in Orgs : AssignOrganization(c, u, o)
    BY <2>2, AccountRequestsKeepInv
  <2>3. CASE \E a \in Users, r \in Requests :
                \/ \E u \in Users : RequestAdminDeletion(c, a, u, r)
                \/ ApproveAdminDeletion(c, a, r)
                \/ RejectAdminDeletion(c, a, r)
    BY <2>3, DeletionRequestsKeepInv
  <2>4. CASE CreatePending(c) \/ MarkApproved(c) \/ MarkRejected(c) \/ DecidedMeanwhile(c)
    BY <2>4, DecisionsKeepInv
  <2>5. CASE WriteUser(c) \/ CommitLocked(c) \/ SoftDelete(c) \/ FailUserCall(c)
    BY <2>5, WritesKeepInv
  <2>6. CASE EnforceOneActiveManager(c)
    BY <2>6, TriggerKeepsInv
  <2>7. QED
    BY <1>1, <2>1, <2>2, <2>3, <2>4, <2>5, <2>6 DEF UserStep
<1>2. CASE Restart
  BY <1>2, RestartKeepsInv
<1>3. CASE UNCHANGED userVars
  BY <1>3 DEF userVars, UsersInv, OneActiveManagerPerOrganization, UsersTypeOK, HoldsSlot,
     AdminRemovalTakesTwo, CallInv, LockInv, NewRequest
<1>4. QED
  BY <1>1, <1>2, <1>3 DEF UsersNext

\* Whatever requests, operators, failures and restarts interleave, the invariant holds.
THEOREM UsersInvariant == UsersSpec => []UsersInv
BY UsersInitInv, UsersNextKeepsInv, PTL DEF UsersSpec

\* An Admin account is only ever deleted by a Super Admin, or by two users of whom none
\* is the account itself.
THEOREM AdminRemovalSupervised == UsersSpec => []AdminRemovalTakesTwo
<1>1. UsersInv => AdminRemovalTakesTwo
  BY DEF UsersInv
<1>2. QED
  BY <1>1, UsersInvariant, PTL

\* An organization never has two active Managers, and accounts, requests and locks keep
\* their types.
THEOREM ManagersStayAlone == UsersSpec => []OneActiveManagerPerOrganization
<1>1. UsersInv => OneActiveManagerPerOrganization
  BY DEF UsersInv
<1>2. QED
  BY <1>1, UsersInvariant, PTL

\* A decided request keeps its decision and its decider.
THEOREM DecisionsStand == UsersSpec => DecidedOnce
<1> DEFINE Stands == \A r \in Requests : requests[r].decider # Nobody => requests'[r] = requests[r]
<1>1. ASSUME UsersInv, [UsersNext]_userVars PROVE Stands \/ UNCHANGED requests
  <2>1. requests \in [Requests -> Request]
    BY <1>1 DEF UsersInv, OneActiveManagerPerOrganization, UsersTypeOK
  <2>2. \A r \in Requests : requests[r].decider # Nobody => requests[r].status \in {"Approved", "Rejected"}
    BY <1>1 DEF UsersInv, OneActiveManagerPerOrganization, UsersTypeOK
  <2>3. ASSUME NEW c \in UserCalls, CreatePending(c) PROVE Stands
    BY <1>1, <2>1, <2>2, <2>3 DEF UsersInv, CallInv, CreatePending
  <2>4. ASSUME NEW c \in UserCalls, MarkApproved(c) \/ MarkRejected(c) PROVE Stands
    BY <2>1, <2>2, <2>4 DEF MarkApproved, MarkRejected, Decide, StillPending
  <2>5. ASSUME NEW c \in UserCalls, UserStep(c) PROVE Stands \/ requests' = requests
    <3>1. ASSUME NEW u \in Users, UpdateOwnProfile(c, u) \/ \E o \in Orgs : AssignOrganization(c, u, o)
          PROVE  requests' = requests
      BY <3>1 DEF UpdateOwnProfile, AssignOrganization, Goes
    <3>2. ASSUME NEW a \in Users, NEW u \in Users, NEW role \in AskedRoles,
                 CreateUser(c, a, u, role) \/ \E status \in AskedStatuses : UpdateUser(c, a, u, role, status)
          PROVE  requests' = requests
      BY <3>2 DEF CreateUser, UpdateUser, Goes
    <3>3. ASSUME NEW a \in Users, NEW u \in Users,
                 DeleteUser(c, a, u) \/ \E status \in AskedStatuses : UpdateUserStatus(c, a, u, status)
          PROVE  requests' = requests
      BY <3>3 DEF DeleteUser, UpdateUserStatus, Goes
    <3>4. ASSUME NEW a \in Users, NEW r \in Requests,
                 \/ \E u \in Users : RequestAdminDeletion(c, a, u, r)
                 \/ ApproveAdminDeletion(c, a, r)
                 \/ RejectAdminDeletion(c, a, r)
          PROVE  requests' = requests
      BY <3>4 DEF RequestAdminDeletion, ApproveAdminDeletion, RejectAdminDeletion, Goes
    <3>5. CASE DecidedMeanwhile(c) \/ WriteUser(c) \/ CommitLocked(c) \/ SoftDelete(c) \/ FailUserCall(c)
      BY <3>5 DEF DecidedMeanwhile, WriteUser, CommitLocked, SoftDelete, FailUserCall
    <3>6. CASE EnforceOneActiveManager(c)
      BY <3>6 DEF EnforceOneActiveManager
    <3>7. QED
      BY <2>3, <2>4, <2>5, <3>1, <3>2, <3>3, <3>4, <3>5, <3>6 DEF UserStep
  <2>6. QED
    BY <1>1, <2>5 DEF UsersNext, Restart, userVars
<1>2. QED
  BY <1>1, UsersInvariant, PTL DEF UsersSpec, DecidedOnce

-----------------------------------------------------------------------------
(***************************************************************************)
(* The rate limiter.  A check that succeeds has seen fewer attempts than   *)
(* the limit, and whoever it lets through is one of the handlers; a record *)
(* only moves a request from those under way to those on record.           *)
(***************************************************************************)

Ages == Seq(0..Window)

OldestFirst(ages) == \A m, n \in DOMAIN ages : m <= n => ages[n] <= ages[m]

UnderWay(k) == {h \in Handlers : passing[h] = k}

RateInv ==
    /\ attempts \in [Clients -> Ages]
    /\ passing \in [Handlers -> Clients \cup {NoClient}]
    /\ \A k \in Clients : OldestFirst(attempts[k])
    /\ BurstIsBounded

LEMMA StaleIsFinite ==
    ASSUME NEW ages \in Ages
    PROVE  /\ IsFiniteSet(Stale(ages)) /\ Cardinality(Stale(ages)) \in Nat
           /\ Cardinality(Stale(ages)) <= Len(ages)
<1>1. Len(ages) \in Nat /\ DOMAIN ages = 1..Len(ages)
  BY LenProperties DEF Ages
<1>2. IsFiniteSet(1..Len(ages)) /\ Cardinality(1..Len(ages)) = Len(ages)
  <2>1. 1 \in Int /\ Len(ages) \in Int /\ (1 > Len(ages) => Len(ages) = 0)
    BY <1>1
  <2>2. /\ IsFiniteSet(1..Len(ages))
        /\ Cardinality(1..Len(ages)) = IF 1 > Len(ages) THEN 0 ELSE Len(ages) - 1 + 1
    BY <2>1, FS_Interval
  <2>3. QED
    BY <1>1, <2>2
<1>3. Stale(ages) \in SUBSET (1..Len(ages))
  BY <1>1 DEF Stale
<1>4. IsFiniteSet(Stale(ages)) /\ Cardinality(Stale(ages)) <= Len(ages)
  BY <1>2, <1>3, FS_Subset
<1>5. QED
  BY <1>4, FS_CardinalityType

\* What the loop keeps is a shorter sequence of ages.
LEMMA FreshIsAges ==
    ASSUME NEW ages \in Ages
    PROVE  /\ Fresh(ages) \in Ages
           /\ Len(Fresh(ages)) = Len(ages) - Cardinality(Stale(ages))
           /\ Len(Fresh(ages)) \in Nat
           /\ DOMAIN Fresh(ages) = 1..Len(Fresh(ages))
           /\ \A n \in DOMAIN Fresh(ages) : Fresh(ages)[n] = ages[Cardinality(Stale(ages)) + n]
<1> DEFINE m == Cardinality(Stale(ages)) + 1
<1>1. Len(ages) \in Nat /\ m \in 1..(Len(ages) + 1)
  BY StaleIsFinite, LenProperties DEF Ages
<1>2. /\ SubSeq(ages, m, Len(ages)) \in Ages
      /\ Len(SubSeq(ages, m, Len(ages))) = Len(ages) - m + 1
      /\ \A n \in 1..(Len(ages) - m + 1) : SubSeq(ages, m, Len(ages))[n] = ages[m + n - 1]
  <2>1. SubSeq(ages, m, Len(ages)) = [n \in 1..(Len(ages) - m + 1) |-> ages[m + n - 1]]
    BY <1>1 DEF Ages
  <2>2. \A n \in 1..(Len(ages) - m + 1) : m + n - 1 \in 1..Len(ages)
    BY <1>1
  <2>3. ages \in [1..Len(ages) -> 0..Window]
    BY LenProperties DEF Ages
  <2>4. SubSeq(ages, m, Len(ages)) \in Ages
    BY <1>1, <2>1, <2>2, <2>3, IsASeq DEF Ages
  <2>5. Len(SubSeq(ages, m, Len(ages))) = Len(ages) - m + 1
    BY <1>1, <2>1, <2>4, LenProperties DEF Ages
  <2>6. QED
    BY <2>1, <2>4, <2>5
<1>3. Fresh(ages) = SubSeq(ages, m, Len(ages))
  BY DEF Fresh
<1>4. DOMAIN Fresh(ages) = 1..Len(Fresh(ages))
  BY <1>2, <1>3, LenProperties DEF Ages
<1>5. Cardinality(Stale(ages)) \in Nat
  BY StaleIsFinite
<1> HIDE DEF m
<1>6. QED
  BY <1>1, <1>2, <1>3, <1>4, <1>5 DEF m

\* The attempts are in the order of time, so that the loop forgets exactly those that
\* have reached the window.
LEMMA FreshAreYoung ==
    ASSUME NEW ages \in Ages, OldestFirst(ages)
    PROVE  /\ Stale(ages) = 1..Cardinality(Stale(ages))
           /\ \A n \in DOMAIN Fresh(ages) : Fresh(ages)[n] < Window
           /\ OldestFirst(Fresh(ages))
<1> DEFINE m == Cardinality(Stale(ages))
<1>1. /\ Len(ages) \in Nat /\ DOMAIN ages = 1..Len(ages) /\ m \in Nat /\ m <= Len(ages)
      /\ IsFiniteSet(Stale(ages)) /\ \A n \in DOMAIN ages : ages[n] \in Nat /\ Window \in Nat
  BY StaleIsFinite, LenProperties, RateAssumption DEF Ages
<1>2. ASSUME NEW n \in Stale(ages) PROVE n \in 1..m
  <2>1. n \in 1..Len(ages) /\ 1..n \in SUBSET Stale(ages)
    BY <1>1, <1>2 DEF Stale, OldestFirst
  <2>2. Cardinality(1..n) = n
    BY <2>1, FS_Interval
  <2>3. Cardinality(1..n) <= m
    BY <1>1, <2>1, FS_Subset
  <2>4. QED
    BY <1>1, <2>1, <2>2, <2>3
<1>3. IsFiniteSet(1..m) /\ Cardinality(1..m) = m
  BY <1>1, FS_Interval
<1>4. Stale(ages) = 1..m
  BY <1>2, <1>3, FS_Subset
<1>5. \A n \in DOMAIN Fresh(ages) : Fresh(ages)[n] = ages[m + n] /\ m + n \in DOMAIN ages \ Stale(ages)
  BY <1>1, <1>4, FreshIsAges
<1>6. \A n \in DOMAIN Fresh(ages) : n \in Nat
  BY FreshIsAges
<1>7. \A n \in DOMAIN Fresh(ages) : Fresh(ages)[n] < Window
  <2>1. \A n \in DOMAIN ages \ Stale(ages) : ages[n] < Window
    BY <1>1 DEF Stale
  <2>2. QED
    BY <1>5, <2>1
<1>8. OldestFirst(Fresh(ages))
  BY <1>1, <1>5, <1>6 DEF OldestFirst
<1> HIDE DEF m
<1>9. QED
  BY <1>4, <1>7, <1>8 DEF m

LEMMA UnderWayIsFinite ==
    ASSUME NEW k
    PROVE  /\ IsFiniteSet(UnderWay(k)) /\ Cardinality(UnderWay(k)) \in Nat
           /\ Cardinality(Handlers) \in Nat
           /\ Cardinality(UnderWay(k)) <= Cardinality(Handlers)
<1>1. UnderWay(k) \in SUBSET Handlers
  BY DEF UnderWay
<1>2. QED
  BY <1>1, RateAssumption, FS_Subset, FS_CardinalityType

LEMMA RateInitInv == RateInit => RateInv
<1> SUFFICES ASSUME RateInit PROVE RateInv
  OBVIOUS
<1>1. <<>> \in Ages /\ Len(<<>>) = 0 /\ OldestFirst(<<>>)
  BY EmptySeq DEF Ages, OldestFirst
<1>2. attempts \in [Clients -> Ages] /\ \A k \in Clients : attempts[k] = <<>>
  BY <1>1 DEF RateInit
<1>3. passing \in [Handlers -> Clients \cup {NoClient}]
  BY DEF RateInit
<1>4. ASSUME NEW k \in Clients
      PROVE  Len(Fresh(attempts[k])) + Cardinality(UnderWay(k)) < Limit + Cardinality(Handlers)
  <2>1. Len(Fresh(attempts[k])) = 0
    BY <1>1, <1>2, FreshIsAges, StaleIsFinite
  <2>2. QED
    BY <2>1, UnderWayIsFinite, RateAssumption
<1>5. QED
  BY <1>1, <1>2, <1>3, <1>4 DEF RateInv, BurstIsBounded, UnderWay

\* What is forgotten, recorded or older counts as much as before, one more, or less.
LEMMA CountsAfter ==
    ASSUME NEW ages \in Ages, OldestFirst(ages)
    PROVE  /\ Len(Fresh(Fresh(ages))) <= Len(Fresh(ages))
           /\ Append(ages, 0) \in Ages /\ OldestFirst(Append(ages, 0))
           /\ Len(Fresh(Append(ages, 0))) = Len(Fresh(ages)) + 1
<1>1. Fresh(ages) \in Ages /\ Len(Fresh(ages)) \in Nat
  BY FreshIsAges
<1>2. Len(Fresh(Fresh(ages))) <= Len(Fresh(ages))
  <2>1. /\ Len(Fresh(Fresh(ages))) = Len(Fresh(ages)) - Cardinality(Stale(Fresh(ages)))
        /\ Cardinality(Stale(Fresh(ages))) \in Nat
    BY <1>1, FreshIsAges, StaleIsFinite
  <2>2. QED
    BY <1>1, <2>1
<1>3. /\ Window \in Nat \ {0} /\ Len(ages) \in Nat /\ DOMAIN ages = 1..Len(ages)
      /\ \A n \in 1..Len(ages) : ages[n] \in Nat
  BY RateAssumption, LenProperties DEF Ages
<1> DEFINE more == Append(ages, 0)
<1>4. /\ more \in Ages /\ Len(more) = Len(ages) + 1 /\ DOMAIN more = 1..(Len(ages) + 1)
      /\ \A n \in 1..Len(ages) : more[n] = ages[n]
      /\ more[Len(ages) + 1] = 0
  BY <1>3, AppendProperties, LenProperties DEF Ages
<1> HIDE DEF more
<1>5. OldestFirst(more)
  BY <1>3, <1>4 DEF OldestFirst
<1>6. Stale(more) = Stale(ages)
  BY <1>3, <1>4 DEF Stale
<1>7. Len(Fresh(more)) = Len(Fresh(ages)) + 1
  <2>1. /\ Len(Fresh(more)) = Len(more) - Cardinality(Stale(more))
        /\ Len(Fresh(ages)) = Len(ages) - Cardinality(Stale(ages))
        /\ Cardinality(Stale(ages)) \in Nat
    BY <1>4, FreshIsAges, StaleIsFinite
  <2>2. QED
    BY <1>3, <1>4, <1>6, <2>1
<1>8. QED
  BY <1>2, <1>4, <1>5, <1>7 DEF more

\* Time passes.
LEMMA OlderCount ==
    ASSUME NEW ages \in Ages, OldestFirst(ages), NEW older,
           older = [n \in DOMAIN ages |-> IF ages[n] < Window THEN ages[n] + 1 ELSE Window]
    PROVE  /\ older \in Ages /\ OldestFirst(older)
           /\ Len(Fresh(older)) <= Len(Fresh(ages))
<1>1. /\ Window \in Nat \ {0} /\ Len(ages) \in Nat /\ DOMAIN ages = 1..Len(ages)
      /\ \A n \in 1..Len(ages) : ages[n] \in 0..Window
  BY RateAssumption, LenProperties DEF Ages
<1>2. \A n \in 1..Len(ages) : older[n] \in 0..Window
  BY <1>1
<1>3. older \in Ages /\ Len(older) = Len(ages) /\ DOMAIN older = 1..Len(ages)
  <2>1. older \in [1..Len(ages) -> 0..Window]
    BY <1>1, <1>2
  <2>2. older \in Ages
    BY <1>1, <2>1, IsASeq DEF Ages
  <2>3. QED
    BY <1>1, <2>1, <2>2, LenProperties DEF Ages
<1>4. OldestFirst(older)
  BY <1>1, <1>3 DEF OldestFirst
<1>5. Stale(ages) \in SUBSET Stale(older)
  BY <1>1, <1>3 DEF Stale
<1>6. Cardinality(Stale(ages)) <= Cardinality(Stale(older))
  BY <1>3, <1>5, StaleIsFinite, FS_Subset
<1>7. /\ Len(Fresh(older)) = Len(older) - Cardinality(Stale(older))
      /\ Len(Fresh(ages)) = Len(ages) - Cardinality(Stale(ages))
      /\ Cardinality(Stale(ages)) \in Nat /\ Cardinality(Stale(older)) \in Nat
  BY <1>3, FreshIsAges, StaleIsFinite
<1>8. QED
  BY <1>1, <1>3, <1>4, <1>6, <1>7

\* Attempts that count no more than before, while nobody new is let through.
LEMMA FewerKeepsInv ==
    ASSUME RateInv, passing' = passing,
           attempts' \in [Clients -> Ages],
           \A k \in Clients : /\ OldestFirst(attempts'[k])
                              /\ Len(Fresh(attempts'[k])) <= Len(Fresh(attempts[k]))
    PROVE  RateInv'
<1>1. ASSUME NEW k \in Clients
      PROVE  Len(Fresh(attempts'[k])) + Cardinality(UnderWay(k)') < Limit + Cardinality(Handlers)
  <2>1. UnderWay(k)' = UnderWay(k)
    BY DEF UnderWay
  <2>2. Len(Fresh(attempts[k])) \in Nat /\ Len(Fresh(attempts'[k])) \in Nat
    BY FreshIsAges DEF RateInv
  <2>3. Len(Fresh(attempts[k])) + Cardinality(UnderWay(k)) < Limit + Cardinality(Handlers)
    BY DEF RateInv, BurstIsBounded, UnderWay
  <2>4. QED
    BY <2>1, <2>2, <2>3, UnderWayIsFinite, RateAssumption
<1>2. BurstIsBounded'
  BY <1>1 DEF BurstIsBounded, UnderWay, Fresh, Stale
<1>3. QED
  BY <1>2 DEF RateInv, OldestFirst

LEMMA CheckKeepsInv ==
    ASSUME RateInv, NEW h \in Handlers, NEW k \in Clients, isAllowed(h, k)
    PROVE  RateInv'
<1> DEFINE valid == Fresh(attempts[k])
<1>1. /\ attempts \in [Clients -> Ages] /\ valid \in Ages /\ OldestFirst(valid)
      /\ Len(Fresh(valid)) <= Len(valid) /\ Len(valid) \in Nat
  BY FreshIsAges, FreshAreYoung, CountsAfter DEF RateInv
<1>2. attempts' = [attempts EXCEPT ![k] = valid]
  BY DEF isAllowed
<1> HIDE DEF valid
<1>3. /\ attempts' \in [Clients -> Ages]
      /\ \A j \in Clients : attempts'[j] = IF j = k THEN valid ELSE attempts[j]
      /\ \A j \in Clients : OldestFirst(attempts'[j])
  BY <1>1, <1>2 DEF RateInv
<1>4. \A j \in Clients : Len(Fresh(attempts'[j])) <= Len(Fresh(attempts[j]))
  <2>1. \A j \in Clients : Len(Fresh(attempts[j])) \in Nat
    BY <1>1, FreshIsAges
  <2>2. QED
    BY <1>1, <1>3, <2>1 DEF valid
<1>5. CASE ~Allows(valid)
  <2>1. passing' = passing
    BY <1>5 DEF isAllowed, valid
  <2>2. QED
    BY <1>3, <1>4, <2>1, FewerKeepsInv
<1>6. CASE Allows(valid)
  <2>1. passing' = [passing EXCEPT ![h] = k] /\ passing[h] = NoClient
    BY <1>6 DEF isAllowed, valid
  <2>2. /\ passing' \in [Handlers -> Clients \cup {NoClient}]
        /\ \A g \in Handlers : passing'[g] = IF g = h THEN k ELSE passing[g]
    BY <2>1 DEF RateInv
  <2>3. \A j \in Clients \ {k} : UnderWay(j)' = UnderWay(j)
    BY <2>1, <2>2, RateAssumption DEF UnderWay
  <2>4. ASSUME NEW j \in Clients
        PROVE  Len(Fresh(attempts'[j])) + Cardinality(UnderWay(j)') < Limit + Cardinality(Handlers)
    <3>1. /\ Len(Fresh(attempts'[j])) \in Nat /\ Len(Fresh(attempts[j])) \in Nat
          /\ Len(Fresh(attempts'[j])) <= Len(Fresh(attempts[j]))
      BY <1>1, <1>3, <1>4, FreshIsAges
    <3>2. CASE j = k
      <4>1. Len(Fresh(attempts'[k])) < Limit
        BY <1>1, <1>3, <1>6, <3>1, <3>2, RateAssumption DEF Allows
      <4>2. /\ Cardinality(UnderWay(k)') <= Cardinality(Handlers)
            /\ Cardinality(UnderWay(k)') \in Nat /\ Cardinality(Handlers) \in Nat
        <5>1. UnderWay(k)' \in SUBSET Handlers
          BY DEF UnderWay
        <5>2. QED
          BY <5>1, RateAssumption, FS_Subset, FS_CardinalityType
      <4>3. QED
        BY <3>1, <3>2, <4>1, <4>2, RateAssumption
    <3>3. CASE j # k
      <4>1. Len(Fresh(attempts[j])) + Cardinality(UnderWay(j)) < Limit + Cardinality(Handlers)
        BY DEF RateInv, BurstIsBounded, UnderWay
      <4>2. UnderWay(j)' = UnderWay(j)
        BY <2>3, <3>3
      <4>3. QED
        BY <3>1, <4>1, <4>2, UnderWayIsFinite, RateAssumption
    <3>4. QED
      BY <3>2, <3>3
  <2>5. BurstIsBounded'
    BY <2>4 DEF BurstIsBounded, UnderWay, Fresh, Stale
  <2>6. QED
    BY <1>3, <2>2, <2>5 DEF RateInv, OldestFirst
<1>7. QED
  BY <1>5, <1>6

\* What is recorded was under way: the two counts change together.
LEMMA RecordKeepsInv ==
    ASSUME RateInv, NEW h \in Handlers, record(h)
    PROVE  RateInv'
<1>1. PICK k \in Clients : k = passing[h]
  BY DEF record, RateInv
<1>2. /\ attempts \in [Clients -> Ages] /\ attempts[k] \in Ages /\ OldestFirst(attempts[k])
      /\ attempts' = [attempts EXCEPT ![k] = Append(attempts[k], 0)]
      /\ passing' = [passing EXCEPT ![h] = NoClient]
  BY <1>1 DEF record, RateInv
<1>3. /\ Append(attempts[k], 0) \in Ages /\ OldestFirst(Append(attempts[k], 0))
      /\ Len(Fresh(Append(attempts[k], 0))) = Len(Fresh(attempts[k])) + 1
  BY <1>2, CountsAfter
<1>4. /\ attempts' \in [Clients -> Ages]
      /\ \A j \in Clients :
            attempts'[j] = IF j = k THEN Append(attempts[k], 0) ELSE attempts[j]
      /\ \A j \in Clients : OldestFirst(attempts'[j])
  BY <1>2, <1>3 DEF RateInv
<1>5. /\ passing' \in [Handlers -> Clients \cup {NoClient}]
      /\ \A g \in Handlers : passing'[g] = IF g = h THEN NoClient ELSE passing[g]
  BY <1>2 DEF RateInv
<1>6. /\ UnderWay(k)' = UnderWay(k) \ {h} /\ h \in UnderWay(k)
      /\ \A j \in Clients \ {k} : UnderWay(j)' = UnderWay(j)
  BY <1>1, <1>5, RateAssumption DEF UnderWay
<1>7. Cardinality(UnderWay(k)') = Cardinality(UnderWay(k)) - 1
  BY <1>6, UnderWayIsFinite, FS_RemoveElement
<1>8. ASSUME NEW j \in Clients
      PROVE  Len(Fresh(attempts'[j])) + Cardinality(UnderWay(j)') < Limit + Cardinality(Handlers)
  <2>1. /\ Len(Fresh(attempts[j])) + Cardinality(UnderWay(j)) < Limit + Cardinality(Handlers)
        /\ Len(Fresh(attempts[j])) \in Nat /\ Cardinality(UnderWay(j)) \in Nat
    BY <1>2, FreshIsAges, UnderWayIsFinite DEF RateInv, BurstIsBounded, UnderWay
  <2>2. CASE j = k
    <3>1. attempts'[j] = Append(attempts[k], 0) /\ UnderWay(j)' = UnderWay(k)'
      BY <1>4, <2>2
    <3>2. Len(Fresh(attempts'[j])) = Len(Fresh(attempts[j])) + 1
      BY <1>3, <2>2, <3>1
    <3>3. Cardinality(UnderWay(j)') = Cardinality(UnderWay(j)) - 1
      BY <1>7, <2>2, <3>1
    <3>4. QED
      BY <2>1, <3>2, <3>3, UnderWayIsFinite, RateAssumption
  <2>3. CASE j # k
    <3>1. UnderWay(j)' = UnderWay(j) /\ attempts'[j] = attempts[j]
      BY <1>4, <1>6, <2>3
    <3>2. QED
      BY <2>1, <3>1
  <2>4. QED
    BY <2>2, <2>3
<1>9. BurstIsBounded'
  BY <1>8 DEF BurstIsBounded, UnderWay, Fresh, Stale
<1>10. QED
  BY <1>4, <1>5, <1>9 DEF RateInv, OldestFirst

LEMMA RateNextKeepsInv == RateInv /\ [RateNext]_rateVars => RateInv'
<1> SUFFICES ASSUME RateInv, [RateNext]_rateVars PROVE RateInv'
  OBVIOUS
<1>1. attempts \in [Clients -> Ages] /\ \A k \in Clients : OldestFirst(attempts[k])
  BY DEF RateInv
<1>2. ASSUME NEW h \in Handlers, NEW k \in Clients, isAllowed(h, k) PROVE RateInv'
  BY <1>2, CheckKeepsInv
<1>3. ASSUME NEW h \in Handlers, record(h) PROVE RateInv'
  BY <1>3, RecordKeepsInv
<1>4. CASE prune
  <2>1. \A k \in Clients : /\ Fresh(attempts[k]) \in Ages /\ OldestFirst(Fresh(attempts[k]))
                           /\ Len(Fresh(Fresh(attempts[k]))) <= Len(Fresh(attempts[k]))
    BY <1>1, FreshIsAges, FreshAreYoung, CountsAfter
  <2>2. passing' = passing /\ attempts' = [k \in Clients |-> Fresh(attempts[k])]
    BY <1>4 DEF prune
  <2>3. QED
    BY <2>1, <2>2, FewerKeepsInv
<1>5. CASE Age
  <2>1. /\ passing' = passing /\ DOMAIN attempts' = Clients
        /\ attempts' = [k \in Clients |-> attempts'[k]]
        /\ \A k \in Clients : attempts'[k] =
               [n \in DOMAIN attempts[k] |->
                   IF attempts[k][n] < Window THEN attempts[k][n] + 1 ELSE Window]
    BY <1>5 DEF Age
  <2>2. \A k \in Clients : /\ attempts'[k] \in Ages /\ OldestFirst(attempts'[k])
                           /\ Len(Fresh(attempts'[k])) <= Len(Fresh(attempts[k]))
    BY <1>1, <2>1, OlderCount
  <2>3. attempts' \in [Clients -> Ages]
    BY <2>1, <2>2
  <2>4. QED
    BY <2>1, <2>2, <2>3, FewerKeepsInv
<1>6. CASE UNCHANGED rateVars
  BY <1>6 DEF rateVars, RateInv, BurstIsBounded, OldestFirst, Fresh, Stale
<1>7. QED
  BY <1>2, <1>3, <1>4, <1>5, <1>6 DEF RateNext

\* The recorded attempts of a client are in the order of time, and those within the
\* window together with the requests that were let through and are not recorded yet stay
\* below the limit and the number of requests the server runs at once
\* (middleware/rate_limit.go).
THEOREM BurstStaysBounded == RateSpec => []BurstIsBounded
<1>1. RateSpec => []RateInv
  BY RateInitInv, RateNextKeepsInv, PTL DEF RateSpec
<1>2. RateInv => BurstIsBounded
  BY DEF RateInv
<1>3. QED
  BY <1>1, <1>2, PTL
-----------------------------------------------------------------------------
(* Migrator: the repair of duplicate installments                          *)

\* One repair at a time; of every row it has deleted an earlier one stays.
RepairInv ==
    /\ repayRows \subseteq Repayments
    /\ uniqueIndex \in BOOLEAN
    /\ repairing \in [Operators -> SUBSET repayRows]
    /\ \A o, other \in Operators : repairing[o] # {} /\ repairing[other] # {} => o = other
    /\ \A o \in Operators : \A q \in repairing[o] : \E p \in repayRows \ repairing[o] : Earlier(p, q)
    /\ removed \subseteq Repayments
    /\ EarliestIsKept

\* The order of the rows of a group is well-founded: numbers have a least one.
LEMMA LeastNumber ==
    ASSUME NEW T, T \subseteq Nat, T # {}
    PROVE  \E x \in T : \A y \in T : x <= y
<1> DEFINE Less == {ss \in Nat \X Nat : ss[1] < ss[2]}
<1>1. IsWellFoundedOn(Less, Nat)
  BY NatLessThanWellFounded DEF OpToRel
<1>2. PICK x \in T : \A y \in T : <<y, x>> \notin Less
  <2> HIDE DEF Less
  <2>1. QED
    BY <1>1, WFMin
<1>3. ASSUME NEW y \in T PROVE x <= y
  <2>1. x \in Nat /\ y \in Nat
    OBVIOUS
  <2>2. y < x => <<y, x>> \in Less
    BY <2>1
  <2>3. QED
    BY <1>2, <2>1, <2>2
<1>4. QED
  BY <1>3

LEMMA EarlierIsTransitive ==
    ASSUME NEW p \in Repayments, NEW q \in Repayments, NEW r \in Repayments,
           Earlier(p, q), Earlier(q, r)
    PROVE  Earlier(p, r)
BY MigratorAssumption DEF Earlier

\* Whatever the DELETE finds is later than a row that it leaves.
LEMMA DuplicateOfKept ==
    ASSUME NEW rows, rows \subseteq Repayments, NEW q \in Duplicates(rows)
    PROVE  \E p \in rows \ Duplicates(rows) : Earlier(p, q)
<1>1. q \in rows
  BY DEF Duplicates
<1> DEFINE group == {p \in rows : p.group = q.group}
           times == {p.created : p \in group}
<1>2. times # {} /\ times \subseteq Nat
  BY <1>1, MigratorAssumption
<1>3. PICK c \in times : \A t \in times : c <= t
  BY <1>2, LeastNumber
<1> DEFINE first == {p \in group : p.created = c}
           ids == {p.id : p \in first}
<1>4. ids # {} /\ ids \subseteq Nat
  BY <1>3, MigratorAssumption
<1>5. PICK i \in ids : \A j \in ids : i <= j
  BY <1>4, LeastNumber
<1>6. PICK p \in first : p.id = i
  BY <1>5
<1>7. p \in rows /\ p.group = q.group /\ p.created = c
  BY <1>6
<1>8. ASSUME NEW r \in rows PROVE ~Earlier(r, p)
  <2>1. CASE r.group # q.group
    BY <1>7, <2>1 DEF Earlier
  <2>2. CASE r.group = q.group
    <3>1. c <= r.created /\ (r.created = c => i <= r.id)
      BY <1>3, <1>5, <2>2
    <3>2. QED
      BY <1>6, <1>7, <3>1, MigratorAssumption DEF Earlier
  <2>3. QED
    BY <2>1, <2>2
<1>9. p \notin Duplicates(rows)
  BY <1>8 DEF Duplicates
<1>10. Earlier(p, q)
  <2>1. p # q
    BY <1>9
  <2>2. c <= q.created /\ (q.created = c => i <= q.id)
    BY <1>1, <1>3, <1>5
  <2>3. p.id # q.id
    BY <1>1, <1>7, <2>1, MigratorAssumption
  <2>4. QED
    BY <1>1, <1>6, <1>7, <2>2, <2>3, MigratorAssumption DEF Earlier
<1>11. QED
  BY <1>7, <1>9, <1>10

\* Two rows of a group are never equal in time and identifier.
LEMMA NoDuplicatesNoPairs ==
    ASSUME NEW rows, rows \subseteq Repayments, Duplicates(rows) = {},
           NEW p \in rows, NEW q \in rows, p # q
    PROVE  p.group # q.group
BY MigratorAssumption DEF Duplicates, Earlier

LEMMA RepairInitInv == RepairInit => RepairInv
BY DEF RepairInit, RepairInv, EarliestIsKept

LEMMA CommitKeepsInv ==
    ASSUME RepairInv, NEW o \in Operators, CommitRepair(o)
    PROVE  RepairInv'
<1> DEFINE gone == repairing[o]
<1>1. /\ repayRows' = repayRows \ gone /\ removed' = removed \cup gone /\ uniqueIndex' = TRUE
      /\ repairing' = [repairing EXCEPT ![o] = {}] /\ gone # {} /\ Duplicates(repayRows \ gone) = {}
  BY DEF CommitRepair, CreateIndex
<1>2. gone \subseteq repayRows /\ repayRows \subseteq Repayments
  BY DEF RepairInv
<1>3. \A other \in Operators : repairing'[other] = {}
  BY <1>1 DEF RepairInv
<1>4. repairing' \in [Operators -> SUBSET repayRows']
  BY <1>1, <1>3 DEF RepairInv
<1>5. ASSUME NEW q \in removed' PROVE \E p \in repayRows' : Earlier(p, q)
  <2>1. PICK p \in repayRows : Earlier(p, q) /\ (q \in gone => p \notin gone)
    BY <1>1, <1>5 DEF RepairInv, EarliestIsKept
  <2>2. CASE p \notin gone
    BY <1>1, <2>1, <2>2
  <2>3. CASE p \in gone
    <3>1. PICK kept \in repayRows \ gone : Earlier(kept, p)
      BY <2>3 DEF RepairInv
    <3>2. q \in Repayments
      BY <1>1, <1>2, <1>5 DEF RepairInv
    <3>3. Earlier(kept, q)
      BY <1>2, <2>1, <3>1, <3>2, EarlierIsTransitive
    <3>4. QED
      BY <1>1, <3>1, <3>3
  <2>4. QED
    BY <2>2, <2>3
<1>6. \A p, q \in repayRows' : p # q => p.group # q.group
  BY <1>1, <1>2, NoDuplicatesNoPairs
<1>7. EarliestIsKept'
  BY <1>5, <1>6 DEF EarliestIsKept, Earlier
<1>8. QED
  BY <1>1, <1>2, <1>3, <1>4, <1>7 DEF RepairInv

LEMMA RepairNextKeepsInv == RepairInv /\ [RepairNext]_repairVars => RepairInv'
<1> SUFFICES ASSUME RepairInv, [RepairNext]_repairVars PROVE RepairInv'
  OBVIOUS
<1>1. ASSUME NEW p \in Repayments, InsertRepayment(p) PROVE RepairInv'
  <2>1. /\ repayRows' = repayRows \cup {p} /\ UNCHANGED <<uniqueIndex, repairing, removed>>
        /\ uniqueIndex => \A q \in repayRows : q.group # p.group
    BY <1>1 DEF InsertRepayment
  <2>2. EarliestIsKept'
    BY <2>1 DEF RepairInv, EarliestIsKept, Earlier
  <2>3. repairing' \in [Operators -> SUBSET repayRows']
    BY <2>1 DEF RepairInv
  <2>4. ASSUME NEW o \in Operators, NEW q \in repairing'[o]
        PROVE  \E first \in repayRows' \ repairing'[o] : Earlier(first, q)
    <3>1. PICK first \in repayRows \ repairing[o] : Earlier(first, q)
      BY <2>1, <2>4 DEF RepairInv
    <3>2. QED
      BY <2>1, <3>1
  <2>5. QED
    BY <2>1, <2>2, <2>3, <2>4 DEF RepairInv, Earlier
<1>2. CASE EnsureIndex
  <2>1. /\ uniqueIndex' = TRUE /\ Duplicates(repayRows) = {}
        /\ UNCHANGED <<repayRows, repairing, removed>>
    BY <1>2 DEF EnsureIndex, CreateIndex
  <2>2. \A p, q \in repayRows : p # q => p.group # q.group
    BY <2>1, NoDuplicatesNoPairs DEF RepairInv
  <2>3. QED
    BY <2>1, <2>2 DEF RepairInv, EarliestIsKept, Earlier
<1>3. ASSUME NEW o \in Operators, BeginRepair(o) PROVE RepairInv'
  <2>1. /\ repairing' = [repairing EXCEPT ![o] = Duplicates(repayRows)]
        /\ \A other \in Operators : repairing[other] = {}
        /\ UNCHANGED <<repayRows, uniqueIndex, removed>>
    BY <1>3 DEF BeginRepair
  <2>2. /\ repairing' \in [Operators -> SUBSET repayRows]
        /\ \A other \in Operators :
              repairing'[other] = IF other = o THEN Duplicates(repayRows) ELSE {}
    BY <2>1 DEF RepairInv, Duplicates
  <2>3. \A q \in Duplicates(repayRows) : \E p \in repayRows \ Duplicates(repayRows) : Earlier(p, q)
    BY DuplicateOfKept DEF RepairInv
  <2>4. QED
    BY <2>1, <2>2, <2>3 DEF RepairInv, EarliestIsKept, Earlier
<1>4. ASSUME NEW o \in Operators, CommitRepair(o) PROVE RepairInv'
  BY <1>4, CommitKeepsInv
<1>5. ASSUME NEW o \in Operators, RollBackRepair(o) PROVE RepairInv'
  <2>1. /\ repairing' = [repairing EXCEPT ![o] = {}]
        /\ UNCHANGED <<repayRows, uniqueIndex, removed>>
    BY <1>5 DEF RollBackRepair
  <2>2. /\ repairing' \in [Operators -> SUBSET repayRows]
        /\ \A other \in Operators :
              repairing'[other] = IF other = o THEN {} ELSE repairing[other]
    BY <2>1 DEF RepairInv
  <2>3. QED
    BY <2>1, <2>2 DEF RepairInv, EarliestIsKept, Earlier
<1>6. CASE UNCHANGED repairVars
  BY <1>6 DEF repairVars, RepairInv, EarliestIsKept, Earlier
<1>7. QED
  BY <1>1, <1>2, <1>3, <1>4, <1>5, <1>6 DEF RepairNext

\* Whatever is inserted beside the repairs, a removed installment is a later duplicate of
\* one that is left, and under the unique index no duplicates are (database/repair.go).
THEOREM EarliestStays == RepairSpec => []EarliestIsKept
<1>1. RepairSpec => []RepairInv
  BY RepairInitInv, RepairNextKeepsInv, PTL DEF RepairSpec
<1>2. RepairInv => EarliestIsKept
  BY DEF RepairInv
<1>3. QED
  BY <1>1, <1>2, PTL
-----------------------------------------------------------------------------
(* Migrator: the migrations                                                *)

Files == UNION {{r[n] : n \in DOMAIN r} : r \in Releases}

\* A command that runs with a release: the records it read are still there, and what is
\* recorded of the versions it has passed is what its release says.
CommandInv(c) ==
    /\ c \in [release : Releases, upTo : Nat, applied : Seq(Files), next : Nat \ {0}]
    /\ \A v \in DOMAIN c.applied : v \in DOMAIN tracked /\ tracked[v] = c.applied[v]
    /\ \A v \in 1..(c.next - 1) : v \in DOMAIN tracked /\ tracked[v] = c.release[v]

MigratorInv ==
    /\ schema \in Seq([version : Nat, file : Files])
    /\ tracked \in Seq(Files)
    /\ serving \subseteq Releases
    /\ \A r \in serving : VerifyUpToDate(r)
    /\ operator = [o \in Operators |-> operator[o]]
    /\ \A o \in Operators : operator[o] = IdleOperator \/ CommandInv(operator[o])
    /\ AppliedAsReleased

LEMMA MigratorInitInv == MigratorInit => MigratorInv
<1> SUFFICES ASSUME MigratorInit PROVE MigratorInv
  OBVIOUS
<1>1. schema = <<>> /\ serving = {} /\ operator = [o \in Operators |-> IdleOperator]
  BY DEF MigratorInit
<1>2. tracked = <<>>
  <2>1. tracked \in [1..0 -> Files]
    BY DEF MigratorInit, NoRecords
  <2>2. QED
    BY <2>1, EmptySeq
<1>3. DOMAIN schema = {} /\ DOMAIN tracked = {}
  BY <1>1, <1>2, EmptySeq
<1>4. AppliedAsReleased
  BY <1>1, <1>3 DEF AppliedAsReleased
<1>5. QED
  BY <1>1, <1>2, <1>4, EmptySeq DEF MigratorInv

\* A step of a command that leaves the schema and the records alone.
LEMMA CommandStepKeepsInv ==
    ASSUME MigratorInv, NEW o \in Operators, NEW c,
           c = IdleOperator \/ CommandInv(c),
           operator' = [operator EXCEPT ![o] = c],
           UNCHANGED <<schema, tracked, serving>>
    PROVE  MigratorInv'
<1>1. /\ operator' = [p \in Operators |-> operator'[p]]
      /\ \A p \in Operators : operator'[p] = IF p = o THEN c ELSE operator[p]
  BY DEF MigratorInv
<1>2. \A p \in Operators : operator'[p] = IdleOperator \/ CommandInv(operator'[p])
  BY <1>1 DEF MigratorInv
<1>3. \A p \in Operators : CommandInv(operator'[p]) = CommandInv(operator[p])' 
  BY DEF CommandInv
<1>4. AppliedAsReleased' /\ \A r \in serving : VerifyUpToDate(r)'
  BY DEF MigratorInv, AppliedAsReleased, VerifyUpToDate
<1>5. QED
  BY <1>1, <1>2, <1>3, <1>4 DEF MigratorInv, IdleOperator

\* The command is at a version that its release has.
LEMMA FileOfRelease ==
    ASSUME MigratorInv, NEW o \in Operators, Running(o), ~Done(o)
    PROVE  /\ CommandInv(operator[o])
           /\ operator[o].next \in DOMAIN operator[o].release
           /\ File(o) \in Files
<1>1. CommandInv(operator[o])
  BY MigratorAssumption DEF MigratorInv, Running, IdleOperator
<1>2. operator[o].release \in Releases /\ operator[o].next \in Nat \ {0}
  BY <1>1 DEF CommandInv
<1>3. operator[o].next \in DOMAIN operator[o].release
  BY <1>2, MigratorAssumption DEF Done, CommandInv
<1>4. QED
  BY <1>1, <1>2, <1>3 DEF File, Files

LEMMA SkipKeepsInv ==
    ASSUME MigratorInv, NEW o \in Operators, SkipApplied(o)
    PROVE  MigratorInv'
<1>1. /\ CommandInv(operator[o]) /\ operator[o].next \in DOMAIN operator[o].applied
      /\ operator[o].applied[operator[o].next] = File(o)
      /\ operator' = [operator EXCEPT ![o].next = @ + 1]
      /\ UNCHANGED <<schema, tracked, serving>>
  BY FileOfRelease DEF SkipApplied, Known
<1> DEFINE c == [operator[o] EXCEPT !.next = @ + 1]
<1>2. operator' = [operator EXCEPT ![o] = c]
  BY <1>1 DEF MigratorInv
<1>3. /\ c \in [release : Releases, upTo : Nat, applied : Seq(Files), next : Nat \ {0}]
      /\ c.release = operator[o].release /\ c.applied = operator[o].applied
      /\ c.next = operator[o].next + 1 /\ operator[o].next \in Nat
  BY <1>1 DEF CommandInv
<1> HIDE DEF c
<1>4. ASSUME NEW v \in 1..(c.next - 1) PROVE v \in DOMAIN tracked /\ tracked[v] = c.release[v]
  <2>1. CASE v = operator[o].next
    BY <1>1, <1>3, <2>1 DEF CommandInv, File
  <2>2. CASE v # operator[o].next
    <3>1. v \in 1..(operator[o].next - 1)
      BY <1>3, <2>2
    <3>2. QED
      BY <1>1, <1>3, <3>1 DEF CommandInv
  <2>3. QED
    BY <2>1, <2>2
<1>5. CommandInv(c)
  BY <1>1, <1>3, <1>4 DEF CommandInv
<1>6. QED
  BY <1>1, <1>2, <1>5, CommandStepKeepsInv

\* A file is applied at the version after those in the schema, on top of what its release
\* says of them; what others have read or verified stays true of the records.
LEMMA ApplyKeepsInv ==
    ASSUME MigratorInv, NEW o \in Operators, ApplyFile(o)
    PROVE  MigratorInv'
<1>1. PICK n : n = operator[o].next
  OBVIOUS
<1>2. PICK release : release = operator[o].release
  OBVIOUS
<1>3. PICK file : file = File(o)
  OBVIOUS
<1>4. PICK len : len = Len(schema)
  OBVIOUS
<1>5. /\ CommandInv(operator[o]) /\ n \in DOMAIN release /\ file \in Files /\ file = release[n]
      /\ release \in Releases /\ n \in Nat \ {0}
  BY <1>1, <1>2, <1>3, FileOfRelease DEF ApplyFile, CommandInv, File
<1>6. /\ n \notin DOMAIN tracked
      /\ schema' = Append(schema, [version |-> n, file |-> file])
      /\ tracked' = [v \in DOMAIN tracked \cup {n} |-> IF v = n THEN file ELSE tracked[v]]
      /\ operator' = [operator EXCEPT ![o].next = @ + 1]
      /\ serving' = serving
  BY <1>1, <1>3 DEF ApplyFile
<1>7. len \in Nat /\ DOMAIN schema = 1..len /\ DOMAIN tracked = 1..len
  BY <1>4, LenProperties DEF MigratorInv, AppliedAsReleased
<1>8. \A v \in 1..(n - 1) : v \in DOMAIN tracked /\ tracked[v] = release[v]
  BY <1>1, <1>2, <1>5 DEF CommandInv
<1>9. n = len + 1
  <2>1. n \in Nat /\ n > len
    BY <1>5, <1>6, <1>7
  <2>2. n > len + 1 => len + 1 \in 1..(n - 1) /\ len + 1 \notin 1..len
    BY <1>7, <2>1
  <2>3. QED
    BY <1>7, <1>8, <2>1, <2>2
<1> DEFINE new == [version |-> n, file |-> file]
<1>10. new \in [version : Nat, file : Files] /\ new.version = n /\ new.file = file
  BY <1>5
<1> HIDE DEF new
<1>11. /\ schema' \in Seq([version : Nat, file : Files]) /\ DOMAIN schema' = 1..n
       /\ schema'[n] = new /\ \A v \in 1..len : schema'[v] = schema[v]
  <2>1. schema \in Seq([version : Nat, file : Files]) /\ schema' = Append(schema, new)
    BY <1>6 DEF MigratorInv, new
  <2>2. QED
    BY <1>4, <1>7, <1>9, <1>10, <2>1, AppendProperties, LenProperties
<1>12. /\ DOMAIN tracked' = 1..n /\ tracked'[n] = file
       /\ \A v \in 1..len : tracked'[v] = tracked[v]
       /\ tracked' \in Seq(Files)
  <2>1. 1..len \cup {n} = 1..n
    BY <1>7, <1>9
  <2>2. tracked' = [v \in 1..n |-> IF v = n THEN file ELSE tracked[v]]
    BY <1>6, <1>7, <2>1
  <2>3. \A v \in 1..len : tracked[v] \in Files
    BY <1>7, ElementOfSeq, LenProperties DEF MigratorInv
  <2>4. tracked' \in [1..n -> Files]
    BY <1>5, <1>7, <1>9, <2>2, <2>3
  <2>5. tracked' \in Seq(Files)
    BY <1>5, <2>4, IsASeq
  <2>6. QED
    BY <1>7, <1>9, <2>2, <2>5
<1>13. \A v \in DOMAIN tracked : v \in DOMAIN tracked' /\ tracked'[v] = tracked[v]
  BY <1>7, <1>9, <1>12
<1>14. \A r \in serving' : VerifyUpToDate(r)'
  <2>1. \A r \in serving : VerifyUpToDate(r)
    BY DEF MigratorInv
  <2>2. QED
    BY <1>6, <1>13, <2>1 DEF VerifyUpToDate
<1>15. AppliedAsReleased'
  <2>1. /\ \A m \in 1..len : schema[m].version = m
        /\ \A v \in 1..len : tracked[v] = schema[v].file
        /\ \A m \in 1..len : \E r \in Releases :
              \A v \in 1..m : v \in DOMAIN r /\ r[v] = schema[v].file
    BY <1>7 DEF MigratorInv, AppliedAsReleased
  <2>2. \A m \in 1..n : schema'[m].version = m /\ tracked'[m] = schema'[m].file
    BY <1>7, <1>9, <1>10, <1>11, <1>12, <2>1
  <2>3. ASSUME NEW m \in 1..n
        PROVE  \E r \in Releases : \A v \in 1..m : v \in DOMAIN r /\ r[v] = schema'[v].file
    <3>1. CASE m = n
      <4>1. \A v \in 1..n : v \in DOMAIN release /\ release[v] = tracked'[v]
        <5>1. DOMAIN release = 1..Len(release) /\ Len(release) \in Nat
          BY <1>5, MigratorAssumption
        <5>2. \A v \in 1..n : v \in DOMAIN release
          BY <1>5, <5>1
        <5>3. QED
          BY <1>5, <1>7, <1>8, <1>9, <1>12, <5>2
      <4>2. QED
        BY <1>5, <2>2, <3>1, <4>1
    <3>2. CASE m # n
      <4>1. m \in 1..len
        BY <1>7, <1>9, <3>2
      <4>2. PICK r \in Releases : \A v \in 1..m : v \in DOMAIN r /\ r[v] = schema[v].file
        BY <2>1, <4>1
      <4>3. \A v \in 1..m : schema'[v] = schema[v]
        BY <1>7, <1>11, <4>1
      <4>4. QED
        BY <4>2, <4>3
    <3>3. QED
      BY <3>1, <3>2
  <2>4. \A r \in serving' : \A v \in 1..Len(r) : tracked'[v] = r[v]
    BY <1>14 DEF VerifyUpToDate
  <2>5. QED
    BY <1>11, <1>12, <2>2, <2>3, <2>4 DEF AppliedAsReleased
<1> DEFINE c == [operator[o] EXCEPT !.next = @ + 1]
<1>16. /\ operator' = [p \in Operators |-> operator'[p]]
       /\ \A p \in Operators : operator'[p] = IF p = o THEN c ELSE operator[p]
  BY <1>6 DEF MigratorInv
<1>17. /\ c \in [release : Releases, upTo : Nat, applied : Seq(Files), next : Nat \ {0}]
       /\ c.release = release /\ c.applied = operator[o].applied /\ c.next = n + 1
  BY <1>1, <1>2, <1>5 DEF CommandInv
<1> HIDE DEF c
<1>18. ASSUME NEW p \in Operators
       PROVE  operator'[p] = IdleOperator \/ CommandInv(operator[p])'
  <2>1. CASE p = o
    <3>1. \A v \in DOMAIN c.applied : v \in DOMAIN tracked' /\ tracked'[v] = c.applied[v]
      BY <1>5, <1>13, <1>17 DEF CommandInv
    <3>2. \A v \in 1..(c.next - 1) : v \in DOMAIN tracked' /\ tracked'[v] = c.release[v]
      <4>1. \A v \in 1..n : v \in 1..(n - 1) \/ v = n
        BY <1>5
      <4>2. c.next - 1 = n
        BY <1>5, <1>17
      <4>3. n \in DOMAIN tracked'
        BY <1>5, <1>12
      <4>4. QED
        BY <1>5, <1>8, <1>12, <1>13, <1>17, <4>1, <4>2, <4>3
    <3>3. operator'[p] = c
      BY <1>16, <2>1
    <3>4. QED
      BY <1>17, <3>1, <3>2, <3>3 DEF CommandInv
  <2>2. CASE p # o
    <3>1. operator'[p] = operator[p]
      BY <1>16, <2>2
    <3>2. CASE operator[p] = IdleOperator
      BY <3>1, <3>2
    <3>3. CASE CommandInv(operator[p])
      BY <1>13, <3>1, <3>3 DEF CommandInv
    <3>4. QED
      BY <3>2, <3>3 DEF MigratorInv
  <2>3. QED
    BY <2>1, <2>2
<1>19. QED
  BY <1>6, <1>11, <1>12, <1>14, <1>15, <1>16, <1>18 DEF MigratorInv, IdleOperator

LEMMA MigratorNextKeepsInv == MigratorInv /\ [MigratorNext]_migratorVars => MigratorInv'
<1> SUFFICES ASSUME MigratorInv, [MigratorNext]_migratorVars PROVE MigratorInv'
  OBVIOUS
<1>1. ASSUME NEW o \in Operators, NEW r \in Releases, NEW n \in 1..Len(r), MigrateUpTo(o, r, n)
      PROVE  MigratorInv'
  <2> DEFINE c == [release |-> r, upTo |-> n, applied |-> tracked, next |-> 1]
  <2>1. n \in Nat
    BY MigratorAssumption
  <2>2. CommandInv(c)
    BY <2>1 DEF CommandInv, MigratorInv
  <2>3. QED
    BY <1>1, <2>2, CommandStepKeepsInv DEF MigrateUpTo
<1>2. ASSUME NEW o \in Operators, SkipApplied(o) PROVE MigratorInv'
  BY <1>2, SkipKeepsInv
<1>3. ASSUME NEW o \in Operators, ApplyFile(o) PROVE MigratorInv'
  BY <1>3, ApplyKeepsInv
<1>4. ASSUME NEW o \in Operators, EndCommand(o) PROVE MigratorInv'
  BY <1>4, CommandStepKeepsInv DEF EndCommand, Stop
<1>5. ASSUME NEW r \in Releases, StartServer(r) \/ StopServer(r) PROVE MigratorInv'
  <2>1. /\ UNCHANGED <<schema, tracked, operator>> /\ serving' \subseteq Releases
        /\ \A s \in serving' : VerifyUpToDate(s)
    BY <1>5 DEF StartServer, StopServer, MigratorInv
  <2>2. \A s \in serving' : VerifyUpToDate(s)'
    BY <2>1 DEF VerifyUpToDate
  <2>3. AppliedAsReleased'
    BY <2>1 DEF MigratorInv, AppliedAsReleased, VerifyUpToDate
  <2>4. QED
    BY <2>1, <2>2, <2>3 DEF MigratorInv, CommandInv, IdleOperator
<1>6. CASE UNCHANGED migratorVars
  BY <1>6 DEF migratorVars, MigratorInv, CommandInv, IdleOperator, VerifyUpToDate, AppliedAsReleased
<1>7. QED
  BY <1>1, <1>2, <1>3, <1>4, <1>5, <1>6 DEF MigratorNext

\* With any number of operators and releases, the applied files are the tracked ones, in
\* order and once each, every one was applied on top of the files of a release that has
\* it there, and servers run on their own schema (database/migrator.go).
THEOREM SchemaIsAsReleased == MigratorSpec => []AppliedAsReleased
<1>1. MigratorSpec => []MigratorInv
  BY MigratorInitInv, MigratorNextKeepsInv, PTL DEF MigratorSpec
<1>2. MigratorInv => AppliedAsReleased
  BY DEF MigratorInv
<1>3. QED
  BY <1>1, <1>2, PTL
=============================================================================
