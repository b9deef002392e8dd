---------------------------- MODULE RecordsProofs ----------------------------
(***************************************************************************)
(* Theorems about the records of the server, for any tables, rows, people, *)
(* amounts and overlapping requests: aid requests (AidRequests), the       *)
(* registry of the other tables (Registry), the lists of them all          *)
(* (Listings), and the reports and dashboards that count them (Reports).   *)
(***************************************************************************)
EXTENDS AidRequests, Registry, Listings, Reports, FiniteSetTheorems, WellFoundedInduction,
        TLAPS

(***************************************************************************)
(* Aid requests.  A Save stores whatever row its request holds, so the     *)
(* inductive invariant asks of the held rows what the properties ask of    *)
(* the stored ones: together they are a rule about single rows, and each   *)
(* operation computes a row that keeps the rule from one that does.        *)
(***************************************************************************)

\* The rule about single rows.
Sound(row) ==
    /\ Granted(row) => /\ row.approved \in 1..row.requested
                       /\ row.requested = row.read
    /\ row.status \in {"Pending", "Under Review", "Rejected"} => row.approved = 0
    /\ Granted(row) \/ row.status = "Rejected" =>
           row.decider \in Reviewers \ {row.createdBy}

AidInv ==
    /\ AidTypeOK
    /\ \A r \in Aids : aids[r].live => aids[r].status # "None"
    /\ \A r \in Aids : Sound(aids[r])
    /\ \A c \in AidCalls : Sound(aidCall[c].row)

-----------------------------------------------------------------------------
(* What the operations make of a row                                       *)

LEMMA NoAidSound ==
    NoAid \in AidRow /\ Sound(NoAid) /\ IdleAidCall \in AidCall /\ IdleAidCall.op = "idle"
        /\ IdleAidCall.row = NoAid
BY DEF NoAid, AidRow, Sound, Granted, IdleAidCall, AidCall

\* A new request is complete and sound.
LEMMA NewAidSound ==
    ASSUME NEW u \in Users, NEW a \in Amounts, NEW row,
           row = [NoAid EXCEPT !.status = "Pending", !.live = TRUE,
                               !.createdBy = u, !.requested = a]
    PROVE  row \in AidRow /\ CompleteAid(row) /\ Sound(row)
BY DEF NoAid, AidRow, AidStatuses, CompleteAid, Sound, Granted

\* Editing the amount of an undecided request keeps it so.
LEMMA EditedSound ==
    ASSUME NEW old \in AidRow, CompleteAid(old), Sound(old), old.status \in Editable,
           NEW a \in Amounts, NEW row, row = [old EXCEPT !.requested = a]
    PROVE  row \in AidRow /\ CompleteAid(row) /\ Sound(row)
BY DEF AidRow, CompleteAid, Sound, Granted, Editable

\* Cancelling asks nothing of the amounts.
LEMMA CancelledSound ==
    ASSUME NEW old \in AidRow, CompleteAid(old), NEW row,
           row = [old EXCEPT !.status = "Cancelled"]
    PROVE  row \in AidRow /\ CompleteAid(row) /\ Sound(row)
BY DEF AidRow, AidStatuses, CompleteAid, Sound, Granted

\* Soft-deleting a row leaves its other columns.
LEMMA HiddenSound ==
    ASSUME NEW old \in AidRow, Sound(old)
    PROVE  LET gone == [old EXCEPT !.live = FALSE] IN
           /\ gone \in AidRow /\ ~gone.live /\ gone.status = old.status
           /\ CompleteAid(old) => CompleteAid(gone)
           /\ Sound(gone)
<1> DEFINE gone == [old EXCEPT !.live = FALSE]
<1>1. /\ gone \in AidRow /\ ~gone.live /\ gone.status = old.status
      /\ gone.createdBy = old.createdBy /\ gone.requested = old.requested
      /\ gone.approved = old.approved /\ gone.decider = old.decider
      /\ gone.read = old.read
  BY DEF AidRow
<1> HIDE DEF gone
<1>2. (CompleteAid(old) => CompleteAid(gone)) /\ Sound(gone)
  BY <1>1 DEF CompleteAid, Sound, Granted
<1>3. QED
  BY <1>1, <1>2 DEF gone

\* A review along the chain of statuses, by one who may decide, of an amount
\* that is asked for, makes a sound row.
LEMMA ReviewedSound ==
    ASSUME NEW old \in AidRow, CompleteAid(old), Sound(old),
           NEW u \in Reviewers, NEW s \in AidStatuses, NEW a \in Amounts,
           <<old.status, s>> \in AidTransitions, MayDecide(u, old, s), Affordable(old, s, a),
           NEW row, row = Reviewed(old, u, s, a)
    PROVE  row \in AidRow /\ CompleteAid(row) /\ Sound(row)
<1>1. row.status = s /\ row.createdBy = old.createdBy /\ row.requested = old.requested
  BY DEF Reviewed, AidRow
<1>2. \A n \in Amounts : n \in Nat /\ 1 <= n
  BY AidAssumption, PeopleAssumption
<1>3. u \in Users /\ a \in Nat /\ 1 <= a /\ old.requested \in Nat
  BY <1>2, AidAssumption, PeopleAssumption DEF CompleteAid
<1>4. row \in AidRow
  BY <1>3 DEF Reviewed, AidRow
<1>5. CompleteAid(row)
  BY <1>1 DEF CompleteAid
<1> SUFFICES Sound(row)
  BY <1>4, <1>5
<1>6. CASE s = "Approved"
  <2>1. row.approved = a /\ row.read = old.requested /\ row.decider = u
    BY <1>6 DEF Reviewed, AidRow
  <2>2. a <= old.requested /\ u # old.createdBy
    BY <1>6 DEF Affordable, MayDecide
  <2>3. a \in 1..old.requested
    BY <1>3, <2>2
  <2>4. QED
    BY <1>1, <1>6, <2>1, <2>2, <2>3 DEF Sound, Granted
<1>7. CASE s = "Rejected"
  <2>1. row.approved = 0 /\ row.decider = u
    BY <1>7 DEF Reviewed, AidRow
  <2>2. u # old.createdBy
    BY <1>7 DEF MayDecide
  <2>3. QED
    BY <1>1, <1>7, <2>1, <2>2 DEF Sound, Granted
<1>8. CASE s = "Completed"
  <2>1. old.status = "Approved"
    BY <1>8 DEF AidTransitions
  <2>2. row.approved = old.approved /\ row.read = old.read /\ row.decider = old.decider
    BY <1>8 DEF Reviewed, AidRow
  <2>3. QED
    BY <1>1, <1>8, <2>1, <2>2 DEF Sound, Granted
<1>9. CASE s = "Under Review"
  <2>1. old.status = "Pending"
    BY <1>9 DEF AidTransitions
  <2>2. row.approved = old.approved
    BY <1>9 DEF Reviewed, AidRow
  <2>3. QED
    BY <1>1, <1>9, <2>1, <2>2 DEF Sound, Granted
<1>10. CASE s = "Cancelled"
  BY <1>1, <1>10 DEF Sound, Granted
<1>11. s # "Pending"
  BY DEF AidTransitions
<1>12. QED
  BY <1>6, <1>7, <1>8, <1>9, <1>10, <1>11 DEF AidStatuses

-----------------------------------------------------------------------------
(* What a step makes of the invariant                                      *)

LEMMA AidInitInv == AidInit => AidInv
<1> SUFFICES ASSUME AidInit PROVE AidInv
  OBVIOUS
<1>1. AidTypeOK
  BY NoAidSound DEF AidInit, AidTypeOK, NoAid
<1>2. QED
  BY <1>1, NoAidSound DEF AidInit, AidInv, NoAid

\* A request that comes to hold a complete and sound row keeps the invariant.
LEMMA HoldKeepsAidInv ==
    ASSUME AidInv, NEW c \in AidCalls, NEW op \in {"create", "save", "delete"},
           NEW r \in Aids, NEW row \in AidRow, CompleteAid(row), Sound(row),
           Holds(c, op, r, row)
    PROVE  AidInv'
<1> DEFINE call == [op |-> op, aid |-> r, row |-> row]
<1>1. call \in AidCall /\ call.aid \in Aids /\ call.row = row
  BY DEF AidCall
<1>2. aidCall' = [aidCall EXCEPT ![c] = call] /\ UNCHANGED <<aids, personActive>>
  BY DEF Holds
<1> HIDE DEF call
<1>3. \A d \in AidCalls : aidCall'[d] = aidCall[d] \/ aidCall'[d] = call
  BY <1>2 DEF AidInv, AidTypeOK
<1>4. AidTypeOK'
  BY <1>1, <1>2, <1>3 DEF AidInv, AidTypeOK, CompleteAid
<1>5. \A d \in AidCalls : Sound(aidCall'[d].row)
  BY <1>1, <1>3 DEF AidInv
<1>6. QED
  BY <1>2, <1>4, <1>5 DEF AidInv, Sound, Granted

\* So does a request that ends, whatever it has done to the rows of the table
\* that keep the rule.
LEMMA EndKeepsAidInv ==
    ASSUME AidInv, NEW c \in AidCalls, EndAidCall(c), personActive' \in SUBSET Persons,
           aids' \in [Aids -> AidRow],
           \A r \in Aids : /\ aids'[r].status # "None" => CompleteAid(aids'[r])
                           /\ aids'[r].live => aids'[r].status # "None"
                           /\ Sound(aids'[r])
    PROVE  AidInv'
<1>1. \A d \in AidCalls : aidCall'[d] = aidCall[d] \/ aidCall'[d] = IdleAidCall
  BY DEF EndAidCall, AidInv, AidTypeOK
<1>2. aidCall' \in [AidCalls -> AidCall]
  BY NoAidSound DEF EndAidCall, AidInv, AidTypeOK
<1>3. AidTypeOK'
  BY <1>1, <1>2, NoAidSound DEF AidInv, AidTypeOK, CompleteAid
<1>4. \A d \in AidCalls : Sound(aidCall'[d].row)
  BY <1>1, NoAidSound DEF AidInv
<1>5. QED
  BY <1>3, <1>4 DEF AidInv, Sound, Granted

\* A row that can be found is stored, complete and sound.
LEMMA LiveIsGood ==
    ASSUME AidInv, NEW r \in Aids, aids[r].live
    PROVE  aids[r] \in AidRow /\ CompleteAid(aids[r]) /\ Sound(aids[r])
BY DEF AidInv, AidTypeOK

LEMMA AidStepInv == AidInv /\ [AidNext]_aidVars => AidInv'
<1> SUFFICES ASSUME AidInv, [AidNext]_aidVars PROVE AidInv'
  OBVIOUS
<1>1. ASSUME NEW c \in AidCalls, NEW u \in Users, NEW p \in Persons, NEW a \in Amounts,
             CreateAidRequest(c, u, p, a)
      PROVE  AidInv'
  <2> DEFINE row == [NoAid EXCEPT !.status = "Pending", !.live = TRUE,
                                  !.createdBy = u, !.requested = a]
  <2>1. PICK r \in Aids : Holds(c, "create", r, row)
    BY <1>1 DEF CreateAidRequest
  <2>2. row \in AidRow /\ CompleteAid(row) /\ Sound(row)
    BY NewAidSound
  <2> HIDE DEF row
  <2>3. QED
    BY <2>1, <2>2, HoldKeepsAidInv
<1>2. ASSUME NEW c \in AidCalls, NEW r \in Aids, NEW p \in Persons, NEW a \in Amounts,
             UpdateAidRequest(c, r, p, a)
      PROVE  AidInv'
  <2> DEFINE row == [aids[r] EXCEPT !.requested = a]
  <2>1. aids[r].live /\ aids[r].status \in Editable /\ Holds(c, "save", r, row)
    BY <1>2 DEF UpdateAidRequest
  <2>2. row \in AidRow /\ CompleteAid(row) /\ Sound(row)
    BY <2>1, LiveIsGood, EditedSound
  <2> HIDE DEF row
  <2>3. QED
    BY <2>1, <2>2, HoldKeepsAidInv
<1>3. ASSUME NEW c \in AidCalls, NEW u \in Users, NEW r \in Aids, NEW s \in AidStatuses,
             NEW a \in Amounts, ReviewAidRequest(c, u, r, s, a)
      PROVE  AidInv'
  <2> DEFINE row == Reviewed(aids[r], u, s, a)
  <2>1. /\ aids[r].live /\ u \in Reviewers
        /\ <<aids[r].status, s>> \in AidTransitions
        /\ MayDecide(u, aids[r], s) /\ Affordable(aids[r], s, a)
        /\ Holds(c, "save", r, row)
    BY <1>3 DEF ReviewAidRequest
  <2>2. row \in AidRow /\ CompleteAid(row) /\ Sound(row)
    BY <2>1, LiveIsGood, ReviewedSound
  <2> HIDE DEF row
  <2>3. QED
    BY <2>1, <2>2, HoldKeepsAidInv
<1>4. ASSUME NEW c \in AidCalls, NEW r \in Aids, CancelAidRequest(c, r)
      PROVE  AidInv'
  <2> DEFINE row == [aids[r] EXCEPT !.status = "Cancelled"]
  <2>1. aids[r].live /\ Holds(c, "save", r, row)
    BY <1>4 DEF CancelAidRequest
  <2>2. row \in AidRow /\ CompleteAid(row) /\ Sound(row)
    BY <2>1, LiveIsGood, CancelledSound
  <2> HIDE DEF row
  <2>3. QED
    BY <2>1, <2>2, HoldKeepsAidInv
<1>5. ASSUME NEW c \in AidCalls, NEW r \in Aids, DeleteAidRequest(c, r)
      PROVE  AidInv'
  <2>1. aids[r].live /\ Holds(c, "delete", r, aids[r])
    BY <1>5 DEF DeleteAidRequest
  <2>2. QED
    BY <2>1, LiveIsGood, HoldKeepsAidInv
<1>6. ASSUME NEW c \in AidCalls, SaveAid(c) PROVE AidInv'
  <2>1. /\ aidCall[c].aid \in Aids
        /\ aidCall[c].row \in AidRow
        /\ CompleteAid(aidCall[c].row)
        /\ Sound(aidCall[c].row)
    BY <1>6 DEF SaveAid, AidInv, AidTypeOK, AidCall
  <2>2. \A r \in Aids : aids'[r] = aids[r] \/ aids'[r] = aidCall[c].row
    BY <1>6 DEF SaveAid, AidInv, AidTypeOK
  <2>3. aidCall[c].row.status # "None"
    BY <2>1 DEF CompleteAid, AidStatuses
  <2>4. aids' \in [Aids -> AidRow] /\ personActive' \in SUBSET Persons /\ EndAidCall(c)
    BY <1>6, <2>1 DEF SaveAid, AidInv, AidTypeOK
  <2>5. \A r \in Aids : /\ aids'[r].status # "None" => CompleteAid(aids'[r])
                        /\ aids'[r].live => aids'[r].status # "None"
                        /\ Sound(aids'[r])
    BY <2>1, <2>2, <2>3 DEF AidInv, AidTypeOK
  <2>6. QED
    BY <2>4, <2>5, EndKeepsAidInv
<1>7. ASSUME NEW c \in AidCalls, SoftDelete(c) PROVE AidInv'
  <2> DEFINE gone(r) == [aids[r] EXCEPT !.live = FALSE]
  <2>1. EndAidCall(c) /\ personActive' \in SUBSET Persons
    BY <1>7 DEF SoftDelete, AidInv, AidTypeOK
  <2>2. \A r \in Aids : aids'[r] = aids[r] \/ aids'[r] = gone(r)
    BY <1>7 DEF SoftDelete, AidInv, AidTypeOK
  <2>3. \A r \in Aids : /\ gone(r) \in AidRow /\ ~gone(r).live
                        /\ gone(r).status = aids[r].status
                        /\ CompleteAid(aids[r]) => CompleteAid(gone(r))
                        /\ Sound(gone(r))
    BY HiddenSound DEF AidInv, AidTypeOK
  <2>4. aids' \in [Aids -> AidRow]
    BY <1>7, <2>3 DEF SoftDelete, AidInv, AidTypeOK, AidRow
  <2>5. \A r \in Aids : /\ aids'[r].status # "None" => CompleteAid(aids'[r])
                        /\ aids'[r].live => aids'[r].status # "None"
                        /\ Sound(aids'[r])
    BY <2>2, <2>3 DEF AidInv, AidTypeOK
  <2>6. QED
    BY <2>1, <2>4, <2>5, EndKeepsAidInv
<1>8. ASSUME NEW c \in AidCalls, FailAidCall(c) PROVE AidInv'
  <2>1. EndAidCall(c) /\ UNCHANGED <<aids, personActive>>
    BY <1>8 DEF FailAidCall
  <2>2. QED
    BY <2>1, EndKeepsAidInv DEF AidInv, AidTypeOK
<1>9. ASSUME NEW p \in Persons, SetPersonStatus(p), UNCHANGED <<aids, aidCall>> PROVE AidInv'
  BY <1>9 DEF SetPersonStatus, AidInv, AidTypeOK, CompleteAid, Sound, Granted
<1>10. CASE UNCHANGED aidVars
  BY <1>10 DEF aidVars, AidInv, AidTypeOK, CompleteAid, Sound, Granted
<1>11. QED
  BY <1>1, <1>2, <1>3, <1>4, <1>5, <1>6, <1>7, <1>8, <1>9, <1>10 DEF AidNext, AidStep

-----------------------------------------------------------------------------

\* Types, whatever requests overlap.
THEOREM AidTypeCorrect == AidSpec => []AidTypeOK
<1>1. AidInv => AidTypeOK
  BY DEF AidInv
<1>2. QED
  BY <1>1, AidInitInv, AidStepInv, PTL DEF AidSpec

\* The approved amount fits the status and the requested amount, always.
THEOREM MoneyMatchesStatusHolds == AidSpec => []MoneyMatchesStatus
<1>1. AidInv => MoneyMatchesStatus
  BY DEF AidInv, MoneyMatchesStatus, Sound
<1>2. QED
  BY <1>1, AidInitInv, AidStepInv, PTL DEF AidSpec

\* Nobody's own request is granted or rejected by them.
THEOREM DecidedByAnotherHolds == AidSpec => []DecidedByAnother
<1>1. AidInv => DecidedByAnother
  BY DEF AidInv, DecidedByAnother, Sound
<1>2. QED
  BY <1>1, AidInitInv, AidStepInv, PTL DEF AidSpec

\* What is granted is what the approver read.
THEOREM GrantedAsReadHolds == AidSpec => []GrantedAsRead
<1>1. AidInv => GrantedAsRead
  BY DEF AidInv, GrantedAsRead, Sound
<1>2. QED
  BY <1>1, AidInitInv, AidStepInv, PTL DEF AidSpec

(***************************************************************************)
(* The registry.  The properties speak of the stored rows and of the log.  *)
(* What a request stores was decided when it read: the invariant says what *)
(* every held and every uncommitted row owes to the rows that are stored   *)
(* now.                                                                    *)
(***************************************************************************)

AllStatuses == {"none", "Active", "Inactive", "Pending", "Confirmed", "Completed", "Cancelled"}

AllTypes == {"none"} \cup DonorTypes \cup DonationTypes

AllNumbers == {NoKey} \cup Keys \cup Nat \cup (DonorTypes \X Keys)

RowType == [kind : Kinds \cup {"none"}, status : AllStatuses, key : AllNumbers,
            of : Ids \cup {NoKey}, type : AllTypes, details : Details, live : BOOLEAN]

RequestType == [op : Writes \cup {"idle"}, id : Ids \cup {NoKey}, row : RowType, tx : Stages]

RegistryTypes ==
    /\ registry \in [Ids -> RowType]
    /\ request \in [Requests -> RequestType]
    /\ auditLog \subseteq Ids \X Writes
    /\ pushes \subseteq Ids \X Writes
    /\ final \subseteq Ids

\* A row that may stand as row i: one of the same table, and unless a device has written
\* it, one that the rules accept, and a student keeps its code.
Successor(i, row) ==
    /\ row.kind = registry[i].kind
    /\ ~Pushed(i) =>
        /\ Accepted(row)
        /\ row.kind = "student" => row.key = registry[i].key

\* What a request may hold before it writes.
Held(r) ==
    /\ r.op = "idle" => r = IdleRequest
    /\ r.op # "idle" => r.id \in Ids
    /\ r.op = "create" => Accepted(r.row) /\ r.row.live /\ registry[r.id] = NoRecord
    /\ r.op \in {"update", "status", "delete", "push"} => registry[r.id] # NoRecord
    /\ r.op = "update" => r.row.live /\ Successor(r.id, r.row)
    /\ r.op = "status" /\ r.tx = "none" => r.row.status \in Statuses(registry[r.id].kind)
    /\ r.op = "push" => /\ r.row.live
                        /\ r.row.kind = registry[r.id].kind
                        /\ r.row.kind # "revenue"

\* What the transaction of a request holds.
Staged(r) ==
    r.tx # "none" =>
        /\ r.op \notin {"idle", "push"}
        /\ Audited(r.op, r.row.kind)
        /\ KeyFree(r.id, r.row)
        /\ r.op # "create" => Successor(r.id, r.row)
        /\ r.op # "delete" => r.row.live

SameNumber(row, other) ==
    /\ row.kind \in Indexed
    /\ row.key # NoKey
    /\ other.kind = row.kind
    /\ other.key = row.key

\* Nobody works on a row that is being created, and two transactions hold different
\* rows with different numbers.
Apart(r, s) ==
    /\ r.op = "create" => s.id # r.id
    /\ r.tx # "none" /\ s.tx # "none" => s.id # r.id /\ ~SameNumber(r.row, s.row)

StoredRows ==
    \A i \in Ids : registry[i] = NoRecord \/
        /\ registry[i].kind \in Kinds
        /\ Pushed(i) \/ Accepted(registry[i])

UniqueKeys == \A i \in Ids : registry[i] # NoRecord => KeyFree(i, registry[i])

\* No device has written a student.
StudentsOnline == \A i \in OfKind("student") : ~Pushed(i)

\* Codes count up with the rows; a held one may be the next.
CountedCode(key) == StudentsOnline => key \in 1..(CountAll + 1)

StudentCodes ==
    /\ IsFiniteSet(OfKind("student"))
    /\ StudentsOnline => \A i \in OfKind("student") : registry[i].key \in 1..CountAll
    /\ \A c \in Requests :
        request[c].op = "create" /\ request[c].row.kind = "student"
            => CountedCode(request[c].row.key)

\* Whoever works on finished care repeats that it is completed, or is a device.
Repeats(r) == r.op = "push" \/ (r.op = "status" /\ r.row.status = "Completed")

FinalInv ==
    \A i \in final :
        /\ registry[i].kind = "care"
        /\ \A c \in Requests : request[c].id = i => Repeats(request[c])

\* Devices write rows that are there, and no revenue.
PushesInv == \A e \in pushes : registry[e[1]] # NoRecord /\ registry[e[1]].kind # "revenue"

RegistryInv ==
    /\ RegistryTypes
    /\ StoredRows
    /\ \A c \in Requests : Held(request[c]) /\ Staged(request[c])
    /\ \A c, d \in Requests : c # d => Apart(request[c], request[d])
    /\ UniqueKeys
    /\ StudentCodes
    /\ ChangesAreAudited
    /\ PushesInv
    /\ FinalInv
    /\ CompletedCareStays

-----------------------------------------------------------------------------
(* Rows and requests                                                       *)

LEMMA NoRecordType ==
    /\ NoRecord \in RowType
    /\ IdleRequest \in RequestType
    /\ Held(IdleRequest)
    /\ Staged(IdleRequest)
    /\ NoRecord.kind \notin AllKinds
BY DEF NoRecord, IdleRequest, RowType, RequestType, NoDetails, Details, AllNumbers, AllTypes,
       AllStatuses, Stages, Held, Staged, AllKinds

\* What a table accepts is a row of one of the tables.
LEMMA AcceptedIsRecord ==
    ASSUME NEW row, Accepted(row)
    PROVE  row.kind \in Kinds /\ row.kind \in AllKinds /\ row # NoRecord
BY RegistryAssumption, NoRecordType DEF Accepted

\* A row that is there is of one of the tables, and accepted unless a device wrote it.
LEMMA StoredIsRecord ==
    ASSUME RegistryInv, NEW i \in Ids, registry[i] # NoRecord
    PROVE  /\ registry[i] \in RowType
           /\ registry[i].kind \in Kinds /\ registry[i].kind \in AllKinds
           /\ Pushed(i) \/ Accepted(registry[i])
BY RegistryAssumption DEF RegistryInv, RegistryTypes, StoredRows

\* A row that is not there was written by nobody.
LEMMA NewIsNotPushed ==
    ASSUME RegistryInv, NEW i, registry[i] = NoRecord
    PROVE  ~Pushed(i)
BY DEF RegistryInv, PushesInv, Pushed

LEMMA InitInv == RegistryInit => RegistryInv
<1> SUFFICES ASSUME RegistryInit PROVE RegistryInv
  OBVIOUS
<1>1. RegistryTypes
  BY NoRecordType DEF RegistryInit, RegistryTypes
<1>2. \A kind : kind # "none" => OfKind(kind) = {}
  BY DEF RegistryInit, OfKind, NoRecord
<1>3. StudentCodes
  <2>1. OfKind("student") = {}
    BY <1>2
  <2>2. IsFiniteSet(OfKind("student"))
    BY <2>1, FS_EmptySet
  <2>3. \A c \in Requests : request[c].op # "create"
    BY DEF RegistryInit, IdleRequest
  <2>4. QED
    BY <2>1, <2>2, <2>3 DEF StudentCodes
<1>4. \A c \in Requests : Held(request[c]) /\ Staged(request[c])
  BY NoRecordType DEF RegistryInit
<1>5. \A c, d \in Requests : c # d => Apart(request[c], request[d])
  BY DEF RegistryInit, Apart, IdleRequest
<1>6. ChangesAreAudited
  BY <1>2 DEF ChangesAreAudited, RegistryInit
<1>7. UniqueKeys /\ StoredRows /\ PushesInv /\ FinalInv /\ CompletedCareStays
  BY DEF UniqueKeys, StoredRows, PushesInv, FinalInv, CompletedCareStays, RegistryInit
<1>8. QED
  BY <1>1, <1>3, <1>4, <1>5, <1>6, <1>7 DEF RegistryInv

-----------------------------------------------------------------------------
(* A request changes what it holds, and nothing is stored                  *)

LEMMA RequestKeepsInv ==
    ASSUME RegistryInv, NEW c \in Requests, NEW r \in RequestType,
           Held(r), Staged(r),
           \A d \in Requests \ {c} : Apart(r, request[d]) /\ Apart(request[d], r),
           r.op = "create" /\ r.row.kind = "student" => CountedCode(r.row.key),
           r.id \in final => Repeats(r),
           request' = [request EXCEPT ![c] = r],
           UNCHANGED <<registry, auditLog, final, pushes>>
    PROVE  RegistryInv'
<1>1. RegistryTypes'
  BY DEF RegistryInv, RegistryTypes
<1>2. \A d \in Requests : request'[d] = IF d = c THEN r ELSE request[d]
  BY DEF RegistryInv, RegistryTypes
<1>3. /\ OfKind("student")' = OfKind("student") /\ CountAll' = CountAll
      /\ StudentsOnline' = StudentsOnline
  BY DEF OfKind, CountAll, StudentsOnline, Pushed
<1>4. StudentCodes'
  BY <1>2, <1>3 DEF RegistryInv, StudentCodes, CountedCode
<1>5. /\ \A row : \A i : KeyFree(i, row)' <=> KeyFree(i, row)
      /\ \A row : \A i : Successor(i, row)' <=> Successor(i, row)
  BY DEF KeyFree, OfKind, Successor, Pushed, Accepted
<1>6. \A d \in Requests : (Held(request[d]) /\ Staged(request[d]))'
  BY <1>2, <1>5 DEF RegistryInv, Held, Staged
<1>7. \A d, e \in Requests : d # e => Apart(request[d], request[e])'
  BY <1>2 DEF RegistryInv, Apart
<1>8. FinalInv'
  BY <1>2 DEF RegistryInv, FinalInv
<1>9. UniqueKeys' /\ ChangesAreAudited' /\ PushesInv' /\ CompletedCareStays'
  BY <1>5 DEF RegistryInv, UniqueKeys, ChangesAreAudited, PushesInv, CompletedCareStays, OfKind
<1>10. StoredRows'
  BY DEF RegistryInv, StoredRows, Accepted, Pushed
<1>11. QED
  BY <1>1, <1>4, <1>6, <1>7, <1>8, <1>9, <1>10 DEF RegistryInv

-----------------------------------------------------------------------------
(* A request stores its row                                                *)

\* What a row must be for row i to become it, whoever stores it.
Storable(c, i, row) ==
    /\ row \in RowType
    /\ KeyFree(i, row)
    /\ row.kind \in Kinds
    /\ registry[i] # NoRecord => row.kind = registry[i].kind
    /\ registry[i] = NoRecord => \A d \in Requests \ {c} : request[d].id # i
    /\ \A d \in Requests \ {c} : request[d].tx # "none" =>
            request[d].id # i /\ ~SameNumber(row, request[d].row)

\* The rows of a kind are those of before, and the one that is stored.
LEMMA StoredOfKind ==
    ASSUME RegistryInv, NEW i \in Ids, NEW row \in RowType,
           registry[i] = NoRecord \/ registry[i].kind = row.kind,
           registry' = [registry EXCEPT ![i] = row],
           NEW kind \in AllKinds
    PROVE  OfKind(kind)' = IF kind = row.kind THEN OfKind(kind) \cup {i} ELSE OfKind(kind)
<1>1. \A j \in Ids : registry'[j] = IF j = i THEN row ELSE registry[j]
  BY DEF RegistryInv, RegistryTypes
<1>2. registry[i].kind = row.kind \/ registry[i].kind \notin AllKinds
  BY NoRecordType
<1>3. QED
  BY <1>1, <1>2 DEF OfKind

\* What another request holds or has in its transaction is as good as before.
LEMMA OthersKeep ==
    ASSUME RegistryInv, NEW c \in Requests, NEW i \in Ids, NEW row, Storable(c, i, row),
           registry' = [registry EXCEPT ![i] = row],
           pushes \subseteq pushes',
           Pushed(i)' \/ (registry[i] # NoRecord => Successor(i, row)),
           \A j \in Ids \ {i} : Pushed(j)' <=> Pushed(j),
           NEW d \in Requests \ {c}, request'[d] = request[d]
    PROVE  (Held(request[d]) /\ Staged(request[d]))'
<1>1. /\ request[d] \in RequestType /\ Held(request[d]) /\ Staged(request[d])
      /\ row # NoRecord
  BY NoRecordType, RegistryAssumption DEF RegistryInv, RegistryTypes, Storable
<1>2. \A j \in Ids : registry'[j] = IF j = i THEN row ELSE registry[j]
  BY DEF RegistryInv, RegistryTypes
<1>3. Pushed(i) => Pushed(i)'
  BY DEF Pushed
<1>4. \A other : Successor(request[d].id, other) /\ request[d].id \in Ids /\ request[d].op # "create"
                    => Successor(request[d].id, other)'
  <2> SUFFICES ASSUME NEW other, Successor(request[d].id, other), request[d].id \in Ids,
                      request[d].op # "create"
               PROVE  Successor(request[d].id, other)'
    OBVIOUS
  <2>1. Accepted(other)' <=> Accepted(other)
    BY DEF Accepted
  <2>2. CASE request[d].id # i
    BY <2>1, <2>2, <1>2 DEF Successor
  <2>3. CASE request[d].id = i
    <3>1. registry[i] # NoRecord /\ row.kind = registry[i].kind
      BY <2>3 DEF Storable
    <3>2. CASE Pushed(i)'
      BY <2>3, <3>1, <3>2, <1>2 DEF Successor
    <3>3. CASE ~Pushed(i)'
      BY <2>1, <2>3, <3>1, <3>3, <1>2, <1>3 DEF Successor
    <3>4. QED
      BY <3>2, <3>3
  <2>4. QED
    BY <2>2, <2>3
<1>5. Held(request[d])'
  <2>1. request[d].op = "create" => request[d].id # i
    BY <1>1 DEF Storable, Held
  <2>2. Accepted(request[d].row)' <=> Accepted(request[d].row)
    BY DEF Accepted
  <2>3. request[d].op # "idle" /\ request[d].id = i =>
            registry[i] # NoRecord /\ row.kind = registry[i].kind
    BY <1>1 DEF Storable
  <2>4. request[d].op = "update" => Successor(request[d].id, request[d].row)'
    BY <1>1, <1>4 DEF Held
  <2>5. request[d].op # "idle" => /\ request[d].id \in Ids
                                  /\ registry'[request[d].id] = NoRecord
                                        <=> registry[request[d].id] = NoRecord
                                  /\ registry'[request[d].id].kind = registry[request[d].id].kind
    BY <1>1, <1>2, <2>3 DEF Held
  <2>6. QED
    BY <1>1, <2>1, <2>2, <2>4, <2>5 DEF Held
<1>6. Staged(request[d])'
  <2> SUFFICES ASSUME request[d].tx # "none" PROVE Staged(request[d])'
    BY DEF Staged
  <2>1. request[d].id # i /\ ~SameNumber(row, request[d].row)
    BY DEF Storable
  <2>2. request[d].op # "idle" /\ request[d].id \in Ids
    BY <1>1 DEF Held, Staged
  <2>3. KeyFree(request[d].id, request[d].row)'
    BY <1>1, <2>1, <1>2 DEF Staged, KeyFree, OfKind, SameNumber
  <2>4. QED
    BY <1>1, <1>4, <2>2, <2>3 DEF Staged
<1>7. QED
  BY <1>5, <1>6

\* What does not depend on who stores the row: numbers, and the other requests.
LEMMA StoredRowKeeps ==
    ASSUME RegistryInv, NEW c \in Requests, NEW i \in Ids, NEW row, Storable(c, i, row),
           registry' = [registry EXCEPT ![i] = row],
           request' = [request EXCEPT ![c] = IdleRequest],
           pushes \subseteq pushes',
           Pushed(i)' \/ (registry[i] # NoRecord => Successor(i, row)),
           \A j \in Ids \ {i} : Pushed(j)' <=> Pushed(j)
    PROVE  /\ UniqueKeys'
           /\ \A d \in Requests : (Held(request[d]) /\ Staged(request[d]))'
           /\ \A d, e \in Requests : d # e => Apart(request[d], request[e])'
<1>1. \A j \in Ids : registry'[j] = IF j = i THEN row ELSE registry[j]
  BY DEF RegistryInv, RegistryTypes
<1>2. \A d \in Requests : request'[d] = IF d = c THEN IdleRequest ELSE request[d]
  BY DEF RegistryInv, RegistryTypes
<1>3. UniqueKeys'
  <2> SUFFICES ASSUME NEW j \in Ids, registry'[j] # NoRecord,
                      registry'[j].kind \in Indexed, registry'[j].key # NoKey,
                      NEW k \in Ids, k # j, registry'[k].kind = registry'[j].kind
               PROVE  registry'[k].key # registry'[j].key
    BY <1>1 DEF UniqueKeys, KeyFree, OfKind
  <2>1. CASE j = i
    BY <2>1, <1>1 DEF Storable, KeyFree, OfKind
  <2>2. CASE k = i
    BY <2>2, <1>1 DEF Storable, KeyFree, OfKind
  <2>3. CASE j # i /\ k # i
    BY <2>3, <1>1 DEF RegistryInv, UniqueKeys, KeyFree, OfKind
  <2>4. QED
    BY <2>1, <2>2, <2>3
<1>4. ASSUME NEW d \in Requests PROVE (Held(request[d]) /\ Staged(request[d]))'
  <2>1. CASE d = c
    <3>1. request'[c] = IdleRequest /\ IdleRequest.op = "idle" /\ IdleRequest.tx = "none"
      BY <1>2 DEF IdleRequest
    <3>2. (Held(request[c]) /\ Staged(request[c]))'
      BY <3>1 DEF Held, Staged
    <3>3. QED
      BY <2>1, <3>2
  <2>2. CASE d # c
    BY <2>2, <1>2, OthersKeep
  <2>3. QED
    BY <2>1, <2>2
<1>5. \A d, e \in Requests : d # e => Apart(request[d], request[e])'
  <2>1. \A r \in RequestType : r.op # "idle" /\ Held(r) => r.id \in Ids /\ r.id # NoKey
    BY RegistryAssumption DEF Held
  <2>2. \A d \in Requests : request[d] \in RequestType /\ Held(request[d])
    BY DEF RegistryInv, RegistryTypes
  <2>3. IdleRequest.op = "idle" /\ IdleRequest.tx = "none" /\ IdleRequest.id = NoKey
    BY DEF IdleRequest
  <2>4. QED
    BY <1>2, <2>1, <2>2, <2>3 DEF RegistryInv, Apart
<1>6. QED
  BY <1>3, <1>4, <1>5

\* The rest of the invariant, when an online request stores its row and its entry, or
\* what has none.
LEMMA CommitKeepsInv ==
    ASSUME RegistryInv, NEW c \in Requests, NEW i \in Ids, NEW row, Storable(c, i, row),
           request[c].op \notin {"idle", "push"}, request[c].id = i,
           IF request[c].op = "create" THEN registry[i] = NoRecord /\ Accepted(row)
           ELSE registry[i] # NoRecord /\ Successor(i, row),
           row.live \/ request[c].op = "delete",
           request[c].op = "create" /\ row.kind = "student" => CountedCode(row.key),
           i \in final => row.kind = "care" /\ row.live /\ row.status = "Completed",
           Commit(c, i, row),
           auditLog' = IF Audited(request[c].op, row.kind)
                       THEN auditLog \cup {<<i, request[c].op>>} ELSE auditLog
    PROVE  RegistryInv'
<1>0. /\ request[c] \in RequestType /\ row \in RowType
      /\ request[c].op \in Writes
      /\ row.kind \in AllKinds /\ row # NoRecord
  BY RegistryAssumption, NoRecordType DEF RegistryInv, RegistryTypes, Storable, RequestType
<1>1. \A j \in Ids : registry'[j] = IF j = i THEN row ELSE registry[j]
  BY DEF RegistryInv, RegistryTypes, Commit
<1>2. \A d \in Requests : request'[d] = IF d = c THEN IdleRequest ELSE request[d]
  BY DEF RegistryInv, RegistryTypes, Commit
<1>3. final' = final \cup Finished(c, i, row) /\ Finished(c, i, row) \subseteq {i}
  BY DEF Commit, Finished
<1>4. \A kind \in AllKinds :
        OfKind(kind)' = IF kind = row.kind THEN OfKind(kind) \cup {i} ELSE OfKind(kind)
  BY <1>0, StoredOfKind DEF Storable, Commit
<1>5. RegistryTypes'
  BY <1>0, <1>3, NoRecordType DEF RegistryInv, RegistryTypes, Commit, Audited
<1>6. \A j : Pushed(j)' <=> Pushed(j)
  BY DEF Pushed, Commit
<1>7. StoredRows'
  <2>1. Accepted(row)' <=> Accepted(row)
    BY DEF Accepted
  <2>2. \A j \in Ids : Accepted(registry[j])' <=> Accepted(registry'[j])
    BY DEF Accepted
  <2>3. Pushed(i) \/ Accepted(row)
    BY DEF Successor
  <2>4. row.kind \in Kinds
    BY DEF Storable
  <2>5. QED
    BY <1>1, <1>6, <2>2, <2>3, <2>4 DEF RegistryInv, StoredRows
<1>8. /\ UniqueKeys'
      /\ \A d \in Requests : (Held(request[d]) /\ Staged(request[d]))'
      /\ \A d, e \in Requests : d # e => Apart(request[d], request[e])'
  <2>1. registry[i] # NoRecord => Successor(i, row)
    OBVIOUS
  <2>2. /\ registry' = [registry EXCEPT ![i] = row]
        /\ request' = [request EXCEPT ![c] = IdleRequest]
        /\ pushes \subseteq pushes'
    BY DEF Commit
  <2>3. QED
    BY <1>6, <2>1, <2>2, StoredRowKeeps
<1>9. StudentCodes'
  <2>0. StudentsOnline' => StudentsOnline
    BY <1>4, <1>6 DEF StudentsOnline, AllKinds
  <2>1. CASE row.kind # "student"
    <3>1. OfKind("student")' = OfKind("student") /\ CountAll' = CountAll
      BY <2>1, <1>4 DEF AllKinds, CountAll
    <3>2. \A j \in OfKind("student") : registry'[j] = registry[j]
      BY <2>1, <1>1, <3>1 DEF OfKind
    <3>3. QED
      BY <1>2, <2>0, <3>1, <3>2 DEF RegistryInv, StudentCodes, CountedCode, IdleRequest
  <2>2. CASE row.kind = "student" /\ request[c].op = "create"
    <3>1. OfKind("student")' = OfKind("student") \cup {i} /\ i \notin OfKind("student")
      BY <2>2, <1>4, NoRecordType DEF AllKinds, OfKind
    <3>2. /\ IsFiniteSet(OfKind("student"))' /\ CountAll' = CountAll + 1
          /\ CountAll \in Nat
      BY <3>1, FS_AddElement, FS_CardinalityType DEF RegistryInv, StudentCodes, CountAll
    <3>3. StudentsOnline' => \A j \in OfKind("student")' : registry'[j].key \in 1..(CountAll + 1)
      BY <2>0, <3>1, <3>2, <1>1, <2>2 DEF RegistryInv, StudentCodes, CountedCode, OfKind
    <3>4. \A n \in 1..(CountAll + 1) : n \in 1..(CountAll' + 1)
      BY <3>2
    <3>5. QED
      BY <2>0, <3>2, <3>3, <3>4, <1>2 DEF RegistryInv, StudentCodes, CountedCode, IdleRequest
  <2>3. CASE row.kind = "student" /\ request[c].op # "create"
    <3>1. /\ registry[i].kind = "student"
          /\ StudentsOnline => row.key = registry[i].key
      BY <2>3 DEF Successor, StudentsOnline, OfKind
    <3>2. OfKind("student")' = OfKind("student") /\ CountAll' = CountAll
      BY <3>1, <2>3, <1>4 DEF AllKinds, OfKind, CountAll
    <3>3. StudentsOnline => \A j \in OfKind("student") : registry'[j].key = registry[j].key
      BY <1>1, <3>1 DEF OfKind
    <3>4. QED
      BY <2>0, <3>2, <3>3, <1>2 DEF RegistryInv, StudentCodes, CountedCode, IdleRequest
  <2>4. QED
    BY <2>1, <2>2, <2>3
<1>10. PushesInv'
  <2>1. registry[i] = NoRecord => i \notin {e[1] : e \in pushes}
    BY DEF RegistryInv, PushesInv
  <2>2. \A e \in pushes : e[1] \in Ids
    BY DEF RegistryInv, RegistryTypes
  <2>3. QED
    BY <1>0, <1>1, <2>1, <2>2 DEF RegistryInv, PushesInv, Commit, Storable
<1>11. ChangesAreAudited'
  <2>0. pushes' = pushes
    BY DEF Commit
  <2>1. \A j \in Ids : registry'[j] # NoRecord <=> <<j, "create">> \in auditLog' \cup pushes'
    BY <1>0, <1>1, <2>0 DEF RegistryInv, ChangesAreAudited, Audited
  <2>2. \A j \in OfKind("revenue")' : registry'[j].live \/ <<j, "delete">> \in auditLog'
    BY <1>0, <1>1 DEF RegistryInv, ChangesAreAudited, Audited, OfKind, Storable
  <2>3. ASSUME NEW e \in auditLog', e[2] # "create" PROVE registry'[e[1]].kind = "revenue"
    <3>1. CASE e \in auditLog
      <4>1. e[1] \in Ids /\ registry[e[1]].kind = "revenue"
        BY <3>1, <2>3 DEF RegistryInv, RegistryTypes, ChangesAreAudited
      <4>2. e[1] = i => row.kind = "revenue"
        BY <4>1, NoRecordType DEF Storable, AllKinds
      <4>3. QED
        BY <4>1, <4>2, <1>1
    <3>2. CASE e \notin auditLog
      BY <3>2, <2>3, <1>1 DEF Audited
    <3>3. QED
      BY <3>1, <3>2
  <2>4. auditLog' \cap pushes' = {}
    <3>1. Audited(request[c].op, row.kind) => <<i, request[c].op>> \notin pushes
      BY DEF Audited, Successor, RegistryInv, PushesInv
    <3>2. QED
      BY <2>0, <3>1 DEF RegistryInv, ChangesAreAudited
  <2>5. QED
    BY <2>1, <2>2, <2>3, <2>4 DEF ChangesAreAudited
<1>12. FinalInv'
  <2> SUFFICES ASSUME NEW j \in final'
               PROVE  /\ registry'[j].kind = "care"
                      /\ \A d \in Requests : request'[d].id = j => Repeats(request'[d])
    BY DEF FinalInv, Repeats
  <2>1. j \in Ids /\ IdleRequest.id # j
    BY <1>5, RegistryAssumption DEF RegistryTypes, IdleRequest
  <2>2. CASE j \in final
    BY <2>1, <2>2, <1>1, <1>2 DEF RegistryInv, FinalInv
  <2>3. CASE j \notin final
    BY <2>1, <2>3, <1>1, <1>2, <1>3 DEF Finished
  <2>4. QED
    BY <2>2, <2>3
<1>13. CompletedCareStays'
  BY <1>1, <1>3 DEF RegistryInv, RegistryTypes, CompletedCareStays, Finished
<1>14. QED
  BY <1>5, <1>7, <1>8, <1>9, <1>10, <1>11, <1>12, <1>13 DEF RegistryInv

\* What a device stores keeps the invariant: it is excepted where it breaks the rules.
LEMMA StorePushedKeepsInv ==
    ASSUME RegistryInv, NEW c \in Requests, NEW i \in Ids, NEW row \in RowType,
           NEW op \in {"create", "update"},
           row.kind \in Kinds, row.kind # "revenue", row.live,
           op = "create" => registry[i] = NoRecord,
           op = "update" => registry[i] # NoRecord /\ row.kind = registry[i].kind,
           registry[i] = NoRecord => \A d \in Requests : request[d].id # i,
           StorePushed(c, i, row, op)
    PROVE  RegistryInv'
<1>0. row.kind \in AllKinds /\ row # NoRecord
  BY RegistryAssumption, NoRecordType
<1>1. \A j \in Ids : registry'[j] = IF j = i THEN row ELSE registry[j]
  BY DEF RegistryInv, RegistryTypes, StorePushed
<1>2. \A d \in Requests : request'[d] = IF d = c THEN IdleRequest ELSE request[d]
  BY DEF RegistryInv, RegistryTypes, StorePushed
<1>3. /\ pushes' = pushes \cup {<<i, op>>} /\ auditLog' = auditLog /\ final' = final \ {i}
      /\ op \in Writes
  BY DEF StorePushed, Writes
<1>4. Storable(c, i, row)
  <2>1. \A d \in Requests \ {c} :
          request[d].tx # "none" => request[d].id # i /\ ~SameNumber(row, request[d].row)
    BY DEF StorePushed, Blocked, SameNumber
  <2>2. QED
    BY <2>1 DEF Storable, StorePushed
<1>5. RegistryTypes'
  BY <1>3, NoRecordType DEF RegistryInv, RegistryTypes, StorePushed
<1>6. Pushed(i)' /\ \A j \in Ids \ {i} : Pushed(j)' <=> Pushed(j)
  BY <1>3 DEF Pushed
<1>7. StoredRows'
  <2>1. \A j \in Ids : Accepted(registry[j])' <=> Accepted(registry'[j])
    BY DEF Accepted
  <2>2. QED
    BY <1>1, <1>6, <2>1 DEF RegistryInv, StoredRows
<1>8. /\ UniqueKeys'
      /\ \A d \in Requests : (Held(request[d]) /\ Staged(request[d]))'
      /\ \A d, e \in Requests : d # e => Apart(request[d], request[e])'
  <2>1. /\ registry' = [registry EXCEPT ![i] = row]
        /\ request' = [request EXCEPT ![c] = IdleRequest]
        /\ pushes \subseteq pushes'
    BY <1>3 DEF StorePushed
  <2>2. QED
    BY <1>4, <1>6, <2>1, StoredRowKeeps
<1>9. \A kind \in AllKinds :
        OfKind(kind)' = IF kind = row.kind THEN OfKind(kind) \cup {i} ELSE OfKind(kind)
  BY StoredOfKind DEF StorePushed
<1>10. StudentCodes'
  <2>1. CASE row.kind # "student"
    <3>1. OfKind("student")' = OfKind("student") /\ CountAll' = CountAll
      BY <2>1, <1>9 DEF AllKinds, CountAll
    <3>2. i \notin OfKind("student")
      BY <2>1, NoRecordType DEF OfKind, AllKinds
    <3>3. \A j \in OfKind("student") : registry'[j] = registry[j]
      BY <3>2, <1>1 DEF OfKind
    <3>4. StudentsOnline' <=> StudentsOnline
      BY <1>6, <3>1, <3>2 DEF StudentsOnline, OfKind
    <3>5. QED
      BY <1>2, <3>1, <3>3, <3>4 DEF RegistryInv, StudentCodes, CountedCode, IdleRequest
  <2>2. CASE row.kind = "student"
    <3>1. OfKind("student")' = OfKind("student") \cup {i}
      BY <2>2, <1>9 DEF AllKinds
    <3>2. IsFiniteSet(OfKind("student"))'
      BY <3>1, FS_AddElement DEF RegistryInv, StudentCodes
    <3>3. ~StudentsOnline'
      BY <1>6, <3>1 DEF StudentsOnline
    <3>4. QED
      BY <3>2, <3>3 DEF StudentCodes, CountedCode
  <2>3. QED
    BY <2>1, <2>2
<1>11. PushesInv'
  <2>1. \A e \in pushes' : e[1] \in Ids /\ (e \in pushes \/ e[1] = i)
    BY <1>3 DEF RegistryInv, RegistryTypes
  <2>2. QED
    BY <1>0, <1>1, <2>1 DEF RegistryInv, PushesInv
<1>12. ChangesAreAudited'
  <2>1. \A j \in Ids : registry'[j] # NoRecord <=> <<j, "create">> \in auditLog' \cup pushes'
    BY <1>0, <1>1, <1>3 DEF RegistryInv, ChangesAreAudited
  <2>2. registry[i].kind # "revenue"
    BY NoRecordType DEF AllKinds
  <2>3. <<i, op>> \notin auditLog
    BY <2>2 DEF RegistryInv, ChangesAreAudited
  <2>4. \A j \in OfKind("revenue")' : registry'[j].live \/ <<j, "delete">> \in auditLog'
    BY <1>1, <1>3 DEF RegistryInv, ChangesAreAudited, OfKind
  <2>5. \A e \in auditLog : e[1] \in Ids
    BY DEF RegistryInv, RegistryTypes
  <2>6. \A e \in auditLog' : e[2] # "create" => registry'[e[1]].kind = "revenue"
    BY <1>1, <1>3, <2>2, <2>5 DEF RegistryInv, ChangesAreAudited
  <2>7. auditLog' \cap pushes' = {}
    BY <1>3, <2>3 DEF RegistryInv, ChangesAreAudited
  <2>8. QED
    BY <2>1, <2>4, <2>6, <2>7 DEF ChangesAreAudited
<1>13. FinalInv'
  <2> SUFFICES ASSUME NEW j \in final'
               PROVE  /\ registry'[j].kind = "care"
                      /\ \A d \in Requests : request'[d].id = j => Repeats(request'[d])
    BY DEF FinalInv, Repeats
  <2>1. j \in Ids /\ j \in final /\ j # i /\ IdleRequest.id # j
    BY <1>3, <1>5, RegistryAssumption DEF RegistryTypes, IdleRequest
  <2>2. QED
    BY <2>1, <1>1, <1>2 DEF RegistryInv, FinalInv
<1>14. CompletedCareStays'
  BY <1>1, <1>3 DEF RegistryInv, RegistryTypes, CompletedCareStays
<1>15. QED
  BY <1>5, <1>7, <1>8, <1>10, <1>11, <1>12, <1>13, <1>14 DEF RegistryInv

-----------------------------------------------------------------------------
(* What the statements write                                               *)

\* A statement that the database lets through keeps the invariant, whether it commits
\* at once or stays in its transaction.
LEMMA WriteRowKeepsInv ==
    ASSUME RegistryInv, NEW c \in Requests, request[c].op \notin {"idle", "push"},
           NEW row \in RowType, KeyFree(request[c].id, row),
           IF request[c].op = "create" THEN row = request[c].row
           ELSE Successor(request[c].id, row),
           row.live \/ request[c].op = "delete",
           request[c].id \in final => row.live /\ row.status = "Completed",
           WriteRow(c, request[c].id, row)
    PROVE  RegistryInv'
<1> DEFINE i == request[c].id
           r == [request[c] EXCEPT !.row = row, !.tx = "row"]
<1>1. request[c] \in RequestType /\ Held(request[c]) /\ i \in Ids /\ request[c].op \in Writes
  BY DEF RegistryInv, RegistryTypes, RequestType, Held
<1>2. IF request[c].op = "create" THEN registry[i] = NoRecord /\ Accepted(row)
      ELSE registry[i] # NoRecord
  BY <1>1 DEF Held, Writes
<1>3. \A d \in Requests \ {c} :
        request[d].tx # "none" => request[d].id # i /\ ~SameNumber(row, request[d].row)
  BY DEF WriteRow, Blocked, SameNumber
<1>4. \A d \in Requests \ {c} :
        Apart(request[c], request[d]) /\ Apart(request[d], request[c])
  BY DEF RegistryInv
<1>5. CASE Audited(request[c].op, row.kind)
  <2>1. /\ r \in RequestType /\ r.op = request[c].op /\ r.id = i
        /\ r.row = row /\ r.tx = "row"
    BY <1>1 DEF RequestType, Stages
  <2>2. Held(r)
    BY <1>1, <1>2, <2>1 DEF Held, Writes
  <2>3. Staged(r)
    BY <1>5, <2>1 DEF Staged
  <2>4. \A d \in Requests \ {c} : SameNumber(request[d].row, row) => SameNumber(row, request[d].row)
    BY DEF SameNumber
  <2>5. \A d \in Requests \ {c} : Apart(r, request[d]) /\ Apart(request[d], r)
    BY <1>3, <1>4, <2>1, <2>4 DEF Apart
  <2>6. r.op = "create" /\ r.row.kind = "student" => CountedCode(r.row.key)
    BY <2>1 DEF RegistryInv, StudentCodes
  <2>7. r.id \in final => Repeats(r)
    BY <2>1 DEF RegistryInv, FinalInv, Repeats
  <2>8. request' = [request EXCEPT ![c] = r] /\ UNCHANGED <<registry, auditLog, final, pushes>>
    BY <1>5 DEF WriteRow
  <2>9. QED
    BY <2>1, <2>2, <2>3, <2>5, <2>6, <2>7, <2>8, RequestKeepsInv
<1>6. CASE ~Audited(request[c].op, row.kind)
  <2>1. registry[i] # NoRecord => row.kind = registry[i].kind
    BY <1>2 DEF Successor
  <2>2. row.kind \in Kinds
    <3>1. CASE request[c].op = "create"
      BY <1>2, <3>1, AcceptedIsRecord
    <3>2. CASE request[c].op # "create"
      BY <1>1, <1>2, <2>1, <3>2, StoredIsRecord
    <3>3. QED
      BY <3>1, <3>2
  <2>3. i \in final => row.kind = "care" /\ row.live /\ row.status = "Completed"
    BY <1>2, <2>1, NoRecordType DEF RegistryInv, FinalInv, AllKinds
  <2>4. registry[i] = NoRecord => \A d \in Requests \ {c} : request[d].id # i
    BY <1>2, <1>4 DEF Apart
  <2>5. Storable(c, i, row)
    BY <1>3, <2>1, <2>2, <2>4 DEF Storable
  <2>6. request[c].op = "create" /\ row.kind = "student" => CountedCode(row.key)
    BY DEF RegistryInv, StudentCodes
  <2>7. Commit(c, i, row) /\ auditLog' = auditLog
    BY <1>6 DEF WriteRow
  <2>8. QED
    BY <1>1, <1>2, <1>6, <2>3, <2>5, <2>6, <2>7, CommitKeepsInv
<1>7. QED
  BY <1>5, <1>6

LEMMA InsertKeepsInv ==
    ASSUME RegistryInv, NEW c \in Requests, Insert(c)
    PROVE  RegistryInv'
<1>1. request[c] \in RequestType /\ Held(request[c]) /\ request[c].op = "create"
  BY DEF RegistryInv, RegistryTypes, Insert, Writing
<1>2. request[c].row \in RowType /\ Accepted(request[c].row) /\ request[c].row.live
  BY <1>1 DEF Held, RequestType
<1>3. request[c].id \notin final
  BY <1>1 DEF RegistryInv, FinalInv, Repeats
<1>4. QED
  BY <1>1, <1>2, <1>3, WriteRowKeepsInv DEF Insert

LEMMA SaveKeepsInv ==
    ASSUME RegistryInv, NEW c \in Requests, Save(c)
    PROVE  RegistryInv'
<1>1. request[c] \in RequestType /\ Held(request[c]) /\ request[c].op = "update"
  BY DEF RegistryInv, RegistryTypes, Save, Writing
<1>2. /\ request[c].row \in RowType /\ request[c].row.live
      /\ Successor(request[c].id, request[c].row)
  BY <1>1 DEF Held, RequestType
<1>3. request[c].id \notin final
  BY <1>1 DEF RegistryInv, FinalInv, Repeats
<1>4. QED
  BY <1>1, <1>2, <1>3, WriteRowKeepsInv DEF Save

\* A stored row whose number is its own can be stored again.
LEMMA SuccessorOfStored ==
    ASSUME RegistryInv, NEW i \in Ids, registry[i] # NoRecord,
           NEW row, row.kind = registry[i].kind, row.key = registry[i].key
    PROVE  KeyFree(i, row)
BY DEF RegistryInv, UniqueKeys, KeyFree

LEMMA SetStatusKeepsInv ==
    ASSUME RegistryInv, NEW c \in Requests, SetStatus(c)
    PROVE  RegistryInv'
<1> DEFINE i == request[c].id
           s == request[c].row.status
           row == [registry[i] EXCEPT !.status = s]
<1>1. /\ request[c] \in RequestType /\ Held(request[c]) /\ request[c].op = "status"
      /\ request[c].tx = "none"
  BY DEF RegistryInv, RegistryTypes, SetStatus, Writing, WriteRow
<1>2. i \in Ids /\ registry[i] # NoRecord /\ s \in Statuses(registry[i].kind)
  BY <1>1 DEF Held
<1>3. registry[i] \in RowType /\ (Pushed(i) \/ Accepted(registry[i])) /\ registry[i].live
  BY <1>2, StoredIsRecord DEF SetStatus
<1>4. s \in AllStatuses
  BY <1>1 DEF RequestType, RowType
<1>5. /\ row \in RowType /\ row.kind = registry[i].kind /\ row.key = registry[i].key
      /\ row.status = s /\ row.of = registry[i].of /\ row.type = registry[i].type
      /\ row.details = registry[i].details /\ row.live
  BY <1>3, <1>4 DEF RowType
<1>6. Pushed(i) \/ Accepted(row)
  BY <1>2, <1>3, <1>5 DEF Accepted
<1>7. KeyFree(i, row)
  BY <1>2, <1>5, SuccessorOfStored
<1>8. i \in final => row.live /\ row.status = "Completed"
  BY <1>1, <1>5 DEF RegistryInv, FinalInv, Repeats
<1>9. Successor(i, row)
  BY <1>5, <1>6 DEF Successor
<1>10. WriteRow(c, i, row)
  BY DEF SetStatus
<1> HIDE DEF row
<1>11. QED
  BY <1>1, <1>5, <1>6, <1>7, <1>8, <1>9, <1>10, WriteRowKeepsInv

LEMMA RemoveKeepsInv ==
    ASSUME RegistryInv, NEW c \in Requests, Remove(c)
    PROVE  RegistryInv'
<1> DEFINE i == request[c].id
           row == [registry[i] EXCEPT !.live = FALSE]
<1>1. request[c] \in RequestType /\ Held(request[c]) /\ request[c].op = "delete"
  BY DEF RegistryInv, RegistryTypes, Remove, Writing
<1>2. i \in Ids /\ registry[i] # NoRecord
  BY <1>1 DEF Held
<1>3. registry[i] \in RowType /\ (Pushed(i) \/ Accepted(registry[i]))
  BY <1>2, StoredIsRecord
<1>4. /\ row \in RowType /\ row.kind = registry[i].kind /\ row.key = registry[i].key
      /\ row.status = registry[i].status /\ row.of = registry[i].of
      /\ row.type = registry[i].type /\ row.details = registry[i].details
  BY <1>3 DEF RowType
<1>5. Pushed(i) \/ Accepted(row)
  BY <1>3, <1>4 DEF Accepted
<1>6. KeyFree(i, row)
  BY <1>2, <1>4, SuccessorOfStored
<1>7. i \notin final
  BY <1>1 DEF RegistryInv, FinalInv, Repeats
<1>8. Successor(i, row)
  BY <1>4, <1>5 DEF Successor
<1>9. WriteRow(c, i, row)
  BY DEF Remove
<1> HIDE DEF row
<1>10. QED
  BY <1>1, <1>4, <1>5, <1>6, <1>7, <1>8, <1>9, WriteRowKeepsInv

LEMMA AuditKeepsInv ==
    ASSUME RegistryInv, NEW c \in Requests, Audit(c)
    PROVE  RegistryInv'
<1> DEFINE r == [request[c] EXCEPT !.tx = "entry"]
<1>1. request[c] \in RequestType /\ Held(request[c]) /\ Staged(request[c])
  BY DEF RegistryInv, RegistryTypes
<1>2. /\ r \in RequestType /\ r.op = request[c].op /\ r.id = request[c].id
      /\ r.row = request[c].row /\ r.tx = "entry" /\ request[c].tx = "row"
  BY <1>1 DEF RequestType, Stages, Audit
<1>3. request[c].op # "idle"
  BY <1>1, <1>2 DEF Staged
<1>4. Held(r) /\ Staged(r)
  BY <1>1, <1>2, <1>3 DEF Held, Staged
<1>5. \A d \in Requests \ {c} : Apart(r, request[d]) /\ Apart(request[d], r)
  BY <1>2 DEF RegistryInv, Apart
<1>6. r.op = "create" /\ r.row.kind = "student" => CountedCode(r.row.key)
  BY <1>2 DEF RegistryInv, StudentCodes
<1>7. r.id \in final => Repeats(r)
  BY <1>2 DEF RegistryInv, FinalInv, Repeats
<1>8. request' = [request EXCEPT ![c] = r] /\ UNCHANGED <<registry, auditLog, final, pushes>>
  BY DEF Audit
<1>9. QED
  BY <1>2, <1>4, <1>5, <1>6, <1>7, <1>8, RequestKeepsInv

LEMMA CommitTransactionKeepsInv ==
    ASSUME RegistryInv, NEW c \in Requests, CommitTransaction(c)
    PROVE  RegistryInv'
<1> DEFINE i == request[c].id
           row == request[c].row
<1>1. /\ request[c] \in RequestType /\ Held(request[c]) /\ Staged(request[c])
      /\ request[c].tx # "none"
  BY DEF RegistryInv, RegistryTypes, CommitTransaction
<1>2. /\ request[c].op \notin {"idle", "push"} /\ i \in Ids /\ row \in RowType
      /\ KeyFree(i, row) /\ Audited(request[c].op, row.kind)
  BY <1>1 DEF Held, Staged, RequestType
<1>3. /\ IF request[c].op = "create" THEN registry[i] = NoRecord /\ Accepted(row)
         ELSE registry[i] # NoRecord /\ Successor(i, row)
      /\ row.live \/ request[c].op = "delete"
  BY <1>1, <1>2 DEF Held, Staged, RequestType, Writes
<1>4. /\ registry[i] # NoRecord => row.kind = registry[i].kind
      /\ row.kind \in Kinds
  BY <1>2, <1>3, AcceptedIsRecord, StoredIsRecord DEF Successor
<1>5. \A d \in Requests \ {c} :
        request[d].tx # "none" => request[d].id # i /\ ~SameNumber(row, request[d].row)
  BY <1>1 DEF RegistryInv, Apart
<1>6. registry[i] = NoRecord => \A d \in Requests \ {c} : request[d].id # i
  BY <1>3 DEF RegistryInv, Apart
<1>7. i \in final => row.kind = "care" /\ row.live /\ row.status = "Completed"
  <2>1. i \in final => Repeats(request[c]) /\ registry[i].kind = "care"
    BY DEF RegistryInv, FinalInv
  <2>2. i \in final => registry[i] # NoRecord
    BY <2>1, NoRecordType DEF AllKinds
  <2>3. QED
    BY <1>2, <1>3, <1>4, <2>1, <2>2 DEF Repeats
<1>8. Storable(c, i, row)
  BY <1>2, <1>4, <1>5, <1>6 DEF Storable
<1>9. request[c].op = "create" /\ row.kind = "student" => CountedCode(row.key)
  BY DEF RegistryInv, StudentCodes
<1>10. Commit(c, i, row) /\ auditLog' = auditLog \cup {<<i, request[c].op>>}
  BY DEF CommitTransaction, Entry
<1>11. QED
  BY <1>2, <1>3, <1>7, <1>8, <1>9, <1>10, CommitKeepsInv

\* What a device sent replaces the row that was there.
LEMMA PushSaveKeepsInv ==
    ASSUME RegistryInv, NEW c \in Requests, PushSave(c)
    PROVE  RegistryInv'
<1> DEFINE i == request[c].id
           row == request[c].row
<1>1. request[c] \in RequestType /\ Held(request[c]) /\ request[c].op = "push"
  BY DEF RegistryInv, RegistryTypes, PushSave, Writing
<1>2. /\ i \in Ids /\ registry[i] # NoRecord /\ row \in RowType /\ row.live
      /\ row.kind = registry[i].kind /\ row.kind # "revenue"
  BY <1>1 DEF Held, RequestType
<1>3. row.kind \in Kinds
  BY <1>2, StoredIsRecord
<1>4. StorePushed(c, i, row, "update")
  BY DEF PushSave
<1> HIDE DEF i, row
<1>5. QED
  BY <1>2, <1>3, <1>4, StorePushedKeepsInv

LEMMA AbandonKeepsInv ==
    ASSUME RegistryInv, NEW c \in Requests, Abandon(c)
    PROVE  RegistryInv'
<1>1. /\ IdleRequest \in RequestType /\ Held(IdleRequest) /\ Staged(IdleRequest)
      /\ IdleRequest.op = "idle" /\ IdleRequest.tx = "none" /\ IdleRequest.id = NoKey
  BY NoRecordType DEF IdleRequest
<1>2. IdleRequest.id \notin final
  BY <1>1, RegistryAssumption DEF RegistryInv, RegistryTypes
<1>3. \A d \in Requests : request[d].op # "idle" => request[d].id # NoKey
  BY RegistryAssumption DEF RegistryInv, Held
<1>4. \A d \in Requests \ {c} :
        Apart(IdleRequest, request[d]) /\ Apart(request[d], IdleRequest)
  BY <1>1, <1>3 DEF Apart
<1>5. QED
  BY <1>1, <1>2, <1>4, RequestKeepsInv DEF Abandon

-----------------------------------------------------------------------------
(* What the forms ask for                                                  *)

\* A request that has read: a new row under a free identity, or a change of a row
\* that is there.
LEMMA HoldNewKeepsInv ==
    ASSUME RegistryInv, NEW c \in Requests, NEW row \in RowType, HoldNew(c, row),
           Accepted(row), row.live,
           row.kind = "student" => CountedCode(row.key)
    PROVE  RegistryInv'
<1>1. PICK i \in Ids : /\ registry[i] = NoRecord
                       /\ \A d \in Requests : request[d].id # i
                       /\ Hold(c, "create", i, row)
  BY DEF HoldNew
<1> DEFINE r == [op |-> "create", id |-> i, row |-> row, tx |-> "none"]
<1>2. /\ r \in RequestType /\ r.op = "create" /\ r.id = i /\ r.row = row /\ r.tx = "none"
  BY DEF RequestType, Writes, Stages
<1>3. Held(r) /\ Staged(r)
  BY <1>1, <1>2 DEF Held, Staged
<1>4. \A d \in Requests : request[d].op = "create" => request[d].id # NoKey
  BY RegistryAssumption DEF RegistryInv, Held
<1>5. \A d \in Requests \ {c} : Apart(r, request[d]) /\ Apart(request[d], r)
  BY <1>1, <1>2 DEF Apart
<1>6. r.id \notin final
  BY <1>1, <1>2, NoRecordType DEF RegistryInv, FinalInv, AllKinds
<1>7. request' = [request EXCEPT ![c] = r] /\ UNCHANGED <<registry, auditLog, final, pushes>>
  BY <1>1 DEF Hold
<1> HIDE DEF r
<1>8. QED
  BY <1>2, <1>3, <1>5, <1>6, <1>7, RequestKeepsInv

LEMMA HoldKeepsInv ==
    ASSUME RegistryInv, NEW c \in Requests, NEW op \in {"update", "status", "delete", "push"},
           NEW i \in Ids, registry[i] # NoRecord,
           NEW row \in RowType, Hold(c, op, i, row),
           op = "update" => row.live /\ Successor(i, row),
           op = "status" => row.status \in Statuses(registry[i].kind),
           op = "push" => /\ row.live
                          /\ row.kind = registry[i].kind
                          /\ row.kind # "revenue",
           i \in final => op = "push" \/ (op = "status" /\ row.status = "Completed")
    PROVE  RegistryInv'
<1> DEFINE r == [op |-> op, id |-> i, row |-> row, tx |-> "none"]
<1>1. /\ r \in RequestType /\ r.op = op /\ r.id = i /\ r.row = row /\ r.tx = "none"
  BY DEF RequestType, Writes, Stages
<1>2. Held(r) /\ Staged(r)
  BY <1>1 DEF Held, Staged
<1>3. \A d \in Requests : request[d].op = "create" => request[d].id # i
  BY DEF RegistryInv, Held
<1>4. \A d \in Requests \ {c} : Apart(r, request[d]) /\ Apart(request[d], r)
  BY <1>1, <1>3 DEF Apart
<1>5. request' = [request EXCEPT ![c] = r] /\ UNCHANGED <<registry, auditLog, final, pushes>>
  BY DEF Hold
<1>6. r.id \in final => Repeats(r)
  BY <1>1 DEF Repeats
<1> HIDE DEF r
<1>7. QED
  BY <1>1, <1>2, <1>4, <1>5, <1>6, RequestKeepsInv

\* A live row: what its table accepts, and not finished care if it is something else.
LEMMA LiveRow ==
    ASSUME RegistryInv, NEW kind \in AllKinds, NEW i \in Live(kind)
    PROVE  /\ i \in Ids /\ registry[i] # NoRecord /\ registry[i].kind = kind
           /\ registry[i] \in RowType /\ registry[i].live
           /\ Pushed(i) \/ Accepted(registry[i])
           /\ i \in final => kind = "care" /\ registry[i].status = "Completed"
<1>1. i \in Ids /\ registry[i].kind = kind /\ registry[i].live
  BY DEF Live, OfKind
<1>2. registry[i] # NoRecord
  BY <1>1, NoRecordType
<1>3. registry[i] \in RowType /\ (Pushed(i) \/ Accepted(registry[i]))
  BY <1>1, <1>2, StoredIsRecord
<1>4. QED
  BY <1>1, <1>2, <1>3 DEF RegistryInv, FinalInv, CompletedCareStays

LEMMA StatusesKnown ==
    /\ \A kind : Statuses(kind) \subseteq AllStatuses
    /\ "Active" \in Statuses("person") /\ "Active" \in Statuses("student")
    /\ "Active" \in Statuses("donor") /\ "Active" \in Statuses("revenue")
    /\ "Pending" \in Statuses("donation") /\ "Pending" \in Statuses("care")
BY DEF Statuses, AllStatuses

\* As long as no device wrote a student, every code that is taken is below the next
\* one, which is therefore the smallest free one.
LEMMA NextCode ==
    ASSUME RegistryInv
    PROVE  /\ \A code \in generateStudentCode : code \in Nat /\ CountedCode(code)
           /\ StudentsOnline =>
                \A i \in OfKind("student") : registry[i].key \notin generateStudentCode
<1>1. CountAll \in Nat
  BY FS_CardinalityType DEF RegistryInv, StudentCodes, CountAll
<1>2. \A code \in generateStudentCode : code \in Candidates /\ \A n \in Candidates : code <= n
  BY DEF generateStudentCode
<1>3. \A code \in Candidates : code \in Nat /\ CountAll + 1 <= code
  BY <1>1, RegistryAssumption DEF Candidates
<1>4. ASSUME StudentsOnline
      PROVE  /\ \A i \in OfKind("student") : registry[i].key # CountAll + 1
             /\ \A code \in generateStudentCode : code = CountAll + 1
  <2>1. \A i \in OfKind("student") : registry[i].key \in 1..CountAll
    BY <1>4 DEF RegistryInv, StudentCodes
  <2>2. \A i \in OfKind("student") : registry[i].key # CountAll + 1
    BY <1>1, <2>1
  <2>3. CountAll + 1 \in Candidates
    BY <1>1, <2>2, RegistryAssumption DEF Candidates, Taken, Live
  <2>4. QED
    BY <1>1, <1>2, <1>3, <2>2, <2>3
<1>5. QED
  BY <1>1, <1>2, <1>3, <1>4 DEF CountedCode

\* A new record is a live row of its kind, with its status and number.
LEMMA NewRecord ==
    ASSUME NEW kind \in Kinds, NEW status \in AllStatuses, NEW key \in AllNumbers
    PROVE  /\ Record(kind, status, key) \in RowType
           /\ Record(kind, status, key).kind = kind
           /\ Record(kind, status, key).status = status
           /\ Record(kind, status, key).key = key
           /\ Record(kind, status, key).live
BY NoRecordType DEF Record, RowType

\* A status of the row's own kind is held for it; care stays what it is if it is done.
LEMMA StatusKeepsInv ==
    ASSUME RegistryInv, NEW c \in Requests, NEW kind \in AllKinds, NEW i \in Ids,
           i \in OfKind(kind), NEW status \in Statuses(kind),
           kind = "care" => (registry[i].status = "Completed" => status = "Completed"),
           HoldStatus(c, i, status)
    PROVE  RegistryInv'
<1> DEFINE row == [NoRecord EXCEPT !.status = status]
<1>1. registry[i] # NoRecord /\ registry[i].kind = kind
  BY NoRecordType DEF OfKind
<1>2. row \in RowType /\ row.status = status
  BY NoRecordType, StatusesKnown DEF RowType
<1>3. i \in final => kind = "care" /\ registry[i].status = "Completed"
  BY <1>1 DEF RegistryInv, FinalInv, CompletedCareStays
<1>4. Hold(c, "status", i, row)
  BY DEF HoldStatus
<1> HIDE DEF row
<1>5. QED
  BY <1>1, <1>2, <1>3, <1>4, HoldKeepsInv

\* A deletion is held for a live row, unless it is completed care.
LEMMA DeletionKeepsInv ==
    ASSUME RegistryInv, NEW c \in Requests, NEW kind \in AllKinds, NEW i \in Live(kind),
           kind = "care" => registry[i].status # "Completed",
           HoldDeletion(c, i)
    PROVE  RegistryInv'
<1>1. i \in Ids /\ registry[i] # NoRecord /\ i \notin final
  BY LiveRow
<1>2. Hold(c, "delete", i, NoRecord)
  BY DEF HoldDeletion
<1>3. QED
  BY <1>1, <1>2, NoRecordType, HoldKeepsInv

\* A form changes a live row, unless it is completed care.
LEMMA ChangeKeepsInv ==
    ASSUME RegistryInv, NEW c \in Requests, NEW kind \in AllKinds, NEW i \in Live(kind),
           kind = "care" => registry[i].status # "Completed",
           NEW row \in RowType, row.kind = kind, row.live,
           Pushed(i) \/ Accepted(row),
           kind = "student" => row.key = registry[i].key,
           Hold(c, "update", i, row)
    PROVE  RegistryInv'
<1>1. /\ i \in Ids /\ registry[i] # NoRecord /\ registry[i].kind = kind
      /\ i \notin final
  BY LiveRow
<1>2. Successor(i, row)
  BY <1>1 DEF Successor
<1>3. QED
  BY <1>1, <1>2, HoldKeepsInv

\* Persons.
LEMMA PersonsKeepInv ==
    ASSUME RegistryInv, NEW c \in Requests,
           PostPerson(c) \/ PutPerson(c) \/ PatchPerson(c) \/ RemovePerson(c)
    PROVE  RegistryInv'
<1>1. CASE PostPerson(c)
  <2>1. PICK key \in Keys : HoldNew(c, Record("person", "Active", key))
    BY <1>1 DEF PostPerson, CreatePerson
  <2> DEFINE row == Record("person", "Active", key)
  <2>2. "person" \in Kinds
    BY <2>1 DEF HoldNew, Record, NoRecord
  <2>3. row \in RowType /\ row.kind = "person" /\ row.status = "Active" /\ row.live
    BY <2>2, NewRecord DEF AllStatuses, AllNumbers
  <2>4. Accepted(row)
    BY <2>2, <2>3, StatusesKnown DEF Accepted
  <2>5. HoldNew(c, row)
    BY <2>1
  <2> HIDE DEF row
  <2>6. QED
    BY <2>3, <2>4, <2>5, HoldNewKeepsInv
<1>2. CASE PutPerson(c)
  <2>1. PICK i \in Ids, key \in Keys : UpdatePerson(c, i, key)
    BY <1>2 DEF PutPerson
  <2> DEFINE row == [registry[i] EXCEPT !.key = key]
  <2>2. i \in Live("person") /\ Hold(c, "update", i, row)
    BY <2>1 DEF UpdatePerson
  <2>3. /\ registry[i].kind = "person" /\ registry[i] \in RowType /\ registry[i].live
        /\ Pushed(i) \/ Accepted(registry[i])
    BY <2>2, LiveRow DEF AllKinds
  <2>4. row \in RowType /\ row.kind = "person" /\ row.status = registry[i].status /\ row.live
    BY <2>3 DEF RowType, AllNumbers
  <2>5. Pushed(i) \/ Accepted(row)
    BY <2>3, <2>4 DEF Accepted
  <2> HIDE DEF row
  <2>6. QED
    BY <2>2, <2>4, <2>5, ChangeKeepsInv DEF AllKinds
<1>3. CASE PatchPerson(c)
  <2>1. PICK i \in Ids : i \in OfKind("person") /\ HoldStatus(c, i, "Active")
    BY <1>3 DEF PatchPerson, UpdatePersonStatus, Live
  <2>2. QED
    BY <2>1, StatusKeepsInv, StatusesKnown DEF AllKinds
<1>4. CASE RemovePerson(c)
  <2>1. PICK i \in Ids : i \in Live("person") /\ HoldDeletion(c, i)
    BY <1>4 DEF RemovePerson, DeletePerson
  <2>2. QED
    BY <2>1, DeletionKeepsInv DEF AllKinds
<1>5. QED
  BY <1>1, <1>2, <1>3, <1>4

\* Students: the code is the next one, and no form changes it.
LEMMA StudentsKeepInv ==
    ASSUME RegistryInv, NEW c \in Requests,
           PostStudent(c) \/ PutStudent(c) \/ PatchStudent(c) \/ RemoveStudent(c)
    PROVE  RegistryInv'
<1>1. CASE PostStudent(c)
  <2>1. PICK p \in Ids, code \in generateStudentCode :
             HoldNew(c, [Record("student", "Active", code) EXCEPT !.of = p])
    BY <1>1 DEF PostStudent, CreateStudent
  <2> DEFINE new == Record("student", "Active", code)
             row == [new EXCEPT !.of = p]
  <2>2. code \in Nat /\ CountedCode(code)
    BY NextCode
  <2>3. "student" \in Kinds
    BY <2>1 DEF HoldNew, Record, NoRecord
  <2>4. /\ new \in RowType /\ new.kind = "student" /\ new.status = "Active"
        /\ new.key = code /\ new.live
    BY <2>2, <2>3, NewRecord DEF AllStatuses, AllNumbers
  <2>5. HoldNew(c, row)
    BY <2>1
  <2> HIDE DEF new
  <2>6. /\ row \in RowType /\ row.kind = "student" /\ row.status = "Active"
        /\ row.key = code /\ row.live /\ row.of = p
    BY <2>4 DEF RowType
  <2>7. Accepted(row)
    BY <2>2, <2>3, <2>6, StatusesKnown DEF Accepted
  <2> HIDE DEF row
  <2>8. QED
    BY <2>2, <2>5, <2>6, <2>7, HoldNewKeepsInv
<1>2. CASE PutStudent(c)
  <2>1. PICK i \in Ids, p \in Ids : UpdateStudent(c, i, p)
    BY <1>2 DEF PutStudent
  <2> DEFINE row == IF registry[i].of \in Live("person") THEN registry[i]
                    ELSE [registry[i] EXCEPT !.of = p]
  <2>2. i \in Live("student") /\ Hold(c, "update", i, row)
    BY <2>1 DEF UpdateStudent
  <2>3. /\ registry[i].kind = "student" /\ registry[i] \in RowType /\ registry[i].live
        /\ Pushed(i) \/ Accepted(registry[i])
    BY <2>2, LiveRow DEF AllKinds
  <2>4. /\ row \in RowType /\ row.kind = "student" /\ row.status = registry[i].status
        /\ row.key = registry[i].key /\ row.live
        /\ row.of \in {p, registry[i].of}
    BY <2>3 DEF RowType
  <2>5. Pushed(i) \/ Accepted(row)
    BY <2>3, <2>4 DEF Accepted
  <2> HIDE DEF row
  <2>6. QED
    BY <2>2, <2>4, <2>5, ChangeKeepsInv DEF AllKinds
<1>3. CASE PatchStudent(c)
  <2>1. PICK i \in Ids : i \in OfKind("student") /\ HoldStatus(c, i, "Active")
    BY <1>3 DEF PatchStudent, UpdateStudentStatus, Live
  <2>2. QED
    BY <2>1, StatusKeepsInv, StatusesKnown DEF AllKinds
<1>4. CASE RemoveStudent(c)
  <2>1. PICK i \in Ids : i \in Live("student") /\ HoldDeletion(c, i)
    BY <1>4 DEF RemoveStudent, DeleteStudent
  <2>2. QED
    BY <2>1, DeletionKeepsInv DEF AllKinds
<1>5. QED
  BY <1>1, <1>2, <1>3, <1>4

\* Donors: their number is that of their type.
LEMMA DonorsKeepInv ==
    ASSUME RegistryInv, NEW c \in Requests,
           PostDonor(c) \/ PutDonor(c) \/ PatchDonor(c) \/ RemoveDonor(c)
    PROVE  RegistryInv'
<1>1. \A type \in DonorTypes, nic, registration \in Keys \cup {NoKey} :
        \A key \in donorKeys(type, nic, registration) :
            key \in AllNumbers /\ key[1] = type
  BY DEF donorKeys, AllNumbers, DonorTypes
<1>2. CASE PostDonor(c)
  <2>0. PICK type \in DonorTypes, nic \in Keys \cup {NoKey}, registration \in Keys \cup {NoKey} :
             CreateDonor(c, type, nic, registration)
    BY <1>2 DEF PostDonor
  <2>1. PICK key \in donorKeys(type, nic, registration) :
             HoldNew(c, [Record("donor", "Active", key) EXCEPT !.type = type])
    BY <2>0 DEF CreateDonor
  <2> DEFINE new == Record("donor", "Active", key)
             row == [new EXCEPT !.type = type]
  <2>2. "donor" \in Kinds
    BY <2>1 DEF HoldNew, Record, NoRecord
  <2>3. key \in AllNumbers /\ key[1] = type
    BY <1>1
  <2>4. /\ new \in RowType /\ new.kind = "donor" /\ new.status = "Active"
        /\ new.key = key /\ new.live
    BY <2>2, <2>3, NewRecord DEF AllStatuses
  <2>5. HoldNew(c, row)
    BY <2>1
  <2> HIDE DEF new
  <2>6. /\ row \in RowType /\ row.kind = "donor" /\ row.status = "Active"
        /\ row.key = key /\ row.live /\ row.type = type
    BY <2>4 DEF RowType, AllTypes
  <2> HIDE DEF row
  <2>7. Accepted(row)
    BY <2>2, <2>3, <2>6, StatusesKnown DEF Accepted
  <2>8. QED
    BY <2>5, <2>6, <2>7, HoldNewKeepsInv
<1>3. CASE PutDonor(c)
  <2>1. PICK i \in Ids, type \in DonorTypes, nic \in Keys \cup {NoKey},
             registration \in Keys \cup {NoKey}, status \in Statuses("donor") :
             UpdateDonor(c, i, type, nic, registration, status)
    BY <1>3 DEF PutDonor
  <2>2. PICK key \in donorKeys(type, nic, registration) :
             Hold(c, "update", i, [registry[i] EXCEPT !.key = key, !.type = type, !.status = status])
    BY <2>1 DEF UpdateDonor
  <2> DEFINE row == [registry[i] EXCEPT !.key = key, !.type = type, !.status = status]
  <2>3. i \in Live("donor") /\ Hold(c, "update", i, row)
    BY <2>1, <2>2 DEF UpdateDonor
  <2>4. key \in AllNumbers /\ key[1] = type
    BY <1>1
  <2>5. /\ registry[i].kind = "donor" /\ registry[i] \in RowType /\ registry[i].live
        /\ Pushed(i) \/ Accepted(registry[i])
    BY <2>3, LiveRow DEF AllKinds
  <2>6. status \in AllStatuses /\ type \in AllTypes
    BY StatusesKnown DEF AllTypes
  <2>7. /\ row \in RowType /\ row.kind = "donor" /\ row.status = status
        /\ row.key = key /\ row.type = type /\ row.live
    BY <2>4, <2>5, <2>6 DEF RowType
  <2>8. Pushed(i) \/ Accepted(row)
    BY <2>4, <2>5, <2>7 DEF Accepted
  <2> HIDE DEF row
  <2>9. QED
    BY <2>3, <2>7, <2>8, ChangeKeepsInv DEF AllKinds
<1>4. CASE PatchDonor(c)
  <2>1. PICK i \in Ids, status \in Statuses("donor") :
             i \in OfKind("donor") /\ HoldStatus(c, i, status)
    BY <1>4 DEF PatchDonor, UpdateDonorStatus
  <2>2. QED
    BY <2>1, StatusKeepsInv DEF AllKinds
<1>5. CASE RemoveDonor(c)
  <2>1. PICK i \in Ids : i \in Live("donor") /\ HoldDeletion(c, i)
    BY <1>5 DEF RemoveDonor, DeleteDonor
  <2>2. QED
    BY <2>1, DeletionKeepsInv DEF AllKinds
<1>6. QED
  BY <1>2, <1>3, <1>4, <1>5

\* Donations: cash is money and nothing else, anything else has its items, after both
\* forms.
LEMMA DonationsKeepInv ==
    ASSUME RegistryInv, NEW c \in Requests,
           PostDonation(c) \/ PutDonation(c) \/ PatchDonation(c) \/ RemoveDonation(c)
    PROVE  RegistryInv'
<1>1. \A type \in DonationTypes, given \in Details :
        validateDonationDetails(type, given) =>
            \A details \in {createdDetails(type, given), applyDonationUpdate(type, given)} :
                /\ details \in Details
                /\ IF type = "Cash" THEN details = [amount |-> TRUE, items |-> FALSE]
                                    ELSE details.items
  <2> SUFFICES ASSUME NEW type, NEW given \in Details, validateDonationDetails(type, given)
               PROVE  \A details \in {createdDetails(type, given), applyDonationUpdate(type, given)} :
                        /\ details \in Details
                        /\ IF type = "Cash" THEN details = [amount |-> TRUE, items |-> FALSE]
                                            ELSE details.items
    OBVIOUS
  <2>1. CASE type = "Cash"
    <3>1. given.amount = TRUE
      BY <2>1 DEF validateDonationDetails, Details
    <3>2. [given EXCEPT !.items = FALSE] = [amount |-> TRUE, items |-> FALSE]
      <4> DEFINE x == [given EXCEPT !.items = FALSE]
      <4>1. x \in Details /\ x.amount = TRUE /\ x.items = FALSE
        BY <3>1 DEF Details
      <4> HIDE DEF x
      <4>2. x = [amount |-> x.amount, items |-> x.items]
        BY <4>1 DEF Details
      <4>3. QED
        BY <4>1, <4>2 DEF x
    <3>3. QED
      BY <2>1, <3>2 DEF createdDetails, applyDonationUpdate, Details
  <2>2. CASE type # "Cash"
    BY <2>2 DEF validateDonationDetails, createdDetails, applyDonationUpdate, Details
  <2>3. QED
    BY <2>1, <2>2
<1>2. CASE PostDonation(c)
  <2>1. PICK d \in Ids, type \in DonationTypes, given \in Details, reference \in Keys \cup {NoKey} :
             CreateDonation(c, d, type, given, reference)
    BY <1>2 DEF PostDonation
  <2> DEFINE details == createdDetails(type, given)
  <2>2. PICK key \in generateReferenceNo(reference) :
             HoldNew(c, [Record("donation", "Pending", key) EXCEPT
                            !.of = d, !.type = type, !.details = details])
    BY <2>1 DEF CreateDonation
  <2> DEFINE new == Record("donation", "Pending", key)
             row == [new EXCEPT !.of = d, !.type = type, !.details = details]
  <2>3. "donation" \in Kinds
    BY <2>2 DEF HoldNew, Record, NoRecord
  <2>4. key \in AllNumbers
    BY DEF generateReferenceNo, AllNumbers
  <2>5. /\ new \in RowType /\ new.kind = "donation" /\ new.status = "Pending" /\ new.live
    BY <2>3, <2>4, NewRecord DEF AllStatuses
  <2>6. HoldNew(c, row)
    BY <2>2
  <2>7. /\ details \in Details
        /\ IF type = "Cash" THEN details = [amount |-> TRUE, items |-> FALSE]
                            ELSE details.items
    BY <1>1, <2>1 DEF CreateDonation
  <2> HIDE DEF new, details
  <2>8. /\ row \in RowType /\ row.kind = "donation" /\ row.status = "Pending" /\ row.live
        /\ row.of = d /\ row.type = type /\ row.details = details
    BY <2>5, <2>7 DEF RowType, AllTypes
  <2> HIDE DEF row
  <2>9. Accepted(row)
    BY <2>3, <2>7, <2>8, StatusesKnown DEF Accepted
  <2>10. QED
    BY <2>6, <2>8, <2>9, HoldNewKeepsInv
<1>3. CASE PutDonation(c)
  <2>1. PICK i \in Ids, type \in DonationTypes, given \in Details,
             status \in Statuses("donation") : UpdateDonation(c, i, type, given, status)
    BY <1>3 DEF PutDonation
  <2> DEFINE details == applyDonationUpdate(type, given)
             row == [registry[i] EXCEPT !.type = type, !.details = details, !.status = status]
  <2>2. i \in Live("donation") /\ Hold(c, "update", i, row)
    BY <2>1 DEF UpdateDonation
  <2>3. /\ registry[i].kind = "donation" /\ registry[i] \in RowType /\ registry[i].live
        /\ Pushed(i) \/ Accepted(registry[i])
    BY <2>2, LiveRow DEF AllKinds
  <2>4. /\ details \in Details
        /\ IF type = "Cash" THEN details = [amount |-> TRUE, items |-> FALSE]
                            ELSE details.items
    BY <1>1, <2>1 DEF UpdateDonation
  <2>5. status \in AllStatuses /\ type \in AllTypes
    BY StatusesKnown DEF AllTypes
  <2> HIDE DEF details
  <2>6. /\ row \in RowType /\ row.kind = "donation" /\ row.status = status /\ row.live
        /\ row.of = registry[i].of /\ row.type = type /\ row.details = details
    BY <2>3, <2>4, <2>5 DEF RowType
  <2> HIDE DEF row
  <2>7. Pushed(i) \/ Accepted(row)
    BY <2>3, <2>4, <2>6 DEF Accepted
  <2>8. QED
    BY <2>2, <2>6, <2>7, ChangeKeepsInv DEF AllKinds
<1>4. CASE PatchDonation(c)
  <2>1. PICK i \in Ids, status \in Statuses("donation") :
             i \in OfKind("donation") /\ HoldStatus(c, i, status)
    BY <1>4 DEF PatchDonation, UpdateDonationStatus, Live
  <2>2. QED
    BY <2>1, StatusKeepsInv DEF AllKinds
<1>5. CASE RemoveDonation(c)
  <2>1. PICK i \in Ids : i \in Live("donation") /\ HoldDeletion(c, i)
    BY <1>5 DEF RemoveDonation, DeleteDonation
  <2>2. QED
    BY <2>1, DeletionKeepsInv DEF AllKinds
<1>6. QED
  BY <1>2, <1>3, <1>4, <1>5

\* Care: what is completed is neither edited nor deleted, and set to nothing else.
LEMMA CareKeepsInv ==
    ASSUME RegistryInv, NEW c \in Requests,
           PostCare(c) \/ PutCare(c) \/ PatchCare(c) \/ RemoveCare(c)
    PROVE  RegistryInv'
<1>1. CASE PostCare(c)
  <2> DEFINE row == Record("care", "Pending", NoKey)
  <2>1. HoldNew(c, row)
    BY <1>1 DEF PostCare, CreateCareProvided
  <2>2. "care" \in Kinds
    BY <2>1 DEF HoldNew, Record, NoRecord
  <2>3. row \in RowType /\ row.kind = "care" /\ row.status = "Pending" /\ row.live
    BY <2>2, NewRecord DEF AllStatuses, AllNumbers
  <2> HIDE DEF row
  <2>4. Accepted(row)
    BY <2>2, <2>3, StatusesKnown DEF Accepted
  <2>5. QED
    BY <2>1, <2>3, <2>4, HoldNewKeepsInv
<1>2. CASE PutCare(c)
  <2>1. PICK i \in Ids : /\ i \in Live("care") /\ registry[i].status # "Completed"
                         /\ Hold(c, "update", i, registry[i])
    BY <1>2 DEF PutCare, UpdateCareProvided
  <2>2. /\ registry[i].kind = "care" /\ registry[i] \in RowType /\ registry[i].live
        /\ Pushed(i) \/ Accepted(registry[i])
    BY <2>1, LiveRow DEF AllKinds
  <2>3. QED
    BY <2>1, <2>2, ChangeKeepsInv DEF AllKinds
<1>3. CASE PatchCare(c)
  <2>1. PICK i \in Ids, status \in Statuses("care") :
             /\ i \in OfKind("care") /\ HoldStatus(c, i, status)
             /\ registry[i].status = "Completed" => status = "Completed"
    BY <1>3 DEF PatchCare, UpdateCareProvidedStatus, Live
  <2>2. QED
    BY <2>1, StatusKeepsInv DEF AllKinds
<1>4. CASE RemoveCare(c)
  <2>1. PICK i \in Ids : /\ i \in Live("care") /\ registry[i].status # "Completed"
                         /\ HoldDeletion(c, i)
    BY <1>4 DEF RemoveCare, DeleteCareProvided
  <2>2. QED
    BY <2>1, DeletionKeepsInv DEF AllKinds
<1>5. QED
  BY <1>1, <1>2, <1>3, <1>4

\* Revenue: the reference may be absent.
LEMMA RevenueKeepsInv ==
    ASSUME RegistryInv, NEW c \in Requests,
           PostRevenue(c) \/ PutRevenue(c) \/ RemoveRevenue(c)
    PROVE  RegistryInv'
<1>1. CASE PostRevenue(c)
  <2>1. PICK key \in Keys \cup {NoKey} : HoldNew(c, Record("revenue", "Active", key))
    BY <1>1 DEF PostRevenue, CreateRevenue
  <2> DEFINE row == Record("revenue", "Active", key)
  <2>2. "revenue" \in Kinds
    BY <2>1 DEF HoldNew, Record, NoRecord
  <2>3. row \in RowType /\ row.kind = "revenue" /\ row.status = "Active" /\ row.live
    BY <2>2, NewRecord DEF AllStatuses, AllNumbers
  <2>4. HoldNew(c, row)
    BY <2>1
  <2> HIDE DEF row
  <2>5. Accepted(row)
    BY <2>2, <2>3 DEF Accepted, Statuses
  <2>6. QED
    BY <2>3, <2>4, <2>5, HoldNewKeepsInv
<1>2. CASE PutRevenue(c)
  <2>1. PICK i \in Ids, key \in Keys \cup {NoKey} : UpdateRevenue(c, i, key)
    BY <1>2 DEF PutRevenue
  <2> DEFINE row == [registry[i] EXCEPT !.key = key]
  <2>2. i \in Live("revenue") /\ Hold(c, "update", i, row)
    BY <2>1 DEF UpdateRevenue
  <2>3. /\ registry[i].kind = "revenue" /\ registry[i] \in RowType /\ registry[i].live
        /\ Pushed(i) \/ Accepted(registry[i])
    BY <2>2, LiveRow DEF AllKinds
  <2>4. row \in RowType /\ row.kind = "revenue" /\ row.status = registry[i].status /\ row.live
    BY <2>3 DEF RowType, AllNumbers
  <2> HIDE DEF row
  <2>5. Pushed(i) \/ Accepted(row)
    BY <2>3, <2>4 DEF Accepted
  <2>6. QED
    BY <2>2, <2>4, <2>5, ChangeKeepsInv DEF AllKinds
<1>3. CASE RemoveRevenue(c)
  <2>1. PICK i \in Ids : i \in Live("revenue") /\ HoldDeletion(c, i)
    BY <1>3 DEF RemoveRevenue, DeleteRevenue
  <2>2. QED
    BY <2>1, DeletionKeepsInv DEF AllKinds
<1>4. QED
  BY <1>1, <1>2, <1>3

\* A push: a row entered by a device, or the row it will replace one with.
LEMMA PushKeepsInv ==
    ASSUME RegistryInv, NEW c \in Requests, PostPush(c)
    PROVE  RegistryInv'
<1>1. PICK kind \in Pushable, i \in Ids :
           PushCreate(c, kind, i) \/ PushUpdate(c, kind, i) \/ PushDelete(c, kind, i)
  BY DEF PostPush
<1>2. kind \in Kinds /\ kind \in AllKinds /\ kind # "revenue"
  BY RegistryAssumption DEF Pushable
<1>3. ASSUME NEW row \in Payloads(kind)
      PROVE  row \in RowType /\ row.kind = kind /\ row.live
  <2>1. PICK status \in Statuses(kind),
             key \in PushedKeys(kind), p \in PushedPersons(kind), type \in PushedTypes(kind) :
             row = Payload(kind, status, key, p, type)
    BY <1>3 DEF Payloads
  <2>2. key \in AllNumbers
    BY RegistryAssumption DEF PushedKeys, AllNumbers, DonorTypes
  <2>3. status \in AllStatuses /\ p \in Ids \cup {NoKey} /\ type \in AllTypes
    BY StatusesKnown DEF PushedPersons, PushedTypes, OfKind, AllTypes, DonorTypes
  <2> DEFINE new == Record(kind, status, key)
  <2>4. new \in RowType /\ new.kind = kind /\ new.live
    BY <1>2, <2>2, <2>3, NewRecord
  <2>5. row = [new EXCEPT !.of = p, !.type = type]
    BY <2>1 DEF Payload
  <2> HIDE DEF new
  <2>6. QED
    BY <2>3, <2>4, <2>5 DEF RowType
<1>4. CASE PushCreate(c, kind, i)
  <2>1. PICK row \in Payloads(kind) : StorePushed(c, i, row, "create")
    BY <1>4 DEF PushCreate
  <2>2. registry[i] = NoRecord /\ \A d \in Requests : request[d].id # i
    BY <1>4 DEF PushCreate
  <2>3. QED
    BY <1>2, <1>3, <2>1, <2>2, StorePushedKeepsInv
<1>5. CASE PushUpdate(c, kind, i)
  <2>1. PICK row \in Payloads(kind) : Hold(c, "push", i, row)
    BY <1>5 DEF PushUpdate
  <2>2. registry[i] # NoRecord /\ registry[i].kind = kind
    BY <1>2, <1>5, LiveRow DEF PushUpdate
  <2>3. QED
    BY <1>2, <1>3, <2>1, <2>2, HoldKeepsInv
<1>6. CASE PushDelete(c, kind, i)
  <2>1. /\ registry[i] # NoRecord /\ registry[i].kind = kind
        /\ registry[i] \in RowType /\ registry[i].live
    BY <1>2, <1>6, LiveRow DEF PushDelete
  <2>2. Hold(c, "push", i, registry[i])
    BY <1>6 DEF PushDelete
  <2>3. QED
    BY <1>2, <2>1, <2>2, HoldKeepsInv
<1>7. QED
  BY <1>1, <1>4, <1>5, <1>6

-----------------------------------------------------------------------------
(* The theorems                                                            *)

LEMMA NextKeepsInv == RegistryInv /\ [RegistryNext]_registryVars => RegistryInv'
<1> SUFFICES ASSUME RegistryInv, [RegistryNext]_registryVars PROVE RegistryInv'
  OBVIOUS
<1>1. ASSUME NEW c \in Requests, RegistryStep(c) PROVE RegistryInv'
  BY <1>1, PersonsKeepInv, StudentsKeepInv, DonorsKeepInv, DonationsKeepInv, CareKeepsInv,
     RevenueKeepsInv, PushKeepsInv, PushSaveKeepsInv, InsertKeepsInv, SaveKeepsInv, SetStatusKeepsInv, RemoveKeepsInv,
     AuditKeepsInv, CommitTransactionKeepsInv, AbandonKeepsInv DEF RegistryStep, Arrives
<1>2. CASE UNCHANGED registryVars
  <2>1. /\ registry' = registry /\ request' = request /\ auditLog' = auditLog
        /\ final' = final /\ pushes' = pushes
    BY <1>2 DEF registryVars
  <2>2. CASE Requests = {}
    BY <2>1, <2>2 DEF RegistryInv, RegistryTypes, StoredRows, UniqueKeys, KeyFree, OfKind,
       StudentCodes, StudentsOnline, CountedCode, CountAll, ChangesAreAudited, PushesInv,
       FinalInv, CompletedCareStays, Accepted, Pushed
  <2>3. ASSUME NEW c \in Requests PROVE RegistryInv'
    <3>1. request[c] \in RequestType /\ Held(request[c]) /\ Staged(request[c])
      BY DEF RegistryInv, RegistryTypes
    <3>2. \A d \in Requests \ {c} :
            Apart(request[c], request[d]) /\ Apart(request[d], request[c])
      BY DEF RegistryInv
    <3>3. /\ request[c].op = "create" /\ request[c].row.kind = "student"
                => CountedCode(request[c].row.key)
          /\ request[c].id \in final => Repeats(request[c])
      BY DEF RegistryInv, StudentCodes, FinalInv
    <3>4. request' = [request EXCEPT ![c] = request[c]]
      BY <2>1 DEF RegistryInv, RegistryTypes
    <3>5. QED
      BY <2>1, <3>1, <3>2, <3>3, <3>4, RequestKeepsInv
  <2>4. QED
    BY <2>2, <2>3
<1>3. QED
  BY <1>1, <1>2 DEF RegistryNext

\* Whatever requests overlap and wherever they fail, the invariant holds.
THEOREM RegistryInvariant == RegistrySpec => []RegistryInv
BY InitInv, NextKeepsInv, PTL DEF RegistrySpec

\* The audit log has the creation of exactly the rows that no device entered, the
\* deletion of every revenue record that is gone, and nothing of a row that is not there.
THEOREM AuditIsComplete == RegistrySpec => []ChangesAreAudited
<1>1. RegistryInv => ChangesAreAudited
  BY DEF RegistryInv
<1>2. QED
  BY <1>1, RegistryInvariant, PTL

\* Every row that no device wrote is one its table and its rules accept, a number with a
\* unique index belongs to one row, and the next student code is free as long as no
\* device wrote a student.
THEOREM KeysStayUnique == RegistrySpec => []KeysAreUnique
<1>1. ASSUME RegistryInv PROVE KeysAreUnique
  <2>1. RegistryTypeOK
    <3>1. \A c \in Requests : request[c] \in RequestType /\ Held(request[c]) /\ Staged(request[c])
      BY <1>1 DEF RegistryInv, RegistryTypes
    <3>2. \A c \in Requests :
            request[c].op \in {"create", "update"} \/ request[c].tx # "none"
                => Pushed(request[c].id) \/ Accepted(request[c].row)
      BY <3>1 DEF Held, Staged, Successor
    <3>3. \A c \in Requests : request[c].op # "idle" => request[c].id \in Ids
      BY <3>1 DEF Held
    <3>4. QED
      BY <1>1, <3>1, <3>2, <3>3
         DEF RegistryInv, RegistryTypes, StoredRows, RegistryTypeOK, RequestType
  <2>2. \A kind \in Indexed : \A i, j \in OfKind(kind) :
          i # j /\ registry[i].key # NoKey => registry[i].key # registry[j].key
    BY <1>1, NoRecordType, RegistryAssumption
       DEF RegistryInv, UniqueKeys, KeyFree, OfKind, AllKinds
  <2>3. QED
    BY <1>1, <2>1, <2>2, NextCode DEF KeysAreUnique, StudentsOnline
<1>2. QED
  BY <1>1, RegistryInvariant, PTL

\* Care that was completed with nobody else at work on it is never changed back, edited
\* or deleted by a request of the pages: only what a device pushes undoes it.
THEOREM CompletedCareIsFinal == RegistrySpec => []CompletedCareStays
<1>1. RegistryInv => CompletedCareStays
  BY DEF RegistryInv
<1>2. QED
  BY <1>1, RegistryInvariant, PTL

(***************************************************************************)
(* The lists.  A reader who is at a page has seen what of the rows wanted  *)
(* lies in any part of that length that starts the list.  A row that is    *)
(* added in front only pushes rows on into pages still to come.            *)
(***************************************************************************)

AllFields == UNION {list.fields : list \in Lists}

ItemRow == [at : Nat, date : Nat, created_by_id : Members \cup {NoMember},
            recipient_id : Members \cup {NoMember}, facts : SUBSET AllFields,
            read : BOOLEAN, deleted : BOOLEAN]

WalkType == [step : {"none", "count", "find", "done"}, list : Lists,
             owner : Members \cup {NoMember}, query : SUBSET AllFields,
             size : 1 .. MaxListPage, page : Nat \ {0}, total : Nat,
             shown : SUBSET Items, wanted : SUBSET Items, settled : BOOLEAN]

\* Rows keep the instants they were created at, one each.
InstantsInv ==
    /\ IsFiniteSet(Stored)
    /\ \A i \in Stored : listRows[i].at \in 1 .. Cardinality(Stored)
    /\ \A i, j \in Stored : listRows[i].at = listRows[j].at => i = j

\* What is wanted of every part of n rows that starts the list is in "seen".
SeenTo(n, seen) ==
    \A part \in SUBSET Walked :
        Starts(part, Walked, walk.list.order) /\ Cardinality(part) <= n
            => part \cap walk.wanted \subseteq seen

WalkInv ==
    /\ walk.step \in {"count", "find"} /\ walk.settled =>
           /\ walk.wanted \subseteq Walked
           /\ SeenTo((walk.page - 1) * walk.size, walk.shown)
    /\ walk.step = "find" /\ walk.settled => walk.total = Cardinality(Walked)
    /\ NothingMissed

ListsInv ==
    /\ listRows \in [Items -> ItemRow]
    /\ walk \in WalkType
    /\ InstantsInv
    /\ WalkInv

-----------------------------------------------------------------------------
(* Lists, rows and numbers                                                 *)

Orders == {"created_at DESC", "date DESC, created_at DESC", "date DESC", "date ASC"}

LEMMA ListsAre ==
    /\ \A l \in Lists : l.order \in Orders /\ l.fields \subseteq AllFields
    /\ Inbox \in Lists
<1>1. Inbox \in Lists
  BY DEF Lists
<1>2. \A l \in Lists : l.order \in Orders
  <2>2. Inbox.order \in Orders /\ UnreadInbox.order = Inbox.order
    BY DEF Inbox, UnreadInbox, Listing, Orders
  <2>3. /\ PersonsList.order \in Orders /\ Students.order \in Orders /\ Donors.order \in Orders
        /\ CareList.order \in Orders /\ LoansList.order \in Orders /\ UsersList.order \in Orders
    BY DEF PersonsList, Students, Donors, CareList, LoansList, UsersList, Listing, Orders
  <2>4. /\ Donations.order \in Orders /\ AidRequestsList.order \in Orders
        /\ RepaymentsList.order \in Orders /\ RevenueList.order \in Orders
    BY DEF Donations, AidRequestsList, RepaymentsList, RevenueList, Listing, Orders
  <2>5. AuditLogs.order \in Orders /\ FilesList.order \in Orders /\ Sent.order \in Orders
    BY DEF AuditLogs, FilesList, Sent, Listing, Orders
  <2>6. QED
    BY <2>2, <2>3, <2>4, <2>5 DEF Lists
<1>3. \A l \in Lists : l.fields \subseteq AllFields
  BY DEF AllFields
<1>4. QED
  BY <1>1, <1>2, <1>3

LEMMA NoItemIsRow == NoItem \in ItemRow /\ NoItem.at = 0
BY DEF NoItem, ItemRow

\* The page sizes that lists have.
LEMMA PageSizes ==
    ASSUME NEW size \in Nat, NEW default \in 1 .. MaxListPage
    PROVE  normalizePagination(size, default) \in 1 .. MaxListPage
BY ListingsAssumption DEF normalizePagination, Least

\* What is found is stored.
LEMMA FoundIsStored ==
    ASSUME NEW list, NEW owner, NEW q
    PROVE  Found(list, owner, q) \subseteq Stored /\ Stored \subseteq Items
BY DEF Found, LiveItems, Stored

\* On rows without ties a list has one order.
IsTotal(rows, order) == \A i, j \in rows : i = j \/ Before(order, i, j) \/ Before(order, j, i)

LEMMA OrderIsTotal ==
    ASSUME ListsInv, ~Tied
    PROVE  IsTotal(Walked, walk.list.order)
<1>1. walk.list.order \in Orders
  BY ListsAre DEF ListsInv, WalkType
<1>2. ASSUME NEW i \in Walked, NEW j \in Walked, i # j
      PROVE  Before(walk.list.order, i, j) \/ Before(walk.list.order, j, i)
  <2>1. i \in Stored /\ j \in Stored /\ i \in Items /\ j \in Items
    BY FoundIsStored DEF Walked
  <2>2. /\ listRows[i].at \in Nat /\ listRows[j].at \in Nat
        /\ listRows[i].date \in Nat /\ listRows[j].date \in Nat
    BY <2>1 DEF ListsInv, ItemRow
  <2>3. listRows[i].at # listRows[j].at
    BY <2>1, <1>2 DEF ListsInv, InstantsInv
  <2>4. walk.list.order \in {"date ASC", "date DESC"} => listRows[i].date # listRows[j].date
    BY <1>2 DEF Tied
  <2>5. listRows[i].at > listRows[j].at \/ listRows[j].at > listRows[i].at
    BY <2>2, <2>3
  <2>6. \/ listRows[i].date = listRows[j].date
        \/ listRows[i].date > listRows[j].date
        \/ listRows[j].date > listRows[i].date
    BY <2>2
  <2>7. Before("created_at DESC", i, j) \/ Before("created_at DESC", j, i)
    BY <2>5 DEF Before
  <2>8. \/ Before("date DESC, created_at DESC", i, j)
        \/ Before("date DESC, created_at DESC", j, i)
    BY <2>5, <2>6 DEF Before
  <2>9. listRows[i].date # listRows[j].date =>
            Before("date DESC", i, j) \/ Before("date DESC", j, i)
    BY <2>6 DEF Before
  <2>10. listRows[i].date # listRows[j].date =>
            Before("date ASC", i, j) \/ Before("date ASC", j, i)
    BY <2>2 DEF Before
  <2>11. QED
    BY <1>1, <2>4, <2>7, <2>8, <2>9, <2>10 DEF Orders
<1>3. QED
  BY <1>2 DEF IsTotal

\* Two parts that start a list in one order: the shorter is part of the longer.
LEMMA PartsNest ==
    ASSUME NEW rows, IsFiniteSet(rows), NEW order, IsTotal(rows, order),
           NEW p \in SUBSET rows, NEW q \in SUBSET rows,
           Starts(p, rows, order), Starts(q, rows, order),
           Cardinality(p) <= Cardinality(q)
    PROVE  p \subseteq q
<1>1. p \subseteq q \/ q \subseteq p
  BY DEF Starts, IsTotal
<1>2. CASE q \subseteq p
  <2>1. IsFiniteSet(p) /\ IsFiniteSet(q)
    BY FS_Subset
  <2>2. Cardinality(p) \in Nat /\ Cardinality(q) \in Nat
    BY <2>1, FS_CardinalityType
  <2>3. Cardinality(q) <= Cardinality(p)
    BY <1>2, <2>1, FS_Subset
  <2>4. Cardinality(q) = Cardinality(p) => q = p
    BY <1>2, <2>1, FS_Subset
  <2>5. QED
    BY <2>2, <2>3, <2>4
<1>3. QED
  BY <1>1, <1>2

\* How much of the list has been seen with one more page.
LEMMA PageCard ==
    ASSUME NEW rows, IsFiniteSet(rows),
           NEW skipped \in SUBSET rows, NEW part \in SUBSET rows, skipped \cap part = {},
           NEW n \in Nat, NEW size \in Nat,
           Cardinality(skipped) = Least(n, Cardinality(rows)),
           Cardinality(part) = Least(size, Cardinality(rows \ skipped))
    PROVE  Cardinality(skipped \cup part) = Least(n + size, Cardinality(rows))
<1>1. IsFiniteSet(skipped) /\ IsFiniteSet(part) /\ IsFiniteSet(rows \ skipped)
  BY FS_Subset, FS_Difference
<1>2. Cardinality(skipped \cup part)
        = Cardinality(skipped) + Cardinality(part) - Cardinality(skipped \cap part)
  BY <1>1, FS_Union
<1>3. Cardinality(skipped \cap part) = 0
  BY FS_EmptySet
<1>4. Cardinality(rows \ skipped) = Cardinality(rows) - Cardinality(rows \cap skipped)
  BY FS_Difference
<1>5. rows \cap skipped = skipped
  OBVIOUS
<1>6. /\ Cardinality(rows) \in Nat /\ Cardinality(skipped) \in Nat
      /\ Cardinality(part) \in Nat
  BY <1>1, FS_CardinalityType
<1>7. Cardinality(rows \ skipped) = Cardinality(rows) - Cardinality(skipped)
  BY <1>4, <1>5
<1>8. Cardinality(skipped \cup part) = Cardinality(skipped) + Cardinality(part)
  BY <1>2, <1>3, <1>6
<1> HIDE DEF Least
<1>9. QED
  BY <1>6, <1>7, <1>8 DEF Least

\* The pages up to the one that total_pages calls last hold all rows.
LEMMA PagesHold ==
    ASSUME NEW total \in Nat, NEW size \in Nat \ {0}, NEW page \in Nat \ {0},
           page >= buildPagination(total, size)
    PROVE  total <= page * size
<1> DEFINE q == (total + size - 1) \div size
<1>1. q \in Int /\ total + size - 1 < size * q + size
  OBVIOUS
<1>2. page >= q
  BY DEF buildPagination
<1> HIDE DEF q
<1>3. size * q <= size * page
  BY <1>1, <1>2
<1>4. size * page = page * size /\ size * page \in Nat
  OBVIOUS
<1>5. QED
  BY <1>1, <1>3, <1>4

LEMMA PageNumbers ==
    ASSUME NEW page \in Nat \ {0}, NEW size \in Nat
    PROVE  /\ (page - 1) * size \in Nat
           /\ page * size \in Nat
           /\ (page - 1) * size + size = page * size
           /\ (1 - 1) * size = 0
OBVIOUS

-----------------------------------------------------------------------------
(* A reader goes on                                                        *)

LEMMA ListsInitInv == ListsInit => ListsInv
<1> SUFFICES ASSUME ListsInit PROVE ListsInv
  OBVIOUS
<1>1. listRows \in [Items -> ItemRow] /\ \A i \in Items : listRows[i] = NoItem
  BY NoItemIsRow DEF ListsInit
<1>2. Stored = {}
  BY <1>1 DEF Stored
<1>3. InstantsInv
  BY <1>2, FS_EmptySet DEF InstantsInv
<1>4. walk \in WalkType
  BY ListingsAssumption, ListsAre DEF ListsInit, NoWalk, WalkType
<1>5. WalkInv
  BY DEF ListsInit, NoWalk, WalkInv, NothingMissed
<1>6. QED
  BY <1>1, <1>3, <1>4, <1>5 DEF ListsInv

LEMMA RowsKeep ==
    ASSUME ListsInv, UNCHANGED listRows
    PROVE  listRows' \in [Items -> ItemRow] /\ InstantsInv'
BY DEF ListsInv, InstantsInv, Stored

LEMMA NoWalkIsWalk == NoWalk \in WalkType
BY ListingsAssumption, ListsAre DEF NoWalk, WalkType

\* At the start everything wanted is still to come.
LEMMA OpenListInv ==
    ASSUME ListsInv, NEW list \in Lists, NEW owner \in Members \cup {NoMember},
           NEW default \in 1 .. MaxListPage, OpenList(list, owner, default)
    PROVE  ListsInv'
<1>1. PICK q \in {{}, list.fields}, size \in 0..(MaxListPage + 1) :
        /\ walk' = [NoWalk EXCEPT !.step = "count", !.list = list, !.owner = owner,
                                  !.query = q, !.size = normalizePagination(size, default),
                                  !.wanted = Found(list, owner, q)]
        /\ listRows' = listRows
  BY DEF OpenList
<1>2. /\ walk'.step = "count" /\ walk'.list = list /\ walk'.owner = owner /\ walk'.query = q
      /\ walk'.size = normalizePagination(size, default) /\ walk'.page = 1 /\ walk'.total = 0
      /\ walk'.shown = {} /\ walk'.wanted = Found(list, owner, q) /\ walk'.settled = TRUE
  BY <1>1 DEF NoWalk
<1>3. normalizePagination(size, default) \in 1 .. MaxListPage
  <2>1. size \in Nat
    BY ListingsAssumption
  <2>2. QED
    BY <2>1, PageSizes
<1>4. Found(list, owner, q) \subseteq Stored /\ Stored \subseteq Items
  BY FoundIsStored
<1>5. q \subseteq AllFields
  BY ListsAre
<1>6. walk' \in WalkType
  <2>1. PICK n \in 1 .. MaxListPage : n = normalizePagination(size, default)
    BY <1>3
  <2>2. PICK wanted \in SUBSET Items : wanted = Found(list, owner, q)
    BY <1>4
  <2>3. walk' = [NoWalk EXCEPT !.step = "count", !.list = list, !.owner = owner,
                               !.query = q, !.size = n, !.wanted = wanted]
    BY <1>1, <2>1, <2>2
  <2>4. q \in SUBSET AllFields
    BY <1>5
  <2>5. QED
    BY <2>3, <2>4, NoWalkIsWalk DEF WalkType
<1>7. Walked' = Found(list, owner, q)
  BY <1>1, <1>2 DEF Walked, Found, LiveItems, Stored
<1>8. SeenTo((walk.page - 1) * walk.size, walk.shown)'
  <2>1. (walk'.page - 1) * walk'.size = 0
    BY <1>2, <1>3, ListingsAssumption, PageNumbers
  <2>2. ASSUME NEW part \in SUBSET Walked', Cardinality(part) <= 0
        PROVE  part = {}
    <3>1. IsFiniteSet(part)
      BY <1>4, <1>7, FS_Subset DEF ListsInv, InstantsInv
    <3>2. QED
      BY <3>1, <2>2, FS_CardinalityType, FS_EmptySet
  <2>3. QED
    BY <2>1, <2>2 DEF SeenTo
<1>9. WalkInv'
  BY <1>2, <1>7, <1>8 DEF WalkInv, NothingMissed
<1>10. QED
  BY <1>1, <1>6, <1>9, RowsKeep DEF ListsInv

\* Count: as many rows as there are now.
LEMMA CountRowsInv == ASSUME ListsInv, CountRows PROVE ListsInv'
<1>1. /\ walk.step = "count"
      /\ walk' = [walk EXCEPT !.step = "find", !.total = Cardinality(Walked)]
      /\ listRows' = listRows
  BY DEF CountRows
<1>2. walk \in WalkType /\ IsFiniteSet(Walked)
  BY FoundIsStored, FS_Subset DEF ListsInv, InstantsInv, Walked
<1>3. Cardinality(Walked) \in Nat
  BY <1>2, FS_CardinalityType
<1>4. walk' \in WalkType
  BY <1>1, <1>2, <1>3 DEF WalkType
<1>5. /\ walk'.step = "find" /\ walk'.total = Cardinality(Walked)
      /\ walk'.list = walk.list /\ walk'.owner = walk.owner /\ walk'.query = walk.query
      /\ walk'.page = walk.page /\ walk'.size = walk.size /\ walk'.shown = walk.shown
      /\ walk'.wanted = walk.wanted /\ walk'.settled = walk.settled
  BY <1>1, <1>2 DEF WalkType
<1>6. Walked' = Walked
  BY <1>1, <1>5 DEF Walked, Found, LiveItems, Stored
<1>7. walk.settled => SeenTo((walk.page - 1) * walk.size, walk.shown)'
  BY <1>1, <1>5, <1>6 DEF ListsInv, WalkInv, SeenTo, Starts, Before
<1>8. WalkInv'
  BY <1>1, <1>5, <1>6, <1>7 DEF ListsInv, WalkInv, NothingMissed
<1>9. QED
  BY <1>1, <1>4, <1>8, RowsKeep DEF ListsInv

\* Find: with this page, one page more has been seen.
LEMMA PageSeen ==
    ASSUME ListsInv, walk.step = "find", walk.settled, ~Tied,
           NEW part \in Pages(Walked, walk.list.order, walk.page, walk.size)
    PROVE  SeenTo(walk.page * walk.size, walk.shown \cup part)
<1> DEFINE order == walk.list.order
           n == (walk.page - 1) * walk.size
<1>1. PICK skipped \in SUBSET Walked :
        /\ Cardinality(skipped) = Least(n, Cardinality(Walked))
        /\ Starts(skipped, Walked, order)
        /\ Starts(skipped \cup part, Walked, order)
        /\ skipped \cap part = {}
        /\ Cardinality(part) = Least(walk.size, Cardinality(Walked \ skipped))
  BY DEF Pages
<1>2. part \in SUBSET Walked
  BY DEF Pages
<1>3. walk.page \in Nat \ {0} /\ walk.size \in Nat
  BY ListingsAssumption DEF ListsInv, WalkType
<1>4. n \in Nat /\ walk.page * walk.size \in Nat /\ n + walk.size = walk.page * walk.size
  BY <1>3, PageNumbers
<1>5. IsFiniteSet(Walked)
  BY FoundIsStored, FS_Subset DEF ListsInv, InstantsInv, Walked
<1> HIDE DEF n
<1>6. Cardinality(skipped \cup part) = Least(n + walk.size, Cardinality(Walked))
  BY <1>1, <1>2, <1>3, <1>4, <1>5, PageCard
<1>7. IsTotal(Walked, order)
  BY OrderIsTotal
<1>8. skipped \cap walk.wanted \subseteq walk.shown
  <2>1. Cardinality(skipped) <= n
    BY <1>1, <1>4, <1>5, FS_CardinalityType DEF Least
  <2>2. SeenTo(n, walk.shown)
    BY DEF ListsInv, WalkInv, n
  <2>3. QED
    BY <2>1, <2>2, <1>1 DEF SeenTo
<1>9. ASSUME NEW p \in SUBSET Walked, Starts(p, Walked, order),
             Cardinality(p) <= walk.page * walk.size
      PROVE  p \cap walk.wanted \subseteq walk.shown \cup part
  <2>1. IsFiniteSet(p) /\ Cardinality(p) <= Cardinality(Walked)
    BY <1>5, FS_Subset
  <2>2. Cardinality(p) \in Nat /\ Cardinality(Walked) \in Nat
    BY <2>1, <1>5, FS_CardinalityType
  <2>3. Cardinality(p) <= Cardinality(skipped \cup part)
    BY <2>1, <2>2, <1>4, <1>6, <1>9 DEF Least
  <2>4. p \subseteq skipped \cup part
    BY <2>3, <1>1, <1>2, <1>5, <1>7, <1>9, PartsNest
  <2>5. QED
    BY <2>4, <1>8
<1>10. QED
  BY <1>9 DEF SeenTo

LEMMA FindPageInv == ASSUME ListsInv, FindPage PROVE ListsInv'
<1> DEFINE last == walk.page >= buildPagination(walk.total, walk.size)
<1>1. /\ walk.step = "find" /\ listRows' = listRows
      /\ \E part \in Pages(Walked, walk.list.order, walk.page, walk.size) :
            walk' = [walk EXCEPT !.step = IF last THEN "done" ELSE "count",
                                 !.page = IF last THEN @ ELSE @ + 1,
                                 !.shown = @ \cup part,
                                 !.settled = @ /\ ~Tied]
  BY DEF FindPage
<1>2. PICK part \in Pages(Walked, walk.list.order, walk.page, walk.size) :
            walk' = [walk EXCEPT !.step = IF last THEN "done" ELSE "count",
                                 !.page = IF last THEN @ ELSE @ + 1,
                                 !.shown = @ \cup part,
                                 !.settled = @ /\ ~Tied]
  BY <1>1
<1>3. /\ walk \in WalkType /\ walk.page \in Nat \ {0} /\ walk.size \in Nat \ {0}
      /\ walk.total \in Nat
  BY ListingsAssumption DEF ListsInv, WalkType
<1>4. part \subseteq Walked /\ Walked \subseteq Stored /\ Stored \subseteq Items
  BY FoundIsStored DEF Pages, Walked
<1> HIDE DEF last
<1>5. walk' \in WalkType
  <2>1. PICK step \in {"done", "count"} : step = IF last THEN "done" ELSE "count"
    OBVIOUS
  <2>2. PICK page \in Nat \ {0} : page = IF last THEN walk.page ELSE walk.page + 1
    BY <1>3
  <2>3. PICK shown \in SUBSET Items : shown = walk.shown \cup part
    BY <1>3, <1>4 DEF WalkType
  <2>4. PICK b \in BOOLEAN : b <=> (walk.settled /\ ~Tied)
    OBVIOUS
  <2>5. walk' = [walk EXCEPT !.step = step, !.page = page, !.shown = shown,
                             !.settled = walk.settled /\ ~Tied]
    BY <1>2, <2>1, <2>2, <2>3
  <2>6. (walk.settled /\ ~Tied) = b
    BY <2>4
  <2>7. walk' = [walk EXCEPT !.step = step, !.page = page, !.shown = shown, !.settled = b]
    BY <2>5, <2>6
  <2>8. QED
    BY <1>3, <2>7 DEF WalkType
<1>6. /\ walk'.step = IF last THEN "done" ELSE "count"
      /\ walk'.page = IF last THEN walk.page ELSE walk.page + 1
      /\ walk'.shown = walk.shown \cup part
      /\ walk'.settled => walk.settled /\ ~Tied
      /\ walk'.list = walk.list /\ walk'.owner = walk.owner /\ walk'.query = walk.query
      /\ walk'.size = walk.size /\ walk'.wanted = walk.wanted
  BY <1>2, <1>3 DEF WalkType
<1>7. Walked' = Walked
  BY <1>1, <1>6 DEF Walked, Found, LiveItems, Stored
<1>8. ASSUME walk'.settled
      PROVE  /\ walk.wanted \subseteq Walked
             /\ SeenTo(walk.page * walk.size, walk.shown \cup part)
             /\ walk.total = Cardinality(Walked)
  BY <1>1, <1>6, <1>8, PageSeen DEF ListsInv, WalkInv
<1>9. CASE last
  <2>1. ASSUME walk'.settled PROVE walk.wanted \subseteq walk.shown \cup part
    <3>1. walk.total <= walk.page * walk.size
      BY <1>3, <1>9, PagesHold DEF last
    <3>2. Starts(Walked, Walked, walk.list.order)
      BY DEF Starts
    <3>3. Walked \cap walk.wanted \subseteq walk.shown \cup part
      BY <2>1, <3>1, <3>2, <1>8 DEF SeenTo
    <3>4. QED
      BY <2>1, <3>3, <1>8
  <2>2. WalkInv'
    BY <2>1, <1>6, <1>9 DEF WalkInv, NothingMissed
  <2>3. QED
    BY <2>2, <1>1, <1>5, RowsKeep DEF ListsInv
<1>10. CASE ~last
  <2>1. (walk'.page - 1) * walk'.size = walk.page * walk.size
    <3>1. walk'.page - 1 = walk.page
      BY <1>3, <1>6, <1>10
    <3>2. QED
      BY <3>1, <1>6
  <2>2. ASSUME walk'.settled PROVE SeenTo((walk.page - 1) * walk.size, walk.shown)'
    BY <2>1, <2>2, <1>1, <1>6, <1>7, <1>8 DEF SeenTo, Starts, Before
  <2>3. WalkInv'
    BY <2>2, <1>6, <1>7, <1>8, <1>10 DEF WalkInv, NothingMissed
  <2>4. QED
    BY <2>3, <1>1, <1>5, RowsKeep DEF ListsInv
<1>11. QED
  BY <1>9, <1>10

LEMMA LeaveListInv == ASSUME ListsInv, LeaveList PROVE ListsInv'
<1>1. walk' = NoWalk /\ listRows' = listRows
  BY DEF LeaveList
<1>2. walk' \in WalkType
  BY <1>1, ListingsAssumption, ListsAre DEF NoWalk, WalkType
<1>3. WalkInv'
  BY <1>1 DEF NoWalk, WalkInv, NothingMissed
<1>4. QED
  BY <1>1, <1>2, <1>3, RowsKeep DEF ListsInv

-----------------------------------------------------------------------------
(* Rows are written                                                        *)

\* A row is created or changed, and keeps its instant.
LEMMA WriteItemInv ==
    ASSUME ListsInv, NEW i \in Items, NEW row \in ItemRow, WriteItem(i, row),
           \/ listRows[i] = NoItem /\ row.at = Cardinality(Stored) + 1
           \/ i \in Stored /\ row.at = listRows[i].at
    PROVE  ListsInv'
<1>1. /\ listRows \in [Items -> ItemRow] /\ IsFiniteSet(Stored) /\ Cardinality(Stored) \in Nat
      /\ \A j \in Stored : listRows[j].at \in 1 .. Cardinality(Stored)
      /\ walk \in WalkType
  BY FS_CardinalityType DEF ListsInv, InstantsInv
<1>2. row.at \in Nat \ {0}
  BY <1>1 DEF ItemRow
<1>3. row # NoItem
  BY <1>2, NoItemIsRow
<1>4. /\ walk.step # "done"
      /\ listRows' = [listRows EXCEPT ![i] = row]
      /\ walk.step = "none" => walk' = walk
      /\ walk.step # "none" =>
            walk' = [walk EXCEPT !.settled = @ /\ walk.step # "find" /\ i \notin Walked]
  BY DEF WriteItem
<1>5. /\ listRows' \in [Items -> ItemRow]
      /\ \A j \in Items : listRows'[j] = IF j = i THEN row ELSE listRows[j]
  BY <1>1, <1>4
<1>6. Stored' = Stored \cup {i}
  BY <1>3, <1>5 DEF Stored
<1>7. InstantsInv'
  <2>1. IsFiniteSet(Stored')
    BY <1>1, <1>6, FS_AddElement
  <2>2. CASE i \in Stored
    <3>1. Stored' = Stored /\ row.at = listRows[i].at
      BY <2>2, <1>6 DEF Stored
    <3>2. \A j \in Stored : listRows'[j].at = listRows[j].at
      BY <3>1, <1>5 DEF Stored
    <3>3. QED
      BY <2>1, <3>1, <3>2 DEF ListsInv, InstantsInv
  <2>3. CASE i \notin Stored
    <3>1. row.at = Cardinality(Stored) + 1 /\ Cardinality(Stored') = Cardinality(Stored) + 1
      BY <2>3, <1>1, <1>6, FS_AddElement
    <3>2. \A j \in Stored : listRows'[j].at = listRows[j].at
      BY <2>3, <1>5 DEF Stored
    <3>3. listRows'[i].at = Cardinality(Stored) + 1
      BY <3>1, <1>5
    <3>4. \A j \in Stored' : listRows'[j].at \in 1 .. Cardinality(Stored')
      BY <3>1, <3>2, <3>3, <1>1, <1>6
    <3>5. \A j, k \in Stored' : listRows'[j].at = listRows'[k].at => j = k
      <4>1. ASSUME NEW j \in Stored, NEW k \in Stored, listRows'[j].at = listRows'[k].at
            PROVE  j = k
        BY <4>1, <3>2 DEF ListsInv, InstantsInv
      <4>2. ASSUME NEW j \in Stored PROVE listRows'[j].at # listRows'[i].at
        BY <3>2, <3>3, <1>1
      <4>3. QED
        BY <4>1, <4>2, <1>6
    <3>6. QED
      BY <2>1, <3>4, <3>5 DEF InstantsInv
  <2>4. QED
    BY <2>2, <2>3
<1>8. /\ walk' \in WalkType
      /\ walk'.step = walk.step /\ walk'.list = walk.list /\ walk'.owner = walk.owner
      /\ walk'.query = walk.query /\ walk'.size = walk.size /\ walk'.page = walk.page
      /\ walk'.shown = walk.shown /\ walk'.wanted = walk.wanted
      /\ walk.step # "none" /\ walk'.settled =>
             walk.settled /\ walk.step # "find" /\ i \notin Walked
  <2>1. CASE walk.step = "none"
    BY <2>1, <1>1, <1>4
  <2>2. CASE walk.step # "none"
    <3>1. PICK b \in BOOLEAN : b <=> (walk.settled /\ walk.step # "find" /\ i \notin Walked)
      OBVIOUS
    <3>2. (walk.settled /\ walk.step # "find" /\ i \notin Walked) = b
      BY <3>1
    <3>3. walk' = [walk EXCEPT !.settled = b]
      BY <2>2, <3>2, <1>4
    <3>4. QED
      BY <3>1, <3>3, <1>1 DEF WalkType
  <2>3. QED
    BY <2>1, <2>2
<1>9. ASSUME walk.step = "count", walk'.settled
      PROVE  /\ walk'.wanted \subseteq Walked'
             /\ SeenTo((walk.page - 1) * walk.size, walk.shown)'
  <2>1. walk.settled /\ i \notin Walked
    BY <1>8, <1>9
  <2>2. /\ walk.wanted \subseteq Walked
        /\ SeenTo((walk.page - 1) * walk.size, walk.shown)
    BY <2>1, <1>9 DEF ListsInv, WalkInv
  <2>3. Walked \subseteq Stored /\ Walked' \subseteq Stored' /\ Stored \subseteq Items
    BY DEF Walked, Found, LiveItems, Stored
  <2>4. \A j \in Items : j # i => (j \in Walked' <=> j \in Walked)
    <3>1. ASSUME NEW j \in Items, j # i PROVE j \in LiveItems' <=> j \in LiveItems
      BY <3>1, <1>5, <1>6 DEF LiveItems
    <3>2. ASSUME NEW j \in Items, j # i PROVE listRows'[j] = listRows[j]
      BY <3>2, <1>5
    <3>3. QED
      BY <3>1, <3>2, <1>8 DEF Walked, Found
  <2>5. Walked \subseteq Walked' /\ Walked' \subseteq Walked \cup {i}
    BY <2>1, <2>3, <2>4, <1>6
  <2>6. ASSUME NEW part \in SUBSET Walked',
               Starts(part, Walked, walk.list.order)',
               Cardinality(part) <= (walk.page - 1) * walk.size
        PROVE  part \cap walk.wanted \subseteq walk.shown
    <3> DEFINE rest == part \ {i}
    <3>1. rest \in SUBSET Walked
      BY <2>5
    <3>2. Starts(rest, Walked, walk.list.order)
      <4>1. ASSUME NEW j \in rest, NEW k \in Walked, Before(walk.list.order, k, j)
            PROVE  k \in rest
        <5>1. j # i /\ k # i /\ j \in Items /\ k \in Items /\ k \in Walked'
          BY <2>1, <2>3, <2>5, <3>1
        <5>2. listRows'[j] = listRows[j] /\ listRows'[k] = listRows[k]
          BY <5>1, <1>5
        <5>3. Before(walk.list.order, k, j)'
          BY <4>1, <5>2, <1>8 DEF Before
        <5>4. k \in part
          BY <5>1, <5>3, <2>6 DEF Starts
        <5>5. QED
          BY <5>1, <5>4
      <4>2. QED
        BY <3>1, <4>1 DEF Starts
    <3>3. Cardinality(rest) <= (walk.page - 1) * walk.size
      <4>1. IsFiniteSet(Stored')
        BY <1>7 DEF InstantsInv
      <4>2. IsFiniteSet(part)
        BY <4>1, <2>3, FS_Subset
      <4>3. IsFiniteSet(rest) /\ Cardinality(rest) <= Cardinality(part)
        BY <4>2, FS_Subset
      <4>4. Cardinality(rest) \in Nat /\ Cardinality(part) \in Nat
        BY <4>2, <4>3, FS_CardinalityType
      <4>5. (walk.page - 1) * walk.size \in Nat
        <5>1. walk.page \in Nat \ {0} /\ walk.size \in Nat
          BY <1>1, ListingsAssumption DEF WalkType
        <5>2. QED
          BY <5>1, PageNumbers
      <4>6. QED
        BY <4>3, <4>4, <4>5, <2>6
    <3>4. rest \cap walk.wanted \subseteq walk.shown
      BY <3>1, <3>2, <3>3, <2>2 DEF SeenTo
    <3>5. QED
      BY <3>4, <2>1, <2>2
  <2>7. QED
    BY <2>2, <2>5, <2>6, <1>8 DEF SeenTo
<1>10. WalkInv'
  <2>1. walk.step = "find" => ~walk'.settled
    BY <1>8
  <2>2. QED
    BY <2>1, <1>4, <1>8, <1>9 DEF WalkInv, NothingMissed
<1>11. QED
  BY <1>5, <1>7, <1>8, <1>10 DEF ListsInv

LEMMA AddItemInv ==
    ASSUME ListsInv, NEW i \in Items, NEW date \in Nat, NEW owner \in Members \cup {NoMember},
           NEW recipient \in Members \cup {NoMember}, NEW facts \in SUBSET AllFields,
           AddItem(i, date, owner, recipient, facts)
    PROVE  ListsInv'
<1>1. Cardinality(Stored) + 1 \in Nat
  BY FS_CardinalityType DEF ListsInv, InstantsInv
<1>2. PICK n \in Nat : n = Cardinality(Stored) + 1
  BY <1>1
<1> DEFINE row == [NoItem EXCEPT !.at = n, !.date = date, !.created_by_id = owner,
                                 !.recipient_id = recipient, !.facts = facts]
<1>3. row \in ItemRow /\ row.at = n
  BY NoItemIsRow DEF ItemRow
<1>4. WriteItem(i, row) /\ listRows[i] = NoItem
  BY <1>2 DEF AddItem
<1> HIDE DEF row
<1>5. QED
  BY <1>2, <1>3, <1>4, WriteItemInv

\* A stored row is edited, read or deleted.
LEMMA ChangeItemInv ==
    ASSUME ListsInv, NEW i \in LiveItems, NEW facts \in SUBSET AllFields,
           NEW read \in BOOLEAN, NEW deleted \in BOOLEAN, NEW row,
           row = [listRows[i] EXCEPT !.facts = facts, !.read = read, !.deleted = deleted],
           WriteItem(i, row)
    PROVE  ListsInv'
<1>1. i \in Items /\ i \in Stored /\ listRows[i] \in ItemRow
  BY DEF LiveItems, Stored, ListsInv
<1>2. row \in ItemRow /\ row.at = listRows[i].at
  BY <1>1 DEF ItemRow
<1>3. QED
  BY <1>1, <1>2, WriteItemInv

LEMMA EditItemInv ==
    ASSUME ListsInv, NEW i \in Items, NEW facts \in SUBSET AllFields, EditItem(i, facts)
    PROVE  ListsInv'
<1>1. i \in LiveItems /\ listRows[i] \in ItemRow
  BY DEF EditItem, ListsInv
<1>2. PICK row \in ItemRow : row = [listRows[i] EXCEPT !.facts = facts]
  BY <1>1 DEF ItemRow
<1>3. WriteItem(i, row)
  BY <1>2 DEF EditItem
<1>4. /\ listRows[i].read \in BOOLEAN /\ listRows[i].deleted \in BOOLEAN
      /\ row = [listRows[i] EXCEPT !.facts = facts, !.read = listRows[i].read,
                                   !.deleted = listRows[i].deleted]
  BY <1>1, <1>2 DEF ItemRow
<1>5. QED
  BY <1>1, <1>3, <1>4, ChangeItemInv

LEMMA HideItemInv ==
    ASSUME ListsInv, NEW i \in LiveItems, WriteItem(i, [listRows[i] EXCEPT !.deleted = TRUE])
    PROVE  ListsInv'
<1>1. listRows[i] \in ItemRow
  BY DEF LiveItems, Stored, ListsInv
<1>2. PICK row \in ItemRow : row = [listRows[i] EXCEPT !.deleted = TRUE]
  BY <1>1 DEF ItemRow
<1>3. WriteItem(i, row)
  BY <1>2
<1>4. /\ listRows[i].read \in BOOLEAN /\ listRows[i].facts \in SUBSET AllFields
      /\ row = [listRows[i] EXCEPT !.facts = listRows[i].facts, !.read = listRows[i].read,
                                   !.deleted = TRUE]
  BY <1>1, <1>2 DEF ItemRow
<1>5. QED
  BY <1>3, <1>4, ChangeItemInv

LEMMA ReadItemInv ==
    ASSUME ListsInv, NEW i \in LiveItems, WriteItem(i, [listRows[i] EXCEPT !.read = TRUE])
    PROVE  ListsInv'
<1>1. listRows[i] \in ItemRow
  BY DEF LiveItems, Stored, ListsInv
<1>2. PICK row \in ItemRow : row = [listRows[i] EXCEPT !.read = TRUE]
  BY <1>1 DEF ItemRow
<1>3. WriteItem(i, row)
  BY <1>2
<1>4. /\ listRows[i].deleted \in BOOLEAN /\ listRows[i].facts \in SUBSET AllFields
      /\ row = [listRows[i] EXCEPT !.facts = listRows[i].facts, !.read = TRUE,
                                   !.deleted = listRows[i].deleted]
  BY <1>1, <1>2 DEF ItemRow
<1>5. QED
  BY <1>3, <1>4, ChangeItemInv

LEMMA WritesInv ==
    ASSUME ListsInv, RecordWrites \/ MessageWrites \/ NotificationWrites
    PROVE  ListsInv'
<1>1. {} \in SUBSET AllFields /\ Fields \in SUBSET AllFields /\ 0 \in Nat
  BY DEF AllFields, Fields
<1>2. CASE RecordWrites
  <2>1. ASSUME NEW i \in Items, NEW facts \in {{}, Fields}, NEW date \in Days,
               NEW owner \in Members, AddItem(i, date, owner, NoMember, facts)
        PROVE  ListsInv'
    <3>1. date \in Nat /\ facts \in SUBSET AllFields
      BY <1>1, ListingsAssumption
    <3>2. QED
      BY <2>1, <3>1, AddItemInv
  <2>2. ASSUME NEW i \in Items, NEW facts \in {{}, Fields}, EditItem(i, facts)
        PROVE  ListsInv'
    BY <2>2, <1>1, EditItemInv
  <2>3. ASSUME NEW i \in Items, DeleteItem(i) PROVE ListsInv'
    BY <2>3, HideItemInv DEF DeleteItem
  <2>4. QED
    BY <1>2, <2>1, <2>2, <2>3 DEF RecordWrites
<1>3. CASE MessageWrites
  <2>1. ASSUME NEW i \in Items, NEW user \in Members, NEW recipient \in Members,
               SendMessage(i, user, recipient)
        PROVE  ListsInv'
    BY <2>1, <1>1, AddItemInv DEF SendMessage
  <2>2. ASSUME NEW i \in Items, NEW user \in Members, MarkAsRead(i, user) PROVE ListsInv'
    BY <2>2, ReadItemInv DEF MarkAsRead
  <2>3. ASSUME NEW i \in Items, NEW user \in Members, DeleteMessage(i, user) PROVE ListsInv'
    BY <2>3, HideItemInv DEF DeleteMessage
  <2>4. QED
    BY <1>3, <2>1, <2>2, <2>3 DEF MessageWrites
<1>4. CASE NotificationWrites
  <2>1. ASSUME NEW i \in Items, NEW user \in Members, Notify(i, user) PROVE ListsInv'
    BY <2>1, <1>1, AddItemInv DEF Notify
  <2>2. ASSUME NEW i \in Items, NEW user \in Members, MarkNotificationAsRead(i, user)
        PROVE  ListsInv'
    BY <2>2, ReadItemInv DEF MarkNotificationAsRead
  <2>3. ASSUME NEW i \in Items, NEW user \in Members, DeleteNotification(i, user)
        PROVE  ListsInv'
    BY <2>3, HideItemInv DEF DeleteNotification
  <2>4. QED
    BY <1>4, <2>1, <2>2, <2>3 DEF NotificationWrites
<1>5. QED
  BY <1>2, <1>3, <1>4

-----------------------------------------------------------------------------
(* The theorems                                                            *)

\* The lists that are opened, and for whom.
LEMMA OpenedListsInv ==
    ASSUME ListsInv,
           \/ \E actor \in Actors :
                \/ ListPersons(actor) \/ ListStudents(actor) \/ ListDonations(actor)
                \/ ListLoans(actor) \/ ListLoanRepayments(actor)
                \/ ListFiles(actor) \/ ListMessages(actor)
           \/ ListDonors \/ ListAidRequests \/ ListCareProvided \/ ListRevenue \/ ListUsers
           \/ ListAuditLogs
    PROVE  ListsInv'
<1>1. ShortPage \in 1 .. MaxListPage /\ LongPage \in 1 .. MaxListPage
  BY ListingsAssumption
<1>2. PersonsList \in Lists /\ Students \in Lists /\ Donors \in Lists /\ Donations \in Lists
  BY DEF Lists
<1>3. AidRequestsList \in Lists /\ CareList \in Lists /\ LoansList \in Lists
  BY DEF Lists
<1>4. RepaymentsList \in Lists /\ RevenueList \in Lists /\ UsersList \in Lists
  BY DEF Lists
<1>5. AuditLogs \in Lists /\ FilesList \in Lists
  BY DEF Lists
<1>6. Inbox \in Lists /\ Sent \in Lists /\ UnreadInbox \in Lists
  BY DEF Lists
<1>7. NoMember \in Members \cup {NoMember}
  OBVIOUS
<1>8. ASSUME NEW actor \in Actors
      PROVE  /\ actor.id \in Members \cup {NoMember}
             /\ ownershipFilter(actor) \in Members \cup {NoMember}
  BY DEF Actors, ownershipFilter
<1>9. ASSUME NEW actor \in Actors,
             \/ ListPersons(actor) \/ ListStudents(actor) \/ ListDonations(actor)
             \/ ListLoans(actor) \/ ListLoanRepayments(actor)
      PROVE  ListsInv'
  BY <1>9, <1>1, <1>2, <1>3, <1>4, <1>8, OpenListInv
     DEF ListPersons, ListStudents, ListDonations, ListLoans, ListLoanRepayments
<1>10. ASSUME NEW actor \in Actors, ListFiles(actor) \/ ListMessages(actor)
       PROVE  ListsInv'
  BY <1>10, <1>1, <1>5, <1>6, <1>8, OpenListInv DEF ListFiles, ListMessages
<1>11. ASSUME ListDonors \/ ListAidRequests \/ ListCareProvided \/ ListRevenue \/ ListUsers
              \/ ListAuditLogs
       PROVE  ListsInv'
  BY <1>11, <1>1, <1>2, <1>3, <1>4, <1>5, <1>7, OpenListInv
     DEF ListDonors, ListAidRequests, ListCareProvided, ListRevenue, ListUsers, ListAuditLogs
<1>12. QED
  BY <1>9, <1>10, <1>11

LEMMA ListsStepInv == ListsInv /\ [ListsNext]_listVars => ListsInv'
<1> SUFFICES ASSUME ListsInv, [ListsNext]_listVars PROVE ListsInv'
  OBVIOUS
<1>1. CASE UNCHANGED listVars
  <2>1. listed' = listed /\ listRows' = listRows /\ walk' = walk
    BY <1>1 DEF listVars
  <2>2. Walked' = Walked
    BY <2>1 DEF Walked, Found, LiveItems, Stored
  <2>3. InstantsInv' /\ listRows' \in [Items -> ItemRow]
    BY <2>1, RowsKeep
  <2>4. WalkInv'
    BY <2>1, <2>2 DEF ListsInv, WalkInv, SeenTo, Starts, Before, NothingMissed
  <2>5. QED
    BY <2>1, <2>3, <2>4 DEF ListsInv
<1>2. CASE CountRows
  BY <1>2, CountRowsInv
<1>3. CASE FindPage
  BY <1>3, FindPageInv
<1>4. CASE LeaveList
  BY <1>4, LeaveListInv
<1>5. CASE RecordWrites \/ MessageWrites \/ NotificationWrites
  BY <1>5, WritesInv
<1>6. QED
  BY <1>1, <1>2, <1>3, <1>4, <1>5, OpenedListsInv DEF ListsNext

\* The invariant of the lists: rows keep the instants of their creation, and a walk that
\* nothing has disturbed has seen what lies in its pages so far.
THEOREM ListsInvariant == ListsSpec => []ListsInv
<1>1. QED
  BY ListsInitInv, ListsStepInv, PTL DEF ListsSpec

\* Whoever goes through a list of any table to its last page, in pages of any size, has
\* seen every row that was there at the start and was not touched, however many rows
\* are created meanwhile (the repositories' List functions: Count, then Offset and Limit).
THEOREM NothingIsMissed == ListsSpec => []NothingMissed
<1>1. ListsInv => NothingMissed
  BY DEF ListsInv, WalkInv
<1>2. QED
  BY <1>1, ListsInvariant, PTL

\* The filter of a list, the check of a single record and the counter of unread messages
\* agree about whose rows a user has, for users and rows of any number (ownershipFilter
\* against CanAccessRecord, and the repositories of messages and notifications).
THEOREM ListedCanBeOpenedHolds == ListsSpec => []ListedCanBeOpened
<1>1. ASSUME NEW actor \in Actors
      PROVE  actor.id # NoMember /\ actor.privileged \in BOOLEAN
  BY ListingsAssumption DEF Actors
<1>2. ASSUME NEW actor \in Actors,
             NEW list \in {PersonsList, Students, Donations, LoansList, RepaymentsList},
             list.table = listed
      PROVE  Found(list, ownershipFilter(actor), {}) = Openable(actor)
  <2>1. /\ list.owner = "created_by_id" /\ list.unread = FALSE
        /\ list.table \notin {"messages", "notifications", "file_uploads"}
    <3>1. /\ PersonsList.owner = "created_by_id" /\ PersonsList.unread = FALSE
          /\ PersonsList.table = "persons"
      BY DEF PersonsList, Listing
    <3>2. /\ Students.owner = "created_by_id" /\ Students.unread = FALSE
          /\ Students.table = "students"
      BY DEF Students, Listing
    <3>3. /\ Donations.owner = "created_by_id" /\ Donations.unread = FALSE
          /\ Donations.table = "donations"
      BY DEF Donations, Listing
    <3>4. /\ LoansList.owner = "created_by_id" /\ LoansList.unread = FALSE
          /\ LoansList.table = "loans"
      BY DEF LoansList, Listing
    <3>5. /\ RepaymentsList.owner = "created_by_id" /\ RepaymentsList.unread = FALSE
          /\ RepaymentsList.table = "loan_repayments"
      BY DEF RepaymentsList, Listing
    <3>6. QED
      BY <3>1, <3>2, <3>3, <3>4, <3>5
  <2>2. listed \notin {"messages", "notifications", "file_uploads"}
    BY <1>2, <2>1
  <2>3. ASSUME NEW i PROVE MayOpen(actor, i) <=> CanAccessRecord(actor, listRows[i].created_by_id)
    BY <2>2 DEF MayOpen
  <2>4. QED
    BY <1>1, <2>1, <2>3 DEF Found, Openable, ownershipFilter, CanAccessRecord
<1>3. ASSUME NEW actor \in Actors, FilesList.table = listed
      PROVE  Found(FilesList, actor.id, {}) = Openable(actor)
  <2>1. FilesList.owner = "created_by_id" /\ FilesList.unread = FALSE /\ listed = "file_uploads"
    BY <1>3 DEF FilesList, Listing
  <2>2. QED
    BY <1>1, <2>1 DEF Found, Openable, MayOpen
<1>4. ASSUME NEW actor \in Actors, Notifications.table = listed
      PROVE  Found(Notifications, actor.id, {}) = Openable(actor)
  <2>1. /\ Notifications.owner = "recipient_id" /\ Notifications.unread = FALSE
        /\ listed = "notifications"
    BY <1>4 DEF Notifications, Listing
  <2>2. QED
    BY <1>1, <2>1 DEF Found, Openable, MayOpen
<1>5. ASSUME NEW actor \in Actors, listed = "messages"
      PROVE  /\ Found(Inbox, actor.id, {}) \cup Found(Sent, actor.id, {}) = Openable(actor)
             /\ CountUnread(actor.id) = Cardinality(Found(UnreadInbox, actor.id, {}))
             /\ Found(UnreadInbox, actor.id, {})
                   = {i \in Found(Inbox, actor.id, {}) : ~listRows[i].read}
  <2>1. /\ Inbox.owner = "recipient_id" /\ Inbox.unread = FALSE /\ Inbox.fields = {}
        /\ UnreadInbox.owner = "recipient_id" /\ UnreadInbox.unread = TRUE
        /\ UnreadInbox.fields = {}
    BY DEF Inbox, UnreadInbox, Listing
  <2>2. Sent.owner = "created_by_id" /\ Sent.unread = FALSE
    BY DEF Sent, Listing
  <2>3. Found(Inbox, actor.id, {}) = {i \in LiveItems : listRows[i].recipient_id = actor.id}
    BY <1>1, <2>1 DEF Found
  <2>4. Found(Sent, actor.id, {}) = {i \in LiveItems : listRows[i].created_by_id = actor.id}
    BY <1>1, <2>2 DEF Found
  <2>5. Found(UnreadInbox, actor.id, {})
            = {i \in LiveItems : listRows[i].recipient_id = actor.id /\ ~listRows[i].read}
    BY <1>1, <2>1 DEF Found
  <2>6. Openable(actor)
            = {i \in LiveItems :
                actor.id \in {listRows[i].created_by_id, listRows[i].recipient_id}}
    BY <1>5 DEF Openable, MayOpen
  <2>7. QED
    BY <2>3, <2>4, <2>5, <2>6 DEF CountUnread
<1>6. ListedCanBeOpened
  BY <1>2, <1>3, <1>4, <1>5 DEF ListedCanBeOpened
<1>7. QED
  BY <1>6, PTL

(***************************************************************************)
(* Reports.  A summary's total is the sum of its groups, by the fold of    *)
(* the community modules: that groups add up is shown by taking a least    *)
(* subset for which they would not.  From there on cards and tables are    *)
(* compared as sets of rows, which without half-deleted rows are the same; *)
(* the invariant says of an open report which rows it was made from.       *)
(***************************************************************************)

-----------------------------------------------------------------------------
(* Sums over finite sets                                                   *)

\* The element that the folds of the community modules take next.
Pick(s) == CHOOSE x \in s : TRUE

\* g has the sums of v over the subsets of S, taken in that order.
Adds(g, S, v) ==
    g = [s \in SUBSET S |-> IF s = {} THEN 0 ELSE v[Pick(s)] + g[s \ {Pick(s)}]]

\* Among numbers there is a least one: induction, for a claim false of the numbers in N.
LEMMA LeastNumber ==
    ASSUME NEW N \in SUBSET Nat, N # {}
    PROVE  \E n \in N : \A m \in N : m >= n
<1> DEFINE Less == {p \in Nat \X Nat : p[1] < p[2]}
<1>1. IsWellFoundedOn(Less, Nat)
  BY NatLessThanWellFounded, Zenon DEF OpToRel
<1>2. \A m, n \in Nat : <<m, n>> \in Less <=> m < n
  OBVIOUS
<1> HIDE DEF Less
<1>3. \E n \in N : \A m \in N : ~ (<<m, n>> \in Less)
  BY <1>1, WFMin, Zenon
<1>4. PICK n \in N : \A m \in N : <<m, n>> \notin Less
  BY <1>3
<1>5. ASSUME NEW m \in N PROVE m >= n
  <2>1. m \in Nat /\ n \in Nat /\ ~(m < n)
    BY <1>2, <1>4
  <2>2. QED
    BY <2>1
<1>6. QED
  BY <1>5

\* Among subsets of a finite set there is a least one: induction over a finite set.
LEMMA LeastSubset ==
    ASSUME NEW S, IsFiniteSet(S), NEW B \in SUBSET (SUBSET S), B # {}
    PROVE  \E s \in B : \A t \in B : t \subseteq s => t = s
<1> DEFINE Sizes == {Cardinality(s) : s \in B}
<1>1. \A s \in SUBSET S : IsFiniteSet(s) /\ Cardinality(s) \in Nat
  BY FS_Subset, FS_CardinalityType
<1>2. Sizes \in SUBSET Nat /\ Sizes # {}
  BY <1>1
<1>3. PICK n \in Sizes : \A m \in Sizes : m >= n
  <2> HIDE DEF Sizes
  <2>1. QED
    BY <1>2, LeastNumber
<1>4. PICK s \in B : Cardinality(s) = n
  OBVIOUS
<1>5. ASSUME NEW t \in B, t \subseteq s, t # s PROVE FALSE
  <2>1. Cardinality(t) < Cardinality(s)
    BY <1>1, <1>5, FS_Subset
  <2>2. QED
    BY <2>1, <1>1, <1>3, <1>4
<1>6. QED
  BY <1>5

\* A pick is from the set.
LEMMA PickIn == ASSUME NEW s, s # {} PROVE Pick(s) \in s
BY DEF Pick

LEMMA AddsStep ==
    ASSUME NEW S, NEW v, NEW g, Adds(g, S, v)
    PROVE  /\ g = [s \in SUBSET S |-> g[s]]
           /\ g[{}] = 0
           /\ \A s \in SUBSET S : s # {} =>
                 Pick(s) \in s /\ g[s] = v[Pick(s)] + g[s \ {Pick(s)}]
<1> DEFINE G(s) == IF s = {} THEN 0 ELSE v[Pick(s)] + g[s \ {Pick(s)}]
<1>1. g = [s \in SUBSET S |-> G(s)]
  BY DEF Adds
<1>2. \A s \in SUBSET S : g[s] = G(s)
  BY <1>1
<1>3. g = [s \in SUBSET S |-> g[s]]
  BY <1>1
<1>4. QED
  BY <1>2, <1>3, PickIn

\* There is one such function.
LEMMA SumsAreUnique ==
    ASSUME NEW S, IsFiniteSet(S), NEW v, NEW g, Adds(g, S, v), NEW h, Adds(h, S, v)
    PROVE  g = h
<1> DEFINE B == {s \in SUBSET S : g[s] # h[s]}
<1>1. CASE B = {}
  <2>1. \A s \in SUBSET S : g[s] = h[s]
    BY <1>1
  <2>2. g = [s \in SUBSET S |-> g[s]] /\ h = [s \in SUBSET S |-> h[s]]
    BY DEF Adds
  <2>3. QED
    BY <2>1, <2>2
<1>2. CASE B # {}
  <2>0. B \in SUBSET (SUBSET S)
    OBVIOUS
  <2>1. PICK s \in B : \A t \in B : t \subseteq s => t = s
    <3> HIDE DEF B
    <3>1. QED
      BY <1>2, <2>0, LeastSubset
  <2>7. s \in SUBSET S /\ g[{}] = 0 /\ h[{}] = 0
    BY AddsStep
  <2>2. s # {}
    BY <2>7
  <2>3. /\ Pick(s) \in s /\ g[s] = v[Pick(s)] + g[s \ {Pick(s)}]
        /\ h[s] = v[Pick(s)] + h[s \ {Pick(s)}]
    <3>1. Pick(s) \in s
      BY <2>2, PickIn
    <3>2. g[s] = v[Pick(s)] + g[s \ {Pick(s)}]
      BY <2>2, <2>7 DEF Adds
    <3>3. h[s] = v[Pick(s)] + h[s \ {Pick(s)}]
      BY <2>2, <2>7 DEF Adds
    <3>4. QED
      BY <3>1, <3>2, <3>3
  <2>4. s \ {Pick(s)} \in SUBSET S /\ s \ {Pick(s)} # s
    BY <2>3
  <2>5. g[s \ {Pick(s)}] = h[s \ {Pick(s)}]
    BY <2>1, <2>4
  <2>6. QED
    BY <2>1, <2>3, <2>5
<1>3. QED
  BY <1>1, <1>2

\* The fold over a function is the sum of all its values.
LEMMA TotalIs ==
    ASSUME NEW f, IsFiniteSet(DOMAIN f), NEW g, Adds(g, DOMAIN f, f)
    PROVE  Total(f) = g[DOMAIN f]
<1>1. \A h : Adds(h, DOMAIN f, f) => h = g
  BY SumsAreUnique
<1>2. QED
  BY <1>1, Zenon DEF Total, FoldFunction, FoldFunctionOnSet, MapThenFoldSet, Adds, Pick

\* The fold over the rows is the sum of their column.
LEMMA SumOfIs ==
    ASSUME NEW S, IsFiniteSet(S), NEW column, NEW v,
           \A i \in S : v[i] = reportStore[i].value[column], NEW g, Adds(g, S, v)
    PROVE  SumOf(S, column) = g[S]
<1> DEFINE w(i) == reportStore[i].value[column]
           Same(h) == h = [s \in SUBSET S |->
                              IF s = {} THEN 0 ELSE w(Pick(s)) + h[s \ {Pick(s)}]]
<1>1. ASSUME NEW h PROVE Same(h) <=> Adds(h, S, v)
  <2>1. \A s \in SUBSET S : s # {} => v[Pick(s)] = w(Pick(s))
    BY PickIn
  <2>2. QED
    BY <2>1 DEF Adds
<1>2. \A h : Same(h) <=> h = g
  BY <1>1, SumsAreUnique
<1>3. SumOf(S, column) = (CHOOSE h : Same(h))[S]
  BY Zenon DEF SumOf, MapThenSumSet, MapThenFoldSet, Pick
<1> HIDE DEF Same
<1>4. (CHOOSE h : Same(h)) = g
  BY <1>2
<1>5. QED
  BY <1>3, <1>4

\* Disjoint finite sets together have as many elements as both.
LEMMA DisjointCounts ==
    ASSUME NEW a, NEW b, NEW c, IsFiniteSet(a), IsFiniteSet(b), c = a \cup b, a \cap b = {}
    PROVE  Cardinality(c) = Cardinality(a) + Cardinality(b)
<1>1. Cardinality({}) = 0 /\ Cardinality(a) \in Nat /\ Cardinality(b) \in Nat
  BY FS_EmptySet, FS_CardinalityType
<1>2. Cardinality(a \cup b) = Cardinality(a) + Cardinality(b) - Cardinality(a \cap b)
  BY FS_Union
<1>3. Cardinality(a \cap b) = 0 /\ Cardinality(c) = Cardinality(a \cup b)
  BY <1>1
<1>4. QED
  BY <1>1, <1>2, <1>3

ValuesIn(rows, column) == {reportStore[i].value[column] : i \in rows}

\* Finitely many rows have finitely many values in a column.
LEMMA ColumnIsFinite ==
    ASSUME NEW rows, IsFiniteSet(rows), NEW column
    PROVE  IsFiniteSet(ValuesIn(rows, column))
<1>1. PICK D : D = ValuesIn(rows, column)
  OBVIOUS
<1>2. PICK f : f = [i \in rows |-> reportStore[i].value[column]]
  OBVIOUS
<1>3. f \in Surjection(rows, D)
  BY <1>1, <1>2 DEF Surjection, ValuesIn
<1>4. QED
  BY <1>1, <1>3, FS_Surjection

\* What the groups of rows by a column count adds up to the number of rows.
LEMMA GroupsAddUp ==
    ASSUME NEW rows, IsFiniteSet(rows), NEW column
    PROVE  Total(CountBy(rows, column)) = Cardinality(rows)
<1> DEFINE w(i) == reportStore[i].value[column]
           D == {w(i) : i \in rows}
           part(d) == {i \in rows : w(i) \in d}
           c == [x \in D |-> Cardinality(part({x}))]
           g == [d \in SUBSET D |-> Cardinality(part(d))]
<1>1. CountBy(rows, column) = c
  BY DEF CountBy, In
<1>2. IsFiniteSet(D)
  <2>1. D = ValuesIn(rows, column)
    BY DEF ValuesIn
  <2>2. QED
    BY <2>1, ColumnIsFinite
<1>3. \A d \in SUBSET D : IsFiniteSet(part(d)) /\ Cardinality(part(d)) \in Nat
  BY FS_Subset, FS_CardinalityType
<1>4. ASSUME NEW d \in SUBSET D
      PROVE  g[d] = IF d = {} THEN 0 ELSE c[Pick(d)] + g[d \ {Pick(d)}]
  <2>1. CASE d = {}
    <3>1. part(d) = {}
      BY <2>1
    <3>2. QED
      BY <2>1, <3>1, FS_EmptySet
  <2>2. CASE d # {}
    <3>1. PICK p \in d : p = Pick(d)
      BY <2>2, PickIn
    <3>2. /\ part(d) = part({p}) \cup part(d \ {p})
          /\ part({p}) \cap part(d \ {p}) = {}
      OBVIOUS
    <3>3. {p} \in SUBSET D /\ d \ {p} \in SUBSET D
      OBVIOUS
    <3>4. Cardinality(part(d)) = Cardinality(part({p})) + Cardinality(part(d \ {p}))
      <4>1. IsFiniteSet(part({p})) /\ IsFiniteSet(part(d \ {p}))
        BY <1>3, <3>3
      <4> HIDE DEF part
      <4>2. QED
        BY <3>2, <4>1, DisjointCounts
    <3>5. QED
      <4> HIDE DEF part
      <4>1. g[d] = Cardinality(part(d)) /\ g[d \ {p}] = Cardinality(part(d \ {p}))
        BY <3>3
      <4>2. c[p] = Cardinality(part({p}))
        OBVIOUS
      <4>3. QED
        BY <2>2, <3>1, <3>4, <4>1, <4>2
  <2>3. QED
    BY <2>1, <2>2
<1>5. Adds(g, D, c)
  <2> HIDE DEF c, D, part
  <2>1. QED
    BY <1>4 DEF Adds
<1>6. part(D) = rows
  OBVIOUS
<1>7. Total(c) = g[D]
  <2>1. DOMAIN c = D
    OBVIOUS
  <2> HIDE DEF c, D, g
  <2>2. QED
    BY <1>2, <1>5, <2>1, TotalIs
<1>8. QED
  BY <1>1, <1>6, <1>7

-----------------------------------------------------------------------------
(* Cards and tables                                                        *)

\* The table that a report is about.
TableOf(slug) ==
    CASE slug = "aid-requests" -> "aid_requests"
      [] slug = "care-provided" -> "care_provided"
      [] slug = "loan-repayments" -> "loan_repayments"
      [] slug = "revenue" -> "revenue_records"
      [] slug = "audit-log" -> "audit_logs"
      [] OTHER -> slug

LEMMA CardsOf ==
    ASSUME NEW table, NEW total, NEW groups, NEW sums, NEW others, NEW rows,
           total = Cardinality(rows),
           \A column \in DOMAIN groups : groups[column] = CountBy(rows, column),
           \A column \in DOMAIN sums \ {"none"} : sums[column] = SumOf(rows, column)
    PROVE  CardsDescribe(Cards(table, total, groups, sums, others), rows)
BY DEF CardsDescribe, Cards

\* Every summary describes the rows within its scope and filter: its total is what the
\* groups by status add up to, and all its groups and sums are over the same rows.
LEMMA SummaryDescribes ==
    ASSUME NEW slug \in ReportSlugs, NEW f, IsFiniteSet(scopedFilter(TableOf(slug), f))
    PROVE  CardsDescribe(loadSummary(slug, f), scopedFilter(TableOf(slug), f))
<1>1. PICK rows : rows = scopedFilter(TableOf(slug), f)
  OBVIOUS
<1>2. IsFiniteSet(rows) /\ Total(CountBy(rows, "status")) = Cardinality(rows)
  BY <1>1, GroupsAddUp
<1>3. DOMAIN None \ {"none"} = {} /\ DOMAIN <<>> = {}
  BY DEF None
<1>4. CASE slug = "users"
  <2>1. rows = scopedFilter("users", f) /\ loadSummary(slug, f) = GetUsersReport(f)
    BY <1>1, <1>4 DEF TableOf, loadSummary
  <2>2. CardsDescribe(GetUsersReport(f), rows)
    BY <2>1, <1>2, <1>3, CardsOf DEF GetUsersReport, groupCount, groupUserCountByRole
  <2>3. QED
    BY <1>1, <2>1, <2>2
<1>5. CASE slug = "persons"
  <2>1. rows = scopedFilter("persons", f) /\ loadSummary(slug, f) = GetPersonReport(f)
    BY <1>1, <1>5 DEF TableOf, loadSummary
  <2>2. CardsDescribe(GetPersonReport(f), rows)
    BY <2>1, <1>2, <1>3, CardsOf DEF GetPersonReport, groupCount
  <2>3. QED
    BY <1>1, <2>1, <2>2
<1>6. CASE slug = "students"
  <2>1. rows = scopedFilter("students", f) /\ loadSummary(slug, f) = GetStudentReport(f)
    BY <1>1, <1>6 DEF TableOf, loadSummary
  <2>2. CardsDescribe(GetStudentReport(f), rows)
    BY <2>1, <1>2, <1>3, CardsOf DEF GetStudentReport, groupCount
  <2>3. QED
    BY <1>1, <2>1, <2>2
<1>7. CASE slug = "donors"
  <2>1. rows = scopedFilter("donors", f) /\ loadSummary(slug, f) = GetDonorReport(f)
    BY <1>1, <1>7 DEF TableOf, loadSummary
  <2>2. CardsDescribe(GetDonorReport(f), rows)
    BY <2>1, <1>2, <1>3, CardsOf DEF GetDonorReport, groupCount
  <2>3. QED
    BY <1>1, <2>1, <2>2
<1>8. CASE slug = "donations"
  <2>1. rows = scopedFilter("donations", f) /\ loadSummary(slug, f) = GetDonationReport(f)
    BY <1>1, <1>8 DEF TableOf, loadSummary
  <2>2. CardsDescribe(GetDonationReport(f), rows)
    BY <2>1, <1>2, CardsOf DEF GetDonationReport, groupCount, sumWhere
  <2>3. QED
    BY <1>1, <2>1, <2>2
<1>9. CASE slug = "aid-requests"
  <2>1. rows = scopedFilter("aid_requests", f) /\ loadSummary(slug, f) = GetAidRequestReport(f)
    BY <1>1, <1>9 DEF TableOf, loadSummary
  <2>2. CardsDescribe(GetAidRequestReport(f), rows)
    BY <2>1, <1>2, CardsOf DEF GetAidRequestReport, groupCount, sumWhere
  <2>3. QED
    BY <1>1, <2>1, <2>2
<1>10. CASE slug = "care-provided"
  <2>1. rows = scopedFilter("care_provided", f) /\ loadSummary(slug, f) = GetCareProvidedReport(f)
    BY <1>1, <1>10 DEF TableOf, loadSummary
  <2>2. CardsDescribe(GetCareProvidedReport(f), rows)
    BY <2>1, <1>2, CardsOf DEF GetCareProvidedReport, groupCount, sumWhere
  <2>3. QED
    BY <1>1, <2>1, <2>2
<1>11. CASE slug = "loans"
  <2>1. rows = scopedFilter("loans", f) /\ loadSummary(slug, f) = GetLoanReport(f)
    BY <1>1, <1>11 DEF TableOf, loadSummary
  <2>2. CardsDescribe(GetLoanReport(f), rows)
    BY <2>1, <1>2, <1>3, CardsOf DEF GetLoanReport, groupCount
  <2>3. QED
    BY <1>1, <2>1, <2>2
<1>12. CASE slug = "loan-repayments"
  <2>1. /\ rows = scopedFilter("loan_repayments", f)
        /\ loadSummary(slug, f) = GetLoanRepaymentReport(f)
    BY <1>1, <1>12 DEF TableOf, loadSummary
  <2>2. CardsDescribe(GetLoanRepaymentReport(f), rows)
    BY <2>1, <1>2, CardsOf DEF GetLoanRepaymentReport, groupCount, sumWhere
  <2>3. QED
    BY <1>1, <2>1, <2>2
<1>13. CASE slug = "revenue"
  <2>1. rows = scopedFilter("revenue_records", f) /\ loadSummary(slug, f) = GetRevenueReport(f)
    BY <1>1, <1>13 DEF TableOf, loadSummary
  <2>2. CardsDescribe(GetRevenueReport(f), rows)
    BY <2>1, <1>2, <1>3, CardsOf DEF GetRevenueReport, countWhere
  <2>3. QED
    BY <1>1, <2>1, <2>2
<1>14. CASE slug = "audit-log"
  <2>1. rows = scopedFilter("audit_logs", f) /\ loadSummary(slug, f) = GetAuditLogReport(f)
    BY <1>1, <1>14 DEF TableOf, loadSummary
  <2>2. CardsDescribe(GetAuditLogReport(f), rows)
    BY <2>1, <1>2, <1>3, CardsOf DEF GetAuditLogReport, countWhere, groupCount
  <2>3. QED
    BY <1>1, <2>1, <2>2
<1>15. QED
  BY <1>4, <1>5, <1>6, <1>7, <1>8, <1>9, <1>10, <1>11, <1>12, <1>13, <1>14 DEF ReportSlugs

Tables == DOMAIN Samples \cup {"none"}

Values == (UNION {Samples[table] : table \in DOMAIN Samples}) \cup {NoRow.value}

ReportRow == [table : Tables, gone : BOOLEAN, hidden : BOOLEAN, value : Values]

\* Rows disappear in the way their table knows, and revenue is signed by its type.
StoreInv ==
    /\ reportStore \in [ReportRows -> ReportRow]
    /\ IsFiniteSet({i \in ReportRows : reportStore[i] # NoRow})
    /\ \A i \in ReportRows :
        /\ reportStore[i].gone => reportStore[i].table \in SoftDeleted
        /\ reportStore[i].hidden => reportStore[i].table \in Synced
        /\ reportStore[i].table = "revenue_records" =>
            /\ "revenue_records" \in DOMAIN Samples
            /\ reportStore[i].value \in Samples["revenue_records"]

\* The rows within scope and filter, the counts by a column and the sum of one, in a
\* store that may be another state's.
Scoped(st, table, f) ==
    {i \in ReportRows :
        /\ st[i].table = table
        /\ reportTableScope(st[i])
        /\ Matches(st[i].value, f, reportSummarySources[table])}

CountIn(st, rows, column) ==
    [v \in {st[i].value[column] : i \in rows} |->
        Cardinality({i \in rows : st[i].value[column] \in {v}})]

SumIn(st, rows, column) == MapThenSumSet(LAMBDA i : st[i].value[column], rows)

Described(st, cards, rows) ==
    /\ cards.total = Cardinality(rows)
    /\ \A column \in DOMAIN cards.groups : cards.groups[column] = CountIn(st, rows, column)
    /\ \A column \in DOMAIN cards.sums \ {"none"} : cards.sums[column] = SumIn(st, rows, column)

LEMMA ScopedIs ==
    ASSUME NEW table, NEW f
    PROVE  scopedFilter(table, f) = Scoped(reportStore, table, f)
BY DEF scopedFilter, Scoped

LEMMA DescribedIs ==
    ASSUME NEW cards, NEW rows
    PROVE  CardsDescribe(cards, rows) <=> Described(reportStore, cards, rows)
<1>1. ASSUME NEW column PROVE SumOf(rows, column) = SumIn(reportStore, rows, column)
  BY Zenon DEF SumOf, SumIn
<1>2. ASSUME NEW column PROVE CountBy(rows, column) = CountIn(reportStore, rows, column)
  BY DEF CountBy, CountIn, In
<1>3. QED
  BY <1>1, <1>2 DEF CardsDescribe, Described

\* What a filter finds is finite: rows that are not there are in no table.
LEMMA ScopedIsFinite ==
    ASSUME StoreInv, NEW table, table # "none", NEW f
    PROVE  IsFiniteSet(scopedFilter(table, f))
<1>1. scopedFilter(table, f) \subseteq {i \in ReportRows : reportStore[i] # NoRow}
  BY DEF scopedFilter, NoRow
<1>2. QED
  BY <1>1, FS_Subset DEF StoreInv

\* Without half-deleted rows both ways of leaving rows out come to the same.
LEMMA FindIsScoped ==
    ASSUME StoreInv, \A i \in ReportRows : ~HalfDeleted(i), NEW table, NEW f,
           NEW source, source = reportSummarySources[table]
    PROVE  Find(table, f, source) = scopedFilter(table, f)
<1>1. ASSUME NEW i \in ReportRows, reportStore[i].table = table
      PROVE  reportTableScope(reportStore[i]) <=> ~reportStore[i].gone
  <2>1. /\ reportStore[i].hidden \in BOOLEAN /\ reportStore[i].gone \in BOOLEAN
        /\ reportStore[i].hidden => reportStore[i].gone
    BY DEF StoreInv, ReportRow, HalfDeleted
  <2>2. /\ reportStore[i].gone => reportStore[i].table \in SoftDeleted
        /\ reportStore[i].hidden => reportStore[i].table \in Synced
    BY DEF StoreInv
  <2>3. "users" \in SoftDeleted /\ SoftDeleted \cap {"loans", "loan_repayments", "care_provided"} = {}
    BY DEF SoftDeleted
  <2>4. QED
    BY <2>1, <2>2, <2>3 DEF reportTableScope
<1>2. QED
  BY <1>1 DEF Find, scopedFilter

\* Every table of a report has the conditions that its summary has.
LEMMA RowsAreScoped ==
    ASSUME StoreInv, \A i \in ReportRows : ~HalfDeleted(i), NEW slug \in ReportSlugs, NEW f
    PROVE  loadRows(slug, f) = scopedFilter(TableOf(slug), f)
<1>1. CASE slug = "users"
  <2>1. loadRows(slug, f) = GetUserReportRows(f) /\ TableOf(slug) = "users"
    BY <1>1 DEF loadRows, TableOf
  <2>2. QED
    BY <2>1, FindIsScoped DEF GetUserReportRows, reportSummarySources
<1>2. CASE slug = "persons"
  <2>1. loadRows(slug, f) = GetPersonReportRows(f) /\ TableOf(slug) = "persons"
    BY <1>2 DEF loadRows, TableOf
  <2>2. QED
    BY <2>1, FindIsScoped DEF GetPersonReportRows, reportSummarySources
<1>3. CASE slug = "students"
  <2>1. loadRows(slug, f) = GetStudentReportRows(f) /\ TableOf(slug) = "students"
    BY <1>3 DEF loadRows, TableOf
  <2>2. QED
    BY <2>1, FindIsScoped DEF GetStudentReportRows, reportSummarySources
<1>4. CASE slug = "donors"
  <2>1. loadRows(slug, f) = GetDonorReportRows(f) /\ TableOf(slug) = "donors"
    BY <1>4 DEF loadRows, TableOf
  <2>2. QED
    BY <2>1, FindIsScoped DEF GetDonorReportRows, reportSummarySources
<1>5. CASE slug = "donations"
  <2>1. loadRows(slug, f) = GetDonationReportRows(f) /\ TableOf(slug) = "donations"
    BY <1>5 DEF loadRows, TableOf
  <2>2. QED
    BY <2>1, FindIsScoped DEF GetDonationReportRows, reportSummarySources
<1>6. CASE slug = "aid-requests"
  <2>1. loadRows(slug, f) = GetAidRequestReportRows(f) /\ TableOf(slug) = "aid_requests"
    BY <1>6 DEF loadRows, TableOf
  <2>2. {<<"status", "Status">>, <<"priority", "Priority">>, <<"aid_type", "Type">>}
            = {<<"status", "Status">>, <<"aid_type", "Type">>, <<"priority", "Priority">>}
    OBVIOUS
  <2>3. QED
    BY <2>1, <2>2, FindIsScoped DEF GetAidRequestReportRows, reportSummarySources
<1>7. CASE slug = "care-provided"
  <2>1. loadRows(slug, f) = GetCareProvidedReportRows(f) /\ TableOf(slug) = "care_provided"
    BY <1>7 DEF loadRows, TableOf
  <2>2. PICK source : source = reportSummarySources["care_provided"]
    OBVIOUS
  <2>3. GetCareProvidedReportRows(f)
            = {i \in Find("care_provided", f, source) : ~reportStore[i].hidden}
    BY <2>2 DEF GetCareProvidedReportRows, reportSummarySources
  <2>4. Find("care_provided", f, source) = scopedFilter("care_provided", f)
    BY <2>2, FindIsScoped
  <2>5. \A i \in scopedFilter("care_provided", f) : ~reportStore[i].hidden
    BY DEF scopedFilter, reportTableScope, SoftDeleted
  <2>6. QED
    BY <2>1, <2>3, <2>4, <2>5
<1>8. CASE slug = "loans"
  <2>1. loadRows(slug, f) = GetLoanReportRows(f) /\ TableOf(slug) = "loans"
    BY <1>8 DEF loadRows, TableOf
  <2>2. QED
    BY <2>1, FindIsScoped DEF GetLoanReportRows, reportSummarySources
<1>9. CASE slug = "loan-repayments"
  <2>1. loadRows(slug, f) = GetLoanRepaymentReportRows(f) /\ TableOf(slug) = "loan_repayments"
    BY <1>9 DEF loadRows, TableOf
  <2>2. QED
    BY <2>1, FindIsScoped DEF GetLoanRepaymentReportRows, reportSummarySources
<1>10. CASE slug = "revenue"
  <2>1. loadRows(slug, f) = GetRevenueReportRows(f) /\ TableOf(slug) = "revenue_records"
    BY <1>10 DEF loadRows, TableOf
  <2>2. {<<"record_type", "Type">>, <<"category", "Status">>}
            = {<<"category", "Status">>, <<"record_type", "Type">>}
    OBVIOUS
  <2>3. QED
    BY <2>1, <2>2, FindIsScoped DEF GetRevenueReportRows, reportSummarySources
<1>11. CASE slug = "audit-log"
  <2>1. loadRows(slug, f) = GetAuditLogReportRows(f) /\ TableOf(slug) = "audit_logs"
    BY <1>11 DEF loadRows, TableOf
  <2>2. QED
    BY <2>1, FindIsScoped DEF GetAuditLogReportRows, reportSummarySources
<1>12. QED
  BY <1>1, <1>2, <1>3, <1>4, <1>5, <1>6, <1>7, <1>8, <1>9, <1>10, <1>11 DEF ReportSlugs

\* Half-deleted rows or not, what a table lists is finite.
LEMMA RowsAreFinite ==
    ASSUME StoreInv, NEW slug \in ReportSlugs, NEW f
    PROVE  IsFiniteSet(loadRows(slug, f))
<1>1. ASSUME NEW table, table # "none", NEW g, NEW source
      PROVE  Find(table, g, source) \subseteq {i \in ReportRows : reportStore[i] # NoRow}
  BY <1>1 DEF Find, NoRow
<1>2. CASE slug \in {"users", "persons", "students", "donors"}
  <2>1. loadRows(slug, f) \in {GetUserReportRows(f), GetPersonReportRows(f),
                               GetStudentReportRows(f), GetDonorReportRows(f)}
    BY <1>2 DEF loadRows
  <2>2. QED
    BY <1>1, <2>1, FS_Subset DEF StoreInv, GetUserReportRows, GetPersonReportRows,
          GetStudentReportRows, GetDonorReportRows
<1>3. CASE slug \in {"donations", "aid-requests", "care-provided", "loans"}
  <2>1. loadRows(slug, f) \in {GetDonationReportRows(f), GetAidRequestReportRows(f),
                               GetCareProvidedReportRows(f), GetLoanReportRows(f)}
    BY <1>3 DEF loadRows
  <2>2. QED
    BY <1>1, <2>1, FS_Subset DEF StoreInv, GetDonationReportRows, GetAidRequestReportRows,
          GetCareProvidedReportRows, GetLoanReportRows
<1>4. CASE slug \in {"loan-repayments", "revenue", "audit-log"}
  <2>1. loadRows(slug, f) \in {GetLoanRepaymentReportRows(f), GetRevenueReportRows(f),
                               GetAuditLogReportRows(f)}
    BY <1>4 DEF loadRows
  <2>2. QED
    BY <1>1, <2>1, FS_Subset DEF StoreInv, GetLoanRepaymentReportRows, GetRevenueReportRows,
          GetAuditLogReportRows
<1>5. QED
  BY <1>2, <1>3, <1>4 DEF ReportSlugs

-----------------------------------------------------------------------------
(* The invariant of the reports                                            *)

\* What the filter of an open report looks like.
Parsed(f) == f.Page \in Nat \ {0} /\ f.PageSize \in 1 .. MaxPageSize

ReportInv ==
    /\ report = [step |-> report.step, slug |-> report.slug, filter |-> report.filter,
                 settled |-> report.settled, cards |-> report.cards, rows |-> report.rows,
                 shown |-> report.shown, links |-> report.links]
    /\ report.step \in {"none", "cards", "served"}
    /\ report.settled \in BOOLEAN
    /\ report.step # "none" => report.slug \in ReportSlugs /\ Parsed(report.filter)
    /\ report.step # "none" /\ report.settled =>
           Described(reportStore, report.cards,
                     Scoped(reportStore, TableOf(report.slug), report.filter))
    /\ report.step = "served" =>
           /\ IsFiniteSet(report.rows)
           /\ report.shown = normalizeReportPage(Cardinality(report.rows), report.filter)
           /\ report.links = buildReportPagination(Cardinality(report.rows), report.filter)
    /\ report.step = "served" /\ report.settled
         /\ (\A i \in ReportRows : reportStore[i].hidden => reportStore[i].gone) =>
           report.rows = Scoped(reportStore, TableOf(report.slug), report.filter)

ReportsInv == StoreInv /\ ReportInv

LEMMA TableIsNamed == ASSUME NEW slug \in ReportSlugs PROVE TableOf(slug) # "none"
BY DEF ReportSlugs, TableOf

LEMMA NoRowIsRow == NoRow \in ReportRow
<1>1. "none" \in Tables
  BY DEF Tables
<1>2. PICK v : v = NoRow.value
  OBVIOUS
<1>3. v \in Values
  BY <1>2, Zenon DEF Values
<1>4. NoRow = [table |-> "none", gone |-> FALSE, hidden |-> FALSE, value |-> v]
  BY <1>2 DEF NoRow
<1>5. QED
  BY <1>1, <1>3, <1>4 DEF ReportRow

LEMMA ReportsInitInv == ReportsInit => ReportsInv
<1> SUFFICES ASSUME ReportsInit PROVE ReportsInv
  OBVIOUS
<1>1. reportStore \in [ReportRows -> ReportRow] /\ \A i \in ReportRows : reportStore[i] = NoRow
  BY NoRowIsRow DEF ReportsInit
<1>2. {i \in ReportRows : reportStore[i] # NoRow} = {}
  BY <1>1
<1>3. StoreInv
  BY <1>1, <1>2, FS_EmptySet DEF StoreInv, NoRow
<1>4. ReportInv
  BY DEF ReportsInit, NoReport, ReportInv
<1>5. QED
  BY <1>3, <1>4 DEF ReportsInv

\* A query is parsed into a page and a size that exist.
LEMMA QueriesAreParsed ==
    ASSUME NEW f \in Filters
    PROVE  Parsed(parseReportFilter(f))
<1>1. /\ f \in [From : Nat, To : Nat, Status : STRING, Type : STRING, Priority : STRING,
                Grade : STRING, Role : STRING, Query : STRING, Page : Int, PageSize : Int]
      /\ DefaultPageSize \in 1 .. MaxPageSize /\ MaxPageSize \in Nat
  BY ReportsAssumption
<1>2. PICK page \in Nat \ {0} : page = IF f.Page < 1 THEN 1 ELSE f.Page
  BY <1>1
<1>3. PICK size \in 1 .. MaxPageSize :
        size = IF f.PageSize < 1 THEN DefaultPageSize
               ELSE IF f.PageSize > MaxPageSize THEN MaxPageSize ELSE f.PageSize
  BY <1>1
<1>4. parseReportFilter(f) = [f EXCEPT !.Page = page, !.PageSize = size]
  BY <1>2, <1>3 DEF parseReportFilter
<1>5. parseReportFilter(f).Page = page /\ parseReportFilter(f).PageSize = size
  BY <1>1, <1>4
<1>6. QED
  BY <1>5 DEF Parsed

LEMMA StoreKeeps ==
    ASSUME StoreInv, UNCHANGED reportStore
    PROVE  StoreInv'
BY DEF StoreInv

LEMMA OpenReportInv ==
    ASSUME ReportsInv, NEW slug \in ReportSlugs, NEW query \in Filters, OpenReport(slug, query)
    PROVE  ReportsInv'
<1>1. PICK f : f = parseReportFilter(query)
  OBVIOUS
<1>2. /\ report' = [NoReport EXCEPT !.step = "cards", !.slug = slug, !.filter = f,
                                    !.cards = loadSummary(slug, f)]
      /\ reportStore' = reportStore
  BY <1>1 DEF OpenReport
<1>3. PICK cards, rows : cards = loadSummary(slug, f) /\ rows = scopedFilter(TableOf(slug), f)
  OBVIOUS
<1>4. Described(reportStore, cards, Scoped(reportStore, TableOf(slug), f))
  <2>1. CardsDescribe(cards, rows)
    BY <1>3, TableIsNamed, ScopedIsFinite, SummaryDescribes DEF ReportsInv
  <2>2. rows = Scoped(reportStore, TableOf(slug), f)
    BY <1>3, ScopedIs
  <2>3. QED
    BY <2>1, <2>2, DescribedIs
<1>5. /\ report' = [step |-> "cards", slug |-> slug, filter |-> f, settled |-> TRUE,
                    cards |-> cards, rows |-> {}, shown |-> 0, links |-> NoReport.links]
  BY <1>2, <1>3 DEF NoReport
<1>6. Parsed(f)
  BY <1>1, QueriesAreParsed
<1>7. /\ report'.step = "cards" /\ report'.slug = slug /\ report'.cards = cards
      /\ report'.filter = f /\ report'.settled = TRUE
      /\ (report = [step |-> report.step, slug |-> report.slug, filter |-> report.filter,
                    settled |-> report.settled, cards |-> report.cards, rows |-> report.rows,
                    shown |-> report.shown, links |-> report.links])'
  BY <1>5
<1>8. ReportInv'
  BY <1>2, <1>4, <1>6, <1>7 DEF ReportInv
<1>9. QED
  BY <1>2, <1>8, StoreKeeps DEF ReportsInv

LEMMA ServeReportInv == ASSUME ReportsInv, ServeReport PROVE ReportsInv'
<1>1. PICK rows : rows = loadRows(report.slug, report.filter)
  OBVIOUS
<1>2. /\ report.step = "cards" /\ reportStore' = reportStore
      /\ report' = [report EXCEPT
            !.step = "served", !.rows = rows,
            !.shown = normalizeReportPage(Cardinality(rows), report.filter),
            !.links = buildReportPagination(Cardinality(rows), report.filter)]
  BY <1>1 DEF ServeReport
<1>3. /\ report = [step |-> report.step, slug |-> report.slug, filter |-> report.filter,
                   settled |-> report.settled, cards |-> report.cards, rows |-> report.rows,
                   shown |-> report.shown, links |-> report.links]
      /\ report.slug \in ReportSlugs /\ Parsed(report.filter) /\ report.settled \in BOOLEAN
  BY <1>2 DEF ReportsInv, ReportInv
<1>4. report' = [step |-> "served", slug |-> report.slug, filter |-> report.filter,
                 settled |-> report.settled, cards |-> report.cards, rows |-> rows,
                 shown |-> normalizeReportPage(Cardinality(rows), report.filter),
                 links |-> buildReportPagination(Cardinality(rows), report.filter)]
  BY <1>2, <1>3
<1>5. IsFiniteSet(rows)
  BY <1>1, <1>3, RowsAreFinite DEF ReportsInv
<1>6. (\A i \in ReportRows : reportStore[i].hidden => reportStore[i].gone)
        => rows = Scoped(reportStore, TableOf(report.slug), report.filter)
  <2> SUFFICES ASSUME \A i \in ReportRows : reportStore[i].hidden => reportStore[i].gone
               PROVE  rows = Scoped(reportStore, TableOf(report.slug), report.filter)
    OBVIOUS
  <2>1. \A i \in ReportRows : ~HalfDeleted(i)
    BY DEF HalfDeleted
  <2>2. QED
    BY <1>1, <1>3, <2>1, RowsAreScoped, ScopedIs DEF ReportsInv
<1>7. report.settled => Described(reportStore, report.cards,
                                  Scoped(reportStore, TableOf(report.slug), report.filter))
  BY <1>2 DEF ReportsInv, ReportInv
<1>8. PICK s, c, f, t : s = report.slug /\ c = report.cards /\ f = report.filter /\ t = report.settled
  OBVIOUS
<1>9. /\ report'.step = "served" /\ report'.slug = s /\ report'.cards = c /\ report'.filter = f
      /\ report'.settled = t /\ report'.rows = rows
      /\ report'.shown = normalizeReportPage(Cardinality(rows), f)
      /\ report'.links = buildReportPagination(Cardinality(rows), f)
  BY <1>4, <1>8
<1>10. ReportInv'
  <2>1. (report = [step |-> report.step, slug |-> report.slug, filter |-> report.filter,
                   settled |-> report.settled, cards |-> report.cards, rows |-> report.rows,
                   shown |-> report.shown, links |-> report.links])'
    BY <1>4
  <2>2. QED
    BY <1>2, <1>3, <1>5, <1>6, <1>7, <1>8, <1>9, <2>1 DEF ReportInv
<1>11. QED
  BY <1>2, <1>10, StoreKeeps DEF ReportsInv

LEMMA WriteInv ==
    ASSUME ReportsInv, NEW i \in ReportRows, NEW row \in ReportRow, Write(i, row),
           row.gone => row.table \in SoftDeleted,
           row.hidden => row.table \in Synced,
           row.table = "revenue_records" =>
               /\ "revenue_records" \in DOMAIN Samples
               /\ row.value \in Samples["revenue_records"]
    PROVE  ReportsInv'
<1>1. /\ report.step # "served"
      /\ reportStore' = [reportStore EXCEPT ![i] = row]
      /\ report.step = "none" => report' = report
      /\ report.step # "none" => report' = [report EXCEPT !.settled = FALSE]
  BY DEF Write
<1>2. /\ reportStore' \in [ReportRows -> ReportRow]
      /\ \A j \in ReportRows : reportStore'[j] = IF j = i THEN row ELSE reportStore[j]
  BY <1>1 DEF ReportsInv, StoreInv
<1>3. IsFiniteSet({j \in ReportRows : reportStore'[j] # NoRow})
  <2>1. PICK used : used = {j \in ReportRows : reportStore[j] # NoRow}
    OBVIOUS
  <2>2. IsFiniteSet(used \cup {i})
    BY <2>1, FS_AddElement DEF ReportsInv, StoreInv
  <2>3. {j \in ReportRows : reportStore'[j] # NoRow} \in SUBSET (used \cup {i})
    BY <1>2, <2>1
  <2>4. QED
    BY <2>2, <2>3, FS_Subset
<1>4. StoreInv'
  BY <1>2, <1>3 DEF ReportsInv, StoreInv
<1>5. CASE report.step = "none"
  BY <1>1, <1>4, <1>5 DEF ReportsInv, ReportInv
<1>6. CASE report.step # "none"
  <2>1. /\ report = [step |-> report.step, slug |-> report.slug, filter |-> report.filter,
                     settled |-> report.settled, cards |-> report.cards, rows |-> report.rows,
                     shown |-> report.shown, links |-> report.links]
        /\ report.step = "cards" /\ report.slug \in ReportSlugs /\ Parsed(report.filter)
    BY <1>1, <1>6 DEF ReportsInv, ReportInv
  <2>2. report' = [step |-> "cards", slug |-> report.slug, filter |-> report.filter,
                   settled |-> FALSE, cards |-> report.cards, rows |-> report.rows,
                   shown |-> report.shown, links |-> report.links]
    BY <1>1, <1>6, <2>1
  <2>3. ReportInv'
    BY <2>1, <2>2 DEF ReportInv
  <2>4. QED
    BY <1>4, <2>3 DEF ReportsInv
<1>7. QED
  BY <1>5, <1>6

LEMMA ReportsStepInv == ReportsInv /\ [ReportsNext]_reportVars => ReportsInv'
<1> SUFFICES ASSUME ReportsInv, [ReportsNext]_reportVars PROVE ReportsInv'
  OBVIOUS
<1>1. CASE UNCHANGED reportVars
  <2>1. reportStore' = reportStore /\ report' = report
    BY <1>1 DEF reportVars
  <2>2. ReportInv'
    BY <2>1 DEF ReportsInv, ReportInv
  <2>3. QED
    BY <2>1, <2>2, StoreKeeps DEF ReportsInv
<1>2. CASE CloseReport
  <2>1. reportStore' = reportStore /\ report' = NoReport
    BY <1>2 DEF CloseReport
  <2>2. ReportInv'
    BY <2>1 DEF NoReport, ReportInv
  <2>3. QED
    BY <2>1, <2>2, StoreKeeps DEF ReportsInv
<1>3. ASSUME NEW i \in ReportRows, NEW table \in DOMAIN Samples, NEW value \in Samples[table],
             InsertRow(i, table, value)
      PROVE  ReportsInv'
  <2>1. PICK row : row = [table |-> table, gone |-> FALSE, hidden |-> FALSE, value |-> value]
    OBVIOUS
  <2>2. table \in Tables /\ value \in Values
    BY DEF Tables, Values
  <2>3. /\ row \in ReportRow /\ row.table = table /\ row.value = value
        /\ ~row.gone /\ ~row.hidden
    BY <2>1, <2>2 DEF ReportRow
  <2>4. Write(i, row)
    BY <1>3, <2>1 DEF InsertRow
  <2>5. QED
    BY <2>3, <2>4, WriteInv
<1>4. ASSUME NEW i \in ReportRows, DeleteOnline(i) PROVE ReportsInv'
  <2>1. reportStore[i] \in ReportRow
    BY DEF ReportsInv, StoreInv
  <2>2. CASE reportStore[i].table \in SoftDeleted
    <3>1. PICK row : row = [reportStore[i] EXCEPT !.gone = TRUE]
      OBVIOUS
    <3>2. /\ row \in ReportRow /\ row.table = reportStore[i].table
          /\ row.value = reportStore[i].value /\ row.hidden = reportStore[i].hidden
      BY <2>1, <3>1 DEF ReportRow
    <3>3. Write(i, row)
      BY <1>4, <2>2, <3>1 DEF DeleteOnline
    <3>4. QED
      BY <2>2, <3>2, <3>3, WriteInv DEF ReportsInv, StoreInv
  <2>3. CASE reportStore[i].table \notin SoftDeleted
    <3>1. NoRow \in ReportRow /\ ~NoRow.gone /\ ~NoRow.hidden /\ NoRow.table = "none"
      BY NoRowIsRow DEF NoRow
    <3>2. Write(i, NoRow)
      BY <1>4, <2>3 DEF DeleteOnline
    <3>3. QED
      BY <3>1, <3>2, WriteInv
  <2>4. QED
    BY <2>2, <2>3
<1>5. ASSUME NEW i \in ReportRows, DeleteBySync(i) PROVE ReportsInv'
  <2>1. reportStore[i] \in ReportRow
    BY DEF ReportsInv, StoreInv
  <2>2. PICK row : row = [reportStore[i] EXCEPT !.hidden = TRUE]
    OBVIOUS
  <2>3. /\ row \in ReportRow /\ row.table = reportStore[i].table
        /\ row.value = reportStore[i].value /\ row.gone = reportStore[i].gone
    BY <2>1, <2>2 DEF ReportRow
  <2>4. Write(i, row) /\ reportStore[i].table \in Synced
    BY <1>5, <2>2 DEF DeleteBySync
  <2>5. QED
    BY <2>3, <2>4, WriteInv DEF ReportsInv, StoreInv
<1>6. QED
  BY <1>1, <1>2, <1>3, <1>4, <1>5, OpenReportInv, ServeReportInv DEF ReportsNext, ReportsStep

\* The invariant of the reports: rows are left out in the ways their table knows, and the
\* cards of a report under way describe the rows within its filter as long as nothing was
\* written.
THEOREM ReportsInvariant == ReportsSpec => []ReportsInv
<1>1. QED
  BY ReportsInitInv, ReportsStepInv, PTL DEF ReportsSpec

\* A page announces another one exactly if rows are left for it.
LEMMA PagesGoOn ==
    ASSUME NEW total \in Nat, NEW f, Parsed(f)
    PROVE  buildReportPagination(total, f).hasNext
              <=> total > (f.Page - 1) * f.PageSize + normalizeReportPage(total, f)
<1>1. PICK page \in Nat \ {0}, size \in Nat \ {0} : page = f.Page /\ size = f.PageSize
  BY ReportsAssumption DEF Parsed
<1>2. PICK q, offset : q = (total + size - 1) \div size /\ offset = (page - 1) * size
  OBVIOUS
<1>3. q \in Int /\ size * q <= total + size - 1 /\ total + size - 1 < size * q + size
  BY <1>1, <1>2
<1>4. offset \in Nat /\ offset + size = size * page
  <2>1. offset \in Nat /\ offset + size = page * size
    BY <1>1, <1>2, PageNumbers
  <2>2. page * size = size * page
    BY <1>1
  <2>3. QED
    BY <2>1, <2>2
<1>5. page < q <=> total > offset + size
  <2>1. ASSUME page < q PROVE total > offset + size
    <3>1. size * (page + 1) <= size * q
      BY <1>1, <1>3, <2>1
    <3>2. size * (page + 1) = size * page + size
      BY <1>1
    <3>3. QED
      BY <1>1, <1>3, <1>4, <3>1, <3>2
  <2>2. ASSUME page >= q PROVE total <= offset + size
    <3>1. size * q <= size * page
      BY <1>1, <1>3, <2>2
    <3>2. QED
      BY <1>1, <1>3, <1>4, <3>1
  <2>3. QED
    BY <1>1, <1>3, <1>4, <2>1, <2>2
<1>6. buildReportPagination(total, f).hasNext <=> page < q
  BY <1>1, <1>2 DEF buildReportPagination
<1>7. normalizeReportPage(total, f) = IF total <= offset THEN 0
                                      ELSE IF total - offset < size THEN total - offset ELSE size
  BY <1>1, <1>2 DEF normalizeReportPage
<1>8. total > offset + size <=> total > offset + normalizeReportPage(total, f)
  BY <1>1, <1>4, <1>7
<1>9. QED
  BY <1>1, <1>2, <1>5, <1>6, <1>8

\* The numbers on the cards of every report are those of the rows in the table below, for
\* any rows, filter and page, as long as nothing is written between the two readings and
\* no row is half deleted (report_repository.go against the queries of report_service.go).
THEOREM CardsMatch == ReportsSpec => []CardsMatchTable
<1>1. ReportsInv => CardsMatchTable
  <2> SUFFICES ASSUME ReportsInv, report.step = "served", report.settled,
                      \A i \in ReportRows : ~HalfDeleted(i)
               PROVE  /\ CardsDescribe(report.cards, report.rows)
                      /\ report.links.hasNext <=> Cardinality(report.rows) >
                            (report.filter.Page - 1) * report.filter.PageSize + report.shown
    BY DEF CardsMatchTable
  <2>1. \A i \in ReportRows : reportStore[i].hidden => reportStore[i].gone
    BY DEF HalfDeleted
  <2>2. /\ report.rows = Scoped(reportStore, TableOf(report.slug), report.filter)
        /\ Described(reportStore, report.cards, report.rows)
    BY <2>1 DEF ReportsInv, ReportInv
  <2>3. CardsDescribe(report.cards, report.rows)
    BY <2>2, DescribedIs
  <2>4. /\ Parsed(report.filter) /\ Cardinality(report.rows) \in Nat
        /\ report.shown = normalizeReportPage(Cardinality(report.rows), report.filter)
        /\ report.links = buildReportPagination(Cardinality(report.rows), report.filter)
    BY FS_CardinalityType DEF ReportsInv, ReportInv
  <2>5. QED
    BY <2>3, <2>4, PagesGoOn
<1>2. QED
  BY <1>1, ReportsInvariant, PTL

-----------------------------------------------------------------------------
(* Sums over parts of a set                                                *)

\* Every finite set of numbers has its sums.
LEMMA SumsExist ==
    ASSUME NEW S, NEW v, IsFiniteSet(S), v \in [S -> Int]
    PROVE  \E g \in [SUBSET S -> Int] : Adds(g, S, v)
<1> DEFINE Eq(g, s) == g[s] = IF s = {} THEN 0 ELSE v[Pick(s)] + g[s \ {Pick(s)}]
           To(n) == \E g \in [SUBSET S -> Int] :
                        \A s \in SUBSET S : Cardinality(s) <= n => Eq(g, s)
           Bad == {n \in Nat : ~To(n)}
<1>1. \A s \in SUBSET S : IsFiniteSet(s) /\ Cardinality(s) \in Nat /\ Cardinality(s) <= Cardinality(S)
  BY FS_Subset, FS_CardinalityType
<1>2. To(0)
  <2>1. PICK g : g = [s \in SUBSET S |-> 0]
    OBVIOUS
  <2>2. g \in [SUBSET S -> Int]
    BY <2>1
  <2>3. ASSUME NEW s \in SUBSET S, Cardinality(s) <= 0 PROVE Eq(g, s)
    <3>1. s = {}
      BY <1>1, <2>3, FS_EmptySet
    <3>2. QED
      BY <2>1, <3>1
  <2>4. QED
    BY <2>2, <2>3
<1>3. ASSUME NEW n \in Nat, To(n) PROVE To(n + 1)
  <2>1. PICK g \in [SUBSET S -> Int] : \A s \in SUBSET S : Cardinality(s) <= n => Eq(g, s)
    BY <1>3
  <2>2. PICK h : h = [s \in SUBSET S |-> IF s = {} THEN 0 ELSE v[Pick(s)] + g[s \ {Pick(s)}]]
    OBVIOUS
  <2>3. \A s \in SUBSET S : s # {} => /\ Pick(s) \in s
                                     /\ s \ {Pick(s)} \in SUBSET S
    BY PickIn
  <2>4. h \in [SUBSET S -> Int]
    BY <2>2, <2>3
  <2>5. ASSUME NEW s \in SUBSET S, Cardinality(s) <= n PROVE h[s] = g[s]
    BY <2>1, <2>2, <2>5
  <2>6. ASSUME NEW s \in SUBSET S, Cardinality(s) <= n + 1, s # {} PROVE Eq(h, s)
    <3>1. PICK p \in s : p = Pick(s)
      BY <2>3, <2>6
    <3>2. Cardinality(s \ {p}) = Cardinality(s) - 1
      BY <1>1, FS_RemoveElement
    <3>3. h[s \ {p}] = g[s \ {p}]
      BY <1>1, <2>5, <2>6, <3>2
    <3>4. h[s] = v[p] + g[s \ {p}]
      BY <2>2, <2>6, <3>1
    <3>5. QED
      BY <2>6, <3>1, <3>3, <3>4
  <2>7. Eq(h, {})
    BY <2>2
  <2>8. \A s \in SUBSET S : Cardinality(s) <= n + 1 => Eq(h, s)
    BY <2>6, <2>7
  <2>9. QED
    BY <2>4, <2>8
<1>4. PICK m \in Nat : m = Cardinality(S)
  BY <1>1
<1>5. To(m)
  <2>1. SUFFICES ASSUME Bad # {} PROVE FALSE
    <3> HIDE DEF To
    <3>1. QED
      OBVIOUS
  <2>2. PICK n \in Bad : \A k \in Bad : k >= n
    <3>1. Bad \in SUBSET Nat
      OBVIOUS
    <3> HIDE DEF Bad
    <3>2. QED
      BY <2>1, <3>1, LeastNumber
  <2> HIDE DEF To
  <2>3. n # 0 /\ n \in Nat
    BY <1>2
  <2>4. PICK k \in Nat : n = k + 1
    BY <2>3
  <2>5. To(k)
    BY <2>2, <2>4
  <2>6. QED
    BY <1>3, <2>4, <2>5
<1>6. PICK g \in [SUBSET S -> Int] : \A s \in SUBSET S : Cardinality(s) <= m => Eq(g, s)
  BY <1>5
<1>7. \A s \in SUBSET S : g[s] = IF s = {} THEN 0 ELSE v[Pick(s)] + g[s \ {Pick(s)}]
  BY <1>1, <1>4, <1>6
<1>8. Adds(g, S, v)
  BY <1>7 DEF Adds
<1>9. QED
  BY <1>8

\* The sums do not depend on the order.
AnyOrder(g, S, v) == \A s \in SUBSET S : \A x \in s : g[s] = v[x] + g[s \ {x}]

LEMMA SumStep ==
    ASSUME NEW S, NEW v, NEW g, IsFiniteSet(S), v \in [S -> Int],
           g \in [SUBSET S -> Int], Adds(g, S, v)
    PROVE  AnyOrder(g, S, v)
<1> DEFINE Good(t) == \A y \in t : g[t] = v[y] + g[t \ {y}]
           B == {t \in SUBSET S : ~Good(t)}
<1>1. SUFFICES B = {}
  BY DEF AnyOrder
<1>2. SUFFICES ASSUME B # {} PROVE FALSE
  OBVIOUS
<1>3. PICK t \in B : \A u \in B : u \subseteq t => u = t
  <2>1. B \in SUBSET (SUBSET S)
    OBVIOUS
  <2> HIDE DEF B
  <2>2. QED
    BY <1>2, <2>1, LeastSubset
<1>4. PICK y \in t : g[t] # v[y] + g[t \ {y}]
  OBVIOUS
<1>5. PICK p \in t : p = Pick(t)
  BY <1>4, PickIn
<1>6. g[t] = v[p] + g[t \ {p}]
  <2>1. t \in SUBSET S /\ t # {}
    OBVIOUS
  <2>2. QED
    BY <1>5, <2>1 DEF Adds
<1>7. y # p
  BY <1>4, <1>6
<1>8. Good(t \ {p}) /\ Good(t \ {y})
  <2>1. /\ t \ {p} \in SUBSET S /\ t \ {p} \subseteq t /\ t \ {p} # t
        /\ t \ {y} \in SUBSET S /\ t \ {y} \subseteq t /\ t \ {y} # t
    OBVIOUS
  <2> HIDE DEF Good
  <2>2. QED
    BY <1>3, <2>1
<1>9. /\ g[t \ {p}] = v[y] + g[(t \ {p}) \ {y}]
      /\ g[t \ {y}] = v[p] + g[(t \ {y}) \ {p}]
  BY <1>7, <1>8
<1>10. (t \ {p}) \ {y} = (t \ {y}) \ {p}
  OBVIOUS
<1>11. v[p] \in Int /\ v[y] \in Int /\ g[(t \ {y}) \ {p}] \in Int
  OBVIOUS
<1> HIDE DEF B, Good
<1>12. g[t] = v[p] + (v[y] + g[(t \ {y}) \ {p}])
  BY <1>6, <1>9, <1>10
<1>13. v[y] + g[t \ {y}] = v[y] + (v[p] + g[(t \ {y}) \ {p}])
  BY <1>9
<1>14. QED
  BY <1>4, <1>11, <1>12, <1>13

\* Disjoint parts add up.
AddsUp(g, S) == \A a, b \in SUBSET S : a \cap b = {} => g[a \cup b] = g[a] + g[b]

LEMMA SumOfParts ==
    ASSUME NEW S, NEW v, NEW g, IsFiniteSet(S), v \in [S -> Int],
           g \in [SUBSET S -> Int], Adds(g, S, v)
    PROVE  AddsUp(g, S)
<1> SUFFICES ASSUME NEW a \in SUBSET S, NEW b \in SUBSET S, a \cap b = {}
             PROVE  g[a \cup b] = g[a] + g[b]
  BY DEF AddsUp
<1> DEFINE B == {t \in SUBSET b : g[a \cup t] # g[a] + g[t]}
<1>1. SUFFICES ASSUME B # {} PROVE FALSE
  OBVIOUS
<1>2. PICK t \in B : \A u \in B : u \subseteq t => u = t
  <2>1. B \in SUBSET (SUBSET S)
    OBVIOUS
  <2> HIDE DEF B
  <2>2. QED
    BY <1>1, <2>1, LeastSubset
<1>6. \A s \in SUBSET S : \A x \in s : g[s] = v[x] + g[s \ {x}]
  <2>1. AnyOrder(g, S, v)
    BY SumStep
  <2>2. QED
    BY <2>1 DEF AnyOrder
<1>3. CASE t = {}
  <2>1. g[{}] = 0 /\ a \cup t = a /\ g[a] \in Int
    BY <1>3, AddsStep
  <2>2. QED
    BY <1>2, <1>3, <2>1
<1>4. CASE t # {}
  <2>1. PICK x : x \in t
    BY <1>4
  <2>2. t \ {x} \subseteq t /\ t \ {x} # t /\ t \ {x} \in SUBSET b
    BY <2>1
  <2>3. g[a \cup (t \ {x})] = g[a] + g[t \ {x}]
    BY <1>2, <2>2
  <2>4. (a \cup t) \ {x} = a \cup (t \ {x})
    BY <2>1
  <2>5. g[a \cup t] = v[x] + g[(a \cup t) \ {x}] /\ g[t] = v[x] + g[t \ {x}]
    <3>1. PICK c \in SUBSET S : c = a \cup t
      OBVIOUS
    <3>2. x \in c /\ t \in SUBSET S /\ x \in t
      BY <2>1, <3>1
    <3>3. g[c] = v[x] + g[c \ {x}]
      BY <1>6, <3>2
    <3>4. g[t] = v[x] + g[t \ {x}]
      BY <1>6, <3>2
    <3>5. QED
      BY <3>1, <3>3, <3>4
  <2>6. v[x] \in Int /\ g[a] \in Int /\ g[t \ {x}] \in Int
    BY <2>1
  <2>7. g[a \cup t] = v[x] + (g[a] + g[t \ {x}])
    BY <2>3, <2>4, <2>5
  <2>8. g[a \cup t] # g[a] + g[t]
    BY <1>2
  <2> HIDE DEF B
  <2>9. QED
    BY <2>5, <2>6, <2>7, <2>8
<1>5. QED
  BY <1>3, <1>4

\* The sum over a part, as the fold over that part takes it.
LEMMA SumOfPart ==
    ASSUME NEW S, NEW column, NEW v, NEW g, NEW T, IsFiniteSet(S),
           \A i \in S : v[i] = reportStore[i].value[column], Adds(g, S, v), T \in SUBSET S
    PROVE  SumOf(T, column) = g[T]
<1>1. PICK h : h = [s \in SUBSET T |-> g[s]]
  OBVIOUS
<1>2. ASSUME NEW s \in SUBSET T
      PROVE  h[s] = IF s = {} THEN 0 ELSE v[Pick(s)] + h[s \ {Pick(s)}]
  <2>1. s \in SUBSET S /\ s \ {Pick(s)} \in SUBSET T
    OBVIOUS
  <2>2. g[s] = IF s = {} THEN 0 ELSE v[Pick(s)] + g[s \ {Pick(s)}]
    BY <2>1 DEF Adds
  <2>3. QED
    BY <1>1, <2>1, <2>2
<1>3. Adds(h, T, v)
  <2>1. h = [s \in SUBSET T |-> h[s]]
    BY <1>1
  <2>2. QED
    BY <1>2, <2>1 DEF Adds
<1>4. SumOf(T, column) = h[T]
  <2>1. IsFiniteSet(T)
    BY FS_Subset
  <2>2. QED
    BY <1>3, <2>1, SumOfIs
<1>5. QED
  BY <1>1, <1>4

-----------------------------------------------------------------------------
(* The numbers of the surfaces                                             *)

\* Income less expense is the sum of the signed amounts, and so are the categories.
LEMMA RevenueAddsUp ==
    ASSUME StoreInv, NEW f
    PROVE  LET rows == scopedFilter("revenue_records", f)
           IN  /\ SumOf(In(rows, "record_type", {"income"}), "amount")
                    - SumOf(In(rows, "record_type", {"expense"}), "amount")
                       = SumOf(rows, "signed")
               /\ Total(groupSum("revenue_records", "signed", "category", f))
                    = SumOf(rows, "signed")
<1>1. PICK rows : rows = scopedFilter("revenue_records", f)
  OBVIOUS
<1>2. IsFiniteSet(rows)
  BY <1>1, ScopedIsFinite
<1>3. ASSUME NEW i \in rows
      PROVE  LET value == reportStore[i].value
             IN  /\ value.amount \in Int
                 /\ \/ value.record_type = "income" /\ value.signed = value.amount
                    \/ value.record_type = "expense" /\ value.signed = -value.amount
  <2>1. i \in ReportRows /\ reportStore[i].table = "revenue_records"
    BY <1>1 DEF scopedFilter
  <2>2. /\ "revenue_records" \in DOMAIN Samples
        /\ reportStore[i].value \in Samples["revenue_records"]
    BY <2>1 DEF StoreInv
  <2>3. QED
    BY <2>2, ReportsAssumption
<1>4. PICK signed, amount :
        /\ signed = [i \in rows |-> reportStore[i].value["signed"]]
        /\ amount = [i \in rows |-> reportStore[i].value["amount"]]
  OBVIOUS
<1>5. PICK inc, exp : /\ inc = In(rows, "record_type", {"income"})
                      /\ exp = In(rows, "record_type", {"expense"})
  OBVIOUS
<1>6. /\ inc \in SUBSET rows /\ exp \in SUBSET rows /\ rows = inc \cup exp
      /\ amount \in [rows -> Int] /\ signed \in [rows -> Int]
      /\ \A i \in inc : i \notin exp /\ signed[i] = amount[i]
      /\ \A i \in exp : i \notin inc /\ signed[i] = -amount[i]
  <2>1. ASSUME NEW i \in rows
        PROVE  /\ amount[i] \in Int /\ signed[i] \in Int
               /\ i \in inc \/ i \in exp
               /\ i \in inc => i \notin exp /\ signed[i] = amount[i]
               /\ i \in exp => i \notin inc /\ signed[i] = -amount[i]
    BY <1>3, <1>4, <1>5 DEF In
  <2>2. inc \in SUBSET rows /\ exp \in SUBSET rows
    BY <1>5 DEF In
  <2>3. amount = [i \in rows |-> amount[i]] /\ signed = [i \in rows |-> signed[i]]
    BY <1>4
  <2>4. amount \in [rows -> Int]
    BY <2>1, <2>3
  <2>5. signed \in [rows -> Int]
    BY <2>1, <2>3
  <2>6. QED
    BY <2>1, <2>2, <2>4, <2>5
<1>7. PICK g \in [SUBSET rows -> Int] : Adds(g, rows, signed)
  BY <1>2, <1>6, SumsExist
<1>8. PICK h \in [SUBSET rows -> Int] : Adds(h, rows, amount)
  BY <1>2, <1>6, SumsExist
<1>9. /\ AnyOrder(g, rows, signed) /\ AddsUp(g, rows) /\ AnyOrder(h, rows, amount)
      /\ g[{}] = 0 /\ h[{}] = 0
  <2>1. AnyOrder(g, rows, signed) /\ AddsUp(g, rows)
    BY <1>2, <1>6, <1>7, SumStep, SumOfParts
  <2>2. AnyOrder(h, rows, amount)
    BY <1>2, <1>6, <1>8, SumStep
  <2>3. g[{}] = 0 /\ h[{}] = 0
    BY <1>7, <1>8, AddsStep
  <2>4. QED
    BY <2>1, <2>2, <2>3
<1>10. g[rows] = h[inc] - h[exp]
  <2> DEFINE Claim(t) == g[t] = h[t \cap inc] - h[t \cap exp]
             B == {t \in SUBSET rows : ~Claim(t)}
  <2>1. CASE B = {}
    <3>1. Claim(rows)
      BY <2>1
    <3>2. rows \cap inc = inc /\ rows \cap exp = exp
      BY <1>6
    <3>3. QED
      BY <3>1, <3>2
  <2>2. CASE B # {}
    <3>1. PICK t \in B : \A u \in B : u \subseteq t => u = t
      <4>1. B \in SUBSET (SUBSET rows)
        OBVIOUS
      <4> HIDE DEF B
      <4>2. QED
        BY <1>2, <2>2, <4>1, LeastSubset
    <3>2. t \in SUBSET rows /\ ~Claim(t)
      OBVIOUS
    <3>3. t # {}
      <4>1. Claim({})
        BY <1>9
      <4>2. QED
        BY <3>2, <4>1
    <3>4. PICK x \in t : TRUE
      BY <3>3
    <3>5. Claim(t \ {x})
      <4>1. t \ {x} \in SUBSET rows /\ t \ {x} \subseteq t /\ t \ {x} # t
        BY <3>2
      <4> HIDE DEF Claim
      <4>2. QED
        BY <3>1, <4>1
    <3>6. g[t] = signed[x] + g[t \ {x}]
      BY <1>9, <3>2 DEF AnyOrder
    <3>7. PICK p, q : p = t \cap inc /\ q = t \cap exp
      OBVIOUS
    <3>8. /\ p \in SUBSET rows /\ q \in SUBSET rows
          /\ (t \ {x}) \cap inc = p \ {x} /\ (t \ {x}) \cap exp = q \ {x}
      BY <3>2, <3>7
    <3>9. /\ h[p] \in Int /\ h[q] \in Int /\ h[p \ {x}] \in Int /\ h[q \ {x}] \in Int
          /\ amount[x] \in Int
      BY <1>6, <1>8, <3>2, <3>8
    <3>10. CASE x \in inc
      <4>1. x \in p /\ q \ {x} = q /\ signed[x] = amount[x]
        BY <1>6, <3>7, <3>10
      <4>2. h[p] = amount[x] + h[p \ {x}]
        BY <1>9, <3>8, <4>1 DEF AnyOrder
      <4>3. g[t \ {x}] = h[p \ {x}] - h[q \ {x}]
        BY <3>5, <3>8
      <4>4. g[t] = h[p] - h[q]
        <5> HIDE DEF B, Claim
        <5>1. PICK u, a, b, d, e : /\ u = amount[x] /\ a = h[p] /\ b = h[q]
                                   /\ d = h[p \ {x}] /\ e = h[q \ {x}]
          OBVIOUS
        <5>2. /\ u \in Int /\ a \in Int /\ b \in Int /\ d \in Int /\ e \in Int
          BY <3>9, <5>1
        <5>3. b = e /\ a = u + d /\ g[t] = u + (d - e)
          BY <3>6, <4>1, <4>2, <4>3, <5>1
        <5>4. QED
          BY <5>1, <5>2, <5>3
      <4>5. QED
        BY <3>2, <3>7, <4>4
    <3>11. CASE x \in exp
      <4>1. x \in q /\ p \ {x} = p /\ signed[x] = -amount[x]
        BY <1>6, <3>7, <3>11
      <4>2. h[q] = amount[x] + h[q \ {x}]
        BY <1>9, <3>8, <4>1 DEF AnyOrder
      <4>3. g[t \ {x}] = h[p \ {x}] - h[q \ {x}]
        BY <3>5, <3>8
      <4>4. g[t] = h[p] - h[q]
        <5> HIDE DEF B, Claim
        <5>1. PICK u, a, b, d, e : /\ u = amount[x] /\ a = h[p] /\ b = h[q]
                                   /\ d = h[p \ {x}] /\ e = h[q \ {x}]
          OBVIOUS
        <5>2. /\ u \in Int /\ a \in Int /\ b \in Int /\ d \in Int /\ e \in Int
          BY <3>9, <5>1
        <5>3. a = d /\ b = u + e /\ g[t] = -u + (d - e)
          BY <3>6, <4>1, <4>2, <4>3, <5>1
        <5>4. QED
          BY <5>1, <5>2, <5>3
      <4>5. QED
        BY <3>2, <3>7, <4>4
    <3>12. QED
      BY <1>6, <3>2, <3>10, <3>11
  <2>3. QED
    BY <2>1, <2>2
<1>11. SumOf(inc, "amount") = h[inc] /\ SumOf(exp, "amount") = h[exp]
  BY <1>2, <1>4, <1>6, <1>8, SumOfPart
<1> DEFINE D == {reportStore[i].value["category"] : i \in rows}
           part(d) == {i \in rows : reportStore[i].value["category"] \in d}
           c == [x \in D |-> SumOf(part({x}), "signed")]
           k == [d \in SUBSET D |-> g[part(d)]]
<1>12. groupSum("revenue_records", "signed", "category", f) = c
  BY <1>1 DEF groupSum, In
<1>13. \A x \in D : c[x] = g[part({x})]
  <2>1. ASSUME NEW x \in D PROVE SumOf(part({x}), "signed") = g[part({x})]
    <3>1. PICK T : T = part({x})
      OBVIOUS
    <3>2. T \in SUBSET rows
      BY <3>1
    <3>3. SumOf(T, "signed") = g[T]
      BY <1>2, <1>4, <1>7, <3>2, SumOfPart
    <3>4. QED
      BY <3>1, <3>3
  <2>2. QED
    BY <2>1
<1>14. IsFiniteSet(D)
  <2>1. D = ValuesIn(rows, "category")
    BY DEF ValuesIn
  <2> HIDE DEF D
  <2>2. QED
    BY <1>2, <2>1, ColumnIsFinite
<1>15. ASSUME NEW d \in SUBSET D
       PROVE  k[d] = IF d = {} THEN 0 ELSE c[Pick(d)] + k[d \ {Pick(d)}]
  <2>1. CASE d = {}
    <3>1. part(d) = {}
      BY <2>1
    <3>2. k[d] = g[part(d)]
      OBVIOUS
    <3>3. QED
      BY <1>9, <2>1, <3>1, <3>2
  <2>2. CASE d # {}
    <3>1. PICK p \in d : p = Pick(d)
      BY <2>2, PickIn
    <3>2. PICK a, b : a = part({p}) /\ b = part(d \ {p})
      OBVIOUS
    <3>3. a \in SUBSET rows /\ b \in SUBSET rows /\ a \cap b = {} /\ part(d) = a \cup b
      BY <3>2
    <3>4. g[a \cup b] = g[a] + g[b]
      BY <1>9, <3>3 DEF AddsUp
    <3>5. k[d] = g[part(d)] /\ k[d \ {p}] = g[part(d \ {p})]
      OBVIOUS
    <3>6. c[p] = g[part({p})]
      BY <1>13
    <3> HIDE DEF k, c, part
    <3>7. QED
      BY <2>2, <3>1, <3>2, <3>3, <3>4, <3>5, <3>6
  <2>3. QED
    BY <2>1, <2>2
<1>16. Adds(k, D, c)
  <2> HIDE DEF c, D, part
  <2>1. QED
    BY <1>15 DEF Adds
<1>17. Total(c) = k[D]
  <2>1. DOMAIN c = D
    OBVIOUS
  <2> HIDE DEF c, D, k
  <2>2. QED
    BY <1>14, <1>16, <2>1, TotalIs
<1>18. k[D] = g[rows]
  <2>1. part(D) = rows
    OBVIOUS
  <2>2. k[D] = g[part(D)]
    OBVIOUS
  <2>3. QED
    BY <2>1, <2>2
<1> HIDE DEF c, k, D
<1>19. SumOf(rows, "signed") = g[rows]
  BY <1>2, <1>4, <1>7, SumOfPart
<1>20. /\ SumOf(inc, "amount") - SumOf(exp, "amount") = SumOf(rows, "signed")
       /\ Total(c) = SumOf(rows, "signed")
  BY <1>10, <1>11, <1>17, <1>18, <1>19
<1>21. QED
  BY <1>1, <1>5, <1>12, <1>20

\* Without a filter the reports read what the dashboard counts.
LEMMA CountIsScoped ==
    ASSUME StoreInv,
           NEW table \in {"persons", "students", "donors", "aid_requests", "revenue_records",
                          "loans", "users"}
    PROVE  scopedFilter(table, Unfiltered) =
             CASE table = "loans" -> NotHidden(table)
               [] table = "users" -> NotGone(table)
               [] OTHER -> Undeleted(table)
<1>1. ASSUME NEW i \in ReportRows, reportStore[i].table = table
      PROVE  Matches(reportStore[i].value, Unfiltered, reportSummarySources[table])
  <2>1. PICK source : source = reportSummarySources[table]
    OBVIOUS
  <2>2. source.equals \in {{<<"status", "Status">>},
                           {<<"status", "Status">>, <<"role", "Role">>},
                           {<<"status", "Status">>, <<"grade", "Grade">>},
                           {<<"status", "Status">>, <<"donor_type", "Type">>},
                           {<<"status", "Status">>, <<"aid_type", "Type">>,
                            <<"priority", "Priority">>},
                           {<<"category", "Status">>, <<"record_type", "Type">>}}
    BY <2>1 DEF reportSummarySources, Source
  <2>3. \A e \in source.equals : e[2] \in {"Status", "Grade", "Type", "Role", "Priority"}
    BY <2>2
  <2>4. /\ Unfiltered["Status"] = "" /\ Unfiltered["Grade"] = "" /\ Unfiltered["Type"] = ""
        /\ Unfiltered["Role"] = "" /\ Unfiltered["Priority"] = ""
    BY DEF Unfiltered
  <2>5. \A e \in source.equals : Unfiltered[e[2]] = ""
    BY <2>3, <2>4
  <2>6. QED
    BY <2>1, <2>5 DEF Matches, Unfiltered
<1>2. ASSUME NEW i \in ReportRows, reportStore[i].table = table
      PROVE  reportTableScope(reportStore[i]) <=>
               CASE table = "loans" -> ~reportStore[i].hidden
                 [] table = "users" -> ~reportStore[i].gone
                 [] OTHER -> ~reportStore[i].gone /\ ~reportStore[i].hidden
  BY <1>2 DEF reportTableScope, SoftDeleted
<1>3. QED
  BY <1>1, <1>2 DEF scopedFilter, Undeleted, NotHidden, NotGone

\* The total of a report is the number of rows in the scope.
LEMMA TotalsCount ==
    ASSUME StoreInv, NEW table, table # "none", NEW column, NEW f
    PROVE  Total(groupCount(table, column, f)) = countWhere(table, f)
BY ScopedIsFinite, GroupsAddUp DEF groupCount, countWhere

\* One group of a report is the number of its rows.
LEMMA InStatusCounts ==
    ASSUME NEW rows, NEW cards, NEW status, "status" \in DOMAIN cards.groups,
           cards.groups["status"] = CountBy(rows, "status")
    PROVE  InStatus(cards, status) = Cardinality(In(rows, "status", {status}))
<1>1. CASE status \in {reportStore[i].value["status"] : i \in rows}
  BY <1>1 DEF InStatus, CountBy
<1>2. CASE status \notin {reportStore[i].value["status"] : i \in rows}
  <2>1. In(rows, "status", {status}) = {}
    BY <1>2 DEF In
  <2>2. InStatus(cards, status) = 0
    BY <1>2 DEF InStatus, CountBy
  <2>3. QED
    BY <2>1, <2>2, FS_EmptySet
<1>3. QED
  BY <1>1, <1>2

\* One group of a report: the rows that a table narrowed to it finds.
LEMMA StatusIsNarrowed ==
    ASSUME StoreInv, \A i \in ReportRows : ~HalfDeleted(i),
           NEW table \in {"students", "loans"}, NEW cards, "status" \in DOMAIN cards.groups,
           cards.groups["status"] = groupCount(table, "status", Unfiltered)
    PROVE  InStatus(cards, "Active")
             = Cardinality(scopedFilter(table, [Unfiltered EXCEPT !.Status = "Active"]))
<1>1. PICK rows : rows = scopedFilter(table, Unfiltered)
  OBVIOUS
<1>2. PICK narrow : narrow = [Unfiltered EXCEPT !.Status = "Active"]
  OBVIOUS
<1>3. PICK source : source = reportSummarySources[table]
  OBVIOUS
<1>4. source.equals \in {{<<"status", "Status">>},
                         {<<"status", "Status">>, <<"grade", "Grade">>}}
  BY <1>3 DEF reportSummarySources, Source
<1>5. ASSUME NEW value
      PROVE  /\ Matches(value, Unfiltered, source)
             /\ Matches(value, narrow, source) <=> value["status"] = "Active"
  <2>1. /\ Unfiltered["Status"] = "" /\ Unfiltered["Grade"] = ""
        /\ narrow["Status"] = "Active" /\ narrow["Grade"] = ""
    BY <1>2 DEF Unfiltered
  <2>2. /\ <<"status", "Status">> \in source.equals
        /\ \A e \in source.equals : \/ e[1] = "status" /\ e[2] = "Status"
                                    \/ e[1] = "grade" /\ e[2] = "Grade"
    BY <1>4
  <2>3. \A e \in source.equals : Unfiltered[e[2]] = ""
    BY <2>1, <2>2
  <2>4. (\A e \in source.equals : narrow[e[2]] = "" \/ value[e[1]] = narrow[e[2]])
          <=> value["status"] = "Active"
    <3>1. \A e \in source.equals : (narrow[e[2]] = "" \/ value[e[1]] = narrow[e[2]])
                                       <=> (e[2] = "Grade" \/ value["status"] = "Active")
      BY <2>1, <2>2
    <3>2. PICK e \in source.equals : e = <<"status", "Status">>
      BY <2>2
    <3>3. e[2] # "Grade"
      BY <3>2
    <3>4. QED
      BY <3>1, <3>2, <3>3
  <2>5. /\ Unfiltered.From = 0 /\ Unfiltered.To = 0 /\ Unfiltered.Query = ""
        /\ narrow.From = 0 /\ narrow.To = 0 /\ narrow.Query = ""
    BY <1>2 DEF Unfiltered
  <2>6. QED
    BY <2>3, <2>4, <2>5 DEF Matches
<1>6. scopedFilter(table, narrow) = In(rows, "status", {"Active"})
  BY <1>1, <1>3, <1>5 DEF scopedFilter, In
<1>7. cards.groups["status"] = CountBy(rows, "status")
  BY <1>1 DEF groupCount
<1>8. QED
  BY <1>2, <1>6, <1>7, InStatusCounts

LEMMA StoreAgrees == StoreInv => SurfacesAgree
<1> SUFFICES ASSUME StoreInv PROVE SurfacesAgree
  OBVIOUS
<1>1. GetDashboardReport["persons"] = GetPersonReport(Unfiltered).total
  <2>1. GetPersonReport(Unfiltered).total = Total(groupCount("persons", "status", Unfiltered))
    BY DEF GetPersonReport, Cards
  <2>2. QED
    BY <2>1, TotalsCount DEF GetDashboardReport, Entities
<1>2. \A table \in {"persons", "students", "donors"} : GetStats[table] = GetDashboardReport[table]
  <2>1. \A table \in {"persons", "students", "donors"} : GetStats[table] = Count(table)
    BY DEF GetStats
  <2>2. QED
    BY <2>1, CountIsScoped DEF GetDashboardReport, Entities, Count, countWhere
<1>3. LandingPage["donations"] = GetDashboardReport["donations"]
  <2>1. LandingPage["donations"] = GetDonationReport(Unfiltered).total
    BY DEF LandingPage
  <2>2. GetDonationReport(Unfiltered).total = Total(groupCount("donations", "status", Unfiltered))
    BY DEF GetDonationReport, Cards
  <2>3. QED
    BY <2>1, <2>2, TotalsCount DEF GetDashboardReport, Entities
<1>4. GetAccountStatusReport.total = GetDashboardReport["users"]
  <2>1. GetAccountStatusReport.total = Total(groupCount("users", "status", Unfiltered))
    BY DEF GetAccountStatusReport, GetUsersReport, Cards
  <2>2. QED
    BY <2>1, TotalsCount DEF GetDashboardReport
<1>5. GetSystemAlertReport.total <= GetAuditLogReport(Unfiltered).total
  <2>1. PICK rows : rows = scopedFilter("audit_logs", Unfiltered)
    OBVIOUS
  <2>2. IsFiniteSet(rows)
    BY <2>1, ScopedIsFinite
  <2>3. In(rows, "action", SystemAlertActions) \subseteq rows
    BY DEF In
  <2>4. Cardinality(In(rows, "action", SystemAlertActions)) <= Cardinality(rows)
    BY <2>2, <2>3, FS_Subset
  <2>5. GetSystemAlertReport.total = Cardinality(In(rows, "action", SystemAlertActions))
    BY <2>1 DEF GetSystemAlertReport, Cards
  <2>6. GetAuditLogReport(Unfiltered).total = Cardinality(rows)
    BY <2>1 DEF GetAuditLogReport, Cards, countWhere
  <2>7. QED
    BY <2>4, <2>5, <2>6
<1>6. LET others == GetRevenueReport(Unfiltered).others
      IN  /\ GetStats["RevenueSummary"] = others["income"] - others["expense"]
          /\ GetStats["RevenueSummary"] = Total(others["byCategory"])
  <2>1. PICK rows : rows = scopedFilter("revenue_records", Unfiltered)
    OBVIOUS
  <2>2. PICK sums : sums = groupSum("revenue_records", "signed", "category", Unfiltered)
    OBVIOUS
  <2>3. PICK a, b : /\ a = SumOf(In(rows, "record_type", {"income"}), "amount")
                    /\ b = SumOf(In(rows, "record_type", {"expense"}), "amount")
    OBVIOUS
  <2>4. SumOf(rows, "signed") = a - b /\ SumOf(rows, "signed") = Total(sums)
    BY <2>1, <2>2, <2>3, RevenueAddsUp
  <2>5. GetRevenueReport(Unfiltered).others = [income |-> a, expense |-> b, byCategory |-> sums]
    BY <2>1, <2>2, <2>3 DEF GetRevenueReport, Cards
  <2>6. rows = Undeleted("revenue_records")
    BY <2>1, CountIsScoped
  <2>7. GetStats["RevenueSummary"] = SumOf(rows, "signed")
    BY <2>6 DEF GetStats
  <2>8. QED
    BY <2>4, <2>5, <2>7
<1>7. ASSUME \A i \in ReportRows : ~HalfDeleted(i)
      PROVE  /\ LandingPage["students"] =
                   Cardinality(GetStudentReportRows([Unfiltered EXCEPT !.Status = "Active"]))
             /\ LandingPage["loans"] =
                   Cardinality(GetLoanReportRows([Unfiltered EXCEPT !.Status = "Active"]))
             /\ GetDonorReport(Unfiltered).others["donations"] =
                   Cardinality(GetDonationReportRows(Unfiltered))
             /\ GetLoanReport(Unfiltered).others["outstanding"].amount =
                   SumOf(In(GetLoanRepaymentReportRows(Unfiltered), "status",
                            {"Pending", "Overdue"}), "amount")
  <2>1. PICK narrow : narrow = [Unfiltered EXCEPT !.Status = "Active"]
    OBVIOUS
  <2>2. GetStudentReportRows(narrow) = scopedFilter("students", narrow)
    BY <1>7, FindIsScoped DEF GetStudentReportRows, reportSummarySources
  <2>3. GetLoanReportRows(narrow) = scopedFilter("loans", narrow)
    BY <1>7, FindIsScoped DEF GetLoanReportRows, reportSummarySources
  <2>4. LandingPage["students"] = Cardinality(scopedFilter("students", narrow))
    <3>1. PICK cards : cards = GetStudentReport(Unfiltered)
      OBVIOUS
    <3>2. /\ "status" \in DOMAIN cards.groups
          /\ cards.groups["status"] = groupCount("students", "status", Unfiltered)
      BY <3>1 DEF GetStudentReport, Cards
    <3>3. InStatus(cards, "Active") = Cardinality(scopedFilter("students", narrow))
      BY <1>7, <2>1, <3>2, StatusIsNarrowed
    <3>4. QED
      BY <3>1, <3>3 DEF LandingPage
  <2>5. LandingPage["loans"] = Cardinality(scopedFilter("loans", narrow))
    <3>1. PICK cards : cards = GetLoanReport(Unfiltered)
      OBVIOUS
    <3>2. /\ "status" \in DOMAIN cards.groups
          /\ cards.groups["status"] = groupCount("loans", "status", Unfiltered)
      BY <3>1 DEF GetLoanReport, Cards
    <3>3. InStatus(cards, "Active") = Cardinality(scopedFilter("loans", narrow))
      BY <1>7, <2>1, <3>2, StatusIsNarrowed
    <3>4. QED
      BY <3>1, <3>3 DEF LandingPage
  <2>6. GetDonorReport(Unfiltered).others["donations"] =
          Cardinality(GetDonationReportRows(Unfiltered))
    <3>1. GetDonationReportRows(Unfiltered) = scopedFilter("donations", Unfiltered)
      BY <1>7, FindIsScoped DEF GetDonationReportRows, reportSummarySources
    <3>2. GetDonorReport(Unfiltered).others["donations"] = countWhere("donations", Unfiltered)
      BY DEF GetDonorReport, Cards
    <3>3. QED
      BY <3>1, <3>2 DEF countWhere
  <2>7. GetLoanReport(Unfiltered).others["outstanding"].amount =
          SumOf(In(GetLoanRepaymentReportRows(Unfiltered), "status", {"Pending", "Overdue"}),
                "amount")
    <3>1. GetLoanRepaymentReportRows(Unfiltered) = scopedFilter("loan_repayments", Unfiltered)
      BY <1>7, FindIsScoped DEF GetLoanRepaymentReportRows, reportSummarySources
    <3>2. GetLoanReport(Unfiltered).others["outstanding"] = outstandingRepayments(Unfiltered)
      BY DEF GetLoanReport, Cards
    <3>3. outstandingRepayments(Unfiltered).amount =
            SumOf(In(scopedFilter("loan_repayments", Unfiltered), "status",
                     {"Pending", "Overdue"}), "amount")
      BY DEF outstandingRepayments
    <3>4. QED
      BY <3>1, <3>2, <3>3
  <2>8. QED
    BY <2>1, <2>2, <2>3, <2>4, <2>5, <2>6, <2>7
<1>8. /\ GetStats["TotalUsers"] = GetDashboardReport["users"]
      /\ GetStats["ActiveUsers"] = InStatus(GetAccountStatusReport, "Active")
  <2>1. PICK users : users = scopedFilter("users", Unfiltered)
    OBVIOUS
  <2>2. users = NotGone("users")
    BY <2>1, CountIsScoped
  <2>3. GetDashboardReport["users"] = Cardinality(users)
    BY <2>1 DEF GetDashboardReport, countWhere
  <2>4. PICK cards : cards = GetAccountStatusReport
    OBVIOUS
  <2>5. "status" \in DOMAIN cards.groups /\ cards.groups["status"] = CountBy(users, "status")
    BY <2>1, <2>4 DEF GetAccountStatusReport, GetUsersReport, Cards, groupCount
  <2>6. InStatus(cards, "Active") = Cardinality(In(users, "status", {"Active"}))
    BY <2>5, InStatusCounts
  <2>7. QED
    BY <2>2, <2>3, <2>4, <2>6 DEF GetStats
<1>9. GetStats["ActiveLoans"] = LandingPage["loans"]
  <2>1. PICK loaned : loaned = scopedFilter("loans", Unfiltered)
    OBVIOUS
  <2>2. loaned = NotHidden("loans")
    BY <2>1, CountIsScoped
  <2>3. PICK cards : cards = GetLoanReport(Unfiltered)
    OBVIOUS
  <2>4. "status" \in DOMAIN cards.groups /\ cards.groups["status"] = CountBy(loaned, "status")
    BY <2>1, <2>3 DEF GetLoanReport, Cards, groupCount
  <2>5. LandingPage["loans"] = InStatus(cards, "Active")
    BY <2>3 DEF LandingPage
  <2>6. QED
    BY <2>2, <2>4, <2>5, InStatusCounts DEF GetStats
<1>10. GetStats["PendingAidRequests"] = LandingPage["aid_requests"]
  <2>1. PICK requests : requests = scopedFilter("aid_requests", Unfiltered)
    OBVIOUS
  <2>2. requests = Undeleted("aid_requests")
    BY <2>1, CountIsScoped
  <2>3. PICK cards : cards = GetAidRequestReport(Unfiltered)
    OBVIOUS
  <2>4. "status" \in DOMAIN cards.groups /\ cards.groups["status"] = CountBy(requests, "status")
    BY <2>1, <2>3 DEF GetAidRequestReport, Cards, groupCount
  <2>5. LandingPage["aid_requests"] = InStatus(cards, "Pending")
    BY <2>3 DEF LandingPage
  <2>6. QED
    BY <2>2, <2>4, <2>5, InStatusCounts DEF GetStats
<1>11. QED
  BY <1>1, <1>2, <1>3, <1>4, <1>5, <1>6, <1>7, <1>8, <1>9, <1>10 DEF SurfacesAgree

\* At any time the dashboards, the landing page and the reports give one number for a
\* table, the money that came in less that which went out is what its categories add up
\* to, and without half-deleted rows these are the numbers of the detail tables
\* (report_repository.go, dashboard_repository.go).
THEOREM SurfacesAgreeHolds == ReportsSpec => []SurfacesAgree
<1>1. ReportsInv => SurfacesAgree
  BY StoreAgrees DEF ReportsInv
<1>2. QED
  BY <1>1, ReportsInvariant, PTL
=============================================================================
