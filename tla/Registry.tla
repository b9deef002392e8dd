------------------------------ MODULE Registry ------------------------------
(***************************************************************************)
(* The records the staff keeps online: persons, students, donors,          *)
(* donations, care provided and revenue (the services, repositories and    *)
(* handlers of these names), written by several HTTP requests at once, the *)
(* devices' POST /sync/push among them.                                    *)
(*                                                                         *)
(* A request checks and reads first and writes later.  Creations, and all  *)
(* changes of revenue, write the row and then its audit entry in one       *)
(* transaction; the entries of the other changes follow their commit, if   *)
(* nothing fails, and are left out.                                        *)
(*                                                                         *)
(* A pushed operation goes past the services: persons, students, donors    *)
(* and care are stored as the device has them, with no look-up, no rule of *)
(* what belongs together, no look at the status and no audit entry.  What  *)
(* a device wrote is therefore excepted from the properties, by name.  Its *)
(* version comparison only refuses, and is left to chance; so is the flag  *)
(* is_deleted, which a pushed deletion sets and requests do not look at.   *)
(*                                                                         *)
(* Update is gorm's Save: it writes the whole row back, and a row deleted  *)
(* meanwhile comes back with it.                                           *)
(*                                                                         *)
(* Left out: the status of persons and students, which decides nothing     *)
(* here, texts, dates, phone numbers and income, the person a donation may *)
(* name, and the roles: whom the routes admit may write every record.      *)
(***************************************************************************)
EXTENDS FiniteSets, Naturals

CONSTANTS
    Ids,            \* the row identities uuid.New may hand out
    Kinds,          \* the tables in use
    Keys,           \* identity, registration and reference numbers
    Codes,          \* the student codes that devices send
    NoKey,          \* an absent number, person or donor
    Indexed,        \* the kinds whose key has a unique index
    Attempts,       \* 1000 in the code
    Requests        \* the requests the server may be running at once

AllKinds == {"person", "student", "donor", "donation", "care", "revenue"}

ASSUME RegistryAssumption ==
    /\ Kinds \subseteq AllKinds
    /\ Indexed \subseteq {"person", "student", "donation", "revenue"}
    /\ NoKey \notin Ids \cup Keys
    /\ Codes \subseteq Nat
    /\ Attempts \in Nat \ {0}

VARIABLES
    registry,       \* the rows of all tables, deleted ones included
    request,        \* what each running request has read and will write, and its transaction
    auditLog,       \* the mandatory entries of the log: row and operation
    final,          \* history: care that was completed while nothing else ran on it
    pushes          \* history: what devices wrote since the row is there: row and operation

registryVars == <<registry, request, auditLog, final, pushes>>

-----------------------------------------------------------------------------
(* Rows                                                                    *)

\* Pending donors count as inactive ones.
Statuses(kind) ==
    CASE kind = "donor" -> {"Active", "Inactive"}
      [] kind = "donation" -> {"Pending", "Confirmed", "Cancelled"}
      [] kind = "care" -> {"Pending", "Completed", "Cancelled"}
      [] OTHER -> {"Active"}

\* What is given: money, and things with a quantity.
Details == [amount : BOOLEAN, items : BOOLEAN]
NoDetails == [amount |-> FALSE, items |-> FALSE]

NoRecord == [kind |-> "none", status |-> "none", key |-> NoKey, of |-> NoKey,
             type |-> "none", details |-> NoDetails, live |-> FALSE]

Record(kind, status, key) ==
    [NoRecord EXCEPT !.kind = kind, !.status = status, !.key = key, !.live = TRUE]

\* Requests and the operations they are about to write; "push" is an update or a
\* deletion that a device sent.
Writes == {"create", "update", "status", "delete", "push"}

\* A transaction that holds the row, and then the entry beside it.
Stages == {"none", "row", "entry"}

IdleRequest == [op |-> "idle", id |-> NoKey, row |-> NoRecord, tx |-> "none"]

OfKind(kind) == {i \in Ids : registry[i].kind = kind}

Live(kind) == {i \in OfKind(kind) : registry[i].live}

\* What the tables accept, and the rules for what belongs together: a donor has
\* the number of its type, cash is money and nothing else, other donations are
\* things, a student belongs to a person and a donation to a donor.
Accepted(row) ==
    /\ row.kind \in Kinds
    /\ row.status \in Statuses(row.kind)
    /\ row.kind = "donor" => row.type = row.key[1]
    /\ row.kind = "student" => row.key \in Nat /\ row.of \in Ids
    /\ row.kind = "donation" =>
        /\ row.of \in Ids
        /\ IF row.type = "Cash" THEN row.details = [amount |-> TRUE, items |-> FALSE]
                                ELSE row.details.items

RegistryInit ==
    /\ registry = [i \in Ids |-> NoRecord]
    /\ request = [c \in Requests |-> IdleRequest]
    /\ auditLog = {}
    /\ final = {}
    /\ pushes = {}

-----------------------------------------------------------------------------
(* Numbers: what is looked up before a row is written                      *)

\* The checks find live rows only.
Taken(kind, key, except) ==
    \E i \in Live(kind) \ {except} : registry[i].key = key

\* "STU-year-number": the number of rows ever created, and the next free one.
CountAll == Cardinality(OfKind("student"))

Candidates == {n \in (CountAll + 1)..(CountAll + Attempts) : ~Taken("student", n, NoKey)}

generateStudentCode == {n \in Candidates : \A m \in Candidates : n <= m}

\* The reference of a donation may be made up; it is then one of the numbers, too.
generateReferenceNo(key) == IF key = NoKey THEN Keys ELSE {key}

\* An individual is known by its identity number, an organization by its
\* registration; the other number is cleared.
donorKeys(type, nic, registration) ==
    IF type = "Individual"
    THEN {<<"Individual", k>> : k \in {nic} \ {NoKey}}
    ELSE {<<"Organization", k>> : k \in {registration} \ {NoKey}}

\* Cash is an amount above zero, anything else an item, its quantity and unit.
validateDonationDetails(type, given) ==
    IF type = "Cash" THEN given.amount ELSE given.items

\* Creation clears the items of cash, and keeps an amount that came with things.
createdDetails(type, given) ==
    IF type = "Cash" THEN [given EXCEPT !.items = FALSE] ELSE given

\* The update clears both.
applyDonationUpdate(type, given) ==
    IF type = "Cash" THEN [given EXCEPT !.items = FALSE] ELSE [given EXCEPT !.amount = FALSE]

-----------------------------------------------------------------------------
(* Requests up to the write                                                *)

Hold(c, op, i, row) ==
    /\ request[c].op = "idle"
    /\ request' = [request EXCEPT ![c] = [op |-> op, id |-> i, row |-> row, tx |-> "none"]]
    /\ UNCHANGED <<registry, auditLog, final, pushes>>

HoldNew(c, row) ==
    \E i \in Ids :
        /\ registry[i] = NoRecord
        /\ \A d \in Requests : request[d].id # i
        /\ row.kind \in Kinds
        /\ Hold(c, "create", i, row)

CreatePerson(c, key) ==
    /\ ~Taken("person", key, NoKey)
    /\ HoldNew(c, Record("person", "Active", key))

CreateStudent(c, p) ==
    /\ p \in Live("person")
    /\ \E code \in generateStudentCode :
        HoldNew(c, [Record("student", "Active", code) EXCEPT !.of = p])

CreateDonor(c, type, nic, registration) ==
    \E key \in donorKeys(type, nic, registration) :
        /\ ~Taken("donor", key, NoKey)
        /\ HoldNew(c, [Record("donor", "Active", key) EXCEPT !.type = type])

\* Only an active donor can give.
validateDonor(d) == d \in Live("donor") /\ registry[d].status = "Active"

CreateDonation(c, d, type, given, reference) ==
    /\ validateDonor(d)
    /\ validateDonationDetails(type, given)
    /\ \E key \in generateReferenceNo(reference) :
        /\ ~Taken("donation", key, NoKey)
        /\ HoldNew(c, [Record("donation", "Pending", key) EXCEPT
                !.of = d, !.type = type, !.details = createdDetails(type, given)])

\* The ids of the aid request and of the person are not looked up.
CreateCareProvided(c) == HoldNew(c, Record("care", "Pending", NoKey))

CreateRevenue(c, key) ==
    /\ key = NoKey \/ ~Taken("revenue", key, NoKey)
    /\ HoldNew(c, Record("revenue", "Active", key))

UpdatePerson(c, i, key) ==
    /\ i \in Live("person")
    /\ ~Taken("person", key, i)
    /\ Hold(c, "update", i, [registry[i] EXCEPT !.key = key])

\* The form names a person.  Save puts the id of the preloaded person back, unless
\* that one is deleted.
UpdateStudent(c, i, p) ==
    /\ i \in Live("student")
    /\ p \in Live("person")
    /\ Hold(c, "update", i, IF registry[i].of \in Live("person") THEN registry[i]
                            ELSE [registry[i] EXCEPT !.of = p])

UpdateDonor(c, i, type, nic, registration, status) ==
    /\ i \in Live("donor")
    /\ \E key \in donorKeys(type, nic, registration) :
        /\ ~Taken("donor", key, i)
        /\ Hold(c, "update", i,
                [registry[i] EXCEPT !.key = key, !.type = type, !.status = status])

\* Any status may follow any other; reference and donor stay.
UpdateDonation(c, i, type, given, status) ==
    /\ i \in Live("donation")
    /\ validateDonationDetails(type, given)
    /\ Hold(c, "update", i,
            [registry[i] EXCEPT !.type = type, !.details = applyDonationUpdate(type, given),
                                !.status = status])

\* Mutant: completed care can be edited.
UpdateAnyCare(c, i) ==
    /\ i \in Live("care")
    /\ Hold(c, "update", i, [registry[i] EXCEPT !.status = "Pending"])

\* ErrCareAlreadyCompleted.  Nothing that is modelled changes, but the whole row is
\* written back.
UpdateCareProvided(c, i) ==
    /\ i \in Live("care")
    /\ registry[i].status # "Completed"
    /\ Hold(c, "update", i, registry[i])

UpdateRevenue(c, i, key) ==
    /\ i \in Live("revenue")
    /\ key = NoKey \/ ~Taken("revenue", key, i)
    /\ Hold(c, "update", i, [registry[i] EXCEPT !.key = key])

\* The one column that the status requests write.
HoldStatus(c, i, status) == Hold(c, "status", i, [NoRecord EXCEPT !.status = status])

UpdatePersonStatus(c, i) == i \in Live("person") /\ HoldStatus(c, i, "Active")

UpdateStudentStatus(c, i) == i \in Live("student") /\ HoldStatus(c, i, "Active")

\* The row is not read before.
UpdateDonorStatus(c, i, status) == i \in OfKind("donor") /\ HoldStatus(c, i, status)

UpdateDonationStatus(c, i, status) == i \in Live("donation") /\ HoldStatus(c, i, status)

\* Completed care stays completed.
UpdateCareProvidedStatus(c, i, status) ==
    /\ i \in Live("care")
    /\ registry[i].status = "Completed" => status = "Completed"
    /\ HoldStatus(c, i, status)

HoldDeletion(c, i) == Hold(c, "delete", i, NoRecord)

DeletePerson(c, i) == i \in Live("person") /\ HoldDeletion(c, i)

DeleteStudent(c, i) == i \in Live("student") /\ HoldDeletion(c, i)

DeleteDonor(c, i) == i \in Live("donor") /\ HoldDeletion(c, i)

\* ErrConfirmedDonationCannotDelete.
DeleteDonation(c, i) ==
    /\ i \in Live("donation")
    /\ registry[i].status # "Confirmed"
    /\ HoldDeletion(c, i)

\* ErrCareAlreadyCompleted.
DeleteCareProvided(c, i) ==
    /\ i \in Live("care")
    /\ registry[i].status # "Completed"
    /\ HoldDeletion(c, i)

DeleteRevenue(c, i) == i \in Live("revenue") /\ HoldDeletion(c, i)

\* The entities that a device may push; donations and revenue have no adapter.
Pushable == Kinds \cap {"person", "student", "donor", "care"}

\* Any number (of a donor's two one is modelled), any type, any person.
PushedKeys(kind) ==
    CASE kind = "person" -> Keys
      [] kind = "student" -> Codes
      [] kind = "donor" -> {"Individual", "Organization"} \X Keys
      [] OTHER -> {NoKey}

PushedTypes(kind) == IF kind = "donor" THEN {"Individual", "Organization"} ELSE {"none"}

PushedPersons(kind) == IF kind = "student" THEN OfKind("person") ELSE {NoKey}

\* A payload as a row.
Payload(kind, status, key, p, type) ==
    [Record(kind, status, key) EXCEPT !.of = p, !.type = type]

Payloads(kind) ==
    {Payload(kind, status, key, p, type) :
        status \in Statuses(kind), key \in PushedKeys(kind),
        p \in PushedPersons(kind), type \in PushedTypes(kind)}

\* The row is read for its version; the payload replaces all of it.
PushUpdate(c, kind, i) ==
    /\ i \in Live(kind)
    /\ \E row \in Payloads(kind) : Hold(c, "push", i, row)

\* The row is written back as it was read, with its flag set.
PushDelete(c, kind, i) ==
    /\ i \in Live(kind)
    /\ Hold(c, "push", i, registry[i])

-----------------------------------------------------------------------------
(* The write, its transaction and the audit entry                          *)

\* A statement waits for the rows and the index entries of other transactions.
Blocked(c, i, row) ==
    \E d \in Requests \ {c} :
        /\ request[d].tx # "none"
        /\ \/ request[d].id = i
           \/ /\ row.kind \in Indexed
              /\ row.key # NoKey
              /\ request[d].row.kind = row.kind
              /\ request[d].row.key = row.key

\* The unique index, deleted rows included.
KeyFree(i, row) ==
    row.kind \in Indexed /\ row.key # NoKey =>
        \A j \in OfKind(row.kind) \ {i} : registry[j].key # row.key

\* Care whose last word this is: nobody else is at work on it.
Finished(c, i, row) ==
    IF /\ row.kind = "care" /\ row.status = "Completed" /\ row.live
       /\ \A d \in Requests \ {c} : request[d].id # i
    THEN {i} ELSE {}

\* Which changes have their entry in the same transaction.
Audited(op, kind) == op = "create" \/ kind = "revenue"

Commit(c, i, row) ==
    /\ registry' = [registry EXCEPT ![i] = row]
    /\ final' = final \cup Finished(c, i, row)
    /\ request' = [request EXCEPT ![c] = IdleRequest]
    /\ UNCHANGED pushes

\* A statement of its own commits at once.
WriteRow(c, i, row) ==
    /\ request[c].tx = "none"
    /\ ~Blocked(c, i, row)
    /\ IF Audited(request[c].op, row.kind)
       THEN /\ request' = [request EXCEPT ![c].row = row, ![c].tx = "row"]
            /\ UNCHANGED <<registry, final, pushes>>
       ELSE Commit(c, i, row)
    /\ UNCHANGED auditLog

Writing(c, op) == request[c].op = op

\* Mutant: the look-up before the write is all there is.
InsertUnchecked(c) ==
    /\ Writing(c, "create")
    /\ WriteRow(c, request[c].id, request[c].row)

Insert(c) ==
    /\ Writing(c, "create")
    /\ KeyFree(request[c].id, request[c].row)
    /\ WriteRow(c, request[c].id, request[c].row)

Save(c) ==
    /\ Writing(c, "update")
    /\ KeyFree(request[c].id, request[c].row)
    /\ WriteRow(c, request[c].id, request[c].row)

\* One column; a deleted row is not found.
SetStatus(c) ==
    LET i == request[c].id
    IN /\ Writing(c, "status")
       /\ registry[i].live
       /\ WriteRow(c, i, [registry[i] EXCEPT !.status = request[c].row.status])

\* Care is deleted for good, the others keep their row.  A row deleted meanwhile
\* is an error for care and revenue only.
Remove(c) ==
    LET i == request[c].id
    IN /\ Writing(c, "delete")
       /\ registry[i].live \/ registry[i].kind \notin {"care", "revenue"}
       /\ WriteRow(c, i, [registry[i] EXCEPT !.live = FALSE])

\* What a device sent commits at once; the unique indexes hold for it as well.
StorePushed(c, i, row, op) ==
    /\ ~Blocked(c, i, row)
    /\ KeyFree(i, row)
    /\ registry' = [registry EXCEPT ![i] = row]
    /\ pushes' = pushes \cup {<<i, op>>}
    /\ final' = final \ {i}
    /\ request' = [request EXCEPT ![c] = IdleRequest]
    /\ UNCHANGED auditLog

\* One statement; the device has chosen the id.
PushCreate(c, kind, i) ==
    /\ request[c].op = "idle"
    /\ registry[i] = NoRecord
    /\ \A d \in Requests : request[d].id # i
    /\ \E row \in Payloads(kind) : StorePushed(c, i, row, "create")

PushSave(c) ==
    /\ Writing(c, "push")
    /\ StorePushed(c, request[c].id, request[c].row, "update")

Entry(c) == <<request[c].id, request[c].op>>

\* Mutant: the entry is written by a connection of its own.
AuditOutside(c) ==
    /\ request[c].tx = "row"
    /\ request' = [request EXCEPT ![c].tx = "entry"]
    /\ auditLog' = auditLog \cup {Entry(c)}
    /\ UNCHANGED <<registry, final, pushes>>

\* The statement runs on the transaction.
Audit(c) ==
    /\ request[c].tx = "row"
    /\ request' = [request EXCEPT ![c].tx = "entry"]
    /\ UNCHANGED <<registry, auditLog, final, pushes>>

CommitTransaction(c) ==
    /\ request[c].tx = "entry"
    /\ auditLog' = auditLog \cup {Entry(c)}
    /\ Commit(c, request[c].id, request[c].row)

\* A statement fails, the transaction is rolled back, or the server stops.
Abandon(c) ==
    /\ request[c].op # "idle"
    /\ request' = [request EXCEPT ![c] = IdleRequest]
    /\ UNCHANGED <<registry, auditLog, final, pushes>>

-----------------------------------------------------------------------------
(* The handlers: what a form may name, and the service it goes to          *)

DonorTypes == {"Individual", "Organization"}
DonationTypes == {"Cash", "Other"}

PostPerson(c) == \E key \in Keys : CreatePerson(c, key)

PutPerson(c) == \E i \in Ids, key \in Keys : UpdatePerson(c, i, key)

PatchPerson(c) == \E i \in Ids : UpdatePersonStatus(c, i)

RemovePerson(c) == \E i \in Ids : DeletePerson(c, i)

PostStudent(c) == \E p \in Ids : CreateStudent(c, p)

PutStudent(c) == \E i, p \in Ids : UpdateStudent(c, i, p)

PatchStudent(c) == \E i \in Ids : UpdateStudentStatus(c, i)

RemoveStudent(c) == \E i \in Ids : DeleteStudent(c, i)

PostDonor(c) ==
    \E type \in DonorTypes, nic, registration \in Keys \cup {NoKey} :
        CreateDonor(c, type, nic, registration)

PutDonor(c) ==
    \E i \in Ids, type \in DonorTypes, nic, registration \in Keys \cup {NoKey},
       status \in Statuses("donor") :
        UpdateDonor(c, i, type, nic, registration, status)

PatchDonor(c) == \E i \in Ids, status \in Statuses("donor") : UpdateDonorStatus(c, i, status)

RemoveDonor(c) == \E i \in Ids : DeleteDonor(c, i)

PostDonation(c) ==
    \E d \in Ids, type \in DonationTypes, given \in Details, key \in Keys \cup {NoKey} :
        CreateDonation(c, d, type, given, key)

PutDonation(c) ==
    \E i \in Ids, type \in DonationTypes, given \in Details, status \in Statuses("donation") :
        UpdateDonation(c, i, type, given, status)

PatchDonation(c) ==
    \E i \in Ids, status \in Statuses("donation") : UpdateDonationStatus(c, i, status)

RemoveDonation(c) == \E i \in Ids : DeleteDonation(c, i)

PostCare(c) == CreateCareProvided(c)

PutCare(c) == \E i \in Ids : UpdateCareProvided(c, i)

PatchCare(c) ==
    \E i \in Ids, status \in Statuses("care") : UpdateCareProvidedStatus(c, i, status)

RemoveCare(c) == \E i \in Ids : DeleteCareProvided(c, i)

PostRevenue(c) == \E key \in Keys \cup {NoKey} : CreateRevenue(c, key)

PutRevenue(c) == \E i \in Ids, key \in Keys \cup {NoKey} : UpdateRevenue(c, i, key)

RemoveRevenue(c) == \E i \in Ids : DeleteRevenue(c, i)

\* POST /sync/push, one of its operations.
PostPush(c) ==
    \E kind \in Pushable, i \in Ids :
        PushCreate(c, kind, i) \/ PushUpdate(c, kind, i) \/ PushDelete(c, kind, i)

\* A handler that is free takes a request.
Arrives(c) ==
    \/ PostPerson(c) \/ PutPerson(c) \/ PatchPerson(c) \/ RemovePerson(c)
    \/ PostStudent(c) \/ PutStudent(c) \/ PatchStudent(c) \/ RemoveStudent(c)
    \/ PostDonor(c) \/ PutDonor(c) \/ PatchDonor(c) \/ RemoveDonor(c)
    \/ PostDonation(c) \/ PutDonation(c) \/ PatchDonation(c) \/ RemoveDonation(c)
    \/ PostCare(c) \/ PutCare(c) \/ PatchCare(c) \/ RemoveCare(c)
    \/ PostRevenue(c) \/ PutRevenue(c) \/ RemoveRevenue(c)
    \/ PostPush(c)

RegistryStep(c) ==
    \/ request[c].op = "idle" /\ Arrives(c)
    \/ PushSave(c)
    \/ Insert(c)
    \/ Save(c)
    \/ SetStatus(c)
    \/ Remove(c)
    \/ Audit(c)
    \/ CommitTransaction(c)
    \/ Abandon(c)

RegistryNext == \E c \in Requests : RegistryStep(c)

RegistrySpec == RegistryInit /\ [][RegistryNext]_registryVars

-----------------------------------------------------------------------------

Pushed(i) == \E op \in Writes : <<i, op>> \in pushes

\* Every stored row, and every row a request is about to store, is one its table
\* and its rules accept, unless a device wrote it.
RegistryTypeOK ==
    /\ \A i \in Ids : registry[i] = NoRecord \/ Pushed(i) \/ Accepted(registry[i])
    /\ \A c \in Requests :
        /\ request[c].op \in Writes \cup {"idle"}
        /\ request[c].op # "idle" => request[c].id \in Ids
        /\ request[c].tx \in Stages
        /\ request[c].op \in {"create", "update"} \/ request[c].tx # "none"
              => Pushed(request[c].id) \/ Accepted(request[c].row)
    /\ auditLog \cup pushes \subseteq Ids \X Writes
    /\ final \subseteq Ids

\* "The business record is never committed without its audit event", nor the event
\* without the record: the log has the creation of exactly the rows that were not
\* entered by a device, the deletion of every revenue record that is gone, and nothing
\* of rows that are not there, wherever a request fails between the two statements.
ChangesAreAudited ==
    /\ \A i \in Ids : registry[i] # NoRecord <=> <<i, "create">> \in auditLog \cup pushes
    /\ auditLog \cap pushes = {}
    /\ \A i \in OfKind("revenue") : registry[i].live \/ <<i, "delete">> \in auditLog
    /\ \A e \in auditLog : e[2] # "create" => registry[e[1]].kind = "revenue"

\* Numbers with a unique index belong to one row each, also when two requests look
\* the same number up before either writes; and, as long as no device wrote a student,
\* the code the next creation would take is one that the index accepts.  (With what
\* the tables accept, which says what those numbers are.)
KeysAreUnique ==
    /\ RegistryTypeOK
    /\ \A kind \in Indexed : \A i, j \in OfKind(kind) :
        i # j /\ registry[i].key # NoKey => registry[i].key # registry[j].key
    /\ (\A i \in OfKind("student") : ~Pushed(i)) =>
        \A i \in OfKind("student") : registry[i].key \notin generateStudentCode

\* "Care already completed": once care was completed with no other request under
\* way on it, it stays, whatever requests come later, until one of a device writes it.
CompletedCareStays ==
    \A i \in final : registry[i].live /\ registry[i].status = "Completed"
=============================================================================
