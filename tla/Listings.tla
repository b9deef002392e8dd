------------------------------ MODULE Listings ------------------------------
(***************************************************************************)
(* The lists of the server, read page by page while other requests write.  *)
(* A page is two statements: Count, and Find from an offset on; the client *)
(* asks for the next page as long as the answer's number of pages says     *)
(* there is one (the repositories' List functions, helpers.go).            *)
(*                                                                         *)
(* Messages and notifications are here with all their operations; of the   *)
(* other tables, only what a list sees: a row is created, edited, deleted. *)
(* Whether a row fits a field of the query is a set of fields in the row.  *)
(* Rows are created at instants of their own, and days repeat.  Tables share *)
(* nothing: a behaviour is about the lists of one.                         *)
(***************************************************************************)
EXTENDS FiniteSets, Naturals

CONSTANTS
    Items,          \* the row identities of all tables together
    Members,        \* users
    Days,           \* what the dates may be
    NoMember,       \* uuid.Nil: everybody's rows
    ShortPage,      \* the default page size of some lists, 10 in the code
    LongPage,       \* and of the others, 20 in the code
    MaxListPage     \* 100 in the code

ASSUME ListingsAssumption ==
    /\ NoMember \notin Members
    /\ Days \subseteq Nat
    /\ ShortPage \in 1..MaxListPage
    /\ LongPage \in 1..MaxListPage
    /\ MaxListPage \in Nat

VARIABLES
    listed,         \* the table
    listRows,       \* its rows, deleted ones included
    walk            \* the list a reader goes through

listVars == <<listed, listRows, walk>>

-----------------------------------------------------------------------------
(* The lists: table, the column the owner is compared with, the fields of  *)
(* the query, the order, and whether only unread rows are asked for        *)

Listing(table, owner, fields, order) ==
    [table |-> table, owner |-> owner, fields |-> fields, order |-> order, unread |-> FALSE]

PersonsList == Listing("persons", "created_by_id", {"Search", "Status"}, "created_at DESC")

Students == Listing("students", "created_by_id",
                    {"Search", "School", "Grade", "Status", "PersonID"}, "created_at DESC")

Donors == Listing("donors", "none", {"Search", "Type", "Status"}, "created_at DESC")

Donations == Listing("donations", "created_by_id",
                     {"Search", "DonorID", "PersonID", "Type", "Status", "Dates"},
                     "date DESC, created_at DESC")

AidRequestsList == Listing("aid_requests", "none",
                           {"Search", "PersonID", "Type", "Priority", "Status", "Dates"},
                           "date DESC, created_at DESC")

CareList == Listing("care_provided", "none", {"Search", "Status"}, "created_at DESC")

LoansList == Listing("loans", "created_by_id", {"Search", "PersonID", "Status"},
                     "created_at DESC")

\* The owner is that of the loan.
RepaymentsList == Listing("loan_repayments", "created_by_id", {"LoanID", "Status"}, "date ASC")

RevenueList == Listing("revenue_records", "none", {"Type", "Category", "Dates"}, "date DESC")

UsersList == Listing("users", "none", {"Search", "Role"}, "created_at DESC")

AuditLogs == Listing("audit_logs", "none", {"Action", "Entity", "UserID"}, "created_at DESC")

FilesList == Listing("file_uploads", "created_by_id", {}, "created_at DESC")

Inbox == Listing("messages", "recipient_id", {}, "created_at DESC")

Sent == Listing("messages", "created_by_id", {}, "created_at DESC")

\* Mutant: the unread messages a user has sent.
UnreadSent == [Sent EXCEPT !.unread = TRUE]

UnreadInbox == [Inbox EXCEPT !.unread = TRUE]

\* Without pages.
Notifications == Listing("notifications", "recipient_id", {}, "created_at DESC")

Lists == {PersonsList, Students, Donors, Donations, AidRequestsList, CareList, LoansList,
          RepaymentsList, RevenueList, UsersList, AuditLogs, FilesList, Inbox, Sent, UnreadInbox}

-----------------------------------------------------------------------------
(* Rows                                                                    *)

NoItem == [at |-> 0, date |-> 0, created_by_id |-> NoMember,
           recipient_id |-> NoMember, facts |-> {}, read |-> FALSE, deleted |-> FALSE]

Stored == {i \in Items : listRows[i] # NoItem}

LiveItems == {i \in Stored : ~listRows[i].deleted}

\* The rows of a list for an owner and the fields the query fills in.
Found(list, owner, q) ==
    {i \in LiveItems :
        /\ list.owner # "none" /\ owner # NoMember => listRows[i][list.owner] = owner
        /\ q \cap list.fields \subseteq listRows[i].facts
        /\ list.unread => ~listRows[i].read}

Before(order, i, j) ==
    LET p == listRows[i]
        r == listRows[j]
    IN CASE order = "created_at DESC" -> p.at > r.at
         [] order = "date DESC, created_at DESC" ->
                p.date > r.date \/ (p.date = r.date /\ p.at > r.at)
         [] order = "date DESC" -> p.date > r.date
         [] order = "date ASC" -> p.date < r.date

\* A set that starts the list, in one of the orders that the database may give it.
Starts(part, rows, order) ==
    /\ part \subseteq rows
    /\ \A j \in part : \A i \in rows : Before(order, i, j) => i \in part

Least(m, n) == IF m < n THEN m ELSE n

\* Mutant: a page too far.
LaterPages(rows, order, page, size) ==
    {part \in SUBSET rows :
        \E skipped \in SUBSET rows :
            /\ Cardinality(skipped) = Least(page * size, Cardinality(rows))
            /\ Starts(skipped, rows, order)
            /\ Starts(skipped \cup part, rows, order)
            /\ skipped \cap part = {}
            /\ Cardinality(part) = Least(size, Cardinality(rows \ skipped))}

\* What Offset and Limit may show.
Pages(rows, order, page, size) ==
    {part \in SUBSET rows :
        \E skipped \in SUBSET rows :
            /\ Cardinality(skipped) = Least((page - 1) * size, Cardinality(rows))
            /\ Starts(skipped, rows, order)
            /\ Starts(skipped \cup part, rows, order)
            /\ skipped \cap part = {}
            /\ Cardinality(part) = Least(size, Cardinality(rows \ skipped))}

\* total_pages, rounded up.
buildPagination(total, size) == (total + size - 1) \div size

normalizePagination(size, default) ==
    IF size < 1 THEN default ELSE Least(size, MaxListPage)

-----------------------------------------------------------------------------
(* A reader goes through a list                                            *)

NoWalk == [step |-> "none", list |-> Inbox, owner |-> NoMember, query |-> {}, size |-> 1,
           page |-> 1, total |-> 0, shown |-> {}, wanted |-> {}, settled |-> TRUE]

Walked == Found(walk.list, walk.owner, walk.query)

\* A user with the role of one who works with everybody's records, or not.
Actors == [id : Members, privileged : BOOLEAN]

\* Whose rows a list is confined to.
ownershipFilter(actor) == IF actor.privileged THEN NoMember ELSE actor.id

OpenList(list, owner, default) ==
    \E q \in {{}, list.fields}, size \in 0..(MaxListPage + 1) :
        /\ list.table = listed
        /\ walk.step = "none"
        /\ walk' = [NoWalk EXCEPT !.step = "count", !.list = list, !.owner = owner,
                                  !.query = q, !.size = normalizePagination(size, default),
                                  !.wanted = Found(list, owner, q)]
        /\ UNCHANGED <<listed, listRows>>

ListPersons(actor) == OpenList(PersonsList, ownershipFilter(actor), ShortPage)

ListStudents(actor) == OpenList(Students, ownershipFilter(actor), ShortPage)

ListDonors == OpenList(Donors, NoMember, ShortPage)

ListDonations(actor) == OpenList(Donations, ownershipFilter(actor), ShortPage)

ListAidRequests == OpenList(AidRequestsList, NoMember, ShortPage)

ListCareProvided == OpenList(CareList, NoMember, LongPage)

ListLoans(actor) == OpenList(LoansList, ownershipFilter(actor), LongPage)

ListLoanRepayments(actor) == OpenList(RepaymentsList, ownershipFilter(actor), LongPage)

ListRevenue == OpenList(RevenueList, NoMember, LongPage)

ListUsers == OpenList(UsersList, NoMember, ShortPage)

ListAuditLogs == OpenList(AuditLogs, NoMember, LongPage)

\* Also a privileged user has only the own files and messages.
ListFiles(actor) == OpenList(FilesList, actor.id, LongPage)

\* The handler refuses page sizes that the repository would clamp.
ListMessages(actor) ==
    \E list \in {Inbox, Sent, UnreadInbox} : OpenList(list, actor.id, LongPage)

\* The join with the loans leaves the column of the status ambiguous.
Ambiguous ==
    /\ walk.list = RepaymentsList
    /\ walk.owner # NoMember
    /\ "Status" \in walk.query

CountRows ==
    /\ walk.step = "count"
    /\ ~Ambiguous
    /\ walk' = [walk EXCEPT !.step = "find", !.total = Cardinality(Walked)]
    /\ UNCHANGED <<listed, listRows>>

\* An order that days leave open.
Tied == /\ walk.list.order \in {"date ASC", "date DESC"}
        /\ \E i, j \in Walked : i # j /\ listRows[i].date = listRows[j].date

FindPage ==
    LET last == walk.page >= buildPagination(walk.total, walk.size)
    IN /\ walk.step = "find"
       /\ \E part \in Pages(Walked, walk.list.order, walk.page, walk.size) :
            walk' = [walk EXCEPT !.step = IF last THEN "done" ELSE "count",
                                 !.page = IF last THEN @ ELSE @ + 1,
                                 !.shown = @ \cup part,
                                 !.settled = @ /\ ~Tied]
       /\ UNCHANGED <<listed, listRows>>

\* The reader has seen enough, or a statement fails: the ambiguous one always does.
LeaveList ==
    /\ walk.step # "none"
    /\ walk' = NoWalk
    /\ UNCHANGED <<listed, listRows>>

-----------------------------------------------------------------------------
(* Writes                                                                  *)

\* A row that the reader's list holds is changed, or any row between Count and Find:
\* the walk is not judged by what it misses.
WriteItem(i, row) ==
    /\ walk.step # "done"
    /\ listRows' = [listRows EXCEPT ![i] = row]
    /\ walk' = IF walk.step = "none" THEN walk
               ELSE [walk EXCEPT !.settled = @ /\ walk.step # "find" /\ i \notin Walked]
    /\ UNCHANGED listed

AddItem(i, date, owner, recipient, facts) ==
    /\ listRows[i] = NoItem
    /\ WriteItem(i, [NoItem EXCEPT !.at = Cardinality(Stored) + 1,
                                   !.date = date, !.created_by_id = owner,
                                   !.recipient_id = recipient, !.facts = facts])

EditItem(i, facts) ==
    /\ i \in LiveItems
    /\ WriteItem(i, [listRows[i] EXCEPT !.facts = facts])

DeleteItem(i) ==
    /\ i \in LiveItems
    /\ listed # "audit_logs"
    /\ WriteItem(i, [listRows[i] EXCEPT !.deleted = TRUE])

\* Both have been found active by statements before.
SendMessage(i, sender, recipient) == AddItem(i, 0, sender, recipient, {})

\* Whether or not it was read before.
MarkAsRead(i, user) ==
    /\ i \in LiveItems
    /\ listRows[i].recipient_id = user
    /\ WriteItem(i, [listRows[i] EXCEPT !.read = TRUE])

\* Either end deletes it for both.
DeleteMessage(i, user) ==
    /\ i \in LiveItems
    /\ user \in {listRows[i].created_by_id, listRows[i].recipient_id}
    /\ WriteItem(i, [listRows[i] EXCEPT !.deleted = TRUE])

\* The user's account is not looked up.
Notify(i, user) == AddItem(i, 0, NoMember, user, {})

MarkNotificationAsRead(i, user) ==
    /\ i \in LiveItems
    /\ listRows[i].recipient_id = user
    /\ WriteItem(i, [listRows[i] EXCEPT !.read = TRUE])

DeleteNotification(i, user) ==
    /\ i \in LiveItems
    /\ listRows[i].recipient_id = user
    /\ WriteItem(i, [listRows[i] EXCEPT !.deleted = TRUE])

RecordTables == {list.table : list \in Lists} \ {"messages"}

Fields == UNION {list.fields : list \in {l \in Lists : l.table = listed}}

\* What a table sees of the requests that write its records.
RecordWrites ==
    /\ listed \in RecordTables
    /\ \E i \in Items, facts \in {{}, Fields} :
        \/ \E date \in Days, owner \in Members : AddItem(i, date, owner, NoMember, facts)
        \/ EditItem(i, facts)
        \/ DeleteItem(i)

MessageWrites ==
    /\ listed = "messages"
    /\ \E i \in Items, user \in Members :
        \/ \E recipient \in Members : SendMessage(i, user, recipient)
        \/ MarkAsRead(i, user)
        \/ DeleteMessage(i, user)

NotificationWrites ==
    /\ listed = "notifications"
    /\ \E i \in Items, user \in Members :
        \/ Notify(i, user)
        \/ MarkNotificationAsRead(i, user)
        \/ DeleteNotification(i, user)

ListsInit ==
    /\ listed \in RecordTables \cup {"messages", "notifications"}
    /\ listRows = [i \in Items |-> NoItem]
    /\ walk = NoWalk

ListsNext ==
    \/ \E actor \in Actors :
        \/ ListPersons(actor) \/ ListStudents(actor) \/ ListDonations(actor)
        \/ ListLoans(actor) \/ ListLoanRepayments(actor)
        \/ ListFiles(actor) \/ ListMessages(actor)
    \/ ListDonors \/ ListAidRequests \/ ListCareProvided \/ ListRevenue \/ ListUsers
    \/ ListAuditLogs
    \/ CountRows
    \/ FindPage
    \/ LeaveList
    \/ RecordWrites
    \/ MessageWrites
    \/ NotificationWrites

ListsSpec == ListsInit /\ [][ListsNext]_listVars

-----------------------------------------------------------------------------
(* What a user may open by its id, which the services decide on their own  *)

CanAccessRecord(actor, owner) == actor.privileged \/ actor.id = owner

MayOpen(actor, i) ==
    CASE listed = "messages" ->
            actor.id \in {listRows[i].created_by_id, listRows[i].recipient_id}
      [] listed = "notifications" -> actor.id = listRows[i].recipient_id
      [] listed = "file_uploads" -> actor.id = listRows[i].created_by_id
      [] OTHER -> CanAccessRecord(actor, listRows[i].created_by_id)

Openable(actor) == {i \in LiveItems : MayOpen(actor, i)}

\* The number beside the envelope.
CountUnread(user) ==
    Cardinality({i \in LiveItems :
        listRows[i].recipient_id = user /\ ~listRows[i].read})

\* A reader who goes through a list to its last page has seen every row that was
\* there at the start, however many rows were added meanwhile in front of the ones
\* still to come; unless a row of the list was edited or deleted, anything was
\* written between the two statements of a page, or the order leaves rows of one day
\* open.
NothingMissed ==
    walk.step = "done" /\ walk.settled => walk.wanted \subseteq walk.shown

\* Lists, single records and counters apply one rule of visibility, in statements of
\* their own: what a list shows to an actor is what it can open by its id, inbox and
\* outbox together are the messages it can open, and the number of unread messages is
\* that of the unread ones in the inbox and of the list of them.
ListedCanBeOpened ==
    walk.step = "none" =>
      \A actor \in Actors :
        /\ \A list \in {PersonsList, Students, Donations, LoansList, RepaymentsList} :
            list.table = listed => Found(list, ownershipFilter(actor), {}) = Openable(actor)
        /\ \A list \in {FilesList, Notifications} :
            list.table = listed => Found(list, actor.id, {}) = Openable(actor)
        /\ listed = "messages" =>
            /\ Found(Inbox, actor.id, {}) \cup Found(Sent, actor.id, {}) = Openable(actor)
            /\ CountUnread(actor.id) = Cardinality(Found(UnreadInbox, actor.id, {}))
            /\ Found(UnreadInbox, actor.id, {})
                  = {i \in Found(Inbox, actor.id, {}) : ~listRows[i].read}
=============================================================================
