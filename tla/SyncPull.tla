------------------------------ MODULE SyncPull ------------------------------
(***************************************************************************)
(* The way back: the feed of changed rows (SyncHandler.Pull, PullEntities) *)
(* and the offline copy a device keeps of them (pull.ts, db.ts).           *)
(*                                                                         *)
(* A row enters the feed at its updated_at and id.  The device asks for    *)
(* what comes after its cursor; the server reads table after table, merges *)
(* the rows in that order and returns a page with the cursor of its last   *)
(* row; the device stores rows and cursor in one IndexedDB transaction.    *)
(* It has no store for the label of one table of the feed, revenue_record: *)
(* its cursor passes those rows and it never shows them.                   *)
(*                                                                         *)
(* updated_at is set by the application before the statement runs, and the *)
(* row becomes visible when its transaction commits.                       *)
(***************************************************************************)
EXTENDS Naturals, FiniteSets

CONSTANTS
    Records,        \* the rows, ordered like their uuids
    Tables,         \* the synchronised tables, ordered as PullEntities reads them
    TableOf,        \* the table of each row
    Stores,         \* the tables whose label the device has a store for
    Adapters,       \* the tables with a push adapter: all but donations and revenue
    PageLimit,      \* rows per page (500 in the code)
    Writers,        \* the writes that may be in progress at once
    MaxWrites       \* how many writes are made (a bound)

ASSUME SyncPullAssumption ==
    /\ Records \subseteq Nat
    /\ Tables \subseteq Nat
    /\ IsFiniteSet(Records)
    /\ IsFiniteSet(Tables)
    /\ TableOf \in [Records -> Tables]
    /\ Stores \subseteq Tables
    /\ Adapters \subseteq Stores
    /\ PageLimit \in Nat \ {0}
    /\ MaxWrites \in Nat

VARIABLES
    table,      \* the committed rows
    clock,      \* the current instant, in the resolution of updated_at
    writing,    \* the writes whose updated_at is set and that have not committed
    writes,     \* how many writes have begun
    feed,       \* the pull request: what it has read so far, or the page it returns
    cursor,     \* the device's sync_cursor
    cache,      \* the device's copy of each row
    unsettled,  \* the records with a PENDING, CONFLICT or FAILED outbox entry
    delivered,  \* history: the updated_at at which each row was last delivered
    escaped     \* history: the records that changed in a way the feed is not
                \* bound to show: in a transaction that took its time, while a
                \* page was being read, by an online edit, or before a logout

serverVars == <<table, clock, writing, writes>>
deviceVars == <<cursor, cache, unsettled, delivered>>
pullVars == <<serverVars, feed, deviceVars, escaped>>

-----------------------------------------------------------------------------

Contents == 0..MaxWrites    \* the write that made a content; 0 for none

\* stamp: updated_at; version 0: the row does not exist; flagged: is_deleted;
\* gone: deleted_at is set.
Row == [stamp : Nat, version : Nat, content : Contents, flagged : BOOLEAN, gone : BOOLEAN]

NoRow == [stamp |-> 0, version |-> 0, content |-> 0, flagged |-> FALSE, gone |-> FALSE]

\* The device's copy of a record; the version is missing (0) on a local change.
Copy == [version : Nat, content : Contents, flagged : BOOLEAN]

NoCopy == [version |-> 0, content |-> 0, flagged |-> FALSE]

Position == [stamp : Nat, id : Records \cup {0}]

Start == [stamp |-> 0, id |-> 0]

Write == [record : Records \cup {0}, row : Row]

NoWrite == [record |-> 0, row |-> NoRow]

IdleFeed == [pc |-> "idle", from |-> Start, left |-> {}, found |-> {}]

PullTypeOK ==
    /\ table \in [Records -> Row]
    /\ clock \in Nat
    /\ writing \in [Writers -> Write]
    /\ writes \in 0..MaxWrites
    /\ feed.pc \in {"idle", "reading", "page"}
    /\ feed.from \in Position
    /\ feed.left \subseteq Tables
    /\ \A f \in feed.found : f.id \in Records /\ f.row \in Row /\ f.row.stamp <= clock
    /\ cursor \in Position
    /\ cursor.stamp <= clock
    /\ cache \in [Records -> Copy]
    /\ unsettled \in SUBSET Records
    /\ delivered \in [Records -> Nat]
    /\ escaped \in SUBSET Records

PullInit ==
    /\ table = [r \in Records |-> NoRow]
    /\ clock = 1
    /\ writing = [w \in Writers |-> NoWrite]
    /\ writes = 0
    /\ feed = IdleFeed
    /\ cursor = Start
    /\ cache = [r \in Records |-> NoCopy]
    /\ unsettled = {}
    /\ delivered = [r \in Records |-> 0]
    /\ escaped = {}

-----------------------------------------------------------------------------
(* The rows                                                                *)

Ops == {"update", "delete", "online"}

\* A synchronised update creates the row or refuses a flagged one; nobody finds
\* a row whose deleted_at is set.
Allowed(r, op) ==
    /\ op # "online" => TableOf[r] \in Adapters
    /\ ~table[r].gone
    /\ op = "update" => ~table[r].flagged
    /\ op = "delete" => table[r].version # 0

\* The row after the next write: synchronised ones count the version up, an
\* online one saves the version it read.
Written(r, t, op) ==
    [stamp   |-> t,
     version |-> IF op = "online" /\ table[r].version # 0 THEN table[r].version
                 ELSE table[r].version + 1,
     content |-> writes + 1,
     flagged |-> op = "delete" \/ table[r].flagged,
     gone    |-> FALSE]

\* gorm sets updated_at; the transaction goes on.
BeginWrite(w, r, op) ==
    /\ writes < MaxWrites
    /\ writing[w] = NoWrite
    /\ Allowed(r, op)
    /\ \E t \in {clock, clock + 1} :
        /\ clock' = t
        /\ writing' = [writing EXCEPT ![w] = [record |-> r, row |-> Written(r, t, op)]]
    /\ writes' = writes + 1
    /\ UNCHANGED <<table, feed, deviceVars, escaped>>

CommitWrite(w) ==
    /\ writing[w] # NoWrite
    /\ table' = [table EXCEPT ![writing[w].record] = writing[w].row]
    /\ writing' = [writing EXCEPT ![w] = NoWrite]
    /\ escaped' = escaped \cup {writing[w].record}
    /\ UNCHANGED <<clock, writes, feed, deviceVars>>

\* The server reads its tables one after the other.
Reading == feed.pc = "reading"

\* A write whose statement and commit nothing comes between.  An online edit keeps
\* the version, by which the device judges a row; an online creation is a first one.
AtomicWrite(r, op) ==
    /\ writes < MaxWrites
    /\ Allowed(r, op)
    /\ \E t \in {clock, clock + 1} :
        /\ clock' = t
        /\ table' = [table EXCEPT ![r] = Written(r, t, op)]
    /\ writes' = writes + 1
    /\ escaped' = IF Reading \/ (op = "online" /\ table[r].version # 0)
                  THEN escaped \cup {r} ELSE escaped
    /\ UNCHANGED <<writing, feed, deviceVars>>

\* The online DELETE sets deleted_at alone: neither updated_at nor is_deleted.
OnlineDelete(r) ==
    /\ table[r].version # 0
    /\ ~table[r].gone
    /\ table' = [table EXCEPT ![r].gone = TRUE]
    /\ escaped' = escaped \cup {r}
    /\ UNCHANGED <<clock, writing, writes, feed, deviceVars>>

-----------------------------------------------------------------------------
(* The feed                                                                *)

\* Mutant: a row sorts after itself.
AtOrAfter(a, b) == a.stamp > b.stamp \/ (a.stamp = b.stamp /\ a.id >= b.id)

\* updated_at > ? OR (updated_at = ? AND id > ?)
After(a, b) == a.stamp > b.stamp \/ (a.stamp = b.stamp /\ a.id > b.id)

At(f) == [stamp |-> f.row.stamp, id |-> f.id]

\* The first n of the rows in F.
FirstOf(n, F) == {f \in F : Cardinality({g \in F : After(At(f), At(g))}) < n}

\* Mutant: updated_at > ? alone.
NewerTableRows(t, from) ==
    FirstOf(PageLimit + 1,
            {f \in {[id |-> r, row |-> table[r]] : r \in {s \in Records : TableOf[s] = t}} :
                f.row.version # 0 /\ f.row.stamp > from.stamp})

\* What the query of one table returns: at most one row more than a page.
TableRows(t, from) ==
    FirstOf(PageLimit + 1,
            {f \in {[id |-> r, row |-> table[r]] : r \in {s \in Records : TableOf[s] = t}} :
                f.row.version # 0 /\ (from = Start \/ After(At(f), from))})

\* pullSync: one pull at a time per page.
StartPull ==
    /\ feed.pc = "idle"
    /\ feed' = [pc |-> "reading", from |-> cursor, left |-> Tables, found |-> {}]
    /\ UNCHANGED <<serverVars, deviceVars, escaped>>

\* One table's query.  It takes longer than the clock's resolution, so that a
\* row stamped later is stamped with a later instant.
ReadTable ==
    /\ Reading
    /\ \E t \in feed.left :
        /\ \A u \in feed.left : t <= u
        /\ feed' = [feed EXCEPT !.left = @ \ {t},
                                !.found = @ \cup TableRows(t, feed.from),
                                !.pc = IF feed.left = {t} THEN "page" ELSE @]
    /\ clock' = IF \E r \in Records : table[r].stamp = clock THEN clock + 1 ELSE clock
    /\ UNCHANGED <<table, writing, writes, deviceVars, escaped>>

\* Mutant: the rows stay in the order of the tables.
UnsortedPage(found) ==
    {f \in found : Cardinality({g \in found :
        \/ TableOf[g.id] < TableOf[f.id]
        \/ TableOf[g.id] = TableOf[f.id] /\ After(At(f), At(g))}) < PageLimit}

\* paginateSyncRecords
PageOf(found) == FirstOf(PageLimit, found)

More(found) == Cardinality(found) > PageLimit

\* nextSyncCursor: the page's last row, but never back; an empty page echoes the
\* caller's cursor.
NextCursor(page, from) ==
    LET later == {f \in page : After(At(f), from)}
    IN  IF later = {} THEN from
        ELSE At(CHOOSE f \in later : \A g \in page : ~After(At(g), At(f)))

\* Mutant: the mark of a deleted record is not copied.
UnflaggedCopyOf(r, page) ==
    LET f == CHOOSE g \in page : g.id = r
    IN  [version |-> f.row.version, content |-> f.row.content, flagged |-> FALSE]

CopyOf(r, page) ==
    LET f == CHOOSE g \in page : g.id = r
    IN  [version |-> f.row.version, content |-> f.row.content, flagged |-> f.row.flagged]

\* STORE_BY_ENTITY has a store for the label of the record's table.
HasStore(r) == TableOf[r] \in Stores

\* Mutant: records with unsettled local changes are replaced too.
MergeAll(page) ==
    [r \in Records |->
        IF HasStore(r) /\ \E f \in page : f.id = r /\ f.row.version > cache[r].version
        THEN CopyOf(r, page) ELSE cache[r]]

\* mergePulledRecords: a row replaces an older version of a record the device
\* has a store for and no unsettled change of.
Merge(page) ==
    [r \in Records |->
        IF /\ HasStore(r) /\ r \notin unsettled
           /\ \E f \in page : f.id = r /\ f.row.version > cache[r].version
        THEN CopyOf(r, page) ELSE cache[r]]

\* The device stores the page and its cursor, and asks for the next one.
MergePage ==
    LET page == PageOf(feed.found)
        next == NextCursor(page, feed.from)
    IN
    /\ feed.pc = "page"
    /\ cache' = Merge(page)
    /\ cursor' = next
    /\ delivered' = [r \in Records |->
           IF \E f \in page : f.id = r
           THEN (CHOOSE f \in page : f.id = r).row.stamp ELSE delivered[r]]
    /\ feed' = IF More(feed.found)
               THEN [pc |-> "reading", from |-> next, left |-> Tables, found |-> {}]
               ELSE IdleFeed
    /\ UNCHANGED <<serverVars, unsettled, escaped>>

\* The request, the reply or the IndexedDB transaction fails.
FailPull ==
    /\ feed.pc # "idle"
    /\ feed' = IdleFeed
    /\ UNCHANGED <<serverVars, deviceVars, escaped>>

-----------------------------------------------------------------------------
(* The device's own changes                                                *)

\* savePendingMutation writes the local copy, without a version, and the entry.
LocalChange(r) ==
    /\ writes < MaxWrites
    /\ cache' = [cache EXCEPT ![r] = [version |-> 0, content |-> writes + 1, flagged |-> FALSE]]
    /\ unsettled' = unsettled \cup {r}
    /\ writes' = writes + 1
    /\ UNCHANGED <<table, clock, writing, feed, cursor, delivered, escaped>>

\* The push of that change is accepted (SyncPush says when it is).
PushChange(r) ==
    /\ r \in unsettled
    /\ Allowed(r, "update")
    /\ \E t \in {clock, clock + 1} :
        /\ clock' = t
        /\ table' = [table EXCEPT ![r] = [stamp |-> t, version |-> @.version + 1,
                                         content |-> cache[r].content,
                                         flagged |-> FALSE, gone |-> FALSE]]
    /\ unsettled' = unsettled \ {r}
    /\ escaped' = IF Reading THEN escaped \cup {r} ELSE escaped
    /\ UNCHANGED <<writing, writes, feed, cursor, cache, delivered>>

\* clearOfflineIdentity, on logout: the stores and the outbox are emptied, the
\* cursor is left.  A pull that is running may still merge before the page goes
\* away (FailPull).
Logout ==
    /\ cache' = [r \in Records |-> NoCopy]
    /\ unsettled' = {}
    /\ escaped' = escaped \cup {r \in Records : table[r].version # 0}
    /\ UNCHANGED <<serverVars, feed, cursor, delivered>>

-----------------------------------------------------------------------------

Pulling == StartPull \/ ReadTable \/ MergePage \/ FailPull

PullNext ==
    \/ Pulling
    \/ \E r \in Records :
        \/ \E op \in Ops : AtomicWrite(r, op) \/ \E w \in Writers : BeginWrite(w, r, op)
        \/ OnlineDelete(r)
        \/ LocalChange(r)
        \/ PushChange(r)
    \/ \E w \in Writers : CommitWrite(w)
    \/ Logout

PullSpec == PullInit /\ [][PullNext]_pullVars

\* Not every request and IndexedDB transaction fails: a query that is reached again
\* and again succeeds, and so does the merge of a page.
PullFairness ==
    /\ \A t \in Tables : SF_pullVars(ReadTable /\ t \in feed.left \ feed'.left)
    /\ SF_pullVars(MergePage)

FairPullSpec == PullSpec /\ PullFairness

-----------------------------------------------------------------------------
(* Properties                                                              *)

Passed(r) == table[r].version # 0 /\ ~After(At([id |-> r, row |-> table[r]]), cursor)

\* The cursor never passes a row that was not delivered: a row that sorts at or
\* before it came in some page with the updated_at it has now (the keyset
\* predicate, the merged order and the page cut of PullEntities).  (With the types:
\* neither the cursor nor a page is ahead of the clock.)
NothingSkipped ==
    /\ PullTypeOK
    /\ \A r \in Records \ escaped : Passed(r) => delivered[r] = table[r].stamp

\* The loop of runPullSync comes to an end on a table nobody writes: the cursor
\* never goes back, and each page that announces another one moves it on.
PullAdvances ==
    [][/\ ~After(cursor, cursor')
       /\ feed.pc = "page" /\ feed'.pc = "reading" => After(cursor', cursor)]_pullVars

Shown(r) ==
    /\ cache[r].content = table[r].content
    /\ cache[r].flagged = table[r].flagged

\* What the cursor has passed of the tables with a store is what the device shows,
\* unless it has a change of its own to that record in the outbox (mergePulledRecords).
CacheCurrent ==
    \A r \in Records \ (unsettled \cup escaped) : HasStore(r) /\ Passed(r) => Shown(r)

\* A pull never takes a user's own pending change off the screen, not even one
\* made while its request was under way: the copy is the unversioned local one
\* (mergePulledRecords reads the outbox in the transaction that stores the page).
OwnChangeIsShown == \A r \in unsettled : cache[r].version = 0

\* What the users have to do, for no timer pulls: load a page, or come online,
\* again and again.
PagesAreLoaded == WF_pullVars(StartPull)

\* When the writes have ended, the device comes to show every row it has a store for
\* and no change of its own to, although pulls fail in between and rows without a
\* store fill pages.
EventuallyCurrent ==
    PagesAreLoaded =>
        <>[](\A r \in Records \ (unsettled \cup escaped) :
                HasStore(r) => table[r].version = 0 \/ Shown(r))
=============================================================================
