---------------------------- MODULE FileUploads ----------------------------
(***************************************************************************)
(* The files of one user: the media queue of the offline client (media.ts) *)
(* uploads them with an idempotency key, the files page uploads without    *)
(* one, and the page deletes them.  A stored file is a row of              *)
(* "file_uploads" and a file in the upload directory, written one after    *)
(* the other by requests that overlap, fail and are cut short.             *)
(*                                                                         *)
(* The stored name of a file identifies its row; names are UUIDs, so a     *)
(* name is used again here only when no row and no request refers to it    *)
(* (an orphan of that name is then forgotten).  A failing statement is     *)
(* taken to have had no effect.                                            *)
(***************************************************************************)
EXTENDS Naturals, FiniteSetsExt

CONSTANTS
    Keys,           \* the ids of the outbox entries, which are their keys too
    Files,          \* bound on the stored names in use
    Calls,          \* the requests the server may be running at once
    PageCalls,      \* those of them that the files page may use
    Loops,          \* the runs of syncPendingMediaUploads that may overlap
    Faults,         \* which faults there are
    None            \* no file, request or run

NoKey == 0

ASSUME FilesAssumption ==
    /\ Keys \subseteq Nat \ {NoKey}
    /\ None \notin Files \cup Calls \cup Loops
    /\ PageCalls \subseteq Calls
    /\ Faults \subseteq {"crash", "statement", "network"}

VARIABLES
    indexed,        \* the schema has the unique index of models.FileUpload
                    \* (AutoMigrate); the SQL migrations do not create it
    disk,           \* the files in the upload directory
    rows,           \* the stored names of the rows
    keyOf,          \* idempotency_key of each row
    call,           \* the running requests
    outbox,         \* the media entries of the device
    loop,           \* the running upload loops
    removed         \* history: the keys of the rows the user deleted

vars == <<disk, rows, keyOf, call, outbox, loop, removed>>

server == <<disk, rows, keyOf, call, removed>>

-----------------------------------------------------------------------------

Call == [op   : {"idle", "lookup", "save", "insert", "discard", "lookAgain",
                 "deleteRow", "unlink", "restore"},
         key  : Keys \cup {NoKey},
         file : Files \cup {None},
         loop : Loops \cup {None}]

IdleCall == [op |-> "idle", key |-> NoKey, file |-> None, loop |-> None]

Entry == [status : {"none", "PENDING", "UPLOADING", "SYNCED", "FAILED"},
          body   : BOOLEAN]

Loop == [op    : {"idle", "next", "send", "wait", "got", "clear"},
         todo  : SUBSET Keys,
         key   : Keys \cup {NoKey},
         call  : Calls \cup {None},
         reply : {"none", "stored", "refused", "failed"}]

IdleLoop == [op |-> "idle", todo |-> {}, key |-> NoKey, call |-> None, reply |-> "none"]

\* Everything has its type; a request that writes knows its file, and one that
\* inserts has put the file into the directory.
FilesTypeOK ==
    /\ indexed \in BOOLEAN
    /\ disk \subseteq Files
    /\ rows \subseteq Files
    /\ keyOf \in [Files -> Keys \cup {NoKey}]
    /\ call \in [Calls -> Call]
    /\ outbox \in [Keys -> Entry]
    /\ loop \in [Loops -> Loop]
    /\ removed \subseteq Keys
    /\ \A c \in Calls :
        /\ call[c].op \in {"insert", "discard", "deleteRow", "unlink", "restore"}
             => call[c].file \in Files
        /\ call[c].op = "insert" => call[c].file \in disk

Init ==
    /\ indexed \in BOOLEAN
    /\ disk = {}
    /\ rows = {}
    /\ keyOf = [f \in Files |-> NoKey]
    /\ call = [c \in Calls |-> IdleCall]
    /\ outbox = [k \in Keys |-> [status |-> "none", body |-> FALSE]]
    /\ loop = [l \in Loops |-> IdleLoop]
    /\ removed = {}

-----------------------------------------------------------------------------
(* The media queue of the device.                                          *)

SetStatus(k, status) == outbox' = [outbox EXCEPT ![k].status = status]

QueueMediaUpload(k) ==
    /\ outbox[k].status = "none"
    /\ outbox' = [outbox EXCEPT ![k] = [status |-> "PENDING", body |-> TRUE]]
    /\ UNCHANGED <<server, loop>>

\* Mutant: an entry that was being uploaded when the app closed is not found.
PendingMediaOnly == {k \in Keys : outbox[k].status = "PENDING"}

\* getPendingMediaMutations; no FAILED media entry is ever marked retryable.
PendingMedia == {k \in Keys : outbox[k].status \in {"PENDING", "UPLOADING"}}

\* syncPendingMediaUploads reads the list once; entries without a body are
\* passed over.
StartLoop(l) ==
    /\ loop[l].op = "idle"
    /\ LET todo == {k \in PendingMedia : outbox[k].body} IN
        /\ todo # {}
        /\ loop' = [loop EXCEPT ![l] = [IdleLoop EXCEPT !.op = "next", !.todo = todo]]
    /\ UNCHANGED <<server, outbox>>

\* The entries are sent in the order of their ids.
MarkUploading(l) ==
    /\ loop[l].op = "next"
    /\ LET k == Min(loop[l].todo) IN
        /\ SetStatus(k, "UPLOADING")
        /\ loop' = [loop EXCEPT ![l] =
               [IdleLoop EXCEPT !.op = "send", !.key = k, !.todo = loop[l].todo \ {k}]]
    /\ UNCHANGED server

Post(l, c) ==
    /\ loop[l].op = "send"
    /\ call[c].op = "idle"
    /\ call' = [call EXCEPT ![c] =
           [IdleCall EXCEPT !.op = "lookup", !.key = loop[l].key, !.loop = l]]
    /\ loop' = [loop EXCEPT ![l].op = "wait", ![l].call = c]
    /\ UNCHANGED <<disk, rows, keyOf, outbox, removed>>

\* What loop l does when its fetch ends without an answer.
Unanswered(l) == [loop[l] EXCEPT !.op = "got", !.call = None, !.reply = "failed"]

\* The request or its answer gets lost; the server may go on with it.
NetworkFails(l) ==
    /\ "network" \in Faults
    /\ loop[l].op \in {"send", "wait"}
    /\ loop' = [loop EXCEPT ![l] = Unanswered(l)]
    /\ UNCHANGED <<server, outbox>>

\* Mutant: 5xx counts as done.
StatusForAny(reply) == IF reply = "refused" THEN "FAILED" ELSE "SYNCED"

\* mediaRetryStatus.
StatusFor(reply) ==
    CASE reply = "stored"  -> "SYNCED"
      [] reply = "refused" -> "FAILED"
      [] reply = "failed"  -> "PENDING"

NextEntry(l) ==
    IF loop[l].todo = {} THEN IdleLoop ELSE [IdleLoop EXCEPT !.op = "next", !.todo = loop[l].todo]

\* After an entry that stays PENDING the loop ends.
Settle(l) ==
    /\ loop[l].op = "got"
    /\ LET status == StatusFor(loop[l].reply) IN
        /\ SetStatus(loop[l].key, status)
        /\ loop' = [loop EXCEPT ![l] =
               CASE status = "SYNCED"  -> [loop[l] EXCEPT !.op = "clear"]
                 [] status = "FAILED"  -> NextEntry(l)
                 [] status = "PENDING" -> IdleLoop]
    /\ UNCHANGED server

ClearMutationBody(l) ==
    /\ loop[l].op = "clear"
    /\ outbox' = [outbox EXCEPT ![loop[l].key].body = FALSE]
    /\ loop' = [loop EXCEPT ![l] = NextEntry(l)]
    /\ UNCHANGED server

\* The page is closed in the middle of a loop.
CloseApp(l) ==
    /\ "crash" \in Faults
    /\ loop[l].op # "idle"
    /\ loop' = [loop EXCEPT ![l] = IdleLoop]
    /\ UNCHANGED <<server, outbox>>

-----------------------------------------------------------------------------
(* FileUploadHandler.Upload.                                               *)

Goes(c, op) == call' = [call EXCEPT ![c].op = op]

\* The answer reaches the loop if it still waits for it.
Answers(c, reply) ==
    /\ call' = [call EXCEPT ![c] = IdleCall]
    /\ loop' = [l \in Loops |->
           IF l = call[c].loop /\ loop[l].op = "wait" /\ loop[l].call = c
           THEN [loop[l] EXCEPT !.op = "got", !.call = None, !.reply = reply]
           ELSE loop[l]]

Unused(f) == f \notin rows /\ \A c \in Calls : call[c].file # f

\* The upload form of the files page, which sends no key.  Bound: a name is
\* left for each request, which may all be uploads of one queue entry.
UploadOnline(c) ==
    /\ c \in PageCalls
    /\ call[c].op = "idle"
    /\ Cardinality({f \in Files : Unused(f)}) > Cardinality(Calls)
    /\ call' = [call EXCEPT ![c] = [IdleCall EXCEPT !.op = "save"]]
    /\ UNCHANGED <<disk, rows, keyOf, outbox, loop, removed>>

Stored(k) == \E f \in rows : keyOf[f] = k

\* FindByUserAndIdempotencyKey finds the row.
AnswerStored(c) ==
    /\ call[c].op \in {"lookup", "lookAgain"}
    /\ call[c].key # NoKey
    /\ Stored(call[c].key)
    /\ Answers(c, "stored")
    /\ UNCHANGED <<disk, rows, keyOf, outbox, removed>>

Lookup(c) ==
    /\ call[c].op = "lookup"
    /\ ~Stored(call[c].key)
    /\ Goes(c, "save")
    /\ UNCHANGED <<disk, rows, keyOf, outbox, loop, removed>>

\* Too large, of another type, no longer logged in ...
Refuse(c) ==
    /\ call[c].op = "save"
    /\ Answers(c, "refused")
    /\ UNCHANGED <<disk, rows, keyOf, outbox, removed>>

SaveFile(c) ==
    /\ call[c].op = "save"
    /\ \E f \in Files :
        /\ Unused(f)
        /\ disk' = disk \cup {f}
        /\ call' = [call EXCEPT ![c].op = "insert", ![c].file = f]
    /\ UNCHANGED <<rows, keyOf, outbox, loop, removed>>

\* The unique index on user and key lets the row in; rows without a key pass.
IndexAllows(k) == indexed /\ k # NoKey => ~Stored(k)

Insert(c) ==
    /\ call[c].op = "insert"
    /\ IndexAllows(call[c].key)
    /\ rows' = rows \cup {call[c].file}
    /\ keyOf' = [keyOf EXCEPT ![call[c].file] = call[c].key]
    /\ Answers(c, "stored")
    /\ UNCHANGED <<disk, outbox, removed>>

\* The row of another request is already there.
InsertRefused(c) ==
    /\ call[c].op = "insert"
    /\ ~IndexAllows(call[c].key)
    /\ Goes(c, "discard")
    /\ UNCHANGED <<disk, rows, keyOf, outbox, loop, removed>>

InsertFails(c) ==
    /\ call[c].op = "insert"
    /\ "statement" \in Faults
    /\ Goes(c, "discard")
    /\ UNCHANGED <<disk, rows, keyOf, outbox, loop, removed>>

\* os.Remove; its failure is ignored.
Discard(c) ==
    /\ call[c].op = "discard"
    /\ disk' \in {disk \ {call[c].file}} \cup (IF "statement" \in Faults THEN {disk} ELSE {})
    /\ call' = [call EXCEPT ![c].op = "lookAgain", ![c].file = None]
    /\ UNCHANGED <<rows, keyOf, outbox, loop, removed>>

\* Nothing was stored under the key, by this request or another: 500.
AnswerFailed(c) ==
    /\ call[c].op = "lookAgain"
    /\ call[c].key = NoKey \/ ~Stored(call[c].key)
    /\ Answers(c, "failed")
    /\ UNCHANGED <<disk, rows, keyOf, outbox, removed>>

\* A failing lookup or save is answered 500.
FailUpload(c) ==
    /\ "statement" \in Faults
    /\ call[c].op \in {"lookup", "save"}
    /\ Answers(c, "failed")
    /\ UNCHANGED <<disk, rows, keyOf, outbox, removed>>

-----------------------------------------------------------------------------
(* FileUploadService.DeleteForUser.                                        *)

\* Bound: the user deletes the file of an entry once.
Delete(c, f) ==
    /\ c \in PageCalls
    /\ call[c].op = "idle"
    /\ f \in rows
    /\ keyOf[f] \notin removed
    /\ call' = [call EXCEPT ![c] = [IdleCall EXCEPT !.op = "deleteRow", !.file = f]]
    /\ UNCHANGED <<disk, rows, keyOf, outbox, loop, removed>>

\* models.FileUpload.DeletedAt is a plain time, not gorm.DeletedAt: the DELETE
\* takes the row away.  If another request has, this one is over.
DeleteRow(c) ==
    /\ call[c].op = "deleteRow"
    /\ LET f == call[c].file IN
        IF f \in rows
        THEN /\ rows' = rows \ {f}
             /\ keyOf' = [keyOf EXCEPT ![f] = NoKey]
             /\ removed' = removed \cup ({keyOf[f]} \ {NoKey})
             /\ Goes(c, "unlink")
        ELSE /\ call' = [call EXCEPT ![c] = IdleCall]
             /\ UNCHANGED <<rows, keyOf, removed>>
    /\ UNCHANGED <<disk, outbox, loop>>

Unlink(c) ==
    /\ call[c].op = "unlink"
    /\ disk' = disk \ {call[c].file}
    /\ call' = [call EXCEPT ![c] = IdleCall]
    /\ UNCHANGED <<rows, keyOf, outbox, loop, removed>>

UnlinkFails(c) ==
    /\ "statement" \in Faults
    /\ call[c].op = "unlink"
    /\ Goes(c, "restore")
    /\ UNCHANGED <<disk, rows, keyOf, outbox, loop, removed>>

\* RestoreForUser resets deleted_at of the rows that are there: the deleted one
\* is not.
Restore(c) ==
    /\ call[c].op = "restore"
    /\ call' = [call EXCEPT ![c] = IdleCall]
    /\ UNCHANGED <<disk, rows, keyOf, outbox, loop, removed>>

FailDelete(c) ==
    /\ "statement" \in Faults
    /\ call[c].op = "deleteRow"
    /\ call' = [call EXCEPT ![c] = IdleCall]
    /\ UNCHANGED <<disk, rows, keyOf, outbox, loop, removed>>

\* The server dies and comes back.
Crash ==
    /\ "crash" \in Faults
    /\ \E c \in Calls : call[c].op # "idle"
    /\ call' = [c \in Calls |-> IdleCall]
    /\ loop' = [l \in Loops |-> IF loop[l].op = "wait" THEN Unanswered(l) ELSE loop[l]]
    /\ UNCHANGED <<disk, rows, keyOf, outbox, removed>>

Device(l) ==
    \/ StartLoop(l)
    \/ MarkUploading(l)
    \/ \E c \in Calls : Post(l, c)
    \/ NetworkFails(l)
    \/ Settle(l)
    \/ ClearMutationBody(l)
    \/ CloseApp(l)

Upload(c) ==
    \/ UploadOnline(c)
    \/ AnswerStored(c)
    \/ Lookup(c)
    \/ Refuse(c)
    \/ SaveFile(c)
    \/ Insert(c)
    \/ InsertRefused(c)
    \/ InsertFails(c)
    \/ Discard(c)
    \/ AnswerFailed(c)
    \/ FailUpload(c)

DeleteForUser(c) ==
    \/ \E f \in Files : Delete(c, f)
    \/ DeleteRow(c)
    \/ Unlink(c)
    \/ UnlinkFails(c)
    \/ Restore(c)
    \/ FailDelete(c)

\* The schema does not change while the server runs.
Next ==
    /\ \/ \E k \in Keys : QueueMediaUpload(k)
       \/ \E l \in Loops : Device(l)
       \/ \E c \in Calls : Upload(c) \/ DeleteForUser(c)
       \/ Crash
    /\ UNCHANGED indexed

Spec == Init /\ [][Next]_<<indexed, vars>>

-----------------------------------------------------------------------------

\* The row is written after the file and deleted before it: whatever overlaps
\* or is cut short, a listed file can be downloaded.  (With the types: a request
\* that inserts has put its file into the directory.)
RowHasFile == FilesTypeOK /\ rows \subseteq disk

\* An entry the device counts as done was stored under its key, and only the user
\* has taken it away again; and what is stored can be downloaded.
SyncedIsStored ==
    /\ RowHasFile
    /\ \A k \in Keys : outbox[k].status = "SYNCED" => Stored(k) \/ k \in removed

-----------------------------------------------------------------------------
(* A request that hangs is lost in the end; the user comes back online     *)
(* again and again, and no request of an entry fails every time.           *)

Serves(l, A(_)) == \E c \in Calls : loop[l].call = c /\ A(c)

Fairness ==
    /\ \A l \in Loops :
        /\ WF_vars(StartLoop(l))
        /\ SF_vars(MarkUploading(l))
        /\ SF_vars(\E c \in Calls : Post(l, c))
        /\ WF_vars(Settle(l))
        /\ SF_vars(loop[l].reply # "failed" /\ Settle(l))
        /\ WF_vars(ClearMutationBody(l))
        /\ SF_vars(Serves(l, Lookup))
        /\ SF_vars(Serves(l, SaveFile))
        /\ SF_vars(Serves(l, Insert) \/ Serves(l, AnswerStored))
    /\ \A c \in Calls :
        /\ WF_vars(Lookup(c)) /\ WF_vars(SaveFile(c)) /\ WF_vars(Insert(c) \/ InsertRefused(c))
        /\ WF_vars(Discard(c)) /\ WF_vars(AnswerStored(c) \/ AnswerFailed(c))

LiveSpec == Spec /\ Fairness

\* "It is queued for later synchronization": an entry of the queue is uploaded
\* or refused in the end, also one that was being uploaded when the app or the
\* server stopped.
QueueSettles ==
    \A k \in Keys : (outbox[k].status = "PENDING")
                     ~> (outbox[k].status \in {"SYNCED", "FAILED"})
=============================================================================
