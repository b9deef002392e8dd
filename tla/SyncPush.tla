------------------------------ MODULE SyncPush ------------------------------
(***************************************************************************)
(* Offline changes on their way to the server: the outbox of each device   *)
(* (web/src/offline), the push endpoint (SyncHandler.Push), its            *)
(* idempotency records, the optimistic locking of PersonSyncService and    *)
(* EntitySyncService, and the staff who edit the same rows online.         *)
(*                                                                         *)
(* The client sends one operation per request, with the operation's id as  *)
(* its Idempotency-Key.  Requests and replies get lost, a device gives up  *)
(* on a request the server still works on and sends it again, and the      *)
(* server crashes between any two of its database statements: the          *)
(* statements of ApplyOperation run outside the handler's transaction.     *)
(***************************************************************************)
EXTENDS Naturals

CONSTANTS
    Records,        \* the rows that are shared
    Devices,        \* the browsers with an outbox
    MaxOps,         \* how many changes the devices make (a bound)
    Kinds,          \* the operations that are made: CREATE and UPDATE by this client
    BaseVersions,   \* the client_version a change may carry: {1} from this client
    Rank,           \* the place of each record's entity in the order of sync.ts
    Requests,       \* the push requests the server may be running at once
    Edits,          \* how many online edits are made (a bound)
    NoOp, Online    \* no change; a change made online

Ops == 1..MaxOps    \* the auto-incremented ids of the outbox

ASSUME SyncPushAssumption ==
    /\ MaxOps \in Nat
    /\ Edits \in Nat
    /\ Kinds \subseteq {"CREATE", "UPDATE", "DELETE"}
    /\ BaseVersions \subseteq Nat \ {0}
    /\ Rank \in [Records -> Nat]
    /\ NoOp \notin Ops \cup {Online} \cup Records \cup Requests
    /\ Online \notin Ops

VARIABLES
    rows,       \* the committed rows of the server
    answers,    \* sync_idempotency_records: the outcome stored for each operation
    outbox,     \* the outboxes of all devices
    todo,       \* the entries each device's push loop still has to send
    awaiting,   \* the request whose reply each device waits for
    request,    \* what each running push request has read and decided
    editor,     \* the online edit in progress: the row as it was read
    edits,      \* how many online edits have started
    wrote       \* history: how often each operation has written its row

serverVars == <<rows, answers, request, wrote>>
clientVars == <<outbox, todo, awaiting>>
onlineVars == <<editor, edits>>
pushVars == <<serverVars, clientVars, onlineVars>>

-----------------------------------------------------------------------------

\* A row is live, marked is_deleted by a synchronised DELETE, or removed
\* (deleted_at) by an online one, which takes it out of every query.
Row == [version : Nat, content : Ops \cup {NoOp, Online}, life : {"live", "deleted", "removed"}]

NoRow == [version |-> 0, content |-> NoOp, life |-> "removed"]

Entry == [status : {"none", "PENDING", "SYNCED", "CONFLICT", "FAILED"},
          device : Devices \cup {NoOp},
          kind   : {"none", "CREATE", "UPDATE", "DELETE"},
          record : Records \cup {NoOp},
          base   : BaseVersions \cup {0}]

NoEntry == [status |-> "none", device |-> NoOp, kind |-> "none", record |-> NoOp, base |-> 0]

Request == [pc : {"idle", "received", "new", "ready", "done", "refused", "conflict"},
            op : Ops \cup {NoOp},
            row : Row]

IdleRequest == [pc |-> "idle", op |-> NoOp, row |-> NoRow]

Kind(o) == outbox[o].kind
Target(o) == outbox[o].record

\* The tables, outboxes, loops and requests have their types; an operation on
\* its way belongs to an entry, and a stored answer to an operation that was made.
SyncTypeOK ==
    /\ rows \in [Records -> Row]
    /\ answers \in [Ops -> {"none", "done", "refused", "conflict"}]
    /\ outbox \in [Ops -> Entry]
    /\ todo \in [Devices -> SUBSET Ops]
    /\ awaiting \in [Devices -> Requests \cup {NoOp}]
    /\ request \in [Requests -> Request]
    /\ editor \in [record : Records \cup {NoOp}, row : Row]
    /\ edits \in 0..Edits
    /\ wrote \in [Ops -> Nat]
    /\ \A q \in Requests : request[q].pc # "idle" => outbox[request[q].op].record \in Records
    /\ \A o \in Ops : answers[o] # "none" => outbox[o].status # "none"

SyncInit ==
    /\ rows = [r \in Records |-> NoRow]
    /\ answers = [o \in Ops |-> "none"]
    /\ outbox = [o \in Ops |-> NoEntry]
    /\ todo = [d \in Devices |-> {}]
    /\ awaiting = [d \in Devices |-> NoOp]
    /\ request = [q \in Requests |-> IdleRequest]
    /\ editor = [record |-> NoOp, row |-> NoRow]
    /\ edits = 0
    /\ wrote = [o \in Ops |-> 0]

-----------------------------------------------------------------------------
(* The device                                                              *)

\* A record has a fresh identity when it is created, offline or online.
Unused(r) == rows[r].version = 0 /\ \A o \in Ops : outbox[o].record # r

\* The device knows a record it has pulled, or created itself.
Known(d, r) ==
    \/ rows[r].version # 0
    \/ \E o \in Ops : outbox[o].record = r /\ outbox[o].device = d

\* savePendingMutation: a change is queued under the next outbox id.
MakeChange(d, k, r, b) ==
    /\ IF k = "CREATE" THEN Unused(r) ELSE Known(d, r)
    /\ \E o \in Ops :
        /\ outbox[o].status = "none"
        /\ \A p \in Ops : outbox[p].status = "none" => o <= p
        /\ outbox' = [outbox EXCEPT ![o] =
               [status |-> "PENDING", device |-> d, kind |-> k, record |-> r, base |-> b]]
        /\ UNCHANGED <<serverVars, onlineVars, todo, awaiting>>

Pending(d) == {o \in Ops : outbox[o].status = "PENDING" /\ outbox[o].device = d}

\* syncPendingMutations: one loop per page, over the entries pending now, when
\* synchronizeOfflineChanges calls it: a page is loaded or comes online again.
StartPush(d) ==
    /\ awaiting[d] = NoOp
    /\ todo[d] = {}
    /\ Pending(d) # {}
    /\ todo' = [todo EXCEPT ![d] = Pending(d)]
    /\ UNCHANGED <<serverVars, onlineVars, outbox, awaiting>>

\* Mutant: the entries are sent newest first.
NewestFirst(o, p) == o >= p

\* The loop's order: by entity, then by outbox id.
Before(o, p) ==
    \/ Rank[Target(o)] < Rank[Target(p)]
    \/ Rank[Target(o)] = Rank[Target(p)] /\ o <= p

\* The loop posts its next entry.
Send(d, q) ==
    /\ awaiting[d] = NoOp
    /\ request[q].pc = "idle"
    /\ \E o \in todo[d] :
        /\ \A p \in todo[d] : Before(o, p)
        /\ todo' = [todo EXCEPT ![d] = @ \ {o}]
        /\ request' = [request EXCEPT ![q] = [IdleRequest EXCEPT !.pc = "received", !.op = o]]
    /\ awaiting' = [awaiting EXCEPT ![d] = q]
    /\ UNCHANGED <<rows, answers, wrote, outbox, onlineVars>>

\* A network failure, a closed tab, or a reply that never comes: the loop ends
\* and its entry stays PENDING, whatever the server goes on to do.
GiveUp(d) ==
    /\ awaiting[d] # NoOp
    /\ awaiting' = [awaiting EXCEPT ![d] = NoOp]
    /\ todo' = [todo EXCEPT ![d] = {}]
    /\ UNCHANGED <<serverVars, onlineVars, outbox>>

\* Mutant: any answer takes the entry off the queue.
StatusIgnoringErrors(answer) ==
    CASE answer \in {"done", "refused", "error"} -> "SYNCED"
      [] answer = "conflict" -> "CONFLICT"
      [] answer = "bad" -> "FAILED"

\* Mutant: a conflict stays queued.
StatusRetryingConflicts(answer) ==
    CASE answer \in {"done", "refused"} -> "SYNCED"
      [] answer \in {"conflict", "error"} -> "PENDING"
      [] answer = "bad" -> "FAILED"

\* What the loop makes of the HTTP status: 200 also answers a refused
\* operation, 409 a conflict, 4xx a request the server would not take, 5xx a
\* failure that leaves the entry as it is.
StatusFor(answer) ==
    CASE answer \in {"done", "refused"} -> "SYNCED"
      [] answer = "conflict" -> "CONFLICT"
      [] answer = "bad" -> "FAILED"
      [] answer = "error" -> "PENDING"

\* Request q ends with an answer; the device that still waits for it takes it.
Reply(q, answer) ==
    LET o == request[q].op
        waiting == {d \in Devices : awaiting[d] = q}
    IN  /\ request' = [request EXCEPT ![q] = IdleRequest]
        /\ awaiting' = [d \in Devices |-> IF d \in waiting THEN NoOp ELSE awaiting[d]]
        /\ outbox' = IF waiting = {} THEN outbox
                     ELSE [outbox EXCEPT ![o].status = StatusFor(answer)]
        /\ todo' = IF answer # "error" THEN todo
                   ELSE [d \in Devices |-> IF d \in waiting THEN {} ELSE todo[d]]

-----------------------------------------------------------------------------
(* The push endpoint                                                       *)

\* Authentication, CSRF, rate limit or validation turn the request away.
TurnAway(q) ==
    /\ request[q].pc = "received"
    /\ Reply(q, "bad")
    /\ UNCHANGED <<rows, answers, wrote, onlineVars>>

\* GetIdempotencyRecord: an operation that was answered gets the same answer.
Replay(q) ==
    /\ request[q].pc = "received"
    /\ answers[request[q].op] # "none"
    /\ Reply(q, answers[request[q].op])
    /\ UNCHANGED <<rows, answers, wrote, onlineVars>>

Lookup(q) ==
    /\ request[q].pc = "received"
    /\ answers[request[q].op] = "none"
    /\ request' = [request EXCEPT ![q].pc = "new"]
    /\ UNCHANGED <<rows, answers, wrote, clientVars, onlineVars>>

\* Mutant: the version is not compared.
JudgeWithoutVersion(o, row) ==
    IF Kind(o) # "CREATE" /\ (row.life = "removed" \/ (Kind(o) = "UPDATE" /\ row.life = "deleted"))
    THEN "refused"
    ELSE "ready"

\* What the row as it is read means for operation o.
Judge(o, row) ==
    IF Kind(o) = "CREATE" THEN "ready"
    ELSE IF row.life = "removed" \/ (Kind(o) = "UPDATE" /\ row.life = "deleted") THEN "refused"
    ELSE IF row.version # outbox[o].base THEN "conflict"
    ELSE "ready"

\* Find, and the comparison of the versions.
Read(q) ==
    LET o == request[q].op IN
    /\ request[q].pc = "new"
    /\ request' = [request EXCEPT ![q] =
           [pc |-> Judge(o, rows[Target(o)]), op |-> o, row |-> rows[Target(o)]]]
    /\ UNCHANGED <<rows, answers, wrote, clientVars, onlineVars>>

\* INSERT, or Save of the whole row as the version after the one that was read.
\* The primary key refuses to create a record twice.
Write(q) ==
    LET o == request[q].op
        taken == Kind(o) = "CREATE" /\ rows[Target(o)].version # 0
    IN
    /\ request[q].pc = "ready"
    /\ IF taken
       THEN /\ request' = [request EXCEPT ![q].pc = "refused"]
            /\ UNCHANGED <<rows, wrote>>
       ELSE /\ rows' = [rows EXCEPT ![Target(o)] =
                   [version |-> IF Kind(o) = "CREATE" THEN 1 ELSE request[q].row.version + 1,
                    content |-> o,
                    life |-> IF Kind(o) = "DELETE" THEN "deleted" ELSE "live"]]
            /\ wrote' = [wrote EXCEPT ![o] = @ + 1]
            /\ request' = [request EXCEPT ![q].pc = "done"]
    /\ UNCHANGED <<answers, clientVars, onlineVars>>

\* The payload does not decode, a constraint or the database refuses it.
Refuse(q) ==
    /\ request[q].pc \in {"new", "ready"}
    /\ request' = [request EXCEPT ![q].pc = "refused"]
    /\ UNCHANGED <<rows, answers, wrote, clientVars, onlineVars>>

Decided(q) == request[q].pc \in {"done", "refused", "conflict"}

\* SaveIdempotencyResponse: the outcome is stored under the key, and answered.
Store(q) ==
    LET o == request[q].op IN
    /\ Decided(q)
    /\ answers[o] = "none"
    /\ answers' = [answers EXCEPT ![o] = request[q].pc]
    /\ Reply(q, request[q].pc)
    /\ UNCHANGED <<rows, wrote, onlineVars>>

\* The insert fails, or the unique key has an answer already: 500.
StoreFails(q) ==
    /\ Decided(q)
    /\ Reply(q, "error")
    /\ UNCHANGED <<rows, answers, wrote, onlineVars>>

\* The transaction around the batch does not commit: 400, although the
\* operation has been applied outside it.
BatchFails(q) ==
    /\ request[q].pc \in {"done", "refused"}
    /\ Reply(q, "bad")
    /\ UNCHANGED <<rows, answers, wrote, onlineVars>>

\* The server stops: every request is gone, every waiting device sees an error.
Crash ==
    /\ \E q \in Requests : request[q].pc # "idle"
    /\ request' = [q \in Requests |-> IdleRequest]
    /\ awaiting' = [d \in Devices |-> NoOp]
    /\ todo' = [d \in Devices |-> IF awaiting[d] = NoOp THEN todo[d] ELSE {}]
    /\ UNCHANGED <<rows, answers, wrote, outbox, onlineVars>>

-----------------------------------------------------------------------------
(* Work online on the same rows                                            *)

OnlineCreate(r) ==
    /\ edits < Edits
    /\ Unused(r)
    /\ rows' = [rows EXCEPT ![r] = [version |-> 1, content |-> Online, life |-> "live"]]
    /\ edits' = edits + 1
    /\ UNCHANGED <<answers, request, wrote, clientVars, editor>>

\* PersonService.UpdatePerson reads the row ...
OnlineRead(r) ==
    /\ edits < Edits
    /\ editor.record = NoOp
    /\ rows[r].life # "removed"
    /\ editor' = [record |-> r, row |-> rows[r]]
    /\ edits' = edits + 1
    /\ UNCHANGED <<serverVars, clientVars>>

\* ... and saves it whole: the version it read goes back unchanged.
OnlineSave ==
    /\ editor.record # NoOp
    /\ rows' = [rows EXCEPT ![editor.record] = [editor.row EXCEPT !.content = Online]]
    /\ editor' = [record |-> NoOp, row |-> NoRow]
    /\ UNCHANGED <<answers, request, wrote, clientVars, edits>>

\* PersonRepository.SoftDelete sets deleted_at, and neither is_deleted nor version.
OnlineDelete(r) ==
    /\ edits < Edits
    /\ rows[r].life # "removed"
    /\ rows' = [rows EXCEPT ![r].life = "removed"]
    /\ edits' = edits + 1
    /\ UNCHANGED <<answers, request, wrote, clientVars, editor>>

-----------------------------------------------------------------------------

Handle(q) == Replay(q) \/ Lookup(q) \/ Read(q) \/ Write(q) \/ Store(q)

Fail(q) == Refuse(q) \/ StoreFails(q) \/ TurnAway(q) \/ BatchFails(q)

\* Some device still waits for the reply of request q.
Heard(q) == \E d \in Devices : awaiting[d] = q

PushNext ==
    \/ \E d \in Devices :
        \/ \E k \in Kinds, r \in Records, b \in BaseVersions :
               MakeChange(d, k, r, b)
        \/ StartPush(d)
        \/ \E q \in Requests : Send(d, q)
        \/ GiveUp(d)
    \/ \E q \in Requests : Handle(q) \/ Fail(q)
    \/ Crash
    \/ \E r \in Records : OnlineCreate(r) \/ OnlineRead(r) \/ OnlineDelete(r)
    \/ OnlineSave

PushSpec == SyncInit /\ [][PushNext]_pushVars

-----------------------------------------------------------------------------
(* Whatever overlaps, crashes and gets lost                                *)

\* No change vanishes: an entry the device shows as SYNCED has written its row
\* or was refused by the server, although the reply to an earlier attempt was
\* lost, the server crashed after the write, or two attempts ran at once.  (With the
\* types, which have the entry of every request and answer.)
SyncedIsAnswered ==
  /\ SyncTypeOK
  /\ \A o \in Ops : outbox[o].status = "SYNCED" => wrote[o] > 0 \/ answers[o] = "refused"

\* A change is settled only after all that it may build on: what the same device
\* queued before it for the record, its creation first of all, or for a record whose
\* entity is sent earlier, as a student's person (the order of runSyncPendingMutations,
\* and its end at a 5xx).  What was settled by a conflict or as FAILED blocks nothing.
SettledInOrder ==
    \A o, p \in Ops :
        /\ o < p
        /\ outbox[p].status \in {"SYNCED", "CONFLICT", "FAILED"}
        /\ outbox[p].device = outbox[o].device
        /\ Rank[Target(o)] <= Rank[Target(p)]
        => outbox[o].status # "PENDING"

\* What the users have to do: no timer runs the loop, so a device with queued
\* changes has to load a page, or come online again, until its loop runs.
PagesAreLoaded == \A d \in Devices : WF_pushVars(StartPush(d))

\* As long as pages are loaded, a change that could not be settled is tried again
\* until it is.
PendingIsSettled ==
    PagesAreLoaded =>
        \A o \in Ops : (outbox[o].status = "PENDING") ~> (outbox[o].status # "PENDING")

-----------------------------------------------------------------------------
(* While push requests do not overlap and nobody edits online              *)

\* Retries after lost replies and crashes included, the accepted changes are
\* each record's history, every one of them once, from version to version.
History == INSTANCE VersionedRecords WITH
    version <- [r \in Records |-> rows[r].version],
    value <- [r \in Records |-> rows[r].content],
    accepted <- {o \in Ops : wrote[o] > 0}

HistoryRefinement == History!RecordsSpec

-----------------------------------------------------------------------------
(* Fairness.  A loop that runs sends its next entry, and the server        *)
(* answers; the network and the server fail, but not at the same point of  *)
(* every attempt.  That a loop runs again is up to PagesAreLoaded.         *)
PushFairness ==
    /\ \A d \in Devices : SF_pushVars(\E q \in Requests : Send(d, q))
    /\ \A q \in Requests :
        /\ WF_pushVars(Replay(q))
        /\ SF_pushVars(Heard(q) /\ Replay(q))
        /\ SF_pushVars(Lookup(q))
        /\ SF_pushVars(Read(q))
        /\ SF_pushVars(Write(q))
        /\ SF_pushVars(Store(q))
        /\ WF_pushVars(Store(q) \/ StoreFails(q))

FairPushSpec == PushSpec /\ PushFairness
=============================================================================
