---------------------------- MODULE DeviceProofs ----------------------------
(***************************************************************************)
(* Theorems about the device: whose data it holds (OfflineSession) and     *)
(* what becomes of the files it uploads (FileUploads), for any number of   *)
(* users, entries, requests and upload loops.                              *)
(***************************************************************************)
EXTENDS OfflineSession, FileUploads, WellFoundedInduction, TLAPS

(***************************************************************************)
(* The account boundary.  While every logout has been clean, the server    *)
(* knows the browser as the person in front of it or not at all, what runs *)
(* in the page runs for that person, and a logout that has wiped and not   *)
(* left yet leaves nothing.  The stamp is younger than the confirmation by *)
(* at most the time the answer waited to be noted.                         *)
(***************************************************************************)
People == Accounts \cup {NoAccount}

Steps == {"idle", "answered", "stamped", "push", "store"}

BoundaryTypeOK ==
    /\ online \in BOOLEAN /\ leaving \in BOOLEAN /\ crossed \in BOOLEAN /\ clean \in BOOLEAN
    /\ session \in People
    /\ person \in People
    /\ device \in [stamp : 0..OfflineWindow, owner : People,
                   outbox : SUBSET Accounts, cache : SUBSET Accounts]
    /\ work \in [step : Steps, user : People, waited : 0..MaxWait]
    /\ confirmed \in 0..LongAgo
    /\ leaving => person # NoAccount
    /\ work.step # "idle" => work.user # NoAccount

BoundaryInv ==
    /\ BoundaryTypeOK
    /\ confirmed <= device.stamp + MaxWait
    /\ Answered => confirmed <= work.waited
    /\ clean =>
        /\ session \in {person, NoAccount}
        /\ work.step # "idle" => work.user = person
        /\ leaving => Foreign(NoAccount) = {}
        /\ Foreign(person) = {}
        /\ ~crossed

LEMMA IdleWorkType ==
    IdleWork \in [step : Steps, user : People, waited : 0..MaxWait] /\ IdleWork.step = "idle"
BY OfflineAssumption DEF IdleWork, Steps, People

LEMMA BoundaryInitInv == OfflineInit => BoundaryInv
<1> SUFFICES ASSUME OfflineInit PROVE BoundaryInv
  OBVIOUS
<1>1. /\ device \in [stamp : 0..OfflineWindow, owner : People,
                     outbox : SUBSET Accounts, cache : SUBSET Accounts]
      /\ device.stamp = OfflineWindow /\ device.owner = NoAccount
      /\ device.outbox = {} /\ device.cache = {}
  BY OfflineAssumption DEF OfflineInit, Wiped, NoStamp, People
<1>2. work \in [step : Steps, user : People, waited : 0..MaxWait] /\ work.step = "idle"
  BY IdleWorkType DEF OfflineInit
<1>3. \A u : Foreign(u) = {NoAccount} \ {u, NoAccount}
  BY <1>1 DEF Foreign
<1>4. BoundaryTypeOK
  <2>1. confirmed \in 0..LongAgo
    BY OfflineAssumption DEF OfflineInit, LongAgo
  <2>2. QED
    BY <1>1, <1>2, <2>1 DEF OfflineInit, BoundaryTypeOK, People
<1>5. QED
  BY <1>1, <1>2, <1>3, <1>4, OfflineAssumption DEF OfflineInit, BoundaryInv, LongAgo, Answered

\* A step that leaves the device as it is, or changes one of its stores.
LEMMA BoundaryPagesKeepInv ==
    ASSUME BoundaryInv,
           \/ \E u \in Accounts : Login(u)
           \/ Wipe \/ SubmitLogout \/ Disturb \/ saveOfflineMutation \/ PassTime
    PROVE  BoundaryInv'
<1>1. ASSUME NEW u \in Accounts, Login(u) PROVE BoundaryInv'
  <2>1. /\ session' = u /\ person' = u /\ leaving' = FALSE /\ confirmed' = 0
        /\ clean' = (clean /\ Foreign(u) = {})
        /\ UNCHANGED <<online, device, crossed>>
    BY <1>1 DEF Login
  <2>2. work' \in [step : Steps, user : People, waited : 0..MaxWait] /\ work'.step = "idle"
    BY <1>1, IdleWorkType DEF Login
  <2>3. BoundaryTypeOK'
    <3>1. clean' \in BOOLEAN /\ leaving' \in BOOLEAN
      BY <2>1
    <3>2. confirmed' \in 0..LongAgo
      BY <2>1, OfflineAssumption DEF LongAgo
    <3>3. session' \in People /\ person' \in People
      BY <2>1 DEF People
    <3>4. QED
      BY <2>1, <2>2, <3>1, <3>2, <3>3 DEF BoundaryInv, BoundaryTypeOK
  <2>4. confirmed' <= device'.stamp + MaxWait
    BY <2>1, OfflineAssumption DEF BoundaryInv, BoundaryTypeOK
  <2>5. Foreign(u)' = Foreign(u)
    BY <2>1 DEF Foreign
  <2>6. QED
    BY <2>1, <2>2, <2>3, <2>4, <2>5 DEF BoundaryInv, Answered
<1>2. CASE Wipe
  <2>1. CASE UNCHANGED device /\ clean' = (clean /\ Foreign(NoAccount) = {})
    BY <1>2, <2>1, OfflineAssumption
    DEF Wipe, BoundaryInv, BoundaryTypeOK, People, Steps, Foreign, Answered
  <2>2. CASE device' = clearOfflineIdentity /\ UNCHANGED clean
    <3>1. /\ device' = Wiped /\ Wiped.outbox = {} /\ Wiped.cache = {} /\ Wiped.owner = NoAccount
          /\ Wiped.stamp = OfflineWindow
      BY <2>2 DEF clearOfflineIdentity, Wiped, NoStamp
    <3>2. Foreign(NoAccount)' = {} /\ Foreign(person)' = {}
      BY <3>1 DEF Foreign
    <3>3. device' \in [stamp : 0..OfflineWindow, owner : People,
                       outbox : SUBSET Accounts, cache : SUBSET Accounts]
      BY <2>2, OfflineAssumption DEF clearOfflineIdentity, Wiped, NoStamp, People
    <3>4. /\ UNCHANGED <<online, session, person, work, crossed, confirmed>>
          /\ leaving' = TRUE /\ person # NoAccount
      BY <1>2 DEF Wipe
    <3>5. BoundaryTypeOK'
      BY <2>2, <3>3, <3>4 DEF BoundaryInv, BoundaryTypeOK
    <3>6. confirmed' <= device'.stamp + MaxWait
      BY <3>1, <3>4, OfflineAssumption DEF BoundaryInv, BoundaryTypeOK, LongAgo
    <3>7. QED
      BY <2>2, <3>2, <3>4, <3>5, <3>6 DEF BoundaryInv, Answered
  <2>3. QED
    BY <1>2, <2>1, <2>2 DEF Wipe
<1>3. CASE SubmitLogout
  <2>1. /\ person' = NoAccount /\ leaving' = FALSE /\ session' \in {NoAccount, session}
        /\ clean' = (clean /\ session' = NoAccount) /\ work' = IdleWork /\ leaving
        /\ UNCHANGED <<online, device, crossed, confirmed>>
    BY <1>3 DEF SubmitLogout
  <2>2. work' \in [step : Steps, user : People, waited : 0..MaxWait] /\ work'.step = "idle"
    BY <2>1, IdleWorkType
  <2>3. BoundaryTypeOK'
    BY <2>1, <2>2 DEF BoundaryInv, BoundaryTypeOK, People
  <2>4. Foreign(NoAccount)' = Foreign(NoAccount)
    BY <2>1 DEF Foreign
  <2>5. QED
    BY <2>1, <2>2, <2>3, <2>4 DEF BoundaryInv, Answered
<1>4. CASE Disturb
  <2>1. /\ UNCHANGED <<person, device, leaving, crossed, confirmed, clean>>
        /\ online' \in BOOLEAN /\ session' \in {session, NoAccount} /\ work' \in {work, IdleWork}
    BY <1>4 DEF Disturb, BoundaryInv, BoundaryTypeOK
  <2>2. /\ work' \in [step : Steps, user : People, waited : 0..MaxWait]
        /\ work'.step # "idle" => work' = work
    BY <2>1, IdleWorkType DEF BoundaryInv, BoundaryTypeOK
  <2>3. BoundaryTypeOK'
    BY <2>1, <2>2 DEF BoundaryInv, BoundaryTypeOK, People
  <2>4. \A u : Foreign(u)' = Foreign(u)
    BY <2>1 DEF Foreign
  <2>5. QED
    BY <2>1, <2>2, <2>3, <2>4 DEF BoundaryInv, Answered
<1>5. CASE saveOfflineMutation
  <2>1. /\ device' = [device EXCEPT !.outbox = @ \cup {person}, !.cache = @ \cup {person}]
        /\ clean' = (clean /\ ~leaving) /\ person \in Accounts
        /\ UNCHANGED <<online, session, person, work, leaving, crossed, confirmed>>
    BY <1>5 DEF saveOfflineMutation, BoundaryInv, BoundaryTypeOK, People
  <2>2. /\ device'.stamp = device.stamp /\ device'.owner = device.owner
        /\ device'.outbox = device.outbox \cup {person}
        /\ device'.cache = device.cache \cup {person}
        /\ device' \in [stamp : 0..OfflineWindow, owner : People,
                        outbox : SUBSET Accounts, cache : SUBSET Accounts]
    BY <2>1 DEF BoundaryInv, BoundaryTypeOK
  <2>3. Foreign(person)' = Foreign(person)
    BY <2>1, <2>2 DEF Foreign
  <2>4. BoundaryTypeOK'
    BY <2>1, <2>2 DEF BoundaryInv, BoundaryTypeOK
  <2>5. QED
    BY <2>1, <2>2, <2>3, <2>4 DEF BoundaryInv, Answered
<1>6. CASE PassTime
  <2>1. /\ device' = [device EXCEPT !.stamp = IF @ < OfflineWindow THEN @ + 1 ELSE @]
        /\ confirmed' = IF confirmed < LongAgo THEN confirmed + 1 ELSE confirmed
        /\ UNCHANGED <<online, session, person, leaving, crossed, clean>>
        /\ work' = IF Answered THEN [work EXCEPT !.waited = @ + 1] ELSE work
        /\ Answered => work.waited < MaxWait
    BY <1>6 DEF PassTime
  <2>2. /\ device'.stamp = IF device.stamp < OfflineWindow THEN device.stamp + 1 ELSE device.stamp
        /\ device'.owner = device.owner
        /\ device'.outbox = device.outbox /\ device'.cache = device.cache
    BY <2>1 DEF BoundaryInv, BoundaryTypeOK
  <2>3. confirmed' <= device'.stamp + MaxWait /\ confirmed' \in 0..LongAgo /\ device'.stamp \in 0..OfflineWindow
    BY <2>1, <2>2, OfflineAssumption DEF BoundaryInv, BoundaryTypeOK, LongAgo
  <2>4. device' \in [stamp : 0..OfflineWindow, owner : People,
                     outbox : SUBSET Accounts, cache : SUBSET Accounts]
    BY <2>1, <2>2, <2>3 DEF BoundaryInv, BoundaryTypeOK
  <2>5. /\ work' \in [step : Steps, user : People, waited : 0..MaxWait]
        /\ work'.step = work.step /\ work'.user = work.user
        /\ Answered => work'.waited = work.waited + 1
    BY <2>1, OfflineAssumption DEF BoundaryInv, BoundaryTypeOK
  <2>6. BoundaryTypeOK'
    BY <2>1, <2>3, <2>4, <2>5 DEF BoundaryInv, BoundaryTypeOK
  <2>7. \A u : Foreign(u)' = Foreign(u)
    BY <2>2 DEF Foreign
  <2>8. Answered' => confirmed' <= work'.waited
    <3>1. Answered' => Answered /\ confirmed \in Nat /\ work.waited \in Nat /\ confirmed <= work.waited
      BY <2>5, OfflineAssumption DEF Answered, BoundaryInv, BoundaryTypeOK, LongAgo
    <3>2. QED
      BY <2>1, <2>5, <3>1
  <2>9. QED
    BY <2>1, <2>3, <2>5, <2>6, <2>7, <2>8 DEF BoundaryInv
<1>7. QED
  BY <1>1, <1>2, <1>3, <1>4, <1>5, <1>6

\* What the synchronisation stores is of the user it runs for.
LEMMA StoreKeepsInv ==
    ASSUME BoundaryInv, NEW new, Store(new), work.step # "idle",
           new \in [stamp : 0..OfflineWindow, owner : People,
                    outbox : SUBSET Accounts, cache : SUBSET Accounts],
           confirmed <= new.stamp + MaxWait,
           new.owner \in {device.owner, work.user},
           new.outbox = device.outbox,
           new.cache \subseteq device.cache \cup {work.user},
           work' \in [step : Steps, user : People, waited : 0..MaxWait],
           work'.step # "answered",
           work'.step # "idle" => work'.user = work.user
    PROVE  BoundaryInv'
<1>1. /\ device' = new /\ clean' = (clean /\ ~leaving)
      /\ UNCHANGED <<online, session, person, leaving, crossed, confirmed>>
  BY DEF Store
<1>2. BoundaryTypeOK'
  BY <1>1 DEF BoundaryInv, BoundaryTypeOK
<1>3. ASSUME clean' PROVE Foreign(person)' = {} /\ (work'.step # "idle" => work'.user = person')
  <2>1. clean /\ Foreign(person) = {} /\ work.user = person
    BY <1>1, <1>3 DEF BoundaryInv
  <2>2. Foreign(person)' \subseteq Foreign(person)
    BY <1>1, <2>1 DEF Foreign
  <2>3. QED
    BY <1>1, <2>1, <2>2
<1>4. QED
  BY <1>1, <1>2, <1>3 DEF BoundaryInv, BoundaryTypeOK, Answered

LEMMA SynchronisationKeepsInv ==
    ASSUME BoundaryInv,
           \/ revalidateOnlineSession \/ setOfflineSessionLastAuthenticatedAt
           \/ setOfflineSessionOwner \/ SendMutation \/ PullRows \/ StoreRows
    PROVE  BoundaryInv'
<1>1. /\ device \in [stamp : 0..OfflineWindow, owner : People,
                     outbox : SUBSET Accounts, cache : SUBSET Accounts]
      /\ work \in [step : Steps, user : People, waited : 0..MaxWait] /\ confirmed \in 0..LongAgo
      /\ work.step # "idle" => work.user \in Accounts
      /\ OfflineWindow \in Nat /\ MaxWait \in Nat /\ 0 \in 0..MaxWait
      /\ NoAccount \notin Accounts
  BY OfflineAssumption DEF BoundaryInv, BoundaryTypeOK, People
<1>2. CASE revalidateOnlineSession
  <2>1. /\ work' = [step |-> "answered", user |-> session, waited |-> 0] /\ session \in Accounts /\ confirmed' = 0
        /\ UNCHANGED <<online, session, person, device, leaving, crossed, clean>>
    BY <1>2 DEF revalidateOnlineSession, WorkGoesTo, BoundaryInv, BoundaryTypeOK, People
  <2>2. /\ work'.step = "answered" /\ work'.user = session /\ work'.waited = 0
        /\ work' \in [step : Steps, user : People, waited : 0..MaxWait] /\ session # NoAccount
    BY <1>1, <2>1 DEF Steps, People
  <2>3. BoundaryTypeOK'
    <3>1. confirmed' \in 0..LongAgo
      BY <1>1, <2>1 DEF LongAgo
    <3>2. QED
      BY <1>1, <2>1, <2>2, <3>1 DEF BoundaryInv, BoundaryTypeOK
  <2>4. \A u : Foreign(u)' = Foreign(u)
    BY <2>1 DEF Foreign
  <2>5. confirmed' <= device'.stamp + MaxWait
    BY <1>1, <2>1
  <2>6. QED
    BY <2>1, <2>2, <2>3, <2>4, <2>5 DEF BoundaryInv
<1>3. CASE setOfflineSessionLastAuthenticatedAt
  <2> DEFINE new == [device EXCEPT !.stamp = 0]
  <2>1. /\ new \in [stamp : 0..OfflineWindow, owner : People,
                    outbox : SUBSET Accounts, cache : SUBSET Accounts]
        /\ new.stamp = 0 /\ new.owner = device.owner
        /\ new.outbox = device.outbox /\ new.cache = device.cache
    BY <1>1
  <2>2. /\ Store(new) /\ work.step = "answered"
        /\ work' = [step |-> "stamped", user |-> work.user, waited |-> 0]
    BY <1>3 DEF setOfflineSessionLastAuthenticatedAt, WorkGoesTo, Answered
  <2> HIDE DEF new
  <2>3. work' \in [step : Steps, user : People, waited : 0..MaxWait] /\ work'.step = "stamped" /\ work'.user = work.user
    BY <1>1, <2>2 DEF Steps
  <2>4. confirmed <= new.stamp + MaxWait
    BY <1>1, <2>1, <2>2, OfflineAssumption DEF BoundaryInv, Answered, LongAgo
  <2>5. QED
    BY <2>1, <2>2, <2>3, <2>4, StoreKeepsInv
<1>4. CASE setOfflineSessionOwner
  <2> DEFINE new == [device EXCEPT !.owner = work.user]
  <2>1. /\ new \in [stamp : 0..OfflineWindow, owner : People,
                    outbox : SUBSET Accounts, cache : SUBSET Accounts]
        /\ new.stamp = device.stamp /\ new.owner = work.user
        /\ new.outbox = device.outbox /\ new.cache = device.cache
    BY <1>1
  <2>2. /\ Store(new) /\ work.step = "stamped"
        /\ work' = [step |-> "push", user |-> work.user, waited |-> 0]
    BY <1>4 DEF setOfflineSessionOwner, WorkGoesTo
  <2> HIDE DEF new
  <2>3. work' \in [step : Steps, user : People, waited : 0..MaxWait] /\ work'.step = "push" /\ work'.user = work.user
    BY <1>1, <2>2 DEF Steps
  <2>4. confirmed <= device.stamp + MaxWait
    BY DEF BoundaryInv
  <2>5. QED
    BY <2>1, <2>2, <2>3, <2>4, StoreKeepsInv
<1>5. CASE StoreRows
  <2> DEFINE new == [device EXCEPT !.cache = @ \cup {work.user}]
  <2>1. Store(new) /\ work.step = "store" /\ work' = IdleWork
    BY <1>5 DEF StoreRows
  <2>2. /\ new \in [stamp : 0..OfflineWindow, owner : People,
                    outbox : SUBSET Accounts, cache : SUBSET Accounts]
        /\ new.stamp = device.stamp /\ new.owner = device.owner
        /\ new.outbox = device.outbox /\ new.cache = device.cache \cup {work.user}
    BY <1>1, <2>1
  <2> HIDE DEF new
  <2>3. work' \in [step : Steps, user : People, waited : 0..MaxWait] /\ work'.step = "idle"
    BY <2>1, IdleWorkType
  <2>4. confirmed <= device.stamp + MaxWait
    BY DEF BoundaryInv
  <2>5. QED
    BY <2>1, <2>2, <2>3, <2>4, StoreKeepsInv
<1>6. CASE SendMutation
  <2>1. PICK author \in device.outbox :
            /\ crossed' = (crossed \/ author # session)
            /\ device' = [device EXCEPT !.outbox = @ \ {author}]
    BY <1>6 DEF SendMutation
  <2>2. /\ session # NoAccount
        /\ UNCHANGED <<online, session, person, work, leaving, confirmed, clean>>
    BY <1>6 DEF SendMutation
  <2>3. /\ device'.stamp = device.stamp /\ device'.owner = device.owner
        /\ device'.outbox = device.outbox \ {author} /\ device'.cache = device.cache
        /\ device' \in [stamp : 0..OfflineWindow, owner : People,
                        outbox : SUBSET Accounts, cache : SUBSET Accounts]
    BY <1>1, <2>1
  <2>4. \A u : Foreign(u)' \subseteq Foreign(u)
    BY <2>3 DEF Foreign
  <2>5. clean => author = session
    <3>1. author # NoAccount
      BY <1>1
    <3>2. clean => session = person /\ author \notin Foreign(person)
      BY <2>2 DEF BoundaryInv
    <3>3. QED
      BY <3>1, <3>2 DEF Foreign
  <2>6. BoundaryTypeOK'
    BY <2>1, <2>2, <2>3 DEF BoundaryInv, BoundaryTypeOK
  <2>7. QED
    BY <2>1, <2>2, <2>3, <2>4, <2>5, <2>6 DEF BoundaryInv, Answered
<1>7. CASE PullRows
  <2>1. UNCHANGED <<online, session, person, device, leaving, crossed, confirmed, clean>>
    BY <1>7 DEF PullRows
  <2>2. /\ work' \in [step : Steps, user : People, waited : 0..MaxWait] /\ work'.step # "answered"
        /\ work'.step # "idle" => work'.user = session /\ session # NoAccount
    <3>1. CASE work' = IdleWork
      BY <3>1, IdleWorkType
    <3>2. CASE session # NoAccount /\ work' = [step |-> "store", user |-> session, waited |-> 0]
      BY <1>1, <3>2 DEF Steps, BoundaryInv, BoundaryTypeOK
    <3>3. QED
      BY <1>7, <3>1, <3>2 DEF PullRows, WorkGoesTo
  <2>3. BoundaryTypeOK'
    BY <2>1, <2>2 DEF BoundaryInv, BoundaryTypeOK
  <2>4. \A u : Foreign(u)' = Foreign(u)
    BY <2>1 DEF Foreign
  <2>5. QED
    BY <2>1, <2>2, <2>3, <2>4 DEF BoundaryInv, Answered
<1>8. QED
  BY <1>2, <1>3, <1>4, <1>5, <1>6, <1>7

\* What is proved of the boundary and of the window, of every reachable state.
THEOREM BoundaryInvariant == OfflineSpec => []BoundaryInv
<1>1. BoundaryInv /\ [OfflineNext]_offlineVars => BoundaryInv'
  <2> SUFFICES ASSUME BoundaryInv, [OfflineNext]_offlineVars PROVE BoundaryInv'
    OBVIOUS
  <2>1. CASE OfflineNext
    BY <2>1, BoundaryPagesKeepInv, SynchronisationKeepsInv DEF OfflineNext
  <2>2. CASE UNCHANGED offlineVars
    BY <2>2 DEF offlineVars, BoundaryInv, BoundaryTypeOK, Foreign, Answered
  <2>3. QED
    BY <2>1, <2>2
<1>2. QED
  BY BoundaryInitInv, <1>1, PTL DEF OfflineSpec

\* As long as the logouts were clean, no user reaches what another left on the device,
\* and no change is sent under another session than its author's (session.ts, sync.ts).
THEOREM OthersAreOut == OfflineSpec => []AccountBoundary
<1>1. BoundaryInv => AccountBoundary
  BY DEF BoundaryInv, AccountBoundary
<1>2. QED
  BY <1>1, BoundaryInvariant, PTL

\* The device opens offline for no longer after the server confirmed a session than the
\* window and the time the answer was under way, which nothing else bounds (session.ts,
\* register.ts).
THEOREM WindowIsConfirmed == OfflineSpec => []WindowIsEarned
<1>1. BoundaryInv => WindowIsEarned
  BY OfflineAssumption DEF BoundaryInv, BoundaryTypeOK, WindowIsEarned, isOfflineSessionValid
<1>2. QED
  BY <1>1, BoundaryInvariant, PTL
-----------------------------------------------------------------------------
(***************************************************************************)
(* The files.  The name a request has taken for its file is its own until  *)
(* the row is there, so that what it removes is no file of a row; and a    *)
(* loop waits only for the request that carries its entry, so that the     *)
(* answer it gets is about that entry.                                     *)
(***************************************************************************)
NewFile == {"insert", "discard"}

NoRow == NewFile \cup {"unlink", "restore"}

RowsInv ==
    /\ disk \subseteq Files /\ rows \subseteq disk
    /\ keyOf \in [Files -> Keys \cup {NoKey}]
    /\ removed \subseteq Keys
    /\ call \in [Calls -> Call]
    /\ \A c \in Calls :
        /\ call[c].op \in NoRow \cup {"deleteRow"} => call[c].file \in Files
        /\ call[c].op = "insert" => call[c].file \in disk
        /\ call[c].op \in NoRow => call[c].file \notin rows
        /\ \A d \in Calls : call[c].op \in NewFile /\ call[d].file = call[c].file => d = c

\* Stored once, and not taken away by anyone but the user.
Kept(k) == Stored(k) \/ k \in removed

LoopInv(l) ==
    /\ loop[l].op = "next" => loop[l].todo # {}
    /\ loop[l].op \in {"send", "wait", "got", "clear"} => loop[l].key \in Keys
    /\ loop[l].op = "got" => loop[l].reply # "none"
    /\ loop[l].op = "got" /\ loop[l].reply = "stored" => Kept(loop[l].key)
    /\ \A c \in Calls : loop[l].op = "wait" /\ loop[l].call = c /\ call[c].loop = l
                         => call[c].key = loop[l].key

QueueInv ==
    /\ outbox \in [Keys -> Entry]
    /\ loop \in [Loops -> Loop]
    /\ \A l \in Loops : LoopInv(l)
    /\ \A k \in Keys : outbox[k].status = "SYNCED" => Kept(k)

FilesInv == indexed \in BOOLEAN /\ RowsInv /\ QueueInv

LEMMA FilesInitInv == Init => FilesInv
<1> SUFFICES ASSUME Init PROVE FilesInv
  OBVIOUS
<1>1. IdleCall \in Call /\ IdleCall.op = "idle"
  BY DEF IdleCall, Call
<1>2. IdleLoop \in Loop /\ IdleLoop.op = "idle"
  BY DEF IdleLoop, Loop
<1>3. /\ \A c \in Calls : call[c] = IdleCall
      /\ \A l \in Loops : loop[l] = IdleLoop
      /\ call \in [Calls -> Call] /\ loop \in [Loops -> Loop]
  BY <1>1, <1>2 DEF Init
<1>4. RowsInv
  BY <1>1, <1>3 DEF Init, RowsInv, NoRow, NewFile
<1>5. outbox \in [Keys -> Entry] /\ \A k \in Keys : outbox[k].status = "none"
  BY DEF Init, Entry
<1>6. QueueInv
  BY <1>2, <1>3, <1>5 DEF QueueInv, LoopInv
<1>7. QED
  BY <1>4, <1>6 DEF Init, FilesInv

-----------------------------------------------------------------------------
(* Steps of one request, of one loop, and answers                          *)

\* A request goes on without touching the tables and the directory.
LEMMA CallStepKeepsRows ==
    ASSUME RowsInv, NEW c \in Calls, NEW new \in Call,
           call' = [call EXCEPT ![c] = new],
           UNCHANGED <<disk, rows, keyOf, removed>>,
           new.op # "insert",
           new.op \in NoRow \cup {"deleteRow"} => new.file \in Files,
           new.file \in {call[c].file, None} \cup rows,
           new.op \in NoRow => call[c].op \in NoRow /\ new.file = call[c].file,
           new.op \in NewFile => call[c].op \in NewFile
    PROVE  RowsInv'
<1>1. /\ call' \in [Calls -> Call]
      /\ \A d \in Calls : call'[d] = IF d = c THEN new ELSE call[d]
  BY DEF RowsInv
<1>2. None \notin Files /\ "insert" \in NewFile /\ NewFile \subseteq NoRow
  BY FilesAssumption DEF NewFile, NoRow
<1>3. ASSUME NEW b \in Calls, NEW d \in Calls, call'[b].op \in NewFile, call'[d].file = call'[b].file
      PROVE  d = b
  <2>1. call[b].op \in NewFile /\ call'[b].file = call[b].file /\ call[b].file \in Files \ rows
    BY <1>1, <1>2, <1>3 DEF RowsInv
  <2>2. call[d].file = call[b].file
    BY <1>1, <1>2, <1>3, <2>1
  <2>3. QED
    BY <2>1, <2>2 DEF RowsInv
<1>4. ASSUME NEW b \in Calls
      PROVE  /\ call'[b].op \in NoRow \cup {"deleteRow"} => call'[b].file \in Files
             /\ call'[b].op = "insert" => call'[b].file \in disk'
             /\ call'[b].op \in NoRow => call'[b].file \notin rows'
  BY <1>1 DEF RowsInv
<1>5. QED
  BY <1>1, <1>3, <1>4 DEF RowsInv

\* A request goes on, or ends, without an answer.
LEMMA CallStepKeepsQueue ==
    ASSUME QueueInv, NEW c \in Calls, NEW new,
           call = [d \in Calls |-> call[d]],
           call' = [call EXCEPT ![c] = new],
           new.loop \notin Loops \/ (new.loop = call[c].loop /\ new.key = call[c].key),
           UNCHANGED <<outbox, loop>>,
           \A k \in Keys : Kept(k) => Kept(k)'
    PROVE  QueueInv'
<1>1. \A d \in Calls : call'[d] = IF d = c THEN new ELSE call[d]
  OBVIOUS
<1>2. ASSUME NEW l \in Loops PROVE LoopInv(l)'
  <2>1. LoopInv(l)
    BY DEF QueueInv
  <2>2. QED
    BY <1>1, <2>1 DEF LoopInv
<1>3. QED
  BY <1>2 DEF QueueInv

\* An answer: "stored" is only said of what is kept.
LEMMA AnswerKeepsQueue ==
    ASSUME QueueInv, NEW c \in Calls, NEW reply \in {"stored", "refused", "failed"},
           call = [d \in Calls |-> call[d]],
           Answers(c, reply), outbox' = outbox,
           \A k \in Keys : Kept(k) => Kept(k)',
           NEW key, key = call[c].key,
           reply = "stored" /\ key \in Keys => Kept(key)'
    PROVE  QueueInv'
<1>1. /\ call' = [call EXCEPT ![c] = IdleCall]
      /\ \A d \in Calls : call'[d] = IF d = c THEN IdleCall ELSE call[d]
  BY DEF Answers
<1>2. loop' = [l \in Loops |->
           IF l = call[c].loop /\ loop[l].op = "wait" /\ loop[l].call = c
           THEN [loop[l] EXCEPT !.op = "got", !.call = None, !.reply = reply]
           ELSE loop[l]]
  BY DEF Answers
<1>3. IdleCall.loop \notin Loops
  BY FilesAssumption DEF IdleCall
<1>4. ASSUME NEW l \in Loops PROVE LoopInv(l)' /\ loop'[l] \in Loop
  <2>1. LoopInv(l) /\ loop[l] \in Loop
    BY DEF QueueInv
  <2>2. CASE l = call[c].loop /\ loop[l].op = "wait" /\ loop[l].call = c
    <3>1. loop'[l] = [loop[l] EXCEPT !.op = "got", !.call = None, !.reply = reply]
      BY <1>2, <2>2
    <3>2. /\ loop'[l] \in Loop /\ loop'[l].op = "got" /\ loop'[l].reply = reply
          /\ loop'[l].key = loop[l].key
      BY <2>1, <3>1 DEF Loop
    <3>3. loop'[l].key = key /\ key \in Keys
      BY <2>1, <2>2, <3>2 DEF LoopInv
    <3>4. reply = "stored" => Kept(loop[l].key)'
      BY <3>3
    <3>5. QED
      BY <3>2, <3>3, <3>4 DEF LoopInv
  <2>3. CASE ~(l = call[c].loop /\ loop[l].op = "wait" /\ loop[l].call = c)
    <3>1. loop'[l] = loop[l]
      BY <1>2, <2>3
    <3>2. \A d \in Calls : loop'[l].op = "wait" /\ loop'[l].call = d /\ call'[d].loop = l
                          => call'[d].key = loop'[l].key
      BY <1>1, <1>3, <2>1, <3>1 DEF LoopInv
    <3>3. QED
      BY <2>1, <3>1, <3>2 DEF LoopInv
  <2>4. QED
    BY <2>2, <2>3
<1>5. loop' \in [Loops -> Loop]
  BY <1>2, <1>4
<1>6. QED
  BY <1>4, <1>5 DEF QueueInv

\* A loop goes on by itself.
LEMMA LoopStepKeepsInv ==
    ASSUME FilesInv, NEW l \in Loops, NEW new \in Loop,
           loop' = [loop EXCEPT ![l] = new],
           UNCHANGED <<disk, rows, keyOf, call, removed, indexed>>,
           outbox' \in [Keys -> Entry],
           \A k \in Keys : outbox'[k].status = "SYNCED" => Kept(k),
           new.op = "next" => new.todo # {},
           new.op # "wait",
           new.op \in {"send", "got", "clear"} => new.key \in Keys,
           new.op = "got" => new.reply \in {"refused", "failed"}
    PROVE  FilesInv'
<1>1. /\ loop' \in [Loops -> Loop]
      /\ \A m \in Loops : loop'[m] = IF m = l THEN new ELSE loop[m]
  BY DEF FilesInv, QueueInv
<1>2. \A k : Kept(k)' = Kept(k)
  BY DEF Kept, Stored
<1>3. ASSUME NEW m \in Loops PROVE LoopInv(m)'
  <2>1. CASE m = l
    <3>1. loop'[m] = new
      BY <1>1, <2>1
    <3>2. QED
      BY <3>1 DEF LoopInv
  <2>2. CASE m # l
    <3>1. LoopInv(m)
      BY DEF FilesInv, QueueInv
    <3>2. loop'[m] = loop[m]
      BY <1>1, <2>2
    <3>3. QED
      BY <1>2, <3>1, <3>2 DEF LoopInv
  <2>3. QED
    BY <2>1, <2>2
<1>4. RowsInv'
  BY DEF FilesInv, RowsInv
<1>5. QED
  BY <1>1, <1>2, <1>3, <1>4 DEF FilesInv, QueueInv
-----------------------------------------------------------------------------
(* Requests                                                                *)

\* Without a change of the tables, what was kept is.
LEMMA KeptUnchanged == UNCHANGED <<rows, keyOf, removed>> => \A k \in Keys : Kept(k) => Kept(k)'
BY DEF Kept, Stored

\* A request moves on to its next statement.
LEMMA GoesKeepsFiles ==
    ASSUME FilesInv, NEW c \in Calls,
           NEW op \in {"lookup", "save", "discard", "unlink", "restore"},
           Goes(c, op), UNCHANGED <<disk, rows, keyOf, outbox, loop, removed, indexed>>,
           op \in NoRow => call[c].op \in NoRow,
           op \in NewFile => call[c].op \in NewFile
    PROVE  FilesInv'
<1> DEFINE new == [call[c] EXCEPT !.op = op]
<1>1. RowsInv /\ QueueInv /\ call \in [Calls -> Call] /\ call[c] \in Call
  BY DEF FilesInv, RowsInv
<1>2. /\ new \in Call /\ new.op = op
      /\ new.file = call[c].file /\ new.key = call[c].key /\ new.loop = call[c].loop
  BY <1>1 DEF Call
<1>3. call' = [call EXCEPT ![c] = new]
  BY <1>1 DEF Goes
<1> HIDE DEF new
<1>4. new.op \in NoRow \cup {"deleteRow"} => new.file \in Files
  BY <1>1, <1>2 DEF RowsInv
<1>5. RowsInv'
  BY <1>1, <1>2, <1>3, <1>4, CallStepKeepsRows
<1>6. QueueInv'
  BY <1>1, <1>2, <1>3, KeptUnchanged, CallStepKeepsQueue
<1>7. QED
  BY <1>5, <1>6 DEF FilesInv

\* A request begins, or ends without an answer.
LEMMA FreshCallKeepsFiles ==
    ASSUME FilesInv, NEW c \in Calls, NEW new \in Call,
           call' = [call EXCEPT ![c] = new],
           UNCHANGED <<disk, rows, keyOf, outbox, loop, removed, indexed>>,
           new.op \in {"idle", "save", "deleteRow"}, new.loop = None,
           new.file = None \/ new.file \in rows,
           new.op = "deleteRow" => new.file \in rows
    PROVE  FilesInv'
<1>1. RowsInv /\ QueueInv /\ call = [d \in Calls |-> call[d]] /\ rows \subseteq Files
  BY DEF FilesInv, RowsInv
<1>2. new.op \notin NoRow /\ new.op # "insert" /\ new.op \notin NewFile
  BY DEF NoRow, NewFile
<1>3. RowsInv'
  BY <1>1, <1>2, CallStepKeepsRows
<1>4. QueueInv'
  BY <1>1, KeptUnchanged, FilesAssumption, CallStepKeepsQueue
<1>5. QED
  BY <1>3, <1>4 DEF FilesInv

LEMMA IdleIsCall == IdleCall \in Call /\ IdleCall.op = "idle" /\ IdleCall.file = None
                    /\ IdleCall.key = NoKey /\ IdleCall.loop = None
BY DEF IdleCall, Call

\* A request is answered without a change of the tables.
LEMMA AnswerKeepsFiles ==
    ASSUME FilesInv, NEW c \in Calls, NEW reply \in {"stored", "refused", "failed"},
           Answers(c, reply), UNCHANGED <<disk, rows, keyOf, outbox, removed, indexed>>,
           reply = "stored" => Stored(call[c].key)
    PROVE  FilesInv'
<1>1. RowsInv /\ QueueInv /\ call = [d \in Calls |-> call[d]]
  BY DEF FilesInv, RowsInv
<1>2. call' = [call EXCEPT ![c] = IdleCall]
  BY DEF Answers
<1>3. IdleCall.op \notin NoRow /\ IdleCall.op \notin NewFile
  BY IdleIsCall DEF NoRow, NewFile
<1>4. RowsInv'
  BY <1>1, <1>2, <1>3, IdleIsCall, CallStepKeepsRows
<1>5. PICK key : key = call[c].key
  OBVIOUS
<1>6. reply = "stored" /\ key \in Keys => Kept(key)'
  BY <1>5, KeptUnchanged DEF Kept
<1>7. QueueInv'
  BY <1>1, <1>5, <1>6, KeptUnchanged, AnswerKeepsQueue
<1>8. QED
  BY <1>4, <1>7 DEF FilesInv

\* The new file has a name that no row and no request refers to.
LEMMA SaveKeepsFiles ==
    ASSUME FilesInv, NEW c \in Calls, SaveFile(c), indexed' = indexed
    PROVE  FilesInv'
<1>1. RowsInv /\ QueueInv /\ call = [d \in Calls |-> call[d]] /\ call[c] \in Call
  BY DEF FilesInv, RowsInv, Call
<1>2. PICK f \in Files : /\ f \notin rows /\ \A d \in Calls : call[d].file # f
                        /\ disk' = disk \cup {f}
                        /\ call' = [call EXCEPT ![c].op = "insert", ![c].file = f]
  BY DEF SaveFile, Unused
<1>3. UNCHANGED <<rows, keyOf, outbox, loop, removed>>
  BY DEF SaveFile
<1> DEFINE new == [call[c] EXCEPT !.op = "insert", !.file = f]
<1>4. /\ new \in Call /\ new.op = "insert" /\ new.file = f
      /\ new.key = call[c].key /\ new.loop = call[c].loop
  BY <1>1 DEF Call
<1>5. call' = [call EXCEPT ![c] = new]
  BY <1>1, <1>2
<1> HIDE DEF new
<1>6. /\ call' \in [Calls -> Call]
      /\ \A d \in Calls : call'[d] = IF d = c THEN new ELSE call[d]
  BY <1>1, <1>4, <1>5 DEF RowsInv
<1>7. ASSUME NEW b \in Calls, NEW d \in Calls, call'[b].op \in NewFile, call'[d].file = call'[b].file
      PROVE  d = b
  <2>1. CASE b = c
    BY <1>2, <1>4, <1>6, <1>7, <2>1
  <2>2. CASE b # c
    <3>1. call[b].op \in NewFile /\ call'[b].file = call[b].file /\ call[b].file # f
      BY <1>2, <1>6, <1>7, <2>2
    <3>2. call[d].file = call[b].file
      BY <1>4, <1>6, <1>7, <3>1
    <3>3. QED
      BY <1>1, <3>1, <3>2 DEF RowsInv
  <2>3. QED
    BY <2>1, <2>2
<1>8. ASSUME NEW b \in Calls
      PROVE  /\ call'[b].op \in NoRow \cup {"deleteRow"} => call'[b].file \in Files
             /\ call'[b].op = "insert" => call'[b].file \in disk'
             /\ call'[b].op \in NoRow => call'[b].file \notin rows'
  BY <1>1, <1>2, <1>3, <1>4, <1>6 DEF RowsInv
<1>9. disk' \subseteq Files /\ rows' \subseteq disk'
  BY <1>1, <1>2, <1>3 DEF RowsInv
<1>10. RowsInv'
  BY <1>1, <1>3, <1>6, <1>7, <1>8, <1>9 DEF RowsInv
<1>11. QueueInv'
  BY <1>1, <1>3, <1>4, <1>5, KeptUnchanged, CallStepKeepsQueue
<1>12. QED
  BY <1>10, <1>11 DEF FilesInv

\* The file of the new row is there, and nobody else is about to remove it.
LEMMA InsertKeepsFiles ==
    ASSUME FilesInv, NEW c \in Calls, Insert(c), indexed' = indexed
    PROVE  FilesInv'
<1>1. RowsInv /\ QueueInv /\ call = [d \in Calls |-> call[d]]
  BY DEF FilesInv, RowsInv
<1>2. PICK f : f = call[c].file
  OBVIOUS
<1>3. PICK key : key = call[c].key
  OBVIOUS
<1>4. /\ call[c].op = "insert" /\ rows' = rows \cup {f}
      /\ keyOf' = [keyOf EXCEPT ![f] = key]
      /\ call' = [call EXCEPT ![c] = IdleCall] /\ Answers(c, "stored")
      /\ UNCHANGED <<disk, outbox, removed>>
  BY <1>2, <1>3 DEF Insert, Answers
<1>5. "insert" \in NewFile /\ NewFile \subseteq NoRow /\ IdleCall.op \notin NoRow \cup {"deleteRow"}
  BY IdleIsCall DEF NewFile, NoRow
<1>6. /\ f \in disk /\ f \notin rows /\ f \in Files /\ key \in Keys \cup {NoKey}
      /\ \A d \in Calls : call[d].file = f => d = c
  BY <1>1, <1>2, <1>3, <1>4, <1>5 DEF RowsInv, Call
<1>7. /\ call' \in [Calls -> Call]
      /\ \A d \in Calls : call'[d] = IF d = c THEN IdleCall ELSE call[d]
  BY <1>1, <1>4, IdleIsCall DEF RowsInv
<1>8. ASSUME NEW b \in Calls
      PROVE  /\ call'[b].op \in NoRow \cup {"deleteRow"} => call'[b].file \in Files
             /\ call'[b].op = "insert" => call'[b].file \in disk'
             /\ call'[b].op \in NoRow => call'[b].file \notin rows'
             /\ \A d \in Calls : call'[b].op \in NewFile /\ call'[d].file = call'[b].file => d = b
  <2>1. CASE b = c
    BY <1>5, <1>7, <2>1
  <2>2. CASE b # c
    <3>1. call'[b] = call[b] /\ call[b].file # f
      BY <1>6, <1>7, <2>2
    <3>2. ASSUME NEW d \in Calls, call[b].op \in NewFile, call'[d].file = call[b].file PROVE d = b
      <4>1. call'[d].file # None
        BY <1>1, <1>5, <3>2, FilesAssumption DEF RowsInv
      <4>2. call'[d] = call[d]
        BY <1>7, <4>1, IdleIsCall
      <4>3. QED
        BY <1>1, <3>2, <4>2 DEF RowsInv
    <3>3. QED
      BY <1>1, <1>4, <3>1, <3>2 DEF RowsInv
  <2>3. QED
    BY <2>1, <2>2
<1>9. /\ keyOf' \in [Files -> Keys \cup {NoKey}]
      /\ \A g \in Files : keyOf'[g] = IF g = f THEN key ELSE keyOf[g]
  BY <1>1, <1>4, <1>6 DEF RowsInv
<1>10. RowsInv'
  BY <1>1, <1>4, <1>6, <1>7, <1>8, <1>9 DEF RowsInv
<1>11. ASSUME NEW k \in Keys, Kept(k) PROVE Kept(k)'
  <2>1. CASE k \in removed
    BY <1>4, <2>1 DEF Kept
  <2>2. CASE Stored(k)
    <3>1. PICK g \in rows : keyOf[g] = k
      BY <2>2 DEF Stored
    <3>2. g \in rows' /\ keyOf'[g] = k
      BY <1>1, <1>4, <1>6, <1>9, <3>1 DEF RowsInv
    <3>3. QED
      BY <3>2 DEF Kept, Stored
  <2>3. QED
    BY <1>11, <2>1, <2>2 DEF Kept
<1>12. Kept(key)'
  <2>1. f \in rows' /\ keyOf'[f] = key
    BY <1>4, <1>6, <1>9
  <2>2. QED
    BY <2>1 DEF Kept, Stored
<1>13. QueueInv'
  BY <1>1, <1>3, <1>4, <1>11, <1>12, AnswerKeepsQueue
<1>14. QED
  BY <1>10, <1>13 DEF FilesInv

\* A request that removes its file, which no row and no other new file has.
LEMMA RemovalKeepsFiles ==
    ASSUME FilesInv, NEW c \in Calls, NEW new \in Call, call[c].op \in {"discard", "unlink"},
           disk' \in {disk \ {call[c].file}, disk},
           call' = [call EXCEPT ![c] = new],
           new.op \in {"lookAgain", "idle"}, new.file = None,
           new.loop \notin Loops \/ (new.loop = call[c].loop /\ new.key = call[c].key),
           UNCHANGED <<rows, keyOf, outbox, loop, removed, indexed>>
    PROVE  FilesInv'
<1>1. RowsInv /\ QueueInv /\ call = [d \in Calls |-> call[d]]
  BY DEF FilesInv, RowsInv
<1>2. PICK f : f = call[c].file
  OBVIOUS
<1>3. /\ call[c].op \in NoRow /\ "insert" \in NewFile /\ NewFile \subseteq NoRow
      /\ new.op \notin NoRow \cup {"deleteRow"}
  BY DEF NoRow, NewFile
<1>4. /\ call' \in [Calls -> Call]
      /\ \A d \in Calls : call'[d] = IF d = c THEN new ELSE call[d]
  BY <1>1 DEF RowsInv
<1>5. f \notin rows /\ disk \ {f} \subseteq disk' /\ disk' \subseteq disk
  BY <1>1, <1>2, <1>3 DEF RowsInv
<1>6. ASSUME NEW b \in Calls
      PROVE  /\ call'[b].op \in NoRow \cup {"deleteRow"} => call'[b].file \in Files
             /\ call'[b].op = "insert" => call'[b].file \in disk'
             /\ call'[b].op \in NoRow => call'[b].file \notin rows'
             /\ \A d \in Calls : call'[b].op \in NewFile /\ call'[d].file = call'[b].file => d = b
  <2>1. CASE b = c
    BY <1>3, <1>4, <2>1
  <2>2. CASE b # c
    <3>1. call'[b] = call[b]
      BY <1>4, <2>2
    <3>2. call[b].op \in NewFile => call[b].file # f
      BY <1>1, <1>2, <2>2 DEF RowsInv
    <3>3. ASSUME NEW d \in Calls, call[b].op \in NewFile, call'[d].file = call[b].file PROVE d = b
      <4>1. call'[d].file # None
        BY <1>1, <1>3, <3>3, FilesAssumption DEF RowsInv
      <4>2. call'[d] = call[d]
        BY <1>4, <4>1
      <4>3. QED
        BY <1>1, <3>3, <4>2 DEF RowsInv
    <3>4. QED
      BY <1>1, <1>3, <1>5, <3>1, <3>2, <3>3 DEF RowsInv
  <2>3. QED
    BY <2>1, <2>2
<1>7. disk' \subseteq Files /\ rows' \subseteq disk'
  BY <1>1, <1>5 DEF RowsInv
<1>8. RowsInv'
  BY <1>1, <1>4, <1>6, <1>7 DEF RowsInv
<1>9. QueueInv'
  BY <1>1, KeptUnchanged, CallStepKeepsQueue
<1>10. QED
  BY <1>8, <1>9 DEF FilesInv

\* The user takes a row away; the entry it was of counts as removed.
LEMMA DeleteRowKeepsFiles ==
    ASSUME FilesInv, NEW c \in Calls, DeleteRow(c), indexed' = indexed
    PROVE  FilesInv'
<1>1. RowsInv /\ QueueInv /\ call = [d \in Calls |-> call[d]] /\ call[c] \in Call
  BY DEF FilesInv, RowsInv, Call
<1>2. PICK f : f = call[c].file
  OBVIOUS
<1>3. call[c].op = "deleteRow" /\ f \in Files /\ UNCHANGED <<disk, outbox, loop>>
  BY <1>1, <1>2 DEF DeleteRow, RowsInv
<1>4. CASE f \notin rows
  <2>1. call' = [call EXCEPT ![c] = IdleCall] /\ UNCHANGED <<rows, keyOf, removed>>
    BY <1>2, <1>4 DEF DeleteRow
  <2>2. QED
    BY <1>3, <2>1, IdleIsCall, FreshCallKeepsFiles
<1>5. CASE f \in rows
  <2>1. /\ rows' = rows \ {f} /\ keyOf' = [keyOf EXCEPT ![f] = NoKey]
        /\ removed' = removed \cup ({keyOf[f]} \ {NoKey})
        /\ call' = [call EXCEPT ![c].op = "unlink"]
    BY <1>2, <1>5 DEF DeleteRow, Goes
  <2> DEFINE new == [call[c] EXCEPT !.op = "unlink"]
  <2>2. /\ new \in Call /\ new.op = "unlink" /\ new.file = f
        /\ new.key = call[c].key /\ new.loop = call[c].loop
    BY <1>1, <1>2 DEF Call
  <2>3. call' = [call EXCEPT ![c] = new]
    BY <1>1, <2>1
  <2> HIDE DEF new
  <2>4. /\ call' \in [Calls -> Call]
        /\ \A d \in Calls : call'[d] = IF d = c THEN new ELSE call[d]
        /\ \A d \in Calls : call'[d].file = call[d].file
        /\ \A d \in Calls : call'[d].op = "insert" => call[d].op = "insert"
    BY <1>1, <1>2, <2>2, <2>3 DEF RowsInv
  <2>5. \A d \in Calls : call'[d].op \in NewFile => call[d].op \in NewFile
    BY <2>2, <2>4 DEF NewFile
  <2>6. ASSUME NEW b \in Calls
        PROVE  /\ call'[b].op \in NoRow \cup {"deleteRow"} => call'[b].file \in Files
               /\ call'[b].op = "insert" => call'[b].file \in disk'
               /\ call'[b].op \in NoRow => call'[b].file \notin rows'
               /\ \A d \in Calls : call'[b].op \in NewFile /\ call'[d].file = call'[b].file => d = b
    <3>1. call'[b].op \in NoRow \cup {"deleteRow"} => call'[b].file \in Files
      BY <1>1, <1>3, <2>2, <2>4 DEF RowsInv
    <3>2. call'[b].op = "insert" => call'[b].file \in disk'
      BY <1>1, <1>3, <2>4 DEF RowsInv
    <3>3. call'[b].op \in NoRow => call'[b].file \notin rows'
      <4>1. CASE b = c
        <5>1. call'[b] = new
          BY <2>4, <4>1
        <5>2. rows' = rows \ {f}
          BY <2>1
        <5>3. new.file = f
          BY <2>2
        <5>4. new.file \notin rows'
          BY <5>2, <5>3
        <5>5. QED
          BY <5>1, <5>4
      <4>2. CASE b # c
        BY <1>1, <2>1, <2>4, <4>2 DEF RowsInv
      <4>3. QED
        BY <4>1, <4>2
    <3>4. \A d \in Calls : call'[b].op \in NewFile /\ call'[d].file = call'[b].file => d = b
      BY <1>1, <2>4, <2>5 DEF RowsInv
    <3>5. QED
      BY <3>1, <3>2, <3>3, <3>4
  <2>7. /\ keyOf' \in [Files -> Keys \cup {NoKey}] /\ keyOf[f] \in Keys \cup {NoKey}
        /\ \A g \in Files : keyOf'[g] = IF g = f THEN NoKey ELSE keyOf[g]
    BY <1>1, <1>3, <2>1 DEF RowsInv
  <2>8. removed' \subseteq Keys
    BY <1>1, <2>1, <2>7 DEF RowsInv
  <2>9. RowsInv'
    BY <1>1, <1>3, <2>1, <2>4, <2>6, <2>7, <2>8 DEF RowsInv
  <2>10. ASSUME NEW k \in Keys, Kept(k) PROVE Kept(k)'
    <3>1. CASE k \in removed
      BY <2>1, <3>1 DEF Kept
    <3>2. CASE Stored(k)
      <4>1. PICK g \in rows : keyOf[g] = k
        BY <3>2 DEF Stored
      <4>2. CASE g = f
        <5>1. k # NoKey
          BY FilesAssumption
        <5>2. k \in removed'
          BY <2>1, <4>1, <4>2, <5>1
        <5>3. QED
          BY <5>2 DEF Kept
      <4>3. CASE g # f
        <5>1. g \in rows' /\ keyOf'[g] = k
          BY <1>1, <2>1, <2>7, <4>1, <4>3 DEF RowsInv
        <5>2. QED
          BY <5>1 DEF Kept, Stored
      <4>4. QED
        BY <4>2, <4>3
    <3>3. QED
      BY <2>10, <3>1, <3>2 DEF Kept
  <2>11. QueueInv'
    BY <1>1, <1>3, <2>2, <2>3, <2>10, CallStepKeepsQueue
  <2>12. QED
    BY <2>9, <2>11 DEF FilesInv
<1>6. QED
  BY <1>4, <1>5

LEMMA UploadKeepsInv ==
    ASSUME FilesInv, NEW c \in Calls, Upload(c), indexed' = indexed
    PROVE  FilesInv'
<1>1. CASE UploadOnline(c)
  <2> DEFINE new == [IdleCall EXCEPT !.op = "save"]
  <2>1. new \in Call /\ new.op = "save" /\ new.file = None /\ new.loop = None
    BY DEF IdleCall, Call
  <2>2. /\ call' = [call EXCEPT ![c] = new]
        /\ UNCHANGED <<disk, rows, keyOf, outbox, loop, removed>>
    BY <1>1 DEF UploadOnline
  <2> HIDE DEF new
  <2>3. QED
    BY <2>1, <2>2, FreshCallKeepsFiles
<1>2. CASE AnswerStored(c)
  BY <1>2, AnswerKeepsFiles DEF AnswerStored
<1>3. CASE Lookup(c)
  BY <1>3, GoesKeepsFiles DEF Lookup, NoRow, NewFile
<1>4. CASE Refuse(c)
  BY <1>4, AnswerKeepsFiles DEF Refuse
<1>5. CASE SaveFile(c)
  BY <1>5, SaveKeepsFiles
<1>6. CASE Insert(c)
  BY <1>6, InsertKeepsFiles
<1>7. CASE InsertRefused(c) \/ InsertFails(c)
  BY <1>7, GoesKeepsFiles DEF InsertRefused, InsertFails, NoRow, NewFile
<1>8. CASE Discard(c)
  <2> DEFINE new == [call[c] EXCEPT !.op = "lookAgain", !.file = None]
  <2>1. call[c] \in Call /\ call = [d \in Calls |-> call[d]]
    BY DEF FilesInv, RowsInv
  <2>2. /\ new \in Call /\ new.op = "lookAgain" /\ new.file = None
        /\ new.key = call[c].key /\ new.loop = call[c].loop
    BY <2>1 DEF Call
  <2>3. /\ call[c].op = "discard" /\ disk' \in {disk \ {call[c].file}, disk}
        /\ UNCHANGED <<rows, keyOf, outbox, loop, removed>>
    BY <1>8 DEF Discard
  <2>4. call' = [call EXCEPT ![c] = new]
    BY <1>8, <2>1 DEF Discard
  <2> HIDE DEF new
  <2>5. QED
    BY <2>2, <2>3, <2>4, RemovalKeepsFiles
<1>9. CASE AnswerFailed(c) \/ FailUpload(c)
  BY <1>9, AnswerKeepsFiles DEF AnswerFailed, FailUpload
<1>10. QED
  BY <1>1, <1>2, <1>3, <1>4, <1>5, <1>6, <1>7, <1>8, <1>9 DEF Upload

LEMMA DeleteKeepsInv ==
    ASSUME FilesInv, NEW c \in Calls, DeleteForUser(c), indexed' = indexed
    PROVE  FilesInv'
<1>1. ASSUME NEW f \in Files, Delete(c, f) PROVE FilesInv'
  <2> DEFINE new == [IdleCall EXCEPT !.op = "deleteRow", !.file = f]
  <2>1. new \in Call /\ new.op = "deleteRow" /\ new.file = f /\ new.loop = None
    BY DEF IdleCall, Call
  <2>2. /\ call' = [call EXCEPT ![c] = new] /\ f \in rows
        /\ UNCHANGED <<disk, rows, keyOf, outbox, loop, removed>>
    BY <1>1 DEF Delete
  <2> HIDE DEF new
  <2>3. QED
    BY <2>1, <2>2, FreshCallKeepsFiles
<1>2. CASE DeleteRow(c)
  BY <1>2, DeleteRowKeepsFiles
<1>3. CASE Unlink(c)
  BY <1>3, IdleIsCall, FilesAssumption, RemovalKeepsFiles DEF Unlink
<1>4. CASE UnlinkFails(c)
  BY <1>4, GoesKeepsFiles DEF UnlinkFails, NoRow, NewFile
<1>5. CASE Restore(c) \/ FailDelete(c)
  BY <1>5, IdleIsCall, FreshCallKeepsFiles DEF Restore, FailDelete
<1>6. QED
  BY <1>1, <1>2, <1>3, <1>4, <1>5 DEF DeleteForUser

\* Every request is gone, and the loops that waited for one are without an answer.
LEMMA CrashKeepsInv ==
    ASSUME FilesInv, Crash, indexed' = indexed
    PROVE  FilesInv'
<1>1. /\ RowsInv /\ QueueInv
      /\ \A c \in Calls : call'[c] = IdleCall
      /\ call' = [c \in Calls |-> IdleCall]
      /\ loop' = [l \in Loops |-> IF loop[l].op = "wait" THEN Unanswered(l) ELSE loop[l]]
      /\ UNCHANGED <<disk, rows, keyOf, outbox, removed>>
  BY DEF FilesInv, Crash
<1>2. IdleCall.op \notin NoRow \cup {"deleteRow"} /\ IdleCall.op \notin NewFile /\ IdleCall.op # "insert"
  BY IdleIsCall DEF NoRow, NewFile
<1>3. RowsInv'
  BY <1>1, <1>2, IdleIsCall DEF RowsInv
<1>4. ASSUME NEW l \in Loops PROVE loop'[l] \in Loop /\ LoopInv(l)'
  <2>1. LoopInv(l) /\ loop[l] \in Loop
    BY <1>1 DEF QueueInv
  <2>2. CASE loop[l].op = "wait"
    <3>1. loop'[l] = [loop[l] EXCEPT !.op = "got", !.call = None, !.reply = "failed"]
      BY <1>1, <2>2 DEF Unanswered
    <3>2. /\ loop'[l] \in Loop /\ loop'[l].op = "got" /\ loop'[l].reply = "failed"
          /\ loop'[l].key = loop[l].key
      BY <2>1, <3>1 DEF Loop
    <3>3. QED
      BY <2>1, <2>2, <3>2 DEF LoopInv
  <2>3. CASE loop[l].op # "wait"
    <3>1. loop'[l] = loop[l]
      BY <1>1, <2>3
    <3>2. \A k \in Keys : Kept(k) => Kept(k)'
      BY <1>1, KeptUnchanged
    <3>3. QED
      BY <2>1, <2>3, <3>1, <3>2 DEF LoopInv
  <2>4. QED
    BY <2>2, <2>3
<1>5. loop' \in [Loops -> Loop]
  BY <1>1, <1>4
<1>6. QueueInv'
  BY <1>1, <1>4, <1>5, KeptUnchanged DEF QueueInv
<1>7. QED
  BY <1>1, <1>3, <1>6 DEF FilesInv

-----------------------------------------------------------------------------
(* The media queue                                                         *)

LEMMA IdleLoopIsLoop == IdleLoop \in Loop /\ IdleLoop.op = "idle"
BY DEF IdleLoop, Loop

\* The request carries the entry of its loop.
LEMMA PostKeepsInv ==
    ASSUME FilesInv, NEW l \in Loops, NEW c \in Calls, Post(l, c), indexed' = indexed
    PROVE  FilesInv'
<1>1. RowsInv /\ QueueInv /\ LoopInv(l) /\ loop[l] \in Loop
  BY DEF FilesInv, QueueInv
<1> DEFINE new == [IdleCall EXCEPT !.op = "lookup", !.key = loop[l].key, !.loop = l]
           waiting == [loop[l] EXCEPT !.op = "wait", !.call = c]
<1>2. /\ loop[l].op = "send" /\ call' = [call EXCEPT ![c] = new]
      /\ UNCHANGED <<disk, rows, keyOf, outbox, removed>>
  BY DEF Post
<1>3. loop' = [loop EXCEPT ![l] = waiting]
  BY <1>1 DEF Post, QueueInv
<1>4. loop[l].key \in Keys
  BY <1>1, <1>2 DEF LoopInv
<1>5. /\ new \in Call /\ new.op = "lookup" /\ new.file = None
      /\ new.key = loop[l].key /\ new.loop = l
  BY <1>4 DEF IdleCall, Call
<1>6. /\ waiting \in Loop /\ waiting.op = "wait" /\ waiting.call = c /\ waiting.key = loop[l].key
  BY <1>1 DEF Loop
<1> HIDE DEF new, waiting
<1>7. /\ loop' \in [Loops -> Loop]
      /\ \A m \in Loops : loop'[m] = IF m = l THEN waiting ELSE loop[m]
      /\ \A d \in Calls : call'[d] = IF d = c THEN new ELSE call[d]
  BY <1>1, <1>2, <1>3, <1>6 DEF QueueInv, RowsInv
<1>8. new.op \notin NoRow \cup {"deleteRow"} /\ new.op \notin NewFile
  BY <1>5 DEF NoRow, NewFile
<1>9. RowsInv'
  BY <1>1, <1>2, <1>5, <1>8, CallStepKeepsRows
<1>10. \A k \in Keys : Kept(k) => Kept(k)'
  BY <1>2, KeptUnchanged
<1>11. ASSUME NEW m \in Loops PROVE LoopInv(m)'
  <2>1. CASE m = l
    <3>1. loop'[m] = waiting
      BY <1>7, <2>1
    <3>2. \A d \in Calls : loop'[m].call = d /\ call'[d].loop = m => call'[d].key = loop'[m].key
      BY <1>5, <1>6, <1>7, <3>1
    <3>3. QED
      BY <1>4, <1>6, <3>1, <3>2 DEF LoopInv
  <2>2. CASE m # l
    <3>1. loop'[m] = loop[m] /\ LoopInv(m)
      BY <1>1, <1>7, <2>2 DEF QueueInv
    <3>2. \A d \in Calls : loop'[m].op = "wait" /\ loop'[m].call = d /\ call'[d].loop = m
                          => call'[d].key = loop'[m].key
      BY <1>5, <1>7, <2>2, <3>1 DEF LoopInv
    <3>3. QED
      BY <1>10, <3>1, <3>2 DEF LoopInv
  <2>3. QED
    BY <2>1, <2>2
<1>12. QueueInv'
  BY <1>1, <1>2, <1>7, <1>10, <1>11 DEF QueueInv
<1>13. QED
  BY <1>9, <1>12 DEF FilesInv

\* Entries are numbers, of which a set that is not empty has a least.
LEMMA LeastKey ==
    ASSUME NEW todo, todo \subseteq Keys, todo # {}
    PROVE  Min(todo) \in todo
<1> DEFINE Less == {ss \in Nat \X Nat : ss[1] < ss[2]}
<1>1. IsWellFoundedOn(Less, Nat)
  BY NatLessThanWellFounded DEF OpToRel
<1>2. todo \subseteq Nat
  BY FilesAssumption
<1>3. PICK x \in todo : \A y \in todo : <<y, x>> \notin Less
  <2> HIDE DEF Less
  <2>1. QED
    BY <1>1, <1>2, WFMin
<1>4. ASSUME NEW y \in todo PROVE x <= y
  <2>1. x \in Nat /\ y \in Nat
    BY <1>2
  <2>2. y < x => <<y, x>> \in Less
    BY <2>1
  <2>3. QED
    BY <1>3, <2>1, <2>2
<1>5. QED
  BY <1>4 DEF Min

\* What follows the entry a loop has settled.
LEMMA NextEntryIsLoop ==
    ASSUME FilesInv, NEW l \in Loops
    PROVE  /\ NextEntry(l) \in Loop
           /\ NextEntry(l).op \in {"idle", "next"}
           /\ NextEntry(l).op = "next" => NextEntry(l).todo # {}
<1>1. loop[l].todo \subseteq Keys
  BY DEF FilesInv, QueueInv, Loop
<1>2. CASE loop[l].todo = {}
  BY <1>2, IdleLoopIsLoop DEF NextEntry
<1>3. CASE loop[l].todo # {}
  <2>1. NextEntry(l) = [IdleLoop EXCEPT !.op = "next", !.todo = loop[l].todo]
    BY <1>3 DEF NextEntry
  <2>2. QED
    BY <1>1, <1>3, <2>1 DEF IdleLoop, Loop
<1>4. QED
  BY <1>2, <1>3

\* A status other than SYNCED, or SYNCED for what is kept.
LEMMA StatusKeepsOutbox ==
    ASSUME FilesInv, NEW k, NEW status \in {"PENDING", "UPLOADING", "SYNCED", "FAILED"},
           SetStatus(k, status), status = "SYNCED" => Kept(k)
    PROVE  /\ outbox' \in [Keys -> Entry]
           /\ \A j \in Keys : outbox'[j].status = "SYNCED" => Kept(j)
<1>1. /\ outbox \in [Keys -> Entry] /\ outbox' = [outbox EXCEPT ![k].status = status]
      /\ \A j \in Keys : outbox[j].status = "SYNCED" => Kept(j)
  BY DEF FilesInv, QueueInv, SetStatus
<1>2. ASSUME NEW j \in Keys
      PROVE  /\ outbox'[j] \in Entry
             /\ outbox'[j].status = IF j = k THEN status ELSE outbox[j].status
  BY <1>1 DEF Entry
<1>3. outbox' = [j \in Keys |-> outbox'[j]]
  BY <1>1
<1>4. QED
  BY <1>1, <1>2, <1>3

LEMMA DeviceKeepsInv ==
    ASSUME FilesInv, NEW l \in Loops, Device(l), indexed' = indexed
    PROVE  FilesInv'
<1>1. /\ loop \in [Loops -> Loop] /\ loop[l] \in Loop /\ LoopInv(l) /\ outbox \in [Keys -> Entry]
      /\ \A k \in Keys : outbox[k].status = "SYNCED" => Kept(k)
  BY DEF FilesInv, QueueInv
<1>2. CASE StartLoop(l)
  <2> DEFINE todo == {k \in PendingMedia : outbox[k].body}
             new == [IdleLoop EXCEPT !.op = "next", !.todo = todo]
  <2>1. /\ todo # {} /\ loop' = [loop EXCEPT ![l] = new]
        /\ UNCHANGED <<disk, rows, keyOf, call, removed, outbox>>
    BY <1>2 DEF StartLoop, server
  <2>2. todo \subseteq Keys
    BY DEF PendingMedia
  <2> HIDE DEF todo
  <2>3. new \in Loop /\ new.op = "next" /\ new.todo = todo
    BY <2>2 DEF IdleLoop, Loop
  <2> HIDE DEF new
  <2>4. QED
    BY <1>1, <2>1, <2>3, LoopStepKeepsInv
<1>3. CASE MarkUploading(l)
  <2> DEFINE k == Min(loop[l].todo)
             new == [IdleLoop EXCEPT !.op = "send", !.key = k, !.todo = loop[l].todo \ {k}]
  <2>1. /\ loop[l].op = "next" /\ SetStatus(k, "UPLOADING") /\ loop' = [loop EXCEPT ![l] = new]
        /\ UNCHANGED <<disk, rows, keyOf, call, removed>>
    BY <1>3 DEF MarkUploading, server
  <2>2. k \in Keys /\ loop[l].todo \subseteq Keys
    BY <1>1, <2>1, LeastKey DEF LoopInv, Loop
  <2> HIDE DEF k
  <2>3. new \in Loop /\ new.op = "send" /\ new.key = k
    BY <2>2 DEF IdleLoop, Loop
  <2> HIDE DEF new
  <2>4. PICK j : j = k
    OBVIOUS
  <2>5. /\ outbox' \in [Keys -> Entry]
        /\ \A i \in Keys : outbox'[i].status = "SYNCED" => Kept(i)
    BY <2>1, <2>4, StatusKeepsOutbox
  <2>6. QED
    BY <2>1, <2>2, <2>3, <2>5, LoopStepKeepsInv
<1>4. ASSUME NEW c \in Calls, Post(l, c) PROVE FilesInv'
  BY <1>4, PostKeepsInv
<1>5. CASE NetworkFails(l)
  <2> DEFINE new == Unanswered(l)
  <2>1. /\ loop[l].op \in {"send", "wait"} /\ loop' = [loop EXCEPT ![l] = new]
        /\ UNCHANGED <<disk, rows, keyOf, call, removed, outbox>>
    BY <1>5 DEF NetworkFails, server
  <2>2. new \in Loop /\ new.op = "got" /\ new.reply = "failed" /\ new.key = loop[l].key
    BY <1>1 DEF Unanswered, Loop
  <2> HIDE DEF new
  <2>3. loop[l].key \in Keys
    BY <1>1, <2>1 DEF LoopInv
  <2>4. QED
    BY <1>1, <2>1, <2>2, <2>3, LoopStepKeepsInv
<1>6. CASE Settle(l)
  <2>1. PICK status : status = StatusFor(loop[l].reply)
    OBVIOUS
  <2>2. PICK k : k = loop[l].key
    OBVIOUS
  <2> DEFINE new == CASE status = "SYNCED"  -> [loop[l] EXCEPT !.op = "clear"]
                      [] status = "FAILED"  -> NextEntry(l)
                      [] status = "PENDING" -> IdleLoop
  <2>3. /\ loop[l].op = "got" /\ SetStatus(k, status) /\ loop' = [loop EXCEPT ![l] = new]
        /\ UNCHANGED <<disk, rows, keyOf, call, removed>>
    BY <1>6, <2>1, <2>2 DEF Settle, server
  <2>4. k \in Keys /\ loop[l].reply \in {"stored", "refused", "failed"}
    BY <1>1, <2>2, <2>3 DEF LoopInv, Loop
  <2>5. status \in {"PENDING", "SYNCED", "FAILED"} /\ (status = "SYNCED" => loop[l].reply = "stored")
    BY <2>1, <2>4 DEF StatusFor
  <2>6. status = "SYNCED" => Kept(k)
    BY <1>1, <2>2, <2>3, <2>5 DEF LoopInv
  <2>7. /\ outbox' \in [Keys -> Entry]
        /\ \A i \in Keys : outbox'[i].status = "SYNCED" => Kept(i)
    BY <2>3, <2>5, <2>6, StatusKeepsOutbox
  <2>8. /\ new \in Loop /\ new.op \in {"clear", "next", "idle"}
        /\ new.op = "next" => new.todo # {}
        /\ new.op = "clear" => new.key = k
    <3>1. CASE status = "SYNCED"
      <4>1. new = [loop[l] EXCEPT !.op = "clear"]
        BY <3>1
      <4> HIDE DEF new
      <4>2. QED
        BY <1>1, <2>2, <4>1 DEF Loop
    <3>2. CASE status = "FAILED"
      <4>1. new = NextEntry(l)
        BY <3>2
      <4> HIDE DEF new
      <4>2. QED
        BY <4>1, NextEntryIsLoop
    <3>3. CASE status = "PENDING"
      <4>1. new = IdleLoop
        BY <3>3
      <4> HIDE DEF new
      <4>2. QED
        BY <4>1, IdleLoopIsLoop
    <3>4. QED
      BY <2>5, <3>1, <3>2, <3>3
  <2> HIDE DEF new
  <2>9. QED
    BY <2>3, <2>4, <2>7, <2>8, LoopStepKeepsInv
<1>7. CASE ClearMutationBody(l)
  <2> DEFINE new == NextEntry(l)
  <2>1. /\ outbox' = [outbox EXCEPT ![loop[l].key].body = FALSE]
        /\ loop' = [loop EXCEPT ![l] = new]
        /\ UNCHANGED <<disk, rows, keyOf, call, removed>>
    BY <1>7 DEF ClearMutationBody, server
  <2>2. /\ new \in Loop /\ new.op \in {"idle", "next"}
        /\ new.op = "next" => new.todo # {}
    BY NextEntryIsLoop
  <2> HIDE DEF new
  <2>3. \A k \in Keys : outbox'[k] \in Entry /\ outbox'[k].status = outbox[k].status
    BY <1>1, <2>1 DEF Entry
  <2>4. outbox' \in [Keys -> Entry]
    <3>1. outbox' = [k \in Keys |-> outbox'[k]]
      BY <1>1, <2>1
    <3>2. QED
      BY <2>3, <3>1
  <2>5. QED
    BY <1>1, <2>1, <2>2, <2>3, <2>4, LoopStepKeepsInv
<1>8. CASE CloseApp(l)
  BY <1>1, <1>8, IdleLoopIsLoop, LoopStepKeepsInv DEF CloseApp, server
<1>9. QED
  BY <1>2, <1>3, <1>4, <1>5, <1>6, <1>7, <1>8 DEF Device

LEMMA QueueKeepsInv ==
    ASSUME FilesInv, NEW k \in Keys, QueueMediaUpload(k), indexed' = indexed
    PROVE  FilesInv'
<1>1. /\ outbox \in [Keys -> Entry]
      /\ outbox' = [outbox EXCEPT ![k] = [status |-> "PENDING", body |-> TRUE]]
      /\ UNCHANGED <<disk, rows, keyOf, call, removed, loop>>
  BY DEF QueueMediaUpload, server, FilesInv, QueueInv
<1>2. outbox' \in [Keys -> Entry]
  BY <1>1 DEF Entry
<1>3. \A j \in Keys : outbox'[j].status = "SYNCED" => outbox[j].status = "SYNCED"
  BY <1>1
<1>4. QED
  BY <1>1, <1>2, <1>3 DEF FilesInv, QueueInv, RowsInv, LoopInv, Kept, Stored

\* What is proved of the files and of the queue, of every reachable state.
THEOREM FilesInvariant == Spec => []FilesInv
<1>1. FilesInv /\ [Next]_<<indexed, vars>> => FilesInv'
  <2> SUFFICES ASSUME FilesInv, [Next]_<<indexed, vars>> PROVE FilesInv'
    OBVIOUS
  <2>1. CASE Next
    BY <2>1, QueueKeepsInv, DeviceKeepsInv, UploadKeepsInv, DeleteKeepsInv, CrashKeepsInv DEF Next
  <2>2. CASE UNCHANGED <<indexed, vars>>
    BY <2>2 DEF vars, FilesInv, RowsInv, QueueInv, LoopInv, Kept, Stored
  <2>3. QED
    BY <2>1, <2>2
<1>2. QED
  BY FilesInitInv, <1>1, PTL DEF Spec

\* Whatever uploads, deletions, faults and crashes interleave, a listed file is in the
\* directory (file_upload_handler.go, file_upload_service.go).
THEOREM RowsHaveFiles == Spec => []RowHasFile
<1>1. FilesInv => RowHasFile
  BY DEF FilesInv, RowsInv, QueueInv, RowHasFile, FilesTypeOK, NoRow, NewFile
<1>2. QED
  BY <1>1, FilesInvariant, PTL

\* An entry that the device counts as done was stored, and only the user took it away
\* again (media.ts with the handler).
THEOREM DoneIsStored == Spec => []SyncedIsStored
<1>1. FilesInv => RowHasFile
  BY DEF FilesInv, RowsInv, QueueInv, RowHasFile, FilesTypeOK, NoRow, NewFile
<1>2. FilesInv => SyncedIsStored
  BY <1>1 DEF FilesInv, QueueInv, SyncedIsStored, Kept
<1>3. QED
  BY <1>2, FilesInvariant, PTL
=============================================================================
