--------------------------- MODULE OfflineSession ---------------------------
(***************************************************************************)
(* Whose data a device holds: the account boundary of the offline client   *)
(* (session.ts, register.ts, db.ts) between the logins and logouts of      *)
(* several users in one browser, with the synchronisation that runs beside *)
(* them.  One page is open at a time; leaving it ends what runs in it.     *)
(*                                                                         *)
(* A queued change is its author, cached data the user it was sent to.     *)
(* The time of an authentication is the one at which its answer is noted,  *)
(* not the one at which the server gave it (session.ts, Date.now()).       *)
(* Left out: the PIN and its key derivation, which nothing else reads.     *)
(***************************************************************************)
EXTENDS Naturals

CONSTANTS
    Accounts,       \* the users of the device
    NoAccount,      \* no user
    OfflineWindow,  \* 48 hours in the code
    MaxWait         \* the longest an answer is under way until it is noted (a bound)

ASSUME OfflineAssumption ==
    /\ NoAccount \notin Accounts
    /\ OfflineWindow \in Nat \ {0}
    /\ MaxWait \in Nat

VARIABLES
    online,         \* whether the browser has a connection
    session,        \* whose session the server knows the browser's cookie as
    person,         \* who sits in front of the page
    device,         \* the stores: timestamp (its age), owner, outbox, cache
    work,           \* the synchronisation that runs in the page, and how long its
                    \* answer of /auth/me has been under way
    leaving,        \* the logout has wiped the stores and not yet left the page
    crossed,        \* history: a change reached the server under another's session
    confirmed,      \* history: how long ago the server confirmed a session
    clean           \* history: no data of a user was left, or stored, behind a logout

offlineVars == <<online, session, person, device, work, leaving, crossed, confirmed, clean>>

NoStamp == OfflineWindow

Wiped == [stamp |-> NoStamp, owner |-> NoAccount, outbox |-> {}, cache |-> {}]

IdleWork == [step |-> "idle", user |-> NoAccount, waited |-> 0]

LongAgo == OfflineWindow + MaxWait

\* The data on the device that belongs to others than u.
Foreign(u) == (device.outbox \cup device.cache \cup {device.owner}) \ {u, NoAccount}

\* 0 <= now - lastAuthenticatedAt < window.
isOfflineSessionValid == device.stamp < OfflineWindow

OfflineInit ==
    /\ online = TRUE
    /\ session = NoAccount
    /\ person = NoAccount
    /\ device = Wiped
    /\ work = IdleWork
    /\ leaving = FALSE
    /\ crossed = FALSE
    /\ confirmed = LongAgo
    /\ clean = TRUE

-----------------------------------------------------------------------------
(* Pages                                                                   *)

\* The form is sent, and another page loaded.  Nothing looks whose data is there.
Login(u) ==
    /\ online
    /\ session' = u
    /\ person' = u
    /\ work' = IdleWork
    /\ leaving' = FALSE
    /\ confirmed' = 0
    /\ clean' = (clean /\ Foreign(u) = {})
    /\ UNCHANGED <<online, device, crossed>>

\* Mutant: the outbox is kept for the next login.
clearSessionOnly == [Wiped EXCEPT !.outbox = device.outbox]

\* One transaction over all stores; the cursor in the metadata stays.
clearOfflineIdentity == Wiped

\* The logout: wipe first, then send the form.  A wipe that fails is logged, and the
\* form is sent all the same.
Wipe ==
    /\ person # NoAccount
    /\ ~leaving
    /\ leaving' = TRUE
    /\ \/ device' = clearOfflineIdentity /\ UNCHANGED clean
       \/ UNCHANGED device /\ clean' = (clean /\ Foreign(NoAccount) = {})
    /\ UNCHANGED <<online, session, person, work, crossed, confirmed>>

\* Offline the form does not reach the server, which keeps the session.
SubmitLogout ==
    /\ leaving
    /\ leaving' = FALSE
    /\ session' = IF online THEN NoAccount ELSE session
    /\ clean' = (clean /\ session' = NoAccount)
    /\ person' = NoAccount
    /\ work' = IdleWork
    /\ UNCHANGED <<online, device, crossed, confirmed>>

\* The server ends the session, the page is reloaded, or the connection changes.
Disturb ==
    /\ \/ session' = NoAccount /\ UNCHANGED <<online, work>>
       \/ work' = IdleWork /\ UNCHANGED <<online, session>>
       \/ online' = ~online /\ UNCHANGED <<session, work>>
    /\ UNCHANGED <<person, device, leaving, crossed, confirmed, clean>>

\* A change is queued by whoever uses the page, and shown from the cache.
saveOfflineMutation ==
    /\ person # NoAccount
    /\ device' = [device EXCEPT !.outbox = @ \cup {person}, !.cache = @ \cup {person}]
    /\ clean' = (clean /\ ~leaving)
    /\ UNCHANGED <<online, session, person, work, leaving, crossed, confirmed>>

Answered == work.step = "answered"

\* Hours pass, also between an answer of the server and the note of its time.
PassTime ==
    /\ Answered => work.waited < MaxWait
    /\ work' = IF Answered THEN [work EXCEPT !.waited = @ + 1] ELSE work
    /\ device' = [device EXCEPT !.stamp = IF @ < OfflineWindow THEN @ + 1 ELSE @]
    /\ confirmed' = IF confirmed < LongAgo THEN confirmed + 1 ELSE confirmed
    /\ UNCHANGED <<online, session, person, leaving, crossed, clean>>

-----------------------------------------------------------------------------
(* synchronizeOfflineChanges                                               *)

WorkGoesTo(step, user) == work' = [step |-> step, user |-> user, waited |-> 0]

\* What is stored behind the wipe of a logout stays there.
Store(new) ==
    /\ device' = new
    /\ clean' = (clean /\ ~leaving)
    /\ UNCHANGED <<online, session, person, leaving, crossed, confirmed>>

\* Mutant: a server that cannot be reached counts as one that agrees.
revalidateUnlessRefused ==
    /\ work = IdleWork
    /\ person # NoAccount
    /\ WorkGoesTo("answered", person)
    /\ confirmed' = IF online /\ session # NoAccount THEN 0 ELSE confirmed
    /\ UNCHANGED <<online, session, person, device, leaving, crossed, clean>>

\* GET /auth/me names the user, or refuses; then nothing is synchronised.
revalidateOnlineSession ==
    /\ work = IdleWork
    /\ online
    /\ session # NoAccount
    /\ WorkGoesTo("answered", session)
    /\ confirmed' = 0
    /\ UNCHANGED <<online, session, person, device, leaving, crossed, clean>>

\* Date.now(), however long ago the server answered.
setOfflineSessionLastAuthenticatedAt ==
    /\ Answered
    /\ Store([device EXCEPT !.stamp = 0])
    /\ WorkGoesTo("stamped", work.user)

setOfflineSessionOwner ==
    /\ work.step = "stamped"
    /\ Store([device EXCEPT !.owner = work.user])
    /\ WorkGoesTo("push", work.user)

\* Each entry is sent with the cookie, not with the user it was queued by.
SendMutation ==
    /\ work.step = "push"
    /\ online
    /\ session # NoAccount
    /\ \E author \in device.outbox :
        /\ crossed' = (crossed \/ author # session)
        /\ device' = [device EXCEPT !.outbox = @ \ {author}]
    /\ UNCHANGED <<online, session, person, work, leaving, confirmed, clean>>

\* Nothing is left to send, or the loop ends with an error; the pull follows.
PullRows ==
    /\ work.step = "push"
    /\ IF online /\ session # NoAccount THEN WorkGoesTo("store", session) ELSE work' = IdleWork
    /\ UNCHANGED <<online, session, person, device, leaving, crossed, confirmed, clean>>

StoreRows ==
    /\ work.step = "store"
    /\ Store([device EXCEPT !.cache = @ \cup {work.user}])
    /\ work' = IdleWork

OfflineNext ==
    \/ \E u \in Accounts : Login(u)
    \/ Wipe
    \/ SubmitLogout
    \/ Disturb
    \/ saveOfflineMutation
    \/ PassTime
    \/ revalidateOnlineSession
    \/ setOfflineSessionLastAuthenticatedAt
    \/ setOfflineSessionOwner
    \/ SendMutation
    \/ PullRows
    \/ StoreRows

OfflineSpec == OfflineInit /\ [][OfflineNext]_offlineVars

-----------------------------------------------------------------------------

\* "Another account on the same device can never reach them": as long as every user
\* leaves by a logout that reaches the server, whose wipe succeeds, and behind which
\* nothing is stored, the device holds data of nobody but the person in front of it,
\* and no change reaches the server under another session than its author's, whatever
\* was under way when the pages changed.
AccountBoundary ==
    clean =>
        /\ Foreign(person) = {}
        /\ ~crossed

\* "Called exclusively after a server-validated success": the device is usable
\* offline only within the window after an answer of the server was noted, that is,
\* for no longer after the server confirmed a session than the window and the time
\* that answer was under way.
WindowIsEarned == isOfflineSessionValid => confirmed < OfflineWindow + MaxWait
=============================================================================
