------------------------------ MODULE Accounts ------------------------------
(***************************************************************************)
(* One account as its owner and an administrator use it: AuthService.Login *)
(* with its lockout, SessionService, the password reset and the account    *)
(* reactivation by one-time code, and the administrator's changes.         *)
(*                                                                         *)
(* Accounts do not interact here, so one is enough.  Every statement       *)
(* commits on its own; a request reads the account or the code first and   *)
(* writes afterwards what it computed then.                                *)
(***************************************************************************)
EXTENDS Naturals

CONSTANTS
    Passwords,      \* the passwords ever chosen; every change picks a new one
    FirstPassword,  \* the one the account starts with
    Sessions,       \* the sessions that can be created
    Codes,          \* the one-time codes that can be mailed
    Calls,          \* the requests the server may be running at once
    MaxAttempts,    \* maxFailedLoginAttempts
    MaxWrong,       \* bound on wrong passwords
    LockTime,       \* lockoutDuration, in ticks
    CodeLife,       \* the ten minutes of a code, in ticks
    SessionLife,    \* sessionDuration, in ticks
    MaxTime,        \* bound on the clock
    Faults,         \* statements may fail
    None            \* no password, session or code

ASSUME AccountsAssumption ==
    /\ FirstPassword \in Passwords
    /\ None \notin Passwords \cup Sessions \cup Codes
    /\ {"none", "refused"} \cap Codes = {}
    /\ {MaxAttempts, LockTime, CodeLife, SessionLife} \subseteq Nat \ {0}
    /\ {MaxWrong, MaxTime} \subseteq Nat
    /\ Faults \in BOOLEAN

VARIABLES
    account,        \* the row of "users"
    sessions,       \* the rows of "sessions"
    codes,          \* the rows of "password_reset_tokens" and "account_activation_tokens"
    call,           \* what each running request will write next
    now,            \* the clock
    wrong,          \* history: wrong passwords so far
    orderly,        \* history: requests that write have come one after the
                    \* other, and none of their statements has failed
    resets          \* history: what each reset to a password was answered (the
                    \* code if it was accepted), and the passwords that the
                    \* accepted ones replaced

vars == <<account, sessions, codes, call, now, wrong, orderly, resets>>

-----------------------------------------------------------------------------

Statuses == {"Active", "Disabled", "Locked"}

Never == 0

Time == 0 .. MaxTime + LockTime + CodeLife + SessionLife

AccountRow == [status      : Statuses,
               attempts    : Nat,
               lockedUntil : Time,
               password    : Passwords]

\* "password" is a history column: the one the session was granted for.
SessionRow == [state    : {"none", "live", "revoked"},
               expires  : Time,
               password : Passwords \cup {None}]

CodeRow == [kind    : {"reset", "activation"},
            state   : {"none", "sent", "verified", "used", "gone"},
            expires : Time]

CallOps == {"idle", "count", "clear", "session", "setPassword", "revoke", "consume",
            "change", "setStatus", "activate", "spend", "save"}

Call == [op       : CallOps,
         row      : AccountRow,
         code     : Codes \cup {None},
         password : Passwords,
         replaced : Passwords \cup {None}]

FirstRow == [status |-> "Active", attempts |-> 0, lockedUntil |-> Never,
             password |-> FirstPassword]

IdleCall == [op |-> "idle", row |-> FirstRow, code |-> None,
             password |-> FirstPassword, replaced |-> None]

\* Every row and every request has its type; a request that works with a code
\* was let in by a verified one, and live sessions have a password.
AccountsTypeOK ==
    /\ account \in AccountRow
    /\ sessions \in [Sessions -> SessionRow]
    /\ codes \in [Codes -> CodeRow]
    /\ call \in [Calls -> Call]
    /\ now \in 0 .. MaxTime
    /\ wrong \in 0 .. MaxWrong
    /\ orderly \in BOOLEAN
    /\ resets \in [answer : [Passwords -> {"none", "refused"} \cup Codes],
                   replaced : SUBSET Passwords]
    /\ \A c \in Calls : call[c].op \in {"setPassword", "revoke", "consume", "activate", "spend"}
          => call[c].code \in Codes /\ codes[call[c].code].state \in {"verified", "used", "gone"}
    /\ \A s \in Sessions : sessions[s].state = "live" => sessions[s].password \in Passwords

Init ==
    /\ account = FirstRow
    /\ sessions = [s \in Sessions |-> [state |-> "none", expires |-> 0, password |-> None]]
    /\ codes = [k \in Codes |-> [kind |-> "reset", state |-> "none", expires |-> 0]]
    /\ call = [c \in Calls |-> IdleCall]
    /\ now = 0
    /\ wrong = 0
    /\ orderly = TRUE
    /\ resets = [answer |-> [p \in Passwords |-> "none"], replaced |-> {}]

-----------------------------------------------------------------------------

Idle(c) == call[c].op = "idle"

Goes(c, r) == call' = [call EXCEPT ![c] = r]

Ends(c) == Goes(c, IdleCall)

\* A request starts; it has read and checked what it needs.
Starts(c, r) ==
    /\ orderly' = (orderly /\ \A d \in Calls : Idle(d))
    /\ Goes(c, r)

\* A password nobody has chosen yet.
Fresh(p) ==
    /\ p # FirstPassword
    /\ p # account.password
    /\ p \notin resets.replaced
    /\ resets.answer[p] = "none"
    /\ \A c \in Calls : p \notin {call[c].password, call[c].row.password}
    /\ \A s \in Sessions : sessions[s].password # p

-----------------------------------------------------------------------------
(* Login.                                                                  *)

\* User.IsLocked.
IsLocked == account.lockedUntil # Never /\ now < account.lockedUntil

\* Neither locked nor disabled: Login goes on to the password.
AdmitsLogin == ~IsLocked /\ account.status = "Active"

\* Mutant: the account is locked one wrong password too early.
AfterWrongEarly(row) ==
    IF row.attempts + 2 >= MaxAttempts
    THEN [row EXCEPT !.attempts = @ + 1, !.lockedUntil = now + LockTime, !.status = "Locked"]
    ELSE [row EXCEPT !.attempts = @ + 1]

\* The three columns after a wrong password.
AfterWrong(row) ==
    IF row.attempts + 1 >= MaxAttempts
    THEN [row EXCEPT !.attempts = @ + 1, !.lockedUntil = now + LockTime, !.status = "Locked"]
    ELSE [row EXCEPT !.attempts = @ + 1]

LoginWrong(c) ==
    /\ Idle(c)
    /\ AdmitsLogin
    /\ wrong < MaxWrong
    /\ wrong' = wrong + 1
    /\ Starts(c, [IdleCall EXCEPT !.op = "count", !.row = AfterWrong(account)])
    /\ UNCHANGED <<account, sessions, codes, now, resets>>

\* Bound: a login needs a session that can still be created.
LoginRight(c) ==
    /\ Idle(c)
    /\ AdmitsLogin
    /\ \E s \in Sessions : sessions[s].state = "none"
    /\ Starts(c, [IdleCall EXCEPT !.op = "clear", !.password = account.password,
                    !.row = [account EXCEPT !.attempts = 0, !.lockedUntil = Never]])
    /\ UNCHANGED <<account, sessions, codes, now, wrong, resets>>

\* UpdateLoginAttempts writes the counter, the lock and the status of the row
\* as Login read it.
UpdateLoginAttempts(c) ==
    /\ call[c].op \in {"count", "clear"}
    /\ account' = [call[c].row EXCEPT !.password = account.password]
    /\ IF call[c].op = "clear" THEN call' = [call EXCEPT ![c].op = "session"] ELSE Ends(c)
    /\ UNCHANGED <<sessions, codes, now, wrong, orderly, resets>>

\* Its failure is logged and ignored.
AttemptsNotPersisted(c) ==
    /\ Faults
    /\ call[c].op \in {"count", "clear"}
    /\ IF call[c].op = "clear" THEN call' = [call EXCEPT ![c].op = "session"] ELSE Ends(c)
    /\ orderly' = FALSE
    /\ UNCHANGED <<account, sessions, codes, now, wrong, resets>>

CreateSession(c) ==
    /\ call[c].op = "session"
    /\ \E s \in Sessions :
        /\ sessions[s].state = "none"
        /\ sessions' = [sessions EXCEPT ![s] =
               [state |-> "live", expires |-> now + SessionLife, password |-> call[c].password]]
    /\ Ends(c)
    /\ UNCHANGED <<account, codes, now, wrong, orderly, resets>>

Logout(c, s) ==
    /\ Idle(c)
    /\ sessions[s].state = "live"
    /\ sessions' = [sessions EXCEPT ![s].state = "revoked"]
    /\ UNCHANGED <<account, codes, call, now, wrong, orderly, resets>>

\* ValidateSession accepts it.
Valid(s) ==
    /\ sessions[s].state = "live"
    /\ now < sessions[s].expires
    /\ account.status = "Active"

-----------------------------------------------------------------------------
(* The one-time codes.                                                     *)

\* A new code is stored and mailed; the expired ones of its kind are deleted.
Send(k, kind) ==
    codes' = [j \in Codes |->
        IF j = k THEN [kind |-> kind, state |-> "sent", expires |-> now + CodeLife]
        ELSE IF codes[j].state # "none" /\ codes[j].kind = kind /\ codes[j].expires <= now
             THEN [codes[j] EXCEPT !.state = "gone"]
             ELSE codes[j]]

\* These requests are over with one write.
ForgotPassword(c, k) ==
    /\ Idle(c)
    /\ codes[k].state = "none"
    /\ Send(k, "reset")
    /\ UNCHANGED <<account, sessions, call, now, wrong, orderly, resets>>

RequestActivation(c, k) ==
    /\ Idle(c)
    /\ account.status # "Active"
    /\ codes[k].state = "none"
    /\ Send(k, "activation")
    /\ UNCHANGED <<account, sessions, call, now, wrong, orderly, resets>>

Verify(c, k) ==
    /\ Idle(c)
    /\ codes[k].state = "sent"
    /\ now < codes[k].expires
    /\ codes' = [codes EXCEPT ![k].state = "verified"]
    /\ UNCHANGED <<account, sessions, call, now, wrong, orderly, resets>>

\* Mutant: a code need not have been verified.
VerifiedOrSent(k, kind) ==
    /\ codes[k].kind = kind
    /\ codes[k].state \in {"sent", "verified"}
    /\ now < codes[k].expires

\* GetVerifiedOTP finds it.
Verified(k, kind) ==
    /\ codes[k].kind = kind
    /\ codes[k].state = "verified"
    /\ now < codes[k].expires

ResetPassword(c, k, p) ==
    /\ Idle(c)
    /\ Verified(k, "reset")
    /\ Fresh(p)
    /\ Starts(c, [IdleCall EXCEPT !.op = "setPassword", !.code = k, !.password = p])
    /\ UNCHANGED <<account, sessions, codes, now, wrong, resets>>

\* Mutant: a reset makes the account usable, whatever its status.
WritePasswordUnlocking(c) ==
    /\ call[c].op = "setPassword"
    /\ account' = [account EXCEPT !.password = call[c].password, !.status = "Active"]
    /\ call' = [call EXCEPT ![c].op = "revoke", ![c].replaced = account.password]
    /\ UNCHANGED <<sessions, codes, now, wrong, orderly, resets>>

WritePassword(c) ==
    /\ call[c].op = "setPassword"
    /\ account' = [account EXCEPT !.password = call[c].password]
    /\ call' = [call EXCEPT ![c].op = "revoke", ![c].replaced = account.password]
    /\ UNCHANGED <<sessions, codes, now, wrong, orderly, resets>>

\* Mutant: sessions survive the reset.
RevokeNone(c) ==
    /\ call[c].op = "revoke"
    /\ call' = [call EXCEPT ![c].op = "consume"]
    /\ UNCHANGED <<account, sessions, codes, now, wrong, orderly, resets>>

RevokeAll(c) ==
    /\ call[c].op = "revoke"
    /\ sessions' = [s \in Sessions |->
           IF sessions[s].state = "live" THEN [sessions[s] EXCEPT !.state = "revoked"]
                                         ELSE sessions[s]]
    /\ call' = [call EXCEPT ![c].op = "consume"]
    /\ UNCHANGED <<account, codes, now, wrong, orderly, resets>>

Answered(c, accepted) ==
    resets' = [answer   |-> [resets.answer EXCEPT ![call[c].password] =
                                 IF accepted THEN call[c].code ELSE "refused"],
               replaced |-> IF accepted THEN resets.replaced \cup {call[c].replaced}
                                        ELSE resets.replaced]

\* The WHERE clause of ConsumeOTP.
Usable(k) == codes[k].state = "verified"

\* ConsumeOTP and the answer: an error if no usable code is left.
ConsumeReset(c) ==
    /\ call[c].op = "consume"
    /\ LET k == call[c].code IN
        /\ codes' = IF Usable(k) THEN [codes EXCEPT ![k].state = "used"] ELSE codes
        /\ Answered(c, Usable(k))
    /\ Ends(c)
    /\ UNCHANGED <<account, sessions, now, wrong, orderly>>

ReactivateAccount(c, k) ==
    /\ Idle(c)
    /\ Verified(k, "activation")
    /\ Starts(c, [IdleCall EXCEPT !.op = "activate", !.code = k])
    /\ UNCHANGED <<account, sessions, codes, now, wrong, resets>>

\* UpdateStatus.
Reactivate(c) ==
    /\ call[c].op = "activate"
    /\ account' = [account EXCEPT !.status = "Active"]
    /\ call' = [call EXCEPT ![c].op = "spend"]
    /\ UNCHANGED <<sessions, codes, now, wrong, orderly, resets>>

\* ConsumeOTP of the activation code.
ConsumeActivation(c) ==
    /\ call[c].op = "spend"
    /\ LET k == call[c].code IN
        codes' = IF Usable(k) THEN [codes EXCEPT ![k].state = "used"] ELSE codes
    /\ Ends(c)
    /\ UNCHANGED <<account, sessions, now, wrong, orderly, resets>>

-----------------------------------------------------------------------------
(* Changes by an administrator, and by the owner when logged in.           *)

\* UserService.ResetPassword and ChangeOwnPassword: the password alone.
ChangePassword(c, p) ==
    /\ Idle(c)
    /\ Fresh(p)
    /\ Starts(c, [IdleCall EXCEPT !.op = "change", !.password = p])
    /\ UNCHANGED <<account, sessions, codes, now, wrong, resets>>

StorePassword(c) ==
    /\ call[c].op = "change"
    /\ account' = [account EXCEPT !.password = call[c].password]
    /\ Ends(c)
    /\ UNCHANGED <<sessions, codes, now, wrong, orderly, resets>>

\* UpdateUserStatus: the status alone; the lock and the counter stay.
SetStatus(c, status) ==
    /\ Idle(c)
    /\ Starts(c, [IdleCall EXCEPT !.op = "setStatus", !.row.status = status])
    /\ UNCHANGED <<account, sessions, codes, now, wrong, resets>>

StoreStatus(c) ==
    /\ call[c].op = "setStatus"
    /\ account' = [account EXCEPT !.status = call[c].row.status]
    /\ Ends(c)
    /\ UNCHANGED <<sessions, codes, now, wrong, orderly, resets>>

\* UpdateOwnProfile by a logged-in owner: it changes the names ...
UpdateOwnProfile(c) ==
    /\ Idle(c)
    /\ \E s \in Sessions : Valid(s)
    /\ Starts(c, [IdleCall EXCEPT !.op = "save", !.row = account])
    /\ UNCHANGED <<account, sessions, codes, now, wrong, resets>>

\* ... and saves the whole row as it was read.
SaveUser(c) ==
    /\ call[c].op = "save"
    /\ account' = call[c].row
    /\ Ends(c)
    /\ UNCHANGED <<sessions, codes, now, wrong, orderly, resets>>

\* A statement fails: what the request has written so far stays.
FailCall(c) ==
    /\ Faults
    /\ call[c].op \notin {"idle", "count", "clear"}
    /\ Ends(c)
    /\ orderly' = FALSE
    /\ UNCHANGED <<account, sessions, codes, now, wrong, resets>>

Tick ==
    /\ now < MaxTime
    /\ now' = now + 1
    /\ UNCHANGED <<account, sessions, codes, call, wrong, orderly, resets>>

Login(c) ==
    \/ LoginWrong(c)
    \/ LoginRight(c)
    \/ UpdateLoginAttempts(c)
    \/ AttemptsNotPersisted(c)
    \/ CreateSession(c)
    \/ \E s \in Sessions : Logout(c, s)

Recovery(c) ==
    \/ \E k \in Codes, p \in Passwords : ResetPassword(c, k, p)
    \/ WritePassword(c)
    \/ RevokeAll(c)
    \/ ConsumeReset(c)
    \/ \E k \in Codes : ReactivateAccount(c, k)
    \/ Reactivate(c)
    \/ ConsumeActivation(c)
    \/ \E k \in Codes : ForgotPassword(c, k) \/ RequestActivation(c, k) \/ Verify(c, k)

Administration(c) ==
    \/ \E p \in Passwords : ChangePassword(c, p)
    \/ StorePassword(c)
    \/ \E status \in Statuses : SetStatus(c, status)
    \/ StoreStatus(c)
    \/ UpdateOwnProfile(c)
    \/ SaveUser(c)

Next ==
    \/ \E c \in Calls : Login(c) \/ Recovery(c) \/ Administration(c) \/ FailCall(c)
    \/ Tick

Spec == Init /\ [][Next]_vars

-----------------------------------------------------------------------------
(* What stays true however the requests overlap.                           *)

\* However logins overlap, an account is only locked after MaxAttempts wrong
\* passwords: lost updates of the counter are in the user's favour.
LockedAfterWrongPasswords == account.lockedUntil # Never => wrong >= MaxAttempts

\* "Consumed OTP cannot be replayed": of all resets that one code let in, one
\* at most is answered with success.
CodeServesOneReset ==
    \A p, q \in Passwords : resets.answer[p] \in Codes /\ resets.answer[p] = resets.answer[q]
                           => p = q

-----------------------------------------------------------------------------
(* What holds as long as requests come one after the other and no          *)
(* statement fails.                                                        *)

\* "Old password no longer works" and "password reset must revoke existing
\* sessions": a password that a successful reset replaced opens no login and no
\* session any more; and its code served no other reset, orderly or not.
ResetReplacesPassword ==
    /\ CodeServesOneReset
    /\ orderly =>
         /\ account.password \notin resets.replaced
         /\ \A s \in Sessions : Valid(s) => sessions[s].password \notin resets.replaced

\* A disabled account is enabled by an administrator or with an activation
\* code, by nothing its owner does.
DisabledStaysDisabled ==
    [][orderly' /\ account.status = "Disabled" /\ account'.status = "Active"
         => \E c \in Calls : call[c].op \in {"setStatus", "activate"} /\ call'[c] # call[c]]_vars
=============================================================================
