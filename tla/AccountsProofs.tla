--------------------------- MODULE AccountsProofs ---------------------------
(***************************************************************************)
(* Theorems about one account (Accounts), for any number of passwords,     *)
(* sessions, codes and overlapping requests.                               *)
(*                                                                         *)
(* What a request holds was true when it was read.  Counters and locks in  *)
(* a row that is held are bounded by the wrong passwords so far, which     *)
(* only grow; a code that served a reset never becomes usable again.  What *)
(* is said of passwords and the status needs requests that do not overlap: *)
(* then the row is still as the one request at work has read it.           *)
(***************************************************************************)
EXTENDS Accounts, TLAPS

\* Only wrong passwords count, and only MaxAttempts of them lock.
RowFits(row) ==
    /\ row.attempts <= wrong
    /\ row.lockedUntil # Never => wrong >= MaxAttempts

\* A request holds a row that fits, the code that let it in, and the password it replaced.
CallFits(x) ==
    /\ RowFits(x.row)
    /\ x.op \in {"setPassword", "revoke", "consume", "activate", "spend"}
         => x.code \in Codes /\ codes[x.code].state \in {"verified", "used", "gone"}
    /\ x.op \in {"revoke", "consume"} => x.replaced \in Passwords

\* The codes of accepted resets are not usable any more.
ResetsInv ==
    /\ \A p \in Passwords : resets.answer[p] \in Codes =>
            codes[resets.answer[p]].state \in {"used", "gone"}
    /\ CodeServesOneReset

\* No replaced password opens anything.
PasswordsInOrder ==
    /\ account.password \notin resets.replaced
    /\ \A s \in Sessions : sessions[s].state = "live" => sessions[s].password \notin resets.replaced

\* What a request that nothing has disturbed relies on.
CallInOrder(x) ==
    /\ x.op \in {"count", "clear"} => account.status = "Active"
    /\ x.op = "save" => x.row = account
    /\ x.op \in {"clear", "session", "setPassword", "change"} => x.password \notin resets.replaced
    /\ x.op = "setPassword" => x.password # account.password
    /\ x.op \in {"revoke", "consume"} => /\ x.password = account.password
                                         /\ x.replaced # account.password
    /\ x.op = "consume" => \A s \in Sessions : sessions[s].state # "live"

AccountsInv ==
    /\ AccountsTypeOK
    /\ RowFits(account)
    /\ \A c \in Calls : CallFits(call[c])
    /\ ResetsInv
    /\ orderly =>
        /\ PasswordsInOrder
        /\ \A c, d \in Calls : Idle(c) \/ Idle(d) \/ c = d
        /\ \A c \in Calls : CallInOrder(call[c])

-----------------------------------------------------------------------------
(* Codes age, requests and rows have their types                           *)

ResetsType == [answer : [Passwords -> {"none", "refused"} \cup Codes],
               replaced : SUBSET Passwords]

\* A code that was verified stays so until it is used or gone, and these stay.
CodesAge ==
    \A k \in Codes :
        /\ codes[k].state \in {"verified", "used", "gone"} =>
               codes'[k].state \in {"verified", "used", "gone"}
        /\ codes[k].state \in {"used", "gone"} => codes'[k].state \in {"used", "gone"}

LEMMA SmallNumbers ==
    /\ MaxAttempts \in Nat /\ MaxAttempts # 0
    /\ LockTime \in Nat /\ CodeLife \in Nat /\ SessionLife \in Nat
    /\ MaxWrong \in Nat /\ MaxTime \in Nat
BY AccountsAssumption

\* A deadline set now is a time.
LEMMA Deadlines ==
    ASSUME NEW t \in 0 .. MaxTime
    PROVE  /\ t + LockTime \in Time
           /\ t + CodeLife \in Time
           /\ t + SessionLife \in Time
BY SmallNumbers DEF Time

LEMMA IdleCallIsCall ==
    /\ FirstRow \in AccountRow /\ FirstRow.attempts = 0 /\ FirstRow.lockedUntil = Never
    /\ FirstRow.status = "Active" /\ FirstRow.password = FirstPassword
    /\ IdleCall \in Call /\ IdleCall.op = "idle" /\ IdleCall.row = FirstRow
    /\ IdleCall.password = FirstPassword
<1>1. Never \in Time
  BY SmallNumbers DEF Never, Time
<1>2. FirstRow \in AccountRow
  BY <1>1, AccountsAssumption DEF FirstRow, AccountRow, Statuses
<1>3. IdleCall \in Call
  BY <1>2, AccountsAssumption DEF IdleCall, Call, CallOps
<1>4. QED
  BY <1>2, <1>3 DEF FirstRow, IdleCall

\* An idle request asks for nothing.
LEMMA IdleCallFits ==
    ASSUME wrong \in Nat
    PROVE  CallFits(IdleCall) /\ CallInOrder(IdleCall)
BY IdleCallIsCall DEF CallFits, CallInOrder, RowFits

-----------------------------------------------------------------------------
(* A step of a request, and a step of none                                 *)

\* A request moves on: what it writes and what it holds then is in order.
LEMMA StepKeepsInv ==
    ASSUME AccountsInv,
           NEW c \in Calls, NEW r \in Call, Goes(c, r),
           account' \in AccountRow,
           sessions' \in [Sessions -> SessionRow],
           \A s \in Sessions : sessions'[s].state = "live" => sessions'[s].password \in Passwords,
           codes' \in [Codes -> CodeRow],
           CodesAge,
           now' \in 0 .. MaxTime,
           wrong' \in 0 .. MaxWrong,
           wrong <= wrong',
           orderly' \in BOOLEAN,
           resets' \in ResetsType,
           RowFits(account)',
           CallFits(r)',
           ResetsInv',
           orderly' => /\ \A d \in Calls : d # c => Idle(d)
                       /\ PasswordsInOrder'
                       /\ CallInOrder(r)'
    PROVE  AccountsInv'
<1> USE DEF AccountsInv
<1>1. call' \in [Calls -> Call]
  BY DEF Goes, AccountsTypeOK
<1>2. \A d \in Calls : call'[d] = IF d = c THEN r ELSE call[d]
  BY DEF Goes, AccountsTypeOK
<1>3. \A d \in Calls : call[d] \in Call /\ call[d].row \in AccountRow
  BY DEF AccountsTypeOK, Call
<1>4. wrong \in Nat /\ wrong' \in Nat
  BY SmallNumbers DEF AccountsTypeOK
<1>5. ASSUME NEW d \in Calls PROVE CallFits(call[d])'
  <2>1. CASE d = c
    BY <2>1, <1>2
  <2>2. CASE d # c
    <3>1. call'[d] = call[d]
      BY <2>2, <1>2
    <3>2. CallFits(call[d])
      OBVIOUS
    <3>3. call[d].row.attempts \in Nat
      BY <1>3 DEF AccountRow
    <3>4. RowFits(call[d].row)'
      <4>1. RowFits(call[d].row)
        BY <3>2 DEF CallFits
      <4>2. QED
        BY <4>1, <3>1, <3>3, <1>4, SmallNumbers DEF RowFits
    <3>5. QED
      BY <3>1, <3>2, <3>4 DEF CallFits, CodesAge
  <2>3. QED
    BY <2>1, <2>2
<1>6. AccountsTypeOK'
  <2>1. \A d \in Calls : call'[d].op \in {"setPassword", "revoke", "consume", "activate", "spend"}
          => /\ call'[d].code \in Codes
             /\ codes'[call'[d].code].state \in {"verified", "used", "gone"}
    BY <1>5 DEF CallFits
  <2>2. QED
    BY <1>1, <2>1 DEF AccountsTypeOK, ResetsType
<1>7. ASSUME orderly'
      PROVE  /\ \A d, e \in Calls : Idle(d)' \/ Idle(e)' \/ d = e
             /\ \A d \in Calls : CallInOrder(call[d])'
  <2>1. \A d \in Calls : d # c => call'[d].op = "idle"
    BY <1>7, <1>2 DEF Idle
  <2>2. CallInOrder(r)'
    BY <1>7
  <2>3. ASSUME NEW d \in Calls PROVE CallInOrder(call[d])'
    <3>1. CASE d = c
      BY <3>1, <1>2, <2>2
    <3>2. CASE d # c
      BY <3>2, <2>1 DEF CallInOrder
    <3>3. QED
      BY <3>1, <3>2
  <2>4. QED
    BY <2>1, <2>3 DEF Idle
<1>8. QED
  BY <1>5, <1>6, <1>7

\* No request moves: sessions end, codes age, the clock goes on.
LEMMA QuietKeepsInv ==
    ASSUME AccountsInv,
           UNCHANGED <<account, call, wrong, orderly, resets>>,
           sessions' \in [Sessions -> SessionRow],
           \A s \in Sessions : sessions'[s].state = "live" =>
               sessions[s].state = "live" /\ sessions'[s].password = sessions[s].password,
           codes' \in [Codes -> CodeRow],
           CodesAge,
           now' \in 0 .. MaxTime
    PROVE  AccountsInv'
<1> USE DEF AccountsInv
<1>1. ASSUME NEW d \in Calls PROVE CallFits(call[d])'
  <2>1. CallFits(call[d])
    OBVIOUS
  <2>2. QED
    BY <2>1 DEF CallFits, RowFits, CodesAge
<1>2. AccountsTypeOK'
  <2>1. \A d \in Calls : call'[d].op \in {"setPassword", "revoke", "consume", "activate", "spend"}
          => /\ call'[d].code \in Codes
             /\ codes'[call'[d].code].state \in {"verified", "used", "gone"}
    BY <1>1 DEF CallFits
  <2>2. QED
    BY <2>1 DEF AccountsTypeOK
<1>3. RowFits(account)'
  BY DEF RowFits
<1>4. ResetsInv'
  <2>1. \A p \in Passwords : resets.answer[p] \in Codes =>
            codes'[resets.answer[p]].state \in {"used", "gone"}
    BY DEF ResetsInv, CodesAge
  <2>2. CodeServesOneReset'
    BY DEF ResetsInv, CodeServesOneReset
  <2>3. QED
    BY <2>1, <2>2 DEF ResetsInv
<1>5. ASSUME orderly' PROVE PasswordsInOrder'
  BY <1>5 DEF PasswordsInOrder
<1>6. ASSUME orderly', NEW d \in Calls PROVE CallInOrder(call[d])'
  <2>1. CallInOrder(call[d])
    BY <1>6
  <2>2. QED
    BY <2>1 DEF CallInOrder
<1>7. orderly' => \A c, d \in Calls : Idle(c)' \/ Idle(d)' \/ c = d
  BY DEF Idle
<1>8. QED
  BY <1>1, <1>2, <1>3, <1>4, <1>5, <1>6, <1>7

LEMMA NothingAges == ASSUME UNCHANGED codes PROVE CodesAge
BY DEF CodesAge

\* A request starts, with what it read.
LEMMA StartKeepsInv ==
    ASSUME AccountsInv,
           NEW c \in Calls, NEW r \in Call, Starts(c, r),
           UNCHANGED <<account, sessions, codes, now, resets>>,
           wrong' \in 0 .. MaxWrong,
           wrong <= wrong',
           CallFits(r)',
           orderly => CallInOrder(r)
    PROVE  AccountsInv'
<1> USE DEF AccountsInv
<1>1. /\ Goes(c, r)
      /\ orderly' \in BOOLEAN
      /\ orderly' => orderly /\ \A d \in Calls : Idle(d)
  BY DEF Starts, AccountsTypeOK
<1>2. wrong \in Nat /\ wrong' \in Nat /\ account.attempts \in Nat
  BY SmallNumbers DEF AccountsTypeOK, AccountRow
<1>3. RowFits(account)'
  <2>1. RowFits(account)
    OBVIOUS
  <2>2. QED
    BY <2>1, <1>2, SmallNumbers DEF RowFits
<1>4. ResetsInv'
  BY DEF ResetsInv, CodeServesOneReset
<1>5. ASSUME orderly' PROVE PasswordsInOrder' /\ CallInOrder(r)'
  <2>1. PasswordsInOrder /\ CallInOrder(r)
    BY <1>1, <1>5
  <2>2. QED
    BY <2>1 DEF PasswordsInOrder, CallInOrder
<1>6. /\ account' \in AccountRow
      /\ sessions' \in [Sessions -> SessionRow]
      /\ \A s \in Sessions : sessions'[s].state = "live" => sessions'[s].password \in Passwords
      /\ codes' \in [Codes -> CodeRow]
      /\ now' \in 0 .. MaxTime
      /\ resets' \in ResetsType
  BY DEF AccountsTypeOK, ResetsType
<1> HIDE DEF AccountsInv
<1>7. QED
  BY <1>1, <1>3, <1>4, <1>5, <1>6, NothingAges, StepKeepsInv

\* A request writes to the account's row and moves on.
LEMMA WriteKeepsInv ==
    ASSUME AccountsInv,
           NEW c \in Calls, NEW r \in Call, Goes(c, r), ~Idle(c),
           account' \in AccountRow,
           UNCHANGED <<sessions, codes, now, wrong, orderly, resets>>,
           RowFits(account'),
           CallFits(r),
           orderly => /\ account'.password \notin resets.replaced
                      /\ CallInOrder(r)'
    PROVE  AccountsInv'
<1> USE DEF AccountsInv
<1>1. RowFits(account)' /\ CallFits(r)'
  BY DEF RowFits, CallFits
<1>2. ResetsInv'
  BY DEF ResetsInv, CodeServesOneReset
<1>3. ASSUME orderly'
      PROVE  /\ orderly
             /\ \A d \in Calls : d # c => Idle(d)
             /\ PasswordsInOrder'
             /\ CallInOrder(r)'
  <2>1. orderly /\ PasswordsInOrder
    BY <1>3
  <2>2. PasswordsInOrder'
    BY <2>1 DEF PasswordsInOrder
  <2>3. QED
    BY <2>1, <2>2
<1>4. /\ sessions' \in [Sessions -> SessionRow]
      /\ \A s \in Sessions : sessions'[s].state = "live" => sessions'[s].password \in Passwords
      /\ codes' \in [Codes -> CodeRow]
      /\ now' \in 0 .. MaxTime
      /\ wrong' \in 0 .. MaxWrong
      /\ wrong <= wrong'
      /\ orderly' \in BOOLEAN
      /\ resets' \in ResetsType
  <2>1. wrong \in 0 .. MaxWrong /\ wrong <= wrong
    BY SmallNumbers DEF AccountsTypeOK
  <2>2. QED
    BY <2>1 DEF AccountsTypeOK, ResetsType
<1> HIDE DEF AccountsInv
<1>5. QED
  BY <1>1, <1>2, <1>3, <1>4, NothingAges, StepKeepsInv

\* A statement fails; what was written stays.
LEMMA FailureKeepsInv ==
    ASSUME AccountsInv,
           NEW c \in Calls, NEW r \in Call, Goes(c, r), CallFits(r),
           orderly' = FALSE,
           UNCHANGED <<account, sessions, codes, now, wrong, resets>>
    PROVE  AccountsInv'
<1> USE DEF AccountsInv
<1>1. RowFits(account)' /\ CallFits(r)'
  BY DEF RowFits, CallFits
<1>2. ResetsInv'
  BY DEF ResetsInv, CodeServesOneReset
<1>3. /\ account' \in AccountRow
      /\ sessions' \in [Sessions -> SessionRow]
      /\ \A s \in Sessions : sessions'[s].state = "live" => sessions'[s].password \in Passwords
      /\ codes' \in [Codes -> CodeRow]
      /\ now' \in 0 .. MaxTime
      /\ wrong' \in 0 .. MaxWrong
      /\ wrong <= wrong'
      /\ orderly' \in BOOLEAN
      /\ resets' \in ResetsType
  <2>1. wrong \in 0 .. MaxWrong /\ wrong <= wrong
    BY SmallNumbers DEF AccountsTypeOK
  <2>2. QED
    BY <2>1 DEF AccountsTypeOK, ResetsType
<1> HIDE DEF AccountsInv
<1>4. QED
  BY <1>1, <1>2, <1>3, NothingAges, StepKeepsInv

\* What the invariant says of a request at work.
LEMMA AtWork ==
    ASSUME AccountsInv, NEW c \in Calls
    PROVE  /\ call[c] \in Call
           /\ call[c].row \in AccountRow
           /\ call[c].password \in Passwords
           /\ CallFits(call[c])
           /\ RowFits(call[c].row)
           /\ account \in AccountRow
           /\ RowFits(account)
           /\ wrong \in Nat
           /\ orderly => PasswordsInOrder /\ CallInOrder(call[c])
BY SmallNumbers DEF AccountsInv, AccountsTypeOK, Call, CallFits

-----------------------------------------------------------------------------
(* The requests that start                                                 *)

\* A wrong password counts in what is held as well as in the history.
LEMMA CountedFits ==
    ASSUME NEW row \in AccountRow, NEW t \in 0 .. MaxTime, now = t,
           wrong \in Nat, RowFits(row)
    PROVE  LET new == AfterWrong(row) IN
           /\ new \in AccountRow
           /\ new.attempts <= wrong + 1
           /\ new.lockedUntil # Never => wrong + 1 >= MaxAttempts
<1>1. t + LockTime \in Time
  BY Deadlines
<1>2. row.attempts \in Nat /\ row.lockedUntil \in Time /\ row.status \in Statuses
      /\ row.password \in Passwords
  BY DEF AccountRow
<1>3. CASE row.attempts + 1 >= MaxAttempts
  <2>1. AfterWrong(row) = [row EXCEPT !.attempts = row.attempts + 1,
                              !.lockedUntil = t + LockTime, !.status = "Locked"]
    BY <1>3 DEF AfterWrong
  <2>2. AfterWrong(row) \in AccountRow
    <3>1. row.attempts + 1 \in Nat /\ "Locked" \in Statuses
      BY <1>2 DEF Statuses
    <3>2. QED
      BY <2>1, <1>1, <1>2, <3>1 DEF AccountRow
  <2>3. AfterWrong(row).attempts = row.attempts + 1
    BY <2>1 DEF AccountRow
  <2>4. QED
    BY <2>2, <2>3, <1>2, <1>3, SmallNumbers DEF RowFits
<1>4. CASE ~(row.attempts + 1 >= MaxAttempts)
  <2>1. AfterWrong(row) = [row EXCEPT !.attempts = row.attempts + 1]
    BY <1>4 DEF AfterWrong
  <2>2. QED
    BY <2>1, <1>2, SmallNumbers DEF AccountRow, RowFits
<1>5. QED
  BY <1>3, <1>4

LEMMA LoginWrongKeepsInv ==
    ASSUME AccountsInv, NEW c \in Calls, LoginWrong(c)
    PROVE  AccountsInv'
<1> DEFINE new == AfterWrong(account)
           r   == [IdleCall EXCEPT !.op = "count", !.row = new]
<1>1. /\ account \in AccountRow /\ RowFits(account) /\ wrong \in Nat
      /\ now \in 0 .. MaxTime
  BY AtWork DEF AccountsInv, AccountsTypeOK
<1>2. /\ new \in AccountRow
      /\ new.attempts <= wrong + 1
      /\ new.lockedUntil # Never => wrong + 1 >= MaxAttempts
  BY <1>1, CountedFits
<1>3. /\ r.op = "count" /\ r.row = new
      /\ r \in Call
  BY <1>2, IdleCallIsCall DEF Call, CallOps
<1>4. wrong' = wrong + 1 /\ wrong' \in 0 .. MaxWrong /\ wrong <= wrong'
  BY <1>1, SmallNumbers DEF LoginWrong
<1>5. /\ Starts(c, r)
      /\ UNCHANGED <<account, sessions, codes, now, resets>>
      /\ account.status = "Active"
  BY DEF LoginWrong, AdmitsLogin
<1> HIDE DEF new, r
<1>6. PICK x \in Call : x = r
  BY <1>3
<1>7. /\ x.op = "count"
      /\ x.row.attempts <= wrong'
      /\ x.row.lockedUntil # Never => wrong' >= MaxAttempts
  BY <1>2, <1>3, <1>4, <1>6
<1>8. CallFits(x)'
  BY <1>7 DEF CallFits, RowFits
<1>9. CallInOrder(x)
  BY <1>5, <1>7 DEF CallInOrder
<1>10. QED
  BY <1>4, <1>5, <1>6, <1>8, <1>9, StartKeepsInv

LEMMA LoginRightKeepsInv ==
    ASSUME AccountsInv, NEW c \in Calls, LoginRight(c)
    PROVE  AccountsInv'
<1> DEFINE new == [account EXCEPT !.attempts = 0, !.lockedUntil = Never]
           r   == [IdleCall EXCEPT !.op = "clear", !.password = account.password, !.row = new]
<1>1. /\ account \in AccountRow /\ wrong \in Nat /\ wrong \in 0 .. MaxWrong
      /\ orderly => PasswordsInOrder
  BY AtWork DEF AccountsInv, AccountsTypeOK
<1>2. Never \in Time
  BY SmallNumbers DEF Never, Time
<1>3. new \in AccountRow /\ new.attempts = 0 /\ new.lockedUntil = Never
  BY <1>1, <1>2 DEF AccountRow
<1>4. /\ r.op = "clear" /\ r.row = new /\ r.password = account.password
      /\ r \in Call
  BY <1>1, <1>3, IdleCallIsCall DEF Call, CallOps, AccountRow
<1>5. /\ Starts(c, r)
      /\ UNCHANGED <<account, sessions, codes, now, resets>>
      /\ wrong' = wrong
      /\ account.status = "Active"
  BY DEF LoginRight, AdmitsLogin
<1> HIDE DEF new, r
<1>6. PICK x \in Call : x = r
  BY <1>4
<1>7. /\ x.op = "clear" /\ x.password = account.password
      /\ x.row.attempts = 0 /\ x.row.lockedUntil = Never
  BY <1>3, <1>4, <1>6
<1>8. CallFits(x)'
  BY <1>1, <1>5, <1>7 DEF CallFits, RowFits
<1>9. orderly => CallInOrder(x)
  BY <1>1, <1>5, <1>7 DEF CallInOrder, PasswordsInOrder
<1>10. wrong' \in 0 .. MaxWrong /\ wrong <= wrong'
  BY <1>1, <1>5
<1>11. QED
  BY <1>5, <1>6, <1>8, <1>9, <1>10, StartKeepsInv

\* The requests that start without reading the row.
LEMMA BlindStartKeepsInv ==
    ASSUME AccountsInv, NEW c \in Calls, NEW r \in Call, Starts(c, r),
           r.op \in {"setPassword", "activate", "change", "setStatus"},
           r.row.attempts = 0, r.row.lockedUntil = Never,
           r.op \in {"setPassword", "activate"} =>
               r.code \in Codes /\ codes[r.code].state = "verified",
           r.op \in {"setPassword", "change"} =>
               r.password \notin resets.replaced /\ r.password # account.password,
           UNCHANGED <<account, sessions, codes, now, wrong, resets>>
    PROVE  AccountsInv'
<1>1. wrong \in Nat /\ wrong \in 0 .. MaxWrong
  BY AtWork DEF AccountsInv, AccountsTypeOK
<1>2. CallFits(r)'
  BY <1>1 DEF CallFits, RowFits
<1>3. CallInOrder(r)
  BY DEF CallInOrder
<1>4. wrong' \in 0 .. MaxWrong /\ wrong <= wrong'
  BY <1>1
<1>5. QED
  BY <1>2, <1>3, <1>4, StartKeepsInv

LEMMA ResetPasswordKeepsInv ==
    ASSUME AccountsInv, NEW c \in Calls, NEW k \in Codes, NEW p \in Passwords,
           ResetPassword(c, k, p)
    PROVE  AccountsInv'
<1> DEFINE r == [IdleCall EXCEPT !.op = "setPassword", !.code = k, !.password = p]
<1>1. r \in Call /\ r.op = "setPassword" /\ r.code = k /\ r.password = p /\ r.row = FirstRow
  BY IdleCallIsCall DEF Call, CallOps
<1>2. /\ Starts(c, r)
      /\ codes[k].state = "verified"
      /\ p \notin resets.replaced /\ p # account.password
      /\ UNCHANGED <<account, sessions, codes, now, wrong, resets>>
  BY DEF ResetPassword, Verified, Fresh
<1> HIDE DEF r
<1>3. QED
  BY <1>1, <1>2, IdleCallIsCall, BlindStartKeepsInv

LEMMA ReactivateAccountKeepsInv ==
    ASSUME AccountsInv, NEW c \in Calls, NEW k \in Codes, ReactivateAccount(c, k)
    PROVE  AccountsInv'
<1> DEFINE r == [IdleCall EXCEPT !.op = "activate", !.code = k]
<1>1. r \in Call /\ r.op = "activate" /\ r.code = k /\ r.row = FirstRow
  BY IdleCallIsCall DEF Call, CallOps
<1>2. /\ Starts(c, r)
      /\ codes[k].state = "verified"
      /\ UNCHANGED <<account, sessions, codes, now, wrong, resets>>
  BY DEF ReactivateAccount, Verified
<1> HIDE DEF r
<1>3. QED
  BY <1>1, <1>2, IdleCallIsCall, BlindStartKeepsInv

LEMMA ChangePasswordKeepsInv ==
    ASSUME AccountsInv, NEW c \in Calls, NEW p \in Passwords, ChangePassword(c, p)
    PROVE  AccountsInv'
<1> DEFINE r == [IdleCall EXCEPT !.op = "change", !.password = p]
<1>1. r \in Call /\ r.op = "change" /\ r.password = p /\ r.row = FirstRow
  BY IdleCallIsCall DEF Call, CallOps
<1>2. /\ Starts(c, r)
      /\ p \notin resets.replaced /\ p # account.password
      /\ UNCHANGED <<account, sessions, codes, now, wrong, resets>>
  BY DEF ChangePassword, Fresh
<1> HIDE DEF r
<1>3. QED
  BY <1>1, <1>2, IdleCallIsCall, BlindStartKeepsInv

LEMMA SetStatusKeepsInv ==
    ASSUME AccountsInv, NEW c \in Calls, NEW status \in Statuses, SetStatus(c, status)
    PROVE  AccountsInv'
<1> DEFINE r == [IdleCall EXCEPT !.op = "setStatus", !.row.status = status]
<1>1. /\ r.row \in AccountRow
      /\ r.row.attempts = FirstRow.attempts /\ r.row.lockedUntil = FirstRow.lockedUntil
      /\ r \in Call /\ r.op = "setStatus"
  BY IdleCallIsCall DEF Call, CallOps, AccountRow
<1>2. /\ Starts(c, r)
      /\ UNCHANGED <<account, sessions, codes, now, wrong, resets>>
  BY DEF SetStatus
<1> HIDE DEF r
<1>3. QED
  BY <1>1, <1>2, IdleCallIsCall, BlindStartKeepsInv

LEMMA UpdateOwnProfileKeepsInv ==
    ASSUME AccountsInv, NEW c \in Calls, UpdateOwnProfile(c)
    PROVE  AccountsInv'
<1> DEFINE r == [IdleCall EXCEPT !.op = "save", !.row = account]
<1>1. /\ account \in AccountRow /\ RowFits(account) /\ wrong \in Nat /\ wrong \in 0 .. MaxWrong
  BY AtWork DEF AccountsInv, AccountsTypeOK
<1>2. r \in Call /\ r.op = "save" /\ r.row = account
  BY <1>1, IdleCallIsCall DEF Call, CallOps
<1>3. Starts(c, r) /\ UNCHANGED <<account, sessions, codes, now, wrong, resets>>
  BY DEF UpdateOwnProfile
<1> HIDE DEF r
<1>4. PICK x \in Call : x = r
  BY <1>2
<1>5. x.op = "save" /\ x.row = account /\ x.row = account'
  BY <1>2, <1>3, <1>4
<1>6. RowFits(x.row)'
  BY <1>1, <1>3, <1>5 DEF RowFits
<1>7. CallFits(x)'
  BY <1>5, <1>6 DEF CallFits
<1>8. CallInOrder(x)
  BY <1>5 DEF CallInOrder
<1>9. wrong' \in 0 .. MaxWrong /\ wrong <= wrong'
  BY <1>1, <1>3
<1>10. QED
  BY <1>3, <1>4, <1>7, <1>8, <1>9, StartKeepsInv

-----------------------------------------------------------------------------
(* The requests that write to the row                                      *)

\* A request that is over holds nothing.
LEMMA LastWriteKeepsInv ==
    ASSUME AccountsInv, NEW c \in Calls, Ends(c), ~Idle(c),
           account' \in AccountRow,
           UNCHANGED <<sessions, codes, now, wrong, orderly, resets>>,
           RowFits(account'),
           orderly => account'.password \notin resets.replaced
    PROVE  AccountsInv'
<1>1. PICK x \in Call : x = IdleCall
  BY IdleCallIsCall
<1>2. Goes(c, x)
  BY <1>1 DEF Ends
<1>3. x.op = "idle" /\ x.row.attempts = 0 /\ x.row.lockedUntil = Never
  BY <1>1, IdleCallIsCall
<1>4. wrong \in Nat
  BY AtWork
<1>5. CallFits(x)
  BY <1>3, <1>4 DEF CallFits, RowFits
<1>6. CallInOrder(x)'
  BY <1>3 DEF CallInOrder
<1>7. QED
  BY <1>2, <1>5, <1>6, WriteKeepsInv

\* The request of a login that found the password right, once it has counted.
LEMMA LoginGoesOn ==
    ASSUME AccountsInv, NEW c \in Calls, call[c].op = "clear",
           call' = [call EXCEPT ![c].op = "session"]
    PROVE  \E x \in Call : /\ Goes(c, x)
                           /\ x.op = "session"
                           /\ x.password = call[c].password
                           /\ x.row = call[c].row
                           /\ CallFits(x)
<1> DEFINE x == [call[c] EXCEPT !.op = "session"]
<1>1. call[c] \in Call /\ CallFits(call[c])
  BY AtWork
<1>2. /\ x \in Call
      /\ x.op = "session" /\ x.password = call[c].password /\ x.row = call[c].row
  BY <1>1 DEF Call, CallOps
<1>3. Goes(c, x)
  BY DEF Goes
<1>4. CallFits(x)
  BY <1>1, <1>2 DEF CallFits
<1>5. QED
  BY <1>2, <1>3, <1>4

LEMMA UpdateLoginAttemptsKeepsInv ==
    ASSUME AccountsInv, NEW c \in Calls, UpdateLoginAttempts(c)
    PROVE  AccountsInv'
<1>1. /\ call[c].row \in AccountRow /\ RowFits(call[c].row)
      /\ account \in AccountRow
      /\ orderly => PasswordsInOrder /\ CallInOrder(call[c])
  BY AtWork
<1>2. /\ account' \in AccountRow
      /\ account'.attempts = call[c].row.attempts
      /\ account'.lockedUntil = call[c].row.lockedUntil
      /\ account'.password = account.password
  BY <1>1 DEF UpdateLoginAttempts, AccountRow
<1>3. /\ RowFits(account')
      /\ orderly => account'.password \notin resets.replaced
  BY <1>1, <1>2 DEF RowFits, PasswordsInOrder
<1>4. /\ UNCHANGED <<sessions, codes, now, wrong, orderly, resets>>
      /\ ~Idle(c)
  BY DEF UpdateLoginAttempts, Idle
<1>5. CASE call[c].op = "clear"
  <2>1. call' = [call EXCEPT ![c].op = "session"]
    BY <1>5 DEF UpdateLoginAttempts
  <2>2. PICK x \in Call : /\ Goes(c, x) /\ x.op = "session"
                          /\ x.password = call[c].password
                          /\ CallFits(x)
    BY <1>5, <2>1, LoginGoesOn
  <2>3. ASSUME orderly PROVE CallInOrder(x)'
    <3>1. call[c].password \notin resets.replaced
      BY <1>1, <1>5, <2>3 DEF CallInOrder
    <3>2. x.password \notin resets'.replaced
      BY <3>1, <2>2, <1>4
    <3>3. QED
      BY <2>2, <3>2 DEF CallInOrder
  <2>4. QED
    BY <1>2, <1>3, <1>4, <2>2, <2>3, WriteKeepsInv
<1>6. CASE call[c].op # "clear"
  <2>1. Ends(c)
    BY <1>6 DEF UpdateLoginAttempts
  <2>2. QED
    BY <1>2, <1>3, <1>4, <2>1, LastWriteKeepsInv
<1>7. QED
  BY <1>5, <1>6

LEMMA WritePasswordKeepsInv ==
    ASSUME AccountsInv, NEW c \in Calls, WritePassword(c)
    PROVE  AccountsInv'
<1> DEFINE r == [call[c] EXCEPT !.op = "revoke", !.replaced = account.password]
<1>1. /\ call[c] \in Call /\ CallFits(call[c])
      /\ account \in AccountRow /\ RowFits(account)
      /\ call[c].password \in Passwords /\ account.password \in Passwords
      /\ orderly => CallInOrder(call[c])
  BY AtWork DEF AccountRow
<1>2. /\ r \in Call
      /\ r.op = "revoke" /\ r.replaced = account.password
      /\ r.password = call[c].password /\ r.row = call[c].row /\ r.code = call[c].code
  BY <1>1 DEF Call, CallOps
<1>3. Goes(c, r)
  BY DEF WritePassword, Goes
<1> HIDE DEF r
<1>4. PICK x \in Call : x = r
  BY <1>2
<1>5. PICK old \in Passwords : old = account.password
  BY <1>1
<1>6. PICK new \in Passwords : new = call[c].password
  BY <1>1
<1>7. /\ call[c].op = "setPassword"
      /\ UNCHANGED <<sessions, codes, now, wrong, orderly, resets>>
      /\ ~Idle(c)
  BY DEF WritePassword, Idle
<1>8. /\ x.op = "revoke" /\ x.replaced = old /\ x.password = new
      /\ x.row = call[c].row /\ x.code = call[c].code
  BY <1>2, <1>4, <1>5, <1>6
<1>9. /\ account' \in AccountRow
      /\ account'.attempts = account.attempts /\ account'.lockedUntil = account.lockedUntil
      /\ account'.password = new
  BY <1>1, <1>6 DEF WritePassword, AccountRow
<1>10. RowFits(account')
  BY <1>1, <1>9 DEF RowFits
<1>11. CallFits(x)
  BY <1>1, <1>7, <1>8 DEF CallFits
<1>12. ASSUME orderly
       PROVE  account'.password \notin resets.replaced /\ CallInOrder(x)'
  <2>1. new \notin resets.replaced /\ new # old
    BY <1>12, <1>1, <1>5, <1>6, <1>7 DEF CallInOrder
  <2>2. QED
    BY <2>1, <1>8, <1>9 DEF CallInOrder
<1>13. QED
  BY <1>3, <1>4, <1>7, <1>9, <1>10, <1>11, <1>12, WriteKeepsInv

LEMMA ReactivateKeepsInv ==
    ASSUME AccountsInv, NEW c \in Calls, Reactivate(c)
    PROVE  AccountsInv'
<1> DEFINE r == [call[c] EXCEPT !.op = "spend"]
<1>1. /\ call[c] \in Call /\ CallFits(call[c])
      /\ account \in AccountRow /\ RowFits(account)
      /\ orderly => PasswordsInOrder
  BY AtWork
<1>2. /\ r \in Call
      /\ r.op = "spend" /\ r.row = call[c].row /\ r.code = call[c].code
  BY <1>1 DEF Call, CallOps
<1>3. Goes(c, r)
  BY DEF Reactivate, Goes
<1> HIDE DEF r
<1>4. PICK x \in Call : x = r
  BY <1>2
<1>5. /\ call[c].op = "activate"
      /\ UNCHANGED <<sessions, codes, now, wrong, orderly, resets>>
      /\ ~Idle(c)
  BY DEF Reactivate, Idle
<1>6. /\ account' \in AccountRow
      /\ account'.attempts = account.attempts /\ account'.lockedUntil = account.lockedUntil
      /\ account'.password = account.password
  BY <1>1 DEF Reactivate, AccountRow, Statuses
<1>7. RowFits(account')
  BY <1>1, <1>6 DEF RowFits
<1>8. CallFits(x)
  BY <1>1, <1>2, <1>4, <1>5 DEF CallFits
<1>9. orderly => account'.password \notin resets.replaced
  BY <1>1, <1>6 DEF PasswordsInOrder
<1>10. CallInOrder(x)'
  BY <1>2, <1>4 DEF CallInOrder
<1>11. QED
  BY <1>3, <1>4, <1>5, <1>6, <1>7, <1>8, <1>9, <1>10, WriteKeepsInv

LEMMA StorePasswordKeepsInv ==
    ASSUME AccountsInv, NEW c \in Calls, StorePassword(c)
    PROVE  AccountsInv'
<1>1. /\ account \in AccountRow /\ RowFits(account)
      /\ call[c].password \in Passwords
      /\ orderly => CallInOrder(call[c])
  BY AtWork
<1>2. /\ account' \in AccountRow
      /\ account'.attempts = account.attempts /\ account'.lockedUntil = account.lockedUntil
      /\ account'.password = call[c].password
  BY <1>1 DEF StorePassword, AccountRow
<1>3. /\ RowFits(account')
      /\ orderly => account'.password \notin resets.replaced
  BY <1>1, <1>2 DEF RowFits, CallInOrder, StorePassword
<1>4. /\ UNCHANGED <<sessions, codes, now, wrong, orderly, resets>>
      /\ ~Idle(c) /\ Ends(c)
  BY DEF StorePassword, Idle
<1>5. QED
  BY <1>2, <1>3, <1>4, LastWriteKeepsInv

LEMMA StoreStatusKeepsInv ==
    ASSUME AccountsInv, NEW c \in Calls, StoreStatus(c)
    PROVE  AccountsInv'
<1>1. /\ account \in AccountRow /\ RowFits(account)
      /\ call[c].row.status \in Statuses
      /\ orderly => PasswordsInOrder
  BY AtWork DEF AccountRow
<1>2. /\ account' \in AccountRow
      /\ account'.attempts = account.attempts /\ account'.lockedUntil = account.lockedUntil
      /\ account'.password = account.password
  BY <1>1 DEF StoreStatus, AccountRow
<1>3. /\ RowFits(account')
      /\ orderly => account'.password \notin resets.replaced
  BY <1>1, <1>2 DEF RowFits, PasswordsInOrder
<1>4. /\ UNCHANGED <<sessions, codes, now, wrong, orderly, resets>>
      /\ ~Idle(c) /\ Ends(c)
  BY DEF StoreStatus, Idle
<1>5. QED
  BY <1>2, <1>3, <1>4, LastWriteKeepsInv

LEMMA SaveUserKeepsInv ==
    ASSUME AccountsInv, NEW c \in Calls, SaveUser(c)
    PROVE  AccountsInv'
<1>1. /\ call[c].row \in AccountRow /\ RowFits(call[c].row)
      /\ orderly => PasswordsInOrder /\ CallInOrder(call[c])
  BY AtWork
<1>2. account' = call[c].row
  BY DEF SaveUser
<1>3. /\ account' \in AccountRow /\ RowFits(account')
      /\ orderly => account'.password \notin resets.replaced
  BY <1>1, <1>2 DEF RowFits, PasswordsInOrder, CallInOrder, SaveUser
<1>4. /\ UNCHANGED <<sessions, codes, now, wrong, orderly, resets>>
      /\ ~Idle(c) /\ Ends(c)
  BY DEF SaveUser, Idle
<1>5. QED
  BY <1>3, <1>4, LastWriteKeepsInv

-----------------------------------------------------------------------------
(* Failures                                                                *)

LEMMA AttemptsNotPersistedKeepsInv ==
    ASSUME AccountsInv, NEW c \in Calls, AttemptsNotPersisted(c)
    PROVE  AccountsInv'
<1>1. orderly' = FALSE /\ UNCHANGED <<account, sessions, codes, now, wrong, resets>>
  BY DEF AttemptsNotPersisted
<1>2. CASE call[c].op = "clear"
  <2>1. call' = [call EXCEPT ![c].op = "session"]
    BY <1>2 DEF AttemptsNotPersisted
  <2>2. PICK x \in Call : Goes(c, x) /\ CallFits(x)
    BY <1>2, <2>1, LoginGoesOn
  <2>3. QED
    BY <1>1, <2>2, FailureKeepsInv
<1>3. CASE call[c].op # "clear"
  <2>1. Goes(c, IdleCall)
    BY <1>3 DEF AttemptsNotPersisted, Ends
  <2>2. QED
    BY <1>1, <2>1, AtWork, IdleCallIsCall, IdleCallFits, FailureKeepsInv
<1>4. QED
  BY <1>2, <1>3

LEMMA FailCallKeepsInv ==
    ASSUME AccountsInv, NEW c \in Calls, FailCall(c)
    PROVE  AccountsInv'
<1>1. /\ orderly' = FALSE /\ UNCHANGED <<account, sessions, codes, now, wrong, resets>>
      /\ Goes(c, IdleCall)
  BY DEF FailCall, Ends
<1>2. QED
  BY <1>1, AtWork, IdleCallIsCall, IdleCallFits, FailureKeepsInv

-----------------------------------------------------------------------------
(* Sessions                                                                *)

\* What a request at work leaves of the others when nothing has disturbed it.
LEMMA Alone ==
    ASSUME AccountsInv, NEW c \in Calls, ~Idle(c), orderly
    PROVE  \A d \in Calls : d # c => Idle(d)
BY DEF AccountsInv

\* A request writes to sessions only, and moves on.
LEMMA SessionStepKeepsInv ==
    ASSUME AccountsInv,
           NEW c \in Calls, NEW x \in Call, Goes(c, x), ~Idle(c),
           UNCHANGED <<account, codes, now, wrong, orderly, resets>>,
           sessions' \in [Sessions -> SessionRow],
           \A s \in Sessions : sessions'[s].state = "live" => sessions'[s].password \in Passwords,
           CallFits(x),
           orderly => /\ \A s \in Sessions : sessions'[s].state = "live"
                              => sessions'[s].password \notin resets.replaced
                      /\ CallInOrder(x)'
    PROVE  AccountsInv'
<1>1. /\ account \in AccountRow /\ codes \in [Codes -> CodeRow] /\ now \in 0 .. MaxTime
      /\ wrong \in 0 .. MaxWrong /\ wrong \in Nat /\ orderly \in BOOLEAN /\ resets \in ResetsType
      /\ RowFits(account) /\ ResetsInv
      /\ orderly => PasswordsInOrder
  BY AtWork DEF AccountsInv, AccountsTypeOK, ResetsType
<1>2. RowFits(account)' /\ CallFits(x)'
  BY <1>1 DEF RowFits, CallFits
<1>3. ResetsInv'
  BY <1>1 DEF ResetsInv, CodeServesOneReset
<1>4. orderly' => PasswordsInOrder'
  BY <1>1 DEF PasswordsInOrder
<1>5. orderly' => /\ orderly
                  /\ \A d \in Calls : d # c => Idle(d)
                  /\ CallInOrder(x)'
  BY Alone
<1>6. /\ wrong <= wrong' /\ account' \in AccountRow /\ codes' \in [Codes -> CodeRow]
      /\ now' \in 0 .. MaxTime /\ wrong' \in 0 .. MaxWrong /\ orderly' \in BOOLEAN
      /\ resets' \in ResetsType
  BY <1>1
<1>7. QED
  BY <1>2, <1>3, <1>4, <1>5, <1>6, NothingAges, StepKeepsInv

LEMMA CreateSessionKeepsInv ==
    ASSUME AccountsInv, NEW c \in Calls, CreateSession(c)
    PROVE  AccountsInv'
<1>1. PICK x \in Call : x = IdleCall
  BY IdleCallIsCall
<1>2. Goes(c, x) /\ ~Idle(c) /\ UNCHANGED <<account, codes, now, wrong, orderly, resets>>
  BY <1>1 DEF CreateSession, Ends, Idle
<1>3. CallFits(x) /\ CallInOrder(x)'
  BY <1>1, IdleCallIsCall, IdleCallFits, AtWork DEF CallInOrder
<1>4. /\ sessions \in [Sessions -> SessionRow]
      /\ \A s \in Sessions : sessions[s].state = "live" => sessions[s].password \in Passwords
      /\ call[c].password \in Passwords
      /\ orderly => PasswordsInOrder /\ CallInOrder(call[c])
  BY AtWork DEF AccountsInv, AccountsTypeOK
<1>5. now + SessionLife \in Time
  BY Deadlines DEF AccountsInv, AccountsTypeOK
<1> DEFINE new == [state |-> "live", expires |-> now + SessionLife, password |-> call[c].password]
<1>6. new \in SessionRow /\ new.password = call[c].password
  BY <1>4, <1>5 DEF SessionRow
<1>7. PICK s \in Sessions : sessions' = [sessions EXCEPT ![s] = new]
  BY DEF CreateSession
<1> HIDE DEF new
<1>8. /\ sessions' \in [Sessions -> SessionRow]
      /\ \A t \in Sessions : sessions'[t] = IF t = s THEN new ELSE sessions[t]
  BY <1>4, <1>6, <1>7
<1>9. \A t \in Sessions : sessions'[t].state = "live" => sessions'[t].password \in Passwords
  BY <1>4, <1>6, <1>8
<1>10. ASSUME orderly
       PROVE  \A t \in Sessions : sessions'[t].state = "live"
                  => sessions'[t].password \notin resets.replaced
  <2>1. call[c].password \notin resets.replaced
    BY <1>10, <1>4 DEF CreateSession, CallInOrder
  <2>2. QED
    BY <1>10, <1>4, <1>6, <1>8, <2>1 DEF PasswordsInOrder
<1>11. QED
  BY <1>2, <1>3, <1>8, <1>9, <1>10, SessionStepKeepsInv

LEMMA RevokeAllKeepsInv ==
    ASSUME AccountsInv, NEW c \in Calls, RevokeAll(c)
    PROVE  AccountsInv'
<1> DEFINE r == [call[c] EXCEPT !.op = "consume"]
<1>1. /\ call[c] \in Call /\ CallFits(call[c])
      /\ orderly => CallInOrder(call[c])
      /\ sessions \in [Sessions -> SessionRow]
  BY AtWork DEF AccountsInv, AccountsTypeOK
<1>2. /\ r \in Call
      /\ r.op = "consume" /\ r.replaced = call[c].replaced
      /\ r.password = call[c].password /\ r.row = call[c].row /\ r.code = call[c].code
  BY <1>1 DEF Call, CallOps
<1>3. Goes(c, r)
  BY DEF RevokeAll, Goes
<1> HIDE DEF r
<1>4. PICK x \in Call : x = r
  BY <1>2
<1>5. /\ call[c].op = "revoke" /\ ~Idle(c)
      /\ UNCHANGED <<account, codes, now, wrong, orderly, resets>>
  BY DEF RevokeAll, Idle
<1>6. /\ sessions' \in [Sessions -> SessionRow]
      /\ \A s \in Sessions : sessions'[s].state # "live"
  <2>1. \A s \in Sessions :
            IF sessions[s].state = "live"
            THEN /\ [sessions[s] EXCEPT !.state = "revoked"] \in SessionRow
                 /\ [sessions[s] EXCEPT !.state = "revoked"].state = "revoked"
            ELSE sessions[s] \in SessionRow
    BY <1>1 DEF SessionRow
  <2>2. QED
    BY <2>1 DEF RevokeAll
<1>7. CallFits(x)
  BY <1>1, <1>2, <1>4, <1>5 DEF CallFits
<1>8. ASSUME orderly PROVE CallInOrder(x)'
  <2>1. x.password = account.password /\ x.replaced # account.password
    BY <1>8, <1>1, <1>2, <1>4, <1>5 DEF CallInOrder
  <2>2. QED
    BY <2>1, <1>2, <1>4, <1>5, <1>6 DEF CallInOrder
<1>9. QED
  BY <1>3, <1>4, <1>5, <1>6, <1>7, <1>8, SessionStepKeepsInv

-----------------------------------------------------------------------------
(* Codes                                                                   *)

\* A request consumes its code if that is still usable, and is over.
LEMMA Consumption ==
    ASSUME AccountsInv, NEW k \in Codes,
           codes' = IF Usable(k) THEN [codes EXCEPT ![k].state = "used"] ELSE codes
    PROVE  /\ codes' \in [Codes -> CodeRow]
           /\ CodesAge
           /\ Usable(k) => codes'[k].state = "used"
           /\ codes[k].state \in {"used", "gone"} => ~Usable(k)
<1>1. codes \in [Codes -> CodeRow]
  BY DEF AccountsInv, AccountsTypeOK
<1>2. CASE Usable(k)
  <2> DEFINE new == [codes[k] EXCEPT !.state = "used"]
  <2>1. new \in CodeRow /\ new.state = "used"
    BY <1>1 DEF CodeRow
  <2>2. codes' = [codes EXCEPT ![k] = new]
    BY <1>2
  <2> HIDE DEF new
  <2>3. /\ codes' \in [Codes -> CodeRow]
        /\ \A j \in Codes : codes'[j] = IF j = k THEN new ELSE codes[j]
    BY <1>1, <2>1, <2>2
  <2>4. CodesAge
    BY <1>2, <2>1, <2>3 DEF CodesAge
  <2>5. QED
    BY <1>2, <2>1, <2>3, <2>4 DEF Usable
<1>3. CASE ~Usable(k)
  BY <1>1, <1>3, NothingAges
<1>4. QED
  BY <1>2, <1>3

LEMMA ConsumeActivationKeepsInv ==
    ASSUME AccountsInv, NEW c \in Calls, ConsumeActivation(c)
    PROVE  AccountsInv'
<1>1. PICK x \in Call : x = IdleCall
  BY IdleCallIsCall
<1>2. /\ Goes(c, x) /\ call[c].op = "spend" /\ ~Idle(c)
      /\ UNCHANGED <<account, sessions, now, wrong, orderly, resets>>
  BY <1>1 DEF ConsumeActivation, Ends, Idle
<1>3. call[c].code \in Codes
  BY <1>2, AtWork DEF CallFits
<1>4. PICK k \in Codes : k = call[c].code
  BY <1>3
<1>5. codes' = IF Usable(k) THEN [codes EXCEPT ![k].state = "used"] ELSE codes
  BY <1>4 DEF ConsumeActivation
<1>6. codes' \in [Codes -> CodeRow] /\ CodesAge
  BY <1>5, Consumption
<1>7. /\ account \in AccountRow /\ sessions \in [Sessions -> SessionRow] /\ now \in 0 .. MaxTime
      /\ \A s \in Sessions : sessions[s].state = "live" => sessions[s].password \in Passwords
      /\ wrong \in 0 .. MaxWrong /\ wrong \in Nat /\ orderly \in BOOLEAN /\ resets \in ResetsType
      /\ RowFits(account) /\ ResetsInv
      /\ orderly => PasswordsInOrder
  BY AtWork DEF AccountsInv, AccountsTypeOK, ResetsType
<1>8. RowFits(account)'
  BY <1>2, <1>7 DEF RowFits
<1>9. ResetsInv'
  BY <1>2, <1>6, <1>7 DEF ResetsInv, CodeServesOneReset, CodesAge
<1>10. orderly' => PasswordsInOrder'
  BY <1>2, <1>7 DEF PasswordsInOrder
<1>11. CallFits(x)' /\ CallInOrder(x)'
  BY <1>1, <1>2, <1>7, IdleCallIsCall DEF CallFits, CallInOrder, RowFits
<1>12. orderly' => orderly /\ \A d \in Calls : d # c => Idle(d)
  BY <1>2, Alone
<1>13. wrong <= wrong'
  BY <1>2, <1>7
<1>14. QED
  BY <1>2, <1>6, <1>7, <1>8, <1>9, <1>10, <1>11, <1>12, <1>13, StepKeepsInv

\* The answer to a reset: at most one per code says yes, and only over a
\* password that is not in use any more.
LEMMA ConsumeResetKeepsInv ==
    ASSUME AccountsInv, NEW c \in Calls, ConsumeReset(c)
    PROVE  AccountsInv'
<1>1. PICK x \in Call : x = IdleCall
  BY IdleCallIsCall
<1>2. /\ Goes(c, x) /\ call[c].op = "consume" /\ ~Idle(c)
      /\ UNCHANGED <<account, sessions, now, wrong, orderly>>
  BY <1>1 DEF ConsumeReset, Ends, Idle
<1>3. /\ call[c].code \in Codes /\ call[c].password \in Passwords
      /\ call[c].replaced \in Passwords
  BY <1>2, AtWork DEF CallFits
<1>4. PICK k \in Codes : k = call[c].code
  BY <1>3
<1>5. PICK p \in Passwords : p = call[c].password
  BY <1>3
<1>6. PICK old \in Passwords : old = call[c].replaced
  BY <1>3
<1>7. codes' = IF Usable(k) THEN [codes EXCEPT ![k].state = "used"] ELSE codes
  BY <1>4 DEF ConsumeReset
<1>8. /\ codes' \in [Codes -> CodeRow] /\ CodesAge
      /\ Usable(k) => codes'[k].state = "used"
      /\ codes[k].state \in {"used", "gone"} => ~Usable(k)
  BY <1>7, Consumption
<1>9. /\ account \in AccountRow /\ sessions \in [Sessions -> SessionRow] /\ now \in 0 .. MaxTime
      /\ \A s \in Sessions : sessions[s].state = "live" => sessions[s].password \in Passwords
      /\ wrong \in 0 .. MaxWrong /\ wrong \in Nat /\ orderly \in BOOLEAN /\ resets \in ResetsType
      /\ RowFits(account) /\ ResetsInv
      /\ orderly => PasswordsInOrder /\ CallInOrder(call[c])
  BY AtWork DEF AccountsInv, AccountsTypeOK, ResetsType
<1>10. resets' = [answer   |-> [resets.answer EXCEPT ![p] = IF Usable(k) THEN k ELSE "refused"],
                  replaced |-> IF Usable(k) THEN resets.replaced \cup {old} ELSE resets.replaced]
  BY <1>4, <1>5, <1>6 DEF ConsumeReset, Answered
<1>11. /\ resets' \in ResetsType
       /\ \A q \in Passwords : resets'.answer[q] = IF q # p THEN resets.answer[q]
                                                   ELSE IF Usable(k) THEN k ELSE "refused"
       /\ resets'.replaced = IF Usable(k) THEN resets.replaced \cup {old} ELSE resets.replaced
  BY <1>9, <1>10 DEF ResetsType
<1>12. "refused" \notin Codes
  BY AccountsAssumption
<1>13. \A q \in Passwords : resets.answer[q] \in Codes =>
           codes[resets.answer[q]].state \in {"used", "gone"}
  BY <1>9 DEF ResetsInv
<1>14. \A q \in Passwords : resets'.answer[q] \in Codes =>
           codes'[resets'.answer[q]].state \in {"used", "gone"}
  BY <1>8, <1>11, <1>12, <1>13 DEF CodesAge
<1>15. ASSUME NEW q \in Passwords, NEW t \in Passwords,
              resets'.answer[q] \in Codes, resets'.answer[q] = resets'.answer[t]
       PROVE  q = t
  <2>1. CASE q # p /\ t # p
    BY <2>1, <1>9, <1>11, <1>15 DEF ResetsInv, CodeServesOneReset
  <2>2. CASE q = p /\ t # p
    <3>1. Usable(k) /\ resets.answer[t] = k
      BY <2>2, <1>11, <1>12, <1>15
    <3>2. QED
      BY <3>1, <1>8, <1>13
  <2>3. CASE q # p /\ t = p
    <3>1. Usable(k) /\ resets.answer[q] = k
      BY <2>3, <1>11, <1>12, <1>15
    <3>2. QED
      BY <3>1, <1>8, <1>13
  <2>4. QED
    BY <2>1, <2>2, <2>3
<1>16. ResetsInv'
  BY <1>14, <1>15 DEF ResetsInv, CodeServesOneReset
<1>17. ASSUME orderly' PROVE PasswordsInOrder'
  <2>1. /\ PasswordsInOrder /\ old # account.password
        /\ \A s \in Sessions : sessions[s].state # "live"
    BY <1>17, <1>2, <1>6, <1>9 DEF CallInOrder
  <2>2. QED
    BY <2>1, <1>2, <1>11 DEF PasswordsInOrder
<1>18. RowFits(account)'
  BY <1>2, <1>9 DEF RowFits
<1>19. CallFits(x)' /\ CallInOrder(x)'
  BY <1>1, <1>2, <1>9, IdleCallIsCall DEF CallFits, CallInOrder, RowFits
<1>20. orderly' => orderly /\ \A d \in Calls : d # c => Idle(d)
  BY <1>2, Alone
<1>21. wrong <= wrong'
  BY <1>2, <1>9
<1>22. QED
  BY <1>2, <1>8, <1>9, <1>11, <1>16, <1>17, <1>18, <1>19, <1>20, <1>21, StepKeepsInv

-----------------------------------------------------------------------------
(* Steps at which no request moves                                         *)

\* A new code takes a row nobody has used; what has expired goes.
LEMMA SendAges ==
    ASSUME AccountsInv, NEW k \in Codes, codes[k].state = "none",
           NEW kind \in {"reset", "activation"}, Send(k, kind)
    PROVE  codes' \in [Codes -> CodeRow] /\ CodesAge
<1>1. codes \in [Codes -> CodeRow] /\ now + CodeLife \in Time
  BY Deadlines DEF AccountsInv, AccountsTypeOK
<1> DEFINE new == [kind |-> kind, state |-> "sent", expires |-> now + CodeLife]
<1>2. new \in CodeRow
  BY <1>1 DEF CodeRow
<1>3. \A j \in Codes : /\ codes[j] \in CodeRow
                       /\ [codes[j] EXCEPT !.state = "gone"] \in CodeRow
                       /\ [codes[j] EXCEPT !.state = "gone"].state = "gone"
  BY <1>1 DEF CodeRow
<1>4. codes' = [j \in Codes |->
        IF j = k THEN new
        ELSE IF codes[j].state # "none" /\ codes[j].kind = kind /\ codes[j].expires <= now
             THEN [codes[j] EXCEPT !.state = "gone"]
             ELSE codes[j]]
  BY DEF Send
<1> HIDE DEF new
<1>5. codes' \in [Codes -> CodeRow]
  BY <1>2, <1>3, <1>4
<1>6. \A j \in Codes : j # k => codes'[j].state \in {"gone", codes[j].state}
  BY <1>3, <1>4
<1>7. QED
  BY <1>5, <1>6 DEF CodesAge

LEMMA MailKeepsInv ==
    ASSUME AccountsInv, NEW c \in Calls, NEW k \in Codes,
           ForgotPassword(c, k) \/ RequestActivation(c, k)
    PROVE  AccountsInv'
<1>1. /\ codes[k].state = "none"
      /\ Send(k, "reset") \/ Send(k, "activation")
      /\ UNCHANGED <<account, sessions, call, now, wrong, orderly, resets>>
  BY DEF ForgotPassword, RequestActivation
<1>2. codes' \in [Codes -> CodeRow] /\ CodesAge
  BY <1>1, SendAges
<1>3. sessions \in [Sessions -> SessionRow] /\ now \in 0 .. MaxTime
  BY DEF AccountsInv, AccountsTypeOK
<1>4. QED
  BY <1>1, <1>2, <1>3, QuietKeepsInv

LEMMA VerifyKeepsInv ==
    ASSUME AccountsInv, NEW c \in Calls, NEW k \in Codes, Verify(c, k)
    PROVE  AccountsInv'
<1>1. /\ codes[k].state = "sent"
      /\ codes' = [codes EXCEPT ![k].state = "verified"]
      /\ UNCHANGED <<account, sessions, call, now, wrong, orderly, resets>>
  BY DEF Verify
<1>2. sessions \in [Sessions -> SessionRow] /\ now \in 0 .. MaxTime /\ codes \in [Codes -> CodeRow]
  BY DEF AccountsInv, AccountsTypeOK
<1>3. codes' \in [Codes -> CodeRow]
  BY <1>1, <1>2 DEF CodeRow
<1>4. \A j \in Codes : j # k => codes'[j] = codes[j]
  BY <1>1, <1>2
<1>5. CodesAge
  BY <1>1, <1>4 DEF CodesAge
<1>6. QED
  BY <1>1, <1>2, <1>3, <1>5, QuietKeepsInv

LEMMA LogoutKeepsInv ==
    ASSUME AccountsInv, NEW c \in Calls, NEW s \in Sessions, Logout(c, s)
    PROVE  AccountsInv'
<1>1. /\ sessions' = [sessions EXCEPT ![s].state = "revoked"]
      /\ UNCHANGED <<account, codes, call, now, wrong, orderly, resets>>
  BY DEF Logout
<1>2. sessions \in [Sessions -> SessionRow] /\ now \in 0 .. MaxTime /\ codes \in [Codes -> CodeRow]
  BY DEF AccountsInv, AccountsTypeOK
<1>3. sessions' \in [Sessions -> SessionRow] /\ sessions'[s].state = "revoked"
  BY <1>1, <1>2 DEF SessionRow
<1>4. \A t \in Sessions : t # s => sessions'[t] = sessions[t]
  BY <1>1, <1>2
<1>5. QED
  BY <1>1, <1>2, <1>3, <1>4, NothingAges, QuietKeepsInv

LEMMA TickKeepsInv == ASSUME AccountsInv, Tick PROVE AccountsInv'
<1>1. /\ now' = now + 1 /\ now < MaxTime
      /\ UNCHANGED <<account, sessions, codes, call, wrong, orderly, resets>>
  BY DEF Tick
<1>2. sessions \in [Sessions -> SessionRow] /\ now \in 0 .. MaxTime /\ codes \in [Codes -> CodeRow]
  BY DEF AccountsInv, AccountsTypeOK
<1>3. now' \in 0 .. MaxTime
  BY <1>1, <1>2, SmallNumbers
<1>4. QED
  BY <1>1, <1>2, <1>3, NothingAges, QuietKeepsInv

LEMMA StutterKeepsInv == ASSUME AccountsInv, UNCHANGED vars PROVE AccountsInv'
<1>1. UNCHANGED <<account, sessions, codes, call, now, wrong, orderly, resets>>
  BY DEF vars
<1>2. sessions \in [Sessions -> SessionRow] /\ now \in 0 .. MaxTime /\ codes \in [Codes -> CodeRow]
  BY DEF AccountsInv, AccountsTypeOK
<1>3. QED
  BY <1>1, <1>2, NothingAges, QuietKeepsInv

-----------------------------------------------------------------------------
(* The whole component                                                     *)

LEMMA AccountsInitInv == Init => AccountsInv
<1> SUFFICES ASSUME Init PROVE AccountsInv
  OBVIOUS
<1>1. /\ account = FirstRow
      /\ sessions = [s \in Sessions |-> [state |-> "none", expires |-> 0, password |-> None]]
      /\ codes = [k \in Codes |-> [kind |-> "reset", state |-> "none", expires |-> 0]]
      /\ call = [c \in Calls |-> IdleCall]
      /\ now = 0 /\ wrong = 0 /\ orderly = TRUE
      /\ resets = [answer |-> [p \in Passwords |-> "none"], replaced |-> {}]
  BY DEF Init
<1>2. 0 \in Time /\ 0 \in 0 .. MaxTime /\ 0 \in 0 .. MaxWrong
  BY SmallNumbers DEF Time
<1>3. sessions \in [Sessions -> SessionRow] /\ \A s \in Sessions : sessions[s].state = "none"
  BY <1>1, <1>2 DEF SessionRow
<1>4. codes \in [Codes -> CodeRow]
  BY <1>1, <1>2 DEF CodeRow
<1>5. call \in [Calls -> Call] /\ \A c \in Calls : call[c] = IdleCall /\ call[c].op = "idle"
  BY <1>1, IdleCallIsCall
<1>6. resets \in ResetsType /\ resets.replaced = {} /\ \A p \in Passwords : resets.answer[p] = "none"
  BY <1>1 DEF ResetsType
<1>7. AccountsTypeOK
  BY <1>1, <1>2, <1>3, <1>4, <1>5, <1>6, IdleCallIsCall DEF AccountsTypeOK, ResetsType
<1>8. \A c \in Calls : CallFits(call[c]) /\ CallInOrder(call[c])
  BY <1>1, <1>5, IdleCallFits
<1>9. RowFits(account)
  BY <1>1, IdleCallIsCall DEF RowFits
<1>10. ResetsInv /\ PasswordsInOrder
  <2>1. "none" \notin Codes
    BY AccountsAssumption
  <2>2. QED
    BY <2>1, <1>3, <1>6 DEF ResetsInv, CodeServesOneReset, PasswordsInOrder
<1>11. QED
  BY <1>5, <1>7, <1>8, <1>9, <1>10 DEF AccountsInv, Idle

LEMMA AccountsStepInv == AccountsInv /\ [Next]_vars => AccountsInv'
<1> SUFFICES ASSUME AccountsInv, [Next]_vars PROVE AccountsInv'
  OBVIOUS
<1>1. ASSUME NEW c \in Calls, Login(c) PROVE AccountsInv'
  BY <1>1, LoginWrongKeepsInv, LoginRightKeepsInv, UpdateLoginAttemptsKeepsInv,
     AttemptsNotPersistedKeepsInv, CreateSessionKeepsInv, LogoutKeepsInv DEF Login
<1>2. ASSUME NEW c \in Calls, Recovery(c) PROVE AccountsInv'
  BY <1>2, ResetPasswordKeepsInv, WritePasswordKeepsInv, RevokeAllKeepsInv,
     ConsumeResetKeepsInv, ReactivateAccountKeepsInv, ReactivateKeepsInv,
     ConsumeActivationKeepsInv, MailKeepsInv, VerifyKeepsInv DEF Recovery
<1>3. ASSUME NEW c \in Calls, Administration(c) PROVE AccountsInv'
  BY <1>3, ChangePasswordKeepsInv, StorePasswordKeepsInv, SetStatusKeepsInv,
     StoreStatusKeepsInv, UpdateOwnProfileKeepsInv, SaveUserKeepsInv DEF Administration
<1>4. QED
  BY <1>1, <1>2, <1>3, FailCallKeepsInv, TickKeepsInv, StutterKeepsInv DEF Next

\* However requests overlap and fail, what is stored and what is held fits.
THEOREM AccountsInvariant == Spec => []AccountsInv
<1>1. QED
  BY AccountsInitInv, AccountsStepInv, PTL DEF Spec

\* Rows and requests keep their types (the repositories' columns).
THEOREM AccountsTypeCorrect == Spec => []AccountsTypeOK
<1>1. AccountsInv => AccountsTypeOK
  BY DEF AccountsInv
<1>2. QED
  BY <1>1, AccountsInvariant, PTL

\* An account is only locked after the configured number of wrong passwords,
\* although Login writes back a counter that it read earlier.
THEOREM LockNeedsWrongPasswords == Spec => []LockedAfterWrongPasswords
<1>1. AccountsInv => LockedAfterWrongPasswords
  BY DEF AccountsInv, RowFits, LockedAfterWrongPasswords
<1>2. QED
  BY <1>1, AccountsInvariant, PTL

\* A code serves one reset whatever overlaps; and if requests do not overlap,
\* the password that a reset replaced opens no login and no session.
THEOREM ResetIsFinal == Spec => []ResetReplacesPassword
<1>1. AccountsInv => ResetReplacesPassword
  BY DEF AccountsInv, ResetsInv, PasswordsInOrder, Valid, ResetReplacesPassword
<1>2. QED
  BY <1>1, AccountsInvariant, PTL

\* The only writes that enable a disabled account are those of an administrator
\* and of an activation code, if requests do not overlap.
LEMMA DisabledStep ==
    AccountsInv /\ [Next]_vars =>
        (orderly' /\ account.status = "Disabled" /\ account'.status = "Active"
            => \E c \in Calls : call[c].op \in {"setStatus", "activate"} /\ call'[c] # call[c])
<1> SUFFICES ASSUME AccountsInv, [Next]_vars, orderly',
                    account.status = "Disabled", account'.status = "Active"
             PROVE  \E c \in Calls : call[c].op \in {"setStatus", "activate"} /\ call'[c] # call[c]
  OBVIOUS
<1>1. account \in AccountRow /\ account' # account /\ call \in [Calls -> Call]
  BY DEF AccountsInv, AccountsTypeOK
<1>2. ASSUME NEW c \in Calls, UpdateLoginAttempts(c) PROVE FALSE
  <2>1. orderly /\ call[c].op \in {"count", "clear"}
    BY <1>2 DEF UpdateLoginAttempts
  <2>2. account.status = "Active"
    BY <2>1, AtWork DEF CallInOrder
  <2>3. QED
    BY <2>2
<1>3. ASSUME NEW c \in Calls, SaveUser(c) PROVE FALSE
  <2>1. orderly /\ call[c].op = "save" /\ account' = call[c].row
    BY <1>3 DEF SaveUser
  <2>2. call[c].row = account
    BY <2>1, AtWork DEF CallInOrder
  <2>3. QED
    BY <1>1, <2>1, <2>2
<1>4. ASSUME NEW c \in Calls, WritePassword(c) \/ StorePassword(c) PROVE FALSE
  BY <1>1, <1>4 DEF WritePassword, StorePassword, AccountRow
<1>5. ASSUME NEW c \in Calls, Reactivate(c)
      PROVE  call[c].op \in {"setStatus", "activate"} /\ call'[c] # call[c]
  <2>1. call[c].op = "activate" /\ call'[c].op = "spend"
    BY <1>1, <1>5 DEF Reactivate, Call
  <2>2. QED
    BY <2>1
<1>6. ASSUME NEW c \in Calls, StoreStatus(c)
      PROVE  call[c].op \in {"setStatus", "activate"} /\ call'[c] # call[c]
  <2>1. call[c].op = "setStatus" /\ call'[c] = IdleCall
    BY <1>1, <1>6 DEF StoreStatus, Ends, Goes
  <2>2. QED
    BY <2>1, IdleCallIsCall
<1>7. ~UNCHANGED vars /\ ~Tick
  BY <1>1 DEF vars, Tick
<1>8. PICK c \in Calls : Login(c) \/ Recovery(c) \/ Administration(c) \/ FailCall(c)
  BY <1>7 DEF Next
<1>9. CASE Login(c)
  BY <1>1, <1>2, <1>9 DEF Login, LoginWrong, LoginRight, AttemptsNotPersisted, CreateSession, Logout
<1>10. CASE Recovery(c)
  <2>1. WritePassword(c) \/ Reactivate(c)
    BY <1>1, <1>10 DEF Recovery, ResetPassword, RevokeAll, ConsumeReset, ReactivateAccount,
       ConsumeActivation, ForgotPassword, RequestActivation, Verify
  <2>2. QED
    BY <2>1, <1>4, <1>5
<1>11. CASE Administration(c)
  <2>1. StorePassword(c) \/ StoreStatus(c) \/ SaveUser(c)
    BY <1>1, <1>11 DEF Administration, ChangePassword, SetStatus, UpdateOwnProfile
  <2>2. QED
    BY <2>1, <1>3, <1>4, <1>6
<1>12. CASE FailCall(c)
  BY <1>1, <1>12 DEF FailCall
<1>13. QED
  BY <1>8, <1>9, <1>10, <1>11, <1>12

\* Nothing the owner does enables a disabled account (Login, the reset, the
\* profile), as long as requests do not overlap.
THEOREM DisabledStays == Spec => DisabledStaysDisabled
<1>1. QED
  BY AccountsInvariant, DisabledStep, PTL DEF Spec, DisabledStaysDisabled
=============================================================================
