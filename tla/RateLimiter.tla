----------------------------- MODULE RateLimiter -----------------------------
(***************************************************************************)
(* middleware/rate_limit.go: the attempts of every client address within a *)
(* sliding window.  A request is checked in one critical section and       *)
(* recorded in another; the clean-up runs beside them.                     *)
(*                                                                         *)
(* An attempt is its age: 0 when it is recorded, Window when it does not   *)
(* count any more.  Reads (GET, HEAD, OPTIONS) pass unseen.                *)
(***************************************************************************)
EXTENDS FiniteSets, Naturals, Sequences

CONSTANTS
    Clients,        \* addresses
    Handlers,       \* the requests the server may be running at once
    Limit,          \* 5, 3, 3 or 30 in the code
    Window,         \* 15, 10, 15 minutes or 1 minute in the code
    NoClient        \* no request under way

ASSUME RateAssumption ==
    /\ Limit \in Nat \ {0}
    /\ Window \in Nat \ {0}
    /\ NoClient \notin Clients
    /\ IsFiniteSet(Handlers)

VARIABLES
    attempts,       \* attempts[client]: the recorded ages, oldest first
    passing         \* passing[h]: the client whose request is allowed and not yet recorded

rateVars == <<attempts, passing>>

\* The loop that keeps what is younger than the window: attempts are recorded in the
\* order of time, and the stale ones are the first.
Stale(ages) == {n \in DOMAIN ages : ages[n] >= Window}

Fresh(ages) == SubSeq(ages, Cardinality(Stale(ages)) + 1, Len(ages))

RateInit ==
    /\ attempts = [k \in Clients |-> <<>>]
    /\ passing = [h \in Handlers |-> NoClient]

\* Mutant: as many as the limit may be on record already.
Below(valid) == Len(valid) <= Limit

Allows(valid) == Len(valid) < Limit

\* The check forgets the stale attempts, whatever it decides.
isAllowed(h, k) ==
    LET valid == Fresh(attempts[k])
    IN /\ passing[h] = NoClient
       /\ attempts' = [attempts EXCEPT ![k] = valid]
       /\ passing' = IF Allows(valid) THEN [passing EXCEPT ![h] = k] ELSE passing

record(h) ==
    /\ passing[h] # NoClient
    /\ attempts' = [attempts EXCEPT ![passing[h]] = Append(@, 0)]
    /\ passing' = [passing EXCEPT ![h] = NoClient]

\* Every five minutes, for all clients under one lock.
prune ==
    /\ attempts' = [k \in Clients |-> Fresh(attempts[k])]
    /\ UNCHANGED passing

\* Time passes.  Ages are not told apart beyond the window.
Age ==
    /\ attempts' = [k \in Clients |->
            [n \in DOMAIN attempts[k] |->
                IF attempts[k][n] < Window THEN attempts[k][n] + 1 ELSE Window]]
    /\ UNCHANGED passing

RateNext ==
    \/ \E h \in Handlers, k \in Clients : isAllowed(h, k)
    \/ \E h \in Handlers : record(h)
    \/ prune
    \/ Age

RateSpec == RateInit /\ [][RateNext]_rateVars

-----------------------------------------------------------------------------

\* "limits login attempts to 5 per 15 minutes per IP": within a window a client gets
\* no more requests through than the limit and those that were checked together with
\* the last one, and what is under way is part of them, however checks, records,
\* clean-up and time interleave.
BurstIsBounded ==
    \A k \in Clients :
        LET underWay == {h \in Handlers : passing[h] = k}
        IN Len(Fresh(attempts[k])) + Cardinality(underWay)
               < Limit + Cardinality(Handlers)
=============================================================================
