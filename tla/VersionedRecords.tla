-------------------------- MODULE VersionedRecords --------------------------
(***************************************************************************)
(* What optimistic locking promises the devices that work offline: each    *)
(* change is accepted at most once, and every change that is accepted is a *)
(* step of its record's history, from one version to the next.             *)
(***************************************************************************)
EXTENDS Naturals

CONSTANTS
    Records,    \* the shared records
    Ops         \* the changes the devices may make

VARIABLES
    version,    \* the version of each record, 0 before it exists
    value,      \* the change each record shows
    accepted    \* the changes that took effect

recordVars == <<version, value, accepted>>

CONSTANT NoOp   \* the content of a record that was never written

RecordsInit ==
    /\ version = [r \in Records |-> 0]
    /\ value = [r \in Records |-> NoOp]
    /\ accepted = {}

\* Change o becomes the next version of record r.
Accept(r, o) ==
    /\ o \notin accepted
    /\ version' = [version EXCEPT ![r] = @ + 1]
    /\ value' = [value EXCEPT ![r] = o]
    /\ accepted' = accepted \cup {o}

RecordsNext == \E r \in Records, o \in Ops : Accept(r, o)

RecordsSpec == RecordsInit /\ [][RecordsNext]_recordVars
=============================================================================
