------------------------------ MODULE Migrator ------------------------------
(***************************************************************************)
(* Schema migrations (database/migrator.go, cmd/migrate) and the repair of *)
(* duplicate installments (database/repair.go): operators who run the      *)
(* command with the binaries of different releases, perhaps at once, and   *)
(* servers that verify the schema when they start.                         *)
(*                                                                         *)
(* A release is the sequence of its migration files; a file is what its    *)
(* checksum says, so that a file changed later is another value.           *)
(***************************************************************************)
EXTENDS FiniteSets, Functions, Naturals, Sequences

CONSTANTS
    Releases,       \* the sequences of files that binaries carry
    Operators,      \* commands that may run at once
    Repayments,     \* the rows of loan_repayments: [group, created, id]
    NoRelease       \* no command, no server

ASSUME MigratorAssumption ==
    /\ \A r \in Releases : Len(r) \in Nat /\ DOMAIN r = 1..Len(r)
    /\ NoRelease \notin Releases
    /\ \A p \in Repayments : p.created \in Nat /\ p.id \in Nat
    /\ \A p, q \in Repayments : p.id = q.id => p = q    \* the primary key

VARIABLES
    schema,         \* the files whose SQL was committed, in that order
    tracked,        \* the table schema_migrations: version to checksum
    operator,       \* what each command has read and does next
    serving,        \* the releases of the production servers that run
    repayRows,      \* the rows of loan_repayments
    uniqueIndex,    \* whether uk_loan_repayment_installment exists
    repairing,      \* the rows each repair has deleted and not committed
    removed         \* history: the rows that were deleted

migratorVars == <<schema, tracked, operator, serving>>
repairVars == <<repayRows, uniqueIndex, repairing, removed>>

-----------------------------------------------------------------------------
(* Migrations                                                              *)

IdleOperator == [release |-> NoRelease, upTo |-> 0, applied |-> <<>>, next |-> 0]

\* A file is known by its version, its place in the release.
NoRecords == [v \in {} |-> v]

MigratorInit ==
    /\ schema = <<>>
    /\ tracked = NoRecords
    /\ operator = [o \in Operators |-> IdleOperator]
    /\ serving = {}

\* "up --to n": the tracked records are read once, before the first file.
MigrateUpTo(o, r, n) ==
    /\ operator[o] = IdleOperator
    /\ operator' = [operator EXCEPT ![o] =
            [release |-> r, upTo |-> n, applied |-> tracked, next |-> 1]]
    /\ UNCHANGED <<schema, tracked, serving>>

Running(o) == operator[o].release # NoRelease

\* The file the command is at.
File(o) == operator[o].release[operator[o].next]

Known(o) == operator[o].next \in DOMAIN operator[o].applied

Done(o) == operator[o].next > operator[o].upTo \/ operator[o].next > Len(operator[o].release)

Stop(o) ==
    /\ operator' = [operator EXCEPT ![o] = IdleOperator]
    /\ UNCHANGED <<schema, tracked, serving>>

\* Mutant: an applied file is passed over whatever its checksum.
SkipAnyApplied(o) ==
    /\ Running(o) /\ ~Done(o) /\ Known(o)
    /\ operator' = [operator EXCEPT ![o].next = @ + 1]
    /\ UNCHANGED <<schema, tracked, serving>>

SkipApplied(o) ==
    /\ Running(o) /\ ~Done(o) /\ Known(o)
    /\ operator[o].applied[operator[o].next] = File(o)
    /\ operator' = [operator EXCEPT ![o].next = @ + 1]
    /\ UNCHANGED <<schema, tracked, serving>>

\* The SQL and its record in one transaction; the version is the primary key of the
\* records, so that a version recorded meanwhile rolls it back.
ApplyFile(o) ==
    LET version == operator[o].next
    IN /\ Running(o) /\ ~Done(o) /\ ~Known(o)
       /\ version \notin DOMAIN tracked
       /\ schema' = Append(schema, [version |-> version, file |-> File(o)])
       /\ tracked' = [v \in DOMAIN tracked \cup {version} |->
                          IF v = version THEN File(o) ELSE tracked[v]]
       /\ operator' = [operator EXCEPT ![o].next = @ + 1]
       /\ UNCHANGED serving

\* The command ends: all is applied, a checksum differs, the SQL or the record fails
\* and is rolled back, or the operator stops it.
EndCommand(o) == Running(o) /\ Stop(o)

\* Status and VerifyUpToDate read, and never create the table.
VerifyUpToDate(r) ==
    \A v \in 1..Len(r) : v \in DOMAIN tracked /\ tracked[v] = r[v]

StartServer(r) ==
    /\ VerifyUpToDate(r)
    /\ serving' = serving \cup {r}
    /\ UNCHANGED <<schema, tracked, operator>>

StopServer(r) ==
    /\ r \in serving
    /\ serving' = serving \ {r}
    /\ UNCHANGED <<schema, tracked, operator>>

MigratorNext ==
    \/ \E o \in Operators, r \in Releases : \E n \in 1..Len(r) : MigrateUpTo(o, r, n)
    \/ \E o \in Operators : SkipApplied(o) \/ ApplyFile(o) \/ EndCommand(o)
    \/ \E r \in Releases : StartServer(r) \/ StopServer(r)

MigratorSpec == MigratorInit /\ [][MigratorNext]_migratorVars

-----------------------------------------------------------------------------
(* Duplicate installments                                                  *)

RepairInit ==
    /\ repayRows = {}
    /\ uniqueIndex = FALSE
    /\ repairing = [o \in Operators |-> {}]
    /\ removed = {}

Earlier(p, q) ==
    /\ p.group = q.group
    /\ p.created < q.created \/ (p.created = q.created /\ p.id < q.id)

\* Mutant: rows of one instant are duplicates of each other.
RepeatedRows(rows) ==
    {q \in rows : \E p \in rows \ {q} : p.group = q.group /\ p.created <= q.created}

\* The rows that the DELETE of the repair finds.
Duplicates(rows) == {q \in rows : \E p \in rows : Earlier(p, q)}

\* A server stores a row; the index, where it exists, refuses a second of its group.
InsertRepayment(p) ==
    /\ p \notin repayRows \cup removed
    /\ uniqueIndex => \A q \in repayRows : q.group # p.group
    /\ repayRows' = repayRows \cup {p}
    /\ UNCHANGED <<uniqueIndex, repairing, removed>>

CreateIndex(rows) == uniqueIndex' = TRUE /\ Duplicates(rows) = {}

\* Nothing to repair, or the start of a development server: the index only, which
\* fails when a duplicate has come since the count.
EnsureIndex ==
    /\ CreateIndex(repayRows)
    /\ UNCHANGED <<repayRows, repairing, removed>>

\* "--confirm": the DELETE, of rows no other repair has deleted before.
BeginRepair(o) ==
    /\ repairing[o] = {}
    /\ Duplicates(repayRows) # {}
    /\ \A other \in Operators : repairing[other] = {}
    /\ repairing' = [repairing EXCEPT ![o] = Duplicates(repayRows)]
    /\ UNCHANGED <<repayRows, uniqueIndex, removed>>

\* The index is created on what is left, and both are committed.
CommitRepair(o) ==
    /\ repairing[o] # {}
    /\ CreateIndex(repayRows \ repairing[o])
    /\ repayRows' = repayRows \ repairing[o]
    /\ removed' = removed \cup repairing[o]
    /\ repairing' = [repairing EXCEPT ![o] = {}]

\* A row that came after the DELETE keeps the index from being created.
RollBackRepair(o) ==
    /\ repairing[o] # {}
    /\ repairing' = [repairing EXCEPT ![o] = {}]
    /\ UNCHANGED <<repayRows, uniqueIndex, removed>>

RepairNext ==
    \/ \E p \in Repayments : InsertRepayment(p)
    \/ EnsureIndex
    \/ \E o \in Operators : BeginRepair(o) \/ CommitRepair(o) \/ RollBackRepair(o)

RepairSpec == RepairInit /\ [][RepairNext]_repairVars

-----------------------------------------------------------------------------

\* "Never an applied-but-unrecorded or recorded-but-unapplied state": the files were
\* applied once each, in order, and are the tracked ones; and each was applied, and
\* every server runs, on top of exactly the files of its own release, also when two
\* operators migrate at once with different releases and commands fail half-way.
AppliedAsReleased ==
    /\ \A n \in DOMAIN schema : schema[n].version = n
    /\ DOMAIN tracked = DOMAIN schema
    /\ \A v \in DOMAIN tracked : tracked[v] = schema[v].file
    /\ \A n \in DOMAIN schema : \E r \in Releases :
        \A v \in 1..n : v \in DOMAIN r /\ r[v] = schema[v].file
    /\ \A r \in serving : \A v \in 1..Len(r) : tracked[v] = r[v]

\* "Keeping the earliest row": whatever is inserted meanwhile, a row that a repair has
\* removed is a later duplicate of one that is left, and with the index in place no
\* duplicates are.
EarliestIsKept ==
    /\ \A q \in removed : \E p \in repayRows : Earlier(p, q)
    /\ uniqueIndex => \A p, q \in repayRows : p # q => p.group # q.group
=============================================================================
