------------------------------ MODULE MCRecords ------------------------------
(* The parts of the server and the device that share no variable with each   *)
(* other, side by side: a behaviour chooses its part in the first state, so   *)
(* that the state spaces add up.                                              *)
EXTENDS Loans, AidRequests, Reports, Registry, Migrator, RateLimiter, OfflineSession,
        Listings, TLC

CONSTANTS
    i1, i2, i3,     \* rows; the first two are interchangeable
    PlainRow        \* the row of the reports that varies less

VARIABLE
    focus           \* the part that runs, and the tables and reports it is confined to

-----------------------------------------------------------------------------
(* Reports: two rows, days 1 and 2                                            *)

\* The columns of a table: day, status, numbers, and texts.
Columns(days, status, statuses, texts, numbers) ==
    [days |-> days, status |-> status, statuses |-> statuses, texts |-> texts,
     numbers |-> numbers]

Created == {"created_at"}

TableColumns == [
    users |-> Columns(Created, "status", {"Active", "Locked"}, {"role", "username", "email"}, {}),
    persons |-> Columns(Created, "status", {"Active", "Pending"},
                        {"gender", "full_name", "nic_passport"}, {}),
    students |-> Columns(Created, "status", {"Active", "Pending"},
                         {"grade", "full_name", "student_code", "school_name"},
                         {"academic_year"}),
    donors |-> Columns(Created, "status", {"Active", "Pending"},
                       {"donor_type", "name", "email"}, {}),
    donations |-> Columns(Created \cup {"donation_date"}, "status", {"Pending", "Confirmed"},
                          {"donation_type", "item_name", "reference_no", "description"},
                          {"amount"}),
    aid_requests |-> Columns(Created \cup {"request_date"}, "status", {"Pending", "Approved"},
                             {"aid_type", "priority", "title", "description"},
                             {"requested_amount", "approved_amount"}),
    care_provided |-> Columns(Created \cup {"provided_at"}, "status", {"Pending", "Completed"},
                              {"care_type", "description", "provided_by"}, {"amount"}),
    loans |-> Columns(Created, "status", {"Active", "Pending"}, {"purpose"}, {"loan_amount"}),
    loan_repayments |-> Columns(Created \cup {"due_date"}, "status", {"Pending", "Paid"},
                                {"payment_reference", "notes"}, {"amount", "paid_amount"}),
    revenue_records |-> Columns(Created \cup {"record_date"}, "category", {"Active", "Pending"},
                                {"description", "reference_no"}, {"amount"}),
    audit_logs |-> Columns(Created, "entity", {"Active", "Pending"}, {"details"}, {})]

\* What the tables of revenue and audit have beside them: income on the first day,
\* a failed login on the first day.
Extra(table, d) ==
    CASE table = "revenue_records" /\ d = 1 -> [record_type |-> "income", signed |-> 1]
      [] table = "revenue_records" /\ d = 2 -> [record_type |-> "expense", signed |-> -2]
      [] table = "audit_logs" /\ d = 1 -> [action |-> "LOGIN_FAILED"]
      [] table = "audit_logs" /\ d = 2 -> [action |-> "LOGIN"]
      [] OTHER -> <<>>

\* A row of day d and status s with what the filters ask for in the column "hit".
Value(table, d, s, hit) ==
    LET t == TableColumns[table]
    IN [c \in t.days \cup {t.status} \cup t.texts \cup t.numbers |->
            CASE c = "created_at" -> d
              [] c \in t.days \ Created -> 3 - d
              [] c = t.status -> s
              [] c \in t.numbers -> d
              [] OTHER -> IF c = hit THEN "x" ELSE "y"] @@ Extra(table, d)

PlainSamples == [table \in DOMAIN TableColumns |->
    {Value(table, d, s, "none") : d \in 1..2, s \in TableColumns[table].statuses}]

MCSamples == [table \in DOMAIN TableColumns |->
    PlainSamples[table] \cup
        {Value(table, 2, s, hit) :
            s \in {CHOOSE s \in TableColumns[table].statuses : s \in {"Active", "Pending"}},
            hit \in TableColumns[table].texts}]

\* The second row of a behaviour has no such column.
SecondSamples ==
    UNION {{Value(table, 1, s, "none") : s \in TableColumns[table].statuses} :
        table \in DOMAIN TableColumns}

MCFilters ==
    {Unfiltered, [Unfiltered EXCEPT !.From = 2], [Unfiltered EXCEPT !.To = 1],
     [Unfiltered EXCEPT !.Type = "x"], [Unfiltered EXCEPT !.Type = "income"],
     [Unfiltered EXCEPT !.Priority = "x"], [Unfiltered EXCEPT !.Role = "x"],
     [Unfiltered EXCEPT !.Grade = "x"], [Unfiltered EXCEPT !.Query = "x"],
     [Unfiltered EXCEPT !.Status = "Active", !.PageSize = 0],
     [Unfiltered EXCEPT !.Status = "Pending", !.Query = "x", !.Page = 0],
     [Unfiltered EXCEPT !.Page = 2, !.PageSize = 5]}

-----------------------------------------------------------------------------
(* Migrations: releases that extend and contradict each other; installments   *)

MCReleases == {<<"a", "b">>, <<"a", "b", "c">>, <<"a", "x", "y">>}

Installment(group, created, id) == [group |-> group, created |-> created, id |-> id]

MCRepayments == {Installment("g", 1, 1), Installment("g", 1, 2), Installment("g", 2, 3),
                 Installment("h", 1, 4)}

-----------------------------------------------------------------------------
(* The parts                                                                  *)

\* The tables a behaviour writes, and the reports it opens.
ReportAreas == {<<{"users"}, {"users"}>>, <<{"persons"}, {"persons"}>>,
    <<{"students"}, {"students"}>>, <<{"donors", "donations"}, {"donors"}>>,
    <<{"donations"}, {"donations"}>>,
    <<{"aid_requests"}, {"aid-requests"}>>, <<{"care_provided"}, {"care-provided"}>>,
    <<{"loans", "loan_repayments"}, {"loans"}>>,
    <<{"loan_repayments"}, {"loan-repayments"}>>,
    <<{"revenue_records"}, {"revenue"}>>, <<{"audit_logs"}, {"audit-log"}>>}

\* The tables a behaviour writes, the rows it needs, and the tables devices push to.
RegistryAreas ==
    {<<{"person", "student"}, {i1, i2, i3}, {"student"}>>, <<{"person"}, {i1, i2}, {"person"}>>,
     <<{"donor", "donation"}, {i1, i2}, {}>>, <<{"donor"}, {i3}, {"donor"}>>,
     <<{"care"}, {i3}, {"care"}>>, <<{"revenue"}, {i1, i2}, {}>>}

Parts == {"loans", "aid", "migrations", "repairs", "limiter", "offline", "lists"}

\* Tables listed by day, and by nothing else.
DayOnly == {list.table : list \in {l \in Lists : l.order \in {"date ASC", "date DESC"}}}
Dated == {list.table : list \in {l \in Lists : l.order # "created_at DESC"}}

\* Rows that fit no field of a query, or whose owner is not the first one's.
Outside ==
    {i \in Stored :
        \/ listRows[i].facts # Fields
        \/ \E j \in Stored : /\ listRows[j].at = 1
                             /\ listRows[j].created_by_id # listRows[i].created_by_id}

Foci == {<<part, {}, {}>> : part \in Parts}
            \cup {<<"reports", a[1], a[2]>> : a \in ReportAreas}
            \cup {<<"registry", a[1], a[2], a[3]>> : a \in RegistryAreas}

loanParts == <<loans, loanCall>>
aidParts == <<aids, aidCall>>
serverVars == <<migratorVars, repairVars, rateVars>>
vars == <<loanParts, aidParts, personActive, reportVars, registryVars, serverVars,
          offlineVars, listVars, focus>>

Init ==
    /\ focus \in Foci
    /\ LoansInit
    /\ AidInit
    /\ ReportsInit
    /\ RegistryInit
    /\ MigratorInit
    /\ RepairInit
    /\ RateInit
    /\ OfflineInit
    /\ ListsInit
    /\ focus[1] # "lists" => listed = "persons"

LoansPart ==
    /\ focus[1] = "loans"
    /\ LoansNext
    /\ UNCHANGED <<aidParts, reportVars, registryVars, serverVars, offlineVars, listVars,
                   focus>>

AidPart ==
    /\ focus[1] = "aid"
    /\ AidNext
    /\ UNCHANGED <<loanParts, reportVars, registryVars, serverVars, offlineVars, listVars,
                   focus>>

\* One row is written while a report is under way, the plain one, and it is never
\* deleted by a device.
ReportsPart ==
    /\ focus[1] = "reports"
    /\ ReportsStep(focus[3], focus[2])
    /\ reportStore'[PlainRow] = NoRow \/ reportStore'[PlainRow].value \in SecondSamples
    /\ ~reportStore'[PlainRow].hidden
    /\ reportStore' # reportStore /\ report.step # "none" =>
        /\ \A i \in ReportRows \ {PlainRow} : reportStore'[i] = reportStore[i]
        /\ reportStore[PlainRow] # NoRow
        /\ report.settled
    /\ UNCHANGED <<loanParts, aidParts, personActive, registryVars, serverVars, offlineVars,
                   listVars, focus>>

\* All rows, the ones that requests are about to write included.
Rows == {registry[i] : i \in Ids} \cup {request[c].row : c \in Requests}

\* Devices write one row of a behaviour, again and again, a student where there is one
\* person.
\* Cancelled donations are left out: the rules only tell confirmed ones from others.
\* Who gives is an individual: donations do not look at the type of their donor.
RegistryPart ==
    /\ focus[1] = "registry"
    /\ RegistryNext
    /\ \A c \in Requests : request'[c] # IdleRequest =>
        /\ request'[c].id \in focus[3]
        /\ request'[c].op = "push" => request'[c].row.kind \in focus[4]
        /\ request'[c].row.kind \in focus[2] \cup {"none"}
        /\ request'[c].row.status = "Cancelled" => registry[request'[c].id].kind = "care"
    /\ \A i \in Ids : registry'[i] # NoRecord =>
        i \in focus[3] /\ registry'[i].kind \in focus[2]
    /\ \A e \in pushes' : /\ registry'[e[1]].kind \in focus[4]
                          /\ \A f \in pushes' : e[1] = f[1]
                          /\ registry'[e[1]].kind = "student" =>
                                Cardinality(OfKind("person")') = 1
    /\ ~ \E donor, donation \in Rows' :
            donor.type = "Organization" /\ donation.kind = "donation"
    /\ UNCHANGED <<loanParts, aidParts, personActive, reportVars, serverVars, offlineVars,
                   listVars, focus>>

ServerPart ==
    /\ \/ focus[1] = "migrations" /\ MigratorNext /\ UNCHANGED <<repairVars, rateVars>>
       \/ focus[1] = "repairs" /\ RepairNext /\ UNCHANGED <<migratorVars, rateVars>>
       \/ focus[1] = "limiter" /\ RateNext /\ UNCHANGED <<migratorVars, repairVars>>
    /\ UNCHANGED <<loanParts, aidParts, personActive, reportVars, registryVars, offlineVars,
                   listVars, focus>>

OfflinePart ==
    /\ focus[1] = "offline"
    /\ OfflineNext
    /\ UNCHANGED <<loanParts, aidParts, personActive, reportVars, registryVars, serverVars,
                   listVars, focus>>

\* Two messages, and three other rows of which one is outside the list, where days
\* count only among two.  Days do not repeat where they are all of the order.  Walks
\* that are not judged are not followed.
ListsPart ==
    /\ focus[1] = "lists"
    /\ ListsNext
    /\ walk'.settled
    /\ listRows'[i3] # NoItem => Cardinality(Stored) >= 2
    /\ listed = "messages" => listRows'[i3] = NoItem
    /\ listed \in RecordTables =>
        Cardinality(Outside') <= IF listed \in Dated /\ listRows'[i3] # NoItem THEN 0 ELSE 1
    /\ \A i, j \in Items : listRows'[i] # NoItem /\ listRows'[j] # NoItem =>
        /\ listed \in DayOnly /\ i # j => listRows'[i].date # listRows'[j].date
        /\ listed \in Dated \ DayOnly => listRows'[i].date < 3
        /\ listed \notin Dated => listRows'[i].date < 2
    /\ UNCHANGED <<loanParts, aidParts, personActive, reportVars, registryVars, serverVars,
                   offlineVars, focus>>

Next == LoansPart \/ AidPart \/ ReportsPart \/ RegistryPart \/ ServerPart \/ OfflinePart
            \/ ListsPart

Spec == Init /\ [][Next]_vars

Symmetry == Permutations({i1, i2}) \cup Permutations(AidCalls) \cup Permutations(Users)
                \cup Permutations(Keys)
=============================================================================
