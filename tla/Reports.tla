------------------------------- MODULE Reports -------------------------------
(***************************************************************************)
(* The report pages: summary cards aggregated by raw SQL over one or more  *)
(* tables, and beside them a filtered, paginated table of rows read through *)
(* gorm's typed models (report_handler.go, report_service.go,              *)
(* report_repository.go), and the counters of the dashboard.               *)
(*                                                                         *)
(* Records disappear in two ways: the online pages set deleted_at (or      *)
(* delete the row of a table without that column), the offline             *)
(* synchronisation sets is_deleted.  Cards and tables ask for these        *)
(* columns separately, and repeat the filter separately, too.              *)
(*                                                                         *)
(* A row is a function from its columns to values; a value that a filter   *)
(* asks for is compared for equality (LOWER, TRIM and LIKE are left out).  *)
(***************************************************************************)
EXTENDS FiniteSetsExt, Functions, Integers

CONSTANTS
    ReportRows,      \* the row identities of all tables together
    Samples,         \* Samples[table]: the values new rows of the table may have
    Filters,         \* the query strings a user may send
    DefaultPageSize, \* 20 in the code
    MaxPageSize      \* 100 in the code

ASSUME ReportsAssumption ==
    /\ DefaultPageSize \in 1..MaxPageSize
    /\ MaxPageSize \in Nat
    \* Days are numbers, 0 is none; page and size are what the user sends.
    /\ Filters \subseteq [From : Nat, To : Nat, Status : STRING, Type : STRING,
                          Priority : STRING, Grade : STRING, Role : STRING,
                          Query : STRING, Page : Int, PageSize : Int]
    \* Revenue is income or expense, which the service checks.
    /\ "revenue_records" \in DOMAIN Samples =>
        \A value \in Samples["revenue_records"] :
            /\ value.amount \in Int
            /\ \/ value.record_type = "income" /\ value.signed = value.amount
               \/ value.record_type = "expense" /\ value.signed = -value.amount

VARIABLES
    reportStore,    \* the rows of the tables
    report          \* the report that is being put together

reportVars == <<reportStore, report>>

-----------------------------------------------------------------------------
(* Tables, filters and conditions                                          *)

\* Tables whose model has gorm's DeletedAt: the online deletion keeps the row.
SoftDeleted == {"users", "persons", "students", "donors", "donations",
                "aid_requests", "revenue_records"}

\* Tables a device may delete from: the adapters of cmd/server and the persons.
Synced == {"persons", "students", "donors", "aid_requests", "care_provided",
           "loans", "loan_repayments"}

NoRow == [table |-> "none", gone |-> FALSE, hidden |-> FALSE, value |-> <<>>]

Unfiltered == [From |-> 0, To |-> 0, Status |-> "", Type |-> "", Priority |-> "",
               Grade |-> "", Role |-> "", Query |-> "", Page |-> 1,
               PageSize |-> DefaultPageSize]

\* Which column each field of the filter narrows: the date range, the fields
\* compared for equality, and the columns the query is searched in.
Source(date, equals, search) == [date |-> date, equals |-> equals, search |-> search]

Matches(value, f, source) ==
    /\ f.From = 0 \/ value[source.date] >= f.From
    /\ f.To = 0 \/ value[source.date] <= f.To
    /\ \A e \in source.equals : f[e[2]] = "" \/ value[e[1]] = f[e[2]]
    /\ f.Query = "" \/ \E c \in source.search : value[c] = f.Query

\* The cards' side.  Every detail query below states its own.
reportSummarySources == [
    users |-> Source("created_at", {<<"status", "Status">>, <<"role", "Role">>},
                     {"username", "email"}),
    persons |-> Source("created_at", {<<"status", "Status">>}, {"full_name", "nic_passport"}),
    students |-> Source("created_at", {<<"status", "Status">>, <<"grade", "Grade">>},
                        {"full_name", "student_code", "school_name"}),
    donors |-> Source("created_at", {<<"status", "Status">>, <<"donor_type", "Type">>},
                      {"name", "email"}),
    donations |-> Source("donation_date",
                         {<<"status", "Status">>, <<"donation_type", "Type">>},
                         {"item_name", "reference_no", "description"}),
    aid_requests |-> Source("request_date",
                            {<<"status", "Status">>, <<"aid_type", "Type">>,
                             <<"priority", "Priority">>}, {"title", "description"}),
    care_provided |-> Source("provided_at", {<<"status", "Status">>, <<"care_type", "Type">>},
                             {"description", "care_type", "provided_by"}),
    loans |-> Source("created_at", {<<"status", "Status">>}, {"purpose"}),
    loan_repayments |-> Source("due_date", {<<"status", "Status">>},
                               {"payment_reference", "notes"}),
    revenue_records |-> Source("record_date",
                               {<<"category", "Status">>, <<"record_type", "Type">>},
                               {"description", "category", "reference_no"}),
    audit_logs |-> Source("created_at", {<<"entity", "Status">>, <<"action", "Type">>},
                          {"action", "entity", "details"})]

-----------------------------------------------------------------------------
(* What the aggregates read                                                *)

\* The soft-delete scope of the aggregates.
reportTableScope(row) ==
    CASE row.table = "users" -> ~row.gone
      [] row.table \in SoftDeleted \ {"users"} -> ~row.gone /\ ~row.hidden
      [] row.table \in {"loans", "loan_repayments", "care_provided"} -> ~row.hidden
      [] OTHER -> TRUE

\* The rows of a table within the scope that WithFilter has bound for it.
scopedFilter(table, f) ==
    {i \in ReportRows :
        /\ reportStore[i].table = table
        /\ reportTableScope(reportStore[i])
        /\ Matches(reportStore[i].value, f, reportSummarySources[table])}

In(rows, column, values) == {i \in rows : reportStore[i].value[column] \in values}

CountBy(rows, column) ==
    [v \in {reportStore[i].value[column] : i \in rows} |-> Cardinality(In(rows, column, {v}))]

Total(counts) == FoldFunction(+, 0, counts)

SumOf(rows, column) == MapThenSumSet(LAMBDA i : reportStore[i].value[column], rows)

countWhere(table, f) == Cardinality(scopedFilter(table, f))

sumWhere(table, column, f) == SumOf(scopedFilter(table, f), column)

groupCount(table, column, f) == CountBy(scopedFilter(table, f), column)

groupSum(table, column, by, f) ==
    LET rows == scopedFilter(table, f)
    IN [v \in {reportStore[i].value[by] : i \in rows} |-> SumOf(In(rows, by, {v}), column)]

\* Joined with the roles, which every user has one of.
groupUserCountByRole(f) == CountBy(scopedFilter("users", f), "role")

\* Pending and overdue installments, also within the filter of the loans.
outstandingRepayments(f) ==
    LET rows == In(scopedFilter("loan_repayments", f), "status", {"Pending", "Overdue"})
    IN [amount |-> SumOf(rows, "amount"), paid |-> SumOf(rows, "paid_amount")]

\* The cards of one report: its table, the total, the groups by column, the sums
\* by column, and what the report says of other tables.
Cards(table, total, groups, sums, others) ==
    [table |-> table, total |-> total, groups |-> groups, sums |-> sums, others |-> others]

None == [none |-> 0]

-----------------------------------------------------------------------------
(* The summaries: the total is what the groups by status add up to         *)

GetUsersReport(f) ==
    LET byStatus == groupCount("users", "status", f)
    IN Cards("users", Total(byStatus),
             [status |-> byStatus, role |-> groupUserCountByRole(f)], None, None)

\* Locked at the moment and never logged in are counted beside it.
GetAccountStatusReport == GetUsersReport(Unfiltered)

GetPersonReport(f) ==
    LET byStatus == groupCount("persons", "status", f)
    IN Cards("persons", Total(byStatus),
             [status |-> byStatus, gender |-> groupCount("persons", "gender", f)], None, None)

GetStudentReport(f) ==
    LET byStatus == groupCount("students", "status", f)
    IN Cards("students", Total(byStatus),
             [status |-> byStatus, grade |-> groupCount("students", "grade", f),
              academic_year |-> groupCount("students", "academic_year", f)], None, None)

\* The donations are counted within the filter of the donors.
GetDonorReport(f) ==
    LET byStatus == groupCount("donors", "status", f)
    IN Cards("donors", Total(byStatus),
             [status |-> byStatus, donor_type |-> groupCount("donors", "donor_type", f)], None,
             [donations |-> countWhere("donations", f),
              amount |-> sumWhere("donations", "amount", f)])

GetDonationReport(f) ==
    LET byStatus == groupCount("donations", "status", f)
    IN Cards("donations", Total(byStatus),
             [status |-> byStatus, donation_type |-> groupCount("donations", "donation_type", f)],
             [amount |-> sumWhere("donations", "amount", f)], None)

GetCareProvidedReport(f) ==
    LET byStatus == groupCount("care_provided", "status", f)
    IN Cards("care_provided", Total(byStatus),
             [status |-> byStatus, care_type |-> groupCount("care_provided", "care_type", f)],
             [amount |-> sumWhere("care_provided", "amount", f)], None)

GetLoanReport(f) ==
    LET byStatus == groupCount("loans", "status", f)
    IN Cards("loans", Total(byStatus), [status |-> byStatus], None,
             [disbursed |-> SumOf(In(scopedFilter("loans", f), "status",
                                     {"Approved", "Active", "Completed"}), "loan_amount"),
              outstanding |-> outstandingRepayments(f)])

GetLoanRepaymentReport(f) ==
    LET byStatus == groupCount("loan_repayments", "status", f)
    IN Cards("loan_repayments", Total(byStatus), [status |-> byStatus],
             [amount |-> sumWhere("loan_repayments", "amount", f),
              paid_amount |-> sumWhere("loan_repayments", "paid_amount", f)],
             [outstanding |-> outstandingRepayments(f)])

GetAidRequestReport(f) ==
    LET byStatus == groupCount("aid_requests", "status", f)
    IN Cards("aid_requests", Total(byStatus),
             [status |-> byStatus, aid_type |-> groupCount("aid_requests", "aid_type", f),
              priority |-> groupCount("aid_requests", "priority", f)],
             [requested_amount |-> sumWhere("aid_requests", "requested_amount", f),
              approved_amount |-> sumWhere("aid_requests", "approved_amount", f)], None)

\* The column "signed" stands for amount or -amount, by the type of the record.
GetRevenueReport(f) ==
    LET records(type) == In(scopedFilter("revenue_records", f), "record_type", {type})
    IN Cards("revenue_records", countWhere("revenue_records", f), <<>>, None,
             [income |-> SumOf(records("income"), "amount"),
              expense |-> SumOf(records("expense"), "amount"),
              byCategory |-> groupSum("revenue_records", "signed", "category", f)])

GetAuditLogReport(f) ==
    Cards("audit_logs", countWhere("audit_logs", f),
          [action |-> groupCount("audit_logs", "action", f),
           entity |-> groupCount("audit_logs", "entity", f)], None, None)

SystemAlertActions == {"LOGIN_FAILED", "ACCOUNT_LOCKED", "ACCESS_DENIED",
    "AUTHORIZATION_DENIED", "ACCOUNT_DISABLED", "PASSWORD_RESET", "SESSION_REVOKED"}

GetSystemAlertReport ==
    LET alerts == In(scopedFilter("audit_logs", Unfiltered), "action", SystemAlertActions)
    IN Cards("audit_logs", Cardinality(alerts),
             [action |-> CountBy(alerts, "action"), entity |-> CountBy(alerts, "entity")],
             None, None)

-----------------------------------------------------------------------------
(* The dashboard, the landing page and its cards                           *)

Entities == {"persons", "students", "donors", "donations", "aid_requests", "care_provided"}

GetDashboardReport ==
    [table \in Entities \cup {"users"} |-> countWhere(table, Unfiltered)]

\* Mutant: the rows deleted by a device are counted.
CountNotGone(table) ==
    Cardinality({i \in ReportRows : reportStore[i].table = table /\ ~reportStore[i].gone})

\* DashboardRepository: "Counts must exclude both or synced deletions inflate the
\* numbers."
Undeleted(table) ==
    {i \in ReportRows : /\ reportStore[i].table = table
                        /\ ~reportStore[i].gone
                        /\ ~reportStore[i].hidden}

Count(table) == Cardinality(Undeleted(table))

\* CountWithoutDeleted, of tables without deleted_at; gorm's count of the users.
NotHidden(table) == {i \in ReportRows : reportStore[i].table = table /\ ~reportStore[i].hidden}

NotGone(table) == {i \in ReportRows : reportStore[i].table = table /\ ~reportStore[i].gone}

\* What the dashboard of an administrator counts, by statements of its own.
GetStats ==
    [TotalUsers |-> Cardinality(NotGone("users")),
     ActiveUsers |-> Cardinality(In(NotGone("users"), "status", {"Active"})),
     persons |-> Count("persons"),
     students |-> Count("students"),
     donors |-> Count("donors"),
     ActiveLoans |-> Cardinality(In(NotHidden("loans"), "status", {"Active"})),
     PendingAidRequests |-> Cardinality(In(Undeleted("aid_requests"), "status", {"Pending"})),
     RevenueSummary |-> SumOf(Undeleted("revenue_records"), "signed")]

\* One number on a card of the landing page: the reports themselves, unfiltered.
InStatus(cards, status) ==
    IF status \in DOMAIN cards.groups["status"] THEN cards.groups["status"][status] ELSE 0

LandingPage ==
    [students |-> InStatus(GetStudentReport(Unfiltered), "Active"),
     donors |-> InStatus(GetDonorReport(Unfiltered), "Active"),
     aid_requests |-> InStatus(GetAidRequestReport(Unfiltered), "Pending"),
     care_provided |-> InStatus(GetCareProvidedReport(Unfiltered), "Completed"),
     donations |-> GetDonationReport(Unfiltered).total,
     loans |-> InStatus(GetLoanReport(Unfiltered), "Active")]

-----------------------------------------------------------------------------
(* The detail tables: typed models, each with conditions of its own        *)

\* The rows of the table that gorm finds under the conditions.
Find(table, f, source) ==
    {i \in ReportRows :
        /\ reportStore[i].table = table
        /\ ~reportStore[i].gone
        /\ Matches(reportStore[i].value, f, source)}

GetUserReportRows(f) ==
    Find("users", f, Source("created_at", {<<"status", "Status">>, <<"role", "Role">>},
                            {"username", "email"}))

GetPersonReportRows(f) ==
    Find("persons", f, Source("created_at", {<<"status", "Status">>},
                              {"full_name", "nic_passport"}))

GetStudentReportRows(f) ==
    Find("students", f, Source("created_at", {<<"status", "Status">>, <<"grade", "Grade">>},
                               {"full_name", "student_code", "school_name"}))

GetDonorReportRows(f) ==
    Find("donors", f, Source("created_at", {<<"status", "Status">>, <<"donor_type", "Type">>},
                             {"name", "email"}))

\* Mutant: the table is narrowed by the day the donation was entered on.
DonationRowsByEntry(f) ==
    Find("donations", f, Source("created_at",
                                {<<"status", "Status">>, <<"donation_type", "Type">>},
                                {"item_name", "reference_no", "description"}))

GetDonationReportRows(f) ==
    Find("donations", f, Source("donation_date",
                                {<<"status", "Status">>, <<"donation_type", "Type">>},
                                {"item_name", "reference_no", "description"}))

GetAidRequestReportRows(f) ==
    Find("aid_requests", f, Source("request_date",
                                   {<<"status", "Status">>, <<"priority", "Priority">>,
                                    <<"aid_type", "Type">>}, {"title", "description"}))

GetCareProvidedReportRows(f) ==
    {i \in Find("care_provided", f, Source("provided_at",
                                           {<<"status", "Status">>, <<"care_type", "Type">>},
                                           {"description", "care_type", "provided_by"})) :
        ~reportStore[i].hidden}

GetLoanReportRows(f) ==
    Find("loans", f, Source("created_at", {<<"status", "Status">>}, {"purpose"}))

GetLoanRepaymentReportRows(f) ==
    Find("loan_repayments", f, Source("due_date", {<<"status", "Status">>},
                                      {"payment_reference", "notes"}))

GetRevenueReportRows(f) ==
    Find("revenue_records", f, Source("record_date",
                                      {<<"record_type", "Type">>, <<"category", "Status">>},
                                      {"description", "category", "reference_no"}))

GetAuditLogReportRows(f) ==
    Find("audit_logs", f, Source("created_at", {<<"entity", "Status">>, <<"action", "Type">>},
                                 {"action", "entity", "details"}))

-----------------------------------------------------------------------------
(* A report request                                                        *)

ReportSlugs == {"users", "persons", "students", "donors", "donations", "aid-requests",
                "care-provided", "loans", "loan-repayments", "revenue", "audit-log"}

\* The cards are read through a view of the repository that is bound to the filter.
loadSummary(slug, f) ==
    CASE slug = "users" -> GetUsersReport(f)
      [] slug = "persons" -> GetPersonReport(f)
      [] slug = "students" -> GetStudentReport(f)
      [] slug = "donors" -> GetDonorReport(f)
      [] slug = "donations" -> GetDonationReport(f)
      [] slug = "aid-requests" -> GetAidRequestReport(f)
      [] slug = "care-provided" -> GetCareProvidedReport(f)
      [] slug = "loans" -> GetLoanReport(f)
      [] slug = "loan-repayments" -> GetLoanRepaymentReport(f)
      [] slug = "revenue" -> GetRevenueReport(f)
      [] slug = "audit-log" -> GetAuditLogReport(f)

loadRows(slug, f) ==
    CASE slug = "users" -> GetUserReportRows(f)
      [] slug = "persons" -> GetPersonReportRows(f)
      [] slug = "students" -> GetStudentReportRows(f)
      [] slug = "donors" -> GetDonorReportRows(f)
      [] slug = "donations" -> GetDonationReportRows(f)
      [] slug = "aid-requests" -> GetAidRequestReportRows(f)
      [] slug = "care-provided" -> GetCareProvidedReportRows(f)
      [] slug = "loans" -> GetLoanReportRows(f)
      [] slug = "loan-repayments" -> GetLoanRepaymentReportRows(f)
      [] slug = "revenue" -> GetRevenueReportRows(f)
      [] slug = "audit-log" -> GetAuditLogReportRows(f)

\* Page and page size are clamped before anything is read.
parseReportFilter(f) ==
    [f EXCEPT !.Page = IF f.Page < 1 THEN 1 ELSE f.Page,
              !.PageSize = IF f.PageSize < 1 THEN DefaultPageSize
                           ELSE IF f.PageSize > MaxPageSize THEN MaxPageSize ELSE f.PageSize]

\* How many of the rows the page shows, from its offset on.
normalizeReportPage(total, f) ==
    LET offset == (f.Page - 1) * f.PageSize
    IN IF total <= offset THEN 0
       ELSE IF total - offset < f.PageSize THEN total - offset ELSE f.PageSize

buildReportPagination(total, f) ==
    LET pages == (total + f.PageSize - 1) \div f.PageSize
    IN [pages |-> pages, hasPrev |-> f.Page > 1, hasNext |-> f.Page < pages]

NoReport == [step |-> "none", slug |-> "none", filter |-> Unfiltered, settled |-> TRUE,
             cards |-> Cards("none", 0, <<>>, None, None), rows |-> {}, shown |-> 0,
             links |-> [pages |-> 0, hasPrev |-> FALSE, hasNext |-> FALSE]]

\* A user opens a report: the cards are read first.
OpenReport(slug, query) ==
    LET f == parseReportFilter(query)
    IN /\ report.step = "none"
       /\ report' = [NoReport EXCEPT !.step = "cards", !.slug = slug, !.filter = f,
                                     !.cards = loadSummary(slug, f)]
       /\ UNCHANGED reportStore

\* Then the rows and their number, by statements of their own.
ServeReport ==
    LET rows == loadRows(report.slug, report.filter)
        total == Cardinality(rows)
    IN /\ report.step = "cards"
       /\ report' = [report EXCEPT !.step = "served", !.rows = rows,
                                   !.shown = normalizeReportPage(total, report.filter),
                                   !.links = buildReportPagination(total, report.filter)]
       /\ UNCHANGED reportStore

CloseReport ==
    /\ report.step = "served"
    /\ report' = NoReport
    /\ UNCHANGED reportStore

\* Other requests write.  A report under way is not settled any more.
Write(i, row) ==
    /\ report.step # "served"
    /\ reportStore' = [reportStore EXCEPT ![i] = row]
    /\ report' = IF report.step = "none" THEN report ELSE [report EXCEPT !.settled = FALSE]

InsertRow(i, table, value) ==
    /\ reportStore[i] = NoRow
    /\ Write(i, [table |-> table, gone |-> FALSE, hidden |-> FALSE, value |-> value])

DeleteOnline(i) ==
    /\ reportStore[i] # NoRow
    /\ reportStore[i].table # "audit_logs"
    /\ Write(i, IF reportStore[i].table \in SoftDeleted
                THEN [reportStore[i] EXCEPT !.gone = TRUE] ELSE NoRow)

\* The synchronised deletion sets is_deleted and leaves deleted_at alone.
DeleteBySync(i) ==
    /\ reportStore[i].table \in Synced
    /\ ~reportStore[i].gone
    /\ ~reportStore[i].hidden
    /\ Write(i, [reportStore[i] EXCEPT !.hidden = TRUE])

ReportsInit ==
    /\ reportStore = [i \in ReportRows |-> NoRow]
    /\ report = NoReport

\* Reports are opened among some, rows inserted in some tables.
ReportsStep(slugs, tables) ==
    \/ \E slug \in slugs, f \in Filters : OpenReport(slug, f)
    \/ ServeReport
    \/ CloseReport
    \/ \E i \in ReportRows : \E table \in tables : \E value \in Samples[table] :
        InsertRow(i, table, value)
    \/ \E i \in ReportRows : DeleteOnline(i) \/ DeleteBySync(i)

ReportsNext == ReportsStep(ReportSlugs, DOMAIN Samples)

ReportsSpec == ReportsInit /\ [][ReportsNext]_reportVars

-----------------------------------------------------------------------------

\* The cards are those of the rows the table lists.
CardsDescribe(cards, rows) ==
    /\ cards.total = Cardinality(rows)
    /\ \A column \in DOMAIN cards.groups : cards.groups[column] = CountBy(rows, column)
    /\ \A column \in DOMAIN cards.sums \ {"none"} : cards.sums[column] = SumOf(rows, column)

\* A row that was deleted by a device, which tables list and cards leave out.
HalfDeleted(i) == reportStore[i].hidden /\ ~reportStore[i].gone

\* "Summary numbers always match the row-level detail tables", for every report,
\* filter and page, as long as nothing is written between the two readings and no
\* row is half deleted; and a page has a next one exactly if rows are left for it.
CardsMatchTable ==
    report.step = "served" /\ report.settled /\ (\A i \in ReportRows : ~HalfDeleted(i)) =>
        /\ CardsDescribe(report.cards, report.rows)
        /\ LET before == (report.filter.Page - 1) * report.filter.PageSize
           IN report.links.hasNext <=> Cardinality(report.rows) > before + report.shown

\* The same without the exception: cards and table "must describe the same rows".
CardsDescribeTheTable ==
    report.step = "served" /\ report.settled => CardsDescribe(report.cards, report.rows)

\* All surfaces that count a table give one number, half-deleted rows or not: the
\* two dashboards, the landing page and the unfiltered reports; without such rows
\* it is that of the detail table, and the outstanding amount that of the
\* installments it lists as pending or overdue.
SurfacesAgree ==
  LET stats == GetStats
      board == GetDashboardReport
      landing == LandingPage
      accounts == GetAccountStatusReport
      revenue == GetRevenueReport(Unfiltered).others
  IN  report.step = "none" =>
        /\ board["persons"] = GetPersonReport(Unfiltered).total
        /\ \A table \in {"persons", "students", "donors"} :
                stats[table] = board[table]
        /\ stats["TotalUsers"] = board["users"]
        /\ stats["ActiveUsers"] = InStatus(accounts, "Active")
        /\ stats["ActiveLoans"] = landing["loans"]
        /\ stats["PendingAidRequests"] = landing["aid_requests"]
        /\ landing["donations"] = board["donations"]
        /\ accounts.total = board["users"]
        /\ GetSystemAlertReport.total <= GetAuditLogReport(Unfiltered).total
        /\ stats["RevenueSummary"] = revenue["income"]
                                          - revenue["expense"]
        /\ stats["RevenueSummary"] = Total(revenue["byCategory"])
        /\ (\A i \in ReportRows : ~HalfDeleted(i)) =>
            /\ landing["students"] =
                  Cardinality(GetStudentReportRows([Unfiltered EXCEPT !.Status = "Active"]))
            /\ landing["loans"] =
                  Cardinality(GetLoanReportRows([Unfiltered EXCEPT !.Status = "Active"]))
            /\ GetDonorReport(Unfiltered).others["donations"] =
                  Cardinality(GetDonationReportRows(Unfiltered))
            /\ GetLoanReport(Unfiltered).others["outstanding"].amount =
                  SumOf(In(GetLoanRepaymentReportRows(Unfiltered), "status",
                           {"Pending", "Overdue"}), "amount")
=============================================================================
