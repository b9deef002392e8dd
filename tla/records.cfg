SPECIFICATION Spec
CONSTANTS
    i1 = i1
    i2 = i2
    i3 = i3
    u1 = u1
    u2 = u2
    c1 = c1
    c2 = c2
    t1 = t1
    t2 = t2
    r1 = r1
    r2 = r2
    Persons = {p1}
    Users = {u1, u2}
    Reviewers = {u1, u2}
    Nobody = Nobody
    Loans = {i1, i2}
    Terms = {t1, t2}
    LoanCalls = {c1, c2}
    Aids = {a1}
    Amounts = {1, 2, 3}
    AidCalls = {c1, c2}
    ReportRows = {r1, r2}
    PlainRow = r2
    Samples <- MCSamples
    Filters <- MCFilters
    DefaultPageSize = 1
    MaxPageSize = 2
    Ids = {i1, i2, i3}
    Kinds = {"person", "student", "donor", "donation", "care", "revenue"}
    Keys = {t1, t2}
    NoKey = NoKey
    Indexed = {"person", "student", "donation", "revenue"}
    Attempts = 3
    Codes = {2}
    Requests = {c1, c2}
    Releases <- MCReleases
    Operators = {c1, c2}
    Repayments <- MCRepayments
    NoRelease = NoRelease
    Clients = {t1, t2}
    Handlers = {c1, c2}
    Limit = 2
    Window = 2
    NoClient = NoClient
    Accounts = {u1, u2}
    NoAccount = NoAccount
    OfflineWindow = 2
    MaxWait = 1
    Items = {i1, i2, i3}
    Members = {u1, u2}
    Days = {1, 2, 3}
    NoMember = NoMember
    ShortPage = 1
    LongPage = 2
    MaxListPage = 2
SYMMETRY Symmetry
CHECK_DEADLOCK FALSE
INVARIANTS
    FourEyes
    ApprovedTermsWereReviewed
    MoneyMatchesStatus
    DecidedByAnother
    GrantedAsRead
    CardsMatchTable
    SurfacesAgree
    ChangesAreAudited
    KeysAreUnique
    CompletedCareStays
    AppliedAsReleased
    EarliestIsKept
    BurstIsBounded
    AccountBoundary
    WindowIsEarned
    NothingMissed
    ListedCanBeOpened
