SPECIFICATION FairSpec
CONSTANTS
    Loans = {l1}
    Persons = {p1}
    Users = {u1, u2}
    Reviewers = {u2}
    Terms = {t1}
    LoanCalls = {c1}
    Nobody = Nobody
    Numbers = {1, 2}
    Amounts = {1, 2}
    Payments = {1}
    Days = {0, 1}
    MaxDay = 1
    MaxReceived = 2
    PageSize = 1
    PayCalls = {q1}
INVARIANTS
    SettledMeansPaid
    CreditedWasReceived
    SettledLoanIsClosed
PROPERTIES
    PastDueIsSwept
