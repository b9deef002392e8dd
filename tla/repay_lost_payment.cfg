SPECIFICATION Spec
CONSTANTS
    Loans = {l1}
    Persons = {p1}
    Users = {u1, u2}
    Reviewers = {u2}
    Terms = {t1}
    LoanCalls = {c1}
    Nobody = Nobody
    Numbers = {1}
    Amounts = {2}
    Payments = {1, 2}
    Days = {0}
    MaxDay = 1
    MaxReceived = 4
    PageSize = 1
    PayCalls = {q1, q2}
INVARIANT
    LedgerBalanced
