SPECIFICATION Spec
CONSTANTS
    Passwords = {p0, p1, p2}
    FirstPassword = p0
    Sessions = {s1}
    Codes = {k1}
    Calls = {c1, c2}
    MaxAttempts = 2
    MaxWrong = 2
    LockTime = 1
    CodeLife = 1
    SessionLife = 2
    MaxTime = 1
    Faults = TRUE
    None = None
    p0 = p0
    p1 = p1
    p2 = p2
    s1 = s1
    k1 = k1
    c1 = c1
    c2 = c2
SYMMETRY Symmetry
INVARIANTS
    AccountsTypeOK
    LockedAfterWrongPasswords
    ResetReplacesPassword
PROPERTIES
    DisabledStaysDisabled
