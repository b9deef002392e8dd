SPECIFICATION UsersSpec
CONSTANTS
    Users = {s, u1, u2}
    SeedUser = s
    Requests = {r1}
    Orgs = {o1}
    UserCalls = {c1, c2}
    AskedRoles = {"Admin", "Manager"}
    AskedStatuses = {"Active", "Disabled"}
    Faults = TRUE
    Nobody = Nobody
    s = s
    o1 = o1
    u1 = u1
    u2 = u2
    r1 = r1
    c1 = c1
    c2 = c2
SYMMETRY Symmetry
INVARIANTS
    AdminRemovalTakesTwo
    OneActiveManagerPerOrganization
PROPERTIES
    DecidedOnce
