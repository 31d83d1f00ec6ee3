SPECIFICATION Spec
CONSTANTS
    r1 = r1
    r2 = r2
    r3 = r3
    r4 = r4
    ana = ana
    bob = bob
    s1 = s1
    k1 = k1
    k2 = k2
    Actors = {ana, bob}
    Resources = {s1}
    Clients = {k1, k2}
    Requests = {r1, r2, r3}
    Permits <- MCPermits
    Scope <- MCScope
    CountryOf <- MCCountryOf
    Principal <- MCPrincipal
    Menu <- MCMenu
    MaxRows = 3
    MaxFaults = 1
    None = None
SYMMETRY CallSymmetry
INVARIANTS RepeatedCallsFindTheRow RowsAreWarranted TrailMatchesRows
CHECK_DEADLOCK FALSE
