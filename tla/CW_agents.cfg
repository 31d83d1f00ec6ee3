SPECIFICATION Spec
CONSTANTS
    Actors = {"admin"}
    Drivers = {}
    Agents = {"a1", "a2"}
    Customers = {}
    Keys = {k1, k2}
    Requests = {r1, r2, r3}
    NotReady = {}
    MaxFaults = 0
    Countries = {"SA", "saudi_arabia", "AE"}
    Buckets = {"saudi_arabia", "AE"}
    Permits <- MCPermits
    Scope <- MCScope
    CountryOf <- MCCountryOf
    Bucket <- MCBucket
    Seed <- MCSeed
    None = None
SYMMETRY CallSymmetry
INVARIANTS TokenSpentOnce OutcomeIsTrue OneActiveAgentPerCountry IndexIsExact
