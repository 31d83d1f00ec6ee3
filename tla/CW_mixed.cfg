SPECIFICATION FairSpec
CONSTANTS
    Actors = {"admin", "ae_clerk"}
    Drivers = {"d1"}
    Agents = {}
    Customers = {"c1"}
    Keys = {"k1"}
    Requests = {r1, r2}
    NotReady = {}
    MaxFaults = 1
    Countries = {"SA", "saudi_arabia", "AE"}
    Buckets = {"saudi_arabia", "AE"}
    Permits <- MCPermits
    Scope <- MCScope
    CountryOf <- MCCountryOf
    Bucket <- MCBucket
    Seed <- MCSeed
    None = None
INVARIANTS FreshTrailMatchesReply Inductive SettledKeyNotReapplied NothingBeforeIntent
PROPERTIES CustomersFinishTheirTrips EveryCallAnswered
