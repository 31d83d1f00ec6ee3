SPECIFICATION Spec
CONSTANTS
    Agents = {"sa0", "sa1", "ae0", "ae1"}
    Countries = {"SA", "saudi_arabia", "uae"}
    Buckets = {"saudi_arabia", "uae"}
    CountryOf <- Spelling
    Bucket <- MCBucket
    Seed <- MCSeed
    Requests = {r1, r2, r3}
    None = None
SYMMETRY RequestSymmetry
INVARIANTS OneActiveAgentPerCountry ShowsWhatGuardKnows
