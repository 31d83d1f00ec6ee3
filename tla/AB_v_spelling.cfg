SPECIFICATION Spec
CONSTANTS
    Agents = {"sa0", "sa1"}
    Countries = {"SA", "saudi_arabia", "uae"}
    Buckets = {"saudi_arabia", "uae"}
    CountryOf <- Spelling
    Bucket <- MCBucket
    Seed <- MCSeed
    Requests = {r1}
    None = None
INVARIANT GuardSeesAliases
