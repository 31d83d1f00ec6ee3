SPECIFICATION Spec
CONSTANTS
    Actors = {"clerk", "chief"}
    Permits <- MCPermits
    Trips = {"t1", "t2"}
    Fit = {"t1", "t2"}
    Keys = {"k0", "k1", "k2"}
    Requests = {r1, r2, r3}
    MaxClock = 3
    Starts <- MCStarts
    None = None
SYMMETRY RequestSymmetry
INVARIANTS FourEyes OwedOnce BooksAgree OneDraftPerKey
