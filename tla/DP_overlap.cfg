SPECIFICATION Spec
CONSTANTS
    m1 = m1
    m2 = m2
    n1 = n1
    Pilots = {m1, m2}
    Reconcilers = {n1}
    Original = m1
    MaxCuts = 2
    MaxFaults = 2
    MaxTouches = 1
    None = None
CHECK_DEADLOCK FALSE
INVARIANTS PassTellsTheTruth KeyNamesASuccess
PROPERTIES PassIsFinal WritesWhatItVerified
