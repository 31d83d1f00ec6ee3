SPECIFICATION Spec
CONSTANTS
    Actors = {"maker", "checker", "super"}
    Parties = {"drv"}
    Keys = {k1}
    Settlements = {s1, s2}
    Payments = {p1, p2}
    Sums = {3}
    Amounts = {1, 2}
    Permits <- MCPermits
    None = None
SYMMETRY IdSymmetry
INVARIANTS StatusFitsMoney PaidIsConfirmed MoneyNeedsTwo TrailNamesTheActor
PROPERTIES KeepsTheBooks

