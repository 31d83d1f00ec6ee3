SPECIFICATION Spec
CONSTANTS
    Clerk = Clerk
    Chief = Chief
    Cashier = Cashier
    R1 = R1
    R2 = R2
    R3 = R3
    None = None
    Actors <- MCActors
    Runs <- MCRuns
    Permits <- MCPermits
    Team <- MCTeam
    Prefixes = {0, 3, 5}
SYMMETRY RunSymmetry
INVARIANTS DualControl PassIsBacked MoneyAgrees ChainIsWhole
PROPERTIES InOrder
CHECK_DEADLOCK FALSE
