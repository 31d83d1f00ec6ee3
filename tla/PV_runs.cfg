SPECIFICATION FairFixtureSpec
CONSTANTS
    u1 = u1
    u2 = u2
    Attempts = {"first", "second"}
    Uids = {u1, u2}
    MaxPolls = 2
    MaxCrashes = 2
    MaxPortFaults = 1
    MaxFixtureTouches = 1
    NoUid = NoUid
INVARIANTS OneAccountUnlessCut ReadyFixtureIsSound
PROPERTIES EveryRunEnds
CHECK_DEADLOCK FALSE
