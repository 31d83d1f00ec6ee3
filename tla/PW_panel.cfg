SPECIFICATION Spec
CONSTANTS
    ann = ann
    bea = bea
    reg = reg
    t1 = t1
    m1 = m1
    n1 = n1
    sa = sa
    ae = ae
    ag = ag
    Users = {ann, bea, reg}
    Actors = {ann, bea, reg}
    Tickets = {t1}
    Masters = {m1}
    Notices = {n1}
    Countries = {sa, ae}
    Agents = {ag}
    Session <- MCSession
    Home <- MCHome
    Menus <- MCMenus
    Keys = {k1, k2}
    Calls = {c1, c2, c3}
    None = None
    MaxClock = 2
    MaxFaults = 1
SYMMETRY CallSymmetry
INVARIANTS NoBlindWrite AnnouncedOnce SettledKeyWritesOnce
PROPERTIES ReplacesWhatWasAuthorized
CHECK_DEADLOCK FALSE
