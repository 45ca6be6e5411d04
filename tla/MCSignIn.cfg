SPECIFICATION Spec
CONSTANTS
    g1 = g1
    g2 = g2
    l1 = l1
    l2 = l2
    f1 = f1
    s1 = s1
    s2 = s2
    p1 = p1
    Register = {g1, g2}
    Login = {l1, l2}
    Forgot = {f1}
    Reset = {s1, s2}
    Change = {}
    Logout = {}
    Revoke = {}
    Visit = {}
    Password = {p1}
    MaxFailures = 1
    MaxResets = 1
    PoolSize = 2
    MayFail = TRUE
    Committed = Committed
    None = None
SYMMETRY Symmetry
INVARIANTS
    TypeOK
    AccountsAreComplete
    RefusalsAreOnRecord
    LinksWorkOnce
    WhatWasGoodEnds
CHECK_DEADLOCK FALSE
