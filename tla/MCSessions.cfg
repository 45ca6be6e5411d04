SPECIFICATION Spec
CONSTANTS
    g1 = g1
    l1 = l1
    f1 = f1
    f2 = f2
    c1 = c1
    o1 = o1
    p1 = p1
    Register = {g1}
    Login = {l1}
    Forgot = {f1, f2}
    Reset = {}
    Change = {c1}
    Logout = {o1}
    Revoke = {}
    Visit = {}
    Password = {p1}
    MaxFailures = 2
    MaxResets = 2
    PoolSize = 2
    MayFail = FALSE
    Committed = Committed
    None = None
SYMMETRY Symmetry
INVARIANTS
    WhatWasGoodEnds
CHECK_DEADLOCK FALSE
