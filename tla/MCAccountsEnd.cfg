SPECIFICATION FairSpec
CONSTANTS
    g1 = g1
    l1 = l1
    c1 = c1
    k1 = k1
    v1 = v1
    p1 = p1
    Register = {g1}
    Login = {l1}
    Forgot = {}
    Reset = {}
    Change = {c1}
    Logout = {}
    Revoke = {k1}
    Visit = {v1}
    Password = {p1}
    MaxFailures = 2
    MaxResets = 2
    PoolSize = 2
    MayFail = FALSE
    Committed = Committed
    None = None
PROPERTIES
    EveryRequestEnds
CHECK_DEADLOCK FALSE
