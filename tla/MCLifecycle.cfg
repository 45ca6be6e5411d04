SPECIFICATION FairSpec
CONSTANTS
    u1 = u1
    o1 = o1
    o2 = o2
    x1 = x1
    x2 = x2
    amount = amount
    day = day
    other = other
    text = text
    numerical = numerical
    Upload = {u1}
    Override = {o1, o2}
    Delete = {x1, x2}
    Column = {amount, day}
    Name = {amount, day, other}
    Type = {text, numerical}
    Stuck = {"source"}
    Committed = Committed
    None = None
INVARIANTS
    TypeOK
    CorrectionsSurvive
    CompleteAtOnce
    LogAgrees
PROPERTIES
    HistorySpec
    EveryRequestEnds
CHECK_DEADLOCK FALSE
