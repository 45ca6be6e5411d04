SPECIFICATION Spec
CONSTANTS
    a1 = a1
    p1 = p1
    x1 = x1
    x2 = x2
    d1 = d1
    describe = describe
    filter = filter
    Ask = {a1}
    Profile = {p1}
    Delete = {x1, x2}
    Dataset = {d1}
    Call = {describe, filter}
    ProfileCall = describe
    TableCall = {filter}
    Tool <- MCTool
    ToolOf <- MCToolOf
    MaxSteps = 2
    MaxVersion = 2
    Base = Base
    Committed = Committed
SYMMETRY Symmetry
INVARIANTS
    DeletedOnce
    NothingOutlivesItsDataset
CHECK_DEADLOCK FALSE
