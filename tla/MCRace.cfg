SPECIFICATION FairSpec
CONSTANTS
    a1 = a1
    a2 = a2
    x1 = x1
    d1 = d1
    describe = describe
    filter = filter
    Ask = {a1, a2}
    Profile = {}
    Delete = {x1}
    Dataset = {d1}
    Call = {describe, filter}
    ProfileCall = describe
    TableCall = {filter}
    Tool <- MCTool
    ToolOf <- MCToolOf
    MaxSteps = 2
    MaxVersion = 1
    Base = Base
    Committed = Committed
INVARIANTS
    OneAnswerPerQuestion
    ParentsAreStored
    CitedAnswersAreKept
PROPERTIES
    CacheSpec
    EveryRequestEnds
CHECK_DEADLOCK FALSE
