SPECIFICATION Spec
CONSTANTS
    Word <- MCWord
    Data <- MCData
    BaseName <- MCBaseName
    BaseType <- MCBaseType
    NewName <- MCNewName
    NoValue = NoValue
    NoColumn = NoColumn
    Number = {0, 2}
    MaxSteps = 3
    K_ANONYMITY = 2
    MAX_AGGREGATE_ROWS = 2
    PREVIEW_ROWS = 3
    MAX_GROUPS = 3
INVARIANTS
    TypeOK
    ComputedRowsAreMarked
    RankingsKeepTheirOrder
    ShownGroupsAreLarge
PROPERTY
    EveryRecordIsCounted
CHECK_DEADLOCK FALSE
