SPECIFICATION Spec
CONSTANTS
    Null = Null
    Blank = Blank
    None = None
    IndexError = IndexError
    Refused = Refused
    Text <- MCText
    Files <- MCFiles
    MaxVersion = 2
    MAX_CATEGORICAL_DISTINCT = 2
    MIN_ROWS_FOR_CARDINALITY_SIGNAL = 3
    CATEGORY_LIKE_DISTINCT = 2
    TOP_N = 2
    N_BINS = 3
    SAMPLES = 2
    EXTREMES = 2
    RARE_BELOW = 2
    RUG_POINTS = 2
    ECDF_POINTS = 4
    MATRIX_SLOTS = 2
    CONCENTRATION_HEAD = 1
    CONCENTRATION_POINTS = 3
    TOP_VALUES = 2
    TOP_TERMS = 2
    CLOUD_TERMS = 3
    DAILY_GRAIN_LIMIT = 4
    HoursPerDay = 2
    DaysPerMonth = 2
    MonthsPerYear = 2
    DaysPerWeek = 3
    MAX_CO_MISSING_COLUMNS = 2
    MAX_EXAMPLES = 1
    MAX_LEVELS = 1
    MAX_NUMERIC_LEVELS = 2
INVARIANT ProfileOpens
CHECK_DEADLOCK FALSE
