SPECIFICATION FairSpec
CONSTANTS
    groq = groq
    gemini = gemini
    mean = mean
    odd = odd
    bad = bad
    Cloud = {groq, gemini}
    Local = ollama
    MaxOrder = 2
    MaxKeys = 2
    Call = {mean, bad, odd}
    Invalid = {bad}
    Declined = {odd}
    MaxSteps = 3
    MaxRetries = 2
    MaxWait = 2
    Wait = {0, 1, 3}
    Budget = 2
    MaxTokens = 1
    None = None
INVARIANTS
    TypeOK
    OneVendorPerTurn
    WaitsAreAskedFor
    NoCallRunsTwice
    ModelSeesEverything
PROPERTIES
    TurnsEnd
CHECK_DEADLOCK FALSE
