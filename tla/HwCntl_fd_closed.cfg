CONSTANTS
    ReadOutcomes = {"line"}
    OpenCanFail = FALSE
    LseekCanFail = TRUE
    AllocCanFail = FALSE
    MaxCycles <- MCMaxCycles
    TableRatesHz <- MCTableRatesHz
    Handles <- MCHandles
    ConfigCalls = FALSE
SPECIFICATION Spec
CHECK_DEADLOCK FALSE
INVARIANT ReadFailureSkipsOneCycle
