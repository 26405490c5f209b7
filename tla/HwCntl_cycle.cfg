\* The hwcntl thread's poll cycles, the algorithm thread and the configuration calls together.
CONSTANTS
    ReadOutcomes = {"line", "error"}
    OpenCanFail = TRUE
    LseekCanFail = FALSE
    AllocCanFail = TRUE
    MaxCycles <- MCMaxCycles
    TableRatesHz <- MCTableRatesHz
    Handles <- MCHandles
    ConfigCalls = TRUE
SPECIFICATION Spec
INVARIANT TypeOK
INVARIANT StreamsOrdered
CHECK_DEADLOCK FALSE
