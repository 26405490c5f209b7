\* batch() stores the period and notifies without mRunMutex.
CONSTANTS
    c1 = c1
    c2 = c2
    NoOne = NoOne
    Worker = Worker
    Dtor = Dtor
    Callers <- MCOneCaller
    NsPerUs <- MCNsPerUs
    MinDelay <- MCMinDelay
    MaxDelay <- MCMaxDelay
    TickNs <- MCTickNs
    Requests <- MCRequests
    NodeContents <- MCNodeNumbers
    Variant = "2.X"
    OneShot = FALSE
    StopInit = {FALSE}
    WithTeardown = FALSE
    BatchBeforeActivate = TRUE
SPECIFICATION Spec
INVARIANT BatchTakesEffect
