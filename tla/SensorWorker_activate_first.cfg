\* activate(true) before any batch(): mSamplingPeriodNs is still 0.
CONSTANTS
    c1 = c1
    c2 = c2
    NoOne = NoOne
    Worker = Worker
    Dtor = Dtor
    Callers <- MCOneCaller
    NsPerUs <- MCNsPerUs
    MinDelay <- MCMinDelay
    MaxDelay <- MCMaxDelay
    TickNs <- MCTickNs
    Requests <- MCRequests
    NodeContents <- MCNodeNumbers
    Variant = "2.X"
    OneShot = FALSE
    StopInit = {FALSE}
    WithTeardown = FALSE
    BatchBeforeActivate = FALSE
SPECIFICATION Spec
PROPERTY ActivateReturns
