\* Control calls from two binder threads against the run thread, with the
\* framework's batch-before-activate order, and then ~Sensor; after teardown
\* nothing runs. mStopThread may start either way (it has no initialiser).
CONSTANTS
    c1 = c1
    c2 = c2
    NoOne = NoOne
    Worker = Worker
    Dtor = Dtor
    Callers <- MCCallers
    NsPerUs <- MCNsPerUs
    MinDelay <- MCMinDelay
    MaxDelay <- MCMaxDelay
    TickNs <- MCTickNs
    Requests <- MCRequests
    NodeContents <- MCNodeNumbers
    Variant = "2.X"
    OneShot = FALSE
    StopInit = {FALSE, TRUE}
    WithTeardown = TRUE
    BatchBeforeActivate = TRUE
SPECIFICATION Spec
INVARIANT TypeOK
INVARIANT NoIndefiniteSleepWhileEnabled
PROPERTY DueSampleTaken
PROPERTY ActivateReturns
PROPERTY ImplementsControl
PROPERTY NoPostAfterStop
CHECK_DEADLOCK FALSE
