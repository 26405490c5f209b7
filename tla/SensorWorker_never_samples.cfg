\* The constructor leaves std::atomic_bool mStopThread uninitialised: either
\* value is possible. One caller, batch then activate, no teardown.
CONSTANTS
    c1 = c1
    c2 = c2
    NoOne = NoOne
    Worker = Worker
    Dtor = Dtor
    Callers <- MCOneCaller
    NsPerUs <- MCNsPerUs
    MinDelay <- MCMinDelay
    MaxDelay <- MCMaxDelay
    TickNs <- MCTickNs
    Requests <- MCRequests
    NodeContents <- MCNodeNumbers
    Variant = "2.X"
    OneShot = FALSE
    StopInit = {FALSE, TRUE}
    WithTeardown = FALSE
    BatchBeforeActivate = TRUE
SPECIFICATION Spec
PROPERTY EnabledSensorSamples
