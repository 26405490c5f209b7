\* ~Sensor keeps mRunMutex after lock.release() and joins the run thread; the process stops there.
CONSTANTS
    c1 = c1
    c2 = c2
    NoOne = NoOne
    Worker = Worker
    Dtor = Dtor
    Callers <- MCOneCaller
    NsPerUs <- MCNsPerUs
    MinDelay <- MCMinDelay
    MaxDelay <- MCMaxDelay
    TickNs <- MCTickNs
    Requests <- MCRequests
    NodeContents <- MCNodeNumbers
    Variant = "aidl"
    OneShot = FALSE
    StopInit = {FALSE}
    WithTeardown = TRUE
    BatchBeforeActivate = TRUE
SPECIFICATION Spec
CHECK_DEADLOCK FALSE
PROPERTY TeardownCompletes
