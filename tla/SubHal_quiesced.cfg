\* The HalProxy re-initializes the sub-HAL only after disabling every
\* sensor, with no other call in flight.
CONSTANTS
    c1 = c1  c2 = c2  hAcc = hAcc  hGyr = hGyr  hNone = hNone
    cb1 = cb1  cb2 = cb2  NoCallback = NoCallback
    Callers <- MCCallers
    Handles <- MCHandles
    Unknown <- MCUnknown
    Callbacks <- MCCallbacks
    Modes <- MCModes
    Latencies <- MCLatencies
    Reinit = "idle"
SPECIFICATION Spec
SYMMETRY MCSymmetry
INVARIANT TypeOK
INVARIANT CallbackStable
INVARIANT PostsBelongToSession
