\* The HalProxy disables every sensor and re-initializes while a call of the
\* previous framework session (a flush) may still be in progress.
CONSTANTS
    c1 = c1  c2 = c2  hAcc = hAcc  hGyr = hGyr  hNone = hNone
    cb1 = cb1  cb2 = cb2  NoCallback = NoCallback
    Callers <- MCCallers
    Handles <- MCHandles
    Unknown <- MCUnknown
    Callbacks <- MCCallbacks
    Modes <- MCModes
    Latencies <- MCLatencies
    Reinit = "disabled"
SPECIFICATION Spec
SYMMETRY MCSymmetry
INVARIANT PostsBelongToSession
