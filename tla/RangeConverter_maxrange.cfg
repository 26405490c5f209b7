\* Converted values of both front ends against the maxRange each advertises.
CONSTANTS
    AccRangeConfs <- MCAccRangeConfs
    RawCounts <- MCRawCounts
    AllocCanFail = TRUE
    FrontEnds = {"legacy", "2.X"}
SPECIFICATION Spec
INVARIANT EventWithinMaxRange
CHECK_DEADLOCK FALSE
