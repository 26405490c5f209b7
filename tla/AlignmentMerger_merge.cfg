CONSTANTS
    MaxTs <- MCMaxTs
    MaxLen <- MCMaxLen
    AccRangeConfs <- MCAccRangeConfs
    GyroRangeConfs <- MCGyroRangeConfs
    AllocCanFail = TRUE
SPECIFICATION Spec
INVARIANT TypeOK
INVARIANT MergeMatchesSpec
INVARIANT DeliveredAsMerged
CHECK_DEADLOCK FALSE
