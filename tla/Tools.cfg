SPECIFICATION Spec
CONSTANTS
    Configs <- MCConfigs
    MaxKeys = 3
    MaxChildren = 2
    COPY_MAX_TOTAL = 4
    COPY_MAX_DEPTH = 2
    MAX_RESPONSE_ITEMS = 2
INVARIANTS
    ReadOnlyHolds
    RefusedMeansUntouched
    UncheckedSendsNothing
    VisibleIffCallable
    WriteOnce
    SuccessMeansDone
    PartialSuccessIsTold
