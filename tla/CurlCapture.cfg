SPECIFICATION FairSpec
CONSTANTS
    Caller = {c1}
    Totals <- MCTotals
    MaxBytes = 2
    UploadMax = 2
    None = None
INVARIANTS
    WholeUnlessTold
    StopReasonTrue
    OutputSettled
    TempFilesGo
PROPERTIES
    CallsEnd
