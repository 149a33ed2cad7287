CONSTANTS
    MaxStarts = 2
    MaxTransfers = 2
    MaxReports = 1
    MaxInputs = 4
    Ports = {69, 6969}
    UsualPort = 69
    Origins = {"a", "ba"}
    Inside <- OneInOther
SPECIFICATION FairSpec
INVARIANTS TypeOK OneRowPerTask OneDatagramAfterStop
PROPERTIES RowsOnlyAdvance RowsFinish StoppedServersLeave LogTellsTheTruth
