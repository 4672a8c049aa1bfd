CONSTANTS
    KB = 2
    Cells = 2
    Block = 4
    MaxChunk = 3
    Sizes = {1, 5}
    MaxClock = 3
    Paramiko = {FALSE, TRUE}
    GetBuffer = 3
    Half = 8
    RemoteSizes = {0, 1, 2, 7, 9, 16, 19}
    PutBuffer = 2
    Bytes = {"a", "b", "c", "z", "NUL"}
    Texts <- SomeTexts
    Remotes <- SomeRemotes
    Strays = {0, 2}
    MaxRemote = 4
    Ring = 2
    MaxLines = 4
    MaxFails = 2
    MaxOthers = 1
    Weekdays = {"Sun", "Mon", "Tue", "Wed", "Thu", "Fri", "Sat"}
SPECIFICATION FairSpec
INVARIANTS
    DownloadTypeOK WholeWhenReported ProgressSpares AbortLeavesFile
    BufferFits BarInside ShortOnlyIf
    OnlyShortTextCompletes RemoteKept
    NoLineLost ReplyWaits DateRightOrMonthMissing
PROPERTIES LinesReachReader ReplyEndsIt
CHECK_DEADLOCK FALSE
