CONSTANTS
    KB = 2
    Cells = 2
    Block = 4
    MaxChunk = 3
    Sizes = {1, 5}
    MaxClock = 1
    Paramiko = {FALSE}
SPECIFICATION DownloadSpec
INVARIANT SuccessIsImage
CHECK_DEADLOCK FALSE
