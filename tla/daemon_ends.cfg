CONSTANTS
    Procs = {p1, p2, p3}
    NoFile = NoFile
    Blank = Blank
    Garbled = Garbled
    Discipline = "any"
    Faults = {}
    MaxInstalls = 0
SPECIFICATION FairSpec
PROPERTIES EveryProcessEnds
CHECK_DEADLOCK FALSE
