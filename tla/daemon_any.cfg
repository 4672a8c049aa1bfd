CONSTANTS
    Procs = {p1, p2, p3}
    NoFile = NoFile
    Blank = Blank
    Garbled = Garbled
    Discipline = "any"
    Faults = {"daemon", "command"}
    MaxInstalls = 2
SPECIFICATION Spec
SYMMETRY ProcSymmetry
INVARIANTS TypeOK PidfileNotStale NoDoubleWatch
PROPERTIES EachCallCounts
CHECK_DEADLOCK FALSE
