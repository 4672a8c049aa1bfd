CONSTANTS
    Procs = {p1, p2}
    NoFile = NoFile
    Blank = Blank
    Garbled = Garbled
    Discipline = "shell"
    Faults = {}
    MaxInstalls = 2
SPECIFICATION Spec
INVARIANTS OneWatcher
CHECK_DEADLOCK FALSE
