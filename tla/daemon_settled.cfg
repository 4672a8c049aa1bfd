CONSTANTS
    Procs = {p1, p2, p3, p4}
    NoFile = NoFile
    Blank = Blank
    Garbled = Garbled
    Discipline = "settled"
    Faults = {"daemon", "command"}
    MaxInstalls = 1
SPECIFICATION Spec
SYMMETRY ProcSymmetry
INVARIANTS OneWatcher WatcherListed NotRunningIsTrue
PROPERTIES OnlyOperatorStops RestartFailsOnlyIf
CHECK_DEADLOCK FALSE
