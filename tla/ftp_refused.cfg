CONSTANTS
    Simple = {"CWD"}
    Composite = {"login", "USER", "PASS"}
    Speeds = {"prompt"}
    MaxCalls = 2
SPECIFICATION Spec
INVARIANTS SuccessIsTrue
CHECK_DEADLOCK FALSE
