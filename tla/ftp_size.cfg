CONSTANTS
    Simple = {}
    Composite = {"get"}
    Speeds = {"prompt"}
    MaxCalls = 2
SPECIFICATION Spec
INVARIANTS SizeRefusalIsTrue
CHECK_DEADLOCK FALSE
