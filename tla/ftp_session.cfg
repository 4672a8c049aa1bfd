CONSTANTS
    Simple = {"CWD", "QUIT", "PASV"}
    Composite = {"login", "USER", "PASS", "rename", "size", "dir", "get", "put"}
    Speeds = {"prompt", "slow", "endless"}
    MaxCalls = 2
SPECIFICATION FairSpec
INVARIANTS TypeOK VerdictOwn LeaksBounded
PROPERTIES EveryCallReturns
CHECK_DEADLOCK FALSE
