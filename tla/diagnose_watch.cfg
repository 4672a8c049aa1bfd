CONSTANTS
    Order <- TwoContainers
    Foreign = {"dhcp"}
    Packages = {"frr.deb"}
    Required <- TwoTables
    Others = {"zebra.sh"}
    Matches <- AsInTable
    Images = {1}
    TimeCnt = 2
SPECIFICATION FairSpec
INVARIANTS TypeOK PassedMeansAnswered PassedMeansWhole RollbackHasCause
PROPERTIES WatchImplemented
CHECK_DEADLOCK FALSE
