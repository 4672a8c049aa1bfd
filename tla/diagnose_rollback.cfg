CONSTANTS
    Order <- OneContainer
    Foreign = {"dhcp"}
    Packages = {"frr.deb"}
    Required <- OneTable
    Others = {}
    Matches <- Itself
    Images = {1, 2}
    TimeCnt = 30
SPECIFICATION FairSpec
PROPERTIES RollbackReturns
CHECK_DEADLOCK FALSE
