SPECIFICATION FairSpec
CONSTANTS
    Objects = {"Service", "Secret", "ServiceMonitor"}
    Features = {"ports", "selector", "saName", "annotations", "spec", "labels", "other"}
    Others <- MCOthers
    MaxLag = 1
CHECK_DEADLOCK FALSE
INVARIANTS
    TypeOK
    SettledMeansInSync
PROPERTIES
    OnlyRepairs
    Converges
