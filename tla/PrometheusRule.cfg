SPECIFICATION FairSpec
CONSTANTS
    Objects = {"PrometheusRule"}
    Alerts = {"a1", "a2"}
    Records = {"r1"}
    Features = {"a1", "a2", "r1", "labels", "annotations", "other"}
    Configs <- MCConfigs
    Others <- MCOthers
    MaxLag = 2
CHECK_DEADLOCK FALSE
INVARIANTS
    TypeOK
    SettledMeansConfigured
PROPERTIES
    OnlyRepairs
    Converges
