SPECIFICATION FairSpec
CONSTANTS
    Objects = {"Service", "Secret", "ServiceMonitor"}
    Features = {"ports", "selector", "saName", "annotations", "spec", "labels", "other"}
    Others <- MCOthersStartup
    MaxLag = 1
CHECK_DEADLOCK FALSE
PROPERTY CreatedOnStartup
