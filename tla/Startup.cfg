SPECIFICATION FairSpec
CONSTANTS
    MetricsOf <- MCMetricsOf
    Configs <- MCConfigs
CHECK_DEADLOCK FALSE
INVARIANTS
    TypeOK
    ScrapesReadSynced
    AllowlistExact
    NoSilentDefaults
PROPERTIES
    CompleteOncePublished
    FailureExits
    BecomesReady
