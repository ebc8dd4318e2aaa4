SPECIFICATION Spec
CONSTANTS
    Width = 3
    Sanitize <- MCSanitize
    Lower <- MCLower
    VMs <- MCVMs
    VMIs <- MCVMIs
    Pods <- MCPods
    Migrations <- MCMigrations
    PVCs <- MCPVCs
    Types <- MCTypes
    Statistics <- MCStatistics
    Starts <- MCStarts
    MaxChanges = 2
INVARIANTS
    TypeOK
    NoDuplicateSamples
    OneStatusTimestamp
    VMISeriesAgree
    StatisticsShareLabels
PROPERTIES
    EffectiveSizesAgree
    EveryMigrationSeenOnce
    ScrapesRepeatable
