\* Two invocations of the campaign.
SPECIFICATION Spec
CONSTANTS
    Thresholds <- MCThresholds
    Catalog <- MCCatalog
    SeedsOf <- MCSeedsOf
    FilesOf <- MCFilesOf
    StaleFiles <- MCStaleFiles
    Invocations <- MCInvocations
    MaxInvocations = 2
    PortBase = 8900
    MaxAttempts = 2
INVARIANTS
    VerdictsEarned
    PoolAsSerial
PROPERTIES
    StoredVerdictsKept
CHECK_DEADLOCK FALSE
