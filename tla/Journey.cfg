\* A vehicle past two signals and back to the first; a pass is 15 s.
CONSTANTS
    Route <- MCRoute
    SignalOf <- MCSignalOf
    Movements <- MCMovements
    Timetable <- MCTimetable
    NoObservation = NoObservation
    NoSignal = NoSignal
    NoEdge = NoEdge
    FreeFlow = 80
    QueuePenalty = 2000
    WaitingCap = 15000
    MinSpeed = 5
    HaltSpeed = 5
    Controlled = {"I1", "I2"}
    MaxRequestId = 255
    SequenceModulus = 65536
    Refresh = 2
    Retention = 2
    RequestDistance = 250
    EtaMin = 8000
    EtaMax = 45000
    EmergencyEtaMax = 90000
    DelayThreshold = 20
    HeadwayThreshold = 120
    Vehicles <- MCVehicles
    RequestTTL = 2
    CancellationTTL = 1
    DedupeTTL = 1
    Cooldown = 4
    MaxActive = 4
    TrustedPrefixes = {"bus_", "ev_", "emergency_"}
    Provisioned <- MCProvisioned
    RealBackOfQueue = TRUE
    HaltingThreshold = 1
    QueueHaltSpeed = 1
    SpillbackOccupancy = 75
    SpillbackHalted = 4
    Kinds <- MCKinds
    Looks <- MCLooks
    RequestCap = 3
SPECIFICATION Spec
INVARIANTS
    SenderAndGatewayAgree
    RequestFollowsTheVehicle
    AuditFaultsKnown
    QueueKnown
