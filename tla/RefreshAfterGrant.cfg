\* The documentation has refreshes of a granted request go through the
\* normal decision loop.
CONSTANTS
    bus = bus
    ambulance = ambulance
    NoMessage = NoMessage
    Vehicles = {bus}
    Emergency = {}
    RequestTTL = 3
    CancellationTTL = 1
    StoreTTL = 4
    DedupeTTL = 3
    Cooldown = 4
    MaxActive = 1
    SequenceModulus = 65536
    Refresh = 1
    Retention = 6
    MaxRequestId = 3
    MaxDelay = 0
    MaxCopies = 1
    MessageCap <- MCCap
    BusCap = 3
    AmbulanceCap = 0
SPECIFICATION Spec
INVARIANTS
    InstalmentsReachTheDecision
