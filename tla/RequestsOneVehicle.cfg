\* One bus over a transport that loses, delays and duplicates.
CONSTANTS
    bus = bus
    ambulance = ambulance
    NoMessage = NoMessage
    Vehicles = {bus}
    Emergency = {}
    RequestTTL = 3
    CancellationTTL = 1
    StoreTTL = 3
    DedupeTTL = 3
    Cooldown = 2
    MaxActive = 1
    SequenceModulus = 65536
    Refresh = 1
    Retention = 6
    MaxRequestId = 2
    MaxDelay = 2
    MaxCopies = 2
    MessageCap <- MCCap
    BusCap = 3
    AmbulanceCap = 0
SPECIFICATION FairSpec
INVARIANTS
    ForwardedInOrder
    CancelledStaysClosed
    FirstCopyNotMistaken
    OnlyTheLatestIsServed
    QuotaHeldByOpenRequests
PROPERTIES
    StoreCloses
