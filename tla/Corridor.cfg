\* Two signals, one cap, commands that may fail.
CONSTANTS
    upstream = upstream
    downstream = downstream
    bus = bus
    late = late
    ambulance = ambulance
    doctor = doctor
    NoSignal = NoSignal
    Signals = {upstream, downstream}
    Requests = {bus, late, ambulance, doctor}
    EmergencyRequests = {ambulance, doctor}
    SignalOf <- MCSignalOf
    NextSignal <- MCNextSignal
    Hierarchy <- MCHierarchy
    Delay <- MCDelay
    NetworkReadings <- MCReadings
    Etas = {1}
    Displacements = {3}
    Returns = {1}
    EventLifecycleEnabled = TRUE
    CorridorCap = 4
    RespectSpillback = TRUE
    ApplyActuation = TRUE
    LockedSignals = {}
    MinInterval = 0
    PendingLock = 2
    CountsCap = 2
    Cooldown = 2
    ExplicitWindow = 3
    MaxConsecutive = 1
    MaxRecoveryDebt = 4
    PaybackRate = 1
SPECIFICATION Spec
SYMMETRY MCSymmetry
INVARIANTS
    EmergencySuperseded
    CorridorDebtBounded
