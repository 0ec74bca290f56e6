\* As SignalOrdinary with tighter bounds, under the fairness of the loop.
CONSTANTS
    bus = bus
    tram = tram
    ambulance = ambulance
    NoEvent = NoEvent
    Unread = Unread
    NoPhase = NoPhase
    Vehicles = {bus, tram}
    Emergency = {}
    TargetPhase <- MCTargets
    Phases <- MCPhases
    PhaseCount = 4
    PlanDuration <- MCPlan
    GreenPhases <- MCGreens
    IntergreenPhases <- MCIntergreens
    ConflictsWith <- MCConflicts
    MinGreen = 2
    MaxTotalGreen = 8
    GroupMinGreen = 2
    GroupMaxGreen = 8
    MaxExtension = 3
    Extensions = {1, 3}
    Truncations = {1}
    AllowedActions = {"green_extension", "early_green"}
    EventLifecycleEnabled = TRUE
    CompensationEnabled = TRUE
    CoordinationRecoveryEnabled = TRUE
    MaxPerCycle = 1
    CommandOutcomes = {"applied"}
    ReadFaults = {"none"}
    Cooldown = 9
    ExplicitWindow = 0
    MaxConsecutive = 2
    MaxRecoveryDebt = 3
    PaybackRate = 1
    CountCap = 9
    DebtCap = 9
    AccountCap = 3
SPECIFICATION FairSpec
PROPERTIES
    AccountsSettled
    EventsClose
    PriorityComesBack
