\* A bus and an ambulance on the same green: events overlap, TraCI commands fail,
\* readings of the phase or of the spent time are lost.
CONSTANTS
    bus = bus
    tram = tram
    ambulance = ambulance
    NoEvent = NoEvent
    Unread = Unread
    NoPhase = NoPhase
    Vehicles = {bus, ambulance}
    Emergency = {ambulance}
    TargetPhase <- MCTargets
    Phases <- MCPhases
    PhaseCount = 4
    PlanDuration <- MCPlan
    GreenPhases <- MCGreens
    IntergreenPhases <- MCIntergreens
    ConflictsWith <- MCConflicts
    MinGreen = 2
    MaxTotalGreen = 8
    GroupMinGreen = 2
    GroupMaxGreen = 8
    MaxExtension = 3
    Extensions = {1, 3}
    Truncations = {2}
    AllowedActions = {"green_extension", "early_green"}
    EventLifecycleEnabled = TRUE
    CompensationEnabled = TRUE
    CoordinationRecoveryEnabled = TRUE
    MaxPerCycle = 1
    CommandOutcomes = {"applied", "error"}
    ReadFaults = {"none", "phase", "spent"}
    Cooldown = 9
    ExplicitWindow = 0
    MaxConsecutive = 2
    MaxRecoveryDebt = 4
    PaybackRate = 1
    CountCap = 3
    DebtCap = 6
    AccountCap = 4
SPECIFICATION Spec
INVARIANTS
    PlanInv
PROPERTIES
    BudgetKept
