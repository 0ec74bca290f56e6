\* One vehicle of every kind, with the engine's own proposals or a passive policy.
CONSTANTS
    Unread = Unread
    Nowhere = Nowhere
    NoReading = NoReading
    NoEvent = NoEvent
    EdgeOf <- MCEdgeOf
    Policy <- MCPolicy
    Contract <- MCContract
    PhaseMapping <- MCPhaseMapping
    EventLifecycleEnabled = TRUE
    Limits <- MCLimits
    Actuable = TRUE
    EarlyGreenActuable = TRUE
    BucketLimits <- MCBucketLimits
    AllowSuppress = FALSE
    Buses <- MCBuses
    FirstEtas = {8}
    Speed = 2
    PhaseCount = 4
    PlanDuration <- MCDurations
    Program <- MCProgram
    Links <- MCLinks
    Lanes <- MCLanes
    NetworkReadings <- MCReadings
    RuleSets <- MCRuleSets
    ReadFaults = {"none", "left"}
    CandidateActions <- MCActions
    Reward <- MCReward
    Episodes = 2
    LearningRate = 4
    LoggedBuses <- MCLoggedBuses
    LoggedReadings <- MCLoggedReadings
    LogCap = 2
    Cooldown = 9
    ExplicitWindow = 0
    MaxConsecutive = 2
    MaxRecoveryDebt = 9
    PaybackRate = 1
SPECIFICATION LearnSpec
INVARIANTS
    FeasibleBusPasses
    EmergencyHeldOnlyBySafety
    TruncationsProposedAreSafe
PROPERTIES
    RulesComeFromSafeActions
CHECK_DEADLOCK FALSE
