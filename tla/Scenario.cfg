SPECIFICATION Spec
CONSTANTS
    Bases <- MCBases
    Seeds <- MCSeeds
    Draws <- MCDraws
INVARIANTS
    RoutesSound
    PlacesExist
    FlowsFollowTheirChain
    LeavesSound
CHECK_DEADLOCK FALSE
