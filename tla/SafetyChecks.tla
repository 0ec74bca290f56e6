---------------------------- MODULE SafetyChecks -----------------------------
(***************************************************************************)
(* The checks of TSPSafetyLayer.validate (src/pps57_tsp/safety.py) that    *)
(* look at the action of a decision and at the signal it finds; what it    *)
(* rations across decisions is module Rationing.  Limits is the            *)
(* safety_constraints block of the configuration, every value present.     *)
(***************************************************************************)
EXTENDS DecisionEngine

CONSTANTS
    Limits,            \* safety_constraints
    Actuable,          \* the program of the TLS passed the verification
    EarlyGreenActuable \* ... and its clearances too

\* The engine reads the minimum green where the Safety Layer does
\* (safety_constraints.min_green_s).
ASSUME LimitsAssumption ==
    /\ Limits.maxTotalGreen \in Int /\ Limits.maxExtension \in Int
    /\ Limits.minGreen \in Int /\ Limits.minGreen = Policy.minGreen

\* _is_yellow_transition: a yellow elsewhere does not stop an extension.
InYellow(view, req, decision) ==
    /\ AnyYellow(view)
    /\ decision.action = "green_extension" =>
        LET own == LinkPositions(view, req)
            approach == EdgePositions(view, req)
            clear(S) == S # {} /\ \A i \in S : view.state[i] \notin Yellows
        IN  ~clear(own) /\ ~clear(approach)

\* _request_has_protected_green
HasProtectedGreen(view, req) ==
    LET position == MovementPosition(view, req, Group(Contract, req).edgeFallback)
    IN  position > 0 /\ view.state[position] = "G"

\* What is left of the green the signal may still be given.
Room(req, view) ==
    Lesser(Limits.maxTotalGreen, Group(Contract, req).maxGreen) - view.spent - view.left

ExtensionLimit(req, granted) ==
    Lesser(Limits.maxExtension,
           Lesser(Group(Contract, req).maxExtension, Policy.extensionMax)) - granted

\* _validate_green_extension: the seconds approved, 0 when blocked.  "granted"
\* is what the vehicle's open event has already been given.
ApprovedExtension(req, view, decision, granted) ==
    IF \/ ~HasGroup(req)
       \/ "green_extension" \notin Group(Contract, req).allowed
       \/ view.phase # Group(Contract, req).phase
       \/ Group(Contract, req).protected /\ ~HasProtectedGreen(view, req)
       \/ view.left = Unread \/ view.spent = Unread
    THEN 0
    ELSE AtLeastZero(Lesser(Lesser(decision.extension, ExtensionLimit(req, granted)),
                            Room(req, view)))

\* _current_phase_conflict_check
CurrentPhaseConflicts(req, view) ==
    \E g \in Contract.groups :
        /\ g.phase = view.phase /\ g.id # Group(Contract, req).id
        /\ \/ g.id \in Group(Contract, req).conflicts
           \/ Group(Contract, req).id \in g.conflicts

\* The checks of _validate_early_green.
TruncationSafe(req, view, decision) ==
    /\ HasGroup(req)
    /\ "early_green" \in Group(Contract, req).allowed
    /\ Group(Contract, req).conflicts # {}
    /\ view.spent # Unread
    /\ view.spent >= MinGreenOf(Contract, Limits.minGreen, view.phase)
    /\ SequenceClear(Contract, view.phase, decision.target)
    /\ CurrentPhaseConflicts(req, view)
    /\ EarlyGreenActuable

\* A phase about to switch needs no truncation.
AboutToSwitch(view, decision) == view.left # Unread /\ view.left <= decision.to

TruncationApproved(req, view, decision) ==
    TruncationSafe(req, view, decision) /\ ~AboutToSwitch(view, decision)

\* The verdict on the action: the seconds a phase gains or is cut to, and
\* whether anything is sent at all.
Approves(req, view, decision, granted) ==
    /\ decision.action \in Actuating
    /\ Actuable
    /\ ~InYellow(view, req, decision)
    /\ IF decision.action = "green_extension"
       THEN ApprovedExtension(req, view, decision, granted) > 0
       ELSE TruncationApproved(req, view, decision)

SentDuration(req, view, decision, granted) ==
    IF decision.action = "green_extension"
    THEN view.left + ApprovedExtension(req, view, decision, granted)
    ELSE decision.to
=============================================================================
