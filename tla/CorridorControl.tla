--------------------------- MODULE CorridorControl ---------------------------
(***************************************************************************)
(* Several signals of one corridor under a pass of the control loop        *)
(* (_process_acknowledged_requests, src/pps57_tsp/controller.py): the      *)
(* requests of all signals are served in one order; a proposal that would  *)
(* actuate is dropped when its signal has already intervened in this pass, *)
(* deferred by the corridor arbiter (corridor_arbiter.py) or handed to the *)
(* Safety Layer, and what that approves is screened by the simulated       *)
(* controller (signal_control.py) before it reaches the signal.            *)
(*                                                                         *)
(* The rationing of each signal is that of module Rationing; the checks of *)
(* an action on the phase it finds are those of PrioritySignal, and any of *)
(* them may fail here.  So are the phases: an event that an extension has  *)
(* opened may end with any pass, and what a check-out returns is chosen.   *)
(* A pass takes one second.                                                *)
(***************************************************************************)
EXTENDS Rationing, FiniteSets, FiniteSetsExt, Functions

CONSTANTS
    Signals,          \* the TLS of the corridor
    Requests,         \* acknowledged requests, one per vehicle
    SignalOf,         \* [Requests -> Signals]
    NextSignal,       \* [Requests -> Signals \cup {NoSignal}], by next_edge_id
    Hierarchy,        \* priority_hierarchy: [Requests -> rank of its level]
    EmergencyRequests,
    Delay,            \* [Requests -> schedule_delay_s]
    Etas,             \* eta_to_stopline_s of the requests of a pass
    Displacements,    \* seconds an intervention adds to the recovery debt
    Returns,          \* seconds a check-out takes from it again
    EventLifecycleEnabled,  \* actuation.priority_event_lifecycle_enabled
    CorridorCap,      \* max_corridor_recovery_debt_s, 0 if absent
    RespectSpillback, \* respect_downstream_spillback
    NetworkReadings,  \* [spilling, degraded : SUBSET Signals] of a pass
    ApplyActuation,   \* FALSE: decisions are logged and not sent
    LockedSignals,    \* controller not in automatic mode, or pedestrian call
    MinInterval,      \* min_command_interval_s of the controller
    PendingLock,      \* pending_lock_s of the controller
    CountsCap,        \* bound of the model on the interventions counted
    NoSignal

ASSUME CorridorAssumption ==
    /\ IsFiniteSet(Signals)
    /\ SignalOf \in [Requests -> Signals]
    /\ NextSignal \in [Requests -> Signals \cup {NoSignal}]
    /\ Hierarchy \in [Requests -> Nat] /\ Delay \in [Requests -> Nat]
    /\ EmergencyRequests \subseteq Requests
    /\ Etas \subseteq Nat /\ Displacements \subseteq Nat
    /\ IsFiniteSet(Displacements) /\ Displacements # {}
    /\ Returns \subseteq Nat /\ EventLifecycleEnabled \in BOOLEAN
    /\ CorridorCap \in Nat /\ MinInterval \in Nat /\ PendingLock \in Nat
    /\ RespectSpillback \in BOOLEAN /\ ApplyActuation \in BOOLEAN
    /\ NetworkReadings \subseteq [spilling : SUBSET Signals, degraded : SUBSET Signals]
    /\ LockedSignals \subseteq Signals /\ NoSignal \notin Signals

\* The levels of priority_hierarchy are numbered from 1: a level ranked 0 would
\* tie with the emergency vehicles and be served before them when nearer.
ASSUME HierarchyAssumption ==
    \A r \in Requests \ EmergencyRequests : Hierarchy[r] >= 1

VARIABLES
    rations,  \* [Signals -> Ration], the counters of the Safety Layer
    screen,   \* [Signals -> seconds since the controller accepted a command]
    extended, \* the requests whose vehicle has an event open at its signal
    network,  \* network_states of this pass
    eta,      \* [Requests -> Etas] of this pass
    verdict   \* [Requests -> what this pass made of the request]

vars == <<rations, screen, extended, network, eta, verdict>>

Settled == {"idle", "superseded", "deferred", "blocked", "refused"}
Intervening == {"applied", "error", "dry_run"}
Screened == 0 .. Greater(MinInterval, Greater(PendingLock, Cooldown))

TypeOK ==
    /\ rations \in [Signals -> Ration]
    /\ screen \in [Signals -> Screened]
    /\ extended \subseteq Requests
    /\ network \in NetworkReadings
    /\ eta \in [Requests -> Etas]
    /\ verdict \in [Requests -> {"actuating"} \cup Settled \cup Intervening]

Init ==
    /\ rations = [t \in Signals |-> Rested]
    /\ screen = [t \in Signals |-> Max(Screened)]
    /\ extended = {}
    /\ network \in NetworkReadings
    /\ eta = [r \in Requests |-> Min(Etas)]
    /\ verdict = [r \in Requests |-> "idle"]

-----------------------------------------------------------------------------
(* The order of a pass.                                                     *)

\* Mutant: the rank of the hierarchy as configured.
ConfiguredRank(r) == Hierarchy[r]

\* _response_priority_sort_key: an emergency never ranks below the first level.
Rank(r) == IF r \in EmergencyRequests THEN Lesser(Hierarchy[r], 0) ELSE Hierarchy[r]

ServedBefore(a, b) ==
    \/ Rank(a) < Rank(b)
    \/ Rank(a) = Rank(b) /\ eta[a] < eta[b]
    \/ Rank(a) = Rank(b) /\ eta[a] = eta[b] /\ Delay[a] > Delay[b]

Open == {r \in Requests : verdict[r] = "actuating"}

\* Ties, which the code breaks by request_id, are taken in any order.
FirstInLine(r) == r \in Open /\ \A other \in Open : ~ServedBefore(other, r)

Intervened == {SignalOf[r] : r \in {r \in Requests : verdict[r] \in Intervening}}

-----------------------------------------------------------------------------
(* What a pass may make of a request.                                       *)

\* arbitrate, on the debts as they are stored.
CorridorDebt == MapThenSumSet(LAMBDA t : rations[t].debt, Signals)

\* Mutant: the debt of one signal is compared with the cap.
SignalExhausted ==
    CorridorCap > 0 /\ \E t \in Signals : rations[t].debt >= CorridorCap

CorridorExhausted == CorridorCap > 0 /\ CorridorDebt >= CorridorCap

DownstreamSpills(r) ==
    /\ RespectSpillback
    /\ NextSignal[r] \notin {NoSignal, SignalOf[r]}
    /\ NextSignal[r] \in network.spilling

Allowed(r) == ~CorridorExhausted /\ ~DownstreamSpills(r)

ReachesSafety(r) == FirstInLine(r) /\ SignalOf[r] \notin Intervened

Supersede(r) ==
    /\ FirstInLine(r)
    /\ SignalOf[r] \in Intervened
    /\ verdict' = [verdict EXCEPT ![r] = "superseded"]
    /\ UNCHANGED <<rations, screen, extended, network, eta>>

Defer(r) ==
    /\ ReachesSafety(r)
    /\ ~Allowed(r)
    /\ verdict' = [verdict EXCEPT ![r] = "deferred"]
    /\ UNCHANGED <<rations, screen, extended, network, eta>>

\* _continuation_event: an extension for a vehicle whose event is open is an
\* instalment of it, unless the signal is in another phase by now.
MayContinue(r) == {FALSE, (r \in extended)}

Validated(r, continuation) ==
    AfterValidate(rations[SignalOf[r]], r \in EmergencyRequests, continuation)

\* Blocked by the rationing, by a check of the action, or because the
\* detectors of the signal could not be read.
Block(r, continuation) ==
    /\ ReachesSafety(r)
    /\ Allowed(r)
    /\ rations' = [rations EXCEPT ![SignalOf[r]] = Validated(r, continuation)]
    /\ verdict' = [verdict EXCEPT ![r] = "blocked"]
    /\ UNCHANGED <<screen, extended, network, eta>>

Approved(r, continuation) ==
    /\ ReachesSafety(r)
    /\ Allowed(r)
    /\ Admits(rations[SignalOf[r]], r \in EmergencyRequests, continuation)
    /\ SignalOf[r] \notin network.degraded

\* validate_actuation of the simulated controller.
Accepts(t) ==
    /\ t \notin LockedSignals
    /\ screen[t] >= PendingLock
    /\ screen[t] >= MinInterval

\* Refused by the controller: nothing was sent and nothing is booked.
Refuse(r, continuation) ==
    /\ Approved(r, continuation)
    /\ ApplyActuation
    /\ ~Accepts(SignalOf[r])
    /\ rations' = [rations EXCEPT ![SignalOf[r]] = Validated(r, continuation)]
    /\ verdict' = [verdict EXCEPT ![r] = "refused"]
    /\ UNCHANGED <<screen, extended, network, eta>>

Book(r, continuation, added) == MarkApplied(Validated(r, continuation), continuation, added)

\* An extension opens the event of its vehicle, an early green does not.
OpensEvent(r) == {extended} \cup IF EventLifecycleEnabled THEN {extended \cup {r}} ELSE {}

Intervene(r, continuation, added, outcome) ==
    /\ Approved(r, continuation)
    /\ rations[SignalOf[r]].count < CountsCap
    /\ outcome \in IF ApplyActuation THEN {"applied", "error"} ELSE {"dry_run"}
    /\ ApplyActuation => Accepts(SignalOf[r])
    /\ screen' = IF ApplyActuation THEN [screen EXCEPT ![SignalOf[r]] = 0] ELSE screen
    /\ rations' = [rations EXCEPT ![SignalOf[r]] = Book(r, continuation, added)]
    /\ verdict' = [verdict EXCEPT ![r] = outcome]
    /\ extended' \in OpensEvent(r)
    /\ UNCHANGED <<network, eta>>

\* PriorityEventManager.step ends the pass: the vehicle has left, and the green
\* it did not need is no debt.  A signal commanded in this pass is skipped.
CheckOut(r) ==
    /\ Open = {}
    /\ r \in extended /\ SignalOf[r] \notin Intervened
    /\ \E returned \in Returns :
           rations' = [rations EXCEPT ![SignalOf[r]] = ReturnRecoveryDebt(@, returned)]
    /\ extended' = extended \ {r}
    /\ UNCHANGED <<screen, network, eta, verdict>>

\* The next pass: the signals, the network and the requests are read again.
\* A proposal that needs no actuation touches nothing and stays idle, and an
\* event whose phase has ended is closed.
NewPass ==
    /\ Open = {}
    /\ rations' = [t \in Signals |-> Elapse(rations[t])]
    /\ screen' = [t \in Signals |-> Lesser(screen[t] + 1, Max(Screened))]
    /\ extended' \in SUBSET extended
    /\ network' \in NetworkReadings
    /\ verdict' \in [Requests -> {"idle", "actuating"}]
    /\ eta' \in [Requests -> Etas]
    /\ \A r \in Requests : verdict'[r] = "idle" => eta'[r] = Min(Etas)

Serve(r) ==
    \/ Supersede(r) \/ Defer(r)
    \/ \E continuation \in MayContinue(r) :
           \/ Block(r, continuation) \/ Refuse(r, continuation)
           \/ \E added \in Displacements, outcome \in Intervening :
                  Intervene(r, continuation, added, outcome)

Next == NewPass \/ \E r \in Requests : Serve(r) \/ CheckOut(r)

Spec == Init /\ [][Next]_vars

-----------------------------------------------------------------------------
(* Properties.                                                              *)

\* Within a pass an emergency vehicle loses its signal only to another one,
\* whatever the configuration ranks it (_response_priority_sort_key).
EmergencySuperseded ==
    \A r \in EmergencyRequests : verdict[r] = "superseded" =>
        \E s \in EmergencyRequests :
            SignalOf[s] = SignalOf[r] /\ verdict[s] \in Intervening

\* The corridor as a whole never owes more than its cap and one intervention,
\* whichever signals intervene in the same pass, and although the instalments
\* of an open event wait for no cooldown and are not counted.
CorridorDebtBounded ==
    CorridorCap > 0 => CorridorDebt < CorridorCap + Max(Displacements)

=============================================================================
