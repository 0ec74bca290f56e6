--------------------------- MODULE DemandProfiles ---------------------------
(***************************************************************************)
(* The traffic demand of a scenario: how demand profiles are derived from  *)
(* one another (src/src/pps57_sumo/scenarios.py), what flows and buses the *)
(* generator emits from them (generate_plain_corridor.py), and the         *)
(* departures that the scenario summary announces.                         *)
(*                                                                         *)
(* Times are whole units, periods thousandths of one, scales halves.  A    *)
(* flow identifier is <<name, suffix>>.  Random draws are given: `jitter'  *)
(* is the sequence of signs that the generator of a service yields,        *)
(* repeated, and `step' the deviation drawn for a dwell.                   *)
(***************************************************************************)
EXTENDS Integers, Sequences, SequencesExt, FiniteSetsExt, TLC

One == 2

Rounded(num, den) == (2 * num + den) \div (2 * den)
Ceiling(num, den) == (num + den - 1) \div den

(***************************************************************************)
(* Derivation.                                                             *)
(***************************************************************************)

\* Mutant: only the identifier that the parent profile gave the flow.
LookupById(f, id, base, default) == IF id \in DOMAIN f THEN f[id] ELSE default

\* A scale or override is given for the flow's present identifier or for the
\* one it has in the profile at the root.
Lookup(f, id, base, default) ==
    IF id \in DOMAIN f THEN f[id]
    ELSE IF base \in DOMAIN f THEN f[base]
    ELSE default

FlowScale(flow, profile) ==
    profile.scale * Lookup(profile.routeScale, flow.route, flow.route, One)
                  * Lookup(profile.flowScale, flow.id, flow.base, One)

Removed(flow, profile) == flow.id \in profile.remove \/ flow.base \in profile.remove

\* A profile whose scales are not positive is refused.
ScalesPositive(flows, profile) ==
    /\ profile.scale > 0
    /\ \A k \in DOMAIN flows :
          Removed(flows[k], profile) \/ FlowScale(flows[k], profile) > 0

ScaledEntry(entry, scale) ==
    IF entry.kind = "period" THEN [entry EXCEPT !.value = Rounded(@ * scale, 8)] ELSE entry

\* One flow of the parent in the derived profile.  An override replaces the
\* period and the time profile; an update replaces any field, last.
DerivedFlow(flow, profile) ==
    LET scale == FlowScale(flow, profile)
        override == Lookup(profile.override, flow.id, flow.base, 0)
        update == Lookup(profile.updates, flow.id, flow.base, <<>>)
        scaled == [flow EXCEPT !.id = <<flow.base[1], profile.suffix>>,
                               !.period = Rounded(@ * scale, 8),
                               !.entries = [k \in DOMAIN @ |-> ScaledEntry(@[k], scale)]]
        timed == IF profile.window = <<>> THEN scaled
                 ELSE [scaled EXCEPT !.begin = profile.window[1], !.end = profile.window[2]]
        overridden == IF override = 0 THEN timed
                      ELSE [timed EXCEPT !.period = override, !.entries = <<>>]
    IN update @@ overridden

DerivedFlows(flows, profile) ==
    LET Kept(flow) == ~ Removed(flow, profile)
        kept == SelectSeq(flows, Kept)
    IN [k \in DOMAIN kept |-> DerivedFlow(kept[k], profile)] \o profile.extra

\* The chain from a profile to its root names known profiles and no profile
\* twice, and no derivation on it has a scale that is not positive.
RECURSIVE Resolvable(_, _, _), ResolvedProfile(_, _)

ResolvedProfile(profiles, name) ==
    LET profile == profiles[name]
    IN IF profile.parent = "" THEN profile
       ELSE [profile EXCEPT
                !.parent = "",
                !.flows = DerivedFlows(ResolvedProfile(profiles, profile.parent).flows, profile)]

Resolvable(profiles, name, resolving) ==
    /\ name \in DOMAIN profiles \ resolving
    /\ profiles[name].parent # "" =>
          /\ Resolvable(profiles, profiles[name].parent, resolving \cup {name})
          /\ ScalesPositive(ResolvedProfile(profiles, profiles[name].parent).flows, profiles[name])

AllResolvable(profiles) == \A name \in DOMAIN profiles : Resolvable(profiles, name, {})

ResolvedProfiles(profiles) == [name \in DOMAIN profiles |-> ResolvedProfile(profiles, name)]

(***************************************************************************)
(* Flows as emitted.                                                       *)
(***************************************************************************)

\* A flow with a time profile becomes one flow per entry; an entry whose
\* scale gives no period is skipped.
SubFlows(flow) ==
    LET Usable(entry) == entry.kind = "period" \/ (entry.value > 0 /\ flow.period > 0)
        Sub(entry) ==
            [flow EXCEPT !.begin = entry.begin, !.end = entry.end, !.entries = <<>>,
                         !.period = IF entry.kind = "period" THEN entry.value
                                    ELSE Rounded(flow.period * One, entry.value)]
        usable == SelectSeq(flow.entries, Usable)
    IN IF flow.entries = <<>> THEN <<flow>> ELSE [k \in DOMAIN usable |-> Sub(usable[k])]

\* With a cool-down no flow begins at or runs past the end of demand.
CarElements(flows, coolDown, simulationEnd) ==
    LET demandEnd == simulationEnd - coolDown
        InTime(flow) == coolDown = 0 \/ flow.begin < demandEnd
        sub == SelectSeq(FlattenSeq([k \in DOMAIN flows |-> SubFlows(flows[k])]), InTime)
    IN [k \in DOMAIN sub |->
          IF coolDown = 0 THEN sub[k] ELSE [sub[k] EXCEPT !.end = Min({@, demandEnd})]]

EstimatedDepartures(flow) ==
    LET Of(begin, end, period, num) ==
            IF end <= begin \/ period <= 0 THEN 0
            ELSE Ceiling((end - begin) * 1000 * num, period * One)
        OfEntry(e) == IF e.kind = "period" THEN Of(e.begin, e.end, e.value, One)
                      ELSE Of(e.begin, e.end, flow.period, e.value)
    IN IF flow.entries = <<>> THEN Of(flow.begin, flow.end, flow.period, One)
       ELSE FoldLeft(LAMBDA n, e : n + OfEntry(e), 0, flow.entries)

ExpandedFlowCount(flow) == IF flow.entries = <<>> THEN 1 ELSE Len(flow.entries)

(***************************************************************************)
(* Buses.                                                                  *)
(***************************************************************************)

\* A service runs in its own window or in that of the simulation.
ServiceWindow(service, simulationEnd) ==
    IF service.window = <<>> THEN <<0, simulationEnd>> ELSE service.window

HeadwayAt(service, t) ==
    LET in == {k \in DOMAIN service.schedule :
                 service.schedule[k].begin <= t /\ t < service.schedule[k].end}
    IN IF in = {} THEN service.headway ELSE service.schedule[Min(in)].headway

\* Departures and their jitter are floats: they are counted in ticks, ten to
\* the second, while windows and headways are whole seconds.
Ticks == 10

\* A departure moves by any share of the jitter, earlier or later; `share' of
\* Ticks is what the generator drew.
Jittered(t, jitter, share) == Max({0, t + (jitter * share) \div Ticks})

ShareOf(jitter, k) == jitter[((k - 1) % Len(jitter)) + 1]

RECURSIVE DepartureTimes(_, _, _, _, _)

\* The k-th departure, scheduled at t, and those that follow it.
DepartureTimes(service, t, end, jitter, k) ==
    IF t >= end THEN <<>>
    ELSE <<Jittered(Ticks * t, service.jitter, ShareOf(jitter, k))>>
            \o DepartureTimes(service, t + HeadwayAt(service, t), end, jitter, k + 1)

Departures(service, simulationEnd, jitter) ==
    LET window == ServiceWindow(service, simulationEnd)
    IN DepartureTimes(service, window[1] + service.offset, window[2], jitter, 1)

RECURSIVE ScheduledFrom(_, _, _)

ScheduledFrom(service, t, end) ==
    IF t >= end THEN 0 ELSE 1 + ScheduledFrom(service, t + HeadwayAt(service, t), end)

EstimatedBuses(service, simulationEnd) ==
    LET window == ServiceWindow(service, simulationEnd)
        first == window[1] + service.offset
    IN IF window[2] <= first \/ service.headway <= 0 THEN 0
       ELSE IF service.schedule = <<>> THEN Ceiling(window[2] - first, service.headway)
       ELSE ScheduledFrom(service, first, window[2])

\* A dwell is a number or drawn from a truncated normal distribution; draws
\* that miss the interval end at its mean, brought into the interval.
Dwell(spec, step) ==
    LET value == spec.mean + step * spec.std
    IN IF spec.std <= 0 THEN spec.mean
       ELSE IF spec.min <= value /\ value <= spec.max THEN value
       ELSE Min({spec.max, Max({spec.min, spec.mean})})

\* The buses of one service.  A bus is known by its line, its direction and
\* the whole seconds of its departure.
BusElements(service, stops, simulationEnd, draw) ==
    LET departs == Departures(service, simulationEnd, draw.jitter)
    IN [k \in DOMAIN departs |->
          [id |-> <<service.line, service.direction, departs[k] \div Ticks>>,
           route |-> service.route, depart |-> departs[k],
           stops |-> [s \in DOMAIN service.stops |->
                        <<service.stops[s], Dwell(stops[service.stops[s]].dwell, draw.step)>>]]]

=============================================================================
