----------------------------- MODULE SumoOutputs ------------------------------
(***************************************************************************)
(* What the campaign reads of the files one SUMO run leaves behind:        *)
(* tripinfo.xml (src/pps57_sumo/parse_tripinfo.py), summary.xml and        *)
(* statistics.xml (parse_insertion.py), the e1/e2 detector files           *)
(* (detector_kpis.py).                                                     *)
(*                                                                         *)
(* The files of a run are one record: for each file whether it is "whole", *)
(* "broken" (not XML), "malformed" (XML with a counter that is no number)  *)
(* or "absent", and what a whole file says.  A value the code calls None   *)
(* is Missing.  Means are in whole seconds, rounded down.                  *)
(***************************************************************************)
EXTENDS Integers, Sequences, FiniteSets, SequencesExt, FiniteSetsExt

Missing == -1

\* The indices at which a value was read.
Known(values) == {i \in DOMAIN values : values[i] # Missing}

Total(values) == SumFunctionOnSet(values, Known(values))

\* _mean, _avg: None when nothing is known.
Mean(values) ==
    IF Known(values) = {} THEN Missing ELSE Total(values) \div Cardinality(Known(values))

\* _max.
Highest(values) ==
    IF Known(values) = {} THEN Missing ELSE Max({values[i] : i \in Known(values)})

(***************************************************************************)
(* Trips: [bus, emergency, direction, loss].  A trip may be both a bus and *)
(* an emergency vehicle, and counts in both groups.                        *)
(***************************************************************************)
Buses(trips) == {i \in DOMAIN trips : trips[i].bus}
BusesTowards(trips, direction) == {i \in Buses(trips) : trips[i].direction = direction}
Emergencies(trips) == {i \in DOMAIN trips : trips[i].emergency}
GeneralTraffic(trips) == DOMAIN trips \ (Buses(trips) \cup Emergencies(trips))

LossOf(trips, group) == Mean([i \in group |-> trips[i].loss])

TripKpis(trips) ==
    [vehicles    |-> Len(trips),
     buses       |-> Cardinality(Buses(trips)),
     busLoss     |-> LossOf(trips, Buses(trips)),
     westLoss    |-> LossOf(trips, BusesTowards(trips, "W")),
     eastLoss    |-> LossOf(trips, BusesTowards(trips, "E")),
     emergencyLoss |-> LossOf(trips, Emergencies(trips)),
     generalLoss |-> LossOf(trips, GeneralTraffic(trips))]

(***************************************************************************)
(* Insertion and safety counters.  What was not read is read as 0 by every *)
(* gate (`or 0'), so it is 0 here.                                         *)
(***************************************************************************)
InsertionKpis(files) ==
    LET waiting == IF files.summary = "whole" THEN files.waiting ELSE <<>>
    IN  [parseError |-> files.summary = "broken",
         steps      |-> Len(waiting),
         backlog    |-> Len(SelectSeq(waiting, LAMBDA w : w > 0)),
         maxWaiting |-> Highest(<<0>> \o waiting),
         gapAtEnd   |-> IF waiting = <<>> THEN 0 ELSE Last(waiting)]

Blocks == <<"vehicles", "teleports", "safety">>

\* The blocks are read in order up to the first malformed counter.
BlocksRead(files) ==
    IF files.statistics \notin {"whole", "malformed"} THEN {}
    ELSE {Blocks[i] : i \in {j \in DOMAIN Blocks :
             Blocks[j] \in files.blocks
             /\ \A k \in 1..j : files.statistics = "whole" \/ Blocks[k] # files.malformed}}

StatisticsComplete(files) ==
    /\ files.statistics = "whole"
    /\ \A i \in DOMAIN Blocks : Blocks[i] \in BlocksRead(files)

Counter(files, block, name) ==
    IF block \in BlocksRead(files) THEN files.counters[name] ELSE 0

SafetyKpis(files) ==
    [complete   |-> StatisticsComplete(files),
     waiting    |-> Counter(files, "vehicles", "waiting"),
     teleports  |-> Counter(files, "teleports", "total"),
     jam        |-> Counter(files, "teleports", "jam"),
     collisions |-> Counter(files, "safety", "collisions"),
     braking    |-> Counter(files, "safety", "braking")]

\* The longest queue of any e2 detector; its intervals may lack the value.
QueueKpi(files) ==
    IF files.detectors = "absent" THEN Missing
    ELSE LET edges == files.queues
         IN  Highest([i \in DOMAIN edges |-> Highest(edges[i])])

\* These parse errors are caught by nobody: the run itself fails.
Unreadable(files) == files.summary = "malformed" \/ files.detectors = "broken"

\* collect_run_kpis.
RunKpis(files) ==
    [tripinfo |-> files.tripinfo,
     trips     |-> TripKpis(IF files.tripinfo = "whole" THEN files.trips ELSE <<>>),
     insertion |-> InsertionKpis(files),
     safety    |-> SafetyKpis(files),
     queue     |-> QueueKpi(files)]
===============================================================================
