------------------------------ MODULE MCCampaign ------------------------------
(***************************************************************************)
(* Two scenarios, one of them with two seeds; simulations that leave       *)
(* anything from a clean run to files without telemetry.                   *)
(***************************************************************************)
EXTENDS Campaign

MCThresholds ==
    [collisions |-> 0, teleports |-> 8, jam |-> 0, braking |-> 150, brakingPerThousand |-> 30,
     enoughForRates |-> 500, waiting |-> 150, waitingAtEnd |-> 150, gapAtEnd |-> 150,
     backlogPercent |-> 75]

MCCatalog == <<"corridor", "night">>

MCSeedsOf == [s \in {"corridor", "night"} |-> IF s = "corridor" THEN <<57, 58>> ELSE <<57>>]

Trip(bus, loss) == [bus |-> bus, emergency |-> FALSE, direction |-> "W", loss |-> loss]

\* A run in which the longest insertion queue, the longest queue and the bus loss are given.
Run(waiting, queue, loss) ==
    [tripinfo |-> "whole", trips |-> <<Trip(TRUE, loss), Trip(FALSE, 40)>>,
     summary |-> "whole", waiting |-> <<0, waiting, 0, 0>>,
     statistics |-> "whole", malformed |-> "none", blocks |-> {"vehicles", "teleports", "safety"},
     counters |-> [waiting |-> 0, total |-> 0, jam |-> 0, collisions |-> 0, braking |-> 0],
     detectors |-> "whole", queues |-> <<<<queue, Missing>>, <<>>>>]

Calm == Run(100, 10, 100)
Tight == Run(148, 10, 60)
Better == Run(100, 10, 40)
Tighter == Run(155, 10, 90)
Unseen == [Tighter EXCEPT !.blocks = {"vehicles"}]
Congested == Run(170, 31, 120)
NoBuses == [Calm EXCEPT !.trips = <<Trip(FALSE, 40)>>]
Malformed == [Calm EXCEPT !.statistics = "malformed", !.malformed = "safety"]

MCFilesOf ==
    [s \in {"corridor", "night"} \X {"baseline", "tsp_actuation"} |->
        CASE s = <<"corridor", "baseline">>      -> {Calm, Tight}
          [] s = <<"corridor", "tsp_actuation">> -> {Better, Tighter, Unseen, Congested}
          [] s = <<"night", "baseline">>         -> {Malformed, Calm}
          [] OTHER                               -> {Better, NoBuses}]

MCStaleFiles == Better

Both == <<"baseline", "tsp_actuation">>

Invocation(asked, jobs) ==
    [asked |-> asked, all |-> asked = MCCatalog, arms |-> Both, jobs |-> jobs,
     short |-> FALSE, generate |-> FALSE]

MCInvocations ==
    {Invocation(<<"corridor">>, 2), Invocation(MCCatalog, 1),
     [Invocation(<<"night">>, 2) EXCEPT !.short = TRUE],
     [Invocation(<<"night">>, 1) EXCEPT !.generate = TRUE]}
===============================================================================
