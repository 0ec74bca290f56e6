--------------------------- MODULE MCSignalPrograms ---------------------------
(***************************************************************************)
(* A corridor junction: through traffic (ma), a left turn (tu) and a right *)
(* turn (rt) of the corridor, the cross street (cr), and a crossing over   *)
(* the corridor (pm) and over the cross street (pc).                       *)
(***************************************************************************)
EXTENDS SignalPrograms

CONSTANTS ma, tu, rt, cr, pm, pc, gMain, gTurn, gCross

MCLinksOf == (gMain :> {ma, rt}) @@ (gTurn :> {tu}) @@ (gCross :> {cr})
MCFoes == (ma :> {cr, tu, pm}) @@ (tu :> {ma, cr, pc}) @@ (rt :> {pc})
            @@ (cr :> {ma, tu, pc}) @@ (pm :> {ma}) @@ (pc :> {cr, tu, rt})

S(a, t, r, c, m, p) ==
    (ma :> a) @@ (tu :> t) @@ (rt :> r) @@ (cr :> c) @@ (pm :> m) @@ (pc :> p)
P(state, duration) == [state |-> state, duration |-> duration]
AllRed(duration) == P(S("r", "r", "r", "r", "r", "r"), duration)

\* netconvert with guessed crossings, and the same without walking phases.
WithCrossings ==
    <<P(S("G", "g", "G", "r", "r", "G"), 9), P(S("G", "g", "G", "r", "r", "r"), 2),
      P(S("y", "y", "y", "r", "r", "r"), 2), P(S("r", "r", "r", "G", "G", "r"), 8),
      P(S("r", "r", "r", "G", "r", "r"), 2), P(S("r", "r", "r", "y", "r", "r"), 2)>>
WithoutCrossings ==
    <<P(S("G", "g", "G", "r", "r", "r"), 9), P(S("y", "y", "y", "r", "r", "r"), 2),
      AllRed(1),
      P(S("r", "r", "r", "G", "r", "r"), 8), P(S("r", "r", "r", "y", "r", "r"), 2)>>
MCCompiled == {WithCrossings, WithoutCrossings}

Timings ==
    [main_green : {9}, main_yellow : {2}, cross_green : {7}, cross_yellow : {2},
     all_red_main_to_cross : {1, 2}, all_red_cross_to_main : {1, 2}, pedestrian : {0, 1, 4}]
Roles == {"main_green", "main_yellow", "cross_green", "cross_yellow"}
Offered ==
    {Roles \cup AllRedRoles \cup {"pedestrian"}, Roles \cup AllRedRoles,
     Roles \cup {"all_red_main_to_cross", "pedestrian"}}
MCTlsPrograms ==
    {[program |-> Restrict(t, roles), cycle |-> cycle] :
        t \in Timings, roles \in Offered, cycle \in {22, 23, 24, 26}}

FixedTime(phases) == [phases |-> phases, fixedTime |-> TRUE]
\* The turn has a stage of its own, between greens that do not conflict with it.
Staged ==
    FixedTime(<<P(S("G", "r", "G", "r", "r", "r"), 6), P(S("y", "r", "G", "r", "r", "r"), 2),
      P(S("r", "r", "y", "r", "r", "r"), 2), AllRed(1),
      P(S("r", "G", "r", "r", "r", "r"), 4), P(S("r", "y", "r", "r", "r", "r"), 2), AllRed(1),
      P(S("r", "r", "r", "G", "r", "r"), 6), P(S("r", "r", "r", "y", "r", "r"), 2), AllRed(1)>>)
\* The right turn is let go first, and both greens need no all-red between them.
EarlyRight ==
    FixedTime(<<P(S("r", "r", "G", "r", "r", "r"), 3), P(S("G", "g", "G", "r", "r", "r"), 6),
      P(S("y", "y", "y", "r", "r", "r"), 2), AllRed(2),
      P(S("r", "r", "r", "G", "r", "r"), 6), P(S("r", "r", "r", "y", "r", "r"), 2), AllRed(2)>>)
NoAllRed ==
    FixedTime(<<P(S("G", "g", "G", "r", "r", "r"), 6), P(S("y", "y", "y", "r", "r", "r"), 2),
      P(S("r", "r", "r", "G", "r", "r"), 6), P(S("r", "r", "r", "y", "r", "r"), 2)>>)
\* The right turn is green through the whole cycle.
AlwaysRight ==
    FixedTime(<<P(S("G", "g", "G", "r", "r", "r"), 6), P(S("y", "y", "G", "r", "r", "r"), 2),
      P(S("r", "r", "G", "G", "r", "r"), 6), P(S("r", "r", "G", "y", "r", "r"), 2)>>)
\* The turn is never served: its group keeps the phase of the compiled program.
NoTurn ==
    FixedTime(<<P(S("G", "r", "G", "r", "r", "r"), 6), P(S("y", "r", "y", "r", "r", "r"), 2),
      AllRed(2),
      P(S("r", "r", "r", "G", "r", "r"), 6), P(S("r", "r", "r", "y", "r", "r"), 2), AllRed(2)>>)

Adaptive == [phases |-> EarlyRight.phases, fixedTime |-> FALSE]
Unread == [phases |-> Unreadable, fixedTime |-> TRUE]
MCReplacements == {Staged, EarlyRight, NoAllRed, NoTurn, Adaptive, Unread}
\* A replacement that is left out of the run: the verification lets it through,
\* and with it GreenOnlyAfterFoesAreRed fails.
WithMixedPhases == {AlwaysRight}

\* The hypotheses of OverridesAlwaysBalance and OverriddenAlwaysVerify hold here.
ASSUME HypothesesHold == CorridorPrograms /\ VerifiablePrograms
=============================================================================
