------------------------------- MODULE Seconds -------------------------------
(***************************************************************************)
(* The three clamps the controller applies to durations everywhere:        *)
(* min(a, b), max(a, b) and max(0.0, a).  Durations are whole seconds.     *)
(***************************************************************************)
EXTENDS Integers

Lesser(m, n) == IF m <= n THEN m ELSE n

Greater(m, n) == IF m >= n THEN m ELSE n

AtLeastZero(n) == IF n > 0 THEN n ELSE 0
=============================================================================
