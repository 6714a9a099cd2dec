---------------------------- MODULE PhaseLadder ----------------------------
(***************************************************************************)
(* Where one tick may take the phase machine: the course of an episode     *)
(* through its phases, whatever is sensed on the way.                      *)
(***************************************************************************)
EXTENDS Integers

\* Phase i of n ends in the next one, or after the last in none (-1).
Advances(i, n) == {i} \cup (IF i + 1 < n THEN {i + 1} ELSE {-1})

\* From no phase, the first is entered and may be left on the same tick.
PhaseMoves(i, n) ==
  IF n = 0 THEN {i} ELSE IF i < 0 THEN {-1} \cup Advances(0, n) ELSE Advances(i, n)
=============================================================================
