--------------------------- MODULE MCMockMonitor ---------------------------
(* The shipped shapes: an eventuality and a safety property.  Longer has a  *)
(* chain of two, a shorter episode, and a failure mode the mock cannot      *)
(* compile.                                                                 *)
EXTENDS MockMonitor

Risk(is) == [ap |-> "collision_risk", is |-> is]
Goal(literals) == [name |-> "goal", mode |-> FALSE, shape |-> "F", literals |-> literals]
Crash(shape) == [name |-> "crash", mode |-> TRUE, shape |-> shape,
                 literals |-> <<Risk(FALSE)>>]

ShippedSpec == [monitors |-> <<Goal(<<Risk(FALSE)>>), Crash("G")>>,
                episode |-> 2, valid |-> TRUE]
Longer == [monitors |-> <<Goal(<<Risk(FALSE), Risk(TRUE)>>), Crash("U")>>,
           episode |-> 1, valid |-> TRUE]

AllSpecs == {ShippedSpec, Longer}
Blinds   == {{}, {"collision_risk"}}
Handlers == Permutations(Operators)
=============================================================================
