--------------------------- MODULE MCPhaseMachine ---------------------------
(* Instances of PhaseMachine for TLC. *)
EXTENDS PhaseMachine

Reads(pre, inv) == [precondition |-> pre, invariant |-> inv, progress |-> {}, timeout |-> {}]
Fails(pre, inv) == [precondition |-> pre, invariant |-> inv,
                    progress |-> "PROGRESS", timeout |-> "TIMEOUT"]

\* A phase with a budget, whose invariant the camera proves, then one without,
\* whose precondition the imu proves.
TwoPhases ==
  << [min |-> 1, max |-> 3, limit |-> 2, declared |-> {"invariant", "progress"},
      category |-> Fails("PROGRESS", "SAFETY"),
      reads |-> Reads({"imu"}, {"camera"})],
     [min |-> 0, max |-> None, limit |-> 2, declared |-> {"precondition", "progress"},
      category |-> Fails("INVARIANT", "PROGRESS"),
      reads |-> Reads({"imu"}, {"camera", "imu"})] >>

\* The shipped pair, collision_imminent and fell_over, and a milder one.
SafetyModes ==
  << [category |-> "SAFETY", reads |-> {"camera"}],
     [category |-> "SAFETY", reads |-> {"imu"}],
     [category |-> "PROGRESS", reads |-> {"imu"}] >>
=============================================================================
