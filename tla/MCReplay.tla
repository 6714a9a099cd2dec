------------------------------ MODULE MCReplay ------------------------------
(***************************************************************************)
(* Replay for TLC: the automata of !b U a and of G(a -> X b), complete and *)
(* deterministic as Spot returns them.                                     *)
(***************************************************************************)
EXTENDS Replay

On(P(_)) == {v \in Valuations : P(v)}
Edge(P(_), q) == [when |-> On(P), to |-> q]
Trap(q) == <<[when |-> Valuations, to |-> q]>>

A(v) == "a" \in v
B(v) == "b" \in v

Until ==
  [initial |-> 0, accepting |-> {1},
   edges |-> 0 :> << Edge(A, 1), Edge(LAMBDA v : ~A(v) /\ ~B(v), 0),
                     Edge(LAMBDA v : ~A(v) /\ B(v), 2) >>
             @@ 1 :> Trap(1) @@ 2 :> Trap(2)]

Answer ==
  [initial |-> 0, accepting |-> {0, 1},
   edges |-> 0 :> << Edge(LAMBDA v : ~A(v), 0), Edge(A, 1) >>
             @@ 1 :> << Edge(LAMBDA v : ~B(v), 2), Edge(LAMBDA v : A(v) /\ B(v), 1),
                        Edge(LAMBDA v : ~A(v) /\ B(v), 0) >>
             @@ 2 :> Trap(2)]

Translated == [until |-> <<Until>>, both |-> <<Answer, Until>>]

\* Both propositions known, and one of them unknown.
Evaluated == {"a" :> TRUE @@ "b" :> FALSE, "b" :> TRUE}
=============================================================================
