--------------------------- MODULE MCMonitorNode ---------------------------
(* Instances of MonitorNode for TLC: the specs of each run and their phases. *)
EXTENDS MonitorNode

\* A spec without phases, for the questions phases have no part in.
FlatPhases  == [s \in {"flat"} |-> 0]

\* Specs of two, one and no phases; "typo" has an LTL formula that does not
\* parse, which no validation looks at, and "bad" is refused.
SpecPhases == [nav |-> 2, short |-> 1, flat |-> 0, typo |-> 1, bad |-> 1]
=============================================================================
