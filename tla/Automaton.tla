----------------------------- MODULE Automaton -----------------------------
(***************************************************************************)
(* core/automata.py: LTLMonitor over an automaton Spot has translated, and *)
(* MultiMonitor over the automata of a spec.                               *)
(*                                                                         *)
(* An automaton is its initial state, its accepting states and the edges   *)
(* that leave each state, in Spot's order; the condition of an edge is the *)
(* set of valuations it holds on (its BDD), a valuation is the set of the  *)
(* true propositions.  Spot is asked for a complete automaton.  Left out:  *)
(* the DOT, JSON and text renderings.                                      *)
(***************************************************************************)
EXTENDS Integers, SequencesExt

CONSTANT Aps

ASSUME ApsAssumption == IsFiniteSet(Aps)

Valuations == SUBSET Aps

States(m) == DOMAIN m.edges
Out(m, q) == ToSet(m.edges[q])

IsAutomaton(m) ==
  /\ States(m) \subseteq Nat /\ IsFiniteSet(States(m))
  /\ m.initial \in States(m) /\ m.accepting \subseteq States(m)
  /\ \A q \in States(m) :
       /\ m.edges[q] \in Seq(Out(m, q))
       /\ \A e \in Out(m, q) : e.when \subseteq Valuations /\ e.to \in States(m)
       /\ UNION {e.when : e \in Out(m, q)} = Valuations

\* An observation names the propositions that could be evaluated.
Observations == UNION {[known -> BOOLEAN] : known \in SUBSET Aps}

\* _observation_to_bdd: a proposition the observation does not name is false.
Valuation(obs) == {a \in DOMAIN obs : obs[a]}

-----------------------------------------------------------------------------
\* _find_sink_states and _compute_status.
SinksAnywhere(m) ==                   \* mutant: an accepting trap is a sink too
  {q \in States(m) : m.edges[q] = <<[when |-> Valuations, to |-> q]>>}
Sinks(m) ==
  {q \in States(m) \ m.accepting : m.edges[q] = <<[when |-> Valuations, to |-> q]>>}

Status(m, q) ==
  CASE q \in Sinks(m)    -> "VIOLATED"
    [] q \in m.accepting -> "ACCEPTED"
    [] OTHER             -> "INCONCLUSIVE"

\* _find_successor: the first edge that matches.
Matches(m, q, valuation) == {i \in DOMAIN m.edges[q] : valuation \in m.edges[q][i].when}
FirstMatch(m, q, valuation) ==
  CHOOSE i \in Matches(m, q, valuation) : \A j \in Matches(m, q, valuation) : i <= j
Successor(m, q, valuation) == m.edges[q][FirstMatch(m, q, valuation)].to

\* step
Advance(m, q, obs) ==
  IF Status(m, q) = "VIOLATED" THEN q ELSE Successor(m, q, Valuation(obs))

-----------------------------------------------------------------------------
\* _get_edge_aps walks the support of the condition: the propositions it
\* depends on.
DependsOn(cond, a) == \E v \in Valuations : (v \cup {a} \in cond) # (v \ {a} \in cond)

EdgeAps(e) == {a \in Aps : DependsOn(e.when, a)}

\* get_required_aps
Required(m, q) ==
  IF Status(m, q) = "VIOLATED" THEN {}
  ELSE UNION {EdgeAps(e) : e \in {x \in Out(m, q) : x.when # Valuations}}

-----------------------------------------------------------------------------
(* MultiMonitor: ms is the sequence of a spec's automata, qs their states.  *)

InitialStates(ms)  == [f \in DOMAIN ms |-> ms[f].initial]
StepAll(ms, qs, obs) == [f \in DOMAIN ms |-> Advance(ms[f], qs[f], obs)]
Statuses(ms, qs)   == [f \in DOMAIN ms |-> Status(ms[f], qs[f])]

RequiredByFirst(ms, qs) == Required(ms[1], qs[1])        \* mutant: of one formula
RequiredByAll(ms, qs) == UNION {Required(ms[f], qs[f]) : f \in DOMAIN ms}
-----------------------------------------------------------------------------
\* The states some continuation of the run can lead to.
Reachable(m, q) ==
  LET step[n \in 0..Cardinality(States(m))] ==
        IF n = 0 THEN {q}
        ELSE step[n - 1] \cup {e.to : e \in UNION {Out(m, p) : p \in step[n - 1]}}
  IN  step[Cardinality(States(m))]
=============================================================================
