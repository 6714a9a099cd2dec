----------------------------- MODULE Provenance -----------------------------
(***************************************************************************)
(* core/manifest.py: which sources a failure mode is believable on, as the *)
(* monitor derives it from the adapter's manifest and the rules of the     *)
(* spec.  A rule is the set of sensor keys it reads; what its source says  *)
(* about a mode's propositions is Grading.Sure.                            *)
(***************************************************************************)
EXTENDS Descriptor

\* _source_keys and adapter_key_sources: the manifest of a step names the keys
\* it writes, never those it reads.
KeySourcesOfFields(d, k) ==           \* mutant: the keys of the messages only
  {d[n].source : n \in {m \in DOMAIN d : d[m].fn = "field" /\ d[m].key = k}}
KeySources(d, k) == {d[n].source : n \in {m \in DOMAIN d : d[m].key = k}}

\* ap_source_map: a rule that names no key is answered by the language model,
\* which is handed every sensor.
RuleSources(d, rule, required) ==
  IF rule = {} THEN required ELSE (UNION {KeySources(d, k) : k \in rule}) \cap required

\* expression_source_map, of the rules of the propositions it names.
ExpressionSources(d, rules, required) ==
  UNION {RuleSources(d, rule, required) : rule \in rules}
-----------------------------------------------------------------------------
(* The reference: the sources whose messages reach the value of a key.     *)

StepsFor(d, keys) == {n \in DOMAIN d : d[n].key \in keys}

InputsOf(d, keys) == UNION {Reads(d[m]) : m \in StepsFor(d, keys)}

Upstream(d, k) ==
  LET read[n \in 0..Cardinality(Keys)] ==
        IF n = 0 THEN {k} ELSE read[n - 1] \cup InputsOf(d, read[n - 1])
  IN  read[Cardinality(Keys)]

Feeds(d, k) ==
  {d[n].source : n \in {m \in DOMAIN d : d[m].fn = "field" /\ d[m].key \in Upstream(d, k)}}

\* What a step reads is produced by other steps, all of its own source.  The
\* loader asks the last of message steps only, and takes the step's own key for an
\* answer (ChainsStayHome).
ReadsHome(d, n) ==
  \A x \in Reads(d[n]) : {d[m].source : m \in StepsFor(d, {x}) \ {n}} = {d[n].source}

\* So do all the steps that the value of a key is made by.  The tick step for
\* dist_to_goal in the shipped descriptors reads odometry and belongs to the goal:
\* that key, alone of theirs, is not at home.
StaysHome(d, k) == \A n \in StepsFor(d, Upstream(d, k)) : ReadsHome(d, n)

BelievedOnItsData(d) ==
  LET feeds == [k \in Keys |-> Feeds(d, k)]
      sources == {d[n].source : n \in DOMAIN d}
      reached(rule) == IF rule = {} THEN sources ELSE UNION {feeds[k] : k \in rule}
      home == {k \in {d[n].key : n \in DOMAIN d} : StaysHome(d, k)}
  IN  \A rule, other \in SUBSET home, required \in SUBSET sources :
        ExpressionSources(d, {rule, other}, required)
          = (reached(rule) \cup reached(other)) \cap required
=============================================================================
