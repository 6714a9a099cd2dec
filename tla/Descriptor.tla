----------------------------- MODULE Descriptor -----------------------------
(***************************************************************************)
(* core/adapter_spec.py: a descriptor as it is loaded, and one step of it. *)
(*                                                                         *)
(* A descriptor is the sequence of the steps of all its sources, as they   *)
(* are declared; a step is known by its place in it, and the streak that a *)
(* step counts is the step's own.  Left out: a step of several keys, casts *)
(* and rounding, the folds that behave as "last" or as "min" does, the     *)
(* arguments' ranges.                                                      *)
(***************************************************************************)
EXTENDS Integers, FiniteSets, SequencesExt

CONSTANTS Keys,       \* sensor keys of the schema
          Measured,   \* those whose default is a number
          Threshold   \* blocked observations before a streak counts as stuck

ASSUME DescriptorAssumption ==
  IsFiniteSet(Keys) /\ Measured \subseteq Keys /\ Threshold \in Nat \ {0}

\* "bad" makes the arithmetic that reads it raise; "nan" is a number that is
\* no ordering; "blocked" is below "clear".
Values == {"clear", "blocked", "nan", "bad"}

\* What a message can carry: a value, or nothing at the path of a field.
Readings == Values \cup {"absent"}

\* field: reads the message.  streak: stuck_streak over its input.
\* derived: an extractor without state (upright, planar_distance, eq ...).
Step == [source : Nat, key : Keys, on : {"message", "tick"},
         fn : {"field", "streak", "derived"}, input : Keys, fold : {"last", "min"}]

MessageSteps(d, i) == {n \in DOMAIN d : d[n].on = "message" /\ d[n].source = i}
TickSteps(d) == {n \in DOMAIN d : d[n].on = "tick"}
KeysOf(d, i) == {d[n].key : n \in {m \in DOMAIN d : d[m].source = i}}

Reads(s) == IF s.fn = "field" THEN {} ELSE {s.input}

(***************************************************************************)
(* Step.__init__, AdapterSpec._validate and _build_aggregate_by_key: what  *)
(* the loader refuses.                                                     *)
(***************************************************************************)
TickStepsNeedNoMessage(d) == \A n \in TickSteps(d) : d[n].fn # "field"

OneFoldPerKey(d) ==
  \A n, m \in DOMAIN d \ TickSteps(d) : d[n].key = d[m].key => d[n].fold = d[m].fold

NumericFoldsOnNumbers(d) ==
  \A n \in DOMAIN d \ TickSteps(d) : d[n].fold = "min" => d[n].key \in Measured

ChainsStayHome(d) ==
  \A n \in DOMAIN d \ TickSteps(d) : Reads(d[n]) \subseteq KeysOf(d, d[n].source)

\* _validate_input_order: step m runs after step n in the same message or tick.
\* A step may read the key it writes itself.
RunsLaterAtHome(d, n, m) ==           \* mutant: tick-steps of other sources run later
  /\ d[m].source = d[n].source
  /\ \/ m > n /\ d[m].on = d[n].on
     \/ d[n].on = "message" /\ d[m].on = "tick"
RunsLater(d, n, m) ==
  \/ m > n /\ {n, m} \subseteq TickSteps(d)
  \/ m > n /\ {n, m} \subseteq MessageSteps(d, d[n].source)
  \/ d[m].source = d[n].source /\ d[n].on = "message" /\ d[m].on = "tick"

InputsInOrder(d) == \A n, m \in DOMAIN d : RunsLater(d, n, m) => d[m].key \notin Reads(d[n])

Loads(d) ==
  /\ TickStepsNeedNoMessage(d) /\ OneFoldPerKey(d) /\ NumericFoldsOnNumbers(d)
  /\ ChainsStayHome(d) /\ InputsInOrder(d)

-----------------------------------------------------------------------------
(***************************************************************************)
(* Step.apply, over an attempt: the values held, the ones found so far in  *)
(* this message or tick, the streaks, and whether a step has raised.       *)
(***************************************************************************)
Attempt(values, found, streaks) ==
  [held |-> values, found |-> found, streaks |-> streaks, ok |-> TRUE]

Nothing == [k \in Keys |-> "absent"]

Seen(a, k) == IF a.found[k] = "absent" THEN a.held[k] ELSE a.found[k]
Find(a, k, v) == [a EXCEPT !.found[k] = v]

\* StuckStreak.update and is_stuck
Count(n, v) == IF v = "blocked" THEN n + 1 ELSE 0
Stuck(n) == IF n >= Threshold THEN "blocked" ELSE "clear"

ApplyField(a, k, reading) == IF reading = "absent" THEN a ELSE Find(a, k, reading)
ApplyDerived(a, k, v) == IF v = "bad" THEN [a EXCEPT !.ok = FALSE] ELSE Find(a, k, v)
ApplyStreak(a, n, k, v) ==
  LET count == Count(a.streaks[n], v)
  IN  Find([a EXCEPT !.streaks[n] = count], k, Stuck(count))

\* Step n of d, unless one before it has raised.
Apply(a, d, n, reading) ==
  LET s == d[n]
  IN  IF ~a.ok THEN a
      ELSE CASE s.fn = "field"   -> ApplyField(a, s.key, reading)
             [] s.fn = "derived" -> ApplyDerived(a, s.key, Seen(a, s.input))
             [] s.fn = "streak"  -> ApplyStreak(a, n, s.key, Seen(a, s.input))

\* The steps in which, in their order: Ran[n] is the attempt after step n.
Ran(a, d, which, reading) ==
  LET ran[n \in 0..Len(d)] ==
        IF n = 0 THEN a
        ELSE IF n \in which THEN Apply(ran[n - 1], d, n, reading)
        ELSE ran[n - 1]
  IN  ran
RunSteps(a, d, which, reading) == Ran(a, d, which, reading)[Len(d)]

\* The steps of a finished attempt that read something else than what it
\* ended with.
ReadEarly(a, d, which, reading) ==
  LET ran == Ran(a, d, which, reading)
  IN  {n \in which : \E k \in Reads(d[n]) \ {d[n].key} : Seen(ran[n - 1], k) # Seen(ran[Len(d)], k)}

-----------------------------------------------------------------------------
(***************************************************************************)
(* SensorState._fold: the samples of one key in one tick.                  *)
(***************************************************************************)
Usable(policy, samples) == {i \in DOMAIN samples : policy = "min" => samples[i] # "nan"}

\* min compares: a value that is no number is found out beside another.
FoldRaises(policy, samples) ==
  /\ policy = "min"
  /\ \E i, j \in Usable(policy, samples) : i # j /\ samples[i] = "bad"

FoldSamples(policy, samples) ==
  IF policy = "last" THEN Last(samples)
  ELSE IF "blocked" \in ToSet(samples) THEN "blocked"
  ELSE samples[CHOOSE i \in Usable(policy, samples) : TRUE]
=============================================================================
