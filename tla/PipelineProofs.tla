--------------------------- MODULE PipelineProofs ---------------------------
(***************************************************************************)
(* What Sensors and Replay show on small instances, the two ends of the    *)
(* pipeline around the monitor: the evaluator's side of the sensors, for   *)
(* every schema, every loadable descriptor and every traffic; and the      *)
(* recorder and the player, for every spec, all its automata and every     *)
(* recording.                                                              *)
(***************************************************************************)
EXTENDS Sensors, Replay, FiniteSetTheorems, WellFoundedInduction, TLAPS

\* A set of natural numbers has a least one.
LEMMA LeastNatural ==
  ASSUME NEW T, T \subseteq Nat, T # {}
  PROVE  \E x \in T : \A y \in T : x <= y
<1>1. PICK x \in T : \A y \in T : <<y, x>> \notin OpToRel(<, Nat)
  BY WFMin, NatLessThanWellFounded, Zenon
<1>2. \A y \in T : ~ (y < x)
  BY <1>1, Zenon DEF OpToRel
<1>3. x \in Nat /\ \A y \in T : y \in Nat
  BY <1>1
<1>4. ASSUME NEW y \in T PROVE x <= y
  <2>1. x \in Nat /\ y \in Nat /\ ~ (y < x)
    BY <1>2, <1>3
  <2> QED
    BY <2>1
<1> QED
  BY <1>4

\* Induction along an interval, over the set of places where a fact holds.
LEMMA Upward ==
  ASSUME NEW lo \in Nat, NEW hi \in Nat, NEW T, lo \in T,
         \A n \in lo..hi : n < hi /\ n \in T => n + 1 \in T
  PROVE  \A n \in lo..hi : n \in T
<1> DEFINE Rest == {n \in lo..hi : n \notin T}
<1> SUFFICES ASSUME Rest # {} PROVE FALSE
  OBVIOUS
<1>1. PICK n \in Rest : \A m \in Rest : n <= m
  <2>1. Rest \subseteq Nat
    OBVIOUS
  <2> HIDE DEF Rest
  <2> QED
    BY <2>1, LeastNatural
<1>2. n \in lo..hi /\ n # lo
  BY <1>1
<1>3. n - 1 \in lo..hi /\ n - 1 < hi /\ n - 1 \notin Rest
  BY <1>1, <1>2
<1>4. n - 1 \in T
  BY <1>3
<1>5. n - 1 + 1 \in T
  BY <1>3, <1>4
<1> QED
  BY <1>1, <1>2, <1>5

-----------------------------------------------------------------------------
(* The steps of one message or tick.                                       *)

Attempts(d) == [held : [Keys -> Values], found : [Keys -> Readings],
                streaks : [DOMAIN d -> Nat], ok : BOOLEAN]

\* The recursive definition defines: the attempt after each step is the one
\* before it with that step applied (SensorState.update and tick).
LEMMA RanStepByStep ==
  ASSUME NEW d, Len(d) \in Nat, NEW a, NEW which, NEW reading
  PROVE  /\ Ran(a, d, which, reading)[0] = a
         /\ \A n \in 1..Len(d) :
              Ran(a, d, which, reading)[n]
                = IF n \in which THEN Apply(Ran(a, d, which, reading)[n - 1], d, n, reading)
                  ELSE Ran(a, d, which, reading)[n - 1]
<1> DEFINE Onto(before, n) == IF n \in which THEN Apply(before, d, n, reading) ELSE before
           Runs(f, m) == f = [n \in 0..m |-> IF n = 0 THEN a ELSE Onto(f[n - 1], n)]
           T == {m \in 0..Len(d) : \E f : Runs(f, m)}
<1> HIDE DEF Onto
<1>1. 0 \in T
  <2>1. Runs([n \in 0..0 |-> a], 0)
    OBVIOUS
  <2> HIDE DEF Runs
  <2> QED
    BY <2>1
<1>2. ASSUME NEW m \in 0..Len(d), m < Len(d), m \in T PROVE m + 1 \in T
  <2>1. PICK f : Runs(f, m)
    BY <1>2
  <2> DEFINE g == [n \in 0..(m + 1) |-> IF n = m + 1 THEN Onto(f[m], m + 1) ELSE f[n]]
  <2>2. \A n \in 0..m : g[n] = f[n] /\ f[n] = IF n = 0 THEN a ELSE Onto(f[n - 1], n)
    BY <2>1
  <2>3. g[m + 1] = Onto(g[m], m + 1)
    BY <2>2
  <2>4. \A n \in 0..(m + 1) : g[n] = IF n = 0 THEN a ELSE Onto(g[n - 1], n)
    BY <2>2, <2>3
  <2>5. Runs(g, m + 1)
    BY <2>4
  <2> HIDE DEF Runs, g
  <2> QED
    BY <1>2, <2>5
<1>3. Len(d) \in T
  <2> HIDE DEF T
  <2>1. \A m \in 0..Len(d) : m \in T
    BY <1>1, <1>2, Upward
  <2> QED
    BY <2>1
<1>4. Runs(Ran(a, d, which, reading), Len(d))
  <2>1. \E f : Runs(f, Len(d))
    BY <1>3
  <2>2. Ran(a, d, which, reading) = CHOOSE f : Runs(f, Len(d))
    BY DEF Ran, Onto
  <2> QED
    BY <2>1, <2>2
<1> QED
  BY <1>4 DEF Onto

\* A step of a descriptor.
LEMMA StepFacts ==
  ASSUME NEW d \in Seq(Step), NEW n \in DOMAIN d
  PROVE  /\ n \in 1..Len(d) /\ n \in Nat /\ d[n].source \in Nat
         /\ d[n].key \in Keys /\ d[n].input \in Keys
         /\ d[n].fn \in {"field", "derived", "streak"}
<1>1. n \in 1..Len(d)
  OBVIOUS
<1>2. d[n] \in Step
  BY <1>1
<1> QED
  BY <1>1, <1>2 DEF Step

\* What one step does to an attempt (Step.apply).
LEMMA SeenType ==
  ASSUME NEW d, NEW a \in Attempts(d), NEW k \in Keys
  PROVE  Seen(a, k) \in Values
BY DEF Attempts, Seen, Values, Readings

LEMMA FindFacts ==
  ASSUME NEW d, NEW a \in Attempts(d), NEW key \in Keys, NEW v \in Values
  PROVE  /\ Find(a, key, v) \in Attempts(d)
         /\ Find(a, key, v).held = a.held /\ Find(a, key, v).streaks = a.streaks
         /\ Find(a, key, v).ok = a.ok /\ Find(a, key, v).found[key] = v
         /\ \A k \in Keys \ {key} : Find(a, key, v).found[k] = a.found[k]
<1> DEFINE found == [a.found EXCEPT ![key] = v]
<1>1. /\ found \in [Keys -> Readings] /\ found[key] = v
      /\ \A k \in Keys \ {key} : found[k] = a.found[k]
  BY DEF Attempts, Values, Readings
<1>2. Find(a, key, v) = [a EXCEPT !.found = found]
  BY DEF Find
<1> HIDE DEF found
<1> QED
  BY <1>1, <1>2 DEF Attempts

LEMMA ApplyFacts ==
  ASSUME NEW d \in Seq(Step), NEW a \in Attempts(d), NEW n \in DOMAIN d,
         NEW reading \in Readings, NEW b, b = Apply(a, d, n, reading)
  PROVE  /\ b \in Attempts(d) /\ b.held = a.held
         /\ \A k \in Keys \ {d[n].key} : b.found[k] = a.found[k]
         /\ \A m \in DOMAIN d : m # n \/ d[m].fn # "streak" => b.streaks[m] = a.streaks[m]
         /\ b.ok => a.ok
         /\ b.ok /\ d[n].fn = "streak"
              => b.streaks[n] = Count(a.streaks[n], Seen(a, d[n].input))
         /\ b.ok /\ d[n].fn = "derived"
              => /\ Seen(a, d[n].input) # "bad"
                 /\ b.found[d[n].key] = Seen(a, d[n].input)
         /\ a.ok /\ ~b.ok => d[n].fn = "derived" /\ Seen(a, d[n].input) = "bad"
         /\ reading # "bad" /\ (\A k \in Keys : a.found[k] # "bad")
              => \A k \in Keys : b.found[k] # "bad"
<1> DEFINE s == d[n]
           v == Seen(a, s.input)
<1>1. s.key \in Keys /\ s.input \in Keys /\ s.fn \in {"field", "derived", "streak"}
  BY StepFacts
<1>2. v \in Values
  BY <1>1, SeenType
<1> HIDE DEF v
<1>3. CASE ~a.ok
  BY <1>3 DEF Apply
<1>4. CASE a.ok /\ s.fn = "field"
  <2>1. b = ApplyField(a, s.key, reading)
    BY <1>4 DEF Apply
  <2>2. CASE reading = "absent"
    BY <1>4, <2>1, <2>2 DEF ApplyField
  <2>3. CASE reading # "absent"
    <3>1. reading \in Values /\ b = Find(a, s.key, reading)
      BY <2>1, <2>3 DEF ApplyField, Readings, Values
    <3> QED
      BY <1>1, <1>4, <3>1, FindFacts
  <2> QED
    BY <2>2, <2>3
<1>5. CASE a.ok /\ s.fn = "derived"
  <2>1. b = ApplyDerived(a, s.key, v)
    BY <1>5 DEF Apply, v
  <2>2. CASE v = "bad"
    <3>1. b = [a EXCEPT !.ok = FALSE]
      BY <2>1, <2>2 DEF ApplyDerived
    <3>2. /\ b \in Attempts(d) /\ b.held = a.held /\ b.found = a.found
          /\ b.streaks = a.streaks /\ ~b.ok
      BY <3>1 DEF Attempts
    <3> QED
      BY <1>5, <2>2, <3>2 DEF v
  <2>3. CASE v # "bad"
    <3>1. b = Find(a, s.key, v)
      BY <2>1, <2>3 DEF ApplyDerived
    <3>2. /\ b \in Attempts(d) /\ b.held = a.held /\ b.streaks = a.streaks
          /\ b.ok = a.ok /\ b.found[s.key] = v
          /\ \A k \in Keys \ {s.key} : b.found[k] = a.found[k]
      BY <1>1, <1>2, <3>1, FindFacts
    <3> QED
      BY <1>5, <2>3, <3>2 DEF v
  <2> QED
    BY <2>2, <2>3
<1>6. CASE a.ok /\ s.fn = "streak"
  <2> DEFINE count == Count(a.streaks[n], v)
             c == [a EXCEPT !.streaks[n] = count]
             w == Stuck(count)
  <2>1. b = Find(c, s.key, w)
    BY <1>6 DEF Apply, ApplyStreak, v
  <2>2. count \in Nat /\ w \in Values /\ w # "bad"
    BY DEF Attempts, Count, Stuck, Values
  <2>3. count = Count(a.streaks[n], Seen(a, s.input))
    BY DEF v
  <2> HIDE DEF count
  <2>4. /\ c \in Attempts(d) /\ c.held = a.held /\ c.found = a.found /\ c.ok
        /\ c.streaks[n] = count
        /\ \A m \in DOMAIN d : m # n => c.streaks[m] = a.streaks[m]
    BY <1>6, <2>2 DEF Attempts
  <2>5. c \in Attempts(d) /\ s.key \in Keys /\ w \in Values /\ b = Find(c, s.key, w)
    BY <1>1, <2>1, <2>2, <2>4
  <2> HIDE DEF c, w
  <2>6. /\ b \in Attempts(d) /\ b.held = c.held /\ b.streaks = c.streaks
        /\ b.ok = c.ok /\ b.found[s.key] = w
        /\ \A k \in Keys \ {s.key} : b.found[k] = c.found[k]
    BY <2>5, FindFacts
  <2>7. b.streaks[n] = Count(a.streaks[n], Seen(a, s.input))
    BY <2>3, <2>4, <2>6
  <2>8. \A m \in DOMAIN d : m # n \/ d[m].fn # "streak" => b.streaks[m] = a.streaks[m]
    BY <1>6, <2>4, <2>6
  <2>9. /\ b \in Attempts(d) /\ b.ok /\ b.held = a.held /\ b.found[s.key] # "bad"
        /\ \A k \in Keys \ {s.key} : b.found[k] = a.found[k]
    BY <2>2, <2>4, <2>6
  <2> QED
    BY <1>6, <2>7, <2>8, <2>9
<1> QED
  BY <1>1, <1>3, <1>4, <1>5, <1>6

\* The steps of a message or of a tick, none of which reads what a later one
\* writes (_validate_input_order).
Ordered(d, which) ==
  /\ which \subseteq DOMAIN d
  /\ \A n, m \in which : m > n => d[m].key \notin Reads(d[n])

LEMMA LoadedIsOrdered ==
  ASSUME NEW d, DOMAIN d \subseteq Int, Loads(d), NEW i
  PROVE  Ordered(d, MessageSteps(d, i)) /\ Ordered(d, TickSteps(d))
<1>1. MessageSteps(d, i) \subseteq DOMAIN d /\ TickSteps(d) \subseteq DOMAIN d
  BY DEF MessageSteps, TickSteps
<1>2. ASSUME NEW n \in TickSteps(d), NEW m \in TickSteps(d), m > n
      PROVE  d[m].key \notin Reads(d[n])
  BY <1>1, <1>2 DEF Loads, InputsInOrder, RunsLater
<1>3. ASSUME NEW n \in MessageSteps(d, i), NEW m \in MessageSteps(d, i), m > n
      PROVE  d[m].key \notin Reads(d[n])
  <2>1. m \in MessageSteps(d, d[n].source) /\ n \in MessageSteps(d, d[n].source)
    BY DEF MessageSteps
  <2> QED
    BY <1>1, <1>3, <2>1 DEF Loads, InputsInOrder, RunsLater
<1> QED
  BY <1>1, <1>2, <1>3 DEF Ordered

-----------------------------------------------------------------------------
(* All the steps of one message or tick, by induction along the descriptor. *)

LEMMA RanIsAttempt ==
  ASSUME NEW d \in Seq(Step), NEW a \in Attempts(d), NEW which,
         NEW reading \in Readings, NEW ran, ran = Ran(a, d, which, reading)
  PROVE  \A n \in 0..Len(d) : ran[n] \in Attempts(d)
<1> DEFINE T == {n \in 0..Len(d) : ran[n] \in Attempts(d)}
<1>1. 0 \in T
  BY RanStepByStep
<1>2. ASSUME NEW n \in 0..Len(d), n < Len(d), n \in T PROVE n + 1 \in T
  <2>1. n + 1 \in 1..Len(d) /\ n + 1 \in DOMAIN d /\ n + 1 - 1 = n
    BY <1>2
  <2>2. ran[n + 1] = IF n + 1 \in which THEN Apply(ran[n], d, n + 1, reading) ELSE ran[n]
    BY <2>1, RanStepByStep
  <2>3. Apply(ran[n], d, n + 1, reading) \in Attempts(d)
    BY <1>2, <2>1, ApplyFacts
  <2> QED
    BY <1>2, <2>1, <2>2, <2>3
<1> HIDE DEF T
<1>3. 0 \in Nat /\ Len(d) \in Nat
  OBVIOUS
<1>4. \A n \in 0..Len(d) : n \in T
  BY <1>1, <1>2, <1>3, Upward
<1> QED
  BY <1>4 DEF T

\* One step further, in the terms of ApplyFacts.
LEMMA OneStepFurther ==
  ASSUME NEW d \in Seq(Step), NEW a \in Attempts(d), NEW which,
         NEW reading \in Readings, NEW ran, ran = Ran(a, d, which, reading),
         NEW n \in 0..Len(d), n < Len(d)
  PROVE  /\ n + 1 \in DOMAIN d /\ ran[n] \in Attempts(d) /\ ran[n + 1] \in Attempts(d)
         /\ ran[n + 1].held = ran[n].held
         /\ n + 1 \in which => ran[n + 1] = Apply(ran[n], d, n + 1, reading)
         /\ n + 1 \notin which => ran[n + 1] = ran[n]
<1>1. n + 1 \in 1..Len(d) /\ n + 1 \in DOMAIN d /\ n + 1 - 1 = n /\ n + 1 \in 0..Len(d)
  OBVIOUS
<1>2. ran[n] \in Attempts(d) /\ ran[n + 1] \in Attempts(d)
  BY <1>1, RanIsAttempt
<1>3. ran[n + 1] = IF n + 1 \in which THEN Apply(ran[n], d, n + 1, reading) ELSE ran[n]
  BY <1>1, RanStepByStep
<1>4. Apply(ran[n], d, n + 1, reading).held = ran[n].held
  BY <1>1, <1>2, ApplyFacts
<1> QED
  BY <1>1, <1>2, <1>3, <1>4

\* What a later attempt keeps of an earlier one: the values held, the streaks
\* of the steps already run or not run at all, and what no step in between writes.
LEMMA RanKeeps ==
  ASSUME NEW d \in Seq(Step), NEW a \in Attempts(d), NEW which,
         NEW reading \in Readings, NEW ran, ran = Ran(a, d, which, reading),
         NEW lo \in 0..Len(d)
  PROVE  \A n \in lo..Len(d) :
           /\ ran[n].held = ran[lo].held
           /\ ran[n].ok => ran[lo].ok
           /\ \A m \in DOMAIN d : m <= lo \/ m > n \/ m \notin which
                 => ran[n].streaks[m] = ran[lo].streaks[m]
           /\ \A k \in Keys : (\A m \in which : m > lo => d[m].key # k)
                 => ran[n].found[k] = ran[lo].found[k]
<1> DEFINE Keeps(n) ==
      /\ ran[n].held = ran[lo].held
      /\ ran[n].ok => ran[lo].ok
      /\ \A m \in DOMAIN d : m <= lo \/ m > n \/ m \notin which
            => ran[n].streaks[m] = ran[lo].streaks[m]
      /\ \A k \in Keys : (\A m \in which : m > lo => d[m].key # k)
            => ran[n].found[k] = ran[lo].found[k]
    T == {n \in lo..Len(d) : Keeps(n)}
<1>1. lo \in T
  OBVIOUS
<1>2. ASSUME NEW n \in lo..Len(d), n < Len(d), n \in T PROVE n + 1 \in T
  <2>1. n \in 0..Len(d) /\ n + 1 \in lo..Len(d) /\ Keeps(n) /\ n + 1 > lo
    BY <1>2
  <2>2. /\ n + 1 \in DOMAIN d /\ ran[n] \in Attempts(d)
        /\ n + 1 \in which => ran[n + 1] = Apply(ran[n], d, n + 1, reading)
        /\ n + 1 \notin which => ran[n + 1] = ran[n]
    BY <1>2, <2>1, OneStepFurther
  <2> HIDE DEF T
  <2>3. CASE n + 1 \notin which
    <3>1. ran[n + 1] = ran[n] /\ Keeps(n)
      BY <2>1, <2>2, <2>3
    <3>2. Keeps(n + 1)
      <4>1. \A m \in DOMAIN d : m > n + 1 => m > n
        BY <2>1
      <4> QED
        BY <3>1, <4>1
    <3> QED
      BY <2>1, <3>2 DEF T
  <2>4. CASE n + 1 \in which
    <3> DEFINE b == ran[n + 1]
    <3>1. /\ b.held = ran[n].held
          /\ b.ok => ran[n].ok
          /\ \A k \in Keys \ {d[n + 1].key} : b.found[k] = ran[n].found[k]
          /\ \A m \in DOMAIN d : m # n + 1 => b.streaks[m] = ran[n].streaks[m]
      BY <2>2, <2>4, ApplyFacts
    <3>2. \A m \in DOMAIN d : m <= lo \/ m > n + 1 \/ m \notin which
            => m # n + 1 /\ (m <= lo \/ m > n \/ m \notin which)
      BY <2>1, <2>4
    <3>3. \A m \in DOMAIN d : m <= lo \/ m > n + 1 \/ m \notin which
            => b.streaks[m] = ran[lo].streaks[m]
      BY <2>1, <3>1, <3>2
    <3>4. \A k \in Keys : (\A m \in which : m > lo => d[m].key # k)
            => b.found[k] = ran[lo].found[k]
      BY <2>1, <2>4, <3>1
    <3>5. b.held = ran[lo].held /\ (b.ok => ran[lo].ok)
      BY <2>1, <3>1
    <3>6. Keeps(n + 1)
      BY <3>3, <3>4, <3>5
    <3> QED
      BY <2>1, <3>6 DEF T
  <2> QED
    BY <2>3, <2>4
<1> HIDE DEF T
<1>3. lo \in Nat /\ Len(d) \in Nat
  OBVIOUS
<1>4. \A n \in lo..Len(d) : n \in T
  BY <1>1, <1>2, <1>3, Upward
<1> QED
  BY <1>4 DEF T

\* What a step of an ordered message or tick reads, besides the key it writes,
\* is what the attempt ends with.
LEMMA ReadIsFinal ==
  ASSUME NEW d \in Seq(Step), NEW a \in Attempts(d), NEW which, Ordered(d, which),
         NEW reading \in Readings, NEW ran, ran = Ran(a, d, which, reading),
         NEW n \in which, NEW k \in Keys, k \in Reads(d[n]), k # d[n].key
  PROVE  Seen(ran[n - 1], k) = Seen(ran[Len(d)], k)
<1>1. which \subseteq DOMAIN d /\ \A m \in which : m > n => d[m].key # k
  BY DEF Ordered
<1>2. n \in 1..Len(d) /\ n - 1 \in 0..Len(d) /\ Len(d) \in (n - 1)..Len(d)
  BY <1>1
<1>3. \A m \in which : m > n - 1 => d[m].key # k
  BY <1>1, <1>2
<1>4. /\ ran[Len(d)].held = ran[n - 1].held
      /\ ran[Len(d)].found[k] = ran[n - 1].found[k]
  <2> DEFINE lo == n - 1
  <2> HIDE DEF lo
  <2>1. lo \in 0..Len(d) /\ Len(d) \in lo..Len(d) /\ \A m \in which : m > lo => d[m].key # k
    BY <1>2, <1>3 DEF lo
  <2>2. /\ ran[Len(d)].held = ran[lo].held
        /\ ran[Len(d)].found[k] = ran[lo].found[k]
    BY <2>1, RanKeeps
  <2> QED
    BY <2>2 DEF lo
<1> QED
  BY <1>4 DEF Seen

LEMMA NoneReadsEarly ==
  ASSUME NEW d \in Seq(Step), NEW a \in Attempts(d), NEW which, Ordered(d, which),
         NEW reading \in Readings
  PROVE  ReadEarly(a, d, which, reading) = {}
<1> DEFINE ran == Ran(a, d, which, reading)
<1>1. \A n \in which : Reads(d[n]) \subseteq Keys
  BY StepFacts DEF Ordered, Reads
<1>2. \A n \in which : \A k \in Reads(d[n]) \ {d[n].key} :
        Seen(ran[n - 1], k) = Seen(ran[Len(d)], k)
  <2> HIDE DEF ran
  <2> QED
    BY <1>1, ReadIsFinal DEF ran
<1> QED
  BY <1>2 DEF ReadEarly

\* The streak of a step of a finished attempt counts the value the attempt
\* ends with.
LEMMA StreakCountsTheEnd ==
  ASSUME NEW d \in Seq(Step), NEW a \in Attempts(d), NEW which, Ordered(d, which),
         NEW reading \in Readings, NEW b, b = RunSteps(a, d, which, reading), b.ok,
         NEW n \in which, d[n].fn = "streak", d[n].input # d[n].key
  PROVE  b.streaks[n] = Count(a.streaks[n], Seen(b, d[n].input))
<1> DEFINE ran == Ran(a, d, which, reading)
           k == d[n].input
<1>1. /\ n \in DOMAIN d /\ n \in 1..Len(d) /\ n \in Nat /\ k \in Keys /\ k \in Reads(d[n])
      /\ n - 1 \in 0..Len(d) /\ n - 1 < Len(d) /\ n - 1 + 1 = n
      /\ n \in 0..Len(d) /\ Len(d) \in n..Len(d) /\ n - 1 \in 0..Len(d) /\ 0 \in 0..Len(d)
  BY StepFacts DEF Ordered, Reads
<1>2. b = ran[Len(d)] /\ ran[0] = a
  BY RanStepByStep DEF RunSteps
<1>3. ran[n - 1].streaks[n] = a.streaks[n]
  <2>1. n - 1 \in 0..Len(d) /\ n > n - 1
    BY <1>1
  <2> HIDE DEF ran
  <2> QED
    BY <1>1, <1>2, <2>1, RanKeeps DEF ran
<1>4. ran[n].ok /\ b.streaks[n] = ran[n].streaks[n]
  <2>1. n <= n
    BY <1>1
  <2> HIDE DEF ran
  <2> QED
    BY <1>1, <1>2, <2>1, RanKeeps DEF ran
<1>5. Seen(ran[n - 1], k) = Seen(b, k)
  <2> HIDE DEF ran, k
  <2>1. k # d[n].key
    BY DEF k
  <2> QED
    BY <1>1, <1>2, <2>1, ReadIsFinal DEF ran
<1>6. /\ ran[n - 1] \in Attempts(d)
      /\ ran[n] = Apply(ran[n - 1], d, n, reading)
  <2> HIDE DEF ran
  <2>1. ran = Ran(a, d, which, reading)
    BY DEF ran
  <2> DEFINE m == n - 1
  <2>2. m \in 0..Len(d) /\ m < Len(d) /\ m + 1 = n
    BY <1>1
  <2> HIDE DEF m
  <2>3. ran[m] \in Attempts(d) /\ ran[m + 1] = Apply(ran[m], d, m + 1, reading)
    BY <2>1, <2>2, OneStepFurther
  <2> QED
    BY <2>2, <2>3 DEF m
<1>7. ran[n].streaks[n] = Count(ran[n - 1].streaks[n], Seen(ran[n - 1], k))
  <2> HIDE DEF ran
  <2> QED
    BY <1>1, <1>4, <1>6, ApplyFacts
<1> QED
  BY <1>3, <1>4, <1>5, <1>7

\* What a derived step of a finished attempt reads did not make it raise, and
\* is what the attempt ends with, the key it writes itself included.
LEMMA DerivedReadsGood ==
  ASSUME NEW d \in Seq(Step), NEW a \in Attempts(d), NEW which, Ordered(d, which),
         NEW reading \in Readings, NEW b, b = RunSteps(a, d, which, reading), b.ok,
         NEW n \in which, d[n].fn = "derived"
  PROVE  Seen(b, d[n].input) # "bad"
<1> DEFINE ran == Ran(a, d, which, reading)
           k == d[n].input
           m == n - 1
<1>1. /\ n \in DOMAIN d /\ n \in 0..Len(d) /\ Len(d) \in n..Len(d) /\ k \in Keys
      /\ m \in 0..Len(d) /\ m < Len(d) /\ m + 1 = n
      /\ k \in Reads(d[n]) /\ \A l \in which : l > n => d[l].key # k
  <2>1. n \in DOMAIN d /\ n \in 1..Len(d) /\ Len(d) \in Nat
    BY DEF Ordered
  <2>2. k \in Keys /\ k \in Reads(d[n])
    BY <2>1, StepFacts DEF Reads
  <2>3. \A l \in which : l > n => d[l].key # k
    BY <2>2 DEF Ordered
  <2> HIDE DEF k
  <2> QED
    BY <2>1, <2>2, <2>3
<1>2. b = ran[Len(d)] /\ ran = Ran(a, d, which, reading)
  BY DEF RunSteps
<1> HIDE DEF ran, k, m
<1>3. /\ ran[n].ok /\ ran[Len(d)].held = ran[n].held
      /\ ran[Len(d)].found[k] = ran[n].found[k]
  BY <1>1, <1>2, RanKeeps
<1>4. /\ ran[m] \in Attempts(d) /\ ran[n].held = ran[m].held
      /\ ran[n] = Apply(ran[m], d, n, reading)
  <2>1. /\ ran[m] \in Attempts(d) /\ ran[m + 1].held = ran[m].held
        /\ ran[m + 1] = Apply(ran[m], d, m + 1, reading)
    BY <1>1, <1>2, OneStepFurther
  <2> QED
    BY <1>1, <2>1
<1>5. /\ Seen(ran[m], k) # "bad" /\ ran[n].found[d[n].key] = Seen(ran[m], k)
      /\ \A l \in Keys \ {d[n].key} : ran[n].found[l] = ran[m].found[l]
  BY <1>1, <1>3, <1>4, ApplyFacts DEF k
<1>6. Seen(ran[n], k) # "bad"
  <2>1. CASE k = d[n].key
    BY <1>4, <1>5, <2>1 DEF Seen
  <2>2. CASE k # d[n].key
    BY <1>1, <1>4, <1>5, <2>2 DEF Seen
  <2> QED
    BY <2>1, <2>2
<1>7. Seen(b, k) = Seen(ran[n], k)
  BY <1>2, <1>3 DEF Seen
<1> QED
  BY <1>6, <1>7 DEF k

\* Only "bad" makes a step raise, and only a reading brings it in.
NoneFound(a) == \A k \in Keys : a.found[k] # "bad"

LEMMA NothingBadFound ==
  ASSUME NEW d \in Seq(Step), NEW a \in Attempts(d), NEW which,
         NEW reading \in Readings, reading # "bad", NoneFound(a)
  PROVE  /\ NoneFound(RunSteps(a, d, which, reading))
         /\ (\A n \in which : d[n].fn = "derived" => a.held[d[n].input] # "bad") /\ a.ok
              => RunSteps(a, d, which, reading).ok
<1> DEFINE ran == Ran(a, d, which, reading)
           Held == \A n \in which : d[n].fn = "derived" => a.held[d[n].input] # "bad"
           T == {n \in 0..Len(d) : /\ NoneFound(ran[n])
                                   /\ ran[n].held = a.held
                                   /\ Held /\ a.ok => ran[n].ok}
<1>0. Len(d) \in Nat /\ 0 \in Nat /\ 0 \in 0..Len(d) /\ Len(d) \in 0..Len(d)
  OBVIOUS
<1>1. 0 \in T
  BY <1>0, RanStepByStep
<1>2. ASSUME NEW n \in 0..Len(d), n < Len(d), n \in T PROVE n + 1 \in T
  <2> HIDE DEF ran, Held
  <2>1. NoneFound(ran[n]) /\ ran[n].held = a.held /\ (Held /\ a.ok => ran[n].ok)
    BY <1>2
  <2>2. /\ n + 1 \in DOMAIN d /\ n + 1 \in 0..Len(d) /\ ran[n] \in Attempts(d)
        /\ ran[n + 1].held = ran[n].held
        /\ n + 1 \in which => ran[n + 1] = Apply(ran[n], d, n + 1, reading)
        /\ n + 1 \notin which => ran[n + 1] = ran[n]
    BY <1>2, OneStepFurther DEF ran
  <2>3. CASE n + 1 \notin which
    BY <2>1, <2>2, <2>3
  <2>4. CASE n + 1 \in which
    <3> DEFINE b == ran[n + 1]
    <3>1. b = Apply(ran[n], d, n + 1, reading)
      BY <2>2, <2>4
    <3>2. /\ (\A k \in Keys : ran[n].found[k] # "bad") => \A k \in Keys : b.found[k] # "bad"
          /\ ran[n].ok /\ ~b.ok
               => d[n + 1].fn = "derived" /\ Seen(ran[n], d[n + 1].input) = "bad"
      BY <2>2, <3>1, ApplyFacts
    <3>3. NoneFound(b)
      BY <2>1, <3>2 DEF NoneFound
    <3>4. ASSUME Held, d[n + 1].fn = "derived" PROVE Seen(ran[n], d[n + 1].input) # "bad"
      <4>1. d[n + 1].input \in Keys /\ a.held[d[n + 1].input] # "bad"
        BY <2>2, <2>4, <3>4, StepFacts DEF Held
      <4> QED
        BY <2>1, <4>1 DEF Seen, NoneFound
    <3>5. Held /\ a.ok => b.ok
      BY <2>1, <3>2, <3>4
    <3> QED
      BY <2>1, <2>2, <3>3, <3>5
  <2> QED
    BY <2>3, <2>4
<1> HIDE DEF T
<1>3. \A n \in 0..Len(d) : n \in T
  BY <1>0, <1>1, <1>2, Upward
<1>4. Len(d) \in T
  BY <1>0, <1>3
<1> QED
  BY <1>4 DEF T, RunSteps

-----------------------------------------------------------------------------
(* The state of Sensors.                                                   *)

\* Between two steps: "bad" waits only in a window it came into, and no
\* derived tick-step reads a held value it could not have committed.
BadIsKnown == \A k \in Keys : "bad" \in ToSet(window[k]) => poisoned
HeldAreReadable ==
  \A n \in TickSteps(descriptor) :
    descriptor[n].fn = "derived" => values[descriptor[n].input] # "bad"

IInv == /\ SensorsTypeOK /\ Loads(descriptor) /\ early = {}
        /\ DebounceCountsTicks /\ PoisonCostsOneWindow /\ EchoAccounts
        /\ BadIsKnown /\ HeldAreReadable

LEMMA DescriptorFacts ==
  ASSUME SensorsTypeOK
  PROVE  /\ descriptor \in Seq(Step) /\ Len(descriptor) \in Nat
         /\ DOMAIN descriptor \subseteq Int
         /\ \A n \in DOMAIN descriptor : descriptor[n].input \in Keys
         /\ Debounces \subseteq TickSteps(descriptor) /\ TickSteps(descriptor) \subseteq DOMAIN descriptor
         /\ \A n \in Debounces : descriptor[n].input \in Debounced
<1>1. descriptor \in Seq(Step)
  BY SensorsAssumption DEF SensorsTypeOK
<1>2. \A n \in DOMAIN descriptor : descriptor[n].input \in Keys
  BY <1>1, StepFacts
<1> QED
  BY <1>1, <1>2 DEF Debounces, Debounced, TickSteps

\* The attempts that a message and a tick begin with.
LEMMA MessageArrivesType ==
  ASSUME SensorsTypeOK
  PROVE  /\ MessageArrives \in Attempts(descriptor)
         /\ NoneFound(MessageArrives) /\ MessageArrives.ok
         /\ MessageArrives.held = values /\ MessageArrives.streaks = streaks
BY DEF MessageArrives, Attempt, Nothing, Attempts, SensorsTypeOK, Readings, Values, NoneFound

LEMMA FoldedType ==
  ASSUME SensorsTypeOK
  PROVE  /\ Folded \in [Keys -> Readings]
         /\ \A k \in Keys : Folded[k] = "bad" => "bad" \in ToSet(window[k])
<1> SUFFICES ASSUME NEW k \in Keys
             PROVE  /\ Folded[k] \in Readings
                    /\ Folded[k] = "bad" => "bad" \in ToSet(window[k])
  BY DEF Folded
<1> DEFINE samples == window[k]
           policy == PolicyOf(k)
<1>1. samples \in Seq(Values)
  BY DEF SensorsTypeOK
<1> HIDE DEF samples, policy
<1>2. Folded[k] = IF Usable(policy, samples) = {} THEN "absent" ELSE FoldSamples(policy, samples)
  BY DEF Folded, samples, policy
<1>3. CASE Usable(policy, samples) = {}
  BY <1>2, <1>3 DEF Readings
<1>4. CASE Usable(policy, samples) # {}
  <2>1. PICK i \in DOMAIN samples : TRUE
    BY <1>4 DEF Usable
  <2>2. Len(samples) \in DOMAIN samples
    BY <1>1, <2>1
  <2>3. \A j \in DOMAIN samples : samples[j] \in Values /\ samples[j] \in ToSet(samples)
    BY <1>1 DEF ToSet
  <2>4. CASE policy = "last"
    <3>1. Folded[k] = samples[Len(samples)]
      BY <1>2, <1>4, <2>4 DEF FoldSamples, Last
    <3> QED
      BY <2>2, <2>3, <3>1 DEF Readings, samples
  <2>5. CASE policy # "last" /\ "blocked" \in ToSet(samples)
    <3>1. Folded[k] = "blocked"
      BY <1>2, <1>4, <2>5 DEF FoldSamples
    <3> QED
      BY <3>1 DEF Readings, Values
  <2>6. CASE policy # "last" /\ "blocked" \notin ToSet(samples)
    <3>1. PICK j \in Usable(policy, samples) : Folded[k] = samples[j]
      BY <1>2, <1>4, <2>6 DEF FoldSamples
    <3>2. j \in DOMAIN samples
      BY DEF Usable
    <3> QED
      BY <2>3, <3>1, <3>2 DEF Readings, samples
  <2> QED
    BY <2>4, <2>5, <2>6
<1> QED
  BY <1>3, <1>4

LEMMA OpenedType ==
  ASSUME SensorsTypeOK, BadIsKnown
  PROVE  /\ Opened \in Attempts(descriptor)
         /\ Opened.held = values /\ Opened.streaks = streaks
         /\ ~poisoned => Opened.ok /\ NoneFound(Opened)
<1>1. Opened = [held |-> values, found |-> Folded, streaks |-> streaks, ok |-> FoldOk]
  BY DEF Opened, Attempt
<1>2. FoldOk \in BOOLEAN
  BY DEF FoldOk
<1>3. Folded \in [Keys -> Readings]
  BY FoldedType
<1>4. Opened \in Attempts(descriptor)
  BY <1>1, <1>2, <1>3 DEF Attempts, SensorsTypeOK
<1>5. ASSUME ~poisoned PROVE FoldOk /\ \A k \in Keys : Folded[k] # "bad"
  <2>1. \A k \in Keys : "bad" \notin ToSet(window[k])
    BY <1>5 DEF BadIsKnown
  <2>2. \A k \in Keys : ~FoldRaises(PolicyOf(k), window[k])
    BY <2>1 DEF FoldRaises, Usable, ToSet
  <2> QED
    BY <2>1, <2>2, FoldedType DEF FoldOk
<1> QED
  BY <1>1, <1>4, <1>5 DEF NoneFound

\* What a finished run of steps is an attempt of, and what it leaves of the
\* streaks of the other steps.
LEMMA RunStepsFacts ==
  ASSUME NEW d \in Seq(Step), NEW a \in Attempts(d), NEW which,
         NEW reading \in Readings, NEW b, b = RunSteps(a, d, which, reading)
  PROVE  /\ b \in Attempts(d) /\ b.held = a.held
         /\ b.ok => a.ok
         /\ \A m \in DOMAIN d \ which : b.streaks[m] = a.streaks[m]
<1> DEFINE ran == Ran(a, d, which, reading)
<1>1. b = ran[Len(d)] /\ ran[0] = a
  BY RanStepByStep DEF RunSteps
<1>2. 0 \in 0..Len(d) /\ Len(d) \in 0..Len(d)
  OBVIOUS
<1> HIDE DEF ran
<1>3. /\ ran[Len(d)].held = ran[0].held
      /\ ran[Len(d)].ok => ran[0].ok
      /\ \A m \in DOMAIN d \ which : ran[Len(d)].streaks[m] = ran[0].streaks[m]
  BY <1>2, RanKeeps DEF ran
<1>4. ran[Len(d)] \in Attempts(d)
  BY <1>2, RanIsAttempt DEF ran
<1> QED
  BY <1>1, <1>3, <1>4

-----------------------------------------------------------------------------
(* Each operation keeps the invariant.                                     *)

LEMMA InitIInv == SensorsInit => IInv
<1> SUFFICES ASSUME SensorsInit PROVE IInv
  OBVIOUS
<1>1. descriptor \in Descriptors /\ Loads(descriptor)
  BY DEF SensorsInit
<1>2. SensorsTypeOK
  <2>1. /\ window = [k \in Keys |-> <<>>] /\ DOMAIN window = Keys
        /\ \A k \in Keys : window[k] \in Seq(Values)
    BY DEF SensorsInit, NoSamples
  <2>2. echo \in Echo /\ owed \in Nat
    BY SensorsAssumption DEF SensorsInit, Echo
  <2>3. values \in [Keys -> Values] /\ streaks \in [DOMAIN descriptor -> Nat]
        /\ blockedFor \in [Debounced -> Nat] /\ ticks \in Nat \cup {-1}
    BY DEF SensorsInit, Values
  <2> QED
    BY <1>1, <2>1, <2>2, <2>3 DEF SensorsInit, SensorsTypeOK
<1>3. DebounceCountsTicks
  BY <1>2, DescriptorFacts DEF SensorsInit, DebounceCountsTicks
<1>4. BadIsKnown
  BY DEF SensorsInit, BadIsKnown, NoSamples, ToSet
<1>5. HeldAreReadable
  BY <1>2, DescriptorFacts DEF SensorsInit, HeldAreReadable
<1> QED
  BY <1>1, <1>2, <1>3, <1>4, <1>5 DEF IInv, SensorsInit, PoisonCostsOneWindow, EchoAccounts

\* Deliver: a message of a source, with what it carries.
LEMMA SampledType ==
  ASSUME SensorsTypeOK, NEW found \in [Keys -> Readings]
  PROVE  /\ DOMAIN Sampled(found) = Keys
         /\ \A k \in Keys : Sampled(found)[k] \in Seq(Values)
         /\ \A k \in Keys : "bad" \in ToSet(Sampled(found)[k])
                => "bad" \in ToSet(window[k]) \/ found[k] = "bad"
<1> SUFFICES ASSUME NEW k \in Keys
             PROVE  /\ Sampled(found)[k] \in Seq(Values)
                    /\ "bad" \in ToSet(Sampled(found)[k])
                         => "bad" \in ToSet(window[k]) \/ found[k] = "bad"
  BY DEF Sampled
<1> DEFINE old == window[k]
           v == found[k]
           new == Append(old, v)
<1>1. Sampled(found)[k] = IF v = "absent" THEN old ELSE new
  BY DEF Sampled
<1>2. old \in Seq(Values)
  BY DEF SensorsTypeOK
<1> HIDE DEF old, v
<1>3. CASE v = "absent"
  BY <1>1, <1>2, <1>3 DEF old
<1>4. CASE v # "absent"
  <2>1. v \in Values
    BY <1>4 DEF v, Readings, Values
  <2>2. new \in Seq(Values)
    BY <1>2, <2>1
  <2>3. \A i \in DOMAIN new : (i \in DOMAIN old /\ new[i] = old[i]) \/ new[i] = v
    BY <1>2, <2>1
  <2> HIDE DEF new
  <2>4. "bad" \in ToSet(new) => "bad" \in ToSet(old) \/ v = "bad"
    BY <2>3 DEF ToSet
  <2> QED
    BY <1>1, <1>4, <2>2, <2>4 DEF old, v
<1> QED
  BY <1>3, <1>4

LEMMA DeliverKeeps ==
  ASSUME IInv, NEW i \in Sources, NEW reading \in Carries[i], Deliver(i, reading)
  PROVE  IInv'
<1> DEFINE a == Updated(i, reading)
<1>1. /\ SensorsTypeOK /\ Loads(descriptor) /\ BadIsKnown /\ HeldAreReadable
      /\ DebounceCountsTicks /\ ~unearned /\ owed = echo.samples /\ early = {}
      /\ reading \in Readings /\ descriptor \in Seq(Step)
  BY SensorsAssumption, DescriptorFacts DEF IInv, Sources, PoisonCostsOneWindow, EchoAccounts
<1>2. /\ a \in Attempts(descriptor)
      /\ \A n \in DOMAIN descriptor \ MessageSteps(descriptor, i) : a.streaks[n] = streaks[n]
      /\ reading # "bad" => NoneFound(a)
  BY <1>1, MessageArrivesType, RunStepsFacts, NothingBadFound DEF Updated
<1>3. ReadEarly(MessageArrives, descriptor, MessageSteps(descriptor, i), reading) = {}
  BY <1>1, MessageArrivesType, DescriptorFacts, LoadedIsOrdered, NoneReadsEarly
<1> HIDE DEF a
<1>4. /\ streaks' = a.streaks
      /\ window' = IF a.ok THEN Sampled(a.found) ELSE window
      /\ echo' = IF a.ok THEN Offered(echo, i) ELSE echo
      /\ owed' = IF a.ok /\ i = echo.selected THEN owed + 1 ELSE owed
      /\ poisoned' = (poisoned \/ reading = "bad")
      /\ early' = {}
      /\ UNCHANGED <<descriptor, values, ticks, unearned, blockedFor>>
  BY <1>3 DEF Deliver, a
<1>5. /\ a.found \in [Keys -> Readings] /\ a.streaks \in [DOMAIN descriptor -> Nat]
  BY <1>2 DEF Attempts
<1>6. echo' \in Echo /\ owed' \in Nat /\ owed' = echo'.samples
  <2>1. echo \in Echo /\ owed \in Nat /\ echo.samples \in Nat
    BY <1>1 DEF SensorsTypeOK, Echo
  <2>2. CASE a.ok /\ i = echo.selected
    <3>1. echo' = [echo EXCEPT !.samples = @ + 1] /\ owed' = owed + 1
      BY <1>4, <2>2 DEF Offered
    <3> QED
      BY <1>1, <2>1, <3>1 DEF Echo
  <2>3. CASE ~ (a.ok /\ i = echo.selected)
    <3>1. echo' = echo /\ owed' = owed
      BY <1>4, <2>3 DEF Offered
    <3> QED
      BY <1>1, <2>1, <3>1
  <2> QED
    BY <2>2, <2>3
<1>7. /\ DOMAIN window' = Keys /\ \A k \in Keys : window'[k] \in Seq(Values)
      /\ \A k \in Keys : "bad" \in ToSet(window'[k])
           => "bad" \in ToSet(window[k]) \/ (a.ok /\ a.found[k] = "bad")
  <2>1. CASE a.ok
    BY <1>1, <1>4, <1>5, <2>1, SampledType
  <2>2. CASE ~a.ok
    BY <1>1, <1>4, <2>2 DEF SensorsTypeOK
  <2> QED
    BY <2>1, <2>2
<1>8. Debounced' = Debounced /\ Debounces' = Debounces
  BY <1>4 DEF Debounced, Debounces
<1>9. SensorsTypeOK'
  BY <1>1, <1>4, <1>5, <1>6, <1>7, <1>8 DEF SensorsTypeOK
<1>10. DebounceCountsTicks'
  <2>1. \A n \in Debounces : n \in DOMAIN descriptor \ MessageSteps(descriptor, i)
    BY DEF Debounces, TickSteps, MessageSteps
  <2> QED
    BY <1>1, <1>2, <1>4, <1>8, <2>1 DEF DebounceCountsTicks
<1>11. BadIsKnown'
  BY <1>1, <1>2, <1>4, <1>7 DEF BadIsKnown, NoneFound
<1>12. HeldAreReadable' /\ Loads(descriptor)'
  BY <1>1, <1>4 DEF HeldAreReadable
<1> QED
  BY <1>1, <1>4, <1>6, <1>9, <1>10, <1>11, <1>12 DEF IInv, PoisonCostsOneWindow, EchoAccounts

LEMMA TickKeeps == ASSUME IInv, Tick PROVE IInv'
<1> DEFINE a == Closed
           ticked == TickSteps(descriptor)
<1>1. /\ SensorsTypeOK /\ Loads(descriptor) /\ BadIsKnown /\ HeldAreReadable
      /\ DebounceCountsTicks /\ ~unearned /\ owed = echo.samples
      /\ descriptor \in Seq(Step) /\ "absent" \in Readings /\ Ordered(descriptor, ticked)
      /\ Opened \in Attempts(descriptor)
      /\ Opened.held = values /\ Opened.streaks = streaks
  BY DescriptorFacts, OpenedType, LoadedIsOrdered
     DEF IInv, PoisonCostsOneWindow, EchoAccounts, Readings
<1>2. a \in Attempts(descriptor) /\ a.held = values
  BY <1>1, RunStepsFacts DEF Closed
<1>3. ~poisoned => a.ok
  <2> SUFFICES ASSUME ~poisoned PROVE a.ok
    OBVIOUS
  <2>1. \A n \in ticked : descriptor[n].fn = "derived" => Opened.held[descriptor[n].input] # "bad"
    BY <1>1 DEF HeldAreReadable
  <2>2. Opened.ok /\ NoneFound(Opened)
    BY <1>1, OpenedType
  <2> HIDE DEF ticked
  <2> QED
    BY <1>1, <2>1, <2>2, NothingBadFound DEF Closed, ticked
<1>4. ReadEarly(Opened, descriptor, ticked, "absent") = {}
  BY <1>1, NoneReadsEarly
<1>5. /\ (a.ok /\ TickCommits(a)) \/ (~a.ok /\ TickRaises(a))
      /\ UNCHANGED <<descriptor, echo, owed>>
  <2>1. PICK x \in {a} : TickCommits(x) \/ TickRaises(x)
    BY DEF Tick
  <2>2. TickCommits(a) \/ TickRaises(a)
    BY <2>1
  <2>3. (TickCommits(a) => a.ok) /\ (TickRaises(a) => ~a.ok)
    BY DEF TickCommits, TickRaises
  <2>4. UNCHANGED <<descriptor, echo, owed>>
    BY DEF Tick
  <2> QED
    BY <2>2, <2>3, <2>4
<1> HIDE DEF a, ticked
<1>6. Debounced' = Debounced /\ Debounces' = Debounces
      /\ descriptor' = descriptor /\ echo' = echo /\ owed' = owed /\ TickSteps(descriptor)' = ticked
  BY <1>5 DEF Debounced, Debounces, ticked
<1>7. /\ window' = NoSamples /\ poisoned' = FALSE /\ early' = {} /\ unearned' = FALSE
  BY <1>3, <1>4, <1>5 DEF TickCommits, TickRaises, CloseWindow, ticked
<1>8. /\ DOMAIN window' = Keys /\ \A k \in Keys : window'[k] \in Seq(Values)
      /\ BadIsKnown'
  BY <1>7 DEF NoSamples, BadIsKnown, ToSet
<1>9. CASE ~a.ok
  <2>1. UNCHANGED <<values, streaks, ticks, blockedFor>>
    BY <1>5, <1>9 DEF TickRaises
  <2>2. SensorsTypeOK'
    BY <1>1, <1>6, <1>7, <1>8, <2>1 DEF SensorsTypeOK
  <2>3. DebounceCountsTicks' /\ HeldAreReadable' /\ Loads(descriptor)'
    BY <1>1, <1>6, <2>1 DEF DebounceCountsTicks, HeldAreReadable
  <2> QED
    BY <1>1, <1>6, <1>7, <1>8, <2>2, <2>3 DEF IInv, PoisonCostsOneWindow, EchoAccounts
<1>10. CASE a.ok
  <2>1. /\ values' = Candidate(a) /\ streaks' = a.streaks /\ ticks' = ticks + 1
        /\ blockedFor' = [k \in Debounced |-> Count(blockedFor[k], Seen(a, k))]
    BY <1>5, <1>10 DEF TickCommits
  <2>2. values' \in [Keys -> Values] /\ \A k \in Keys : values'[k] = Seen(a, k)
    BY <1>2, <2>1, SeenType DEF Candidate
  <2>3. SensorsTypeOK'
    <3>1. streaks' \in [DOMAIN descriptor -> Nat]
      BY <1>2, <2>1 DEF Attempts
    <3>2. blockedFor' \in [Debounced -> Nat] /\ ticks' \in Nat \cup {-1}
      BY <1>1, <2>1 DEF SensorsTypeOK, Count
    <3> QED
      BY <1>1, <1>6, <1>7, <1>8, <2>2, <3>1, <3>2 DEF SensorsTypeOK
  <2>4. DebounceCountsTicks'
    <3>1. ASSUME NEW n \in Debounces, descriptor[n].input # descriptor[n].key
          PROVE  streaks'[n] = blockedFor'[descriptor[n].input]
      <4> DEFINE k == descriptor[n].input
      <4>1. n \in ticked /\ descriptor[n].fn = "streak" /\ k \in Debounced
        BY <1>1, DescriptorFacts DEF Debounces, Debounced, ticked
      <4>2. a.streaks[n] = Count(streaks[n], Seen(a, k))
        BY <1>1, <1>10, <3>1, <4>1, StreakCountsTheEnd DEF a, Closed, ticked
      <4>3. streaks[n] = blockedFor[k]
        BY <1>1, <3>1 DEF DebounceCountsTicks
      <4> QED
        BY <2>1, <4>1, <4>2, <4>3
    <3> QED
      BY <1>6, <3>1 DEF DebounceCountsTicks
  <2>5. HeldAreReadable'
    <3>1. ASSUME NEW n \in ticked, descriptor[n].fn = "derived"
          PROVE  Seen(a, descriptor[n].input) # "bad"
      BY <1>1, <1>10, <3>1, DerivedReadsGood DEF a, Closed, ticked
    <3>2. \A n \in ticked : descriptor[n].input \in Keys
      BY <1>1, DescriptorFacts DEF ticked
    <3> QED
      BY <1>6, <2>2, <3>1, <3>2 DEF HeldAreReadable
  <2> QED
    BY <1>1, <1>6, <1>7, <1>8, <2>3, <2>4, <2>5 DEF IInv, PoisonCostsOneWindow, EchoAccounts
<1> QED
  BY <1>9, <1>10

LEMMA ResetKeeps == ASSUME IInv, Reset PROVE IInv'
<1>1. SensorsTypeOK /\ Loads(descriptor) /\ owed = echo.samples
  BY DEF IInv, EchoAccounts
<1>2. Debounced' = Debounced /\ Debounces' = Debounces
  BY DEF Debounced, Debounces, Reset
<1>3. /\ window' = NoSamples /\ poisoned' = FALSE /\ early' = {} /\ unearned' = FALSE
      /\ descriptor' = descriptor /\ echo' = echo /\ owed' = owed
      /\ values' = [k \in Keys |-> "clear"]
      /\ streaks' = [n \in DOMAIN descriptor |-> 0] /\ ticks' = -1
      /\ blockedFor' = [k \in Debounced |-> 0]
  BY DEF Reset, CloseWindow
<1>4. /\ DOMAIN window' = Keys /\ \A k \in Keys : window'[k] \in Seq(Values)
      /\ BadIsKnown'
  BY <1>3 DEF NoSamples, BadIsKnown, ToSet
<1>5. values' \in [Keys -> Values]
  BY <1>3 DEF Values
<1>6. SensorsTypeOK'
  BY <1>1, <1>2, <1>3, <1>4, <1>5 DEF SensorsTypeOK
<1>7. DebounceCountsTicks' /\ HeldAreReadable'
  BY <1>1, <1>2, <1>3, DescriptorFacts DEF DebounceCountsTicks, HeldAreReadable, TickSteps
<1>8. Loads(descriptor)'
  BY <1>1, <1>3
<1> QED
  BY <1>1, <1>3, <1>4, <1>6, <1>7, <1>8 DEF IInv, PoisonCostsOneWindow, EchoAccounts

\* Select, TakeEcho and a stutter: the echo alone may change.
LEMMA EchoKeeps ==
  ASSUME IInv, UNCHANGED <<descriptor, sensor, history>>,
         echo' \in Echo, owed' \in Nat, owed' = echo'.samples
  PROVE  IInv'
<1>1. /\ UNCHANGED <<descriptor, values, window, streaks, ticks, poisoned, early, unearned, blockedFor>>
      /\ Debounced' = Debounced /\ Debounces' = Debounces
  BY DEF sensor, history, Debounced, Debounces
<1>2. SensorsTypeOK'
  BY <1>1 DEF IInv, SensorsTypeOK
<1>3. DebounceCountsTicks' /\ HeldAreReadable' /\ BadIsKnown'
  BY <1>1 DEF IInv, DebounceCountsTicks, HeldAreReadable, BadIsKnown
<1> QED
  BY <1>1, <1>2, <1>3 DEF IInv, PoisonCostsOneWindow, EchoAccounts

LEMMA EchoSteps ==
  ASSUME IInv, TakeEcho \/ (\E s \in Sources \cup {NoSource} : Select(s)) \/ UNCHANGED sensorsVars
  PROVE  IInv'
<1>1. echo \in Echo /\ owed \in Nat /\ owed = echo.samples /\ Every \in Nat \ {0}
  BY SensorsAssumption DEF IInv, SensorsTypeOK, EchoAccounts
<1>2. CASE TakeEcho
  <2>1. CASE Emits(echo)
    <3>1. echo' = [echo EXCEPT !.ticks = 0, !.samples = 0] /\ owed' = 0
      <4>1. echo' = Taken(echo) /\ owed' = owed - echo.samples
        BY <1>2, <2>1 DEF TakeEcho
      <4>2. echo.samples \in Nat
        BY <1>1 DEF Echo
      <4>3. owed' = 0
        BY <1>1, <4>1, <4>2
      <4> QED
        BY <2>1, <4>1, <4>3 DEF Taken
    <3>2. echo' \in Echo /\ echo'.samples = 0
      <4>1. echo' = [selected |-> echo.selected, samples |-> 0, ticks |-> 0]
        BY <1>1, <3>1 DEF Echo
      <4>2. 0 \in 0..Every /\ echo.selected \in Sources \cup {NoSource}
        BY <1>1 DEF Echo
      <4> QED
        BY <4>1, <4>2 DEF Echo
    <3> QED
      BY <1>2, <3>1, <3>2, EchoKeeps DEF TakeEcho
  <2>2. CASE ~Emits(echo)
    <3>1. echo' = Counted(echo) /\ owed' = owed
      BY <1>2, <2>2 DEF TakeEcho, Taken
    <3>2. echo' \in Echo /\ echo'.samples = echo.samples
      BY <1>1, <3>1 DEF Echo, Counted
    <3> QED
      BY <1>1, <1>2, <3>1, <3>2, EchoKeeps DEF TakeEcho
  <2> QED
    BY <2>1, <2>2
<1>3. ASSUME NEW s \in Sources \cup {NoSource}, Select(s) PROVE IInv'
  <2>1. echo' = Chosen(s) /\ owed' = 0 /\ UNCHANGED <<descriptor, sensor, history>>
    BY <1>3 DEF Select
  <2>2. echo' \in Echo /\ echo'.samples = 0
    BY <1>1, <2>1 DEF Chosen, Echo
  <2> QED
    BY <2>1, <2>2, EchoKeeps
<1>4. CASE UNCHANGED sensorsVars
  BY <1>1, <1>4, EchoKeeps DEF sensorsVars
<1> QED
  BY <1>2, <1>3, <1>4

-----------------------------------------------------------------------------
(* The theorems.                                                           *)

THEOREM SensorsInvariant == SensorsSpec => []IInv
<1>1. IInv /\ [SensorsNext]_sensorsVars => IInv'
  BY DeliverKeeps, TickKeeps, ResetKeeps, EchoSteps DEF SensorsNext
<1> QED
  BY InitIInv, <1>1, PTL DEF SensorsSpec

\* No step of a descriptor that loads reads a key before the step that produces
\* it in the same message or tick, whatever the messages carry.
THEOREM InputsAreSettledAlways == SensorsSpec => []InputsAreSettled
<1>1. IInv => InputsAreSettled
  BY DEF IInv, InputsAreSettled
<1> QED
  BY SensorsInvariant, <1>1, PTL

\* The debounce of a tick-step counts the ticks in a row that committed
\* "blocked", whatever raised in between and whatever came before the reset.
THEOREM DebounceAlwaysCountsTicks == SensorsSpec => []DebounceCountsTicks
<1>1. IInv => DebounceCountsTicks
  BY DEF IInv
<1> QED
  BY SensorsInvariant, <1>1, PTL

\* A tick that nothing bad came into since the last one does not raise.
THEOREM PoisonAlwaysCostsOneWindow == SensorsSpec => []PoisonCostsOneWindow
<1>1. IInv => PoisonCostsOneWindow
  BY DEF IInv
<1> QED
  BY SensorsInvariant, <1>1, PTL

\* The next echo will count every message since the selection or the echo before.
THEOREM EchoAlwaysAccounts == SensorsSpec => []EchoAccounts
<1>1. IInv => EchoAccounts
  BY DEF IInv
<1> QED
  BY SensorsInvariant, <1>1, PTL

-----------------------------------------------------------------------------
(* The sources a failure mode is believed on, and where its data comes from. *)

ReadBack(d, k, read) ==
  read = [n \in 0..Cardinality(Keys) |->
            IF n = 0 THEN {k} ELSE read[n - 1] \cup InputsOf(d, read[n - 1])]

LEMMA HowManyKeys == Cardinality(Keys) \in Nat
BY DescriptorAssumption, FS_CardinalityType

\* The recursive definition of Upstream defines.
LEMMA UpstreamIsRead ==
  ASSUME NEW d, NEW k
  PROVE  \E read : ReadBack(d, k, read) /\ Upstream(d, k) = read[Cardinality(Keys)]
<1> DEFINE N == Cardinality(Keys)
           start == {k}
           Onto(before) == before \cup InputsOf(d, before)
           Runs(f, m) == f = [n \in 0..m |-> IF n = 0 THEN start ELSE Onto(f[n - 1])]
           T == {m \in 0..N : \E f : Runs(f, m)}
<1>0. N \in Nat
  BY HowManyKeys
<1>1. Upstream(d, k) = (CHOOSE f : Runs(f, N))[N]
  BY DEF Upstream
<1>2. \A f : Runs(f, N) <=> ReadBack(d, k, f)
  BY DEF ReadBack
<1> HIDE DEF Onto, start, N
<1>3. 0 \in T
  <2>1. Runs([n \in 0..0 |-> start], 0)
    OBVIOUS
  <2> HIDE DEF Runs
  <2> QED
    BY <1>0, <2>1
<1>4. ASSUME NEW m \in 0..N, m < N, m \in T PROVE m + 1 \in T
  <2>1. PICK f : Runs(f, m)
    BY <1>4
  <2> DEFINE g == [n \in 0..(m + 1) |-> IF n = m + 1 THEN Onto(f[m]) ELSE f[n]]
  <2>2. \A n \in 0..m : g[n] = f[n] /\ f[n] = IF n = 0 THEN start ELSE Onto(f[n - 1])
    BY <1>0, <2>1
  <2>3. g[m + 1] = Onto(g[m])
    BY <1>0, <2>2
  <2>4. \A n \in 0..(m + 1) : g[n] = IF n = 0 THEN start ELSE Onto(g[n - 1])
    BY <1>0, <2>2, <2>3
  <2>5. Runs(g, m + 1)
    BY <2>4
  <2> HIDE DEF Runs, g
  <2> QED
    BY <1>0, <1>4, <2>5
<1>5. \E f : Runs(f, N)
  <2> HIDE DEF T
  <2>1. \A m \in 0..N : m \in T
    BY <1>0, <1>3, <1>4, Upward
  <2>2. N \in T
    BY <1>0, <2>1
  <2> QED
    BY <2>2 DEF T
<1>6. Runs(CHOOSE f : Runs(f, N), N)
  <2> HIDE DEF Runs
  <2> QED
    BY <1>5
<1> QED
  <2> DEFINE read == CHOOSE f : Runs(f, N)
  <2>1. ReadBack(d, k, read)
    BY <1>2, <1>6
  <2> HIDE DEF Runs, read
  <2> QED
    BY <1>1, <2>1 DEF read, N

LEMMA ReadBackStepByStep ==
  ASSUME NEW d, NEW k, NEW read, ReadBack(d, k, read)
  PROVE  /\ read[0] = {k}
         /\ \A n \in 1..Cardinality(Keys) :
              read[n] = read[n - 1] \cup InputsOf(d, read[n - 1])
<1> DEFINE N == Cardinality(Keys)
<1>1. N \in Nat
  BY HowManyKeys
<1>2. \A n \in 0..N : read[n] = IF n = 0 THEN {k} ELSE read[n - 1] \cup InputsOf(d, read[n - 1])
  BY DEF ReadBack
<1> HIDE DEF N
<1>3. read[0] = {k}
  <2>1. 0 \in 0..N
    BY <1>1
  <2> QED
    BY <1>2, <2>1
<1>4. ASSUME NEW n \in 1..N PROVE read[n] = read[n - 1] \cup InputsOf(d, read[n - 1])
  <2>1. n \in 0..N /\ n # 0
    BY <1>1
  <2> QED
    BY <1>2, <2>1
<1> QED
  BY <1>3, <1>4 DEF N

\* A set of keys that holds with each what the steps that write it read.
ClosedUnder(d, keys) == InputsOf(d, keys) \in SUBSET keys

LEMMA InputsOfFewer ==
  ASSUME NEW d, NEW few, NEW many, few \in SUBSET many
  PROVE  InputsOf(d, few) \in SUBSET InputsOf(d, many)
BY DEF InputsOf, StepsFor

LEMMA ReadBackWithin ==
  ASSUME NEW d, NEW k, NEW read, ReadBack(d, k, read),
         NEW keys, k \in keys, ClosedUnder(d, keys)
  PROVE  \A n \in 0..Cardinality(Keys) : k \in read[n] /\ read[n] \in SUBSET keys
<1> DEFINE N == Cardinality(Keys)
           T == {n \in 0..N : k \in read[n] /\ read[n] \in SUBSET keys}
<1>0. N \in Nat
  BY HowManyKeys
<1>1. read[0] = {k} /\ \A n \in 1..N : read[n] = read[n - 1] \cup InputsOf(d, read[n - 1])
  BY ReadBackStepByStep
<1> HIDE DEF N
<1>2. 0 \in T
  BY <1>0, <1>1
<1>3. ASSUME NEW n \in 0..N, n < N, n \in T PROVE n + 1 \in T
  <2> DEFINE m == n + 1
  <2>1. m \in 1..N /\ m \in 0..N /\ m - 1 = n
    BY <1>0, <1>3
  <2> HIDE DEF m
  <2>2. read[m] = read[n] \cup InputsOf(d, read[n])
    BY <1>1, <2>1
  <2>3. InputsOf(d, read[n]) \in SUBSET InputsOf(d, keys)
    BY <1>3, InputsOfFewer
  <2>4. InputsOf(d, keys) \in SUBSET keys
    BY DEF ClosedUnder
  <2>5. m \in T
    BY <1>3, <2>1, <2>2, <2>3, <2>4
  <2> QED
    BY <2>5 DEF m
<1>4. \A n \in 0..N : n \in T
  <2> HIDE DEF T
  <2> QED
    BY <1>0, <1>2, <1>3, Upward
<1> QED
  BY <1>4 DEF N

LEMMA AllKeysClosed ==
  ASSUME NEW d \in Seq(Step)
  PROVE  ClosedUnder(d, Keys)
<1>1. \A n \in DOMAIN d : Reads(d[n]) \in SUBSET Keys
  BY StepFacts DEF Reads
<1> QED
  BY <1>1 DEF ClosedUnder, InputsOf, StepsFor

\* Reading back as many times as there are keys reaches every key there is to reach.
LEMMA ReadBackEnds ==
  ASSUME NEW d \in Seq(Step), NEW k \in Keys, NEW read, ReadBack(d, k, read)
  PROVE  ClosedUnder(d, read[Cardinality(Keys)])
<1> DEFINE N == Cardinality(Keys)
           Grown(n) == Cardinality(read[n]) >= n + 1
           T == {n \in 0..N : ClosedUnder(d, read[n]) \/ Grown(n)}
<1>0. N \in Nat /\ IsFiniteSet(Keys)
  BY HowManyKeys, DescriptorAssumption
<1>1. read[0] = {k} /\ \A n \in 1..N : read[n] = read[n - 1] \cup InputsOf(d, read[n - 1])
  BY ReadBackStepByStep
<1>2. \A n \in 0..N : read[n] \in SUBSET Keys
  BY AllKeysClosed, ReadBackWithin
<1>3. \A n \in 0..N : /\ IsFiniteSet(read[n]) /\ Cardinality(read[n]) \in Nat
                      /\ Cardinality(read[n]) <= N
  <2> SUFFICES ASSUME NEW n \in 0..N
               PROVE  /\ IsFiniteSet(read[n]) /\ Cardinality(read[n]) \in Nat
                      /\ Cardinality(read[n]) <= N
    OBVIOUS
  <2>1. read[n] \in SUBSET Keys
    BY <1>2
  <2> QED
    BY <1>0, <2>1, FS_Subset, FS_CardinalityType
<1> HIDE DEF N
<1>4. 0 \in T
  <2>1. Cardinality(read[0]) = 1
    BY <1>1, FS_Singleton
  <2> QED
    BY <1>0, <2>1
<1>5. ASSUME NEW n \in 0..N, n < N, n \in T PROVE n + 1 \in T
  <2> DEFINE m == n + 1
  <2>1. m \in 1..N /\ m \in 0..N /\ m - 1 = n /\ n \in Nat
    BY <1>0, <1>5
  <2>2. m = n + 1
    OBVIOUS
  <2> HIDE DEF m
  <2>3. read[m] = read[n] \cup InputsOf(d, read[n])
    BY <1>1, <2>1
  <2>4. CASE ClosedUnder(d, read[n])
    <3>1. read[m] = read[n]
      BY <2>3, <2>4 DEF ClosedUnder
    <3>2. m \in T
      BY <2>1, <2>4, <3>1
    <3> QED
      BY <2>2, <3>2
  <2>5. CASE ~ClosedUnder(d, read[n])
    <3>1. read[n] \in SUBSET read[m] /\ read[n] # read[m]
      BY <2>3, <2>5 DEF ClosedUnder
    <3>2. /\ IsFiniteSet(read[m]) /\ Cardinality(read[m]) \in Nat /\ Cardinality(read[n]) \in Nat
      BY <1>3, <2>1
    <3>3. /\ Cardinality(read[n]) <= Cardinality(read[m])
          /\ Cardinality(read[n]) # Cardinality(read[m])
      BY <3>1, <3>2, FS_Subset
    <3>4. Cardinality(read[n]) >= n + 1
      BY <1>5, <2>5
    <3>5. Cardinality(read[m]) >= m + 1
      BY <2>1, <2>2, <3>2, <3>3, <3>4
    <3>6. m \in T
      BY <2>1, <3>5
    <3> QED
      BY <2>2, <3>6
  <2> QED
    BY <2>4, <2>5
<1>6. N \in T
  <2> HIDE DEF T
  <2>1. \A n \in 0..N : n \in T
    BY <1>0, <1>4, <1>5, Upward
  <2> QED
    BY <1>0, <2>1
<1>7. ~Grown(N)
  BY <1>0, <1>3
<1> QED
  BY <1>6, <1>7 DEF N

\* The keys upstream of a key: it, what the steps that write them read, and no more.
LEMMA UpstreamFacts ==
  ASSUME NEW d \in Seq(Step), NEW k \in Keys
  PROVE  /\ k \in Upstream(d, k) /\ ClosedUnder(d, Upstream(d, k))
         /\ \A keys : k \in keys /\ ClosedUnder(d, keys) => Upstream(d, k) \in SUBSET keys
<1> DEFINE N == Cardinality(Keys)
<1>1. PICK read : ReadBack(d, k, read) /\ Upstream(d, k) = read[N]
  BY UpstreamIsRead
<1>2. N \in 0..N
  BY HowManyKeys
<1>3. \A keys : k \in keys /\ ClosedUnder(d, keys) => k \in read[N] /\ read[N] \in SUBSET keys
  BY <1>1, <1>2, ReadBackWithin
<1> QED
  BY <1>1, <1>3, AllKeysClosed, ReadBackEnds

\* What is upstream of a key at home is fed by no source that does not write it.
LEMMA UpstreamIsHome ==
  ASSUME NEW d \in Seq(Step), NEW k \in Keys, StaysHome(d, k), NEW j \in Upstream(d, k)
  PROVE  KeySources(d, j) \in SUBSET KeySources(d, k)
<1> DEFINE home == KeySources(d, k)
           up   == Upstream(d, k)
           keys == {x \in up : KeySources(d, x) \in SUBSET home}
<1>0. k \in up /\ ClosedUnder(d, up)
  BY UpstreamFacts
<1>1. k \in keys
  BY <1>0
<1>2. ASSUME NEW n \in DOMAIN d, d[n].key \in keys, NEW x \in Reads(d[n]) PROVE x \in keys
  <2>0. n \in StepsFor(d, up)
    BY <1>2 DEF StepsFor
  <2>1. x \in up
    <3> HIDE DEF up
    <3> QED
      BY <1>0, <2>0 DEF ClosedUnder, InputsOf
  <2>2. {d[m].source : m \in StepsFor(d, {x}) \ {n}} = {d[n].source}
    BY <2>0 DEF StaysHome, ReadsHome
  <2>3. d[n].source \in home
    BY <1>2 DEF KeySources
  <2>4. ASSUME NEW m \in DOMAIN d, d[m].key = x PROVE d[m].source = d[n].source
    BY <2>2, <2>4 DEF StepsFor
  <2>5. KeySources(d, x) \in SUBSET home
    BY <2>3, <2>4 DEF KeySources
  <2> QED
    BY <2>1, <2>5
<1>3. ClosedUnder(d, keys)
  BY <1>2 DEF ClosedUnder, InputsOf, StepsFor
<1> HIDE DEF keys
<1>4. j \in keys
  BY <1>1, <1>3, UpstreamFacts
<1> QED
  BY <1>4 DEF keys

\* When a step runs, among those of its source: on the message or on the tick after it.
Rank(d, n) == IF d[n].on = "message" THEN n ELSE Len(d) + n

\* Of the steps that write a set of keys closed upstream, the first to run of a
\* source reads the message: what it read would have to be written before it.
LEMMA FirstReadsTheMessage ==
  ASSUME NEW d \in Seq(Step), Loads(d), NEW keys, ClosedUnder(d, keys),
         \A m \in StepsFor(d, keys) : ReadsHome(d, m),
         NEW n \in DOMAIN d, d[n].key \in keys
  PROVE  \E m \in DOMAIN d : d[m].fn = "field" /\ d[m].key \in keys /\ d[m].source = d[n].source
<1> DEFINE W == {m \in DOMAIN d : d[m].key \in keys /\ d[m].source = d[n].source}
           ranks == {Rank(d, m) : m \in W}
<1>0. Len(d) \in Nat /\ DOMAIN d = 1..Len(d)
  OBVIOUS
<1>1. PICK m \in W : \A w \in W : Rank(d, m) <= Rank(d, w)
  <2>1. \A w \in W : Rank(d, w) \in Nat
    BY <1>0 DEF Rank
  <2>2. n \in W
    OBVIOUS
  <2> HIDE DEF W
  <2>3. ranks \subseteq Nat /\ ranks # {}
    BY <2>1, <2>2
  <2>4. PICK r \in ranks : \A s \in ranks : r <= s
    <3> HIDE DEF ranks
    <3> QED
      BY <2>3, LeastNatural
  <2> QED
    BY <2>4
<1>2. m \in DOMAIN d /\ d[m].key \in keys /\ d[m].source = d[n].source
  BY <1>1
<1>3. CASE d[m].fn = "field"
  BY <1>2, <1>3
<1>4. CASE d[m].fn # "field"
  <2> DEFINE x == d[m].input
  <2>1. Reads(d[m]) = {x}
    BY <1>4 DEF Reads
  <2> HIDE DEF x
  <2>2. x \in keys
    BY <1>2, <2>1 DEF ClosedUnder, InputsOf, StepsFor
  <2>3. PICK w \in StepsFor(d, {x}) \ {m} : d[w].source = d[m].source
    <3>0. m \in StepsFor(d, keys) /\ x \in Reads(d[m])
      BY <1>2, <2>1 DEF StepsFor
    <3>1. {d[w].source : w \in StepsFor(d, {x}) \ {m}} = {d[m].source}
      BY <3>0 DEF ReadsHome
    <3> QED
      BY <3>1
  <2>4. w \in W /\ w # m /\ d[w].key = x
    BY <1>2, <2>2, <2>3 DEF StepsFor
  <2>5. Rank(d, m) <= Rank(d, w) /\ w \in 1..Len(d) /\ m \in 1..Len(d)
    BY <1>0, <1>1, <2>4
  <2>6. d[m].on \in {"message", "tick"} /\ d[w].on \in {"message", "tick"}
    <3>1. d[m] \in Step /\ d[w] \in Step
      BY <1>0, <2>5
    <3> QED
      BY <3>1 DEF Step
  <2>7. RunsLater(d, m, w)
    <3>1. \/ d[m].on = "message" /\ d[w].on = "tick"
          \/ d[m].on = d[w].on /\ w > m
      BY <1>0, <2>4, <2>5, <2>6 DEF Rank
    <3> QED
      BY <1>0, <2>3, <2>5, <2>6, <3>1 DEF RunsLater, TickSteps, MessageSteps
  <2>8. d[w].key \notin Reads(d[m])
    BY <1>2, <2>4, <2>7 DEF Loads, InputsInOrder
  <2> QED
    BY <2>1, <2>4, <2>8
<1> QED
  BY <1>3, <1>4

\* The sources that write a key at home are those whose messages reach its value.
LEMMA SourcesFeed ==
  ASSUME NEW d \in Seq(Step), Loads(d), NEW k \in Keys, StaysHome(d, k)
  PROVE  Feeds(d, k) = KeySources(d, k)
<1> DEFINE up == Upstream(d, k)
<1>1. k \in up /\ ClosedUnder(d, up)
  BY UpstreamFacts
<1>2. ASSUME NEW n \in DOMAIN d, d[n].key \in up PROVE d[n].source \in KeySources(d, k)
  <2>1. d[n].source \in KeySources(d, d[n].key)
    BY DEF KeySources
  <2>2. KeySources(d, d[n].key) \in SUBSET KeySources(d, k)
    BY <1>2, UpstreamIsHome
  <2> QED
    BY <2>1, <2>2
<1>3. ASSUME NEW n \in DOMAIN d, d[n].key = k PROVE d[n].source \in Feeds(d, k)
  <2>0. \A m \in StepsFor(d, up) : ReadsHome(d, m)
    BY DEF StaysHome
  <2> HIDE DEF up
  <2>1. d[n].key \in up
    BY <1>1, <1>3
  <2>2. PICK m \in DOMAIN d : d[m].fn = "field" /\ d[m].key \in up /\ d[m].source = d[n].source
    BY <1>1, <2>0, <2>1, FirstReadsTheMessage
  <2> QED
    BY <2>2 DEF Feeds, up
<1> QED
  BY <1>2, <1>3 DEF Feeds, KeySources

LEMMA LoadedIsBelieved ==
  ASSUME NEW d \in Seq(Step), Loads(d)
  PROVE  BelievedOnItsData(d)
<1> DEFINE feeds == [k \in Keys |-> Feeds(d, k)]
           sources == {d[n].source : n \in DOMAIN d}
           reached(rule) == IF rule = {} THEN sources ELSE UNION {feeds[k] : k \in rule}
           home == {k \in {d[n].key : n \in DOMAIN d} : StaysHome(d, k)}
<1>1. home \in SUBSET Keys
  BY StepFacts
<1>2. \A k \in home : feeds[k] = KeySources(d, k)
  BY <1>1, SourcesFeed
<1> HIDE DEF feeds, home, sources
<1>3. ASSUME NEW rule \in SUBSET home, NEW required \in SUBSET sources
      PROVE  RuleSources(d, rule, required) = reached(rule) \cap required
  <2>1. \A k \in rule : feeds[k] = KeySources(d, k)
    BY <1>2
  <2>2. {feeds[k] : k \in rule} = {KeySources(d, k) : k \in rule}
    BY <2>1
  <2>3. CASE rule = {}
    BY <2>3 DEF RuleSources
  <2>4. CASE rule # {}
    <3> DEFINE u == UNION {KeySources(d, k) : k \in rule}
    <3>1. reached(rule) = u
      BY <2>2, <2>4
    <3>2. RuleSources(d, rule, required) = u \cap required
      BY <2>4 DEF RuleSources
    <3> HIDE DEF reached, u
    <3> QED
      BY <3>1, <3>2
  <2> QED
    BY <2>3, <2>4
<1>4. ASSUME NEW rule \in SUBSET home, NEW other \in SUBSET home,
             NEW required \in SUBSET sources
      PROVE  ExpressionSources(d, {rule, other}, required)
               = (reached(rule) \cup reached(other)) \cap required
  <2>1. ExpressionSources(d, {rule, other}, required)
          = RuleSources(d, rule, required) \cup RuleSources(d, other, required)
    BY DEF ExpressionSources
  <2>2. /\ RuleSources(d, rule, required) = reached(rule) \cap required
        /\ RuleSources(d, other, required) = reached(other) \cap required
    BY <1>3
  <2> HIDE DEF reached
  <2> QED
    BY <2>1, <2>2
<1> QED
  BY <1>4 DEF BelievedOnItsData, feeds, home, sources

\* Whatever descriptor loads, and whatever else it holds: over keys that are at
\* home the sources a mode is believed on are the required ones whose messages
\* reach the values it is decided on.
THEOREM FaultsAlwaysBelievedOnTheirData == SensorsSpec => []FaultsBelievedOnTheirData
<1>1. IInv => FaultsBelievedOnTheirData
  <2> SUFFICES ASSUME IInv PROVE Believed[descriptor]
    BY DEF FaultsBelievedOnTheirData
  <2>1. descriptor \in Descriptors /\ Loads(descriptor) /\ descriptor \in Seq(Step)
    BY DescriptorFacts DEF IInv, SensorsTypeOK
  <2>2. BelievedOnItsData(descriptor)
    BY <2>1, LoadedIsBelieved
  <2> QED
    BY <2>1, <2>2 DEF Believed
<1> QED
  BY SensorsInvariant, <1>1, PTL

-----------------------------------------------------------------------------
(* The automata, for every automaton and every set of propositions.        *)

\* A condition that depends on none of the propositions outside a set is decided
\* by those inside (_get_edge_aps).
LEMMA OutsideSupport ==
  ASSUME NEW cond, NEW needed, \A a \in Aps \ needed : ~DependsOn(cond, a), NEW v \in Valuations
  PROVE  v \in cond <=> v \cap needed \in cond
<1> DEFINE Between == {w \in SUBSET v : v \cap needed \subseteq w /\ (w \in cond <=> v \in cond)}
           Sizes == {Cardinality(w) : w \in Between}
<1>1. \A w \in Between : w \in Valuations /\ IsFiniteSet(w) /\ Cardinality(w) \in Nat
  <2>1. \A w \in Between : w \in Valuations /\ w \subseteq Aps
    BY DEF Valuations
  <2>2. IsFiniteSet(Aps)
    BY ApsAssumption
  <2> HIDE DEF Between
  <2>3. \A w \in Between : IsFiniteSet(w) /\ Cardinality(w) \in Nat
    BY <2>1, <2>2, FS_Subset, FS_CardinalityType
  <2> QED
    BY <2>1, <2>3
<1>2. v \in Between
  OBVIOUS
<1>3. Sizes \subseteq Nat /\ Sizes # {}
  <2> HIDE DEF Between
  <2> QED
    BY <1>1, <1>2
<1>4. PICK x \in Sizes : \A y \in Sizes : x <= y
  <2> HIDE DEF Sizes
  <2> QED
    BY <1>3, LeastNatural
<1>5. PICK w \in Between : x = Cardinality(w)
  BY <1>4
<1>6. CASE w = v \cap needed
  BY <1>5, <1>6
<1>7. CASE w # v \cap needed
  <2>1. PICK a \in w : a \notin needed
    BY <1>5, <1>7
  <2>2. a \in Aps \ needed /\ w \cup {a} = w /\ w \in Valuations
    BY <1>1, <1>5, <2>1 DEF Valuations
  <2>3. w \in cond <=> w \ {a} \in cond
    BY <2>2 DEF DependsOn
  <2>4. w \ {a} \in Between
    BY <1>5, <2>1, <2>3
  <2>5. Cardinality(w \ {a}) = x - 1
    BY <1>1, <1>5, <2>1, FS_RemoveElement
  <2>6. Cardinality(w \ {a}) \in Sizes
    BY <2>4
  <2>7. x <= x - 1
    BY <1>4, <2>5, <2>6
  <2>8. x \in Nat
    BY <1>1, <1>5
  <2> QED
    BY <2>7, <2>8
<1> QED
  BY <1>6, <1>7

\* The propositions get_required_aps names decide which edge is taken.
Covers(needed, m, q) == Required(m, q) \subseteq needed

LEMMA RequiredDecides ==
  ASSUME NEW m, NEW q \in States(m), IsAutomaton(m),
         Status(m, q) # "VIOLATED", NEW needed, Covers(needed, m, q), NEW v \in Valuations
  PROVE  Successor(m, q, v) = Successor(m, q, v \cap needed)
<1>1. v \cap needed \in Valuations
  BY DEF Valuations
<1>2. ASSUME NEW i \in DOMAIN m.edges[q]
      PROVE  v \in m.edges[q][i].when <=> v \cap needed \in m.edges[q][i].when
  <2> DEFINE e == m.edges[q][i]
  <2>1. e \in Out(m, q)
    BY DEF Out, ToSet
  <2>2. CASE e.when = Valuations
    BY <1>1, <2>2
  <2>3. CASE e.when # Valuations
    <3>1. EdgeAps(e) \subseteq needed
      BY <2>1, <2>3 DEF Required, Covers
    <3>2. \A a \in Aps \ needed : ~DependsOn(e.when, a)
      BY <3>1 DEF EdgeAps
    <3> HIDE DEF e
    <3>3. v \in e.when <=> v \cap needed \in e.when
      BY <3>2, OutsideSupport
    <3> QED
      BY <3>3 DEF e
  <2> QED
    BY <2>2, <2>3
<1>3. Matches(m, q, v) = Matches(m, q, v \cap needed)
  BY <1>2 DEF Matches
<1> QED
  BY <1>3 DEF Successor, FirstMatch

\* An observation that drops what is not required moves the automaton as well.
LEMMA AdvanceOnRequired ==
  ASSUME NEW m, NEW q \in States(m), IsAutomaton(m),
         NEW needed, Covers(needed, m, q), NEW obs \in Observations,
         NEW less, less = [a \in DOMAIN obs \cap needed |-> obs[a]]
  PROVE  Advance(m, q, obs) = Advance(m, q, less)
<1> DEFINE v == Valuation(obs)
<1>1. v \in Valuations /\ Valuation(less) = v \cap needed
  BY DEF Observations, Valuation, Valuations
<1> HIDE DEF v
<1>2. CASE Status(m, q) = "VIOLATED"
  BY <1>2 DEF Advance
<1>3. CASE Status(m, q) # "VIOLATED"
  <2>1. Successor(m, q, v) = Successor(m, q, v \cap needed)
    BY <1>1, <1>3, RequiredDecides
  <2> QED
    BY <1>1, <1>3, <2>1 DEF Advance, v
<1> QED
  BY <1>2, <1>3

LEMMA StepAllOnRequired ==
  ASSUME NEW ms, NEW qs,
         \A f \in DOMAIN ms : IsAutomaton(ms[f]) /\ qs[f] \in States(ms[f]),
         NEW obs \in Observations
  PROVE  StepAll(ms, qs, obs)
           = StepAll(ms, qs, [a \in DOMAIN obs \cap RequiredByAll(ms, qs) |-> obs[a]])
<1> DEFINE needed == RequiredByAll(ms, qs)
           less == [a \in DOMAIN obs \cap needed |-> obs[a]]
<1>1. \A f \in DOMAIN ms : Covers(needed, ms[f], qs[f])
  BY DEF RequiredByAll, Covers
<1>2. less = [a \in DOMAIN obs \cap needed |-> obs[a]]
  OBVIOUS
<1> HIDE DEF needed, less
<1>3. \A f \in DOMAIN ms : Advance(ms[f], qs[f], obs) = Advance(ms[f], qs[f], less)
  BY <1>1, <1>2, AdvanceOnRequired
<1> QED
  BY <1>3 DEF StepAll, needed, less

\* A sink leads nowhere else, and is not accepting.
LEMMA ViolationIsFinal ==
  ASSUME NEW m, IsAutomaton(m), NEW q \in States(m), Status(m, q) = "VIOLATED"
  PROVE  Reachable(m, q) \cap m.accepting = {}
<1> DEFINE C == Cardinality(States(m))
           Onward(P) == {e.to : e \in UNION {Out(m, p) : p \in P}}
           Walks(f) == f = [n \in 0..C |-> IF n = 0 THEN {q} ELSE f[n - 1] \cup Onward(f[n - 1])]
           walk == CHOOSE f : Walks(f)
           T == {n \in 0..C : walk[n] = {q}}
<1>1. C \in Nat
  <2>1. IsFiniteSet(States(m))
    BY DEF IsAutomaton
  <2> QED
    BY <2>1, FS_CardinalityType
<1>2. q \in Sinks(m) /\ q \notin m.accepting
  BY DEF Status, Sinks
<1>3. Onward({q}) = {q}
  <2>1. Out(m, q) = {[when |-> Valuations, to |-> q]}
    BY <1>2 DEF Sinks, Out, ToSet
  <2>2. UNION {Out(m, p) : p \in {q}} = Out(m, q)
    OBVIOUS
  <2>3. [when |-> Valuations, to |-> q].to = q
    OBVIOUS
  <2> QED
    BY <2>1, <2>2, <2>3
<1>4. Reachable(m, q) = walk[C]
  BY DEF Reachable
<1> HIDE DEF C, Onward
<1>5. Walks([n \in 0..C |-> {q}])
  <2> DEFINE g == [n \in 0..C |-> {q}]
  <2>1. \A n \in 0..C : g[n] = {q} /\ (n # 0 => g[n - 1] = {q})
    BY <1>1
  <2> QED
    BY <1>3, <2>1
<1>6. \A n \in 0..C : /\ n = 0 => walk[n] = {q}
                      /\ n # 0 => walk[n] = walk[n - 1] \cup Onward(walk[n - 1])
  <2>1. Walks(walk)
    <3> HIDE DEF Walks
    <3> QED
      BY <1>5
  <2> HIDE DEF walk
  <2> QED
    BY <2>1
<1> HIDE DEF walk
<1>7. 0 \in T
  <2>1. 0 \in 0..C
    BY <1>1
  <2>2. walk[0] = {q}
    BY <1>6, <2>1
  <2> QED
    BY <2>1, <2>2
<1>8. ASSUME NEW n \in 0..C, n < C, n \in T PROVE n + 1 \in T
  <2>1. n + 1 \in 0..C /\ n + 1 # 0 /\ n + 1 - 1 = n /\ walk[n] = {q}
    BY <1>1, <1>8
  <2> DEFINE k == n + 1
  <2>2. k \in 0..C /\ k # 0
    BY <2>1
  <2> HIDE DEF k
  <2>3. walk[k] = walk[k - 1] \cup Onward(walk[k - 1])
    BY <1>6, <2>2
  <2>4. k - 1 = n
    BY <2>1 DEF k
  <2> QED
    BY <1>3, <2>1, <2>3, <2>4 DEF k
<1>9. C \in T
  <2> HIDE DEF T
  <2>1. 0 \in Nat /\ \A n \in 0..C : n \in T
    BY <1>1, <1>7, <1>8, Upward
  <2> QED
    BY <1>1, <2>1
<1> QED
  BY <1>2, <1>4, <1>9

-----------------------------------------------------------------------------
(* Types.                                                                  *)

\* The states of a monitor are states of the automata of its spec.
StatesOK(m) ==
  /\ DOMAIN m.qs = DOMAIN Automata[m.spec]
  /\ \A f \in DOMAIN m.qs : m.qs[f] \in States(Automata[m.spec][f])

IsTape(t) == t = [inputs |-> t.inputs, verdicts |-> t.verdicts]

Typed == TypeOK /\ StatesOK(monitor) /\ IsTape(tape)

LEMMA InputCases ==
  ASSUME NEW f \in Input
  PROVE  /\ f.topic \in InputTopics
         /\ f.topic = "tick" => f.run \in 1..MaxRuns /\ f.seq \in Nat
         /\ f.topic = "observation" => f.seq \in Nat /\ f.aps \in Observable
         /\ f.topic = "command" => f.word \in Commands
         /\ f.topic = "load_spec" => f.spec \in Specs
BY DEF Input, InputTopics

LEMMA AutomataFacts ==
  ASSUME NEW s \in Specs
  PROVE  /\ Automata[s] \in Seq(ToSet(Automata[s]))
         /\ DOMAIN Automata[s] = 1..Len(Automata[s]) /\ Len(Automata[s]) \in Nat
         /\ \A f \in DOMAIN Automata[s] :
              /\ IsAutomaton(Automata[s][f])
              /\ States(Automata[s][f]) \subseteq Nat
              /\ Automata[s][f].initial \in States(Automata[s][f])
<1>1. /\ Automata[s] \in Seq(ToSet(Automata[s]))
      /\ \A f \in DOMAIN Automata[s] : IsAutomaton(Automata[s][f])
  BY ReplayAssumption
<1>2. DOMAIN Automata[s] = 1..Len(Automata[s]) /\ Len(Automata[s]) \in Nat
  BY <1>1
<1> QED
  BY <1>1, <1>2 DEF IsAutomaton

\* An edge always matches, and leads to a state of the automaton.
LEMMA AdvanceType ==
  ASSUME NEW m, IsAutomaton(m), NEW q \in States(m), NEW obs \in Observations
  PROVE  Advance(m, q, obs) \in States(m)
<1> DEFINE v == Valuation(obs)
           M == Matches(m, q, v)
<1>1. v \in Valuations
  BY DEF Observations, Valuation, Valuations
<1>2. /\ m.edges[q] \in Seq(Out(m, q))
      /\ \A e \in Out(m, q) : e.to \in States(m)
      /\ UNION {e.when : e \in Out(m, q)} = Valuations
  BY DEF IsAutomaton
<1>3. DOMAIN m.edges[q] = 1..Len(m.edges[q]) /\ Len(m.edges[q]) \in Nat
      /\ \A i \in DOMAIN m.edges[q] : m.edges[q][i] \in Out(m, q)
  BY <1>2
<1>4. M \subseteq Nat /\ M # {}
  <2>1. PICK e \in Out(m, q) : v \in e.when
    BY <1>1, <1>2
  <2>2. PICK i \in DOMAIN m.edges[q] : e = m.edges[q][i]
    BY <2>1 DEF Out, ToSet
  <2> QED
    BY <1>3, <2>1, <2>2 DEF Matches
<1>5. FirstMatch(m, q, v) \in M
  <2> HIDE DEF M
  <2>1. \E i \in M : \A j \in M : i <= j
    BY <1>4, LeastNatural
  <2> QED
    BY <2>1 DEF FirstMatch, M
<1>6. FirstMatch(m, q, v) \in DOMAIN m.edges[q]
  BY <1>5 DEF Matches
<1>7. Successor(m, q, v) \in States(m)
  BY <1>2, <1>3, <1>6 DEF Successor
<1> QED
  BY <1>7 DEF Advance

Admission == [ledger : Ledger, step : BOOLEAN, seq : Nat, missed : Nat]

LEMMA AdmitType ==
  ASSUME NEW l \in Ledger, NEW seq \in Index, NEW e \in Index, NEW c \in Index
  PROVE  Admit(l, seq, e, c) \in Admission
<1> DEFINE f == FollowEpoch(l, e)
           step == ~Refused(f, seq, c)
<1>1. f \in Ledger
  BY DEF FollowEpoch, NewEpoch, Ledger, Index
<1> HIDE DEF f
<1>2. NextImplicit(f) \in Nat
  BY <1>1 DEF NextImplicit, Ledger, Index
<1>3. StepLedger(f, seq) \in Ledger
  BY <1>1, <1>2 DEF StepLedger, Ledger, Index
<1>4. step => Gap(f, seq) \in Nat
  BY <1>1 DEF Gap, Refused, AlreadyStepped, Ledger, Index
<1>5. step \in BOOLEAN
  BY DEF Refused
<1>6. (IF seq = None THEN NextImplicit(f) ELSE seq) \in Nat
  BY <1>2 DEF Index
<1>7. (IF step THEN Gap(f, seq) ELSE 0) \in Nat
  BY <1>4
<1>8. (IF step THEN StepLedger(f, seq) ELSE f) \in Ledger
  BY <1>1, <1>3
<1> QED
  BY <1>5, <1>6, <1>7, <1>8 DEF Admit, Admission, f

\* The states of a spec's automata at its start.
LEMMA InitialType ==
  ASSUME NEW s \in Specs
  PROVE  /\ InitialStates(Automata[s]) \in Seq(Nat)
         /\ DOMAIN InitialStates(Automata[s]) = DOMAIN Automata[s]
         /\ \A f \in DOMAIN Automata[s] :
              InitialStates(Automata[s])[f] \in States(Automata[s][f])
<1>1. \A f \in DOMAIN Automata[s] :
        InitialStates(Automata[s])[f] \in States(Automata[s][f])
  BY AutomataFacts DEF InitialStates
<1>2. InitialStates(Automata[s]) \in [1..Len(Automata[s]) -> Nat]
  BY <1>1, AutomataFacts DEF InitialStates
<1>3. InitialStates(Automata[s]) \in Seq(Nat)
  BY <1>2, AutomataFacts
<1>4. DOMAIN InitialStates(Automata[s]) = DOMAIN Automata[s]
  BY DEF InitialStates
<1> QED
  BY <1>1, <1>3, <1>4

LEMMA FreshType == Fresh \in Monitor /\ StatesOK(Fresh)
<1>1. Spec0 \in Specs
  BY ReplayAssumption
<1>2. NewLedger \in Ledger /\ None \in Index
  BY DEF NewLedger, Ledger, Index
<1> QED
  BY <1>1, <1>2, InitialType DEF Fresh, Monitor, StatesOK

LEMMA RestartedType ==
  ASSUME NEW m \in Monitor
  PROVE  Restarted(m) \in Monitor /\ StatesOK(Restarted(m))
<1> DEFINE qs == InitialStates(Automata[m.spec])
<1>1. m.spec \in Specs
  BY DEF Monitor
<1>2. /\ qs \in Seq(Nat) /\ DOMAIN qs = DOMAIN Automata[m.spec]
      /\ \A f \in DOMAIN qs : qs[f] \in States(Automata[m.spec][f])
  BY <1>1, InitialType
<1>3. Restarted(m) = [m EXCEPT !.qs = qs, !.step = 0]
  BY DEF Restarted
<1> HIDE DEF qs
<1>4. /\ Restarted(m) \in Monitor /\ Restarted(m).qs = qs /\ Restarted(m).spec = m.spec
  <2>1. Restarted(m) = [spec |-> m.spec, qs |-> qs, step |-> 0, paused |-> m.paused,
                        run |-> m.run, seq |-> m.seq, since |-> m.since,
                        stalled |-> m.stalled, ledger |-> m.ledger]
    BY <1>3 DEF Monitor
  <2> QED
    BY <1>2, <2>1 DEF Monitor
<1> QED
  BY <1>2, <1>4 DEF StatesOK

LEMMA StepAllType ==
  ASSUME NEW m \in Monitor, StatesOK(m), NEW obs \in Observations,
         NEW qs, qs = StepAll(Automata[m.spec], m.qs, obs)
  PROVE  /\ qs \in Seq(Nat) /\ DOMAIN qs = DOMAIN Automata[m.spec]
         /\ \A f \in DOMAIN qs : qs[f] \in States(Automata[m.spec][f])
<1>1. m.spec \in Specs
  BY DEF Monitor
<1>2. /\ DOMAIN qs = DOMAIN Automata[m.spec]
      /\ \A f \in DOMAIN qs : qs[f] = Advance(Automata[m.spec][f], m.qs[f], obs)
  BY DEF StepAll
<1>3. \A f \in DOMAIN qs : qs[f] \in States(Automata[m.spec][f])
  BY <1>1, <1>2, AutomataFacts, AdvanceType DEF StatesOK
<1>4. qs = [f \in 1..Len(Automata[m.spec]) |-> qs[f]]
  BY <1>1, <1>2, AutomataFacts DEF StepAll
<1>5. qs \in [1..Len(Automata[m.spec]) -> Nat]
  BY <1>1, <1>2, <1>3, <1>4, AutomataFacts
<1>6. qs \in Seq(Nat)
  BY <1>1, <1>5, AutomataFacts
<1> QED
  BY <1>2, <1>3, <1>6

Stepped(m, led, step, qs) ==
  [m EXCEPT !.ledger = led, !.step = step, !.qs = qs, !.since = m.seq, !.stalled = FALSE]

LEMMA SteppedType ==
  ASSUME NEW m \in Monitor, NEW led \in Ledger, NEW step \in Nat, NEW qs \in Seq(Nat)
  PROVE  /\ Stepped(m, led, step, qs) \in Monitor
         /\ Stepped(m, led, step, qs).qs = qs
         /\ Stepped(m, led, step, qs).spec = m.spec
<1> DEFINE a == [m EXCEPT !.ledger = led]
           b == [a EXCEPT !.step = step]
           c == [b EXCEPT !.qs = qs]
           e == [c EXCEPT !.since = m.seq, !.stalled = FALSE]
<1>0. m.seq \in Index
  BY DEF Monitor
<1>1. a \in Monitor /\ a.spec = m.spec
  BY DEF Monitor
<1>2. Stepped(m, led, step, qs) = e
  BY DEF Monitor, Stepped
<1> HIDE DEF a
<1>3. b \in Monitor /\ b.spec = m.spec
  BY <1>1 DEF Monitor
<1> HIDE DEF b
<1>4. c \in Monitor /\ c.qs = qs /\ c.spec = m.spec
  BY <1>3 DEF Monitor
<1> HIDE DEF c
<1>5. e \in Monitor /\ e.qs = qs /\ e.spec = m.spec
  BY <1>0, <1>4 DEF Monitor
<1> QED
  BY <1>2, <1>5

LEMMA ObservationType ==
  ASSUME NEW m \in Monitor, StatesOK(m),
         NEW f \in Input, f.topic = "observation"
  PROVE  /\ OnObservation(m, f) \in Monitor /\ StatesOK(OnObservation(m, f))
         /\ Admitted(m, f).missed \in Nat /\ Steps(m, f) \in BOOLEAN
<1> DEFINE a == Admitted(m, f)
           qs == StepAll(Automata[m.spec], m.qs, f.aps)
<1>1. f.seq \in Nat /\ f.seq \in Index /\ f.aps \in Observations
  BY InputCases, ReplayAssumption DEF Index
<1>2. a \in Admission
  BY <1>1, AdmitType, NoneAssumption DEF Admitted, Monitor
<1>3. /\ qs \in Seq(Nat) /\ DOMAIN qs = DOMAIN Automata[m.spec]
      /\ \A g \in DOMAIN qs : qs[g] \in States(Automata[m.spec][g])
  BY <1>1, StepAllType
<1>4. a.ledger \in Ledger /\ a.missed \in Nat /\ a.step \in BOOLEAN /\ m.paused \in BOOLEAN
  BY <1>2 DEF Admission, Monitor
<1>5. Steps(m, f) = (~m.paused /\ a.step) /\ Steps(m, f) \in BOOLEAN
  BY <1>4 DEF Steps
<1> HIDE DEF a, qs
<1>6. CASE m.paused
  BY <1>4, <1>5, <1>6 DEF OnObservation, a
<1>7. CASE Steps(m, f)
  <2> DEFINE step == m.step + 1
             led == a.ledger
             n == Stepped(m, led, step, qs)
  <2>1. OnObservation(m, f) = n
    BY <1>5, <1>7 DEF OnObservation, Stepped, a, qs
  <2>2. n \in Monitor /\ n.qs = qs /\ n.spec = m.spec
    <3>1. step \in Nat /\ led \in Ledger
      BY <1>4 DEF Monitor
    <3>2. qs \in Seq(Nat)
      BY <1>3
    <3> HIDE DEF step, led
    <3> QED
      BY <3>1, <3>2, SteppedType
  <2> HIDE DEF n
  <2>3. StatesOK(n)
    BY <1>3, <2>2 DEF StatesOK
  <2> QED
    BY <1>4, <1>5, <2>1, <2>2, <2>3 DEF a
<1>8. CASE ~m.paused /\ ~Steps(m, f)
  <2> DEFINE n == [m EXCEPT !.ledger = a.ledger]
  <2>1. OnObservation(m, f) = n
    BY <1>8 DEF OnObservation, a
  <2>2. n \in Monitor /\ n.qs = m.qs /\ n.spec = m.spec
    BY <1>4 DEF Monitor
  <2> HIDE DEF n
  <2>3. StatesOK(n)
    BY <2>2 DEF StatesOK
  <2> QED
    BY <1>4, <1>5, <2>1, <2>2, <2>3 DEF a
<1> QED
  BY <1>5, <1>6, <1>7, <1>8

LEMMA TickType ==
  ASSUME NEW m \in Monitor, StatesOK(m), NEW f \in Input, f.topic = "tick"
  PROVE  OnTick(m, f) \in Monitor /\ StatesOK(OnTick(m, f)) /\ Silence(m, f) \in Nat
<1> DEFINE start == WindowStart(m, f)
           n == Silence(m, f)
           stalled == m.stalled \/ n >= StallTicks
<1>1. f.seq \in Nat /\ f.seq \in Index /\ f.run \in Index /\ m.since \in Index
  BY InputCases, ReplayAssumption DEF Index, Monitor
<1>2. start \in Nat
  BY <1>1 DEF WindowStart, Index
<1>3. n = IF f.seq > start THEN f.seq - start ELSE 0
  BY DEF Silence
<1>4. OnTick(m, f) = [m EXCEPT !.seq = f.seq, !.run = f.run, !.since = start,
                               !.stalled = stalled]
  BY DEF OnTick
<1> HIDE DEF start, n
<1>5. n \in Nat
  BY <1>1, <1>2, <1>3
<1>6. start \in Index /\ stalled \in BOOLEAN
  BY <1>2 DEF Index, Monitor
<1> HIDE DEF stalled
<1>7. OnTick(m, f) \in Monitor /\ OnTick(m, f).qs = m.qs /\ OnTick(m, f).spec = m.spec
  BY <1>1, <1>4, <1>6 DEF Monitor
<1> QED
  BY <1>5, <1>7 DEF StatesOK, n

LEMMA AfterType ==
  ASSUME NEW m \in Monitor, StatesOK(m), NEW f \in Input
  PROVE  After(m, f) \in Monitor /\ StatesOK(After(m, f))
<1>1. f.topic \in {"tick", "observation", "command", "load_spec"}
  BY InputCases DEF InputTopics
<1>2. CASE f.topic = "tick"
  BY <1>2, TickType DEF After
<1>3. CASE f.topic = "observation"
  BY <1>3, ObservationType DEF After
<1>4. CASE f.topic = "command"
  <2>1. After(m, f) = OnCommand(m, f) /\ f.word \in {"reset", "pause", "resume"}
    BY <1>4, InputCases, ReplayAssumption DEF After
  <2>2. CASE f.word = "reset"
    <3> DEFINE r == Restarted(m)
               n == [r EXCEPT !.paused = FALSE, !.ledger = ResetLedger(r.ledger)]
    <3>1. OnCommand(m, f) = n
      BY <2>2 DEF OnCommand
    <3>2. r \in Monitor /\ StatesOK(r)
      BY RestartedType
    <3> HIDE DEF r
    <3>3. ResetLedger(r.ledger) \in Ledger
      BY <3>2 DEF Monitor, ResetLedger, Ledger, Index
    <3>4. n \in Monitor /\ n.qs = r.qs /\ n.spec = r.spec
      BY <3>2, <3>3 DEF Monitor
    <3> HIDE DEF n
    <3> QED
      BY <2>1, <3>1, <3>2, <3>4 DEF StatesOK
  <2>3. CASE f.word \in {"pause", "resume"}
    <3>1. PICK p \in BOOLEAN : OnCommand(m, f) = [m EXCEPT !.paused = p]
      BY <2>3 DEF OnCommand
    <3>2. /\ After(m, f) \in Monitor /\ After(m, f).qs = m.qs /\ After(m, f).spec = m.spec
      BY <2>1, <3>1 DEF Monitor
    <3> QED
      BY <3>2 DEF StatesOK
  <2> QED
    BY <2>1, <2>2, <2>3
<1>5. CASE f.topic = "load_spec"
  <2> DEFINE n == [m EXCEPT !.spec = f.spec]
  <2>1. After(m, f) = Restarted(n)
    BY <1>5 DEF After, OnLoadSpec
  <2>2. n \in Monitor
    BY <1>5, InputCases DEF Monitor
  <2> HIDE DEF n
  <2> QED
    BY <2>1, <2>2, RestartedType
<1> QED
  BY <1>1, <1>2, <1>3, <1>4, <1>5

LEMMA VerdictType ==
  ASSUME NEW m \in Monitor, StatesOK(m), NEW f \in Input, Answers(m, f)
  PROVE  VerdictOf(m, f) \in Verdict
<1> DEFINE after == After(m, f)
           missed == Missed(m, f)
           ms == Automata[after.spec]
           marks == Statuses(ms, after.qs)
<1>1. f.topic \in {"observation", "tick"} /\ f.seq \in Nat
  BY InputCases DEF Answers, Announces, Steps
<1>2. after \in Monitor /\ missed \in Nat
  <2>1. missed \in Nat
    BY <1>1, TickType, ObservationType DEF Missed
  <2> QED
    BY <2>1, AfterType
<1>3. after.qs \in Seq(Nat) /\ after.step \in Nat /\ after.spec \in Specs
  BY <1>2 DEF Monitor
<1>4. marks \in Seq({"INCONCLUSIVE", "ACCEPTED", "VIOLATED"})
  <2>1. DOMAIN ms = 1..Len(ms) /\ Len(ms) \in Nat
    BY <1>3, AutomataFacts
  <2>2. \A g \in DOMAIN ms :
          Status(ms[g], after.qs[g]) \in {"INCONCLUSIVE", "ACCEPTED", "VIOLATED"}
    BY DEF Status
  <2> HIDE DEF ms, after
  <2>3. marks \in [1..Len(ms) -> {"INCONCLUSIVE", "ACCEPTED", "VIOLATED"}]
    BY <2>1, <2>2 DEF Statuses
  <2> QED
    BY <2>1, <2>3
<1> HIDE DEF after, missed, marks
<1>5. VerdictOf(m, f) = [topic |-> "verdict", seq |-> f.seq, step |-> after.step,
                         missed |-> missed, states |-> after.qs, statuses |-> marks]
  BY DEF VerdictOf, after, missed, marks, ms
<1> QED
  BY <1>1, <1>2, <1>3, <1>4, <1>5 DEF Verdict

LEMMA ByOwnSeqType ==
  ASSUME NEW w, \A seq \in DOMAIN w : w[seq] \in Verdict, NEW v \in Verdict
  PROVE  \A seq \in DOMAIN ByOwnSeq(w, v) : ByOwnSeq(w, v)[seq] \in Verdict
BY DEF ByOwnSeq

\* What the transport holds stays a sequence of frames.
LEMMA WireTypes ==
  ASSUME NEW s \in Seq(Input)
  PROVE  /\ \A i \in DOMAIN s : s[i] \in Input /\ RemoveAt(s, i) \in Seq(Input)
         /\ \A f \in Input : Append(s, f) \in Seq(Input)
<1>1. ASSUME NEW i \in DOMAIN s PROVE s[i] \in Input /\ RemoveAt(s, i) \in Seq(Input)
  <2>1. s[i] \in Input /\ i \in 1..Len(s) /\ Len(s) \in Nat
    OBVIOUS
  <2>2. SubSeq(s, 1, i - 1) \in Seq(Input) /\ SubSeq(s, i + 1, Len(s)) \in Seq(Input)
    BY <2>1
  <2> QED
    BY <2>1, <2>2 DEF RemoveAt
<1> QED
  BY <1>1

LEMMA InitTyped == ASSUME Init PROVE Typed
<1>1. Fresh \in Monitor /\ StatesOK(Fresh)
  BY FreshType
<1>2. 1 \in 1..MaxRuns
  BY ReplayAssumption
<1>3. <<>> \in Seq(Input) /\ DOMAIN <<>> = {}
  OBVIOUS
<1> QED
  BY <1>1, <1>2, <1>3 DEF Init, Typed, TypeOK, IsTape

LEMMA HandleTyped == ASSUME Typed, Handle PROVE Typed'
<1>1. PICK i \in DOMAIN inbox :
        /\ monitor' = After(monitor, inbox[i]) /\ inbox' = RemoveAt(inbox, i)
        /\ \/ ~Answers(monitor, inbox[i]) /\ UNCHANGED <<tape, replayed>>
           \/ /\ Answers(monitor, inbox[i]) /\ UNCHANGED replayed
              /\ tape' = TapedVerdict(VerdictOf(monitor, inbox[i]))
           \/ /\ Answers(monitor, inbox[i]) /\ UNCHANGED tape
              /\ replayed' = ByOwnSeq(replayed, VerdictOf(monitor, inbox[i]))
  BY DEF Handle
<1> DEFINE f == inbox[i]
           v == VerdictOf(monitor, f)
<1>2. f \in Input /\ inbox' \in Seq(Input)
  BY <1>1, WireTypes DEF Typed, TypeOK
<1>3. monitor \in Monitor /\ StatesOK(monitor)
  BY DEF Typed, TypeOK
<1> HIDE DEF f
<1>4. monitor' \in Monitor /\ StatesOK(monitor)'
  <2>1. After(monitor, f) \in Monitor /\ StatesOK(After(monitor, f))
    BY <1>2, <1>3, AfterType
  <2>2. monitor' = After(monitor, f)
    BY <1>1 DEF f
  <2> QED
    BY <2>1, <2>2 DEF StatesOK
<1>5. Answers(monitor, f) => v \in Verdict
  BY <1>2, <1>3, VerdictType
<1> HIDE DEF v
<1>6. /\ tape'.inputs \in Seq(Input) /\ IsTape(tape)'
      /\ \A seq \in DOMAIN tape'.verdicts : tape'.verdicts[seq] \in Verdict
  <2>1. CASE UNCHANGED tape
    BY <2>1 DEF Typed, TypeOK, IsTape
  <2>2. CASE Answers(monitor, f) /\ tape' = TapedVerdict(v)
    <3> DEFINE w == ByOwnSeq(tape.verdicts, v)
    <3>1. \A seq \in DOMAIN w : w[seq] \in Verdict
      BY <1>5, <2>2, ByOwnSeqType DEF Typed, TypeOK
    <3> HIDE DEF w
    <3>2. CASE taping
      <4>1. tape' = [inputs |-> tape.inputs, verdicts |-> w]
        BY <2>2, <3>2 DEF TapedVerdict, w, Typed, IsTape
      <4> QED
        BY <3>1, <4>1 DEF Typed, TypeOK, IsTape
    <3>3. CASE ~taping
      BY <2>2, <3>3 DEF TapedVerdict, Typed, TypeOK, IsTape
    <3> QED
      BY <3>2, <3>3
  <2> QED
    BY <1>1, <2>1, <2>2 DEF f, v
<1>7. \A seq \in DOMAIN replayed' : replayed'[seq] \in Verdict
  <2>1. CASE UNCHANGED replayed
    BY <2>1 DEF Typed, TypeOK
  <2>2. CASE Answers(monitor, f) /\ replayed' = ByOwnSeq(replayed, v)
    BY <1>5, <2>2, ByOwnSeqType DEF Typed, TypeOK
  <2> QED
    BY <1>1, <2>1, <2>2 DEF f, v
<1>8. UNCHANGED <<phase, inOrder, clock, taping, clean, host, at, awaiting>>
  BY DEF Handle
<1> QED
  BY <1>2, <1>4, <1>6, <1>7, <1>8 DEF Typed, TypeOK

LEMMA PublishTyped ==
  ASSUME Typed, NEW f \in Input, Publish(f),
         clock' \in [run : 1..MaxRuns, seq : Nat, observed : Nat]
  PROVE  Typed'
<1>1. inbox' \in Seq(Input) /\ Append(tape.inputs, f) \in Seq(Input)
  BY WireTypes DEF Publish, Typed, TypeOK
<1>2. tape' = [inputs |-> Append(tape.inputs, f), verdicts |-> tape.verdicts]
  <2>1. f.topic \in InputTopics
    BY InputCases
  <2> QED
    BY <2>1 DEF Publish, Taped, Typed, IsTape
<1>3. UNCHANGED <<phase, inOrder, monitor, taping, clean, host, at, awaiting, replayed>>
  BY DEF Publish, player
<1>4. StatesOK(monitor)'
  BY <1>3 DEF Typed, StatesOK
<1> QED
  BY <1>1, <1>2, <1>3, <1>4 DEF Typed, TypeOK, IsTape

\* What is published is an input of the monitor.
LEMMA FramesAreInputs ==
  ASSUME Typed
  PROVE  /\ [topic |-> "tick", run |-> clock.run, seq |-> clock.seq + 1] \in Input
         /\ \A aps \in Observable :
              [topic |-> "observation", seq |-> clock.seq, aps |-> aps] \in Input
         /\ \A word \in Commands : [topic |-> "command", word |-> word] \in Input
         /\ \A spec \in Specs : [topic |-> "load_spec", spec |-> spec] \in Input
<1>1. clock.run \in 1..MaxRuns /\ clock.seq \in Nat /\ clock.seq + 1 \in Nat
  BY DEF Typed, TypeOK
<1> QED
  BY <1>1 DEF Input

LEMMA NextTyped == ASSUME Typed, [Next]_vars PROVE Typed'
<1> DEFINE Clocks == [run : 1..MaxRuns, seq : Nat, observed : Nat]
<1>0. clock \in Clocks
  BY DEF Typed, TypeOK
<1>1. CASE Handle
  BY <1>1, HandleTyped
<1>2. CASE Pulse
  <2> DEFINE f == [topic |-> "tick", run |-> clock.run, seq |-> clock.seq + 1]
  <2>1. f \in Input
    BY FramesAreInputs
  <2>2. Publish(f) /\ clock' \in Clocks
    BY <1>0, <1>2 DEF Pulse
  <2> HIDE DEF f
  <2> QED
    BY <2>1, <2>2, PublishTyped
<1>3. CASE RestartClock
  <2>1. clock' \in Clocks
    BY <1>0, <1>3, ReplayAssumption DEF RestartClock
  <2> QED
    BY <1>3, <2>1 DEF RestartClock, player, Typed, TypeOK, StatesOK, IsTape
<1>4. CASE Observe
  <2>1. PICK aps \in Observable : Publish([topic |-> "observation", seq |-> clock.seq, aps |-> aps])
    BY <1>4 DEF Observe
  <2> DEFINE f == [topic |-> "observation", seq |-> clock.seq, aps |-> aps]
  <2>2. f \in Input
    BY FramesAreInputs
  <2>3. Publish(f) /\ clock' \in Clocks
    BY <1>0, <1>4, <2>1 DEF Observe
  <2> HIDE DEF f
  <2> QED
    BY <2>2, <2>3, PublishTyped
<1>5. CASE Operate
  <2>1. PICK f \in Input : Publish(f)
    BY <1>5, FramesAreInputs DEF Operate
  <2>2. clock' \in Clocks
    BY <1>0, <1>5 DEF Operate
  <2> QED
    BY <2>1, <2>2, PublishTyped
<1>6. CASE StopRecording
  BY <1>6 DEF StopRecording, player, Typed, TypeOK, StatesOK, IsTape
<1>7. CASE StartReplay
  <2>1. monitor' \in Monitor /\ StatesOK(monitor)'
    BY <1>7, FreshType DEF StartReplay, Typed, TypeOK, StatesOK
  <2>2. inbox' \in Seq(Input)
    BY <1>7 DEF StartReplay
  <2> QED
    BY <1>7, <2>1, <2>2 DEF StartReplay, Typed, TypeOK, IsTape
<1>8. CASE PlayFrame
  <2> DEFINE f == tape.inputs[at + 1]
  <2>1. f \in Input /\ at + 1 \in Nat
    BY <1>8 DEF PlayFrame, Played, Typed, TypeOK
  <2>2. inbox' \in Seq(Input)
    BY <1>8, <2>1, WireTypes DEF PlayFrame, Played, Typed, TypeOK
  <2>3. awaiting' = None \/ awaiting' \in Nat
    BY <1>8, <2>1, InputCases DEF PlayFrame, Played
  <2> QED
    BY <1>8, <2>1, <2>2, <2>3 DEF PlayFrame, Played, Typed, TypeOK, StatesOK, IsTape
<1>9. CASE MoveOn
  BY <1>9 DEF MoveOn, Typed, TypeOK, StatesOK, IsTape
<1>10. CASE Finish
  BY <1>10 DEF Finish, player, Typed, TypeOK, StatesOK, IsTape
<1>11. CASE UNCHANGED vars
  BY <1>11 DEF vars, Typed, TypeOK, StatesOK, IsTape
<1> QED
  BY <1>1, <1>2, <1>3, <1>4, <1>5, <1>6, <1>7, <1>8, <1>9, <1>10, <1>11 DEF Next

THEOREM ReplayTypeCorrect == Spec => []Typed
<1>1. Init => Typed
  BY InitTyped
<1>2. Typed /\ [Next]_vars => Typed'
  BY NextTyped
<1> QED
  BY <1>1, <1>2, PTL DEF Spec

THEOREM RequiredApsAlwaysSuffice == Spec => []RequiredApsSuffice
<1>1. Typed => RequiredApsSuffice
  <2> SUFFICES ASSUME Typed, NEW obs \in Observations
               PROVE  LET ms == Automata[monitor.spec]
                          qs == monitor.qs
                      IN  StepAll(ms, qs, obs)
                            = StepAll(ms, qs, [a \in DOMAIN obs \cap RequiredByAll(ms, qs) |-> obs[a]])
    BY DEF RequiredApsSuffice
  <2>1. monitor.spec \in Specs
    BY DEF Typed, TypeOK, Monitor
  <2>2. \A f \in DOMAIN Automata[monitor.spec] :
          /\ IsAutomaton(Automata[monitor.spec][f])
          /\ monitor.qs[f] \in States(Automata[monitor.spec][f])
    BY <2>1, AutomataFacts DEF Typed, StatesOK
  <2>3. IsFiniteSet(Aps)
    BY ApsAssumption
  <2> DEFINE ms == Automata[monitor.spec]
             qs == monitor.qs
  <2>4. \A f \in DOMAIN ms : IsAutomaton(ms[f]) /\ qs[f] \in States(ms[f])
    BY <2>2
  <2> HIDE DEF ms, qs
  <2>5. StepAll(ms, qs, obs)
          = StepAll(ms, qs, [a \in DOMAIN obs \cap RequiredByAll(ms, qs) |-> obs[a]])
    BY <2>3, <2>4, StepAllOnRequired
  <2> QED
    BY <2>5 DEF ms, qs
<1> QED
  BY <1>1, ReplayTypeCorrect, PTL

\* A violation is never announced of a formula that may still be satisfied: the
\* half of StatusIsJust that holds of every complete automaton.
NoViolationIsPremature ==
  \A f \in DOMAIN Automata[monitor.spec] :
    LET m == Automata[monitor.spec][f]
        q == monitor.qs[f]
    IN  Status(m, q) = "VIOLATED" => Reachable(m, q) \cap m.accepting = {}

THEOREM ViolationsAreFinal == Spec => []NoViolationIsPremature
<1>1. Typed => NoViolationIsPremature
  <2> SUFFICES ASSUME Typed, NEW f \in DOMAIN Automata[monitor.spec],
                      Status(Automata[monitor.spec][f], monitor.qs[f]) = "VIOLATED"
               PROVE  Reachable(Automata[monitor.spec][f], monitor.qs[f])
                        \cap Automata[monitor.spec][f].accepting = {}
    BY DEF NoViolationIsPremature
  <2>1. monitor.spec \in Specs
    BY DEF Typed, TypeOK, Monitor
  <2>2. /\ IsAutomaton(Automata[monitor.spec][f])
        /\ monitor.qs[f] \in States(Automata[monitor.spec][f])
    BY <2>1, AutomataFacts DEF Typed, StatesOK
  <2> QED
    BY <2>2, ViolationIsFinal
<1> QED
  BY <1>1, ReplayTypeCorrect, PTL

-----------------------------------------------------------------------------
(* The run of a fresh monitor over a sequence of inputs in order: what it   *)
(* has become, and the verdicts it has given, after each of them.           *)

Unmoved == [monitor |-> Fresh, verdicts |-> <<>>]

Handled(r, f) ==
  [monitor  |-> After(r.monitor, f),
   verdicts |-> IF Answers(r.monitor, f) THEN ByOwnSeq(r.verdicts, VerdictOf(r.monitor, f))
                ELSE r.verdicts]

RunOf(inputs) ==
  LET run[n \in 0..Len(inputs)] ==
        IF n = 0 THEN Unmoved ELSE Handled(run[n - 1], inputs[n])
  IN  run

\* The recursive definition defines.
LEMMA RunInputByInput ==
  ASSUME NEW inputs, Len(inputs) \in Nat
  PROVE  /\ RunOf(inputs)[0] = Unmoved
         /\ \A n \in 1..Len(inputs) :
              RunOf(inputs)[n] = Handled(RunOf(inputs)[n - 1], inputs[n])
<1> DEFINE Onto(before, n) == Handled(before, inputs[n])
           Runs(f, m) == f = [n \in 0..m |-> IF n = 0 THEN Unmoved ELSE Onto(f[n - 1], n)]
           T == {m \in 0..Len(inputs) : \E f : Runs(f, m)}
<1> HIDE DEF Onto
<1>1. 0 \in T
  <2>1. Runs([n \in 0..0 |-> Unmoved], 0)
    OBVIOUS
  <2> HIDE DEF Runs
  <2> QED
    BY <2>1
<1>2. ASSUME NEW m \in 0..Len(inputs), m < Len(inputs), m \in T PROVE m + 1 \in T
  <2>1. PICK f : Runs(f, m)
    BY <1>2
  <2> DEFINE g == [n \in 0..(m + 1) |-> IF n = m + 1 THEN Onto(f[m], m + 1) ELSE f[n]]
  <2>2. \A n \in 0..m : g[n] = f[n] /\ f[n] = IF n = 0 THEN Unmoved ELSE Onto(f[n - 1], n)
    BY <2>1
  <2>3. g[m + 1] = Onto(g[m], m + 1)
    BY <2>2
  <2>4. \A n \in 0..(m + 1) : g[n] = IF n = 0 THEN Unmoved ELSE Onto(g[n - 1], n)
    <3> HIDE DEF g
    <3>1. \A n \in 0..m : g[n] = IF n = 0 THEN Unmoved ELSE Onto(g[n - 1], n)
      BY <2>2
    <3>2. m + 1 - 1 = m /\ m + 1 # 0
      BY <1>2
    <3> QED
      BY <2>3, <3>1, <3>2
  <2>5. Runs(g, m + 1)
    BY <2>4
  <2> HIDE DEF Runs, g
  <2> QED
    BY <1>2, <2>5
<1>3. Len(inputs) \in T
  <2> HIDE DEF T
  <2>1. \A m \in 0..Len(inputs) : m \in T
    BY <1>1, <1>2, Upward
  <2> QED
    BY <2>1
<1>4. Runs(RunOf(inputs), Len(inputs))
  <2>1. \E f : Runs(f, Len(inputs))
    BY <1>3
  <2>2. RunOf(inputs) = CHOOSE f : Runs(f, Len(inputs))
    BY DEF RunOf, Onto
  <2> QED
    BY <2>1, <2>2
<1> QED
  BY <1>4 DEF Onto

\* What is published later changes nothing of what has been answered.
LEMMA RunOfAppend ==
  ASSUME NEW inputs \in Seq(Input), NEW f \in Input
  PROVE  \A n \in 0..Len(inputs) : RunOf(Append(inputs, f))[n] = RunOf(inputs)[n]
<1> DEFINE longer == Append(inputs, f)
           T == {n \in 0..Len(inputs) : RunOf(longer)[n] = RunOf(inputs)[n]}
<1>1. /\ longer \in Seq(Input) /\ Len(longer) = Len(inputs) + 1 /\ Len(inputs) \in Nat
      /\ \A n \in 1..Len(inputs) : longer[n] = inputs[n]
  OBVIOUS
<1> HIDE DEF longer
<1>2. 0 \in T
  <2>1. RunOf(longer)[0] = Unmoved /\ RunOf(inputs)[0] = Unmoved
    BY <1>1, RunInputByInput
  <2> QED
    BY <1>1, <2>1
<1>3. ASSUME NEW n \in 0..Len(inputs), n < Len(inputs), n \in T PROVE n + 1 \in T
  <2> DEFINE k == n + 1
  <2>1. k \in 1..Len(inputs) /\ k \in 1..Len(longer) /\ k - 1 = n /\ k \in 0..Len(inputs)
    BY <1>1, <1>3
  <2> HIDE DEF k
  <2>2. /\ RunOf(longer)[k] = Handled(RunOf(longer)[k - 1], longer[k])
        /\ RunOf(inputs)[k] = Handled(RunOf(inputs)[k - 1], inputs[k])
    <3>1. Len(longer) \in Nat /\ Len(inputs) \in Nat
      BY <1>1
    <3> QED
      BY <2>1, <3>1, RunInputByInput, Zenon
  <2>3. RunOf(longer)[k] = RunOf(inputs)[k]
    BY <1>1, <1>3, <2>1, <2>2
  <2>4. k \in T
    BY <2>1, <2>3
  <2> QED
    BY <2>4 DEF k
<1> HIDE DEF T
<1>4. 0 \in Nat /\ \A n \in 0..Len(inputs) : n \in T
  BY <1>1, <1>2, <1>3, Upward
<1> QED
  BY <1>4 DEF T, longer

\* A verdict once given stays given, and only an observation or a tick gives one.
LEMMA RunGrows ==
  ASSUME NEW inputs, Len(inputs) \in Nat, NEW j \in 0..Len(inputs),
         NEW run, run = RunOf(inputs)
  PROVE  /\ DOMAIN run[j].verdicts \subseteq DOMAIN run[Len(inputs)].verdicts
         /\ (\A i \in (j + 1)..Len(inputs) : inputs[i].topic \notin {"observation", "tick"})
              => run[j].verdicts = run[Len(inputs)].verdicts
<1> DEFINE quiet == \A i \in (j + 1)..Len(inputs) : inputs[i].topic \notin {"observation", "tick"}
           Since(n) == /\ DOMAIN run[j].verdicts \subseteq DOMAIN run[n].verdicts
                       /\ quiet => run[j].verdicts = run[n].verdicts
           T == {n \in j..Len(inputs) : Since(n)}
<1>0. j \in Nat /\ Len(inputs) \in Nat
  OBVIOUS
<1>1. j \in T
  OBVIOUS
<1>2. ASSUME NEW n \in j..Len(inputs), n < Len(inputs), n \in T PROVE n + 1 \in T
  <2> DEFINE k == n + 1
  <2>1. k \in 1..Len(inputs) /\ k - 1 = n /\ k \in (j + 1)..Len(inputs) /\ k \in j..Len(inputs)
    BY <1>0, <1>2
  <2> HIDE DEF k
  <2>2. run[k] = Handled(run[n], inputs[k])
    BY <2>1, RunInputByInput
  <2>3. DOMAIN run[n].verdicts \subseteq DOMAIN run[k].verdicts
    BY <2>2 DEF Handled, ByOwnSeq
  <2>4. inputs[k].topic \notin {"observation", "tick"} => run[k].verdicts = run[n].verdicts
    BY <2>2 DEF Handled, Answers, Announces, Steps
  <2>5. quiet => inputs[k].topic \notin {"observation", "tick"}
    BY <2>1
  <2>6. Since(n)
    BY <1>2
  <2>7. Since(k)
    <3> HIDE DEF quiet
    <3> QED
      BY <2>3, <2>4, <2>5, <2>6
  <2> HIDE DEF Since
  <2> QED
    BY <2>1, <2>7 DEF k
<1>3. Len(inputs) \in T
  <2> HIDE DEF T
  <2>1. \A n \in j..Len(inputs) : n \in T
    BY <1>0, <1>1, <1>2, Upward
  <2> QED
    BY <1>0, <2>1
<1> QED
  BY <1>3

-----------------------------------------------------------------------------
(* The inductive invariant of Replay.                                      *)

\* What has been sent to the monitor of the phase, and what it has handled.
Sent == IF phase = "live" THEN Len(tape.inputs) ELSE at
Answered == Sent - Len(inbox)

Sides ==
  /\ phase = "live" => host = "fresh" /\ at = 0 /\ replayed = <<>>
  /\ phase # "live" => ~taping
  /\ at <= Len(tape.inputs)
  /\ phase = "done" => at = Len(tape.inputs) /\ inbox = <<>>

\* The wire holds the part of the tape that the monitor has yet to handle.
WireIsTape ==
  host # "down" =>
    /\ Len(inbox) <= Sent
    /\ \A i \in DOMAIN inbox : inbox[i] = tape.inputs[Answered + i]

\* A monitor started like the recorded one is where the tape leads.
RunsLikeRecorded ==
  host = "fresh" =>
    /\ monitor = RunOf(tape.inputs)[Answered].monitor
    /\ phase # "live" => replayed = RunOf(tape.inputs)[Answered].verdicts

\* The tape holds the verdicts of a first part of its inputs: while it is
\* written, of what is handled; a clean cut leaves no observation and no tick behind.
Holds(t, j) == t.verdicts = RunOf(t.inputs)[j].verdicts
CutAt(j) ==
  /\ taping => j = Answered
  /\ ~taping /\ clean =>
       \A i \in (j + 1)..Len(tape.inputs) : tape.inputs[i].topic \notin {"observation", "tick"}

TapeHoldsVerdicts == \E j \in 0..Len(tape.inputs) : Holds(tape, j) /\ CutAt(j)

Faithful == WireIsTape /\ RunsLikeRecorded /\ TapeHoldsVerdicts

ReplayInv == Typed /\ Sides /\ (inOrder => Faithful)

LEMMA ReplayFacts ==
  ASSUME Typed, Sides
  PROVE  /\ tape.inputs \in Seq(Input) /\ Len(tape.inputs) \in Nat
         /\ inbox \in Seq(Input) /\ Len(inbox) \in Nat
         /\ at \in Nat /\ Sent \in 0..Len(tape.inputs)
         /\ phase \in {"live", "play", "done"}
         /\ taping \in BOOLEAN /\ clean \in BOOLEAN
<1>1. /\ tape.inputs \in Seq(Input) /\ Len(tape.inputs) \in Nat
      /\ inbox \in Seq(Input) /\ Len(inbox) \in Nat /\ at \in Nat
      /\ phase \in {"live", "play", "done"}
      /\ taping \in BOOLEAN /\ clean \in BOOLEAN
  BY DEF Typed, TypeOK
<1>2. at <= Len(tape.inputs)
  BY DEF Sides
<1> QED
  BY <1>1, <1>2 DEF Sent

LEMMA RemoveHead ==
  ASSUME NEW s \in Seq(Input), 1 \in DOMAIN s
  PROVE  /\ Len(RemoveAt(s, 1)) = Len(s) - 1
         /\ \A i \in DOMAIN RemoveAt(s, 1) : i \in Nat /\ RemoveAt(s, 1)[i] = s[i + 1]
<1> DEFINE n == Len(s)
           r == SubSeq(s, 1 + 1, n)
<1>1. Len(s) \in Nat /\ 1 <= Len(s)
  OBVIOUS
<1>3. /\ r \in Seq(Input) /\ Len(r) = Len(s) - 1
      /\ \A i \in 1..(Len(s) - 1) : r[i] = s[i + 1]
  <2>1. r \in Seq(Input)
    BY <1>1
  <2>2. Len(r) = n - 1
    <3>1. n \in Nat /\ 1 <= n /\ 1 + 1 = 2
      BY <1>1
    <3> HIDE DEF n
    <3>2. Len(r) = IF 1 + 1 <= n THEN n - (1 + 1) + 1 ELSE 0
      BY <3>1
    <3> QED
      BY <3>1, <3>2
  <2>3. ASSUME NEW i \in 1..(Len(s) - 1) PROVE r[i] = s[i + 1]
    BY <1>1
  <2> QED
    BY <2>1, <2>2, <2>3
<1> DEFINE e == SubSeq(s, 1, 1 - 1)
           rest == RemoveAt(s, 1)
<1>4. rest = e \o r
  BY DEF RemoveAt
<1>5. e \in Seq(Input) /\ Len(e) = 0
  BY <1>1
<1> HIDE DEF e, r, rest
<1>6. /\ rest \in Seq(Input) /\ Len(rest) = Len(s) - 1
      /\ \A i \in 1..(Len(s) - 1) : rest[i] = r[i]
  BY <1>1, <1>3, <1>4, <1>5
<1>7. \A i \in DOMAIN rest : i \in 1..(Len(s) - 1)
  BY <1>1, <1>6
<1> QED
  BY <1>1, <1>3, <1>6, <1>7 DEF rest

\* The frame a monitor handles next is the next of the tape (Handle).
LEMMA HandleNext ==
  ASSUME ReplayInv, inOrder, Handle
  PROVE  /\ 1 \in DOMAIN inbox /\ inbox' = RemoveAt(inbox, 1)
         /\ Answered \in 0..(Len(tape.inputs) - 1)
         /\ inbox[1] = tape.inputs[Answered + 1]
         /\ monitor' = After(monitor, inbox[1])
         /\ tape'.inputs = tape.inputs
         /\ Len(inbox') = Len(inbox) - 1 /\ Sent' = Sent /\ Answered' = Answered + 1
         /\ UNCHANGED <<phase, inOrder, clock, taping, clean, host, at, awaiting>>
         /\ host # "down"
<1>1. PICK i \in DOMAIN inbox :
        /\ MayArrive(i) /\ monitor' = After(monitor, inbox[i])
        /\ inbox' = RemoveAt(inbox, i)
        /\ \/ UNCHANGED tape
           \/ tape' = TapedVerdict(VerdictOf(monitor, inbox[i]))
  BY DEF Handle
<1>2. i = 1
  BY <1>1 DEF MayArrive
<1>3. UNCHANGED <<phase, inOrder, clock, taping, clean, host, at, awaiting>> /\ host # "down"
  BY DEF Handle
<1>4. tape'.inputs = tape.inputs
  BY <1>1 DEF TapedVerdict, ReplayInv, Typed, IsTape
<1>5. 1 \in DOMAIN inbox /\ Len(inbox') = Len(inbox) - 1
  BY <1>1, <1>2, ReplayFacts, RemoveHead DEF ReplayInv
<1>6. Len(inbox) \in Nat /\ 1 <= Len(inbox) /\ Len(inbox) <= Sent
      /\ Sent \in 0..Len(tape.inputs) /\ Len(tape.inputs) \in Nat
  BY <1>3, <1>5, ReplayFacts DEF ReplayInv, Faithful, WireIsTape
<1>7. Answered \in 0..(Len(tape.inputs) - 1) /\ inbox[1] = tape.inputs[Answered + 1]
  <2>1. inbox[1] = tape.inputs[Answered + 1]
    BY <1>3, <1>5 DEF ReplayInv, Faithful, WireIsTape
  <2> QED
    BY <1>6, <2>1 DEF Answered
<1>8. Sent' = Sent
  BY <1>3, <1>4 DEF Sent
<1>9. Answered' = Answered + 1
  BY <1>5, <1>6, <1>8 DEF Answered
<1> QED
  BY <1>1, <1>2, <1>3, <1>4, <1>5, <1>7, <1>8, <1>9

LEMMA HandleFaithful == ASSUME ReplayInv, inOrder, Handle PROVE Faithful'
<1> DEFINE inputs == tape.inputs
           run == RunOf(inputs)
           k == Answered
           f == inbox[1]
<1>1. /\ k \in 0..(Len(inputs) - 1) /\ f = inputs[k + 1] /\ Answered' = k + 1
      /\ tape'.inputs = inputs /\ inbox' = RemoveAt(inbox, 1) /\ 1 \in DOMAIN inbox
      /\ Len(inbox') = Len(inbox) - 1 /\ Sent' = Sent
      /\ host' = host /\ phase' = phase /\ taping' = taping /\ clean' = clean /\ host # "down"
      /\ monitor' = After(monitor, f)
  BY HandleNext
<1>2. Len(inputs) \in Nat /\ inbox \in Seq(Input) /\ Len(inbox) \in Nat /\ Len(inbox) <= Sent
      /\ Sent \in 0..Len(inputs)
  BY <1>1, ReplayFacts DEF ReplayInv, Faithful, WireIsTape
<1> HIDE DEF inputs, k, f
<1>3. run[k + 1] = Handled(run[k], f)
  <2> DEFINE n == k + 1
  <2>1. n \in 1..Len(inputs) /\ n - 1 = k
    BY <1>1, <1>2
  <2> HIDE DEF n
  <2>2. run[n] = Handled(run[n - 1], inputs[n])
    BY <1>2, <2>1, RunInputByInput
  <2> QED
    BY <1>1, <2>1, <2>2 DEF n
<1>4. WireIsTape'
  <2>1. Len(inbox') <= Sent'
    BY <1>1, <1>2
  <2>2. ASSUME NEW i \in DOMAIN inbox' PROVE inbox'[i] = inputs[k + 1 + i]
    <3>1. i \in Nat /\ inbox'[i] = inbox[i + 1] /\ i \in 1..Len(inbox')
      <4>1. i \in Nat /\ inbox'[i] = inbox[i + 1]
        BY <1>1, <1>2, <2>2, RemoveHead
      <4>2. inbox' \in Seq(Input)
        BY <1>1, <1>2, WireTypes
      <4> QED
        BY <4>1, <4>2
    <3>2. i + 1 \in DOMAIN inbox
      BY <1>1, <1>2, <3>1
    <3>3. inbox[i + 1] = inputs[k + (i + 1)]
      BY <1>1, <3>2 DEF ReplayInv, Faithful, WireIsTape, k, inputs
    <3>4. k + (i + 1) = k + 1 + i
      BY <1>1, <1>2, <3>1
    <3> QED
      BY <3>1, <3>3, <3>4
  <2> QED
    BY <1>1, <2>1, <2>2 DEF WireIsTape
<1>5. CASE host = "fresh"
  <2>1. monitor = run[k].monitor
    BY <1>5 DEF ReplayInv, Faithful, RunsLikeRecorded, k, inputs
  <2>2. monitor' = run[k + 1].monitor
    BY <1>1, <1>3, <2>1 DEF Handled
  <2>3. run[k + 1].verdicts = IF Answers(monitor, f) THEN ByOwnSeq(run[k].verdicts, VerdictOf(monitor, f))
                              ELSE run[k].verdicts
    BY <1>3, <2>1 DEF Handled
  <2>4. CASE phase # "live"
    <3>1. replayed = run[k].verdicts
      BY <1>5, <2>4 DEF ReplayInv, Faithful, RunsLikeRecorded, k, inputs
    <3>2. /\ tape' = tape
          /\ replayed' = IF Answers(monitor, f) THEN ByOwnSeq(replayed, VerdictOf(monitor, f))
                         ELSE replayed
      BY <2>4 DEF Handle, MayArrive, f
    <3>3. RunsLikeRecorded'
      BY <1>1, <2>2, <2>3, <3>1, <3>2 DEF RunsLikeRecorded
    <3>4. TapeHoldsVerdicts'
      <4>1. ~taping
        BY <2>4 DEF ReplayInv, Sides
      <4> QED
        BY <1>1, <3>2, <4>1 DEF ReplayInv, Faithful, TapeHoldsVerdicts, CutAt, Holds
    <3> QED
      BY <1>4, <3>3, <3>4 DEF Faithful
  <2>5. CASE phase = "live"
    <3>1. RunsLikeRecorded'
      BY <1>1, <2>2, <2>5 DEF RunsLikeRecorded
    <3>2. tape' = IF Answers(monitor, f) THEN TapedVerdict(VerdictOf(monitor, f)) ELSE tape
      BY <2>5 DEF Handle, MayArrive, f
    <3>3. CASE taping
      <4>1. tape.verdicts = run[k].verdicts
        BY <3>3 DEF ReplayInv, Faithful, TapeHoldsVerdicts, Holds, CutAt, k, inputs
      <4>2. tape'.verdicts = run[k + 1].verdicts
        BY <2>3, <3>2, <3>3, <4>1 DEF TapedVerdict, ReplayInv, Typed, IsTape
      <4>3. PICK j \in 0..Len(inputs) : j = k + 1
        BY <1>1, <1>2
      <4>4. Holds(tape', j) /\ CutAt(j)'
        BY <1>1, <3>3, <4>2, <4>3 DEF Holds, CutAt
      <4>5. TapeHoldsVerdicts'
        BY <1>1, <4>3, <4>4 DEF TapeHoldsVerdicts
      <4> QED
        BY <1>4, <3>1, <4>5 DEF Faithful
    <3>4. CASE ~taping
      <4>1. tape' = tape
        BY <3>2, <3>4 DEF TapedVerdict
      <4>2. TapeHoldsVerdicts'
        BY <1>1, <3>4, <4>1 DEF ReplayInv, Faithful, TapeHoldsVerdicts, CutAt, Holds
      <4> QED
        BY <1>4, <3>1, <4>2 DEF Faithful
    <3> QED
      BY <3>3, <3>4
  <2> QED
    BY <2>4, <2>5
<1>6. CASE host # "fresh"
  <2>1. phase # "live" /\ ~taping
    BY <1>6 DEF ReplayInv, Sides
  <2>2. tape' = tape
    BY <2>1 DEF Handle
  <2>3. TapeHoldsVerdicts'
    BY <1>1, <2>1, <2>2 DEF ReplayInv, Faithful, TapeHoldsVerdicts, CutAt, Holds
  <2>4. RunsLikeRecorded'
    BY <1>1, <1>6 DEF RunsLikeRecorded
  <2> QED
    BY <1>4, <2>3, <2>4 DEF Faithful
<1> QED
  BY <1>5, <1>6

\* What is published is taped and sent alike.
LEMMA PublishKeeps ==
  ASSUME ReplayInv, NEW f \in Input, Publish(f)
  PROVE  Sides' /\ (inOrder => Faithful')
<1> DEFINE inputs == tape.inputs
           longer == Append(inputs, f)
<1>1. /\ inputs \in Seq(Input) /\ Len(inputs) \in Nat
      /\ inbox \in Seq(Input) /\ Len(inbox) \in Nat /\ at \in Nat
  BY ReplayFacts DEF ReplayInv
<1>2. /\ phase = "live" /\ taping /\ inbox' = Append(inbox, f)
      /\ UNCHANGED <<phase, inOrder, monitor, taping, clean, host, at, replayed>>
  BY DEF Publish, player
<1>3. tape' = [inputs |-> longer, verdicts |-> tape.verdicts]
  <2>1. f.topic \in InputTopics
    BY InputCases
  <2> QED
    BY <1>2, <2>1 DEF Publish, Taped, ReplayInv, Typed, IsTape
<1>4. /\ Len(longer) = Len(inputs) + 1 /\ longer \in Seq(Input)
      /\ \A i \in 1..Len(inputs) : longer[i] = inputs[i]
      /\ longer[Len(inputs) + 1] = f
  BY <1>1
<1>5. \A n \in 0..Len(inputs) : RunOf(longer)[n] = RunOf(inputs)[n]
  BY <1>1, RunOfAppend
<1> HIDE DEF longer, inputs
<1>6. tape'.inputs = longer /\ tape'.verdicts = tape.verdicts
  BY <1>3
<1>7. Sides'
  BY <1>1, <1>2, <1>4, <1>6 DEF ReplayInv, Sides, inputs
<1>8. ASSUME inOrder PROVE Faithful'
  <2> DEFINE k == Answered
  <2>1. Sent = Len(inputs) /\ Sent' = Len(inputs) + 1 /\ host = "fresh" /\ host' = "fresh"
    BY <1>2, <1>4, <1>6 DEF Sent, ReplayInv, Sides, inputs
  <2>2. /\ Len(inbox) <= Sent
        /\ \A i \in DOMAIN inbox : inbox[i] = inputs[k + i]
    BY <1>8, <2>1 DEF ReplayInv, Faithful, WireIsTape, inputs
  <2>3. /\ Len(inbox') = Len(inbox) + 1 /\ DOMAIN inbox' = 1..(Len(inbox) + 1)
        /\ \A i \in 1..Len(inbox) : inbox'[i] = inbox[i]
        /\ inbox'[Len(inbox) + 1] = f
    BY <1>1, <1>2
  <2>4. k \in 0..Len(inputs) /\ k = Len(inputs) - Len(inbox) /\ Answered' = k
    BY <1>1, <2>1, <2>2, <2>3 DEF Answered
  <2> HIDE DEF k
  <2>5. WireIsTape'
    <3>1. Len(inbox') <= Sent'
      BY <1>1, <2>1, <2>2, <2>3
    <3>2. ASSUME NEW i \in DOMAIN inbox' PROVE inbox'[i] = longer[k + i]
      <4>1. CASE i \in 1..Len(inbox)
        <5>1. inbox'[i] = inbox[i] /\ i \in DOMAIN inbox
          BY <1>1, <2>3, <4>1
        <5>2. inbox[i] = inputs[k + i]
          BY <2>2, <5>1
        <5>3. k + i \in 1..Len(inputs)
          <6>1. Len(inputs) \in Nat /\ Len(inbox) \in Nat /\ Len(inbox) <= Len(inputs)
            BY <1>1, <2>1, <2>2
          <6> QED
            BY <2>4, <4>1, <6>1
        <5> QED
          BY <1>4, <5>1, <5>2, <5>3
      <4>2. CASE i = Len(inbox) + 1
        <5>1. k + i = Len(inputs) + 1
          BY <1>1, <2>4, <4>2
        <5> QED
          BY <1>4, <2>3, <4>2, <5>1
      <4> QED
        BY <1>1, <2>3, <4>1, <4>2
    <3> QED
      BY <1>6, <2>4, <3>1, <3>2 DEF WireIsTape
  <2>6. RunsLikeRecorded'
    <3>1. monitor = RunOf(inputs)[k].monitor
      BY <1>8, <2>1 DEF ReplayInv, Faithful, RunsLikeRecorded, k, inputs
    <3>2. monitor' = RunOf(longer)[k].monitor
      BY <1>2, <1>5, <2>4, <3>1
    <3> QED
      BY <1>2, <1>6, <2>4, <3>2 DEF RunsLikeRecorded
  <2>7. TapeHoldsVerdicts'
    <3>1. PICK j \in 0..Len(inputs) : Holds(tape, j) /\ j = k
      BY <1>2, <1>8 DEF ReplayInv, Faithful, TapeHoldsVerdicts, CutAt, k, inputs
    <3>2. Holds(tape', j) /\ CutAt(j)'
      BY <1>2, <1>5, <1>6, <2>4, <3>1 DEF Holds, CutAt, inputs
    <3>3. j \in 0..Len(longer)
      BY <1>1, <1>4
    <3> QED
      BY <1>6, <3>2, <3>3 DEF TapeHoldsVerdicts
  <2> QED
    BY <2>5, <2>6, <2>7 DEF Faithful
<1> QED
  BY <1>7, <1>8

\* A clean cut: every observation and every tick on the tape has been handled.
LEMMA StopKeeps ==
  ASSUME ReplayInv, StopRecording
  PROVE  Sides' /\ (inOrder => Faithful')
<1>1. /\ phase = "live" /\ taping /\ ~taping'
      /\ clean' = \A f \in ToSet(inbox) : f.topic \notin {"observation", "tick"}
      /\ UNCHANGED <<phase, inOrder, monitor, inbox, tape, host, at, replayed>>
  BY DEF StopRecording, player
<1>2. Sides'
  BY <1>1 DEF ReplayInv, Sides
<1>3. ASSUME inOrder PROVE Faithful'
  <2>1. Sent' = Sent /\ Answered' = Answered
    BY <1>1 DEF Sent, Answered
  <2>2. WireIsTape' /\ RunsLikeRecorded'
    BY <1>1, <1>3, <2>1 DEF ReplayInv, Faithful, WireIsTape, RunsLikeRecorded
  <2>3. PICK j \in 0..Len(tape.inputs) : Holds(tape, j) /\ j = Answered
    BY <1>1, <1>3 DEF ReplayInv, Faithful, TapeHoldsVerdicts, CutAt
  <2>4. ASSUME clean', NEW i \in (j + 1)..Len(tape.inputs)
        PROVE  tape.inputs[i].topic \notin {"observation", "tick"}
    <3> DEFINE n == i - j
    <3>1. /\ Len(inbox) \in Nat /\ Len(tape.inputs) \in Nat /\ inbox \in Seq(Input)
          /\ Sent = Len(tape.inputs) /\ j = Sent - Len(inbox)
      BY <1>1, <2>3, ReplayFacts DEF ReplayInv, Sent, Answered
    <3>2. n \in 1..Len(inbox) /\ i = j + n
      <4> DEFINE a == Len(tape.inputs)
                 b == Len(inbox)
      <4>1. a \in Nat /\ b \in Nat /\ j = a - b /\ i \in (j + 1)..a /\ j \in 0..a
        BY <2>3, <2>4, <3>1
      <4> HIDE DEF a, b
      <4>2. i - j \in 1..b /\ i = j + (i - j)
        BY <4>1
      <4> QED
        BY <4>2 DEF b
    <3> HIDE DEF n
    <3>3. n \in DOMAIN inbox
      BY <3>1, <3>2
    <3>4. inbox[n] = tape.inputs[i]
      BY <1>1, <1>3, <2>3, <3>2, <3>3 DEF ReplayInv, Sides, Faithful, WireIsTape
    <3>5. inbox[n] \in ToSet(inbox)
      BY <3>3 DEF ToSet
    <3> QED
      BY <1>1, <2>4, <3>4, <3>5
  <2>5. Holds(tape', j) /\ CutAt(j)'
    BY <1>1, <2>3, <2>4 DEF Holds, CutAt
  <2>6. TapeHoldsVerdicts'
    BY <1>1, <2>5 DEF TapeHoldsVerdicts
  <2> QED
    BY <2>2, <2>6 DEF Faithful
<1> QED
  BY <1>2, <1>3

LEMMA StartKeeps ==
  ASSUME ReplayInv, StartReplay
  PROVE  Sides' /\ (inOrder => Faithful')
<1>1. /\ phase = "live" /\ ~taping /\ phase' = "play" /\ inbox' = <<>>
      /\ host' = "fresh" => monitor' = Fresh
      /\ UNCHANGED <<inOrder, tape, taping, clean, at, replayed>>
  BY DEF StartReplay
<1>2. at = 0 /\ replayed = <<>> /\ Len(tape.inputs) \in Nat
  BY <1>1, ReplayFacts DEF ReplayInv, Sides
<1>3. Sides'
  BY <1>1, <1>2 DEF ReplayInv, Sides
<1>4. ASSUME inOrder PROVE Faithful'
  <2>1. Len(inbox') = 0 /\ DOMAIN inbox' = {} /\ Sent' = 0 /\ Answered' = 0
    <3>1. Len(inbox') = 0 /\ DOMAIN inbox' = {}
      BY <1>1
    <3>2. Sent' = 0
      BY <1>1, <1>2 DEF Sent
    <3> QED
      BY <3>1, <3>2 DEF Answered
  <2>2. WireIsTape'
    BY <2>1 DEF WireIsTape
  <2>3. RunOf(tape.inputs)[0] = Unmoved
    BY <1>2, RunInputByInput
  <2>4. RunsLikeRecorded'
    BY <1>1, <1>2, <2>1, <2>3 DEF RunsLikeRecorded, Unmoved
  <2>5. TapeHoldsVerdicts'
    BY <1>1, <1>4 DEF ReplayInv, Faithful, TapeHoldsVerdicts, Holds, CutAt
  <2> QED
    BY <2>2, <2>4, <2>5 DEF Faithful
<1> QED
  BY <1>3, <1>4

\* The player sends the tape's next input.
LEMMA PlayKeeps ==
  ASSUME ReplayInv, PlayFrame
  PROVE  Sides' /\ (inOrder => Faithful')
<1> DEFINE f == tape.inputs[at + 1]
<1>1. /\ phase = "play" /\ at < Len(tape.inputs) /\ at' = at + 1
      /\ inbox' = IF host = "down" THEN inbox ELSE Append(inbox, f)
      /\ UNCHANGED <<phase, inOrder, monitor, tape, taping, clean, host, replayed>>
  BY DEF PlayFrame, Played
<1>2. /\ tape.inputs \in Seq(Input) /\ Len(tape.inputs) \in Nat
      /\ inbox \in Seq(Input) /\ Len(inbox) \in Nat /\ at \in Nat
  BY ReplayFacts DEF ReplayInv
<1>3. Sides'
  BY <1>1, <1>2 DEF ReplayInv, Sides
<1>4. Sent = at /\ Sent' = at + 1 /\ ~taping
  BY <1>1 DEF Sent, ReplayInv, Sides
<1>5. TapeHoldsVerdicts' <=> TapeHoldsVerdicts
  BY <1>1, <1>4 DEF TapeHoldsVerdicts, Holds, CutAt
<1>6. CASE host = "down"
  BY <1>1, <1>3, <1>5, <1>6 DEF ReplayInv, Faithful, WireIsTape, RunsLikeRecorded
<1>7. ASSUME host # "down", inOrder PROVE Faithful'
  <2> DEFINE k == Answered
  <2> HIDE DEF f
  <2>1. /\ Len(inbox) <= at
        /\ \A i \in DOMAIN inbox : inbox[i] = tape.inputs[k + i]
    BY <1>4, <1>7 DEF ReplayInv, Faithful, WireIsTape
  <2>2. /\ Len(inbox') = Len(inbox) + 1 /\ DOMAIN inbox' = 1..(Len(inbox) + 1)
        /\ \A i \in 1..Len(inbox) : inbox'[i] = inbox[i]
        /\ inbox'[Len(inbox) + 1] = f
    <3>1. f \in Input
      BY <1>1, <1>2 DEF f
    <3> QED
      BY <1>1, <1>2, <1>7, <3>1
  <2>3. k = at - Len(inbox) /\ Answered' = k /\ k \in Nat
    BY <1>2, <1>4, <2>1, <2>2 DEF Answered
  <2> HIDE DEF k
  <2>4. WireIsTape'
    <3>1. ASSUME NEW i \in DOMAIN inbox' PROVE inbox'[i] = tape.inputs[k + i]
      <4>1. CASE i \in 1..Len(inbox)
        BY <1>2, <2>1, <2>2, <4>1
      <4>2. CASE i = Len(inbox) + 1
        <5>1. k + i = at + 1
          BY <1>2, <2>3, <4>2
        <5> QED
          BY <2>2, <4>2, <5>1 DEF f
      <4> QED
        BY <1>2, <2>2, <4>1, <4>2
    <3>2. Len(inbox') <= Sent'
      BY <1>2, <1>4, <2>1, <2>2
    <3> QED
      BY <1>1, <2>3, <3>1, <3>2 DEF WireIsTape
  <2>5. RunsLikeRecorded'
    BY <1>1, <1>7, <2>3 DEF ReplayInv, Faithful, RunsLikeRecorded, k
  <2> QED
    BY <1>5, <1>7, <2>4, <2>5 DEF ReplayInv, Faithful
<1> QED
  BY <1>1, <1>3, <1>6, <1>7 DEF ReplayInv

LEMMA ReplayInit == Init => ReplayInv
<1> SUFFICES ASSUME Init PROVE ReplayInv
  OBVIOUS
<1>1. Typed
  BY InitTyped
<1>2. /\ phase = "live" /\ tape = [inputs |-> <<>>, verdicts |-> <<>>] /\ inbox = <<>>
      /\ taping = TRUE /\ host = "fresh" /\ at = 0 /\ replayed = <<>> /\ monitor = Fresh
  BY DEF Init
<1>3. tape.inputs = <<>> /\ tape.verdicts = <<>> /\ Len(tape.inputs) = 0 /\ Len(inbox) = 0
      /\ DOMAIN inbox = {}
  BY <1>2
<1>4. Sent = 0 /\ Answered = 0
  BY <1>2, <1>3 DEF Sent, Answered
<1>5. RunOf(tape.inputs)[0] = Unmoved
  BY <1>3, RunInputByInput
<1>6. Sides /\ WireIsTape
  BY <1>2, <1>3, <1>4 DEF Sides, WireIsTape
<1>7. RunsLikeRecorded
  BY <1>2, <1>4, <1>5 DEF RunsLikeRecorded, Unmoved
<1>8. TapeHoldsVerdicts
  <2>1. Holds(tape, 0) /\ CutAt(0)
    BY <1>2, <1>3, <1>4, <1>5 DEF Holds, CutAt, Unmoved
  <2>2. 0 \in 0..Len(tape.inputs)
    BY <1>3
  <2> QED
    BY <2>1, <2>2 DEF TapeHoldsVerdicts
<1> QED
  BY <1>1, <1>6, <1>7, <1>8 DEF ReplayInv, Faithful

LEMMA ReplayNext == ReplayInv /\ [Next]_vars => ReplayInv'
<1> SUFFICES ASSUME ReplayInv, [Next]_vars PROVE ReplayInv'
  OBVIOUS
<1>1. Typed'
  BY NextTyped DEF ReplayInv
<1> DEFINE Kept == Sides' /\ (inOrder => Faithful') /\ inOrder' = inOrder
<1>2. ASSUME Handle PROVE Kept
  <2>1. Sides'
    <3>1. UNCHANGED <<phase, host, taping, at>> /\ tape'.inputs = tape.inputs
      BY <1>2 DEF Handle, TapedVerdict, ReplayInv, Typed, IsTape
    <3>2. phase = "live" => replayed' = replayed
      BY <1>2 DEF Handle
    <3>3. phase # "done"
      BY <1>2 DEF Handle, ReplayInv, Sides
    <3> QED
      BY <3>1, <3>2, <3>3 DEF ReplayInv, Sides
  <2> QED
    BY <1>2, <2>1, HandleFaithful DEF Handle
<1>3. ASSUME Pulse \/ Observe \/ Operate PROVE Kept
  <2>1. PICK f \in Input : Publish(f)
    <3>1. Typed
      BY DEF ReplayInv
    <3> QED
      BY <1>3, <3>1, FramesAreInputs DEF Pulse, Observe, Operate
  <2> QED
    BY <2>1, PublishKeeps DEF Publish
<1>4. ASSUME StopRecording PROVE Kept
  BY <1>4, StopKeeps DEF StopRecording
<1>5. ASSUME StartReplay PROVE Kept
  BY <1>5, StartKeeps DEF StartReplay
<1>6. ASSUME PlayFrame PROVE Kept
  BY <1>6, PlayKeeps DEF PlayFrame, Played
<1>7. ASSUME RestartClock \/ MoveOn \/ UNCHANGED vars PROVE Kept
  <2>1. UNCHANGED <<phase, inOrder, monitor, inbox, tape, taping, clean, host, at, replayed>>
    BY <1>7 DEF RestartClock, MoveOn, vars, player
  <2>2. UNCHANGED <<Sent, Answered>>
    BY <2>1 DEF Sent, Answered
  <2> QED
    BY <2>1, <2>2 DEF ReplayInv, Sides, Faithful, WireIsTape, RunsLikeRecorded,
                      TapeHoldsVerdicts, Holds, CutAt
<1>8. ASSUME Finish PROVE Kept
  <2>1. /\ phase = "play" /\ phase' = "done" /\ at = Len(tape.inputs) /\ inbox = <<>>
        /\ UNCHANGED <<inOrder, monitor, inbox, tape, taping, clean, host, at, replayed>>
    BY <1>8 DEF Finish, Silent, player
  <2>2. UNCHANGED <<Sent, Answered>>
    BY <2>1 DEF Sent, Answered
  <2> QED
    BY <2>1, <2>2 DEF ReplayInv, Sides, Faithful, WireIsTape, RunsLikeRecorded,
                      TapeHoldsVerdicts, Holds, CutAt
<1>9. Kept
  BY <1>2, <1>3, <1>4, <1>5, <1>6, <1>7, <1>8 DEF Next
<1> QED
  BY <1>1, <1>9 DEF ReplayInv

\* A replay in order on a monitor started like the recorded one answers every
\* recorded tick, and unless the recording was cut between an observation or a
\* tick and its verdict, with the recorded verdicts and no other, stalls included.
THEOREM ReplayAlwaysAgrees == Spec => []ReplayAgrees
<1>1. ReplayInv => ReplayAgrees
  <2> SUFFICES ASSUME ReplayInv, phase = "done", inOrder, host = "fresh"
               PROVE  Missing = {} /\ (clean => Equal)
    BY DEF ReplayAgrees
  <2> DEFINE inputs == tape.inputs
             run == RunOf(inputs)
  <2>1. /\ at = Len(inputs) /\ inbox = <<>> /\ ~taping /\ Len(inputs) \in Nat
    BY ReplayFacts DEF ReplayInv, Sides
  <2>2. Answered = Len(inputs)
    BY <2>1 DEF Answered, Sent
  <2>3. replayed = run[Len(inputs)].verdicts
    BY <2>2 DEF ReplayInv, Faithful, RunsLikeRecorded
  <2>4. PICK j \in 0..Len(inputs) :
          /\ tape.verdicts = run[j].verdicts
          /\ clean => \A i \in (j + 1)..Len(inputs) : inputs[i].topic \notin {"observation", "tick"}
    BY <2>1 DEF ReplayInv, Faithful, TapeHoldsVerdicts, Holds, CutAt
  <2>5. run = RunOf(inputs)
    OBVIOUS
  <2> HIDE DEF run, inputs
  <2>6. /\ DOMAIN tape.verdicts \subseteq DOMAIN replayed
        /\ clean => tape.verdicts = replayed
    BY <2>1, <2>3, <2>4, <2>5, RunGrows
  <2> QED
    BY <2>6 DEF Missing, Extra, Differed, Equal
<1>2. Spec => []ReplayInv
  BY ReplayInit, ReplayNext, PTL DEF Spec
<1> QED
  BY <1>1, <1>2, PTL
=============================================================================
