------------------------- MODULE PhaseMachineProofs -------------------------
(***************************************************************************)
(* What PhaseMachine shows on two phases and a budget of three ticks, for  *)
(* any phases, failure modes and sources; and, of LegacyLoop, the loop     *)
(* that its grades travel on, the safety property, for any specs and       *)
(* bounds.                                                                 *)
(***************************************************************************)
EXTENDS PhaseMachine, LegacyLoop, WellFoundedInduction, TLAPS

-----------------------------------------------------------------------------
(* The outcomes of a tick spent in phase i with s steps counted and x      *)
(* misses, one operator per way the tick can go.                           *)

WithinBudget(i, s) == Phase(i).max # None => s <= Phase(i).max

Stayed(i, s, x, o, m) ==
  /\ m.idx = i /\ m.kind = None /\ m.steps = s + 1 /\ WithinBudget(i, s + 1)
  /\ m.misses = (IF Breaks(o, i, "progress") THEN x + 1 ELSE 0)
  /\ m.misses < Phase(i).limit

Faulted(i, s, x, m) ==
  m.idx = i /\ m.kind \in {"invariant", "timeout"} /\ m.steps = s /\ m.misses = x

Stalled(i, s, x, o, m) ==
  /\ m.idx = i /\ m.kind = "progress" /\ m.steps = s
  /\ m.misses = x + 1 /\ m.misses = Phase(i).limit /\ Breaks(o, i, "progress")

Moved(i, s, m) ==
  /\ m.idx = i + 1 /\ m.idx \in PhaseIdx /\ m.misses = 0 /\ s >= Phase(i).min
  /\ \/ m.kind = None /\ m.steps = 1
     \/ m.kind = "precondition" /\ m.steps = 0

Completed(i, s, m) ==
  /\ i + 1 = N /\ m.idx = -1 /\ m.kind = None /\ m.steps = 0 /\ m.misses \in Nat
  /\ s >= Phase(i).min

\* The parts of a phase have the types the assumption gives them.
LEMMA PhaseType ==
  ASSUME NEW i \in PhaseIdx
  PROVE  /\ Phase(i).min \in Nat /\ Phase(i).limit \in Nat \ {0}
         /\ Phase(i).max \in Nat \cup {None}
         /\ Phase(i).max # None => Phase(i).max > 0
         /\ i \in Nat
<1>1. Phases[i + 1] \in PhaseSpec
  <2>1. i + 1 \in 1..Len(Phases)
    BY PhaseAssumption DEF PhaseIdx, N
  <2> QED
    BY <2>1, PhaseAssumption
<1> QED
  BY <1>1, PhaseAssumption DEF Phase, PhaseSpec, PhaseIdx, N

\* None is no kind of fault and no number of steps.
LEMMA NoneApart ==
  None \notin Kinds /\ None \notin PhaseFault /\ None \notin Int /\ N \in Nat \ {0}
BY PhaseAssumption, GradingAssumption DEF N

\* A tick in a phase goes one of the five ways (_update_phase_state).
LEMMA InPhaseOutcome ==
  ASSUME NEW i \in PhaseIdx, NEW s \in Nat, NEW x \in Nat,
         x < Phase(i).limit, WithinBudget(i, s),
         NEW o, NEW m \in InPhase(Outcome(i, s, x, None), o)
  PROVE  \/ Stayed(i, s, x, o, m) \/ Faulted(i, s, x, m) \/ Stalled(i, s, x, o, m)
         \/ Moved(i, s, m) \/ Completed(i, s, m)
<1> DEFINE here  == Outcome(i, s, x, None)
           noted == NoteProgress(here, ~Breaks(o, i, "progress"))
           y     == IF Breaks(o, i, "progress") THEN x + 1 ELSE 0
<1>1. here.idx = i /\ here.steps = s /\ here.misses = x /\ here.kind = None
  BY DEF Outcome
<1>2. noted = Outcome(i, s, y, None) /\ y \in Nat
  BY DEF NoteProgress, Outcome
<1>3. CASE Breaks(o, i, "invariant")
  <2>1. m = [here EXCEPT !.kind = "invariant"]
    BY <1>1, <1>3 DEF InPhase
  <2> QED
    BY <2>1 DEF Faulted, Outcome
<1>4. CASE ~Breaks(o, i, "invariant") /\ TimedOut(here)
  <2>1. m = [here EXCEPT !.kind = "timeout"]
    BY <1>1, <1>4 DEF InPhase
  <2> QED
    BY <2>1 DEF Faulted, Outcome
<1>5. CASE ~Breaks(o, i, "invariant") /\ ~TimedOut(here)
  <2>1. m \in IF noted.misses > 0 /\ noted.misses >= Phase(i).limit
              THEN {[noted EXCEPT !.kind = "progress"]} ELSE StayOrExit(noted, o)
    BY <1>1, <1>5 DEF InPhase
  <2>2. noted.idx = i /\ noted.steps = s /\ noted.misses = y /\ noted.kind = None
    BY <1>2 DEF Outcome
  <2>3. CASE y > 0 /\ y >= Phase(i).limit
    <3>1. m = [noted EXCEPT !.kind = "progress"]
      BY <2>1, <2>2, <2>3
    <3>2. m = Outcome(i, s, y, "progress")
      BY <3>1, <1>2 DEF Outcome
    <3>3. Breaks(o, i, "progress") /\ y = x + 1
      BY <2>3
    <3>4. y = Phase(i).limit
      BY <2>3, <3>3, PhaseType
    <3> QED
      BY <3>2, <3>3, <3>4 DEF Stalled, Outcome
  <2>4. CASE ~(y > 0 /\ y >= Phase(i).limit)
    <3>1. m \in {Counted(noted)} \cup Exits(noted, o)
      BY <2>1, <2>2, <2>4 DEF StayOrExit
    <3>2. y < Phase(i).limit
      BY <1>2, <2>4, PhaseType
    <3>3. WithinBudget(i, s + 1)
      BY <1>1, <1>5, PhaseType, NoneApart DEF TimedOut, WithinBudget
    <3>4. CASE m = Counted(noted)
      <4>1. m = Outcome(i, s + 1, y, None)
        BY <3>4, <1>2 DEF Counted, Outcome
      <4> QED
        BY <4>1, <3>2, <3>3 DEF Stayed, Outcome
    <3>5. CASE m \in Exits(noted, o)
      <4>1. s >= Phase(i).min
        BY <3>5, <2>2, PhaseType DEF Exits
      <4>2. CASE HasNext(i)
        <5>1. m = Counted(EnterPhase(i + 1, o))
          BY <3>5, <2>2, <4>1, <4>2, PhaseType DEF Exits
        <5>2. m = Outcome(i + 1, 1, 0, None) \/ m = Outcome(i + 1, 0, 0, "precondition")
          BY <5>1, NoneApart DEF Counted, EnterPhase, Outcome, Kinds, Conditions
        <5>3. i + 1 \in PhaseIdx
          BY <4>2, PhaseType, NoneApart DEF HasNext, PhaseIdx
        <5> QED
          BY <5>2, <5>3, <4>1 DEF Moved, Outcome
      <4>3. CASE ~HasNext(i)
        <5>1. m = Outcome(-1, 0, y, None)
          BY <3>5, <2>2, <4>1, <4>3, PhaseType DEF Exits
        <5>2. i + 1 = N
          BY <4>3, PhaseType, NoneApart DEF HasNext, PhaseIdx
        <5> QED
          BY <5>1, <5>2, <4>1, <1>2 DEF Completed, Outcome
      <4> QED
        BY <4>2, <4>3
    <3> QED
      BY <3>1, <3>4, <3>5
  <2> QED
    BY <2>3, <2>4
<1> QED
  BY <1>3, <1>4, <1>5

\* The same five ways from phase i, s and x.
InPhaseWay(i, s, x, o, m) ==
  \/ Stayed(i, s, x, o, m) \/ Faulted(i, s, x, m) \/ Stalled(i, s, x, o, m)
  \/ Moved(i, s, m) \/ Completed(i, s, m)

\* From no phase there are two more: it is not entered, or it is refused.
Way(o, m) ==
  \/ idx >= 0 /\ InPhaseWay(idx, steps, misses, o, m)
  \/ /\ idx < 0
     /\ \/ m = Outcome(-1, steps, misses, None)
        \/ m = Outcome(0, 0, 0, "precondition")
        \/ InPhaseWay(0, 0, 0, o, m)

\* What a phase the machine may step in has yet to lose.
NotExhausted ==
  idx >= 0 => WithinBudget(idx, steps) /\ misses < Phase(idx).limit

\* One call of _update_phase_state goes one of these ways.
LEMMA TickOutcome ==
  ASSUME TypeOK, NotExhausted, NEW o, NEW m \in UpdatePhaseState(o)
  PROVE  Way(o, m)
<1>1. CASE idx >= 0
  <2>1. m \in InPhase(Outcome(idx, steps, misses, None), o) /\ idx \in PhaseIdx
    BY <1>1, PhaseAssumption DEF UpdatePhaseState, TypeOK
  <2> QED
    BY <1>1, <2>1, InPhaseOutcome DEF NotExhausted, TypeOK, Way, InPhaseWay
<1>2. CASE idx < 0
  <2>1. idx = -1 /\ 0 \in PhaseIdx
    BY <1>2, NoneApart DEF TypeOK, PhaseIdx
  <2>2. \/ m = Outcome(idx, steps, misses, None)
        \/ m = EnterPhase(0, o) /\ EnterPhase(0, o).kind # None
        \/ m \in InPhase(EnterPhase(0, o), o) /\ EnterPhase(0, o).kind = None
    BY <1>2, <2>1 DEF UpdatePhaseState
  <2>3. EnterPhase(0, o) \in {Outcome(0, 0, 0, None), Outcome(0, 0, 0, "precondition")}
    BY DEF EnterPhase
  <2>4. "precondition" # None
    BY NoneApart DEF Kinds, Conditions
  <2>5. CASE m \in InPhase(Outcome(0, 0, 0, None), o)
    <3>1. WithinBudget(0, 0) /\ 0 < Phase(0).limit
      BY <2>1, PhaseType DEF WithinBudget
    <3>2. InPhaseWay(0, 0, 0, o, m)
      BY <2>1, <2>5, <3>1, InPhaseOutcome DEF InPhaseWay
    <3> QED
      BY <1>2, <3>2 DEF Way
  <2>6. Outcome(0, 0, 0, "precondition").kind = "precondition" /\ Outcome(0, 0, 0, None).kind = None
    BY DEF Outcome
  <2> QED
    BY <1>2, <2>1, <2>2, <2>3, <2>4, <2>5, <2>6 DEF Way
<1> QED
  BY <1>1, <1>2 DEF TypeOK, PhaseIdx

-----------------------------------------------------------------------------
(* The invariant: the counters against the history.                        *)

\* The miss counter is the row of misses, below the limit while a run goes on.
CountersOK ==
  /\ PhaseClock
  /\ idx >= 0 => misses = missing
  /\ idx >= 0 /\ ended = "no" => misses < Phase(idx).limit
  /\ ProgressFaultEarned

MachineInv == TypeOK /\ CountersOK

\* Every rung the ladder names is one of its six.
LEMMA GradeType ==
  /\ \A row : GradeBreach(row) \in Action
  /\ \A t, f, n, sure : GradeRisk(t, f, n, sure) \in Action
<1>1. \A c, k, sure : GradeAction(c, k, sure) \in Action
  BY DEF GradeAction, Action, CONTINUE, WARN, SLOW, REPLAN, HALT, ABORT
<1> QED
  BY <1>1 DEF GradeBreach, GradeRisk, Action, CONTINUE, ABORT

\* A step changes the machine in one of the ways, and the rest as _advance does.
LEMMA StepOutcome ==
  ASSUME MachineInv, Step
  PROVE  \E m : /\ Way(obs', m)
                /\ idx' = m.idx /\ steps' = m.steps /\ misses' = m.misses
                /\ fault' = IF m.kind = None THEN None ELSE [phase |-> m.idx, kind |-> m.kind]
                /\ Advance(violated', fault', obs')
                /\ token' = Intervention(m, violated', fault', obs')
<1>1. NotExhausted
  BY DEF MachineInv, CountersOK, PhaseClock, NotExhausted, WithinBudget, Step
<1>2. PICK m \in UpdatePhaseState(obs') :
        /\ idx' = m.idx /\ steps' = m.steps /\ misses' = m.misses
        /\ fault' = IF m.kind = None THEN None ELSE [phase |-> m.idx, kind |-> m.kind]
        /\ Advance(violated', fault', obs')
        /\ token' = Intervention(m, violated', fault', obs')
  BY DEF Step
<1>3. Way(obs', m)
  BY <1>1, <1>2, TickOutcome DEF MachineInv
<1> QED
  BY <1>2, <1>3

\* Whichever way the tick goes, the machine keeps its types.
LEMMA WayType ==
  ASSUME TypeOK, NEW o, NEW m, Way(o, m)
  PROVE  /\ m.idx \in PhaseIdx \cup {-1} /\ m.steps \in Nat /\ m.misses \in Nat
         /\ m.kind \in Kinds \cup {None} /\ (m.kind # None => m.idx \in PhaseIdx)
<1>1. ASSUME NEW i \in PhaseIdx, NEW s \in Nat, NEW x \in Nat, InPhaseWay(i, s, x, o, m)
      PROVE  /\ m.idx \in PhaseIdx \cup {-1} /\ m.steps \in Nat /\ m.misses \in Nat
             /\ m.kind \in Kinds \cup {None} /\ (m.kind # None => m.idx \in PhaseIdx)
  <2>1. CASE Stayed(i, s, x, o, m)
    BY <2>1 DEF Stayed
  <2>2. CASE Faulted(i, s, x, m)
    BY <2>2 DEF Faulted, Kinds, Conditions
  <2>3. CASE Stalled(i, s, x, o, m)
    BY <2>3 DEF Stalled, Kinds, Conditions
  <2>4. CASE Moved(i, s, m)
    BY <2>4 DEF Moved, Kinds, Conditions
  <2>5. CASE Completed(i, s, m)
    BY <2>5 DEF Completed
  <2> QED
    BY <1>1, <2>1, <2>2, <2>3, <2>4, <2>5 DEF InPhaseWay
<1>2. CASE idx >= 0
  BY <1>1, <1>2 DEF Way, TypeOK, PhaseIdx
<1>3. CASE idx < 0 /\ m = Outcome(-1, steps, misses, None)
  BY <1>3 DEF Outcome, TypeOK
<1>4. 0 \in PhaseIdx
  BY NoneApart DEF PhaseIdx
<1>5. CASE idx < 0 /\ m = Outcome(0, 0, 0, "precondition")
  BY <1>4, <1>5 DEF Outcome, Kinds, Conditions
<1>6. CASE idx < 0 /\ InPhaseWay(0, 0, 0, o, m)
  BY <1>1, <1>4, <1>6
<1> QED
  BY <1>2, <1>3, <1>5, <1>6 DEF Way

\* A step keeps the types.
LEMMA StepType ==
  ASSUME MachineInv, Step
  PROVE  TypeOK'
<1>1. PICK m : /\ Way(obs', m)
               /\ idx' = m.idx /\ steps' = m.steps /\ misses' = m.misses
               /\ fault' = IF m.kind = None THEN None ELSE [phase |-> m.idx, kind |-> m.kind]
               /\ Advance(violated', fault', obs')
               /\ token' = Intervention(m, violated', fault', obs')
  BY StepOutcome
<1>2. /\ idx' \in PhaseIdx \cup {-1} /\ steps' \in Nat /\ misses' \in Nat
      /\ fault' \in PhaseFault \cup {None}
  BY <1>1, WayType DEF MachineInv, PhaseFault
<1>3. violated' \subseteq DOMAIN Modes /\ obs' \in Observation
  BY DEF Step
<1>4. ended' \in {"no", "idle", "halted"}
  BY <1>1 DEF Advance
<1>5. token' \in Action \cup {None}
  BY <1>1, GradeType DEF Intervention
<1>6. elapsed' \in Nat /\ faulted' \in Nat /\ missing' \in Nat
  BY DEF Step, NoteHistory, MachineInv, TypeOK
<1> QED
  BY <1>2, <1>3, <1>4, <1>5, <1>6 DEF TypeOK

\* A progress fault always ends the run.
LEMMA ProgressEnds ==
  ASSUME NEW f, NEW v, NEW o, f # None, f.kind = "progress", Advance(v, f, o)
  PROVE  ended' # "no"
BY DEF Advance

\* A step keeps the counters true to the history.
LEMMA StepCounters ==
  ASSUME MachineInv, Step
  PROVE  CountersOK'
<1>1. PICK m : /\ Way(obs', m)
               /\ idx' = m.idx /\ steps' = m.steps /\ misses' = m.misses
               /\ fault' = IF m.kind = None THEN None ELSE [phase |-> m.idx, kind |-> m.kind]
               /\ Advance(violated', fault', obs')
               /\ token' = Intervention(m, violated', fault', obs')
  BY StepOutcome
<1> DEFINE Kept(i, e, q, g) ==    \* after a tick in i of e ticks, q faulty, g misses
             /\ idx' = i => /\ elapsed' = e + 1
                            /\ faulted' = q + (IF fault' = None THEN 0 ELSE 1)
             /\ idx' # i /\ idx' >= 0 =>
                  elapsed' = 1 /\ faulted' = (IF fault' = None THEN 0 ELSE 1) /\ missing' = 0
             /\ idx' = i /\ fault' # None /\ fault'.kind # "progress" => missing' = g
             /\ idx' = i /\ ~(fault' # None /\ fault'.kind # "progress") =>
                  missing' = IF Breaks(obs', i, "progress") THEN g + 1 ELSE 0
<1>2. /\ idx \in PhaseIdx \cup {-1} /\ steps \in Nat /\ misses \in Nat
      /\ elapsed \in Nat /\ faulted \in Nat /\ missing \in Nat /\ ended = "no"
      /\ 0 \in PhaseIdx /\ PhaseIdx \subseteq Nat
  BY NoneApart DEF MachineInv, TypeOK, Step, PhaseIdx
<1>a. NoteHistory /\ idx' \in PhaseIdx \cup {-1}
  BY <1>1, WayType DEF Step, MachineInv
<1>3. ASSUME idx >= 0 PROVE Kept(idx, elapsed, faulted, missing)
  <2>1. CASE idx' = idx
    BY <1>2, <1>3, <1>a, <2>1 DEF NoteHistory, Judged
  <2>2. CASE idx' # idx
    BY <1>2, <1>3, <1>a, <2>2 DEF NoteHistory, Judged
  <2> QED
    BY <2>1, <2>2
<1>4. ASSUME idx < 0 PROVE Kept(0, 0, 0, 0)
  <2>1. CASE idx' = 0
    BY <1>2, <1>4, <1>a, <2>1 DEF NoteHistory, Judged
  <2>2. CASE idx' # 0
    BY <1>2, <1>4, <1>a, <2>2 DEF NoteHistory, Judged
  <2> QED
    BY <2>1, <2>2
<1>5. ASSUME NEW i \in PhaseIdx, NEW s \in Nat, NEW x \in Nat, InPhaseWay(i, s, x, obs', m),
             NEW e \in Nat, NEW q \in Nat, Kept(i, e, q, x),
             s = e - q, WithinBudget(i, s), x < Phase(i).limit
      PROVE  CountersOK'
  <2> HIDE DEF Kept
  <2>0. /\ i \in Nat /\ Phase(i).limit \in Nat \ {0} /\ None \notin Kinds
        /\ \A k \in Kinds : k # None
    BY PhaseType, NoneApart
  <2>1. CASE Stayed(i, s, x, obs', m)
    <3>1. idx' = i /\ fault' = None /\ steps' = s + 1 /\ WithinBudget(i, steps')
      BY <1>1, <2>1 DEF Stayed
    <3>2. elapsed' = e + 1 /\ faulted' = q /\ missing' = misses'
      BY <1>1, <1>5, <2>1, <3>1 DEF Kept, Stayed
    <3>3. misses' < Phase(i).limit
      BY <1>1, <2>1 DEF Stayed
    <3> QED
      BY <1>5, <3>1, <3>2, <3>3 DEF CountersOK, PhaseClock, ProgressFaultEarned, WithinBudget
  <2>2. CASE Faulted(i, s, x, m)
    <3>1. /\ idx' = i /\ fault' # None /\ fault'.kind \in {"invariant", "timeout"}
          /\ steps' = s /\ misses' = x
      BY <1>1, <2>2, NoneApart DEF Faulted, Kinds, Conditions, PhaseFault
    <3>2. elapsed' = e + 1 /\ faulted' = q + 1 /\ missing' = x
      BY <1>5, <3>1 DEF Kept
    <3> QED
      BY <1>5, <3>1, <3>2 DEF CountersOK, PhaseClock, ProgressFaultEarned, WithinBudget
  <2>3. CASE Stalled(i, s, x, obs', m)
    <3>1. /\ idx' = i /\ fault' # None /\ fault'.kind = "progress" /\ fault'.phase = i
          /\ steps' = s /\ misses' = x + 1 /\ misses' = Phase(i).limit
          /\ Breaks(obs', i, "progress")
      BY <1>1, <2>3, NoneApart DEF Stalled, Kinds, Conditions, PhaseFault
    <3>2. elapsed' = e + 1 /\ faulted' = q + 1 /\ missing' = x + 1
      BY <1>5, <3>1 DEF Kept
    <3>3. ended' # "no"
      BY <1>1, <3>1, ProgressEnds
    <3> QED
      BY <1>5, <3>1, <3>2, <3>3 DEF CountersOK, PhaseClock, ProgressFaultEarned, WithinBudget
  <2>4. CASE Moved(i, s, m)
    <3>1. idx' = i + 1 /\ idx' \in PhaseIdx /\ misses' = 0
      BY <1>1, <2>4 DEF Moved
    <3>2. \/ fault' = None /\ steps' = 1
          \/ fault' # None /\ fault'.kind = "precondition" /\ steps' = 0
      BY <1>1, <2>4, NoneApart DEF Moved, Kinds, Conditions, PhaseFault
    <3>3. elapsed' = 1 /\ faulted' = (IF fault' = None THEN 0 ELSE 1) /\ missing' = 0
      BY <1>5, <2>0, <3>1 DEF Kept
    <3>4. Phase(idx').limit > 0 /\ WithinBudget(idx', 0) /\ WithinBudget(idx', 1)
      BY <3>1, PhaseType DEF WithinBudget
    <3> QED
      BY <3>1, <3>2, <3>3, <3>4 DEF CountersOK, PhaseClock, ProgressFaultEarned, WithinBudget
  <2>5. CASE Completed(i, s, m)
    <3>1. idx' = -1 /\ fault' = None
      BY <1>1, <2>5 DEF Completed
    <3> QED
      BY <3>1 DEF CountersOK, PhaseClock, ProgressFaultEarned
  <2> QED
    BY <1>5, <2>1, <2>2, <2>3, <2>4, <2>5 DEF InPhaseWay
<1>6. CASE idx >= 0
  <2>1. /\ steps = elapsed - faulted /\ WithinBudget(idx, steps) /\ misses = missing
        /\ misses < Phase(idx).limit
    BY <1>2, <1>6 DEF MachineInv, CountersOK, PhaseClock, WithinBudget
  <2>2. InPhaseWay(idx, steps, misses, obs', m) /\ idx \in PhaseIdx
    BY <1>1, <1>2, <1>6 DEF Way
  <2>3. Kept(idx, elapsed, faulted, misses)
    BY <1>3, <1>6, <2>1
  <2> QED
    BY <1>2, <1>5, <2>1, <2>2, <2>3
<1>7. CASE idx < 0 /\ InPhaseWay(0, 0, 0, obs', m)
  <2>1. WithinBudget(0, 0) /\ 0 < Phase(0).limit
    BY <1>2, PhaseType DEF WithinBudget
  <2> QED
    BY <1>2, <1>4, <1>5, <1>7, <2>1
<1>8. CASE idx < 0 /\ m = Outcome(-1, steps, misses, None)
  <2>1. idx' = -1 /\ fault' = None
    BY <1>1, <1>8 DEF Outcome
  <2> QED
    BY <2>1 DEF CountersOK, PhaseClock, ProgressFaultEarned
<1>9. CASE idx < 0 /\ m = Outcome(0, 0, 0, "precondition")
  <2>1. /\ idx' = 0 /\ steps' = 0 /\ misses' = 0 /\ fault' # None
        /\ fault'.kind = "precondition"
    BY <1>1, <1>2, <1>9, NoneApart DEF Outcome, Kinds, Conditions, PhaseFault
  <2>2. elapsed' = 1 /\ faulted' = 1 /\ missing' = 0
    BY <1>4, <1>9, <2>1
  <2>3. Phase(0).limit > 0 /\ WithinBudget(0, 0)
    BY <1>2, PhaseType DEF WithinBudget
  <2> QED
    BY <2>1, <2>2, <2>3 DEF CountersOK, PhaseClock, ProgressFaultEarned, WithinBudget
<1> QED
  BY <1>1, <1>2, <1>6, <1>7, <1>8, <1>9 DEF Way

-----------------------------------------------------------------------------
(* The theorems.                                                           *)

\* The invariant holds of every behaviour.
LEMMA MachineInvariant == Spec => []MachineInv
<1>1. Init => MachineInv
  <2> SUFFICES ASSUME Init PROVE MachineInv
    OBVIOUS
  <2>1. TypeOK
    BY DEF Init, TypeOK, Observation
  <2>2. CountersOK
    BY DEF Init, CountersOK, PhaseClock, ProgressFaultEarned
  <2> QED
    BY <2>1, <2>2 DEF MachineInv
<1>2. MachineInv /\ [Next]_vars => MachineInv'
  <2> SUFFICES ASSUME MachineInv, [Next]_vars PROVE MachineInv'
    OBVIOUS
  <2>1. CASE Step
    BY <2>1, StepType, StepCounters DEF MachineInv
  <2>2. CASE ResetForNewSkill
    <3>1. TypeOK'
      BY <2>2 DEF ResetForNewSkill, MachineInv, TypeOK
    <3>2. CountersOK'
      BY <2>2 DEF ResetForNewSkill, CountersOK, PhaseClock, ProgressFaultEarned
    <3> QED
      BY <3>1, <3>2 DEF MachineInv
  <2>3. CASE UNCHANGED vars
    BY <2>3 DEF vars, machine, MachineInv, TypeOK, CountersOK, PhaseClock, ProgressFaultEarned
  <2> QED
    BY <2>1, <2>2, <2>3 DEF Next
<1> QED
  BY <1>1, <1>2, PTL DEF Spec

\* The machine, its verdict and its history keep their types.
THEOREM TypeCorrect == Spec => []TypeOK
BY MachineInvariant, PTL DEF MachineInv

\* A phase's step counter counts the ticks of that phase that found no fault,
\* and stays within its budget.
THEOREM PhaseClockRight == Spec => []PhaseClock
BY MachineInvariant, PTL DEF MachineInv, CountersOK

\* A progress fault follows as many misses in a row, in its phase, as the limit.
THEOREM ProgressFaultIsEarned == Spec => []ProgressFaultEarned
BY MachineInvariant, PTL DEF MachineInv, CountersOK

\* The phases are taken in the order MonitorNode assumes, and none is left
\* before its min_steps.
THEOREM PhasesTakenInOrder == Spec => PhasesInOrder
<1> DEFINE Ordered ==
      Stepped => /\ idx' \in PhaseMoves(idx, N)
                 /\ idx >= 0 /\ idx' # idx => elapsed - faulted >= Phase(idx).min
<1>1. MachineInv /\ [Next]_vars => [Ordered]_vars
  <2> SUFFICES ASSUME MachineInv, Next PROVE Ordered
    OBVIOUS
  <2>1. CASE ResetForNewSkill
    BY <2>1 DEF ResetForNewSkill, Stepped
  <2>2. CASE Step
    <3>1. PICK m : Way(obs', m) /\ idx' = m.idx
      BY <2>2, StepOutcome
    <3>2. idx \in PhaseIdx \cup {-1} /\ N \in Nat \ {0} /\ 0 \in PhaseIdx
      BY NoneApart DEF MachineInv, TypeOK, PhaseIdx
    <3>3. ASSUME NEW i \in PhaseIdx, NEW s, NEW x, InPhaseWay(i, s, x, obs', m)
          PROVE  idx' \in Advances(i, N) /\ (idx' # i => s >= Phase(i).min)
      BY <3>1, <3>2, <3>3 DEF InPhaseWay, Stayed, Faulted, Stalled, Moved, Completed,
                              Advances, PhaseIdx
    <3>4. CASE idx >= 0
      <4>1. InPhaseWay(idx, steps, misses, obs', m) /\ idx \in PhaseIdx
        BY <3>1, <3>2, <3>4 DEF Way, PhaseIdx
      <4>2. steps = elapsed - faulted
        BY <3>4 DEF MachineInv, CountersOK, PhaseClock
      <4> QED
        BY <3>2, <3>3, <3>4, <4>1, <4>2 DEF PhaseMoves, PhaseIdx
    <3>5. CASE idx < 0
      <4>1. idx' \in {-1} \cup Advances(0, N)
        BY <3>1, <3>2, <3>3, <3>5 DEF Way, Outcome, Advances, PhaseIdx
      <4> QED
        BY <3>2, <3>5, <4>1 DEF PhaseMoves, PhaseIdx
    <3> QED
      BY <3>2, <3>4, <3>5 DEF PhaseIdx
  <2> QED
    BY <2>1, <2>2 DEF Next
<1> QED
  BY <1>1, MachineInvariant, PTL DEF Spec, PhasesInOrder

-----------------------------------------------------------------------------
(* Token and end of the run: both grade the worst of a list of breaches.   *)

\* A set of natural numbers has a least one.
LEMMA LeastNatural ==
  ASSUME NEW T, T \subseteq Nat, T # {}
  PROVE  \E x \in T : \A y \in T : x <= y
<1>1. PICK x \in T : \A y \in T : <<y, x>> \notin OpToRel(<, Nat)
  BY WFMin, NatLessThanWellFounded, Zenon
<1>2. \A y \in T : ~ (y < x)
  BY <1>1, Zenon DEF OpToRel
<1>3. x \in Nat /\ \A y \in T : y \in Nat
  BY <1>1
<1>4. ASSUME NEW y \in T PROVE x <= y
  <2>1. x \in Nat /\ y \in Nat /\ ~ (y < x)
    BY <1>2, <1>3
  <2> QED
    BY <2>1
<1> QED
  BY <1>4

\* A row of a known category: what its grade is, and when it stops the run.
LEMMA RowGrade ==
  ASSUME NEW row, row.category \in Categories, row.sure \in BOOLEAN
  PROVE  /\ GradeBreach(row) \in {WARN, REPLAN, ABORT}
         /\ FaultStopsTheRun(row) <=> GradeBreach(row) >= REPLAN
         /\ Proven(row) => GradeBreach(row) >= REPLAN
         /\ row.category = "PROGRESS" => GradeBreach(row) = REPLAN
<1>1. 0 <= WarnSteps /\ 0 # None
  BY GradingAssumption
<1>2. CASE row.category \in SafetyCategories
  <2>1. GradeBreach(row) = IF ~row.sure THEN WARN ELSE ABORT
    BY <1>1, <1>2 DEF GradeBreach, GradeAction, SafetyCategories, WARN, ABORT
  <2>2. GradeCertain(row) = ABORT
    BY <1>1, <1>2 DEF GradeCertain, GradeAction, SafetyCategories, ABORT
  <2>3. FaultStopsTheRun(row) <=> GradeBreach(row) >= HALT
    BY <2>2 DEF FaultStopsTheRun, HALT, ABORT
  <2>4. Proven(row) => row.sure
    BY <1>2 DEF Proven
  <2>5. CASE row.sure
    BY <1>2, <2>1, <2>3, <2>5 DEF SafetyCategories, WARN, REPLAN, HALT, ABORT
  <2>6. CASE ~row.sure
    BY <1>2, <2>1, <2>3, <2>4, <2>6 DEF SafetyCategories, WARN, REPLAN, HALT, ABORT
  <2> QED
    BY <2>5, <2>6
<1>3. CASE row.category \in {"TIMEOUT", "PROGRESS"}
  <2>1. GradeBreach(row) = REPLAN
    BY <1>1, <1>3 DEF GradeBreach, GradeAction, SafetyCategories, REPLAN
  <2>2. GradeCertain(row) = REPLAN
    BY <1>1, <1>3 DEF GradeCertain, GradeAction, SafetyCategories, REPLAN
  <2>3. FaultStopsTheRun(row)
    BY <2>2 DEF FaultStopsTheRun, REPLAN, HALT
  <2> QED
    BY <2>1, <2>3 DEF REPLAN
<1> QED
  BY <1>2, <1>3 DEF Categories

\* Rows with a breach each, at natural positions.
Rows(rows) ==
  /\ DOMAIN rows # {} /\ DOMAIN rows \subseteq Nat
  /\ \A i \in DOMAIN rows : rows[i].category \in Categories /\ rows[i].sure \in BOOLEAN

\* breached_mode finds a row, and none grades worse.
LEMMA BreachedModeIsWorst ==
  ASSUME NEW rows, Rows(rows)
  PROVE  /\ BreachedMode(rows) \in DOMAIN rows
         /\ \A j \in DOMAIN rows :
              GradeBreach(rows[j]) <= GradeBreach(rows[BreachedMode(rows)])
<1> DEFINE safe(i)  == rows[i].category \in SafetyCategories
           rank(i)  == 2 * (5 - GradeBreach(rows[i])) + (IF safe(i) THEN 0 ELSE 1)
           Ranks    == {rank(i) : i \in DOMAIN rows}
<1>1. \A i \in DOMAIN rows : GradeBreach(rows[i]) \in 0..5
  BY RowGrade DEF Rows, WARN, REPLAN, ABORT
<1>2. Ranks \subseteq Nat /\ Ranks # {}
  BY <1>1 DEF Rows
<1>3. PICK k \in DOMAIN rows : \A j \in DOMAIN rows : rank(k) <= rank(j)
  <2>1. PICK x \in Ranks : \A y \in Ranks : x <= y
    BY <1>2, LeastNatural
  <2> QED
    BY <2>1
<1> DEFINE Worst == {i \in DOMAIN rows : rank(i) = rank(k)}
<1>4. PICK b \in Worst : \A j \in Worst : b <= j
  <2>1. Worst \subseteq Nat /\ Worst # {}
    BY <1>3 DEF Rows
  <2> HIDE DEF Worst
  <2> QED
    BY <2>1, LeastNatural
<1>5. ASSUME NEW j \in DOMAIN rows \ {b} PROVE Outranks(rows, b, j)
  <2>1. GradeBreach(rows[b]) \in 0..5 /\ GradeBreach(rows[j]) \in 0..5 /\ b \in Nat /\ j \in Nat
    BY <1>1, <1>4 DEF Rows
  <2>2. rank(b) <= rank(j) /\ (rank(b) = rank(j) => b < j)
    <3>1. rank(b) = rank(k) /\ b \in DOMAIN rows /\ rank(k) <= rank(j)
      BY <1>3, <1>4
    <3>2. rank(b) = rank(j) => j \in Worst
      BY <3>1
    <3>3. j \in Worst => b <= j
      BY <1>4
    <3> HIDE DEF Worst, rank
    <3> QED
      BY <2>1, <3>1, <3>2, <3>3
  <2> QED
    BY <2>1, <2>2 DEF Outranks
<1>6. b \in DOMAIN rows
  BY <1>4
<1>7. /\ BreachedMode(rows) \in DOMAIN rows
      /\ \A j \in DOMAIN rows \ {BreachedMode(rows)} : Outranks(rows, BreachedMode(rows), j)
  BY <1>5, <1>6 DEF BreachedMode
<1>8. ASSUME NEW j \in DOMAIN rows
      PROVE  GradeBreach(rows[j]) <= GradeBreach(rows[BreachedMode(rows)])
  BY <1>1, <1>7 DEF Outranks
<1> QED
  BY <1>7, <1>8

\* Evidence is fresh enough or it is not.
LEMMA SureType == \A reads, stale : Sure(reads, stale) \in BOOLEAN
BY DEF Sure

\* The rows of the modes and of the phase machine are rows of known categories.
LEMMA RowTypes ==
  ASSUME NEW o
  PROVE  /\ \A i \in DOMAIN Modes : /\ ModeRow(i, o).category \in Categories
                                    /\ ModeRow(i, o).sure \in BOOLEAN
         /\ \A f \in PhaseFault : /\ FaultRow(f, o).category \in Categories
                                  /\ FaultRow(f, o).sure \in BOOLEAN
                                  /\ f.kind = "progress" => FaultRow(f, o).category = "PROGRESS"
<1>1. ASSUME NEW i \in DOMAIN Modes
      PROVE  ModeRow(i, o).category \in Categories /\ ModeRow(i, o).sure \in BOOLEAN
  <2>1. Modes[i] \in ModeSpec
    BY PhaseAssumption
  <2> QED
    BY <2>1, SureType DEF ModeRow, ModeSpec
<1>2. ASSUME NEW f \in PhaseFault
      PROVE  /\ FaultRow(f, o).category \in Categories /\ FaultRow(f, o).sure \in BOOLEAN
             /\ f.kind = "progress" => FaultRow(f, o).category = "PROGRESS"
  <2>1. f.phase \in PhaseIdx /\ f.kind \in Kinds
    BY DEF PhaseFault
  <2>2. Phases[f.phase + 1] \in PhaseSpec
    <3>1. f.phase + 1 \in 1..Len(Phases)
      BY <2>1, PhaseAssumption DEF PhaseIdx, N
    <3> QED
      BY <3>1, PhaseAssumption
  <2>3. Phase(f.phase).category[f.kind] \in Categories
    BY <2>1, <2>2 DEF Phase, PhaseSpec
  <2>4. Phase(f.phase).category["progress"] = "PROGRESS"
    BY <2>1, PhaseAssumption
  <2> QED
    BY <2>3, <2>4, SureType DEF FaultRow
<1> QED
  BY <1>1, <1>2

\* How the step ends is what the worst row of the verdict says: an end the
\* breaches call for goes with a token of at least REPLAN and the other way
\* round with one of HALT.
LEMMA Decision ==
  ASSUME NEW v, v \subseteq DOMAIN Modes, NEW f \in PhaseFault \cup {None}, NEW o, NEW m,
         Advance(v, f, o), token' = Intervention(m, v, f, o)
  PROVE  /\ token' >= HALT => ended' # "no"
         /\ ended' = "halted" => token' >= REPLAN
         /\ f # None /\ f.kind = "progress" => token' >= REPLAN
         /\ (\E i \in v : Proven(ModeRow(i, o))) => ended' # "no"
         /\ f # None /\ Proven(FaultRow(f, o)) => ended' # "no"
<1> DEFINE rows  == VerdictRows(v, f, o)
           trows == TriggeredRows(v, o)
           last  == Len(Modes) + 1
<1>1. Len(Modes) \in Nat /\ DOMAIN Modes = 1..Len(Modes) /\ v \subseteq Nat /\ last \notin v
  BY PhaseAssumption
<1>2. /\ DOMAIN rows = v \cup (IF f = None THEN {} ELSE {last})
      /\ \A i \in v : rows[i] = ModeRow(i, o)
      /\ f # None => rows[last] = FaultRow(f, o)
  BY <1>1 DEF VerdictRows
<1>3. DOMAIN trows = v /\ \A i \in v : trows[i] = ModeRow(i, o)
  BY DEF TriggeredRows
<1>4. DOMAIN rows # {} => Rows(rows)
  BY <1>1, <1>2, RowTypes DEF Rows
<1>5. v # {} => Rows(trows)
  BY <1>1, <1>3, RowTypes DEF Rows
<1> DEFINE modeGrade(i) == GradeBreach(ModeRow(i, o))
           faultGrade   == GradeBreach(FaultRow(f, o))
<1>6. /\ \A i \in v : modeGrade(i) \in {WARN, REPLAN, ABORT}
      /\ f # None => faultGrade \in {WARN, REPLAN, ABORT}
  BY RowTypes, RowGrade
<1>7. ModeStopsTheRun(v, o) <=> \E i \in v : modeGrade(i) >= REPLAN
  <2>1. CASE v = {}
    BY <2>1 DEF ModeStopsTheRun
  <2>2. CASE v # {}
    <3> DEFINE w == WorstTriggered(trows)
    <3>1. w \in v /\ \A j \in v : modeGrade(j) <= modeGrade(w)
      BY <2>2, <1>3, <1>5, BreachedModeIsWorst DEF WorstTriggered
    <3>2. FaultStopsTheRun(trows[w]) <=> modeGrade(w) >= REPLAN
      BY <3>1, <1>3, RowTypes, RowGrade
    <3>3. ModeStopsTheRun(v, o) <=> FaultStopsTheRun(trows[w])
      BY <2>2 DEF ModeStopsTheRun
    <3> HIDE DEF w, trows, modeGrade
    <3>4. ASSUME NEW i \in v, modeGrade(i) >= REPLAN PROVE modeGrade(w) >= REPLAN
      BY <1>6, <3>1, <3>4 DEF WARN, REPLAN, ABORT
    <3> QED
      BY <3>1, <3>2, <3>3, <3>4
  <2> QED
    BY <2>1, <2>2
<1>8. f # None => (PhaseStopsTheRun(f, o) <=> f.kind # "progress" /\ faultGrade >= REPLAN)
  BY RowTypes, RowGrade DEF PhaseStopsTheRun
<1>9. /\ \A i \in v : Proven(ModeRow(i, o)) => modeGrade(i) >= REPLAN
      /\ f # None /\ Proven(FaultRow(f, o)) => faultGrade >= REPLAN
      /\ f # None /\ f.kind = "progress" => faultGrade = REPLAN
  BY RowTypes, RowGrade
\* The token is the worst grade there is, and below HALT when nothing is breached.
<1>10. /\ \A i \in v : token' >= modeGrade(i)
       /\ f # None => token' >= faultGrade
       /\ \/ token' < HALT
          \/ \E i \in v : token' = modeGrade(i)
          \/ f # None /\ token' = faultGrade
  <2>1. CASE DOMAIN rows = {}
    <3>1. token' \in {CONTINUE, WARN, SLOW, REPLAN}
      <4>1. \A k, sure : GradeAction("TIMEOUT", k, sure) \in {CONTINUE, WARN, SLOW, REPLAN}
        BY DEF GradeAction, SafetyCategories, CONTINUE, WARN, SLOW, REPLAN
      <4>2. \A k, sure : GradeAction("PROGRESS", k, sure) \in {CONTINUE, WARN, SLOW, REPLAN}
        BY DEF GradeAction, SafetyCategories, CONTINUE, WARN, SLOW, REPLAN
      <4>3. \A t, k, n : Severity(t, k, n) \in {"TIMEOUT", "PROGRESS", None}
        BY DEF Severity
      <4> QED
        BY <2>1, <4>1, <4>2, <4>3 DEF Intervention, GradeRisk
    <3> QED
      BY <2>1, <3>1, <1>2 DEF CONTINUE, WARN, SLOW, REPLAN, HALT
  <2>2. CASE DOMAIN rows # {}
    <3> DEFINE b == BreachedMode(rows)
    <3>1. token' = GradeBreach(rows[b])
      BY <2>2 DEF Intervention
    <3>2. b \in DOMAIN rows /\ \A j \in DOMAIN rows : GradeBreach(rows[j]) <= GradeBreach(rows[b])
      BY <2>2, <1>4, BreachedModeIsWorst
    <3> HIDE DEF b, rows
    <3>3. \A i \in v : modeGrade(i) <= token'
      BY <3>1, <3>2, <1>2
    <3>4. f # None => faultGrade <= token'
      BY <3>1, <3>2, <1>2
    <3>5. (\E i \in v : token' = modeGrade(i)) \/ (f # None /\ token' = faultGrade)
      BY <3>1, <3>2, <1>2
    <3>6. token' \in Int
      BY <3>5, <1>6 DEF WARN, REPLAN, ABORT
    <3> QED
      BY <3>3, <3>4, <3>5, <3>6, <1>6 DEF WARN, REPLAN, ABORT
  <2> QED
    BY <2>1, <2>2
<1> HIDE DEF modeGrade, faultGrade
<1>11. token' >= HALT => (\E i \in v : modeGrade(i) >= REPLAN) \/ (f # None /\ faultGrade >= REPLAN)
  <2>1. token' \in Int
    BY GradeType DEF Intervention, Action, CONTINUE, ABORT
  <2>2. CASE token' < HALT
    BY <2>1, <2>2 DEF HALT
  <2>3. CASE \E i \in v : token' = modeGrade(i)
    BY <2>3, <1>6 DEF WARN, REPLAN, HALT, ABORT
  <2>4. CASE f # None /\ token' = faultGrade
    BY <2>4, <1>6 DEF WARN, REPLAN, HALT, ABORT
  <2> QED
    BY <1>10, <2>2, <2>3, <2>4
<1>12. /\ (\E i \in v : modeGrade(i) >= REPLAN) => token' >= REPLAN
       /\ f # None /\ faultGrade >= REPLAN => token' >= REPLAN
  <2>1. token' \in Int
    BY GradeType DEF Intervention, Action, CONTINUE, ABORT
  <2> QED
    BY <2>1, <1>6, <1>10 DEF WARN, REPLAN, ABORT
<1>13. /\ (\E i \in v : modeGrade(i) >= REPLAN) => ended' = "halted"
       /\ f # None /\ faultGrade >= REPLAN => ended' # "no"
       /\ ended' = "halted" =>
            (\E i \in v : modeGrade(i) >= REPLAN) \/ (f # None /\ faultGrade >= REPLAN)
  <2> DEFINE stops == \E i \in v : modeGrade(i) >= REPLAN
             big   == faultGrade >= REPLAN
  <2>1. ModeStopsTheRun(v, o) <=> stops
    BY <1>7
  <2>2. f # None => (PhaseStopsTheRun(f, o) <=> f.kind # "progress" /\ big)
    BY <1>8
  <2>3. f = None => ~PhaseStopsTheRun(f, o)
    BY DEF PhaseStopsTheRun
  <2> HIDE DEF stops, big
  <2>4. (stops => ended' = "halted") /\ (f # None /\ big => ended' # "no")
        /\ (ended' = "halted" => stops \/ (f # None /\ big))
    BY <2>1, <2>2, <2>3 DEF Advance
  <2> QED
    BY <2>4 DEF stops, big
<1>14. REPLAN >= REPLAN
  BY DEF REPLAN
<1> QED
  BY <1>9, <1>11, <1>12, <1>13, <1>14

\* The broken invariant of the phase the tick began in is the tick's fault.
LEMMA InvariantReported ==
  ASSUME TypeOK, idx >= 0, NEW o, Breaks(o, idx, "invariant"), NEW m \in UpdatePhaseState(o)
  PROVE  m.idx = idx /\ m.kind = "invariant"
<1>1. m \in InPhase(Outcome(idx, steps, misses, None), o)
  BY DEF UpdatePhaseState
<1>2. m = Outcome(idx, steps, misses, "invariant")
  BY <1>1 DEF InPhase, Outcome
<1> QED
  BY <1>2 DEF Outcome

\* Token and end of the run never contradict each other (docs/api.md, the row
\* of intervention.action).
THEOREM TokenAndEndAgree == Spec => []OneDecision
<1>1. Init => OneDecision
  BY DEF Init, OneDecision
<1>2. MachineInv /\ MachineInv' /\ OneDecision /\ [Next]_vars => OneDecision'
  <2> SUFFICES ASSUME MachineInv, MachineInv', OneDecision, [Next]_vars PROVE OneDecision'
    OBVIOUS
  <2>1. CASE Step
    <3>1. PICK m : /\ Advance(violated', fault', obs')
                   /\ token' = Intervention(m, violated', fault', obs')
      BY <2>1, StepOutcome
    <3>2. violated' \subseteq DOMAIN Modes /\ fault' \in PhaseFault \cup {None}
      BY DEF MachineInv, TypeOK
    <3> QED
      BY <3>1, <3>2, Decision DEF OneDecision
  <2>2. CASE ResetForNewSkill
    BY <2>2 DEF ResetForNewSkill, OneDecision
  <2>3. CASE UNCHANGED vars
    BY <2>3 DEF vars, machine, OneDecision
  <2> QED
    BY <2>1, <2>2, <2>3 DEF Next
<1> QED
  BY <1>1, <1>2, MachineInvariant, PTL DEF Spec

\* No stale breach hides a proven one: whichever was found first, a breach
\* with evidence ends the run on its tick.
THEOREM ProvenBreachStops == Spec => ProvenBreachEndsRun
<1> DEFINE Ends ==
      /\ Stepped
      /\ \/ \E i \in violated' : Proven(ModeRow(i, obs'))
         \/ /\ idx >= 0 /\ Breaks(obs', idx, "invariant")
            /\ Proven(FaultRow([phase |-> idx, kind |-> "invariant"], obs'))
      => ended' # "no"
<1>1. MachineInv /\ MachineInv' /\ [Next]_vars => [Ends]_vars
  <2> SUFFICES ASSUME MachineInv, MachineInv', Next PROVE Ends
    OBVIOUS
  <2>1. CASE ResetForNewSkill
    BY <2>1 DEF ResetForNewSkill, Stepped
  <2>2. CASE Step
    <3>1. PICK m \in UpdatePhaseState(obs') :
            /\ fault' = IF m.kind = None THEN None ELSE [phase |-> m.idx, kind |-> m.kind]
            /\ Advance(violated', fault', obs')
            /\ token' = Intervention(m, violated', fault', obs')
      BY <2>2 DEF Step
    <3>2. violated' \subseteq DOMAIN Modes /\ fault' \in PhaseFault \cup {None}
      BY DEF MachineInv, TypeOK
    <3>3. /\ (\E i \in violated' : Proven(ModeRow(i, obs'))) => ended' # "no"
          /\ fault' # None /\ Proven(FaultRow(fault', obs')) => ended' # "no"
      BY <3>1, <3>2, Decision
    <3>4. ASSUME idx >= 0, Breaks(obs', idx, "invariant")
          PROVE  fault' # None /\ fault' = [phase |-> idx, kind |-> "invariant"]
      <4>1. m.idx = idx /\ m.kind = "invariant"
        BY <3>1, <3>4, InvariantReported DEF MachineInv
      <4>2. fault' = [phase |-> idx, kind |-> "invariant"]
        BY <3>1, <4>1, NoneApart DEF Kinds, Conditions
      <4>3. idx \in PhaseIdx
        BY <3>4 DEF MachineInv, TypeOK
      <4> QED
        BY <4>2, <4>3, NoneApart DEF PhaseFault, Kinds, Conditions
    <3> QED
      BY <3>3, <3>4
  <2> QED
    BY <2>1, <2>2 DEF Next
<1> QED
  BY <1>1, MachineInvariant, PTL DEF Spec, ProvenBreachEndsRun
-----------------------------------------------------------------------------
(* What those grades travel on: the legacy loop, for any specs and bounds. *)

Monitoring ==
  /\ alive \in {"up", "stopping", "down"}
  /\ halted \in BOOLEAN /\ spec \in Specs /\ breach \in Breaches \cup {None}
  /\ adapterKnown \in BOOLEAN /\ endedByFault \in BOOLEAN

Announced ==
  /\ apsWire \in Seq(Specs \cup {None})
  /\ descWire \in Seq(Desc) /\ supervisorWire \in Seq(Desc)

Evaluating ==
  /\ evaluatorUp \in BOOLEAN /\ idle \in BOOLEAN
  /\ requiredAps \in Specs \cup {None} /\ stateDesc \in Specs \cup {None}
  /\ queue \in Seq(Evaluation) /\ working \in Evaluation \cup {None}

LEMMA LoopTypes ==
  LoopTypeOK <=> Monitoring /\ Announced /\ Evaluating
                 /\ evalWire \in Seq(Evaluation) /\ halting \in BOOLEAN
BY DEF LoopTypeOK, Monitoring, Announced, Evaluating

LEMMA LoopTypesAfter ==
  ASSUME Monitoring', Announced', Evaluating', evalWire' \in Seq(Evaluation), halting' \in BOOLEAN
  PROVE  LoopTypeOK'
BY DEF LoopTypeOK, Monitoring, Announced, Evaluating

\* The evaluator that is not idle knows the APs it evaluates, and nothing it has
\* queued is older than the idle signal it last heard.
Awake == idle <=> requiredAps = None
Current == \A i \in DOMAIN queue : ~queue[i].outlived

LoopInv == LoopTypeOK /\ Awake /\ Current

LEMMA AnnounceTyped ==
  ASSUME Announced, NEW aps \in Specs \cup {None}, NEW desc \in Desc, Announce(aps, desc)
  PROVE  Announced'
BY DEF Announced, Announce

LEMMA StopDescTyped ==
  ASSUME NEW state \in {"idle", "halt"}
  PROVE  StopDesc(state) \in Desc
BY DEF StopDesc, Desc

LEMMA PublishTyped ==
  ASSUME Announced, Monitoring', PublishLegacyState
  PROVE  Announced'
<1>1. CASE halted'
  BY <1>1, AnnounceTyped, StopDescTyped DEF PublishLegacyState
<1>2. CASE ~halted'
  <2>1. PICK first \in FirstBreached(breach', adapterKnown') :
          Announce(spec', [state |-> "running", of |-> spec', breach |-> first])
    BY <1>2 DEF PublishLegacyState
  <2> DEFINE desc == [state |-> "running", of |-> spec', breach |-> first]
  <2>2. first \in {None} \cup Row
    <3>1. CASE breach' = None
      BY <2>1, <3>1 DEF FirstBreached
    <3>2. CASE breach' # None
      <4> DEFINE worst == Grounds(breach', adapterKnown')
      <4>1. worst \in Row
        BY DEF Monitoring, Grounds, Row, Categories, SafetyCategories
      <4>2. first \in FirstAuthored(worst)
        BY <2>1, <3>2 DEF FirstBreached
      <4> HIDE DEF worst
      <4> QED
        BY <4>1, <4>2 DEF FirstAuthored, Row
    <3> QED
      BY <3>1, <3>2
  <2>3. desc \in Desc /\ spec' \in Specs
    BY <2>2 DEF Desc, Monitoring
  <2>4. Announce(spec', desc)
    BY <2>1
  <2> HIDE DEF desc
  <2> QED
    BY <2>3, <2>4, AnnounceTyped
<1> QED
  BY <1>1, <1>2

\* A step of the monitor on one evaluation ends the run, idles or goes on.
LEMMA StepOnceTyped ==
  ASSUME Monitoring, Announced, StepOnce
  PROVE  Monitoring' /\ Announced'
<1>1. breach' \in Breaches \cup {None} /\ UNCHANGED <<spec, adapterKnown>>
  BY DEF StepOnce, Breached
<1>2. ASSUME NEW state \in {"idle", "halt"}, Announce(None, StopDesc(state)) PROVE Announced'
  BY <1>2, AnnounceTyped, StopDescTyped
<1>3. CASE SafetyFault
  <2>1. /\ halted' = TRUE /\ alive' \in {alive, "stopping"} /\ endedByFault' = TRUE
        /\ \/ Announce(None, StopDesc("idle"))
           \/ Announce(None, StopDesc("halt"))
    BY <1>3 DEF SafetyFault, Halt, EnterIdle
  <2> QED
    BY <1>1, <1>2, <2>1 DEF Monitoring
<1>4. CASE EpisodeEnds
  <2>1. /\ halted' = TRUE /\ UNCHANGED <<alive, endedByFault>>
        /\ Announce(None, StopDesc("idle"))
    BY <1>4 DEF EpisodeEnds, EnterIdle
  <2> QED
    BY <1>1, <1>2, <2>1 DEF Monitoring
<1>5. CASE RunGoesOn
  <2>1. UNCHANGED <<alive, halted, endedByFault>> /\ PublishLegacyState
    BY <1>5 DEF RunGoesOn
  <2>2. Monitoring'
    BY <1>1, <2>1 DEF Monitoring
  <2> QED
    BY <2>1, <2>2, PublishTyped
<1> QED
  BY <1>3, <1>4, <1>5 DEF StepOnce

\* What the monitor does touches no evaluation the evaluator has.
LEMMA MonitorKeepsLoop ==
  ASSUME LoopInv,
         \/ Heartbeat \/ EvaluationCallback \/ Reset \/ AdapterCallback \/ DoShutdown
         \/ \E s \in Pushes : LoadSpec(s)
  PROVE  LoopInv'
<1>0. /\ Monitoring /\ Announced /\ Evaluating /\ Awake /\ Current
      /\ evalWire \in Seq(Evaluation) /\ halting \in BOOLEAN
  BY LoopTypes DEF LoopInv
<1>1. UNCHANGED <<evaluatorUp, idle, requiredAps, stateDesc, queue, working, halting>>
  BY DEF Heartbeat, EvaluationCallback, Reset, AdapterCallback, DoShutdown, LoadSpec, evaluator
<1>2. Evaluating' /\ Awake' /\ Current' /\ halting' \in BOOLEAN
  BY <1>0, <1>1 DEF Evaluating, Awake, Current
<1>3. evalWire' \in Seq(Evaluation)
  BY <1>0 DEF Heartbeat, EvaluationCallback, Reset, AdapterCallback, DoShutdown, LoadSpec
<1>4. Monitoring' /\ Announced'
  <2>1. CASE Heartbeat
    <3>1. Monitoring'
      BY <1>0, <2>1 DEF Heartbeat, Monitoring, monitor
    <3> QED
      BY <1>0, <2>1, <3>1, PublishTyped DEF Heartbeat
  <2>2. CASE EvaluationCallback
    <3>1. CASE UNCHANGED <<monitor, announced>>
      BY <1>0, <3>1 DEF Monitoring, Announced, monitor, announced
    <3>2. CASE StepOnce
      BY <1>0, <3>2, StepOnceTyped
    <3> QED
      BY <2>2, <3>1, <3>2 DEF EvaluationCallback
  <2>3. CASE Reset
    <3>1. Monitoring'
      BY <1>0, <2>3 DEF Reset, Monitoring
    <3> QED
      BY <1>0, <2>3, <3>1, PublishTyped DEF Reset
  <2>4. CASE AdapterCallback
    BY <1>0, <2>4 DEF AdapterCallback, Monitoring, Announced, announced
  <2>5. CASE DoShutdown
    BY <1>0, <2>5 DEF DoShutdown, Monitoring, Announced, announced
  <2>6. ASSUME NEW s \in Pushes, LoadSpec(s) PROVE Monitoring' /\ Announced'
    <3>1. s \in Specs
      BY LoopAssumption
    <3> QED
      BY <1>0, <2>6, <3>1 DEF LoadSpec, Monitoring, Announced, announced
  <2> QED
    BY <2>1, <2>2, <2>3, <2>4, <2>5, <2>6
<1> QED
  BY <1>2, <1>3, <1>4, LoopTypesAfter DEF LoopInv

\* The queue an idle signal is heard with is not there any more (_drain_queue).
LEMMA ApsCallbackKeepsLoop == ASSUME LoopInv, ApsCallback PROVE LoopInv'
<1>0. /\ Monitoring /\ Announced /\ Evaluating /\ Awake /\ Current
      /\ evalWire \in Seq(Evaluation) /\ halting \in BOOLEAN
  BY LoopTypes DEF LoopInv
<1> DEFINE aps == Head(apsWire)
<1>1. /\ apsWire # <<>> /\ apsWire' = Tail(apsWire)
      /\ idle' = (aps = None) /\ requiredAps' = aps
      /\ NowIdle(aps) \/ NowRunning(aps) \/ StillSo(aps)
      /\ UNCHANGED <<monitor, descWire, supervisorWire, evalWire, evaluatorUp, stateDesc, halting>>
  BY DEF ApsCallback, RecordAps
<1>2. aps \in Specs \cup {None} /\ apsWire' \in Seq(Specs \cup {None})
  <2> DEFINE S == Specs \cup {None}
  <2>1. apsWire \in Seq(S) /\ apsWire # <<>> /\ apsWire' = Tail(apsWire)
    BY <1>0, <1>1 DEF Announced
  <2> HIDE DEF S
  <2>2. Head(apsWire) \in S /\ apsWire' \in Seq(S)
    BY <2>1
  <2> QED
    BY <2>2 DEF S
<1> HIDE DEF aps
<1>3. Monitoring' /\ Announced' /\ evalWire' \in Seq(Evaluation) /\ halting' \in BOOLEAN
  BY <1>0, <1>1, <1>2 DEF Monitoring, Announced, monitor
<1>4. queue' \in {queue, <<>>}
  BY <1>1 DEF NowIdle, NowRunning, StillSo
<1>5. working' \in Evaluation \cup {None}
  <2>1. working' \in {working, None} \/ (working # None /\ working' = Outlived(working))
    BY <1>1 DEF NowIdle, NowRunning, StillSo
  <2>2. ASSUME working # None PROVE Outlived(working) \in Evaluation
    BY <1>0, <2>2 DEF Evaluating, Evaluation, Outlived
  <2> QED
    BY <1>0, <2>1, <2>2 DEF Evaluating
<1>6. Current' /\ queue' \in Seq(Evaluation)
  <2>1. CASE queue' = queue
    BY <1>0, <2>1 DEF Current, Evaluating
  <2>2. CASE queue' = <<>>
    <3>1. DOMAIN queue' = {} /\ queue' \in Seq(Evaluation)
      BY <2>2
    <3> QED
      BY <3>1 DEF Current
  <2> QED
    BY <1>4, <2>1, <2>2
<1>7. Evaluating' /\ Awake'
  BY <1>0, <1>1, <1>2, <1>5, <1>6 DEF Evaluating, Awake
<1> QED
  BY <1>3, <1>6, <1>7, LoopTypesAfter DEF LoopInv

LEMMA DescCallbackKeepsLoop == ASSUME LoopInv, DescCallback PROVE LoopInv'
<1>0. /\ Monitoring /\ Announced /\ Evaluating /\ Awake /\ Current
      /\ evalWire \in Seq(Evaluation) /\ halting \in BOOLEAN
  BY LoopTypes DEF LoopInv
<1>1. /\ descWire # <<>> /\ descWire' = Tail(descWire)
      /\ \/ evaluatorUp' = FALSE /\ queue' = <<>> /\ UNCHANGED stateDesc
         \/ stateDesc' = Head(descWire).of /\ UNCHANGED <<evaluatorUp, queue>>
      /\ UNCHANGED <<monitor, apsWire, supervisorWire, evalWire, idle, requiredAps, working, halting>>
  BY DEF DescCallback
<1>2. Head(descWire) \in Desc /\ descWire' \in Seq(Desc)
  BY <1>0, <1>1 DEF Announced
<1>3. Head(descWire).of \in Specs \cup {None}
  BY <1>2 DEF Desc
<1>4. Monitoring' /\ Announced' /\ evalWire' \in Seq(Evaluation) /\ halting' \in BOOLEAN
  BY <1>0, <1>1, <1>2 DEF Monitoring, Announced, monitor
<1>5. Awake'
  BY <1>0, <1>1 DEF Awake
<1>6. Evaluating' /\ Current'
  <2>1. CASE queue' = queue
    BY <1>0, <1>1, <1>3, <2>1 DEF Evaluating, Current
  <2>2. CASE evaluatorUp' = FALSE /\ queue' = <<>> /\ UNCHANGED stateDesc
    <3>1. DOMAIN queue' = {} /\ queue' \in Seq(Evaluation)
      BY <2>2
    <3> QED
      BY <1>0, <1>1, <2>2, <3>1 DEF Evaluating, Current
  <2> QED
    BY <1>1, <2>1, <2>2
<1> QED
  BY <1>4, <1>5, <1>6, LoopTypesAfter DEF LoopInv

\* The timer samples only while it knows what to evaluate, and what it samples
\* has outlived nothing; the worker takes the oldest, and publishes it.
LEMMA SamplingKeepsLoop ==
  ASSUME LoopInv, EvaluateAndPublish \/ WorkerTakes \/ ProcessEvaluation
  PROVE  LoopInv'
<1>0. /\ Monitoring /\ Announced /\ Evaluating /\ Awake /\ Current
      /\ evalWire \in Seq(Evaluation) /\ halting \in BOOLEAN
  BY LoopTypes DEF LoopInv
<1>1. UNCHANGED <<monitor, announced, evaluatorUp, idle, requiredAps, stateDesc, halting>>
  BY DEF EvaluateAndPublish, WorkerTakes, ProcessEvaluation
<1>2. Monitoring' /\ Announced' /\ Awake' /\ halting' \in BOOLEAN
  BY <1>0, <1>1 DEF Monitoring, Announced, Awake, monitor, announced
<1>3. queue \in Seq(Evaluation) /\ Len(queue) \in Nat
  BY <1>0 DEF Evaluating
<1>4. CASE EvaluateAndPublish
  <2> DEFINE task == [aps |-> requiredAps, desc |-> stateDesc, outlived |-> FALSE]
  <2>1. /\ ~idle /\ queue' = Append(queue, task) /\ UNCHANGED <<evalWire, working>>
    BY <1>4 DEF EvaluateAndPublish
  <2>2. task \in Evaluation /\ ~task.outlived
    BY <1>0, <2>1 DEF Evaluating, Awake, Evaluation
  <2> HIDE DEF task
  <2>3. /\ queue' \in Seq(Evaluation)
        /\ \A i \in DOMAIN queue' : \/ queue'[i] = task
                                    \/ i \in DOMAIN queue /\ queue'[i] = queue[i]
    BY <1>3, <2>1, <2>2
  <2>4. Current'
    BY <1>0, <2>2, <2>3 DEF Current
  <2>5. Evaluating'
    BY <1>0, <1>1, <2>1, <2>3 DEF Evaluating
  <2> QED
    BY <1>0, <1>2, <2>1, <2>4, <2>5, LoopTypesAfter DEF LoopInv
<1>5. CASE WorkerTakes
  <2>1. /\ queue # <<>> /\ working' = Head(queue) /\ queue' = Tail(queue) /\ UNCHANGED evalWire
    BY <1>5 DEF WorkerTakes
  <2>2. /\ working' \in Evaluation /\ queue' \in Seq(Evaluation)
        /\ \A i \in DOMAIN queue' : i + 1 \in DOMAIN queue /\ queue'[i] = queue[i + 1]
    BY <1>3, <2>1
  <2>3. Current'
    BY <1>0, <2>2 DEF Current
  <2>4. Evaluating'
    BY <1>0, <1>1, <2>2 DEF Evaluating
  <2> QED
    BY <1>0, <1>2, <2>1, <2>3, <2>4, LoopTypesAfter DEF LoopInv
<1>6. CASE ProcessEvaluation
  <2>1. /\ working # None /\ evalWire' = Append(evalWire, working) /\ working' = None
        /\ UNCHANGED queue
    BY <1>6 DEF ProcessEvaluation
  <2>2. evalWire' \in Seq(Evaluation)
    BY <1>0, <2>1 DEF Evaluating
  <2>3. Evaluating' /\ Current'
    BY <1>0, <1>1, <2>1 DEF Evaluating, Current
  <2> QED
    BY <1>2, <2>2, <2>3, LoopTypesAfter DEF LoopInv
<1> QED
  BY <1>4, <1>5, <1>6

LEMMA SuperviseKeepsLoop == ASSUME LoopInv, Supervise PROVE LoopInv'
<1>0. /\ Monitoring /\ Announced /\ Evaluating /\ Awake /\ Current
      /\ evalWire \in Seq(Evaluation)
  BY LoopTypes DEF LoopInv
<1>1. /\ supervisorWire # <<>> /\ supervisorWire' = Tail(supervisorWire)
      /\ halting' \in BOOLEAN
      /\ UNCHANGED <<monitor, apsWire, descWire, evalWire, evaluator>>
  BY DEF Supervise, OnState, DecideIntervention
<1>2. supervisorWire' \in Seq(Desc)
  BY <1>0, <1>1 DEF Announced
<1>3. Monitoring' /\ Announced' /\ Evaluating' /\ Awake' /\ Current' /\ evalWire' \in Seq(Evaluation)
  BY <1>0, <1>1, <1>2 DEF Monitoring, Announced, Evaluating, Awake, Current, monitor, evaluator
<1> QED
  BY <1>1, <1>3, LoopTypesAfter DEF LoopInv

LEMMA LoopInitInv == LoopInit => LoopInv
<1> SUFFICES ASSUME LoopInit PROVE LoopInv
  OBVIOUS
<1>1. EvaluatorStarts /\ evalWire = <<>> /\ halting = FALSE
  BY DEF LoopInit
<1>2. Evaluating /\ Awake /\ Current
  BY <1>1 DEF EvaluatorStarts, Evaluating, Awake, Current
<1>3. Monitoring
  BY LoopAssumption DEF LoopInit, Monitoring
<1>4. Announced
  <2> DEFINE desc == [state |-> "running", of |-> FirstSpec, breach |-> None]
  <2>1. desc \in Desc /\ FirstSpec \in Specs \cup {None}
    BY LoopAssumption DEF Desc
  <2>2. apsWire = <<FirstSpec>> /\ descWire = <<desc>> /\ supervisorWire = <<desc>>
    BY DEF LoopInit
  <2> HIDE DEF desc
  <2> QED
    BY <2>1, <2>2 DEF Announced
<1>5. evalWire \in Seq(Evaluation) /\ halting \in BOOLEAN
  <2>1. <<>> \in Seq(Evaluation)
    OBVIOUS
  <2> QED
    BY <1>1, <2>1
<1> QED
  BY <1>2, <1>3, <1>4, <1>5, LoopTypes DEF LoopInv

\* The loop keeps its types, and a slow language model leaves no backlog of old
\* ticks behind an idle signal, in whatever order the two topics are heard.
THEOREM NoBacklogEverOutlivesIdle == LoopSpec => []NoBacklogOutlivesIdle
<1>1. LoopInv /\ [LoopNext]_loopVars => LoopInv'
  <2> SUFFICES ASSUME LoopInv, [LoopNext]_loopVars PROVE LoopInv'
    OBVIOUS
  <2>1. CASE UNCHANGED loopVars
    BY <2>1 DEF LoopInv, LoopTypeOK, Awake, Current, loopVars
  <2>2. CASE LoopNext
    BY <2>2, MonitorKeepsLoop, ApsCallbackKeepsLoop, DescCallbackKeepsLoop,
       SamplingKeepsLoop, SuperviseKeepsLoop DEF LoopNext
  <2> QED
    BY <2>1, <2>2
<1>2. LoopInv => NoBacklogOutlivesIdle
  BY DEF LoopInv, Current, NoBacklogOutlivesIdle
<1> QED
  BY LoopInitInv, <1>1, <1>2, PTL DEF LoopSpec
=============================================================================
