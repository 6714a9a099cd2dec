---------------------------- MODULE PhaseMachine ----------------------------
(***************************************************************************)
(* What one step does with an observation in backend/monitor_node.py: the  *)
(* named failure modes, the phase machine with its counters                *)
(* (_update_phase_state), the decision to stop (_advance) and the token of *)
(* the verdict that follows.                                               *)
(*                                                                         *)
(* Abstracted: an observation is the conditions it breaks, the sources     *)
(* that were stale and the failure modes it violates; whether a phase may  *)
(* be entered or left is free.  Which ticks step, pauses, reloads and the  *)
(* process's end are MonitorNode's; there an outcome of this module is any *)
(* outcome the flags allow.                                                *)
(***************************************************************************)
EXTENDS Grading, PhaseLadder, Sequences

CONSTANTS
  Phases,     \* execution_phases: min and max steps, violation limit, the
              \* conditions declared, the fault categories, the sources read
  Modes,      \* named_failure_modes: category and the sources read
  Sources,    \* the adapter's sources
  MaxTicks    \* bound on the ticks spent in one phase

N          == Len(Phases)
PhaseIdx   == 0..N - 1
Phase(i)   == Phases[i + 1]
Conditions == {"precondition", "invariant", "progress"}
Kinds      == Conditions \cup {"timeout"}

PhaseSpec == [min : Nat, max : Nat \cup {None}, limit : Nat \ {0},
              declared : SUBSET Conditions, category : [Kinds -> Categories],
              reads : [Kinds -> SUBSET Sources]]

ModeSpec == [category : Categories, reads : SUBSET Sources]

PhaseFault == [phase : PhaseIdx, kind : Kinds]

ASSUME PhaseAssumption ==
  /\ Phases \in Seq(PhaseSpec)
  /\ N > 0
  /\ \A i \in PhaseIdx : /\ Phase(i).max # None => Phase(i).max > 0
                         /\ Phase(i).category["timeout"] = "TIMEOUT"
                         /\ Phase(i).category["progress"] = "PROGRESS"
  /\ Modes \in Seq(ModeSpec)
  /\ IsFiniteSet(Sources) /\ MaxTicks \in Nat
  /\ None \notin Kinds \cup PhaseFault

VARIABLES
  idx, steps, misses,   \* phase_idx, phase_step_count, phase_violation_count
  violated,             \* the named failure modes whose automata sit in a sink
  fault,                \* [phase, kind] of this tick's phase fault, or None
  ended,                \* "no", "idle" or "halted"
  token,                \* intervention.action of the last verdict, None before any
  obs,                  \* the observation stepped last
  elapsed, faulted,     \* history: ticks in this phase; those that found a fault
  missing               \* history: judged ticks in a row without progress in this phase

machine == <<idx, steps, misses, fault>>
vars    == <<machine, violated, ended, token, obs, elapsed, faulted, missing>>

\* A condition that is not declared holds.
Breakable   == {c \in PhaseIdx \X Conditions : c[2] \in Phase(c[1]).declared}
Observation == [broken : SUBSET Breakable, stale : SUBSET Sources]

TypeOK ==
  /\ idx \in PhaseIdx \cup {-1} /\ steps \in Nat /\ misses \in Nat
  /\ violated \subseteq DOMAIN Modes
  /\ fault \in PhaseFault \cup {None}
  /\ ended \in {"no", "idle", "halted"}
  /\ token \in Action \cup {None}
  /\ obs \in Observation
  /\ elapsed \in Nat /\ faulted \in Nat /\ missing \in Nat

Init ==
  /\ idx = -1 /\ steps = 0 /\ misses = 0 /\ fault = None
  /\ violated = {} /\ ended = "no" /\ token = None
  /\ obs = [broken |-> {}, stale |-> {}]
  /\ elapsed = 0 /\ faulted = 0 /\ missing = 0
-----------------------------------------------------------------------------
(* _update_phase_state: the outcomes of one tick, as the machine it leaves *)
(* and the kind of fault it reports.                                       *)

\* A condition that cannot be evaluated counts as holding (_eval's default).
Outcome(i, s, m, kind) == [idx |-> i, steps |-> s, misses |-> m, kind |-> kind]

Breaks(o, i, condition) == <<i, condition>> \in o.broken

EnterPhaseKeepsCounters(i, o) ==
  Outcome(i, steps, misses, IF Breaks(o, i, "precondition") THEN "precondition" ELSE None)
EnterPhase(i, o) ==
  Outcome(i, 0, 0, IF Breaks(o, i, "precondition") THEN "precondition" ELSE None)

Counted(m) == IF m.kind = None THEN [m EXCEPT !.steps = @ + 1] ELSE m

HasNext(i) == i + 1 < N

\* The exit condition may hold once min_steps have passed; the next phase may
\* refuse to be entered.
ExitsEarly(m, o) ==
  IF m.steps + 1 < Phase(m.idx).min THEN {}
  ELSE IF HasNext(m.idx) THEN {Counted(EnterPhase(m.idx + 1, o))}
  ELSE {Outcome(-1, 0, m.misses, None)}
Exits(m, o) ==
  IF m.steps < Phase(m.idx).min THEN {}
  ELSE IF HasNext(m.idx) THEN {Counted(EnterPhase(m.idx + 1, o))}
  ELSE {Outcome(-1, 0, m.misses, None)}
StayOrExit(m, o) == {Counted(m)} \cup Exits(m, o)

TimedOutLate(m) == Phase(m.idx).max # None /\ m.steps > Phase(m.idx).max
TimedOut(m) == Phase(m.idx).max # None /\ m.steps >= Phase(m.idx).max

NoteProgressKeeps(m, progress) ==
  [m EXCEPT !.misses = IF progress THEN @ ELSE @ + 1]
NoteProgress(m, progress) == [m EXCEPT !.misses = IF progress THEN 0 ELSE @ + 1]

\* Invariant, budget, progress and exit, in this order.
InPhase(m, o) ==
  LET noted == NoteProgress(m, ~Breaks(o, m.idx, "progress"))
  IN  CASE Breaks(o, m.idx, "invariant")           -> {[m EXCEPT !.kind = "invariant"]}
        [] ~Breaks(o, m.idx, "invariant") /\ TimedOut(m) -> {[m EXCEPT !.kind = "timeout"]}
        [] OTHER -> IF noted.misses > 0 /\ noted.misses >= Phase(m.idx).limit
                    THEN {[noted EXCEPT !.kind = "progress"]}
                    ELSE StayOrExit(noted, o)

UpdatePhaseState(o) ==
  LET here    == Outcome(idx, steps, misses, None)
      entered == EnterPhase(0, o)
  IN  IF idx >= 0 THEN InPhase(here, o)
      ELSE {here} \cup (IF entered.kind = None THEN InPhase(entered, o) ELSE {entered})
-----------------------------------------------------------------------------
(* _advance and the verdict's intervention.                                *)

ModeRow(i, o) == [category |-> Modes[i].category, sure |-> Sure(Modes[i].reads, o.stale)]

\* A timeout names no proposition, so it is graded on the whole observation.
FaultSources(f) == IF f.kind = "timeout" THEN Sources ELSE Phase(f.phase).reads[f.kind]

FaultRow(f, o) == [category |-> Phase(f.phase).category[f.kind],
                   sure     |-> Sure(FaultSources(f), o.stale)]

TriggeredRows(v, o) == [i \in v |-> ModeRow(i, o)]

\* failure_modes of the verdict: the modes, then the phase machine's own fault.
VerdictRows(v, f, o) ==
  [i \in v \cup (IF f = None THEN {} ELSE {Len(Modes) + 1}) |->
     IF i \in v THEN ModeRow(i, o) ELSE FaultRow(f, o)]

WorstTriggeredFirst(rows) == FirstRow(rows)
WorstTriggered(rows) == BreachedMode(rows)

ModeStopsTheRun(v, o) ==
  v # {} /\ LET rows == TriggeredRows(v, o) IN FaultStopsTheRun(rows[WorstTriggered(rows)])

PhaseStopsTheRun(f, o) == f # None /\ f.kind # "progress" /\ FaultStopsTheRun(FaultRow(f, o))

\* How the step ends, given the modes violated and the phase fault.
Advance(v, f, o) ==
  \/ ModeStopsTheRun(v, o) /\ ended' = "halted"
  \/ /\ ~ModeStopsTheRun(v, o) /\ f # None /\ f.kind = "progress"
     /\ ended' = "idle"
  \/ /\ ~ModeStopsTheRun(v, o) /\ PhaseStopsTheRun(f, o)
     /\ ended' = "halted"
  \/ /\ ~ModeStopsTheRun(v, o) /\ (f # None => f.kind # "progress" /\ ~PhaseStopsTheRun(f, o))
     /\ ended' \in {"no", "idle"}     \* a terminal condition may hold

StepsToTimeout(i, s)    == IF i < 0 \/ Phase(i).max = None THEN None ELSE Phase(i).max - s
ViolationsToFault(i, m) == IF i < 0 THEN None ELSE Phase(i).limit - m

\* The rung of the verdict on machine m.
Intervention(m, v, f, o) ==
  LET rows == VerdictRows(v, f, o)
  IN  IF DOMAIN rows # {} THEN GradeBreach(rows[BreachedMode(rows)])
      ELSE GradeRisk(StepsToTimeout(m.idx, m.steps), ViolationsToFault(m.idx, m.misses),
                     m.misses, Sure(Sources, o.stale))

\* The history a step adds: the phase judged is the one it began in, or the
\* first when it began in none.
Judged == IF idx < 0 THEN 0 ELSE idx

NoteHistory ==
  LET stays == idx' >= 0 /\ idx' = idx
  IN  /\ elapsed' = (IF stays THEN elapsed ELSE 0) + (IF idx' >= 0 THEN 1 ELSE 0)
      /\ faulted' = (IF stays THEN faulted ELSE 0) + (IF fault' # None THEN 1 ELSE 0)
      /\ missing' = IF idx' < 0 \/ idx' # Judged THEN 0
                    ELSE IF fault' # None /\ fault'.kind # "progress"
                         THEN (IF stays THEN missing ELSE 0)
                    ELSE IF Breaks(obs', idx', "progress")
                         THEN (IF stays THEN missing ELSE 0) + 1 ELSE 0

Step ==
  /\ ended = "no" /\ elapsed < MaxTicks
  /\ obs' \in Observation
  /\ violated' \in {v \in SUBSET DOMAIN Modes : violated \subseteq v}
  /\ \E m \in UpdatePhaseState(obs') :
       /\ idx' = m.idx /\ steps' = m.steps /\ misses' = m.misses
       /\ fault' = IF m.kind = None THEN None ELSE [phase |-> m.idx, kind |-> m.kind]
       /\ Advance(violated', fault', obs')
       /\ token' = Intervention(m, violated', fault', obs')
  /\ NoteHistory

ResetForNewSkill ==
  /\ idx' = -1 /\ steps' = 0 /\ misses' = 0 /\ fault' = None
  /\ violated' = {} /\ ended' = "no" /\ token' = None
  /\ elapsed' = 0 /\ faulted' = 0 /\ missing' = 0
  /\ UNCHANGED obs

Next == Step \/ ResetForNewSkill

Spec == Init /\ [][Next]_vars
-----------------------------------------------------------------------------
(* Properties.                                                             *)

\* The token and the end of the run are one decision (docs/api.md, the row of
\* intervention.action): a token that stops the robot ends the run, and a run
\* a fault ended has a token that at least asks for another plan.  Two
\* gradings of one tick, of different lists of breaches, have to agree.
OneDecision ==
  /\ token # None /\ token >= HALT => ended # "no"
  /\ ended = "halted" => token >= REPLAN
  /\ fault # None /\ fault.kind = "progress" => token >= REPLAN

\* A step, the only action that leaves a verdict behind.
Stepped == token' # None

\* A breach with evidence, or of a category no evidence holds back.
Proven(row) == row.sure \/ row.category \notin SafetyCategories

\* A breach of a named mode, or of the invariant of the phase the tick began
\* in, ends the run unless its own evidence is stale, whatever other breach
\* was found first and however stale the evidence of that one.
ProvenBreachEndsRun ==
  [][/\ Stepped
     /\ \/ \E i \in violated' : Proven(ModeRow(i, obs'))
        \/ /\ idx >= 0 /\ Breaks(obs', idx, "invariant")
           /\ Proven(FaultRow([phase |-> idx, kind |-> "invariant"], obs'))
     => ended' # "no"]_vars

\* The step counter of a phase is its own: it counts the ticks since the phase
\* was entered, less those that found a fault, and stays within max_steps.
PhaseClock ==
  idx >= 0 => /\ steps = elapsed - faulted
              /\ Phase(idx).max # None => steps <= Phase(idx).max

\* A progress fault is earned by as many misses in a row as the limit says,
\* all of them in the phase it names (docs/skill_description.md, "enter IDLE
\* after 5 consecutive violations").
ProgressFaultEarned ==
  fault # None /\ fault.kind = "progress" =>
    fault.phase = idx /\ missing = Phase(idx).limit

\* The moves MonitorNode allows its phase index are those of this machine, and
\* a phase is left only after min_steps ticks of it without a fault.
PhasesInOrder ==
  [][Stepped =>
             /\ idx' \in PhaseMoves(idx, N)
             /\ idx >= 0 /\ idx' # idx => elapsed - faulted >= Phase(idx).min]_vars
=============================================================================
