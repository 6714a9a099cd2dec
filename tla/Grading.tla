------------------------------ MODULE Grading ------------------------------
(***************************************************************************)
(* From breaches and bounds to one rung of the intervention ladder:        *)
(* core/monitor_action.py, core/supervisor_logic.py and the grading half   *)
(* of core/manifest.py.                                                    *)
(*                                                                         *)
(* Abstracted: a confidence is the share of the sources an expression is   *)
(* computed from that are fresh, and all that is asked of it is whether it *)
(* reaches MIN_CONFIDENCE, one half.  The alarm's bounds are numbers or    *)
(* None.  Categories are those of the wire (wire_fault_category).          *)
(***************************************************************************)
EXTENDS Integers, FiniteSets

CONSTANTS None, WarnSteps   \* WARN_STEPS

ASSUME GradingAssumption == None \notin Int /\ WarnSteps \in Nat

CONTINUE == 0  WARN == 1  SLOW == 2  REPLAN == 3  HALT == 4  ABORT == 5
Action == CONTINUE..ABORT

SafetyCategories == {"SAFETY", "INVARIANT"}
Categories       == SafetyCategories \cup {"TIMEOUT", "PROGRESS"}

\* What is graded: a breached mode or phase fault, by category and evidence.
Row == [category : Categories, sure : BOOLEAN]

Sure(sources, stale) == 2 * Cardinality(sources \ stale) >= Cardinality(sources)

\* imminence is the number of ticks to the fault, 0 when it is there.
GradeAction(category, imminence, sure) ==
  LET overdue  == imminence # None /\ imminence <= 0
      imminent == imminence # None /\ imminence <= WarnSteps
  IN  CASE category \in SafetyCategories /\ ~sure            -> WARN
        [] category \in SafetyCategories /\ sure             -> IF overdue THEN ABORT ELSE HALT
        [] category \in {"TIMEOUT", "PROGRESS"} /\ overdue   -> REPLAN
        [] category = "TIMEOUT" /\ imminent /\ ~overdue      -> IF sure THEN REPLAN ELSE WARN
        [] category = "PROGRESS" /\ imminent /\ ~overdue     -> IF sure THEN SLOW ELSE WARN
        [] OTHER                                             -> CONTINUE

GradeBreach(row) == GradeAction(row.category, 0, row.sure)

\* The same breach on evidence nobody doubts.
GradeCertain(row) == GradeAction(row.category, 0, TRUE)

\* A fault held back only by its evidence does not stop the run.
FaultStopsTheRun(row) ==
  GradeBreach(row) >= HALT \/ GradeCertain(row) < HALT

\* rows maps positions to breaches; the first authored of equals is taken.
FirstRow(rows) == CHOOSE i \in DOMAIN rows : \A j \in DOMAIN rows : i <= j

Outranks(rows, i, j) ==
  LET gi == GradeBreach(rows[i])  gj == GradeBreach(rows[j])
      si == rows[i].category \in SafetyCategories
      sj == rows[j].category \in SafetyCategories
  IN  gi > gj \/ (gi = gj /\ ((si /\ ~sj) \/ (si = sj /\ i < j)))

BreachedModeFirst(rows) == FirstRow(rows)
BreachedMode(rows) ==
  CHOOSE i \in DOMAIN rows : \A j \in DOMAIN rows \ {i} : Outranks(rows, i, j)

\* The bound that warns, if one does.
Severity(toTimeout, toFault, seen) ==
  IF toTimeout # None /\ toTimeout <= WarnSteps THEN "TIMEOUT"
  ELSE IF seen > 0 /\ toFault # None /\ toFault <= WarnSteps THEN "PROGRESS"
  ELSE None

\* Without a breach the warning bound is graded, at the timeout's distance
\* when there is one.
GradeRisk(toTimeout, toFault, seen, sure) ==
  LET severity == Severity(toTimeout, toFault, seen)
  IN  IF severity = None THEN CONTINUE
      ELSE GradeAction(severity, IF toTimeout # None THEN toTimeout ELSE toFault, sure)
=============================================================================
