----------------------------- MODULE LegacyLoop -----------------------------
(***************************************************************************)
(* The legacy wires around the monitor: backend/evaluator_node.py, the     *)
(* legacy half of backend/monitor_node.py and                              *)
(* backend/intervention_supervisor.py.                                     *)
(*                                                                         *)
(*   monitor --- required_aps, state_description ---> evaluator            *)
(*   monitor ------------ state_description --------> supervisor           *)
(*   evaluator -------------- evaluations ----------> monitor              *)
(*                                                                         *)
(* The evaluator is two threads: the executor (the two callbacks and the   *)
(* one-second timer) and the worker that asks the language model.          *)
(*                                                                         *)
(* Abstracted: an AP set or the AP descriptions are the spec they are of;  *)
(* an evaluation is the pair it was made from; of the failure modes the    *)
(* monitor acts on the worst SAFETY one and the supervisor on the first    *)
(* authored, each with the evidence it is breached on: breaches of other   *)
(* categories never grade as a halt.  The wires are reliable and ordered;  *)
(* MaxWire, MaxLag and MaxQueue bound them.                                *)
(***************************************************************************)
EXTENDS Grading, Sequences

CONSTANTS
  Specs, FirstSpec,
  Pushes,            \* specs that may be loaded while the monitor runs
  Passive,           \* the monitor's --passive
  Breaches,          \* evidence a breach may have: see Evidence
  MaxWire,           \* bound on the messages on a wire to the evaluator,
  MaxLag,            \* on the frames the supervisor has not read,
  MaxQueue           \* and on the evaluations queued, and sent

\* How a breached mode is evidenced: by live sources only, by dead ones, or by
\* live ones on a tick whose dead sources are elsewhere on the robot.
Evidence == {"live", "dead", "elsewhere"}

ASSUME LoopAssumption ==
  /\ FirstSpec \in Specs /\ Pushes \subseteq Specs /\ None \notin Specs
  /\ Passive \in BOOLEAN /\ Breaches \subseteq Evidence
  /\ MaxWire \in Nat \ {0} /\ MaxLag \in Nat \ {0} /\ MaxQueue \in Nat \ {0}

VARIABLES
  alive,           \* the monitor: "up", "stopping" (0.5 s to live), "down"
  halted, spec,    \* its flag and its spec
  breach,          \* its worst safety mode: None, or the evidence of the breach
  adapterKnown,    \* it has heard the adapter's manifest
  endedByFault,    \* history: a safety fault ended this run
  apsWire, descWire, supervisorWire, evalWire,
  evaluatorUp, idle, requiredAps, stateDesc,
  queue,           \* query_queue, oldest first
  working,         \* the evaluation the worker is at, or None
  halting          \* the supervisor's flag

loopVars == <<alive, halted, spec, breach, adapterKnown, endedByFault,
          apsWire, descWire, supervisorWire, evalWire,
          evaluatorUp, idle, requiredAps, stateDesc, queue, working, halting>>

monitor   == <<alive, halted, spec, breach, adapterKnown, endedByFault>>
announced == <<apsWire, descWire, supervisorWire>>
evaluator == <<evaluatorUp, idle, requiredAps, stateDesc, queue, working>>

\* A state description: of a run, or one of the two stop frames, which carry
\* neither descriptions nor failure modes.  breach is that of the SAFETY modes the
\* supervisor looks at.
Desc == [state : {"running", "idle", "halt"}, of : Specs \cup {None},
         breach : {None} \cup Row]
StopDesc(state) == [state |-> state, of |-> None, breach |-> None]

\* outlived: history, the evaluator has heard since that the monitor is idle.
Evaluation == [aps : Specs, desc : Specs \cup {None}, outlived : BOOLEAN]

LoopTypeOK ==
  /\ alive \in {"up", "stopping", "down"}
  /\ halted \in BOOLEAN /\ spec \in Specs /\ breach \in Breaches \cup {None}
  /\ adapterKnown \in BOOLEAN /\ endedByFault \in BOOLEAN
  /\ apsWire \in Seq(Specs \cup {None})
  /\ descWire \in Seq(Desc) /\ supervisorWire \in Seq(Desc)
  /\ evalWire \in Seq(Evaluation)
  /\ evaluatorUp \in BOOLEAN /\ idle \in BOOLEAN
  /\ requiredAps \in Specs \cup {None} /\ stateDesc \in Specs \cup {None}
  /\ queue \in Seq(Evaluation) /\ working \in Evaluation \cup {None}
  /\ halting \in BOOLEAN
-----------------------------------------------------------------------------
(* The monitor's legacy half.                                              *)

\* Confidence per mode needs the adapter's manifest; without it one dead
\* source casts doubt on every mode.
Grounds(evidence, known) ==
  [category |-> "SAFETY", sure |-> evidence = "live" \/ (evidence = "elsewhere" /\ known)]

\* The breached SAFETY mode the spec authors first is the worst one, or one that
\* grades below it, for want of evidence.
FirstAuthored(worst) == {worst, [worst EXCEPT !.sure = FALSE]}

\* What the supervisor will find among the failure modes of a running monitor.
FirstBreached(evidence, known) ==
  IF evidence = None THEN {None} ELSE FirstAuthored(Grounds(evidence, known))

\* One frame on each topic; the description reaches two subscribers.
Announce(aps, desc) ==
  /\ apsWire' = Append(apsWire, aps)
  /\ descWire' = Append(descWire, desc)
  /\ supervisorWire' = Append(supervisorWire, desc)

RoomToAnnounce ==
  /\ Len(apsWire) < MaxWire /\ Len(descWire) < MaxWire
  /\ Len(supervisorWire) < MaxLag

PublishLegacyState ==
  IF halted' THEN Announce(None, StopDesc("idle"))
  ELSE \E first \in FirstBreached(breach', adapterKnown') :
         Announce(spec', [state |-> "running", of |-> spec', breach |-> first])

EvaluatorStarts ==
  /\ evaluatorUp = TRUE /\ idle = TRUE /\ requiredAps = None /\ stateDesc = None
  /\ queue = <<>> /\ working = None

\* The monitor announces itself as it starts.
LoopInit ==
  /\ EvaluatorStarts
  /\ alive = "up" /\ halted = FALSE /\ spec = FirstSpec /\ breach = None
  /\ adapterKnown = FALSE /\ endedByFault = FALSE
  /\ apsWire = <<FirstSpec>>
  /\ descWire = <<[state |-> "running", of |-> FirstSpec, breach |-> None]>>
  /\ supervisorWire = descWire /\ evalWire = <<>>
  /\ halting = FALSE

Heartbeat ==
  /\ alive # "down" /\ RoomToAnnounce
  /\ UNCHANGED monitor
  /\ PublishLegacyState
  /\ UNCHANGED <<evalWire, evaluator, halting>>

EnterIdle == halted' = TRUE /\ UNCHANGED alive /\ Announce(None, StopDesc("idle"))

HaltSaysIdle ==
  /\ halted' = TRUE /\ alive' = "stopping"
  /\ Announce(None, StopDesc("idle"))
Halt ==
  \/ Passive /\ EnterIdle
  \/ /\ ~Passive
     /\ halted' = TRUE /\ alive' = "stopping"
     /\ Announce(None, StopDesc("halt"))

\* What the automata made of one evaluation: a violated mode stays violated,
\* its evidence is that of the tick at hand.
Breached == breach' \in IF breach = None THEN Breaches \cup {None} ELSE Breaches

SafetyFault ==
  /\ breach' # None /\ FaultStopsTheRun(Grounds(breach', adapterKnown))
  /\ endedByFault' = TRUE /\ Halt

\* A terminal observation, or too many progress misses.
EpisodeEnds ==
  /\ breach' = None \/ ~FaultStopsTheRun(Grounds(breach', adapterKnown))
  /\ UNCHANGED endedByFault /\ EnterIdle

RunGoesOn ==
  /\ breach' = None \/ ~FaultStopsTheRun(Grounds(breach', adapterKnown))
  /\ UNCHANGED <<alive, halted, endedByFault>>
  /\ PublishLegacyState

StepOnce == Breached /\ UNCHANGED <<spec, adapterKnown>> /\ (SafetyFault \/ EpisodeEnds \/ RunGoesOn)

EvaluationCallback ==
  /\ alive # "down" /\ evalWire # <<>> /\ RoomToAnnounce
  /\ evalWire' = Tail(evalWire)
  /\ \/ halted /\ UNCHANGED <<monitor, announced>>
     \/ ~halted /\ StepOnce
  /\ UNCHANGED <<evaluator, halting>>

Reset ==
  /\ alive # "down" /\ RoomToAnnounce
  /\ halted' = FALSE /\ breach' = None /\ endedByFault' = FALSE
  /\ UNCHANGED <<alive, spec, adapterKnown>>
  /\ PublishLegacyState
  /\ UNCHANGED <<evalWire, evaluator, halting>>

\* Nothing is announced before the next heartbeat.
LoadSpec(s) ==
  /\ alive # "down"
  /\ spec' = s /\ halted' = FALSE /\ breach' = None /\ endedByFault' = FALSE
  /\ UNCHANGED <<alive, adapterKnown, announced, evalWire, evaluator, halting>>

AdapterCallback ==
  /\ alive # "down" /\ ~adapterKnown
  /\ adapterKnown' = TRUE
  /\ UNCHANGED <<alive, halted, spec, breach, endedByFault, announced, evalWire, evaluator, halting>>

DoShutdown ==
  /\ alive = "stopping"
  /\ alive' = "down"
  /\ UNCHANGED <<halted, spec, breach, adapterKnown, endedByFault,
                 announced, evalWire, evaluator, halting>>
-----------------------------------------------------------------------------
(* The evaluator.                                                          *)

\* History: what was sampled before the idle signal just heard.
Outlived(task) == [task EXCEPT !.outlived = TRUE]

NowIdleKeepsQueue(aps) ==
  /\ aps = None /\ ~idle
  /\ queue' = [i \in DOMAIN queue |-> Outlived(queue[i])]
  /\ working' = IF working = None THEN None ELSE Outlived(working)
NowIdle(aps) ==
  /\ aps = None /\ ~idle
  /\ queue' = <<>>
  /\ working' = IF working = None THEN None ELSE Outlived(working)

NowRunning(aps) == aps # None /\ idle /\ queue' = <<>> /\ UNCHANGED working

\* Idle as before, or watching as before, perhaps another spec.
StillSo(aps) == (aps = None <=> idle) /\ UNCHANGED <<queue, working>>

RecordApsOnceIdle(aps) == requiredAps' = IF idle \/ aps = None THEN aps ELSE requiredAps
RecordAps(aps) == requiredAps' = aps

ApsCallback ==
  /\ evaluatorUp /\ apsWire # <<>>
  /\ LET aps == Head(apsWire)
     IN  /\ idle' = (aps = None)
         /\ NowIdle(aps) \/ NowRunning(aps) \/ StillSo(aps)
         /\ RecordAps(aps)
  /\ apsWire' = Tail(apsWire)
  /\ UNCHANGED <<monitor, descWire, supervisorWire, evalWire,
                 evaluatorUp, stateDesc, halting>>

DescCallback ==
  /\ evaluatorUp /\ descWire # <<>>
  /\ descWire' = Tail(descWire)
  /\ IF Head(descWire).state = "halt"
     THEN evaluatorUp' = FALSE /\ queue' = <<>> /\ UNCHANGED stateDesc
     ELSE stateDesc' = Head(descWire).of /\ UNCHANGED <<evaluatorUp, queue>>
  /\ UNCHANGED <<monitor, apsWire, supervisorWire, evalWire,
                 idle, requiredAps, working, halting>>

\* The one-second timer samples; the sensors are read here, with the APs.
EvaluateAndPublish ==
  /\ evaluatorUp /\ ~idle /\ Len(queue) < MaxQueue
  /\ queue' = Append(queue, [aps |-> requiredAps, desc |-> stateDesc, outlived |-> FALSE])
  /\ UNCHANGED <<monitor, announced, evalWire,
                 evaluatorUp, idle, requiredAps, stateDesc, working, halting>>

WorkerTakes ==
  /\ evaluatorUp /\ working = None /\ queue # <<>>
  /\ working' = Head(queue) /\ queue' = Tail(queue)
  /\ UNCHANGED <<monitor, announced, evalWire,
                 evaluatorUp, idle, requiredAps, stateDesc, halting>>

\* Rules, the language model, FALSE for what neither answered: always answered.
ProcessEvaluation ==
  /\ evaluatorUp /\ working # None /\ Len(evalWire) < MaxQueue
  /\ evalWire' = Append(evalWire, working)
  /\ working' = None
  /\ UNCHANGED <<monitor, announced,
                 evaluatorUp, idle, requiredAps, stateDesc, queue, halting>>
-----------------------------------------------------------------------------
(* The supervisor.                                                         *)

\* Of the first violated SAFETY mode in the frame; without one nothing it grades
\* is a halt.
DecideIntervention(desc) ==
  desc.breach # None /\ GradeBreach(desc.breach) >= HALT

OnStateLatches == halting' = (halting \/ DecideIntervention(Head(supervisorWire)))
OnState == halting' = DecideIntervention(Head(supervisorWire))

\* _enforce, ten times a second, sends zero velocity while halting; it changes
\* nothing here.
Supervise ==
  /\ supervisorWire # <<>>
  /\ OnState
  /\ supervisorWire' = Tail(supervisorWire)
  /\ UNCHANGED <<monitor, apsWire, descWire, evalWire, evaluator>>
-----------------------------------------------------------------------------
LoopNext ==
  \/ Heartbeat \/ EvaluationCallback \/ Reset \/ AdapterCallback \/ DoShutdown
  \/ \E s \in Pushes : LoadSpec(s)
  \/ ApsCallback \/ DescCallback \/ EvaluateAndPublish
  \/ WorkerTakes \/ ProcessEvaluation
  \/ Supervise

\* Timers fire, executors serve their subscriptions, the worker's request
\* returns or times out (15 s); resets, specs and a late adapter may never come.
Fairness ==
  /\ SF_loopVars(Heartbeat) /\ SF_loopVars(EvaluationCallback) /\ WF_loopVars(DoShutdown)
  /\ WF_loopVars(ApsCallback) /\ WF_loopVars(DescCallback) /\ WF_loopVars(EvaluateAndPublish)
  /\ WF_loopVars(WorkerTakes) /\ WF_loopVars(ProcessEvaluation)
  /\ WF_loopVars(Supervise)

LoopSpec == LoopInit /\ [][LoopNext]_loopVars /\ Fairness
-----------------------------------------------------------------------------
\* The type invariant, and: of what the evaluator sampled before it heard that the monitor is idle, at
\* most the one evaluation under way is ever published: a slow language model
\* leaves no backlog of old ticks for the next execution (_drain_queue).
NoBacklogOutlivesIdle ==
  /\ LoopTypeOK
  /\ \A i \in DOMAIN queue : ~queue[i].outlived

\* The monitor takes an evaluation made with its own spec's APs and
\* descriptions.
StepsItsOwn(s) ==
  /\ evalWire # <<>> /\ evalWire' = Tail(evalWire)
  /\ Head(evalWire).aps = s /\ Head(evalWire).desc = s

\* Whatever was halted, idled, reset and loaded before: a monitor that from now
\* on runs one spec is stepped, again and again, with evaluations of that
\* spec, though its APs and descriptions travel on two topics and are announced
\* only by the next heartbeat (aps_callback, desc_callback, heartbeat).
RunsOnItsOwnEvaluations ==
  \A s \in Specs :
    <>[](spec = s /\ ~halted /\ alive = "up") => []<><<StepsItsOwn(s)>>_loopVars

\* A halting monitor takes the evaluator with it, whatever frames follow the
\* halt (_halt: "Tell the LLM client to shut down").
HaltStopsEvaluator == alive = "stopping" ~> ~evaluatorUp

\* The supervisor never holds a robot for good whose monitor runs on without a
\* breach (intervention_supervisor: "until the fault clears").
HealthyRobotReleased ==
  <>[](breach = None /\ ~halted /\ alive = "up") => <>[]~halting

\* The robot is held when a safety fault ended the run
\* (intervention_supervisor: "when a SAFETY failure mode is VIOLATED").
SafetyFaultHoldsRobot == endedByFault ~> halting \/ ~endedByFault
=============================================================================
