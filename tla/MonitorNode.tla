----------------------------- MODULE MonitorNode -----------------------------
(***************************************************************************)
(* backend/monitor_node.py: the node that owns the automata.  One action   *)
(* per callback of its single-threaded executor.  What it keeps apart:     *)
(*   - whether it is watching (run state, paused, halted, terminal),       *)
(*   - the clock it hears and how long it has not stepped (silence watch), *)
(*   - the two wires one tick arrives on, and the ledger that admits it,   *)
(*   - the spec it names and the automata it really runs.                  *)
(*                                                                         *)
(* Abstracted: an observation is the tick it describes; what the automata, *)
(* the phase conditions and the grading ladder decide on it is any of the  *)
(* outcomes they can decide (the phase index moves as _update_phase_state  *)
(* moves it, the sinks of the automata are absorbing).  Logging, printing  *)
(* and the legacy mirror topics are left out.                              *)
(***************************************************************************)
EXTENDS TickLedger, PhaseLadder

CONSTANTS
  Phases,           \* Phases[s]: the number of execution phases of spec s
  FirstSpec,        \* the spec the process starts with
  Valid,            \* the specs validate_spec finds no problem with
  Buildable,        \* the specs Spot translates
  Sinks,            \* kinds of automata that can be violated: "formula", "mode"
  FromFile,         \* started with --formulas-file
  Commands,         \* /monitor/command words that may arrive
  Wires,            \* observation topics that deliver
  Pushes,           \* specs that may arrive on /monitor/load_spec
  Files,            \* specs that may be read from a file
  Passive,          \* --passive
  StopOnViolation,  \* --stop-on-violation
  StallTicks,       \* _STALL_TICKS
  ReadmitTicks,     \* _LEGACY_READMIT_TICKS
  MaxSeq, MaxRun,   \* bounds on a tick index (legacy steps too) and on restarts
  MaxGap            \* bound on the pulses lost in a row, plus one

Specs == DOMAIN Phases

ASSUME MonitorAssumption ==
  /\ Phases \in [Specs -> Nat]
  /\ FirstSpec \in Buildable
  /\ Valid \subseteq Specs /\ Buildable \subseteq Specs
  /\ Pushes \subseteq Specs /\ Files \subseteq Specs
  /\ Sinks \subseteq {"formula", "mode"} /\ FromFile \in BOOLEAN
  /\ Commands \subseteq {"arm", "reset", "pause", "resume"}
  /\ Wires \subseteq {"observation", "legacy"}
  /\ Passive \in BOOLEAN /\ StopOnViolation \in BOOLEAN
  /\ StallTicks \in Nat \ {0} /\ ReadmitTicks \in Nat /\ ReadmitTicks > StallTicks
  /\ MaxSeq \in Nat /\ MaxRun \in Nat /\ MaxGap \in Nat \ {0}

VARIABLES
  alive,        \* "up", "stopping" (the 0.5 s halt timer is armed), "down"
  spec,         \* self.spec: the spec verdicts are named after
  autoSpec,     \* the spec self.multi was built from
  watched,      \* formulas_file is set: the heartbeat watches it
  label,        \* active_skill_label
  specStatus,   \* latched /monitor/spec_status: [ok, spec], None before any
  runState, paused, halted, terminal,
  stepIdx,      \* step_idx, counted to 2: all any decision asks of it
  phaseIdx,     \* phase_idx, -1 while idle
  violated,     \* which kinds of automata sit in a sink: "formula", "mode"
  clockSeq,     \* clock_seq, None while _clock_seen is false
  clockEpoch,   \* clock_epoch
  silentSince, stalled,
  ledger, envelopeSeen, readmitted,
  verdict,      \* the last frame on /monitor/verdict, None before any
  parity,       \* history: steps of numbered ticks so far, modulo 2
  quiet         \* history: ticks of this clock run passed with no step and no
                \* reason for none

vars == <<alive, spec, autoSpec, watched, label, specStatus,
          runState, paused, halted, terminal, stepIdx, phaseIdx, violated,
          clockSeq, clockEpoch, silentSince, stalled,
          ledger, envelopeSeen, readmitted, verdict, parity, quiet>>

process  == <<spec, autoSpec, watched, label, specStatus>>
episode  == <<runState, paused, halted, terminal, stepIdx, phaseIdx, violated>>
clock    == <<clockSeq, clockEpoch>>
silence  == <<silentSince, stalled, quiet>>
wires    == <<ledger, parity, envelopeSeen, readmitted>>

RunStates == {"running", "paused", "idle", "halted"}
Terminals == {"SUCCESS", "FAILURE"}

Verdict == [wire : {"observation", "legacy", "clock"}, seq : Nat, missed : Nat,
            terminal : Terminals \cup {None}]

ASSUME NoneIsNoOutcome == None \notin Terminals /\ None \notin Verdict

TypeOK ==
  /\ alive \in {"up", "stopping", "down"}
  /\ spec \in Specs /\ autoSpec \in Buildable
  /\ watched \in BOOLEAN /\ label \in Specs \cup {None}
  /\ specStatus \in [ok : BOOLEAN, spec : Specs] \cup {None}
  /\ runState \in RunStates /\ paused \in BOOLEAN /\ halted \in BOOLEAN
  /\ terminal \in Terminals \cup {None}
  /\ stepIdx \in 0..2 /\ phaseIdx \in Nat \cup {-1} /\ violated \subseteq Sinks
  /\ clockSeq \in Index /\ clockEpoch \in Index
  /\ silentSince \in Index /\ stalled \in BOOLEAN
  /\ ledger \in Ledger
  /\ envelopeSeen \in BOOLEAN /\ readmitted \in BOOLEAN
  /\ verdict \in Verdict \cup {None}
  /\ parity \in {0, 1} /\ quiet \in Nat

Init ==
  /\ alive = "up"
  /\ spec = FirstSpec /\ autoSpec = FirstSpec
  /\ watched = FromFile /\ label = None /\ specStatus = None
  /\ runState = "running" /\ paused = FALSE /\ halted = FALSE /\ terminal = None
  /\ stepIdx = 0 /\ phaseIdx = -1 /\ violated = {}
  /\ clockSeq = None /\ clockEpoch = None
  /\ silentSince = None /\ stalled = FALSE
  /\ ledger = NewLedger /\ envelopeSeen = FALSE /\ readmitted = FALSE
  /\ verdict = None /\ parity = 0 /\ quiet = 0

DeliberatelySilent == halted \/ paused

\* clock_seq as an integer: the attribute starts at 0.
ClockIndex == IF clockSeq = None THEN 0 ELSE clockSeq
-----------------------------------------------------------------------------
(* The pulse: tick_callback, and the silence watch it ends with.           *)

\* Where the silence window starts once this pulse has been read.
WindowStartKept(seq, run) == silentSince
WindowStart(seq, run) == IF run # clockEpoch THEN seq ELSE silentSince

\* Ticks of the new clock run, or of the one that went on, the monitor
\* should have stepped and did not.
QuietAfter(seq, run) ==
  IF DeliberatelySilent \/ run # clockEpoch THEN 0
  ELSE IF seq > ClockIndex THEN quiet + seq - ClockIndex ELSE quiet

StallVerdict(seq, silent) ==
  [wire |-> "clock", seq |-> seq, missed |-> silent, terminal |-> terminal]

WatchReadmitsAtStall(seq, silent) ==
  /\ stalled' = (stalled \/ silent > StallTicks)
  /\ verdict' = IF stalled' THEN StallVerdict(seq, silent) ELSE verdict
  /\ readmitted' = (readmitted \/ (silent >= StallTicks /\ envelopeSeen))
Watch(seq, silent) ==
  /\ stalled' = (stalled \/ silent >= StallTicks)
  /\ verdict' = IF stalled' THEN StallVerdict(seq, silent) ELSE verdict
  /\ readmitted' = (readmitted \/ (silent >= ReadmitTicks /\ envelopeSeen))

\* A pulse while the monitor means to be quiet slides the window along.
PulseInSilenceKeepsWindow(seq) ==
  DeliberatelySilent /\ UNCHANGED <<silentSince, stalled, verdict, readmitted>>
PulseInSilence(seq) ==
  /\ DeliberatelySilent
  /\ silentSince' = seq
  /\ UNCHANGED <<stalled, verdict, readmitted>>

PulseWhileWatching(seq, run) ==
  LET start == WindowStart(seq, run)
  IN  /\ ~DeliberatelySilent
      /\ IF start = None
         THEN silentSince' = seq /\ UNCHANGED <<stalled, verdict, readmitted>>
         ELSE silentSince' = start /\ Watch(seq, IF seq > start THEN seq - start ELSE 0)

TickCallback(seq, run) ==
  /\ alive # "down"
  /\ clockSeq' = seq /\ clockEpoch' = run
  /\ PulseInSilence(seq) \/ PulseWhileWatching(seq, run)
  /\ quiet' = QuietAfter(seq, run)
  /\ UNCHANGED <<alive, process, episode, ledger, parity, envelopeSeen>>

\* The clock publishes forward; a pulse or more may be lost on the way, and a
\* restarted clock begins again under another t0.
Tick ==
  \/ \E gap \in 1..MaxGap :
       /\ clockSeq # None /\ ClockIndex + gap <= MaxSeq
       /\ TickCallback(ClockIndex + gap, clockEpoch)
  \/ LET run == IF clockEpoch = None THEN 0 ELSE clockEpoch + 1
     IN  \E seq \in 1..MaxGap : run <= MaxRun /\ TickCallback(seq, run)
-----------------------------------------------------------------------------
(* Run state: the operator's commands and the ways an episode ends.        *)

ResetForNewSkill ==
  /\ violated' = {} /\ stepIdx' = 0 /\ phaseIdx' = -1
  /\ halted' = FALSE /\ terminal' = None
  /\ ledger' = ResetLedger(ledger)
  /\ runState' = "running"

Restart(command) ==
  /\ command \in {"arm", "reset"}
  /\ paused' = FALSE
  /\ ResetForNewSkill

Pause(command) ==
  /\ command = "pause"
  /\ paused' = TRUE /\ runState' = "paused"
  /\ UNCHANGED <<halted, terminal, stepIdx, phaseIdx, violated, ledger>>

Resume(command) ==
  /\ command = "resume"
  /\ paused' = FALSE /\ runState' = "running"
  /\ UNCHANGED <<halted, terminal, stepIdx, phaseIdx, violated, ledger>>

CommandCallback(command) ==
  /\ alive # "down"
  /\ Restart(command) \/ Pause(command) \/ Resume(command)
  /\ UNCHANGED <<alive, process, clock, silence, parity, envelopeSeen, readmitted, verdict>>

EnterIdleKeepsTerminal(t) ==
  /\ halted' = TRUE /\ runState' = "idle"
  /\ UNCHANGED <<terminal, alive>>
EnterIdle(t) ==
  /\ halted' = TRUE /\ runState' = "idle"
  /\ terminal' = t
  /\ UNCHANGED alive

\* _halt, which --passive turns into idling.
Halt ==
  \/ Passive /\ EnterIdle("FAILURE")
  \/ /\ ~Passive
     /\ halted' = TRUE /\ runState' = "halted"
     /\ terminal' = "FAILURE"
     /\ alive' = "stopping"

\* The timer _halt armed.
DoShutdown ==
  /\ alive = "stopping"
  /\ alive' = "down"
  /\ UNCHANGED <<process, episode, clock, silence, wires, verdict>>
-----------------------------------------------------------------------------
(* A new spec: pushed, named by a skill executor, or edited on disk.       *)

\* The spec is adopted before its automata are built; a build that fails
\* leaves the old automata and everything about the episode as it was.
ReloadSpecsKeepsPhase(s) ==
  /\ spec' = s
  /\ IF s \in Buildable
     THEN /\ autoSpec' = s
          /\ stepIdx' = 0 /\ violated' = {}
          /\ halted' = FALSE /\ runState' = "running"
     ELSE UNCHANGED <<autoSpec, stepIdx, violated, halted, runState>>
  /\ UNCHANGED <<phaseIdx, paused, terminal>>
ReloadSpecs(s) ==
  /\ spec' = s
  /\ IF s \in Buildable
     THEN /\ autoSpec' = s
          /\ stepIdx' = 0 /\ phaseIdx' = -1 /\ violated' = {}
          /\ halted' = FALSE /\ runState' = "running"
     ELSE UNCHANGED <<autoSpec, stepIdx, phaseIdx, violated, halted, runState>>
  /\ UNCHANGED <<paused, terminal>>

LoadSpecCallback(s) ==
  /\ alive # "down"
  /\ specStatus' = [ok |-> s \in Valid, spec |-> s]
  /\ IF s \in Valid
     THEN ReloadSpecs(s) /\ watched' = FALSE
     ELSE UNCHANGED <<spec, autoSpec, watched, episode>>
  /\ UNCHANGED <<alive, label, clock, silence, wires, verdict>>

\* load_formulas_from_file leaves the process when the file does not parse.
LoadFile(s) ==
  \/ ReloadSpecs(s) /\ watched' = TRUE /\ UNCHANGED alive
  \/ alive' = "down" /\ UNCHANGED <<spec, autoSpec, watched, episode>>

ActiveSkillCallback(s) ==
  /\ alive # "down" /\ label # s
  /\ label' = s
  /\ LoadFile(s)
  /\ UNCHANGED <<specStatus, clock, silence, wires, verdict>>

\* The heartbeat that finds its file newer than it last read it.
HeartbeatReload(s) ==
  /\ alive # "down" /\ watched
  /\ LoadFile(s)
  /\ UNCHANGED <<label, specStatus, clock, silence, wires, verdict>>
-----------------------------------------------------------------------------
(* One observation: _on_observation, _step_once and _advance.              *)

\* The phase list was replaced under the machine and no longer has its phase.
PhaseOutOfRange == Phases[spec] > 0 /\ phaseIdx >= Phases[spec]

StepVerdict(a, wire, t) ==
  [wire |-> wire, seq |-> a.seq, missed |-> a.missed, terminal |-> t]

\* A named failure mode or a phase fault that the grading lets stop the run.
\* Whether one is breached and how it grades is the observation's doing.
FaultEndsRun ==
  /\ "mode" \in violated' \/ (Phases[spec] > 0 /\ phaseIdx' >= 0)
  /\ Halt
  /\ UNCHANGED stepIdx

\* Too many progress violations: the run waits for a new execution.
ProgressEndsRun ==
  /\ Phases[spec] > 0 /\ phaseIdx' = (IF phaseIdx < 0 THEN 0 ELSE phaseIdx)
  /\ EnterIdle("FAILURE")
  /\ UNCHANGED stepIdx

CountStep == stepIdx' = IF stepIdx < 2 THEN stepIdx + 1 ELSE 2

ViolationEndsProcess ==
  /\ StopOnViolation /\ violated' # {}
  /\ CountStep
  /\ terminal' = "FAILURE" /\ alive' = "down"
  /\ UNCHANGED <<halted, runState>>

TerminalObservation(t) ==
  /\ ~(StopOnViolation /\ violated' # {})
  /\ CountStep /\ stepIdx' = 2
  /\ Phases[spec] > 0 => phaseIdx' >= 0
  /\ EnterIdle(t)

RunGoesOn ==
  /\ ~(StopOnViolation /\ violated' # {})
  /\ CountStep
  /\ UNCHANGED <<halted, runState, terminal, alive>>

Advance ==
  /\ violated' \in {v \in SUBSET Sinks : violated \subseteq v}
  /\ phaseIdx' \in PhaseMoves(phaseIdx, Phases[spec])
  /\ \/ FaultEndsRun \/ ProgressEndsRun \/ ViolationEndsProcess
     \/ \E t \in Terminals : TerminalObservation(t)
     \/ RunGoesOn
  /\ UNCHANGED paused

NoteSteppingResumed ==
  silentSince' = ClockIndex /\ stalled' = FALSE /\ quiet' = 0

StepOnce(a, wire) ==
  /\ NoteSteppingResumed
  /\ \/ /\ PhaseOutOfRange          \* IndexError in the callback ends the process
        /\ alive' = "down"
        /\ violated' \in {v \in SUBSET Sinks : violated \subseteq v}
        /\ UNCHANGED <<runState, paused, halted, terminal, stepIdx, phaseIdx, verdict>>
     \/ /\ ~PhaseOutOfRange
        /\ Advance
        /\ verdict' = StepVerdict(a, wire, terminal')

\* What the ledger is asked about: the envelope's own index, or none.
AdmitFrom(wire, tick) ==
  Admit(ledger, IF wire = "observation" THEN tick ELSE None, clockEpoch, clockSeq)

\* The envelope demotes the legacy copy of the same tick.
WireSteps(wire) ==
  \/ /\ wire = "observation"
     /\ envelopeSeen' = TRUE /\ readmitted' = FALSE
  \/ /\ wire = "legacy" /\ (envelopeSeen => readmitted)
     /\ UNCHANGED <<envelopeSeen, readmitted>>

IgnoresWhileHalted  == halted
IgnoresObservations == DeliberatelySilent

\* tick is the tick the payload describes; only the envelope says so.
OnObservation(wire, tick) ==
  /\ alive # "down"
  /\ ~IgnoresObservations
  /\ WireSteps(wire)
  /\ LET a == AdmitFrom(wire, tick)
     IN  /\ ledger' = a.ledger
         /\ parity' = IF a.step /\ wire = "observation" THEN 1 - parity ELSE parity
         /\ \/ a.step /\ StepOnce(a, wire)
            \/ ~a.step /\ UNCHANGED <<alive, episode, silence, verdict>>
  /\ UNCHANGED <<process, clock>>

\* The legacy control keys: __reset__ counts only while halted, __done__ always.
ResetKey ==
  /\ alive # "down" /\ "legacy" \in Wires /\ halted
  /\ ResetForNewSkill
  /\ UNCHANGED <<alive, process, paused, clock, silence, parity, envelopeSeen, readmitted, verdict>>

DoneKey ==
  /\ alive # "down" /\ "legacy" \in Wires
  /\ alive' = "down"
  /\ UNCHANGED <<process, episode, clock, silence, wires, verdict>>

\* A tick is observed at the earliest when the clock publishes it, which may
\* be one pulse before the monitor hears of it.  After a restart the tail of
\* the run before, whatever it reached, may still arrive.
Observation ==
  \E wire \in Wires : \E tick \in 1..MaxSeq :
    /\ tick <= ClockIndex + 1 \/ clockEpoch \notin {None, 0}
    /\ wire = "legacy" => NextImplicit(ledger) <= MaxSeq
    /\ OnObservation(wire, tick)
-----------------------------------------------------------------------------
Next ==
  \/ Tick
  \/ \E c \in Commands : CommandCallback(c)
  \/ \E s \in Pushes : LoadSpecCallback(s)
  \/ \E s \in Files : ActiveSkillCallback(s) \/ HeartbeatReload(s)
  \/ Observation \/ ResetKey \/ DoneKey
  \/ DoShutdown

Spec == Init /\ [][Next]_vars
-----------------------------------------------------------------------------
(* Silence.                                                                *)

\* A monitor that let StallTicks ticks of one clock run pass without a step,
\* and had no reason to, says so: no pause, reset, refusal, lost pulse or clock
\* restart in between hides a stall (_watch_for_stepping_silence,
\* _begin_silence_window).
StallNeverMissed == quiet >= StallTicks => stalled

\* A stall verdict's missed_ticks is the number of ticks of the current clock
\* run that passed unstepped while the monitor was watching: never negative,
\* never measured across a restart, never charging a pause to the run after it.
StallCountIsHonest ==
  [][verdict' # verdict /\ verdict'.wire = "clock" => verdict'.missed = quiet']_vars

\* Paused, halted or idle, the monitor publishes no verdict and steps nothing,
\* whichever wire or pulse arrives (docs/api.md, "no -- it is not stepping").
DeliberateSilenceQuiet ==
  [][DeliberatelySilent => UNCHANGED <<verdict, ledger.lastSeq>>]_vars

\* On a pulse of a watching monitor the demoted legacy wire may step again
\* exactly when ReadmitTicks ticks have gone by without a step, not before and
\* not later: a slow envelope does not let one tick step twice, and a dead one
\* deafens the monitor no longer than that.
LegacyReadmittedOnTime ==
  [][<<clockSeq, clockEpoch>>' # <<clockSeq, clockEpoch>> /\ ~DeliberatelySilent =>
       (readmitted' <=> readmitted \/ (envelopeSeen /\ quiet' >= ReadmitTicks))]_vars

Stepper == INSTANCE OneStepPerTick
             WITH stream <- ledger.epoch, high <- ledger.lastSeq

\* Across both wires, pauses, resets, reloads and clock restarts the automata
\* are stepped for each numbered tick of a clock run at most once, forwards.
StepsEachTickOnce == Stepper!Spec
-----------------------------------------------------------------------------
(* Episodes.                                                               *)

\* The run that ended ended with its verdict: while the monitor is halted or
\* idle the last frame on the wire is the one of the tick that ended the
\* episode and names the terminal state (_step_once).
RunEndsWithItsVerdict ==
  halted => /\ terminal # None
            /\ verdict # None
            /\ verdict.wire # "clock" /\ verdict.terminal = terminal

\* A published run state that says the monitor is not watching is true.
SilentStatesAreSilent ==
  /\ runState = "paused" => paused
  /\ runState \in {"idle", "halted"} => halted

-----------------------------------------------------------------------------
(* Specs and frames.                                                       *)

\* After any history of pushed, named and edited specs, a spec that could be
\* built never meets a phase index of another one (phases[idx] in
\* _update_phase_state).
PhaseIndexInSpec == spec \in Buildable => ~PhaseOutOfRange
=============================================================================
