# LtlMonitor in TLA+

LtlMonitor watches a robot skill at run time. A *clock* publishes ticks, an
*evaluator* turns each tick's sensor data into atomic propositions, a *monitor*
steps LTL automata and a phase machine with them and publishes one verdict per
tick, and a *supervisor* acts on the verdict. Everything the monitor says is only
worth something if one tick is one step. This directory models the parts that
decide that, checks them with TLC and proves their main properties with TLAPS.

Paths below are relative to `src/skill_monitor/` unless they begin with `docs/`.

## Inventory

| component | source | state it keeps | operations |
|---|---|---|---|
| clock | `core/clock.py`, `backend/clock_node.py` | `_seq`, `_epoch_t/_epoch_seq`, period, pause flag, time source, whether a monitor is armed | poll (timer), `POST mode / step / rate` (HTTP thread), hear command and verdict |
| tick ledger | `core/manifest.py` 139-347 | high-water mark, epoch, implicit counter | `admit`, `reset` |
| monitor node | `backend/monitor_node.py` | run state and the flags behind it, clock heard, silence window, which wires live, spec, automata | pulse, observation (two wires), command, pushed spec, active skill, heartbeat, halt timer |
| phase machine | `monitor_node.py` 1208-1389 | `phase_idx`, `phase_step_count`, `phase_violation_count` | one update per step |
| grading | `manifest.py` 436-1175, `core/monitor_action.py` | none | category, confidence, token, verdict word |
| automata | `core/automata.py` | current state of each, absorbing verdicts | `step`, `reset` |
| evaluator | `backend/evaluator_node.py` | required APs, idle flag, evaluation queue | tick, APs, idle and halt signals, evaluate and publish |
| supervisor | `backend/intervention_supervisor.py`, `core/supervisor_logic.py` | last intervention | verdict to action |
| gateway | `backend/gateway.py` | two budgets, latched slots, listeners, client queues | WebSocket stream, relayed clock stream, page and clock requests, `POST spec / command` |
| sensor state, adapters | `core/adapter_spec.py`, `backend/adapters/` | fields and their freshness | per-message fold, per-tick snapshot, raw echo |
| stuck detector, episode outcome | `core/stuck_detector.py`, `core/episode_outcome.py` | streak, outcome | per-tick update |
| recording, replay | `core/recording.py`, `backend/replay_node.py` | file position, replayed clock | record, replay |
| describer | `describer/` | none beyond one request | prompt, parse, validate, retry |
| contract, discovery | `core/api.py`, `core/spec_contract.py`, `core/discovery.py` | none | validators, topic names |
| mock monitor | `frontend/mock_monitor.py` | step, run state, spec, automata, latched frames, subscribers | the episode thread, command, load spec, subscribe |
| frontend, tools, simulation | `frontend/`, `tools/`, `sim/` | presentation | I/O |

**How they interact.** All of it is publish/subscribe. The clock publishes
`/monitor/tick` (`seq`, `t`, `tick_hz`, `t0`). The evaluator answers each tick with
an envelope on `/monitor/observation` that names its `seq` but not its `t0`, and,
during a migration, with a flat copy on `/ltl/evaluations` that names neither.
The monitor hears all three on one single-threaded executor, publishes
`/monitor/verdict` once per step, and latches `monitor_status`, `spec_status` and
its manifest. Operators send `/monitor/command`; the clock listens to commands and
verdicts to know whether a rate change would redefine an episode's budgets.

**What is hard here.**

* Two topics carry one tick: they race each other, and after a clock restart the
  tail of one run arrives among the head of the next, told apart only by `t0`, which
  travels on the pulse.
* The same tick arrives on two wires; the one without a number must step only when
  the other is dead, and dead is known only from ticks going by.
* Silence has two meanings, a stall and an operator's pause; a window measured in
  clock indices must survive pauses, lost pulses and a clock that begins again.
* An episode ends by five paths through one callback and is restarted by four
  others; the flags, the published run state and the terminal state must agree.
* A spec is replaced under a running phase machine, and its automata may fail to
  build half-way.
* The clock's engine is polled by one thread and changed by another with no lock,
  and its boundary arithmetic is re-based by rate, mode and resume; the thread that
  makes a pulse also writes it to every stream client, so a client's socket, lock and
  departure are in the way of the next pulse.
* The evaluator is slow: what it was asked before a halt, an idle or a new spec comes
  back after it, and what it is asked arrives on two topics.
* The gateway's budgets are taken by one thread and given back by another path of it,
  through handover, refusal and hang-up.
* A tick of sensor data may fail half-way, and everything it had changed has to be put
  back.

**What makes each correct.** Clock: `seq` and `t` only grow, no burst after a
stall, paused time is no gap, no pulse is dated ahead. Ledger: each tick of a
run of the clock steps once, forwards, and the missed counts rebuild the axis.
Monitor: a stall is announced with its true length and deliberate silence is
silent; the last frame of a run is the verdict that ended it; what it publishes of
its state is true; it never indexes another spec's phases. Phase machine: counters
belong to the phase they were counted in; a budget is in ticks that were judged.
Grading: the token and what the process does agree. Evaluator: one observation per
tick, none after idle. Gateway: a slow client loses old frames only, and an answer
belongs to its post.

## Plan

The order is that of what the rest depends on: first whether a tick steps, then
what a step may do, then who makes the ticks and observations, then who reads the
verdicts.

1. `OneStepPerTick` (the promise), `TickLedger` (the rule), `TickStream` (clock,
   transport, ledger). *Done: checked and proved.*
2. `MonitorNode`: the whole node over the ledger. *Done: checked and proved.*
3. `Clock`, `ClockStream`. *Done: checked, and every property but liveness proved.*
4. `PhaseMachine` and `Grading`: the counters of `_update_phase_state`, the failure
   modes, confidence and de-escalation, the token. *Done: checked, and every
   property proved.* `PhaseLadder` is the contract between
   it and `MonitorNode`: the one moves as it says, the other assumes no more.
5. `LegacyLoop`: evaluator, worker and supervisor, composed with the monitor's halt
   and idle signals. *Done: checked, and its invariant proved.*
6. `ClientStream`, `Gateway`: the client queue, and the abstract `CountedLoss` it
   implements; the budgets; a posted spec and its answer. *Done: checked, and every
   property but liveness proved, the refinement too.*
7. `Automaton`, `Replay`; `Descriptor`, `Provenance`, `Sensors`. *Done: checked, and
   every invariant proved but the half of `StatusIsJust` that depends on Spot.*
8. `MockMonitor`, the other monitor behind the gateway. *Done: checked, and every
   property proved.*
9. Left: the composition of the evaluator's lag with the automata's required APs, and
   the discovery table of the gateway.

## Modules

| module | models | state and actions in the code |
|---|---|---|
| `OneStepPerTick` | what the docstring of `TickLedger` promises | the run followed, its highest stepped tick, and whether a step was made; a step goes forward, a run that was left stays left |
| `TickLedger` | `manifest.TickLedger` | a record of the attributes a later decision reads; `Admit` is `admit` with its early returns (ahead, redelivered, stale), `ResetLedger` is `reset` |
| `TickStream` | the ledger between its two topics | `pulses` and `wire` are the topics in flight; `Pulse`, `RestartClock` the clock; `DeliverPulse` is `tick_callback`, `Deliver` is `_on_observation` up to the ledger's answer; `LosePulse`, `LoseObservation`, `DeliverOutOfOrder`, `Redeliver` the transport |
| `MonitorNode` | `LtlMonitorNode` | variables carry the attributes' names; one action per callback: `Tick` (`tick_callback` and the silence watch it ends with), `CommandCallback`, `LoadSpecCallback`, `ActiveSkillCallback`, `HeartbeatReload`, `Observation` (`_on_observation`, `_step_once`, `_advance`), `ResetKey` and `DoneKey` (legacy control keys), `DoShutdown` (the halt timer) |
| `PhaseLadder` | the course of an episode through its phases | where one tick may take `phase_idx`; `MonitorNode` assumes it, `PhaseMachine` keeps to it |
| `Grading` | `grade_action`, `decide_intervention`, and from `manifest.py` `source_confidence`, `breached_mode`, `risk_block`, `fault_stops_the_run` | pure operators; a breach is a category and whether its evidence is fresh enough |
| `PhaseMachine` | `_update_phase_state`, the ends `_advance` makes of faults, the token of the verdict | `idx`, `steps`, `misses` are `phase_idx`, `phase_step_count`, `phase_violation_count`; `Step` is one observation stepped, `ResetForNewSkill` the reset |
| `Clock` | `TickEngine`, `ArmedTracker`, `ClockService`, the two threads of `clock_node` | `engine` is the engine with its source; a call is cut where it writes what the other thread reads (`PostStep`, `StepAdvances`, `StepTakesNext`, `Emit`, `Dispatch`; `PostMode`, `SwapSource`, `SetOrigin`, `SetPaused`, `Rebase`) |
| `ClockStream` | `ClockService._dispatch` and its sinks, `_WebSocketClient`, `_stream`, `PollTimerTuner` | a thread (executor or HTTP) that emits a pulse writes it to each client of its copy of the list: `Enter`, `Write`, `WriteFails`; `client` is a handler with its lock and its peer's socket; `SetRate`, `ReadRate`, `Request` are a rate request up to the tuner, `OnTimer` applies it |
| `LegacyLoop` | `evaluator_node.py`, `intervention_supervisor.py`, the legacy topics of the monitor | four wires; the evaluator's two callbacks, its timer and its worker are an action each; on the monitor's side what publishes, ends or restarts a run; `Supervise` is `_on_state` |
| `ClientStream` | `gateway.ClientStream` | a record, each method an operator |
| `CountedLoss` | what the gateway promises a viewer | frames in order, some left out, and how many is told |
| `Gateway` | `_Handler`, `Gateway`, `RclpyBus` | one program counter per connection, following the handler through admission, handover, stream, relay, clock request or post, and the `finally` of `_route`; `sending` is the frame in `_ws_send`, `gone` the dead connections; `Frame`, `OnMessage`, `OnLatched` are the executor's |
| `Automaton` | `LTLMonitor`, `MultiMonitor` | operators over any automaton: `Advance` is `step`, `Sinks` the sink analysis, `Required` is `get_required_aps` |
| `Replay` | `recording.py`, `replay_node.py` | a live run with its recorder, then the player against a monitor that is `"fresh"`, the `"same"` or `"down"` (`host`); the tape is its inputs in order and its verdicts by seq; the monitor answers with `TickLedger` and `Automaton` |
| `Descriptor` | `adapter_spec.py`: the load-time rules, one step, a fold | operators; a descriptor is the sequence of the steps of all its sources, a step is known by its place, and a streak belongs to the step that counts it |
| `Provenance` | `manifest.py`: sources behind a key, a rule, a mode | operators |
| `Sensors` | `SensorState`, `DeclarativeAdapter`, `RawEcho` | `Deliver` is `update`, `Tick` commits or raises, `TakeEcho` is the evaluator's timer |
| `MockMonitor` | `frontend/mock_monitor.py` | the thread of `_run`, cut where it reads and writes what a handler writes (`Wake`, `Count`, `Look`, `Put`, `EndOfTick`); a handler's command or spec, cut likewise (`Rewind`, `Forget`, `Enter`, `Flag`, ...; `Adopt`, `Restep`, `Recompile`, `Reinit`); a spec's graphs are a function of their names, and `todo` is the set of those the tick has not come to |
| `MCTickStream`, `MCMonitorNode`, `MCPhaseMachine`, `MCGateway`, `MCReplay`, `MCSensors`, `MCMockMonitor` | | values of the constants for TLC |
| `TickStreamProofs`, `MonitorNodeProofs`, `PhaseMachineProofs`, `ClockProofs`, `ClockStreamProofs`, `GatewayProofs`, `MockMonitorProofs`, `PipelineProofs` | | lemmas and theorems |

`PipelineProofs` is about `Sensors` and `Replay`, the two ends of the pipeline around
the monitor, and `PhaseMachineProofs` about `PhaseMachine` and about `LegacyLoop`, which
share `Grading`. A module can extend two specifications only when their names differ:
those of `Sensors` and `LegacyLoop` are therefore `SensorsSpec`, `SensorsInit`,
`sensorsVars`, `LoopSpec`, `LoopInit`, `loopVars` and so on.

`TickStream` and `MonitorNode` both extend `TickLedger` and both implement
`OneStepPerTick`. They divide the environment: `TickStream` has the topics, with
every order in which their messages can meet, and a monitor that only admits;
`MonitorNode` has the whole monitor, and an environment that sends any pulse and
observation the topics could deliver.

Definitions named as another with a suffix (`GapOffByOne`, `EnterIdleKeepsTerminal`)
are plausible slips of the definition that follows them; they are used to confirm
that the property about it would notice.

**Abstractions.** Each module's header says what it leaves out. In `MonitorNode` an observation is the tick it describes. What the automata, the
phase conditions and the grading decide on it is any outcome they can have: the
kinds of automata in a sink only grow, the phase index moves to where
`_update_phase_state` can move it, and the run ends by any path the flags allow.
`step_idx` is counted to 2, which is all `terminal_observation` asks of it. `t0` is
a run number. In `PhaseMachine` an observation is the declared conditions it breaks
and the sources that were stale; whether a phase may be entered or left is free, and
the failure modes violated only grow. `ended = "halted"` is a call of `_halt`, which
under `--passive` ends in idle; `--stop-on-violation` is left to `MonitorNode`. A
confidence is compared with one half and never looked at otherwise. In `Clock`, time is counted in units and a period is a whole number
of them, so the correction `_boundary_at` makes for floats has nothing to do. Its two threads
take no lock, so any call may begin while another is under way; `overlaps` is the
history of the pairs that did, and a property that such a pair breaks says up to
which pair it holds. In `LegacyLoop` the monitor acts on the worst of its breached
SAFETY modes and the supervisor on the first one authored, which may be graded lower
for want of evidence.
Logging, printing, the legacy mirror topics and counters nobody reads back are left
out. Variables described as *history* are not in the code; only bounds and
properties read them.

## What the runs show

| run | configuration | shows |
|---|---|---|
| tick_stream | `TickStream.cfg` | three runs of the clock of 2, 1 and 3 ticks, two messages in flight per topic, loss, repetition, reordering: `StepsEachTickOnce`, `TickAxisReconstructs`; and, on an orderly transport, `FollowsOrderly`: the last tick of a restarted clock is stepped |
| monitor_silence | `MonitorSilence.cfg` | pulses to 5, up to one lost between two, one clock restart, both wires, reset, pause, resume, `--passive`: `StallNeverMissed`, `StallCountIsHonest`, `DeliberateSilenceQuiet`, `LegacyReadmittedOnTime` |
| monitor_episodes | `MonitorEpisodes.cfg` | specs of 2, 1 and 0 phases, one that does not translate, one that is refused; pushed, named and edited while episodes end every way they can, with `--stop-on-violation` and the halt timer: `RunEndsWithItsVerdict`, `PhaseIndexInSpec` |
| clock | `Clock.cfg` | periods 1 and 2, wall and manual, the calls of the two threads in every interleaving: `PulsesAdvance` (`seq` grows until a single step has met a poll, `t` until any two calls have overlapped), and until two calls have overlapped `NeverAheadOfClock`, `SkipsOnlyLostTime` (no paused time in a gap, no burst) |
| phase_machine | `PhaseMachine.cfg` | two phases, one with a budget and one with a precondition, three named failure modes, two sources that go stale: `OneDecision`, `ProvenBreachEndsRun`, `PhaseClock`, `ProgressFaultEarned`, `PhasesInOrder` |
| legacy_loop | `LegacyLoop.cfg` | two specs, breaches on live data, on dead, and beside dead: `NoBacklogOutlivesIdle`, `RunsOnItsOwnEvaluations`, `HaltStopsEvaluator`, `HealthyRobotReleased` |
| supervisor | `Supervisor.cfg` | refutes `SafetyFaultHoldsRobot` |
| gateway | `Gateway.cfg` | two viewers and a page request, two pushers, or one of each, with two requests and one stream allowed: `BudgetsAreThreads`, `LonePushIsCertain`, `StreamsCountLoss` (the refinement), `SlotsComeBack` |
| sensors | `Sensors.cfg` | every descriptor of two sources with a debounce and a derived flag: `InputsAreSettled`, `DebounceCountsTicks`, `PoisonCostsOneWindow`, `EchoAccounts`, `FaultsBelievedOnTheirData` |
| replay | `Replay.cfg` | four recorded inputs, two runs of the clock, a stall after two ticks, the automata of two formulas: `ReplayAgrees`, `ReplayEnds`, `RequiredApsSuffice`, `StatusIsJust` |
| clock_stream | `ClockStream.cfg` | two clients, the timer and one HTTP thread: `ClientsHearEveryPulse`, `TimerFollowsRate`, `GoneClientLetsGo` |
| mock_monitor | `MockMonitor.cfg` | two operators with two requests between them, one page, two specs: `NewestIsHeard`, `SinkHolds`, `StepWithinEpisode` |

**Bounds and why they are enough.** A straggler problem needs two runs of the clock
and two messages in flight; a third run lets a straggler cross two restarts. The
silence watch has two thresholds; `StallTicks = 2` and `ReadmitTicks = 3` keep them
apart (5 and 10 in the code) and `MaxSeq = 5` lets both pass twice around a pause.
`MaxGap = 2` is one lost pulse in a row. An episode's end looks at `step_idx >= 2`,
so three ticks reach every path with a tick to spare. Two phases have a first, a
next and a past-the-end index. A camera, an imu and a budget of three ticks give the
phase machine a safety breach that is proven beside one that is not, a milder one
beside both, and a fault held back a tick before the budget ends; `MaxTicks = 5` is
the budget, the tick it runs out on, and one held back. `Clock` with periods 1 and 2 over three time units has a
boundary that falls inside the other period's interval, two numbered boundaries and
one more pulse are a pulse before and one after any request or overlap, and
`Hold = 0` lets the armed tracker expire at once.

`LegacyLoop` with two messages per wire can have an old frame and a new one on each,
which is what the two topics of one announcement can disagree by; one evaluation
queued, one at work and one sent are the three places an old one can hide.
`Gateway` with two requests and one stream reaches both limits; a queue of two and
five frames drop more than one in a row, and two pushers overlap in every order.
`Sensors` with three samples in a window has a good, a bad and a missing one; a
streak of threshold two passes its threshold. `Replay` with four inputs has a spec,
a command or a restart between two observed ticks, and at `StallTicks = 2` (5 in the
code) a stall that is announced and one that a step ends. `ClockStream`: two pulses are
enough for a client to be between two threads, a socket of one frame blocks on the
second. `MockMonitor`: three ticks pass the end of an episode of two; its two
operators are interchangeable (the `SYMMETRY` of the cfg, used with safety only).
There the bound lets the operators pause, reset and load specs; resume, which is a
reset without the restart, and specs that are refused are in the module and not in
the run.

Deadlock is not checked: every model stops at its bounds, and
a process that went down does nothing more.

**Fairness.** A timer fires again, an executor runs the callbacks of delivered
messages, a thread that can go on does. Nobody has to push, command, load, lose,
repeat, restart, connect or read.

* `TickStream`: `WF` of `Pulse` and of the two deliveries. `FollowsOrderly` holds of a
  transport that loses nothing and of a last run longer than the ones before it;
  with a shorter one a straggler can hide its last tick.
* `LegacyLoop`: `WF` of the callbacks, the sampling timer, the worker (a request to
  the language model returns or times out) and the halt timer; `SF` of the
  heartbeat and the evaluation callback, which only the bound on the wires can
  disable again: in the code both run whatever is in flight.
* `Gateway`: `WF` per handler thread while it is inside the gateway's code, and of the
  executor; a read of a dead connection returns. `SendFrame` has none: a client that is
  there and does not read holds its thread and its slot. A relayed clock stream owes
  nothing, its peer may be silent for good; connecting to the clock and a request to
  it time out. `post_spec` waits at most `spec_timeout`, so `WaitEnds` needs no answer.
* `Replay`: `WF` of the monitor's executor and of the player's loop.
* `ClockStream`: `WF` of a thread's progress through its clients, of a handler that
  sees its peer gone, and of the kernel's giving up on a vanished one; no peer has
  to read.

### Where code and documents differ

* **A halted run holds no robot** (run `supervisor`). `intervention_supervisor.py` 4-6:
  "when a SAFETY failure mode is VIOLATED ... it overrides Nav2". A mode graded HALT or
  worse ends the run first, and a halted monitor publishes no description
  (`monitor_node.py` 1839): the supervisor hears `halt` or `idle`, without failure
  modes. Only a breach that was doubted and is believed later is ever seen violated
  by it.

Known, without a run of their own. Each is reachable in the module named; a property
that states the document's claim would fail, so none is among the runs.

* *Lost ticks per restart* (`TickStream`). `core/manifest.py` 234 counts one lost tick
  per clock restart. Each straggler of the old run that passes the clock check takes
  the place of a tick of the new run; two in flight cost two.
* *Resume while halted* (`MonitorNode`). `resume` (`monitor_node.py` 1050-1052)
  announces `running` and leaves `halted` set; the comment at 713-717 rules that out.
* *Reload after the end* (`MonitorNode`). A spec file edited after an episode ended
  (the way out the idle banner offers) restarts the stepping and leaves `terminal`
  non-null in every verdict; `docs/api.md` 260-263 says such a verdict is the last.
* *Accepted but not running* (`MonitorNode`). A pushed spec whose formula does not
  translate is announced as accepted (1066) while the old automata go on (1180).
* *One seq, two pulses* (`Clock`). A step served on the HTTP thread and the poll of
  the executor's timer can publish the same `seq`; `core/clock.py` 48 says never. Nor
  does `t` always grow: a poll that meets a re-base can be dated before the last
  pulse, and a pulse dated ahead of the clock or a gap of paused time come about like
  it. `PulsesAdvance`, `NeverAheadOfClock` and `SkipsOnlyLostTime` name the overlaps
  they except; without the exception the run `clock` refutes each.
* *Two bounds, one imminence* (`PhaseMachine`, `Grading`). `decide_intervention` grades a
  progress warning at the distance of the timeout when the phase has a budget
  (`core/supervisor_logic.py` 71-73), so a fault one miss away leaves the token at
  CONTINUE; lines 10-11 promise a rung before the hard fault.
* *A stall verdict and the late step's verdict share a `seq`* (`MonitorNode`), which
  `docs/api.md` 347-348 calls unique; a legacy copy that arrives before the first
  envelope steps, and the envelope steps again; a precondition broken on stale data
  is held back and never asked again, where `docs/api.md` 306-308 lets a held fault
  end the episode once its data is fresh.
* *Tick steps and sources* (`Provenance`). A step on the tick may read keys of another
  source (`adapter_spec.py` 840-842 says so); `manifest.py` 752-755 calls a step's
  inputs "keys of the same source" and attributes what it writes to its own source
  only, so a stale input does not make it doubtful. `dist_to_goal` of all three shipped
  descriptors (`real_g1.json`, `isaac_lab.json`, `mujoco.json`) is such a key: it is
  computed from odometry and believed for as long as the goal is fresh.
  `FaultsBelievedOnTheirData` leaves out the keys computed by such a step, or by one
  that reads only what it writes itself (`StaysHome`), and speaks of all others of
  every descriptor that loads; the run has descriptors of both kinds.
* *Gateway* (`Gateway`). After discovery a monitor's old status is replayed, and an
  answer may come after the 504; both are taken as answers to whatever push listens.
  The settle time after a publisher is made (`gateway.py` 573) can lose the push. A relay learns that its client is gone only when the clock
  speaks (1835), and a client that sends a close frame and stops reading keeps its
  slot (1911 has no timeout): both slots are lost for as long as it lasts. Pong (1947)
  and sender (1911) write one socket without a lock; `ws_read` (803) drops
  fragments. The last two and the settle time are outside the model.
* *Replay* (`Replay`). `recording.py` 56 leaves `/ltl/evaluations` and
  `/ltl/active_skill` out of the inputs, and the evaluator of this commit publishes
  only the former (`evaluator_node.py` 98), against "exact by construction"
  (`recording.py` 26-27). A replay into the monitor that was recorded is refused tick
  by tick and still ends; two empty sets of verdicts compare equal.
* *Clock stream* (`ClockStream`). A client that lives and never reads blocks the thread
  that writes to it, the executor's too, and with it the clock; two dispatches that
  overlap may reach a client in either order; two overlapping rate requests can leave
  the timer at the period of the one that lost.
* *Mock* (`MockMonitor`). Two operators' pause and reset interleave in `_set_state` and
  leave `_paused` set under the state `running`, after which a further reset returns
  early at the comparison: 845-849 call that "a control that appears to have worked
  and has not". A reset's `_step = 0` can be lost to the thread's `_step += 1`; a
  state computed before a reset can be written after it; an older status can be
  replayed after a newer one; two loads can leave the spec of one and the automata of
  the other.
* *Sensors* (`Sensors`). No module of this commit calls `SensorState.tick` or `reset`;
  the model calls them as the tests and `docs/packages/P3` do. The shipped
  `nav_stuck` streak counts per message, where `DebounceCountsTicks` speaks of
  streaks on the tick.

## What is proved

For every value of the constants that satisfies `NoneAssumption`,
`TickStreamAssumption`, `MonitorAssumption`, `NoneIsNoOutcome`, `GradingAssumption`,
`PhaseAssumption`, `ClockAssumption`, `StreamAssumption`, `GatewayAssumption`,
`MockMonitorAssumption`, `ClockStreamAssumption`, `LoopAssumption`,
`DescriptorAssumption`, `SensorsAssumption`, `ApsAssumption` and
`ReplayAssumption`. They give the parameters their
types and keep None apart from their values, and a few say more:
`ClockStreamAssumption` has `_POLL_DIVISOR` at least five (it is 20) and a floor that is
no more than a fifth of every tick that may be declared; `MonitorAssumption` has
`_LEGACY_READMIT_TICKS` above `_STALL_TICKS` (10 and 5); `SensorsAssumption` has the
steps of a descriptor in the order of its sources; `ReplayAssumption` has every
automaton complete, as `automata.py` asks of Spot.

* **`TickStreamProofs`.** `TypeCorrect`. `AxisReconstructs`: `TickAxisReconstructs`
  says nothing of a stream without a first step, so the inductive `AxisInv` adds that
  there is a mark exactly when the axis has a first tick. `LedgerImplementsOneStepPerTick`:
  that no run is returned to needs the order of the runs all the way along the
  channel, ledger no later than node, node no later than any pulse in flight, pulses
  sorted, no later than the clock (`RunOrder`); with it every step maps to a step of
  `OneStepPerTick` or a stutter.
* **`MonitorNodeProofs`.** `TypeCorrect`. `StallAnnounced`, `StallCountCorrect`: the code
  keeps the start of the silence window and not its length; `SilenceInv` says that
  start and ticks gone by add up to the clock's index, and that a window of a stall's
  length is announced. Inductive because each pulse moves both sides alike
  (`PulseEffect`), a step ends both, and nothing else touches them. `SilenceIsQuiet`
  from the types and the same invariant. `RunEndsWithVerdict`, `PhaseIndexValid`,
  `RunStateHonest` from `EpisodeInv`, their conjunction, with `SilenceInv` for the stall
  verdict that might follow the last one. `LegacyReadmission`: the window's length is the
  ticks gone by, so the pulse that readmits the legacy wire is the right one, after a
  pause and a clock restart too. `MonitorImplementsOneStepPerTick`: the ledger
  follows a run the node has heard of (`RunOrder`).
  Both modules begin with the lemmas on `Admit` they rest on: it returns a ledger, a
  numbered step becomes the mark and lies beyond the old one by the gap reported plus
  one, a refused or unnumbered one moves no mark, the epoch is the one it was told.
* **`PhaseMachineProofs`.** `TypeCorrect`. `PhaseClockRight`, `ProgressFaultIsEarned`:
  the counters are told from the history by `MachineInv`, which adds that the miss
  counter is the row of misses and stays below its limit while the run goes on;
  `TickOutcome` says once in which five ways a tick in a phase can go, and the step is
  proved way by way. `PhasesTakenInOrder` is the promise `PhaseLadder` makes to
  `MonitorNode`. `TokenAndEndAgree` and `ProvenBreachStops` rest on `BreachedModeIsWorst`
  (of any breaches one grades worst, and it is the one chosen: a least rank, then a least
  position) and on `Decision`, that the worst row of the modes and the worst of modes
  and phase fault fall on the same side of the stop rule. Of `LegacyLoop`,
  `NoBacklogEverOutlivesIdle`: `LoopInv` adds that the evaluator is awake exactly when
  it knows APs, without which a sample of the timer has none.
* **`ClockProofs`.** For the two threads in every interleaving, since no lock keeps
  their calls apart. `TypeCorrect`. `PulsesAdvanceHolds`: by `SeqInv`, until a single
  step has met a poll, no thread carries an index that the engine has gone past.
  `NeverAhead`, `SkipsOnlyLostTimeHolds` and the `t` of `PulsesAdvanceHolds` are claims
  up to the first overlap, and so is `ClockInv`. None is inductive by itself: a poll publishes what an
  earlier request re-based. `ClockInv` adds that the last pulse is no later than the
  boundary its index stands for (`EngineInv`, false only between a rate and its
  re-base), that what a thread carries from one of its writes to the next still fits
  the engine (`ThreadInv`), that the wire has the last pulse or the one before it
  (`WireInv`), and that the clock is less than a period further past its boundary than
  it has been awake (`AwakeInv`). The arithmetic is in `DivisionBounds` and the lemmas
  on `BoundaryAt`: the boundary taken is the last one not later than now.
* **`ClockStreamProofs`.** `EveryPulseHolds`: `ClientsHearEveryPulse` speaks of clients;
  `PulseInv` adds that no two threads have one pulse and that a thread's copy names
  nobody twice (`SendInv`), that a client is on the list from its subscription until it
  leaves, and that nobody owes anything to one that has not come (`ListInv`). The steps
  that send nothing are one case (`Steady`). `TimerHolds`: by `RateInv` the tuner
  wants what the engine's rate wants, but for the one request that has set the engine
  and not told the tuner, and what that one is about to tell is the engine's rate;
  `PollPeriodIsAFifth` is the arithmetic of `poll_period`. `RemoveOnce` is what
  `list.remove` leaves of the sinks.
* **`GatewayProofs`.** `BudgetsHold`: a counter is a cardinality, so each step is one
  thread that enters or leaves the set counted, and a thread gives back only what it
  holds (`HoldsInv`); there may be any number of handlers, and that the sets counted are
  finite is part of the invariant. `LonePushHolds`: `LoneInv` follows the push through
  the two wires, unsent, at the monitor, on its way back, told; it is inductive only
  with where each post is and what it has by then (`PostsInv`). `LossIsCounted` is the
  refinement of `CountedLoss`: by `LossInv` a queue that is open holds the newest frames
  with no hole, each older one was taken or counted, and what a thread is writing
  accounts for the frames left out before it.
* **`MockMonitorProofs`.** `NewestHolds`: by `HearInv` a latched frame that a listening
  page has not heard is in the replay it is owed, or with a handler that will copy the
  subscriptions or has copied them with the page among them. `SinkIsKept`: the sinks of
  what `compile_automaton` builds absorb (`AutomataAbsorb`), and `SinkInv` says of the
  tick under way how far it has come over which graphs, since a load replaces them in
  the middle of it. `StepHolds` says the like of the step and the episode.
* **`PipelineProofs`, the sensors.** For any schema, any descriptor that loads and any
  messages. What a message or a tick does is a recursive function along the steps;
  `RanStepByStep` shows that it is defined (an interval has no gap: `Upward`, from the
  least element of a set of naturals), and what holds at its start and is kept by one
  step (`ApplyFacts`) holds at its end. `InputsAreSettledAlways` needs of the loader that
  no later step writes what an earlier one read (`ReadIsFinal`).
  `DebounceAlwaysCountsTicks`, `PoisonAlwaysCostsOneWindow`, `EchoAlwaysAccounts` come
  from `IInv`, their conjunction, with two parts none of them says: a bad sample in the
  window is known to have come in since the last tick (`BadIsKnown`), and no held value
  that a tick-step reads would make it raise (`HeldAreReadable`), without which a tick
  could raise for what another one had committed. `FaultsAlwaysBelievedOnTheirData` is about every
  descriptor and every pair of rules: reading a key back as often as there are keys
  reaches a closed set (`ReadBackEnds`: each further reading adds a key or nothing);
  nothing in it is fed from outside (`UpstreamIsHome`); and of the steps that write it
  the first to run of each source reads a message, for what it read would have to be
  written before it (`FirstReadsTheMessage`). Of the keys at home (`StaysHome`): another
  step of its own source produces what each step behind the key reads, whatever steps
  the descriptor has besides.
* **`PipelineProofs`, the automata.** `RequiredApsAlwaysSuffice`: a condition that depends
  on no proposition outside a set is decided inside it; of the valuations between, the
  smallest that agrees is the inside itself (`OutsideSupport`). `ViolationsAreFinal`: no
  path leads from a rejecting sink to an accepting state.
* **`PipelineProofs`, recording and replay.** `ReplayTypeCorrect`, and
  `ReplayAlwaysAgrees`. The invariant compares both runs with a third, `RunOf(inputs)`: a
  fresh monitor that is handed a tape input by input. While the episode lasts, the
  recorded monitor is where `RunOf` leads, as far as it has handled its inbox, and the
  inbox is the rest of the tape (`WireIsTape`, `RunsLikeRecorded`); so is the replayed
  one, as far as the player has sent. The verdicts taped, those of a stall too,
  are those of a first part of the tape, and a clean cut leaves no observation and no
  tick behind it (`TapeHoldsVerdicts`).
  `RunOfAppend` says that a longer tape begins like the shorter one, `RunGrows` that
  answers are added along it and none is added by anything but an observation or a tick. All of
  it is under `inOrder`: with topics that overtake each other the recorded run is not a
  function of the tape, and `ReplayAgrees` does not say it is.

**Only model-checked.**

* Liveness (`FollowsOrderly`, `RunsOnItsOwnEvaluations`, `HaltStopsEvaluator`,
  `HealthyRobotReleased`, `SlotsComeBack`, `ReplayEnds`, `GoneClientLetsGo`) is out of the
  prover's reach.
* `StatusIsJust` of `Replay` says of a status that it is VIOLATED exactly when no accepting
  state can be reached. That a violation announced is final is `ViolationsAreFinal`, for
  all automata. That none is withheld depends on what Spot builds: a formula's automaton
  with a rejecting cycle of two states would be reported INCONCLUSIVE in it for good.
  The run shows it of automata as Spot makes them.

## Not modelled

* The describer is a chain of calls to an external language model with no state
  between requests; what the evaluator's model answers is any value.
* The contract validators, discovery's names, the episode outcome and the Nav2 status
  table are pure and stateless; what `validate_spec` accepts is the constant `Valid`,
  or the field `valid` of a spec.
* Spot's translation is external: what it builds is the constant `Automata`, and
  whether it builds is `Buildable`.
* The robot adapters are arithmetic on one robot's messages; the console, the bridges
  and the simulation are presentation and I/O.
* The ages of `Freshness`, HTTP framing, static files, body and header checks, the
  ablation runner's scoring, the verdict word and the
  layout of payloads, `ReplayClock.seek`.
