------------------------------ MODULE Sensors ------------------------------
(***************************************************************************)
(* The sensor side of the evaluator: core/adapter_spec.py SensorState,     *)
(* backend/adapters/declarative.py DeclarativeAdapter and raw_echo.py      *)
(* RawEcho.  Messages are folded into a window; the owner of the state     *)
(* closes it once per tick; the evaluator's timer takes the echo.  Each    *)
(* method holds its object's lock, so it is one step.                      *)
(*                                                                         *)
(* In this commit no module of skill_monitor calls SensorState.tick or     *)
(* reset: Tick and Reset are called as the tests and docs/packages/P3 do.  *)
(***************************************************************************)
EXTENDS Provenance

CONSTANTS
  NoSource,
  Descriptors,      \* descriptors on disk, loadable or not
  Carries,          \* per source: the readings its messages carry
  Every,            \* every_n_ticks of the echo
  MaxWindow,        \* bound on the samples a message still joins
  MaxTicks,         \* bound on the ticks between two resets
  MaxStreak         \* bound on a streak counted by message

ASSUME SensorsAssumption ==
  /\ \A d \in Descriptors :
       /\ d \in Seq(Step)
       /\ \A n \in DOMAIN d : d[n].source \in DOMAIN Carries
       /\ \A m, n \in DOMAIN d : m < n => d[m].source <= d[n].source
  /\ \A i \in DOMAIN Carries : Carries[i] \subseteq Readings
  /\ NoSource \notin DOMAIN Carries
  /\ Every \in Nat \ {0} /\ MaxWindow \in Nat \ {0}
  /\ MaxTicks \in Nat \ {0} /\ MaxStreak \in Nat \ {0}

VARIABLES
  descriptor,
  values,               \* the held observation
  window,               \* key -> this tick's samples
  streaks,              \* step -> its streak's count
  ticks,
  echo,                 \* RawEcho: selected, samples, ticks
  poisoned,             \* history: "bad" delivered since the last tick
  early,                \* history: steps of the last update or tick that read too early
  unearned,             \* history: the last tick raised and nothing "bad" was in it
  blockedFor,           \* history: key a tick counts -> committed ticks in a row that held "blocked"
  owed                  \* history: messages of the selected source not yet in an echo

sensor  == <<values, window, streaks, ticks>>
history == <<poisoned, early, unearned, blockedFor>>
sensorsVars    == <<descriptor, sensor, echo, history, owed>>

Sources == DOMAIN Carries
NoSamples == [k \in Keys |-> <<>>]
Samples == FoldFunction(LAMBDA s, n : Len(s) + n, 0, window)
\* _build_aggregate_by_key: the policy a message-step declares for the key.
Policies(k) == {descriptor[n].fold : n \in {m \in DOMAIN descriptor \ TickSteps(descriptor) :
                                              descriptor[m].key = k}}
PolicyOf(k) == IF Policies(k) = {} THEN "last" ELSE CHOOSE p \in Policies(k) : TRUE

\* the tick-steps that count a streak, and the keys whose blocked ticks they count
Debounces == {n \in TickSteps(descriptor) : descriptor[n].fn = "streak"}
Debounced == {descriptor[n].input : n \in Debounces}

Echo == [selected : Sources \cup {NoSource}, samples : Nat, ticks : 0..Every]

SensorsTypeOK ==
  /\ descriptor \in Descriptors
  /\ values \in [Keys -> Values]
  /\ DOMAIN window = Keys /\ \A k \in Keys : window[k] \in Seq(Values)
  /\ streaks \in [DOMAIN descriptor -> Nat] /\ ticks \in Nat \cup {-1}
  /\ echo \in Echo /\ owed \in Nat
  /\ poisoned \in BOOLEAN /\ early \subseteq Nat
  /\ unearned \in BOOLEAN
  /\ blockedFor \in [Debounced -> Nat]

SensorsInit ==
  /\ descriptor \in {d \in Descriptors : Loads(d)}
  /\ values = [k \in Keys |-> "clear"]
  /\ window = NoSamples
  /\ streaks = [n \in DOMAIN descriptor |-> 0] /\ ticks = -1
  /\ echo = [selected |-> NoSource, samples |-> 0, ticks |-> 0]
  /\ poisoned = FALSE /\ early = {} /\ unearned = FALSE
  /\ blockedFor = [k \in Debounced |-> 0] /\ owed = 0

-----------------------------------------------------------------------------
(***************************************************************************)
(* RawEcho                                                                 *)
(***************************************************************************)
Chosen(s) == [selected |-> s, samples |-> 0, ticks |-> Every]
Offered(e, i) == IF i = e.selected THEN [e EXCEPT !.samples = @ + 1] ELSE e

\* the tick counter saturates: it is only compared with Every
Counted(e) == [e EXCEPT !.ticks = IF @ < Every THEN @ + 1 ELSE @]
Emits(e) == e.selected # NoSource /\ e.samples > 0 /\ Counted(e).ticks >= Every
TakenOnSchedule(e) ==                 \* mutant: closes the window on skipped ticks too
  IF Emits(e) THEN [e EXCEPT !.ticks = 0, !.samples = 0] ELSE [Counted(e) EXCEPT !.samples = 0]

Taken(e) == IF Emits(e) THEN [e EXCEPT !.ticks = 0, !.samples = 0] ELSE Counted(e)

\* GenericClientNode.raw_echo_request_callback; an unknown source changes nothing.
Select(s) ==
  /\ echo' = Chosen(s)
  /\ owed' = 0
  /\ UNCHANGED <<descriptor, sensor, history>>

\* GenericClientNode._publish_raw_echo.  The summary is built after the window
\* is closed: one that raises, or that the contract refuses, is not published.
TakeEcho ==
  /\ echo' = Taken(echo)
  /\ owed' = IF Emits(echo) THEN owed - echo.samples ELSE owed
  /\ UNCHANGED <<descriptor, sensor, history>>

-----------------------------------------------------------------------------
(***************************************************************************)
(* DeclarativeAdapter._on_message and SensorState.update.  A step that    *)
(* raises leaves no sample, no offer to the echo, and the streaks its      *)
(* predecessors advanced.  What only refreshed_keys and refreshed_sources  *)
(* report, which nothing in skill_monitor reads, is left out.              *)
(***************************************************************************)
MessageArrives == Attempt(values, Nothing, streaks)
Updated(i, reading) ==
  RunSteps(MessageArrives, descriptor, MessageSteps(descriptor, i), reading)

Sampled(found) == [k \in Keys |-> IF found[k] = "absent" THEN window[k]
                                  ELSE Append(window[k], found[k])]

Deliver(i, reading) ==
  \E a \in {Updated(i, reading)} :
      /\ Samples < MaxWindow /\ echo.samples < MaxWindow
      /\ \A n \in DOMAIN descriptor : a.streaks[n] <= MaxStreak
      /\ streaks' = a.streaks
      /\ window' = IF a.ok THEN Sampled(a.found) ELSE window
      /\ echo' = IF a.ok THEN Offered(echo, i) ELSE echo
      /\ owed' = IF a.ok /\ i = echo.selected THEN owed + 1 ELSE owed
      /\ poisoned' = (poisoned \/ reading = "bad")
      /\ early' = IF a.ok THEN ReadEarly(MessageArrives, descriptor,
                                         MessageSteps(descriptor, i), reading)
                          ELSE {}
      /\ UNCHANGED <<descriptor, values, ticks, unearned, blockedFor>>

-----------------------------------------------------------------------------
(***************************************************************************)
(* SensorState.tick and reset                                              *)
(***************************************************************************)
Folded == [k \in Keys |-> IF Usable(PolicyOf(k), window[k]) = {} THEN "absent"
                          ELSE FoldSamples(PolicyOf(k), window[k])]
FoldOk == \A k \in Keys : ~FoldRaises(PolicyOf(k), window[k])

Opened == [Attempt(values, Folded, streaks) EXCEPT !.ok = FoldOk]
Closed == RunSteps(Opened, descriptor, TickSteps(descriptor), "absent")
Candidate(a) == [k \in Keys |-> Seen(a, k)]

CloseWindow == window' = NoSamples /\ poisoned' = FALSE

TickCommits(a) ==
  /\ a.ok
  /\ values' = Candidate(a)
  /\ streaks' = a.streaks
  /\ ticks' = ticks + 1
  /\ early' = ReadEarly(Opened, descriptor, TickSteps(descriptor), "absent")
  /\ unearned' = FALSE
  /\ blockedFor' = [k \in Debounced |-> Count(blockedFor[k], Seen(a, k))]
  /\ CloseWindow

TickRaisesUnrestored(a) ==               \* mutant: the attempt's streaks stay
  /\ ~a.ok
  /\ early' = {}
  /\ unearned' = ~poisoned
  /\ CloseWindow
  /\ streaks' = a.streaks
  /\ UNCHANGED <<values, ticks, blockedFor>>

TickRaisesKeepsWindow(a) ==              \* mutant: the poisoned sample stays
  /\ ~a.ok
  /\ early' = {}
  /\ unearned' = ~poisoned
  /\ poisoned' = FALSE
  /\ UNCHANGED <<window, values, streaks, ticks, blockedFor>>

\* nothing is committed, the streaks are restored, the window is dropped
TickRaises(a) ==
  /\ ~a.ok
  /\ early' = {}
  /\ unearned' = ~poisoned
  /\ CloseWindow
  /\ UNCHANGED <<values, streaks, ticks, blockedFor>>

Tick ==
  /\ ticks + 1 < MaxTicks
  /\ \E a \in {Closed} : TickCommits(a) \/ TickRaises(a)
  /\ UNCHANGED <<descriptor, echo, owed>>

ResetKeepsStreaks ==                  \* mutant: the streaks belong to the descriptor
  /\ values' = [k \in Keys |-> "clear"]
  /\ ticks' = -1
  /\ early' = {} /\ unearned' = FALSE
  /\ blockedFor' = [k \in Debounced |-> 0]
  /\ CloseWindow
  /\ UNCHANGED <<descriptor, streaks, echo, owed>>

Reset ==
  /\ values' = [k \in Keys |-> "clear"]
  /\ streaks' = [n \in DOMAIN descriptor |-> 0]
  /\ ticks' = -1
  /\ early' = {} /\ unearned' = FALSE
  /\ blockedFor' = [k \in Debounced |-> 0]
  /\ CloseWindow
  /\ UNCHANGED <<descriptor, echo, owed>>

SensorsNext ==
  \/ \E i \in Sources : \E reading \in Carries[i] : Deliver(i, reading)
  \/ Tick \/ Reset \/ TakeEcho
  \/ \E s \in Sources \cup {NoSource} : Select(s)

SensorsSpec == SensorsInit /\ [][SensorsNext]_sensorsVars

-----------------------------------------------------------------------------
\* No step of a loaded descriptor reads a key before the step that produces it
\* in the same message or tick: what it read is what the attempt ended with
\* (adapter_spec.py:851 _validate_input_order).
InputsAreSettled == SensorsTypeOK /\ early = {}

\* A streak of a tick-step is the number of ticks in a row, since the reset,
\* whose observation was blocked: a tick that raises after the streak has
\* advanced does not make the debounce fire early, nor does the episode
\* before (adapter_spec.py:1028-1037, stuck_detector.py:90).
DebounceCountsTicks ==
  \A n \in Debounces :
    LET s == descriptor[n]
    IN  s.input # s.key => streaks[n] = blockedFor[s.input]

\* A tick raises only for what came in its own window: a poisoned sample costs
\* one window, not every tick from there on (adapter_spec.py:1058).
PoisonCostsOneWindow == ~unearned

\* The rate limit of the echo costs latency and never accounting: what the
\* next echo will count is every message of the source since the selection or
\* the echo before (raw_echo.py:381-383).
EchoAccounts == owed = echo.samples

\* A mode whose rules read keys that are at home (StaysHome) is graded on the
\* required sources whose messages reach the values of those keys, in every
\* descriptor that loads: a stale one is never believed, and an unrelated one never
\* holds a proven fault back (manifest.py:748 _source_keys, 804 ap_source_map).
\* Nothing is said of a key that a tick step derives from another source's: there
\* "a step's inputs are keys of the same source" (manifest.py:754) is not so, and
\* the source that is read is left out.
Believed == [d \in {x \in Descriptors : Loads(x)} |-> BelievedOnItsData(d)]
FaultsBelievedOnTheirData == Believed[descriptor]
=============================================================================
