------------------------------- MODULE Replay -------------------------------
(***************************************************************************)
(* An episode recorded, replayed and compared: core/recording.py and       *)
(* backend/replay_node.py around a monitor whose answers are the ledger's  *)
(* and the automaton's.                                                    *)
(*                                                                         *)
(*   live:  clock, evaluator, operator --> monitor --> verdicts            *)
(*          the recorder tapes what is published, in the order it arrives  *)
(*   play:  the player publishes the taped inputs to a monitor and waits   *)
(*          for the verdict of each observation                            *)
(*                                                                         *)
(* Abstracted: the monitor is passive, its spec has no phases and no       *)
(* terminal condition; a verdict is its seq, step, missed ticks, states    *)
(* and statuses; /monitor/adapter, manifest, status and spec_status        *)
(* frames are left out.  With inOrder the topics are delivered in the      *)
(* order of publication, as one; otherwise each topic keeps its own order. *)
(* MaxInputs bounds the tape, MaxRuns the runs of the clock.               *)
(***************************************************************************)
EXTENDS TickLedger, Automaton

CONSTANTS Spec0,      \* the spec a monitor process starts with
          Automata,   \* Automata[s]: the automata Spot makes of the formulas of s
          Observable,       \* the observations the evaluator may make
          Commands,   \* /monitor/command words
          StallTicks, \* ticks without a step before a stall is announced
          MaxInputs, MaxRuns

Specs == DOMAIN Automata

ASSUME ReplayAssumption ==
  /\ Spec0 \in Specs
  /\ \A s \in Specs : /\ Automata[s] \in Seq(ToSet(Automata[s]))
                      /\ \A f \in DOMAIN Automata[s] : IsAutomaton(Automata[s][f])
  /\ Observable \subseteq Observations
  /\ Commands \subseteq {"reset", "pause", "resume"}
  /\ StallTicks \in Nat \ {0} /\ MaxInputs \in Nat /\ MaxRuns \in Nat \ {0}

VARIABLES
  phase,      \* "live", "play" or "done"
  inOrder,    \* the transport delivers across topics in order
  clock,      \* [run, seq, observed]: its last pulse, and the last tick observed
  monitor,    \* the monitor process
  inbox,      \* published and not yet handled by the monitor
  tape,       \* the recording: its inputs in order, its verdicts by seq
  taping,     \* the recorder is up
  clean,      \* history: no taped observation or tick was unhandled when it stopped
  host,       \* the monitor a replay runs on: "fresh", the "same", or "down"
  at,         \* the player's _at
  awaiting,   \* the seq it waits for the verdict of, or None
  replayed    \* the verdicts fed to it, by seq

vars == <<phase, inOrder, clock, monitor, inbox, tape, taping, clean,
          host, at, awaiting, replayed>>
player == <<host, at, awaiting, replayed>>

Input ==
  [topic : {"tick"}, run : 1..MaxRuns, seq : Nat]
  \cup [topic : {"observation"}, seq : Nat, aps : Observable]
  \cup [topic : {"command"}, word : Commands]
  \cup [topic : {"load_spec"}, spec : Specs]
Verdict == [topic : {"verdict"}, seq : Nat, step : Nat, missed : Nat,
            states : Seq(Nat), statuses : Seq({"INCONCLUSIVE", "ACCEPTED", "VIOLATED"})]

Monitor == [spec : Specs, qs : Seq(Nat), step : Nat, paused : BOOLEAN,
            run : Index, seq : Index, since : Index, stalled : BOOLEAN, ledger : Ledger]
Fresh == [spec |-> Spec0, qs |-> InitialStates(Automata[Spec0]), step |-> 0, paused |-> FALSE,
          run |-> None, seq |-> None, since |-> None, stalled |-> FALSE, ledger |-> NewLedger]

TypeOK ==
  /\ phase \in {"live", "play", "done"} /\ inOrder \in BOOLEAN
  /\ clock \in [run : 1..MaxRuns, seq : Nat, observed : Nat]
  /\ monitor \in Monitor /\ inbox \in Seq(Input)
  /\ tape.inputs \in Seq(Input)
  /\ \A seq \in DOMAIN tape.verdicts : tape.verdicts[seq] \in Verdict
  /\ taping \in BOOLEAN /\ clean \in BOOLEAN
  /\ host \in {"fresh", "same", "down"}
  /\ at \in Nat /\ (awaiting = None \/ awaiting \in Nat)
  /\ \A seq \in DOMAIN replayed : replayed[seq] \in Verdict

Init ==
  /\ phase = "live" /\ inOrder \in BOOLEAN
  /\ clock = [run |-> 1, seq |-> 0, observed |-> 0]
  /\ monitor = Fresh /\ inbox = <<>>
  /\ tape = [inputs |-> <<>>, verdicts |-> <<>>] /\ taping = TRUE /\ clean = TRUE
  /\ host = "fresh" /\ at = 0 /\ awaiting = None /\ replayed = <<>>
-----------------------------------------------------------------------------
(* Recorder and Recording.                                                 *)

InputTopics == {"tick", "observation", "command", "load_spec"}

\* Recorder.on appends a frame; Recording.inputs returns those of INPUTS in
\* their order, Recording.verdicts one verdict of a seq: later wins.
ByOwnSeq(verdicts, v) ==
  [seq \in DOMAIN verdicts \cup {v.seq} |-> IF seq = v.seq THEN v ELSE verdicts[seq]]

Taped(frame) ==
  IF taping /\ frame.topic \in InputTopics
  THEN [tape EXCEPT !.inputs = Append(@, frame)] ELSE tape
TapedVerdict(v) == IF taping THEN [tape EXCEPT !.verdicts = ByOwnSeq(@, v)] ELSE tape

\* Comparison
Missing == DOMAIN tape.verdicts \ DOMAIN replayed
Extra   == DOMAIN replayed \ DOMAIN tape.verdicts
Differed == {seq \in DOMAIN tape.verdicts \cap DOMAIN replayed :
               tape.verdicts[seq] # replayed[seq]}
Equal == Missing = {} /\ Extra = {} /\ Differed = {}
-----------------------------------------------------------------------------
(* The monitor: tick_callback, command_callback, load_spec_callback,       *)
(* observation_callback.                                                   *)

\* What has passed unstepped: the window opens with a run of the clock and slides
\* through a pause.
WindowStart(m, f) == IF f.run # m.run \/ m.since = None \/ m.paused THEN f.seq ELSE m.since
Silence(m, f) ==
  LET start == WindowStart(m, f) IN IF f.seq > start THEN f.seq - start ELSE 0

OnTick(m, f) ==
  [m EXCEPT !.seq = f.seq, !.run = f.run, !.since = WindowStart(m, f),
            !.stalled = @ \/ Silence(m, f) >= StallTicks]

\* A tick after which the monitor is stalled is answered by a verdict.
Announces(m, f) == f.topic = "tick" /\ ~m.paused /\ OnTick(m, f).stalled

Restarted(m) == [m EXCEPT !.qs = InitialStates(Automata[m.spec]), !.step = 0]

OnCommand(m, f) ==
  CASE f.word = "reset"  -> [Restarted(m) EXCEPT !.paused = FALSE, !.ledger = ResetLedger(@)]
    [] f.word = "pause"  -> [m EXCEPT !.paused = TRUE]
    [] f.word = "resume" -> [m EXCEPT !.paused = FALSE]

OnLoadSpec(m, f) == Restarted([m EXCEPT !.spec = f.spec])

Admitted(m, f) == Admit(m.ledger, f.seq, m.run, m.seq)
Steps(m, f) == f.topic = "observation" /\ ~m.paused /\ Admitted(m, f).step

OnObservation(m, f) ==
  CASE m.paused    -> m
    [] Steps(m, f) -> [m EXCEPT !.ledger = Admitted(m, f).ledger, !.step = @ + 1,
                                !.qs = StepAll(Automata[m.spec], @, f.aps),
                                !.since = m.seq, !.stalled = FALSE]
    [] ~m.paused /\ ~Steps(m, f) -> [m EXCEPT !.ledger = Admitted(m, f).ledger]

After(m, f) ==
  CASE f.topic = "tick"        -> OnTick(m, f)
    [] f.topic = "command"     -> OnCommand(m, f)
    [] f.topic = "load_spec"   -> OnLoadSpec(m, f)
    [] f.topic = "observation" -> OnObservation(m, f)

\* publish_verdict, of a tick stepped and of one that decided nothing.
Answers(m, f) == Steps(m, f) \/ Announces(m, f)
Missed(m, f) == IF f.topic = "tick" THEN Silence(m, f) ELSE Admitted(m, f).missed

VerdictOf(m, f) ==
  LET after == After(m, f)
  IN  [topic |-> "verdict", seq |-> f.seq, step |-> after.step,
       missed |-> Missed(m, f), states |-> after.qs,
       statuses |-> Statuses(Automata[after.spec], after.qs)]

\* A frame of the inbox may be next when no earlier one is of its topic.
MayArrive(i) ==
  IF inOrder THEN i = 1
  ELSE \A j \in 1..(i - 1) : inbox[j].topic # inbox[i].topic

\* Player.feed: later wins here as well.
Handle ==
  /\ host # "down"
  /\ \E i \in DOMAIN inbox :
       /\ MayArrive(i)
       /\ LET f == inbox[i]
          IN  /\ monitor' = After(monitor, f)
              /\ IF ~Answers(monitor, f) THEN UNCHANGED <<tape, replayed>>
                 ELSE IF phase = "live"
                      THEN tape' = TapedVerdict(VerdictOf(monitor, f)) /\ UNCHANGED replayed
                      ELSE /\ replayed' = ByOwnSeq(replayed, VerdictOf(monitor, f))
                           /\ UNCHANGED tape
       /\ inbox' = RemoveAt(inbox, i)
  /\ UNCHANGED <<phase, inOrder, clock, taping, clean, host, at, awaiting>>
-----------------------------------------------------------------------------
(* The live run.                                                           *)

Publish(frame) ==
  /\ phase = "live" /\ taping
  /\ Len(tape.inputs) < MaxInputs
  /\ inbox' = Append(inbox, frame) /\ tape' = Taped(frame)
  /\ UNCHANGED <<phase, inOrder, monitor, taping, clean, player>>

Pulse ==
  /\ Publish([topic |-> "tick", run |-> clock.run, seq |-> clock.seq + 1])
  /\ clock' = [clock EXCEPT !.seq = @ + 1]

RestartClock ==
  /\ phase = "live" /\ taping /\ clock.run < MaxRuns /\ clock.seq > 0
  /\ clock' = [run |-> clock.run + 1, seq |-> 0, observed |-> 0]
  /\ UNCHANGED <<phase, inOrder, monitor, inbox, tape, taping, clean, player>>

Observe ==
  /\ clock.observed < clock.seq
  /\ \E aps \in Observable :
       Publish([topic |-> "observation", seq |-> clock.seq, aps |-> aps])
  /\ clock' = [clock EXCEPT !.observed = clock.seq]

Operate ==
  /\ \/ \E word \in Commands : Publish([topic |-> "command", word |-> word])
     \/ \E spec \in Specs : Publish([topic |-> "load_spec", spec |-> spec])
  /\ UNCHANGED clock

\* Stopped by its operator, or by a power cut: what was written stays.
StopRecording ==
  /\ phase = "live" /\ taping
  /\ taping' = FALSE
  /\ clean' = \A f \in ToSet(inbox) : f.topic \notin {"observation", "tick"}
  /\ UNCHANGED <<phase, inOrder, clock, monitor, inbox, tape, player>>
-----------------------------------------------------------------------------
(* run_play                                                                *)

StartReplay ==
  /\ phase = "live" /\ ~taping
  /\ phase' = "play" /\ inbox' = <<>>
  /\ host' \in {"fresh", "same", "down"}
  /\ monitor' = IF host' = "same" THEN monitor ELSE Fresh
  /\ UNCHANGED <<inOrder, clock, tape, taping, clean, at, awaiting, replayed>>

PlayedButCommands(frame) ==           \* mutant
  IF host = "down" \/ frame.topic = "command" THEN inbox ELSE Append(inbox, frame)
Played(frame) == IF host = "down" THEN inbox ELSE Append(inbox, frame)

\* Player.step; only an observation is waited for.
PlayFrame ==
  /\ phase = "play" /\ awaiting = None /\ at < Len(tape.inputs)
  /\ LET frame == tape.inputs[at + 1]
     IN  /\ awaiting' = IF frame.topic = "observation" THEN frame.seq ELSE None
         /\ inbox' = Played(frame)
  /\ at' = at + 1
  /\ UNCHANGED <<phase, inOrder, clock, monitor, tape, taping, clean, host, replayed>>

\* A monitor that answers at all answers before the timeout (replay_node.py,
\* DEFAULT_TIMEOUT_S): the wait and the final drain run out on silence only.
Silent == inbox = <<>>

WaitForTheVerdict == awaiting \in DOMAIN replayed    \* mutant
WaitIsOver == awaiting \in DOMAIN replayed \/ Silent

MoveOn ==
  /\ phase = "play" /\ awaiting # None /\ WaitIsOver
  /\ awaiting' = None
  /\ UNCHANGED <<phase, inOrder, clock, monitor, inbox, tape, taping, clean,
                 host, at, replayed>>

Finish ==
  /\ phase = "play" /\ awaiting = None /\ at = Len(tape.inputs) /\ Silent
  /\ phase' = "done"
  /\ UNCHANGED <<inOrder, clock, monitor, inbox, tape, taping, clean, player>>

Next ==
  \/ Handle
  \/ Pulse \/ RestartClock \/ Observe \/ Operate \/ StopRecording
  \/ StartReplay \/ PlayFrame \/ MoveOn \/ Finish

\* The player's loop and the monitor's executor run; nobody has to record,
\* or to start a replay.
Fairness == WF_vars(Handle) /\ WF_vars(PlayFrame) /\ WF_vars(MoveOn) /\ WF_vars(Finish)

Spec == Init /\ [][Next]_vars /\ Fairness
-----------------------------------------------------------------------------
\* recording.py, "Replay the monitor's inputs. Compare its outputs": on a
\* transport that keeps the order across topics, a monitor started like the
\* recorded one answers every recorded tick again, and, unless the recording
\* was cut between an observation or a tick and the verdict it may lead to, with
\* the very same verdicts and no other, of steps and of stalls, through commands,
\* spec pushes and clock restarts.
ReplayAgrees ==
  (phase = "done" /\ inOrder /\ host = "fresh") => Missing = {} /\ (clean => Equal)

\* replay_node.py on the timeout: a replay ends with a report, whatever the
\* monitor it runs on does: answer, refuse every tick, or not exist.
ReplayEnds == (phase = "play") ~> (phase = "done")

\* automata.py, get_required_aps: "These are the only APs that can influence
\* the next transition": an evaluator that names no other proposition moves
\* every automaton exactly as one that names all it can.
RequiredApsSuffice ==
  LET ms == Automata[monitor.spec]
      required == RequiredByAll(ms, monitor.qs)
  IN  \A obs \in Observations :
        StepAll(ms, monitor.qs, obs)
          = StepAll(ms, monitor.qs, [a \in DOMAIN obs \cap required |-> obs[a]])

\* automata.py, MonitorStatus: a status is VIOLATED exactly when no accepting
\* state can be reached any more: a violation is never announced of a formula
\* that may still be satisfied, and never withheld.
StatusIsJust ==
  /\ TypeOK
  /\ \A f \in DOMAIN Automata[monitor.spec] :
       LET m == Automata[monitor.spec][f]
           q == monitor.qs[f]
       IN  (Status(m, q) = "VIOLATED") = (Reachable(m, q) \cap m.accepting = {})
=============================================================================
