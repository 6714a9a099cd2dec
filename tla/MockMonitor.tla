---------------------------- MODULE MockMonitor ----------------------------
(***************************************************************************)
(* frontend/mock_monitor.py: the monitor the gateway serves where there is *)
(* no ROS.  MockBus is shared without a lock by its own thread (_run),     *)
(* which ticks, and by the gateway's handlers, which run the operator's    *)
(* commands, load specs and subscribe; the lock guards only the list of    *)
(* subscriptions.                                                          *)
(*                                                                         *)
(* Abstracted: the values of a tick are any, and some propositions are left*)
(* out exactly when a source is stale (a rule that only a model can answer *)
(* is not modelled); a spec is its monitors, the length of its episode and *)
(* whether the contract takes it; the numbers of the ticks on a status are *)
(* left out, and so are the tick, observation and raw echo frames, which   *)
(* read nothing the operators write; of a verdict, its failure modes and its*)
(* intervention are kept.                                                  *)
(***************************************************************************)
EXTENDS Integers, Sequences, SequencesExt, Functions

CONSTANTS
  None,
  Pages,        \* subscribers
  Operators,    \* the handlers' threads
  Commands,     \* what they may send
  Specs,        \* what may be loaded; the first is Shipped
  Shipped,
  Aps, Blind,   \* propositions, and the sets of them a tick may not know
  CollisionRisk,  \* the one that trips a mode without a graph
  MaxSeq,       \* bound on the ticks
  MaxCommands   \* bound on the commands and the loads

ASSUME MockMonitorAssumption ==
  /\ Commands \subseteq {"arm", "reset", "pause", "resume"}
  /\ Shipped \in Specs /\ \A s \in Specs : s.episode \in Nat \ {0}
  /\ CollisionRisk \in Aps /\ \A b \in Blind : b \subseteq Aps
  /\ MaxSeq \in Nat /\ MaxCommands \in Nat

VARIABLES
  seq, step,
  mode,       \* _paused, _state, _state_reason
  spec, automata, autoState,
  latched,    \* the two latched topics that are also emitted
  subs, page, \* _subs; per subscriber: the replay it is owed, and
              \* history, the topics whose latched frame it has heard
  run,        \* where _run is, and its local variables
  op,         \* per handler: the same
  commands,
  tripped     \* history: the modes reported VIOLATED since the run began

monitor == <<seq, step, mode, spec, automata, autoState>>
bus     == <<latched, subs, page>>
vars    == <<monitor, bus, run, op, commands, tripped>>
-----------------------------------------------------------------------------
(* The graphs.  A literal is a proposition and the value it must have; Always *)
(* is the guard of an absorbing state's loop.                              *)

Always == [ap |-> None, is |-> TRUE]
Negate(l) == [l EXCEPT !.is = ~@]
Edge(from, to, label) == [from |-> from, to |-> to, label |-> label]

\* F(a && F(b && ...))
ChainAutomaton(chain) ==
  LET n == Len(chain) IN
  [states |-> 0..n, accepting |-> {n}, sinks |-> {n},
   edges  |-> UNION {{Edge(i - 1, i, chain[i]), Edge(i - 1, i - 1, Negate(chain[i]))} :
                     i \in 1..n} \cup {Edge(n, n, Always)}]

\* G(l)
SafetyWith(l, loop) ==
  [states |-> {0, 1}, accepting |-> {0}, sinks |-> {1},
   edges  |-> {Edge(0, 1, Negate(l)), Edge(0, 0, l), Edge(1, 1, loop)}]
SafetyAutomatonRecovers(l) == SafetyWith(l, Negate(l))
SafetyAutomaton(l) == SafetyWith(l, Always)

\* The monitors are the formulas and then the failure modes; a formula of any
\* other shape has no graph, and of two with one name the tick keeps the last.
Compilable(f) == f.shape \in {"F", "G"}
Compiled(f) == IF f.shape = "F" THEN ChainAutomaton(f.literals)
               ELSE SafetyAutomaton(f.literals[1])
AutomataFor(s) ==
  LET compilable  == {i \in DOMAIN s.monitors : Compilable(s.monitors[i])}
      called(name) == {i \in compilable : s.monitors[i].name = name}
  IN  [name \in {s.monitors[i].name : i \in compilable} |->
         Compiled(s.monitors[Max(called(name))])]
InitialStates(graphs) == [name \in DOMAIN graphs |-> 0]

\* None: the tick cannot say.
LabelHolds(l, values) ==
  IF l = Always THEN TRUE
  ELSE IF l.ap \notin DOMAIN values THEN None ELSE values[l.ap] = l.is

\* The guards of a state are Always, or a literal and its negation: when the tick
\* cannot answer the first, it cannot answer the other.
Successor(graph, state, values) ==
  LET taken == {e \in graph.edges : e.from = state /\ LabelHolds(e.label, values) = TRUE}
  IN  IF taken = {} THEN None ELSE (CHOOSE e \in taken : TRUE).to

StatusOf(graph, state) ==
  IF state = None \/ state \notin graph.states THEN "INCONCLUSIVE"
  ELSE IF state \in graph.accepting THEN "ACCEPTED"
  ELSE IF state \in graph.sinks THEN "VIOLATED" ELSE "INCONCLUSIVE"
-----------------------------------------------------------------------------
Values  == UNION {[Aps \ b -> BOOLEAN] : b \in Blind}
Topics  == {"status", "spec_status"}
Waiting == [at |-> "wait", step |-> 0, values |-> <<>>, graphs |-> <<>>,
            states |-> <<>>, todo |-> {}]
Free    == [at |-> "free", spec |-> None, state |-> None, reason |-> None,
            topic |-> None, text |-> None, rest |-> <<>>]

StatusPayload == [state |-> mode.state, reason |-> mode.reason]
SpecStatus(s) == [ok |-> s.valid, spec |-> s]

Init ==
  /\ seq = 0 /\ step = 0
  /\ mode = [paused |-> FALSE, state |-> "running", reason |-> "started"]
  /\ spec = Shipped
  /\ automata = AutomataFor(Shipped)
  /\ autoState = InitialStates(automata)
  /\ latched = [status |-> StatusPayload, spec_status |-> SpecStatus(Shipped)]
  /\ subs = <<>>
  /\ page = [p \in Pages |-> [owed |-> <<>>, heard |-> {}]]
  /\ run = Waiting
  /\ op = [o \in Operators |-> Free]
  /\ commands = 0
  /\ tripped = {}
-----------------------------------------------------------------------------
(* _run and _pulse.                                                        *)

\* A paused monitor is still clocked.  self._step += 1 reads, then writes.
Wake ==
  /\ run.at = "wait" /\ seq < MaxSeq
  /\ seq' = seq + 1
  /\ run' = IF mode.paused THEN run ELSE [run EXCEPT !.at = "count", !.step = step]
  /\ UNCHANGED <<step, mode, spec, automata, autoState, bus, op, commands, tripped>>

Count ==
  /\ run.at = "count"
  /\ step' = run.step + 1
  /\ run' = [run EXCEPT !.at = "pulse"]
  /\ UNCHANGED <<seq, mode, spec, automata, autoState, bus, op, commands, tripped>>

Pulse ==
  /\ run.at = "pulse"
  /\ \E v \in Values :
       run' = [run EXCEPT !.at = "look", !.values = v, !.graphs = automata,
                          !.todo = DOMAIN automata,
                          !.step = 0]
  /\ UNCHANGED <<monitor, bus, op, commands, tripped>>

\* The graphs are taken in the order of the spec; nothing depends on which it is.
Name  == CHOOSE name \in run.todo : TRUE
Graph == run.graphs[Name]

\* dict[name] = value
Assign(dict, name, value) ==
  [n \in DOMAIN dict \cup {name} |-> IF n = name THEN value ELSE dict[n]]

\* _verdict, one graph at a time: the state is read, and the next one written;
\* states is what the verdict will say of them.
Look ==
  /\ run.at = "look" /\ run.todo # {}
  /\ LET state == IF Name \in DOMAIN autoState THEN autoState[Name] ELSE 0
     IN  run' = [run EXCEPT !.at = "put",
                   !.states = Assign(@, Name, Successor(Graph, state, run.values))]
  /\ UNCHANGED <<monitor, bus, op, commands, tripped>>

Stepped == run.states[Name]

Put ==
  /\ run.at = "put"
  /\ autoState' = IF Stepped = None THEN autoState ELSE Assign(autoState, Name, Stepped)
  /\ run' = [run EXCEPT !.at = "look", !.todo = @ \ {Name}]
  /\ tripped' = IF run.graphs = automata /\ StatusOf(Graph, Stepped) = "VIOLATED"
                THEN tripped \cup {Name} ELSE tripped
  /\ UNCHANGED <<seq, step, mode, spec, automata, bus, op, commands>>

\* The modes are those of the spec loaded by now, the graphs those of the tick;
\* the first mode stands in when it has no graph.
Declared == SelectSeq(spec.monitors, LAMBDA m : m.mode)
ModeStatus(i) ==
  LET name == Declared[i].name
  IN  IF name \in DOMAIN run.states THEN StatusOf(run.graphs[name], run.states[name])
      ELSE IF i = 1 /\ CollisionRisk \in DOMAIN run.values /\ run.values[CollisionRisk]
           THEN "VIOLATED" ELSE "INCONCLUSIVE"

\* A stale source halves the confidence, and a halt asks for more than that.
Stale == DOMAIN run.values # Aps
Verdict ==
  LET modes == [i \in DOMAIN Declared |-> ModeStatus(i)]
      violated == "VIOLATED" \in Range(modes)
  IN  [modes  |-> modes,
       action |-> IF violated /\ ~Stale THEN "HALT"
                  ELSE IF violated \/ Stale THEN "WARN" ELSE "CONTINUE"]

\* The verdict goes out.
Complete == run.at = "look" /\ run.todo = {}
Publish ==
  /\ Complete
  /\ run' = [Waiting EXCEPT !.at = "end"]
  /\ UNCHANGED <<monitor, bus, op, commands, tripped>>

EpisodeIsOverExactly == step = spec.episode
EpisodeIsOver == step >= spec.episode
EndOfTick ==
  /\ run.at = "end"
  /\ IF EpisodeIsOver
     THEN step' = 0 /\ run' = [Waiting EXCEPT !.at = "restart"]
     ELSE run' = Waiting /\ UNCHANGED step
  /\ UNCHANGED <<seq, mode, spec, automata, autoState, bus, op, commands, tripped>>

\* New states are new runs of the monitors.
Restarted ==
  /\ autoState' = InitialStates(automata)
  /\ tripped' = {}

NextEpisode ==
  /\ run.at = "restart"
  /\ Restarted
  /\ run' = Waiting
  /\ UNCHANGED <<seq, step, mode, spec, automata, bus, op, commands>>
-----------------------------------------------------------------------------
(* _emit: the subscriptions are copied, and the copies called.             *)

EmitTo(o, topic, text) ==
  op' = [op EXCEPT ![o] = [Free EXCEPT !.at = "call", !.topic = topic, !.text = text,
                                       !.rest = subs]]

EmitSkipsReplaying(o) ==
  /\ op[o].at = "emit"
  /\ op' = [op EXCEPT ![o] =
       [Free EXCEPT !.at = "call", !.topic = op[o].topic,
                    !.text = IF op[o].topic = "status" THEN op[o].text
                             ELSE latched.spec_status,
                    !.rest = SelectSeq(subs, LAMBDA p : page[p].owed = <<>>)]]
  /\ UNCHANGED <<monitor, bus, run, commands, tripped>>
Emit(o) ==
  /\ op[o].at = "emit"
  /\ EmitTo(o, op[o].topic, IF op[o].topic = "status" THEN op[o].text
                            ELSE latched.spec_status)
  /\ UNCHANGED <<monitor, bus, run, commands, tripped>>

Heard(p, topic, frame) ==
  IF latched[topic] = frame THEN page[p].heard \cup {topic} ELSE page[p].heard

Call(o) ==
  /\ op[o].at = "call"
  /\ IF op[o].rest = <<>>
     THEN op' = [op EXCEPT ![o] = Free] /\ UNCHANGED page
     ELSE /\ op' = [op EXCEPT ![o].rest = Tail(@)]
          /\ LET p == Head(op[o].rest) IN
             page' = [page EXCEPT ![p].heard = Heard(p, op[o].topic, op[o].text)]
  /\ UNCHANGED <<monitor, latched, subs, run, commands, tripped>>

\* The slot is written; nobody has heard a frame that was not in it.
Latch(topic, frame) ==
  /\ latched' = [latched EXCEPT ![topic] = frame]
  /\ page' = [p \in Pages |-> IF latched[topic] = frame THEN page[p]
                              ELSE [page[p] EXCEPT !.heard = @ \ {topic}]]

\* subscribe: under the lock the entry goes in and the latched frames are
\* taken; they are delivered outside it.
Subscribe(p) ==
  /\ p \notin Range(subs) /\ page[p].owed = <<>>
  /\ subs' = Append(subs, p)
  /\ page' = [page EXCEPT ![p].owed = latched]
  /\ UNCHANGED <<monitor, latched, run, op, commands, tripped>>

Replay(p) ==
  /\ \E topic \in DOMAIN page[p].owed :
       page' = [page EXCEPT ![p] =
                  [owed |-> Restrict(page[p].owed, DOMAIN page[p].owed \ {topic}),
                   heard |-> Heard(p, topic, page[p].owed[topic])]]
  /\ UNCHANGED <<monitor, latched, subs, run, op, commands, tripped>>

Unsubscribe(p) ==
  /\ p \in Range(subs) /\ page[p].owed = <<>>
  /\ subs' = RemoveFirst(subs, p)
  /\ page' = [page EXCEPT ![p].heard = {}]
  /\ UNCHANGED <<monitor, latched, run, op, commands, tripped>>
-----------------------------------------------------------------------------
(* _command and _set_state, on the thread of the handler that publishes.   *)

Goes(o, place) == op' = [op EXCEPT ![o].at = place]

Command(o) ==
  /\ op[o].at = "free" /\ commands < MaxCommands
  /\ commands' = commands + 1
  /\ \E c \in Commands :
       op' = [op EXCEPT ![o] =
                [@ EXCEPT !.at     = IF c \in {"arm", "reset"} THEN "rewind" ELSE "set",
                          !.state  = IF c = "pause" THEN "paused" ELSE "running",
                          !.reason = IF c \in {"arm", "reset"} THEN c ELSE "command"]]
  /\ UNCHANGED <<monitor, bus, run, tripped>>

Rewind(o) ==
  /\ op[o].at = "rewind"
  /\ step' = 0
  /\ Goes(o, "forget")
  /\ UNCHANGED <<seq, mode, spec, automata, autoState, bus, run, commands, tripped>>

Forget(o) ==
  /\ op[o].at = "forget"
  /\ Restarted
  /\ Goes(o, "set")
  /\ UNCHANGED <<seq, step, mode, spec, automata, bus, run, commands>>

\* Nothing is said of a state and a reason that are those already held.
SetState(o) ==
  /\ op[o].at = "set"
  /\ IF op[o].state = mode.state /\ op[o].reason = mode.reason
     THEN op' = [op EXCEPT ![o] = Free]
     ELSE Goes(o, "enter")
  /\ UNCHANGED <<seq, step, mode, spec, automata, autoState, bus, run, commands, tripped>>

Enter(o) ==
  /\ op[o].at = "enter"
  /\ mode' = [mode EXCEPT !.state = op[o].state, !.reason = op[o].reason]
  /\ Goes(o, "flag")
  /\ UNCHANGED <<seq, step, spec, automata, autoState, bus, run, commands, tripped>>

Flag(o) ==
  /\ op[o].at = "flag"
  /\ mode' = [mode EXCEPT !.paused = op[o].state # "running"]
  /\ Goes(o, "announce")
  /\ UNCHANGED <<seq, step, spec, automata, autoState, bus, run, commands, tripped>>

Announce(o) ==
  /\ op[o].at = "announce"
  /\ Latch("status", StatusPayload)
  /\ op' = [op EXCEPT ![o] = [Free EXCEPT !.at = "emit", !.topic = "status",
                                          !.text = StatusPayload]]
  /\ UNCHANGED <<monitor, subs, run, commands, tripped>>
-----------------------------------------------------------------------------
(* _load_spec: the assignments, in their order.                            *)

LoadSpec(o) ==
  /\ op[o].at = "free" /\ commands < MaxCommands
  /\ commands' = commands + 1
  /\ \E s \in Specs :
       op' = [op EXCEPT ![o] = [@ EXCEPT !.spec = s,
                                         !.at = IF s.valid THEN "adopt" ELSE "report"]]
  /\ UNCHANGED <<monitor, bus, run, tripped>>

Adopt(o) ==
  /\ op[o].at = "adopt"
  /\ spec' = op[o].spec
  /\ Goes(o, "restep")
  /\ UNCHANGED <<seq, step, mode, automata, autoState, bus, run, commands, tripped>>

Restep(o) ==
  /\ op[o].at = "restep"
  /\ step' = 0
  /\ Goes(o, "recompile")
  /\ UNCHANGED <<seq, mode, spec, automata, autoState, bus, run, commands, tripped>>

Recompile(o) ==
  /\ op[o].at = "recompile"
  /\ automata' = AutomataFor(op[o].spec)
  /\ tripped' = {}
  /\ Goes(o, "reinit")
  /\ UNCHANGED <<seq, step, mode, spec, autoState, bus, run, commands>>

Reinit(o) ==
  /\ op[o].at = "reinit"
  /\ Restarted
  /\ Goes(o, "report")
  /\ UNCHANGED <<seq, step, mode, spec, automata, bus, run, commands>>

Report(o) ==
  /\ op[o].at = "report"
  /\ Latch("spec_status", SpecStatus(op[o].spec))
  /\ op' = [op EXCEPT ![o] = [Free EXCEPT !.at = "emit", !.topic = "spec_status"]]
  /\ UNCHANGED <<monitor, subs, run, commands, tripped>>
-----------------------------------------------------------------------------
Run == Wake \/ Count \/ Pulse \/ Look \/ Put \/ Publish \/ EndOfTick \/ NextEpisode
Handler(o) ==
  \/ Command(o) \/ Rewind(o) \/ Forget(o) \/ SetState(o) \/ Enter(o) \/ Flag(o)
  \/ Announce(o) \/ Emit(o) \/ Call(o)
  \/ LoadSpec(o) \/ Adopt(o) \/ Restep(o) \/ Recompile(o) \/ Reinit(o) \/ Report(o)

Next ==
  \/ Run
  \/ \E o \in Operators : Handler(o)
  \/ \E p \in Pages : Subscribe(p) \/ Replay(p) \/ Unsubscribe(p)

Spec == Init /\ [][Next]_vars
-----------------------------------------------------------------------------
TypeOK ==
  /\ seq \in Nat /\ step \in Nat
  /\ mode \in [paused : BOOLEAN, state : {"running", "paused"},
               reason : {"started", "command", "arm", "reset"}]
  /\ spec \in Specs
  /\ Range(subs) \subseteq Pages
  /\ DOMAIN latched = Topics

\* No status is missed (mock_monitor.py:749, :851): once no handler is in the
\* middle of one, every page that is subscribed, and has had its replay, has
\* heard the frame that is latched, whichever came first, the page or the frame.
NewestIsHeard ==
  (\A o \in Operators : op[o].at \notin {"emit", "call"}) =>
    \A p \in Range(subs) : page[p].owed = <<>> => page[p].heard = Topics

\* A failure mode with a graph that was found VIOLATED is so in every later
\* verdict of its run, whatever the propositions do, also when a tick cannot
\* evaluate them, and no such verdict says CONTINUE (mock_monitor.py:1077).
SinkHolds ==
  Complete /\ run.graphs = automata =>
    \A i \in DOMAIN Declared :
      Declared[i].name \in tripped =>
        Verdict.modes[i] = "VIOLATED" /\ Verdict.action # "CONTINUE"

\* The type invariant; and between ticks, with no spec being loaded, the step is
\* one of the episode of the spec that is loaded, though an operator may rewind
\* it, or load a shorter one, in the middle of a tick.
StepWithinEpisode ==
  /\ TypeOK
  /\ run.at = "wait" /\ (\A o \in Operators : op[o].at # "restep") => step < spec.episode
=============================================================================
