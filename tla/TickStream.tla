----------------------------- MODULE TickStream -----------------------------
(***************************************************************************)
(* The clock, the two topics it reaches the monitor by, and the ledger.    *)
(* The clock's own run (t0) travels on /monitor/tick only; an observation  *)
(* names its tick by seq alone, so after a restart the tail of the old     *)
(* run and the head of the new one are told apart by the ledger, or not.   *)
(*                                                                         *)
(* Abstracted: the payloads (an observation is the tick it describes, with *)
(* the run it came from kept as history), the rate, and the automaton (a   *)
(* step is its effect on the ledger).  t0 is a run number.                 *)
(***************************************************************************)
EXTENDS TickLedger, Sequences, SequencesExt

CONSTANTS RunLength,    \* RunLength[r]: how many ticks run r of the clock publishes
          MaxInFlight,  \* capacity of each topic (KEEP_LAST depth)
          InOrder,      \* the observation topic delivers in publication order, once
          PulseFirst,   \* an observation is delivered after its own pulse was
          Lossy         \* a message may be lost in transport

ASSUME TickStreamAssumption ==
  /\ RunLength \in Seq(Nat \ {0})
  /\ Len(RunLength) > 0
  /\ MaxInFlight \in Nat \ {0}
  /\ InOrder \in BOOLEAN /\ PulseFirst \in BOOLEAN /\ Lossy \in BOOLEAN

Run  == DOMAIN RunLength
Tick == [run : Run, seq : Nat]

VARIABLES
  clock,      \* [run, seq]: the clock's run and its last published index, 0 before
  pulses,     \* /monitor/tick, in flight
  wire,       \* /monitor/observation, in flight
  nodeRun,    \* monitor: clock_epoch, None before the first pulse
  nodeSeq,    \* monitor: clock_seq, None while _clock_seen is false
  ledger,     \* monitor: the TickLedger
  axis,       \* history: [first, covered] ticks the current stream accounts for
  parity      \* history: steps so far, modulo 2

vars == <<clock, pulses, wire, nodeRun, nodeSeq, ledger, axis, parity>>

TypeOK ==
  /\ clock \in [run : Run, seq : Nat]
  /\ pulses \in Seq(Tick)
  /\ wire \in Seq(Tick)
  /\ nodeRun \in Run \cup {None}
  /\ nodeSeq \in Index
  /\ ledger \in Ledger
  /\ axis \in [first : Index, covered : Nat]
  /\ parity \in {0, 1}

Init ==
  /\ clock = [run |-> 1, seq |-> 0]
  /\ pulses = <<>> /\ wire = <<>>
  /\ nodeRun = None /\ nodeSeq = None
  /\ ledger = NewLedger
  /\ axis = [first |-> None, covered |-> 0]
  /\ parity = 0
-----------------------------------------------------------------------------
\* One pulse of the clock, and the observation the evaluator makes of it.
Pulse ==
  /\ clock.seq < RunLength[clock.run]
  /\ Len(pulses) < MaxInFlight /\ Len(wire) < MaxInFlight
  /\ LET tick == [run |-> clock.run, seq |-> clock.seq + 1]
     IN  /\ clock' = tick
         /\ pulses' = Append(pulses, tick)
         /\ wire' = Append(wire, tick)
  /\ UNCHANGED <<nodeRun, nodeSeq, ledger, axis, parity>>

\* The clock's process restarts: a new t0, and seq begins again.
RestartClock ==
  /\ clock.run + 1 \in Run /\ clock.seq > 0
  /\ clock' = [run |-> clock.run + 1, seq |-> 0]
  /\ UNCHANGED <<pulses, wire, nodeRun, nodeSeq, ledger, axis, parity>>

\* monitor_node.tick_callback, as far as the ledger can tell.
DeliverPulseIgnoresRun ==
  /\ pulses # <<>>
  /\ nodeSeq' = Head(pulses).seq
  /\ nodeRun' = IF nodeRun = None THEN Head(pulses).run ELSE nodeRun
  /\ pulses' = Tail(pulses)
  /\ UNCHANGED <<clock, wire, ledger, axis, parity>>
DeliverPulse ==
  /\ pulses # <<>>
  /\ nodeSeq' = Head(pulses).seq
  /\ nodeRun' = Head(pulses).run
  /\ pulses' = Tail(pulses)
  /\ UNCHANGED <<clock, wire, ledger, axis, parity>>

\* monitor_node._on_observation up to the ledger's answer.
Receive(tick) ==
  LET a     == Admit(ledger, tick.seq, nodeRun, nodeSeq)
      fresh == NewEpoch(ledger, nodeRun)
  IN  /\ ledger' = a.ledger
      /\ parity' = IF a.step THEN 1 - parity ELSE parity
      /\ axis' = IF ~a.step
                 THEN IF fresh THEN [first |-> None, covered |-> 0] ELSE axis
                 ELSE IF fresh \/ axis.first = None
                      THEN [first |-> tick.seq, covered |-> 1 + a.missed]
                      ELSE [axis EXCEPT !.covered = @ + 1 + a.missed]

Deliver(i) ==
  /\ PulseFirst => ~Contains(pulses, wire[i])
  /\ Receive(wire[i])
  /\ wire' = RemoveAt(wire, i)
  /\ UNCHANGED <<clock, pulses, nodeRun, nodeSeq>>

DeliverObservation == wire # <<>> /\ Deliver(1)

DeliverOutOfOrder == \E i \in DOMAIN wire : ~InOrder /\ i > 1 /\ Deliver(i)

\* A repeat of an observation that is still to come: the tick arrives twice.
Redeliver ==
  /\ ~InOrder
  /\ \E i \in DOMAIN wire : Receive(wire[i])
  /\ UNCHANGED <<clock, pulses, wire, nodeRun, nodeSeq>>

LosePulse ==
  /\ Lossy /\ pulses # <<>> /\ pulses' = Tail(pulses)
  /\ UNCHANGED <<clock, wire, nodeRun, nodeSeq, ledger, axis, parity>>

LoseObservation ==
  /\ Lossy /\ wire # <<>> /\ wire' = Tail(wire)
  /\ UNCHANGED <<clock, pulses, nodeRun, nodeSeq, ledger, axis, parity>>

\* An arm or reset command, or the legacy __reset__ key.
ResetEpisode ==
  /\ ledger' = ResetLedger(ledger)
  /\ UNCHANGED <<clock, pulses, wire, nodeRun, nodeSeq, axis, parity>>

Next ==
  \/ Pulse \/ RestartClock \/ DeliverPulse
  \/ DeliverObservation \/ DeliverOutOfOrder \/ Redeliver
  \/ LosePulse \/ LoseObservation \/ ResetEpisode

Spec == Init /\ [][Next]_vars

\* The clock's timer and the executor's callbacks always run again; losing,
\* repeating and restarting are nobody's duty.
Fairness ==
  WF_vars(Pulse) /\ WF_vars(DeliverPulse) /\ WF_vars(DeliverObservation)

FairSpec == Spec /\ Fairness
-----------------------------------------------------------------------------
Stepper == INSTANCE OneStepPerTick
             WITH stream <- ledger.epoch, high <- ledger.lastSeq

\* TickLedger's promise, over every loss, repeat, reordering, restart and
\* reset: one step per distinct, advancing seq within a run of the clock, and
\* no return to a run that was left.
StepsEachTickOnce == Stepper!Spec

\* docs/api.md: "a consumer must reconstruct the tick axis from seq and
\* missed_ticks".  Counting one tick per step and the missed ticks each step
\* reports, from a stream's first step on, arrives at its last stepped seq,
\* whatever was reset, lost or refused on the way.
TickAxisReconstructs ==
  ledger.lastSeq # None => ledger.lastSeq = axis.first + axis.covered - 1

\* A monitor follows a restarted clock: when the last run publishes more
\* ticks than the runs before it, its last tick is stepped in the end, in the
\* stream of that run.
FollowsRestartedClock ==
  (clock.run = Len(RunLength)) ~>
    (/\ ledger.epoch = Len(RunLength)
     /\ ledger.lastSeq = RunLength[Len(RunLength)])
=============================================================================
