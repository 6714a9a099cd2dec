---------------------------- MODULE ClockStream ----------------------------
(***************************************************************************)
(* WS /api/clock/stream and the poll timer: ClockService's list of sinks   *)
(* and its _dispatch, _WebSocketClient and _stream of clock_node, and the  *)
(* PollTimerTuner.  A pulse is written to every client by the thread that  *)
(* emitted it, the executor's or an HTTP one; a full socket blocks it.     *)
(*                                                                         *)
(* Abstracted: a client is one connection; a socket holds Capacity frames; *)
(* the engine is its mode, its period and the number of pulses (Clock has  *)
(* the rest), and emitting and copying the list are one step; the ROS      *)
(* publisher, the first sink, never blocks and is left out.                *)
(***************************************************************************)
EXTENDS Integers, Sequences, SequencesExt

CONSTANTS
  None,
  Clients,    \* the connections to the stream
  Http,       \* the HTTP server's request threads
  Deltas,     \* the tick periods that may be declared
  Floor, Ceiling, Divisor,  \* of poll_period
  Capacity,   \* frames a client's socket holds unread
  MaxPulses,  \* bound on the pulses
  MaxRates    \* bound on the rate requests

ASSUME ClockStreamAssumption ==
  /\ None \notin Clients \cup Http /\ "timer" \notin Http
  /\ Deltas \subseteq Nat \ {0} /\ Deltas # {}
  /\ {Floor, Ceiling, Divisor, Capacity} \subseteq Nat \ {0}
  /\ Divisor >= 5 /\ Floor <= Ceiling /\ \A d \in Deltas : 5 * Floor <= d
  /\ MaxPulses \in Nat /\ MaxRates \in Nat

VARIABLES
  engine,   \* mode, tick period and pulses emitted
  tuner,    \* the timer's period and the one wanted
  sinks,    \* ClockService._sinks
  client,   \* the handler's place, alive, the lock's holder, and the peer
  thread,   \* what a thread is about to do; rest is its copy of the sinks
  raced     \* history: two dispatches, or two rate requests, have overlapped

vars == <<engine, tuner, sinks, client, thread, raced>>

Threads == Http \cup {"timer"}
Idle    == [at |-> "idle", pulse |-> 0, delta |-> 0, rest |-> <<>>]

\* In units of which a tick has many; both clamps only shorten it.
PollPeriod(delta) ==
  LET floored == IF delta \div Divisor < Floor THEN Floor ELSE delta \div Divisor
  IN  IF floored > Ceiling THEN Ceiling ELSE floored

ServiceStarts == sinks = <<>>

Init ==
  /\ ServiceStarts
  /\ \E mode \in {"wall", "manual"}, delta \in Deltas :
       /\ engine = [mode |-> mode, delta |-> delta, pulses |-> 0, rates |-> 0]
       /\ tuner = [period |-> PollPeriod(delta), wanted |-> PollPeriod(delta)]
  /\ client = [c \in Clients |->
                 [at |-> "away", alive |-> TRUE, lock |-> None, peer |-> "reading",
                  since |-> 0, sent |-> <<>>, unread |-> 0]]
  /\ thread = [x \in Threads |-> Idle]
  /\ raced = [pulse |-> FALSE, rate |-> FALSE]

Sending(x)  == thread[x].at = "sending"
Rating(x)   == thread[x].at \in {"set", "read", "record"}
IsAt(x, c)  == Sending(x) /\ thread[x].rest # <<>> /\ Head(thread[x].rest) = c
Owes(x, c)  == Sending(x) /\ c \in Range(thread[x].rest)
-----------------------------------------------------------------------------
(* The pulse and the clients it goes to.                                   *)

Dispatch(x) ==
  /\ engine.pulses < MaxPulses
  /\ engine' = [engine EXCEPT !.pulses = @ + 1]
  /\ thread' = [thread EXCEPT ![x] = [Idle EXCEPT !.at = "sending", !.rest = sinks,
                                                  !.pulse = engine.pulses + 1]]
  /\ raced' = [raced EXCEPT !.pulse = @ \/ \E y \in Threads : Sending(y)]

\* _on_timer: the poll timer is tuned, then polls; a driven clock has no
\* boundary behind it.
Tuned == [tuner EXCEPT !.period = tuner.wanted]
OnTimer ==
  /\ thread["timer"].at = "idle"
  /\ tuner' = Tuned
  /\ thread' = [thread EXCEPT !["timer"].at = "poll"]
  /\ UNCHANGED <<engine, sinks, client, raced>>

PollFindsTick == engine.mode = "wall" /\ Dispatch("timer")
PollFindsNone == thread' = [thread EXCEPT !["timer"] = Idle] /\ UNCHANGED <<engine, raced>>
Poll ==
  /\ thread["timer"].at = "poll"
  /\ PollFindsTick \/ PollFindsNone
  /\ UNCHANGED <<tuner, sinks, client>>

PostStep(x) ==
  /\ thread[x].at = "idle"
  /\ engine.mode = "manual"
  /\ Dispatch(x)
  /\ UNCHANGED <<tuner, sinks, client>>

PostMode(x) ==
  /\ thread[x].at = "idle"
  /\ \E mode \in {"wall", "manual"} : engine' = [engine EXCEPT !.mode = mode]
  /\ UNCHANGED <<tuner, sinks, client, thread, raced>>

\* What was written to a client is forgotten with it.
Dead(c) == [client[c] EXCEPT !.alive = FALSE, !.since = 0, !.sent = <<>>]

Onward(x) == thread' = [thread EXCEPT ![x].rest = Tail(@)]

\* send: the lock first, and then whether the client is still alive.
EnterSkipsBusy(x, c) ==
  /\ IsAt(x, c) /\ client[c].lock # x
  /\ IF client[c].alive /\ client[c].lock = None
     THEN client' = [client EXCEPT ![c].lock = x] /\ UNCHANGED thread
     ELSE Onward(x) /\ UNCHANGED client
  /\ UNCHANGED <<engine, tuner, sinks, raced>>
Enter(x, c) ==
  /\ IsAt(x, c) /\ client[c].lock = None
  /\ IF client[c].alive
     THEN client' = [client EXCEPT ![c].lock = x] /\ UNCHANGED thread
     ELSE Onward(x) /\ UNCHANGED client
  /\ UNCHANGED <<engine, tuner, sinks, raced>>

Write(x, c) ==
  /\ IsAt(x, c) /\ client[c].lock = x /\ client[c].unread < Capacity
  /\ client' = [client EXCEPT ![c].lock = None, ![c].unread = @ + 1,
                              ![c].sent = Append(@, thread[x].pulse)]
  /\ Onward(x)
  /\ UNCHANGED <<engine, tuner, sinks, raced>>

WriteFailsKeepsLock(x, c) ==
  /\ IsAt(x, c) /\ client[c].lock = x /\ client[c].peer = "gone" /\ client[c].alive
  /\ client' = [client EXCEPT ![c] = Dead(c)]
  /\ Onward(x)
  /\ UNCHANGED <<engine, tuner, sinks, raced>>
WriteFails(x, c) ==
  /\ IsAt(x, c) /\ client[c].lock = x /\ client[c].peer = "gone"
  /\ client' = [client EXCEPT ![c] = [Dead(c) EXCEPT !.lock = None]]
  /\ Onward(x)
  /\ UNCHANGED <<engine, tuner, sinks, raced>>

Sent(x) ==
  /\ Sending(x) /\ thread[x].rest = <<>>
  /\ thread' = [thread EXCEPT ![x] = Idle]
  /\ UNCHANGED <<engine, tuner, sinks, client, raced>>
-----------------------------------------------------------------------------
(* POST /api/clock/rate, accepted: the engine, then the hook, which reads  *)
(* the engine and records what it read under the tuner's lock.             *)

PostRate(x) ==
  /\ thread[x].at = "idle" /\ engine.rates < MaxRates
  /\ \E delta \in Deltas \ {engine.delta} :
       thread' = [thread EXCEPT ![x].at = "set", ![x].delta = delta]
  /\ engine' = [engine EXCEPT !.rates = @ + 1]
  /\ raced' = [raced EXCEPT !.rate = @ \/ \E y \in Threads : Rating(y)]
  /\ UNCHANGED <<tuner, sinks, client>>

SetRate(x) ==
  /\ thread[x].at = "set"
  /\ engine' = [engine EXCEPT !.delta = thread[x].delta]
  /\ thread' = [thread EXCEPT ![x].at = "read"]
  /\ UNCHANGED <<tuner, sinks, client, raced>>

ReadRate(x) ==
  /\ thread[x].at = "read"
  /\ thread' = [thread EXCEPT ![x].at = "record", ![x].delta = engine.delta]
  /\ UNCHANGED <<engine, tuner, sinks, client, raced>>

RequestOnlyFaster(x) ==
  /\ thread[x].at = "record"
  /\ tuner' = IF PollPeriod(thread[x].delta) > tuner.wanted
              THEN [tuner EXCEPT !.wanted = PollPeriod(thread[x].delta)] ELSE tuner
  /\ thread' = [thread EXCEPT ![x] = Idle]
  /\ UNCHANGED <<engine, sinks, client, raced>>
Request(x) ==
  /\ thread[x].at = "record"
  /\ tuner' = [tuner EXCEPT !.wanted = PollPeriod(thread[x].delta)]
  /\ thread' = [thread EXCEPT ![x] = Idle]
  /\ UNCHANGED <<engine, sinks, client, raced>>
-----------------------------------------------------------------------------
(* A client's handler thread, and its peer.                                *)

Subscribe(c) ==
  /\ client[c].at = "away"
  /\ client' = [client EXCEPT ![c].at = "streaming", ![c].since = engine.pulses]
  /\ sinks' = Append(sinks, c)
  /\ UNCHANGED <<engine, tuner, thread, raced>>

\* Whatever the peer sends is drained; only its end is noticed.
RecvEnds(c) ==
  /\ client[c].at = "streaming" /\ client[c].peer = "gone"
  /\ client' = [client EXCEPT ![c] = [Dead(c) EXCEPT !.at = "leaving"]]
  /\ UNCHANGED <<engine, tuner, sinks, thread, raced>>

Unsubscribe(c) ==
  /\ client[c].at = "leaving"
  /\ client' = [client EXCEPT ![c].at = "left"]
  /\ sinks' = RemoveFirst(sinks, c)
  /\ UNCHANGED <<engine, tuner, thread, raced>>

PeerReads(c) ==
  /\ client[c].peer = "reading" /\ client[c].unread > 0
  /\ client' = [client EXCEPT ![c].unread = @ - 1]
  /\ UNCHANGED <<engine, tuner, sinks, thread, raced>>

\* It closes, or it vanishes and nothing says so.
PeerLeaves(c) ==
  /\ client[c].at = "streaming" /\ client[c].peer = "reading"
  /\ \E peer \in {"gone", "vanished"} : client' = [client EXCEPT ![c].peer = peer]
  /\ UNCHANGED <<engine, tuner, sinks, thread, raced>>

\* The kernel has resent unread frames for long enough.
KernelGivesUp(c) ==
  /\ client[c].peer = "vanished" /\ client[c].unread > 0
  /\ client' = [client EXCEPT ![c].peer = "gone"]
  /\ UNCHANGED <<engine, tuner, sinks, thread, raced>>
-----------------------------------------------------------------------------
SendStep(x, c) == Enter(x, c) \/ Write(x, c) \/ WriteFails(x, c)
Leave(c)       == RecvEnds(c) \/ Unsubscribe(c)

Next ==
  \/ OnTimer \/ Poll
  \/ \E x \in Http : \/ PostStep(x) \/ PostMode(x)
                     \/ PostRate(x) \/ SetRate(x) \/ ReadRate(x) \/ Request(x)
  \/ \E x \in Threads : Sent(x) \/ \E c \in Clients : SendStep(x, c)
  \/ \E c \in Clients : \/ Subscribe(c) \/ Leave(c)
                        \/ PeerReads(c) \/ PeerLeaves(c) \/ KernelGivesUp(c)

\* A thread runs on and a dead connection is noticed; no peer has to read.
Fairness ==
  /\ \A x \in Threads, c \in Clients : WF_vars(SendStep(x, c))
  /\ \A c \in Clients : WF_vars(Leave(c)) /\ WF_vars(KernelGivesUp(c))

Spec == Init /\ [][Next]_vars /\ Fairness
-----------------------------------------------------------------------------
TypeOK ==
  /\ engine \in [mode : {"wall", "manual"}, delta : Deltas,
                 pulses : 0..MaxPulses, rates : 0..MaxRates]
  /\ tuner \in [period : Nat, wanted : Nat]
  /\ Range(sinks) \subseteq Clients /\ IsInjective(sinks)
  /\ \A c \in Clients :
       /\ client[c].at \in {"away", "streaming", "leaving", "left"}
       /\ client[c].alive \in BOOLEAN /\ client[c].lock \in Threads \cup {None}
       /\ client[c].peer \in {"reading", "gone", "vanished"}
       /\ client[c].unread \in 0..Capacity /\ client[c].since \in 0..MaxPulses
       /\ Range(client[c].sent) \subseteq 1..MaxPulses
  /\ \A x \in Threads :
       thread[x].at \in {"idle", "poll", "sending", "set", "read", "record"}

\* "One frame per pulse" (_stream): whatever the other clients do, and with the
\* lists copied by two threads at once, every pulse since a client subscribed
\* was written to it once, or is still about to be; in order, as long as no
\* two dispatches overlapped.
ClientsHearEveryPulse ==
  /\ TypeOK
  /\ \A c \in Clients :
       client[c].at = "streaming" /\ client[c].alive =>
         LET owed == {thread[x].pulse : x \in {y \in Threads : Owes(y, c)}}
         IN  /\ IsInjective(client[c].sent)
             /\ owed \cap Range(client[c].sent) = {}
             /\ owed \cup Range(client[c].sent) = client[c].since + 1..engine.pulses
             /\ ~raced.pulse => \A i, j \in DOMAIN client[c].sent :
                                  i < j => client[c].sent[i] < client[c].sent[j]

\* poll_period(d) <= d / 5 survives the rate requests (PollTimerTuner): a timer
\* that fires between requests, however often the rate has changed, is about to
\* run at a fifth of the engine's tick or less, unless two requests raced.
TimerFollowsRate ==
  [][OnTimer /\ (\A x \in Http : ~Rating(x)) /\ ~raced.rate
       => 5 * tuner'.period <= engine.delta]_vars

\* "A client that went away mid-pulse must not take the clock with it"
\* (_WebSocketClient.send): a connection that is closed, or is lost while a
\* thread writes to it, ends up off the list with every thread past it, also
\* one that waited for its lock.
GoneClientLetsGo ==
  \A c \in Clients :
    LET busy == \E x \in Threads : IsAt(x, c)
    IN  client[c].peer = "gone" \/ (client[c].peer = "vanished" /\ busy)
          ~> c \notin Range(sinks) /\ ~busy
=============================================================================
