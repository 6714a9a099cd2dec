------------------------------- MODULE Clock -------------------------------
(***************************************************************************)
(* core/clock.py (TickEngine, ArmedTracker, ClockService) as the process   *)
(* of backend/clock_node.py runs it: the executor's thread polls the       *)
(* engine and hears the monitor, an HTTP thread changes it, and nothing    *)
(* locks it: a call may begin while the other thread is in the middle of   *)
(* one.  A call is cut between the fields it writes and the other reads;   *)
(* what _emit and what _rebase write is one step each.                     *)
(*                                                                         *)
(* Abstracted: time is counted in units and a period is a number of them   *)
(* (the float corrections of _boundary_at have nothing to correct); one    *)
(* request is served at a time; what a request is refused for before it    *)
(* touches the engine, the GETs, and the sockets are left out.             *)
(***************************************************************************)
EXTENDS Integers

CONSTANTS
  None,
  Periods,   \* the tick periods (1 / tick_hz) that may be declared
  Modes,     \* the clock modes that may be selected
  Boot,      \* what time.monotonic() reads when the process starts
  Hold,      \* ArmedTracker's hold_s
  MaxTime,   \* bound on the wall time, and on the engine time stepped from
  MaxSeq     \* bound on the seq a pulse is made from

ASSUME ClockAssumption ==
  /\ None \notin Int
  /\ Periods \subseteq Nat \ {0} /\ Periods # {}
  /\ Modes \subseteq {"wall", "replay", "manual"} /\ Modes # {}
  /\ Boot \in Nat /\ Hold \in Nat /\ MaxTime \in Nat /\ MaxSeq \in Nat

VARIABLES
  wall,      \* time.monotonic()
  engine,    \* the TickEngine and its TimeSource
  thread,    \* what the executor's and the HTTP server's thread is about to do
  request,   \* the body of the request being served
  tracker,   \* the ArmedTracker: age is that of the last armed verdict, counted
             \* to Hold + 1, which is also no verdict
  wire,      \* the last pulse published; n tells one from its repetition
  awake,     \* history: engine time not spent paused, since the last polled
             \* pulse or rebase
  overlaps   \* history: what has overlapped so far: "calls", any two of them;
             \* "pulses", a poll that pulses and a single step

vars == <<wall, engine, thread, request, tracker, wire, awake, overlaps>>

Threads  == {"timer", "http"}
Idle     == [at |-> "idle", seq |-> 0, t |-> 0]
ModeBody == [mode : Modes, paused : {"true", "false", "neither"}]

TypeOK ==
  /\ wall \in Nat
  /\ engine \in [mode : Modes, driven : Nat, carried : Int, origin : Nat,
                 period : Periods, epochT : Int, epochSeq : Nat,
                 seq : Nat, lastT : Int, paused : BOOLEAN]
  /\ thread \in [Threads -> [at : {"idle", "advance", "take", "emit", "send", "source",
                                   "origin", "pausing", "rebase"},
                             seq : Nat, t : Int]]
  /\ request \in ModeBody \cup {None}
  /\ tracker \in [commanded : BOOLEAN, age : 0..Hold + 1]
  /\ wire \in [seq : Nat, t : Int, n : {0, 1}]
  /\ awake \in Nat
  /\ overlaps \subseteq {"calls", "pulses"}

Init ==
  /\ wall = Boot
  /\ \E mode \in Modes : \E period \in Periods : \E paused \in BOOLEAN :
       engine = [mode |-> mode, driven |-> 0, carried |-> 0,
                 origin |-> IF mode = "wall" THEN Boot ELSE 0,
                 period |-> period, epochT |-> 0, epochSeq |-> 0,
                 seq |-> 0, lastT |-> 0, paused |-> paused]
  /\ thread = [x \in Threads |-> Idle]
  /\ request = None
  /\ tracker = [commanded |-> FALSE, age |-> Hold + 1]
  /\ wire = [seq |-> 0, t |-> 0, n |-> 0]
  /\ awake = 0
  /\ overlaps = {}
-----------------------------------------------------------------------------
\* Engine time: what the active source has counted since it became active.
SourceNow == IF engine.mode = "wall" THEN wall ELSE engine.driven
Now       == engine.carried + SourceNow - engine.origin

TimeOf(seq) == engine.epochT + (seq - engine.epochSeq) * engine.period

\* The latest boundary at or before now.
BoundaryAt(now) ==
  IF now < engine.epochT THEN engine.epochSeq
  ELSE engine.epochSeq + (now - engine.epochT) \div engine.period

Armed == tracker.commanded \/ tracker.age <= Hold

Quiet == \A x \in Threads : thread[x] = Idle

\* The calls that make a pulse, up to its dispatch.
Pulsing(x) == thread[x].at \in {"advance", "take", "emit", "send"}

\* A call begins, whatever the other thread is at.
Begins(x, pulses) ==
  /\ thread[x] = Idle
  /\ overlaps' = overlaps \cup
       {o \in {"calls", "pulses"} : \E y \in Threads \ {x} :
          IF o = "calls" THEN thread[y] # Idle ELSE pulses /\ Pulsing(y)}

Goto(x, label) == thread' = [thread EXCEPT ![x].at = label]
Done(x)        == thread' = [thread EXCEPT ![x] = Idle]

\* Time passes; a driven source stands still.
Advance ==
  /\ wall < MaxTime
  /\ wall' = wall + 1
  /\ awake' = IF engine.mode = "wall" /\ ~engine.paused THEN awake + 1 ELSE awake
  /\ tracker' = [tracker EXCEPT !.age = IF @ <= Hold THEN @ + 1 ELSE @]
  /\ UNCHANGED <<engine, thread, request, wire, overlaps>>
-----------------------------------------------------------------------------
(* The pulse: TickEngine.poll and _emit, ClockService.pulse and _dispatch. *)

\* The timer finds a boundary behind it: one pulse, for the latest.
PollTarget(seq) == seq

BoundaryOrSame(seq) == seq >= engine.seq
BoundaryPassed(seq) == seq > engine.seq

Poll ==
  /\ Begins("timer", TRUE) /\ engine.seq < MaxSeq
  /\ ~engine.paused
  /\ LET seq == BoundaryAt(Now)
     IN  /\ BoundaryPassed(seq)
         /\ thread' = [thread EXCEPT !["timer"].at = "emit",
                                     !["timer"].seq = PollTarget(seq)]
  /\ awake' = 0
  /\ UNCHANGED <<wall, engine, request, tracker, wire>>

Emit(x) ==
  /\ thread[x].at = "emit"
  /\ LET seq == thread[x].seq
     IN  /\ engine' = [engine EXCEPT !.seq = seq, !.lastT = TimeOf(seq)]
         /\ thread' = [thread EXCEPT ![x].at = "send", ![x].t = TimeOf(seq)]
  /\ UNCHANGED <<wall, request, tracker, wire, awake, overlaps>>

Dispatch(x) ==
  /\ thread[x].at = "send"
  /\ wire' = [seq |-> thread[x].seq, t |-> thread[x].t, n |-> 1 - wire.n]
  /\ Done(x)
  /\ UNCHANGED <<wall, engine, request, tracker, awake, overlaps>>
-----------------------------------------------------------------------------
(* POST /api/clock/step, on a driven clock.                                *)

PostStep ==
  /\ Begins("http", TRUE) /\ engine.seq < MaxSeq /\ Now < MaxTime
  /\ engine.mode # "wall"
  /\ thread' = [thread EXCEPT !["http"].at = "advance",
                              !["http"].t = TimeOf(engine.seq + 1) - Now]
  /\ UNCHANGED <<wall, engine, request, tracker, wire, awake>>

StepAdvances ==
  /\ thread["http"].at = "advance"
  /\ LET ahead == IF thread["http"].t > 0 THEN thread["http"].t ELSE 0
     IN  /\ engine' = [engine EXCEPT !.driven = @ + ahead]
         /\ awake' = IF engine.paused THEN awake ELSE awake + ahead
  /\ Goto("http", "take")
  /\ UNCHANGED <<wall, request, tracker, wire, overlaps>>

StepTakesNext ==
  /\ thread["http"].at = "take"
  /\ thread' = [thread EXCEPT !["http"].at = "emit", !["http"].seq = engine.seq + 1]
  /\ UNCHANGED <<wall, engine, request, tracker, wire, awake, overlaps>>
-----------------------------------------------------------------------------
(* POST /api/clock/mode: a new source, then the pause flag, which is       *)
(* looked at only after the mode was changed.                              *)

CarriedForgotten == 0
Carried == Now

PostMode ==
  /\ Begins("http", FALSE)
  /\ \E body \in ModeBody :
       /\ request' = body
       /\ IF body.mode = engine.mode
          THEN Goto("http", "pausing") /\ UNCHANGED engine
          ELSE Goto("http", "source") /\ engine' = [engine EXCEPT !.carried = Carried]
  /\ UNCHANGED <<wall, tracker, wire, awake>>

SwapSource ==
  /\ thread["http"].at = "source"
  /\ engine' = [engine EXCEPT !.mode = request.mode, !.driven = 0]
  /\ Goto("http", "origin")
  /\ UNCHANGED <<wall, request, tracker, wire, awake, overlaps>>

SetOrigin ==
  /\ thread["http"].at = "origin"
  /\ engine' = [engine EXCEPT !.origin = SourceNow]
  /\ Goto("http", "pausing")
  /\ UNCHANGED <<wall, request, tracker, wire, awake, overlaps>>

\* resume() of a clock that is not paused does nothing.  "neither" is a body
\* without the flag, or with one that is no bool: that one is answered 400,
\* with the mode already changed.
NothingToPause ==
  /\ request.paused = "neither" \/ (request.paused = "false" /\ ~engine.paused)
  /\ Done("http") /\ UNCHANGED engine

PauseEngine ==
  /\ request.paused = "true"
  /\ engine' = [engine EXCEPT !.paused = TRUE]
  /\ Done("http")

ResumeWithoutRebase ==
  /\ request.paused = "false" /\ engine.paused
  /\ engine' = [engine EXCEPT !.paused = FALSE]
  /\ Done("http")
ResumeEngine ==
  /\ request.paused = "false" /\ engine.paused
  /\ engine' = [engine EXCEPT !.paused = FALSE]
  /\ Goto("http", "rebase")

SetPaused ==
  /\ thread["http"].at = "pausing"
  /\ NothingToPause \/ PauseEngine \/ ResumeEngine
  /\ request' = None
  /\ UNCHANGED <<wall, tracker, wire, awake, overlaps>>

\* Now is declared a boundary: the interval in flight is cut short.
Rebase ==
  /\ thread["http"].at = "rebase"
  /\ engine' = [engine EXCEPT !.epochT = Now, !.epochSeq = engine.seq]
  /\ awake' = 0
  /\ Done("http")
  /\ UNCHANGED <<wall, request, tracker, wire, overlaps>>
-----------------------------------------------------------------------------
(* POST /api/clock/rate, and what the clock believes about the monitor.    *)

PostRate ==
  /\ Begins("http", FALSE)
  /\ ~Armed
  /\ \E period \in Periods : engine' = [engine EXCEPT !.period = period]
  /\ Goto("http", "rebase")
  /\ UNCHANGED <<wall, request, tracker, wire, awake>>

\* /monitor/command and /monitor/verdict, on the executor's thread.
OnCommand(command) ==
  tracker' = IF command = "arm" THEN [tracker EXCEPT !.commanded = TRUE]
             ELSE [commanded |-> FALSE, age |-> Hold + 1]

OnVerdict == tracker' = [tracker EXCEPT !.age = 0]

HearMonitor ==
  /\ thread["timer"] = Idle
  /\ OnVerdict \/ \E command \in {"arm", "reset"} : OnCommand(command)
  /\ UNCHANGED <<wall, engine, thread, request, wire, awake, overlaps>>
-----------------------------------------------------------------------------
Next ==
  \/ Advance
  \/ Poll \/ \E x \in Threads : Emit(x) \/ Dispatch(x)
  \/ PostStep \/ StepAdvances \/ StepTakesNext
  \/ PostMode \/ SwapSource \/ SetOrigin \/ SetPaused \/ Rebase
  \/ PostRate \/ HearMonitor

Spec == Init /\ [][Next]_vars
-----------------------------------------------------------------------------
\* clock.py, invariant 4, as far as it holds.  Across rate changes, mode changes
\* and pauses, also those served in the middle of a poll, every pulse published
\* carries a larger seq than the one before it; only a single step that meets a
\* poll can break that, and it does (clock.py:48 says never).  The pulse's time
\* grows as well while no two calls overlap: one re-based in between may go back.
PulsesAdvance ==
  [][wire' # wire => /\ "pulses" \notin overlaps => wire'.seq > wire.seq
                     /\ overlaps = {} => wire'.t > wire.t]_vars

PollStarts == thread["timer"].at = "idle" /\ thread'["timer"].at = "emit"

\* A poll takes the boundaries behind it, all of them and no more, as long as no
\* two calls have overlapped (a poll in the middle of set_rate or resume reads an
\* epoch that is not re-based yet).  "Time spent paused produces no ticks and no
\* gap" (TickEngine.pause): those it will report as skipped fit into the time the
\* engine was running since the last polled pulse or rebase.  No catch-up
\* (clock.py, invariant 3): the next boundary is still to come, so that a stall is
\* followed by one pulse and never by a burst.
SkipsOnlyLostTime ==
  [][PollStarts /\ overlaps' = {} =>
       /\ (thread'["timer"].seq - engine.seq - 1) * engine.period <= awake
       /\ Now < TimeOf(thread'["timer"].seq + 1)]_vars

\* The type invariant, and: as long as no two calls have overlapped (a rebase
\* between a poll and its pulse moves the boundary it was taken for), no pulse is
\* dated later than its clock reads, whichever source was swapped in; a consumer
\* that compares t with the clock sees the past.
NeverAheadOfClock ==
  /\ TypeOK
  /\ Quiet /\ overlaps = {} => engine.lastT <= Now
=============================================================================
