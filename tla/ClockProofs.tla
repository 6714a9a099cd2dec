---------------------------- MODULE ClockProofs ----------------------------
(***************************************************************************)
(* What Clock shows on a small instance, for every set of periods and      *)
(* modes, every boot time and every bound.                                 *)
(*                                                                         *)
(* Nothing keeps the two threads' calls apart, so nothing here assumes it. *)
(* The inductive invariant has three parts: the types hold always; what is *)
(* about seqs (SeqInv) until a single step meets a poll; what is about     *)
(* times (ClockInv) until any two calls overlap.                           *)
(***************************************************************************)
EXTENDS Clock, TLAPS

AsksForMode == {"source", "origin", "pausing"}

\* What a thread is about to do is something that thread does, and a request
\* for a mode has a body until it has been served.
PlacesInv ==
  /\ thread["timer"].at \in {"idle", "emit", "send"}
  /\ thread["http"].at \in AsksForMode => request \in ModeBody

\* One call at a time.
OneCall == thread["timer"] = Idle \/ thread["http"] = Idle

\* What the engine will read once the source that is being swapped in counts
\* from its origin.
Reading == IF thread["http"].at \in {"source", "origin"} THEN engine.carried ELSE Now

\* The boundary last taken, by the timer also when it has not emitted it yet.
Taken == IF thread["timer"].at = "emit" THEN thread["timer"].seq ELSE engine.seq

\* A pulse is on its way to the wire.
UnderWay == \E x \in Threads : thread[x].at = "send"

\* The last pulse is behind the clock and, but for a rate that has not been
\* re-based yet, no later than the boundary its index stands for.
EngineInv ==
  /\ engine.epochSeq <= engine.seq
  /\ engine.lastT <= Reading
  /\ thread["http"].at # "rebase" => engine.lastT <= TimeOf(engine.seq)

\* What a thread carries between two of its writes still fits the engine.
ThreadInv ==
  /\ \A x \in Threads :
       /\ thread[x].at = "emit" => thread[x].seq > engine.seq /\ TimeOf(thread[x].seq) <= Now
       /\ thread[x].at = "send" => thread[x].seq = engine.seq /\ thread[x].t = engine.lastT
  /\ thread["http"].at = "advance" =>
       engine.mode # "wall" /\ thread["http"].t = TimeOf(engine.seq + 1) - Now
  /\ thread["http"].at = "take" => TimeOf(engine.seq + 1) <= Now

\* The wire has the engine's last pulse, or the one before it.
WireInv ==
  IF UnderWay THEN wire.seq < engine.seq /\ wire.t < engine.lastT
              ELSE wire.seq = engine.seq /\ wire.t = engine.lastT

\* The running clock is less than a period further past the boundary last
\* taken than it has been awake since.
AwakeInv ==
  ~engine.paused /\ thread["http"].at # "rebase" =>
    Reading - TimeOf(Taken) - engine.period <= awake

ClockInv == TypeOK /\ PlacesInv /\ OneCall /\ EngineInv /\ ThreadInv /\ WireInv /\ AwakeInv
-----------------------------------------------------------------------------
(* Types.                                                                  *)

\* The engine reads a whole number, and so is the time of an index.
LEMMA NowType == ASSUME TypeOK PROVE SourceNow \in Nat /\ Now \in Int
BY DEF TypeOK, Now, SourceNow

LEMMA TimeOfType == ASSUME TypeOK, NEW seq \in Int PROVE TimeOf(seq) \in Int
<1>1. engine.period \in Nat \ {0} /\ engine.epochT \in Int /\ engine.epochSeq \in Nat
  BY ClockAssumption DEF TypeOK
<1> QED
  BY <1>1 DEF TimeOf

\* Division, as BoundaryAt uses it.
LEMMA DivisionBounds ==
  ASSUME NEW a \in Nat, NEW p \in Nat \ {0}
  PROVE  /\ a \div p \in Nat
         /\ (a \div p) * p <= a
         /\ a < (a \div p) * p + p
BY SMT

LEMMA BoundaryType == ASSUME TypeOK PROVE BoundaryAt(Now) \in Nat
<1>1. engine.period \in Nat \ {0} /\ engine.epochT \in Int /\ engine.epochSeq \in Nat
  BY ClockAssumption DEF TypeOK
<1>2. CASE Now < engine.epochT
  BY <1>1, <1>2 DEF BoundaryAt
<1>3. CASE ~(Now < engine.epochT)
  <2>1. Now - engine.epochT \in Nat
    BY <1>1, <1>3, NowType
  <2> QED
    BY <1>1, <1>3, <2>1, DivisionBounds DEF BoundaryAt
<1> QED
  BY <1>2, <1>3

\* What a thread is about to do, and the types by the parts that change together.
Errand == [at : {"idle", "advance", "take", "emit", "send", "source",
                 "origin", "pausing", "rebase"},
           seq : Nat, t : Int]
EngineOK  == engine \in [mode : Modes, driven : Nat, carried : Int, origin : Nat,
                         period : Periods, epochT : Int, epochSeq : Nat,
                         seq : Nat, lastT : Int, paused : BOOLEAN]
ThreadOK  == thread \in [Threads -> Errand]
TrackerOK == tracker \in [commanded : BOOLEAN, age : 0..Hold + 1]
WireOK    == wall \in Nat /\ wire \in [seq : Nat, t : Int, n : {0, 1}] /\ awake \in Nat
RequestOK == request \in ModeBody \cup {None}
OverlapsOK == overlaps \subseteq {"calls", "pulses"}

LEMMA TypeSplit ==
  TypeOK <=> EngineOK /\ ThreadOK /\ TrackerOK /\ WireOK /\ RequestOK /\ OverlapsOK
BY DEF TypeOK, EngineOK, ThreadOK, TrackerOK, WireOK, RequestOK, OverlapsOK, Errand

\* What has overlapped stays on record.
LEMMA OverlapsGrow ==
  ASSUME OverlapsOK, [Next]_vars PROVE OverlapsOK' /\ overlaps \subseteq overlaps'
<1>1. ASSUME NEW x, NEW pulses, Begins(x, pulses)
      PROVE  OverlapsOK' /\ overlaps \subseteq overlaps'
  BY <1>1 DEF Begins, OverlapsOK
<1>2. CASE UNCHANGED overlaps
  BY <1>2 DEF OverlapsOK
<1> QED
  BY <1>1, <1>2 DEF Next, vars, Advance, Poll, Emit, Dispatch, PostStep, StepAdvances,
     StepTakesNext, PostMode, SwapSource, SetOrigin, SetPaused, Rebase, PostRate, HearMonitor

LEMMA IdleType == Idle \in Errand
BY DEF Idle, Errand

Places == {"advance", "take", "emit", "send", "source", "origin", "pausing", "rebase"}

\* One thread's errand ends, goes on, or goes on with a new number.
LEMMA ErrandStep ==
  ASSUME ThreadOK, NEW x \in Threads, NEW errand \in Errand,
         thread' = [thread EXCEPT ![x] = errand]
  PROVE  /\ ThreadOK' /\ thread'[x] = errand
         /\ \A y \in Threads : y # x => thread'[y] = thread[y]
BY DEF ThreadOK

LEMMA ErrandGoesOn ==
  ASSUME ThreadOK, NEW x \in Threads, NEW place \in Places,
         thread' = [thread EXCEPT ![x].at = place]
  PROVE  /\ ThreadOK' /\ thread'[x] = [thread[x] EXCEPT !.at = place]
         /\ thread'[x].at = place
         /\ \A y \in Threads : y # x => thread'[y] = thread[y]
<1>1. [thread[x] EXCEPT !.at = place] \in Errand
  BY DEF ThreadOK, Errand, Places
<1> QED
  BY <1>1, ErrandStep DEF ThreadOK, Errand

LEMMA ErrandCarriesSeq ==
  ASSUME ThreadOK, NEW x \in Threads, NEW place \in Places, NEW n \in Nat,
         thread' = [thread EXCEPT ![x].at = place, ![x].seq = n]
  PROVE  /\ ThreadOK' /\ thread'[x].at = place /\ thread'[x].seq = n
         /\ \A y \in Threads : y # x => thread'[y] = thread[y]
<1> DEFINE errand == [thread[x] EXCEPT !.at = place, !.seq = n]
<1>1. errand \in Errand /\ errand.at = place /\ errand.seq = n
  BY DEF ThreadOK, Errand, Places
<1>2. thread' = [thread EXCEPT ![x] = errand]
  OBVIOUS
<1> HIDE DEF errand
<1> QED
  BY <1>1, <1>2, ErrandStep

LEMMA ErrandCarriesTime ==
  ASSUME ThreadOK, NEW x \in Threads, NEW place \in Places, NEW t \in Int,
         thread' = [thread EXCEPT ![x].at = place, ![x].t = t]
  PROVE  /\ ThreadOK' /\ thread'[x].at = place /\ thread'[x].t = t
         /\ thread'[x].seq = thread[x].seq
         /\ \A y \in Threads : y # x => thread'[y] = thread[y]
<1> DEFINE errand == [thread[x] EXCEPT !.at = place, !.t = t]
<1>1. errand \in Errand /\ errand.at = place /\ errand.t = t /\ errand.seq = thread[x].seq
  BY DEF ThreadOK, Errand, Places
<1>2. thread' = [thread EXCEPT ![x] = errand]
  OBVIOUS
<1> HIDE DEF errand
<1> QED
  BY <1>1, <1>2, ErrandStep

\* A poll that finds a boundary, a step that takes the next one, and a step that
\* is about to advance its source.
LEMMA TimerTakes ==
  ASSUME ThreadOK, NEW n \in Nat,
         thread' = [thread EXCEPT !["timer"].at = "emit", !["timer"].seq = n]
  PROVE  /\ ThreadOK' /\ thread'["timer"].at = "emit" /\ thread'["timer"].seq = n
         /\ thread'["http"] = thread["http"]
<1> DEFINE errand == [thread["timer"] EXCEPT !.at = "emit", !.seq = n]
<1>1. errand \in Errand /\ errand.at = "emit" /\ errand.seq = n
  BY DEF ThreadOK, Errand, Threads, Places
<1>2. thread' = [thread EXCEPT !["timer"] = errand]
  OBVIOUS
<1>3. "timer" \in Threads /\ "http" \in Threads /\ "http" # "timer"
  BY DEF Threads
<1> HIDE DEF errand
<1>4. ThreadOK' /\ thread'["timer"] = errand /\ thread'["http"] = thread["http"]
  BY <1>1, <1>2, <1>3, ErrandStep
<1> QED
  BY <1>1, <1>4

LEMMA HttpTakes ==
  ASSUME ThreadOK, NEW n \in Nat,
         thread' = [thread EXCEPT !["http"].at = "emit", !["http"].seq = n]
  PROVE  /\ ThreadOK' /\ thread'["http"].at = "emit" /\ thread'["http"].seq = n
         /\ thread'["timer"] = thread["timer"]
<1> DEFINE errand == [thread["http"] EXCEPT !.at = "emit", !.seq = n]
<1>1. errand \in Errand /\ errand.at = "emit" /\ errand.seq = n
  BY DEF ThreadOK, Errand, Threads, Places
<1>2. thread' = [thread EXCEPT !["http"] = errand]
  OBVIOUS
<1>3. "http" \in Threads /\ "timer" \in Threads /\ "timer" # "http"
  BY DEF Threads
<1> HIDE DEF errand
<1>4. ThreadOK' /\ thread'["http"] = errand /\ thread'["timer"] = thread["timer"]
  BY <1>1, <1>2, <1>3, ErrandStep
<1> QED
  BY <1>1, <1>4

LEMMA HttpAdvances ==
  ASSUME ThreadOK, NEW t \in Int,
         thread' = [thread EXCEPT !["http"].at = "advance", !["http"].t = t]
  PROVE  /\ ThreadOK' /\ thread'["http"].at = "advance" /\ thread'["http"].t = t
         /\ thread'["timer"] = thread["timer"]
<1> DEFINE errand == [thread["http"] EXCEPT !.at = "advance", !.t = t]
<1>1. errand \in Errand /\ errand.at = "advance" /\ errand.t = t
  BY DEF ThreadOK, Errand, Threads, Places
<1>2. thread' = [thread EXCEPT !["http"] = errand]
  OBVIOUS
<1>3. "http" \in Threads /\ "timer" \in Threads /\ "timer" # "http"
  BY DEF Threads
<1> HIDE DEF errand
<1>4. ThreadOK' /\ thread'["http"] = errand /\ thread'["timer"] = thread["timer"]
  BY <1>1, <1>2, <1>3, ErrandStep
<1> QED
  BY <1>1, <1>4

LEMMA TypeInit == Init => TypeOK /\ PlacesInv
<1> SUFFICES ASSUME Init PROVE TypeOK /\ PlacesInv
  OBVIOUS
<1>1. TrackerOK /\ WireOK /\ RequestOK /\ OverlapsOK
  BY ClockAssumption DEF Init, TrackerOK, WireOK, RequestOK, OverlapsOK
<1>2. EngineOK
  BY ClockAssumption DEF Init, EngineOK
<1>3. ThreadOK
  BY IdleType DEF Init, ThreadOK
<1>4. PlacesInv
  BY DEF Init, PlacesInv, Idle, Threads, AsksForMode
<1> QED
  BY <1>1, <1>2, <1>3, <1>4, TypeSplit

\* The types, step by step.
LEMMA TypeStep == TypeOK /\ PlacesInv /\ [Next]_vars => TypeOK' /\ PlacesInv'
<1> SUFFICES ASSUME TypeOK, PlacesInv, [Next]_vars PROVE TypeOK' /\ PlacesInv'
  OBVIOUS
<1>0. EngineOK /\ ThreadOK /\ TrackerOK /\ WireOK /\ RequestOK
  BY TypeSplit
<1>a. "timer" \in Threads /\ "http" \in Threads
  BY DEF Threads
<1>b. OverlapsOK'
  BY TypeSplit, OverlapsGrow
<1> SUFFICES EngineOK' /\ ThreadOK' /\ TrackerOK' /\ WireOK' /\ RequestOK' /\ PlacesInv'
  BY <1>b DEF TypeOK, EngineOK, ThreadOK, TrackerOK, WireOK, RequestOK, OverlapsOK, Errand
<1>1. CASE Advance
  <2>1. TrackerOK'
    BY <1>0, <1>1, ClockAssumption DEF Advance, TrackerOK
  <2>2. WireOK'
    BY <1>0, <1>1 DEF Advance, WireOK
  <2> QED
    BY <1>0, <1>1, <2>1, <2>2 DEF Advance, EngineOK, ThreadOK, RequestOK, PlacesInv
<1>2. CASE Poll
  <2>1. thread' = [thread EXCEPT !["timer"].at = "emit", !["timer"].seq = BoundaryAt(Now)]
    BY <1>2 DEF Poll, PollTarget
  <2>2. ThreadOK' /\ thread'["timer"].at = "emit" /\ thread'["http"] = thread["http"]
    BY <1>0, <1>a, <2>1, BoundaryType, ErrandCarriesSeq DEF Places, Threads
  <2> QED
    BY <1>0, <1>2, <2>2
    DEF Poll, EngineOK, TrackerOK, WireOK, RequestOK, PlacesInv
<1>3. ASSUME NEW x \in Threads, Emit(x)
      PROVE  EngineOK' /\ ThreadOK' /\ TrackerOK' /\ WireOK' /\ RequestOK' /\ PlacesInv'
  <2>1. thread[x].seq \in Nat /\ TimeOf(thread[x].seq) \in Int
    BY <1>0, TimeOfType DEF ThreadOK, Errand
  <2>3. thread' = [thread EXCEPT ![x].at = "send", ![x].t = TimeOf(thread[x].seq)]
    BY <1>3 DEF Emit
  <2>4. /\ ThreadOK' /\ thread'[x].at = "send"
        /\ \A y \in Threads : y # x => thread'[y] = thread[y]
    BY <1>0, <2>1, <2>3, ErrandCarriesTime DEF Places
  <2>5. EngineOK'
    BY <1>0, <1>3, <2>1 DEF Emit, EngineOK
  <2>6. PlacesInv'
    BY <1>3, <1>a, <2>4 DEF Emit, PlacesInv, AsksForMode
  <2> QED
    BY <1>0, <1>3, <2>4, <2>5, <2>6 DEF Emit, TrackerOK, WireOK, RequestOK
<1>4. ASSUME NEW x \in Threads, Dispatch(x)
      PROVE  EngineOK' /\ ThreadOK' /\ TrackerOK' /\ WireOK' /\ RequestOK' /\ PlacesInv'
  <2>1. ThreadOK' /\ thread'[x] = Idle /\ \A y \in Threads : y # x => thread'[y] = thread[y]
    BY <1>0, <1>4, IdleType, ErrandStep DEF Dispatch, Done
  <2>2. WireOK'
    BY <1>0, <1>4 DEF Dispatch, WireOK, ThreadOK, Errand
  <2>3. PlacesInv'
    BY <1>4, <1>a, <2>1 DEF Dispatch, PlacesInv, AsksForMode, Idle
  <2> QED
    BY <1>0, <1>4, <2>1, <2>2, <2>3 DEF Dispatch, EngineOK, TrackerOK, RequestOK
<1>5. CASE PostStep
  <2>1. TimeOf(engine.seq + 1) - Now \in Int
    BY <1>0, TimeOfType, NowType DEF EngineOK
  <2>2. ThreadOK' /\ thread'["http"].at = "advance" /\ thread'["timer"] = thread["timer"]
    <3> DEFINE t == TimeOf(engine.seq + 1) - Now
    <3>1. t \in Int /\ thread' = [thread EXCEPT !["http"].at = "advance", !["http"].t = t]
      BY <1>5, <2>1 DEF PostStep
    <3> HIDE DEF t
    <3> QED
      BY <1>0, <3>1, HttpAdvances
  <2> QED
    BY <1>0, <1>5, <2>2
    DEF PostStep, EngineOK, TrackerOK, WireOK, RequestOK, PlacesInv, AsksForMode
<1>6. CASE StepAdvances
  <2>1. thread["http"].t \in Int
    BY <1>0, <1>a DEF ThreadOK, Errand
  <2>2. EngineOK' /\ WireOK'
    BY <1>0, <1>6, <2>1 DEF StepAdvances, EngineOK, WireOK
  <2>3. ThreadOK' /\ thread'["http"].at = "take" /\ thread'["timer"] = thread["timer"]
    BY <1>0, <1>6, <1>a, ErrandGoesOn DEF StepAdvances, Goto, Places
  <2> QED
    BY <1>0, <1>6, <2>2, <2>3 DEF StepAdvances, TrackerOK, RequestOK, PlacesInv, AsksForMode
<1>7. CASE StepTakesNext
  <2> DEFINE n == engine.seq + 1
  <2>1. n \in Nat
    BY <1>0 DEF EngineOK
  <2>2. ThreadOK' /\ thread'["http"].at = "emit" /\ thread'["timer"] = thread["timer"]
    <3>1. thread' = [thread EXCEPT !["http"].at = "emit", !["http"].seq = n]
      BY <1>7 DEF StepTakesNext
    <3> HIDE DEF n
    <3> QED
      BY <1>0, <2>1, <3>1, HttpTakes
  <2> QED
    BY <1>0, <1>7, <2>2
    DEF StepTakesNext, EngineOK, TrackerOK, WireOK, RequestOK, PlacesInv, AsksForMode
<1>8. CASE PostMode
  <2>1. EngineOK' /\ RequestOK' /\ request' \in ModeBody
    BY <1>0, <1>8, NowType DEF PostMode, Carried, EngineOK, RequestOK
  <2>2. ThreadOK' /\ thread'["timer"] = thread["timer"]
    <3>1. PICK place \in Places : thread' = [thread EXCEPT !["http"].at = place]
      BY <1>8 DEF PostMode, Goto, Places
    <3> QED
      BY <1>0, <1>a, <3>1, ErrandGoesOn
  <2> QED
    BY <1>0, <1>8, <2>1, <2>2 DEF PostMode, TrackerOK, WireOK, PlacesInv
<1>9. CASE SwapSource
  <2>1. EngineOK'
    BY <1>0, <1>9 DEF SwapSource, EngineOK, PlacesInv, AsksForMode, ModeBody
  <2>2. ThreadOK' /\ thread'["timer"] = thread["timer"]
    BY <1>0, <1>9, <1>a, ErrandGoesOn DEF SwapSource, Goto, Places
  <2> QED
    BY <1>0, <1>9, <2>1, <2>2
    DEF SwapSource, TrackerOK, WireOK, RequestOK, PlacesInv, AsksForMode
<1>10. CASE SetOrigin
  <2>1. EngineOK'
    BY <1>0, <1>10, NowType DEF SetOrigin, EngineOK
  <2>2. ThreadOK' /\ thread'["timer"] = thread["timer"]
    BY <1>0, <1>10, <1>a, ErrandGoesOn DEF SetOrigin, Goto, Places
  <2> QED
    BY <1>0, <1>10, <2>1, <2>2
    DEF SetOrigin, TrackerOK, WireOK, RequestOK, PlacesInv, AsksForMode
<1>11. CASE SetPaused
  <2>1. EngineOK'
    BY <1>0, <1>11 DEF SetPaused, NothingToPause, PauseEngine, ResumeEngine, EngineOK
  <2>2. /\ ThreadOK' /\ thread'["timer"] = thread["timer"]
        /\ thread'["http"].at \in {"idle", "rebase"}
    <3>1. CASE Done("http")
      <4>1. thread' = [thread EXCEPT !["http"] = Idle] /\ Idle.at = "idle"
        BY <3>1 DEF Done, Idle
      <4> QED
        BY <1>0, <1>a, <4>1, IdleType, ErrandStep
    <3>2. CASE Goto("http", "rebase")
      <4>1. thread' = [thread EXCEPT !["http"].at = "rebase"] /\ "rebase" \in Places
        BY <3>2 DEF Goto, Places
      <4> QED
        BY <1>0, <1>a, <4>1, ErrandGoesOn
    <3> QED
      BY <1>11, <3>1, <3>2 DEF SetPaused, NothingToPause, PauseEngine, ResumeEngine
  <2> QED
    BY <1>0, <1>11, <2>1, <2>2
    DEF SetPaused, TrackerOK, WireOK, RequestOK, PlacesInv, AsksForMode
<1>12. CASE Rebase
  <2>1. EngineOK' /\ WireOK'
    BY <1>0, <1>12, NowType DEF Rebase, EngineOK, WireOK
  <2>2. ThreadOK' /\ thread'["timer"] = thread["timer"] /\ thread'["http"] = Idle
    BY <1>0, <1>12, <1>a, IdleType, ErrandStep DEF Rebase, Done
  <2> QED
    BY <1>0, <1>12, <2>1, <2>2 DEF Rebase, TrackerOK, RequestOK, PlacesInv, AsksForMode, Idle
<1>13. CASE PostRate
  <2>1. EngineOK'
    BY <1>0, <1>13 DEF PostRate, EngineOK
  <2>2. /\ ThreadOK' /\ thread'["timer"] = thread["timer"]
        /\ thread'["http"].at = "rebase"
    <3>1. thread' = [thread EXCEPT !["http"].at = "rebase"] /\ "rebase" \in Places
      BY <1>13 DEF PostRate, Goto, Places
    <3> QED
      BY <1>0, <1>a, <3>1, ErrandGoesOn
  <2> QED
    BY <1>0, <1>13, <2>1, <2>2
    DEF PostRate, TrackerOK, WireOK, RequestOK, PlacesInv, AsksForMode
<1>14. CASE HearMonitor
  <2>1. TrackerOK'
    <3>1. Hold + 1 \in 0..Hold + 1 /\ 0 \in 0..Hold + 1
      BY ClockAssumption
    <3>2. CASE OnVerdict
      BY <1>0, <3>1, <3>2 DEF OnVerdict, TrackerOK
    <3>3. ASSUME NEW command, OnCommand(command) PROVE TrackerOK'
      BY <1>0, <3>1, <3>3 DEF OnCommand, TrackerOK
    <3> QED
      BY <1>14, <3>2, <3>3 DEF HearMonitor
  <2> QED
    BY <1>0, <1>14, <2>1 DEF HearMonitor, EngineOK, ThreadOK, WireOK, RequestOK, PlacesInv
<1>15. CASE UNCHANGED vars
  BY <1>0, <1>15 DEF vars, EngineOK, ThreadOK, TrackerOK, WireOK, RequestOK, PlacesInv
<1> QED
  BY <1>1, <1>2, <1>3, <1>4, <1>5, <1>6, <1>7, <1>8, <1>9, <1>10, <1>11, <1>12, <1>13,
     <1>14, <1>15 DEF Next

\* Every variable of the clock keeps its type, whatever overlaps.
THEOREM TypeCorrect == Spec => []TypeOK
<1>1. TypeOK /\ PlacesInv /\ [Next]_vars => (TypeOK /\ PlacesInv)'
  BY TypeStep
<1> QED
  BY TypeInit, <1>1, PTL DEF Spec

-----------------------------------------------------------------------------
(* The boundary arithmetic.                                                *)

\* A boundary is a period after the one before it, and later ones are later.
LEMMA BoundariesAdvance ==
  ASSUME TypeOK, NEW a \in Int, NEW b \in Int
  PROVE  /\ a < b => TimeOf(a) + engine.period <= TimeOf(b)
         /\ b = a + 1 => TimeOf(b) = TimeOf(a) + engine.period
         /\ TimeOf(b) - TimeOf(a) = (b - a) * engine.period
<1>1. engine.period \in Nat \ {0} /\ engine.epochT \in Int /\ engine.epochSeq \in Nat
  BY ClockAssumption DEF TypeOK
<1> DEFINE p == engine.period
           e == engine.epochSeq
<1>2. \A x \in Int, y \in Int : (y - e) * p - (x - e) * p = (y - x) * p
  BY <1>1, SMT
<1>4. a < b => (b - a) * p >= p
  BY <1>1, SMT
<1>5. \A n \in Int : TimeOf(n) = engine.epochT + (n - e) * p
  BY DEF TimeOf
<1>6. (a - e) * p \in Int /\ (b - e) * p \in Int /\ (b - a) * p \in Int
  BY <1>1, SMT
<1>7. (b - e) * p - (a - e) * p = (b - a) * p
  BY <1>2
<1> DEFINE pa == (a - e) * p
           pb == (b - e) * p
           pd == (b - a) * p
<1>8. TimeOf(a) = engine.epochT + pa /\ TimeOf(b) = engine.epochT + pb
  BY <1>5
<1>9. b = a + 1 => (b - a) * p = p
  BY <1>1, SMT
<1>10. pb - pa = pd /\ (a < b => pd >= p) /\ (b = a + 1 => pd = p) /\ pa \in Int /\ pb \in Int /\ pd \in Int /\ p \in Int
  BY <1>1, <1>4, <1>6, <1>7, <1>9
<1>11. pd = (b - a) * engine.period /\ p = engine.period
  OBVIOUS
<1> HIDE DEF p, e, pa, pb, pd
<1> QED
  BY <1>1, <1>8, <1>10, <1>11

\* A boundary that has passed is behind the clock, and the next is to come.
LEMMA BoundaryIsLatest ==
  ASSUME TypeOK, EngineInv, BoundaryAt(Now) > engine.seq
  PROVE  TimeOf(BoundaryAt(Now)) <= Now /\ Now < TimeOf(BoundaryAt(Now)) + engine.period
<1>1. /\ engine.period \in Nat \ {0} /\ engine.epochT \in Int /\ engine.epochSeq \in Nat
      /\ engine.seq \in Nat /\ Now \in Int
  BY ClockAssumption, NowType DEF TypeOK
<1>2. ~(Now < engine.epochT)
  BY <1>1 DEF BoundaryAt, EngineInv
<1> DEFINE n == (Now - engine.epochT) \div engine.period
<1>3. /\ n \in Nat /\ n * engine.period <= Now - engine.epochT
      /\ Now - engine.epochT < n * engine.period + engine.period
  <2>1. Now - engine.epochT \in Nat
    BY <1>1, <1>2
  <2> QED
    BY <1>1, <2>1, DivisionBounds
<1>4. BoundaryAt(Now) = engine.epochSeq + n
  BY <1>2 DEF BoundaryAt
<1> HIDE DEF n
<1>5. TimeOf(BoundaryAt(Now)) = engine.epochT + n * engine.period
  BY <1>1, <1>3, <1>4 DEF TimeOf
<1>6. n * engine.period \in Int
  BY <1>1, <1>3
<1> QED
  BY <1>1, <1>3, <1>5, <1>6

-----------------------------------------------------------------------------
(* The invariant, step by step.                                            *)

LEMMA ClockInit == Init => ClockInv
<1> SUFFICES ASSUME Init PROVE ClockInv
  OBVIOUS
<1>1. TypeOK /\ PlacesInv
  BY TypeInit
<1>2. thread["timer"] = Idle /\ thread["http"] = Idle /\ OneCall
  BY DEF Init, OneCall, Threads
<1>3. Now = 0 /\ Reading = 0 /\ Taken = 0 /\ TimeOf(0) = 0 /\ engine.period \in Nat
  BY <1>1, <1>2, ClockAssumption
  DEF Init, Now, SourceNow, Reading, Taken, TimeOf, Idle, TypeOK
<1>4. EngineInv
  BY <1>2, <1>3 DEF Init, EngineInv, Idle
<1>5. ThreadInv /\ WireInv
  BY <1>2 DEF Init, ThreadInv, WireInv, UnderWay, Threads, Idle
<1>6. AwakeInv
  BY <1>3 DEF Init, AwakeInv
<1> QED
  BY <1>1, <1>2, <1>4, <1>5, <1>6 DEF ClockInv

NumbersInv == EngineInv /\ ThreadInv /\ WireInv /\ AwakeInv

\* A call that leaves the epoch and the period alone moves no boundary.
LEMMA AxisKept ==
  ASSUME NEW n \in Int, engine'.epochT = engine.epochT, engine'.epochSeq = engine.epochSeq,
         engine'.period = engine.period
  PROVE  TimeOf(n)' = TimeOf(n)
BY DEF TimeOf

\* The numbers the invariant compares.
LEMMA NumberTypes ==
  ASSUME TypeOK
  PROVE  /\ Now \in Int /\ Reading \in Int /\ Taken \in Nat /\ awake \in Nat
         /\ engine.seq \in Nat /\ engine.epochSeq \in Nat /\ engine.lastT \in Int
         /\ engine.period \in Nat \ {0} /\ engine.paused \in BOOLEAN
         /\ wire.seq \in Nat /\ wire.t \in Int
         /\ \A x \in Threads : thread[x].seq \in Nat /\ thread[x].t \in Int
         /\ \A n \in Int : TimeOf(n) \in Int
         /\ "timer" \in Threads /\ "http" \in Threads
<1>1. Reading \in Int /\ Now \in Int
  BY NowType DEF TypeOK, Reading
<1>2. Taken \in Nat
  BY DEF TypeOK, Taken, Threads
<1> QED
  BY <1>1, <1>2, TimeOfType, ClockAssumption DEF TypeOK, Threads

\* Time passes.
LEMMA AdvanceKeeps == ClockInv /\ TypeOK' /\ Advance => NumbersInv'
<1> SUFFICES ASSUME ClockInv, TypeOK', Advance PROVE NumbersInv'
  OBVIOUS
<1>0. TypeOK /\ EngineInv /\ ThreadInv /\ WireInv /\ AwakeInv
  BY DEF ClockInv
<1>1. engine' = engine /\ thread' = thread /\ wire' = wire
  BY DEF Advance
<1>2. Now \in Int /\ Now' \in Int /\ Now <= Now' /\ (engine.mode # "wall" => Now' = Now)
  BY <1>0, <1>1, NowType DEF Advance, Now, SourceNow, TypeOK
<1>3. Reading \in Int /\ Reading' \in Int /\ Reading <= Reading'
  BY <1>0, <1>1, <1>2, NumberTypes DEF Reading
<1>4. \A n \in Int : TimeOf(n)' = TimeOf(n)
  BY <1>1, AxisKept
<1>5. EngineInv'
  <2>1. engine.lastT <= Reading'
    BY <1>0, <1>3, NumberTypes DEF EngineInv
  <2> QED
    BY <1>0, <1>1, <1>4, <2>1, NumberTypes DEF EngineInv
<1>6. ThreadInv'
  BY <1>0, <1>1, <1>2, <1>4, NumberTypes DEF ThreadInv
<1>7. WireInv'
  BY <1>0, <1>1 DEF WireInv, UnderWay
<1>8. AwakeInv'
  <2>1. TimeOf(Taken)' = TimeOf(Taken) /\ TimeOf(Taken) \in Int
    BY <1>0, <1>1, <1>4, NumberTypes DEF Taken
  <2>2. CASE engine.mode = "wall" /\ ~engine.paused
    <3>1. awake' = awake + 1 /\ Reading' <= Reading + 1
      BY <1>0, <1>1, <2>2, NumberTypes DEF Advance, Reading, Now, SourceNow, TypeOK
    <3> QED
      BY <1>0, <1>1, <1>3, <2>1, <3>1, NumberTypes DEF AwakeInv
  <2>3. CASE engine.mode # "wall"
    <3>1. awake' = awake /\ Reading' = Reading
      BY <1>1, <1>2, <2>3 DEF Advance, Reading
    <3> QED
      BY <1>0, <1>1, <2>1, <3>1 DEF AwakeInv
  <2> QED
    BY <1>1, <2>2, <2>3 DEF AwakeInv
<1> QED
  BY <1>5, <1>6, <1>7, <1>8 DEF NumbersInv

\* A call that overlaps no other begins when none is under way, and goes on alone.
LEMMA Alone ==
  ASSUME TypeOK, OneCall
  PROVE  /\ \A x \in Threads, pulses \in BOOLEAN :
              Begins(x, pulses) /\ overlaps' = {}
                => thread["timer"] = Idle /\ thread["http"] = Idle
         /\ thread["http"].at # "idle" => thread["timer"] = Idle
         /\ thread["timer"].at # "idle" => thread["http"] = Idle
         /\ Idle.at = "idle"
BY DEF Begins, OneCall, Threads, Idle

LEMMA PollKeeps ==
  ASSUME ClockInv, Poll, overlaps' = {}
  PROVE  OneCall' /\ NumbersInv'
<1>0. TypeOK /\ OneCall /\ EngineInv /\ ThreadInv /\ WireInv /\ AwakeInv
  BY DEF ClockInv
<1>1. /\ thread["timer"] = Idle /\ thread["http"] = Idle /\ ~engine.paused
      /\ BoundaryAt(Now) > engine.seq /\ engine' = engine /\ wall' = wall /\ wire' = wire
      /\ thread' = [thread EXCEPT !["timer"].at = "emit", !["timer"].seq = BoundaryAt(Now)]
      /\ awake' = 0
  BY <1>0, Alone, NumberTypes DEF Poll, BoundaryPassed, PollTarget
<1>2. /\ thread'["timer"].at = "emit" /\ thread'["timer"].seq = BoundaryAt(Now)
      /\ thread'["http"] = Idle /\ Idle.at = "idle"
  <2> DEFINE taken == BoundaryAt(Now)
  <2>1. ThreadOK /\ taken \in Nat /\ Idle.at = "idle"
    BY <1>0, TypeSplit, BoundaryType DEF Idle
  <2>2. thread' = [thread EXCEPT !["timer"].at = "emit", !["timer"].seq = taken]
    BY <1>1
  <2> HIDE DEF taken
  <2>3. /\ thread'["timer"].at = "emit" /\ thread'["timer"].seq = taken
        /\ thread'["http"] = thread["http"]
    BY <2>1, <2>2, TimerTakes
  <2> QED
    BY <1>1, <2>1, <2>3 DEF taken
<1> DEFINE n == BoundaryAt(Now)
<1>3. n \in Nat /\ TimeOf(n) \in Int /\ TimeOf(n) <= Now /\ Now < TimeOf(n) + engine.period
  BY <1>0, <1>1, BoundaryType, BoundaryIsLatest, NumberTypes
<1> HIDE DEF n
<1>4. \A i \in Int : TimeOf(i)' = TimeOf(i)
  BY <1>1, AxisKept
<1>5. Now' = Now /\ Reading' = Now /\ Reading = Now /\ Taken' = n
  BY <1>1, <1>2 DEF Now, SourceNow, Reading, Taken, n
<1>6. OneCall' /\ EngineInv'
  BY <1>0, <1>1, <1>2, <1>4, <1>5, NumberTypes DEF OneCall, EngineInv
<1>7. ThreadInv'
  BY <1>0, <1>1, <1>2, <1>3, <1>4, <1>5, NumberTypes DEF ThreadInv, Threads, n
<1>8. WireInv'
  BY <1>0, <1>1, <1>2 DEF WireInv, UnderWay, Threads
<1>9. AwakeInv'
  BY <1>0, <1>1, <1>3, <1>4, <1>5, NumberTypes DEF AwakeInv
<1> QED
  BY <1>6, <1>7, <1>8, <1>9 DEF NumbersInv

LEMMA EmitKeeps ==
  ASSUME ClockInv, NEW x \in Threads, Emit(x)
  PROVE  OneCall' /\ NumbersInv'
<1>0. TypeOK /\ OneCall /\ EngineInv /\ ThreadInv /\ WireInv /\ AwakeInv
  BY DEF ClockInv
<1> DEFINE n == thread[x].seq
<1>1. /\ n \in Nat /\ n > engine.seq /\ TimeOf(n) <= Now /\ TimeOf(n) \in Int
      /\ engine' = [engine EXCEPT !.seq = n, !.lastT = TimeOf(n)]
      /\ thread[x].at = "emit" /\ wall' = wall /\ wire' = wire /\ awake' = awake
      /\ thread' = [thread EXCEPT ![x].at = "send", ![x].t = TimeOf(n)]
  BY <1>0, NumberTypes DEF Emit, ThreadInv
<1>2. /\ thread'[x].at = "send" /\ thread'[x].seq = n /\ thread'[x].t = TimeOf(n)
      /\ \A y \in Threads \ {x} : thread[y] = Idle /\ thread'[y] = Idle
      /\ Idle.at = "idle"
  <2>1. ThreadOK /\ "send" \in Places
    BY <1>0, TypeSplit DEF Places
  <2>2. \A y \in Threads \ {x} : thread[y] = Idle
    BY <1>0, <1>1, Alone DEF Threads
  <2>3. /\ thread'[x].at = "send" /\ thread'[x].t = TimeOf(n) /\ thread'[x].seq = thread[x].seq
        /\ \A y \in Threads : y # x => thread'[y] = thread[y]
    <3> HIDE DEF n
    <3> QED
      BY <1>1, <2>1, ErrandCarriesTime
  <2> QED
    BY <2>2, <2>3 DEF Idle
<1>3. /\ engine'.seq = n /\ engine'.lastT = TimeOf(n) /\ engine'.epochSeq = engine.epochSeq
      /\ engine'.epochT = engine.epochT /\ engine'.period = engine.period
      /\ engine'.paused = engine.paused /\ engine'.mode = engine.mode
      /\ engine'.carried = engine.carried /\ engine'.driven = engine.driven
      /\ engine'.origin = engine.origin
  BY <1>0, <1>1 DEF TypeOK
<1> HIDE DEF n
<1>4. \A i \in Int : TimeOf(i)' = TimeOf(i)
  BY <1>3, AxisKept
<1>5. /\ thread["http"].at \in {"emit", "idle"} /\ thread'["http"].at \in {"send", "idle"}
      /\ thread["timer"].at \in {"emit", "idle"} /\ thread'["timer"].at \in {"send", "idle"}
  BY <1>1, <1>2 DEF Threads
<1>6. Now' = Now /\ Reading = Now /\ Reading' = Now /\ Taken' = n
  BY <1>1, <1>3, <1>5 DEF Now, SourceNow, Reading, Taken
<1>7. engine.lastT <= TimeOf(engine.seq) /\ TimeOf(engine.seq) + engine.period <= TimeOf(n)
  BY <1>0, <1>1, <1>5, BoundariesAdvance, NumberTypes DEF EngineInv
<1>8. OneCall' /\ EngineInv'
  <2>1. OneCall'
    BY <1>2 DEF OneCall, Threads
  <2>2. engine'.epochSeq <= engine'.seq
    BY <1>0, <1>1, <1>3, NumberTypes DEF EngineInv
  <2>3. TimeOf(engine.seq)' = TimeOf(n)
    BY <1>1, <1>3, <1>4
  <2> QED
    BY <1>1, <1>3, <1>6, <2>1, <2>2, <2>3 DEF EngineInv
<1>9. ThreadInv'
  BY <1>2, <1>3, <1>5 DEF ThreadInv
<1>10. WireInv'
  <2>1. ~UnderWay /\ UnderWay'
    BY <1>1, <1>2 DEF UnderWay
  <2> QED
    BY <1>0, <1>1, <1>3, <1>7, <2>1, NumberTypes DEF WireInv
<1>11. AwakeInv'
  <2>1. Taken = n \/ Taken = engine.seq
    BY <1>1, <1>2 DEF Taken, Threads, n
  <2>2. TimeOf(Taken) <= TimeOf(n) /\ TimeOf(Taken) \in Int
    BY <1>0, <1>1, <1>7, <2>1, NumberTypes
  <2> QED
    BY <1>0, <1>1, <1>3, <1>4, <1>5, <1>6, <2>2, NumberTypes DEF AwakeInv
<1> QED
  BY <1>8, <1>9, <1>10, <1>11 DEF NumbersInv

LEMMA DispatchKeeps ==
  ASSUME ClockInv, NEW x \in Threads, Dispatch(x)
  PROVE  /\ OneCall' /\ NumbersInv'
         /\ wire'.seq > wire.seq /\ wire'.t > wire.t
<1>0. TypeOK /\ OneCall /\ EngineInv /\ ThreadInv /\ WireInv /\ AwakeInv
  BY DEF ClockInv
<1>1. /\ thread[x].at = "send" /\ thread[x].seq = engine.seq /\ thread[x].t = engine.lastT
      /\ engine' = engine /\ wall' = wall /\ awake' = awake
      /\ thread' = [thread EXCEPT ![x] = Idle]
      /\ wire'.seq = engine.seq /\ wire'.t = engine.lastT
  BY <1>0 DEF Dispatch, Done, ThreadInv
<1>2. /\ thread'["timer"] = Idle /\ thread'["http"] = Idle /\ Idle.at = "idle"
      /\ thread["http"].at \in {"send", "idle"} /\ thread["timer"].at \in {"send", "idle"}
  BY <1>0, <1>1, Alone DEF Threads, TypeOK
<1>3. wire.seq < engine.seq /\ wire.t < engine.lastT
  BY <1>0, <1>1 DEF WireInv, UnderWay
<1>4. \A i \in Int : TimeOf(i)' = TimeOf(i)
  BY <1>1, AxisKept
<1>5. Now' = Now /\ Reading = Now /\ Reading' = Now /\ Taken = engine.seq /\ Taken' = engine.seq
  BY <1>1, <1>2 DEF Now, SourceNow, Reading, Taken
<1>6. OneCall' /\ EngineInv'
  BY <1>0, <1>1, <1>2, <1>4, <1>5, NumberTypes DEF OneCall, EngineInv
<1>7. ThreadInv' /\ WireInv'
  BY <1>1, <1>2 DEF ThreadInv, WireInv, UnderWay, Threads
<1>8. AwakeInv'
  BY <1>0, <1>1, <1>2, <1>4, <1>5, NumberTypes DEF AwakeInv
<1> QED
  BY <1>0, <1>1, <1>3, <1>6, <1>7, <1>8, NumberTypes DEF NumbersInv

\* A step of a request that takes no pulse and moves no boundary: the clock
\* does not go back, nor further on than it is awake.
LEMMA RequestKeeps ==
  ASSUME ClockInv, wire' = wire,
         engine'.seq = engine.seq, engine'.lastT = engine.lastT,
         engine'.epochT = engine.epochT, engine'.epochSeq = engine.epochSeq,
         engine'.period = engine.period, engine'.paused \in BOOLEAN,
         thread["timer"] = Idle, thread'["timer"] = Idle,
         thread["http"].at # "send", thread'["http"].at # "send",
         thread["http"].at = "rebase" => thread'["http"].at = "rebase",
         ~engine'.paused /\ thread'["http"].at # "rebase"
           => ~engine.paused /\ thread["http"].at # "rebase",
         NEW ahead \in Nat, Reading' = Reading + ahead,
         awake' \in Nat, ~engine'.paused => awake' >= awake + ahead
  PROVE  OneCall' /\ EngineInv' /\ WireInv' /\ AwakeInv'
<1>0. TypeOK /\ OneCall /\ EngineInv /\ ThreadInv /\ WireInv /\ AwakeInv
  BY DEF ClockInv
<1>1. \A i \in Int : TimeOf(i)' = TimeOf(i)
  BY AxisKept
<1>2. Taken = engine.seq /\ Taken' = engine.seq
  BY DEF Taken, Idle
<1>3. OneCall' /\ WireInv'
  BY <1>0 DEF OneCall, WireInv, UnderWay, Threads, Idle
<1>4. EngineInv'
  <2>1. engine.lastT <= Reading'
    BY <1>0, NumberTypes DEF EngineInv
  <2> QED
    BY <1>0, <1>1, <2>1, NumberTypes DEF EngineInv
<1>5. AwakeInv'
  BY <1>0, <1>1, <1>2, NumberTypes DEF AwakeInv
<1> QED
  BY <1>3, <1>4, <1>5

LEMMA PostStepKeeps ==
  ASSUME ClockInv, PostStep, overlaps' = {}
  PROVE  OneCall' /\ NumbersInv'
<1>0. TypeOK /\ ThreadOK /\ OneCall /\ ThreadInv
  BY TypeSplit DEF ClockInv, NumbersInv
<1>1. /\ thread["timer"] = Idle /\ thread["http"] = Idle /\ engine' = engine /\ wall' = wall
      /\ wire' = wire /\ awake' = awake /\ engine.mode # "wall"
  BY <1>0, Alone, NumberTypes DEF PostStep
<1> DEFINE toNext == TimeOf(engine.seq + 1) - Now
<1>2. toNext \in Int
  BY <1>0, NumberTypes
<1>3. thread' = [thread EXCEPT !["http"].at = "advance", !["http"].t = toNext]
  BY DEF PostStep
<1> HIDE DEF toNext
<1>4. /\ thread'["timer"] = Idle /\ thread'["http"].at = "advance" /\ thread'["http"].t = toNext
      /\ Idle.at = "idle"
  <2>1. thread'["http"].at = "advance" /\ thread'["http"].t = toNext
        /\ thread'["timer"] = thread["timer"]
    BY <1>0, <1>2, <1>3, HttpAdvances
  <2> QED
    BY <1>1, <2>1 DEF Idle
<1>5. Now' = Now /\ Reading' = Now /\ Reading = Now
  BY <1>1, <1>4 DEF Now, SourceNow, Reading
<1>6. OneCall' /\ EngineInv' /\ WireInv' /\ AwakeInv'
  <2>1. /\ Reading' = Reading + 0 /\ awake' \in Nat /\ awake' >= awake + 0
        /\ engine'.paused \in BOOLEAN
    BY <1>0, <1>1, <1>5, NumberTypes
  <2> QED
    BY <1>1, <1>4, <2>1, RequestKeeps
<1>7. TimeOf(engine.seq + 1)' = TimeOf(engine.seq + 1)
  BY <1>1 DEF TimeOf
<1>8. ThreadInv'
  BY <1>1, <1>4, <1>5, <1>7 DEF ThreadInv, Threads, toNext
<1> QED
  BY <1>6, <1>8 DEF NumbersInv

LEMMA StepAdvancesKeeps ==
  ASSUME ClockInv, StepAdvances
  PROVE  OneCall' /\ NumbersInv'
<1>0. TypeOK /\ ThreadOK /\ OneCall /\ ThreadInv
  BY TypeSplit DEF ClockInv, NumbersInv
<1> DEFINE next == engine.seq + 1
           ahead == IF thread["http"].t > 0 THEN thread["http"].t ELSE 0
<1>1. /\ thread["http"].at = "advance" /\ thread["timer"] = Idle
      /\ engine.mode # "wall" /\ thread["http"].t = TimeOf(next) - Now
      /\ engine' = [engine EXCEPT !.driven = @ + ahead] /\ wall' = wall /\ wire' = wire
      /\ awake' = (IF engine.paused THEN awake ELSE awake + ahead)
  BY <1>0, Alone DEF StepAdvances, ThreadInv
<1>2. ahead \in Nat /\ next \in Int /\ TimeOf(next) \in Int /\ Now \in Int /\ awake \in Nat
  BY <1>0, NumberTypes
<1>3. /\ engine'.driven = engine.driven + ahead /\ engine'.mode = engine.mode
      /\ engine'.carried = engine.carried /\ engine'.origin = engine.origin
      /\ engine'.seq = engine.seq /\ engine'.lastT = engine.lastT
      /\ engine'.epochT = engine.epochT /\ engine'.epochSeq = engine.epochSeq
      /\ engine'.period = engine.period /\ engine'.paused = engine.paused
      /\ engine'.paused \in BOOLEAN
  BY <1>0, <1>1 DEF TypeOK
<1>4. /\ thread'["timer"] = Idle /\ thread'["http"].at = "take" /\ Idle.at = "idle"
  <2>1. /\ "timer" \in Threads /\ "http" \in Threads /\ "take" \in Places
        /\ thread' = [thread EXCEPT !["http"].at = "take"]
    BY DEF Threads, Places, StepAdvances, Goto
  <2> QED
    BY <1>0, <1>1, <2>1, ErrandGoesOn DEF Idle
<1> HIDE DEF ahead, next
<1>5. Now' = Now + ahead /\ Reading = Now /\ Reading' = Now'
  BY <1>0, <1>1, <1>2, <1>3, <1>4 DEF Now, SourceNow, Reading, TypeOK
<1>6. OneCall' /\ EngineInv' /\ WireInv' /\ AwakeInv'
  <2>1. Reading' = Reading + ahead /\ awake' \in Nat /\ (~engine'.paused => awake' >= awake + ahead)
    BY <1>1, <1>2, <1>3, <1>5
  <2> QED
    BY <1>1, <1>2, <1>3, <1>4, <2>1, RequestKeeps
<1>7. TimeOf(engine.seq + 1)' = TimeOf(next) /\ TimeOf(next) <= Now'
  <2>1. TimeOf(engine.seq + 1)' = TimeOf(next)
    BY <1>3 DEF TimeOf, next
  <2>2. TimeOf(next) <= Now + ahead
    BY <1>1, <1>2 DEF ahead
  <2> QED
    BY <1>5, <2>1, <2>2
<1>8. ThreadInv'
  BY <1>1, <1>4, <1>7 DEF ThreadInv, Threads
<1> QED
  BY <1>6, <1>8 DEF NumbersInv

LEMMA StepTakesNextKeeps ==
  ASSUME ClockInv, StepTakesNext
  PROVE  OneCall' /\ NumbersInv'
<1>0. TypeOK /\ ThreadOK /\ OneCall /\ ThreadInv
  BY TypeSplit DEF ClockInv, NumbersInv
<1> DEFINE next == engine.seq + 1
<1>1. /\ thread["http"].at = "take" /\ thread["timer"] = Idle /\ TimeOf(next) <= Now
      /\ engine' = engine /\ wall' = wall /\ wire' = wire /\ awake' = awake
      /\ thread' = [thread EXCEPT !["http"].at = "emit", !["http"].seq = next]
  BY <1>0, Alone DEF StepTakesNext, ThreadInv
<1>2. next \in Nat /\ next > engine.seq
  BY <1>0, NumberTypes
<1> HIDE DEF next
<1>3. /\ thread'["timer"] = Idle /\ thread'["http"].at = "emit" /\ thread'["http"].seq = next
      /\ Idle.at = "idle"
  <2>1. thread'["http"].at = "emit" /\ thread'["http"].seq = next
        /\ thread'["timer"] = thread["timer"]
    BY <1>0, <1>1, <1>2, HttpTakes
  <2> QED
    BY <1>1, <2>1 DEF Idle
<1>4. Now' = Now /\ Reading' = Now /\ Reading = Now
  BY <1>1, <1>3 DEF Now, SourceNow, Reading
<1>5. OneCall' /\ EngineInv' /\ WireInv' /\ AwakeInv'
  <2>1. /\ Reading' = Reading + 0 /\ awake' \in Nat /\ awake' >= awake + 0
        /\ engine'.paused \in BOOLEAN
    BY <1>0, <1>1, <1>4, NumberTypes
  <2> QED
    BY <1>1, <1>3, <2>1, RequestKeeps
<1>6. \A i \in Int : TimeOf(i)' = TimeOf(i)
  BY <1>1, AxisKept
<1>7. ThreadInv'
  BY <1>1, <1>2, <1>3, <1>4, <1>6 DEF ThreadInv, Threads
<1> QED
  BY <1>5, <1>7 DEF NumbersInv

LEMMA PostModeKeeps ==
  ASSUME ClockInv, PostMode, overlaps' = {}
  PROVE  OneCall' /\ NumbersInv'
<1>0. TypeOK /\ ThreadOK /\ OneCall /\ ThreadInv
  BY TypeSplit DEF ClockInv, NumbersInv
<1>1. thread["timer"] = Idle /\ thread["http"] = Idle /\ Idle.at = "idle"
  BY <1>0, Alone, NumberTypes DEF PostMode
<1>2. wall' = wall /\ wire' = wire /\ awake' = awake
  BY DEF PostMode
<1>3. /\ engine'.seq = engine.seq /\ engine'.lastT = engine.lastT
      /\ engine'.epochT = engine.epochT /\ engine'.epochSeq = engine.epochSeq
      /\ engine'.period = engine.period /\ engine'.paused = engine.paused
      /\ engine'.mode = engine.mode /\ engine'.driven = engine.driven
      /\ engine'.origin = engine.origin /\ engine'.paused \in BOOLEAN
  BY <1>0 DEF PostMode, TypeOK
<1>4. \/ Goto("http", "pausing") /\ engine' = engine
      \/ Goto("http", "source") /\ engine' = [engine EXCEPT !.carried = Now]
  BY DEF PostMode, Carried
<1>5. /\ thread'["timer"] = Idle /\ thread'["http"].at \in {"pausing", "source"}
      /\ Reading' = Now
  <2>1. "timer" \in Threads /\ "http" \in Threads /\ "pausing" \in Places /\ "source" \in Places
    BY DEF Threads, Places
  <2>2. CASE Goto("http", "pausing") /\ engine' = engine
    <3>1. thread'["timer"] = Idle /\ thread'["http"].at = "pausing"
      BY <1>0, <1>1, <2>1, <2>2, ErrandGoesOn DEF Goto
    <3> QED
      BY <1>2, <2>2, <3>1 DEF Reading, Now, SourceNow
  <2>3. CASE Goto("http", "source") /\ engine' = [engine EXCEPT !.carried = Now]
    <3>1. thread'["timer"] = Idle /\ thread'["http"].at = "source"
      BY <1>0, <1>1, <2>1, <2>3, ErrandGoesOn DEF Goto
    <3>2. engine'.carried = Now
      BY <1>0, <2>3 DEF TypeOK
    <3> QED
      BY <3>1, <3>2 DEF Reading
  <2> QED
    BY <1>4, <2>2, <2>3
<1>6. OneCall' /\ EngineInv' /\ WireInv' /\ AwakeInv'
  <2>1. Reading' = Reading + 0 /\ awake' \in Nat /\ awake' >= awake + 0
    BY <1>0, <1>1, <1>2, <1>5, NumberTypes DEF Reading
  <2> QED
    BY <1>1, <1>2, <1>3, <1>5, <2>1, RequestKeeps
<1>7. ThreadInv'
  BY <1>1, <1>5 DEF ThreadInv, Threads
<1> QED
  BY <1>6, <1>7 DEF NumbersInv

LEMMA SwapSourceKeeps ==
  ASSUME ClockInv, SwapSource
  PROVE  OneCall' /\ NumbersInv'
<1>0. TypeOK /\ ThreadOK /\ OneCall /\ ThreadInv
  BY TypeSplit DEF ClockInv, NumbersInv
<1>1. thread["timer"] = Idle /\ thread["http"].at = "source" /\ Idle.at = "idle"
  BY <1>0, Alone DEF SwapSource
<1>2. wall' = wall /\ wire' = wire /\ awake' = awake
  BY DEF SwapSource
<1>3. /\ engine'.seq = engine.seq /\ engine'.lastT = engine.lastT
      /\ engine'.epochT = engine.epochT /\ engine'.epochSeq = engine.epochSeq
      /\ engine'.period = engine.period /\ engine'.paused = engine.paused
      /\ engine'.carried = engine.carried /\ engine'.paused \in BOOLEAN
  BY <1>0 DEF SwapSource, TypeOK
<1>4. thread'["timer"] = Idle /\ thread'["http"].at = "origin"
  <2>1. "timer" \in Threads /\ "http" \in Threads /\ "origin" \in Places
    BY DEF Threads, Places
  <2> QED
    BY <1>0, <1>1, <2>1, ErrandGoesOn DEF SwapSource, Goto
<1>5. OneCall' /\ EngineInv' /\ WireInv' /\ AwakeInv'
  <2>1. Reading' = Reading + 0 /\ awake' \in Nat /\ awake' >= awake + 0
    BY <1>0, <1>1, <1>2, <1>3, <1>4, NumberTypes DEF Reading
  <2> QED
    BY <1>1, <1>2, <1>3, <1>4, <2>1, RequestKeeps
<1>6. ThreadInv'
  BY <1>1, <1>4 DEF ThreadInv, Threads
<1> QED
  BY <1>5, <1>6 DEF NumbersInv

LEMMA SetOriginKeeps ==
  ASSUME ClockInv, SetOrigin
  PROVE  OneCall' /\ NumbersInv'
<1>0. TypeOK /\ ThreadOK /\ OneCall /\ ThreadInv
  BY TypeSplit DEF ClockInv, NumbersInv
<1>1. thread["timer"] = Idle /\ thread["http"].at = "origin" /\ Idle.at = "idle"
  BY <1>0, Alone DEF SetOrigin
<1>2. wall' = wall /\ wire' = wire /\ awake' = awake
  BY DEF SetOrigin
<1>3. /\ engine'.seq = engine.seq /\ engine'.lastT = engine.lastT
      /\ engine'.epochT = engine.epochT /\ engine'.epochSeq = engine.epochSeq
      /\ engine'.period = engine.period /\ engine'.paused = engine.paused
      /\ engine'.carried = engine.carried /\ engine'.paused \in BOOLEAN
      /\ engine'.mode = engine.mode /\ engine'.driven = engine.driven
      /\ engine'.origin = SourceNow /\ SourceNow \in Nat /\ engine.carried \in Int
  BY <1>0, NowType DEF SetOrigin, TypeOK
<1>4. thread'["timer"] = Idle /\ thread'["http"].at = "pausing"
  <2>1. "timer" \in Threads /\ "http" \in Threads /\ "pausing" \in Places
    BY DEF Threads, Places
  <2> QED
    BY <1>0, <1>1, <2>1, ErrandGoesOn DEF SetOrigin, Goto
<1>5. OneCall' /\ EngineInv' /\ WireInv' /\ AwakeInv'
  <2>1. SourceNow' = SourceNow
    BY <1>2, <1>3 DEF SourceNow
  <2>2. Reading = engine.carried /\ Reading' = engine.carried
    BY <1>1, <1>3, <1>4, <2>1 DEF Reading, Now
  <2>3. Reading' = Reading + 0 /\ awake' \in Nat /\ awake' >= awake + 0
    BY <1>0, <1>2, <1>3, <2>2, NumberTypes
  <2> QED
    BY <1>1, <1>2, <1>3, <1>4, <2>3, RequestKeeps
<1>6. ThreadInv'
  BY <1>1, <1>4 DEF ThreadInv, Threads
<1> QED
  BY <1>5, <1>6 DEF NumbersInv

LEMMA SetPausedKeeps ==
  ASSUME ClockInv, SetPaused
  PROVE  OneCall' /\ NumbersInv'
<1>0. TypeOK /\ ThreadOK /\ OneCall /\ ThreadInv
  BY TypeSplit DEF ClockInv, NumbersInv
<1>1. thread["timer"] = Idle /\ thread["http"].at = "pausing" /\ Idle.at = "idle"
  BY <1>0, Alone DEF SetPaused
<1>2. wall' = wall /\ wire' = wire /\ awake' = awake
  BY DEF SetPaused
<1>3. /\ engine'.seq = engine.seq /\ engine'.lastT = engine.lastT
      /\ engine'.epochT = engine.epochT /\ engine'.epochSeq = engine.epochSeq
      /\ engine'.period = engine.period /\ engine'.carried = engine.carried
      /\ engine'.mode = engine.mode /\ engine'.driven = engine.driven
      /\ engine'.origin = engine.origin /\ engine'.paused \in BOOLEAN
  <2>1. \/ engine' = engine \/ \E b \in BOOLEAN : engine' = [engine EXCEPT !.paused = b]
    BY DEF SetPaused, NothingToPause, PauseEngine, ResumeEngine
  <2> QED
    BY <1>0, <2>1 DEF TypeOK
<1>4. /\ thread'["timer"] = Idle /\ thread'["http"].at \in {"idle", "rebase"}
      /\ thread'["http"].at = "idle" /\ ~engine'.paused => ~engine.paused
  <2>1. "timer" \in Threads /\ "http" \in Threads /\ "rebase" \in Places /\ Idle \in Errand
    BY IdleType DEF Threads, Places
  <2>2. CASE NothingToPause \/ PauseEngine
    <3>1. thread' = [thread EXCEPT !["http"] = Idle]
      BY <2>2 DEF NothingToPause, PauseEngine, Done
    <3>2. thread'["timer"] = Idle /\ thread'["http"].at = "idle"
      BY <1>0, <1>1, <2>1, <3>1, ErrandStep
    <3>3. ~engine'.paused => ~engine.paused
      BY <1>0, <2>2 DEF NothingToPause, PauseEngine, TypeOK
    <3> QED
      BY <3>2, <3>3
  <2>3. CASE ResumeEngine
    BY <1>0, <1>1, <2>1, <2>3, ErrandGoesOn DEF ResumeEngine, Goto
  <2> QED
    BY <2>2, <2>3 DEF SetPaused
<1>5. OneCall' /\ EngineInv' /\ WireInv' /\ AwakeInv'
  <2>1. Now' = Now
    BY <1>2, <1>3 DEF Now, SourceNow
  <2>2. Reading' = Reading + 0 /\ awake' \in Nat /\ awake' >= awake + 0
    BY <1>0, <1>1, <1>2, <1>4, <2>1, NumberTypes DEF Reading
  <2> QED
    BY <1>1, <1>2, <1>3, <1>4, <2>2, RequestKeeps
<1>6. ThreadInv'
  BY <1>1, <1>4 DEF ThreadInv, Threads
<1> QED
  BY <1>5, <1>6 DEF NumbersInv

\* The boundaries are counted from now on, at the index of the last pulse.
LEMMA RebaseKeeps ==
  ASSUME ClockInv, Rebase
  PROVE  OneCall' /\ NumbersInv'
<1>0. /\ TypeOK /\ ThreadOK /\ OneCall /\ ThreadInv
      /\ EngineInv /\ WireInv
  BY TypeSplit DEF ClockInv, NumbersInv
<1>1. thread["timer"] = Idle /\ thread["http"].at = "rebase" /\ Idle.at = "idle"
  BY <1>0, Alone DEF Rebase
<1>2. wall' = wall /\ wire' = wire /\ awake' = 0
  BY DEF Rebase
<1>3. /\ engine'.seq = engine.seq /\ engine'.lastT = engine.lastT
      /\ engine'.epochT = Now /\ engine'.epochSeq = engine.seq
      /\ engine'.period = engine.period /\ engine'.carried = engine.carried
      /\ engine'.mode = engine.mode /\ engine'.driven = engine.driven
      /\ engine'.origin = engine.origin
  BY <1>0 DEF Rebase, TypeOK
<1>4. thread'["timer"] = Idle /\ thread'["http"] = Idle
  <2>1. "timer" \in Threads /\ "http" \in Threads
    BY DEF Threads
  <2> QED
    BY <1>0, <1>1, <2>1, IdleType, ErrandStep DEF Rebase, Done
<1>5. /\ Now' = Now /\ Reading = Now /\ Reading' = Now
      /\ Taken' = engine.seq
  BY <1>1, <1>2, <1>3, <1>4 DEF Now, SourceNow, Reading, Taken
<1>6. TimeOf(engine.seq)' = Now
  BY <1>0, <1>3, NumberTypes DEF TimeOf
<1>7. OneCall' /\ EngineInv'
  <2>1. engine'.lastT <= TimeOf(engine.seq)' /\ engine'.lastT <= Reading'
    BY <1>0, <1>3, <1>5, <1>6 DEF EngineInv
  <2> QED
    BY <1>0, <1>3, <1>4, <2>1, NumberTypes DEF EngineInv, OneCall
<1>8. ThreadInv' /\ WireInv'
  BY <1>0, <1>1, <1>2, <1>3, <1>4 DEF ThreadInv, WireInv, UnderWay, Threads
<1>9. AwakeInv'
  <2>1. TimeOf(Taken)' = TimeOf(engine.seq)'
    BY <1>3, <1>5 DEF TimeOf
  <2> QED
    BY <1>0, <1>2, <1>3, <1>5, <1>6, <2>1, NumberTypes DEF AwakeInv
<1> QED
  BY <1>7, <1>8, <1>9 DEF NumbersInv

\* A new rate waits for its rebase: until then the boundaries are not looked at.
LEMMA PostRateKeeps ==
  ASSUME ClockInv, PostRate, overlaps' = {}
  PROVE  OneCall' /\ NumbersInv'
<1>0. /\ TypeOK /\ ThreadOK /\ OneCall /\ ThreadInv
      /\ EngineInv /\ WireInv
  BY TypeSplit DEF ClockInv, NumbersInv
<1>1. thread["timer"] = Idle /\ thread["http"] = Idle /\ Idle.at = "idle"
  BY <1>0, Alone, NumberTypes DEF PostRate
<1>2. wall' = wall /\ wire' = wire
  BY DEF PostRate
<1>3. /\ engine'.seq = engine.seq /\ engine'.lastT = engine.lastT
      /\ engine'.epochSeq = engine.epochSeq /\ engine'.carried = engine.carried
      /\ engine'.mode = engine.mode /\ engine'.driven = engine.driven
      /\ engine'.origin = engine.origin
  BY <1>0 DEF PostRate, TypeOK
<1>4. thread'["timer"] = Idle /\ thread'["http"].at = "rebase"
  <2>1. "timer" \in Threads /\ "http" \in Threads /\ "rebase" \in Places
    BY DEF Threads, Places
  <2>2. thread' = [thread EXCEPT !["http"].at = "rebase"]
    BY DEF PostRate, Goto
  <2> QED
    BY <1>0, <1>1, <2>1, <2>2, ErrandGoesOn
<1>5. Now' = Now /\ Reading = Now /\ Reading' = Now
  BY <1>1, <1>2, <1>3, <1>4 DEF Now, SourceNow, Reading
<1>6. OneCall' /\ EngineInv' /\ AwakeInv'
  BY <1>0, <1>3, <1>4, <1>5 DEF EngineInv, OneCall, AwakeInv
<1>7. ThreadInv' /\ WireInv'
  BY <1>0, <1>1, <1>2, <1>3, <1>4 DEF ThreadInv, WireInv, UnderWay, Threads
<1> QED
  BY <1>6, <1>7 DEF NumbersInv

\* What the invariant is about does not change.
LEMMA IdleKeeps ==
  ASSUME ClockInv, UNCHANGED <<wall, engine, thread, wire, awake>>
  PROVE  OneCall' /\ NumbersInv'
BY DEF ClockInv, NumbersInv, OneCall, EngineInv, ThreadInv, WireInv, AwakeInv,
       Reading, Now, SourceNow, Taken, TimeOf, UnderWay

LEMMA ClockStep == ClockInv /\ [Next]_vars /\ overlaps' = {} => ClockInv'
<1> SUFFICES ASSUME ClockInv, [Next]_vars, overlaps' = {} PROVE ClockInv'
  OBVIOUS
<1>1. TypeOK' /\ PlacesInv'
  BY TypeStep DEF ClockInv
<1>2. OneCall' /\ NumbersInv'
  <2>1. CASE Advance
    <3>1. OneCall'
      BY <2>1 DEF ClockInv, OneCall, Advance
    <3> QED
      BY <1>1, <2>1, <3>1, AdvanceKeeps
  <2>2. CASE Poll
    BY <2>2, PollKeeps
  <2>3. CASE \E x \in Threads : Emit(x) \/ Dispatch(x)
    BY <2>3, EmitKeeps, DispatchKeeps
  <2>4. CASE PostStep \/ StepAdvances \/ StepTakesNext
    BY <2>4, PostStepKeeps, StepAdvancesKeeps, StepTakesNextKeeps
  <2>5. CASE PostMode \/ SwapSource \/ SetOrigin \/ SetPaused
    BY <2>5, PostModeKeeps, SwapSourceKeeps, SetOriginKeeps, SetPausedKeeps
  <2>6. CASE Rebase \/ PostRate
    BY <2>6, RebaseKeeps, PostRateKeeps
  <2>7. CASE HearMonitor \/ UNCHANGED vars
    <3>1. UNCHANGED <<wall, engine, thread, wire, awake>>
      BY <2>7 DEF HearMonitor, vars
    <3> QED
      BY <3>1, IdleKeeps
  <2> QED
    BY <2>1, <2>2, <2>3, <2>4, <2>5, <2>6, <2>7 DEF Next
<1> QED
  BY <1>1, <1>2 DEF ClockInv, NumbersInv
-----------------------------------------------------------------------------
(* The invariant about seqs, of any two calls but a single step and a poll. *)

\* A pulse in a thread's hands is newer than the engine's last before it is
\* emitted and is that one after, and the wire has it or the one before it.
SeqInv ==
  /\ ~(Pulsing("timer") /\ Pulsing("http"))
  /\ \A x \in Threads :
       /\ thread[x].at = "emit" => thread[x].seq > engine.seq
       /\ thread[x].at = "send" => thread[x].seq = engine.seq
  /\ IF UnderWay THEN wire.seq < engine.seq ELSE wire.seq = engine.seq

PulseInv == "pulses" \notin overlaps => SeqInv

LEMMA SeqInit == Init => SeqInv
BY DEF Init, SeqInv, Pulsing, UnderWay, Threads, Idle

\* A call that makes no pulse overlaps whatever it likes.
LEMMA SilentStep ==
  ASSUME TypeOK,
         StepAdvances \/ PostMode \/ SwapSource \/ SetOrigin \/ SetPaused \/ Rebase \/ PostRate
  PROVE  /\ engine'.seq = engine.seq /\ wire' = wire
         /\ thread'["timer"] = thread["timer"]
         /\ thread["http"].at \notin {"emit", "send"}
         /\ thread'["http"].at \notin {"emit", "send"}
         /\ Pulsing("http")' => Pulsing("http")
<1>0. ThreadOK /\ "timer" \in Threads /\ "http" \in Threads /\ Idle.at = "idle"
  BY TypeSplit DEF Threads, Idle
<1>1. engine'.seq = engine.seq /\ wire' = wire
  BY DEF TypeOK, StepAdvances, PostMode, SwapSource, SetOrigin, SetPaused, NothingToPause,
         PauseEngine, ResumeEngine, Rebase, PostRate
<1>2. thread["http"].at \notin {"emit", "send"}
  BY <1>0 DEF StepAdvances, PostMode, SwapSource, SetOrigin, SetPaused, Rebase, PostRate, Begins
<1>3. CASE StepAdvances
  <2>1. Goto("http", "take") /\ "take" \in Places
    BY <1>3 DEF StepAdvances, Places
  <2>2. thread'["timer"] = thread["timer"] /\ thread'["http"].at = "take"
    BY <1>0, <2>1, ErrandGoesOn DEF Goto
  <2> QED
    BY <1>1, <1>2, <1>3, <2>2 DEF Pulsing, StepAdvances
<1>4. CASE PostMode \/ SwapSource \/ SetOrigin \/ SetPaused \/ Rebase \/ PostRate
  <2> DEFINE Aside == {"source", "origin", "pausing", "rebase"}
  <2>1. Done("http") \/ \E place \in Aside : Goto("http", place)
    BY <1>4 DEF PostMode, SwapSource, SetOrigin, SetPaused, NothingToPause, PauseEngine,
                ResumeEngine, Rebase, PostRate
  <2>2. thread'["timer"] = thread["timer"] /\ thread'["http"].at \in Aside \cup {"idle"}
    <3>1. CASE Done("http")
      BY <1>0, <3>1, IdleType, ErrandStep DEF Done
    <3>2. ASSUME NEW place \in Aside, Goto("http", place)
          PROVE  thread'["timer"] = thread["timer"] /\ thread'["http"].at = place
      <4>1. place \in Places /\ thread' = [thread EXCEPT !["http"].at = place]
        BY <3>2 DEF Goto, Places
      <4> HIDE DEF Aside
      <4> QED
        BY <1>0, <4>1, ErrandGoesOn
    <3> QED
      BY <2>1, <3>1, <3>2
  <2> QED
    BY <1>1, <1>2, <2>2 DEF Pulsing
<1> QED
  BY <1>3, <1>4

LEMMA SilentKeeps ==
  ASSUME TypeOK, SeqInv,
         StepAdvances \/ PostMode \/ SwapSource \/ SetOrigin \/ SetPaused \/ Rebase \/ PostRate
  PROVE  SeqInv'
BY SilentStep DEF SeqInv, UnderWay, Pulsing, Threads

\* A single step that finds no poll under way.
LEMMA PostStepKeepsSeq ==
  ASSUME TypeOK, SeqInv, PostStep, "pulses" \notin overlaps'
  PROVE  SeqInv'
<1>0. ThreadOK /\ "timer" \in Threads
  BY TypeSplit DEF Threads
<1> DEFINE t == TimeOf(engine.seq + 1) - Now
<1>1. t \in Int /\ thread' = [thread EXCEPT !["http"].at = "advance", !["http"].t = t]
  BY NumberTypes DEF PostStep
<1>2. thread'["http"].at = "advance" /\ thread'["timer"] = thread["timer"]
  <2> HIDE DEF t
  <2> QED
    BY <1>0, <1>1, HttpAdvances
<1>3. /\ thread["http"] = Idle /\ ~Pulsing("timer") /\ Idle.at = "idle"
      /\ engine' = engine /\ wire' = wire
  BY <1>0 DEF PostStep, Begins, Idle, Threads
<1> HIDE DEF t
<1> QED
  BY <1>2, <1>3 DEF SeqInv, UnderWay, Pulsing, Threads

LEMMA StepTakesNextKeepsSeq ==
  ASSUME TypeOK, SeqInv, StepTakesNext
  PROVE  SeqInv'
<1>0. ThreadOK /\ engine.seq \in Nat
  BY TypeSplit DEF TypeOK
<1> DEFINE n == engine.seq + 1
<1>1. n \in Nat /\ n > engine.seq
  BY <1>0
<1>2. /\ thread["http"].at = "take" /\ engine' = engine /\ wire' = wire
      /\ thread' = [thread EXCEPT !["http"].at = "emit", !["http"].seq = n]
  BY DEF StepTakesNext
<1> HIDE DEF n
<1>3. /\ thread'["http"].at = "emit" /\ thread'["http"].seq = n
      /\ thread'["timer"] = thread["timer"]
  BY <1>0, <1>1, <1>2, HttpTakes
<1> QED
  BY <1>1, <1>2, <1>3 DEF SeqInv, UnderWay, Pulsing, Threads

\* A poll that finds no single step under way.
LEMMA PollKeepsSeq ==
  ASSUME TypeOK, SeqInv, Poll, "pulses" \notin overlaps'
  PROVE  SeqInv'
<1>0. ThreadOK /\ "http" \in Threads
  BY TypeSplit DEF Threads
<1> DEFINE n == BoundaryAt(Now)
<1>1. /\ n \in Nat /\ n > engine.seq
      /\ thread' = [thread EXCEPT !["timer"].at = "emit", !["timer"].seq = n]
  BY BoundaryType DEF Poll, BoundaryPassed, PollTarget
<1> HIDE DEF n
<1>2. /\ thread'["timer"].at = "emit" /\ thread'["timer"].seq = n
      /\ thread'["http"] = thread["http"]
  BY <1>0, <1>1, TimerTakes
<1>3. /\ thread["timer"] = Idle /\ ~Pulsing("http") /\ Idle.at = "idle"
      /\ engine' = engine /\ wire' = wire
  BY <1>0 DEF Poll, Begins, Idle, Threads
<1> QED
  BY <1>1, <1>2, <1>3 DEF SeqInv, UnderWay, Pulsing, Threads

LEMMA EmitKeepsSeq ==
  ASSUME TypeOK, SeqInv, NEW x \in Threads, Emit(x)
  PROVE  SeqInv'
<1>0. ThreadOK /\ "send" \in Places
  BY TypeSplit DEF Places
<1> DEFINE n == thread[x].seq
           t == TimeOf(n)
<1>1. /\ n \in Nat /\ t \in Int /\ n > engine.seq /\ thread[x].at = "emit"
      /\ thread' = [thread EXCEPT ![x].at = "send", ![x].t = t]
      /\ engine' = [engine EXCEPT !.seq = n, !.lastT = t] /\ wire' = wire
  BY NumberTypes DEF Emit, SeqInv
<1>2. engine'.seq = n /\ engine.seq \in Nat /\ wire.seq \in Nat
  BY <1>1 DEF TypeOK
<1>3. /\ thread'[x].at = "send" /\ thread'[x].seq = n
      /\ \A y \in Threads : y # x => thread'[y] = thread[y]
  <2> HIDE DEF t
  <2> QED
    BY <1>0, <1>1, ErrandCarriesTime
<1> HIDE DEF n, t
<1>4. \A y \in Threads : y # x => ~Pulsing(y)
  BY <1>1 DEF SeqInv, Pulsing, Threads
<1>5. ~UnderWay /\ UnderWay'
  BY <1>1, <1>3, <1>4 DEF UnderWay, Pulsing
<1>6. wire.seq = engine.seq
  BY <1>5 DEF SeqInv
<1>7. ~(Pulsing("timer") /\ Pulsing("http"))'
  BY <1>3, <1>4 DEF Pulsing, Threads
<1> QED
  BY <1>1, <1>2, <1>3, <1>4, <1>5, <1>6, <1>7 DEF SeqInv, Pulsing

LEMMA DispatchKeepsSeq ==
  ASSUME TypeOK, SeqInv, NEW x \in Threads, Dispatch(x)
  PROVE  SeqInv' /\ wire'.seq > wire.seq
<1>0. ThreadOK /\ Idle.at = "idle" /\ engine.seq \in Nat /\ wire.seq \in Nat
  BY TypeSplit DEF Idle, TypeOK
<1>1. /\ thread[x].at = "send" /\ thread[x].seq = engine.seq
      /\ engine' = engine /\ wire'.seq = engine.seq
  BY DEF Dispatch, SeqInv
<1>2. thread'[x] = Idle /\ \A y \in Threads : y # x => thread'[y] = thread[y]
  BY <1>0, IdleType, ErrandStep DEF Dispatch, Done
<1>3. \A y \in Threads : y # x => ~Pulsing(y)
  BY <1>1 DEF SeqInv, Pulsing, Threads
<1>4. UnderWay /\ ~UnderWay'
  BY <1>0, <1>1, <1>2, <1>3 DEF UnderWay, Pulsing
<1>5. ~(Pulsing("timer") /\ Pulsing("http"))'
  BY <1>0, <1>2, <1>3 DEF Pulsing, Threads
<1> QED
  BY <1>0, <1>1, <1>2, <1>3, <1>4, <1>5 DEF SeqInv, Pulsing

LEMMA SeqStep == TypeOK /\ PulseInv /\ [Next]_vars => PulseInv'
<1> SUFFICES ASSUME TypeOK, PulseInv, [Next]_vars, "pulses" \notin overlaps'
             PROVE  SeqInv'
  BY DEF PulseInv
<1>1. SeqInv
  BY TypeSplit, OverlapsGrow DEF PulseInv
<1>2. CASE Poll \/ PostStep
  BY <1>1, <1>2, PollKeepsSeq, PostStepKeepsSeq
<1>3. CASE \E x \in Threads : Emit(x) \/ Dispatch(x)
  BY <1>1, <1>3, EmitKeepsSeq, DispatchKeepsSeq
<1>4. CASE StepTakesNext
  BY <1>1, <1>4, StepTakesNextKeepsSeq
<1>5. CASE StepAdvances \/ PostMode \/ SwapSource \/ SetOrigin \/ SetPaused \/ Rebase \/ PostRate
  BY <1>1, <1>5, SilentKeeps
<1>6. CASE Advance \/ HearMonitor \/ UNCHANGED vars
  <2>1. UNCHANGED <<engine, thread, wire>>
    BY <1>6 DEF Advance, HearMonitor, vars
  <2> QED
    BY <1>1, <2>1 DEF SeqInv, UnderWay, Pulsing
<1> QED
  BY <1>2, <1>3, <1>4, <1>5, <1>6 DEF Next
-----------------------------------------------------------------------------
\* The inductive invariant.
Invariant == TypeOK /\ PlacesInv /\ PulseInv /\ (overlaps = {} => ClockInv)

LEMMA InvariantStep == Invariant /\ [Next]_vars => Invariant'
<1> SUFFICES ASSUME Invariant, [Next]_vars PROVE Invariant'
  OBVIOUS
<1>1. TypeOK' /\ PlacesInv' /\ PulseInv'
  BY TypeStep, SeqStep DEF Invariant
<1>2. overlaps' = {} => ClockInv'
  <2>1. overlaps \subseteq overlaps'
    BY TypeSplit, OverlapsGrow DEF Invariant
  <2> QED
    BY <2>1, ClockStep DEF Invariant
<1> QED
  BY <1>1, <1>2 DEF Invariant

THEOREM InvariantHolds == Spec => []Invariant
<1>1. Init => Invariant
  BY ClockInit, SeqInit, TypeInit DEF Invariant, PulseInv
<1> QED
  BY <1>1, InvariantStep, PTL DEF Spec

\* As long as no two calls have overlapped, no pulse is dated later than the clock
\* reads once no call is under way, whatever source was swapped in and however
\* the rate was changed.
THEOREM NeverAhead == Spec => []NeverAheadOfClock
<1>1. Invariant => NeverAheadOfClock
  <2> SUFFICES ASSUME ClockInv, Quiet PROVE engine.lastT <= Now
    BY DEF Invariant, NeverAheadOfClock
  <2>1. thread["http"].at = "idle"
    BY DEF Quiet, Threads, Idle
  <2> QED
    BY <2>1 DEF ClockInv, EngineInv, Reading
<1> QED
  BY <1>1, InvariantHolds, PTL

\* Only a dispatch writes the wire, and the engine's last pulse is then newer
\* than what the wire had.
LEMMA WireAdvances ==
  Invariant /\ [Next]_vars
    => [wire' # wire => /\ "pulses" \notin overlaps => wire'.seq > wire.seq
                        /\ overlaps = {} => wire'.t > wire.t]_vars
<1> SUFFICES ASSUME Invariant, Next, wire' # wire
             PROVE  /\ "pulses" \notin overlaps => wire'.seq > wire.seq
                    /\ overlaps = {} => wire'.t > wire.t
  BY DEF vars
<1>1. \E x \in Threads : Dispatch(x)
  BY DEF Next, Advance, Poll, Emit, PostStep, StepAdvances, StepTakesNext, PostMode,
         SwapSource, SetOrigin, SetPaused, Rebase, PostRate, HearMonitor
<1> QED
  BY <1>1, DispatchKeeps, DispatchKeepsSeq DEF Invariant, PulseInv

\* Whatever overlaps: across rate changes, mode changes and pauses every pulse
\* carries a larger seq than the one before it, until a single step has met a
\* poll; and a later t, until any two calls have overlapped.
THEOREM PulsesAdvanceHolds == Spec => PulsesAdvance
BY InvariantHolds, WireAdvances, PTL DEF Spec, PulsesAdvance

Skips == /\ (thread'["timer"].seq - engine.seq - 1) * engine.period <= awake
         /\ Now < TimeOf(thread'["timer"].seq + 1)

LEMMA PollSkips == ClockInv /\ Poll /\ overlaps' = {} => Skips
<1> SUFFICES ASSUME ClockInv, Poll, overlaps' = {} PROVE Skips
  OBVIOUS
<1>0. TypeOK /\ ThreadOK /\ OneCall /\ EngineInv /\ AwakeInv
  BY TypeSplit DEF ClockInv
<1>1. /\ thread["timer"] = Idle /\ thread["http"] = Idle /\ ~engine.paused
      /\ BoundaryAt(Now) > engine.seq /\ Idle.at = "idle"
  BY <1>0, Alone, NumberTypes DEF Poll, BoundaryPassed
<1>2. thread'["timer"].seq = BoundaryAt(Now)
  <2> DEFINE taken == BoundaryAt(Now)
  <2>1. taken \in Nat /\ thread' = [thread EXCEPT !["timer"].at = "emit", !["timer"].seq = taken]
    BY <1>0, BoundaryType DEF Poll, PollTarget
  <2> HIDE DEF taken
  <2>2. thread'["timer"].seq = taken
    BY <1>0, <2>1, TimerTakes
  <2> QED
    BY <2>2 DEF taken
<1> DEFINE n    == BoundaryAt(Now)
           next == n + 1
           gap  == (n - engine.seq) * engine.period
<1>3. n \in Nat /\ next \in Int /\ TimeOf(n) <= Now /\ Now < TimeOf(n) + engine.period
  BY <1>0, <1>1, BoundaryType, BoundaryIsLatest
<1>4. TimeOf(n) - TimeOf(engine.seq) = gap /\ engine.seq \in Int
  <2> DEFINE last == engine.seq
  <2>1. last \in Int /\ n \in Int /\ gap = (n - last) * engine.period
    BY <1>0, <1>3, NumberTypes
  <2> HIDE DEF n, last, gap
  <2>2. TimeOf(n) - TimeOf(last) = (n - last) * engine.period
    BY <1>0, <2>1, BoundariesAdvance
  <2> QED
    BY <2>1, <2>2 DEF last
<1>5. TimeOf(next) = TimeOf(n) + engine.period
  <2>1. next = n + 1 /\ n \in Int /\ next \in Int
    BY <1>3
  <2> HIDE DEF n, next
  <2> QED
    BY <1>0, <2>1, BoundariesAdvance
<1>6. (n - engine.seq - 1) * engine.period = gap - engine.period /\ gap \in Int
  <2>1. engine.seq \in Int /\ engine.period \in Int /\ n \in Int
    BY <1>0, <1>3, NumberTypes
  <2>2. \A k \in Int, p \in Int : (k - 1) * p = k * p - p /\ k * p \in Int
    BY SMT
  <2> HIDE DEF n
  <2>3. n - engine.seq \in Int
    BY <2>1
  <2> QED
    BY <2>1, <2>2, <2>3
<1>7. Now - TimeOf(engine.seq) - engine.period <= awake
  BY <1>0, <1>1 DEF AwakeInv, Reading, Taken
<1>8. /\ (n - engine.seq - 1) * engine.period <= awake
      /\ Now < TimeOf(next)
  <2>1. TimeOf(n) \in Int /\ TimeOf(engine.seq) \in Int
    BY <1>0, <1>3, NumberTypes
  <2> HIDE DEF n, next, gap
  <2> QED
    BY <1>0, <1>3, <1>4, <1>5, <1>6, <1>7, <2>1, NumberTypes
<1> QED
  BY <1>2, <1>8 DEF Skips

\* Only a poll puts a pulse into the timer's hands.
LEMMA OnlyPollStarts ==
  ASSUME TypeOK, Next, PollStarts
  PROVE  Poll
<1>0. ThreadOK /\ "timer" \in Threads /\ "http" \in Threads
  BY TypeSplit DEF Threads
<1>1. thread["timer"].at = "idle" /\ thread'["timer"].at = "emit"
  BY DEF PollStarts
<1>2. ASSUME NEW x \in Threads, Emit(x) \/ Dispatch(x) PROVE FALSE
  <2>1. x = "http"
    BY <1>1, <1>2 DEF Emit, Dispatch, Threads
  <2>2. thread'["timer"] = thread["timer"]
    BY <1>0, <1>2, <2>1 DEF Emit, Dispatch, Done, ThreadOK
  <2> QED
    BY <1>1, <2>2
<1>3. Poll \/ thread'["timer"] = thread["timer"]
  BY <1>0, <1>2 DEF Next, ThreadOK, Advance, PostStep, StepAdvances, StepTakesNext, PostMode,
     SwapSource, SetOrigin, SetPaused, NothingToPause, PauseEngine, ResumeEngine, Rebase,
     PostRate, HearMonitor, Goto, Done
<1> QED
  BY <1>1, <1>3

\* As long as no two calls have overlapped, what a poll will report as skipped
\* fits into the time the engine was running, and the next boundary is to come.
THEOREM SkipsOnlyLostTimeHolds == Spec => SkipsOnlyLostTime
<1>1. Invariant /\ [Next]_vars => [PollStarts /\ overlaps' = {} => Skips]_vars
  <2> SUFFICES ASSUME Invariant, Next, PollStarts, overlaps' = {} PROVE Skips
    OBVIOUS
  <2>1. Poll /\ ClockInv
    BY OnlyPollStarts, TypeSplit, OverlapsGrow DEF Invariant
  <2> QED
    BY <2>1, PollSkips
<1> QED
  BY <1>1, InvariantHolds, PTL DEF Spec, SkipsOnlyLostTime, Skips
=============================================================================
