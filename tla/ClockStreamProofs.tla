------------------------- MODULE ClockStreamProofs -------------------------
(***************************************************************************)
(* The clock's stream, for any clients, request threads and rates: every   *)
(* pulse reaches every client that listens, once, and the poll timer       *)
(* follows the rate.                                                       *)
(***************************************************************************)
EXTENDS ClockStream, TLAPS

Places == {"idle", "poll", "sending", "set", "read", "record"}
Engine == [mode : {"wall", "manual"}, delta : Deltas, pulses : 0..MaxPulses, rates : 0..MaxRates]
Thread == [at : Places, pulse : Nat, delta : Nat, rest : Seq(Clients)]
Conn   == [at : {"away", "streaming", "leaving", "left"}, alive : BOOLEAN,
           lock : Threads \cup {None}, peer : {"reading", "gone", "vanished"},
           since : 0..MaxPulses, sent : Seq(1..MaxPulses), unread : 0..Capacity]

\* A thread holds a rate it was asked for; the timer takes no request.
ThreadsOK ==
  /\ thread \in [Threads -> Thread]
  /\ \A x \in Threads : thread[x].at \in {"set", "record"} => thread[x].delta \in Deltas
  /\ thread["timer"].at \in {"idle", "poll", "sending"}

Typed ==
  /\ engine \in Engine /\ tuner \in [period : Nat, wanted : Nat]
  /\ sinks \in Seq(Clients) /\ IsInjective(sinks)
  /\ client \in [Clients -> Conn] /\ ThreadsOK
  /\ raced \in [pulse : BOOLEAN, rate : BOOLEAN]
-----------------------------------------------------------------------------
(* Sequences.                                                              *)

\* list.remove on a list without duplicates: the element is gone, the rest is
\* as it was.
LEMMA RemoveOnce ==
  ASSUME NEW S, NEW s \in Seq(S), IsInjective(s), NEW e
  PROVE  /\ RemoveFirst(s, e) \in Seq(S) /\ IsInjective(RemoveFirst(s, e))
         /\ Range(RemoveFirst(s, e)) = Range(s) \ {e}
<1>1. CASE ~\E i \in 1..Len(s) : s[i] = e
  BY <1>1 DEF RemoveFirst, Range
<1>2. CASE \E i \in 1..Len(s) : s[i] = e
  <2>1. PICK i \in 1..Len(s) : s[i] = e
    BY <1>2
  <2>2. {j \in 1..Len(s) : s[j] = e} = {i}
    BY <2>1 DEF IsInjective
  <2>3. Min({i}) = i
    BY <2>1 DEF Min
  <2>4. SelectInSeq(s, LAMBDA v : v = e) = i
    BY <2>2, <2>3 DEF SelectInSeq
  <2>5. RemoveFirst(s, e) = RemoveAt(s, i)
    BY <1>2, <2>4 DEF RemoveFirst
  <2> DEFINE r == RemoveAt(s, i)
             n == Len(s)
  <2>6. /\ r \in Seq(S) /\ Len(r) = n - 1 /\ n \in Nat
        /\ \A j \in 1..n - 1 : r[j] = IF j < i THEN s[j] ELSE s[j + 1]
    <3> DEFINE before == SubSeq(s, 1, i - 1)
               after  == SubSeq(s, i + 1, n)
    <3>1. n \in Nat /\ i \in 1..n
      BY <2>1
    <3>2. /\ before \in Seq(S) /\ Len(before) = i - 1
          /\ \A j \in 1..i - 1 : before[j] = s[j]
      BY <3>1
    <3>3. /\ after \in Seq(S) /\ Len(after) = n - i
          /\ \A j \in 1..n - i : after[j] = s[i + j]
      BY <3>1
    <3> HIDE DEF before, after, n
    <3>4. Len(before \o after) = n - 1 /\ before \o after \in Seq(S)
      <4>1. before \o after \in Seq(S) /\ Len(before \o after) = Len(before) + Len(after)
        <5>1. before \in Seq(S) /\ after \in Seq(S)
          BY <3>2, <3>3
        <5> QED
          BY <5>1
      <4>2. (i - 1) + (n - i) = n - 1
        BY <3>1
      <4> QED
        BY <4>1, <4>2, <3>2, <3>3
    <3>5. \A j \in 1..n - 1 : (before \o after)[j] = IF j < i THEN s[j] ELSE s[j + 1]
      <4> TAKE j \in 1..n - 1
      <4>1. CASE j < i
        BY <4>1, <3>1, <3>2, <3>3
      <4>2. CASE ~(j < i)
        <5> DEFINE k == j - (i - 1)
        <5>1. k \in 1..n - i /\ i + k = j + 1
          BY <4>2, <3>1
        <5>2. (before \o after)[j] = after[k]
          BY <4>2, <3>1, <3>2, <3>3
        <5> HIDE DEF k
        <5> QED
          BY <5>1, <5>2, <4>2, <3>3
      <4> QED
        BY <4>1, <4>2
    <3>6. r = before \o after
      BY DEF before, after, n, RemoveAt
    <3> QED
      BY <3>1, <3>4, <3>5, <3>6
  <2> HIDE DEF r
  <2>7. IsInjective(r)
    <3> SUFFICES ASSUME NEW j \in 1..n - 1, NEW k \in 1..n - 1, r[j] = r[k] PROVE j = k
      BY <2>6 DEF IsInjective
    <3> DEFINE from == IF j < i THEN j ELSE j + 1
               to   == IF k < i THEN k ELSE k + 1
    <3>1. from \in 1..n /\ to \in 1..n /\ (from = to => j = k)
      BY <2>1, <2>6
    <3>2. r[j] = s[from] /\ r[k] = s[to]
      BY <2>6
    <3>3. \A a, b \in 1..n : s[a] = s[b] => a = b
      BY DEF IsInjective
    <3> HIDE DEF from, to, n
    <3> QED
      BY <3>1, <3>2, <3>3
  <2>8. Range(r) \subseteq Range(s) \ {e}
    BY <2>1, <2>6 DEF IsInjective, Range
  <2>9. ASSUME NEW x \in Range(s) \ {e} PROVE x \in Range(r)
    <3>1. PICK j \in 1..n : s[j] = x /\ j # i
      BY <2>1, <2>9 DEF Range
    <3>2. CASE j < i
      BY <3>1, <3>2, <2>6, <2>1 DEF Range
    <3>3. CASE j > i
      <4>1. j - 1 \in 1..n - 1 /\ ~(j - 1 < i) /\ (j - 1) + 1 = j
        BY <3>1, <3>3, <2>1, <2>6
      <4>2. r[j - 1] = x
        BY <4>1, <3>1, <2>6
      <4> QED
        BY <4>1, <4>2, <2>6 DEF Range
    <3> QED
      BY <3>1, <3>2, <3>3, <2>1, <2>6
  <2> QED
    BY <2>5, <2>6, <2>7, <2>8, <2>9 DEF r
<1> QED
  BY <1>1, <1>2

LEMMA RangeOfAppend ==
  ASSUME NEW S, NEW s \in Seq(S), NEW e \in S
  PROVE  Range(Append(s, e)) = Range(s) \cup {e}
<1>1. Len(Append(s, e)) = Len(s) + 1 /\ Len(s) \in Nat
      /\ \A i \in 1..Len(s) : Append(s, e)[i] = s[i]
  OBVIOUS
<1>2. Append(s, e)[Len(s) + 1] = e
  OBVIOUS
<1>3. Append(s, e) \in Seq(S)
  OBVIOUS
<1> QED
  BY <1>1, <1>2, <1>3 DEF Range

LEMMA RangeOfTail ==
  ASSUME NEW S, NEW s \in Seq(S), s # <<>>
  PROVE  /\ Head(s) \in S /\ Tail(s) \in Seq(S)
         /\ Range(s) = {Head(s)} \cup Range(Tail(s))
<1>1. /\ Tail(s) \in Seq(S) /\ Len(Tail(s)) = Len(s) - 1 /\ Len(s) \in Nat \ {0}
      /\ \A i \in 1..Len(s) - 1 : Tail(s)[i] = s[i + 1]
      /\ Head(s) = s[1] /\ Head(s) \in S
  OBVIOUS
<1>2. Range(Tail(s)) \subseteq Range(s)
  BY <1>1 DEF Range
<1>3. ASSUME NEW x \in Range(s), x # Head(s) PROVE x \in Range(Tail(s))
  <2>1. PICK i \in 1..Len(s) : s[i] = x
    BY <1>3 DEF Range
  <2> DEFINE k == i - 1
  <2>2. k \in 1..Len(s) - 1 /\ k + 1 = i
    BY <2>1, <1>1, <1>3
  <2> HIDE DEF k
  <2>3. Tail(s)[k] = s[k + 1]
    BY <2>2, <1>1
  <2> QED
    <3>1. DOMAIN Tail(s) = 1..Len(s) - 1
      BY <1>1
    <3>2. k \in DOMAIN Tail(s) /\ Tail(s)[k] = x
      BY <3>1, <2>1, <2>2, <2>3
    <3> QED
      BY <3>2 DEF Range
<1> QED
  BY <1>1, <1>2, <1>3 DEF Range
-----------------------------------------------------------------------------
(* The types.                                                              *)

LEMMA PollPeriodIsNat == \A delta \in Deltas : PollPeriod(delta) \in Nat
<1> TAKE delta \in Deltas
<1>1. delta \in Nat /\ Divisor \in Nat \ {0} /\ Floor \in Nat /\ Ceiling \in Nat
  BY ClockStreamAssumption
<1>2. delta \div Divisor \in Nat
  BY <1>1, SMT
<1> QED
  BY <1>1, <1>2 DEF PollPeriod

\* A fifth of the tick or less: the divisor is at least five, the floor is that
\* small for every rate there is, the ceiling only shortens.
LEMMA PollPeriodIsAFifth == \A delta \in Deltas : 5 * PollPeriod(delta) <= delta
<1> TAKE delta \in Deltas
<1>1. /\ delta \in Nat /\ Divisor \in Nat /\ Divisor >= 5 /\ Floor \in Nat /\ Ceiling \in Nat
      /\ 5 * Floor <= delta
  BY ClockStreamAssumption
<1> DEFINE q == delta \div Divisor
<1>2. q \in Int /\ Divisor * q <= delta
  BY <1>1, SMT
<1>3. q >= 0
  BY <1>1, SMT
<1> HIDE DEF q
<1>4. 5 * q <= Divisor * q
  BY <1>1, <1>2, <1>3, SMT
<1>5. Divisor * q \in Int
  BY <1>1, <1>2
<1>6. 5 * q <= delta
  BY <1>1, <1>2, <1>4, <1>5
<1>7. PollPeriod(delta) \in {q, Floor, Ceiling} /\ (PollPeriod(delta) = Ceiling => 
         Ceiling \in {q, Floor} \/ Ceiling < q \/ Ceiling < Floor)
  BY <1>1, <1>2 DEF PollPeriod, q
<1> QED
  BY <1>1, <1>2, <1>6, <1>7

LEMMA TimerIsAThread == "timer" \in Threads /\ "timer" \notin Http /\ Http \subseteq Threads
BY ClockStreamAssumption DEF Threads

LEMMA IdleIsThread == Idle \in Thread /\ Idle.at = "idle" /\ Idle.rest = <<>>
<1>1. <<>> \in Seq(Clients)
  OBVIOUS
<1> QED
  BY <1>1 DEF Idle, Thread, Places

LEMMA TypeInit == Init => Typed
<1> SUFFICES ASSUME Init PROVE Typed
  OBVIOUS
<1>1. sinks \in Seq(Clients) /\ IsInjective(sinks)
  BY DEF Init, ServiceStarts, IsInjective
<1>2. ThreadsOK
  BY IdleIsThread, TimerIsAThread DEF Init, ThreadsOK, Idle
<1>3. client \in [Clients -> Conn]
  <2>1. <<>> \in Seq(1..MaxPulses) /\ 0 \in 0..MaxPulses /\ 0 \in 0..Capacity
    BY ClockStreamAssumption
  <2> QED
    BY <2>1 DEF Init, Conn
<1>4. engine \in Engine /\ tuner \in [period : Nat, wanted : Nat]
  <2>1. PICK mode \in {"wall", "manual"}, delta \in Deltas :
       /\ engine = [mode |-> mode, delta |-> delta, pulses |-> 0, rates |-> 0]
       /\ tuner = [period |-> PollPeriod(delta), wanted |-> PollPeriod(delta)]
    BY DEF Init
  <2>2. 0 \in 0..MaxPulses /\ 0 \in 0..MaxRates /\ PollPeriod(delta) \in Nat
    BY ClockStreamAssumption, PollPeriodIsNat
  <2> QED
    BY <2>1, <2>2 DEF Engine
<1> QED
  BY <1>1, <1>2, <1>3, <1>4 DEF Init, Typed

\* A thread goes to a place that fits what it then holds.
LEMMA ThreadGoes ==
  ASSUME ThreadsOK, NEW x \in Threads, NEW d \in Thread, thread' = [thread EXCEPT ![x] = d],
         d.at \in {"set", "record"} => d.delta \in Deltas,
         x = "timer" => d.at \in {"idle", "poll", "sending"}
  PROVE  /\ ThreadsOK' /\ thread'[x] = d
         /\ \A y \in Threads \ {x} : thread'[y] = thread[y]
BY TimerIsAThread DEF ThreadsOK

\* The sinks are copied.
LEMMA DispatchTyped ==
  ASSUME Typed, NEW x \in Threads, Dispatch(x)
  PROVE  /\ engine' \in Engine /\ ThreadsOK' /\ raced' \in [pulse : BOOLEAN, rate : BOOLEAN]
         /\ engine'.pulses = engine.pulses + 1 /\ engine'.delta = engine.delta
         /\ thread'[x].at = "sending" /\ thread'[x].rest = sinks
         /\ thread'[x].pulse = engine.pulses + 1
         /\ \A y \in Threads \ {x} : thread'[y] = thread[y]
         /\ raced'.rate = raced.rate
         /\ ~raced'.pulse => ~raced.pulse /\ \A y \in Threads : ~Sending(y)
<1> DEFINE n == engine.pulses + 1
           d == [Idle EXCEPT !.at = "sending", !.rest = sinks, !.pulse = n]
<1>0. /\ engine \in Engine /\ ThreadsOK /\ raced \in [pulse : BOOLEAN, rate : BOOLEAN]
      /\ sinks \in Seq(Clients) /\ engine.pulses \in Nat /\ MaxPulses \in Nat
  BY ClockStreamAssumption DEF Typed, Engine
<1>1. n \in 1..MaxPulses /\ n \in Nat
  BY <1>0 DEF Dispatch
<1>2. /\ engine' = [engine EXCEPT !.pulses = n] /\ thread' = [thread EXCEPT ![x] = d]
      /\ raced' = [raced EXCEPT !.pulse = @ \/ \E y \in Threads : Sending(y)]
  BY DEF Dispatch
<1>3. n = engine.pulses + 1
  OBVIOUS
<1> HIDE DEF n
<1>4. engine' \in Engine /\ engine'.pulses = n /\ engine'.delta = engine.delta
  BY <1>0, <1>1, <1>2 DEF Engine
<1>5. d \in Thread /\ d.at = "sending" /\ d.rest = sinks /\ d.pulse = n
  BY <1>0, <1>1 DEF Idle, Thread, Places
<1> HIDE DEF d
<1>6. ThreadsOK' /\ thread'[x] = d /\ \A y \in Threads \ {x} : thread'[y] = thread[y]
  BY <1>0, <1>2, <1>5, ThreadGoes
<1>7. /\ raced' \in [pulse : BOOLEAN, rate : BOOLEAN] /\ raced'.rate = raced.rate
      /\ ~raced'.pulse => ~raced.pulse /\ \A y \in Threads : ~Sending(y)
  <2> DEFINE now == \E y \in Threads : Sending(y)
             b == raced.pulse \/ now
  <2>1. b \in BOOLEAN /\ (b <=> raced.pulse \/ now)
    OBVIOUS
  <2>2. raced' = [raced EXCEPT !.pulse = b]
    BY <1>2
  <2>3. ~now => \A y \in Threads : ~Sending(y)
    OBVIOUS
  <2> HIDE DEF now, b
  <2> QED
    BY <1>0, <2>1, <2>2, <2>3
<1> QED
  BY <1>3, <1>4, <1>5, <1>6, <1>7

\* The steps that send nothing and take no client on or off: the clients are where
\* they were, and so are the threads that have somebody left to write to.
Steady ==
  /\ UNCHANGED sinks /\ engine'.pulses = engine.pulses /\ raced'.pulse = raced.pulse
  /\ \A c \in Clients :
       /\ client'[c].at = client[c].at /\ client'[c].alive = client[c].alive
       /\ client'[c].since = client[c].since /\ client'[c].sent = client[c].sent
  /\ \A x \in Threads : \/ thread'[x] = thread[x]
                        \/ ~Sending(x)' /\ (Sending(x) => thread[x].rest = <<>>)

LEMMA ThreadSteady ==
  ASSUME Typed, NEW x \in Threads, NEW d \in Thread, thread' = [thread EXCEPT ![x] = d],
         d.at \in {"set", "record"} => d.delta \in Deltas,
         x = "timer" => d.at \in {"idle", "poll", "sending"},
         d.at # "sending", thread[x].at = "sending" => thread[x].rest = <<>>,
         UNCHANGED <<client, sinks>>, engine' \in Engine, engine'.pulses = engine.pulses,
         tuner' \in [period : Nat, wanted : Nat],
         raced' \in [pulse : BOOLEAN, rate : BOOLEAN], raced'.pulse = raced.pulse
  PROVE  /\ Typed' /\ Steady /\ thread'[x] = d
         /\ \A y \in Threads \ {x} : thread'[y] = thread[y]
<1>1. ThreadsOK' /\ thread'[x] = d /\ \A y \in Threads \ {x} : thread'[y] = thread[y]
  BY ThreadGoes DEF Typed
<1> QED
  BY <1>1 DEF Typed, Steady, Sending

\* The timer, and the requests that do not step the clock.
LEMMA OnTimerSteady == ASSUME Typed, OnTimer PROVE Typed' /\ Steady
<1> DEFINE timer == "timer"
           d == [thread[timer] EXCEPT !.at = "poll"]
<1>1. timer \in Threads /\ timer = "timer"
  BY TimerIsAThread
<1>2. thread[timer].at = "idle" /\ thread' = [thread EXCEPT ![timer] = d]
  BY DEF OnTimer
<1> HIDE DEF timer
<1>3. d \in Thread /\ d.at = "poll"
  BY <1>1 DEF Typed, ThreadsOK, Thread, Places
<1>4. tuner' \in [period : Nat, wanted : Nat] /\ UNCHANGED <<engine, sinks, client, raced>>
  BY DEF OnTimer, Tuned, Typed
<1> HIDE DEF d
<1> QED
  BY <1>1, <1>2, <1>3, <1>4, ThreadSteady DEF Typed

LEMMA PollSteady ==
  ASSUME Typed, PollFindsNone, thread["timer"].at = "poll", UNCHANGED <<tuner, sinks, client>>
  PROVE  Typed' /\ Steady
<1> DEFINE timer == "timer"
           d == Idle
<1>1. timer \in Threads /\ timer = "timer"
  BY TimerIsAThread
<1>2. thread[timer].at = "poll" /\ thread' = [thread EXCEPT ![timer] = d]
      /\ UNCHANGED <<engine, raced>>
  BY DEF PollFindsNone
<1>3. d \in Thread /\ d.at = "idle"
  BY IdleIsThread
<1> HIDE DEF timer, d
<1> QED
  BY <1>1, <1>2, <1>3, ThreadSteady DEF Typed

LEMMA PostModeSteady == ASSUME Typed, NEW x \in Http, PostMode(x) PROVE Typed' /\ Steady
<1>1. PICK mode \in {"wall", "manual"} : engine' = [engine EXCEPT !.mode = mode]
  BY DEF PostMode
<1>2. engine' \in Engine /\ engine'.pulses = engine.pulses
  BY <1>1 DEF Typed, Engine
<1>3. UNCHANGED <<tuner, sinks, client, thread, raced>>
  BY DEF PostMode
<1> QED
  BY <1>2, <1>3 DEF Typed, ThreadsOK, Steady

LEMMA PostRateSteady ==
  ASSUME Typed, NEW x \in Http, PostRate(x)
  PROVE  /\ Typed' /\ Steady /\ ~Rating(x) /\ thread'[x].at = "set"
         /\ \A y \in Threads \ {x} : thread'[y] = thread[y]
         /\ tuner' = tuner /\ engine'.delta = engine.delta
         /\ ~raced'.rate => ~raced.rate /\ \A y \in Threads : ~Rating(y)
<1>0. x \in Threads /\ x # "timer"
  BY TimerIsAThread
<1>1. PICK delta \in Deltas \ {engine.delta} :
        thread' = [thread EXCEPT ![x].at = "set", ![x].delta = delta]
  BY DEF PostRate
<1> DEFINE d == [thread[x] EXCEPT !.at = "set", !.delta = delta]
           now == \E y \in Threads : Rating(y)
           b == raced.rate \/ now
           n == engine.rates + 1
<1>2. /\ thread' = [thread EXCEPT ![x] = d] /\ thread[x].at = "idle"
      /\ UNCHANGED <<tuner, sinks, client>>
      /\ raced' = [raced EXCEPT !.rate = b] /\ engine' = [engine EXCEPT !.rates = n]
  BY <1>1 DEF PostRate
<1>3. d \in Thread /\ d.at = "set" /\ d.delta \in Deltas
  <2>1. delta \in Nat
    BY ClockStreamAssumption
  <2> QED
    BY <1>0, <2>1 DEF Typed, ThreadsOK, Thread, Places
<1>4. b \in BOOLEAN /\ (b <=> raced.rate \/ now) /\ (~now => \A y \in Threads : ~Rating(y))
  OBVIOUS
<1>5. n \in 0..MaxRates
  <2>1. engine.rates \in 0..MaxRates /\ engine.rates < MaxRates /\ MaxRates \in Nat
    BY ClockStreamAssumption DEF PostRate, Typed, Engine
  <2> QED
    BY <2>1
<1> HIDE DEF d, b, n, now
<1>6. engine' \in Engine /\ engine'.pulses = engine.pulses /\ engine'.delta = engine.delta
  BY <1>2, <1>5 DEF Typed, Engine
<1>7. /\ raced' \in [pulse : BOOLEAN, rate : BOOLEAN] /\ raced'.pulse = raced.pulse
      /\ raced'.rate = b
  BY <1>2, <1>4 DEF Typed
<1>8. /\ Typed' /\ Steady /\ thread'[x] = d
      /\ \A y \in Threads \ {x} : thread'[y] = thread[y]
  BY <1>0, <1>2, <1>3, <1>6, <1>7, ThreadSteady DEF Typed
<1> QED
  BY <1>2, <1>3, <1>4, <1>6, <1>7, <1>8 DEF Rating

LEMMA SetRateSteady ==
  ASSUME Typed, NEW x \in Http, SetRate(x)
  PROVE  /\ Typed' /\ Steady /\ thread[x].at = "set" /\ thread'[x].at = "read"
         /\ \A y \in Threads \ {x} : thread'[y] = thread[y]
         /\ UNCHANGED <<tuner, raced>>
<1>0. x \in Threads /\ x # "timer" /\ thread[x].at = "set" /\ thread[x].delta \in Deltas
  BY TimerIsAThread DEF SetRate, Typed, ThreadsOK
<1> DEFINE d == [thread[x] EXCEPT !.at = "read"]
<1>1. /\ thread' = [thread EXCEPT ![x] = d] /\ UNCHANGED <<tuner, sinks, client, raced>>
      /\ engine' = [engine EXCEPT !.delta = thread[x].delta]
  BY DEF SetRate
<1>2. d \in Thread /\ d.at = "read"
  BY <1>0 DEF Typed, ThreadsOK, Thread, Places
<1>3. engine' \in Engine /\ engine'.pulses = engine.pulses
  BY <1>0, <1>1 DEF Typed, Engine
<1> HIDE DEF d
<1> QED
  BY <1>0, <1>1, <1>2, <1>3, ThreadSteady DEF Typed

LEMMA ReadRateSteady ==
  ASSUME Typed, NEW x \in Http, ReadRate(x)
  PROVE  /\ Typed' /\ Steady /\ thread[x].at = "read" /\ thread'[x].at = "record"
         /\ thread'[x].delta = engine.delta
         /\ \A y \in Threads \ {x} : thread'[y] = thread[y]
         /\ UNCHANGED <<engine, tuner, raced>>
<1>0. x \in Threads /\ x # "timer" /\ thread[x].at = "read" /\ engine.delta \in Deltas
  BY TimerIsAThread DEF ReadRate, Typed, Engine
<1> DEFINE d == [thread[x] EXCEPT !.at = "record", !.delta = engine.delta]
<1>1. /\ thread' = [thread EXCEPT ![x] = d]
      /\ UNCHANGED <<engine, tuner, sinks, client, raced>>
  BY DEF ReadRate
<1>2. d \in Thread /\ d.at = "record" /\ d.delta = engine.delta
  <2>1. engine.delta \in Nat
    BY <1>0, ClockStreamAssumption
  <2> QED
    BY <1>0, <2>1 DEF Typed, ThreadsOK, Thread, Places
<1> HIDE DEF d
<1> QED
  BY <1>0, <1>1, <1>2, ThreadSteady DEF Typed

LEMMA RequestSteady ==
  ASSUME Typed, NEW x \in Http, Request(x)
  PROVE  /\ Typed' /\ Steady /\ thread[x].at = "record" /\ thread'[x].at = "idle"
         /\ \A y \in Threads \ {x} : thread'[y] = thread[y]
         /\ UNCHANGED <<engine, raced>> /\ tuner'.wanted = PollPeriod(thread[x].delta)
<1>0. x \in Threads /\ thread[x].at = "record" /\ thread[x].delta \in Deltas
  BY TimerIsAThread DEF Request, Typed, ThreadsOK
<1> DEFINE d == Idle
           wanted == PollPeriod(thread[x].delta)
<1>1. /\ thread' = [thread EXCEPT ![x] = d] /\ UNCHANGED <<engine, sinks, client, raced>>
      /\ tuner' = [tuner EXCEPT !.wanted = wanted]
  BY DEF Request
<1>2. d \in Thread /\ d.at = "idle" /\ wanted \in Nat
  BY <1>0, IdleIsThread, PollPeriodIsNat
<1>3. wanted = PollPeriod(thread[x].delta)
  OBVIOUS
<1> HIDE DEF d, wanted
<1>4. tuner' \in [period : Nat, wanted : Nat] /\ tuner'.wanted = wanted
  BY <1>1, <1>2 DEF Typed
<1> QED
  BY <1>0, <1>1, <1>2, <1>3, <1>4, ThreadSteady DEF Typed

LEMMA SentSteady ==
  ASSUME Typed, NEW x \in Threads, Sent(x)
  PROVE  /\ Typed' /\ Steady /\ \A y \in Threads : thread'[y] = thread[y] \/ ~Rating(y)'
         /\ UNCHANGED <<engine, tuner, raced>> /\ ~Rating(x)
         /\ \A y \in Threads \ {x} : thread'[y] = thread[y]
<1> DEFINE d == Idle
<1>1. /\ thread' = [thread EXCEPT ![x] = d] /\ UNCHANGED <<engine, tuner, sinks, client, raced>>
      /\ thread[x].at = "sending" /\ thread[x].rest = <<>>
  BY DEF Sent, Sending
<1>2. d \in Thread /\ d.at = "idle"
  BY IdleIsThread
<1> HIDE DEF d
<1>3. /\ engine' \in Engine /\ engine'.pulses = engine.pulses
      /\ tuner' \in [period : Nat, wanted : Nat]
      /\ raced' \in [pulse : BOOLEAN, rate : BOOLEAN] /\ raced'.pulse = raced.pulse
  BY <1>1 DEF Typed
<1>4. /\ Typed' /\ Steady /\ thread'[x] = d
      /\ \A y \in Threads \ {x} : thread'[y] = thread[y]
  BY <1>1, <1>2, <1>3, ThreadSteady
<1>5. ~Rating(x) /\ ~Rating(x)'
  BY <1>1, <1>2, <1>4 DEF Rating
<1> QED
  BY <1>1, <1>4, <1>5

LEMMA DispatchSteps ==
  ASSUME Typed, NEW x \in Threads, Dispatch(x), UNCHANGED <<tuner, sinks, client>>
  PROVE  Typed'
BY DispatchTyped DEF Typed

\* The steps of a client.
LEMMA ClientGoes ==
  ASSUME Typed, NEW c \in Clients, NEW k \in Conn, client' = [client EXCEPT ![c] = k],
         UNCHANGED <<engine, tuner, raced>>, ThreadsOK',
         sinks' \in Seq(Clients), IsInjective(sinks')
  PROVE  Typed' /\ client'[c] = k /\ \A b \in Clients \ {c} : client'[b] = client[b]
BY DEF Typed

LEMMA ConnOf == ASSUME Typed, NEW c \in Clients PROVE client[c] \in Conn
BY DEF Typed

LEMMA ClientSteady ==
  ASSUME Typed, NEW c \in Clients, NEW k \in Conn, client' = [client EXCEPT ![c] = k],
         UNCHANGED <<engine, tuner, raced, thread, sinks>>,
         k.at = client[c].at, k.alive = client[c].alive, k.since = client[c].since,
         k.sent = client[c].sent
  PROVE  Typed' /\ Steady
<1>1. ThreadsOK' /\ sinks' \in Seq(Clients) /\ IsInjective(sinks')
  BY DEF Typed, ThreadsOK
<1>2. Typed' /\ client'[c] = k /\ \A b \in Clients \ {c} : client'[b] = client[b]
  BY <1>1, ClientGoes
<1> QED
  BY <1>2 DEF Steady

LEMMA EnterSteady ==
  ASSUME Typed, NEW x \in Threads, NEW c \in Clients, Enter(x, c), client[c].alive
  PROVE  Typed' /\ Steady
<1> DEFINE k == [client[c] EXCEPT !.lock = x]
<1>1. client' = [client EXCEPT ![c] = k] /\ UNCHANGED <<engine, tuner, raced, thread, sinks>>
  BY DEF Enter
<1>2. /\ k \in Conn /\ k.at = client[c].at /\ k.alive = client[c].alive
      /\ k.since = client[c].since /\ k.sent = client[c].sent
  BY ConnOf DEF Conn
<1> HIDE DEF k
<1> QED
  BY <1>1, <1>2, ClientSteady

LEMMA PeerSteady ==
  ASSUME Typed, NEW c \in Clients, PeerReads(c) \/ PeerLeaves(c) \/ KernelGivesUp(c)
  PROVE  Typed' /\ Steady
<1>0. client[c] \in Conn /\ Capacity \in Nat
  BY ConnOf, ClockStreamAssumption
<1>1. UNCHANGED <<engine, tuner, raced, thread, sinks>>
  BY DEF PeerReads, PeerLeaves, KernelGivesUp
<1>2. CASE PeerReads(c)
  <2> DEFINE n == client[c].unread - 1
             k == [client[c] EXCEPT !.unread = n]
  <2>1. n \in 0..Capacity
    BY <1>0, <1>2 DEF PeerReads, Conn
  <2>2. client' = [client EXCEPT ![c] = k]
    BY <1>2 DEF PeerReads
  <2> HIDE DEF n
  <2>3. /\ k \in Conn /\ k.at = client[c].at /\ k.alive = client[c].alive
        /\ k.since = client[c].since /\ k.sent = client[c].sent
    BY <1>0, <2>1 DEF Conn
  <2> HIDE DEF k
  <2> QED
    BY <1>1, <2>2, <2>3, ClientSteady
<1>3. CASE PeerLeaves(c) \/ KernelGivesUp(c)
  <2>1. PICK peer \in {"gone", "vanished"} : client' = [client EXCEPT ![c].peer = peer]
    BY <1>3 DEF PeerLeaves, KernelGivesUp
  <2> DEFINE k == [client[c] EXCEPT !.peer = peer]
  <2>2. /\ k \in Conn /\ k.at = client[c].at /\ k.alive = client[c].alive
        /\ k.since = client[c].since /\ k.sent = client[c].sent
    BY <1>0 DEF Conn
  <2>3. client' = [client EXCEPT ![c] = k]
    BY <2>1
  <2> HIDE DEF k
  <2> QED
    BY <1>1, <2>2, <2>3, ClientSteady
<1> QED
  BY <1>2, <1>3

\* A thread is past a client, and where it was otherwise.
LEMMA OnwardPasses ==
  ASSUME Typed, NEW x \in Threads, NEW c \in Clients, IsAt(x, c), Onward(x)
  PROVE  /\ ThreadsOK'
         /\ \A y \in Threads : /\ thread'[y].at = thread[y].at
                               /\ thread'[y].pulse = thread[y].pulse
                               /\ thread'[y].delta = thread[y].delta
         /\ \A y \in Threads \ {x} : thread'[y] = thread[y]
         /\ Range(thread[x].rest) = {c} \cup Range(thread'[x].rest)
         /\ IsInjective(thread[x].rest) =>
              IsInjective(thread'[x].rest) /\ c \notin Range(thread'[x].rest)
<1> DEFINE rest == thread[x].rest
           tail == Tail(rest)
           d == [thread[x] EXCEPT !.rest = tail]
<1>0. ThreadsOK /\ thread[x] \in Thread
  BY DEF Typed, ThreadsOK
<1>1. rest \in Seq(Clients) /\ rest # <<>> /\ Head(rest) = c
  BY <1>0 DEF IsAt, Thread
<1>2. thread' = [thread EXCEPT ![x] = d]
  BY DEF Onward
<1>3. tail \in Seq(Clients) /\ Range(rest) = {c} \cup Range(tail)
  BY <1>1, RangeOfTail
<1>4. IsInjective(rest) => IsInjective(tail) /\ c \notin Range(tail)
  <2> HAVE IsInjective(rest)
  <2> DEFINE n == Len(rest)
  <2>1. /\ n \in Nat \ {0} /\ DOMAIN rest = 1..n /\ DOMAIN tail = 1..n - 1 /\ rest[1] = c
        /\ \A i \in 1..n - 1 : tail[i] = rest[i + 1] /\ i + 1 \in 1..n /\ i + 1 # 1
    BY <1>1
  <2>2. \A a, b \in 1..n : rest[a] = rest[b] => a = b
    BY <2>1 DEF IsInjective
  <2> HIDE DEF rest, tail, n
  <2>3. \A i \in 1..n - 1 : tail[i] # c
    BY <2>1, <2>2
  <2>4. \A i, j \in 1..n - 1 : tail[i] = tail[j] => i = j
    BY <2>1, <2>2
  <2> QED
    BY <2>1, <2>3, <2>4 DEF IsInjective, Range
<1>5. /\ d \in Thread /\ d.at = thread[x].at /\ d.pulse = thread[x].pulse
      /\ d.delta = thread[x].delta /\ d.rest = tail
  BY <1>0, <1>3 DEF Thread
<1>6. /\ d.at \in {"set", "record"} => d.delta \in Deltas
      /\ x = "timer" => d.at \in {"idle", "poll", "sending"}
  BY <1>0, <1>5 DEF ThreadsOK
<1>7. rest = thread[x].rest
  OBVIOUS
<1> HIDE DEF d, tail, rest
<1>8. ThreadsOK' /\ thread'[x] = d /\ \A y \in Threads \ {x} : thread'[y] = thread[y]
  BY <1>0, <1>2, <1>5, <1>6, ThreadGoes
<1> QED
  BY <1>3, <1>4, <1>5, <1>7, <1>8

\* A dead client is passed, or dies as it is written to.
LEMMA PassTyped ==
  ASSUME Typed, NEW x \in Threads, NEW c \in Clients,
         (Enter(x, c) /\ ~client[c].alive) \/ WriteFails(x, c)
  PROVE  /\ Typed' /\ IsAt(x, c) /\ Onward(x) /\ UNCHANGED <<engine, tuner, sinks, raced>>
         /\ ~client'[c].alive /\ client'[c].at = client[c].at
         /\ \A b \in Clients \ {c} : client'[b] = client[b]
<1>0. client[c] \in Conn
  BY ConnOf
<1>1. IsAt(x, c) /\ Onward(x) /\ UNCHANGED <<engine, tuner, sinks, raced>>
  BY DEF Enter, WriteFails
<1>2. ThreadsOK'
  BY <1>1, OnwardPasses
<1>3. CASE Enter(x, c) /\ ~client[c].alive
  BY <1>1, <1>2, <1>3 DEF Enter, Typed
<1>4. CASE WriteFails(x, c)
  <2> DEFINE k == [Dead(c) EXCEPT !.lock = None]
  <2>1. client' = [client EXCEPT ![c] = k]
    BY <1>4 DEF WriteFails
  <2>2. k \in Conn /\ ~k.alive /\ k.at = client[c].at
    <3>1. <<>> \in Seq(1..MaxPulses) /\ 0 \in 0..MaxPulses
      BY ClockStreamAssumption
    <3> QED
      BY <1>0, <3>1 DEF Dead, Conn
  <2> HIDE DEF k
  <2>3. Typed' /\ client'[c] = k /\ \A b \in Clients \ {c} : client'[b] = client[b]
    BY <1>1, <1>2, <2>1, <2>2, ClientGoes DEF Typed
  <2> QED
    BY <1>1, <1>4, <2>2, <2>3
<1> QED
  BY <1>3, <1>4

LEMMA WriteTyped ==
  ASSUME Typed, NEW x \in Threads, NEW c \in Clients, Write(x, c),
         thread[x].pulse \in 1..engine.pulses
  PROVE  /\ Typed' /\ IsAt(x, c) /\ Onward(x) /\ UNCHANGED <<engine, tuner, sinks, raced>>
         /\ client'[c].at = client[c].at /\ client'[c].alive = client[c].alive
         /\ client'[c].since = client[c].since
         /\ client'[c].sent = Append(client[c].sent, thread[x].pulse)
         /\ \A b \in Clients \ {c} : client'[b] = client[b]
<1> DEFINE n == client[c].unread + 1
           sent == Append(client[c].sent, thread[x].pulse)
           k == [client[c] EXCEPT !.lock = None, !.unread = n, !.sent = sent]
<1>0. client[c] \in Conn /\ Capacity \in Nat /\ MaxPulses \in Nat /\ engine.pulses \in 0..MaxPulses
  BY ConnOf, ClockStreamAssumption DEF Typed, Engine
<1>1. IsAt(x, c) /\ Onward(x) /\ UNCHANGED <<engine, tuner, sinks, raced>>
  BY DEF Write
<1>2. ThreadsOK'
  BY <1>1, OnwardPasses
<1>3. client' = [client EXCEPT ![c] = k]
  BY DEF Write
<1>4. n \in 0..Capacity
  BY <1>0 DEF Write, Conn
<1>5. sent \in Seq(1..MaxPulses) /\ sent = Append(client[c].sent, thread[x].pulse)
  <2>1. thread[x].pulse \in 1..MaxPulses /\ client[c].sent \in Seq(1..MaxPulses)
    BY <1>0 DEF Conn
  <2> QED
    BY <2>1
<1> HIDE DEF n, sent
<1>6. /\ k \in Conn /\ k.at = client[c].at /\ k.alive = client[c].alive
      /\ k.since = client[c].since /\ k.sent = sent
  BY <1>0, <1>4, <1>5 DEF Conn
<1> HIDE DEF k
<1>7. Typed' /\ client'[c] = k /\ \A b \in Clients \ {c} : client'[b] = client[b]
  BY <1>1, <1>2, <1>3, <1>6, ClientGoes DEF Typed
<1> QED
  BY <1>1, <1>5, <1>6, <1>7

LEMMA SubscribeTyped ==
  ASSUME Typed, NEW c \in Clients, Subscribe(c), c \notin Range(sinks)
  PROVE  /\ Typed' /\ UNCHANGED <<engine, tuner, thread, raced>>
         /\ Range(sinks') = Range(sinks) \cup {c}
         /\ client[c].at = "away" /\ client'[c].at = "streaming"
         /\ client'[c].alive = client[c].alive /\ client'[c].sent = client[c].sent
         /\ client'[c].since = engine.pulses
         /\ \A b \in Clients \ {c} : client'[b] = client[b]
<1> DEFINE n == engine.pulses
           k == [client[c] EXCEPT !.at = "streaming", !.since = n]
<1>0. client[c] \in Conn /\ n \in 0..MaxPulses /\ n = engine.pulses
  BY ConnOf DEF Typed, Engine
<1>1. /\ client[c].at = "away" /\ sinks' = Append(sinks, c)
      /\ UNCHANGED <<engine, tuner, thread, raced>>
  BY DEF Subscribe
<1>2. client' = [client EXCEPT ![c] = k]
  BY DEF Subscribe
<1> HIDE DEF n
<1>3. /\ k \in Conn /\ k.at = "streaming" /\ k.alive = client[c].alive
      /\ k.sent = client[c].sent /\ k.since = n
  BY <1>0 DEF Conn
<1> HIDE DEF k
<1>4. sinks \in Seq(Clients) /\ IsInjective(sinks) /\ ThreadsOK
  BY DEF Typed
<1>5. sinks' \in Seq(Clients) /\ Range(sinks') = Range(sinks) \cup {c}
  BY <1>1, <1>4, RangeOfAppend
<1>6. IsInjective(sinks')
  <2>1. /\ Len(sinks') = Len(sinks) + 1 /\ Len(sinks) \in Nat
        /\ \A i \in 1..Len(sinks) : sinks'[i] = sinks[i] /\ sinks[i] # c
    BY <1>1, <1>4 DEF Range
  <2>2. sinks'[Len(sinks) + 1] = c
    BY <1>1, <1>4
  <2> QED
    BY <1>4, <1>5, <2>1, <2>2 DEF IsInjective
<1>7. ThreadsOK'
  BY <1>1, <1>4 DEF ThreadsOK
<1>8. Typed' /\ client'[c] = k /\ \A b \in Clients \ {c} : client'[b] = client[b]
  BY <1>1, <1>2, <1>3, <1>5, <1>6, <1>7, ClientGoes
<1> QED
  BY <1>0, <1>1, <1>3, <1>5, <1>8

LEMMA LeaveTyped ==
  ASSUME Typed, NEW c \in Clients, Leave(c)
  PROVE  /\ Typed' /\ UNCHANGED <<engine, tuner, thread, raced>>
         /\ \A b \in Clients \ {c} : client'[b] = client[b]
         /\ \/ /\ client[c].at = "streaming" /\ client'[c].at = "leaving" /\ UNCHANGED sinks
            \/ /\ client'[c].at = "left" /\ Range(sinks') = Range(sinks) \ {c}
<1>0. client[c] \in Conn /\ sinks \in Seq(Clients) /\ IsInjective(sinks) /\ ThreadsOK
  BY ConnOf DEF Typed
<1>1. UNCHANGED <<engine, tuner, thread, raced>>
  BY DEF Leave, RecvEnds, Unsubscribe
<1>2. ThreadsOK'
  BY <1>0, <1>1 DEF ThreadsOK
<1>3. CASE RecvEnds(c)
  <2> DEFINE k == [Dead(c) EXCEPT !.at = "leaving"]
  <2>1. client' = [client EXCEPT ![c] = k] /\ sinks' = sinks /\ client[c].at = "streaming"
    BY <1>3 DEF RecvEnds
  <2>2. k \in Conn /\ k.at = "leaving"
    <3>1. <<>> \in Seq(1..MaxPulses) /\ 0 \in 0..MaxPulses
      BY ClockStreamAssumption
    <3> QED
      BY <1>0, <3>1 DEF Dead, Conn
  <2> HIDE DEF k
  <2>3. Typed' /\ client'[c] = k /\ \A b \in Clients \ {c} : client'[b] = client[b]
    BY <1>0, <1>1, <1>2, <2>1, <2>2, ClientGoes
  <2> QED
    BY <1>1, <2>1, <2>2, <2>3
<1>4. CASE Unsubscribe(c)
  <2> DEFINE k == [client[c] EXCEPT !.at = "left"]
  <2>1. client' = [client EXCEPT ![c] = k] /\ sinks' = RemoveFirst(sinks, c)
    BY <1>4 DEF Unsubscribe
  <2>2. k \in Conn /\ k.at = "left"
    BY <1>0 DEF Conn
  <2>3. sinks' \in Seq(Clients) /\ IsInjective(sinks') /\ Range(sinks') = Range(sinks) \ {c}
    BY <1>0, <2>1, RemoveOnce
  <2> HIDE DEF k
  <2>4. Typed' /\ client'[c] = k /\ \A b \in Clients \ {c} : client'[b] = client[b]
    BY <1>1, <1>2, <2>1, <2>2, <2>3, ClientGoes
  <2> QED
    BY <1>1, <2>2, <2>3, <2>4
<1> QED
  BY <1>3, <1>4 DEF Leave
-----------------------------------------------------------------------------
(* The pulses.  A pulse is with one thread, and with the clients that were *)
(* on the list when it was emitted, once each; while no two dispatches     *)
(* overlap, it is the newest.  A client is on the list from its            *)
(* subscription until it leaves, and nothing was ever owed to one that has *)
(* not come.                                                               *)

SendInv ==
  /\ \A x \in Threads : Sending(x) => /\ thread[x].pulse \in 1..engine.pulses
                                      /\ IsInjective(thread[x].rest)
  /\ \A x, y \in Threads : Sending(x) /\ Sending(y) /\ x # y =>
                             thread[x].pulse # thread[y].pulse
  /\ ~raced.pulse => \A x \in Threads : Sending(x) => thread[x].pulse = engine.pulses

ListInv ==
  \A c \in Clients :
    /\ c \in Range(sinks) <=> client[c].at \in {"streaming", "leaving"}
    /\ client[c].at = "away" => /\ client[c].sent = <<>>
                                /\ \A x \in Threads : ~Owes(x, c)
    /\ client[c].since <= engine.pulses

Owed(c) == {thread[x].pulse : x \in {y \in Threads : Owes(y, c)}}

Hears(c) ==
  /\ IsInjective(client[c].sent)
  /\ Owed(c) \cap Range(client[c].sent) = {}
  /\ Owed(c) \cup Range(client[c].sent) = client[c].since + 1..engine.pulses
  /\ ~raced.pulse => \A i, j \in DOMAIN client[c].sent :
                       i < j => client[c].sent[i] < client[c].sent[j]

HearInv == \A c \in Clients : client[c].at = "streaming" /\ client[c].alive => Hears(c)

PulseInv == SendInv /\ ListInv /\ HearInv

LEMMA PulseInit == Init => PulseInv
<1> SUFFICES ASSUME Init PROVE PulseInv
  OBVIOUS
<1>1. /\ sinks = <<>> /\ \A x \in Threads : ~Sending(x)
      /\ engine.pulses = 0
      /\ \A c \in Clients : client[c].at = "away" /\ client[c].sent = <<>>
                            /\ client[c].since = 0
  BY IdleIsThread DEF Init, ServiceStarts, Sending
<1>2. Range(sinks) = {}
  BY <1>1 DEF Range
<1> QED
  BY <1>1, <1>2 DEF PulseInv, SendInv, ListInv, HearInv, Owes

\* A client to whom nothing happens, in a step that emits no pulse.
LEMMA HearsStill ==
  ASSUME NEW c \in Clients, Hears(c), client'[c].since = client[c].since,
         client'[c].sent = client[c].sent, engine'.pulses = engine.pulses,
         raced'.pulse = raced.pulse,
         \A x \in Threads : /\ Owes(x, c)' <=> Owes(x, c)
                            /\ Owes(x, c) => thread'[x].pulse = thread[x].pulse
  PROVE  Hears(c)'
<1>1. Owed(c)' = Owed(c)
  BY DEF Owed
<1> QED
  BY <1>1 DEF Hears

LEMMA SteadyKeeps == ASSUME Typed, PulseInv, Steady PROVE PulseInv'
<1>1. \A x \in Threads : /\ Sending(x)' => Sending(x) /\ thread'[x] = thread[x]
                         /\ Sending(x) /\ thread[x].rest # <<>> => thread'[x] = thread[x]
  BY DEF Steady, Sending
<1>2. \A x \in Threads, c \in Clients :
         /\ Owes(x, c)' <=> Owes(x, c)
         /\ Owes(x, c) => thread'[x].pulse = thread[x].pulse
  BY <1>1 DEF Owes, Sending, Range
<1>3. SendInv'
  BY <1>1 DEF Steady, PulseInv, SendInv
<1>4. ListInv'
  BY <1>2 DEF Steady, PulseInv, ListInv
<1>5. HearInv'
  BY <1>2, HearsStill DEF Steady, PulseInv, HearInv
<1> QED
  BY <1>3, <1>4, <1>5 DEF PulseInv

LEMMA DispatchKeeps ==
  ASSUME Typed, PulseInv, NEW x \in Threads, ~Sending(x), Dispatch(x),
         UNCHANGED <<tuner, sinks, client>>
  PROVE  PulseInv'
<1> DEFINE n == engine.pulses
           m == n + 1
<1>0. /\ SendInv /\ ListInv /\ HearInv /\ n \in Nat /\ n = engine.pulses
      /\ IsInjective(sinks)
  BY ClockStreamAssumption DEF PulseInv, Typed, Engine
<1>1. /\ engine'.pulses = m
      /\ thread'[x].at = "sending" /\ thread'[x].rest = sinks /\ thread'[x].pulse = m
      /\ \A y \in Threads \ {x} : thread'[y] = thread[y]
      /\ ~raced'.pulse => ~raced.pulse /\ \A y \in Threads : ~Sending(y)
  BY DispatchTyped
<1>2. m \in Nat /\ m = n + 1 /\ m \notin 1..n /\ 1..m = 1..n \cup {m} /\ 1..n \subseteq 1..m
      /\ m \in 1..m
  BY <1>0
<1> HIDE DEF n, m
<1>3. /\ Sending(x)' /\ \A y \in Threads \ {x} : Sending(y)' <=> Sending(y)
      /\ \A y \in Threads \ {x}, c \in Clients : Owes(y, c)' <=> Owes(y, c)
      /\ \A c \in Clients : Owes(x, c)' <=> c \in Range(sinks)
  BY <1>1 DEF Sending, Owes
<1>4. SendInv'
  <2>1. \A y \in Threads \ {x} : Sending(y) => thread[y].pulse \in 1..n
    BY <1>0 DEF SendInv
  <2> QED
    BY <1>0, <1>1, <1>2, <1>3, <2>1 DEF SendInv
<1>5. ListInv'
  <2>1. \A c \in Clients : client[c].since \in Nat
    BY ConnOf, ClockStreamAssumption DEF Conn
  <2>2. \A c \in Clients : client[c].since <= m
    BY <1>0, <1>2, <2>1 DEF ListInv
  <2>3. ASSUME NEW c \in Clients, client[c].at = "away", NEW y \in Threads PROVE ~Owes(y, c)'
    BY <1>0, <1>3, <2>3 DEF ListInv
  <2> QED
    BY <1>0, <1>1, <2>2, <2>3 DEF ListInv
<1>6. ASSUME NEW c \in Clients, client[c].at = "streaming", Hears(c) PROVE Hears(c)'
  <2>1. c \in Range(sinks) /\ ~Owes(x, c)
    BY <1>0, <1>6 DEF ListInv, Owes
  <2>2. Owed(c)' = Owed(c) \cup {m}
    <3>1. ASSUME NEW p \in Owed(c)' PROVE p \in Owed(c) \cup {m}
      BY <1>1, <1>3, <3>1 DEF Owed
    <3>2. ASSUME NEW p \in Owed(c) PROVE p \in Owed(c)'
      <4>1. PICK y \in Threads : Owes(y, c) /\ thread[y].pulse = p
        BY <3>2 DEF Owed
      <4>2. y # x
        BY <4>1, <2>1
      <4> QED
        BY <1>1, <1>3, <4>1, <4>2 DEF Owed
    <3>3. m \in Owed(c)'
      BY <1>1, <1>3, <2>1 DEF Owed
    <3> QED
      BY <3>1, <3>2, <3>3
  <2> DEFINE since == client[c].since
  <2>3. since \in Nat /\ client[c] \in Conn
    BY ConnOf, ClockStreamAssumption DEF Conn
  <2>4. Range(client[c].sent) \subseteq since + 1..n
    BY <1>0, <1>6 DEF Hears
  <2>5. since <= n => since + 1..m = (since + 1..n) \cup {m}
    BY <1>0, <1>2, <2>3
  <2>6. since <= n
    BY <1>0 DEF ListInv
  <2> HIDE DEF since
  <2> QED
    BY <1>0, <1>1, <1>2, <1>6, <2>2, <2>3, <2>4, <2>5, <2>6 DEF Hears, since
<1> QED
  BY <1>0, <1>4, <1>5, <1>6 DEF PulseInv, HearInv

\* Who a step past c leaves as they were.
LEMMA OnwardOwes ==
  ASSUME Typed, PulseInv, NEW x \in Threads, NEW c \in Clients, IsAt(x, c), Onward(x)
  PROVE  /\ \A y \in Threads, b \in Clients :
              /\ Sending(y)' <=> Sending(y)
              /\ thread'[y].pulse = thread[y].pulse
              /\ y # x \/ b # c => (Owes(y, b)' <=> Owes(y, b))
         /\ Owes(x, c) /\ ~Owes(x, c)'
         /\ UNCHANGED <<engine, raced>> => SendInv'
<1>0. SendInv /\ Sending(x) /\ IsInjective(thread[x].rest)
  BY DEF PulseInv, SendInv, IsAt
<1>1. /\ \A y \in Threads : thread'[y].at = thread[y].at /\ thread'[y].pulse = thread[y].pulse
      /\ \A y \in Threads \ {x} : thread'[y] = thread[y]
      /\ Range(thread[x].rest) = {c} \cup Range(thread'[x].rest)
      /\ IsInjective(thread'[x].rest) /\ c \notin Range(thread'[x].rest)
  BY <1>0, OnwardPasses
<1>2. \A y \in Threads : Sending(y)' <=> Sending(y)
  BY <1>1 DEF Sending
<1>3. \A y \in Threads, b \in Clients : y # x \/ b # c => (Owes(y, b)' <=> Owes(y, b))
  BY <1>1, <1>2 DEF Owes
<1>4. Owes(x, c) /\ ~Owes(x, c)'
  BY <1>0, <1>1, <1>2 DEF Owes
<1>5. UNCHANGED <<engine, raced>> => SendInv'
  BY <1>0, <1>1, <1>2 DEF SendInv
<1> QED
  BY <1>1, <1>2, <1>3, <1>4, <1>5

LEMMA PassKeeps ==
  ASSUME Typed, PulseInv, NEW x \in Threads, NEW c \in Clients,
         (Enter(x, c) /\ ~client[c].alive) \/ WriteFails(x, c)
  PROVE  PulseInv'
<1>0. SendInv /\ ListInv /\ HearInv
  BY DEF PulseInv
<1>1. /\ Typed' /\ IsAt(x, c) /\ Onward(x) /\ UNCHANGED <<engine, tuner, sinks, raced>>
      /\ ~client'[c].alive /\ client'[c].at = client[c].at
      /\ \A b \in Clients \ {c} : client'[b] = client[b]
  BY PassTyped
<1>2. /\ \A y \in Threads, b \in Clients :
              /\ thread'[y].pulse = thread[y].pulse
              /\ y # x \/ b # c => (Owes(y, b)' <=> Owes(y, b))
      /\ Owes(x, c) /\ ~Owes(x, c)' /\ SendInv'
  BY <1>1, OnwardOwes
<1>3. client[c].at # "away"
  BY <1>0, <1>2 DEF ListInv
<1>4. client'[c].since <= engine.pulses
  <2>1. client'[c].since = client[c].since \/ client'[c].since = 0
    <3>1. client[c] \in Conn /\ client \in [Clients -> Conn]
      BY ConnOf DEF Typed
    <3> QED
      BY <3>1 DEF Enter, WriteFails, Dead, Conn
  <2>2. engine.pulses \in Nat
    BY ClockStreamAssumption DEF Typed, Engine
  <2> QED
    BY <1>0, <2>1, <2>2 DEF ListInv
<1>5. ListInv'
  BY <1>0, <1>1, <1>2, <1>3, <1>4 DEF ListInv
<1>6. HearInv'
  BY <1>0, <1>1, <1>2, HearsStill DEF HearInv
<1> QED
  BY <1>2, <1>5, <1>6 DEF PulseInv

LEMMA WriteKeeps ==
  ASSUME Typed, PulseInv, NEW x \in Threads, NEW c \in Clients, Write(x, c)
  PROVE  PulseInv'
<1>0. SendInv /\ ListInv /\ HearInv /\ Sending(x) /\ thread[x].pulse \in 1..engine.pulses
      /\ engine.pulses \in Nat /\ client[c] \in Conn
  BY ConnOf, ClockStreamAssumption DEF PulseInv, SendInv, Write, IsAt, Typed, Engine
<1> DEFINE pulse == thread[x].pulse
           sent  == client[c].sent
<1>1. /\ IsAt(x, c) /\ Onward(x) /\ UNCHANGED <<engine, tuner, sinks, raced>>
      /\ client'[c].at = client[c].at /\ client'[c].alive = client[c].alive
      /\ client'[c].since = client[c].since
      /\ client'[c].sent = Append(sent, pulse)
      /\ \A b \in Clients \ {c} : client'[b] = client[b]
  BY <1>0, WriteTyped
<1>2. /\ \A y \in Threads, b \in Clients :
              /\ Sending(y)' <=> Sending(y)
              /\ thread'[y].pulse = thread[y].pulse
              /\ y # x \/ b # c => (Owes(y, b)' <=> Owes(y, b))
      /\ Owes(x, c) /\ ~Owes(x, c)' /\ SendInv'
  BY <1>1, OnwardOwes
<1>3. client[c].at # "away"
  BY <1>0, <1>2 DEF ListInv
<1>4. ListInv'
  BY <1>0, <1>1, <1>2, <1>3 DEF ListInv
<1>5. ASSUME Hears(c) PROVE Hears(c)'
  <2>1. Owed(c)' = Owed(c) \ {pulse} /\ pulse \in Owed(c)
    <3>1. pulse \in Owed(c)
      BY <1>2 DEF Owed
    <3>2. ASSUME NEW p \in Owed(c)' PROVE p \in Owed(c) \ {pulse}
      <4>1. PICK y \in Threads : Owes(y, c)' /\ thread'[y].pulse = p
        BY <3>2 DEF Owed
      <4>2. y # x /\ Owes(y, c) /\ thread[y].pulse = p /\ Sending(y)
        BY <1>2, <4>1 DEF Owes
      <4>3. p # pulse
        BY <1>0, <4>2 DEF SendInv
      <4> QED
        BY <4>2, <4>3 DEF Owed
    <3>3. ASSUME NEW p \in Owed(c) \ {pulse} PROVE p \in Owed(c)'
      <4>1. PICK y \in Threads : Owes(y, c) /\ thread[y].pulse = p
        BY <3>3 DEF Owed
      <4>2. y # x
        BY <3>3, <4>1
      <4> QED
        BY <1>2, <4>1, <4>2 DEF Owed
    <3> QED
      BY <3>1, <3>2, <3>3
  <2>2. /\ IsInjective(sent) /\ Owed(c) \cap Range(sent) = {}
        /\ Owed(c) \cup Range(sent) = client[c].since + 1..engine.pulses
        /\ ~raced.pulse => \A i, j \in DOMAIN sent : i < j => sent[i] < sent[j]
    BY <1>5 DEF Hears
  <2>3. sent \in Seq(1..MaxPulses) /\ pulse \in 1..MaxPulses
    <3>1. engine.pulses \in 0..MaxPulses /\ MaxPulses \in Nat
      BY ClockStreamAssumption DEF Typed, Engine
    <3>2. pulse \in 1..MaxPulses
      BY <1>0, <3>1
    <3> QED
      BY <1>0, <3>2 DEF Conn
  <2> DEFINE after == Append(sent, pulse)
             n == Len(sent)
             m == n + 1
  <2>4. /\ n \in Nat /\ DOMAIN sent = 1..n /\ DOMAIN after = 1..m /\ after[m] = pulse
        /\ \A i \in 1..n : after[i] = sent[i]
    BY <2>3
  <2>5. Range(after) = Range(sent) \cup {pulse} /\ pulse \notin Range(sent)
    <3> DEFINE S == 1..MaxPulses
    <3>1. sent \in Seq(S) /\ pulse \in S
      BY <2>3
    <3> HIDE DEF S, sent, pulse
    <3>2. Range(Append(sent, pulse)) = Range(sent) \cup {pulse}
      BY <3>1, RangeOfAppend
    <3> QED
      BY <2>1, <2>2, <3>2
  <2>6. \A i \in 1..m : i \in 1..n \/ i = m
    BY <2>4
  <2>7. \A i \in 1..n : i \in 1..m /\ i < m /\ ~(m < i) /\ sent[i] \in Range(sent)
    BY <2>4 DEF Range
  <2>8. /\ client'[c].sent = after /\ client'[c].since = client[c].since
        /\ engine' = engine /\ raced' = raced /\ ~(m < m)
    BY <1>1, <2>4
  <2> HIDE DEF after, n, m, sent, pulse
  <2>9. IsInjective(after)
    <3>1. \A i, j \in 1..n : sent[i] = sent[j] => i = j
      BY <2>2, <2>4 DEF IsInjective
    <3>2. ASSUME NEW i \in 1..m, NEW j \in 1..m, after[i] = after[j] PROVE i = j
      BY <2>4, <2>5, <2>6, <2>7, <3>1, <3>2
    <3> QED
      BY <2>4, <3>2 DEF IsInjective
  <2>10. ASSUME ~raced.pulse, NEW i \in 1..m, NEW j \in 1..m, i < j PROVE after[i] < after[j]
    <3>1. i \in 1..n
      BY <2>4, <2>6, <2>7, <2>8, <2>10
    <3>2. CASE j \in 1..n
      BY <2>2, <2>4, <2>10, <3>1, <3>2
    <3>3. CASE j = m
      <4>1. pulse = engine.pulses
        BY <1>0, <2>10 DEF SendInv, pulse
      <4>2. sent[i] \in client[c].since + 1..engine.pulses /\ sent[i] # pulse
        BY <2>2, <2>5, <2>7, <3>1
      <4>3. client[c].since \in Nat
        BY <1>0, ClockStreamAssumption DEF Conn
      <4>4. sent[i] < pulse
        BY <1>0, <4>1, <4>2, <4>3
      <4> QED
        BY <2>4, <3>1, <3>3, <4>4
    <3> QED
      BY <2>6, <3>2, <3>3
  <2>11. /\ Owed(c)' \cap Range(after) = {}
         /\ Owed(c)' \cup Range(after) = client[c].since + 1..engine.pulses
    BY <2>1, <2>2, <2>5
  <2>12. ~raced.pulse => \A i, j \in DOMAIN after : i < j => after[i] < after[j]
    BY <2>4, <2>10
  <2> QED
    BY <2>8, <2>9, <2>11, <2>12 DEF Hears
<1>6. HearInv'
  BY <1>0, <1>1, <1>2, <1>5, HearsStill DEF HearInv
<1> QED
  BY <1>2, <1>4, <1>6 DEF PulseInv

LEMMA SubscribeKeeps ==
  ASSUME Typed, PulseInv, NEW c \in Clients, Subscribe(c) PROVE PulseInv'
<1>0. SendInv /\ ListInv /\ HearInv /\ engine.pulses \in Nat
  BY ClockStreamAssumption DEF PulseInv, Typed, Engine
<1>1. client[c].at = "away" /\ c \notin Range(sinks)
  BY <1>0 DEF Subscribe, ListInv
<1>2. /\ UNCHANGED <<engine, tuner, thread, raced>>
      /\ Range(sinks') = Range(sinks) \cup {c} /\ client'[c].at = "streaming"
      /\ client'[c].sent = client[c].sent /\ client'[c].since = engine.pulses
      /\ \A b \in Clients \ {c} : client'[b] = client[b]
  BY <1>1, SubscribeTyped
<1>3. SendInv'
  BY <1>0, <1>2 DEF SendInv, Sending
<1>4. \A y \in Threads, b \in Clients : Owes(y, b)' <=> Owes(y, b)
  BY <1>2 DEF Owes, Sending
<1>5. ListInv'
  BY <1>0, <1>2, <1>4 DEF ListInv
<1>6. Hears(c)'
  <2>1. Owed(c)' = {} /\ client'[c].sent = <<>>
    BY <1>0, <1>1, <1>2, <1>4 DEF Owed, ListInv
  <2> DEFINE n == engine.pulses
  <2>2. n + 1..n = {}
    BY <1>0
  <2> QED
    BY <1>2, <2>1, <2>2 DEF Hears, IsInjective, Range
<1>7. HearInv'
  BY <1>0, <1>2, <1>4, <1>6, HearsStill DEF HearInv
<1> QED
  BY <1>3, <1>5, <1>7 DEF PulseInv

LEMMA LeaveKeeps ==
  ASSUME Typed, PulseInv, NEW c \in Clients, Leave(c) PROVE PulseInv'
<1>0. SendInv /\ ListInv /\ HearInv /\ engine.pulses \in Nat
  BY ClockStreamAssumption DEF PulseInv, Typed, Engine
<1>1. /\ UNCHANGED <<engine, tuner, thread, raced>>
      /\ \A b \in Clients \ {c} : client'[b] = client[b]
      /\ \/ /\ client[c].at = "streaming" /\ client'[c].at = "leaving" /\ UNCHANGED sinks
         \/ /\ client'[c].at = "left" /\ Range(sinks') = Range(sinks) \ {c}
  BY LeaveTyped
<1>2. SendInv'
  BY <1>0, <1>1 DEF SendInv, Sending
<1>3. \A y \in Threads, b \in Clients : Owes(y, b)' <=> Owes(y, b)
  BY <1>1 DEF Owes, Sending
<1>4. client'[c].since <= engine.pulses
  <2>1. client'[c].since = client[c].since \/ client'[c].since = 0
    <3>1. client[c] \in Conn /\ client \in [Clients -> Conn]
      BY ConnOf DEF Typed
    <3> QED
      BY <3>1 DEF Leave, RecvEnds, Unsubscribe, Dead, Conn
  <2> QED
    BY <1>0, <2>1 DEF ListInv
<1>5. ListInv'
  BY <1>0, <1>1, <1>3, <1>4 DEF ListInv
<1>6. HearInv'
  BY <1>0, <1>1, <1>3, HearsStill DEF HearInv
<1> QED
  BY <1>2, <1>5, <1>6 DEF PulseInv
-----------------------------------------------------------------------------
(* The rate.  While no two requests overlap, what the timer is to become is *)
(* what the engine's rate wants, but for the one request that has set the  *)
(* engine and not yet told the timer; what it is about to tell is the rate *)
(* the engine has.                                                         *)

RateInv ==
  ~raced.rate =>
    /\ \A x, y \in Threads : Rating(x) /\ Rating(y) => x = y
    /\ (\A x \in Threads : thread[x].at \notin {"read", "record"}) =>
         tuner.wanted = PollPeriod(engine.delta)
    /\ \A x \in Threads : thread[x].at = "record" => thread[x].delta = engine.delta

LEMMA RateInit == Init => RateInv
<1> SUFFICES ASSUME Init PROVE RateInv
  OBVIOUS
<1>1. \A x \in Threads : thread[x].at = "idle"
  BY IdleIsThread DEF Init
<1>2. tuner.wanted = PollPeriod(engine.delta)
  BY DEF Init
<1> QED
  BY <1>1, <1>2 DEF RateInv, Rating

\* The steps that have nothing to do with it.
LEMMA RateKept ==
  ASSUME RateInv, tuner'.wanted = tuner.wanted, engine'.delta = engine.delta,
         raced'.rate = raced.rate,
         \A x \in Threads :
           \/ thread'[x].at = thread[x].at /\ thread'[x].delta = thread[x].delta
           \/ ~Rating(x) /\ ~Rating(x)'
  PROVE  RateInv'
<1>1. \A x \in Threads : /\ Rating(x)' <=> Rating(x)
                         /\ Rating(x) => /\ thread'[x].at = thread[x].at
                                         /\ thread'[x].delta = thread[x].delta
  BY DEF Rating
<1> QED
  BY <1>1 DEF RateInv, Rating

\* What a thread that writes to its clients does is none of the rates' business.
LEMMA ClientsKeepRate ==
  ASSUME Typed, RateInv, UNCHANGED <<engine, tuner, raced>>,
         \A x \in Threads : thread'[x].at = thread[x].at /\ thread'[x].delta = thread[x].delta
  PROVE  RateInv'
BY RateKept

LEMMA DispatchKeepsRate ==
  ASSUME Typed, RateInv, NEW x \in Threads, Dispatch(x), ~Rating(x), UNCHANGED tuner
  PROVE  RateInv'
<1>1. /\ engine'.delta = engine.delta /\ raced'.rate = raced.rate
      /\ thread'[x].at = "sending" /\ \A y \in Threads \ {x} : thread'[y] = thread[y]
  BY DispatchTyped
<1> QED
  BY <1>1, RateKept DEF Rating

LEMMA OnTimerKeepsRate == ASSUME Typed, RateInv, OnTimer PROVE RateInv'
<1> DEFINE timer == "timer"
           d == [thread[timer] EXCEPT !.at = "poll"]
<1>1. timer \in Threads /\ thread[timer].at = "idle" /\ thread' = [thread EXCEPT ![timer] = d]
  BY TimerIsAThread DEF OnTimer
<1> HIDE DEF timer
<1>2. thread \in [Threads -> Thread] /\ d.at = "poll"
  BY <1>1 DEF Typed, ThreadsOK, Thread
<1>3. UNCHANGED <<engine, raced>> /\ tuner'.wanted = tuner.wanted
  BY DEF OnTimer, Tuned, Typed
<1> HIDE DEF d
<1>4. \A y \in Threads : thread'[y] = thread[y] \/ (~Rating(y) /\ ~Rating(y)')
  BY <1>1, <1>2 DEF Rating
<1> QED
  BY <1>3, <1>4, RateKept

LEMMA PollKeepsRate ==
  ASSUME Typed, RateInv, PollFindsNone, thread["timer"].at = "poll", UNCHANGED tuner
  PROVE  RateInv'
<1> DEFINE timer == "timer"
<1>1. /\ timer \in Threads /\ thread[timer].at = "poll"
      /\ thread' = [thread EXCEPT ![timer] = Idle] /\ UNCHANGED <<engine, raced>>
  BY TimerIsAThread DEF PollFindsNone
<1> HIDE DEF timer
<1>2. thread \in [Threads -> Thread]
  BY DEF Typed, ThreadsOK
<1>3. \A y \in Threads : thread'[y] = thread[y] \/ (~Rating(y) /\ ~Rating(y)')
  BY <1>1, <1>2, IdleIsThread DEF Rating
<1> QED
  BY <1>1, <1>3, RateKept

LEMMA PostRateKeepsRate == ASSUME Typed, RateInv, NEW x \in Http, PostRate(x) PROVE RateInv'
<1>1. /\ x \in Threads /\ thread'[x].at = "set" /\ tuner' = tuner
      /\ \A y \in Threads \ {x} : thread'[y] = thread[y]
      /\ engine'.delta = engine.delta
      /\ ~raced'.rate => ~raced.rate /\ \A y \in Threads : ~Rating(y)
  BY PostRateSteady, TimerIsAThread
<1> SUFFICES ASSUME ~raced'.rate
             PROVE  /\ \A a, b \in Threads : Rating(a)' /\ Rating(b)' => a = b
                    /\ tuner'.wanted = PollPeriod(engine'.delta)
                    /\ \A y \in Threads : thread'[y].at # "record"
  BY DEF RateInv
<1>2. \A y \in Threads \ {x} : ~Rating(y)' /\ thread'[y].at \notin {"read", "record"}
  BY <1>1 DEF Rating
<1>3. \A y \in Threads : thread[y].at \notin {"read", "record"}
  BY <1>1 DEF Rating
<1> QED
  BY <1>1, <1>2, <1>3 DEF RateInv

LEMMA SetRateKeepsRate == ASSUME Typed, RateInv, NEW x \in Http, SetRate(x) PROVE RateInv'
<1>1. /\ x \in Threads /\ thread[x].at = "set" /\ thread'[x].at = "read"
      /\ \A y \in Threads \ {x} : thread'[y] = thread[y]
      /\ UNCHANGED <<tuner, raced>>
  BY SetRateSteady, TimerIsAThread
<1> SUFFICES ASSUME ~raced.rate
             PROVE  /\ \A a, b \in Threads : Rating(a)' /\ Rating(b)' => a = b
                    /\ \A y \in Threads : thread'[y].at # "record"
  BY <1>1 DEF RateInv
<1>2. \A y \in Threads \ {x} : ~Rating(y)
  BY <1>1 DEF RateInv, Rating
<1> QED
  BY <1>1, <1>2 DEF Rating

LEMMA ReadRateKeepsRate == ASSUME Typed, RateInv, NEW x \in Http, ReadRate(x) PROVE RateInv'
<1>1. /\ x \in Threads /\ thread[x].at = "read" /\ thread'[x].at = "record"
      /\ thread'[x].delta = engine.delta
      /\ \A y \in Threads \ {x} : thread'[y] = thread[y]
      /\ UNCHANGED <<engine, tuner, raced>>
  BY ReadRateSteady, TimerIsAThread
<1> QED
  BY <1>1 DEF RateInv, Rating

\* The timer is told the rate that the engine has.
LEMMA RequestKeepsRate == ASSUME Typed, RateInv, NEW x \in Http, Request(x) PROVE RateInv'
<1>1. /\ x \in Threads /\ thread[x].at = "record" /\ thread'[x].at = "idle"
      /\ \A y \in Threads \ {x} : thread'[y] = thread[y]
      /\ UNCHANGED <<engine, raced>> /\ tuner'.wanted = PollPeriod(thread[x].delta)
  BY RequestSteady, TimerIsAThread
<1>2. ~raced.rate => tuner'.wanted = PollPeriod(engine.delta)
  BY <1>1 DEF RateInv
<1> QED
  BY <1>1, <1>2 DEF RateInv, Rating
-----------------------------------------------------------------------------
StreamInv == Typed /\ PulseInv /\ RateInv

LEMMA StreamInit == Init => StreamInv
BY TypeInit, PulseInit, RateInit DEF StreamInv

LEMMA PollKeepsAll == ASSUME StreamInv, Poll PROVE StreamInv'
<1> DEFINE timer == "timer"
<1>1. timer \in Threads /\ timer = "timer" /\ thread[timer].at = "poll"
      /\ UNCHANGED <<tuner, sinks, client>>
  BY TimerIsAThread DEF Poll
<1>2. ~Sending(timer) /\ ~Rating(timer)
  BY <1>1 DEF Sending, Rating
<1>3. CASE PollFindsTick
  <2>1. Dispatch(timer)
    BY <1>3 DEF PollFindsTick
  <2> HIDE DEF timer
  <2>2. Typed' /\ PulseInv'
    BY <1>1, <1>2, <2>1, DispatchSteps, DispatchKeeps DEF StreamInv
  <2>3. RateInv'
    BY <1>1, <1>2, <2>1, DispatchKeepsRate DEF StreamInv
  <2> QED
    BY <2>2, <2>3 DEF StreamInv
<1>4. CASE PollFindsNone
  <2>1. Typed' /\ Steady
    BY <1>1, <1>4, PollSteady DEF StreamInv
  <2>2. PulseInv'
    BY <2>1, SteadyKeeps DEF StreamInv
  <2>3. RateInv'
    BY <1>1, <1>4, PollKeepsRate DEF StreamInv
  <2> QED
    BY <2>1, <2>2, <2>3 DEF StreamInv
<1> QED
  BY <1>3, <1>4 DEF Poll

LEMMA HttpKeepsAll ==
  ASSUME StreamInv, NEW x \in Http,
         PostStep(x) \/ PostMode(x) \/ PostRate(x) \/ SetRate(x) \/ ReadRate(x) \/ Request(x)
  PROVE  StreamInv'
<1>0. Typed /\ PulseInv /\ RateInv /\ x \in Threads
  BY TimerIsAThread DEF StreamInv
<1>1. CASE PostStep(x)
  <2>1. /\ Dispatch(x) /\ UNCHANGED <<tuner, sinks, client>> /\ ~Sending(x) /\ ~Rating(x)
    BY <1>1 DEF PostStep, Sending, Rating
  <2>2. Typed' /\ PulseInv'
    BY <1>0, <2>1, DispatchSteps, DispatchKeeps
  <2>3. RateInv'
    BY <1>0, <2>1, DispatchKeepsRate
  <2> QED
    BY <2>2, <2>3 DEF StreamInv
<1>2. CASE PostMode(x)
  <2>1. Typed' /\ Steady
    BY <1>0, <1>2, PostModeSteady
  <2>2. engine'.delta = engine.delta /\ UNCHANGED <<tuner, thread, raced>>
    BY <1>0, <1>2 DEF PostMode, Typed, Engine
  <2>3. RateInv'
    BY <1>0, <2>2, RateKept
  <2> QED
    BY <1>0, <2>1, <2>3, SteadyKeeps DEF StreamInv
<1>3. CASE PostRate(x)
  BY <1>0, <1>3, PostRateSteady, SteadyKeeps, PostRateKeepsRate DEF StreamInv
<1>4. CASE SetRate(x)
  BY <1>0, <1>4, SetRateSteady, SteadyKeeps, SetRateKeepsRate DEF StreamInv
<1>5. CASE ReadRate(x)
  BY <1>0, <1>5, ReadRateSteady, SteadyKeeps, ReadRateKeepsRate DEF StreamInv
<1>6. CASE Request(x)
  BY <1>0, <1>6, RequestSteady, SteadyKeeps, RequestKeepsRate DEF StreamInv
<1> QED
  BY <1>1, <1>2, <1>3, <1>4, <1>5, <1>6

LEMMA SentKeepsAll == ASSUME StreamInv, NEW x \in Threads, Sent(x) PROVE StreamInv'
<1>0. Typed /\ PulseInv /\ RateInv
  BY DEF StreamInv
<1>1. /\ Typed' /\ Steady /\ UNCHANGED <<engine, tuner, raced>> /\ ~Rating(x)
      /\ \A y \in Threads : thread'[y] = thread[y] \/ ~Rating(y)'
      /\ \A y \in Threads \ {x} : thread'[y] = thread[y]
  BY <1>0, SentSteady
<1>2. RateInv'
  BY <1>0, <1>1, RateKept
<1> QED
  BY <1>0, <1>1, <1>2, SteadyKeeps DEF StreamInv

LEMMA SendKeepsAll ==
  ASSUME StreamInv, NEW x \in Threads, NEW c \in Clients, SendStep(x, c) PROVE StreamInv'
<1>0. Typed /\ PulseInv /\ RateInv
  BY DEF StreamInv
<1>1. CASE Enter(x, c) /\ client[c].alive
  <2>1. Typed' /\ Steady
    BY <1>0, <1>1, EnterSteady
  <2>2. UNCHANGED <<engine, tuner, raced, thread>>
    BY <1>1 DEF Enter
  <2>3. RateInv'
    BY <1>0, <2>2, RateKept
  <2> QED
    BY <1>0, <2>1, <2>3, SteadyKeeps DEF StreamInv
<1>2. CASE (Enter(x, c) /\ ~client[c].alive) \/ WriteFails(x, c)
  <2>1. Typed' /\ IsAt(x, c) /\ Onward(x) /\ UNCHANGED <<engine, tuner, sinks, raced>>
    BY <1>0, <1>2, PassTyped
  <2>2. RateInv'
    BY <1>0, <2>1, OnwardPasses, ClientsKeepRate
  <2> QED
    BY <1>0, <1>2, <2>1, <2>2, PassKeeps DEF StreamInv
<1>3. CASE Write(x, c)
  <2>1. thread[x].pulse \in 1..engine.pulses
    BY <1>0, <1>3 DEF Write, IsAt, PulseInv, SendInv
  <2>2. Typed' /\ IsAt(x, c) /\ Onward(x) /\ UNCHANGED <<engine, tuner, sinks, raced>>
    BY <1>0, <1>3, <2>1, WriteTyped
  <2>3. RateInv'
    BY <1>0, <2>2, OnwardPasses, ClientsKeepRate
  <2> QED
    BY <1>0, <1>3, <2>2, <2>3, WriteKeeps DEF StreamInv
<1> QED
  BY <1>1, <1>2, <1>3 DEF SendStep

LEMMA ClientKeepsAll ==
  ASSUME StreamInv, NEW c \in Clients,
         Subscribe(c) \/ Leave(c) \/ PeerReads(c) \/ PeerLeaves(c) \/ KernelGivesUp(c)
  PROVE  StreamInv'
<1>0. Typed /\ PulseInv /\ RateInv
  BY DEF StreamInv
<1>1. UNCHANGED <<engine, tuner, thread, raced>>
  BY Zenon DEF Subscribe, Leave, RecvEnds, Unsubscribe, PeerReads, PeerLeaves, KernelGivesUp
<1>2. RateInv'
  BY <1>0, <1>1, RateKept
<1>3. CASE Subscribe(c)
  <2>1. c \notin Range(sinks)
    BY <1>0, <1>3 DEF Subscribe, PulseInv, ListInv
  <2> QED
    BY <1>0, <1>2, <1>3, <2>1, SubscribeTyped, SubscribeKeeps DEF StreamInv
<1>4. CASE Leave(c)
  BY <1>0, <1>2, <1>4, LeaveTyped, LeaveKeeps DEF StreamInv
<1>5. CASE PeerReads(c) \/ PeerLeaves(c) \/ KernelGivesUp(c)
  BY <1>0, <1>2, <1>5, PeerSteady, SteadyKeeps DEF StreamInv
<1> QED
  BY <1>3, <1>4, <1>5

LEMMA StreamStep == StreamInv /\ [Next]_vars => StreamInv'
<1> SUFFICES ASSUME StreamInv, [Next]_vars PROVE StreamInv'
  OBVIOUS
<1>0. Typed /\ PulseInv /\ RateInv
  BY DEF StreamInv
<1>1. CASE OnTimer
  BY <1>0, <1>1, OnTimerSteady, SteadyKeeps, OnTimerKeepsRate DEF StreamInv
<1>2. CASE Poll
  BY <1>2, PollKeepsAll
<1>3. CASE \E x \in Http : \/ PostStep(x) \/ PostMode(x)
                           \/ PostRate(x) \/ SetRate(x) \/ ReadRate(x) \/ Request(x)
  BY <1>3, HttpKeepsAll
<1>4. CASE \E x \in Threads : Sent(x) \/ \E c \in Clients : SendStep(x, c)
  BY <1>4, SentKeepsAll, SendKeepsAll
<1>5. CASE \E c \in Clients : \/ Subscribe(c) \/ Leave(c)
                              \/ PeerReads(c) \/ PeerLeaves(c) \/ KernelGivesUp(c)
  BY <1>5, ClientKeepsAll
<1>6. CASE UNCHANGED vars
  <2>1. Typed'
    BY <1>0, <1>6 DEF Typed, ThreadsOK, vars
  <2>2. Steady
    BY <1>6 DEF Steady, vars
  <2>3. RateInv'
    BY <1>0, <1>6, RateKept DEF vars
  <2> QED
    BY <1>0, <2>1, <2>2, <2>3, SteadyKeeps DEF StreamInv
<1> QED
  BY <1>1, <1>2, <1>3, <1>4, <1>5, <1>6 DEF Next

\* The stream keeps its books: the types, who has which pulse, who is on the list,
\* and which of the engine's rates the timer has been told.
THEOREM InvariantHolds == Spec => []StreamInv
<1>1. Spec => Init /\ [][Next]_vars
  BY PTL DEF Spec
<1> QED
  BY <1>1, StreamInit, StreamStep, PTL

LEMMA InvGivesTypes == StreamInv => TypeOK
<1> SUFFICES ASSUME Typed PROVE TypeOK
  BY DEF StreamInv
<1>1. Range(sinks) \subseteq Clients
  BY DEF Typed, Range
<1>2. ASSUME NEW c \in Clients PROVE client[c] \in Conn /\ Range(client[c].sent) \subseteq 1..MaxPulses
  <2>1. client[c] \in Conn
    BY ConnOf
  <2> DEFINE sent == client[c].sent
             S == 1..MaxPulses
  <2>2. sent \in Seq(S)
    BY <2>1 DEF Conn
  <2> HIDE DEF sent, S
  <2>3. Range(sent) \subseteq S
    BY <2>2 DEF Range
  <2> QED
    BY <2>1, <2>3 DEF sent, S
<1>3. \A x \in Threads : thread[x].at \in Places
  BY DEF Typed, ThreadsOK, Thread
<1> QED
  BY <1>1, <1>2, <1>3 DEF Typed, TypeOK, Engine, Conn, Places

\* "One frame per pulse" (_stream of clock_node), for any number of clients and of
\* request threads: every pulse since a client subscribed was written to it once
\* or is with a thread that still has it to write, and in order while no two
\* dispatches have overlapped.
THEOREM EveryPulseHolds == Spec => []ClientsHearEveryPulse
<1>1. StreamInv => ClientsHearEveryPulse
  <2> SUFFICES ASSUME StreamInv, NEW c \in Clients,
                      client[c].at = "streaming" /\ client[c].alive
               PROVE  Hears(c)
    BY InvGivesTypes DEF ClientsHearEveryPulse, Hears, Owed
  <2> QED
    BY DEF StreamInv, PulseInv, HearInv
<1> QED
  BY <1>1, InvariantHolds, PTL

\* poll_period(d) <= d / 5 (PollTimerTuner), for every set of rates and however
\* often the rate has changed: unless two rate requests raced, a timer that fires
\* between requests runs at a fifth of the engine's tick or less.
THEOREM TimerHolds == Spec => TimerFollowsRate
<1>1. ASSUME StreamInv, OnTimer, \A x \in Http : ~Rating(x), ~raced.rate
      PROVE  5 * tuner'.period <= engine.delta
  <2>1. \A x \in Threads : thread[x].at \notin {"read", "record"}
    BY <1>1, TimerIsAThread DEF StreamInv, Typed, ThreadsOK, Rating, Threads
  <2>2. tuner.wanted = PollPeriod(engine.delta)
    BY <1>1, <2>1 DEF StreamInv, RateInv
  <2>3. tuner'.period = tuner.wanted
    BY <1>1 DEF OnTimer, Tuned, StreamInv, Typed
  <2>4. engine.delta \in Deltas
    BY <1>1 DEF StreamInv, Typed, Engine
  <2> QED
    BY <2>2, <2>3, <2>4, PollPeriodIsAFifth
<1>2. StreamInv => [OnTimer /\ (\A x \in Http : ~Rating(x)) /\ ~raced.rate
                      => 5 * tuner'.period <= engine.delta]_vars
  BY <1>1
<1> QED
  BY <1>2, InvariantHolds, PTL DEF TimerFollowsRate
=============================================================================
