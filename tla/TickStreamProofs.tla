-------------------------- MODULE TickStreamProofs --------------------------
(***************************************************************************)
(* What TickStream shows on small instances, for every number of runs,     *)
(* every length of a run, every topic capacity and every choice of loss    *)
(* and order.                                                              *)
(***************************************************************************)
EXTENDS TickStream, TLAPS

-----------------------------------------------------------------------------
(* What Admit decides, for every ledger, index, epoch and clock index.     *)

Admission == [ledger : Ledger, step : BOOLEAN, seq : Nat, missed : Nat]

\* Following an epoch leaves a ledger whose epoch is the one that was named.
LEMMA FollowEpochFacts ==
  ASSUME NEW l \in Ledger, NEW e \in Index
  PROVE  /\ FollowEpoch(l, e) \in Ledger
         /\ FollowEpoch(l, e).epoch = IF e = None THEN l.epoch ELSE e
         /\ NewEpoch(l, e) => FollowEpoch(l, e).lastSeq = None
         /\ ~NewEpoch(l, e) => FollowEpoch(l, e).lastSeq = l.lastSeq
BY NoneAssumption DEF FollowEpoch, NewEpoch, Ledger, Index

\* An admission is well formed; its gap is a count (TickLedger.admit).
LEMMA AdmitType ==
  ASSUME NEW l \in Ledger, NEW seq \in Index, NEW e \in Index, NEW c \in Index
  PROVE  Admit(l, seq, e, c) \in Admission
<1> DEFINE f == FollowEpoch(l, e)
           step == ~Refused(f, seq, c)
<1>1. f \in Ledger
  BY FollowEpochFacts
<1>2. NextImplicit(f) \in Nat
  BY <1>1, NoneAssumption DEF NextImplicit, Ledger, Index
<1>3. StepLedger(f, seq) \in Ledger
  BY <1>1, <1>2 DEF StepLedger, Ledger, Index
<1>4. step => Gap(f, seq) \in Nat
  BY <1>1, NoneAssumption DEF Gap, Refused, AlreadyStepped, Ledger, Index
<1>5. step \in BOOLEAN
  BY DEF Refused, AheadOfClock, AlreadyStepped
<1>6. (IF seq = None THEN NextImplicit(f) ELSE seq) \in Nat
  BY <1>2 DEF Index
<1>7. (IF step THEN Gap(f, seq) ELSE 0) \in Nat
  BY <1>4
<1>8. (IF step THEN StepLedger(f, seq) ELSE f) \in Ledger
  BY <1>1, <1>3
<1> QED
  BY <1>5, <1>6, <1>7, <1>8 DEF Admit, Admission

\* A numbered tick that steps becomes the high-water mark; inside a stream it
\* lies beyond the mark before it by one more than the missed ticks reported.
LEMMA AdmitNumbered ==
  ASSUME NEW l \in Ledger, NEW seq \in Nat, NEW e \in Index, NEW c \in Index,
         Admit(l, seq, e, c).step
  PROVE  /\ Admit(l, seq, e, c).ledger.lastSeq = seq
         /\ ~NewEpoch(l, e) /\ l.lastSeq # None =>
              seq = l.lastSeq + 1 + Admit(l, seq, e, c).missed
         /\ NewEpoch(l, e) \/ l.lastSeq = None => Admit(l, seq, e, c).missed = 0
<1> DEFINE f == FollowEpoch(l, e)
<1>1. /\ f \in Ledger
      /\ NewEpoch(l, e) => f.lastSeq = None
      /\ ~NewEpoch(l, e) => f.lastSeq = l.lastSeq
  BY FollowEpochFacts
<1>2. ~Refused(f, seq, c) /\ seq # None
  <2>1. Refused(f, seq, c) \in BOOLEAN
    BY DEF Refused
  <2>2. Admit(l, seq, e, c).step = ~Refused(f, seq, c)
    BY DEF Admit
  <2>3. ~Refused(f, seq, c)
    BY <2>1, <2>2, Zenon
  <2>4. seq # None
    BY NoneAssumption
  <2> QED
    BY <2>3, <2>4
<1>3. /\ Admit(l, seq, e, c).ledger = [f EXCEPT !.lastSeq = seq]
      /\ Admit(l, seq, e, c).missed = Gap(f, seq)
  BY <1>2 DEF Admit, StepLedger
<1>4. Admit(l, seq, e, c).ledger.lastSeq = seq
  BY <1>1, <1>3 DEF Ledger
<1>5. ASSUME f.lastSeq # None PROVE seq = f.lastSeq + 1 + Gap(f, seq)
  BY <1>1, <1>2, <1>5 DEF Gap, Ledger, Index
<1>6. f.lastSeq = None => Gap(f, seq) = 0
  BY DEF Gap
<1> QED
  BY <1>1, <1>3, <1>4, <1>5, <1>6

\* A refused tick, or one without a number, moves no high-water mark.
LEMMA AdmitKeepsMark ==
  ASSUME NEW l \in Ledger, NEW seq \in Index, NEW e \in Index, NEW c \in Index,
         seq = None \/ ~Admit(l, seq, e, c).step
  PROVE  Admit(l, seq, e, c).ledger.lastSeq = FollowEpoch(l, e).lastSeq
<1>1. FollowEpoch(l, e) \in Ledger
  BY FollowEpochFacts
<1>2. CASE ~Admit(l, seq, e, c).step
  BY <1>2 DEF Admit
<1>3. CASE seq = None
  BY <1>1, <1>3 DEF Admit, StepLedger, Refused, Ledger
<1> QED
  BY <1>2, <1>3

\* Whatever is decided, the ledger follows the epoch it was told.
LEMMA AdmitEpoch ==
  ASSUME NEW l \in Ledger, NEW seq \in Index, NEW e \in Index, NEW c \in Index
  PROVE  Admit(l, seq, e, c).ledger.epoch = IF e = None THEN l.epoch ELSE e
<1> DEFINE f == FollowEpoch(l, e)
<1>1. f \in Ledger /\ f.epoch = IF e = None THEN l.epoch ELSE e
  BY FollowEpochFacts
<1>2. StepLedger(f, seq).epoch = f.epoch
  BY <1>1 DEF StepLedger, Ledger
<1> QED
  BY <1>1, <1>2 DEF Admit

-----------------------------------------------------------------------------
(* The stream.                                                             *)

\* A run of the clock is a number, so it may serve as an epoch.
LEMMA RunIsNat == Run \subseteq Nat /\ Run \subseteq Index
BY TickStreamAssumption DEF Run, Index

\* The parts of a tick are what the ledger takes.
LEMMA TickIndex ==
  ASSUME NEW t \in Tick
  PROVE  t.run \in Run /\ t.seq \in Nat /\ t.seq \in Index /\ t.seq # None
BY NoneAssumption DEF Tick, Index

\* A topic stays a sequence of ticks whatever is taken from it.
LEMMA WireTypes ==
  ASSUME NEW s \in Seq(Tick)
  PROVE  /\ s # <<>> => Head(s) \in Tick /\ Tail(s) \in Seq(Tick)
         /\ \A i \in DOMAIN s : s[i] \in Tick /\ RemoveAt(s, i) \in Seq(Tick)
         /\ \A t \in Tick : Append(s, t) \in Seq(Tick)
<1>1. s # <<>> => Head(s) \in Tick /\ Tail(s) \in Seq(Tick)
  OBVIOUS
<1>2. ASSUME NEW i \in DOMAIN s PROVE s[i] \in Tick /\ RemoveAt(s, i) \in Seq(Tick)
  <2>1. s[i] \in Tick
    OBVIOUS
  <2>2. i \in 1..Len(s) /\ Len(s) \in Nat
    OBVIOUS
  <2>3. SubSeq(s, 1, i - 1) \in Seq(Tick) /\ SubSeq(s, i + 1, Len(s)) \in Seq(Tick)
    BY <2>2
  <2> QED
    BY <2>1, <2>3 DEF RemoveAt
<1>3. \A t \in Tick : Append(s, t) \in Seq(Tick)
  OBVIOUS
<1> QED
  BY <1>1, <1>2, <1>3

-----------------------------------------------------------------------------
(* The effect of one observation.                                          *)

\* An observation of a tick leaves well-typed bookkeeping (_on_observation).
LEMMA ReceiveType ==
  ASSUME TypeOK, NEW t \in Tick, Receive(t)
  PROVE  ledger' \in Ledger /\ axis' \in [first : Index, covered : Nat]
         /\ parity' \in {0, 1}
<1> DEFINE a == Admit(ledger, t.seq, nodeRun, nodeSeq)
<1>1. nodeRun \in Index /\ nodeSeq \in Index /\ ledger \in Ledger
  BY RunIsNat DEF TypeOK, Index
<1>2. a \in Admission
  BY <1>1, TickIndex, AdmitType
<1>3. ledger' = a.ledger /\ ledger' \in Ledger
  BY <1>2 DEF Receive, Admission
<1>4. axis' \in [first : Index, covered : Nat]
  <2> DEFINE AxisType == [first : Index, covered : Nat]
  <2>1. a.missed \in Nat /\ t.seq \in Index
    BY <1>2, TickIndex DEF Admission
  <2>2. axis \in AxisType
    BY DEF TypeOK
  <2>3. [first |-> None, covered |-> 0] \in AxisType
        /\ [first |-> t.seq, covered |-> 1 + a.missed] \in AxisType
    BY <2>1 DEF Index
  <2>4. [axis EXCEPT !.covered = @ + 1 + a.missed] \in AxisType
    BY <2>1, <2>2
  <2>5. \/ axis' = [first |-> None, covered |-> 0]
        \/ axis' = axis
        \/ axis' = [first |-> t.seq, covered |-> 1 + a.missed]
        \/ axis' = [axis EXCEPT !.covered = @ + 1 + a.missed]
    BY DEF Receive
  <2> QED
    BY <2>2, <2>3, <2>4, <2>5
<1>5. parity' \in {0, 1}
  BY DEF Receive, TypeOK
<1> QED
  BY <1>3, <1>4, <1>5

-----------------------------------------------------------------------------
\* The initial state is well typed.
LEMMA TypeInit == Init => TypeOK
<1>1. 1 \in Run
  BY TickStreamAssumption DEF Run
<1> QED
  BY <1>1 DEF Init, TypeOK, Index, NewLedger, Ledger

\* No step of the stream breaks a type.
LEMMA TypeStep == TypeOK /\ [Next]_vars => TypeOK'
<1> SUFFICES ASSUME TypeOK, [Next]_vars PROVE TypeOK'
  OBVIOUS
<1>1. CASE Pulse
  <2> DEFINE tick == [run |-> clock.run, seq |-> clock.seq + 1]
  <2>1. tick \in Tick /\ tick \in [run : Run, seq : Nat]
    BY DEF TypeOK, Tick
  <2>2. pulses' = Append(pulses, tick) /\ wire' = Append(wire, tick) /\ clock' = tick
    BY <1>1 DEF Pulse
  <2>3. pulses' \in Seq(Tick) /\ wire' \in Seq(Tick)
    BY <2>1, <2>2, WireTypes DEF TypeOK
  <2> QED
    BY <1>1, <2>1, <2>2, <2>3 DEF Pulse, TypeOK
<1>2. CASE RestartClock
  BY <1>2 DEF RestartClock, TypeOK
<1>3. CASE DeliverPulse
  <2>1. Head(pulses) \in Tick /\ Tail(pulses) \in Seq(Tick)
    BY <1>3, WireTypes DEF DeliverPulse, TypeOK
  <2> QED
    BY <1>3, <2>1, TickIndex DEF DeliverPulse, TypeOK
<1>4. ASSUME NEW i \in DOMAIN wire, Deliver(i) PROVE TypeOK'
  <2>1. wire[i] \in Tick /\ RemoveAt(wire, i) \in Seq(Tick)
    BY <1>4, WireTypes DEF TypeOK
  <2>2. Receive(wire[i]) /\ wire' = RemoveAt(wire, i)
    BY <1>4 DEF Deliver
  <2>3. ledger' \in Ledger /\ axis' \in [first : Index, covered : Nat]
        /\ parity' \in {0, 1}
    BY <2>1, <2>2, ReceiveType
  <2> QED
    BY <1>4, <2>1, <2>2, <2>3 DEF Deliver, TypeOK
<1>5. CASE DeliverObservation
  <2>1. 1 \in DOMAIN wire
    BY <1>5 DEF DeliverObservation, TypeOK
  <2> QED
    BY <1>4, <1>5, <2>1 DEF DeliverObservation
<1>6. CASE DeliverOutOfOrder
  BY <1>4, <1>6 DEF DeliverOutOfOrder
<1>7. CASE Redeliver
  <2>1. PICK i \in DOMAIN wire : Receive(wire[i])
    BY <1>7 DEF Redeliver
  <2>2. wire[i] \in Tick
    BY WireTypes DEF TypeOK
  <2>3. ledger' \in Ledger /\ axis' \in [first : Index, covered : Nat]
        /\ parity' \in {0, 1}
    BY <2>1, <2>2, ReceiveType
  <2> QED
    BY <1>7, <2>3 DEF Redeliver, TypeOK
<1>8. CASE LosePulse
  BY <1>8, WireTypes DEF LosePulse, TypeOK
<1>9. CASE LoseObservation
  BY <1>9, WireTypes DEF LoseObservation, TypeOK
<1>10. CASE ResetEpisode
  BY <1>10 DEF ResetEpisode, ResetLedger, TypeOK, Ledger, Index
<1>11. CASE UNCHANGED vars
  BY <1>11 DEF vars, TypeOK
<1> QED
  BY <1>1, <1>2, <1>3, <1>5, <1>6, <1>7, <1>8, <1>9, <1>10, <1>11 DEF Next

\* Every variable keeps its type: the messages on both topics are ticks of a
\* run of the clock, the ledger's indices and counts are never negative.
THEOREM TypeCorrect == Spec => []TypeOK
BY TypeInit, TypeStep, PTL DEF Spec
-----------------------------------------------------------------------------
(* The tick axis.                                                          *)

\* TickAxisReconstructs says nothing of a stream that has not begun: there the
\* axis has no first tick either.
AxisInv == /\ ledger.lastSeq = None <=> axis.first = None
           /\ TickAxisReconstructs

\* An observation, stepped or refused, keeps the axis and the mark in step.
LEMMA ReceiveAxis ==
  ASSUME TypeOK, AxisInv, NEW t \in Tick, Receive(t)
  PROVE  AxisInv'
<1> DEFINE a == Admit(ledger, t.seq, nodeRun, nodeSeq)
           fresh == NewEpoch(ledger, nodeRun)
<1>1. nodeRun \in Index /\ nodeSeq \in Index /\ ledger \in Ledger
  BY RunIsNat DEF TypeOK, Index
<1>2. t.seq \in Nat /\ t.seq \in Index /\ t.seq # None
  BY TickIndex
<1>3. a \in Admission /\ a.step \in BOOLEAN /\ a.missed \in Nat
  BY <1>1, <1>2, AdmitType DEF Admission
<1>4. axis.first \in Index /\ axis.covered \in Nat /\ ledger.lastSeq \in Index
  BY DEF TypeOK, Ledger
<1>5. ledger' = a.ledger
  BY DEF Receive
<1>6. CASE a.step
  <2>1. /\ a.ledger.lastSeq = t.seq
        /\ ~fresh /\ ledger.lastSeq # None => t.seq = ledger.lastSeq + 1 + a.missed
        /\ fresh \/ ledger.lastSeq = None => a.missed = 0
    BY <1>1, <1>2, <1>6, AdmitNumbered
  <2>2. CASE fresh \/ axis.first = None
    <3>1. axis' = [first |-> t.seq, covered |-> 1 + a.missed]
      BY <1>6, <2>2 DEF Receive
    <3>2. a.missed = 0
      BY <2>1, <2>2 DEF AxisInv
    <3> QED
      BY <1>2, <1>5, <2>1, <3>1, <3>2 DEF AxisInv, TickAxisReconstructs
  <2>3. CASE ~fresh /\ axis.first # None
    <3>1. axis' = [axis EXCEPT !.covered = @ + 1 + a.missed]
      BY <1>6, <2>3 DEF Receive
    <3>2. axis'.first = axis.first /\ axis'.covered = axis.covered + 1 + a.missed
      BY <3>1 DEF TypeOK
    <3>3. ledger.lastSeq # None /\ ledger.lastSeq = axis.first + axis.covered - 1
      BY <2>3 DEF AxisInv, TickAxisReconstructs
    <3>4. t.seq = axis.first + (axis.covered + 1 + a.missed) - 1
      BY <1>2, <1>3, <1>4, <2>1, <2>3, <3>3 DEF Index
    <3> QED
      BY <1>2, <1>5, <2>1, <2>3, <3>2, <3>4 DEF AxisInv, TickAxisReconstructs
  <2> QED
    BY <2>2, <2>3
<1>7. CASE ~a.step
  <2>1. a.ledger.lastSeq = IF fresh THEN None ELSE ledger.lastSeq
    <3>1. a.ledger.lastSeq = FollowEpoch(ledger, nodeRun).lastSeq
      BY <1>1, <1>2, <1>7, AdmitKeepsMark
    <3> QED
      BY <1>1, <3>1, FollowEpochFacts
  <2>2. axis' = IF fresh THEN [first |-> None, covered |-> 0] ELSE axis
    BY <1>7 DEF Receive
  <2>3. CASE fresh
    BY <1>5, <2>1, <2>2, <2>3 DEF AxisInv, TickAxisReconstructs
  <2>4. CASE ~fresh
    BY <1>5, <2>1, <2>2, <2>4 DEF AxisInv, TickAxisReconstructs
  <2> QED
    BY <2>3, <2>4
<1> QED
  BY <1>3, <1>6, <1>7

\* Before the first tick there is neither axis nor mark.
LEMMA AxisInit == Init => AxisInv
BY DEF Init, NewLedger, AxisInv, TickAxisReconstructs

\* No step of the stream sets the axis and the mark apart.
LEMMA AxisStep == TypeOK /\ AxisInv /\ [Next]_vars => AxisInv'
<1> SUFFICES ASSUME TypeOK, AxisInv, [Next]_vars PROVE AxisInv'
  OBVIOUS
<1>1. ASSUME NEW i \in DOMAIN wire, Receive(wire[i])
      PROVE AxisInv'
  <2>1. wire[i] \in Tick
    BY WireTypes DEF TypeOK
  <2> QED
    BY <1>1, <2>1, ReceiveAxis
<1>2. CASE DeliverObservation
  <2>1. 1 \in DOMAIN wire
    BY <1>2 DEF DeliverObservation, TypeOK
  <2> QED
    BY <1>1, <1>2, <2>1 DEF DeliverObservation, Deliver
<1>3. CASE DeliverOutOfOrder
  BY <1>1, <1>3 DEF DeliverOutOfOrder, Deliver
<1>4. CASE Redeliver
  BY <1>1, <1>4 DEF Redeliver
<1>5. CASE ResetEpisode
  <2>1. ledger'.lastSeq = ledger.lastSeq /\ UNCHANGED axis
    BY <1>5 DEF ResetEpisode, ResetLedger, TypeOK, Ledger
  <2> QED
    BY <2>1 DEF AxisInv, TickAxisReconstructs
<1>6. CASE UNCHANGED <<ledger, axis>>
  BY <1>6 DEF AxisInv, TickAxisReconstructs
<1> QED
  BY <1>2, <1>3, <1>4, <1>5, <1>6
     DEF Next, Pulse, RestartClock, DeliverPulse, LosePulse, LoseObservation, vars

\* From a stream's first step on, one tick per step and the missed ticks each
\* step reports add up to the last stepped seq, whatever was lost, repeated,
\* reordered, refused or reset on the way (docs/api.md on missed_ticks).
THEOREM AxisReconstructs == Spec => []TickAxisReconstructs
<1>1. AxisInv => TickAxisReconstructs
  BY DEF AxisInv
<1> QED
  BY <1>1, TypeCorrect, AxisInit, AxisStep, PTL DEF Spec

-----------------------------------------------------------------------------
(* One step per tick.                                                      *)

\* The runs met on the way from the clock to the ledger are in order: the
\* ledger's is no later than the node's, which is no later than any pulse's
\* still in flight, which are in order and no later than the clock's.
RunOrder ==
  /\ ledger.epoch # None => nodeRun # None /\ ledger.epoch <= nodeRun
  /\ nodeRun # None => nodeRun <= clock.run
  /\ \A i \in DOMAIN pulses :
       /\ pulses[i].run <= clock.run
       /\ nodeRun # None => nodeRun <= pulses[i].run
  /\ \A i, j \in DOMAIN pulses : i <= j => pulses[i].run <= pulses[j].run

\* An observation moves the ledger no further than the node's run.
LEMMA ReceiveOrder ==
  ASSUME TypeOK, RunOrder, NEW t \in Tick, Receive(t),
         UNCHANGED <<clock, pulses, nodeRun>>
  PROVE  RunOrder'
<1>1. nodeRun \in Index /\ nodeSeq \in Index /\ ledger \in Ledger
  BY RunIsNat DEF TypeOK, Index
<1>2. ledger'.epoch = IF nodeRun = None THEN ledger.epoch ELSE nodeRun
  BY <1>1, TickIndex, AdmitEpoch DEF Receive
<1> QED
  BY <1>1, <1>2 DEF RunOrder, Index

\* Before the first pulse there is no run to be out of order.
LEMMA OrderInit == Init => RunOrder
BY DEF Init, NewLedger, RunOrder

\* Pulses arrive in order, so neither node nor ledger goes back to a run.
LEMMA OrderStep == TypeOK /\ RunOrder /\ [Next]_vars => RunOrder'
<1> SUFFICES ASSUME TypeOK, RunOrder, [Next]_vars PROVE RunOrder'
  OBVIOUS
<1> USE RunIsNat
<1>1. CASE Pulse
  <2> DEFINE tick == [run |-> clock.run, seq |-> clock.seq + 1]
  <2>1. pulses' = Append(pulses, tick) /\ clock'.run = clock.run
        /\ UNCHANGED <<nodeRun, ledger>>
    BY <1>1 DEF Pulse
  <2>2. DOMAIN pulses' = DOMAIN pulses \cup {Len(pulses) + 1}
        /\ Len(pulses) + 1 \notin DOMAIN pulses
        /\ pulses'[Len(pulses) + 1].run = clock.run
        /\ \A i \in DOMAIN pulses : i <= Len(pulses) /\ pulses'[i] = pulses[i]
    <3>1. tick \in Tick /\ tick.run = clock.run /\ pulses \in Seq(Tick)
      BY DEF TypeOK, Tick
    <3> HIDE DEF tick
    <3> QED
      BY <2>1, <3>1
  <2>3. clock.run \in Nat /\ Len(pulses) \in Nat /\ DOMAIN pulses \subseteq Nat
    <3>1. pulses \in Seq(Tick) /\ clock.run \in Run
      BY DEF TypeOK
    <3>2. Len(pulses) \in Nat /\ DOMAIN pulses = 1..Len(pulses)
      BY <3>1
    <3>3. clock.run \in Nat
      BY <3>1, RunIsNat
    <3>4. DOMAIN pulses \subseteq Nat
      BY <3>2
    <3> QED
      BY <3>2, <3>3, <3>4
  <2>4. \A i \in DOMAIN pulses' :
          /\ pulses'[i].run <= clock'.run
          /\ nodeRun' # None => nodeRun' <= pulses'[i].run
    BY <2>1, <2>2, <2>3 DEF RunOrder
  <2>5. \A i, j \in DOMAIN pulses' : i <= j => pulses'[i].run <= pulses'[j].run
    BY <2>2, <2>3 DEF RunOrder
  <2> QED
    BY <2>1, <2>4, <2>5 DEF RunOrder
<1>2. CASE RestartClock
  <2>1. clock'.run = clock.run + 1 /\ UNCHANGED <<pulses, nodeRun, ledger>>
    BY <1>2 DEF RestartClock
  <2>2. clock.run \in Nat /\ nodeRun \in Nat \cup {None}
        /\ \A i \in DOMAIN pulses : pulses[i].run \in Nat
    BY WireTypes, TickIndex DEF TypeOK
  <2> QED
    BY <2>1, <2>2 DEF RunOrder
<1>3. CASE DeliverPulse \/ LosePulse
  <2>1. /\ pulses # <<>> /\ pulses' = Tail(pulses) /\ UNCHANGED <<clock, ledger>>
        /\ nodeRun' = Head(pulses).run \/ nodeRun' = nodeRun
    BY <1>3 DEF DeliverPulse, LosePulse
  <2>2. /\ 1 \in DOMAIN pulses /\ Head(pulses) = pulses[1]
        /\ DOMAIN pulses \subseteq Nat \ {0}
        /\ \A i \in DOMAIN pulses' : i + 1 \in DOMAIN pulses /\ pulses'[i] = pulses[i + 1]
        /\ DOMAIN pulses' \subseteq Nat
    BY <2>1 DEF TypeOK
  <2>3. \A i \in DOMAIN pulses : pulses[i].run \in Nat
    BY WireTypes, TickIndex DEF TypeOK
  <2>4. nodeRun \in Nat \cup {None} /\ ledger.epoch \in Nat \cup {None} /\ None \notin Nat
    BY NoneAssumption DEF TypeOK, Ledger, Index
  <2>5. nodeRun # None => nodeRun' # None /\ nodeRun <= nodeRun'
    BY <2>1, <2>2, <2>3, <2>4 DEF RunOrder
  <2>6. nodeRun' # None => nodeRun' <= clock.run
    BY <2>1, <2>2 DEF RunOrder
  <2>7. \A i \in DOMAIN pulses' : nodeRun' # None => nodeRun' <= pulses'[i].run
    BY <2>1, <2>2 DEF RunOrder
  <2>8. \A i, j \in DOMAIN pulses' : i <= j => pulses'[i].run <= pulses'[j].run
    BY <2>2 DEF RunOrder
  <2>9. ledger'.epoch # None => nodeRun' # None /\ ledger'.epoch <= nodeRun'
    <3>1. nodeRun' \in Nat \cup {None}
      BY <2>1, <2>2, <2>3, <2>4
    <3> QED
      BY <2>1, <2>4, <2>5, <3>1 DEF RunOrder
  <2> QED
    BY <2>1, <2>2, <2>6, <2>7, <2>8, <2>9 DEF RunOrder
<1>4. ASSUME NEW i \in DOMAIN wire, Receive(wire[i]),
             UNCHANGED <<clock, pulses, nodeRun>>
      PROVE RunOrder'
  BY <1>4, WireTypes, ReceiveOrder DEF TypeOK
<1>5. CASE DeliverObservation
  <2>1. 1 \in DOMAIN wire
    BY <1>5 DEF DeliverObservation, TypeOK
  <2> QED
    BY <1>4, <1>5, <2>1 DEF DeliverObservation, Deliver
<1>6. CASE DeliverOutOfOrder
  BY <1>4, <1>6 DEF DeliverOutOfOrder, Deliver
<1>7. CASE Redeliver
  BY <1>4, <1>7 DEF Redeliver
<1>8. CASE ResetEpisode
  BY <1>8 DEF ResetEpisode, ResetLedger, RunOrder, TypeOK, Ledger
<1>9. CASE UNCHANGED <<clock, pulses, nodeRun, ledger>>
  BY <1>9 DEF RunOrder
<1> QED
  BY <1>1, <1>2, <1>3, <1>5, <1>6, <1>7, <1>8, <1>9 DEF Next, LoseObservation, vars

\* What an observation does to the ledger is a step of OneStepPerTick, or none.
LEMMA ReceiveRefines ==
  ASSUME TypeOK, RunOrder, NEW t \in Tick, Receive(t)
  PROVE  [Stepper!Next]_<<ledger.epoch, ledger.lastSeq, parity>>
<1> DEFINE a == Admit(ledger, t.seq, nodeRun, nodeSeq)
           fresh == NewEpoch(ledger, nodeRun)
<1>1. /\ nodeRun \in Nat \cup {None} /\ nodeRun \in Index /\ nodeSeq \in Index
      /\ ledger \in Ledger
      /\ ledger.epoch \in Nat \cup {None} /\ ledger.lastSeq \in Nat \cup {None}
  BY RunIsNat DEF TypeOK, Ledger, Index
<1>2. t.seq \in Nat /\ t.seq \in Index
  BY TickIndex
<1>3. a.step \in BOOLEAN /\ a.missed \in Nat
  BY <1>1, <1>2, AdmitType DEF Admission
<1>4. /\ ledger' = a.ledger
      /\ parity' = IF a.step THEN 1 - parity ELSE parity
  BY DEF Receive
<1>5. ledger'.epoch = IF nodeRun = None THEN ledger.epoch ELSE nodeRun
  BY <1>1, <1>2, <1>4, AdmitEpoch
<1>6. fresh => ledger.epoch # None /\ ledger'.epoch \in Nat /\ ledger'.epoch > ledger.epoch
  BY <1>1, <1>5, NoneAssumption DEF NewEpoch, RunOrder
<1>7. ~fresh /\ ledger'.epoch # ledger.epoch => ledger.epoch = None /\ ledger'.epoch \in Nat
  BY <1>1, <1>5, NoneAssumption DEF NewEpoch
<1>8. CASE a.step
  <2>1. /\ ledger'.lastSeq = t.seq
        /\ ~fresh /\ ledger.lastSeq # None => t.seq = ledger.lastSeq + 1 + a.missed
    BY <1>1, <1>2, <1>4, <1>8, AdmitNumbered
  <2>2. ledger'.lastSeq \in Nat /\ parity' = 1 - parity
    BY <1>2, <1>4, <1>8, <2>1
  <2>3. CASE fresh
    BY <1>6, <2>2, <2>3 DEF Stepper!Next, Stepper!NewStream
  <2>4. CASE ~fresh
    <3>1. Stepper!Forward
      BY <1>1, <1>3, <2>1, <2>2, <2>4 DEF Stepper!Forward
    <3> QED
      BY <1>7, <2>4, <3>1 DEF Stepper!Next, Stepper!Step, Stepper!FirstStream
  <2> QED
    BY <2>3, <2>4
<1>9. CASE ~a.step
  <2>1. ledger'.lastSeq = IF fresh THEN None ELSE ledger.lastSeq
    <3>1. ledger'.lastSeq = FollowEpoch(ledger, nodeRun).lastSeq
      BY <1>1, <1>2, <1>4, <1>9, AdmitKeepsMark
    <3> QED
      BY <1>1, <3>1, FollowEpochFacts
  <2>2. parity' = parity
    BY <1>4, <1>9
  <2>3. CASE fresh
    BY <1>6, <2>1, <2>2, <2>3 DEF Stepper!Next, Stepper!NewStream
  <2>4. CASE ~fresh
    BY <1>7, <2>1, <2>2, <2>4 DEF Stepper!Next, Stepper!FirstStream
  <2> QED
    BY <2>3, <2>4
<1> QED
  BY <1>3, <1>8, <1>9

\* Every step is a step of OneStepPerTick, or leaves its variables alone.
LEMMA StepRefines ==
  TypeOK /\ RunOrder /\ [Next]_vars => [Stepper!Next]_<<ledger.epoch, ledger.lastSeq, parity>>
<1> SUFFICES ASSUME TypeOK, RunOrder, [Next]_vars
             PROVE  [Stepper!Next]_<<ledger.epoch, ledger.lastSeq, parity>>
  OBVIOUS
<1>1. ASSUME NEW i \in DOMAIN wire, Receive(wire[i])
      PROVE [Stepper!Next]_<<ledger.epoch, ledger.lastSeq, parity>>
  BY <1>1, WireTypes, ReceiveRefines DEF TypeOK
<1>2. CASE DeliverObservation
  <2>1. 1 \in DOMAIN wire
    BY <1>2 DEF DeliverObservation, TypeOK
  <2> QED
    BY <1>1, <1>2, <2>1 DEF DeliverObservation, Deliver
<1>3. CASE DeliverOutOfOrder
  BY <1>1, <1>3 DEF DeliverOutOfOrder, Deliver
<1>4. CASE Redeliver
  BY <1>1, <1>4 DEF Redeliver
<1>5. CASE ResetEpisode
  BY <1>5 DEF ResetEpisode, ResetLedger, TypeOK, Ledger
<1>6. CASE UNCHANGED <<ledger, parity>>
  BY <1>6
<1> QED
  BY <1>2, <1>3, <1>4, <1>5, <1>6
     DEF Next, Pulse, RestartClock, DeliverPulse, LosePulse, LoseObservation, vars

\* Inside a run of the clock ticks are stepped forwards and each at most once,
\* and a run that was left is never returned to: TickStream implements
\* OneStepPerTick (TickLedger.admit, monitor_node.tick_callback).
THEOREM LedgerImplementsOneStepPerTick == Spec => StepsEachTickOnce
<1>1. Init => Stepper!Init
  BY DEF Init, NewLedger, Stepper!Init
<1> QED
  BY <1>1, TypeCorrect, OrderInit, OrderStep, StepRefines, PTL
     DEF Spec, StepsEachTickOnce, Stepper!Spec
=============================================================================
