------------------------- MODULE MonitorNodeProofs -------------------------
(***************************************************************************)
(* What MonitorNode shows on small instances, for every set of specs,      *)
(* commands and wires, every threshold and every bound.                    *)
(***************************************************************************)
EXTENDS MonitorNode, TLAPS

-----------------------------------------------------------------------------
(* What the ledger's decision about one observation leaves.                *)

Admission == [ledger : Ledger, step : BOOLEAN, seq : Nat, missed : Nat]

LEMMA FollowedLedger ==
  ASSUME NEW l \in Ledger, NEW e \in Index, NEW f, f = FollowEpoch(l, e)
  PROVE  /\ f \in Ledger /\ f.epoch = IF e = None THEN l.epoch ELSE e
         /\ f.lastSeq = IF NewEpoch(l, e) THEN None ELSE l.lastSeq
BY NoneAssumption DEF FollowEpoch, NewEpoch, Ledger, Index

\* A numbered tick that steps becomes the high-water mark, one more than the
\* missed ticks beyond the one before it in its epoch; any other observation
\* leaves the mark of the epoch.  The epoch followed is the clock's.
LEMMA AdmissionFacts ==
  ASSUME NEW l \in Ledger, NEW seq \in Index, NEW e \in Index, NEW c \in Index,
         NEW a, a = Admit(l, seq, e, c)
  PROVE  /\ a \in Admission
         /\ a.ledger.epoch = IF e = None THEN l.epoch ELSE e
         /\ a.step /\ seq # None =>
              /\ a.ledger.lastSeq = seq
              /\ ~NewEpoch(l, e) /\ l.lastSeq # None => seq = l.lastSeq + 1 + a.missed
         /\ ~a.step \/ seq = None =>
              a.ledger.lastSeq = IF NewEpoch(l, e) THEN None ELSE l.lastSeq
<1> DEFINE f == FollowEpoch(l, e)
           step == ~Refused(f, seq, c)
<1>1. /\ f \in Ledger /\ f.epoch = IF e = None THEN l.epoch ELSE e
      /\ f.lastSeq = IF NewEpoch(l, e) THEN None ELSE l.lastSeq
  BY FollowedLedger
<1>2. /\ a.ledger = IF step THEN StepLedger(f, seq) ELSE f
      /\ a.missed = IF step THEN Gap(f, seq) ELSE 0
      /\ (a.step <=> step) /\ a.step \in BOOLEAN
  BY DEF Admit, Refused
<1>3. a.step => ~Refused(f, seq, c)
  BY <1>2
<1> HIDE DEF f
<1>4. NextImplicit(f) \in Nat
  BY <1>1, NoneAssumption DEF NextImplicit, Ledger, Index
<1>5. a.step => Gap(f, seq) \in Nat
  BY <1>1, <1>3, NoneAssumption DEF Gap, Refused, AlreadyStepped, Ledger, Index
<1>6. /\ StepLedger(f, seq) \in Ledger
      /\ StepLedger(f, seq).epoch = f.epoch
      /\ StepLedger(f, seq).lastSeq = IF seq = None THEN f.lastSeq ELSE seq
  BY <1>1, <1>4 DEF StepLedger, Ledger, Index
<1>7. a \in Admission
  <2>1. a.seq = (IF seq = None THEN NextImplicit(f) ELSE seq) /\ a.seq \in Nat
    BY <1>4 DEF Admit, Index, f
  <2>2. a.ledger \in Ledger /\ a.missed \in Nat
    BY <1>1, <1>2, <1>5, <1>6
  <2>3. a = [ledger |-> a.ledger, step |-> a.step, seq |-> a.seq, missed |-> a.missed]
    BY DEF Admit
  <2> QED
    BY <1>2, <2>1, <2>2, <2>3 DEF Admission
<1>8. a.ledger.epoch = IF e = None THEN l.epoch ELSE e
  BY <1>1, <1>2, <1>6
<1>9. a.step /\ seq # None /\ ~NewEpoch(l, e) /\ l.lastSeq # None
        => seq = l.lastSeq + 1 + a.missed
  <2> SUFFICES ASSUME a.step, seq # None, ~NewEpoch(l, e), l.lastSeq # None
               PROVE  seq = l.lastSeq + 1 + a.missed
    OBVIOUS
  <2>1. a.missed = seq - l.lastSeq - 1
    BY <1>1, <1>2 DEF Gap
  <2>2. seq \in Nat /\ l.lastSeq \in Nat
    BY DEF Ledger, Index
  <2> HIDE DEF step
  <2> QED
    BY <2>1, <2>2
<1> QED
  BY <1>1, <1>2, <1>6, <1>7, <1>8, <1>9

-----------------------------------------------------------------------------
(* Types and the silence watch.                                            *)

\* The groups of TypeOK an action disturbs apart.
ProcessOK == /\ alive \in {"up", "stopping", "down"}
             /\ spec \in Specs /\ autoSpec \in Buildable
             /\ watched \in BOOLEAN /\ label \in Specs \cup {None}
             /\ specStatus \in [ok : BOOLEAN, spec : Specs] \cup {None}
EpisodeOK == /\ runState \in RunStates /\ paused \in BOOLEAN /\ halted \in BOOLEAN
             /\ terminal \in Terminals \cup {None}
             /\ stepIdx \in 0..2 /\ phaseIdx \in Nat \cup {-1} /\ violated \subseteq Sinks
ClockOK   == /\ clockSeq \in Index /\ clockEpoch \in Index
             /\ silentSince \in Index /\ stalled \in BOOLEAN /\ quiet \in Nat
WiresOK   == /\ ledger \in Ledger /\ parity \in {0, 1}
             /\ envelopeSeen \in BOOLEAN /\ readmitted \in BOOLEAN
VerdictOK == verdict \in Verdict \cup {None}

\* The type invariant by the parts of the node that change together.
LEMMA TypeSplit == TypeOK <=> ProcessOK /\ EpisodeOK /\ ClockOK /\ WiresOK /\ VerdictOK
BY DEF TypeOK, ProcessOK, EpisodeOK, ClockOK, WiresOK, VerdictOK

\* The initial state is well typed.
LEMMA TypeInit == Init => TypeOK
<1> SUFFICES ASSUME Init PROVE TypeOK
  OBVIOUS
<1>1. FirstSpec \in Buildable /\ FirstSpec \in Specs /\ FromFile \in BOOLEAN
  BY MonitorAssumption
<1>2. ProcessOK
  BY <1>1 DEF Init, ProcessOK
<1>3. EpisodeOK
  <2>1. violated \subseteq Sinks
    BY DEF Init
  <2>2. runState \in RunStates /\ paused \in BOOLEAN /\ halted \in BOOLEAN
    BY DEF Init, RunStates
  <2>3. stepIdx \in 0..2 /\ phaseIdx \in Nat \cup {-1} /\ terminal \in Terminals \cup {None}
    BY DEF Init
  <2> QED
    BY <2>1, <2>2, <2>3 DEF EpisodeOK
<1>4. ClockOK /\ VerdictOK
  BY DEF Init, ClockOK, VerdictOK, Index
<1>5. WiresOK
  BY DEF Init, WiresOK, NewLedger, Ledger, Index
<1> QED
  BY <1>2, <1>3, <1>4, <1>5, TypeSplit

\* How the silence window and the ticks gone by without a step hang together:
\* once a pulse was heard, the one is the clock's index less the other.
SilenceInv ==
  /\ clockSeq = None <=> clockEpoch = None
  /\ clockSeq # None => silentSince # None /\ silentSince + quiet = clockSeq
  /\ clockSeq = None => quiet = 0
  /\ StallNeverMissed

\* The clock's index is a number, heard of or not.
LEMMA ClockIndexType == ClockOK => ClockIndex \in Nat
BY DEF ClockOK, ClockIndex, Index

\* The pulses that arrive: a later index of the run heard, or another run.
LEMMA TickCases ==
  ASSUME ClockOK, SilenceInv, Tick
  PROVE  \E seq \in Nat, run \in Nat :
           /\ TickCallback(seq, run)
           /\ run = clockEpoch => clockSeq # None /\ seq > clockSeq
           /\ clockEpoch # None => clockEpoch <= run
<1>1. ClockIndex \in Nat /\ MaxGap \in Nat \ {0}
  BY ClockIndexType, MonitorAssumption
<1>2. CASE \E gap \in 1..MaxGap : /\ clockSeq # None /\ ClockIndex + gap <= MaxSeq
                                  /\ TickCallback(ClockIndex + gap, clockEpoch)
  <2>1. PICK gap \in 1..MaxGap : clockSeq # None /\ TickCallback(ClockIndex + gap, clockEpoch)
    BY <1>2
  <2>2. clockEpoch \in Nat /\ clockSeq \in Nat /\ ClockIndex = clockSeq
    BY <2>1 DEF ClockOK, SilenceInv, Index, ClockIndex
  <2>3. ClockIndex + gap \in Nat /\ ClockIndex + gap > clockSeq
    BY <1>1, <2>2
  <2> QED
    BY <2>1, <2>2, <2>3
<1>3. CASE \E seq \in 1..MaxGap :
             TickCallback(seq, IF clockEpoch = None THEN 0 ELSE clockEpoch + 1)
  <2> DEFINE run == IF clockEpoch = None THEN 0 ELSE clockEpoch + 1
  <2>1. run \in Nat /\ run # clockEpoch /\ (clockEpoch # None => clockEpoch <= run)
    BY NoneAssumption DEF ClockOK, Index
  <2>2. PICK seq \in 1..MaxGap : TickCallback(seq, run)
    BY <1>3
  <2>3. seq \in Nat
    BY <1>1
  <2> HIDE DEF run
  <2> QED
    BY <2>1, <2>2, <2>3
<1> QED
  BY <1>2, <1>3 DEF Tick

\* A pulse does to the window what it does to the count of ticks gone by, a stall
\* verdict carries that count, and the legacy wire is readmitted by it.
LEMMA PulseEffect ==
  ASSUME ClockOK, VerdictOK, EpisodeOK, readmitted \in BOOLEAN, SilenceInv,
         NEW seq \in Nat, NEW run \in Nat, TickCallback(seq, run),
         run = clockEpoch => clockSeq # None /\ seq > clockSeq
  PROVE  /\ ClockOK' /\ VerdictOK' /\ readmitted' \in BOOLEAN /\ SilenceInv'
         /\ verdict' # verdict => verdict'.wire = "clock" /\ verdict'.missed = quiet'
         /\ ~DeliberatelySilent =>
              (readmitted' <=> readmitted \/ (envelopeSeen /\ quiet' >= ReadmitTicks))
<1>1. clockSeq' = seq /\ clockEpoch' = run /\ quiet' = QuietAfter(seq, run)
  BY DEF TickCallback
<1>2. seq # None /\ run # None /\ seq \in Index /\ run \in Index
  BY NoneAssumption DEF Index
<1>3. StallTicks \in Nat \ {0}
  BY MonitorAssumption
<1>4. CASE PulseInSilence(seq)
  <2>1. DeliberatelySilent /\ silentSince' = seq /\ UNCHANGED <<stalled, verdict, readmitted>>
    BY <1>4 DEF PulseInSilence
  <2>2. quiet' = 0
    BY <1>1, <2>1 DEF QuietAfter
  <2>3. ClockOK'
    BY <1>1, <1>2, <2>1, <2>2 DEF ClockOK
  <2>4. SilenceInv'
    BY <1>1, <1>2, <1>3, <2>1, <2>2 DEF SilenceInv, StallNeverMissed
  <2> QED
    BY <2>1, <2>3, <2>4 DEF VerdictOK
<1>5. CASE PulseWhileWatching(seq, run)
  <2> DEFINE start == WindowStart(seq, run)
             silent == IF seq > start THEN seq - start ELSE 0
  <2>1. ~DeliberatelySilent
    BY <1>5 DEF PulseWhileWatching
  <2>2. /\ start \in Nat /\ start # None
        /\ quiet' \in Nat /\ start + quiet' = seq
    <3>1. CASE run # clockEpoch
      BY <1>1, <2>1, <3>1, NoneAssumption DEF WindowStart, QuietAfter
    <3>2. CASE run = clockEpoch
      <4>1. /\ clockSeq \in Nat /\ seq > clockSeq /\ ClockIndex = clockSeq
            /\ silentSince \in Nat /\ silentSince + quiet = clockSeq /\ quiet \in Nat
        BY <3>2 DEF ClockOK, SilenceInv, Index, ClockIndex
      <4>2. start = silentSince /\ quiet' = quiet + seq - clockSeq
        BY <1>1, <2>1, <3>2, <4>1 DEF WindowStart, QuietAfter
      <4> QED
        BY <4>1, <4>2, NoneAssumption
    <3> QED
      BY <3>1, <3>2
  <2>3. silentSince' = start /\ Watch(seq, silent)
    BY <1>5, <2>2 DEF PulseWhileWatching
  <2>4. silent = quiet'
    BY <2>2
  <2> HIDE DEF start, silent
  <2>5. /\ stalled' = (stalled \/ silent >= StallTicks)
        /\ verdict' = IF stalled' THEN StallVerdict(seq, silent) ELSE verdict
        /\ readmitted' = (readmitted \/ (silent >= ReadmitTicks /\ envelopeSeen))
    BY <2>3 DEF Watch
  <2>6. ClockOK'
    BY <1>1, <1>2, <2>2, <2>3, <2>5 DEF ClockOK, Index
  <2>7. SilenceInv'
    BY <1>1, <1>2, <2>2, <2>3, <2>4, <2>5 DEF SilenceInv, StallNeverMissed
  <2>8. StallVerdict(seq, silent) \in Verdict
        /\ StallVerdict(seq, silent).wire = "clock"
        /\ StallVerdict(seq, silent).missed = silent
    BY <1>2, <2>2, <2>4 DEF StallVerdict, Verdict, EpisodeOK
  <2>9. VerdictOK' /\ (verdict' # verdict => verdict'.wire = "clock" /\ verdict'.missed = quiet')
    BY <2>4, <2>5, <2>8 DEF VerdictOK
  <2>10. readmitted' \in BOOLEAN
    BY <2>5
  <2>11. readmitted' <=> readmitted \/ (envelopeSeen /\ quiet' >= ReadmitTicks)
    BY <2>4, <2>5
  <2> QED
    BY <2>6, <2>7, <2>9, <2>10, <2>11
<1> QED
  BY <1>4, <1>5 DEF TickCallback
-----------------------------------------------------------------------------
(* One observation.                                                        *)

\* The phase machine leaves an index of the phase list or -1.
LEMMA PhaseMovesType ==
  ASSUME NEW i \in Nat \cup {-1}, NEW n \in Nat, NEW j \in PhaseMoves(i, n)
  PROVE  /\ j \in Nat \cup {-1}
         /\ n > 0 /\ i < n => j < n
         /\ n = 0 => j = i
BY DEF PhaseMoves, Advances

\* Whatever the automata and the phase machine decide, the episode's variables
\* keep their types.
LEMMA AdvanceEffect ==
  ASSUME ProcessOK, EpisodeOK, Advance
  PROVE  EpisodeOK' /\ alive' \in {"up", "stopping", "down"}
<1>1. spec \in Specs /\ Phases[spec] \in Nat
  BY MonitorAssumption DEF ProcessOK
<1>2. phaseIdx' \in Nat \cup {-1} /\ violated' \subseteq Sinks /\ paused' \in BOOLEAN
  BY <1>1, PhaseMovesType DEF Advance, EpisodeOK
<1>3. Halt => /\ halted' \in BOOLEAN /\ runState' \in RunStates
              /\ terminal' \in Terminals \cup {None} /\ alive' \in {"up", "stopping", "down"}
  BY DEF Halt, EnterIdle, RunStates, Terminals, ProcessOK
<1>4. \A t \in Terminals : EnterIdle(t) =>
              /\ halted' \in BOOLEAN /\ runState' \in RunStates
              /\ terminal' \in Terminals \cup {None} /\ alive' \in {"up", "stopping", "down"}
  BY DEF EnterIdle, RunStates, Terminals, ProcessOK
<1>5. CountStep => stepIdx' \in 0..2
  BY DEF CountStep, EpisodeOK
<1>6. CASE FaultEndsRun
  BY <1>2, <1>3, <1>6 DEF FaultEndsRun, EpisodeOK
<1>7. CASE ProgressEndsRun
  BY <1>2, <1>4, <1>7 DEF ProgressEndsRun, EpisodeOK, Terminals
<1>8. CASE ViolationEndsProcess
  BY <1>2, <1>5, <1>8 DEF ViolationEndsProcess, EpisodeOK, Terminals
<1>9. CASE \E t \in Terminals : TerminalObservation(t)
  BY <1>2, <1>4, <1>5, <1>9 DEF TerminalObservation, EpisodeOK
<1>10. CASE RunGoesOn
  BY <1>2, <1>5, <1>10 DEF RunGoesOn, EpisodeOK, ProcessOK
<1> QED
  BY <1>6, <1>7, <1>8, <1>9, <1>10 DEF Advance

\* What one observation leaves, admitted or refused.  Only a step touches the
\* silence watch, and a step ends the silence.
LEMMA ObservationEffect ==
  ASSUME TypeOK, SilenceInv, Observation
  PROVE  TypeOK' /\ SilenceInv' /\ (verdict' # verdict => verdict'.wire # "clock")
<1>1. PICK wire \in Wires, tick \in 1..MaxSeq : OnObservation(wire, tick)
  BY DEF Observation
<1> DEFINE a == AdmitFrom(wire, tick)
<1>2. wire \in {"observation", "legacy"} /\ tick \in Nat
  BY <1>1, MonitorAssumption
<1>3. ProcessOK /\ EpisodeOK /\ ClockOK /\ WiresOK /\ VerdictOK
  BY TypeSplit
<1>4. a \in Admission
  <2>1. (IF wire = "observation" THEN tick ELSE None) \in Index
    BY <1>2 DEF Index
  <2> QED
    BY <1>3, <2>1, AdmissionFacts DEF AdmitFrom, ClockOK, WiresOK
<1>5. a.ledger \in Ledger /\ a.step \in BOOLEAN /\ a.seq \in Nat /\ a.missed \in Nat
  BY <1>4 DEF Admission
<1>6. /\ ledger' = a.ledger
      /\ parity' = IF a.step /\ wire = "observation" THEN 1 - parity ELSE parity
      /\ WireSteps(wire)
      /\ UNCHANGED <<spec, autoSpec, watched, label, specStatus, clockSeq, clockEpoch>>
      /\ \/ a.step /\ StepOnce(a, wire)
         \/ ~a.step /\ UNCHANGED <<alive, episode, silence, verdict>>
  BY <1>1 DEF OnObservation, process, clock
<1> HIDE DEF a
<1>7. WiresOK'
  <2>1. envelopeSeen' \in BOOLEAN /\ readmitted' \in BOOLEAN
    BY <1>3, <1>6 DEF WiresOK, WireSteps
  <2>2. parity' \in {0, 1}
    BY <1>3, <1>6 DEF WiresOK
  <2> QED
    BY <1>5, <1>6, <2>1, <2>2 DEF WiresOK
<1>8. CASE ~a.step
  <2>1. UNCHANGED <<alive, episode, silence, verdict>>
    BY <1>6, <1>8
  <2>2. ProcessOK' /\ EpisodeOK' /\ ClockOK' /\ VerdictOK'
    BY <1>3, <1>6, <2>1 DEF ProcessOK, EpisodeOK, ClockOK, VerdictOK, episode, silence
  <2>3. SilenceInv'
    BY <1>6, <2>1 DEF SilenceInv, StallNeverMissed, silence
  <2> QED
    BY <1>7, <2>1, <2>2, <2>3, TypeSplit DEF TypeOK, ProcessOK, EpisodeOK, ClockOK, WiresOK, VerdictOK
<1>9. CASE a.step
  <2>1. StepOnce(a, wire)
    BY <1>6, <1>9
  <2>2. silentSince' = ClockIndex /\ stalled' = FALSE /\ quiet' = 0
    BY <2>1 DEF StepOnce, NoteSteppingResumed
  <2>3. ClockIndex \in Nat /\ (clockSeq # None => ClockIndex = clockSeq)
    BY <1>3, ClockIndexType DEF ClockIndex
  <2>4. ClockOK'
    BY <1>3, <1>6, <2>2, <2>3 DEF ClockOK, Index
  <2>5. SilenceInv'
    BY <1>3, <1>6, <2>2, <2>3, MonitorAssumption, NoneAssumption
       DEF SilenceInv, StallNeverMissed, ClockOK, Index
  <2>6. CASE /\ alive' = "down"
             /\ violated' \in {v \in SUBSET Sinks : violated \subseteq v}
             /\ UNCHANGED <<runState, paused, halted, terminal, stepIdx, phaseIdx, verdict>>
    <3>1. violated' \subseteq Sinks
      BY <2>6
    <3>2. ProcessOK' /\ EpisodeOK' /\ VerdictOK'
      BY <1>3, <1>6, <2>6, <3>1 DEF ProcessOK, EpisodeOK, VerdictOK
    <3> QED
      BY <1>7, <2>4, <2>5, <2>6, <3>2 DEF TypeOK, ProcessOK, EpisodeOK, ClockOK, WiresOK, VerdictOK
  <2>7. CASE Advance /\ verdict' = StepVerdict(a, wire, terminal')
    <3>1. EpisodeOK' /\ alive' \in {"up", "stopping", "down"}
      BY <1>3, <2>7, AdvanceEffect
    <3>2. ProcessOK'
      BY <1>3, <1>6, <3>1 DEF ProcessOK
    <3>3. verdict' \in Verdict /\ verdict'.wire = wire
      BY <1>2, <1>3, <1>5, <2>7, <3>1 DEF StepVerdict, Verdict, ClockOK, EpisodeOK
    <3> QED
      BY <1>2, <1>7, <2>4, <2>5, <3>1, <3>2, <3>3
         DEF TypeOK, ProcessOK, EpisodeOK, ClockOK, WiresOK, VerdictOK
  <2> QED
    BY <2>1, <2>6, <2>7 DEF StepOnce
<1> QED
  BY <1>5, <1>8, <1>9
-----------------------------------------------------------------------------
(* Everything else: commands, control keys, reloads, the end.              *)

\* A callback that is neither a pulse nor an observation.
OtherCallback ==
  \/ \E c \in Commands : CommandCallback(c)
  \/ \E s \in Pushes : LoadSpecCallback(s)
  \/ \E s \in Files : ActiveSkillCallback(s) \/ HeartbeatReload(s)
  \/ ResetKey \/ DoneKey \/ DoShutdown

\* The actions that are neither a pulse nor an observation, by name.
LEMMA NextCases == Next <=> Tick \/ Observation \/ OtherCallback
BY DEF Next, OtherCallback

\* What a reset and a built reload write is a well-typed episode.
LEMMA EpisodeRestarted ==
  ASSUME violated' = {}, stepIdx' = 0, phaseIdx' = -1, halted' = FALSE,
         runState' = "running", paused' \in BOOLEAN, terminal' \in Terminals \cup {None}
  PROVE  EpisodeOK'
<1>1. violated' \subseteq Sinks
  OBVIOUS
<1>2. runState' \in RunStates /\ halted' \in BOOLEAN
  BY DEF RunStates
<1>3. stepIdx' \in 0..2 /\ phaseIdx' \in Nat \cup {-1}
  OBVIOUS
<1> QED
  BY <1>1, <1>2, <1>3 DEF EpisodeOK

\* A reload, built or not, keeps the types (reload_specs).
LEMMA ReloadEffect ==
  ASSUME ProcessOK, EpisodeOK, NEW s \in Specs, ReloadSpecs(s)
  PROVE  EpisodeOK' /\ spec' \in Specs /\ autoSpec' \in Buildable
<1>1. CASE s \in Buildable
  <2>1. /\ spec' = s /\ autoSpec' = s /\ violated' = {} /\ stepIdx' = 0 /\ phaseIdx' = -1
        /\ halted' = FALSE /\ runState' = "running" /\ UNCHANGED <<paused, terminal>>
    BY <1>1 DEF ReloadSpecs
  <2>2. paused' \in BOOLEAN /\ terminal' \in Terminals \cup {None}
    BY <2>1 DEF EpisodeOK
  <2> QED
    BY <1>1, <2>1, <2>2, EpisodeRestarted
<1>2. CASE s \notin Buildable
  BY <1>2 DEF ReloadSpecs, EpisodeOK, ProcessOK
<1> QED
  BY <1>1, <1>2

\* A spec file that parses is reloaded, one that does not ends the process.
LEMMA LoadFileEffect ==
  ASSUME ProcessOK, EpisodeOK, NEW s \in Specs, LoadFile(s)
  PROVE  /\ EpisodeOK' /\ spec' \in Specs /\ autoSpec' \in Buildable
         /\ watched' \in BOOLEAN /\ alive' \in {"up", "stopping", "down"}
<1>1. CASE ReloadSpecs(s) /\ watched' = TRUE /\ UNCHANGED alive
  BY <1>1, ReloadEffect DEF ProcessOK
<1>2. CASE alive' = "down" /\ UNCHANGED <<spec, autoSpec, watched, episode>>
  BY <1>2 DEF ProcessOK, EpisodeOK, episode
<1> QED
  BY <1>1, <1>2 DEF LoadFile

\* A reset keeps the ledger's mark and epoch.
LEMMA ResetEffect ==
  ASSUME EpisodeOK, ledger \in Ledger, paused' \in BOOLEAN, ResetForNewSkill
  PROVE  EpisodeOK' /\ ledger' \in Ledger /\ ledger'.lastSeq = ledger.lastSeq
         /\ ledger'.epoch = ledger.epoch
<1>2. violated' = {} /\ stepIdx' = 0 /\ phaseIdx' = -1 /\ halted' = FALSE /\ terminal' = None
      /\ runState' = "running" /\ ledger' = ResetLedger(ledger)
  BY DEF ResetForNewSkill
<1>3. EpisodeOK'
  BY <1>2, EpisodeRestarted
<1> QED
  BY <1>2, <1>3 DEF ResetLedger, Ledger, Index

\* Commands, reloads and control keys keep the types, the clock and the mark.
LEMMA OtherEffect ==
  ASSUME TypeOK, OtherCallback
  PROVE  /\ TypeOK' /\ UNCHANGED <<clock, silence, parity, verdict>>
         /\ ledger'.lastSeq = ledger.lastSeq /\ ledger'.epoch = ledger.epoch
<1>1. ProcessOK /\ EpisodeOK /\ ClockOK /\ WiresOK /\ VerdictOK
  BY TypeSplit
<1>2. Pushes \subseteq Specs /\ Files \subseteq Specs
  BY MonitorAssumption
<1>3. ASSUME NEW c \in Commands, CommandCallback(c)
      PROVE  /\ EpisodeOK' /\ ledger' \in Ledger
             /\ UNCHANGED <<alive, process, clock, silence, parity, envelopeSeen,
                            readmitted, verdict>>
             /\ ledger'.lastSeq = ledger.lastSeq /\ ledger'.epoch = ledger.epoch
  <2>1. UNCHANGED <<alive, process, clock, silence, parity, envelopeSeen, readmitted, verdict>>
    BY <1>3 DEF CommandCallback
  <2>2. CASE Restart(c)
    BY <1>1, <2>1, <2>2, ResetEffect DEF Restart, WiresOK
  <2>3. CASE Pause(c) \/ Resume(c)
    BY <1>1, <2>1, <2>3 DEF Pause, Resume, EpisodeOK, WiresOK, RunStates
  <2> QED
    BY <1>3, <2>2, <2>3 DEF CommandCallback
<1>4. CASE \E c \in Commands : CommandCallback(c)
  BY <1>1, <1>3, <1>4, TypeSplit
     DEF TypeOK, ProcessOK, EpisodeOK, ClockOK, WiresOK, VerdictOK, process, clock, silence
<1>5. ASSUME NEW s \in Pushes, LoadSpecCallback(s)
      PROVE  TypeOK' /\ UNCHANGED <<clock, silence, wires, verdict>>
  <2>1. /\ UNCHANGED <<alive, label, clock, silence, wires, verdict>>
        /\ specStatus' = [ok |-> s \in Valid, spec |-> s]
    BY <1>5 DEF LoadSpecCallback
  <2>2. specStatus' \in [ok : BOOLEAN, spec : Specs]
    BY <1>2, <2>1
  <2>3. CASE s \in Valid
    <3>1. ReloadSpecs(s) /\ watched' = FALSE
      BY <1>5, <2>3 DEF LoadSpecCallback
    <3>2. EpisodeOK' /\ spec' \in Specs /\ autoSpec' \in Buildable
      BY <1>1, <1>2, <3>1, ReloadEffect
    <3> QED
      BY <1>1, <2>1, <2>2, <3>1, <3>2
         DEF TypeOK, ProcessOK, EpisodeOK, ClockOK, WiresOK, VerdictOK, clock, silence, wires
  <2>4. CASE s \notin Valid
    <3>1. UNCHANGED <<spec, autoSpec, watched, episode>>
      BY <1>5, <2>4 DEF LoadSpecCallback
    <3> QED
      BY <1>1, <2>1, <2>2, <3>1
         DEF TypeOK, ProcessOK, EpisodeOK, ClockOK, WiresOK, VerdictOK, clock, silence, wires, episode
  <2> QED
    BY <2>1, <2>3, <2>4
<1>6. ASSUME NEW s \in Files, ActiveSkillCallback(s) \/ HeartbeatReload(s)
      PROVE  TypeOK' /\ UNCHANGED <<clock, silence, wires, verdict>>
  <2>1. /\ UNCHANGED <<specStatus, clock, silence, wires, verdict>>
        /\ label' \in Specs \cup {None}
        /\ LoadFile(s)
    BY <1>1, <1>2, <1>6 DEF ActiveSkillCallback, HeartbeatReload, ProcessOK
  <2>2. /\ EpisodeOK' /\ spec' \in Specs /\ autoSpec' \in Buildable
        /\ watched' \in BOOLEAN /\ alive' \in {"up", "stopping", "down"}
    BY <1>1, <1>2, <2>1, LoadFileEffect
  <2> QED
    BY <1>1, <2>1, <2>2
       DEF TypeOK, ProcessOK, EpisodeOK, ClockOK, WiresOK, VerdictOK, clock, silence, wires
<1>7. CASE ResetKey
  <2>1. /\ UNCHANGED <<alive, process, paused, clock, silence, parity, envelopeSeen,
                       readmitted, verdict>>
        /\ ResetForNewSkill
    BY <1>7 DEF ResetKey
  <2>2. paused' \in BOOLEAN
    BY <1>1, <2>1 DEF EpisodeOK
  <2>3. EpisodeOK' /\ ledger' \in Ledger /\ ledger'.lastSeq = ledger.lastSeq
        /\ ledger'.epoch = ledger.epoch
    BY <1>1, <2>1, <2>2, ResetEffect DEF WiresOK
  <2> QED
    BY <1>1, <2>1, <2>3
       DEF TypeOK, ProcessOK, EpisodeOK, ClockOK, WiresOK, VerdictOK, process, clock, silence
<1>8. CASE DoneKey \/ DoShutdown
  <2>1. alive' = "down" /\ UNCHANGED <<process, episode, clock, silence, wires, verdict>>
    BY <1>8 DEF DoneKey, DoShutdown
  <2> QED
    BY <1>1, <2>1
       DEF TypeOK, ProcessOK, EpisodeOK, ClockOK, WiresOK, VerdictOK, process, episode,
           clock, silence, wires
<1> QED
  BY <1>3, <1>4, <1>5, <1>6, <1>7, <1>8 DEF OtherCallback, wires
-----------------------------------------------------------------------------
(* Types and silence.                                                      *)

\* Before the first pulse no window is open.
LEMMA SilenceInit == Init => SilenceInv
BY MonitorAssumption DEF Init, SilenceInv, StallNeverMissed

\* A pulse keeps the types and the window's account of the silence.
LEMMA PulseStep ==
  ASSUME TypeOK, SilenceInv, Tick
  PROVE  /\ TypeOK' /\ SilenceInv'
         /\ verdict' # verdict => verdict'.wire = "clock" /\ verdict'.missed = quiet'
         /\ ~DeliberatelySilent =>
              (readmitted' <=> readmitted \/ (envelopeSeen /\ quiet' >= ReadmitTicks))
<1>1. ProcessOK /\ EpisodeOK /\ ClockOK /\ WiresOK /\ VerdictOK
  BY TypeSplit
<1>2. PICK seq \in Nat, run \in Nat :
        /\ TickCallback(seq, run)
        /\ run = clockEpoch => clockSeq # None /\ seq > clockSeq
  BY <1>1, TickCases
<1>3. /\ ClockOK' /\ VerdictOK' /\ readmitted' \in BOOLEAN /\ SilenceInv'
      /\ verdict' # verdict => verdict'.wire = "clock" /\ verdict'.missed = quiet'
      /\ ~DeliberatelySilent =>
           (readmitted' <=> readmitted \/ (envelopeSeen /\ quiet' >= ReadmitTicks))
  BY <1>1, <1>2, PulseEffect DEF WiresOK
<1>4. UNCHANGED <<alive, process, episode, ledger, parity, envelopeSeen>>
  BY <1>2 DEF TickCallback
<1> QED
  BY <1>1, <1>3, <1>4
     DEF TypeOK, ProcessOK, EpisodeOK, ClockOK, WiresOK, VerdictOK, process, episode

\* No step breaks the types or the window's account of the silence.
LEMMA InvStep == TypeOK /\ SilenceInv /\ [Next]_vars => TypeOK' /\ SilenceInv'
<1> SUFFICES ASSUME TypeOK, SilenceInv, [Next]_vars PROVE TypeOK' /\ SilenceInv'
  OBVIOUS
<1>1. CASE Tick
  BY <1>1, PulseStep
<1>2. CASE Observation
  BY <1>2, ObservationEffect
<1>3. CASE OtherCallback
  BY <1>3, OtherEffect DEF SilenceInv, StallNeverMissed, clock, silence
<1>4. CASE UNCHANGED vars
  BY <1>4 DEF vars, TypeOK, SilenceInv, StallNeverMissed, process, episode
<1> QED
  BY <1>1, <1>2, <1>3, <1>4, NextCases

\* Every variable keeps its type, whatever callbacks interleave.
THEOREM TypeCorrect == Spec => []TypeOK
BY TypeInit, SilenceInit, InvStep, PTL DEF Spec

\* The window and the ticks gone by agree in every reachable state.
LEMMA SilenceCorrect == Spec => []SilenceInv
BY TypeInit, SilenceInit, InvStep, PTL DEF Spec

\* A watching monitor that lets StallTicks ticks of a clock run pass without a
\* step has announced it by the pulse of the last one, however commands, lost
\* pulses, refusals and clock restarts fall in between
\* (_watch_for_stepping_silence, _begin_silence_window).
THEOREM StallAnnounced == Spec => []StallNeverMissed
<1>1. SilenceInv => StallNeverMissed
  BY DEF SilenceInv
<1> QED
  BY <1>1, SilenceCorrect, PTL

\* Only a pulse publishes a stall verdict, and with the count of its window.
LEMMA StallCountStep ==
  TypeOK /\ SilenceInv /\ [Next]_vars =>
    (verdict' # verdict /\ verdict'.wire = "clock" => verdict'.missed = quiet')
<1> SUFFICES ASSUME TypeOK, SilenceInv, [Next]_vars,
                    verdict' # verdict, verdict'.wire = "clock"
             PROVE  verdict'.missed = quiet'
  OBVIOUS
<1>1. CASE Tick
  BY <1>1, PulseStep
<1>2. CASE Observation
  BY <1>2, ObservationEffect
<1>3. CASE OtherCallback
  BY <1>3, OtherEffect
<1>4. CASE UNCHANGED vars
  BY <1>4 DEF vars
<1> QED
  BY <1>1, <1>2, <1>3, <1>4, NextCases

\* The count a stall verdict carries is the number of ticks of the current
\* clock run that passed unstepped while the monitor was watching.
THEOREM StallCountCorrect == Spec => StallCountIsHonest
<1>1. TypeOK /\ SilenceInv /\ [Next]_vars =>
        [verdict' # verdict /\ verdict'.wire = "clock" => verdict'.missed = quiet']_vars
  BY StallCountStep
<1> QED
  BY <1>1, TypeCorrect, SilenceCorrect, PTL DEF Spec, StallCountIsHonest

\* Only a pulse moves the clock, and with it the ticks gone by.
LEMMA ReadmitStep ==
  TypeOK /\ SilenceInv /\ [Next]_vars =>
    (<<clockSeq, clockEpoch>>' # <<clockSeq, clockEpoch>> /\ ~DeliberatelySilent =>
       (readmitted' <=> readmitted \/ (envelopeSeen /\ quiet' >= ReadmitTicks)))
<1> SUFFICES ASSUME TypeOK, SilenceInv, [Next]_vars,
                    <<clockSeq, clockEpoch>>' # <<clockSeq, clockEpoch>>, ~DeliberatelySilent
             PROVE  readmitted' <=> readmitted \/ (envelopeSeen /\ quiet' >= ReadmitTicks)
  OBVIOUS
<1>1. CASE Tick
  BY <1>1, PulseStep
<1>2. CASE Observation
  BY <1>2 DEF Observation, OnObservation, clock
<1>3. CASE OtherCallback
  BY <1>3, OtherEffect DEF clock
<1>4. CASE UNCHANGED vars
  BY <1>4 DEF vars
<1> QED
  BY <1>1, <1>2, <1>3, <1>4, NextCases

\* The demoted legacy wire may step again from the pulse on by which ReadmitTicks
\* ticks of the clock's run have passed unstepped, and from no other
\* (_watch_for_stepping_silence).
THEOREM LegacyReadmission == Spec => LegacyReadmittedOnTime
<1>1. TypeOK /\ SilenceInv /\ [Next]_vars =>
        [<<clockSeq, clockEpoch>>' # <<clockSeq, clockEpoch>> /\ ~DeliberatelySilent =>
           (readmitted' <=> readmitted \/ (envelopeSeen /\ quiet' >= ReadmitTicks))]_vars
  BY ReadmitStep
<1> QED
  BY <1>1, TypeCorrect, SilenceCorrect, PTL DEF Spec, LegacyReadmittedOnTime

-----------------------------------------------------------------------------
(* Episodes and specs.                                                     *)

\* No step of a silent monitor publishes a verdict or moves the mark.
LEMMA QuietStep ==
  TypeOK /\ SilenceInv /\ [Next]_vars =>
    (DeliberatelySilent => UNCHANGED <<verdict, ledger.lastSeq>>)
<1> SUFFICES ASSUME TypeOK, SilenceInv, [Next]_vars, DeliberatelySilent
             PROVE  UNCHANGED <<verdict, ledger.lastSeq>>
  OBVIOUS
<1>1. CASE Tick
  <2>1. PICK seq \in Nat, run \in Nat : TickCallback(seq, run)
    BY <1>1, TickCases, TypeSplit
  <2> QED
    BY <2>1 DEF TickCallback, PulseInSilence, PulseWhileWatching
<1>2. CASE Observation
  BY <1>2 DEF Observation, OnObservation, IgnoresObservations
<1>3. CASE OtherCallback
  BY <1>3, OtherEffect
<1>4. CASE UNCHANGED vars
  BY <1>4 DEF vars
<1> QED
  BY <1>1, <1>2, <1>3, <1>4, NextCases

\* Paused, halted or idle, the monitor publishes no verdict and admits no tick,
\* whatever pulse, wire or command comes next.
THEOREM SilenceIsQuiet == Spec => DeliberateSilenceQuiet
<1>1. TypeOK /\ SilenceInv /\ [Next]_vars =>
        [DeliberatelySilent => UNCHANGED <<verdict, ledger.lastSeq>>]_vars
  BY QuietStep
<1> QED
  BY <1>1, TypeCorrect, SilenceCorrect, PTL DEF Spec, DeliberateSilenceQuiet

\* What the episode's end, the phase index and the published run state may be.
EpisodeInv == RunEndsWithItsVerdict /\ PhaseIndexInSpec /\ SilentStatesAreSilent

\* A monitor that starts is running, with no phase and no verdict.
LEMMA EpisodeInit == Init => EpisodeInv
<1> SUFFICES ASSUME Init PROVE EpisodeInv
  OBVIOUS
<1>1. FirstSpec \in Specs /\ Phases[FirstSpec] \in Nat
  BY MonitorAssumption
<1>2. PhaseIndexInSpec
  BY <1>1 DEF Init, PhaseIndexInSpec, PhaseOutOfRange
<1>3. RunEndsWithItsVerdict /\ SilentStatesAreSilent
  BY DEF Init, RunEndsWithItsVerdict, SilentStatesAreSilent
<1> QED
  BY <1>2, <1>3 DEF EpisodeInv

\* However a tick ends, a halted run has a terminal state and a phase in range.
LEMMA AdvanceEpisode ==
  ASSUME TypeOK, EpisodeInv, Advance, UNCHANGED spec, ~halted, ~paused, ~PhaseOutOfRange
  PROVE  /\ halted' => terminal' # None
         /\ PhaseIndexInSpec' /\ SilentStatesAreSilent'
<1>1. spec \in Specs /\ Phases[spec] \in Nat /\ phaseIdx \in Nat \cup {-1}
  BY MonitorAssumption DEF TypeOK
<1>2. phaseIdx' \in PhaseMoves(phaseIdx, Phases[spec]) /\ paused' = paused
  BY DEF Advance
<1>3. PhaseIndexInSpec'
  <2>1. CASE Phases[spec] = 0
    BY <1>1, <2>1 DEF PhaseIndexInSpec, PhaseOutOfRange
  <2>2. CASE Phases[spec] > 0
    <3>1. phaseIdx < Phases[spec]
      BY <1>1, <2>2 DEF PhaseOutOfRange
    <3>2. phaseIdx' < Phases[spec] /\ phaseIdx' \in Nat \cup {-1}
      BY <1>1, <1>2, <2>2, <3>1, PhaseMovesType
    <3> QED
      BY <1>1, <3>2 DEF PhaseIndexInSpec, PhaseOutOfRange
  <2> QED
    BY <1>1, <2>1, <2>2
<1>4. \/ halted' = TRUE /\ runState' \in {"idle", "halted"} /\ terminal' \in Terminals
      \/ UNCHANGED <<halted, runState>>
  BY DEF Advance, FaultEndsRun, ProgressEndsRun, ViolationEndsProcess, TerminalObservation,
         RunGoesOn, Halt, EnterIdle, Terminals
<1>5. halted' => terminal' # None
  BY <1>4, NoneIsNoOutcome DEF TypeOK
<1>6. SilentStatesAreSilent'
  <2>1. SilentStatesAreSilent
    BY DEF EpisodeInv
  <2> QED
    BY <1>2, <1>4, <2>1 DEF SilentStatesAreSilent
<1> QED
  BY <1>3, <1>5, <1>6

\* The verdict of a step is one, and not a stall's.
LEMMA StepVerdictType ==
  ASSUME TypeOK, NEW wire \in Wires, NEW tick \in 1..MaxSeq,
         NEW t \in Terminals \cup {None}
  PROVE  /\ StepVerdict(AdmitFrom(wire, tick), wire, t) \in Verdict
         /\ StepVerdict(AdmitFrom(wire, tick), wire, t) # None
<1>1. wire \in {"observation", "legacy"} /\ tick \in Nat
  BY MonitorAssumption
<1>2. (IF wire = "observation" THEN tick ELSE None) \in Index
  BY <1>1 DEF Index
<1>3. AdmitFrom(wire, tick) \in Admission
  BY <1>2, AdmissionFacts DEF AdmitFrom, TypeOK
<1>4. StepVerdict(AdmitFrom(wire, tick), wire, t) \in Verdict
  BY <1>1, <1>3 DEF Admission, StepVerdict, Verdict, TypeOK
<1> QED
  BY <1>4, NoneIsNoOutcome

\* An observation ends a run with its verdict, or leaves it going.
LEMMA ObservationEpisode ==
  ASSUME TypeOK, EpisodeInv, Observation
  PROVE  EpisodeInv'
<1>1. PICK wire \in Wires, tick \in 1..MaxSeq : OnObservation(wire, tick)
  BY DEF Observation
<1> DEFINE a == AdmitFrom(wire, tick)
<1>2. ~halted /\ ~paused /\ UNCHANGED spec
  BY <1>1 DEF OnObservation, IgnoresObservations, DeliberatelySilent, process
<1>3. \/ StepOnce(a, wire)
      \/ UNCHANGED <<alive, episode, silence, verdict>>
  BY <1>1 DEF OnObservation
<1> HIDE DEF a
<1>4. CASE UNCHANGED <<alive, episode, silence, verdict>>
  BY <1>2, <1>4 DEF EpisodeInv, RunEndsWithItsVerdict, PhaseIndexInSpec, PhaseOutOfRange,
                    SilentStatesAreSilent, episode
<1>5. CASE PhaseOutOfRange /\ UNCHANGED <<runState, paused, halted, terminal, stepIdx,
                                          phaseIdx, verdict>>
  BY <1>2, <1>5 DEF EpisodeInv, RunEndsWithItsVerdict, PhaseIndexInSpec, PhaseOutOfRange,
                    SilentStatesAreSilent
<1>6. CASE ~PhaseOutOfRange /\ Advance /\ verdict' = StepVerdict(a, wire, terminal')
  <2>1. (halted' => terminal' # None) /\ PhaseIndexInSpec' /\ SilentStatesAreSilent'
    BY <1>2, <1>6, AdvanceEpisode
  <2>2. verdict'.wire = wire /\ verdict'.terminal = terminal' /\ wire # "clock"
    BY <1>6, MonitorAssumption DEF StepVerdict
  <2>3. verdict' # None
    <3>1. terminal' \in Terminals \cup {None}
      BY <1>6, AdvanceEffect, TypeSplit DEF EpisodeOK
    <3> QED
      BY <1>6, <3>1, StepVerdictType DEF a
  <2> QED
    BY <2>1, <2>2, <2>3 DEF EpisodeInv, RunEndsWithItsVerdict
<1> QED
  BY <1>3, <1>4, <1>5, <1>6 DEF StepOnce

\* No step breaks the account of the episode.
LEMMA EpisodeStep == TypeOK /\ SilenceInv /\ EpisodeInv /\ [Next]_vars => EpisodeInv'
<1> SUFFICES ASSUME TypeOK, SilenceInv, EpisodeInv, [Next]_vars PROVE EpisodeInv'
  OBVIOUS
<1> USE DEF EpisodeInv
<1>1. CASE Tick
  <2>1. PICK seq \in Nat, run \in Nat : TickCallback(seq, run)
    BY <1>1, TickCases, TypeSplit
  <2>2. UNCHANGED <<process, episode>> /\ (halted => UNCHANGED verdict)
    BY <2>1 DEF TickCallback, PulseInSilence, PulseWhileWatching, DeliberatelySilent
  <2> QED
    BY <2>2 DEF RunEndsWithItsVerdict, PhaseIndexInSpec, PhaseOutOfRange,
                SilentStatesAreSilent, process, episode
<1>2. CASE Observation
  BY <1>2, ObservationEpisode
<1>3. ASSUME NEW s \in Specs, ReloadSpecs(s), UNCHANGED verdict PROVE EpisodeInv'
  <2>1. CASE s \in Buildable
    <3>1. spec' = s /\ phaseIdx' = -1 /\ halted' = FALSE /\ runState' = "running"
      BY <1>3, <2>1 DEF ReloadSpecs
    <3>2. Phases[s] \in Nat
      BY MonitorAssumption
    <3>3. PhaseIndexInSpec'
      BY <3>1, <3>2 DEF PhaseIndexInSpec, PhaseOutOfRange
    <3> QED
      BY <3>1, <3>3 DEF RunEndsWithItsVerdict, SilentStatesAreSilent
  <2>2. CASE s \notin Buildable
    <3>1. spec' = s /\ UNCHANGED <<runState, paused, halted, terminal, phaseIdx>>
      BY <1>3, <2>2 DEF ReloadSpecs
    <3> QED
      BY <1>3, <2>2, <3>1
         DEF RunEndsWithItsVerdict, PhaseIndexInSpec, SilentStatesAreSilent
  <2> QED
    BY <2>1, <2>2
<1>4. ASSUME UNCHANGED <<spec, episode, verdict>> PROVE EpisodeInv'
  BY <1>4 DEF RunEndsWithItsVerdict, PhaseIndexInSpec, PhaseOutOfRange,
              SilentStatesAreSilent, episode
<1>5. ASSUME ResetForNewSkill, UNCHANGED spec PROVE EpisodeInv'
  <2>1. phaseIdx' = -1 /\ halted' = FALSE /\ runState' = "running" /\ spec' = spec
    BY <1>5 DEF ResetForNewSkill
  <2>2. Phases[spec] \in Nat
    BY MonitorAssumption DEF TypeOK
  <2> QED
    BY <2>1, <2>2 DEF RunEndsWithItsVerdict, PhaseIndexInSpec, PhaseOutOfRange,
                      SilentStatesAreSilent
<1>6. CASE \E c \in Commands : CommandCallback(c)
  <2>1. PICK c \in Commands : CommandCallback(c)
    BY <1>6
  <2>2. UNCHANGED <<process, verdict>>
    BY <2>1 DEF CommandCallback
  <2>3. CASE Restart(c)
    BY <1>5, <2>2, <2>3 DEF Restart, process
  <2>4. CASE Pause(c) \/ Resume(c)
    BY <2>2, <2>4 DEF Pause, Resume, process, RunEndsWithItsVerdict, PhaseIndexInSpec,
                      PhaseOutOfRange, SilentStatesAreSilent
  <2> QED
    BY <2>1, <2>3, <2>4 DEF CommandCallback
<1>7. CASE \E s \in Pushes : LoadSpecCallback(s)
  BY <1>3, <1>4, <1>7, MonitorAssumption DEF LoadSpecCallback
<1>8. CASE \E s \in Files : ActiveSkillCallback(s) \/ HeartbeatReload(s)
  BY <1>3, <1>4, <1>8, MonitorAssumption DEF ActiveSkillCallback, HeartbeatReload, LoadFile
<1>9. CASE ResetKey
  BY <1>5, <1>9 DEF ResetKey, process
<1>10. CASE DoneKey \/ DoShutdown
  BY <1>4, <1>10 DEF DoneKey, DoShutdown, process
<1>11. CASE UNCHANGED vars
  BY <1>4, <1>11 DEF vars, episode
<1> QED
  BY <1>1, <1>2, <1>6, <1>7, <1>8, <1>9, <1>10, <1>11 DEF Next

\* The account of the episode holds in every reachable state.
LEMMA EpisodeCorrect == Spec => []EpisodeInv
BY TypeCorrect, SilenceCorrect, EpisodeInit, EpisodeStep, PTL DEF Spec

\* While the monitor is halted or idle the last frame on the wire is the
\* verdict of the tick that ended the run, and it names the terminal state.
THEOREM RunEndsWithVerdict == Spec => []RunEndsWithItsVerdict
<1>1. EpisodeInv => RunEndsWithItsVerdict
  BY DEF EpisodeInv
<1> QED
  BY <1>1, EpisodeCorrect, PTL

\* No history of reloads leaves a spec that was built with a phase index it
\* does not have: phases[idx] of _update_phase_state is in range.
THEOREM PhaseIndexValid == Spec => []PhaseIndexInSpec
<1>1. EpisodeInv => PhaseIndexInSpec
  BY DEF EpisodeInv
<1> QED
  BY <1>1, EpisodeCorrect, PTL

\* paused, idle and halted are published only of a monitor that is silent.
THEOREM RunStateHonest == Spec => []SilentStatesAreSilent
<1>1. EpisodeInv => SilentStatesAreSilent
  BY DEF EpisodeInv
<1> QED
  BY <1>1, EpisodeCorrect, PTL

-----------------------------------------------------------------------------
(* One step per tick.                                                      *)

\* The ledger follows a run of the clock the monitor has heard of.
RunOrder == ledger.epoch # None => clockEpoch # None /\ ledger.epoch <= clockEpoch

StepperVars == <<ledger.epoch, ledger.lastSeq, parity>>

\* What an observation does to the ledger is a step of OneStepPerTick, or none.
LEMMA ObservationRefines ==
  ASSUME TypeOK, RunOrder, Observation
  PROVE  RunOrder' /\ [Stepper!Next]_StepperVars
<1>1. PICK wire \in Wires, tick \in 1..MaxSeq : OnObservation(wire, tick)
  BY DEF Observation
<1> DEFINE seq == IF wire = "observation" THEN tick ELSE None
           a == Admit(ledger, seq, clockEpoch, clockSeq)
           fresh == NewEpoch(ledger, clockEpoch)
<1>2. /\ tick \in Nat /\ seq \in Index
      /\ wire = "observation" => seq = tick
      /\ wire # "observation" => seq = None
  BY MonitorAssumption DEF Index
<1>3. /\ clockEpoch \in Index /\ clockSeq \in Index /\ ledger \in Ledger
      /\ ledger.epoch \in Nat \cup {None} /\ ledger.lastSeq \in Nat \cup {None}
  BY DEF TypeOK, Ledger, Index
<1>4. a.step \in BOOLEAN /\ a.missed \in Nat
  <2> HIDE DEF seq
  <2>1. a \in Admission
    BY <1>2, <1>3, AdmissionFacts
  <2> QED
    BY <2>1 DEF Admission
<1>5. /\ ledger' = a.ledger /\ UNCHANGED clockEpoch
      /\ parity' = IF a.step /\ wire = "observation" THEN 1 - parity ELSE parity
  BY <1>1 DEF OnObservation, AdmitFrom, clock
<1>6. ledger'.epoch = IF clockEpoch = None THEN ledger.epoch ELSE clockEpoch
  <2> HIDE DEF seq
  <2>1. a.ledger.epoch = IF clockEpoch = None THEN ledger.epoch ELSE clockEpoch
    BY <1>2, <1>3, AdmissionFacts
  <2> QED
    BY <1>5, <2>1
<1>7. RunOrder'
  BY <1>3, <1>5, <1>6 DEF RunOrder, Index
<1>8. fresh => ledger.epoch # None /\ ledger'.epoch \in Nat /\ ledger'.epoch > ledger.epoch
  BY <1>3, <1>6, NoneAssumption DEF NewEpoch, RunOrder, Index
<1>9. ~fresh /\ ledger'.epoch # ledger.epoch => ledger.epoch = None /\ ledger'.epoch \in Nat
  BY <1>3, <1>6, NoneAssumption DEF NewEpoch, Index
<1>10. CASE a.step /\ wire = "observation"
  <2>1. /\ ledger'.lastSeq = tick
        /\ ~fresh /\ ledger.lastSeq # None => tick = ledger.lastSeq + 1 + a.missed
    <3>1. seq # None /\ seq = tick
      BY <1>2, <1>10, NoneAssumption
    <3> HIDE DEF seq
    <3>2. /\ a.ledger.lastSeq = seq
          /\ ~fresh /\ ledger.lastSeq # None => seq = ledger.lastSeq + 1 + a.missed
      BY <1>2, <1>3, <1>10, <3>1, AdmissionFacts
    <3> HIDE DEF a, fresh
    <3> QED
      BY <1>5, <3>1, <3>2
  <2>2. ledger'.lastSeq \in Nat /\ parity' = 1 - parity
    BY <1>2, <1>5, <1>10, <2>1
  <2>3. CASE fresh
    BY <1>7, <1>8, <2>2, <2>3 DEF Stepper!Next, Stepper!NewStream
  <2>4. CASE ~fresh
    <3>1. Stepper!Forward
      BY <1>2, <1>3, <1>4, <2>1, <2>2, <2>4 DEF Stepper!Forward
    <3> QED
      BY <1>7, <1>9, <2>4, <3>1 DEF Stepper!Next, Stepper!Step, Stepper!FirstStream
  <2> QED
    BY <2>3, <2>4
<1>11. CASE ~(a.step /\ wire = "observation")
  <2>1. ledger'.lastSeq = IF fresh THEN None ELSE ledger.lastSeq
    <3>1. seq = None \/ ~a.step
      BY <1>2, <1>11
    <3> HIDE DEF seq
    <3> QED
      BY <1>2, <1>3, <1>5, <3>1, AdmissionFacts
  <2>2. parity' = parity
    BY <1>5, <1>11
  <2>3. CASE fresh
    BY <1>7, <1>8, <2>1, <2>2, <2>3 DEF Stepper!Next, Stepper!NewStream
  <2>4. CASE ~fresh
    BY <1>7, <1>9, <2>1, <2>2, <2>4 DEF Stepper!Next, Stepper!FirstStream, StepperVars
  <2> QED
    BY <2>3, <2>4
<1> QED
  BY <1>7, <1>10, <1>11

\* Every step is a step of OneStepPerTick, or leaves its variables alone.
LEMMA StepRefines ==
  TypeOK /\ SilenceInv /\ RunOrder /\ [Next]_vars => RunOrder' /\ [Stepper!Next]_StepperVars
<1> SUFFICES ASSUME TypeOK, SilenceInv, RunOrder, [Next]_vars
             PROVE  RunOrder' /\ [Stepper!Next]_StepperVars
  OBVIOUS
<1>1. CASE Tick
  <2>1. PICK seq \in Nat, run \in Nat :
          TickCallback(seq, run) /\ (clockEpoch # None => clockEpoch <= run)
    BY <1>1, TickCases, TypeSplit
  <2>2. clockEpoch' = run /\ UNCHANGED <<ledger, parity>>
    BY <2>1 DEF TickCallback
  <2>3. run # None /\ ledger.epoch \in Nat \cup {None} /\ clockEpoch \in Nat \cup {None}
    BY NoneAssumption DEF TypeOK, Ledger, Index
  <2> QED
    BY <2>1, <2>2, <2>3 DEF RunOrder, StepperVars
<1>2. CASE Observation
  BY <1>2, ObservationRefines
<1>3. CASE OtherCallback
  <2>1. UNCHANGED <<clockEpoch, parity>> /\ ledger'.lastSeq = ledger.lastSeq
        /\ ledger'.epoch = ledger.epoch
    BY <1>3, OtherEffect DEF clock
  <2> QED
    BY <2>1 DEF RunOrder, StepperVars
<1>4. CASE UNCHANGED vars
  BY <1>4 DEF vars, RunOrder, StepperVars
<1> QED
  BY <1>1, <1>2, <1>3, <1>4, NextCases

\* Across both wires, commands, reloads and clock restarts the automata are
\* stepped for a numbered tick of a clock run at most once, and forwards.
THEOREM MonitorImplementsOneStepPerTick == Spec => StepsEachTickOnce
<1>1. Init => Stepper!Init /\ RunOrder
  BY DEF Init, NewLedger, Stepper!Init, RunOrder
<1> QED
  BY <1>1, TypeCorrect, SilenceCorrect, StepRefines, PTL
     DEF Spec, StepsEachTickOnce, Stepper!Spec, StepperVars
=============================================================================
