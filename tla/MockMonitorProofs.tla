------------------------- MODULE MockMonitorProofs -------------------------
(***************************************************************************)
(* What the mock shows its clients, for any pages, handlers, specs and     *)
(* propositions: a page that is listening has heard the latched frames, a  *)
(* mode that was found violated stays so, a step is one of the episode.    *)
(***************************************************************************)
EXTENDS MockMonitor, TLAPS

\* What a handler is in the middle of, by what its record must hold.
Setting  == {"rewind", "forget", "set", "enter", "flag", "announce"}
Loading  == {"adopt", "restep", "recompile", "reinit", "report"}
Speaking == {"emit", "call"}

Modes == [paused : BOOLEAN, state : {"running", "paused"},
          reason : {"started", "command", "arm", "reset"}]

\* What may be latched, what may be owed to a page, and what a handler holds.
Frames == [state : {"running", "paused"}, reason : {"started", "command", "arm", "reset"}]
            \cup {SpecStatus(s) : s \in Specs}
Owed   == UNION {[T -> Frames] : T \in SUBSET Topics}
Doing  == [at : {"free"} \cup Setting \cup Loading \cup Speaking, spec : Specs \cup {None},
           state  : {"running", "paused", None}, reason : {"command", "arm", "reset", None},
           topic  : Topics \cup {None}, text : Frames \cup {None}, rest : Seq(Pages)]

OpsOK ==
  /\ op \in [Operators -> Doing]
  /\ \A o \in Operators :
       /\ op[o].at \in Setting => /\ op[o].state \in {"running", "paused"}
                                  /\ op[o].reason \in {"command", "arm", "reset"}
       /\ op[o].at \in Loading => op[o].spec \in Specs
       /\ op[o].at \in Speaking => op[o].topic \in Topics

PagesOK ==
  /\ subs \in Seq(Pages) /\ IsInjective(subs)
  /\ latched \in [Topics -> Frames]
  /\ page \in [Pages -> [owed : Owed, heard : SUBSET Topics]]

RunOK ==
  /\ run = [at |-> run.at, step |-> run.step, values |-> run.values, graphs |-> run.graphs,
            states |-> run.states, todo |-> run.todo]
  /\ run.at \in {"wait", "count", "pulse", "look", "put", "end", "restart"}
  /\ run.step \in Nat

Typed ==
  /\ seq \in Nat /\ step \in Nat /\ mode \in Modes /\ spec \in Specs
  /\ OpsOK /\ PagesOK /\ RunOK
-----------------------------------------------------------------------------
(* Sequences and functions.                                                *)

\* list.remove on a list without duplicates: the element is gone, the rest is
\* as it was.
LEMMA RemoveOnce ==
  ASSUME NEW S, NEW s \in Seq(S), IsInjective(s), NEW e
  PROVE  /\ RemoveFirst(s, e) \in Seq(S) /\ IsInjective(RemoveFirst(s, e))
         /\ Range(RemoveFirst(s, e)) = Range(s) \ {e}
<1>1. CASE ~\E i \in 1..Len(s) : s[i] = e
  BY <1>1 DEF RemoveFirst, Range
<1>2. CASE \E i \in 1..Len(s) : s[i] = e
  <2>1. PICK i \in 1..Len(s) : s[i] = e
    BY <1>2
  <2>2. {j \in 1..Len(s) : s[j] = e} = {i}
    BY <2>1 DEF IsInjective
  <2>3. Min({i}) = i
    BY <2>1 DEF Min
  <2>4. SelectInSeq(s, LAMBDA v : v = e) = i
    BY <2>2, <2>3 DEF SelectInSeq
  <2>5. RemoveFirst(s, e) = RemoveAt(s, i)
    BY <1>2, <2>4 DEF RemoveFirst
  <2> DEFINE r == RemoveAt(s, i)
             n == Len(s)
  <2>6. /\ r \in Seq(S) /\ Len(r) = n - 1 /\ n \in Nat
        /\ \A j \in 1..n - 1 : r[j] = IF j < i THEN s[j] ELSE s[j + 1]
    <3> DEFINE before == SubSeq(s, 1, i - 1)
               after  == SubSeq(s, i + 1, n)
    <3>1. n \in Nat /\ i \in 1..n
      BY <2>1
    <3>2. /\ before \in Seq(S) /\ Len(before) = i - 1
          /\ \A j \in 1..i - 1 : before[j] = s[j]
      BY <3>1
    <3>3. /\ after \in Seq(S) /\ Len(after) = n - i
          /\ \A j \in 1..n - i : after[j] = s[i + j]
      BY <3>1
    <3> HIDE DEF before, after, n
    <3>4. Len(before \o after) = n - 1 /\ before \o after \in Seq(S)
      <4>1. before \o after \in Seq(S) /\ Len(before \o after) = Len(before) + Len(after)
        <5>1. before \in Seq(S) /\ after \in Seq(S)
          BY <3>2, <3>3
        <5> QED
          BY <5>1
      <4>2. (i - 1) + (n - i) = n - 1
        BY <3>1
      <4> QED
        BY <4>1, <4>2, <3>2, <3>3
    <3>5. \A j \in 1..n - 1 : (before \o after)[j] = IF j < i THEN s[j] ELSE s[j + 1]
      <4> TAKE j \in 1..n - 1
      <4>1. CASE j < i
        BY <4>1, <3>1, <3>2, <3>3
      <4>2. CASE ~(j < i)
        <5> DEFINE k == j - (i - 1)
        <5>1. k \in 1..n - i /\ i + k = j + 1
          BY <4>2, <3>1
        <5>2. (before \o after)[j] = after[k]
          BY <4>2, <3>1, <3>2, <3>3
        <5> HIDE DEF k
        <5> QED
          BY <5>1, <5>2, <4>2, <3>3
      <4> QED
        BY <4>1, <4>2
    <3>6. r = before \o after
      BY DEF before, after, n, RemoveAt
    <3> QED
      BY <3>1, <3>4, <3>5, <3>6
  <2> HIDE DEF r
  <2>7. IsInjective(r)
    <3> SUFFICES ASSUME NEW j \in 1..n - 1, NEW k \in 1..n - 1, r[j] = r[k] PROVE j = k
      BY <2>6 DEF IsInjective
    <3> DEFINE from == IF j < i THEN j ELSE j + 1
               to   == IF k < i THEN k ELSE k + 1
    <3>1. from \in 1..n /\ to \in 1..n /\ (from = to => j = k)
      BY <2>1, <2>6
    <3>2. r[j] = s[from] /\ r[k] = s[to]
      BY <2>6
    <3>3. \A a, b \in 1..n : s[a] = s[b] => a = b
      BY DEF IsInjective
    <3> HIDE DEF from, to, n
    <3> QED
      BY <3>1, <3>2, <3>3
  <2>8. Range(r) \subseteq Range(s) \ {e}
    BY <2>1, <2>6 DEF IsInjective, Range
  <2>9. ASSUME NEW x \in Range(s) \ {e} PROVE x \in Range(r)
    <3>1. PICK j \in 1..n : s[j] = x /\ j # i
      BY <2>1, <2>9 DEF Range
    <3>2. CASE j < i
      BY <3>1, <3>2, <2>6, <2>1 DEF Range
    <3>3. CASE j > i
      <4>1. j - 1 \in 1..n - 1 /\ ~(j - 1 < i) /\ (j - 1) + 1 = j
        BY <3>1, <3>3, <2>1, <2>6
      <4>2. r[j - 1] = x
        BY <4>1, <3>1, <2>6
      <4> QED
        BY <4>1, <4>2, <2>6 DEF Range
    <3> QED
      BY <3>1, <3>2, <3>3, <2>1, <2>6
  <2> QED
    BY <2>5, <2>6, <2>7, <2>8, <2>9 DEF r
<1> QED
  BY <1>1, <1>2

LEMMA RangeOfAppend ==
  ASSUME NEW S, NEW s \in Seq(S), NEW e \in S
  PROVE  Range(Append(s, e)) = Range(s) \cup {e}
<1>1. Len(Append(s, e)) = Len(s) + 1 /\ Len(s) \in Nat
      /\ \A i \in 1..Len(s) : Append(s, e)[i] = s[i]
  OBVIOUS
<1>2. Append(s, e)[Len(s) + 1] = e
  OBVIOUS
<1>3. Append(s, e) \in Seq(S)
  OBVIOUS
<1> QED
  BY <1>1, <1>2, <1>3 DEF Range

LEMMA RangeOfTail ==
  ASSUME NEW S, NEW s \in Seq(S), s # <<>>
  PROVE  /\ Head(s) \in S /\ Tail(s) \in Seq(S)
         /\ Range(s) = {Head(s)} \cup Range(Tail(s))
<1>1. /\ Tail(s) \in Seq(S) /\ Len(Tail(s)) = Len(s) - 1 /\ Len(s) \in Nat \ {0}
      /\ \A i \in 1..Len(s) - 1 : Tail(s)[i] = s[i + 1]
      /\ Head(s) = s[1] /\ Head(s) \in S
  OBVIOUS
<1>2. Range(Tail(s)) \subseteq Range(s)
  BY <1>1 DEF Range
<1>3. ASSUME NEW x \in Range(s), x # Head(s) PROVE x \in Range(Tail(s))
  <2>1. PICK i \in 1..Len(s) : s[i] = x
    BY <1>3 DEF Range
  <2> DEFINE k == i - 1
  <2>2. k \in 1..Len(s) - 1 /\ k + 1 = i
    BY <2>1, <1>1, <1>3
  <2> HIDE DEF k
  <2>3. Tail(s)[k] = s[k + 1]
    BY <2>2, <1>1
  <2> QED
    <3>1. DOMAIN Tail(s) = 1..Len(s) - 1
      BY <1>1
    <3>2. k \in DOMAIN Tail(s) /\ Tail(s)[k] = x
      BY <3>1, <2>1, <2>2, <2>3
    <3> QED
      BY <3>2 DEF Range
<1> QED
  BY <1>1, <1>2, <1>3 DEF Range

LEMMA NothingOwed == <<>> \in Owed /\ DOMAIN <<>> = {}
<1>1. <<>> \in [{} -> Frames]
  OBVIOUS
<1> QED
  BY <1>1 DEF Owed
-----------------------------------------------------------------------------
(* The types.                                                              *)

LEMMA TypeInit == Init => Typed
<1> SUFFICES ASSUME Init PROVE Typed
  OBVIOUS
<1>1. <<>> \in Seq(Pages) /\ IsInjective(<<>>)
  BY DEF IsInjective
<1>2. PagesOK
  <2>1. latched \in [Topics -> Frames]
    BY MockMonitorAssumption DEF Init, Topics, Frames, StatusPayload
  <2> QED
    BY <1>1, <2>1, NothingOwed DEF Init, PagesOK
<1>3. OpsOK
  <2>1. Free \in Doing
    BY <1>1 DEF Free, Doing
  <2> QED
    BY <2>1 DEF Init, OpsOK, Free, Setting, Loading, Speaking
<1>4. RunOK
  BY DEF Init, RunOK, Waiting
<1> QED
  BY <1>2, <1>3, <1>4, MockMonitorAssumption DEF Init, Typed, Modes

\* A handler that goes on to another kind of place has what that place needs.
LEMMA DoesOther ==
  ASSUME OpsOK, NEW o \in Operators, NEW d \in Doing, op' = [op EXCEPT ![o] = d],
         d.at \in Setting => /\ d.state \in {"running", "paused"}
                             /\ d.reason \in {"command", "arm", "reset"},
         d.at \in Loading => d.spec \in Specs,
         d.at \in Speaking => d.topic \in Topics
  PROVE  OpsOK' /\ op'[o] = d /\ \A x \in Operators \ {o} : op'[x] = op[x]
BY DEF OpsOK

LEMMA GoesOn ==
  ASSUME OpsOK, NEW o \in Operators, NEW place, Goes(o, place),
         \/ op[o].at \in Setting /\ place \in Setting
         \/ op[o].at \in Loading /\ place \in Loading
  PROVE  /\ OpsOK' /\ op'[o].at = place /\ op'[o].rest = op[o].rest
         /\ op'[o].spec = op[o].spec
         /\ \A x \in Operators \ {o} : op'[x] = op[x]
<1> DEFINE d == [op[o] EXCEPT !.at = place]
<1>1. op[o] \in Doing
  BY DEF OpsOK
<1>2. /\ d \in Doing /\ d.at = place /\ d.rest = op[o].rest /\ d.spec = op[o].spec
      /\ d.state = op[o].state /\ d.reason = op[o].reason
  BY <1>1 DEF Doing
<1>3. op' = [op EXCEPT ![o] = d]
  BY DEF Goes
<1> HIDE DEF d
<1>4. Setting \cap Loading = {} /\ (Setting \cup Loading) \cap Speaking = {}
  BY DEF Setting, Loading, Speaking
<1> QED
  BY <1>2, <1>3, <1>4, DoesOther DEF OpsOK

LEMMA FreeIsDoing == Free \in Doing /\ Free.at = "free"
<1>1. <<>> \in Seq(Pages)
  OBVIOUS
<1> QED
  BY <1>1 DEF Free, Doing

LEMMA RunTyped ==
  ASSUME Typed, Run PROVE Typed' /\ UNCHANGED <<op, spec, mode, automata, bus>>
<1>0. /\ seq \in Nat /\ step \in Nat /\ mode \in Modes /\ spec \in Specs /\ OpsOK /\ PagesOK
      /\ RunOK
  BY DEF Typed
<1>1. UNCHANGED <<op, spec, mode, automata, bus>>
  BY Zenon DEF Run, Wake, Count, Pulse, Look, Put, Publish, EndOfTick, NextEpisode, monitor
<1>6. seq' = seq \/ seq' = seq + 1
  BY DEF Run, Wake, Count, Pulse, Look, Put, Publish, EndOfTick, NextEpisode, monitor
<1>7. step' = step \/ step' = run.step + 1 \/ step' = 0
  BY DEF Run, Wake, Count, Pulse, Look, Put, Publish, EndOfTick, NextEpisode, monitor
<1>8. seq' \in Nat /\ step' \in Nat
  BY <1>0, <1>6, <1>7 DEF RunOK
<1>2. RunOK'
  <2>1. CASE Wake
    BY <1>0, <2>1 DEF Wake, RunOK
  <2>2. CASE Count
    BY <1>0, <2>2 DEF Count, RunOK
  <2>3. CASE Pulse
    <3>1. PICK v \in Values :
             run' = [run EXCEPT !.at = "look", !.values = v, !.graphs = automata,
                                !.todo = DOMAIN automata, !.step = 0]
      BY <2>3 DEF Pulse
    <3> QED
      BY <1>0, <3>1 DEF RunOK
  <2>4. CASE Look
    BY <1>0, <2>4 DEF Look, RunOK
  <2>5. CASE Put
    BY <1>0, <2>5 DEF Put, RunOK
  <2>6. CASE Publish \/ EndOfTick \/ NextEpisode
    BY <1>0, <2>6 DEF Publish, EndOfTick, NextEpisode, RunOK, Waiting
  <2> QED
    BY <2>1, <2>2, <2>3, <2>4, <2>5, <2>6 DEF Run
<1>3. OpsOK' /\ PagesOK'
  BY <1>0, <1>1 DEF OpsOK, PagesOK, bus
<1> QED
  BY <1>0, <1>1, <1>8, <1>2, <1>3 DEF Typed

\* Latching a frame leaves the pages pages.
LEMMA LatchTyped ==
  ASSUME PagesOK, NEW topic \in Topics, NEW frame \in Frames, Latch(topic, frame),
         UNCHANGED subs
  PROVE  /\ PagesOK' /\ latched'[topic] = frame
         /\ \A t \in Topics \ {topic} : latched'[t] = latched[t]
         /\ \A p \in Pages :
              /\ page'[p].owed = page[p].owed
              /\ page'[p].heard = IF latched[topic] = frame THEN page[p].heard
                                  ELSE page[p].heard \ {topic}
BY DEF PagesOK, Latch

\* The steps of a handler that say nothing, and do not touch what pages have.
Quiet(o) ==
  \/ Command(o) \/ Rewind(o) \/ Forget(o) \/ SetState(o) \/ Enter(o) \/ Flag(o)
  \/ LoadSpec(o) \/ Adopt(o) \/ Restep(o) \/ Recompile(o) \/ Reinit(o)

LEMMA QuietOps ==
  ASSUME Typed, NEW o \in Operators, Quiet(o)
  PROVE  /\ OpsOK' /\ UNCHANGED <<bus, run, seq>>
         /\ op[o].at \notin Speaking /\ op'[o].at \notin Speaking
         /\ \A x \in Operators \ {o} : op'[x] = op[x]
<1>0. OpsOK /\ op[o] \in Doing
  BY DEF Typed, OpsOK
<1>1. UNCHANGED <<bus, run, seq>>
  BY Zenon DEF Quiet, Command, Rewind, Forget, SetState, Enter, Flag, LoadSpec, Adopt, Restep,
               Recompile, Reinit, monitor
<1>2. CASE Command(o)
  <2>1. PICK c \in Commands :
           op' = [op EXCEPT ![o] =
                [@ EXCEPT !.at     = IF c \in {"arm", "reset"} THEN "rewind" ELSE "set",
                          !.state  = IF c = "pause" THEN "paused" ELSE "running",
                          !.reason = IF c \in {"arm", "reset"} THEN c ELSE "command"]]
    BY <1>2 DEF Command
  <2> DEFINE d == [op[o] EXCEPT
                          !.at     = IF c \in {"arm", "reset"} THEN "rewind" ELSE "set",
                          !.state  = IF c = "pause" THEN "paused" ELSE "running",
                          !.reason = IF c \in {"arm", "reset"} THEN c ELSE "command"]
  <2>2. /\ d \in Doing /\ d.at \in {"rewind", "set"} /\ d.state \in {"running", "paused"}
        /\ d.reason \in {"command", "arm", "reset"}
    BY <1>0 DEF Doing, Setting
  <2>3. op' = [op EXCEPT ![o] = d]
    BY <2>1
  <2> HIDE DEF d
  <2>4. d.at \in Setting \ (Loading \cup Speaking)
    BY <2>2 DEF Setting, Loading, Speaking
  <2>5. op[o].at = "free" /\ "free" \notin Speaking
    BY <1>2 DEF Command, Speaking
  <2> QED
    BY <1>0, <1>1, <2>2, <2>3, <2>4, <2>5, DoesOther
<1>3. CASE LoadSpec(o)
  <2>1. PICK s \in Specs :
           op' = [op EXCEPT ![o] = [@ EXCEPT !.spec = s,
                                         !.at = IF s.valid THEN "adopt" ELSE "report"]]
    BY <1>3 DEF LoadSpec
  <2> DEFINE d == [op[o] EXCEPT !.spec = s, !.at = IF s.valid THEN "adopt" ELSE "report"]
  <2>2. d \in Doing /\ d.at \in {"adopt", "report"} /\ d.spec \in Specs
    BY <1>0 DEF Doing, Loading
  <2>3. op' = [op EXCEPT ![o] = d]
    BY <2>1
  <2> HIDE DEF d
  <2>4. d.at \in Loading \ (Setting \cup Speaking)
    BY <2>2 DEF Setting, Loading, Speaking
  <2>5. op[o].at = "free" /\ "free" \notin Speaking
    BY <1>3 DEF LoadSpec, Speaking
  <2> QED
    BY <1>0, <1>1, <2>2, <2>3, <2>4, <2>5, DoesOther
<1>4. CASE SetState(o) /\ op' = [op EXCEPT ![o] = Free]
  <2>1. "free" \notin Setting \cup Loading \cup Speaking /\ op[o].at \notin Speaking
    BY <1>4 DEF Setting, Loading, Speaking, SetState
  <2> QED
    BY <1>0, <1>1, <1>4, <2>1, FreeIsDoing, DoesOther
<1>5. CASE \E place : Goes(o, place) /\ \/ op[o].at \in Setting /\ place \in Setting
                                        \/ op[o].at \in Loading /\ place \in Loading
  <2>1. PICK place : Goes(o, place) /\ \/ op[o].at \in Setting /\ place \in Setting
                                       \/ op[o].at \in Loading /\ place \in Loading
    BY <1>5
  <2>2. (Setting \cup Loading) \cap Speaking = {}
    BY DEF Setting, Loading, Speaking
  <2> QED
    BY <1>0, <1>1, <2>1, <2>2, GoesOn
<1>6. ASSUME \/ Rewind(o) \/ Forget(o) \/ Enter(o) \/ Flag(o)
             \/ SetState(o) /\ Goes(o, "enter")
      PROVE  \E place : Goes(o, place) /\ op[o].at \in Setting /\ place \in Setting
  BY <1>6 DEF Rewind, Forget, Enter, Flag, SetState, Setting
<1>7. ASSUME Adopt(o) \/ Restep(o) \/ Recompile(o) \/ Reinit(o)
      PROVE  \E place : Goes(o, place) /\ op[o].at \in Loading /\ place \in Loading
  BY <1>7 DEF Adopt, Restep, Recompile, Reinit, Loading
<1>8. SetState(o) => op' = [op EXCEPT ![o] = Free] \/ Goes(o, "enter")
  BY DEF SetState
<1> QED
  BY <1>2, <1>3, <1>4, <1>5, <1>6, <1>7, <1>8 DEF Quiet

LEMMA QuietTyped ==
  ASSUME Typed, NEW o \in Operators, Quiet(o) PROVE Typed'
<1>0. /\ seq \in Nat /\ step \in Nat /\ mode \in Modes /\ spec \in Specs /\ OpsOK /\ PagesOK
      /\ RunOK /\ op[o] \in Doing
  BY DEF Typed, OpsOK
<1>1. /\ OpsOK' /\ UNCHANGED <<bus, run, seq>>
  BY QuietOps
<1>2. step' \in Nat
  <2>1. step' = step \/ step' = 0
    BY Zenon DEF Quiet, Command, Rewind, Forget, SetState, Enter, Flag, LoadSpec, Adopt, Restep,
                 Recompile, Reinit, monitor
  <2> QED
    BY <1>0, <2>1
<1>3. spec' \in Specs
  <2>1. CASE Adopt(o)
    BY <1>0, <2>1 DEF Adopt, OpsOK, Loading
  <2>2. CASE ~Adopt(o)
    BY <1>0, <2>2 DEF Quiet, Command, Rewind, Forget, SetState, Enter, Flag, LoadSpec, Restep,
                      Recompile, Reinit, monitor
  <2> QED
    BY <2>1, <2>2
<1>4. mode' \in Modes
  <2>1. CASE Enter(o)
    <3>1. op[o].state \in {"running", "paused"} /\ op[o].reason \in {"command", "arm", "reset"}
      BY <1>0, <2>1 DEF Enter, OpsOK, Setting
    <3> QED
      BY <1>0, <2>1, <3>1 DEF Enter, Modes
  <2>2. CASE Flag(o)
    BY <1>0, <2>2 DEF Flag, Modes
  <2>3. CASE ~Enter(o) /\ ~Flag(o)
    BY <1>0, <2>3 DEF Quiet, Command, Rewind, Forget, SetState, LoadSpec, Adopt, Restep,
              Recompile, Reinit, monitor
  <2> QED
    BY <2>1, <2>2, <2>3
<1>5. PagesOK' /\ RunOK' /\ seq' \in Nat
  BY <1>0, <1>1 DEF PagesOK, RunOK, bus
<1> QED
  BY <1>1, <1>2, <1>3, <1>4, <1>5 DEF Typed

\* The steps that speak: they leave the monitor alone.
LEMMA AnnounceTyped ==
  ASSUME Typed, NEW o \in Operators, Announce(o) \/ Report(o)
  PROVE  /\ Typed' /\ UNCHANGED <<monitor, subs, run>> /\ op[o].at \notin Speaking
         /\ op'[o].at = "emit" /\ \A x \in Operators \ {o} : op'[x] = op[x]
         /\ op'[o].topic \in Topics
         /\ \E frame \in Frames :
              /\ Latch(op'[o].topic, frame)
              /\ op'[o].topic = "status" => op'[o].text = frame
<1>0. /\ seq \in Nat /\ step \in Nat /\ mode \in Modes /\ spec \in Specs /\ OpsOK /\ PagesOK
      /\ RunOK /\ op[o] \in Doing
  BY DEF Typed, OpsOK
<1>1. UNCHANGED <<monitor, subs, run>>
  BY DEF Announce, Report
<1>2. op[o].at \notin Speaking /\ "emit" \in Speaking \ (Setting \cup Loading)
  BY DEF Announce, Report, Setting, Loading, Speaking
<1>3. CASE Announce(o)
  <2> DEFINE frame == StatusPayload
             d == [Free EXCEPT !.at = "emit", !.topic = "status", !.text = frame]
  <2>1. frame \in Frames
    BY <1>0 DEF Modes, StatusPayload, Frames
  <2>2. d \in Doing /\ d.at = "emit" /\ d.topic = "status" /\ d.text = frame
    BY <2>1, FreeIsDoing DEF Free, Doing, Topics, Speaking
  <2>3. op' = [op EXCEPT ![o] = d] /\ Latch("status", frame) /\ "status" \in Topics
    BY <1>3 DEF Announce, Topics
  <2> HIDE DEF d, frame
  <2>4. OpsOK' /\ op'[o] = d /\ \A x \in Operators \ {o} : op'[x] = op[x]
    BY <1>0, <1>2, <2>2, <2>3, DoesOther
  <2>5. PagesOK'
    BY <1>0, <1>1, <2>1, <2>3, LatchTyped
  <2>6. Typed'
    BY <1>0, <1>1, <2>4, <2>5 DEF Typed, RunOK, monitor
  <2> QED
    BY <1>1, <1>2, <2>1, <2>2, <2>3, <2>4, <2>6
<1>4. CASE Report(o)
  <2> DEFINE frame == SpecStatus(op[o].spec)
             d == [Free EXCEPT !.at = "emit", !.topic = "spec_status"]
  <2>1. frame \in Frames
    BY <1>0, <1>4 DEF Report, OpsOK, Loading, Frames
  <2>2. d \in Doing /\ d.at = "emit" /\ d.topic = "spec_status"
    BY FreeIsDoing DEF Free, Doing, Topics, Speaking
  <2>3. op' = [op EXCEPT ![o] = d] /\ Latch("spec_status", frame) /\ "spec_status" \in Topics
        /\ "spec_status" # "status"
    BY <1>4 DEF Report, Topics
  <2> HIDE DEF d, frame
  <2>4. OpsOK' /\ op'[o] = d /\ \A x \in Operators \ {o} : op'[x] = op[x]
    BY <1>0, <1>2, <2>2, <2>3, DoesOther
  <2>5. PagesOK'
    BY <1>0, <1>1, <2>1, <2>3, LatchTyped
  <2>6. Typed'
    BY <1>0, <1>1, <2>4, <2>5 DEF Typed, RunOK, monitor
  <2> QED
    BY <1>1, <1>2, <2>1, <2>2, <2>3, <2>4, <2>6
<1> QED
  BY <1>3, <1>4

LEMMA EmitTyped ==
  ASSUME Typed, NEW o \in Operators, Emit(o)
  PROVE  /\ Typed' /\ UNCHANGED <<monitor, bus, run>>
         /\ op[o].at = "emit" /\ op'[o].at = "call" /\ op'[o].topic = op[o].topic
         /\ op'[o].rest = subs /\ \A x \in Operators \ {o} : op'[x] = op[x]
         /\ op'[o].text = IF op[o].topic = "status" THEN op[o].text ELSE latched.spec_status
<1>0. /\ seq \in Nat /\ step \in Nat /\ mode \in Modes /\ spec \in Specs /\ OpsOK /\ PagesOK
      /\ RunOK /\ op[o] \in Doing /\ subs \in Seq(Pages)
  BY DEF Typed, OpsOK, PagesOK
<1> DEFINE at == "call"
           topic == op[o].topic
           text == IF op[o].topic = "status" THEN op[o].text ELSE latched.spec_status
           d == [Free EXCEPT !.at = at, !.topic = topic, !.text = text, !.rest = subs]
<1>1. UNCHANGED <<monitor, bus, run>> /\ op[o].at = "emit" /\ op' = [op EXCEPT ![o] = d]
  BY DEF Emit, EmitTo
<1>2. topic \in Topics /\ at \in Speaking \ (Setting \cup Loading)
  BY <1>0, <1>1 DEF OpsOK, Speaking, Setting, Loading
<1>3. text \in Frames \cup {None}
  <2>1. latched.spec_status \in Frames /\ op[o].text \in Frames \cup {None}
    BY <1>0 DEF PagesOK, Doing, Topics
  <2> QED
    BY <2>1
<1>4. at = "call" /\ topic = op[o].topic
      /\ text = IF op[o].topic = "status" THEN op[o].text ELSE latched.spec_status
  OBVIOUS
<1> HIDE DEF at, topic, text
<1>5. d \in Doing /\ d.at = at /\ d.topic = topic /\ d.text = text /\ d.rest = subs
  BY <1>0, <1>2, <1>3 DEF Free, Doing
<1> HIDE DEF d
<1>6. OpsOK' /\ op'[o] = d /\ \A x \in Operators \ {o} : op'[x] = op[x]
  BY <1>0, <1>1, <1>2, <1>5, DoesOther
<1>7. Typed'
  BY <1>0, <1>1, <1>6 DEF Typed, PagesOK, RunOK, monitor, bus
<1> QED
  BY <1>1, <1>4, <1>5, <1>6, <1>7

LEMMA CallTyped ==
  ASSUME Typed, NEW o \in Operators, Call(o)
  PROVE  /\ Typed' /\ UNCHANGED <<monitor, latched, subs, run>>
         /\ op[o].at = "call" /\ \A x \in Operators \ {o} : op'[x] = op[x]
         /\ \/ op[o].rest = <<>> /\ UNCHANGED page /\ op'[o] = Free
            \/ /\ op'[o].at = "call" /\ op'[o].topic = op[o].topic /\ op'[o].text = op[o].text
               /\ \E p \in Pages :
                    /\ Range(op[o].rest) = {p} \cup Range(op'[o].rest)
                    /\ \A q \in Pages : page'[q].owed = page[q].owed
                    /\ \A q \in Pages \ {p} : page'[q].heard = page[q].heard
                    /\ page'[p].heard = Heard(p, op[o].topic, op[o].text)
<1>0. /\ seq \in Nat /\ step \in Nat /\ mode \in Modes /\ spec \in Specs /\ OpsOK /\ PagesOK
      /\ RunOK /\ op[o] \in Doing /\ op[o].rest \in Seq(Pages)
  BY DEF Typed, OpsOK, Doing
<1>1. /\ UNCHANGED <<monitor, latched, subs, run>> /\ op[o].at = "call"
      /\ "call" \in Speaking \ (Setting \cup Loading)
      /\ "free" \notin Speaking \cup Setting \cup Loading
  BY DEF Call, Speaking, Setting, Loading
<1>2. CASE op[o].rest = <<>>
  <2>1. op' = [op EXCEPT ![o] = Free] /\ UNCHANGED page
    BY <1>2 DEF Call
  <2>2. OpsOK' /\ op'[o] = Free /\ \A x \in Operators \ {o} : op'[x] = op[x]
    BY <1>0, <1>1, <2>1, FreeIsDoing, DoesOther
  <2>3. Typed'
    BY <1>0, <1>1, <2>1, <2>2 DEF Typed, PagesOK, RunOK, monitor
  <2> QED
    BY <1>1, <1>2, <2>1, <2>2, <2>3
<1>3. CASE op[o].rest # <<>>
  <2> DEFINE p == Head(op[o].rest)
             tail == Tail(op[o].rest)
             d == [op[o] EXCEPT !.rest = tail]
             heard == Heard(p, op[o].topic, op[o].text)
  <2>1. /\ op' = [op EXCEPT ![o] = d]
        /\ page' = [page EXCEPT ![p].heard = heard]
    BY <1>3 DEF Call
  <2>2. p \in Pages /\ tail \in Seq(Pages) /\ Range(op[o].rest) = {p} \cup Range(tail)
    BY <1>0, <1>3, RangeOfTail
  <2> HIDE DEF p, tail
  <2>3. /\ d \in Doing /\ d.at = op[o].at /\ d.topic = op[o].topic /\ d.text = op[o].text
        /\ d.rest = tail
    BY <1>0, <2>2 DEF Doing
  <2>4. heard \in SUBSET Topics
    <3>1. op[o].topic \in Topics /\ page[p].heard \in SUBSET Topics
      BY <1>0, <1>1, <2>2 DEF OpsOK, PagesOK
    <3> QED
      BY <3>1 DEF Heard
  <2>5. heard = Heard(p, op[o].topic, op[o].text)
    OBVIOUS
  <2> HIDE DEF d, heard
  <2>6. OpsOK' /\ op'[o] = d /\ \A x \in Operators \ {o} : op'[x] = op[x]
    <3>1. d.topic \in Topics
      BY <1>0, <1>1, <2>3 DEF OpsOK
    <3>2. d.at \in Speaking \ (Setting \cup Loading)
      BY <1>1, <2>3
    <3> QED
      BY <1>0, <2>1, <2>3, <3>1, <3>2, DoesOther
  <2>7. /\ PagesOK'
        /\ \A q \in Pages : page'[q].owed = page[q].owed
        /\ \A q \in Pages \ {p} : page'[q].heard = page[q].heard
        /\ page'[p].heard = heard
    BY <1>0, <1>1, <2>1, <2>2, <2>4 DEF PagesOK
  <2>8. Typed'
    BY <1>0, <1>1, <2>6, <2>7 DEF Typed, RunOK, monitor
  <2> QED
    BY <1>1, <2>2, <2>3, <2>5, <2>6, <2>7, <2>8
<1> QED
  BY <1>2, <1>3

LEMMA PageTyped ==
  ASSUME Typed, NEW p \in Pages, Subscribe(p) \/ Replay(p) \/ Unsubscribe(p)
  PROVE  /\ Typed' /\ UNCHANGED <<monitor, latched, op, run, tripped>>
         /\ \A q \in Pages \ {p} : page'[q] = page[q]
         /\ \/ Range(subs') = Range(subs) \cup {p} /\ page'[p].owed = latched
            \/ Range(subs') = Range(subs) \ {p}
            \/ /\ Range(subs') = Range(subs)
               /\ \E topic \in DOMAIN page[p].owed :
                    /\ page'[p].heard = Heard(p, topic, page[p].owed[topic])
                    /\ DOMAIN page'[p].owed = DOMAIN page[p].owed \ {topic}
                    /\ \A t \in DOMAIN page'[p].owed : page'[p].owed[t] = page[p].owed[t]
<1>0. /\ seq \in Nat /\ step \in Nat /\ mode \in Modes /\ spec \in Specs /\ OpsOK /\ PagesOK
      /\ RunOK
  BY DEF Typed
<1>1. UNCHANGED <<monitor, latched, op, run, tripped>>
  BY DEF Subscribe, Replay, Unsubscribe
<1>2. /\ subs \in Seq(Pages) /\ IsInjective(subs) /\ latched \in Owed
      /\ page[p].owed \in Owed /\ page[p].heard \in SUBSET Topics
  BY <1>0 DEF PagesOK, Owed
<1>3. PagesOK' => Typed'
  BY <1>0, <1>1 DEF Typed, OpsOK, RunOK, monitor
<1>4. CASE Subscribe(p)
  <2>1. subs' = Append(subs, p) /\ page' = [page EXCEPT ![p].owed = latched]
        /\ p \notin Range(subs)
    BY <1>4 DEF Subscribe
  <2>2. Range(subs') = Range(subs) \cup {p} /\ subs' \in Seq(Pages)
    BY <1>2, <2>1, RangeOfAppend
  <2>3. IsInjective(subs')
    <3>1. /\ Len(subs') = Len(subs) + 1 /\ Len(subs) \in Nat
          /\ \A i \in 1..Len(subs) : subs'[i] = subs[i] /\ subs[i] # p
      BY <1>2, <2>1 DEF Range
    <3>2. subs'[Len(subs) + 1] = p
      BY <1>2, <2>1
    <3> QED
      BY <1>2, <2>2, <3>1, <3>2 DEF IsInjective
  <2>4. PagesOK'
    BY <1>0, <1>1, <1>2, <2>1, <2>2, <2>3 DEF PagesOK
  <2>5. page'[p].owed = latched /\ \A q \in Pages \ {p} : page'[q] = page[q]
    BY <1>0, <2>1 DEF PagesOK
  <2>6. Typed'
    BY <1>3, <2>4
  <2> QED
    BY <1>1, <2>2, <2>5, <2>6
<1>5. CASE Replay(p)
  <2>1. PICK topic \in DOMAIN page[p].owed :
          page' = [page EXCEPT ![p] =
                  [owed |-> Restrict(page[p].owed, DOMAIN page[p].owed \ {topic}),
                   heard |-> Heard(p, topic, page[p].owed[topic])]]
    BY <1>5 DEF Replay
  <2> DEFINE owed == Restrict(page[p].owed, DOMAIN page[p].owed \ {topic})
             heard == Heard(p, topic, page[p].owed[topic])
  <2>2. /\ DOMAIN owed = DOMAIN page[p].owed \ {topic}
        /\ \A t \in DOMAIN owed : owed[t] = page[p].owed[t]
    BY DEF Restrict
  <2>3. PICK T \in SUBSET Topics : page[p].owed \in [T -> Frames]
    BY <1>2 DEF Owed
  <2>4. owed \in [T \ {topic} -> Frames]
    BY <2>3 DEF Restrict
  <2>5. owed \in Owed
    BY <2>4, <2>3 DEF Owed
  <2>6. heard \in SUBSET Topics /\ heard = Heard(p, topic, page[p].owed[topic])
    BY <1>2, <2>1, <2>3 DEF Heard
  <2>7. page' = [page EXCEPT ![p] = [owed |-> owed, heard |-> heard]] /\ subs' = subs
    BY <2>1, <1>5 DEF Replay
  <2> HIDE DEF owed, heard
  <2>8. /\ PagesOK' /\ page'[p].owed = owed /\ page'[p].heard = heard
        /\ \A q \in Pages \ {p} : page'[q] = page[q]
    BY <1>0, <1>1, <1>2, <2>5, <2>6, <2>7 DEF PagesOK
  <2> QED
    BY <1>1, <1>3, <2>2, <2>6, <2>7, <2>8
<1>6. CASE Unsubscribe(p)
  <2>1. subs' = RemoveFirst(subs, p) /\ page' = [page EXCEPT ![p].heard = {}]
    BY <1>6 DEF Unsubscribe
  <2>2. subs' \in Seq(Pages) /\ IsInjective(subs') /\ Range(subs') = Range(subs) \ {p}
    BY <1>2, <2>1, RemoveOnce
  <2>3. PagesOK'
    BY <1>0, <1>1, <1>2, <2>1, <2>2 DEF PagesOK
  <2> QED
    BY <1>0, <1>1, <1>3, <2>1, <2>2, <2>3 DEF PagesOK
<1> QED
  BY <1>4, <1>5, <1>6

LEMMA HandlerIs ==
  ASSUME NEW o, Handler(o)
  PROVE  Quiet(o) \/ (Announce(o) \/ Report(o)) \/ Emit(o) \/ Call(o)
BY DEF Handler, Quiet

LEMMA TypeStep == Typed /\ [Next]_vars => Typed'
<1> SUFFICES ASSUME Typed, [Next]_vars PROVE Typed'
  OBVIOUS
<1>1. CASE Run
  BY <1>1, RunTyped
<1>2. ASSUME NEW o \in Operators, Handler(o) PROVE Typed'
  BY <1>2, HandlerIs, QuietTyped, AnnounceTyped, EmitTyped, CallTyped
<1>3. ASSUME NEW p \in Pages, Subscribe(p) \/ Replay(p) \/ Unsubscribe(p) PROVE Typed'
  BY <1>3, PageTyped
<1>4. CASE UNCHANGED vars
  BY <1>4 DEF vars, monitor, bus, Typed, OpsOK, PagesOK, RunOK
<1> QED
  BY <1>1, <1>2, <1>3, <1>4 DEF Next
-----------------------------------------------------------------------------
(* A frame that is latched and that a listening page has not heard is still *)
(* on its way to it: in the replay it is owed, or with a handler that is   *)
(* about to copy the subscriptions, or has copied them with the page among *)
(* them.                                                                   *)

WillTell(o, p, topic) ==
  /\ op[o].topic = topic
  /\ \/ op[o].at = "emit" /\ (topic = "status" => op[o].text = latched[topic])
     \/ op[o].at = "call" /\ op[o].text = latched[topic] /\ p \in Range(op[o].rest)

OnItsWay(p, topic) ==
  \/ topic \in page[p].heard
  \/ topic \in DOMAIN page[p].owed /\ page[p].owed[topic] = latched[topic]
  \/ \E o \in Operators : WillTell(o, p, topic)

HearInv == \A p \in Range(subs), topic \in Topics : OnItsWay(p, topic)

LEMMA ListenersArePages == PagesOK => Range(subs) \subseteq Pages
BY DEF PagesOK, Range

\* Where nothing of this changes, but for a handler that says nothing.
LEMMA QuietHears ==
  ASSUME HearInv, UNCHANGED bus, NEW S \in SUBSET Operators,
         \A o \in S : op[o].at \notin Speaking, \A o \in Operators \ S : op'[o] = op[o]
  PROVE  HearInv'
<1> SUFFICES ASSUME NEW p \in Range(subs), NEW topic \in Topics
             PROVE  OnItsWay(p, topic)'
  BY DEF HearInv, bus
<1>1. OnItsWay(p, topic)
  BY DEF HearInv
<1>2. ASSUME NEW o \in Operators, WillTell(o, p, topic) PROVE WillTell(o, p, topic)'
  BY <1>2 DEF WillTell, bus, Speaking
<1> QED
  BY <1>1, <1>2 DEF OnItsWay, bus

LEMMA AnnounceHears ==
  ASSUME Typed, HearInv, NEW o \in Operators, Announce(o) \/ Report(o) PROVE HearInv'
<1>0. PagesOK /\ Range(subs) \subseteq Pages
  BY ListenersArePages DEF Typed
<1>1. /\ subs' = subs /\ op[o].at \notin Speaking /\ op'[o].at = "emit"
      /\ op'[o].topic \in Topics /\ \A x \in Operators \ {o} : op'[x] = op[x]
  BY AnnounceTyped
<1>2. PICK frame \in Frames :
        Latch(op'[o].topic, frame) /\ (op'[o].topic = "status" => op'[o].text = frame)
  BY AnnounceTyped
<1> DEFINE topic == op'[o].topic
<1>3. /\ topic \in Topics /\ Latch(topic, frame) /\ (topic = "status" => op'[o].text = frame)
  BY <1>1, <1>2
<1>5. op'[o].topic = topic
  OBVIOUS
<1> HIDE DEF topic
<1>4. /\ latched'[topic] = frame
      /\ \A t \in Topics \ {topic} : latched'[t] = latched[t]
      /\ \A p \in Pages : /\ page'[p].owed = page[p].owed
                          /\ page[p].heard \ {topic} \subseteq page'[p].heard
  BY <1>0, <1>1, <1>3, LatchTyped
<1> SUFFICES ASSUME NEW p \in Range(subs), NEW t \in Topics
             PROVE  OnItsWay(p, t)'
  BY <1>1 DEF HearInv
<1>6. CASE t = topic
  <2>1. WillTell(o, p, t)'
    BY <1>1, <1>3, <1>4, <1>5, <1>6 DEF WillTell
  <2> QED
    BY <2>1 DEF OnItsWay
<1>7. CASE t # topic
  <2>1. OnItsWay(p, t)
    BY DEF HearInv
  <2>2. ASSUME NEW x \in Operators, WillTell(x, p, t) PROVE WillTell(x, p, t)'
    <3>1. x # o /\ latched'[t] = latched[t]
      BY <1>1, <1>4, <1>7, <2>2 DEF WillTell, Speaking
    <3> QED
      BY <1>1, <2>2, <3>1 DEF WillTell
  <2>3. p \in Pages
    BY <1>0
  <2> QED
    BY <1>4, <1>7, <2>1, <2>2, <2>3 DEF OnItsWay
<1> QED
  BY <1>6, <1>7

LEMMA EmitHears ==
  ASSUME Typed, HearInv, NEW o \in Operators, Emit(o) PROVE HearInv'
<1>1. /\ UNCHANGED bus /\ op[o].at = "emit" /\ op'[o].at = "call"
      /\ op'[o].topic = op[o].topic /\ op'[o].rest = subs
      /\ \A x \in Operators \ {o} : op'[x] = op[x]
      /\ op'[o].text = IF op[o].topic = "status" THEN op[o].text ELSE latched.spec_status
  BY EmitTyped
<1> SUFFICES ASSUME NEW p \in Range(subs), NEW topic \in Topics
             PROVE  OnItsWay(p, topic)'
  BY <1>1 DEF HearInv, bus
<1>2. OnItsWay(p, topic)
  BY DEF HearInv
<1>3. ASSUME NEW x \in Operators, WillTell(x, p, topic) PROVE WillTell(x, p, topic)'
  <2>1. CASE x # o
    BY <1>1, <1>3, <2>1 DEF WillTell, bus
  <2>2. CASE x = o
    <3>1. topic = op[o].topic /\ (topic = "status" => op[o].text = latched[topic])
      BY <1>1, <1>3, <2>2 DEF WillTell
    <3>2. op'[o].text = latched[topic]
      BY <1>1, <3>1 DEF Topics
    <3> QED
      BY <1>1, <2>2, <3>1, <3>2 DEF WillTell, bus
  <2> QED
    BY <2>1, <2>2
<1> QED
  BY <1>1, <1>2, <1>3 DEF OnItsWay, bus

LEMMA CallHears ==
  ASSUME Typed, HearInv, NEW o \in Operators, Call(o) PROVE HearInv'
<1>0. Range(subs) \subseteq Pages
  BY ListenersArePages DEF Typed
<1>1. /\ UNCHANGED <<latched, subs>> /\ op[o].at = "call"
      /\ \A x \in Operators \ {o} : op'[x] = op[x]
  BY CallTyped
<1> SUFFICES ASSUME NEW p \in Range(subs), NEW topic \in Topics
             PROVE  OnItsWay(p, topic)'
  BY <1>1 DEF HearInv
<1>2. OnItsWay(p, topic) /\ p \in Pages
  BY <1>0 DEF HearInv
<1>3. ASSUME NEW x \in Operators, x # o, WillTell(x, p, topic) PROVE WillTell(x, p, topic)'
  BY <1>1, <1>3 DEF WillTell
<1>4. CASE op[o].rest = <<>> /\ UNCHANGED page
  <2>1. ~WillTell(o, p, topic)
    BY <1>1, <1>4 DEF WillTell, Range
  <2> QED
    BY <1>1, <1>2, <1>3, <1>4, <2>1 DEF OnItsWay
<1>5. CASE ~(op[o].rest = <<>> /\ UNCHANGED page)
  <2>1. PICK h \in Pages :
          /\ op'[o].at = "call" /\ op'[o].topic = op[o].topic /\ op'[o].text = op[o].text
          /\ Range(op[o].rest) = {h} \cup Range(op'[o].rest)
          /\ \A q \in Pages : page'[q].owed = page[q].owed
          /\ \A q \in Pages \ {h} : page'[q].heard = page[q].heard
          /\ page'[h].heard = Heard(h, op[o].topic, op[o].text)
    BY <1>5, CallTyped
  <2>2. page[p].heard \subseteq page'[p].heard
    BY <1>2, <2>1 DEF Heard
  <2>3. ASSUME WillTell(o, p, topic) PROVE topic \in page'[p].heard \/ WillTell(o, p, topic)'
    <3>1. CASE p = h
      BY <1>1, <2>1, <2>3, <3>1 DEF WillTell, Heard
    <3>2. CASE p # h
      BY <1>1, <2>1, <2>3, <3>2 DEF WillTell
    <3> QED
      BY <3>1, <3>2
  <2> QED
    BY <1>1, <1>2, <1>3, <2>1, <2>2, <2>3 DEF OnItsWay
<1> QED
  BY <1>4, <1>5

LEMMA PageHears ==
  ASSUME Typed, HearInv, NEW p \in Pages, Subscribe(p) \/ Replay(p) \/ Unsubscribe(p)
  PROVE  HearInv'
<1>0. Range(subs) \subseteq Pages /\ latched \in [Topics -> Frames]
  BY ListenersArePages DEF Typed, PagesOK
<1>1. /\ UNCHANGED <<latched, op>> /\ \A q \in Pages \ {p} : page'[q] = page[q]
      /\ Range(subs') \subseteq Range(subs) \cup {p}
  BY PageTyped
<1>2. ASSUME NEW q, NEW topic, NEW o \in Operators, WillTell(o, q, topic)
      PROVE  WillTell(o, q, topic)'
  BY <1>1, <1>2 DEF WillTell
<1> SUFFICES ASSUME NEW q \in Range(subs'), NEW topic \in Topics
             PROVE  OnItsWay(q, topic)'
  BY DEF HearInv
<1>3. CASE q # p
  <2>1. OnItsWay(q, topic) /\ q \in Pages \ {p}
    BY <1>0, <1>1, <1>3 DEF HearInv
  <2> QED
    BY <1>1, <1>2, <2>1 DEF OnItsWay
<1>4. CASE q = p /\ page'[p].owed = latched
  BY <1>0, <1>1, <1>4 DEF OnItsWay
<1>5. CASE /\ q = p /\ Range(subs') = Range(subs)
           /\ \E t \in DOMAIN page[p].owed :
                    /\ page'[p].heard = Heard(p, t, page[p].owed[t])
                    /\ DOMAIN page'[p].owed = DOMAIN page[p].owed \ {t}
                    /\ \A u \in DOMAIN page'[p].owed : page'[p].owed[u] = page[p].owed[u]
  <2>1. OnItsWay(p, topic)
    BY <1>5 DEF HearInv
  <2>2. PICK t \in DOMAIN page[p].owed :
                    /\ page'[p].heard = Heard(p, t, page[p].owed[t])
                    /\ DOMAIN page'[p].owed = DOMAIN page[p].owed \ {t}
                    /\ \A u \in DOMAIN page'[p].owed : page'[p].owed[u] = page[p].owed[u]
    BY <1>5
  <2>3. page[p].heard \subseteq page'[p].heard
    BY <2>2 DEF Heard
  <2>4. topic = t /\ page[p].owed[t] = latched[t] => topic \in page'[p].heard
    BY <2>2 DEF Heard
  <2> QED
    BY <1>1, <1>2, <1>5, <2>1, <2>2, <2>3, <2>4 DEF OnItsWay
<1> QED
  BY <1>3, <1>4, <1>5, PageTyped

LEMMA HearInit == Init => HearInv
BY DEF Init, HearInv, Range

LEMMA HearStep == Typed /\ HearInv /\ [Next]_vars => HearInv'
<1> SUFFICES ASSUME Typed, HearInv, [Next]_vars PROVE HearInv'
  OBVIOUS
<1> DEFINE none == {}
<1>0. none \in SUBSET Operators /\ \A o : o \notin none
  OBVIOUS
<1> HIDE DEF none
<1>1. CASE Run \/ UNCHANGED vars
  <2>1. UNCHANGED <<op, bus>>
    BY <1>1, RunTyped DEF vars
  <2> QED
    BY <1>0, <2>1, QuietHears
<1>2. ASSUME NEW o \in Operators, Quiet(o) PROVE HearInv'
  <2>1. /\ UNCHANGED bus /\ op[o].at \notin Speaking
        /\ \A x \in Operators \ {o} : op'[x] = op[x]
    BY <1>2, QuietOps
  <2> DEFINE S == {o}
  <2>2. /\ S \in SUBSET Operators /\ \A x \in S : op[x].at \notin Speaking
        /\ \A x \in Operators \ S : op'[x] = op[x]
    BY <2>1
  <2> HIDE DEF S
  <2> QED
    BY <2>1, <2>2, QuietHears
<1>3. ASSUME NEW o \in Operators, Handler(o) PROVE HearInv'
  BY <1>2, <1>3, HandlerIs, AnnounceHears, EmitHears, CallHears
<1>4. ASSUME NEW p \in Pages, Subscribe(p) \/ Replay(p) \/ Unsubscribe(p) PROVE HearInv'
  BY <1>4, PageHears
<1> QED
  BY <1>1, <1>3, <1>4 DEF Next
-----------------------------------------------------------------------------
(* The step: between ticks, and while an episode is being restarted, it is *)
(* in the episode, unless a handler has adopted a spec and not yet zeroed  *)
(* it.                                                                     *)

NoRestep == \A o \in Operators : op[o].at # "restep"
StepInv  == run.at \in {"wait", "restart"} /\ NoRestep => step < spec.episode

LEMMA StepInit == Init => StepInv
BY MockMonitorAssumption DEF Init, StepInv

LEMMA RunSteps == ASSUME Typed, StepInv, Run PROVE StepInv'
<1>0. step \in Nat /\ spec \in Specs /\ spec.episode \in Nat \ {0} /\ RunOK
  BY MockMonitorAssumption DEF Typed
<1>1. UNCHANGED <<op, spec>>
  BY RunTyped
<1>2. CASE Wake
  BY <1>0, <1>1, <1>2 DEF Wake, StepInv, NoRestep, RunOK
<1>3. CASE EndOfTick
  BY <1>0, <1>1, <1>3 DEF EndOfTick, EpisodeIsOver, StepInv, NoRestep, Waiting
<1>4. CASE NextEpisode
  BY <1>1, <1>4 DEF NextEpisode, StepInv, NoRestep, Waiting
<1>5. CASE Count \/ Pulse \/ Look \/ Put \/ Publish
  <2>1. run'.at \in {"pulse", "look", "put", "end"}
    BY <1>0, <1>5 DEF Count, Pulse, Look, Put, Publish, RunOK, Waiting
  <2> QED
    BY <2>1 DEF StepInv
<1> QED
  BY <1>2, <1>3, <1>4, <1>5 DEF Run

LEMMA QuietSteps == ASSUME Typed, StepInv, NEW o \in Operators, Quiet(o) PROVE StepInv'
<1>0. OpsOK /\ Typed' /\ (\A s \in Specs : s.episode \in Nat \ {0})
  BY QuietTyped, MockMonitorAssumption DEF Typed
<1>1. run' = run /\ \A x \in Operators \ {o} : op'[x] = op[x]
  BY QuietOps
<1>2. CASE Rewind(o) \/ Restep(o)
  <2>1. step' = 0 /\ spec' \in Specs
    BY <1>0, <1>2 DEF Rewind, Restep, Typed
  <2> QED
    BY <1>0, <2>1 DEF StepInv
<1>3. CASE Adopt(o)
  <2>1. Goes(o, "restep")
    BY <1>3 DEF Adopt
  <2>2. op[o].at \in Loading /\ "restep" \in Loading
    BY <1>3 DEF Adopt, Loading
  <2>3. op'[o].at = "restep"
    <3> DEFINE place == "restep"
    <3>1. Goes(o, place) /\ op[o].at \in Loading /\ place \in Loading
      BY <2>1, <2>2
    <3>2. place = "restep"
      OBVIOUS
    <3> HIDE DEF place
    <3>3. op'[o].at = place
      BY <1>0, <3>1, GoesOn
    <3> QED
      BY <3>2, <3>3
  <2> QED
    BY <2>3 DEF StepInv, NoRestep
<1>4. CASE ~(Rewind(o) \/ Restep(o) \/ Adopt(o))
  <2>1. UNCHANGED <<step, spec>> /\ op[o].at # "restep"
    BY <1>4, Zenon DEF Quiet, Command, Forget, SetState, Enter, Flag, LoadSpec, Recompile,
                       Reinit, monitor
  <2>2. NoRestep' => NoRestep
    BY <1>1, <2>1 DEF NoRestep
  <2> QED
    BY <1>1, <2>1, <2>2 DEF StepInv
<1> QED
  BY <1>2, <1>3, <1>4

LEMMA StepStep == Typed /\ StepInv /\ [Next]_vars => StepInv'
<1> SUFFICES ASSUME Typed, StepInv, [Next]_vars PROVE StepInv'
  OBVIOUS
<1>1. ASSUME UNCHANGED <<run, step, spec>>, NoRestep' => NoRestep PROVE StepInv'
  BY <1>1 DEF StepInv
<1>2. ASSUME NEW o \in Operators, Announce(o) \/ Report(o) PROVE StepInv'
  <2>1. UNCHANGED <<monitor, run>> /\ \A x \in Operators \ {o} : op'[x] = op[x]
    BY <1>2, AnnounceTyped
  <2>2. op[o].at # "restep"
    BY <1>2 DEF Announce, Report
  <2> QED
    BY <1>1, <2>1, <2>2 DEF NoRestep, monitor
<1>3. ASSUME NEW o \in Operators, Emit(o) PROVE StepInv'
  <2>1. UNCHANGED <<monitor, run>> /\ \A x \in Operators \ {o} : op'[x] = op[x]
    BY <1>3, EmitTyped
  <2>2. op[o].at # "restep"
    BY <1>3 DEF Emit
  <2> QED
    BY <1>1, <2>1, <2>2 DEF NoRestep, monitor
<1>4. ASSUME NEW o \in Operators, Call(o) PROVE StepInv'
  <2>1. UNCHANGED <<monitor, run>> /\ \A x \in Operators \ {o} : op'[x] = op[x]
    BY <1>4, CallTyped
  <2>2. op[o].at # "restep"
    BY <1>4 DEF Call
  <2> QED
    BY <1>1, <2>1, <2>2 DEF NoRestep, monitor
<1>5. ASSUME NEW o \in Operators, Handler(o) PROVE StepInv'
  BY <1>2, <1>3, <1>4, <1>5, HandlerIs, QuietSteps
<1>6. ASSUME NEW p \in Pages, Subscribe(p) \/ Replay(p) \/ Unsubscribe(p) PROVE StepInv'
  <2>1. UNCHANGED <<monitor, op, run>>
    BY <1>6, PageTyped
  <2> QED
    BY <1>1, <2>1 DEF NoRestep, monitor
<1>7. CASE UNCHANGED vars
  BY <1>1, <1>7 DEF vars, monitor, NoRestep
<1> QED
  BY <1>5, <1>6, <1>7, RunSteps DEF Next
-----------------------------------------------------------------------------
(* The graphs and the modes.                                               *)

\* From a state that is read as VIOLATED no values lead elsewhere.
Absorbs(graph) ==
  \A q, values : StatusOf(graph, q) = "VIOLATED" => Successor(graph, q, values) = q

LEMMA ChainAbsorbs == ASSUME NEW chain PROVE Absorbs(ChainAutomaton(chain))
<1>1. ChainAutomaton(chain).accepting = ChainAutomaton(chain).sinks
  BY DEF ChainAutomaton
<1> QED
  BY <1>1 DEF Absorbs, StatusOf

LEMMA SafetyAbsorbs == ASSUME NEW l PROVE Absorbs(SafetyAutomaton(l))
<1> DEFINE graph == SafetyAutomaton(l)
<1>1. /\ graph.states = {0, 1} /\ graph.accepting = {0} /\ graph.sinks = {1}
      /\ graph.edges = {Edge(0, 1, Negate(l)), Edge(0, 0, l), Edge(1, 1, Always)}
  BY DEF SafetyAutomaton, SafetyWith
<1>2. /\ \A x, y, z : Edge(x, y, z).from = x /\ Edge(x, y, z).to = y /\ Edge(x, y, z).label = z
  BY DEF Edge
<1> HIDE DEF graph
<1> SUFFICES ASSUME NEW q, NEW values, StatusOf(graph, q) = "VIOLATED"
             PROVE  Successor(graph, q, values) = q
  BY DEF Absorbs, graph
<1>3. q = 1
  BY <1>1 DEF StatusOf
<1>4. LabelHolds(Always, values) = TRUE
  BY DEF LabelHolds
<1>5. {e \in graph.edges : e.from = 1 /\ LabelHolds(e.label, values) = TRUE}
        = {Edge(1, 1, Always)}
  BY <1>1, <1>2, <1>4
<1>6. Successor(graph, q, values) = Edge(1, 1, Always).to
  BY <1>3, <1>5 DEF Successor
<1> QED
  BY <1>2, <1>3, <1>6

LEMMA AutomataAbsorb ==
  ASSUME NEW s, NEW name \in DOMAIN AutomataFor(s) PROVE Absorbs(AutomataFor(s)[name])
<1>1. \A f : Absorbs(Compiled(f))
  BY ChainAbsorbs, SafetyAbsorbs DEF Compiled
<1> QED
  BY <1>1 DEF AutomataFor

\* What was found VIOLATED in this run is so in the states that are kept and, as
\* far as the tick has come, in those its verdict will be made of; a tick over
\* graphs that have been replaced can only start from nothing.
Violated(graphs, states, name) ==
  /\ name \in DOMAIN graphs /\ name \in DOMAIN states
  /\ StatusOf(graphs[name], states[name]) = "VIOLATED"

Ticking == run.at \in {"look", "put"}
Done    == (DOMAIN run.graphs \ run.todo) \cup (IF run.at = "put" THEN {Name} ELSE {})

GraphsInv ==
  /\ \A n \in DOMAIN automata : Absorbs(automata[n])
  /\ Ticking => /\ run.todo \subseteq DOMAIN run.graphs
                /\ \A n \in DOMAIN run.graphs : Absorbs(run.graphs[n])
  /\ run.at = "put" => run.todo # {} /\ Name \in DOMAIN run.states

SinkInv ==
  /\ GraphsInv
  /\ \A n \in tripped : Violated(automata, autoState, n)
  /\ Ticking /\ run.graphs # automata => tripped = {}
  /\ Ticking /\ run.graphs = automata =>
       \A n \in tripped \cap Done : Violated(run.graphs, run.states, n)

LEMMA SinkInit == Init => SinkInv
<1> SUFFICES ASSUME Init PROVE SinkInv
  OBVIOUS
<1>1. run.at = "wait" /\ tripped = {} /\ automata = AutomataFor(Shipped)
  BY DEF Init, Waiting
<1> QED
  BY <1>1, AutomataAbsorb DEF SinkInv, GraphsInv, Ticking

\* A run that begins has found nothing.
LEMMA Forgotten ==
  ASSUME SinkInv, tripped' = {}, run' = run \/ run'.at = "wait",
         automata' = automata \/ \E s : automata' = AutomataFor(s)
  PROVE  SinkInv'
<1>1. GraphsInv'
  BY AutomataAbsorb DEF SinkInv, GraphsInv, Ticking, Name
<1> QED
  BY <1>1 DEF SinkInv

LEMMA SinkUndisturbed ==
  ASSUME SinkInv, UNCHANGED <<automata, autoState, tripped>>,
         run' = run \/ run'.at \notin {"look", "put"}
  PROVE  SinkInv'
<1>1. CASE run' = run
  BY <1>1 DEF SinkInv, GraphsInv, Ticking, Done, Name, Violated
<1>2. CASE run'.at \notin {"look", "put"}
  BY <1>2 DEF SinkInv, GraphsInv, Ticking, Violated
<1> QED
  BY <1>1, <1>2

LEMMA NameIsTodo == run.todo # {} => Name \in run.todo
BY DEF Name

LEMMA PulseSinks == ASSUME RunOK, SinkInv, Pulse PROVE SinkInv'
<1>1. PICK v \in Values :
        run' = [run EXCEPT !.at = "look", !.values = v, !.graphs = automata,
                           !.todo = DOMAIN automata, !.step = 0]
  BY DEF Pulse
<1>2. /\ run'.at = "look" /\ run'.graphs = automata /\ run'.todo = DOMAIN automata
      /\ UNCHANGED <<automata, autoState, tripped>>
  BY <1>1 DEF RunOK, Pulse, monitor
<1>3. GraphsInv'
  BY <1>2 DEF GraphsInv, SinkInv
<1>4. Done' = {}
  BY <1>2 DEF Done
<1> QED
  BY <1>2, <1>3, <1>4 DEF SinkInv, Violated

LEMMA LookSinks == ASSUME RunOK, SinkInv, Look PROVE SinkInv'
<1> DEFINE state == IF Name \in DOMAIN autoState THEN autoState[Name] ELSE 0
           to == Successor(Graph, state, run.values)
<1>1. /\ run.at = "look" /\ run.todo # {} /\ Name \in run.todo
      /\ run' = [run EXCEPT !.at = "put", !.states = Assign(@, Name, to)]
      /\ UNCHANGED <<automata, autoState, tripped>>
  BY NameIsTodo DEF Look, monitor
<1> HIDE DEF to
<1>2. /\ run'.at = "put" /\ run'.graphs = run.graphs /\ run'.todo = run.todo
      /\ run'.states = Assign(run.states, Name, to)
  BY <1>1 DEF RunOK
<1>3. Name' = Name
  BY <1>2 DEF Name
<1>4. GraphsInv'
  BY <1>1, <1>2, <1>3 DEF GraphsInv, SinkInv, Ticking, Assign
<1>5. ASSUME run.graphs = automata, NEW n \in tripped \cap Done'
      PROVE  Violated(run.graphs, run'.states, n)
  <2>1. CASE n = Name
    <3>1. /\ Name \in DOMAIN autoState /\ Name \in DOMAIN automata
          /\ StatusOf(automata[Name], autoState[Name]) = "VIOLATED"
      BY <1>5, <2>1 DEF SinkInv, Violated
    <3>2. to = autoState[Name]
      BY <1>5, <3>1 DEF to, Graph, Absorbs, SinkInv, GraphsInv
    <3>3. Name \in DOMAIN run'.states /\ run'.states[Name] = to
      BY <1>2 DEF Assign
    <3> QED
      BY <1>5, <2>1, <3>1, <3>2, <3>3 DEF Violated
  <2>2. CASE n # Name
    <3>1. n \in tripped \cap Done /\ Ticking
      BY <1>1, <1>2, <1>3, <1>5, <2>2 DEF Done, Ticking
    <3>2. Violated(run.graphs, run.states, n)
      BY <1>5, <3>1 DEF SinkInv
    <3>3. n \in DOMAIN run.states =>
            n \in DOMAIN run'.states /\ run'.states[n] = run.states[n]
      BY <1>2, <2>2 DEF Assign
    <3> QED
      BY <3>2, <3>3 DEF Violated
  <2> QED
    BY <2>1, <2>2
<1> QED
  BY <1>1, <1>2, <1>4, <1>5 DEF SinkInv, Ticking, Violated

LEMMA PutSinks == ASSUME RunOK, SinkInv, Put PROVE SinkInv'
<1>1. /\ run.at = "put" /\ UNCHANGED automata /\ Name \in run.todo
      /\ run.todo \subseteq DOMAIN run.graphs
      /\ run' = [run EXCEPT !.at = "look", !.todo = @ \ {Name}]
      /\ autoState' = IF Stepped = None THEN autoState ELSE Assign(autoState, Name, Stepped)
      /\ tripped' = IF run.graphs = automata /\ StatusOf(Graph, Stepped) = "VIOLATED"
                    THEN tripped \cup {Name} ELSE tripped
  BY NameIsTodo DEF Put, SinkInv, GraphsInv, Ticking
<1>2. /\ run'.at = "look" /\ run'.graphs = run.graphs /\ run'.todo = run.todo \ {Name}
      /\ run'.states = run.states
  BY <1>1 DEF RunOK
<1>3. Done' = Done
  BY <1>1, <1>2 DEF Done
<1>4. GraphsInv'
  BY <1>1, <1>2 DEF GraphsInv, SinkInv, Ticking
<1>5. CASE run.graphs # automata
  <2>1. tripped' = {}
    BY <1>1, <1>5 DEF SinkInv, Ticking
  <2> QED
    BY <1>2, <1>4, <2>1 DEF SinkInv
<1>6. CASE run.graphs = automata
  <2>1. StatusOf(Graph, Stepped) = "VIOLATED" => Stepped # None
    BY DEF StatusOf
  <2>2. Name \in tripped => StatusOf(Graph, Stepped) = "VIOLATED"
    BY <1>1, <1>6 DEF SinkInv, Ticking, Done, Violated, Graph, Stepped
  <2>3. ASSUME NEW n \in tripped' PROVE Violated(automata, autoState', n)
    <3>1. CASE n = Name
      <4>1. StatusOf(Graph, Stepped) = "VIOLATED"
        BY <1>1, <2>2, <2>3, <3>1
      <4>2. Name \in DOMAIN autoState' /\ autoState'[Name] = Stepped
        BY <1>1, <2>1, <4>1 DEF Assign
      <4> QED
        BY <1>1, <1>6, <3>1, <4>1, <4>2 DEF Violated, Graph
    <3>2. CASE n # Name
      <4>1. Violated(automata, autoState, n)
        BY <1>1, <2>3, <3>2 DEF SinkInv
      <4>2. n \in DOMAIN autoState => n \in DOMAIN autoState' /\ autoState'[n] = autoState[n]
        BY <1>1, <3>2 DEF Assign
      <4> QED
        BY <4>1, <4>2 DEF Violated
    <3> QED
      BY <3>1, <3>2
  <2>4. ASSUME NEW n \in tripped' \cap Done PROVE Violated(run.graphs, run.states, n)
    <3>1. CASE n = Name
      BY <1>1, <1>6, <2>2, <2>4, <3>1 DEF SinkInv, GraphsInv, Violated, Graph, Stepped
    <3>2. CASE n # Name
      BY <1>1, <1>6, <2>4, <3>2 DEF SinkInv, Ticking
    <3> QED
      BY <3>1, <3>2
  <2> QED
    BY <1>1, <1>2, <1>3, <1>4, <1>6, <2>3, <2>4 DEF SinkInv, Violated
<1> QED
  BY <1>5, <1>6

LEMMA SinkStep == Typed /\ SinkInv /\ [Next]_vars => SinkInv'
<1> SUFFICES ASSUME Typed, SinkInv, [Next]_vars PROVE SinkInv'
  OBVIOUS
<1>0. RunOK
  BY DEF Typed
<1>1. CASE Wake \/ Count \/ Publish \/ EndOfTick
  <2>1. run' = run \/ run'.at \notin {"look", "put"}
    <3>1. CASE Wake
      BY <1>0, <3>1 DEF Wake, RunOK
    <3>2. CASE Count
      BY <1>0, <3>2 DEF Count, RunOK
    <3>3. CASE Publish \/ EndOfTick
      BY <3>3 DEF Publish, EndOfTick, Waiting
    <3> QED
      BY <1>1, <3>1, <3>2, <3>3
  <2>2. UNCHANGED <<automata, autoState, tripped>>
    BY <1>1 DEF Wake, Count, Publish, EndOfTick, monitor
  <2> QED
    BY <2>1, <2>2, SinkUndisturbed
<1>2. CASE NextEpisode
  BY <1>2, Forgotten DEF NextEpisode, Restarted, Waiting
<1>3. ASSUME NEW o \in Operators, Forget(o) \/ Reinit(o) PROVE SinkInv'
  BY <1>3, Forgotten DEF Forget, Reinit, Restarted
<1>4. ASSUME NEW o \in Operators, Recompile(o) PROVE SinkInv'
  BY <1>4, Forgotten DEF Recompile
<1>5. ASSUME NEW o \in Operators, Handler(o), ~(Forget(o) \/ Reinit(o) \/ Recompile(o))
      PROVE  SinkInv'
  <2>1. UNCHANGED <<automata, autoState, tripped, run>>
    BY <1>5, Zenon DEF Handler, Command, Rewind, SetState, Enter, Flag, Announce, Emit, Call,
                       LoadSpec, Adopt, Restep, Report, monitor
  <2> QED
    BY <2>1, SinkUndisturbed
<1>6. ASSUME NEW p \in Pages, Subscribe(p) \/ Replay(p) \/ Unsubscribe(p) PROVE SinkInv'
  <2>1. UNCHANGED <<monitor, run, tripped>>
    BY <1>6, PageTyped
  <2> QED
    BY <2>1, SinkUndisturbed DEF monitor
<1>7. CASE UNCHANGED vars
  BY <1>7, SinkUndisturbed DEF vars, monitor
<1> QED
  BY <1>0, <1>1, <1>2, <1>3, <1>4, <1>5, <1>6, <1>7, PulseSinks, LookSinks, PutSinks
  DEF Next, Run
-----------------------------------------------------------------------------
(* What the run checks, for every value of the constants.                  *)

MockInv == Typed /\ HearInv /\ StepInv /\ SinkInv

\* The inductive invariant, whatever the threads do between one another's steps.
THEOREM InvariantHolds == Spec => []MockInv
<1>1. Init => MockInv
  BY TypeInit, HearInit, StepInit, SinkInit DEF MockInv
<1>2. MockInv /\ [Next]_vars => MockInv'
  BY TypeStep, HearStep, StepStep, SinkStep DEF MockInv
<1> QED
  BY <1>1, <1>2, PTL DEF Spec

\* No status is missed: when no handler is in the middle of one, every page that
\* listens, and has had its replay, has heard the frames that are latched.
THEOREM NewestHolds == Spec => []NewestIsHeard
<1>1. MockInv => NewestIsHeard
  <2> SUFFICES ASSUME MockInv, \A o \in Operators : op[o].at \notin {"emit", "call"},
                      NEW p \in Range(subs), page[p].owed = <<>>
               PROVE  page[p].heard = Topics
    BY DEF NewestIsHeard
  <2>1. p \in Pages /\ page[p].heard \subseteq Topics
    BY ListenersArePages DEF MockInv, Typed, PagesOK
  <2>2. ASSUME NEW topic \in Topics PROVE topic \in page[p].heard
    <3>1. OnItsWay(p, topic)
      BY DEF MockInv, HearInv
    <3> QED
      BY <3>1, NothingOwed DEF OnItsWay, WillTell
  <2> QED
    BY <2>1, <2>2
<1> QED
  BY <1>1, InvariantHolds, PTL

\* A mode that was found VIOLATED is so in every later verdict of its run, and no
\* such verdict says CONTINUE.
THEOREM SinkIsKept == Spec => []SinkHolds
<1>1. MockInv => SinkHolds
  <2> SUFFICES ASSUME MockInv, Complete, run.graphs = automata, NEW i \in DOMAIN Declared,
                      Declared[i].name \in tripped
               PROVE  Verdict.modes[i] = "VIOLATED" /\ Verdict.action # "CONTINUE"
    BY DEF SinkHolds
  <2> DEFINE name == Declared[i].name
             modes == [j \in DOMAIN Declared |-> ModeStatus(j)]
  <2>1. name \in tripped \cap Done
    BY DEF MockInv, SinkInv, Violated, Complete, Done
  <2>2. Violated(run.graphs, run.states, name)
    BY <2>1 DEF MockInv, SinkInv, Ticking, Complete
  <2>3. ModeStatus(i) = "VIOLATED"
    BY <2>2 DEF ModeStatus, Violated
  <2>4. modes[i] = "VIOLATED" /\ "VIOLATED" \in Range(modes)
    BY <2>3 DEF Range
  <2>5. /\ Verdict.modes = modes
        /\ Verdict.action = IF "VIOLATED" \in Range(modes) /\ ~Stale THEN "HALT"
                            ELSE IF "VIOLATED" \in Range(modes) \/ Stale THEN "WARN"
                            ELSE "CONTINUE"
    BY DEF Verdict
  <2> HIDE DEF modes
  <2> QED
    BY <2>4, <2>5
<1> QED
  BY <1>1, InvariantHolds, PTL

\* The type invariant; and between ticks the step is one of the episode.
THEOREM StepHolds == Spec => []StepWithinEpisode
<1>1. MockInv => StepWithinEpisode
  <2> SUFFICES ASSUME MockInv PROVE StepWithinEpisode
    OBVIOUS
  <2>1. TypeOK
    BY ListenersArePages DEF MockInv, Typed, TypeOK, Modes, PagesOK
  <2> QED
    BY <2>1 DEF MockInv, StepInv, NoRestep, StepWithinEpisode
<1> QED
  BY <1>1, InvariantHolds, PTL
=============================================================================
