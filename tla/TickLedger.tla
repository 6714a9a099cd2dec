----------------------------- MODULE TickLedger -----------------------------
(***************************************************************************)
(* The admission rule of core/manifest.py: which tick index may step the   *)
(* automaton.  A ledger is a value (the TickLedger object's attributes     *)
(* that some later decision reads); Admit returns what one observation     *)
(* does to it.  The attributes missed, total_missed, redelivered, ahead,   *)
(* implicit and epochs are counters nothing in the program reads back and  *)
(* are left out; the gap of one admission is a result of Admit.            *)
(***************************************************************************)
EXTENDS Integers

CONSTANT None                        \* Python's None: no value

ASSUME NoneAssumption == None \notin Int

Index == Nat \cup {None}

\* lastSeq is the high-water mark of the stream numbered by the clock run
\* epoch; implicitSeq numbers the payloads that name no tick.
Ledger == [lastSeq : Index, epoch : Index, implicitSeq : Index]

NewLedger == [lastSeq |-> None, epoch |-> None, implicitSeq |-> None]

-----------------------------------------------------------------------------
\* A command's reset starts an episode, not a tick stream: the high-water
\* mark and the epoch are kept.
ResetLedger(l) == [l EXCEPT !.implicitSeq = None]

NewEpoch(l, e) == e # None /\ l.epoch # None /\ e # l.epoch

\* A changed t0 is a restarted clock: a new stream with no high-water mark.
FollowEpoch(l, e) ==
  IF NewEpoch(l, e)
  THEN [lastSeq |-> None, epoch |-> e, implicitSeq |-> None]
  ELSE IF e = None THEN l ELSE [l EXCEPT !.epoch = e]

\* Why an observation that names tick seq may not step, if it may not.  A
\* first index is checked against the clock's own index, a later one against
\* the high-water mark only.
AheadOfClock(l, seq, clockSeq) ==
  l.lastSeq = None /\ clockSeq # None /\ seq > clockSeq
AlreadySteppedAdmitsEqual(l, seq) == l.lastSeq # None /\ seq < l.lastSeq
AlreadyStepped(l, seq) == l.lastSeq # None /\ seq <= l.lastSeq

Refused(l, seq, clockSeq) ==
  /\ seq # None
  /\ AheadOfClock(l, seq, clockSeq) \/ AlreadyStepped(l, seq)

GapOffByOne(l, seq) ==
  IF seq = None \/ l.lastSeq = None THEN 0 ELSE seq - l.lastSeq
Gap(l, seq) ==
  IF seq = None \/ l.lastSeq = None THEN 0 ELSE seq - l.lastSeq - 1

\* The index a payload without one is stepped under.
NextImplicit(l) == IF l.implicitSeq = None THEN 0 ELSE l.implicitSeq + 1

StepLedger(l, seq) ==
  IF seq = None THEN [l EXCEPT !.implicitSeq = NextImplicit(l)]
                ELSE [l EXCEPT !.lastSeq = seq]

\* The Admission an observation gets, with the ledger it leaves behind.
Admit(l, seq, epoch, clockSeq) ==
  LET f    == FollowEpoch(l, epoch)
      step == ~Refused(f, seq, clockSeq)
  IN  [ledger |-> IF step THEN StepLedger(f, seq) ELSE f,
       step   |-> step,
       seq    |-> IF seq = None THEN NextImplicit(f) ELSE seq,
       missed |-> IF step THEN Gap(f, seq) ELSE 0]
=============================================================================
