--------------------------- MODULE OneStepPerTick ---------------------------
(***************************************************************************)
(* What the ledger promises to the automaton: inside one run of the clock  *)
(* ticks are stepped forward only, each at most once, and a run of the     *)
(* clock that was left is never returned to.                               *)
(***************************************************************************)
EXTENDS Integers

CONSTANT None

VARIABLES stream,   \* the run of the clock being followed, None before any
          high,     \* the last tick stepped in it, None before the first
          parity    \* the number of steps so far, modulo 2: no step is a stutter

Init == stream = None /\ high = None /\ parity = 0

Forward == /\ high' \in Nat
           /\ high # None => high' > high
           /\ parity' = 1 - parity

Step == Forward /\ UNCHANGED stream

\* The first run is adopted without dropping what was stepped before it.
FirstStream == /\ stream = None /\ stream' \in Nat
               /\ Forward \/ UNCHANGED <<high, parity>>

NewStream == /\ stream # None
             /\ stream' \in Nat /\ stream' > stream
             /\ \/ high' \in Nat /\ parity' = 1 - parity
                \/ high' = None /\ UNCHANGED parity

Next == Step \/ FirstStream \/ NewStream

Spec == Init /\ [][Next]_<<stream, high, parity>>
=============================================================================
