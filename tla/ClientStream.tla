---------------------------- MODULE ClientStream ----------------------------
(***************************************************************************)
(* backend/gateway.py, class ClientStream: the bounded queue of one stream *)
(* client.  The bus's thread offers and never waits; the client's thread   *)
(* takes.  A stream is a record, each method an operator.                  *)
(***************************************************************************)
EXTENDS Integers, Sequences

CONSTANT MaxLen   \* queue_size

ASSUME StreamAssumption == MaxLen \in Nat \ {0}

\* items: the frames waiting, oldest first, each the number it was offered as.
Stream == [items : Seq(Nat), dropped : Nat, closed : BOOLEAN]

NewStream == [items |-> <<>>, dropped |-> 0, closed |-> FALSE]

Full(s) == Len(s.items) >= MaxLen

\* The oldest frame goes when there is no room for the newest.
OfferDropsNewest(s, item) ==
  [s EXCEPT !.items = IF Full(s) THEN @ ELSE Append(@, item),
            !.dropped = IF Full(s) THEN @ + 1 ELSE @]
OfferOpen(s, item) ==
  [s EXCEPT !.items = Append(IF Full(s) THEN Tail(@) ELSE @, item),
            !.dropped = IF Full(s) THEN @ + 1 ELSE @]

Offer(s, item) == IF s.closed THEN s ELSE OfferOpen(s, item)

\* take returns an item, with the count of everything shed so far.
CanTake(s) == ~s.closed /\ s.items # <<>>
Take(s)    == [item |-> Head(s.items), dropped |-> s.dropped,
               stream |-> [s EXCEPT !.items = Tail(@)]]

Close(s) == [s EXCEPT !.items = <<>>, !.closed = TRUE]
=============================================================================
