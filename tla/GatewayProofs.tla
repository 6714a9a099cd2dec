--------------------------- MODULE GatewayProofs ---------------------------
(***************************************************************************)
(* What Gateway shows with three connections, for any set of connections   *)
(* and specs, any budgets and any queue: the budgets, the losses the       *)
(* streams count, and the pushes nobody overlaps.                          *)
(***************************************************************************)
EXTENDS Gateway, FiniteSetTheorems, TLAPS

\* The types by the parts that change together.
HandlersOK ==
  /\ pc \in [Handlers -> PC] /\ holds \in [Handlers -> BOOLEAN]
  /\ requests \in 0..MaxRequests /\ streams \in 0..MaxStreams

FramesOK ==
  /\ stream \in [Handlers -> Stream]
  /\ sending \in [Handlers -> Item \cup {None}] /\ gone \subseteq Handlers
  /\ offered \in [Handlers -> Nat] /\ got \in [Handlers -> Nat]
  /\ told \in [Handlers -> Nat]

ListenersOK == listening \subseteq Handlers /\ pending \subseteq Handlers

BusOK ==
  /\ post \in [Handlers -> Post \cup {None}]
  /\ tracked \in BOOLEAN /\ latched \in Specs \cup {None}
  /\ specWire \in Seq(Message) /\ statusWire \in Seq(Message)
  /\ monitorStatus \in Specs \cup {None}

LEMMA TypeSplit ==
  TypeOK <=> mix \in Mixes /\ HandlersOK /\ ListenersOK /\ FramesOK /\ BusOK
BY DEF TypeOK, HandlersOK, ListenersOK, FramesOK, BusOK
-----------------------------------------------------------------------------
(* The budgets.                                                            *)

Streaming == {h \in Handlers : pc[h] \in InStream}
Holding   == {h \in Handlers : holds[h]}

StreamsInv  == IsFiniteSet(Streaming) /\ streams = Cardinality(Streaming)
RequestsInv == IsFiniteSet(Holding) /\ requests = Cardinality(Holding)

\* A thread that is free holds no slot: what it takes next it does not have yet.
HoldsInv ==
  \A h \in Handlers :
    /\ pc[h] = "free" => ~holds[h]
    /\ pc[h] \in InRequest \ {"leaving"} => holds[h]
    /\ pc[h] \in InStream \ {"admitted"} => ~holds[h]

BudgetInv == HandlersOK /\ StreamsInv /\ RequestsInv /\ HoldsInv

\* One thread goes on, the others stay where they are.
LEMMA GoesStep ==
  ASSUME HandlersOK, NEW h \in Handlers, NEW from, NEW to \in PC, Goes(h, from, to)
  PROVE  /\ pc' \in [Handlers -> PC] /\ pc[h] = from /\ pc'[h] = to
         /\ \A g \in Handlers : g # h => pc'[g] = pc[g]
BY DEF HandlersOK, Goes

\* A stream's slot is taken with the step into the stream and given back with
\* the step out of it.
LEMMA StreamSlots ==
  ASSUME BudgetInv, NEW h \in Handlers, NEW from, NEW to \in PC, Goes(h, from, to),
         \/ streams' = streams /\ (from \in InStream <=> to \in InStream)
         \/ /\ streams < MaxStreams /\ streams' = streams + 1
            /\ from \notin InStream /\ to \in InStream
         \/ /\ streams' = IF streams > 0 THEN streams - 1 ELSE 0
            /\ from \in InStream /\ to \notin InStream
  PROVE  StreamsInv' /\ streams' \in 0..MaxStreams
<1>0. IsFiniteSet(Streaming) /\ streams = Cardinality(Streaming) /\ streams \in 0..MaxStreams
  BY DEF BudgetInv, StreamsInv, HandlersOK
<1>1. /\ pc[h] = from /\ pc'[h] = to
      /\ \A g \in Handlers : g # h => pc'[g] = pc[g]
  BY GoesStep DEF BudgetInv
<1>2. CASE streams' = streams /\ (from \in InStream <=> to \in InStream)
  <2>1. Streaming' = Streaming
    BY <1>1, <1>2 DEF Streaming
  <2> QED
    BY <1>0, <1>2, <2>1 DEF StreamsInv
<1>3. CASE /\ streams < MaxStreams /\ streams' = streams + 1
           /\ from \notin InStream /\ to \in InStream
  <2>1. Streaming' = Streaming \cup {h} /\ h \notin Streaming
    BY <1>1, <1>3 DEF Streaming
  <2>2. IsFiniteSet(Streaming') /\ Cardinality(Streaming') = streams + 1
    BY <1>0, <2>1, FS_AddElement
  <2> QED
    BY <1>0, <1>3, <2>2, GatewayAssumption DEF StreamsInv
<1>4. CASE /\ streams' = IF streams > 0 THEN streams - 1 ELSE 0
           /\ from \in InStream /\ to \notin InStream
  <2>1. Streaming' = Streaming \ {h} /\ h \in Streaming
    BY <1>1, <1>4 DEF Streaming
  <2>2. IsFiniteSet(Streaming') /\ Cardinality(Streaming') = streams - 1
    BY <1>0, <2>1, FS_RemoveElement
  <2>3. Cardinality(Streaming') \in Nat
    BY <2>2, FS_CardinalityType
  <2> QED
    BY <1>0, <1>4, <2>2, <2>3, GatewayAssumption DEF StreamsInv
<1> QED
  BY <1>2, <1>3, <1>4

\* So is a request's, but that a second release gives nothing back.
LEMMA RequestTaken ==
  ASSUME BudgetInv, NEW h \in Handlers, ~holds[h], requests < MaxRequests,
         requests' = requests + 1, holds' = [holds EXCEPT ![h] = TRUE]
  PROVE  /\ RequestsInv' /\ holds' \in [Handlers -> BOOLEAN] /\ requests' \in 0..MaxRequests
         /\ holds'[h] /\ \A g \in Handlers : g # h => holds'[g] = holds[g]
<1>0. /\ IsFiniteSet(Holding) /\ requests = Cardinality(Holding) /\ requests \in 0..MaxRequests
      /\ holds \in [Handlers -> BOOLEAN]
  BY DEF BudgetInv, RequestsInv, HandlersOK
<1>1. Holding' = Holding \cup {h} /\ h \notin Holding
  BY <1>0 DEF Holding
<1>2. IsFiniteSet(Holding') /\ Cardinality(Holding') = requests + 1
  BY <1>0, <1>1, FS_AddElement
<1> QED
  BY <1>0, <1>2, GatewayAssumption DEF RequestsInv

LEMMA RequestReleased ==
  ASSUME BudgetInv, NEW h \in Handlers, Release(h)
  PROVE  /\ RequestsInv' /\ holds' \in [Handlers -> BOOLEAN] /\ requests' \in 0..MaxRequests
         /\ ~holds'[h] /\ \A g \in Handlers : g # h => holds'[g] = holds[g]
<1>0. /\ IsFiniteSet(Holding) /\ requests = Cardinality(Holding) /\ requests \in 0..MaxRequests
      /\ holds \in [Handlers -> BOOLEAN]
  BY DEF BudgetInv, RequestsInv, HandlersOK
<1>1. /\ holds' = [holds EXCEPT ![h] = FALSE]
      /\ requests' = IF holds[h] /\ requests > 0 THEN requests - 1 ELSE requests
      /\ Holding' = Holding \ {h}
  BY <1>0 DEF Release, Holding
<1>2. CASE holds[h]
  <2>1. h \in Holding
    BY <1>2 DEF Holding
  <2>2. IsFiniteSet(Holding') /\ Cardinality(Holding') = requests - 1
    BY <1>0, <1>1, <2>1, FS_RemoveElement
  <2>3. Cardinality(Holding') \in Nat
    BY <2>2, FS_CardinalityType
  <2> QED
    BY <1>0, <1>1, <1>2, <2>2, <2>3, GatewayAssumption DEF RequestsInv
<1>3. CASE ~holds[h]
  <2>1. Holding' = Holding
    BY <1>1, <1>3 DEF Holding
  <2> QED
    BY <1>0, <1>1, <1>3, <2>1 DEF RequestsInv
<1> QED
  BY <1>2, <1>3

\* The places a thread may go from and to without touching its request's slot.
LEMMA SlotKept ==
  ASSUME BudgetInv, NEW h \in Handlers, NEW from, NEW to \in PC \ {"free", "admitted"},
         Goes(h, from, to), UNCHANGED <<holds, requests>>,
         from \in InRequest \ {"leaving"} \/ to = "leaving"
           \/ from \in InStream \ {"admitted"},
         to \in InRequest \ {"leaving"} => from \in InRequest \ {"leaving"},
         to \in InStream => from \in InStream \ {"admitted"}
  PROVE  HoldsInv' /\ RequestsInv'
<1>1. /\ pc[h] = from /\ pc'[h] = to
      /\ \A g \in Handlers : g # h => pc'[g] = pc[g]
  BY GoesStep DEF BudgetInv
<1>2. HoldsInv'
  BY <1>1 DEF BudgetInv, HoldsInv
<1> QED
  BY <1>2 DEF BudgetInv, RequestsInv, Holding

LEMMA BudgetInit == Init => BudgetInv
<1> SUFFICES ASSUME Init PROVE BudgetInv
  OBVIOUS
<1>1. HandlersOK /\ HoldsInv
  BY GatewayAssumption DEF Init, HandlersOK, HoldsInv, PC, InRequest, InStream
<1>2. Streaming = {} /\ Holding = {} /\ streams = 0 /\ requests = 0
  BY DEF Init, Streaming, Holding, InStream
<1> QED
  BY <1>1, <1>2, FS_EmptySet DEF BudgetInv, StreamsInv, RequestsInv

LEMMA BudgetStep == mix \in Mixes /\ BudgetInv /\ [Next]_vars => BudgetInv'
<1> SUFFICES ASSUME mix \in Mixes, BudgetInv, [Next]_vars PROVE BudgetInv'
  OBVIOUS
<1>0. HandlersOK /\ HoldsInv /\ StreamsInv /\ RequestsInv
  BY DEF BudgetInv
<1>1. CASE UNCHANGED handlers
  BY <1>0, <1>1 DEF BudgetInv, HandlersOK, HoldsInv, StreamsInv, RequestsInv, Streaming,
                    Holding, handlers
<1>2. ASSUME NEW h \in Handlers, Route(h) PROVE BudgetInv'
  <2>1. PICK kind \in {"get", "stream", "post"} : Goes(h, "free", kind)
    BY <1>2, GatewayAssumption DEF Route
  <2>2. /\ pc' \in [Handlers -> PC] /\ pc[h] = "free" /\ pc'[h] = kind
        /\ \A g \in Handlers : g # h => pc'[g] = pc[g]
    BY <1>0, <2>1, GoesStep DEF PC
  <2>3. StreamsInv' /\ streams' \in 0..MaxStreams
    <3>1. kind \in PC /\ "free" \notin InStream /\ kind \notin InStream /\ streams' = streams
      BY <1>2 DEF PC, InStream, Route
    <3> QED
      BY <2>1, <3>1, StreamSlots
  <2>4. /\ RequestsInv' /\ holds' \in [Handlers -> BOOLEAN] /\ requests' \in 0..MaxRequests
        /\ holds'[h] /\ \A g \in Handlers : g # h => holds'[g] = holds[g]
    BY <1>0, <1>2, <2>2, RequestTaken DEF Route, HoldsInv
  <2>5. HoldsInv'
    BY <1>0, <2>2, <2>4 DEF HoldsInv, InStream
  <2> QED
    BY <2>2, <2>3, <2>4, <2>5 DEF BudgetInv, HandlersOK
<1>3. ASSUME NEW h \in Handlers, NEW from, NEW to \in PC \ {"free"}, Goes(h, from, to),
             Release(h), streams' = streams,
             from = "admitted" /\ to = "handshake"
      PROVE  BudgetInv'
  <2>1. /\ pc' \in [Handlers -> PC] /\ pc[h] = from /\ pc'[h] = to
        /\ \A g \in Handlers : g # h => pc'[g] = pc[g]
    BY <1>0, <1>3, GoesStep
  <2>2. StreamsInv' /\ streams' \in 0..MaxStreams
    BY <1>3, StreamSlots DEF InStream
  <2>3. /\ RequestsInv' /\ holds' \in [Handlers -> BOOLEAN] /\ requests' \in 0..MaxRequests
        /\ ~holds'[h] /\ \A g \in Handlers : g # h => holds'[g] = holds[g]
    BY <1>3, RequestReleased
  <2>4. HoldsInv'
    BY <1>0, <1>3, <2>1, <2>3 DEF HoldsInv, InRequest
  <2> QED
    BY <2>1, <2>2, <2>3, <2>4 DEF BudgetInv, HandlersOK
<1>4. ASSUME NEW h \in Handlers, Leave(h) PROVE BudgetInv'
  <2>1. /\ pc' \in [Handlers -> PC] /\ pc[h] = "leaving" /\ pc'[h] = "free"
        /\ \A g \in Handlers : g # h => pc'[g] = pc[g]
    BY <1>0, <1>4, GoesStep DEF Leave, PC
  <2>2. StreamsInv' /\ streams' \in 0..MaxStreams
    <3>1. /\ "free" \in PC /\ "free" \notin InStream /\ "leaving" \notin InStream
          /\ streams' = streams /\ Goes(h, "leaving", "free")
      BY <1>4 DEF PC, InStream, Leave
    <3> QED
      BY <3>1, StreamSlots
  <2>3. /\ RequestsInv' /\ holds' \in [Handlers -> BOOLEAN] /\ requests' \in 0..MaxRequests
        /\ ~holds'[h] /\ \A g \in Handlers : g # h => holds'[g] = holds[g]
    BY <1>4, RequestReleased DEF Leave
  <2>4. HoldsInv'
    BY <1>0, <2>1, <2>3 DEF HoldsInv, InRequest, InStream
  <2> QED
    BY <2>1, <2>2, <2>3, <2>4 DEF BudgetInv, HandlersOK
<1>5. ASSUME NEW h \in Handlers, Goes(h, "stream", "admitted"), streams < MaxStreams,
             streams' = streams + 1, UNCHANGED <<holds, requests>>
      PROVE  BudgetInv'
  <2>1. /\ pc' \in [Handlers -> PC] /\ pc[h] = "stream" /\ pc'[h] = "admitted"
        /\ \A g \in Handlers : g # h => pc'[g] = pc[g]
    BY <1>0, <1>5, GoesStep DEF PC
  <2>2. StreamsInv' /\ streams' \in 0..MaxStreams
    BY <1>5, StreamSlots DEF InStream, PC
  <2>3. HoldsInv' /\ RequestsInv'
    BY <1>0, <1>5, <2>1 DEF HoldsInv, RequestsInv, Holding, InRequest, InStream, PC
  <2> QED
    BY <1>0, <1>5, <2>1, <2>2, <2>3 DEF BudgetInv, HandlersOK
<1>6. ASSUME NEW h \in Handlers, NEW from \in PC, NEW to \in PC \ {"free", "admitted"},
             Goes(h, from, to), UNCHANGED <<holds, requests, streams>>,
             \/ <<from, to>> \in {<<"get", "leaving">>, <<"get", "proxy">>, <<"proxy", "leaving">>,
                                  <<"stream", "leaving">>}
             \/ <<from, to>> \in {<<"handshake", "unwinding">>, <<"handshake", "connect">>,
                                  <<"handshake", "open">>, <<"open", "unwinding">>,
                                  <<"connect", "relay">>, <<"connect", "unwinding">>,
                                  <<"relay", "unwinding">>}
             \/ <<from, to>> \in {<<"post", "resolved">>, <<"resolved", "ready">>,
                                  <<"ready", "listening">>, <<"listening", "waiting">>,
                                  <<"waiting", "leaving">>}
      PROVE  BudgetInv'
  <2>1. pc' \in [Handlers -> PC]
    BY <1>0, <1>6, GoesStep
  <2>2. from \in InStream <=> to \in InStream
    BY <1>6 DEF InStream
  <2>3. StreamsInv' /\ streams' \in 0..MaxStreams
    BY <1>6, <2>2, StreamSlots
  <2>4. HoldsInv' /\ RequestsInv'
    <3>1. /\ from \in InRequest \ {"leaving"} \/ to = "leaving"
               \/ from \in InStream \ {"admitted"}
          /\ to \in InRequest \ {"leaving"} => from \in InRequest \ {"leaving"}
          /\ to \in InStream => from \in InStream \ {"admitted"}
      BY <1>6 DEF InStream, InRequest, PC
    <3> QED
      BY <1>6, <3>1, SlotKept
  <2> QED
    BY <1>0, <1>6, <2>1, <2>3, <2>4 DEF BudgetInv, HandlersOK
<1>7. ASSUME NEW h \in Handlers, ReleaseStream(h) PROVE BudgetInv'
  <2>1. /\ Goes(h, "unwinding", "leaving") /\ UNCHANGED <<holds, requests>>
        /\ "leaving" \in PC \ {"free", "admitted"} /\ "unwinding" \in InStream \ {"admitted"}
        /\ "leaving" \notin InStream
        /\ streams' = IF streams > 0 THEN streams - 1 ELSE 0
    BY <1>7 DEF ReleaseStream, PC, InStream
  <2>2. pc' \in [Handlers -> PC]
    BY <1>0, <2>1, GoesStep
  <2>3. StreamsInv' /\ streams' \in 0..MaxStreams
    BY <2>1, StreamSlots
  <2>4. HoldsInv' /\ RequestsInv'
    BY <2>1, SlotKept
  <2> QED
    BY <1>0, <2>1, <2>2, <2>3, <2>4 DEF BudgetInv, HandlersOK
<1>8. ASSUME NEW h \in Handlers, Handler(h) PROVE BudgetInv'
  <2>1. CASE Reply(h) \/ AskClock(h) \/ ProxyClock(h)
    BY <1>6, <2>1 DEF Reply, AskClock, ProxyClock, PC
  <2>2. CASE AdmitStream(h)
    BY <1>5, <1>6, <2>2 DEF AdmitStream, PC
  <2>3. CASE HandOver(h)
    BY <1>3, <2>3 DEF HandOver, PC
  <2>4. CASE Handshake(h) \/ OpenStream(h)
    BY <1>6, <2>4 DEF Handshake, OpenStream, PC
  <2>5. CASE TakeFrame(h)
    BY <1>1, <2>5 DEF TakeFrame
  <2>6. CASE EndStream(h) \/ ConnectClock(h) \/ EndRelay(h)
    BY <1>6, <2>6 DEF EndStream, LeaveLoop, ConnectClock, EndRelay, PC
  <2>7. CASE (\E s \in Specs : Resolve(h, s)) \/ ReadBefore(h) \/ EndPost(h)
    BY <1>6, <2>7 DEF Resolve, ReadBefore, EndPost, PC
  <2>8. CASE Push(h)
    BY <1>6, <2>8 DEF Push, SubscribeThenPublish, PC
  <2> QED
    BY <1>2, <1>4, <1>7, <1>8, <2>1, <2>2, <2>3, <2>4, <2>5, <2>6, <2>7, <2>8 DEF Handler
<1>9. CASE UNCHANGED vars
  BY <1>1, <1>9 DEF vars
<1> QED
  BY <1>1, <1>8, <1>9 DEF Next, SendFrame, HangUp, ReaderStops, OnMessage, Frame,
                          MonitorAnswers, OnLatched
-----------------------------------------------------------------------------
(* The streams.                                                            *)

\* Only an open stream's thread has an item in its hands.
SendingInv == \A h \in Handlers : sending[h] # None => pc[h] = "open"

\* The last frame its thread has taken, and the loss that was counted by then.
LastTaken(h) == IF sending[h] = None THEN got[h] ELSE sending[h].item
LastTold(h)  == IF sending[h] = None THEN told[h] ELSE sending[h].dropped

\* What a thread is writing accounts for the frames left out before it.
InHand(h) ==
  sending[h] # None =>
    /\ sending[h].item \in got[h] + 1 .. offered[h]
    /\ sending[h].dropped = told[h] + sending[h].item - got[h] - 1

\* A queue that holds the newest of n frames, with no hole.
Newest(queue, n) == \A i \in 1..Len(queue) : queue[i] = n - Len(queue) + i

\* The frames a stream does not hold any more.
Older(h) == offered[h] - Len(stream[h].items)

\* The queue of a stream still open holds the newest frames; each older one was
\* taken, or counted when it was shed.
InQueue(h) ==
  ~stream[h].closed =>
    /\ Newest(stream[h].items, offered[h])
    /\ LastTaken(h) <= Older(h)
    /\ stream[h].dropped = LastTold(h) + Older(h) - LastTaken(h)

LossInv == FramesOK /\ SendingInv /\ \A h \in Handlers : InHand(h) /\ InQueue(h)

\* The newest frame goes in at the end, and the oldest comes out at the head.
LEMMA NewestAppended ==
  ASSUME NEW queue \in Seq(Nat), NEW n \in Nat, Newest(queue, n)
  PROVE  /\ Append(queue, n + 1) \in Seq(Nat) /\ Len(Append(queue, n + 1)) = Len(queue) + 1
         /\ Newest(Append(queue, n + 1), n + 1)
<1> DEFINE new == Append(queue, n + 1)
<1>1. /\ new \in Seq(Nat) /\ Len(new) = Len(queue) + 1 /\ new[Len(queue) + 1] = n + 1
      /\ \A i \in 1..Len(queue) : new[i] = queue[i]
      /\ Len(queue) \in Nat
  OBVIOUS
<1> HIDE DEF new
<1>2. ASSUME NEW i \in 1..Len(new) PROVE new[i] = (n + 1) - Len(new) + i
  <2>1. CASE i = Len(queue) + 1
    BY <1>1, <2>1
  <2>2. CASE i # Len(queue) + 1
    <3>1. i \in 1..Len(queue)
      BY <1>1, <2>2
    <3>2. queue[i] = n - Len(queue) + i
      BY <3>1 DEF Newest
    <3>3. new[i] = queue[i]
      BY <1>1, <3>1
    <3> QED
      BY <1>1, <3>2, <3>3
  <2> QED
    BY <2>1, <2>2
<1>3. Newest(new, n + 1)
  BY <1>2 DEF Newest
<1> QED
  BY <1>1, <1>3 DEF new

LEMMA NewestTaken ==
  ASSUME NEW queue \in Seq(Nat), NEW n \in Nat, queue # <<>>, Newest(queue, n)
  PROVE  /\ Tail(queue) \in Seq(Nat) /\ Len(Tail(queue)) = Len(queue) - 1
         /\ Newest(Tail(queue), n)
         /\ Head(queue) = n - Len(queue) + 1 /\ Head(queue) \in Nat
<1> DEFINE rest == Tail(queue)
<1>1. /\ rest \in Seq(Nat) /\ Len(rest) = Len(queue) - 1 /\ Len(queue) \in Nat \ {0}
      /\ \A i \in 1..Len(rest) : rest[i] = queue[i + 1]
      /\ Head(queue) = queue[1] /\ queue[1] \in Nat
  OBVIOUS
<1> HIDE DEF rest
<1>2. ASSUME NEW i \in 1..Len(rest) PROVE rest[i] = n - Len(rest) + i
  <2>1. i + 1 \in 1..Len(queue) /\ rest[i] = queue[i + 1]
    BY <1>1
  <2>2. queue[i + 1] = n - Len(queue) + (i + 1)
    BY <2>1 DEF Newest
  <2> QED
    BY <1>1, <2>1, <2>2
<1>3. Newest(rest, n)
  BY <1>2 DEF Newest
<1>4. queue[1] = n - Len(queue) + 1
  BY <1>1 DEF Newest
<1> QED
  BY <1>1, <1>3, <1>4 DEF rest

LEMMA OpenStreamType ==
  ASSUME NEW queue \in Seq(Nat), NEW d \in Nat, NEW o,
         o = [items |-> queue, dropped |-> d, closed |-> FALSE]
  PROVE  /\ o \in Stream /\ ~o.closed /\ o.items = queue /\ o.dropped = d
BY DEF Stream

\* Offering: the queue still holds the newest frames, and the one that goes is
\* counted.
LEMMA OfferKeeps ==
  ASSUME NEW s \in Stream, NEW n \in Nat, ~s.closed, Newest(s.items, n),
         NEW m, m = n + 1, NEW o, o = Offer(s, m)
  PROVE  /\ o \in Stream /\ ~o.closed
         /\ Newest(o.items, m)
         /\ o.dropped + Len(o.items) = s.dropped + Len(s.items) + 1
         /\ Len(o.items) <= Len(s.items) + 1
<1>0. s.items \in Seq(Nat) /\ Len(s.items) \in Nat /\ s.dropped \in Nat /\ s.closed = FALSE
  BY DEF Stream
<1> SUFFICES \E queue \in Seq(Nat), d \in Nat :
               /\ o = [items |-> queue, dropped |-> d, closed |-> FALSE]
               /\ Newest(queue, m) /\ d + Len(queue) = s.dropped + Len(s.items) + 1
               /\ Len(queue) <= Len(s.items) + 1
  BY OpenStreamType
<1>1. CASE Full(s)
  <2> DEFINE queue == Append(Tail(s.items), m)
             d == s.dropped + 1
  <2>1. s.items # <<>>
    BY <1>0, <1>1, StreamAssumption DEF Full
  <2>2. /\ Tail(s.items) \in Seq(Nat) /\ Len(Tail(s.items)) = Len(s.items) - 1
        /\ Newest(Tail(s.items), n)
    BY <1>0, <2>1, NewestTaken
  <2>3. queue \in Seq(Nat) /\ Len(queue) = Len(s.items) - 1 + 1 /\ Newest(queue, m)
    BY <2>2, NewestAppended
  <2>4. o = [items |-> queue, dropped |-> d, closed |-> FALSE]
    BY <1>0, <1>1 DEF Offer, OfferOpen, Stream
  <2>5. d \in Nat /\ d = s.dropped + 1
    BY <1>0
  <2> HIDE DEF queue, d
  <2>6. d + Len(queue) = s.dropped + Len(s.items) + 1 /\ Len(queue) <= Len(s.items) + 1
    <3> DEFINE before == s.dropped
               len == Len(s.items)
    <3>1. before \in Nat /\ len \in Nat /\ d = before + 1 /\ Len(queue) = len - 1 + 1
      BY <1>0, <2>3, <2>5
    <3> HIDE DEF before, len
    <3>2. d + Len(queue) = before + len + 1 /\ Len(queue) <= len + 1
      BY <3>1
    <3> QED
      BY <3>2 DEF before, len
  <2> QED
    BY <2>3, <2>4, <2>5, <2>6
<1>2. CASE ~Full(s)
  <2> DEFINE queue == Append(s.items, m)
  <2>1. queue \in Seq(Nat) /\ Len(queue) = Len(s.items) + 1 /\ Newest(queue, m)
    BY <1>0, NewestAppended
  <2>2. o = [items |-> queue, dropped |-> s.dropped, closed |-> FALSE]
    BY <1>0, <1>2 DEF Offer, OfferOpen, Stream
  <2> HIDE DEF queue
  <2>3. /\ s.dropped + Len(queue) = s.dropped + Len(s.items) + 1
        /\ Len(queue) <= Len(s.items) + 1
    <3> DEFINE d == s.dropped
               len == Len(s.items)
    <3>1. d \in Nat /\ len \in Nat /\ Len(queue) = len + 1
      BY <1>0, <2>1
    <3> HIDE DEF d, len
    <3>2. d + Len(queue) = d + len + 1 /\ Len(queue) <= len + 1
      BY <3>1
    <3> QED
      BY <3>2 DEF d, len
  <2> QED
    BY <1>0, <2>1, <2>2, <2>3
<1> QED
  BY <1>1, <1>2

LEMMA LossInit == Init => LossInv
<1> SUFFICES ASSUME Init PROVE LossInv
  OBVIOUS
<1>1. NewStream \in Stream /\ NewStream.items = <<>> /\ NewStream.dropped = 0
  BY DEF NewStream, Stream
<1>2. FramesOK /\ SendingInv
  BY <1>1 DEF Init, FramesOK, SendingInv
<1>3. \A h \in Handlers : InHand(h) /\ InQueue(h)
  BY <1>1 DEF Init, InHand, InQueue, Newest, Older, LastTaken, LastTold
<1> QED
  BY <1>2, <1>3 DEF LossInv

\* The streams of the others are not touched.
OthersKept(h) ==
  \A g \in Handlers \ {h} :
    /\ stream'[g] = stream[g] /\ sending'[g] = sending[g]
    /\ offered'[g] = offered[g] /\ got'[g] = got[g] /\ told'[g] = told[g]
    /\ pc'[g] = pc[g]

LEMMA OneStream ==
  ASSUME LossInv, NEW h \in Handlers, OthersKept(h), FramesOK',
         sending'[h] # None => pc'[h] = "open", InHand(h)', InQueue(h)'
  PROVE  LossInv'
<1>1. \A g \in Handlers \ {h} : InHand(g)' /\ InQueue(g)'
  BY DEF LossInv, OthersKept, InHand, InQueue, Older, LastTaken, LastTold
<1>2. SendingInv'
  BY DEF LossInv, SendingInv, OthersKept
<1> QED
  BY <1>1, <1>2 DEF LossInv

LEMMA OnMessageKeeps ==
  ASSUME LossInv, NEW h \in Handlers, OnMessage(h)
  PROVE  LossInv'
<1>0. FramesOK /\ SendingInv /\ InHand(h) /\ InQueue(h)
  BY DEF LossInv
<1> DEFINE next == offered[h] + 1
           o == Offer(stream[h], next)
<1>1. /\ offered' = [offered EXCEPT ![h] = next] /\ offered'[h] = next
      /\ stream' = [stream EXCEPT ![h] = o]
      /\ sending' = sending /\ got' = got /\ told' = told /\ gone' = gone /\ pc' = pc
  BY <1>0 DEF OnMessage, handlers, FramesOK
<1>2. /\ stream[h] \in Stream /\ offered[h] \in Nat /\ stream[h].items \in Seq(Nat)
      /\ Len(stream[h].items) \in Nat /\ stream[h].dropped \in Nat
      /\ LastTaken(h) \in Nat /\ LastTold(h) \in Nat
      /\ next = offered[h] + 1 /\ next \in Nat
  BY <1>0 DEF FramesOK, Stream, LastTaken, LastTold, Item
<1> HIDE DEF next
<1>3. CASE stream[h].closed
  <2>1. stream' = stream
    BY <1>0, <1>1, <1>3 DEF Offer, FramesOK
  <2>2. FramesOK' /\ OthersKept(h)
    BY <1>0, <1>1, <1>2, <2>1 DEF FramesOK, OthersKept
  <2>3. InHand(h)' /\ InQueue(h)'
    BY <1>0, <1>1, <1>2, <1>3, <2>1 DEF InHand, InQueue, FramesOK, Item
  <2> QED
    BY <1>0, <1>1, <2>2, <2>3, OneStream DEF SendingInv
<1>4. CASE ~stream[h].closed
  <2>1. /\ Newest(stream[h].items, offered[h]) /\ LastTaken(h) <= Older(h)
        /\ stream[h].dropped = LastTold(h) + Older(h) - LastTaken(h)
    BY <1>0, <1>4 DEF InQueue
  <2>2. /\ o \in Stream /\ ~o.closed /\ Newest(o.items, next)
        /\ o.dropped + Len(o.items) = stream[h].dropped + Len(stream[h].items) + 1
        /\ Len(o.items) <= Len(stream[h].items) + 1
    BY <1>2, <1>4, <2>1, OfferKeeps
  <2> HIDE DEF o
  <2>3. FramesOK' /\ OthersKept(h) /\ stream'[h] = o
    BY <1>0, <1>1, <1>2, <2>2 DEF FramesOK, OthersKept
  <2>4. LastTaken(h)' = LastTaken(h) /\ LastTold(h)' = LastTold(h)
    BY <1>1 DEF LastTaken, LastTold
  <2>5. InHand(h)'
    BY <1>0, <1>1, <1>2 DEF InHand, FramesOK, Item
  <2>6. /\ Older(h)' = next - Len(o.items) /\ Len(o.items) \in Nat /\ o.dropped \in Nat
        /\ Older(h) = offered[h] - Len(stream[h].items)
    <3>1. o.items \in Seq(Nat) /\ o.dropped \in Nat
      BY <2>2 DEF Stream
    <3>2. Len(stream'[h].items) = Len(o.items) /\ Len(o.items) \in Nat
      BY <2>3, <3>1
    <3> QED
      BY <1>1, <3>1, <3>2 DEF Older
  <2>7. Newest(stream[h].items, offered[h])'
    BY <1>1, <2>2, <2>3 DEF Newest
  <2>8. LastTaken(h) <= Older(h)' /\ o.dropped = LastTold(h) + Older(h)' - LastTaken(h)
    <3> DEFINE older == Older(h)'
               was == Older(h)
               taken == LastTaken(h)
               toldBy == LastTold(h)
               len == Len(o.items)
               length == Len(stream[h].items)
               d == o.dropped
               dropped == stream[h].dropped
               n == offered[h]
    <3>1. /\ older = next - len /\ was = n - length /\ next = n + 1
          /\ taken <= was /\ dropped = toldBy + was - taken
          /\ d + len = dropped + length + 1 /\ len <= length + 1
      BY <1>2, <2>1, <2>2, <2>6
    <3>2. /\ {next, taken, toldBy, length, dropped, n} \subseteq Nat
          /\ {len, d} \subseteq Nat
      BY <1>2, <2>6
    <3> HIDE DEF older, was, taken, toldBy, len, length, d, dropped, n
    <3>3. taken <= older /\ d = toldBy + older - taken
      BY <3>1, <3>2
    <3> QED
      BY <3>3 DEF older, taken, toldBy, d
  <2>9. InQueue(h)'
    BY <2>3, <2>4, <2>7, <2>8 DEF InQueue
  <2> QED
    BY <1>0, <1>1, <2>3, <2>5, <2>9, OneStream DEF SendingInv
<1> QED
  BY <1>3, <1>4

LEMMA TakeFrameKeeps ==
  ASSUME LossInv, NEW h \in Handlers, TakeFrame(h)
  PROVE  LossInv'
<1>0. FramesOK /\ SendingInv /\ InHand(h) /\ InQueue(h)
  BY DEF LossInv
<1> DEFINE taken == [item |-> Head(stream[h].items), dropped |-> stream[h].dropped]
           rest == [stream[h] EXCEPT !.items = Tail(@)]
<1>1. /\ ~stream[h].closed /\ stream[h].items # <<>> /\ pc[h] = "open" /\ sending[h] = None
      /\ stream' = [stream EXCEPT ![h] = rest]
      /\ sending' = [sending EXCEPT ![h] = taken]
      /\ offered' = offered /\ got' = got /\ told' = told /\ gone' = gone /\ pc' = pc
  BY DEF TakeFrame, CanTake, Take, handlers
<1>2. /\ stream[h].items \in Seq(Nat) /\ offered[h] \in Nat /\ Len(stream[h].items) \in Nat
      /\ stream[h].dropped \in Nat /\ got[h] \in Nat /\ told[h] \in Nat /\ Older(h) \in Int
  BY <1>0 DEF FramesOK, Stream, Older
<1>3. /\ Newest(stream[h].items, offered[h]) /\ got[h] <= Older(h)
      /\ stream[h].dropped = told[h] + Older(h) - got[h]
  BY <1>0, <1>1 DEF InQueue, LastTaken, LastTold
<1>4. /\ Tail(stream[h].items) \in Seq(Nat) /\ Newest(Tail(stream[h].items), offered[h])
      /\ Len(Tail(stream[h].items)) = Len(stream[h].items) - 1
      /\ Head(stream[h].items) = Older(h) + 1 /\ Head(stream[h].items) \in Nat
  BY <1>1, <1>2, <1>3, NewestTaken DEF Older
<1>5. /\ rest \in Stream /\ rest.items = Tail(stream[h].items)
      /\ rest.dropped = stream[h].dropped
  BY <1>0, <1>4 DEF FramesOK, Stream
<1>6. taken \in Item /\ taken # None /\ taken.item = Older(h) + 1
      /\ taken.dropped = stream[h].dropped
  BY <1>2, <1>4, GatewayAssumption DEF Item
<1> HIDE DEF rest, taken
<1>7. FramesOK' /\ OthersKept(h) /\ stream'[h] = rest /\ sending'[h] = taken
  BY <1>0, <1>1, <1>5, <1>6 DEF FramesOK, OthersKept
<1>8. InHand(h)'
  <2>1. /\ Older(h) + 1 \in got[h] + 1 .. offered[h]
        /\ stream[h].dropped = told[h] + (Older(h) + 1) - got[h] - 1
    <3>1. Len(stream[h].items) >= 1
      BY <1>1, <1>2
    <3> DEFINE older == Older(h)
               len == Len(stream[h].items)
               n == offered[h]
    <3>2. /\ n \in Nat /\ len \in Nat /\ len >= 1 /\ older = n - len
          /\ got[h] \in Nat /\ got[h] <= older
          /\ told[h] \in Nat /\ stream[h].dropped = told[h] + older - got[h]
      BY <1>2, <1>3, <3>1 DEF Older
    <3> HIDE DEF older, len, n
    <3>3. older + 1 \in got[h] + 1 .. n /\ stream[h].dropped = told[h] + (older + 1) - got[h] - 1
      BY <3>2
    <3> QED
      BY <3>3 DEF older, n
  <2> QED
    BY <1>1, <1>6, <1>7, <2>1 DEF InHand
<1>9. InQueue(h)'
  <2>1. LastTaken(h)' = Older(h) + 1 /\ LastTold(h)' = stream[h].dropped
    BY <1>6, <1>7 DEF LastTaken, LastTold
  <2>2. Older(h)' = Older(h) + 1
    <3>1. Older(h)' = offered[h] - Len(Tail(stream[h].items))
      BY <1>1, <1>5, <1>7 DEF Older
    <3> QED
      BY <1>2, <1>4, <3>1 DEF Older
  <2>3. Newest(stream[h].items, offered[h])'
    BY <1>1, <1>4, <1>5, <1>7 DEF Newest
  <2>4. stream'[h].dropped = stream[h].dropped
    BY <1>5, <1>7
  <2> QED
    BY <1>2, <2>1, <2>2, <2>3, <2>4 DEF InQueue
<1>10. sending'[h] # None => pc'[h] = "open"
  BY <1>1
<1> QED
  BY <1>7, <1>8, <1>9, <1>10, OneStream

LEMMA SendFrameKeeps ==
  ASSUME LossInv, NEW h \in Handlers, SendFrame(h)
  PROVE  LossInv'
<1>0. FramesOK /\ SendingInv /\ InHand(h) /\ InQueue(h)
  BY DEF LossInv
<1>1. /\ sending[h] # None
      /\ got' = [got EXCEPT ![h] = sending[h].item]
      /\ told' = [told EXCEPT ![h] = sending[h].dropped]
      /\ sending' = [sending EXCEPT ![h] = None]
      /\ stream' = stream /\ offered' = offered /\ gone' = gone /\ pc' = pc
  BY DEF SendFrame, handlers
<1>2. FramesOK' /\ OthersKept(h) /\ sending'[h] = None
  BY <1>0, <1>1 DEF FramesOK, OthersKept, Item
<1>3. LastTaken(h)' = LastTaken(h) /\ LastTold(h)' = LastTold(h)
  BY <1>0, <1>1, <1>2 DEF LastTaken, LastTold, FramesOK
<1>4. InHand(h)' /\ InQueue(h)'
  BY <1>0, <1>1, <1>2, <1>3 DEF InHand, InQueue, Older
<1> QED
  BY <1>2, <1>4, OneStream

\* A stream that begins, or ends, starts again from nothing.
LEMMA AnewKeeps ==
  ASSUME LossInv, NEW h \in Handlers, FramesOK', OthersKept(h),
         stream'[h] = NewStream, sending'[h] = None,
         offered'[h] = 0, got'[h] = 0, told'[h] = 0
  PROVE  LossInv'
<1>1. InHand(h)' /\ InQueue(h)'
  <2>1. stream'[h].items = <<>> /\ stream'[h].dropped = 0 /\ Len(<<>>) = 0
    BY DEF NewStream
  <2>2. LastTaken(h)' = 0 /\ LastTold(h)' = 0
    BY DEF LastTaken, LastTold
  <2>3. Older(h)' = 0
    <3>1. Len(stream'[h].items) = 0
      BY <2>1
    <3> QED
      BY <3>1 DEF Older
  <2> QED
    BY <2>1, <2>2, <2>3 DEF InHand, InQueue, Newest
<1> QED
  BY <1>1, OneStream

LEMMA OpenStreamKeeps ==
  ASSUME LossInv, pc \in [Handlers -> PC], NEW h \in Handlers, OpenStream(h)
  PROVE  LossInv'
<1>1. NewStream \in Stream
  BY DEF NewStream, Stream
<1>2. FramesOK /\ SendingInv
  BY DEF LossInv
<1>3. sending' = sending /\ sending[h] = None
  BY <1>2 DEF OpenStream, Goes, SendingInv
<1>4. /\ FramesOK' /\ OthersKept(h) /\ stream'[h] = NewStream
      /\ offered'[h] = 0 /\ got'[h] = 0 /\ told'[h] = 0
  BY <1>1, <1>2, <1>3 DEF OpenStream, Goes, FramesOK, OthersKept
<1> QED
  BY <1>3, <1>4, AnewKeeps

LEMMA EndStreamKeeps ==
  ASSUME LossInv, pc \in [Handlers -> PC], NEW h \in Handlers, EndStream(h)
  PROVE  LossInv'
<1>1. NewStream \in Stream
  BY DEF NewStream, Stream
<1>2. FramesOK
  BY DEF LossInv
<1>3. /\ FramesOK' /\ OthersKept(h) /\ stream'[h] = NewStream /\ sending'[h] = None
      /\ offered'[h] = 0 /\ got'[h] = 0 /\ told'[h] = 0
  BY <1>1, <1>2 DEF EndStream, LeaveLoop, Goes, FramesOK, OthersKept
<1> QED
  BY <1>3, AnewKeeps

LEMMA ReaderStopsKeeps ==
  ASSUME LossInv, NEW h \in Handlers, ReaderStops(h)
  PROVE  LossInv'
<1>0. FramesOK /\ SendingInv /\ InHand(h) /\ InQueue(h)
  BY DEF LossInv
<1>1. Close(stream[h]) \in Stream /\ Close(stream[h]).closed
  <2>1. stream[h] \in Stream /\ <<>> \in Seq(Nat)
    BY <1>0 DEF FramesOK
  <2> QED
    BY <2>1 DEF Stream, Close
<1>2. /\ stream' = [stream EXCEPT ![h] = Close(stream[h])] /\ sending' = sending
      /\ offered' = offered /\ got' = got /\ told' = told /\ gone' = gone /\ pc' = pc
  BY DEF ReaderStops, handlers
<1>3. FramesOK' /\ OthersKept(h) /\ stream'[h].closed
  BY <1>0, <1>1, <1>2 DEF FramesOK, OthersKept
<1>4. InHand(h)' /\ InQueue(h)'
  BY <1>0, <1>2, <1>3 DEF InHand, InQueue
<1>5. sending'[h] # None => pc'[h] = "open"
  BY <1>0, <1>2 DEF SendingInv
<1> QED
  BY <1>3, <1>4, <1>5, OneStream

\* A step of another part: an open stream stays open.
LEMMA StreamsKept ==
  ASSUME LossInv, UNCHANGED <<stream, sending, offered, got, told>>, gone' \subseteq Handlers,
         \A h \in Handlers : pc[h] = "open" => pc'[h] = "open"
  PROVE  LossInv'
BY DEF LossInv, FramesOK, SendingInv, InHand, InQueue, Older, LastTaken, LastTold

LEMMA OthersKeepStreams ==
  ASSUME LossInv, mix \in Mixes, pc \in [Handlers -> PC], NEW h \in Handlers, Handler(h),
         ~TakeFrame(h), ~OpenStream(h), ~EndStream(h)
  PROVE  LossInv'
<1>1. UNCHANGED <<stream, sending, offered, got, told, gone>>
  BY DEF Handler, Route, Reply, AskClock, ProxyClock, Leave, AdmitStream, HandOver, Handshake,
     ConnectClock, EndRelay, ReleaseStream, Resolve, ReadBefore, Push, EndPost, frames
<1>2. pc[h] # "open" /\ \E to : pc' = [pc EXCEPT ![h] = to]
  BY DEF Handler, Route, Reply, AskClock, ProxyClock, Leave, AdmitStream,
     HandOver, Handshake, ConnectClock, EndRelay, ReleaseStream, Resolve, ReadBefore, Push,
     SubscribeThenPublish, EndPost, Goes
<1>3. \A g \in Handlers : pc[g] = "open" => pc'[g] = "open"
  BY <1>2
<1> QED
  BY <1>1, <1>3, StreamsKept DEF LossInv, FramesOK

LEMMA LossStep == mix \in Mixes /\ HandlersOK /\ LossInv /\ [Next]_vars => LossInv'
<1> SUFFICES ASSUME mix \in Mixes, HandlersOK, LossInv, [Next]_vars PROVE LossInv'
  OBVIOUS
<1>0. pc \in [Handlers -> PC] /\ gone \subseteq Handlers
  BY DEF HandlersOK, LossInv, FramesOK
<1>1. ASSUME NEW h \in Handlers, Handler(h) PROVE LossInv'
  BY <1>0, <1>1, TakeFrameKeeps, OpenStreamKeeps, EndStreamKeeps, OthersKeepStreams
<1>2. ASSUME NEW h \in Handlers, HangUp(h) PROVE LossInv'
  BY <1>0, <1>2, StreamsKept DEF HangUp, handlers
<1>3. CASE Frame \/ MonitorAnswers \/ OnLatched \/ UNCHANGED vars
  <2>1. UNCHANGED <<stream, sending, offered, got, told, gone, pc>>
    BY <1>3 DEF Frame, MonitorAnswers, OnLatched, vars, handlers, frames
  <2> QED
    BY <1>0, <2>1, StreamsKept
<1> QED
  BY <1>1, <1>2, <1>3, SendFrameKeeps, ReaderStopsKeeps, OnMessageKeeps DEF Next

\* Every step of the gateway is a step of the channels with a counted loss, or
\* none that they see.
LEMMA LossRefined ==
  ASSUME mix \in Mixes, HandlersOK, LossInv, [Next]_vars
  PROVE  [Channels!Next]_<<offered, got, told>>
<1>0. FramesOK
  BY DEF LossInv
<1>1. ASSUME NEW h \in Handlers, OnMessage(h) PROVE Channels!Send(h)
  BY <1>1 DEF OnMessage, Channels!Send
<1>2. ASSUME NEW h \in Handlers, OpenStream(h) \/ EndStream(h) PROVE Channels!Connect(h)
  BY <1>2 DEF OpenStream, EndStream, Channels!Connect
<1>3. ASSUME NEW h \in Handlers, SendFrame(h)
      PROVE  \E frame \in got[h] + 1 .. offered[h] : Channels!Get(h, frame)
  <2> DEFINE frame == sending[h].item
  <2>1. /\ sending[h] # None /\ got' = [got EXCEPT ![h] = frame] /\ offered' = offered
        /\ told' = [told EXCEPT ![h] = sending[h].dropped]
    BY <1>3 DEF SendFrame
  <2>2. frame \in got[h] + 1 .. offered[h] /\ sending[h].dropped = told[h] + frame - got[h] - 1
    BY <2>1 DEF LossInv, InHand
  <2>3. got[h] \in Nat /\ told[h] \in Nat /\ offered[h] \in Nat
    BY <1>0 DEF FramesOK
  <2> HIDE DEF frame
  <2>4. sending[h].dropped = told[h] + (frame - got[h] - 1)
    BY <2>2, <2>3
  <2>5. told' = [told EXCEPT ![h] = @ + (frame - got[h] - 1)]
    BY <2>1, <2>4
  <2> QED
    BY <2>1, <2>2, <2>5 DEF Channels!Get
<1>4. ASSUME NEW h \in Handlers, Handler(h), ~OpenStream(h), ~EndStream(h)
      PROVE  UNCHANGED <<offered, got, told>>
  BY <1>4 DEF Handler, Route, Reply, AskClock, ProxyClock, Leave, AdmitStream, HandOver,
     Handshake, TakeFrame, ConnectClock, EndRelay, ReleaseStream, Resolve, ReadBefore, Push,
     EndPost, frames
<1>5. ASSUME NEW h \in Handlers, HangUp(h) \/ ReaderStops(h)
      PROVE  UNCHANGED <<offered, got, told>>
  BY <1>5 DEF HangUp, ReaderStops
<1>6. CASE Frame \/ MonitorAnswers \/ OnLatched \/ UNCHANGED vars
  BY <1>6 DEF Frame, MonitorAnswers, OnLatched, vars, frames
<1>7. ASSUME NEW h \in Handlers, Handler(h)
      PROVE  Channels!Connect(h) \/ UNCHANGED <<offered, got, told>>
  BY <1>2, <1>4, <1>7
<1> QED
  BY <1>1, <1>3, <1>5, <1>6, <1>7 DEF Next, Channels!Next
-----------------------------------------------------------------------------
(* The pushes.                                                             *)

InPost == {"resolved", "ready", "listening", "waiting"}

\* Where a push is, and what it has by then.
PostsInv ==
  \A h \in Handlers :
    /\ pc[h] \in InPost => post[h] \in Post /\ tracked
    /\ post[h] # None => pc[h] \in InPost \cup {"leaving"}
    /\ h \in listening => pc[h] \in {"open", "listening", "waiting"}
    /\ pc[h] \in {"listening", "waiting"} => h \in listening
    /\ pc[h] = "resolved" => post[h].box = None /\ ~post[h].heard /\ ~post[h].alone

\* A push that is alone finds nothing in flight before it publishes; then there
\* is its own push, its own answer, or nothing any more.
Untold(h) == post[h].box = None /\ ~post[h].heard /\ latched = post[h].before
Own(h)    == <<[spec |-> post[h].spec, by |-> h]>>

Unsent(h)    == specWire = <<>> /\ statusWire = <<>> /\ Untold(h)
AtMonitor(h) == specWire = Own(h) /\ statusWire = <<>> /\ Untold(h)
OnItsWay(h)  == specWire = <<>> /\ statusWire = Own(h) /\ Untold(h)
Certain(h) ==
  /\ post[h].box # None => post[h].box = post[h].spec
  /\ post[h].box = None /\ post[h].heard => post[h].spec = post[h].before
Told(h) == specWire = <<>> /\ statusWire = <<>> /\ post[h].heard /\ Certain(h)

LoneInv ==
  \A h \in Handlers :
    post[h] # None /\ post[h].alone =>
      \/ pc[h] \in {"ready", "listening"} /\ Unsent(h)
      \/ pc[h] = "waiting" /\ (AtMonitor(h) \/ OnItsWay(h) \/ Told(h))
      \/ pc[h] = "leaving" /\ Certain(h)

PushInv == ListenersOK /\ BusOK /\ PostsInv /\ LoneInv

LEMMA PushInit == Init => PushInv
<1> SUFFICES ASSUME Init PROVE PushInv
  OBVIOUS
<1>1. ListenersOK /\ BusOK
  <2>1. <<>> \in Seq(Message)
    OBVIOUS
  <2> QED
    BY <2>1 DEF Init, BusStarts, ListenersOK, BusOK
<1>2. PostsInv /\ LoneInv
  BY DEF Init, BusStarts, PostsInv, LoneInv, InPost
<1> QED
  BY <1>1, <1>2 DEF PushInv

\* A step of a thread outside its push.
LEMMA ElsewhereKeeps ==
  ASSUME PushInv, NEW h \in Handlers, NEW from, NEW to \in PC, pc \in [Handlers -> PC],
         Goes(h, from, to), UNCHANGED <<post, bus>>, pending' \subseteq Handlers,
         from \notin InPost \cup {"leaving"}, to \notin InPost,
         \/ listening' = listening /\ from # "open"
         \/ listening' = listening \cup {h} /\ to = "open"
         \/ listening' = listening \ {h}
  PROVE  PushInv'
<1>0. ListenersOK /\ BusOK /\ PostsInv /\ LoneInv
  BY DEF PushInv
<1>1. /\ pc[h] = from /\ pc'[h] = to
      /\ \A g \in Handlers : g # h => pc'[g] = pc[g]
  BY DEF Goes
<1>2. post[h] = None
  BY <1>0, <1>1 DEF PostsInv
<1>3. ListenersOK' /\ BusOK'
  BY <1>0 DEF ListenersOK, BusOK, bus
<1>4. PostsInv'
  BY <1>0, <1>1, <1>2 DEF PostsInv, bus, InPost
<1>5. LoneInv'
  BY <1>0, <1>1, <1>2
  DEF LoneInv, bus, Unsent, AtMonitor, OnItsWay, Told, Untold, Own, Certain
<1> QED
  BY <1>3, <1>4, <1>5 DEF PushInv

\* Nothing the pushes are about changes.
LEMMA PushesKept ==
  ASSUME PushInv, UNCHANGED <<pc, listening, post, bus>>, pending' \subseteq Handlers
  PROVE  PushInv'
BY DEF PushInv, ListenersOK, BusOK, PostsInv, LoneInv, bus, Unsent, AtMonitor, OnItsWay,
       Told, Untold, Own, Certain

\* A push begins: the slots of the others' pushes do not change, and the replay
\* of a latched status meets nobody who is alone.
LEMMA ResolveKeeps ==
  ASSUME PushInv, HandlersOK, NEW h \in Handlers, NEW s \in Specs, Resolve(h, s)
  PROVE  PushInv'
<1>0. ListenersOK /\ BusOK /\ PostsInv /\ LoneInv /\ pc \in [Handlers -> PC]
  BY DEF PushInv, HandlersOK
<1> DEFINE new == [spec |-> s, before |-> None, box |-> None, alone |-> FALSE, heard |-> FALSE]
<1>1. /\ pc[h] = "post" /\ pc'[h] = "resolved"
      /\ \A g \in Handlers : g # h => pc'[g] = pc[g]
      /\ tracked' = TRUE /\ post' = [post EXCEPT ![h] = new]
      /\ UNCHANGED <<listening, pending, latched, specWire, monitorStatus>>
  BY <1>0 DEF Resolve, Goes, EnsureTracking, frames
<1>2. new \in Post /\ new.box = None /\ ~new.heard /\ ~new.alone
  BY DEF Post
<1> HIDE DEF new
<1>3. post'[h] = new /\ \A g \in Handlers : g # h => post'[g] = post[g]
  BY <1>0, <1>1 DEF BusOK
<1>4. ListenersOK' /\ BusOK'
  <2>1. statusWire' \in Seq(Message)
    <3>1. CASE tracked \/ monitorStatus = None
      BY <1>0, <3>1 DEF Resolve, EnsureTracking, BusOK
    <3>2. CASE ~tracked /\ monitorStatus # None
      <4> DEFINE replay == [spec |-> monitorStatus, by |-> None]
      <4>1. replay \in Message
        BY <1>0, <3>2 DEF BusOK, Message
      <4>2. statusWire' = Append(statusWire, replay)
        BY <3>2 DEF Resolve, EnsureTracking
      <4> HIDE DEF replay
      <4> QED
        BY <1>0, <4>1, <4>2 DEF BusOK
    <3> QED
      BY <3>1, <3>2
  <2> QED
    BY <1>0, <1>1, <1>2, <2>1 DEF ListenersOK, BusOK
<1>5. PostsInv'
  BY <1>0, <1>1, <1>2, <1>3 DEF PostsInv, InPost
<1>6. LoneInv'
  <2> SUFFICES ASSUME NEW g \in Handlers, post'[g] # None /\ post'[g].alone
               PROVE  \/ pc'[g] \in {"ready", "listening"} /\ Unsent(g)'
                      \/ pc'[g] = "waiting" /\ (AtMonitor(g) \/ OnItsWay(g) \/ Told(g))'
                      \/ pc'[g] = "leaving" /\ Certain(g)'
    BY DEF LoneInv
  <2>1. g # h /\ post'[g] = post[g] /\ pc'[g] = pc[g]
    BY <1>1, <1>2, <1>3
  <2>2. CASE pc[g] = "leaving"
    BY <1>0, <2>1, <2>2 DEF LoneInv, Certain
  <2>3. CASE pc[g] # "leaving"
    <3>1. tracked
      BY <1>0, <2>1, <2>3 DEF LoneInv, PostsInv, InPost
    <3>2. statusWire' = statusWire
      BY <3>1 DEF Resolve, EnsureTracking
    <3> QED
      BY <1>0, <1>1, <2>1, <2>3, <3>2
      DEF LoneInv, Unsent, AtMonitor, OnItsWay, Told, Untold, Own, Certain
  <2> QED
    BY <2>2, <2>3
<1> QED
  BY <1>4, <1>5, <1>6 DEF PushInv

\* One push goes on while the others, and what is in flight, stay as they are.
LEMMA OnePushGoesOn ==
  ASSUME PushInv, HandlersOK, NEW h \in Handlers, NEW from \in InPost,
         NEW to \in InPost \cup {"leaving"}, Goes(h, from, to),
         NEW new \in Post, post' = [post EXCEPT ![h] = new],
         UNCHANGED <<pending, bus>>,
         listening' = IF to \in {"listening", "waiting"} THEN listening \cup {h}
                      ELSE listening \ {h},
         to # "resolved",
         new.alone => \/ to \in {"ready", "listening"} /\ specWire = <<>> /\ statusWire = <<>>
                         /\ new.box = None /\ ~new.heard /\ latched = new.before
                      \/ /\ to = "leaving" /\ (new.box # None => new.box = new.spec)
                         /\ new.box = None /\ new.heard => new.spec = new.before
  PROVE  PushInv'
<1>0. ListenersOK /\ BusOK /\ PostsInv /\ LoneInv /\ pc \in [Handlers -> PC]
  BY DEF PushInv, HandlersOK
<1>1. /\ pc[h] = from /\ pc'[h] = to
      /\ \A g \in Handlers : g # h => pc'[g] = pc[g]
  BY <1>0 DEF Goes
<1>2. post'[h] = new /\ \A g \in Handlers : g # h => post'[g] = post[g]
  BY <1>0 DEF BusOK
<1>3. ListenersOK' /\ BusOK'
  BY <1>0 DEF ListenersOK, BusOK, bus
<1>4. PostsInv'
  BY <1>0, <1>1, <1>2 DEF PostsInv, InPost, bus
<1>5. LoneInv'
  <2> SUFFICES ASSUME NEW g \in Handlers, post'[g] # None /\ post'[g].alone
               PROVE  \/ pc'[g] \in {"ready", "listening"} /\ Unsent(g)'
                      \/ pc'[g] = "waiting" /\ (AtMonitor(g) \/ OnItsWay(g) \/ Told(g))'
                      \/ pc'[g] = "leaving" /\ Certain(g)'
    BY DEF LoneInv
  <2>1. CASE g = h
    BY <1>1, <1>2, <2>1 DEF bus, Unsent, Untold, Certain
  <2>2. CASE g # h
    BY <1>0, <1>1, <1>2, <2>2
    DEF bus, LoneInv, Unsent, AtMonitor, OnItsWay, Told, Untold, Own, Certain
  <2> QED
    BY <2>1, <2>2
<1> QED
  BY <1>3, <1>4, <1>5 DEF PushInv

LEMMA ReadBeforeKeeps ==
  ASSUME PushInv, HandlersOK, NEW h \in Handlers, ReadBefore(h)
  PROVE  PushInv'
<1>0. BusOK /\ PostsInv /\ pc[h] = "resolved" /\ post[h] \in Post
  BY DEF PushInv, ReadBefore, Goes, PostsInv, InPost
<1> DEFINE lone == specWire = <<>> /\ statusWire = <<>>
           new == [post[h] EXCEPT !.before = latched, !.alone = lone]
<1>2. post' = [post EXCEPT ![h] = new]
  BY DEF ReadBefore
<1>3. lone \in BOOLEAN /\ (lone => specWire = <<>> /\ statusWire = <<>>)
  OBVIOUS
<1> HIDE DEF lone
<1>1. /\ new \in Post /\ new.box = post[h].box /\ new.heard = post[h].heard
      /\ new.before = latched /\ new.alone = lone
  BY <1>0, <1>3 DEF Post, BusOK
<1>4. /\ Goes(h, "resolved", "ready") /\ UNCHANGED <<pending, bus>> /\ listening' = listening
      /\ h \notin listening
  BY <1>0 DEF ReadBefore, PostsInv, frames
<1> HIDE DEF new
<1> QED
  <2>1. new.box = None /\ ~new.heard
    BY <1>0, <1>1 DEF PostsInv
  <2>2. listening' = listening \ {h}
    BY <1>4
  <2>3. "resolved" \in InPost /\ "ready" \in InPost
    BY DEF InPost
  <2> DEFINE from == "resolved"
             to == "ready"
  <2>4. /\ from \in InPost /\ to \in InPost \cup {"leaving"} /\ Goes(h, from, to)
        /\ to # "resolved"
        /\ listening' = IF to \in {"listening", "waiting"} THEN listening \cup {h}
                        ELSE listening \ {h}
        /\ to \in {"ready", "listening"}
    BY <1>4, <2>2, <2>3
  <2> HIDE DEF from, to
  <2> QED
    BY <1>1, <1>2, <1>3, <1>4, <2>1, <2>4, OnePushGoesOn

\* The listener goes in before the push goes out.
LEMMA SubscribeKeeps ==
  ASSUME PushInv, HandlersOK, NEW h \in Handlers, Goes(h, "ready", "listening"), Subscribe(h),
         UNCHANGED <<pending, tracked, latched, statusWire, monitorStatus>>
  PROVE  PushInv'
<1>0. /\ BusOK /\ PostsInv /\ LoneInv /\ pc[h] = "ready" /\ post[h] \in Post
      /\ post[h] # None
  BY GatewayAssumption DEF PushInv, Goes, PostsInv, InPost
<1>1. /\ post' = [post EXCEPT ![h] = post[h]] /\ UNCHANGED bus
      /\ listening' = listening \cup {h}
  BY <1>0 DEF Subscribe, BusOK, bus
<1>2. post[h].alone => /\ specWire = <<>> /\ statusWire = <<>> /\ post[h].box = None
                       /\ ~post[h].heard /\ latched = post[h].before
  BY <1>0 DEF LoneInv, Unsent, Untold
<1> DEFINE from == "ready"
           to == "listening"
<1>3. /\ from \in InPost /\ to \in InPost \cup {"leaving"} /\ Goes(h, from, to)
      /\ to # "resolved"
      /\ listening' = IF to \in {"listening", "waiting"} THEN listening \cup {h}
                      ELSE listening \ {h}
      /\ to \in {"ready", "listening"}
  BY <1>1 DEF InPost
<1> HIDE DEF from, to
<1> QED
  BY <1>0, <1>1, <1>2, <1>3, OnePushGoesOn

LEMMA EndPostKeeps ==
  ASSUME PushInv, HandlersOK, NEW h \in Handlers, EndPost(h)
  PROVE  PushInv'
<1>0. /\ BusOK /\ PostsInv /\ LoneInv /\ pc[h] = "waiting" /\ post[h] \in Post
      /\ post[h] # None
  BY GatewayAssumption DEF PushInv, EndPost, Goes, PostsInv, InPost
<1>1. /\ post' = [post EXCEPT ![h] = post[h]] /\ UNCHANGED <<pending, bus>>
      /\ listening' = listening \ {h}
  BY <1>0 DEF EndPost, BusOK, frames
<1>2. post[h].alone => /\ post[h].box # None => post[h].box = post[h].spec
                       /\ post[h].box = None /\ post[h].heard => post[h].spec = post[h].before
  BY <1>0 DEF LoneInv, AtMonitor, OnItsWay, Told, Untold, Certain
<1> DEFINE from == "waiting"
           to == "leaving"
<1>3. /\ from \in InPost /\ to \in InPost \cup {"leaving"} /\ Goes(h, from, to)
      /\ to # "resolved"
      /\ listening' = IF to \in {"listening", "waiting"} THEN listening \cup {h}
                      ELSE listening \ {h}
      /\ to = "leaving"
  BY <1>1 DEF EndPost, InPost
<1> HIDE DEF from, to
<1> QED
  BY <1>0, <1>1, <1>2, <1>3, OnePushGoesOn

\* Publishing: whoever has read its before is not alone any more.
LEMMA PublishKeeps ==
  ASSUME PushInv, HandlersOK, NEW h \in Handlers, Goes(h, "listening", "waiting"), Publish(h),
         UNCHANGED <<pending, tracked, latched, statusWire, monitorStatus>>
  PROVE  PushInv'
<1>0. /\ ListenersOK /\ BusOK /\ PostsInv /\ LoneInv /\ pc \in [Handlers -> PC]
  BY DEF PushInv, HandlersOK
<1>1. /\ pc[h] = "listening" /\ pc'[h] = "waiting"
      /\ \A g \in Handlers : g # h => pc'[g] = pc[g]
  BY <1>0 DEF Goes
<1>2. post[h] \in Post
  BY <1>0, <1>1 DEF PostsInv, InPost
<1> DEFINE push == [spec |-> post[h].spec, by |-> h]
           asked(g) == g # h /\ pc[g] \in {"ready", "listening", "waiting"}
<1>3. push \in Message /\ specWire' = Append(specWire, push) /\ listening' = listening
  BY <1>2 DEF Message, Publish, Post
<1> HIDE DEF push
<1>4. \A g \in Handlers :
        /\ asked(g) => post'[g] \in Post /\ post'[g] # None /\ ~post'[g].alone
        /\ ~asked(g) => post'[g] = post[g]
  <2> SUFFICES ASSUME NEW g \in Handlers
               PROVE  /\ asked(g) => post'[g] \in Post /\ post'[g] # None /\ ~post'[g].alone
                      /\ ~asked(g) => post'[g] = post[g]
    OBVIOUS
  <2>1. CASE asked(g)
    <3>1. post[g] \in Post
      BY <1>0, <2>1 DEF PostsInv, InPost
    <3>2. post'[g] = [post[g] EXCEPT !.alone = FALSE]
      BY <2>1 DEF Publish
    <3>3. [post[g] EXCEPT !.alone = FALSE] \in Post /\ ~[post[g] EXCEPT !.alone = FALSE].alone
      BY <3>1 DEF Post
    <3> QED
      BY <2>1, <3>2, <3>3, GatewayAssumption
  <2>2. CASE ~asked(g)
    BY <2>2 DEF Publish
  <2> QED
    BY <2>1, <2>2
<1>5. post'[h] = post[h] /\ DOMAIN post' = Handlers
  BY <1>4 DEF Publish
<1>6. ListenersOK' /\ BusOK'
  <2>1. specWire' \in Seq(Message)
    BY <1>0, <1>3 DEF BusOK
  <2>2. post' \in [Handlers -> Post \cup {None}]
    <3>1. \A g \in Handlers : post'[g] \in Post \cup {None}
      BY <1>0, <1>4 DEF BusOK
    <3>2. post' = [g \in Handlers |-> post'[g]]
      BY DEF Publish
    <3> QED
      BY <3>1, <3>2
  <2> QED
    BY <1>0, <1>3, <2>1, <2>2 DEF ListenersOK, BusOK
<1>7. PostsInv'
  <2> SUFFICES ASSUME NEW g \in Handlers
               PROVE  /\ pc'[g] \in InPost => post'[g] \in Post /\ tracked'
                      /\ post'[g] # None => pc'[g] \in InPost \cup {"leaving"}
                      /\ g \in listening' => pc'[g] \in {"open", "listening", "waiting"}
                      /\ pc'[g] \in {"listening", "waiting"} => g \in listening'
                      /\ pc'[g] = "resolved"
                           => post'[g].box = None /\ ~post'[g].heard /\ ~post'[g].alone
    BY DEF PostsInv
  <2>1. CASE g = h
    BY <1>0, <1>1, <1>3, <1>5, <2>1 DEF PostsInv, InPost
  <2>2. CASE asked(g)
    BY <1>0, <1>1, <1>3, <1>4, <2>2 DEF PostsInv, InPost
  <2>3. CASE g # h /\ ~asked(g)
    BY <1>0, <1>1, <1>3, <1>4, <2>3 DEF PostsInv
  <2> QED
    BY <2>1, <2>2, <2>3
<1>8. LoneInv'
  <2> SUFFICES ASSUME NEW g \in Handlers, post'[g] # None /\ post'[g].alone
               PROVE  \/ pc'[g] \in {"ready", "listening"} /\ Unsent(g)'
                      \/ pc'[g] = "waiting" /\ (AtMonitor(g) \/ OnItsWay(g) \/ Told(g))'
                      \/ pc'[g] = "leaving" /\ Certain(g)'
    BY DEF LoneInv
  <2>1. CASE g = h
    <3>1. Unsent(h)
      BY <1>0, <1>1, <1>5, <2>1 DEF LoneInv
    <3>2. specWire' = <<push>>
      BY <1>3, <3>1 DEF Unsent
    <3>3. Own(h)' = <<push>>
      BY <1>5 DEF Own, push
    <3> QED
      BY <1>1, <1>5, <2>1, <3>1, <3>2, <3>3 DEF AtMonitor, Unsent, Untold
  <2>2. CASE asked(g)
    BY <1>4, <2>2
  <2>3. CASE g # h /\ ~asked(g)
    <3>1. pc[g] = "leaving" /\ Certain(g) /\ post'[g] = post[g] /\ pc'[g] = pc[g]
      BY <1>0, <1>1, <1>4, <2>3 DEF LoneInv
    <3> QED
      BY <3>1 DEF Certain
  <2> QED
    BY <2>1, <2>2, <2>3
<1> QED
  BY <1>6, <1>7, <1>8 DEF PushInv

\* The push is over: nobody's answer is affected.
LEMMA LeaveKeeps ==
  ASSUME PushInv, HandlersOK, NEW h \in Handlers, Leave(h)
  PROVE  PushInv'
<1>0. /\ ListenersOK /\ BusOK /\ PostsInv /\ LoneInv /\ pc \in [Handlers -> PC]
  BY DEF PushInv, HandlersOK
<1>1. /\ pc[h] = "leaving" /\ pc'[h] = "free" /\ post'[h] = None
      /\ \A g \in Handlers : g # h => pc'[g] = pc[g] /\ post'[g] = post[g]
      /\ UNCHANGED <<listening, pending, bus>>
  BY <1>0 DEF Leave, Goes, BusOK, frames
<1>2. ListenersOK' /\ BusOK'
  BY <1>0, <1>1 DEF Leave, ListenersOK, BusOK, bus
<1>3. PostsInv'
  BY <1>0, <1>1 DEF PostsInv, InPost, bus
<1>4. LoneInv'
  BY <1>0, <1>1 DEF LoneInv, bus, Unsent, AtMonitor, OnItsWay, Told, Untold, Own, Certain
<1> QED
  BY <1>2, <1>3, <1>4 DEF PushInv

LEMMA MonitorAnswersKeeps ==
  ASSUME PushInv, MonitorAnswers
  PROVE  PushInv'
<1>0. ListenersOK /\ BusOK /\ PostsInv /\ LoneInv
  BY DEF PushInv
<1>1. /\ UNCHANGED <<pc, listening, pending, post, tracked, latched>>
      /\ specWire # <<>> /\ specWire' = Tail(specWire)
      /\ statusWire' = Append(statusWire, Head(specWire))
      /\ monitorStatus' = Head(specWire).spec
  BY DEF MonitorAnswers, handlers, frames
<1>2. Head(specWire) \in Message /\ specWire' \in Seq(Message)
  BY <1>0, <1>1 DEF BusOK
<1>3. ListenersOK' /\ BusOK'
  <2>1. statusWire' \in Seq(Message)
    BY <1>0, <1>1, <1>2 DEF BusOK
  <2>2. monitorStatus' \in Specs
    BY <1>1, <1>2 DEF Message
  <2> QED
    BY <1>0, <1>1, <1>2, <2>1, <2>2 DEF ListenersOK, BusOK
<1>4. PostsInv'
  BY <1>0, <1>1 DEF PostsInv
<1>5. LoneInv'
  <2> SUFFICES ASSUME NEW g \in Handlers, post'[g] # None /\ post'[g].alone
               PROVE  \/ pc'[g] \in {"ready", "listening"} /\ Unsent(g)'
                      \/ pc'[g] = "waiting" /\ (AtMonitor(g) \/ OnItsWay(g) \/ Told(g))'
                      \/ pc'[g] = "leaving" /\ Certain(g)'
    BY DEF LoneInv
  <2>1. (pc[g] = "waiting" /\ AtMonitor(g)) \/ (pc[g] = "leaving" /\ Certain(g))
    BY <1>0, <1>1 DEF LoneInv, Unsent, OnItsWay, Told
  <2>2. CASE pc[g] = "leaving" /\ Certain(g)
    BY <1>1, <2>2 DEF Certain
  <2>3. CASE pc[g] = "waiting" /\ AtMonitor(g)
    <3> DEFINE push == [spec |-> post[g].spec, by |-> g]
    <3>1. specWire = <<push>> /\ statusWire = <<>> /\ Untold(g)
      BY <2>3 DEF AtMonitor, Own
    <3>2. Own(g)' = <<push>>
      BY <1>1 DEF Own
    <3> HIDE DEF push
    <3>3. specWire' = <<>> /\ statusWire' = <<push>>
      BY <1>1, <3>1
    <3> QED
      BY <1>1, <2>3, <3>1, <3>2, <3>3 DEF OnItsWay, Untold
  <2> QED
    BY <2>1, <2>2, <2>3
<1> QED
  BY <1>3, <1>4, <1>5 DEF PushInv

\* What one status does to one push.
LEMMA AnsweredType ==
  ASSUME NEW h \in Handlers, NEW status \in Message, post[h] \in Post
  PROVE  /\ Answered(h, status) \in Post /\ Answered(h, status) # None
         /\ Answered(h, status).spec = post[h].spec
         /\ Answered(h, status).before = post[h].before
         /\ Answered(h, status).alone = post[h].alone
         /\ Answered(h, status).heard
              = (post[h].heard \/ (status.by = h /\ pc[h] \in {"listening", "waiting"}))
         /\ Answered(h, status).box
              = IF h \in listening /\ post[h].box = None /\ status.spec # post[h].before
                THEN status.spec ELSE post[h].box
<1> DEFINE heard == post[h].heard \/ (status.by = h /\ pc[h] \in {"listening", "waiting"})
           box == IF h \in listening /\ post[h].box = None /\ status.spec # post[h].before
                  THEN status.spec ELSE post[h].box
<1>1. heard \in BOOLEAN /\ box \in Specs \cup {None}
  BY DEF Post, Message
<1>2. Answered(h, status) = [post[h] EXCEPT !.box = box, !.heard = heard]
  BY GatewayAssumption DEF Answered
<1> HIDE DEF heard, box
<1>3. /\ Answered(h, status) \in Post
      /\ Answered(h, status).spec = post[h].spec
      /\ Answered(h, status).before = post[h].before
      /\ Answered(h, status).alone = post[h].alone
      /\ Answered(h, status).heard = heard
      /\ Answered(h, status).box = box
  BY <1>1, <1>2 DEF Post
<1> QED
  BY <1>3, GatewayAssumption DEF heard, box

LEMMA OnLatchedKeeps ==
  ASSUME PushInv, OnLatched
  PROVE  PushInv'
<1>0. ListenersOK /\ BusOK /\ PostsInv /\ LoneInv
  BY DEF PushInv
<1> DEFINE status == Head(statusWire)
<1>1. /\ UNCHANGED <<pc, listening, pending, tracked, specWire, monitorStatus>>
      /\ statusWire # <<>> /\ statusWire' = Tail(statusWire) /\ latched' = status.spec
      /\ post' = [h \in Handlers |-> Answered(h, status)]
  BY DEF OnLatched, handlers, frames
<1>2. status \in Message /\ statusWire' \in Seq(Message) /\ status.spec \in Specs
  <2>1. statusWire \in Seq(Message) /\ statusWire # <<>>
    BY <1>0, <1>1 DEF BusOK
  <2>2. Head(statusWire) \in Message /\ Tail(statusWire) \in Seq(Message)
    BY <2>1
  <2>3. \A m \in Message : m.spec \in Specs
    BY DEF Message
  <2> QED
    BY <1>1, <2>2, <2>3
<1> HIDE DEF status
<1>3. \A g \in Handlers : post'[g] = Answered(g, status)
  BY <1>1
<1>4. \A g \in Handlers : post[g] = None => post'[g] = None
  BY <1>3 DEF Answered
<1>5. \A g \in Handlers : post[g] # None => post[g] \in Post
  BY <1>0 DEF BusOK
<1>6. ListenersOK' /\ BusOK'
  <2>1. \A g \in Handlers : Answered(g, status) \in Post \cup {None}
    BY <1>2, <1>3, <1>4, <1>5, AnsweredType
  <2>2. post' \in [Handlers -> Post \cup {None}]
    BY <1>1, <2>1
  <2> QED
    BY <1>0, <1>1, <1>2, <2>2 DEF ListenersOK, BusOK
<1>7. PostsInv'
  <2> SUFFICES ASSUME NEW g \in Handlers
               PROVE  /\ pc'[g] \in InPost => post'[g] \in Post /\ tracked'
                      /\ post'[g] # None => pc'[g] \in InPost \cup {"leaving"}
                      /\ g \in listening' => pc'[g] \in {"open", "listening", "waiting"}
                      /\ pc'[g] \in {"listening", "waiting"} => g \in listening'
                      /\ pc'[g] = "resolved"
                           => post'[g].box = None /\ ~post'[g].heard /\ ~post'[g].alone
    BY DEF PostsInv
  <2>1. pc[g] \in InPost => post'[g] \in Post
    BY <1>0, <1>2, <1>3, AnsweredType DEF PostsInv
  <2>2. pc[g] = "resolved" => post'[g].box = None /\ ~post'[g].heard /\ ~post'[g].alone
    <3> SUFFICES ASSUME pc[g] = "resolved"
                 PROVE  post'[g].box = None /\ ~post'[g].heard /\ ~post'[g].alone
      OBVIOUS
    <3>1. post[g] \in Post /\ g \notin listening
          /\ post[g].box = None /\ ~post[g].heard /\ ~post[g].alone
      BY <1>0 DEF PostsInv, InPost
    <3>2. pc[g] \notin {"listening", "waiting"}
      OBVIOUS
    <3> DEFINE now == Answered(g, status)
    <3>3. now.box = None /\ now.alone = post[g].alone
      BY <1>2, <3>1, AnsweredType
    <3>4. now.heard = post[g].heard
      BY <1>2, <3>1, <3>2, AnsweredType DEF Post
    <3>5. post'[g] = now
      BY <1>3
    <3> HIDE DEF now
    <3> QED
      BY <3>1, <3>3, <3>4, <3>5
  <2> QED
    BY <1>0, <1>1, <1>4, <2>1, <2>2 DEF PostsInv
<1>8. LoneInv'
  <2> SUFFICES ASSUME NEW g \in Handlers, post'[g] # None /\ post'[g].alone
               PROVE  \/ pc'[g] \in {"ready", "listening"} /\ Unsent(g)'
                      \/ pc'[g] = "waiting" /\ (AtMonitor(g) \/ OnItsWay(g) \/ Told(g))'
                      \/ pc'[g] = "leaving" /\ Certain(g)'
    BY DEF LoneInv
  <2>1. post[g] # None /\ post[g] \in Post
    BY <1>4, <1>5
  <2>2. /\ post'[g].spec = post[g].spec /\ post'[g].before = post[g].before /\ post[g].alone
        /\ post'[g].heard
             = (post[g].heard \/ (status.by = g /\ pc[g] \in {"listening", "waiting"}))
        /\ post'[g].box
             = IF g \in listening /\ post[g].box = None /\ status.spec # post[g].before
               THEN status.spec ELSE post[g].box
    BY <1>2, <1>3, <2>1, AnsweredType
  <2>3. (pc[g] = "waiting" /\ OnItsWay(g)) \/ (pc[g] = "leaving" /\ Certain(g))
    BY <1>0, <1>1, <2>1, <2>2 DEF LoneInv, Unsent, AtMonitor, Told
  <2>4. CASE pc[g] = "leaving" /\ Certain(g)
    <3>1. g \notin listening
      BY <1>0, <2>4 DEF PostsInv
    <3>2. post'[g].box = post[g].box
      BY <2>2, <3>1
    <3>3. post'[g].heard = post[g].heard
      BY <2>1, <2>2, <2>4 DEF Post
    <3> QED
      BY <1>1, <2>2, <2>4, <3>2, <3>3 DEF Certain
  <2>5. CASE pc[g] = "waiting" /\ OnItsWay(g)
    <3> DEFINE push == [spec |-> post[g].spec, by |-> g]
    <3>1. specWire = <<>> /\ statusWire = <<push>> /\ Untold(g) /\ g \in listening
      BY <1>0, <2>5 DEF OnItsWay, Own, PostsInv
    <3>2. push.spec = post[g].spec /\ push.by = g
      OBVIOUS
    <3> HIDE DEF push
    <3>3. status = push /\ statusWire' = <<>>
      BY <1>1, <3>1 DEF status
    <3>4. /\ post'[g].heard
          /\ post'[g].box = IF post[g].spec # post[g].before THEN post[g].spec ELSE None
      BY <2>2, <2>5, <3>1, <3>2, <3>3 DEF Untold
    <3>5. post[g].spec # None
      BY <2>1, GatewayAssumption DEF Post
    <3>6. Told(g)'
      BY <1>1, <2>2, <3>1, <3>3, <3>4, <3>5 DEF Told, Certain
    <3> QED
      BY <1>1, <2>5, <3>6
  <2> QED
    BY <2>3, <2>4, <2>5
<1> QED
  BY <1>6, <1>7, <1>8 DEF PushInv

\* The threads outside a push, and the streams.
LEMMA HandlerKeepsPushes ==
  ASSUME PushInv, HandlersOK, mix \in Mixes, NEW h \in Handlers, Handler(h)
  PROVE  PushInv'
<1>0. ListenersOK /\ pc \in [Handlers -> PC]
  BY DEF PushInv, HandlersOK
<1>1. CASE Route(h)
  <2>1. PICK kind \in {"get", "stream", "post"} : Goes(h, "free", kind)
    BY <1>1, GatewayAssumption DEF Route
  <2> DEFINE from == "free"
  <2>2. /\ kind \in PC \ InPost /\ from \notin InPost \cup {"leaving", "open"}
        /\ UNCHANGED <<post, bus, listening, pending>> /\ Goes(h, from, kind)
    BY <1>1, <2>1 DEF Route, PC, InPost, frames
  <2> HIDE DEF from
  <2> QED
    BY <1>0, <2>2, ElsewhereKeeps DEF ListenersOK
<1>2. ASSUME NEW from, NEW to \in PC \ InPost, Goes(h, from, to),
             from \notin InPost \cup {"leaving", "open"},
             UNCHANGED <<post, bus, listening, pending>>
      PROVE  PushInv'
  BY <1>0, <1>2, ElsewhereKeeps DEF ListenersOK
<1>3. CASE Reply(h) \/ AskClock(h) \/ ProxyClock(h)
  BY <1>2, <1>3 DEF Reply, AskClock, ProxyClock, PC, InPost, frames
<1>4. CASE AdmitStream(h) \/ HandOver(h) \/ Handshake(h)
  BY <1>2, <1>4 DEF AdmitStream, HandOver, Handshake, PC, InPost, frames
<1>5. CASE ConnectClock(h) \/ EndRelay(h) \/ ReleaseStream(h)
  BY <1>2, <1>5 DEF ConnectClock, EndRelay, ReleaseStream, PC, InPost, frames
<1>6. CASE OpenStream(h)
  <2> DEFINE from == "handshake"
             to == "open"
  <2>1. /\ to \in PC \ InPost /\ from \notin InPost \cup {"leaving"} /\ Goes(h, from, to)
        /\ UNCHANGED <<post, bus>> /\ pending' \subseteq Handlers
        /\ listening' = listening \cup {h} /\ to = "open"
    BY <1>0, <1>6 DEF OpenStream, PC, InPost, ListenersOK
  <2> HIDE DEF from, to
  <2> QED
    BY <1>0, <2>1, ElsewhereKeeps
<1>7. CASE EndStream(h)
  <2> DEFINE from == "open"
             to == "unwinding"
  <2>1. /\ to \in PC \ InPost /\ from \notin InPost \cup {"leaving"} /\ Goes(h, from, to)
        /\ UNCHANGED <<post, bus>> /\ pending' \subseteq Handlers
        /\ listening' = listening \ {h}
    BY <1>0, <1>7 DEF EndStream, LeaveLoop, PC, InPost, ListenersOK
  <2> HIDE DEF from, to
  <2> QED
    BY <1>0, <2>1, ElsewhereKeeps
<1>8. CASE TakeFrame(h)
  BY <1>0, <1>8, PushesKept DEF TakeFrame, handlers, ListenersOK
<1>9. CASE Push(h)
  <2>1. UNCHANGED <<pending, tracked, latched, statusWire, monitorStatus>>
    BY <1>9 DEF Push, frames
  <2> QED
    BY <1>9, <2>1, SubscribeKeeps, PublishKeeps DEF Push, SubscribeThenPublish
<1> QED
  BY <1>1, <1>3, <1>4, <1>5, <1>6, <1>7, <1>8, <1>9, LeaveKeeps, ResolveKeeps, ReadBeforeKeeps,
     EndPostKeeps DEF Handler

LEMMA PushStep == mix \in Mixes /\ HandlersOK /\ PushInv /\ [Next]_vars => PushInv'
<1> SUFFICES ASSUME mix \in Mixes, HandlersOK, PushInv, [Next]_vars PROVE PushInv'
  OBVIOUS
<1>0. ListenersOK /\ pc \in [Handlers -> PC]
  BY DEF PushInv, HandlersOK
<1>1. ASSUME NEW h \in Handlers, SendFrame(h) \/ HangUp(h) \/ ReaderStops(h) \/ OnMessage(h)
      PROVE  PushInv'
  BY <1>0, <1>1, PushesKept
  DEF SendFrame, HangUp, ReaderStops, OnMessage, handlers, ListenersOK
<1>2. CASE Frame \/ UNCHANGED vars
  BY <1>0, <1>2, PushesKept DEF Frame, vars, handlers, frames, ListenersOK
<1> QED
  BY <1>1, <1>2, HandlerKeepsPushes, MonitorAnswersKeeps, OnLatchedKeeps DEF Next
-----------------------------------------------------------------------------
(* What the runs check, for every value of the constants.                  *)

GatewayInv == mix \in Mixes /\ BudgetInv /\ LossInv /\ PushInv

LEMMA GatewayInit == Init => GatewayInv
BY BudgetInit, LossInit, PushInit DEF Init, GatewayInv

LEMMA GatewayStep == GatewayInv /\ [Next]_vars => GatewayInv'
<1> SUFFICES ASSUME GatewayInv, [Next]_vars PROVE GatewayInv'
  OBVIOUS
<1>1. mix \in Mixes /\ BudgetInv /\ HandlersOK /\ LossInv /\ PushInv
  BY DEF GatewayInv, BudgetInv
<1>2. mix' = mix
  BY DEF Next, vars, Handler, Route, Reply, AskClock, ProxyClock, Leave, AdmitStream, HandOver,
     Handshake, OpenStream, TakeFrame, EndStream, ConnectClock, EndRelay, ReleaseStream,
     Resolve, ReadBefore, Push, EndPost, SendFrame, HangUp, ReaderStops, OnMessage, Frame,
     MonitorAnswers, OnLatched
<1> QED
  BY <1>1, <1>2, BudgetStep, LossStep, PushStep DEF GatewayInv

\* The three invariants together: no one of them is about the whole gateway.
THEOREM InvariantHolds == Spec => []GatewayInv
<1>1. Spec => Init /\ [][Next]_vars
  BY PTL DEF Spec
<1> QED
  BY <1>1, GatewayInit, GatewayStep, PTL

\* The counters are the threads: through handover, refusal and hang-up every
\* request in flight and every stream holds one slot, and nobody's is held.
THEOREM BudgetsHold == Spec => []BudgetsAreThreads
<1>1. GatewayInv => BudgetsAreThreads
  <2> SUFFICES ASSUME GatewayInv PROVE BudgetsAreThreads
    OBVIOUS
  <2>1. TypeOK
    BY TypeSplit DEF GatewayInv, BudgetInv, LossInv, PushInv
  <2> QED
    BY <2>1 DEF GatewayInv, BudgetInv, StreamsInv, RequestsInv, HoldsInv, Streaming, Holding,
                BudgetsAreThreads
<1> QED
  BY <1>1, InvariantHolds, PTL

\* A push that no other push overlaps is certain of its answer: what it got is
\* its own, or it was told of none because the text is the one latched before.
THEOREM LonePushHolds == Spec => []LonePushIsCertain
<1>1. GatewayInv => LonePushIsCertain
  BY DEF GatewayInv, PushInv, LoneInv, LonePushIsCertain, Certain
<1> QED
  BY <1>1, InvariantHolds, PTL

\* The queues that shed their oldest frames implement a channel that loses some
\* and tells its client how many.
THEOREM LossIsCounted == Spec => StreamsCountLoss
<1>1. Spec => Init /\ [][Next]_vars
  BY PTL DEF Spec
<1>2. Init => Channels!Init
  BY DEF Init, Channels!Init
<1>3. GatewayInv /\ [Next]_vars => [Channels!Next]_<<offered, got, told>>
  BY LossRefined DEF GatewayInv, BudgetInv
<1> QED
  BY <1>1, <1>2, <1>3, InvariantHolds, PTL DEF StreamsCountLoss, Channels!Spec
=============================================================================
