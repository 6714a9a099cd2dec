------------------------------ MODULE Gateway ------------------------------
(***************************************************************************)
(* backend/gateway.py: one thread per connection (_Handler), one reader    *)
(* thread per stream, and the bus's executor thread (RclpyBus).  They      *)
(* share the two budgets, the listeners of the bus and the streams.        *)
(*                                                                         *)
(* A handler's pc is where its request is:                                 *)
(*   free -> get -> (proxy ->) leaving                                     *)
(*   free -> stream -> admitted -> handshake -> open | connect -> relay    *)
(*        -> unwinding -> leaving                                          *)
(*   free -> post -> resolved -> ready -> listening -> waiting -> leaving  *)
(* leaving is the finally of _route.                                       *)
(*                                                                         *)
(* Abstracted: a frame is the number under which it was offered to its     *)
(* client; a spec's status is the spec, so that equal specs have the same  *)
(* text; one namespace.  Refusals that change nothing (Host, headers,      *)
(* bodies, paths) are left out.                                            *)
(***************************************************************************)
EXTENDS ClientStream, FiniteSets

CONSTANTS
  None,
  Handlers,     \* connections
  Mixes,        \* what each connection may ask for: "get", "stream", "post"
  Specs,        \* specs that may be posted
  MaxRequests, MaxStreams,
  MaxFrames,    \* bound on the frames offered to one stream
  MaxWire       \* bound on the pushes and on the answers in flight

\* A frame in the hands of a stream's thread, and how many were shed before it.
Item == [item : Nat, dropped : Nat]

\* before, box: as in post_spec.  alone, heard: history, no other push can be
\* answered in its stead; its answer has reached the bus in time.
Post == [spec : Specs, before : Specs \cup {None}, box : Specs \cup {None},
         alone : BOOLEAN, heard : BOOLEAN]

ASSUME GatewayAssumption ==
  /\ Mixes \subseteq [Handlers -> SUBSET {"get", "stream", "post"}]
  /\ None \notin Specs \cup Item \cup Post
  /\ MaxRequests \in Nat \ {0} /\ MaxStreams \in Nat \ {0}
  /\ MaxFrames \in Nat /\ MaxWire \in Nat \ {0}

VARIABLES
  mix,                         \* which of Mixes this is
  pc, holds,                   \* per handler: where it is, _holds_request
  requests, streams,           \* the gateway's two counters
  listening,                   \* handlers with a callback on the bus
  pending,                     \* those the executor has still to call for a frame
  stream,                      \* per handler: its ClientStream
  sending,                     \* per handler: the item its thread is writing, or None
  gone,                        \* handlers whose connection is dead
  offered, got, told,          \* history, per handler: see CountedLoss
  post,                        \* per handler: its post_spec, or None
  tracked, latched,            \* the bus: subscribed to the namespace; its slot
  specWire, statusWire,        \* /monitor/load_spec and /monitor/spec_status
  monitorStatus                \* what the monitor last latched

handlers == <<pc, holds, requests, streams>>
frames   == <<pending, stream, sending, gone, offered, got, told>>
bus      == <<tracked, latched, specWire, statusWire, monitorStatus>>
vars     == <<mix, handlers, listening, frames, post, bus>>

PC == {"free", "get", "proxy", "leaving",
       "stream", "admitted", "handshake", "open", "connect", "relay", "unwinding",
       "post", "resolved", "ready", "listening", "waiting"}

Message == [spec : Specs, by : Handlers \cup {None}]

TypeOK ==
  /\ mix \in Mixes
  /\ pc \in [Handlers -> PC] /\ holds \in [Handlers -> BOOLEAN]
  /\ requests \in 0..MaxRequests /\ streams \in 0..MaxStreams
  /\ listening \subseteq Handlers /\ pending \subseteq Handlers
  /\ stream \in [Handlers -> Stream]
  /\ sending \in [Handlers -> Item \cup {None}] /\ gone \subseteq Handlers
  /\ offered \in [Handlers -> Nat] /\ got \in [Handlers -> Nat]
  /\ told \in [Handlers -> Nat]
  /\ post \in [Handlers -> Post \cup {None}]
  /\ tracked \in BOOLEAN /\ latched \in Specs \cup {None}
  /\ specWire \in Seq(Message) /\ statusWire \in Seq(Message)
  /\ monitorStatus \in Specs \cup {None}

\* RclpyBus: it tracks no namespace yet and its slot is empty.
BusStarts == tracked = FALSE /\ latched = None /\ listening = {} /\ pending = {}

Init ==
  /\ BusStarts
  /\ mix \in Mixes
  /\ pc = [h \in Handlers |-> "free"] /\ holds = [h \in Handlers |-> FALSE]
  /\ requests = 0 /\ streams = 0
  /\ stream = [h \in Handlers |-> NewStream]
  /\ sending = [h \in Handlers |-> None] /\ gone = {}
  /\ offered = [h \in Handlers |-> 0] /\ got = [h \in Handlers |-> 0]
  /\ told = [h \in Handlers |-> 0]
  /\ post = [h \in Handlers |-> None]
  /\ specWire = <<>> /\ statusWire = <<>>
  /\ monitorStatus \in Specs \cup {None}

Goes(h, from, to) == pc[h] = from /\ pc' = [pc EXCEPT ![h] = to]
-----------------------------------------------------------------------------
(* Requests and their budget.                                              *)

Route(h) ==
  /\ requests < MaxRequests
  /\ requests' = requests + 1 /\ holds' = [holds EXCEPT ![h] = TRUE]
  /\ \E kind \in mix[h] : Goes(h, "free", kind)
  /\ UNCHANGED <<mix, streams, listening, frames, post, bus>>

\* _release_request, which the handover of a stream calls as well as _route.
ReleaseAlways(h) ==
  /\ requests' = IF requests > 0 THEN requests - 1 ELSE 0
  /\ holds' = [holds EXCEPT ![h] = FALSE]
Release(h) ==
  /\ requests' = IF holds[h] /\ requests > 0 THEN requests - 1 ELSE requests
  /\ holds' = [holds EXCEPT ![h] = FALSE]

\* Every route that answers at once.
Reply(h) ==
  /\ Goes(h, "get", "leaving")
  /\ UNCHANGED <<mix, holds, requests, streams, listening, frames, post, bus>>

\* _clock and proxy_clock: a request for the clock is forwarded to it by this thread,
\* which answers with what the clock says, or 503 when the timeout has run out.
AskClock(h) ==
  /\ Goes(h, "get", "proxy")
  /\ UNCHANGED <<mix, holds, requests, streams, listening, frames, post, bus>>

ProxyClock(h) ==
  /\ Goes(h, "proxy", "leaving")
  /\ UNCHANGED <<mix, holds, requests, streams, listening, frames, post, bus>>

Leave(h) ==
  /\ Goes(h, "leaving", "free")
  /\ Release(h)
  /\ post' = [post EXCEPT ![h] = None]
  /\ UNCHANGED <<mix, streams, listening, frames, bus>>
-----------------------------------------------------------------------------
(* Streams.                                                                *)

\* Refused for its origin or for want of a slot, or admitted.
AdmitStream(h) ==
  /\ \/ Goes(h, "stream", "leaving") /\ UNCHANGED streams
     \/ /\ streams < MaxStreams
        /\ Goes(h, "stream", "admitted") /\ streams' = streams + 1
  /\ UNCHANGED <<mix, holds, requests, listening, frames, post, bus>>

HandOver(h) ==
  /\ Goes(h, "admitted", "handshake")
  /\ Release(h)
  /\ UNCHANGED <<mix, streams, listening, frames, post, bus>>

\* A handshake without a key is refused, and one to a dead connection fails; the
\* clock's stream is relayed by this very thread, with no queue.
Handshake(h) ==
  /\ Goes(h, "handshake", "unwinding") \/ Goes(h, "handshake", "connect")
  /\ UNCHANGED <<mix, holds, requests, streams, listening, frames, post, bus>>

OpenStream(h) ==
  /\ Goes(h, "handshake", "open")
  /\ stream' = [stream EXCEPT ![h] = NewStream]
  /\ listening' = listening \cup {h}
  /\ offered' = [offered EXCEPT ![h] = 0] /\ got' = [got EXCEPT ![h] = 0]
  /\ told' = [told EXCEPT ![h] = 0]
  /\ UNCHANGED <<mix, holds, requests, streams, pending, sending, gone, post, bus>>

\* The executor copies the listeners under the lock and calls each outside it.
Frame ==
  /\ pending = {}
  /\ pending' = {h \in listening : pc[h] = "open" /\ offered[h] < MaxFrames}
  /\ pending' # {}
  /\ UNCHANGED <<mix, handlers, listening, stream, sending, gone, offered, got, told,
                 post, bus>>

OnMessage(h) ==
  /\ h \in pending
  /\ pending' = pending \ {h}
  /\ offered' = [offered EXCEPT ![h] = @ + 1]
  /\ stream' = [stream EXCEPT ![h] = Offer(@, offered'[h])]
  /\ UNCHANGED <<mix, handlers, listening, sending, gone, got, told, post, bus>>

TakeFrame(h) ==
  /\ pc[h] = "open" /\ sending[h] = None /\ CanTake(stream[h])
  /\ LET t == Take(stream[h])
     IN  /\ stream' = [stream EXCEPT ![h] = t.stream]
         /\ sending' = [sending EXCEPT ![h] = [item |-> t.item, dropped |-> t.dropped]]
  /\ UNCHANGED <<mix, handlers, listening, pending, gone, offered, got, told, post, bus>>

\* _ws_send returns when the client has read enough; it has no timeout.
SendFrame(h) ==
  /\ sending[h] # None /\ h \notin gone
  /\ got' = [got EXCEPT ![h] = sending[h].item]
  /\ told' = [told EXCEPT ![h] = sending[h].dropped]
  /\ sending' = [sending EXCEPT ![h] = None]
  /\ UNCHANGED <<mix, handlers, listening, pending, stream, gone, offered, post, bus>>

\* The client is gone, and the sockets know.
HangUp(h) ==
  /\ pc[h] = "open" /\ h \notin gone
  /\ gone' = gone \cup {h}
  /\ UNCHANGED <<mix, handlers, listening, pending, stream, sending, offered, got, told,
                 post, bus>>

\* The reader's last read: a close frame, of a client that may still be there,
\* or the end of a dead connection.
ReaderStops(h) ==
  /\ pc[h] = "open" /\ ~stream[h].closed
  /\ stream' = [stream EXCEPT ![h] = Close(@)]
  /\ UNCHANGED <<mix, handlers, listening, pending, sending, gone, offered, got, told,
                 post, bus>>

\* Out of the sending loop: stopped, once nothing is being written, or by a send
\* that fails.  An offer still to come meets a closed stream.
LeaveLoop(h) ==
  /\ IF sending[h] = None THEN stream[h].closed ELSE h \in gone
  /\ Goes(h, "open", "unwinding")

EndStream(h) ==
  /\ LeaveLoop(h)
  /\ listening' = listening \ {h} /\ pending' = pending \ {h} /\ gone' = gone \ {h}
  /\ stream' = [stream EXCEPT ![h] = NewStream] /\ sending' = [sending EXCEPT ![h] = None]
  /\ offered' = [offered EXCEPT ![h] = 0] /\ got' = [got EXCEPT ![h] = 0]
  /\ told' = [told EXCEPT ![h] = 0]
  /\ UNCHANGED <<mix, holds, requests, streams, post, bus>>

\* ws_connect, to the clock: it answers with a 101, or something else, or the
\* timeout ends it.
ConnectClock(h) ==
  /\ Goes(h, "connect", "relay") \/ Goes(h, "connect", "unwinding")
  /\ UNCHANGED <<mix, holds, requests, streams, listening, frames, post, bus>>

\* The clock closes its stream, or speaks and the client is gone.
EndRelay(h) ==
  /\ Goes(h, "relay", "unwinding")
  /\ UNCHANGED <<mix, holds, requests, streams, listening, frames, post, bus>>

ReleaseStream(h) ==
  /\ Goes(h, "unwinding", "leaving")
  /\ streams' = IF streams > 0 THEN streams - 1 ELSE 0
  /\ UNCHANGED <<mix, holds, requests, listening, frames, post, bus>>
-----------------------------------------------------------------------------
(* Spec pushes.                                                            *)

\* Discovery subscribes to the namespace, once; a latched status is replayed to it.
EnsureTracking ==
  /\ tracked' = TRUE
  /\ statusWire' = IF ~tracked /\ monitorStatus # None
                   THEN Append(statusWire, [spec |-> monitorStatus, by |-> None])
                   ELSE statusWire

Resolve(h, s) ==
  /\ Goes(h, "post", "resolved") /\ Len(statusWire) < MaxWire
  /\ post' = [post EXCEPT ![h] =
       [spec |-> s, before |-> None, box |-> None, alone |-> FALSE, heard |-> FALSE]]
  /\ EnsureTracking
  /\ UNCHANGED <<mix, holds, requests, streams, listening, frames,
                 latched, specWire, monitorStatus>>

ReadBefore(h) ==
  /\ Goes(h, "resolved", "ready")
  /\ post' = [post EXCEPT ![h].before = latched,
                          ![h].alone = specWire = <<>> /\ statusWire = <<>>]
  /\ UNCHANGED <<mix, holds, requests, streams, listening, frames, bus>>

Subscribe(h) == listening' = listening \cup {h} /\ UNCHANGED <<post, specWire>>

\* Whoever has read its before is not alone with its answer any more.
Publish(h) ==
  /\ Len(specWire) < MaxWire
  /\ specWire' = Append(specWire, [spec |-> post[h].spec, by |-> h])
  /\ post' = [g \in Handlers |->
       IF g # h /\ pc[g] \in {"ready", "listening", "waiting"}
       THEN [post[g] EXCEPT !.alone = FALSE] ELSE post[g]]
  /\ UNCHANGED listening

PublishThenSubscribe(h) ==
  \/ Goes(h, "ready", "listening") /\ Publish(h)
  \/ Goes(h, "listening", "waiting") /\ Subscribe(h)
SubscribeThenPublish(h) ==
  \/ Goes(h, "ready", "listening") /\ Subscribe(h)
  \/ Goes(h, "listening", "waiting") /\ Publish(h)

Push(h) ==
  /\ SubscribeThenPublish(h)
  /\ UNCHANGED <<mix, holds, requests, streams, frames,
                 tracked, latched, statusWire, monitorStatus>>

\* The monitor takes one push and latches its status.
MonitorAnswers ==
  /\ specWire # <<>> /\ Len(statusWire) < MaxWire
  /\ monitorStatus' = Head(specWire).spec
  /\ statusWire' = Append(statusWire, Head(specWire))
  /\ specWire' = Tail(specWire)
  /\ UNCHANGED <<mix, handlers, listening, frames, post, tracked, latched>>

\* on_status of every push that listens: the first status that differs from
\* the one latched before it.
Answered(h, status) ==
  IF post[h] = None THEN None
  ELSE [post[h] EXCEPT
    !.box   = IF h \in listening /\ @ = None /\ status.spec # post[h].before
              THEN status.spec ELSE @,
    !.heard = @ \/ (status.by = h /\ pc[h] \in {"listening", "waiting"})]

OnLatched ==
  /\ statusWire # <<>>
  /\ latched' = Head(statusWire).spec
  /\ post' = [h \in Handlers |-> Answered(h, Head(statusWire))]
  /\ statusWire' = Tail(statusWire)
  /\ UNCHANGED <<mix, handlers, listening, frames, tracked, specWire, monitorStatus>>

\* An answer, or spec_timeout.
WaitEndsAnswered(h) == post[h].box # None
WaitEnds(h) == TRUE

EndPost(h) ==
  /\ Goes(h, "waiting", "leaving") /\ WaitEnds(h)
  /\ listening' = listening \ {h}
  /\ UNCHANGED <<mix, holds, requests, streams, frames, post, bus>>
-----------------------------------------------------------------------------
Handler(h) ==
  \/ Route(h) \/ Reply(h) \/ AskClock(h) \/ ProxyClock(h) \/ Leave(h)
  \/ AdmitStream(h) \/ HandOver(h) \/ Handshake(h) \/ OpenStream(h)
  \/ TakeFrame(h) \/ EndStream(h) \/ ConnectClock(h) \/ EndRelay(h) \/ ReleaseStream(h)
  \/ \E s \in Specs : Resolve(h, s)
  \/ ReadBefore(h) \/ Push(h) \/ EndPost(h)

Next ==
  \/ \E h \in Handlers :
       Handler(h) \/ SendFrame(h) \/ HangUp(h) \/ ReaderStops(h) \/ OnMessage(h)
  \/ Frame \/ MonitorAnswers \/ OnLatched

\* A thread that can go on does, but nobody need ask for anything: connections
\* and the monitor owe the gateway nothing, not even to read what is sent, a
\* relayed clock may be silent.
Busy(h) == Handler(h) /\ pc[h] \notin {"free", "relay"}

Spec ==
  /\ Init /\ [][Next]_vars
  /\ \A h \in Handlers :
       WF_vars(Busy(h)) /\ WF_vars(OnMessage(h)) /\ WF_vars(h \in gone /\ ReaderStops(h))
  /\ WF_vars(OnLatched)
-----------------------------------------------------------------------------
InRequest == PC \ {"free", "handshake", "open", "connect", "relay", "unwinding"}
InStream  == {"admitted", "handshake", "open", "connect", "relay", "unwinding"}

\* The type invariant, and: the counters are the threads: each request in flight and each stream holds
\* one slot of its budget, through handover, refusal and hang-up, and none is
\* held by nobody (acquire_*, release_*, _release_request).
BudgetsAreThreads ==
  /\ TypeOK
  /\ streams = Cardinality({h \in Handlers : pc[h] \in InStream})
  /\ requests = Cardinality({h \in Handlers : holds[h]})
  /\ \A h \in Handlers :
       /\ pc[h] \in InRequest \ {"leaving"} => holds[h]
       /\ pc[h] \in InStream \ {"admitted"} => ~holds[h]

\* A client's view is decimated, never silently: with n frames in hand and d
\* told missing, the last one is the (n+d)-th sent since it connected.
Channels == INSTANCE CountedLoss WITH Clients <- Handlers, sent <- offered
StreamsCountLoss == Channels!Spec

\* A push no other push overlaps gets its own answer, or is told of none when
\* the answer it got is the text latched before (post_spec's docstring).
LonePushIsCertain ==
  \A h \in Handlers :
    pc[h] = "leaving" /\ post[h] # None /\ post[h].alone =>
      /\ post[h].box # None => post[h].box = post[h].spec
      /\ post[h].box = None /\ post[h].heard => post[h].spec = post[h].before

\* A stream whose client is gone, in the middle of a write as well, a push to a mute
\* monitor and a request to a mute clock give their slot back.
SlotsComeBack ==
  \A h \in Handlers : (pc[h] \in {"waiting", "proxy"} \/ h \in gone) ~> pc[h] = "free"
=============================================================================
