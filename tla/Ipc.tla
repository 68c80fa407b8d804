---------------------------------- MODULE Ipc ----------------------------------
(***************************************************************************)
(* The Unix-socket protocol: the daemon's server (src/ipc/server.rs), its  *)
(* publish/subscribe hub (src/ipc/hub.rs) and the client (src/ipc/client.rs)*)
(* used by the TUI and the MCP bridge.                                     *)
(*                                                                         *)
(* A published event is its position in its topic; a broadcast receiver is *)
(* the position it reads next.  A frame is an event of a subscription, its *)
(* lagged notice, or a response; it stands for the n events from position  *)
(* at on, of which a notice carries the number only.  A payload is nothing, *)
(* but a response may be larger than a frame may be.                       *)
(***************************************************************************)
EXTENDS Integers, Sequences, FiniteSets

CONSTANTS
  Clients, Topics,
  Casts,           \* what the clients may do: a set of [Clients -> SUBSET Roles]
  HubCapacity,     \* DEFAULT_TOPIC_CAPACITY
  Mailbox,         \* WRITER_MAILBOX
  Socket,          \* frames the kernel buffers, per direction
  EventQueue,      \* the client's events and responses channels
  MaxSubs, MaxInflight, MaxConnections,
  Oversize,        \* whether a response may exceed MAX_FRAME_BYTES
  Stops, Quits,    \* whether the daemon is shut down; whether clients go away
  MaxEvents, MaxRequests  \* bounds: events per topic, requests per client

Roles == {"request", "pipeline", "subscribe"}

ASSUME IpcAssumption ==
  /\ Casts \subseteq [Clients -> SUBSET Roles]
  /\ \A n \in {HubCapacity, Mailbox, Socket, EventQueue, MaxSubs, MaxInflight, MaxConnections} :
       n \in Nat \ {0}
  /\ MaxEvents \in Nat /\ MaxRequests \in Nat
  /\ Oversize \in BOOLEAN /\ Stops \in BOOLEAN /\ Quits \in BOOLEAN

VARIABLES
  server,   \* "up", "stopping" (cancelled, draining) or "down"
  head,     \* events published on each topic
  conns,    \* conn_count
  srv,      \* the server's side of each connection
  cli,      \* the client's side
  up, sock, \* the socket's buffers, to the server and to the client
  role      \* the roles of the clients, fixed at the start

vars == <<server, head, conns, srv, cli, up, sock, role>>

NoRequest == [id |-> 0, op |-> "none", arg |-> 0]
NoFrame == [kind |-> "none", id |-> 0, at |-> 0, n |-> 0, big |-> FALSE]
EventFrame(s, at) == [kind |-> "event", id |-> s, at |-> at, n |-> 1, big |-> FALSE]
LagFrame(s, at, n) == [kind |-> "lagged", id |-> s, at |-> at, n |-> n, big |-> FALSE]
Answer(i, big) == [kind |-> "response", id |-> i, at |-> 0, n |-> 0, big |-> big]

Put(c, side) == srv' = [srv EXCEPT ![c] = side]
Set(c, side) == cli' = [cli EXCEPT ![c] = side]

-----------------------------------------------------------------------------
(* Hub.                                                                    *)

\* Hub::publish; broadcast::Sender::send never waits.
Publish(t) ==
  /\ server # "down" /\ head[t] < MaxEvents
  /\ head' = [head EXCEPT ![t] = @ + 1]
  /\ UNCHANGED <<server, conns, srv, cli, up, sock, role>>

\* Mutants: the notice counts one too few; a lag skips to the newest event; it
\* ends the forwarder.
Mutant_RecvMiscounts(f) ==
  LET oldest == head[f.topic] - HubCapacity + 1
  IN IF f.cur < oldest
       THEN [f EXCEPT !.cur = oldest, !.hold = LagFrame(f.id, f.cur, oldest - f.cur - 1)]
       ELSE [f EXCEPT !.cur = @ + 1, !.hold = EventFrame(f.id, f.cur)]
Mutant_RecvSkipsToNewest(f) ==
  IF f.cur < head[f.topic] - HubCapacity + 1
    THEN [f EXCEPT !.cur = head[f.topic], !.hold = LagFrame(f.id, f.cur, head[f.topic] - f.cur)]
    ELSE [f EXCEPT !.cur = @ + 1, !.hold = EventFrame(f.id, f.cur)]
Mutant_RecvEndsOnLag(f) ==
  IF f.cur < head[f.topic] - HubCapacity + 1
    THEN [f EXCEPT !.st = "ended"]
    ELSE [f EXCEPT !.cur = @ + 1, !.hold = EventFrame(f.id, f.cur)]

\* Receiver::recv of a forwarder: the next event, or how many were overwritten.
Recv(f) ==
  LET oldest == head[f.topic] - HubCapacity + 1
  IN IF f.cur < oldest
       THEN [f EXCEPT !.cur = oldest, !.hold = LagFrame(f.id, f.cur, oldest - f.cur)]
       ELSE [f EXCEPT !.cur = @ + 1, !.hold = EventFrame(f.id, f.cur)]

-----------------------------------------------------------------------------
(* Server: accept loop.                                                    *)

Accept(c) ==
  /\ server = "up" /\ srv[c].link = "backlog"
  /\ IF conns >= MaxConnections
       THEN Put(c, [srv[c] EXCEPT !.link = "closed"]) /\ UNCHANGED conns
       ELSE Put(c, [srv[c] EXCEPT !.link = "open"]) /\ conns' = conns + 1
  /\ UNCHANGED <<server, head, cli, up, sock, role>>

\* ServerHandle::shutdown cancels the token ...
Stop ==
  /\ Stops /\ server = "up"
  /\ server' = "stopping"
  /\ UNCHANGED <<head, conns, srv, cli, up, sock, role>>

\* ... and the accept loop ends once its JoinSet is empty, dropping the listener.
AcceptLoopEnds ==
  /\ server = "stopping"
  /\ \A c \in Clients : srv[c].link \in {"none", "backlog", "closed"}
  /\ server' = "down"
  /\ srv' = [c \in Clients |-> IF srv[c].link = "backlog" THEN [srv[c] EXCEPT !.link = "closed"]
                               ELSE srv[c]]
  /\ UNCHANGED <<head, conns, cli, up, sock, role>>

-----------------------------------------------------------------------------
(* Server: reader loop and drain of one connection.                        *)

\* JoinSet::join_next while saturated: finished handlers count until joined.
ReapHandler(c) ==
  /\ server = "up" /\ srv[c].link = "open"
  /\ Cardinality(srv[c].handlers) >= MaxInflight
  /\ \E h \in srv[c].handlers : h.stage = "done"
       /\ Put(c, [srv[c] EXCEPT !.handlers = @ \ {h}])
  /\ UNCHANGED <<server, head, conns, cli, up, sock, role>>

Handler(r) ==
  [id |-> r.id, op |-> r.op, arg |-> r.arg, stage |-> "run", cur |-> 0, big |-> FALSE]

ReadRequest(c) ==
  /\ server = "up" /\ srv[c].link = "open" /\ up[c] # <<>>
  /\ Cardinality(srv[c].handlers) < MaxInflight
  /\ Put(c, [srv[c] EXCEPT !.handlers = @ \cup {Handler(Head(up[c]))}])
  /\ up' = [up EXCEPT ![c] = Tail(@)]
  /\ UNCHANGED <<server, head, conns, cli, sock, role>>

\* The loop breaks: the client closed its end, or the token was cancelled.
ReaderBreaks(c) ==
  /\ srv[c].link = "open"
  /\ \/ server = "stopping"
     \/ /\ cli[c].app = "gone" /\ up[c] = <<>>
        /\ Cardinality(srv[c].handlers) < MaxInflight
  /\ Put(c, [srv[c] EXCEPT !.link = "draining"])
  /\ UNCHANGED <<server, head, conns, cli, up, sock, role>>

\* handlers.shutdown().
AbortHandlers(c) ==
  /\ srv[c].link = "draining"
  /\ Put(c, [srv[c] EXCEPT !.link = "unsubscribing", !.handlers = {}])
  /\ UNCHANGED <<server, head, conns, cli, up, sock, role>>

\* JoinHandle::abort: a forwarder may finish the poll it is in before it ends.
Abort(f) == [f EXCEPT !.mapped = FALSE, !.st = IF @ = "run" THEN "aborted" ELSE @]

\* Mutant: the map is dropped, which detaches its tasks.
Mutant_AbortForwarders(c) ==
  /\ srv[c].link = "unsubscribing"
  /\ Put(c, [srv[c] EXCEPT !.link = "flushing"])
  /\ UNCHANGED <<server, head, conns, cli, up, sock, role>>

\* subs.drain(), drop(out_tx).
AbortForwarders(c) ==
  /\ srv[c].link = "unsubscribing"
  /\ Put(c, [srv[c] EXCEPT !.link = "flushing", !.fwd = {Abort(f) : f \in @}])
  /\ UNCHANGED <<server, head, conns, cli, up, sock, role>>

\* The mailbox is empty and its last sender gone: the writer task ends, and with
\* it the half of the socket that the client reads.
WriterEnds(c) ==
  /\ srv[c].link = "flushing" /\ srv[c].mail = <<>>
  /\ \A f \in srv[c].fwd : f.st = "ended"
  /\ Put(c, [srv[c] EXCEPT !.link = "half"])
  /\ UNCHANGED <<server, head, conns, cli, up, sock, role>>

\* handle_connection returns: the other half closes, the count goes down.
Close(c) ==
  /\ srv[c].link = "half"
  /\ Put(c, [srv[c] EXCEPT !.link = "closed"]) /\ conns' = conns - 1
  /\ up' = [up EXCEPT ![c] = <<>>]
  /\ UNCHANGED <<server, head, cli, sock, role>>

\* The writer task.
WriteFrame(c) ==
  /\ srv[c].mail # <<>> /\ cli[c].app # "gone" /\ Len(sock[c]) < Socket
  /\ sock' = [sock EXCEPT ![c] = Append(@, Head(srv[c].mail))]
  /\ Put(c, [srv[c] EXCEPT !.mail = Tail(@)])
  /\ UNCHANGED <<server, head, conns, cli, up, role>>

WriteFails(c) ==
  /\ srv[c].mail # <<>> /\ cli[c].app = "gone"
  /\ Put(c, [srv[c] EXCEPT !.mail = <<>>, !.writing = FALSE])
  /\ UNCHANGED <<server, head, conns, cli, up, sock, role>>

-----------------------------------------------------------------------------
(* Server: request handlers.                                               *)

Replace(c, h, g) == [srv[c] EXCEPT !.handlers = (@ \ {h}) \cup {g}]

\* The dispatcher, ping or an unknown op: all give a response in the end.
Dispatch(c, h) ==
  /\ h.stage = "run" /\ h.op = "call"
  /\ \E big \in {FALSE, Oversize} :
       Put(c, Replace(c, h, [h EXCEPT !.stage = "respond", !.big = big]))
  /\ UNCHANGED <<server, head, conns, cli, up, sock, role>>

\* handle_subscribe up to the lock: hub.subscribe starts after the last event.
HubSubscribe(c, h) ==
  /\ h.stage = "run" /\ h.op = "subscribe"
  /\ Put(c, Replace(c, h, [h EXCEPT !.stage = "lock", !.cur = head[h.arg] + 1]))
  /\ UNCHANGED <<server, head, conns, cli, up, sock, role>>

\* ... and under it: the cap, the forwarder and the map entry in one step.
InsertSub(c, h) ==
  LET full == Cardinality({f \in srv[c].fwd : f.mapped}) >= MaxSubs
      s == [id |-> h.id, topic |-> h.arg, from |-> h.cur, cur |-> h.cur,
            hold |-> NoFrame, st |-> "run", mapped |-> TRUE]
  IN /\ h.stage = "lock"
     /\ Put(c, [Replace(c, h, [h EXCEPT !.stage = "respond"])
                  EXCEPT !.fwd = IF full THEN @ ELSE @ \cup {s}])
     /\ UNCHANGED <<server, head, conns, cli, up, sock, role>>

\* handle_unsubscribe; an unknown id is an error response.
RemoveSub(c, h) ==
  /\ h.stage = "run" /\ h.op = "unsubscribe"
  /\ Put(c, [Replace(c, h, [h EXCEPT !.stage = "respond"])
               EXCEPT !.fwd = {IF f.id = h.arg /\ f.mapped THEN Abort(f) ELSE f : f \in @}])
  /\ UNCHANGED <<server, head, conns, cli, up, sock, role>>

\* Mutant: try_send, which drops the response when the mailbox is full.
Mutant_Respond(c, h) ==
  /\ h.stage = "respond"
  /\ Put(c, [Replace(c, h, [h EXCEPT !.stage = "done"])
               EXCEPT !.mail = IF srv[c].writing /\ Len(@) < Mailbox
                                 THEN Append(@, Answer(h.id, h.big)) ELSE @])
  /\ UNCHANGED <<server, head, conns, cli, up, sock, role>>

\* send_response: waits for room; ignores a writer that is gone.
Respond(c, h) ==
  /\ h.stage = "respond" /\ (Len(srv[c].mail) < Mailbox \/ ~srv[c].writing)
  /\ Put(c, [Replace(c, h, [h EXCEPT !.stage = "done"])
               EXCEPT !.mail = IF srv[c].writing THEN Append(@, Answer(h.id, h.big)) ELSE @])
  /\ UNCHANGED <<server, head, conns, cli, up, sock, role>>

\* The handler loses its race against the connection's token.
HandlerCancelled(c, h) ==
  /\ server = "stopping" /\ h.stage # "done"
  /\ Put(c, Replace(c, h, [h EXCEPT !.stage = "done"]))
  /\ UNCHANGED <<server, head, conns, cli, up, sock, role>>

HandlerStep(c) ==
  \E h \in srv[c].handlers :
    \/ Dispatch(c, h) \/ HubSubscribe(c, h) \/ InsertSub(c, h) \/ RemoveSub(c, h)
    \/ Respond(c, h)

-----------------------------------------------------------------------------
(* Server: forwarder tasks.                                                *)

Update(c, f, g) == [srv[c] EXCEPT !.fwd = (@ \ {f}) \cup {g}]

ForwarderRecv(c, f) ==
  /\ f.st # "ended" /\ f.hold = NoFrame /\ f.cur <= head[f.topic]
  /\ Put(c, Update(c, f, Recv(f)))
  /\ UNCHANGED <<server, head, conns, cli, up, sock, role>>

\* out_tx_fwd.send: waits for room; an error ends the forwarder.
ForwarderSend(c, f) ==
  /\ f.st # "ended" /\ f.hold # NoFrame
  /\ IF srv[c].writing
       THEN /\ Len(srv[c].mail) < Mailbox
            /\ Put(c, [Update(c, f, [f EXCEPT !.hold = NoFrame])
                         EXCEPT !.mail = Append(@, f.hold)])
       ELSE Put(c, Update(c, f, [f EXCEPT !.st = "ended", !.hold = NoFrame]))
  /\ UNCHANGED <<server, head, conns, cli, up, sock, role>>

ForwarderEnds(c, f) ==
  /\ f.st = "aborted"
  /\ Put(c, Update(c, f, [f EXCEPT !.st = "ended", !.hold = NoFrame]))
  /\ UNCHANGED <<server, head, conns, cli, up, sock, role>>

ForwarderStep(c) ==
  \E f \in srv[c].fwd : ForwarderRecv(c, f) \/ ForwarderSend(c, f)

-----------------------------------------------------------------------------
(* Client.                                                                 *)

Connect(c) ==
  /\ cli[c].app = "off" /\ server = "up" /\ role[c] # {}
  /\ Set(c, [cli[c] EXCEPT !.app = "idle", !.reader = "run"])
  /\ Put(c, [srv[c] EXCEPT !.link = "backlog"])
  /\ UNCHANGED <<server, head, conns, up, sock, role>>

\* The ops a client may send, with its arguments; a sub_id is the id of the
\* request that made the subscription.
Ops(c) ==
  {[op |-> "call", arg |-> 0] : x \in role[c] \cap {"request"}}
    \cup (IF "subscribe" \in role[c]
            THEN {[op |-> "subscribe", arg |-> t] : t \in Topics}
                   \cup {[op |-> "unsubscribe", arg |-> i] : i \in 1..cli[c].sent}
            ELSE {})

\* Client::request: register the waker, then write the frame.
Request(c) ==
  /\ cli[c].app = "idle" /\ cli[c].sent < MaxRequests
  /\ \E o \in Ops(c) :
       LET i == cli[c].sent + 1
       IN Set(c, [cli[c] EXCEPT !.app = "writing", !.sent = i, !.pending = @ \cup {i},
                                !.want = [id |-> i, op |-> o.op, arg |-> o.arg]])
  /\ UNCHANGED <<server, head, conns, srv, up, sock, role>>

\* write_frame waits for room, and fails on a closed socket.
WriteRequest(c) ==
  /\ cli[c].app = "writing"
  /\ IF srv[c].link = "closed"
       THEN /\ Set(c, [cli[c] EXCEPT !.app = "idle", !.pending = @ \ {cli[c].want.id}])
            /\ UNCHANGED up
       ELSE /\ Len(up[c]) < Socket
            /\ up' = [up EXCEPT ![c] = Append(@, cli[c].want)]
            /\ Set(c, [cli[c] EXCEPT !.app = "waiting"])
  /\ UNCHANGED <<server, head, conns, srv, sock, role>>

\* rx.await returns: the response came, or the sender was dropped.
RequestReturns(c) ==
  /\ cli[c].app = "waiting" /\ cli[c].want.id \notin cli[c].pending
  /\ Set(c, [cli[c] EXCEPT !.app = "idle"])
  /\ UNCHANGED <<server, head, conns, srv, up, sock, role>>

\* Client::send_request: no waker.
SendRequest(c) ==
  LET i == cli[c].sent + 1
  IN /\ "pipeline" \in role[c] /\ cli[c].app = "idle" /\ cli[c].sent < MaxRequests
     /\ srv[c].link # "closed" /\ Len(up[c]) < Socket
     /\ up' = [up EXCEPT ![c] = Append(@, [id |-> i, op |-> "call", arg |-> 0])]
     /\ Set(c, [cli[c] EXCEPT !.sent = i])
     /\ UNCHANGED <<server, head, conns, srv, sock, role>>

\* Client::next_response, next_event.
NextResponse(c) ==
  /\ cli[c].app = "idle" /\ cli[c].responses # <<>>
  /\ Set(c, [cli[c] EXCEPT !.responses = Tail(@)])
  /\ UNCHANGED <<server, head, conns, srv, up, sock, role>>

\* Events of a subscription that the client has received or been told it lost.
Account(seen, e) == [seen EXCEPT ![e.id] = @ + e.n]

NextEvent(c) ==
  /\ cli[c].app = "idle" /\ cli[c].events # <<>>
  /\ Set(c, [cli[c] EXCEPT !.events = Tail(@), !.seen = Account(@, Head(cli[c].events))])
  /\ UNCHANGED <<server, head, conns, srv, up, sock, role>>

\* The reader task: it takes a frame once it can hand it on.
ReadFrame(c) ==
  LET r == Head(sock[c])
  IN /\ cli[c].reader = "run" /\ sock[c] # <<>>
     /\ \/ /\ r.kind = "response" /\ ~r.big /\ r.id \in cli[c].pending
           /\ Set(c, [cli[c] EXCEPT !.pending = @ \ {r.id}])
        \/ /\ r.kind = "response" /\ ~r.big /\ r.id \notin cli[c].pending
           /\ Len(cli[c].responses) < EventQueue
           /\ Set(c, [cli[c] EXCEPT !.responses = Append(@, r.id)])
        \/ /\ r.kind # "response" /\ Len(cli[c].events) < EventQueue
           /\ Set(c, [cli[c] EXCEPT !.events = Append(@, r)])
     /\ sock' = [sock EXCEPT ![c] = Tail(@)]
     /\ UNCHANGED <<server, head, conns, srv, up, role>>

\* End of file, or a frame larger than MAX_FRAME_BYTES: the reader drops the
\* wakers and ends.
ReaderEnds(c) ==
  /\ cli[c].reader = "run"
  /\ \/ sock[c] = <<>> /\ srv[c].link \in {"half", "closed"}
     \/ sock[c] # <<>> /\ Head(sock[c]).kind = "response" /\ Head(sock[c]).big
  /\ Set(c, [cli[c] EXCEPT !.reader = "ended", !.pending = {}])
  /\ UNCHANGED <<server, head, conns, srv, up, sock, role>>

\* The client is dropped, or its process ends.
Quit(c) ==
  /\ Quits /\ cli[c].app \notin {"off", "gone"}
  /\ Set(c, [cli[c] EXCEPT !.app = "gone", !.reader = "ended", !.pending = {},
                           !.events = <<>>, !.responses = <<>>])
  /\ sock' = [sock EXCEPT ![c] = <<>>]
  /\ UNCHANGED <<server, head, conns, srv, up, role>>

-----------------------------------------------------------------------------
Init ==
  /\ server = "up" /\ head = [t \in Topics |-> 0] /\ conns = 0
  /\ srv = [c \in Clients |-> [link |-> "none", handlers |-> {}, fwd |-> {}, mail |-> <<>>,
                               writing |-> TRUE]]
  /\ cli = [c \in Clients |-> [app |-> "off", reader |-> "none", sent |-> 0, pending |-> {},
                               want |-> NoRequest, events |-> <<>>, responses |-> <<>>,
                               seen |-> [i \in 1..MaxRequests |-> 0]]]
  /\ up = [c \in Clients |-> <<>>] /\ sock = [c \in Clients |-> <<>>] /\ role \in Casts

ServerStep(c) ==
  \/ Accept(c) \/ ReapHandler(c) \/ ReadRequest(c) \/ ReaderBreaks(c)
  \/ AbortHandlers(c) \/ AbortForwarders(c) \/ WriterEnds(c) \/ Close(c)
  \/ \E h \in srv[c].handlers : HandlerCancelled(c, h)

WriterStep(c) == WriteFrame(c) \/ WriteFails(c)
AbortedStep(c) == \E f \in srv[c].fwd : ForwarderEnds(c, f)
RequestStep(c) == WriteRequest(c) \/ RequestReturns(c)
ReaderStep(c) == ReadFrame(c) \/ ReaderEnds(c)
DrainStep(c) == NextResponse(c) \/ NextEvent(c)

Next ==
  \/ Stop \/ AcceptLoopEnds
  \/ \E t \in Topics : Publish(t)
  \/ \E c \in Clients :
       \/ ServerStep(c) \/ HandlerStep(c) \/ ForwarderStep(c) \/ AbortedStep(c) \/ WriterStep(c)
       \/ Connect(c) \/ Request(c) \/ RequestStep(c) \/ SendRequest(c)
       \/ ReaderStep(c) \/ DrainStep(c) \/ Quit(c)

Spec == Init /\ [][Next]_vars

\* Tokio polls every task that can go on; the accept loop and the writers wait
\* for nothing else.  A client that is not in a request takes its events.
FairSpec ==
  /\ Spec /\ WF_vars(AcceptLoopEnds)
  /\ \A c \in Clients :
       /\ WF_vars(ServerStep(c)) /\ WF_vars(HandlerStep(c)) /\ WF_vars(ForwarderStep(c))
       /\ WF_vars(AbortedStep(c)) /\ WF_vars(WriterStep(c))
       /\ WF_vars(RequestStep(c)) /\ WF_vars(ReaderStep(c)) /\ WF_vars(DrainStep(c))

-----------------------------------------------------------------------------
(* Properties.                                                             *)

Links == {"none", "backlog", "open", "draining", "unsubscribing", "flushing", "half", "closed"}
Counted == {"open", "draining", "unsubscribing", "flushing", "half"}

\* Types, and every limit of the server: the connections counted are the ones
\* being handled, and no queue, handler set or subscription map outgrows its cap.
TypeOK ==
  /\ role \in Casts
  /\ server \in {"up", "stopping", "down"} /\ head \in [Topics -> 0..MaxEvents]
  /\ conns = Cardinality({c \in Clients : srv[c].link \in Counted})
  /\ conns <= MaxConnections
  /\ \A c \in Clients :
       /\ srv[c].link \in Links /\ srv[c].writing \in BOOLEAN
       /\ Len(srv[c].mail) <= Mailbox
       /\ Cardinality(srv[c].handlers) <= MaxInflight
       /\ Cardinality({f \in srv[c].fwd : f.mapped}) <= MaxSubs
       /\ cli[c].app \in {"off", "idle", "writing", "waiting", "gone"}
       /\ cli[c].reader \in {"none", "run", "ended"} /\ cli[c].pending \subseteq 1..MaxRequests
       /\ Len(cli[c].events) <= EventQueue /\ Len(cli[c].responses) <= EventQueue
       /\ Len(up[c]) <= Socket /\ Len(sock[c]) <= Socket

\* The frames of subscription s in q stand for the events a..b-1, each once, in order.
Of(e, s) == e.kind \in {"event", "lagged"} /\ e.id = s
Leads(q, s, a, b) ==
  /\ a <= b
  /\ \A k \in DOMAIN q : Of(q[k], s) => 1 <= q[k].n /\ a <= q[k].at /\ q[k].at + q[k].n <= b
  /\ \A j, k \in DOMAIN q :
       j < k /\ Of(q[j], s) /\ Of(q[k], s) => q[j].at + q[j].n <= q[k].at
  /\ \A m \in a..(b - 1) : \E k \in DOMAIN q :
       Of(q[k], s) /\ q[k].at <= m /\ m < q[k].at + q[k].n

\* A subscriber can tell exactly which events it missed: its events arrive in
\* order and without repetition, and every gap is told by lagged notices of its size,
\* whatever was overwritten while mailbox, socket or client were full.
EventsAccounted ==
  \A c \in Clients : \A f \in srv[c].fwd :
    cli[c].app # "gone" =>
      \E b \in 0..f.cur :
        /\ f.st # "ended" => b = f.cur
        /\ Leads(cli[c].events \o sock[c] \o srv[c].mail \o <<f.hold>>, f.id,
                 f.from + cli[c].seen[f.id], b)

\* While daemon and connection live, the request a client waits for is still
\* somewhere: unread, in a handler, or answered by a frame on its way.
NoLostAnswer ==
  \A c \in Clients :
    /\ server = "up" /\ srv[c].link \in {"backlog", "open"} /\ cli[c].reader = "run"
    /\ cli[c].app = "waiting" /\ cli[c].want.id \in cli[c].pending
    => LET i == cli[c].want.id
       IN \/ \E k \in DOMAIN up[c] : up[c][k].id = i
          \/ \E h \in srv[c].handlers : h.id = i /\ h.stage # "done"
          \/ \E q \in {srv[c].mail, sock[c]} :
               \E k \in DOMAIN q : q[k].kind = "response" /\ q[k].id = i

\* Each subscription is a stream that loses only events older than the last
\* HubCapacity ones, and says how many.
Published(c, i) ==
  IF \E f \in srv[c].fwd : f.id = i
    THEN LET f == CHOOSE f \in srv[c].fwd : f.id = i IN head[f.topic] - f.from + 1
    ELSE 0
Stream(c, i) == INSTANCE EventStream WITH
  published <- Published(c, i), accounted <- cli[c].seen[i], Capacity <- HubCapacity
StreamsImplemented ==
  /\ \A c \in Clients : \A i \in 1..MaxRequests : Stream(c, i)!Init
  /\ [][\A c \in Clients : \A i \in 1..MaxRequests :
          [Stream(c, i)!Next]_<<Published(c, i), cli[c].seen[i]>>]_vars

\* The connection of a client that went away is released.
ConnectionsReleased ==
  \A c \in Clients : (cli[c].app = "gone") ~> (srv[c].link = "closed")

\* The client's reader task holds a frame for a channel that is full, while the caller
\* who would drain it awaits an answer.
Clogged(c) ==
  LET r == Head(sock[c])
  IN /\ cli[c].app \in {"writing", "waiting"} /\ cli[c].reader = "run" /\ sock[c] # <<>>
     /\ IF r.kind = "response" THEN r.id \notin cli[c].pending /\ Len(cli[c].responses) = EventQueue
        ELSE Len(cli[c].events) = EventQueue

\* A request to a running daemon returns, unless from some point on the channel of
\* events or of unclaimed responses that its own client drains is full (Client::request
\* and next_event take &mut self, so nobody drains it then): nothing else that its
\* connection carries, and no other client, holds it up.
EveryRequestEnds ==
  \A c \in Clients : (cli[c].app \in {"writing", "waiting"})
                        ~> (cli[c].app \in {"idle", "gone"} \/ server # "up" \/ []Clogged(c))

\* A live subscription catches up with what was published on its topic, unless its
\* client is clogged for good.
EventsDelivered ==
  \A c \in Clients : \A i \in 1..MaxRequests :
    [](\/ \A f \in srv[c].fwd : f.id # i
       \/ <>(\/ cli[c].seen[i] = Published(c, i)
             \/ \E f \in srv[c].fwd : f.id = i /\ ~f.mapped
             \/ cli[c].app = "gone" \/ server # "up" \/ []Clogged(c)))
================================================================================
