------------------------------ MODULE IpcProofs ------------------------------
(***************************************************************************)
(* Proofs about Ipc: whatever is overwritten, full, cut off or closed, a   *)
(* subscriber can account for every event, and no answer is lost.          *)
(***************************************************************************)
EXTENDS IpcConnection

LEMMA ConnectStep ==
  ASSUME IInv, NEW c \in Clients, Connect(c)
  PROVE  IInv' /\ Kept
<1>1. PICK t \in Srv :
        /\ Put(c, t) /\ t.fwd = srv[c].fwd /\ t.mail = srv[c].mail
        /\ t.writing = srv[c].writing /\ t.handlers = srv[c].handlers
  BY AtClient DEF Connect, Srv, Links
<1>2. PICK m \in Cli :
        /\ Set(c, m) /\ m.events = cli[c].events /\ m.seen = cli[c].seen
        /\ m.sent = cli[c].sent /\ m.app = "idle"
  <2>1. PICK m : m = [cli[c] EXCEPT !.app = "idle", !.reader = "run"]
    OBVIOUS
  <2>2. /\ m \in Cli /\ m.events = cli[c].events /\ m.seen = cli[c].seen
        /\ m.sent = cli[c].sent /\ m.app = "idle"
    BY <2>1, AtClient, Zenon DEF Cli
  <2> QED
    BY <2>1, <2>2, Zenon DEF Connect
<1>3. Good(server, head, t, cli[c], up[c], sock[c]) /\ cli[c].app = "off"
  BY <1>1, AtClient, LessKeeps DEF Connect
<1>4. Good(server, head, t, m, up[c], sock[c])
  <2>1. Past(cli[c]) = Past(m)
    BY <1>2, <1>3 DEF Past
  <2>2. IdsOK(t, m, up[c])
    BY <2>1, <1>2, <1>3 DEF Good, IdsOK
  <2>3. AnswerOK(server, t, m, up[c], sock[c])
    BY <1>2 DEF AnswerOK
  <2> QED
    BY <2>2, <2>3, <1>2, <1>3, AtClient, ClientKeeps
<1>5. UNCHANGED <<server, head, up, sock>>
  BY DEF Connect
<1> QED
  BY <1>1, <1>2, <1>4, <1>5, BothSides, Zenon

LEMMA RequestStart ==
  ASSUME IInv, NEW c \in Clients, Request(c)
  PROVE  IInv' /\ Kept
<1>1. PICK o \in Ops(c) :
        Set(c, [cli[c] EXCEPT !.app = "writing", !.sent = cli[c].sent + 1,
                              !.pending = @ \cup {cli[c].sent + 1},
                              !.want = [id |-> cli[c].sent + 1, op |-> o.op, arg |-> o.arg]])
  BY Zenon DEF Request
<1>2. cli[c] \in Cli /\ cli[c].app = "idle" /\ cli[c].sent < MaxRequests /\ cli[c].sent \in Nat
      /\ cli[c].sent + 1 \in 0..MaxRequests
  <2>1. cli[c] \in Cli /\ cli[c].app = "idle" /\ cli[c].sent < MaxRequests
    BY AtClient, Zenon DEF Request
  <2>2. cli[c].sent \in 0..MaxRequests /\ MaxRequests \in Nat
    BY <2>1, IpcAssumption, ClientIn, Zenon
  <2> QED
    BY <2>1, <2>2
<1>3. PICK r : r = [id |-> cli[c].sent + 1, op |-> o.op, arg |-> o.arg]
  BY Zenon
<1>4. r \in Req /\ r.id = cli[c].sent + 1 /\ Valid(r)
  <2>1. /\ o.op \in {"call", "subscribe", "unsubscribe"} /\ o.arg \in Topics \cup Nat
        /\ o.op = "subscribe" => o.arg \in Topics
    BY <1>2 DEF Ops
  <2> QED
    BY <1>2, <1>3, <2>1 DEF Req, Operations, Valid
<1>5. PICK m \in Cli :
        /\ Set(c, m) /\ m.events = cli[c].events /\ m.seen = cli[c].seen /\ m.want = r
        /\ m.sent = cli[c].sent + 1 /\ m.app = "writing"
  <2>1. PICK n \in 0..MaxRequests : n = cli[c].sent + 1 /\ n \in Nat
    BY <1>2, IpcAssumption
  <2>2. PICK m : m = [cli[c] EXCEPT !.app = "writing", !.sent = n, !.pending = @ \cup {n},
                                    !.want = r]
    OBVIOUS
  <2>3. /\ m \in Cli /\ m.events = cli[c].events /\ m.seen = cli[c].seen /\ m.want = r
        /\ m.sent = n /\ m.app = "writing"
    BY <2>1, <2>2, <1>2, <1>4, Zenon DEF Cli
  <2> QED
    BY <2>1, <2>2, <2>3, <1>1, <1>3, Zenon
<1>6. IdsOK(srv[c], m, up[c])
  <2>1. Past(cli[c]) <= Past(m)
    BY <1>2, <1>5 DEF Past
  <2>2. m.want.id = m.sent /\ 1 <= m.sent /\ Valid(m.want)
    BY <1>2, <1>4, <1>5
  <2> QED
    BY <2>1, <2>2, AtClient, IdsKept DEF Good
<1>7. AnswerOK(server, srv[c], m, up[c], sock[c])
  BY <1>5 DEF AnswerOK
<1>8. Good(server, head, srv[c], m, up[c], sock[c])
  BY <1>2, <1>5, <1>6, <1>7, AtClient, ClientKeeps
<1> QED
  BY <1>5, <1>8, ClientSide DEF Request

LEMMA WriteRequestStep ==
  ASSUME IInv, NEW c \in Clients, WriteRequest(c)
  PROVE  IInv' /\ Kept
<1>1. cli[c] \in Cli /\ cli[c].app = "writing" /\ cli[c].sent \in Nat /\ cli[c].want \in Req
  BY AtClient, IpcAssumption DEF WriteRequest, Cli
<1>2. /\ cli[c].want.id = cli[c].sent /\ Valid(cli[c].want) /\ 1 <= cli[c].sent
      /\ Past(cli[c]) = cli[c].sent - 1
  BY <1>1, AtClient DEF Good, IdsOK, Past
<1>3. CASE srv[c].link = "closed"
  <2>1. PICK m \in Cli :
          /\ Set(c, m) /\ m.events = cli[c].events /\ m.seen = cli[c].seen
          /\ m.sent = cli[c].sent /\ m.app = "idle"
    <3>1. PICK m : m = [cli[c] EXCEPT !.app = "idle", !.pending = @ \ {cli[c].want.id}]
      OBVIOUS
    <3>2. /\ m \in Cli /\ m.events = cli[c].events /\ m.seen = cli[c].seen
          /\ m.sent = cli[c].sent /\ m.app = "idle"
      BY <1>1, <3>1, Zenon DEF Cli
    <3> QED
      BY <1>3, <3>1, <3>2, Zenon DEF WriteRequest
  <2>2. IdsOK(srv[c], m, up[c])
    <3>1. Past(cli[c]) <= Past(m)
      BY <1>1, <1>2, <2>1 DEF Past
    <3> QED
      BY <2>1, <3>1, AtClient, IdsKept DEF Good
  <2>3. AnswerOK(server, srv[c], m, up[c], sock[c])
    BY <2>1 DEF AnswerOK
  <2>4. Good(server, head, srv[c], m, up[c], sock[c])
    BY <1>1, <2>1, <2>2, <2>3, AtClient, ClientKeeps
  <2> QED
    BY <1>3, <2>1, <2>4, ClientSide DEF WriteRequest
<1>4. CASE srv[c].link # "closed"
  <2>1. PICK m \in Cli :
          /\ Set(c, m) /\ m.events = cli[c].events /\ m.seen = cli[c].seen
          /\ m.sent = cli[c].sent /\ m.app = "waiting" /\ m.want = cli[c].want
    <3>1. PICK m : m = [cli[c] EXCEPT !.app = "waiting"]
      BY Zenon
    <3>2. /\ m \in Cli /\ m.events = cli[c].events /\ m.seen = cli[c].seen
          /\ m.sent = cli[c].sent /\ m.app = "waiting" /\ m.want = cli[c].want
      BY <1>1, <3>1, Zenon DEF Cli
    <3> QED
      BY <1>4, <3>1, <3>2, Zenon DEF WriteRequest
  <2>2. PICK v \in Seq(Req) : v = Append(up[c], cli[c].want) /\ up' = [up EXCEPT ![c] = v]
    <3>1. Append(up[c], cli[c].want) \in Seq(Req)
      BY <1>1, AtClient
    <3>2. up' = [up EXCEPT ![c] = Append(up[c], cli[c].want)]
      BY <1>4 DEF WriteRequest
    <3> QED
      BY <3>1, <3>2, Zenon
  <2>3. IdsOK(srv[c], m, v)
    <3>1. cli[c].want.id = Past(cli[c]) + 1 /\ cli[c].want.id <= Past(m)
      BY <1>1, <1>2, <2>1 DEF Past
    <3> QED
      BY <1>1, <1>2, <2>1, <2>2, <3>1, AtClient, AskedKept DEF Good
  <2>4. AnswerOK(server, srv[c], m, v, sock[c])
    <3>1. \E i \in DOMAIN v : v[i].id = cli[c].want.id
      <4>1. Len(up[c]) + 1 \in DOMAIN v /\ v[Len(up[c]) + 1] = cli[c].want
        BY <2>2, AtClient
      <4> QED
        BY <4>1
    <3> QED
      BY <3>1, <2>1 DEF AnswerOK
  <2>5. Good(server, head, srv[c], m, v, sock[c])
    BY <1>1, <2>1, <2>2, <2>3, <2>4, AtClient, ClientKeeps, Zenon
  <2>6. UNCHANGED <<server, head, srv, sock>>
    BY DEF WriteRequest
  <2> QED
    BY <2>1, <2>2, <2>5, <2>6, ClientAndUp, Zenon
<1> QED
  BY <1>3, <1>4

LEMMA SendRequestStep ==
  ASSUME IInv, NEW c \in Clients, SendRequest(c)
  PROVE  IInv' /\ Kept
<1>1. cli[c] \in Cli /\ cli[c].app = "idle" /\ cli[c].sent < MaxRequests /\ cli[c].sent \in Nat
      /\ cli[c].sent + 1 \in 0..MaxRequests /\ Past(cli[c]) = cli[c].sent
  <2>1. cli[c] \in Cli /\ cli[c].app = "idle" /\ cli[c].sent < MaxRequests
    BY AtClient DEF SendRequest
  <2>2. cli[c].sent \in 0..MaxRequests
    BY <2>1 DEF Cli
  <2>3. cli[c].sent \in Nat /\ cli[c].sent + 1 \in 0..MaxRequests
    BY <2>1, <2>2, IpcAssumption
  <2> QED
    BY <2>1, <2>3 DEF Past
<1>2. PICK m \in Cli :
        /\ Set(c, m) /\ m.events = cli[c].events /\ m.seen = cli[c].seen
        /\ m.sent = cli[c].sent + 1 /\ m.app = "idle"
  <2>1. PICK n \in 0..MaxRequests : n = cli[c].sent + 1
    BY <1>1
  <2>2. PICK m : m = [cli[c] EXCEPT !.sent = n]
    BY Zenon
  <2>3. /\ m \in Cli /\ m.events = cli[c].events /\ m.seen = cli[c].seen
        /\ m.sent = n /\ m.app = "idle"
    BY <2>1, <2>2, <1>1, Zenon DEF Cli
  <2> QED
    BY <2>1, <2>2, <2>3, Zenon DEF SendRequest
<1>3. PICK r : r = [id |-> cli[c].sent + 1, op |-> "call", arg |-> 0]
  BY Zenon
<1>4. r \in Req /\ r.id = cli[c].sent + 1 /\ Valid(r)
  BY <1>1, <1>3 DEF Req, Operations, Valid
<1>5. PICK v \in Seq(Req) : v = Append(up[c], r) /\ up' = [up EXCEPT ![c] = v]
  <2>1. Append(up[c], r) \in Seq(Req)
    BY <1>4, AtClient
  <2>2. up' = [up EXCEPT ![c] = Append(up[c], r)]
    BY <1>3 DEF SendRequest
  <2> QED
    BY <2>1, <2>2, Zenon
<1>6. IdsOK(srv[c], m, v)
  <2>1. r.id = Past(cli[c]) + 1 /\ r.id <= Past(m)
    BY <1>1, <1>2, <1>4 DEF Past
  <2> QED
    BY <1>1, <1>2, <1>4, <1>5, <2>1, AtClient, AskedKept DEF Good
<1>7. AnswerOK(server, srv[c], m, v, sock[c])
  BY <1>2 DEF AnswerOK
<1>8. Good(server, head, srv[c], m, v, sock[c])
  BY <1>1, <1>2, <1>5, <1>6, <1>7, AtClient, ClientKeeps, Zenon
<1>9. UNCHANGED <<server, head, srv, sock>>
  BY DEF SendRequest
<1> QED
  BY <1>2, <1>5, <1>8, <1>9, ClientAndUp, Zenon

\* The application and the reader, where no event moves.
LEMMA QuietSteps ==
  ASSUME IInv, NEW c \in Clients, RequestReturns(c) \/ NextResponse(c) \/ ReaderEnds(c)
  PROVE  IInv' /\ Kept
<1>1. PICK m \in Cli :
        /\ Set(c, m) /\ m.events = cli[c].events /\ m.seen = cli[c].seen
        /\ m.sent = cli[c].sent /\ m.want = cli[c].want
        /\ m.app = cli[c].app \/ (m.app = "idle" /\ cli[c].app = "waiting")
        /\ m.app # "waiting" \/ m.pending = {}
  <2>1. CASE RequestReturns(c)
    <3>1. PICK m : m = [cli[c] EXCEPT !.app = "idle"]
      BY Zenon
    <3>2. /\ m \in Cli /\ m.events = cli[c].events /\ m.seen = cli[c].seen
          /\ m.sent = cli[c].sent /\ m.want = cli[c].want /\ m.app = "idle"
      BY <3>1, AtClient, Zenon DEF Cli
    <3> QED
      BY <2>1, <3>1, <3>2, Zenon DEF RequestReturns
  <2>2. CASE NextResponse(c)
    <3>1. Tail(cli[c].responses) \in Seq(Nat)
      BY <2>2, AtClient DEF NextResponse, Cli
    <3>2. PICK m : m = [cli[c] EXCEPT !.responses = Tail(@)]
      BY Zenon
    <3>3. /\ m \in Cli /\ m.events = cli[c].events /\ m.seen = cli[c].seen
          /\ m.sent = cli[c].sent /\ m.want = cli[c].want /\ m.app = cli[c].app
      BY <3>1, <3>2, AtClient, Zenon DEF Cli
    <3> QED
      BY <2>2, <3>2, <3>3, Zenon DEF NextResponse
  <2>3. CASE ReaderEnds(c)
    <3>1. PICK m : m = [cli[c] EXCEPT !.reader = "ended", !.pending = {}]
      OBVIOUS
    <3>2. /\ m \in Cli /\ m.events = cli[c].events /\ m.seen = cli[c].seen /\ m.pending = {}
          /\ m.sent = cli[c].sent /\ m.want = cli[c].want /\ m.app = cli[c].app
      BY <3>1, AtClient, Zenon DEF Cli
    <3> QED
      BY <2>3, <3>1, <3>2, Zenon DEF ReaderEnds
  <2> QED
    BY <2>1, <2>2, <2>3
<1>2. IdsOK(srv[c], m, up[c])
  <2>1. Past(cli[c]) <= Past(m)
    <3>1. cli[c].sent \in Nat
      BY AtClient, IpcAssumption DEF Cli
    <3> QED
      BY <1>1, <3>1 DEF Past
  <2>2. IdsOK(srv[c], cli[c], up[c])
    BY AtClient, Zenon DEF Good
  <2>3. m.app = "writing" => m.want.id = m.sent /\ 1 <= m.sent /\ Valid(m.want)
    BY <1>1, <2>2, Zenon DEF IdsOK
  <2> QED
    BY <2>1, <2>2, <2>3, AtClient, IdsKept
<1>3. AnswerOK(server, srv[c], m, up[c], sock[c])
  BY <1>1 DEF AnswerOK
<1>4. UNCHANGED <<server, head, srv, up, sock>>
  BY DEF RequestReturns, NextResponse, ReaderEnds
<1>5. cli[c].app # "gone" /\ m.app # "gone"
  BY <1>1, AtClient DEF RequestReturns, NextResponse, ReaderEnds, Good, WriterOK
<1>6. Good(server, head, srv[c], m, up[c], sock[c])
  BY <1>1, <1>2, <1>3, <1>5, AtClient, ClientKeeps
<1> QED
  BY <1>1, <1>4, <1>6, ClientSide

\* What the client counts.
LEMMA AccountIn ==
  ASSUME NEW seen \in [1..MaxRequests -> Nat], NEW e \in Frame
  PROVE  /\ Account(seen, e) \in [1..MaxRequests -> Nat]
         /\ \A i \in 1..MaxRequests :
              Account(seen, e)[i] = IF i = e.id THEN seen[i] + e.n ELSE seen[i]
<1>1. e.n \in Nat
  BY DEF Frame
<1>2. \A i \in 1..MaxRequests : seen[i] \in Nat /\ seen[i] + e.n \in Nat
  BY <1>1
<1> QED
  BY <1>1, <1>2, Zenon DEF Account

LEMMA NextEventStep ==
  ASSUME IInv, NEW c \in Clients, NextEvent(c)
  PROVE  IInv'
<1>1. /\ cli[c] \in Cli /\ cli[c].app = "idle" /\ cli[c].events # <<>>
      /\ cli[c].events \in Seq(Frame) /\ Head(cli[c].events) \in Frame
      /\ Tail(cli[c].events) \in Seq(Frame) /\ cli[c].seen \in [1..MaxRequests -> Nat]
  BY AtClient DEF NextEvent, Cli
<1>2. Account(cli[c].seen, Head(cli[c].events)) \in [1..MaxRequests -> Nat]
  BY <1>1, AccountIn, Zenon
<1>3. PICK m \in Cli :
        /\ Set(c, m) /\ m.events = Tail(cli[c].events)
        /\ m.seen = Account(cli[c].seen, Head(cli[c].events))
        /\ m.app = cli[c].app /\ m.sent = cli[c].sent
  <2>1. PICK m : m = [cli[c] EXCEPT !.events = Tail(@),
                                    !.seen = Account(@, Head(cli[c].events))]
    OBVIOUS
  <2>2. /\ m \in Cli /\ m.events = Tail(cli[c].events)
        /\ m.seen = Account(cli[c].seen, Head(cli[c].events))
        /\ m.app = cli[c].app /\ m.sent = cli[c].sent
    BY <1>1, <1>2, <2>1, Zenon DEF Cli
  <2> QED
    BY <2>1, <2>2, Zenon DEF NextEvent
<1>4. Good(server, head, srv[c], m, up[c], sock[c])
  BY <1>1, <1>3, AtClient, TakeKeeps
<1> QED
  BY <1>3, <1>4, ClientSide DEF NextEvent

LEMMA ReadFrameStep ==
  ASSUME IInv, NEW c \in Clients, ReadFrame(c)
  PROVE  IInv' /\ Kept
<1>1. /\ cli[c] \in Cli /\ cli[c].reader = "run" /\ sock[c] # <<>> /\ Head(sock[c]) \in Frame
      /\ Tail(sock[c]) \in Seq(Frame) /\ cli[c].events \in Seq(Frame)
  BY AtClient DEF ReadFrame, Cli
<1>2. PICK m \in Cli :
        /\ Set(c, m) /\ m.seen = cli[c].seen /\ m.app = cli[c].app
        /\ m.sent = cli[c].sent /\ m.want = cli[c].want
        /\ \/ /\ Head(sock[c]).kind = "response" /\ m.events = cli[c].events
              /\ m.pending = cli[c].pending \ {Head(sock[c]).id}
           \/ /\ Head(sock[c]).kind # "response"
              /\ m.events = Append(cli[c].events, Head(sock[c])) /\ m.pending = cli[c].pending
  <2>1. CASE Set(c, [cli[c] EXCEPT !.pending = @ \ {Head(sock[c]).id}]) /\ Head(sock[c]).kind = "response"
    <3>1. PICK m : m = [cli[c] EXCEPT !.pending = @ \ {Head(sock[c]).id}]
      BY Zenon
    <3>2. /\ m \in Cli /\ m.seen = cli[c].seen /\ m.app = cli[c].app /\ m.sent = cli[c].sent
          /\ m.want = cli[c].want /\ m.events = cli[c].events
          /\ m.pending = cli[c].pending \ {Head(sock[c]).id}
      BY <1>1, <3>1, Zenon DEF Cli
    <3> QED
      BY <2>1, <3>1, <3>2, Zenon
  <2>2. CASE /\ Set(c, [cli[c] EXCEPT !.responses = Append(@, Head(sock[c]).id)])
             /\ Head(sock[c]).kind = "response" /\ Head(sock[c]).id \notin cli[c].pending
    <3>1. Append(cli[c].responses, Head(sock[c]).id) \in Seq(Nat)
      BY <1>1 DEF Cli, Frame
    <3> QED
      <4>1. PICK m : m = [cli[c] EXCEPT !.responses = Append(@, Head(sock[c]).id)]
        BY Zenon
      <4>2. /\ m \in Cli /\ m.seen = cli[c].seen /\ m.app = cli[c].app /\ m.sent = cli[c].sent
            /\ m.want = cli[c].want /\ m.events = cli[c].events /\ m.pending = cli[c].pending
        BY <1>1, <3>1, <4>1, Zenon DEF Cli
      <4>3. m.pending = cli[c].pending \ {Head(sock[c]).id}
        BY <2>2, <4>2
      <4> QED
        BY <2>2, <4>1, <4>2, <4>3, Zenon
  <2>3. CASE /\ Set(c, [cli[c] EXCEPT !.events = Append(@, Head(sock[c]))])
             /\ Head(sock[c]).kind # "response"
    <3>1. Append(cli[c].events, Head(sock[c])) \in Seq(Frame)
      BY <1>1
    <3> QED
      <4>1. PICK m : m = [cli[c] EXCEPT !.events = Append(@, Head(sock[c]))]
        BY Zenon
      <4>2. /\ m \in Cli /\ m.seen = cli[c].seen /\ m.app = cli[c].app /\ m.sent = cli[c].sent
            /\ m.want = cli[c].want /\ m.pending = cli[c].pending
            /\ m.events = Append(cli[c].events, Head(sock[c]))
        BY <1>1, <3>1, <4>1, Zenon DEF Cli
      <4> QED
        BY <2>3, <4>1, <4>2, Zenon
  <2> QED
    BY <2>1, <2>2, <2>3 DEF ReadFrame
<1>3. cli[c].app # "gone"
  BY <1>1, AtClient DEF Good, WriterOK
<1>4. Good(server, head, srv[c], m, up[c], Tail(sock[c]))
  BY <1>1, <1>2, <1>3, AtClient, FrameKeeps, Zenon
<1>5. sock' = [sock EXCEPT ![c] = Tail(sock[c])] /\ UNCHANGED <<server, head, srv, up>>
  BY DEF ReadFrame
<1> QED
  BY <1>1, <1>2, <1>4, <1>5, ClientAndSock, Zenon

LEMMA QuitStep ==
  ASSUME IInv, NEW c \in Clients, Quit(c)
  PROVE  IInv' /\ Kept
<1>1. PICK m \in Cli :
        /\ Set(c, m) /\ m.app = "gone" /\ m.reader = "ended" /\ m.events = <<>> /\ m.seen = cli[c].seen
        /\ m.sent = cli[c].sent
  <2>1. PICK m : m = [cli[c] EXCEPT !.app = "gone", !.reader = "ended", !.pending = {},
                                    !.events = <<>>, !.responses = <<>>]
    OBVIOUS
  <2>2. <<>> \in Seq(Frame) /\ <<>> \in Seq(Nat)
    OBVIOUS
  <2>3. /\ m \in Cli /\ m.app = "gone" /\ m.reader = "ended" /\ m.events = <<>>
        /\ m.seen = cli[c].seen /\ m.sent = cli[c].sent
    BY <2>1, <2>2, AtClient, Zenon DEF Cli
  <2> QED
    BY <2>1, <2>3, Zenon DEF Quit
<1>2. Good(server, head, srv[c], m, up[c], <<>>)
  BY <1>1, AtClient, QuitKeeps
<1>3. sock' = [sock EXCEPT ![c] = <<>>] /\ UNCHANGED <<server, head, srv, up>>
  BY DEF Quit
<1>4. <<>> \in Seq(Frame)
  OBVIOUS
<1> QED
  BY <1>1, <1>2, <1>3, <1>4, ClientAndSock, Zenon

LEMMA WorldSteps ==
  ASSUME IInv, Stop \/ AcceptLoopEnds \/ \E t \in Topics : Publish(t)
  PROVE  IInv' /\ Kept
<1>1. CASE Stop \/ \E t \in Topics : Publish(t)
  <2>1. /\ UNCHANGED <<srv, cli, up, sock>> /\ server' \in {"up", "stopping", "down"}
        /\ server' = "up" => server = "up"
        /\ head' \in [Topics -> Nat] /\ \A t \in Topics : head[t] <= head'[t]
    BY <1>1 DEF Stop, Publish, IInv, Types
  <2>2. \A c \in Clients : Good(server', head', srv[c], cli[c], up[c], sock[c])
    BY <2>1, AtClient, WorldKeeps
  <2> QED
    BY <2>1, <2>2, StaysSame DEF IInv, Types, Kept
<1>2. CASE AcceptLoopEnds
  <2>1. UNCHANGED <<head, cli, up, sock>> /\ server' = "down"
    BY <1>2 DEF AcceptLoopEnds
  <2>2. ASSUME NEW c \in Clients
        PROVE  /\ srv'[c] \in Srv /\ srv'[c].fwd = srv[c].fwd
               /\ Good(server', head', srv'[c], cli[c], up[c], sock[c])
    <3>1. Good(server', head', srv[c], cli[c], up[c], sock[c])
      BY <2>1, AtClient, WorldKeeps
    <3>2. CASE srv[c].link = "backlog"
      <4>1. PICK t \in Srv :
              /\ t = srv'[c] /\ t.fwd = srv[c].fwd /\ t.mail = srv[c].mail
              /\ t.writing = srv[c].writing /\ t.handlers = srv[c].handlers /\ t.link = "closed"
        <5>1. PICK t : t = [srv[c] EXCEPT !.link = "closed"]
          BY Zenon
        <5>2. t = srv'[c]
          BY <1>2, <3>2, <5>1 DEF AcceptLoopEnds
        <5>3. /\ t \in Srv /\ t.fwd = srv[c].fwd /\ t.mail = srv[c].mail
              /\ t.writing = srv[c].writing /\ t.handlers = srv[c].handlers /\ t.link = "closed"
          BY <5>1, AtClient, Zenon DEF Srv, Links
        <5> QED
          BY <5>2, <5>3, Zenon
      <4>2. Good(server', head', t, cli[c], up[c], sock[c])
        BY <2>1, <3>1, <4>1, AtClient, LessKeeps
      <4> QED
        BY <4>1, <4>2
    <3>3. CASE srv[c].link # "backlog"
      BY <1>2, <3>1, <3>3, AtClient DEF AcceptLoopEnds
    <3> QED
      BY <3>2, <3>3
  <2>3. srv' \in [Clients -> Srv]
    BY <1>2, <2>2 DEF AcceptLoopEnds
  <2>4. \A t \in Topics : head[t] <= head'[t]
    BY <2>1 DEF IInv, Types
  <2> QED
    BY <2>1, <2>2, <2>3, <2>4, StaysSame DEF IInv, Types, Kept
<1> QED
  BY <1>1, <1>2

-----------------------------------------------------------------------------
(* The theorems.                                                           *)

LEMMA InitIInv == Init => IInv
<1> SUFFICES ASSUME Init PROVE IInv
  OBVIOUS
<1>1. NoRequest \in Req
  BY DEF NoRequest, Req, Operations
<1>2. ASSUME NEW c \in Clients
      PROVE  /\ srv[c] \in Srv /\ cli[c] \in Cli
             /\ srv[c].handlers = {} /\ srv[c].fwd = {} /\ srv[c].mail = <<>> /\ srv[c].writing
             /\ cli[c].app = "off" /\ cli[c].events = <<>> /\ up[c] = <<>> /\ sock[c] = <<>>
             /\ cli[c].seen = [i \in 1..MaxRequests |-> 0]
  BY <1>1, IpcAssumption DEF Init, Srv, Cli, Links
<1>3. Types
  <2>1. srv \in [Clients -> Srv] /\ cli \in [Clients -> Cli]
    BY <1>2, Zenon DEF Init
  <2>2. up \in [Clients -> Seq(Req)] /\ sock \in [Clients -> Seq(Frame)]
    BY DEF Init
  <2>3. server \in {"up", "stopping", "down"} /\ head \in [Topics -> Nat]
    BY DEF Init
  <2> QED
    BY <2>1, <2>2, <2>3, Zenon DEF Types
<1>4. ASSUME NEW c \in Clients
      PROVE  Good(server, head, srv[c], cli[c], up[c], sock[c])
  <2>1. IdsOK(srv[c], cli[c], up[c])
    BY <1>2 DEF IdsOK
  <2>2. /\ HandlersOK(srv[c], head) /\ ForwardersOK(srv[c], head) /\ WriterOK(srv[c], cli[c])
        /\ StreamsOK(srv[c], cli[c], sock[c])
    BY <1>2 DEF HandlersOK, ForwardersOK, WriterOK, StreamsOK
  <2>3. FramesOK(head, srv[c], cli[c], sock[c])
    <3>1. AllSound(<<>>, srv[c], head)
      BY SoundNone, Zenon
    <3>2. \A i \in 1..MaxRequests : cli[c].seen[i] = 0
      <4>1. cli[c].seen = [i \in 1..MaxRequests |-> 0]
        BY <1>2, Zenon
      <4> QED
        BY <4>1, ZenonT(30)
    <3>3. \A i \in DOMAIN cli[c].events : FALSE
      <4>1. DOMAIN <<>> = {}
        OBVIOUS
      <4> QED
        BY <1>2, <4>1, Zenon
    <3> QED
      BY <1>2, <3>1, <3>2, <3>3, Zenon DEF FramesOK
  <2>4. AnswerOK(server, srv[c], cli[c], up[c], sock[c])
    BY <1>2 DEF AnswerOK
  <2> QED
    BY <2>1, <2>2, <2>3, <2>4, Zenon DEF Good
<1> QED
  BY <1>3, <1>4 DEF IInv

LEMMA NextKeeps ==
  ASSUME IInv, [Next]_vars
  PROVE  IInv' /\ (Kept \/ \E c \in Clients : NextEvent(c))
<1>1. CASE UNCHANGED vars
  <2>1. \A t \in Topics : head[t] <= head'[t]
    BY <1>1 DEF vars, IInv, Types
  <2> QED
    BY <1>1, <2>1, StaysSame DEF vars, IInv, Types, Kept
<1>2. CASE Stop \/ AcceptLoopEnds \/ \E t \in Topics : Publish(t)
  BY <1>2, WorldSteps
<1>3. ASSUME NEW c \in Clients, ServerStep(c)
      PROVE  IInv' /\ Kept
  BY <1>3, LinkSteps, ReadRequestStep, AbortForwardersStep, CloseStep, HandlerMoves DEF ServerStep
<1>4. ASSUME NEW c \in Clients, HandlerStep(c)
      PROVE  IInv' /\ Kept
  BY <1>4, HandlerMoves, InsertSubStep, RemoveSubStep, RespondStep DEF HandlerStep
<1>5. ASSUME NEW c \in Clients, ForwarderStep(c) \/ AbortedStep(c)
      PROVE  IInv' /\ Kept
  BY <1>5, ForwarderSteps DEF ForwarderStep, AbortedStep
<1>6. ASSUME NEW c \in Clients,
             \/ Connect(c) \/ Request(c) \/ RequestStep(c) \/ SendRequest(c)
             \/ ReaderStep(c) \/ Quit(c) \/ WriterStep(c) \/ NextResponse(c)
      PROVE  IInv' /\ Kept
  BY <1>6, ConnectStep, RequestStart, WriteRequestStep, SendRequestStep, QuietSteps,
     ReadFrameStep, QuitStep, WriterSteps DEF RequestStep, ReaderStep
<1>7. ASSUME NEW c \in Clients, NextEvent(c)
      PROVE  IInv'
  BY <1>7, NextEventStep
<1> QED
  BY <1>1, <1>2, <1>3, <1>4, <1>5, <1>6, <1>7 DEF Next, DrainStep

\* What holds at every connection, for any number of clients, topics, requests and
\* events, and queues of any size.
THEOREM InductiveInvariant == Spec => []IInv
<1>1. IInv /\ [Next]_vars => IInv'
  BY NextKeeps
<1> QED
  BY <1>1, InitIInv, PTL DEF Spec

\* The request a client waits for is unread, in a handler, or answered, while daemon
\* and connection live.
THEOREM AnswersKept == Spec => []NoLostAnswer
<1>1. IInv => NoLostAnswer
  BY Zenon DEF IInv, Good, AnswerOK, NoLostAnswer, Answered
<1> QED
  BY <1>1, InductiveInvariant, PTL

LEMMA ConcatIn == \A p, q \in Seq(Frame) : p \o q \in Seq(Frame)
OBVIOUS

\* A subscriber can tell exactly which events it missed, whatever was overwritten while
\* mailbox, socket or client were full.
THEOREM EventsExact == Spec => []EventsAccounted
<1>1. ASSUME IInv
      PROVE  EventsAccounted
  <2>1. SUFFICES ASSUME NEW c \in Clients, NEW f \in srv[c].fwd, cli[c].app # "gone"
                 PROVE  \E b \in 0..f.cur :
                          /\ f.st # "ended" => b = f.cur
                          /\ Leads(cli[c].events \o sock[c] \o srv[c].mail \o <<f.hold>>, f.id,
                                   f.from + cli[c].seen[f.id], b)
    BY Zenon DEF EventsAccounted
  <2>2. PICK x \in Nat, y \in Nat, z \in Nat :
          /\ Leads(cli[c].events, f.id, f.from + cli[c].seen[f.id], x)
          /\ Leads(sock[c], f.id, x, y) /\ Leads(srv[c].mail, f.id, y, z) /\ Ends(f, z)
    BY <1>1, <2>1, AtClient, Zenon DEF Good, StreamsOK, StreamOK
  <2>3. /\ cli[c].events \in Seq(Frame) /\ sock[c] \in Seq(Frame) /\ srv[c].mail \in Seq(Frame)
        /\ f.hold \in Frame /\ f.hold.n \in Nat /\ f.id \in Nat /\ f.cur \in Nat
        /\ f.from + cli[c].seen[f.id] \in Nat
    <3>1. srv[c] \in Srv /\ cli[c] \in Cli /\ f.id \in 1..Past(cli[c])
      BY <1>1, AtClient, Zenon DEF Good, IdsOK
    <3>2. f.from + cli[c].seen[f.id] \in Nat /\ cli[c].events \in Seq(Frame)
      BY <3>1, StartIn, ClientIn, Zenon
    <3>3. f.hold \in Frame /\ f.id \in Nat /\ f.cur \in Nat /\ f.hold.n \in Nat
      BY <3>1, ForwarderIn, FrameIn, Zenon
    <3>4. sock[c] \in Seq(Frame) /\ srv[c].mail \in Seq(Frame)
      BY <1>1, AtClient DEF Srv
    <3> QED
      BY <3>2, <3>3, <3>4, Zenon
  <2>4. PICK b \in 0..f.cur : (f.st # "ended" => b = f.cur) /\ Leads(<<f.hold>>, f.id, z, b)
    <3>1. CASE f.hold = NoFrame
      <4>1. z \in 0..f.cur /\ (f.st # "ended" => z = f.cur)
        BY <2>2, <2>3, <3>1 DEF Ends
      <4>2. <<f.hold>> \in Seq(Frame) /\ \A i \in DOMAIN <<f.hold>> : ~Of(<<f.hold>>[i], f.id)
        BY <2>3, <3>1 DEF Of, NoFrame
      <4>3. Leads(<<f.hold>>, f.id, z, z)
        BY <2>3, <4>2, LeadsNone, Zenon
      <4> QED
        BY <4>1, <4>3
    <3>2. CASE f.hold # NoFrame
      <4>1. Of(f.hold, f.id) /\ 1 <= f.hold.n /\ f.hold.at = z /\ z + f.hold.n = f.cur
        <5>1. f.hold.at = z /\ z + f.hold.n = f.cur
          BY <2>2, <3>2, Zenon DEF Ends
        <5>2. Of(f.hold, f.id) /\ Sound(f.hold, srv[c], head)
          BY <1>1, <3>2, AtClient, Zenon DEF Good, ForwardersOK, FramesOK
        <5>3. 1 <= f.hold.n
          BY <2>3, <5>2, SoundTells, Zenon DEF Of
        <5> QED
          BY <5>1, <5>2, <5>3, Zenon
      <4>2. Leads(<<>>, f.id, z, z) /\ <<>> \in Seq(Frame)
        <5>1. <<>> \in Seq(Frame) /\ \A i \in DOMAIN <<>> : FALSE
          OBVIOUS
        <5> QED
          BY <2>3, <5>1, LeadsNone, Zenon
      <4>3. Leads(Append(<<>>, f.hold), f.id, z, f.cur)
        BY <2>3, <4>1, <4>2, LeadsOwn, Zenon
      <4>4. Append(<<>>, f.hold) = <<f.hold>>
        OBVIOUS
      <4> QED
        BY <2>3, <4>3, <4>4
    <3> QED
      BY <3>1, <3>2
  <2>5. b \in Nat /\ <<f.hold>> \in Seq(Frame)
    BY <2>3
  <2>6. PICK a \in Nat : a = f.from + cli[c].seen[f.id]
    BY <2>3
  <2>7. PICK p \in Seq(Frame) : p = cli[c].events \o sock[c]
    BY <2>3, ConcatIn, Zenon
  <2>8. PICK q \in Seq(Frame) : q = p \o srv[c].mail
    BY <2>3, ConcatIn, Zenon
  <2>9. Leads(p, f.id, a, y)
    BY <2>2, <2>3, <2>6, <2>7, LeadsConcat, Zenon
  <2>10. Leads(q, f.id, a, z)
    BY <2>2, <2>3, <2>8, <2>9, LeadsConcat, Zenon
  <2>11. Leads(q \o <<f.hold>>, f.id, a, b)
    BY <2>3, <2>4, <2>5, <2>10, LeadsConcat, Zenon
  <2> QED
    BY <2>4, <2>6, <2>7, <2>8, <2>11, Zenon
<1> QED
  BY <1>1, InductiveInvariant, PTL

-----------------------------------------------------------------------------
(* The refinement.                                                         *)

\* The subscription of an id.
LEMMA SubscriptionIs ==
  ASSUME NEW F, \A f, g \in F : f.id = g.id => f = g, NEW f \in F
  PROVE  (CHOOSE g \in F : g.id = f.id) = f
OBVIOUS

LEMMA PublishedIs ==
  ASSUME IInv, NEW c \in Clients, NEW i
  PROVE  /\ \A f \in srv[c].fwd : f.id = i => Published(c, i) = head[f.topic] - f.from + 1
         /\ (\A f \in srv[c].fwd : f.id # i) => Published(c, i) = 0
         /\ Published(c, i) \in Nat
<1>1. \A f, g \in srv[c].fwd : f.id = g.id => f = g
  BY AtClient, Zenon DEF Good, IdsOK
<1>2. ASSUME NEW f \in srv[c].fwd, f.id = i
      PROVE  Published(c, i) = head[f.topic] - f.from + 1 /\ Published(c, i) \in Nat
  <2>1. (CHOOSE g \in srv[c].fwd : g.id = i) = f
    BY <1>1, <1>2, SubscriptionIs
  <2>2. Published(c, i) = head[f.topic] - f.from + 1
    BY <1>2, <2>1, Zenon DEF Published
  <2>3. head[f.topic] \in Nat /\ f.from \in Nat /\ f.cur \in Nat
    BY AtClient DEF Srv, Forwarders
  <2>4. f.from <= f.cur /\ f.cur <= head[f.topic] + 1
    BY AtClient, Zenon DEF Good, ForwardersOK
  <2> QED
    BY <2>2, <2>3, <2>4
<1>3. ASSUME \A f \in srv[c].fwd : f.id # i
      PROVE  Published(c, i) = 0
  BY <1>3 DEF Published
<1> QED
  BY <1>2, <1>3

LEMMA PublishedNext ==
  ASSUME IInv', NEW c \in Clients, NEW i
  PROVE  /\ \A f \in srv'[c].fwd : f.id = i => Published(c, i)' = head'[f.topic] - f.from + 1
         /\ Published(c, i)' \in Nat
<1>1. \A f, g \in srv'[c].fwd : f.id = g.id => f = g
  BY Zenon DEF IInv, Good, IdsOK
<1>2. ASSUME NEW f \in srv'[c].fwd, f.id = i
      PROVE  Published(c, i)' = head'[f.topic] - f.from + 1 /\ Published(c, i)' \in Nat
  <2>1. (CHOOSE g \in srv'[c].fwd : g.id = i) = f
    BY <1>1, <1>2, SubscriptionIs
  <2>2. Published(c, i)' = head'[f.topic] - f.from + 1
    BY <1>2, <2>1, Zenon DEF Published
  <2>3. head'[f.topic] \in Nat /\ f.from \in Nat /\ f.cur \in Nat
    BY DEF IInv, Types, Srv, Forwarders
  <2>4. f.from <= f.cur /\ f.cur <= head'[f.topic] + 1
    BY Zenon DEF IInv, Good, ForwardersOK
  <2> QED
    BY <2>2, <2>3, <2>4
<1>3. ASSUME \A f \in srv'[c].fwd : f.id # i
      PROVE  Published(c, i)' = 0
  BY <1>3 DEF Published
<1> QED
  BY <1>2, <1>3

\* Every step is one of the abstract stream's, or none.
LEMMA StreamStep ==
  ASSUME IInv, [Next]_vars, NEW c \in Clients, NEW i \in 1..MaxRequests
  PROVE  [Stream(c, i)!Next]_<<Published(c, i), cli[c].seen[i]>>
<1>1. IInv' /\ (Kept \/ \E d \in Clients : NextEvent(d))
  BY NextKeeps
<1>2. Published(c, i) \in Nat /\ Published(c, i)' \in Nat
  BY <1>1, PublishedIs, PublishedNext
<1>3. CASE Kept
  <2>1. cli'[c].seen[i] = cli[c].seen[i]
    BY <1>3 DEF Kept
  <2>2. Published(c, i) <= Published(c, i)'
    <3>1. CASE \A f \in srv[c].fwd : f.id # i
      BY <1>2, <3>1, PublishedIs
    <3>2. CASE \E f \in srv[c].fwd : f.id = i
      <4>1. PICK f \in srv[c].fwd : f.id = i
        BY <3>2
      <4>2. PICK g \in srv'[c].fwd : g.id = f.id /\ g.topic = f.topic /\ g.from = f.from
        BY <1>3 DEF Kept, Stays
      <4>3. Published(c, i) = head[f.topic] - f.from + 1
        BY <4>1, PublishedIs
      <4>4. Published(c, i)' = head'[f.topic] - f.from + 1
        BY <4>1, <4>2, <1>1, PublishedNext
      <4>5. f.topic \in Topics /\ f.from \in Nat /\ head[f.topic] \in Nat /\ head'[f.topic] \in Nat
        BY <1>1, AtClient, Zenon DEF Srv, Forwarders, IInv, Types
      <4>6. head[f.topic] <= head'[f.topic]
        BY <1>3, <4>5 DEF Kept
      <4> QED
        BY <4>3, <4>4, <4>5, <4>6
    <3> QED
      BY <3>1, <3>2
  <2> QED
    BY <1>2, <2>1, <2>2 DEF Stream!Next, Stream!Publish
<1>4. ASSUME NEW d \in Clients, NextEvent(d)
      PROVE  [Stream(c, i)!Next]_<<Published(c, i), cli[c].seen[i]>>
  <2>1. srv' = srv /\ head' = head
    BY <1>4 DEF NextEvent
  <2>2. Published(c, i)' = Published(c, i)
    BY <2>1 DEF Published
  <2>3. cli \in [Clients -> Cli]
    BY DEF IInv, Types
  <2>4. CASE c # d
    <3>1. cli'[c] = cli[c]
      BY <1>4, <2>3, <2>4 DEF NextEvent, Set
    <3> QED
      BY <2>2, <3>1
  <2>5. CASE c = d
    <3>1. /\ cli[c] \in Cli /\ cli[c].app = "idle" /\ cli[c].events # <<>>
          /\ cli[c].events \in Seq(Frame) /\ cli[c].seen \in [1..MaxRequests -> Nat]
          /\ Head(cli[c].events) = cli[c].events[1] /\ 1 \in DOMAIN cli[c].events
      BY <1>4, <2>3, <2>5 DEF NextEvent, Cli
    <3>2. PICK e \in Frame : e = Head(cli[c].events) /\ e.kind \in {"event", "lagged"}
                             /\ Sound(e, srv[c], head)
      <4>1. PICK e \in Frame : e = cli[c].events[1]
        BY <3>1
      <4>2. e.kind # "response" /\ e.kind # "none" /\ Sound(e, srv[c], head)
        BY <3>1, <4>1, AtClient, Zenon DEF Good, FramesOK, AllSound
      <4>3. e.kind \in {"event", "lagged"}
        BY <4>2 DEF Frame
      <4> QED
        BY <3>1, <4>1, <4>2, <4>3, Zenon
    <3>3. cli'[c].seen = Account(cli[c].seen, e)
      BY <1>4, <2>3, <2>5, <3>1, <3>2 DEF NextEvent, Set, Cli
    <3>4. CASE i # e.id
      BY <2>2, <3>1, <3>3, <3>4 DEF Account
    <3>5. CASE i = e.id
      <4>1. PICK f \in srv[c].fwd :
              /\ f.id = i
              /\ e.kind = "event" => e.n = 1 /\ e.at <= head[f.topic]
              /\ e.kind = "lagged" => 1 <= e.n /\ e.at + e.n + HubCapacity <= head[f.topic] + 1
        BY <3>2, <3>5 DEF Sound
      <4>2. /\ f.topic \in Topics /\ head[f.topic] \in Nat /\ f.from \in Nat /\ e.n \in Nat
            /\ e.at \in Nat /\ cli[c].seen[i] \in Nat /\ i \in Nat /\ HubCapacity \in Nat
        <5>1. srv[c] \in Srv /\ head \in [Topics -> Nat]
          BY AtClient
        <5>2. f.topic \in Topics /\ f.from \in Nat /\ e.n \in Nat /\ e.at \in Nat
          BY <5>1, ForwarderIn, FrameIn, Zenon
        <5>3. cli[c].seen[i] \in Nat
          BY <3>1, Zenon
        <5>4. head[f.topic] \in Nat
          BY <5>1, <5>2
        <5>5. i \in Nat
          OBVIOUS
        <5> QED
          BY <5>2, <5>3, <5>4, <5>5, IpcAssumption, Zenon
      <4>3. PICK x \in Nat : Leads(cli[c].events, i, f.from + cli[c].seen[i], x)
        BY <3>1, <4>1, AtClient, Zenon DEF Good, StreamsOK, StreamOK
      <4>4. Of(e, i)
        BY <3>2, <3>5, Zenon DEF Of
      <4>5. e.at = f.from + cli[c].seen[i]
        <5>1. PICK a \in Nat : a = f.from + cli[c].seen[i]
          BY <4>2, SMTT(30)
        <5> QED
          BY <3>1, <3>2, <4>2, <4>3, <4>4, <5>1, LeadsTail, Zenon
      <4>6. cli'[c].seen[i] = cli[c].seen[i] + e.n
        BY <3>1, <3>3, <3>5, Zenon DEF Account
      <4>7. Published(c, i) = head[f.topic] - f.from + 1
        BY <4>1, PublishedIs
      <4>8. CASE e.kind = "event"
        BY <2>2, <4>1, <4>2, <4>5, <4>6, <4>7, <4>8 DEF Stream!Next, Stream!Deliver
      <4>9. CASE e.kind = "lagged"
        BY <2>2, <4>1, <4>2, <4>5, <4>6, <4>7, <4>9 DEF Stream!Next, Stream!Skip
      <4> QED
        BY <3>2, <4>8, <4>9
    <3> QED
      BY <3>4, <3>5
  <2> QED
    BY <2>4, <2>5
<1> QED
  BY <1>1, <1>3, <1>4

\* Each subscription of each client is a stream that loses only events older than the
\* last HubCapacity ones, and says how many.
THEOREM StreamsRefined == Spec => StreamsImplemented
<1>1. Init => \A c \in Clients : \A i \in 1..MaxRequests : Stream(c, i)!Init
  <2> SUFFICES ASSUME Init, NEW c \in Clients, NEW i \in 1..MaxRequests
               PROVE  Stream(c, i)!Init
    OBVIOUS
  <2>1. srv[c].fwd = {} /\ cli[c].seen[i] = 0
    BY Zenon DEF Init
  <2>2. Published(c, i) = 0
    BY <2>1 DEF Published
  <2> QED
    BY <2>1, <2>2 DEF Stream!Init
<1>2. IInv /\ [Next]_vars =>
        [\A c \in Clients : \A i \in 1..MaxRequests :
           [Stream(c, i)!Next]_<<Published(c, i), cli[c].seen[i]>>]_vars
  BY StreamStep
<1> QED
  BY <1>1, <1>2, InductiveInvariant, PTL DEF Spec, StreamsImplemented
================================================================================
