---------------------------- MODULE IpcConnection ----------------------------
(***************************************************************************)
(* What the writer, the client and the world do to the invariant of a      *)
(* connection, and the steps of Ipc that the server takes at one: its      *)
(* link, its writer, its handlers and its forwarders.                      *)
(***************************************************************************)
EXTENDS IpcFrames

\* WriteFrame, from the mailbox to the socket.
LEMMA WriteKeeps ==
  ASSUME NEW sv, NEW hd \in [Topics -> Nat], NEW s \in Srv, NEW l \in Cli, NEW u \in Seq(Req),
         NEW k \in Seq(Frame), Good(sv, hd, s, l, u, k), s.mail # <<>>,
         NEW t \in Srv, t.handlers = s.handlers, t.fwd = s.fwd, t.writing = s.writing,
         t.link = s.link, t.mail = Tail(s.mail)
  PROVE  Good(sv, hd, t, l, u, Append(k, Head(s.mail)))
<1>0. /\ IdsOK(s, l, u) /\ HandlersOK(s, hd) /\ ForwardersOK(s, hd) /\ FramesOK(hd, s, l, k)
      /\ StreamsOK(s, l, k) /\ WriterOK(s, l) /\ AnswerOK(sv, s, l, u, k)
  BY Zenon DEF Good
<1>1. s.mail \in Seq(Frame) /\ Tail(s.mail) \in Seq(Frame) /\ Head(s.mail) \in Frame
  BY DEF Srv
<1>2. IdsOK(t, l, u) /\ HandlersOK(t, hd) /\ ForwardersOK(t, hd) /\ WriterOK(t, l)
  BY <1>0, Zenon DEF IdsOK, HandlersOK, ForwardersOK, WriterOK
<1>3. FramesOK(hd, t, l, Append(k, Head(s.mail)))
  <2>1. /\ Head(s.mail).kind # "none" /\ Sound(Head(s.mail), s, hd)
        /\ AllSound(Tail(s.mail), s, hd)
    BY <1>0, <1>1, SoundTail, Zenon DEF FramesOK
  <2>2. AllSound(Append(k, Head(s.mail)), s, hd)
    BY <1>0, <2>1, <1>1, SoundAppend, Zenon DEF FramesOK
  <2> QED
    BY <1>0, <2>1, <2>2, SoundSame, Zenon DEF FramesOK
<1>4. StreamsOK(t, l, Append(k, Head(s.mail)))
  <2>1. SUFFICES ASSUME l.app # "gone", NEW f \in s.fwd
                 PROVE  StreamOK(f, t, l, Append(k, Head(s.mail)))
    BY DEF StreamsOK
  <2>2. PICK x \in Nat, y \in Nat, z \in Nat :
          /\ Leads(l.events, f.id, f.from + l.seen[f.id], x) /\ Leads(k, f.id, x, y)
          /\ Leads(s.mail, f.id, y, z) /\ Ends(f, z)
    BY <1>0, <2>1, Zenon DEF StreamsOK, StreamOK
  <2>3. f.id \in Nat /\ Head(s.mail).n \in Nat
    BY <1>1, ForwarderIn, FrameIn, Zenon
  <2>4. CASE Of(Head(s.mail), f.id)
    <3>1. /\ Head(s.mail).at = y /\ 1 <= Head(s.mail).n
          /\ Leads(Tail(s.mail), f.id, y + Head(s.mail).n, z)
      BY <2>2, <2>3, <2>4, <1>1, LeadsTail, Zenon
    <3>2. Leads(Append(k, Head(s.mail)), f.id, x, y + Head(s.mail).n)
      BY <2>2, <2>3, <2>4, <3>1, <1>1, LeadsOwn
    <3>3. y + Head(s.mail).n \in Nat
      BY <2>3
    <3> QED
      BY <2>2, <3>1, <3>2, <3>3 DEF StreamOK
  <2>5. CASE ~Of(Head(s.mail), f.id)
    <3>1. Leads(Tail(s.mail), f.id, y, z)
      BY <2>2, <2>3, <2>5, <1>1, LeadsTail, Zenon
    <3>2. Leads(Append(k, Head(s.mail)), f.id, x, y)
      BY <2>2, <2>3, <2>5, <1>1, LeadsOther, Zenon
    <3> QED
      BY <2>2, <3>1, <3>2 DEF StreamOK
  <2> QED
    BY <2>4, <2>5, Zenon
<1>5. AnswerOK(sv, t, l, u, Append(k, Head(s.mail)))
  <2>1. \A i : Answered(k, i) => Answered(Append(k, Head(s.mail)), i)
    BY <1>1, AnswerAppend
  <2>2. ASSUME NEW i, Answered(s.mail, i)
        PROVE  Answered(t.mail, i) \/ Answered(Append(k, Head(s.mail)), i)
    <3>1. (Head(s.mail).kind = "response" /\ Head(s.mail).id = i) \/ Answered(Tail(s.mail), i)
      BY <1>1, <2>2, AnswerTail
    <3> QED
      BY <1>1, <3>1, AnswerAppend
  <2> QED
    BY <1>0, <2>1, <2>2, Zenon DEF AnswerOK
<1> QED
  BY <1>2, <1>3, <1>4, <1>5, Zenon DEF Good

\* WriteFails: the client is gone, and with it all that was meant for it.
LEMMA FailKeeps ==
  ASSUME NEW sv, NEW hd \in [Topics -> Nat], NEW s \in Srv, NEW l \in Cli, NEW u \in Seq(Req),
         NEW k \in Seq(Frame), Good(sv, hd, s, l, u, k), l.app = "gone",
         NEW t \in Srv, t.handlers = s.handlers, t.fwd = s.fwd, t.link = s.link, t.mail = <<>>
  PROVE  Good(sv, hd, t, l, u, k)
<1>0. /\ IdsOK(s, l, u) /\ HandlersOK(s, hd) /\ ForwardersOK(s, hd) /\ FramesOK(hd, s, l, k)
      /\ StreamsOK(s, l, k) /\ WriterOK(s, l) /\ AnswerOK(sv, s, l, u, k)
  BY Zenon DEF Good
<1>1. IdsOK(t, l, u) /\ HandlersOK(t, hd) /\ ForwardersOK(t, hd) /\ WriterOK(t, l)
  BY <1>0, Zenon DEF IdsOK, HandlersOK, ForwardersOK, WriterOK
<1>2. FramesOK(hd, t, l, k)
  <2> QED
    BY <1>0, SoundSame, SoundNone, Zenon DEF FramesOK
<1>3. StreamsOK(t, l, k) /\ AnswerOK(sv, t, l, u, k)
  BY Zenon DEF StreamsOK, AnswerOK
<1> QED
  BY <1>1, <1>2, <1>3, Zenon DEF Good

\* The client goes on, with the events it has.
LEMMA ClientKeeps ==
  ASSUME NEW sv, NEW hd \in [Topics -> Nat], NEW s \in Srv, NEW l \in Cli, NEW u \in Seq(Req),
         NEW k \in Seq(Frame), Good(sv, hd, s, l, u, k), l.app # "gone",
         NEW m \in Cli, m.app # "gone", m.events = l.events, m.seen = l.seen, NEW v \in Seq(Req),
         IdsOK(s, m, v), AnswerOK(sv, s, m, v, k)
  PROVE  Good(sv, hd, s, m, v, k)
<1>0. /\ IdsOK(s, l, u) /\ HandlersOK(s, hd) /\ ForwardersOK(s, hd) /\ FramesOK(hd, s, l, k)
      /\ StreamsOK(s, l, k) /\ WriterOK(s, l) /\ AnswerOK(sv, s, l, u, k)
  BY DEF Good
<1>1. HandlersOK(s, hd) /\ ForwardersOK(s, hd) /\ WriterOK(s, m)
  BY <1>0 DEF WriterOK
<1>2. FramesOK(hd, s, m, k)
  BY <1>0, Zenon DEF FramesOK, AllSound
<1>3. StreamsOK(s, m, k)
  BY <1>0, Zenon DEF StreamsOK, StreamOK
<1> QED
  BY <1>1, <1>2, <1>3 DEF Good

\* The ids are in order while the client writes no fewer requests.
LEMMA IdsKept ==
  ASSUME NEW s \in Srv, NEW l \in Cli, NEW u \in Seq(Req), IdsOK(s, l, u),
         NEW m \in Cli, Past(l) <= Past(m),
         m.app = "writing" => m.want.id = m.sent /\ 1 <= m.sent /\ Valid(m.want)
  PROVE  IdsOK(s, m, u)
<1>1. Past(l) \in Int /\ Past(m) \in Int
  BY ClientIn
<1>2. \A i \in 1..Past(l) : i \in 1..Past(m)
  BY <1>1
<1> QED
  BY <1>2 DEF IdsOK

\* WriteRequest, SendRequest: a request enters the socket.
LEMMA AskedKept ==
  ASSUME NEW s \in Srv, NEW l \in Cli, NEW u \in Seq(Req), IdsOK(s, l, u),
         NEW m \in Cli, m.app # "writing", NEW r \in Req, r.id = Past(l) + 1, r.id <= Past(m),
         Valid(r)
  PROVE  IdsOK(s, m, Append(u, r))
<1> DEFINE v == Append(u, r)
<1>1. /\ Len(u) \in Nat /\ DOMAIN u = 1..Len(u) /\ DOMAIN v = 1..(Len(u) + 1)
      /\ v[Len(u) + 1] = r /\ \A i \in DOMAIN u : v[i] = u[i]
  OBVIOUS
<1> HIDE DEF v
<1>2. \A i \in DOMAIN v : (i \in DOMAIN u /\ v[i] = u[i]) \/ (i = Len(u) + 1 /\ v[i] = r)
  BY <1>1
<1>3. Past(l) \in Int /\ Past(m) \in Int /\ r.id \in Nat
  BY ClientIn DEF Req
<1>4. \A i \in 1..Past(l) : i \in 1..Past(m) /\ i < r.id
  BY <1>3
<1>5. \A i \in DOMAIN v : v[i].id \in 1..Past(m) /\ Valid(v[i])
  <2>1. 1 <= r.id
    <3>1. l.sent \in 0..MaxRequests /\ MaxRequests \in Nat
      BY ClientIn, IpcAssumption
    <3>2. l.app = "writing" => 1 <= l.sent
      BY DEF IdsOK
    <3>3. 0 <= Past(l)
      BY <3>1, <3>2 DEF Past
    <3> QED
      BY <3>3, <1>3
  <2> QED
    BY <2>1, <1>2, <1>3, <1>4 DEF IdsOK
<1>6. \A i, j \in DOMAIN v : i < j => v[i].id < v[j].id
  <2> TAKE i, j \in DOMAIN v
  <2> HAVE i < j
  <2>1. i \in DOMAIN u /\ v[i] = u[i]
    BY <1>1
  <2>2. CASE j \in DOMAIN u /\ v[j] = u[j]
    BY <2>1, <2>2 DEF IdsOK
  <2>3. CASE v[j] = r
    BY <2>1, <2>3, <1>4 DEF IdsOK
  <2> QED
    BY <2>2, <2>3, <1>2
<1>7. \A h \in s.handlers : h.id \in 1..Past(m) /\ \A i \in DOMAIN v : h.id < v[i].id
  BY <1>2, <1>4 DEF IdsOK
<1>8. \A f \in s.fwd : f.id \in 1..Past(m) /\ \A i \in DOMAIN v : f.id < v[i].id
  BY <1>2, <1>4 DEF IdsOK
<1>9. IdsOK(s, m, v)
  BY <1>5, <1>6, <1>7, <1>8 DEF IdsOK
<1> QED
  BY <1>9 DEF v

\* NextEvent: the client takes the events its oldest frame tells of.
LEMMA TakeKeeps ==
  ASSUME NEW sv, NEW hd \in [Topics -> Nat], NEW s \in Srv, NEW l \in Cli, NEW u \in Seq(Req),
         NEW k \in Seq(Frame), Good(sv, hd, s, l, u, k), l.app = "idle", l.events # <<>>,
         NEW m \in Cli, m.events = Tail(l.events), m.seen = Account(l.seen, Head(l.events)),
         m.app = l.app, m.sent = l.sent
  PROVE  Good(sv, hd, s, m, u, k)
<1>0. /\ IdsOK(s, l, u) /\ HandlersOK(s, hd) /\ ForwardersOK(s, hd) /\ FramesOK(hd, s, l, k)
      /\ StreamsOK(s, l, k) /\ WriterOK(s, l) /\ AnswerOK(sv, s, l, u, k)
  BY Zenon DEF Good
<1>1. /\ l.events \in Seq(Frame) /\ Tail(l.events) \in Seq(Frame) /\ l.events[1] \in Frame
      /\ Head(l.events) = l.events[1] /\ 1 \in DOMAIN l.events
      /\ \A i \in DOMAIN Tail(l.events) : i + 1 \in DOMAIN l.events
                                          /\ Tail(l.events)[i] = l.events[i + 1]
  BY DEF Cli
<1>2. PICK e \in Frame : e = Head(l.events) /\ e.kind \in {"event", "lagged"} /\ Sound(e, s, hd)
  <2>1. Head(l.events).kind # "none" /\ Head(l.events).kind # "response"
        /\ Sound(Head(l.events), s, hd)
    BY <1>0, <1>1, Zenon DEF FramesOK, AllSound
  <2> QED
    BY <2>1, <1>1 DEF Frame
<1>3. PICK g \in s.fwd : g.id = e.id
  BY <1>2 DEF Sound
<1>4. e.id \in 1..MaxRequests /\ e.n \in Nat /\ l.seen \in [1..MaxRequests -> Nat]
  <2>1. g.id \in 1..Past(l)
    BY <1>0, Zenon DEF IdsOK
  <2> QED
    BY <2>1, <1>3, PastIn, ClientIn, FrameIn
<1>5. m.seen[e.id] = l.seen[e.id] + e.n /\ \A i \in 1..MaxRequests : i # e.id => m.seen[i] = l.seen[i]
  BY <1>2, <1>4, Zenon DEF Account
<1>6. IdsOK(s, m, u) /\ HandlersOK(s, hd) /\ ForwardersOK(s, hd) /\ WriterOK(s, m)
  BY <1>0, Zenon DEF IdsOK, WriterOK, Past
<1>7. FramesOK(hd, s, m, k)
  <2>1. AllSound(m.events, s, hd)
    BY <1>0, <1>1, SoundTail, Zenon DEF FramesOK
  <2>2. \A i \in DOMAIN m.events : m.events[i].kind # "response"
    <3>1. \A i \in DOMAIN l.events : l.events[i].kind # "response"
      BY <1>0, Zenon DEF FramesOK
    <3> QED
      BY <3>1, <1>1, Zenon
  <2>3. \A i \in 1..MaxRequests : (\A f \in s.fwd : f.id # i) => m.seen[i] = 0
    BY <1>0, <1>3, <1>5, Zenon DEF FramesOK
  <2> QED
    BY <1>0, <2>1, <2>2, <2>3, Zenon DEF FramesOK
<1>8. StreamsOK(s, m, k)
  <2>1. SUFFICES ASSUME NEW f \in s.fwd
                 PROVE  StreamOK(f, s, m, k)
    BY Zenon DEF StreamsOK
  <2>2. PICK x \in Nat, y \in Nat, z \in Nat :
          /\ Leads(l.events, f.id, f.from + l.seen[f.id], x) /\ Leads(k, f.id, x, y)
          /\ Leads(s.mail, f.id, y, z) /\ Ends(f, z)
    BY <1>0, <2>1, Zenon DEF StreamsOK, StreamOK
  <2>3. /\ f.id \in 1..MaxRequests /\ f.id \in Nat /\ f.from \in Nat /\ l.seen[f.id] \in Nat
        /\ f.from + l.seen[f.id] \in Nat
    <3>1. f.id \in 1..Past(l)
      BY <1>0, Zenon DEF IdsOK
    <3> QED
      BY <3>1, StartIn, Zenon
  <2>4. Leads(m.events, f.id, f.from + m.seen[f.id], x)
    <3>1. CASE f.id = e.id
      <4>1. Of(Head(l.events), f.id)
        BY <3>1, <1>2 DEF Of
      <4>2. Leads(Tail(l.events), f.id, f.from + l.seen[f.id] + e.n, x)
        BY <4>1, <2>2, <2>3, <1>1, <1>2, LeadsTail, Zenon
      <4>3. f.from + m.seen[f.id] = f.from + l.seen[f.id] + e.n
        <5>1. m.seen[f.id] = l.seen[f.id] + e.n
          BY <3>1, <2>3, <1>4, <1>5, Zenon
        <5>2. f.from \in Nat /\ l.seen[f.id] \in Nat /\ e.n \in Nat
          BY <2>3, <1>4, Zenon
        <5> QED
          BY <5>1, <5>2
      <4> QED
        BY <4>2, <4>3, Zenon
    <3>2. CASE f.id # e.id
      <4>1. ~Of(Head(l.events), f.id)
        BY <3>2, <1>2 DEF Of
      <4>2. Leads(Tail(l.events), f.id, f.from + l.seen[f.id], x)
        BY <4>1, <2>2, <2>3, <1>1, LeadsTail, Zenon
      <4> QED
        BY <4>2, <3>2, <2>3, <1>5, Zenon
    <3> QED
      BY <3>1, <3>2, Zenon
  <2> QED
    BY <2>2, <2>4 DEF StreamOK
<1>9. AnswerOK(sv, s, m, u, k)
  BY DEF AnswerOK
<1> QED
  BY <1>6, <1>7, <1>8, <1>9, Zenon DEF Good

LEMMA NoResponse ==
  ASSUME NEW q \in Seq(Frame), NEW e \in Frame, e.kind # "response",
         \A i \in DOMAIN q : q[i].kind # "response"
  PROVE  \A i \in DOMAIN Append(q, e) : Append(q, e)[i].kind # "response"
OBVIOUS

\* ReadFrame, from the socket to the one who waits or to the events.
LEMMA FrameKeeps ==
  ASSUME NEW sv, NEW hd \in [Topics -> Nat], NEW s \in Srv, NEW l \in Cli, NEW u \in Seq(Req),
         NEW k \in Seq(Frame), Good(sv, hd, s, l, u, k), k # <<>>, l.app # "gone",
         NEW m \in Cli, m.seen = l.seen, m.app = l.app, m.sent = l.sent, m.want = l.want,
         \/ /\ Head(k).kind = "response" /\ m.events = l.events
            /\ m.pending = l.pending \ {Head(k).id}
         \/ Head(k).kind # "response" /\ m.events = Append(l.events, Head(k)) /\ m.pending = l.pending,
         l.reader = "run"
  PROVE  Good(sv, hd, s, m, u, Tail(k))
<1>0. /\ IdsOK(s, l, u) /\ HandlersOK(s, hd) /\ ForwardersOK(s, hd) /\ FramesOK(hd, s, l, k)
      /\ StreamsOK(s, l, k) /\ WriterOK(s, l) /\ AnswerOK(sv, s, l, u, k)
  BY Zenon DEF Good
<1>1. k[1] \in Frame /\ Tail(k) \in Seq(Frame) /\ Head(k) = k[1] /\ l.events \in Seq(Frame)
  BY DEF Cli
<1>2. IdsOK(s, m, u) /\ HandlersOK(s, hd) /\ ForwardersOK(s, hd) /\ WriterOK(s, m)
  BY <1>0, Zenon DEF IdsOK, WriterOK, Past
<1>3. FramesOK(hd, s, m, Tail(k))
  <2>1. Head(k).kind # "none" /\ Sound(Head(k), s, hd) /\ AllSound(Tail(k), s, hd)
    BY <1>0, SoundTail, Zenon DEF FramesOK
  <2>2. AllSound(m.events, s, hd)
    BY <1>0, <2>1, <1>1, SoundAppend, Zenon DEF FramesOK
  <2>3. \A i \in DOMAIN m.events : m.events[i].kind # "response"
    <3>1. \A i \in DOMAIN l.events : l.events[i].kind # "response"
      BY <1>0, Zenon DEF FramesOK
    <3> QED
      BY <3>1, <1>1, NoResponse, Zenon
  <2> QED
    BY <1>0, <2>1, <2>2, <2>3, Zenon DEF FramesOK
<1>4. StreamsOK(s, m, Tail(k))
  <2>1. SUFFICES ASSUME NEW f \in s.fwd
                 PROVE  StreamOK(f, s, m, Tail(k))
    BY DEF StreamsOK
  <2>2. PICK x \in Nat, y \in Nat, z \in Nat :
          /\ Leads(l.events, f.id, f.from + l.seen[f.id], x) /\ Leads(k, f.id, x, y)
          /\ Leads(s.mail, f.id, y, z) /\ Ends(f, z)
    BY <1>0, <2>1, Zenon DEF StreamsOK, StreamOK
  <2>3. f.id \in Nat /\ Head(k).n \in Nat /\ f.from + l.seen[f.id] \in Nat
    <3>1. f.id \in 1..Past(l)
      BY <1>0, Zenon DEF IdsOK
    <3> QED
      BY <3>1, <1>1, StartIn, FrameIn, Zenon
  <2>4. CASE Of(Head(k), f.id)
    <3>1. Head(k).at = x /\ 1 <= Head(k).n /\ Leads(Tail(k), f.id, x + Head(k).n, y)
      BY <2>2, <2>3, <2>4, LeadsTail, Zenon
    <3>2. m.events = Append(l.events, Head(k))
      BY <2>4 DEF Of
    <3>3. Leads(m.events, f.id, f.from + l.seen[f.id], x + Head(k).n)
      BY <2>2, <2>3, <2>4, <3>1, <3>2, <1>1, LeadsOwn, ZenonT(40)
    <3>4. x + Head(k).n \in Nat
      BY <2>3
    <3> QED
      BY <2>2, <3>1, <3>3, <3>4, Zenon DEF StreamOK
  <2>5. CASE ~Of(Head(k), f.id)
    <3>1. Leads(Tail(k), f.id, x, y)
      BY <2>2, <2>3, <2>5, LeadsTail, Zenon
    <3>2. Leads(m.events, f.id, f.from + l.seen[f.id], x)
      BY <2>2, <2>3, <2>5, <1>1, LeadsOther, Zenon
    <3> QED
      BY <2>2, <3>1, <3>2, Zenon DEF StreamOK
  <2> QED
    BY <2>4, <2>5, Zenon
<1>5. AnswerOK(sv, s, m, u, Tail(k))
  <2>1. \A i \in m.pending : Answered(k, i) => Answered(Tail(k), i)
    BY AnswerTail
  <2> QED
    BY <1>0, <2>1, Zenon DEF AnswerOK
<1> QED
  BY <1>2, <1>3, <1>4, <1>5, Zenon DEF Good

\* Quit: nothing is on its way to a client that is gone.
LEMMA QuitKeeps ==
  ASSUME NEW sv, NEW hd \in [Topics -> Nat], NEW s \in Srv, NEW l \in Cli, NEW u \in Seq(Req),
         NEW k \in Seq(Frame), Good(sv, hd, s, l, u, k),
         NEW m \in Cli, m.app = "gone", m.reader = "ended", m.events = <<>>, m.seen = l.seen, m.sent = l.sent
  PROVE  Good(sv, hd, s, m, u, <<>>)
<1>0. /\ IdsOK(s, l, u) /\ HandlersOK(s, hd) /\ ForwardersOK(s, hd) /\ FramesOK(hd, s, l, k)
      /\ StreamsOK(s, l, k) /\ WriterOK(s, l) /\ AnswerOK(sv, s, l, u, k)
  BY Zenon DEF Good
<1>1. IdsOK(s, m, u)
  <2>1. Past(l) <= Past(m)
    BY ClientIn, IpcAssumption DEF Past
  <2> QED
    BY <1>0, <2>1, IdsKept, Zenon
<1>2. HandlersOK(s, hd) /\ ForwardersOK(s, hd) /\ WriterOK(s, m)
  BY <1>0, Zenon DEF WriterOK
<1>3. FramesOK(hd, s, m, <<>>)
  <2>1. DOMAIN m.events = {}
    OBVIOUS
  <2> QED
    BY <1>0, <2>1, SoundNone, Zenon DEF FramesOK
<1>4. StreamsOK(s, m, <<>>) /\ AnswerOK(sv, s, m, u, <<>>)
  BY DEF StreamsOK, AnswerOK
<1> QED
  BY <1>1, <1>2, <1>3, <1>4, Zenon DEF Good

\* Publish, Stop: more events, or a daemon that is no longer up.
LEMMA WorldKeeps ==
  ASSUME NEW sv, NEW hd \in [Topics -> Nat], NEW s \in Srv, NEW l \in Cli, NEW u \in Seq(Req),
         NEW k \in Seq(Frame), Good(sv, hd, s, l, u, k),
         NEW sv2, sv2 = "up" => sv = "up",
         NEW hd2 \in [Topics -> Nat], \A t \in Topics : hd[t] <= hd2[t]
  PROVE  Good(sv2, hd2, s, l, u, k)
<1>0. /\ IdsOK(s, l, u) /\ HandlersOK(s, hd) /\ ForwardersOK(s, hd) /\ FramesOK(hd, s, l, k)
      /\ StreamsOK(s, l, k) /\ WriterOK(s, l) /\ AnswerOK(sv, s, l, u, k)
  BY DEF Good
<1>1. HandlersOK(s, hd2)
  BY <1>0 DEF HandlersOK, Srv, Handlers
<1>2. ForwardersOK(s, hd2)
  BY <1>0 DEF ForwardersOK, Srv, Forwarders
<1>3. ASSUME NEW e \in Frame, Sound(e, s, hd)
      PROVE  Sound(e, s, hd2)
  <2>1. e.at \in Nat /\ e.n \in Nat /\ HubCapacity \in Nat
    BY IpcAssumption, FrameIn
  <2>2. \A f \in s.fwd : hd[f.topic] \in Nat /\ hd2[f.topic] \in Nat /\ hd[f.topic] <= hd2[f.topic]
    BY ForwarderIn
  <2>3. \A f \in s.fwd :
          /\ e.at <= hd[f.topic] => e.at <= hd2[f.topic]
          /\ e.at + e.n + HubCapacity <= hd[f.topic] + 1 => e.at + e.n + HubCapacity <= hd2[f.topic] + 1
    <3> TAKE f \in s.fwd
    <3>1. PICK x \in Nat, y \in Nat : x = hd[f.topic] /\ y = hd2[f.topic] /\ x <= y
      BY <2>2
    <3>2. /\ e.at <= x => e.at <= y
          /\ e.at + e.n + HubCapacity <= x + 1 => e.at + e.n + HubCapacity <= y + 1
      BY <2>1, <3>1, SMTT(30)
    <3> QED
      BY <3>1, <3>2, Zenon
  <2> QED
    BY <1>3, <2>3 DEF Sound
<1>4. FramesOK(hd2, s, l, k)
  <2>1. ASSUME NEW q \in Seq(Frame), AllSound(q, s, hd)
        PROVE  AllSound(q, s, hd2)
    <3>1. \A i \in DOMAIN q : q[i] \in Frame
      OBVIOUS
    <3> QED
      BY <3>1, <2>1, <1>3, Zenon DEF AllSound
  <2>2. l.events \in Seq(Frame) /\ s.mail \in Seq(Frame) /\ \A f \in s.fwd : f.hold \in Frame
    BY DEF Srv, Cli, Forwarders
  <2> QED
    BY <1>0, <2>1, <2>2, <1>3, Zenon DEF FramesOK
<1>5. AnswerOK(sv2, s, l, u, k)
  BY <1>0, Zenon DEF AnswerOK
<1> QED
  BY <1>1, <1>2, <1>4, <1>5 DEF Good

-----------------------------------------------------------------------------
(* The actions.                                                            *)

LEMMA AtClient ==
  ASSUME IInv, NEW c \in Clients
  PROVE  /\ srv[c] \in Srv /\ cli[c] \in Cli /\ up[c] \in Seq(Req) /\ sock[c] \in Seq(Frame)
         /\ head \in [Topics -> Nat] /\ Good(server, head, srv[c], cli[c], up[c], sock[c])
BY DEF IInv, Types

\* No subscription and no event goes away, and none is taken.
Stays(F, G) ==
  \A f \in F : \E g \in G : g.id = f.id /\ g.topic = f.topic /\ g.from = f.from
Kept ==
  /\ \A t \in Topics : head[t] <= head'[t]
  /\ \A c \in Clients : Stays(srv[c].fwd, srv'[c].fwd) /\ cli'[c].seen = cli[c].seen

LEMMA StaysSame ==
  ASSUME NEW F
  PROVE  Stays(F, F)
BY DEF Stays

\* A step at one connection leaves the others alone.
LEMMA OneClient ==
  ASSUME IInv, NEW c \in Clients, NEW s \in Srv, NEW l \in Cli, NEW u \in Seq(Req),
         NEW k \in Seq(Frame), server' = server, head' = head,
         srv' = [srv EXCEPT ![c] = s], cli' = [cli EXCEPT ![c] = l],
         up' = [up EXCEPT ![c] = u], sock' = [sock EXCEPT ![c] = k],
         Good(server, head, s, l, u, k)
  PROVE  IInv' /\ (Stays(srv[c].fwd, s.fwd) /\ l.seen = cli[c].seen => Kept)
<1>1. Types'
  BY DEF IInv, Types
<1>2. ASSUME NEW d \in Clients
      PROVE  Good(server', head', srv'[d], cli'[d], up'[d], sock'[d])
  <2>1. CASE d = c
    <3>1. srv'[d] = s /\ cli'[d] = l /\ up'[d] = u /\ sock'[d] = k
      BY <2>1 DEF IInv, Types
    <3> QED
      BY <3>1
  <2>2. CASE d # c
    <3>1. srv'[d] = srv[d] /\ cli'[d] = cli[d] /\ up'[d] = up[d] /\ sock'[d] = sock[d]
      BY <2>2 DEF IInv, Types
    <3> QED
      BY <3>1 DEF IInv
  <2> QED
    BY <2>1, <2>2
<1>3. ASSUME Stays(srv[c].fwd, s.fwd), l.seen = cli[c].seen
      PROVE  Kept
  <2>1. /\ srv'[c] = s /\ cli'[c] = l
        /\ \A d \in Clients \ {c} : srv'[d] = srv[d] /\ cli'[d] = cli[d]
    BY DEF IInv, Types
  <2>2. \A t \in Topics : head[t] <= head'[t]
    BY DEF IInv, Types
  <2> QED
    BY <1>3, <2>1, <2>2, StaysSame DEF Kept
<1> QED
  BY <1>1, <1>2, <1>3 DEF IInv

LEMMA Same ==
  ASSUME IInv, NEW c \in Clients
  PROVE  /\ srv = [srv EXCEPT ![c] = srv[c]] /\ cli = [cli EXCEPT ![c] = cli[c]]
         /\ up = [up EXCEPT ![c] = up[c]] /\ sock = [sock EXCEPT ![c] = sock[c]]
BY DEF IInv, Types

\* ... of the server alone.
LEMMA ServerSide ==
  ASSUME IInv, NEW c \in Clients, NEW s \in Srv, Put(c, s),
         UNCHANGED <<server, head, cli, up, sock>>,
         Good(server, head, s, cli[c], up[c], sock[c]), Stays(srv[c].fwd, s.fwd)
  PROVE  IInv' /\ Kept
<1>1. cli[c] \in Cli /\ up[c] \in Seq(Req) /\ sock[c] \in Seq(Frame)
  BY AtClient
<1>2. /\ server' = server /\ head' = head /\ srv' = [srv EXCEPT ![c] = s]
      /\ cli' = [cli EXCEPT ![c] = cli[c]] /\ up' = [up EXCEPT ![c] = up[c]]
      /\ sock' = [sock EXCEPT ![c] = sock[c]]
  BY Same, Zenon DEF Put
<1> QED
  BY <1>1, <1>2, OneClient, Zenon

\* ... of the client alone.
LEMMA ClientSide ==
  ASSUME IInv, NEW c \in Clients, NEW l \in Cli, Set(c, l),
         UNCHANGED <<server, head, srv, up, sock>>,
         Good(server, head, srv[c], l, up[c], sock[c])
  PROVE  IInv' /\ (l.seen = cli[c].seen => Kept)
<1>1. srv[c] \in Srv /\ up[c] \in Seq(Req) /\ sock[c] \in Seq(Frame)
  BY AtClient
<1>2. /\ server' = server /\ head' = head /\ srv' = [srv EXCEPT ![c] = srv[c]]
      /\ cli' = [cli EXCEPT ![c] = l] /\ up' = [up EXCEPT ![c] = up[c]]
      /\ sock' = [sock EXCEPT ![c] = sock[c]]
  BY Same, Zenon DEF Set
<1> QED
  BY <1>1, <1>2, OneClient, StaysSame, Zenon

\* ... of the server and of one of the socket's buffers.
LEMMA ServerAndUp ==
  ASSUME IInv, NEW c \in Clients, NEW s \in Srv, Put(c, s), NEW u \in Seq(Req),
         up' = [up EXCEPT ![c] = u], UNCHANGED <<server, head, cli, sock>>,
         Good(server, head, s, cli[c], u, sock[c]), Stays(srv[c].fwd, s.fwd)
  PROVE  IInv' /\ Kept
<1>1. cli[c] \in Cli /\ sock[c] \in Seq(Frame)
  BY AtClient
<1>2. /\ server' = server /\ head' = head /\ srv' = [srv EXCEPT ![c] = s]
      /\ cli' = [cli EXCEPT ![c] = cli[c]] /\ sock' = [sock EXCEPT ![c] = sock[c]]
  BY Same, Zenon DEF Put
<1> QED
  BY <1>1, <1>2, OneClient, Zenon

LEMMA ServerAndSock ==
  ASSUME IInv, NEW c \in Clients, NEW s \in Srv, Put(c, s), NEW k \in Seq(Frame),
         sock' = [sock EXCEPT ![c] = k], UNCHANGED <<server, head, cli, up>>,
         Good(server, head, s, cli[c], up[c], k), Stays(srv[c].fwd, s.fwd)
  PROVE  IInv' /\ Kept
<1>1. cli[c] \in Cli /\ up[c] \in Seq(Req)
  BY AtClient
<1>2. /\ server' = server /\ head' = head /\ srv' = [srv EXCEPT ![c] = s]
      /\ cli' = [cli EXCEPT ![c] = cli[c]] /\ up' = [up EXCEPT ![c] = up[c]]
  BY Same, Zenon DEF Put
<1> QED
  BY <1>1, <1>2, OneClient, Zenon

\* ... of the client and of one of the socket's buffers.
LEMMA ClientAndUp ==
  ASSUME IInv, NEW c \in Clients, NEW l \in Cli, Set(c, l), NEW u \in Seq(Req),
         up' = [up EXCEPT ![c] = u], UNCHANGED <<server, head, srv, sock>>,
         Good(server, head, srv[c], l, u, sock[c]), l.seen = cli[c].seen
  PROVE  IInv' /\ Kept
<1>1. srv[c] \in Srv /\ sock[c] \in Seq(Frame)
  BY AtClient
<1>2. /\ server' = server /\ head' = head /\ srv' = [srv EXCEPT ![c] = srv[c]]
      /\ cli' = [cli EXCEPT ![c] = l] /\ sock' = [sock EXCEPT ![c] = sock[c]]
  BY Same, Zenon DEF Set
<1> QED
  BY <1>1, <1>2, OneClient, StaysSame, Zenon

LEMMA ClientAndSock ==
  ASSUME IInv, NEW c \in Clients, NEW l \in Cli, Set(c, l), NEW k \in Seq(Frame),
         sock' = [sock EXCEPT ![c] = k], UNCHANGED <<server, head, srv, up>>,
         Good(server, head, srv[c], l, up[c], k), l.seen = cli[c].seen
  PROVE  IInv' /\ Kept
<1>1. srv[c] \in Srv /\ up[c] \in Seq(Req)
  BY AtClient
<1>2. /\ server' = server /\ head' = head /\ srv' = [srv EXCEPT ![c] = srv[c]]
      /\ cli' = [cli EXCEPT ![c] = l] /\ up' = [up EXCEPT ![c] = up[c]]
  BY Same, Zenon DEF Set
<1> QED
  BY <1>1, <1>2, OneClient, StaysSame, Zenon

\* ... of both sides.
LEMMA BothSides ==
  ASSUME IInv, NEW c \in Clients, NEW s \in Srv, Put(c, s), NEW l \in Cli, Set(c, l),
         UNCHANGED <<server, head, up, sock>>,
         Good(server, head, s, l, up[c], sock[c]), s.fwd = srv[c].fwd, l.seen = cli[c].seen
  PROVE  IInv' /\ Kept
<1>1. up[c] \in Seq(Req) /\ sock[c] \in Seq(Frame)
  BY AtClient
<1>2. /\ server' = server /\ head' = head /\ srv' = [srv EXCEPT ![c] = s]
      /\ cli' = [cli EXCEPT ![c] = l] /\ up' = [up EXCEPT ![c] = up[c]]
      /\ sock' = [sock EXCEPT ![c] = sock[c]]
  BY Same, Zenon DEF Put, Set
<1> QED
  BY <1>1, <1>2, OneClient, StaysSame, Zenon

LEMMA LinkSteps ==
  ASSUME IInv, NEW c \in Clients,
         Accept(c) \/ ReapHandler(c) \/ ReaderBreaks(c) \/ AbortHandlers(c) \/ WriterEnds(c)
  PROVE  IInv' /\ Kept
<1>1. PICK t \in Srv :
        /\ Put(c, t) /\ t.fwd = srv[c].fwd /\ t.mail = srv[c].mail
        /\ t.writing = srv[c].writing /\ t.handlers \subseteq srv[c].handlers
        /\ t.link \in {"backlog", "open"} =>
             /\ srv[c].link \in {"backlog", "open"}
             /\ \A h \in srv[c].handlers \ t.handlers : h.stage = "done"
  <2>1. CASE Accept(c)
    <3>1. PICK x \in {"open", "closed"} : Put(c, [srv[c] EXCEPT !.link = x]) /\ srv[c].link = "backlog"
      BY <2>1 DEF Accept
    <3>2. PICK t : t = [srv[c] EXCEPT !.link = x]
      BY Zenon
    <3>3. /\ t \in Srv /\ t.fwd = srv[c].fwd /\ t.mail = srv[c].mail
          /\ t.writing = srv[c].writing /\ t.handlers = srv[c].handlers
      BY <3>2, AtClient, Zenon DEF Srv, Links
    <3> QED
      BY <3>1, <3>2, <3>3, Zenon
  <2>2. CASE ReapHandler(c)
    <3>1. PICK h \in srv[c].handlers : h.stage = "done" /\ srv[c].link = "open"
                                      /\ Put(c, [srv[c] EXCEPT !.handlers = @ \ {h}])
      BY <2>2, Zenon DEF ReapHandler
    <3>2. PICK t : t = [srv[c] EXCEPT !.handlers = @ \ {h}]
      BY Zenon
    <3>3. /\ t \in Srv /\ t.fwd = srv[c].fwd /\ t.mail = srv[c].mail /\ t.link = srv[c].link
          /\ t.writing = srv[c].writing /\ t.handlers = srv[c].handlers \ {h}
      BY <3>2, AtClient DEF Srv
    <3>4. \A h1 \in srv[c].handlers \ t.handlers : h1 = h
      BY <3>3, Zenon
    <3>5. t.handlers \subseteq srv[c].handlers
      BY <3>3, Zenon
    <3> QED
      BY <3>1, <3>2, <3>3, <3>4, <3>5, Zenon
  <2>3. CASE ReaderBreaks(c)
    <3>1. PICK t : t = [srv[c] EXCEPT !.link = "draining"]
      BY Zenon
    <3>2. /\ t \in Srv /\ t.fwd = srv[c].fwd /\ t.mail = srv[c].mail
          /\ t.writing = srv[c].writing /\ t.handlers = srv[c].handlers /\ t.link = "draining"
      BY <3>1, AtClient DEF Srv, Links
    <3> QED
      BY <2>3, <3>1, <3>2, Zenon DEF ReaderBreaks
  <2>4. CASE AbortHandlers(c)
    <3>1. PICK t : t = [srv[c] EXCEPT !.link = "unsubscribing", !.handlers = {}]
      OBVIOUS
    <3>2. /\ t \in Srv /\ t.fwd = srv[c].fwd /\ t.mail = srv[c].mail
          /\ t.writing = srv[c].writing /\ t.handlers = {} /\ t.link = "unsubscribing"
      BY <3>1, AtClient, Zenon DEF Srv, Links
    <3> QED
      BY <2>4, <3>1, <3>2, Zenon DEF AbortHandlers
  <2>5. CASE WriterEnds(c)
    <3>1. PICK t : t = [srv[c] EXCEPT !.link = "half"]
      BY Zenon
    <3>2. /\ t \in Srv /\ t.fwd = srv[c].fwd /\ t.mail = srv[c].mail
          /\ t.writing = srv[c].writing /\ t.handlers = srv[c].handlers /\ t.link = "half"
      BY <3>1, AtClient, Zenon DEF Srv, Links
    <3> QED
      BY <2>5, <3>1, <3>2, Zenon DEF WriterEnds
  <2> QED
    BY <2>1, <2>2, <2>3, <2>4, <2>5
<1>2. Good(server, head, t, cli[c], up[c], sock[c])
  BY <1>1, AtClient, LessKeeps
<1>3. UNCHANGED <<server, head, cli, up, sock>>
  BY DEF Accept, ReapHandler, ReaderBreaks, AbortHandlers, WriterEnds
<1> QED
  BY <1>1, <1>2, <1>3, StaysSame, ServerSide

LEMMA ReadRequestStep ==
  ASSUME IInv, NEW c \in Clients, ReadRequest(c)
  PROVE  IInv' /\ Kept
<1>1. up[c] # <<>> /\ Head(up[c]) \in Req /\ Tail(up[c]) \in Seq(Req)
  BY AtClient DEF ReadRequest
<1>2. Handler(Head(up[c])) \in Handlers
  BY <1>1 DEF Handler, Handlers, Req
<1>3. PICK t \in Srv :
        /\ Put(c, t) /\ t.fwd = srv[c].fwd /\ t.mail = srv[c].mail
        /\ t.writing = srv[c].writing /\ t.link = srv[c].link
        /\ t.handlers = srv[c].handlers \cup {Handler(Head(up[c]))}
  <2>1. PICK t : t = [srv[c] EXCEPT !.handlers = @ \cup {Handler(Head(up[c]))}]
    BY Zenon
  <2>2. /\ t \in Srv /\ t.fwd = srv[c].fwd /\ t.mail = srv[c].mail
        /\ t.writing = srv[c].writing /\ t.link = srv[c].link
        /\ t.handlers = srv[c].handlers \cup {Handler(Head(up[c]))}
    BY <1>2, <2>1, AtClient, Zenon DEF Srv
  <2> QED
    BY <2>1, <2>2, Zenon DEF ReadRequest
<1>4. Good(server, head, t, cli[c], Tail(up[c]), sock[c])
  BY <1>1, <1>3, AtClient, ReadKeeps
<1>5. up' = [up EXCEPT ![c] = Tail(up[c])] /\ UNCHANGED <<server, head, cli, sock>>
  BY DEF ReadRequest
<1> QED
  BY <1>1, <1>3, <1>4, <1>5, ServerAndUp, StaysSame, Zenon

\* Close: requests that were not read are dropped.
LEMMA CloseStep ==
  ASSUME IInv, NEW c \in Clients, Close(c)
  PROVE  IInv' /\ Kept
<1>1. PICK t \in Srv :
        /\ Put(c, t) /\ t.fwd = srv[c].fwd /\ t.mail = srv[c].mail
        /\ t.writing = srv[c].writing /\ t.handlers = srv[c].handlers /\ t.link = "closed"
  BY AtClient DEF Close, Srv, Links
<1>2. Good(server, head, t, cli[c], up[c], sock[c])
  BY <1>1, AtClient, LessKeeps
<1>3. Good(server, head, t, cli[c], <<>>, sock[c])
  <2>1. IdsOK(t, cli[c], <<>>)
    <3>1. IdsOK(t, cli[c], up[c])
      BY <1>2, Zenon DEF Good
    <3> QED
      BY <3>1 DEF IdsOK
  <2>2. AnswerOK(server, t, cli[c], <<>>, sock[c])
    BY <1>1 DEF AnswerOK
  <2> QED
    BY <1>2, <2>1, <2>2 DEF Good
<1>4. up' = [up EXCEPT ![c] = <<>>] /\ UNCHANGED <<server, head, cli, sock>>
  BY DEF Close
<1>5. <<>> \in Seq(Req)
  OBVIOUS
<1> QED
  BY <1>1, <1>3, <1>4, <1>5, ServerAndUp, StaysSame, Zenon

LEMMA AbortTold ==
  ASSUME NEW f \in Forwarders
  PROVE  Abort(f) \in Forwarders /\ Told(f, Abort(f))
BY Zenon DEF Abort, Told, Forwarders

LEMMA AbortForwardersStep ==
  ASSUME IInv, NEW c \in Clients, AbortForwarders(c)
  PROVE  IInv' /\ Kept
<1>1. srv[c].fwd \subseteq Forwarders
  BY AtClient DEF Srv
<1>2. PICK t \in Srv :
        /\ Put(c, t) /\ t.mail = srv[c].mail /\ t.writing = srv[c].writing
        /\ t.handlers = srv[c].handlers /\ t.link = "flushing"
        /\ t.fwd = {Abort(f) : f \in srv[c].fwd}
  <2>1. PICK t : t = [srv[c] EXCEPT !.link = "flushing", !.fwd = {Abort(f) : f \in @}]
    BY Zenon
  <2>2. {Abort(f) : f \in srv[c].fwd} \in SUBSET Forwarders
    BY <1>1, AbortTold, Zenon
  <2>3. /\ t \in Srv /\ t.mail = srv[c].mail /\ t.writing = srv[c].writing
        /\ t.handlers = srv[c].handlers /\ t.link = "flushing"
        /\ t.fwd = {Abort(f) : f \in srv[c].fwd}
    BY <2>1, <2>2, AtClient, Zenon DEF Srv, Links
  <2> QED
    BY <2>1, <2>3, Zenon DEF AbortForwarders
<1>3. /\ \A g \in t.fwd : \E f \in srv[c].fwd : Told(f, g)
      /\ \A f \in srv[c].fwd : \E g \in t.fwd : Told(f, g)
  BY <1>1, <1>2, AbortTold
<1>4. \A f, g \in t.fwd : f.id = g.id => f = g
  <2>1. \A f, g \in srv[c].fwd : f.id = g.id => f = g
    BY AtClient DEF Good, IdsOK
  <2>2. \A f \in srv[c].fwd : Abort(f).id = f.id
    BY <1>1, AbortTold DEF Told
  <2> QED
    BY <2>1, <2>2, <1>2
<1>5. Good(server, head, t, cli[c], up[c], sock[c])
  BY <1>2, <1>3, <1>4, AtClient, TellKeeps, Zenon
<1>6. UNCHANGED <<server, head, cli, up, sock>>
  BY DEF AbortForwarders
<1>7. Stays(srv[c].fwd, t.fwd)
  BY <1>3 DEF Stays, Told
<1> QED
  BY <1>2, <1>5, <1>6, <1>7, ServerSide, Zenon

LEMMA WriterSteps ==
  ASSUME IInv, NEW c \in Clients, WriterStep(c)
  PROVE  IInv' /\ Kept
<1>1. CASE WriteFrame(c)
  <2>1. /\ srv[c].mail # <<>> /\ srv[c].mail \in Seq(Frame) /\ Head(srv[c].mail) \in Frame
        /\ Tail(srv[c].mail) \in Seq(Frame)
    BY <1>1, AtClient DEF WriteFrame, Srv
  <2>2. PICK t \in Srv :
          /\ Put(c, t) /\ t.fwd = srv[c].fwd /\ t.link = srv[c].link
          /\ t.writing = srv[c].writing /\ t.handlers = srv[c].handlers
          /\ t.mail = Tail(srv[c].mail)
    <3>1. PICK t : t = [srv[c] EXCEPT !.mail = Tail(@)]
      BY Zenon
    <3>2. /\ t \in Srv /\ t.fwd = srv[c].fwd /\ t.link = srv[c].link
          /\ t.writing = srv[c].writing /\ t.handlers = srv[c].handlers
          /\ t.mail = Tail(srv[c].mail)
      BY <2>1, <3>1, AtClient, Zenon DEF Srv
    <3> QED
      BY <1>1, <3>1, <3>2, Zenon DEF WriteFrame
  <2>3. Good(server, head, t, cli[c], up[c], Append(sock[c], Head(srv[c].mail)))
    BY <2>1, <2>2, AtClient, WriteKeeps
  <2>4. sock' = [sock EXCEPT ![c] = Append(sock[c], Head(srv[c].mail))]
        /\ UNCHANGED <<server, head, cli, up>>
    BY <1>1 DEF WriteFrame
  <2>5. Append(sock[c], Head(srv[c].mail)) \in Seq(Frame)
    BY <2>1, AtClient
  <2> QED
    BY <2>2, <2>3, <2>4, <2>5, ServerAndSock, StaysSame, Zenon
<1>2. CASE WriteFails(c)
  <2>1. PICK t \in Srv :
          /\ Put(c, t) /\ t.fwd = srv[c].fwd /\ t.link = srv[c].link
          /\ t.handlers = srv[c].handlers /\ t.mail = <<>>
    <3>1. PICK t : t = [srv[c] EXCEPT !.mail = <<>>, !.writing = FALSE]
      OBVIOUS
    <3>2. <<>> \in Seq(Frame)
      OBVIOUS
    <3>3. /\ t \in Srv /\ t.fwd = srv[c].fwd /\ t.link = srv[c].link
          /\ t.handlers = srv[c].handlers /\ t.mail = <<>>
      BY <3>1, <3>2, AtClient, Zenon DEF Srv
    <3> QED
      BY <1>2, <3>1, <3>3, Zenon DEF WriteFails
  <2>2. Good(server, head, t, cli[c], up[c], sock[c])
    BY <1>2, <2>1, AtClient, FailKeeps DEF WriteFails
  <2> QED
    BY <1>2, <2>1, <2>2, StaysSame, ServerSide DEF WriteFails
<1> QED
  BY <1>1, <1>2 DEF WriterStep

LEMMA AppendIn == \A q \in Seq(Frame), e \in Frame : Append(q, e) \in Seq(Frame)
OBVIOUS

\* The record a handler's step puts in place.
LEMMA ReplaceIs ==
  ASSUME NEW c \in Clients, srv[c] \in Srv, NEW h \in srv[c].handlers, NEW g \in Handlers
  PROVE  /\ Replace(c, h, g) \in Srv
         /\ Replace(c, h, g).handlers = (srv[c].handlers \ {h}) \cup {g}
         /\ Replace(c, h, g).fwd = srv[c].fwd /\ Replace(c, h, g).mail = srv[c].mail
         /\ Replace(c, h, g).writing = srv[c].writing /\ Replace(c, h, g).link = srv[c].link
BY DEF Replace, Srv

LEMMA HandlerMoves ==
  ASSUME IInv, NEW c \in Clients, NEW h \in srv[c].handlers,
         Dispatch(c, h) \/ HubSubscribe(c, h) \/ HandlerCancelled(c, h)
  PROVE  IInv' /\ Kept
<1>1. h \in Handlers /\ srv[c] \in Srv /\ head \in [Topics -> Nat]
  BY AtClient DEF Srv
<1>2. PICK g \in Handlers :
        /\ Put(c, Replace(c, h, g)) /\ g.id = h.id /\ g.op = h.op /\ g.arg = h.arg
        /\ h.stage \in {"respond", "done"} => g.stage \in {"respond", "done"}
        /\ g.stage = "lock" => g.arg \in Topics /\ g.cur \in 1..(head[g.arg] + 1)
        /\ g.stage # "done" \/ server # "up"
  <2>1. CASE Dispatch(c, h)
    <3>1. PICK big \in {FALSE, Oversize} :
            Put(c, Replace(c, h, [h EXCEPT !.stage = "respond", !.big = big]))
      BY <2>1, Zenon DEF Dispatch
    <3>2. PICK g : g = [h EXCEPT !.stage = "respond", !.big = big]
      OBVIOUS
    <3>3. g \in Handlers /\ g.id = h.id /\ g.op = h.op /\ g.arg = h.arg /\ g.stage = "respond"
      BY <3>2, <1>1, IpcAssumption, Zenon DEF Handlers
    <3> QED
      BY <3>1, <3>2, <3>3, Zenon
  <2>2. CASE HubSubscribe(c, h)
    <3>1. PICK g : g = [h EXCEPT !.stage = "lock", !.cur = head[h.arg] + 1]
      OBVIOUS
    <3>2. h.arg \in Topics
      BY <2>2, AtClient DEF HubSubscribe, Good, HandlersOK, Valid
    <3>3. PICK n \in Nat : n = head[h.arg] + 1 /\ n \in 1..n
      BY <3>2, <1>1
    <3>4. /\ g \in Handlers /\ g.id = h.id /\ g.op = h.op /\ g.arg = h.arg /\ g.stage = "lock"
          /\ g.cur = n
      BY <3>1, <3>3, <1>1, Zenon DEF Handlers
    <3>5. g.cur \in 1..(head[g.arg] + 1)
      BY <3>3, <3>4, Zenon
    <3> QED
      BY <2>2, <3>1, <3>2, <3>4, <3>5, Zenon DEF HubSubscribe
  <2>3. CASE HandlerCancelled(c, h)
    <3>1. PICK g : g = [h EXCEPT !.stage = "done"]
      BY Zenon
    <3>2. g \in Handlers /\ g.id = h.id /\ g.op = h.op /\ g.arg = h.arg /\ g.stage = "done"
      BY <3>1, <1>1 DEF Handlers
    <3> QED
      BY <2>3, <3>1, <3>2, Zenon DEF HandlerCancelled
  <2> QED
    BY <2>1, <2>2, <2>3
<1>3. Good(server, head, Replace(c, h, g), cli[c], up[c], sock[c])
  <2>1. PICK t \in Srv : /\ t = Replace(c, h, g) /\ t.handlers = (srv[c].handlers \ {h}) \cup {g}
                         /\ t.fwd = srv[c].fwd /\ t.mail = srv[c].mail
                         /\ t.writing = srv[c].writing /\ t.link = srv[c].link
    BY <1>1, <1>2, ReplaceIs, Zenon
  <2> QED
    BY <1>1, <1>2, <2>1, AtClient, ReplaceKeeps, ZenonT(40)
<1>4. UNCHANGED <<server, head, cli, up, sock>>
  BY DEF Dispatch, HubSubscribe, HandlerCancelled
<1> QED
  BY <1>1, <1>2, <1>3, <1>4, ReplaceIs, StaysSame, ServerSide

LEMMA InsertSubStep ==
  ASSUME IInv, NEW c \in Clients, NEW h \in srv[c].handlers, InsertSub(c, h)
  PROVE  IInv' /\ Kept
<1>1. h \in Handlers /\ srv[c] \in Srv /\ head \in [Topics -> Nat] /\ h.stage = "lock"
  BY AtClient DEF Srv, InsertSub
<1>2. h.arg \in Topics /\ h.cur \in 1..(head[h.arg] + 1) /\ \A f \in srv[c].fwd : f.id # h.id
  BY <1>1, AtClient DEF Good, HandlersOK, IdsOK
<1>3. PICK g : g = [h EXCEPT !.stage = "respond"]
  BY Zenon
<1>4. g \in Handlers /\ g.id = h.id /\ g.op = h.op /\ g.arg = h.arg /\ g.stage = "respond"
  BY <1>1, <1>3 DEF Handlers
<1>5. PICK r : r = Replace(c, h, g)
  OBVIOUS
<1>6. /\ r \in Srv /\ r.handlers = (srv[c].handlers \ {h}) \cup {g} /\ r.fwd = srv[c].fwd
      /\ r.mail = srv[c].mail /\ r.writing = srv[c].writing /\ r.link = srv[c].link
  BY <1>1, <1>4, <1>5, ReplaceIs
<1>7. Good(server, head, r, cli[c], up[c], sock[c])
  BY <1>1, <1>4, <1>6, AtClient, ReplaceKeeps, Zenon
<1>8. PICK f : f = [id |-> h.id, topic |-> h.arg, from |-> h.cur, cur |-> h.cur,
                    hold |-> NoFrame, st |-> "run", mapped |-> TRUE]
  BY Zenon
<1>9. /\ f \in Forwarders /\ f.id = h.id /\ f.topic = h.arg /\ f.from = h.cur /\ f.cur = h.cur
      /\ f.hold = NoFrame /\ f.st = "run"
  BY <1>1, <1>2, <1>8 DEF Handlers, Forwarders, Frame, NoFrame
<1>10. UNCHANGED <<server, head, cli, up, sock>>
  BY DEF InsertSub
<1>11. \/ Put(c, [r EXCEPT !.fwd = @]) \/ Put(c, [r EXCEPT !.fwd = @ \cup {f}])
  BY <1>3, <1>5, <1>8 DEF InsertSub
<1>12. CASE Put(c, [r EXCEPT !.fwd = @])
  <2>1. [r EXCEPT !.fwd = @] = r
    BY <1>6 DEF Srv
  <2> QED
    BY <1>6, <1>7, <1>10, <1>12, <2>1, StaysSame, ServerSide
<1>13. CASE Put(c, [r EXCEPT !.fwd = @ \cup {f}])
  <2>1. PICK t \in Srv :
          /\ Put(c, t) /\ t.fwd = r.fwd \cup {f} /\ t.handlers = r.handlers /\ t.mail = r.mail
          /\ t.writing = r.writing /\ t.link = r.link
    BY <1>6, <1>9, <1>13 DEF Srv
  <2>2. g \in r.handlers /\ \A f1 \in r.fwd : f1.id # g.id
    BY <1>2, <1>4, <1>6
  <2>3. f.id = g.id /\ f.from = f.cur /\ f.cur \in 1..(head[f.topic] + 1)
    BY <1>2, <1>4, <1>9
  <2>4. Good(server, head, t, cli[c], up[c], sock[c])
    BY <2>1, <2>2, <2>3, <1>4, <1>6, <1>7, <1>9, AtClient, InsertKeeps, ZenonT(40)
  <2>5. Stays(srv[c].fwd, t.fwd)
    BY <2>1, <1>6 DEF Stays
  <2> QED
    BY <2>1, <2>4, <2>5, <1>10, ServerSide, Zenon
<1> QED
  BY <1>11, <1>12, <1>13

LEMMA RemoveSubStep ==
  ASSUME IInv, NEW c \in Clients, NEW h \in srv[c].handlers, RemoveSub(c, h)
  PROVE  IInv' /\ Kept
<1>1. h \in Handlers /\ srv[c] \in Srv /\ srv[c].fwd \subseteq Forwarders /\ h.stage = "run"
  BY AtClient DEF Srv, RemoveSub
<1>2. PICK g : g = [h EXCEPT !.stage = "respond"]
  BY Zenon
<1>3. g \in Handlers /\ g.id = h.id /\ g.op = h.op /\ g.arg = h.arg /\ g.stage = "respond"
  BY <1>1, <1>2 DEF Handlers
<1>4. PICK r : r = Replace(c, h, g)
  OBVIOUS
<1>5. /\ r \in Srv /\ r.handlers = (srv[c].handlers \ {h}) \cup {g} /\ r.fwd = srv[c].fwd
      /\ r.mail = srv[c].mail /\ r.writing = srv[c].writing /\ r.link = srv[c].link
  BY <1>1, <1>3, <1>4, ReplaceIs
<1>6. Good(server, head, r, cli[c], up[c], sock[c])
  BY <1>1, <1>3, <1>5, AtClient, ReplaceKeeps, Zenon
<1> DEFINE Gone(f) == IF f.id = h.arg /\ f.mapped THEN Abort(f) ELSE f
<1>7. \A f \in srv[c].fwd : Gone(f) \in Forwarders /\ Told(f, Gone(f))
  <2> TAKE f \in srv[c].fwd
  <2>1. Told(f, f)
    BY DEF Told
  <2> QED
    BY <2>1, <1>1, AbortTold
<1>8. Put(c, [r EXCEPT !.fwd = {Gone(f) : f \in srv[c].fwd}])
  BY <1>2, <1>4, <1>5 DEF RemoveSub
<1> HIDE DEF Gone
<1>9. PICK t \in Srv :
        /\ Put(c, t) /\ t.fwd = {Gone(f) : f \in srv[c].fwd} /\ t.handlers = r.handlers
        /\ t.mail = r.mail /\ t.writing = r.writing /\ t.link = r.link
  BY <1>5, <1>7, <1>8 DEF Srv
<1>10. /\ \A f2 \in t.fwd : \E f \in r.fwd : Told(f, f2)
       /\ \A f \in r.fwd : \E f2 \in t.fwd : Told(f, f2)
  BY <1>5, <1>7, <1>9
<1>11. \A f, f2 \in t.fwd : f.id = f2.id => f = f2
  <2>1. \A f, f2 \in srv[c].fwd : f.id = f2.id => f = f2
    BY AtClient DEF Good, IdsOK
  <2>2. \A f \in srv[c].fwd : Gone(f).id = f.id
    BY <1>7 DEF Told
  <2> QED
    BY <2>1, <2>2, <1>9
<1>12. Good(server, head, t, cli[c], up[c], sock[c])
  BY <1>5, <1>6, <1>9, <1>10, <1>11, AtClient, TellKeeps, Zenon
<1>13. UNCHANGED <<server, head, cli, up, sock>>
  BY DEF RemoveSub
<1>14. Stays(srv[c].fwd, t.fwd)
  BY <1>5, <1>10 DEF Stays, Told
<1> QED
  BY <1>9, <1>12, <1>13, <1>14, ServerSide, Zenon

LEMMA RespondStep ==
  ASSUME IInv, NEW c \in Clients, NEW h \in srv[c].handlers, Respond(c, h)
  PROVE  IInv' /\ Kept
<1>1. h \in Handlers /\ srv[c] \in Srv /\ h.stage = "respond" /\ srv[c].mail \in Seq(Frame)
      /\ srv[c].writing \in BOOLEAN
  BY AtClient DEF Srv, Respond
<1>2. PICK g : g = [h EXCEPT !.stage = "done"]
  BY Zenon
<1>3. g \in Handlers /\ g.id = h.id /\ g.op = h.op /\ g.arg = h.arg /\ g.stage = "done"
  BY <1>1, <1>2 DEF Handlers
<1>4. PICK e : e = Answer(h.id, h.big)
  OBVIOUS
<1>5. e \in Frame /\ e.kind = "response" /\ e.id = h.id
  BY <1>1, <1>4 DEF Answer, Frame, Handlers
<1>6. PICK r : r = Replace(c, h, g)
  OBVIOUS
<1>7. /\ r \in Srv /\ r.handlers = (srv[c].handlers \ {h}) \cup {g} /\ r.fwd = srv[c].fwd
      /\ r.mail = srv[c].mail /\ r.writing = srv[c].writing /\ r.link = srv[c].link
  BY <1>1, <1>3, <1>6, ReplaceIs
<1>8. Put(c, [r EXCEPT !.mail = IF srv[c].writing THEN Append(@, e) ELSE @])
      /\ UNCHANGED <<server, head, cli, up, sock>>
  BY <1>2, <1>4, <1>6 DEF Respond
<1>9. CASE ~srv[c].writing
  <2>1. Put(c, r)
    <3>1. [r EXCEPT !.mail = IF srv[c].writing THEN Append(@, e) ELSE @] = r
      BY <1>7, <1>9 DEF Srv
    <3> QED
      BY <3>1, <1>8
  <2>2. Good(server, head, r, cli[c], up[c], sock[c])
    BY <1>1, <1>3, <1>7, <1>9, AtClient, ReplaceKeeps, Zenon
  <2> QED
    BY <2>1, <2>2, <1>7, <1>8, StaysSame, ServerSide
<1>10. CASE srv[c].writing
  <2>1. PICK t \in Srv :
          /\ Put(c, t) /\ t.mail = Append(srv[c].mail, e) /\ t.handlers = r.handlers
          /\ t.fwd = r.fwd /\ t.writing = r.writing /\ t.link = r.link
    <3>1. PICK t : t = [r EXCEPT !.mail = IF srv[c].writing THEN Append(@, e) ELSE @]
      BY Zenon
    <3>2. Append(r.mail, e) \in Seq(Frame)
      BY <1>1, <1>5, <1>7
    <3>3. t = [r EXCEPT !.mail = Append(r.mail, e)]
      BY <3>1, <1>10
    <3>4. /\ t \in Srv /\ t.mail = Append(r.mail, e) /\ t.handlers = r.handlers
          /\ t.fwd = r.fwd /\ t.writing = r.writing /\ t.link = r.link
      BY <3>2, <3>3, <1>7, Zenon DEF Srv
    <3> QED
      BY <3>1, <3>4, <1>7, <1>8, Zenon
  <2>2. PICK q \in Srv :
          /\ q.mail = Append(srv[c].mail, e) /\ q.handlers = srv[c].handlers
          /\ q.fwd = srv[c].fwd /\ q.writing = srv[c].writing /\ q.link = srv[c].link
    <3>1. PICK q : q = [srv[c] EXCEPT !.mail = Append(srv[c].mail, e)]
      BY Zenon
    <3>2. Append(srv[c].mail, e) \in Seq(Frame)
      BY <1>1, <1>5
    <3>3. /\ q \in Srv /\ q.mail = Append(srv[c].mail, e) /\ q.handlers = srv[c].handlers
          /\ q.fwd = srv[c].fwd /\ q.writing = srv[c].writing /\ q.link = srv[c].link
      BY <3>1, <3>2, <1>1, Zenon DEF Srv
    <3> QED
      BY <3>3, Zenon
  <2>3. Good(server, head, q, cli[c], up[c], sock[c])
    BY <2>2, <1>1, <1>5, AtClient, AnswerKeeps, Zenon
  <2>4. Answered(q.mail, h.id)
    BY <2>2, <1>1, <1>5, AnswerAppend
  <2>5. Good(server, head, t, cli[c], up[c], sock[c])
    <3>1. /\ h \in q.handlers /\ t.handlers = (q.handlers \ {h}) \cup {g} /\ t.fwd = q.fwd
          /\ t.mail = q.mail /\ t.writing = q.writing /\ t.link = q.link
      BY <2>1, <2>2, <1>7, Zenon
    <3> QED
      BY <3>1, <2>1, <2>2, <2>3, <2>4, <1>1, <1>3, AtClient, ReplaceKeeps, Zenon
  <2> QED
    BY <2>1, <2>5, <1>7, <1>8, StaysSame, ServerSide, Zenon
<1> QED
  BY <1>9, <1>10

\* The record a forwarder's step puts in place.
LEMMA UpdateIs ==
  ASSUME NEW c \in Clients, srv[c] \in Srv, NEW f \in srv[c].fwd, NEW g \in Forwarders,
         g.id = f.id, g.topic = f.topic, g.from = f.from
  PROVE  /\ Update(c, f, g) \in Srv
         /\ Update(c, f, g).fwd = (srv[c].fwd \ {f}) \cup {g}
         /\ Update(c, f, g).handlers = srv[c].handlers /\ Update(c, f, g).mail = srv[c].mail
         /\ Update(c, f, g).writing = srv[c].writing /\ Update(c, f, g).link = srv[c].link
         /\ Stays(srv[c].fwd, Update(c, f, g).fwd)
BY DEF Update, Srv, Stays

\* What a receiver returns.
LEMMA RecvIs ==
  ASSUME NEW f \in Forwarders, head \in [Topics -> Nat], f.cur <= head[f.topic]
  PROVE  /\ Recv(f) \in Forwarders /\ Recv(f).id = f.id /\ Recv(f).topic = f.topic
         /\ Recv(f).from = f.from /\ Recv(f).st = f.st
         /\ \/ /\ f.cur >= head[f.topic] - HubCapacity + 1
               /\ Recv(f).cur = f.cur + 1 /\ Recv(f).hold = EventFrame(f.id, f.cur)
            \/ /\ f.cur < head[f.topic] - HubCapacity + 1
               /\ Recv(f).cur = head[f.topic] - HubCapacity + 1
               /\ Recv(f).hold = LagFrame(f.id, f.cur, Recv(f).cur - f.cur)
<1>1. /\ f.cur \in Nat /\ f.id \in Nat /\ f.topic \in Topics /\ head[f.topic] \in Nat
      /\ HubCapacity \in Nat /\ 1 <= HubCapacity
  BY IpcAssumption DEF Forwarders
<1>2. CASE f.cur < head[f.topic] - HubCapacity + 1
  <2>1. PICK o : o = head[f.topic] - HubCapacity + 1
    OBVIOUS
  <2>2. o \in Nat /\ o - f.cur \in Nat
    BY <1>1, <1>2, <2>1
  <2>3. LagFrame(f.id, f.cur, o - f.cur) \in Frame
    BY <1>1, <2>2 DEF LagFrame, Frame
  <2>4. Recv(f) = [f EXCEPT !.cur = o, !.hold = LagFrame(f.id, f.cur, o - f.cur)]
    BY <1>2, <2>1 DEF Recv
  <2> QED
    BY <1>1, <1>2, <2>1, <2>2, <2>3, <2>4, Zenon DEF Forwarders
<1>3. CASE ~(f.cur < head[f.topic] - HubCapacity + 1)
  <2>1. EventFrame(f.id, f.cur) \in Frame
    BY <1>1 DEF EventFrame, Frame
  <2>2. Recv(f) = [f EXCEPT !.cur = @ + 1, !.hold = EventFrame(f.id, f.cur)]
    BY <1>3 DEF Recv
  <2>3. PICK n \in Nat : n = f.cur + 1
    BY <1>1
  <2>4. Recv(f) = [f EXCEPT !.cur = n, !.hold = EventFrame(f.id, f.cur)]
    BY <2>2, <2>3, Zenon
  <2>5. /\ Recv(f) \in Forwarders /\ Recv(f).id = f.id /\ Recv(f).topic = f.topic
        /\ Recv(f).from = f.from /\ Recv(f).st = f.st
        /\ Recv(f).cur = n /\ Recv(f).hold = EventFrame(f.id, f.cur)
    BY <2>1, <2>4, Zenon DEF Forwarders
  <2> QED
    BY <1>1, <1>3, <2>3, <2>5
<1> QED
  BY <1>2, <1>3

LEMMA ForwarderSteps ==
  ASSUME IInv, NEW c \in Clients, NEW f \in srv[c].fwd,
         ForwarderRecv(c, f) \/ ForwarderSend(c, f) \/ ForwarderEnds(c, f)
  PROVE  IInv' /\ Kept
<1>1. f \in Forwarders /\ srv[c] \in Srv /\ head \in [Topics -> Nat] /\ f.hold \in Frame
      /\ srv[c].mail \in Seq(Frame)
  BY AtClient DEF Srv, Forwarders
<1>2. NoFrame \in Frame
  BY DEF NoFrame, Frame
<1>3. UNCHANGED <<server, head, cli, up, sock>>
  BY DEF ForwarderRecv, ForwarderSend, ForwarderEnds
<1>4. CASE ForwarderRecv(c, f)
  <2>1. PICK g : g = Recv(f)
    OBVIOUS
  <2>2. /\ g \in Forwarders /\ g.id = f.id /\ g.topic = f.topic
        /\ g.from = f.from /\ g.st = f.st
        /\ \/ /\ f.cur >= head[f.topic] - HubCapacity + 1
              /\ g.cur = f.cur + 1 /\ g.hold = EventFrame(f.id, f.cur)
           \/ /\ f.cur < head[f.topic] - HubCapacity + 1
              /\ g.cur = head[f.topic] - HubCapacity + 1
              /\ g.hold = LagFrame(f.id, f.cur, g.cur - f.cur)
    BY <1>1, <1>4, <2>1, RecvIs DEF ForwarderRecv
  <2>3. /\ Put(c, Update(c, f, g)) /\ f.st # "ended" /\ f.hold = NoFrame
        /\ f.cur <= head[f.topic]
    BY <1>4, <2>1 DEF ForwarderRecv
  <2>4. Good(server, head, Update(c, f, g), cli[c], up[c], sock[c])
    <3>1. PICK t \in Srv :
            /\ t = Update(c, f, g) /\ t.fwd = (srv[c].fwd \ {f}) \cup {g}
            /\ t.handlers = srv[c].handlers /\ t.mail = srv[c].mail
            /\ t.writing = srv[c].writing /\ t.link = srv[c].link
      BY <1>1, <2>2, UpdateIs, Zenon
    <3>2. Good(server, head, t, cli[c], up[c], sock[c])
      BY <1>1, <2>2, <2>3, <3>1, AtClient, RecvKeeps, ZenonT(40)
    <3> QED
      BY <3>1, <3>2
  <2> QED
    BY <1>1, <1>3, <2>2, <2>3, <2>4, UpdateIs, ServerSide
<1>5. ASSUME Put(c, Update(c, f, [f EXCEPT !.st = "ended", !.hold = NoFrame]))
      PROVE  IInv' /\ Kept
  <2>1. PICK g : g = [f EXCEPT !.st = "ended", !.hold = NoFrame]
    OBVIOUS
  <2>2. /\ g \in Forwarders /\ g.id = f.id /\ g.topic = f.topic /\ g.from = f.from
        /\ g.st = "ended" /\ g.cur = f.cur /\ g.hold = NoFrame
    BY <1>1, <1>2, <2>1, Zenon DEF Forwarders
  <2>3. Good(server, head, Update(c, f, g), cli[c], up[c], sock[c])
    <3>1. PICK t \in Srv :
            /\ t = Update(c, f, g) /\ t.fwd = (srv[c].fwd \ {f}) \cup {g}
            /\ t.handlers = srv[c].handlers /\ t.mail = srv[c].mail
            /\ t.writing = srv[c].writing /\ t.link = srv[c].link
      BY <1>1, <2>2, UpdateIs, Zenon
    <3>2. Good(server, head, t, cli[c], up[c], sock[c])
      BY <1>1, <2>2, <3>1, AtClient, EndKeeps, Zenon
    <3> QED
      BY <3>1, <3>2
  <2> QED
    BY <1>1, <1>3, <1>5, <2>1, <2>2, <2>3, UpdateIs, ServerSide, Zenon
<1>6. CASE ForwarderSend(c, f)
  <2>1. CASE ~srv[c].writing
    BY <1>5, <1>6, <2>1 DEF ForwarderSend
  <2>2. CASE srv[c].writing
    <3>1. PICK g : g = [f EXCEPT !.hold = NoFrame]
      BY Zenon
    <3>2. /\ g \in Forwarders /\ g.id = f.id /\ g.topic = f.topic /\ g.from = f.from
          /\ g.st = f.st /\ g.cur = f.cur /\ g.hold = NoFrame
      BY <1>1, <1>2, <3>1 DEF Forwarders
    <3>3. PICK r : r = Update(c, f, g)
      OBVIOUS
    <3>4. /\ r \in Srv /\ r.fwd = (srv[c].fwd \ {f}) \cup {g}
          /\ r.handlers = srv[c].handlers /\ r.mail = srv[c].mail
          /\ r.writing = srv[c].writing /\ r.link = srv[c].link /\ Stays(srv[c].fwd, r.fwd)
      BY <1>1, <3>2, <3>3, UpdateIs
    <3>5. Put(c, [r EXCEPT !.mail = Append(@, f.hold)]) /\ f.hold # NoFrame
      BY <1>6, <2>2, <3>1, <3>3 DEF ForwarderSend
    <3>6. PICK t \in Srv :
            /\ Put(c, t) /\ t.mail = Append(srv[c].mail, f.hold)
            /\ t.fwd = (srv[c].fwd \ {f}) \cup {g} /\ t.handlers = srv[c].handlers
            /\ t.writing = srv[c].writing /\ t.link = srv[c].link /\ t.fwd = r.fwd
      <4>1. PICK t : t = [r EXCEPT !.mail = Append(@, f.hold)]
        BY Zenon
      <4>2. Append(r.mail, f.hold) \in Seq(Frame)
        <5>1. r.mail \in Seq(Frame) /\ f.hold \in Frame
          BY <1>1, <3>4, Zenon DEF Srv, Forwarders
        <5> QED
          BY <5>1, AppendIn, Zenon
      <4>3. /\ t \in Srv /\ t.mail = Append(r.mail, f.hold) /\ t.fwd = r.fwd
            /\ t.handlers = r.handlers /\ t.writing = r.writing /\ t.link = r.link
        BY <4>1, <4>2, <3>4, Zenon DEF Srv
      <4> QED
        BY <4>1, <4>3, <3>4, <3>5, Zenon
    <3>7. Good(server, head, t, cli[c], up[c], sock[c])
      BY <1>1, <3>2, <3>5, <3>6, AtClient, SendKeeps, Zenon
    <3> QED
      BY <1>3, <3>4, <3>6, <3>7, ServerSide, Zenon
  <2> QED
    BY <2>1, <2>2
<1>7. CASE ForwarderEnds(c, f)
  BY <1>5, <1>7 DEF ForwarderEnds
<1> QED
  BY <1>4, <1>6, <1>7
================================================================================
