------------------------------ MODULE IpcFrames ------------------------------
(***************************************************************************)
(* The invariant of a connection of Ipc, and what the server's steps do to *)
(* it.                                                                     *)
(***************************************************************************)
EXTENDS Ipc, TLAPS

Frame == [kind : {"none", "event", "lagged", "response"}, id : Nat, at : Nat, n : Nat,
          big : BOOLEAN]
Operations == {"none", "call", "subscribe", "unsubscribe"}
Req == [id : Nat, op : Operations, arg : Topics \cup Nat]
Handlers == [id : Nat, op : Operations, arg : Topics \cup Nat,
             stage : {"run", "lock", "respond", "done"}, cur : Nat, big : BOOLEAN]
Forwarders == [id : Nat, topic : Topics, from : Nat, cur : Nat, hold : Frame,
               st : {"run", "aborted", "ended"}, mapped : BOOLEAN]
Srv == [link : Links, handlers : SUBSET Handlers, fwd : SUBSET Forwarders, mail : Seq(Frame),
        writing : BOOLEAN]
Cli == [app : {"off", "idle", "writing", "waiting", "gone"}, reader : {"none", "run", "ended"},
        sent : 0..MaxRequests, pending : SUBSET Nat, want : Req, events : Seq(Frame),
        responses : Seq(Nat), seen : [1..MaxRequests -> Nat]]

Types ==
  /\ server \in {"up", "stopping", "down"} /\ head \in [Topics -> Nat]
  /\ srv \in [Clients -> Srv] /\ cli \in [Clients -> Cli]
  /\ up \in [Clients -> Seq(Req)] /\ sock \in [Clients -> Seq(Frame)]

(* What holds of the two sides s and l of a connection, of the frames u and k on their *)
(* way, and of the events hd published.                                                *)

\* The requests a client has written; one that is being written is not among them.
Past(l) == IF l.app = "writing" THEN l.sent - 1 ELSE l.sent
Valid(r) == r.op = "subscribe" => r.arg \in Topics

\* No id is used twice: the socket holds newer ones than the handlers, and a
\* subscription is that of one request which has been handled.
IdsOK(s, l, u) ==
  /\ l.app = "writing" => l.want.id = l.sent /\ 1 <= l.sent /\ Valid(l.want)
  /\ \A i \in DOMAIN u : u[i].id \in 1..Past(l) /\ Valid(u[i])
  /\ \A i, j \in DOMAIN u : i < j => u[i].id < u[j].id
  /\ \A h \in s.handlers : h.id \in 1..Past(l) /\ \A i \in DOMAIN u : h.id < u[i].id
  /\ \A f \in s.fwd : f.id \in 1..Past(l) /\ \A i \in DOMAIN u : f.id < u[i].id
  /\ \A g, h \in s.handlers : g.id = h.id => g = h
  /\ \A f, g \in s.fwd : f.id = g.id => f = g
  /\ \A f \in s.fwd, h \in s.handlers : f.id = h.id => h.stage \in {"respond", "done"}

\* A receiver is never ahead of its topic.
HandlersOK(s, hd) ==
  \A h \in s.handlers :
    Valid(h) /\ (h.stage = "lock" => h.arg \in Topics /\ h.cur \in 1..(hd[h.arg] + 1))
ForwardersOK(s, hd) ==
  \A f \in s.fwd : /\ 1 <= f.from /\ f.from <= f.cur /\ f.cur <= hd[f.topic] + 1
                   /\ f.hold # NoFrame => Of(f.hold, f.id) /\ f.st # "ended"

\* A frame belongs to a subscription, and tells of events that were published, or
\* of ones that were overwritten.
Sound(e, s, hd) ==
  e.kind \in {"event", "lagged"} =>
    \E f \in s.fwd :
      /\ f.id = e.id
      /\ e.kind = "event" => e.n = 1 /\ e.at <= hd[f.topic]
      /\ e.kind = "lagged" => 1 <= e.n /\ e.at + e.n + HubCapacity <= hd[f.topic] + 1
AllSound(q, s, hd) == \A i \in DOMAIN q : q[i].kind # "none" /\ Sound(q[i], s, hd)
FramesOK(hd, s, l, k) ==
  /\ AllSound(l.events, s, hd) /\ AllSound(k, s, hd) /\ AllSound(s.mail, s, hd)
  /\ \A f \in s.fwd : Sound(f.hold, s, hd)
  /\ \A i \in DOMAIN l.events : l.events[i].kind # "response"
  /\ \A i \in 1..MaxRequests : (\A f \in s.fwd : f.id # i) => l.seen[i] = 0

\* From what the client has seen to where the receiver is, nothing is missing.
Ends(f, z) ==
  IF f.hold = NoFrame THEN z <= f.cur /\ (f.st # "ended" => z = f.cur)
  ELSE f.hold.at = z /\ z + f.hold.n = f.cur
StreamOK(f, s, l, k) ==
  \E x, y, z \in Nat :
    /\ Leads(l.events, f.id, f.from + l.seen[f.id], x) /\ Leads(k, f.id, x, y)
    /\ Leads(s.mail, f.id, y, z) /\ Ends(f, z)
StreamsOK(s, l, k) == l.app # "gone" => \A f \in s.fwd : StreamOK(f, s, l, k)

\* The writer and the reader end no sooner than the client does.
WriterOK(s, l) == (~s.writing => l.app = "gone") /\ (l.app = "gone" => l.reader # "run")

Answered(q, i) == \E j \in DOMAIN q : q[j].kind = "response" /\ q[j].id = i
AnswerOK(sv, s, l, u, k) ==
  /\ sv = "up" /\ s.link \in {"backlog", "open"} /\ l.reader = "run"
  /\ l.app = "waiting" /\ l.want.id \in l.pending
  => \/ \E i \in DOMAIN u : u[i].id = l.want.id
     \/ \E h \in s.handlers : h.id = l.want.id /\ h.stage # "done"
     \/ Answered(s.mail, l.want.id) \/ Answered(k, l.want.id)

Good(sv, hd, s, l, u, k) ==
  /\ IdsOK(s, l, u) /\ HandlersOK(s, hd) /\ ForwardersOK(s, hd) /\ FramesOK(hd, s, l, k)
  /\ StreamsOK(s, l, k) /\ WriterOK(s, l) /\ AnswerOK(sv, s, l, u, k)

\* The inductive invariant.
IInv ==
  Types /\ \A c \in Clients : Good(server, head, srv[c], cli[c], up[c], sock[c])

-----------------------------------------------------------------------------
(* Types of the parts.                                                     *)

LEMMA FrameIn ==
  ASSUME NEW e \in Frame
  PROVE  e.id \in Nat /\ e.at \in Nat /\ e.n \in Nat
BY DEF Frame

LEMMA ForwarderIn ==
  ASSUME NEW s \in Srv, NEW f \in s.fwd
  PROVE  /\ f \in Forwarders /\ f.id \in Nat /\ f.topic \in Topics /\ f.from \in Nat
         /\ f.cur \in Nat /\ f.hold \in Frame
BY DEF Srv, Forwarders

LEMMA ClientIn ==
  ASSUME NEW l \in Cli
  PROVE  /\ l.sent \in 0..MaxRequests /\ l.want \in Req /\ l.want.id \in Nat
         /\ l.events \in Seq(Frame) /\ l.seen \in [1..MaxRequests -> Nat]
         /\ Past(l) \in Int /\ Past(l) <= MaxRequests
<1>1. l.sent \in 0..MaxRequests /\ MaxRequests \in Nat
  BY IpcAssumption DEF Cli
<1>2. Past(l) \in Int /\ Past(l) <= MaxRequests
  BY <1>1 DEF Past
<1> QED
  BY <1>1, <1>2 DEF Cli, Req

\* The ids of the requests written so far.
LEMMA PastIn ==
  ASSUME NEW l \in Cli, NEW i \in 1..Past(l)
  PROVE  i \in 1..MaxRequests /\ i \in Nat /\ l.seen[i] \in Nat
<1>1. Past(l) \in Int /\ Past(l) <= MaxRequests /\ MaxRequests \in Nat
  BY ClientIn, IpcAssumption
<1>2. i \in 1..MaxRequests /\ i \in Nat
  BY <1>1
<1> QED
  BY <1>2, ClientIn, Zenon

LEMMA StartIn ==
  ASSUME NEW s \in Srv, NEW l \in Cli, NEW f \in s.fwd, f.id \in 1..Past(l)
  PROVE  /\ f.id \in 1..MaxRequests /\ f.id \in Nat /\ f.from \in Nat
         /\ l.seen[f.id] \in Nat /\ f.from + l.seen[f.id] \in Nat
<1>1. f.id \in 1..MaxRequests /\ f.from \in Nat /\ l.seen[f.id] \in Nat /\ f.id \in Nat
  BY PastIn, ForwarderIn
<1> QED
  BY <1>1

-----------------------------------------------------------------------------
(* Sequences of frames.                                                    *)

LEMMA FramesIn ==
  ASSUME NEW q \in Seq(Frame), NEW i \in DOMAIN q
  PROVE  q[i] \in Frame /\ q[i].id \in Nat /\ q[i].at \in Nat /\ q[i].n \in Nat
<1>1. q[i] \in Frame
  OBVIOUS
<1> QED
  BY <1>1, FrameIn

\* Nothing of a subscription.
LEMMA LeadsNone ==
  ASSUME NEW q \in Seq(Frame), NEW s \in Nat, NEW a \in Nat, \A i \in DOMAIN q : ~Of(q[i], s)
  PROVE  Leads(q, s, a, a)
BY DEF Leads

\* One more frame, of another subscription or of this one.
LEMMA LeadsOther ==
  ASSUME NEW q \in Seq(Frame), NEW s \in Nat, NEW a \in Nat, NEW b \in Nat, NEW e \in Frame,
         Leads(q, s, a, b), ~Of(e, s)
  PROVE  Leads(Append(q, e), s, a, b)
<1> DEFINE p == Append(q, e)
<1>1. DOMAIN p = 1..(Len(q) + 1) /\ DOMAIN q = 1..Len(q) /\ p[Len(q) + 1] = e
      /\ \A i \in 1..Len(q) : p[i] = q[i]
  OBVIOUS
<1>2. Len(q) \in Nat
  OBVIOUS
<1> HIDE DEF p
<1>3. \A i \in DOMAIN p : Of(p[i], s) => i \in DOMAIN q /\ p[i] = q[i]
  BY <1>1, <1>2
<1>4. \A i \in DOMAIN q : i \in DOMAIN p /\ p[i] = q[i]
  BY <1>1, <1>2
<1>5. Leads(p, s, a, b)
  BY <1>3, <1>4 DEF Leads
<1> QED
  BY <1>5 DEF p

LEMMA LeadsOwn ==
  ASSUME NEW q \in Seq(Frame), NEW s \in Nat, NEW a \in Nat, NEW b \in Nat, NEW e \in Frame,
         Leads(q, s, a, b), Of(e, s), e.at = b, 1 <= e.n
  PROVE  Leads(Append(q, e), s, a, b + e.n)
<1> DEFINE p == Append(q, e)
<1>1. DOMAIN p = 1..(Len(q) + 1) /\ DOMAIN q = 1..Len(q) /\ p[Len(q) + 1] = e
      /\ \A i \in 1..Len(q) : p[i] = q[i]
  OBVIOUS
<1>2. Len(q) \in Nat /\ e.n \in Nat /\ p \in Seq(Frame)
  BY DEF Frame
<1>3. \A i \in DOMAIN q : q[i] \in Frame /\ q[i].at \in Nat /\ q[i].n \in Nat
  BY FramesIn
<1> HIDE DEF p
<1>4. \A i \in DOMAIN p : \/ i = Len(q) + 1 /\ p[i] = e
                          \/ i < Len(q) + 1 /\ i \in DOMAIN q /\ p[i] = q[i]
  BY <1>1, <1>2
<1>5. a <= b + e.n
  BY <1>2 DEF Leads
<1>6. \A i \in DOMAIN p : Of(p[i], s) => 1 <= p[i].n /\ a <= p[i].at /\ p[i].at + p[i].n <= b + e.n
  <2> TAKE i \in DOMAIN p
  <2> HAVE Of(p[i], s)
  <2>1. CASE p[i] = e
    BY <2>1, <1>2 DEF Leads
  <2>2. CASE i \in DOMAIN q /\ p[i] = q[i]
    <3>1. 1 <= q[i].n /\ a <= q[i].at /\ q[i].at + q[i].n <= b
      BY <2>2 DEF Leads
    <3> QED
      BY <2>2, <3>1, <1>2, <1>3
  <2> QED
    BY <2>1, <2>2, <1>4
<1>7. \A i, j \in DOMAIN p : i < j /\ Of(p[i], s) /\ Of(p[j], s) => p[i].at + p[i].n <= p[j].at
  <2> TAKE i, j \in DOMAIN p
  <2> HAVE i < j /\ Of(p[i], s) /\ Of(p[j], s)
  <2>1. i \in DOMAIN q /\ p[i] = q[i]
    BY <1>1, <1>2
  <2>2. CASE p[j] = e
    BY <2>1, <2>2, <1>3 DEF Leads
  <2>3. CASE j \in DOMAIN q /\ p[j] = q[j]
    BY <2>1, <2>3 DEF Leads
  <2> QED
    BY <2>2, <2>3, <1>4
<1>8. ASSUME NEW m \in a..(b + e.n - 1)
      PROVE  \E i \in DOMAIN p : Of(p[i], s) /\ p[i].at <= m /\ m < p[i].at + p[i].n
  <2>1. CASE m < b
    <3>1. PICK i \in DOMAIN q : Of(q[i], s) /\ q[i].at <= m /\ m < q[i].at + q[i].n
      BY <2>1 DEF Leads
    <3> QED
      BY <3>1, <1>1, <1>2
  <2>2. CASE b <= m
    BY <2>2, <1>1, <1>2, SMTT(30)
  <2> QED
    BY <2>1, <2>2
<1>9. Leads(p, s, a, b + e.n)
  <2>1. PICK w \in Nat : w = b + e.n
    BY <1>2
  <2>2. a <= w
    BY <2>1, <1>5, Zenon
  <2>3. \A i \in DOMAIN p : Of(p[i], s) => 1 <= p[i].n /\ a <= p[i].at /\ p[i].at + p[i].n <= w
    BY <2>1, <1>6, Zenon
  <2>4. \A m \in a..(w - 1) : \E i \in DOMAIN p : Of(p[i], s) /\ p[i].at <= m /\ m < p[i].at + p[i].n
    <3> TAKE m \in a..(w - 1)
    <3>1. m \in a..(b + e.n - 1)
      BY <1>2, <2>1
    <3> QED
      BY <3>1, <1>8, Zenon
  <2>5. Leads(p, s, a, w)
    BY <2>2, <2>3, <2>4, <1>7, Zenon DEF Leads
  <2> QED
    BY <2>1, <2>5
<1> QED
  BY <1>9 DEF p

\* One frame less: the first one tells of what comes first.
LEMMA LeadsTail ==
  ASSUME NEW q \in Seq(Frame), NEW s \in Nat, NEW a \in Nat, NEW b \in Nat,
         Leads(q, s, a, b), q # <<>>
  PROVE  /\ ~Of(Head(q), s) => Leads(Tail(q), s, a, b)
         /\ Of(Head(q), s) => /\ Head(q).at = a /\ 1 <= Head(q).n
                              /\ Leads(Tail(q), s, a + Head(q).n, b)
<1> DEFINE p == Tail(q)
<1>1. /\ Len(q) \in Nat \ {0} /\ DOMAIN q = 1..Len(q) /\ DOMAIN p = 1..(Len(q) - 1)
      /\ \A i \in 1..(Len(q) - 1) : p[i] = q[i + 1]
      /\ Head(q) = q[1] /\ q[1] \in Frame /\ p \in Seq(Frame)
  OBVIOUS
<1>2. \A i \in DOMAIN q : q[i].at \in Nat /\ q[i].n \in Nat
  BY FramesIn
<1> HIDE DEF p
<1>3. \A i \in DOMAIN q : i = 1 \/ (i - 1 \in DOMAIN p /\ p[i - 1] = q[i])
  BY <1>1
<1>4. \A i \in DOMAIN p : i + 1 \in DOMAIN q /\ p[i] = q[i + 1]
  BY <1>1
<1>5. ASSUME ~Of(q[1], s)
      PROVE  Leads(p, s, a, b)
  <2>1. \A m \in a..(b - 1) : \E i \in DOMAIN p : Of(p[i], s) /\ p[i].at <= m /\ m < p[i].at + p[i].n
    BY <1>3, <1>5 DEF Leads
  <2>2. \A i, j \in DOMAIN p : i < j /\ Of(p[i], s) /\ Of(p[j], s) => p[i].at + p[i].n <= p[j].at
    <3> TAKE i, j \in DOMAIN p
    <3>1. i < j => i + 1 < j + 1
      BY <1>1
    <3> QED
      BY <3>1, <1>4 DEF Leads
  <2> QED
    BY <2>1, <2>2, <1>4 DEF Leads
<1>6. ASSUME Of(q[1], s)
      PROVE  q[1].at = a /\ 1 <= q[1].n /\ Leads(p, s, a + q[1].n, b)
  <2>1. 1 <= q[1].n /\ a <= q[1].at /\ q[1].at + q[1].n <= b /\ q[1].at \in Nat /\ q[1].n \in Nat
    BY <1>1, <1>2, <1>6 DEF Leads
  <2>2. \A i \in DOMAIN q : i # 1 /\ Of(q[i], s) => q[1].at + q[1].n <= q[i].at
    BY <1>1, <1>6, SMTT(30) DEF Leads
  <2>3. q[1].at = a
    <3>1. a \in a..(b - 1)
      BY <2>1
    <3>2. PICK i \in DOMAIN q : Of(q[i], s) /\ q[i].at <= a /\ a < q[i].at + q[i].n
      BY <3>1 DEF Leads
    <3>3. i = 1
      BY <3>2, <2>1, <2>2, <1>2, SMTT(30)
    <3> QED
      BY <3>2, <3>3, <2>1
  <2>4. ASSUME NEW m \in (a + q[1].n)..(b - 1)
        PROVE  \E i \in DOMAIN p : Of(p[i], s) /\ p[i].at <= m /\ m < p[i].at + p[i].n
    <3>1. m \in a..(b - 1)
      BY <2>1
    <3>2. PICK i \in DOMAIN q : Of(q[i], s) /\ q[i].at <= m /\ m < q[i].at + q[i].n
      BY <3>1 DEF Leads
    <3>3. i # 1
      BY <3>2, <2>1, <2>3
    <3> QED
      BY <3>2, <3>3, <1>3
  <2>5. \A i, j \in DOMAIN p : i < j /\ Of(p[i], s) /\ Of(p[j], s) => p[i].at + p[i].n <= p[j].at
    <3> TAKE i, j \in DOMAIN p
    <3>1. i < j => i + 1 < j + 1
      BY <1>1
    <3> QED
      BY <3>1, <1>4 DEF Leads
  <2>6. \A i \in DOMAIN p : Of(p[i], s) =>
          1 <= p[i].n /\ a + q[1].n <= p[i].at /\ p[i].at + p[i].n <= b
    <3> TAKE i \in DOMAIN p
    <3>1. i + 1 # 1
      BY <1>1
    <3> QED
      BY <3>1, <2>2, <2>3, <1>4 DEF Leads
  <2> QED
    BY <2>1, <2>3, <2>4, <2>5, <2>6 DEF Leads
<1> QED
  BY <1>1, <1>5, <1>6 DEF p

\* Two sequences in a row.
LEMMA LeadsConcat ==
  ASSUME NEW p \in Seq(Frame), NEW q \in Seq(Frame), NEW s \in Nat,
         NEW a \in Nat, NEW b \in Nat, NEW d \in Nat, Leads(p, s, a, b), Leads(q, s, b, d)
  PROVE  Leads(p \o q, s, a, d)
<1> DEFINE r == p \o q
<1>1. /\ Len(p) \in Nat /\ Len(q) \in Nat
      /\ DOMAIN p = 1..Len(p) /\ DOMAIN q = 1..Len(q) /\ DOMAIN r = 1..(Len(p) + Len(q))
      /\ \A i \in DOMAIN r : r[i] = IF i <= Len(p) THEN p[i] ELSE q[i - Len(p)]
  OBVIOUS
<1>2. /\ \A i \in DOMAIN p : p[i].at \in Nat /\ p[i].n \in Nat
      /\ \A i \in DOMAIN q : q[i].at \in Nat /\ q[i].n \in Nat
  BY FramesIn
<1> HIDE DEF r
<1>3. \A i \in DOMAIN r : \/ i <= Len(p) /\ i \in DOMAIN p /\ r[i] = p[i]
                          \/ i > Len(p) /\ i - Len(p) \in DOMAIN q /\ r[i] = q[i - Len(p)]
  BY <1>1
<1>4. /\ \A i \in DOMAIN p : i \in DOMAIN r /\ r[i] = p[i]
      /\ \A i \in DOMAIN q : i + Len(p) \in DOMAIN r /\ r[i + Len(p)] = q[i]
  BY <1>1, SMTT(30)
<1>5. a <= d
  BY DEF Leads
<1>6. \A i \in DOMAIN r : Of(r[i], s) => 1 <= r[i].n /\ a <= r[i].at /\ r[i].at + r[i].n <= d
  BY <1>2, <1>3 DEF Leads
<1>7. \A i, j \in DOMAIN r : i < j /\ Of(r[i], s) /\ Of(r[j], s) => r[i].at + r[i].n <= r[j].at
  <2> TAKE i, j \in DOMAIN r
  <2> HAVE i < j /\ Of(r[i], s) /\ Of(r[j], s)
  <2>1. CASE j <= Len(p)
    BY <2>1, <1>1, <1>3 DEF Leads
  <2>2. CASE i <= Len(p) /\ j > Len(p)
    <3>1. i \in DOMAIN p /\ r[i] = p[i] /\ j - Len(p) \in DOMAIN q /\ r[j] = q[j - Len(p)]
      BY <2>2, <1>1, <1>3
    <3> QED
      BY <3>1, <1>2 DEF Leads
  <2>3. CASE i > Len(p)
    <3>1. /\ i - Len(p) \in DOMAIN q /\ r[i] = q[i - Len(p)]
          /\ j - Len(p) \in DOMAIN q /\ r[j] = q[j - Len(p)] /\ i - Len(p) < j - Len(p)
      BY <2>3, <1>1, <1>3
    <3> QED
      BY <3>1 DEF Leads
  <2> QED
    BY <2>1, <2>2, <2>3, <1>1
<1>8. ASSUME NEW m \in a..(d - 1)
      PROVE  \E i \in DOMAIN r : Of(r[i], s) /\ r[i].at <= m /\ m < r[i].at + r[i].n
  <2>1. CASE m < b
    <3>1. PICK i \in DOMAIN p : Of(p[i], s) /\ p[i].at <= m /\ m < p[i].at + p[i].n
      BY <2>1 DEF Leads
    <3> QED
      BY <3>1, <1>4
  <2>2. CASE b <= m
    <3>0. m \in b..(d - 1)
      BY <2>2
    <3>1. PICK i \in DOMAIN q : Of(q[i], s) /\ q[i].at <= m /\ m < q[i].at + q[i].n
      BY <3>0, Zenon DEF Leads
    <3> QED
      BY <3>1, <1>4
  <2> QED
    BY <2>1, <2>2
<1>9. Leads(r, s, a, d)
  BY <1>5, <1>6, <1>7, <1>8, Zenon DEF Leads
<1> QED
  BY <1>9 DEF r

-----------------------------------------------------------------------------
(* What each kind of step does to one connection.                          *)

\* A sound frame stays so while its subscription is there.
LEMMA SoundKept ==
  ASSUME NEW hd \in [Topics -> Nat], NEW s, NEW t, NEW e \in Frame, Sound(e, s, hd),
         \A f \in s.fwd : \E g \in t.fwd : g.id = f.id /\ g.topic = f.topic
  PROVE  Sound(e, t, hd)
BY DEF Sound

LEMMA SoundTells ==
  ASSUME NEW hd, NEW s, NEW e \in Frame, Sound(e, s, hd), e.kind \in {"event", "lagged"}
  PROVE  1 <= e.n
<1>1. e.n = 1 \/ 1 <= e.n
  BY DEF Sound
<1> QED
  BY <1>1

LEMMA SoundSame ==
  ASSUME NEW hd, NEW s, NEW t, t.fwd = s.fwd
  PROVE  /\ \A e : Sound(e, s, hd) => Sound(e, t, hd)
         /\ \A q : AllSound(q, s, hd) => AllSound(q, t, hd)
<1>1. \A e : Sound(e, s, hd) => Sound(e, t, hd)
  BY DEF Sound
<1> QED
  BY <1>1 DEF AllSound

LEMMA AllSoundKept ==
  ASSUME NEW hd \in [Topics -> Nat], NEW s, NEW t, NEW q \in Seq(Frame), AllSound(q, s, hd),
         \A f \in s.fwd : \E g \in t.fwd : g.id = f.id /\ g.topic = f.topic
  PROVE  AllSound(q, t, hd)
<1>1. \A i \in DOMAIN q : q[i] \in Frame
  OBVIOUS
<1> QED
  BY <1>1, SoundKept DEF AllSound

LEMMA SoundNone ==
  ASSUME NEW hd, NEW s
  PROVE  AllSound(<<>>, s, hd)
BY DEF AllSound

LEMMA SoundEmpty == \A s, hd : Sound(NoFrame, s, hd)
BY DEF Sound, NoFrame

LEMMA SoundAppend ==
  ASSUME NEW hd, NEW s, NEW q \in Seq(Frame), NEW e \in Frame, AllSound(q, s, hd),
         e.kind # "none", Sound(e, s, hd)
  PROVE  AllSound(Append(q, e), s, hd)
BY DEF AllSound

LEMMA SoundTail ==
  ASSUME NEW hd, NEW s, NEW q \in Seq(Frame), q # <<>>, AllSound(q, s, hd)
  PROVE  /\ Head(q) \in Frame /\ Head(q).kind # "none" /\ Sound(Head(q), s, hd)
         /\ Tail(q) \in Seq(Frame) /\ AllSound(Tail(q), s, hd)
<1>1. Head(q) = q[1] /\ 1 \in DOMAIN q /\ Tail(q) \in Seq(Frame) /\ q[1] \in Frame
  OBVIOUS
<1>2. \A i \in DOMAIN Tail(q) : i + 1 \in DOMAIN q /\ Tail(q)[i] = q[i + 1]
  OBVIOUS
<1> QED
  BY <1>1, <1>2 DEF AllSound

\* An answer on its way.
LEMMA AnswerAppend ==
  ASSUME NEW q \in Seq(Frame), NEW e \in Frame, NEW i
  PROVE  /\ Answered(q, i) => Answered(Append(q, e), i)
         /\ e.kind = "response" /\ e.id = i => Answered(Append(q, e), i)
<1>1. Len(q) \in Nat /\ DOMAIN q = 1..Len(q) /\ DOMAIN Append(q, e) = 1..(Len(q) + 1)
      /\ Append(q, e)[Len(q) + 1] = e /\ \A j \in 1..Len(q) : Append(q, e)[j] = q[j]
  OBVIOUS
<1>2. Len(q) + 1 \in DOMAIN Append(q, e) /\ \A j \in DOMAIN q : j \in DOMAIN Append(q, e)
  BY <1>1
<1> QED
  BY <1>1, <1>2 DEF Answered

LEMMA AnswerTail ==
  ASSUME NEW q \in Seq(Frame), q # <<>>, NEW i, Answered(q, i)
  PROVE  (Head(q).kind = "response" /\ Head(q).id = i) \/ Answered(Tail(q), i)
<1>1. PICK j \in DOMAIN q : q[j].kind = "response" /\ q[j].id = i
  BY DEF Answered
<1>2. \/ j = 1 /\ Head(q) = q[1]
      \/ j - 1 \in DOMAIN Tail(q) /\ Tail(q)[j - 1] = q[j]
  OBVIOUS
<1> QED
  BY <1>1, <1>2 DEF Answered

\* Accept, ReapHandler, ReaderBreaks, AbortHandlers, WriterEnds, Connect: another phase,
\* and fewer handlers.
LEMMA LessKeeps ==
  ASSUME NEW sv, NEW hd \in [Topics -> Nat], NEW s \in Srv, NEW l \in Cli, NEW u \in Seq(Req),
         NEW k \in Seq(Frame), Good(sv, hd, s, l, u, k),
         NEW t \in Srv, t.fwd = s.fwd, t.mail = s.mail, t.writing = s.writing,
         t.handlers \subseteq s.handlers,
         t.link \in {"backlog", "open"} =>
           /\ s.link \in {"backlog", "open"} \/ l.app # "waiting"
           /\ \A h \in s.handlers \ t.handlers : h.stage = "done"
  PROVE  Good(sv, hd, t, l, u, k)
<1>0. /\ IdsOK(s, l, u) /\ HandlersOK(s, hd) /\ ForwardersOK(s, hd) /\ FramesOK(hd, s, l, k)
      /\ StreamsOK(s, l, k) /\ WriterOK(s, l) /\ AnswerOK(sv, s, l, u, k)
  BY DEF Good
<1>1. IdsOK(t, l, u)
  BY <1>0, Zenon DEF IdsOK
<1>2. HandlersOK(t, hd) /\ ForwardersOK(t, hd) /\ WriterOK(t, l)
  BY <1>0 DEF HandlersOK, ForwardersOK, WriterOK
<1>3. FramesOK(hd, t, l, k)
  BY <1>0, SoundSame, Zenon DEF FramesOK
<1>4. StreamsOK(t, l, k)
  BY <1>0 DEF StreamsOK, StreamOK
<1>5. AnswerOK(sv, t, l, u, k)
  BY <1>0 DEF AnswerOK
<1> QED
  BY <1>1, <1>2, <1>3, <1>4, <1>5 DEF Good

\* Names stay unique when one with a new name is added.
LEMMA OneMore ==
  ASSUME NEW S, NEW g, \A x, y \in S : x.id = y.id => x = y, \A x \in S : x.id # g.id
  PROVE  \A x, y \in S \cup {g} : x.id = y.id => x = y
OBVIOUS

\* The order of the numbers, for steps that need nothing else of it.
LEMMA Reflexive == \A n \in Nat : n <= n
OBVIOUS

LEMMA AtMost == \A m, n, o \in Nat : m <= n /\ n <= o => m <= o
OBVIOUS

LEMMA Older == \A m, n \in Nat : m < n => m # n
OBVIOUS

\* ReadRequest.
LEMMA ReadKeeps ==
  ASSUME NEW sv, NEW hd \in [Topics -> Nat], NEW s \in Srv, NEW l \in Cli, NEW u \in Seq(Req),
         NEW k \in Seq(Frame), Good(sv, hd, s, l, u, k), u # <<>>,
         NEW t \in Srv, t.fwd = s.fwd, t.mail = s.mail, t.writing = s.writing, t.link = s.link,
         t.handlers = s.handlers \cup {Handler(Head(u))}
  PROVE  Good(sv, hd, t, l, Tail(u), k)
<1>0. /\ IdsOK(s, l, u) /\ HandlersOK(s, hd) /\ ForwardersOK(s, hd) /\ FramesOK(hd, s, l, k)
      /\ StreamsOK(s, l, k) /\ WriterOK(s, l) /\ AnswerOK(sv, s, l, u, k)
  BY DEF Good
<1> DEFINE v == Tail(u)
<1>1. /\ v \in Seq(Req) /\ 1 \in DOMAIN u /\ Head(u) = u[1] /\ u[1] \in Req
      /\ \A i \in DOMAIN v : i + 1 \in DOMAIN u /\ v[i] = u[i + 1] /\ 1 < i + 1 /\ i \in Nat
      /\ \A i \in DOMAIN u : i = 1 \/ (i - 1 \in DOMAIN v /\ v[i - 1] = u[i])
  OBVIOUS
<1> HIDE DEF v
<1>2. PICK g : g = Handler(Head(u)) /\ g.id = u[1].id /\ g.op = u[1].op /\ g.arg = u[1].arg
               /\ g.stage = "run"
  <2>1. Handler(u[1]).id = u[1].id /\ Handler(u[1]).op = u[1].op /\ Handler(u[1]).arg = u[1].arg
        /\ Handler(u[1]).stage = "run"
    BY DEF Handler
  <2> QED
    BY <2>1, <1>1
<1>3. t.handlers = s.handlers \cup {g}
  BY <1>2
<1>4. IdsOK(t, l, v)
  <2>1. \A i, j \in DOMAIN v : i < j => v[i].id < v[j].id
    <3> TAKE i, j \in DOMAIN v
    <3>1. i < j => i + 1 < j + 1
      BY <1>1
    <3> QED
      BY <1>0, <3>1, <1>1, Zenon DEF IdsOK
  <2>2. \A i \in DOMAIN v : v[i].id \in 1..Past(l) /\ Valid(v[i])
    BY <1>0, <1>1 DEF IdsOK
  <2>3. \A h \in t.handlers : h.id \in 1..Past(l) /\ \A i \in DOMAIN v : h.id < v[i].id
    <3>1. g.id \in 1..Past(l) /\ \A i \in DOMAIN v : g.id < v[i].id
      BY <1>0, <1>1, <1>2, Zenon DEF IdsOK
    <3>2. \A h \in s.handlers : h.id \in 1..Past(l) /\ \A i \in DOMAIN v : h.id < v[i].id
      BY <1>0, <1>1, Zenon DEF IdsOK
    <3> QED
      BY <1>3, <3>1, <3>2, Zenon
  <2>4. \A f \in t.fwd : f.id \in 1..Past(l) /\ \A i \in DOMAIN v : f.id < v[i].id
    BY <1>0, <1>1 DEF IdsOK
  <2>5. \A h \in s.handlers : h.id # g.id
    <3>1. \A h \in s.handlers : h.id < u[1].id /\ h.id \in Nat
      BY <1>0, <1>1, Zenon DEF IdsOK, Srv, Handlers
    <3> QED
      BY <3>1, <1>1, <1>2, Older, Zenon DEF Req
  <2>6. \A f \in s.fwd : f.id # g.id
    <3>1. \A f \in s.fwd : f.id < u[1].id /\ f.id \in Nat
      BY <1>0, <1>1, Zenon DEF IdsOK, Srv, Forwarders
    <3> QED
      BY <3>1, <1>1, <1>2, Older, Zenon DEF Req
  <2>7. \A h1, h2 \in t.handlers : h1.id = h2.id => h1 = h2
    BY <1>0, <2>5, <1>3, Zenon DEF IdsOK
  <2>8. \A f \in t.fwd, h \in t.handlers : f.id = h.id => h.stage \in {"respond", "done"}
    BY <1>0, <2>6, <1>3, Zenon DEF IdsOK
  <2> QED
    BY <1>0, <2>1, <2>2, <2>3, <2>4, <2>7, <2>8, Zenon DEF IdsOK
<1>5. HandlersOK(t, hd) /\ ForwardersOK(t, hd) /\ WriterOK(t, l)
  <2>1. Valid(g) /\ g.stage # "lock"
    BY <1>0, <1>1, <1>2, Zenon DEF IdsOK, Valid
  <2>2. HandlersOK(t, hd)
    BY <1>0, <1>3, <2>1, Zenon DEF HandlersOK
  <2> QED
    BY <1>0, <2>2, Zenon DEF ForwardersOK, WriterOK
<1>6. FramesOK(hd, t, l, k)
  BY <1>0, SoundSame, Zenon DEF FramesOK
<1>7. StreamsOK(t, l, k)
  BY <1>0, Zenon DEF StreamsOK, StreamOK
<1>8. AnswerOK(sv, t, l, v, k)
  <2>1. ASSUME \E i \in DOMAIN u : u[i].id = l.want.id
        PROVE  \/ \E i \in DOMAIN v : v[i].id = l.want.id
               \/ g \in t.handlers /\ g.id = l.want.id /\ g.stage # "done"
    BY <2>1, <1>1, <1>2, <1>3, Zenon
  <2>2. \A h \in s.handlers : h \in t.handlers
    BY <1>3, Zenon
  <2> QED
    BY <1>0, <2>1, <2>2, Zenon DEF AnswerOK
<1> QED
  BY <1>4, <1>5, <1>6, <1>7, <1>8 DEF Good, v

\* A handler moves on.
LEMMA ReplaceKeeps ==
  ASSUME NEW sv, NEW hd \in [Topics -> Nat], NEW s \in Srv, NEW l \in Cli, NEW u \in Seq(Req),
         NEW k \in Seq(Frame), Good(sv, hd, s, l, u, k),
         NEW h \in s.handlers, NEW g \in Handlers, g.id = h.id, g.op = h.op, g.arg = h.arg,
         h.stage \in {"respond", "done"} => g.stage \in {"respond", "done"},
         g.stage = "lock" => g.arg \in Topics /\ g.cur \in 1..(hd[g.arg] + 1),
         g.stage # "done" \/ sv # "up" \/ ~s.writing \/ Answered(s.mail, h.id),
         NEW t \in Srv, t.fwd = s.fwd, t.mail = s.mail, t.writing = s.writing, t.link = s.link,
         t.handlers = (s.handlers \ {h}) \cup {g}
  PROVE  Good(sv, hd, t, l, u, k)
<1>0. /\ IdsOK(s, l, u) /\ HandlersOK(s, hd) /\ ForwardersOK(s, hd) /\ FramesOK(hd, s, l, k)
      /\ StreamsOK(s, l, k) /\ WriterOK(s, l) /\ AnswerOK(sv, s, l, u, k)
  BY Zenon DEF Good
<1>1. IdsOK(t, l, u)
  <2>1. \A h1 \in t.handlers : \E h2 \in s.handlers :
          h2.id = h1.id /\ (h2.stage \in {"respond", "done"} => h1.stage \in {"respond", "done"})
    BY Zenon
  <2>2. \A h1, h2 \in t.handlers : h1.id = h2.id => h1 = h2
    <3>1. \A h1, h2 \in s.handlers : h1.id = h2.id => h1 = h2
      BY <1>0, Zenon DEF IdsOK
    <3>2. \A h1, h2 \in s.handlers \ {h} : h1.id = h2.id => h1 = h2
      BY <3>1, Zenon
    <3>3. \A h1 \in s.handlers \ {h} : h1.id # g.id
      BY <3>1, Zenon
    <3> QED
      BY <3>2, <3>3, OneMore, Zenon
  <2>3. \A h1 \in t.handlers : h1.id \in 1..Past(l) /\ \A i \in DOMAIN u : h1.id < u[i].id
    <3> TAKE h1 \in t.handlers
    <3>1. PICK h2 \in s.handlers : h2.id = h1.id
      BY <2>1, Zenon
    <3> QED
      BY <1>0, <3>1, Zenon DEF IdsOK
  <2>4. ASSUME NEW f \in t.fwd, NEW h1 \in t.handlers, f.id = h1.id
        PROVE  h1.stage \in {"respond", "done"}
    <3>1. PICK h2 \in s.handlers :
            h2.id = h1.id /\ (h2.stage \in {"respond", "done"} => h1.stage \in {"respond", "done"})
      BY <2>1, Zenon
    <3>2. f \in s.fwd /\ f.id = h2.id
      BY <2>4, <3>1, Zenon
    <3>3. h2.stage \in {"respond", "done"}
      BY <1>0, <3>2, Zenon DEF IdsOK
    <3> QED
      BY <3>1, <3>3, Zenon
  <2> QED
    BY <1>0, <2>2, <2>3, <2>4, Zenon DEF IdsOK
<1>2. HandlersOK(t, hd) /\ ForwardersOK(t, hd) /\ WriterOK(t, l)
  BY <1>0, Zenon DEF HandlersOK, ForwardersOK, WriterOK, Valid
<1>3. FramesOK(hd, t, l, k)
  BY <1>0, SoundSame, Zenon DEF FramesOK
<1>4. StreamsOK(t, l, k)
  BY <1>0, Zenon DEF StreamsOK, StreamOK
<1>5. AnswerOK(sv, t, l, u, k)
  BY <1>0, Zenon DEF AnswerOK, WriterOK
<1> QED
  BY <1>1, <1>2, <1>3, <1>4, <1>5, Zenon DEF Good

\* AbortForwarders, RemoveSub: forwarders are told to end.
Told(f, g) ==
  /\ g.id = f.id /\ g.topic = f.topic /\ g.from = f.from /\ g.cur = f.cur /\ g.hold = f.hold
  /\ g.st = "ended" <=> f.st = "ended"
LEMMA TellKeeps ==
  ASSUME NEW sv, NEW hd \in [Topics -> Nat], NEW s \in Srv, NEW l \in Cli, NEW u \in Seq(Req),
         NEW k \in Seq(Frame), Good(sv, hd, s, l, u, k),
         NEW t \in Srv, t.handlers = s.handlers, t.mail = s.mail, t.writing = s.writing,
         t.link \in {"backlog", "open"} => s.link \in {"backlog", "open"},
         \A g \in t.fwd : \E f \in s.fwd : Told(f, g),
         \A f \in s.fwd : \E g \in t.fwd : Told(f, g),
         \A f, g \in t.fwd : f.id = g.id => f = g
  PROVE  Good(sv, hd, t, l, u, k)
<1>0. /\ IdsOK(s, l, u) /\ HandlersOK(s, hd) /\ ForwardersOK(s, hd) /\ FramesOK(hd, s, l, k)
      /\ StreamsOK(s, l, k) /\ WriterOK(s, l) /\ AnswerOK(sv, s, l, u, k)
  BY Zenon DEF Good
<1>1. IdsOK(t, l, u)
  <2>1. \A g \in t.fwd : \E f \in s.fwd : f.id = g.id
    BY Zenon DEF Told
  <2>2. \A f \in t.fwd : f.id \in 1..Past(l) /\ \A i \in DOMAIN u : f.id < u[i].id
    BY <1>0, <2>1, Zenon DEF IdsOK
  <2>3. \A f \in t.fwd, h \in t.handlers : f.id = h.id => h.stage \in {"respond", "done"}
    <3> TAKE f \in t.fwd, h \in t.handlers
    <3>1. PICK f2 \in s.fwd : f2.id = f.id
      BY <2>1, Zenon
    <3> QED
      BY <1>0, <3>1, Zenon DEF IdsOK
  <2> QED
    BY <1>0, <2>2, <2>3, Zenon DEF IdsOK
<1>2. HandlersOK(t, hd) /\ ForwardersOK(t, hd) /\ WriterOK(t, l)
  <2>1. ASSUME NEW g \in t.fwd
        PROVE  /\ 1 <= g.from /\ g.from <= g.cur /\ g.cur <= hd[g.topic] + 1
               /\ g.hold # NoFrame => Of(g.hold, g.id) /\ g.st # "ended"
    <3>1. PICK f \in s.fwd : Told(f, g)
      BY Zenon
    <3>2. /\ 1 <= f.from /\ f.from <= f.cur /\ f.cur <= hd[f.topic] + 1
          /\ f.hold # NoFrame => Of(f.hold, f.id) /\ f.st # "ended"
      BY <1>0, Zenon DEF ForwardersOK
    <3> QED
      BY <3>1, <3>2, Zenon DEF Told
  <2> QED
    BY <1>0, <2>1, Zenon DEF HandlersOK, ForwardersOK, WriterOK
<1>3. FramesOK(hd, t, l, k)
  <2>1. \A f \in s.fwd : \E g \in t.fwd : g.id = f.id /\ g.topic = f.topic
    BY DEF Told
  <2>2. l.events \in Seq(Frame) /\ s.mail \in Seq(Frame) /\ \A f \in t.fwd : f.hold \in Frame
    BY DEF Srv, Cli, Forwarders
  <2>3. AllSound(l.events, t, hd) /\ AllSound(k, t, hd) /\ AllSound(t.mail, t, hd)
    BY <1>0, <2>1, <2>2, AllSoundKept, Zenon DEF FramesOK
  <2>4. \A f \in t.fwd : Sound(f.hold, s, hd)
    BY <1>0, Zenon DEF FramesOK, Told
  <2>5. \A f \in t.fwd : Sound(f.hold, t, hd)
    BY <2>1, <2>2, <2>4, SoundKept, Zenon
  <2>6. ASSUME NEW i \in 1..MaxRequests, \A f \in t.fwd : f.id # i
        PROVE  l.seen[i] = 0
    <3>1. \A f \in s.fwd : f.id # i
      BY <2>1, <2>6, Zenon
    <3> QED
      BY <1>0, <3>1, Zenon DEF FramesOK
  <2> QED
    BY <1>0, <2>3, <2>5, <2>6, Zenon DEF FramesOK
<1>4. StreamsOK(t, l, k)
  <2>1. ASSUME NEW f \in s.fwd, NEW g \in t.fwd, Told(f, g), StreamOK(f, s, l, k)
        PROVE  StreamOK(g, t, l, k)
    BY <2>1 DEF StreamOK, Ends, Told
  <2> QED
    BY <1>0, <2>1 DEF StreamsOK
<1>5. AnswerOK(sv, t, l, u, k)
  BY <1>0, Zenon DEF AnswerOK
<1> QED
  BY <1>1, <1>2, <1>3, <1>4, <1>5, Zenon DEF Good

\* InsertSub: a new forwarder, at the receiver's place.
LEMMA InsertKeeps ==
  ASSUME NEW sv, NEW hd \in [Topics -> Nat], NEW s \in Srv, NEW l \in Cli, NEW u \in Seq(Req),
         NEW k \in Seq(Frame), Good(sv, hd, s, l, u, k),
         NEW h \in s.handlers, h.stage = "respond", \A f \in s.fwd : f.id # h.id,
         NEW g \in Forwarders, g.id = h.id, g.hold = NoFrame, g.st = "run", g.from = g.cur,
         g.cur \in 1..(hd[g.topic] + 1),
         NEW t \in Srv, t.handlers = s.handlers, t.mail = s.mail, t.writing = s.writing,
         t.link = s.link, t.fwd = s.fwd \cup {g}
  PROVE  Good(sv, hd, t, l, u, k)
<1>0. /\ IdsOK(s, l, u) /\ HandlersOK(s, hd) /\ ForwardersOK(s, hd) /\ FramesOK(hd, s, l, k)
      /\ StreamsOK(s, l, k) /\ WriterOK(s, l) /\ AnswerOK(sv, s, l, u, k)
  BY Zenon DEF Good
<1>1. IdsOK(t, l, u)
  <2>1. \A f \in t.fwd : f.id \in 1..Past(l) /\ \A i \in DOMAIN u : f.id < u[i].id
    BY <1>0, Zenon DEF IdsOK
  <2>2. \A f, f2 \in t.fwd : f.id = f2.id => f = f2
    <3>1. \A f, f2 \in s.fwd : f.id = f2.id => f = f2
      BY <1>0, Zenon DEF IdsOK
    <3>2. \A f \in s.fwd : f.id # g.id
      BY Zenon
    <3> QED
      BY <3>1, <3>2, OneMore, Zenon
  <2>3. ASSUME NEW f \in t.fwd, NEW h2 \in t.handlers, f.id = h2.id
        PROVE  h2.stage \in {"respond", "done"}
    <3>1. CASE f \in s.fwd
      BY <1>0, <2>3, <3>1, Zenon DEF IdsOK
    <3>2. CASE f = g
      <4>1. h2 \in s.handlers /\ h2.id = h.id
        BY <2>3, <3>2, Zenon
      <4>2. h2 = h
        BY <1>0, <4>1, Zenon DEF IdsOK
      <4> QED
        BY <4>2, Zenon
    <3> QED
      BY <3>1, <3>2, Zenon
  <2> QED
    BY <1>0, <2>1, <2>2, <2>3, Zenon DEF IdsOK
<1>2. HandlersOK(t, hd) /\ WriterOK(t, l) /\ AnswerOK(sv, t, l, u, k)
  BY <1>0, Zenon DEF HandlersOK, WriterOK, AnswerOK
<1>3. ForwardersOK(t, hd)
  <2>1. hd[g.topic] \in Nat /\ g.cur \in Nat
    BY Zenon DEF Forwarders
  <2>2. 1 <= g.cur /\ g.cur <= hd[g.topic] + 1
    BY <2>1
  <2>3. 1 <= g.from /\ g.from <= g.cur
    BY <2>1, <2>2, Reflexive, Zenon
  <2> QED
    BY <1>0, <2>2, <2>3, Zenon DEF ForwardersOK
<1>4. FramesOK(hd, t, l, k)
  <2>1. \A f \in s.fwd : \E f2 \in t.fwd : f2.id = f.id /\ f2.topic = f.topic
    OBVIOUS
  <2>2. l.events \in Seq(Frame) /\ s.mail \in Seq(Frame) /\ \A f \in t.fwd : f.hold \in Frame
    BY DEF Srv, Cli, Forwarders
  <2>3. AllSound(l.events, t, hd) /\ AllSound(k, t, hd) /\ AllSound(t.mail, t, hd)
    BY <1>0, <2>1, <2>2, AllSoundKept, Zenon DEF FramesOK
  <2>4. \A f \in t.fwd : Sound(f.hold, s, hd)
    BY <1>0, SoundEmpty, Zenon DEF FramesOK
  <2>5. \A f \in t.fwd : Sound(f.hold, t, hd)
    BY <2>1, <2>2, <2>4, SoundKept, Zenon
  <2> QED
    BY <1>0, <2>3, <2>5, Zenon DEF FramesOK
<1>5. StreamsOK(t, l, k)
  <2>1. SUFFICES ASSUME l.app # "gone", NEW f \in t.fwd
                 PROVE  StreamOK(f, t, l, k)
    BY DEF StreamsOK
  <2>2. CASE f \in s.fwd
    BY <1>0, <2>1, <2>2, Zenon DEF StreamsOK, StreamOK
  <2>3. CASE f = g
    <3>1. /\ g.id \in 1..MaxRequests /\ g.id \in Nat /\ g.from \in Nat
          /\ l.events \in Seq(Frame) /\ s.mail \in Seq(Frame)
      <4>1. h.id \in 1..Past(l)
        BY <1>0, Zenon DEF IdsOK
      <4>2. g.from \in Nat /\ s.mail \in Seq(Frame)
        BY DEF Forwarders, Srv
      <4> QED
        BY <4>1, <4>2, PastIn, ClientIn
    <3>2. l.seen[g.id] = 0
      BY <1>0, <3>1, Zenon DEF FramesOK
    <3>3. ASSUME NEW q \in Seq(Frame), AllSound(q, s, hd)
          PROVE  Leads(q, g.id, g.from, g.from)
      <4>1. \A i \in DOMAIN q : ~Of(q[i], g.id)
        BY <3>3 DEF AllSound, Sound, Of
      <4> QED
        BY <4>1, <3>1, LeadsNone
    <3>4. Leads(l.events, g.id, g.from, g.from) /\ Leads(k, g.id, g.from, g.from)
          /\ Leads(t.mail, g.id, g.from, g.from)
      BY <1>0, <3>1, <3>3, Zenon DEF FramesOK
    <3>5. Ends(g, g.from)
      BY <3>1 DEF Ends
    <3>6. g.from + l.seen[g.id] = g.from
      BY <3>1, <3>2
    <3> QED
      BY <2>3, <3>1, <3>4, <3>5, <3>6, Zenon DEF StreamOK
  <2> QED
    BY <2>2, <2>3
<1> QED
  BY <1>1, <1>2, <1>3, <1>4, <1>5, Zenon DEF Good

\* Respond: an answer enters the mailbox.
LEMMA AnswerKeeps ==
  ASSUME NEW sv, NEW hd \in [Topics -> Nat], NEW s \in Srv, NEW l \in Cli, NEW u \in Seq(Req),
         NEW k \in Seq(Frame), Good(sv, hd, s, l, u, k),
         NEW e \in Frame, e.kind = "response",
         NEW t \in Srv, t.handlers = s.handlers, t.fwd = s.fwd, t.writing = s.writing,
         t.link = s.link, t.mail = Append(s.mail, e)
  PROVE  Good(sv, hd, t, l, u, k)
<1>0. /\ IdsOK(s, l, u) /\ HandlersOK(s, hd) /\ ForwardersOK(s, hd) /\ FramesOK(hd, s, l, k)
      /\ StreamsOK(s, l, k) /\ WriterOK(s, l) /\ AnswerOK(sv, s, l, u, k)
  BY DEF Good
<1>1. s.mail \in Seq(Frame)
  BY DEF Srv
<1>2. IdsOK(t, l, u) /\ HandlersOK(t, hd) /\ ForwardersOK(t, hd) /\ WriterOK(t, l)
  BY <1>0, Zenon DEF IdsOK, HandlersOK, ForwardersOK, WriterOK
<1>3. FramesOK(hd, t, l, k)
  <2>1. Sound(e, s, hd)
    BY Zenon DEF Sound
  <2>2. AllSound(t.mail, s, hd)
    BY <1>0, <2>1, <1>1, SoundAppend, Zenon DEF FramesOK
  <2> QED
    BY <1>0, <2>2, SoundSame, Zenon DEF FramesOK
<1>4. StreamsOK(t, l, k)
  <2>1. SUFFICES ASSUME l.app # "gone", NEW f \in s.fwd
                 PROVE  StreamOK(f, t, l, k)
    BY DEF StreamsOK
  <2>2. PICK x \in Nat, y \in Nat, z \in Nat :
          /\ Leads(l.events, f.id, f.from + l.seen[f.id], x) /\ Leads(k, f.id, x, y)
          /\ Leads(s.mail, f.id, y, z) /\ Ends(f, z)
    BY <1>0, <2>1, Zenon DEF StreamsOK, StreamOK
  <2>3. ~Of(e, f.id) /\ f.id \in Nat
    BY DEF Of, Srv, Forwarders
  <2>4. Leads(t.mail, f.id, y, z)
    BY <2>2, <2>3, <1>1, LeadsOther
  <2> QED
    BY <2>2, <2>4 DEF StreamOK
<1>5. AnswerOK(sv, t, l, u, k)
  <2>1. \A i : Answered(s.mail, i) => Answered(t.mail, i)
    BY <1>1, AnswerAppend, Zenon
  <2> QED
    BY <1>0, <2>1, Zenon DEF AnswerOK
<1> QED
  BY <1>2, <1>3, <1>4, <1>5 DEF Good

\* A step of one forwarder f, to g: all others are as they were.
LEMMA ForwarderKeeps ==
  ASSUME NEW sv, NEW hd \in [Topics -> Nat], NEW s \in Srv, NEW l \in Cli, NEW u \in Seq(Req),
         NEW k \in Seq(Frame), Good(sv, hd, s, l, u, k),
         NEW f \in s.fwd, NEW g \in Forwarders,
         g.id = f.id, g.topic = f.topic, g.from = f.from, f.cur <= g.cur,
         g.cur <= hd[g.topic] + 1, g.hold # NoFrame => Of(g.hold, g.id) /\ g.st # "ended",
         NEW t \in Srv, t.handlers = s.handlers, t.writing = s.writing, t.link = s.link,
         t.fwd = (s.fwd \ {f}) \cup {g},
         Sound(g.hold, t, hd), AllSound(t.mail, t, hd),
         \A i \in Nat : Answered(s.mail, i) => Answered(t.mail, i),
         StreamsOK(t, l, k)
  PROVE  Good(sv, hd, t, l, u, k)
<1>0. /\ IdsOK(s, l, u) /\ HandlersOK(s, hd) /\ ForwardersOK(s, hd) /\ FramesOK(hd, s, l, k)
      /\ StreamsOK(s, l, k) /\ WriterOK(s, l) /\ AnswerOK(sv, s, l, u, k)
  BY Zenon DEF Good
<1>1. IdsOK(t, l, u)
  <2>1. \A f1 \in t.fwd : \E f2 \in s.fwd : f1.id = f2.id
    BY Zenon
  <2>2. \A f1 \in t.fwd : f1.id \in 1..Past(l) /\ \A i \in DOMAIN u : f1.id < u[i].id
    BY <1>0, <2>1, Zenon DEF IdsOK
  <2>3. \A f1, f2 \in t.fwd : f1.id = f2.id => f1 = f2
    <3>1. \A f1, f2 \in s.fwd : f1.id = f2.id => f1 = f2
      BY <1>0, Zenon DEF IdsOK
    <3>2. \A f1 \in s.fwd \ {f} : f1.id # g.id
      BY <3>1, Zenon
    <3>3. \A f1, f2 \in s.fwd \ {f} : f1.id = f2.id => f1 = f2
      BY <3>1, Zenon
    <3> QED
      BY <3>2, <3>3, OneMore, Zenon
  <2>4. ASSUME NEW f1 \in t.fwd, NEW h \in t.handlers, f1.id = h.id
        PROVE  h.stage \in {"respond", "done"}
    <3>1. PICK f2 \in s.fwd : f1.id = f2.id
      BY <2>1
    <3>2. f2.id = h.id /\ h \in s.handlers
      BY <2>4, <3>1
    <3> QED
      BY <1>0, <3>2, Zenon DEF IdsOK
  <2> QED
    BY <1>0, <2>2, <2>3, <2>4, Zenon DEF IdsOK
<1>2. HandlersOK(t, hd) /\ WriterOK(t, l)
  BY <1>0, Zenon DEF HandlersOK, WriterOK
<1>3. ForwardersOK(t, hd)
  <2>1. f.from \in Nat /\ f.cur \in Nat /\ g.cur \in Nat
    BY ForwarderIn DEF Forwarders
  <2>2. 1 <= f.from /\ f.from <= f.cur
    BY <1>0, Zenon DEF ForwardersOK
  <2>3. 1 <= g.from /\ g.from <= g.cur
    BY <2>1, <2>2, AtMost, Zenon
  <2> QED
    BY <1>0, <2>3, Zenon DEF ForwardersOK
<1>4. FramesOK(hd, t, l, k)
  <2>1. \A f1 \in s.fwd : \E f2 \in t.fwd : f2.id = f1.id /\ f2.topic = f1.topic
    BY Zenon
  <2>2. l.events \in Seq(Frame) /\ \A f1 \in s.fwd : f1.hold \in Frame
    BY DEF Srv, Cli, Forwarders
  <2>3. AllSound(l.events, t, hd) /\ AllSound(k, t, hd)
    BY <1>0, <2>1, <2>2, AllSoundKept, Zenon DEF FramesOK
  <2>4. \A f1 \in s.fwd : Sound(f1.hold, t, hd)
    BY <1>0, <2>1, <2>2, SoundKept, Zenon DEF FramesOK
  <2>5. \A i \in 1..MaxRequests : (\A f1 \in t.fwd : f1.id # i) => l.seen[i] = 0
    BY <1>0, <2>1, Zenon DEF FramesOK
  <2> QED
    BY <1>0, <2>3, <2>4, <2>5, Zenon DEF FramesOK
<1>5. AnswerOK(sv, t, l, u, k)
  <2>1. l.want.id \in Nat
    BY Zenon DEF Cli, Req
  <2> QED
    BY <1>0, <2>1, Zenon DEF AnswerOK
<1> QED
  BY <1>1, <1>2, <1>3, <1>4, <1>5, Zenon DEF Good

LEMMA EndsBefore ==
  ASSUME NEW f, NEW z \in Nat, f.cur \in Nat, f.hold.n \in Nat, Ends(f, z)
  PROVE  z <= f.cur
BY DEF Ends

\* What a receiver returns, when top events were published.
LEMMA RecvTells ==
  ASSUME NEW f \in Forwarders, NEW g \in Forwarders, NEW top \in Nat, f.cur <= top,
         \/ /\ f.cur >= top - HubCapacity + 1
            /\ g.cur = f.cur + 1 /\ g.hold = EventFrame(f.id, f.cur)
         \/ /\ f.cur < top - HubCapacity + 1 /\ g.cur = top - HubCapacity + 1
            /\ g.hold = LagFrame(f.id, f.cur, g.cur - f.cur)
  PROVE  /\ Of(g.hold, f.id) /\ g.hold # NoFrame /\ g.hold.at = f.cur
         /\ f.cur + g.hold.n = g.cur /\ f.cur <= g.cur /\ g.cur <= top + 1
         /\ g.hold.kind = "event" => g.hold.n = 1 /\ g.hold.at <= top
         /\ g.hold.kind = "lagged" => 1 <= g.hold.n /\ g.hold.at + g.hold.n + HubCapacity <= top + 1
<1>1. f.cur \in Nat /\ g.cur \in Nat /\ HubCapacity \in Nat /\ 1 <= HubCapacity
  BY IpcAssumption DEF Forwarders
<1>2. CASE g.cur = f.cur + 1 /\ g.hold = EventFrame(f.id, f.cur)
  <2>1. g.hold.kind = "event" /\ g.hold.id = f.id /\ g.hold.at = f.cur /\ g.hold.n = 1
    BY <1>2 DEF EventFrame
  <2>2. f.cur + 1 = g.cur /\ f.cur <= g.cur /\ g.cur <= top + 1
    BY <1>1, <1>2
  <2> QED
    BY <2>1, <2>2 DEF Of, NoFrame
<1>3. CASE /\ f.cur < top - HubCapacity + 1 /\ g.cur = top - HubCapacity + 1
           /\ g.hold = LagFrame(f.id, f.cur, g.cur - f.cur)
  <2>1. /\ g.hold.kind = "lagged" /\ g.hold.id = f.id /\ g.hold.at = f.cur
        /\ g.hold.n = g.cur - f.cur
    BY <1>3 DEF LagFrame
  <2>2. /\ f.cur + (g.cur - f.cur) = g.cur /\ f.cur <= g.cur /\ g.cur <= top + 1
        /\ 1 <= g.cur - f.cur /\ g.cur + HubCapacity <= top + 1
    BY <1>1, <1>3
  <2> QED
    BY <2>1, <2>2 DEF Of, NoFrame
<1> QED
  BY <1>2, <1>3

\* ForwarderRecv: the next event, or the number of those that are gone.
LEMMA RecvKeeps ==
  ASSUME NEW sv, NEW hd \in [Topics -> Nat], NEW s \in Srv, NEW l \in Cli, NEW u \in Seq(Req),
         NEW k \in Seq(Frame), Good(sv, hd, s, l, u, k),
         NEW f \in s.fwd, f.st # "ended", f.hold = NoFrame, f.cur <= hd[f.topic],
         NEW g \in Forwarders, g.id = f.id, g.topic = f.topic, g.from = f.from, g.st = f.st,
         \/ /\ f.cur >= hd[f.topic] - HubCapacity + 1
            /\ g.cur = f.cur + 1 /\ g.hold = EventFrame(f.id, f.cur)
         \/ /\ f.cur < hd[f.topic] - HubCapacity + 1 /\ g.cur = hd[f.topic] - HubCapacity + 1
            /\ g.hold = LagFrame(f.id, f.cur, g.cur - f.cur),
         NEW t \in Srv, t.handlers = s.handlers, t.writing = s.writing, t.link = s.link,
         t.mail = s.mail, t.fwd = (s.fwd \ {f}) \cup {g}
  PROVE  Good(sv, hd, t, l, u, k)
<1>0. /\ IdsOK(s, l, u) /\ HandlersOK(s, hd) /\ ForwardersOK(s, hd) /\ FramesOK(hd, s, l, k)
      /\ StreamsOK(s, l, k) /\ WriterOK(s, l) /\ AnswerOK(sv, s, l, u, k)
  BY Zenon DEF Good
<1>1. f \in Forwarders /\ hd[f.topic] \in Nat /\ l.events \in Seq(Frame) /\ s.mail \in Seq(Frame)
  BY Zenon DEF Srv, Cli, Forwarders
<1>2. /\ Of(g.hold, f.id) /\ g.hold # NoFrame /\ g.hold.at = f.cur
      /\ f.cur + g.hold.n = g.cur /\ f.cur <= g.cur /\ g.cur <= hd[f.topic] + 1
      /\ g.hold.kind = "event" => g.hold.n = 1 /\ g.hold.at <= hd[f.topic]
      /\ g.hold.kind = "lagged" =>
           1 <= g.hold.n /\ g.hold.at + g.hold.n + HubCapacity <= hd[f.topic] + 1
  BY <1>1, RecvTells, Zenon
<1>3. Of(g.hold, g.id) /\ g.cur <= hd[g.topic] + 1
  BY <1>2, Zenon
<1>4. Sound(g.hold, t, hd)
  BY <1>2, Zenon DEF Sound, Of
<1>5. AllSound(t.mail, t, hd)
  <2>1. \A f1 \in s.fwd : \E f2 \in t.fwd : f2.id = f1.id /\ f2.topic = f1.topic
    BY Zenon
  <2> QED
    BY <1>0, <2>1, <1>1, AllSoundKept, Zenon DEF FramesOK
<1>6. StreamsOK(t, l, k)
  <2>1. SUFFICES ASSUME l.app # "gone", NEW f1 \in t.fwd
                 PROVE  StreamOK(f1, t, l, k)
    BY Zenon DEF StreamsOK
  <2>2. CASE f1 \in s.fwd
    BY <1>0, <2>1, <2>2, Zenon DEF StreamsOK, StreamOK
  <2>3. CASE f1 = g
    <3>1. PICK x \in Nat, y \in Nat, z \in Nat :
            /\ Leads(l.events, f.id, f.from + l.seen[f.id], x) /\ Leads(k, f.id, x, y)
            /\ Leads(s.mail, f.id, y, z) /\ Ends(f, z)
      BY <1>0, <2>1, Zenon DEF StreamsOK, StreamOK
    <3>2. z = f.cur
      BY <3>1, Zenon DEF Ends
    <3>3. Ends(g, z)
      BY <3>2, <1>2, Zenon DEF Ends
    <3> QED
      BY <2>3, <3>1, <3>3, Zenon DEF StreamOK
  <2> QED
    BY <2>2, <2>3
<1> QED
  BY <1>2, <1>3, <1>4, <1>5, <1>6, ForwarderKeeps, Zenon

\* ForwarderSend: what it holds enters the mailbox.
LEMMA SendKeeps ==
  ASSUME NEW sv, NEW hd \in [Topics -> Nat], NEW s \in Srv, NEW l \in Cli, NEW u \in Seq(Req),
         NEW k \in Seq(Frame), Good(sv, hd, s, l, u, k),
         NEW f \in s.fwd, f.hold # NoFrame,
         NEW g \in Forwarders, g.id = f.id, g.topic = f.topic, g.from = f.from, g.st = f.st,
         g.cur = f.cur, g.hold = NoFrame,
         NEW t \in Srv, t.handlers = s.handlers, t.writing = s.writing, t.link = s.link,
         t.mail = Append(s.mail, f.hold), t.fwd = (s.fwd \ {f}) \cup {g}
  PROVE  Good(sv, hd, t, l, u, k)
<1>0. /\ IdsOK(s, l, u) /\ HandlersOK(s, hd) /\ ForwardersOK(s, hd) /\ FramesOK(hd, s, l, k)
      /\ StreamsOK(s, l, k) /\ WriterOK(s, l) /\ AnswerOK(sv, s, l, u, k)
  BY Zenon DEF Good
<1>1. /\ f.cur \in Nat /\ f.id \in Nat /\ f.hold \in Frame /\ s.mail \in Seq(Frame)
      /\ f.hold.n \in Nat /\ f.hold.at \in Nat
  BY Zenon DEF Srv, Forwarders, Frame
<1>2. Of(f.hold, f.id) /\ f.st # "ended" /\ f.cur <= hd[f.topic] + 1
  BY <1>0, Zenon DEF ForwardersOK
<1>3. Sound(f.hold, s, hd) /\ 1 <= f.hold.n
  <2>1. Sound(f.hold, s, hd)
    BY <1>0, Zenon DEF FramesOK
  <2>2. f.hold.kind \in {"event", "lagged"}
    BY <1>2 DEF Of
  <2> QED
    BY <2>1, <2>2, <1>1, SoundTells, Zenon
<1>4. \A f1 \in s.fwd : \E f2 \in t.fwd : f2.id = f1.id /\ f2.topic = f1.topic
  BY Zenon
<1>5. Sound(g.hold, t, hd)
  BY SoundEmpty, Zenon
<1>6. AllSound(t.mail, t, hd)
  <2>1. AllSound(t.mail, s, hd)
    <3>1. f.hold.kind # "none"
      BY <1>2 DEF Of
    <3>2. AllSound(s.mail, s, hd)
      BY <1>0, Zenon DEF FramesOK
    <3>3. AllSound(Append(s.mail, f.hold), s, hd)
      BY <1>1, <1>3, <3>1, <3>2, SoundAppend, Zenon
    <3> QED
      BY <3>3
  <2>2. t.mail \in Seq(Frame)
    BY DEF Srv
  <2> QED
    BY <2>1, <2>2, <1>4, AllSoundKept, Zenon
<1>7. \A i \in Nat : Answered(s.mail, i) => Answered(t.mail, i)
  BY <1>1, AnswerAppend
<1>8. StreamsOK(t, l, k)
  <2>1. SUFFICES ASSUME l.app # "gone", NEW f1 \in t.fwd
                 PROVE  StreamOK(f1, t, l, k)
    BY DEF StreamsOK
  <2>2. CASE f1 \in s.fwd /\ f1 # f
    <3>1. PICK x \in Nat, y \in Nat, z \in Nat :
            /\ Leads(l.events, f1.id, f1.from + l.seen[f1.id], x) /\ Leads(k, f1.id, x, y)
            /\ Leads(s.mail, f1.id, y, z) /\ Ends(f1, z)
      BY <1>0, <2>1, <2>2, Zenon DEF StreamsOK, StreamOK
    <3>2. f1.id # f.id /\ f1.id \in Nat
      BY <1>0, <2>2, Zenon DEF IdsOK, Srv, Forwarders
    <3>3. ~Of(f.hold, f1.id)
      BY <3>2, <1>2, Zenon DEF Of
    <3>4. Leads(Append(s.mail, f.hold), f1.id, y, z)
      BY <3>1, <3>2, <3>3, <1>1, LeadsOther, Zenon
    <3> QED
      BY <3>1, <3>4, Zenon DEF StreamOK
  <2>3. CASE f1 = g
    <3>1. PICK x \in Nat, y \in Nat, z \in Nat :
            /\ Leads(l.events, f.id, f.from + l.seen[f.id], x) /\ Leads(k, f.id, x, y)
            /\ Leads(s.mail, f.id, y, z) /\ Ends(f, z)
      BY <1>0, <2>1, Zenon DEF StreamsOK, StreamOK
    <3>2. f.hold.at = z /\ z + f.hold.n = f.cur
      BY <3>1, Zenon DEF Ends
    <3>3. Leads(Append(s.mail, f.hold), f.id, y, z + f.hold.n)
      BY <3>1, <3>2, <1>1, <1>2, <1>3, LeadsOwn, Zenon
    <3>4. Ends(g, f.cur)
      BY <1>1 DEF Ends
    <3> QED
      BY <2>3, <3>1, <3>2, <3>3, <3>4, <1>1, Zenon DEF StreamOK
  <2> QED
    BY <2>2, <2>3
<1>9. f.cur <= g.cur /\ g.cur <= hd[g.topic] + 1
  BY <1>1, <1>2, Reflexive, Zenon
<1> QED
  BY <1>5, <1>6, <1>7, <1>8, <1>9, ForwarderKeeps, Zenon

\* ForwarderEnds: what it held is dropped with it.
LEMMA EndKeeps ==
  ASSUME NEW sv, NEW hd \in [Topics -> Nat], NEW s \in Srv, NEW l \in Cli, NEW u \in Seq(Req),
         NEW k \in Seq(Frame), Good(sv, hd, s, l, u, k),
         NEW f \in s.fwd,
         NEW g \in Forwarders, g.id = f.id, g.topic = f.topic, g.from = f.from, g.st = "ended",
         g.cur = f.cur, g.hold = NoFrame,
         NEW t \in Srv, t.handlers = s.handlers, t.writing = s.writing, t.link = s.link,
         t.mail = s.mail, t.fwd = (s.fwd \ {f}) \cup {g}
  PROVE  Good(sv, hd, t, l, u, k)
<1>0. /\ IdsOK(s, l, u) /\ HandlersOK(s, hd) /\ ForwardersOK(s, hd) /\ FramesOK(hd, s, l, k)
      /\ StreamsOK(s, l, k) /\ WriterOK(s, l) /\ AnswerOK(sv, s, l, u, k)
  BY Zenon DEF Good
<1>1. f.cur \in Nat /\ f.hold \in Frame /\ s.mail \in Seq(Frame) /\ f.hold.n \in Nat
  BY Zenon DEF Srv, Forwarders, Frame
<1>2. f.cur <= hd[f.topic] + 1
  BY <1>0, Zenon DEF ForwardersOK
<1>3. \A f1 \in s.fwd : \E f2 \in t.fwd : f2.id = f1.id /\ f2.topic = f1.topic
  BY Zenon
<1>4. Sound(g.hold, t, hd)
  BY SoundEmpty, Zenon
<1>5. AllSound(t.mail, t, hd)
  BY <1>0, <1>1, <1>3, AllSoundKept, Zenon DEF FramesOK
<1>6. StreamsOK(t, l, k)
  <2>1. SUFFICES ASSUME l.app # "gone", NEW f1 \in t.fwd
                 PROVE  StreamOK(f1, t, l, k)
    BY Zenon DEF StreamsOK
  <2>2. CASE f1 \in s.fwd
    BY <1>0, <2>1, <2>2, Zenon DEF StreamsOK, StreamOK
  <2>3. CASE f1 = g
    <3>1. PICK x \in Nat, y \in Nat, z \in Nat :
            /\ Leads(l.events, f.id, f.from + l.seen[f.id], x) /\ Leads(k, f.id, x, y)
            /\ Leads(s.mail, f.id, y, z) /\ Ends(f, z)
      BY <1>0, <2>1, Zenon DEF StreamsOK, StreamOK
    <3>2. z <= f.cur
      BY <3>1, <1>1, EndsBefore, Zenon
    <3>3. Ends(g, z)
      BY <3>2, Zenon DEF Ends
    <3> QED
      BY <2>3, <3>1, <3>3, Zenon DEF StreamOK
  <2> QED
    BY <2>2, <2>3, Zenon
<1>7. f.cur <= g.cur /\ g.cur <= hd[g.topic] + 1
  BY <1>1, <1>2, Reflexive, Zenon
<1>8. \A i \in Nat : Answered(s.mail, i) => Answered(t.mail, i)
  BY Zenon
<1> QED
  BY <1>4, <1>5, <1>6, <1>7, <1>8, ForwarderKeeps, Zenon
================================================================================
