----------------------------- MODULE DraftsProofs ------------------------------
(* The safety of Drafts, for every set of clients, drafts, texts and files.  *)
EXTENDS Drafts, TLAPS

AttRecords == [draft : DraftIds, rev : Nat, file : Files]
Docs == [text : Texts \cup {Null}, files : {Null} \cup SUBSET Files]
PCs == {"idle", "insert", "clear", "attach", "undo", "commit", "delete", "read", "list", "load",
        "drop", "done"}
Operations == {"none", "create", "update", "delete", "list", "get", "send"}
Results == {"none", "ok", "err", "null"}
Req == [op : Operations, pc : PCs, d : DraftIds \cup {Null}, doc : Docs \cup {Null},
        row : Rows \cup {Null}, todo : SUBSET (Files \cup AttRecords),
        got : SUBSET (DraftIds \cup Files), calm : BOOLEAN, later : BOOLEAN,
        then : {"none", "send"}, res : Results]

TableTypes ==
  /\ scenario \in DraftScenarios /\ used \subseteq scenario.ids /\ sent \subseteq used
  /\ drafts \in [DraftIds -> Rows \cup {Null}]
  /\ halved \subseteq used
  /\ atts \subseteq AttRecords /\ \A a \in atts : a.draft \in used /\ drafts[a.draft] # Null
  /\ \A d \in DraftIds : drafts[d] # Null => d \in used
ScreenTypes ==
  /\ composer \in Composers \cup {Null} /\ pane \subseteq used /\ doomed \in used \cup {Null}
  /\ composer # Null => composer.id \in used \cup {Null}
  /\ mode \in {"compose", "discard"} => composer # Null
Types == TableTypes /\ ScreenTypes /\ req \in [Clients -> Req]

\* What was sent and deleted stays away.
SentGone == \A d \in sent : drafts[d] = Null

\* What a request is about.
RequestOK(c) ==
  /\ ~req[c].later /\ (req[c].op = "none" => req[c].pc = "idle")
  /\ req[c].d \in used \cup {Null}
  /\ req[c].op \in {"update", "delete", "get", "send"} => req[c].d \in used
  /\ req[c].op = "create" /\ (req[c].pc \in {"clear", "attach", "undo"} \/ req[c].res = "ok") =>
       req[c].d \in used
  /\ req[c].pc \in {"insert", "commit"} => req[c].doc \in Docs
  /\ req[c].pc \in {"list", "load"} => req[c].op \in {"get", "send"} /\ req[c].row \in Rows
  /\ req[c].pc \in {"read", "list"} => req[c].got = {}
  /\ req[c].op = "create" /\ req[c].pc \in {"clear", "attach"} => req[c].todo \subseteq Files
  /\ req[c].pc = "load" => req[c].todo \subseteq AttRecords /\ req[c].got \subseteq Files
  /\ req[c].op = "list" /\ req[c].res = "ok" => req[c].got \subseteq used

\* A creation in progress lacks exactly what it still has to attach, and whoever else
\* writes its draft halves it.
CreationOK(c) ==
  /\ req[c].op = "create" /\ req[c].pc \in {"clear", "attach"} =>
       \/ drafts[req[c].d] = Null \/ req[c].d \in halved
       \/ /\ FilesOf(req[c].d) \cup req[c].todo = drafts[req[c].d].files
          /\ req[c].pc = "clear" => req[c].todo = drafts[req[c].d].files
  /\ c # "tui" /\ req[c].op = "create" /\ req[c].pc \in {"clear", "attach", "undo"} =>
       drafts[req[c].d] = Null \/ drafts[req[c].d].by # "tui" \/ req[c].d \in halved

\* A row that was read is still there, or its revision is not; a calm send has the
\* attachments of its row, and the TUI's what its composer showed.
ReadingOK(c) ==
  /\ req[c].pc = "list" =>
       \/ drafts[req[c].d] = Null \/ drafts[req[c].d].rev # req[c].row.rev
       \/ drafts[req[c].d] = req[c].row
  /\ req[c].op = "send" /\ req[c].pc = "load" /\ req[c].calm =>
       /\ req[c].got \cup FilesIn(req[c].todo) = req[c].row.files
       /\ c = "tui" /\ req[c].row.by = "tui" =>
            req[c].doc = [text |-> req[c].row.text, files |-> req[c].row.files]

\* What the tables hold of a draft the TUI wrote.
Saved(d, text, files) ==
  drafts[d] # Null /\ drafts[d].by = "tui" /\ d \notin halved =>
    drafts[d].text = text /\ FilesOf(d) = files

\* What the TUI's own request says of its composer.
TuiWrites ==
  req["tui"].op \in {"create", "update"} =>
    /\ composer # Null
    /\ req["tui"].op = "create" => composer.id = Null
    /\ req["tui"].pc \in {"insert", "commit"} => req["tui"].doc = Doc
    /\ req["tui"].op = "create" /\ req["tui"].pc \in {"clear", "attach"} =>
         (drafts[req["tui"].d] # Null /\ drafts[req["tui"].d].by = "tui" /\ req["tui"].d \notin halved =>
            /\ drafts[req["tui"].d].text = composer.text
            /\ drafts[req["tui"].d].files = composer.atts)
    /\ req["tui"].pc = "done" /\ req["tui"].res = "ok" =>
         Saved(req["tui"].d, composer.text, composer.atts)
TuiReads ==
  /\ req["tui"].op = "get" /\ req["tui"].pc = "list" =>
       (drafts[req["tui"].d] # Null /\ drafts[req["tui"].d].by = "tui" =>
          drafts[req["tui"].d] = req["tui"].row)
  /\ req["tui"].op = "get" /\ req["tui"].pc = "load" =>
       Saved(req["tui"].d, req["tui"].row.text, req["tui"].got \cup FilesIn(req["tui"].todo))
  /\ req["tui"].op = "send" /\ req["tui"].pc \in {"read", "list"} =>
       composer # Null /\ composer.id = req["tui"].d /\ ~composer.dirty /\ req["tui"].doc = Doc
TuiOK == TuiWrites /\ TuiReads

\* A draft has one creator.
InCreation(r) == r.op = "create" /\ r.pc \in {"clear", "attach", "undo"}
OneCreator ==
  \A x, y \in Clients :
    InCreation(req[x]) /\ InCreation(req[y]) /\ req[x].d = req[y].d => x = y

\* The inductive invariant.
IInv ==
  /\ Types /\ OneCreator /\ SentGone /\ NoHalfDraft /\ CleanIsSaved /\ TuiOK
  /\ \A c \in Clients : RequestOK(c) /\ CreationOK(c) /\ ReadingOK(c)

USE DEF PCs, Operations, Results

-----------------------------------------------------------------------------
(* Lemmas.                                                                 *)

\* Who holds a revision.
LEMMA HeldIs ==
  ASSUME NEW d, NEW c \in Clients, req[c].pc = "list"
  PROVE  req[c].row.rev \in Held(d)
BY DEF Held

\* The attachment table: what a step on draft d does to each draft's files.
LEMMA FilesAdded ==
  ASSUME NEW d, NEW rev, NEW files, atts' = atts \cup AttRows(d, rev, files)
  PROVE  /\ FilesOf(d)' = FilesOf(d) \cup files
         /\ \A e : e # d => FilesOf(e)' = FilesOf(e)
<1>1. \A a \in AttRows(d, rev, files) : a.draft = d /\ a.file \in files
  BY DEF AttRows
<1>2. \A f \in files : \E a \in AttRows(d, rev, files) : a.file = f
  <2> TAKE f \in files
  <2>1. [draft |-> d, rev |-> rev, file |-> f] \in AttRows(d, rev, files)
    BY DEF AttRows
  <2> QED BY <2>1
<1> QED
  BY <1>1, <1>2 DEF FilesOf, FilesIn, AttsOf

LEMMA FilesReplaced ==
  ASSUME NEW d, NEW rev, NEW files, atts' = (atts \ AttsOf(d)) \cup AttRows(d, rev, files)
  PROVE  /\ FilesOf(d)' = files
         /\ \A e : e # d => FilesOf(e)' = FilesOf(e)
<1>1. \A a \in AttRows(d, rev, files) : a.draft = d /\ a.file \in files
  BY DEF AttRows
<1>2. \A f \in files : \E a \in AttRows(d, rev, files) : a.file = f
  <2> TAKE f \in files
  <2>1. [draft |-> d, rev |-> rev, file |-> f] \in AttRows(d, rev, files)
    BY DEF AttRows
  <2> QED BY <2>1
<1> QED
  BY <1>1, <1>2 DEF FilesOf, FilesIn, AttsOf

LEMMA FilesDeleted ==
  ASSUME NEW d, atts' = atts \ AttsOf(d)
  PROVE  \A e : e # d => FilesOf(e)' = FilesOf(e)
BY DEF FilesOf, FilesIn, AttsOf

LEMMA FilesSame ==
  ASSUME UNCHANGED atts
  PROVE  \A e : FilesOf(e)' = FilesOf(e)
BY DEF FilesOf, FilesIn, AttsOf

\* An attachment that is loaded goes from one side to the other.
LEMMA FileLoaded ==
  ASSUME NEW todo, NEW got, NEW a \in todo
  PROVE  (got \cup {a.file}) \cup FilesIn(todo \ {a}) = got \cup FilesIn(todo)
BY DEF FilesIn

-----------------------------------------------------------------------------
(* What a step of client c does to a draft e, as the other clients see it. *)

\* Nothing, but that it may be halved; it goes; its creator attaches its files; it
\* is written.
Untouched(e) ==
  drafts'[e] = drafts[e] /\ FilesOf(e)' = FilesOf(e) /\ (e \in halved => e \in halved')
Gone(e) == drafts'[e] = Null
Filled(c, e) ==
  /\ drafts'[e] = drafts[e] /\ (e \in halved => e \in halved')
  /\ \A x \in Clients : InCreation(req[x]) /\ req[x].d = e => x = c
  /\ c = "tui" \/ drafts[e] = Null \/ drafts[e].by # "tui" \/ e \in halved
Written(c, e) ==
  /\ drafts'[e].by = c /\ (Creating(e) => e \in halved')
  /\ \A x \in Clients : req[x].pc = "list" => drafts'[e].rev # req[x].row.rev
Effect(c, e) == Untouched(e) \/ Gone(e) \/ Filled(c, e) \/ Written(c, e)

\* What the others rely on is kept.
LEMMA OthersKeep ==
  ASSUME IInv, NEW c \in Clients, NEW x \in Clients \ {c}, req'[x] = req[x], used \subseteq used',
         \A e \in used : Effect(c, e)
  PROVE  RequestOK(x)' /\ CreationOK(x)' /\ ReadingOK(x)'
<1>1. RequestOK(x) /\ CreationOK(x) /\ ReadingOK(x)
  BY DEF IInv
<1>2. RequestOK(x)'
  BY <1>1 DEF RequestOK
<1> DEFINE r == req[x]
           e == req[x].d
<1>3. CASE r.op = "create" /\ r.pc \in {"clear", "attach", "undo"}
  <2>1. e \in used /\ Creating(e)
    BY <1>1, <1>3 DEF RequestOK, Creating
  <2>2. Effect(c, e)
    BY <2>1
  <2>3. r.pc \in {"clear", "attach"} =>
          \/ drafts'[e] = Null \/ e \in halved'
          \/ /\ FilesOf(e)' \cup r.todo = drafts'[e].files
             /\ r.pc = "clear" => r.todo = drafts'[e].files
    BY <1>1, <1>3, <2>1, <2>2 DEF CreationOK, InCreation, Effect, Untouched, Gone, Filled, Written
  <2>4. x # "tui" => drafts'[e] = Null \/ drafts'[e].by # "tui" \/ e \in halved'
    BY <1>1, <1>3, <2>1, <2>2 DEF CreationOK, InCreation, Effect, Untouched, Gone, Filled, Written
  <2>5. CreationOK(x)'
    BY <2>3, <2>4 DEF CreationOK
  <2> QED BY <1>2, <1>3, <2>5 DEF ReadingOK
<1>4. CASE r.pc = "list"
  <2>1. e \in used
    BY <1>1, <1>4 DEF RequestOK
  <2>2. drafts'[e] = Null \/ drafts'[e].rev # r.row.rev \/ drafts'[e] = r.row
    BY <1>1, <1>4, <2>1 DEF ReadingOK, Effect, Untouched, Gone, Filled, Written
  <2> QED BY <1>2, <1>4, <2>2 DEF ReadingOK, CreationOK
<1>5. CASE ~(r.op = "create" /\ r.pc \in {"clear", "attach", "undo"}) /\ r.pc # "list"
  BY <1>1, <1>2, <1>5 DEF ReadingOK, CreationOK
<1> QED
  BY <1>3, <1>4, <1>5

\* The TUI's request and its composer are kept by a step of another client.
LEMMA TuiKeeps ==
  ASSUME IInv, NEW c \in Clients, c # "tui", req'["tui"] = req["tui"], UNCHANGED composer,
         \A e \in used : Effect(c, e)
  PROVE  TuiOK' /\ CleanIsSaved'
<1> DEFINE r == req["tui"]
           e == req["tui"].d
<1>1. TuiOK /\ CleanIsSaved /\ RequestOK("tui") /\ TableTypes /\ ScreenTypes
  BY DEF IInv, Types, Clients
<1>2. Doc' = Doc
  BY DEF Doc
<1>3. TuiWrites'
  <2> SUFFICES ASSUME r.op \in {"create", "update"} PROVE TuiWrites'
    BY DEF TuiWrites
  <2>1. /\ r.op = "create" /\ r.pc \in {"clear", "attach"} =>
             (drafts'[e] # Null /\ drafts'[e].by = "tui" /\ e \notin halved' =>
                drafts'[e].text = composer.text /\ drafts'[e].files = composer.atts)
    <3> SUFFICES ASSUME r.op = "create" /\ r.pc \in {"clear", "attach"}
                 PROVE  drafts'[e] # Null /\ drafts'[e].by = "tui" /\ e \notin halved' =>
                          drafts'[e].text = composer.text /\ drafts'[e].files = composer.atts
      OBVIOUS
    <3>1. Effect(c, e)
      BY <1>1 DEF RequestOK
    <3> QED BY <1>1, <3>1 DEF TuiOK, TuiWrites, Effect, Untouched, Gone, Filled, Written
  <2>2. r.pc = "done" /\ r.res = "ok" => Saved(e, composer.text, composer.atts)'
    <3> SUFFICES ASSUME r.pc = "done" /\ r.res = "ok"
                 PROVE  Saved(e, composer.text, composer.atts)'
      OBVIOUS
    <3>1. Effect(c, e)
      BY <1>1 DEF RequestOK
    <3>2. Saved(e, composer.text, composer.atts)
      BY <1>1 DEF TuiOK, TuiWrites
    <3> QED BY <3>1, <3>2 DEF Saved, Effect, Untouched, Gone, Filled, Written
  <2> QED BY <1>1, <1>2, <2>1, <2>2 DEF TuiOK, TuiWrites
<1>4. TuiReads'
  <2>1. r.op = "get" /\ r.pc = "list" =>
          (drafts'[e] # Null /\ drafts'[e].by = "tui" => drafts'[e] = r.row)
    <3> SUFFICES ASSUME r.op = "get" /\ r.pc = "list"
                 PROVE  drafts'[e] # Null /\ drafts'[e].by = "tui" => drafts'[e] = r.row
      OBVIOUS
    <3>1. Effect(c, e)
      BY <1>1 DEF RequestOK
    <3> QED BY <1>1, <3>1 DEF TuiOK, TuiReads, Effect, Untouched, Gone, Filled, Written
  <2>2. r.op = "get" /\ r.pc = "load" => Saved(e, r.row.text, r.got \cup FilesIn(r.todo))'
    <3> SUFFICES ASSUME r.op = "get" /\ r.pc = "load"
                 PROVE  Saved(e, r.row.text, r.got \cup FilesIn(r.todo))'
      OBVIOUS
    <3>1. Effect(c, e)
      BY <1>1 DEF RequestOK
    <3>2. Saved(e, r.row.text, r.got \cup FilesIn(r.todo))
      BY <1>1 DEF TuiOK, TuiReads
    <3> QED BY <3>1, <3>2 DEF Saved, Effect, Untouched, Gone, Filled, Written
  <2> QED BY <1>1, <1>2, <2>1, <2>2 DEF TuiOK, TuiReads
<1>5. CleanIsSaved'
  <2> SUFFICES ASSUME composer # Null, ~composer.dirty, composer.id # Null
               PROVE  Saved(composer.id, composer.text, composer.atts)'
    BY DEF CleanIsSaved, Saved
  <2>1. composer.id \in used
    BY <1>1 DEF ScreenTypes
  <2>2. Saved(composer.id, composer.text, composer.atts) /\ Effect(c, composer.id)
    BY <1>1, <2>1 DEF CleanIsSaved, Saved
  <2> QED BY <2>2 DEF Saved, Effect, Untouched, Gone, Filled, Written
<1> QED
  BY <1>3, <1>4, <1>5 DEF TuiOK

\* The types of a step of one request.
LEMMA OneRequest ==
  ASSUME IInv, NEW c \in Clients, NEW r \in Req, req' = [req EXCEPT ![c] = r]
  PROVE  /\ req' \in [Clients -> Req] /\ req'[c] = r
         /\ \A x \in Clients \ {c} : req'[x] = req[x]
BY DEF IInv, Types

\* A draft has one creator still.
LEMMA SoleKept ==
  ASSUME IInv, NEW c \in Clients, NEW r \in Req, req' = [req EXCEPT ![c] = r],
         InCreation(r) => (InCreation(req[c]) /\ r.d = req[c].d) \/ r.d \notin used
  PROVE  OneCreator'
<1>1. req'[c] = r /\ \A x \in Clients \ {c} : req'[x] = req[x]
  BY OneRequest, Zenon
<1>2. \A x \in Clients : InCreation(req[x]) => req[x].d \in used
  BY DEF IInv, RequestOK, InCreation
<1>3. \A x \in Clients \ {c} : InCreation(req[x]) => ~(InCreation(r) /\ r.d = req[x].d)
  BY <1>2 DEF IInv, OneCreator
<1> SUFFICES ASSUME NEW x \in Clients, NEW y \in Clients, InCreation(req'[x]), InCreation(req'[y]),
                    req'[x].d = req'[y].d
             PROVE  x = y
  BY DEF OneCreator, InCreation
<1> QED
  BY <1>1, <1>3 DEF IInv, OneCreator

\* A step of the daemon for client c, which leaves the screen alone.
LEMMA DaemonStep ==
  ASSUME IInv, NEW c \in Clients, NEW r \in Req, req' = [req EXCEPT ![c] = r],
         UNCHANGED screen, used \subseteq used',
         InCreation(r) => (InCreation(req[c]) /\ r.d = req[c].d) \/ r.d \notin used,
         TableTypes', SentGone', NoHalfDraft', \A e \in used : Effect(c, e),
         RequestOK(c)', CreationOK(c)', ReadingOK(c)', c = "tui" => TuiOK' /\ CleanIsSaved'
  PROVE  IInv'
<1>1. /\ req' \in [Clients -> Req] /\ req'[c] = r
      /\ \A x \in Clients \ {c} : req'[x] = req[x]
  BY OneRequest, Zenon
<1>2. \A x \in Clients : RequestOK(x)' /\ CreationOK(x)' /\ ReadingOK(x)'
  <2> SUFFICES ASSUME NEW x \in Clients PROVE RequestOK(x)' /\ CreationOK(x)' /\ ReadingOK(x)'
    OBVIOUS
  <2>1. CASE x = c
    BY <2>1
  <2>2. CASE x # c
    BY <1>1, <2>2, OthersKeep
  <2> QED BY <2>1, <2>2
<1>3. TuiOK' /\ CleanIsSaved'
  <2>1. CASE c # "tui"
    <3>1. req'["tui"] = req["tui"] /\ UNCHANGED composer
      BY <1>1, <2>1 DEF Clients, screen
    <3> QED BY <2>1, <3>1, TuiKeeps
  <2> QED BY <2>1
<1>4. ScreenTypes'
  BY DEF IInv, Types, ScreenTypes, screen
<1> QED
  BY <1>1, <1>2, <1>3, <1>4, SoleKept DEF IInv, Types

-----------------------------------------------------------------------------
(* Requests that start and end.                                            *)

\* No request.
LEMMA NoReqType ==
  /\ NoReq \in Req /\ NoReq.op = "none" /\ NoReq.pc = "idle" /\ NoReq.d = Null /\ ~NoReq.later
  /\ NoReq.got = {} /\ NoReq.res = "none"
<1>1. NoReq \in Req
  BY DEF NoReq, Request, Req
<1> QED
  BY <1>1 DEF NoReq, Request

\* What an answer leaves.
LEMMA DoneOK ==
  ASSUME IInv, NEW c \in Clients, NEW res \in Results, Done(c, res), req[c].op # "none",
         UNCHANGED <<used, composer>>,
         req[c].op = "create" /\ res = "ok" => req[c].d \in used, NEW e, e = req[c].d
  PROVE  \E r \in Req :
           /\ req' = [req EXCEPT ![c] = r] /\ r.pc \in {"idle", "done"}
           /\ RequestOK(c)' /\ CreationOK(c)' /\ ReadingOK(c)'
           /\ c = "tui" =>
                ((req[c].op \in {"create", "update"} /\ res = "ok" =>
                    Saved(e, composer.text, composer.atts)') => TuiOK')
<1> DEFINE q == req[c]
           s == Request(q.op, "done", q.d, Null, q.then, res)
           r == IF c # "tui" THEN NoReq ELSE s
<1>1. q \in Req /\ RequestOK(c) /\ TuiOK
  BY DEF IInv, Types
<1>2. q.op \in Operations /\ q.d \in DraftIds \cup {Null} /\ q.then \in {"none", "send"}
  BY <1>1 DEF Req
<1>3. /\ s \in Req /\ s.op = q.op /\ s.pc = "done" /\ s.d = q.d /\ s.res = res /\ s.got = {}
      /\ ~s.later
  <2>1. s \in Req
    BY <1>2 DEF Request, Req
  <2> QED BY <2>1 DEF Request
<1>4. req' = [req EXCEPT ![c] = r]
  BY DEF Done
<1> HIDE DEF s
<1>5. r \in Req /\ r.pc \in {"idle", "done"} /\ ~r.later /\ r.got = {}
  BY <1>3, NoReqType
<1>6. c = "tui" => r.op = q.op /\ r.pc = "done" /\ r.d = q.d /\ r.res = res
  BY <1>3
<1>7. c # "tui" => r.op = "none" /\ r.d = Null
  BY NoReqType
<1> HIDE DEF r
<1>8. req'[c] = r
  BY <1>4, <1>5, OneRequest, Zenon
<1>9. RequestOK(c)' /\ CreationOK(c)' /\ ReadingOK(c)'
  <2>1. r.op = "none" => r.pc = "idle"
    BY <1>3, NoReqType DEF r
  <2> QED BY <1>1, <1>5, <1>6, <1>7, <1>8, <2>1 DEF RequestOK, CreationOK, ReadingOK
<1>10. ASSUME c = "tui",
              q.op \in {"create", "update"} /\ res = "ok" => Saved(e, composer.text, composer.atts)'
       PROVE  TuiOK'
  <2>1. TuiReads'
    BY <1>6, <1>8, <1>10 DEF TuiReads
  <2>2. q.op \in {"create", "update"} => composer # Null /\ (q.op = "create" => composer.id = Null)
    BY <1>1, <1>10 DEF TuiOK, TuiWrites
  <2>3. TuiWrites'
    BY <1>6, <1>8, <1>10, <2>2 DEF TuiWrites, Saved
  <2> QED BY <2>1, <2>3 DEF TuiOK
<1> QED
  BY <1>4, <1>5, <1>9, <1>10, Zenon

\* A step of the daemon that reads only.
LEMMA QuietDaemon ==
  ASSUME IInv, NEW c \in Clients, NEW r \in Req, req' = [req EXCEPT ![c] = r],
         UNCHANGED <<table, screen, sent, halved, scenario>>,
         req[c].op = "create" /\ req[c].pc \in {"clear", "attach", "undo"} =>
           \/ r.op = "create" /\ r.pc \in {"clear", "attach", "undo"} /\ r.d = req[c].d
           \/ drafts[req[c].d] = Null \/ req[c].d \in halved
           \/ FilesOf(req[c].d) = drafts[req[c].d].files,
         InCreation(r) => InCreation(req[c]) /\ r.d = req[c].d,
         RequestOK(c)', CreationOK(c)', ReadingOK(c)', c = "tui" => TuiOK'
  PROVE  IInv'
<1>1. /\ req' \in [Clients -> Req] /\ req'[c] = r
      /\ \A x \in Clients \ {c} : req'[x] = req[x]
  BY OneRequest, Zenon
<1>2. /\ UNCHANGED <<drafts, atts, used, composer, mode, pane, doomed, sent, halved, scenario>>
      /\ \A e : FilesOf(e)' = FilesOf(e)
  BY FilesSame DEF table, screen
<1>3. TableTypes' /\ SentGone' /\ UNCHANGED screen
  BY <1>2, Zenon DEF IInv, Types, TableTypes, SentGone, screen
<1>4. \A e \in used : Effect(c, e)
  BY <1>2, Zenon DEF Effect, Untouched
<1>5. CleanIsSaved'
  <2> SUFFICES ASSUME composer # Null, ~composer.dirty, composer.id # Null
               PROVE  Saved(composer.id, composer.text, composer.atts)'
    BY <1>2 DEF CleanIsSaved, Saved
  <2>1. Saved(composer.id, composer.text, composer.atts)
    BY DEF IInv, CleanIsSaved, Saved
  <2> QED BY <1>2, <2>1 DEF Saved
<1>6. NoHalfDraft'
  <2> SUFFICES ASSUME NEW e \in used, drafts[e] # Null, FilesOf(e) # drafts[e].files, e \notin halved
               PROVE  Creating(e)'
    BY <1>2 DEF NoHalfDraft
  <2>1. PICK x \in Clients : req[x].op = "create" /\ req[x].pc \in {"clear", "attach", "undo"} /\ req[x].d = e
    BY DEF IInv, NoHalfDraft, Creating
  <2>2. req'[x].op = "create" /\ req'[x].pc \in {"clear", "attach", "undo"} /\ req'[x].d = e
    BY <1>1, <2>1
  <2> QED BY <2>2 DEF Creating
<1> QED
  BY <1>2, <1>3, <1>4, <1>5, <1>6, DaemonStep, Zenon

\* An answer that changes no table.
LEMMA DoneKeeps ==
  ASSUME IInv, NEW c \in Clients, NEW res \in Results, Done(c, res), req[c].op # "none",
         UNCHANGED <<table, screen, sent, halved, scenario>>,
         req[c].op = "create" /\ res = "ok" => req[c].d \in used,
         req[c].op = "create" /\ req[c].pc \in {"clear", "attach", "undo"} =>
           \/ drafts[req[c].d] = Null \/ req[c].d \in halved
           \/ FilesOf(req[c].d) = drafts[req[c].d].files,
         c = "tui" /\ req[c].op \in {"create", "update"} /\ res = "ok" =>
           Saved(req[c].d, composer.text, composer.atts)
  PROVE  IInv'
<1>1. UNCHANGED <<drafts, atts, used, composer, halved>> /\ \A e : FilesOf(e)' = FilesOf(e)
  BY FilesSame DEF table, screen
<1> PICK e : e = req[c].d
  OBVIOUS
<1>2. PICK r \in Req :
        /\ req' = [req EXCEPT ![c] = r] /\ r.pc \in {"idle", "done"}
        /\ RequestOK(c)' /\ CreationOK(c)' /\ ReadingOK(c)'
        /\ c = "tui" =>
             ((req[c].op \in {"create", "update"} /\ res = "ok" =>
                 Saved(e, composer.text, composer.atts)') => TuiOK')
  BY <1>1, DoneOK
<1>3. c = "tui" => TuiOK'
  <2>1. c = "tui" /\ req[c].op \in {"create", "update"} /\ res = "ok" =>
          Saved(e, composer.text, composer.atts)'
    BY <1>1 DEF Saved
  <2> QED BY <1>2, <2>1
<1> QED
  BY <1>2, <1>3, QuietDaemon, Zenon DEF InCreation

-----------------------------------------------------------------------------
(* The steps of the daemon that only read.                                 *)

LEMMA FailuresKeep ==
  ASSUME IInv, NEW c \in Clients, Unreadable(c) \/ SqlError(c) \/ Refuse(c)
  PROVE  IInv'
<1>1. /\ Done(c, "err") /\ UNCHANGED <<table, screen, sent, halved, scenario>>
      /\ req[c].pc \notin {"clear", "attach", "undo", "idle"}
  BY DEF Unreadable, SqlError, Refuse, At
<1>2. req[c].op # "none"
  BY <1>1 DEF IInv, RequestOK
<1> QED
  BY <1>1, <1>2, DoneKeeps

\* draft.list, and the row that draft.get and message.send read.
LEMMA ReadsKeep ==
  ASSUME IInv, NEW c \in Clients, DraftList(c) \/ ReadDraft(c) \/ ReadForSend(c)
  PROVE  IInv'
<1> DEFINE q == req[c]
           d == req[c].d
<1>1. /\ q \in Req /\ RequestOK(c) /\ q.pc = "read" /\ q.got = {}
      /\ UNCHANGED <<table, screen, sent, halved, scenario>>
  BY DEF IInv, Types, DraftList, ReadDraft, ReadForSend, At, RequestOK
<1>2. /\ UNCHANGED <<drafts, atts, used, composer, sent, halved>>
      /\ \A e : FilesOf(e)' = FilesOf(e)
  BY <1>1, FilesSame DEF table, screen
<1>3. TableTypes /\ SentGone /\ TuiOK
  BY DEF IInv, Types
<1>4. ASSUME DraftList(c) PROVE IInv'
  <2> DEFINE got == {e \in DraftIds : drafts[e] # Null}
             r == [q EXCEPT !.got = got, !.pc = "done", !.res = "ok"]
  <2>1. req' = [req EXCEPT ![c] = r] /\ q.op = "list"
    BY <1>4 DEF DraftList, At
  <2>2. got \subseteq used /\ got \in SUBSET (DraftIds \cup Files)
    BY <1>3 DEF TableTypes
  <2> HIDE DEF got
  <2>3. r \in Req
    BY <1>1, <2>2, Zenon DEF Req
  <2>4. r.op = q.op /\ r.pc = "done" /\ r.d = q.d /\ r.got = got /\ r.later = q.later
    BY <1>1 DEF Req
  <2> HIDE DEF r
  <2>5. req'[c] = r
    BY <2>1, <2>3, OneRequest, Zenon
  <2>6. RequestOK(c)' /\ CreationOK(c)' /\ ReadingOK(c)'
    BY <1>1, <1>2, <2>1, <2>2, <2>4, <2>5 DEF RequestOK, CreationOK, ReadingOK
  <2>7. c = "tui" => TuiOK'
    BY <2>1, <2>4, <2>5 DEF TuiOK, TuiWrites, TuiReads
  <2> QED BY <1>1, <2>1, <2>3, <2>4, <2>6, <2>7, QuietDaemon, Zenon DEF InCreation
<1>5. ASSUME Done(c, "null") \/ Done(c, "err") PROVE IInv'
  <2>1. q.op # "none"
    BY <1>1 DEF RequestOK
  <2> QED BY <1>1, <1>5, <2>1, DoneKeeps
<1>6. ASSUME NEW b \in BOOLEAN, drafts[d] # Null, q.op \in {"get", "send"}, b => d \in sent,
             req' = [req EXCEPT ![c] = [q EXCEPT !.row = drafts[d], !.pc = "list", !.later = b]]
      PROVE  IInv'
  <2> DEFINE row == drafts[d]
             r == [q EXCEPT !.row = row, !.pc = "list", !.later = b]
  <2>1. d \in used /\ d \in DraftIds /\ row \in Rows /\ b = FALSE
    BY <1>1, <1>3, <1>6, DraftsAssumption DEF RequestOK, TableTypes, SentGone
  <2> HIDE DEF row
  <2>2. r \in Req
    BY <1>1, <2>1, Zenon DEF Req
  <2>3. /\ r.op = q.op /\ r.pc = "list" /\ r.d = q.d /\ r.row = row /\ ~r.later /\ r.got = {}
        /\ r.doc = q.doc
    BY <1>1, <2>1 DEF Req
  <2>4. req' = [req EXCEPT ![c] = r]
    BY <1>6 DEF row
  <2> HIDE DEF r
  <2>5. req'[c] = r
    BY <2>2, <2>4, OneRequest, Zenon
  <2>6. RequestOK(c)' /\ CreationOK(c)'
    <3>1. r.op \in {"get", "send"} /\ r.d \in used /\ r.row \in Rows
      BY <1>6, <2>1, <2>3
    <3>2. RequestOK(c)'
      BY <1>2, <2>3, <2>5, <3>1 DEF RequestOK
    <3> QED BY <2>3, <2>5, <3>1, <3>2 DEF CreationOK
  <2>7. ReadingOK(c)'
    BY <1>2, <2>3, <2>5 DEF ReadingOK, row
  <2>8. c = "tui" => TuiOK'
    <3> SUFFICES ASSUME c = "tui" PROVE TuiOK'
      OBVIOUS
    <3>1. Doc' = Doc
      BY <1>2 DEF Doc
    <3>2. TuiWrites'
      BY <1>6, <2>3, <2>5 DEF TuiWrites
    <3>3. q.op = "send" => composer # Null /\ composer.id = d /\ ~composer.dirty /\ q.doc = Doc
      BY <1>1, <1>3 DEF TuiOK, TuiReads
    <3>4. TuiReads'
      BY <1>2, <2>3, <2>5, <3>1, <3>3 DEF TuiReads, row
    <3> QED BY <3>2, <3>4 DEF TuiOK
  <2> QED BY <1>1, <1>6, <2>1, <2>2, <2>3, <2>4, <2>6, <2>7, <2>8, QuietDaemon, Zenon DEF row, InCreation
<1>7. ASSUME ReadDraft(c) PROVE IInv'
  <2>1. q.op = "get" /\ q.later = FALSE
    BY <1>1, <1>7 DEF ReadDraft, At, RequestOK, Req
  <2>2. [q EXCEPT !.row = drafts[d], !.pc = "list"]
          = [q EXCEPT !.row = drafts[d], !.pc = "list", !.later = FALSE]
    BY <1>1, <2>1, Zenon DEF Req
  <2> QED BY <1>5, <1>6, <1>7, <2>1, <2>2, Zenon DEF ReadDraft
<1>8. ASSUME ReadForSend(c) PROVE IInv'
  <2>1. q.op = "send"
    BY <1>8 DEF ReadForSend, At
  <2>2. (d \in sent) \in BOOLEAN
    OBVIOUS
  <2> QED BY <1>5, <1>6, <1>8, <2>1, <2>2, Zenon DEF ReadForSend
<1> QED
  BY <1>4, <1>7, <1>8

\* The attachments that draft.get and message.send list.
LEMMA ListKeeps ==
  ASSUME IInv, NEW c \in Clients, ListAttachments(c)
  PROVE  IInv'
<1> PICK d : d = req[c].d
  OBVIOUS
<1> DEFINE q == req[c]
           calm == drafts[d] # Null /\ drafts[d].rev = q.row.rev /\ ~Creating(d) /\ d \notin halved
           row == [q.row EXCEPT !.rev = 0]
           todo == AttsOf(d)
           r == [q EXCEPT !.todo = todo, !.pc = "load", !.calm = calm, !.row = row]
<1>1. /\ q \in Req /\ RequestOK(c) /\ ReadingOK(c) /\ TuiOK /\ TableTypes /\ NoHalfDraft
      /\ CleanIsSaved /\ q.pc = "list" /\ q.op \in {"get", "send"}
      /\ UNCHANGED <<table, screen, sent, halved, scenario>>
  BY DEF IInv, Types, ListAttachments, At
<1>2. /\ UNCHANGED <<drafts, atts, used, composer, halved>> /\ \A e : FilesOf(e)' = FilesOf(e)
  BY <1>1, FilesSame DEF table, screen
<1>3. /\ d \in used /\ q.got = {} /\ q.row \in Rows /\ ~q.later
      /\ drafts[d] = Null \/ drafts[d].rev # q.row.rev \/ drafts[d] = q.row
  BY <1>1 DEF RequestOK, ReadingOK
<1>4. row \in Rows /\ row.text = q.row.text /\ row.files = q.row.files /\ row.by = q.row.by
  BY <1>3 DEF Rows
<1>5. todo \subseteq atts /\ todo \subseteq AttRecords /\ FilesIn(todo) = FilesOf(d)
  BY <1>1 DEF AttsOf, TableTypes, FilesOf
<1>6. req' = [req EXCEPT ![c] = r]
  BY DEF ListAttachments
<1> HIDE DEF calm, row, todo
<1>7. calm \in BOOLEAN
  BY DEF calm
<1>8. r \in Req
  BY <1>1, <1>4, <1>5, <1>7, Zenon DEF Req
<1>9. /\ r.op = q.op /\ r.pc = "load" /\ r.d = d /\ r.doc = q.doc /\ r.row = row
      /\ r.todo = todo /\ r.got = {} /\ ~r.later
  BY <1>1, <1>3 DEF Req
<1>10. r.calm = calm
  BY <1>1, <1>7 DEF Req
<1> HIDE DEF r
<1>11. req'[c] = r
  BY <1>6, <1>8, OneRequest, Zenon
<1>12. RequestOK(c)' /\ CreationOK(c)'
  <2>1. r.op \in {"get", "send"} /\ r.d \in used /\ r.row \in Rows /\ r.todo \subseteq AttRecords
    BY <1>1, <1>3, <1>4, <1>5, <1>9
  <2>2. RequestOK(c)'
    BY <1>2, <1>9, <1>11, <2>1 DEF RequestOK
  <2> QED BY <1>9, <1>11, <2>1, <2>2 DEF CreationOK
<1>13. ReadingOK(c)'
  <2>1. ASSUME calm PROVE drafts[d] = q.row /\ FilesOf(d) = q.row.files
    <3>1. drafts[d] # Null /\ drafts[d].rev = q.row.rev /\ ~Creating(d) /\ d \notin halved
      BY <2>1 DEF calm
    <3> QED BY <1>1, <1>3, <3>1 DEF NoHalfDraft
  <2>2. ASSUME calm, c = "tui", q.op = "send", row.by = "tui"
        PROVE  q.doc = [text |-> row.text, files |-> row.files]
    <3>1. composer # Null /\ composer.id = d /\ ~composer.dirty /\ q.doc = Doc
      BY <1>1, <2>2 DEF TuiOK, TuiReads
    <3>2. drafts[d] # Null /\ drafts[d].by = "tui" /\ d \notin halved /\ d # Null
      BY <1>1, <1>3, <1>4, <2>1, <2>2, DraftsAssumption DEF calm, TableTypes
    <3>3. drafts[d].text = composer.text /\ FilesOf(d) = composer.atts
      BY <1>1, <3>1, <3>2 DEF CleanIsSaved
    <3> QED BY <1>4, <2>1, <2>2, <3>1, <3>3 DEF Doc
  <2>3. r.op = "send" /\ r.calm =>
          /\ r.got \cup FilesIn(r.todo) = r.row.files
          /\ c = "tui" /\ r.row.by = "tui" =>
               r.doc = [text |-> r.row.text, files |-> r.row.files]
    BY <1>4, <1>5, <1>9, <1>10, <2>1, <2>2
  <2> QED BY <1>9, <1>11, <2>3 DEF ReadingOK
<1>14. c = "tui" => TuiOK'
  <2> SUFFICES ASSUME c = "tui" PROVE TuiOK'
    OBVIOUS
  <2>1. TuiWrites'
    BY <1>1, <1>9, <1>11 DEF TuiWrites
  <2>2. q.op = "get" => Saved(d, row.text, {} \cup FilesIn(todo))
    BY <1>1, <1>4, <1>5 DEF TuiOK, TuiReads, Saved
  <2>3. r.op = "get" =>
          (drafts[d] # Null /\ drafts[d].by = "tui" /\ d \notin halved =>
             drafts[d].text = r.row.text /\ FilesOf(d) = r.got \cup FilesIn(r.todo))
    BY <1>9, <2>2 DEF Saved
  <2>4. TuiReads'
    BY <1>2, <1>9, <1>11, <2>3 DEF TuiReads, Saved
  <2> QED BY <2>1, <2>4 DEF TuiOK
<1> QED
  BY <1>1, <1>5, <1>6, <1>8, <1>9, <1>12, <1>13, <1>14, QuietDaemon, Zenon DEF InCreation

\* One attachment is loaded; the message is submitted.
LEMMA LoadKeeps ==
  ASSUME IInv, NEW c \in Clients, LoadAttachment(c) \/ Submit(c)
  PROVE  IInv'
<1> PICK d : d = req[c].d
  OBVIOUS
<1> DEFINE q == req[c]
<1>1. /\ q \in Req /\ RequestOK(c) /\ ReadingOK(c) /\ TuiOK /\ TableTypes
      /\ q.pc = "load" /\ q.op \in {"get", "send"}
      /\ UNCHANGED <<table, screen, sent, halved, scenario>>
  BY Zenon DEF IInv, Types, LoadAttachment, Submit, Ready, At
<1>2. /\ UNCHANGED <<drafts, atts, used, composer, halved>> /\ \A e : FilesOf(e)' = FilesOf(e)
  BY <1>1, FilesSame, Zenon DEF table, screen
<1>3. CASE Done(c, "err")
  BY <1>1, <1>3, DoneKeeps, Zenon
<1>4. ASSUME NEW a \in q.todo,
             req' = [req EXCEPT ![c] = [q EXCEPT !.todo = @ \ {a}, !.got = @ \cup {a.file}]]
      PROVE  IInv'
  <2> DEFINE todo == q.todo \ {a}
             got == q.got \cup {a.file}
             r == [q EXCEPT !.todo = @ \ {a}, !.got = @ \cup {a.file}]
  <2>1. req' = [req EXCEPT ![c] = r]
    BY <1>4, Zenon
  <2>2. /\ q.todo \subseteq AttRecords /\ q.got \subseteq Files /\ d \in used /\ q.row \in Rows
        /\ ~q.later
    BY <1>1 DEF RequestOK
  <2>3. todo \subseteq q.todo /\ todo \subseteq AttRecords /\ got \subseteq Files
    BY <1>4, <2>2 DEF AttRecords
  <2>4. got \cup FilesIn(todo) = q.got \cup FilesIn(q.todo)
    BY <1>4, FileLoaded, Zenon
  <2>5. r \in Req
    BY <1>1, <2>3, Zenon DEF Req
  <2>6. /\ r.op = q.op /\ r.pc = "load" /\ r.d = d /\ r.doc = q.doc /\ r.row = q.row
        /\ r.todo = todo /\ r.got = got /\ ~r.later
    BY <1>1, <2>2 DEF Req
  <2> HIDE DEF todo, got
  <2>7. r.calm = q.calm
    BY <1>1 DEF Req
  <2> HIDE DEF r
  <2>8. req'[c] = r
    BY <2>1, <2>5, OneRequest, Zenon
  <2>9. RequestOK(c)' /\ CreationOK(c)'
    <3>1. r.op \in {"get", "send"} /\ r.d \in used /\ r.row \in Rows
          /\ r.todo \subseteq AttRecords /\ r.got \subseteq Files
      BY <1>1, <2>2, <2>3, <2>6
    <3>2. RequestOK(c)'
      BY <1>2, <2>6, <2>8, <3>1 DEF RequestOK
    <3> QED BY <2>6, <2>8, <3>1, <3>2 DEF CreationOK
  <2>10. ReadingOK(c)'
    <3>1. r.op = "send" /\ r.calm =>
            /\ r.got \cup FilesIn(r.todo) = r.row.files
            /\ c = "tui" /\ r.row.by = "tui" =>
                 r.doc = [text |-> r.row.text, files |-> r.row.files]
      BY <1>1, <2>4, <2>6, <2>7, Zenon DEF ReadingOK
    <3> QED BY <2>6, <2>8, <3>1, Zenon DEF ReadingOK
  <2>11. c = "tui" => TuiOK'
    <3> SUFFICES ASSUME c = "tui" PROVE TuiOK'
      OBVIOUS
    <3>1. TuiWrites'
      BY <1>1, <2>6, <2>8 DEF TuiWrites
    <3>2. r.op = "get" =>
            (drafts[d] # Null /\ drafts[d].by = "tui" /\ d \notin halved =>
               drafts[d].text = r.row.text /\ FilesOf(d) = r.got \cup FilesIn(r.todo))
      BY <1>1, <2>4, <2>6, Zenon DEF TuiOK, TuiReads, Saved
    <3>3. TuiReads'
      BY <1>2, <2>6, <2>8, <3>2 DEF TuiReads, Saved
    <3> QED BY <3>1, <3>3 DEF TuiOK
  <2> QED BY <1>1, <2>1, <2>3, <2>5, <2>6, <2>9, <2>10, <2>11, QuietDaemon, Zenon DEF InCreation
<1>5. CASE q.op = "send" /\ Start(c, "send", "drop", q.d, Null, "none")
  <2> DEFINE r == Request("send", "drop", q.d, Null, "none", "none")
  <2>1. d \in used /\ d \in DraftIds \cup {Null}
    BY <1>1, <1>5 DEF RequestOK, Req
  <2>2. r \in Req
    BY <2>1, Zenon DEF Request, Req
  <2>3. r.op = "send" /\ r.pc = "drop" /\ r.d = d /\ ~r.later
    BY DEF Request
  <2>4. req' = [req EXCEPT ![c] = r]
    BY <1>5 DEF Start
  <2> HIDE DEF r
  <2>5. req'[c] = r
    BY <2>2, <2>4, OneRequest, Zenon
  <2>6. RequestOK(c)' /\ CreationOK(c)' /\ ReadingOK(c)'
    BY <1>2, <2>1, <2>3, <2>5, Zenon DEF RequestOK, CreationOK, ReadingOK
  <2>7. c = "tui" => TuiOK'
    BY <2>3, <2>5, Zenon DEF TuiOK, TuiWrites, TuiReads
  <2> QED BY <1>1, <2>2, <2>3, <2>4, <2>6, <2>7, QuietDaemon, Zenon DEF InCreation
<1> QED
  BY <1>3, <1>4, <1>5, Zenon DEF LoadAttachment, Submit, Ready, At

-----------------------------------------------------------------------------
(* The daemon's steps on the tables.                                       *)

\* A step of a creation, which may change the files of its own draft.
LEMMA CreatorStep ==
  ASSUME IInv, NEW c \in Clients, NEW d, d = req[c].d, req[c].op = "create",
         req[c].pc \in {"clear", "attach"},
         NEW r \in Req, req' = [req EXCEPT ![c] = r],
         r.op = "create", r.pc \in {"attach", "undo"}, r.d = d, ~r.later, r.todo \subseteq Files,
         UNCHANGED <<drafts, used, screen, sent, halved, scenario>>,
         \A a \in atts' : a \in AttRecords /\ a.draft \in used /\ drafts[a.draft] # Null,
         \A e : e # d => FilesOf(e)' = FilesOf(e),
         r.pc = "attach" =>
           drafts[d] = Null \/ d \in halved \/ FilesOf(d)' \cup r.todo = drafts[d].files
  PROVE  IInv'
<1> DEFINE q == req[c]
<1>1. /\ RequestOK(c) /\ CreationOK(c) /\ TuiOK /\ TableTypes /\ NoHalfDraft /\ SentGone /\ OneCreator
      /\ UNCHANGED composer /\ InCreation(q) /\ InCreation(r)
  BY DEF IInv, Types, screen, InCreation
<1>2. d \in used /\ (c # "tui" => drafts[d] = Null \/ drafts[d].by # "tui" \/ d \in halved)
  BY <1>1 DEF RequestOK, CreationOK
<1>3. c = "tui" =>
        /\ composer # Null /\ composer.id = Null
        /\ drafts[d] # Null /\ drafts[d].by = "tui" /\ d \notin halved =>
             drafts[d].text = composer.text /\ drafts[d].files = composer.atts
  BY <1>1, Zenon DEF TuiOK, TuiWrites
<1>4. req'[c] = r /\ \A x \in Clients \ {c} : req'[x] = req[x]
  BY OneRequest, Zenon
<1>5. TableTypes' /\ SentGone'
  <2>1. TableTypes'
    BY <1>1 DEF TableTypes
  <2> QED BY <1>1, <2>1 DEF SentGone
<1>6. NoHalfDraft'
  <2> SUFFICES ASSUME NEW e \in used, drafts[e] # Null, FilesOf(e)' # drafts[e].files, e \notin halved
               PROVE  Creating(e)'
    BY DEF NoHalfDraft
  <2>1. CASE e = d
    BY <1>4, <2>1 DEF Creating
  <2>2. CASE e # d
    <3>1. PICK x \in Clients : InCreation(req[x]) /\ req[x].d = e
      BY <1>1, <2>2 DEF NoHalfDraft, Creating, InCreation
    <3>2. req'[x] = req[x]
      BY <1>4, <2>2, <3>1
    <3> QED BY <3>1, <3>2 DEF Creating, InCreation
  <2> QED BY <2>1, <2>2
<1>7. \A e \in used : Effect(c, e)
  <2> SUFFICES ASSUME NEW e \in used PROVE Effect(c, e)
    OBVIOUS
  <2>1. CASE e = d
    <3>1. \A x \in Clients : InCreation(req[x]) /\ req[x].d = e => x = c
      BY <1>1, <2>1 DEF OneCreator
    <3> QED BY <1>2, <2>1, <3>1 DEF Effect, Filled
  <2>2. CASE e # d
    BY <2>2 DEF Effect, Untouched
  <2> QED BY <2>1, <2>2
<1>8. RequestOK(c)' /\ CreationOK(c)' /\ ReadingOK(c)'
  <2>1. RequestOK(c)' /\ ReadingOK(c)'
    <3>1. /\ r.pc \notin {"insert", "commit", "read", "list", "load"} /\ r.d \in used /\ used' = used
          /\ r.op = "create"
      BY <1>2
    <3>2. RequestOK(c)'
      BY <1>4, <3>1 DEF RequestOK
    <3> QED BY <1>4, <3>1, <3>2 DEF ReadingOK
  <2> QED BY <1>2, <1>4, <2>1 DEF CreationOK
<1>9. c = "tui" => TuiOK' /\ CleanIsSaved'
  <2> SUFFICES ASSUME c = "tui" PROVE TuiOK' /\ CleanIsSaved'
    OBVIOUS
  <2>1. TuiWrites'
    BY <1>1, <1>3, <1>4 DEF TuiWrites
  <2>2. TuiReads'
    BY <1>4 DEF TuiReads
  <2> QED BY <1>1, <1>3, <2>1, <2>2 DEF TuiOK, CleanIsSaved
<1>10. UNCHANGED screen /\ used \subseteq used' /\ r.d = q.d
  OBVIOUS
<1> QED
  BY <1>1, <1>5, <1>6, <1>7, <1>8, <1>9, <1>10, DaemonStep, Zenon

\* What a creation in progress knows.
LEMMA CreatorKnows ==
  ASSUME IInv, NEW c \in Clients, NEW d, d = req[c].d, req[c].op = "create",
         req[c].pc \in {"clear", "attach"}
  PROVE  /\ d \in used /\ req[c].todo \subseteq Files /\ ~req[c].later
         /\ \A a \in atts : a \in AttRecords /\ a.draft \in used /\ drafts[a.draft] # Null
         /\ \/ drafts[d] = Null \/ d \in halved
            \/ /\ FilesOf(d) \cup req[c].todo = drafts[d].files
               /\ req[c].pc = "clear" => req[c].todo = drafts[d].files
BY DEF IInv, Types, TableTypes, RequestOK, CreationOK

\* A creation that fails goes on to its rollback.
LEMMA CreationFails ==
  ASSUME IInv, NEW c \in Clients, req[c].op = "create", req[c].pc \in {"clear", "attach"},
         Step(c, "undo"), UNCHANGED <<drafts, atts, used, screen, sent, halved, scenario>>
  PROVE  IInv'
<1> PICK d : d = req[c].d
  OBVIOUS
<1> DEFINE q == req[c]
           r == [q EXCEPT !.pc = "undo"]
<1>1. q \in Req
  BY DEF IInv, Types
<1>2. req' = [req EXCEPT ![c] = r]
  BY DEF Step
<1>3. r \in Req
  BY <1>1 DEF Req
<1>4. r.op = "create" /\ r.pc = "undo" /\ r.d = d /\ ~r.later /\ r.todo \subseteq Files
  BY <1>1, CreatorKnows DEF Req
<1> HIDE DEF r
<1> QED
  <2>1. /\ \A a \in atts' : a \in AttRecords /\ a.draft \in used /\ drafts[a.draft] # Null
        /\ \A e : e # d => FilesOf(e)' = FilesOf(e)
    BY CreatorKnows, FilesSame
  <2> QED BY <1>2, <1>3, <1>4, <2>1, CreatorStep, Zenon

\* delete_all_for_draft.
LEMMA ClearKeeps ==
  ASSUME IInv, NEW c \in Clients, Clear(c)
  PROVE  IInv'
<1> PICK d : d = req[c].d
  OBVIOUS
<1> DEFINE q == req[c]
           r == [q EXCEPT !.pc = "attach"]
<1>1. /\ q \in Req /\ q.op = "create" /\ q.pc = "clear"
      /\ UNCHANGED <<drafts, used, screen, sent, halved, scenario>>
  BY DEF IInv, Types, Clear, At
<1>2. CASE atts' = atts \ AttsOf(q.d) /\ Step(c, "attach")
  <2>1. req' = [req EXCEPT ![c] = r]
    BY <1>2 DEF Step
  <2>2. r \in Req
    BY <1>1 DEF Req
  <2>3. r.op = "create" /\ r.pc = "attach" /\ r.d = d /\ ~r.later /\ r.todo = q.todo
    BY <1>1, CreatorKnows DEF Req
  <2> HIDE DEF r
  <2>4. \A e : e # d => FilesOf(e)' = FilesOf(e)
    BY <1>2, FilesDeleted
  <2>5. FilesOf(d)' = {}
    BY <1>2 DEF FilesOf, FilesIn, AttsOf
  <2>6. drafts[d] = Null \/ d \in halved \/ FilesOf(d)' \cup r.todo = drafts[d].files
    BY <1>1, <2>3, <2>5, CreatorKnows
  <2>7. /\ \A a \in atts' : a \in AttRecords /\ a.draft \in used /\ drafts[a.draft] # Null
        /\ r.todo \subseteq Files
    BY <1>1, <1>2, <2>3, CreatorKnows
  <2> QED BY <1>1, <2>1, <2>2, <2>3, <2>4, <2>6, <2>7, CreatorStep, Zenon
<1>3. CASE Step(c, "undo") /\ UNCHANGED atts
  BY <1>1, <1>3, CreationFails
<1> QED
  BY <1>2, <1>3 DEF Clear

\* The rest of replace_draft_attachments: done, failed, or one row more.
LEMMA AttachKeeps ==
  ASSUME IInv, NEW c \in Clients, Attach(c)
  PROVE  IInv'
<1> PICK d : d = req[c].d
  OBVIOUS
<1> DEFINE q == req[c]
<1>1. /\ q \in Req /\ TuiOK /\ q.pc = "attach" /\ q.op = "create"
      /\ UNCHANGED <<drafts, used, screen, sent, halved, scenario>>
  BY DEF IInv, Types, Attach, At
<1>2. CASE q.todo = {} /\ Done(c, "ok") /\ UNCHANGED atts
  <2>1. d \in used /\ (drafts[d] = Null \/ d \in halved \/ FilesOf(d) = drafts[d].files)
    <3>1. FilesOf(d) \cup q.todo = FilesOf(d)
      BY <1>2
    <3> QED BY <1>1, <3>1, CreatorKnows
  <2>2. c = "tui" => Saved(d, composer.text, composer.atts)
    BY <1>1, <2>1 DEF Saved, TuiOK, TuiWrites
  <2>3. UNCHANGED <<table, screen, sent, halved, scenario>>
    BY <1>1, <1>2 DEF table
  <2> QED BY <1>1, <1>2, <2>1, <2>2, <2>3, DoneKeeps, Zenon
<1>3. CASE Step(c, "undo") /\ UNCHANGED atts
  BY <1>1, <1>3, CreationFails
<1>4. ASSUME drafts[d] # Null, NEW f \in q.todo, atts' = atts \cup AttRows(q.d, 0, {f}),
             req' = [req EXCEPT ![c] = [q EXCEPT !.todo = @ \ {f}]]
      PROVE  IInv'
  <2> DEFINE r == [q EXCEPT !.todo = @ \ {f}]
  <2>1. r \in Req
    BY <1>1 DEF Req
  <2>2. r.op = "create" /\ r.pc = "attach" /\ r.d = d /\ ~r.later /\ r.todo = q.todo \ {f}
    BY <1>1, CreatorKnows DEF Req
  <2>3. req' = [req EXCEPT ![c] = r]
    BY <1>4
  <2> HIDE DEF r
  <2>4. FilesOf(d)' = FilesOf(d) \cup {f} /\ \A e : e # d => FilesOf(e)' = FilesOf(e)
    BY <1>4, FilesAdded
  <2>5. d \in DraftIds
    BY <1>1, CreatorKnows, DraftsAssumption DEF IInv, Types, TableTypes
  <2>6. f \in Files /\ \A a \in AttRows(d, 0, {f}) : a \in AttRecords /\ a.draft = d
    BY <1>1, <1>4, <2>5, CreatorKnows DEF AttRows, AttRecords
  <2>7. \A a \in atts' : a \in AttRecords /\ a.draft \in used /\ drafts[a.draft] # Null
    BY <1>1, <1>4, <2>6, CreatorKnows
  <2>8. drafts[d] = Null \/ d \in halved \/ FilesOf(d)' \cup r.todo = drafts[d].files
    BY <1>1, <1>4, <2>2, <2>4, CreatorKnows
  <2>9. r.todo \subseteq Files
    BY <1>1, <2>2, CreatorKnows
  <2> QED BY <1>1, <2>1, <2>2, <2>3, <2>4, <2>7, <2>8, <2>9, CreatorStep
<1> QED
  BY <1>2, <1>3, <1>4, Zenon DEF Attach

\* drafts::create.
LEMMA InsertKeeps ==
  ASSUME IInv, NEW c \in Clients, Insert(c)
  PROVE  IInv'
<1> DEFINE q == req[c]
           files == IF q.doc.files = Null THEN {} ELSE q.doc.files
           pc == IF q.doc.files = Null THEN "attach" ELSE "clear"
<1>1. PICK d \in scenario.ids \ used :
        /\ drafts' = [drafts EXCEPT ![d] = Row(q.doc.text, files, c, 0)]
        /\ used' = used \cup {d}
        /\ req' = [req EXCEPT ![c] = [q EXCEPT !.d = d, !.todo = files, !.doc = Null, !.pc = pc]]
  BY Zenon DEF Insert
<1> DEFINE r == [q EXCEPT !.d = d, !.todo = files, !.doc = Null, !.pc = pc]
<1>2. /\ q \in Req /\ RequestOK(c) /\ TuiOK /\ TableTypes /\ ScreenTypes /\ NoHalfDraft
      /\ SentGone /\ q.pc = "insert" /\ q.op = "create"
      /\ UNCHANGED <<atts, screen, sent, halved, scenario>>
  BY DEF IInv, Types, Insert, At
<1>3. scenario.ids \subseteq DraftIds /\ used \subseteq scenario.ids
  BY <1>2, DraftsAssumption, Zenon DEF TableTypes
<1>4. d \in scenario.ids \ used
  OBVIOUS
<1>5. d \in DraftIds /\ d \notin used /\ drafts[d] = Null
  BY <1>2, <1>3, <1>4 DEF TableTypes
<1>6. q.doc \in Docs /\ ~q.later
  BY <1>2 DEF RequestOK
<1>7. q.doc.text \in Texts \cup {Null} /\ files \subseteq Files
  BY <1>6 DEF Docs
<1>8. c = "tui" => /\ composer # Null /\ composer.id = Null
                   /\ q.doc.text = composer.text /\ files = composer.atts
  <2> SUFFICES ASSUME c = "tui" PROVE /\ composer # Null /\ composer.id = Null
                                      /\ q.doc.text = composer.text /\ files = composer.atts
    OBVIOUS
  <2>1. composer # Null /\ composer.id = Null /\ q.doc = Doc
    BY <1>2 DEF TuiOK, TuiWrites
  <2>2. composer.atts \in SUBSET Files
    BY <1>2, <2>1 DEF ScreenTypes, Composers
  <2>3. composer.atts # Null
    BY <2>2, DraftsAssumption
  <2> QED BY <2>1, <2>3 DEF Doc
<1> HIDE DEF files
<1>9. r \in Req
  <2>1. /\ files \in SUBSET (Files \cup AttRecords) /\ d \in DraftIds \cup {Null}
        /\ Null \in Docs \cup {Null}
    BY <1>5, <1>7
  <2> QED BY <1>2, <2>1, Zenon DEF Req
<1>10. r.op = "create" /\ r.pc \in {"clear", "attach"} /\ r.d = d /\ ~r.later /\ r.todo = files
  BY <1>2, <1>6 DEF Req
<1>11. req' = [req EXCEPT ![c] = r] /\ used \subseteq used'
  BY <1>1
<1> HIDE DEF r
<1>12. /\ req'[c] = r /\ (\A x \in Clients \ {c} : req'[x] = req[x]) /\ UNCHANGED composer
       /\ \A e : FilesOf(e)' = FilesOf(e)
  BY <1>2, <1>9, <1>11, OneRequest, FilesSame, Zenon DEF screen
<1>13. /\ drafts'[d] = Row(q.doc.text, files, c, 0) /\ drafts'[d].text = q.doc.text
       /\ drafts'[d].files = files /\ drafts'[d].by = c /\ drafts'[d].rev = 0
       /\ drafts'[d] \in Rows /\ drafts' \in [DraftIds -> Rows \cup {Null}]
       /\ \A e \in DraftIds : e # d => drafts'[e] = drafts[e]
  <2>1. Row(q.doc.text, files, c, 0) \in Rows
    BY <1>7 DEF Row, Rows
  <2>2. drafts'[d] = Row(q.doc.text, files, c, 0)
    BY <1>2, <1>1, <1>5, Zenon DEF TableTypes
  <2>3. /\ drafts'[d].text = q.doc.text /\ drafts'[d].files = files /\ drafts'[d].by = c
        /\ drafts'[d].rev = 0
    BY <2>2 DEF Row
  <2> QED BY <1>2, <1>1, <1>5, <2>1, <2>2, <2>3, Zenon DEF TableTypes
<1>14. FilesOf(d) = {}
  <2>1. \A a \in atts : a.draft # d
    BY <1>2, <1>5 DEF TableTypes
  <2>2. AttsOf(d) = {}
    BY <2>1 DEF AttsOf
  <2> QED BY <2>2 DEF FilesOf, FilesIn
<1>15. TableTypes' /\ SentGone'
  <2>1. TableTypes'
    BY <1>2, <1>1, <1>3, <1>4, <1>13, Zenon DEF TableTypes
  <2>2. \A e \in sent : e \in DraftIds /\ e # d
    BY <1>2, <1>3, <1>5 DEF TableTypes
  <2> QED BY <1>2, <1>13, <2>1, <2>2 DEF SentGone
<1>16. NoHalfDraft'
  <2> SUFFICES ASSUME NEW e \in used', drafts'[e] # Null, FilesOf(e)' # drafts'[e].files, e \notin halved
               PROVE  Creating(e)'
    BY <1>2 DEF NoHalfDraft
  <2>1. CASE e = d
    BY <1>10, <1>12, <2>1 DEF Creating
  <2>2. CASE e # d
    <3>1. e \in used /\ drafts'[e] = drafts[e]
      BY <1>1, <1>3, <1>13, <2>2
    <3>2. PICK x \in Clients : req[x].op = "create" /\ req[x].pc \in {"clear", "attach", "undo"} /\ req[x].d = e
      BY <1>2, <1>12, <3>1, Zenon DEF NoHalfDraft, Creating
    <3>3. req'[x] = req[x]
      BY <1>2, <1>12, <3>2
    <3> QED BY <3>2, <3>3 DEF Creating
  <2> QED BY <2>1, <2>2
<1>17. \A e \in used : Effect(c, e)
  BY <1>2, <1>3, <1>5, <1>12, <1>13, Zenon DEF Effect, Untouched
<1>18. RequestOK(c)' /\ CreationOK(c)' /\ ReadingOK(c)'
  <2>1. d \in used' /\ FilesOf(d)' \cup r.todo = drafts'[d].files
    BY <1>1, <1>10, <1>12, <1>13, <1>14
  <2>2. RequestOK(c)' /\ ReadingOK(c)'
    BY <1>7, <1>10, <1>12, <2>1, Zenon DEF RequestOK, ReadingOK
  <2> QED BY <1>10, <1>12, <1>13, <2>1, <2>2, Zenon DEF CreationOK
<1>19. c = "tui" => TuiOK' /\ CleanIsSaved'
  BY <1>8, <1>10, <1>12, <1>13, Zenon DEF TuiOK, TuiWrites, TuiReads, CleanIsSaved
<1> QED
  BY <1>2, <1>4, <1>9, <1>10, <1>15, <1>11, <1>16, <1>17, <1>18, <1>19, DaemonStep, Zenon

\* The composer stays true as long as drafts are let alone or go.
LEMMA CleanKeeps ==
  ASSUME IInv, UNCHANGED composer, \A e \in used : Untouched(e) \/ Gone(e)
  PROVE  CleanIsSaved'
<1> SUFFICES ASSUME composer # Null, ~composer.dirty, composer.id # Null
             PROVE  Saved(composer.id, composer.text, composer.atts)'
  BY DEF CleanIsSaved, Saved
<1>1. composer.id \in used /\ Saved(composer.id, composer.text, composer.atts)
  BY DEF IInv, Types, ScreenTypes, CleanIsSaved, Saved
<1>2. Untouched(composer.id) \/ Gone(composer.id)
  BY <1>1
<1> QED
  BY <1>1, <1>2 DEF Saved, Untouched, Gone

\* A draft that is still half is still being created, unless its creator is the one
\* who is answered.
LEMMA StillCreating ==
  ASSUME IInv, NEW c \in Clients, NEW r \in Req, req' = [req EXCEPT ![c] = r],
         NEW e \in used, drafts[e] # Null, FilesOf(e) # drafts[e].files, e \notin halved,
         req[c].op = "create" => req[c].d # e
  PROVE  Creating(e)'
<1>1. PICK x \in Clients : req[x].op = "create" /\ req[x].pc \in {"clear", "attach", "undo"} /\ req[x].d = e
  BY DEF IInv, NoHalfDraft, Creating
<1>2. req'[x] = req[x]
  BY <1>1, OneRequest
<1> QED
  BY <1>1, <1>2 DEF Creating

\* A draft goes and its request is answered.
LEMMA DeleteKeeps ==
  ASSUME IInv, NEW c \in Clients, NEW res \in Results, Done(c, res), DeleteRow(req[c].d),
         req[c].d \in used, req[c].op # "none", req[c].op \in {"create", "update"} => res # "ok",
         sent' \in {sent, sent \cup {req[c].d}}, UNCHANGED <<used, screen, halved, scenario>>
  PROVE  IInv'
<1> PICK d : d = req[c].d
  OBVIOUS
<1>1. TableTypes /\ SentGone /\ UNCHANGED composer
  BY DEF IInv, Types, screen
<1>2. PICK r \in Req :
        /\ req' = [req EXCEPT ![c] = r] /\ r.pc \in {"idle", "done"}
        /\ RequestOK(c)' /\ CreationOK(c)' /\ ReadingOK(c)'
        /\ c = "tui" =>
             ((req[c].op \in {"create", "update"} /\ res = "ok" =>
                 Saved(d, composer.text, composer.atts)') => TuiOK')
  BY <1>1, DoneOK
<1>3. used \subseteq DraftIds /\ d \in DraftIds
  BY <1>1, DraftsAssumption, Zenon DEF TableTypes
<1>4. /\ drafts' \in [DraftIds -> Rows \cup {Null}] /\ drafts'[d] = Null
      /\ \A e \in DraftIds : e # d => drafts'[e] = drafts[e]
      /\ atts' \subseteq atts
  BY <1>1, <1>3 DEF DeleteRow, TableTypes
<1>5. \A e : e # d => FilesOf(e)' = FilesOf(e)
  BY FilesDeleted DEF DeleteRow
<1>6. \A e \in used : Untouched(e) \/ Gone(e)
  BY <1>3, <1>4, <1>5 DEF Untouched, Gone
<1>7. TableTypes' /\ SentGone'
  <2>1. \A a \in atts' : a \in atts /\ a.draft # d
    BY DEF DeleteRow, AttsOf
  <2>2. \A a \in atts' : a.draft \in used /\ drafts'[a.draft] # Null
    BY <1>1, <1>3, <1>4, <2>1 DEF TableTypes
  <2>3. TableTypes'
    BY <1>1, <1>3, <1>4, <2>2 DEF TableTypes
  <2> QED BY <1>1, <1>3, <1>4, <2>3, Zenon DEF TableTypes, SentGone
<1>8. NoHalfDraft'
  <2> SUFFICES ASSUME NEW e \in used, drafts'[e] # Null, FilesOf(e)' # drafts'[e].files, e \notin halved
               PROVE  Creating(e)'
    BY DEF NoHalfDraft
  <2>1. e # d /\ drafts[e] # Null /\ FilesOf(e) # drafts[e].files
    BY <1>3, <1>4, <1>5
  <2> QED BY <1>2, <2>1, StillCreating, Zenon
<1>9. (\A e \in used : Effect(c, e)) /\ CleanIsSaved'
  BY <1>1, <1>6, CleanKeeps, Zenon DEF Effect
<1> QED
  BY <1>2, <1>7, <1>8, <1>9, DaemonStep, Zenon DEF InCreation

\* The steps that delete a draft, or fail to.
LEMMA DeletesKeep ==
  ASSUME IInv, NEW c \in Clients, Undo(c) \/ DraftDelete(c) \/ Drop(c)
  PROVE  IInv'
<1> PICK d : d = req[c].d
  OBVIOUS
<1>1. RequestOK(c) /\ TableTypes /\ SentGone
  BY DEF IInv, Types
<1>2. CASE DraftDelete(c)
  <2>1. /\ req[c].op = "delete" /\ DeleteRow(req[c].d) /\ Done(c, "ok")
        /\ UNCHANGED <<used, screen, sent, halved, scenario>> /\ req[c].d \in used
    BY <1>1, <1>2 DEF DraftDelete, At, RequestOK
  <2> QED BY <2>1, DeleteKeeps, Zenon
<1>3. CASE Drop(c)
  <2>1. /\ req[c].op = "send" /\ req[c].pc = "drop" /\ Done(c, "ok")
        /\ UNCHANGED <<used, screen, halved, scenario>> /\ req[c].d \in used
    BY <1>1, <1>3, Zenon DEF Drop, At, RequestOK
  <2>2. CASE DeleteRow(req[c].d) /\ sent' = sent \cup {req[c].d}
    BY <2>1, <2>2, DeleteKeeps, Zenon
  <2>3. CASE UNCHANGED <<drafts, atts, sent>>
    BY <2>1, <2>3, DoneKeeps, Zenon DEF table
  <2> QED BY <1>3, <2>2, <2>3, Zenon DEF Drop
<1>4. CASE Undo(c)
  <2>1. /\ req[c].op = "create" /\ req[c].pc = "undo" /\ Done(c, "err")
        /\ UNCHANGED <<used, screen, sent, scenario>> /\ d \in used
    BY <1>1, <1>4 DEF Undo, At, RequestOK
  <2>2. CASE DeleteRow(req[c].d) /\ UNCHANGED halved
    BY <2>1, <2>2, DeleteKeeps
  <2>3. CASE halved' = halved \cup {d} /\ UNCHANGED <<drafts, atts>>
    <3>1. UNCHANGED composer /\ \A e : FilesOf(e)' = FilesOf(e)
      BY <2>1, <2>3, FilesSame DEF screen
    <3>2. PICK r \in Req :
            /\ req' = [req EXCEPT ![c] = r] /\ r.pc \in {"idle", "done"}
            /\ RequestOK(c)' /\ CreationOK(c)' /\ ReadingOK(c)'
            /\ c = "tui" =>
                 ((req[c].op \in {"create", "update"} /\ "err" = "ok" =>
                     Saved(d, composer.text, composer.atts)') => TuiOK')
      BY <2>1, <3>1, DoneOK
    <3>3. \A e \in used : Untouched(e)
      BY <2>3, <3>1 DEF Untouched
    <3>4. TableTypes' /\ SentGone'
      BY <1>1, <2>1, <2>3 DEF TableTypes, SentGone
    <3>5. NoHalfDraft'
      <4> SUFFICES ASSUME NEW e \in used, drafts[e] # Null, FilesOf(e) # drafts[e].files, e \notin halved'
                   PROVE  Creating(e)'
        BY <2>1, <2>3, <3>1, Zenon DEF NoHalfDraft
      <4>1. e # d /\ e \notin halved
        BY <2>3
      <4> QED BY <3>2, <4>1, StillCreating, Zenon
    <3>6. (\A e \in used : Effect(c, e)) /\ CleanIsSaved'
      BY <3>1, <3>3, CleanKeeps DEF Effect
    <3> QED BY <2>1, <3>2, <3>4, <3>5, <3>6, DaemonStep, Zenon DEF InCreation
  <2> QED BY <1>4, <2>2, <2>3 DEF Undo
<1> QED
  BY <1>2, <1>3, <1>4

\* The transaction of draft.update.
LEMMA CommitKeeps ==
  ASSUME IInv, NEW c \in Clients, Commit(c)
  PROVE  IInv'
<1>1. PICK d : d = req[c].d
  OBVIOUS
<1> DEFINE q == req[c]
           files == IF q.doc.files = Null THEN drafts[d].files ELSE q.doc.files
<1>2. /\ q \in Req /\ RequestOK(c) /\ TuiOK /\ TableTypes /\ ScreenTypes /\ NoHalfDraft
      /\ CleanIsSaved /\ SentGone /\ q.pc = "commit" /\ q.op = "update"
      /\ UNCHANGED <<used, screen, sent, scenario>>
  BY Zenon DEF IInv, Types, Commit, At
<1>3. d \in used /\ d \in DraftIds /\ q.doc \in Docs
  BY <1>1, <1>2, DraftsAssumption, Zenon DEF RequestOK, TableTypes
<1>4. CASE drafts[d] = Null
  <2>1. Done(c, "null") /\ UNCHANGED <<drafts, atts, halved>>
    BY <1>1, <1>4, Zenon DEF Commit
  <2> QED BY <1>2, <2>1, DoneKeeps, Zenon DEF table
<1>5. CASE drafts[d] # Null
  <2>1. PICK rev \in NewRevs(d) :
        /\ Done(c, "ok")
        /\ drafts' = [drafts EXCEPT ![d] = Row(q.doc.text, files, c, rev)]
        /\ atts' = IF q.doc.files = Null THEN atts
                   ELSE (atts \ AttsOf(d)) \cup AttRows(d, rev, files)
        /\ halved' = IF Creating(d) THEN halved \cup {d}
                     ELSE IF q.doc.files # Null THEN halved \ {d} ELSE halved
    BY <1>1, <1>5, Zenon DEF Commit
  <2>2. rev \in Nat /\ rev \notin Held(d)
    BY DEF NewRevs
  <2>3. drafts[d] \in Rows
    BY <1>2, <1>3, <1>5 DEF TableTypes
  <2>4. q.doc.text \in Texts \cup {Null} /\ files \subseteq Files
    BY <1>3, <2>3 DEF Docs, Rows
  <2>5. c = "tui" => composer # Null /\ q.doc.text = composer.text
                     /\ q.doc.files = composer.atts /\ q.doc.files # Null
    <3> SUFFICES ASSUME c = "tui" PROVE composer # Null /\ q.doc.text = composer.text
                                        /\ q.doc.files = composer.atts /\ q.doc.files # Null
      OBVIOUS
    <3>1. composer # Null /\ q.doc = Doc
      BY <1>2 DEF TuiOK, TuiWrites
    <3>2. composer.atts \in SUBSET Files
      BY <1>2, <3>1 DEF ScreenTypes, Composers
    <3>3. composer.atts # Null
      BY <3>2, DraftsAssumption, Zenon
    <3> QED BY <3>1, <3>3 DEF Doc
  <2>6. /\ q.doc.files = Null => files = drafts[d].files
        /\ q.doc.files # Null => files = q.doc.files
    OBVIOUS
  <2> HIDE DEF files
  <2> PICK fs : fs = files
    OBVIOUS
  <2>7. /\ drafts'[d].text = q.doc.text /\ drafts'[d].files = fs
        /\ drafts'[d].by = c /\ drafts'[d].rev = rev /\ drafts'[d] \in Rows
        /\ drafts' \in [DraftIds -> Rows \cup {Null}]
        /\ \A e \in DraftIds : e # d => drafts'[e] = drafts[e]
    <3>1. Row(q.doc.text, files, c, rev) \in Rows
      BY <2>2, <2>4 DEF Row, Rows
    <3>2. drafts'[d] = Row(q.doc.text, files, c, rev)
      BY <1>2, <1>3, <2>1, Zenon DEF TableTypes
    <3>3. /\ drafts'[d].text = q.doc.text /\ drafts'[d].files = fs
          /\ drafts'[d].by = c /\ drafts'[d].rev = rev
      BY <3>2 DEF Row
    <3> QED BY <1>2, <1>3, <2>1, <3>1, <3>2, <3>3, Zenon DEF TableTypes
  <2>8. /\ FilesOf(d)' = IF q.doc.files = Null THEN FilesOf(d) ELSE fs
        /\ \A e : e # d => FilesOf(e)' = FilesOf(e)
    <3>1. CASE q.doc.files = Null
      <4>1. UNCHANGED atts
        BY <2>1, <3>1
      <4> QED BY <3>1, <4>1, FilesSame
    <3>2. CASE q.doc.files # Null
      <4>1. atts' = (atts \ AttsOf(d)) \cup AttRows(d, rev, fs)
        BY <2>1, <3>2
      <4> QED BY <3>2, <4>1, FilesReplaced
    <3> QED BY <3>1, <3>2
  <2>9. \A a \in atts' :
          a \in AttRecords /\ a.draft \in used /\ (a \in atts \/ (a.draft = d /\ a.rev = rev))
    <3>1. \A a \in AttRows(d, rev, files) : a \in AttRecords /\ a.draft = d /\ a.rev = rev
      BY <1>3, <2>2, <2>4 DEF AttRows, AttRecords
    <3>2. \A a \in atts' : a \in atts \/ a \in AttRows(d, rev, files)
      BY <2>1
    <3>3. \A a \in atts : a \in AttRecords /\ a.draft \in used
      BY <1>2 DEF TableTypes
    <3> SUFFICES ASSUME NEW a \in atts'
                 PROVE  a \in AttRecords /\ a.draft \in used /\ (a \in atts \/ (a.draft = d /\ a.rev = rev))
      OBVIOUS
    <3>4. CASE a \in atts
      BY <3>3, <3>4
    <3>5. CASE a \in AttRows(d, rev, files)
      BY <1>3, <3>1, <3>5
    <3> QED BY <3>2, <3>4, <3>5
  <2>10. \A e : e # d => (e \in halved <=> e \in halved')
    BY <2>1
  <2>11. UNCHANGED composer
    BY <1>2 DEF screen
  <2>12. c = "tui" => Saved(d, composer.text, composer.atts)'
    BY <2>5, <2>6, <2>7, <2>8, <2>11 DEF Saved
  <2>13. PICK r \in Req :
           /\ req' = [req EXCEPT ![c] = r] /\ r.pc \in {"idle", "done"}
           /\ RequestOK(c)' /\ CreationOK(c)' /\ ReadingOK(c)'
           /\ c = "tui" =>
                ((req[c].op \in {"create", "update"} /\ "ok" = "ok" =>
                    Saved(d, composer.text, composer.atts)') => TuiOK')
    BY <1>1, <1>2, <1>3, <2>1, <2>11, DoneOK, Zenon
  <2>14. TableTypes' /\ SentGone'
    <3>1. \A e \in DraftIds : drafts'[e] # Null => e \in used
      BY <1>2, <1>3, <2>7 DEF TableTypes
    <3>2. drafts'[d] # Null
      BY <2>7, DraftsAssumption, Zenon
    <3>3. halved' \subseteq used
      BY <1>2, <1>3, <2>1, Zenon DEF TableTypes
    <3>4. \A a \in atts' : drafts'[a.draft] # Null
      BY <1>2, <2>7, <2>9, <3>2 DEF TableTypes, AttRecords
    <3>5. TableTypes'
      BY <1>2, <2>7, <2>9, <3>1, <3>3, <3>4, Zenon DEF TableTypes
    <3>6. \A e \in sent : e # d /\ e \in DraftIds
      BY <1>2, <1>5, DraftsAssumption DEF SentGone, TableTypes
    <3> QED BY <1>2, <2>7, <3>5, <3>6 DEF SentGone
  <2>15. NoHalfDraft'
    <3> SUFFICES ASSUME NEW e \in used, drafts'[e] # Null, FilesOf(e)' # drafts'[e].files, e \notin halved'
                 PROVE  Creating(e)'
      BY <1>2 DEF NoHalfDraft
    <3>1. CASE e = d
      <4>1. ~Creating(d) /\ q.doc.files = Null /\ d \notin halved
        BY <2>1, <2>7, <2>8, <3>1, Zenon
      <4>2. FilesOf(d) # drafts[d].files
        BY <2>6, <2>7, <2>8, <3>1, <4>1
      <4> QED BY <1>2, <1>3, <1>5, <4>1, <4>2 DEF NoHalfDraft
    <3>2. CASE e # d
      <4>1. drafts[e] # Null /\ FilesOf(e) # drafts[e].files /\ e \notin halved
        BY <1>2, <2>7, <2>8, <2>10, <3>2, DraftsAssumption, Zenon DEF TableTypes
      <4> QED BY <1>2, <2>13, <4>1, StillCreating, Zenon
    <3> QED BY <3>1, <3>2
  <2>16. \A e \in used : Effect(c, e)
    <3> SUFFICES ASSUME NEW e \in used PROVE Effect(c, e)
      OBVIOUS
    <3>1. CASE e = d
      <4>1. \A x \in Clients : req[x].pc = "list" => drafts'[d].rev # req[x].row.rev
        BY <2>2, <2>7, HeldIs
      <4>2. Creating(d) => d \in halved'
        BY <2>1
      <4> QED BY <2>7, <3>1, <4>1, <4>2, Zenon DEF Effect, Written
    <3>2. CASE e # d
      BY <1>2, <2>7, <2>8, <2>10, <3>2, DraftsAssumption, Zenon DEF Effect, Untouched, TableTypes
    <3> QED BY <3>1, <3>2
  <2>17. c = "tui" => CleanIsSaved'
    <3> SUFFICES ASSUME c = "tui", composer.id # Null, ~composer.dirty, composer # Null
                 PROVE  Saved(composer.id, composer.text, composer.atts)'
      BY <2>11 DEF CleanIsSaved, Saved
    <3>1. CASE composer.id = d
      BY <2>11, <2>12, <3>1 DEF Saved
    <3>2. CASE composer.id # d
      <4>1. composer.id \in DraftIds
        BY <1>2 DEF ScreenTypes, Composers
      <4>2. Saved(composer.id, composer.text, composer.atts)
        BY <1>2 DEF CleanIsSaved, Saved
      <4> QED BY <2>7, <2>8, <2>10, <2>11, <3>2, <4>1, <4>2 DEF Saved
    <3> QED BY <3>1, <3>2
  <2> QED BY <1>2, <2>12, <2>13, <2>14, <2>15, <2>16, <2>17, DaemonStep, Zenon DEF InCreation
<1> QED
  BY <1>4, <1>5

-----------------------------------------------------------------------------
(* The clients' steps: they start a request, take an answer or are cut off. *)

\* A step that changes one request and, if it is the TUI's, the screen.
LEMMA ClientStep ==
  ASSUME IInv, NEW c \in Clients, NEW r \in Req, req' = [req EXCEPT ![c] = r],
         UNCHANGED <<table, sent, scenario>>, halved \subseteq halved', halved' \subseteq used,
         c # "tui" => UNCHANGED screen, ScreenTypes', ~InCreation(r),
         req[c].op = "create" /\ req[c].pc \in {"clear", "attach", "undo"} => req[c].d \in halved',
         RequestOK(c)', CreationOK(c)', ReadingOK(c)', c = "tui" => TuiOK' /\ CleanIsSaved'
  PROVE  IInv'
<1>1. /\ req' \in [Clients -> Req] /\ req'[c] = r
      /\ \A x \in Clients \ {c} : req'[x] = req[x]
  BY OneRequest, Zenon
<1>2. UNCHANGED <<drafts, atts, used, sent, scenario>> /\ \A e : FilesOf(e)' = FilesOf(e)
  BY FilesSame DEF table
<1>3. \A e \in used : Effect(c, e)
  BY <1>2 DEF Effect, Untouched
<1>4. \A x \in Clients : RequestOK(x)' /\ CreationOK(x)' /\ ReadingOK(x)'
  <2> SUFFICES ASSUME NEW x \in Clients PROVE RequestOK(x)' /\ CreationOK(x)' /\ ReadingOK(x)'
    OBVIOUS
  <2>1. CASE x = c
    BY <2>1
  <2>2. CASE x # c
    BY <1>1, <1>2, <1>3, <2>2, OthersKeep
  <2> QED BY <2>1, <2>2
<1>5. TuiOK' /\ CleanIsSaved'
  <2>1. CASE c # "tui"
    <3>1. req'["tui"] = req["tui"] /\ UNCHANGED composer
      BY <1>1, <2>1 DEF Clients, screen
    <3> QED BY <1>3, <2>1, <3>1, TuiKeeps
  <2> QED BY <2>1
<1>6. TableTypes' /\ SentGone'
  BY <1>2, Zenon DEF IInv, Types, TableTypes, SentGone
<1>7. NoHalfDraft'
  <2> SUFFICES ASSUME NEW e \in used, drafts[e] # Null, FilesOf(e) # drafts[e].files, e \notin halved'
               PROVE  Creating(e)'
    BY <1>2 DEF NoHalfDraft
  <2>1. PICK x \in Clients : req[x].op = "create" /\ req[x].pc \in {"clear", "attach", "undo"} /\ req[x].d = e
    BY DEF IInv, NoHalfDraft, Creating
  <2>2. req'[x] = req[x]
    BY <1>1, <2>1
  <2> QED BY <2>1, <2>2 DEF Creating
<1> QED
  BY <1>1, <1>4, <1>5, <1>6, <1>7, SoleKept DEF IInv, Types

\* Keys that start no request.
LEMMA KeysKeep ==
  ASSUME IInv, Free, UNCHANGED req, Quiet, ScreenTypes', CleanIsSaved'
  PROVE  IInv'
<1> DEFINE r == req["tui"]
<1>1. /\ "tui" \in Clients /\ r \in Req /\ RequestOK("tui") /\ r.op = "none"
      /\ req' = [req EXCEPT !["tui"] = r]
      /\ UNCHANGED <<table, used, sent, halved, scenario>>
  BY DEF IInv, Types, Clients, Free, Quiet, table
<1>2. r.pc \notin {"list", "load"}
  BY <1>1 DEF RequestOK
<1>3. RequestOK("tui")' /\ CreationOK("tui")' /\ ReadingOK("tui")'
  BY <1>1, <1>2 DEF RequestOK, CreationOK, ReadingOK
<1>4. TuiOK'
  BY <1>1 DEF TuiOK, TuiWrites, TuiReads
<1>5. halved \subseteq halved' /\ halved' \subseteq used /\ req["tui"].op = "none"
  BY <1>1, Zenon DEF IInv, Types, TableTypes
<1> HIDE DEF r
<1> QED
  BY <1>1, <1>2, <1>3, <1>4, <1>5, ClientStep, Zenon DEF InCreation

\* A request that starts.
LEMMA StartKeeps ==
  ASSUME IInv, NEW c \in Clients, NEW op \in Operations \ {"none"},
         NEW pc \in {"insert", "commit", "delete", "read"}, NEW d \in used \cup {Null},
         NEW doc \in Docs \cup {Null}, NEW then \in {"none", "send"},
         Start(c, op, pc, d, doc, then), Quiet,
         ~(req[c].op = "create" /\ req[c].pc \in {"clear", "attach", "undo"}),
         op \in {"update", "delete", "get", "send"} => d \in used,
         pc \in {"insert", "commit"} => doc \in Docs,
         c # "tui" => UNCHANGED screen, ScreenTypes',
         c = "tui" => CleanIsSaved',
         c = "tui" /\ op \in {"create", "update"} =>
           composer' # Null /\ (op = "create" => composer'.id = Null) /\ doc = Doc',
         c = "tui" /\ op = "send" =>
           composer' # Null /\ composer'.id = d /\ ~composer'.dirty /\ doc = Doc'
  PROVE  IInv'
<1> DEFINE r == Request(op, pc, d, doc, then, "none")
<1>1. /\ used \subseteq DraftIds /\ req' = [req EXCEPT ![c] = r]
      /\ UNCHANGED <<table, used, sent, halved, scenario>>
  BY DraftsAssumption, Zenon DEF IInv, Types, TableTypes, Start, Quiet, table
<1>2. r \in Req
  BY <1>1, Zenon DEF Request, Req
<1>3. /\ r.op = op /\ r.pc = pc /\ r.d = d /\ r.doc = doc /\ r.res = "none" /\ ~r.later /\ r.got = {}
  BY Zenon DEF Request
<1> HIDE DEF r
<1>4. req'[c] = r
  BY <1>1, <1>2, OneRequest, Zenon
<1>5. RequestOK(c)' /\ CreationOK(c)' /\ ReadingOK(c)'
  <2>1. r.op # "none" /\ r.d \in used \cup {Null} /\ used' = used
    BY <1>1, <1>3, Zenon
  <2>2. r.op \in {"update", "delete", "get", "send"} => r.d \in used
    BY <1>3, Zenon
  <2>3. r.pc \in {"insert", "commit"} => r.doc \in Docs
    BY <1>3, Zenon
  <2>4. r.pc \notin {"clear", "attach", "undo", "list", "load"}
    BY <1>3
  <2>5. RequestOK(c)'
    BY <1>3, <1>4, <2>1, <2>2, <2>3, <2>4 DEF RequestOK
  <2> QED BY <1>4, <2>4, <2>5, Zenon DEF CreationOK, ReadingOK
<1>6. c = "tui" => TuiOK'
  BY <1>3, <1>4, Zenon DEF TuiOK, TuiWrites, TuiReads
<1>7. halved \subseteq halved' /\ halved' \subseteq used /\ r.pc \notin {"list", "load"}
  BY <1>1, <1>3, Zenon DEF IInv, Types, TableTypes
<1>8. ~InCreation(r)
  BY <1>3 DEF InCreation
<1> QED
  BY <1>1, <1>2, <1>5, <1>6, <1>7, <1>8, ClientStep, Zenon

\* A request that is over.
LEMMA HangKeeps ==
  ASSUME IInv, NEW c \in Clients, req' = [req EXCEPT ![c] = NoReq],
         UNCHANGED <<table, sent, scenario>>, halved \subseteq halved', halved' \subseteq used,
         req[c].op = "create" /\ req[c].pc \in {"clear", "attach", "undo"} => req[c].d \in halved',
         c # "tui" => UNCHANGED screen, ScreenTypes', c = "tui" => CleanIsSaved'
  PROVE  IInv'
<1>1. req'[c] = NoReq
  BY NoReqType, OneRequest, Zenon
<1>2. RequestOK(c)' /\ CreationOK(c)' /\ ReadingOK(c)'
  BY <1>1, NoReqType, Zenon DEF RequestOK, CreationOK, ReadingOK
<1>3. c = "tui" => TuiOK'
  BY <1>1, NoReqType, Zenon DEF TuiOK, TuiWrites, TuiReads
<1> QED
  BY <1>2, <1>3, NoReqType, ClientStep, Zenon DEF InCreation

\* Broken connections.
LEMMA CutKeeps ==
  ASSUME IInv, NEW c \in Clients, Cut(c)
  PROVE  IInv'
<1>1. /\ req' = [req EXCEPT ![c] = NoReq] /\ UNCHANGED <<table, used, sent, scenario>>
      /\ halved \subseteq halved' /\ halved' \subseteq used /\ (c # "tui" => UNCHANGED screen)
  BY Zenon DEF Cut, table, IInv, Types, TableTypes
<1>2. req[c].op = "create" /\ req[c].pc \in {"clear", "attach", "undo"} => req[c].d \in halved'
  <2> SUFFICES ASSUME req[c].op = "create" /\ req[c].pc \in {"clear", "attach", "undo"} PROVE req[c].d \in halved'
    OBVIOUS
  <2>1. req[c].d \in used /\ Creating(req[c].d)
    BY Zenon DEF IInv, RequestOK, Creating
  <2> QED BY <2>1 DEF Cut
<1>3. ScreenTypes' /\ (c = "tui" => CleanIsSaved')
  <2>1. CASE c = "tui"
    <3>1. composer' = Null /\ mode' = "normal" /\ pane' = {} /\ doomed' = Null
      BY <2>1, Zenon DEF Cut
    <3> QED BY <3>1 DEF ScreenTypes, CleanIsSaved
  <2>2. CASE c # "tui"
    BY <1>1, <2>2 DEF IInv, Types, ScreenTypes, screen
  <2> QED BY <2>1, <2>2
<1> QED
  BY <1>1, <1>2, <1>3, HangKeeps, Zenon

\* The other clients' calls.
LEMMA CallKeeps ==
  ASSUME IInv, NEW c \in Others, Call(c)
  PROVE  IInv'
<1>1. c \in Clients /\ c # "tui" /\ req[c].op = "none" /\ UNCHANGED screen /\ Quiet
  BY DraftsAssumption DEF Clients, Call
<1>2. ScreenTypes'
  BY <1>1 DEF IInv, Types, ScreenTypes, screen, Quiet, table
<1>3. ASSUME NEW d \in used, NEW op \in {"send", "delete"},
             Start(c, op, IF op = "send" THEN "read" ELSE "delete", d, Null, "none")
      PROVE  IInv'
  <2>1. CASE op = "send"
    <3>1. Start(c, "send", "read", d, Null, "none")
      BY <1>3, <2>1
    <3> QED BY <1>1, <1>2, <3>1, StartKeeps
  <2>2. CASE op = "delete"
    <3>1. Start(c, "delete", "delete", d, Null, "none")
      BY <1>3, <2>2
    <3> QED BY <1>1, <1>2, <3>1, StartKeeps, Zenon
  <2> QED BY <2>1, <2>2
<1>4. ASSUME NEW d \in used \cup {Null}, NEW t \in Texts, NEW files \in {Null} \cup SUBSET Files,
             Start(c, Writes(d).op, Writes(d).pc, d, [text |-> t, files |-> files], "none")
      PROVE  IInv'
  <2>1. PICK doc \in Docs : doc = [text |-> t, files |-> files]
    BY Zenon DEF Docs
  <2>2. CASE d = Null
    <3>1. Start(c, "create", "insert", d, doc, "none")
      BY <1>4, <2>1, <2>2 DEF Writes
    <3> QED BY <1>1, <1>2, <3>1, StartKeeps
  <2>3. CASE d # Null
    <3>1. Start(c, "update", "commit", d, doc, "none") /\ d \in used
      BY <1>4, <2>1, <2>3 DEF Writes
    <3> QED BY <1>1, <1>2, <3>1, StartKeeps, Zenon
  <2> QED BY <2>2, <2>3
<1> QED
  BY <1>3, <1>4, Zenon DEF Call

\* The composer as it was stays true.
LEMMA SameComposer ==
  ASSUME IInv, Quiet, UNCHANGED composer
  PROVE  CleanIsSaved'
<1>1. UNCHANGED <<drafts, halved>> /\ \A e : FilesOf(e)' = FilesOf(e)
  BY FilesSame DEF Quiet, table
<1> QED
  BY <1>1, CleanKeeps DEF Untouched

\* What may be done to the composer without writing: it goes, or it becomes dirty or
\* nameless.
LEMMA OtherComposer ==
  ASSUME NEW k \in Composers, composer' = k, k.dirty \/ k.id = Null
  PROVE  CleanIsSaved'
BY DEF CleanIsSaved

\* The keys.
LEMMA ComposingKeeps ==
  ASSUME IInv, Composing
  PROVE  IInv'
<1>1. ScreenTypes /\ Quiet /\ Free /\ "tui" \in Clients /\ req["tui"].op = "none"
  BY Zenon DEF IInv, Types, Clients, Free, Keys, Composing, Compose, Prefill, Edit, ComposeAttach,
         RemoveAttachment, Save, Send, Escape, ConfirmDiscard, Command, ListDrafts, OpenDraft,
         BeginDelete, ConfirmDelete
<1>2. UNCHANGED <<drafts, atts, used, sent, halved, scenario>>
  BY <1>1 DEF Quiet, table
<1>3. Null \notin Composers /\ Null \in used \cup {Null} /\ Null \in Docs \cup {Null}
  BY DraftsAssumption
<1>4. mode = "compose" => composer \in Composers /\ composer.id \in used \cup {Null}
  BY <1>1 DEF ScreenTypes
\* A composer that is new or edited.
<1>5. ASSUME NEW k \in Composers, composer' = k, k.dirty \/ k.id = Null, k.id \in used \cup {Null},
             UNCHANGED <<req, pane, doomed>>
      PROVE  IInv'
  <2>1. ScreenTypes'
    BY <1>1, <1>2, <1>3, <1>5 DEF ScreenTypes
  <2>2. CleanIsSaved'
    BY <1>5, OtherComposer
  <2> QED BY <1>1, <1>5, <2>1, <2>2, KeysKeep
<1>6. CASE Compose
  <2>1. PICK k : k = Composer(Null, Null, {}, FALSE)
    BY Zenon
  <2>2. k \in Composers /\ k.id = Null
    BY <2>1 DEF Composer, Composers
  <2> QED BY <1>5, <1>6, <2>1, <2>2, Zenon DEF Compose
<1>7. CASE Prefill
  <2>1. PICK t \in Texts, files \in SUBSET Files : composer' = Composer(Null, t, files, TRUE)
    BY <1>7, Zenon DEF Prefill
  <2>2. PICK k : k = Composer(Null, t, files, TRUE)
    BY Zenon
  <2>3. k \in Composers /\ k.id = Null
    BY <2>2 DEF Composer, Composers
  <2> QED BY <1>5, <1>7, <2>1, <2>2, <2>3, Zenon DEF Prefill
<1>8. CASE Edit
  <2>1. PICK t \in Texts \cup {Null} : composer' = [composer EXCEPT !.text = t, !.dirty = TRUE]
    BY <1>8, Zenon DEF Edit
  <2>2. PICK k : k = [composer EXCEPT !.text = t, !.dirty = TRUE]
    OBVIOUS
  <2>3. composer \in Composers /\ composer.id \in used \cup {Null}
    BY <1>4, <1>8 DEF Edit, Keys
  <2>4. k \in Composers /\ k.id = composer.id /\ k.dirty = TRUE
    BY <2>2, <2>3, Zenon DEF Composers
  <2> QED BY <1>5, <1>8, <2>1, <2>2, <2>3, <2>4, Zenon DEF Edit
<1>9. CASE ComposeAttach
  <2>1. PICK f \in Files : composer' = [composer EXCEPT !.atts = @ \cup {f}, !.dirty = TRUE]
    BY <1>9, Zenon DEF ComposeAttach
  <2>2. PICK k : k = [composer EXCEPT !.atts = @ \cup {f}, !.dirty = TRUE]
    OBVIOUS
  <2>3. composer \in Composers /\ composer.id \in used \cup {Null}
    BY <1>4, <1>9 DEF ComposeAttach, Keys
  <2>4. k \in Composers /\ k.id = composer.id /\ k.dirty = TRUE
    BY <2>2, <2>3, Zenon DEF Composers
  <2> QED BY <1>5, <1>9, <2>1, <2>2, <2>3, <2>4, Zenon DEF ComposeAttach
<1>10. CASE RemoveAttachment
  <2>1. PICK f \in composer.atts : composer' = [composer EXCEPT !.atts = @ \ {f}, !.dirty = TRUE]
    BY <1>10, Zenon DEF RemoveAttachment
  <2>2. PICK k : k = [composer EXCEPT !.atts = @ \ {f}, !.dirty = TRUE]
    OBVIOUS
  <2>3. composer \in Composers /\ composer.id \in used \cup {Null}
    BY <1>4, <1>10 DEF RemoveAttachment, Keys
  <2>4. k \in Composers /\ k.id = composer.id /\ k.dirty = TRUE
    BY <2>2, <2>3, Zenon DEF Composers
  <2> QED BY <1>5, <1>10, <2>1, <2>2, <2>3, <2>4, Zenon DEF RemoveAttachment
\* A composer that is saved.
<1>11. ASSUME NEW then \in {"none", "send"}, StartSave(then), composer \in Composers, UNCHANGED composer,
              ScreenTypes'
       PROVE  IInv'
  <2>1. CleanIsSaved' /\ Doc' = Doc
    BY <1>1, <1>11, SameComposer DEF Doc
  <2>2. Doc \in Docs /\ composer # Null /\ composer.id \in used \cup {Null}
    BY <1>1, <1>3, <1>11 DEF Doc, Docs, Composers, ScreenTypes
  <2>3. PICK doc \in Docs : doc = Doc
    BY <2>2
  <2>4. PICK d \in used \cup {Null} : d = composer.id
    BY <2>2
  <2>5. CASE d = Null
    <3>1. Start("tui", "create", "insert", d, doc, then)
      BY <1>11, <2>3, <2>4, <2>5 DEF StartSave, Writes
    <3> QED BY <1>1, <1>11, <2>1, <2>2, <2>3, <2>4, <2>5, <3>1, StartKeeps
  <2>6. CASE d # Null
    <3>1. Start("tui", "update", "commit", d, doc, then) /\ d \in used
      BY <1>11, <2>3, <2>4, <2>6 DEF StartSave, Writes
    <3> QED BY <1>1, <1>11, <2>1, <2>2, <2>3, <2>4, <3>1, StartKeeps
  <2> QED BY <2>5, <2>6
<1>12. CASE Save
  <2>1. /\ composer \in Composers /\ StartSave("none") /\ mode' = "compose"
        /\ UNCHANGED <<composer, pane, doomed>>
    BY <1>1, <1>12 DEF Save, ScreenTypes
  <2>2. ScreenTypes'
    BY <1>1, <1>2, <1>3, <2>1 DEF ScreenTypes
  <2> QED BY <1>11, <2>1, <2>2
<1>13. CASE Send
  <2>1. composer \in Composers /\ UNCHANGED <<composer, mode, pane, doomed>>
    BY <1>4, <1>13 DEF Send, Keys, screen
  <2>2. ScreenTypes' /\ CleanIsSaved' /\ Doc' = Doc
    BY <1>1, <1>2, <2>1, SameComposer DEF ScreenTypes, Doc
  <2>3. CASE composer.id # Null /\ ~composer.dirty
    <3>1. Start("tui", "send", "read", composer.id, Doc, "none")
      BY <1>13, <2>3 DEF Send
    <3>2. PICK doc \in Docs : doc = Doc
      BY <2>1, Zenon DEF Doc, Docs, Composers
    <3>3. PICK d \in used : d = composer.id
      BY <1>4, <1>13, <2>3 DEF Send, Keys
    <3>4. Start("tui", "send", "read", d, doc, "none")
      BY <3>1, <3>2, <3>3
    <3>5. composer' # Null /\ composer'.id = d /\ ~composer'.dirty /\ doc = Doc'
      BY <1>3, <2>1, <2>2, <2>3, <3>2, <3>3
    <3> QED BY <1>1, <2>2, <3>4, <3>5, StartKeeps
  <2>4. CASE ~(composer.id # Null /\ ~composer.dirty)
    <3>1. StartSave("send")
      BY <1>13, <2>4, Zenon DEF Send
    <3> QED BY <1>11, <2>1, <2>2, <3>1
  <2> QED BY <2>3, <2>4
\* A composer that goes or stays.
<1>14. ASSUME composer' \in {Null, composer}, mode' \in {"compose", "discard"} => composer' # Null,
              UNCHANGED <<req, pane>>, doomed' \in used \cup {Null}
       PROVE  IInv'
  <2>1. ScreenTypes'
    BY <1>1, <1>2, <1>14 DEF ScreenTypes
  <2>2. CleanIsSaved'
    <3>1. CASE composer' = Null
      BY <3>1 DEF CleanIsSaved
    <3>2. CASE composer' = composer
      BY <1>1, <3>2, SameComposer
    <3> QED BY <1>14, <3>1, <3>2
  <2> QED BY <1>1, <1>14, <2>1, <2>2, KeysKeep
<1>15. CASE Escape \/ ConfirmDiscard \/ Command
  <2>1. /\ composer' \in {Null, composer} /\ (mode' \in {"compose", "discard"} => composer' # Null)
        /\ UNCHANGED <<req, pane>> /\ doomed' \in used \cup {Null}
    BY <1>1, <1>15 DEF Escape, ConfirmDiscard, Command, Keys, ScreenTypes
  <2> QED BY <1>14, <2>1
<1>16. CASE BeginDelete
  <2>1. /\ composer' \in {Null, composer} /\ (mode' \in {"compose", "discard"} => composer' # Null)
        /\ UNCHANGED <<req, pane>> /\ doomed' \in used \cup {Null}
    BY <1>1, <1>16 DEF BeginDelete, ScreenTypes
  <2> QED BY <1>14, <2>1
<1>17. CASE ListDrafts
  <2>1. Start("tui", "list", "read", Null, Null, "none") /\ UNCHANGED <<composer, mode, pane, doomed>>
    BY <1>17 DEF ListDrafts, screen
  <2>2. ScreenTypes' /\ CleanIsSaved'
    BY <1>1, <1>2, <2>1, SameComposer DEF ScreenTypes
  <2> QED BY <1>1, <1>3, <2>1, <2>2, StartKeeps
<1>18. CASE OpenDraft
  <2>1. UNCHANGED <<composer, mode, pane, doomed>>
    BY <1>18 DEF OpenDraft, screen
  <2>2. PICK d \in used : Start("tui", "get", "read", d, Null, "none")
    BY <1>1, <1>18 DEF OpenDraft, ScreenTypes
  <2>3. ScreenTypes' /\ CleanIsSaved'
    BY <1>1, <1>2, <2>1, SameComposer DEF ScreenTypes
  <2> QED BY <1>1, <1>3, <2>2, <2>3, StartKeeps
<1>19. CASE ConfirmDelete
  <2>1. mode' = "normal" /\ doomed' = Null /\ UNCHANGED composer
    BY <1>19 DEF ConfirmDelete
  <2>2. CASE UNCHANGED <<req, pane>>
    BY <1>14, <2>1, <2>2
  <2>3. CASE /\ doomed # Null /\ pane' = pane \ {doomed}
             /\ Start("tui", "delete", "delete", doomed, Null, "none")
    <3>1. PICK d \in used : d = doomed
      BY <1>1, <2>3 DEF ScreenTypes
    <3>2. Start("tui", "delete", "delete", d, Null, "none")
      BY <2>3, <3>1
    <3>3. ScreenTypes' /\ CleanIsSaved'
      BY <1>1, <1>2, <2>1, <2>3, SameComposer DEF ScreenTypes
    <3> QED BY <1>1, <1>3, <3>2, <3>3, StartKeeps
  <2> QED BY <1>19, <2>2, <2>3 DEF ConfirmDelete
<1> QED
  BY <1>6, <1>7, <1>8, <1>9, <1>10, <1>12, <1>13, <1>15, <1>16, <1>17, <1>18, <1>19 DEF Composing

\* The answers.
LEMMA AnswersKeep ==
  ASSUME IInv, Answers
  PROVE  IInv'
<1> DEFINE q == req["tui"]
<1>1. /\ ScreenTypes /\ Quiet /\ "tui" \in Clients /\ q \in Req /\ RequestOK("tui") /\ TuiOK
      /\ q.pc \in {"done", "load"}
  BY Zenon DEF IInv, Types, Clients, At, Answers, Answered, Loaded, OnSaved, OnSent, OnListed, OnOpened,
         OnDeleted
<1>2. /\ UNCHANGED <<table, drafts, atts, used, sent, halved, scenario>>
      /\ halved \subseteq halved' /\ halved' \subseteq used
  BY <1>1 DEF Quiet, table, IInv, Types, TableTypes
<1>3. \A e : FilesOf(e)' = FilesOf(e)
  BY <1>2, FilesSame
<1>4. ASSUME Hang, ScreenTypes', CleanIsSaved'
      PROVE  IInv'
  BY <1>1, <1>2, <1>4, HangKeeps, Zenon DEF Hang
<1>5. CASE OnSaved
  <2>1. q.op \in {"create", "update"} /\ q.pc = "done" /\ UNCHANGED <<mode, pane, doomed>>
    BY <1>5 DEF OnSaved, Answered, At
  <2>2. CASE q.res # "ok"
    <3>1. Hang /\ UNCHANGED composer
      BY <1>5, <2>2 DEF OnSaved
    <3>2. ScreenTypes' /\ CleanIsSaved'
      BY <1>1, <1>2, <2>1, <3>1, SameComposer DEF ScreenTypes
    <3> QED BY <1>4, <3>1, <3>2
  <2>3. CASE q.res = "ok"
    <3>1. PICK d \in used : d = q.d
      BY <1>1, <2>1, <2>3 DEF RequestOK
    <3>2. composer \in Composers /\ Saved(d, composer.text, composer.atts)
      BY <1>1, <2>1, <2>3, <3>1 DEF TuiOK, TuiWrites, ScreenTypes
    <3>3. composer' = [composer EXCEPT !.id = d, !.dirty = FALSE]
      BY <1>5, <2>3, <3>1 DEF OnSaved
    <3>4. used \subseteq DraftIds
      BY DraftsAssumption, Zenon DEF IInv, Types, TableTypes
    <3>5. /\ composer' \in Composers /\ composer'.id = d /\ composer'.dirty = FALSE
          /\ composer'.text = composer.text /\ composer'.atts = composer.atts
      BY <3>2, <3>3, <3>4, Zenon DEF Composers
    <3>6. composer' # Null
      BY <3>5, DraftsAssumption
    <3>7. ScreenTypes'
      BY <1>1, <1>2, <2>1, <3>5, <3>6 DEF ScreenTypes
    <3>8. CleanIsSaved'
      BY <1>2, <1>3, <3>2, <3>5 DEF CleanIsSaved, Saved
    <3>9. CASE q.then = "send"
      <4>1. PICK doc \in Docs : doc = Doc
        BY <3>2, Zenon DEF Doc, Docs, Composers
      <4>2. Start("tui", "send", "read", d, doc, "none")
        BY <1>5, <2>3, <3>1, <3>9, <4>1 DEF OnSaved
      <4>3. composer' # Null /\ composer'.id = d /\ ~composer'.dirty /\ doc = Doc'
        BY <3>5, <3>6, <4>1 DEF Doc
      <4> QED BY <1>1, <2>1, <3>7, <3>8, <4>2, <4>3, StartKeeps
    <3>10. CASE q.then # "send"
      <4>1. Hang
        BY <1>5, <2>3, <3>10 DEF OnSaved
      <4> QED BY <1>4, <3>7, <3>8, <4>1
    <3> QED BY <3>9, <3>10
  <2> QED BY <2>2, <2>3
<1>6. CASE OnSent
  <2>1. Hang /\ UNCHANGED <<pane, doomed>>
    BY <1>6 DEF OnSent
  <2>2. CASE composer' = Null /\ mode' = "normal"
    <3>1. ScreenTypes' /\ CleanIsSaved'
      BY <1>1, <1>2, <2>1, <2>2 DEF ScreenTypes, CleanIsSaved
    <3> QED BY <1>4, <2>1, <3>1
  <2>3. CASE UNCHANGED <<composer, mode>>
    <3>1. ScreenTypes' /\ CleanIsSaved'
      BY <1>1, <1>2, <2>1, <2>3, SameComposer DEF ScreenTypes
    <3> QED BY <1>4, <2>1, <3>1
  <2> QED BY <1>6, <2>2, <2>3 DEF OnSent
<1>7. CASE OnListed
  <2>1. Hang /\ UNCHANGED <<composer, mode, doomed>> /\ pane' \subseteq used
    BY <1>1, <1>7 DEF OnListed, Answered, At, RequestOK, ScreenTypes
  <2>2. ScreenTypes' /\ CleanIsSaved'
    BY <1>1, <1>2, <2>1, SameComposer DEF ScreenTypes
  <2> QED BY <1>4, <2>1, <2>2
<1>8. CASE OnOpened
  <2>1. Hang /\ UNCHANGED <<pane, doomed>>
    BY <1>8, Zenon DEF OnOpened
  <2>2. CASE UNCHANGED <<composer, mode>>
    <3>1. ScreenTypes' /\ CleanIsSaved'
      BY <1>1, <1>2, <2>1, <2>2, SameComposer DEF ScreenTypes
    <3> QED BY <1>4, <2>1, <3>1
  <2>3. CASE Loaded /\ mode' = "compose" /\ composer' = Composer(q.d, q.row.text, q.got, FALSE)
    <3>1. q.op = "get" /\ q.pc = "load" /\ q.todo = {}
      BY <2>3 DEF Loaded, At
    <3>2. PICK d \in used : d = q.d
      BY <1>1, <3>1 DEF RequestOK
    <3>3. q.row \in Rows /\ q.got \subseteq Files /\ used \subseteq DraftIds
      BY <1>1, <3>1, DraftsAssumption, Zenon DEF RequestOK, IInv, Types, TableTypes
    <3>4. q.got \cup FilesIn(q.todo) = q.got
      BY <3>1 DEF FilesIn
    <3>5. Saved(d, q.row.text, q.got)
      BY <1>1, <3>1, <3>2, <3>4, Zenon DEF TuiOK, TuiReads
    <3>6. /\ composer' \in Composers /\ composer'.id = d
          /\ composer'.text = q.row.text /\ composer'.atts = q.got
      BY <2>3, <3>2, <3>3, Zenon DEF Composer, Composers, Rows
    <3>7. composer' # Null
      BY <3>6, DraftsAssumption
    <3>8. ScreenTypes'
      BY <1>1, <1>2, <2>1, <3>6, <3>7 DEF ScreenTypes
    <3>9. CleanIsSaved'
      BY <1>2, <1>3, <3>5, <3>6, Zenon DEF CleanIsSaved, Saved
    <3> QED BY <1>4, <2>1, <3>8, <3>9
  <2> QED BY <1>8, <2>2, <2>3, Zenon DEF OnOpened
<1>9. CASE OnDeleted
  <2>1. q.op = "delete" /\ UNCHANGED <<composer, mode, pane, doomed>>
    BY <1>9 DEF OnDeleted, Answered, At, screen
  <2>2. ScreenTypes' /\ CleanIsSaved'
    BY <1>1, <1>2, <2>1, SameComposer DEF ScreenTypes
  <2>3. CASE Hang
    BY <1>4, <2>2, <2>3
  <2>4. CASE Start("tui", "list", "read", Null, Null, "none")
    <3>1. Null \in used \cup {Null} /\ Null \in Docs \cup {Null}
      OBVIOUS
    <3> QED BY <1>1, <2>1, <2>2, <2>4, <3>1, StartKeeps
  <2> QED BY <1>9, <2>3, <2>4 DEF OnDeleted
<1> QED
  BY <1>5, <1>6, <1>7, <1>8, <1>9 DEF Answers

-----------------------------------------------------------------------------
(* The theorems.                                                           *)

LEMMA InitIInv == DraftsInit => IInv
<1> SUFFICES ASSUME DraftsInit PROVE IInv
  OBVIOUS
<1> USE DEF DraftsInit
<1>1. \A c \in Clients : req[c] = NoReq
  OBVIOUS
<1>2. Types
  <2>1. TableTypes /\ ScreenTypes
    BY DraftsAssumption DEF TableTypes, ScreenTypes
  <2> QED BY <2>1, NoReqType DEF Types
<1>3. \A c \in Clients : RequestOK(c) /\ CreationOK(c) /\ ReadingOK(c)
  BY <1>1, NoReqType, Zenon DEF RequestOK, CreationOK, ReadingOK
<1>4. SentGone /\ NoHalfDraft /\ CleanIsSaved
  BY DEF SentGone, NoHalfDraft, CleanIsSaved
<1>5. TuiOK
  BY <1>1, NoReqType DEF TuiOK, TuiWrites, TuiReads, Clients
<1>6. OneCreator
  BY <1>1, NoReqType DEF OneCreator, InCreation
<1> QED BY <1>2, <1>3, <1>4, <1>5, <1>6 DEF IInv

LEMMA NextIInv == IInv /\ [DraftsNext]_dvars => IInv'
<1> SUFFICES ASSUME IInv, [DraftsNext]_dvars PROVE IInv'
  OBVIOUS
<1>1. CASE Composing
  BY <1>1, ComposingKeeps
<1>2. CASE Answers
  BY <1>2, AnswersKeep
<1>3. ASSUME NEW c \in Clients, Daemon(c) PROVE IInv'
  BY <1>3, FailuresKeep, InsertKeeps, ClearKeeps, AttachKeeps, DeletesKeep, CommitKeeps, ReadsKeep, ListKeeps,
     LoadKeeps DEF Daemon
<1>4. ASSUME NEW c \in Clients, Cut(c) PROVE IInv'
  BY <1>4, CutKeeps
<1>5. ASSUME NEW c \in Others, Call(c) PROVE IInv'
  BY <1>5, CallKeeps
<1>6. CASE UNCHANGED dvars
  <2>1. UNCHANGED <<drafts, atts, used, req, composer, mode, pane, doomed, sent, halved, scenario>>
    BY <1>6 DEF dvars
  <2>2. \A e : FilesOf(e)' = FilesOf(e)
    BY <2>1, FilesSame
  <2>3. Types' /\ SentGone' /\ Doc' = Doc
    BY <2>1, Zenon DEF IInv, Types, TableTypes, ScreenTypes, SentGone, Doc
  <2>4. NoHalfDraft' /\ CleanIsSaved'
    BY <2>1, <2>2, Zenon DEF IInv, NoHalfDraft, CleanIsSaved, Creating
  <2>5. TuiOK'
    BY <2>1, <2>2, <2>3, Zenon DEF IInv, TuiOK, TuiWrites, TuiReads, Saved
  <2>6. \A c \in Clients : RequestOK(c)' /\ CreationOK(c)' /\ ReadingOK(c)'
    <3> SUFFICES ASSUME NEW c \in Clients PROVE RequestOK(c)' /\ CreationOK(c)' /\ ReadingOK(c)'
      OBVIOUS
    <3>1. RequestOK(c) /\ CreationOK(c) /\ ReadingOK(c)
      BY DEF IInv
    <3>2. RequestOK(c)'
      BY <2>1, <3>1, Zenon DEF RequestOK
    <3>3. CreationOK(c)'
      BY <2>1, <2>2, <3>1, Zenon DEF CreationOK
    <3> QED BY <2>1, <3>1, <3>2, <3>3, Zenon DEF ReadingOK
  <2>7. OneCreator'
    BY <2>1, Zenon DEF IInv, OneCreator, InCreation
  <2> QED BY <2>3, <2>4, <2>5, <2>6, <2>7 DEF IInv
<1> QED
  BY <1>1, <1>2, <1>3, <1>4, <1>5, <1>6 DEF DraftsNext

\* The inductive invariant holds.
THEOREM InductiveInvariant == DraftsSpec => []IInv
BY InitIInv, NextIInv, PTL DEF DraftsSpec

\* A draft of any client lacks attachments it was saved with only while it is being
\* created, or when its creation was cut off, updated meanwhile or could not be
\* undone.
THEOREM DraftsWhole == DraftsSpec => []NoHalfDraft
<1>1. IInv => NoHalfDraft
  BY DEF IInv
<1> QED BY <1>1, InductiveInvariant, PTL

\* A draft that message.send has sent and deleted is submitted once more only by a
\* send that had read it before, whatever requests overlap: no later one submits it.
THEOREM SentOnce == DraftsSpec => []NeverSentAgain
<1>1. IInv => NeverSentAgain
  BY Zenon DEF IInv, RequestOK, NeverSentAgain
<1> QED BY <1>1, InductiveInvariant, PTL

\* A clean composer shows what the drafts table holds of a draft the TUI wrote last.
THEOREM ComposerSaved == DraftsSpec => []CleanIsSaved
<1>1. IInv => CleanIsSaved
  BY DEF IInv
<1> QED BY <1>1, InductiveInvariant, PTL

\* A message has the text and the attachments of one version of its draft, and the
\* TUI's are its composer's, unless the draft was written while message.send read it.
THEOREM SentWhole == DraftsSpec => []SentAsSaved
<1>1. IInv => SentAsSaved
  <2> SUFFICES ASSUME IInv, NEW c \in Clients, Ready(c), req[c].calm
               PROVE  /\ req[c].got = req[c].row.files
                      /\ c = "tui" /\ req[c].row.by = "tui" =>
                           [text |-> req[c].row.text, files |-> req[c].got] = req[c].doc
    BY Zenon DEF SentAsSaved
  <2>1. ReadingOK(c) /\ req[c].op = "send" /\ req[c].pc = "load" /\ req[c].todo = {}
    BY DEF IInv, Ready, At
  <2>2. req[c].got \cup FilesIn(req[c].todo) = req[c].got
    BY <2>1 DEF FilesIn
  <2> QED BY <2>1, <2>2, Zenon DEF ReadingOK
<1> QED BY <1>1, InductiveInvariant, PTL

-----------------------------------------------------------------------------
(* Types.                                                                  *)

\* A request of the TUI is started in a mode in which no draft is about to be deleted.
ModeOK ==
  /\ mode \in {"normal", "compose", "discard", "delete"} /\ (doomed # Null => mode = "delete")
  /\ req["tui"].op # "none" => doomed = Null

\* The screen keeps its modes.
LEMMA NextMode ==
  ASSUME IInv, ModeOK, [DraftsNext]_dvars
  PROVE  ModeOK'
<1>1. "tui" \in Clients /\ req["tui"] \in Req /\ RequestOK("tui") /\ req \in [Clients -> Req]
  BY DEF IInv, Types, Clients
<1>2. ASSUME NEW c \in Clients, Daemon(c) PROVE ModeOK'
  <2>1. UNCHANGED screen /\ req[c].pc # "idle"
    BY <1>2, Zenon DEF Daemon, Unreadable, Insert, Clear, Attach, Undo, Commit, DraftDelete, DraftList, ReadDraft,
       ListAttachments, LoadAttachment, ReadForSend, Refuse, Submit, Drop, SqlError, At, Ready
  <2>2. req[c].op # "none"
    BY <2>1, Zenon DEF IInv, RequestOK
  <2>3. \E r : req' = [req EXCEPT ![c] = r]
    BY <1>2, Zenon DEF Daemon, Unreadable, Insert, Clear, Attach, Undo, Commit, DraftDelete, DraftList, ReadDraft,
       ListAttachments, LoadAttachment, ReadForSend, Refuse, Submit, Drop, SqlError, Done, Step, Start
  <2>4. c # "tui" => req'["tui"] = req["tui"]
    BY <1>1, <2>3
  <2> QED BY <2>1, <2>2, <2>4 DEF ModeOK, screen
<1>3. ASSUME NEW c \in Clients, Cut(c) PROVE ModeOK'
  <2>1. CASE c = "tui"
    BY <1>3, <2>1 DEF Cut, ModeOK
  <2>2. CASE c # "tui"
    <3>1. req'["tui"] = req["tui"] /\ UNCHANGED screen
      BY <1>1, <1>3, <2>2 DEF Cut
    <3> QED BY <3>1 DEF ModeOK, screen
  <2> QED BY <2>1, <2>2
<1>4. ASSUME NEW c \in Others, Call(c) PROVE ModeOK'
  <2>1. c # "tui" /\ UNCHANGED screen /\ \E r : req' = [req EXCEPT ![c] = r]
    BY <1>4, DraftsAssumption, Zenon DEF Call, Start
  <2>2. req'["tui"] = req["tui"]
    BY <1>1, <2>1
  <2> QED BY <2>1, <2>2 DEF ModeOK, screen
<1>5. CASE Composing
  BY <1>5, Zenon DEF ModeOK, Composing, Compose, Prefill, Edit, ComposeAttach, RemoveAttachment, Save, Send,
     Escape, ConfirmDiscard, Command, ListDrafts, OpenDraft, BeginDelete, ConfirmDelete, Keys, Free,
     screen
<1>6. CASE Answers
  <2>1. req["tui"].pc \in {"done", "load"}
    BY <1>6, Zenon DEF Answers, OnSaved, OnSent, OnListed, OnOpened, OnDeleted, Answered, Loaded, At
  <2>2. doomed = Null
    BY <1>1, <2>1 DEF ModeOK, RequestOK
  <2> QED
    BY <1>6, <2>2, Zenon DEF ModeOK, Answers, OnSaved, OnSent, OnListed, OnOpened, OnDeleted, screen
<1>7. CASE UNCHANGED dvars
  BY <1>7 DEF ModeOK, dvars
<1> QED
  BY <1>2, <1>3, <1>4, <1>5, <1>6, <1>7 DEF DraftsNext

\* The tables and the screen have their types: no attachment outlives its draft, and
\* the composer is there in its own modes.
THEOREM DraftsTypes == DraftsSpec => []DraftsTypeOK
<1>1. DraftsInit => ModeOK
  BY NoReqType DEF DraftsInit, ModeOK, Clients
<1>2. IInv /\ ModeOK => DraftsTypeOK
  <2> SUFFICES ASSUME IInv, ModeOK PROVE DraftsTypeOK
    OBVIOUS
  <2>1. TableTypes /\ ScreenTypes
    BY DEF IInv, Types
  <2>2. used \subseteq DraftIds
    BY <2>1, DraftsAssumption DEF TableTypes
  <2>3. atts \subseteq [draft : used, rev : Nat, file : Files]
    BY <2>1 DEF TableTypes, AttRecords
  <2> QED BY <2>1, <2>2, <2>3 DEF DraftsTypeOK, TableTypes, ScreenTypes, ModeOK
<1> QED BY <1>1, <1>2, NextMode, InductiveInvariant, PTL DEF DraftsSpec

=============================================================================
