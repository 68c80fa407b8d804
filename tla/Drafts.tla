--------------------------------- MODULE Drafts ---------------------------------
(***************************************************************************)
(* Drafts and sending: the composer of the TUI (tui/mod.rs, tui/app.rs),   *)
(* the draft.* and message.send handlers (daemon/dispatcher.rs) on the     *)
(* drafts and draft_attachments tables, and SMTP submission (smtp/mod.rs). *)
(*                                                                         *)
(* What a user writes is one of Texts, or Null for nothing at all; a file  *)
(* stands for its name and bytes.  Every SQL statement of a handler is a   *)
(* step; draft.update is one transaction.  "tui" is the modelled TUI, the  *)
(* others are clients that call the same operations in any order.          *)
(***************************************************************************)
EXTENDS Naturals, FiniteSets

CONSTANTS
  Others,          \* the other clients: a second TUI, MCP bridges
  DraftIds,        \* 1..n: the drafts there may be
  Texts, Files,
  Null,
  DraftScenarios  \* what may happen (see Hazards), and the draft ids there are then

Clients == {"tui"} \cup Others
\* The other clients act; SQL statements, attachment files and submissions fail;
\* the server may time out after it took a message; connections break.
Hazards == {"others", "sql", "file", "smtp", "cut"}

Rows == [text : Texts \cup {Null}, files : SUBSET Files, by : Clients, rev : Nat]
Composers == [id : DraftIds \cup {Null}, text : Texts \cup {Null}, atts : SUBSET Files,
              dirty : BOOLEAN]

ASSUME DraftsAssumption ==
  /\ DraftScenarios \subseteq [hazards : SUBSET Hazards, ids : SUBSET DraftIds]
  /\ DraftIds \subseteq Nat /\ IsFiniteSet(Others) /\ "tui" \notin Others
  /\ Null \notin DraftIds /\ Null \notin Texts
  /\ Null \notin Rows /\ Null \notin Composers /\ \A files \in SUBSET Files : files # Null

VARIABLES
  drafts,    \* the drafts table: a row, or Null
  atts,      \* the draft_attachments table
  used,      \* the draft ids handed out
  req,       \* the request of each client, in progress at the daemon
  composer,  \* AppState::composer
  mode,      \* AppState::mode
  pane,      \* AppState::drafts: the drafts the TUI lists
  doomed,    \* AppState::pending_delete_draft
  sent,      \* the drafts that were sent and then deleted
  halved,    \* drafts whose creation was cut off or disturbed, or could not be undone
  scenario

table == <<drafts, atts, used>>
screen == <<composer, mode, pane, doomed>>
dvars == <<drafts, atts, used, req, composer, mode, pane, doomed, sent, halved, scenario>>

\* files: what the writer asked for, by: who wrote last, rev: stands for updated_at
\* and, in an attachment, for its row id.
Row(text, files, by, rev) == [text |-> text, files |-> files, by |-> by, rev |-> rev]
AttRows(d, rev, files) == [draft : {d}, rev : {rev}, file : files]
AttsOf(d) == {a \in atts : a.draft = d}
FilesIn(rows) == {a.file : a \in rows}
FilesOf(d) == FilesIn(AttsOf(d))

\* doc: the arguments, whose files are Null where the field is absent; row: the
\* draft read; todo and got: what is left and what is done of the attachments;
\* then: what the TUI does with the answer.
Request(op, pc, d, doc, then, res) ==
  [op |-> op, pc |-> pc, d |-> d, doc |-> doc, row |-> Null, todo |-> {}, got |-> {},
   calm |-> TRUE, later |-> FALSE, then |-> then, res |-> res]
NoReq == Request("none", "idle", Null, Null, "none", "none")
Start(c, op, pc, d, doc, then) ==
  req' = [req EXCEPT ![c] = Request(op, pc, d, doc, then, "none")]
\* A client that has no id creates.
Writes(d) == IF d = Null THEN [op |-> "create", pc |-> "insert"] ELSE [op |-> "update", pc |-> "commit"]
At(c, ops, pc) == req[c].op \in ops /\ req[c].pc = pc
Step(c, pc) == req' = [req EXCEPT ![c] = [@ EXCEPT !.pc = pc]]
\* The answer; only the modelled TUI does something with it.
Done(c, res) ==
  req' = [req EXCEPT ![c] = IF c # "tui" THEN NoReq
                            ELSE Request(@.op, "done", @.d, Null, @.then, res)]
\* The revisions that rows and requests hold, and the least one they do not.
Held(d) ==
  {drafts[d].rev} \cup {a.rev : a \in AttsOf(d)}
  \cup (UNION {{a.rev : a \in req[c].todo} : c \in {x \in Clients : req[x].pc = "load"}})
  \cup {req[c].row.rev : c \in {x \in Clients : req[x].pc = "list"}}
NewRevs(d) ==
  {r \in 0..Cardinality(Held(d)) : r \notin Held(d) /\ \A i \in 0..(r - 1) : i \in Held(d)}
DeleteRow(d) ==   \* attachments go by ON DELETE CASCADE
  /\ drafts' = [drafts EXCEPT ![d] = Null]
  /\ atts' = atts \ AttsOf(d)
Creating(d) ==
  \E c \in Clients : /\ req[c].op = "create" /\ req[c].d = d
                    /\ req[c].pc \in {"clear", "attach", "undo"}

-----------------------------------------------------------------------------
(* The daemon: draft.create and draft.update.                              *)

\* take_attachment_specs, prepare_draft_attachments: every file is read before the
\* tables are touched.
Unreadable(c) ==
  /\ "file" \in scenario.hazards /\ req[c].pc \in {"insert", "commit"} /\ req[c].doc.files \notin {Null, {}}
  /\ Done(c, "err")
  /\ UNCHANGED <<table, screen, sent, halved, scenario>>

\* drafts::create; the attachments come next if the field was given.
Insert(c) ==
  /\ At(c, {"create"}, "insert")
  /\ LET doc == req[c].doc
         files == IF doc.files = Null THEN {} ELSE doc.files
     IN \E d \in scenario.ids \ used :
        /\ \A j \in scenario.ids \ used : d <= j
        /\ drafts' = [drafts EXCEPT ![d] = Row(doc.text, files, c, 0)]
        /\ used' = used \cup {d}
        /\ req' = [req EXCEPT ![c] = [@ EXCEPT !.d = d, !.todo = files, !.doc = Null,
                                               !.pc = IF doc.files = Null THEN "attach" ELSE "clear"]]
  /\ UNCHANGED <<atts, screen, sent, halved, scenario>>

\* delete_all_for_draft, which takes what another client attached meanwhile.
Clear(c) ==
  /\ At(c, {"create"}, "clear")
  /\ \/ atts' = atts \ AttsOf(req[c].d) /\ Step(c, "attach")
     \/ "sql" \in scenario.hazards /\ Step(c, "undo") /\ UNCHANGED atts
  /\ UNCHANGED <<drafts, used, screen, sent, halved, scenario>>

\* Mutant: a failed creation is left as it is.
Mutant_Attach(c) ==
  /\ At(c, {"create"}, "attach")
  /\ IF req[c].todo = {} THEN Done(c, "ok") /\ UNCHANGED atts
     ELSE \/ /\ drafts[req[c].d] # Null
             /\ \E f \in req[c].todo :
                  /\ atts' = atts \cup AttRows(req[c].d, 0, {f})
                  /\ req' = [req EXCEPT ![c] = [req[c] EXCEPT !.todo = @ \ {f}]]
          \/ (drafts[req[c].d] = Null \/ "sql" \in scenario.hazards) /\ Done(c, "err") /\ UNCHANGED atts
  /\ UNCHANGED <<drafts, used, screen, sent, halved, scenario>>

\* The rest of replace_draft_attachments: one statement per row, each of which fails once the
\* draft is gone (the foreign key) or the database does.
Attach(c) ==
  /\ At(c, {"create"}, "attach")
  /\ IF req[c].todo = {} THEN Done(c, "ok") /\ UNCHANGED atts
     ELSE \/ /\ drafts[req[c].d] # Null
             /\ \E f \in req[c].todo :
                  /\ atts' = atts \cup AttRows(req[c].d, 0, {f})
                  /\ req' = [req EXCEPT ![c] = [req[c] EXCEPT !.todo = @ \ {f}]]
          \/ (drafts[req[c].d] = Null \/ "sql" \in scenario.hazards) /\ Step(c, "undo") /\ UNCHANGED atts
  /\ UNCHANGED <<drafts, used, screen, sent, halved, scenario>>

\* The rollback of a failed creation is best effort.
Undo(c) ==
  /\ At(c, {"create"}, "undo") /\ Done(c, "err")
  /\ \/ DeleteRow(req[c].d) /\ UNCHANGED halved
     \/ "sql" \in scenario.hazards /\ halved' = halved \cup {req[c].d} /\ UNCHANGED <<drafts, atts>>
  /\ UNCHANGED <<used, screen, sent, scenario>>

\* Mutant: an update of a draft that is gone writes it anew.
Mutant_Commit(c) ==
  /\ At(c, {"update"}, "commit")
  /\ LET d == req[c].d
         doc == req[c].doc
         gone == drafts[d] = Null
         files == IF doc.files # Null THEN doc.files ELSE IF gone THEN {} ELSE drafts[d].files
     IN \E rev \in IF gone THEN {0} ELSE NewRevs(d) :
        /\ Done(c, "ok")
        /\ drafts' = [drafts EXCEPT ![d] = Row(doc.text, files, c, rev)]
        /\ atts' = IF doc.files = Null THEN atts ELSE (atts \ AttsOf(d)) \cup AttRows(d, rev, files)
        /\ halved' = IF Creating(d) THEN halved \cup {d} ELSE halved
  /\ UNCHANGED <<used, screen, sent, scenario>>

\* The transaction of draft.update; a draft that is gone is answered by null.  While
\* the draft is still being created the two writers' attachments mix.
Commit(c) ==
  /\ At(c, {"update"}, "commit")
  /\ LET d == req[c].d
         doc == req[c].doc
         old == drafts[d]
         files == IF doc.files = Null THEN old.files ELSE doc.files
     IN IF old = Null THEN Done(c, "null") /\ UNCHANGED <<drafts, atts, halved>>
        ELSE \E rev \in NewRevs(d) :
             /\ Done(c, "ok")
             /\ drafts' = [drafts EXCEPT ![d] = Row(doc.text, files, c, rev)]
             /\ atts' = IF doc.files = Null THEN atts
                        ELSE (atts \ AttsOf(d)) \cup AttRows(d, rev, files)
             /\ halved' = IF Creating(d) THEN halved \cup {d}
                          ELSE IF doc.files # Null THEN halved \ {d} ELSE halved
  /\ UNCHANGED <<used, screen, sent, scenario>>

-----------------------------------------------------------------------------
(* The daemon: draft.delete, draft.list, draft.get.                        *)

DraftDelete(c) ==
  /\ At(c, {"delete"}, "delete") /\ DeleteRow(req[c].d) /\ Done(c, "ok")
  /\ UNCHANGED <<used, screen, sent, halved, scenario>>

DraftList(c) ==
  /\ At(c, {"list"}, "read")
  /\ req' = [req EXCEPT ![c] = [@ EXCEPT !.got = {d \in DraftIds : drafts[d] # Null},
                                         !.pc = "done", !.res = "ok"]]
  /\ UNCHANGED <<table, screen, sent, halved, scenario>>

\* drafts::get of draft.get.
ReadDraft(c) ==
  /\ At(c, {"get"}, "read")
  /\ IF drafts[req[c].d] = Null THEN Done(c, "null")
     ELSE req' = [req EXCEPT ![c] = [@ EXCEPT !.row = drafts[req[c].d], !.pc = "list"]]
  /\ UNCHANGED <<table, screen, sent, halved, scenario>>

\* list_for_draft, of draft.get and message.send; calm: no one wrote the draft since
\* it was read and its creation is complete.
ListAttachments(c) ==
  /\ At(c, {"get", "send"}, "list")
  /\ LET d == req[c].d
         row == req[c].row
         calm == drafts[d] # Null /\ drafts[d].rev = row.rev /\ ~Creating(d) /\ d \notin halved
     IN req' = [req EXCEPT ![c] = [@ EXCEPT !.todo = AttsOf(d), !.pc = "load", !.calm = calm,
                                            !.row = [row EXCEPT !.rev = 0]]]
  /\ UNCHANGED <<table, screen, sent, halved, scenario>>

\* load_content, row by row: one that is gone ends the request.
LoadAttachment(c) ==
  /\ At(c, {"get", "send"}, "load") /\ req[c].todo # {}
  /\ \E a \in req[c].todo :
       IF a \in atts
       THEN req' = [req EXCEPT ![c] = [req[c] EXCEPT !.todo = @ \ {a}, !.got = @ \cup {a.file}]]
       ELSE Done(c, "err")
  /\ UNCHANGED <<table, screen, sent, halved, scenario>>

-----------------------------------------------------------------------------
(* The daemon: message.send.                                               *)

\* The draft is read and its account and recipients checked; then the credential
\* is fetched, which may fail.  later: the draft was sent and deleted before.
ReadForSend(c) ==
  /\ At(c, {"send"}, "read")
  /\ LET d == req[c].d
     IN IF drafts[d] = Null THEN Done(c, "err")
        ELSE req' = [req EXCEPT ![c] = [@ EXCEPT !.row = drafts[d], !.pc = "list",
                                                 !.later = d \in sent]]
  /\ UNCHANGED <<table, screen, sent, halved, scenario>>

Refuse(c) ==
  /\ "smtp" \in scenario.hazards /\ At(c, {"send"}, "read") /\ Done(c, "err")
  /\ UNCHANGED <<table, screen, sent, halved, scenario>>

\* SmtpSubmitter::submit: accepted; or refused, or accepted and the answer lost, of
\* which the daemon cannot tell.
Ready(c) == At(c, {"send"}, "load") /\ req[c].todo = {}
Submit(c) ==
  /\ Ready(c)
  /\ \/ Start(c, "send", "drop", req[c].d, Null, "none")
     \/ "smtp" \in scenario.hazards /\ Done(c, "err")
  /\ UNCHANGED <<table, screen, sent, halved, scenario>>

\* drafts::delete after the submission; its failure is logged, the send a success.
Drop(c) ==
  /\ At(c, {"send"}, "drop") /\ Done(c, "ok")
  /\ \/ DeleteRow(req[c].d) /\ sent' = sent \cup {req[c].d}
     \/ "sql" \in scenario.hazards /\ UNCHANGED <<drafts, atts, sent>>
  /\ UNCHANGED <<used, screen, halved, scenario>>

\* Any other statement that fails ends its request.
SqlError(c) ==
  /\ "sql" \in scenario.hazards
  /\ \/ req[c].pc \in {"insert", "commit", "delete", "read", "list"}
     \/ req[c].pc = "load" /\ req[c].todo # {}
  /\ Done(c, "err")
  /\ UNCHANGED <<table, screen, sent, halved, scenario>>

Daemon(c) ==
  \/ Unreadable(c) \/ Insert(c) \/ Clear(c) \/ Attach(c) \/ Undo(c) \/ Commit(c)
  \/ DraftDelete(c) \/ DraftList(c) \/ ReadDraft(c) \/ ListAttachments(c) \/ LoadAttachment(c)
  \/ ReadForSend(c) \/ Refuse(c) \/ Submit(c) \/ Drop(c) \/ SqlError(c)

-----------------------------------------------------------------------------
(* The TUI: composing.  A key handler that calls the daemon waits for the  *)
(* answer, so that keys are read only when no request is in progress.      *)

Free == req["tui"].op = "none"
Keys(m) == Free /\ mode = m
Composer(id, text, files, dirty) == [id |-> id, text |-> text, atts |-> files, dirty |-> dirty]
HasContent(k) == k.text # Null \/ k.atts # {}
Quiet == UNCHANGED <<table, sent, halved, scenario>>

\* `c`, and :compose, which the command bar takes from the composer too:
\* enter_composer.
Compose ==
  /\ Free /\ mode \in {"normal", "compose"}
  /\ composer' = Composer(Null, Null, {}, FALSE) /\ mode' = "compose"
  /\ UNCHANGED <<req, pane, doomed>> /\ Quiet

\* run_reply and run_forward, by key or command: enter_composer_with_prefill with
\* the attachments that could be carried over.
Prefill ==
  /\ Free /\ mode \in {"normal", "compose"} /\ mode' = "compose"
  /\ \E t \in Texts, files \in SUBSET Files : composer' = Composer(Null, t, files, TRUE)
  /\ UNCHANGED <<req, pane, doomed>> /\ Quiet

\* push_composer_char and the other edits of a field.
Edit ==
  /\ Keys("compose")
  /\ \E t \in Texts \cup {Null} : composer' = [composer EXCEPT !.text = t, !.dirty = TRUE]
  /\ UNCHANGED <<req, mode, pane, doomed>> /\ Quiet

\* Mutant: the composer does not notice the new attachment.
Mutant_ComposeAttach ==
  /\ Keys("compose")
  /\ \E f \in Files : composer' = [composer EXCEPT !.atts = @ \cup {f}]
  /\ UNCHANGED <<req, mode, pane, doomed>> /\ Quiet

\* Ctrl-A, the path prompt and confirm_compose_attach; a path that is refused, or
\* Esc, changes nothing.
ComposeAttach ==
  /\ Keys("compose")
  /\ \E f \in Files : composer' = [composer EXCEPT !.atts = @ \cup {f}, !.dirty = TRUE]
  /\ UNCHANGED <<req, mode, pane, doomed>> /\ Quiet

\* Ctrl-K: remove_selected_compose_attachment.
RemoveAttachment ==
  /\ Keys("compose")
  /\ \E f \in composer.atts : composer' = [composer EXCEPT !.atts = @ \ {f}, !.dirty = TRUE]
  /\ UNCHANGED <<req, mode, pane, doomed>> /\ Quiet

\* save_composer: draft.update once the draft has an id, else draft.create; the
\* attachments are always given.
Doc == [text |-> composer.text, files |-> composer.atts]
StartSave(then) ==
  Start("tui", Writes(composer.id).op, Writes(composer.id).pc, composer.id, Doc, then)

\* Ctrl-S, or :w from the command bar.
Save ==
  /\ Free /\ composer # Null /\ mode \in {"normal", "compose"}
  /\ StartSave("none") /\ mode' = "compose"
  /\ UNCHANGED <<composer, pane, doomed>> /\ Quiet

\* Mutant: an edited draft that was saved once is sent as it is.
Mutant_Send ==
  /\ Keys("compose")
  /\ IF composer.id # Null THEN Start("tui", "send", "read", composer.id, Doc, "none")
     ELSE StartSave("send")
  /\ UNCHANGED <<screen>> /\ Quiet

\* Ctrl-X: send_composer saves first unless the composer is clean.
Send ==
  /\ Keys("compose")
  /\ IF composer.id # Null /\ ~composer.dirty
       THEN Start("tui", "send", "read", composer.id, Doc, "none")
       ELSE StartSave("send")
  /\ UNCHANGED <<screen>> /\ Quiet

\* Esc: unsaved content asks first.
Escape ==
  /\ Keys("compose")
  /\ IF composer.dirty /\ HasContent(composer) THEN mode' = "discard" /\ UNCHANGED composer
     ELSE composer' = Null /\ mode' = "normal"
  /\ UNCHANGED <<req, pane, doomed>> /\ Quiet

\* y: discard_composer; n: cancel_discard_composer_confirmation.
ConfirmDiscard ==
  /\ Keys("discard")
  /\ \/ composer' = Null /\ mode' = "normal"
     \/ mode' = "compose" /\ UNCHANGED composer
  /\ UNCHANGED <<req, pane, doomed>> /\ Quiet

\* The command bar's other lines: Esc and commands that touch no draft return to the
\* composer if there is one; :delete asks about a message and ends in normal mode.
Command ==
  /\ Free /\ mode \in {"normal", "compose"}
  /\ mode' \in {IF composer = Null THEN "normal" ELSE "compose", "delete"}
  /\ UNCHANGED <<req, composer, pane, doomed>> /\ Quiet

-----------------------------------------------------------------------------
(* The TUI: the drafts list.                                               *)

\* refresh_drafts and open_selected_draft.
ListDrafts ==
  /\ Keys("normal") /\ Start("tui", "list", "read", Null, Null, "none")
  /\ UNCHANGED <<screen>> /\ Quiet

OpenDraft ==
  /\ Keys("normal")
  /\ \E d \in pane : Start("tui", "get", "read", d, Null, "none")
  /\ UNCHANGED <<screen>> /\ Quiet

\* begin_draft_delete, and the answer to "Delete draft? y/n": delete_pending_draft
\* drops the row from the list before it asks the daemon.
BeginDelete ==
  /\ Keys("normal")
  /\ \E d \in pane : doomed' = d
  /\ mode' = "delete"
  /\ UNCHANGED <<req, composer, pane>> /\ Quiet

ConfirmDelete ==
  /\ Keys("delete") /\ mode' = "normal" /\ doomed' = Null
  /\ \/ /\ doomed # Null /\ pane' = pane \ {doomed}
        /\ Start("tui", "delete", "delete", doomed, Null, "none")
     \/ UNCHANGED <<req, pane>>
  /\ UNCHANGED <<composer>> /\ Quiet

-----------------------------------------------------------------------------
(* The TUI: what it does with an answer.                                   *)

Answered(ops) == At("tui", ops, "done")
Loaded == At("tui", {"get"}, "load") /\ req["tui"].todo = {}
Hang == req' = [req EXCEPT !["tui"] = NoReq]

\* mark_composer_saved; a send goes on, any failure leaves the composer as it is.
OnSaved ==
  /\ Answered({"create", "update"})
  /\ IF req["tui"].res # "ok" THEN Hang /\ UNCHANGED composer
     ELSE /\ composer' = [composer EXCEPT !.id = req["tui"].d, !.dirty = FALSE]
          /\ IF req["tui"].then = "send" THEN Start("tui", "send", "read", req["tui"].d, Doc, "none")
             ELSE Hang
  /\ UNCHANGED <<mode, pane, doomed>> /\ Quiet

\* exit_composer; after a failure the user may send again.
OnSent ==
  /\ Answered({"send"}) /\ Hang
  /\ IF req["tui"].res = "ok" THEN composer' = Null /\ mode' = "normal"
     ELSE UNCHANGED <<composer, mode>>
  /\ UNCHANGED <<pane, doomed>> /\ Quiet

OnListed ==
  /\ Answered({"list"}) /\ Hang
  /\ pane' = IF req["tui"].res = "ok" THEN req["tui"].got ELSE pane
  /\ UNCHANGED <<composer, mode, doomed>> /\ Quiet

\* enter_composer_for_existing_draft, clean, once composer_draft_from_summary has
\* written the attachments to files.
OnOpened ==
  /\ (Loaded \/ Answered({"get"})) /\ Hang
  /\ \/ /\ Loaded /\ mode' = "compose"
        /\ composer' = Composer(req["tui"].d, req["tui"].row.text, req["tui"].got, FALSE)
     \/ /\ Loaded => "file" \in scenario.hazards /\ req["tui"].got # {}
        /\ UNCHANGED <<composer, mode>>
  /\ UNCHANGED <<pane, doomed>> /\ Quiet

\* A delete that failed: the list is fetched again.
OnDeleted ==
  /\ Answered({"delete"})
  /\ IF req["tui"].res = "ok" THEN Hang ELSE Start("tui", "list", "read", Null, Null, "none")
  /\ UNCHANGED <<screen>> /\ Quiet

Answers == OnSaved \/ OnSent \/ OnListed \/ OnOpened \/ OnDeleted

Composing ==
  \/ Compose \/ Prefill \/ Edit \/ ComposeAttach \/ RemoveAttachment
  \/ Save \/ Send \/ Escape \/ ConfirmDiscard \/ Command
  \/ ListDrafts \/ OpenDraft \/ BeginDelete \/ ConfirmDelete

-----------------------------------------------------------------------------
(* The other clients; broken connections.                                  *)

\* Another client's request: the text, and the attachments if it names any.
Call(c) ==
  /\ "others" \in scenario.hazards /\ req[c].op = "none"
  /\ \/ \E d \in used, op \in {"send", "delete"} :
          Start(c, op, IF op = "send" THEN "read" ELSE "delete", d, Null, "none")
     \/ \E d \in used \cup {Null}, t \in Texts, files \in {Null} \cup SUBSET Files :
          Start(c, Writes(d).op, Writes(d).pc, d, [text |-> t, files |-> files], "none")
  /\ UNCHANGED <<screen>> /\ Quiet

\* The connection of a client closes, or the daemon stops: the handler is dropped at
\* the await it is at.  A TUI that lost its connection ends and is started anew.
Cut(c) ==
  /\ "cut" \in scenario.hazards /\ (c = "tui" \/ req[c].op # "none")
  /\ req' = [req EXCEPT ![c] = NoReq]
  /\ halved' = halved \cup {d \in used : req[c].op = "create" /\ req[c].d = d /\ Creating(d)}
  /\ IF c = "tui" THEN composer' = Null /\ mode' = "normal" /\ pane' = {} /\ doomed' = Null
     ELSE UNCHANGED screen
  /\ UNCHANGED <<table, sent, scenario>>

-----------------------------------------------------------------------------
DraftsInit ==
  /\ drafts = [d \in DraftIds |-> Null] /\ atts = {} /\ used = {}
  /\ req = [c \in Clients |-> NoReq]
  /\ composer = Null /\ mode = "normal" /\ pane = {} /\ doomed = Null
  /\ sent = {} /\ halved = {}
  /\ scenario \in DraftScenarios

DraftsNext ==
  \/ Composing \/ Answers
  \/ \E c \in Clients : Daemon(c) \/ Cut(c)
  \/ \E c \in Others : Call(c)

DraftsSpec == DraftsInit /\ [][DraftsNext]_dvars

-----------------------------------------------------------------------------
(* Properties.                                                             *)

\* Rows, requests and the screen have their types; the composer is there in its
\* own modes.
DraftsTypeOK ==
  /\ drafts \in [DraftIds -> {Null} \cup Rows]
  /\ atts \subseteq [draft : used, rev : Nat, file : Files]
  /\ used \subseteq DraftIds /\ halved \subseteq used /\ pane \subseteq used
  /\ \A a \in atts : drafts[a.draft] # Null
  /\ composer \in {Null} \cup Composers /\ (composer # Null => composer.id \in {Null} \cup used)
  /\ mode \in {"normal", "compose", "discard", "delete"}
  /\ mode \in {"compose", "discard"} => composer # Null
  /\ doomed # Null => mode = "delete"

\* A composer that claims to be saved shows what the drafts table holds, text and
\* attachments, as long as no other client wrote the draft, or is still creating it
\* (send_composer relies on it: a clean composer is sent without saving).
CleanIsSaved ==
  composer # Null =>
    LET d == composer.id
    IN ~composer.dirty /\ d # Null =>
         (drafts[d] # Null /\ drafts[d].by = "tui" /\ d \notin halved =>
            drafts[d].text = composer.text /\ FilesOf(d) = composer.atts)

\* A message has the attachments of the draft version it has the text of, and what
\* the TUI sends is what its composer showed, unless another client wrote the draft
\* while message.send read it (dispatcher.rs reads row and attachments separately).
SentAsSaved ==
  \A c \in Clients : Ready(c) /\ req[c].calm =>
    LET m == [text |-> req[c].row.text, files |-> req[c].got]
    IN m.files = req[c].row.files /\ (c = "tui" /\ req[c].row.by = "tui" => m = req[c].doc)

\* A draft that message.send has sent and deleted is submitted once more only by a
\* send that had read it before that deletion (op_message_send reads, submits and
\* deletes without a guard, so that sends which overlap may both submit): never by
\* one that comes later, be it after a late draft.update.
NeverSentAgain == \A c \in Clients : Ready(c) /\ req[c].d \in sent => ~req[c].later

\* A draft lacks attachments it was saved with only while it is being created, or
\* when its creation was cut off, updated meanwhile or could not be undone ("so
\* callers can retry cleanly"): an update is all or nothing.
NoHalfDraft ==
  \A d \in used :
    drafts[d] # Null /\ FilesOf(d) # drafts[d].files => Creating(d) \/ d \in halved
=============================================================================
