---------------------------- MODULE ApprovalView ----------------------------
(***************************************************************************)
(* What the terminal client shows of a call that waits for a decision: the *)
(* rows of its approvals list, each enriched with what the daemon stores   *)
(* under the ids in the call's arguments (src/tui/mod.rs, src/tui/app.rs,  *)
(* src/tui/render.rs).  The lookups are requests of their own, so drafts   *)
(* and messages change, and approvals are asked for and decided, between   *)
(* the list, the lookups and the moment the rows are applied.  Which       *)
(* approvals are listed at all is the subject of Mailbox.                  *)
(***************************************************************************)
EXTENDS Tools, Sequences, SequencesExt

CONSTANTS
    AskedCalls,   \* the calls agents ask for: [tool, args, row]; `row' is the draft or
                  \* message the id in the arguments names
    DraftRows, MessageRows,
    MaxAsked,     \* approvals asked for in a behaviour
    MaxVersion,   \* versions of a stored row
    MaxLive       \* MAX_LIVE_APPROVALS

VARIABLES
    stored,   \* the version of each row, 0 once it is deleted
    asks,    \* the approvals, oldest first: [call, since, pending]
    news,     \* approval events the client has not taken; each topic has its own forwarder
    listed,   \* AppState::approvals.items
    task      \* the refresh or the event that is being enriched

viewVars == <<stored, asks, news, listed, task>>

Nobody == [todo |-> <<>>, got |-> {}, how |-> "none"]

-----------------------------------------------------------------------------
(* arg_text: a string with text in it, or an array with one.               *)
ArgText(args, key) == key \in DOMAIN args /\ args[key] \notin {"empty", "blank", "null", "none"}

(* ApprovalTargetContext::from_args with non_empty: the parts of the       *)
(* target that the arguments themselves spell out.                         *)
FromArgs(args) ==
    LET Keys == [target     |-> {"subject", "filename", "folder", "folder_name"},
                 from       |-> {"from", "from_addr"},
                 to         |-> {"to", "to_addrs"},
                 snippet    |-> {"snippet", "body", "text_body"},
                 attachment |-> {"filename"}]
        parts == {p \in DOMAIN Keys : \E k \in Keys[p] : ArgText(args, k)}
    IN [by |-> IF parts = {} THEN "nothing" ELSE "args", row |-> "none", version |-> 0, parts |-> parts]

(* from_message and from_draft: a row as it is stored when it is read; it  *)
(* has a text.                                                             *)
FromMessage(row, version) ==
    [by |-> "row", row |-> row, version |-> version, parts |-> {"target", "from", "to", "snippet"}]
FromDraft(row, version) ==
    [by |-> "row", row |-> row, version |-> version, parts |-> {"target", "to", "snippet"}]

(* approval_message_id, approval_draft_id: whether the arguments hold an   *)
(* id of that kind.                                                        *)
MessageId(call) ==
    \/ "message_id" \in DOMAIN call.args
    \/ /\ call.tool \in {"message_delete", "message_get", "message_move", "message_set_flags"}
       /\ "id" \in DOMAIN call.args
DraftId(call) ==
    \/ "draft_id" \in DOMAIN call.args
    \/ call.tool \in {"draft_delete", "draft_update"} /\ "id" \in DOMAIN call.args

(* enrich_approval, with `found' the lookups that are answered: the        *)
(* message, else the draft, else what the arguments say.  The lookup of an *)
(* attachment, which comes first, is for tools with an attachment_id; the  *)
(* catalogue has none.                                                     *)
Enriched(call, found) ==
    LET Read(rows) == call.row \in rows /\ call.row \in DOMAIN stored /\ stored[call.row] # 0
    IN IF MessageId(call) /\ "message" \in found /\ Read(MessageRows)
         THEN FromMessage(call.row, stored[call.row])
       ELSE IF DraftId(call) /\ "draft" \in found /\ Read(DraftRows)
         THEN FromDraft(call.row, stored[call.row])
       ELSE FromArgs(call.args)

(* compact_args_summary is empty only for an empty object.                 *)
ArgsSummary(args) == args # NoFields

(* The row's text: ApprovalTargetContext::row_summary, else the arguments. *)
RowSummary(item) ==
    \/ {"attachment", "target", "to"} \cap item.context.parts # {}
    \/ ArgsSummary(item.call.args)

(* approval_unresolved_target_note                                         *)
UnresolvedNote(item) ==
    {"message_id", "draft_id", "attachment_id"} \cap DOMAIN item.call.args # {}

(* approval_detail_lines with approval_header_meta_line: the blocks of the *)
(* detail; the tool and the arguments always end it.                       *)
DetailLines(item) ==
    LET parts == item.context.parts
    IN {IF {"target", "attachment"} \cap parts # {} THEN "subject" ELSE "action", "arguments"}
       \cup (IF {"from", "to"} \cap parts # {} THEN {"meta"} ELSE {})
       \cup (IF item.context.by = "nothing" /\ UnresolvedNote(item) THEN {"note"} ELSE {})
       \cup (IF "snippet" \in parts THEN {"snippet"} ELSE {})

-----------------------------------------------------------------------------
ViewStart ==
    /\ stored = [r \in DraftRows \cup MessageRows |-> 1]
    /\ asks = <<>> /\ news = {} /\ listed = {} /\ task = Nobody

(* mcp.approval.create, from a bridge.                                     *)
AskFor ==
    \E call \in AskedCalls :
        /\ Len(asks) < MaxAsked
        /\ asks' = Append(asks, [call  |-> call, pending |-> TRUE,
                                   since |-> IF call.row \in DOMAIN stored THEN stored[call.row] ELSE 0])
        /\ news' = news \cup {[topic |-> "requested", n |-> Len(asks')]}
        /\ UNCHANGED <<stored, listed, task>>

(* mcp.approval.decide or mcp.approval.expire, from another client.        *)
Settle ==
    \E n \in DOMAIN asks :
        /\ asks[n].pending /\ asks' = [asks EXCEPT ![n].pending = FALSE]
        /\ news' = news \cup {[topic |-> "decided", n |-> n]}
        /\ UNCHANGED <<stored, listed, task>>

(* A draft is saved or a message flagged, or the row is deleted; rows that *)
(* no call names are never read.                                           *)
ChangeRow ==
    \E r \in DOMAIN stored \cap {asks[n].call.row : n \in DOMAIN asks} :
        /\ stored[r] # 0
        /\ \/ stored[r] < MaxVersion /\ stored' = [stored EXCEPT ![r] = @ + 1]
           \/ stored' = [stored EXCEPT ![r] = 0]
        /\ UNCHANGED <<asks, news, listed, task>>

(* on_daemon_event_with_context and, for a decision, on_daemon_event with  *)
(* remove_approval_by_id.                                                  *)
TakeNews ==
    \E e \in news :
        /\ task = Nobody /\ news' = news \ {e}
        /\ \/ /\ e.topic = "requested" /\ UNCHANGED listed
              /\ task' = [todo |-> <<e.n>>, got |-> {}, how |-> "merge"]
           \/ /\ e.topic = "decided" /\ UNCHANGED task
              /\ listed' = {i \in listed : i.n # e.n}
        /\ UNCHANGED <<stored, asks>>

(* refresh_approvals: the pending approvals, newest first.                 *)
Refresh ==
    /\ task = Nobody
    /\ LET all == SelectSeq([i \in DOMAIN asks |-> Len(asks) + 1 - i], LAMBDA n : asks[n].pending)
       IN IF all = <<>> THEN listed' = {} /\ UNCHANGED task
          ELSE task' = [todo |-> all, got |-> {}, how |-> "apply"] /\ UNCHANGED listed
    /\ UNCHANGED <<stored, asks, news>>

Mutant_Merge(items) ==
    LET all == listed \cup items
    IN {i \in all : Cardinality({j \in all : j.n > i.n}) < MaxLive}

(* merge_approval_request: one row per approval, the newest MaxLive.       *)
Merge(items) ==
    LET kept == {i \in listed : \A j \in items : i.n # j.n}
        all  == kept \cup items
    IN {i \in all : Cardinality({j \in all : j.n > i.n}) < MaxLive}

(* One turn of enrich_approvals, each lookup answered or failing; after    *)
(* the last one the rows are applied without another await.                *)
Enrich ==
    \E found \in SUBSET {"message", "draft"} :
        LET n    == Head(task.todo)
            item == [n |-> n, call |-> asks[n].call, context |-> Enriched(asks[n].call, found)]
            got  == task.got \cup {item}
        IN /\ task.todo # <<>>
           /\ IF Len(task.todo) > 1
                THEN task' = [task EXCEPT !.todo = Tail(@), !.got = got] /\ UNCHANGED listed
                ELSE task' = Nobody /\ listed' = IF task.how = "merge" THEN Merge(got) ELSE got
           /\ UNCHANGED <<stored, asks, news>>

ViewNext == AskFor \/ Settle \/ ChangeRow \/ TakeNews \/ Refresh \/ Enrich

-----------------------------------------------------------------------------
(* The row that carrying out the call reads or changes (dispatcher.rs).    *)
ActsOn(call) ==
    IF call.tool \in {"draft_update", "draft_delete", "message_set_flags", "message_send"}
      THEN call.row ELSE "none"

(* An approval has one row in the list, however events, refreshes and      *)
(* lookups interleave (merge_approval_request).  The target it shows is    *)
(* the one the call acts on, as it was stored when the call was asked for  *)
(* or later, and never another row's (enrich_approval).  Every row tells   *)
(* what is asked (row_summary), and the detail of a call to send a draft   *)
(* shows its subject and its recipients, or says that it could not be read *)
(* (approval_detail_lines).                                                *)
ApprovalsTrue ==
    \A i \in listed :
        /\ \A j \in listed : j.n = i.n => j = i
        /\ i.context.by = "row" => /\ i.context.row = ActsOn(i.call)
                                   /\ i.context.version >= asks[i.n].since
        /\ RowSummary(i)
        /\ i.call.tool = "message_send" =>
             {"subject", "meta"} \subseteq DetailLines(i) \/ "note" \in DetailLines(i)
=============================================================================
