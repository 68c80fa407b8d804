------------------------------- MODULE Tools -------------------------------
(***************************************************************************)
(* What the clients send: the bridge's tool catalogue with the fields it   *)
(* validates and the schema it advertises (src/mcp/tools.rs), the          *)
(* requests the bridge makes on its own behalf (src/mcp/server.rs), and    *)
(* the requests of the terminal client (src/tui/ipc.rs).                   *)
(***************************************************************************)
EXTENDS Calls

(* The catalogue, where find_tool looks a name up.  Names drop the common  *)
(* prefix postblox_.                                                       *)
ToolSpecs ==
    LET Tool(op, dangerous, required) ==
            [op |-> op, dangerous |-> dangerous, required |-> required]
    IN     "account_list"           :> Tool("account.list", FALSE, {})
        @@ "folder_list"            :> Tool("folder.list", FALSE, {"account_id"})
        @@ "thread_list"            :> Tool("thread.list", FALSE, {"account_id"})
        @@ "message_list_by_folder" :> Tool("message.list_by_folder", FALSE, {"folder_id"})
        @@ "message_list_by_thread" :> Tool("message.list_by_thread", FALSE, {"thread_id"})
        @@ "message_get"            :> Tool("message.get", FALSE, {"id"})
        @@ "search"                 :> Tool("search", FALSE, {"q"})
        @@ "draft_create"           :> Tool("draft.create", TRUE, {"account_id"} \cup AddressFields)
        @@ "draft_update"           :> Tool("draft.update", TRUE,
                                            {"id"} \cup AddressFields \cup BodyFields)
        @@ "draft_delete"           :> Tool("draft.delete", TRUE, {"id"})
        @@ "message_set_flags"      :> Tool("message.set_flags", TRUE, {"id", "flags"})
        @@ "message_send"           :> Tool("message.send", TRUE, {"account_id", "draft_id"})
        @@ "sql_query"              :> Tool("sql.query", TRUE, {"sql"})
        @@ "sql_schema"             :> Tool("sql.schema", FALSE, {})

-----------------------------------------------------------------------------
Up(n) == CASE n = 200  -> {"few"}
           [] n = 500  -> {"few", "many"}
           [] n = 1000 -> {"few", "many", "lots"}

(* field_kind: the fields a tool takes, by (tool, field).                  *)
FieldKind ==
    LET On(tools, fields, kind) == [tf \in tools \X fields |-> kind]
    IN     On({"folder_list", "thread_list", "draft_create", "message_send"}, {"account_id"}, "uuid")
        @@ On({"message_list_by_folder"}, {"folder_id"}, "uuid")
        @@ On({"message_list_by_thread"}, {"thread_id"}, "uuid")
        @@ On({"message_get", "draft_update", "draft_delete", "message_set_flags"}, {"id"}, "uuid")
        @@ On({"message_send"}, {"draft_id"}, "uuid")
        @@ On({"draft_create"}, {"in_reply_to_msg"}, "uuid?")
        @@ On({"search"}, {"q"}, "string")
        @@ On({"search"}, {"account_id", "folder_id", "thread_id"}, "uuid?")
        @@ On({"search"}, {"date_from", "date_to"}, "date?")
        @@ On({"search"}, {"from_addr", "to_addr"}, "string?")
        @@ On({"search"}, {"has_attachments", "unread"}, "boolean")
        @@ On({"draft_create", "draft_update"}, AddressFields, "strings")
        @@ On({"message_set_flags"}, {"flags"}, "strings")
        @@ On({"draft_create", "draft_update"}, BodyFields, "string?")
        @@ On({"thread_list", "message_list_by_folder"}, {"limit"}, "1..500")
        @@ On({"search"}, {"limit"}, "1..200")
        @@ On({"thread_list", "message_list_by_folder", "search"}, {"offset"}, "0..")
        @@ On({"sql_query"}, {"sql"}, "string")
        @@ On({"sql_query"}, {"limit"}, "1..1000")

(* validate_field: the values a kind lets through.                         *)
ValidField ==
       "string"  :> Strings
    @@ "string?" :> Strings \cup {"null"}
    @@ "uuid"    :> {"uuid"}
    @@ "uuid?"   :> {"uuid", "null"}
    @@ "date?"   :> {"date", "null"}
    @@ "strings" :> StringArrays
    @@ "boolean" :> {"bool"}
    @@ "1..200"  :> Up(200)
    @@ "1..500"  :> Up(500)
    @@ "1..1000" :> Up(1000)
    @@ "0.."     :> Ints \ {"neg"}

Mutant_ValidArguments(tool, args) ==
    /\ ToolSpecs[tool].required \subseteq DOMAIN args
    /\ \A f \in DOMAIN args :
           <<tool, f>> \in DOMAIN FieldKind => args[f] \in ValidField[FieldKind[<<tool, f>>]]

(* validate_arguments: an object (or null, taken as the empty one) that    *)
(* has the required fields, no field the tool does not know, and values of *)
(* the declared kinds.                                                     *)
ValidArguments(tool, args) ==
    /\ ToolSpecs[tool].required \subseteq DOMAIN args
    /\ \A f \in DOMAIN args :
           <<tool, f>> \in DOMAIN FieldKind /\ args[f] \in ValidField[FieldKind[<<tool, f>>]]

-----------------------------------------------------------------------------
(* input_schema: the properties tools/list advertises for a tool, as the   *)
(* schema builders spell them: the JSON types, the format and the range.   *)
InputSchema ==
    LET Addressed == [f \in AddressFields |-> "string_array"]
        Bodied    == [f \in BodyFields |-> "nullable_string"]
        Rows(n)   == [limit |-> n, offset |-> "integer 0.."]
    IN     [t \in {"account_list", "sql_schema"} |-> NoFields]
        @@ "folder_list"            :> [account_id |-> "uuid"]
        @@ "thread_list"            :> ([account_id |-> "uuid"] @@ Rows("integer 1..500"))
        @@ "message_list_by_folder" :> ([folder_id |-> "uuid"] @@ Rows("integer 1..500"))
        @@ "message_list_by_thread" :> [thread_id |-> "uuid"]
        @@ "message_get"            :> [id |-> "uuid"]
        @@ "search"                 :>
               ([q |-> "string"] @@ Rows("integer 1..200")
                @@ [f \in {"account_id", "folder_id", "thread_id"} |-> "nullable_uuid"]
                @@ [f \in {"date_from", "date_to"} |-> "nullable_rfc3339"]
                @@ [f \in {"from_addr", "to_addr"} |-> "nullable_string"]
                @@ [f \in {"has_attachments", "unread"} |-> "boolean"])
        @@ "draft_create"           :> ([account_id |-> "uuid", in_reply_to_msg |-> "nullable_uuid"]
                                        @@ Addressed @@ Bodied)
        @@ "draft_update"           :> ([id |-> "uuid"] @@ Addressed @@ Bodied)
        @@ "draft_delete"           :> [id |-> "uuid"]
        @@ "message_set_flags"      :> [id |-> "uuid", flags |-> "string_array"]
        @@ "message_send"           :> [account_id |-> "uuid", draft_id |-> "uuid"]
        @@ "sql_query"              :> [sql |-> "string", limit |-> "integer 1..1000"]

(* What a JSON Schema validator admits under each builder's schema.        *)
Admits(schema) ==
    CASE schema = "string"           -> Strings
      [] schema = "nullable_string"  -> Strings \cup {"null"}
      [] schema = "uuid"             -> {"uuid"}
      [] schema = "nullable_uuid"    -> {"uuid", "null"}
      [] schema = "nullable_rfc3339" -> {"date", "null"}
      [] schema = "boolean"          -> {"bool"}
      [] schema = "string_array"     -> StringArrays
      [] schema = "integer 1..200"   -> Up(200)
      [] schema = "integer 1..500"   -> Up(500)
      [] schema = "integer 1..1000"  -> Up(1000)
      [] schema = "integer 0.."      -> Ints \ {"neg"}

Advertised(tool, args) ==
    /\ ToolSpecs[tool].required \subseteq DOMAIN args
    /\ \A f \in DOMAIN args :
           f \in DOMAIN InputSchema[tool] /\ args[f] \in Admits(InputSchema[tool][f])

-----------------------------------------------------------------------------
(* Requests of the terminal client.  Sent(op, S): op with any of S.        *)
Sent(op, S) == {[op |-> op, args |-> a] : a \in S}

Id == {"uuid"}

UiReads ==
    Sent("account.list", {NoFields}) \cup Sent("folder.list", [account_id: Id])
    \cup Sent("message.list_by_folder", [folder_id: Id, limit: {"few"}, offset: {"zero"}])
    \cup Sent("message.get", [id: Id])

UiFolderCalls ==
    UNION {Sent(op, [account_id: Id, folder_name: {"word"}]) :
           op \in {"account.sync_folder", "account.start_sync", "account.stop_sync"}}

UiMessageCalls ==
    Sent("message.set_flags", [id: Id, flags: {"none", "words"}])
    \cup Sent("message.archive", [id: Id]) \cup Sent("message.delete", [id: Id])
    \cup Sent("message.move", [id: Id, folder_name: {"word"}])

UiAttachmentCalls ==
    Sent("attachment.list", [message_id: Id]) \cup Sent("attachment.preview", [id: Id])
    \cup Sent("attachment.export", [id: Id, destination_path: {"word"}])

(* create_draft, update_draft and the arguments they build from a composer.*)
UiDraftWrites ==
    LET Text  == {"null", "empty", "word"}
        Addrs == {"none", "words"}
    IN  Sent("draft.create",
             [account_id: Id, in_reply_to_msg: {"null", "uuid"}, to_addrs: Addrs,
              cc_addrs: {"words"}, bcc_addrs: {"none"}, subject: Text, text_body: Text,
              html_body: {"null"}, in_reply_to: {"null", "word"},
              references_header: {"null", "word"}, attachments: {"none", "specs"}])
        \cup Sent("draft.update",
             [id: Id, to_addrs: Addrs, cc_addrs: Addrs, bcc_addrs: {"none"}, subject: Text,
              text_body: Text, html_body: {"null"}, attachments: {"none", "specs"}])

UiDraftCalls ==
    Sent("message.send", [account_id: Id, draft_id: Id]) \cup Sent("draft.list", [account_id: Id])
    \cup Sent("draft.get", [id: Id]) \cup Sent("draft.delete", [id: Id])

UiSearches ==
    Sent("search", [q: {"word"}, limit: {"few"}] \cup [q: {"word"}, account_id: Id, limit: {"few"}])

UiApprovalCalls ==
    Sent("mcp.approval.list", [state: {"pending"}, limit: {"few"}, offset: {"zero"}])

(* decide_approval and approval_decide_args: the decision is signed "tui". *)
UiDecisions ==
    Sent("mcp.approval.decide", [id: Id, state: {"decided"}, decided_by: {"tui"}])

UiForwardCalls ==
    Sent("message.prepare_reply", [message_id: Id, reply_all: {"bool"}])
    \cup Sent("message.prepare_forward", [message_id: Id])
    \cup Sent("attachment.fetch_for_forward", [attachment_id: Id])
    \cup Sent("attachment.fetch_for_forward_batch", [message_id: Id, attachment_ids: {"ids"}])

UiCalls == UiReads \cup UiFolderCalls \cup UiMessageCalls \cup UiAttachmentCalls
           \cup UiDraftWrites \cup UiDraftCalls \cup UiSearches \cup UiApprovalCalls
           \cup UiDecisions \cup UiForwardCalls

(* The bridge's own requests around a dangerous tool.                      *)
GateListCall == [op |-> "mcp.gate.list", args |-> [tool |-> "word"]]

ApprovalCreateCall ==
    [op |-> "mcp.approval.create",
     args |-> [tool |-> "word", args |-> "obj", summary |-> "word", _actor |-> "mcp"]]

ApprovalGetCall == [op |-> "mcp.approval.get", args |-> [id |-> "uuid"]]

ApprovalExpireCall ==
    [op |-> "mcp.approval.decide",
     args |-> [id |-> "uuid", state |-> "decided", decided_by |-> "mcp"]]

(* The call made for a tool: a dangerous one is stamped with its actor.    *)
ToolRequest(tool, args) ==
    [op |-> ToolSpecs[tool].op,
     args |-> IF ToolSpecs[tool].dangerous THEN [_actor |-> "mcp"] @@ args ELSE args]

=============================================================================
