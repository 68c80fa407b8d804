------------------------------- MODULE Calls -------------------------------
(***************************************************************************)
(* The contract between the daemon's dispatcher and its two clients.      *)
(*                                                                         *)
(* A request is an operation and a JSON object.  A JSON value is           *)
(* abstracted to the class the argument parsers tell apart, and a field   *)
(* that is absent from the object is simply not in its domain.  Three      *)
(* tables are translated independently of one another: what each handler  *)
(* of src/daemon/dispatcher.rs reads, what the bridge's tool catalogue    *)
(* (src/mcp/tools.rs) advertises and lets through, and what the terminal  *)
(* client (src/tui/ipc.rs) and the bridge itself send.  Bridge.tla runs   *)
(* calls through them.                                                     *)
(***************************************************************************)
EXTENDS Integers, FiniteSets, TLC

(* Strings: "" and a blank one, an id, a timestamp, the words of the enums *)
(* (gate action, approval state, authentication kind, folder role), a      *)
(* string holding a JSON object, the actor names, and any other word.      *)
Strings == {"empty", "blank", "uuid", "date", "action", "pending", "decided", "auth",
            "role", "objtext", "tui", "user", "mcp", "word"}

(* Numbers by the limits in the code: negative, zero, 1..200, 201..500,    *)
(* 501..1000, the rest of i64, and beyond i64 or with a fraction.          *)
Ints == {"neg", "zero", "few", "many", "lots", "huge"}

(* Arrays: empty, of words, of one to 32 ids, of more than 32 ids, with an *)
(* element that is not a string, and of attachment specifications.         *)
StringArrays == {"none", "words", "ids", "crowd"}

Values == Strings \cup Ints \cup StringArrays \cup {"real", "mixed", "specs", "null", "bool", "obj"}

Absent == "absent"

Anything == Values \cup {Absent}

Optional(S) == S \cup {Absent, "null"}

-----------------------------------------------------------------------------
(* The dispatcher's argument parsers: the values each takes without        *)
(* answering bad_args.                                                     *)

(* parse_id, parse_uuid, parse_id_array, parse_str and the optional_*      *)
(* helpers.                                                                *)
Parsed ==
    [id       |-> {"uuid"},
     ids      |-> {"ids"},
     str      |-> Strings \ {"empty"},
     optstr   |-> Optional(Strings),
     optid    |-> Optional({"uuid"}),
     optbool  |-> Optional({"bool"}),
     optdate  |-> Optional({"date"}),
     nonempty |-> Optional(Strings \ {"empty"})]

(* Arguments the handlers convert themselves.  `words' as a list of scopes *)
(* stands for the one scope the daemon supports.                           *)
OwnParsed ==
    [query   |-> Strings \ {"empty", "blank"},
     text    |-> Strings,
     rows    |-> {Absent, "few", "many", "lots", "huge"},
     action  |-> {"action"},
     pattern |-> Optional({"objtext"}),
     state   |-> (Anything \ Strings) \cup {"pending", "decided"},
     verdict |-> {"decided"},
     scopes  |-> {Absent, "words"},
     flags   |-> StringArrays]

(* Fields of the structures serde builds (NewAccount, NewFolder, NewDraft, *)
(* DraftUpdate), and the attachment specifications taken out first.        *)
SerdeParsed ==
    [text     |-> Strings,
     auth     |-> {"auth"},
     role     |-> {"role"},
     int      |-> Ints,
     bool     |-> {"bool"},
     addrs    |-> StringArrays,
     addrsDef |-> StringArrays \cup {Absent},
     optstr   |-> Optional(Strings),
     optid    |-> Optional({"uuid"}),
     id       |-> {"uuid"},
     specs    |-> {Absent, "null", "none", "specs"}]

(* Who may be named as an actor: the user, or mcp: and a short name.       *)
ActorAllowed(v) == v \in {"user", "mcp"}

DecidedBy == (Anything \ Strings) \cup {v \in Strings : ActorAllowed(v)}

(* The actor a request is recorded under.                                  *)
ActorFrom(args) == IF "_actor" \in DOMAIN args /\ ActorAllowed(args["_actor"])
                   THEN args["_actor"] ELSE "user"

-----------------------------------------------------------------------------
(* What each handler reads: a function from its fields to what it takes.   *)

NoFields == [f \in {} |-> {}]

(* A page is read leniently: a value that is no i64 counts as absent.      *)
Paged == [limit |-> Anything, offset |-> Anything]

ReadHandlers ==
       "account.list"            :> NoFields
    @@ "folder.list"             :> [account_id |-> Parsed.id]
    @@ "thread.list"             :> ([account_id |-> Parsed.id] @@ Paged)
    @@ "message.list_by_folder"  :> ([folder_id |-> Parsed.id] @@ Paged)
    @@ "message.list_by_thread"  :> [thread_id |-> Parsed.id]
    @@ "message.get"             :> [id |-> Parsed.id]
    @@ "attachment.list"         :> [message_id |-> Parsed.id]
    @@ "attachment.preview"      :> [id |-> Parsed.id]
    @@ "search"                  :>
           ([q |-> OwnParsed.query, limit |-> Anything, offset |-> Anything]
            @@ [f \in {"account_id", "folder_id", "thread_id"} |-> Parsed.optid]
            @@ [f \in {"date_from", "date_to"} |-> Parsed.optdate]
            @@ [f \in {"from_addr", "to_addr"} |-> Parsed.nonempty]
            @@ [f \in {"has_attachments", "unread"} |-> Parsed.optbool])
    @@ "sql.query"               :> [sql |-> OwnParsed.text, limit |-> OwnParsed.rows]
    @@ "sql.schema"              :> NoFields
    @@ "audit.list_recent"       :> [limit |-> Anything]

GateHandlers ==
       "mcp.gate.list"           :> [tool |-> Anything]
    @@ "mcp.gate.create"         :> [tool |-> Parsed.str, action |-> OwnParsed.action,
                                     arg_pattern |-> OwnParsed.pattern, note |-> Parsed.optstr]
    @@ "mcp.gate.delete"         :> [id |-> Parsed.id]
    @@ "mcp.approval.create"     :> [tool |-> Parsed.str, args |-> Anything, summary |-> Parsed.str]
    @@ "mcp.approval.list"       :> ([state |-> OwnParsed.state] @@ Paged)
    @@ "mcp.approval.get"        :> [id |-> Parsed.id]
    @@ "mcp.approval.decide"     :> [id |-> Parsed.id, state |-> OwnParsed.verdict,
                                     decided_by |-> DecidedBy]

WriteHandlers ==
       "account.create"          :>
           ([f \in {"email", "imap_host", "smtp_host"} |-> SerdeParsed.text]
            @@ [f \in {"imap_port", "smtp_port"} |-> SerdeParsed.int]
            @@ [f \in {"imap_use_tls", "smtp_use_tls", "smtp_starttls"} |-> SerdeParsed.bool]
            @@ [display_name |-> SerdeParsed.optstr, auth_kind |-> SerdeParsed.auth])
    @@ "account.delete"          :> [id |-> Parsed.id]
    @@ "folder.upsert"           :> [account_id |-> SerdeParsed.id, name |-> SerdeParsed.text,
                                     delimiter |-> SerdeParsed.text, role |-> SerdeParsed.role,
                                     selectable |-> SerdeParsed.bool]
    @@ "message.set_flags"       :> [id |-> Parsed.id, flags |-> OwnParsed.flags]
    @@ "message.archive"         :> [id |-> Parsed.id]
    @@ "message.delete"          :> [id |-> Parsed.id]
    @@ "message.move"            :> [id |-> Parsed.id, folder_name |-> Parsed.str]

AddressFields == {"to_addrs", "cc_addrs", "bcc_addrs"}

BodyFields == {"subject", "text_body", "html_body"}

DraftHandlers ==
       "draft.create"            :>
           ([account_id |-> SerdeParsed.id, in_reply_to_msg |-> SerdeParsed.optid,
             in_reply_to |-> SerdeParsed.optstr, references_header |-> SerdeParsed.optstr,
             attachments |-> SerdeParsed.specs]
            @@ [f \in AddressFields |-> SerdeParsed.addrs]
            @@ [f \in BodyFields |-> SerdeParsed.optstr])
    @@ "draft.update"            :>
           ([id |-> Parsed.id, attachments |-> SerdeParsed.specs]
            @@ [f \in AddressFields |-> SerdeParsed.addrsDef]
            @@ [f \in BodyFields |-> SerdeParsed.optstr])
    @@ [op \in {"draft.get", "draft.delete"} |-> [id |-> Parsed.id]]
    @@ "draft.list"              :> [account_id |-> Parsed.id]

ForwardHandlers ==
       "message.prepare_reply"   :> [message_id |-> Parsed.id, reply_all |-> Anything]
    @@ "message.prepare_forward" :> [message_id |-> Parsed.id]
    @@ "attachment.export"       :> [id |-> Parsed.id, destination_path |-> Parsed.str]
    @@ "attachment.fetch_for_forward" :> [attachment_id |-> Parsed.id]
    @@ "attachment.fetch_for_forward_batch" :>
           [message_id |-> Parsed.id, attachment_ids |-> Parsed.ids]

NetworkHandlers ==
       "message.send"            :> [account_id |-> Parsed.id, draft_id |-> Parsed.id]
    @@ "account.test_login"      :> [account_id |-> Parsed.id]

SyncHandlers ==
    [op \in {"account.sync_folder", "account.start_sync", "account.stop_sync"} |->
        [account_id |-> Parsed.id, folder_name |-> Parsed.str]]

SecretHandlers ==
       "account.set_secret"      :> [account_id |-> Parsed.id, password |-> Parsed.str]
    @@ "account.delete_secret"   :> [account_id |-> Parsed.id]
    @@ "oauth.google.auth_url"   :>
           ([account_id |-> Parsed.id, scopes |-> OwnParsed.scopes]
            @@ [f \in {"client_id", "redirect_uri", "state"} |-> Parsed.str])
    @@ "oauth.google.complete"   :>
           ([account_id |-> Parsed.id, scopes |-> OwnParsed.scopes]
            @@ [f \in {"client_id", "client_secret", "redirect_uri", "code", "state",
                       "expected_state"} |-> Parsed.str])

(* The dispatcher's table of operations.                                   *)
Handlers == ReadHandlers @@ GateHandlers @@ WriteHandlers @@ DraftHandlers
            @@ ForwardHandlers @@ NetworkHandlers @@ SyncHandlers @@ SecretHandlers

Ops == DOMAIN Handlers

Field(args, f) == IF f \in DOMAIN args THEN args[f] ELSE Absent

(* How far a request gets: an unknown name, arguments refused before       *)
(* anything is read or written, or the handler's work.                     *)
Dispatched(op, args) ==
    IF op \notin Ops THEN "unknown_op"
    ELSE IF \A f \in DOMAIN Handlers[op] : Field(args, f) \in Handlers[op][f]
    THEN "handled" ELSE "bad_args"

(* The operations that change the store, a mail server or a worker.        *)
ChangingOps == DOMAIN WriteHandlers \cup DOMAIN NetworkHandlers \cup DOMAIN SyncHandlers
               \cup DOMAIN SecretHandlers \cup {"draft.create", "draft.update", "draft.delete", "attachment.export",
                     "mcp.gate.create", "mcp.gate.delete", "mcp.approval.create",
                     "mcp.approval.decide"}

=============================================================================
