-------------------------------- MODULE Mailbox --------------------------------
(***************************************************************************)
(* The mailbox of the TUI (tui/mod.rs, tui/app.rs): the selection of       *)
(* account, folder, conversation and message, the folder cache, optimistic *)
(* writes, search, the approvals list, and the daemon events that arrive   *)
(* meanwhile.                                                              *)
(*                                                                         *)
(* app is AppState; the functions of app.rs are operators on it.  A key    *)
(* handler of mod.rs is a key action and then the calls in plan, one step  *)
(* each: the loop awaits them before it reads the next key or event.  The  *)
(* focused pane is the pane a key is for (Tab moves it and nothing else).  *)
(* A message stands for its id, its date and its uid; flags are \Seen.     *)
(***************************************************************************)
EXTENDS Naturals, Sequences, FiniteSets, SequencesExt

CONSTANTS
  Accounts,
  FoldersOf,      \* per account: its folders, in the order of folder.list
  Inbox, Trash, Archive,  \* per account: the folder of that role, or None
  Msgs,           \* 1..n, by date
  ThreadOf,       \* per message: its thread
  WithFiles,      \* the messages that have attachments
  Approvals,      \* 1..n, by age
  MaxLive,        \* MAX_LIVE_APPROVALS
  None,
  Capacity,       \* FOLDER_CACHE_CAPACITY
  Worlds          \* what may happen (see Turns), and the folders of the messages at first

Folders == UNION {Range(FoldersOf[a]) : a \in Accounts}
AccountOf(f) == CHOOSE a \in Accounts : f \in Range(FoldersOf[a])
\* Mail arrives; approvals come and go; other clients write; calls to the daemon fail
\* before, or after, they took effect; the user searches, changes accounts or messages.
Turns == {"mail", "approvals", "others", "fail", "late", "search", "accounts", "write"}

ASSUME MailboxAssumption ==
  /\ Msgs \subseteq Nat /\ IsFiniteSet(Msgs) /\ Approvals \subseteq Nat
  /\ Capacity \in Nat \ {0} /\ MaxLive \in Nat \ {0}
  /\ \A a \in Accounts : Inbox[a] \in Range(FoldersOf[a])
  /\ Worlds \subseteq [turns : SUBSET Turns, at : [Msgs -> Folders \cup {None}]]

VARIABLES
  db,        \* the messages table: at, the folder of each message, and seen; and the
             \* approvals ever asked for
  pending,   \* the approvals that wait for a decision
  events,    \* events on their way to the TUI, in no order across topics
  app,       \* AppState
  shown,     \* AppState::approvals: the approvals listed
  plan,      \* the calls the key handler has still to make
  opened,    \* the search hit that the last key opened
  world

mvars == <<db, pending, events, app, shown, plan, opened, world>>
daemon == <<db, pending, events>>

-----------------------------------------------------------------------------
(* AppState: what is selected.                                             *)

Clamp(i, n) == IF n = 0 THEN 1 ELSE IF i > n THEN n ELSE i
Pos(s, x) == CHOOSE i \in DOMAIN s : s[i] = x
Folder(a) == IF a.folder \in DOMAIN a.folders THEN a.folders[a.folder] ELSE None
OnApprovals(a) == Folder(a) = "approvals"
InMail(a) == Folder(a) \in Folders

\* build_threads: the conversations of the listed messages, the latest first.
Latest(t, ids) == CHOOSE m \in ids : ThreadOf[m] = t /\ \A n \in ids : ThreadOf[n] = t => n <= m
Threads(a) ==
  SetToSortSeq({ThreadOf[m] : m \in a.ids}, LAMBDA t, u : Latest(t, a.ids) > Latest(u, a.ids))
Thread(a) == IF a.thread \in DOMAIN Threads(a) THEN Threads(a)[a.thread] ELSE None
\* messages: those of the selected conversation, oldest first.
Stack(a) == SetToSortSeq({m \in a.ids : ThreadOf[m] = Thread(a)}, LAMBDA m, n : m < n)
Selected(a) ==
  IF a.msg \in DOMAIN Stack(a) /\ ~OnApprovals(a) THEN Stack(a)[a.msg] ELSE None

\* clear_detail_state, and the reset of the list that every change of folder makes.
ClearDetail(a) ==
  [a EXCEPT !.detail = None, !.bodies = {}, !.files = None,
            !.focus = IF Stack(a) = <<>> THEN None ELSE Stack(a)[Clamp(a.msg, Len(Stack(a)))]]
Empty(a) == ClearDetail([a EXCEPT !.ids = {}, !.seen = {}, !.thread = 1, !.msg = 1])

\* rebuild_threads keeps the conversation, refresh_visible_messages the message
\* that was selected before, else it takes the latest.
Rebuild(a, t) ==
  [a EXCEPT !.thread = IF t \in Range(Threads(a)) THEN Pos(Threads(a), t)
                       ELSE Clamp(@, Len(Threads(a)))]
Visible(a, m) ==
  [a EXCEPT !.msg = CASE Stack(a) = <<>> -> 1
                      [] m \in Range(Stack(a)) -> Pos(Stack(a), m)
                      [] OTHER -> Len(Stack(a))]

-----------------------------------------------------------------------------
(* AppState: the folder cache and the message list.                        *)

Without(cache, fs) == SelectSeq(cache, LAMBDA e : e.folder \notin fs)

Entry(a) ==
  [folder |-> Folder(a), ids |-> a.ids, seen |-> a.seen, thread |-> Thread(a), msg |-> Selected(a),
   old |-> FALSE]

\* Mutant: an entry there is stays as it is.
Mutant_Store(a) ==
  IF ~InMail(a) \/ \E i \in DOMAIN a.cache : a.cache[i].folder = Folder(a) THEN a
  ELSE [a EXCEPT !.cache = Append(IF Len(@) < Capacity THEN @ ELSE Tail(@), Entry(a))]

\* folder_cache_store: the list on display, as the newest entry.
Store(a) ==
  IF ~InMail(a) THEN a
  ELSE LET rest == Without(a.cache, {Folder(a)})
       IN [a EXCEPT !.cache = Append(IF Len(rest) < Capacity THEN rest ELSE Tail(rest), Entry(a))]

ApplyFolderMessages(a, ids, seen) ==
  Store(ClearDetail(Visible(Rebuild([a EXCEPT !.ids = ids, !.seen = seen], Thread(a)), Selected(a))))

\* lookup and restore_folder_snapshot.
RestoreFolder(a, e) ==
  LET b == Visible(Rebuild([a EXCEPT !.ids = e.ids, !.seen = e.seen,
                                     !.cache = Append(Without(@, {e.folder}), e)], e.thread),
                   Selected(a))
  IN ClearDetail(IF e.msg \in Range(Stack(b)) THEN [b EXCEPT !.msg = Pos(Stack(b), e.msg)] ELSE b)

\* apply_message_flags and update_message_flags_from_detail.
Flag(a, m, seen) ==
  IF m \notin a.ids THEN a
  ELSE Store([a EXCEPT !.seen = IF seen THEN @ \cup {m} ELSE @ \ {m}])

\* apply_detail, of a message that is there or of None.
ApplyDetail(a, m, seen) ==
  LET b == IF a.detail = m THEN a ELSE [a EXCEPT !.files = None]
  IN IF m = None THEN [b EXCEPT !.detail = None, !.files = None]
     ELSE [Flag(b, m, seen) EXCEPT !.bodies = @ \cup {m}, !.detail = m]

\* snapshot_message_list, remove_message_locally, restore_message_list_snapshot.
Snapshot(a) == [ids |-> a.ids, seen |-> a.seen, thread |-> a.thread, msg |-> a.msg]
RemoveLocally(a, m) ==
  LET b == Visible(Rebuild([a EXCEPT !.ids = @ \ {m}, !.seen = @ \ {m}], Thread(a)), Selected(a))
  IN IF m \notin a.ids THEN a ELSE Store(IF a.detail = m THEN ClearDetail(b) ELSE b)

RestoreList(a, s) ==
  LET b == [a EXCEPT !.ids = s.ids, !.seen = s.seen]
      c == [b EXCEPT !.thread = Clamp(s.thread, Len(Threads(b)))]
  IN Store([c EXCEPT !.msg = Clamp(s.msg, Len(Stack(c)))])

\* apply_accounts, with the first account selected at first.
ApplyAccounts(a) ==
  Empty([a EXCEPT !.account = IF @ = None THEN CHOOSE x \in Accounts : TRUE ELSE @,
                  !.folders = <<"approvals">>, !.folder = 1, !.hits = {}])

\* apply_folders: stay on the approvals, or open the inbox at first.
ApplyFolders(a, keep) ==
  LET mail == IF a.account = None THEN <<>> ELSE FoldersOf[a.account]
      stay == keep /\ OnApprovals(a)
      first == Range(a.folders) \cap Folders = {}
  IN Empty([a EXCEPT !.folders = Append(mail, "approvals"),
                     !.folder = CASE stay -> Len(mail) + 1
                                  [] ~stay /\ first /\ mail = <<>> -> 1
                                  [] ~stay /\ first /\ mail # <<>> -> Pos(mail, Inbox[a.account])
                                  [] OTHER -> Clamp(@, Len(mail) + 1)])

-----------------------------------------------------------------------------
(* Keys and commands.                                                      *)

Call(op) == [op |-> op, id |-> None, to |-> None, was |-> None]
FoldersCall(keep) == [Call("folders") EXCEPT !.was = keep]
Idle == plan = <<>> /\ app.doomed = None
Key(a, calls) ==
  /\ Idle /\ app' = a /\ plan' = calls /\ opened' = None
  /\ UNCHANGED <<daemon, shown, world>>
May(turn) == turn \in world.turns
Clear(a) == [a EXCEPT !.error = FALSE]
Near(i, s) == {i - 1, i + 1} \cap DOMAIN s

\* j/k and Enter in Accounts, and :account, also of the account that is selected.
SelectAccount ==
  /\ May("accounts") /\ app.account # None
  /\ \/ \E x \in Accounts \ {app.account} :
          LET a == Empty([app EXCEPT !.account = x, !.folders = <<"approvals">>, !.folder = 1])
          IN \E b \in {a, Clear(a)} : Key(b, <<FoldersCall(FALSE)>>)
     \/ Key(app, <<FoldersCall(FALSE)>>)
     \/ \E keep \in BOOLEAN : Key(Clear(app), <<FoldersCall(keep)>>)

\* j/k and Enter in Folders, and :goto, also of the folder that is selected.
SelectFolder ==
  \E i \in DOMAIN app.folders :
    LET a == IF i = app.folder THEN app ELSE Empty([app EXCEPT !.folder = i])
    IN \/ i \in Near(app.folder, app.folders) \cup {app.folder} /\ Key(a, <<Call("messages")>>)
       \/ app.folders[i] \in Folders /\ Key(Clear(a), <<Call("messages")>>)

\* Ctrl-P, :approvals and :goto approvals: begin_approvals.
OpenApprovals ==
  LET list == IF "approvals" \in Range(app.folders) THEN app.folders
              ELSE Append(app.folders, "approvals")
  IN Key(Empty(Clear([app EXCEPT !.folders = list, !.folder = Pos(list, "approvals")])),
         <<Call("approvals")>>)

\* j/k in Conversations.
SelectThread ==
  \E i \in Near(app.thread, Threads(app)) :
    ~OnApprovals(app) /\ Key(ClearDetail(Visible([app EXCEPT !.thread = i], None)), <<Call("message")>>)

\* j/k in Details: move_conversation_detail_focus.
SelectMessage ==
  /\ app.detail # None /\ ~OnApprovals(app)
  /\ \E i \in Near(IF app.focus \in Range(Stack(app)) THEN Pos(Stack(app), app.focus) ELSE app.msg,
                   Stack(app)) :
       LET m == Stack(app)[i]
       IN Key([app EXCEPT !.msg = i, !.focus = m, !.files = None,
                          !.detail = IF m \in app.bodies THEN m ELSE @], <<Call("message")>>)

\* `o` and `O` in Details: refresh_missing_expanded_details (which messages are unfolded
\* is layout: here the focused one or all).
Expand ==
  /\ app.detail # None /\ ~OnApprovals(app)
  /\ \E s \in {{app.focus}, Range(Stack(app))} :
       LET missing == (s \cap Range(Stack(app))) \ app.bodies
       IN missing # {} /\ Key(app, SetToSeq({[Call("body") EXCEPT !.id = m] : m \in missing}))

\* `r` in each pane, Enter on a conversation or an attachment, Esc.
Refresh ==
  LET fresh == [app EXCEPT !.cache = Without(@, {Folder(app)})]
  IN \/ May("accounts") /\ Key(app, <<Call("accounts")>>)
     \/ Key(fresh, <<FoldersCall(TRUE)>>)
     \/ Key(fresh, <<Call("messages")>>)
     \/ ~OnApprovals(app) /\ Key(app, <<Call("message")>>)
     \/ app.detail # None /\ app.files # None /\ \E op \in {"files", "preview"} : Key(app, <<Call(op)>>)
     \/ app.error /\ Key(Clear(app), <<>>)

\* s, :start, :stop: run_folder_write.
SyncFolder ==
  May("write") /\ InMail(app) /\ \E op \in {"sync", "worker"} : Key(Clear(app), <<Call(op)>>)

\* u, f and the flag commands: run_flag_write shows the flags before it asks.
SetFlags ==
  LET m == Selected(app)
      was == m \in app.seen
  IN /\ May("write") /\ m # None
     /\ Key(Flag(Clear(app), m, ~was),
            <<[Call("set_flags") EXCEPT !.id = m, !.to = ~was, !.was = was]>>)

\* e, :archive, :move: the message leaves the list before the daemon is asked.
MoveCall(m, to) == [Call("move") EXCEPT !.id = m, !.to = to, !.was = Snapshot(app)]
MoveMessage ==
  LET m == Selected(app)
  IN /\ May("write") /\ m # None
     /\ \E to \in Range(FoldersOf[app.account]) \cup {Archive[app.account]} :
          Key(RemoveLocally(Clear(app), m), <<MoveCall(m, to)>>)

\* d asks first; y: run_message_remove_for the message it asked about.
BeginDelete ==
  May("write") /\ Selected(app) # None /\ Key([app EXCEPT !.doomed = Selected(app)], <<>>)

ConfirmDelete ==
  /\ app.doomed # None /\ plan = <<>>
  /\ LET a == [app EXCEPT !.doomed = None]
     IN \/ /\ app' = RemoveLocally(Clear(a), app.doomed)
           /\ plan' = <<MoveCall(app.doomed, Trash[app.account])>>
        \/ app' = a /\ UNCHANGED plan
  /\ opened' = None /\ UNCHANGED <<daemon, shown, world>>

\* / and :search, and `r` in Search: begin_search; Esc: close_search.
Search ==
  /\ May("search")
  /\ \/ \E scope \in {None, app.account} :
          Key(Clear([app EXCEPT !.hits = {}]), <<[Call("search") EXCEPT !.to = scope]>>)
     \/ app.hits # {} /\ Key([app EXCEPT !.hits = {}], <<>>)

\* Enter on a hit: jump_to_hit, then folders, messages and detail are fetched.
Jump ==
  \E h \in app.hits :
    LET x == AccountOf(h.at)
        a == IF x = app.account THEN app
             ELSE [Empty([app EXCEPT !.account = x, !.folders = <<>>, !.folder = 1])
                     EXCEPT !.msg = app.msg]
        b == IF h.at \in Range(a.folders) THEN [a EXCEPT !.folder = Pos(a.folders, h.at)] ELSE a
        c == IF h.id \in Range(Stack(b)) THEN [b EXCEPT !.msg = Pos(Stack(b), h.id)] ELSE b
    IN /\ Idle /\ app' = [c EXCEPT !.hits = {}] /\ opened' = h.id
       /\ plan' = <<FoldersCall(TRUE), Call("messages"), Call("message")>>
       /\ UNCHANGED <<daemon, shown, world>>

\* a and d on the approvals: run_approval_decision drops the row, then asks.
Decide ==
  \E x \in shown :
    /\ OnApprovals(app) /\ Idle /\ shown' = shown \ {x}
    /\ app' = Clear(app) /\ plan' = <<[Call("decide") EXCEPT !.id = x]>> /\ opened' = None
    /\ UNCHANGED <<daemon, world>>

Keys ==
  \/ SelectAccount \/ SelectFolder \/ OpenApprovals \/ SelectThread \/ SelectMessage \/ Expand
  \/ Refresh \/ SyncFolder \/ SetFlags \/ MoveMessage \/ BeginDelete \/ ConfirmDelete
  \/ Search \/ Jump \/ Decide

-----------------------------------------------------------------------------
(* Calls to the daemon, each with its answer or its error.                 *)

Now == plan[1]
Calling(op) == plan # <<>> /\ Now.op = op
\* The answer turns the state into a, and more calls follow.
Answer(a, more) ==
  app' = a /\ plan' = more \o Tail(plan) /\ UNCHANGED <<opened, world>>
Failed(a) == [a EXCEPT !.error = TRUE]

\* refresh_accounts.
ListAccounts ==
  /\ Calling("accounts") /\ Answer(Clear(ApplyAccounts(app)), <<FoldersCall(FALSE)>>)
  /\ UNCHANGED <<daemon, shown>>

\* refresh_folders.
ListFolders ==
  /\ Calling("folders")
  /\ LET a == ApplyFolders(app, Now.was)
     IN IF app.account = None THEN Answer(a, <<>>) ELSE Answer(Clear(a), <<Call("messages")>>)
  /\ UNCHANGED <<daemon, shown>>

\* refresh_messages.
Listed(a) == {m \in Msgs : db.at[m] = Folder(a)}
Cached(a) == {i \in DOMAIN a.cache : ~a.error /\ a.cache[i].folder = Folder(a)}
Hit(a) == {i \in Cached(a) : ~a.cache[i].old}
ListMessages ==
  /\ Calling("messages")
  /\ \/ OnApprovals(app) /\ Answer(app, <<Call("approvals")>>)
     \/ Folder(app) = None /\ Answer(ApplyFolderMessages(app, {}, {}), <<>>)
     \/ /\ InMail(app)
        /\ \E i \in Hit(app) :
             LET a == RestoreFolder(app, app.cache[i])
             IN Answer(a, IF Selected(a) = None THEN <<>> ELSE <<Call("message")>>)
     \/ /\ InMail(app) /\ Hit(app) = {}
        /\ LET ids == Listed(app)
           IN Answer(ApplyFolderMessages(Clear(app), ids, ids \cap db.seen),
                     IF ids = {} THEN <<>> ELSE <<Call("message")>>)
  /\ UNCHANGED <<daemon, shown>>

\* refresh_detail.
GetMessage ==
  /\ Calling("message")
  /\ LET m == Selected(app)
     IN \/ m = None /\ Answer(ApplyDetail(app, None, FALSE), <<>>)
        \/ m # None /\ db.at[m] = None /\ Answer(ApplyDetail(Clear(app), None, FALSE), <<>>)
        \/ /\ m # None /\ db.at[m] # None
           /\ Answer(ApplyDetail(Clear(app), m, m \in db.seen), <<Call("files")>>)
  /\ UNCHANGED <<daemon, shown>>

\* refresh_attachments.
ListAttachments ==
  /\ Calling("files")
  /\ LET m == Selected(app)
     IN IF m \in WithFiles /\ db.at[m] # None
        THEN Answer([app EXCEPT !.files = m], <<Call("preview")>>)
        ELSE Answer([app EXCEPT !.files = None], <<>>)
  /\ UNCHANGED <<daemon, shown>>

\* refresh_attachment_preview.
PreviewAttachment ==
  Calling("preview") /\ Answer(Clear(app), <<>>) /\ UNCHANGED <<daemon, shown>>

\* One body of refresh_missing_expanded_details: cache_conversation_detail.
GetBody ==
  /\ Calling("body")
  /\ LET m == Now.id
         a == Flag(Clear(app), m, m \in db.seen)
         focus == IF app.focus = None THEN Selected(app) ELSE app.focus
     IN Answer(IF db.at[m] = None THEN app
               ELSE [a EXCEPT !.bodies = @ \cup {m}, !.detail = IF focus = m THEN m ELSE @], <<>>)
  /\ UNCHANGED <<daemon, shown>>

\* refresh_approvals: apply_approvals.
ListApprovals ==
  Calling("approvals") /\ Answer(Clear(app), <<>>) /\ shown' = pending /\ UNCHANGED daemon

\* submit_search: apply_search_hits.
FindMessages ==
  /\ Calling("search")
  /\ Answer([app EXCEPT !.hits = {[id |-> m, at |-> db.at[m]] :
              m \in {n \in Msgs : db.at[n] # None /\ Now.to \in {None, AccountOf(db.at[n])}}}], <<>>)
  /\ UNCHANGED <<daemon, shown>>

\* run_folder_write: a sync, but not a start or a stop, drops the cached list.
FolderWrite ==
  /\ Calling("sync") \/ Calling("worker")
  /\ Answer([app EXCEPT !.cache = IF Now.op = "sync" THEN Without(@, {Folder(app)}) ELSE @],
            <<Call("messages")>>)
  /\ UNCHANGED <<daemon, shown>>

\* message.set_flags, of a message that is there or not, and the answer or an error.
WriteFlags ==
  /\ Calling("set_flags") /\ UNCHANGED <<pending, events, shown>>
  /\ LET m == Now.id
         written == [db EXCEPT !.seen = IF db.at[m] = None THEN @
                                        ELSE IF Now.to THEN @ \cup {m} ELSE @ \ {m}]
     IN \/ db' = written /\ Answer(app, <<Call("messages")>>)
        \/ /\ \/ May("fail") /\ UNCHANGED db
              \/ May("late") /\ db' = written
           /\ Answer(Failed(Flag(app, m, Now.was)), <<>>)

\* message.archive, .delete, .move: refused without the message or the folder.
WriteFolder ==
  /\ Calling("move") /\ UNCHANGED <<pending, events, shown>>
  /\ LET m == Now.id
         refused == db.at[m] = None \/ Now.to = None
         written == [db EXCEPT !.at[m] = Now.to]
     IN \/ ~refused /\ db' = written /\ Answer(app, <<Call("messages")>>)
        \/ /\ \/ (refused \/ May("fail")) /\ UNCHANGED db
              \/ ~refused /\ May("late") /\ db' = written
           /\ Answer(Failed(RestoreList(app, Now.was)), <<>>)

Decided(x) == pending' = pending \ {x} /\ events' = events \cup {[topic |-> "decided", of |-> x]}

\* mcp.approval.decide: the call is from decided_by "tui", which the dispatcher's
\* allowlist refuses (UiCallsTaken in Bridge), or its connection fails; either way the
\* row dropped beforehand is read back.
DecideApproval ==
  /\ Calling("decide") /\ UNCHANGED <<db, pending, events, shown>>
  /\ Answer(Failed(app), <<Call("approvals")>>)

\* A read that fails: record_error.  A folder's expired list is gone by then, an error
\* closes the search, and ends the loop over bodies.
ReadFails ==
  /\ May("fail") /\ plan # <<>>
  /\ CASE Now.op \in {"accounts", "approvals", "preview", "sync", "worker", "body"} -> TRUE
       [] Now.op = "folders" -> app.account # None
       [] Now.op = "messages" -> InMail(app) /\ Hit(app) = {}
       [] Now.op \in {"message", "files"} -> Selected(app) # None
       [] Now.op = "search" -> TRUE
       [] OTHER -> FALSE
  /\ app' = [Failed(app) EXCEPT !.cache = IF Now.op = "messages" /\ Cached(app) # {}
                                          THEN Without(@, {Folder(app)}) ELSE @]
  /\ plan' = IF Now.op = "body" THEN <<>> ELSE Tail(plan)
  /\ UNCHANGED <<daemon, shown, opened, world>>

Calls ==
  \/ ListAccounts \/ ListFolders \/ ListMessages \/ GetMessage \/ ListAttachments
  \/ PreviewAttachment \/ GetBody \/ ListApprovals \/ FindMessages \/ FolderWrite
  \/ WriteFlags \/ WriteFolder \/ DecideApproval \/ ReadFails

-----------------------------------------------------------------------------
(* The daemon, other clients and time.                                     *)

tui == <<app, shown, plan, opened, world>>

\* A sync worker stores a message and announces it.
MailArrives ==
  \E m \in Msgs, f \in Folders :
    /\ May("mail") /\ db.at[m] = None /\ db' = [db EXCEPT !.at[m] = f]
    /\ events' = events \cup {[topic |-> "mail.new", of |-> f]} /\ UNCHANGED <<pending, tui>>

AccountSynced ==
  \E x \in Accounts :
    /\ May("mail") /\ May("accounts")
    /\ events' = events \cup {[topic |-> "account.synced", of |-> x]}
    /\ UNCHANGED <<db, pending, tui>>

ApprovalRequested ==
  \E x \in Approvals :
    /\ May("approvals") /\ \A y \in db.asked : y < x
    /\ db' = [db EXCEPT !.asked = @ \cup {x}] /\ pending' = pending \cup {x}
    /\ events' = events \cup {[topic |-> "requested", of |-> x]} /\ UNCHANGED tui

\* Another client decides, or the approval expires.
ApprovalDecided ==
  \E x \in pending : Decided(x) /\ UNCHANGED <<db, tui>>

\* Another client moves or flags a message, or the server drops it: mail.updated,
\* which the TUI does not subscribe to.
OtherWrite ==
  \E m \in Msgs :
    /\ May("others") /\ db.at[m] # None
    /\ \/ \E f \in Folders \cup {None} : db' = [db EXCEPT !.at[m] = f]
       \/ db' = [db EXCEPT !.seen = IF m \in @ THEN @ \ {m} ELSE @ \cup {m}]
    /\ UNCHANGED <<pending, events, tui>>

\* FOLDER_CACHE_TTL passes for one entry.
Expire ==
  \E i \in DOMAIN app.cache :
    /\ ~app.cache[i].old /\ app' = [app EXCEPT !.cache[i].old = TRUE]
    /\ UNCHANGED <<daemon, shown, plan, opened, world>>

\* merge_approval_request: the newest MaxLive stay.
Merge(x) ==
  LET all == shown \cup {x} IN {y \in all : Cardinality({z \in all : z > y}) < MaxLive}

\* Mutant: the decision takes the newest row away.
Mutant_OnEvent ==
  \E e \in events :
    /\ plan = <<>> /\ events' = events \ {e} /\ UNCHANGED <<db, pending, plan, opened, world, app>>
    /\ shown' = CASE e.topic = "requested" -> Merge(e.of)
                  [] e.topic = "decided" -> {y \in shown : \E z \in shown : z > y}
                  [] OTHER -> shown

\* on_daemon_event, when no key is being handled.
OnEvent ==
  \E e \in events :
    /\ plan = <<>> /\ events' = events \ {e} /\ UNCHANGED <<db, pending, plan, opened, world>>
    /\ app' = CASE e.topic = "mail.new" -> [app EXCEPT !.cache = Without(@, {e.of})]
                [] e.topic = "account.synced" ->
                     [app EXCEPT !.cache = Without(@, Range(FoldersOf[e.of]))]
                [] OTHER -> app
    /\ shown' = CASE e.topic = "requested" -> Merge(e.of)
                  [] e.topic = "decided" -> shown \ {e.of}
                  [] OTHER -> shown

MailboxInit ==
  /\ world \in Worlds /\ pending \in {{}} \cup {{x} : x \in {y \in Approvals : May("approvals")}}
  /\ db = [at |-> world.at, seen |-> {}, asked |-> pending]
  /\ events = {} /\ shown = {} /\ plan = <<Call("accounts")>> /\ opened = None
  /\ app = [account |-> None, folders |-> <<>>, folder |-> 1, ids |-> {}, seen |-> {},
            thread |-> 1, msg |-> 1, detail |-> None, focus |-> None, bodies |-> {},
            files |-> None, error |-> FALSE, hits |-> {}, cache |-> <<>>, doomed |-> None]

MailboxNext ==
  \/ Keys \/ Calls \/ MailArrives \/ AccountSynced \/ ApprovalRequested \/ ApprovalDecided
  \/ OtherWrite \/ Expire \/ OnEvent
MailboxSpec == MailboxInit /\ [][MailboxNext]_mvars

-----------------------------------------------------------------------------
(* Properties.                                                             *)

\* Between keys every cursor of AppState is in its list, one entry of the folder cache
\* exists per folder, and there are at most Capacity.
MailboxTypeOK ==
  /\ app.account \in Accounts \cup {None} /\ app.ids \subseteq Msgs /\ app.seen \subseteq app.ids
  /\ db.at \in [Msgs -> Folders \cup {None}] /\ shown \subseteq Approvals
  /\ Len(app.cache) <= Capacity
  /\ \A i, j \in DOMAIN app.cache : app.cache[i].folder = app.cache[j].folder => i = j
  /\ plan = <<>> /\ ~May("fail") =>
       /\ app.folder \in DOMAIN app.folders
       /\ app.ids = {} \/ (app.thread \in DOMAIN Threads(app) /\ app.msg \in DOMAIN Stack(app))

\* Between keys a list, on display or cached, holds only messages that are in that
\* folder, with their flags: optimistic writes that the daemon refused are undone.
\* Not so when other clients write, when an error hides that a write took effect, or
\* when reads fail while a search hit is opened (see the README).
NoGhost ==
  plan = <<>> /\ ~May("others") /\ ~May("late") =>
    /\ InMail(app) => app.ids \subseteq Listed(app) /\ app.seen = app.ids \cap db.seen
    /\ \A i \in DOMAIN app.cache :
         LET e == app.cache[i]
         IN \A m \in e.ids : db.at[m] = e.folder /\ (m \in e.seen <=> m \in db.seen)

\* While the approvals are on display, each one pending is listed or its request is on
\* its way, whoever decides others meanwhile and in whatever order events come.
ApprovalsListed ==
  plan = <<>> /\ OnApprovals(app) /\ ~May("fail") =>
    \A x \in pending : x \in shown \/ [topic |-> "requested", of |-> x] \in events

\* jump_to_hit: "Refocus a hit's location: switch active account / folder / selected
\* message": once the calls it makes are answered, the hit is what is selected.
HitOpened == plan = <<>> /\ opened # None => Selected(app) = opened
=============================================================================
