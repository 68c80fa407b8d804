---------------------------------- MODULE Screen ----------------------------------
(***************************************************************************)
(* The keyboard of the TUI (tui/mod.rs handle_key and the AppState methods *)
(* it calls): panes, input modes, overlays, confirmations, the composer of *)
(* Editor, the conversation of Reader, and the toasts.                     *)
(*                                                                         *)
(* A key is one step: run_loop awaits handle_key, and with it the answers  *)
(* of the daemon, before it reads the next key or event.  What the daemon  *)
(* answers is any answer it can give, an error included.  keys is the part *)
(* of the keyboard a behaviour uses; without "toasts" in it every toast    *)
(* expires before the next key.  The plain toasts of searches, replies and *)
(* attachments are pushed like that of new mail, which stands for them.    *)
(* Status line, error banner and theme decide nothing and are left out.    *)
(***************************************************************************)
EXTENDS Editor, Reader

CONSTANTS
  KeySets,        \* the parts of the keyboard used together
  Chars,          \* the characters typed
  Conversations,  \* the message stacks a folder can open on, the empty one included
  FilesOf,        \* per message: how many attachments
  Prefills,       \* what a reply or a forward is filled with
  HelpMax,        \* bounds the scroll offset of the help overlay
  MaxHits         \* bounds the hits of a search

ASSUME ScreenAssumption == <<>> \in Conversations /\ {HelpMax, MaxHits} \subseteq Nat

VARIABLES
  app,     \* AppState
  toasts,  \* the toasts shown, oldest first
  keys
vars == <<app, toasts, keys>>

Panes == <<"Accounts", "Folders", "Conversations", "Details", "Attachments", "Search">>
Folders == {"mail", "drafts", "approvals"}
Modes == {"Normal", "Command", "Compose", "ComposeAttachPath", "ConfirmDiscard", "ConfirmDelete", "QuickSearch"}

-----------------------------------------------------------------------------
(* Panes.                                                                  *)

Approvals(s) == s.folder = "approvals"
\* pane_visible
PaneVisible(s, p) ==
  CASE p = "Details" -> DetailVisible(s.r, Approvals(s))
    [] p = "Attachments" -> AttachmentsVisible(s.r, Approvals(s))
    [] p = "Search" -> s.search # Null
    [] OTHER -> TRUE

\* Mutant: a closed attachments pane leaves the focus where it was.
Mutant_Normalized(s) ==
  CASE s.active = "Details" /\ ~PaneVisible(s, "Details") -> [s EXCEPT !.active = "Conversations"]
    [] s.active = "Search" /\ ~PaneVisible(s, "Search") -> [s EXCEPT !.active = "Conversations"]
    [] OTHER -> s

\* normalize_active_pane
Normalized(s) ==
  CASE s.active \in {"Details", "Search"} /\ ~PaneVisible(s, s.active) ->
         [s EXCEPT !.active = "Conversations"]
    [] s.active = "Attachments" /\ ~PaneVisible(s, "Attachments") ->
         [s EXCEPT !.active = IF PaneVisible(s, "Details") THEN "Details" ELSE "Conversations"]
    [] OTHER -> s
\* The conversation changed: every such function ends in normalize_active_pane.
With(s, r) == Normalized([s EXCEPT !.r = r])

\* next_visible_pane, previous_visible_pane
Cycle(s, step) ==
  LET at == CHOOSE i \in 1..6 : Panes[i] = s.active
      pane(n) == Panes[((at - 1 + n * step + 6) % 6) + 1]
      n == CHOOSE k \in 1..6 : PaneVisible(s, pane(k)) /\ \A j \in 1..(k - 1) : ~PaneVisible(s, pane(j))
  IN [s EXCEPT !.active = pane(n)]

-----------------------------------------------------------------------------
(* What the daemon's answers do: the states each refresh may end in.       *)

\* refresh_attachment_preview
PreviewLoaded(s) ==
  IF s.r.file < s.r.files THEN {s, With(s, ApplyPreview(s.r, s.r.file))}
  ELSE {[s EXCEPT !.r.preview = Null]}
\* refresh_attachments; the "preview" scenario has attachments.
AttachmentsLoaded(s) ==
  LET listed(n) == With(s, ApplyAttachments(s.r, n))
      n == IF Message(s.r) = Null \/ "preview" \notin keys THEN 0 ELSE FilesOf[Message(s.r)]
  IN CASE Message(s.r) = Null -> {listed(0)}
       [] n = 0 -> {s, listed(0)}
       [] OTHER -> {s} \cup PreviewLoaded(listed(n))
\* refresh_detail
DetailLoaded(s) ==
  (IF Message(s.r) = Null THEN {} ELSE {s})
    \cup UNION {IF t.r.detail = Null THEN {t} ELSE AttachmentsLoaded(t) :
                t \in {With(s, ApplyDetail(s.r, m)) : m \in {Null, Message(s.r)}}}
\* What is listed; one message is enough where no key moves in the detail.
Listings == {ms \in Conversations : {"detail", "preview"} \cap keys # {} \/ Len(ms) <= 1}
\* refresh_messages, from the folder cache or from the daemon; refresh_approvals
MessagesLoaded(s) ==
  IF Approvals(s) THEN {s}
  ELSE {s} \cup UNION {IF ms = <<>> THEN {With(s, OpenMessages(s.r, ms))}
                       ELSE DetailLoaded(With(s, OpenMessages(s.r, ms))) : ms \in Listings}
\* refresh_drafts
DraftsLoaded(s) == {s, [s EXCEPT !.listed = s.saved # Null]}
\* Another folder or account is selected: its lists and the detail are cleared.
Cleared(s, folder) ==
  With([s EXCEPT !.folder = folder, !.listed = FALSE], OpenMessages(s.r, <<>>))
\* refresh_folders; apply_folders keeps the approvals folder selected in three panes.
FoldersLoaded(s) ==
  LET kept == Approvals(s) /\ s.active \in {"Folders", "Conversations", "Details"}
  IN {s} \cup UNION {MessagesLoaded(Cleared(s, f)) : f \in IF kept THEN {"approvals"} ELSE Folders}
\* refresh_accounts; apply_accounts leaves only the approvals folder.
AccountsLoaded(s) ==
  LET t == Normalized(Cleared([s EXCEPT !.search = Null], "approvals")) IN {s} \cup FoldersLoaded(t)
\* refresh_missing_expanded_details: some of the missing bodies, in the order asked.
BodiesLoaded(s) ==
  {[s EXCEPT !.r = FoldLeft(CacheBody, s.r, SelectSeq(s.r.messages, LAMBDA m : m \in ms))] :
     ms \in SUBSET Missing(s.r)}

-----------------------------------------------------------------------------
(* Toasts: left is the time until expires_at, in seconds.                  *)

\* ToastKind::ttl, MAX_TOASTS and the COALESCE_ windows
Ttl(kind) == IF kind = "Error" THEN 6 ELSE 3
MaxToasts == 3
Window == [refusal |-> 3, synced |-> 5, failed |-> 10]

\* push_toast
PushToast(ts, kind, text) ==
  Append(IF Len(ts) >= MaxToasts THEN Tail(ts) ELSE ts, [kind |-> kind, text |-> text, left |-> Ttl(kind)])

\* coalesce_toast, else push_toast
Coalesce(ts, kind, text, window) ==
  LET same == {i \in DOMAIN ts : ts[i].kind = kind /\ ts[i].text = text /\ ts[i].left + window >= Ttl(kind)}
  IN IF same = {} THEN PushToast(ts, kind, text)
     ELSE [ts EXCEPT ![CHOOSE i \in same : \A j \in same : j <= i].left = Ttl(kind)]

Quiet == UNCHANGED toasts

\* on_daemon_event: account.synced, sync.state (apply_sync_state), mail.new
DaemonToast ==
  /\ "toasts" \in keys
  /\ toasts' \in {Coalesce(toasts, "Info", "synced", Window.synced),
                  Coalesce(toasts, "Error", "failed", Window.failed), PushToast(toasts, "Info", "mail")}
  /\ UNCHANGED <<app, keys>>

\* tick_toasts, a second later
Tick ==
  /\ toasts # <<>>
  /\ toasts' = SelectSeq([i \in DOMAIN toasts |-> [toasts[i] EXCEPT !.left = @ - 1]], LAMBDA t : t.left > 0)
  /\ UNCHANGED <<app, keys>>

-----------------------------------------------------------------------------
(* The composer.                                                           *)

\* enter_composer, enter_composer_with_prefill, enter_composer_for_existing_draft:
\* whatever was in the composer is replaced.
Composing(s, c) == [s EXCEPT !.composer = c, !.mode = "Compose"]
\* exit_composer, discard_composer
Closed(s) == [s EXCEPT !.composer = Null, !.mode = "Normal"]
\* save_composer
Saved(s) == {s, [s EXCEPT !.composer.dirty = FALSE, !.saved = Draft(s.composer)]}
\* send_composer, which saves first
Sent(s) == Saved(s) \cup {[Closed(s) EXCEPT !.saved = Null]}
\* run_reply, run_forward
Replied(s) ==
  IF Message(s.r) = Null THEN {s} ELSE {s} \cup {Composing(s, FromPrefill(d)) : d \in Prefills}
\* open_selected_draft
DraftOpened(s) ==
  IF s.listed /\ s.saved # Null THEN {s, Composing(s, FromDraft(s.saved, "Body"))} ELSE {s}

\* handle_composer_key, the keys that edit, in the fields a behaviour types in: Up and Down outside the body change the field.
TextKeys(c) ==
  {PushChar(c, ch) : ch \in IF c.focused = "Body" THEN Chars \ {"k"} ELSE Chars} \cup {Enter(c), Backspace(c), DeleteAt(c), DeleteWord(c)}
FieldKeys(c) == {NextComposerField(c), PreviousComposerField(c)}
MoveKeys(c) ==
  {MoveLeft(c), MoveRight(c), Home(c), End(c)}
    \cup (IF c.focused # "Body" THEN {}
          ELSE {ToggleBody(c)} \cup UNION {{MoveBody(c, d, 3), MoveBody(c, 3 * d, 3), MoveBody(SelectBody(c), d, 3)} :
                                           d \in {-1, 1}})
ComposerKey ==
  /\ app.mode = "Compose"
  /\ LET c == app.composer
     IN \/ /\ "text" \in keys
           /\ \E d \in FieldKeys(c) \cup (IF c.focused \in keys THEN TextKeys(c) \cup MoveKeys(c) ELSE {}) :
                app' = [app EXCEPT !.composer = d]
        \/ /\ "files" \in keys
           /\ app' \in {[app EXCEPT !.composer = RemoveFile(c)], [app EXCEPT !.composer = MoveFile(c, 1)],
                        [app EXCEPT !.composer = MoveFile(c, -1)],
                        [app EXCEPT !.mode = "ComposeAttachPath", !.composer.path = <<>>]}
        \/ "text" \notin keys /\ ~HasContent(c) /\ app' = [app EXCEPT !.composer = PushChar(c, "c")]
        \/ "command" \in keys /\ c.focused # "Body" /\ app' = [app EXCEPT !.mode = "Command", !.input = FALSE]
        \/ "save" \in keys /\ app' \in Saved(app) \cup Sent(app)
  /\ Quiet /\ UNCHANGED keys
\* Esc
LeaveComposer ==
  /\ app.mode = "Compose"
  /\ app' = CASE app.composer.view.from # Null -> [app EXCEPT !.composer = ClearBody(@)]
              [] app.composer.dirty /\ HasContent(app.composer) -> [app EXCEPT !.mode = "ConfirmDiscard"]
              [] OTHER -> Closed(app)
  /\ Quiet /\ UNCHANGED keys
ConfirmDiscardKey ==
  /\ app.mode = "ConfirmDiscard"
  /\ app' \in {Closed(app), [app EXCEPT !.mode = "Compose"]}
  /\ Quiet /\ UNCHANGED keys

\* handle_compose_attach_key: a refused path also ends the prompt.
AttachKey ==
  /\ app.mode = "ComposeAttachPath"
  /\ LET c == app.composer
         left == [app EXCEPT !.mode = "Compose", !.composer.path = <<>>]
     IN \/ app' \in {[app EXCEPT !.composer = PushPath(c, ch)] : ch \in {"c", "s"}}
                       \cup {[app EXCEPT !.composer = PopPath(c)], left}
        \/ CanAdd(c) /\ app' = [left EXCEPT !.composer = AddFile(c)]
  /\ Quiet /\ UNCHANGED keys

-----------------------------------------------------------------------------
(* Commands, search and removal.                                           *)

\* submit_search: begin_search, then apply_search_hits or close_search
Searched(s) ==
  LET previous == IF s.search = Null THEN s.active ELSE s.search.previous
  IN {[s EXCEPT !.active = "Search", !.search = [previous |-> previous, hits |-> n, selected |-> 0]] : n \in 0..MaxHits}
       \cup {Normalized([s EXCEPT !.active = previous, !.search = Null])}
\* close_search
SearchClosed(s) == Normalized([s EXCEPT !.active = s.search.previous, !.search = Null])
\* jump_to_hit, in this account or another, and the three refreshes after it
Jumped(s) ==
  LET shut == [s EXCEPT !.search = Null, !.active = "Conversations"]
      here == {With([shut EXCEPT !.folder = f], [s.r EXCEPT !.msg = i]) :
                 f \in {s.folder, "mail"}, i \in 0..Monus(Len(s.r.messages), 1)}
  IN UNION {UNION {UNION {DetailLoaded(c) : c \in MessagesLoaded(b)} : b \in FoldersLoaded(a)} :
            a \in here \cup {Cleared(shut, "mail")}}
\* run_message_remove_for, run_message_move: taken off the list at once, back if refused.
Removed(s, m) ==
  LET rest == SelectSeq(s.r.messages, LAMBDA x : x # m)
      after == IF rest # <<>> THEN {rest} ELSE {ms \in Listings : m \notin Range(ms)}
      gone(ms) == With(s, RemoveMessage(s.r, m, ms))
  IN UNION {MessagesLoaded(gone(ms)) \cup {With(gone(ms), RestoreMessages(gone(ms).r, s.r))} : ms \in after}
\* select_approvals_folder
ApprovalsOpened(s) == Cleared([s EXCEPT !.active = "Conversations"], "approvals")
\* begin_delete_confirmation, begin_draft_delete: each clears the other's slot.
AskDelete(s, m) == [s EXCEPT !.mode = "ConfirmDelete", !.doomed = [message |-> m, draft |-> m = Null]]
NotDoomed == [message |-> Null, draft |-> FALSE]

\* open_help
HelpOpened(s) == IF s.composer # Null \/ s.mode # "Normal" THEN s ELSE [s EXCEPT !.help = 0]

\* run_folder_write and, where a message is selected, run_flag_write
FolderWritten(s) == MessagesLoaded(s)
\* run_goto_folder
Gone(s) ==
  {ApprovalsOpened(s)}
    \cup UNION {MessagesLoaded(t) :
                t \in {s} \cup {Cleared([s EXCEPT !.active = "Folders"], f) : f \in {"mail", "drafts"}}}
\* run_select_account
AccountChosen(s) == UNION {FoldersLoaded(t) : t \in {s, Cleared([s EXCEPT !.active = "Accounts"], "approvals")}}
\* execute_command; :theme, :approve and :deny change nothing modelled here.
Executed(s) ==
  {ApprovalsOpened(s), Composing(s, NewComposer), HelpOpened(s)}
    \cup FolderWritten(s) \cup Replied(s) \cup Gone(s) \cup AccountChosen(s) \cup Searched(s)
    \cup (IF Message(s.r) = Null THEN {} ELSE Removed(s, Message(s.r)) \cup {AskDelete(s, Message(s.r))})
    \cup (IF s.composer = Null THEN {} ELSE Saved(s))

\* cancel_command_mode, finish_command
CommandLeft(s) == [s EXCEPT !.mode = IF s.composer = Null THEN "Normal" ELSE "Compose", !.input = FALSE]
\* handle_command_key: an input without a command in it runs nothing (run_command_line).
CommandKey ==
  /\ app.mode = "Command"
  /\ app' \in {CommandLeft(app)} \cup {[app EXCEPT !.input = b] : b \in BOOLEAN}
                \cup (IF app.input THEN Executed(CommandLeft(app)) ELSE {})
  /\ Quiet /\ UNCHANGED keys

\* handle_quick_search_key
QuickSearchKey ==
  /\ app.mode = "QuickSearch"
  /\ LET done == [app EXCEPT !.mode = "Normal", !.input = FALSE]
     IN \/ app' \in {[done EXCEPT !.active = app.before], done} \cup {[app EXCEPT !.input = b] : b \in BOOLEAN}
        \/ app.input /\ app' \in Searched(done)
  /\ Quiet /\ UNCHANGED keys

\* handle_delete_confirmation_key; delete_pending_draft
ConfirmDeleteKey ==
  /\ app.mode = "ConfirmDelete"
  /\ LET done == [app EXCEPT !.mode = "Normal", !.doomed = NotDoomed]
     IN app' \in {done} \cup (IF app.doomed.draft
                              THEN {[done EXCEPT !.listed = FALSE, !.saved = Null]}
                                     \cup DraftsLoaded([done EXCEPT !.listed = FALSE])
                              ELSE Removed(done, app.doomed.message))
  /\ Quiet /\ UNCHANGED keys

\* handle_help_key
HelpKey ==
  /\ app.help # Null
  /\ app' \in {[app EXCEPT !.help = h] : h \in {Null, 0, HelpMax, Monus(app.help, 1), Least(app.help + 1, HelpMax)}}
  /\ Quiet /\ UNCHANGED keys

\* handle_open_confirmation_key: opened or not, the question is gone.
OpenConfirmationKey ==
  /\ app.help = Null /\ app.r.opening # Null
  /\ app' = [app EXCEPT !.r.opening = Null]
  /\ Quiet /\ UNCHANGED keys

-----------------------------------------------------------------------------
(* Normal mode.                                                            *)

Normal == app.help = Null /\ app.r.opening = Null /\ app.mode = "Normal"

\* toggle_attachment_focus
AttachmentsToggled(s) ==
  IF ~PaneVisible(s, "Attachments") THEN Normalized(s)
  ELSE IF s.active # "Attachments" THEN [s EXCEPT !.active = "Attachments"]
  ELSE [s EXCEPT !.active = "Conversations", !.r.onPreview = FALSE, !.r.lines = Null]

\* current_pane_kind
PaneKind(s) ==
  IF s.active = "Conversations" THEN s.folder
  ELSE IF s.active = "Details" /\ Approvals(s) THEN "approvals"
  ELSE s.active
\* resolve_pane_action, run_pane_action: what o, O, a, d, e and m do; any other pane refuses.
PaneActions(s, k) ==
  LET kind == PaneKind(s)
      onMessage == kind \in {"mail", "Details"}
  IN CASE k = "o" /\ kind = "Details" ->
            LET t == With(s, ToggleExpansion(s.r))
            IN IF s.r.messages # <<>> /\ Expanded(t.r, Focused(t.r)) THEN BodiesLoaded(t) ELSE {t}
       [] k = "o" /\ kind = "Attachments" -> {[s EXCEPT !.r = AskOpen(s.r)]}
       [] k = "o" /\ kind = "drafts" -> DraftOpened(s)
       [] k = "O" /\ kind = "Details" -> BodiesLoaded(With(s, ExpandAll(s.r)))
       [] k = "a" /\ (onMessage \/ kind = "Attachments") -> {AttachmentsToggled(s)}
       [] k \in {"a", "d"} /\ kind = "approvals" -> {s}
       [] k = "d" /\ kind = "drafts" -> {IF s.listed THEN AskDelete(s, Null) ELSE s}
       [] k = "d" /\ onMessage -> {IF Message(s.r) = Null THEN s ELSE AskDelete(s, Message(s.r))}
       [] k = "e" /\ onMessage -> IF Message(s.r) = Null THEN {s} ELSE Removed(s, Message(s.r))
       [] k = "e" /\ kind = "Attachments" -> {s}
       [] k = "m" /\ onMessage -> {[s EXCEPT !.mode = "Command", !.input = TRUE]}
       [] OTHER -> {}
PaneKey ==
  /\ Normal
  /\ \E k \in {"o", "O", "a", "d", "e", "m"} :
       /\ k = "m" => "command" \in keys
       /\ "detail" \in keys => k \in {"o", "O"}
       /\ "preview" \in keys /\ app.active = "Details" => k \notin {"o", "O"}
       /\ \E taken \in {PaneActions(app, k)} :
            \/ app' \in taken /\ Quiet
            \/ /\ taken = {} /\ UNCHANGED app
               /\ toasts' = IF "toasts" \in keys THEN Coalesce(toasts, "Info", k, Window.refusal)
                            ELSE toasts
  /\ UNCHANGED keys

\* handle_search_pane_key
SearchPaneKey ==
  /\ Normal /\ app.active = "Search"
  /\ LET to(i) == {[app EXCEPT !.search.selected = i]}
     IN app' \in {SearchClosed(app)} \cup Searched(app)
                   \cup (IF app.search.hits = 0 THEN {}
                         ELSE to(Monus(app.search.selected, 1)) \cup to(Least(app.search.selected + 1, app.search.hits - 1))
                                \cup {app} \cup Jumped(app))
  /\ Quiet /\ UNCHANGED keys

\* handle_detail_key; j and k move to the next message before they move by lines.
DetailKey ==
  /\ Normal /\ app.active = "Details"
  /\ LET r == app.r
         step(d) == UNION {IF q = r THEN {[app EXCEPT !.r = DetailLine(r, d)]} ELSE DetailLoaded(With(app, q)) :
                           q \in {MoveFocus(r, d)}}
         moves == {DetailClear(r), DetailToggle(r), DetailLeft(r), DetailRight(r), DetailHome(r), DetailEnd(r)}
                    \cup {DetailLine(r, d) : d \in {PageLines, -PageLines}}
                    \cup {DetailLine(DetailSelect(r), d) : d \in {-1, 1}}
     IN \/ "detail" \in keys /\ \E moved \in moves : app' = [app EXCEPT !.r = moved]
        \/ {"detail", "preview"} \cap keys # {} /\ app' \in UNION {step(d) : d \in {-1, 1}}
  /\ Quiet /\ UNCHANGED keys

\* handle_preview_focus_key
PreviewKey ==
  /\ Normal /\ app.active = "Attachments" /\ app.r.onPreview /\ app.r.preview # Null
  /\ LET r == app.r
         half == IF PageLines < 2 THEN 1 ELSE PageLines \div 2
     IN \E moved \in {LeavePreview(r), TogglePreview(r), PreviewTop(r), PreviewBottom(r)}
                       \cup {StepPreview(r, d) : d \in {-1, 1}} \cup {ScrollPreview(r, d, PageLines) : d \in {half, -half}} :
          app' = [app EXCEPT !.r = moved]
  /\ Quiet /\ UNCHANGED keys

\* The refreshes the keys below end in: what, and the state it starts from.
Refreshed(what, s) ==
  CASE what = "accounts" -> AccountsLoaded(s)
    [] what = "folders" -> FoldersLoaded(s)
    [] what = "messages" -> MessagesLoaded(s)
    [] what = "drafts" -> DraftsLoaded(s)
    [] what = "detail" -> DetailLoaded(s)
    [] what = "attachments" -> AttachmentsLoaded(s)
    [] what = "preview" -> PreviewLoaded(s)
    [] OTHER -> {s}
\* move_selection, then refresh_after_selection_change when it moved
SelectionMoved(s) ==
  CASE s.active = "Accounts" -> {<<"nothing", s>>, <<"folders", Cleared(s, "approvals")>>}
    [] s.active = "Folders" ->
         {<<"nothing", s>>} \cup {<<IF f = "drafts" THEN "drafts" ELSE "messages", Cleared(s, f)>> : f \in Folders}
    [] s.active = "Conversations" /\ s.folder = "drafts" -> {<<"nothing", s>>, <<"nothing", With(s, ClearDetail(s.r))>>}
    [] s.active = "Conversations" /\ s.folder = "mail" ->
         {<<"nothing", s>>} \cup {<<"detail", With(s, OpenMessages(s.r, ms))>> :
                                  ms \in {c \in Listings \ {<<>>} : Range(c) \cap Range(s.r.messages) = {}}}
    [] s.active = "Attachments" /\ ~s.r.onPreview ->
         {<<IF r = s.r THEN "nothing" ELSE "preview", [s EXCEPT !.r = r]>> : r \in {MoveAttachment(s.r, d) : d \in {-1, 1}}}
    [] OTHER -> {<<"nothing", s>>}
\* refresh_current_pane
PaneRefreshed(s) ==
  CASE s.active = "Accounts" -> {<<"accounts", s>>}
    [] s.active = "Folders" -> {<<"folders", s>>}
    [] s.active \in {"Conversations", "Details"} /\ s.folder = "drafts" -> {<<"drafts", s>>}
    [] s.active = "Conversations" -> {<<"messages", s>>}
    [] s.active = "Details" -> {<<IF Approvals(s) THEN "nothing" ELSE "detail", s>>}
    [] s.active = "Attachments" -> {<<"attachments", s>>}
    [] OTHER -> {}
\* Enter
Entered(s) ==
  CASE s.active = "Conversations" /\ s.folder = "drafts" -> {<<"nothing", t>> : t \in DraftOpened(s)}
    [] s.active = "Conversations" -> {<<IF s.r.messages # <<>> THEN "detail" ELSE "nothing", s>>}
    [] s.active = "Attachments" ->
         {<<"nothing", [t EXCEPT !.r = FocusPreview(t.r)]>> :
            t \in IF s.r.preview # Null /\ ~s.r.onPreview THEN {s} ELSE PreviewLoaded(s)}
    [] s.active = "Details" -> {<<IF Approvals(s) THEN "nothing" ELSE "detail", s>>}
    [] s.active = "Folders" -> {<<IF s.folder = "drafts" THEN "drafts" ELSE "messages", s>>}
    [] s.active = "Accounts" -> {<<"folders", s>>}
    [] OTHER -> {}

\* Who reads a conversation leaves these panes for good.
Lists == {"Accounts", "Folders"}
\* The keys of handle_key that no pane took before.
GlobalKey ==
  /\ Normal
  /\ \/ /\ {"panes", "detail", "preview"} \cap keys # {}
        /\ app' \in {Cycle(app, 1), Cycle(app, -1)}
        /\ "panes" \in keys \/ app.active \in Lists \/ app'.active \notin Lists
     \/ /\ "panes" \in keys \/ ({"detail", "preview"} \cap keys # {} /\ app.active \notin Lists)
        /\ \E load \in Entered(app) \cup (IF "detail" \in keys THEN {} ELSE SelectionMoved(app) \cup PaneRefreshed(app)) :
             app' \in Refreshed(load[1], load[2])
     \/ {"panes", "preview"} \cap keys # {} /\ app' \in FolderWritten(app) \cup {ApprovalsOpened(app)}
     \/ "help" \in keys /\ app' = HelpOpened(app)
     \/ "command" \in keys /\ app' = [app EXCEPT !.mode = "Command", !.input = FALSE]
     \/ "search" \in keys /\ app' = [app EXCEPT !.mode = "QuickSearch", !.input = FALSE, !.before = app.active]
     \/ "compose" \in keys /\ app' \in {Composing(app, NewComposer)} \cup Replied(app)
  /\ Quiet /\ UNCHANGED keys
\* x and X
DismissToast ==
  /\ Normal /\ toasts # <<>>
  /\ toasts' \in {Front(toasts), <<>>}
  /\ UNCHANGED <<app, keys>>

-----------------------------------------------------------------------------
\* The state after the first refresh_accounts, with a folder open.
ScreenInit ==
  /\ keys \in KeySets
  /\ \E ms \in Listings :
       app = [active |-> "Accounts", mode |-> "Normal", folder |-> "mail", help |-> Null, search |-> Null,
              before |-> "Accounts", input |-> FALSE, doomed |-> NotDoomed, listed |-> FALSE, saved |-> Null,
              composer |-> Null, r |-> OpenMessages(NoReader, ms)]
  /\ toasts = <<>>

ScreenNext ==
  \/ ComposerKey \/ LeaveComposer \/ ConfirmDiscardKey \/ AttachKey
  \/ CommandKey \/ QuickSearchKey \/ ConfirmDeleteKey \/ HelpKey \/ OpenConfirmationKey
  \/ PaneKey \/ SearchPaneKey \/ DetailKey \/ PreviewKey \/ GlobalKey
  \/ DismissToast \/ DaemonToast \/ Tick

ScreenSpec == ScreenInit /\ [][ScreenNext]_vars

-----------------------------------------------------------------------------
(* Properties.                                                             *)

\* The composer's line index, cursors and selection agree with its text after every
\* edit (after_text_edit, reset_body_navigation_state), a key undone leaves the text as
\* it was, and what save_composer stores is the draft open_selected_draft reads back:
\* split_addresses and join_addresses undo each other on what the fields can hold.
ComposerSound ==
  app.composer # Null =>
    SoundComposer(app.composer) /\ Reversible(app.composer) /\ Restorable(app.composer)

\* The text of the open conversation is the one its stack, its bodies and its focus
\* call for, the cursor goes to the focused header, and the preview, its selection and
\* the question asked belong to an attachment on display.
ConversationSound == SoundDetail(app.r) /\ CursorOnFocused(app.r) /\ SoundPreview(app.r)

\* The focus is never on a pane that pane_visible calls hidden (the search results are
\* drawn over two of them), and every mode has what it is about: a composer, a message
\* or a draft to delete; the help overlay covers neither.
FocusShown ==
  /\ PaneVisible(app, app.active)
  /\ app.mode \in {"Compose", "ConfirmDiscard", "ComposeAttachPath"} => app.composer # Null
  /\ (app.mode = "ConfirmDelete") = (app.doomed.draft # (app.doomed.message # Null))
  /\ app.help # Null => app.mode = "Normal" /\ app.composer = Null
  /\ app.search # Null => app.search.selected = 0 \/ app.search.selected < app.search.hits

\* A repeated sync result, sync error or refused key is one toast, however fast it
\* repeats (coalesce_toast with its three windows).
NoTwinToasts ==
  \A i, j \in DOMAIN toasts :
    i # j /\ toasts[i].kind = toasts[j].kind /\ toasts[i].text = toasts[j].text =>
      toasts[i].text = "mail"

\* Keys act on what is shown, and what is shown is not repeated (normalize_active_pane,
\* coalesce_toast).
ScreenSound == FocusShown /\ NoTwinToasts
=============================================================================
