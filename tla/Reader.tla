---------------------------------- MODULE Reader ----------------------------------
(***************************************************************************)
(* The open conversation (tui/app.rs): the stack of its messages, folded   *)
(* or not, the text made of them, the cursor in that text, the attachments *)
(* of the focused message and the preview of one of them.                  *)
(*                                                                         *)
(* Every function of app.rs is an operator on the record r of those parts  *)
(* of AppState.  A message's texts are short and fixed; what the daemon    *)
(* answers is chosen by Screen.  r.kept is history: a message was removed  *)
(* from the stack and the text not made again.                             *)
(***************************************************************************)
EXTENDS TextLines, SequencesExt

CONSTANTS
  BodyOf,       \* per message: stack_detail_text, detail_text
  SummaryOf,    \* per message: message_summary_detail_text
  PreviewLines, \* per attachment: the lines of preview_text
  PageLines     \* DETAIL_KEY_VIEWPORT_LINES, PREVIEW_KEY_VIEWPORT_LINES

\* Nothing is open.
NoReader ==
  [messages |-> <<>>, msg |-> 0, focused |-> Null, expanded |-> {}, bodies |-> {}, detail |-> Null,
   text |-> Null, view |-> TopOf, files |-> 0, file |-> 0, preview |-> Null, onPreview |-> FALSE,
   scroll |-> 0, lines |-> Null, opening |-> Null, kept |-> FALSE]

\* normalize_active_pane needs the panes; here is what decides it.
DetailVisible(r, approvals) == approvals \/ r.detail # Null
AttachmentsVisible(r, approvals) == ~approvals /\ r.detail # Null /\ r.files > 0

-----------------------------------------------------------------------------
(* The text of the conversation.                                           *)

Message(r) == IF r.msg < Len(r.messages) THEN r.messages[r.msg + 1] ELSE Null
\* focused_conversation_message_id
Focused(r) == IF r.focused # Null THEN r.focused ELSE Message(r)
\* ConversationDetailState::is_expanded
Expanded(r, m) == Len(r.messages) = 1 \/ m \in r.expanded
HasBody(r, m) == m \in r.bodies \/ r.detail = m
TextOf(r, m) == IF HasBody(r, m) THEN BodyOf[m] ELSE SummaryOf[m]
\* expanded_message_header, collapsed_message_header: "f" marks the focused one.
HeaderOf(r, m) == IF Focused(r) = m THEN <<"f">> ELSE <<"c">>
Section(r, m) == HeaderOf(r, m) \o (IF Expanded(r, m) THEN <<"n">> \o TextOf(r, m) ELSE <<>>)

\* conversation_detail_text
ConversationText(r) ==
  CASE r.messages = <<>> -> IF r.detail = Null THEN Null ELSE BodyOf[r.detail]
    [] Len(r.messages) = 1 -> TextOf(r, r.messages[1])
    [] OTHER -> FoldLeft(LAMBDA t, m : t \o <<"n">> \o Section(r, m), Section(r, Head(r.messages)),
                         Tail(r.messages))

\* Without a text, the cursor is at the start of nothing.
Cache(r) == FromText(IF r.text = Null THEN <<>> ELSE r.text)
Rebuild(r) == [r EXCEPT !.text = ConversationText(r), !.kept = FALSE]

\* Mutant: the bodies above the focused message are not counted.
Mutant_HeaderLine(r) ==
  IF Len(r.messages) <= 1 \/ Focused(r) \notin Range(r.messages) THEN 0
  ELSE (CHOOSE i \in DOMAIN r.messages : r.messages[i] = Focused(r)) - 1

\* focused_message_header_line: one line per header above it, and the bodies unfolded.
HeaderLine(r) ==
  IF Len(r.messages) <= 1 \/ Focused(r) \notin Range(r.messages) THEN 0
  ELSE LET at == CHOOSE i \in DOMAIN r.messages : r.messages[i] = Focused(r)
           height(m) == 1 + (IF Expanded(r, m) THEN LineCount(FromText(TextOf(r, m))) ELSE 0)
       IN FoldLeft(LAMBDA n, m : n + height(m), 0, SubSeq(r.messages, 1, at - 1))

\* reset_detail_navigation_state, place_detail_cursor_at_focused_message
Place(r) ==
  LET line == HeaderLine(r)
      at == IF r.text = Null THEN 0 ELSE LineStart(Cache(r), line)
  IN [r EXCEPT !.view = [TopOf EXCEPT !.at = at, !.to = line]]
Show(r) == Place(Rebuild(r))

-----------------------------------------------------------------------------
(* Attachments and the detail itself.                                      *)

\* reset_preview_navigation_state
ResetPreview(r) == [r EXCEPT !.onPreview = FALSE, !.scroll = 0, !.lines = Null]
ClearAttachments(r) ==
  ResetPreview([r EXCEPT !.files = 0, !.preview = Null, !.file = 0, !.opening = Null])
\* ConversationDetailState::reset
ResetStack(r) ==
  LET m == IF r.messages = <<>> THEN Null ELSE r.messages[Least(r.msg, Len(r.messages) - 1) + 1]
  IN [r EXCEPT !.focused = m, !.expanded = IF m = Null THEN {} ELSE {m}, !.bodies = {}]
\* clear_detail_state
ClearDetail(r) == ClearAttachments(ResetStack([r EXCEPT !.detail = Null, !.text = Null, !.view = TopOf, !.kept = FALSE]))

\* refresh_visible_messages: the selected message stays selected, else the latest is.
Listed(r, ms) ==
  LET kept == {i \in DOMAIN ms : ms[i] = Message(r)}
  IN [r EXCEPT !.messages = ms,
               !.msg = IF ms = <<>> THEN 0 ELSE (IF kept = {} THEN Len(ms) ELSE CHOOSE i \in kept : TRUE) - 1]
\* apply_folder_messages, restore_folder_snapshot, selecting a conversation
OpenMessages(r, ms) == ClearDetail(Listed(r, ms))
\* remove_message_locally leaves ms listed; the detail stays when it is another message's.
RemoveMessage(r, m, ms) ==
  IF r.detail = m THEN ClearDetail(Listed(r, ms)) ELSE [Listed(r, ms) EXCEPT !.kept = TRUE]
\* restore_message_list_snapshot
RestoreMessages(r, old) == [r EXCEPT !.messages = old.messages, !.msg = old.msg, !.kept = FALSE]

\* apply_detail
ApplyDetail(r, m) ==
  LET kept == IF r.detail # m THEN ClearAttachments(r) ELSE r
      cached == IF m = Null THEN kept ELSE [kept EXCEPT !.bodies = @ \cup {m}]
      shown == Show([cached EXCEPT !.detail = m])
  IN IF m = Null THEN ClearAttachments(shown) ELSE shown

\* cache_conversation_detail: the text changes under the cursor.
CacheBody(r, m) ==
  Rebuild([r EXCEPT !.bodies = @ \cup {m}, !.detail = IF Focused(r) = m THEN m ELSE @])

\* apply_attachments
ApplyAttachments(r, n) ==
  LET a == [r EXCEPT !.files = n, !.file = IF n = 0 THEN 0 ELSE Least(@, n - 1)]
      b == IF r.preview # Null /\ (n = 0 \/ r.preview # a.file)
           THEN ResetPreview([a EXCEPT !.preview = Null]) ELSE a
  IN IF n = 0 THEN ResetPreview([b EXCEPT !.preview = Null, !.opening = Null]) ELSE b

\* apply_attachment_preview
ApplyPreview(r, f) ==
  IF r.preview = f THEN r ELSE ResetPreview([r EXCEPT !.preview = f])

-----------------------------------------------------------------------------
(* The stack.                                                              *)

\* toggle_focused_message_expansion
ToggleExpansion(r) ==
  IF Len(r.messages) = 0 \/ (Len(r.messages) > 1 /\ r.focused = Null) THEN r
  ELSE Show([r EXCEPT !.expanded = IF Len(r.messages) = 1 THEN @
                                   ELSE IF r.focused \in @ THEN @ \ {r.focused} ELSE @ \cup {r.focused}])
\* expand_all_conversation_messages
ExpandAll(r) ==
  IF r.messages = <<>> THEN r ELSE Show([r EXCEPT !.expanded = @ \cup Range(r.messages)])
\* expanded_message_ids_without_detail
Missing(r) == {m \in Range(r.messages) : Expanded(r, m)} \ r.bodies

\* move_conversation_detail_focus
MoveFocus(r, delta) ==
  LET current == IF Focused(r) \in Range(r.messages)
                 THEN (CHOOSE i \in DOMAIN r.messages : r.messages[i] = Focused(r)) - 1
                 ELSE Least(r.msg, Len(r.messages) - 1)
      next == IF delta < 0 THEN Monus(current, 1) ELSE Least(current + 1, Len(r.messages) - 1)
      m == r.messages[next + 1]
  IN IF Len(r.messages) <= 1 \/ next = current THEN r
     ELSE Show(ClearAttachments([r EXCEPT !.msg = next, !.focused = m,
                                          !.detail = IF m \in r.bodies THEN m ELSE @]))

-----------------------------------------------------------------------------
(* The cursor in the detail.                                               *)

\* move_detail_line needs a text.
DetailLine(r, delta) ==
  IF r.text = Null THEN r ELSE [r EXCEPT !.view = MoveLine(Cache(r), @, delta, PageLines)]
DetailSelect(r) == [r EXCEPT !.view = StartSelection(Cache(r), @)]
DetailToggle(r) == [r EXCEPT !.view = ToggleSelection(Cache(r), @)]
DetailClear(r) == [r EXCEPT !.view = ClearSelection(Cache(r), @)]
DetailHere(r) == LineColumn(Cache(r), r.view.at)
\* move_detail_cursor_left: not past the start of the line
DetailLeft(r) ==
  IF DetailHere(r).column = 0 THEN r
  ELSE [r EXCEPT !.view.at = Least(@, Cache(r).len) - 1, !.view.column = Null]
\* move_detail_cursor_right
DetailRight(r) ==
  IF DetailHere(r).column >= LineLen(Cache(r), DetailHere(r).line) THEN r
  ELSE [r EXCEPT !.view.at = LineStart(Cache(r), DetailHere(r).line) + DetailHere(r).column + 1,
                 !.view.column = Null]
\* detail_home, detail_end: set_detail_cursor
DetailHome(r) == [r EXCEPT !.view.at = LineStart(Cache(r), DetailHere(r).line), !.view.column = Null]
DetailEnd(r) == [r EXCEPT !.view.at = LineEnd(Cache(r), DetailHere(r).line), !.view.column = Null]

-----------------------------------------------------------------------------
(* The preview of an attachment.                                           *)

Count(r) == IF r.preview = Null THEN 0 ELSE PreviewLines[r.preview]
\* preview_max_scroll
MaxScroll(r, height) == Monus(Count(r), height)
\* scroll_preview
ScrollPreview(r, delta, height) ==
  LET max == MaxScroll(r, height)
      old == Least(r.scroll, max)
  IN [r EXCEPT !.scroll = IF delta < 0 THEN Monus(old, 0 - delta) ELSE Least(old + delta, max)]
PreviewTop(r) == [r EXCEPT !.scroll = 0]
PreviewBottom(r) == [r EXCEPT !.scroll = MaxScroll(r, PageLines)]

\* move_preview_line: extends the selection, else scrolls in a viewport of one line.
MovePreview(r, delta) ==
  IF r.lines = Null THEN ScrollPreview(r, delta, 1)
  ELSE LET last == Monus(Count(r), 1)
           to == IF delta < 0 THEN Monus(r.lines[2], 0 - delta) ELSE Least(r.lines[2] + delta, last)
       IN [r EXCEPT !.lines = <<@[1], to>>]
\* j and k of handle_preview_focus_key: both calls.
StepPreview(r, delta) == ScrollPreview(MovePreview(r, delta), delta, PageLines)
\* toggle_preview_selection
TogglePreview(r) ==
  IF r.lines # Null THEN [r EXCEPT !.lines = Null]
  ELSE LET line == Least(r.scroll, Monus(Count(r), 1)) IN [r EXCEPT !.lines = <<line, line>>]
\* preview_yank_text: the lines copied.
Yanked(r) ==
  IF r.lines = Null \/ Count(r) = 0 THEN {}
  ELSE LET last == Count(r) - 1
           a == Least(r.lines[1], last)
           b == Least(r.lines[2], last)
       IN Least(a, b)..(IF a < b THEN b ELSE a)
\* Esc: clear_preview_selection, else defocus_preview.
LeavePreview(r) ==
  IF r.lines # Null THEN [r EXCEPT !.lines = Null] ELSE [r EXCEPT !.onPreview = FALSE]
\* focus_preview
FocusPreview(r) == IF r.preview = Null THEN r ELSE [r EXCEPT !.onPreview = TRUE]
\* move_selection in Attachments, outside the preview.
MoveAttachment(r, delta) ==
  LET next == IF r.files = 0 THEN 0
              ELSE IF delta < 0 THEN Monus(r.file, 1) ELSE Least(r.file + 1, r.files - 1)
  IN IF next = r.file THEN r ELSE ResetPreview([r EXCEPT !.file = next, !.preview = Null])
\* begin_open_attachment_confirmation
AskOpen(r) == IF r.file < r.files THEN [r EXCEPT !.opening = r.file] ELSE r

-----------------------------------------------------------------------------
(* What must hold of an open conversation.                                 *)

\* The text is the one the stack, its bodies and its focus call for, every viewport
\* shows the cursor's line, and the selection covers lines there are.  Excepted is the
\* text a removed message stays in because another one's detail is shown and the reload
\* failed (kept): remove_message_locally leaves it.
SoundDetail(r) ==
  r.detail # Null /\ ~r.kept =>
    /\ r.text = ConversationText(r)
    /\ SelectedLines(Cache(r), r.view) \subseteq 0..(LineCount(Cache(r)) - 1)
    /\ \A height \in 1..(LineCount(Cache(r)) + 1) :
         LET top == VisibleScroll(Cache(r), r.view, height)
         IN top <= DetailHere(r).line /\ DetailHere(r).line < top + height

\* Placing the cursor puts it on the header that carries the mark.
CursorOnFocused(r) ==
  Len(r.messages) > 1 /\ r.detail # Null /\ ~r.kept /\ Focused(r) \in Range(r.messages) =>
    r.text[Place(r).view.at + 1] = "f"

\* The focused preview, its selection and the attachment asked about belong to what is
\* on display, and what is copied are lines of the preview.
SoundPreview(r) ==
  /\ r.preview # Null => r.preview = r.file /\ r.file < r.files
  /\ r.onPreview \/ r.lines # Null => r.preview # Null
  /\ r.lines # Null => Yanked(r) # {} /\ {r.lines[1], r.lines[2]} \subseteq 0..(Count(r) - 1)
  /\ r.opening # Null => r.opening < r.files
  /\ r.files > 0 => r.detail # Null
=============================================================================
