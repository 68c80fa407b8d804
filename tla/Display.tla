--------------------------------- MODULE Display ---------------------------------
(***************************************************************************)
(* What the TUI draws of a state of Screen (tui/render.rs), and the help   *)
(* overlay it draws over it (tui/help.rs).  A text that is measured is the *)
(* sequence of its characters' widths in columns: 0, 1 or 2.  The areas    *)
(* are given (ratatui's layout is external); wording and colours are left  *)
(* out.                                                                    *)
(***************************************************************************)
EXTENDS Screen

CONSTANTS
  Heights,   \* heights an area with a border can have
  Widths,    \* widths of a row
  Texts,     \* texts measured
  Frames     \* sizes of the terminal

Total(t) == FoldLeft(LAMBDA a, b : a + b, 0, t)

-----------------------------------------------------------------------------
(* Text in a given width.                                                  *)

\* take_width: the longest prefix that fits.
TakeWidth(t, max) ==
  SubSeq(t, 1, CHOOSE n \in 0..Len(t) :
                 /\ Total(SubSeq(t, 1, n)) <= max
                 /\ n < Len(t) => Total(SubSeq(t, 1, n + 1)) > max
                 /\ \A k \in 0..n : Total(SubSeq(t, 1, k)) <= max)
\* truncate_for_width: what is cut ends in an ellipsis of one column.
TruncateForWidth(t, max) ==
  IF max = 0 THEN <<>> ELSE IF Total(t) <= max THEN t ELSE Append(TakeWidth(t, max - 1), 1)
\* truncate_spans, of two segments
TruncateSpans(a, b, max) ==
  IF max = 0 THEN <<>>
  ELSE IF Total(a) > max THEN TruncateForWidth(a, max)
  ELSE IF Total(a) = max THEN a
  ELSE a \o TruncateForWidth(b, max - Total(a))
\* row_with_right_date: the columns before the date, and the date.
RowWithRightDate(a, b, date, width) ==
  LET d == TakeWidth(date, width)
      avail == Monus(width, Total(d) + 1)
      left == TruncateSpans(a, b, avail)
  IN [before |-> Total(left) + Monus(avail, Total(left)) + 1, date |-> Total(d)]
\* compose_status_text: the icons first, then what fits of the summary.
ComposeStatus(icons, body, width) ==
  LET prefix == <<1>> \o icons \o <<1>>
  IN IF icons = <<>> THEN body
     ELSE IF width = 0 THEN icons
     ELSE IF Total(prefix) + Total(body) <= width THEN prefix \o body
     ELSE IF Total(prefix) >= width THEN TakeWidth(prefix, width)
     ELSE prefix \o TakeWidth(body, width - Total(prefix))

-----------------------------------------------------------------------------
(* Panes.                                                                  *)

\* render: the panes on the screen.
Drawn(s) ==
  IF s.composer # Null THEN {"Composer"}
  ELSE {"Accounts", "Folders", "Conversations"}
         \cup (CASE s.search # Null -> {"Search"}
                 [] s.search = Null /\ Approvals(s) -> {"Details"}
                 [] s.search = Null /\ AttachmentsVisible(s.r, Approvals(s)) -> {"Details", "Attachments"}
                 [] OTHER -> {"Details"})
\* pane_block_owned: the one pane whose frame is lit.
Lit(s) == {p \in Drawn(s) : p = s.active}

\* selection_state
SelectionState(len, selected) == IF len = 0 THEN Null ELSE Least(selected, len - 1)
\* render_search, render_attachment_list, render_compose_attachments: the row highlighted
SearchRow(s) == SelectionState(s.search.hits, s.search.selected)
AttachmentRow(s) == SelectionState(s.r.files, s.r.file)
ComposeRow(c) == SelectionState(c.files, c.selected)

\* set_cursor_in_area: the cell inside the border, from its corner; Null if there is none.
CursorInArea(width, height, column, row) ==
  IF Monus(width, 2) = 0 \/ Monus(height, 2) = 0 THEN Null
  ELSE [x |-> Least(column, width - 3), y |-> Least(row, height - 3)]
\* Mutant: the viewport counts the border's rows too.
Mutant_Viewport(cache, view, height) ==
  LET scroll == VisibleScroll(cache, view, IF height = 0 THEN 1 ELSE height)
      here == LineColumn(cache, view.at)
      rows == Monus(height, 2)
  IN [lines |-> {scroll + i : i \in 0..(Least(IF rows = 0 THEN 1 ELSE rows, LineCount(cache) - scroll) - 1)},
      top |-> scroll,
      cursor |-> IF here.line < scroll THEN Null
                 ELSE CursorInArea(80, height, here.column, here.line - scroll)]
\* render_detail_viewport and render_composer_body: the lines shown and the cursor.
Viewport(cache, view, height) ==
  LET rows == IF Monus(height, 2) = 0 THEN 1 ELSE height - 2
      scroll == VisibleScroll(cache, view, rows)
      here == LineColumn(cache, view.at)
  IN [lines |-> {scroll + i : i \in 0..(Least(rows, LineCount(cache) - scroll) - 1)},
      top |-> scroll,
      cursor |-> IF here.line < scroll THEN Null
                 ELSE CursorInArea(80, height, here.column, here.line - scroll)]
\* render_attachment_preview: the lines below the hint shown when it has no focus.
PreviewShown(r, height) ==
  LET rows == IF Monus(height, 2) = 0 THEN 1 ELSE height - 2
      scroll == Least(r.scroll, MaxScroll(r, rows))
  IN {l \in 0..(Count(r) - 1) : l >= scroll /\ l < scroll + rows}
\* display_width of a text, of which "w" is a wide character
DisplayWidth(t) == Total([i \in DOMAIN t |-> IF t[i] = "w" THEN 2 ELSE 1])
\* render_composer_field, in a pane of the given width: the cursor's column is the width
\* of the text before it, however the text is wrapped.
FieldCursor(c, f, width) ==
  LET before == SubSeq(c.text[f], 1, Least(c.cursor[f], Len(c.text[f])))
  IN CursorInArea(width, 3, DisplayWidth(before), 0)
\* render_composer_body, in a pane of the given height
BodyShown(c, height) == Viewport(c.cache, c.view, height)
\* render_composer: the terminal's cursor goes to the field in focus.
ComposerCursor(c, height) ==
  IF c.focused = "Body" THEN BodyShown(c, height).cursor ELSE FieldCursor(c, c.focused, 80)

\* is_preview_focus_active
PreviewFocused(s) == s.r.onPreview /\ s.r.preview # Null /\ s.active = "Attachments"
\* pane_label_for_status
PaneLabel(s) == IF s.active = "Conversations" THEN s.folder ELSE s.active
\* render_status: the last line shows the text typed, the question asked, or the pane.
StatusBar(s) ==
  CASE s.mode = "Command" -> "command"
    [] s.mode = "QuickSearch" -> "search"
    [] s.mode = "Compose" -> "keys of the composer"
    [] s.mode = "ComposeAttachPath" -> "path"
    [] s.mode = "ConfirmDiscard" -> "discard?"
    [] s.mode = "ConfirmDelete" -> "delete?"
    [] s.mode = "Normal" /\ PreviewFocused(s) -> "keys of the preview"
    [] OTHER -> PaneLabel(s)

-----------------------------------------------------------------------------
(* Help.  A row is its keys and where it applies; commands are in Commands. *)

Row(ks, where) == [keys |-> ks, applies |-> where]
\* HELP_ROWS
PaneRows == <<
  <<Row({"Tab"}, "Global"), Row({"Shift-Tab", "Left"}, "Global"), Row({"Right"}, "Global"),
    Row({"Ctrl-P"}, "Global"), Row({"q"}, "Global"), Row({"r"}, "Global"), Row({"?"}, "Global")>>,
  <<Row({"Up", "Down", "j", "k"}, "mail"), Row({"Enter"}, "mail"), Row({"c"}, "mail"), Row({"R"}, "mail"),
    Row({"A"}, "mail"), Row({"F"}, "mail"), Row({"u"}, "mail"), Row({"f", "*"}, "mail"), Row({"a"}, "mail"),
    Row({"d"}, "mail"), Row({"e"}, "mail"), Row({"m"}, "mail")>>,
  <<Row({"Enter", "o"}, "drafts"), Row({"d"}, "drafts")>> >>
ReadingRows == <<
  <<Row({"j", "k"}, "Details"), Row({"o"}, "Details"), Row({"O"}, "Details"), Row({"a"}, "Details"),
    Row({"d"}, "Details"), Row({"e"}, "Details"), Row({"m"}, "Details"), Row({"PgUp", "PgDn"}, "Details"),
    Row({"v"}, "Details"), Row({"y"}, "Details"), Row({"Esc"}, "Details")>>,
  <<Row({"Enter"}, "Attachments"), Row({"o"}, "Attachments"), Row({"a"}, "Attachments"), Row({"e"}, "Attachments")>>,
  <<Row({"Ctrl-P"}, "approvals"), Row({"a"}, "approvals"), Row({"d"}, "approvals")>> >>
OtherRows == <<
  <<Row({"/"}, "Search"), Row({}, "CommandBar"), Row({"s"}, "Global"), Row({}, "Global"), Row({"x", "X"}, "Global")>>,
  <<Row({"Tab", "Shift-Tab"}, "Composer"), Row({"Ctrl-A"}, "Composer"), Row({"Ctrl-K"}, "Composer"),
    Row({"Ctrl-S"}, "Composer"), Row({"Ctrl-X"}, "Composer"), Row({"Esc"}, "Composer")>>,
  <<Row({"t", "Ctrl-T"}, "Global"), Row({}, "Global")>>,
  <<Row({":"}, "CommandBar"), Row({"Tab"}, "CommandBar"), Row({"Enter"}, "CommandBar"), Row({"Esc"}, "CommandBar"),
    Row({}, "CommandBar"), Row({}, "CommandBar"), Row({}, "CommandBar")>> >>
HelpRows == PaneRows \o ReadingRows \o OtherRows

\* pane_applicability
PaneApplicability(s) ==
  IF s.active \in {"Accounts", "Folders"} THEN {}
  ELSE IF s.active = "Conversations" THEN {s.folder} ELSE {s.active}
\* active_applicability_set
ActiveApplicability(s) ==
  CASE s.composer # Null -> {"Composer"} \cup PaneApplicability(s)
    [] s.composer = Null /\ s.mode = "Command" -> {"CommandBar"}
    [] s.composer = Null /\ s.mode = "QuickSearch" -> {"Search"}
    [] OTHER -> PaneApplicability(s)
\* build_help_lines: the rows that apply here, then the others, each in the table's order.
BuildHelpLines(active) ==
  LET on(i, j) == HelpRows[i][j].applies \in {"Global"} \cup active
      group(i, wanted) == SelectSeq([j \in DOMAIN HelpRows[i] |-> <<i, j>>], LAMBDA p : on(p[1], p[2]) = wanted)
  IN FlattenSeq([i \in DOMAIN HelpRows |-> group(i, TRUE)])
       \o FlattenSeq([i \in DOMAIN HelpRows |-> group(i, FALSE)])
\* help_overlay_rect
HelpOverlay(f) ==
  IF f.w < 40 \/ f.h < 6 THEN [x |-> 0, y |-> 0, w |-> f.w, h |-> IF f.h < 2 THEN 1 ELSE f.h - 1]
  ELSE LET w == IF (Least(f.w * 75, 65535) \div 100) < 40 THEN 40 ELSE Least(f.w * 75, 65535) \div 100
           h == Least(f.h, IF (f.h * 80) \div 100 < 16 THEN 16 ELSE (f.h * 80) \div 100)
       IN [x |-> (f.w - w) \div 2, y |-> (f.h - h) \div 2, w |-> w, h |-> h]

\* render_help_overlay: the lines inside the overlay's border.
HelpShown(count, scroll, height) ==
  LET rows == Monus(height, 2)
      top == Least(scroll, Monus(count, rows))
  IN (top + 1)..Least(top + rows, count)

\* handle_key: the keys that mean the same in every pane.
CommonKeys ==
  {"?", ":", "/", "c", "q", "Esc", "x", "X", "Down", "j", "Up", "k", "Right", "Tab", "Left", "r", "s", "u", "f",
   "t", "Ctrl-T", "*", "R", "A", "F", "Enter", "Ctrl-P"}
\* handle_detail_key, handle_preview_focus_key
ReadingKeys(s) == IF s.active = "Details" THEN {"PgUp", "PgDn", "v", "Home", "End"} ELSE {}
Bound(s, k) == k \in CommonKeys \cup ReadingKeys(s) \/ PaneActions(s, k) # {}

-----------------------------------------------------------------------------
(* Properties.                                                             *)

\* A row is never wider than its pane, with its date at the right edge whenever the date
\* leaves it a column, and nothing is cut that fits; the icons of the status line never
\* push it over; the overlay lies in the terminal.
RowsFit ==
  /\ \A t \in Texts, w \in Widths :
       /\ Total(TruncateForWidth(t, w)) <= w
       /\ w > 0 /\ Total(t) <= w => TruncateForWidth(t, w) = t
       /\ \A u \in Texts : /\ Total(TruncateSpans(t, u, w)) <= w
                           /\ Total(t) < w /\ Total(t \o u) <= w => TruncateSpans(t, u, w) = t \o u
                           /\ w > 0 /\ t # <<>> => Total(ComposeStatus(t, u, w)) <= w
                           /\ LET row == RowWithRightDate(t, t, u, w)
                              IN Total(u) < w => row.before + row.date = w
  /\ \A f \in Frames : f.h > 0 =>
       LET o == HelpOverlay(f) IN o.x >= 0 /\ o.y >= 0 /\ o.x + o.w <= f.w /\ o.y + o.h <= f.h

\* Pages of text show the cursor: in the composer's body and the open conversation the
\* cursor's cell lies in the pane, on the row where its own line is drawn, whatever the
\* height of the pane, and in a header field it lies in the pane and, as long as the text
\* fits into the row, before the text that follows it, wide characters or not (a longer
\* text is wrapped and its cursor stays at the edge); lists highlight a row they have; a
\* preview is never scrolled off (render_detail_viewport, selection_state).
\* The last line asks before unsaved text or a message is dropped, and only then
\* (render_status).
CursorShown ==
  LET Shows(cache, view, height) ==
        LET v == Viewport(cache, view, height)
            here == LineColumn(cache, view.at)
        IN height > 2 => v.cursor # Null /\ v.top + v.cursor.y = here.line /\ here.line \in v.lines
      FieldShows(text, at, width, cell) ==
        IF width <= 2 THEN cell = Null
        ELSE /\ cell.x < width - 2
             /\ DisplayWidth(text) < width - 2 =>
                  cell.x + DisplayWidth(SubSeq(text, at + 1, Len(text))) = DisplayWidth(text)
  IN /\ \A h \in Heights :
          /\ app.composer # Null => Shows(app.composer.cache, app.composer.view, h)
          /\ app.r.detail # Null => Shows(Cache(app.r), app.r.view, h)
          /\ app.r.preview # Null => PreviewShown(app.r, h) # {}
     /\ app.composer # Null /\ app.composer.files > 0 => ComposeRow(app.composer) = app.composer.selected
     /\ app.r.files > 0 => AttachmentRow(app) = app.r.file
     /\ app.search # Null /\ app.search.hits > 0 => SearchRow(app) = app.search.selected
     /\ app.composer # Null =>
          /\ \A f \in Headers \cap {app.composer.focused}, w \in Widths :
               FieldShows(app.composer.text[f], app.composer.cursor[f], w, FieldCursor(app.composer, f, w))
          /\ ComposerCursor(app.composer, 5) # Null
     /\ StatusBar(app) = "discard?" => app.composer # Null /\ app.composer.dirty
     /\ StatusBar(app) = "keys of the preview" => PreviewShown(app.r, 5) # {}
     /\ (StatusBar(app) = "delete?") = (app.doomed # NotDoomed)
     /\ app.composer = Null /\ app.search = Null => Lit(app) = {app.active}
     /\ RowsFit

\* Rows of the help table that the keyboard does not keep: Shift-Tab moves between panes
\* and y copies in the conversation only by the table; over the approvals, Details shows
\* the keys of a message.
HelpGaps(s) ==
  {"Shift-Tab"} \cup (IF s.active = "Details" THEN {"y"} ELSE {})
    \cup (IF s.active = "Details" /\ Approvals(s) THEN {"o", "O", "e", "m"} ELSE {})

OverlayHeights == {HelpOverlay(f).h : f \in Frames} \ (0..2)

\* The overlay lists every row of the table once, those of the pane in focus first, and
\* every key of those does something there (HELP_ROWS against handle_key).  Scrolling
\* reaches the first and the last line, in a terminal of any size, and stops there.
HelpTrue ==
  app.help # Null =>
    LET lines == BuildHelpLines(ActiveApplicability(app))
    IN /\ Range(lines) = UNION {{<<i, j>> : j \in DOMAIN HelpRows[i]} : i \in DOMAIN HelpRows}
       /\ Len(lines) = Cardinality(Range(lines))
       /\ \A h \in OverlayHeights, n \in {Len(lines)} :
            /\ 1 \in HelpShown(n, 0, h) /\ n \in HelpShown(n, n, h)
            /\ Cardinality(HelpShown(n, app.help, h)) = Least(h - 2, n)
       /\ \A i \in DOMAIN lines :
            LET row == HelpRows[lines[i][1]][lines[i][2]]
            IN row.applies \in {"Global"} \cup ActiveApplicability(app) =>
                 \A k \in row.keys \ HelpGaps(app) : Bound(app, k)
=============================================================================
