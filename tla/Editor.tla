---------------------------------- MODULE Editor ----------------------------------
(***************************************************************************)
(* The text of the composer (ComposerState of tui/app.rs): five fields,    *)
(* their cursors, and for the body the line index, the selection and the   *)
(* scroll position.  Every operation is an operator from the composer to   *)
(* the composer it leaves; Screen decides which key calls which.           *)
(***************************************************************************)
EXTENDS TextLines, SequencesExt

CONSTANTS
  HeaderLimit, BodyLimit,  \* MAX_COMPOSE_HEADER_CHARS, MAX_COMPOSE_BODY_CHARS
  FileLimit                \* the files of one size that MAX_COMPOSE_ATTACHMENT_BYTES allows

ASSUME EditorAssumption == {HeaderLimit, BodyLimit, FileLimit} \subseteq Nat

Fields == <<"To", "Cc", "Bcc", "Subject", "Body">>
Headers == {"To", "Cc", "Bcc", "Subject"}
NextField(f) == Fields[((CHOOSE i \in 1..5 : Fields[i] = f) % 5) + 1]
PreviousField(f) == CHOOSE g \in {Fields[i] : i \in 1..5} : NextField(g) = f

Blank(ch) == ch \in {"s", "n"}
\* str::trim
Trim(t) ==
  LET solid == {i \in DOMAIN t : ~Blank(t[i])}
  IN IF solid = {} THEN <<>>
     ELSE SubSeq(t, CHOOSE i \in solid : \A j \in solid : i <= j, CHOOSE i \in solid : \A j \in solid : j <= i)

\* split_addresses
SplitAddresses(t) ==
  LET cuts == SelectSeq([i \in 1..Len(t) |-> i], LAMBDA i : t[i] \in {"k", "n"})
      part(i) == SubSeq(t, IF i = 1 THEN 1 ELSE cuts[i - 1] + 1,
                           IF i = Len(cuts) + 1 THEN Len(t) ELSE cuts[i] - 1)
  IN SelectSeq([i \in 1..(Len(cuts) + 1) |-> Trim(part(i))], LAMBDA p : p # <<>>)
\* join_addresses, with ", "
JoinAddresses(parts) ==
  FoldLeft(LAMBDA t, p : IF t = <<>> THEN p ELSE t \o <<"k", "s">> \o p, <<>>, parts)
\* non_empty_string
NonEmpty(t) == IF Trim(t) = <<>> THEN Null ELSE t

-----------------------------------------------------------------------------
(* The composer and what is saved of it.                                   *)

NewComposer ==
  [focused |-> "To", text |-> [f \in Headers \cup {"Body"} |-> <<>>], cursor |-> [f \in Headers |-> 0],
   cache |-> FromText(<<>>), view |-> TopOf, dirty |-> FALSE, files |-> 0, selected |-> 0, path |-> <<>>]

HasContent(c) == (\E f \in Headers \cup {"Body"} : Trim(c.text[f]) # <<>>) \/ c.files > 0

\* ComposerState::draft
Draft(c) ==
  [to |-> SplitAddresses(c.text.To), cc |-> SplitAddresses(c.text.Cc), bcc |-> SplitAddresses(c.text.Bcc),
   subject |-> NonEmpty(c.text.Subject), body |-> NonEmpty(c.text.Body), files |-> c.files]

\* The fields of a draft as text, with the header cursors at their ends.
Filled(d) ==
  LET or(t) == IF t = Null THEN <<>> ELSE t
      text == [To |-> JoinAddresses(d.to), Cc |-> JoinAddresses(d.cc), Bcc |-> JoinAddresses(d.bcc),
               Subject |-> or(d.subject), Body |-> or(d.body)]
  IN [NewComposer EXCEPT !.text = text, !.cursor = [f \in Headers |-> Len(text[f])],
                         !.cache = FromText(text.Body), !.files = d.files]

\* ComposerState::from_prefill: a reply or a forward.
FromPrefill(d) ==
  LET c == Filled(d)
  IN [c EXCEPT !.focused = "Body", !.view.at = Len(c.text.Body), !.dirty = HasContent(c)]

\* enter_composer_for_existing_draft: the cursor at the body's start, scrolled down.
FromDraft(d, focus) ==
  LET c == Filled(d)
  IN [c EXCEPT !.focused = focus, !.view.scroll = IF d.body = Null THEN 0 ELSE LineCount(c.cache) - 1]

-----------------------------------------------------------------------------
(* Cursors.                                                                *)

FocusedText(c) == c.text[c.focused]
FieldLen(c) == Len(FocusedText(c))
FieldLimit(c) == IF c.focused = "Body" THEN BodyLimit ELSE HeaderLimit
Cursor(c) == IF c.focused = "Body" THEN c.view.at ELSE c.cursor[c.focused]
PutCursor(c, at) ==
  IF c.focused = "Body" THEN [c EXCEPT !.view.at = at] ELSE [c EXCEPT !.cursor[c.focused] = at]

\* reset_body_navigation_state
ResetNavigation(c) ==
  IF c.focused # "Body" THEN c
  ELSE [c EXCEPT !.view = ClearSelection(c.cache, [c.view EXCEPT !.column = Null])]

\* set_focused_cursor
SetCursor(c, at) ==
  LET to == Least(at, FieldLen(c))
  IN IF to = Least(Cursor(c), FieldLen(c)) THEN PutCursor(c, to) ELSE ResetNavigation(PutCursor(c, to))
MoveLeft(c) == IF Cursor(c) = 0 THEN c ELSE ResetNavigation(PutCursor(c, Cursor(c) - 1))
MoveRight(c) ==
  LET at == Least(Cursor(c), FieldLen(c))
  IN IF at = FieldLen(c) THEN PutCursor(c, at) ELSE ResetNavigation(PutCursor(c, at + 1))
Line(c) == LineColumn(c.cache, c.view.at).line
Home(c) == SetCursor(c, IF c.focused = "Body" THEN LineStart(c.cache, Line(c)) ELSE 0)
End(c) == SetCursor(c, IF c.focused = "Body" THEN LineEnd(c.cache, Line(c)) ELSE FieldLen(c))

\* move_body_line; Shift starts a selection first.
MoveBody(c, delta, height) ==
  IF c.focused = "Body" THEN [c EXCEPT !.view = MoveLine(c.cache, @, delta, height)] ELSE c
SelectBody(c) == IF c.focused = "Body" THEN [c EXCEPT !.view = StartSelection(c.cache, @)] ELSE c
ToggleBody(c) == IF c.focused = "Body" THEN [c EXCEPT !.view = ToggleSelection(c.cache, @)] ELSE c
\* clear_body_selection does not ask for the focus.
ClearBody(c) == [c EXCEPT !.view = ClearSelection(c.cache, @)]

\* next_composer_field, previous_composer_field
NextComposerField(c) == [c EXCEPT !.focused = NextField(@), !.view.column = Null]
PreviousComposerField(c) == [c EXCEPT !.focused = PreviousField(@), !.view.column = Null]

-----------------------------------------------------------------------------
(* Edits.                                                                  *)

\* Mutant: the line index is not rebuilt.
Mutant_AfterTextEdit(c) ==
  IF c.focused # "Body" THEN c
  ELSE [c EXCEPT !.view = EnsureVisible(c.cache, ClearSelection(c.cache, [c.view EXCEPT !.column = Null]), 1)]

\* after_text_edit
AfterTextEdit(c) ==
  IF c.focused # "Body" THEN c
  ELSE LET cache == FromText(c.text.Body)
       IN [c EXCEPT !.cache = cache,
                    !.view = EnsureVisible(cache, ClearSelection(cache, [c.view EXCEPT !.column = Null]), 1)]

\* The focused field without the characters in from+1..to, and the cursor at from.
Cut(c, from, to) ==
  LET t == FocusedText(c)
      kept == SubSeq(t, 1, from) \o SubSeq(t, to + 1, Len(t))
  IN AfterTextEdit(PutCursor([c EXCEPT !.text[c.focused] = kept, !.dirty = TRUE], from))

\* insert_focused_char, insert_body_newline
Insert(c, ch) ==
  LET at == Least(Cursor(c), FieldLen(c))
      text == InsertAt(FocusedText(c), at + 1, ch)
  IN AfterTextEdit(PutCursor([c EXCEPT !.text[c.focused] = text, !.dirty = TRUE], at + 1))

\* push_composer_char: a control character, or one past the limit, is refused.
PushChar(c, ch) == IF FieldLen(c) >= FieldLimit(c) THEN c ELSE Insert(c, ch)
\* composer_enter: from a header to the next field, which keeps the column.
Enter(c) ==
  IF c.focused # "Body" THEN [c EXCEPT !.focused = NextField(@)]
  ELSE IF FieldLen(c) >= BodyLimit THEN c ELSE Insert(c, "n")

\* delete_before_focused_cursor
Backspace(c) ==
  LET at == Least(Cursor(c), FieldLen(c)) IN IF at = 0 THEN PutCursor(c, 0) ELSE Cut(c, at - 1, at)
\* delete_at_focused_cursor
DeleteAt(c) ==
  LET at == Least(Cursor(c), FieldLen(c))
  IN IF at >= FieldLen(c) THEN PutCursor(c, FieldLen(c)) ELSE Cut(c, at, at + 1)
\* delete_word_before_cursor: the blanks before the cursor, then the word before them.
WordStart(t, at) ==
  LET blanks == {i \in 0..at : \A j \in (i + 1)..at : Blank(t[j])}
      edge == CHOOSE i \in blanks : \A j \in blanks : i <= j
      word == {i \in 0..edge : \A j \in (i + 1)..edge : ~Blank(t[j])}
  IN CHOOSE i \in word : \A j \in word : i <= j
DeleteWord(c) ==
  LET at == Least(Cursor(c), FieldLen(c))
  IN IF at = 0 THEN PutCursor(c, 0) ELSE Cut(c, WordStart(FocusedText(c), at), at)

-----------------------------------------------------------------------------
(* The attachments staged in the composer.                                 *)

\* push_compose_attach_char, backspace_compose_attach; PathLimit stands for
\* MAX_COMPOSE_PATH_CHARS.
PathLimit == 1
PushPath(c, ch) == IF Len(c.path) >= PathLimit THEN c ELSE [c EXCEPT !.path = Append(@, ch)]
PopPath(c) == IF c.path = <<>> THEN c ELSE [c EXCEPT !.path = Front(@)]
\* confirm_compose_attach, once the file is found to be one.
AddFile(c) ==
  [c EXCEPT !.files = @ + 1, !.path = <<>>, !.dirty = TRUE, !.selected = c.files]
CanAdd(c) == Trim(c.path) # <<>> /\ c.files < FileLimit
\* remove_selected_compose_attachment
RemoveFile(c) ==
  IF c.files = 0 THEN c
  ELSE [c EXCEPT !.files = @ - 1, !.dirty = TRUE,
                 !.selected = IF c.files = 1 THEN 0 ELSE Least(@, c.files - 2)]
\* move_compose_attachment_selection
MoveFile(c, delta) ==
  IF c.files = 0 THEN c
  ELSE LET old == Least(c.selected, c.files - 1)
       IN [c EXCEPT !.selected = IF delta < 0 THEN Monus(old, 1) ELSE Least(old + 1, c.files - 1)]

-----------------------------------------------------------------------------
(* What must hold of a composer.                                           *)

\* Every cursor is inside its field, the selected attachment among those staged, and the
\* body's place agrees with its text.  The limits are no part of it: typing and attaching
\* ask for them, a reply, a forward or a draft is loaded whatever its size.
SoundComposer(c) ==
  /\ \A f \in Headers : c.cursor[f] <= Len(c.text[f])
  /\ c.selected < c.files \/ c.selected = 0
  /\ PlaceOf(c.text.Body, c.cache, c.view)

\* A character typed and deleted again, with Backspace or from the other side with
\* Delete, leaves the field as it was; moving down and up again finds the column.
Reversible(c) ==
  LET typed == PushChar(c, "c")
      down == MoveBody(c, 1, 3)
  IN /\ FieldLen(c) < FieldLimit(c) =>
          /\ FocusedText(Backspace(typed)) = FocusedText(c) /\ Cursor(Backspace(typed)) = Cursor(c)
          /\ FocusedText(DeleteAt(MoveLeft(typed))) = FocusedText(c)
     /\ c.focused = "Body" /\ Line(c) + 1 < LineCount(c.cache) =>
          MoveBody(down, -1, 3).view.at = c.view.at

\* What is saved and opened again is the same draft.
Restorable(c) == Draft(FromDraft(Draft(c), "Body")) = Draft(c) /\ Draft(FromPrefill(Draft(c))) = Draft(c)
=============================================================================
