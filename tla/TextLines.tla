-------------------------------- MODULE TextLines --------------------------------
(***************************************************************************)
(* The line index of a text (LineCache, TextLineCache of tui/app.rs) and   *)
(* moving a cursor line by line through it, shared by the composer's body  *)
(* and the message detail.  A text is a sequence of characters: "n" ends a *)
(* line, "s" is a blank, "k" separates addresses, "c" is any other one.    *)
(* Offsets and lines count from 0; byte offsets are left out.              *)
(***************************************************************************)
EXTENDS Integers, Sequences, FiniteSets

CONSTANT Null

Least(a, b) == IF a < b THEN a ELSE b
\* saturating_sub
Monus(a, b) == IF a < b THEN 0 ELSE a - b

\* LineCache::from_text: the bounds of every line, without its line end.
FromText(t) ==
  LET breaks == SelectSeq([i \in 1..Len(t) |-> i], LAMBDA i : t[i] = "n")
      last == Len(breaks) + 1
  IN [len |-> Len(t),
      bounds |-> [i \in 1..last |-> [start |-> IF i = 1 THEN 0 ELSE breaks[i - 1],
                                     end |-> IF i = last THEN Len(t) ELSE breaks[i] - 1]]]

LineCount(cache) == Len(cache.bounds)
ClampedLine(cache, line) == cache.bounds[Least(line, LineCount(cache) - 1) + 1]
LineStart(cache, line) == ClampedLine(cache, line).start
LineEnd(cache, line) == ClampedLine(cache, line).end
LineLen(cache, line) == Monus(LineEnd(cache, line), LineStart(cache, line))

\* line_for_cursor: the first line that does not end before the cursor.
LineForCursor(cache, at) ==
  Least(Cardinality({i \in DOMAIN cache.bounds : cache.bounds[i].end < at}), LineCount(cache) - 1)

LineColumn(cache, at) ==
  LET c == Least(at, cache.len)
      line == LineForCursor(cache, c)
  IN [line |-> line, column |-> Monus(c, LineStart(cache, line))]

\* A place in a text: the cursor, the first line shown, the column that line moves
\* keep to, and the lines selected (from: the anchor, to: the moving end).
TopOf == [at |-> 0, scroll |-> 0, column |-> Null, from |-> Null, to |-> 0]

\* body_visible_scroll, detail_visible_scroll: what a viewport of height lines shows.
VisibleScroll(cache, view, height) ==
  LET max == Monus(LineCount(cache), height)
      scroll == Least(view.scroll, max)
      line == LineColumn(cache, view.at).line
  IN Least(CASE line < scroll -> line
             [] line >= scroll + height -> line + 1 - height
             [] OTHER -> scroll, max)

EnsureVisible(cache, view, height) == [view EXCEPT !.scroll = VisibleScroll(cache, view, height)]

SelectedLines(cache, view) ==
  IF view.from = Null THEN {}
  ELSE LET last == LineCount(cache) - 1
           a == Least(view.from, last)
           b == Least(view.to, last)
       IN Least(a, b)..(IF a < b THEN b ELSE a)

\* move_detail_line and, on the composer's body, move_body_line.
MoveLine(cache, view, delta, height) ==
  LET from == LineColumn(cache, view.at)
      column == IF view.column = Null THEN from.column ELSE view.column
      line == IF delta < 0 THEN Monus(from.line, 0 - delta)
              ELSE Least(from.line + delta, LineCount(cache) - 1)
      moved == [view EXCEPT !.at = LineStart(cache, line) + Least(column, LineLen(cache, line)),
                            !.column = column,
                            !.to = IF view.from = Null THEN @ ELSE line]
  IN EnsureVisible(cache, moved, height)

\* start_body_line_selection, start_detail_line_selection
StartSelection(cache, view) ==
  LET line == LineColumn(cache, view.at).line
  IN IF view.from # Null THEN view ELSE [view EXCEPT !.from = line, !.to = line]

\* clear_body_selection, clear_detail_selection
ClearSelection(cache, view) ==
  [view EXCEPT !.from = Null, !.to = LineColumn(cache, view.at).line]

ToggleSelection(cache, view) ==
  IF view.from = Null THEN StartSelection(cache, view) ELSE ClearSelection(cache, view)

\* What a place must be for its text: the cursor and the selection lie in it, a kept
\* column agrees with the cursor, and every viewport shows the cursor's line.
PlaceOf(t, cache, view) ==
  LET here == LineColumn(cache, view.at)
  IN /\ cache = FromText(t)
     /\ view.at <= Len(t)
     /\ SelectedLines(cache, view) \subseteq 0..(LineCount(cache) - 1)
     /\ view.from # Null => here.line = view.to /\ view.from < LineCount(cache)
     /\ view.column # Null => here.column = Least(view.column, LineLen(cache, here.line))
     /\ \A height \in 1..(LineCount(cache) + 1) :
          LET top == VisibleScroll(cache, view, height) IN top <= here.line /\ here.line < top + height
=============================================================================
