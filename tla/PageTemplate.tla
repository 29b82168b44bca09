---------------------------- MODULE PageTemplate ----------------------------
(***************************************************************************)
(* PageTemplate and its ScrollBar: the lines of the page drawn last, and   *)
(* the window of them that fits on the screen under the title.  Positions  *)
(* count from 0, as in the code.                                           *)
(***************************************************************************)
EXTENDS UiPages

CONSTANT
  MaxLines   \* the scroll bar knows at most so many lines, 48

\* visible_lines_count_ of a page with a title, which every page has
Visible == 4

\* the groups alone fill the screen
ASSUME TemplateAssumption == MaxLines \in Nat /\ Zones + 3 > Visible

\* the scroll bar knows all lines of the longest pages
ASSUME PagesFit ==
  \A n \in {11, Zones + 3, ZoneAreas + 2, Areas + 1, Devices + 1, Channels + 2, Registers + 7} :
    n <= MaxLines

Smaller(a, b) == IF a < b THEN a ELSE b

View == [lines : Seq([kind : STRING, what : STRING, arg : Nat]),
                          \* all_lines_
         scrollable : BOOLEAN,
         start : Nat,     \* display_start_index
         known : Nat]     \* how many lines the scroll bar was set up with

EmptyView == [lines |-> [i \in 1..(Visible + 1) |-> Blank], scrollable |-> FALSE,
              start |-> 0, known |-> 0]

LineAt(view, i) == view.lines[i + 1]

MaxStart(view) == IF view.known > Visible THEN view.known - Visible ELSE 0

\* set_display_start_index, with clamp_display_index
StartAt(view, position) == [view EXCEPT !.start = Smaller(position, MaxStart(view))]

\* set_scroll_position
SetScrollPosition(view, position) ==
  IF view.scrollable THEN StartAt(view, position) ELSE view

\* mutant: the window ends one line early
SetVisibleEndLineShort(view, target) ==
  IF ~view.scrollable \/ target >= Len(view.lines) THEN view
  ELSE StartAt(view, IF target < Visible THEN 0
                     ELSE Smaller(target - Visible, Len(view.lines) - Visible))

\* set_visible_end_line
SetVisibleEndLine(view, target) ==
  IF ~view.scrollable \/ target >= Len(view.lines) THEN view
  ELSE StartAt(view, IF target < Visible THEN 0
                     ELSE Smaller(target - Visible + 1, Len(view.lines) - Visible))

\* flush, at the start of every page: neither the scroll bar nor its window
Flushed(view) == [view EXCEPT !.lines = [i \in DOMAIN view.lines |-> Blank]]

\* setup_page_scroll
SetUpScroll(view, lines) == [view EXCEPT !.known = Smaller(Len(lines), MaxLines)]

\* set_all_lines: the window stays where it was
SetAllLines(view, lines) ==
  IF Len(lines) > Visible
  THEN [SetUpScroll(view, lines) EXCEPT !.lines = lines, !.scrollable = TRUE]
  ELSE [view EXCEPT !.lines = [i \in 1..Visible |-> IF i <= Len(lines) THEN lines[i] ELSE Blank],
                    !.scrollable = FALSE]

\* draw: the line in a row of the screen
LineInRow(view, row) == IF view.scrollable THEN view.start + row ELSE row

\* get_menu_item_count
Items(view) == {i \in 0..(Len(view.lines) - 1) : Interactive(LineAt(view, i))}

\* the line of the item with n items before it
ItemLine(view, n) ==
  CHOOSE i \in Items(view) : Cardinality({j \in Items(view) : j < i}) = n
=============================================================================
