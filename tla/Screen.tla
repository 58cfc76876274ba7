------------------------------- MODULE Screen -------------------------------
(***************************************************************************)
(* vt/screen.{hpp,cpp}, vt/scrollback.cpp and the orders that              *)
(* apps/terminal.cpp gives them: the page of a terminal window, its        *)
(* cursor, the region that scrolls, the alternate page of a full-screen    *)
(* program, and the history the user may look back into.                   *)
(*                                                                         *)
(* A cell is empty, holds a character of one column, or is one half of a   *)
(* character of two columns.  Style and character set are left out: they   *)
(* follow the cursor and the cells and decide nothing.                     *)
(***************************************************************************)
EXTENDS Integers, Sequences

CONSTANTS
  Sizes,     (* the sizes <<cols, rows>> the window may give the screen    *)
  TabStop,   (* kTabStop                                                   *)
  Capacity,  (* of the history, in lines                                   *)
  Steps,     (* how far a gesture of the user scrolls                      *)
  MaxPrints, (* bound: the characters printed                              *)
  MaxOrders  (* bound: the other orders given                              *)

ASSUME ScreenAssumption ==
  /\ Sizes \subseteq (Nat \ {0, 1}) \X (Nat \ {0})
  /\ TabStop \in Nat \ {0} /\ Capacity \in Nat /\ Steps \subseteq Nat \ {0}
  /\ MaxPrints \in Nat /\ MaxOrders \in Nat

VARIABLES
  screen,  (* the Screen                                                   *)
  back,    (* its Scrollback                                               *)
  main,    (* history: the main page and its cursors, as they were left    *)
  halved,  (* history: delete_chars() has met a wide character at the edge *)
  prints,  (* how much may still be printed                                *)
  orders   (* how many other orders may still be given                     *)

vars == <<screen, back, main, halved, prints, orders>>

-----------------------------------------------------------------------------
(* The mutants of the definitions below: slips that would compile. *)

(* The left half that ends up alone against the edge is left there. *)
InsertChars_NoEdge(row, x, n) ==
  [i \in DOMAIN row |-> IF i >= x + n THEN row[i - n] ELSE IF i >= x THEN "blank" ELSE row[i]]

(* The page scrolls from its first line, whatever the region. *)
ScrollUp_WholePage(s) ==
  [s EXCEPT !.grid = [y \in DOMAIN @ |->
     IF y < s.bottom THEN @[y + 1]
     ELSE IF y = s.bottom THEN [x \in 0..(s.cols - 1) |-> "blank"] ELSE @[y]]]

(* The offset of the user's view counts from the bottom, and stays. *)
Follow_Stays(b) == b

(* 1049 set twice. *)
EntersAlt_Again(s) == TRUE

-----------------------------------------------------------------------------
Lowest(a, b)  == IF a < b THEN a ELSE b
Highest(a, b) == IF a > b THEN a ELSE b
Clamp(x, low, high) == Highest(low, Lowest(x, high))

Cols(s) == 0..(s.cols - 1)
Rows(s) == 0..(s.rows - 1)

BlankRow(cols) == [x \in 0..(cols - 1) |-> "blank"]
BlankPage(cols, rows) == [y \in 0..(rows - 1) |-> BlankRow(cols)]

(* SavedCursor. *)
Cursor(s) == [x |-> s.cx, y |-> s.cy, wrap |-> s.wrap_pending]
Origin == [x |-> 0, y |-> 0, wrap |-> FALSE]

ResetTabs(cols) == {x \in 1..(cols - 1) : x % TabStop = 0}

NoPage == <<>>

NewScreen(size) ==
  [cols |-> size[1], rows |-> size[2], grid |-> BlankPage(size[1], size[2]),
   cx |-> 0, cy |-> 0, wrap_pending |-> FALSE, top |-> 0, bottom |-> size[2] - 1,
   autowrap |-> TRUE, tabs |-> ResetTabs(size[1]), saved |-> Origin,
   alt |-> FALSE, parked |-> NoPage, parked_cursor |-> Origin, parked_decsc |-> Origin]

-----------------------------------------------------------------------------
(* Scrollback: a ring. *)
NewScrollback ==
  [ring |-> [i \in 0..(Capacity - 1) |-> <<>>], head |-> 0, size |-> 0, offset |-> 0]

(* A line without the blanks at its end. *)
Trim(row) ==
  LET last == {x \in DOMAIN row : row[x] # "blank"}
      len  == IF last = {} THEN 0 ELSE (CHOOSE x \in last : \A z \in last : z <= x) + 1
  IN  [i \in 1..len |-> row[i - 1]]

(* Whoever looks at the past keeps looking at the same lines. *)
Follow(b) == IF b.offset > 0 THEN [b EXCEPT !.offset = Lowest(@ + 1, b.size)] ELSE b

PushLine(b, row) ==
  IF Capacity = 0 THEN b
  ELSE IF b.size < Capacity
  THEN Follow([b EXCEPT !.ring[(b.head + b.size) % Capacity] = Trim(row), !.size = @ + 1])
  ELSE Follow([b EXCEPT !.ring[b.head] = Trim(row), !.head = (@ + 1) % Capacity])

LineAt(b, i) == IF i >= b.size THEN <<>> ELSE b.ring[(b.head + i) % Capacity]

-----------------------------------------------------------------------------
(* One line: wide characters are never cut in two. *)

(* Where the other half of what stands at x is, if x holds a half. *)
OtherHalf(row, x) ==
  {z \in DOMAIN row :
     x \in DOMAIN row /\ ((row[x] = "left" /\ z = x + 1) \/ (row[x] = "right" /\ z = x - 1))}

ClearWideAt(row, x) ==
  [z \in DOMAIN row |-> IF z \in OtherHalf(row, x) THEN "blank" ELSE row[z]]

(* Both halves. *)
BreakWideAt(row, x) ==
  IF OtherHalf(row, x) = {} THEN row ELSE [ClearWideAt(row, x) EXCEPT ![x] = "blank"]

EraseSpan(row, x0, x1) ==
  LET cleared == ClearWideAt(ClearWideAt(row, x0), x1)
  IN  [x \in DOMAIN row |-> IF x \in x0..x1 THEN "blank" ELSE cleared[x]]

(* ICH and DCH; n does not pass the end of the line. *)
InsertChars(row, x, n) ==
  LET broken  == BreakWideAt(row, x)
      shifted == [i \in DOMAIN row |-> IF i >= x + n THEN broken[i - n] ELSE broken[i]]
      erased  == EraseSpan(shifted, x, x + n - 1)
  IN  [i \in DOMAIN row |->
         IF i + 1 \notin DOMAIN row /\ erased[i] = "left" THEN "blank" ELSE erased[i]]

Broken(row, x, n) == BreakWideAt(BreakWideAt(row, x), x + n)

DeleteChars(row, x, n, cols) ==
  LET broken  == Broken(row, x, n)
      shifted == [i \in DOMAIN row |->
                    IF i >= x /\ i + n < cols THEN broken[i + n] ELSE broken[i]]
  IN  EraseSpan(shifted, cols - n, cols - 1)

(* The last character of the line is wide, and the part that is erased     *)
(* begins on a right half: the half it had on its left is not there any    *)
(* more, and the wide character, which is, loses its own.                  *)
Halves(row, x, n, cols) ==
  Broken(row, x, n)[cols - n] = "right" /\ Broken(row, x, n)[cols - 1] = "right"

-----------------------------------------------------------------------------
(* The page. *)
SliceUp(g, top, bottom, n, cols) ==
  [y \in DOMAIN g |->
     IF y \notin top..bottom THEN g[y]
     ELSE IF y + n <= bottom THEN g[y + n] ELSE BlankRow(cols)]

SliceDown(g, top, bottom, n, cols) ==
  [y \in DOMAIN g |->
     IF y \notin top..bottom THEN g[y]
     ELSE IF y - n >= top THEN g[y - n] ELSE BlankRow(cols)]

ScrollUp(s) == [s EXCEPT !.grid = SliceUp(@, s.top, s.bottom, 1, s.cols)]

(* The only way into the history: the whole page scrolls, and it is the    *)
(* main one.                                                               *)
Recorded(s) == ~s.alt /\ s.top = 0 /\ s.bottom = s.rows - 1

(* line_feed(): the screen, and what becomes of the history. *)
AtBottom(s) == s.cy = s.bottom

Fed(s) ==
  LET t == [s EXCEPT !.wrap_pending = FALSE]
  IN  IF AtBottom(s) THEN ScrollUp(t)
      ELSE IF s.cy + 1 < s.rows THEN [t EXCEPT !.cy = @ + 1] ELSE t

FedBack(b, s) == IF AtBottom(s) /\ Recorded(s) THEN PushLine(b, s.grid[0]) ELSE b

MovedTo(s, x, y) ==
  [s EXCEPT !.cx = Clamp(x, 0, s.cols - 1), !.cy = Clamp(y, 0, s.rows - 1),
            !.wrap_pending = FALSE]

(* Where a character of width w is printed. *)
Wraps(s, w) ==
  s.autowrap /\ (s.wrap_pending \/ (w = 2 /\ s.cx + 1 >= s.cols))

Fits(s, w) == s.autowrap \/ w = 1 \/ s.cx + 1 < s.cols

Put(s, w) ==
  LET row     == s.grid[s.cy]
      cleared == IF w = 2 THEN ClearWideAt(ClearWideAt(row, s.cx), s.cx + 1)
                 ELSE ClearWideAt(row, s.cx)
      written == [x \in DOMAIN row |->
                    CASE x = s.cx -> (IF w = 2 THEN "left" ELSE "char")
                      [] x = s.cx + 1 /\ w = 2 -> "right"
                      [] OTHER -> cleared[x]]
      full    == s.cx + w >= s.cols
  IN  [s EXCEPT !.grid[s.cy] = written,
                !.cx = IF full THEN s.cols - 1 ELSE @ + w,
                !.wrap_pending = @ \/ full]

(* reshape(): cut on the right and below, never reflowed. *)
Reshape(g, cols, rows) ==
  [y \in 0..(rows - 1) |-> [x \in 0..(cols - 1) |->
     IF y \notin DOMAIN g \/ x \notin DOMAIN g[0] THEN "blank"
     ELSE IF g[y][x] = "left" /\ (x = cols - 1 \/ x + 1 \notin DOMAIN g[0]) THEN "blank"
     ELSE g[y][x]]]

Resized(s, cols, rows) ==
  LET pages == IF s.alt
               THEN [s EXCEPT !.parked = Reshape(@, cols, rows), !.grid = BlankPage(cols, rows)]
               ELSE [s EXCEPT !.grid = Reshape(@, cols, rows)]
  IN  [pages EXCEPT !.cols = cols, !.rows = rows,
         !.cx = Clamp(@, 0, cols - 1), !.cy = Clamp(@, 0, rows - 1), !.wrap_pending = FALSE,
         !.parked_cursor = [x |-> Clamp(@.x, 0, cols - 1), y |-> Clamp(@.y, 0, rows - 1),
                            wrap |-> @.wrap],
         !.top = 0, !.bottom = rows - 1,
         !.tabs = IF cols # s.cols THEN ResetTabs(cols) ELSE @]

-----------------------------------------------------------------------------
(* What the program in the window prints. *)
Draw(w) ==
  LET line == IF Wraps(screen, w) THEN [Fed(screen) EXCEPT !.cx = 0] ELSE screen
  IN  /\ prints > 0 /\ prints' = prints - 1
      /\ screen' = IF Fits(screen, w) THEN Put(line, w) ELSE screen
      /\ back' = IF Wraps(screen, w) THEN FedBack(back, screen) ELSE back
      /\ UNCHANGED <<main, halved, orders>>

Order == orders > 0 /\ orders' = orders - 1 /\ UNCHANGED prints

(* An order that only touches the page and the cursor. *)
Becomes(s) == Order /\ screen' = s /\ UNCHANGED <<back, main, halved>>

CarriageReturn == Becomes([screen EXCEPT !.cx = 0, !.wrap_pending = FALSE])

LineFeed ==
  /\ Order
  /\ screen' = Fed(screen) /\ back' = FedBack(back, screen)
  /\ UNCHANGED <<main, halved>>

NextLine ==
  /\ Order
  /\ screen' = Fed([screen EXCEPT !.cx = 0]) /\ back' = FedBack(back, screen)
  /\ UNCHANGED <<main, halved>>

ReverseIndex ==
  LET t == [screen EXCEPT !.wrap_pending = FALSE]
  IN  Becomes(IF t.cy = t.top
              THEN [t EXCEPT !.grid = SliceDown(@, t.top, t.bottom, 1, t.cols)]
              ELSE [t EXCEPT !.cy = Highest(0, @ - 1)])

Backspace ==
  Becomes(IF screen.wrap_pending THEN [screen EXCEPT !.wrap_pending = FALSE]
          ELSE [screen EXCEPT !.cx = Highest(0, @ - 1)])

Tab ==
  LET ahead == {x \in screen.tabs : x > screen.cx}
  IN  Becomes([screen EXCEPT !.wrap_pending = FALSE,
                 !.cx = IF ahead = {} THEN screen.cols - 1
                        ELSE CHOOSE x \in ahead : \A z \in ahead : x <= z])

SetTabs ==
  \E tabs \in {screen.tabs \cup {screen.cx}, screen.tabs \ {screen.cx}, {}} :
    Becomes([screen EXCEPT !.tabs = tabs])

(* CUP, CHA, VPA, CUU, CUD and CUF: anywhere, clamped. *)
MoveTo == \E x \in Cols(screen), y \in Rows(screen) : Becomes(MovedTo(screen, x, y))

MoveLeft(n) ==
  Becomes(MovedTo(screen, screen.cx - (IF screen.wrap_pending THEN n - 1 ELSE n), screen.cy))

OnRow(row) == [screen EXCEPT !.grid[screen.cy] = row]

(* EL and ED: from the cursor on, up to the cursor, all. *)
Erased(mode, y) ==
  EraseSpan(screen.grid[y],
            IF mode = 0 /\ y = screen.cy THEN screen.cx ELSE 0,
            IF mode = 1 /\ y = screen.cy THEN screen.cx ELSE screen.cols - 1)

EraseLine == \E mode \in 0..2 : Becomes(OnRow(Erased(mode, screen.cy)))

EraseDisplay ==
  \E mode \in 0..2 :
    Becomes([screen EXCEPT !.grid = [y \in Rows(screen) |->
      IF mode = 2 \/ y = screen.cy \/ (mode = 0 /\ y > screen.cy) \/ (mode = 1 /\ y < screen.cy)
      THEN Erased(mode, y) ELSE @[y]]])

Counts == 1..(screen.cols - screen.cx)

EraseChars ==
  \E n \in Counts :
    Becomes(OnRow(EraseSpan(screen.grid[screen.cy], screen.cx, screen.cx + n - 1)))

Insert == \E n \in Counts : Becomes(OnRow(InsertChars(screen.grid[screen.cy], screen.cx, n)))

Delete ==
  \E n \in Counts :
    LET row == screen.grid[screen.cy]
    IN  /\ Order
        /\ screen' = OnRow(DeleteChars(row, screen.cx, n, screen.cols))
        /\ halved' = (halved \/ Halves(row, screen.cx, n, screen.cols))
        /\ UNCHANGED <<back, main>>

InsertLines(n) ==
  /\ screen.cy \in screen.top..screen.bottom
  /\ Becomes([screen EXCEPT !.grid = SliceDown(@, screen.cy, screen.bottom, n, screen.cols)])

DeleteLines(n) ==
  /\ screen.cy \in screen.top..screen.bottom
  /\ Becomes([screen EXCEPT !.grid = SliceUp(@, screen.cy, screen.bottom, n, screen.cols)])

(* DECSTBM; without parameters, the whole page. *)
SetScrollRegion ==
  \E top, bottom \in Rows(screen) :
    /\ bottom > top \/ (top = 0 /\ bottom = screen.rows - 1)
    /\ Becomes([MovedTo(screen, 0, 0) EXCEPT !.top = top, !.bottom = bottom])

SaveCursor == Becomes([screen EXCEPT !.saved = Cursor(screen)])

RestoreCursor ==
  LET t == MovedTo(screen, screen.saved.x, screen.saved.y)
  IN  Becomes([t EXCEPT !.wrap_pending = screen.saved.wrap /\ t.cx = t.cols - 1])

SetAutowrap == Becomes([screen EXCEPT !.autowrap = ~@])

(* Mode 1049. *)
EntersAlt(s) == ~s.alt

EnterAltScreen ==
  /\ Order
  /\ IF EntersAlt(screen)
     THEN screen' = [screen EXCEPT !.alt = TRUE, !.parked = screen.grid,
                       !.grid = BlankPage(screen.cols, screen.rows),
                       !.parked_cursor = Cursor(screen), !.parked_decsc = screen.saved,
                       !.saved = Origin]
     ELSE UNCHANGED screen
  /\ main' = IF screen.alt THEN main
             ELSE [page |-> screen.grid, cursor |-> Cursor(screen), saved |-> screen.saved]
  /\ UNCHANGED <<back, halved>>

LeaveAltScreen ==
  /\ screen.alt
  /\ Becomes([screen EXCEPT !.alt = FALSE, !.grid = screen.parked, !.parked = NoPage,
                !.cx = screen.parked_cursor.x, !.cy = screen.parked_cursor.y,
                !.wrap_pending = screen.parked_cursor.wrap,
                !.saved = screen.parked_decsc])

(* The window changes size. *)
Resize ==
  \E size \in Sizes \ {<<screen.cols, screen.rows>>} :
    /\ Order
    /\ screen' = Resized(screen, size[1], size[2])
    /\ main' = [main EXCEPT !.page = IF @ = NoPage THEN @ ELSE Reshape(@, size[1], size[2]),
                  !.cursor = [x |-> Lowest(@.x, size[1] - 1), y |-> Lowest(@.y, size[2] - 1),
                              wrap |-> @.wrap]]
    /\ UNCHANGED <<back, halved>>

(* The user looks back, with the wheel or the keyboard, or types. *)
LookBack ==
  /\ Order /\ ~screen.alt /\ back.offset < back.size
  /\ \E n \in Steps : back' = [back EXCEPT !.offset = Lowest(@ + n, back.size)]
  /\ UNCHANGED <<screen, main, halved>>

LookForward ==
  /\ Order /\ ~screen.alt /\ back.offset > 0
  /\ \E n \in Steps : back' = [back EXCEPT !.offset = Highest(@ - n, 0)]
  /\ UNCHANGED <<screen, main, halved>>

Type ==
  /\ Order /\ back.offset > 0
  /\ back' = [back EXCEPT !.offset = 0]
  /\ UNCHANGED <<screen, main, halved>>

-----------------------------------------------------------------------------
Init ==
  /\ \E size \in Sizes : screen = NewScreen(size)
  /\ back = NewScrollback
  /\ main = [page |-> NoPage, cursor |-> Origin, saved |-> Origin]
  /\ halved = FALSE /\ prints = MaxPrints /\ orders = MaxOrders

Moves ==
  \/ CarriageReturn \/ LineFeed \/ NextLine \/ ReverseIndex \/ Backspace
  \/ Tab \/ SetTabs \/ MoveTo \/ (\E n \in 1..2 : MoveLeft(n))
  \/ SaveCursor \/ RestoreCursor \/ SetScrollRegion

Edits ==
  \/ EraseLine \/ EraseDisplay \/ EraseChars \/ Insert \/ Delete
  \/ \E n \in 1..2 : InsertLines(n) \/ DeleteLines(n)

Switches == EnterAltScreen \/ LeaveAltScreen \/ SetAutowrap \/ Resize

Next ==
  \/ \E w \in 1..2 : Draw(w)
  \/ Moves \/ Edits \/ Switches
  \/ LookBack \/ LookForward \/ Type

Spec == Init /\ [][Next]_vars

-----------------------------------------------------------------------------
(* Properties *)

Paired(g) ==
  \A y \in DOMAIN g : \A x \in DOMAIN g[y] :
    /\ g[y][x] = "left" => x + 1 \in DOMAIN g[y] /\ g[y][x + 1] = "right"
    /\ g[y][x] = "right" => x > 0 /\ g[y][x - 1] = "left"

(* "`width` vaut 2 sur la premiere moitie d'un caractere pleine chasse et  *)
(* 0 sur la seconde" (screen.hpp): no order leaves half a character on the *)
(* page, nor on the page that waits, except the delete_chars() of Halves.  *)
WidePaired == ~halved => Paired(screen.grid) /\ Paired(screen.parked)

(* "La page principale revient au caractere pres" (screen.hpp): whatever a *)
(* full-screen program does, and whatever the window's size becomes, the   *)
(* shell finds its page, its cursor and its saved cursor again.            *)
MainPageKept ==
  [][screen.alt /\ ~screen'.alt =>
       /\ screen'.grid = main.page /\ Cursor(screen') = main.cursor
       /\ screen'.saved = main.saved]_vars

(* What a program has put outside of the region that scrolls stays there:  *)
(* line feeds, wrapped text, inserted and deleted lines do not reach it.   *)
OutsideRegionStill ==
  [][ \/ EraseDisplay \/ EnterAltScreen \/ LeaveAltScreen \/ Resize
      \/ \A y \in Rows(screen) \ (screen.top..screen.bottom \cup {screen.cy, screen'.cy}) :
           screen'.grid[y] = screen.grid[y] ]_vars

(* Line y of the window, as Terminal::draw() shows it. *)
Shown(s, b, y) ==
  IF y < b.offset THEN LineAt(b, b.size - b.offset + y) ELSE Trim(s.grid[y - b.offset])

(* "La consultation reste sur CE QU'ELLE MONTRE" (scrollback.cpp): while   *)
(* the user looks back, output that scrolls the page moves nothing in the  *)
(* window, also once the ring is full and reuses its lines; only what the  *)
(* ring drops goes.                                                        *)
ViewStays ==
  [][ back.offset \in 1..(Capacity - 1) /\ <<back.ring, back.size>> # <<back'.ring, back'.size>> =>
        \A y \in Rows(screen) : Shown(screen', back', y) = Shown(screen, back, y) ]_vars
=============================================================================
