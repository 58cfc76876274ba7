------------------------------- MODULE Layout -------------------------------
(***************************************************************************)
(* Where a window is: wm/window.cpp, wm/layout.cpp, wm/tile.cpp, and the   *)
(* gestures and keys of daemon/session.cpp that change it.  One window,    *)
(* which is in front; the stack is in WindowManager.                       *)
(* A window has the rectangle its user wants and the one that is shown,    *)
(* computed when a frame is composed.                                      *)
(***************************************************************************)
EXTENDS Integers, FiniteSets

CONSTANTS
  Sizes,       (* sizes that the terminal takes, <<columns, rows>>         *)
  kMinCols, kMinRows,   (* below them a frame is only a warning            *)
  kVerticalCols,        (* thickness of a panel on the left or the right   *)
  Edges,       (* edges of the screen where the panel may be               *)
  Floor,       (* frame_min() of the application                           *)
  Home,        (* rectangle that open() gives the window                   *)
  MaxTiles     (* windows that are tiled together                          *)

ASSUME LayoutAssumption ==
  /\ Sizes \subseteq Nat \X Nat
  /\ kMinCols \in Nat /\ kMinRows \in Nat
  /\ kVerticalCols \in Nat \ {0} /\ Edges \subseteq {"Top", "Bottom", "Left", "Right"}
  /\ Floor \in [w : Nat \ {0}, h : Nat \ {0}]
  /\ kVerticalCols < kMinCols /\ 1 < kMinRows
  /\ Home \in [x : Int, y : Int, w : Int, h : Int]
  /\ MaxTiles \in Nat

Rect == [x : Int, y : Int, w : Int, h : Int]
Box(x, y, w, h) == [x |-> x, y |-> y, w |-> w, h |-> h]
Greater(a, b) == IF a > b THEN a ELSE b
Lesser(a, b) == IF a < b THEN a ELSE b

VARIABLES
  size,      (* of the surface that the next frame is composed on          *)
  frame,     (* of the surface when the last frame was composed            *)
  edge,      (* panel_.edge()                                              *)
  work,      (* last_work_                                                 *)
  mode,      (* Window::mode                                               *)
  user,      (* Window::user_rect                                          *)
  display,   (* Window::display_rect                                       *)
  drag       (* drag_; of a Resizing the code keeps win and rect only      *)

vars == <<size, frame, edge, work, mode, user, display, drag>>

-----------------------------------------------------------------------------
(* The mutants of the definitions below: slips that would compile. *)

ClampTo_KeepsPlace(r, a) ==
  Box(r.x, r.y, Greater(Floor.w, Lesser(r.w, a.w)), Greater(Floor.h, Lesser(r.h, a.h)))

Cancelled_Validates == user

Split_NoRest(total, parts) == [i \in 1..parts |-> Greater(1, total \div parts)]

-----------------------------------------------------------------------------
(* Geometry. *)

WorkArea(s, e) ==
  CASE e = "Top"    -> Box(0, 1, s[1], s[2] - 1)
    [] e = "Bottom" -> Box(0, 0, s[1], s[2] - 1)
    [] e = "Left"   -> Box(kVerticalCols, 0, s[1] - kVerticalCols, s[2])
    [] e = "Right"  -> Box(0, 0, s[1] - kVerticalCols, s[2])

(* clamp_to(): as large as wanted within the area, never below the floor,   *)
(* then pushed inside, the top left corner first.                           *)
ClampTo(r, a) ==
  LET w == Greater(Floor.w, Lesser(r.w, a.w))
      h == Greater(Floor.h, Lesser(r.h, a.h))
  IN  Box(Greater(a.x, Lesser(r.x, a.x + a.w - w)),
          Greater(a.y, Lesser(r.y, a.y + a.h - h)), w, h)

Screen(s) == Box(0, 0, s[1], s[2])

DisplayRectFor(r, m, a, s) ==
  CASE m = "Maximized"  -> a
    [] m = "Fullscreen" -> Screen(s)
    [] OTHER            -> ClampTo(r, a)

(* snap(): the magnet of one edge, on one axis. *)
Near(a, b, tolerance) == a - b <= tolerance /\ b - a <= tolerance
Magnet(p, len, a, alen, tolerance) ==
  IF Near(p, a, tolerance) THEN a
  ELSE IF Near(p + len, a + alen, tolerance) THEN a + alen - len ELSE p
Snap(r, a, tolerance) ==
  [r EXCEPT !.x = Magnet(r.x, r.w, a.x, a.w, tolerance),
            !.y = Magnet(r.y, r.h, a.y, a.h, tolerance)]

Dirs == {"Left", "Right", "Up", "Down"}

(* snap_rect(): one half of the area, the first one takes the odd cell. *)
SnapRect(a, d) ==
  LET w1 == a.w - a.w \div 2  h1 == a.h - a.h \div 2 IN
  CASE d = "Left"  -> Box(a.x, a.y, w1, a.h)
    [] d = "Right" -> Box(a.x + w1, a.y, a.w - w1, a.h)
    [] d = "Up"    -> Box(a.x, a.y, a.w, h1)
    [] d = "Down"  -> Box(a.x, a.y + h1, a.w, a.h - h1)

Opposite == [Left |-> "Right", Right |-> "Left", Up |-> "Down", Down |-> "Up"]
SnapOpposite(a, d) == SnapRect(a, Opposite[d])

(* tile_rects(): columns of nearly equal width, cut in rows. *)
ColumnsFor(n) == CHOOSE c \in 1..n : c * c >= n /\ (c - 1) * (c - 1) < n
Split(total, parts) ==
  [i \in 1..parts |-> Greater(1, total \div parts + (IF i <= total % parts THEN 1 ELSE 0))]
Start(total, parts) ==
  LET at[i \in 1..parts] == IF i = 1 THEN 0 ELSE at[i - 1] + Split(total, parts)[i - 1]
  IN  at
TileRects(a, n) ==
  LET cols == ColumnsFor(n)
      rows == Split(n, cols)
      Tile(c, r) == Box(a.x + Start(a.w, cols)[c], a.y + Start(a.h, rows[c])[r],
                        Split(a.w, cols)[c], Split(a.h, rows[c])[r])
  IN  UNION {{Tile(c, r) : r \in 1..rows[c]} : c \in 1..cols}

-----------------------------------------------------------------------------
(* The gesture in progress.  The part of the window that was pressed is     *)
(* not in the code: it tells the gestures apart.                            *)
Parts == {"None", "TitleBar", "EdgeRight", "EdgeBottom", "CornerBR"}
Idle == [kind |-> "Idle", part |-> "None", dx |-> 0, dy |-> 0, rect |-> Home, origin |-> Home]

Drawable(s) == s[1] >= kMinCols /\ s[2] >= kMinRows

Init ==
  /\ size \in {s \in Sizes : Drawable(s)} /\ edge \in Edges
  /\ frame = size /\ work = WorkArea(size, edge)
  /\ mode = "Normal" /\ user = Home /\ display = ClampTo(Home, work)
  /\ drag = Idle

-----------------------------------------------------------------------------
(* Frames. *)

(* The client's terminal changes, or another client takes over; a detach    *)
(* cancels the gesture.                                                     *)
ResizeTerminal(s) ==
  /\ s # size /\ size' = s
  /\ UNCHANGED <<frame, edge, work, mode, user, display, drag>>

(* render(), relayout(): nothing moves when the terminal is too small. *)
Render ==
  /\ Drawable(size) /\ frame' = size
  /\ work' = WorkArea(size, edge)
  /\ display' = DisplayRectFor(user, mode, work', size)
  /\ UNCHANGED <<size, edge, mode, user, drag>>

-----------------------------------------------------------------------------
(* Modes, keys and the menu, when no gesture is in progress. *)

MovePanel(e) ==
  /\ drag = Idle /\ e # edge /\ edge' = e
  /\ UNCHANGED <<size, frame, work, mode, user, display, drag>>

(* set_mode(): Minimized leaves the rectangle where it is. *)
Shown(m, r) ==
  CASE m = "Normal" -> ClampTo(r, work) [] m = "Minimized" -> display [] OTHER -> work

SetMode(m) ==
  /\ drag = Idle /\ m # mode
  /\ mode' = m /\ display' = Shown(m, user)
  /\ UNCHANGED <<size, frame, edge, work, user, drag>>

(* Another window opens or is focused: it gives back the mode before full   *)
(* screen, and the next frame the rectangle.                                *)
LosesFullscreen ==
  /\ mode = "Fullscreen" /\ mode' \in {"Normal", "Minimized", "Maximized"}
  /\ UNCHANGED <<size, frame, edge, work, user, display, drag>>

(* The eight moves of the keyboard, on the rectangle that is wanted. *)
Nudged(r) ==
  {[r EXCEPT !.x = @ - 1], [r EXCEPT !.x = @ + 1], [r EXCEPT !.y = @ - 1],
   [r EXCEPT !.y = @ + 1], [r EXCEPT !.w = @ + 1], [r EXCEPT !.h = @ + 1],
   [r EXCEPT !.w = Greater(Floor.w, @ - 1)], [r EXCEPT !.h = Greater(Floor.h, @ - 1)]}

KeyMoves ==
  /\ drag = Idle
  /\ \E r \in Nudged(user) : user' = ClampTo(r, work)
  /\ UNCHANGED <<size, frame, edge, work, mode, display, drag>>

(* set_mode(Normal), then set_rect(). *)
PutAt(r) ==
  /\ drag = Idle
  /\ mode' = "Normal" /\ user' = r /\ display' = ClampTo(r, work)
  /\ UNCHANGED <<size, frame, edge, work, drag>>

SnapFocused(d) == PutAt(SnapRect(work, d))
DockIntoFreeHalf(d) == PutAt(SnapOpposite(work, d))
TileWindows(n) == mode # "Minimized" /\ \E r \in TileRects(work, n) \cap Rect : PutAt(r)

-----------------------------------------------------------------------------
(* The mouse. *)

Contains(r, x, y) == x >= r.x /\ x < r.x + r.w /\ y >= r.y /\ y < r.y + r.h

(* hit_window(): the frame, from the most specific part to the least; the   *)
(* buttons of the title bar do not start a gesture.                         *)
Hit(x, y) ==
  LET right == x = display.x + display.w - 1  bottom == y = display.y + display.h - 1 IN
  IF right /\ bottom /\ display.h >= 2 THEN "CornerBR"
  ELSE IF y = display.y THEN "TitleBar"
  ELSE IF right THEN "EdgeRight" ELSE IF bottom THEN "EdgeBottom" ELSE "None"

(* The panel is in front of the window, even when full screen hides it. *)
Reaches(x, y) == mode # "Minimized" /\ Contains(work, x, y) /\ Contains(display, x, y)

PressTitleBar(x, y) ==
  /\ drag = Idle /\ Reaches(x, y) /\ Hit(x, y) = "TitleBar" /\ mode = "Normal"
  /\ drag' = [kind |-> "Moving", part |-> "TitleBar",
              dx |-> x - display.x, dy |-> y - display.y, rect |-> user, origin |-> user]
  /\ UNCHANGED <<size, frame, edge, work, mode, user, display>>

PressEdge(x, y) ==
  /\ drag = Idle /\ Reaches(x, y) /\ Hit(x, y) \in {"EdgeRight", "EdgeBottom", "CornerBR"}
  /\ drag' = [kind |-> "Resizing", part |-> Hit(x, y),
              dx |-> 0, dy |-> 0, rect |-> display, origin |-> user]
  /\ UNCHANGED <<size, frame, edge, work, mode, user, display>>

(* Moving: the window follows the pointer, live. *)
Moved(x, y) == [user EXCEPT !.x = x - drag.dx, !.y = y - drag.dy]

MoveTo(x, y) ==
  /\ drag.kind = "Moving" /\ user' = Moved(x, y)
  /\ UNCHANGED <<size, frame, edge, work, mode, display, drag>>

ReleaseMove(x, y) ==
  /\ drag.kind = "Moving" /\ drag' = Idle
  /\ user' = IF Moved(x, y) = drag.origin THEN Moved(x, y) ELSE Snap(Moved(x, y), work, 1)
  /\ UNCHANGED <<size, frame, edge, work, mode, display>>

(* Resizing: an outline follows the pointer until the release. *)
Outline(x, y) == [drag.rect EXCEPT !.w = x - drag.rect.x + 1, !.h = y - drag.rect.y + 1]

ResizeTo(x, y) ==
  /\ drag.kind = "Resizing" /\ drag' = [drag EXCEPT !.rect = Outline(x, y)]
  /\ UNCHANGED <<size, frame, edge, work, mode, user, display>>

ReleaseResize(x, y) ==
  /\ drag.kind = "Resizing" /\ drag' = Idle /\ user' = Outline(x, y)
  /\ UNCHANGED <<size, frame, edge, work, mode, display>>

(* cancel_drag(): a key, a press, a motion without button, the loss of the  *)
(* focus, the watchdog, a detach, an attach, a window that must close.      *)
Cancelled == IF drag.kind = "Moving" THEN drag.origin ELSE user

CancelDrag ==
  /\ drag # Idle /\ drag' = Idle /\ user' = Cancelled
  /\ UNCHANGED <<size, frame, edge, work, mode, display>>

Pointed(s) == (0..(s[1] - 1)) \X (0..(s[2] - 1))

Next ==
  \/ (\E s \in Sizes : ResizeTerminal(s)) \/ Render
  \/ (\E e \in Edges : MovePanel(e))
  \/ (\E m \in {"Normal", "Minimized", "Maximized", "Fullscreen"} : SetMode(m))
  \/ LosesFullscreen \/ KeyMoves
  \/ (\E d \in Dirs : SnapFocused(d) \/ DockIntoFreeHalf(d))
  \/ (\E n \in 1..MaxTiles : TileWindows(n))
  \/ (\E p \in Pointed(size) :
        \/ PressTitleBar(p[1], p[2]) \/ PressEdge(p[1], p[2])
        \/ MoveTo(p[1], p[2]) \/ ReleaseMove(p[1], p[2])
        \/ ResizeTo(p[1], p[2]) \/ ReleaseResize(p[1], p[2]))
  \/ CancelDrag

Spec == Init /\ [][Next]_vars

-----------------------------------------------------------------------------
(* The types of the variables; the work area is never empty, because        *)
(* render() leaves before it touches anything when the terminal is small.   *)
LayoutTypeOK ==
  /\ size \in Sizes /\ frame \in Sizes /\ edge \in Edges
  /\ work \in [x : Nat, y : Nat, w : Nat \ {0}, h : Nat \ {0}]
  /\ mode \in {"Normal", "Minimized", "Maximized", "Fullscreen"}
  /\ user \in Rect /\ display \in Rect
  /\ drag \in [kind : {"Idle", "Moving", "Resizing"}, part : Parts,
               dx : Int, dy : Int, rect : Rect, origin : Rect]

Within(r, a) ==
  r.x >= a.x /\ r.y >= a.y /\ r.x + r.w <= a.x + a.w /\ r.y + r.h <= a.y + a.h

(* The work area can hold the smallest window of the application. *)
FloorFits == Floor.w <= work.w /\ Floor.h <= work.h

(* A window never leaves the screen, so that its title bar and its handle   *)
(* can be grabbed, never reaches the panel but in full screen, and is never *)
(* below the floor: clamp_to(), whatever rectangle the mouse left, empty or *)
(* negative ones too.  Above the floor's size it overflows on the right and *)
(* below only.  A window that has left full screen since the last frame     *)
(* still has the whole screen.                                              *)
StaysOnScreen ==
  /\ display.x >= 0 /\ display.y >= 0
  /\ FloorFits =>
       /\ display.w >= Floor.w /\ display.h >= Floor.h
       /\ Within(display, Screen(frame))
       /\ mode \in {"Normal", "Maximized"} =>
            Within(display, work) \/ display = Screen(frame)

(* Moving a window never changes its size, even when a small terminal shows *)
(* it smaller ("la geometrie voulue", window.hpp).                          *)
MoveKeepsSize ==
  drag.kind = "Moving" => user.w = drag.origin.w /\ user.h = drag.origin.h

(* A gesture in progress ends, and not by the release of the button. *)
GivenUp ==
  /\ drag # Idle /\ drag' = Idle
  /\ \A p \in Pointed(size) : ~ReleaseMove(p[1], p[2]) /\ ~ReleaseResize(p[1], p[2])

(* A gesture that is not released leaves the rectangle that was wanted      *)
(* before it, however far it went and whatever frames were composed         *)
(* ("Annuler RESTAURE", session.hpp).  The designs of 10 and 11 August say   *)
(* that a move keeps the geometry it has reached; cancel_drag() does not.   *)
CancelUndoes == [][GivenUp => user' = drag.origin]_vars

Apart(r, s) ==
  r.x + r.w <= s.x \/ s.x + s.w <= r.x \/ r.y + r.h <= s.y \/ s.y + s.h <= r.y

(* Two windows docked back to back meet: no cell of the work area between   *)
(* them, none in both (snap_rect), and clamp_to() keeps them so when there  *)
(* is room for two; the keys that dock are ignored during a gesture.        *)
HalvesMeet ==
  drag = Idle => \A d \in Dirs :
    LET r == SnapRect(work, d)  s == SnapOpposite(work, d) IN
    /\ Apart(r, s) /\ Within(r, work) /\ Within(s, work)
    /\ r.w * r.h + s.w * s.h = work.w * work.h
    /\ (r.w >= Floor.w /\ s.w >= Floor.w /\ r.h >= Floor.h /\ s.h >= Floor.h)
         => ClampTo(r, work) = r /\ ClampTo(s, work) = s

(* "Remplissant work sans trou ni chevauchement" (tile.hpp): one rectangle  *)
(* for each window, inside, apart, and covering every cell, when there is a *)
(* cell for each.                                                           *)
TilesFill ==
  drag = Idle => \A n \in 1..MaxTiles :
    (ColumnsFor(n) <= work.w /\ Split(n, ColumnsFor(n))[1] <= work.h) =>
      LET T == TileRects(work, n) IN
      /\ Cardinality(T) = n /\ \A r \in T : Within(r, work)
      /\ \A r, s \in T : r # s => Apart(r, s)
      /\ \A p \in Pointed(frame) :
           Contains(work, p[1], p[2]) => \E r \in T : Contains(r, p[1], p[2])
=============================================================================
