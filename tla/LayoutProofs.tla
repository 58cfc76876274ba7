---------------------------- MODULE LayoutProofs ----------------------------
(***************************************************************************)
(* Windows stay on the screen, moving keeps their size, a cancelled        *)
(* gesture leaves no trace and tiles fill the work area: for every size of *)
(* the terminal, every floor and every thickness of the panel.             *)
(***************************************************************************)
EXTENDS Layout, WellFoundedInduction, FiniteSetTheorems, TLAPS

Area == [x : Nat, y : Nat, w : Nat \ {0}, h : Nat \ {0}]
FloorFitsIn(a) == Floor.w <= a.w /\ Floor.h <= a.h

(* clamp_to() yields a rectangle that is not left of or above the area and, *)
(* when the floor fits in the area, lies inside it.                         *)
LEMMA ClampIsInside ==
  ASSUME NEW r \in Rect, NEW a \in Area
  PROVE  /\ ClampTo(r, a) \in Rect
         /\ ClampTo(r, a).x >= a.x /\ ClampTo(r, a).y >= a.y
         /\ ClampTo(r, a).w >= Floor.w /\ ClampTo(r, a).h >= Floor.h
         /\ FloorFitsIn(a) => Within(ClampTo(r, a), a)
  <1> DEFINE c == ClampTo(r, a)
  <1>1. /\ c = Box(c.x, c.y, c.w, c.h) /\ c.x \in Int /\ c.w \in Int
        /\ c.x >= a.x /\ c.w >= Floor.w
        /\ Floor.w <= a.w => c.x + c.w <= a.x + a.w
    BY LayoutAssumption DEF ClampTo, Box, Greater, Lesser, Rect, Area
  <1>2. /\ c.y \in Int /\ c.h \in Int /\ c.y >= a.y /\ c.h >= Floor.h
        /\ Floor.h <= a.h => c.y + c.h <= a.y + a.h
    BY LayoutAssumption DEF ClampTo, Box, Greater, Lesser, Rect, Area
  <1> HIDE DEF c
  <1>3. c \in Rect
    BY <1>1, <1>2 DEF Box, Rect
  <1> QED
    BY <1>1, <1>2, <1>3 DEF c, FloorFitsIn, Within

(* The work area of a screen that is not too small is part of it. *)
LEMMA WorkIsOnScreen ==
  ASSUME NEW s \in Sizes, Drawable(s), NEW e \in Edges
  PROVE  /\ WorkArea(s, e) \in Area /\ Within(WorkArea(s, e), Screen(s))
         /\ Screen(s) \in Rect
  <1>1. /\ s[1] \in Nat /\ s[2] \in Nat /\ s[1] >= kMinCols /\ s[2] >= kMinRows
        /\ e \in {"Top", "Bottom", "Left", "Right"}
    BY LayoutAssumption DEF Drawable
  <1>2. /\ kMinCols \in Nat /\ kMinRows \in Nat /\ kVerticalCols \in Nat
        /\ kVerticalCols < kMinCols /\ 1 < kMinRows
    BY LayoutAssumption
  <1> QED
    BY <1>1, <1>2 DEF WorkArea, Screen, Box, Area, Within, Rect

(* An area is a rectangle, and holds itself. *)
LEMMA AreaIsRect ==
  ASSUME NEW a \in Area
  PROVE  a \in Rect /\ Within(a, a)
  BY DEF Area, Rect, Within

(* Being inside is transitive. *)
LEMMA WithinIsTransitive ==
  ASSUME NEW r \in Rect, NEW a \in Rect, NEW s \in Rect, Within(r, a), Within(a, s)
  PROVE  Within(r, s)
  BY DEF Within, Rect

(* snap_rect() yields a rectangle. *)
LEMMA HalfIsRect ==
  ASSUME NEW a \in Area, NEW d \in Dirs
  PROVE  SnapRect(a, d) \in Rect /\ SnapOpposite(a, d) \in Rect
  <1>1. \A c \in Dirs : SnapRect(a, c) \in Rect
    BY DEF SnapRect, Box, Area, Rect, Dirs
  <1> QED
    BY <1>1 DEF SnapOpposite, Opposite, Dirs

(* snap() yields a rectangle. *)
LEMMA SnapIsRect ==
  ASSUME NEW r \in Rect, NEW a \in Rect
  PROVE  Snap(r, a, 1) \in Rect /\ Snap(r, a, 1).w = r.w /\ Snap(r, a, 1).h = r.h
  <1>1. \A p, l, b, bl \in Int : Magnet(p, l, b, bl, 1) \in Int
    BY DEF Magnet
  <1> QED
    BY <1>1 DEF Snap, Rect

(* A rectangle that is moved keeps its size; one that is resized is one. *)
LEMMA ChangedRect ==
  ASSUME NEW r \in Rect, NEW a \in Int, NEW b \in Int
  PROVE  /\ [r EXCEPT !.x = a, !.y = b] \in Rect
         /\ [r EXCEPT !.x = a, !.y = b].w = r.w /\ [r EXCEPT !.x = a, !.y = b].h = r.h
         /\ [r EXCEPT !.w = a, !.h = b] \in Rect
  BY DEF Rect

-----------------------------------------------------------------------------
(* The inductive invariant: the work area is the one of the last frame, and *)
(* a gesture remembers the rectangle that was wanted when it began.         *)
WorkOK(a, f) ==
  /\ a \in Area /\ Screen(f) \in Rect /\ Within(a, Screen(f))
  /\ Screen(f).x = 0 /\ Screen(f).y = 0

WorkOfFrame == WorkOK(work, frame)

(* The rectangle that is shown, in the terms that clamp_to() yields. *)
ShownOK(r, m, a, f) ==
  /\ r.x >= 0 /\ r.y >= 0
  /\ FloorFitsIn(a) =>
       /\ r.w >= Floor.w /\ r.h >= Floor.h
       /\ Within(r, Screen(f))
       /\ m \in {"Normal", "Maximized"} => Within(r, a) \/ r = Screen(f)
  /\ m = "Fullscreen" => r = a \/ r = Screen(f)

GestureOK ==
  /\ drag.kind = "Idle" => drag = Idle
  /\ drag.kind = "Moving" => user.w = drag.origin.w /\ user.h = drag.origin.h
  /\ drag.kind = "Resizing" => user = drag.origin

LInv == LayoutTypeOK /\ WorkOfFrame /\ ShownOK(display, mode, work, frame) /\ GestureOK

AllModes == {"Normal", "Minimized", "Maximized", "Fullscreen"}

(* What clamp_to(), the work area and the screen give to ShownOK. *)
LEMMA ClampIsShown ==
  ASSUME NEW a, NEW f, WorkOK(a, f), NEW r \in Rect, NEW m, m # "Fullscreen"
  PROVE  ShownOK(ClampTo(r, a), m, a, f) /\ ClampTo(r, a) \in Rect
  <1>1. a \in Area /\ a \in Rect /\ Within(a, Screen(f)) /\ Screen(f) \in Rect
    BY AreaIsRect DEF WorkOK
  <1>2. /\ ClampTo(r, a) \in Rect
        /\ ClampTo(r, a).x >= a.x /\ ClampTo(r, a).y >= a.y
        /\ ClampTo(r, a).w >= Floor.w /\ ClampTo(r, a).h >= Floor.h
        /\ FloorFitsIn(a) => Within(ClampTo(r, a), a)
    BY <1>1, ClampIsInside
  <1>3. ClampTo(r, a).x >= 0 /\ ClampTo(r, a).y >= 0
    BY <1>1, <1>2 DEF Area, Rect
  <1>4. FloorFitsIn(a) => Within(ClampTo(r, a), Screen(f))
    BY <1>1, <1>2, WithinIsTransitive
  <1> QED
    BY <1>2, <1>3, <1>4 DEF ShownOK

(* The work area may be shown, as Maximized does. *)
LEMMA WorkIsShown ==
  ASSUME NEW a, NEW f, WorkOK(a, f), NEW m
  PROVE  ShownOK(a, m, a, f) /\ a \in Rect
  <1>1. a \in Area /\ a \in Rect /\ Within(a, a)
    BY AreaIsRect DEF WorkOK
  <1>2. a.x >= 0 /\ a.y >= 0
    BY <1>1 DEF Area
  <1> QED
    BY <1>1, <1>2 DEF ShownOK, FloorFitsIn, WorkOK

(* The whole screen may be shown, as Fullscreen does. *)
LEMMA ScreenIsShown ==
  ASSUME NEW a, NEW f, WorkOK(a, f), NEW m
  PROVE  ShownOK(Screen(f), m, a, f) /\ Screen(f) \in Rect
  <1>1. a \in Area /\ Screen(f) \in Rect /\ Within(a, Screen(f))
        /\ Screen(f).x = 0 /\ Screen(f).y = 0
    BY DEF WorkOK
  <1>2. Within(Screen(f), Screen(f))
    BY <1>1 DEF Within, Rect
  <1>3. FloorFitsIn(a) => Screen(f).w >= Floor.w /\ Screen(f).h >= Floor.h
    BY <1>1, LayoutAssumption DEF Within, Area, Rect, FloorFitsIn
  <1> QED
    BY <1>1, <1>2, <1>3 DEF ShownOK

(* A frame has its own work area. *)
LEMMA FrameHasWork ==
  ASSUME NEW s \in Sizes, Drawable(s), NEW e \in Edges
  PROVE  WorkOK(WorkArea(s, e), s)
  <1>1. Screen(s).x = 0 /\ Screen(s).y = 0
    BY DEF Screen, Box
  <1> QED
    BY <1>1, WorkIsOnScreen DEF WorkOK

(* The first frame. *)
LEMMA LayoutInit == Init => LInv
  <1> SUFFICES ASSUME Init PROVE LInv
    OBVIOUS
  <1>1. /\ size \in Sizes /\ Drawable(size) /\ edge \in Edges /\ frame = size
        /\ work = WorkArea(size, edge) /\ mode = "Normal" /\ user = Home
        /\ display = ClampTo(Home, work) /\ drag = Idle
    BY DEF Init
  <1>2. WorkOfFrame
    BY <1>1, FrameHasWork DEF WorkOfFrame
  <1>3. Home \in Rect
    BY LayoutAssumption DEF Rect
  <1>4. ShownOK(display, mode, work, frame) /\ display \in Rect
    BY <1>1, <1>2, <1>3, ClampIsShown DEF WorkOfFrame
  <1>5. drag \in [kind : {"Idle", "Moving", "Resizing"}, part : Parts,
                  dx : Int, dy : Int, rect : Rect, origin : Rect]
    BY <1>1, <1>3 DEF Idle, Parts
  <1>6. LayoutTypeOK
    BY <1>1, <1>2, <1>3, <1>4, <1>5 DEF LayoutTypeOK, WorkOfFrame, WorkOK, Area
  <1>7. GestureOK
    BY <1>1 DEF GestureOK, Idle
  <1> QED
    BY <1>2, <1>4, <1>6, <1>7 DEF LInv

-----------------------------------------------------------------------------
(* Steps that leave the frame alone: what they must give to keep LInv. *)
LEMMA SameFrame ==
  ASSUME LInv, work' = work, frame' = frame, LayoutTypeOK', GestureOK',
         ShownOK(display', mode', work, frame)
  PROVE  LInv'
  <1>1. WorkOfFrame'
    BY DEF LInv, WorkOfFrame
  <1> QED
    BY <1>1 DEF LInv, ShownOK

(* A window leaves full screen with the rectangle it had. *)
LEMMA ModeIsShown ==
  ASSUME LInv, LosesFullscreen
  PROVE  LInv'
  <1>1. LayoutTypeOK' /\ GestureOK'
    BY DEF LInv, LosesFullscreen, LayoutTypeOK, GestureOK, Idle
  <1>2. ShownOK(work, mode', work, frame) /\ ShownOK(Screen(frame), mode', work, frame)
    BY WorkIsShown, ScreenIsShown DEF LInv, WorkOfFrame
  <1>3. display = work \/ display = Screen(frame)
    BY DEF LInv, LosesFullscreen, ShownOK
  <1>4. display' = display /\ work' = work /\ frame' = frame
    BY DEF LosesFullscreen
  <1> QED
    BY <1>1, <1>2, <1>3, <1>4, SameFrame

(* Modes, keys and the menu: there is no gesture. *)
LEMMA KeysKeepLayout ==
  ASSUME LInv,
         \/ \E e \in Edges : MovePanel(e)
         \/ \E m \in AllModes : SetMode(m)
         \/ KeyMoves
         \/ \E d \in Dirs : SnapFocused(d) \/ DockIntoFreeHalf(d)
         \/ \E n \in 1..MaxTiles : TileWindows(n)
  PROVE  LInv'
  <1> USE DEF AllModes
  <1>1. LayoutTypeOK /\ WorkOfFrame /\ ShownOK(display, mode, work, frame) /\ user \in Rect
    BY DEF LInv, LayoutTypeOK
  <1>2. work' = work /\ frame' = frame /\ size' = size /\ drag' = drag /\ drag = Idle
    BY DEF MovePanel, SetMode, KeyMoves, SnapFocused, DockIntoFreeHalf, TileWindows, PutAt
  <1>3. edge' \in Edges
    BY <1>1 DEF MovePanel, SetMode, KeyMoves, SnapFocused, DockIntoFreeHalf, TileWindows, PutAt,
                LayoutTypeOK
  <1>4. GestureOK'
    BY <1>2 DEF GestureOK, Idle
  <1>5. /\ mode' \in AllModes /\ user' \in Rect /\ display' \in Rect
        /\ ShownOK(display', mode', work, frame)
    <2>1. CASE \E e \in Edges : MovePanel(e)
      BY <1>1, <2>1 DEF MovePanel, LayoutTypeOK
    <2>2. ASSUME NEW m \in AllModes, SetMode(m)
          PROVE  /\ mode' \in AllModes /\ user' \in Rect /\ display' \in Rect
                 /\ ShownOK(display', mode', work, frame)
      <3>1. mode' = m /\ user' = user /\ display' = Shown(m, user)
        BY <2>2 DEF SetMode
      <3>2. CASE m = "Normal"
        BY <1>1, <3>1, <3>2, ClampIsShown DEF Shown, WorkOfFrame
      <3>3. CASE m \in {"Maximized", "Fullscreen"}
        BY <1>1, <3>1, <3>3, WorkIsShown DEF Shown, WorkOfFrame
      <3>4. CASE m = "Minimized"
        BY <1>1, <3>1, <3>4 DEF Shown, ShownOK, LayoutTypeOK
      <3> QED
        BY <3>2, <3>3, <3>4
    <2>3. CASE KeyMoves
      <3>1. PICK r \in Nudged(user) : user' = ClampTo(r, work)
        BY <2>3 DEF KeyMoves
      <3>2. r \in Rect
        BY <1>1, LayoutAssumption DEF Nudged, Rect, Greater
      <3>3. user' \in Rect
        BY <1>1, <3>1, <3>2, AreaIsRect, ClampIsInside DEF WorkOfFrame, WorkOK
      <3> QED
        BY <1>1, <2>3, <3>3 DEF KeyMoves, LayoutTypeOK
    <2>4. ASSUME NEW r \in Rect, PutAt(r)
          PROVE  /\ mode' \in AllModes /\ user' \in Rect /\ display' \in Rect
                 /\ ShownOK(display', mode', work, frame)
      BY <1>1, <2>4, ClampIsShown DEF PutAt, WorkOfFrame
    <2>5. ASSUME NEW d \in Dirs, SnapFocused(d) \/ DockIntoFreeHalf(d)
          PROVE  \E r \in Rect : PutAt(r)
      BY <1>1, <2>5, HalfIsRect DEF SnapFocused, DockIntoFreeHalf, WorkOfFrame, WorkOK
    <2>6. ASSUME NEW n \in 1..MaxTiles, TileWindows(n)
          PROVE  \E r \in Rect : PutAt(r)
      BY <2>6 DEF TileWindows
    <2> QED
      BY <2>1, <2>2, <2>3, <2>4, <2>5, <2>6
  <1>6. LayoutTypeOK'
    BY <1>1, <1>2, <1>3, <1>5 DEF LayoutTypeOK
  <1> QED
    BY <1>2, <1>4, <1>5, <1>6, SameFrame

(* Frames and the size of the terminal. *)
LEMMA FramesKeepLayout ==
  ASSUME LInv, Render \/ \E s \in Sizes : ResizeTerminal(s)
  PROVE  LInv'
  <1>1. LayoutTypeOK /\ user \in Rect /\ mode \in AllModes /\ GestureOK
    BY DEF LInv, LayoutTypeOK, AllModes
  <1>2. CASE Render
    <2>1. /\ size \in Sizes /\ edge \in Edges /\ Drawable(size) /\ frame' = size
          /\ work' = WorkArea(size, edge) /\ display' = DisplayRectFor(user, mode, work', size)
          /\ UNCHANGED <<size, edge, mode, user, drag>>
      BY <1>1, <1>2 DEF Render, LayoutTypeOK
    <2>2. WorkOfFrame'
      BY <2>1, FrameHasWork DEF WorkOfFrame
    <2>3. ShownOK(display', mode', work', frame') /\ display' \in Rect
      <3>1. CASE mode = "Maximized"
        <4>1. display' = work' /\ mode' = mode
          BY <2>1, <3>1 DEF DisplayRectFor
        <4>2. ShownOK(work', mode, work', frame') /\ work' \in Rect
          BY <2>2, WorkIsShown DEF WorkOfFrame
        <4> QED
          BY <4>1, <4>2
      <3>2. CASE mode = "Fullscreen"
        <4>1. display' = Screen(frame') /\ mode' = mode
          BY <2>1, <3>2 DEF DisplayRectFor
        <4>2. ShownOK(Screen(frame'), mode, work', frame') /\ Screen(frame') \in Rect
          BY <2>2, ScreenIsShown DEF WorkOfFrame
        <4> QED
          BY <4>1, <4>2
      <3>3. CASE mode \in {"Normal", "Minimized"}
        <4>1. display' = ClampTo(user', work') /\ mode' = mode /\ user' \in Rect
          BY <1>1, <2>1, <3>3 DEF DisplayRectFor
        <4>2. ShownOK(ClampTo(user', work'), mode, work', frame') /\ ClampTo(user', work') \in Rect
          BY <2>2, <3>3, <4>1, ClampIsShown DEF WorkOfFrame
        <4> QED
          BY <4>1, <4>2
      <3> QED
        BY <1>1, <3>1, <3>2, <3>3 DEF AllModes
    <2>4. GestureOK'
      BY <1>1, <2>1 DEF GestureOK, Idle
    <2>5. LayoutTypeOK'
      BY <1>1, <2>1, <2>2, <2>3 DEF LayoutTypeOK, WorkOfFrame, WorkOK, Area
    <2> QED
      BY <2>2, <2>3, <2>4, <2>5 DEF LInv, ShownOK
  <1>3. ASSUME NEW s \in Sizes, ResizeTerminal(s) PROVE LInv'
    <2>1. LayoutTypeOK' /\ GestureOK' /\ work' = work /\ frame' = frame
          /\ display' = display /\ mode' = mode
      BY <1>1, <1>3 DEF ResizeTerminal, LayoutTypeOK, GestureOK, Idle
    <2> QED
      BY <2>1, SameFrame DEF LInv
  <1> QED
    BY <1>2, <1>3

GestureSet ==
  [kind : {"Idle", "Moving", "Resizing"}, part : Parts,
   dx : Int, dy : Int, rect : Rect, origin : Rect]

(* A gesture begins. *)
LEMMA PressKeepsLayout ==
  ASSUME LInv, NEW x \in Int, NEW y \in Int, PressTitleBar(x, y) \/ PressEdge(x, y)
  PROVE  LInv'
  <1>1. LayoutTypeOK /\ user \in Rect /\ display \in Rect
    BY DEF LInv, LayoutTypeOK
  <1>2. UNCHANGED <<size, frame, edge, work, mode, user, display>>
    BY DEF PressTitleBar, PressEdge
  <1>3. drag' \in GestureSet
    BY <1>1 DEF PressTitleBar, PressEdge, GestureSet, Parts, Rect
  <1>4. GestureOK'
    BY <1>2 DEF PressTitleBar, PressEdge, GestureOK
  <1>5. LayoutTypeOK'
    BY <1>1, <1>2, <1>3 DEF LayoutTypeOK, GestureSet
  <1> QED
    BY <1>2, <1>4, <1>5, SameFrame DEF LInv

(* A gesture goes on, is released or is cancelled. *)
LEMMA GestureKeepsLayout ==
  ASSUME LInv, NEW x \in Int, NEW y \in Int,
         \/ MoveTo(x, y) \/ ReleaseMove(x, y) \/ ResizeTo(x, y) \/ ReleaseResize(x, y)
         \/ CancelDrag
  PROVE  LInv'
  <1>1. LayoutTypeOK /\ user \in Rect /\ drag \in GestureSet /\ work \in Rect /\ GestureOK
        /\ drag.rect \in Rect /\ drag.origin \in Rect /\ drag.dx \in Int /\ drag.dy \in Int
    BY AreaIsRect DEF LInv, LayoutTypeOK, GestureSet, WorkOfFrame, WorkOK
  <1>2. UNCHANGED <<size, frame, edge, work, mode, display>>
    BY DEF MoveTo, ReleaseMove, ResizeTo, ReleaseResize, CancelDrag
  <1>a. user \in Rect /\ drag.dx \in Int /\ drag.dy \in Int /\ drag.rect \in Rect
    BY <1>1
  <1>3. Moved(x, y) \in Rect /\ Moved(x, y).w = user.w /\ Moved(x, y).h = user.h
    <2>1. x - drag.dx \in Int /\ y - drag.dy \in Int
      BY <1>a
    <2> QED
      BY <1>a, <2>1, ChangedRect, ZenonT(30) DEF Moved
  <1>4. Outline(x, y) \in Rect
    <2>1. drag.rect.x \in Int /\ drag.rect.y \in Int
      BY <1>a DEF Rect
    <2>2. x - drag.rect.x + 1 \in Int /\ y - drag.rect.y + 1 \in Int
      BY <2>1
    <2> QED
      BY <1>a, <2>2, ChangedRect DEF Outline
  <1>5. Idle \in GestureSet
    BY LayoutAssumption DEF Idle, GestureSet, Parts, Rect
  <1>6. user' \in Rect /\ drag' \in GestureSet /\ GestureOK'
    <2>1. CASE MoveTo(x, y)
      BY <1>1, <1>3, <2>1 DEF MoveTo, GestureOK, Idle
    <2>2. CASE ReleaseMove(x, y)
      <3>1. user' \in Rect
        BY <1>1, <1>3, <2>2, SnapIsRect DEF ReleaseMove
      <3> QED
        BY <1>5, <2>2, <3>1 DEF ReleaseMove, GestureOK, Idle
    <2>3. CASE ResizeTo(x, y)
      <3>1. drag' = [drag EXCEPT !.rect = Outline(x, y)] /\ user' = user /\ drag.kind = "Resizing"
        BY <2>3 DEF ResizeTo
      <3>2. drag' \in GestureSet /\ drag'.kind = "Resizing" /\ drag'.origin = drag.origin
        BY <1>1, <1>4, <3>1 DEF GestureSet
      <3> QED
        BY <1>1, <3>1, <3>2 DEF GestureOK
    <2>4. CASE ReleaseResize(x, y)
      BY <1>4, <1>5, <2>4 DEF ReleaseResize, GestureOK, Idle
    <2>5. CASE CancelDrag
      <3>1. user' \in Rect
        BY <1>1, <2>5 DEF CancelDrag, Cancelled
      <3> QED
        BY <1>5, <2>5, <3>1 DEF CancelDrag, GestureOK, Idle
    <2> QED
      BY <2>1, <2>2, <2>3, <2>4, <2>5
  <1>7. LayoutTypeOK'
    BY <1>1, <1>2, <1>6 DEF LayoutTypeOK, GestureSet
  <1> QED
    BY <1>2, <1>6, <1>7, SameFrame DEF LInv

-----------------------------------------------------------------------------
(* Positions of the pointer are integers. *)
LEMMA PointerIsInt ==
  ASSUME LInv, NEW p \in Pointed(size)
  PROVE  p[1] \in Int /\ p[2] \in Int
  BY DEF Pointed

(* Every step keeps the invariant. *)
LEMMA LayoutStep == LInv /\ [Next]_vars => LInv'
  <1> SUFFICES ASSUME LInv, [Next]_vars PROVE LInv'
    OBVIOUS
  <1>1. CASE Render \/ \E s \in Sizes : ResizeTerminal(s)
    BY <1>1, FramesKeepLayout
  <1>2. CASE \/ \E e \in Edges : MovePanel(e)
             \/ \E m \in AllModes : SetMode(m)
             \/ KeyMoves
             \/ \E d \in Dirs : SnapFocused(d) \/ DockIntoFreeHalf(d)
             \/ \E n \in 1..MaxTiles : TileWindows(n)
    BY <1>2, KeysKeepLayout
  <1>3. CASE LosesFullscreen
    BY <1>3, ModeIsShown
  <1>4. ASSUME NEW p \in Pointed(size), PressTitleBar(p[1], p[2]) \/ PressEdge(p[1], p[2])
        PROVE  LInv'
    BY <1>4, PointerIsInt, PressKeepsLayout
  <1>5. ASSUME NEW p \in Pointed(size),
               \/ MoveTo(p[1], p[2]) \/ ReleaseMove(p[1], p[2])
               \/ ResizeTo(p[1], p[2]) \/ ReleaseResize(p[1], p[2])
        PROVE  LInv'
    BY <1>5, PointerIsInt, GestureKeepsLayout
  <1>6. CASE CancelDrag
    BY <1>6, GestureKeepsLayout
  <1>7. CASE UNCHANGED vars
    <2>1. LayoutTypeOK' /\ GestureOK'
      BY <1>7 DEF LInv, LayoutTypeOK, GestureOK, vars, Idle
    <2> QED
      BY <1>7, <2>1, SameFrame DEF LInv, vars
  <1> QED
    BY <1>1, <1>2, <1>3, <1>4, <1>5, <1>6, <1>7 DEF Next, AllModes

(* The invariant holds for ever. *)
THEOREM LayoutInvariant == Spec => []LInv
  BY LayoutInit, LayoutStep, PTL DEF Spec

(* Every variable keeps its type and the work area is never empty. *)
THEOREM LayoutTypes == Spec => []LayoutTypeOK
  <1>1. LInv => LayoutTypeOK
    BY DEF LInv
  <1> QED
    BY <1>1, LayoutInvariant, PTL

(* No gesture, key, mode, panel or terminal takes a window off the screen   *)
(* when the floor of the application fits.                                  *)
THEOREM WindowsStayOnScreen == Spec => []StaysOnScreen
  <1>1. LInv => StaysOnScreen
    BY DEF LInv, ShownOK, StaysOnScreen, FloorFits, FloorFitsIn
  <1> QED
    BY <1>1, LayoutInvariant, PTL

(* A window that is moved keeps the size that was wanted. *)
THEOREM MovingKeepsSize == Spec => []MoveKeepsSize
  <1>1. LInv => MoveKeepsSize
    BY DEF LInv, GestureOK, MoveKeepsSize
  <1> QED
    BY <1>1, LayoutInvariant, PTL

(* A gesture that is cancelled leaves the rectangle as it found it. *)
THEOREM CancellingUndoes == Spec => CancelUndoes
  <1> DEFINE Released == \E p \in Pointed(size) :
                           ReleaseMove(p[1], p[2]) \/ ReleaseResize(p[1], p[2])
             Undone == GivenUp => user' = drag.origin
  <1>1. LInv /\ [Next]_vars => [Undone]_vars
    <2> SUFFICES ASSUME LInv, Next, drag # Idle, drag' = Idle, ~Released
                 PROVE  user' = drag.origin
      BY DEF GivenUp
    <2>1. drag.kind \in {"Moving", "Resizing"}
      BY DEF LInv, GestureOK, LayoutTypeOK
    <2>2. CancelDrag
      BY <2>1 DEF Next, ResizeTerminal, Render, MovePanel, SetMode, LosesFullscreen, KeyMoves,
                  SnapFocused, DockIntoFreeHalf, TileWindows, PutAt, PressTitleBar, PressEdge,
                  MoveTo, ResizeTo, Idle
    <2> QED
      BY <2>1, <2>2 DEF LInv, GestureOK, CancelDrag, Cancelled
  <1> QED
    BY <1>1, LayoutInvariant, PTL DEF Spec, CancelUndoes

(* The four halves of an area, by the cells they have on each axis. *)
LEMMA Halves ==
  ASSUME NEW n \in Nat
  PROVE  /\ n - n \div 2 \in Nat /\ n - (n - n \div 2) \in Nat
         /\ n - n \div 2 <= n /\ n - (n - n \div 2) <= n
  OBVIOUS

(* Cutting a length in two cuts the surface in two. *)
LEMMA Surfaces ==
  ASSUME NEW w \in Nat, NEW h \in Nat, NEW p \in Nat
  PROVE  /\ p * h + (w - p) * h = w * h
         /\ h * p + h * (w - p) = h * w
         /\ (w - p) * h + p * h = w * h
         /\ h * (w - p) + h * p = h * w
  OBVIOUS

(* Two windows docked back to back share the work area exactly. *)
THEOREM DockedWindowsMeet == Spec => []HalvesMeet
  <1>1. LInv => HalvesMeet
    <2> SUFFICES ASSUME LInv, NEW d \in Dirs
                 PROVE  LET r == SnapRect(work, d)  s == SnapOpposite(work, d) IN
                        /\ Apart(r, s) /\ Within(r, work) /\ Within(s, work)
                        /\ r.w * r.h + s.w * s.h = work.w * work.h
                        /\ (r.w >= Floor.w /\ s.w >= Floor.w /\ r.h >= Floor.h /\ s.h >= Floor.h)
                             => ClampTo(r, work) = r /\ ClampTo(s, work) = s
      BY DEF HalvesMeet
    <2> DEFINE r == SnapRect(work, d)
               s == SnapOpposite(work, d)
               w1 == work.w - work.w \div 2
               h1 == work.h - work.h \div 2
    <2>1. work \in Area
      BY DEF LInv, WorkOfFrame, WorkOK
    <2>2. work.x \in Nat /\ work.y \in Nat /\ work.w \in Nat /\ work.h \in Nat
      BY <2>1 DEF Area
    <2>3. w1 \in Nat /\ work.w - w1 \in Nat /\ h1 \in Nat /\ work.h - h1 \in Nat
      BY <2>2, Halves
    <2> DEFINE left == Box(work.x, work.y, w1, work.h)
               right == Box(work.x + w1, work.y, work.w - w1, work.h)
               up == Box(work.x, work.y, work.w, h1)
               down == Box(work.x, work.y + h1, work.w, work.h - h1)
    <2>4. \/ r = left /\ s = right
          \/ r = right /\ s = left
          \/ r = up /\ s = down
          \/ r = down /\ s = up
      BY DEF Dirs, SnapRect, SnapOpposite, Opposite
    <2> HIDE DEF r, s, w1, h1
    <2>5. Apart(r, s) /\ Within(r, work) /\ Within(s, work) /\ r \in Rect /\ s \in Rect
      BY <2>2, <2>3, <2>4 DEF Apart, Within, Box, Rect
    <2>6. r.w * r.h + s.w * s.h = work.w * work.h
      <3>1. /\ left.w * left.h + right.w * right.h = work.w * work.h
            /\ right.w * right.h + left.w * left.h = work.w * work.h
        BY <2>2, <2>3, Surfaces, ZenonT(30) DEF Box
      <3>2. /\ up.w * up.h + down.w * down.h = work.w * work.h
            /\ down.w * down.h + up.w * up.h = work.w * work.h
        BY <2>2, <2>3, Surfaces DEF Box
      <3> HIDE DEF left, right, up, down
      <3> QED
        BY <2>4, <3>1, <3>2
    <2>7. (r.w >= Floor.w /\ s.w >= Floor.w /\ r.h >= Floor.h /\ s.h >= Floor.h)
             => ClampTo(r, work) = r /\ ClampTo(s, work) = s
      <3>1. ASSUME NEW t \in Rect, Within(t, work), t.w >= Floor.w, t.h >= Floor.h
            PROVE  ClampTo(t, work) = t
        BY <2>2, <3>1, LayoutAssumption DEF ClampTo, Within, Greater, Lesser, Box, Rect
      <3> QED
        BY <2>5, <3>1
    <2> QED
      BY <2>5, <2>6, <2>7 DEF r, s
  <1> QED
    BY <1>1, LayoutInvariant, PTL

-----------------------------------------------------------------------------
(* Tiling. *)

(* A set of naturals has a least element. *)
LEMMA LeastNatural ==
  ASSUME NEW T \in SUBSET Nat, T # {}
  PROVE  \E x \in T : \A y \in T : x <= y
  <1> DEFINE R == OpToRel(<, Nat)
  <1>1. IsWellFoundedOn(R, Nat)
    BY NatLessThanWellFounded
  <1>2. \A x, y \in Nat : x < y => <<x, y>> \in R
    BY DEF OpToRel
  <1> HIDE DEF R
  <1>3. PICK x \in T : \A y \in T : ~(<<y, x>> \in R)
    BY <1>1, WFMin
  <1>4. \A y \in T : x \in Nat /\ y \in Nat /\ ~(y < x)
    BY <1>2, <1>3
  <1> QED
    BY <1>4

(* Division. *)
LEMMA Divided ==
  ASSUME NEW total \in Nat, NEW parts \in Nat \ {0}
  PROVE  /\ total \div parts \in Nat /\ total % parts \in 0..(parts - 1)
         /\ total = parts * (total \div parts) + (total % parts)
         /\ parts <= total => total \div parts >= 1
  <1>1. /\ total \div parts \in Int /\ total % parts \in 0..(parts - 1)
        /\ total = parts * (total \div parts) + (total % parts)
    <2>1. total \div parts \in Int
      OBVIOUS
    <2>2. total % parts \in 0..(parts - 1)
      OBVIOUS
    <2>3. total = parts * (total \div parts) + (total % parts)
      OBVIOUS
    <2> QED
      BY <2>1, <2>2, <2>3
  <1>2. PICK q \in Int, r \in 0..(parts - 1) : q = total \div parts /\ r = total % parts
    BY <1>1
  <1>3. total = parts * q + r
    BY <1>1, <1>2
  <1>4. q >= 0
    <2> SUFFICES ASSUME q <= -1 PROVE FALSE
      BY <1>2
    <2>1. parts * q <= parts * (-1)
      OBVIOUS
    <2> QED
      BY <1>2, <1>3, <2>1
  <1>5. parts <= total => q # 0
    BY <1>2, <1>3
  <1> QED
    BY <1>1, <1>2, <1>4, <1>5

(* Where the i-th of the parts of total ends: the first ones have the rest. *)
Cut(total, parts, i) == i * (total \div parts) + Lesser(i, total % parts)

(* The cuts go up. *)
LEMMA CutsFollow ==
  ASSUME NEW total \in Nat, NEW parts \in Nat \ {0}, NEW i \in Nat, NEW j \in Nat, i <= j
  PROVE  Cut(total, parts, i) \in Nat /\ Cut(total, parts, i) <= Cut(total, parts, j)
  <1>0. PICK base \in Nat, rest \in Nat : base = total \div parts /\ rest = total % parts
    <2>1. total \div parts \in Nat /\ total % parts \in 0..(parts - 1)
      BY Divided
    <2>2. \A k \in 0..(parts - 1) : k \in Nat
      OBVIOUS
    <2> QED
      BY <2>1, <2>2, Zenon
  <1>1. i * base \in Nat /\ j * base \in Nat /\ i * base <= j * base
    <2>1. PICK d \in Nat : j = i + d
      <3>1. j - i \in Nat /\ j = i + (j - i)
        OBVIOUS
      <3> QED
        BY <3>1
    <2>2. j * base = i * base + d * base /\ d * base \in Nat /\ i * base \in Nat
      BY <2>1
    <2> QED
      BY <2>2
  <1>2. Lesser(i, rest) \in Nat /\ Lesser(j, rest) \in Nat /\ Lesser(i, rest) <= Lesser(j, rest)
    BY DEF Lesser
  <1>3. Cut(total, parts, i) = i * base + Lesser(i, rest) /\ Cut(total, parts, j) = j * base + Lesser(j, rest)
    BY <1>0 DEF Cut
  <1> QED
    BY <1>1, <1>2, <1>3

(* split(): the i-th part reaches from one cut to the next. *)
LEMMA SplitIs ==
  ASSUME NEW total \in Nat, NEW parts \in Nat \ {0}, parts <= total
  PROVE  /\ Cut(total, parts, 0) = 0 /\ Cut(total, parts, parts) = total
         /\ \A i \in 1..parts :
              /\ Split(total, parts)[i] \in Nat \ {0} /\ Split(total, parts)[i] <= Split(total, parts)[1]
              /\ Cut(total, parts, i) = Cut(total, parts, i - 1) + Split(total, parts)[i]
  <1>0. PICK base \in Nat, rest \in Nat : base = total \div parts /\ rest = total % parts
    <2>1. total \div parts \in Nat /\ total % parts \in 0..(parts - 1)
      BY Divided
    <2>2. \A k \in 0..(parts - 1) : k \in Nat
      OBVIOUS
    <2> QED
      BY <2>1, <2>2, Zenon
  <1>1. base >= 1 /\ rest \in 0..(parts - 1) /\ total = parts * base + rest
    BY <1>0, Divided
  <1>2. \A i : Cut(total, parts, i) = i * base + Lesser(i, rest)
    BY <1>0 DEF Cut
  <1>3. \A i \in 1..parts : Split(total, parts)[i] = Greater(1, base + (IF i <= rest THEN 1 ELSE 0))
    BY <1>0 DEF Split
  <1>4. \A k \in Nat \ {0} : Greater(1, k) = k
    BY DEF Greater
  <1>5. \A i \in 1..parts : Split(total, parts)[i] = base + (IF i <= rest THEN 1 ELSE 0)
    <2>1. \A i \in 1..parts : base + (IF i <= rest THEN 1 ELSE 0) \in Nat \ {0}
      BY <1>1
    <2> QED
      BY <1>3, <1>4, <2>1
  <1>6. Cut(total, parts, 0) = 0
    BY <1>2 DEF Lesser
  <1>7. Cut(total, parts, parts) = total
    <2>1. Lesser(parts, rest) = rest
      BY <1>1 DEF Lesser
    <2> QED
      BY <1>1, <1>2, <2>1
  <1>8. ASSUME NEW i \in 1..parts
        PROVE  /\ Split(total, parts)[i] \in Nat \ {0} /\ Split(total, parts)[i] <= Split(total, parts)[1]
               /\ Cut(total, parts, i) = Cut(total, parts, i - 1) + Split(total, parts)[i]
    <2>1. Split(total, parts)[i] \in Nat \ {0} /\ Split(total, parts)[i] <= Split(total, parts)[1]
      BY <1>1, <1>5
    <2>2. PICK j \in Nat : i = j + 1 /\ i - 1 = j
      <3>1. i - 1 \in Nat /\ i = (i - 1) + 1
        OBVIOUS
      <3> QED
        BY <3>1
    <2>3. (j + 1) * base = j * base + base /\ j * base \in Nat
      OBVIOUS
    <2>4. Lesser(j + 1, rest) = Lesser(j, rest) + (IF j + 1 <= rest THEN 1 ELSE 0)
      BY DEF Lesser
    <2>5. Lesser(j, rest) \in Nat
      BY DEF Lesser
    <2>6. Cut(total, parts, j + 1) = (j + 1) * base + Lesser(j + 1, rest)
      BY <1>2
    <2>7. Cut(total, parts, j) = j * base + Lesser(j, rest)
      BY <1>2
    <2>8. Cut(total, parts, j + 1) = Cut(total, parts, j) + (base + (IF j + 1 <= rest THEN 1 ELSE 0))
      BY <2>3, <2>4, <2>5, <2>6, <2>7
    <2> QED
      BY <1>5, <2>1, <2>2, <2>8
  <1> QED
    BY <1>6, <1>7, <1>8

(* tile_rects() adds up the parts before the i-th: that is the cut before. *)
LEMMA StartIs ==
  ASSUME NEW total \in Nat, NEW parts \in Nat \ {0}, parts <= total
  PROVE  \A i \in 1..parts : Start(total, parts)[i] = Cut(total, parts, i - 1)
  <1> DEFINE W == Split(total, parts)
             Sums(f) == [i \in 1..parts |-> IF i = 1 THEN 0 ELSE f[i - 1] + W[i - 1]]
             g == [i \in 1..parts |-> Cut(total, parts, i - 1)]
             at == CHOOSE f : f = Sums(f)
  <1>1. Start(total, parts) = at
    BY DEF Start
  <1>2. /\ Cut(total, parts, 0) = 0
        /\ \A i \in 1..parts : Cut(total, parts, i) = Cut(total, parts, i - 1) + W[i]
    BY SplitIs
  <1> HIDE DEF W
  <1>3. g = Sums(g)
    <2>1. ASSUME NEW i \in 1..parts
          PROVE  Cut(total, parts, i - 1) = IF i = 1 THEN 0 ELSE g[i - 1] + W[i - 1]
      <3>1. CASE i = 1
        BY <1>2, <3>1
      <3>2. CASE i # 1
        <4>1. PICK j \in 1..parts : j = i - 1
          BY <3>2
        <4>2. g[j] = Cut(total, parts, j - 1) /\ Cut(total, parts, j) = Cut(total, parts, j - 1) + W[j]
          BY <1>2
        <4> QED
          BY <3>2, <4>1, <4>2
      <3> QED
        BY <3>1, <3>2
    <2> QED
      BY <2>1
  <1>4. at = Sums(at)
    <2> HIDE DEF Sums, g
    <2> QED
      BY <1>3
  <1> HIDE DEF at
  <1>5. \A i \in 1..parts : at[i] = IF i = 1 THEN 0 ELSE at[i - 1] + W[i - 1]
    BY <1>4
  <1> DEFINE T == {i \in 1..parts : at[i] # Cut(total, parts, i - 1)}
  <1>6. ASSUME T # {} PROVE FALSE
    <2>1. PICK i \in T : \A j \in T : i <= j
      <3>1. T \in SUBSET Nat
        OBVIOUS
      <3> HIDE DEF T
      <3> QED
        BY <1>6, <3>1, LeastNatural
    <2>2. i \in 1..parts /\ at[i] # Cut(total, parts, i - 1)
      BY <2>1
    <2>3. CASE i = 1
      BY <1>2, <1>5, <2>2, <2>3
    <2>4. CASE i # 1
      <3>1. PICK j \in 1..parts : j = i - 1 /\ j < i
        BY <2>2, <2>4
      <3>2. j \notin T
        BY <2>1, <2>2, <3>1
      <3>3. at[j] = Cut(total, parts, j - 1)
        BY <3>2
      <3>4. at[i] = at[j] + W[j]
        BY <1>5, <2>2, <2>4, <3>1
      <3>5. Cut(total, parts, j) = Cut(total, parts, j - 1) + W[j]
        BY <1>2
      <3> QED
        BY <2>2, <3>1, <3>3, <3>4, <3>5
    <2> QED
      BY <2>3, <2>4
  <1> QED
    BY <1>1, <1>6

(* The parts of a length that has a cell for each fill it, one after the    *)
(* other.                                                                   *)
Fills(start, len, total, parts) ==
  /\ \A i \in 1..parts : start[i] \in Nat /\ len[i] \in Nat \ {0} /\ start[i] + len[i] <= total
  /\ \A i, j \in 1..parts : i < j => start[i] + len[i] <= start[j]
  /\ \A p \in 0..(total - 1) : \E i \in 1..parts : start[i] <= p /\ p < start[i] + len[i]

LEMMA SplitFills ==
  ASSUME NEW total \in Nat, NEW parts \in Nat \ {0}, parts <= total
  PROVE  Fills(Start(total, parts), Split(total, parts), total, parts)
  <1> DEFINE S == Start(total, parts)
             W == Split(total, parts)
  <1> DEFINE C(i) == Cut(total, parts, i)
  <1>1. /\ C(0) = 0 /\ C(parts) = total
        /\ \A i \in 1..parts : W[i] \in Nat \ {0} /\ C(i) = C(i - 1) + W[i]
    BY SplitIs
  <1>2. \A i \in 1..parts : S[i] = C(i - 1)
    BY StartIs
  <1>3. \A i, j \in Nat : i <= j => C(i) \in Nat /\ C(i) <= C(j)
    BY CutsFollow
  <1> HIDE DEF S, W, C
  <1>4. \A i \in 1..parts : i \in Nat /\ i - 1 \in Nat /\ i <= parts
    OBVIOUS
  <1>5. \A i \in 1..parts : S[i] \in Nat /\ S[i] + W[i] = C(i) /\ C(i) \in Nat
    BY <1>1, <1>2, <1>3, <1>4
  <1>6. \A i \in 1..parts : S[i] \in Nat /\ W[i] \in Nat \ {0} /\ S[i] + W[i] <= total
    BY <1>1, <1>3, <1>4, <1>5
  <1>7. ASSUME NEW i \in 1..parts, NEW j \in 1..parts, i < j
        PROVE  S[i] + W[i] <= S[j]
    <2>1. i \in Nat /\ j - 1 \in Nat /\ i <= j - 1
      BY <1>7
    <2>2. C(i) <= C(j - 1)
      BY <1>3, <2>1
    <2> QED
      BY <1>2, <1>5, <2>2
  <1>8. ASSUME NEW p \in 0..(total - 1)
        PROVE  \E i \in 1..parts : S[i] <= p /\ p < S[i] + W[i]
    <2> DEFINE T == {i \in 0..parts : p < C(i)}
    <2>1. parts \in T
      BY <1>1
    <2>2. PICK i \in T : \A j \in T : i <= j
      <3>1. T \in SUBSET Nat
        OBVIOUS
      <3> HIDE DEF T
      <3> QED
        BY <2>1, <3>1, LeastNatural
    <2>3. i \in 0..parts /\ p < C(i)
      BY <2>2
    <2>4. i # 0
      BY <1>1, <2>3
    <2>5. i \in 1..parts /\ i - 1 \in 0..parts
      BY <2>3, <2>4
    <2>6. i - 1 \notin T
      BY <2>2, <2>5
    <2>7. ~(p < C(i - 1)) /\ C(i - 1) \in Nat
      BY <1>3, <1>4, <2>5, <2>6
    <2>8. S[i] <= p /\ p < S[i] + W[i]
      BY <1>2, <1>5, <2>3, <2>5, <2>7
    <2> QED
      BY <2>5, <2>8
  <1> QED
    BY <1>6, <1>7, <1>8 DEF Fills, S, W

(* columns_for(): a number of columns that is not above the one of windows. *)
LEMMA ColumnsFit ==
  ASSUME NEW n \in Nat \ {0}
  PROVE  ColumnsFor(n) \in 1..n
  <1> DEFINE T == {c \in Nat : c * c >= n}
             Enough(c) == c * c >= n /\ (c - 1) * (c - 1) < n
  <1>1. n \in T
    <2>1. PICK k \in Nat : n = k + 1
      <3>1. n - 1 \in Nat /\ n = (n - 1) + 1
        OBVIOUS
      <3> QED
        BY <3>1
    <2>2. (k + 1) * (k + 1) = k * k + k + k + 1 /\ k * k \in Nat
      OBVIOUS
    <2> QED
      BY <2>1, <2>2
  <1>2. PICK c \in T : \A d \in T : c <= d
    <2>1. T \in SUBSET Nat
      OBVIOUS
    <2> HIDE DEF T
    <2> QED
      BY <1>1, <2>1, LeastNatural
  <1>3. c \in Nat /\ c * c >= n /\ c <= n
    BY <1>1, <1>2
  <1>4. c # 0
    BY <1>3
  <1>5. c - 1 \in Nat /\ c - 1 \notin T
    BY <1>2, <1>3, <1>4
  <1>6. (c - 1) * (c - 1) < n
    <2>1. PICK e \in Nat : e = c - 1
      BY <1>5
    <2>2. e * e \in Nat /\ ~(e * e >= n)
      BY <1>5, <2>1
    <2> QED
      BY <2>1, <2>2
  <1>7. c \in 1..n /\ Enough(c)
    BY <1>3, <1>4, <1>6
  <1>8. ColumnsFor(n) = CHOOSE d \in 1..n : Enough(d)
    BY DEF ColumnsFor
  <1> HIDE DEF Enough
  <1> QED
    BY <1>7, <1>8

(* The numbers 1 to n in cols columns, rows of them in each: every number   *)
(* has one place.                                                           *)
Placed(start, rows, k, c) == start[c] < k /\ k <= start[c] + rows[c]

LEMMA EveryNumberHasAPlace ==
  ASSUME NEW n \in Nat, NEW cols \in Nat, NEW start, NEW rows, Fills(start, rows, n, cols)
  PROVE  /\ \A k \in 1..n : \E c \in 1..cols : Placed(start, rows, k, c)
         /\ \A k \in 1..n : \A c, d \in 1..cols :
              Placed(start, rows, k, c) /\ Placed(start, rows, k, d) => c = d
         /\ \A c \in 1..cols : \A r \in 1..rows[c] :
              start[c] + r \in 1..n /\ Placed(start, rows, start[c] + r, c)
  <1>0. /\ \A c \in 1..cols : start[c] \in Nat /\ rows[c] \in Nat \ {0} /\ start[c] + rows[c] <= n
        /\ \A c, d \in 1..cols : c < d => start[c] + rows[c] <= start[d]
        /\ \A p \in 0..(n - 1) : \E c \in 1..cols : start[c] <= p /\ p < start[c] + rows[c]
    BY DEF Fills
  <1>1. ASSUME NEW k \in 1..n PROVE \E c \in 1..cols : Placed(start, rows, k, c)
    <2>1. k - 1 \in 0..(n - 1)
      OBVIOUS
    <2>2. PICK c \in 1..cols : start[c] <= k - 1 /\ k - 1 < start[c] + rows[c]
      BY <1>0, <2>1
    <2> QED
      BY <1>0, <2>2 DEF Placed
  <1>2. ASSUME NEW k \in 1..n, NEW c \in 1..cols, NEW d \in 1..cols,
               Placed(start, rows, k, c), Placed(start, rows, k, d)
        PROVE  ~(c < d)
    <2>1. start[d] \in Nat /\ start[c] \in Nat /\ rows[c] \in Nat
      BY <1>0
    <2>2. start[d] < k /\ k <= start[c] + rows[c]
      BY <1>2 DEF Placed
    <2> QED
      BY <1>0, <2>1, <2>2
  <1>3. \A k \in 1..n : \A c, d \in 1..cols :
          Placed(start, rows, k, c) /\ Placed(start, rows, k, d) => c = d
    BY <1>2
  <1>4. \A c \in 1..cols : \A r \in 1..rows[c] :
          start[c] + r \in 1..n /\ Placed(start, rows, start[c] + r, c)
    BY <1>0 DEF Placed
  <1> QED
    BY <1>1, <1>3, <1>4

(* One tile, and what the others are to it. *)
TileAt(a, X, W, Y, H, c, r) == Box(a.x + X[c], a.y + Y[c][r], W[c], H[c][r])

LEMMA TilesApart ==
  ASSUME NEW a \in Area, NEW cols \in Nat, NEW rows, NEW X, NEW W, NEW Y, NEW H,
         Fills(X, W, a.w, cols),
         \A c \in 1..cols : rows[c] \in Nat /\ Fills(Y[c], H[c], a.h, rows[c]),
         NEW c \in 1..cols, NEW r \in 1..rows[c]
  PROVE  /\ Within(TileAt(a, X, W, Y, H, c, r), a)
         /\ \A d \in 1..cols : \A q \in 1..rows[d] :
              c # d \/ r # q =>
                /\ Apart(TileAt(a, X, W, Y, H, c, r), TileAt(a, X, W, Y, H, d, q))
                /\ TileAt(a, X, W, Y, H, c, r) # TileAt(a, X, W, Y, H, d, q)
  <1> DEFINE t(d, q) == TileAt(a, X, W, Y, H, d, q)
  <1>1. \A d \in 1..cols : \A q \in 1..rows[d] :
          /\ t(d, q).x = a.x + X[d] /\ t(d, q).w = W[d]
          /\ t(d, q).y = a.y + Y[d][q] /\ t(d, q).h = H[d][q]
    BY DEF TileAt, Box
  <1>2. /\ \A d \in 1..cols : X[d] \in Nat /\ W[d] \in Nat \ {0} /\ X[d] + W[d] <= a.w
        /\ \A d, e \in 1..cols : d < e => X[d] + W[d] <= X[e]
    BY DEF Fills
  <1>3. \A d \in 1..cols :
          /\ \A q \in 1..rows[d] : Y[d][q] \in Nat /\ H[d][q] \in Nat \ {0} /\ Y[d][q] + H[d][q] <= a.h
          /\ \A q, s \in 1..rows[d] : q < s => Y[d][q] + H[d][q] <= Y[d][s]
    BY DEF Fills
  <1>4. a.x \in Nat /\ a.y \in Nat /\ a.w \in Nat /\ a.h \in Nat
    BY DEF Area
  <1> HIDE DEF t
  <1>5. Within(t(c, r), a)
    <2>1. /\ X[c] \in Nat /\ W[c] \in Nat /\ X[c] + W[c] <= a.w
          /\ Y[c][r] \in Nat /\ H[c][r] \in Nat /\ Y[c][r] + H[c][r] <= a.h
      BY <1>2, <1>3
    <2> QED
      BY <1>1, <1>4, <2>1 DEF Within
  <1>6. ASSUME NEW d \in 1..cols, NEW q \in 1..rows[d], c # d \/ r # q
        PROVE  Apart(t(c, r), t(d, q)) /\ t(c, r) # t(d, q)
    <2>1. /\ t(c, r).x = a.x + X[c] /\ t(c, r).w = W[c]
          /\ t(c, r).y = a.y + Y[c][r] /\ t(c, r).h = H[c][r]
          /\ t(d, q).x = a.x + X[d] /\ t(d, q).w = W[d]
          /\ t(d, q).y = a.y + Y[d][q] /\ t(d, q).h = H[d][q]
      BY <1>1
    <2>2. CASE c # d
      <3>1. /\ X[c] \in Nat /\ W[c] \in Nat \ {0} /\ X[d] \in Nat /\ W[d] \in Nat \ {0}
            /\ X[c] + W[c] <= X[d] \/ X[d] + W[d] <= X[c]
        BY <1>2, <2>2
      <3> QED
        BY <1>4, <2>1, <3>1 DEF Apart
    <2>3. CASE c = d
      <3>1. r < q \/ q < r
        BY <1>6, <2>3
      <3>2. /\ Y[c][r] \in Nat /\ H[c][r] \in Nat \ {0} /\ Y[d][q] \in Nat /\ H[d][q] \in Nat \ {0}
            /\ Y[c][r] + H[c][r] <= Y[d][q] \/ Y[d][q] + H[d][q] <= Y[c][r]
        BY <1>3, <2>3, <3>1
      <3> QED
        BY <1>4, <2>1, <3>2 DEF Apart
    <2> QED
      BY <2>2, <2>3
  <1> QED
    BY <1>5, <1>6 DEF t

(* tile_rects(): n tiles that fill the area. *)
LEMMA TilesFillAnArea ==
  ASSUME NEW a \in Area, NEW n \in Nat \ {0}, ColumnsFor(n) <= a.w,
         Split(n, ColumnsFor(n))[1] <= a.h, NEW T, T = TileRects(a, n)
  PROVE  /\ Cardinality(T) = n /\ \A r \in T : Within(r, a)
         /\ \A r, s \in T : r # s => Apart(r, s)
         /\ \A x, y \in Int : Contains(a, x, y) => \E r \in T : Contains(r, x, y)
  <1>0. PICK cols \in 1..n : cols = ColumnsFor(n)
    BY ColumnsFit
  <1> DEFINE rows == Split(n, cols)
             X == Start(a.w, cols)
             W == Split(a.w, cols)
             Y == [c \in 1..cols |-> Start(a.h, rows[c])]
             H == [c \in 1..cols |-> Split(a.h, rows[c])]
             S == Start(n, cols)
             t(c, r) == TileAt(a, X, W, Y, H, c, r)
  <1>1. /\ cols \in Nat \ {0} /\ cols <= n /\ cols <= a.w /\ a.w \in Nat /\ a.h \in Nat
        /\ a.x \in Nat /\ a.y \in Nat
    BY <1>0 DEF Area
  <1>2. \A c \in 1..cols : rows[c] \in Nat \ {0} /\ rows[c] <= a.h
    <2>1. \A c \in 1..cols : rows[c] \in Nat \ {0} /\ rows[c] <= rows[1]
      BY <1>1, SplitIs
    <2>2. rows[1] <= a.h /\ 1 \in 1..cols
      BY <1>0, <1>1
    <2> HIDE DEF rows
    <2>3. rows[1] \in Nat
      BY <2>1, <2>2
    <2> QED
      BY <1>1, <2>1, <2>2, <2>3
  <1>3. T = UNION {{t(c, r) : r \in 1..rows[c]} : c \in 1..cols}
    BY <1>0 DEF TileRects, TileAt
  <1>4. Fills(X, W, a.w, cols) /\ Fills(S, rows, n, cols)
    BY <1>1, SplitFills
  <1>5. \A c \in 1..cols : rows[c] \in Nat /\ Fills(Y[c], H[c], a.h, rows[c])
    <2> SUFFICES ASSUME NEW c \in 1..cols PROVE rows[c] \in Nat /\ Fills(Y[c], H[c], a.h, rows[c])
      OBVIOUS
    <2>1. PICK k \in Nat \ {0} : k = rows[c] /\ k <= a.h
      BY <1>2
    <2>2. Fills(Start(a.h, k), Split(a.h, k), a.h, k)
      BY <1>1, <2>1, SplitFills
    <2>3. Y[c] = Start(a.h, k) /\ H[c] = Split(a.h, k)
      BY <2>1
    <2> HIDE DEF rows, Y, H
    <2> QED
      BY <2>1, <2>2, <2>3
  <1> HIDE DEF rows, X, W, Y, H, S
  <1>6. \A e : e \in T <=> \E c \in 1..cols : \E r \in 1..rows[c] : e = t(c, r)
    BY <1>3
  <1>7. ASSUME NEW c \in 1..cols, NEW r \in 1..rows[c]
        PROVE  /\ Within(t(c, r), a)
               /\ \A d \in 1..cols : \A q \in 1..rows[d] :
                    c # d \/ r # q => Apart(t(c, r), t(d, q)) /\ t(c, r) # t(d, q)
    BY <1>1, <1>4, <1>5, TilesApart
  <1>8. \A c \in 1..cols : \A r \in 1..rows[c] :
          /\ t(c, r).x = a.x + X[c] /\ t(c, r).w = W[c]
          /\ t(c, r).y = a.y + Y[c][r] /\ t(c, r).h = H[c][r]
    BY DEF TileAt, Box
  <1> HIDE DEF t
  <1>9. \A e \in T : Within(e, a)
    BY <1>6, <1>7
  <1>10. \A e, f \in T : e # f => Apart(e, f)
    BY <1>6, <1>7
  <1>11. ASSUME NEW x \in Int, NEW y \in Int, Contains(a, x, y)
         PROVE  \E e \in T : Contains(e, x, y)
    <2>1. PICK u \in 0..(a.w - 1), v \in 0..(a.h - 1) : x = a.x + u /\ y = a.y + v
      <3>1. x - a.x \in 0..(a.w - 1) /\ y - a.y \in 0..(a.h - 1)
            /\ x = a.x + (x - a.x) /\ y = a.y + (y - a.y)
        BY <1>1, <1>11 DEF Contains
      <3> QED
        BY <3>1
    <2>2. PICK c \in 1..cols : X[c] <= u /\ u < X[c] + W[c] /\ X[c] \in Nat /\ W[c] \in Nat
      BY <1>4 DEF Fills
    <2>3. PICK r \in 1..rows[c] : Y[c][r] <= v /\ v < Y[c][r] + H[c][r] /\ Y[c][r] \in Nat /\ H[c][r] \in Nat
      BY <1>5 DEF Fills
    <2>4. Contains(t(c, r), x, y)
      BY <1>1, <1>8, <2>1, <2>2, <2>3 DEF Contains
    <2> QED
      BY <1>6, <2>4
  <1>12. Cardinality(T) = n
    <2> DEFINE col(k) == CHOOSE c \in 1..cols : Placed(S, rows, k, c)
               g == [k \in 1..n |-> t(col(k), k - S[col(k)])]
    <2>0. /\ \A k \in 1..n : \E c \in 1..cols : Placed(S, rows, k, c)
          /\ \A k \in 1..n : \A c, d \in 1..cols :
               Placed(S, rows, k, c) /\ Placed(S, rows, k, d) => c = d
          /\ \A c \in 1..cols : \A r \in 1..rows[c] :
               S[c] + r \in 1..n /\ Placed(S, rows, S[c] + r, c)
      BY <1>1, <1>4, EveryNumberHasAPlace
    <2>1. \A k \in 1..n : col(k) \in 1..cols /\ Placed(S, rows, k, col(k))
      BY <2>0
    <2> HIDE DEF col
    <2>2. \A c \in 1..cols : S[c] \in Nat
      BY <1>4 DEF Fills
    <2>3. ASSUME NEW k \in 1..n
          PROVE  k - S[col(k)] \in 1..rows[col(k)] /\ S[col(k)] + (k - S[col(k)]) = k
      <3>1. PICK c \in 1..cols : c = col(k) /\ Placed(S, rows, k, c)
        BY <2>1
      <3>2. S[c] \in Nat /\ rows[c] \in Nat
        BY <1>2, <2>2
      <3>3. k - S[c] \in 1..rows[c] /\ S[c] + (k - S[c]) = k
        BY <3>1, <3>2 DEF Placed
      <3> QED
        BY <3>1, <3>3
    <2>4. g \in [1..n -> T]
      <3>1. \A k \in 1..n : t(col(k), k - S[col(k)]) \in T
        BY <1>6, <2>1, <2>3
      <3> QED
        BY <3>1
    <2>5. ASSUME NEW k \in 1..n, NEW l \in 1..n, g[k] = g[l] PROVE k = l
      <3>1. t(col(k), k - S[col(k)]) = t(col(l), l - S[col(l)])
        BY <2>5
      <3>2. col(k) = col(l) /\ k - S[col(k)] = l - S[col(l)]
        BY <1>7, <2>1, <2>3, <3>1
      <3> QED
        BY <2>3, <3>2
    <2>6. ASSUME NEW e \in T PROVE \E k \in 1..n : g[k] = e
      <3>0. PICK c \in 1..cols : \E r \in 1..rows[c] : e = t(c, r)
        BY <1>6
      <3>1. PICK r \in 1..rows[c] : e = t(c, r)
        BY <3>0
      <3>2. PICK k \in 1..n : k = S[c] + r /\ Placed(S, rows, k, c)
        BY <2>0
      <3>3. col(k) = c
        BY <2>0, <2>1, <3>2
      <3>4. k - S[c] = r
        BY <2>2, <3>2
      <3>5. g[k] = t(c, r)
        BY <3>3, <3>4
      <3> QED
        BY <3>1, <3>5
    <2> HIDE DEF g
    <2>7. g \in Bijection(1..n, T)
      <3>1. g \in Injection(1..n, T)
        BY <2>4, <2>5 DEF Injection, IsInjective
      <3>2. g \in Surjection(1..n, T)
        BY <2>4, <2>6 DEF Surjection
      <3> QED
        BY <3>1, <3>2 DEF Bijection
    <2>8. ExistsBijection(1..n, T)
      BY <2>7 DEF ExistsBijection
    <2> QED
      BY <2>8, FS_CountingElements
  <1> QED
    BY <1>9, <1>10, <1>11, <1>12

(* Tiling fills the work area without a hole or an overlap, one tile for    *)
(* each window, for every number of windows and every work area that has a  *)
(* cell for each.                                                           *)
THEOREM TilingFills == Spec => []TilesFill
  <1>1. LInv => TilesFill
    <2> SUFFICES ASSUME LInv, NEW n \in 1..MaxTiles,
                        ColumnsFor(n) <= work.w, Split(n, ColumnsFor(n))[1] <= work.h,
                        NEW T, T = TileRects(work, n)
                 PROVE  /\ Cardinality(T) = n /\ \A r \in T : Within(r, work)
                        /\ \A r, s \in T : r # s => Apart(r, s)
                        /\ \A p \in Pointed(frame) :
                             Contains(work, p[1], p[2]) => \E r \in T : Contains(r, p[1], p[2])
      BY DEF TilesFill
    <2>1. work \in Area
      BY DEF LInv, WorkOfFrame, WorkOK
    <2>2. n \in Nat \ {0}
      BY LayoutAssumption
    <2>3. /\ Cardinality(T) = n /\ \A r \in T : Within(r, work)
          /\ \A r, s \in T : r # s => Apart(r, s)
          /\ \A x, y \in Int : Contains(work, x, y) => \E r \in T : Contains(r, x, y)
      BY <2>1, <2>2, TilesFillAnArea
    <2>4. \A p \in Pointed(frame) : p[1] \in Int /\ p[2] \in Int
      BY DEF Pointed
    <2> QED
      BY <2>3, <2>4
  <1> QED
    BY <1>1, LayoutInvariant, PTL
=============================================================================
