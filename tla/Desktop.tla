------------------------------ MODULE Desktop ------------------------------
(***************************************************************************)
(* daemon/session.cpp, the windows: what keys, clicks, applications and    *)
(* the composition of a frame do to the stack, to the focus and to the     *)
(* gesture in progress.  Where things are on the screen is in Layout; here *)
(* a click chooses a window and a part of it.  What a dialog is about is   *)
(* in Session; here it has a target window or none.                        *)
(***************************************************************************)
EXTENDS WindowManager, FiniteSets

CONSTANTS
  App,         (* applications of the catalog                              *)
  Careful,     (* windows whose can_close() refuses                        *)
  MaxAsked,    (* bound: windows that ask to close and wait                *)
  MaxPending   (* bound: windows that applications ask for and wait        *)

ASSUME DesktopAssumption ==
  App # {} /\ Careful \subseteq Id /\ MaxAsked \in Nat /\ MaxPending \in Nat

VARIABLES
  wm,        (* wm_                                                        *)
  appId,     (* Window::app_id                                             *)
  asked,     (* windows with close_requested                               *)
  pending,   (* pending_apps_: how many wait                               *)
  seeded,    (* seeded_                                                    *)
  drag,      (* drag_: what is moved or resized                            *)
  modal,     (* modal_: open, and about which window (0: none)             *)
  assist     (* assist_: the windows it offers, {} when it is closed       *)

appVars == <<appId, asked, pending, seeded>>
vars == <<wm, appVars, drag, modal, assist>>

Idle == [kind |-> "Idle", win |-> 0]
Moving(w) == [kind |-> "Moving", win |-> w]
Resizing(w) == [kind |-> "Resizing", win |-> w]
NoModal == [open |-> FALSE, target |-> 0]
About(w) == [open |-> TRUE, target |-> w]

Init ==
  /\ wm = EmptyManager
  /\ appId = [w \in Id |-> ""]
  /\ asked = {} /\ pending = 0 /\ seeded = FALSE
  /\ drag = Idle /\ modal = NoModal /\ assist = {}

-----------------------------------------------------------------------------
(* The mutants of the definitions below: slips that would compile. *)

DragAfterRequest_Kept == drag

AssistAfterPress_Kept == assist

-----------------------------------------------------------------------------
(* Closing. *)

(* Modal::ask(): a question that is open is not replaced; a report is.      *)
Ask(w) ==
  IF ~modal.open THEN {About(w)}
  ELSE IF modal.target # 0 THEN {modal} ELSE {modal, About(w)}

(* request_close(): cancel_drag(), then can_close(), which closes or asks. *)
DragAfterRequest == Idle
AfterRequest(m, w) == IF w \in Careful THEN m ELSE Close(m, w)
DialogAfter(w) == IF w \in Careful THEN Ask(w) ELSE {modal}

RequestClose(m, w) ==
  drag' = DragAfterRequest /\ wm' = AfterRequest(m, w) /\ modal' \in DialogAfter(w)

(* What was known of a window goes with it. *)
Forget ==
  /\ asked' = asked \cap Windows(wm')
  /\ UNCHANGED <<appId, pending, seeded>>

-----------------------------------------------------------------------------
(* Keys: the first key or press during a gesture only cancels it; the       *)
(* others reach the desktop when no dialog is open, and close the snap      *)
(* assistant.                                                               *)

InputCancelsDrag ==
  /\ drag # Idle /\ drag' = Idle
  /\ UNCHANGED <<wm, appVars, modal, assist>>

Key == drag = Idle /\ ~modal.open
Front == wm.focused
HasFront == Front \in Windows(wm)

KeepsRest == UNCHANGED <<appVars, drag, modal>>

NextWindow == Key /\ wm' = Step(wm, FALSE) /\ assist' = {} /\ KeepsRest
PrevWindow == Key /\ wm' = Step(wm, TRUE) /\ assist' = {} /\ KeepsRest

KeyClose ==
  /\ Key /\ HasFront
  /\ RequestClose(wm, Front) /\ assist' = {} /\ Forget

Toggled(w, x) == SetMode(wm, w, IF wm.mode[w] = x THEN "Normal" ELSE x)

Minimize ==
  /\ Key /\ HasFront
  /\ wm' = SetMode(wm, Front, "Minimized") /\ assist' = {} /\ KeepsRest

MaximizeToggle ==
  /\ Key /\ HasFront
  /\ wm' = Toggled(Front, "Maximized") /\ assist' = {} /\ KeepsRest

FullscreenToggle ==
  /\ Key /\ HasFront
  /\ wm' = Toggled(Front, "Fullscreen") /\ assist' = {} /\ KeepsRest

(* snap_focused(), assist_candidates(): the visible windows are offered,    *)
(* unless one already fills the free half or there is no room for the list. *)
SnapFocused ==
  /\ Key /\ HasFront
  /\ wm' = SetMode(wm, Front, "Normal")
  /\ assist' \in {{}, {w \in Windows(wm) \ {Front} : Visible(wm, w)}}
  /\ KeepsRest

(* Any other key, and a press on something else, closes the assistant. *)
OtherInput == Key /\ assist # {} /\ assist' = {} /\ UNCHANGED wm /\ KeepsRest

-----------------------------------------------------------------------------
(* The menu. *)

OpenFromCatalog(a) ==
  /\ CanOpen(wm)
  /\ wm' = Open(wm)
  /\ appId' = [appId EXCEPT ![wm.next] = a]
  /\ UNCHANGED <<asked, pending, seeded, drag, modal>>

MenuOpens == Key /\ (\E a \in App : OpenFromCatalog(a)) /\ assist' = {}

(* tile_windows(). *)
MenuTiles ==
  /\ Key
  /\ wm' = AllNormal(wm) /\ assist' = {} /\ KeepsRest

-----------------------------------------------------------------------------
(* The mouse. *)

Press == drag = Idle /\ ~modal.open

(* A press beside the assistant closes it and keeps its effect. *)
AssistAfterPress == {}

(* dock_into_free_half(): the window offered may have gone. *)
PressAssist ==
  /\ Press
  /\ \E w \in assist :
       wm' = IF w \in Windows(wm) THEN Focus(SetMode(wm, w, "Normal"), w) ELSE wm
  /\ assist' = {} /\ KeepsRest

(* A click on a pinned application: focus_or_open(), the first of its       *)
(* windows from behind, or a new one; the right button always opens one.    *)
PressPinned(a) ==
  /\ Press /\ assist' = AssistAfterPress
  /\ LET its == {i \in DOMAIN wm.stack : appId[wm.stack[i]] = a} IN
     \/ /\ its # {}
        /\ LET w == wm.stack[CHOOSE i \in its : \A j \in its : i <= j] IN
           wm' = Focus(IF Visible(wm, w) THEN wm ELSE SetMode(wm, w, "Normal"), w)
        /\ KeepsRest
     \/ OpenFromCatalog(a)

(* A left click on the entry of a window in the panel. *)
PressTask(w) ==
  /\ Press /\ w \in Windows(wm) /\ assist' = AssistAfterPress
  /\ wm' = IF ~Visible(wm, w) THEN Focus(SetMode(wm, w, "Normal"), w)
           ELSE IF wm.focused = w THEN SetMode(wm, w, "Minimized")
           ELSE Focus(wm, w)
  /\ KeepsRest

(* A right click on it opens another window of the same application. *)
PressTaskRight(w) ==
  /\ Press /\ w \in Windows(wm) /\ assist' = AssistAfterPress
  /\ appId[w] # "" /\ OpenFromCatalog(appId[w])

(* hit(): nothing in front of the window covers the whole work area. *)
Hittable(w) ==
  /\ w \in Windows(wm) /\ Visible(wm, w)
  /\ \A i \in (IndexOf(wm.stack, w) + 1)..Len(wm.stack) :
       wm.mode[wm.stack[i]] \in {"Normal", "Minimized"}

Focused(w) == IF wm.focused = w THEN wm ELSE Focus(wm, w)

(* A press on the title bar moves a window that is in Normal mode. *)
TitlePress(w) == IF Focused(w).mode[w] = "Normal" THEN Moving(w) ELSE Idle

PressTitle(w) ==
  /\ Press /\ Hittable(w) /\ assist' = AssistAfterPress
  /\ wm' = Focused(w) /\ drag' = TitlePress(w)
  /\ UNCHANGED <<appVars, modal>>

PressEdge(w) ==
  /\ Press /\ Hittable(w) /\ assist' = AssistAfterPress
  /\ wm' = Focused(w) /\ drag' = Resizing(w)
  /\ UNCHANGED <<appVars, modal>>

(* A press inside, which only gives the focus; the buttons; a double click. *)
PressInside(w) ==
  /\ Press /\ Hittable(w) /\ assist' = AssistAfterPress
  /\ LET m == Focused(w) IN
     wm' \in {m, SetMode(m, w, "Minimized"),
              SetMode(m, w, IF m.mode[w] = "Maximized" THEN "Normal" ELSE "Maximized")}
  /\ KeepsRest

PressClose(w) ==
  /\ Press /\ Hittable(w) /\ assist' = AssistAfterPress
  /\ RequestClose(Focused(w), w) /\ Forget

(* The button is released, or its release is lost: motion without a button, *)
(* loss of focus, watchdog, detach, attach. The first keeps the geometry,   *)
(* the others undo it; the gesture is over.                                 *)
GestureEnds ==
  /\ drag # Idle /\ drag' = Idle
  /\ UNCHANGED <<wm, appVars, modal, assist>>

-----------------------------------------------------------------------------
(* The dialog. *)

(* A script of the update service ends: its box does not cancel a gesture. *)
UpdateAsks ==
  /\ ~modal.open /\ modal' = About(0)
  /\ UNCHANGED <<wm, appVars, drag, assist>>

Dismiss ==
  /\ drag = Idle /\ modal.open /\ modal' = NoModal
  /\ UNCHANGED <<wm, appVars, drag, assist>>

(* answer_modal(true) when it is about a window. *)
Confirm ==
  /\ drag = Idle /\ modal.target \in Windows(wm)
  /\ wm' = Close(wm, modal.target)
  /\ modal' = NoModal /\ Forget
  /\ UNCHANGED <<drag, assist>>

-----------------------------------------------------------------------------
(* Applications, between two frames. *)

AppAsksToClose(w) ==
  /\ w \in Windows(wm) \ asked /\ Cardinality(asked) < MaxAsked
  /\ asked' = asked \cup {w}
  /\ UNCHANGED <<wm, appId, pending, seeded, drag, modal, assist>>

AppOpensAnother ==
  /\ pending < MaxPending /\ wm.stack # <<>>
  /\ pending' = pending + 1
  /\ UNCHANGED <<wm, appId, asked, seeded, drag, modal, assist>>

(* A manager with one more window, if there is room for it; the bound on    *)
(* the ids is not what limits it.                                           *)
Opened(m) == IF CanOpen(m) THEN Open(m) ELSE m
InBound(m) == Len(m.stack) < kMaxWindows => m.next \in Id

(* The rearmost window that asked to close. *)
Askers(m) == {i \in DOMAIN m.stack : m.stack[i] \in asked}
FirstAsker(m) == m.stack[CHOOSE i \in Askers(m) : \A j \in Askers(m) : i <= j]

(* render(): one window that waits is opened, one window that asked is      *)
(* closed, and the first frame opens the default application.               *)
Render ==
  LET m      == IF pending > 0 THEN Opened(wm) ELSE wm
      closes == Askers(m) # {}
      after  == IF closes THEN AfterRequest(m, FirstAsker(m)) ELSE m
  IN
  /\ pending > 0 \/ closes \/ ~seeded
  /\ pending > 0 => InBound(wm)
  /\ ~seeded => InBound(after)
  /\ wm' = IF seeded THEN after ELSE Opened(after)
  /\ \E f \in [wm.next..(wm'.next - 1) -> App] :
       appId' = [w \in Id |-> IF w \in DOMAIN f THEN f[w] ELSE appId[w]]
  /\ IF closes
     THEN /\ drag' = DragAfterRequest /\ modal' \in DialogAfter(FirstAsker(m))
          /\ asked' = asked \ {FirstAsker(m)}
     ELSE UNCHANGED <<drag, modal, asked>>
  /\ pending' = IF pending > 0 THEN pending - 1 ELSE 0
  /\ seeded' = TRUE
  /\ UNCHANGED assist

Next ==
  \/ InputCancelsDrag \/ NextWindow \/ PrevWindow \/ KeyClose \/ Minimize
  \/ MaximizeToggle \/ FullscreenToggle \/ SnapFocused \/ OtherInput
  \/ MenuOpens \/ MenuTiles
  \/ PressAssist \/ (\E a \in App : PressPinned(a))
  \/ \E w \in Id : \/ PressTask(w) \/ PressTaskRight(w) \/ PressTitle(w)
                   \/ PressEdge(w) \/ PressInside(w) \/ PressClose(w)
                   \/ AppAsksToClose(w)
  \/ GestureEnds \/ UpdateAsks \/ Dismiss \/ Confirm
  \/ AppOpensAnother \/ Render

Spec == Init /\ [][Next]_vars

-----------------------------------------------------------------------------
(* The types of the state; the mode to come back to from full screen is     *)
(* never full screen (set_mode saves it before it changes it).              *)
DesktopTypeOK ==
  /\ wm \in Manager
  /\ appId \in [Id -> App \cup {""}] /\ asked \subseteq Id
  /\ pending \in 0..MaxPending /\ seeded \in BOOLEAN
  /\ drag \in [kind : {"Idle", "Moving", "Resizing"}, win : Nat]
  /\ modal \in [open : BOOLEAN, target : Nat] /\ assist \subseteq Id

(* The window in front is the one that gets the keys, whatever was opened,  *)
(* closed, minimized, docked or cycled through (focus, close).              *)
FrontIsFocused == FrontFocused(wm)

(* A window in full screen is in front of all others and has the keys: "une *)
(* seule fenetre plein ecran a la fois" (focus), whoever opens a window.    *)
FullscreenIsFront == FullscreenFront(wm)

(* A gesture always has a window, and one that moves is in Normal mode: no  *)
(* application, dialog or key closes it or changes its mode under the       *)
(* pointer ("une fenetre maximisee ou en plein ecran ne se traine pas",     *)
(* on_mouse).                                                               *)
DragIsLive ==
  drag # Idle =>
    /\ drag.win \in Windows(wm)
    /\ drag.kind = "Moving" => wm.mode[drag.win] = "Normal"

(* The assistant never offers a window that was minimized since. *)
AssistOffersVisible == \A w \in assist \cap Windows(wm) : Visible(wm, w)

(* Repeating NextWindow visits every window that can be seen. *)
NextReachesAll ==
  {w \in Windows(wm) : Visible(wm, w)} \subseteq Reached(wm, FALSE)
=============================================================================
