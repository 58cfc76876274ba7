------------------------------ MODULE Session ------------------------------
(***************************************************************************)
(* The one dialog box of the desktop and everybody who wants it: windows   *)
(* that refuse to close, the menu, and the update service, whose scripts   *)
(* end when they end.  What a "yes" does is decided by modal_kind_, which  *)
(* is kept beside the box and not in it.                                   *)
(*                                                                         *)
(* Composes with UpdateService: the commands of the user and the death of  *)
(* a script go through the session.                                        *)
(***************************************************************************)
EXTENDS UpdateService

CONSTANTS
  Window,    (* window ids                                                 *)
  NoWindow   (* 0: the target of a question about no window                *)

ASSUME SessionAssumption == NoWindow \notin Window

VARIABLES
  wins,      (* the windows that are open                                  *)
  guarded,   (* those whose can_close() refuses                            *)
  modal,     (* modal_, its text reduced to what it is about               *)
  kind,      (* modal_kind_                                                *)
  quit       (* quit_                                                      *)

deskVars == <<wins, guarded, modal, kind, quit>>
sessionVars == <<updateVars, deskVars>>

Kinds == {"CloseWindow", "QuitSession", "ApplyUpdate", "ApplyRunning",
          "RestartForUpdate", "Information"}
Texts == {"", "close", "quit", "apply", "restart", "report", "progress"}

Closed == [open |-> FALSE, style |-> "Question", text |-> "",
           target |-> NoWindow, confirm |-> FALSE]

-----------------------------------------------------------------------------
(* The mutants of the definitions below: slips that would compile. *)

CloseTarget_Focused == \E w \in wins : wins' = wins \ {w}

ReportKind_NotSet(e) ==
  CASE kind = "ApplyRunning" /\ need' -> "RestartForUpdate"
    [] ~(kind = "ApplyRunning" /\ need') /\ e.on /\ e.id = "apply" -> "ApplyUpdate"
    [] OTHER -> kind

-----------------------------------------------------------------------------
(* The box. A box that waits for an answer is not taken from the user. *)

Taken(m) == m.open /\ m.style # "Progress"

Ask(m, text, target) ==
  IF Taken(m) THEN m
  ELSE [open |-> TRUE, style |-> "Question", text |-> text,
        target |-> target, confirm |-> FALSE]

Inform(m) ==
  IF Taken(m) THEN m
  ELSE [open |-> TRUE, style |-> "Info", text |-> "report",
        target |-> NoWindow, confirm |-> TRUE]

Progress(m) ==
  IF Taken(m) THEN m
  ELSE [open |-> TRUE, style |-> "Progress", text |-> "progress",
        target |-> NoWindow, confirm |-> FALSE]

Dismiss(m) == Closed

FocusNext(m) == IF m.style = "Question" THEN [m EXCEPT !.confirm = ~@] ELSE m

(* refresh_update_modal(): the progress is written in the box, whatever box *)
(* is open.                                                                 *)
RefreshModal ==
  modal' = IF kind = "ApplyRunning" /\ modal.open /\ Working'
           THEN [modal EXCEPT !.text = "progress"] ELSE modal

-----------------------------------------------------------------------------
(* An input of the attached client; what it leaves alone of the service.   *)
Input == attached /\ Wakes /\ UNCHANGED attached

RestOfService ==
  UNCHANGED <<source, remote, disk, binary, backup, stops, file, lock, self, report,
              seen, stale, need>>

NoCommand == UNCHANGED <<work, child, manual, sched, due, want>>

(* request_close(), by [x], by a shortcut, or by the application itself,    *)
(* which render() obeys even behind a dialog.                               *)
RequestClose(w) ==
  /\ Input /\ w \in wins
  /\ IF w \in guarded
     THEN modal' = Ask(modal, "close", w) /\ UNCHANGED <<wins, guarded>>
     ELSE wins' = wins \ {w} /\ UNCHANGED <<guarded, modal>>
  /\ UNCHANGED <<kind, quit>> /\ RestOfService /\ NoCommand

(* An editor is modified or saved, a copy starts or ends. *)
GuardChanges(w) ==
  /\ w \in wins
  /\ guarded' = IF w \in guarded THEN guarded \ {w} ELSE guarded \cup {w}
  /\ UNCHANGED <<updateVars, wins, modal, kind, quit>>

(* The menu: "Fermer la session". *)
MenuQuit ==
  /\ Input /\ ~modal.open
  /\ kind' = "QuitSession" /\ modal' = Ask(modal, "quit", NoWindow)
  /\ UNCHANGED <<wins, guarded, quit>> /\ RestOfService /\ NoCommand

(* run_update_command(). *)
MenuCheck ==
  /\ Input /\ ~modal.open /\ Entry.on
  /\ Run("check")
  /\ UNCHANGED deskVars /\ RestOfService

MenuUpdate ==
  /\ Input /\ ~modal.open /\ Entry.on /\ Entry.id # "check"
  /\ kind' = IF Entry.id = "restart" THEN "RestartForUpdate" ELSE "ApplyUpdate"
  /\ modal' = Ask(modal, Entry.id, NoWindow)
  /\ UNCHANGED <<wins, guarded, quit>> /\ RestOfService /\ NoCommand

Escape ==
  /\ Input /\ modal.open
  /\ modal' = Dismiss(modal)
  /\ UNCHANGED <<wins, guarded, kind, quit>> /\ RestOfService /\ NoCommand

Tab ==
  /\ Input /\ modal.open
  /\ modal' = FocusNext(modal)
  /\ UNCHANGED <<wins, guarded, kind, quit>> /\ RestOfService /\ NoCommand

CloseTarget == wins' = wins \ {modal.target}

(* answer_modal(). *)
Answer(yes) ==
  /\ UNCHANGED guarded /\ RestOfService
  /\ \/ /\ yes /\ kind = "ApplyUpdate"
        /\ Run("apply")
        /\ kind' = "ApplyRunning" /\ modal' = Progress(Dismiss(modal))
        /\ UNCHANGED <<wins, quit>>
     \/ /\ ~(yes /\ kind = "ApplyUpdate")
        /\ quit' = (quit \/ (yes /\ kind = "QuitSession"))
        /\ IF yes /\ kind = "RestartForUpdate" THEN Run("restart") ELSE NoCommand
        /\ IF yes /\ kind \in {"CloseWindow", "ApplyRunning"} THEN CloseTarget
           ELSE UNCHANGED wins
        /\ kind' = "CloseWindow" /\ modal' = Dismiss(modal)

Enter == Input /\ modal.open /\ Answer(modal.confirm)

ClickConfirm == Input /\ modal.open /\ modal.style # "Progress" /\ Answer(TRUE)

ClickCancel == Input /\ modal.open /\ modal.style = "Question" /\ Answer(FALSE)

(* on_child_exit(): the report of a script, once the service has made it.   *)
ReportKind(e) ==
  CASE kind = "ApplyRunning" /\ need' -> "RestartForUpdate"
    [] ~(kind = "ApplyRunning" /\ need') /\ e.on /\ e.id = "apply" -> "ApplyUpdate"
    [] OTHER -> "Information"

OnChildExit ==
  /\ ChildWakes
  /\ kind' = IF report' = "" THEN kind ELSE ReportKind(Entry')
  /\ modal' = CASE report' = "" -> modal
                [] report' # "" /\ kind' = "RestartForUpdate" -> Ask(modal, "restart", NoWindow)
                [] report' # "" /\ kind' = "ApplyUpdate" -> Ask(modal, "apply", NoWindow)
                [] OTHER -> Inform(modal)
  /\ UNCHANGED <<wins, guarded, quit>>

(* The turns of the loop: tick_update() and mark_refresh_due(). *)
Turn ==
  /\ LoopTop \/ Refresh
  /\ RefreshModal
  /\ UNCHANGED <<wins, guarded, kind, quit>>

Others == (TimeoutWakes \/ ClientWakes) /\ UNCHANGED deskVars

World ==
  /\ \/ \E w \in Worker : WorkerStep(w) \/ Aborts(w) \/ WorkerDies(w)
     \/ Push \/ TimePasses
  /\ UNCHANGED deskVars

(* Another daemon, another session. *)
Restart ==
  /\ DaemonRestarts
  /\ wins' = Window /\ guarded' = {} /\ modal' = Closed
  /\ kind' = "CloseWindow" /\ quit' = FALSE

SessionInit ==
  /\ UpdateInit
  /\ wins = Window /\ guarded = {} /\ modal = Closed
  /\ kind = "CloseWindow" /\ quit = FALSE

SessionStep ==
  /\ ~want /\ ~quit
  /\ \/ Turn \/ Others \/ OnChildExit
     \/ \E w \in Window : RequestClose(w) \/ GuardChanges(w)
     \/ MenuQuit \/ MenuCheck \/ MenuUpdate
     \/ Escape \/ Tab \/ Enter \/ ClickConfirm \/ ClickCancel

SessionNext == SessionStep \/ World \/ Restart

SessionSpec == SessionInit /\ [][SessionNext]_sessionVars

-----------------------------------------------------------------------------
(* Type invariant; a closed box keeps nothing of what it was about. *)
SessionTypeOK ==
  /\ wins \subseteq Window /\ guarded \subseteq Window
  /\ modal \in [open : BOOLEAN, style : {"Question", "Info", "Progress"},
                text : Texts, target : Window \cup {NoWindow}, confirm : BOOLEAN]
  /\ ~modal.open => modal = Closed
  /\ kind \in Kinds /\ quit \in BOOLEAN

(* A window that refuses to close is closed only by a yes in the box opened *)
(* about that very window (request_close, answer_modal). The box still says *)
(* so, unless an update is running: refresh_update_modal() then writes the  *)
(* progress over the question, and a yes still closes the window.           *)
GuardedIsAsked ==
  [][\A w \in guarded \cap wins : w \notin wins' =>
       /\ modal.open /\ modal.style = "Question" /\ modal.target = w
       /\ \/ modal.text = "close"
          \/ kind = "ApplyRunning" /\ modal.text = "progress"]_sessionVars

(* While the box asks whether to update or to restart, a yes does that and  *)
(* nothing else: no script that ends meanwhile changes modal_kind_ under    *)
(* the question, for only one that the user has launched reports, and none  *)
(* can be launched while the box is open (run_update_command, on_child_exit,*)
(* UpdateService::entry).                                                   *)
UpdateQuestionHolds ==
  modal.open /\ modal.style = "Question" =>
    /\ modal.text = "apply" => kind = "ApplyUpdate"
    /\ modal.text = "restart" => kind = "RestartForUpdate"

(* The desktop is never thrown away, by a quit or by a restart, from a box  *)
(* that only informs: a report does not inherit what an abandoned question  *)
(* would have done.                                                         *)
InfoIsHarmless ==
  [][(quit' /\ ~quit) \/ (want' /\ ~want) => modal.open /\ modal.style = "Question"]_sessionVars
=============================================================================
