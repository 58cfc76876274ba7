------------------------------- MODULE Files -------------------------------
(***************************************************************************)
(* apps/files/files.{hpp,cpp} and dir.{hpp,cpp}: the file manager.  Two    *)
(* panes look at one disk while one job changes it; every gesture works on *)
(* what a pane last read, which may be long out of date.                   *)
(*                                                                         *)
(* Names are single letters, so a filter matches a name when it is that    *)
(* letter alone.  The window is tall enough for every list, so nothing     *)
(* scrolls; the text of a prompt is chosen when Enter accepts it.          *)
(***************************************************************************)
EXTENDS FileJob

CONSTANTS
  Alphabet,     (* the names of directory entries, in their order          *)
  Hidden,       (* the names that start with a dot                         *)
  Places,       (* places(): where the shortcuts lead                      *)
  MaxGestures,  (* keys and mouse events of the user                       *)
  MaxOutside    (* files removed by other programs                         *)

ASSUME FilesAssumption ==
  /\ Alphabet \in Seq(STRING) /\ Hidden \subseteq ToSet(Alphabet)
  /\ Places \subseteq Seq(STRING)
  /\ MaxGestures \in Nat /\ MaxOutside \in Nat

VARIABLES
  panes,        (* panes_                                                  *)
  active,       (* active_                                                 *)
  split,        (* split_                                                  *)
  show_hidden,  (* show_hidden_                                            *)
  prompt,       (* mode_ and creating_dir_                                 *)
  menu,         (* menu_open_, and whether menu_shown_ offers to stop      *)
  mouse,        (* pressed_, dragging_ and drag_                           *)
  clipboard,    (* clipboard_ and clipboard_cut_                           *)
  report,       (* how the last job ended, as the status line tells it     *)
  attached,     (* a client is attached to the daemon                      *)
  gestures,     (* how many gestures are left                              *)
  outside       (* how many files other programs may still remove          *)

ui == <<panes, active, split, show_hidden, prompt, menu, mouse, clipboard>>
vars == <<ui, report, attached, gestures, outside, fs, job, faults>>

Names == ToSet(Alphabet)

Rank(n) == CHOOSE i \in 1..Len(Alphabet) : Alphabet[i] = n

UpName == ".."

(* The path of the second pane before the first split: an empty string,    *)
(* which names no directory.                                               *)
Nowhere == <<"">>

-----------------------------------------------------------------------------
(* dir.cpp *)

(* read_dir(): the entries of a directory, or none and an error. *)
Entries(disk, p, hidden) ==
  IF ~IsDir(disk, p) THEN {}
  ELSE { [name |-> Last(q), dir |-> IsDir(disk, q), size |-> disk[q].data]
         : q \in {q \in Children(disk, p) : hidden \/ Last(q) \notin Hidden} }
       \cup {[name |-> UpName, dir |-> TRUE, size |-> 0] : x \in {p} \ {<<>>}}

(* The comparison of sort_entries(): the parent, then the directories, then *)
(* the column, then the name.  All dates are equal here.                    *)
Before(e, f, by, desc) ==
  LET flip(less) == IF desc THEN ~less ELSE less
  IN  IF e.name = UpName \/ f.name = UpName THEN e.name = UpName
      ELSE IF e.dir # f.dir THEN e.dir
      ELSE IF by = "Size" /\ e.size # f.size THEN flip(e.size < f.size)
      ELSE IF by = "Name" THEN flip(Rank(e.name) < Rank(f.name))
      ELSE Rank(e.name) < Rank(f.name)

Sorted(es, by, desc) ==
  [i \in 1..Cardinality(es) |->
     CHOOSE e \in es : Cardinality({f \in es \ {e} : Before(f, e, by, desc)}) = i - 1]

(* filter_entries(). *)
Filtered(es, filter) ==
  {e \in es : filter = <<>> \/ e.name = UpName \/ filter = <<e.name>>}

-----------------------------------------------------------------------------
(* The panes.  `sel` counts from 0, as in the code. *)

Pane(p) ==
  [path |-> p, entries |-> {}, visible |-> <<>>, filter |-> <<>>, marked |-> {},
   back |-> <<>>, forward |-> <<>>, sel |-> 0, by |-> "Name", desc |-> FALSE]

Size(pn) == Len(pn.visible)

NameAt(pn, i) == pn.visible[i + 1].name

(* Where a name is in the list, or what to do when it is not there. *)
IndexOf(pn, n, otherwise) ==
  LET at == {i \in 0..Size(pn) - 1 : NameAt(pn, i) = n}
  IN  IF at = {} THEN otherwise ELSE CHOOSE i \in at : TRUE

(* settle_pane(): the selection back into the list. *)
Settle(pn) ==
  [pn EXCEPT !.sel = IF Size(pn) = 0 THEN 0
                     ELSE IF @ >= Size(pn) THEN Size(pn) - 1 ELSE @]

Select(pn, i) == Settle([pn EXCEPT !.sel = i])

(* Where the cursor goes in a new list: to the name it was on, or to the   *)
(* same line; a filter never leaves it on the parent, the first line.      *)
Reselected(pn, list) ==
  LET kept == {i \in DOMAIN list : pn.sel < Size(pn) /\ list[i].name = NameAt(pn, pn.sel)}
      at   == IF kept # {} THEN (CHOOSE i \in kept : TRUE) - 1
              ELSE IF pn.sel < Len(list) THEN pn.sel
              ELSE IF list = <<>> THEN 0 ELSE Len(list) - 1
  IN  IF at = 0 /\ pn.filter # <<>> /\ Len(list) > 1 /\ list[1].name = UpName THEN 1 ELSE at

(* A mutant: the list is made anew and the cursor left where it was. *)
Refilter_Unsettled(pn) ==
  [pn EXCEPT !.visible = Sorted(Filtered(pn.entries, pn.filter), pn.by, pn.desc)]

(* refilter(): the list again, from what was read, and the cursor in it. *)
Refilter(pn) ==
  CHOOSE q \in { [pn EXCEPT !.visible = Sorted(Filtered(pn.entries, pn.filter), pn.by, pn.desc),
                            !.sel = i] : i \in 0..Cardinality(pn.entries) } :
    q.sel = Reselected(pn, q.visible)

(* reload(): both panes, always. *)
Reload(pns, k, disk, hidden) ==
  [i \in 0..1 |->
     LET unmarked == IF i = k THEN [pns[i] EXCEPT !.marked = {}] ELSE pns[i]
     IN  Refilter([unmarked EXCEPT !.entries = Entries(disk, pns[i].path, hidden)])]

(* The loop that follows a rename or a creation: the cursor goes to it. *)
PointAt(pns, k, n) ==
  [pns EXCEPT ![k] = Select(@, IndexOf(@, n, @.sel))]

(* load(): the pane on another directory, its cursor on the child it came  *)
(* from.  The caller has checked that the directory can be read.           *)
Load(pn, disk, p, hidden) ==
  LET fresh == Refilter([pn EXCEPT !.path = p, !.entries = Entries(disk, p, hidden),
                                   !.visible = <<>>, !.filter = <<>>,
                                   !.marked = {}, !.sel = 0])
  IN  IF IsStrictPrefix(p, pn.path)
      THEN Select(fresh, IndexOf(fresh, pn.path[Len(p) + 1], fresh.sel))
      ELSE fresh

(* go_to(), for a directory that may be gone. *)
WentTo(pn, disk, p, hidden) ==
  IF p = pn.path \/ ~IsDir(disk, p) THEN pn
  ELSE [Load(pn, disk, p, hidden) EXCEPT !.back = Append(@, pn.path), !.forward = <<>>]

(* go_back() and go_forward(). *)
WentBack(pn, disk, hidden) ==
  IF pn.back = <<>> \/ ~IsDir(disk, Last(pn.back)) THEN pn
  ELSE [Load(pn, disk, Last(pn.back), hidden) EXCEPT
          !.back = Front(@), !.forward = Append(@, pn.path)]

WentForward(pn, disk, hidden) ==
  IF pn.forward = <<>> \/ ~IsDir(disk, Last(pn.forward)) THEN pn
  ELSE [Load(pn, disk, Last(pn.forward), hidden) EXCEPT
          !.forward = Front(@), !.back = Append(@, pn.path)]

(* activate(): into a directory, or out of it; a file goes to the editor.  *)
Activated(pn, disk, hidden) ==
  IF Size(pn) = 0 \/ ~pn.visible[pn.sel + 1].dir THEN pn
  ELSE IF NameAt(pn, pn.sel) = UpName THEN WentTo(pn, disk, Parent(pn.path), hidden)
  ELSE WentTo(pn, disk, Join(pn.path, NameAt(pn, pn.sel)), hidden)

(* touchable_selection(), as a set of at most one name. *)
Touchable(pn) ==
  IF Size(pn) = 0 THEN {} ELSE {NameAt(pn, pn.sel)} \ {UpName}

(* toggle_mark() and mark_range(). *)
Marked(pn, lo, hi) ==
  [pn EXCEPT !.marked = @ \cup
     ({NameAt(pn, i) : i \in {i \in lo..hi : i < Size(pn)}} \ {UpName})]

Toggled(pn, i) ==
  IF i >= Size(pn) \/ NameAt(pn, i) = UpName THEN pn
  ELSE [pn EXCEPT !.marked = IF NameAt(pn, i) \in @ THEN @ \ {NameAt(pn, i)}
                             ELSE @ \cup {NameAt(pn, i)}]

(* targets(): the marked names in their order, or the selected one. *)
Targets(pn) ==
  LET names == Names \cap (IF pn.marked # {} THEN pn.marked ELSE Touchable(pn))
  IN  [k \in 1..Cardinality(names) |->
         CHOOSE n \in names : Cardinality({m \in names : Rank(m) < Rank(n)}) = k - 1]

TargetPaths(pn) == [i \in 1..Len(Targets(pn)) |-> Join(pn.path, Targets(pn)[i])]

-----------------------------------------------------------------------------
Here == panes[active]

Put(pn) == panes' = [panes EXCEPT ![active] = pn]

(* A change of the disk that is not the job's own. *)
Disturbed == job' = [job EXCEPT !.disturbed = @ \/ job.active]

(* start() begins with cancel(). *)
StartJob(order, dest, kind) ==
  /\ job' = Started(fs, order, dest, kind)
  /\ fs' = Closed(fs, "torn")

(* A mutant: a job replaces the one that is running. *)
Free_Always == TRUE

(* A new job is accepted only when none is running. *)
Free == ~job.active

(* The commands that only change the active pane: Open, Up, Back, Forward,  *)
(* the three sorts and SelectAll.                                           *)
Navigate ==
  /\ \/ Put(Activated(Here, fs, show_hidden))
     \/ Put(WentTo(Here, fs, Parent(Here.path), show_hidden))
     \/ Put(WentBack(Here, fs, show_hidden))
     \/ Put(WentForward(Here, fs, show_hidden))
     \/ \E by \in {"Name", "Size", "Time"} :
          Put(Refilter([Here EXCEPT !.by = by, !.desc = Here.by = by /\ ~@]))
     \/ Put(IF Here.marked = {} THEN Marked(Here, 0, Size(Here))
            ELSE [Here EXCEPT !.marked = {}])
  /\ UNCHANGED <<active, split, show_hidden, prompt, mouse, clipboard, report,
                 fs, job, faults>>

(* NewDir, NewFile, Rename and Delete only ask. *)
Ask ==
  /\ \/ prompt' \in {"NewDir", "NewFile"}
     \/ prompt' = "Renaming" /\ Touchable(Here) # {}
     \/ prompt' = "Confirming" /\ Targets(Here) # <<>>
  /\ UNCHANGED <<panes, active, split, show_hidden, mouse, clipboard, report,
                 fs, job, faults>>

(* take_clipboard(). *)
Take ==
  /\ Targets(Here) # <<>>
  /\ \E cut \in BOOLEAN : clipboard' = [paths |-> TargetPaths(Here), cut |-> cut]
  /\ UNCHANGED <<panes, active, split, show_hidden, prompt, mouse, report,
                 fs, job, faults>>

(* paste_clipboard(): what was cut is pasted once. *)
Paste ==
  /\ Free /\ clipboard.paths # <<>>
  /\ StartJob(clipboard.paths, Here.path, IF clipboard.cut THEN "Move" ELSE "Copy")
  /\ clipboard' = IF clipboard.cut THEN [clipboard EXCEPT !.paths = <<>>] ELSE clipboard
  /\ UNCHANGED <<panes, active, split, show_hidden, prompt, mouse, report, faults>>

(* Split: the second pane starts where the first is; closing it keeps the  *)
(* one that was used.                                                      *)
Split ==
  /\ split' = ~split
  /\ active' = IF split THEN 0 ELSE active
  /\ panes' = IF split THEN [panes EXCEPT ![0] = Here]
              ELSE [panes EXCEPT ![1] = [panes[0] EXCEPT !.marked = {}]]
  /\ UNCHANGED <<show_hidden, prompt, mouse, clipboard, report, fs, job, faults>>

ShowHidden ==
  /\ show_hidden' = ~show_hidden
  /\ panes' = Reload(panes, active, fs, show_hidden')
  /\ UNCHANGED <<active, split, prompt, mouse, clipboard, report, fs, job, faults>>

(* stop_job(). *)
StopJob ==
  /\ job.active
  /\ LET s == Cancelled([fs |-> fs, job |-> job])
     IN  fs' = s.fs /\ job' = s.job
  /\ panes' = Reload(panes, active, fs', show_hidden)
  /\ report' = "stopped"
  /\ UNCHANGED <<active, split, show_hidden, prompt, mouse, clipboard, faults>>

Command == Navigate \/ Ask \/ Take \/ Paste \/ Split \/ ShowHidden

-----------------------------------------------------------------------------
(* on_key() *)

Gesture ==
  /\ attached /\ gestures > 0 /\ gestures' = gestures - 1
  /\ UNCHANGED <<attached, outside>>

(* The keys that only move the cursor, mark, filter or change pane. *)
Move ==
  /\ \/ /\ \E i \in {0, Size(Here) - 1} : Put(Select(Here, i))
        /\ active' = active
     \/ /\ \E i \in {Here.sel - 1, Here.sel + 1} \cap (0..Size(Here) - 1), shift \in BOOLEAN :
            Put(IF shift THEN Marked(Marked(Select(Here, i), i, i), Here.sel, Here.sel)
                ELSE Select(Here, i))
        /\ active' = active
     \/ /\ Here.filter = <<>>
        /\ Put(LET pn == Toggled(Here, Here.sel)
               IN  Settle([pn EXCEPT !.sel = IF @ + 1 < Size(pn) THEN @ + 1 ELSE @]))
        /\ active' = active
     \/ /\ \E n \in Names : Put(Refilter([Here EXCEPT !.filter = Append(@, n)]))
        /\ active' = active
     \/ /\ Here.filter # <<>>
        /\ Put(Refilter([Here EXCEPT !.filter = Front(@)]))
        /\ active' = active
     \/ split /\ active' = 1 - active /\ panes' = panes
  /\ UNCHANGED <<split, show_hidden, prompt, mouse, clipboard, report, fs, job, faults>>

(* Escape, when no job runs: the filter first, then the marks. *)
Escape ==
  /\ ~job.active
  /\ Put(IF Here.filter # <<>> THEN Refilter([Here EXCEPT !.filter = <<>>])
         ELSE [Here EXCEPT !.marked = {}])
  /\ UNCHANGED <<active, split, show_hidden, prompt, mouse, clipboard, report,
                 fs, job, faults>>

Key ==
  /\ Gesture /\ ~menu.open /\ prompt = "Normal"
  /\ Command \/ StopJob \/ Move \/ Escape
  /\ UNCHANGED menu

(* Escape in a prompt, Enter on an empty text, any key but `o` to delete. *)
Decline ==
  /\ Gesture /\ ~menu.open /\ prompt # "Normal"
  /\ prompt' = "Normal"
  /\ UNCHANGED <<panes, active, split, show_hidden, menu, mouse, clipboard, report,
                 fs, job, faults>>

(* rename() of anything, to a name that is free, in the same directory. *)
MovedTree(disk, from, to) ==
  LET moved == {to \o SubSeq(q, Len(from) + 1, Len(q)) : q \in Below(disk, from)}
  IN  [q \in (DOMAIN disk \ Below(disk, from)) \cup moved |->
         IF q \in moved THEN disk[from \o SubSeq(q, Len(to) + 1, Len(q))] ELSE disk[q]]

(* commit_rename(): the name is the one under the cursor now, and it must  *)
(* still be there.                                                         *)
CommitRename ==
  /\ Gesture /\ ~menu.open /\ prompt = "Renaming"
  /\ prompt' = "Normal"
  /\ \E n \in Names, from \in Touchable(Here) :
       LET src == Join(Here.path, from)
           dst == Join(Here.path, n)
       IN  /\ src \in DOMAIN fs /\ src # MountPoint /\ dst \notin DOMAIN fs
           /\ fs' = MovedTree(fs, src, dst)
           /\ panes' = PointAt(Reload(panes, active, fs', show_hidden), active, n)
  /\ Disturbed
  /\ UNCHANGED <<active, split, show_hidden, menu, mouse, clipboard, report, faults>>

(* commit_create(). *)
CommitCreate ==
  /\ Gesture /\ ~menu.open /\ prompt \in {"NewDir", "NewFile"}
  /\ prompt' = "Normal"
  /\ \E n \in Names :
       /\ CanCreate(fs, Join(Here.path, n))
       /\ fs' = With(fs, Join(Here.path, n),
                     IF prompt = "NewDir" THEN Dir ELSE File(0, "whole"))
       /\ panes' = PointAt(Reload(panes, active, fs', show_hidden), active, n)
  /\ Disturbed
  /\ UNCHANGED <<active, split, show_hidden, menu, mouse, clipboard, report, faults>>

(* commit_delete(). *)
CommitDelete ==
  /\ Gesture /\ ~menu.open /\ prompt = "Confirming"
  /\ prompt' = "Normal"
  /\ IF Free /\ Targets(Here) # <<>>
     THEN StartJob(TargetPaths(Here), <<>>, "Delete") ELSE UNCHANGED <<fs, job>>
  /\ UNCHANGED <<panes, active, split, show_hidden, menu, mouse, clipboard, report,
                 faults>>

-----------------------------------------------------------------------------
(* on_mouse().  In a split window every event first makes the pane under   *)
(* the pointer the active one; no event looks at the prompt.               *)

Under(k) == k = active \/ split

NoDrag == [pressed |-> FALSE, dragging |-> FALSE, drag |-> <<>>]

(* A press on a line: with Ctrl, with Shift, or alone, which selects or,   *)
(* on the selection, opens.                                                *)
Press(k, hit) ==
  LET pn == panes[k]
      put(x) == panes' = [panes EXCEPT ![k] = x]
  IN  /\ Gesture /\ ~menu.open /\ Under(k)
      /\ active' = k
      /\ \/ put(Select(Toggled(pn, hit), hit)) /\ UNCHANGED mouse
         \/ /\ put(Select(Marked(pn, Min({pn.sel, hit}), Max({pn.sel, hit})), hit))
            /\ UNCHANGED mouse
         \/ /\ put(IF hit = pn.sel THEN Activated(pn, fs, show_hidden) ELSE Select(pn, hit))
            /\ mouse' = [mouse EXCEPT !.pressed = TRUE]
      /\ UNCHANGED <<split, show_hidden, prompt, menu, clipboard, report, fs, job, faults>>

(* The right button, on a line or below the list: open_menu(), with an     *)
(* entry to stop the job that runs now.                                    *)
OpenMenu(k, hit) ==
  /\ Gesture /\ ~menu.open /\ Under(k)
  /\ active' = k
  /\ panes' = IF hit < Size(panes[k]) THEN [panes EXCEPT ![k] = Select(@, hit)] ELSE panes
  /\ menu' = [open |-> TRUE, stop |-> job.active]
  /\ UNCHANGED <<split, show_hidden, prompt, mouse, clipboard, report, fs, job, faults>>

(* A press on the path, on a shortcut or on a column header, or the wheel. *)
PressBar(k) ==
  LET pn == panes[k]
      last == IF Size(pn) = 0 THEN 0 ELSE Size(pn) - 1
  IN  /\ Gesture /\ ~menu.open /\ Under(k)
      /\ active' = k
      /\ \E x \in { WentTo(pn, fs, SubSeq(pn.path, 1, n), show_hidden) : n \in 0..Len(pn.path) }
              \cup { Refilter([pn EXCEPT !.by = by, !.desc = pn.by = by /\ ~@])
                     : by \in {"Name", "Size", "Time"} }
              \cup { Select(pn, IF pn.sel > 3 THEN pn.sel - 3 ELSE 0),
                     Select(pn, Min({pn.sel + 3, last})) } :
            panes' = [panes EXCEPT ![k] = x]
      /\ UNCHANGED <<split, show_hidden, prompt, menu, mouse, clipboard, report,
                     fs, job, faults>>

ClickPlace ==
  /\ Gesture /\ ~menu.open
  /\ \E p \in Places : Put(WentTo(Here, fs, p, show_hidden))
  /\ UNCHANGED <<active, split, show_hidden, prompt, menu, mouse, clipboard, report,
                 fs, job, faults>>

(* A motion with the button down starts a drag of the targets of the pane  *)
(* under the pointer.                                                      *)
Motion(k) ==
  /\ Gesture /\ ~menu.open /\ Under(k)
  /\ active' = k
  /\ mouse' = IF mouse.pressed /\ ~mouse.dragging
              THEN [mouse EXCEPT !.dragging = Targets(panes[k]) # <<>>,
                                 !.drag = TargetPaths(panes[k])]
              ELSE mouse
  /\ UNCHANGED <<panes, split, show_hidden, prompt, menu, clipboard, report,
                 fs, job, faults>>

(* drop_target() for a release on line `hit`, or below the list; Nowhere   *)
(* when the drop leads nowhere.                                            *)
DropTarget(pn, hit, sources) ==
  IF hit < Size(pn) /\ pn.visible[hit + 1].dir
  THEN IF NameAt(pn, hit) = UpName THEN Parent(pn.path)
       ELSE IF Join(pn.path, NameAt(pn, hit)) \in sources THEN Nowhere
       ELSE Join(pn.path, NameAt(pn, hit))
  ELSE IF \E s \in sources : Parent(s) = pn.path THEN Nowhere
  ELSE pn.path

(* The release ends the drag; a drop that leads somewhere is a move. *)
Release(k, hit) ==
  LET dest == DropTarget(panes[k], hit, ToSet(mouse.drag))
  IN  /\ Gesture /\ ~menu.open /\ Under(k)
      /\ mouse.pressed \/ mouse.dragging
      /\ active' = k
      /\ mouse' = NoDrag
      /\ IF mouse.dragging /\ mouse.drag # <<>> /\ dest # Nowhere /\ Free
         THEN StartJob(mouse.drag, dest, "Move") ELSE UNCHANGED <<fs, job>>
      /\ UNCHANGED <<panes, split, show_hidden, prompt, menu, clipboard, report,
                     faults>>

(* run_menu(): the entry was shown when the menu opened. *)
MenuClick ==
  /\ Gesture /\ menu.open
  /\ menu' = [menu EXCEPT !.open = FALSE]
  /\ Command \/ (menu.stop /\ StopJob)

(* Escape, or a press beside the menu. *)
MenuClose ==
  /\ Gesture /\ menu.open
  /\ menu' = [menu EXCEPT !.open = FALSE]
  /\ UNCHANGED <<panes, active, split, show_hidden, prompt, mouse, clipboard, report,
                 fs, job, faults>>

-----------------------------------------------------------------------------
(* on_refresh(): one step of the job.  The daemon asks the session when to  *)
(* refresh only while a client is attached.                                 *)
JobStep ==
  /\ attached /\ job.active /\ HasWork
  /\ \E s \in StepResults([fs |-> fs, job |-> job, faults |-> faults]) :
       fs' = s.fs /\ job' = s.job /\ faults' = s.faults
  /\ UNCHANGED <<ui, report, attached, gestures, outside>>

(* on_refresh(), when step() has nothing left: both directories are read   *)
(* again, but only the list of the active pane is made anew.               *)
JobEnd ==
  /\ attached /\ job.active /\ ~HasWork
  /\ \E read \in {[i \in 0..1 |-> [panes[i] EXCEPT !.entries =
                     IF IsDir(fs, panes[i].path) THEN Entries(fs, panes[i].path, show_hidden)
                     ELSE @]]} :
       panes' = [read EXCEPT ![active] = Refilter(@)]
  /\ report' = IF job.failed THEN "failed" ELSE "done"
  /\ job' = NoJob
  /\ UNCHANGED <<active, split, show_hidden, prompt, menu, mouse, clipboard,
                 attached, gestures, outside, fs, faults>>

(* Another program removes a file the job is not writing to, while a job   *)
(* runs or a question is open: at other times the next gesture simply      *)
(* finds another disk.                                                     *)
Outside ==
  /\ job.active \/ prompt # "Normal"
  /\ outside > 0 /\ outside' = outside - 1
  /\ \E p \in DOMAIN fs : IsFile(fs, p) /\ fs[p].state # "open" /\ fs' = Without(fs, {p})
  /\ Disturbed
  /\ UNCHANGED <<ui, report, attached, gestures, faults>>

(* The client leaves, or another one comes: nothing of the file manager     *)
(* changes, but a job stands still while nobody is there.                   *)
ClientChanges ==
  /\ job.active /\ attached' = ~attached
  /\ UNCHANGED <<ui, report, gestures, outside, fs, job, faults>>

Init ==
  /\ fs = InitialDisk /\ job = NoJob /\ faults = MaxFaults
  /\ panes = Reload([i \in 0..1 |-> Pane(IF i = 0 THEN <<>> ELSE Nowhere)], 0, fs, FALSE)
  /\ active = 0 /\ split = FALSE /\ show_hidden = FALSE
  /\ prompt = "Normal" /\ menu = [open |-> FALSE, stop |-> FALSE]
  /\ mouse = NoDrag /\ clipboard = [paths |-> <<>>, cut |-> FALSE]
  /\ report = "none" /\ attached = TRUE /\ gestures = MaxGestures /\ outside = MaxOutside

Mouse ==
  \E k \in 0..1 :
    \/ \E hit \in 0..Size(panes[k]) - 1 : Press(k, hit)
    \/ \E hit \in 0..Size(panes[k]) : Release(k, hit) \/ OpenMenu(k, hit)
    \/ PressBar(k) \/ Motion(k)

Next ==
  \/ Key \/ Decline \/ CommitRename \/ CommitCreate \/ CommitDelete
  \/ Mouse \/ ClickPlace \/ MenuClick \/ MenuClose
  \/ JobStep \/ JobEnd \/ Outside \/ ClientChanges

(* While a client is attached the loop goes on refreshing: on_refresh() is  *)
(* one of these two.                                                        *)
Spec == Init /\ [][Next]_vars /\ WF_vars(JobStep \/ JobEnd)

-----------------------------------------------------------------------------
(* Properties *)

(* touchable_selection(), activate() and the drawing index visible[sel]    *)
(* without a check: whenever a pane shows a line, its selection is one of  *)
(* them, however the disk changed and whoever refiltered.                  *)
SelInRange ==
  \A k \in 0..1 : Size(panes[k]) > 0 => panes[k].sel < Size(panes[k])

(* What the whole files of the disk hold, empty files apart. *)
Holds(disk) == {disk[p].data : p \in {p \in DOMAIN disk : disk[p].state = "whole"}} \ {0}

(* What a step of the job may drop: rename() replaces what has the target's *)
(* name; the unlink() that ends a move, and the one that follows a failure, *)
(* go by name, and drop whatever lies there by then that is neither the     *)
(* source nor the copy.                                                     *)
InTheWay ==
  LET at(p) == {fs[q].data : q \in {q \in {p} : IsFile(fs, q) /\ fs[q].state # "open"}}
      cur   == job.cur
  IN  IF Copying(job)
      THEN at(cur.to) \cup
           (IF job.kind = "Move" THEN at(cur.from) \ {c \in {cur.data} : cur.whole} ELSE {})
      ELSE IF job.kind = "Move" THEN at(Last(job.pending).to) ELSE {}

(* Nothing is lost.  The last whole file with some contents disappears     *)
(* only because the user confirmed a deletion, because another program     *)
(* removed it, or because it lay where a job puts or removes a file; never *)
(* because a rename, a copy, a failed or an interrupted move let go of it. *)
NothingLost ==
  [][ \A c \in Holds(fs) \ Holds(fs') :
        \/ outside' # outside
        \/ job.active /\ job.kind = "Delete"
        \/ job.active /\ c \in InTheWay ]_vars

(* A job ends, says that all went well, and nobody else touched the disk.   *)
(* Nothing is said of a move whose targets are other sources of it: what it *)
(* puts in place first it then takes away again.                            *)
EndsWell ==
  /\ job.active /\ ~job'.active /\ report' = "done" /\ ~job.disturbed
  /\ job.kind = "Move" => \A x, y \in job.promise : x = y \/ x.to # y.from

Arrived(x) == x.to \in DOMAIN fs' /\ fs'[x.to] = x.node

(* A job that ends without reporting a failure has done what was asked:     *)
(* every file and directory under its sources has arrived as it was, or is  *)
(* gone.  Two things are excepted because the code does not do them:        *)
(* directories whose mkdir() took another name for its own (it answers      *)
(* EEXIST for one pasted where it was cut, and for a file of its name; an   *)
(* empty one is then removed by rmdir()), and a move that could not remove  *)
(* a source it has copied, which does not report it (faults = MaxFaults).   *)
SuccessIsTrue ==
  [][ EndsWell =>
        \A x \in job.promise :
          /\ job.kind # "Delete" => x.mistaken \/ Arrived(x)
          /\ job.kind # "Copy" /\ faults = MaxFaults =>
               x.from \notin DOMAIN fs' \/ (job.kind = "Move" /\ x.from = x.to) ]_vars

Halves(disk) == Cardinality({p \in DOMAIN disk : disk[p].state = "torn"})

(* A half-written file looks like a file.  One more of them appears only   *)
(* when the user stops the job, when a half-written file is copied, or     *)
(* when somebody moved the copy away before it failed.                     *)
HalfFileExplained ==
  [][ Halves(fs') > Halves(fs) =>
        \/ report' = "stopped" /\ ~job'.active
        \/ job.active /\ ~Copying(job) /\ IsFile(fs, Last(job.pending).from)
             /\ fs[Last(job.pending).from].state = "torn"
        \/ job.active /\ Copying(job) /\ ~job.cur.whole
        \/ job.active /\ Copying(job)
             /\ ~(IsFile(fs, job.cur.to) /\ fs[job.cur.to].state = "open") ]_vars

(* A job ends, whatever it is given, a directory copied into itself too, if *)
(* some client stays: a detached daemon steps no job (daemon.cpp).          *)
JobEnds == <>[]attached => (job.active ~> ~job.active)
=============================================================================
