------------------------------ MODULE Terminal ------------------------------
(***************************************************************************)
(* apps/terminal.{hpp,cpp}, pty/pty.cpp, daemon/host.cpp, daemon/reap.cpp  *)
(* and the parts of daemon.cpp and session.cpp that feed them: the windows *)
(* that run shells.  One shell per tab, one descriptor and one process per *)
(* shell; events of a batch are handled one after the other, and between   *)
(* two of them the user opens and closes tabs and windows.  The kernel     *)
(* gives a closed descriptor, or a reaped process, away again.             *)
(*                                                                         *)
(* What a shell prints is left out, except that it may switch mode 2004,   *)
(* the bracketed paste.                                                    *)
(***************************************************************************)
EXTENDS Integers, Sequences, FiniteSets, SequencesExt

CONSTANTS
  Windows,      (* the window identifiers, 1..n, never used twice          *)
  Pids,         (* the process identifiers; the lowest free one is given   *)
                (* out, so that they come back as soon as they can         *)
  MaxTabs,      (* tabs in a window                                        *)
  MaxShells,    (* shells started in all                                   *)
  MaxPrints,    (* how often a shell prints something                      *)
  MaxGestures   (* what the user does, besides opening the windows         *)

ASSUME TerminalAssumption ==
  /\ Windows \subseteq Nat \ {0} /\ IsFiniteSet(Windows)
  /\ Pids \subseteq Nat \ {0} /\ IsFiniteSet(Pids)
  /\ {MaxTabs, MaxShells, MaxPrints, MaxGestures} \subseteq Nat

VARIABLES
  term,      (* the terminal of each window                                *)
  procs,     (* the shells the kernel knows: alive, killed, or zombies     *)
  epoll,     (* the interest list: which key is reported for a descriptor  *)
  children,  (* children_: whose window is told of a death                 *)
  sigchld,   (* a SIGCHLD waits in the signalfd                            *)
  batch,     (* the events of this turn that are still to be handled       *)
  reaping,   (* reap_children() is in its loop                             *)
  shells,    (* shells started so far; also the next generation            *)
  prints,    (* how often a shell may still print                          *)
  gestures   (* how much the user may still do                             *)

vars == <<term, procs, epoll, children, sigchld, batch, reaping, shells, prints, gestures>>

NoFd == 0

(* make_key(0, kGenSignal): window 0 is the daemon itself. *)
Signal == [win |-> 0, gen |-> 0]

(* An unopened tab: `serial` is the generation of its token. `brackets` is  *)
(* history: what the shell has seen of the marks around a paste.            *)
NoTab ==
  [serial |-> 0, fd |-> NoFd, pid |-> 0, exited |-> FALSE,
   bracketed_paste |-> FALSE, brackets |-> "closed"]

(* A Terminal and its HostImpl.  `asked` is whether the question of        *)
(* can_close() is on the screen; `strayed` is history: the user or the     *)
(* shell went away in the middle of a paste, or one of its marks was lost. *)
NoTerminal ==
  [state |-> "unborn", tabs |-> <<>>, closing |-> <<>>, active |-> 1,
   mode |-> "Normal", pasting |-> FALSE, paste_bracketed |-> FALSE,
   watched |-> {}, asked |-> FALSE, strayed |-> FALSE]

Open(w) == term[w].state = "open"

TabsOf(w) == ToSet(term[w].tabs)

ActiveTab(w) == term[w].tabs[term[w].active]

Fds == 1..MaxShells

OpenFds == {t.fd : t \in UNION {TabsOf(w) : w \in Windows}}

FreeFd == CHOOSE fd \in Fds \ OpenFds : \A x \in Fds \ OpenFds : fd <= x

Zombies == {p \in DOMAIN procs : procs[p].state = "zombie"}

(* The shell a tab started is still there. *)
Lives(t) ==
  t.pid \in DOMAIN procs /\ procs[t.pid] = [state |-> "alive", owner |-> t.serial]

-----------------------------------------------------------------------------
(* The mutants of the definitions below: slips that would compile. *)

(* Only the tab one is looking at is asked. *)
CanClose_ActiveOnly(w) == ActiveTab(w).exited \/ ActiveTab(w).pid = 0

(* The descriptor leaves epoll, and stays in watched_. *)
Unwatch_KeepsEntry(x, serial) == x

(* One death per SIGCHLD. *)
ReapsAgain_Never == FALSE

(* The mode of the moment decides whether the paste is closed. *)
ClosesBracket_ByMode(x, t) == t.bracketed_paste

-----------------------------------------------------------------------------
(* Pty::spawn(), HostImpl::watch() and watch_child(): a new tab of window   *)
(* w, with the process identifier p.                                        *)
NewTab(p) == [NoTab EXCEPT !.serial = shells + 1, !.fd = FreeFd, !.pid = p]

Spawned(w, p) ==
  /\ p \in Pids \ DOMAIN procs
  /\ \A q \in Pids \ DOMAIN procs : p <= q
  /\ shells < MaxShells
  /\ shells' = shells + 1
  /\ procs' = [q \in DOMAIN procs \cup {p} |->
                 IF q = p THEN [state |-> "alive", owner |-> shells + 1] ELSE procs[q]]
  /\ epoll' = [f \in DOMAIN epoll \cup {FreeFd} |->
                 IF f = FreeFd THEN [win |-> w, gen |-> shells + 1] ELSE epoll[f]]
  /\ children' = Append(children, [pid |-> p, win |-> w])

Watch(x, p) ==
  [x EXCEPT !.tabs = Append(@, NewTab(p)),
            !.watched = @ \cup {[gen |-> shells + 1, fd |-> FreeFd]}]

(* HostImpl::unwatch(). *)
Unwatch(x, serial) == [x EXCEPT !.watched = {e \in @ : e.gen # serial}]

(* kill(-pid, ...), to whatever process has that number now. *)
Kill(table, ts) ==
  [p \in DOMAIN table |->
     IF table[p].state = "alive" /\ \E t \in ts : t.pid = p /\ ~t.exited
     THEN [table[p] EXCEPT !.state = "killed"] ELSE table[p]]

(* close() also takes the descriptors out of epoll. *)
Forgotten(list, fds) == [f \in DOMAIN list \ fds |-> list[f]]

(* can_close(). *)
CanClose(w) == \A t \in TabsOf(w) : t.exited \/ t.pid = 0

(* Session::close_window(): the descriptors first, then the children, then *)
(* the application, whose destructor shuts every shell down.               *)
CloseWindow(w) ==
  LET x == term[w]
  IN  /\ term' = [term EXCEPT ![w] = [NoTerminal EXCEPT !.state = "gone"]]
      /\ epoll' = Forgotten(epoll, {e.fd : e \in x.watched} \cup {t.fd : t \in TabsOf(w)})
      /\ children' = SelectSeq(children, LAMBDA c : c.win # w)
      /\ procs' = Kill(procs, TabsOf(w) \cup ToSet(x.closing))

(* Session::request_close(). *)
RequestClose(w, x) ==
  IF CanClose(w)
  THEN CloseWindow(w)
  ELSE /\ term' = [term EXCEPT ![w] = [x EXCEPT !.asked = TRUE]]
       /\ UNCHANGED <<epoll, children, procs>>

(* commit_rename() and commit_path_edit(), which every press begins with. *)
Committed(x) == [x EXCEPT !.mode = "Normal"]

(* Anything that takes the rest of a paste elsewhere. *)
Stray(x) == [x EXCEPT !.strayed = @ \/ x.pasting]

-----------------------------------------------------------------------------
Gesture ==
  /\ gestures > 0 /\ ~reaping
  /\ gestures' = gestures - 1
  /\ UNCHANGED <<sigchld, batch, reaping, prints>>

(* attach(): the first tab stays even if its shell did not start. *)
OpenWindow(w) ==
  /\ ~reaping
  /\ term[w].state = "unborn"
  /\ \A v \in Windows : v < w => term[v].state # "unborn"
  /\ LET x == [NoTerminal EXCEPT !.state = "open"]
     IN  \/ \E p \in Pids : Spawned(w, p) /\ term' = [term EXCEPT ![w] = Watch(x, p)]
         \/ /\ term' = [term EXCEPT ![w] = [x EXCEPT !.tabs = <<NoTab>>]]
            /\ UNCHANGED <<procs, epoll, children, shells>>
  /\ UNCHANGED <<sigchld, batch, reaping, prints, gestures>>

(* open_tab(), by Alt+t or by the bar; a shell that does not start leaves  *)
(* everything as it was.                                                   *)
OpenTab(w) ==
  /\ Gesture /\ Open(w)
  /\ Len(term[w].tabs) < MaxTabs
  /\ \E p \in Pids :
       /\ Spawned(w, p)
       /\ term' = [term EXCEPT ![w] =
                     [Stray(Committed(Watch(@, p))) EXCEPT !.active = Len(term[w].tabs) + 1]]

(* select_tab() and cycle_tab(). *)
SelectTab(w) ==
  /\ Gesture /\ Open(w)
  /\ \E i \in 1..Len(term[w].tabs) \ {term[w].active} :
       term' = [term EXCEPT ![w] = [Stray(Committed(@)) EXCEPT !.active = i]]
  /\ UNCHANGED <<procs, epoll, children, shells>>

(* close_tab(): unwatch, hang up, close, kill; the tab waits in closing_   *)
(* unless its shell can be reaped at once.                                 *)
CloseTab(w, i) ==
  LET x    == Stray(Committed(term[w]))
      t    == x.tabs[i]
      rest == RemoveAt(x.tabs, i)
      left == [Unwatch(x, t.serial) EXCEPT
                 !.tabs = rest, !.active = IF @ > Len(rest) THEN Len(rest) ELSE @]
      dead == Kill(procs, {t})
  IN  /\ Gesture /\ Open(w)
      /\ IF Len(x.tabs) = 1 THEN RequestClose(w, x)
         ELSE /\ epoll' = Forgotten(epoll, {t.fd})
              /\ children' = children
              /\ \/ /\ t.pid \in DOMAIN dead /\ ~t.exited /\ dead[t.pid].state # "alive"
                    /\ procs' = [p \in DOMAIN dead \ {t.pid} |-> dead[p]]
                    /\ term' = [term EXCEPT ![w] = left]
                 \/ /\ procs' = dead
                    /\ term' = [term EXCEPT ![w] =
                         IF t.pid > 0 /\ ~t.exited
                         THEN [left EXCEPT !.closing = Append(@, t)] ELSE left]
      /\ shells' = shells

(* begin_rename() and begin_path_edit(); Enter, Escape and a press end it. *)
Edit(w) ==
  /\ Gesture /\ Open(w)
  /\ \/ /\ term[w].mode = "Normal"
        /\ term' = [term EXCEPT ![w] = [Stray(@) EXCEPT !.mode = "Editing"]]
     \/ term[w].mode # "Normal" /\ term' = [term EXCEPT ![w] = Committed(@)]
  /\ UNCHANGED <<procs, epoll, children, shells>>

(* A key or a press once the shell is known to have exited. *)
Dismiss(w) ==
  /\ Gesture /\ Open(w) /\ ActiveTab(w).exited
  /\ RequestClose(w, Committed(term[w]))
  /\ shells' = shells

(* The window's own cross, and the answer to the question. *)
CloseAsked(w) ==
  /\ Gesture /\ Open(w) /\ ~term[w].asked
  /\ RequestClose(w, term[w])
  /\ shells' = shells

Answer(w) ==
  /\ Gesture /\ Open(w) /\ term[w].asked
  /\ \/ CloseWindow(w)
     \/ term' = [term EXCEPT ![w].asked = FALSE] /\ UNCHANGED <<epoll, children, procs>>
  /\ shells' = shells

(* What the shell makes of the marks around the pasted text. *)
Opened(b) == IF b = "closed" THEN "open" ELSE "wrong"
Shut(b)   == IF b = "open" THEN "closed" ELSE "wrong"

(* Whether the mark that ends the paste is sent. *)
ClosesBracket(x, t) == x.paste_bracketed

(* What the shell has seen when a slice lost one of its marks or both.     *)
Cut(b, opens, closes) == IF opens /\ closes THEN {b, Opened(b), Shut(b)} ELSE {b}

(* on_paste(): one slice of a paste, the last one when it is complete.     *)
(* to_guest() is one write() on a master that does not block, and nobody   *)
(* looks at what it answers: while the shell does not read and the queue   *)
(* of the tty is full, a mark is lost.                                     *)
Paste(w, complete) ==
  LET x == term[w]
      t == ActiveTab(w)
      y == IF x.pasting THEN x
           ELSE [x EXCEPT !.paste_bracketed = t.bracketed_paste,
                          !.tabs[x.active].brackets =
                            IF t.bracketed_paste THEN Opened(@) ELSE @]
      opens  == ~x.pasting /\ t.bracketed_paste
      closes == complete /\ ClosesBracket(y, t)
      put(z) == term' = [term EXCEPT ![w] = z]
  IN  /\ Gesture /\ Open(w)
      /\ IF x.mode # "Normal" THEN UNCHANGED term
         ELSE IF t.exited THEN put(Stray(x))
         ELSE \/ put([y EXCEPT !.pasting = ~complete,
                               !.tabs[x.active].brackets = IF closes THEN Shut(@) ELSE @])
              \/ /\ opens \/ closes
                 /\ \E b \in Cut(t.brackets, opens, closes) :
                      put([x EXCEPT !.paste_bracketed = y.paste_bracketed,
                                    !.pasting = ~complete, !.strayed = TRUE,
                                    !.tabs[x.active].brackets = b])
      /\ UNCHANGED <<procs, epoll, children, shells>>

-----------------------------------------------------------------------------
(* The event loop and the kernel. *)

(* A shell ends, by itself or because it was killed. *)
ShellDies(p) ==
  /\ p \in DOMAIN procs /\ procs[p].state # "zombie"
  /\ procs' = [procs EXCEPT ![p].state = "zombie"]
  /\ sigchld' = TRUE
  /\ UNCHANGED <<term, epoll, children, batch, reaping, shells, prints, gestures>>

(* epoll_wait(): the signal if there is one, and the shells that printed,  *)
(* in the kernel's order.                                                  *)
EpollWait ==
  /\ batch = <<>> /\ ~reaping
  /\ \E keys \in SUBSET {epoll[f] : f \in DOMAIN epoll} :
       /\ keys # {} \/ sigchld
       /\ Cardinality(keys) <= prints
       /\ prints' = prints - Cardinality(keys)
       /\ batch' \in SetToSeqs(IF sigchld THEN keys \cup {Signal} ELSE keys)
  /\ UNCHANGED <<term, procs, epoll, children, sigchld, reaping, shells, gestures>>

(* Session::on_fd_event(), HostImpl::deliver() and Terminal::on_io(): the  *)
(* key finds its window, its host and its tab, or nobody.  What was read   *)
(* may have switched mode 2004.                                            *)
HandleIo ==
  /\ batch # <<>> /\ Head(batch) # Signal /\ ~reaping
  /\ batch' = Tail(batch)
  /\ LET key == Head(batch)
         x   == term[key.win]
         at  == {i \in DOMAIN x.tabs :
                   x.tabs[i].serial = key.gen /\ \E e \in x.watched : e.gen = key.gen}
     IN  IF ~Open(key.win) \/ at = {} THEN UNCHANGED term
         ELSE \E i \in at, on \in BOOLEAN :
                term' = [term EXCEPT ![key.win].tabs[i].bracketed_paste = on]
  /\ UNCHANGED <<procs, epoll, children, sigchld, reaping, shells, prints, gestures>>

(* The signalfd is drained: one notice may stand for several deaths. *)
HandleSignal ==
  /\ batch # <<>> /\ Head(batch) = Signal /\ ~reaping
  /\ batch' = Tail(batch)
  /\ sigchld' = FALSE
  /\ reaping' = TRUE
  /\ UNCHANGED <<term, procs, epoll, children, shells, prints, gestures>>

(* Terminal::on_child_exit(): every tab tries to reap its own shell, by    *)
(* its number, and so do the closed ones after them, which are gone when   *)
(* they succeed.                                                           *)
Reaped(ts, zs) ==
  LET got(i) == /\ ts[i].pid \in zs /\ ~ts[i].exited
                /\ \A j \in 1..(i - 1) : ts[j].pid = ts[i].pid => ts[j].exited
  IN  [i \in DOMAIN ts |-> [ts[i] EXCEPT !.exited = @ \/ got(i)]]

TriedToReap(x, zs) ==
  LET taken == {t.pid : t \in {t \in ToSet(x.tabs) : ~t.exited}}
  IN  [x EXCEPT !.tabs = Reaped(@, zs),
                !.closing = SelectSeq(Reaped(@, zs \ taken), LAMBDA t : ~t.exited)]

(* reap_children() goes on until waitpid() has nothing more. *)
ReapsAgain == TRUE

(* One turn of its loop: any zombie is taken, and Session::on_child_exit() *)
(* tells the window that the first note about that number names.           *)
ReapOne ==
  /\ reaping
  /\ \E p \in Zombies :
       LET notes == {i \in DOMAIN children : children[i].pid = p}
           first == CHOOSE i \in notes : \A j \in notes : i <= j
           told  == notes # {} /\ Open(children[first].win)
           w     == children[first].win
           mine  == {t.pid : t \in {t \in ToSet(term[w].tabs \o term[w].closing) : ~t.exited}}
           rest  == IF told THEN Zombies \ (mine \cup {p}) ELSE Zombies \ {p}
       IN  /\ children' = IF notes = {} THEN children ELSE RemoveAt(children, first)
           /\ procs' = [q \in {q \in DOMAIN procs : q \in Zombies => q \in rest} |-> procs[q]]
           /\ IF told THEN term' = [term EXCEPT ![w] = TriedToReap(@, Zombies \ {p})]
              ELSE UNCHANGED term
  /\ reaping' = ReapsAgain
  /\ UNCHANGED <<epoll, sigchld, batch, shells, prints, gestures>>

ReapDone ==
  /\ reaping /\ Zombies = {}
  /\ reaping' = FALSE
  /\ UNCHANGED <<term, procs, epoll, children, sigchld, batch, shells, prints, gestures>>

-----------------------------------------------------------------------------
Init ==
  /\ term = [w \in Windows |-> NoTerminal]
  /\ procs = [p \in {} |-> 0] /\ epoll = [f \in {} |-> 0]
  /\ children = <<>> /\ sigchld = FALSE /\ batch = <<>> /\ reaping = FALSE
  /\ shells = 0 /\ prints = MaxPrints /\ gestures = MaxGestures

User ==
  \E w \in Windows :
    \/ OpenWindow(w) \/ OpenTab(w) \/ SelectTab(w) \/ Edit(w)
    \/ \E i \in DOMAIN term[w].tabs : CloseTab(w, i)
    \/ Dismiss(w) \/ CloseAsked(w) \/ Answer(w)
    \/ \E complete \in BOOLEAN : Paste(w, complete)

Loop == EpollWait \/ HandleIo \/ HandleSignal \/ ReapOne \/ ReapDone

Next == User \/ Loop \/ \E p \in Pids : ShellDies(p)

(* The loop never stops turning, as long as the daemon runs. *)
Spec ==
  /\ Init /\ [][Next]_vars
  /\ WF_vars(EpollWait) /\ WF_vars(HandleIo) /\ WF_vars(HandleSignal)
  /\ WF_vars(ReapOne) /\ WF_vars(ReapDone)

-----------------------------------------------------------------------------
(* Properties *)

(* Every shell with a tab is heard: its descriptor is in epoll under the   *)
(* tab's own key, and nothing else is.  A descriptor number that was       *)
(* closed and given away must not be unwatched in the name of its former   *)
(* owner.                                                                  *)
EveryTabIsHeard ==
  epoll = [fd \in OpenFds \ {NoFd} |->
             CHOOSE key \in {[win |-> w, gen |-> t.serial] : w \in Windows,
                             t \in UNION {TabsOf(v) : v \in Windows}} :
               \E t \in TabsOf(key.win) : t.fd = fd /\ t.serial = key.gen]

(* A window that runs a shell never closes without its question: not when  *)
(* the shell is in a tab nobody looks at, nor when another shell got the   *)
(* number of one that died.                                                *)
AskedWhileAlive ==
  [][ \A w \in Windows :
        Open(w) /\ term'[w].state = "gone" /\ ~term[w].asked =>
          \A t \in TabsOf(w) : ~Lives(t) ]_vars

(* A paste that arrives in slices is closed in the shell it was opened in, *)
(* whatever that shell does to mode 2004 meanwhile, unless the user leaves *)
(* the tab, the shell dies before the last slice, or the tty has no room   *)
(* for a mark: its write() is tried once, and its result is ignored.       *)
PasteClosed ==
  \A w \in Windows :
    Open(w) /\ ~term[w].strayed =>
      \A t \in TabsOf(w) :
        t.brackets \in (IF term[w].pasting THEN {"closed", "open"} ELSE {"closed"})

(* No zombie stays: one SIGCHLD may announce several deaths, and a closed  *)
(* tab or window no longer asks for its own.                               *)
ZombieReaped == Zombies # {} ~> Zombies = {}
=============================================================================
