# Verification of sshos (termos)

sshos is a desktop in a terminal: a daemon keeps a session of windows alive, a
thin client shows it through an SSH connection, and clients come and go. This
directory holds TLA+ models of its core, TLC configurations that check them on
small instances, and TLAPS proofs. Paths are relative to the repository root.

1. [Inventory](#1-inventory)
2. [Plan](#2-plan)
3. [Modules and the code](#3-modules-and-the-code)
4. [Runs](#4-runs)
5. [Proofs](#5-proofs)
6. [Observations](#6-observations)
7. [What is not modelled](#7-what-is-not-modelled)

## 1. Inventory

### Processes and how they interact

| Process | Code | Threads |
|---|---|---|
| launcher, then client | `src/main.cpp`, `src/client/` | one, blocking writes, a SIGWINCH handler that sets a flag |
| daemon | `src/daemon/daemon.cpp`, everything below it | one, `epoll`, non-blocking sockets |
| shells | children of `src/pty/pty.cpp` | external |
| update script | `tools/update.sh`, child of the daemon or run by hand | one shell, plus a progress watcher |

The client and the daemon exchange framed messages (Hello, Input, Resize /
Welcome, Frame, Detached, Incompatible) over an abstract Unix socket. The
script and the daemon only share a state file, a lock file and the installed
binary; the daemon learns of the end of the script by SIGCHLD. Inside the
daemon everything is a call in one thread, but calls of one turn see what
earlier calls of the same turn did: an `epoll_wait` batch is handled in a state
that is later than the one that was reported, a frame is composed after several
inputs, and what a window or a script asked is remembered in flags until a
later step reads them.

### Components

| Component | State | Operations | What is hard | What makes it correct |
|---|---|---|---|---|
| output queue (`common/outqueue`) | bytes, offset, overflow flag | push, flush, compact, take_overflow | partial sends, a ceiling, two kinds of overflow | the ceiling holds, the memory is bounded, a torn message is announced |
| event loop (`daemon/daemon.cpp`) | attached client, pending connection, deadline, batch, frame clock | accept, read, takeover, compose, detach, quit, restart | stale events, two connections that change places, backpressure, timeouts | a restart meets no dying listener, frames applied to the right screen, progress |
| client (`client/client.cpp`) | socket, terminal size, screen | connect, Hello, blocking write, read | a blocking write against a daemon that writes | the write ends, the screen converges |
| update script (`tools/update.sh`) | state file, lock, binary, backup | check, apply, rollback | killed at any line, two at once | the file tells the truth, a restart is not forgotten |
| update service (`shell/update_service`) | child, deadline, what was last read | tick, run, on_child_exit, reload | timer in the timeout of the loop, dead scripts | one script at a time, the deadline is served |
| dialog (`shell/modal`, `daemon/session.cpp`) | one box, its target, `modal_kind_` beside it | ask, inform, progress, answer | windows, menu and scripts compete for it | a yes does what the question said |
| window manager (`wm/`) | stack, focus, modes, two rectangles a window | open, close, focus, step, set_mode, relayout, tile | sequences of modes, reordering while cycling, odd cells | front = focused, one full screen, windows on the screen |
| session, windows (`daemon/session.cpp`) | gesture, snap assistant, windows that ask | keys, mouse, menu, render | a window closes under the pointer, lists computed once and used later | a gesture has a window, cancelling undoes |
| application host (`daemon/host`, `reap`) | watched descriptors and their generations, children | watch, unwatch, request_close, open_app, reap | descriptors and process numbers reused in a batch, coalesced signals | a stale event reaches nobody, every shell is heard, no zombie stays |
| launcher, sockets (`main.cpp`, `client/launch`, `restart`, `common/net`) | the abstract name | probe, fork, bind, connect, restart | several launchers at once, a dying daemon | one daemon, each launcher gets in |
| terminal (`apps/terminal`, `pty/`) | tabs, shells, the field being edited, a paste under way | open, select, rename, close, paste, on_io, on_child_exit | tabs close between two events of a batch, the shell changes mode during a paste | a live shell is not closed unasked, a paste that was opened is closed |
| terminal emulation (`vt/`) | page, cursor, region, alternate page, history | print, move, erase, insert, delete, scroll, resize | wide characters, regions, a ring read while it is written | no half character, the shell's page comes back, the view stays |
| files (`apps/files`) | panes, selection, filter, clipboard, prompt, jobs | navigate, rename, create, copy, move, delete by slices | the disk changes under it, cancel, one file of many fails | nothing deleted before it is copied, a success is one, jobs end |
| editor (`apps/editor`) | lines, cursor, modified flag | edit, save | save that fails | modified is true of the disk |
| input (`input/`, keys of `daemon/session.cpp`) | escape parser, its deadline, leader key, menu, help | feed, timeout, on_input | sequences cut between reads, a lone escape | the same events whatever the cuts |
| rendering (`render/`) | last frame | frame, repaint | wide characters, invalidation | the screen equals the surface |
| wire protocol (`common/proto`) | partial message | feed | cuts, sizes | the same messages whatever the cuts |
| panel, menu, help, snap assistant, clock (`shell/`) | lists, edge | hit, open | lists that are stale when they are clicked | |
| journal, configuration, daemonize, oom, monitor, helpers | files, /proc | | | |

`PROJECT.json` lists every component with its sources and its status, and every
hazard with its line and the properties that would catch it going wrong.

## 2. Plan

Order: what every user meets at every keystroke first.

| Step | Modules | State |
|---|---|---|
| 1 | OutQueue | done |
| 2 | MessageQueue, Daemon (composes the queue, the loop and the clients) | done |
| 3 | UpdateService (script, service and the timer of the loop) | done |
| 4 | Session (composes the dialog with UpdateService) | done |
| 5 | WindowManager, Desktop, DesktopProofs; Layout, LayoutProofs | done |
| 6 | FileJob, Files (composes the jobs with the two panes and a disk that changes) | done |
| 7 | Terminal (composes tabs, pseudo-terminals, the host's descriptors, the loop's batch and the reaping) | done |
| 8 | InputParser, KeyStream (what is promised), Keyboard (client, wire, decoder, parser, deadline, session; shown to implement KeyStream) | done |
| 9 | Screen (page, alternate page, region, history) | done |
| 10 | ConnectionProofs (OutQueue and Keyboard), DaemonProofs, SessionProofs (UpdateService too), ScreenProofs, TerminalProofs, FilesProofs | done |

The runs ask the questions that need several actors; what is left of the program
(section 7) is either sequential and well within reach of its own tests, or a
sequence of system calls.

Every invariant that a passing run checks is also a theorem, and so is every action
property but `SuccessIsTrue`; section 5 says what stays with TLC. Every run passes. Where
the code does not do what a comment or a design says, the property names the case and
excepts it, as narrowly as it can, and section 6 says what the code does there.

## 3. Modules and the code

Text, colours, logging and drawing are left out everywhere.

**OutQueue** is `common/outqueue.cpp` byte by byte. A byte is the number of
bytes of its message that follow it, which is all that the peer's decoder can
be confused about. `owed`, `torn` and `compacted` are history variables. Each
action is a method; `TakeOverflow` includes what the daemon does with the
answer (a dirty overflow closes the connection).

**MessageQueue** is the same class in whole messages, as a value that a
connection owns, for the modules that compose it.

**Daemon** is `run_daemon()` and its peers. A turn is Wake (`epoll_wait`), one
step per event, EndBatch, Compose, CloseOrContinue; peers act between any two of
them. Connections have the generations of the code (`gen`, `nextGen`). The
session is reduced to what the loop asks it: a version of the desktop, a size,
a gesture, and wishes. A screen is a version and a size; a Frame is a
difference, and shows garbage when it is applied to another screen.

**UpdateService** is `tools/update.sh` as processes that stop at each point
where another process can see a difference (started, locked, busy, building, and
inside `place()`: saving, saved, placed), `shell/update_service.cpp`, and the part of
the loop that computes the timeout. A script can be killed (`WorkerDies`) or abort
under `set -e` (`Aborts`) at each of these points; `stops` is a history variable that
says where. Commits are numbers; the installed binary is known by its inode, which
is what the daemon compares. `Faults` says what the environment may do.

**Session** extends UpdateService with the dialog, `modal_kind_`, the windows
that refuse to close and the commands of the menu.

**WindowManager** is `wm/manager.cpp` as operators on a record; **Desktop** is
the part of `daemon/session.cpp` that uses it: keys, clicks, gestures, the snap
assistant, applications that open or close windows, the dialog, and `render()`.
In Desktop a click chooses a window and a part of it, subject to `hit()`. The
menu and the help window are not variables: their effect is (`MenuOpens`,
`MenuTiles`, `OtherInput`). What an application does with the mouse it has
grabbed (`mouse_grab_`) does not touch the windows and is left out.

**Layout** is where a window is: `wm/window.cpp`, `wm/layout.cpp`,
`wm/tile.cpp`, `wm/hittest.cpp` and the gestures and keys that change a
rectangle, for one window in front, with real coordinates. The cascade of
`open()` is the constant `Home`; `assist_rect_` is recomputed instead of kept
(see Observations).

**FileJob** is `apps/files/job.cpp` as operators on a job and a disk: what one
slice does, what a failure of each system call does, what the marker of a
directory is for. A file is a name with a content that is whole or half; a disk
is a function from paths to nodes. **Files** is `apps/files/files.cpp` on two
panes: keys, mouse, filter, prompts, clipboard, the jobs of a window, and an
outside process that removes a file between any two steps. A job advances with the
refresh of an attached client (`daemon.cpp:370`): `ClientChanges` is the client that
leaves in the middle of one, and the next that comes.

**Terminal** composes `apps/terminal.cpp`, `pty/pty.cpp`, `daemon/host.cpp`,
`daemon/reap.cpp` and the parts of `daemon/session.cpp` and `daemon/daemon.cpp`
that lead to them. Descriptors and process numbers are the lowest free ones and
are given away again; a tab has a `serial` that is never reused (history), so that
a property can tell the owner from the number. A batch of `epoll_wait` is a
sequence of keys fixed when the loop wakes; the user's gestures, shells that
print, switch mode 2004 or die, and failures of spawn() come in between. to_guest() is
one write() that does not block and whose result nobody looks at, so that `Paste` may
lose a mark.

**InputParser** is `input/parser.cpp` on symbolic bytes (escape, bracket, letters,
the two bytes of an accented letter, the paste markers, the control bytes that are
converted): feed, next, timeout.
**KeyStream** says what the keyboard path promises: what was typed is handled, in
order and once, as the keys it stands for, where an escape that is followed too
late is a key of its own. **Keyboard** is the path itself: the terminal hands the
client bytes in any cut, the client sends them in messages, the daemon's decoder
(`common/proto.cpp`) collects those, the parser makes events, the deadline of a
lone escape is folded into the timeout of `epoll_wait`, and the session routes
them through help, menu and leader key (which are there for what they do to the
loop: detaching, and the wake-ups of the help and of a series; no property is about
them). `Promise == INSTANCE KeyStream WITH ...`
maps the bytes on their way, in every buffer, to the one list of KeyStream. The run of
parameters of a sequence is one value (`"1:5"` stands for `1;5`).

**Screen** is `vt/screen.cpp` and `vt/scrollback.cpp`, with one action for each
order that `apps/terminal.cpp` can give them, and the user who looks back. A cell
is blank, a character, or the left or right half of a wide one. `main` and
`halved` are history variables. `Draw` is `Screen::print()`.

**MCOutQueue, MCDaemon, MCUpdateService, MCSession, MCDesktop, MCLayout, MCFiles,
MCTerminal, MCKeyboard, MCScreen** only give constants or a symmetry. Definitions
with an underscore in their name (`Worst_Assigns`, `Follow_Stays`...) are mutants:
plausible slips in the code of the definition that they are named after, each of
which breaks a property.

## 4. Runs

### outqueue (MCOutQueue.cfg)

All orders of pushes of 1 to 4 bytes, partial sends, failures and
`take_overflow()`, ceiling 6, compaction above 2. A message can be longer than
the compaction threshold and two of them exceed the ceiling, as in the code
(1 MiB and 64 KiB). `CeilingHolds`: the unsigned `ceiling_ - size()` never wraps.
`MemoryBounded`: a slow peer cannot make the buffer grow. `TearIsAnnounced`: a
message whose rest was thrown away is reported Dirty, but for what compaction
hides. All three are also proved, as is the type invariant.

### takeover (MCDaemonTakeover.cfg)

Two peers, one input each, both builds, SIGTERM at any moment. `RestartFindsNoListener`:
a client that is told to restart never reconnects to the dying daemon. Two peers
are what the two places of the daemon (client and pending) need to be contested;
a takeover, a hang-up and an expired deadline in one batch happen with them. It is
also proved, for every number of peers.

### live (MCDaemonLive.cfg)

One peer, two terminal sizes, a ceiling of 3 messages, a socket that holds one
and a repaint that weighs 2: both kinds of overflow happen. `NoGarbledScreen` (a
difference is only shown over the screen it was computed against), and under
fairness `ScreenConverges` (a client that stays ends up with the desktop on its
screen: bytes that wait for EPOLLOUT move, and a torn stream is closed),
`WriteEnds` (no mutual blocking), `PendingSettles` (a mute connection gives its
place back). The first is also proved.

Fairness: the loop runs (`WF(DaemonStep)`), time passes (frame interval, Hello
deadline), and a peer that can finish a write or read its socket does. That is
what the kernel's scheduler gives to a process that is runnable. Nobody is
obliged to connect, type, resize or leave. A SIGSTOPped client is outside it.

Both Daemon runs set `MayCompact` to FALSE: a sent prefix above 64 KiB is the
first observation below, and with it `ScreenConverges` is false.
They stop at the end of the inputs and of the daemon, so deadlock is not an
error there, nor in the runs of the update service, whose commits and
installations are bounded.

### update_safe (MCUpdateSafe.cfg)

Two processes of the script, one new commit, two installations, scripts run by hand, a
daemon that is killed, and one script that aborts under `set -e` at any of its points;
two scripts are not alive at once, and kills are left to the proofs and to update_live. `RestartRemembered`: an installed binary
that does not run is not forgotten, whatever checks come after, unless the script stopped
between its rename and the write that follows. `RecordIsTrue`: the recorded commit is the
installed one, across installations, rollbacks and failures, unless a script stopped
inside an installation, that is between the first cp of `place()` and the last
`write_state()`. Neither says anything of two scripts at once, whose variables are read
before the lock is taken. Two installations are needed for a rollback to come back to
something else than the beginning. Both are also proved, for every number of processes,
commits and stops.

### update_live (MCUpdateLive.cfg)

With two scripts that are killed and that overlap, forks that fail and clocks that are
read in the last millisecond before a deadline: `DeadlineServed` (the daily check
happens, client or not), `WorkShownEnds` (a dead script does not leave the command
disabled in front of an attached user). The first has one exception, a sleep without a
limit that section 6 explains: the turn that calls tick() has folded no timeout for what
tick() leaves planned (`loop = "ticked"`, nobody attached). A deadline that passes in any
other turn is served. Fairness: the
turns of the loop, the timeout of `epoll_wait`, the death of a child, time, and the
scripts, which end. Refresh and ChildWakes need strong fairness because the loop is
between two states in which they are enabled; signals and a one-second refresh are not
lost for that. No fairness on users, nor on a fork.

### dialog (MCSessionSafe.cfg)

Two windows, the menu, the keyboard, the mouse, forks that fail and two processes of the
script, one of which may be killed. `GuardedIsAsked`: a window that refuses to close
closes only by a yes in the box opened about it, and the box still asks about it, unless
the progress of an update was written over the text (`refresh_update_modal()`; see section
6). `UpdateQuestionHolds`: a yes to a question about an update does what the question
says, whatever script ends while it is open. `InfoIsHarmless`: a report never ends the
session; that a question about a window may inherit what an abandoned question would have
done is in section 6. Two windows are what a question about the wrong one takes. All
three are also proved.

### desktop (MCDesktop.cfg)

Up to three windows, one of which refuses to close, one application that asks
for a window and one window that asks to close at a time. `FrontIsFocused`,
`FullscreenIsFront`, `DragIsLive` (a gesture always has a window, and one that
moves is in Normal mode), `AssistOffersVisible`, `NextReachesAll` (cycling, which
reorders the stack, visits every visible window). Three windows are the least
number for which the order of cycling and the window that gets the focus after
a close are not forced. All are also proved, for any number.

### layout (MCLayout.cfg)

A 4×3 terminal and one that is too small, the panel below or on the right, every
position of the pointer, all modes, up to three tiles. `StaysOnScreen`,
`TilesFill`, `CancelUndoes`. The thresholds keep
the order of the real ones (40×10 for a panel of 16 columns): a drawable terminal
is larger than the panel. The vertical panel leaves 2×3 cells, an odd number to
split; the floor, 2×2, does not fit twice. All are also proved
for every size, as are `MoveKeepsSize` (a window that moves keeps its size) and
`HalvesMeet` (two docked windows meet), which no run repeats. `CancelUndoes` is what
`session.hpp:189-192`, the code and its tests say, and not what the designs say.

### files (MCFiles.cfg)

Two panes over a small tree with a mount point, four gestures, one fault of a
system call, one change by another process. `SelInRange`: `visible[sel]`, which the
code indexes without a check, exists after every reload, filter, split and end of a
job. `NothingLost`: a content that disappears from the disk was deleted on
purpose, or by another process, or lay under a name that the job writes to or
unlinks (this excuses what a rename() overwrites at a name the job targets, although
`docs/REPRISE.md:1816` says that a name that is taken is refused).
`SuccessIsTrue`: a job that reports success, on files nobody else disturbed, has done all
of it: files and directories have arrived as they were, or are gone. Left out: a move
whose targets are other sources, since what it puts in place first it then takes away;
the directories for which mkdir() finds a name and goes on (section 6); a source that
could not be removed, which is not reported. `HalfFileExplained`: a file is left
half-written only by a job that was stopped, by the copy of a half file, or by a copy
that somebody moved away before it failed; closing the window in the middle of a copy is
not modelled. These but `SuccessIsTrue` are also proved, for every disk. `JobEnds`: a job
does not feed itself, also when a directory goes into itself (paths have at most
`MaxDepth` names, the ENAMETOOLONG of the model), and ends if some client stays. Fairness:
the refresh that the loop gives a job while a client is attached, and not otherwise.

### terminal (MCTerminal.cfg)

Two windows of two tabs, two shells alive, three gestures. Two of each is what it
takes for a number to be given away while its former owner is still known
somewhere. `EveryTabIsHeard`: the shell of every tab has its descriptor
registered under its own key, whatever was closed in the batch.
`AskedWhileAlive`: a window with a live shell in any tab never closes without a
question. `PasteClosed`: a bracketed paste that was opened towards a shell is closed,
whatever the shell does to the mode meanwhile; not if the user leaves the tab, the shell
dies or a write() loses a mark. `ZombieReaped`, under fairness of the loop's steps. The
first three are also proved, for every number of windows, tabs and shells.

### keyboard (MCKeyboard.cfg)

Two keys of eighteen, one of each shape, cut in every way, a connection that is lost once,
deadlines that come at any moment. `KeysArrive` is the refinement: Keyboard
implements KeyStream. `Transparent`: what a shell gets is what was typed, when the desktop
keeps nothing, but for what the code rewrites: 0x0a comes out as `\r`, 0x08 as 0x7f, 0x1c
(Ctrl+\) as `|`, and ESC[1~ as the other encoding of Home, which is left out, like an
Escape before a key that is not printable. Nobody types `[` or `O`: Alt with one of them
waits for the next key and takes it along (section 6). `EscapeDecided`: a lone escape is decided with nothing typed
after it. Fairness: the turns of the loop and the passing of its
own deadline; nobody is obliged to type. Two keys are what it takes for one to be
read with the beginning or the rest of another. The first two are also proved, for
any number of keys.

### screen (MCScreen.cfg)

Pages of 2×3 and 3×2 cells, into one another by resizing, four characters and three
orders between them, a history of two lines. 2×3 is the least page with a region
that leaves a line out; 3×2 the least on which a wide character meets the cursor
and the edge; two lines of history fill up and are reused. `WidePaired`,
`MainPageKept`, `OutsideRegionStill`, `ViewStays`. All are also proved, for every
size of the page and of the history. `WidePaired` says nothing after a delete_chars() on a
line that ends with a wide character; `MainPageKept` keeps the pending wrap of the page
that waits also across a resize, as the code does; `OutsideRegionStill` is about the page
and not about what enters the history.

The runs of files, terminal, keyboard and screen stop when their bounded gestures
are used up, so deadlock is not an error there.

## 5. Proofs

All are checked to the last leaf, from the named assumptions on the constants
(naturals, disjointness, a drawable terminal wider than the panel).

**ConnectionProofs**, first half: `QueueTypes`, `CeilingCorrect`, `MemoryCorrect`,
`TearCorrect` of OutQueue, for every ceiling, threshold and length, from the inductive
invariant `QueueInv` (theorem `QueueInvariant`). `TearIsAnnounced` is not inductive:
push() deduces from `off_ == 0` that nothing of the first message was sent, which
needs `BegunIsVisible` (a message that was begun has its sent part before `off`
unless it was compacted), and this needs `EndsOnMessage` (the buffer ends with a
whole message) to know that an emptied buffer owes nothing. `MemoryBounded`
follows from `CeilingHolds` and `PrefixBounded`.

Second half: `KeysAreKept` (Keyboard implements KeyStream) and `DesktopIsTransparent`
(`Transparent` always holds), for every number of keys, size of a header, ceiling of the
decoder and slice of a paste, and for every set of keys in which nobody types `[` or `O`
(`NoOpener`, a hypothesis of both theorems and not of the model: right after Escape
nothing tells them from the beginning of a sequence, and the next key is then taken for
the rest of it, section 6). `KeyboardAssumption` and `InputParserAssumption` say which keys and texts: a
character that has a name goes by its name; pasted text has no escape in it, since a
terminal takes them out; a sequence has one run of parameters at most, and
`kMaxCsiParamsLen` leaves room for it.
The inductive invariant `KeyInv` relates the four buffers:

- `Framed(dec \o wire)`: what the decoder and the socket hold is a sequence of whole
  frames, from which `NextMessage` concludes that next() gives the body of the first;
- `Chain(Flight)`: what is on its way, all buffers in a row, is the end of one key
  followed by whole keys, each byte the successor of the one before. This is what
  makes step() predictable: once the first byte of a key is there, what follows in the
  buffer or will follow is the rest of it (`ChainAhead`);
- `PasteOK`: in a paste the next byte is of its text or the first of its end, and the
  search for the end has not passed it, which is what the rescan of a marker's length
  before the place where the search stopped is for;
- `Waiting`: a lone escape is waited for only when it is all the parser has.

`StepIsTaken` says for every branch of step() which bytes it takes and which events it
yields (`Takes`), `TimeoutIsTaken` the same for timeout(), and `NextStep` that each
action keeps `KeyInv` and is one of four moves on `Flight` (`Moves`): nothing, the
bytes of an event, an escape given up, a connection lost. Each is a step of KeyStream
or leaves it alone (`StepPromise`). For `Transparent` the invariant `TransInv` adds that
`Flight` is clean (no paste, mouse or focus; what follows an escape is printable; it does
not begin in the middle of a character) and that what was handled, encoded, and
`Flight` are together the bytes typed; `CleanTake` shows that encode_key() undoes what
step() did, for each branch. FlattenSeq is a recursive function under a CHOOSE: that
it exists, its type, and that it distributes over concatenation are shown by the
least counterexample (`LeastNatural`, `SeqInduct`).

**DesktopProofs**: `TypesAreKept`, `FrontHasTheKeys`, `FullscreenHasTheKeys`,
`GestureHasAWindow`, `AssistantIsCurrent`, `CyclingReachesAll`, for every number of windows, limit and
set of applications, from `IInv` (theorem `DesktopInvariant`). Each operation of
the manager has a lemma that it keeps `Sound`: types, unique ids, front = focused,
full screen in front. Unique ids are needed because raise() and close() find a
window by its id. `AssistOffersVisible` is not inductive: a window that leaves
full screen gets back a mode that may be Minimized, so `OffersPlain` adds that no
offered window is in full screen. `DragIsLive` needs that a window which opens
leaves the other modes alone but for full screen (`Gentle`). `NextReachesAll` is a
consequence of `Sound`: since the focused window is in front, step() finds the lowest
window that can be seen, so that a press brings a window to the front or one place
nearer to its turn (`NextComesNearer`), and it has as many presses as places. Leaving
full screen may hide only the window that was in front, which was visited. The
sequence of managers is a recursive function: that it exists, and what it has reached,
is shown with the least number that would be a counterexample (`LeastNatural`), since
no induction theorem of the library can be instantiated.

**LayoutProofs**: `LayoutTypes`, `WindowsStayOnScreen`, `MovingKeepsSize`,
`CancellingUndoes`, `DockedWindowsMeet`, `TilingFills`, for every terminal, panel edge, floor and
threshold, from `LInv` (theorem `LayoutInvariant`). It adds that the work area is
the one of the last frame's screen for some edge (`WorkOfFrame`), what a window
in full screen may show (the work area before the frame, the screen after it),
and that a gesture's origin is the rectangle it must come back to. `TilesFill` needs no
invariant but a work area that is not empty: the recursive sum of tile_rects() is
given a closed form (`Cut`), by which the parts of a length follow one another and
fill it (`SplitFills`); used for the columns, for the rows of each column and for the
windows themselves, which is what counts the tiles.

**DaemonProofs**: `RestartMeetsNobody`, `NeverGarbled`, for
every number of peers, ceiling, size of the kernel's buffers and weight of a message.
`ConnInv` (theorem `ConnInvariant`) is about the connections: a key is given once
(`KeysAreUnique`), the two seats are two open connections (`SeatsAreOpen`), and whoever
is in `closedNow` was dropped, so that skipping a stale event loses nobody
(`OnlyTheClosedAreSkipped`). The messages
have an invariant of their own, `StreamInv` (theorem `StreamInvariant`, on top of
`ConnInv`): what is queued, in the kernel and unread in the peer is one stream
(`Stream`), and applying it in order to what the peer shows never meets a difference
computed against another screen (`Coherent`), up to the screen that the daemon
believes it has sent. `UpdateSilence` says that a client which was told to restart
faces a daemon without a listener. The types of the messages are those that were
pushed (`\E S : WireTypes(S)`), no more: the full `TypeOK` of Daemon goes through a
fold over a sequence and stays with TLC.

**SessionProofs**, first half, on UpdateService: `ScriptsExclude` (two processes are never past the lock together)
holds in every environment, from `ScriptInv`: the holder of the lock is known, and so
are the tools that a killed script leaves behind. What the state file says
(`RestartIsRemembered`, `RecordStaysTrue`) is proved without overlapping scripts, and with
every other fault: kills, aborts under `set -e`, forks that fail, crashes of the daemon.
The properties except the scripts that stopped inside an installation, which the history
variable `stops` tells apart. The invariant `UpdateInv` adds that at most one script is
alive, that what it read when it started is still what the file says (`Copies`), that
`previous=` is the commit of termos.previous (`Recorded`), and that a script inside an
installation has what it takes to make the record true (`ToBeRecorded`). The conditions are
needed: TLC finds the lie without them.

Second half, on Session: `GuardedWindowsAreAskedAbout`, `UpdateQuestionsHold`,
`ReportsAreHarmless`, for every set of windows and every environment of the script,
from `SessionInv` (theorem `SessionInvariant`). It adds to the types that a box which
only informs stands beside a kind that does no harm (`InfoKind`: `modal_kind_` is a
variable beside the box and moves without it) and that Enter on a progress box says
no. On top of it `BoxInv` (theorem `BoxInvariant`) relates the text of the box, the kind
of what a yes does and the script that may report: a question about an update stands
beside its own kind because no script of the user is alive while it is open, so that no
report can change the kind; a question about a window has no such protection. `SessionImplementsService` is the refinement: every step of the session is a step
of UpdateService or leaves it alone, so that what is proved there holds here
(`SessionKeepsTheRecord`).

**ScreenProofs**: `WideAlwaysPaired`, `MainPageComesBack`, `OutsideStaysStill`,
`ViewStaysPut`, for every page of at least two columns, capacity and number of orders,
from `ScreenInv` (theorem `ScreenInvariant`): the cursor and the region are on the
page, the page that waits has the size of the window, what the history variable
`main` knows is what will come back, and the ring's indices are in range. One lemma
for each operation on a line says that it keeps a line whole; `ViewStaysPut` needs
where each line of the ring is before and after a push, full or not.

**TerminalProofs**: `EveryTabHeard`, `PastesAreClosed`, `NobodyClosedAlive`, for every
number of windows, tabs, shells and gestures, from `TermInv` (theorem
`TerminalInvariant`). Descriptors and process numbers are given away again, so each
property needs to know who a number belongs to: `Lined` (in each window `watched_` is
exactly the list of the tabs' descriptors, under serials that are never reused),
`Heard` (the interest list of epoll is exactly the tabs of all windows, no descriptor
belonging to two), `Dead` (a tab which knows that its shell ended is right) and
`Pasted` (the shell in front has an open mark while a bracketed paste goes on, the
others never). `NobodyClosedAlive` follows from `Dead` and from process numbers that
are never 0. The lowest free number is shown to exist and to be free by the least
element of a set of naturals.

**FilesProofs**: `CursorStaysInTheList`, `FilesAreKept`, `HalvesAreExplained`, for every
initial disk that is a finite tree (`DiskAssumption`), every alphabet of names
(`FilesAssumption`), depth, number of slices, faults and gestures, from `FilesInv`
(theorem `FilesInvariant`). Its parts need one another: `PanesOK` (the active pane is
one of two, and the selection of each is in its list after every reload and filter);
`OrdersOK` (what the clipboard and the mouse hold are lists); `DiskOK` (the disk stays a
finite tree, whoever changes it, and exactly one file is open while a job copies,
holding what is read from its source, and none otherwise). Without the last, a failure
that unlinks the target could drop a file that is not the copy, and a torn file could
come from nowhere. `DiskEvent` sums up what any gesture, job or other program may do to
the disk, and the two action properties are shown for each of its cases. The proof
corrected the properties: `NothingLost` must admit that the unlink() which ends a move,
and the one which follows a failure, go by name, and `HalfFileExplained` that a copy may
have been moved away before it failed.

Only model-checked:
- all liveness (`ScreenConverges`, `WriteEnds`, `PendingSettles`, `DeadlineServed`,
  `WorkShownEnds`, `JobEnds`, `ZombieReaped`, `EscapeDecided`): fairness and ENABLED
  are out of TLAPS's reach;
- `SuccessIsTrue` of Files: it compares the end of a job with the tree its start saw,
  which takes an invariant over the whole walk (what has arrived, what is pending and
  what is still below the pending directories make up the promise), an induction over
  the depth of the tree;
- the full `TypeOK` of Daemon, which goes through a fold over the wire.

## 6. Observations

What TLC showed on variants of these models, or reading showed while modelling. The
first ten contradict a sentence of the repository. TLC gives a behaviour for each when
that sentence is stated as a property, without the exception that is named here.

- `common/outqueue.cpp:133`: compact() sets `off_` to 0 in the middle of a message;
  the next rejection is reported Clean although the peer holds a part of it.
  `outqueue.hpp:106-107` says « jamais l'inverse ». `TearIsAnnounced` names the case
  (`compacted`).
- `daemon/session.cpp:952`: the right and bottom borders resize both axes.
  `docs/superpowers/specs/2026-08-10-ssh-os-design.md:310` says one.
- `daemon/daemon.cpp:361`: when fork() fails tick() plans a new deadline, but after the
  timeout of the turn was computed: with nobody attached `epoll_wait(-1)`.
  `update_service.cpp:171-173` says « on repart pour un tour même si le lancement échoue
  -- sinon un échec de fork figerait la vérification pour toujours ».
- `tools/update.sh:425`: a script that stops after the first cp of place() has the
  running binary in termos.previous and an older commit in `previous=`; the next
  rollback restores the one and records the other. `update.sh:660-663`, of that record:
  « L'ETAT DOIT DIRE LA VERITE ». `RecordIsTrue` names the case (`stops.at`).
- `daemon/session.cpp:794`: an installation that ends while a question about a window is
  open sets `modal_kind_` before ask() refuses: the yes to the window restarts the
  desktop. `modal.cpp:63-64`: « c'est la première question que l'utilisateur a sous les
  yeux ». `UpdateQuestionHolds` speaks of the other questions.
- `daemon/session.cpp:872`: cancel_drag() restores, as `session.hpp:189-192` and
  `test_session.cpp:688` say. The designs (2026-08-10, line 324; 2026-08-11 on the window
  manager, line 235) say that every path validates the current geometry. `CancelUndoes`
  is the former.
- `apps/files/job.cpp:112`: mkdir() takes a name that exists for the directory it wants:
  an empty directory pasted where it was cut, or where a file has its name, is removed
  and the job reports success. `job.cpp:70-72`: « mais seulement quand la copie a
  réussi ». `SuccessIsTrue` names the case (`mistaken`).
- `apps/terminal.cpp:476`, `pty/pty.cpp:207`: the master is O_NONBLOCK and the result of
  its one write() is ignored: with the queue of the tty full the closing mark of a paste
  is lost, which `terminal.cpp:769-772` wants to exclude (« le shell resterait en attente
  pour toujours »). `PasteClosed` names the case (`strayed`).
- `input/encode.cpp:72`: control_byte() knows letters and the space, so Ctrl+\ to Ctrl+_
  reach a shell as characters. `encode.hpp:9` says « Le MIROIR EXACT » of the parser.
  `Transparent` names what is rewritten (`Rewritten`).
- `daemon/daemon.cpp:308`: the deadline is armed for a lone escape only; after Alt+[ or
  Alt+O the parser waits for the next key and takes it along. `parser.cpp:153-158`: « les
  trois états sont résolus ici ». The keys of the run leave them out (`NoOpener`).

Event loop
- `daemon.cpp:739`: the wish to detach belongs to the session. If a newcomer takes
  the seat in the same batch, it is the newcomer that is dismissed.
- `daemon.cpp:796`, `:219`: the announcement of an update is flushed once; with a
  full socket the client does not learn that it must restart.
- `daemon.cpp:630`: a Resize read together with the Hello is dropped; the desktop
  keeps the old size until the next one.
- `daemon.cpp:767`: a repaint that is larger than the ceiling is rejected, asked
  again and rejected. `ScreenConverges` is checked for repaints that fit.
- `daemon.cpp:513`: the guard that a comment calls unreachable is reached.

Update
- `daemon.cpp:361`, `update_service.cpp:185`: a deadline less than a millisecond
  away gives a timeout of 0 and is not due: the loop spins for that time, and in
  the turn that serves it may sleep without it.
- `tools/update.sh:100`: variables are read before the lock is taken; with two
  scripts at once the second writes what the first has changed.
- `tools/update.sh:429-535`: a script that stops between its rename and its last write
  has told nobody of the pending restart either.
- `tools/update.sh:623`: after a SIGKILL the tools that the script leaves running
  hold the lock until they end.

Dialog
- `session.cpp:1258`: Escape closes the box and keeps `modal_kind_`; the next box
  that does not set it inherits it, for instance the question about a window
  after an abandoned question about quitting.
- `session.cpp:197`: the progress is written into whichever box is open, a question
  about a window included; its yes still closes the window.
- `session.cpp:788`: a report is taken and lost when a question is open.
- `session.cpp:626`: the progress box opens even if no script could be started.

Windows
- `manager.cpp:128-149`: PrevWindow looks behind the front window and raises what
  it finds, so that repeating it alternates between two windows; the design
  (2026-08-10, line 496) says « s'enchaîne ».
- `session.cpp:1210-1213`, `:957`: a press and a release on the edge of a
  maximized window write its `user_rect`, and so do the keys that move
  (`:530-555`, no guard on the mode); `window.hpp:28-32` and the design (line
  306) keep it intact. So do a press and a release on the title of a window that
  the work area clamps (`:920-938`).
- `session.cpp:928-929`: "tirer le coin bas-droit ne doit jamais décaler le coin
  haut-gauche"; a corner released on the row of the panel makes the window one row
  too tall, and clamp_to() pushes it up by one.
- floor of Editor and Files: 26 columns with the frame; a 40-column terminal with
  a vertical panel has 24. The window reaches the panel, which a comment in
  `render()` excludes. `StaysOnScreen` states both cases.
- a window that lost full screen to another one has the rectangle of the whole
  screen until the next frame.
- `session.cpp:663`, `:691`: the half that the assistant fills is the one of the
  work area when it was opened; after a resize the window gets that rectangle and
  is clamped.

Terminal
- `reap.cpp:11`: waitpid(-1) takes a shell before `Terminal::on_child_exit` asks
  `Pty::try_reap()`, which then gets ECHILD and leaves `exited_` false
  (`pty.cpp:268`): a tab does not learn that its shell is gone, and the message and
  the Enter of `terminal.cpp:632-634` are not reached. `test_terminal.cpp:394-398`
  calls on_child_exit() with the zombie still there.
- `pty.cpp:212`: kill(-pid_) of a shell that was reaped may reach another one; an
  entry of a tab that reaped its own shell stays in the table of children;
  `closing_` is not emptied of shells that the loop reaped.
- a read that ends with EIO is taken for Ok; the descriptor is level-triggered.
- `terminal.cpp:766`: switching tabs during a paste sends the rest, and the closing
  mark, to the other tab; a paste that is cut off leaves `pasting_` set. `PasteClosed`
  excludes both (`strayed`).

Emulation
- `screen.cpp:488`: delete_chars() on a line that ends with a wide character: the
  part to erase begins on a right half that has already moved, and clear_wide_at()
  blanks what is now on its left. Half a character may stay; insert_chars() can blank
  a narrow one the same way. `WidePaired` excludes it (`halved`).
- leave_alt_screen() restores `wrap_pending_` also after the window became wider.
- a wide character on a page of one column leaves half of itself: two columns are
  assumed.
- ED 3 does not reach `Scrollback::clear()`; the offset of the view stays while the
  alternate page is shown, and draw() applies it there.

Files
- a move by rename() overwrites a file of that name without asking; finish_current()
  ignores a failing unlink(); files are unlinked by the path noted before.
- cancelling, or closing the window, leaves the half-written file.
- a directory copied into itself stops at ENAMETOOLONG.
- on_refresh() filters the active pane only; on_mouse() ignores an open prompt; a
  fast drag takes the selection of the other pane.
- jobs advance only while a client is attached.

Keyboard
- an escape followed by a byte that is not printable loses both; a UTF-8 letter cut
  short stays undecided, since timeout() is only called for a lone escape; the deadline
  is not armed again for a second one.
- the leader stays armed from one client to the next; a click closes the help and
  take_dirty() opens it again while the leader waits.

## 7. What is not modelled

Drawing, themes, labels, the clock and the monitor: no state that a property
could bind. The launcher, sockets, daemonize, journal and configuration: straight
sequences of system calls whose outcome the kernel decides. The editor: one window,
sequential, sharing nothing. The parser of `vt/parser.cpp`, colours, character sets
and answers to queries: Screen begins where an order is decoded. The cells of a
frame: a frame is a version. The search of the menu, the mouse grab of an
application, dragging a file into another window. Symbolic links; malformed state
files; reuse of process ids while the state file names them; a Hello cut in two
reads; raw mode of the client's terminal. The kernel, the network, git and the
compiler that the script calls are external: they may fail where the code looks at
their result.

Bounds of the models, all named constants: `MaxMessage`, `MaxInput`, `MaxApp`,
`MaxCommit`, `MaxInode`, `MaxStop`, `MaxId`, `MaxAsked`, `MaxPending`, `MaxTiles`, `MaxDepth`,
`MaxFaults`, `MaxGestures`, `MaxOutside`, `MaxTabs`, `MaxShells`, `MaxKeys`,
`MaxBytes`, `MaxFrames`, `MaxLosses`, `MaxPrints`, `MaxOrders`. Where a
property is proved, they do not matter.
