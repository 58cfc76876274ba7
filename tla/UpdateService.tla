--------------------------- MODULE UpdateService ---------------------------
(***************************************************************************)
(* Keeping the program up to date: tools/update.sh, run as a process of    *)
(* its own, shell/update_service.cpp, which launches it from the daemon    *)
(* and reads the state file it leaves, and the part of the daemon's loop   *)
(* that wakes the service at its deadline.                                 *)
(*                                                                         *)
(* Commits are numbers.  The binary on disk is known by its inode: every   *)
(* installation gives it a new one, and the daemon compares it with the    *)
(* inode it runs from.                                                     *)
(***************************************************************************)
EXTENDS Integers, FiniteSets

CONSTANTS
  Worker,     (* process ids the update script may get                     *)
  None,       (* no process                                                *)
  MaxCommit,  (* bound: commits of the remote repository                   *)
  MaxInode,   (* bound: installations                                      *)
  MaxStop,    (* bound: scripts stopped in the middle of their work        *)
  Faults      (* what the environment may do, see Fault                    *)

(* fork: fork() fails.  kill: a script gets a SIGKILL.  hand: the script is *)
(* also run from a shell.  crash: the daemon is killed.  overlap: a script  *)
(* starts while another is alive.  submilli: the clock is read during the   *)
(* last millisecond before the deadline.  full: a command of the script     *)
(* that nothing guards fails, for want of room on the disk for instance.    *)
Fault == {"fork", "kill", "hand", "crash", "overlap", "submilli", "full"}

ASSUME UpdateAssumption ==
  /\ None \notin Worker
  /\ MaxCommit \in Nat /\ MaxInode \in Nat /\ MaxStop \in Nat
  /\ Faults \subseteq Fault

VARIABLES
  (* the world *)
  source,    (* "git"; "local": nothing to follow; "none": not installed   *)
  remote,    (* head of the remote repository                              *)
  disk,      (* inode of the installed binary                              *)
  binary,    (* commit the installed binary was built from                 *)
  backup,    (* the same of termos.previous, or Unknown without one        *)
  stops,     (* history: how often a script was stopped, and where in an   *)
             (* installation                                               *)
  file,      (* the state file                                             *)
  work,      (* the script's processes                                     *)
  lock,      (* holder of the lock file                                    *)
  (* the daemon *)
  self,      (* inode of the running binary                                *)
  child,     (* child_                                                     *)
  manual,    (* child_is_manual_                                           *)
  report,    (* report_, "" once taken                                     *)
  sched,     (* have_deadline_                                             *)
  due,       (* deadline_ is "far", less than a millisecond away, "past"   *)
  seen,      (* state_: the status last read, whether the commit is known   *)
  stale,     (* stale_worker_                                              *)
  need,      (* restart_needed_                                            *)
  want,      (* wants_restart_                                             *)
  attached,  (* a client is attached                                       *)
  loop,      (* the event loop: "top" of a turn, or in epoll_wait, "asleep"  *)
             (* or "ticked": in a turn that called tick() for a delay of zero *)
  bounded    (* epoll_wait has a timeout                                   *)

worldVars == <<source, remote, disk, binary, backup, stops, file, work, lock>>
svcVars == <<self, child, manual, report, sched, due, seen, stale, need, want>>
loopVars == <<attached, loop, bounded>>
updateVars == <<worldVars, svcVars, loopVars>>

Statuses == {"idle", "checking", "applying", "up-to-date", "available",
             "restart-pending", "check-failed", "apply-failed",
             "history-rewritten", "updates-disabled"}

InProgress == {"checking", "applying"}

Unknown == -1

(* What a file holds whose copy was not finished. *)
Torn == -2

(* Where a script that stops leaves the record behind what it has done: as  *)
(* it copies the binary to termos.previous, once it has, and once the new   *)
(* binary is in place.                                                      *)
Installing == {"saving", "saved", "placed"}

State(s, c, o, r, p) ==
  [status |-> s, commit |-> c, prev |-> o, restart |-> r, pid |-> p]

(* A process of the script: where it is, how it was called, whether the     *)
(* daemon is its parent, INSTALLED, PREVIOUS, RESTART_PENDING, the commit   *)
(* it builds, its exit status, what it leaves running when it is killed.    *)
Gone == [at |-> "gone", mode |-> "check", mine |-> FALSE, commit |-> Unknown,
         prev |-> Unknown, restart |-> FALSE, new |-> Unknown, code |-> 0,
         left |-> "none"]

Alive(w) == w # None /\ work[w].at # "gone"

(* A process id that nobody uses or remembers any more. *)
Free ==
  {w \in Worker : /\ ~Alive(w) /\ w \notin {child, file.pid, lock}
                  /\ "overlap" \in Faults \/ \A v \in Worker : ~Alive(v)}

-----------------------------------------------------------------------------
(* The mutants of the definitions below: slips that would compile. *)

Conclude_Forgets(w, s, r, p) == State(s, work[w].commit, work[w].prev, FALSE, p)

Installed_IgnoresRollback(w) ==
  IF work[w].mode = "apply" THEN work[w].new ELSE work[w].commit

Timeout_ClientOnly == attached

IsStale_Never(c) == FALSE

-----------------------------------------------------------------------------
(* The script. Its variables are read from the state file as it starts,     *)
(* before the lock is taken.                                                *)
Started(mode, mine) ==
  [Gone EXCEPT !.at = "started", !.mode = mode, !.mine = mine,
               !.commit = file.commit, !.prev = file.prev,
               !.restart = file.restart]

(* Someone types the command in a shell. *)
RunByHand ==
  /\ "hand" \in Faults /\ source # "none"
  /\ \E w \in Free, mode \in {"check", "apply", "rollback"} :
       work' = [work EXCEPT ![w] = Started(mode, FALSE)]
  /\ UNCHANGED <<source, remote, disk, binary, backup, stops, file, lock, svcVars, loopVars>>

Ends(w, code) ==
  /\ work' = [work EXCEPT ![w] = [Gone EXCEPT !.code = code]]
  /\ lock' = IF lock = w THEN None ELSE lock

(* flock -n: taken, or "un autre travail est en cours". *)
TakeLock(w) ==
  /\ work[w].at = "started"
  /\ IF lock = None
     THEN lock' = w /\ work' = [work EXCEPT ![w].at = "locked"]
     ELSE Ends(w, 1)
  /\ UNCHANGED <<source, remote, disk, binary, backup, stops, file, svcVars, loopVars>>

(* write_state(), with the variables of the script. *)
Write(w, s, r, p) == State(s, work[w].commit, work[w].prev, r, p)

(* conclure(): a pending restart outlives what a check concludes. *)
Conclude(w, s, r, p) ==
  Write(w, IF r /\ s \in {"checking", "up-to-date", "check-failed"}
           THEN "restart-pending" ELSE s, r, p)

(* redemarrage_fait(): the parent is the daemon and runs what is installed. *)
RestartDone(w) == work[w].restart /\ work[w].mine /\ self = disk

CheckBegins(w) ==
  /\ work[w].at = "locked" /\ work[w].mode = "check"
  /\ LET r == work[w].restart /\ ~RestartDone(w) IN
     IF source = "local"
     THEN /\ file' = Write(w, "updates-disabled", r, None)
          /\ Ends(w, 0)
     ELSE /\ file' = Conclude(w, "checking", r, w)
          /\ work' = [work EXCEPT ![w].at = "busy", ![w].restart = r]
          /\ UNCHANGED lock
  /\ UNCHANGED <<source, remote, disk, binary, backup, stops, svcVars, loopVars>>

(* The remote head: unreachable, the same, another one, or a rewritten one. *)
CheckEnds(w) ==
  /\ work[w].at = "busy" /\ work[w].mode = "check"
  /\ \/ /\ file' = Conclude(w, "check-failed", work[w].restart, None)
        /\ Ends(w, 1)
     \/ /\ remote = work[w].commit
        /\ file' = Conclude(w, "up-to-date", work[w].restart, None)
        /\ Ends(w, 0)
     \/ /\ remote # work[w].commit
        /\ \E s \in {"available"} \cup
                   IF work[w].commit = Unknown THEN {} ELSE {"history-rewritten"} :
             file' = Conclude(w, s, work[w].restart, None)
        /\ Ends(w, 0)
  /\ UNCHANGED <<source, remote, disk, binary, backup, stops, svcVars, loopVars>>

ApplyBegins(w) ==
  /\ work[w].at = "locked" /\ work[w].mode = "apply"
  /\ IF source = "local"
     THEN /\ file' = Write(w, "updates-disabled", work[w].restart, None)
          /\ Ends(w, 0)
     ELSE /\ file' = Write(w, "applying", work[w].restart, w)
          /\ work' = [work EXCEPT ![w].at = "busy"]
          /\ UNCHANGED lock
  /\ UNCHANGED <<source, remote, disk, binary, backup, stops, svcVars, loopVars>>

(* The sources are there; they are built and tested beside the progress     *)
(* watcher, which rewrites the state as it is.                              *)
ApplyBuilds(w) ==
  /\ work[w].at = "busy" /\ work[w].mode = "apply"
  /\ work' = [work EXCEPT ![w].at = "building", ![w].new = remote]
  /\ UNCHANGED <<source, remote, disk, binary, backup, stops, file, lock, svcVars, loopVars>>

(* Fetching, building or testing fails: nothing is installed. *)
ApplyFails(w) ==
  /\ work[w].at \in {"busy", "building"} /\ work[w].mode = "apply"
  /\ file' = Write(w, "apply-failed", work[w].restart, None)
  /\ Ends(w, 1)
  /\ UNCHANGED <<source, remote, disk, binary, backup, stops, svcVars, loopVars>>

(* place(): cp opens termos.previous, which is empty from then on ...       *)
PlaceSaves(w) ==
  /\ work[w].at = "building" /\ disk < MaxInode
  /\ backup' = Torn
  /\ work' = [work EXCEPT ![w].at = "saving"]
  /\ UNCHANGED <<source, remote, disk, binary, stops, file, lock, svcVars, loopVars>>

(* ... and has copied the binary ...                                        *)
PlaceSaved(w) ==
  /\ work[w].at = "saving"
  /\ backup' = binary
  /\ work' = [work EXCEPT ![w].at = "saved"]
  /\ UNCHANGED <<source, remote, disk, binary, stops, file, lock, svcVars, loopVars>>

(* ... and the new binary, copied beside, is renamed: it has a new inode.   *)
(* --rollback does the same with termos.previous.                           *)
PlaceRenames(w) ==
  /\ disk < MaxInode /\ disk' = disk + 1
  /\ \/ work[w].at = "saved" /\ binary' = work[w].new
     \/ /\ work[w].at = "locked" /\ work[w].mode = "rollback" /\ backup # Unknown
        /\ binary' = backup
  /\ work' = [work EXCEPT ![w].at = "placed"]
  /\ UNCHANGED <<source, remote, backup, stops, file, lock, svcVars, loopVars>>

(* The commit the script then calls installed. *)
Installed(w) == IF work[w].mode = "apply" THEN work[w].new ELSE work[w].prev

(* The last state written by --apply and --rollback. *)
PlaceEnds(w) ==
  /\ work[w].at = "placed"
  /\ file' = IF work[w].mode = "apply"
             THEN State("restart-pending", Installed(w), work[w].commit, TRUE, None)
             ELSE State("available", Installed(w), Unknown, TRUE, None)
  /\ Ends(w, 0)
  /\ UNCHANGED <<source, remote, disk, binary, backup, stops, svcVars, loopVars>>

(* --rollback without a previous binary. *)
RollbackFails(w) ==
  /\ work[w].at = "locked" /\ work[w].mode = "rollback" /\ backup = Unknown
  /\ file' = Write(w, "apply-failed", work[w].restart, None)
  /\ Ends(w, 1)
  /\ UNCHANGED <<source, remote, disk, binary, backup, stops, svcVars, loopVars>>

IsStopped(w) ==
  /\ stops.times < MaxStop
  /\ stops' = [times |-> stops.times + 1,
               at |-> stops.at \cup ({work[w].at} \cap Installing)]

(* set -e: a command fails outside of a test, the script ends, and it does  *)
(* not write the state.                                                     *)
Aborts(w) ==
  /\ "full" \in Faults /\ Alive(w) /\ IsStopped(w)
  /\ Ends(w, 1)
  /\ UNCHANGED <<source, remote, disk, binary, backup, file, svcVars, loopVars>>

(* The script is killed. The lock belongs to the open file, which the tools *)
(* and the progress watcher it started have inherited; the cp that it       *)
(* leaves finishes its copy, or does not.                                   *)
WorkerDies(w) ==
  /\ "kill" \in Faults /\ Alive(w) /\ IsStopped(w)
  /\ LET left == CASE work[w].at = "building" -> "watcher"
                   [] work[w].at \in {"busy", "saving"} -> "tools"
                   [] OTHER -> "none" IN
     /\ work' = [work EXCEPT ![w] = [Gone EXCEPT !.code = 9, !.left = left]]
     /\ lock' = IF lock = w /\ left = "none" THEN None ELSE lock
  /\ backup' \in {backup} \cup (IF work[w].at = "saving" THEN {binary} ELSE {})
  /\ UNCHANGED <<source, remote, disk, binary, file, svcVars, loopVars>>

(* git, curl and the others have a timeout; the watcher never ends. *)
ToolsEnd(w) ==
  /\ work[w].left = "tools"
  /\ work' = [work EXCEPT ![w].left = "none"]
  /\ lock' = IF lock = w THEN None ELSE lock
  /\ UNCHANGED <<source, remote, disk, binary, backup, stops, file, svcVars, loopVars>>

(* Someone pushes to the repository. *)
Push ==
  /\ remote < MaxCommit /\ remote' = remote + 1
  /\ UNCHANGED <<source, disk, binary, backup, stops, file, work, lock, svcVars, loopVars>>

WorkerStep(w) ==
  \/ TakeLock(w) \/ CheckBegins(w) \/ CheckEnds(w) \/ ApplyBegins(w)
  \/ ApplyBuilds(w) \/ ApplyFails(w) \/ PlaceSaves(w) \/ PlaceSaved(w)
  \/ PlaceRenames(w) \/ PlaceEnds(w) \/ RollbackFails(w) \/ ToolsEnd(w)

-----------------------------------------------------------------------------
(* The service. *)

NeedsRestart == file.restart /\ self # disk

IsStale(c) == file.status \in InProgress /\ c = None /\ ~Alive(file.pid)

(* What the service keeps of the state file. *)
Read(restart) ==
  [status |-> IF file.status = "restart-pending" /\ ~restart
              THEN "up-to-date" ELSE file.status,
   known |-> file.commit # Unknown]

(* reload(), the service having c as its child. *)
Reload(c) ==
  /\ stale' = IsStale(c)
  /\ need' = NeedsRestart
  /\ seen' = Read(NeedsRestart)

Working == child # None \/ (~stale /\ seen.status \in InProgress)

(* entry(): the command offered, and whether it can be used. *)
Entry ==
  CASE seen.status = "updates-disabled" -> [id |-> "check", on |-> FALSE]
    [] seen.status # "updates-disabled" /\ Working ->
         [id |-> IF seen.status = "applying" THEN "apply" ELSE "check", on |-> FALSE]
    [] OTHER ->
         [id |-> IF need THEN "restart"
                 ELSE IF \/ seen.status \in {"history-rewritten", "available"}
                         \/ ~seen.known THEN "apply"
                 ELSE "check",
          on |-> TRUE]

(* launch(), and for the automatic check a new deadline when it has failed. *)
Launch(mode, byUser) ==
  \/ \E w \in Free :
       /\ source # "none"
       /\ work' = [work EXCEPT ![w] = Started(mode, TRUE)]
       /\ child' = w /\ manual' = byUser /\ sched' = FALSE /\ due' = "far"
  \/ /\ "fork" \in Faults \/ source = "none"
     /\ sched' = (sched \/ ~byUser)
     /\ due' = IF byUser THEN due ELSE "far"
     /\ UNCHANGED <<work, child, manual>>

(* run(). *)
Run(id) ==
  \/ /\ Entry.on /\ id = "restart"
     /\ want' = (want \/ need)
     /\ UNCHANGED <<work, child, manual, sched, due>>
  \/ /\ Entry.on /\ id # "restart"
     /\ Launch(id, TRUE)
     /\ UNCHANGED want
  \/ /\ ~Entry.on
     /\ UNCHANGED <<work, child, manual, sched, due, want>>

(* Nothing to wait for: updates are disabled, a child is at work, or there  *)
(* is no installation.                                                      *)
TickIdle == seen'.status = "updates-disabled" \/ child # None \/ source = "none"

(* tick(): reload, then a check if the deadline has passed. *)
Tick ==
  /\ Reload(child)
  /\ \/ /\ TickIdle
        /\ sched' = FALSE /\ due' = "far"
        /\ UNCHANGED <<work, child, manual>>
     \/ /\ ~TickIdle /\ ~(sched /\ due = "past")
        /\ sched' = TRUE /\ due' = IF sched THEN due ELSE "far"
        /\ UNCHANGED <<work, child, manual>>
     \/ /\ ~TickIdle /\ sched /\ due = "past"
        /\ Launch("check", FALSE)
  /\ report' = "" /\ UNCHANGED <<self, want, source, remote, disk, binary, backup, stops, file, lock>>

(* The mutant of on_child_exit(): automatic checks report too. *)
ChildExits_ReportsAll ==
  /\ child # None /\ work[child].at = "gone"
  /\ Reload(None)
  /\ report' = IF seen'.status = seen.status /\ work[child].code # 0 THEN "failed"
               ELSE seen'.status
  /\ child' = None /\ manual' = FALSE
  /\ sched' = TRUE /\ due' = "far"
  /\ UNCHANGED <<self, want, worldVars>>

(* on_child_exit(): reload, report to whoever asked, plan the next check.   *)
ChildExits ==
  /\ child # None /\ work[child].at = "gone"
  /\ Reload(None)
  /\ report' = IF ~manual THEN ""
               ELSE IF seen'.status = seen.status /\ work[child].code # 0 THEN "failed"
               ELSE seen'.status
  /\ child' = None /\ manual' = FALSE
  /\ sched' = TRUE /\ due' = "far"
  /\ UNCHANGED <<self, want, worldVars>>

-----------------------------------------------------------------------------
(* The event loop, seen from the service. *)

(* delay_ms() is zero, truncated to whole milliseconds. *)
DelayIsZero == sched /\ due # "far"

(* The timeout of epoll_wait(): a second with a client, else the delay      *)
(* before the deadline, unless it is zero.                                  *)
Timeout == attached \/ (sched /\ due = "far")

LoopTop ==
  /\ loop = "top" /\ loop' = IF DelayIsZero THEN "ticked" ELSE "asleep"
  /\ bounded' = Timeout
  /\ IF DelayIsZero THEN Tick
     ELSE /\ report' = ""
          /\ UNCHANGED <<worldVars, self, child, manual, sched, due, seen, stale,
                         need, want>>
  /\ UNCHANGED attached

(* mark_refresh_due(), once a second while a client is attached. *)
Refresh ==
  /\ loop = "top" /\ attached /\ loop' = "asleep" /\ bounded' = TRUE
  /\ Tick
  /\ UNCHANGED attached

Wakes ==
  /\ loop # "top" /\ loop' = "top"
  /\ UNCHANGED bounded

TimeoutWakes == bounded /\ Wakes /\ UNCHANGED <<worldVars, svcVars, attached>>

(* A client arrives or leaves. *)
ClientWakes == Wakes /\ attached' = ~attached /\ UNCHANGED <<worldVars, svcVars>>

(* SIGCHLD: reap_children() and Session::on_child_exit(). *)
ChildWakes == Wakes /\ ChildExits /\ UNCHANGED attached

(* The user asks for a command, or confirms one asked for earlier. *)
UserRuns ==
  /\ attached /\ Wakes
  /\ \E id \in {"check", "apply", "restart"} : Run(id)
  /\ UNCHANGED <<attached, source, remote, disk, binary, backup, stops, file, lock,
                 self, report, seen, stale, need>>

TimePasses ==
  /\ sched /\ due # "past"
  /\ due' = IF due = "far" /\ "submilli" \in Faults THEN "near" ELSE "past"
  /\ UNCHANGED <<worldVars, self, child, manual, report, sched, seen, stale,
                 need, want, loopVars>>

(* The daemon stops, because a restart was asked for or because it is       *)
(* killed, and the next one starts from the installed binary. A script that *)
(* is still running has lost its parent. Half a binary starts nothing.      *)
DaemonRestarts ==
  /\ want \/ "crash" \in Faults
  /\ binary # Torn
  /\ self' = disk /\ child' = None /\ manual' = FALSE /\ report' = ""
  /\ work' = [w \in Worker |-> [work[w] EXCEPT !.mine = FALSE]]
  /\ stale' = IsStale(None) /\ need' = FALSE
  /\ seen' = Read(FALSE)
  /\ sched' = (seen'.status # "updates-disabled" /\ source # "none") /\ due' = "far"
  /\ want' = FALSE /\ attached' = FALSE /\ loop' = "top" /\ bounded' = FALSE
  /\ UNCHANGED <<source, remote, disk, binary, backup, stops, file, lock>>

-----------------------------------------------------------------------------
UpdateInit ==
  /\ source \in {"git", "local", "none"}
  /\ remote = 0 /\ disk = 0 /\ self = 0 /\ binary = 0 /\ backup = Unknown
  /\ stops = [times |-> 0, at |-> {}]
  /\ file = State("up-to-date", 0, Unknown, FALSE, None)
  /\ work = [w \in Worker |-> Gone] /\ lock = None
  /\ child = None /\ manual = FALSE /\ report = ""
  /\ sched = (source # "none") /\ due = "far"
  /\ seen = [status |-> "up-to-date", known |-> TRUE] /\ stale = FALSE /\ need = FALSE /\ want = FALSE
  /\ attached = FALSE /\ loop = "top" /\ bounded = FALSE

(* A daemon that has granted a restart leaves its loop. *)
ServiceStep ==
  /\ ~want
  /\ \/ LoopTop \/ Refresh \/ TimeoutWakes \/ ClientWakes \/ ChildWakes \/ UserRuns

Next ==
  \/ ServiceStep
  \/ \E w \in Worker : WorkerStep(w) \/ Aborts(w) \/ WorkerDies(w)
  \/ RunByHand \/ Push \/ TimePasses \/ DaemonRestarts

Spec == UpdateInit /\ [][Next]_updateVars

(* Scheduling: the loop runs, signals and timeouts wake it, time passes, a  *)
(* script ends, a granted restart happens. Nobody has to attach or to ask.  *)
Fairness ==
  /\ WF_updateVars(ServiceStep /\ LoopTop) /\ SF_updateVars(ServiceStep /\ Refresh)
  /\ WF_updateVars(TimeoutWakes) /\ SF_updateVars(ServiceStep /\ ChildWakes)
  /\ WF_updateVars(TimePasses) /\ WF_updateVars(want /\ DaemonRestarts)
  /\ \A w \in Worker : WF_updateVars(WorkerStep(w))

FairSpec == Spec /\ Fairness

-----------------------------------------------------------------------------
(* Type invariant. *)
UpdateTypeOK ==
  LET Commit == {Unknown} \cup 0..MaxCommit IN
  /\ source \in {"git", "local", "none"} /\ remote \in 0..MaxCommit
  /\ disk \in 0..MaxInode /\ self \in 0..MaxInode
  /\ binary \in {Torn} \cup 0..MaxCommit /\ backup \in {Torn} \cup Commit
  /\ stops \in [times : 0..MaxStop, at : SUBSET Installing]
  /\ file \in [status : Statuses, commit : Commit, prev : Commit,
               restart : BOOLEAN, pid : Worker \cup {None}]
  /\ seen \in [status : Statuses, known : BOOLEAN]
  /\ work \in [Worker -> [at : {"gone", "started", "locked", "busy", "building"} \cup Installing,
                          mode : {"check", "apply", "rollback"}, mine : BOOLEAN,
                          commit : Commit, prev : Commit, restart : BOOLEAN,
                          new : Commit, code : {0, 1, 9},
                          left : {"none", "tools", "watcher"}]]
  /\ lock \in Worker \cup {None} /\ child \in Worker \cup {None}
  /\ report \in Statuses \cup {"", "failed"}
  /\ {manual, sched, stale, need, want, attached, bounded} \subseteq BOOLEAN
  /\ due \in {"far", "near", "past"} /\ loop \in {"top", "asleep", "ticked"}

Quiet == \A w \in Worker : ~Alive(w)

(* An installed binary that is not the running one is not forgotten: once   *)
(* no script is at work the state file says that a restart is pending,      *)
(* whatever checks came after ("une verification ne dement pas un           *)
(* redemarrage en attente", update.sh). A script stopped after its rename   *)
(* and before it writes the state has told nobody, and is the exception.    *)
RestartRemembered ==
  Quiet /\ disk # self /\ "placed" \notin stops.at => file.restart

(* The state file tells the truth about what is installed, across updates,  *)
(* rollbacks, failures, and scripts stopped anywhere but inside an          *)
(* installation: stopped there, termos.previous or the binary is no longer  *)
(* what the file says it is (place(), do_rollback()).                       *)
RecordIsTrue == Quiet /\ stops.at = {} => file.commit \in {Unknown, binary}

(* The daily deadline is served, client or not: "une echeance qui ne        *)
(* battrait que client attache ne battrait presque jamais" (daemon.cpp).    *)
(* One exception: the turn that calls tick() has folded no timeout, so a    *)
(* deadline that tick() leaves planned, because fork() failed or because    *)
(* its last millisecond was still running, waits there for the next event,  *)
(* although tick() says that it tries again.                                *)
DeadlineServed ==
  LET past == sched /\ due = "past" IN past ~> (~past \/ (loop = "ticked" /\ ~attached))

(* A script that dies does not leave the command disabled under the eyes of *)
(* an attached user.                                                        *)
WorkShownEnds == <>[]attached => []<>(~Working)
=============================================================================
