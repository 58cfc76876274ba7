--------------------------- MODULE SessionProofs ---------------------------
(***************************************************************************)
(* Proofs about the update service and its script, for every number of     *)
(* processes, commits and installations; then about the dialog box of the  *)
(* session: for every set of windows, every set of script processes and    *)
(* whatever the environment does, which windows a "yes" may close and what *)
(* a "yes" to a question about an update does.                             *)
(***************************************************************************)
EXTENDS Session, TLAPS

-----------------------------------------------------------------------------
(*                      The update service and its script                  *)

Inside == {"locked", "busy", "building"} \cup Installing

(* flock: who is past the lock holds it, and so do the tools and the        *)
(* watcher that a killed script leaves behind.                              *)
LockHeld ==
  \A w \in Worker :
    /\ work[w].at \in Inside => lock = w
    /\ work[w].left # "none" => work[w].at = "gone" /\ lock = w

(* What a process builds is known before it is installed. *)
BuildsSomething ==
  \A w \in Worker :
    /\ work[w].at \in {"building", "saving", "saved"} =>
         work[w].mode = "apply" /\ work[w].new # Unknown
    /\ work[w].at = "placed" => work[w].mode \in {"apply", "rollback"}
    /\ work[w].at = "placed" /\ work[w].mode = "apply" => work[w].new # Unknown

ScriptInv == UpdateTypeOK /\ LockHeld /\ BuildsSomething

(* Two processes are never past the lock together. *)
OneScriptAtWork ==
  \A v, w \in Worker : work[v].at \in Inside /\ work[w].at \in Inside => v = w

-----------------------------------------------------------------------------
AtMostOne == \A v, w \in Worker : Alive(v) /\ Alive(w) => v = w

(* What the script read as it started is what the state file says. *)
Copies ==
  \A w \in Worker : Alive(w) =>
    /\ work[w].commit = file.commit /\ work[w].prev = file.prev
    /\ work[w].restart = file.restart

NonePlaced == \A w \in Worker : work[w].at # "placed"

NoneInstalls == \A w \in Worker : work[w].at \notin Installing

Recorded ==
  stops.at = {} => file.commit \in {Unknown, binary} /\ file.prev \in {Unknown, backup}

Remembered == "placed" \notin stops.at /\ disk # self => file.restart

(* From the copy to termos.previous to the last write_state() the record    *)
(* lies, of the previous binary first, then of the installed one; and the   *)
(* process has what it takes to make it true.                               *)
ToBeRecorded(w) ==
  stops.at = {} =>
    /\ work[w].at \in {"saving", "saved"} => file.commit \in {Unknown, binary}
    /\ work[w].at = "saved" => backup = binary
    /\ work[w].at = "placed" /\ work[w].mode = "apply" =>
         work[w].new = binary /\ file.commit \in {Unknown, backup}
    /\ work[w].at = "placed" /\ work[w].mode # "apply" => file.prev \in {Unknown, binary}

RecordInv ==
  /\ NoneInstalls => Recorded
  /\ \A w \in Worker : work[w].at \in Installing => ToBeRecorded(w)

RestartInv == NonePlaced => Remembered

Faithful == AtMostOne /\ Copies /\ RecordInv /\ RestartInv

UpdateInv == ScriptInv /\ Faithful

-----------------------------------------------------------------------------
(* The parts of the type invariant. *)

Commits == {Unknown} \cup 0..MaxCommit

Builds == {Torn} \cup 0..MaxCommit

Backups == {Torn} \cup Commits

Stops == [times : 0..MaxStop, at : SUBSET Installing]

Files ==
  [status : Statuses, commit : Commits, prev : Commits, restart : BOOLEAN,
   pid : Worker \cup {None}]

Procs ==
  [at : {"gone", "started", "locked", "busy", "building"} \cup Installing,
   mode : {"check", "apply", "rollback"}, mine : BOOLEAN,
   commit : Commits, prev : Commits, restart : BOOLEAN, new : Commits,
   code : {0, 1, 9}, left : {"none", "tools", "watcher"}]

DiskTypes ==
  /\ source \in {"git", "local", "none"} /\ remote \in 0..MaxCommit
  /\ disk \in 0..MaxInode /\ binary \in Builds /\ backup \in Backups /\ stops \in Stops
  /\ file \in Files /\ work \in [Worker -> Procs] /\ lock \in Worker \cup {None}

ServiceTypes ==
  /\ self \in 0..MaxInode
  /\ seen \in [status : Statuses, known : BOOLEAN] /\ child \in Worker \cup {None}
  /\ report \in Statuses \cup {"", "failed"}
  /\ manual \in BOOLEAN /\ sched \in BOOLEAN /\ stale \in BOOLEAN /\ need \in BOOLEAN
  /\ want \in BOOLEAN /\ due \in {"far", "near", "past"}

LoopTypes ==
  attached \in BOOLEAN /\ bounded \in BOOLEAN /\ loop \in {"top", "asleep", "ticked"}

(* The type invariant is its three parts: the world, the service, the loop. *)
LEMMA TypeParts == UpdateTypeOK <=> DiskTypes /\ ServiceTypes /\ LoopTypes
  BY DEF UpdateTypeOK, DiskTypes, ServiceTypes, LoopTypes, Commits, Builds, Backups,
         Stops, Files, Procs

(* A process starts and ends as a well-formed one. *)
LEMMA ProcShapes ==
  /\ Gone \in Procs
  /\ \A c \in {0, 1, 9}, l \in {"none", "tools", "watcher"} :
       LET r == [Gone EXCEPT !.code = c, !.left = l] IN
       r \in Procs /\ r.at = "gone" /\ r.left = l
  /\ \A c \in {0, 1, 9} :
       LET r == [Gone EXCEPT !.code = c] IN
       r \in Procs /\ r.at = "gone" /\ r.left = "none"
  BY DEF Gone, Procs, Commits

(* Process w becomes r, and the others stay. *)
Becomes(w, r) == r \in Procs /\ work' = [work EXCEPT ![w] = r]

NoOther(w) == \A v \in Worker : v # w => work[v].at = "gone"

(* What r owes the lock, and what it does to those who hold it. *)
KeepsLock(w, r) ==
  /\ r.at \in Inside => lock' = w
  /\ r.left # "none" => r.at = "gone" /\ lock' = w
  /\ \A v \in Worker : v # w /\ lock = v => lock' = v
  /\ lock' \in Worker \cup {None}

KeepsBuild(r) ==
  /\ r.at \in {"building", "saving", "saved"} => r.mode = "apply" /\ r.new # Unknown
  /\ r.at = "placed" => r.mode \in {"apply", "rollback"}
  /\ r.at = "placed" /\ r.mode = "apply" => r.new # Unknown

(* What one process needs so that the record stays true, or can be made so. *)
Settled(r) ==
  /\ r.at # "gone" =>
       r.commit = file'.commit /\ r.prev = file'.prev /\ r.restart = file'.restart
  /\ r.at \notin Installing => Recorded'
  /\ r.at # "placed" => Remembered'
  /\ stops'.at = {} =>
       /\ r.at \in {"saving", "saved"} => file'.commit \in {Unknown, binary'}
       /\ r.at = "saved" => backup' = binary'
       /\ r.at = "placed" /\ r.mode = "apply" =>
            r.new = binary' /\ file'.commit \in {Unknown, backup'}
       /\ r.at = "placed" /\ r.mode # "apply" => file'.prev \in {Unknown, binary'}

(* The lock and the build survive a step of one process. *)
LEMMA BecomesKeeps ==
  ASSUME work \in [Worker -> Procs], LockHeld, BuildsSomething,
         NEW w \in Worker, NEW r, Becomes(w, r), KeepsLock(w, r), KeepsBuild(r)
  PROVE  work' \in [Worker -> Procs] /\ LockHeld' /\ BuildsSomething'
<1>1. work' \in [Worker -> Procs] /\ work'[w] = r
      /\ \A v \in Worker : v # w => work'[v] = work[v]
  BY DEF Becomes
<1>2. LockHeld'
  BY <1>1 DEF LockHeld, KeepsLock
<1>3. BuildsSomething'
  BY <1>1 DEF BuildsSomething, KeepsBuild
<1>4. QED  BY <1>1, <1>2, <1>3

(* A process that is alone has the whole record in its hands. *)
LEMMA BecomesFaithful ==
  ASSUME work \in [Worker -> Procs], NEW w \in Worker, NoOther(w),
         NEW r, Becomes(w, r), Settled(r)
  PROVE  Faithful'
<1>1. work'[w] = r /\ \A v \in Worker : v # w => work'[v].at = "gone"
  BY DEF Becomes, NoOther
<1>2. AtMostOne'
  BY <1>1 DEF AtMostOne, Alive
<1>3. Copies'
  BY <1>1 DEF Copies, Alive, Settled
<1>4. (NonePlaced' <=> r.at # "placed") /\ (NoneInstalls' <=> r.at \notin Installing)
  BY <1>1 DEF NonePlaced, NoneInstalls, Installing
<1>5. RecordInv'
  <2>1. NoneInstalls' => Recorded'
    BY <1>4 DEF Settled
  <2>2. ASSUME NEW v \in Worker, work'[v].at \in Installing PROVE ToBeRecorded(v)'
    <3>1. work'[v] = r
      BY <1>1, <2>2 DEF Installing
    <3>2. QED  BY <3>1 DEF Settled, ToBeRecorded
  <2>3. QED  BY <2>1, <2>2 DEF RecordInv
<1>6. RestartInv'
  BY <1>1, <1>4 DEF RestartInv, Settled
<1>7. QED  BY <1>2, <1>3, <1>5, <1>6 DEF Faithful

(* What a live process knows: it is alone, its copies are those of the      *)
(* file, and the record is true unless it has just installed something.     *)
Knows(w) ==
  /\ NoOther(w)
  /\ work[w].commit = file.commit /\ work[w].prev = file.prev
  /\ work[w].restart = file.restart
  /\ work[w].at \notin Installing => Recorded
  /\ work[w].at # "placed" => Remembered
  /\ work[w].at \in Installing => ToBeRecorded(w)

(* It does, when the record is faithful. *)
LEMMA AliveKnows ==
  ASSUME Faithful, NEW w \in Worker, work[w].at # "gone"
  PROVE  Knows(w)
<1>1. Alive(w)
  BY UpdateAssumption DEF Alive
<1>2. NoOther(w)
  BY <1>1, UpdateAssumption DEF Faithful, AtMostOne, NoOther, Alive
<1>3. /\ work[w].at # "placed" => NonePlaced
      /\ work[w].at \notin Installing => NoneInstalls
  BY <1>2 DEF NonePlaced, NoneInstalls, NoOther, Installing
<1>4. QED  BY <1>1, <1>2, <1>3 DEF Knows, Faithful, Copies, RecordInv, RestartInv

-----------------------------------------------------------------------------
(* The steps of the script. Each keeps the invariant of the lock in every   *)
(* environment, and the record when one script runs at a time.              *)

StepKept(w) ==
  /\ DiskTypes' /\ LockHeld' /\ BuildsSomething'
  /\ Faithful => Faithful'

Start == DiskTypes /\ self \in 0..MaxInode /\ LockHeld /\ BuildsSomething

(* The state file after a step that only changes its status and its pid. *)
Rewritten(r) == file' \in Files /\ file'.commit = file.commit
                /\ file'.prev = file.prev /\ file'.restart = r

(* The exit of a process, whatever its code. *)
LEMMA EndsIsFine ==
  ASSUME Start, NEW w \in Worker, NEW c \in {0, 1, 9}, Ends(w, c)
  PROVE  LET r == [Gone EXCEPT !.code = c] IN
         Becomes(w, r) /\ r.at = "gone" /\ KeepsLock(w, r) /\ KeepsBuild(r)
<1> DEFINE r == [Gone EXCEPT !.code = c]
<1>1. r \in Procs /\ r.at = "gone" /\ r.left = "none"
  BY ProcShapes
<1>2. Becomes(w, r)
  BY <1>1 DEF Becomes, Ends
<1> HIDE DEF r
<1>3. lock' = IF lock = w THEN None ELSE lock
  BY DEF Ends
<1>4. KeepsLock(w, r)
  BY <1>1, <1>3 DEF KeepsLock, Inside, Installing, Start, DiskTypes
<1>5. KeepsBuild(r)
  BY <1>1 DEF KeepsBuild
<1>6. QED  BY <1>1, <1>2, <1>4, <1>5 DEF r

(* A process moves on under the lock it holds. *)
LEMMA MovesOn ==
  ASSUME Start, NEW w \in Worker, work[w].at \in Inside \cup {"started"}, lock' = w,
         lock = w \/ lock = None,
         NEW r \in Procs, r.left = work[w].left
  PROVE  KeepsLock(w, r)
<1>1. r.left = "none"
  BY DEF Start, LockHeld, Inside, Installing
<1>2. QED  BY <1>1, UpdateAssumption DEF KeepsLock

(* The step as a whole, from its parts. *)
LEMMA KeptFromParts ==
  ASSUME Start, NEW w \in Worker, work[w].at # "gone", NEW r,
         Becomes(w, r), KeepsLock(w, r), KeepsBuild(r),
         source' = source, remote' = remote, disk' \in 0..MaxInode,
         binary' \in Builds, backup' \in Backups, stops' \in Stops, file' \in Files,
         Knows(w) => Settled(r)
  PROVE  StepKept(w)
<1>1. work' \in [Worker -> Procs] /\ LockHeld' /\ BuildsSomething'
  BY BecomesKeeps DEF Start, DiskTypes
<1>2. DiskTypes'
  BY <1>1 DEF DiskTypes, Start, KeepsLock
<1>3. ASSUME Faithful PROVE Faithful'
  <2>1. Knows(w)
    BY <1>3, AliveKnows
  <2>2. NoOther(w)
    BY <2>1 DEF Knows
  <2>3. QED  BY <2>1, <2>2, BecomesFaithful DEF Start, DiskTypes
<1>4. QED  BY <1>1, <1>2, <1>3 DEF StepKept

(* The last write of a process that installed nothing, and its exit. *)
LEMMA EndsKept ==
  ASSUME Start, NEW w \in Worker, work[w].at \notin {"gone", "saving", "saved", "placed"},
         NEW c \in {0, 1, 9}, Ends(w, c),
         UNCHANGED <<source, remote, disk, binary, backup, stops, self>>, file' \in Files,
         Knows(w) => Rewritten(file'.restart) /\ (Remembered => Remembered')
  PROVE  StepKept(w)
<1> DEFINE r == [Gone EXCEPT !.code = c]
<1>1. Becomes(w, r) /\ r.at = "gone" /\ KeepsLock(w, r) /\ KeepsBuild(r)
  BY EndsIsFine
<1> HIDE DEF r
<1>2. Knows(w) => Settled(r)
  BY <1>1 DEF Knows, Rewritten, Settled, Recorded, Installing
<1>3. QED  BY <1>1, <1>2, KeptFromParts DEF Start, DiskTypes

(* write_state(): a well-formed file that keeps what the process knows. *)
LEMMA WriteIsFine ==
  ASSUME Start, NEW w \in Worker, NEW s \in Statuses, NEW r \in BOOLEAN,
         NEW p \in Worker \cup {None}
  PROVE  LET f == Write(w, s, r, p) IN
         /\ f \in Files /\ f.commit = work[w].commit /\ f.prev = work[w].prev
         /\ f.restart = r
  BY DEF Write, State, Files, Start, DiskTypes, Procs

(* conclure(), the same: only the status may become restart-pending. *)
LEMMA ConcludeIsFine ==
  ASSUME Start, NEW w \in Worker, NEW s \in Statuses, NEW r \in BOOLEAN,
         NEW p \in Worker \cup {None}
  PROVE  LET f == Conclude(w, s, r, p) IN
         /\ f \in Files /\ f.commit = work[w].commit /\ f.prev = work[w].prev
         /\ f.restart = r
<1> DEFINE t == IF r /\ s \in {"checking", "up-to-date", "check-failed"}
                THEN "restart-pending" ELSE s
<1>1. t \in Statuses
  BY DEF Statuses
<1>2. Conclude(w, s, r, p) = Write(w, t, r, p)
  BY DEF Conclude
<1> HIDE DEF t
<1>3. QED  BY <1>1, <1>2, WriteIsFine

(* flock -n: the lock is taken, or the process leaves. *)
LEMMA TakeLockKept ==
  ASSUME Start, NEW w \in Worker, TakeLock(w), UNCHANGED self PROVE StepKept(w)
<1>0. /\ work[w].at = "started" /\ w \in Worker \cup {None} /\ file' \in Files
      /\ UNCHANGED <<source, remote, disk, binary, backup, stops, file>>
  BY DEF TakeLock, Start, DiskTypes
<1>1. CASE lock = None
  <2> DEFINE r == [work[w] EXCEPT !.at = "locked"]
  <2>1. work[w] \in Procs
    BY DEF Start, DiskTypes
  <2>2. /\ r \in Procs /\ r.at = "locked" /\ r.left = work[w].left
        /\ r.commit = work[w].commit /\ r.prev = work[w].prev /\ r.restart = work[w].restart
    BY <2>1 DEF Procs
  <2>3. lock' = w /\ work' = [work EXCEPT ![w] = r]
    BY <1>1 DEF TakeLock
  <2> HIDE DEF r
  <2>4. Becomes(w, r)
    BY <2>2, <2>3 DEF Becomes
  <2>5. KeepsLock(w, r)
    BY <1>0, <1>1, <2>2, <2>3, MovesOn
  <2>6. KeepsBuild(r)
    BY <2>2 DEF KeepsBuild
  <2>7. Knows(w) => Settled(r)
    BY <1>0, <2>2 DEF Knows, Settled, Recorded, Remembered, Installing
  <2>8. QED  BY <1>0, <2>4, <2>5, <2>6, <2>7, KeptFromParts DEF Start, DiskTypes
<1>2. CASE lock # None
  <2>1. Ends(w, 1)
    BY <1>2 DEF TakeLock
  <2>2. Knows(w) => Rewritten(file'.restart) /\ (Remembered => Remembered')
    BY <1>0 DEF Knows, Rewritten, Remembered
  <2>3. QED  BY <1>0, <2>1, <2>2, EndsKept
<1>3. QED  BY <1>1, <1>2

(* do_check() up to its first write: a restart is forgotten only when the   *)
(* daemon that asks runs what is installed.                                 *)
LEMMA CheckBeginsKept ==
  ASSUME Start, NEW w \in Worker, CheckBegins(w), UNCHANGED self PROVE StepKept(w)
<1> DEFINE q == work[w].restart /\ ~RestartDone(w)
<1>0. /\ work[w].at = "locked" /\ lock = w /\ work[w] \in Procs
      /\ UNCHANGED <<source, remote, disk, binary, backup, stops>>
  BY DEF CheckBegins, Start, DiskTypes, LockHeld, Inside
<1>1. q \in BOOLEAN /\ (disk # self => q = work[w].restart)
  BY <1>0 DEF RestartDone, Procs
<1>2. IF source = "local"
      THEN file' = Write(w, "updates-disabled", q, None) /\ Ends(w, 0)
      ELSE /\ file' = Conclude(w, "checking", q, w)
           /\ work' = [work EXCEPT ![w].at = "busy", ![w].restart = q]
           /\ UNCHANGED lock
  BY DEF CheckBegins
<1> HIDE DEF q
<1>3. "updates-disabled" \in Statuses /\ "checking" \in Statuses
  BY DEF Statuses
<1>4. CASE source = "local"
  <2>1. file' \in Files /\ file'.commit = work[w].commit /\ file'.prev = work[w].prev
        /\ file'.restart = q
    BY <1>1, <1>2, <1>3, <1>4, WriteIsFine
  <2>2. Knows(w) => Rewritten(file'.restart) /\ (Remembered => Remembered')
    BY <1>0, <1>1, <2>1 DEF Knows, Rewritten, Remembered
  <2>3. Ends(w, 0)
    BY <1>2, <1>4
  <2>4. QED  BY <1>0, <2>1, <2>2, <2>3, EndsKept
<1>5. CASE source # "local"
  <2> DEFINE r == [work[w] EXCEPT !.at = "busy", !.restart = q]
  <2>1. file' \in Files /\ file'.commit = work[w].commit /\ file'.prev = work[w].prev
        /\ file'.restart = q
    BY <1>1, <1>2, <1>3, <1>5, ConcludeIsFine
  <2>2. /\ r \in Procs /\ r.at = "busy" /\ r.left = work[w].left
        /\ r.commit = work[w].commit /\ r.prev = work[w].prev /\ r.restart = q
    BY <1>0, <1>1 DEF Procs
  <2>3. lock' = w /\ work' = [work EXCEPT ![w] = r]
    BY <1>0, <1>2, <1>5 DEF Start, DiskTypes
  <2> HIDE DEF r
  <2>4. Becomes(w, r)
    BY <2>2, <2>3 DEF Becomes
  <2>5. KeepsLock(w, r)
    BY <1>0, <2>2, <2>3, MovesOn DEF Inside
  <2>6. KeepsBuild(r)
    BY <2>2 DEF KeepsBuild
  <2>7. Knows(w) => Settled(r)
    BY <1>0, <1>1, <2>1, <2>2 DEF Knows, Settled, Recorded, Remembered, Installing
  <2>8. QED  BY <1>0, <2>1, <2>4, <2>5, <2>6, <2>7, KeptFromParts DEF Start, DiskTypes
<1>6. QED  BY <1>4, <1>5

(* do_check() from the answer of the remote repository on. *)
LEMMA CheckEndsKept ==
  ASSUME Start, NEW w \in Worker, CheckEnds(w), UNCHANGED self PROVE StepKept(w)
<1>0. /\ work[w].at = "busy" /\ work[w] \in Procs
      /\ UNCHANGED <<source, remote, disk, binary, backup, stops>>
  BY DEF CheckEnds, Start, DiskTypes
<1>1. PICK s \in Statuses, c \in {0, 1} :
        file' = Conclude(w, s, work[w].restart, None) /\ Ends(w, c)
  BY DEF CheckEnds, Statuses
<1>2. work[w].restart \in BOOLEAN
  BY <1>0 DEF Procs
<1>3. /\ file' \in Files /\ file'.commit = work[w].commit /\ file'.prev = work[w].prev
      /\ file'.restart = work[w].restart
  BY <1>1, <1>2, ConcludeIsFine
<1>4. Knows(w) => Rewritten(file'.restart) /\ (Remembered => Remembered')
  BY <1>0, <1>3 DEF Knows, Rewritten, Remembered
<1>5. QED  BY <1>0, <1>1, <1>3, <1>4, EndsKept

(* The failures of --apply and --rollback: nothing is installed. *)
LEMMA FailsKept ==
  ASSUME Start, NEW w \in Worker, ApplyFails(w) \/ RollbackFails(w), UNCHANGED self
  PROVE  StepKept(w)
<1>0. /\ work[w].at \notin {"gone", "saving", "saved", "placed"} /\ work[w] \in Procs /\ Ends(w, 1)
      /\ UNCHANGED <<source, remote, disk, binary, backup, stops>>
      /\ file' = Write(w, "apply-failed", work[w].restart, None)
  BY DEF ApplyFails, RollbackFails, Start, DiskTypes
<1>1. work[w].restart \in BOOLEAN /\ "apply-failed" \in Statuses
  BY <1>0 DEF Procs, Statuses
<1>2. /\ file' \in Files /\ file'.commit = work[w].commit /\ file'.prev = work[w].prev
      /\ file'.restart = work[w].restart
  BY <1>0, <1>1, WriteIsFine
<1>3. Knows(w) => Rewritten(file'.restart) /\ (Remembered => Remembered')
  BY <1>0, <1>2 DEF Knows, Rewritten, Remembered
<1>4. QED  BY <1>0, <1>2, <1>3, EndsKept

(* do_apply() up to its first write. *)
LEMMA ApplyBeginsKept ==
  ASSUME Start, NEW w \in Worker, ApplyBegins(w), UNCHANGED self PROVE StepKept(w)
<1>0. /\ work[w].at = "locked" /\ lock = w /\ work[w] \in Procs
      /\ UNCHANGED <<source, remote, disk, binary, backup, stops>>
  BY DEF ApplyBegins, Start, DiskTypes, LockHeld, Inside
<1>1. /\ work[w].restart \in BOOLEAN
      /\ "updates-disabled" \in Statuses /\ "applying" \in Statuses
  BY <1>0 DEF Procs, Statuses
<1>2. /\ file' \in Files /\ file'.commit = work[w].commit /\ file'.prev = work[w].prev
      /\ file'.restart = work[w].restart
  BY <1>1, WriteIsFine DEF ApplyBegins
<1>3. CASE source = "local"
  <2>1. Knows(w) => Rewritten(file'.restart) /\ (Remembered => Remembered')
    BY <1>0, <1>2 DEF Knows, Rewritten, Remembered
  <2>2. Ends(w, 0)
    BY <1>3 DEF ApplyBegins
  <2>3. QED  BY <1>0, <1>2, <2>1, <2>2, EndsKept
<1>4. CASE source # "local"
  <2> DEFINE r == [work[w] EXCEPT !.at = "busy"]
  <2>1. /\ r \in Procs /\ r.at = "busy" /\ r.left = work[w].left
        /\ r.commit = work[w].commit /\ r.prev = work[w].prev /\ r.restart = work[w].restart
    BY <1>0 DEF Procs
  <2>2. lock' = w /\ work' = [work EXCEPT ![w] = r]
    BY <1>0, <1>4 DEF ApplyBegins
  <2> HIDE DEF r
  <2>3. Becomes(w, r)
    BY <2>1, <2>2 DEF Becomes
  <2>4. KeepsLock(w, r)
    BY <1>0, <2>1, <2>2, MovesOn DEF Inside
  <2>5. KeepsBuild(r)
    BY <2>1 DEF KeepsBuild
  <2>6. Knows(w) => Settled(r)
    BY <1>0, <1>2, <2>1 DEF Knows, Settled, Recorded, Remembered, Installing
  <2>7. QED  BY <1>0, <1>2, <2>3, <2>4, <2>5, <2>6, KeptFromParts DEF Start, DiskTypes
<1>5. QED  BY <1>3, <1>4

(* The sources are fetched and built: what is built is a commit. *)
LEMMA ApplyBuildsKept ==
  ASSUME Start, NEW w \in Worker, ApplyBuilds(w), UNCHANGED self PROVE StepKept(w)
<1> DEFINE r == [work[w] EXCEPT !.at = "building", !.new = remote]
<1>0. /\ work[w].at = "busy" /\ work[w].mode = "apply" /\ lock = w /\ work[w] \in Procs
      /\ UNCHANGED <<source, remote, disk, binary, backup, stops, file, lock>> /\ file \in Files
  BY DEF ApplyBuilds, Start, DiskTypes, LockHeld, Inside
<1>1. remote \in 0..MaxCommit /\ remote \in Commits /\ remote # Unknown
  BY UpdateAssumption DEF Start, DiskTypes, Commits, Unknown
<1>2. /\ r \in Procs /\ r.at = "building" /\ r.left = work[w].left /\ r.mode = "apply"
      /\ r.commit = work[w].commit /\ r.prev = work[w].prev /\ r.restart = work[w].restart
      /\ r.new = remote
  BY <1>0, <1>1 DEF Procs
<1>3. work' = [work EXCEPT ![w] = r]
  BY DEF ApplyBuilds, Start, DiskTypes
<1> HIDE DEF r
<1>4. Becomes(w, r)
  BY <1>2, <1>3 DEF Becomes
<1>5. KeepsLock(w, r)
  BY <1>0, <1>2, MovesOn DEF Inside
<1>6. KeepsBuild(r)
  BY <1>1, <1>2 DEF KeepsBuild
<1>7. Knows(w) => Settled(r)
  BY <1>0, <1>2 DEF Knows, Settled, Recorded, Remembered, Installing
<1>8. QED  BY <1>0, <1>4, <1>5, <1>6, <1>7, KeptFromParts DEF Start, DiskTypes

(* A process that moves to another stage of its installation. *)
LEMMA StageKept ==
  ASSUME Start, NEW w \in Worker, work[w].at \in Inside,
         NEW at \in Installing, work' = [work EXCEPT ![w].at = at],
         work[w].mode \in {"apply", "rollback"},
         at # "placed" => work[w].mode = "apply",
         work[w].mode = "apply" => work[w].new # Unknown,
         UNCHANGED <<source, remote, file, lock, stops>>,
         disk' \in 0..MaxInode, binary' \in Builds, backup' \in Backups,
         Knows(w) => Settled([work[w] EXCEPT !.at = at])
  PROVE  StepKept(w)
<1> DEFINE r == [work[w] EXCEPT !.at = at]
<1>0. lock = w /\ work[w] \in Procs /\ file \in Files /\ stops \in Stops /\ work[w].at # "gone"
  BY DEF Start, DiskTypes, LockHeld, Inside, Installing
<1>1. /\ r \in Procs /\ r.at = at /\ r.left = work[w].left /\ r.mode = work[w].mode
      /\ r.new = work[w].new
  BY <1>0 DEF Procs
<1>2. work' = [work EXCEPT ![w] = r]
  OBVIOUS
<1>3. Knows(w) => Settled(r)
  OBVIOUS
<1> HIDE DEF r
<1>4. Becomes(w, r)
  BY <1>1, <1>2 DEF Becomes
<1>5. KeepsLock(w, r)
  BY <1>0, <1>1, MovesOn
<1>6. KeepsBuild(r)
  BY <1>1 DEF KeepsBuild, Installing
<1>7. QED  BY <1>0, <1>3, <1>4, <1>5, <1>6, KeptFromParts

(* What the record must hold of a process that has moved to stage at. *)
LEMMA StageSettled ==
  ASSUME Start, NEW w \in Worker, NEW at \in Installing, Knows(w),
         UNCHANGED <<file, stops, self>>, at # "placed" => Remembered',
         stops.at = {} =>
           /\ at \in {"saving", "saved"} => file.commit \in {Unknown, binary'}
           /\ at = "saved" => backup' = binary'
           /\ at = "placed" /\ work[w].mode = "apply" =>
                work[w].new = binary' /\ file.commit \in {Unknown, backup'}
           /\ at = "placed" /\ work[w].mode # "apply" => file.prev \in {Unknown, binary'}
  PROVE  Settled([work[w] EXCEPT !.at = at])
<1> DEFINE r == [work[w] EXCEPT !.at = at]
<1>1. work[w] \in Procs
  BY DEF Start, DiskTypes
<1>2. /\ r.at = at /\ r.mode = work[w].mode /\ r.new = work[w].new
      /\ r.commit = work[w].commit /\ r.prev = work[w].prev /\ r.restart = work[w].restart
  BY <1>1 DEF Procs
<1> HIDE DEF r
<1>3. Settled(r)
  BY <1>2 DEF Settled, Knows
<1>4. QED  BY <1>3 DEF r

(* place(), the copy to termos.previous: the installed binary is what it    *)
(* was, and the record of the previous one is no longer needed.             *)
LEMMA SavesKept ==
  ASSUME Start, NEW w \in Worker, PlaceSaves(w) \/ PlaceSaved(w), UNCHANGED self
  PROVE  StepKept(w)
<1>0. /\ UNCHANGED <<source, remote, disk, binary, file, lock, stops>>
      /\ work[w].at \in {"building", "saving"} /\ backup' \in {Torn, binary}
  BY DEF PlaceSaves, PlaceSaved
<1>1. /\ disk' \in 0..MaxInode /\ binary' \in Builds /\ backup' \in Backups
      /\ work[w].mode = "apply" /\ work[w].new # Unknown
  BY <1>0 DEF Start, DiskTypes, Builds, Backups, Commits, BuildsSomething
<1>2. PICK at \in {"saving", "saved"} :
        work' = [work EXCEPT ![w].at = at] /\ (at = "saved" => backup' = binary)
  BY DEF PlaceSaves, PlaceSaved
<1>3. at \in Installing /\ work[w].at \in Inside
  BY <1>0, <1>2 DEF Installing, Inside
<1>4. ASSUME Knows(w) PROVE Settled([work[w] EXCEPT !.at = at])
  <2>1. Remembered'
    BY <1>0, <1>4 DEF Knows, Remembered
  <2>2. stops.at = {} => file.commit \in {Unknown, binary}
    BY <1>0, <1>4 DEF Knows, Recorded, ToBeRecorded, Installing
  <2>3. QED  BY <1>0, <1>2, <1>3, <1>4, <2>1, <2>2, StageSettled
<1>5. QED  BY <1>0, <1>1, <1>2, <1>3, <1>4, StageKept

(* The renames of place() and of --rollback: from here to the last write    *)
(* the record lies, and the process knows the truth.                        *)
LEMMA RenamesKept ==
  ASSUME Start, NEW w \in Worker, PlaceRenames(w), UNCHANGED self PROVE StepKept(w)
<1>0. /\ UNCHANGED <<source, remote, backup, file, lock, stops>>
      /\ work' = [work EXCEPT ![w].at = "placed"]
      /\ disk' = disk + 1 /\ disk < MaxInode
  BY DEF PlaceRenames
<1>1. \/ /\ work[w].at = "saved" /\ work[w].mode = "apply" /\ work[w].new # Unknown
         /\ binary' = work[w].new
      \/ /\ work[w].at = "locked" /\ work[w].mode = "rollback" /\ backup # Unknown
         /\ binary' = backup
  BY DEF PlaceRenames, Start, BuildsSomething
<1>2. "placed" \in Installing /\ work[w].at \in Inside
  BY <1>1 DEF Installing, Inside
<1>3. disk' \in 0..MaxInode
  BY <1>0, UpdateAssumption DEF Start, DiskTypes
<1>4. work[w].new \in Commits /\ backup \in Backups
  BY DEF Start, DiskTypes, Procs
<1>5. binary' \in Builds /\ backup' \in Backups
  BY <1>0, <1>1, <1>4 DEF Builds, Backups, Commits
<1>6. ASSUME Knows(w) PROVE Settled([work[w] EXCEPT !.at = "placed"])
  <2>1. CASE work[w].at = "saved"
    <3>1. stops.at = {} => backup = binary /\ file.commit \in {Unknown, binary}
      BY <1>6, <2>1 DEF Knows, ToBeRecorded, Installing
    <3>2. QED  BY <1>0, <1>1, <1>2, <1>6, <2>1, <3>1, StageSettled
  <2>2. CASE work[w].at = "locked"
    <3>1. stops.at = {} => file.prev \in {Unknown, backup}
      BY <1>6, <2>2 DEF Knows, Recorded, Installing
    <3>2. QED  BY <1>0, <1>1, <1>2, <1>6, <2>2, <3>1, StageSettled
  <2>3. QED  BY <1>1, <2>1, <2>2
<1>7. QED  BY <1>0, <1>1, <1>2, <1>3, <1>5, <1>6, StageKept

(* The last state of --apply and --rollback: the truth, and a restart. *)
LEMMA PlaceEndsKept ==
  ASSUME Start, NEW w \in Worker, PlaceEnds(w), UNCHANGED self PROVE StepKept(w)
<1> DEFINE r == [Gone EXCEPT !.code = 0]
<1>0. /\ work[w].at = "placed" /\ work[w] \in Procs /\ Ends(w, 0)
      /\ UNCHANGED <<source, remote, disk, binary, backup, stops>>
      /\ work[w].mode \in {"apply", "rollback"}
      /\ Unknown \in Commits /\ None \in Worker \cup {None}
  BY DEF PlaceEnds, Start, DiskTypes, BuildsSomething, Commits
<1>1. Becomes(w, r) /\ r.at = "gone" /\ KeepsLock(w, r) /\ KeepsBuild(r)
  BY <1>0, EndsIsFine
<1> HIDE DEF r
<1>2. /\ work[w].new \in Commits /\ work[w].prev \in Commits /\ work[w].commit \in Commits
      /\ "restart-pending" \in Statuses /\ "available" \in Statuses
  BY <1>0 DEF Procs, Statuses
<1>3. CASE work[w].mode = "apply"
  <2>1. file' = State("restart-pending", work[w].new, work[w].commit, TRUE, None)
    BY <1>3 DEF PlaceEnds, Installed
  <2>2. /\ file' \in Files /\ file'.commit = work[w].new /\ file'.prev = work[w].commit
        /\ file'.restart = TRUE
    BY <1>0, <1>2, <2>1 DEF State, Files
  <2>3. Knows(w) => Settled(r)
    BY <1>0, <1>1, <1>3, <2>2 DEF Knows, ToBeRecorded, Settled, Recorded, Remembered, Installing
  <2>4. QED  BY <1>0, <1>1, <2>2, <2>3, KeptFromParts DEF Start, DiskTypes
<1>4. CASE work[w].mode = "rollback"
  <2>1. file' = State("available", work[w].prev, Unknown, TRUE, None)
    BY <1>4 DEF PlaceEnds, Installed
  <2>2. /\ file' \in Files /\ file'.commit = work[w].prev /\ file'.prev = Unknown
        /\ file'.restart = TRUE
    BY <1>0, <1>2, <2>1 DEF State, Files
  <2>3. Knows(w) => Settled(r)
    BY <1>0, <1>1, <1>4, <2>2 DEF Knows, ToBeRecorded, Settled, Recorded, Remembered, Installing
  <2>4. QED  BY <1>0, <1>1, <2>2, <2>3, KeptFromParts DEF Start, DiskTypes
<1>5. QED  BY <1>0, <1>3, <1>4

(* A stop is counted, and where in the installation it fell. *)
LEMMA StopIsCounted ==
  ASSUME Start, NEW w \in Worker, IsStopped(w)
  PROVE  /\ stops' \in Stops /\ stops.at \subseteq stops'.at
         /\ work[w].at \in Installing => work[w].at \in stops'.at
<1>1. stops \in Stops
  BY DEF Start, DiskTypes
<1>2. /\ stops.times < MaxStop /\ stops'.times = stops.times + 1
      /\ stops'.at = stops.at \cup ({work[w].at} \cap Installing)
      /\ stops' = [times |-> stops.times + 1,
                   at |-> stops.at \cup ({work[w].at} \cap Installing)]
  BY DEF IsStopped
<1>3. stops.times + 1 \in 0..MaxStop
  BY <1>1, <1>2, UpdateAssumption DEF Stops
<1>4. stops.at \cup ({work[w].at} \cap Installing) \in SUBSET Installing
  BY <1>1 DEF Stops
<1>5. QED  BY <1>2, <1>3, <1>4 DEF Stops

(* A process that is stopped leaves the file as it is, which is the truth   *)
(* unless it was stopped in its installation.                               *)
LEMMA StoppedKept ==
  ASSUME Start, NEW w \in Worker, work[w].at # "gone", IsStopped(w), UNCHANGED self,
         NEW r, r.at = "gone", Becomes(w, r), KeepsLock(w, r), KeepsBuild(r),
         UNCHANGED <<source, remote, disk, binary, file>>,
         backup' = backup \/ (work[w].at = "saving" /\ backup' = binary)
  PROVE  StepKept(w)
<1>1. /\ stops' \in Stops /\ stops.at \subseteq stops'.at
      /\ work[w].at \in Installing => work[w].at \in stops'.at
  BY StopIsCounted
<1>2. backup' \in Backups /\ disk' \in 0..MaxInode /\ binary' \in Builds /\ file' \in Files
  BY DEF Start, DiskTypes, Builds, Backups, Commits
<1>3. ASSUME Knows(w) PROVE Settled(r)
  <2>1. Remembered'
    <3>1. CASE work[w].at = "placed"
      BY <1>1, <3>1 DEF Remembered, Installing
    <3>2. CASE work[w].at # "placed"
      BY <1>1, <1>3, <3>2 DEF Knows, Remembered
    <3>3. QED  BY <3>1, <3>2
  <2>2. Recorded'
    <3>1. CASE work[w].at \in Installing
      <4>1. stops'.at # {}
        BY <1>1, <3>1
      <4>2. QED  BY <4>1 DEF Recorded
    <3>2. CASE work[w].at \notin Installing
      <4>1. Recorded /\ backup' = backup
        BY <1>3, <3>2 DEF Knows, Installing
      <4>2. stops'.at = {} => stops.at = {}
        BY <1>1
      <4>3. QED  BY <4>1, <4>2 DEF Recorded
    <3>3. QED  BY <3>1, <3>2
  <2>3. QED  BY <2>1, <2>2 DEF Settled, Installing
<1>4. QED  BY <1>1, <1>2, <1>3, KeptFromParts

(* set -e, when a command fails that nothing guards. *)
LEMMA AbortsKept ==
  ASSUME Start, NEW w \in Worker, Aborts(w), UNCHANGED self PROVE StepKept(w)
<1> DEFINE r == [Gone EXCEPT !.code = 1]
<1>1. Becomes(w, r) /\ r.at = "gone" /\ KeepsLock(w, r) /\ KeepsBuild(r)
  BY EndsIsFine DEF Aborts
<1> HIDE DEF r
<1>2. /\ work[w].at # "gone" /\ IsStopped(w)
      /\ UNCHANGED <<source, remote, disk, binary, backup, file>>
  BY DEF Aborts, Alive
<1>3. QED  BY <1>1, <1>2, StoppedKept

(* SIGKILL: the lock goes with the process, unless its tools or its watcher *)
(* have inherited it.                                                       *)
LEMMA DiesKept ==
  ASSUME Start, NEW w \in Worker, WorkerDies(w), UNCHANGED self PROVE StepKept(w)
<1> DEFINE left == CASE work[w].at = "building" -> "watcher"
                     [] work[w].at \in {"busy", "saving"} -> "tools"
                     [] OTHER -> "none"
           r == [Gone EXCEPT !.code = 9, !.left = left]
<1>1. /\ left \in {"none", "tools", "watcher"}
      /\ left # "none" => work[w].at \in Inside
  BY DEF Inside, Installing
<1>2. /\ work' = [work EXCEPT ![w] = r]
      /\ lock' = IF lock = w /\ left = "none" THEN None ELSE lock
  BY DEF WorkerDies
<1> HIDE DEF left
<1>3. r \in Procs /\ r.at = "gone" /\ r.left = left
  BY <1>1, ProcShapes
<1> HIDE DEF r
<1>4. Becomes(w, r) /\ KeepsBuild(r)
  BY <1>2, <1>3 DEF Becomes, KeepsBuild
<1>5. left # "none" => lock = w
  BY <1>1 DEF Start, LockHeld
<1>6. KeepsLock(w, r)
  BY <1>2, <1>3, <1>5 DEF KeepsLock, Inside, Installing, Start, DiskTypes
<1>7. /\ work[w].at # "gone" /\ IsStopped(w)
      /\ UNCHANGED <<source, remote, disk, binary, file>>
      /\ backup' = backup \/ (work[w].at = "saving" /\ backup' = binary)
  BY DEF WorkerDies, Alive
<1>8. QED  BY <1>3, <1>4, <1>6, <1>7, StoppedKept

(* The tools of a killed script end at last, and the lock with them. *)
LEMMA ToolsKept ==
  ASSUME Start, NEW w \in Worker, ToolsEnd(w), UNCHANGED self PROVE StepKept(w)
<1> DEFINE r == [work[w] EXCEPT !.left = "none"]
<1>0. /\ work[w].left = "tools" /\ work[w] \in Procs /\ work[w].at = "gone"
      /\ UNCHANGED <<source, remote, disk, binary, backup, stops, file>>
      /\ lock' = IF lock = w THEN None ELSE lock
  BY DEF ToolsEnd, Start, DiskTypes, LockHeld
<1>1. r \in Procs /\ r.at = "gone" /\ r.left = "none"
  BY <1>0 DEF Procs
<1>2. work' = [work EXCEPT ![w] = r]
  BY DEF ToolsEnd
<1> HIDE DEF r
<1>3. Becomes(w, r) /\ KeepsBuild(r)
  BY <1>1, <1>2 DEF Becomes, KeepsBuild
<1>4. KeepsLock(w, r)
  BY <1>0, <1>1 DEF KeepsLock, Inside, Installing, Start, DiskTypes
<1>5. work' \in [Worker -> Procs] /\ LockHeld' /\ BuildsSomething'
  BY <1>3, <1>4, BecomesKeeps DEF Start, DiskTypes
<1>6. DiskTypes'
  BY <1>0, <1>4, <1>5 DEF DiskTypes, Start, KeepsLock
<1>7. work'[w] = r /\ \A v \in Worker : v # w => work'[v] = work[v]
  BY <1>3, <1>2 DEF Becomes, Start, DiskTypes
<1>8. ASSUME Faithful PROVE Faithful'
  <2>1. AtMostOne'
    BY <1>0, <1>1, <1>7, <1>8 DEF Faithful, AtMostOne, Alive
  <2>2. Copies'
    BY <1>0, <1>1, <1>7, <1>8 DEF Faithful, Copies, Alive
  <2>3. (NonePlaced' <=> NonePlaced) /\ (NoneInstalls' <=> NoneInstalls)
    BY <1>0, <1>1, <1>7 DEF NonePlaced, NoneInstalls, Installing
  <2>4. RestartInv'
    BY <1>0, <1>8, <2>3 DEF Faithful, RestartInv, Remembered
  <2>5. RecordInv'
    <3>1. RecordInv /\ (Recorded' <=> Recorded)
      BY <1>0, <1>8 DEF Faithful, Recorded
    <3>2. ASSUME NEW v \in Worker, work'[v].at \in Installing PROVE ToBeRecorded(v)'
      <4>1. work'[v] = work[v] /\ ToBeRecorded(v)
        BY <1>1, <1>7, <3>1, <3>2 DEF RecordInv, Installing
      <4>2. QED  BY <1>0, <4>1 DEF ToBeRecorded
    <3>3. QED  BY <2>3, <3>1, <3>2 DEF RecordInv
  <2>6. QED  BY <2>1, <2>2, <2>4, <2>5 DEF Faithful
<1>9. QED  BY <1>5, <1>6, <1>8 DEF StepKept

(* Every step of the script. *)
LEMMA WorkerKept ==
  ASSUME Start, NEW w \in Worker, WorkerStep(w)
  PROVE  StepKept(w) /\ UNCHANGED <<svcVars, loopVars>>
<1>1. UNCHANGED <<svcVars, loopVars>>
  BY DEF WorkerStep, TakeLock, CheckBegins, CheckEnds, ApplyBegins,
       ApplyBuilds, ApplyFails, PlaceSaves, PlaceSaved, PlaceRenames, PlaceEnds,
       RollbackFails, ToolsEnd
<1>2. UNCHANGED self
  BY <1>1 DEF svcVars
<1>3. QED
  BY <1>1, <1>2, TakeLockKept, CheckBeginsKept, CheckEndsKept, FailsKept, ApplyBeginsKept,
     ApplyBuildsKept, SavesKept, RenamesKept, PlaceEndsKept, ToolsKept DEF WorkerStep

-----------------------------------------------------------------------------
(* The start of a script, by the service or by hand. *)

(* It reads the file before it asks for the lock; alone, what it has read   *)
(* is what the file still says when it writes.                              *)
LEMMA StartsKept ==
  ASSUME Start, NEW w \in Free, NEW mode \in {"check", "apply", "rollback"},
         NEW mine \in BOOLEAN, work' = [work EXCEPT ![w] = Started(mode, mine)],
         UNCHANGED <<source, remote, disk, binary, backup, stops, file, lock, self>>
  PROVE  /\ DiskTypes' /\ LockHeld' /\ BuildsSomething'
         /\ "overlap" \notin Faults /\ Faithful => Faithful'
<1> DEFINE r == Started(mode, mine)
<1>1. /\ w \in Worker /\ lock # w /\ file \in Files
      /\ "overlap" \notin Faults => \A v \in Worker : ~Alive(v)
  BY DEF Free, Start, DiskTypes
<1>2. /\ r \in Procs /\ r.at = "started" /\ r.left = "none"
      /\ r.commit = file.commit /\ r.prev = file.prev /\ r.restart = file.restart
  BY <1>1 DEF Started, Gone, Procs, Files, Commits
<1> HIDE DEF r
<1>3. Becomes(w, r) /\ KeepsBuild(r)
  BY <1>2 DEF Becomes, KeepsBuild, r
<1>4. KeepsLock(w, r)
  BY <1>2 DEF KeepsLock, Inside, Installing, Start, DiskTypes
<1>5. work' \in [Worker -> Procs] /\ LockHeld' /\ BuildsSomething'
  BY <1>1, <1>3, <1>4, BecomesKeeps DEF Start, DiskTypes
<1>6. DiskTypes'
  BY <1>5 DEF DiskTypes, Start
<1>7. ASSUME "overlap" \notin Faults, Faithful PROVE Faithful'
  <2>1. \A v \in Worker : work[v].at = "gone"
    BY <1>1, <1>7, UpdateAssumption DEF Alive
  <2>2. NoOther(w)
    BY <2>1 DEF NoOther
  <2>3. NonePlaced /\ NoneInstalls
    BY <2>1 DEF NonePlaced, NoneInstalls, Installing
  <2>4. Settled(r)
    BY <1>2, <1>7, <2>3
       DEF Settled, Faithful, RecordInv, RestartInv, Recorded, Remembered, Installing
  <2>5. QED  BY <1>1, <1>3, <2>2, <2>4, BecomesFaithful DEF Start, DiskTypes
<1>8. QED  BY <1>5, <1>6, <1>7

(* A step that leaves the scripts and the files alone. *)
LEMMA StillKept ==
  ASSUME Start, UNCHANGED <<worldVars, self>>
  PROVE  DiskTypes' /\ LockHeld' /\ BuildsSomething' /\ (Faithful => Faithful')
<1>1. UNCHANGED <<source, remote, disk, binary, backup, stops, file, work, lock, self>>
  BY DEF worldVars
<1>2. DiskTypes' /\ LockHeld' /\ BuildsSomething'
  BY <1>1 DEF Start, DiskTypes, LockHeld, BuildsSomething
<1>3. ASSUME Faithful PROVE Faithful'
  BY <1>1, <1>3 DEF Faithful, AtMostOne, Copies, RecordInv, RestartInv, NonePlaced,
       NoneInstalls, Recorded, Remembered, ToBeRecorded, Alive
<1>4. QED  BY <1>2, <1>3

(* What a step of the service does to the world: nothing, or it starts a    *)
(* script.                                                                  *)
WorldServed ==
  /\ DiskTypes' /\ LockHeld' /\ BuildsSomething'
  /\ "overlap" \notin Faults /\ Faithful => Faithful'

(* launch(). *)
LEMMA LaunchKept ==
  ASSUME Start, ServiceTypes, NEW mode \in {"check", "apply"}, NEW byUser \in BOOLEAN,
         Launch(mode, byUser),
         UNCHANGED <<source, remote, disk, binary, backup, stops, file, lock, self>>
  PROVE  /\ WorldServed /\ child' \in Worker \cup {None} /\ manual' \in BOOLEAN
         /\ sched' \in BOOLEAN /\ due' \in {"far", "near", "past"}
<1>1. CASE \E w \in Free :
             /\ work' = [work EXCEPT ![w] = Started(mode, TRUE)]
             /\ child' = w /\ manual' = byUser /\ sched' = FALSE /\ due' = "far"
  <2>1. PICK w \in Free :
             /\ work' = [work EXCEPT ![w] = Started(mode, TRUE)]
             /\ child' = w /\ manual' = byUser /\ sched' = FALSE /\ due' = "far"
    BY <1>1
  <2>2. WorldServed
    BY <2>1, StartsKept DEF WorldServed
  <2>3. QED  BY <2>1, <2>2 DEF Free
<1>2. CASE /\ sched' = (sched \/ ~byUser) /\ due' = (IF byUser THEN due ELSE "far")
           /\ UNCHANGED <<work, child, manual>>
  <2>1. WorldServed
    BY <1>2, StillKept DEF WorldServed, worldVars
  <2>2. sched' \in BOOLEAN /\ due' \in {"far", "near", "past"}
    BY <1>2 DEF ServiceTypes
  <2>3. child' \in Worker \cup {None} /\ manual' \in BOOLEAN
    BY <1>2 DEF ServiceTypes
  <2>4. QED  BY <2>1, <2>2, <2>3
<1>3. QED  BY <1>1, <1>2 DEF Launch

(* reload(): what the service keeps of the file is well formed. *)
LEMMA ReadTypes ==
  ASSUME DiskTypes
  PROVE  /\ \A c : IsStale(c) \in BOOLEAN
         /\ NeedsRestart \in BOOLEAN
         /\ \A b \in BOOLEAN : Read(b) \in [status : Statuses, known : BOOLEAN]
<1>1. file.status \in Statuses /\ file.restart \in BOOLEAN
  BY DEF DiskTypes, Files
<1>2. \A c : IsStale(c) \in BOOLEAN
  BY DEF IsStale
<1>3. NeedsRestart \in BOOLEAN
  BY <1>1 DEF NeedsRestart
<1>4. \A b \in BOOLEAN : Read(b) \in [status : Statuses, known : BOOLEAN]
  BY <1>1 DEF Read, Statuses
<1>5. QED  BY <1>2, <1>3, <1>4

(* The three variables of reload(), typed. *)
Reloaded ==
  /\ stale' \in BOOLEAN /\ need' \in BOOLEAN
  /\ seen' \in [status : Statuses, known : BOOLEAN]

(* reload() types them. *)
LEMMA ReloadTypes ==
  ASSUME DiskTypes, NEW c, Reload(c) PROVE Reloaded
  BY ReadTypes DEF Reload, Reloaded

(* tick(). *)
LEMMA TickKept ==
  ASSUME Start, ServiceTypes, Tick PROVE WorldServed /\ ServiceTypes'
<1>1. Reloaded
  BY ReloadTypes DEF Tick, Start
<1>2. UNCHANGED <<self, want, source, remote, disk, binary, backup, stops, file, lock>> /\ report' = ""
  BY DEF Tick
<1>3. /\ WorldServed /\ child' \in Worker \cup {None} /\ manual' \in BOOLEAN
      /\ sched' \in BOOLEAN /\ due' \in {"far", "near", "past"}
  <2>1. CASE UNCHANGED <<work, child, manual>> /\ sched' \in BOOLEAN
             /\ due' \in {"far", "near", "past"}
    <3>1. UNCHANGED <<worldVars, self>>
      BY <1>2, <2>1 DEF worldVars
    <3>2. WorldServed
      BY <3>1, StillKept DEF WorldServed
    <3>3. QED  BY <2>1, <3>2 DEF ServiceTypes
  <2>2. CASE Launch("check", FALSE)
    BY <1>2, <2>2, LaunchKept
  <2>3. QED  BY <2>1, <2>2 DEF Tick, ServiceTypes
<1>4. ServiceTypes'
  BY <1>1, <1>2, <1>3 DEF ServiceTypes, Reloaded
<1>5. QED  BY <1>3, <1>4

(* run(): a command of the user. *)
LEMMA RunKept ==
  ASSUME Start, ServiceTypes, NEW id \in {"check", "apply", "restart"}, Run(id),
         UNCHANGED <<source, remote, disk, binary, backup, stops, file, lock,
                     self, report, seen, stale, need>>
  PROVE  WorldServed /\ ServiceTypes'
<1>1. want' \in BOOLEAN
  BY DEF Run, ServiceTypes
<1>2. CASE UNCHANGED <<work, child, manual, sched, due>>
  <2>1. UNCHANGED <<worldVars, self>>
    BY <1>2 DEF worldVars
  <2>2. QED  BY <1>1, <1>2, <2>1, StillKept DEF WorldServed, ServiceTypes
<1>3. CASE id # "restart" /\ Launch(id, TRUE)
  <2>1. /\ WorldServed /\ child' \in Worker \cup {None} /\ manual' \in BOOLEAN
        /\ sched' \in BOOLEAN /\ due' \in {"far", "near", "past"}
    BY <1>3, LaunchKept
  <2>2. QED  BY <1>1, <2>1 DEF ServiceTypes
<1>4. QED  BY <1>2, <1>3 DEF Run

(* on_child_exit(). *)
LEMMA ChildKept ==
  ASSUME Start, ServiceTypes, ChildExits PROVE WorldServed /\ ServiceTypes'
<1>1. Reloaded
  BY ReloadTypes DEF ChildExits, Start
<1>2. UNCHANGED <<self, want, worldVars>>
  BY DEF ChildExits
<1>3. WorldServed
  BY <1>2, StillKept DEF WorldServed
<1>4. report' \in Statuses \cup {"", "failed"}
  <2>1. seen'.status \in Statuses
    BY <1>1 DEF Reloaded
  <2>2. QED  BY <2>1 DEF ChildExits
<1>5. ServiceTypes'
  BY <1>1, <1>2, <1>4 DEF ServiceTypes, Reloaded, ChildExits
<1>6. QED  BY <1>3, <1>5

(* The next daemon: a script that still runs has lost its parent, and       *)
(* nothing else of it has changed.                                          *)
LEMMA RestartKept ==
  ASSUME Start, ServiceTypes, DaemonRestarts
  PROVE  DiskTypes' /\ LockHeld' /\ BuildsSomething' /\ ServiceTypes' /\ LoopTypes'
         /\ (Faithful => Faithful')
<1>0. /\ UNCHANGED <<source, remote, disk, binary, backup, stops, file, lock>> /\ self' = disk
      /\ work' = [w \in Worker |-> [work[w] EXCEPT !.mine = FALSE]]
  BY DEF DaemonRestarts
<1>1. ASSUME NEW w \in Worker
      PROVE  /\ work'[w] \in Procs
             /\ work'[w].at = work[w].at /\ work'[w].mode = work[w].mode
             /\ work'[w].commit = work[w].commit /\ work'[w].prev = work[w].prev
             /\ work'[w].restart = work[w].restart /\ work'[w].new = work[w].new
             /\ work'[w].left = work[w].left
  <2>1. work[w] \in Procs /\ work'[w] = [work[w] EXCEPT !.mine = FALSE]
    BY <1>0 DEF Start, DiskTypes
  <2>2. QED  BY <2>1 DEF Procs
<1>2. work' \in [Worker -> Procs]
  BY <1>0, <1>1
<1>3. DiskTypes'
  BY <1>0, <1>2 DEF Start, DiskTypes
<1>4. LockHeld' /\ BuildsSomething'
  BY <1>0, <1>1 DEF Start, LockHeld, BuildsSomething
<1>5. Reloaded
  BY ReadTypes DEF DaemonRestarts, Reloaded, Start
<1>6. ServiceTypes' /\ LoopTypes'
  BY <1>0, <1>5 DEF DaemonRestarts, ServiceTypes, LoopTypes, Reloaded, Start, DiskTypes
<1>7. ASSUME Faithful PROVE Faithful'
  <2>0. \A w \in Worker : Alive(w)' <=> Alive(w)
    BY <1>1 DEF Alive
  <2>1. AtMostOne'
    BY <1>7, <2>0 DEF Faithful, AtMostOne
  <2>2. Copies'
    BY <1>0, <1>1, <1>7, <2>0 DEF Faithful, Copies
  <2>3. NoneInstalls' <=> NoneInstalls
    BY <1>1 DEF NoneInstalls
  <2>4. RecordInv'
    <3>1. RecordInv /\ (Recorded' <=> Recorded)
      BY <1>0, <1>7 DEF Faithful, Recorded
    <3>2. ASSUME NEW w \in Worker, work'[w].at \in Installing PROVE ToBeRecorded(w)'
      <4>1. ToBeRecorded(w) /\ work'[w].at = work[w].at /\ work'[w].mode = work[w].mode /\ work'[w].new = work[w].new
        BY <1>1, <3>1, <3>2 DEF RecordInv
      <4>2. QED  BY <1>0, <4>1 DEF ToBeRecorded
    <3>3. QED  BY <2>3, <3>1, <3>2 DEF RecordInv
  <2>5. RestartInv'
    BY <1>0 DEF RestartInv, Remembered
  <2>6. QED  BY <2>1, <2>2, <2>4, <2>5 DEF Faithful
<1>8. QED  BY <1>3, <1>4, <1>6, <1>7

-----------------------------------------------------------------------------
(* The whole system. *)

(* A turn of the loop, a signal, a timeout, a client, a command. *)
LEMMA ServiceKept ==
  ASSUME Start, ServiceTypes, LoopTypes, ServiceStep
  PROVE  WorldServed /\ ServiceTypes' /\ LoopTypes'
<1>1. CASE LoopTop
  <2>1. LoopTypes'
    <3>1. Timeout \in BOOLEAN
      BY DEF Timeout, LoopTypes, ServiceTypes
    <3>2. QED  BY <1>1, <3>1 DEF LoopTop, LoopTypes
  <2>2. CASE Tick
    BY <2>1, <2>2, TickKept
  <2>3. CASE report' = "" /\ UNCHANGED <<worldVars, self, child, manual, sched, due, seen,
                                         stale, need, want>>
    <3>1. WorldServed
      BY <2>3, StillKept DEF WorldServed
    <3>2. ServiceTypes'
      BY <2>3 DEF ServiceTypes
    <3>3. QED  BY <2>1, <3>1, <3>2
  <2>4. QED  BY <1>1, <2>2, <2>3 DEF LoopTop
<1>2. CASE Refresh
  BY <1>2, TickKept DEF Refresh, LoopTypes
<1>3. CASE TimeoutWakes \/ ClientWakes
  <2>1. UNCHANGED <<worldVars, svcVars>>
    BY <1>3 DEF TimeoutWakes, ClientWakes
  <2>2. WorldServed
    BY <2>1, StillKept DEF WorldServed, svcVars
  <2>3. ServiceTypes'
    BY <2>1 DEF ServiceTypes, svcVars
  <2>4. LoopTypes'
    BY <1>3 DEF TimeoutWakes, ClientWakes, Wakes, LoopTypes
  <2>5. QED  BY <2>2, <2>3, <2>4
<1>4. CASE ChildWakes
  BY <1>4, ChildKept DEF ChildWakes, Wakes, LoopTypes
<1>5. CASE UserRuns
  <2>1. LoopTypes'
    BY <1>5 DEF UserRuns, Wakes, LoopTypes
  <2>2. PICK id \in {"check", "apply", "restart"} : Run(id)
    BY <1>5 DEF UserRuns
  <2>3. WorldServed /\ ServiceTypes'
    BY <1>5, <2>2, RunKept DEF UserRuns
  <2>4. QED  BY <2>1, <2>3
<1>6. QED  BY <1>1, <1>2, <1>3, <1>4, <1>5 DEF ServiceStep

(* Every step keeps the types and the lock, in every environment; and the   *)
(* record, where scripts do not overlap.                                    *)
LEMMA NextKept ==
  ASSUME ScriptInv, [Next]_updateVars
  PROVE  /\ ScriptInv'
         /\ "overlap" \notin Faults /\ Faithful => Faithful'
<1> DEFINE Fine == /\ DiskTypes' /\ LockHeld' /\ BuildsSomething'
                   /\ ServiceTypes' /\ LoopTypes'
           True == "overlap" \notin Faults /\ Faithful => Faithful'
<1>0. Start /\ ServiceTypes /\ LoopTypes
  BY TypeParts DEF ScriptInv, Start, ServiceTypes
<1>1. SUFFICES Fine /\ True
  <2>1. Fine => UpdateTypeOK'
    BY DEF UpdateTypeOK, DiskTypes, ServiceTypes, LoopTypes, Commits, Builds, Backups,
         Stops, Files, Procs
  <2>2. QED  BY <1>1, <2>1 DEF ScriptInv
<1>2. CASE UNCHANGED <<svcVars, loopVars>>
           /\ \/ UNCHANGED worldVars \/ RunByHand \/ Push
              \/ \E w \in Worker : WorkerStep(w) \/ Aborts(w) \/ WorkerDies(w)
  <2>1. ServiceTypes' /\ LoopTypes' /\ UNCHANGED self
    <3>1. UNCHANGED <<svcVars, loopVars>>
      BY <1>2
    <3>2. UNCHANGED <<self, child, manual, report, sched, due, seen, stale, need, want>>
          /\ UNCHANGED <<attached, loop, bounded>>
      BY <3>1 DEF svcVars, loopVars
    <3>3. ServiceTypes'
      BY <1>0, <3>2 DEF ServiceTypes
    <3>4. LoopTypes'
      BY <1>0, <3>2 DEF LoopTypes
    <3>5. QED  BY <3>2, <3>3, <3>4
  <2>2. CASE UNCHANGED worldVars
    BY <1>0, <2>1, <2>2, StillKept
  <2>3. CASE \E w \in Worker : WorkerStep(w)
    BY <1>0, <2>1, <2>3, WorkerKept DEF StepKept
  <2>4. CASE \E w \in Worker : Aborts(w) \/ WorkerDies(w)
    BY <1>0, <2>1, <2>4, AbortsKept, DiesKept DEF StepKept
  <2>5. CASE RunByHand
    <3>1. PICK w \in Free, mode \in {"check", "apply", "rollback"} :
            work' = [work EXCEPT ![w] = Started(mode, FALSE)]
      BY <2>5 DEF RunByHand
    <3>2. UNCHANGED <<source, remote, disk, binary, backup, stops, file, lock, self>>
      BY <2>1, <2>5 DEF RunByHand
    <3>3. DiskTypes' /\ LockHeld' /\ BuildsSomething'
          /\ ("overlap" \notin Faults /\ Faithful => Faithful')
      BY <1>0, <3>1, <3>2, StartsKept
    <3>4. QED  BY <2>1, <3>3
  <2>6. CASE Push
    <3>1. remote' \in 0..MaxCommit
      BY <1>0, <2>6, UpdateAssumption DEF Push, Start, DiskTypes
    <3>2. UNCHANGED <<source, disk, binary, backup, stops, file, work, lock, self>>
      BY <2>1, <2>6 DEF Push
    <3>3. DiskTypes' /\ LockHeld' /\ BuildsSomething'
      BY <1>0, <3>1, <3>2 DEF Start, DiskTypes, LockHeld, BuildsSomething
    <3>4. Faithful => Faithful'
      BY <3>2 DEF Faithful, AtMostOne, Copies, RecordInv, RestartInv, NonePlaced,
           NoneInstalls, Recorded, Remembered, ToBeRecorded, Alive
    <3>5. QED  BY <2>1, <3>3, <3>4
  <2>7. QED  BY <1>2, <2>2, <2>3, <2>4, <2>5, <2>6
<1>3. CASE ServiceStep
  BY <1>0, <1>3, ServiceKept DEF WorldServed
<1>4. CASE TimePasses
  <2>1. UNCHANGED <<worldVars, self>>
    BY <1>4 DEF TimePasses
  <2>2. ServiceTypes' /\ LoopTypes'
    BY <1>0, <1>4 DEF TimePasses, ServiceTypes, LoopTypes, loopVars
  <2>3. QED  BY <1>0, <2>1, <2>2, StillKept
<1>5. CASE DaemonRestarts
  BY <1>0, <1>5, RestartKept
<1>6. CASE \E w \in Worker : WorkerStep(w) \/ Aborts(w) \/ WorkerDies(w)
  <2>1. UNCHANGED <<svcVars, loopVars>>
    BY <1>0, <1>6, WorkerKept DEF Aborts, WorkerDies
  <2>2. QED  BY <1>2, <1>6, <2>1
<1>7. CASE RunByHand \/ Push
  <2>1. UNCHANGED <<svcVars, loopVars>>
    BY <1>7 DEF RunByHand, Push
  <2>2. QED  BY <1>2, <1>7, <2>1
<1>8. CASE UNCHANGED updateVars
  <2>1. UNCHANGED <<svcVars, loopVars>> /\ UNCHANGED worldVars
    BY <1>8 DEF updateVars
  <2>2. QED  BY <1>2, <2>1
<1>9. QED  BY <1>3, <1>4, <1>5, <1>6, <1>7, <1>8 DEF Next

(* The first daemon after an installation: no script, nothing pending. *)
LEMMA InitKept == UpdateInit => ScriptInv /\ Faithful
<1> SUFFICES ASSUME UpdateInit PROVE ScriptInv /\ Faithful
  OBVIOUS
<1>1. /\ 0 \in 0..MaxCommit /\ 0 \in 0..MaxInode /\ 0 \in Commits /\ Unknown \in Commits
      /\ "up-to-date" \in Statuses
  BY UpdateAssumption DEF Commits, Statuses
<1>2. file \in Files /\ file.commit = 0 /\ file.prev = Unknown
  BY <1>1 DEF UpdateInit, State, Files
<1>3. work \in [Worker -> Procs] /\ \A w \in Worker : work[w].at = "gone" /\ work[w].left = "none"
  BY ProcShapes DEF UpdateInit, Gone
<1>4. DiskTypes /\ ServiceTypes /\ LoopTypes
  <2>1. {} \in SUBSET Installing /\ 0 \in 0..MaxStop
    BY UpdateAssumption
  <2>2. stops \in Stops
    BY <2>1 DEF UpdateInit, Stops
  <2>3. 0 \in Builds /\ Unknown \in Backups
    BY <1>1 DEF Builds, Backups
  <2>4. QED  BY <1>1, <1>2, <1>3, <2>2, <2>3 DEF UpdateInit, DiskTypes, ServiceTypes, LoopTypes
<1>5. LockHeld /\ BuildsSomething
  BY <1>3 DEF LockHeld, BuildsSomething, Inside, Installing
<1>6. ScriptInv
  BY <1>4, <1>5, TypeParts DEF ScriptInv
<1>7. AtMostOne /\ Copies
  BY <1>3 DEF AtMostOne, Copies, Alive
<1>8. RecordInv /\ RestartInv
  BY <1>2, <1>3 DEF UpdateInit, RecordInv, RestartInv, NonePlaced, Recorded, Remembered,
         Installing
<1>9. QED  BY <1>6, <1>7, <1>8 DEF Faithful

(* The service, the script and the loop keep their types, whatever fails,   *)
(* is killed or overlaps; the invariant adds who holds the lock and that a  *)
(* build is of a known commit.                                              *)
THEOREM ScriptInvariant == Spec => []ScriptInv
  BY InitKept, NextKept, PTL DEF Spec

(* flock does its work in every environment: two processes of the script,   *)
(* from the daemon or from a shell, are never past the lock together, even  *)
(* when one was killed and its tools or its watcher outlive it (update.sh). *)
THEOREM ScriptsExclude == Spec => []OneScriptAtWork
<1>1. ScriptInv => OneScriptAtWork
  BY DEF ScriptInv, LockHeld, OneScriptAtWork
<1>2. QED  BY <1>1, ScriptInvariant, PTL

(* The inductive invariant of the record: the only live process has copied  *)
(* the file, and from the copy to termos.previous to the last write it      *)
(* knows what the file does not; the history says where one was stopped.    *)
THEOREM RecordInvariant ==
  ASSUME "overlap" \notin Faults PROVE Spec => []UpdateInv
<1>1. UpdateInit => UpdateInv
  BY InitKept DEF UpdateInv
<1>2. UpdateInv /\ [Next]_updateVars => UpdateInv'
  BY NextKept DEF UpdateInv
<1>3. QED  BY <1>1, <1>2, PTL DEF Spec

(* What the invariant says once no script is at work. *)
LEMMA QuietRecord == UpdateInv => RestartRemembered /\ RecordIsTrue
  BY UpdateAssumption
     DEF UpdateInv, Faithful, RestartInv, RecordInv, Recorded, Remembered, NonePlaced,
         NoneInstalls, Installing, RestartRemembered, RecordIsTrue, Quiet, Alive

(* While scripts do not overlap, an installed binary that is not the        *)
(* running one is forgotten only if a script was stopped between its rename *)
(* and the write_state() that follows: checks, failures, rollbacks,         *)
(* commands typed in a shell, scripts stopped anywhere else, failing forks  *)
(* and crashes of the daemon leave "restart" in the state file              *)
(* (redemarrage_fait, conclure, do_apply, do_rollback).                     *)
THEOREM RestartIsRemembered ==
  ASSUME "overlap" \notin Faults PROVE Spec => []RestartRemembered
  BY QuietRecord, RecordInvariant, PTL

(* While scripts do not overlap, the commit in the state file is that of    *)
(* the installed binary, or unknown, unless a script was stopped inside an  *)
(* installation: between the copy to termos.previous that place() begins    *)
(* with and the last write_state() (do_apply, do_rollback).                 *)
THEOREM RecordStaysTrue ==
  ASSUME "overlap" \notin Faults PROVE Spec => []RecordIsTrue
  BY QuietRecord, RecordInvariant, PTL

-----------------------------------------------------------------------------
(*                      The dialog box of the session                      *)

Boxes ==
  [open : BOOLEAN, style : {"Question", "Info", "Progress"}, text : Texts,
   target : Window \cup {NoWindow}, confirm : BOOLEAN]

(* A box that only informs is never beside a kind that quits, restarts or   *)
(* closes: modal_kind_ may move under it, from one report to the next, but  *)
(* only to the offer of an update.                                          *)
InfoKind == modal.open /\ modal.style = "Info" => kind \in {"Information", "ApplyUpdate"}

(* Enter on the box of a running update says no. *)
ProgressSaysNo == modal.style = "Progress" => ~modal.confirm

SessionInv == SessionTypeOK /\ InfoKind /\ ProgressSaysNo

-----------------------------------------------------------------------------
(* The bodies of the action properties of Session. *)

AskedFirst ==
  \A w \in guarded \cap wins : w \notin wins' =>
    /\ modal.open /\ modal.style = "Question" /\ modal.target = w
    /\ \/ modal.text = "close"
       \/ kind = "ApplyRunning" /\ modal.text = "progress"

Deliberate ==
  (quit' /\ ~quit) \/ (want' /\ ~want) => modal.open /\ modal.style = "Question"

-----------------------------------------------------------------------------
(* The operations of the box (shell/modal.cpp). *)

(* Every operation of Modal leaves a well-formed box: a closed one is the   *)
(* empty one, and one that shows progress does not confirm.                 *)
FineBox(m) ==
  /\ m \in Boxes /\ (~m.open => m = Closed)
  /\ m.style = "Progress" => ~m.confirm

(* A request that finds a question or a report open changes nothing         *)
(* (Modal::ask, inform and progress return at once).                        *)
Respects(m, n) == Taken(m) => n = m

(* Modal::ask: the box is well formed, and a box that waits for an answer   *)
(* stays as it is.                                                          *)
LEMMA AskIsFine ==
  ASSUME NEW m, FineBox(m), NEW x \in Texts, NEW w \in Window \cup {NoWindow}
  PROVE  /\ FineBox(Ask(m, x, w)) /\ Respects(m, Ask(m, x, w))
         /\ ~Taken(m) => Ask(m, x, w).style = "Question"
  BY DEF FineBox, Respects, Ask, Taken, Boxes, Closed

(* Modal::inform, the same. *)
LEMMA InformIsFine ==
  ASSUME NEW m, FineBox(m)
  PROVE  FineBox(Inform(m)) /\ Respects(m, Inform(m))
  BY DEF FineBox, Respects, Inform, Taken, Boxes, Closed, Texts

(* Modal::progress over a closed box: it shows progress, about no window.   *)
LEMMA ProgressIsFine ==
  ASSUME NEW m
  PROVE  FineBox(Progress(Dismiss(m))) /\ Progress(Dismiss(m)).style = "Progress"
  BY DEF FineBox, Progress, Dismiss, Taken, Boxes, Closed, Texts

(* Modal::dismiss: nothing is left of the box. *)
LEMMA DismissIsFine ==
  ASSUME NEW m
  PROVE  FineBox(Dismiss(m)) /\ ~Dismiss(m).open /\ Dismiss(m).style = "Question"
  BY DEF FineBox, Dismiss, Boxes, Closed, Texts

(* Modal::focus_next: only the focused button moves, and only in a question.*)
LEMMA FocusIsFine ==
  ASSUME NEW m, FineBox(m), m.open
  PROVE  LET n == FocusNext(m) IN
         FineBox(n) /\ n.open = m.open /\ n.style = m.style /\ n.target = m.target
  BY DEF FineBox, FocusNext, Boxes, Closed

(* refresh_update_modal(): only the text is rewritten. *)
LEMMA RefreshIsFine ==
  ASSUME FineBox(modal), RefreshModal
  PROVE  /\ FineBox(modal') /\ modal'.open = modal.open
         /\ modal'.style = modal.style /\ modal'.target = modal.target
  BY DEF FineBox, RefreshModal, Boxes, Closed, Texts

(* The invariant, seen as a well-formed box beside a kind. *)
LEMMA InvIsFine ==
  ASSUME SessionInv
  PROVE  /\ FineBox(modal) /\ InfoKind
         /\ wins \subseteq Window /\ guarded \subseteq Window
         /\ kind \in Kinds /\ quit \in BOOLEAN
  BY DEF SessionInv, SessionTypeOK, ProgressSaysNo, FineBox, Boxes

(* And back: a well-formed box beside a harmless kind is all of it. *)
LEMMA FineIsInv ==
  ASSUME FineBox(modal'), InfoKind', wins' \subseteq Window, guarded' \subseteq Window,
         kind' \in Kinds, quit' \in BOOLEAN
  PROVE  SessionInv'
  BY DEF SessionInv, SessionTypeOK, ProgressSaysNo, FineBox, Boxes, Closed

-----------------------------------------------------------------------------
(* The service under the desktop. *)

(* entry() offers a check, an update or a restart (update_service.cpp). *)
LEMMA EntryIds == Entry.id \in {"check", "apply", "restart"}
  BY DEF Entry

(* Only run("restart") asks for a restart: neither a tick nor a script nor  *)
(* the loop sets wants_restart_.                                            *)
LEMMA OnlyRunWants ==
  /\ LoopTop \/ Refresh \/ TimeoutWakes \/ ClientWakes \/ ChildWakes => want' = want
  /\ Push \/ TimePasses => want' = want
  /\ \A w \in Worker : WorkerStep(w) \/ Aborts(w) \/ WorkerDies(w) => want' = want
  /\ \A id : id # "restart" /\ Run(id) => want' = want
<1>1. Tick => want' = want
  BY DEF Tick
<1>2. LoopTop \/ Refresh \/ TimeoutWakes \/ ClientWakes \/ ChildWakes => want' = want
  BY <1>1 DEF LoopTop, Refresh, TimeoutWakes, ClientWakes, ChildWakes, ChildExits, svcVars
<1>3. Push \/ TimePasses => want' = want
  BY DEF Push, TimePasses, svcVars
<1>4. ASSUME NEW w \in Worker, WorkerStep(w) \/ Aborts(w) \/ WorkerDies(w)
      PROVE  want' = want
  BY <1>4 DEF WorkerStep, Aborts, WorkerDies, TakeLock, CheckBegins, CheckEnds, ApplyBegins,
       ApplyBuilds, ApplyFails, PlaceSaves, PlaceSaved, PlaceRenames, PlaceEnds,
       RollbackFails, ToolsEnd, svcVars
<1>5. ASSUME NEW id, id # "restart", Run(id)
      PROVE  want' = want
  BY <1>5 DEF Run
<1>6. QED  BY <1>2, <1>3, <1>4, <1>5

-----------------------------------------------------------------------------
(* One lemma per operation of the session: it keeps the invariant, and only *)
(* a question quits or restarts.                                            *)

(* A step that leaves the windows, the kind and the quit flag alone, that   *)
(* asks for no restart, and whose box keeps what a box that waits is about. *)
Calm ==
  /\ UNCHANGED <<wins, kind, quit>> /\ guarded' \subseteq Window
  /\ want' => want
  /\ FineBox(modal')
  /\ modal.open /\ modal'.open => modal'.style = modal.style /\ modal'.target = modal.target
  /\ modal'.open /\ modal'.style = "Info" => modal.open /\ modal.style = "Info"

(* Such a step keeps the invariant, and neither quits nor restarts. *)
LEMMA CalmIsSafe ==
  ASSUME SessionInv, Calm
  PROVE  SessionInv' /\ Deliberate
<1> USE InvIsFine
<1>1. InfoKind'  BY DEF Calm, InfoKind
<1>2. SessionInv'  BY <1>1, FineIsInv DEF Calm
<1>3. Deliberate  BY DEF Deliberate, Calm
<1>4. QED  BY <1>2, <1>3

(* tick_update() and mark_refresh_due(): the progress of an update may be   *)
(* written over the text of a question, never over its kind or its target.  *)
LEMMA TurnSafe == SessionInv /\ Turn => SessionInv' /\ Deliberate
<1> SUFFICES ASSUME SessionInv, Turn PROVE SessionInv' /\ Deliberate
  OBVIOUS
<1>1. want' = want
  BY OnlyRunWants DEF Turn
<1>2. FineBox(modal') /\ modal'.open = modal.open
      /\ modal'.style = modal.style /\ modal'.target = modal.target
  BY InvIsFine, RefreshIsFine DEF Turn
<1>3. UNCHANGED <<wins, guarded, kind, quit>>
  BY DEF Turn
<1>4. Calm
  BY <1>1, <1>2, <1>3, InvIsFine DEF Calm
<1>5. QED  BY <1>4, CalmIsSafe

(* The timeouts, the clients, the scripts and the world leave the box. *)
LEMMA QuietSafe ==
  ASSUME SessionInv, UNCHANGED deskVars, want' = want
  PROVE  SessionInv' /\ Deliberate
<1>1. Calm
  BY InvIsFine DEF Calm, deskVars
<1>2. QED  BY <1>1, CalmIsSafe

(* An editor is modified or saved. *)
LEMMA GuardSafe ==
  ASSUME SessionInv, NEW w \in Window, GuardChanges(w)
  PROVE  SessionInv' /\ Deliberate
<1>1. UNCHANGED <<wins, modal, kind, quit, want>> /\ guarded' \subseteq Window
  BY InvIsFine DEF GuardChanges, updateVars, svcVars
<1>2. Calm
  BY <1>1, InvIsFine DEF Calm
<1>3. QED  BY <1>2, CalmIsSafe

(* request_close(): a guarded window is asked about, another one goes. *)
LEMMA CloseSafe ==
  ASSUME SessionInv, NEW w \in Window, RequestClose(w)
  PROVE  SessionInv' /\ Deliberate
<1>0. UNCHANGED <<kind, quit, guarded, want>>
  BY DEF RequestClose, NoCommand
<1>1. CASE w \in guarded
  <2>1. UNCHANGED wins /\ modal' = Ask(modal, "close", w)
    BY <1>1 DEF RequestClose
  <2>2. /\ FineBox(modal') /\ (Taken(modal) => modal' = modal)
        /\ ~Taken(modal) => modal'.style = "Question"
    BY <2>1, InvIsFine, AskIsFine DEF Texts, Respects
  <2>3. InfoKind'
    BY <1>0, <2>2, InvIsFine DEF InfoKind
  <2>4. SessionInv'
    BY <1>0, <2>1, <2>2, <2>3, InvIsFine, FineIsInv
  <2>5. Deliberate  BY <1>0 DEF Deliberate
  <2>6. QED  BY <2>4, <2>5
<1>2. CASE w \notin guarded
  <2>1. wins' = wins \ {w} /\ UNCHANGED modal
    BY <1>2 DEF RequestClose
  <2>2. InfoKind' /\ FineBox(modal')
    BY <1>0, <2>1, InvIsFine DEF InfoKind
  <2>3. SessionInv'
    BY <1>0, <2>1, <2>2, InvIsFine, FineIsInv
  <2>4. Deliberate  BY <1>0 DEF Deliberate
  <2>5. QED  BY <2>3, <2>4
<1>3. QED  BY <1>1, <1>2

(* The menu opens a question over a closed box only. *)
LEMMA MenuSafe ==
  ASSUME SessionInv, ~modal.open, NEW x \in Texts, modal' = Ask(modal, x, NoWindow),
         UNCHANGED <<wins, guarded, quit, want>>, kind' \in Kinds
  PROVE  SessionInv' /\ Deliberate
<1>1. FineBox(modal') /\ modal'.style = "Question"
  BY InvIsFine, AskIsFine DEF Taken
<1>2. InfoKind'  BY <1>1 DEF InfoKind
<1>3. SessionInv'  BY <1>1, <1>2, InvIsFine, FineIsInv
<1>4. Deliberate
  BY DEF Deliberate
<1>5. QED  BY <1>3, <1>4

(* menu_activate() and run_update_command(), which do nothing behind a box. *)
LEMMA MenusSafe == SessionInv /\ (MenuQuit \/ MenuCheck \/ MenuUpdate) => SessionInv' /\ Deliberate
<1> SUFFICES ASSUME SessionInv, MenuQuit \/ MenuCheck \/ MenuUpdate
             PROVE  SessionInv' /\ Deliberate
  OBVIOUS
<1>1. CASE MenuQuit
  <2>1. /\ ~modal.open /\ modal' = Ask(modal, "quit", NoWindow) /\ kind' \in Kinds
        /\ UNCHANGED <<wins, guarded, quit, want>>
    BY <1>1 DEF MenuQuit, NoCommand, Kinds
  <2>2. "quit" \in Texts  BY DEF Texts
  <2>3. QED  BY <2>1, <2>2, MenuSafe
<1>2. CASE MenuCheck
  <2>1. UNCHANGED deskVars /\ want' = want
    BY <1>2, OnlyRunWants DEF MenuCheck
  <2>2. QED  BY <2>1, QuietSafe
<1>3. CASE MenuUpdate
  <2>1. /\ ~modal.open /\ modal' = Ask(modal, Entry.id, NoWindow) /\ kind' \in Kinds
        /\ UNCHANGED <<wins, guarded, quit, want>> /\ Entry.id # "check"
    BY <1>3 DEF MenuUpdate, NoCommand, Kinds
  <2>2. Entry.id \in Texts  BY <2>1, EntryIds DEF Texts
  <2>3. QED  BY <2>1, <2>2, MenuSafe
<1>4. QED  BY <1>1, <1>2, <1>3

(* Escape and Tab. *)
LEMMA KeysSafe == SessionInv /\ (Escape \/ Tab) => SessionInv' /\ Deliberate
<1> SUFFICES ASSUME SessionInv, Escape \/ Tab PROVE SessionInv' /\ Deliberate
  OBVIOUS
<1>1. UNCHANGED <<wins, guarded, kind, quit, want>>
  BY DEF Escape, Tab, NoCommand
<1>2. CASE Escape
  <2>1. FineBox(modal') /\ ~modal'.open
    BY <1>2, DismissIsFine DEF Escape
  <2>2. Calm  BY <1>1, <2>1, InvIsFine DEF Calm
  <2>3. QED  BY <2>2, CalmIsSafe
<1>3. CASE Tab
  <2>1. modal.open /\ modal' = FocusNext(modal)
    BY <1>3 DEF Tab
  <2>2. FineBox(modal') /\ modal'.open = modal.open
        /\ modal'.style = modal.style /\ modal'.target = modal.target
    BY <2>1, FocusIsFine, InvIsFine
  <2>3. Calm  BY <1>1, <2>2, InvIsFine DEF Calm
  <2>4. QED  BY <2>3, CalmIsSafe
<1>4. QED  BY <1>2, <1>3

(* answer_modal(): a "yes" comes from a question or from a report; beside a *)
(* report the kind is harmless, so a quit and a restart come from a         *)
(* question. The window that goes is the one the box was about.             *)
LEMMA AnswerSafe ==
  ASSUME SessionInv, modal.open, NEW yes \in BOOLEAN, Answer(yes),
         yes => modal.style # "Progress"
  PROVE  SessionInv' /\ Deliberate
<1>0. UNCHANGED guarded
  BY DEF Answer
<1>1. CASE yes /\ kind = "ApplyUpdate"
  <2>1. /\ Run("apply") /\ kind' = "ApplyRunning"
        /\ modal' = Progress(Dismiss(modal)) /\ UNCHANGED <<wins, quit>>
    BY <1>1 DEF Answer
  <2>2. want' = want  BY <2>1, OnlyRunWants
  <2>3. FineBox(modal') /\ modal'.style = "Progress"
    BY <2>1, ProgressIsFine
  <2>4. InfoKind' /\ kind' \in Kinds
    BY <2>1, <2>3 DEF InfoKind, Kinds
  <2>5. SessionInv'
    BY <1>0, <2>1, <2>3, <2>4, InvIsFine, FineIsInv
  <2>6. Deliberate
    BY <2>1, <2>2 DEF Deliberate
  <2>7. QED  BY <2>5, <2>6
<1>2. CASE ~(yes /\ kind = "ApplyUpdate")
  <2>1. /\ quit' = (quit \/ (yes /\ kind = "QuitSession"))
        /\ wins' = wins \/ wins' = wins \ {modal.target}
        /\ kind' = "CloseWindow" /\ modal' = Dismiss(modal)
    BY <1>2 DEF Answer, CloseTarget
  <2>2. want' = want \/ (yes /\ kind = "RestartForUpdate")
    BY <1>2 DEF Answer, NoCommand
  <2>3. FineBox(modal') /\ ~modal'.open
    BY <2>1, DismissIsFine
  <2>4. InfoKind' /\ kind' \in Kinds
    BY <2>1, <2>3 DEF InfoKind, Kinds
  <2>5. quit' \in BOOLEAN /\ wins' \subseteq Window
    BY <2>1, InvIsFine
  <2>6. SessionInv'
    BY <1>0, <2>3, <2>4, <2>5, InvIsFine, FineIsInv
  <2>7. yes /\ kind \in {"QuitSession", "RestartForUpdate"} => modal.style = "Question"
    BY InvIsFine DEF InfoKind, FineBox, Boxes
  <2>8. Deliberate  BY <2>1, <2>2, <2>7 DEF Deliberate
  <2>9. QED  BY <2>6, <2>8
<1>3. QED  BY <1>1, <1>2

(* Enter on the focused button, a click on either. *)
LEMMA AnswersSafe ==
  SessionInv /\ (Enter \/ ClickConfirm \/ ClickCancel) => SessionInv' /\ Deliberate
<1> SUFFICES ASSUME SessionInv, Enter \/ ClickConfirm \/ ClickCancel
             PROVE  SessionInv' /\ Deliberate
  OBVIOUS
<1>1. CASE Enter
  <2>1. modal.confirm \in BOOLEAN /\ (modal.confirm => modal.style # "Progress")
    BY InvIsFine DEF FineBox, Boxes
  <2>2. QED  BY <1>1, <2>1, AnswerSafe DEF Enter
<1>2. CASE ClickConfirm
  BY <1>2, AnswerSafe DEF ClickConfirm
<1>3. CASE ClickCancel
  BY <1>3, AnswerSafe DEF ClickCancel
<1>4. QED  BY <1>1, <1>2, <1>3

(* The kind and the box of a report. *)
LEMMA ReportShape ==
  ASSUME OnChildExit, report' # ""
  PROVE  \/ kind' = "RestartForUpdate" /\ kind = "ApplyRunning"
            /\ modal' = Ask(modal, "restart", NoWindow)
         \/ kind' = "ApplyUpdate" /\ modal' = Ask(modal, "apply", NoWindow)
         \/ kind' = "Information" /\ modal' = Inform(modal)
<1> DEFINE e == Entry'
<1>1. kind' = ReportKind(e)
  BY DEF OnChildExit
<1>2. \/ kind' = "RestartForUpdate" /\ kind = "ApplyRunning"
      \/ kind' = "ApplyUpdate"
      \/ kind' = "Information"
  <2> HIDE DEF e
  <2> QED  BY <1>1 DEF ReportKind
<1>3. modal' = CASE report' = "" -> modal
            [] report' # "" /\ kind' = "RestartForUpdate" -> Ask(modal, "restart", NoWindow)
            [] report' # "" /\ kind' = "ApplyUpdate" -> Ask(modal, "apply", NoWindow)
            [] OTHER -> Inform(modal)
  BY DEF OnChildExit
<1> HIDE DEF e
<1>4. QED  BY <1>2, <1>3

(* on_child_exit(): the report of a script that ends under whatever box is  *)
(* open. A report that finds a report open may change the kind under it,    *)
(* from Information to ApplyUpdate and back, and to nothing else.           *)
LEMMA ChildSafe == SessionInv /\ OnChildExit => SessionInv' /\ Deliberate
<1> SUFFICES ASSUME SessionInv, OnChildExit PROVE SessionInv' /\ Deliberate
  OBVIOUS
<1>0. UNCHANGED <<wins, guarded, quit>> /\ want' = want
  BY OnlyRunWants DEF OnChildExit
<1>1. CASE report' = ""
  <2>1. UNCHANGED deskVars
    BY <1>0, <1>1 DEF OnChildExit, deskVars
  <2>2. QED  BY <1>0, <2>1, QuietSafe
<1>2. CASE report' # ""
  <2>1. \/ kind' = "RestartForUpdate" /\ kind = "ApplyRunning"
           /\ modal' = Ask(modal, "restart", NoWindow)
        \/ kind' = "ApplyUpdate" /\ modal' = Ask(modal, "apply", NoWindow)
        \/ kind' = "Information" /\ modal' = Inform(modal)
    BY <1>2, ReportShape
  <2>2. /\ FineBox(modal') /\ (Taken(modal) => modal' = modal)
        /\ kind' # "Information" /\ ~Taken(modal) => modal'.style = "Question"
    <3>1. "restart" \in Texts /\ "apply" \in Texts /\ NoWindow \in Window \cup {NoWindow}
      BY DEF Texts
    <3>2. FineBox(modal)  BY InvIsFine
    <3>3. ASSUME NEW x \in Texts, modal' = Ask(modal, x, NoWindow)
          PROVE  /\ FineBox(modal') /\ (Taken(modal) => modal' = modal)
                 /\ ~Taken(modal) => modal'.style = "Question"
      BY <3>1, <3>2, <3>3, AskIsFine DEF Respects
    <3>4. ASSUME modal' = Inform(modal)
          PROVE  FineBox(modal') /\ (Taken(modal) => modal' = modal)
      BY <3>2, <3>4, InformIsFine DEF Respects
    <3>5. QED  BY <2>1, <3>1, <3>3, <3>4
  <2>3. kind' \in Kinds  BY <2>1 DEF Kinds
  <2>4. InfoKind'
    BY <2>1, <2>2, InvIsFine DEF InfoKind, Taken
  <2>5. SessionInv'
    BY <1>0, <2>2, <2>3, <2>4, InvIsFine, FineIsInv
  <2>6. Deliberate
    BY <1>0 DEF Deliberate
  <2>7. QED  BY <2>5, <2>6
<1>3. QED  BY <1>1, <1>2

(* The next daemon opens every window and no box. *)
LEMMA RestartSafe == SessionInv /\ Restart => SessionInv' /\ Deliberate
<1> SUFFICES ASSUME SessionInv, Restart PROVE SessionInv' /\ Deliberate
  OBVIOUS
<1>1. /\ wins' = Window /\ guarded' = {} /\ modal' = Closed
      /\ kind' = "CloseWindow" /\ quit' = FALSE /\ want' = FALSE
  BY DEF Restart, DaemonRestarts
<1>2. FineBox(modal') /\ InfoKind' /\ kind' \in Kinds /\ ~modal'.open
  BY <1>1 DEF FineBox, InfoKind, Closed, Boxes, Texts, Kinds
<1>3. SessionInv'  BY <1>1, <1>2, FineIsInv
<1>4. Deliberate
  BY <1>1 DEF Deliberate
<1>5. QED  BY <1>3, <1>4

-----------------------------------------------------------------------------
(* Every step of the session, of the scripts and of the world. *)
LEMMA StepSafe == SessionInv /\ [SessionNext]_sessionVars => SessionInv' /\ Deliberate
<1> SUFFICES ASSUME SessionInv, [SessionNext]_sessionVars
             PROVE  SessionInv' /\ Deliberate
  OBVIOUS
<1>1. CASE UNCHANGED sessionVars
  BY <1>1, QuietSafe DEF sessionVars, updateVars, svcVars
<1>2. CASE World
  <2>1. UNCHANGED deskVars /\ want' = want
    BY <1>2, OnlyRunWants DEF World
  <2>2. QED  BY <2>1, QuietSafe
<1>3. CASE Restart
  BY <1>3, RestartSafe
<1>4. CASE SessionStep
  <2>1. CASE Turn  BY <2>1, TurnSafe
  <2>2. CASE Others
    <3>1. UNCHANGED deskVars /\ want' = want
      BY <2>2, OnlyRunWants DEF Others
    <3>2. QED  BY <3>1, QuietSafe
  <2>3. CASE OnChildExit  BY <2>3, ChildSafe
  <2>4. CASE \E w \in Window : RequestClose(w) \/ GuardChanges(w)
    BY <2>4, CloseSafe, GuardSafe
  <2>5. CASE MenuQuit \/ MenuCheck \/ MenuUpdate  BY <2>5, MenusSafe
  <2>6. CASE Escape \/ Tab  BY <2>6, KeysSafe
  <2>7. CASE Enter \/ ClickConfirm \/ ClickCancel  BY <2>7, AnswersSafe
  <2>8. QED
    BY <1>4, <2>1, <2>2, <2>3, <2>4, <2>5, <2>6, <2>7 DEF SessionStep
<1>5. QED  BY <1>1, <1>2, <1>3, <1>4 DEF SessionNext

(* A session starts with every window and no box. *)
LEMMA InitSafe == SessionInit => SessionInv
<1> SUFFICES ASSUME SessionInit PROVE SessionInv
  OBVIOUS
<1>1. /\ wins = Window /\ guarded = {} /\ modal = Closed
      /\ kind = "CloseWindow" /\ quit = FALSE
  BY DEF SessionInit
<1>2. Closed \in Boxes /\ Closed.style = "Question"
  BY DEF Closed, Boxes, Texts
<1>3. QED
  BY <1>1, <1>2 DEF SessionInv, SessionTypeOK, InfoKind, ProgressSaysNo, Boxes, Kinds

(* The box is always well formed, whatever order windows, menus, keys and   *)
(* dying scripts come in: a closed box is empty, one that only informs is   *)
(* beside a kind that does no harm, one that shows progress says no         *)
(* (session.cpp, modal.cpp).                                                *)
THEOREM SessionInvariant == SessionSpec => []SessionInv
  BY InitSafe, StepSafe, PTL DEF SessionSpec

-----------------------------------------------------------------------------
(* What the box says and what a yes does, which are kept apart. *)

(* Box m beside kind k, a script of the user being at work or not: a box    *)
(* about a window says so, or shows the progress that was written over it;  *)
(* a question about an update is beside its kind, and no script whose end   *)
(* is reported is at work under it.                                         *)
BoxFits(m, k, q) ==
  /\ m.open /\ m.target # NoWindow =>
       /\ m.style = "Question"
       /\ m.text = "close" \/ (m.text = "progress" /\ k # "CloseWindow")
  /\ m.open /\ m.style = "Question" =>
       /\ m.text = "apply" => k = "ApplyUpdate" /\ ~q
       /\ m.text = "restart" => k = "RestartForUpdate" /\ ~q

ManualHasChild == manual => child # None

BoxInv == BoxFits(modal, kind, manual) /\ ManualHasChild

(* A step that makes no script the user's own. *)
NotByUser == manual' => manual /\ child' = child

(* Automatic checks, the exits of scripts, the loop and the world. *)
LEMMA OnlyRunIsManual ==
  /\ LoopTop \/ Refresh \/ TimeoutWakes \/ ClientWakes \/ ChildWakes => NotByUser
  /\ Push \/ TimePasses \/ DaemonRestarts => NotByUser
  /\ \A w \in Worker : WorkerStep(w) \/ Aborts(w) \/ WorkerDies(w) => NotByUser
  /\ NoCommand => NotByUser
<1>1. Tick => NotByUser
  BY DEF Tick, Launch, NotByUser
<1>2. LoopTop \/ Refresh => NotByUser
  BY <1>1 DEF LoopTop, Refresh, NotByUser
<1>3. TimeoutWakes \/ ClientWakes \/ ChildWakes => NotByUser
  BY DEF TimeoutWakes, ClientWakes, ChildWakes, ChildExits, svcVars, NotByUser
<1>4. Push \/ TimePasses \/ DaemonRestarts => NotByUser
  BY DEF Push, TimePasses, DaemonRestarts, svcVars, NotByUser
<1>5. ASSUME NEW w \in Worker, WorkerStep(w) \/ Aborts(w) \/ WorkerDies(w)
      PROVE  NotByUser
  <2>1. UNCHANGED svcVars
    BY <1>5 DEF WorkerStep, Aborts, WorkerDies, TakeLock, CheckBegins, CheckEnds,
         ApplyBegins, ApplyBuilds, ApplyFails, PlaceSaves, PlaceSaved, PlaceRenames,
         PlaceEnds, RollbackFails, ToolsEnd
  <2>2. QED  BY <2>1 DEF svcVars, NotByUser
<1>6. NoCommand => NotByUser
  BY DEF NoCommand, NotByUser
<1>7. QED  BY <1>2, <1>3, <1>4, <1>5, <1>6

(* run(): what it launches is a process. *)
LEMMA RunHasChild ==
  ASSUME ManualHasChild, NEW id, Run(id) PROVE ManualHasChild'
<1>1. \A w \in Free : w # None
  BY UpdateAssumption DEF Free
<1>2. CASE UNCHANGED <<child, manual>>
  BY <1>2 DEF ManualHasChild
<1>3. CASE Launch(id, TRUE)
  BY <1>1, <1>2, <1>3 DEF Launch, ManualHasChild
<1>4. QED  BY <1>2, <1>3 DEF Run

(* A step that leaves the box and its kind alone. *)
LEMMA SameBoxFits ==
  ASSUME BoxInv, NotByUser, UNCHANGED <<modal, kind>> PROVE BoxInv'
  BY DEF BoxInv, BoxFits, ManualHasChild, NotByUser

(* A step that closes the box. *)
LEMMA ClosedFits ==
  ASSUME ManualHasChild', ~modal'.open PROVE BoxInv'
  BY DEF BoxInv, BoxFits

(* NotByUser keeps the child of a manual script. *)
LEMMA StillHasChild ==
  ASSUME BoxInv, NotByUser PROVE ManualHasChild'
  BY DEF BoxInv, ManualHasChild, NotByUser

(* tick_update() and mark_refresh_due(): the progress may replace what the  *)
(* box says, while the kind is ApplyRunning.                                *)
LEMMA TurnFits == SessionInv /\ BoxInv /\ Turn => BoxInv'
<1> SUFFICES ASSUME SessionInv, BoxInv, Turn PROVE BoxInv'
  OBVIOUS
<1>1. NotByUser /\ UNCHANGED kind
  BY OnlyRunIsManual DEF Turn
<1>2. CASE modal' = modal
  BY <1>1, <1>2, SameBoxFits
<1>3. CASE modal' # modal
  <2>1. kind = "ApplyRunning" /\ modal' = [modal EXCEPT !.text = "progress"]
    BY <1>3 DEF Turn, RefreshModal
  <2>2. /\ modal'.open = modal.open /\ modal'.style = modal.style
        /\ modal'.target = modal.target /\ modal'.text = "progress"
    BY <2>1, InvIsFine DEF FineBox, Boxes
  <2>3. QED  BY <1>1, <2>1, <2>2, StillHasChild DEF BoxInv, BoxFits
<1>4. QED  BY <1>2, <1>3

(* request_close(): the box is about the window it names. *)
LEMMA CloseFits ==
  ASSUME BoxInv, NEW w \in Window, RequestClose(w) PROVE BoxInv'
<1>1. NotByUser /\ UNCHANGED kind
  BY OnlyRunIsManual DEF RequestClose
<1>2. CASE modal' = modal
  BY <1>1, <1>2, SameBoxFits
<1>3. CASE modal' # modal
  <2>1. modal' = [open |-> TRUE, style |-> "Question", text |-> "close",
                  target |-> w, confirm |-> FALSE]
    BY <1>3 DEF RequestClose, Ask
  <2>2. QED  BY <1>1, <2>1, StillHasChild DEF BoxInv, BoxFits
<1>4. QED  BY <1>2, <1>3

(* The menu: an update or a restart is offered only while no script works,  *)
(* for entry() is disabled meanwhile.                                       *)
LEMMA MenusFit ==
  BoxInv /\ (MenuQuit \/ MenuCheck \/ MenuUpdate) => BoxInv'
<1> SUFFICES ASSUME BoxInv, MenuQuit \/ MenuCheck \/ MenuUpdate PROVE BoxInv'
  OBVIOUS
<1>1. CASE MenuQuit
  <2>1. NotByUser
    BY <1>1, OnlyRunIsManual DEF MenuQuit
  <2>2. modal' = [open |-> TRUE, style |-> "Question", text |-> "quit",
                  target |-> NoWindow, confirm |-> FALSE]
    BY <1>1 DEF MenuQuit, Ask, Taken
  <2>3. QED  BY <2>1, <2>2, StillHasChild DEF BoxInv, BoxFits
<1>2. CASE MenuCheck
  <2>1. ManualHasChild' /\ ~modal'.open
    BY <1>2, RunHasChild DEF MenuCheck, deskVars, BoxInv
  <2>2. QED  BY <2>1, ClosedFits
<1>3. CASE MenuUpdate
  <2>1. NotByUser /\ ManualHasChild'
    BY <1>3, OnlyRunIsManual, StillHasChild DEF MenuUpdate
  <2>2. child = None
    BY <1>3 DEF MenuUpdate, Entry, Working
  <2>3. ~manual'
    BY <2>1, <2>2 DEF BoxInv, ManualHasChild, NotByUser
  <2>4. /\ modal' = [open |-> TRUE, style |-> "Question", text |-> Entry.id,
                     target |-> NoWindow, confirm |-> FALSE]
        /\ kind' = IF Entry.id = "restart" THEN "RestartForUpdate" ELSE "ApplyUpdate"
    BY <1>3 DEF MenuUpdate, Ask, Taken
  <2>5. QED  BY <2>1, <2>3, <2>4 DEF BoxInv, BoxFits
<1>4. QED  BY <1>1, <1>2, <1>3

(* Escape closes the box, Tab moves its focus. *)
LEMMA KeysFit == SessionInv /\ BoxInv /\ (Escape \/ Tab) => BoxInv'
<1> SUFFICES ASSUME SessionInv, BoxInv, Escape \/ Tab PROVE BoxInv'
  OBVIOUS
<1>1. NotByUser /\ UNCHANGED kind
  BY OnlyRunIsManual DEF Escape, Tab
<1>2. CASE Escape
  <2>1. ~modal'.open
    BY <1>2, DismissIsFine DEF Escape
  <2>2. QED  BY <1>1, <2>1, StillHasChild, ClosedFits
<1>3. CASE Tab
  <2>1. /\ modal'.open = modal.open /\ modal'.style = modal.style
        /\ modal'.target = modal.target /\ modal'.text = modal.text
    BY <1>3, InvIsFine DEF Tab, FocusNext, FineBox, Boxes
  <2>2. QED  BY <1>1, <2>1, StillHasChild DEF BoxInv, BoxFits, NotByUser
<1>4. QED  BY <1>2, <1>3

(* answer_modal(): the box goes, or shows the progress of what was granted; *)
(* and the window that goes is the one that the box was opened about.       *)
LEMMA AnswerFits ==
  ASSUME SessionInv, BoxInv, modal.open, NEW yes \in BOOLEAN, Answer(yes)
  PROVE  BoxInv' /\ AskedFirst
<1>1. CASE yes /\ kind = "ApplyUpdate"
  <2>1. Run("apply") /\ modal' = Progress(Dismiss(modal)) /\ UNCHANGED wins
    BY <1>1 DEF Answer
  <2>2. modal' = [open |-> TRUE, style |-> "Progress", text |-> "progress",
                  target |-> NoWindow, confirm |-> FALSE]
    BY <2>1 DEF Progress, Dismiss, Taken, Closed
  <2>3. ManualHasChild'
    BY <2>1, RunHasChild DEF BoxInv
  <2>4. QED  BY <2>1, <2>2, <2>3 DEF BoxInv, BoxFits, AskedFirst
<1>2. CASE ~(yes /\ kind = "ApplyUpdate")
  <2>1. modal' = Dismiss(modal) /\ (Run("restart") \/ NoCommand)
    BY <1>2 DEF Answer
  <2>2. ManualHasChild'
    BY <2>1, RunHasChild, StillHasChild, OnlyRunIsManual DEF BoxInv
  <2>3. BoxInv'
    BY <2>1, <2>2, DismissIsFine, ClosedFits
  <2>4. ASSUME NEW w \in guarded \cap wins, w \notin wins'
        PROVE  /\ modal.style = "Question" /\ modal.target = w
               /\ \/ modal.text = "close"
                  \/ kind = "ApplyRunning" /\ modal.text = "progress"
    <3>1. kind \in {"CloseWindow", "ApplyRunning"} /\ wins' = wins \ {modal.target}
      BY <1>2, <2>4 DEF Answer, CloseTarget
    <3>2. modal.target = w /\ w # NoWindow
      BY <2>4, <3>1, InvIsFine, SessionAssumption
    <3>3. QED  BY <3>1, <3>2 DEF BoxInv, BoxFits
  <2>5. QED  BY <2>3, <2>4 DEF AskedFirst
<1>3. QED  BY <1>1, <1>2

(* Enter and the clicks. *)
LEMMA AnswersFit ==
  SessionInv /\ BoxInv /\ (Enter \/ ClickConfirm \/ ClickCancel) => BoxInv' /\ AskedFirst
<1>1. SessionInv => modal.confirm \in BOOLEAN
  BY InvIsFine DEF FineBox, Boxes
<1>2. QED  BY <1>1, AnswerFits DEF Enter, ClickConfirm, ClickCancel

(* on_child_exit(): only a script of the user reports, and under it no box  *)
(* asks about an update, so the kind that the report sets is under no such  *)
(* question but its own.                                                    *)
LEMMA ChildFits == SessionInv /\ BoxInv /\ OnChildExit => BoxInv'
<1> SUFFICES ASSUME SessionInv, BoxInv, OnChildExit PROVE BoxInv'
  OBVIOUS
<1>1. ManualHasChild' /\ ~manual' /\ NotByUser
  BY DEF OnChildExit, ChildWakes, ChildExits, ManualHasChild, NotByUser
<1>2. CASE report' = ""
  BY <1>1, <1>2, SameBoxFits DEF OnChildExit
<1>3. CASE report' # ""
  <2>1. manual
    BY <1>3 DEF OnChildExit, ChildWakes, ChildExits
  <2>2. \/ kind' = "RestartForUpdate" /\ modal' = Ask(modal, "restart", NoWindow)
        \/ kind' = "ApplyUpdate" /\ modal' = Ask(modal, "apply", NoWindow)
        \/ kind' = "Information" /\ modal' = Inform(modal)
    BY <1>3, ReportShape
  <2>3. CASE Taken(modal)
    <3>1. modal' = modal /\ kind' # "CloseWindow"
      BY <2>2, <2>3 DEF Ask, Inform
    <3>2. QED  BY <1>1, <2>1, <3>1 DEF BoxInv, BoxFits
  <2>4. CASE ~Taken(modal)
    <3>1. /\ modal'.target = NoWindow
          /\ \/ modal'.text = "restart" /\ kind' = "RestartForUpdate"
             \/ modal'.text = "apply" /\ kind' = "ApplyUpdate"
             \/ modal'.text = "report"
      BY <2>2, <2>4 DEF Ask, Inform
    <3>2. QED  BY <1>1, <3>1 DEF BoxInv, BoxFits
  <2>5. QED  BY <2>3, <2>4
<1>4. QED  BY <1>2, <1>3

(* Every step. *)
LEMMA StepFits ==
  SessionInv /\ BoxInv /\ [SessionNext]_sessionVars => BoxInv' /\ [AskedFirst]_sessionVars
<1> SUFFICES ASSUME SessionInv, BoxInv, [SessionNext]_sessionVars
             PROVE  BoxInv' /\ [AskedFirst]_sessionVars
  OBVIOUS
<1>1. CASE UNCHANGED sessionVars
  <2>1. NotByUser /\ UNCHANGED <<modal, kind>>
    BY <1>1 DEF sessionVars, updateVars, svcVars, deskVars, NotByUser
  <2>2. QED  BY <1>1, <2>1, SameBoxFits
<1>2. CASE World
  <2>1. NotByUser /\ UNCHANGED deskVars
    BY <1>2, OnlyRunIsManual DEF World
  <2>2. QED  BY <2>1, SameBoxFits DEF deskVars, AskedFirst
<1>3. CASE Restart
  <2>1. ~modal'.open /\ NotByUser /\ wins' = Window
    BY <1>3, OnlyRunIsManual DEF Restart, Closed
  <2>2. AskedFirst
    BY <2>1, InvIsFine DEF AskedFirst
  <2>3. QED  BY <2>1, <2>2, StillHasChild, ClosedFits
<1>4. CASE SessionStep
  <2>1. CASE Turn
    BY <2>1, TurnFits DEF Turn, AskedFirst
  <2>2. CASE Others
    <3>1. NotByUser /\ UNCHANGED deskVars
      BY <2>2, OnlyRunIsManual DEF Others
    <3>2. QED  BY <3>1, SameBoxFits DEF deskVars, AskedFirst
  <2>3. CASE OnChildExit
    BY <2>3, ChildFits DEF OnChildExit, AskedFirst
  <2>4. ASSUME NEW w \in Window, RequestClose(w) PROVE BoxInv' /\ AskedFirst
    BY <2>4, CloseFits DEF RequestClose, AskedFirst
  <2>5. ASSUME NEW w \in Window, GuardChanges(w) PROVE BoxInv' /\ AskedFirst
    <3>1. NotByUser /\ UNCHANGED <<modal, kind, wins>>
      BY <2>5 DEF GuardChanges, updateVars, svcVars, NotByUser
    <3>2. QED  BY <3>1, SameBoxFits DEF AskedFirst
  <2>6. CASE MenuQuit \/ MenuCheck \/ MenuUpdate
    BY <2>6, MenusFit DEF MenuQuit, MenuCheck, MenuUpdate, deskVars, AskedFirst
  <2>7. CASE Escape \/ Tab
    BY <2>7, KeysFit DEF Escape, Tab, AskedFirst
  <2>8. CASE Enter \/ ClickConfirm \/ ClickCancel
    BY <2>8, AnswersFit
  <2>9. QED
    BY <1>4, <2>1, <2>2, <2>3, <2>4, <2>5, <2>6, <2>7, <2>8 DEF SessionStep
<1>5. QED  BY <1>1, <1>2, <1>3, <1>4 DEF SessionNext

(* What the box says, modal_kind_ beside it and the script that may report  *)
(* agree in every state of the session, but for the windows and the reports *)
(* that BoxFits excepts (session.cpp).                                      *)
THEOREM BoxInvariant == SessionSpec => []BoxInv
<1>1. SessionInit => BoxInv
  <2>1. SUFFICES ASSUME SessionInit PROVE BoxInv
    OBVIOUS
  <2>2. modal = Closed /\ manual = FALSE
    BY <2>1 DEF SessionInit, UpdateInit
  <2>3. modal.open = FALSE
    BY <2>2 DEF Closed
  <2>4. QED  BY <2>2, <2>3 DEF BoxInv, BoxFits, ManualHasChild
<1>2. QED  BY <1>1, StepFits, SessionInvariant, PTL DEF SessionSpec

(* A window that refuses to close is closed only by a yes in the box opened *)
(* about that very window, which still says so unless the progress of an    *)
(* update was written over it (request_close, answer_modal,                 *)
(* refresh_update_modal).                                                   *)
THEOREM GuardedWindowsAreAskedAbout == SessionSpec => GuardedIsAsked
  BY StepFits, SessionInvariant, BoxInvariant, PTL
     DEF SessionSpec, GuardedIsAsked, AskedFirst

(* What a yes does to a question about an update is what the question says, *)
(* whatever scripts end while it is open (run_update_command,               *)
(* on_child_exit, UpdateService::entry).                                    *)
THEOREM UpdateQuestionsHold == SessionSpec => []UpdateQuestionHolds
<1>1. BoxInv => UpdateQuestionHolds
  BY DEF BoxInv, BoxFits, UpdateQuestionHolds
<1>2. QED  BY <1>1, BoxInvariant, PTL

(* Only a question quits the session or restarts the daemon: the "OK" of a  *)
(* report never does what an abandoned question would have done             *)
(* (answer_modal, on_child_exit).                                           *)
THEOREM ReportsAreHarmless == SessionSpec => InfoIsHarmless
<1>1. SessionInv /\ [SessionNext]_sessionVars => [Deliberate]_sessionVars
  BY StepSafe
<1>2. QED  BY <1>1, SessionInvariant, PTL DEF SessionSpec, InfoIsHarmless, Deliberate

-----------------------------------------------------------------------------
(* The session implements the service. What UpdateService lets a user and   *)
(* its loop do is all that the desktop ever does to the service, so what is *)
(* proved of the service holds under the desktop.                           *)

(* epoll_wait() has a timeout while a client is attached: a key of the user *)
(* that commands nothing looks to the service like that timeout.            *)
AttachedIsBounded == attached /\ loop # "top" => bounded

(* The loop sleeps with a timeout whenever a client is attached, and a      *)
(* client that arrives wakes it (next_timeout_ms in daemon.cpp).            *)
LEMMA BoundedKept ==
  ASSUME AttachedIsBounded, [SessionNext]_sessionVars
  PROVE  AttachedIsBounded'
<1>1. CASE LoopTop \/ Refresh
  BY <1>1 DEF LoopTop, Refresh, Timeout, AttachedIsBounded
<1>2. CASE loop' = "top"
  BY <1>2 DEF AttachedIsBounded
<1>3. CASE UNCHANGED loopVars
  BY <1>3 DEF AttachedIsBounded, loopVars
<1>4. \A w \in Worker : WorkerStep(w) \/ Aborts(w) \/ WorkerDies(w) => UNCHANGED loopVars
  BY DEF WorkerStep, Aborts, WorkerDies, TakeLock, CheckBegins, CheckEnds, ApplyBegins,
       ApplyBuilds, ApplyFails, PlaceSaves, PlaceSaved, PlaceRenames, PlaceEnds,
       RollbackFails, ToolsEnd
<1>5. CASE World
  BY <1>3, <1>4, <1>5 DEF World, Push, TimePasses
<1>6. CASE Restart
  BY <1>2, <1>6 DEF Restart, DaemonRestarts
<1>7. CASE UNCHANGED sessionVars
  BY <1>3, <1>7 DEF sessionVars, updateVars
<1>8. CASE SessionStep
  <2>1. CASE Turn  BY <1>1, <2>1 DEF Turn
  <2>2. CASE Others \/ OnChildExit
    BY <1>2, <2>2 DEF Others, TimeoutWakes, ClientWakes, OnChildExit, ChildWakes, Wakes
  <2>3. CASE Input
    BY <1>2, <2>3 DEF Input, Wakes
  <2>4. CASE \E w \in Window : GuardChanges(w)
    BY <1>3, <2>4 DEF GuardChanges, updateVars
  <2>5. QED
    BY <1>8, <2>1, <2>2, <2>3, <2>4 DEF SessionStep, RequestClose, MenuQuit, MenuCheck,
       MenuUpdate, Escape, Tab, Enter, ClickConfirm, ClickCancel
<1>9. QED  BY <1>5, <1>6, <1>7, <1>8 DEF SessionNext

(* A key or a click that commands nothing. *)
LEMMA IdleInputImplements ==
  ASSUME AttachedIsBounded, ~want, Input, RestOfService, NoCommand
  PROVE  Next
<1>1. bounded /\ Wakes /\ UNCHANGED attached
  BY DEF Input, Wakes, AttachedIsBounded
<1>2. UNCHANGED <<worldVars, svcVars>>
  BY DEF RestOfService, NoCommand, worldVars, svcVars
<1>3. TimeoutWakes
  BY <1>1, <1>2 DEF TimeoutWakes
<1>4. QED  BY <1>3 DEF Next, ServiceStep

(* A command of the menu or of an answer. *)
LEMMA CommandImplements ==
  ASSUME ~want, Input, RestOfService, NEW id \in {"check", "apply", "restart"}, Run(id)
  PROVE  Next
<1>1. UserRuns
  BY DEF UserRuns, Input, RestOfService
<1>2. QED  BY <1>1 DEF Next, ServiceStep

(* Every step of the session is a step of the service or leaves it alone.   *)
LEMMA StepImplements ==
  ASSUME AttachedIsBounded, [SessionNext]_sessionVars
  PROVE  [Next]_updateVars
<1>1. CASE World
  BY <1>1 DEF World, Next
<1>2. CASE Restart
  BY <1>2 DEF Restart, Next
<1>3. CASE UNCHANGED sessionVars
  BY <1>3 DEF sessionVars
<1>4. CASE SessionStep
  <2>0. ~want
    BY <1>4 DEF SessionStep
  <2>1. CASE Turn \/ Others \/ OnChildExit
    BY <2>0, <2>1 DEF Turn, Others, OnChildExit, Next, ServiceStep
  <2>2. CASE \E w \in Window : GuardChanges(w)
    BY <2>2 DEF GuardChanges
  <2>3. CASE Input /\ RestOfService /\ NoCommand
    BY <2>0, <2>3, IdleInputImplements
  <2>4. CASE MenuCheck
    BY <2>0, <2>4, CommandImplements DEF MenuCheck
  <2>5. CASE \E yes \in BOOLEAN : Input /\ Answer(yes)
    <3>1. PICK yes \in BOOLEAN : Input /\ Answer(yes)
      BY <2>5
    <3>2. RestOfService
      BY <3>1 DEF Answer
    <3>3. Run("apply") \/ Run("restart") \/ NoCommand
      BY <3>1 DEF Answer
    <3>4. QED  BY <2>0, <3>1, <3>2, <3>3, CommandImplements, IdleInputImplements
  <2>6. CASE Enter
    <3>1. CASE modal.confirm
      <4>1. Answer(modal.confirm) => Answer(TRUE)
        BY <3>1 DEF Answer
      <4>2. QED  BY <2>5, <2>6, <4>1 DEF Enter
    <3>2. CASE ~modal.confirm
      <4>1. Answer(modal.confirm) => Answer(FALSE)
        BY <3>2 DEF Answer
      <4>2. QED  BY <2>5, <2>6, <4>1 DEF Enter
    <3>3. QED  BY <3>1, <3>2
  <2>7. CASE ClickConfirm \/ ClickCancel
    BY <2>5, <2>7 DEF ClickConfirm, ClickCancel
  <2>8. QED
    BY <1>4, <2>1, <2>2, <2>3, <2>4, <2>6, <2>7
       DEF SessionStep, RequestClose, MenuQuit, MenuUpdate, Escape, Tab
<1>5. QED  BY <1>1, <1>2, <1>3, <1>4 DEF SessionNext

(* The desktop with its dialog box implements the update service on its     *)
(* own: whatever order of keys, menus, answers and reports session.cpp goes *)
(* through, the service only sees commands, wake-ups and exits of children. *)
THEOREM SessionImplementsService == SessionSpec => Spec
<1>1. SessionInit => UpdateInit /\ AttachedIsBounded
  BY DEF SessionInit, UpdateInit, AttachedIsBounded
<1>2. QED  BY <1>1, BoundedKept, StepImplements, PTL DEF SessionSpec, Spec

(* So the scripts that the menu and the answers start exclude each other,   *)
(* and the state file they leave tells the truth about the installed binary *)
(* and the pending restart, under the conditions of RecordStaysTrue.        *)
THEOREM SessionKeepsTheRecord ==
  /\ SessionSpec => []OneScriptAtWork
  /\ "overlap" \notin Faults
     => (SessionSpec => [](RestartRemembered /\ RecordIsTrue))
<1>1. SessionSpec => []OneScriptAtWork
  BY SessionImplementsService, ScriptsExclude, PTL
<1>2. ASSUME "overlap" \notin Faults
      PROVE  SessionSpec => [](RestartRemembered /\ RecordIsTrue)
  BY <1>2, SessionImplementsService, RestartIsRemembered, RecordStaysTrue, PTL
<1>3. QED  BY <1>1, <1>2
=============================================================================
