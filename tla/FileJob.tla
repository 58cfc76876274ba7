------------------------------ MODULE FileJob ------------------------------
(***************************************************************************)
(* apps/files/job.{hpp,cpp}: copying, moving and deleting without blocking *)
(* the daemon.  A job is a stack of items; every step() takes one item, or *)
(* copies one slice of the file that is open, and returns to the event     *)
(* loop.  Between two steps the user, and everybody else on the machine,   *)
(* goes on changing the same disk.                                         *)
(*                                                                         *)
(* A path is a sequence of names and the disk a function from the paths    *)
(* that exist to what they hold.  A file is one of Contents (0 is the      *)
(* empty file that F7 creates), and is "open" while the job writes to it,  *)
(* "torn" when it was left half written.  Symbolic links are left out.     *)
(***************************************************************************)
EXTENDS Integers, Sequences, FiniteSets, SequencesExt

CONSTANTS
  MountPoint,  (* the path where another file system is mounted            *)
  InitialDisk, (* what the disk holds when the program starts              *)
  Slices,      (* a file may need up to this many further slices of 1 MiB  *)
  MaxDepth,    (* a longer path is refused, with ENAMETOOLONG              *)
  MaxFaults    (* system calls that fail for a reason of their own         *)

ASSUME FileJobAssumption ==
  /\ Slices \in Nat /\ MaxDepth \in Nat \ {0} /\ MaxFaults \in Nat
  /\ MountPoint \in DOMAIN InitialDisk /\ MountPoint # <<>>

VARIABLES
  fs,      (* the disk                                                     *)
  job,     (* job_                                                         *)
  faults   (* how many system calls may still fail                         *)

Dir == [data |-> 0, state |-> "dir"]

File(c, s) == [data |-> c, state |-> s]

IsDir(disk, p) == p \in DOMAIN disk /\ disk[p] = Dir

IsFile(disk, p) == p \in DOMAIN disk /\ disk[p] # Dir

(* The disk at the start is a finite tree: what has a name lies in a       *)
(* directory.                                                              *)
ASSUME DiskAssumption ==
  /\ IsFiniteSet(DOMAIN InitialDisk) /\ DOMAIN InitialDisk \subseteq Seq(STRING)
  /\ \A p \in DOMAIN InitialDisk :
       /\ \/ InitialDisk[p] = Dir
          \/ \E st \in {"whole", "torn"} : InitialDisk[p] = File(InitialDisk[p].data, st)
       /\ \A n \in 0..Len(p) - 1 : IsDir(InitialDisk, SubSeq(p, 1, n))

(* parent_path() and join_path(). *)
Parent(p) == IF p = <<>> THEN p ELSE Front(p)

Join(p, n) == Append(p, n)

Below(disk, p) == {q \in DOMAIN disk : IsPrefix(p, q)}

Children(disk, p) == {q \in Below(disk, p) : Len(q) = Len(p) + 1}

Without(disk, ps) == [q \in DOMAIN disk \ ps |-> disk[q]]

With(disk, p, node) ==
  [q \in DOMAIN disk \cup {p} |-> IF q = p THEN node ELSE disk[q]]

(* Something can be created at p: the kernel's answer to mkdir() and to     *)
(* open(O_CREAT | O_EXCL).                                                  *)
CanCreate(disk, p) ==
  /\ p \notin DOMAIN disk
  /\ p # <<>> /\ Len(p) <= MaxDepth
  /\ IsDir(disk, Parent(p))

CanRmdir(disk, p) ==
  /\ IsDir(disk, p)
  /\ Children(disk, p) = {}
  /\ p \notin {MountPoint, <<>>}

(* rename() of what is not a directory: EXDEV between two file systems, and *)
(* a file that already has the name is replaced without a word.             *)
CanRename(disk, from, to) ==
  /\ IsFile(disk, from)
  /\ IsFile(disk, to) \/ CanCreate(disk, to)
  /\ IsPrefix(MountPoint, from) <=> IsPrefix(MountPoint, to)

Renamed(disk, from, to) ==
  IF from = to THEN disk ELSE With(Without(disk, {from}), to, disk[from])

(* close(out_): what was written so far is what the file will be. *)
Closed(disk, state) ==
  [q \in DOMAIN disk |-> IF disk[q].state = "open"
                         THEN [disk[q] EXCEPT !.state = state] ELSE disk[q]]

-----------------------------------------------------------------------------
NoFile == [from |-> <<>>, to |-> <<>>, data |-> 0, whole |-> TRUE, left |-> 0]

(* A FileJob at rest: what cancel() leaves, and what the constructor sets. *)
NoJob ==
  [active |-> FALSE, kind |-> "Copy", pending |-> <<>>, cur |-> NoFile,
   failed |-> FALSE, promise |-> {}, disturbed |-> FALSE]

Copying(j) == j.cur # NoFile

Item(from, to, rmdir_only) ==
  [from |-> from, to |-> to, rmdir_only |-> rmdir_only]

(* History: what the user was promised when the job started, one entry for *)
(* everything that lay under the sources.  `mistaken` marks the directories *)
(* for which mkdir() finds a name and take_next() goes on as if it had made *)
(* them: a file has the name, or the directory is its own target.           *)
Promise(disk, sources, dest) ==
  UNION { LET to(q) == Join(dest, Last(s)) \o SubSeq(q, Len(s) + 1, Len(q))
          IN  { [from |-> q, to |-> to(q), node |-> disk[q],
                 mistaken |-> disk[q] = Dir /\ (to(q) = q \/ IsFile(disk, to(q)))]
                : q \in Below(disk, s) }
          : s \in sources }

(* start(): the items are stacked so that the first source leaves first.    *)
(* `order` is the order of the vector of sources.                           *)
Started(disk, order, dest, kind) ==
  [NoJob EXCEPT
     !.active  = order # <<>>,
     !.kind    = kind,
     !.pending = Reverse([i \in 1..Len(order) |->
                            Item(order[i], Join(dest, Last(order[i])), FALSE)]),
     !.promise = Promise(disk, ToSet(order), dest)]

(* cancel(): both descriptors are closed and the stack is dropped; the file *)
(* that was being written stays as it is.                                   *)
Cancelled(s) == [s EXCEPT !.fs = Closed(@, "torn"), !.job = NoJob]

(* A mutant: fail() without its counter. *)
Failed_Uncounted(s) == s

Failed(s) == [s EXCEPT !.job.failed = TRUE]

(* A call that also fails when one of the remaining faults strikes it. *)
Fallible(s, success) ==
  {success} \cup (IF s.faults > 0 THEN {[Failed(s) EXCEPT !.faults = @ - 1]} ELSE {})

-----------------------------------------------------------------------------
(* The mutants of the definitions below: slips that would compile. *)

(* The source is removed whatever became of the copy. *)
SliceFailed_RemovesSource(s) ==
  [s EXCEPT !.fs = Without(Closed(@, "torn"), {s.job.cur.to, s.job.cur.from}),
            !.job.failed = TRUE, !.job.cur = NoFile]

(* A marker is taken for the directory it stands for. *)
IsMarker_Lost(it) == FALSE

-----------------------------------------------------------------------------
(* The end of the file: finish_current().  A move now removes its source,  *)
(* by name, and does not look at what unlink() answers.                    *)
SliceDone(s) ==
  LET cur    == s.job.cur
      closed == [s EXCEPT !.fs = Closed(@, IF cur.whole THEN "whole" ELSE "torn"),
                          !.job.cur = NoFile]
      gone   == IF s.job.kind = "Move" /\ IsFile(s.fs, cur.from)
                THEN [closed EXCEPT !.fs = Without(@, {cur.from})] ELSE closed
  IN  {gone} \cup (IF s.job.kind = "Move" /\ s.faults > 0
                   THEN {[closed EXCEPT !.faults = @ - 1]} ELSE {})

(* read() or write() fails: the half-written file is removed, by name. *)
SliceFailed(s) ==
  [s EXCEPT !.fs = IF IsFile(@, s.job.cur.to)
                   THEN Closed(Without(@, {s.job.cur.to}), "torn")
                   ELSE Closed(@, "torn"),
            !.job.failed = TRUE, !.job.cur = NoFile]

(* One slice of the open file. *)
Slice(s) ==
     SliceDone(s)
  \cup (IF s.faults > 0 THEN {[SliceFailed(s) EXCEPT !.faults = @ - 1]} ELSE {})
  \cup (IF s.job.cur.left > 0 THEN {[s EXCEPT !.job.cur.left = @ - 1]} ELSE {})

(* What replaces a directory on the stack: its marker, unless it is copied, *)
(* under its entries, in whatever order readdir() gives them.               *)
Stacked(it, kids, kind) ==
  (IF kind = "Copy" THEN <<>> ELSE <<Item(it.from, it.to, TRUE)>>)
    \o [i \in 1..Len(kids) |-> Item(kids[i], Join(it.to, Last(kids[i])), FALSE)]

(* mkdir() may also fail for a reason of its own (ENOSPC, EACCES); a name  *)
(* that exists is taken for the directory, whatever has it.                *)
TakeDir(s, it) ==
  LET makes == s.job.kind # "Delete" /\ CanCreate(s.fs, it.to)
      made == IF makes THEN [s EXCEPT !.fs = With(@, it.to, Dir)] ELSE s
      read(kids) ==
        [made EXCEPT !.job.pending = @ \o Stacked(it, kids, s.job.kind)]
      unread ==
        [Failed(made) EXCEPT !.job.pending = @ \o Stacked(it, <<>>, s.job.kind),
                             !.faults = @ - 1]
      unmade == [Failed(s) EXCEPT !.faults = @ - 1]
  IN  IF s.job.kind # "Delete" /\ it.to \notin DOMAIN made.fs
      THEN {Failed(s)}
      ELSE { read(kids) : kids \in SetToSeqs(Children(made.fs, it.from)) }
           \cup (IF s.faults > 0 THEN {unread} ELSE {})
           \cup (IF s.faults > 0 /\ makes THEN {unmade} ELSE {})

(* The open() of the source and of a target that must not exist; the first *)
(* slice is copied by the same step().                                     *)
TakeCopy(s, it) ==
  LET cur(n) == [from |-> it.from, to |-> it.to, data |-> s.fs[it.from].data,
                 whole |-> s.fs[it.from].state = "whole", left |-> n]
      opened == { [s EXCEPT !.fs = With(@, it.to, File(@[it.from].data, "open")),
                            !.job.cur = cur(n)] : n \in 0..Slices }
  IN  IF CanCreate(s.fs, it.to)
      THEN (UNION { Slice(o) : o \in opened })
           \cup (IF s.faults > 0 THEN {[Failed(s) EXCEPT !.faults = @ - 1]} ELSE {})
      ELSE {Failed(s)}

(* The directory has been emptied: only its rmdir() is left. *)
IsMarker(it) == it.rmdir_only

(* take_next() once it has taken an item off the stack, and the first slice *)
(* of the file it may have opened.  Any failure of rename(), not only       *)
(* EXDEV, ends in a copy.                                                   *)
TakeNext(s, it) ==
  LET without == [s EXCEPT !.fs = Without(@, {it.from})]
  IN  IF IsMarker(it)
      THEN IF CanRmdir(s.fs, it.from) THEN Fallible(s, without) ELSE {Failed(s)}
      ELSE IF it.from \notin DOMAIN s.fs THEN {Failed(s)}
      ELSE IF IsDir(s.fs, it.from) THEN TakeDir(s, it)
      ELSE IF s.job.kind = "Delete" THEN Fallible(s, without)
      ELSE IF s.job.kind = "Move" /\ CanRename(s.fs, it.from, it.to)
      THEN {[s EXCEPT !.fs = Renamed(@, it.from, it.to)]}
           \cup (IF s.faults > 0 THEN TakeCopy([s EXCEPT !.faults = @ - 1], it) ELSE {})
      ELSE TakeCopy(s, it)

(* step() while there is work left. *)
StepResults(s) ==
  IF Copying(s.job) THEN Slice(s)
  ELSE UNION { TakeNext(t, Last(s.job.pending))
               : t \in {[s EXCEPT !.job.pending = Front(@)]} }

HasWork == Copying(job) \/ job.pending # <<>>
=============================================================================
