------------------------------ MODULE OutQueue ------------------------------
(***************************************************************************)
(* common/outqueue.{hpp,cpp}: the non-blocking output queue that every     *)
(* connection of the daemon owns.  push() appends a whole encoded message  *)
(* or, above the ceiling, throws the whole buffer away; flush() hands the  *)
(* kernel as many bytes as it takes and then compacts the buffer.          *)
(*                                                                         *)
(* A byte is written as the number of bytes of its own message that follow *)
(* it, so that a message of three bytes is <<2, 1, 0>>.  That is all the   *)
(* properties need: the peer's Decoder (common/proto.cpp) is aligned on    *)
(* message boundaries exactly when the last byte it received is a 0.       *)
(***************************************************************************)
EXTENDS Integers, Sequences

CONSTANTS
  Ceiling,       (* ceiling_: kBackpressureCeiling, 1 MiB in the daemon    *)
  CompactAbove,  (* the sent prefix compact() tolerates: 1 << 16           *)
  MaxMessage     (* the longest message pushed: a bound of the model       *)

ASSUME OutQueueAssumption ==
  /\ Ceiling \in Nat
  /\ CompactAbove \in Nat
  /\ MaxMessage \in Nat \ {0}

VARIABLES
  buf,        (* buf_, one entry per byte                                  *)
  off,        (* off_: how many bytes of buf the kernel already has        *)
  overflow,   (* overflow_                                                 *)
  usable,     (* FALSE once the caller has given the connection up         *)
  owed,       (* history: bytes the peer still lacks of a begun message    *)
  torn,       (* history: the rest of a begun message was thrown away      *)
  compacted   (* history: compact() erased the sent part of that message   *)

queueVars == <<buf, off, overflow, usable, owed, torn, compacted>>

Overflow == {"None", "Clean", "Dirty"}

(* The bytes of an encoded message of n bytes. *)
Message(n) == [i \in 1..n |-> n - i]

(* size() and wants_write(). *)
Size == Len(buf) - off
WantsWrite == off < Len(buf)

-----------------------------------------------------------------------------
(* The mutants of the definitions below: slips that would compile. *)

TooBig_IgnoresQueue(n) == n > Ceiling

CompactDue_OnUnsent(o) == Len(buf) - o > CompactAbove

Worst_Assigns(pending, rejection) == rejection

-----------------------------------------------------------------------------
(* The declaration order None < Clean < Dirty that push() compares with. *)
Worst(pending, rejection) ==
  IF "Dirty" \in {pending, rejection} THEN "Dirty" ELSE rejection

(* had_partial_send, read just before release_buffer() clears it. *)
Rejection == IF off > 0 THEN "Dirty" ELSE "Clean"

TooBig(n) == n > Ceiling - Size

ReleaseBuffer == buf' = <<>> /\ off' = 0

(* push(): everything or nothing, and a rejection empties the buffer. *)
Push(n) ==
  /\ usable
  /\ \/ /\ TooBig(n)
        /\ overflow' = Worst(overflow, Rejection)
        /\ torn' = (torn \/ owed > 0)
        /\ ReleaseBuffer
     \/ /\ ~TooBig(n)
        /\ buf' = buf \o Message(n)
        /\ UNCHANGED <<off, overflow, torn>>
  /\ UNCHANGED <<usable, owed, compacted>>

(* What the peer lacks once the k next bytes of buf have been sent. A torn  *)
(* stream stays as it was: the peer reads what follows as the missing part. *)
OwedAfter(k) == IF k = 0 \/ torn THEN owed ELSE buf[off + k]

CompactDue(o) == o > CompactAbove

(* compact(), run by flush() with o bytes of buf sent. *)
Compact(o) ==
  \/ /\ o = Len(buf)
     /\ ReleaseBuffer
     /\ compacted' = (compacted /\ owed' > 0)
  \/ /\ o < Len(buf) /\ CompactDue(o)
     /\ buf' = SubSeq(buf, o + 1, Len(buf))
     /\ off' = 0
     /\ compacted' = (owed' > 0)
  \/ /\ o < Len(buf) /\ ~CompactDue(o)
     /\ buf' = buf
     /\ off' = o
     /\ compacted' = (compacted /\ owed' > 0)

(* flush(): send() until the buffer is empty or the kernel takes no more,   *)
(* k bytes in all.                                                          *)
Flush(k) ==
  /\ usable
  /\ k \in 0..Size
  /\ owed' = OwedAfter(k)
  /\ Compact(off + k)
  /\ UNCHANGED <<overflow, usable, torn>>

(* flush() meets a dead peer after k bytes: it returns false before         *)
(* compact(), and every caller gives the connection up.                     *)
FlushFail(k) ==
  /\ usable
  /\ k \in 0..Size
  /\ k < Size
  /\ owed' = OwedAfter(k)
  /\ off' = off + k
  /\ usable' = FALSE
  /\ UNCHANGED <<buf, overflow, torn, compacted>>

(* take_overflow() and what the daemon does with its answer: a dirty        *)
(* overflow closes the connection, a clean one is repaired by a repaint.    *)
TakeOverflow ==
  /\ usable
  /\ overflow' = "None"
  /\ usable' = (overflow # "Dirty")
  /\ UNCHANGED <<buf, off, owed, torn, compacted>>

(* A connection that replaces a closed one starts with a new OutQueue. *)
Fresh ==
  /\ ~usable
  /\ buf' = <<>> /\ off' = 0 /\ overflow' = "None" /\ usable' = TRUE
  /\ owed' = 0 /\ torn' = FALSE /\ compacted' = FALSE

QueueInit ==
  /\ buf = <<>> /\ off = 0 /\ overflow = "None" /\ usable = TRUE
  /\ owed = 0 /\ torn = FALSE /\ compacted = FALSE

QueueNext ==
  \/ \E n \in 1..MaxMessage : Push(n)
  \/ \E k \in 0..Size : Flush(k)
  \/ \E k \in 0..Size : FlushFail(k)
  \/ TakeOverflow
  \/ Fresh

QueueSpec == QueueInit /\ [][QueueNext]_queueVars

-----------------------------------------------------------------------------
(* Type invariant. *)
TypeOK ==
  /\ buf \in Seq(Nat)
  /\ off \in 0..Len(buf)
  /\ overflow \in Overflow
  /\ usable \in BOOLEAN
  /\ owed \in Nat
  /\ torn \in BOOLEAN
  /\ compacted \in BOOLEAN

(* push() computes ceiling_ - size() in unsigned arithmetic: whatever was   *)
(* pushed, sent and compacted before, the unsent bytes never exceed the     *)
(* ceiling, so the subtraction cannot wrap around.                          *)
CeilingHolds == Size <= Ceiling

(* A peer that reads slowly but never lets the buffer drain cannot make it  *)
(* grow: with the dead prefix that compact() tolerates, the memory held is  *)
(* bounded by the ceiling plus the compaction threshold.                    *)
MemoryBounded == usable => Len(buf) <= Ceiling + CompactAbove

(* take_overflow() never undersells a torn message, as long as compact()    *)
(* did not erase the sent part of that message: if the peer holds the       *)
(* beginning of a message whose rest was thrown away, the pending overflow  *)
(* is Dirty until the caller has taken it and closed the connection.        *)
TearIsAnnounced == usable /\ torn => overflow = "Dirty" \/ compacted
=============================================================================
