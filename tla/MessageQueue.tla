---------------------------- MODULE MessageQueue ----------------------------
(***************************************************************************)
(* An OutQueue seen in whole messages: what the event loop relies on.      *)
(* OutQueue.tla models the same class byte by byte; here a queue is a      *)
(* value, so that a connection can own one, and every message weighs       *)
(* Weight(m) units of the ceiling.                                         *)
(*                                                                         *)
(*   msgs      messages not wholly sent, oldest first                      *)
(*   begun     a first part of Head(msgs) is already with the peer         *)
(*   entered   off_ > 0                                                    *)
(*   overflow  overflow_                                                   *)
(*   torn      history: the rest of a begun message was thrown away        *)
(***************************************************************************)
EXTENDS Integers, Sequences, SequencesExt

CONSTANTS
  Ceiling,      (* kBackpressureCeiling, in units                          *)
  SockRoom,     (* messages the kernel buffers per direction               *)
  RepaintCost,  (* what a full repaint weighs; every other message: 1      *)
  MayCompact    (* whether a sent prefix ever exceeds 64 KiB, so that      *)
                (* compact() erases it and resets off_                     *)

ASSUME MessageQueueAssumption ==
  /\ Ceiling \in Nat \ {0}
  /\ SockRoom \in Nat \ {0}
  /\ RepaintCost \in Nat \ {0}
  /\ MayCompact \in BOOLEAN

EmptyQueue ==
  [msgs |-> <<>>, begun |-> FALSE, entered |-> FALSE,
   overflow |-> "None", torn |-> FALSE]

(* A frame computed against nothing is a full repaint. *)
Repaint == [type |-> "none"]

Weight(m) == IF m.type = "Frame" /\ m.base = Repaint THEN RepaintCost ELSE 1

Load(q) == FoldLeft(LAMBDA sum, m : sum + Weight(m), 0, q.msgs)

WantsWrite(q) == q.msgs # <<>>

(* push(). *)
Push(q, m) ==
  IF Weight(m) > Ceiling - Load(q)
  THEN [EmptyQueue EXCEPT
          !.overflow = IF q.entered \/ q.overflow = "Dirty" THEN "Dirty" ELSE "Clean",
          !.torn = q.torn \/ q.begun]
  ELSE [q EXCEPT !.msgs = Append(@, m)]

(* What the peer makes of a message that follows a torn one: it reads it as *)
(* the missing part of the message it is waiting for.                       *)
Garbage == [type |-> "Garbage"]

(* flush() towards a socket holding `sent`, whose peer is alive: as many    *)
(* whole messages as there is room for, then perhaps a part of the next.    *)
Flush(q, sent) ==
  LET n    == IF Len(q.msgs) <= SockRoom - Len(sent)
              THEN Len(q.msgs) ELSE SockRoom - Len(sent)
      gone == SubSeq(q.msgs, 1, n)
      rest == SubSeq(q.msgs, n + 1, Len(q.msgs))
      wire == [i \in 1..n |-> IF q.torn THEN Garbage ELSE gone[i]]
      part == IF rest = <<>> THEN {FALSE}
              ELSE IF n = 0 /\ q.begun THEN {TRUE}
              ELSE BOOLEAN
      offs(b) == LET moved == q.entered \/ n > 0 \/ b
                 IN  IF rest = <<>> THEN {FALSE}
                     ELSE IF moved /\ MayCompact THEN BOOLEAN
                     ELSE {moved}
  IN UNION { { [queue |-> [q EXCEPT !.msgs = rest, !.begun = b, !.entered = e],
                sent  |-> sent \o wire] : e \in offs(b) } : b \in part }
=============================================================================
