----------------------------- MODULE KeyStream -----------------------------
(***************************************************************************)
(* What a session is promised about the user's keyboard, whatever happens  *)
(* to the bytes on the way: the keys arrive in the order they were typed,  *)
(* none is made of the bytes of two others, and nothing that was pasted    *)
(* arrives as a key.  The exceptions are listed one by one: each is an     *)
(* action.                                                                 *)
(***************************************************************************)
EXTENDS InputParser

CONSTANTS Keys, MaxKeys

VARIABLES
  todo,     (* the bytes of the keys typed, as far as they are not handled  *)
  seen,     (* the events the session has handled                          *)
  inside,   (* in the middle of a paste                                    *)
  waited    (* how often the daemon stopped waiting for the rest of a key  *)

vars == <<todo, seen, inside, waited>>

(* The first byte to come, its key, and what is left of that key. *)
First == todo[1]
Rest(k, i) == Len(Bytes(k)) - i + 1

Used(n) == todo' = SubSeq(todo, n + 1, Len(todo))

(* Some keys go by the name of another one. *)
HeardAs(k) ==
  CASE k = "LineFeed"  -> "Enter"
    [] k = "CtrlH"     -> "Backspace"
    [] k = "HomeTilde" -> "Home"
    [] OTHER           -> k

Meaning(k) == IF k = "Alt" THEN AltChar("x") ELSE Event(HeardAs(k))

Handles(events) == seen' = seen \o events

Plain == ~inside /\ todo # <<>>

(* A key arrives as itself. *)
Whole ==
  /\ Plain /\ First.i = 1 /\ First.k \notin {"Paste", "Escape"}
  /\ Handles(<<Meaning(First.k)>>)
  /\ Used(Rest(First.k, 1))
  /\ UNCHANGED <<inside, waited>>

(* After an escape nothing came in time: it is the key Escape, whatever    *)
(* follows.                                                                *)
Split ==
  /\ Plain /\ First.b = "esc"
  /\ Handles(<<Event("Escape")>>)
  /\ Used(1)
  /\ waited' = waited + 1
  /\ UNCHANGED inside

(* What is left of a key that was split, character by character. *)
Accented == First.b = "C3" /\ Len(todo) > 1 /\ todo[2].b = "A9"

Spell ==
  /\ Plain /\ First.i > 1 /\ First.b # "esc"
  /\ Handles(<<IF Accented THEN Event("accent") ELSE CharEvent(First.b)>>)
  /\ Used(IF Accented THEN 2 ELSE 1)
  /\ UNCHANGED <<inside, waited>>

(* The end of a paste whose beginning was split. *)
Orphan ==
  /\ Plain /\ First.i > 1 /\ First.b = "esc"
  /\ Handles(<<Event("Unknown")>>)
  /\ Used(Rest(First.k, First.i))
  /\ UNCHANGED <<inside, waited>>

(* A key typed right after Escape: its first byte goes with it, as a chord *)
(* with Alt if it is printable, else they are both lost.                   *)
Merge ==
  /\ Plain /\ First.k = "Escape" /\ Len(todo) > 1
  /\ Handles(IF Printable(todo[2].b) THEN <<AltChar(todo[2].b)>> ELSE <<>>)
  /\ Used(2)
  /\ UNCHANGED <<inside, waited>>

OpenPaste ==
  /\ Plain /\ First.k = "Paste" /\ First.i = 1
  /\ inside' = TRUE
  /\ Used(Len(PasteStart))
  /\ UNCHANGED <<seen, waited>>

(* The pasted text, in one or several slices, and its end. *)
Slice ==
  /\ inside /\ todo # <<>>
  /\ LET from == First.i - Len(PasteStart)
     IN  \/ \E n \in 1..(Len(PasteText) - from + 1) :
              /\ Handles(<<Pasted(SubSeq(PasteText, from, from + n - 1), FALSE)>>)
              /\ Used(n)
              /\ UNCHANGED inside
         \/ /\ Handles(<<Pasted(SubSeq(PasteText, from, Len(PasteText)), TRUE)>>)
            /\ Used(Rest("Paste", First.i))
            /\ inside' = FALSE
  /\ UNCHANGED waited

(* The connection is lost, with what was on its way. *)
Lose ==
  /\ todo' = <<>> /\ inside' = FALSE
  /\ UNCHANGED <<seen, waited>>

(* A key that has not been read is as good as not typed: they are all      *)
(* there from the beginning.                                               *)
Init ==
  /\ \E n \in 0..MaxKeys : \E ks \in [1..n -> Keys] :
       todo = FlattenSeq([j \in 1..n |-> Tagged(ks[j])])
  /\ seen = <<>> /\ inside = FALSE /\ waited = 0

Next ==
  Whole \/ Split \/ Spell \/ Orphan \/ Merge \/ OpenPaste \/ Slice \/ Lose

Spec == Init /\ [][Next]_vars
=============================================================================
