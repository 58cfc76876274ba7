--------------------------- MODULE WindowManager ---------------------------
(***************************************************************************)
(* wm/manager.cpp: the stack of windows, from the one behind to the one in *)
(* front, the focus and the four modes.  A manager is a record, and every  *)
(* operation of the class is an operator from managers to managers.        *)
(* The rectangles are in Layout.                                           *)
(***************************************************************************)
EXTENDS Naturals, Sequences

CONSTANTS
  kMaxWindows,  (* windows open at once                                    *)
  MaxId         (* bound: windows opened in the life of the session        *)

ASSUME WindowAssumption == kMaxWindows \in Nat \ {0} /\ MaxId \in Nat

Id == 1..MaxId
Modes == {"Normal", "Minimized", "Maximized", "Fullscreen"}

EmptyManager ==
  [stack |-> <<>>, focused |-> 0, next |-> 1,
   mode |-> [w \in Id |-> "Normal"], before |-> [w \in Id |-> "Normal"]]

(* find(): the ids of the windows that are open. *)
Windows(m) == {m.stack[i] : i \in DOMAIN m.stack}
Top(s) == s[Len(s)]
IndexOf(s, w) == CHOOSE i \in DOMAIN s : s[i] = w
Visible(m, w) == m.mode[w] # "Minimized"

-----------------------------------------------------------------------------
(* The sequence without its i-th element. *)
Without(s, i) == [j \in 1..(Len(s) - 1) |-> IF j < i THEN s[j] ELSE s[j + 1]]

(* raise(): the element is rotated to the end. *)
Raise(s, w) == Append(Without(s, IndexOf(s, w)), w)

(* The windows other than w leave full screen. *)
Restored(m, w) ==
  [v \in Id |-> IF v \in Windows(m) \ {w} /\ m.mode[v] = "Fullscreen"
                THEN m.before[v] ELSE m.mode[v]]

-----------------------------------------------------------------------------
(* The mutants of the definitions below: slips that would compile. *)

Focus_KeepsFullscreen(m, w) ==
  [m EXCEPT !.stack = Raise(m.stack, w), !.focused = w]

SetMode_SavesTooLate(m, w, x) ==
  IF x = "Fullscreen"
  THEN [m EXCEPT !.before[w] = x, !.mode = [Restored(m, w) EXCEPT ![w] = x]]
  ELSE [m EXCEPT !.mode[w] = x]

FocusAfterClose_First(m, s) == IF s = <<>> THEN 0 ELSE s[1]

StepTarget_FromTheBottom(m, back) ==
  LET i == CHOOSE i \in DOMAIN m.stack :
             Visible(m, m.stack[i]) /\ \A j \in 1..(i - 1) : ~Visible(m, m.stack[j])
  IN  IF i = Len(m.stack) THEN m.stack[i]
      ELSE IF Visible(m, m.stack[i + 1]) THEN m.stack[i + 1] ELSE m.stack[i]

-----------------------------------------------------------------------------
(* focus() of a window that is open. *)
Focus(m, w) ==
  [m EXCEPT !.mode = Restored(m, w), !.stack = Raise(m.stack, w), !.focused = w]

CanOpen(m) == Len(m.stack) < kMaxWindows /\ m.next \in Id

(* open() below the limit. *)
Open(m) ==
  Focus([m EXCEPT !.stack = Append(@, m.next), !.next = @ + 1,
                  !.mode[m.next] = "Normal", !.before[m.next] = "Normal"], m.next)

(* Who gets the focus when its owner closes: the window in front. *)
FocusAfterClose(m, s) == IF s = <<>> THEN 0 ELSE Top(s)

(* close() of a window that is open. *)
Close(m, w) ==
  LET s == Without(m.stack, IndexOf(m.stack, w)) IN
  [m EXCEPT !.stack = s,
            !.focused = IF m.focused = w THEN FocusAfterClose(m, s) ELSE m.focused]

(* set_mode(). *)
SetMode(m, w, x) ==
  IF x = "Fullscreen" /\ m.mode[w] # "Fullscreen"
  THEN [m EXCEPT !.before[w] = m.mode[w], !.mode = [Restored(m, w) EXCEPT ![w] = x]]
  ELSE [m EXCEPT !.mode[w] = x]

(* step(): the window that focus_next() or focus_prev() will find, looking  *)
(* from the focused one; itself when there is no other.                     *)
StepTarget(m, back) ==
  LET n        == Len(m.stack)
      start    == IF m.focused \in Windows(m) THEN IndexOf(m.stack, m.focused) ELSE n
      At(k)    == m.stack[IF back THEN ((start + n - k - 1) % n) + 1
                          ELSE ((start + k - 1) % n) + 1]
      first    == CHOOSE k \in 1..n :
                    /\ Visible(m, At(k))
                    /\ \A j \in 1..(k - 1) : ~Visible(m, At(j))
  IN  At(first)

Step(m, back) ==
  IF \E w \in Windows(m) : Visible(m, w) THEN Focus(m, StepTarget(m, back)) ELSE m

(* What tiling does to the modes: every visible window becomes Normal. *)
AllNormal(m) ==
  [m EXCEPT !.mode = [w \in Id |-> IF w \in Windows(m) /\ Visible(m, w)
                                   THEN "Normal" ELSE m.mode[w]]]

-----------------------------------------------------------------------------
Manager ==
  [stack : Seq(Id), focused : Nat, next : 1..(MaxId + 1),
   mode : [Id -> Modes], before : [Id -> Modes \ {"Fullscreen"}]]

(* An id designates one window, and ids are given once. *)
IdsAreUnique(m) ==
  /\ \A i, j \in DOMAIN m.stack : m.stack[i] = m.stack[j] => i = j
  /\ \A i \in DOMAIN m.stack : m.stack[i] < m.next

FrontFocused(m) == m.focused = IF m.stack = <<>> THEN 0 ELSE Top(m.stack)

FullscreenFront(m) ==
  \A i \in DOMAIN m.stack : m.mode[m.stack[i]] = "Fullscreen" => i = Len(m.stack)

(* The windows focused by k presses on NextWindow. *)
Reached(m, back) ==
  LET after[k \in 0..Len(m.stack)] == IF k = 0 THEN m ELSE Step(after[k - 1], back)
  IN  {after[k].focused : k \in 0..Len(m.stack)}
=============================================================================
