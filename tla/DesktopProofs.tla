--------------------------- MODULE DesktopProofs ---------------------------
(***************************************************************************)
(* The window in front has the focus, and is the only one that may be in   *)
(* full screen; a gesture always has a live window; repeating NextWindow    *)
(* visits every window.  For every limit, every number of windows and every *)
(* set of applications.                                                     *)
(***************************************************************************)
EXTENDS Desktop, WellFoundedInduction, SequenceTheorems, TLAPS

(* What every operation of the manager keeps. *)
Sound(m) ==
  m \in Manager /\ IdsAreUnique(m) /\ FrontFocused(m) /\ FullscreenFront(m)

-----------------------------------------------------------------------------
(* Without() removes one element and keeps the others in order. *)
LEMMA WithoutIsSeq ==
  ASSUME NEW S, NEW s \in Seq(S), NEW i \in 1..Len(s)
  PROVE  /\ Without(s, i) \in Seq(S)
         /\ Len(Without(s, i)) = Len(s) - 1
         /\ \A j \in 1..(Len(s) - 1) : Without(s, i)[j] = IF j < i THEN s[j] ELSE s[j + 1]
  <1>1. Len(s) - 1 \in Nat
    OBVIOUS
  <1>2. Without(s, i) \in [1..(Len(s) - 1) -> S]
    BY DEF Without
  <1>3. Without(s, i) \in Seq(S)
    BY <1>1, <1>2, SeqDef
  <1>4. Len(Without(s, i)) = Len(s) - 1
    BY <1>1, <1>2, <1>3, LenProperties
  <1> QED
    BY <1>3, <1>4 DEF Without

(* An open window has one place in the stack. *)
LEMMA IndexIsPlace ==
  ASSUME NEW m \in Manager, NEW w \in Windows(m)
  PROVE  /\ IndexOf(m.stack, w) \in 1..Len(m.stack)
         /\ m.stack[IndexOf(m.stack, w)] = w
  BY DEF IndexOf, Windows, Manager

(* Raise() keeps the windows and puts one of them in front. *)
LEMMA RaiseIsSound ==
  ASSUME NEW m \in Manager, IdsAreUnique(m), NEW w \in Windows(m)
  PROVE  LET s == Raise(m.stack, w) IN
         /\ s \in Seq(Id) /\ Len(s) = Len(m.stack) /\ Len(s) > 0
         /\ s[Len(s)] = w
         /\ \A j \in 1..(Len(s) - 1) : s[j] # w
         /\ \A j \in 1..(Len(s) - 1) : s[j] \in Windows(m)
         /\ \A j, k \in 1..Len(s) : s[j] = s[k] => j = k
  <1> DEFINE i == IndexOf(m.stack, w)
             t == Without(m.stack, i)
             s == Raise(m.stack, w)
  <1>1. i \in 1..Len(m.stack) /\ m.stack[i] = w
    BY IndexIsPlace
  <1>2. m.stack \in Seq(Id) /\ w \in Id /\ Len(m.stack) \in Nat
    BY <1>1 DEF Manager
  <1>3. /\ t \in Seq(Id) /\ Len(t) = Len(m.stack) - 1
        /\ \A j \in 1..(Len(m.stack) - 1) : t[j] = IF j < i THEN m.stack[j] ELSE m.stack[j + 1]
    BY <1>1, <1>2, WithoutIsSeq
  <1>4. s = Append(t, w)
    BY DEF Raise
  <1> HIDE DEF i, t, s
  <1>5. /\ s \in Seq(Id) /\ Len(s) = Len(m.stack) /\ s[Len(s)] = w
        /\ \A j \in 1..(Len(s) - 1) : s[j] = t[j]
    BY <1>2, <1>3, <1>4
  <1>6. \A j, k \in 1..Len(m.stack) : m.stack[j] = m.stack[k] => j = k
    BY <1>2 DEF IdsAreUnique
  <1>7. \A j \in 1..(Len(s) - 1) : s[j] # w
    BY <1>1, <1>2, <1>3, <1>5, <1>6
  <1>8. \A j \in 1..(Len(s) - 1) : s[j] \in Windows(m)
    BY <1>1, <1>2, <1>3, <1>5, SMTT(30) DEF Windows
  <1>9. \A j, k \in 1..(Len(s) - 1) : s[j] = s[k] => j = k
    BY <1>1, <1>2, <1>3, <1>5, <1>6, SMTT(30)
  <1>10. \A j, k \in 1..Len(s) : s[j] = s[k] => j = k
    BY <1>2, <1>5, <1>7, <1>9
  <1>11. Len(s) > 0
    BY <1>1, <1>2, <1>5
  <1> QED
    BY <1>5, <1>7, <1>8, <1>10, <1>11 DEF s

-----------------------------------------------------------------------------
(* The operations of the manager. *)

(* Leaving full screen keeps the types and leaves at most w in full screen. *)
LEMMA RestoredIsSound ==
  ASSUME NEW m \in Manager, NEW w \in Id
  PROVE  /\ Restored(m, w) \in [Id -> Modes]
         /\ \A v \in Windows(m) : Restored(m, w)[v] = "Fullscreen" => v = w
         /\ \A v \in Id : m.mode[v] # "Fullscreen" => Restored(m, w)[v] = m.mode[v]
         /\ Restored(m, w)[w] = m.mode[w]
  <1>1. Windows(m) \subseteq Id
    BY DEF Windows, Manager
  <1> QED
    BY <1>1 DEF Restored, Manager, Modes

(* The fields of a manager that has been focused. *)
LEMMA FocusFields ==
  ASSUME NEW m \in Manager, NEW w \in Windows(m)
  PROVE  /\ Focus(m, w).stack = Raise(m.stack, w) /\ Focus(m, w).focused = w
         /\ Focus(m, w).mode = Restored(m, w) /\ Focus(m, w).next = m.next
         /\ Focus(m, w).before = m.before
  BY DEF Focus, Manager

(* focus() keeps the windows and needs no focus before it. *)
LEMMA FocusIsSound ==
  ASSUME NEW m \in Manager, IdsAreUnique(m), NEW w \in Windows(m)
  PROVE  Sound(Focus(m, w)) /\ Windows(Focus(m, w)) = Windows(m)
  <1> DEFINE f == Focus(m, w)
             s == Raise(m.stack, w)
  <1>1. w \in Id /\ m.stack \in Seq(Id) /\ Len(m.stack) \in Nat
    BY DEF Windows, Manager
  <1>2. /\ s \in Seq(Id) /\ Len(s) = Len(m.stack) /\ Len(s) > 0
        /\ s[Len(s)] = w
        /\ \A j \in 1..(Len(s) - 1) : s[j] # w
        /\ \A j \in 1..(Len(s) - 1) : s[j] \in Windows(m)
        /\ \A j, k \in 1..Len(s) : s[j] = s[k] => j = k
    BY RaiseIsSound
  <1>3. /\ Restored(m, w) \in [Id -> Modes]
        /\ \A v \in Windows(m) : Restored(m, w)[v] = "Fullscreen" => v = w
    BY <1>1, RestoredIsSound
  <1>4. /\ f.stack = s /\ f.focused = w /\ f.mode = Restored(m, w)
        /\ f.next = m.next /\ f.before = m.before
    BY FocusFields
  <1>a. w \in Nat
    BY <1>1, WindowAssumption DEF Id
  <1>5. f \in Manager
    BY <1>a, <1>2, <1>3 DEF Focus, Manager
  <1> HIDE DEF f, s
  <1>6. DOMAIN s = 1..Len(s) /\ DOMAIN m.stack = 1..Len(m.stack)
    BY <1>1, <1>2
  <1>7. \A j \in 1..Len(s) : s[j] \in Windows(m)
    BY <1>1, <1>2
  <1>8. Windows(f) = Windows(m)
    <2>1. Windows(f) \subseteq Windows(m)
      BY <1>4, <1>6, <1>7 DEF Windows
    <2>2. ASSUME NEW v \in Windows(m) PROVE v \in Windows(f)
      <3> DEFINE i == IndexOf(m.stack, w)
      <3>1. i \in 1..Len(m.stack) /\ m.stack[i] = w
        BY IndexIsPlace
      <3>2. PICK k \in 1..Len(m.stack) : m.stack[k] = v
        BY <1>6 DEF Windows
      <3>3. s = Append(Without(m.stack, i), w)
        BY DEF s, Raise
      <3>4. /\ Without(m.stack, i) \in Seq(Id) /\ Len(Without(m.stack, i)) = Len(m.stack) - 1
            /\ \A j \in 1..(Len(m.stack) - 1) :
                 Without(m.stack, i)[j] = IF j < i THEN m.stack[j] ELSE m.stack[j + 1]
        BY <1>1, <3>1, WithoutIsSeq
      <3> HIDE DEF i
      <3>5. \A j \in 1..(Len(m.stack) - 1) : s[j] = Without(m.stack, i)[j]
        BY <1>1, <3>3, <3>4
      <3>6. CASE k = i
        BY <1>2, <1>4, <1>6, <3>1, <3>2, <3>6, SMTT(30) DEF Windows
      <3>7. CASE k < i
        <4>1. k \in 1..(Len(m.stack) - 1) /\ s[k] = v
          BY <1>1, <3>1, <3>2, <3>4, <3>5, <3>7
        <4> QED
          BY <4>1, <1>1, <1>2, <1>4, <1>6 DEF Windows
      <3>8. CASE k > i
        <4> DEFINE j == k - 1
        <4>1. j \in 1..(Len(m.stack) - 1) /\ ~(j < i) /\ j + 1 = k
          BY <1>1, <3>1, <3>2, <3>8
        <4> HIDE DEF j
        <4>2. s[j] = v
          BY <3>2, <3>4, <3>5, <4>1
        <4> QED
          BY <4>1, <4>2, <1>1, <1>2, <1>4, <1>6 DEF Windows
      <3> QED
        BY <1>1, <3>1, <3>2, <3>6, <3>7, <3>8
    <2> QED
      BY <2>1, <2>2
  <1>9. IdsAreUnique(f)
    <2>1. \A v \in Windows(m) : v < m.next
      BY DEF IdsAreUnique, Windows
    <2>2. \A j \in 1..Len(s) : s[j] < m.next
      BY <1>7, <2>1
    <2> QED
      BY <1>2, <1>4, <1>6, <2>2 DEF IdsAreUnique
  <1>10. FrontFocused(f)
    BY <1>2, <1>4 DEF FrontFocused, Top
  <1>11. FullscreenFront(f)
    BY <1>1, <1>2, <1>3, <1>4, <1>6, <1>7 DEF FullscreenFront
  <1> QED
    BY <1>5, <1>8, <1>9, <1>10, <1>11 DEF Sound, f

(* The windows that a change of mode leaves alone keep their place. *)
LEMMA ModeIsSound ==
  ASSUME NEW m, Sound(m), NEW f \in Manager,
         f.stack = m.stack, f.focused = m.focused, f.next = m.next,
         FullscreenFront(f)
  PROVE  Sound(f) /\ Windows(f) = Windows(m)
  BY DEF Sound, Windows, IdsAreUnique, FrontFocused

(* set_mode(): only the focused window may be put in full screen. *)
LEMMA SetModeIsSound ==
  ASSUME NEW m, Sound(m), NEW w \in Windows(m), NEW x \in Modes,
         x = "Fullscreen" => w = m.focused
  PROVE  /\ Sound(SetMode(m, w, x)) /\ Windows(SetMode(m, w, x)) = Windows(m)
         /\ SetMode(m, w, x).mode[w] = x
         /\ \A v \in Id \ {w} : m.mode[v] # "Fullscreen" => SetMode(m, w, x).mode[v] = m.mode[v]
         /\ SetMode(m, w, x).focused = m.focused
  <1> DEFINE f == SetMode(m, w, x)
  <1>1. /\ m \in Manager /\ w \in Id /\ m.stack \in Seq(Id) /\ Len(m.stack) \in Nat
        /\ DOMAIN m.stack = 1..Len(m.stack)
    BY DEF Sound, Windows, Manager
  <1>2. /\ Restored(m, w) \in [Id -> Modes]
        /\ \A v \in Windows(m) : Restored(m, w)[v] = "Fullscreen" => v = w
        /\ \A v \in Id : m.mode[v] # "Fullscreen" => Restored(m, w)[v] = m.mode[v]
    BY <1>1, RestoredIsSound
  <1>3. f \in Manager /\ f.stack = m.stack /\ f.focused = m.focused /\ f.next = m.next
    BY <1>1, <1>2 DEF SetMode, Manager, Modes
  <1>4. /\ f.mode[w] = x
        /\ \A v \in Id \ {w} : f.mode[v] \in {m.mode[v], Restored(m, w)[v]}
        /\ \A v \in Id \ {w} : m.mode[v] # "Fullscreen" => f.mode[v] = m.mode[v]
    BY <1>1, <1>2 DEF SetMode, Manager
  <1>5. x = "Fullscreen" => \A v \in Windows(m) \ {w} : f.mode[v] # "Fullscreen"
    <2>1. CASE x = "Fullscreen" /\ m.mode[w] # "Fullscreen"
      BY <1>1, <1>2, <2>1 DEF SetMode, Manager, Windows
    <2>2. CASE x = "Fullscreen" /\ m.mode[w] = "Fullscreen"
      <3>1. PICK i \in 1..Len(m.stack) : m.stack[i] = w
        BY <1>1 DEF Windows
      <3>2. i = Len(m.stack)
        BY <1>1, <2>2, <3>1 DEF Sound, FullscreenFront
      <3>3. \A v \in Windows(m) \ {w} : m.mode[v] # "Fullscreen"
        BY <1>1, <3>1, <3>2 DEF Sound, FullscreenFront, Windows
      <3>4. \A v \in Windows(m) \ {w} : v \in Id \ {w}
        BY <1>1 DEF Windows
      <3> QED
        BY <1>4, <3>3, <3>4
    <2> QED
      BY <2>1, <2>2
  <1>6. FullscreenFront(f)
    <2> SUFFICES ASSUME NEW i \in 1..Len(m.stack), f.mode[m.stack[i]] = "Fullscreen"
                 PROVE  i = Len(m.stack)
      BY <1>1, <1>3 DEF FullscreenFront
    <2>0. m.stack[i] \in Id /\ m.stack[i] \in Windows(m)
      BY <1>1 DEF Windows
    <2>1. CASE m.stack[i] = w
      <3>1. x = "Fullscreen"
        BY <1>4, <2>1
      <3>2. w = m.stack[Len(m.stack)]
        BY <1>1, <3>1 DEF Sound, FrontFocused, Top
      <3> QED
        BY <1>1, <2>1, <3>2 DEF Sound, IdsAreUnique
    <2>2. CASE m.stack[i] # w
      <3>1. m.mode[m.stack[i]] = "Fullscreen"
        BY <1>4, <2>0, <2>2
      <3> QED
        BY <1>1, <3>1 DEF Sound, FullscreenFront
    <2> QED
      BY <2>1, <2>2
  <1> QED
    BY <1>3, <1>4, <1>6, ModeIsSound DEF Sound

(* Tiling puts no window in full screen. *)
LEMMA AllNormalIsSound ==
  ASSUME NEW m, Sound(m)
  PROVE  Sound(AllNormal(m)) /\ Windows(AllNormal(m)) = Windows(m)
  <1> DEFINE f == AllNormal(m)
  <1>1. f \in Manager /\ f.stack = m.stack /\ f.focused = m.focused /\ f.next = m.next
    BY DEF AllNormal, Sound, Manager, Modes
  <1>2. \A v \in Id : f.mode[v] \in {"Normal", m.mode[v]}
    BY DEF AllNormal, Sound, Manager
  <1>3. \A i \in DOMAIN m.stack : m.stack[i] \in Id
    BY DEF Sound, Manager
  <1>4. FullscreenFront(f)
    BY <1>1, <1>2, <1>3 DEF Sound, FullscreenFront
  <1> QED
    BY <1>1, <1>4, ModeIsSound


(* open(): the new window is in front, and the others keep their mode but   *)
(* for full screen.                                                         *)
LEMMA OpenIsSound ==
  ASSUME NEW m, Sound(m), CanOpen(m)
  PROVE  /\ Sound(Open(m)) /\ Windows(Open(m)) = Windows(m) \cup {m.next}
         /\ Open(m).mode[m.next] = "Normal" /\ Open(m).next = m.next + 1
         /\ \A v \in Windows(m) : m.mode[v] # "Fullscreen" => Open(m).mode[v] = m.mode[v]
  <1> DEFINE w == m.next
             n == [m EXCEPT !.stack = Append(@, m.next), !.next = @ + 1,
                            !.mode[m.next] = "Normal", !.before[m.next] = "Normal"]
             len == Len(m.stack)
  <1>1. /\ m \in Manager /\ w \in Id /\ m.stack \in Seq(Id) /\ len \in Nat
        /\ DOMAIN m.stack = 1..len
    BY DEF Sound, Manager, CanOpen
  <1>2. w \in Nat /\ w + 1 \in 1..(MaxId + 1)
    BY <1>1, WindowAssumption DEF Id
  <1>3. n.stack = Append(m.stack, w) /\ n.next = w + 1 /\ n.mode = [m.mode EXCEPT ![w] = "Normal"]
    BY <1>1 DEF Manager
  <1>4. n \in Manager
    <2>1. Append(m.stack, w) \in Seq(Id)
      BY <1>1
    <2> QED
      BY <1>1, <1>2, <2>1 DEF Manager, Modes
  <1>5. Open(m) = Focus(n, w)
    BY DEF Open
  <1> HIDE DEF n
  <1>6. /\ DOMAIN n.stack = 1..(len + 1) /\ n.stack[len + 1] = w
        /\ \A i \in 1..len : n.stack[i] = m.stack[i]
    BY <1>1, <1>3
  <1>7. Windows(n) = Windows(m) \cup {w}
    BY <1>1, <1>6, SMTT(30) DEF Windows
  <1>8. /\ \A i, j \in 1..len : m.stack[i] = m.stack[j] => i = j
        /\ \A i \in 1..len : m.stack[i] < w
        /\ \A i \in 1..len : m.stack[i] \in Nat
    <2>1. \A i \in 1..len : m.stack[i] \in Id
      BY <1>1
    <2>2. \A x \in Id : x \in Nat
      BY WindowAssumption DEF Id
    <2> QED
      BY <1>1, <2>1, <2>2 DEF Sound, IdsAreUnique
  <1>9. IdsAreUnique(n)
    <2>1. ASSUME NEW i \in 1..(len + 1) PROVE n.stack[i] < w + 1
      <3>1. CASE i = len + 1
        BY <1>2, <1>6, <3>1
      <3>2. CASE i \in 1..len
        <4>1. n.stack[i] < w /\ n.stack[i] \in Nat
          BY <1>6, <1>8, <3>2
        <4> QED
          BY <1>2, <4>1
      <3> QED
        BY <1>1, <3>1, <3>2
    <2>2. \A i, j \in 1..(len + 1) : n.stack[i] = n.stack[j] => i = j
      BY <1>1, <1>2, <1>6, <1>8, SMTT(30)
    <2> QED
      BY <1>3, <1>6, <2>1, <2>2 DEF IdsAreUnique
  <1>10. Sound(Open(m)) /\ Windows(Open(m)) = Windows(n)
    BY <1>4, <1>5, <1>7, <1>9, FocusIsSound
  <1>11. Open(m).mode = Restored(n, w) /\ Open(m).next = w + 1
    BY <1>3, <1>4, <1>5, <1>7, FocusFields
  <1>12. /\ n.mode[w] = "Normal" /\ \A v \in Windows(m) : v # w /\ v \in Id /\ n.mode[v] = m.mode[v]
    BY <1>1, <1>2, <1>3, <1>8 DEF Windows, Manager
  <1> QED
    BY <1>1, <1>4, <1>7, <1>10, <1>11, <1>12, RestoredIsSound

(* close(): the focus of a window that closes goes to the one in front. *)
LEMMA CloseIsSound ==
  ASSUME NEW m, Sound(m), NEW w \in Windows(m)
  PROVE  /\ Sound(Close(m, w)) /\ Windows(Close(m, w)) \subseteq Windows(m)
         /\ Close(m, w).mode = m.mode
  <1> DEFINE i == IndexOf(m.stack, w)
             s == Without(m.stack, i)
             len == Len(m.stack)
             f == Close(m, w)
  <1>1. /\ m \in Manager /\ m.stack \in Seq(Id) /\ len \in Nat
        /\ DOMAIN m.stack = 1..len
    BY DEF Sound, Manager
  <1>2. i \in 1..len /\ m.stack[i] = w
    BY <1>1, IndexIsPlace
  <1>3. /\ s \in Seq(Id) /\ Len(s) = len - 1
        /\ \A j \in 1..(len - 1) : s[j] = IF j < i THEN m.stack[j] ELSE m.stack[j + 1]
    BY <1>1, <1>2, WithoutIsSeq
  <1>4. /\ f = [m EXCEPT !.stack = s,
                 !.focused = IF m.focused = w THEN FocusAfterClose(m, s) ELSE m.focused]
    BY DEF Close
  <1>5. /\ f.stack = s /\ f.mode = m.mode /\ f.next = m.next /\ f.before = m.before
        /\ f.focused = IF m.focused = w THEN FocusAfterClose(m, s) ELSE m.focused
    BY <1>1, <1>4 DEF Manager
  <1> HIDE DEF i, s
  <1>6. DOMAIN s = 1..(len - 1)
    BY <1>3
  <1>7. \A j, k \in 1..len : m.stack[j] = m.stack[k] => j = k
    BY <1>1 DEF Sound, IdsAreUnique
  <1>13. \A j \in 1..(len - 1) : \E k \in 1..len : s[j] = m.stack[k]
    <2> TAKE j \in 1..(len - 1)
    <2>1. j \in 1..len /\ j + 1 \in 1..len
      BY <1>1
    <2> QED
      BY <1>3, <2>1
  <1>8. f \in Manager
    <2>1. FocusAfterClose(m, s) \in Nat
      BY <1>1, <1>3, WindowAssumption, SMTT(30) DEF FocusAfterClose, Top, Id
    <2> QED
      BY <1>1, <1>3, <1>4, <2>1 DEF Manager
  <1> HIDE DEF f
  <1>9. IdsAreUnique(f)
    <2>1. \A j \in 1..(len - 1) : s[j] < f.next
      <3>1. \A k \in 1..len : m.stack[k] < m.next
        BY <1>1 DEF Sound, IdsAreUnique
      <3>2. \A j \in 1..(len - 1) : \E k \in 1..len : s[j] = m.stack[k]
        BY <1>13
      <3> QED
        BY <1>5, <3>1, <3>2
    <2>2. ASSUME NEW j \in 1..(len - 1), NEW k \in 1..(len - 1), s[j] = s[k]
          PROVE  j = k
      <3> DEFINE from(h) == IF h < i THEN h ELSE h + 1
      <3>1. /\ from(j) \in 1..len /\ s[j] = m.stack[from(j)]
            /\ from(k) \in 1..len /\ s[k] = m.stack[from(k)]
        BY <1>1, <1>2, <1>3
      <3>2. from(j) = from(k)
        BY <1>7, <2>2, <3>1
      <3> QED
        BY <1>1, <1>2, <3>2
    <2> QED
      BY <1>5, <1>6, <2>1, <2>2 DEF IdsAreUnique
  <1>10. FrontFocused(f)
    <2>1. CASE m.focused = w
      BY <1>5, <2>1 DEF FrontFocused, FocusAfterClose
    <2>2. CASE m.focused # w
      <3>1. m.focused = m.stack[len] /\ i # len
        BY <1>1, <1>2, <2>2 DEF Sound, FrontFocused, Top
      <3>2. Len(s) = len - 1 /\ len - 1 > 0 /\ s # <<>>
        BY <1>1, <1>2, <1>3, <3>1
      <3>3. s[len - 1] = m.stack[(len - 1) + 1]
        BY <1>1, <1>2, <1>3, <3>1, <3>2
      <3>4. (len - 1) + 1 = len
        BY <1>1
      <3> QED
        BY <1>5, <2>2, <3>1, <3>2, <3>3, <3>4 DEF FrontFocused, Top
    <2> QED
      BY <2>1, <2>2
  <1>11. FullscreenFront(f)
    <2> SUFFICES ASSUME NEW j \in 1..(len - 1), m.mode[s[j]] = "Fullscreen"
                 PROVE  j = len - 1
      BY <1>3, <1>5, <1>6 DEF FullscreenFront
    <2>1. \A k \in 1..len : m.mode[m.stack[k]] = "Fullscreen" => k = len
      BY <1>1 DEF Sound, FullscreenFront
    <2>2. s[j] = m.stack[j] \/ s[j] = m.stack[j + 1]
      BY <1>3
    <2> QED
      BY <1>1, <2>1, <2>2
  <1>12. Windows(f) \subseteq Windows(m)
    BY <1>1, <1>5, <1>6, <1>13, SMTT(30) DEF Windows
  <1> QED
    BY <1>5, <1>8, <1>9, <1>10, <1>11, <1>12 DEF Sound, f

(* Going round the stack. *)
LEMMA Modulo ==
  ASSUME NEW n \in Nat, NEW r \in 0..(n - 1)
  PROVE  r % n = r /\ (r + n) % n = r
  OBVIOUS

(* A set of naturals has a least element. *)
LEMMA LeastNatural ==
  ASSUME NEW T \in SUBSET Nat, T # {}
  PROVE  \E x \in T : \A y \in T : x <= y
  <1> DEFINE R == OpToRel(<, Nat)
  <1>1. IsWellFoundedOn(R, Nat)
    BY NatLessThanWellFounded
  <1>2. \A x, y \in Nat : x < y => <<x, y>> \in R
    BY DEF OpToRel
  <1> HIDE DEF R
  <1>3. PICK x \in T : \A y \in T : ~(<<y, x>> \in R)
    BY <1>1, WFMin
  <1>4. \A y \in T : x \in Nat /\ y \in Nat /\ ~(y < x)
    BY <1>2, <1>3
  <1>5. \A y \in T : x <= y
    BY <1>4
  <1> QED
    BY <1>5

(* step() finds a window that is open. *)
LEMMA StepIsSound ==
  ASSUME NEW m, Sound(m), NEW back \in BOOLEAN
  PROVE  Sound(Step(m, back)) /\ Windows(Step(m, back)) = Windows(m)
  <1> DEFINE n     == Len(m.stack)
             start == IF m.focused \in Windows(m) THEN IndexOf(m.stack, m.focused) ELSE n
             At(k) == m.stack[IF back THEN ((start + n - k - 1) % n) + 1
                              ELSE ((start + k - 1) % n) + 1]
  <1>1. /\ m \in Manager /\ m.stack \in Seq(Id) /\ n \in Nat
        /\ DOMAIN m.stack = 1..n
    BY DEF Sound, Manager
  <1>2. CASE ~\E w \in Windows(m) : Visible(m, w)
    BY <1>2 DEF Step
  <1>3. CASE \E w \in Windows(m) : Visible(m, w)
    <2>1. n > 0
      BY <1>1, <1>3 DEF Windows
    <2>2. start \in 1..n
      BY <1>1, <2>1, IndexIsPlace
    <2> HIDE DEF start
    <2>3. \A k \in Int : At(k) \in Windows(m)
      BY <1>1, <2>1, <2>2 DEF Windows
    <2>4. \E k \in 1..n : Visible(m, At(k))
      <3>1. PICK i \in 1..n : Visible(m, m.stack[i])
        BY <1>1, <1>3 DEF Windows
      <3>0. (i - 1) % n = i - 1 /\ ((i - 1) + n) % n = i - 1 /\ (i - 1) + 1 = i
        <4>1. i - 1 \in 0..(n - 1) /\ (i - 1) + 1 = i
          BY <1>1, <3>1
        <4> QED
          BY <1>1, <4>1, Modulo
      <3>2. CASE back
        <4>1. CASE i < start
          <5>1. start - i \in 1..n /\ start + n - (start - i) - 1 = (i - 1) + n
            BY <1>1, <2>1, <2>2, <3>1, <4>1
          <5> QED
            BY <1>1, <3>0, <3>1, <3>2, <5>1
        <4>2. CASE i >= start
          <5>1. start + n - i \in 1..n /\ start + n - (start + n - i) - 1 = i - 1
            BY <1>1, <2>1, <2>2, <3>1, <4>2, SMTT(30)
          <5> QED
            BY <1>1, <3>0, <3>1, <3>2, <5>1
        <4> QED
          BY <1>1, <2>2, <4>1, <4>2
      <3>3. CASE ~back
        <4>1. CASE i > start
          <5>1. i - start \in 1..n /\ start + (i - start) - 1 = i - 1
            BY <1>1, <2>1, <2>2, <3>1, <4>1
          <5> QED
            BY <1>1, <3>0, <3>1, <3>3, <5>1
        <4>2. CASE i <= start
          <5>1. i - start + n \in 1..n /\ start + (i - start + n) - 1 = (i - 1) + n
            BY <1>1, <2>1, <2>2, <3>1, <4>2
          <5> QED
            BY <1>1, <3>0, <3>1, <3>3, <5>1
        <4> QED
          BY <1>1, <2>2, <4>1, <4>2
      <3> QED
        BY <3>2, <3>3
    <2> HIDE DEF At
    <2> DEFINE good == {k \in 1..n : Visible(m, At(k))}
    <2>5. \E k \in good : \A j \in good : k <= j
      <3>1. good \in SUBSET Nat /\ good # {}
        BY <1>1, <2>4
      <3> QED
        BY <3>1, LeastNatural
    <2>6. \E k \in 1..n : Visible(m, At(k)) /\ \A j \in 1..(k - 1) : ~Visible(m, At(j))
      BY <1>1, <2>5
    <2> DEFINE first == CHOOSE k \in 1..n : /\ Visible(m, At(k))
                                             /\ \A j \in 1..(k - 1) : ~Visible(m, At(j))
    <2>7. first \in 1..n
      BY <2>6
    <2>8. StepTarget(m, back) = At(first)
      BY DEF StepTarget, At, start
    <2>9. StepTarget(m, back) \in Windows(m)
      BY <1>1, <2>3, <2>7, <2>8
    <2>10. Step(m, back) = Focus(m, StepTarget(m, back))
      BY <1>3 DEF Step
    <2> QED
      BY <1>1, <2>9, <2>10, FocusIsSound DEF Sound
  <1> QED
    BY <1>2, <1>3


-----------------------------------------------------------------------------
(* The inductive invariant.  A window that the assistant offers is not in   *)
(* full screen either: leaving it could bring back the Minimized mode the   *)
(* window had before.                                                       *)
OffersPlain ==
  \A w \in assist \cap Windows(wm) : wm.mode[w] \notin {"Minimized", "Fullscreen"}

IInv == DesktopTypeOK /\ Sound(wm) /\ DragIsLive /\ OffersPlain

(* The ids of the windows are ids. *)
LEMMA WindowsAreIds ==
  ASSUME NEW m \in Manager
  PROVE  Windows(m) \subseteq Id
  BY DEF Windows, Manager

(* Id is a set of naturals that does not contain 0. *)
LEMMA IdIsNat == Id \subseteq Nat
  BY WindowAssumption DEF Id

(* The initial state. *)
LEMMA InitIsSound == Init => IInv
  <1> SUFFICES ASSUME Init PROVE IInv
    OBVIOUS
  <1>1. EmptyManager \in Manager
    BY WindowAssumption DEF EmptyManager, Manager, Modes
  <1>2. wm = EmptyManager /\ wm.stack = <<>> /\ wm.focused = 0
    BY DEF Init, EmptyManager
  <1>3. Sound(wm)
    BY <1>1, <1>2 DEF Sound, IdsAreUnique, FrontFocused, FullscreenFront
  <1>4. DesktopTypeOK
    <2>1. appId \in [Id -> App \cup {""}] /\ asked \subseteq Id /\ assist \subseteq Id
      BY DEF Init
    <2>a. pending = 0
      BY DEF Init
    <2>2. pending \in 0..MaxPending
      BY <2>a, DesktopAssumption
    <2>3. seeded \in BOOLEAN
      BY DEF Init
    <2>4. drag \in [kind : {"Idle", "Moving", "Resizing"}, win : Nat]
      BY DEF Init, Idle
    <2>5. modal \in [open : BOOLEAN, target : Nat]
      BY DEF Init, NoModal
    <2> QED
      BY <1>1, <1>2, <2>1, <2>2, <2>3, <2>4, <2>5 DEF DesktopTypeOK
  <1>5. DragIsLive /\ OffersPlain
    BY DEF Init, DragIsLive, OffersPlain
  <1> QED
    BY <1>3, <1>4, <1>5 DEF IInv

(* A step that changes neither the windows nor what is offered and leaves   *)
(* no gesture, or the same one.                                             *)
LEMMA QuietStep ==
  ASSUME IInv, wm' = wm, DesktopTypeOK', drag' = drag \/ drag' = Idle,
         assist' = assist \/ assist' = {}
  PROVE  IInv'
  <1>1. DragIsLive'
    BY DEF IInv, DragIsLive, Windows, Idle
  <1>2. OffersPlain'
    BY DEF IInv, OffersPlain, Windows
  <1>3. Sound(wm)'
    BY DEF IInv, Sound, FrontFocused, FullscreenFront, IdsAreUnique
  <1> QED
    BY <1>1, <1>2, <1>3 DEF IInv

(* A step that changes the windows when no gesture is in progress, and      *)
(* closes the assistant.                                                    *)
LEMMA DeskStep ==
  ASSUME IInv, Sound(wm'), DesktopTypeOK', drag' = Idle, assist' = {}
  PROVE  IInv'
  <1>1. DragIsLive' /\ OffersPlain'
    BY DEF DragIsLive, OffersPlain, Idle
  <1> QED
    BY <1>1 DEF IInv


-----------------------------------------------------------------------------
(* The steps that give the manager a new state and leave the rest alone,    *)
(* with no gesture.                                                         *)
LEMMA KeyIsSound ==
  ASSUME IInv,
         \/ NextWindow \/ PrevWindow \/ Minimize \/ MaximizeToggle
         \/ FullscreenToggle \/ MenuTiles \/ OtherInput
  PROVE  IInv'
  <1> USE DEF KeepsRest, appVars
  <1>1. Sound(wm) /\ DesktopTypeOK
    BY DEF IInv
  <1>2. drag = Idle /\ assist' = {} /\ UNCHANGED <<appId, asked, pending, seeded, drag, modal>>
    BY DEF NextWindow, PrevWindow, Minimize, MaximizeToggle, FullscreenToggle, MenuTiles,
           OtherInput, Key
  <1>3. Sound(wm')
    <2>1. CASE NextWindow \/ PrevWindow
      BY <1>1, <2>1, StepIsSound DEF NextWindow, PrevWindow
    <2>2. CASE Minimize
      BY <1>1, <2>2, SetModeIsSound DEF Minimize, HasFront, Front, Modes
    <2>3. CASE MaximizeToggle \/ FullscreenToggle
      BY <1>1, <2>3, SetModeIsSound
         DEF MaximizeToggle, FullscreenToggle, Toggled, HasFront, Front, Modes
    <2>4. CASE MenuTiles
      BY <1>1, <2>4, AllNormalIsSound DEF MenuTiles
    <2>5. CASE OtherInput
      BY <1>1, <2>5 DEF OtherInput
    <2> QED
      BY <2>1, <2>2, <2>3, <2>4, <2>5
  <1>4. DesktopTypeOK'
    BY <1>1, <1>2, <1>3 DEF DesktopTypeOK, Sound
  <1> QED
    BY <1>2, <1>3, <1>4, DeskStep


(* The types of the gesture and of the dialog. *)
LEMMA GestureTypes ==
  /\ Idle \in [kind : {"Idle", "Moving", "Resizing"}, win : Nat]
  /\ \A w \in Id : /\ Moving(w) \in [kind : {"Idle", "Moving", "Resizing"}, win : Nat]
                   /\ Resizing(w) \in [kind : {"Idle", "Moving", "Resizing"}, win : Nat]
  BY IdIsNat DEF Idle, Moving, Resizing

(* A dialog that asks about a window is a dialog. *)
LEMMA ModalTypes ==
  /\ NoModal \in [open : BOOLEAN, target : Nat]
  /\ \A w \in Nat : About(w) \in [open : BOOLEAN, target : Nat]
  BY DEF NoModal, About

(* What request_close() leaves of the windows. *)
LEMMA AfterRequestIsSound ==
  ASSUME NEW m, Sound(m), NEW w \in Windows(m)
  PROVE  /\ Sound(AfterRequest(m, w)) /\ Windows(AfterRequest(m, w)) \subseteq Windows(m)
         /\ AfterRequest(m, w).mode = m.mode
  BY CloseIsSound DEF AfterRequest

(* request_close() closes the window or asks, and ends the gesture. *)
LEMMA RequestCloseIsSound ==
  ASSUME DesktopTypeOK, NEW m, Sound(m), NEW w \in Windows(m), RequestClose(m, w)
  PROVE  /\ Sound(wm') /\ Windows(wm') \subseteq Windows(m) /\ wm'.mode = m.mode
         /\ drag' = Idle /\ modal' \in [open : BOOLEAN, target : Nat]
  <1>1. w \in Nat
    BY WindowsAreIds, IdIsNat DEF Sound
  <1>2. modal \in [open : BOOLEAN, target : Nat] /\ About(w) \in [open : BOOLEAN, target : Nat]
    BY <1>1, ModalTypes DEF DesktopTypeOK
  <1>3. modal' \in {modal, About(w)}
    BY DEF RequestClose, DialogAfter, Ask
  <1> QED
    BY <1>2, <1>3, AfterRequestIsSound DEF RequestClose, DragAfterRequest

(* The window under the pointer gets the focus. *)
LEMMA FocusedIsSound ==
  ASSUME IInv, NEW w \in Windows(wm)
  PROVE  Sound(Focused(w)) /\ Windows(Focused(w)) = Windows(wm) /\ Focused(w).focused = w
  <1>1. Sound(wm) /\ wm \in Manager /\ IdsAreUnique(wm)
    BY DEF IInv, Sound
  <1> QED
    BY <1>1, FocusIsSound, FocusFields DEF Focused

(* Closing with the keyboard or the mouse. *)
LEMMA CloseKeyIsSound ==
  ASSUME IInv, KeyClose \/ \E w \in Id : PressClose(w)
  PROVE  IInv'
  <1>1. Sound(wm) /\ DesktopTypeOK /\ wm \in Manager
    BY DEF IInv, Sound
  <1>2. PICK w \in Id, m \in Manager :
          Sound(m) /\ w \in Windows(m) /\ RequestClose(m, w) /\ Forget /\ assist' = {}
    <2>1. CASE KeyClose
      <3>1. wm.focused \in Windows(wm) /\ wm.focused \in Id
        BY <1>1, <2>1, WindowsAreIds DEF KeyClose, HasFront, Front
      <3>2. RequestClose(wm, wm.focused) /\ Forget /\ assist' = {}
        BY <2>1 DEF KeyClose, Front
      <3> QED
        BY <1>1, <3>1, <3>2
    <2>2. CASE \E w \in Id : PressClose(w)
      <3>1. PICK w \in Id : PressClose(w)
        BY <2>2
      <3>2. w \in Windows(wm)
        BY <3>1 DEF PressClose, Hittable
      <3>3. Sound(Focused(w)) /\ Focused(w) \in Manager /\ w \in Windows(Focused(w))
        BY <3>2, FocusedIsSound DEF Sound
      <3>4. RequestClose(Focused(w), w) /\ Forget /\ assist' = {}
        BY <3>1 DEF PressClose, AssistAfterPress
      <3> QED
        BY <3>3, <3>4
    <2> QED
      BY <2>1, <2>2
  <1>3. Sound(wm') /\ drag' = Idle /\ modal' \in [open : BOOLEAN, target : Nat]
    BY <1>1, <1>2, RequestCloseIsSound
  <1>4. DesktopTypeOK'
    BY <1>1, <1>2, <1>3, GestureTypes DEF DesktopTypeOK, Sound, Forget
  <1> QED
    BY <1>2, <1>3, <1>4, DeskStep

(* The types of a step that opens a window. *)
LEMMA OpensIsSound ==
  ASSUME IInv, NEW a \in App \cup {""}, OpenFromCatalog(a), drag = Idle, assist' = {}
  PROVE  IInv'
  <1>1. Sound(wm) /\ DesktopTypeOK
    BY DEF IInv
  <1>2. Sound(wm')
    BY <1>1, OpenIsSound DEF OpenFromCatalog
  <1>3. drag' = Idle
    BY DEF OpenFromCatalog
  <1>4. DesktopTypeOK'
    BY <1>1, <1>2 DEF DesktopTypeOK, Sound, OpenFromCatalog
  <1> QED
    BY <1>2, <1>3, <1>4, DeskStep


(* The rest of the mouse, when no gesture is started. *)
LEMMA PressIsSound ==
  ASSUME IInv,
         \/ PressAssist
         \/ \E w \in Id : PressTask(w) \/ PressInside(w)
  PROVE  IInv'
  <1> USE DEF KeepsRest, appVars
  <1>1. Sound(wm) /\ DesktopTypeOK /\ wm \in Manager /\ IdsAreUnique(wm)
    BY DEF IInv, Sound
  <1>2. drag = Idle /\ assist' = {} /\ UNCHANGED <<appId, asked, pending, seeded, drag, modal>>
    BY DEF PressAssist, PressTask, PressInside, Press, AssistAfterPress
  <1>3. ASSUME NEW w \in Windows(wm), NEW x \in {"Normal", "Minimized", "Maximized"}
        PROVE  /\ Sound(SetMode(wm, w, x)) /\ Sound(Focus(wm, w))
               /\ Sound(Focus(SetMode(wm, w, x), w))
               /\ Sound(Focused(w)) /\ Sound(SetMode(Focused(w), w, x))
    <2>1. x \in Modes /\ x # "Fullscreen"
      BY DEF Modes
    <2>2. Sound(SetMode(wm, w, x)) /\ Windows(SetMode(wm, w, x)) = Windows(wm)
      BY <1>1, <2>1, SetModeIsSound
    <2>3. Sound(Focus(SetMode(wm, w, x), w)) /\ Sound(Focus(wm, w))
      BY <1>1, <2>2, FocusIsSound DEF Sound
    <2>4. Sound(Focused(w)) /\ w \in Windows(Focused(w))
      BY FocusedIsSound
    <2>5. Sound(SetMode(Focused(w), w, x))
      BY <2>1, <2>4, SetModeIsSound
    <2> QED
      BY <2>2, <2>3, <2>4, <2>5
  <1>4. Sound(wm')
    <2>1. CASE PressAssist
      BY <1>1, <1>3, <2>1 DEF PressAssist
    <2>2. ASSUME NEW w \in Id, PressTask(w) PROVE Sound(wm')
      BY <1>1, <1>3, <2>2 DEF PressTask
    <2>3. ASSUME NEW w \in Id, PressInside(w) PROVE Sound(wm')
      BY <1>1, <1>3, <2>3 DEF PressInside, Hittable
    <2> QED
      BY <2>1, <2>2, <2>3
  <1>5. DesktopTypeOK'
    BY <1>1, <1>2, <1>4 DEF DesktopTypeOK, Sound
  <1> QED
    BY <1>2, <1>4, <1>5, DeskStep

(* A gesture starts on the window that has just been put in front. *)
LEMMA GrabIsSound ==
  ASSUME IInv, NEW w \in Id, PressTitle(w) \/ PressEdge(w)
  PROVE  IInv'
  <1>1. w \in Windows(wm) /\ DesktopTypeOK
    BY DEF PressTitle, PressEdge, Hittable, IInv
  <1>2. Sound(Focused(w)) /\ Windows(Focused(w)) = Windows(wm)
    BY <1>1, FocusedIsSound
  <1>3. /\ wm' = Focused(w) /\ assist' = {}
        /\ drag' \in {Idle, Moving(w), Resizing(w)}
        /\ drag' = Moving(w) => Focused(w).mode[w] = "Normal"
        /\ UNCHANGED <<appId, asked, pending, seeded, modal>>
    BY DEF PressTitle, PressEdge, AssistAfterPress, TitlePress, appVars, Idle, Moving, Resizing
  <1>4. DesktopTypeOK'
    BY <1>1, <1>2, <1>3, GestureTypes DEF DesktopTypeOK, Sound
  <1>5. DragIsLive'
    BY <1>1, <1>2, <1>3 DEF DragIsLive, Idle, Moving, Resizing, Windows
  <1>6. OffersPlain'
    BY <1>3 DEF OffersPlain
  <1> QED
    BY <1>2, <1>3, <1>4, <1>5, <1>6 DEF IInv

(* A key snaps the focused window and offers the others. *)
LEMMA SnapIsSound ==
  ASSUME IInv, SnapFocused
  PROVE  IInv'
  <1> DEFINE f == wm.focused
  <1>1. Sound(wm) /\ DesktopTypeOK /\ wm \in Manager /\ f \in Windows(wm) /\ Windows(wm) \subseteq Id
    BY WindowsAreIds DEF IInv, Sound, SnapFocused, HasFront, Front
  <1>2. /\ wm' = SetMode(wm, f, "Normal") /\ drag' = Idle
        /\ assist' \subseteq {w \in Windows(wm) \ {f} : Visible(wm, w)}
        /\ UNCHANGED <<appId, asked, pending, seeded, drag, modal>>
    BY DEF SnapFocused, Front, Key, KeepsRest, appVars
  <1>3. /\ Sound(wm')
        /\ \A v \in Id \ {f} : wm.mode[v] # "Fullscreen" => wm'.mode[v] = wm.mode[v]
    BY <1>1, <1>2, SetModeIsSound DEF Modes
  <1>4. DesktopTypeOK'
    BY <1>1, <1>2, <1>3 DEF DesktopTypeOK, Sound
  <1>5. DragIsLive'
    BY <1>2 DEF DragIsLive
  <1>6. \A v \in Windows(wm) \ {f} : wm.mode[v] # "Fullscreen"
    <2>1. wm.stack \in Seq(Id) /\ f = wm.stack[Len(wm.stack)]
      BY <1>1 DEF Sound, Manager, FrontFocused, Top, Windows
    <2> QED
      BY <1>1, <2>1 DEF Sound, FullscreenFront, Windows
  <1>7. OffersPlain'
    BY <1>1, <1>2, <1>3, <1>6 DEF OffersPlain, Visible
  <1> QED
    BY <1>3, <1>4, <1>5, <1>7 DEF IInv


(* The menu, the pinned applications and the panel open windows. *)
LEMMA PanelIsSound ==
  ASSUME IInv,
         \/ MenuOpens
         \/ \E a \in App : PressPinned(a)
         \/ \E w \in Id : PressTaskRight(w)
  PROVE  IInv'
  <1>1. Sound(wm) /\ DesktopTypeOK /\ wm \in Manager
    BY DEF IInv, Sound
  <1>2. CASE MenuOpens
    BY <1>2, OpensIsSound DEF MenuOpens, Key
  <1>3. ASSUME NEW w \in Id, PressTaskRight(w) PROVE IInv'
    <2>1. appId[w] \in App \cup {""}
      BY <1>1 DEF DesktopTypeOK
    <2> QED
      BY <1>3, <2>1, OpensIsSound DEF PressTaskRight, Press, AssistAfterPress
  <1>4. ASSUME NEW a \in App, PressPinned(a) PROVE IInv'
    <2> DEFINE its == {i \in DOMAIN wm.stack : appId[wm.stack[i]] = a}
               w == wm.stack[CHOOSE i \in its : \A j \in its : i <= j]
    <2>1. drag = Idle /\ assist' = {}
      BY <1>4 DEF PressPinned, Press, AssistAfterPress
    <2>2. CASE OpenFromCatalog(a)
      BY <2>1, <2>2, OpensIsSound
    <2>3. CASE /\ its # {} /\ KeepsRest
               /\ wm' = Focus(IF Visible(wm, w) THEN wm ELSE SetMode(wm, w, "Normal"), w)
      <3>1. DOMAIN wm.stack \subseteq Nat
        BY <1>1 DEF Manager
      <3>2. \E i \in its : \A j \in its : i <= j
        BY <2>3, <3>1, LeastNatural
      <3>3. w \in Windows(wm)
        BY <3>2 DEF Windows
      <3> HIDE DEF w, its
      <3>4. Sound(SetMode(wm, w, "Normal")) /\ Windows(SetMode(wm, w, "Normal")) = Windows(wm)
        BY <1>1, <3>3, SetModeIsSound DEF Modes
      <3>5. Sound(wm')
        BY <1>1, <2>3, <3>3, <3>4, FocusIsSound DEF Sound
      <3>6. DesktopTypeOK'
        BY <1>1, <2>1, <2>3, <3>5 DEF DesktopTypeOK, Sound, KeepsRest, appVars
      <3>7. drag' = Idle
        BY <2>1, <2>3 DEF KeepsRest
      <3> QED
        BY <2>1, <3>5, <3>6, <3>7, DeskStep
    <2> QED
      BY <1>4, <2>2, <2>3 DEF PressPinned
  <1> QED
    BY <1>2, <1>3, <1>4

(* The steps that leave the windows alone. *)
LEMMA QuietIsSound ==
  ASSUME IInv,
         \/ InputCancelsDrag \/ GestureEnds \/ UpdateAsks \/ Dismiss \/ AppOpensAnother
         \/ \E w \in Id : AppAsksToClose(w)
  PROVE  IInv'
  <1>1. DesktopTypeOK
    BY DEF IInv
  <1>2. wm' = wm /\ assist' = assist /\ (drag' = drag \/ drag' = Idle) /\ appId' = appId
        /\ seeded' = seeded /\ wm \in Manager
    BY <1>1 DEF InputCancelsDrag, GestureEnds, UpdateAsks, Dismiss, AppOpensAnother,
                AppAsksToClose, appVars, DesktopTypeOK
  <1>3. drag' \in [kind : {"Idle", "Moving", "Resizing"}, win : Nat]
    BY <1>1, <1>2, GestureTypes DEF DesktopTypeOK
  <1>4. modal' \in [open : BOOLEAN, target : Nat]
    <2>1. modal' \in {modal, NoModal, About(0)}
      BY DEF InputCancelsDrag, GestureEnds, UpdateAsks, Dismiss, AppOpensAnother,
             AppAsksToClose
    <2> QED
      BY <1>1, <2>1, ModalTypes DEF DesktopTypeOK
  <1>5. asked' \subseteq Id
    BY <1>1 DEF InputCancelsDrag, GestureEnds, UpdateAsks, Dismiss, AppOpensAnother,
                AppAsksToClose, appVars, DesktopTypeOK
  <1>6. pending' \in 0..MaxPending
    <2>1. pending' = pending \/ (pending < MaxPending /\ pending' = pending + 1)
      BY DEF InputCancelsDrag, GestureEnds, UpdateAsks, Dismiss, AppOpensAnother,
             AppAsksToClose, appVars
    <2>2. pending \in 0..MaxPending
      BY <1>1 DEF DesktopTypeOK
    <2> QED
      BY <2>1, <2>2, DesktopAssumption
  <1>7. DesktopTypeOK'
    BY <1>1, <1>2, <1>3, <1>4, <1>5, <1>6 DEF DesktopTypeOK
  <1> QED
    BY <1>2, <1>7, QuietStep

(* The dialog closes a window: there is no gesture, the assistant stays. *)
LEMMA ConfirmIsSound ==
  ASSUME IInv, Confirm
  PROVE  IInv'
  <1>1. Sound(wm) /\ DesktopTypeOK /\ DragIsLive /\ OffersPlain
    BY DEF IInv
  <1>2. /\ modal.target \in Windows(wm) /\ wm' = Close(wm, modal.target) /\ modal' = NoModal
        /\ drag = Idle /\ Forget /\ UNCHANGED <<drag, assist>>
    BY DEF Confirm
  <1>3. Sound(wm') /\ Windows(wm') \subseteq Windows(wm) /\ wm'.mode = wm.mode
    BY <1>1, <1>2, CloseIsSound
  <1>4. DesktopTypeOK'
    BY <1>1, <1>2, <1>3, ModalTypes DEF DesktopTypeOK, Sound, Forget
  <1>5. DragIsLive'
    BY <1>2 DEF DragIsLive
  <1>6. OffersPlain'
    BY <1>1, <1>2, <1>3 DEF OffersPlain, Windows
  <1> QED
    BY <1>3, <1>4, <1>5, <1>6 DEF IInv


(* A window opened between two frames leaves the modes of the others, but   *)
(* for full screen.                                                         *)
Gentle(m, f) ==
  /\ Sound(f)
  /\ Windows(m) \subseteq Windows(f)
  /\ \A v \in Windows(f) : v \in Windows(m) \/ f.mode[v] = "Normal"
  /\ \A v \in Windows(m) : m.mode[v] # "Fullscreen" => f.mode[v] = m.mode[v]

(* Opening a window is a gentle change, also when there is no room for it. *)
LEMMA OpenedIsGentle ==
  ASSUME NEW m, Sound(m)
  PROVE  Gentle(m, Opened(m)) /\ Gentle(m, m)
  <1>1. Gentle(m, m)
    BY DEF Gentle
  <1>2. CASE CanOpen(m)
    BY <1>1, <1>2, OpenIsSound DEF Gentle, Opened
  <1>3. CASE ~CanOpen(m)
    BY <1>1, <1>3 DEF Opened
  <1> QED
    BY <1>1, <1>2, <1>3

(* What a frame keeps for the gesture and for the assistant: a window may   *)
(* open, another may close and end the gesture, then one more may open.     *)
LEMMA GentleStep ==
  ASSUME IInv, NEW m, NEW n, Gentle(wm, m), Gentle(n, wm'),
         \/ n = m /\ drag' = drag
         \/ Sound(n) /\ Windows(n) \subseteq Windows(m) /\ n.mode = m.mode /\ drag' = Idle,
         assist' = assist
  PROVE  Sound(wm') /\ DragIsLive' /\ OffersPlain'
  <1>1. DragIsLive /\ OffersPlain
    BY DEF IInv
  <1>2. Sound(wm') /\ Windows(n) \subseteq Windows(m) /\ n.mode = m.mode
    BY DEF Gentle
  <1>3. DragIsLive'
    <2>1. CASE drag' = Idle
      BY <2>1 DEF DragIsLive
    <2>2. CASE n = m /\ drag' = drag
      BY <1>1, <2>2 DEF DragIsLive, Gentle
    <2> QED
      BY <2>1, <2>2
  <1>4. OffersPlain'
    BY <1>1, <1>2 DEF OffersPlain, Gentle
  <1> QED
    BY <1>2, <1>3, <1>4

(* A frame. *)
LEMMA RenderIsSound ==
  ASSUME IInv, Render
  PROVE  IInv'
  <1> DEFINE m == IF pending > 0 THEN Opened(wm) ELSE wm
             w == FirstAsker(m)
             n == IF Askers(m) # {} THEN AfterRequest(m, w) ELSE m
  <1>1. Sound(wm) /\ DesktopTypeOK
    BY DEF IInv
  <1>2. Gentle(wm, m) /\ Sound(m) /\ m \in Manager
    BY <1>1, OpenedIsGentle DEF Gentle, Sound
  <1>3. /\ wm' = (IF seeded THEN n ELSE Opened(n))
        /\ \E f \in [wm.next..(wm'.next - 1) -> App] :
             appId' = [v \in Id |-> IF v \in DOMAIN f THEN f[v] ELSE appId[v]]
        /\ \/ Askers(m) = {} /\ UNCHANGED <<drag, modal, asked>>
           \/ /\ Askers(m) # {} /\ drag' = Idle /\ modal' \in DialogAfter(w)
              /\ asked' = asked \ {w}
        /\ pending' = (IF pending > 0 THEN pending - 1 ELSE 0)
        /\ seeded' = TRUE /\ UNCHANGED assist
    BY DEF Render, DragAfterRequest
  <1>4. Askers(m) # {} => w \in Windows(m)
    <2> SUFFICES ASSUME Askers(m) # {} PROVE w \in Windows(m)
      OBVIOUS
    <2> HIDE DEF m
    <2>1. Askers(m) \subseteq Nat
      BY <1>2 DEF Askers, Manager
    <2>2. \E i \in Askers(m) : \A j \in Askers(m) : i <= j
      BY <2>1, LeastNatural
    <2>3. \E i \in DOMAIN m.stack : FirstAsker(m) = m.stack[i]
      BY <2>2 DEF FirstAsker, Askers
    <2> QED
      BY <2>3 DEF Windows
  <1> HIDE DEF m, w
  <1>5. /\ \/ n = m /\ drag' = drag /\ modal' = modal
           \/ /\ Sound(n) /\ Windows(n) \subseteq Windows(m) /\ n.mode = m.mode
              /\ drag' = Idle /\ modal' \in {modal, About(w)} /\ w \in Nat
        /\ Sound(n) /\ asked' \subseteq asked
    <2>1. CASE Askers(m) = {}
      BY <1>2, <1>3, <2>1
    <2>2. CASE Askers(m) # {}
      <3>1. w \in Nat
        BY <1>2, <1>4, <2>2, WindowsAreIds, IdIsNat
      <3> QED
        BY <1>2, <1>3, <1>4, <2>2, <3>1, AfterRequestIsSound DEF DialogAfter, Ask
    <2> QED
      BY <2>1, <2>2
  <1> HIDE DEF n
  <1>6. Sound(wm') /\ DragIsLive' /\ OffersPlain'
    <2>1. Gentle(n, wm')
      BY <1>3, <1>5, OpenedIsGentle
    <2> QED
      BY <1>2, <1>3, <1>5, <2>1, GentleStep
  <1>7. appId' \in [Id -> App \cup {""}]
    BY <1>1, <1>3 DEF DesktopTypeOK
  <1>8. pending' \in 0..MaxPending
    <2>1. pending \in 0..MaxPending
      BY <1>1 DEF DesktopTypeOK
    <2>2. pending' = IF pending > 0 THEN pending - 1 ELSE 0
      BY <1>3
    <2> QED
      BY <2>1, <2>2, DesktopAssumption
  <1>9. /\ drag' \in [kind : {"Idle", "Moving", "Resizing"}, win : Nat]
        /\ modal' \in [open : BOOLEAN, target : Nat]
    BY <1>1, <1>5, GestureTypes, ModalTypes, ZenonT(30) DEF DesktopTypeOK
  <1>10. seeded' \in BOOLEAN
    BY <1>3
  <1>11. DesktopTypeOK'
    BY <1>1, <1>3, <1>5, <1>6, <1>7, <1>8, <1>9, <1>10 DEF DesktopTypeOK, Sound
  <1> QED
    BY <1>6, <1>11 DEF IInv

-----------------------------------------------------------------------------
(* Every step of the desktop keeps the invariant. *)
THEOREM DesktopInvariant == Spec => []IInv
  <1>1. IInv /\ [Next]_vars => IInv'
    <2> SUFFICES ASSUME IInv, [Next]_vars PROVE IInv'
      OBVIOUS
    <2>1. CASE \/ NextWindow \/ PrevWindow \/ Minimize \/ MaximizeToggle
               \/ FullscreenToggle \/ MenuTiles \/ OtherInput
      BY <2>1, KeyIsSound
    <2>2. CASE KeyClose \/ \E w \in Id : PressClose(w)
      BY <2>2, CloseKeyIsSound
    <2>3. CASE SnapFocused
      BY <2>3, SnapIsSound
    <2>4. CASE \/ MenuOpens \/ (\E a \in App : PressPinned(a))
               \/ \E w \in Id : PressTaskRight(w)
      BY <2>4, PanelIsSound
    <2>5. CASE PressAssist \/ \E w \in Id : PressTask(w) \/ PressInside(w)
      BY <2>5, PressIsSound
    <2>6. CASE \E w \in Id : PressTitle(w) \/ PressEdge(w)
      BY <2>6, GrabIsSound
    <2>7. CASE \/ InputCancelsDrag \/ GestureEnds \/ UpdateAsks \/ Dismiss \/ AppOpensAnother
               \/ \E w \in Id : AppAsksToClose(w)
      BY <2>7, QuietIsSound
    <2>8. CASE Confirm
      BY <2>8, ConfirmIsSound
    <2>9. CASE Render
      BY <2>9, RenderIsSound
    <2>10. CASE UNCHANGED vars
      <3>1. DesktopTypeOK'
        BY <2>10 DEF IInv, DesktopTypeOK, vars, appVars
      <3> QED
        BY <2>10, <3>1, QuietStep DEF vars
    <2> QED
      BY <2>1, <2>2, <2>3, <2>4, <2>5, <2>6, <2>7, <2>8, <2>9, <2>10 DEF Next
  <1> QED
    BY <1>1, InitIsSound, PTL DEF Spec

(* Every variable keeps its type, whatever the limits. *)
THEOREM TypesAreKept == Spec => []DesktopTypeOK
  <1>1. IInv => DesktopTypeOK
    BY DEF IInv
  <1> QED
    BY <1>1, DesktopInvariant, PTL

(* The keys always go to the window in front. *)
THEOREM FrontHasTheKeys == Spec => []FrontIsFocused
  <1>1. IInv => FrontIsFocused
    BY DEF IInv, Sound, FrontIsFocused
  <1> QED
    BY <1>1, DesktopInvariant, PTL

(* At most one window is in full screen, and it is in front. *)
THEOREM FullscreenHasTheKeys == Spec => []FullscreenIsFront
  <1>1. IInv => FullscreenIsFront
    BY DEF IInv, Sound, FullscreenIsFront
  <1> QED
    BY <1>1, DesktopInvariant, PTL

(* A gesture never outlives its window, nor the mode it started in. *)
THEOREM GestureHasAWindow == Spec => []DragIsLive
  <1>1. IInv => DragIsLive
    BY DEF IInv
  <1> QED
    BY <1>1, DesktopInvariant, PTL

(* The snap assistant offers windows that can be seen. *)
THEOREM AssistantIsCurrent == Spec => []AssistOffersVisible
  <1>1. IInv => AssistOffersVisible
    BY DEF IInv, OffersPlain, AssistOffersVisible, Visible
  <1> QED
    BY <1>1, DesktopInvariant, PTL

-----------------------------------------------------------------------------
(* Repeating NextWindow. *)

(* step() forward from the window in front starts again behind all others:  *)
(* it finds the lowest window that can be seen.                             *)
LEMMA NextIsLowest ==
  ASSUME NEW m, Sound(m), NEW i \in 1..Len(m.stack), Visible(m, m.stack[i])
  PROVE  \E t \in 1..i : Step(m, FALSE) = Focus(m, m.stack[t])
  <1>0. PICK n \in Nat : n = Len(m.stack)
    BY DEF Sound, Manager
  <1> DEFINE start == IF m.focused \in Windows(m) THEN IndexOf(m.stack, m.focused) ELSE n
             At(k) == m.stack[((start + k - 1) % n) + 1]
             first == CHOOSE k \in 1..n : /\ Visible(m, At(k))
                                          /\ \A j \in 1..(k - 1) : ~Visible(m, At(j))
             seen == {k \in 1..n : Visible(m, m.stack[k])}
  <1>1. /\ m \in Manager /\ DOMAIN m.stack = 1..n /\ n > 0 /\ m.stack # <<>>
        /\ \A j, k \in 1..n : m.stack[j] = m.stack[k] => j = k
    BY <1>0 DEF Sound, Manager, IdsAreUnique
  <1>2. m.focused = m.stack[n] /\ m.focused \in Windows(m)
    BY <1>0, <1>1 DEF Sound, FrontFocused, Top, Windows
  <1>3. start = n
    BY <1>0, <1>1, <1>2, IndexIsPlace
  <1>4. \A k \in 1..n : At(k) = m.stack[k]
    <2> SUFFICES ASSUME NEW k \in 1..n PROVE At(k) = m.stack[k]
      OBVIOUS
    <2>1. k - 1 \in 0..(n - 1) /\ (k - 1) + 1 = k /\ n + k - 1 = (k - 1) + n
      OBVIOUS
    <2>2. ((k - 1) + n) % n = k - 1
      BY <2>1, Modulo
    <2> QED
      BY <1>3, <2>1, <2>2
  <1>5. PICK t \in seen : \A j \in seen : t <= j
    <2>1. seen \in SUBSET Nat /\ i \in seen
      BY <1>0
    <2> QED
      BY <2>1, LeastNatural
  <1>6. /\ t \in 1..i /\ i \in 1..n /\ Visible(m, m.stack[t])
        /\ \A j \in 1..(t - 1) : ~Visible(m, m.stack[j])
    BY <1>0, <1>5
  <1>7. StepTarget(m, FALSE) = At(first)
    BY <1>0 DEF StepTarget
  <1> HIDE DEF At, start, seen
  <1>8. /\ first \in 1..n /\ Visible(m, m.stack[first])
        /\ \A j \in 1..(first - 1) : ~Visible(m, m.stack[j])
    <2>1. t \in 1..n /\ Visible(m, At(t)) /\ \A j \in 1..(t - 1) : ~Visible(m, At(j))
      BY <1>4, <1>6
    <2>2. first \in 1..n /\ Visible(m, At(first)) /\ \A j \in 1..(first - 1) : ~Visible(m, At(j))
      BY <2>1
    <2> HIDE DEF first
    <2> QED
      BY <1>4, <2>2
  <1> HIDE DEF first
  <1>9. first = t
    BY <1>6, <1>8
  <1>10. \E w \in Windows(m) : Visible(m, w)
    BY <1>1, <1>6 DEF Windows
  <1>11. Step(m, FALSE) = Focus(m, StepTarget(m, FALSE))
    BY <1>10 DEF Step
  <1>12. At(first) = m.stack[t] /\ t \in 1..i
    BY <1>4, <1>6, <1>9
  <1> QED
    BY <1>7, <1>11, <1>12

(* A window that can be seen and is not in front: one press brings it to    *)
(* the front, or one place nearer to its turn.                              *)
Awaits(m, w, i) ==
  i \in 1..(Len(m.stack) - 1) /\ m.stack[i] = w /\ Visible(m, w)

LEMMA NextComesNearer ==
  ASSUME NEW m, Sound(m), NEW w, NEW i, Awaits(m, w, i)
  PROVE  /\ Sound(Step(m, FALSE)) /\ Len(Step(m, FALSE).stack) = Len(m.stack)
         /\ Step(m, FALSE).focused = w \/ (i > 1 /\ Awaits(Step(m, FALSE), w, i - 1))
  <1> DEFINE f == Step(m, FALSE)
  <1>0. PICK n \in Nat : n = Len(m.stack)
    BY DEF Sound, Manager
  <1>1. /\ m \in Manager /\ m.stack \in Seq(Id) /\ DOMAIN m.stack = 1..n
        /\ i \in 1..(n - 1) /\ m.stack[i] = w /\ Visible(m, w) /\ w \in Id
        /\ \A j, k \in 1..n : m.stack[j] = m.stack[k] => j = k
    BY <1>0 DEF Sound, Manager, IdsAreUnique, Awaits
  <1>2. PICK t \in 1..i : f = Focus(m, m.stack[t])
    <2>1. i \in 1..Len(m.stack) /\ Visible(m, m.stack[i])
      BY <1>0, <1>1
    <2> QED
      BY <2>1, NextIsLowest
  <1> DEFINE v == m.stack[t]
             s == Without(m.stack, t)
  <1>3. v \in Windows(m) /\ v \in Id /\ t \in 1..n
    BY <1>1 DEF Windows
  <1>4. IndexOf(m.stack, v) = t
    BY <1>0, <1>1, <1>3, IndexIsPlace
  <1>5. Sound(f)
    BY <1>1, <1>2, <1>3, FocusIsSound DEF Sound
  <1>6. /\ f.focused = v /\ f.mode = Restored(m, v) /\ f.stack = Append(s, v)
    <2>1. Raise(m.stack, v) = Append(s, v)
      BY <1>4 DEF Raise
    <2> HIDE DEF v, f
    <2>2. f = Focus(m, v)
      BY <1>2 DEF v
    <2> QED
      BY <1>1, <1>3, <2>1, <2>2, FocusFields
  <1>7. /\ s \in Seq(Id) /\ Len(s) = n - 1
        /\ \A j \in 1..(n - 1) : s[j] = IF j < t THEN m.stack[j] ELSE m.stack[j + 1]
    <2>1. m.stack \in Seq(Id) /\ t \in 1..Len(m.stack)
      BY <1>0, <1>1, <1>3
    <2> QED
      BY <1>0, <2>1, WithoutIsSeq, ZenonT(40)
  <1> HIDE DEF f, s
  <1>8. Len(f.stack) = n /\ \A j \in 1..(n - 1) : f.stack[j] = s[j]
    BY <1>1, <1>3, <1>6, <1>7
  <1>9. CASE v = w
    BY <1>0, <1>5, <1>6, <1>8, <1>9 DEF f
  <1>10. CASE v # w
    <2>1. t < i
      BY <1>1, <1>2, <1>10
    <2>2. f.stack[i - 1] = w /\ i - 1 \in 1..(n - 1) /\ i > 1
      BY <1>1, <1>2, <1>7, <1>8, <2>1
    <2>3. m.mode[w] # "Fullscreen"
      BY <1>0, <1>1 DEF Sound, FullscreenFront
    <2>4. f.mode[w] = m.mode[w]
      BY <1>1, <1>3, <1>6, <2>3, RestoredIsSound
    <2>5. Visible(f, w)
      BY <1>1, <2>4 DEF Visible
    <2>6. Awaits(f, w, i - 1)
      BY <1>8, <2>2, <2>5 DEF Awaits
    <2> QED
      BY <1>0, <1>5, <1>8, <2>2, <2>6 DEF f
  <1> QED
    BY <1>9, <1>10

(* The managers after 0 to l presses, as f knows them. *)
Presses(m, l, f) == [k \in 0..l |-> IF k = 0 THEN m ELSE Step(f[k - 1], FALSE)]

(* There is such a function, for every number of presses. *)
LEMMA PressesExist ==
  ASSUME NEW m, NEW l \in Nat
  PROVE  \E f : f = Presses(m, l, f)
  <1> DEFINE Has(j) == \E f : f = Presses(m, j, f)
             T == {j \in Nat : ~Has(j)}
  <1>1. SUFFICES ASSUME T # {} PROVE FALSE
    OBVIOUS
  <1>2. PICK j \in T : \A h \in T : j <= h
    <2> HIDE DEF T
    <2>1. T \in SUBSET Nat
      BY DEF T
    <2> QED
      BY <1>1, <2>1, LeastNatural
  <1>3. CASE j = 0
    <2> DEFINE f == [k \in 0..0 |-> m]
    <2>1. f = Presses(m, 0, f)
      BY DEF Presses
    <2> QED
      BY <1>2, <1>3, <2>1
  <1>4. CASE j # 0
    <2>1. j - 1 \in Nat /\ j \in Nat /\ j - 1 \notin T
      BY <1>2, <1>4
    <2>2. PICK f : f = Presses(m, j - 1, f)
      BY <2>1
    <2> DEFINE g == [k \in 0..j |-> IF k = j THEN Step(f[j - 1], FALSE) ELSE f[k]]
    <2> HIDE DEF T
    <2>3. \A k \in 0..(j - 1) : f[k] = IF k = 0 THEN m ELSE Step(f[k - 1], FALSE)
      BY <2>1, <2>2 DEF Presses
    <2>4. \A k \in 0..j : g[k] = IF k = 0 THEN m ELSE Step(g[k - 1], FALSE)
      <3> SUFFICES ASSUME NEW k \in 0..j PROVE g[k] = IF k = 0 THEN m ELSE Step(g[k - 1], FALSE)
        OBVIOUS
      <3>1. CASE k = j
        <4>1. j \in 0..j /\ j - 1 \in 0..j /\ j - 1 # j
          BY <2>1
        <4>2. g[j - 1] = f[j - 1]
          BY <4>1
        <4>3. g[j] = Step(f[j - 1], FALSE)
          BY <4>1
        <4> HIDE DEF g
        <4> QED
          BY <1>4, <3>1, <4>2, <4>3
      <3>2. CASE k # j
        <4>1. k \in 0..(j - 1) /\ (k # 0 => k - 1 \in 0..j /\ k - 1 # j)
          BY <2>1, <3>2
        <4>2. g[k] = f[k]
          BY <3>2
        <4>3. k # 0 => g[k - 1] = f[k - 1]
          BY <4>1
        <4> HIDE DEF g
        <4> QED
          BY <2>3, <4>1, <4>2, <4>3
      <3> QED
        BY <3>1, <3>2
    <2>5. g = [k \in 0..j |-> g[k]]
      OBVIOUS
    <2> HIDE DEF g
    <2>6. g = Presses(m, j, g)
      BY <2>4, <2>5 DEF Presses
    <2> QED
      BY <1>2, <2>6 DEF T
  <1> QED
    BY <1>3, <1>4

(* What Reached() collects. *)
LEMMA ReachedIs ==
  ASSUME NEW m, Sound(m)
  PROVE  \E f : /\ f[0] = m /\ \A k \in 1..Len(m.stack) : f[k] = Step(f[k - 1], FALSE)
                /\ \A k \in 0..Len(m.stack) : f[k].focused \in Reached(m, FALSE)
  <1>1. PICK n \in Nat : n = Len(m.stack)
    BY DEF Sound, Manager
  <1> DEFINE f == CHOOSE f : f = [k \in 0..n |-> IF k = 0 THEN m ELSE Step(f[k - 1], FALSE)]
  <1>2. f = [k \in 0..n |-> IF k = 0 THEN m ELSE Step(f[k - 1], FALSE)]
    BY PressesExist DEF Presses
  <1>3. Reached(m, FALSE) = {f[k].focused : k \in 0..n}
    BY <1>1 DEF Reached
  <1> HIDE DEF f
  <1>4. f[0] = m /\ \A k \in 1..n : f[k] = Step(f[k - 1], FALSE)
    <2>1. 0 \in 0..n /\ \A k \in 1..n : k \in 0..n /\ k # 0
      OBVIOUS
    <2>2. \A k \in 0..n : f[k] = IF k = 0 THEN m ELSE Step(f[k - 1], FALSE)
      BY <1>2
    <2>3. f[0] = m
      BY <2>1, <2>2
    <2>4. \A k \in 1..n : f[k] = Step(f[k - 1], FALSE)
      BY <2>1, <2>2
    <2> QED
      BY <2>3, <2>4
  <1>5. \A k \in 0..n : f[k].focused \in Reached(m, FALSE)
    BY <1>3
  <1> QED
    BY <1>1, <1>4, <1>5

(* In as many presses as there are windows, every window has its turn.      *)
LEMMA EveryoneHasATurn ==
  ASSUME NEW m, Sound(m), NEW w \in Windows(m), Visible(m, w)
  PROVE  w \in Reached(m, FALSE)
  <1>0. PICK n \in Nat : n = Len(m.stack)
    BY DEF Sound, Manager
  <1>1. PICK f : /\ f[0] = m /\ \A k \in 1..n : f[k] = Step(f[k - 1], FALSE)
                 /\ \A k \in 0..n : f[k].focused \in Reached(m, FALSE)
    <2>1. PICK f : /\ f[0] = m /\ \A k \in 1..Len(m.stack) : f[k] = Step(f[k - 1], FALSE)
                   /\ \A k \in 0..Len(m.stack) : f[k].focused \in Reached(m, FALSE)
      BY ReachedIs
    <2> QED
      BY <1>0, <2>1
  <1>2. PICK i \in 1..n : m.stack[i] = w
    BY <1>0 DEF Windows, Sound, Manager
  <1>3. CASE i = n
    <2>1. m.focused = w
      BY <1>0, <1>2, <1>3 DEF Sound, FrontFocused, Top
    <2>2. 0 \in 0..n
      OBVIOUS
    <2>3. m.focused \in Reached(m, FALSE)
      BY <1>1, <2>2, Zenon
    <2> QED
      BY <2>1, <2>3
  <1>4. CASE i # n
    <2> DEFINE Nearer(k) == /\ Sound(f[k]) /\ Len(f[k].stack) = n
                            /\ i - k >= 1 /\ Awaits(f[k], w, i - k)
               T == {k \in 0..n : ~Nearer(k)}
    <2>1. SUFFICES ASSUME \A k \in 0..n : f[k].focused # w PROVE FALSE
      BY <1>1
    <2>2. n \in T
      OBVIOUS
    <2>3. PICK k \in T : \A h \in T : k <= h
      <3> HIDE DEF T
      <3>1. T \in SUBSET Nat
        BY DEF T
      <3> QED
        BY <2>2, <3>1, LeastNatural
    <2>4. Nearer(0)
      <3>1. i \in 1..(n - 1) /\ i - 0 = i
        BY <1>2, <1>4
      <3>2. Awaits(m, w, i)
        BY <1>0, <1>2, <3>1 DEF Awaits
      <3> QED
        BY <1>0, <1>1, <3>1, <3>2
    <2>5. k \in 1..n /\ k - 1 \in 0..n
      BY <2>3, <2>4
    <2>6. k - 1 \notin T
      BY <2>3, <2>5
    <2>7. Nearer(k - 1)
      BY <2>5, <2>6
    <2>8. f[k] = Step(f[k - 1], FALSE) /\ f[k].focused # w
      BY <1>1, <2>1, <2>5
    <2>9. PICK g : g = f[k - 1]
      OBVIOUS
    <2>10. PICK h \in Int : h = i - (k - 1)
      BY <2>5
    <2>11. Sound(g) /\ Len(g.stack) = n /\ Awaits(g, w, h)
      BY <2>7, <2>9, <2>10
    <2>12. /\ Sound(f[k]) /\ Len(f[k].stack) = n
           /\ h > 1 /\ Awaits(f[k], w, h - 1)
      BY <2>8, <2>9, <2>11, NextComesNearer
    <2>13. h - 1 = i - k /\ i - k >= 1
      BY <2>5, <2>10, <2>12
    <2>14. Nearer(k)
      BY <2>12, <2>13
    <2> QED
      BY <2>3, <2>14
  <1> QED
    BY <1>3, <1>4

(* Repeating NextWindow visits every window that can be seen, although each *)
(* press reorders the stack that it walks, and although leaving full screen *)
(* may hide the window that was in front.                                   *)
THEOREM CyclingReachesAll == Spec => []NextReachesAll
  <1>1. IInv => NextReachesAll
    BY EveryoneHasATurn DEF IInv, NextReachesAll
  <1> QED
    BY <1>1, DesktopInvariant, PTL
=============================================================================
