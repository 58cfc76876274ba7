--------------------------- MODULE TerminalProofs ---------------------------
(***************************************************************************)
(* Proofs about the terminal windows: for every number of windows, tabs,   *)
(* processes and gestures, whatever the order of the events of a batch.    *)
(***************************************************************************)
EXTENDS Terminal, SequenceTheorems, WellFoundedInduction, TLAPS

Tab ==
  [serial : Nat, fd : Nat, pid : Nat, exited : BOOLEAN, bracketed_paste : BOOLEAN,
   brackets : {"closed", "open", "wrong"}]

(* A terminal, whatever closing_ holds. *)
TerminalOf(C) ==
  [state : {"unborn", "open", "gone"}, tabs : Seq(Tab), closing : C, active : Nat,
   mode : {"Normal", "Editing"}, pasting : BOOLEAN, paste_bracketed : BOOLEAN,
   watched : SUBSET [gen : Nat, fd : Nat], asked : BOOLEAN, strayed : BOOLEAN]

Process == [state : {"alive", "killed", "zombie"}, owner : Nat]

(* The tabs of one window, n shells having been started: a tab without a    *)
(* shell has neither descriptor nor serial, the serials are those of        *)
(* different tabs, and watched_ is the list of the descriptors of the tabs. *)
Lined(x, n) ==
  /\ \A i \in DOMAIN x.tabs :
       /\ x.tabs[i].fd <= n /\ x.tabs[i].serial <= n
       /\ x.tabs[i].fd = NoFd <=> x.tabs[i].serial = 0
  /\ \A i, j \in DOMAIN x.tabs :
       x.tabs[i].serial = x.tabs[j].serial /\ x.tabs[i].serial # 0 => i = j
  /\ \A e \in x.watched : \E i \in DOMAIN x.tabs :
       x.tabs[i].fd # NoFd /\ e.fd = x.tabs[i].fd /\ e.gen = x.tabs[i].serial
  /\ \A i \in DOMAIN x.tabs : x.tabs[i].fd # NoFd =>
       \E e \in x.watched : e.fd = x.tabs[i].fd /\ e.gen = x.tabs[i].serial

(* An open window has a tab to look at, another one has none. *)
Shown(x) == IF x.state = "open" THEN x.active \in DOMAIN x.tabs ELSE x.tabs = <<>>

(* The shell of the tab one looks at has an open bracket while a bracketed  *)
(* paste goes on, the others never.                                         *)
Pasted(x) ==
  x.state = "open" /\ ~x.strayed =>
    \A i \in DOMAIN x.tabs :
      x.tabs[i].brackets = IF i = x.active /\ x.pasting /\ x.paste_bracketed
                           THEN "open" ELSE "closed"

(* The interest list is that of the tabs, under their keys. *)
Heard ==
  /\ \A w \in Windows : \A i \in DOMAIN term[w].tabs :
       term[w].tabs[i].fd # NoFd =>
         /\ term[w].tabs[i].fd \in DOMAIN epoll
         /\ epoll[term[w].tabs[i].fd] = [win |-> w, gen |-> term[w].tabs[i].serial]
  /\ \A f \in DOMAIN epoll : f # NoFd /\
       \E w \in Windows : \E i \in DOMAIN term[w].tabs : term[w].tabs[i].fd = f
  /\ epoll = [f \in DOMAIN epoll |-> epoll[f]]

LivesAs(table, t) ==
  t.pid \in DOMAIN table /\ table[t.pid] = [state |-> "alive", owner |-> t.serial]

(* A tab that knows of the death of its shell is right, whoever has got the *)
(* number of that shell since.                                              *)
Dead ==
  \A w \in Windows : \A i \in DOMAIN term[w].tabs :
    term[w].tabs[i].exited => ~LivesAs(procs, term[w].tabs[i])

ProcsTyped == DOMAIN procs \subseteq Pids /\ \A p \in DOMAIN procs : procs[p] \in Process

WindowsTyped == \E C : term \in [Windows -> TerminalOf(C)]

TermInv ==
  /\ WindowsTyped /\ ProcsTyped /\ shells \in Nat
  /\ \A w \in Windows : Lined(term[w], shells) /\ Shown(term[w]) /\ Pasted(term[w])
  /\ Heard /\ Dead

-----------------------------------------------------------------------------
(* Sequences, and the lowest free number. *)

(* erase() of one tab: the ones behind it move up. *)
LEMMA RemoveAtIs ==
  ASSUME NEW S, NEW s \in Seq(S), NEW i \in 1..Len(s)
  PROVE  /\ RemoveAt(s, i) \in Seq(S) /\ DOMAIN RemoveAt(s, i) = 1..(Len(s) - 1)
         /\ Len(RemoveAt(s, i)) = Len(s) - 1
         /\ \A j \in 1..(Len(s) - 1) :
              RemoveAt(s, i)[j] = IF j < i THEN s[j] ELSE s[j + 1]
<1>0. PICK n \in Nat : n = Len(s)
  OBVIOUS
<1> DEFINE a == SubSeq(s, 1, i - 1)
           b == SubSeq(s, i + 1, n)
<1>1. i \in Nat /\ 1 <= i /\ i <= n /\ \A j \in 1..n : s[j] \in S
  BY <1>0
<1>2. /\ a \in Seq(S) /\ Len(a) = i - 1
      /\ \A j \in 1..(i - 1) : a[j] = s[j]
  <2>1. i - 1 \in Int /\ 1 \in Int /\ \A j \in 1..(i - 1) : s[j] \in S
    BY <1>1
  <2>2. /\ a \in Seq(S) /\ Len(a) = IF 1 <= i - 1 THEN (i - 1) - 1 + 1 ELSE 0
        /\ \A j \in 1..((i - 1) - 1 + 1) : a[j] = s[1 + j - 1]
    BY <2>1, SubSeqProperties
  <2> HIDE DEF a
  <2>3. (i - 1) - 1 + 1 = i - 1 /\ \A j \in 1..(i - 1) : 1 + j - 1 = j
    BY <1>1
  <2>4. QED  BY <1>1, <2>2, <2>3
<1>3. /\ b \in Seq(S) /\ Len(b) = n - i
      /\ \A j \in 1..(n - i) : b[j] = s[j + i]
  <2>1. i + 1 \in Int /\ n \in Int /\ \A j \in (i + 1)..n : s[j] \in S
    BY <1>0, <1>1
  <2>2. /\ b \in Seq(S) /\ Len(b) = IF i + 1 <= n THEN n - (i + 1) + 1 ELSE 0
        /\ \A j \in 1..(n - (i + 1) + 1) : b[j] = s[(i + 1) + j - 1]
    BY <2>1, SubSeqProperties
  <2> HIDE DEF b
  <2>3. n - (i + 1) + 1 = n - i /\ \A j \in 1..(n - i) : (i + 1) + j - 1 = j + i
    BY <1>0, <1>1
  <2>4. Len(b) = n - i
    BY <1>0, <1>1, <2>2
  <2>5. \A j \in 1..(n - i) : b[j] = s[(i + 1) + j - 1]
    BY <2>2, <2>3
  <2>6. \A j \in 1..(n - i) : b[j] = s[j + i]
    BY <2>3, <2>5
  <2>7. QED  BY <2>2, <2>4, <2>6
<1> HIDE DEF a, b
<1>4. /\ a \o b \in Seq(S) /\ Len(a \o b) = n - 1
      /\ \A j \in 1..(n - 1) : (a \o b)[j] = IF j <= i - 1 THEN a[j] ELSE b[j - (i - 1)]
  <2>1. /\ a \o b \in Seq(S) /\ Len(a \o b) = Len(a) + Len(b)
        /\ \A j \in 1..(Len(a) + Len(b)) :
             (a \o b)[j] = IF j <= Len(a) THEN a[j] ELSE b[j - Len(a)]
    BY <1>2, <1>3, ConcatProperties
  <2>2. Len(a) + Len(b) = n - 1
    BY <1>0, <1>1, <1>2, <1>3
  <2>3. QED  BY <1>2, <2>1, <2>2
<1>5. ASSUME NEW j \in 1..(n - 1)
      PROVE  (a \o b)[j] = IF j < i THEN s[j] ELSE s[j + 1]
  <2>1. CASE j < i
    <3>1. j \in 1..(i - 1) /\ j <= i - 1
      BY <1>0, <1>1, <2>1
    <3>2. QED  BY <1>2, <1>4, <2>1, <3>1
  <2>2. CASE ~(j < i)
    <3>1. j - (i - 1) \in 1..(n - i) /\ (j - (i - 1)) + i = j + 1 /\ ~(j <= i - 1)
      BY <1>0, <1>1, <2>2
    <3>2. b[j - (i - 1)] = s[j + 1]
      BY <1>3, <3>1
    <3>3. QED  BY <1>4, <2>2, <3>1, <3>2
  <2>3. QED  BY <2>1, <2>2
<1>6. RemoveAt(s, i) = a \o b
  BY <1>0 DEF RemoveAt, a, b
<1>7. DOMAIN (a \o b) = 1..(n - 1)
  BY <1>0, <1>1, <1>4
<1>8. QED  BY <1>0, <1>4, <1>5, <1>6, <1>7

(* Every set of numbers that is not empty has a lowest one. *)
LEMMA LowestOf ==
  ASSUME NEW T \in SUBSET Nat, T # {}
  PROVE  \E x \in T : \A z \in T : x <= z
<1> DEFINE R == OpToRel(<, Nat)
<1>1. IsWellFoundedOn(R, Nat)
  BY NatLessThanWellFounded
<1>2. \A x, z \in Nat : x < z => <<x, z>> \in R
  BY DEF OpToRel
<1> HIDE DEF R
<1>3. PICK x \in T : \A z \in T : ~(<<z, x>> \in R)
  BY <1>1, WFMin
<1>4. \A z \in T : x \in Nat /\ z \in Nat /\ ~(z < x)
  BY <1>1, <1>2, <1>3
<1>5. QED  BY <1>4

(* The descriptors in use. *)
LEMMA OpenFdsAre ==
  \A f : f \in OpenFds <=> \E w \in Windows : \E i \in DOMAIN term[w].tabs : term[w].tabs[i].fd = f
  BY DEF OpenFds, TabsOf, ToSet

(* open(): the kernel has a descriptor to give, one that nobody uses. *)
LEMMA FreeFdIs ==
  ASSUME TermInv, shells < MaxShells
  PROVE  FreeFd \in 1..(shells + 1) /\ FreeFd \notin OpenFds
<1> DEFINE T == Fds \ OpenFds
<1>1. MaxShells \in Nat /\ shells \in Nat
  BY TerminalAssumption DEF TermInv
<1>2. PICK C : term \in [Windows -> TerminalOf(C)]
  BY DEF TermInv, WindowsTyped
<1>3. shells + 1 \notin OpenFds
  <2>1. \A w \in Windows : \A i \in DOMAIN term[w].tabs : term[w].tabs[i].fd <= shells
    BY DEF TermInv, Lined
  <2>2. \A w \in Windows : \A i \in DOMAIN term[w].tabs : term[w].tabs[i].fd \in Nat
    <3>1. ASSUME NEW w \in Windows, NEW i \in DOMAIN term[w].tabs
          PROVE  term[w].tabs[i].fd \in Nat
      <4>1. term[w].tabs \in Seq(Tab)
        BY <1>2 DEF TerminalOf
      <4>2. term[w].tabs[i] \in Tab
        BY <3>1, <4>1
      <4>3. QED  BY <4>2 DEF Tab
    <3>2. QED  BY <3>1
  <2>3. \A w \in Windows : \A i \in DOMAIN term[w].tabs : term[w].tabs[i].fd # shells + 1
    BY <1>1, <2>1, <2>2
  <2>4. QED  BY <2>3, OpenFdsAre
<1>4. shells + 1 \in T /\ T \in SUBSET Nat
  BY <1>1, <1>3 DEF Fds
<1>5. PICK x \in T : \A z \in T : x <= z
  BY <1>4, LowestOf
<1>6. FreeFd \in T /\ \A z \in T : FreeFd <= z
  BY <1>5 DEF FreeFd
<1>7. FreeFd <= shells + 1
  BY <1>4, <1>6
<1>8. QED  BY <1>1, <1>6, <1>7 DEF Fds

-----------------------------------------------------------------------------
(* One window changes. *)

Becomes(w, y) == (\E D : y \in TerminalOf(D)) /\ term' = [term EXCEPT ![w] = y]

(* The other windows stay, and all of them are still terminals. *)
LEMMA BecomesIs ==
  ASSUME WindowsTyped, NEW w \in Windows, NEW y, Becomes(w, y)
  PROVE  /\ WindowsTyped' /\ term'[w] = y
         /\ \A v \in Windows : v # w => term'[v] = term[v]
<1>1. PICK C : term \in [Windows -> TerminalOf(C)]
  BY DEF WindowsTyped
<1>2. PICK D : y \in TerminalOf(D)
  BY DEF Becomes
<1>3. TerminalOf(C) \subseteq TerminalOf(C \cup D) /\ TerminalOf(D) \subseteq TerminalOf(C \cup D)
  BY DEF TerminalOf
<1>4. term' \in [Windows -> TerminalOf(C \cup D)] /\ term'[w] = y
      /\ \A v \in Windows : v # w => term'[v] = term[v]
  BY <1>1, <1>2, <1>3 DEF Becomes
<1>5. QED  BY <1>4 DEF WindowsTyped

(* A window of the invariant, as a record with typed tabs. *)
LEMMA WindowIs ==
  ASSUME TermInv, NEW w \in Windows
  PROVE  /\ \E C : term[w] \in TerminalOf(C)
         /\ term[w].tabs \in Seq(Tab) /\ DOMAIN term[w].tabs = 1..Len(term[w].tabs)
         /\ \A i \in DOMAIN term[w].tabs : term[w].tabs[i] \in Tab
         /\ Lined(term[w], shells) /\ Shown(term[w]) /\ Pasted(term[w]) /\ shells \in Nat
<1>1. PICK C : term \in [Windows -> TerminalOf(C)]
  BY DEF TermInv, WindowsTyped
<1>2. term[w] \in TerminalOf(C)
  BY <1>1
<1>3. term[w].tabs \in Seq(Tab)
  BY <1>2 DEF TerminalOf
<1>4. DOMAIN term[w].tabs = 1..Len(term[w].tabs) /\ \A i \in DOMAIN term[w].tabs : term[w].tabs[i] \in Tab
  BY <1>3
<1>5. QED  BY <1>2, <1>3, <1>4 DEF TermInv

(* The processes may only die, be killed or disappear. *)
ProcsShrink ==
  /\ ProcsTyped'
  /\ \A p \in DOMAIN procs' : p \in DOMAIN procs /\
       (procs'[p].state = "alive" => procs'[p] = procs[p])

(* A shell that lives has lived. *)
LEMMA ShrinkLives ==
  ASSUME ProcsShrink, NEW t, LivesAs(procs', t)
  PROVE  LivesAs(procs, t)
<1>1. procs'[t.pid].state = "alive"
  BY DEF LivesAs
<1>2. QED  BY <1>1 DEF ProcsShrink, LivesAs

SameLine(s, t) == t.serial = s.serial /\ t.fd = s.fd /\ t.pid = s.pid

SameLines(x, y) ==
  /\ DOMAIN y.tabs = DOMAIN x.tabs
  /\ \A i \in DOMAIN x.tabs : SameLine(x.tabs[i], y.tabs[i])

(* What a tab newly knows of the death of its shell is true. *)
TrueDeaths(x, y) ==
  \A i \in DOMAIN y.tabs : y.tabs[i].exited =>
    x.tabs[i].exited \/ ~LivesAs(procs', y.tabs[i])

(* The tabs of a window keep their shells, and the interest list is kept.   *)
LEMMA AlikeKept ==
  ASSUME TermInv, NEW w \in Windows, NEW y, Becomes(w, y), SameLines(term[w], y),
         y.watched = term[w].watched, Shown(y), Pasted(y),
         UNCHANGED <<epoll, shells>>, ProcsShrink, TrueDeaths(term[w], y)
  PROVE  TermInv'
<1>1. /\ WindowsTyped' /\ term'[w] = y
      /\ \A v \in Windows : v # w => term'[v] = term[v]
  BY BecomesIs DEF TermInv
<1>2. Lined(y, shells)
  BY SMTT(30) DEF TermInv, Lined, SameLines, SameLine
<1>3. \A v \in Windows : Lined(term'[v], shells') /\ Shown(term'[v]) /\ Pasted(term'[v])
  BY <1>1, <1>2 DEF TermInv
<1>4. \A v \in Windows : SameLines(term[v], term'[v])
  BY <1>1 DEF SameLines, SameLine
<1>5. Heard'
  <2>1. ASSUME NEW v \in Windows, NEW i \in DOMAIN term'[v].tabs, term'[v].tabs[i].fd # NoFd
        PROVE  /\ term'[v].tabs[i].fd \in DOMAIN epoll'
               /\ epoll'[term'[v].tabs[i].fd] = [win |-> v, gen |-> term'[v].tabs[i].serial]
    <3>1. /\ i \in DOMAIN term[v].tabs /\ term[v].tabs[i].fd = term'[v].tabs[i].fd
          /\ term[v].tabs[i].serial = term'[v].tabs[i].serial
      BY <1>4, <2>1 DEF SameLines, SameLine
    <3>2. term[v].tabs[i].fd # NoFd =>
            /\ term[v].tabs[i].fd \in DOMAIN epoll
            /\ epoll[term[v].tabs[i].fd] = [win |-> v, gen |-> term[v].tabs[i].serial]
      BY <3>1 DEF TermInv, Heard
    <3>3. epoll' = epoll
      OBVIOUS
    <3>4. QED  BY <2>1, <3>1, <3>2, <3>3
  <2>2. ASSUME NEW f \in DOMAIN epoll'
        PROVE  f # NoFd /\ \E v \in Windows : \E i \in DOMAIN term'[v].tabs : term'[v].tabs[i].fd = f
    <3>1. f # NoFd
      BY <2>2 DEF TermInv, Heard
    <3>2. PICK v \in Windows : \E i \in DOMAIN term[v].tabs : term[v].tabs[i].fd = f
      BY <2>2 DEF TermInv, Heard
    <3>3. QED  BY <1>4, <3>1, <3>2 DEF SameLines, SameLine
  <2>3. epoll' = [f \in DOMAIN epoll' |-> epoll'[f]]
    BY DEF TermInv, Heard
  <2>4. QED  BY <2>1, <2>2, <2>3 DEF Heard
<1>6. Dead'
  <2>1. ASSUME NEW v \in Windows, NEW i \in DOMAIN term'[v].tabs, term'[v].tabs[i].exited
        PROVE  ~LivesAs(procs', term'[v].tabs[i])
    <3>1. i \in DOMAIN term[v].tabs /\ SameLine(term[v].tabs[i], term'[v].tabs[i])
      BY <1>4, <2>1 DEF SameLines
    <3>2. term[v].tabs[i].exited \/ ~LivesAs(procs', term'[v].tabs[i])
      BY <1>1, <2>1 DEF TrueDeaths
    <3>3. term[v].tabs[i].exited => ~LivesAs(procs, term[v].tabs[i])
      BY <3>1 DEF TermInv, Dead
    <3>4. LivesAs(procs', term'[v].tabs[i]) => LivesAs(procs, term'[v].tabs[i])
      BY ShrinkLives
    <3>5. LivesAs(procs, term'[v].tabs[i]) => LivesAs(procs, term[v].tabs[i])
      BY <3>1 DEF LivesAs, SameLine
    <3>6. QED  BY <3>2, <3>3, <3>4, <3>5
  <2>2. QED  BY <2>1 DEF Dead
<1>7. QED  BY <1>1, <1>3, <1>5, <1>6 DEF TermInv, ProcsShrink

(* No window changes. *)
LEMMA StillKept ==
  ASSUME TermInv, UNCHANGED <<term, epoll, shells>>, ProcsShrink
  PROVE  TermInv'
<1>1. WindowsTyped'
  BY DEF TermInv, WindowsTyped
<1>2. Heard'
  BY DEF TermInv, Heard
<1>3. Dead'
  <2>1. ASSUME NEW v \in Windows, NEW i \in DOMAIN term[v].tabs, term[v].tabs[i].exited
        PROVE  ~LivesAs(procs', term[v].tabs[i])
    BY <2>1, ShrinkLives DEF TermInv, Dead
  <2>2. QED  BY <2>1 DEF Dead
<1>4. QED  BY <1>1, <1>2, <1>3 DEF TermInv, ProcsShrink

(* The same processes are processes that only shrink. *)
LEMMA SameShrinks ==
  ASSUME TermInv, UNCHANGED procs PROVE ProcsShrink
  BY DEF TermInv, ProcsTyped, ProcsShrink

(* kill(): nobody comes back to life. *)
LEMMA KillShrinks ==
  ASSUME TermInv, NEW ts
  PROVE  /\ DOMAIN Kill(procs, ts) = DOMAIN procs
         /\ \A p \in DOMAIN procs : Kill(procs, ts)[p] \in Process
         /\ \A p \in DOMAIN procs :
              Kill(procs, ts)[p].state = "alive" => Kill(procs, ts)[p] = procs[p]
<1>1. DOMAIN Kill(procs, ts) = DOMAIN procs
  BY DEF Kill
<1>2. ASSUME NEW p \in DOMAIN procs
      PROVE  /\ Kill(procs, ts)[p] \in Process
             /\ Kill(procs, ts)[p].state = "alive" => Kill(procs, ts)[p] = procs[p]
  <2>1. procs[p] \in Process
    BY DEF TermInv, ProcsTyped
  <2>2. Kill(procs, ts)[p] = procs[p] \/ Kill(procs, ts)[p] = [procs[p] EXCEPT !.state = "killed"]
    BY DEF Kill
  <2>3. [procs[p] EXCEPT !.state = "killed"] \in Process
        /\ [procs[p] EXCEPT !.state = "killed"].state = "killed"
    BY <2>1 DEF Process
  <2>4. QED  BY <2>1, <2>2, <2>3
<1>3. QED  BY <1>1, <1>2

-----------------------------------------------------------------------------
(* A shell starts *)

(* Pty::spawn(), watch() and watch_child(): the new tab has a descriptor    *)
(* and a serial of its own, and a process whose number may have belonged to *)
(* another shell.                                                           *)
LEMMA SpawnKept ==
  ASSUME TermInv, NEW w \in Windows, NEW p \in Pids, Spawned(w, p), NEW y, Becomes(w, y),
         y.tabs = Append(term[w].tabs, NewTab(p)),
         y.watched = term[w].watched \cup {[gen |-> shells + 1, fd |-> FreeFd]},
         Shown(y), Pasted(y)
  PROVE  TermInv'
<1> DEFINE x == term[w]
           t == NewTab(p)
           n == Len(x.tabs)
           f0 == FreeFd
<1>1. /\ WindowsTyped' /\ term'[w] = y
      /\ \A v \in Windows : v # w => term'[v] = term[v]
  BY BecomesIs DEF TermInv
<1>2. /\ x.tabs \in Seq(Tab) /\ DOMAIN x.tabs = 1..n /\ n \in Nat
      /\ Lined(x, shells) /\ shells \in Nat
      /\ \A i \in DOMAIN x.tabs : x.tabs[i] \in Tab
  BY WindowIs
<1>3. f0 \in 1..(shells + 1) /\ f0 \notin OpenFds /\ f0 # NoFd
  BY <1>2, FreeFdIs DEF Spawned, NoFd
<1>4. t.serial = shells + 1 /\ t.fd = f0 /\ t.pid = p /\ t.exited = FALSE
  BY DEF NewTab, NoTab
<1>5. /\ shells' = shells + 1 /\ p \notin DOMAIN procs
      /\ procs' = [q \in DOMAIN procs \cup {p} |->
                 IF q = p THEN [state |-> "alive", owner |-> shells + 1] ELSE procs[q]]
      /\ epoll' = [f \in DOMAIN epoll \cup {f0} |->
                 IF f = f0 THEN [win |-> w, gen |-> shells + 1] ELSE epoll[f]]
  BY DEF Spawned
<1> HIDE DEF t, f0
<1>6. /\ DOMAIN y.tabs = 1..(n + 1) /\ y.tabs[n + 1] = t
      /\ \A i \in 1..n : y.tabs[i] = x.tabs[i]
  BY <1>2 DEF t
<1>7. \A v \in Windows : \A i \in DOMAIN term[v].tabs :
        /\ term[v].tabs[i].fd # f0 /\ term[v].tabs[i].serial # shells + 1
        /\ term[v].tabs[i].serial <= shells /\ term[v].tabs[i].fd <= shells
        /\ term[v].tabs[i].serial \in Nat /\ term[v].tabs[i].fd \in Nat
  <2>1. ASSUME NEW v \in Windows, NEW i \in DOMAIN term[v].tabs
        PROVE  /\ term[v].tabs[i].fd # f0 /\ term[v].tabs[i].serial # shells + 1
               /\ term[v].tabs[i].serial <= shells /\ term[v].tabs[i].fd <= shells
               /\ term[v].tabs[i].serial \in Nat /\ term[v].tabs[i].fd \in Nat
    <3>1. term[v].tabs[i].fd # f0
      BY <1>3, <2>1, OpenFdsAre
    <3>2. /\ term[v].tabs[i].serial <= shells /\ term[v].tabs[i].fd <= shells
          /\ term[v].tabs[i].serial \in Nat /\ term[v].tabs[i].fd \in Nat
      BY <2>1, WindowIs DEF Lined, Tab
    <3>3. QED  BY <1>2, <3>1, <3>2
  <2>2. QED  BY <2>1
<1>8. Lined(y, shells + 1)
  <2>1. \A i \in DOMAIN y.tabs :
          /\ y.tabs[i].fd <= shells + 1 /\ y.tabs[i].serial <= shells + 1
          /\ y.tabs[i].fd = NoFd <=> y.tabs[i].serial = 0
    <3>1. ASSUME NEW i \in DOMAIN y.tabs
          PROVE  /\ y.tabs[i].fd <= shells + 1 /\ y.tabs[i].serial <= shells + 1
                 /\ y.tabs[i].fd = NoFd <=> y.tabs[i].serial = 0
      <4>1. CASE i = n + 1
        BY <1>2, <1>3, <1>4, <1>6, <4>1, SMTT(30)
      <4>2. CASE i \in 1..n
        <5>1. y.tabs[i] = x.tabs[i] /\ i \in DOMAIN x.tabs
          BY <1>2, <1>6, <4>2
        <5>2. /\ x.tabs[i].fd <= shells /\ x.tabs[i].serial <= shells
              /\ x.tabs[i].fd \in Nat /\ x.tabs[i].serial \in Nat
              /\ x.tabs[i].fd = NoFd <=> x.tabs[i].serial = 0
          BY <1>2, <1>7, <5>1 DEF Lined
        <5>3. QED  BY <1>2, <5>1, <5>2
      <4>3. QED  BY <1>2, <1>6, <4>1, <4>2
    <3>2. QED  BY <3>1
  <2>2. \A i, j \in DOMAIN y.tabs :
          y.tabs[i].serial = y.tabs[j].serial /\ y.tabs[i].serial # 0 => i = j
    <3>1. \A i \in 1..n : y.tabs[i].serial # shells + 1
      BY <1>2, <1>6, <1>7
    <3>2. \A i, j \in 1..n : y.tabs[i].serial = y.tabs[j].serial /\ y.tabs[i].serial # 0 => i = j
      BY <1>2, <1>6 DEF Lined
    <3>3. \A i \in DOMAIN y.tabs : i \in 1..n \/ i = n + 1
      BY <1>2, <1>6
    <3>4. QED  BY <1>4, <1>6, <3>1, <3>2, <3>3
  <2>3. \A e \in y.watched : \E i \in DOMAIN y.tabs :
          y.tabs[i].fd # NoFd /\ e.fd = y.tabs[i].fd /\ e.gen = y.tabs[i].serial
    <3>1. ASSUME NEW e \in y.watched
          PROVE  \E i \in DOMAIN y.tabs :
                   y.tabs[i].fd # NoFd /\ e.fd = y.tabs[i].fd /\ e.gen = y.tabs[i].serial
      <4>1. CASE e \in x.watched
        <5>1. PICK i \in DOMAIN x.tabs :
                x.tabs[i].fd # NoFd /\ e.fd = x.tabs[i].fd /\ e.gen = x.tabs[i].serial
          BY <1>2, <4>1 DEF Lined
        <5>2. i \in DOMAIN y.tabs /\ y.tabs[i] = x.tabs[i]
          BY <1>2, <1>6, <5>1
        <5>3. QED  BY <5>1, <5>2
      <4>2. CASE e = [gen |-> shells + 1, fd |-> f0]
        <5>1. n + 1 \in DOMAIN y.tabs
          BY <1>2, <1>6
        <5>2. QED  BY <1>3, <1>4, <1>6, <4>2, <5>1
      <4>3. QED  BY <3>1, <4>1, <4>2 DEF f0
    <3>2. QED  BY <3>1
  <2>4. \A i \in DOMAIN y.tabs : y.tabs[i].fd # NoFd =>
          \E e \in y.watched : e.fd = y.tabs[i].fd /\ e.gen = y.tabs[i].serial
    <3>1. ASSUME NEW i \in DOMAIN y.tabs, y.tabs[i].fd # NoFd
          PROVE  \E e \in y.watched : e.fd = y.tabs[i].fd /\ e.gen = y.tabs[i].serial
      <4>1. CASE i = n + 1
        <5>1. [gen |-> shells + 1, fd |-> f0] \in y.watched
          BY DEF f0
        <5>2. QED  BY <1>4, <1>6, <4>1, <5>1
      <4>2. CASE i \in 1..n
        <5>1. i \in DOMAIN x.tabs /\ y.tabs[i] = x.tabs[i]
          BY <1>2, <1>6, <4>2
        <5>2. PICK e \in x.watched : e.fd = x.tabs[i].fd /\ e.gen = x.tabs[i].serial
          BY <1>2, <3>1, <5>1 DEF Lined
        <5>3. QED  BY <5>1, <5>2
      <4>3. QED  BY <1>2, <1>6, <4>1, <4>2
    <3>2. QED  BY <3>1
  <2>5. QED  BY <2>1, <2>2, <2>3, <2>4 DEF Lined
<1>9. \A v \in Windows : Lined(term'[v], shells') /\ Shown(term'[v]) /\ Pasted(term'[v])
  <2>1. ASSUME NEW v \in Windows, v # w
        PROVE  Lined(term'[v], shells')
    <3>1. term'[v] = term[v] /\ Lined(term[v], shells)
      BY <1>1, <2>1 DEF TermInv
    <3>2. \A i \in DOMAIN term[v].tabs : term[v].tabs[i].serial <= shells + 1 /\ term[v].tabs[i].fd <= shells + 1
      BY <1>2, <1>7
    <3>3. QED  BY <1>5, <3>1, <3>2 DEF Lined
  <2>2. QED  BY <1>1, <1>5, <1>8, <2>1 DEF TermInv
<1>10. \A v \in Windows : \A i \in DOMAIN term'[v].tabs :
         \/ v = w /\ i = n + 1 /\ term'[v].tabs[i] = t
         \/ i \in DOMAIN term[v].tabs /\ term'[v].tabs[i] = term[v].tabs[i]
  <2>1. ASSUME NEW i \in DOMAIN term'[w].tabs
        PROVE  \/ i = n + 1 /\ term'[w].tabs[i] = t
               \/ i \in DOMAIN term[w].tabs /\ term'[w].tabs[i] = term[w].tabs[i]
    <3>1. i \in 1..(n + 1) /\ term'[w].tabs[i] = y.tabs[i]
      BY <1>1, <1>6, <2>1
    <3>2. i = n + 1 \/ i \in 1..n
      BY <1>2, <3>1
    <3>3. QED  BY <1>2, <1>6, <3>1, <3>2
  <2>2. QED  BY <1>1, <2>1
<1>11. Heard'
  <2>1. ASSUME NEW v \in Windows, NEW i \in DOMAIN term'[v].tabs, term'[v].tabs[i].fd # NoFd
        PROVE  /\ term'[v].tabs[i].fd \in DOMAIN epoll'
               /\ epoll'[term'[v].tabs[i].fd] = [win |-> v, gen |-> term'[v].tabs[i].serial]
    <3>1. CASE v = w /\ i = n + 1 /\ term'[v].tabs[i] = t
      BY <1>4, <1>5, <3>1
    <3>2. CASE i \in DOMAIN term[v].tabs /\ term'[v].tabs[i] = term[v].tabs[i]
      <4>0. term[v].tabs[i].fd # NoFd
        BY <2>1, <3>2
      <4>1. /\ term[v].tabs[i].fd \in DOMAIN epoll
            /\ epoll[term[v].tabs[i].fd] = [win |-> v, gen |-> term[v].tabs[i].serial]
        BY <3>2, <4>0 DEF TermInv, Heard
      <4>2. term[v].tabs[i].fd # f0
        BY <1>7, <3>2
      <4>3. QED  BY <1>5, <3>2, <4>1, <4>2
    <3>3. QED  BY <1>10, <2>1, <3>1, <3>2
  <2>2. ASSUME NEW f \in DOMAIN epoll'
        PROVE  f # NoFd /\ \E v \in Windows : \E i \in DOMAIN term'[v].tabs : term'[v].tabs[i].fd = f
    <3>1. CASE f = f0
      <4>1. n + 1 \in DOMAIN term'[w].tabs /\ term'[w].tabs[n + 1].fd = f
        BY <1>1, <1>2, <1>4, <1>6, <3>1, SMTT(30)
      <4>2. QED  BY <1>3, <3>1, <4>1
    <3>2. CASE f \in DOMAIN epoll
      <4>1. f # NoFd /\ \E v \in Windows : \E i \in DOMAIN term[v].tabs : term[v].tabs[i].fd = f
        BY <3>2 DEF TermInv, Heard
      <4>2. PICK v \in Windows : \E i \in DOMAIN term[v].tabs : term[v].tabs[i].fd = f
        BY <4>1
      <4>3. PICK i \in DOMAIN term[v].tabs : term[v].tabs[i].fd = f
        BY <4>2
      <4>4. i \in DOMAIN term'[v].tabs /\ term'[v].tabs[i] = term[v].tabs[i]
        <5>1. CASE v # w
          BY <1>1, <5>1
        <5>2. CASE v = w
          <6>1. i \in 1..n /\ i \in 1..(n + 1)
            BY <1>2, <4>3, <5>2
          <6>2. QED  BY <1>1, <1>6, <5>2, <6>1
        <5>3. QED  BY <5>1, <5>2
      <4>5. QED  BY <4>1, <4>3, <4>4
    <3>3. QED  BY <1>5, <2>2, <3>1, <3>2
  <2>3. epoll' = [f \in DOMAIN epoll' |-> epoll'[f]]
    BY <1>5
  <2>4. QED  BY <2>1, <2>2, <2>3 DEF Heard
<1>12. Dead'
  <2>1. ASSUME NEW v \in Windows, NEW i \in DOMAIN term'[v].tabs, term'[v].tabs[i].exited
        PROVE  ~LivesAs(procs', term'[v].tabs[i])
    <3>1. i \in DOMAIN term[v].tabs /\ term'[v].tabs[i] = term[v].tabs[i]
      BY <1>4, <1>10, <2>1
    <3>2. ~LivesAs(procs, term[v].tabs[i]) /\ term[v].tabs[i].serial # shells + 1
      BY <1>7, <2>1, <3>1 DEF TermInv, Dead
    <3>3. LivesAs(procs', term[v].tabs[i]) => LivesAs(procs, term[v].tabs[i])
      BY <1>5, <3>2 DEF LivesAs
    <3>4. QED  BY <3>1, <3>2, <3>3
  <2>2. QED  BY <2>1 DEF Dead
<1>13. ProcsTyped'
  <2>1. [state |-> "alive", owner |-> shells + 1] \in Process
    BY <1>2 DEF Process
  <2>2. QED  BY <1>5, <2>1 DEF TermInv, ProcsTyped
<1>14. shells' \in Nat
  BY <1>2, <1>5
<1>15. QED  BY <1>1, <1>9, <1>11, <1>12, <1>13, <1>14 DEF TermInv

-----------------------------------------------------------------------------
(* A shell leaves *)

(* Two tabs never share a descriptor. *)
LEMMA FdOfOne ==
  ASSUME TermInv, NEW v \in Windows, NEW w \in Windows,
         NEW i \in DOMAIN term[v].tabs, NEW j \in DOMAIN term[w].tabs,
         term[v].tabs[i].fd = term[w].tabs[j].fd, term[v].tabs[i].fd # NoFd
  PROVE  v = w /\ i = j
<1>1. /\ epoll[term[v].tabs[i].fd] = [win |-> v, gen |-> term[v].tabs[i].serial]
      /\ epoll[term[w].tabs[j].fd] = [win |-> w, gen |-> term[w].tabs[j].serial]
  BY DEF TermInv, Heard
<1>2. v = w /\ term[v].tabs[i].serial = term[w].tabs[j].serial
  BY <1>1
<1>3. term[v].tabs[i].serial # 0
  BY DEF TermInv, Lined
<1>4. QED  BY <1>2, <1>3 DEF TermInv, Lined

(* The tabs of y are tabs of x whose descriptors are not in F, and the      *)
(* tabs of x that are not in y had theirs in F, if they had one at all.     *)
Dropped(x, y, F) ==
  /\ \A j \in DOMAIN y.tabs : \E i \in DOMAIN x.tabs :
       y.tabs[j] = x.tabs[i] /\ (x.tabs[i].fd # NoFd => x.tabs[i].fd \notin F)
  /\ \A i \in DOMAIN x.tabs :
       \/ x.tabs[i].fd \in F \cup {NoFd}
       \/ \E j \in DOMAIN y.tabs : y.tabs[j] = x.tabs[i]
  /\ \A f \in F : f = NoFd \/ \E i \in DOMAIN x.tabs : x.tabs[i].fd = f

(* unwatch() and close(): the interest list loses what the window loses.    *)
LEMMA DropKept ==
  ASSUME TermInv, NEW w \in Windows, NEW y, Becomes(w, y), NEW F, Dropped(term[w], y, F),
         Lined(y, shells), Shown(y), Pasted(y),
         epoll' = Forgotten(epoll, F), shells' = shells, ProcsShrink
  PROVE  TermInv'
<1>1. /\ WindowsTyped' /\ term'[w] = y
      /\ \A v \in Windows : v # w => term'[v] = term[v]
  BY BecomesIs DEF TermInv
<1>2. \A v \in Windows : Lined(term'[v], shells') /\ Shown(term'[v]) /\ Pasted(term'[v])
  BY <1>1 DEF TermInv
<1>3. DOMAIN epoll' = DOMAIN epoll \ F /\ \A f \in DOMAIN epoll' : epoll'[f] = epoll[f]
  BY DEF Forgotten
<1>4. ASSUME NEW v \in Windows, NEW j \in DOMAIN term'[v].tabs
      PROVE  \E i \in DOMAIN term[v].tabs :
               /\ term'[v].tabs[j] = term[v].tabs[i]
               /\ term[v].tabs[i].fd # NoFd => term[v].tabs[i].fd \notin F
  <2>1. CASE v = w
    BY <1>1, <1>4, <2>1 DEF Dropped
  <2>2. CASE v # w
    <3>1. term'[v].tabs[j] = term[v].tabs[j] /\ j \in DOMAIN term[v].tabs
      BY <1>1, <1>4, <2>2
    <3>2. ASSUME term[v].tabs[j].fd # NoFd, term[v].tabs[j].fd \in F PROVE FALSE
      <4>1. PICK i \in DOMAIN term[w].tabs : term[w].tabs[i].fd = term[v].tabs[j].fd
        BY <3>2 DEF Dropped
      <4>2. QED  BY <2>2, <3>1, <3>2, <4>1, FdOfOne
    <3>3. QED  BY <3>1, <3>2
  <2>3. QED  BY <2>1, <2>2
<1>5. Heard'
  <2>1. ASSUME NEW v \in Windows, NEW j \in DOMAIN term'[v].tabs, term'[v].tabs[j].fd # NoFd
        PROVE  /\ term'[v].tabs[j].fd \in DOMAIN epoll'
               /\ epoll'[term'[v].tabs[j].fd] = [win |-> v, gen |-> term'[v].tabs[j].serial]
    <3>1. PICK i \in DOMAIN term[v].tabs :
            /\ term'[v].tabs[j] = term[v].tabs[i]
            /\ term[v].tabs[i].fd # NoFd => term[v].tabs[i].fd \notin F
      BY <1>4, <2>1
    <3>2. term[v].tabs[i].fd # NoFd
      BY <2>1, <3>1
    <3>3. /\ term[v].tabs[i].fd \in DOMAIN epoll
          /\ epoll[term[v].tabs[i].fd] = [win |-> v, gen |-> term[v].tabs[i].serial]
      BY <3>1, <3>2 DEF TermInv, Heard
    <3>4. term[v].tabs[i].fd \in DOMAIN epoll'
      BY <1>3, <3>1, <3>2, <3>3
    <3>5. QED  BY <1>3, <3>1, <3>3, <3>4
  <2>2. ASSUME NEW f \in DOMAIN epoll'
        PROVE  f # NoFd /\ \E v \in Windows : \E i \in DOMAIN term'[v].tabs : term'[v].tabs[i].fd = f
    <3>1. f \in DOMAIN epoll /\ f \notin F
      BY <1>3, <2>2
    <3>2. f # NoFd /\ \E v \in Windows : \E i \in DOMAIN term[v].tabs : term[v].tabs[i].fd = f
      BY <3>1 DEF TermInv, Heard
    <3>3. PICK v \in Windows : \E i \in DOMAIN term[v].tabs : term[v].tabs[i].fd = f
      BY <3>2
    <3>4. PICK i \in DOMAIN term[v].tabs : term[v].tabs[i].fd = f
      BY <3>3
    <3>5. CASE v # w
      BY <1>1, <3>2, <3>4, <3>5
    <3>6. CASE v = w
      <4>1. PICK j \in DOMAIN y.tabs : y.tabs[j] = term[w].tabs[i]
        BY <3>1, <3>2, <3>4, <3>6 DEF Dropped
      <4>2. QED  BY <1>1, <3>2, <3>4, <3>6, <4>1
    <3>7. QED  BY <3>5, <3>6
  <2>3. epoll' = [f \in DOMAIN epoll' |-> epoll'[f]]
    BY DEF Forgotten
  <2>4. QED  BY <2>1, <2>2, <2>3 DEF Heard
<1>6. Dead'
  <2>1. ASSUME NEW v \in Windows, NEW j \in DOMAIN term'[v].tabs, term'[v].tabs[j].exited
        PROVE  ~LivesAs(procs', term'[v].tabs[j])
    <3>1. PICK i \in DOMAIN term[v].tabs : term'[v].tabs[j] = term[v].tabs[i]
      BY <1>4, <2>1
    <3>2. ~LivesAs(procs, term[v].tabs[i])
      BY <2>1, <3>1 DEF TermInv, Dead
    <3>3. QED  BY <3>1, <3>2, ShrinkLives
  <2>2. QED  BY <2>1 DEF Dead
<1>7. QED  BY <1>1, <1>2, <1>5, <1>6 DEF TermInv, ProcsShrink

(* A terminal that was not yet attached has nothing. *)
LEMMA NoTerminalIs ==
  /\ NoTerminal \in TerminalOf({NoTerminal.closing}) /\ NoTerminal.state = "unborn"
  /\ NoTerminal.tabs = <<>> /\ NoTerminal.watched = {} /\ NoTerminal.active = 1
  /\ NoTerminal.pasting = FALSE
<1>1. <<>> \in Seq(Tab)
  OBVIOUS
<1>2. QED  BY <1>1 DEF NoTerminal, TerminalOf

(* Session::close_window(): nothing is left of the window. *)
LEMMA CloseWindowKept ==
  ASSUME TermInv, NEW w \in Windows, CloseWindow(w), shells' = shells
  PROVE  TermInv'
<1> DEFINE x == term[w]
           y == [NoTerminal EXCEPT !.state = "gone"]
           F == {e.fd : e \in x.watched} \cup {t.fd : t \in TabsOf(w)}
<1>1. /\ y \in TerminalOf({NoTerminal.closing})
      /\ y.tabs = <<>> /\ y.watched = {} /\ y.state = "gone"
  BY NoTerminalIs DEF TerminalOf
<1>2. Becomes(w, y)
  BY <1>1 DEF Becomes, CloseWindow
<1>3. Lined(y, shells) /\ Shown(y) /\ Pasted(y)
  BY <1>1 DEF Lined, Shown, Pasted
<1>4. ProcsShrink
  <2>1. procs' = Kill(procs, TabsOf(w) \cup ToSet(x.closing))
    BY DEF CloseWindow
  <2>2. QED  BY <2>1, KillShrinks DEF ProcsShrink, ProcsTyped, TermInv
<1>5. epoll' = Forgotten(epoll, F)
  BY DEF CloseWindow
<1>6. Dropped(x, y, F)
  <2>1. \A i \in DOMAIN x.tabs : x.tabs[i].fd \in F
    BY DEF TabsOf, ToSet
  <2>2. \A f \in F : \E i \in DOMAIN x.tabs : x.tabs[i].fd = f
    <3>1. \A e \in x.watched : \E i \in DOMAIN x.tabs : e.fd = x.tabs[i].fd
      BY DEF TermInv, Lined
    <3>2. \A t \in TabsOf(w) : \E i \in DOMAIN x.tabs : t = x.tabs[i]
      BY DEF TabsOf, ToSet
    <3>3. QED  BY <3>1, <3>2
  <2> HIDE DEF F, y
  <2>3. DOMAIN y.tabs = {}
    BY <1>1
  <2>4. QED  BY <2>1, <2>2, <2>3 DEF Dropped
<1> HIDE DEF F, y
<1>7. QED  BY <1>2, <1>3, <1>4, <1>5, <1>6, DropKept

-----------------------------------------------------------------------------
(* A window whose tabs stay *)

(* Nothing moves but what one looks at: the tab, the question, the line     *)
(* editor.  Whoever turns to another tab in the middle of a paste strays.   *)
Turned(x, y) ==
  /\ \E D : y \in TerminalOf(D)
  /\ y.tabs = x.tabs /\ y.watched = x.watched /\ y.state = x.state
  /\ y.pasting = x.pasting /\ y.paste_bracketed = x.paste_bracketed
  /\ x.strayed => y.strayed
  /\ \/ y.active = x.active
     \/ y.active \in DOMAIN x.tabs /\ (x.pasting => y.strayed)

(* commit_rename(), commit_path_edit(): the editor is left. *)
LEMMA CommittedIs ==
  ASSUME NEW C, NEW x \in TerminalOf(C)
  PROVE  /\ Committed(x) \in TerminalOf(C)
         /\ Committed(x).tabs = x.tabs /\ Committed(x).watched = x.watched
         /\ Committed(x).state = x.state /\ Committed(x).pasting = x.pasting
         /\ Committed(x).paste_bracketed = x.paste_bracketed
         /\ Committed(x).strayed = x.strayed /\ Committed(x).active = x.active
         /\ Committed(x).closing = x.closing
  BY DEF Committed, TerminalOf

(* Leaving in the middle of a paste is remembered. *)
LEMMA StrayIs ==
  ASSUME NEW C, NEW x \in TerminalOf(C)
  PROVE  /\ Stray(x) \in TerminalOf(C)
         /\ Stray(x).tabs = x.tabs /\ Stray(x).watched = x.watched
         /\ Stray(x).state = x.state /\ Stray(x).pasting = x.pasting
         /\ Stray(x).paste_bracketed = x.paste_bracketed
         /\ Stray(x).active = x.active /\ Stray(x).closing = x.closing
         /\ x.strayed => Stray(x).strayed
         /\ x.pasting => Stray(x).strayed
<1>1. (x.strayed \/ x.pasting) \in BOOLEAN
  OBVIOUS
<1>2. /\ Stray(x) \in TerminalOf(C)
      /\ Stray(x).tabs = x.tabs /\ Stray(x).watched = x.watched
      /\ Stray(x).state = x.state /\ Stray(x).pasting = x.pasting
      /\ Stray(x).paste_bracketed = x.paste_bracketed
      /\ Stray(x).active = x.active /\ Stray(x).closing = x.closing
  BY <1>1 DEF Stray, TerminalOf
<1>3. Stray(x).strayed = (x.strayed \/ x.pasting)
  BY DEF Stray, TerminalOf
<1>4. QED  BY <1>2, <1>3

(* The four fields a gesture sets by itself. *)
LEMMA FieldsSet ==
  ASSUME NEW C, NEW x \in TerminalOf(C)
  PROVE  /\ \A b \in BOOLEAN : Turned(x, [x EXCEPT !.asked = b])
         /\ Turned(x, [x EXCEPT !.mode = "Editing"])
         /\ \A i \in Nat : [x EXCEPT !.active = i] \in TerminalOf(C)
<1>1. ASSUME NEW b \in BOOLEAN PROVE Turned(x, [x EXCEPT !.asked = b])
  <2> DEFINE y == [x EXCEPT !.asked = b]
  <2>1. y \in TerminalOf(C)
    BY DEF TerminalOf
  <2>2. /\ y.tabs = x.tabs /\ y.watched = x.watched /\ y.state = x.state
        /\ y.pasting = x.pasting /\ y.paste_bracketed = x.paste_bracketed
        /\ y.strayed = x.strayed /\ y.active = x.active
    BY DEF TerminalOf
  <2> HIDE DEF y
  <2>3. x.strayed => y.strayed
    BY <2>2, Zenon
  <2>4. Turned(x, y)
    BY <2>1, <2>2, <2>3 DEF Turned
  <2>5. QED  BY <2>4 DEF y
<1>2. Turned(x, [x EXCEPT !.mode = "Editing"])
  <2> DEFINE y == [x EXCEPT !.mode = "Editing"]
  <2>1. y \in TerminalOf(C)
    BY DEF TerminalOf
  <2>2. /\ y.tabs = x.tabs /\ y.watched = x.watched /\ y.state = x.state
        /\ y.pasting = x.pasting /\ y.paste_bracketed = x.paste_bracketed
        /\ y.strayed = x.strayed /\ y.active = x.active
    BY DEF TerminalOf
  <2> HIDE DEF y
  <2>3. x.strayed => y.strayed
    BY <2>2, Zenon
  <2>4. Turned(x, y)
    BY <2>1, <2>2, <2>3 DEF Turned
  <2>5. QED  BY <2>4 DEF y
<1>3. \A i \in Nat : [x EXCEPT !.active = i] \in TerminalOf(C)
  BY DEF TerminalOf
<1>4. QED  BY <1>1, <1>2, <1>3

(* One turn after the other, the tab chosen last. *)
LEMMA TurnedOn ==
  ASSUME NEW x, NEW y, NEW z, Turned(x, y), Turned(y, z), y.active = x.active \/ z.active = y.active
  PROVE  Turned(x, z)
  BY DEF Turned

(* Whoever turns keeps the invariant. *)
LEMMA TurnedKept ==
  ASSUME TermInv, NEW w \in Windows, NEW y, Turned(term[w], y), term' = [term EXCEPT ![w] = y],
         UNCHANGED <<epoll, shells>>, ProcsShrink
  PROVE  TermInv'
<1> DEFINE x == term[w]
<1>1. Becomes(w, y)
  BY DEF Becomes, Turned
<1>2. SameLines(x, y) /\ y.watched = x.watched
  BY DEF Turned, SameLines, SameLine
<1>3. TrueDeaths(x, y)
  BY DEF Turned, TrueDeaths
<1>4. Shown(x) /\ Pasted(x)
  BY WindowIs
<1>5. Shown(y)
  BY <1>4 DEF Shown, Turned
<1>6. Pasted(y)
  <2>1. SUFFICES ASSUME y.state = "open", ~y.strayed, NEW i \in DOMAIN y.tabs
                 PROVE  y.tabs[i].brackets = IF i = y.active /\ y.pasting /\ y.paste_bracketed
                                             THEN "open" ELSE "closed"
    BY DEF Pasted
  <2>2. x.tabs[i].brackets = IF i = x.active /\ x.pasting /\ x.paste_bracketed
                             THEN "open" ELSE "closed"
    BY <1>4, <2>1 DEF Pasted, Turned
  <2>3. y.active = x.active \/ ~y.pasting
    BY <2>1 DEF Turned
  <2>4. QED  BY <2>2, <2>3 DEF Turned
<1>7. QED  BY <1>1, <1>2, <1>3, <1>5, <1>6, AlikeKept

-----------------------------------------------------------------------------
(* The gestures *)

(* watch(): a tab and its descriptor are added. *)
LEMMA WatchIs ==
  ASSUME TermInv, shells < MaxShells, NEW C, NEW x \in TerminalOf(C), NEW p \in Pids
  PROVE  /\ Watch(x, p) \in TerminalOf(C) /\ NewTab(p) \in Tab /\ NewTab(p).brackets = "closed"
         /\ Watch(x, p).tabs = Append(x.tabs, NewTab(p))
         /\ Watch(x, p).watched = x.watched \cup {[gen |-> shells + 1, fd |-> FreeFd]}
         /\ Watch(x, p).state = x.state /\ Watch(x, p).pasting = x.pasting
         /\ Watch(x, p).paste_bracketed = x.paste_bracketed
         /\ Watch(x, p).strayed = x.strayed /\ Watch(x, p).active = x.active
<1> DEFINE t == NewTab(p)
           e == [gen |-> shells + 1, fd |-> FreeFd]
           ts == Append(x.tabs, t)
           es == x.watched \cup {e}
<1>1. FreeFd \in Nat /\ shells + 1 \in Nat /\ p \in Nat
  BY FreeFdIs, TerminalAssumption DEF TermInv
<1>2. t \in Tab /\ t.brackets = "closed"
  BY <1>1 DEF NewTab, NoTab, Tab
<1>3. e \in [gen : Nat, fd : Nat]
  BY <1>1
<1>4. x.tabs \in Seq(Tab) /\ x.watched \in SUBSET [gen : Nat, fd : Nat]
  BY DEF TerminalOf
<1> HIDE DEF t, e
<1>5. ts \in Seq(Tab) /\ es \in SUBSET [gen : Nat, fd : Nat]
  BY <1>2, <1>3, <1>4
<1>6. Watch(x, p) = [x EXCEPT !.tabs = ts, !.watched = es]
  BY DEF Watch, t, e
<1> HIDE DEF ts, es
<1>7. /\ [x EXCEPT !.tabs = ts, !.watched = es] \in TerminalOf(C)
      /\ [x EXCEPT !.tabs = ts, !.watched = es].tabs = ts
      /\ [x EXCEPT !.tabs = ts, !.watched = es].watched = es
  BY <1>5 DEF TerminalOf
<1>8. /\ Watch(x, p).state = x.state /\ Watch(x, p).pasting = x.pasting
      /\ Watch(x, p).paste_bracketed = x.paste_bracketed
      /\ Watch(x, p).strayed = x.strayed /\ Watch(x, p).active = x.active
  BY <1>6 DEF TerminalOf
<1>9. QED  BY <1>2, <1>6, <1>7, <1>8 DEF t, ts, es, e

(* A window that is not open has no tab and watches nothing. *)
LEMMA ClosedHasNone ==
  ASSUME TermInv, NEW w \in Windows, ~Open(w)
  PROVE  term[w].tabs = <<>> /\ term[w].watched = {}
<1>1. term[w].tabs = <<>> /\ DOMAIN term[w].tabs = {}
  BY WindowIs DEF Shown, Open
<1>2. QED  BY <1>1 DEF TermInv, Lined

(* attach() with a shell. *)
LEMMA AttachKept ==
  ASSUME TermInv, NEW w \in Windows, term[w].state = "unborn", NEW p \in Pids, Spawned(w, p),
         term' = [term EXCEPT ![w] = Watch([NoTerminal EXCEPT !.state = "open"], p)]
  PROVE  TermInv'
<1> DEFINE C == {NoTerminal.closing}
           x == [NoTerminal EXCEPT !.state = "open"]
           y == Watch(x, p)
<1>1. x \in TerminalOf(C) /\ x.tabs = <<>> /\ x.watched = {} /\ x.state = "open"
      /\ x.active = 1 /\ x.pasting = FALSE
  BY NoTerminalIs DEF TerminalOf
<1>2. term[w].tabs = <<>> /\ term[w].watched = {}
  BY ClosedHasNone DEF Open
<1>3. shells < MaxShells
  BY DEF Spawned
<1> HIDE DEF C, x
<1>4. /\ y \in TerminalOf(C) /\ NewTab(p) \in Tab /\ NewTab(p).brackets = "closed"
      /\ y.tabs = Append(x.tabs, NewTab(p))
      /\ y.watched = x.watched \cup {[gen |-> shells + 1, fd |-> FreeFd]}
      /\ y.state = "open" /\ y.pasting = FALSE /\ y.active = 1
  BY <1>1, <1>3, WatchIs
<1>5. Becomes(w, y)
  BY <1>4 DEF Becomes, x
<1> HIDE DEF y
<1>6. DOMAIN y.tabs = {1} /\ y.tabs[1] = NewTab(p)
  <2>1. <<>> \in Seq(Tab) /\ Len(<<>>) = 0
    OBVIOUS
  <2>2. DOMAIN Append(<<>>, NewTab(p)) = {1} /\ Append(<<>>, NewTab(p))[1] = NewTab(p)
    BY <1>4, <2>1
  <2>3. QED  BY <1>1, <1>4, <2>2
<1>7. Shown(y)
  BY <1>4, <1>6 DEF Shown
<1>8. Pasted(y)
  BY <1>4, <1>6 DEF Pasted
<1>9. y.tabs = Append(term[w].tabs, NewTab(p))
      /\ y.watched = term[w].watched \cup {[gen |-> shells + 1, fd |-> FreeFd]}
  BY <1>1, <1>2, <1>4
<1>10. QED  BY <1>5, <1>7, <1>8, <1>9, SpawnKept

(* attach() without one: a tab that has nothing. *)
LEMMA AttachNothingKept ==
  ASSUME TermInv, NEW w \in Windows, term[w].state = "unborn",
         term' = [term EXCEPT ![w] = [[NoTerminal EXCEPT !.state = "open"] EXCEPT !.tabs = <<NoTab>>]],
         UNCHANGED <<procs, epoll, children, shells>>
  PROVE  TermInv'
<1> DEFINE C == {NoTerminal.closing}
           x == [NoTerminal EXCEPT !.state = "open"]
           y == [x EXCEPT !.tabs = <<NoTab>>]
<1>1. x \in TerminalOf(C) /\ x.watched = {} /\ x.state = "open" /\ x.active = 1 /\ x.pasting = FALSE
  BY NoTerminalIs DEF TerminalOf
<1>2. NoTab \in Tab /\ NoTab.fd = NoFd /\ NoTab.serial = 0 /\ NoTab.exited = FALSE
      /\ NoTab.brackets = "closed"
  BY DEF NoTab, Tab, NoFd
<1>3. <<NoTab>> \in Seq(Tab) /\ DOMAIN <<NoTab>> = {1} /\ <<NoTab>>[1] = NoTab
  BY <1>2
<1> HIDE DEF x, C
<1>4. /\ y \in TerminalOf(C) /\ y.tabs = <<NoTab>> /\ y.watched = {} /\ y.state = "open"
      /\ y.active = 1 /\ y.pasting = FALSE
  BY <1>1, <1>3 DEF TerminalOf
<1>5. Becomes(w, y)
  BY <1>4 DEF Becomes, x
<1> HIDE DEF y
<1>6. DOMAIN y.tabs = {1} /\ y.tabs[1] = NoTab
  BY <1>3, <1>4
<1>7. shells \in Nat
  BY DEF TermInv
<1>8. Lined(y, shells)
  BY <1>2, <1>4, <1>6, <1>7 DEF Lined, NoFd
<1>9. Shown(y) /\ Pasted(y)
  BY <1>2, <1>4, <1>6 DEF Shown, Pasted
<1>10. /\ WindowsTyped' /\ term'[w] = y
       /\ \A v \in Windows : v # w => term'[v] = term[v]
  BY <1>5, BecomesIs DEF TermInv
<1>11. \A v \in Windows : Lined(term'[v], shells') /\ Shown(term'[v]) /\ Pasted(term'[v])
  BY <1>8, <1>9, <1>10 DEF TermInv
<1>12. term[w].tabs = <<>>
  BY ClosedHasNone DEF Open
<1>13. Heard'
  <2>1. ASSUME NEW v \in Windows, NEW i \in DOMAIN term'[v].tabs, term'[v].tabs[i].fd # NoFd
        PROVE  /\ term'[v].tabs[i].fd \in DOMAIN epoll'
               /\ epoll'[term'[v].tabs[i].fd] = [win |-> v, gen |-> term'[v].tabs[i].serial]
    <3>1. v # w
      BY <1>2, <1>6, <1>10, <2>1
    <3>2. term'[v] = term[v]
      BY <1>10, <3>1
    <3>3. i \in DOMAIN term[v].tabs /\ term[v].tabs[i].fd # NoFd
      BY <2>1, <3>2
    <3>4. /\ term[v].tabs[i].fd \in DOMAIN epoll
          /\ epoll[term[v].tabs[i].fd] = [win |-> v, gen |-> term[v].tabs[i].serial]
      BY <3>3 DEF TermInv, Heard
    <3>5. QED  BY <3>2, <3>4
  <2>2. ASSUME NEW f \in DOMAIN epoll'
        PROVE  f # NoFd /\ \E v \in Windows : \E i \in DOMAIN term'[v].tabs : term'[v].tabs[i].fd = f
    <3>1. f # NoFd /\ \E v \in Windows : \E i \in DOMAIN term[v].tabs : term[v].tabs[i].fd = f
      BY <2>2 DEF TermInv, Heard
    <3>2. PICK v \in Windows : \E i \in DOMAIN term[v].tabs : term[v].tabs[i].fd = f
      BY <3>1
    <3>3. v # w
      BY <1>12, <3>2
    <3>4. term'[v] = term[v]
      BY <1>10, <3>3
    <3>5. QED  BY <3>1, <3>2, <3>4
  <2>3. epoll' = [f \in DOMAIN epoll' |-> epoll'[f]]
    BY DEF TermInv, Heard
  <2>4. QED  BY <2>1, <2>2, <2>3 DEF Heard
<1>14. Dead'
  <2>1. ASSUME NEW v \in Windows, NEW i \in DOMAIN term'[v].tabs, term'[v].tabs[i].exited
        PROVE  ~LivesAs(procs', term'[v].tabs[i])
    <3>1. v # w
      BY <1>2, <1>6, <1>10, <2>1
    <3>2. term'[v] = term[v] /\ procs' = procs
      BY <1>10, <3>1
    <3>3. QED  BY <2>1, <3>2 DEF TermInv, Dead
  <2>2. QED  BY <2>1 DEF Dead
<1>15. ProcsTyped'
  BY DEF TermInv, ProcsTyped
<1>16. QED  BY <1>7, <1>10, <1>11, <1>13, <1>14, <1>15 DEF TermInv

(* The tab one looks at is another one. *)
LEMMA ActiveIs ==
  ASSUME NEW C, NEW x \in TerminalOf(C), NEW i \in Nat
  PROVE  /\ [x EXCEPT !.active = i] \in TerminalOf(C)
         /\ [x EXCEPT !.active = i].tabs = x.tabs /\ [x EXCEPT !.active = i].watched = x.watched
         /\ [x EXCEPT !.active = i].state = x.state /\ [x EXCEPT !.active = i].pasting = x.pasting
         /\ [x EXCEPT !.active = i].paste_bracketed = x.paste_bracketed
         /\ [x EXCEPT !.active = i].active = i /\ [x EXCEPT !.active = i].strayed = x.strayed
  BY DEF TerminalOf

(* open_tab() *)
LEMMA OpenTabKept ==
  ASSUME TermInv, NEW w \in Windows, OpenTab(w)
  PROVE  TermInv'
<1> DEFINE x == term[w]
           n == Len(x.tabs)
<1>1. PICK p \in Pids :
        /\ Spawned(w, p)
        /\ term' = [term EXCEPT ![w] = [Stray(Committed(Watch(x, p))) EXCEPT !.active = n + 1]]
  BY DEF OpenTab
<1> DEFINE a == Watch(x, p)
           b == Committed(a)
           c == Stray(b)
<1>2. PICK C : x \in TerminalOf(C)
  BY WindowIs
<1>3. /\ x.tabs \in Seq(Tab) /\ DOMAIN x.tabs = 1..n /\ n \in Nat /\ Shown(x) /\ Pasted(x)
      /\ x.state = "open" /\ shells < MaxShells
  BY <1>1, WindowIs DEF OpenTab, Open, Spawned
<1> HIDE DEF x
<1>4. /\ a \in TerminalOf(C) /\ NewTab(p) \in Tab /\ NewTab(p).brackets = "closed"
      /\ a.tabs = Append(x.tabs, NewTab(p))
      /\ a.watched = x.watched \cup {[gen |-> shells + 1, fd |-> FreeFd]}
      /\ a.state = x.state /\ a.pasting = x.pasting
      /\ a.paste_bracketed = x.paste_bracketed /\ a.strayed = x.strayed
  BY <1>1, <1>2, <1>3, WatchIs
<1> HIDE DEF a
<1>5. /\ b \in TerminalOf(C) /\ b.tabs = a.tabs /\ b.watched = a.watched
      /\ b.state = a.state /\ b.pasting = a.pasting /\ b.paste_bracketed = a.paste_bracketed
      /\ b.strayed = a.strayed
  BY <1>4, CommittedIs
<1> HIDE DEF b
<1>6. /\ c \in TerminalOf(C) /\ c.tabs = b.tabs /\ c.watched = b.watched
      /\ c.state = b.state /\ c.pasting = b.pasting /\ c.paste_bracketed = b.paste_bracketed
      /\ (b.strayed => c.strayed) /\ (b.pasting => c.strayed)
  BY <1>5, StrayIs
<1> HIDE DEF c
<1>7. PICK k \in Nat : k = n + 1
  BY <1>3
<1> DEFINE y == [c EXCEPT !.active = k]
<1>8. /\ y \in TerminalOf(C) /\ y.tabs = c.tabs /\ y.watched = c.watched
      /\ y.state = c.state /\ y.pasting = c.pasting /\ y.paste_bracketed = c.paste_bracketed
      /\ y.strayed = c.strayed /\ y.active = n + 1
  BY <1>6, <1>7, ActiveIs, ZenonT(40)
<1>9. Becomes(w, y)
  BY <1>1, <1>8, <1>7 DEF Becomes, a, b, c
<1> HIDE DEF y
<1>10. /\ y.tabs = Append(x.tabs, NewTab(p)) /\ y.state = "open"
      /\ y.watched = x.watched \cup {[gen |-> shells + 1, fd |-> FreeFd]}
  BY <1>3, <1>4, <1>5, <1>6, <1>8
<1>11. ~y.strayed => ~x.strayed /\ ~x.pasting /\ ~y.pasting
  BY <1>4, <1>5, <1>6, <1>8
<1>12. /\ DOMAIN y.tabs = 1..(n + 1) /\ y.tabs[n + 1] = NewTab(p)
       /\ \A i \in 1..n : y.tabs[i] = x.tabs[i]
  BY <1>3, <1>4, <1>10
<1>13. Shown(y)
  <2>1. n + 1 \in 1..(n + 1)
    BY <1>3
  <2>2. y.active \in DOMAIN y.tabs
    BY <1>8, <1>12, <2>1
  <2>3. QED  BY <1>10, <2>2 DEF Shown
<1>14. Pasted(y)
  <2>1. SUFFICES ASSUME ~y.strayed, NEW i \in DOMAIN y.tabs
                 PROVE  y.tabs[i].brackets = "closed"
    BY <1>11 DEF Pasted
  <2>2. CASE i = n + 1
    BY <1>4, <1>12, <2>2
  <2>3. CASE i \in 1..n
    BY <1>3, <1>11, <1>12, <2>1, <2>3 DEF Pasted
  <2>4. QED  BY <1>3, <1>12, <2>2, <2>3
<1>15. QED  BY <1>1, <1>9, <1>10, <1>13, <1>14, SpawnKept DEF x

(* select_tab() and cycle_tab() *)
LEMMA SelectTabKept ==
  ASSUME TermInv, NEW w \in Windows, SelectTab(w)
  PROVE  TermInv'
<1> DEFINE x == term[w]
           a == Committed(x)
           b == Stray(a)
<1>1. PICK i \in 1..Len(x.tabs) \ {x.active} : term' = [term EXCEPT ![w] = [b EXCEPT !.active = i]]
  BY DEF SelectTab
<1> DEFINE y == [b EXCEPT !.active = i]
<1>2. PICK C : x \in TerminalOf(C)
  BY WindowIs
<1>3. DOMAIN x.tabs = 1..Len(x.tabs) /\ Len(x.tabs) \in Nat /\ i \in Nat
  BY <1>1, WindowIs
<1>4. UNCHANGED <<procs, epoll, children, shells>>
  BY DEF SelectTab
<1> HIDE DEF x
<1>5. /\ a \in TerminalOf(C) /\ a.tabs = x.tabs /\ a.watched = x.watched
      /\ a.state = x.state /\ a.pasting = x.pasting /\ a.paste_bracketed = x.paste_bracketed
      /\ a.strayed = x.strayed
  BY <1>2, CommittedIs
<1> HIDE DEF a
<1>6. /\ b \in TerminalOf(C) /\ b.tabs = a.tabs /\ b.watched = a.watched
      /\ b.state = a.state /\ b.pasting = a.pasting /\ b.paste_bracketed = a.paste_bracketed
      /\ (a.strayed => b.strayed) /\ (a.pasting => b.strayed)
  BY <1>5, StrayIs
<1> HIDE DEF b
<1>7. /\ y \in TerminalOf(C) /\ y.tabs = b.tabs /\ y.watched = b.watched
      /\ y.state = b.state /\ y.pasting = b.pasting /\ y.paste_bracketed = b.paste_bracketed
      /\ y.strayed = b.strayed /\ y.active = i
  BY <1>3, <1>6, ActiveIs
<1>8. term' = [term EXCEPT ![w] = y]
  BY <1>1
<1> HIDE DEF y
<1>9. (x.strayed => y.strayed) /\ (x.pasting => y.strayed)
  BY <1>5, <1>6, <1>7
<1>10. Turned(x, y)
  BY <1>1, <1>3, <1>5, <1>6, <1>7, <1>9 DEF Turned
<1>11. QED  BY <1>4, <1>8, <1>10, SameShrinks, TurnedKept DEF x

(* Committing and straying are turns. *)
LEMMA SmallTurns ==
  ASSUME NEW C, NEW x \in TerminalOf(C)
  PROVE  /\ Turned(x, Committed(x)) /\ Committed(x).active = x.active
         /\ Turned(x, Stray(x)) /\ Stray(x).active = x.active
<1>1. Turned(x, Committed(x)) /\ Committed(x).active = x.active
  <2> DEFINE y == Committed(x)
  <2>1. /\ y \in TerminalOf(C) /\ y.tabs = x.tabs /\ y.watched = x.watched /\ y.state = x.state
        /\ y.pasting = x.pasting /\ y.paste_bracketed = x.paste_bracketed
        /\ y.strayed = x.strayed /\ y.active = x.active
    BY CommittedIs
  <2> HIDE DEF y
  <2>2. x.strayed => y.strayed
    BY <2>1, Zenon
  <2>3. Turned(x, y) /\ y.active = x.active
    BY <2>1, <2>2 DEF Turned
  <2>4. QED  BY <2>3 DEF y
<1>2. Turned(x, Stray(x)) /\ Stray(x).active = x.active
  <2> DEFINE y == Stray(x)
  <2>1. /\ y \in TerminalOf(C) /\ y.tabs = x.tabs /\ y.watched = x.watched /\ y.state = x.state
        /\ y.pasting = x.pasting /\ y.paste_bracketed = x.paste_bracketed
        /\ (x.strayed => y.strayed) /\ y.active = x.active
    BY StrayIs
  <2> HIDE DEF y
  <2>2. Turned(x, y) /\ y.active = x.active
    BY <2>1 DEF Turned
  <2>3. QED  BY <2>2 DEF y
<1>3. QED  BY <1>1, <1>2

(* Session::request_close(): the window closes, or its question is shown.   *)
LEMMA RequestCloseKept ==
  ASSUME TermInv, NEW w \in Windows, NEW z, Turned(term[w], z), z.active = term[w].active,
         RequestClose(w, z), shells' = shells
  PROVE  TermInv'
<1>1. CASE CanClose(w)
  BY <1>1, CloseWindowKept DEF RequestClose
<1>2. CASE ~CanClose(w)
  <2> DEFINE y == [z EXCEPT !.asked = TRUE]
  <2>1. term' = [term EXCEPT ![w] = y] /\ UNCHANGED <<epoll, procs>>
    BY <1>2 DEF RequestClose
  <2>2. PICK D : z \in TerminalOf(D)
    BY DEF Turned
  <2>3. Turned(z, y) /\ TRUE \in BOOLEAN
    BY <2>2, FieldsSet
  <2> HIDE DEF y
  <2>4. Turned(term[w], y)
    BY <2>3, TurnedOn
  <2>5. QED  BY <2>1, <2>4, SameShrinks, TurnedKept
<1>3. QED  BY <1>1, <1>2

(* begin_rename(), begin_path_edit(), and their end. *)
LEMMA EditKept ==
  ASSUME TermInv, NEW w \in Windows, Edit(w)
  PROVE  TermInv'
<1> DEFINE x == term[w]
<1>1. PICK C : x \in TerminalOf(C)
  BY WindowIs
<1>2. UNCHANGED <<procs, epoll, children, shells>>
  BY DEF Edit
<1>3. CASE term' = [term EXCEPT ![w] = Committed(x)]
  BY <1>1, <1>2, <1>3, SmallTurns, SameShrinks, TurnedKept
<1>4. CASE term' = [term EXCEPT ![w] = [Stray(x) EXCEPT !.mode = "Editing"]]
  <2> DEFINE a == Stray(x)
             y == [a EXCEPT !.mode = "Editing"]
  <2>1. a \in TerminalOf(C) /\ Turned(x, a) /\ a.active = x.active
    BY <1>1, StrayIs, SmallTurns
  <2>2. term' = [term EXCEPT ![w] = y]
    BY <1>4
  <2> HIDE DEF a
  <2>3. Turned(a, y)
    BY <2>1, FieldsSet
  <2> HIDE DEF y
  <2>4. Turned(x, y)
    BY <2>1, <2>3, TurnedOn
  <2>5. QED  BY <1>2, <2>2, <2>4, SameShrinks, TurnedKept
<1>5. QED  BY <1>3, <1>4 DEF Edit

(* A key once the shell has exited, the cross, and the answer. *)
LEMMA ClosingKept ==
  ASSUME TermInv, NEW w \in Windows, Dismiss(w) \/ CloseAsked(w) \/ Answer(w)
  PROVE  TermInv'
<1> DEFINE x == term[w]
<1>1. PICK C : x \in TerminalOf(C)
  BY WindowIs
<1>2. CASE Dismiss(w)
  <2>1. RequestClose(w, Committed(x)) /\ shells' = shells
    BY <1>2 DEF Dismiss
  <2>2. Turned(x, Committed(x)) /\ Committed(x).active = x.active
    BY <1>1, SmallTurns
  <2>3. QED  BY <2>1, <2>2, RequestCloseKept
<1>3. CASE CloseAsked(w)
  <2>1. RequestClose(w, x) /\ shells' = shells
    BY <1>3 DEF CloseAsked
  <2>2. Turned(x, x) /\ x.active = x.active
    BY <1>1 DEF Turned
  <2>3. QED  BY <2>1, <2>2, RequestCloseKept
<1>4. CASE Answer(w)
  <2>1. CASE CloseWindow(w)
    BY <1>4, <2>1, CloseWindowKept DEF Answer
  <2>2. CASE term' = [term EXCEPT ![w].asked = FALSE] /\ UNCHANGED <<epoll, children, procs>>
    <3> DEFINE y == [x EXCEPT !.asked = FALSE]
    <3>1. term' = [term EXCEPT ![w] = y] /\ shells' = shells
      BY <1>4, <2>2 DEF Answer
    <3>2. Turned(x, y)
      BY <1>1, FieldsSet
    <3> HIDE DEF y
    <3>3. QED  BY <2>2, <3>1, <3>2, SameShrinks, TurnedKept
  <2>3. QED  BY <1>4, <2>1, <2>2 DEF Answer
<1>5. QED  BY <1>2, <1>3, <1>4

(* Where the tab at j was before the one at i was erased. *)
Past(i, j) == IF j < i THEN j ELSE j + 1

(* Every tab but the erased one is still there, once. *)
LEMMA PastIs ==
  ASSUME NEW n \in Nat, NEW i \in 1..n
  PROVE  /\ \A j \in 1..(n - 1) : Past(i, j) \in 1..n /\ Past(i, j) # i
         /\ \A j, l \in 1..(n - 1) : Past(i, j) = Past(i, l) => j = l
         /\ \A k \in 1..n : k # i => \E j \in 1..(n - 1) : Past(i, j) = k
<1>1. ASSUME NEW k \in 1..n, k # i PROVE \E j \in 1..(n - 1) : Past(i, j) = k
  <2>1. CASE k < i
    <3>1. k \in 1..(n - 1) /\ Past(i, k) = k
      BY <2>1 DEF Past
    <3>2. QED  BY <3>1
  <2>2. CASE k > i
    <3>1. k - 1 \in 1..(n - 1) /\ Past(i, k - 1) = k
      BY <2>2 DEF Past
    <3>2. QED  BY <3>1
  <2>3. QED  BY <1>1, <2>1, <2>2
<1>2. \A j \in 1..(n - 1) : Past(i, j) \in 1..n /\ Past(i, j) # i
  BY DEF Past
<1>3. \A j, l \in 1..(n - 1) : Past(i, j) = Past(i, l) => j = l
  BY DEF Past
<1>4. QED  BY <1>1, <1>2, <1>3

(* The tab at i leaves the bar and the list of the descriptors: the rest    *)
(* is still in order.                                                       *)
Without(x, i, y) ==
  /\ DOMAIN y.tabs = 1..(Len(x.tabs) - 1)
  /\ \A j \in 1..(Len(x.tabs) - 1) : y.tabs[j] = x.tabs[Past(i, j)]
  /\ y.watched = {e \in x.watched : e.gen # x.tabs[i].serial}

(* unwatch() takes the one entry that is the tab's. *)
LEMMA WithoutLined ==
  ASSUME NEW x, NEW m, NEW n \in Nat, DOMAIN x.tabs = 1..n, n = Len(x.tabs), Lined(x, m),
         NEW i \in 1..n, NEW y, Without(x, i, y)
  PROVE  Lined(y, m)
<1>1. /\ \A j \in 1..(n - 1) : Past(i, j) \in 1..n /\ Past(i, j) # i
      /\ \A j, l \in 1..(n - 1) : Past(i, j) = Past(i, l) => j = l
      /\ \A k \in 1..n : k # i => \E j \in 1..(n - 1) : Past(i, j) = k
  BY PastIs
<1>2. /\ DOMAIN y.tabs = 1..(n - 1)
      /\ \A j \in DOMAIN y.tabs : y.tabs[j] = x.tabs[Past(i, j)]
      /\ \A e : e \in y.watched <=> e \in x.watched /\ e.gen # x.tabs[i].serial
  BY DEF Without
<1>3. \A j \in DOMAIN y.tabs :
        /\ y.tabs[j].fd <= m /\ y.tabs[j].serial <= m
        /\ y.tabs[j].fd = NoFd <=> y.tabs[j].serial = 0
  <2>1. ASSUME NEW j \in DOMAIN y.tabs
        PROVE  /\ y.tabs[j].fd <= m /\ y.tabs[j].serial <= m
               /\ y.tabs[j].fd = NoFd <=> y.tabs[j].serial = 0
    <3>1. PICK k \in DOMAIN x.tabs : k = Past(i, j)
      BY <1>1, <1>2, <2>1
    <3>2. y.tabs[j] = x.tabs[k]
      BY <1>2, <2>1, <3>1
    <3>3. /\ x.tabs[k].fd <= m /\ x.tabs[k].serial <= m
          /\ x.tabs[k].fd = NoFd <=> x.tabs[k].serial = 0
      BY <3>1 DEF Lined
    <3>4. QED  BY <3>2, <3>3
  <2>2. QED  BY <2>1
<1>4. \A j, l \in DOMAIN y.tabs :
        y.tabs[j].serial = y.tabs[l].serial /\ y.tabs[j].serial # 0 => j = l
  <2>1. ASSUME NEW j \in 1..(n - 1), NEW l \in 1..(n - 1),
               y.tabs[j].serial = y.tabs[l].serial, y.tabs[j].serial # 0
        PROVE  j = l
    <3>1. Past(i, j) \in DOMAIN x.tabs /\ Past(i, l) \in DOMAIN x.tabs
      BY <1>1
    <3>2. Past(i, j) = Past(i, l)
      <4>1. y.tabs[j] = x.tabs[Past(i, j)] /\ y.tabs[l] = x.tabs[Past(i, l)]
        BY <1>2, <2>1
      <4>2. /\ x.tabs[Past(i, j)].serial = x.tabs[Past(i, l)].serial
            /\ x.tabs[Past(i, j)].serial # 0
        BY <2>1, <4>1
      <4>3. QED  BY <3>1, <4>2 DEF Lined
    <3>3. QED  BY <1>1, <3>2
  <2>2. QED  BY <1>2, <2>1
<1>5. ASSUME NEW e \in y.watched
      PROVE  \E j \in DOMAIN y.tabs :
               y.tabs[j].fd # NoFd /\ e.fd = y.tabs[j].fd /\ e.gen = y.tabs[j].serial
  <2>1. e \in x.watched /\ e.gen # x.tabs[i].serial
    BY <1>2, <1>5
  <2>2. PICK k \in DOMAIN x.tabs :
          x.tabs[k].fd # NoFd /\ e.fd = x.tabs[k].fd /\ e.gen = x.tabs[k].serial
    BY <2>1 DEF Lined
  <2>3. PICK j \in 1..(n - 1) : Past(i, j) = k
    BY <1>1, <2>1, <2>2
  <2>4. QED  BY <1>2, <2>2, <2>3
<1>6. ASSUME NEW j \in DOMAIN y.tabs, y.tabs[j].fd # NoFd
      PROVE  \E e \in y.watched : e.fd = y.tabs[j].fd /\ e.gen = y.tabs[j].serial
  <2>1. y.tabs[j] = x.tabs[Past(i, j)] /\ Past(i, j) \in DOMAIN x.tabs /\ Past(i, j) # i
        /\ i \in DOMAIN x.tabs
    BY <1>1, <1>2, <1>6
  <2>2. PICK e \in x.watched : e.fd = y.tabs[j].fd /\ e.gen = y.tabs[j].serial
    BY <1>6, <2>1 DEF Lined
  <2>3. y.tabs[j].serial # 0
    BY <1>3, <1>6
  <2>4. y.tabs[j].serial # x.tabs[i].serial
    BY <2>1, <2>3 DEF Lined
  <2>5. e \in y.watched
    BY <1>2, <2>2, <2>4
  <2>6. QED  BY <2>2, <2>5
<1>7. QED  BY <1>3, <1>4, <1>5, <1>6 DEF Lined

(* The descriptor of the closed tab is its own. *)
LEMMA WithoutDropped ==
  ASSUME TermInv, NEW w \in Windows, NEW i \in DOMAIN term[w].tabs, NEW y,
         Without(term[w], i, y)
  PROVE  Dropped(term[w], y, {term[w].tabs[i].fd})
<1> DEFINE x == term[w]
           n == Len(x.tabs)
<1>1. DOMAIN x.tabs = 1..n /\ n \in Nat
  BY WindowIs
<1>2. /\ \A j \in 1..(n - 1) : Past(i, j) \in 1..n /\ Past(i, j) # i
      /\ \A k \in 1..n : k # i => \E j \in 1..(n - 1) : Past(i, j) = k
  BY <1>1, PastIs
<1>3. /\ DOMAIN y.tabs = 1..(n - 1)
      /\ \A j \in DOMAIN y.tabs : y.tabs[j] = x.tabs[Past(i, j)]
  BY DEF Without
<1>4. ASSUME NEW j \in DOMAIN y.tabs
      PROVE  \E k \in DOMAIN x.tabs :
               y.tabs[j] = x.tabs[k] /\ (x.tabs[k].fd # NoFd => x.tabs[k].fd \notin {x.tabs[i].fd})
  <2>1. PICK k \in DOMAIN x.tabs : k = Past(i, j) /\ k # i
    BY <1>1, <1>2, <1>3, <1>4
  <2>2. y.tabs[j] = x.tabs[k]
    BY <1>3, <1>4, <2>1
  <2>3. x.tabs[k].fd # NoFd => x.tabs[k].fd # x.tabs[i].fd
    BY <2>1, FdOfOne
  <2>4. QED  BY <2>2, <2>3
<1>5. ASSUME NEW k \in DOMAIN x.tabs
      PROVE  \/ x.tabs[k].fd \in {x.tabs[i].fd} \cup {NoFd}
             \/ \E j \in DOMAIN y.tabs : y.tabs[j] = x.tabs[k]
  <2>1. CASE k = i
    BY <2>1
  <2>2. CASE k # i
    <3>1. PICK j \in 1..(n - 1) : Past(i, j) = k
      BY <1>1, <1>2, <1>5, <2>2
    <3>2. QED  BY <1>3, <3>1
  <2>3. QED  BY <2>1, <2>2
<1>6. \A f \in {x.tabs[i].fd} : f = NoFd \/ \E k \in DOMAIN x.tabs : x.tabs[k].fd = f
  OBVIOUS
<1>7. QED  BY <1>4, <1>5, <1>6 DEF Dropped

(* HostImpl::unwatch() *)
LEMMA UnwatchIs ==
  ASSUME NEW C, NEW x \in TerminalOf(C), NEW g
  PROVE  /\ Unwatch(x, g) \in TerminalOf(C)
         /\ Unwatch(x, g).watched = {e \in x.watched : e.gen # g}
         /\ Unwatch(x, g).tabs = x.tabs /\ Unwatch(x, g).state = x.state
         /\ Unwatch(x, g).active = x.active /\ Unwatch(x, g).pasting = x.pasting
         /\ Unwatch(x, g).strayed = x.strayed
<1> DEFINE W == {e \in x.watched : e.gen # g}
<1>1. W \in SUBSET [gen : Nat, fd : Nat]
  BY DEF TerminalOf
<1>2. Unwatch(x, g) = [x EXCEPT !.watched = W]
  BY DEF Unwatch
<1> HIDE DEF W
<1>3. /\ [x EXCEPT !.watched = W] \in TerminalOf(C) /\ [x EXCEPT !.watched = W].watched = W
  BY <1>1 DEF TerminalOf
<1>4. /\ Unwatch(x, g).tabs = x.tabs /\ Unwatch(x, g).state = x.state
      /\ Unwatch(x, g).active = x.active /\ Unwatch(x, g).pasting = x.pasting
      /\ Unwatch(x, g).strayed = x.strayed
  BY <1>2 DEF TerminalOf
<1>5. QED  BY <1>2, <1>3, <1>4 DEF W

(* x with the tabs ts and the active one k. *)
Rebar(C, x, ts, k, y) ==
  /\ y \in TerminalOf(C) /\ y.tabs = ts /\ y.active = k
  /\ y.watched = x.watched /\ y.state = x.state
  /\ y.pasting = x.pasting /\ y.strayed = x.strayed

(* The tab leaves the bar, the active one stays on it. *)
LEMMA TabErased ==
  ASSUME NEW C, NEW x \in TerminalOf(C), NEW ts \in Seq(Tab), NEW k \in Nat
  PROVE  Rebar(C, x, ts, k, [x EXCEPT !.tabs = ts, !.active = k])
<1> DEFINE y == [x EXCEPT !.tabs = ts, !.active = k]
<1>1. y \in TerminalOf(C)
  BY DEF TerminalOf
<1>2. y.tabs = ts /\ y.active = k
  BY DEF TerminalOf
<1>3. /\ y.watched = x.watched /\ y.state = x.state
      /\ y.pasting = x.pasting /\ y.strayed = x.strayed
  BY DEF TerminalOf
<1>4. QED  BY <1>1, <1>2, <1>3 DEF Rebar

(* The tab waits in closing_. *)
LEMMA ClosingIs ==
  ASSUME NEW C, NEW x \in TerminalOf(C), NEW c
  PROVE  LET y == [x EXCEPT !.closing = c]
         IN  /\ y \in TerminalOf({c}) /\ y.tabs = x.tabs /\ y.active = x.active
             /\ y.watched = x.watched /\ y.state = x.state
             /\ y.pasting = x.pasting /\ y.strayed = x.strayed
  BY DEF TerminalOf

(* A window that lost a tab by close_tab(), in either of its two ends. *)
LEMMA ErasedKept ==
  ASSUME TermInv, NEW w \in Windows, Open(w), NEW i \in DOMAIN term[w].tabs,
         Len(term[w].tabs) # 1, NEW y, Becomes(w, y), Without(term[w], i, y),
         y.state = "open", y.pasting => y.strayed, term[w].strayed => y.strayed,
         y.pasting = term[w].pasting,
         y.active = IF term[w].active > Len(term[w].tabs) - 1
                    THEN Len(term[w].tabs) - 1 ELSE term[w].active,
         epoll' = Forgotten(epoll, {term[w].tabs[i].fd}), shells' = shells, ProcsShrink
  PROVE  TermInv'
<1> DEFINE x == term[w]
           n == Len(x.tabs)
<1>1. DOMAIN x.tabs = 1..n /\ n \in Nat /\ Lined(x, shells) /\ Shown(x) /\ Pasted(x)
  BY WindowIs
<1>2. x.active \in 1..n /\ x.state = "open"
  BY <1>1 DEF Open, Shown
<1>3. Lined(y, shells)
  BY <1>1, WithoutLined
<1>4. Dropped(x, y, {x.tabs[i].fd})
  BY WithoutDropped
<1>5. DOMAIN y.tabs = 1..(n - 1) /\ \A j \in 1..(n - 1) : y.tabs[j] = x.tabs[Past(i, j)]
  BY DEF Without
<1>6. Shown(y)
  <2>1. PICK m \in Nat : m = n
    BY <1>1
  <2>2. PICK a \in 1..m : a = x.active
    BY <1>2, <2>1
  <2>3. y.active = IF a > m - 1 THEN m - 1 ELSE a
    BY <2>1, <2>2
  <2>4. m # 1
    BY <2>1
  <2>5. (IF a > m - 1 THEN m - 1 ELSE a) \in 1..(m - 1)
    BY <2>2, <2>4
  <2>6. y.active \in 1..(n - 1)
    BY <2>1, <2>3, <2>5
  <2>7. QED  BY <1>5, <2>6 DEF Shown
<1>7. Pasted(y)
  <2>1. SUFFICES ASSUME ~y.strayed, NEW j \in DOMAIN y.tabs
                 PROVE  y.tabs[j].brackets = "closed"
    <3>1. ~y.strayed => ~y.pasting
      OBVIOUS
    <3>2. QED  BY <3>1 DEF Pasted
  <2>2. ~x.strayed /\ ~x.pasting
    BY <2>1, Zenon
  <2>3. \A k \in DOMAIN x.tabs : x.tabs[k].brackets = "closed"
    BY <1>1, <1>2, <2>2 DEF Pasted
  <2>4. Past(i, j) \in DOMAIN x.tabs
    BY <1>1, <1>5, <2>1, PastIs
  <2>5. QED  BY <1>5, <2>1, <2>3, <2>4
<1>8. QED  BY <1>3, <1>4, <1>6, <1>7, DropKept

(* close_tab() *)
LEMMA CloseTabKept ==
  ASSUME TermInv, NEW w \in Windows, NEW i \in DOMAIN term[w].tabs, CloseTab(w, i)
  PROVE  TermInv'
<1> DEFINE o == term[w]
           b == Committed(o)
           x == Stray(b)
           t == o.tabs[i]
           n == Len(o.tabs)
           rest == RemoveAt(o.tabs, i)
           u == Unwatch(x, t.serial)
           k == IF u.active > n - 1 THEN n - 1 ELSE u.active
           left == [u EXCEPT !.tabs = rest, !.active = k]
           dead == Kill(procs, {t})
<1>1. PICK C : o \in TerminalOf(C)
  BY WindowIs
<1>2. o.tabs \in Seq(Tab) /\ DOMAIN o.tabs = 1..n /\ n \in Nat /\ o.active \in Nat
  BY <1>1, WindowIs DEF TerminalOf
<1>3. /\ b \in TerminalOf(C) /\ b.tabs = o.tabs /\ b.watched = o.watched /\ b.state = o.state
      /\ b.pasting = o.pasting /\ b.strayed = o.strayed /\ b.active = o.active
      /\ Turned(o, b)
  BY <1>1, CommittedIs, SmallTurns
<1>4. /\ x \in TerminalOf(C) /\ x.tabs = b.tabs /\ x.watched = b.watched /\ x.state = b.state
      /\ x.pasting = b.pasting /\ x.active = b.active
      /\ (b.strayed => x.strayed) /\ (b.pasting => x.strayed) /\ Turned(b, x)
  <2> HIDE DEF b
  <2>1. QED  BY <1>3, StrayIs, SmallTurns
<1>5. x.tabs = o.tabs /\ x.tabs[i] = t /\ Len(x.tabs) = n /\ Open(w) /\ shells' = shells
  BY <1>3, <1>4 DEF CloseTab
<1>6. CASE n = 1
  <2>1. RequestClose(w, x)
    BY <1>5, <1>6 DEF CloseTab
  <2> HIDE DEF x, b
  <2>2. Turned(o, x) /\ x.active = o.active
    BY <1>3, <1>4, TurnedOn
  <2>3. QED  BY <1>5, <2>1, <2>2, RequestCloseKept
<1>7. CASE n # 1
  <2>1. /\ rest \in Seq(Tab) /\ DOMAIN rest = 1..(n - 1) /\ Len(rest) = n - 1
        /\ \A j \in 1..(n - 1) : rest[j] = o.tabs[Past(i, j)]
    <3>1. i \in 1..n
      BY <1>2
    <3>2. QED  BY <1>2, <3>1, RemoveAtIs DEF Past
  <2>2. /\ left = [Unwatch(x, x.tabs[i].serial) EXCEPT !.tabs = RemoveAt(x.tabs, i),
                     !.active = IF @ > Len(RemoveAt(x.tabs, i)) THEN Len(RemoveAt(x.tabs, i)) ELSE @]
        /\ dead = Kill(procs, {x.tabs[i]})
    BY <1>5, <2>1
  <2>3. /\ epoll' = Forgotten(epoll, {t.fd})
        /\ \/ /\ procs' = [p \in DOMAIN dead \ {t.pid} |-> dead[p]]
              /\ term' = [term EXCEPT ![w] = left]
           \/ /\ procs' = dead
              /\ term' = [term EXCEPT ![w] =
                   IF t.pid > 0 /\ ~t.exited
                   THEN [left EXCEPT !.closing = Append(@, t)] ELSE left]
    <3> HIDE DEF left, dead, x, t
    <3>1. QED  BY <1>5, <1>7, <2>2 DEF CloseTab, x
  <2>4. ProcsShrink
    <3>1. /\ DOMAIN dead = DOMAIN procs /\ \A p \in DOMAIN procs : dead[p] \in Process
          /\ \A p \in DOMAIN procs : dead[p].state = "alive" => dead[p] = procs[p]
      BY KillShrinks
    <3> HIDE DEF dead, left, t
    <3>2. DOMAIN procs' \subseteq DOMAIN dead /\ \A p \in DOMAIN procs' : procs'[p] = dead[p]
      BY <2>3
    <3>3. DOMAIN procs \subseteq Pids
      BY DEF TermInv, ProcsTyped
    <3>4. QED  BY <3>1, <3>2, <3>3 DEF ProcsShrink, ProcsTyped
  <2>5. /\ u \in TerminalOf(C) /\ u.watched = {e \in x.watched : e.gen # t.serial}
        /\ u.state = x.state /\ u.active = x.active /\ u.pasting = x.pasting
        /\ u.strayed = x.strayed
    <3> HIDE DEF x, t
    <3>1. QED  BY <1>4, UnwatchIs
  <2>6. u.active = o.active /\ k \in Nat
    <3>1. u.active = o.active
      BY <1>3, <1>4, <2>5
    <3>2. PICK m \in Nat : m = n
      BY <1>2
    <3>3. PICK a \in Nat : a = o.active
      BY <1>2
    <3>4. m # 0
      BY <1>2, <3>2
    <3>5. (IF a > m - 1 THEN m - 1 ELSE a) \in Nat
      BY <3>4
    <3>6. QED  BY <3>1, <3>2, <3>3, <3>5
  <2>7. /\ left \in TerminalOf(C) /\ left.tabs = rest /\ left.active = k
        /\ left.watched = u.watched /\ left.state = u.state
        /\ left.pasting = u.pasting /\ left.strayed = u.strayed
    <3> HIDE DEF u, k, rest
    <3>1. u \in TerminalOf(C) /\ rest \in Seq(Tab) /\ k \in Nat
      BY <2>1, <2>5, <2>6
    <3>2. Rebar(C, u, rest, k, left)
      BY <3>1, TabErased
    <3> HIDE DEF left
    <3>3. QED  BY <3>2 DEF Rebar
  <2>8. PICK y : /\ \E D : y \in TerminalOf(D)
                 /\ y.tabs = left.tabs /\ y.active = left.active
                 /\ y.watched = left.watched /\ y.state = left.state
                 /\ y.pasting = left.pasting /\ y.strayed = left.strayed
                 /\ term' = [term EXCEPT ![w] = y]
    <3> HIDE DEF left, t, dead
    <3> DEFINE c == Append(left.closing, t)
               z == [left EXCEPT !.closing = c]
    <3>1. CASE term' = [term EXCEPT ![w] = left]
      BY <2>7, <3>1
    <3>2. CASE term' = [term EXCEPT ![w] = z]
      <4>1. /\ z \in TerminalOf({c}) /\ z.tabs = left.tabs /\ z.active = left.active
            /\ z.watched = left.watched /\ z.state = left.state
            /\ z.pasting = left.pasting /\ z.strayed = left.strayed
        <5> HIDE DEF c
        <5>1. QED  BY <2>7, ClosingIs
      <4> HIDE DEF z, c
      <4>2. QED  BY <3>2, <4>1
    <3>3. QED  BY <2>3, <3>1, <3>2
  <2> HIDE DEF left, dead, u, x, b
  <2>9. Becomes(w, y)
    BY <2>8 DEF Becomes
  <2>10. Without(o, i, y)
    <3>1. y.tabs = rest /\ y.watched = {e \in o.watched : e.gen # t.serial}
      BY <1>3, <1>4, <2>5, <2>7, <2>8
    <3>2. QED  BY <2>1, <3>1 DEF Without
  <2>11. /\ y.state = "open" /\ (y.pasting => y.strayed) /\ (o.strayed => y.strayed)
         /\ y.pasting = o.pasting
    <3>1. o.state = "open"
      BY <1>5 DEF Open
    <3>2. QED  BY <1>3, <1>4, <2>5, <2>7, <2>8, <3>1
  <2>12. y.active = IF o.active > n - 1 THEN n - 1 ELSE o.active
    BY <2>6, <2>7, <2>8
  <2>13. QED  BY <1>5, <1>7, <2>3, <2>4, <2>9, <2>10, <2>11, <2>12, ErasedKept
<1>8. QED  BY <1>6, <1>7

-----------------------------------------------------------------------------
(* Pastes, and what the shells print *)

(* The bracket of one shell is set to B. *)
Bracketed(ts, a, B, us) ==
  /\ DOMAIN us = DOMAIN ts /\ us[a].brackets = B
  /\ \A i \in DOMAIN ts :
       /\ SameLine(ts[i], us[i]) /\ us[i].exited = ts[i].exited
       /\ i # a => us[i].brackets = ts[i].brackets

Sliced(C, x, a, B, y) ==
  /\ y \in TerminalOf(C) /\ Bracketed(x.tabs, a, B, y.tabs)
  /\ y.watched = x.watched /\ y.state = x.state /\ y.active = x.active
  /\ y.strayed = x.strayed

(* The tabs with the bracket of one of them set. *)
LEMMA BracketIs ==
  ASSUME NEW ts \in Seq(Tab), NEW a \in DOMAIN ts, NEW B \in {"closed", "open", "wrong"}
  PROVE  /\ [ts EXCEPT ![a].brackets = B] \in Seq(Tab)
         /\ Bracketed(ts, a, B, [ts EXCEPT ![a].brackets = B])
<1> DEFINE t == [ts[a] EXCEPT !.brackets = B]
           us == [ts EXCEPT ![a] = t]
<1>1. ts[a] \in Tab
  OBVIOUS
<1>2. t \in Tab /\ t.brackets = B /\ SameLine(ts[a], t) /\ t.exited = ts[a].exited
  BY <1>1 DEF Tab, SameLine
<1> HIDE DEF t
<1>3. us \in Seq(Tab) /\ DOMAIN us = DOMAIN ts
  BY <1>2
<1>4. us[a] = t /\ \A i \in DOMAIN ts : i # a => us[i] = ts[i]
  OBVIOUS
<1>5. [ts EXCEPT ![a].brackets = B] = us
  BY DEF t
<1> HIDE DEF us
<1>6. ASSUME NEW i \in DOMAIN ts
      PROVE  /\ SameLine(ts[i], us[i]) /\ us[i].exited = ts[i].exited
             /\ i # a => us[i].brackets = ts[i].brackets
  <2>1. CASE i = a
    BY <1>2, <1>4, <2>1
  <2>2. CASE i # a
    BY <1>4, <2>2 DEF SameLine
  <2>3. QED  BY <2>1, <2>2
<1>7. us[a].brackets = B
  BY <1>2, <1>4
<1>8. QED  BY <1>3, <1>5, <1>6, <1>7 DEF Bracketed

(* The first slice, and any slice. *)
Began(x, a, B, p) == [x EXCEPT !.paste_bracketed = p, !.tabs[a].brackets = B]

Went(x, a, B, p) == [x EXCEPT !.pasting = p, !.tabs[a].brackets = B]

(* Neither touches more than the flag and the bracket. *)
LEMMA SlicedIs ==
  ASSUME NEW C, NEW x \in TerminalOf(C), NEW a \in DOMAIN x.tabs,
         NEW B \in {"closed", "open", "wrong"}, NEW p \in BOOLEAN
  PROVE  /\ Sliced(C, x, a, B, Began(x, a, B, p)) /\ Began(x, a, B, p).paste_bracketed = p
         /\ Sliced(C, x, a, B, Went(x, a, B, p)) /\ Went(x, a, B, p).pasting = p
         /\ Went(x, a, B, p).paste_bracketed = x.paste_bracketed
<1> DEFINE us == [x.tabs EXCEPT ![a].brackets = B]
           y == [x EXCEPT !.paste_bracketed = p, !.tabs = us]
           z == [x EXCEPT !.pasting = p, !.tabs = us]
<1>1. x.tabs \in Seq(Tab)
  BY DEF TerminalOf
<1>2. us \in Seq(Tab) /\ Bracketed(x.tabs, a, B, us)
  BY <1>1, BracketIs
<1>3. Began(x, a, B, p) = y /\ Went(x, a, B, p) = z
  BY DEF TerminalOf, Began, Went
<1> HIDE DEF us
<1>4. /\ y \in TerminalOf(C) /\ y.tabs = us /\ y.paste_bracketed = p
  BY <1>2 DEF TerminalOf
<1>5. /\ y.pasting = x.pasting
      /\ y.watched = x.watched /\ y.state = x.state /\ y.active = x.active
      /\ y.strayed = x.strayed
  BY DEF TerminalOf
<1>6. /\ z \in TerminalOf(C) /\ z.tabs = us /\ z.pasting = p
  BY <1>2 DEF TerminalOf
<1>7. /\ z.paste_bracketed = x.paste_bracketed
      /\ z.watched = x.watched /\ z.state = x.state /\ z.active = x.active
      /\ z.strayed = x.strayed
  BY DEF TerminalOf
<1> HIDE DEF y, z
<1>8. Sliced(C, x, a, B, y)
  BY <1>2, <1>4, <1>5 DEF Sliced
<1>9. Sliced(C, x, a, B, z)
  BY <1>2, <1>6, <1>7 DEF Sliced
<1>10. QED  BY <1>3, <1>4, <1>5, <1>6, <1>7, <1>8, <1>9

(* A slice that lost a mark. *)
LostMark(x, a, B, p, q) ==
  [x EXCEPT !.paste_bracketed = q, !.pasting = p, !.strayed = TRUE, !.tabs[a].brackets = B]

LosesMark(C, x, a, B, z) ==
  /\ z \in TerminalOf(C) /\ Bracketed(x.tabs, a, B, z.tabs)
  /\ z.watched = x.watched /\ z.state = x.state /\ z.active = x.active
  /\ z.strayed = TRUE

LEMMA LostMarkIs ==
  ASSUME NEW C, NEW x \in TerminalOf(C), NEW a \in DOMAIN x.tabs,
         NEW B \in {"closed", "open", "wrong"}, NEW p \in BOOLEAN, NEW q \in BOOLEAN
  PROVE  LosesMark(C, x, a, B, LostMark(x, a, B, p, q))
<1> DEFINE us == [x.tabs EXCEPT ![a].brackets = B]
           v == [x EXCEPT !.paste_bracketed = q, !.pasting = p, !.strayed = TRUE, !.tabs = us]
<1>1. us \in Seq(Tab) /\ Bracketed(x.tabs, a, B, us)
  BY BracketIs DEF TerminalOf
<1>2. LostMark(x, a, B, p, q) = v
  BY DEF TerminalOf, LostMark
<1> HIDE DEF us
<1>3. v \in TerminalOf(C)
  BY <1>1 DEF TerminalOf
<1>4. /\ v.tabs = us /\ v.strayed = TRUE
      /\ v.watched = x.watched /\ v.state = x.state /\ v.active = x.active
  BY DEF TerminalOf
<1> HIDE DEF v
<1>5. QED  BY <1>1, <1>2, <1>3, <1>4 DEF LosesMark

(* The tabs keep their shells and what is known of them. *)
LEMMA TabsKept ==
  ASSUME TermInv, NEW w \in Windows, Open(w), NEW y, Becomes(w, y),
         DOMAIN y.tabs = DOMAIN term[w].tabs,
         \A i \in DOMAIN term[w].tabs :
           SameLine(term[w].tabs[i], y.tabs[i]) /\ y.tabs[i].exited = term[w].tabs[i].exited,
         y.watched = term[w].watched, y.state = term[w].state, y.active = term[w].active,
         Pasted(y), UNCHANGED <<procs, epoll, shells>>
  PROVE  TermInv'
<1>1. SameLines(term[w], y)
  BY DEF SameLines
<1>2. TrueDeaths(term[w], y)
  BY DEF TrueDeaths
<1>3. Shown(y)
  <2>1. Shown(term[w])
    BY WindowIs
  <2>2. QED  BY <2>1 DEF Shown, Open
<1>4. QED  BY <1>1, <1>2, <1>3, SameShrinks, AlikeKept

AfterMark(x) ==
  LET t == x.tabs[x.active]
  IN  IF x.pasting THEN x
      ELSE Began(x, x.active, IF t.bracketed_paste THEN Opened(t.brackets) ELSE t.brackets,
                 t.bracketed_paste)

(* on_paste(): the state behind the first slice.  The bracket is open       *)
(* exactly when it was asked for.                                           *)
LEMMA FirstSlice ==
  ASSUME TermInv, NEW w \in Windows, Open(w), NEW C, term[w] \in TerminalOf(C),
         NEW y, y = AfterMark(term[w])
  PROVE  /\ Sliced(C, term[w], term[w].active, y.tabs[term[w].active].brackets, y)
         /\ ~term[w].strayed => y.tabs[term[w].active].brackets =
              IF y.paste_bracketed THEN "open" ELSE "closed"
<1> DEFINE x == term[w]
           a == x.active
           t == x.tabs[a]
           p == t.bracketed_paste
           b == t.brackets
           B == IF p THEN Opened(b) ELSE b
<1>1. a \in DOMAIN x.tabs /\ Pasted(x) /\ t \in Tab /\ x.state = "open"
  BY WindowIs DEF Shown, Open
<1>2. p \in BOOLEAN /\ b \in {"closed", "open", "wrong"}
  BY <1>1 DEF Tab
<1>3. B \in {"closed", "open", "wrong"} /\ (b = "closed" => B = IF p THEN "open" ELSE "closed")
  BY <1>2 DEF Opened
<1>4. ~x.strayed => b = IF x.pasting /\ x.paste_bracketed THEN "open" ELSE "closed"
  BY <1>1 DEF Pasted
<1>5. CASE x.pasting
  <2>1. y = x
    BY <1>5 DEF AfterMark
  <2>2. Bracketed(x.tabs, a, b, x.tabs)
    BY DEF Bracketed, SameLine
  <2>3. QED  BY <1>4, <1>5, <2>1, <2>2 DEF Sliced
<1>6. CASE ~x.pasting
  <2>1. y = Began(x, a, B, p)
    BY <1>6 DEF AfterMark
  <2> HIDE DEF B, p
  <2>2. Sliced(C, x, a, B, Began(x, a, B, p)) /\ Began(x, a, B, p).paste_bracketed = p
    BY <1>1, <1>2, <1>3, SlicedIs
  <2>3. Sliced(C, x, a, B, y) /\ y.paste_bracketed = p
    BY <2>1, <2>2
  <2>4. y.tabs[a].brackets = B
    BY <2>3 DEF Sliced, Bracketed
  <2>5. ~x.strayed => b = "closed"
    BY <1>4, <1>6
  <2>6. QED  BY <1>3, <2>3, <2>4, <2>5
<1>7. QED  BY <1>5, <1>6

(* on_paste() *)
LEMMA PasteKept ==
  ASSUME TermInv, NEW w \in Windows, NEW complete \in BOOLEAN, Paste(w, complete)
  PROVE  TermInv'
<1> DEFINE x == term[w]
           a == x.active
           t == ActiveTab(w)
           y == AfterMark(x)
           b == y.tabs[a].brackets
           B == IF complete /\ y.paste_bracketed THEN Shut(b) ELSE b
<1>1. PICK C : x \in TerminalOf(C)
  BY WindowIs
<1>2. Open(w) /\ UNCHANGED <<procs, epoll, children, shells>>
  BY DEF Paste
<1>3. CASE UNCHANGED term
  BY <1>2, <1>3, SameShrinks, StillKept
<1>4. CASE term' = [term EXCEPT ![w] = Stray(x)]
  BY <1>1, <1>2, <1>4, SmallTurns, SameShrinks, TurnedKept
<1>5. CASE term' = [term EXCEPT ![w] = Went(y, a, B, ~complete)]
  <2>1. /\ Sliced(C, x, a, b, y)
        /\ ~x.strayed => b = IF y.paste_bracketed THEN "open" ELSE "closed"
    BY <1>1, <1>2, FirstSlice
  <2>2. a \in DOMAIN x.tabs /\ Pasted(x) /\ x.state = "open"
    BY <1>2, WindowIs DEF Shown, Open
  <2> HIDE DEF y, x, t
  <2>3. y \in TerminalOf(C) /\ Bracketed(x.tabs, a, b, y.tabs) /\ a \in DOMAIN y.tabs
    BY <2>1, <2>2 DEF Sliced, Bracketed
  <2>4. b \in {"closed", "open", "wrong"} /\ y.paste_bracketed \in BOOLEAN
    <3>1. y.tabs \in Seq(Tab) /\ y.paste_bracketed \in BOOLEAN
      BY <2>3 DEF TerminalOf
    <3>2. y.tabs[a] \in Tab
      BY <2>3, <3>1
    <3>3. QED  BY <3>1, <3>2 DEF Tab
  <2>5. /\ B \in {"closed", "open", "wrong"}
        /\ ~x.strayed => B = IF ~complete /\ y.paste_bracketed THEN "open" ELSE "closed"
    BY <2>1, <2>4 DEF Shut
  <2> DEFINE p == ~complete
             z == Went(y, a, B, p)
  <2>6. term' = [term EXCEPT ![w] = z]
    BY <1>5
  <2>7. p \in BOOLEAN
    OBVIOUS
  <2> HIDE DEF B, p
  <2>8. Sliced(C, y, a, B, z) /\ z.pasting = p /\ z.paste_bracketed = y.paste_bracketed
    BY <2>3, <2>5, <2>7, SlicedIs
  <2> HIDE DEF z
  <2>9. z \in TerminalOf(C) /\ Bracketed(y.tabs, a, B, z.tabs)
    BY <2>8 DEF Sliced
  <2>10. /\ z.watched = x.watched /\ z.state = x.state /\ z.active = x.active
         /\ z.strayed = x.strayed
    BY <2>1, <2>8 DEF Sliced
  <2>11. DOMAIN z.tabs = DOMAIN x.tabs /\ \A i \in DOMAIN x.tabs :
           /\ SameLine(x.tabs[i], z.tabs[i]) /\ z.tabs[i].exited = x.tabs[i].exited
           /\ i # a => z.tabs[i].brackets = x.tabs[i].brackets
    BY <2>3, <2>9 DEF Bracketed, SameLine
  <2>12. z.tabs[a].brackets = B
    BY <2>9 DEF Bracketed
  <2>13. Pasted(z)
    <3>1. SUFFICES ASSUME ~x.strayed, NEW i \in DOMAIN x.tabs
                   PROVE  z.tabs[i].brackets = IF i = a /\ z.pasting /\ z.paste_bracketed
                                               THEN "open" ELSE "closed"
      BY <2>10, <2>11 DEF Pasted
    <3>2. CASE i = a
      BY <2>5, <2>8, <2>12, <3>1, <3>2 DEF p
    <3>3. CASE i # a
      <4>1. x.tabs[i].brackets = "closed"
        BY <2>2, <3>1, <3>3 DEF Pasted
      <4>2. QED  BY <2>11, <3>1, <3>3, <4>1
    <3>4. QED  BY <3>2, <3>3
  <2>14. Becomes(w, z)
    BY <2>6, <2>9 DEF Becomes
  <2>15. QED  BY <1>2, <2>10, <2>11, <2>13, <2>14, TabsKept DEF x
<1>6. ASSUME NEW L, L \in Cut(t.brackets, ~x.pasting /\ t.bracketed_paste,
                               complete /\ y.paste_bracketed),
             term' = [term EXCEPT ![w] = LostMark(x, a, L, ~complete, y.paste_bracketed)]
      PROVE  TermInv'
  <2>1. a \in DOMAIN x.tabs /\ t \in Tab /\ x.state = "open"
    BY <1>2, WindowIs DEF Shown, Open, ActiveTab
  <2>2. t.brackets \in {"closed", "open", "wrong"}
    BY <2>1 DEF Tab
  <2>3. L \in {"closed", "open", "wrong"}
    BY <1>6, <2>2 DEF Cut, Opened, Shut
  <2>4. y \in TerminalOf(C)
    BY <1>1, <1>2, FirstSlice DEF Sliced
  <2> HIDE DEF y, x, t
  <2> DEFINE p == ~complete
             q == y.paste_bracketed
             z == LostMark(x, a, L, p, q)
  <2>5. p \in BOOLEAN /\ q \in BOOLEAN
    BY <2>4 DEF TerminalOf
  <2>6. term' = [term EXCEPT ![w] = z]
    BY <1>6
  <2> HIDE DEF p, q
  <2>11. LosesMark(C, x, a, L, z)
    BY <1>1, <2>1, <2>3, <2>5, LostMarkIs
  <2> HIDE DEF z
  <2>7. /\ z \in TerminalOf(C) /\ Bracketed(x.tabs, a, L, z.tabs)
        /\ z.watched = x.watched /\ z.state = x.state /\ z.active = x.active
        /\ z.strayed = TRUE
    BY <2>11 DEF LosesMark
  <2>8. DOMAIN z.tabs = DOMAIN x.tabs /\ \A i \in DOMAIN x.tabs :
          SameLine(x.tabs[i], z.tabs[i]) /\ z.tabs[i].exited = x.tabs[i].exited
    BY <2>7 DEF Bracketed
  <2>9. Pasted(z) /\ Becomes(w, z)
    BY <2>6, <2>7 DEF Pasted, Becomes
  <2>10. QED  BY <1>2, <2>7, <2>8, <2>9, TabsKept DEF x
<1>7. QED  BY <1>3, <1>4, <1>5, <1>6
           DEF Paste, AfterMark, Began, Went, LostMark, ClosesBracket, ActiveTab

(* on_io(): mode 2004 of one shell is switched, in a window there is. *)
LEMMA ModeKept ==
  ASSUME TermInv, NEW w \in Windows, Open(w), NEW i \in DOMAIN term[w].tabs, NEW on \in BOOLEAN,
         term' = [term EXCEPT ![w].tabs[i].bracketed_paste = on],
         UNCHANGED <<procs, epoll, shells>>
  PROVE  TermInv'
<1> DEFINE x == term[w]
           t == [x.tabs[i] EXCEPT !.bracketed_paste = on]
           us == [x.tabs EXCEPT ![i] = t]
           y == [x EXCEPT !.tabs = us]
<1>1. PICK C : x \in TerminalOf(C)
  BY WindowIs
<1>2. x.tabs \in Seq(Tab) /\ i \in DOMAIN x.tabs /\ x.tabs[i] \in Tab /\ Pasted(x)
  BY WindowIs
<1>3. term' = [term EXCEPT ![w] = y]
  OBVIOUS
<1>4. /\ t \in Tab /\ SameLine(x.tabs[i], t) /\ t.exited = x.tabs[i].exited
      /\ t.brackets = x.tabs[i].brackets
  BY <1>2 DEF Tab, SameLine
<1> HIDE DEF t, x
<1>5. us \in Seq(Tab) /\ DOMAIN us = DOMAIN x.tabs
  BY <1>2, <1>4
<1>6. \A j \in DOMAIN x.tabs :
        /\ SameLine(x.tabs[j], us[j]) /\ us[j].exited = x.tabs[j].exited
        /\ us[j].brackets = x.tabs[j].brackets
  <2>1. us[i] = t /\ \A j \in DOMAIN x.tabs : j # i => us[j] = x.tabs[j]
    BY DEF x
  <2> HIDE DEF us
  <2>2. QED  BY <1>4, <2>1 DEF SameLine
<1> HIDE DEF us
<1>7. /\ y \in TerminalOf(C) /\ y.tabs = us
  BY <1>1, <1>5 DEF TerminalOf
<1>8. /\ y.watched = x.watched /\ y.state = x.state /\ y.active = x.active
      /\ y.strayed = x.strayed /\ y.pasting = x.pasting
      /\ y.paste_bracketed = x.paste_bracketed
  BY <1>1 DEF TerminalOf
<1> HIDE DEF y
<1>9. Pasted(y)
  <2>1. SUFFICES ASSUME y.state = "open", ~y.strayed, NEW j \in DOMAIN x.tabs
                 PROVE  us[j].brackets = IF j = y.active /\ y.pasting /\ y.paste_bracketed
                                         THEN "open" ELSE "closed"
    BY <1>5, <1>7 DEF Pasted
  <2>2. x.tabs[j].brackets = IF j = x.active /\ x.pasting /\ x.paste_bracketed
                             THEN "open" ELSE "closed"
    BY <1>2, <1>8, <2>1 DEF Pasted
  <2>3. QED  BY <1>6, <1>8, <2>2
<1>10. Becomes(w, y)
  BY <1>3, <1>7 DEF Becomes
<1>11. DOMAIN y.tabs = DOMAIN x.tabs /\ \A j \in DOMAIN x.tabs :
         SameLine(x.tabs[j], y.tabs[j]) /\ y.tabs[j].exited = x.tabs[j].exited
  BY <1>5, <1>6, <1>7
<1>12. QED  BY <1>8, <1>9, <1>10, <1>11, TabsKept DEF x

(* on_fd_event(): the key of a window that is gone finds nobody. *)
LEMMA HandleIoKept ==
  ASSUME TermInv, HandleIo
  PROVE  TermInv'
<1> DEFINE key == Head(batch)
           w == key.win
<1>1. UNCHANGED <<procs, epoll, children, shells>>
  BY DEF HandleIo
<1>2. CASE UNCHANGED term
  BY <1>1, <1>2, SameShrinks, StillKept
<1>3. CASE term' # term
  <2>1. Open(w)
    BY <1>3 DEF HandleIo
  <2>2. PICK i \in DOMAIN term[w].tabs, on \in BOOLEAN :
          term' = [term EXCEPT ![w].tabs[i].bracketed_paste = on]
    BY <1>3 DEF HandleIo
  <2>3. w \in Windows
    <3>1. PICK C : term \in [Windows -> TerminalOf(C)]
      BY DEF TermInv, WindowsTyped
    <3> HIDE DEF w
    <3>2. w \notin Windows => term' = term
      BY <2>2, <3>1
    <3>3. QED  BY <1>3, <3>2
  <2> HIDE DEF w
  <2>4. QED  BY <1>1, <2>1, <2>2, <2>3, ModeKept
<1>4. QED  BY <1>2, <1>3

-----------------------------------------------------------------------------
(* Deaths *)

(* try_reap() of every tab: only a zombie is ever taken for dead. *)
LEMMA ReapedIs ==
  ASSUME NEW ts \in Seq(Tab), NEW zs
  PROVE  /\ Reaped(ts, zs) \in Seq(Tab) /\ DOMAIN Reaped(ts, zs) = DOMAIN ts
         /\ \A i \in DOMAIN ts :
              /\ SameLine(ts[i], Reaped(ts, zs)[i])
              /\ Reaped(ts, zs)[i].brackets = ts[i].brackets
              /\ Reaped(ts, zs)[i].exited => ts[i].exited \/ ts[i].pid \in zs
<1> DEFINE got(i) == /\ ts[i].pid \in zs /\ ~ts[i].exited
                     /\ \A j \in 1..(i - 1) : ts[j].pid = ts[i].pid => ts[j].exited
           ex(i) == ts[i].exited \/ got(i)
           new(i) == [ts[i] EXCEPT !.exited = ex(i)]
           rs == [i \in DOMAIN ts |-> new(i)]
<1>1. Reaped(ts, zs) = rs
  BY DEF Reaped
<1>2. ASSUME NEW i \in DOMAIN ts
      PROVE  /\ new(i) \in Tab /\ SameLine(ts[i], new(i)) /\ new(i).brackets = ts[i].brackets
             /\ new(i).exited => ts[i].exited \/ ts[i].pid \in zs
  <2>1. ex(i) \in BOOLEAN /\ (ex(i) => ts[i].exited \/ ts[i].pid \in zs)
    OBVIOUS
  <2>2. ts[i] \in Tab
    BY <1>2
  <2> HIDE DEF ex
  <2>3. /\ new(i) \in Tab /\ SameLine(ts[i], new(i)) /\ new(i).brackets = ts[i].brackets
        /\ new(i).exited = ex(i)
    BY <2>1, <2>2 DEF Tab, SameLine
  <2> HIDE DEF new
  <2>4. new(i).exited => ts[i].exited \/ ts[i].pid \in zs
    BY <2>1, <2>3, Zenon
  <2>5. QED  BY <2>3, <2>4
<1> HIDE DEF new
<1>3. rs \in Seq(Tab) /\ DOMAIN rs = DOMAIN ts
  <2>1. PICK n \in Nat : DOMAIN ts = 1..n
    OBVIOUS
  <2>2. rs \in [1..n -> Tab]
    BY <1>2, <2>1
  <2> HIDE DEF rs
  <2>3. QED  BY <2>1, <2>2
<1>4. \A i \in DOMAIN ts : rs[i] = new(i)
  OBVIOUS
<1> HIDE DEF rs
<1>5. QED  BY <1>1, <1>2, <1>3, <1>4

(* Terminal::on_child_exit() *)
LEMMA TriedIs ==
  ASSUME NEW C, NEW x \in TerminalOf(C), NEW zs
  PROVE  /\ \E D : TriedToReap(x, zs) \in TerminalOf(D)
         /\ TriedToReap(x, zs).tabs = Reaped(x.tabs, zs)
         /\ TriedToReap(x, zs).watched = x.watched /\ TriedToReap(x, zs).state = x.state
         /\ TriedToReap(x, zs).active = x.active /\ TriedToReap(x, zs).pasting = x.pasting
         /\ TriedToReap(x, zs).paste_bracketed = x.paste_bracketed
         /\ TriedToReap(x, zs).strayed = x.strayed
<1> DEFINE taken == {t.pid : t \in {t \in ToSet(x.tabs) : ~t.exited}}
           us == Reaped(x.tabs, zs)
           c == SelectSeq(Reaped(x.closing, zs \ taken), LAMBDA t : ~t.exited)
           y == [x EXCEPT !.tabs = us, !.closing = c]
<1>1. TriedToReap(x, zs) = y
  BY DEF TriedToReap
<1>2. us \in Seq(Tab)
  <2>1. x.tabs \in Seq(Tab)
    BY DEF TerminalOf
  <2>2. QED  BY <2>1, ReapedIs
<1> HIDE DEF us, c
<1>3. y \in TerminalOf({c}) /\ y.tabs = us
  BY <1>2 DEF TerminalOf
<1>4. /\ y.watched = x.watched /\ y.state = x.state /\ y.active = x.active
      /\ y.pasting = x.pasting /\ y.paste_bracketed = x.paste_bracketed
      /\ y.strayed = x.strayed
  BY DEF TerminalOf
<1> HIDE DEF y
<1>5. QED  BY <1>1, <1>3, <1>4 DEF us

(* The window that is told of a death. *)
LEMMA ToldKept ==
  ASSUME TermInv, NEW w \in Windows, Open(w), NEW zs, zs \subseteq Zombies, ProcsShrink,
         term' = [term EXCEPT ![w] = TriedToReap(term[w], zs)], UNCHANGED <<epoll, shells>>
  PROVE  TermInv'
<1> DEFINE x == term[w]
           y == TriedToReap(x, zs)
<1>1. PICK C : x \in TerminalOf(C)
  BY WindowIs
<1>2. x.tabs \in Seq(Tab) /\ Pasted(x) /\ Shown(x) /\ x.state = "open"
  BY WindowIs DEF Open
<1>3. /\ \E D : y \in TerminalOf(D)
      /\ y.tabs = Reaped(x.tabs, zs) /\ y.watched = x.watched /\ y.state = x.state
      /\ y.active = x.active /\ y.pasting = x.pasting /\ y.paste_bracketed = x.paste_bracketed
      /\ y.strayed = x.strayed
  BY <1>1, TriedIs
<1>4. Becomes(w, y)
  BY <1>3 DEF Becomes
<1> HIDE DEF y
<1>5. /\ DOMAIN y.tabs = DOMAIN x.tabs
      /\ \A i \in DOMAIN x.tabs :
           /\ SameLine(x.tabs[i], y.tabs[i])
           /\ y.tabs[i].brackets = x.tabs[i].brackets
           /\ y.tabs[i].exited => x.tabs[i].exited \/ x.tabs[i].pid \in zs
  BY <1>2, <1>3, ReapedIs
<1>6. SameLines(x, y)
  BY <1>5 DEF SameLines
<1>7. Shown(y)
  BY <1>2, <1>3, <1>5 DEF Shown
<1>8. Pasted(y)
  <2>1. SUFFICES ASSUME ~y.strayed, NEW j \in DOMAIN x.tabs
                 PROVE  y.tabs[j].brackets = IF j = y.active /\ y.pasting /\ y.paste_bracketed
                                             THEN "open" ELSE "closed"
    BY <1>5 DEF Pasted
  <2>2. x.tabs[j].brackets = IF j = x.active /\ x.pasting /\ x.paste_bracketed
                             THEN "open" ELSE "closed"
    BY <1>2, <1>3, <2>1 DEF Pasted
  <2>3. QED  BY <1>3, <1>5, <2>2
<1>9. TrueDeaths(x, y)
  <2>1. ASSUME NEW i \in DOMAIN x.tabs, x.tabs[i].pid \in zs
        PROVE  ~LivesAs(procs', y.tabs[i])
    <3>1. y.tabs[i].pid \in Zombies
      BY <1>5, <2>1 DEF SameLine
    <3>2. LivesAs(procs', y.tabs[i]) => procs[y.tabs[i].pid].state = "alive"
      BY ShrinkLives DEF LivesAs
    <3>3. QED  BY <3>1, <3>2 DEF Zombies
  <2>2. QED  BY <1>5, <2>1 DEF TrueDeaths
<1>10. QED  BY <1>3, <1>4, <1>6, <1>7, <1>8, <1>9, AlikeKept

(* One turn of reap_children() *)
LEMMA ReapOneKept ==
  ASSUME TermInv, ReapOne
  PROVE  TermInv'
<1>1. UNCHANGED <<epoll, shells>>
  BY DEF ReapOne
<1>2. ProcsShrink
  <2>1. PICK rest : procs' = [q \in {q \in DOMAIN procs : q \in Zombies => q \in rest} |-> procs[q]]
    BY ZenonT(40) DEF ReapOne
  <2>2. DOMAIN procs' \subseteq DOMAIN procs /\ \A q \in DOMAIN procs' : procs'[q] = procs[q]
    BY <2>1
  <2>3. QED  BY <2>2 DEF ProcsShrink, ProcsTyped, TermInv
<1>3. CASE UNCHANGED term
  BY <1>1, <1>2, <1>3, StillKept
<1>4. CASE term' # term
  <2>0. PICK v, p : Open(v) /\ term' = [term EXCEPT ![v] = TriedToReap(term[v], Zombies \ {p})]
    BY <1>4 DEF ReapOne
  <2>1. PICK w, zs : /\ Open(w) /\ zs \subseteq Zombies
                     /\ term' = [term EXCEPT ![w] = TriedToReap(term[w], zs)]
    BY <2>0
  <2>2. w \in Windows
    <3>1. PICK C : term \in [Windows -> TerminalOf(C)]
      BY DEF TermInv, WindowsTyped
    <3>2. w \notin Windows => term' = term
      BY <2>1, <3>1
    <3>3. QED  BY <1>4, <3>2
  <2>3. QED  BY <1>1, <1>2, <2>1, <2>2, ToldKept
<1>5. QED  BY <1>3, <1>4

(* The death of a shell. *)
LEMMA ShellDiesKept ==
  ASSUME TermInv, NEW p, ShellDies(p)
  PROVE  TermInv'
<1>1. /\ p \in DOMAIN procs /\ procs' = [procs EXCEPT ![p].state = "zombie"]
      /\ UNCHANGED <<term, epoll, shells>>
  BY DEF ShellDies
<1>2. DOMAIN procs \subseteq Pids /\ \A q \in DOMAIN procs : procs[q] \in Process
  BY DEF TermInv, ProcsTyped
<1>3. /\ DOMAIN procs' = DOMAIN procs /\ procs'[p] = [procs[p] EXCEPT !.state = "zombie"]
      /\ \A q \in DOMAIN procs : q # p => procs'[q] = procs[q]
  BY <1>1
<1>4. [procs[p] EXCEPT !.state = "zombie"] \in Process
      /\ [procs[p] EXCEPT !.state = "zombie"].state = "zombie"
  BY <1>1, <1>2 DEF Process
<1>5. ProcsShrink
  BY <1>2, <1>3, <1>4 DEF ProcsShrink, ProcsTyped
<1>6. QED  BY <1>1, <1>5, StillKept

-----------------------------------------------------------------------------
(* Theorems *)

(* No window is attached yet. *)
LEMMA InitKept == Init => TermInv
<1> SUFFICES ASSUME Init PROVE TermInv
  OBVIOUS
<1> DEFINE C == {NoTerminal.closing}
<1>1. term = [w \in Windows |-> NoTerminal] /\ shells = 0
      /\ DOMAIN procs = {} /\ DOMAIN epoll = {} /\ epoll = [f \in {} |-> 0]
  BY DEF Init
<1>2. NoTerminal \in TerminalOf(C) /\ NoTerminal.state = "unborn"
      /\ NoTerminal.tabs = <<>> /\ NoTerminal.watched = {}
  BY NoTerminalIs
<1> HIDE DEF C
<1>3. WindowsTyped
  BY <1>1, <1>2 DEF WindowsTyped
<1>4. \A w \in Windows : term[w] = NoTerminal
  BY <1>1
<1>5. Lined(NoTerminal, 0) /\ Shown(NoTerminal) /\ Pasted(NoTerminal) /\ DOMAIN NoTerminal.tabs = {}
  BY <1>2 DEF Lined, Shown, Pasted
<1>6. Heard
  <2>1. epoll = [f \in DOMAIN epoll |-> epoll[f]]
    BY <1>1
  <2>2. QED  BY <1>1, <1>4, <1>5, <2>1 DEF Heard
<1>7. Dead
  BY <1>4, <1>5 DEF Dead
<1>8. ProcsTyped
  BY <1>1 DEF ProcsTyped
<1>9. QED  BY <1>1, <1>3, <1>4, <1>5, <1>6, <1>7, <1>8 DEF TermInv

(* Every step of the daemon, of the user and of the kernel keeps it. *)
LEMMA NextKept == TermInv /\ [Next]_vars => TermInv'
<1> SUFFICES ASSUME TermInv, [Next]_vars PROVE TermInv'
  OBVIOUS
<1>1. CASE UNCHANGED vars
  BY <1>1, SameShrinks, StillKept DEF vars
<1>2. CASE User
  <2>1. PICK w \in Windows :
          \/ OpenWindow(w) \/ OpenTab(w) \/ SelectTab(w) \/ Edit(w)
          \/ \E i \in DOMAIN term[w].tabs : CloseTab(w, i)
          \/ Dismiss(w) \/ CloseAsked(w) \/ Answer(w)
          \/ \E complete \in BOOLEAN : Paste(w, complete)
    BY <1>2 DEF User
  <2>2. CASE OpenWindow(w)
    <3>1. CASE \E p \in Pids :
                 Spawned(w, p) /\ term' = [term EXCEPT ![w] = Watch([NoTerminal EXCEPT !.state = "open"], p)]
      BY <2>2, <3>1, AttachKept DEF OpenWindow
    <3>2. CASE /\ term' = [term EXCEPT ![w] = [[NoTerminal EXCEPT !.state = "open"] EXCEPT !.tabs = <<NoTab>>]]
               /\ UNCHANGED <<procs, epoll, children, shells>>
      BY <2>2, <3>2, AttachNothingKept DEF OpenWindow
    <3>3. QED  BY <2>2, <3>1, <3>2 DEF OpenWindow
  <2>3. CASE OpenTab(w)
    BY <2>3, OpenTabKept
  <2>4. CASE SelectTab(w)
    BY <2>4, SelectTabKept
  <2>5. CASE Edit(w)
    BY <2>5, EditKept
  <2>6. CASE \E i \in DOMAIN term[w].tabs : CloseTab(w, i)
    BY <2>6, CloseTabKept
  <2>7. CASE Dismiss(w) \/ CloseAsked(w) \/ Answer(w)
    BY <2>7, ClosingKept
  <2>8. CASE \E complete \in BOOLEAN : Paste(w, complete)
    BY <2>8, PasteKept
  <2>9. QED  BY <2>1, <2>2, <2>3, <2>4, <2>5, <2>6, <2>7, <2>8
<1>3. CASE Loop
  <2>1. CASE EpollWait \/ HandleSignal \/ ReapDone
    BY <2>1, SameShrinks, StillKept DEF EpollWait, HandleSignal, ReapDone
  <2>2. CASE HandleIo
    BY <2>2, HandleIoKept
  <2>3. CASE ReapOne
    BY <2>3, ReapOneKept
  <2>4. QED  BY <1>3, <2>1, <2>2, <2>3 DEF Loop
<1>4. CASE \E p \in Pids : ShellDies(p)
  BY <1>4, ShellDiesKept
<1>5. QED  BY <1>1, <1>2, <1>3, <1>4 DEF Next

(* The inductive invariant of the terminal windows: the tabs of a window,   *)
(* watched_ and the interest list say the same of every descriptor, however *)
(* often the kernel has given its number away; what a tab knows of the      *)
(* death of its shell is true; and the marks around a paste are where the   *)
(* flags say.                                                               *)
THEOREM TerminalInvariant == Spec => []TermInv
<1>1. Init => TermInv
  BY InitKept
<1>2. TermInv /\ [Next]_vars => TermInv'
  BY NextKept
<1>3. QED  BY <1>1, <1>2, PTL DEF Spec

(* The key that the descriptor f of a tab is watched under. *)
KeyOf(f, key) == \E t \in TabsOf(key.win) : t.fd = f /\ t.serial = key.gen

Keys == {[win |-> w, gen |-> t.serial] : w \in Windows, t \in UNION {TabsOf(v) : v \in Windows}}

(* There is one, and the interest list has it. *)
LEMMA OneKey ==
  ASSUME TermInv, NEW f \in DOMAIN epoll
  PROVE  /\ epoll[f] \in Keys /\ KeyOf(f, epoll[f])
         /\ \A key \in Keys : KeyOf(f, key) => key = epoll[f]
<1>1. PICK w \in Windows : \E i \in DOMAIN term[w].tabs : term[w].tabs[i].fd = f
  BY DEF TermInv, Heard
<1>2. PICK i \in DOMAIN term[w].tabs : term[w].tabs[i].fd = f
  BY <1>1
<1>3. f # NoFd
  BY DEF TermInv, Heard
<1>4. epoll[f] = [win |-> w, gen |-> term[w].tabs[i].serial]
  BY <1>2, <1>3 DEF TermInv, Heard
<1>5. term[w].tabs[i] \in TabsOf(w)
  BY <1>2 DEF TabsOf, ToSet
<1>6. epoll[f] \in Keys /\ KeyOf(f, epoll[f])
  BY <1>2, <1>4, <1>5 DEF Keys, KeyOf
<1>7. ASSUME NEW key \in Keys, KeyOf(f, key) PROVE key = epoll[f]
  <2>1. PICK v \in Windows : \E g : key = [win |-> v, gen |-> g]
    BY <1>7 DEF Keys
  <2>2. PICK t \in TabsOf(v) : t.fd = f /\ t.serial = key.gen
    BY <1>7, <2>1 DEF KeyOf
  <2>3. PICK j \in DOMAIN term[v].tabs : t = term[v].tabs[j]
    BY <2>2 DEF TabsOf, ToSet
  <2>4. term[v].tabs[j].fd # NoFd
    BY <1>3, <2>2, <2>3
  <2>5. epoll[term[v].tabs[j].fd] = [win |-> v, gen |-> term[v].tabs[j].serial]
    BY <2>3, <2>4 DEF TermInv, Heard
  <2>6. QED  BY <2>1, <2>2, <2>3, <2>5
<1>8. QED  BY <1>6, <1>7

(* Every shell with a tab is heard under the tab's own key, and nothing     *)
(* else is in the interest list: close_tab(), close_window() and a          *)
(* descriptor number that comes back never leave a tab deaf.                *)
THEOREM EveryTabHeard == Spec => []EveryTabIsHeard
<1>1. TermInv => EveryTabIsHeard
  <2> SUFFICES ASSUME TermInv PROVE EveryTabIsHeard
    OBVIOUS
  <2>1. DOMAIN epoll = OpenFds \ {NoFd}
    <3>1. ASSUME NEW f \in DOMAIN epoll PROVE f \in OpenFds \ {NoFd}
      BY <3>1, OpenFdsAre DEF TermInv, Heard
    <3>2. ASSUME NEW f \in OpenFds \ {NoFd} PROVE f \in DOMAIN epoll
      <4>1. PICK w \in Windows : \E i \in DOMAIN term[w].tabs : term[w].tabs[i].fd = f
        BY <3>2, OpenFdsAre
      <4>2. PICK i \in DOMAIN term[w].tabs : term[w].tabs[i].fd = f
        BY <4>1
      <4>3. QED  BY <3>2, <4>2 DEF TermInv, Heard
    <3>3. QED  BY <3>1, <3>2
  <2>2. \A f \in DOMAIN epoll : epoll[f] = CHOOSE key \in Keys : KeyOf(f, key)
    BY OneKey
  <2>3. epoll = [f \in DOMAIN epoll |-> epoll[f]]
    BY DEF TermInv, Heard
  <2>4. epoll = [f \in OpenFds \ {NoFd} |-> CHOOSE key \in Keys : KeyOf(f, key)]
    BY <2>1, <2>2, <2>3
  <2>5. QED  BY <2>4 DEF EveryTabIsHeard, Keys, KeyOf
<1>2. QED  BY <1>1, TerminalInvariant, PTL

(* A paste that arrives in slices is closed in the shell it was opened in,  *)
(* whatever that shell does to mode 2004 between two slices, unless the     *)
(* user leaves, the shell dies or write() has no room for a mark (on_paste, *)
(* to_guest).                                                               *)
THEOREM PastesAreClosed == Spec => []PasteClosed
<1>1. TermInv => PasteClosed
  <2> SUFFICES ASSUME TermInv, NEW w \in Windows, Open(w), ~term[w].strayed, NEW t \in TabsOf(w)
               PROVE  t.brackets \in (IF term[w].pasting THEN {"closed", "open"} ELSE {"closed"})
    BY DEF PasteClosed
  <2>1. PICK i \in DOMAIN term[w].tabs : t = term[w].tabs[i]
    BY DEF TabsOf, ToSet
  <2>2. t.brackets = IF i = term[w].active /\ term[w].pasting /\ term[w].paste_bracketed
                     THEN "open" ELSE "closed"
    BY <2>1 DEF TermInv, Pasted, Open
  <2>3. QED  BY <2>2
<1>2. QED  BY <1>1, TerminalInvariant, PTL

(* A record that has a state. *)
Stateful(x) == "state" \in DOMAIN x

StateOf(x, y) == Stateful(y) /\ y.state = x.state

(* What the operations on a window leave of its state. *)
LEMMA StatesKept ==
  ASSUME NEW x, Stateful(x)
  PROVE  /\ StateOf(x, Committed(x)) /\ StateOf(x, Stray(x))
         /\ \A p : StateOf(x, Watch(x, p))
         /\ \A g : StateOf(x, Unwatch(x, g))
         /\ \A zs : StateOf(x, TriedToReap(x, zs))
         /\ \A e : StateOf(x, [x EXCEPT !.active = e])
         /\ \A e : StateOf(x, [x EXCEPT !.mode = e])
         /\ \A e : StateOf(x, [x EXCEPT !.asked = e])
         /\ \A e : StateOf(x, [x EXCEPT !.closing = e])
         /\ \A e, f : StateOf(x, [x EXCEPT !.tabs = e, !.active = f])
         /\ \A e, f : StateOf(x, [x EXCEPT !.pasting = e, !.tabs = f])
         /\ \A e, f : StateOf(x, [x EXCEPT !.paste_bracketed = e, !.tabs = f])
         /\ \A e : StateOf(x, [x EXCEPT !.tabs = e])
<1>1. StateOf(x, Committed(x)) /\ StateOf(x, Stray(x))
  BY DEF StateOf, Stateful, Committed, Stray
<1>2. \A p : StateOf(x, Watch(x, p))
  BY DEF StateOf, Stateful, Watch
<1>3. \A g : StateOf(x, Unwatch(x, g))
  BY DEF StateOf, Stateful, Unwatch
<1>4. \A zs : StateOf(x, TriedToReap(x, zs))
  BY DEF StateOf, Stateful, TriedToReap
<1>5. /\ \A e : StateOf(x, [x EXCEPT !.active = e])
      /\ \A e : StateOf(x, [x EXCEPT !.mode = e])
      /\ \A e : StateOf(x, [x EXCEPT !.asked = e])
      /\ \A e : StateOf(x, [x EXCEPT !.closing = e])
      /\ \A e : StateOf(x, [x EXCEPT !.tabs = e])
  BY DEF StateOf, Stateful
<1>6. /\ \A e, f : StateOf(x, [x EXCEPT !.tabs = e, !.active = f])
      /\ \A e, f : StateOf(x, [x EXCEPT !.pasting = e, !.tabs = f])
      /\ \A e, f : StateOf(x, [x EXCEPT !.paste_bracketed = e, !.tabs = f])
  BY DEF StateOf, Stateful
<1>7. QED  BY <1>1, <1>2, <1>3, <1>4, <1>5, <1>6

(* A window that a step does not close stays open. *)
LEMMA StaysOpen ==
  ASSUME TermInv, NEW w \in Windows, Open(w), NEW v, NEW y, term' = [term EXCEPT ![v] = y],
         v = w => StateOf(term[w], y)
  PROVE  term'[w].state = "open"
<1>1. PICK C : term \in [Windows -> TerminalOf(C)]
  BY DEF TermInv, WindowsTyped
<1>2. CASE v = w
  BY <1>1, <1>2 DEF StateOf, Open
<1>3. CASE v # w
  BY <1>1, <1>3 DEF Open
<1>4. QED  BY <1>2, <1>3

(* A window of the invariant has a state. *)
LEMMA HasState ==
  ASSUME TermInv, NEW w \in Windows PROVE Stateful(term[w])
<1>1. PICK C : term[w] \in TerminalOf(C)
  BY WindowIs
<1>2. QED  BY <1>1 DEF TerminalOf, Stateful

(* request_close() of another window, or of this one. *)
LEMMA RequestClosesOnly ==
  ASSUME TermInv, NEW w \in Windows, Open(w), NEW v \in Windows, NEW z, StateOf(term[v], z),
         RequestClose(v, z), term'[w].state # "open"
  PROVE  CanClose(w)
<1>1. CASE CanClose(v)
  <2>1. term' = [term EXCEPT ![v] = [NoTerminal EXCEPT !.state = "gone"]]
    BY <1>1 DEF RequestClose, CloseWindow
  <2>2. v = w
    BY <2>1, StaysOpen
  <2>3. QED  BY <1>1, <2>2
<1>2. CASE ~CanClose(v)
  <2> DEFINE y == [z EXCEPT !.asked = TRUE]
  <2>1. term' = [term EXCEPT ![v] = y]
    BY <1>2 DEF RequestClose
  <2>2. StateOf(z, y)
    BY StatesKept DEF StateOf
  <2> HIDE DEF y
  <2>3. StateOf(term[v], y)
    BY <2>2 DEF StateOf
  <2>4. QED  BY <2>1, <2>3, StaysOpen
<1>3. QED  BY <1>1, <1>2

(* The user closes a window that may close, or that asked. *)
LEMMA UserClosesOnly ==
  ASSUME TermInv, User, NEW w \in Windows, Open(w), term'[w].state # "open"
  PROVE  CanClose(w) \/ term[w].asked
<1>1. PICK v \in Windows :
        \/ OpenWindow(v) \/ OpenTab(v) \/ SelectTab(v) \/ Edit(v)
        \/ \E i \in DOMAIN term[v].tabs : CloseTab(v, i)
        \/ Dismiss(v) \/ CloseAsked(v) \/ Answer(v)
        \/ \E complete \in BOOLEAN : Paste(v, complete)
  BY DEF User
<1> DEFINE x == term[v]
<1>2. Stateful(x) /\ StateOf(x, x)
  BY HasState DEF StateOf
<1>3. CASE OpenWindow(v)
  <2>1. PICK y : term' = [term EXCEPT ![v] = y]
    BY <1>3 DEF OpenWindow
  <2>2. v # w
    BY <1>3 DEF OpenWindow, Open
  <2>3. QED  BY <2>1, <2>2, StaysOpen
<1>4. CASE OpenTab(v)
  <2>1. PICK p, k :
          term' = [term EXCEPT ![v] = [Stray(Committed(Watch(x, p))) EXCEPT !.active = k]]
    BY <1>4 DEF OpenTab
  <2> DEFINE a == Watch(x, p)
             b == Committed(a)
             c == Stray(b)
             y == [c EXCEPT !.active = k]
  <2>2. StateOf(x, a)
    BY <1>2, StatesKept
  <2> HIDE DEF a
  <2>3. StateOf(a, b)
    BY <2>2, StatesKept DEF StateOf
  <2> HIDE DEF b
  <2>4. StateOf(b, c)
    BY <2>3, StatesKept DEF StateOf
  <2> HIDE DEF c
  <2>5. StateOf(c, y)
    BY <2>4, StatesKept DEF StateOf
  <2>6. term' = [term EXCEPT ![v] = y]
    BY <2>1 DEF a, b, c
  <2> HIDE DEF y
  <2>7. StateOf(x, y)
    BY <2>2, <2>3, <2>4, <2>5 DEF StateOf
  <2>8. QED  BY <2>6, <2>7, StaysOpen
<1>5. CASE SelectTab(v)
  <2>1. PICK k : term' = [term EXCEPT ![v] = [Stray(Committed(x)) EXCEPT !.active = k]]
    BY <1>5 DEF SelectTab
  <2> DEFINE b == Committed(x)
             c == Stray(b)
             y == [c EXCEPT !.active = k]
  <2>2. StateOf(x, b)
    BY <1>2, StatesKept
  <2> HIDE DEF b
  <2>3. StateOf(b, c)
    BY <2>2, StatesKept DEF StateOf
  <2> HIDE DEF c
  <2>4. StateOf(c, y)
    BY <2>3, StatesKept DEF StateOf
  <2>5. term' = [term EXCEPT ![v] = y]
    BY <2>1 DEF b, c
  <2> HIDE DEF y
  <2>6. StateOf(x, y)
    BY <2>2, <2>3, <2>4 DEF StateOf
  <2>7. QED  BY <2>5, <2>6, StaysOpen
<1>6. CASE Edit(v)
  <2>1. CASE term' = [term EXCEPT ![v] = Committed(x)]
    BY <1>2, <2>1, StatesKept, StaysOpen
  <2>2. CASE term' = [term EXCEPT ![v] = [Stray(x) EXCEPT !.mode = "Editing"]]
    <3> DEFINE c == Stray(x)
               y == [c EXCEPT !.mode = "Editing"]
    <3>1. StateOf(x, c)
      BY <1>2, StatesKept
    <3> HIDE DEF c
    <3>2. StateOf(c, y)
      BY <3>1, StatesKept DEF StateOf
    <3>3. term' = [term EXCEPT ![v] = y]
      BY <2>2 DEF c
    <3> HIDE DEF y
    <3>4. StateOf(x, y)
      BY <3>1, <3>2 DEF StateOf
    <3>5. QED  BY <3>3, <3>4, StaysOpen
  <2>3. QED  BY <1>6, <2>1, <2>2 DEF Edit
<1>7. CASE \E i \in DOMAIN x.tabs : CloseTab(v, i)
  <2>1. PICK i \in DOMAIN x.tabs : CloseTab(v, i)
    BY <1>7
  <2> DEFINE b == Committed(x)
             c == Stray(b)
             t == c.tabs[i]
             rest == RemoveAt(c.tabs, i)
             u == Unwatch(c, t.serial)
             k == IF u.active > Len(rest) THEN Len(rest) ELSE u.active
             left == [u EXCEPT !.tabs = rest, !.active = k]
             late == [left EXCEPT !.closing = Append(left.closing, t)]
  <2>2. StateOf(x, b)
    BY <1>2, StatesKept
  <2> HIDE DEF b
  <2>3. StateOf(b, c)
    BY <2>2, StatesKept DEF StateOf
  <2>4. StateOf(x, c)
    BY <2>2, <2>3 DEF StateOf
  <2>5. \/ RequestClose(v, c)
        \/ term' = [term EXCEPT ![v] = left]
        \/ term' = [term EXCEPT ![v] = late]
    BY <2>1 DEF CloseTab, b
  <2>6. CASE RequestClose(v, c)
    <3> HIDE DEF c
    <3>1. QED  BY <2>4, <2>6, RequestClosesOnly
  <2> HIDE DEF c, t, rest
  <2>7. StateOf(c, u)
    BY <2>3, StatesKept DEF StateOf
  <2> HIDE DEF u, k
  <2>8. StateOf(u, left)
    <3>1. Stateful(u)
      BY <2>7 DEF StateOf
    <3>2. QED  BY <3>1, StatesKept
  <2> HIDE DEF left
  <2>9. StateOf(left, late)
    BY <2>8, StatesKept DEF StateOf
  <2> HIDE DEF late
  <2>10. StateOf(x, left) /\ StateOf(x, late)
    BY <2>4, <2>7, <2>8, <2>9 DEF StateOf
  <2>11. QED  BY <2>5, <2>6, <2>10, StaysOpen
<1>8. CASE Dismiss(v)
  <2>1. RequestClose(v, Committed(x)) /\ StateOf(x, Committed(x))
    BY <1>2, <1>8, StatesKept DEF Dismiss
  <2>2. QED  BY <2>1, RequestClosesOnly
<1>9. CASE CloseAsked(v)
  BY <1>2, <1>9, RequestClosesOnly DEF CloseAsked
<1>10. CASE Answer(v)
  <2>1. PICK y : term' = [term EXCEPT ![v] = y]
    BY <1>10 DEF Answer, CloseWindow
  <2>2. v = w
    BY <2>1, StaysOpen
  <2>3. QED  BY <1>10, <2>2 DEF Answer
<1>11. CASE \E complete \in BOOLEAN : Paste(v, complete)
  <2>1. PICK complete \in BOOLEAN : Paste(v, complete)
    BY <1>11
  <2>2. CASE UNCHANGED term
    BY <2>2 DEF Open
  <2>3. CASE term' = [term EXCEPT ![v] = Stray(x)]
    BY <1>2, <2>3, StatesKept, StaysOpen
  <2>4. CASE term' # term /\ term' # [term EXCEPT ![v] = Stray(x)]
    <3> DEFINE a == x.active
               y == AfterMark(x)
    <3>1. \/ \E B, p : term' = [term EXCEPT ![v] = Went(y, a, B, p)]
          \/ \E B, p, q : term' = [term EXCEPT ![v] = LostMark(x, a, B, p, q)]
      <4> DEFINE B == IF complete /\ y.paste_bracketed THEN Shut(y.tabs[a].brackets)
                      ELSE y.tabs[a].brackets
      <4>1. \/ term' = [term EXCEPT ![v] = Went(y, a, B, ~complete)]
            \/ \E L : term' = [term EXCEPT ![v] = LostMark(x, a, L, ~complete, y.paste_bracketed)]
        BY <2>1, <2>4 DEF Paste, AfterMark, Began, Went, LostMark, ClosesBracket, ActiveTab
      <4> HIDE DEF B, y
      <4>2. QED  BY <4>1
    <3>2. \A B1, p1 : StateOf(x, Began(x, a, B1, p1))
      BY <1>2 DEF Began, StateOf, Stateful
    <3>3. StateOf(x, y)
      BY <1>2, <3>2 DEF AfterMark
    <3> HIDE DEF y
    <3>4. ASSUME NEW B, NEW p PROVE StateOf(x, Went(y, a, B, p))
      <4>1. StateOf(y, Went(y, a, B, p))
        BY <3>3 DEF Went, StateOf, Stateful
      <4>2. QED  BY <3>3, <4>1 DEF StateOf
    <3>5. ASSUME NEW B, NEW p, NEW q PROVE StateOf(x, LostMark(x, a, B, p, q))
      BY <1>2 DEF LostMark, StateOf, Stateful
    <3>6. QED  BY <3>1, <3>4, <3>5, StaysOpen
  <2>5. QED  BY <2>2, <2>3, <2>4
<1>12. QED  BY <1>1, <1>3, <1>4, <1>5, <1>6, <1>7, <1>8, <1>9, <1>10, <1>11

(* The loop and the kernel close no window. *)
LEMMA OthersCloseNone ==
  ASSUME TermInv, NEW w \in Windows, Open(w), Loop \/ \E p \in Pids : ShellDies(p)
  PROVE  term'[w].state = "open"
<1>1. CASE UNCHANGED term
  BY <1>1 DEF Open
<1>2. CASE HandleIo /\ term' # term
  <2> DEFINE v == Head(batch).win
  <2>1. PICK i \in DOMAIN term[v].tabs, on \in BOOLEAN :
          term' = [term EXCEPT ![v].tabs[i].bracketed_paste = on]
    BY <1>2 DEF HandleIo
  <2> HIDE DEF v
  <2> DEFINE us == [term[v].tabs EXCEPT ![i].bracketed_paste = on]
             y == [term[v] EXCEPT !.tabs = us]
  <2>2. term' = [term EXCEPT ![v] = y]
    BY <2>1
  <2> HIDE DEF us
  <2>3. v = w => StateOf(term[w], y)
    BY HasState, StatesKept
  <2> HIDE DEF y
  <2>4. QED  BY <2>2, <2>3, StaysOpen
<1>3. CASE ReapOne /\ term' # term
  <2>1. PICK v, zs : term' = [term EXCEPT ![v] = TriedToReap(term[v], zs)]
    <3>1. PICK v, p : term' = [term EXCEPT ![v] = TriedToReap(term[v], Zombies \ {p})]
      BY <1>3 DEF ReapOne
    <3>2. QED  BY <3>1
  <2>2. v = w => StateOf(term[w], TriedToReap(term[v], zs))
    BY HasState, StatesKept
  <2>3. QED  BY <2>1, <2>2, StaysOpen
<1>4. QED  BY <1>1, <1>2, <1>3 DEF Loop, EpollWait, HandleSignal, ReapDone, ShellDies

(* A window that runs a shell never closes without its question, in         *)
(* whichever of its tabs the shell is, and even if the shell got the number *)
(* of one that had died in another tab.                                     *)
THEOREM NobodyClosedAlive == Spec => AskedWhileAlive
<1>1. ASSUME TermInv, Next, NEW w \in Windows, Open(w), term'[w].state = "gone",
             ~term[w].asked, NEW t \in TabsOf(w)
      PROVE  ~Lives(t)
  <2>1. CanClose(w)
    <3>1. CASE User
      BY <1>1, <3>1, UserClosesOnly
    <3>2. CASE Loop \/ \E p \in Pids : ShellDies(p)
      BY <1>1, <3>2, OthersCloseNone
    <3>3. QED  BY <1>1, <3>1, <3>2 DEF Next
  <2>2. t.exited \/ t.pid = 0
    BY <1>1, <2>1 DEF CanClose
  <2>3. PICK i \in DOMAIN term[w].tabs : t = term[w].tabs[i]
    BY <1>1 DEF TabsOf, ToSet
  <2>4. CASE t.exited
    BY <1>1, <2>3, <2>4 DEF TermInv, Dead, LivesAs, Lives
  <2>5. CASE t.pid = 0
    <3>1. 0 \notin DOMAIN procs
      BY <1>1, TerminalAssumption DEF TermInv, ProcsTyped
    <3>2. QED  BY <2>5, <3>1 DEF Lives
  <2>6. QED  BY <2>2, <2>4, <2>5
<1> DEFINE A == \A w \in Windows :
                  Open(w) /\ term'[w].state = "gone" /\ ~term[w].asked =>
                    \A t \in TabsOf(w) : ~Lives(t)
<1>2. TermInv /\ Next => A
  BY <1>1
<1> HIDE DEF A
<1>3. TermInv /\ [Next]_vars => [A]_vars
  BY <1>2
<1>4. Spec => [][A]_vars
  BY <1>3, TerminalInvariant, PTL DEF Spec
<1>5. QED  BY <1>4 DEF AskedWhileAlive, A
=============================================================================
