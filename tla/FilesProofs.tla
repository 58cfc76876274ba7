---------------------------- MODULE FilesProofs ----------------------------
(***************************************************************************)
(* Proofs about the file manager and its job.                              *)
(***************************************************************************)
EXTENDS Files, FiniteSetTheorems, TLAPS

-----------------------------------------------------------------------------
(* The selection. *)

Fields ==
  {"path", "entries", "visible", "filter", "marked", "back", "forward", "sel", "by", "desc"}

(* A pane is a record of these fields. *)
Shape(pn) == pn = [f \in Fields |-> pn[f]]

(* Where a pane is and has been. *)
SameWay(q, pn) == q.path = pn.path /\ q.back = pn.back /\ q.forward = pn.forward

(* A pane before settle_pane(): the cursor may be past the end. *)
Loose(pn) ==
  Shape(pn) /\ IsFiniteSet(pn.entries) /\ pn.sel \in Nat /\ Size(pn) \in Nat

Settled(pn) == Loose(pn) /\ (Size(pn) > 0 => pn.sel < Size(pn))

FiniteDisk(disk) == IsFiniteSet(DOMAIN disk)

(* A function on 1..n is a sequence of length n. *)
LEMMA LenOf ==
  ASSUME NEW n \in Nat, NEW f, DOMAIN f = 1..n
  PROVE  Len(f) = n
  OBVIOUS

-----------------------------------------------------------------------------
(* Sequences, whatever they are made of: paths, histories, orders. *)

IsSeq(s) == Len(s) \in Nat /\ s = [i \in 1..Len(s) |-> s[i]]

LEMMA SeqIs ==
  ASSUME NEW s
  PROVE  /\ IsSeq(s) => s \in Seq({s[i] : i \in 1..Len(s)})
         /\ \A S : s \in Seq(S) => IsSeq(s)
  <1>1. ASSUME IsSeq(s) PROVE s \in Seq({s[i] : i \in 1..Len(s)})
    <2> DEFINE S == {s[i] : i \in 1..Len(s)}
    <2>1. \A i \in 1..Len(s) : s[i] \in S
      OBVIOUS
    <2> HIDE DEF S
    <2> QED
      BY <1>1, <2>1 DEF IsSeq, S
  <1>2. ASSUME NEW S, s \in Seq(S) PROVE IsSeq(s)
    BY <1>2 DEF IsSeq
  <1> QED
    BY <1>1, <1>2

LEMMA FunctionIsSeq ==
  ASSUME NEW n \in Nat, NEW s, s = [i \in 1..n |-> s[i]]
  PROVE  IsSeq(s) /\ Len(s) = n
  <1>1. DOMAIN s = 1..n
    OBVIOUS
  <1>2. Len(s) = n
    BY <1>1, LenOf
  <1> QED
    BY <1>2 DEF IsSeq

LEMMA AppendIs ==
  ASSUME NEW s, IsSeq(s), NEW x
  PROVE  /\ IsSeq(Append(s, x)) /\ Len(Append(s, x)) = Len(s) + 1
         /\ \A i \in 1..Len(s) : Append(s, x)[i] = s[i]
         /\ Append(s, x)[Len(s) + 1] = x
         /\ Last(Append(s, x)) = x /\ Front(Append(s, x)) = s
  <1> DEFINE S == {s[i] : i \in 1..Len(s)} \cup {x}
  <1>1. s \in Seq(S)
    <2>1. s \in Seq({s[i] : i \in 1..Len(s)})
      BY SeqIs
    <2> HIDE DEF S
    <2>2. {s[i] : i \in 1..Len(s)} \subseteq S
      BY DEF S
    <2> QED
      BY <2>1, <2>2
  <1>2. x \in S
    OBVIOUS
  <1> HIDE DEF S
  <1>3. /\ Append(s, x) \in Seq(S) /\ Len(Append(s, x)) = Len(s) + 1
        /\ \A i \in 1..Len(s) : Append(s, x)[i] = s[i]
        /\ Append(s, x)[Len(s) + 1] = x
    BY <1>1, <1>2
  <1>4. Last(Append(s, x)) = x
    BY <1>3 DEF Last
  <1>5. Front(Append(s, x)) = s
    BY <1>1, <1>2 DEF Front
  <1> QED
    BY <1>3, <1>4, <1>5, SeqIs

LEMMA SubSeqIs ==
  ASSUME NEW s, IsSeq(s), NEW m \in 1..(Len(s) + 1), NEW n \in 0..Len(s), m <= n + 1
  PROVE  /\ IsSeq(SubSeq(s, m, n)) /\ Len(SubSeq(s, m, n)) = n - m + 1
         /\ \A i \in 1..(n - m + 1) : SubSeq(s, m, n)[i] = s[m + i - 1]
  <1> DEFINE S == {s[i] : i \in 1..Len(s)}
  <1>1. s \in Seq(S) /\ Len(s) \in Nat
    BY SeqIs DEF IsSeq
  <1> HIDE DEF S
  <1>2. /\ SubSeq(s, m, n) \in Seq(S) /\ Len(SubSeq(s, m, n)) = n - m + 1
        /\ \A i \in 1..(n - m + 1) : SubSeq(s, m, n)[i] = s[m + i - 1]
    BY <1>1
  <1> QED
    BY <1>2, SeqIs

LEMMA ConcatIs ==
  ASSUME NEW s, IsSeq(s), NEW t, IsSeq(t)
  PROVE  /\ IsSeq(s \o t) /\ Len(s \o t) = Len(s) + Len(t)
         /\ \A i \in 1..Len(s) : (s \o t)[i] = s[i]
         /\ \A i \in 1..Len(t) : (s \o t)[Len(s) + i] = t[i]
  <1> DEFINE A == {s[i] : i \in 1..Len(s)}
             B == {t[i] : i \in 1..Len(t)}
             S == A \cup B
  <1>1. s \in Seq(A) /\ t \in Seq(B)
    BY SeqIs
  <1> HIDE DEF A, B
  <1>2. s \in Seq(S) /\ t \in Seq(S)
    BY <1>1
  <1> HIDE DEF S
  <1>3. /\ s \o t \in Seq(S) /\ Len(s \o t) = Len(s) + Len(t)
        /\ \A i \in 1..Len(s) : (s \o t)[i] = s[i]
        /\ \A i \in 1..Len(t) : (s \o t)[Len(s) + i] = t[i]
    BY <1>2
  <1> QED
    BY <1>3, SeqIs

(* Two sequences with the same length and the same elements. *)
LEMMA SameSeq ==
  ASSUME NEW s, IsSeq(s), NEW t, IsSeq(t), Len(s) = Len(t),
         \A i \in 1..Len(s) : s[i] = t[i]
  PROVE  s = t
  BY DEF IsSeq

LEMMA EmptyIsSeq == IsSeq(<<>>) /\ Len(<<>>) = 0 /\ \A s : IsSeq(s) /\ Len(s) = 0 => s = <<>>
  <1>1. IsSeq(<<>>) /\ Len(<<>>) = 0
    BY DEF IsSeq
  <1>2. ASSUME NEW s, IsSeq(s), Len(s) = 0 PROVE s = <<>>
    BY <1>1, <1>2 DEF IsSeq
  <1> QED
    BY <1>1, <1>2

LEMMA FrontIs ==
  ASSUME NEW s, IsSeq(s), s # <<>>
  PROVE  /\ Len(s) \in Nat \ {0}
         /\ IsSeq(Front(s)) /\ Len(Front(s)) = Len(s) - 1
         /\ \A i \in 1..(Len(s) - 1) : Front(s)[i] = s[i]
         /\ s = Append(Front(s), Last(s))
  <1>1. Len(s) \in Nat \ {0}
    BY EmptyIsSeq DEF IsSeq
  <1>2. /\ IsSeq(Front(s)) /\ Len(Front(s)) = Len(s) - 1
        /\ \A i \in 1..(Len(s) - 1) : Front(s)[i] = s[i]
    <2> DEFINE n == Len(s) - 1
    <2>1. 1 \in 1..(Len(s) + 1) /\ n \in 0..Len(s) /\ 1 <= n + 1
      BY <1>1
    <2>2. /\ IsSeq(SubSeq(s, 1, n)) /\ Len(SubSeq(s, 1, n)) = n - 1 + 1
          /\ \A i \in 1..(n - 1 + 1) : SubSeq(s, 1, n)[i] = s[1 + i - 1]
      BY <2>1, SubSeqIs
    <2> QED
      BY <1>1, <2>2 DEF Front
  <1>3. s = Append(Front(s), Last(s))
    <2> DEFINE f == Front(s)
               t == Append(f, Last(s))
    <2>1. /\ IsSeq(t) /\ Len(t) = Len(s)
          /\ \A i \in 1..Len(f) : t[i] = f[i]
          /\ t[Len(f) + 1] = s[Len(s)]
      BY <1>1, <1>2, AppendIs DEF Last
    <2>2. \A i \in 1..Len(s) : s[i] = t[i]
      <3> HIDE DEF t, f
      <3> QED
        BY <1>1, <1>2, <2>1 DEF f
    <2> HIDE DEF t
    <2> QED
      BY <2>1, <2>2, SameSeq DEF t
  <1> QED
    BY <1>1, <1>2, <1>3

-----------------------------------------------------------------------------
(* The operations on one pane. *)

(* Another cursor in the same list. *)
LEMMA CursorIs ==
  ASSUME NEW pn, Shape(pn), NEW i
  PROVE  /\ Shape([pn EXCEPT !.sel = i]) /\ [pn EXCEPT !.sel = i].sel = i
         /\ [pn EXCEPT !.sel = i].entries = pn.entries
         /\ [pn EXCEPT !.sel = i].visible = pn.visible
         /\ SameWay([pn EXCEPT !.sel = i], pn)
  BY DEF Shape, Fields, SameWay

LEMMA SettleSettles ==
  ASSUME NEW pn, Shape(pn), IsFiniteSet(pn.entries), Size(pn) \in Nat,
         pn.sel \in Int, pn.sel >= 0 \/ Size(pn) = 0
  PROVE  Settled(Settle(pn)) /\ SameWay(Settle(pn), pn)
  <1> DEFINE c == IF Size(pn) = 0 THEN 0
                  ELSE IF pn.sel >= Size(pn) THEN Size(pn) - 1 ELSE pn.sel
             q == [pn EXCEPT !.sel = c]
  <1>1. c \in Nat /\ (Size(pn) > 0 => c < Size(pn))
    OBVIOUS
  <1>2. Settle(pn) = q
    BY DEF Settle
  <1> HIDE DEF c
  <1>3. /\ Shape(q) /\ q.sel = c /\ q.entries = pn.entries /\ q.visible = pn.visible
        /\ SameWay(q, pn)
    BY CursorIs
  <1> HIDE DEF q
  <1> QED
    BY <1>1, <1>2, <1>3 DEF Settled, Loose, Size

LEMMA SelectSettles ==
  ASSUME NEW pn, Loose(pn), NEW i \in Int, i >= 0 \/ Size(pn) = 0
  PROVE  Settled(Select(pn, i)) /\ SameWay(Select(pn, i), pn)
  <1> DEFINE q == [pn EXCEPT !.sel = i]
  <1>1. /\ Shape(q) /\ q.sel = i /\ q.entries = pn.entries /\ q.visible = pn.visible
        /\ SameWay(q, pn)
    BY CursorIs DEF Loose
  <1>2. Select(pn, i) = Settle(q)
    BY DEF Select
  <1> HIDE DEF q
  <1>3. IsFiniteSet(q.entries) /\ Size(q) \in Nat /\ Size(q) = Size(pn)
    BY <1>1 DEF Loose, Size
  <1>4. Settled(Settle(q)) /\ SameWay(Settle(q), q)
    BY <1>1, <1>3, SettleSettles
  <1> QED
    BY <1>1, <1>2, <1>4 DEF SameWay

LEMMA IndexIsNat ==
  ASSUME NEW pn, Loose(pn), NEW n, NEW o \in Nat
  PROVE  IndexOf(pn, n, o) \in Nat
  BY DEF Loose, IndexOf

(* What does not touch the list, the entries and the cursor. *)
LEMMA MarkedSettled ==
  ASSUME NEW pn, Settled(pn), NEW x
  PROVE  Settled([pn EXCEPT !.marked = x]) /\ SameWay([pn EXCEPT !.marked = x], pn)
  BY DEF Loose, Settled, Shape, Fields, Size, SameWay

LEMMA SortedIs ==
  ASSUME NEW es, IsFiniteSet(es), NEW filter, NEW by, NEW desc
  PROVE  /\ Len(Sorted(Filtered(es, filter), by, desc)) \in 0..Cardinality(es)
         /\ DOMAIN Sorted(Filtered(es, filter), by, desc)
              = 1..Len(Sorted(Filtered(es, filter), by, desc))
  <1> DEFINE fl == Filtered(es, filter)
             list == Sorted(fl, by, desc)
  <1>1. fl \in SUBSET es
    BY DEF Filtered
  <1>2. /\ IsFiniteSet(fl)
        /\ Cardinality(fl) <= Cardinality(es)
    BY <1>1, FS_Subset
  <1>3. Cardinality(fl) \in Nat /\ Cardinality(es) \in Nat
    BY <1>2, FS_CardinalityType
  <1>4. DOMAIN list = 1..Cardinality(fl)
    BY DEF Sorted
  <1> HIDE DEF list, fl
  <1>5. Len(list) = Cardinality(fl)
    BY <1>3, <1>4, LenOf
  <1>6. Len(list) \in 0..Cardinality(es) /\ DOMAIN list = 1..Len(list)
    BY <1>2, <1>3, <1>4, <1>5
  <1> QED
    BY <1>6 DEF list, fl

LEMMA ReselectedIs ==
  ASSUME NEW pn, pn.sel \in Nat, NEW list, Len(list) \in Nat, DOMAIN list = 1..Len(list)
  PROVE  /\ Reselected(pn, list) \in 0..Len(list)
         /\ Len(list) > 0 => Reselected(pn, list) < Len(list)
  <1> DEFINE kept == {i \in DOMAIN list : pn.sel < Size(pn) /\ list[i].name = NameAt(pn, pn.sel)}
             here == CHOOSE i \in kept : TRUE
             at == IF kept # {} THEN here - 1
                   ELSE IF pn.sel < Len(list) THEN pn.sel
                   ELSE IF list = <<>> THEN 0 ELSE Len(list) - 1
  <1>1. kept # {} => here \in 1..Len(list)
    OBVIOUS
  <1>2. Len(list) = 0 => list = <<>>
    OBVIOUS
  <1>a. list = <<>> => Len(list) = 0
    OBVIOUS
  <1>3. at \in 0..Len(list) /\ (Len(list) > 0 => at < Len(list))
    <2> HIDE DEF kept, here
    <2> QED
      BY <1>1, <1>2, <1>a
  <1>4. Reselected(pn, list) =
          IF at = 0 /\ pn.filter # <<>> /\ Len(list) > 1 /\ list[1].name = UpName THEN 1 ELSE at
    BY DEF Reselected
  <1> QED
    <2> HIDE DEF at
    <2> QED
      BY <1>3, <1>4

(* refilter() leaves the cursor in the list, whatever it was before. *)
LEMMA RefilterSettles ==
  ASSUME NEW pn, Shape(pn), IsFiniteSet(pn.entries), pn.sel \in Nat
  PROVE  /\ Settled(Refilter(pn))
         /\ SameWay(Refilter(pn), pn)
  <1> DEFINE list == Sorted(Filtered(pn.entries, pn.filter), pn.by, pn.desc)
             n == Cardinality(pn.entries)
             Q(i) == [pn EXCEPT !.visible = list, !.sel = i]
             c == Reselected(pn, list)
  <1>1. n \in Nat /\ Len(list) \in 0..n /\ DOMAIN list = 1..Len(list)
    BY FS_CardinalityType, SortedIs
  <1> HIDE DEF list, n
  <1>2. c \in 0..n /\ (Len(list) > 0 => c < Len(list))
    BY <1>1, ReselectedIs
  <1>3. \A i \in 0..n : Q(i).visible = list /\ Q(i).sel = i
    BY DEF Shape, Fields
  <1> HIDE DEF c
  <1>4. Refilter(pn) = CHOOSE q \in {Q(i) : i \in 0..n} : q.sel = Reselected(pn, q.visible)
    BY DEF Refilter, list, n
  <1> HIDE DEF Q
  <1>5. Q(c).sel = Reselected(pn, Q(c).visible)
    BY <1>2, <1>3 DEF c
  <1>6. /\ Refilter(pn) \in {Q(i) : i \in 0..n}
        /\ Refilter(pn).sel = Reselected(pn, Refilter(pn).visible)
    BY <1>2, <1>4, <1>5
  <1>7. PICK i \in 0..n : Refilter(pn) = Q(i)
    BY <1>6
  <1>8. i = c
    BY <1>3, <1>6, <1>7 DEF c
  <1>9. /\ Shape(Q(i)) /\ Q(i).entries = pn.entries /\ Q(i).sel = i
        /\ Q(i).visible = list /\ SameWay(Q(i), pn)
    BY DEF Shape, Fields, Q, SameWay
  <1> QED
    BY <1>1, <1>2, <1>7, <1>8, <1>9 DEF Settled, Loose, Size

(* A directory of a finite disk has finitely many entries. *)
LEMMA EntriesFinite ==
  ASSUME NEW disk, FiniteDisk(disk), NEW p, NEW hidden
  PROVE  IsFiniteSet(Entries(disk, p, hidden))
  <1> DEFINE S == {q \in Children(disk, p) : hidden \/ Last(q) \notin Hidden}
             Entry(q) == [name |-> Last(q), dir |-> IsDir(disk, q), size |-> disk[q].data]
             T == {Entry(q) : q \in S}
             up == [name |-> UpName, dir |-> TRUE, size |-> 0]
             U == {up : x \in {p} \ {<<>>}}
  <1>1. S \in SUBSET DOMAIN disk
    BY DEF Children, Below
  <1>2. IsFiniteSet(S)
    BY <1>1, FS_Subset DEF FiniteDisk
  <1> HIDE DEF S, Entry
  <1> DEFINE f == [q \in S |-> Entry(q)]
  <1>a. f \in [S -> T] /\ \A q \in S : f[q] = Entry(q)
    OBVIOUS
  <1>3. f \in Surjection(S, T)
    <2> HIDE DEF f
    <2>1. \A t \in T : \E q \in S : f[q] = t
      BY <1>a
    <2> QED
      BY <1>a, <2>1 DEF Surjection
  <1> HIDE DEF f
  <1>4. IsFiniteSet(T)
    BY <1>2, <1>3, FS_Surjection
  <1>5. U \in SUBSET {up}
    OBVIOUS
  <1>6. IsFiniteSet(U)
    <2> HIDE DEF up, U
    <2>1. IsFiniteSet({up})
      BY FS_Singleton
    <2> QED
      BY <1>5, <2>1, FS_Subset
  <1>7. IsFiniteSet(T \cup U)
    BY <1>4, <1>6, FS_Union
  <1>8. Entries(disk, p, hidden) = IF ~IsDir(disk, p) THEN {} ELSE T \cup U
    BY DEF Entries, S, Entry
  <1> QED
    BY <1>7, <1>8, FS_EmptySet

(* Paths that were visited. *)
IsHistory(h) == IsSeq(h) /\ \A i \in 1..Len(h) : IsSeq(h[i])

(* A pane between two gestures. *)
PaneOK(pn) ==
  Settled(pn) /\ IsSeq(pn.path) /\ IsHistory(pn.back) /\ IsHistory(pn.forward)

LEMMA SameWayOK ==
  ASSUME NEW pn, PaneOK(pn), NEW q, Settled(q), SameWay(q, pn)
  PROVE  PaneOK(q)
  BY DEF PaneOK, SameWay

(* The operations on one pane keep the cursor in the list. *)
LEMMA LoadSettles ==
  ASSUME NEW pn, Settled(pn), NEW disk, FiniteDisk(disk), NEW p, NEW hidden
  PROVE  LET q == Load(pn, disk, p, hidden)
         IN  Settled(q) /\ q.path = p /\ q.back = pn.back /\ q.forward = pn.forward
  <1> DEFINE es == Entries(disk, p, hidden)
             start == [pn EXCEPT !.path = p, !.entries = es, !.visible = <<>>,
                                 !.filter = <<>>, !.marked = {}, !.sel = 0]
             fresh == Refilter(start)
             n == pn.path[Len(p) + 1]
             to == Select(fresh, IndexOf(fresh, n, fresh.sel))
  <1>1. IsFiniteSet(es)
    BY EntriesFinite
  <1> HIDE DEF es
  <1>2. /\ Shape(start) /\ start.entries = es /\ start.sel = 0
        /\ start.path = p /\ start.back = pn.back /\ start.forward = pn.forward
    BY DEF Settled, Loose, Shape, Fields
  <1> HIDE DEF start
  <1>3. Settled(fresh) /\ SameWay(fresh, start)
    BY <1>1, <1>2, RefilterSettles
  <1> HIDE DEF fresh, n
  <1>4. Loose(fresh) /\ fresh.sel \in Nat
    BY <1>3 DEF Settled, Loose
  <1>5. IndexOf(fresh, n, fresh.sel) \in Nat
    BY <1>4, IndexIsNat
  <1>6. Settled(to) /\ SameWay(to, fresh)
    BY <1>4, <1>5, SelectSettles
  <1>7. Load(pn, disk, p, hidden) = IF IsStrictPrefix(p, pn.path) THEN to ELSE fresh
    BY DEF Load, fresh, start, es, n
  <1> HIDE DEF to
  <1>8. \A q \in {to, fresh} :
          Settled(q) /\ q.path = p /\ q.back = pn.back /\ q.forward = pn.forward
    BY <1>2, <1>3, <1>6 DEF SameWay
  <1> QED
    BY <1>7, <1>8

LEMMA AppendHistory ==
  ASSUME NEW h, IsHistory(h), NEW p, IsSeq(p)
  PROVE  IsHistory(Append(h, p))
  <1> DEFINE g == Append(h, p)
  <1>1. /\ IsSeq(g) /\ Len(g) = Len(h) + 1 /\ g[Len(h) + 1] = p
        /\ \A i \in 1..Len(h) : g[i] = h[i]
    BY AppendIs DEF IsHistory
  <1> HIDE DEF g
  <1>2. IsHistory(g)
    BY <1>1 DEF IsHistory, IsSeq
  <1> QED
    BY <1>2 DEF g

LEMMA FrontHistory ==
  ASSUME NEW h, IsHistory(h), h # <<>>
  PROVE  IsHistory(Front(h)) /\ IsSeq(Last(h))
  <1>1. /\ Len(h) \in Nat \ {0} /\ IsSeq(Front(h)) /\ Len(Front(h)) = Len(h) - 1
        /\ \A i \in 1..(Len(h) - 1) : Front(h)[i] = h[i]
    BY FrontIs DEF IsHistory
  <1>2. IsHistory(Front(h))
    BY <1>1 DEF IsHistory
  <1>3. IsSeq(Last(h))
    BY <1>1 DEF IsHistory, Last
  <1> QED
    BY <1>2, <1>3

LEMMA WentToKeeps ==
  ASSUME NEW pn, PaneOK(pn), NEW disk, FiniteDisk(disk), NEW p, IsSeq(p), NEW hidden
  PROVE  PaneOK(WentTo(pn, disk, p, hidden))
  <1> DEFINE q == Load(pn, disk, p, hidden)
             h == Append(pn.back, pn.path)
             r == [q EXCEPT !.back = h, !.forward = <<>>]
  <1>1. Settled(q) /\ q.path = p /\ q.back = pn.back /\ q.forward = pn.forward
    <2>1. Settled(pn)
      BY DEF PaneOK
    <2> QED
      BY <2>1, LoadSettles
  <1>2. IsHistory(h)
    BY AppendHistory DEF PaneOK
  <1>3. IsHistory(<<>>)
    BY EmptyIsSeq DEF IsHistory
  <1>4. WentTo(pn, disk, p, hidden) = IF p = pn.path \/ ~IsDir(disk, p) THEN pn ELSE r
    BY <1>1 DEF WentTo
  <1> HIDE DEF q, h
  <1>5. Settled(r) /\ r.path = q.path /\ r.back = h /\ r.forward = <<>>
    BY <1>1 DEF Loose, Settled, Shape, Fields, Size
  <1> HIDE DEF r
  <1>6. PaneOK(r)
    BY <1>1, <1>2, <1>3, <1>5 DEF PaneOK
  <1> QED
    BY <1>4, <1>6

LEMMA WentBackKeeps ==
  ASSUME NEW pn, PaneOK(pn), NEW disk, FiniteDisk(disk), NEW hidden
  PROVE  PaneOK(WentBack(pn, disk, hidden)) /\ PaneOK(WentForward(pn, disk, hidden))
  <1>1. ASSUME pn.back # <<>>
        PROVE  PaneOK([Load(pn, disk, Last(pn.back), hidden) EXCEPT
                         !.back = Front(@), !.forward = Append(@, pn.path)])
    <2> DEFINE q == Load(pn, disk, Last(pn.back), hidden)
               r == [q EXCEPT !.back = Front(@), !.forward = Append(@, pn.path)]
    <2>1. IsHistory(Front(pn.back)) /\ IsSeq(Last(pn.back))
      BY <1>1, FrontHistory DEF PaneOK
    <2>2. IsHistory(Append(pn.forward, pn.path))
      BY AppendHistory DEF PaneOK
    <2>3. Settled(q) /\ q.path = Last(pn.back) /\ q.back = pn.back /\ q.forward = pn.forward
      BY LoadSettles DEF PaneOK
    <2> HIDE DEF q
    <2>4. Settled(r) /\ r.path = q.path /\ r.back = Front(q.back) /\ r.forward = Append(q.forward, pn.path)
      BY <2>3 DEF Loose, Settled, Shape, Fields, Size
    <2> HIDE DEF r
    <2>5. PaneOK(r)
      BY <2>1, <2>2, <2>3, <2>4 DEF PaneOK
    <2> QED
      BY <2>5 DEF r, q
  <1>2. ASSUME pn.forward # <<>>
        PROVE  PaneOK([Load(pn, disk, Last(pn.forward), hidden) EXCEPT
                         !.forward = Front(@), !.back = Append(@, pn.path)])
    <2> DEFINE q == Load(pn, disk, Last(pn.forward), hidden)
               r == [q EXCEPT !.forward = Front(@), !.back = Append(@, pn.path)]
    <2>1. IsHistory(Front(pn.forward)) /\ IsSeq(Last(pn.forward))
      BY <1>2, FrontHistory DEF PaneOK
    <2>2. IsHistory(Append(pn.back, pn.path))
      BY AppendHistory DEF PaneOK
    <2>3. Settled(q) /\ q.path = Last(pn.forward) /\ q.back = pn.back /\ q.forward = pn.forward
      BY LoadSettles DEF PaneOK
    <2> HIDE DEF q
    <2>4. Settled(r) /\ r.path = q.path /\ r.forward = Front(q.forward) /\ r.back = Append(q.back, pn.path)
      BY <2>3 DEF Loose, Settled, Shape, Fields, Size
    <2> HIDE DEF r
    <2>5. PaneOK(r)
      BY <2>1, <2>2, <2>3, <2>4 DEF PaneOK
    <2> QED
      BY <2>5 DEF r, q
  <1>3. PaneOK(WentBack(pn, disk, hidden))
    BY <1>1 DEF WentBack
  <1>4. PaneOK(WentForward(pn, disk, hidden))
    BY <1>2 DEF WentForward
  <1> QED
    BY <1>3, <1>4

LEMMA ParentIs ==
  ASSUME NEW p, IsSeq(p)
  PROVE  IsSeq(Parent(p)) /\ \A n : IsSeq(Join(p, n))
  BY FrontIs, AppendIs DEF Parent, Join

LEMMA ActivatedKeeps ==
  ASSUME NEW pn, PaneOK(pn), NEW disk, FiniteDisk(disk), NEW hidden
  PROVE  PaneOK(Activated(pn, disk, hidden)) /\ PaneOK(WentTo(pn, disk, Parent(pn.path), hidden))
  <1>1. IsSeq(Parent(pn.path)) /\ \A n : IsSeq(Join(pn.path, n))
    BY ParentIs DEF PaneOK
  <1>2. PaneOK(WentTo(pn, disk, Parent(pn.path), hidden))
    BY <1>1, WentToKeeps
  <1>3. \A n : PaneOK(WentTo(pn, disk, Join(pn.path, n), hidden))
    BY <1>1, WentToKeeps
  <1> QED
    BY <1>2, <1>3 DEF Activated

LEMMA SelectKeeps ==
  ASSUME NEW pn, PaneOK(pn), NEW i \in Int, i >= 0 \/ Size(pn) = 0
  PROVE  PaneOK(Select(pn, i))
  BY SelectSettles, SameWayOK DEF PaneOK, Settled

LEMMA MarksKeep ==
  ASSUME NEW pn, PaneOK(pn), NEW i, NEW j
  PROVE  /\ PaneOK(Marked(pn, i, j)) /\ Marked(pn, i, j).sel = pn.sel
         /\ PaneOK(Toggled(pn, i)) /\ Toggled(pn, i).sel = pn.sel
         /\ Size(Marked(pn, i, j)) = Size(pn) /\ Size(Toggled(pn, i)) = Size(pn)
         /\ PaneOK([pn EXCEPT !.marked = {}])
  <1>1. \A x : /\ Settled([pn EXCEPT !.marked = x]) /\ SameWay([pn EXCEPT !.marked = x], pn)
    BY MarkedSettled DEF PaneOK
  <1>2. \A x : PaneOK([pn EXCEPT !.marked = x])
    BY <1>1, SameWayOK
  <1>3. \A x : [pn EXCEPT !.marked = x].sel = pn.sel /\ Size([pn EXCEPT !.marked = x]) = Size(pn)
    BY DEF PaneOK, Settled, Loose, Shape, Fields, Size
  <1> QED
    BY <1>2, <1>3 DEF Marked, Toggled

(* The sorts and the filter. *)
LEMMA ResortKeeps ==
  ASSUME NEW pn, PaneOK(pn), NEW x, NEW y
  PROVE  /\ PaneOK(Refilter([pn EXCEPT !.by = x, !.desc = y]))
         /\ PaneOK(Refilter([pn EXCEPT !.filter = x]))
  <1> DEFINE q == [pn EXCEPT !.by = x, !.desc = y]
             r == [pn EXCEPT !.filter = x]
  <1>1. Shape(q) /\ q.entries = pn.entries /\ q.sel = pn.sel /\ SameWay(q, pn)
    BY DEF PaneOK, Settled, Loose, Shape, Fields, SameWay
  <1>2. Shape(r) /\ r.entries = pn.entries /\ r.sel = pn.sel /\ SameWay(r, pn)
    BY DEF PaneOK, Settled, Loose, Shape, Fields, SameWay
  <1>3. IsFiniteSet(pn.entries) /\ pn.sel \in Nat
    BY DEF PaneOK, Settled, Loose
  <1> HIDE DEF q, r
  <1>4. Settled(Refilter(q)) /\ SameWay(Refilter(q), q) /\ Settled(Refilter(r)) /\ SameWay(Refilter(r), r)
    BY <1>1, <1>2, <1>3, RefilterSettles
  <1>5. SameWay(Refilter(q), pn) /\ SameWay(Refilter(r), pn)
    BY <1>1, <1>2, <1>4 DEF SameWay
  <1>6. PaneOK(Refilter(q)) /\ PaneOK(Refilter(r))
    BY <1>4, <1>5, SameWayOK
  <1> QED
    BY <1>6 DEF q, r

(* A read directory. *)
LEMMA RereadKeeps ==
  ASSUME NEW pn, PaneOK(pn), NEW es, IsFiniteSet(es), NEW m
  PROVE  /\ PaneOK([pn EXCEPT !.entries = es])
         /\ PaneOK(Refilter([pn EXCEPT !.entries = es]))
         /\ PaneOK(Refilter([[pn EXCEPT !.marked = m] EXCEPT !.entries = es]))
  <1> DEFINE q == [pn EXCEPT !.entries = es]
             r == [[pn EXCEPT !.marked = m] EXCEPT !.entries = es]
  <1>1. /\ Shape(q) /\ q.entries = es /\ q.sel = pn.sel /\ q.visible = pn.visible
        /\ SameWay(q, pn)
    BY DEF PaneOK, Settled, Loose, Shape, Fields, SameWay
  <1>2. Shape(r) /\ r.entries = es /\ r.sel = pn.sel /\ SameWay(r, pn)
    BY DEF PaneOK, Settled, Loose, Shape, Fields, SameWay
  <1>3. pn.sel \in Nat
    BY DEF PaneOK, Settled, Loose
  <1> HIDE DEF q, r
  <1>4. Settled(q)
    BY <1>1 DEF PaneOK, Settled, Loose, Size
  <1>5. Settled(Refilter(q)) /\ SameWay(Refilter(q), q) /\ Settled(Refilter(r)) /\ SameWay(Refilter(r), r)
    BY <1>1, <1>2, <1>3, RefilterSettles
  <1>6. SameWay(Refilter(q), pn) /\ SameWay(Refilter(r), pn)
    BY <1>1, <1>2, <1>5 DEF SameWay
  <1>7. PaneOK(q) /\ PaneOK(Refilter(q)) /\ PaneOK(Refilter(r))
    BY <1>1, <1>4, <1>5, <1>6, SameWayOK
  <1> QED
    BY <1>7 DEF q, r

-----------------------------------------------------------------------------
(* The disk stays finite. *)

LEMMA ChangesFinite ==
  ASSUME NEW disk, FiniteDisk(disk), NEW p, NEW ps, NEW node, NEW st, NEW from, NEW to
  PROVE  /\ FiniteDisk(Without(disk, ps)) /\ FiniteDisk(With(disk, p, node))
         /\ FiniteDisk(Closed(disk, st)) /\ FiniteDisk(Renamed(disk, from, to))
  <1>1. \A d, x : FiniteDisk(d) => FiniteDisk(Without(d, x))
    BY FS_Difference DEF FiniteDisk, Without
  <1>2. \A d, x, y : FiniteDisk(d) => FiniteDisk(With(d, x, y))
    BY FS_AddElement DEF FiniteDisk, With
  <1>3. FiniteDisk(Closed(disk, st))
    BY DEF FiniteDisk, Closed
  <1>4. FiniteDisk(Renamed(disk, from, to))
    BY <1>1, <1>2 DEF Renamed
  <1> QED
    BY <1>1, <1>2, <1>3, <1>4

LEMMA MovedFinite ==
  ASSUME NEW disk, FiniteDisk(disk), NEW from, NEW to
  PROVE  FiniteDisk(MovedTree(disk, from, to))
  <1> DEFINE S == Below(disk, from)
             To(q) == to \o SubSeq(q, Len(from) + 1, Len(q))
             T == {To(q) : q \in S}
             f == [q \in S |-> To(q)]
  <1>1. S \in SUBSET DOMAIN disk
    BY DEF Below
  <1>2. IsFiniteSet(S)
    BY <1>1, FS_Subset DEF FiniteDisk
  <1>3. IsFiniteSet(DOMAIN disk \ S)
    BY FS_Difference DEF FiniteDisk
  <1> HIDE DEF S, To
  <1>4. f \in [S -> T] /\ \A q \in S : f[q] = To(q)
    OBVIOUS
  <1> HIDE DEF f
  <1>5. \A t \in T : \E q \in S : f[q] = t
    BY <1>4
  <1>6. f \in Surjection(S, T)
    BY <1>4, <1>5 DEF Surjection
  <1>7. IsFiniteSet(T)
    BY <1>2, <1>6, FS_Surjection
  <1>8. IsFiniteSet((DOMAIN disk \ S) \cup T)
    BY <1>3, <1>7, FS_Union
  <1>9. DOMAIN MovedTree(disk, from, to) = (DOMAIN disk \ S) \cup T
    BY DEF MovedTree, S, To
  <1> QED
    BY <1>8, <1>9 DEF FiniteDisk

-----------------------------------------------------------------------------
(* The steps of the job. *)

(* What step() works on: the disk, the job and the faults to come. *)
IsState(s) == s = [f \in {"fs", "job", "faults"} |-> s[f]]

(* close(out_) at the end of the file. *)
EndState(cur) == IF cur.whole THEN "whole" ELSE "torn"

(* What unlink(current_to_) leaves when a slice fails. *)
AfterFailure(disk, to) ==
  IF IsFile(disk, to) THEN Closed(Without(disk, {to}), "torn") ELSE Closed(disk, "torn")

(* What one slice of the open file may do. *)
Sliced(s, t) ==
  /\ IsState(t)
  /\ \/ /\ s.job.cur.left > 0 /\ t.fs = s.fs /\ t.faults = s.faults
        /\ t.job = [s.job EXCEPT !.cur.left = @ - 1]
     \/ /\ t.job = [s.job EXCEPT !.cur = NoFile]
        /\ t.fs = Closed(s.fs, EndState(s.job.cur))
        /\ \/ s.faults > 0 /\ t.faults = s.faults - 1
           \/ t.faults = s.faults /\ ~(s.job.kind = "Move" /\ IsFile(s.fs, s.job.cur.from))
     \/ /\ t.job = [s.job EXCEPT !.cur = NoFile]
        /\ s.job.kind = "Move" /\ IsFile(s.fs, s.job.cur.from)
        /\ t.fs = Without(Closed(s.fs, EndState(s.job.cur)), {s.job.cur.from})
        /\ t.faults = s.faults
     \/ /\ t.job = [s.job EXCEPT !.failed = TRUE, !.cur = NoFile]
        /\ s.faults > 0 /\ t.faults = s.faults - 1
        /\ t.fs = AfterFailure(s.fs, s.job.cur.to)

JobFields == {"active", "kind", "pending", "cur", "failed", "promise", "disturbed"}

IsJob(j) == j = [f \in JobFields |-> j[f]]

LEMMA SliceIs ==
  ASSUME NEW s, IsState(s), IsJob(s.job), NEW t \in Slice(s)
  PROVE  Sliced(s, t)
  <1> DEFINE cur == s.job.cur
             closed == [s EXCEPT !.fs = Closed(@, EndState(cur)), !.job.cur = NoFile]
             gone == [closed EXCEPT !.fs = Without(@, {cur.from})]
             late == [closed EXCEPT !.faults = @ - 1]
             broken == [SliceFailed(s) EXCEPT !.faults = @ - 1]
             more == [s EXCEPT !.job.cur.left = @ - 1]
  <1>1. \/ t = closed /\ ~(s.job.kind = "Move" /\ IsFile(s.fs, cur.from))
        \/ t = gone /\ s.job.kind = "Move" /\ IsFile(s.fs, cur.from)
        \/ t = late /\ s.job.kind = "Move" /\ s.faults > 0
        \/ t = broken /\ s.faults > 0
        \/ t = more /\ cur.left > 0
    BY DEF Slice, SliceDone, EndState
  <1>2. /\ IsState(closed) /\ closed.fs = Closed(s.fs, EndState(cur))
        /\ closed.job = [s.job EXCEPT !.cur = NoFile] /\ closed.faults = s.faults
    BY DEF IsState
  <1>3. /\ IsState(more) /\ more.fs = s.fs /\ more.faults = s.faults
        /\ more.job = [s.job EXCEPT !.cur.left = @ - 1]
    BY DEF IsState
  <1>4. /\ IsState(broken) /\ broken.faults = s.faults - 1
        /\ broken.job = [s.job EXCEPT !.failed = TRUE, !.cur = NoFile]
        /\ broken.fs = AfterFailure(s.fs, cur.to)
    BY DEF IsState, SliceFailed, AfterFailure
  <1> HIDE DEF closed, more, broken
  <1>5. /\ IsState(gone) /\ gone.fs = Without(closed.fs, {cur.from})
        /\ gone.job = closed.job /\ gone.faults = closed.faults
        /\ IsState(late) /\ late.fs = closed.fs /\ late.job = closed.job
        /\ late.faults = closed.faults - 1
    BY <1>2 DEF IsState
  <1> HIDE DEF gone, late, cur
  <1> QED
    BY <1>1, <1>2, <1>3, <1>4, <1>5 DEF Sliced, cur

(* What take_next() may do with an item it has taken off the stack. *)
Refused(s, t) ==
  t.fs = s.fs /\ t.job = [s.job EXCEPT !.failed = TRUE] /\ t.faults \in 0..s.faults

Removed(s, it, t) ==
  /\ t.fs = Without(s.fs, {it.from}) /\ t.job = s.job /\ t.faults = s.faults
  /\ \/ it.rmdir_only /\ CanRmdir(s.fs, it.from)
     \/ ~it.rmdir_only /\ IsFile(s.fs, it.from) /\ s.job.kind = "Delete"

Entered(s, it, t) ==
  /\ ~it.rmdir_only /\ IsDir(s.fs, it.from)
  /\ \/ t.fs = s.fs
     \/ s.job.kind # "Delete" /\ CanCreate(s.fs, it.to) /\ t.fs = With(s.fs, it.to, Dir)
  /\ s.job.kind # "Delete" => it.to \in DOMAIN t.fs
  /\ \/ /\ \E kids \in SetToSeqs(Children(t.fs, it.from)) :
             t.job = [s.job EXCEPT !.pending = @ \o Stacked(it, kids, s.job.kind)]
        /\ t.faults = s.faults
     \/ /\ t.job = [s.job EXCEPT !.failed = TRUE,
                                 !.pending = @ \o Stacked(it, <<>>, s.job.kind)]
        /\ s.faults > 0 /\ t.faults = s.faults - 1

Replaced(s, it, t) ==
  /\ ~it.rmdir_only /\ s.job.kind = "Move" /\ CanRename(s.fs, it.from, it.to)
  /\ t.fs = Renamed(s.fs, it.from, it.to) /\ t.job = s.job /\ t.faults = s.faults

Reading(disk, it, n) ==
  [from |-> it.from, to |-> it.to, data |-> disk[it.from].data,
   whole |-> disk[it.from].state = "whole", left |-> n]

Opened(s, it, u) ==
  /\ IsState(u)
  /\ ~it.rmdir_only /\ s.job.kind # "Delete"
  /\ IsFile(s.fs, it.from) /\ CanCreate(s.fs, it.to)
  /\ u.fs = With(s.fs, it.to, File(s.fs[it.from].data, "open"))
  /\ \E n \in 0..Slices : u.job = [s.job EXCEPT !.cur = Reading(s.fs, it, n)]
  /\ u.faults \in {s.faults, s.faults - 1} /\ u.faults >= 0

Taken(s, it, t) ==
  /\ IsState(t)
  /\ \/ Refused(s, t) \/ Removed(s, it, t) \/ Entered(s, it, t) \/ Replaced(s, it, t)
     \/ \E u : Opened(s, it, u) /\ Sliced(u, t)

LEMMA FailedIs ==
  ASSUME NEW s, IsState(s)
  PROVE  /\ IsState(Failed(s)) /\ Failed(s).fs = s.fs /\ Failed(s).faults = s.faults
         /\ Failed(s).job = [s.job EXCEPT !.failed = TRUE]
         /\ IsState([Failed(s) EXCEPT !.faults = @ - 1])
         /\ [Failed(s) EXCEPT !.faults = @ - 1].fs = s.fs
         /\ [Failed(s) EXCEPT !.faults = @ - 1].faults = s.faults - 1
         /\ [Failed(s) EXCEPT !.faults = @ - 1].job = [s.job EXCEPT !.failed = TRUE]
  <1> DEFINE f == Failed(s)
  <1>1. /\ IsState(f) /\ f.fs = s.fs /\ f.faults = s.faults
        /\ f.job = [s.job EXCEPT !.failed = TRUE]
    BY DEF IsState, Failed
  <1> HIDE DEF f
  <1>2. /\ IsState([f EXCEPT !.faults = @ - 1])
        /\ [f EXCEPT !.faults = @ - 1].fs = f.fs
        /\ [f EXCEPT !.faults = @ - 1].faults = f.faults - 1
        /\ [f EXCEPT !.faults = @ - 1].job = f.job
    BY <1>1 DEF IsState
  <1> QED
    BY <1>1, <1>2 DEF f

LEMMA RefusedIs ==
  ASSUME NEW s, IsState(s), s.faults \in Nat, NEW t,
         t = Failed(s) \/ (t = [Failed(s) EXCEPT !.faults = @ - 1] /\ s.faults > 0)
  PROVE  IsState(t) /\ Refused(s, t)
  <1> DEFINE g == [Failed(s) EXCEPT !.faults = @ - 1]
  <1>1. /\ IsState(Failed(s)) /\ Failed(s).fs = s.fs /\ Failed(s).faults = s.faults
        /\ Failed(s).job = [s.job EXCEPT !.failed = TRUE]
    BY FailedIs
  <1>2. /\ IsState(g) /\ g.fs = s.fs /\ g.faults = s.faults - 1
        /\ g.job = [s.job EXCEPT !.failed = TRUE]
    BY FailedIs
  <1>3. t = Failed(s) \/ (t = g /\ s.faults > 0)
    OBVIOUS
  <1> HIDE DEF g
  <1>4. CASE t = Failed(s)
    BY <1>1, <1>4 DEF Refused
  <1>5. CASE t = g /\ s.faults > 0
    BY <1>2, <1>5 DEF Refused
  <1> QED
    BY <1>3, <1>4, <1>5

LEMMA TakeDirIs ==
  ASSUME NEW s, IsState(s), IsJob(s.job), s.faults \in Nat, NEW it, ~it.rmdir_only,
         IsDir(s.fs, it.from), NEW t \in TakeDir(s, it)
  PROVE  IsState(t) /\ (Refused(s, t) \/ Entered(s, it, t))
  <1> DEFINE kind == s.job.kind
             made == IF kind # "Delete" /\ CanCreate(s.fs, it.to)
                     THEN [s EXCEPT !.fs = With(@, it.to, Dir)] ELSE s
             read(kids) == [made EXCEPT !.job.pending = @ \o Stacked(it, kids, kind)]
             none == Stacked(it, <<>>, kind)
             unread == [Failed(made) EXCEPT !.job.pending = @ \o none, !.faults = @ - 1]
  <1>1. /\ IsState(made) /\ made.job = s.job /\ made.faults = s.faults
        /\ \/ made.fs = s.fs
           \/ kind # "Delete" /\ CanCreate(s.fs, it.to) /\ made.fs = With(s.fs, it.to, Dir)
    BY DEF IsState
  <1>2. \/ t = Failed(s)
        \/ /\ kind # "Delete" => it.to \in DOMAIN made.fs
           /\ \/ \E kids \in SetToSeqs(Children(made.fs, it.from)) : t = read(kids)
              \/ s.faults > 0 /\ t = unread
        \/ s.faults > 0 /\ t = [Failed(s) EXCEPT !.faults = @ - 1]
    BY DEF TakeDir
  <1> HIDE DEF made, none
  <1>3. \A kids : /\ IsState(read(kids)) /\ read(kids).fs = made.fs
                  /\ read(kids).faults = made.faults
                  /\ read(kids).job = [made.job EXCEPT !.pending = @ \o Stacked(it, kids, kind)]
    BY <1>1 DEF IsState
  <1> DEFINE f == Failed(made)
  <1>4. /\ IsState(f) /\ f.fs = made.fs /\ f.faults = made.faults
        /\ f.job = [made.job EXCEPT !.failed = TRUE]
    BY <1>1, FailedIs
  <1> HIDE DEF f
  <1>5. /\ IsState(unread) /\ unread.fs = made.fs /\ unread.faults = made.faults - 1
        /\ unread.job = [f.job EXCEPT !.pending = @ \o none]
    BY <1>4 DEF IsState, f
  <1>6. unread.job = [s.job EXCEPT !.failed = TRUE, !.pending = @ \o none]
    <2>1. unread.job = [[s.job EXCEPT !.failed = TRUE] EXCEPT !.pending = @ \o none]
      BY <1>1, <1>4, <1>5
    <2>2. [s.job EXCEPT !.failed = TRUE].pending = s.job.pending
      BY DEF IsJob, JobFields
    <2> QED
      BY <2>1, <2>2
  <1> HIDE DEF unread, read
  <1>7. CASE t = Failed(s) \/ (s.faults > 0 /\ t = [Failed(s) EXCEPT !.faults = @ - 1])
    BY <1>7, RefusedIs
  <1>8. CASE t = unread /\ s.faults > 0 /\ (kind # "Delete" => it.to \in DOMAIN made.fs)
    <2> HIDE DEF kind
    <2>1. /\ IsState(t) /\ t.fs = made.fs /\ s.faults > 0 /\ t.faults = s.faults - 1
          /\ t.job = [s.job EXCEPT !.failed = TRUE, !.pending = @ \o none]
      BY <1>1, <1>5, <1>6, <1>8
    <2>2. kind # "Delete" => it.to \in DOMAIN t.fs
      BY <1>8, <2>1
    <2> QED
      BY <1>1, <2>1, <2>2 DEF Entered, kind, none
  <1>9. ASSUME NEW kids \in SetToSeqs(Children(made.fs, it.from)), t = read(kids),
               kind # "Delete" => it.to \in DOMAIN made.fs
        PROVE  IsState(t) /\ Entered(s, it, t)
    <2>1. /\ IsState(t) /\ t.fs = made.fs /\ t.faults = s.faults
          /\ t.job = [s.job EXCEPT !.pending = @ \o Stacked(it, kids, kind)]
      BY <1>1, <1>3, <1>9
    <2>2. /\ kind # "Delete" => it.to \in DOMAIN t.fs
          /\ kids \in SetToSeqs(Children(t.fs, it.from))
      BY <1>9, <2>1
    <2> QED
      BY <1>1, <2>1, <2>2 DEF Entered
  <1> QED
    BY <1>2, <1>7, <1>8, <1>9

LEMMA TakeCopyIs ==
  ASSUME NEW s, IsState(s), IsJob(s.job), s.faults \in Nat, NEW it, ~it.rmdir_only,
         s.job.kind # "Delete", IsFile(s.fs, it.from), NEW t \in TakeCopy(s, it)
  PROVE  IsState(t) /\ (Refused(s, t) \/ \E u : Opened(s, it, u) /\ u.faults = s.faults /\ Sliced(u, t))
  <1> DEFINE cur(n) == [from |-> it.from, to |-> it.to, data |-> s.fs[it.from].data,
                        whole |-> s.fs[it.from].state = "whole", left |-> n]
             open(n) == [s EXCEPT !.fs = With(@, it.to, File(@[it.from].data, "open")),
                                  !.job.cur = cur(n)]
             late == [Failed(s) EXCEPT !.faults = @ - 1]
  <1>1. \/ t = Failed(s)
        \/ t = late /\ s.faults > 0
        \/ CanCreate(s.fs, it.to) /\ \E n \in 0..Slices : t \in Slice(open(n))
    <2> DEFINE os == {open(n) : n \in 0..Slices}
    <2>1. TakeCopy(s, it) =
            IF CanCreate(s.fs, it.to)
            THEN (UNION { Slice(o) : o \in os }) \cup (IF s.faults > 0 THEN {late} ELSE {})
            ELSE {Failed(s)}
      BY DEF TakeCopy
    <2> HIDE DEF os, late
    <2>2. \/ ~CanCreate(s.fs, it.to) /\ t = Failed(s)
          \/ s.faults > 0 /\ t = late
          \/ CanCreate(s.fs, it.to) /\ \E o \in os : t \in Slice(o)
      BY <2>1
    <2> QED
      BY <2>2 DEF os
  <1>2. CASE t = Failed(s) \/ (t = [Failed(s) EXCEPT !.faults = @ - 1] /\ s.faults > 0)
    BY <1>2, RefusedIs
  <1>3. ASSUME CanCreate(s.fs, it.to), NEW n \in 0..Slices, t \in Slice(open(n))
        PROVE  IsState(t) /\ \E u : Opened(s, it, u) /\ u.faults = s.faults /\ Sliced(u, t)
    <2> DEFINE u == open(n)
               c == cur(n)
    <2>0. c = Reading(s.fs, it, n)
      BY DEF Reading
    <2> HIDE DEF c
    <2>1. /\ IsState(u) /\ u.fs = With(s.fs, it.to, File(s.fs[it.from].data, "open"))
          /\ u.job = [s.job EXCEPT !.cur = c] /\ u.faults = s.faults
      BY DEF IsState, c
    <2>2. t \in Slice(u)
      BY <1>3
    <2> HIDE DEF u
    <2>3. IsJob(u.job)
      BY <2>1 DEF IsJob, JobFields
    <2>4. Sliced(u, t)
      BY <2>1, <2>2, <2>3, SliceIs
    <2>5. Opened(s, it, u)
      BY <1>3, <2>0, <2>1 DEF Opened
    <2> QED
      BY <2>1, <2>4, <2>5 DEF Sliced
  <1> QED
    BY <1>1, <1>2, <1>3

LEMMA TakeNextIs ==
  ASSUME NEW s, IsState(s), IsJob(s.job), s.faults \in Nat,
         NEW it, it.rmdir_only \in BOOLEAN, NEW t \in TakeNext(s, it)
  PROVE  Taken(s, it, t)
  <1> DEFINE without == [s EXCEPT !.fs = Without(@, {it.from})]
             moved == [s EXCEPT !.fs = Renamed(@, it.from, it.to)]
             tried == [s EXCEPT !.faults = @ - 1]
  <1>1. /\ IsState(without) /\ without.fs = Without(s.fs, {it.from})
        /\ without.job = s.job /\ without.faults = s.faults
        /\ IsState(moved) /\ moved.fs = Renamed(s.fs, it.from, it.to)
        /\ moved.job = s.job /\ moved.faults = s.faults
        /\ IsState(tried) /\ tried.fs = s.fs
        /\ tried.job = s.job /\ tried.faults = s.faults - 1
    BY DEF IsState
  <1>2. TakeNext(s, it) =
          IF it.rmdir_only
          THEN IF CanRmdir(s.fs, it.from) THEN Fallible(s, without) ELSE {Failed(s)}
          ELSE IF it.from \notin DOMAIN s.fs THEN {Failed(s)}
          ELSE IF IsDir(s.fs, it.from) THEN TakeDir(s, it)
          ELSE IF s.job.kind = "Delete" THEN Fallible(s, without)
          ELSE IF s.job.kind = "Move" /\ CanRename(s.fs, it.from, it.to)
          THEN {moved} \cup (IF s.faults > 0 THEN TakeCopy(tried, it) ELSE {})
          ELSE TakeCopy(s, it)
    BY DEF TakeNext, IsMarker
  <1> HIDE DEF without, moved, tried
  <1>3. ASSUME t = Failed(s) \/ (t = [Failed(s) EXCEPT !.faults = @ - 1] /\ s.faults > 0)
        PROVE  Taken(s, it, t)
    BY <1>3, RefusedIs DEF Taken
  <1>4. ASSUME t \in Fallible(s, without),
               \/ it.rmdir_only /\ CanRmdir(s.fs, it.from)
               \/ ~it.rmdir_only /\ IsFile(s.fs, it.from) /\ s.job.kind = "Delete"
        PROVE  Taken(s, it, t)
    <2>1. t = without \/ (t = [Failed(s) EXCEPT !.faults = @ - 1] /\ s.faults > 0)
      BY <1>4 DEF Fallible
    <2>2. t = without => Taken(s, it, t)
      BY <1>1, <1>4 DEF Taken, Removed
    <2> QED
      BY <1>3, <2>1, <2>2
  <1>5. CASE it.rmdir_only \/ it.from \notin DOMAIN s.fs
    BY <1>2, <1>3, <1>4, <1>5
  <1>6. CASE ~it.rmdir_only /\ IsDir(s.fs, it.from)
    <2>1. t \in TakeDir(s, it)
      BY <1>2, <1>6 DEF IsDir
    <2> QED
      BY <1>6, <2>1, TakeDirIs DEF Taken
  <1>7. CASE ~it.rmdir_only /\ IsFile(s.fs, it.from)
    <2>1. it.from \in DOMAIN s.fs /\ ~IsDir(s.fs, it.from)
      BY <1>7 DEF IsFile, IsDir
    <2>2. CASE s.job.kind = "Delete"
      BY <1>2, <1>4, <1>7, <2>1, <2>2
    <2>3. CASE s.job.kind # "Delete" /\ t \in TakeCopy(s, it)
      <3>1. IsState(t) /\ (Refused(s, t) \/ \E u : Opened(s, it, u) /\ u.faults = s.faults /\ Sliced(u, t))
        BY <1>7, <2>3, TakeCopyIs
      <3> QED
        BY <3>1 DEF Taken
    <2>4. CASE s.job.kind # "Delete" /\ t = moved /\ s.job.kind = "Move" /\ CanRename(s.fs, it.from, it.to)
      BY <1>1, <1>7, <2>4 DEF Taken, Replaced
    <2>5. CASE s.job.kind # "Delete" /\ s.faults > 0 /\ t \in TakeCopy(tried, it)
      <3>1. IsJob(tried.job) /\ tried.faults \in Nat /\ IsFile(tried.fs, it.from)
            /\ tried.job.kind # "Delete"
        BY <1>1, <1>7, <2>5
      <3>2. IsState(t) /\ (Refused(tried, t) \/ \E u : Opened(tried, it, u) /\ u.faults = tried.faults /\ Sliced(u, t))
        BY <1>1, <1>7, <2>5, <3>1, TakeCopyIs
      <3>3. ASSUME Refused(tried, t) PROVE t.fs = s.fs /\ t.job = [s.job EXCEPT !.failed = TRUE]
        BY <1>1, <3>3 DEF Refused
      <3> QED
        BY <1>1, <1>7, <2>5, <3>2, <3>3 DEF Taken, Refused, Opened
    <2> QED
      BY <1>2, <1>7, <2>1, <2>2, <2>3, <2>4, <2>5
  <1> QED
    BY <1>5, <1>6, <1>7 DEF IsDir, IsFile

-----------------------------------------------------------------------------
(* The disk stays a tree. *)

LEMMA PrefixIs ==
  ASSUME NEW s, IsSeq(s), NEW t, IsSeq(t)
  PROVE  IsPrefix(s, t) <=> (Len(s) <= Len(t) /\ \A i \in 1..Len(s) : s[i] = t[i])
  <1>1. Len(s) \in Nat /\ Len(t) \in Nat
    BY DEF IsSeq
  <1> DEFINE a == SubSeq(s, 1, Len(s))
             b == SubSeq(t, 1, Len(s))
  <1>2. IsSeq(a) /\ Len(a) = Len(s) /\ \A i \in 1..Len(s) : a[i] = s[i]
    <2>1. 1 \in 1..(Len(s) + 1) /\ Len(s) \in 0..Len(s) /\ 1 <= Len(s) + 1
      BY <1>1
    <2>2. /\ IsSeq(a) /\ Len(a) = Len(s) - 1 + 1
          /\ \A i \in 1..(Len(s) - 1 + 1) : a[i] = s[1 + i - 1]
      BY <2>1, SubSeqIs
    <2> HIDE DEF a
    <2> QED
      BY <1>1, <2>2
  <1>3. ASSUME Len(s) <= Len(t)
        PROVE  IsSeq(b) /\ Len(b) = Len(s) /\ \A i \in 1..Len(s) : b[i] = t[i]
    <2>1. 1 \in 1..(Len(t) + 1) /\ Len(s) \in 0..Len(t) /\ 1 <= Len(s) + 1
      BY <1>1, <1>3
    <2>2. /\ IsSeq(b) /\ Len(b) = Len(s) - 1 + 1
          /\ \A i \in 1..(Len(s) - 1 + 1) : b[i] = t[1 + i - 1]
      BY <2>1, SubSeqIs
    <2> HIDE DEF b
    <2> QED
      BY <1>1, <2>2
  <1>4. IsPrefix(s, t) <=> (Len(s) <= Len(t) /\ a = b)
    BY DEF IsPrefix
  <1> HIDE DEF a, b
  <1>5. ASSUME Len(s) <= Len(t), a = b PROVE \A i \in 1..Len(s) : s[i] = t[i]
    BY <1>2, <1>3, <1>5
  <1>6. ASSUME Len(s) <= Len(t), \A i \in 1..Len(s) : s[i] = t[i] PROVE a = b
    <2>1. IsSeq(b) /\ Len(b) = Len(s) /\ \A i \in 1..Len(s) : b[i] = t[i]
      BY <1>3, <1>6
    <2>2. \A i \in 1..Len(a) : a[i] = b[i]
      BY <1>2, <1>6, <2>1
    <2>3. Len(a) = Len(b)
      BY <1>2, <2>1
    <2> QED
      BY <1>2, <2>1, <2>2, <2>3, SameSeq
  <1> QED
    BY <1>4, <1>5, <1>6

(* The first n names of a path. *)
LEMMA HeadIs ==
  ASSUME NEW p, IsSeq(p), NEW n \in 0..Len(p)
  PROVE  /\ IsSeq(SubSeq(p, 1, n)) /\ Len(SubSeq(p, 1, n)) = n
         /\ \A i \in 1..n : SubSeq(p, 1, n)[i] = p[i]
  <1>1. Len(p) \in Nat
    BY DEF IsSeq
  <1>2. 1 \in 1..(Len(p) + 1) /\ n \in 0..Len(p) /\ 1 <= n + 1
    BY <1>1
  <1>3. /\ IsSeq(SubSeq(p, 1, n)) /\ Len(SubSeq(p, 1, n)) = n - 1 + 1
        /\ \A i \in 1..(n - 1 + 1) : SubSeq(p, 1, n)[i] = p[1 + i - 1]
    BY <1>2, SubSeqIs
  <1> QED
    BY <1>1, <1>3

(* A head of the parent is a head of the path, and so for any prefix. *)
LEMMA HeadOfPrefix ==
  ASSUME NEW p, IsSeq(p), NEW q, IsSeq(q), NEW n \in 0..Len(p), n <= Len(q),
         \A i \in 1..n : p[i] = q[i]
  PROVE  SubSeq(p, 1, n) = SubSeq(q, 1, n)
  <1>1. Len(p) \in Nat /\ Len(q) \in Nat /\ n \in 0..Len(q)
    BY DEF IsSeq
  <1>2. /\ IsSeq(SubSeq(p, 1, n)) /\ Len(SubSeq(p, 1, n)) = n
        /\ \A i \in 1..n : SubSeq(p, 1, n)[i] = p[i]
    BY HeadIs
  <1>3. /\ IsSeq(SubSeq(q, 1, n)) /\ Len(SubSeq(q, 1, n)) = n
        /\ \A i \in 1..n : SubSeq(q, 1, n)[i] = q[i]
    BY <1>1, HeadIs
  <1> DEFINE x == SubSeq(p, 1, n)
             y == SubSeq(q, 1, n)
  <1> HIDE DEF x, y
  <1>4. x = y
    <2>1. IsSeq(x) /\ IsSeq(y) /\ Len(x) = Len(y) /\ \A i \in 1..Len(x) : x[i] = y[i]
      BY <1>2, <1>3 DEF x, y
    <2> QED
      BY <2>1, SameSeq
  <1> QED
    BY <1>4 DEF x, y

LEMMA WholeHead ==
  ASSUME NEW p, IsSeq(p)
  PROVE  SubSeq(p, 1, Len(p)) = p
  <1>1. Len(p) \in Nat /\ Len(p) \in 0..Len(p)
    BY DEF IsSeq
  <1>2. /\ IsSeq(SubSeq(p, 1, Len(p))) /\ Len(SubSeq(p, 1, Len(p))) = Len(p)
        /\ \A i \in 1..Len(p) : SubSeq(p, 1, Len(p))[i] = p[i]
    BY <1>1, HeadIs
  <1> DEFINE x == SubSeq(p, 1, Len(p))
  <1> HIDE DEF x
  <1>3. x = p
    BY <1>2, SameSeq DEF x
  <1> QED
    BY <1>3 DEF x

IsNode(n) ==
  n = Dir \/ (n = File(n.data, n.state) /\ n.state \in {"whole", "open", "torn"})

(* The directory at every head of a path that exists. *)
Rooted(disk) ==
  \A p \in DOMAIN disk : \A n \in 0..Len(p) - 1 : IsDir(disk, SubSeq(p, 1, n))

Nodes(disk) == \A p \in DOMAIN disk : IsSeq(p) /\ IsNode(disk[p])

TreeDisk(disk) == FiniteDisk(disk) /\ Nodes(disk) /\ Rooted(disk)

LEMMA NodeIs ==
  ASSUME NEW n, IsNode(n)
  PROVE  /\ n.state = "dir" <=> n = Dir
         /\ n # Dir => n.state \in {"whole", "open", "torn"}
  BY DEF IsNode, Dir, File

(* Creating something in a directory. *)
LEMMA TreeWith ==
  ASSUME NEW d, TreeDisk(d), NEW p, IsSeq(p), CanCreate(d, p), NEW node, IsNode(node)
  PROVE  TreeDisk(With(d, p, node))
  <1> DEFINE e == With(d, p, node)
  <1>1. /\ DOMAIN e = DOMAIN d \cup {p} /\ e[p] = node
        /\ \A q \in DOMAIN d : e[q] = d[q]
    BY DEF With, CanCreate
  <1>2. FiniteDisk(e)
    BY ChangesFinite DEF TreeDisk
  <1> HIDE DEF e
  <1>3. Nodes(e)
    BY <1>1 DEF TreeDisk, Nodes
  <1>4. \A q : IsDir(d, q) => IsDir(e, q)
    BY <1>1 DEF IsDir
  <1>5. ASSUME NEW n \in 0..Len(p) - 1 PROVE IsDir(e, SubSeq(p, 1, n))
    <2> DEFINE f == Front(p)
    <2>1. p # <<>> /\ IsDir(d, f)
      BY DEF CanCreate, Parent
    <2>2. /\ Len(p) \in Nat \ {0} /\ IsSeq(f) /\ Len(f) = Len(p) - 1
          /\ \A i \in 1..(Len(p) - 1) : f[i] = p[i]
      BY <2>1, FrontIs
    <2> HIDE DEF f
    <2>3. n \in 0..Len(f) /\ n <= Len(p)
      BY <1>5, <2>2
    <2>4. \A i \in 1..n : f[i] = p[i]
      BY <1>5, <2>2
    <2>5. SubSeq(f, 1, n) = SubSeq(p, 1, n)
      BY <2>2, <2>3, <2>4, HeadOfPrefix
    <2>6. CASE n = Len(f)
      BY <1>4, <2>1, <2>2, <2>5, <2>6, WholeHead
    <2>7. CASE n # Len(f)
      <3>1. n \in 0..Len(f) - 1
        BY <1>5, <2>2, <2>7
      <3>2. IsDir(d, SubSeq(f, 1, n))
        BY <2>1, <3>1 DEF TreeDisk, Rooted, IsDir
      <3> QED
        BY <1>4, <2>5, <3>2
    <2> QED
      BY <2>6, <2>7
  <1>6. Rooted(e)
    BY <1>1, <1>4, <1>5 DEF TreeDisk, Rooted
  <1> QED
    BY <1>2, <1>3, <1>6 DEF TreeDisk, e

(* What lies below a path goes through the child of that path. *)
LEMMA BelowHasChild ==
  ASSUME NEW d, TreeDisk(d), NEW p, IsSeq(p), NEW q \in Below(d, p), q # p
  PROVE  Len(q) > Len(p) /\ IsDir(d, p) /\ Children(d, p) # {}
  <1>1. IsSeq(q) /\ q \in DOMAIN d /\ Len(p) \in Nat /\ Len(q) \in Nat
    BY DEF Below, TreeDisk, Nodes, IsSeq
  <1>2. Len(p) <= Len(q) /\ \A i \in 1..Len(p) : p[i] = q[i]
    BY <1>1, PrefixIs DEF Below
  <1>3. Len(p) # Len(q)
    BY <1>1, <1>2, SameSeq
  <1>4. Len(p) \in 0..Len(q) - 1 /\ Len(p) \in 0..Len(p)
    BY <1>1, <1>2, <1>3
  <1>5. SubSeq(p, 1, Len(p)) = SubSeq(q, 1, Len(p))
    BY <1>1, <1>2, <1>4, HeadOfPrefix
  <1>6. IsDir(d, p)
    BY <1>1, <1>4, <1>5, WholeHead DEF TreeDisk, Rooted
  <1> DEFINE n == Len(p) + 1
             c == SubSeq(q, 1, n)
  <1>7. n \in 0..Len(q)
    BY <1>1, <1>4
  <1>8. IsSeq(c) /\ Len(c) = n /\ \A i \in 1..n : c[i] = q[i]
    BY <1>1, <1>7, HeadIs
  <1>9. c \in DOMAIN d
    <2>1. CASE n = Len(q)
      BY <1>1, <2>1, WholeHead
    <2>2. CASE n # Len(q)
      <3>1. n \in 0..Len(q) - 1
        BY <1>1, <1>7, <2>2
      <3> QED
        BY <1>1, <3>1 DEF TreeDisk, Rooted, IsDir
    <2> QED
      BY <2>1, <2>2
  <1> HIDE DEF c
  <1>10. IsPrefix(p, c)
    <2>1. Len(p) <= Len(c) /\ \A i \in 1..Len(p) : p[i] = c[i]
      BY <1>1, <1>2, <1>8
    <2> QED
      BY <1>8, <2>1, PrefixIs
  <1>11. c \in Children(d, p)
    BY <1>8, <1>9, <1>10 DEF Children, Below
  <1> QED
    BY <1>1, <1>4, <1>6, <1>11

(* Removing what has nothing below it. *)
LEMMA TreeWithout ==
  ASSUME NEW d, TreeDisk(d), NEW p, IsFile(d, p) \/ CanRmdir(d, p)
  PROVE  TreeDisk(Without(d, {p}))
  <1> DEFINE e == Without(d, {p})
  <1>1. DOMAIN e = DOMAIN d \ {p} /\ \A q \in DOMAIN e : e[q] = d[q]
    BY DEF Without
  <1>2. FiniteDisk(e)
    BY ChangesFinite DEF TreeDisk
  <1> HIDE DEF e
  <1>3. Nodes(e)
    BY <1>1 DEF TreeDisk, Nodes
  <1>4. IsSeq(p) /\ p \in DOMAIN d
    BY DEF TreeDisk, Nodes, IsFile, CanRmdir, IsDir
  <1>5. ASSUME NEW q \in DOMAIN e, NEW n \in 0..Len(q) - 1 PROVE IsDir(e, SubSeq(q, 1, n))
    <2>1. IsSeq(q) /\ q \in DOMAIN d /\ q # p /\ Len(q) \in Nat
      BY <1>1, <1>5 DEF TreeDisk, Nodes, IsSeq
    <2>2. IsDir(d, SubSeq(q, 1, n))
      BY <1>5, <2>1 DEF TreeDisk, Rooted
    <2>3. SubSeq(q, 1, n) # p
      <3> SUFFICES ASSUME SubSeq(q, 1, n) = p PROVE FALSE
        OBVIOUS
      <3>1. n \in 0..Len(q)
        BY <1>5, <2>1
      <3>2. Len(p) = n /\ \A i \in 1..n : p[i] = q[i]
        BY <2>1, <3>1, HeadIs
      <3>3. IsPrefix(p, q)
        BY <1>4, <2>1, <3>1, <3>2, PrefixIs
      <3>4. IsDir(d, p) /\ Children(d, p) # {}
        BY <1>4, <2>1, <3>3, BelowHasChild DEF Below
      <3> QED
        BY <3>4 DEF CanRmdir, IsFile, IsDir
    <2> QED
      BY <1>1, <2>2, <2>3 DEF IsDir
  <1>6. Rooted(e)
    BY <1>5 DEF Rooted
  <1> QED
    BY <1>2, <1>3, <1>6 DEF TreeDisk, e

(* close(out_) changes the state of the files that are open, and no more. *)
LEMMA ClosedIs ==
  ASSUME NEW d, Nodes(d), NEW st
  PROVE  /\ DOMAIN Closed(d, st) = DOMAIN d
         /\ \A q \in DOMAIN d :
              Closed(d, st)[q] = IF d[q].state = "open" THEN File(d[q].data, st) ELSE d[q]
  <1>1. ASSUME NEW q \in DOMAIN d, d[q].state = "open"
        PROVE  [d[q] EXCEPT !.state = st] = File(d[q].data, st)
    <2>1. IsNode(d[q])
      BY <1>1 DEF Nodes
    <2>2. d[q] = File(d[q].data, "open")
      BY <1>1, <2>1 DEF IsNode, Dir, File
    <2> QED
      BY <2>2 DEF File
  <1> QED
    BY <1>1 DEF Closed

LEMMA TreeClosed ==
  ASSUME NEW d, TreeDisk(d), NEW st \in {"whole", "torn"}
  PROVE  TreeDisk(Closed(d, st))
  <1> DEFINE e == Closed(d, st)
  <1>1. /\ DOMAIN e = DOMAIN d
        /\ \A q \in DOMAIN d : e[q] = IF d[q].state = "open" THEN File(d[q].data, st) ELSE d[q]
    BY ClosedIs DEF TreeDisk
  <1>2. FiniteDisk(e)
    BY ChangesFinite DEF TreeDisk
  <1> HIDE DEF e
  <1>3. IsNode(File(0, st)) /\ \A c : IsNode(File(c, st))
    BY DEF IsNode, File
  <1>4. Nodes(e)
    BY <1>1, <1>3 DEF TreeDisk, Nodes
  <1>5. \A q : IsDir(d, q) => IsDir(e, q)
    BY <1>1 DEF IsDir, Dir
  <1>6. Rooted(e)
    BY <1>1, <1>5 DEF TreeDisk, Rooted
  <1> QED
    BY <1>2, <1>4, <1>6 DEF TreeDisk, e

LEMMA TreeRenamed ==
  ASSUME NEW d, TreeDisk(d), NEW from, NEW to, IsSeq(to), CanRename(d, from, to)
  PROVE  TreeDisk(Renamed(d, from, to))
  <1>0. IsFile(d, from) /\ (IsFile(d, to) \/ CanCreate(d, to))
    BY DEF CanRename
  <1>1. CASE from = to
    BY <1>1 DEF Renamed
  <1>2. CASE from # to /\ CanCreate(d, to)
    <2> DEFINE e == Without(d, {from})
    <2>1. TreeDisk(e)
      BY <1>0, TreeWithout
    <2>2. CanCreate(e, to)
      BY <1>0, <1>2 DEF CanCreate, IsFile, IsDir, Without
    <2>3. IsNode(d[from])
      BY <1>0 DEF IsFile, TreeDisk, Nodes
    <2>4. Renamed(d, from, to) = With(e, to, d[from])
      BY <1>2 DEF Renamed
    <2> HIDE DEF e
    <2> QED
      BY <2>1, <2>2, <2>3, <2>4, TreeWith
  <1>3. CASE from # to /\ IsFile(d, to)
    <2> DEFINE e == Renamed(d, from, to)
    <2>1. /\ DOMAIN e = (DOMAIN d \ {from}) \cup {to} /\ e[to] = d[from]
          /\ \A q \in DOMAIN d \ {from, to} : e[q] = d[q]
      <3>1. from \in DOMAIN d /\ from # to
        BY <1>0, <1>3 DEF IsFile
      <3> QED
        BY <3>1 DEF Renamed, With, Without
    <2>2. FiniteDisk(e)
      BY ChangesFinite DEF TreeDisk
    <2> HIDE DEF e
    <2>3. Nodes(e)
      BY <1>0, <2>1 DEF TreeDisk, Nodes, IsFile
    <2>4. \A q : IsDir(d, q) => IsDir(e, q)
      BY <1>0, <1>3, <2>1 DEF IsDir, IsFile
    <2>5. Rooted(e)
      BY <1>3, <2>1, <2>4 DEF TreeDisk, Rooted, IsFile
    <2> QED
      BY <2>2, <2>3, <2>5 DEF TreeDisk, e
  <1> QED
    BY <1>0, <1>1, <1>2, <1>3

-----------------------------------------------------------------------------
(* rename() of a directory entry: what lies below it keeps its place.      *)

(* The new path of q, which lies below the entry of p that is now b. *)
Rebased(p, b, q) == Append(p, b) \o SubSeq(q, Len(p) + 2, Len(q))

(* What Rebased does, name by name. *)
Swapped(p, a, b, q, r) ==
  LET k == Len(p) + 1
  IN  /\ IsSeq(r) /\ Len(r) = Len(q) /\ k \in 1..Len(q)
      /\ r[k] = b /\ \A i \in 1..Len(q) : i # k => r[i] = q[i]
      /\ q[k] = a /\ \A i \in 1..Len(p) : q[i] = p[i]

LEMMA RebasedSwaps ==
  ASSUME NEW p, IsSeq(p), NEW a, NEW b, NEW q, IsSeq(q), IsPrefix(Append(p, a), q)
  PROVE  Swapped(p, a, b, q, Rebased(p, b, q))
  <1> DEFINE k == Len(p) + 1
             pa == Append(p, a)
             pb == Append(p, b)
             t == SubSeq(q, k + 1, Len(q))
             r == pb \o t
  <1>1. /\ IsSeq(pa) /\ Len(pa) = k /\ pa[k] = a
        /\ \A i \in 1..Len(p) : pa[i] = p[i]
    BY AppendIs
  <1>2. /\ IsSeq(pb) /\ Len(pb) = k /\ pb[k] = b
        /\ \A i \in 1..Len(p) : pb[i] = p[i]
    BY AppendIs
  <1>3. Len(p) \in Nat /\ Len(q) \in Nat
    BY DEF IsSeq
  <1>4. Len(pa) <= Len(q) /\ \A i \in 1..Len(pa) : pa[i] = q[i]
    BY <1>1, PrefixIs
  <1> HIDE DEF pa, pb
  <1>5. k \in 1..Len(q) /\ q[k] = a /\ \A i \in 1..Len(p) : q[i] = p[i]
    BY <1>1, <1>3, <1>4
  <1>6. /\ IsSeq(t) /\ Len(t) = Len(q) - k
        /\ \A i \in 1..(Len(q) - k) : t[i] = q[k + i]
    <2>1. k + 1 \in 1..(Len(q) + 1) /\ Len(q) \in 0..Len(q) /\ k + 1 <= Len(q) + 1
      BY <1>3, <1>5
    <2>2. /\ IsSeq(t) /\ Len(t) = Len(q) - (k + 1) + 1
          /\ \A i \in 1..(Len(q) - (k + 1) + 1) : t[i] = q[(k + 1) + i - 1]
      BY <2>1, SubSeqIs
    <2> HIDE DEF t
    <2> QED
      BY <1>3, <1>5, <2>2
  <1> HIDE DEF t
  <1>7. /\ IsSeq(r) /\ Len(r) = Len(pb) + Len(t)
        /\ \A i \in 1..Len(pb) : r[i] = pb[i]
        /\ \A i \in 1..Len(t) : r[Len(pb) + i] = t[i]
    <2>1. IsSeq(pb) /\ IsSeq(t)
      BY <1>2, <1>6
    <2> QED
      BY <2>1, ConcatIs
  <1> HIDE DEF r
  <1>8. Len(r) = Len(q)
    BY <1>2, <1>3, <1>5, <1>6, <1>7
  <1>9. r[k] = b
    BY <1>2, <1>3, <1>7
  <1>10. ASSUME NEW i \in 1..Len(q), i # k PROVE r[i] = q[i]
    <2>1. CASE i < k
      <3>1. i \in 1..Len(p) /\ i \in 1..Len(pb)
        BY <1>2, <1>3, <1>10, <2>1
      <3> QED
        BY <1>2, <1>5, <1>7, <3>1
    <2>2. CASE i > k
      <3> DEFINE j == i - k
      <3>1. j \in 1..Len(t) /\ i = Len(pb) + j /\ i = k + j /\ j \in 1..(Len(q) - k)
        BY <1>2, <1>3, <1>5, <1>6, <1>10, <2>2
      <3> HIDE DEF j
      <3> QED
        BY <1>6, <1>7, <3>1
    <2> QED
      BY <1>3, <1>10, <2>1, <2>2
  <1>11. r = Rebased(p, b, q)
    <2>1. k + 1 = Len(p) + 2
      BY <1>3
    <2> QED
      BY <2>1 DEF Rebased, r, t, pb
  <1>12. Swapped(p, a, b, q, r)
    BY <1>5, <1>7, <1>8, <1>9, <1>10 DEF Swapped
  <1> QED
    BY <1>11, <1>12

(* The disk e is the disk d after the entry a of p was renamed to b. *)
EntryMoved(d, p, a, b, e) ==
  /\ \A q \in DOMAIN d \ Below(d, Append(p, a)) : q \in DOMAIN e /\ e[q] = d[q]
  /\ \A q \in Below(d, Append(p, a)) :
       Rebased(p, b, q) \in DOMAIN e /\ e[Rebased(p, b, q)] = d[q]
  /\ \A x \in DOMAIN e : \/ x \in DOMAIN d \ Below(d, Append(p, a))
                         \/ \E q \in Below(d, Append(p, a)) : x = Rebased(p, b, q)

(* Renaming there and back. *)
LEMMA SwappedBack ==
  ASSUME NEW p, IsSeq(p), NEW a, NEW b, NEW q, IsSeq(q), IsPrefix(Append(p, a), q)
  PROVE  /\ IsPrefix(Append(p, b), Rebased(p, b, q))
         /\ Rebased(p, a, Rebased(p, b, q)) = q
  <1> DEFINE k == Len(p) + 1
             r == Rebased(p, b, q)
             z == Rebased(p, a, r)
             pb == Append(p, b)
  <1>1. Swapped(p, a, b, q, r)
    BY RebasedSwaps
  <1>2. Len(p) \in Nat /\ Len(q) \in Nat
    BY DEF IsSeq
  <1>3. IsSeq(pb) /\ Len(pb) = k /\ pb[k] = b /\ \A i \in 1..Len(p) : pb[i] = p[i]
    BY AppendIs
  <1> HIDE DEF r, pb
  <1>4. Len(pb) <= Len(r) /\ \A i \in 1..Len(pb) : pb[i] = r[i]
    BY <1>1, <1>2, <1>3 DEF Swapped
  <1>5. IsSeq(r)
    BY <1>1 DEF Swapped
  <1>6. IsPrefix(pb, r)
    BY <1>3, <1>4, <1>5, PrefixIs
  <1>7. Swapped(p, b, a, r, z)
    BY <1>5, <1>6, RebasedSwaps DEF pb
  <1> HIDE DEF z
  <1>8. IsSeq(z) /\ Len(z) = Len(q) /\ \A i \in 1..Len(z) : z[i] = q[i]
    BY <1>1, <1>2, <1>7 DEF Swapped
  <1>9. z = q
    BY <1>8, SameSeq
  <1> QED
    BY <1>6, <1>9 DEF z, r, pb

LEMMA MovedIs ==
  ASSUME NEW d, TreeDisk(d), NEW p, IsSeq(p), NEW a, NEW b,
         Append(p, a) \in DOMAIN d, Append(p, b) \notin DOMAIN d
  PROVE  EntryMoved(d, p, a, b, MovedTree(d, Append(p, a), Append(p, b)))
  <1> DEFINE pa == Append(p, a)
             pb == Append(p, b)
             S == Below(d, pa)
             M == MovedTree(d, pa, pb)
             moved == {Rebased(p, b, q) : q \in S}
  <1>1. Len(p) \in Nat /\ IsSeq(pa) /\ Len(pa) = Len(p) + 1 /\ IsSeq(pb) /\ Len(pb) = Len(p) + 1
        /\ Len(pa) + 1 = Len(p) + 2 /\ Len(pb) + 1 = Len(p) + 2
    BY AppendIs DEF IsSeq
  <1>2. \A q : pb \o SubSeq(q, Len(pa) + 1, Len(q)) = Rebased(p, b, q)
    BY <1>1 DEF Rebased
  <1>3. \A q : pa \o SubSeq(q, Len(pb) + 1, Len(q)) = Rebased(p, a, q)
    BY <1>1 DEF Rebased
  <1>4. M = [q \in (DOMAIN d \ S) \cup moved |->
               IF q \in moved THEN d[Rebased(p, a, q)] ELSE d[q]]
    <2> DEFINE m == {pb \o SubSeq(q, Len(pa) + 1, Len(q)) : q \in S}
    <2>1. m = moved
      BY <1>2
    <2>2. M = [q \in (DOMAIN d \ S) \cup m |->
                 IF q \in m THEN d[pa \o SubSeq(q, Len(pb) + 1, Len(q))] ELSE d[q]]
      BY DEF MovedTree
    <2> HIDE DEF m, moved, S, M, pa, pb
    <2> QED
      BY <1>3, <2>1, <2>2
  <1>5. ASSUME NEW q \in S
        PROVE  Rebased(p, b, q) \in moved /\ Rebased(p, a, Rebased(p, b, q)) = q /\ q \in DOMAIN d
    <2>1. IsSeq(q) /\ IsPrefix(Append(p, a), q) /\ q \in DOMAIN d
      BY <1>5 DEF Below, TreeDisk, Nodes
    <2>2. Rebased(p, a, Rebased(p, b, q)) = q
      BY <2>1, SwappedBack
    <2> QED
      BY <2>1, <2>2
  <1>6. ASSUME NEW x \in moved PROVE x \notin DOMAIN d
    <2> SUFFICES ASSUME x \in DOMAIN d PROVE FALSE
      OBVIOUS
    <2>1. PICK q \in S : x = Rebased(p, b, q)
      BY <1>6
    <2>2. IsSeq(q) /\ IsPrefix(Append(p, a), q)
      BY <2>1 DEF Below, TreeDisk, Nodes
    <2>3. IsPrefix(pb, x)
      BY <2>1, <2>2, SwappedBack
    <2>4. x \in Below(d, pb)
      BY <2>3 DEF Below
    <2>5. x = pb \/ IsDir(d, pb)
      BY <1>1, <2>4, BelowHasChild
    <2> QED
      BY <2>5 DEF IsDir
  <1> HIDE DEF moved
  <1>7. ASSUME NEW q \in DOMAIN d \ S PROVE q \in DOMAIN M /\ M[q] = d[q]
    <2> HIDE DEF M, S
    <2> QED
      BY <1>4, <1>6, <1>7
  <1>8. ASSUME NEW q \in S PROVE Rebased(p, b, q) \in DOMAIN M /\ M[Rebased(p, b, q)] = d[q]
    <2>1. Rebased(p, b, q) \in moved /\ Rebased(p, a, Rebased(p, b, q)) = q
      BY <1>5, <1>8
    <2> HIDE DEF M, S
    <2> QED
      BY <1>4, <2>1
  <1>9. ASSUME NEW x \in DOMAIN M
        PROVE  x \in DOMAIN d \ S \/ \E q \in S : x = Rebased(p, b, q)
    <2>1. x \in (DOMAIN d \ S) \cup moved
      <3> HIDE DEF M, S
      <3> QED
        BY <1>4, <1>9
    <2> QED
      BY <2>1 DEF moved
  <1> QED
    BY <1>7, <1>8, <1>9 DEF EntryMoved

LEMMA TreeMoved ==
  ASSUME NEW d, TreeDisk(d), NEW p, IsSeq(p), NEW a, NEW b, NEW e, FiniteDisk(e),
         Append(p, a) \in DOMAIN d, Append(p, b) \notin DOMAIN d,
         EntryMoved(d, p, a, b, e)
  PROVE  TreeDisk(e)
  <1> DEFINE pa == Append(p, a)
             S == Below(d, pa)
             k == Len(p) + 1
  <1>0. Len(p) \in Nat /\ IsSeq(pa) /\ Len(pa) = k /\ pa[k] = a /\ \A i \in 1..Len(p) : pa[i] = p[i]
    BY AppendIs DEF IsSeq
  <1>1. ASSUME NEW q \in S
        PROVE  IsSeq(q) /\ IsPrefix(pa, q) /\ q \in DOMAIN d /\ Swapped(p, a, b, q, Rebased(p, b, q))
    BY <1>1, RebasedSwaps DEF Below, TreeDisk, Nodes
  <1>2. Nodes(e)
    <2> SUFFICES ASSUME NEW x \in DOMAIN e PROVE IsSeq(x) /\ IsNode(e[x])
      BY DEF Nodes
    <2>1. CASE x \in DOMAIN d \ S
      BY <2>1 DEF EntryMoved, TreeDisk, Nodes
    <2>2. ASSUME NEW q \in S, x = Rebased(p, b, q) PROVE IsSeq(x) /\ IsNode(e[x])
      <3>1. IsSeq(x) /\ q \in DOMAIN d
        BY <1>1, <2>2 DEF Swapped
      <3>2. e[x] = d[q]
        BY <2>2 DEF EntryMoved
      <3> QED
        BY <3>1, <3>2 DEF TreeDisk, Nodes
    <2> QED
      BY <2>1, <2>2 DEF EntryMoved
  <1>3. ASSUME NEW x \in DOMAIN d \ S, NEW n \in 0..Len(x) - 1 PROVE IsDir(e, SubSeq(x, 1, n))
    <2> DEFINE h == SubSeq(x, 1, n)
    <2>1. IsSeq(x) /\ Len(x) \in Nat /\ IsDir(d, h)
      BY <1>3 DEF TreeDisk, Nodes, Rooted, IsSeq
    <2>2. IsSeq(h) /\ Len(h) = n /\ \A i \in 1..n : h[i] = x[i]
      BY <1>3, <2>1, HeadIs
    <2> HIDE DEF h
    <2>3. h \notin S
      <3> SUFFICES ASSUME h \in S PROVE FALSE
        OBVIOUS
      <3>1. Len(pa) <= n /\ \A i \in 1..Len(pa) : pa[i] = h[i]
        BY <1>0, <2>2, PrefixIs DEF Below
      <3>2. Len(pa) <= Len(x) /\ \A i \in 1..Len(pa) : pa[i] = x[i]
        BY <1>0, <1>3, <2>1, <2>2, <3>1
      <3>3. IsPrefix(pa, x)
        BY <1>0, <2>1, <3>2, PrefixIs
      <3> QED
        BY <1>3, <3>3 DEF Below
    <2>4. h \in DOMAIN d \ S
      BY <2>1, <2>3 DEF IsDir
    <2>5. h \in DOMAIN e /\ e[h] = d[h]
      BY <2>4 DEF EntryMoved
    <2> QED
      BY <2>1, <2>5 DEF IsDir, h
  <1>4. ASSUME NEW q \in S, NEW n \in 0..Len(q) - 1 PROVE IsDir(e, SubSeq(Rebased(p, b, q), 1, n))
    <2> DEFINE x == Rebased(p, b, q)
               h == SubSeq(q, 1, n)
    <2>1. IsSeq(q) /\ Len(q) \in Nat /\ q \in DOMAIN d /\ IsDir(d, h)
      BY <1>1, <1>4 DEF TreeDisk, Rooted, IsSeq
    <2>2. IsSeq(h) /\ Len(h) = n /\ \A i \in 1..n : h[i] = q[i]
      BY <1>4, <2>1, HeadIs
    <2>3. Swapped(p, a, b, q, x)
      BY <1>1, <1>4
    <2>4. IsSeq(x) /\ n \in 0..Len(x) /\ n \in 0..Len(q)
      BY <1>4, <2>1, <2>3 DEF Swapped
    <2> HIDE DEF x, h
    <2>5. CASE n < k
      <3>1. \A i \in 1..n : x[i] = q[i]
        BY <1>0, <1>4, <2>1, <2>3, <2>5 DEF Swapped
      <3>2. SubSeq(x, 1, n) = h
        BY <2>1, <2>4, <3>1, HeadOfPrefix DEF h
      <3>3. h \notin S
        <4>1. IsPrefix(pa, h) => Len(pa) <= Len(h)
          BY <1>0, <2>2, PrefixIs
        <4>2. ~(Len(pa) <= Len(h))
          BY <1>0, <1>4, <2>1, <2>2, <2>5
        <4> QED
          BY <4>1, <4>2 DEF Below
      <3>4. h \in DOMAIN e /\ e[h] = d[h]
        BY <2>1, <3>3 DEF EntryMoved, IsDir
      <3> QED
        BY <2>1, <3>2, <3>4 DEF IsDir, x
    <2>6. CASE n >= k
      <3>1. \A i \in 1..k : pa[i] = h[i]
        BY <1>0, <1>4, <2>1, <2>2, <2>3, <2>6 DEF Swapped
      <3>2. IsPrefix(pa, h)
        BY <1>0, <2>2, <2>6, <3>1, PrefixIs
      <3>3. h \in S
        BY <2>1, <3>2 DEF Below, IsDir
      <3> DEFINE r == Rebased(p, b, h)
      <3>4. Swapped(p, a, b, h, r) /\ r \in DOMAIN e /\ e[r] = d[h]
        BY <1>1, <3>3 DEF EntryMoved
      <3>5. IsSeq(SubSeq(x, 1, n)) /\ Len(SubSeq(x, 1, n)) = n
            /\ \A i \in 1..n : SubSeq(x, 1, n)[i] = x[i]
        BY <2>4, HeadIs
      <3> DEFINE y == SubSeq(x, 1, n)
      <3> HIDE DEF r, y
      <3>6. IsSeq(r) /\ Len(r) = n /\ IsSeq(y) /\ Len(y) = n
        BY <2>2, <3>4, <3>5 DEF Swapped, y
      <3>7. ASSUME NEW i \in 1..n PROVE r[i] = y[i]
        <4>1. i \in 1..Len(h) /\ i \in 1..Len(q) /\ y[i] = x[i] /\ h[i] = q[i]
          BY <2>1, <2>2, <2>4, <3>5, <3>7 DEF y
        <4> QED
          BY <2>3, <3>4, <4>1 DEF Swapped
      <3>8. r = y
        BY <3>6, <3>7, SameSeq
      <3> QED
        BY <2>1, <3>4, <3>8 DEF IsDir, y, x
    <2> QED
      BY <1>0, <1>4, <2>1, <2>5, <2>6
  <1>5. Rooted(e)
    <2> SUFFICES ASSUME NEW x \in DOMAIN e, NEW n \in 0..Len(x) - 1 PROVE IsDir(e, SubSeq(x, 1, n))
      BY DEF Rooted
    <2>1. CASE x \in DOMAIN d \ S
      BY <1>3, <2>1
    <2>2. ASSUME NEW q \in S, x = Rebased(p, b, q) PROVE IsDir(e, SubSeq(x, 1, n))
      <3>1. Len(x) = Len(q)
        BY <1>1, <2>2 DEF Swapped
      <3>2. n \in 0..Len(q) - 1
        BY <3>1
      <3> QED
        BY <1>4, <2>2, <3>2
    <2> QED
      BY <2>1, <2>2 DEF EntryMoved
  <1> QED
    BY <1>2, <1>5 DEF TreeDisk

-----------------------------------------------------------------------------
(* The panes and the orders the user prepares: what every gesture keeps. *)

GoodPanes(pns) == pns = [i \in 0..1 |-> pns[i]] /\ \A i \in 0..1 : PaneOK(pns[i])

PanesOK == active \in 0..1 /\ GoodPanes(panes)

OrdersOK ==
  /\ mouse = [f \in {"pressed", "dragging", "drag"} |-> mouse[f]] /\ IsSeq(mouse.drag)
  /\ clipboard = [f \in {"paths", "cut"} |-> clipboard[f]] /\ IsSeq(clipboard.paths)

LEMMA NamesFinite == IsFiniteSet(Names)
  <1>1. PICK n \in Nat : n = Len(Alphabet)
    BY FilesAssumption
  <1>2. DOMAIN Alphabet = 1..n
    BY <1>1, FilesAssumption
  <1> DEFINE f == [i \in 1..n |-> Alphabet[i]]
  <1>3. f \in [1..n -> Names] /\ \A x \in Names : \E i \in 1..n : f[i] = x
    BY <1>2 DEF Names, ToSet
  <1>4. f \in Surjection(1..n, Names)
    <2> HIDE DEF f
    <2> QED
      BY <1>3 DEF Surjection
  <1>5. IsFiniteSet(1..n)
    BY FS_Interval
  <1> HIDE DEF f
  <1> QED
    BY <1>4, <1>5, FS_Surjection

LEMMA TargetsAre ==
  ASSUME NEW pn
  PROVE  IsSeq(Targets(pn)) /\ IsSeq(TargetPaths(pn))
  <1> DEFINE names == Names \cap (IF pn.marked # {} THEN pn.marked ELSE Touchable(pn))
             n == Cardinality(names)
             At(k) == CHOOSE x \in names : Cardinality({m \in names : Rank(m) < Rank(x)}) = k - 1
  <1>1. n \in Nat
    <2>1. names \in SUBSET Names
      OBVIOUS
    <2> HIDE DEF names
    <2>2. IsFiniteSet(names)
      BY <2>1, NamesFinite, FS_Subset
    <2> QED
      BY <2>2, FS_CardinalityType
  <1>2. Targets(pn) = [k \in 1..n |-> At(k)]
    BY DEF Targets
  <1> HIDE DEF n, At
  <1>3. Targets(pn) = [k \in 1..n |-> Targets(pn)[k]]
    BY <1>2
  <1>4. IsSeq(Targets(pn)) /\ Len(Targets(pn)) = n
    BY <1>1, <1>3, FunctionIsSeq
  <1> DEFINE t == TargetPaths(pn)
  <1>5. t = [k \in 1..n |-> t[k]]
    BY <1>4 DEF TargetPaths
  <1> HIDE DEF t
  <1>6. IsSeq(t)
    BY <1>1, <1>5, FunctionIsSeq
  <1> QED
    BY <1>4, <1>6 DEF t

LEMMA PutKeeps ==
  ASSUME NEW pns, GoodPanes(pns), NEW k \in 0..1, NEW x, PaneOK(x)
  PROVE  GoodPanes([pns EXCEPT ![k] = x])
  BY DEF GoodPanes

LEMMA ReloadKeeps ==
  ASSUME NEW pns, GoodPanes(pns), NEW k, NEW disk, FiniteDisk(disk), NEW hidden
  PROVE  GoodPanes(Reload(pns, k, disk, hidden))
  <1> DEFINE es(i) == Entries(disk, pns[i].path, hidden)
             new(i) == Refilter([(IF i = k THEN [pns[i] EXCEPT !.marked = {}] ELSE pns[i])
                                   EXCEPT !.entries = es(i)])
  <1>1. Reload(pns, k, disk, hidden) = [i \in 0..1 |-> new(i)]
    BY DEF Reload
  <1>2. ASSUME NEW i \in 0..1 PROVE PaneOK(new(i))
    <2>1. IsFiniteSet(es(i)) /\ PaneOK(pns[i])
      BY EntriesFinite DEF GoodPanes
    <2> HIDE DEF es
    <2>2. /\ PaneOK(Refilter([pns[i] EXCEPT !.entries = es(i)]))
          /\ PaneOK(Refilter([[pns[i] EXCEPT !.marked = {}] EXCEPT !.entries = es(i)]))
      BY <2>1, RereadKeeps
    <2>3. CASE i = k
      BY <2>2, <2>3
    <2>4. CASE i # k
      BY <2>2, <2>4
    <2> QED
      BY <2>3, <2>4
  <1> HIDE DEF new
  <1> QED
    BY <1>1, <1>2 DEF GoodPanes

LEMMA PointKeeps ==
  ASSUME NEW pns, GoodPanes(pns), NEW k \in 0..1, NEW n
  PROVE  GoodPanes(PointAt(pns, k, n))
  <1> DEFINE pn == pns[k]
             i == IndexOf(pn, n, pn.sel)
  <1>1. PaneOK(pn) /\ Loose(pn) /\ pn.sel \in Nat
    BY DEF GoodPanes, PaneOK, Settled, Loose
  <1>2. i \in Nat
    BY <1>1, IndexIsNat
  <1>3. PointAt(pns, k, n) = [pns EXCEPT ![k] = Select(pn, i)]
    BY DEF PointAt
  <1> HIDE DEF i, pn
  <1> DEFINE x == Select(pn, i)
  <1>4. PaneOK(x)
    BY <1>1, <1>2, SelectKeeps
  <1> HIDE DEF x
  <1>5. GoodPanes([pns EXCEPT ![k] = x])
    BY <1>4, PutKeeps
  <1> QED
    BY <1>3, <1>5 DEF x

(* The commands, the keys and the mouse. *)
LEMMA NavigateKeeps ==
  ASSUME PanesOK, FiniteDisk(fs), Navigate
  PROVE  PanesOK'
  <1> DEFINE pn == panes[active]
  <1>1. PaneOK(pn) /\ active \in 0..1 /\ active' = active /\ GoodPanes(panes)
    BY DEF PanesOK, GoodPanes, Navigate
  <1>2. \A x : Put(x) <=> panes' = [panes EXCEPT ![active] = x]
    BY DEF Put
  <1>3. ASSUME NEW x, PaneOK(x), Put(x) PROVE PanesOK'
    <2>1. GoodPanes([panes EXCEPT ![active] = x])
      BY <1>1, <1>3, PutKeeps
    <2> QED
      BY <1>1, <1>2, <1>3, <2>1 DEF PanesOK
  <1>4. /\ PaneOK(Activated(pn, fs, show_hidden))
        /\ PaneOK(WentTo(pn, fs, Parent(pn.path), show_hidden))
        /\ PaneOK(WentBack(pn, fs, show_hidden)) /\ PaneOK(WentForward(pn, fs, show_hidden))
    BY <1>1, ActivatedKeeps, WentBackKeeps
  <1>5. \A by : PaneOK(Refilter([pn EXCEPT !.by = by, !.desc = pn.by = by /\ ~@]))
    BY <1>1, ResortKeeps
  <1>6. PaneOK(Marked(pn, 0, Size(pn))) /\ PaneOK([pn EXCEPT !.marked = {}])
    BY <1>1, MarksKeep
  <1>7. \/ Put(Activated(pn, fs, show_hidden))
        \/ Put(WentTo(pn, fs, Parent(pn.path), show_hidden))
        \/ Put(WentBack(pn, fs, show_hidden))
        \/ Put(WentForward(pn, fs, show_hidden))
        \/ \E by \in {"Name", "Size", "Time"} :
             Put(Refilter([pn EXCEPT !.by = by, !.desc = pn.by = by /\ ~@]))
        \/ Put(IF pn.marked = {} THEN Marked(pn, 0, Size(pn)) ELSE [pn EXCEPT !.marked = {}])
    BY DEF Navigate, Here
  <1> HIDE DEF pn
  <1> QED
    BY <1>3, <1>4, <1>5, <1>6, <1>7

LEMMA MoveKeeps ==
  ASSUME PanesOK, FiniteDisk(fs), Move
  PROVE  PanesOK'
  <1> DEFINE pn == panes[active]
             i0 == Size(pn) - 1
  <1>1. PaneOK(pn) /\ active \in 0..1 /\ GoodPanes(panes)
    BY DEF PanesOK, GoodPanes
  <1>2. Size(pn) \in Nat /\ pn.sel \in Nat
    BY <1>1 DEF PaneOK, Settled, Loose
  <1>3. ASSUME NEW x, PaneOK(x), panes' = [panes EXCEPT ![active] = x], active' = active
        PROVE  PanesOK'
    <2>1. GoodPanes([panes EXCEPT ![active] = x])
      BY <1>1, <1>3, PutKeeps
    <2> QED
      BY <1>1, <1>3, <2>1 DEF PanesOK
  <1>4. \/ /\ \E i \in {0, Size(pn) - 1} : Put(Select(pn, i))
           /\ active' = active
        \/ /\ \E i \in {pn.sel - 1, pn.sel + 1} \cap (0..Size(pn) - 1), shift \in BOOLEAN :
               Put(IF shift THEN Marked(Marked(Select(pn, i), i, i), pn.sel, pn.sel)
                   ELSE Select(pn, i))
           /\ active' = active
        \/ /\ Put(LET tn == Toggled(pn, pn.sel)
                  IN  Settle([tn EXCEPT !.sel = IF @ + 1 < Size(tn) THEN @ + 1 ELSE @]))
           /\ active' = active
        \/ /\ \E n \in Names : Put(Refilter([pn EXCEPT !.filter = Append(@, n)]))
           /\ active' = active
        \/ /\ Put(Refilter([pn EXCEPT !.filter = Front(@)]))
           /\ active' = active
        \/ active' = 1 - active /\ panes' = panes
    BY DEF Move, Here
  <1> HIDE DEF pn
  <1>5. \A i \in {0, Size(pn) - 1} : PaneOK(Select(pn, i))
    BY <1>1, <1>2, SelectKeeps
  <1>6. ASSUME NEW i \in 0..Size(pn) - 1
        PROVE  /\ PaneOK(Select(pn, i))
               /\ PaneOK(Marked(Marked(Select(pn, i), i, i), pn.sel, pn.sel))
    <2>1. PaneOK(Select(pn, i))
      BY <1>1, <1>2, SelectKeeps
    <2> QED
      BY <2>1, MarksKeep
  <1>7. PaneOK(LET tn == Toggled(pn, pn.sel)
               IN  Settle([tn EXCEPT !.sel = IF @ + 1 < Size(tn) THEN @ + 1 ELSE @]))
    <2> DEFINE tn == Toggled(pn, pn.sel)
               j == IF tn.sel + 1 < Size(tn) THEN tn.sel + 1 ELSE tn.sel
    <2>1. PaneOK(tn) /\ tn.sel \in Nat /\ Size(tn) \in Nat
      BY <1>1, <1>2, MarksKeep
    <2> HIDE DEF tn
    <2>2. j \in Nat
      BY <2>1
    <2>3. PaneOK(Select(tn, j))
      <3> HIDE DEF j
      <3> QED
        BY <2>1, <2>2, SelectKeeps
    <2>4. Select(tn, j) = Settle([tn EXCEPT !.sel = IF @ + 1 < Size(tn) THEN @ + 1 ELSE @])
      BY DEF Select
    <2> QED
      BY <2>3, <2>4 DEF tn
  <1>8. \A f : PaneOK(Refilter([pn EXCEPT !.filter = f]))
    BY <1>1, ResortKeeps
  <1>9. \A x : Put(x) <=> panes' = [panes EXCEPT ![active] = x]
    BY DEF Put
  <1>10. ASSUME active' = 1 - active, panes' = panes PROVE PanesOK'
    <2>1. active' \in 0..1
      BY <1>1, <1>10
    <2> QED
      BY <1>1, <1>10, <2>1 DEF PanesOK
  <1>11. ASSUME NEW i \in {0, Size(pn) - 1}, Put(Select(pn, i)), active' = active PROVE PanesOK'
    BY <1>3, <1>5, <1>9, <1>11
  <1>12. ASSUME NEW i \in {pn.sel - 1, pn.sel + 1} \cap (0..Size(pn) - 1), NEW shift \in BOOLEAN,
                Put(IF shift THEN Marked(Marked(Select(pn, i), i, i), pn.sel, pn.sel)
                    ELSE Select(pn, i)), active' = active
         PROVE  PanesOK'
    <2>1. i \in 0..Size(pn) - 1
      OBVIOUS
    <2>2. CASE shift
      BY <1>3, <1>6, <1>9, <1>12, <2>1, <2>2
    <2>3. CASE ~shift
      BY <1>3, <1>6, <1>9, <1>12, <2>1, <2>3
    <2> QED
      BY <2>2, <2>3
  <1>13. ASSUME Put(LET tn == Toggled(pn, pn.sel)
                    IN  Settle([tn EXCEPT !.sel = IF @ + 1 < Size(tn) THEN @ + 1 ELSE @])),
                active' = active
         PROVE  PanesOK'
    BY <1>3, <1>7, <1>9, <1>13
  <1>14. ASSUME NEW f, Put(Refilter([pn EXCEPT !.filter = f])), active' = active PROVE PanesOK'
    BY <1>3, <1>8, <1>9, <1>14
  <1> QED
    BY <1>4, <1>10, <1>11, <1>12, <1>13, <1>14

LEMMA PaneSet ==
  ASSUME PanesOK, NEW k \in 0..1, NEW x, PaneOK(x),
         panes' = [panes EXCEPT ![k] = x], active' \in 0..1
  PROVE  PanesOK'
  <1>1. GoodPanes([panes EXCEPT ![k] = x])
    BY PutKeeps DEF PanesOK
  <1> QED
    BY <1>1 DEF PanesOK

LEMMA PanesSame ==
  ASSUME PanesOK, panes' = panes, active' \in 0..1
  PROVE  PanesOK'
  BY DEF PanesOK

LEMMA SplitKeeps ==
  ASSUME PanesOK, Split
  PROVE  PanesOK'
  <1>1. PaneOK(panes[active]) /\ PaneOK(panes[0]) /\ active \in 0..1
    BY DEF PanesOK, GoodPanes
  <1>2. PaneOK([panes[0] EXCEPT !.marked = {}])
    BY <1>1, MarksKeep
  <1>3. active' \in 0..1
    BY <1>1 DEF Split
  <1>4. \/ panes' = [panes EXCEPT ![0] = panes[active]]
        \/ panes' = [panes EXCEPT ![1] = [panes[0] EXCEPT !.marked = {}]]
    BY DEF Split, Here
  <1> QED
    BY <1>1, <1>2, <1>3, <1>4, PaneSet

LEMMA ReadAgain ==
  ASSUME PanesOK, FiniteDisk(fs'), NEW hidden, panes' = Reload(panes, active, fs', hidden),
         active' = active
  PROVE  PanesOK'
  <1>1. GoodPanes(Reload(panes, active, fs', hidden))
    BY ReloadKeeps DEF PanesOK
  <1> QED
    BY <1>1 DEF PanesOK

LEMMA CommandKeeps ==
  ASSUME PanesOK, FiniteDisk(fs), FiniteDisk(fs'), Command \/ StopJob
  PROVE  PanesOK'
  <1>0. active \in 0..1
    BY DEF PanesOK
  <1>1. CASE Navigate
    BY <1>1, NavigateKeeps
  <1>2. CASE Ask \/ Take \/ Paste
    <2>1. panes' = panes /\ active' = active
      BY <1>2 DEF Ask, Take, Paste
    <2> QED
      BY <1>0, <2>1, PanesSame
  <1>3. CASE Split
    BY <1>3, SplitKeeps
  <1>4. CASE ShowHidden
    <2>1. panes' = Reload(panes, active, fs', show_hidden') /\ active' = active
      BY <1>4 DEF ShowHidden
    <2> QED
      BY <2>1, ReadAgain
  <1>5. CASE StopJob
    <2>1. panes' = Reload(panes, active, fs', show_hidden) /\ active' = active
      BY <1>5 DEF StopJob
    <2> QED
      BY <2>1, ReadAgain
  <1> QED
    BY <1>1, <1>2, <1>3, <1>4, <1>5 DEF Command

LEMMA EscapeKeeps ==
  ASSUME PanesOK, Escape
  PROVE  PanesOK'
  <1> DEFINE pn == panes[active]
             x == IF pn.filter # <<>> THEN Refilter([pn EXCEPT !.filter = <<>>])
                  ELSE [pn EXCEPT !.marked = {}]
  <1>1. PaneOK(pn) /\ active \in 0..1
    BY DEF PanesOK, GoodPanes
  <1>2. panes' = [panes EXCEPT ![active] = x] /\ active' = active
    BY DEF Escape, Put, Here
  <1> HIDE DEF pn
  <1>3. PaneOK(Refilter([pn EXCEPT !.filter = <<>>]))
    BY <1>1, ResortKeeps
  <1>4. PaneOK([pn EXCEPT !.marked = {}])
    BY <1>1, MarksKeep
  <1>5. PaneOK(x)
    BY <1>3, <1>4
  <1> HIDE DEF x
  <1> QED
    BY <1>1, <1>2, <1>5, PaneSet

LEMMA PointedAt ==
  ASSUME PanesOK, FiniteDisk(fs'), NEW n, active' = active,
         panes' = PointAt(Reload(panes, active, fs', show_hidden), active, n)
  PROVE  PanesOK'
  <1> DEFINE pns == Reload(panes, active, fs', show_hidden)
  <1>1. active \in 0..1 /\ GoodPanes(pns)
    BY ReloadKeeps DEF PanesOK
  <1> HIDE DEF pns
  <1>2. GoodPanes(PointAt(pns, active, n))
    BY <1>1, PointKeeps
  <1> QED
    BY <1>1, <1>2 DEF PanesOK, pns

LEMMA PressKeeps ==
  ASSUME PanesOK, FiniteDisk(fs), NEW k \in 0..1, NEW hit \in 0..Size(panes[k]) - 1, Press(k, hit)
  PROVE  PanesOK'
  <1> DEFINE pn == panes[k]
             lo == Min({pn.sel, hit})
             hi == Max({pn.sel, hit})
  <1>1. PaneOK(pn) /\ Size(pn) \in Nat
    BY DEF PanesOK, GoodPanes, PaneOK, Settled, Loose
  <1>2. \/ panes' = [panes EXCEPT ![k] = Select(Toggled(pn, hit), hit)]
        \/ panes' = [panes EXCEPT ![k] = Select(Marked(pn, lo, hi), hit)]
        \/ panes' = [panes EXCEPT ![k] = Activated(pn, fs, show_hidden)]
        \/ panes' = [panes EXCEPT ![k] = Select(pn, hit)]
    BY DEF Press
  <1>3. active' = k
    BY DEF Press
  <1> HIDE DEF pn, lo, hi
  <1>4. PaneOK(Toggled(pn, hit)) /\ PaneOK(Marked(pn, lo, hi))
    BY <1>1, MarksKeep
  <1>5. PaneOK(Select(Toggled(pn, hit), hit)) /\ PaneOK(Select(Marked(pn, lo, hi), hit))
        /\ PaneOK(Select(pn, hit))
    BY <1>1, <1>4, SelectKeeps
  <1>6. PaneOK(Activated(pn, fs, show_hidden))
    BY <1>1, ActivatedKeeps
  <1> QED
    BY <1>2, <1>3, <1>5, <1>6, PaneSet

LEMMA OpenMenuKeeps ==
  ASSUME PanesOK, NEW k \in 0..1, NEW hit \in 0..Size(panes[k]), OpenMenu(k, hit)
  PROVE  PanesOK'
  <1> DEFINE pn == panes[k]
  <1>1. PaneOK(pn) /\ Size(pn) \in Nat
    BY DEF PanesOK, GoodPanes, PaneOK, Settled, Loose
  <1>2. (panes' = panes \/ panes' = [panes EXCEPT ![k] = Select(pn, hit)]) /\ active' = k
    BY DEF OpenMenu
  <1> HIDE DEF pn
  <1>3. PaneOK(Select(pn, hit))
    BY <1>1, SelectKeeps
  <1> QED
    BY <1>2, <1>3, PaneSet, PanesSame

LEMMA PressBarKeeps ==
  ASSUME PanesOK, FiniteDisk(fs), NEW k \in 0..1, PressBar(k)
  PROVE  PanesOK'
  <1> DEFINE pn == panes[k]
             last == IF Size(pn) = 0 THEN 0 ELSE Size(pn) - 1
             down == Min({pn.sel + 3, last})
             up == IF pn.sel > 3 THEN pn.sel - 3 ELSE 0
  <1>1. PaneOK(pn) /\ Size(pn) \in Nat /\ pn.sel \in Nat
    BY DEF PanesOK, GoodPanes, PaneOK, Settled, Loose
  <1>2. active' = k /\ \E x : /\ panes' = [panes EXCEPT ![k] = x]
                              /\ \/ \E n \in 0..Len(pn.path) :
                                      x = WentTo(pn, fs, SubSeq(pn.path, 1, n), show_hidden)
                                 \/ \E by : x = Refilter([pn EXCEPT !.by = by, !.desc = pn.by = by /\ ~@])
                                 \/ x = Select(pn, up) \/ x = Select(pn, down)
    BY DEF PressBar
  <1> HIDE DEF pn
  <1>3. ASSUME NEW n \in 0..Len(pn.path)
        PROVE  PaneOK(WentTo(pn, fs, SubSeq(pn.path, 1, n), show_hidden))
    <2>1. IsSeq(SubSeq(pn.path, 1, n))
      BY <1>1, HeadIs DEF PaneOK
    <2> QED
      BY <1>1, <2>1, WentToKeeps
  <1>4. \A by : PaneOK(Refilter([pn EXCEPT !.by = by, !.desc = pn.by = by /\ ~@]))
    BY <1>1, ResortKeeps
  <1>5. up \in Nat /\ last \in Nat
    BY <1>1
  <1> HIDE DEF up, last
  <1>6. down \in Nat
    <2>1. \A a, b \in Nat : Min({a, b}) \in Nat
      BY DEF Min
    <2> QED
      BY <1>1, <1>5, <2>1
  <1> HIDE DEF down
  <1>7. PaneOK(Select(pn, up)) /\ PaneOK(Select(pn, down))
    BY <1>1, <1>5, <1>6, SelectKeeps
  <1> QED
    BY <1>2, <1>3, <1>4, <1>7, PaneSet

LEMMA PlaceKeeps ==
  ASSUME PanesOK, FiniteDisk(fs), ClickPlace
  PROVE  PanesOK'
  <1> DEFINE pn == panes[active]
  <1>1. PaneOK(pn) /\ active \in 0..1
    BY DEF PanesOK, GoodPanes
  <1>2. PICK p \in Places : panes' = [panes EXCEPT ![active] = WentTo(pn, fs, p, show_hidden)]
    BY DEF ClickPlace, Put, Here
  <1>3. active' = active
    BY DEF ClickPlace
  <1>4. IsSeq(p)
    BY FilesAssumption, SeqIs
  <1> HIDE DEF pn
  <1>5. PaneOK(WentTo(pn, fs, p, show_hidden))
    BY <1>1, <1>4, WentToKeeps
  <1> QED
    BY <1>1, <1>2, <1>3, <1>5, PaneSet

LEMMA JobEndKeeps ==
  ASSUME PanesOK, FiniteDisk(fs), JobEnd
  PROVE  PanesOK'
  <1> DEFINE es(pn) == IF IsDir(fs, pn.path) THEN Entries(fs, pn.path, show_hidden) ELSE pn.entries
             reread(pn) == [pn EXCEPT !.entries = es(pn)]
             read == [i \in 0..1 |-> reread(panes[i])]
  <1>2. active' = active /\ active \in 0..1
    BY DEF JobEnd, PanesOK
  <1>1. panes' = [read EXCEPT ![active] = Refilter(@)]
    BY DEF JobEnd
  <1>3. ASSUME NEW i \in 0..1 PROVE PaneOK(reread(panes[i])) /\ PaneOK(Refilter(reread(panes[i])))
    <2>1. PaneOK(panes[i]) /\ IsFiniteSet(panes[i].entries)
      BY DEF PanesOK, GoodPanes, PaneOK, Settled, Loose
    <2>2. IsFiniteSet(es(panes[i]))
      BY <2>1, EntriesFinite
    <2> HIDE DEF es
    <2> QED
      BY <2>1, <2>2, RereadKeeps
  <1> HIDE DEF reread
  <1>4. /\ DOMAIN panes' = 0..1
        /\ \A i \in 0..1 : panes'[i] = IF i = active THEN Refilter(reread(panes[i]))
                                      ELSE reread(panes[i])
    BY <1>1, <1>2
  <1> QED
    BY <1>1, <1>2, <1>3, <1>4 DEF PanesOK, GoodPanes

LEMMA PanesStep ==
  ASSUME PanesOK, FiniteDisk(fs), FiniteDisk(fs'), [Next]_vars
  PROVE  PanesOK'
  <1>0. active \in 0..1
    BY DEF PanesOK
  <1>1. CASE Key \/ MenuClick
    <2>1. Command \/ StopJob \/ Move \/ Escape
      BY <1>1 DEF Key, MenuClick
    <2> QED
      BY <2>1, CommandKeeps, MoveKeeps, EscapeKeeps
  <1>2. CASE Decline \/ CommitDelete \/ MenuClose \/ JobStep \/ Outside \/ ClientChanges
           \/ UNCHANGED vars
    <2>1. panes' = panes /\ active' = active
      BY <1>2 DEF Decline, CommitDelete, MenuClose, JobStep, Outside, ClientChanges, vars, ui
    <2> QED
      BY <1>0, <2>1, PanesSame
  <1>3. CASE CommitRename
    <2>1. active' = active /\ \E n : panes' = PointAt(Reload(panes, active, fs', show_hidden), active, n)
      BY <1>3 DEF CommitRename
    <2> QED
      BY <2>1, PointedAt
  <1>4. CASE CommitCreate
    <2>1. active' = active /\ \E n : panes' = PointAt(Reload(panes, active, fs', show_hidden), active, n)
      BY <1>4 DEF CommitCreate
    <2> QED
      BY <2>1, PointedAt
  <1>5. CASE Mouse
    <2>1. PICK k \in 0..1 :
            \/ \E hit \in 0..Size(panes[k]) - 1 : Press(k, hit)
            \/ \E hit \in 0..Size(panes[k]) : Release(k, hit) \/ OpenMenu(k, hit)
            \/ PressBar(k) \/ Motion(k)
      BY <1>5 DEF Mouse
    <2>2. ASSUME NEW hit, Release(k, hit) PROVE PanesOK'
      <3>1. panes' = panes /\ active' = k
        BY <2>2 DEF Release
      <3> QED
        BY <3>1, PanesSame
    <2>3. ASSUME Motion(k) PROVE PanesOK'
      <3>1. panes' = panes /\ active' = k
        BY <2>3 DEF Motion
      <3> QED
        BY <3>1, PanesSame
    <2> QED
      BY <2>1, <2>2, <2>3, PressKeeps, OpenMenuKeeps, PressBarKeeps
  <1>6. CASE ClickPlace
    BY <1>6, PlaceKeeps
  <1>7. CASE JobEnd
    BY <1>7, JobEndKeeps
  <1> QED
    BY <1>1, <1>2, <1>3, <1>4, <1>5, <1>6, <1>7 DEF Next

LEMMA OrdersStep ==
  ASSUME OrdersOK, [Next]_vars
  PROVE  OrdersOK'
  <1>1. ASSUME mouse' = mouse, clipboard' = clipboard PROVE OrdersOK'
    BY <1>1 DEF OrdersOK
  <1>2. CASE Command \/ StopJob \/ Move \/ Escape
    <2>1. CASE Navigate \/ Ask \/ Split \/ ShowHidden \/ StopJob \/ Move \/ Escape
      BY <1>1, <2>1 DEF Navigate, Ask, Split, ShowHidden, StopJob, Move, Escape
    <2>2. CASE Take
      <3>1. mouse' = mouse /\ \E cut \in BOOLEAN : clipboard' = [paths |-> TargetPaths(Here), cut |-> cut]
        BY <2>2 DEF Take
      <3>2. IsSeq(TargetPaths(Here))
        BY TargetsAre
      <3> QED
        BY <3>1, <3>2 DEF OrdersOK
    <2>3. CASE Paste
      <3>1. mouse' = mouse /\ (clipboard' = [clipboard EXCEPT !.paths = <<>>] \/ clipboard' = clipboard)
        BY <2>3 DEF Paste
      <3>2. IsSeq(<<>>)
        BY EmptyIsSeq
      <3> QED
        BY <3>1, <3>2 DEF OrdersOK
    <2> QED
      BY <1>2, <2>1, <2>2, <2>3 DEF Command
  <1>3. CASE Mouse
    <2>1. PICK k \in 0..1 :
            \/ \E hit \in 0..Size(panes[k]) - 1 : Press(k, hit)
            \/ \E hit \in 0..Size(panes[k]) : Release(k, hit) \/ OpenMenu(k, hit)
            \/ PressBar(k) \/ Motion(k)
      BY <1>3 DEF Mouse
    <2>2. ASSUME NEW hit, Press(k, hit) PROVE OrdersOK'
      <3>1. clipboard' = clipboard /\ (mouse' = mouse \/ mouse' = [mouse EXCEPT !.pressed = TRUE])
        BY <2>2 DEF Press
      <3> QED
        BY <3>1 DEF OrdersOK
    <2>3. ASSUME NEW hit, OpenMenu(k, hit) PROVE OrdersOK'
      BY <1>1, <2>3 DEF OpenMenu
    <2>4. ASSUME PressBar(k) PROVE OrdersOK'
      BY <1>1, <2>4 DEF PressBar
    <2>5. ASSUME NEW hit, Release(k, hit) PROVE OrdersOK'
      <3>1. clipboard' = clipboard /\ mouse' = NoDrag
        BY <2>5 DEF Release
      <3>2. IsSeq(<<>>)
        BY EmptyIsSeq
      <3> QED
        BY <3>1, <3>2 DEF OrdersOK, NoDrag
    <2>6. ASSUME Motion(k) PROVE OrdersOK'
      <3> DEFINE t == TargetPaths(panes[k])
                 b == Targets(panes[k]) # <<>>
      <3>1. clipboard' = clipboard /\ (mouse' = mouse \/ mouse' = [mouse EXCEPT !.dragging = b, !.drag = t])
        BY <2>6 DEF Motion
      <3>2. IsSeq(t)
        BY TargetsAre
      <3> HIDE DEF t, b
      <3> QED
        BY <3>1, <3>2 DEF OrdersOK
    <2> QED
      BY <2>1, <2>2, <2>3, <2>4, <2>5, <2>6
  <1>4. CASE Decline \/ CommitDelete \/ MenuClose \/ JobStep \/ Outside \/ ClientChanges
           \/ UNCHANGED vars
             \/ CommitRename \/ CommitCreate \/ ClickPlace \/ JobEnd
    BY <1>1, <1>4 DEF Decline, CommitDelete, MenuClose, JobStep, Outside, ClientChanges, vars, ui,
                      CommitRename, CommitCreate, ClickPlace, JobEnd
  <1> QED
    BY <1>2, <1>3, <1>4 DEF Next, Key, MenuClick

-----------------------------------------------------------------------------
(* What a step of the whole program may do to the disk and to the job. *)

Item3(it) == it.rmdir_only \in BOOLEAN /\ IsSeq(it.to)

IsStack(ps) == IsSeq(ps) /\ \A i \in 1..Len(ps) : Item3(ps[i])

OpenAt(disk) == {p \in DOMAIN disk : disk[p].state = "open"}

CurFields == {"from", "to", "data", "whole", "left"}

(* The job, and the one file it has open. *)
JobOK(j, disk) ==
  /\ IsJob(j) /\ IsStack(j.pending)
  /\ j.cur = [f \in CurFields |-> j.cur[f]]
  /\ Copying(j) => /\ j.active /\ j.cur.to # <<>>
                   /\ \E p \in DOMAIN disk : OpenAt(disk) = {p} /\ disk[p].data = j.cur.data
  /\ ~Copying(j) => OpenAt(disk) = {}

DiskOK == TreeDisk(fs) /\ JobOK(job, fs) /\ faults \in Nat /\ outside \in Nat

FilesInv == PanesOK /\ OrdersOK /\ DiskOK

(* A new job, the entry it renames and the file it makes, by a gesture. *)
JobStarts ==
  /\ ~job.active
  /\ \E order, dest, kind : IsSeq(order) /\ IsSeq(dest) /\ StartJob(order, dest, kind)

EntryRenamed ==
  /\ \E p, a, b : /\ IsSeq(p) /\ Append(p, a) \in DOMAIN fs /\ Append(p, b) \notin DOMAIN fs
                  /\ fs' = MovedTree(fs, Append(p, a), Append(p, b))
  /\ Disturbed

EntryMade ==
  /\ \E p, node : /\ IsSeq(p) /\ CanCreate(fs, p) /\ node \in {Dir, File(0, "whole")}
                  /\ fs' = With(fs, p, node)
  /\ Disturbed

FileGone ==
  /\ \E p \in DOMAIN fs : IsFile(fs, p) /\ fs[p].state # "open" /\ fs' = Without(fs, {p})
  /\ Disturbed

JobStops == fs' = Closed(fs, "torn") /\ job' = NoJob /\ report' = "stopped"

DiskEvent ==
  \/ UNCHANGED <<fs, job, faults, outside>>
  \/ (JobStarts \/ EntryRenamed \/ EntryMade \/ JobStops) /\ UNCHANGED <<faults, outside>>
  \/ FileGone /\ faults' = faults /\ outside > 0 /\ outside' = outside - 1
  \/ JobStep
  \/ job.active /\ ~HasWork /\ job' = NoJob /\ UNCHANGED <<fs, faults, outside>>

LEMMA DropIs ==
  ASSUME NEW pn, PaneOK(pn), NEW hit, NEW sources
  PROVE  IsSeq(DropTarget(pn, hit, sources))
  <1>1. IsSeq(pn.path) /\ IsSeq(Parent(pn.path)) /\ \A n : IsSeq(Join(pn.path, n))
    BY ParentIs DEF PaneOK
  <1>2. IsSeq(Nowhere)
    BY DEF Nowhere, IsSeq
  <1> QED
    BY <1>1, <1>2 DEF DropTarget

LEMMA DiskEvents ==
  ASSUME PanesOK, OrdersOK, [Next]_vars
  PROVE  DiskEvent
  <1>0. active \in 0..1 /\ PaneOK(panes[active]) /\ IsSeq(panes[active].path)
    BY DEF PanesOK, GoodPanes, PaneOK
  <1>1. CASE Key \/ MenuClick
    <2>0. outside' = outside
      BY <1>1 DEF Key, MenuClick, Gesture
    <2>1. CASE Navigate \/ Ask \/ Take \/ Split \/ ShowHidden \/ Move \/ Escape
      BY <2>0, <2>1 DEF Navigate, Ask, Take, Split, ShowHidden, Move, Escape, DiskEvent
    <2>2. CASE Paste
      <3> DEFINE kind == IF clipboard.cut THEN "Move" ELSE "Copy"
      <3>1. ~job.active /\ StartJob(clipboard.paths, panes[active].path, kind) /\ faults' = faults
        BY <2>2 DEF Paste, Free, Here
      <3>2. IsSeq(clipboard.paths)
        BY DEF OrdersOK
      <3> HIDE DEF kind
      <3>3. JobStarts
        BY <1>0, <3>1, <3>2 DEF JobStarts
      <3> QED
        BY <2>0, <3>1, <3>3 DEF DiskEvent
    <2>3. CASE StopJob
      <3>1. fs' = Closed(fs, "torn") /\ job' = NoJob /\ report' = "stopped" /\ faults' = faults
        BY <2>3 DEF StopJob, Cancelled
      <3> QED
        BY <2>0, <3>1 DEF DiskEvent, JobStops
    <2> QED
      BY <1>1, <2>1, <2>2, <2>3 DEF Key, MenuClick, Command
  <1>2. CASE Decline \/ ClickPlace \/ MenuClose \/ ClientChanges \/ UNCHANGED vars
    BY <1>2 DEF Decline, ClickPlace, MenuClose, ClientChanges, Gesture, vars, DiskEvent
  <1>3. CASE CommitRename
    <2>1. /\ faults' = faults /\ outside' = outside /\ Disturbed
          /\ \E n \in Names, from \in Touchable(Here) :
               /\ Append(panes[active].path, from) \in DOMAIN fs
               /\ Append(panes[active].path, n) \notin DOMAIN fs
               /\ fs' = MovedTree(fs, Append(panes[active].path, from), Append(panes[active].path, n))
      BY <1>3 DEF CommitRename, Gesture, Here, Join
    <2>2. EntryRenamed
      BY <1>0, <2>1 DEF EntryRenamed
    <2> QED
      BY <2>1, <2>2 DEF DiskEvent
  <1>4. CASE CommitCreate
    <2>1. /\ faults' = faults /\ outside' = outside /\ Disturbed
          /\ \E n \in Names : \E node \in {Dir, File(0, "whole")} :
               /\ CanCreate(fs, Join(panes[active].path, n))
               /\ fs' = With(fs, Join(panes[active].path, n), node)
      BY <1>4 DEF CommitCreate, Gesture, Here
    <2>2. \A n : IsSeq(Join(panes[active].path, n))
      BY <1>0, ParentIs
    <2>3. EntryMade
      BY <2>1, <2>2 DEF EntryMade
    <2> QED
      BY <2>1, <2>3 DEF DiskEvent
  <1>5. CASE CommitDelete
    <2>1. /\ faults' = faults /\ outside' = outside
          /\ \/ ~job.active /\ StartJob(TargetPaths(Here), <<>>, "Delete")
             \/ UNCHANGED <<fs, job>>
      BY <1>5 DEF CommitDelete, Gesture, Free
    <2>2. IsSeq(TargetPaths(Here)) /\ IsSeq(<<>>)
      BY TargetsAre, EmptyIsSeq
    <2> QED
      BY <2>1, <2>2 DEF DiskEvent, JobStarts
  <1>6. CASE Mouse
    <2>1. PICK k \in 0..1 :
            \/ \E hit \in 0..Size(panes[k]) - 1 : Press(k, hit)
            \/ \E hit \in 0..Size(panes[k]) : Release(k, hit) \/ OpenMenu(k, hit)
            \/ PressBar(k) \/ Motion(k)
      BY <1>6 DEF Mouse
    <2>2. ASSUME NEW hit, Press(k, hit) PROVE DiskEvent
      BY <2>2 DEF Press, Gesture, DiskEvent
    <2>3. ASSUME NEW hit, OpenMenu(k, hit) PROVE DiskEvent
      BY <2>3 DEF OpenMenu, Gesture, DiskEvent
    <2>4. ASSUME PressBar(k) PROVE DiskEvent
      BY <2>4 DEF PressBar, Gesture, DiskEvent
    <2>5. ASSUME Motion(k) PROVE DiskEvent
      BY <2>5 DEF Motion, Gesture, DiskEvent
    <2>6. ASSUME NEW hit, Release(k, hit) PROVE DiskEvent
      <3> DEFINE dest == DropTarget(panes[k], hit, ToSet(mouse.drag))
      <3>1. /\ faults' = faults /\ outside' = outside
            /\ \/ ~job.active /\ StartJob(mouse.drag, dest, "Move")
               \/ UNCHANGED <<fs, job>>
        BY <2>6 DEF Release, Gesture, Free
      <3>2. IsSeq(dest) /\ IsSeq(mouse.drag)
        BY <2>1, DropIs DEF PanesOK, GoodPanes, OrdersOK
      <3> HIDE DEF dest
      <3> QED
        BY <3>1, <3>2 DEF DiskEvent, JobStarts
    <2> QED
      BY <2>1, <2>2, <2>3, <2>4, <2>5, <2>6
  <1>7. CASE JobStep
    BY <1>7 DEF DiskEvent
  <1>8. CASE JobEnd
    BY <1>8 DEF JobEnd, DiskEvent
  <1>9. CASE Outside
    BY <1>9 DEF Outside, DiskEvent, FileGone
  <1> QED
    BY <1>1, <1>2, <1>3, <1>4, <1>5, <1>6, <1>7, <1>8, <1>9 DEF Next

-----------------------------------------------------------------------------
(* One file is open while the job copies, and none otherwise. *)

LEMMA OpenWithout ==
  ASSUME NEW d, NEW p
  PROVE  OpenAt(Without(d, {p})) = OpenAt(d) \ {p}
  BY DEF OpenAt, Without

LEMMA OpenWith ==
  ASSUME NEW d, NEW p, p \notin DOMAIN d, NEW n
  PROVE  /\ n.state # "open" => OpenAt(With(d, p, n)) = OpenAt(d)
         /\ n.state = "open" => OpenAt(With(d, p, n)) = OpenAt(d) \cup {p}
  BY DEF OpenAt, With

LEMMA OpenClosed ==
  ASSUME NEW d, Nodes(d), NEW st, st # "open"
  PROVE  OpenAt(Closed(d, st)) = {}
  <1> DEFINE e == Closed(d, st)
  <1>1. /\ DOMAIN e = DOMAIN d
        /\ \A q \in DOMAIN d : e[q] = IF d[q].state = "open" THEN File(d[q].data, st) ELSE d[q]
    BY ClosedIs
  <1> HIDE DEF e
  <1>2. \A q \in DOMAIN e : e[q].state # "open"
    BY <1>1 DEF File
  <1>3. OpenAt(e) = {}
    BY <1>2 DEF OpenAt
  <1> QED
    BY <1>3 DEF e

(* A job with no open file. *)
Resting(j) == IsJob(j) /\ IsStack(j.pending) /\ j.cur = NoFile

LEMMA StartedIs ==
  ASSUME NEW disk, NEW order, IsSeq(order), NEW dest, IsSeq(dest), NEW kind
  PROVE  Resting(Started(disk, order, dest, kind))
  <1> DEFINE n == Len(order)
             It(i) == Item(order[i], Join(dest, Last(order[i])), FALSE)
             f == [i \in 1..n |-> It(i)]
             ps == Reverse(f)
             j == Started(disk, order, dest, kind)
  <1>1. n \in Nat
    BY DEF IsSeq
  <1>2. \A i : Item3(It(i))
    BY ParentIs DEF Item3, Item
  <1> HIDE DEF It, n
  <1>3. f = [i \in 1..n |-> f[i]] /\ \A i \in 1..n : f[i] = It(i)
    OBVIOUS
  <1> HIDE DEF f
  <1>4. Len(f) = n
    BY <1>1, <1>3, FunctionIsSeq
  <1>5. ps = [i \in 1..n |-> f[(n - i) + 1]]
    BY <1>4 DEF Reverse
  <1> HIDE DEF ps
  <1>6. ps = [i \in 1..n |-> ps[i]]
    BY <1>5
  <1>7. IsSeq(ps) /\ Len(ps) = n
    BY <1>1, <1>6, FunctionIsSeq
  <1>8. \A i \in 1..n : Item3(ps[i])
    <2> SUFFICES ASSUME NEW i \in 1..n PROVE Item3(ps[i])
      OBVIOUS
    <2>1. (n - i) + 1 \in 1..n
      BY <1>1
    <2>2. ps[i] = f[(n - i) + 1]
      BY <1>5
    <2> QED
      BY <1>2, <1>3, <2>1, <2>2
  <1>9. IsStack(ps)
    BY <1>7, <1>8 DEF IsStack
  <1>10. j = [NoJob EXCEPT !.active = order # <<>>, !.kind = kind, !.pending = ps,
                           !.promise = Promise(disk, ToSet(order), dest)]
    BY DEF Started, ps, f, It, n
  <1>11. IsJob(j) /\ j.pending = ps /\ j.cur = NoFile
    <2> DEFINE pr == Promise(disk, ToSet(order), dest)
               ac == order # <<>>
    <2> HIDE DEF pr, ac, j
    <2> QED
      BY <1>10 DEF IsJob, JobFields, NoJob, pr, ac
  <1> HIDE DEF j
  <1>12. Resting(j)
    BY <1>9, <1>11 DEF Resting
  <1> QED
    BY <1>12 DEF j

LEMMA NoFileIs ==
  NoFile = [f \in CurFields |-> NoFile[f]] /\ IsJob(NoJob) /\ IsStack(NoJob.pending)
  /\ NoJob.cur = NoFile
  <1>1. NoFile = [f \in CurFields |-> NoFile[f]]
    BY DEF NoFile, CurFields
  <1>2. IsJob(NoJob) /\ NoJob.cur = NoFile /\ NoJob.pending = <<>>
    BY DEF IsJob, NoJob, JobFields
  <1>3. IsStack(<<>>)
    BY EmptyIsSeq DEF IsStack
  <1> QED
    BY <1>1, <1>2, <1>3

LEMMA RestingJob ==
  ASSUME NEW j, IsJob(j), IsStack(j.pending), j.cur = NoFile, NEW d, OpenAt(d) = {}
  PROVE  JobOK(j, d)
  BY NoFileIs DEF JobOK, Copying

(* The job is not told what others do to the disk. *)
LEMMA DisturbedJob ==
  ASSUME JobOK(job, fs), Disturbed, NEW d,
         \A p : OpenAt(fs) = {p} /\ p \in DOMAIN fs =>
                \E q \in DOMAIN d : OpenAt(d) = {q} /\ d[q].data = fs[p].data,
         OpenAt(fs) = {} => OpenAt(d) = {}
  PROVE  JobOK(job', d)
  <1>1. /\ IsJob(job') /\ job'.pending = job.pending /\ job'.cur = job.cur
        /\ job'.active = job.active
    BY DEF Disturbed, JobOK, IsJob, JobFields
  <1>2. Copying(job') <=> Copying(job)
    BY <1>1 DEF Copying
  <1>3. ASSUME Copying(job)
        PROVE  \E q \in DOMAIN d : OpenAt(d) = {q} /\ d[q].data = job.cur.data
    <2>1. PICK p \in DOMAIN fs : OpenAt(fs) = {p} /\ fs[p].data = job.cur.data
      BY <1>3 DEF JobOK
    <2>2. PICK q \in DOMAIN d : OpenAt(d) = {q} /\ d[q].data = fs[p].data
      BY <2>1
    <2> QED
      BY <2>1, <2>2
  <1> QED
    BY <1>1, <1>2, <1>3 DEF JobOK

LEMMA EntryRenamedKeeps ==
  ASSUME TreeDisk(fs), JobOK(job, fs), EntryRenamed
  PROVE  TreeDisk(fs') /\ JobOK(job', fs')
  <1>1. PICK p, a, b : /\ IsSeq(p) /\ Append(p, a) \in DOMAIN fs /\ Append(p, b) \notin DOMAIN fs
                       /\ fs' = MovedTree(fs, Append(p, a), Append(p, b))
    BY DEF EntryRenamed
  <1> DEFINE e == fs'
             S == Below(fs, Append(p, a))
  <1>2. EntryMoved(fs, p, a, b, e)
    BY <1>1, MovedIs
  <1>3. FiniteDisk(e)
    BY <1>1, MovedFinite DEF TreeDisk
  <1>4. TreeDisk(e)
    BY <1>1, <1>2, <1>3, TreeMoved
  <1>5. ASSUME NEW x \in DOMAIN e, e[x].state = "open"
        PROVE  \E q \in OpenAt(fs) : x = IF q \in S THEN Rebased(p, b, q) ELSE q
    <2>1. CASE x \in DOMAIN fs \ S
      BY <1>2, <1>5, <2>1 DEF EntryMoved, OpenAt
    <2>2. ASSUME NEW q \in S, x = Rebased(p, b, q)
          PROVE  \E z \in OpenAt(fs) : x = IF z \in S THEN Rebased(p, b, z) ELSE z
      <3>1. e[x] = fs[q] /\ q \in DOMAIN fs
        BY <1>2, <2>2 DEF EntryMoved, Below
      <3>2. q \in OpenAt(fs)
        BY <1>5, <3>1 DEF OpenAt
      <3> QED
        BY <2>2, <3>2
    <2> QED
      BY <1>2, <2>1, <2>2 DEF EntryMoved
  <1>6. ASSUME NEW q, q \in DOMAIN fs, OpenAt(fs) = {q}
        PROVE  \E x \in DOMAIN e : OpenAt(e) = {x} /\ e[x].data = fs[q].data
    <2> DEFINE x == IF q \in S THEN Rebased(p, b, q) ELSE q
    <2>1. x \in DOMAIN e /\ e[x] = fs[q]
      BY <1>2, <1>6 DEF EntryMoved
    <2>2. e[x].state = "open"
      BY <1>6, <2>1 DEF OpenAt
    <2>3. \A y \in OpenAt(e) : y = x
      BY <1>5, <1>6 DEF OpenAt
    <2> HIDE DEF x, e
    <2>4. OpenAt(e) = {x}
      BY <2>1, <2>2, <2>3 DEF OpenAt
    <2> QED
      BY <2>1, <2>4
  <1>7. OpenAt(fs) = {} => OpenAt(e) = {}
    BY <1>5 DEF OpenAt
  <1>8. Disturbed
    BY DEF EntryRenamed
  <1> HIDE DEF e, S
  <1>9. JobOK(job', e)
    BY <1>6, <1>7, <1>8, DisturbedJob
  <1> QED
    BY <1>4, <1>9 DEF e

LEMMA EntryMadeKeeps ==
  ASSUME TreeDisk(fs), JobOK(job, fs), EntryMade \/ FileGone
  PROVE  TreeDisk(fs') /\ JobOK(job', fs')
  <1>0. Nodes(fs) /\ Disturbed
    BY DEF TreeDisk, EntryMade, FileGone
  <1>1. CASE EntryMade
    <2>1. PICK p, node : /\ IsSeq(p) /\ CanCreate(fs, p) /\ node \in {Dir, File(0, "whole")}
                         /\ fs' = With(fs, p, node)
      BY <1>1 DEF EntryMade
    <2>2. IsNode(node) /\ node.state # "open"
      BY <2>1 DEF IsNode, Dir, File
    <2>3. TreeDisk(fs')
      BY <2>1, <2>2, TreeWith
    <2>4. p \notin DOMAIN fs
      BY <2>1 DEF CanCreate
    <2>5. OpenAt(fs') = OpenAt(fs) /\ \A q \in DOMAIN fs : q \in DOMAIN fs' /\ fs'[q] = fs[q]
      <3>1. OpenAt(fs') = OpenAt(fs)
        BY <2>1, <2>2, <2>4, OpenWith
      <3>2. \A q \in DOMAIN fs : q \in DOMAIN fs' /\ fs'[q] = fs[q]
        BY <2>1, <2>4 DEF With
      <3> QED
        BY <2>2, <3>1, <3>2
    <2>6. JobOK(job', fs')
      BY <1>0, <2>5, DisturbedJob
    <2> QED
      BY <2>3, <2>6
  <1>2. CASE FileGone
    <2>1. PICK p \in DOMAIN fs : IsFile(fs, p) /\ fs[p].state # "open" /\ fs' = Without(fs, {p})
      BY <1>2 DEF FileGone
    <2>2. TreeDisk(fs')
      BY <2>1, TreeWithout
    <2>3. OpenAt(fs') = OpenAt(fs) /\ p \notin OpenAt(fs)
      <3>1. OpenAt(fs') = OpenAt(fs) \ {p}
        BY <2>1, OpenWithout
      <3>2. p \notin OpenAt(fs)
        BY <2>1 DEF OpenAt
      <3> QED
        BY <3>1, <3>2
    <2>4. \A q \in DOMAIN fs : q # p => q \in DOMAIN fs' /\ fs'[q] = fs[q]
      BY <2>1 DEF Without
    <2>5. JobOK(job', fs')
      BY <1>0, <2>3, <2>4, DisturbedJob
    <2> QED
      BY <2>2, <2>5
  <1> QED
    BY <1>1, <1>2

LEMMA JobStartsKeeps ==
  ASSUME TreeDisk(fs), JobOK(job, fs), JobStarts \/ JobStops
  PROVE  TreeDisk(fs') /\ JobOK(job', fs')
  <1>1. Nodes(fs) /\ fs' = Closed(fs, "torn")
    BY DEF TreeDisk, JobStarts, JobStops, StartJob
  <1>2. TreeDisk(fs') /\ OpenAt(fs') = {}
    BY <1>1, TreeClosed, OpenClosed
  <1>3. IsJob(job') /\ IsStack(job'.pending) /\ job'.cur = NoFile
    <2>1. CASE JobStops
      BY <2>1, NoFileIs DEF JobStops
    <2>2. CASE JobStarts
      <3>1. PICK order, dest, kind :
              IsSeq(order) /\ IsSeq(dest) /\ job' = Started(fs, order, dest, kind)
        BY <2>2 DEF JobStarts, StartJob
      <3>2. Resting(Started(fs, order, dest, kind))
        BY <3>1, StartedIs
      <3> QED
        BY <3>1, <3>2 DEF Resting
    <2> QED
      BY <2>1, <2>2
  <1>4. JobOK(job', fs')
    BY <1>2, <1>3, RestingJob
  <1> QED
    BY <1>2, <1>4

-----------------------------------------------------------------------------
(* The steps of the job keep the disk a tree and the one file open. *)

LEMMA ConcatStack ==
  ASSUME NEW a, IsStack(a), NEW b, IsStack(b)
  PROVE  IsStack(a \o b)
  <1> DEFINE c == a \o b
  <1>1. /\ IsSeq(c) /\ Len(c) = Len(a) + Len(b)
        /\ \A i \in 1..Len(a) : c[i] = a[i]
        /\ \A i \in 1..Len(b) : c[Len(a) + i] = b[i]
    BY ConcatIs DEF IsStack
  <1>2. Len(a) \in Nat /\ Len(b) \in Nat
    BY DEF IsStack, IsSeq
  <1> HIDE DEF c
  <1>3. ASSUME NEW i \in 1..Len(c) PROVE Item3(c[i])
    <2>1. CASE i \in 1..Len(a)
      BY <1>1, <2>1 DEF IsStack
    <2>2. CASE i \notin 1..Len(a)
      <3> DEFINE j == i - Len(a)
      <3>1. j \in 1..Len(b) /\ i = Len(a) + j
        BY <1>1, <1>2, <1>3, <2>2
      <3> HIDE DEF j
      <3> QED
        BY <1>1, <3>1 DEF IsStack
    <2> QED
      BY <2>1, <2>2
  <1>4. IsStack(c)
    BY <1>1, <1>3 DEF IsStack
  <1> QED
    BY <1>4 DEF c

LEMMA StackedIs ==
  ASSUME NEW it, IsSeq(it.to), NEW kids, IsSeq(kids), NEW kind
  PROVE  IsStack(Stacked(it, kids, kind))
  <1> DEFINE m == Item(it.from, it.to, TRUE)
             a == IF kind = "Copy" THEN <<>> ELSE <<m>>
             n == Len(kids)
             It(i) == Item(kids[i], Join(it.to, Last(kids[i])), FALSE)
             b == [i \in 1..n |-> It(i)]
  <1>1. Item3(m) /\ n \in Nat
    BY DEF Item3, Item, IsSeq
  <1>2. \A i : Item3(It(i))
    BY ParentIs DEF Item3, Item
  <1> HIDE DEF m, It, n
  <1>3. IsStack(<<>>)
    BY EmptyIsSeq DEF IsStack
  <1>4. IsStack(<<m>>)
    BY <1>1 DEF IsStack, IsSeq
  <1>5. IsStack(b)
    <2>1. b = [i \in 1..n |-> b[i]] /\ \A i \in 1..n : b[i] = It(i)
      OBVIOUS
    <2> HIDE DEF b
    <2>2. IsSeq(b) /\ Len(b) = n
      BY <1>1, <2>1, FunctionIsSeq
    <2> QED
      BY <1>2, <2>1, <2>2 DEF IsStack
  <1>6. IsStack(a)
    BY <1>3, <1>4
  <1>7. Stacked(it, kids, kind) = a \o b
    BY DEF Stacked, m, It, n
  <1> HIDE DEF a, b
  <1> QED
    BY <1>5, <1>6, <1>7, ConcatStack

LEMMA KidsAre ==
  ASSUME NEW d, FiniteDisk(d), NEW p, NEW kids \in SetToSeqs(Children(d, p))
  PROVE  IsSeq(kids)
  <1> DEFINE n == Cardinality(Children(d, p))
  <1>1. Children(d, p) \in SUBSET DOMAIN d
    BY DEF Children, Below
  <1>2. IsFiniteSet(Children(d, p))
    BY <1>1, FS_Subset DEF FiniteDisk
  <1>3. n \in Nat
    BY <1>2, FS_CardinalityType
  <1>4. kids \in [1..n -> Children(d, p)]
    BY DEF SetToSeqs
  <1> HIDE DEF n
  <1>5. kids = [i \in 1..n |-> kids[i]]
    BY <1>4
  <1> QED
    BY <1>3, <1>5, FunctionIsSeq

(* A state of step(): its disk, its job and the faults to come. *)
GoodState(s) == IsState(s) /\ TreeDisk(s.fs) /\ JobOK(s.job, s.fs) /\ s.faults \in Nat

LEMMA AfterFailureIs ==
  ASSUME NEW d, TreeDisk(d), NEW p
  PROVE  TreeDisk(AfterFailure(d, p)) /\ OpenAt(AfterFailure(d, p)) = {}
  <1>1. \A x : TreeDisk(x) => TreeDisk(Closed(x, "torn")) /\ OpenAt(Closed(x, "torn")) = {}
    BY TreeClosed, OpenClosed DEF TreeDisk
  <1>2. IsFile(d, p) => TreeDisk(Without(d, {p}))
    BY TreeWithout
  <1> QED
    BY <1>1, <1>2 DEF AfterFailure

LEMMA ClosedFile ==
  ASSUME NEW d, Nodes(d), NEW st, NEW p, IsFile(d, p), st # "dir"
  PROVE  IsFile(Closed(d, st), p)
  <1>1. /\ DOMAIN Closed(d, st) = DOMAIN d
        /\ Closed(d, st)[p] = IF d[p].state = "open" THEN File(d[p].data, st) ELSE d[p]
    BY ClosedIs DEF IsFile
  <1> QED
    BY <1>1 DEF IsFile, Dir, File

LEMMA SlicedKeeps ==
  ASSUME NEW s, GoodState(s), Copying(s.job), NEW t, Sliced(s, t)
  PROVE  GoodState(t)
  <1> DEFINE st == EndState(s.job.cur)
  <1>1. /\ st \in {"whole", "torn"} /\ Nodes(s.fs) /\ TreeDisk(s.fs) /\ IsJob(s.job)
        /\ IsStack(s.job.pending) /\ s.faults \in Nat /\ IsState(t)
    BY DEF EndState, GoodState, TreeDisk, JobOK, Sliced
  <1> HIDE DEF st
  <1>2. CASE s.job.cur.left > 0 /\ t.fs = s.fs /\ t.faults = s.faults
             /\ t.job = [s.job EXCEPT !.cur.left = @ - 1]
    <2> DEFINE c == s.job.cur
               e == [c EXCEPT !.left = @ - 1]
    <2>1. c = [f \in CurFields |-> c[f]] /\ c.to # <<>> /\ s.job.active
      BY DEF GoodState, JobOK
    <2>2. t.job = [s.job EXCEPT !.cur = e]
      BY <1>2
    <2> HIDE DEF c
    <2>3. e = [f \in CurFields |-> e[f]] /\ e.to = c.to /\ e.data = c.data
      BY <2>1 DEF CurFields
    <2> HIDE DEF e
    <2>4. /\ IsJob(t.job) /\ t.job.pending = s.job.pending /\ t.job.cur = e
          /\ t.job.active = s.job.active
      BY <1>1, <2>2 DEF IsJob, JobFields
    <2>5. Copying(t.job)
      BY <2>1, <2>3, <2>4 DEF Copying, NoFile
    <2>6. \E p \in DOMAIN t.fs : OpenAt(t.fs) = {p} /\ t.fs[p].data = t.job.cur.data
      BY <1>2, <2>3, <2>4 DEF GoodState, JobOK, c
    <2>7. JobOK(t.job, t.fs)
      BY <1>1, <2>1, <2>3, <2>4, <2>5, <2>6 DEF JobOK
    <2> QED
      BY <1>1, <1>2, <2>7 DEF GoodState
  <1>3. ASSUME t.job = [s.job EXCEPT !.cur = NoFile] \/ t.job = [s.job EXCEPT !.failed = TRUE, !.cur = NoFile],
               TreeDisk(t.fs), OpenAt(t.fs) = {}, t.faults \in Nat
        PROVE  GoodState(t)
    <2>1. IsJob(t.job) /\ t.job.pending = s.job.pending /\ t.job.cur = NoFile
      BY <1>1, <1>3 DEF IsJob, JobFields
    <2>2. JobOK(t.job, t.fs)
      BY <1>1, <1>3, <2>1, RestingJob
    <2> QED
      BY <1>1, <1>3, <2>2 DEF GoodState
  <1>4. TreeDisk(Closed(s.fs, st)) /\ OpenAt(Closed(s.fs, st)) = {}
    BY <1>1, TreeClosed, OpenClosed
  <1>5. CASE /\ t.job = [s.job EXCEPT !.cur = NoFile] /\ t.fs = Closed(s.fs, st)
             /\ (s.faults > 0 /\ t.faults = s.faults - 1) \/ t.faults = s.faults
    BY <1>1, <1>3, <1>4, <1>5
  <1>6. CASE /\ t.job = [s.job EXCEPT !.cur = NoFile] /\ IsFile(s.fs, s.job.cur.from)
             /\ t.fs = Without(Closed(s.fs, st), {s.job.cur.from}) /\ t.faults = s.faults
    <2> DEFINE d == Closed(s.fs, st)
               p == s.job.cur.from
    <2>1. IsFile(d, p)
      BY <1>1, <1>6, ClosedFile
    <2> HIDE DEF d, p
    <2>2. TreeDisk(Without(d, {p}))
      BY <1>4, <2>1, TreeWithout DEF d
    <2>3. OpenAt(Without(d, {p})) = {}
      BY <1>4, OpenWithout DEF d
    <2> QED
      BY <1>1, <1>3, <1>6, <2>2, <2>3 DEF d, p
  <1>7. CASE /\ t.job = [s.job EXCEPT !.failed = TRUE, !.cur = NoFile]
             /\ s.faults > 0 /\ t.faults = s.faults - 1
             /\ t.fs = AfterFailure(s.fs, s.job.cur.to)
    BY <1>1, <1>3, <1>7, AfterFailureIs
  <1>8. \/ /\ s.job.cur.left > 0 /\ t.fs = s.fs /\ t.faults = s.faults
           /\ t.job = [s.job EXCEPT !.cur.left = @ - 1]
        \/ /\ t.job = [s.job EXCEPT !.cur = NoFile] /\ t.fs = Closed(s.fs, st)
           /\ (s.faults > 0 /\ t.faults = s.faults - 1) \/ t.faults = s.faults
        \/ /\ t.job = [s.job EXCEPT !.cur = NoFile] /\ IsFile(s.fs, s.job.cur.from)
           /\ t.fs = Without(Closed(s.fs, st), {s.job.cur.from}) /\ t.faults = s.faults
        \/ /\ t.job = [s.job EXCEPT !.failed = TRUE, !.cur = NoFile]
           /\ s.faults > 0 /\ t.faults = s.faults - 1
           /\ t.fs = AfterFailure(s.fs, s.job.cur.to)
    BY DEF Sliced, st
  <1> QED
    BY <1>2, <1>5, <1>6, <1>7, <1>8

(* The state u has just opened the source of `it` and its copy. *)
Reads(s, it, u) ==
  /\ Copying(u.job) /\ OpenAt(u.fs) = {it.to} /\ it.to \in DOMAIN u.fs
  /\ u.job.cur.from = it.from /\ u.job.cur.to = it.to
  /\ u.job.cur.data = s.fs[it.from].data
  /\ u.job.cur.whole <=> s.fs[it.from].state = "whole"
  /\ u.job.kind = s.job.kind

LEMMA OpenedKeeps ==
  ASSUME NEW s, GoodState(s), ~Copying(s.job), s.job.active, NEW it, Item3(it),
         NEW u, Opened(s, it, u)
  PROVE  GoodState(u) /\ Reads(s, it, u)
  <1> DEFINE node == File(s.fs[it.from].data, "open")
  <1>1. /\ IsState(u) /\ CanCreate(s.fs, it.to) /\ it.to \notin DOMAIN s.fs
        /\ u.fs = With(s.fs, it.to, node) /\ u.faults \in Nat /\ it.to # <<>>
    BY DEF Opened, GoodState, CanCreate
  <1>2. PICK n \in 0..Slices : u.job = [s.job EXCEPT !.cur = Reading(s.fs, it, n)]
    BY DEF Opened
  <1> DEFINE c == Reading(s.fs, it, n)
  <1>3. /\ c = [f \in CurFields |-> c[f]] /\ c.from = it.from /\ c.to = it.to
        /\ c.data = s.fs[it.from].data /\ (c.whole <=> s.fs[it.from].state = "whole")
    BY DEF Reading, CurFields
  <1> HIDE DEF c
  <1>4. /\ IsJob(u.job) /\ u.job.cur = c /\ u.job.active = s.job.active
        /\ u.job.pending = s.job.pending /\ u.job.kind = s.job.kind
    BY <1>2 DEF GoodState, JobOK, IsJob, JobFields, c
  <1>5. Copying(u.job)
    BY <1>1, <1>3, <1>4 DEF Copying, NoFile
  <1>6. IsNode(node) /\ node.state = "open" /\ node.data = s.fs[it.from].data
    BY DEF IsNode, File
  <1> HIDE DEF node
  <1>7. TreeDisk(u.fs)
    BY <1>1, <1>6, TreeWith DEF GoodState, Item3
  <1>8. OpenAt(s.fs) = {}
    BY DEF GoodState, JobOK
  <1>9. OpenAt(u.fs) = {it.to}
    BY <1>1, <1>6, <1>8, OpenWith
  <1>10. it.to \in DOMAIN u.fs /\ u.fs[it.to] = node
    BY <1>1 DEF With
  <1>11. JobOK(u.job, u.fs)
    BY <1>1, <1>3, <1>4, <1>5, <1>6, <1>9, <1>10 DEF JobOK, GoodState
  <1> QED
    BY <1>1, <1>3, <1>4, <1>5, <1>7, <1>9, <1>10, <1>11 DEF GoodState, Reads

LEMMA TakenKeeps ==
  ASSUME NEW s, GoodState(s), ~Copying(s.job), s.job.active, NEW it, Item3(it),
         NEW t, Taken(s, it, t)
  PROVE  GoodState(t)
  <1>1. /\ IsState(t) /\ TreeDisk(s.fs) /\ FiniteDisk(s.fs) /\ Nodes(s.fs) /\ IsJob(s.job)
        /\ IsStack(s.job.pending) /\ s.job.cur = NoFile /\ OpenAt(s.fs) = {} /\ s.faults \in Nat
        /\ IsSeq(it.to)
    BY DEF Taken, GoodState, TreeDisk, JobOK, Copying, Item3
  <1>2. ASSUME IsJob(t.job), IsStack(t.job.pending), t.job.cur = NoFile,
               TreeDisk(t.fs), OpenAt(t.fs) = {}, t.faults \in Nat
        PROVE  GoodState(t)
    BY <1>1, <1>2, RestingJob DEF GoodState
  <1>3. CASE Refused(s, t)
    <2>1. t.fs = s.fs /\ t.job = [s.job EXCEPT !.failed = TRUE] /\ t.faults \in Nat
      BY <1>1, <1>3 DEF Refused
    <2>2. IsJob(t.job) /\ t.job.pending = s.job.pending /\ t.job.cur = s.job.cur
      BY <1>1, <2>1 DEF IsJob, JobFields
    <2> QED
      BY <1>1, <1>2, <2>1, <2>2
  <1>4. CASE Removed(s, it, t)
    <2>1. /\ t.fs = Without(s.fs, {it.from}) /\ t.job = s.job /\ t.faults = s.faults
          /\ (IsFile(s.fs, it.from) \/ CanRmdir(s.fs, it.from))
      BY <1>4 DEF Removed
    <2>2. TreeDisk(t.fs)
      BY <1>1, <2>1, TreeWithout
    <2>3. OpenAt(t.fs) = {}
      BY <1>1, <2>1, OpenWithout
    <2> QED
      BY <1>1, <1>2, <2>1, <2>2, <2>3
  <1>5. CASE Entered(s, it, t)
    <2>1. TreeDisk(t.fs) /\ OpenAt(t.fs) = {}
      <3>1. CASE t.fs = s.fs
        BY <1>1, <3>1
      <3>2. CASE CanCreate(s.fs, it.to) /\ t.fs = With(s.fs, it.to, Dir)
        <4>1. IsNode(Dir) /\ Dir.state # "open" /\ it.to \notin DOMAIN s.fs
          BY <3>2 DEF IsNode, Dir, CanCreate
        <4>2. TreeDisk(t.fs)
          BY <1>1, <3>2, <4>1, TreeWith
        <4>3. OpenAt(t.fs) = {}
          BY <1>1, <3>2, <4>1, OpenWith
        <4> QED
          BY <4>2, <4>3
      <3> QED
        BY <1>5, <3>1, <3>2 DEF Entered
    <2>2. FiniteDisk(t.fs)
      BY <2>1 DEF TreeDisk
    <2> DEFINE Read(kids) ==
          /\ IsSeq(kids) /\ t.faults \in Nat
          /\ \/ t.job = [s.job EXCEPT !.pending = @ \o Stacked(it, kids, s.job.kind)]
             \/ t.job = [s.job EXCEPT !.failed = TRUE,
                                      !.pending = @ \o Stacked(it, kids, s.job.kind)]
    <2>3. PICK kids : Read(kids)
      <3>1. CASE /\ t.job = [s.job EXCEPT !.failed = TRUE,
                                          !.pending = @ \o Stacked(it, <<>>, s.job.kind)]
                 /\ s.faults > 0 /\ t.faults = s.faults - 1
        <4>1. Read(<<>>)
          BY <1>1, <3>1, EmptyIsSeq
        <4> HIDE DEF Read
        <4> QED
          BY <4>1
      <3>2. ASSUME NEW kids \in SetToSeqs(Children(t.fs, it.from)),
                   t.job = [s.job EXCEPT !.pending = @ \o Stacked(it, kids, s.job.kind)],
                   t.faults = s.faults
            PROVE  Read(kids)
        BY <1>1, <2>2, <3>2, KidsAre
      <3>3. \/ /\ \E kids \in SetToSeqs(Children(t.fs, it.from)) :
                    t.job = [s.job EXCEPT !.pending = @ \o Stacked(it, kids, s.job.kind)]
               /\ t.faults = s.faults
            \/ /\ t.job = [s.job EXCEPT !.failed = TRUE,
                                        !.pending = @ \o Stacked(it, <<>>, s.job.kind)]
               /\ s.faults > 0 /\ t.faults = s.faults - 1
        BY <1>5 DEF Entered
      <3> HIDE DEF Read
      <3> QED
        BY <3>1, <3>2, <3>3
    <2> DEFINE new == Stacked(it, kids, s.job.kind)
               ps == s.job.pending \o new
    <2>4. IsStack(new)
      BY <1>1, <2>3, StackedIs
    <2> HIDE DEF new
    <2>5. IsStack(ps)
      BY <1>1, <2>4, ConcatStack
    <2>6. t.job = [s.job EXCEPT !.pending = ps] \/ t.job = [s.job EXCEPT !.failed = TRUE, !.pending = ps]
      BY <2>3 DEF new
    <2> HIDE DEF ps
    <2>7. IsJob(t.job) /\ t.job.pending = ps /\ t.job.cur = s.job.cur
      BY <1>1, <2>6 DEF IsJob, JobFields
    <2> QED
      BY <1>1, <1>2, <2>1, <2>3, <2>5, <2>7
  <1>6. CASE Replaced(s, it, t)
    <2>1. /\ CanRename(s.fs, it.from, it.to) /\ t.fs = Renamed(s.fs, it.from, it.to)
          /\ t.job = s.job /\ t.faults = s.faults /\ it.from \in DOMAIN s.fs
      BY <1>6 DEF Replaced, CanRename, IsFile
    <2>2. TreeDisk(t.fs)
      BY <1>1, <2>1, TreeRenamed
    <2>3. OpenAt(t.fs) = {}
      BY <1>1, <2>1 DEF Renamed, With, Without, OpenAt
    <2> QED
      BY <1>1, <1>2, <2>1, <2>2, <2>3
  <1>7. ASSUME NEW u, Opened(s, it, u), Sliced(u, t) PROVE GoodState(t)
    <2>1. GoodState(u) /\ Copying(u.job)
      BY <1>7, OpenedKeeps DEF Reads
    <2> QED
      BY <1>7, <2>1, SlicedKeeps
  <1> QED
    BY <1>3, <1>4, <1>5, <1>6, <1>7 DEF Taken

(* step(), as one of the cases above. *)
Now == [fs |-> fs, job |-> job, faults |-> faults]

Popped == [fs |-> fs, job |-> [job EXCEPT !.pending = Front(@)], faults |-> faults]

StepTo(t) ==
  /\ fs' = t.fs /\ job' = t.job /\ faults' = t.faults
  /\ \/ Copying(job) /\ Sliced(Now, t)
     \/ /\ ~Copying(job) /\ job.pending # <<>> /\ Item3(Last(job.pending))
        /\ Taken(Popped, Last(job.pending), t)

LEMMA NowIs ==
  ASSUME DiskOK
  PROVE  /\ GoodState(Now) /\ Now.fs = fs /\ Now.job = job /\ Now.faults = faults
         /\ Popped.fs = fs /\ Popped.job = [job EXCEPT !.pending = Front(@)]
         /\ Popped.faults = faults /\ IsState(Popped)
  <1>1. /\ IsState(Now) /\ Now.fs = fs /\ Now.job = job /\ Now.faults = faults
        /\ Popped.fs = fs /\ Popped.job = [job EXCEPT !.pending = Front(@)]
        /\ Popped.faults = faults /\ IsState(Popped)
    BY DEF Now, Popped, IsState
  <1> QED
    BY <1>1 DEF GoodState, DiskOK

LEMMA PoppedIs ==
  ASSUME DiskOK, ~Copying(job), job.active, job.pending # <<>>
  PROVE  /\ GoodState(Popped) /\ ~Copying(Popped.job) /\ Popped.job.active
         /\ Popped.job.kind = job.kind /\ Item3(Last(job.pending))
  <1>1. /\ Popped.fs = fs /\ Popped.job = [job EXCEPT !.pending = Front(@)]
        /\ Popped.faults = faults /\ IsState(Popped)
    BY NowIs
  <1>2. /\ Len(job.pending) \in Nat \ {0} /\ IsSeq(Front(job.pending))
        /\ Len(Front(job.pending)) = Len(job.pending) - 1
        /\ \A i \in 1..(Len(job.pending) - 1) : Front(job.pending)[i] = job.pending[i]
    BY FrontIs DEF DiskOK, JobOK, IsStack
  <1>3. Item3(Last(job.pending)) /\ IsStack(Front(job.pending))
    BY <1>2 DEF DiskOK, JobOK, IsStack, Last
  <1>4. /\ IsJob(Popped.job) /\ Popped.job.pending = Front(job.pending)
        /\ Popped.job.cur = job.cur /\ Popped.job.active = job.active /\ Popped.job.kind = job.kind
    BY <1>1 DEF DiskOK, JobOK, IsJob, JobFields
  <1>5. JobOK(Popped.job, fs)
    BY <1>3, <1>4 DEF DiskOK, JobOK, Copying
  <1> QED
    BY <1>1, <1>3, <1>4, <1>5 DEF GoodState, DiskOK, Copying

LEMMA JobStepIs ==
  ASSUME DiskOK, JobStep
  PROVE  job.active /\ outside' = outside /\ \E t : StepTo(t)
  <1>1. PICK t \in StepResults(Now) : fs' = t.fs /\ job' = t.job /\ faults' = t.faults
    BY DEF JobStep, Now
  <1>2. job.active /\ outside' = outside /\ (Copying(job) \/ job.pending # <<>>)
    BY DEF JobStep, HasWork
  <1>3. /\ GoodState(Now) /\ Now.fs = fs /\ Now.job = job /\ Now.faults = faults
        /\ Popped.fs = fs /\ Popped.job = [job EXCEPT !.pending = Front(@)]
        /\ Popped.faults = faults
    BY NowIs
  <1>4. CASE Copying(job)
    <2>1. t \in Slice(Now)
      BY <1>1, <1>3, <1>4 DEF StepResults
    <2>2. Sliced(Now, t)
      BY <1>3, <2>1, SliceIs DEF GoodState, JobOK
    <2> QED
      BY <1>1, <1>2, <1>4, <2>2 DEF StepTo
  <1>5. CASE ~Copying(job)
    <2>1. [Now EXCEPT !.job.pending = Front(@)] = Popped
      BY DEF Now, Popped
    <2>2. t \in TakeNext(Popped, Last(job.pending))
      <3> DEFINE R(x) == TakeNext(x, Last(job.pending))
      <3>1. StepResults(Now) = UNION { R(x) : x \in {Popped} }
        BY <1>3, <1>5, <2>1 DEF StepResults
      <3> HIDE DEF R
      <3>2. t \in R(Popped)
        BY <1>1, <3>1
      <3> QED
        BY <3>2 DEF R
    <2>3. GoodState(Popped) /\ Item3(Last(job.pending))
      BY <1>2, <1>5, PoppedIs
    <2>4. IsState(Popped) /\ IsJob(Popped.job) /\ Popped.faults \in Nat
          /\ Last(job.pending).rmdir_only \in BOOLEAN
      BY <2>3 DEF GoodState, JobOK, Item3
    <2>5. Taken(Popped, Last(job.pending), t)
      BY <2>2, <2>4, TakeNextIs
    <2> QED
      BY <1>1, <1>2, <1>5, <2>3, <2>5 DEF StepTo
  <1> QED
    BY <1>4, <1>5

LEMMA JobStepKeeps ==
  ASSUME DiskOK, JobStep
  PROVE  DiskOK'
  <1>1. job.active /\ outside' = outside
    BY JobStepIs
  <1>2. PICK t : StepTo(t)
    BY JobStepIs
  <1>3. GoodState(t)
    <2>1. CASE Copying(job)
      <3>1. GoodState(Now) /\ Now.job = job
        BY NowIs
      <3> QED
        BY <1>2, <2>1, <3>1, SlicedKeeps DEF StepTo
    <2>2. CASE ~Copying(job)
      <3>1. /\ job.pending # <<>> /\ Item3(Last(job.pending))
            /\ Taken(Popped, Last(job.pending), t)
        BY <1>2, <2>2 DEF StepTo
      <3>2. GoodState(Popped) /\ ~Copying(Popped.job) /\ Popped.job.active
        BY <1>1, <2>2, <3>1, PoppedIs
      <3> QED
        BY <3>1, <3>2, TakenKeeps
    <2> QED
      BY <2>1, <2>2
  <1> QED
    BY <1>1, <1>2, <1>3 DEF GoodState, DiskOK, StepTo

LEMMA DiskStep ==
  ASSUME DiskOK, DiskEvent
  PROVE  DiskOK'
  <1>0. TreeDisk(fs) /\ JobOK(job, fs) /\ faults \in Nat /\ outside \in Nat
    BY DEF DiskOK
  <1>1. CASE UNCHANGED <<fs, job, faults, outside>>
    BY <1>0, <1>1 DEF DiskOK
  <1>2. CASE (JobStarts \/ JobStops) /\ UNCHANGED <<faults, outside>>
    BY <1>0, <1>2, JobStartsKeeps DEF DiskOK
  <1>3. CASE EntryRenamed /\ UNCHANGED <<faults, outside>>
    BY <1>0, <1>3, EntryRenamedKeeps DEF DiskOK
  <1>4. CASE EntryMade /\ UNCHANGED <<faults, outside>>
    BY <1>0, <1>4, EntryMadeKeeps DEF DiskOK
  <1>5. CASE FileGone /\ faults' = faults /\ outside > 0 /\ outside' = outside - 1
    BY <1>0, <1>5, EntryMadeKeeps DEF DiskOK
  <1>6. CASE JobStep
    BY <1>6, JobStepKeeps
  <1>7. CASE job.active /\ ~HasWork /\ job' = NoJob /\ UNCHANGED <<fs, faults, outside>>
    <2>1. OpenAt(fs) = {}
      BY <1>0, <1>7 DEF HasWork, JobOK
    <2>2. JobOK(NoJob, fs)
      BY <2>1, NoFileIs, RestingJob
    <2> QED
      BY <1>0, <1>7, <2>2 DEF DiskOK
  <1> QED
    BY <1>1, <1>2, <1>3, <1>4, <1>5, <1>6, <1>7 DEF DiskEvent

LEMMA InitIs ==
  ASSUME Init
  PROVE  FilesInv
  <1>1. TreeDisk(fs)
    <2>1. fs = InitialDisk
      BY DEF Init
    <2>2. FiniteDisk(InitialDisk)
      BY DiskAssumption DEF FiniteDisk
    <2>3. Nodes(InitialDisk)
      <3> SUFFICES ASSUME NEW p \in DOMAIN InitialDisk PROVE IsSeq(p) /\ IsNode(InitialDisk[p])
        BY DEF Nodes
      <3>1. IsSeq(p)
        BY DiskAssumption, SeqIs
      <3>2. \/ InitialDisk[p] = Dir
            \/ \E st \in {"whole", "torn"} : InitialDisk[p] = File(InitialDisk[p].data, st)
        BY DiskAssumption
      <3>3. IsNode(InitialDisk[p])
        BY <3>2 DEF IsNode, File
      <3> QED
        BY <3>1, <3>3
    <2>4. Rooted(InitialDisk)
      BY DiskAssumption DEF Rooted
    <2> QED
      BY <2>1, <2>2, <2>3, <2>4 DEF TreeDisk
  <1>2. OpenAt(fs) = {}
    <2>1. \A p \in DOMAIN InitialDisk : InitialDisk[p].state # "open"
      BY DiskAssumption DEF Dir, File
    <2> QED
      BY <2>1 DEF OpenAt, Init
  <1>3. DiskOK
    <2>1. JobOK(NoJob, fs)
      BY <1>2, NoFileIs, RestingJob
    <2> QED
      BY <1>1, <2>1, FileJobAssumption, FilesAssumption DEF DiskOK, Init
  <1>4. OrdersOK
    BY EmptyIsSeq DEF Init, OrdersOK, NoDrag
  <1> DEFINE pns == [i \in 0..1 |-> Pane(IF i = 0 THEN <<>> ELSE Nowhere)]
  <1>5. GoodPanes(pns)
    <2>1. IsSeq(<<>>) /\ IsSeq(Nowhere)
      BY EmptyIsSeq DEF IsSeq, Nowhere
    <2>2. ASSUME NEW p, IsSeq(p) PROVE PaneOK(Pane(p))
      <3>1. /\ Shape(Pane(p)) /\ Pane(p).path = p /\ Pane(p).back = <<>> /\ Pane(p).forward = <<>>
            /\ Pane(p).entries = {} /\ Pane(p).visible = <<>> /\ Pane(p).sel = 0
        BY DEF Pane, Shape, Fields
      <3>2. IsHistory(<<>>)
        BY EmptyIsSeq DEF IsHistory
      <3>3. IsFiniteSet({}) /\ Len(<<>>) = 0
        BY FS_EmptySet
      <3>4. Settled(Pane(p))
        BY <3>1, <3>3 DEF Settled, Loose, Size
      <3> QED
        BY <2>2, <3>1, <3>2, <3>4 DEF PaneOK
    <2>3. \A i \in 0..1 : PaneOK(pns[i])
      BY <2>1, <2>2
    <2> QED
      BY <2>3 DEF GoodPanes
  <1> DEFINE new == Reload(pns, 0, fs, FALSE)
  <1>6. panes = new /\ active = 0
    BY DEF Init
  <1> HIDE DEF pns
  <1>7. GoodPanes(new)
    BY <1>1, <1>5, ReloadKeeps DEF TreeDisk
  <1> HIDE DEF new
  <1>8. PanesOK
    BY <1>6, <1>7 DEF PanesOK
  <1> QED
    BY <1>3, <1>4, <1>8 DEF FilesInv

LEMMA StepKeeps ==
  ASSUME FilesInv, [Next]_vars
  PROVE  FilesInv' /\ DiskEvent
  <1>1. PanesOK /\ OrdersOK /\ DiskOK
    BY DEF FilesInv
  <1>2. DiskEvent
    BY <1>1, DiskEvents
  <1>3. DiskOK'
    BY <1>1, <1>2, DiskStep
  <1>4. FiniteDisk(fs) /\ FiniteDisk(fs')
    BY <1>1, <1>3 DEF DiskOK, TreeDisk
  <1>5. PanesOK' /\ OrdersOK'
    BY <1>1, <1>4, PanesStep, OrdersStep
  <1> QED
    BY <1>2, <1>3, <1>5 DEF FilesInv

(* The invariant of the file manager: the panes, the orders of the user,   *)
(* the tree on the disk and the one file that is open while a job copies.  *)
THEOREM FilesInvariant == Spec => []FilesInv
  <1>1. Init => FilesInv
    BY InitIs
  <1>2. FilesInv /\ [Next]_vars => FilesInv'
    BY StepKeeps
  <1> QED
    BY <1>1, <1>2, PTL DEF Spec

(* SelInRange for every disk: whatever the disk becomes and whichever pane *)
(* is read again, the cursor that touchable_selection(), activate() and    *)
(* the drawing index with stays inside the list it points into.            *)
THEOREM CursorStaysInTheList == Spec => []SelInRange
  <1>1. FilesInv => SelInRange
    BY DEF FilesInv, PanesOK, GoodPanes, PaneOK, Settled, SelInRange
  <1> QED
    BY <1>1, FilesInvariant, PTL

-----------------------------------------------------------------------------
(* Nothing is lost. *)

WholeAt(d, p, c) == p \in DOMAIN d /\ d[p].state = "whole" /\ d[p].data = c

LEMMA HoldsIs ==
  ASSUME NEW d, NEW c
  PROVE  c \in Holds(d) <=> (c # 0 /\ \E p : WholeAt(d, p, c))
  BY DEF Holds, WholeAt

(* The contents of a file that is closed. *)
LEMMA ClosedHolds ==
  ASSUME NEW d, Nodes(d), NEW st, NEW p, NEW c, WholeAt(d, p, c)
  PROVE  WholeAt(Closed(d, st), p, c)
  <1>1. /\ DOMAIN Closed(d, st) = DOMAIN d
        /\ Closed(d, st)[p] = IF d[p].state = "open" THEN File(d[p].data, st) ELSE d[p]
    BY ClosedIs DEF WholeAt
  <1> QED
    BY <1>1 DEF WholeAt

LEMMA WithoutHolds ==
  ASSUME NEW d, NEW p, NEW c, NEW q, q # p, WholeAt(d, p, c)
  PROVE  WholeAt(Without(d, {q}), p, c)
  BY DEF Without, WholeAt

LEMMA WithHolds ==
  ASSUME NEW d, NEW p, NEW c, NEW q, q \notin DOMAIN d, NEW n, WholeAt(d, p, c)
  PROVE  WholeAt(With(d, q, n), p, c)
  BY DEF With, WholeAt

(* What a slice of the open file may let go of. *)
LEMMA SliceDrops ==
  ASSUME NEW s, GoodState(s), Copying(s.job), NEW t, Sliced(s, t),
         NEW c \in Holds(s.fs) \ Holds(t.fs)
  PROVE  \/ WholeAt(s.fs, s.job.cur.to, c)
         \/ /\ s.job.kind = "Move" /\ WholeAt(s.fs, s.job.cur.from, c)
            /\ ~(s.job.cur.whole /\ c = s.job.cur.data)
  <1> DEFINE st == EndState(s.job.cur)
             d == Closed(s.fs, st)
             from == s.job.cur.from
             to == s.job.cur.to
  <1>1. Nodes(s.fs)
    BY DEF GoodState, TreeDisk
  <1>2. c # 0 /\ \A p : ~WholeAt(t.fs, p, c)
    BY HoldsIs
  <1>3. PICK p : WholeAt(s.fs, p, c)
    BY HoldsIs
  <1>4. \A q, x : WholeAt(s.fs, q, c) => WholeAt(Closed(s.fs, x), q, c)
    BY <1>1, ClosedHolds
  <1>5. t.fs # s.fs /\ t.fs # d
    BY <1>2, <1>3, <1>4
  <1>6. CASE s.job.kind = "Move" /\ t.fs = Without(d, {from})
    <2>1. WholeAt(d, p, c)
      BY <1>3, <1>4
    <2>2. p = from
      <3> HIDE DEF d, from
      <3>1. from # p => WholeAt(Without(d, {from}), p, c)
        BY <2>1, WithoutHolds
      <3> QED
        BY <1>2, <1>6, <3>1
    <2>3. ASSUME s.job.cur.whole, c = s.job.cur.data PROVE FALSE
      <3>1. PICK o \in DOMAIN s.fs : OpenAt(s.fs) = {o} /\ s.fs[o].data = s.job.cur.data
        BY DEF GoodState, JobOK
      <3>2. s.fs[o].state = "open" /\ o # p
        BY <1>3, <3>1 DEF OpenAt, WholeAt
      <3>3. st = "whole"
        BY <2>3 DEF EndState
      <3>4. DOMAIN d = DOMAIN s.fs /\ d[o] = File(s.fs[o].data, st)
        BY <1>1, <3>1, <3>2, ClosedIs
      <3> HIDE DEF d, st
      <3>5. WholeAt(d, o, c)
        BY <2>3, <3>1, <3>3, <3>4 DEF WholeAt, File
      <3>6. WholeAt(t.fs, o, c)
        BY <1>6, <2>2, <3>2, <3>5, WithoutHolds
      <3> QED
        BY <1>2, <3>6
    <2> QED
      BY <1>3, <1>6, <2>2, <2>3
  <1>7. CASE t.fs = AfterFailure(s.fs, to)
    <2>1. IsFile(s.fs, to) /\ t.fs = Closed(Without(s.fs, {to}), "torn")
      BY <1>2, <1>3, <1>4, <1>7 DEF AfterFailure
    <2>2. Nodes(Without(s.fs, {to}))
      BY <1>1 DEF Nodes, Without
    <2>3. p = to
      BY <1>2, <1>3, <2>1, <2>2, WithoutHolds, ClosedHolds
    <2> QED
      BY <1>3, <2>3
  <1>8. \/ t.fs = s.fs \/ t.fs = d \/ t.fs = AfterFailure(s.fs, to)
        \/ s.job.kind = "Move" /\ t.fs = Without(d, {from})
    BY DEF Sliced
  <1> QED
    BY <1>5, <1>6, <1>7, <1>8

(* What take_next() may let go of. *)
LEMMA TakeDrops ==
  ASSUME NEW s, GoodState(s), ~Copying(s.job), s.job.active, NEW it, Item3(it),
         NEW t, Taken(s, it, t), s.job.kind # "Delete", NEW c \in Holds(s.fs) \ Holds(t.fs)
  PROVE  s.job.kind = "Move" /\ WholeAt(s.fs, it.to, c)
  <1>1. c # 0 /\ \A p : ~WholeAt(t.fs, p, c)
    BY HoldsIs
  <1>2. PICK p : WholeAt(s.fs, p, c)
    BY HoldsIs
  <1>3. t.fs # s.fs
    BY <1>1, <1>2
  <1>4. CASE Removed(s, it, t)
    <2>1. t.fs = Without(s.fs, {it.from}) /\ IsDir(s.fs, it.from)
      BY <1>4 DEF Removed, CanRmdir
    <2>2. p # it.from
      BY <1>2, <2>1 DEF WholeAt, IsDir, Dir
    <2> QED
      BY <1>1, <1>2, <2>1, <2>2, WithoutHolds
  <1>5. CASE Entered(s, it, t)
    <2>1. t.fs = With(s.fs, it.to, Dir) /\ it.to \notin DOMAIN s.fs
      BY <1>3, <1>5 DEF Entered, CanCreate
    <2> QED
      BY <1>1, <1>2, <2>1, WithHolds
  <1>6. CASE Replaced(s, it, t)
    <2>1. /\ s.job.kind = "Move" /\ it.from \in DOMAIN s.fs
          /\ t.fs = Renamed(s.fs, it.from, it.to)
      BY <1>6 DEF Replaced, CanRename, IsFile
    <2>2. it.from # it.to
      BY <1>3, <2>1 DEF Renamed
    <2>3. /\ it.to \in DOMAIN t.fs /\ t.fs[it.to] = s.fs[it.from]
          /\ \A q \in DOMAIN s.fs : q # it.from /\ q # it.to => q \in DOMAIN t.fs /\ t.fs[q] = s.fs[q]
      BY <2>1, <2>2 DEF Renamed, With, Without
    <2>4. p = it.to
      BY <1>1, <1>2, <2>3 DEF WholeAt
    <2> QED
      BY <1>2, <2>1, <2>4
  <1>7. ASSUME NEW u, Opened(s, it, u), Sliced(u, t) PROVE FALSE
    <2>0. GoodState(u) /\ Reads(s, it, u)
      BY <1>7, OpenedKeeps
    <2>1. /\ GoodState(u) /\ Copying(u.job) /\ OpenAt(u.fs) = {it.to} /\ it.to \in DOMAIN u.fs
          /\ u.job.cur.from = it.from /\ u.job.cur.to = it.to
          /\ u.job.cur.data = s.fs[it.from].data
          /\ u.job.cur.whole <=> s.fs[it.from].state = "whole"
      BY <2>0 DEF Reads
    <2> DEFINE node == File(s.fs[it.from].data, "open")
    <2>2. it.from \in DOMAIN s.fs /\ it.to \notin DOMAIN s.fs /\ u.fs = With(s.fs, it.to, node)
      BY <1>7 DEF Opened, IsFile, CanCreate
    <2>3. u.fs[it.from] = s.fs[it.from] /\ u.fs[it.to] = node
      BY <2>2 DEF With
    <2>4. WholeAt(u.fs, p, c)
      BY <1>2, <2>2, WithHolds
    <2>5. c \in Holds(u.fs) \ Holds(t.fs)
      BY <1>1, <2>4, HoldsIs
    <2>6. \/ WholeAt(u.fs, it.to, c)
          \/ WholeAt(u.fs, it.from, c) /\ ~(u.job.cur.whole /\ c = u.job.cur.data)
      BY <1>7, <2>1, <2>5, SliceDrops
    <2>7. ~WholeAt(u.fs, it.to, c)
      BY <2>3 DEF WholeAt, File
    <2> HIDE DEF node
    <2> QED
      BY <2>1, <2>3, <2>6, <2>7 DEF WholeAt
  <1>8. ~Refused(s, t)
    BY <1>3 DEF Refused
  <1> QED
    BY <1>4, <1>5, <1>6, <1>7, <1>8 DEF Taken

LEMMA InTheWayIs ==
  ASSUME NEW c
  PROVE  /\ Copying(job) /\ WholeAt(fs, job.cur.to, c) => c \in InTheWay
         /\ Copying(job) /\ job.kind = "Move" /\ WholeAt(fs, job.cur.from, c)
              /\ ~(job.cur.whole /\ c = job.cur.data) => c \in InTheWay
         /\ ~Copying(job) /\ job.kind = "Move" /\ WholeAt(fs, Last(job.pending).to, c)
              => c \in InTheWay
  <1> DEFINE At(p) == {fs[q].data : q \in {q \in {p} : IsFile(fs, q) /\ fs[q].state # "open"}}
  <1>1. \A p : WholeAt(fs, p, c) => c \in At(p)
    BY DEF WholeAt, IsFile, Dir
  <1>2. InTheWay =
          IF Copying(job)
          THEN At(job.cur.to) \cup
               (IF job.kind = "Move" THEN At(job.cur.from) \ {x \in {job.cur.data} : job.cur.whole} ELSE {})
          ELSE IF job.kind = "Move" THEN At(Last(job.pending).to) ELSE {}
    BY DEF InTheWay
  <1> HIDE DEF At
  <1> QED
    BY <1>1, <1>2

LEMMA StepLoses ==
  ASSUME DiskOK, DiskEvent, NEW c \in Holds(fs) \ Holds(fs')
  PROVE  \/ outside' # outside
         \/ job.active /\ job.kind = "Delete"
         \/ job.active /\ c \in InTheWay
  <1>0. TreeDisk(fs) /\ Nodes(fs) /\ JobOK(job, fs) /\ outside \in Nat
    BY DEF DiskOK, TreeDisk
  <1>1. c # 0 /\ \A p : ~WholeAt(fs', p, c)
    BY HoldsIs
  <1>2. PICK p : WholeAt(fs, p, c)
    BY HoldsIs
  <1>3. fs' # fs
    BY <1>1, <1>2
  <1>4. CASE JobStarts \/ JobStops
    <2>1. fs' = Closed(fs, "torn")
      BY <1>4 DEF JobStarts, JobStops, StartJob
    <2> QED
      BY <1>0, <1>1, <1>2, <2>1, ClosedHolds
  <1>5. CASE EntryRenamed
    <2>1. PICK d, a, b : /\ IsSeq(d) /\ Append(d, a) \in DOMAIN fs /\ Append(d, b) \notin DOMAIN fs
                         /\ fs' = MovedTree(fs, Append(d, a), Append(d, b))
      BY <1>5 DEF EntryRenamed
    <2>2. EntryMoved(fs, d, a, b, fs')
      BY <1>0, <2>1, MovedIs
    <2>3. \E x \in DOMAIN fs' : fs'[x] = fs[p]
      BY <1>2, <2>2 DEF EntryMoved, WholeAt
    <2> QED
      BY <1>1, <1>2, <2>3 DEF WholeAt
  <1>6. CASE EntryMade
    <2>1. \E q, node : q \notin DOMAIN fs /\ fs' = With(fs, q, node)
      BY <1>6 DEF EntryMade, CanCreate
    <2> QED
      BY <1>1, <1>2, <2>1, WithHolds
  <1>7. CASE FileGone /\ outside' = outside - 1
    BY <1>0, <1>7
  <1>8. CASE JobStep /\ Copying(job)
    <2>1. PICK t : StepTo(t)
      BY <1>8, JobStepIs
    <2>2. GoodState(Now) /\ Now.fs = fs /\ Now.job = job
      BY NowIs
    <2>3. Sliced(Now, t) /\ fs' = t.fs /\ job.active
      BY <1>8, <2>1, JobStepIs DEF StepTo
    <2>4. \/ WholeAt(fs, job.cur.to, c)
          \/ /\ job.kind = "Move" /\ WholeAt(fs, job.cur.from, c)
             /\ ~(job.cur.whole /\ c = job.cur.data)
      BY <1>8, <2>2, <2>3, SliceDrops
    <2> QED
      BY <1>8, <2>3, <2>4, InTheWayIs
  <1>9. CASE JobStep /\ ~Copying(job) /\ job.kind # "Delete"
    <2>1. PICK t : StepTo(t)
      BY <1>9, JobStepIs
    <2> DEFINE it == Last(job.pending)
    <2>2. /\ job.active /\ job.pending # <<>> /\ Item3(it) /\ Taken(Popped, it, t) /\ fs' = t.fs
      BY <1>9, <2>1, JobStepIs DEF StepTo
    <2>3. /\ GoodState(Popped) /\ ~Copying(Popped.job) /\ Popped.job.active
          /\ Popped.job.kind = job.kind /\ Popped.fs = fs
      BY <1>9, <2>2, PoppedIs, NowIs
    <2> HIDE DEF it
    <2>4. job.kind = "Move" /\ WholeAt(fs, it.to, c)
      BY <1>9, <2>2, <2>3, TakeDrops
    <2> QED
      BY <1>9, <2>2, <2>4, InTheWayIs DEF it
  <1>10. CASE JobStep /\ job.kind = "Delete"
    BY <1>10, JobStepIs
  <1> QED
    BY <1>3, <1>4, <1>5, <1>6, <1>7, <1>8, <1>9, <1>10 DEF DiskEvent

(* NothingLost for every disk: no step of the program, in whatever order   *)
(* the user and the job take theirs, drops the last whole file with some   *)
(* contents, but for a confirmed deletion, another program, and what lies  *)
(* under the very names that the job writes to or unlinks.                 *)
THEOREM FilesAreKept == Spec => NothingLost
  <1>1. ASSUME FilesInv, [Next]_vars
        PROVE  [ \A c \in Holds(fs) \ Holds(fs') :
                   \/ outside' # outside
                   \/ job.active /\ job.kind = "Delete"
                   \/ job.active /\ c \in InTheWay ]_vars
    <2>1. DiskOK /\ DiskEvent
      BY <1>1, StepKeeps DEF FilesInv
    <2> QED
      BY <2>1, StepLoses
  <1> QED
    BY <1>1, FilesInvariant, PTL DEF Spec, NothingLost

-----------------------------------------------------------------------------
(* Half-written files. *)

TornAt(d) == {p \in DOMAIN d : d[p].state = "torn"}

LEMMA FewerHalves ==
  ASSUME NEW d, FiniteDisk(d), NEW e, TornAt(e) \subseteq TornAt(d)
  PROVE  ~(Halves(e) > Halves(d))
  <1>1. TornAt(d) \in SUBSET DOMAIN d
    BY DEF TornAt
  <1>2. IsFiniteSet(TornAt(d))
    BY <1>1, FS_Subset DEF FiniteDisk
  <1>3. IsFiniteSet(TornAt(e)) /\ Cardinality(TornAt(e)) <= Cardinality(TornAt(d))
    BY <1>2, FS_Subset
  <1>4. Cardinality(TornAt(e)) \in Nat /\ Cardinality(TornAt(d)) \in Nat
    BY <1>2, <1>3, FS_CardinalityType
  <1>5. Halves(e) = Cardinality(TornAt(e)) /\ Halves(d) = Cardinality(TornAt(d))
    BY DEF Halves, TornAt
  <1> QED
    BY <1>3, <1>4, <1>5

(* Renaming an entry makes no half-written file. *)
LEMMA MovedHalves ==
  ASSUME NEW d, TreeDisk(d), NEW p, NEW a, NEW b, NEW e, FiniteDisk(e), EntryMoved(d, p, a, b, e)
  PROVE  ~(Halves(e) > Halves(d))
  <1> DEFINE S == Below(d, Append(p, a))
             To(q) == IF q \in S THEN Rebased(p, b, q) ELSE q
             D == TornAt(d)
             E == TornAt(e)
             f == [q \in D |-> To(q)]
  <1>1. ASSUME NEW q \in D PROVE To(q) \in E
    <2>1. To(q) \in DOMAIN e /\ e[To(q)] = d[q]
      BY <1>1 DEF EntryMoved, TornAt
    <2> QED
      BY <1>1, <2>1 DEF TornAt
  <1>2. ASSUME NEW x \in E PROVE \E q \in D : x = To(q)
    <2>1. x \in DOMAIN e /\ e[x].state = "torn"
      BY <1>2 DEF TornAt
    <2>2. CASE x \in DOMAIN d \ S
      <3>1. e[x] = d[x] /\ To(x) = x
        BY <2>2 DEF EntryMoved
      <3> QED
        BY <2>1, <2>2, <3>1 DEF TornAt
    <2>3. ASSUME NEW q \in S, x = Rebased(p, b, q) PROVE \E z \in D : x = To(z)
      <3>1. e[x] = d[q] /\ To(q) = x /\ q \in DOMAIN d
        BY <2>3 DEF EntryMoved, Below
      <3>2. q \in D
        BY <2>1, <3>1 DEF TornAt
      <3> QED
        BY <3>1, <3>2
    <2> QED
      BY <2>1, <2>2, <2>3 DEF EntryMoved
  <1> HIDE DEF To
  <1>3. f \in [D -> E] /\ \A q \in D : f[q] = To(q)
    BY <1>1
  <1> HIDE DEF f
  <1>4. \A x \in E : \E q \in D : f[q] = x
    BY <1>2, <1>3
  <1>5. f \in Surjection(D, E)
    BY <1>3, <1>4 DEF Surjection
  <1>6. IsFiniteSet(D)
    <2>1. D \in SUBSET DOMAIN d
      BY DEF TornAt
    <2> QED
      BY <2>1, FS_Subset DEF TreeDisk, FiniteDisk
  <1>7. IsFiniteSet(E) /\ Cardinality(E) <= Cardinality(D)
    BY <1>5, <1>6, FS_Surjection
  <1>8. Cardinality(E) \in Nat /\ Cardinality(D) \in Nat
    BY <1>6, <1>7, FS_CardinalityType
  <1>9. Halves(e) = Cardinality(E) /\ Halves(d) = Cardinality(D)
    BY DEF Halves, TornAt
  <1> HIDE DEF D, E
  <1> QED
    BY <1>7, <1>8, <1>9

LEMMA ClosedTorn ==
  ASSUME NEW d, Nodes(d), NEW st, st = "whole" \/ OpenAt(d) = {}
  PROVE  TornAt(Closed(d, st)) = TornAt(d)
  <1> DEFINE e == Closed(d, st)
  <1>1. /\ DOMAIN e = DOMAIN d
        /\ \A q \in DOMAIN d : e[q] = IF d[q].state = "open" THEN File(d[q].data, st) ELSE d[q]
    BY ClosedIs
  <1> HIDE DEF e
  <1>2. \A q \in DOMAIN d : e[q].state = "torn" <=> d[q].state = "torn"
    BY <1>1 DEF File, OpenAt
  <1>3. TornAt(e) = TornAt(d)
    BY <1>1, <1>2 DEF TornAt
  <1> QED
    BY <1>3 DEF e

LEMMA WithoutTorn ==
  ASSUME NEW d, NEW p
  PROVE  TornAt(Without(d, {p})) \subseteq TornAt(d)
  BY DEF TornAt, Without

LEMMA WithTorn ==
  ASSUME NEW d, NEW p, NEW n, n.state # "torn"
  PROVE  TornAt(With(d, p, n)) \subseteq TornAt(d)
  BY DEF TornAt, With

(* A slice tears a file only if its source was torn, or if its copy is no  *)
(* longer where the failure looks for it.                                  *)
LEMMA SliceTears ==
  ASSUME NEW s, GoodState(s), Copying(s.job), NEW t, Sliced(s, t), s.job.cur.whole,
         s.job.cur.to \in OpenAt(s.fs)
  PROVE  TornAt(t.fs) \subseteq TornAt(s.fs)
  <1> DEFINE to == s.job.cur.to
             from == s.job.cur.from
             d == Closed(s.fs, "whole")
  <1>1. Nodes(s.fs) /\ EndState(s.job.cur) = "whole"
    BY DEF GoodState, TreeDisk, EndState
  <1>2. TornAt(d) = TornAt(s.fs)
    BY <1>1, ClosedTorn
  <1>3. CASE t.fs = s.fs \/ t.fs = d
    BY <1>2, <1>3
  <1>4. CASE t.fs = Without(d, {from})
    <2> HIDE DEF d
    <2> QED
      BY <1>2, <1>4, WithoutTorn
  <1>5. CASE t.fs = AfterFailure(s.fs, to)
    <2>1. to \in DOMAIN s.fs /\ s.fs[to].state = "open"
      BY DEF OpenAt
    <2>2. IsFile(s.fs, to)
      BY <2>1 DEF IsFile, Dir
    <2> DEFINE x == Without(s.fs, {to})
    <2>3. t.fs = Closed(x, "torn")
      BY <1>5, <2>2 DEF AfterFailure
    <2>4. PICK o : OpenAt(s.fs) = {o}
      BY DEF GoodState, JobOK
    <2>5. OpenAt(x) = {}
      <3>1. OpenAt(x) = OpenAt(s.fs) \ {to}
        BY OpenWithout
      <3> QED
        BY <2>4, <3>1
    <2>6. Nodes(x)
      BY <1>1 DEF Nodes, Without
    <2>7. TornAt(x) \subseteq TornAt(s.fs)
      BY WithoutTorn
    <2> HIDE DEF x
    <2>8. TornAt(t.fs) = TornAt(x)
      BY <2>3, <2>5, <2>6, ClosedTorn
    <2> QED
      BY <2>7, <2>8
  <1>6. \/ t.fs = s.fs \/ t.fs = d \/ t.fs = AfterFailure(s.fs, to) \/ t.fs = Without(d, {from})
    BY <1>1 DEF Sliced
  <1> QED
    BY <1>3, <1>4, <1>5, <1>6

LEMMA TakeTears ==
  ASSUME NEW s, GoodState(s), ~Copying(s.job), s.job.active, NEW it, Item3(it),
         NEW t, Taken(s, it, t), ~(IsFile(s.fs, it.from) /\ s.fs[it.from].state = "torn")
  PROVE  TornAt(t.fs) \subseteq TornAt(s.fs)
  <1>1. CASE Refused(s, t)
    BY <1>1 DEF Refused
  <1>2. CASE Removed(s, it, t)
    BY <1>2, WithoutTorn DEF Removed
  <1>3. CASE Entered(s, it, t)
    <2>1. Dir.state # "torn"
      BY DEF Dir
    <2> QED
      BY <1>3, <2>1, WithTorn DEF Entered
  <1>4. CASE Replaced(s, it, t)
    <2>1. /\ it.from \in DOMAIN s.fs /\ t.fs = Renamed(s.fs, it.from, it.to)
          /\ s.fs[it.from].state # "torn"
      BY <1>4 DEF Replaced, CanRename, IsFile
    <2>2. CASE it.from = it.to
      BY <2>1, <2>2 DEF Renamed
    <2>3. CASE it.from # it.to
      <3>1. t.fs = With(Without(s.fs, {it.from}), it.to, s.fs[it.from])
        BY <2>1, <2>3 DEF Renamed
      <3> DEFINE x == Without(s.fs, {it.from})
      <3>2. TornAt(x) \subseteq TornAt(s.fs)
        BY WithoutTorn
      <3> HIDE DEF x
      <3>3. TornAt(t.fs) \subseteq TornAt(x)
        BY <2>1, <3>1, WithTorn DEF x
      <3> QED
        BY <3>2, <3>3
    <2> QED
      BY <2>2, <2>3
  <1>5. ASSUME NEW u, Opened(s, it, u), Sliced(u, t) PROVE TornAt(t.fs) \subseteq TornAt(s.fs)
    <2>1. GoodState(u) /\ Reads(s, it, u)
      BY <1>5, OpenedKeeps
    <2> DEFINE node == File(s.fs[it.from].data, "open")
    <2>2. IsFile(s.fs, it.from) /\ u.fs = With(s.fs, it.to, node)
      BY <1>5 DEF Opened
    <2>3. s.fs[it.from].state = "whole"
      <3>1. s.fs[it.from].state \in {"whole", "open", "torn"}
        BY <2>2, NodeIs DEF GoodState, TreeDisk, Nodes, IsFile
      <3>2. s.fs[it.from].state # "open"
        BY <2>2 DEF GoodState, JobOK, OpenAt, IsFile
      <3> QED
        BY <2>2, <3>1, <3>2
    <2>4. node.state # "torn"
      BY DEF File
    <2> HIDE DEF node
    <2>5. TornAt(u.fs) \subseteq TornAt(s.fs)
      BY <2>2, <2>4, WithTorn
    <2>6. Copying(u.job) /\ u.job.cur.whole /\ u.job.cur.to \in OpenAt(u.fs)
      BY <2>1, <2>3 DEF Reads
    <2>7. TornAt(t.fs) \subseteq TornAt(u.fs)
      BY <1>5, <2>1, <2>6, SliceTears
    <2> QED
      BY <2>5, <2>7
  <1> QED
    BY <1>1, <1>2, <1>3, <1>4, <1>5 DEF Taken

Explained ==
  \/ report' = "stopped" /\ ~job'.active
  \/ job.active /\ ~Copying(job) /\ IsFile(fs, Last(job.pending).from)
       /\ fs[Last(job.pending).from].state = "torn"
  \/ job.active /\ Copying(job) /\ ~job.cur.whole
  \/ job.active /\ Copying(job)
       /\ ~(IsFile(fs, job.cur.to) /\ fs[job.cur.to].state = "open")

LEMMA StepTears ==
  ASSUME DiskOK, DiskOK', DiskEvent, Halves(fs') > Halves(fs)
  PROVE  Explained
  <1>0. /\ TreeDisk(fs) /\ FiniteDisk(fs) /\ Nodes(fs) /\ JobOK(job, fs) /\ FiniteDisk(fs')
    BY DEF DiskOK, TreeDisk
  <1>1. ~(TornAt(fs') \subseteq TornAt(fs))
    BY <1>0, FewerHalves
  <1>2. CASE JobStarts
    <2>1. fs' = Closed(fs, "torn") /\ ~job.active
      BY <1>2 DEF JobStarts, StartJob
    <2>2. OpenAt(fs) = {}
      BY <1>0, <2>1 DEF JobOK
    <2>3. TornAt(fs') = TornAt(fs)
      BY <1>0, <2>1, <2>2, ClosedTorn
    <2> QED
      BY <1>1, <2>3
  <1>3. CASE JobStops
    BY <1>3 DEF JobStops, Explained, NoJob
  <1>4. CASE EntryRenamed
    <2>1. PICK d, a, b : /\ IsSeq(d) /\ Append(d, a) \in DOMAIN fs /\ Append(d, b) \notin DOMAIN fs
                         /\ fs' = MovedTree(fs, Append(d, a), Append(d, b))
      BY <1>4 DEF EntryRenamed
    <2>2. EntryMoved(fs, d, a, b, fs')
      BY <1>0, <2>1, MovedIs
    <2> QED
      BY <1>0, <2>2, MovedHalves
  <1>5. CASE EntryMade
    <2>1. PICK q, node : node \in {Dir, File(0, "whole")} /\ fs' = With(fs, q, node)
      BY <1>5 DEF EntryMade
    <2>2. node.state # "torn"
      BY <2>1 DEF Dir, File
    <2> QED
      BY <1>1, <2>1, <2>2, WithTorn
  <1>6. CASE FileGone
    BY <1>1, <1>6, WithoutTorn DEF FileGone
  <1>7. CASE JobStep /\ Copying(job)
    <2>1. PICK t : StepTo(t)
      BY <1>7, JobStepIs
    <2>2. GoodState(Now) /\ Now.fs = fs /\ Now.job = job
      BY NowIs
    <2>3. Sliced(Now, t) /\ fs' = t.fs /\ job.active
      BY <1>7, <2>1, JobStepIs DEF StepTo
    <2>4. ~(job.cur.whole /\ job.cur.to \in OpenAt(fs))
      BY <1>1, <1>7, <2>2, <2>3, SliceTears
    <2> QED
      BY <1>7, <2>3, <2>4 DEF Explained, OpenAt, IsFile
  <1>8. CASE JobStep /\ ~Copying(job)
    <2>1. PICK t : StepTo(t)
      BY <1>8, JobStepIs
    <2> DEFINE it == Last(job.pending)
    <2>2. /\ job.active /\ job.pending # <<>> /\ Item3(it) /\ Taken(Popped, it, t) /\ fs' = t.fs
      BY <1>8, <2>1, JobStepIs DEF StepTo
    <2>3. /\ GoodState(Popped) /\ ~Copying(Popped.job) /\ Popped.job.active /\ Popped.fs = fs
      BY <1>8, <2>2, PoppedIs, NowIs
    <2> HIDE DEF it
    <2>4. IsFile(fs, it.from) /\ fs[it.from].state = "torn"
      BY <1>1, <2>2, <2>3, TakeTears
    <2> QED
      BY <1>8, <2>2, <2>4 DEF Explained, it
  <1> QED
    BY <1>1, <1>2, <1>3, <1>4, <1>5, <1>6, <1>7, <1>8 DEF DiskEvent

(* HalfFileExplained for every disk: whoever renames, stops or fails, in   *)
(* whatever order, a half-written file appears only from a half-written    *)
(* source, from a job the user stops, or from a copy that was moved away   *)
(* before the failure that would have removed it.                          *)
THEOREM HalvesAreExplained == Spec => HalfFileExplained
  <1>1. ASSUME FilesInv, [Next]_vars
        PROVE  [ Halves(fs') > Halves(fs) =>
                   \/ report' = "stopped" /\ ~job'.active
                   \/ job.active /\ ~Copying(job) /\ IsFile(fs, Last(job.pending).from)
                        /\ fs[Last(job.pending).from].state = "torn"
                   \/ job.active /\ Copying(job) /\ ~job.cur.whole
                   \/ job.active /\ Copying(job)
                        /\ ~(IsFile(fs, job.cur.to) /\ fs[job.cur.to].state = "open") ]_vars
    <2>1. DiskOK /\ DiskOK' /\ DiskEvent
      BY <1>1, StepKeeps DEF FilesInv
    <2> QED
      BY <2>1, StepTears DEF Explained
  <1> QED
    BY <1>1, FilesInvariant, PTL DEF Spec, HalfFileExplained
=============================================================================
