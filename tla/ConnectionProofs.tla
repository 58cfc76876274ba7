-------------------------- MODULE ConnectionProofs --------------------------
(***************************************************************************)
(* Proofs about the two directions of a connection: the output queue that  *)
(* fills the socket (OutQueue), for every ceiling, every compaction        *)
(* threshold and every message length; and the path of a key from the      *)
(* terminal to the session (Keyboard), for every set of keys, every text   *)
(* that is pasted, every size of a header and of a buffer.                 *)
(***************************************************************************)
EXTENDS Keyboard, OutQueue, SequenceTheorems, WellFoundedInduction, TLAPS

(* What a concatenation is. *)
IsCat(c, a, b, X) ==
  /\ c \in Seq(X) /\ Len(c) = Len(a) + Len(b)
  /\ \A i \in 1..Len(a) : c[i] = a[i]
  /\ \A i \in 1..Len(b) : c[Len(a) + i] = b[i]

LEMMA CatIs ==
  ASSUME NEW X, NEW a \in Seq(X), NEW b \in Seq(X)
  PROVE  IsCat(a \o b, a, b, X)
  BY DEF IsCat

(* flush() never leaves a fully sent buffer behind, and compact() bounds    *)
(* the sent prefix.                                                         *)
PrefixBounded == usable => off <= CompactAbove /\ (off < Len(buf) \/ off = 0)

(* The buffer holds whole messages at its end: push() is all or nothing.    *)
EndsOnMessage == Len(buf) > 0 => buf[Len(buf)] = 0

(* A message the peer holds the beginning of is still in the buffer, its    *)
(* sent part before off, unless compact() erased that part.                 *)
BegunIsVisible == usable /\ ~torn /\ owed > 0 /\ off = 0 => compacted

(* Only a begun message can be torn, and the tear is never mended.          *)
TornOwes == torn => owed > 0

(* The inductive invariant. CeilingHolds and TearIsAnnounced are not        *)
(* inductive alone: the first needs the types, the second needs to know     *)
(* what off = 0 says about the message in flight.                           *)
QueueInv ==
  /\ TypeOK
  /\ CeilingHolds
  /\ PrefixBounded
  /\ EndsOnMessage
  /\ BegunIsVisible
  /\ TornOwes
  /\ TearIsAnnounced

(* An encoded message is a sequence of bytes that ends on a 0. *)
LEMMA MessageFacts ==
  ASSUME NEW n \in Nat \ {0}
  PROVE  /\ Message(n) \in Seq(Nat)
         /\ Len(Message(n)) = n
         /\ Message(n)[n] = 0
<1>1. \A i \in 1..n : n - i \in Nat
  OBVIOUS
<1>2. Message(n) \in [1..n -> Nat]
  BY <1>1 DEF Message
<1> QED
  BY <1>2 DEF Message

(* A new queue satisfies the invariant. *)
LEMMA InitQueueInv == QueueInit => QueueInv
<1> SUFFICES ASSUME QueueInit PROVE QueueInv
  OBVIOUS
<1>1. TypeOK
  <2>1. buf \in Seq(Nat) /\ off \in 0..Len(buf) /\ owed \in Nat
    BY DEF QueueInit
  <2>2. overflow \in Overflow /\ {usable, torn, compacted} \subseteq BOOLEAN
    BY DEF QueueInit, Overflow
  <2> QED
    BY <2>1, <2>2 DEF TypeOK
<1>2. CeilingHolds /\ PrefixBounded /\ EndsOnMessage
  BY OutQueueAssumption DEF QueueInit, CeilingHolds, PrefixBounded, EndsOnMessage, Size
<1>3. BegunIsVisible /\ TornOwes /\ TearIsAnnounced
  BY DEF QueueInit, BegunIsVisible, TornOwes, TearIsAnnounced
<1> QED
  BY <1>1, <1>2, <1>3 DEF QueueInv

(* push(), accepted or rejected, preserves the invariant. *)
LEMMA PushQueueInv ==
  ASSUME QueueInv, NEW n \in 1..MaxMessage, Push(n)
  PROVE  QueueInv'
<1> USE OutQueueAssumption
<1>1. CASE TooBig(n)
  <2>1. /\ buf' = <<>> /\ off' = 0
        /\ overflow' = Worst(overflow, Rejection)
        /\ torn' = (torn \/ owed > 0)
        /\ UNCHANGED <<usable, owed, compacted>>
    BY <1>1 DEF Push, ReleaseBuffer
  <2>2. TypeOK' /\ CeilingHolds'
    BY <2>1 DEF QueueInv, TypeOK, CeilingHolds, Size, Worst, Rejection, Overflow
  <2>3. PrefixBounded' /\ EndsOnMessage' /\ BegunIsVisible' /\ TornOwes'
    BY <2>1 DEF QueueInv, TypeOK, PrefixBounded, EndsOnMessage, BegunIsVisible,
                TornOwes
  <2>4. TearIsAnnounced'
    BY <2>1 DEF QueueInv, TypeOK, BegunIsVisible, TearIsAnnounced, Worst, Rejection
  <2> QED
    BY <2>2, <2>3, <2>4 DEF QueueInv
<1>2. CASE ~TooBig(n)
  <2>1. /\ buf' = buf \o Message(n)
        /\ UNCHANGED <<off, overflow, torn, usable, owed, compacted>>
    BY <1>2 DEF Push
  <2>2. /\ Message(n) \in Seq(Nat) /\ Len(Message(n)) = n
        /\ Message(n)[n] = 0
    BY MessageFacts
  <2>3. /\ buf' \in Seq(Nat) /\ Len(buf') = Len(buf) + n
        /\ buf'[Len(buf')] = 0
    <3>1. buf \in Seq(Nat) /\ Len(buf) \in Nat
      BY DEF QueueInv, TypeOK
    <3> DEFINE M == Message(n)
    <3>2. M \in Seq(Nat) /\ Len(M) = n /\ M[n] = 0 /\ buf' = buf \o M
      BY <2>1, <2>2
    <3> HIDE DEF M
    <3>3. PICK b \in Seq(Nat), l \in Nat : b = buf /\ l = Len(b)
      BY <3>1
    <3> DEFINE c == b \o M
    <3>4. IsCat(c, b, M, Nat)
      BY <3>2, CatIs
    <3> HIDE DEF c
    <3>5. c \in Seq(Nat) /\ Len(c) = l + n /\ \A i \in 1..n : c[l + i] = M[i]
      BY <3>2, <3>3, <3>4 DEF IsCat
    <3>6. n \in 1..n /\ c[l + n] = M[n]
      BY <3>5
    <3>7. c[Len(c)] = 0
      BY <3>2, <3>5, <3>6
    <3>8. buf' = c
      BY <3>2, <3>3 DEF c
    <3> QED
      BY <3>3, <3>5, <3>7, <3>8
  <2>4. TypeOK' /\ CeilingHolds'
    BY <1>2, <2>1, <2>3 DEF QueueInv, TypeOK, CeilingHolds, Size, TooBig
  <2>5. PrefixBounded' /\ EndsOnMessage'
    BY <2>1, <2>3 DEF QueueInv, TypeOK, PrefixBounded, EndsOnMessage
  <2>6. BegunIsVisible' /\ TornOwes' /\ TearIsAnnounced'
    BY <2>1 DEF QueueInv, BegunIsVisible, TornOwes, TearIsAnnounced
  <2> QED
    BY <2>4, <2>5, <2>6 DEF QueueInv
<1> QED
  BY <1>1, <1>2

(* What the peer lacks is a number of bytes, and nothing when the last byte *)
(* of the buffer has gone.                                                  *)
LEMMA OwedFacts ==
  ASSUME QueueInv, NEW k \in 0..Size
  PROVE  /\ OwedAfter(k) \in Nat
         /\ torn \/ k = 0 => OwedAfter(k) = owed
         /\ ~torn /\ k > 0 /\ off + k = Len(buf) => OwedAfter(k) = 0
<1>1. k > 0 => off + k \in 1..Len(buf)
  BY DEF QueueInv, TypeOK, Size
<1> QED
  BY <1>1 DEF QueueInv, TypeOK, OwedAfter, EndsOnMessage

(* flush() and the compaction it ends with preserve the invariant. *)
LEMMA FlushQueueInv ==
  ASSUME QueueInv, NEW k \in 0..Size, Flush(k)
  PROVE  QueueInv'
<1> DEFINE o == off + k
<1> USE OutQueueAssumption
<1>1. /\ owed' = OwedAfter(k)
      /\ Compact(o)
      /\ usable
      /\ UNCHANGED <<overflow, usable, torn>>
  BY DEF Flush
<1>2. o \in 0..Len(buf) /\ buf \in Seq(Nat)
  BY DEF QueueInv, TypeOK, Size
<1>3. /\ owed' \in Nat
      /\ torn \/ k = 0 => owed' = owed
      /\ ~torn /\ k > 0 /\ o = Len(buf) => owed' = 0
  BY <1>1, OwedFacts
<1>4. TornOwes'
  BY <1>1, <1>3 DEF QueueInv, TornOwes
<1>5. CASE o = Len(buf)
  <2>1. /\ buf' = <<>> /\ off' = 0
        /\ compacted' = (compacted /\ owed' > 0)
    BY <1>1, <1>2, <1>5 DEF Compact, ReleaseBuffer
  <2>2. TypeOK' /\ CeilingHolds' /\ PrefixBounded' /\ EndsOnMessage'
    BY <1>1, <1>3, <2>1 DEF QueueInv, TypeOK, CeilingHolds, PrefixBounded,
                            EndsOnMessage, Size
  <2>3. BegunIsVisible' /\ TearIsAnnounced'
    BY <1>1, <1>3, <1>5, <2>1 DEF QueueInv, TypeOK, PrefixBounded, BegunIsVisible,
                                  TornOwes, TearIsAnnounced
  <2> QED
    BY <1>4, <2>2, <2>3 DEF QueueInv
<1>6. CASE o < Len(buf) /\ CompactDue(o)
  <2>1. /\ buf' = SubSeq(buf, o + 1, Len(buf)) /\ off' = 0
        /\ compacted' = (owed' > 0)
    BY <1>1, <1>2, <1>6 DEF Compact
  <2>2. /\ buf' \in Seq(Nat)
        /\ Len(buf') = Len(buf) - o
        /\ buf'[Len(buf')] = buf[Len(buf)]
    <3>1. Len(buf) \in Nat /\ o \in Nat /\ o < Len(buf)
      BY <1>2, <1>6
    <3> HIDE DEF o
    <3>2. o + 1 \in Int /\ \A i \in o + 1..Len(buf) : buf[i] \in Nat
      BY <1>2, <3>1
    <3>3. /\ SubSeq(buf, o + 1, Len(buf)) \in Seq(Nat)
          /\ Len(SubSeq(buf, o + 1, Len(buf))) =
                IF o + 1 <= Len(buf) THEN Len(buf) - (o + 1) + 1 ELSE 0
          /\ \A i \in 1..(Len(buf) - (o + 1) + 1) :
               SubSeq(buf, o + 1, Len(buf))[i] = buf[(o + 1) + i - 1]
      BY <3>1, <3>2, SubSeqProperties
    <3>4. /\ o + 1 <= Len(buf)
          /\ Len(buf) - (o + 1) + 1 = Len(buf) - o
          /\ Len(buf) - o \in 1..(Len(buf) - (o + 1) + 1)
          /\ (o + 1) + (Len(buf) - o) - 1 = Len(buf)
      BY <3>1
    <3> QED
      BY <2>1, <3>3, <3>4
  <2>3. TypeOK' /\ CeilingHolds'
    BY <1>1, <1>2, <1>3, <2>1, <2>2, SMTT(30) DEF QueueInv, TypeOK, CeilingHolds, Size
  <2>4. PrefixBounded' /\ EndsOnMessage'
    BY <1>2, <1>6, <2>1, <2>2 DEF QueueInv, TypeOK, PrefixBounded, EndsOnMessage
  <2>5. BegunIsVisible' /\ TearIsAnnounced'
    BY <1>1, <1>3, <2>1 DEF QueueInv, TypeOK, BegunIsVisible, TornOwes,
                            TearIsAnnounced
  <2> QED
    BY <1>4, <2>3, <2>4, <2>5 DEF QueueInv
<1>7. CASE o < Len(buf) /\ ~CompactDue(o)
  <2>1. /\ buf' = buf /\ off' = o
        /\ compacted' = (compacted /\ owed' > 0)
    BY <1>1, <1>2, <1>7 DEF Compact
  <2>2. TypeOK' /\ CeilingHolds' /\ PrefixBounded' /\ EndsOnMessage'
    BY <1>1, <1>2, <1>3, <1>7, <2>1
       DEF QueueInv, TypeOK, CeilingHolds, PrefixBounded, EndsOnMessage, Size,
           CompactDue
  <2>3. BegunIsVisible' /\ TearIsAnnounced'
    BY <1>1, <1>3, <2>1 DEF QueueInv, TypeOK, BegunIsVisible, TornOwes,
                            TearIsAnnounced
  <2> QED
    BY <1>4, <2>2, <2>3 DEF QueueInv
<1> QED
  BY <1>2, <1>5, <1>6, <1>7

(* A flush() that fails preserves the invariant. *)
LEMMA FlushFailQueueInv ==
  ASSUME QueueInv, NEW k \in 0..Size, FlushFail(k)
  PROVE  QueueInv'
<1>1. /\ owed' = OwedAfter(k) /\ off' = off + k /\ usable' = FALSE
      /\ UNCHANGED <<buf, overflow, torn, compacted>>
  BY DEF FlushFail
<1>2. owed' \in Nat /\ (torn => owed' = owed)
  BY <1>1, OwedFacts
<1>3. TypeOK' /\ CeilingHolds'
  <2>1. off' \in 0..Len(buf') /\ Len(buf') - off' <= Ceiling
    BY <1>1, OutQueueAssumption DEF QueueInv, TypeOK, CeilingHolds, Size
  <2>2. usable' \in BOOLEAN
    BY <1>1
  <2> QED
    BY <1>1, <1>2, <2>1, <2>2 DEF QueueInv, TypeOK, CeilingHolds, Size
<1>4. PrefixBounded' /\ EndsOnMessage' /\ BegunIsVisible' /\ TearIsAnnounced'
  BY <1>1 DEF QueueInv, PrefixBounded, EndsOnMessage, BegunIsVisible,
              TearIsAnnounced
<1>5. TornOwes'
  BY <1>1, <1>2 DEF QueueInv, TornOwes
<1> QED
  BY <1>3, <1>4, <1>5 DEF QueueInv

(* take_overflow() and a replaced connection preserve the invariant. *)
LEMMA CallerQueueInv ==
  ASSUME QueueInv, TakeOverflow \/ Fresh
  PROVE  QueueInv'
<1>1. CASE TakeOverflow
  <2>1. TypeOK' /\ CeilingHolds'
    BY <1>1 DEF TakeOverflow, QueueInv, TypeOK, CeilingHolds, Size, Overflow
  <2>2. PrefixBounded' /\ EndsOnMessage' /\ BegunIsVisible' /\ TornOwes'
    BY <1>1 DEF TakeOverflow, QueueInv, TypeOK, PrefixBounded, EndsOnMessage,
                BegunIsVisible, TornOwes
  <2>3. TearIsAnnounced'
    BY <1>1 DEF TakeOverflow, QueueInv, TypeOK, TearIsAnnounced
  <2> QED
    BY <2>1, <2>2, <2>3 DEF QueueInv
<1>2. CASE Fresh
  <2>1. TypeOK'
    <3>1. buf' \in Seq(Nat) /\ off' \in 0..Len(buf') /\ owed' \in Nat
      BY <1>2 DEF Fresh
    <3>2. /\ overflow' \in Overflow
          /\ {usable', torn', compacted'} \subseteq BOOLEAN
      BY <1>2 DEF Fresh, Overflow
    <3> QED
      BY <3>1, <3>2 DEF TypeOK
  <2>2. CeilingHolds' /\ PrefixBounded' /\ EndsOnMessage'
    BY <1>2, OutQueueAssumption
       DEF Fresh, CeilingHolds, PrefixBounded, EndsOnMessage, Size
  <2>3. BegunIsVisible' /\ TornOwes' /\ TearIsAnnounced'
    BY <1>2 DEF Fresh, BegunIsVisible, TornOwes, TearIsAnnounced
  <2> QED
    BY <2>1, <2>2, <2>3 DEF QueueInv
<1> QED
  BY <1>1, <1>2

(* Every step of the queue preserves the invariant. *)
LEMMA NextQueueInv == QueueInv /\ [QueueNext]_queueVars => QueueInv'
<1> SUFFICES ASSUME QueueInv, [QueueNext]_queueVars PROVE QueueInv'
  OBVIOUS
<1>1. CASE UNCHANGED queueVars
  BY <1>1 DEF queueVars, QueueInv, TypeOK, CeilingHolds, PrefixBounded, EndsOnMessage,
              BegunIsVisible, TornOwes, TearIsAnnounced, Size
<1>2. ASSUME NEW n \in 1..MaxMessage, Push(n) PROVE QueueInv'
  BY <1>2, PushQueueInv
<1>3. ASSUME NEW k \in 0..Size, Flush(k) PROVE QueueInv'
  BY <1>3, FlushQueueInv
<1>4. ASSUME NEW k \in 0..Size, FlushFail(k) PROVE QueueInv'
  BY <1>4, FlushFailQueueInv
<1>5. CASE TakeOverflow \/ Fresh
  BY <1>5, CallerQueueInv
<1> QED
  BY <1>1, <1>2, <1>3, <1>4, <1>5 DEF QueueNext

(* The inductive invariant holds in every reachable state. *)
THEOREM QueueInvariant == QueueSpec => []QueueInv
BY InitQueueInv, NextQueueInv, PTL DEF QueueSpec

(* The queue is well typed: off never passes the end of the buffer. *)
THEOREM QueueTypes == QueueSpec => []TypeOK
<1>1. QueueInv => TypeOK
  BY DEF QueueInv
<1> QED
  BY <1>1, QueueInvariant, PTL

(* The unsigned ceiling_ - size() of push() never wraps around, whatever    *)
(* the ceiling, the threshold and the lengths pushed.                       *)
THEOREM CeilingCorrect == QueueSpec => []CeilingHolds
<1>1. QueueInv => CeilingHolds
  BY DEF QueueInv
<1> QED
  BY <1>1, QueueInvariant, PTL

(* The memory of a live queue is bounded by the ceiling plus what compact() *)
(* tolerates, even if the buffer never drains.                              *)
THEOREM MemoryCorrect == QueueSpec => []MemoryBounded
<1>1. QueueInv => MemoryBounded
  BY OutQueueAssumption
     DEF QueueInv, TypeOK, CeilingHolds, PrefixBounded, MemoryBounded, Size
<1> QED
  BY <1>1, QueueInvariant, PTL

(* push() and take_overflow() announce every torn message as Dirty, except  *)
(* the ones whose sent part compact() erased.                               *)
THEOREM TearCorrect == QueueSpec => []TearIsAnnounced
<1>1. QueueInv => TearIsAnnounced
  BY DEF QueueInv
<1> QED
  BY <1>1, QueueInvariant, PTL

-----------------------------------------------------------------------------
LEMMA LeastNatural ==
  ASSUME NEW T \in SUBSET Nat, T # {}
  PROVE  \E x \in T : \A y \in T : x <= y
  <1> DEFINE R == OpToRel(<, Nat)
  <1>1. IsWellFoundedOn(R, Nat)
    BY NatLessThanWellFounded
  <1>2. \A x, y \in Nat : x < y => <<x, y>> \in R
    BY DEF OpToRel
  <1> HIDE DEF R
  <1>3. PICK x \in T : \A y \in T : ~(<<y, x>> \in R)
    BY <1>1, WFMin
  <1>4. \A y \in T : x \in Nat /\ y \in Nat /\ ~(y < x)
    BY <1>2, <1>3
  <1>5. \A y \in T : x <= y
    BY <1>4
  <1> QED
    BY <1>5

(* What flatten is, in the definition of FlattenSeq. *)
IsFlatten(f, s) ==
  f = [i \in 1..Len(s) |-> IF i = 1 THEN s[i] ELSE f[i - 1] \o s[i]]

Partial(f, s, n) ==
  /\ DOMAIN f = 1..n
  /\ \A i \in 1..n : f[i] = IF i = 1 THEN s[i] ELSE f[i - 1] \o s[i]

LEMMA PartialExists ==
  ASSUME NEW s, NEW n \in Nat
  PROVE  \E f : Partial(f, s, n)
  <1> DEFINE T == {m \in Nat : ~\E f : Partial(f, s, m)}
  <1>1. SUFFICES ASSUME T # {} PROVE FALSE
    OBVIOUS
  <1>2. PICK m \in T : \A y \in T : m <= y
    BY <1>1, LeastNatural
  <1>3. m \in Nat /\ ~\E f : Partial(f, s, m)
    BY <1>2
  <1>4. CASE m = 0
    <2>1. Partial([i \in 1..0 |-> 0], s, 0)
      BY DEF Partial
    <2> QED
      BY <1>3, <1>4, <2>1
  <1>5. CASE m # 0
    <2>1. m - 1 \in Nat /\ m - 1 \notin T
      BY <1>2, <1>3, <1>5
    <2>2. PICK f : Partial(f, s, m - 1)
      BY <2>1
    <2> DEFINE g == [i \in 1..m |-> IF i = m THEN (IF m = 1 THEN s[m] ELSE f[m - 1] \o s[m])
                                    ELSE f[i]]
    <2>3. \A i \in 1..m : g[i] = IF i = 1 THEN s[i] ELSE g[i - 1] \o s[i]
      <3> TAKE i \in 1..m
      <3>1. CASE i = m
        BY <1>3, <1>5, <3>1
      <3>2. CASE i # m
        <4>1. i \in 1..(m - 1) /\ (i # 1 => i - 1 \in 1..(m - 1) /\ i - 1 # m)
          BY <1>3, <3>2
        <4>2. f[i] = IF i = 1 THEN s[i] ELSE f[i - 1] \o s[i]
          BY <2>2, <4>1 DEF Partial
        <4>3. g[i] = f[i] /\ (i # 1 => g[i - 1] = f[i - 1])
          BY <3>2, <4>1
        <4> QED
          BY <4>2, <4>3
      <3> QED
        BY <3>1, <3>2
    <2>4. DOMAIN g = 1..m
      OBVIOUS
    <2>5. Partial(g, s, m)
      BY <2>3, <2>4 DEF Partial
    <2> QED
      BY <1>3, <2>5
  <1> QED
    BY <1>4, <1>5

LEMMA FlattenIs ==
  ASSUME NEW s, Len(s) \in Nat \ {0}
  PROVE  \E f : Partial(f, s, Len(s)) /\ FlattenSeq(s) = f[Len(s)]
  <1> DEFINE f == CHOOSE g : IsFlatten(g, s)
  <1>1. \E g : IsFlatten(g, s)
    <2>1. PICK g : Partial(g, s, Len(s))
      BY PartialExists
    <2> DEFINE h == [i \in 1..Len(s) |-> g[i]]
    <2>2. h = [i \in 1..Len(s) |-> IF i = 1 THEN s[i] ELSE h[i - 1] \o s[i]]
      <3>1. \A i \in 1..Len(s) : h[i] = IF i = 1 THEN s[i] ELSE h[i - 1] \o s[i]
        <4> TAKE i \in 1..Len(s)
        <4>1. g[i] = IF i = 1 THEN s[i] ELSE g[i - 1] \o s[i]
          BY <2>1 DEF Partial
        <4>2. i # 1 => i - 1 \in 1..Len(s)
          OBVIOUS
        <4> QED
          BY <4>1, <4>2
      <3> QED
        BY <3>1
    <2> QED
      BY <2>2 DEF IsFlatten
  <1>2. IsFlatten(f, s)
    BY <1>1
  <1>3. FlattenSeq(s) = f[Len(s)]
    BY DEF FlattenSeq, IsFlatten
  <1>4. Partial(f, s, Len(s))
    <2> HIDE DEF f
    <2> QED
      BY <1>2 DEF IsFlatten, Partial
  <1> QED
    BY <1>3, <1>4

LEMMA FlattenEmpty ==
  ASSUME NEW s, Len(s) = 0
  PROVE  FlattenSeq(s) = s
  BY DEF FlattenSeq

(* Sequences that only differ in length have the same partial results. *)
Agree(s, t, n) == \A i \in 1..n : s[i] = t[i]

LEMMA PartialAgree ==
  ASSUME NEW s, NEW t, NEW m \in Nat, NEW n \in Nat, n <= m, Agree(s, t, n),
         NEW f, Partial(f, s, n), NEW g, Partial(g, t, m)
  PROVE  Agree(f, g, n)
  <1> DEFINE T == {i \in 1..n : f[i] # g[i]}
  <1>1. SUFFICES ASSUME T # {} PROVE FALSE
    BY DEF Agree
  <1>2. PICK i \in T : \A y \in T : i <= y
    <2>1. T \in SUBSET Nat
      OBVIOUS
    <2> HIDE DEF T
    <2> QED
      BY <1>1, <2>1, LeastNatural
  <1>3. i \in 1..n /\ i \in 1..m /\ f[i] # g[i] /\ s[i] = t[i]
    BY <1>2 DEF Agree
  <1>4. /\ f[i] = IF i = 1 THEN s[i] ELSE f[i - 1] \o s[i]
        /\ g[i] = IF i = 1 THEN t[i] ELSE g[i - 1] \o t[i]
    BY <1>3 DEF Partial
  <1>5. i # 1 => f[i - 1] = g[i - 1]
    BY <1>2, <1>3
  <1> QED
    BY <1>3, <1>4, <1>5

LEMMA PartialType ==
  ASSUME NEW X, NEW s \in Seq(Seq(X)), NEW n \in 0..Len(s), NEW f, Partial(f, s, n)
  PROVE  \A i \in 1..n : f[i] \in Seq(X)
  <1> DEFINE T == {i \in 1..n : f[i] \notin Seq(X)}
  <1>1. SUFFICES ASSUME T # {} PROVE FALSE
    OBVIOUS
  <1>2. PICK i \in T : \A y \in T : i <= y
    <2>1. T \in SUBSET Nat
      OBVIOUS
    <2> HIDE DEF T
    <2> QED
      BY <1>1, <2>1, LeastNatural
  <1>3. i \in 1..n /\ f[i] \notin Seq(X) /\ s[i] \in Seq(X)
    BY <1>2
  <1>4. f[i] = IF i = 1 THEN s[i] ELSE f[i - 1] \o s[i]
    BY <1>3 DEF Partial
  <1>5. i # 1 => f[i - 1] \in Seq(X)
    BY <1>2, <1>3
  <1> QED
    BY <1>3, <1>4, <1>5

LEMMA FlattenType ==
  ASSUME NEW X, NEW s \in Seq(Seq(X))
  PROVE  FlattenSeq(s) \in Seq(X)
  <1>1. CASE Len(s) = 0
    <2>1. s = <<>>
      BY <1>1
    <2>2. FlattenSeq(s) = s
      BY <1>1, FlattenEmpty
    <2>3. <<>> \in Seq(X)
      OBVIOUS
    <2> QED
      BY <2>1, <2>2, <2>3
  <1>2. CASE Len(s) # 0
    <2>1. Len(s) \in Nat \ {0}
      BY <1>2
    <2>2. PICK f : Partial(f, s, Len(s)) /\ FlattenSeq(s) = f[Len(s)]
      BY <2>1, FlattenIs
    <2>3. \A i \in 1..Len(s) : f[i] \in Seq(X)
      BY <2>1, <2>2, PartialType
    <2> QED
      BY <2>1, <2>2, <2>3
  <1> QED
    BY <1>1, <1>2

LEMMA FlattenAppend ==
  ASSUME NEW X, NEW s \in Seq(Seq(X)), NEW x \in Seq(X)
  PROVE  FlattenSeq(Append(s, x)) = FlattenSeq(s) \o x
  <1> DEFINE t == Append(s, x)
  <1>1. /\ t \in Seq(Seq(X)) /\ Len(t) = Len(s) + 1 /\ Len(s) \in Nat
        /\ \A i \in 1..Len(s) : s[i] = t[i]
        /\ t[Len(s) + 1] = x
    OBVIOUS
  <1> HIDE DEF t
  <1>2. PICK g : Partial(g, t, Len(t)) /\ FlattenSeq(t) = g[Len(t)]
    <2>1. Len(t) \in Nat \ {0}
      BY <1>1
    <2>2. \E g : Partial(g, t, Len(t)) /\ FlattenSeq(t) = g[Len(t)]
      BY <2>1, FlattenIs
    <2> QED
      BY <2>2, Zenon
  <1>3. CASE Len(s) = 0
    <2>1. s = <<>> /\ FlattenSeq(s) = s
      BY <1>3, FlattenEmpty
    <2>2. g[1] = x
      BY <1>1, <1>2, <1>3 DEF Partial
    <2>3. <<>> \o x = x
      OBVIOUS
    <2> QED
      BY <1>1, <1>2, <1>3, <2>1, <2>2, <2>3 DEF t
  <1>4. CASE Len(s) # 0
    <2>1. PICK f : Partial(f, s, Len(s)) /\ FlattenSeq(s) = f[Len(s)]
      BY <1>1, <1>4, FlattenIs
    <2>2. \A i \in 1..Len(s) : f[i] = g[i]
      <3>1. PICK m \in Nat, n \in Nat : n = Len(s) /\ m = Len(t)
        BY <1>1
      <3>2. n <= m /\ Agree(s, t, n) /\ Partial(f, s, n) /\ Partial(g, t, m)
        BY <1>1, <1>2, <2>1, <3>1 DEF Agree
      <3>3. Agree(f, g, n)
        BY <3>2, PartialAgree
      <3> QED
        BY <3>1, <3>3 DEF Agree
    <2>3. g[Len(t)] = g[Len(s)] \o x
      <3>1. Len(t) \in 1..Len(t) /\ Len(t) # 1 /\ Len(t) - 1 = Len(s) /\ t[Len(t)] = x
        BY <1>1, <1>4
      <3> QED
        BY <1>2, <3>1 DEF Partial
    <2>4. f[Len(s)] = g[Len(s)]
      BY <1>1, <1>4, <2>2
    <2> QED
      BY <1>2, <2>1, <2>3, <2>4 DEF t
  <1> QED
    BY <1>3, <1>4

Assoc(a, c, g) == (a \o c) \o g = a \o (c \o g)

LEMMA AssocIs ==
  ASSUME NEW X, NEW a \in Seq(X), NEW c \in Seq(X), NEW g \in Seq(X)
  PROVE  Assoc(a, c, g)
  BY DEF Assoc

AddsOne(a, b, x) == a \o Append(b, x) = Append(a \o b, x)

LEMMA CatAppend ==
  ASSUME NEW X, NEW a \in Seq(X), NEW b \in Seq(X), NEW x \in X
  PROVE  AddsOne(a, b, x)
  BY DEF AddsOne

LEMMA FourIn ==
  ASSUME NEW X, NEW w \in X, NEW x \in X, NEW y \in X, NEW z \in X
  PROVE  <<w, x, y, z>> \in Seq(X)
  OBVIOUS

LEMMA FlattenCat ==
  ASSUME NEW X, NEW s \in Seq(Seq(X)), NEW t \in Seq(Seq(X))
  PROVE  FlattenSeq(s \o t) = FlattenSeq(s) \o FlattenSeq(t)
  <1> DEFINE P(n) == SubSeq(t, 1, n)
             T == {n \in 0..Len(t) : FlattenSeq(s \o P(n)) # FlattenSeq(s) \o FlattenSeq(P(n))}
  <1>1. FlattenSeq(s) \in Seq(X)
    BY FlattenType
  <1>2. \A n \in 0..Len(t) : P(n) \in Seq(Seq(X)) /\ Len(P(n)) = n
    OBVIOUS
  <1>3. ASSUME T # {} PROVE FALSE
    <2>1. PICK n \in T : \A y \in T : n <= y
      <3>1. T \in SUBSET Nat
        OBVIOUS
      <3> HIDE DEF T
      <3> QED
        BY <1>3, <3>1, LeastNatural
    <2>2. n \in 0..Len(t) /\ FlattenSeq(s \o P(n)) # FlattenSeq(s) \o FlattenSeq(P(n))
      BY <2>1
    <2>3. CASE n = 0
      <3>1. P(n) = <<>> /\ s \o <<>> = s /\ FlattenSeq(s) \o <<>> = FlattenSeq(s)
        BY <1>1, <1>2, <2>2, <2>3
      <3>2. FlattenSeq(<<>>) = <<>>
        BY FlattenEmpty
      <3> QED
        BY <2>2, <3>1, <3>2
    <2>4. CASE n # 0
      <3> DEFINE m == n - 1
      <3>1. m \in 0..Len(t) /\ m \notin T /\ n \in 1..Len(t) /\ t[n] \in Seq(X)
        <4>1. m \in 0..Len(t) /\ n \in 1..Len(t) /\ ~(n <= m)
          BY <2>2, <2>4
        <4> HIDE DEF T, m
        <4>2. m \notin T
          BY <2>1, <4>1
        <4> QED
          BY <4>1, <4>2
      <3>2. P(n) = Append(P(m), t[n])
        BY <3>1
      <3>3. FlattenSeq(s \o P(m)) = FlattenSeq(s) \o FlattenSeq(P(m))
        BY <3>1 DEF T
      <3>4. P(m) \in Seq(Seq(X)) /\ s \o P(m) \in Seq(Seq(X))
        BY <1>2, <3>1
      <3> HIDE DEF P, m, T
      <3>5. s \o P(n) = Append(s \o P(m), t[n])
        <4>1. PICK b \in Seq(Seq(X)), x \in Seq(X) : b = P(m) /\ x = t[n]
          BY <3>1, <3>4
        <4>2. AddsOne(s, b, x)
          BY CatAppend
        <4>3. s \o Append(b, x) = Append(s \o b, x)
          BY <4>2 DEF AddsOne
        <4> QED
          BY <3>2, <4>1, <4>3
      <3>6. /\ FlattenSeq(s \o P(n)) = FlattenSeq(s \o P(m)) \o t[n]
            /\ FlattenSeq(P(n)) = FlattenSeq(P(m)) \o t[n]
        BY <3>1, <3>2, <3>4, <3>5, FlattenAppend
      <3>7. FlattenSeq(P(m)) \in Seq(X)
        BY <3>4, FlattenType
      <3> QED
        <4>1. PICK a \in Seq(X), b \in Seq(X), c \in Seq(X) :
                a = FlattenSeq(s) /\ b = FlattenSeq(P(m)) /\ c = t[n]
          BY <1>1, <3>1, <3>7
        <4>2. Assoc(a, b, c)
          BY AssocIs
        <4>3. (a \o b) \o c = a \o (b \o c)
          BY <4>2 DEF Assoc
        <4> QED
          BY <2>2, <3>3, <3>6, <4>1, <4>3
    <2> QED
      BY <2>3, <2>4
  <1>4. Len(t) \in 0..Len(t) /\ P(Len(t)) = t
    OBVIOUS
  <1> QED
    BY <1>3, <1>4

-----------------------------------------------------------------------------
(* What the keys send. *)
Value ==
  {"esc", "[", "A", "1:5", "O", "P", "15", "~", "M", "<0:1:1", "cr", "^a", "^q", "x", "C3", "A9",
   "200", "201", "lf", "bs", "del", "fs", "1", "H", "|"} \cup Keys \cup ToSet(PasteText)

Named ==
  {"Escape", "Enter", "Up", "CtrlUp", "F1", "F5", "Focus", "Press", "Paste", "leader", "CtrlQ",
   "Alt", "accent", "LineFeed", "CtrlH", "HomeTilde", "Backspace", "CtrlBar"}

LEMMA SendsOf ==
  /\ DOMAIN Sends = {"Escape", "Enter", "Up", "CtrlUp", "F1", "F5", "Focus", "Press", "Paste",
                     "LineFeed", "CtrlH", "HomeTilde"}
  /\ Sends["LineFeed"] = <<"lf">> /\ Sends["CtrlH"] = <<"bs">>
  /\ Sends["HomeTilde"] = <<"esc", "[", "1", "~">>
  /\ Sends["Escape"] = <<"esc">> /\ Sends["Enter"] = <<"cr">>
  /\ Sends["Up"] = <<"esc", "[", "A">> /\ Sends["CtrlUp"] = <<"esc", "[", "1:5", "A">>
  /\ Sends["F1"] = <<"esc", "O", "P">> /\ Sends["F5"] = <<"esc", "[", "15", "~">>
  /\ Sends["Focus"] = <<"esc", "[", "O">> /\ Sends["Press"] = <<"esc", "[", "<0:1:1", "M">>
  /\ Sends["Paste"] = PasteStart \o PasteText \o PasteEnd
  BY DEF Sends

LEMMA ControlOf ==
  /\ DOMAIN Control = {"leader", "CtrlQ", "Backspace", "CtrlBar"}
  /\ Control["Backspace"] = "del" /\ Control["CtrlBar"] = "fs"
  /\ Control["leader"] = "^a" /\ Control["CtrlQ"] = "^q"
  BY DEF Control

LEMMA BytesOfNamed ==
  /\ Bytes("Escape") = <<"esc">> /\ Bytes("Enter") = <<"cr">>
  /\ Bytes("Up") = <<"esc", "[", "A">> /\ Bytes("CtrlUp") = <<"esc", "[", "1:5", "A">>
  /\ Bytes("F1") = <<"esc", "O", "P">> /\ Bytes("F5") = <<"esc", "[", "15", "~">>
  /\ Bytes("Focus") = <<"esc", "[", "O">> /\ Bytes("Press") = <<"esc", "[", "<0:1:1", "M">>
  /\ Bytes("Paste") = PasteStart \o PasteText \o PasteEnd
  /\ Bytes("leader") = <<"^a">> /\ Bytes("CtrlQ") = <<"^q">>
  /\ Bytes("Alt") = <<"esc", "x">> /\ Bytes("accent") = <<"C3", "A9">>
  /\ Bytes("LineFeed") = <<"lf">> /\ Bytes("CtrlH") = <<"bs">>
  /\ Bytes("HomeTilde") = <<"esc", "[", "1", "~">>
  /\ Bytes("Backspace") = <<"del">> /\ Bytes("CtrlBar") = <<"fs">>
  BY SendsOf, ControlOf DEF Bytes

LEMMA BytesOfCharacter ==
  ASSUME NEW k, k \notin Named
  PROVE  Bytes(k) = <<k>>
  BY SendsOf, ControlOf DEF Bytes, Named

LEMMA TextIsSeq == PasteText \in Seq(Value)
  <1>1. PICK n \in Nat : Len(PasteText) = n /\ PasteText = [i \in 1..n |-> PasteText[i]]
    BY InputParserAssumption
  <1>2. \A i \in 1..n : PasteText[i] \in ToSet(PasteText)
    BY <1>1 DEF ToSet
  <1>3. \A i \in 1..n : PasteText[i] \in Value
    BY <1>2 DEF Value
  <1>4. [i \in 1..n |-> PasteText[i]] \in [1..n -> Value]
    BY <1>3
  <1> QED
    BY <1>1, <1>4

(* The bytes of a paste: the text is between its marks. *)
TextLen == Len(PasteText)

LEMMA BytesOfPaste ==
  /\ TextLen \in Nat
  /\ Bytes("Paste") \in Seq(Value) /\ Len(Bytes("Paste")) = TextLen + 8
  /\ Bytes("Paste")[1] = "esc" /\ Bytes("Paste")[2] = "["
  /\ Bytes("Paste")[3] = "200" /\ Bytes("Paste")[4] = "~"
  /\ \A i \in 1..TextLen : Bytes("Paste")[i + 4] = PasteText[i]
  /\ Bytes("Paste")[TextLen + 5] = "esc" /\ Bytes("Paste")[TextLen + 6] = "["
  /\ Bytes("Paste")[TextLen + 7] = "201" /\ Bytes("Paste")[TextLen + 8] = "~"
  <1>1. PasteText \in Seq(Value) /\ TextLen \in Nat /\ TextLen = Len(PasteText)
    BY TextIsSeq DEF TextLen
  <1> DEFINE a == PasteStart
             c == PasteEnd
  <1>2. /\ a \in Seq(Value) /\ c \in Seq(Value) /\ Len(a) = 4 /\ Len(c) = 4
        /\ a[1] = "esc" /\ a[2] = "[" /\ a[3] = "200" /\ a[4] = "~"
        /\ c[1] = "esc" /\ c[2] = "[" /\ c[3] = "201" /\ c[4] = "~"
    <2>1. a \in Seq(Value) /\ c \in Seq(Value)
      <3>1. /\ "esc" \in Value /\ "[" \in Value /\ "~" \in Value
            /\ "200" \in Value /\ "201" \in Value
        BY DEF Value
      <3>2. <<"esc", "[", "200", "~">> \in Seq(Value) /\ <<"esc", "[", "201", "~">> \in Seq(Value)
        BY <3>1, FourIn
      <3> QED
        BY <3>2 DEF PasteStart, PasteEnd
    <2>2. Len(a) = 4 /\ Len(c) = 4
      BY DEF PasteStart, PasteEnd
    <2>3. a[1] = "esc" /\ a[2] = "[" /\ a[3] = "200" /\ a[4] = "~"
      BY DEF PasteStart
    <2>4. c[1] = "esc" /\ c[2] = "[" /\ c[3] = "201" /\ c[4] = "~"
      BY DEF PasteEnd
    <2> QED
      BY <2>1, <2>2, <2>3, <2>4
  <1> HIDE DEF a, c
  <1> DEFINE ab == a \o PasteText
  <1>3. /\ ab \in Seq(Value) /\ Len(ab) = TextLen + 4
        /\ \A i \in 1..4 : ab[i] = a[i]
        /\ \A i \in 1..TextLen : ab[i + 4] = PasteText[i]
    <2>1. /\ ab \in Seq(Value) /\ Len(ab) = Len(a) + Len(PasteText)
          /\ \A i \in 1..Len(a) : ab[i] = a[i]
          /\ \A i \in 1..Len(PasteText) : ab[Len(a) + i] = PasteText[i]
      <3>1. IsCat(ab, a, PasteText, Value)
        BY <1>1, <1>2, CatIs
      <3> HIDE DEF ab
      <3> QED
        BY <3>1 DEF IsCat
    <2> HIDE DEF ab
    <2>2. \A i \in 1..TextLen : 4 + i = i + 4
      BY <1>1
    <2> QED
      BY <1>1, <1>2, <2>1, <2>2
  <1> HIDE DEF ab
  <1> DEFINE abc == ab \o c
  <1>4. /\ abc \in Seq(Value) /\ Len(abc) = TextLen + 8
        /\ \A i \in 1..(TextLen + 4) : abc[i] = ab[i]
        /\ \A i \in 1..4 : abc[TextLen + 4 + i] = c[i]
    <2>1. /\ abc \in Seq(Value) /\ Len(abc) = Len(ab) + Len(c)
          /\ \A i \in 1..Len(ab) : abc[i] = ab[i]
          /\ \A i \in 1..Len(c) : abc[Len(ab) + i] = c[i]
      <3>1. IsCat(abc, ab, c, Value)
        BY <1>2, <1>3, CatIs
      <3> HIDE DEF abc
      <3> QED
        BY <3>1 DEF IsCat
    <2> HIDE DEF abc
    <2> QED
      BY <1>1, <1>2, <1>3, <2>1
  <1>5. Bytes("Paste") = abc
    BY BytesOfNamed DEF ab, a, c
  <1> HIDE DEF abc
  <1>6. /\ abc[1] = "esc" /\ abc[2] = "[" /\ abc[3] = "200" /\ abc[4] = "~"
    BY <1>1, <1>2, <1>3, <1>4
  <1>7. \A i \in 1..TextLen : abc[i + 4] = PasteText[i]
    BY <1>1, <1>3, <1>4
  <1>8. /\ abc[TextLen + 4 + 1] = c[1] /\ abc[TextLen + 4 + 2] = c[2]
        /\ abc[TextLen + 4 + 3] = c[3] /\ abc[TextLen + 4 + 4] = c[4]
    BY <1>4
  <1>9. /\ abc[TextLen + 5] = "esc" /\ abc[TextLen + 6] = "["
        /\ abc[TextLen + 7] = "201" /\ abc[TextLen + 8] = "~"
    BY <1>1, <1>2, <1>8
  <1> QED
    BY <1>1, <1>4, <1>5, <1>6, <1>7, <1>9

LEMMA TextIsPlain ==
  ASSUME NEW i \in 1..TextLen
  PROVE  PasteText[i] \in Value \ {"esc", "header"}
  <1>1. PasteText \in Seq(Value) /\ i \in DOMAIN PasteText
    BY TextIsSeq DEF TextLen
  <1>2. PasteText[i] \in ToSet(PasteText)
    BY <1>1 DEF ToSet
  <1>3. PasteText[i] \notin {"esc", "header"}
    BY <1>2, InputParserAssumption
  <1> QED
    BY <1>1, <1>3

LEMMA ByteTable ==
  /\ Len(Bytes("Escape")) = 1 /\ Bytes("Escape")[1] = "esc"
  /\ Len(Bytes("Enter")) = 1 /\ Bytes("Enter")[1] = "cr"
  /\ Len(Bytes("leader")) = 1 /\ Bytes("leader")[1] = "^a"
  /\ Len(Bytes("CtrlQ")) = 1 /\ Bytes("CtrlQ")[1] = "^q"
  /\ Len(Bytes("Alt")) = 2 /\ Bytes("Alt")[1] = "esc" /\ Bytes("Alt")[2] = "x"
  /\ Len(Bytes("accent")) = 2 /\ Bytes("accent")[1] = "C3" /\ Bytes("accent")[2] = "A9"
  /\ Len(Bytes("Up")) = 3 /\ Bytes("Up")[1] = "esc" /\ Bytes("Up")[2] = "["
     /\ Bytes("Up")[3] = "A"
  /\ Len(Bytes("F1")) = 3 /\ Bytes("F1")[1] = "esc" /\ Bytes("F1")[2] = "O"
     /\ Bytes("F1")[3] = "P"
  /\ Len(Bytes("Focus")) = 3 /\ Bytes("Focus")[1] = "esc" /\ Bytes("Focus")[2] = "["
     /\ Bytes("Focus")[3] = "O"
  /\ Len(Bytes("CtrlUp")) = 4 /\ Bytes("CtrlUp")[1] = "esc" /\ Bytes("CtrlUp")[2] = "["
     /\ Bytes("CtrlUp")[3] = "1:5" /\ Bytes("CtrlUp")[4] = "A"
  /\ Len(Bytes("F5")) = 4 /\ Bytes("F5")[1] = "esc" /\ Bytes("F5")[2] = "["
     /\ Bytes("F5")[3] = "15" /\ Bytes("F5")[4] = "~"
  /\ Len(Bytes("Press")) = 4 /\ Bytes("Press")[1] = "esc" /\ Bytes("Press")[2] = "["
     /\ Bytes("Press")[3] = "<0:1:1" /\ Bytes("Press")[4] = "M"
  /\ Len(Bytes("HomeTilde")) = 4 /\ Bytes("HomeTilde")[1] = "esc" /\ Bytes("HomeTilde")[2] = "["
     /\ Bytes("HomeTilde")[3] = "1" /\ Bytes("HomeTilde")[4] = "~"
  /\ Len(Bytes("LineFeed")) = 1 /\ Bytes("LineFeed")[1] = "lf"
  /\ Len(Bytes("CtrlH")) = 1 /\ Bytes("CtrlH")[1] = "bs"
  /\ Len(Bytes("Backspace")) = 1 /\ Bytes("Backspace")[1] = "del"
  /\ Len(Bytes("CtrlBar")) = 1 /\ Bytes("CtrlBar")[1] = "fs"
  <1>1. Len(Bytes("Escape")) = 1 /\ Bytes("Escape")[1] = "esc"
    <2>1. Bytes("Escape") = <<"esc">>
      BY BytesOfNamed
    <2> QED
      BY <2>1
  <1>2. Len(Bytes("Enter")) = 1 /\ Bytes("Enter")[1] = "cr"
    <2>1. Bytes("Enter") = <<"cr">>
      BY BytesOfNamed
    <2> QED
      BY <2>1
  <1>3. Len(Bytes("leader")) = 1 /\ Bytes("leader")[1] = "^a"
    <2>1. Bytes("leader") = <<"^a">>
      BY BytesOfNamed
    <2> QED
      BY <2>1
  <1>4. Len(Bytes("CtrlQ")) = 1 /\ Bytes("CtrlQ")[1] = "^q"
    <2>1. Bytes("CtrlQ") = <<"^q">>
      BY BytesOfNamed
    <2> QED
      BY <2>1
  <1>5. Len(Bytes("Alt")) = 2 /\ Bytes("Alt")[1] = "esc" /\ Bytes("Alt")[2] = "x"
    <2>1. Bytes("Alt") = <<"esc", "x">>
      BY BytesOfNamed
    <2> QED
      BY <2>1
  <1>6. Len(Bytes("accent")) = 2 /\ Bytes("accent")[1] = "C3" /\ Bytes("accent")[2] = "A9"
    <2>1. Bytes("accent") = <<"C3", "A9">>
      BY BytesOfNamed
    <2> QED
      BY <2>1
  <1>7. Len(Bytes("Up")) = 3 /\ Bytes("Up")[1] = "esc" /\ Bytes("Up")[2] = "["
        /\ Bytes("Up")[3] = "A"
    <2>1. Bytes("Up") = <<"esc", "[", "A">>
      BY BytesOfNamed
    <2> QED
      BY <2>1
  <1>8. Len(Bytes("F1")) = 3 /\ Bytes("F1")[1] = "esc" /\ Bytes("F1")[2] = "O"
        /\ Bytes("F1")[3] = "P"
    <2>1. Bytes("F1") = <<"esc", "O", "P">>
      BY BytesOfNamed
    <2> QED
      BY <2>1
  <1>9. Len(Bytes("Focus")) = 3 /\ Bytes("Focus")[1] = "esc" /\ Bytes("Focus")[2] = "["
        /\ Bytes("Focus")[3] = "O"
    <2>1. Bytes("Focus") = <<"esc", "[", "O">>
      BY BytesOfNamed
    <2> QED
      BY <2>1
  <1>10. Len(Bytes("CtrlUp")) = 4 /\ Bytes("CtrlUp")[1] = "esc" /\ Bytes("CtrlUp")[2] = "["
        /\ Bytes("CtrlUp")[3] = "1:5" /\ Bytes("CtrlUp")[4] = "A"
    <2>1. Bytes("CtrlUp") = <<"esc", "[", "1:5", "A">>
      BY BytesOfNamed
    <2> QED
      BY <2>1
  <1>11. Len(Bytes("F5")) = 4 /\ Bytes("F5")[1] = "esc" /\ Bytes("F5")[2] = "["
        /\ Bytes("F5")[3] = "15" /\ Bytes("F5")[4] = "~"
    <2>1. Bytes("F5") = <<"esc", "[", "15", "~">>
      BY BytesOfNamed
    <2> QED
      BY <2>1
  <1>12. Len(Bytes("Press")) = 4 /\ Bytes("Press")[1] = "esc" /\ Bytes("Press")[2] = "["
        /\ Bytes("Press")[3] = "<0:1:1" /\ Bytes("Press")[4] = "M"
    <2>1. Bytes("Press") = <<"esc", "[", "<0:1:1", "M">>
      BY BytesOfNamed
    <2> QED
      BY <2>1
  <1>13. Len(Bytes("LineFeed")) = 1 /\ Bytes("LineFeed")[1] = "lf"
    <2>1. Bytes("LineFeed") = <<"lf">>
      BY BytesOfNamed
    <2> QED
      BY <2>1
  <1>14. Len(Bytes("CtrlH")) = 1 /\ Bytes("CtrlH")[1] = "bs"
    <2>1. Bytes("CtrlH") = <<"bs">>
      BY BytesOfNamed
    <2> QED
      BY <2>1
  <1>15. Len(Bytes("Backspace")) = 1 /\ Bytes("Backspace")[1] = "del"
    <2>1. Bytes("Backspace") = <<"del">>
      BY BytesOfNamed
    <2> QED
      BY <2>1
  <1>16. Len(Bytes("CtrlBar")) = 1 /\ Bytes("CtrlBar")[1] = "fs"
    <2>1. Bytes("CtrlBar") = <<"fs">>
      BY BytesOfNamed
    <2> QED
      BY <2>1
  <1>17. Len(Bytes("HomeTilde")) = 4 /\ Bytes("HomeTilde")[1] = "esc" /\ Bytes("HomeTilde")[2] = "["
        /\ Bytes("HomeTilde")[3] = "1" /\ Bytes("HomeTilde")[4] = "~"
    <2>1. Bytes("HomeTilde") = <<"esc", "[", "1", "~">>
      BY BytesOfNamed
    <2> QED
      BY <2>1
  <1> QED
    BY <1>1, <1>2, <1>3, <1>4, <1>5, <1>6, <1>7, <1>8, <1>9, <1>10, <1>11, <1>12, <1>13, <1>14,
       <1>15, <1>16, <1>17

(* Every key sends something, and no byte of it looks like a header. *)
Sound(k) ==
  /\ Len(Bytes(k)) \in Nat \ {0}
  /\ \A i \in 1..Len(Bytes(k)) : Bytes(k)[i] \in Value \ {"header"}

LEMMA KeysAreSound ==
  ASSUME NEW k \in Keys
  PROVE  Sound(k)
  <1>1. CASE k = "Paste"
    <2>1. \A i \in 1..TextLen : PasteText[i] \in Value /\ PasteText[i] # "header"
      BY TextIsPlain
    <2>2. \A i \in 1..(TextLen + 8) : Bytes("Paste")[i] \in Value
      BY BytesOfPaste
    <2>3. \A i \in 1..(TextLen + 8) : Bytes("Paste")[i] # "header"
      <3> SUFFICES ASSUME NEW i \in 1..(TextLen + 8) PROVE Bytes("Paste")[i] # "header"
        OBVIOUS
      <3>1. CASE i \in {1, 2, 3, 4}
        BY <3>1, BytesOfPaste
      <3>2. CASE i \in {TextLen + 5, TextLen + 6, TextLen + 7, TextLen + 8}
        BY <3>2, BytesOfPaste
      <3>3. CASE i - 4 \in 1..TextLen
        <4>1. Bytes("Paste")[(i - 4) + 4] = PasteText[i - 4] /\ (i - 4) + 4 = i
          BY <3>3, BytesOfPaste
        <4> QED
          BY <2>1, <3>3, <4>1
      <3>4. i \in {1, 2, 3, 4} \/ i \in {TextLen + 5, TextLen + 6, TextLen + 7, TextLen + 8}
            \/ i - 4 \in 1..TextLen
        BY BytesOfPaste
      <3> QED
        BY <3>1, <3>2, <3>3, <3>4
    <2>4. Len(Bytes("Paste")) = TextLen + 8 /\ TextLen \in Nat
      BY BytesOfPaste
    <2>5. Len(Bytes("Paste")) \in Nat \ {0}
      BY <2>4
    <2> QED
      BY <1>1, <2>2, <2>3, <2>4, <2>5 DEF Sound
  <1>2. CASE k \notin Named
    <2>1. k \in Value /\ k # "header"
      BY KeyboardAssumption DEF Value
    <2>2. Bytes(k) = <<k>>
      BY <1>2, BytesOfCharacter
    <2> QED
      BY <2>1, <2>2 DEF Sound
  <1>3. CASE k \in {"Escape", "Enter", "leader", "CtrlQ", "LineFeed", "CtrlH", "Backspace", "CtrlBar"}
    <2>1. Len(Bytes(k)) = 1 /\ Bytes(k)[1] \in {"esc", "cr", "^a", "^q", "lf", "bs", "del", "fs"}
      BY <1>3, ByteTable
    <2>2. \A i \in 1..1 : i = 1
      OBVIOUS
    <2>3. {"esc", "cr", "^a", "^q", "lf", "bs", "del", "fs"} \subseteq Value \ {"header"}
      BY DEF Value
    <2> QED
      BY <2>1, <2>2, <2>3 DEF Sound
  <1>4. CASE k \in {"Alt", "accent"}
    <2>1. Len(Bytes(k)) = 2 /\ Bytes(k)[1] \in {"esc", "C3"} /\ Bytes(k)[2] \in {"x", "A9"}
      BY <1>4, ByteTable
    <2>2. \A i \in 1..2 : i = 1 \/ i = 2
      OBVIOUS
    <2>3. {"esc", "x", "C3", "A9"} \subseteq Value \ {"header"}
      BY DEF Value
    <2> QED
      BY <2>1, <2>2, <2>3 DEF Sound
  <1>5. CASE k \in {"Up", "F1", "Focus"}
    <2>1. Len(Bytes(k)) = 3 /\ Bytes(k)[1] = "esc" /\ Bytes(k)[2] \in {"[", "O"}
          /\ Bytes(k)[3] \in {"A", "P", "O"}
      BY <1>5, ByteTable
    <2>2. \A i \in 1..3 : i = 1 \/ i = 2 \/ i = 3
      OBVIOUS
    <2>3. {"esc", "[", "O", "A", "P"} \subseteq Value \ {"header"}
      BY DEF Value
    <2> QED
      BY <2>1, <2>2, <2>3 DEF Sound
  <1>6. CASE k \in {"CtrlUp", "F5", "Press", "HomeTilde"}
    <2>1. Len(Bytes(k)) = 4 /\ Bytes(k)[1] = "esc" /\ Bytes(k)[2] = "["
          /\ Bytes(k)[3] \in {"1:5", "15", "<0:1:1", "1"} /\ Bytes(k)[4] \in {"A", "~", "M"}
      BY <1>6, ByteTable
    <2>2. \A i \in 1..4 : i = 1 \/ i = 2 \/ i = 3 \/ i = 4
      OBVIOUS
    <2>3. {"esc", "[", "1:5", "15", "<0:1:1", "1", "A", "~", "M"} \subseteq Value \ {"header"}
      BY DEF Value
    <2> QED
      BY <2>1, <2>2, <2>3 DEF Sound
  <1> QED
    BY <1>1, <1>2, <1>3, <1>4, <1>5, <1>6 DEF Named

-----------------------------------------------------------------------------
(* What is on its way: byte after byte of key after key, the last of them   *)
(* whole.                                                                   *)
Byte == [b : Value \cup {"header"}, k : Keys \cup {"Input"}, i : Nat]

OfKey(x) ==
  /\ x.k \in Keys /\ x.i \in 1..Len(Bytes(x.k)) /\ x.b = Bytes(x.k)[x.i]

Follows(x, y) ==
  IF x.i < Len(Bytes(x.k)) THEN y.k = x.k /\ y.i = x.i + 1 ELSE y.i = 1

Chain(F) ==
  /\ F \in Seq(Byte)
  /\ \A j \in 1..Len(F) : OfKey(F[j])
  /\ \A j \in 1..Len(F) : j + 1 \in 1..Len(F) => Follows(F[j], F[j + 1])
  /\ Len(F) > 0 => F[Len(F)].i = Len(Bytes(F[Len(F)].k))

Cut(F, n) == SubSeq(F, n + 1, Len(F))

LEMMA CutIs ==
  ASSUME NEW X, NEW F \in Seq(X), NEW n \in 0..Len(F)
  PROVE  /\ Cut(F, n) \in Seq(X) /\ Len(Cut(F, n)) = Len(F) - n
         /\ \A j \in 1..(Len(F) - n) : Cut(F, n)[j] = F[n + j]
  BY DEF Cut

LEMMA ChainCut ==
  ASSUME NEW F, Chain(F), NEW n \in 0..Len(F)
  PROVE  Chain(Cut(F, n))
  <1>1. F \in Seq(Byte) /\ Len(F) \in Nat
    BY DEF Chain
  <1> DEFINE G == Cut(F, n)
  <1>2. /\ G \in Seq(Byte) /\ Len(G) = Len(F) - n
        /\ \A j \in 1..(Len(F) - n) : G[j] = F[n + j]
    BY <1>1, CutIs
  <1> HIDE DEF G
  <1>3. \A j \in 1..Len(G) : OfKey(G[j])
    <2>1. \A j \in 1..Len(G) : n + j \in 1..Len(F)
      BY <1>1, <1>2
    <2> QED
      BY <1>2, <2>1 DEF Chain
  <1>4. \A j \in 1..Len(G) : j + 1 \in 1..Len(G) => Follows(G[j], G[j + 1])
    <2> SUFFICES ASSUME NEW j \in 1..Len(G), j + 1 \in 1..Len(G) PROVE Follows(G[j], G[j + 1])
      OBVIOUS
    <2>1. n + j \in 1..Len(F) /\ (n + j) + 1 \in 1..Len(F) /\ n + (j + 1) = (n + j) + 1
      BY <1>1, <1>2
    <2>2. Follows(F[n + j], F[(n + j) + 1])
      BY <2>1 DEF Chain
    <2>3. G[j] = F[n + j] /\ G[j + 1] = F[n + (j + 1)]
      BY <1>2
    <2> QED
      BY <2>1, <2>2, <2>3
  <1>5. Len(G) > 0 => G[Len(G)].i = Len(Bytes(G[Len(G)].k))
    <2> SUFFICES ASSUME Len(G) > 0 PROVE G[Len(G)].i = Len(Bytes(G[Len(G)].k))
      OBVIOUS
    <2>1. Len(G) \in 1..(Len(F) - n) /\ n + Len(G) = Len(F) /\ Len(F) > 0
      BY <1>1, <1>2
    <2>2. G[Len(G)] = F[Len(F)]
      BY <1>2, <2>1
    <2> QED
      BY <2>1, <2>2 DEF Chain
  <1>6. Chain(G)
    BY <1>2, <1>3, <1>4, <1>5 DEF Chain
  <1> QED
    BY <1>6 DEF G

(* Once a byte of a key is there, so is the rest of it. *)
LEMMA ChainAhead ==
  ASSUME NEW F, Chain(F), Len(F) > 0
  PROVE  \A n \in 0..(Len(Bytes(F[1].k)) - F[1].i) :
           n + 1 \in 1..Len(F) /\ F[n + 1].k = F[1].k /\ F[n + 1].i = F[1].i + n
                               /\ F[n + 1].b = Bytes(F[1].k)[F[1].i + n]
  <1> DEFINE last == Len(Bytes(F[1].k)) - F[1].i
             Good(n) == /\ n + 1 \in 1..Len(F) /\ F[n + 1].k = F[1].k
                        /\ F[n + 1].i = F[1].i + n
             T == {n \in 0..last : ~Good(n)}
  <1>1. F \in Seq(Byte) /\ Len(F) \in Nat /\ OfKey(F[1])
    BY DEF Chain
  <1>2. Sound(F[1].k) /\ F[1].i \in 1..Len(Bytes(F[1].k))
    BY <1>1, KeysAreSound DEF OfKey
  <1>3. last \in Nat /\ F[1].i \in Nat /\ Len(Bytes(F[1].k)) \in Nat
    BY <1>2 DEF Sound
  <1>4. T = {}
    <2> SUFFICES ASSUME T # {} PROVE FALSE
      OBVIOUS
    <2>1. T \in SUBSET Nat
      BY <1>3
    <2>2. PICK n \in T : \A y \in T : n <= y
      <3> HIDE DEF T
      <3> QED
        BY <2>1, LeastNatural
    <2>3. n \in 0..last /\ ~Good(n) /\ n \in Nat
      BY <1>3, <2>2
    <2>4. CASE n = 0
      BY <1>1, <1>3, <2>3, <2>4
    <2>5. CASE n # 0
      <3>1. n - 1 \in 0..last /\ n - 1 \notin T
        <4>1. n - 1 \in 0..last /\ ~(n <= n - 1)
          BY <1>3, <2>3, <2>5
        <4> HIDE DEF T
        <4> QED
          BY <2>2, <4>1
      <3>2. Good(n - 1)
        BY <3>1
      <3>3. n \in 1..Len(F) /\ F[n].k = F[1].k /\ F[n].i = F[1].i + (n - 1)
        BY <2>3, <3>2
      <3>4. F[n].i < Len(Bytes(F[n].k))
        BY <1>3, <2>3, <3>3
      <3>5. n + 1 \in 1..Len(F)
        <4>1. n # Len(F)
          BY <1>1, <1>3, <3>3, <3>4 DEF Chain
        <4> QED
          BY <1>1, <3>3, <4>1
      <3>6. Follows(F[n], F[n + 1])
        BY <3>3, <3>5 DEF Chain
      <3>7. F[n + 1].k = F[1].k /\ F[n + 1].i = F[1].i + n
        BY <1>3, <2>3, <3>3, <3>4, <3>6 DEF Follows
      <3> QED
        BY <2>3, <3>5, <3>7
    <2> QED
      BY <2>4, <2>5
  <1>5. \A n \in 0..last : Good(n)
    BY <1>4
  <1>6. \A n \in 0..last : F[n + 1].b = Bytes(F[1].k)[F[1].i + n]
    <2> SUFFICES ASSUME NEW n \in 0..last PROVE F[n + 1].b = Bytes(F[1].k)[F[1].i + n]
      OBVIOUS
    <2>1. n + 1 \in 1..Len(F) /\ F[n + 1].k = F[1].k /\ F[n + 1].i = F[1].i + n
      BY <1>5
    <2>2. OfKey(F[n + 1])
      BY <2>1 DEF Chain
    <2> QED
      BY <2>1, <2>2 DEF OfKey
  <1> QED
    BY <1>5, <1>6

-----------------------------------------------------------------------------
(* The parser, and the bytes it has before those that are still to come. *)
Parser ==
  [buf : Seq(Byte), in_paste : BOOLEAN, esc_pending : BOOLEAN, paste_scanned : Nat]

Ahead(p, F) ==
  Len(p.buf) <= Len(F) /\ \A j \in 1..Len(p.buf) : p.buf[j] = F[j]

TookIs(t, p, n, ev) ==
  /\ t.used = n /\ t.events = ev
  /\ t.parser \in Parser /\ t.parser.buf = Cut(p.buf, n)
  /\ t.parser.in_paste = p.in_paste /\ t.parser.esc_pending = FALSE
  /\ t.parser.paste_scanned = p.paste_scanned

LEMMA TookSpec ==
  ASSUME NEW p \in Parser, NEW n \in 0..Len(p.buf), NEW ev
  PROVE  TookIs(Took(p, n, ev), p, n, ev)
  <1> DEFINE rest == SubSeq(p.buf, n + 1, Len(p.buf))
             q    == [p EXCEPT !.buf = SubSeq(@, n + 1, Len(@)), !.esc_pending = FALSE]
  <1>1. p.buf \in Seq(Byte)
    BY DEF Parser
  <1>2. rest \in Seq(Byte)
    BY <1>1
  <1>3. q = [p EXCEPT !.buf = rest, !.esc_pending = FALSE]
    BY DEF Parser
  <1> HIDE DEF rest, q
  <1>4. /\ q \in Parser /\ q.buf = rest /\ q.in_paste = p.in_paste
        /\ q.esc_pending = FALSE /\ q.paste_scanned = p.paste_scanned
    BY <1>2, <1>3 DEF Parser
  <1>5. Took(p, n, ev) = [used |-> n, events |-> ev, parser |-> q]
    BY DEF Took, q
  <1>6. rest = Cut(p.buf, n)
    BY DEF rest, Cut
  <1> QED
    BY <1>4, <1>5, <1>6 DEF TookIs

LEMMA ValuesAre ==
  ASSUME NEW s \in Seq(Byte)
  PROVE  /\ Values(s) \in Seq(Value \cup {"header"}) /\ Len(Values(s)) = Len(s)
         /\ \A j \in 1..Len(s) : Values(s)[j] = s[j].b
  <1>1. PICK n \in Nat : n = Len(s) /\ DOMAIN s = 1..n
    OBVIOUS
  <1>2. \A j \in 1..n : s[j].b \in Value \cup {"header"}
    <2>1. \A j \in 1..n : s[j] \in Byte
      BY <1>1
    <2>2. \A x \in Byte : x.b \in Value \cup {"header"}
      BY DEF Byte
    <2> QED
      BY <2>1, <2>2
  <1>3. Values(s) = [j \in 1..n |-> s[j].b]
    BY <1>1 DEF Values
  <1> QED
    BY <1>1, <1>2, <1>3

-----------------------------------------------------------------------------
(* One step() of the parser, or timeout(), as an action of KeyStream: n     *)
(* bytes of F go, with the events ev.                                       *)
HeardKey(k) ==
  CASE k = "LineFeed"  -> "Enter"
    [] k = "CtrlH"     -> "Backspace"
    [] k = "HomeTilde" -> "Home"
    [] OTHER           -> k

LEMMA HeardKeyIs ==
  /\ HeardKey("LineFeed") = "Enter" /\ HeardKey("CtrlH") = "Backspace" /\ HeardKey("HomeTilde") = "Home"
  /\ \A k : k \notin {"LineFeed", "CtrlH", "HomeTilde"} => HeardKey(k) = k
  BY DEF HeardKey

Means(k) == IF k = "Alt" THEN AltChar("x") ELSE Event(HeardKey(k))

LEMMA MeansIs ==
  /\ Means("LineFeed") = Event("Enter") /\ Means("CtrlH") = Event("Backspace")
  /\ Means("HomeTilde") = Event("Home") /\ Means("Alt") = AltChar("x")
  /\ \A k : k \notin {"Alt", "LineFeed", "CtrlH", "HomeTilde"} => Means(k) = Event(k)
  BY HeardKeyIs DEF Means

Stays(F, in, n, ev, out) == n = 0 /\ ev = <<>> /\ out = in

TakesWhole(F, in, n, ev, out) ==
  /\ ~in /\ out = in /\ F[1].i = 1 /\ F[1].k \notin {"Paste", "Escape"}
  /\ ev = <<Means(F[1].k)>> /\ n = Len(Bytes(F[1].k))

HalfOfTwo(F) == F[1].b = "C3" /\ Len(F) > 1 /\ F[2].b = "A9"

TakesSpelled(F, in, n, ev, out) ==
  /\ ~in /\ out = in /\ F[1].i > 1 /\ F[1].b # "esc" /\ ~HalfOfTwo(F)
  /\ ev = <<CharEvent(F[1].b)>> /\ n = 1

TakesAccent(F, in, n, ev, out) ==
  /\ ~in /\ out = in /\ F[1].i > 1 /\ F[1].k = "Paste" /\ HalfOfTwo(F)
  /\ ev = <<Event("accent")>> /\ n = 2

TakesOrphan(F, in, n, ev, out) ==
  /\ ~in /\ out = in /\ F[1].k = "Paste" /\ F[1].i = TextLen + 5 /\ F[1].b = "esc"
  /\ ev = <<Event("Unknown")>> /\ n = 4

TakesMerged(F, in, n, ev, out) ==
  /\ ~in /\ out = in /\ F[1].k = "Escape" /\ Len(F) > 1 /\ n = 2
  /\ ev = IF Printable(F[2].b) THEN <<AltChar(F[2].b)>> ELSE <<>>

TakesOpening(F, in, n, ev, out) ==
  /\ ~in /\ out = TRUE /\ F[1].k = "Paste" /\ F[1].i = 1 /\ n = 4 /\ ev = <<>>

TakesSlice(F, in, n, ev, out) ==
  /\ in /\ out = in /\ n \in 1..(TextLen + 5 - F[1].i)
  /\ ev = <<Pasted(SubSeq(PasteText, F[1].i - 4, F[1].i - 4 + n - 1), FALSE)>>

TakesEnd(F, in, n, ev, out) ==
  /\ in /\ out = FALSE /\ n = TextLen + 9 - F[1].i
  /\ ev = <<Pasted(SubSeq(PasteText, F[1].i - 4, TextLen), TRUE)>>

Takes(F, in, n, ev, out) ==
  \/ Stays(F, in, n, ev, out)
  \/ TakesWhole(F, in, n, ev, out) \/ TakesSpelled(F, in, n, ev, out)
  \/ TakesOrphan(F, in, n, ev, out) \/ TakesMerged(F, in, n, ev, out)
  \/ TakesOpening(F, in, n, ev, out) \/ TakesAccent(F, in, n, ev, out)
  \/ TakesSlice(F, in, n, ev, out) \/ TakesEnd(F, in, n, ev, out)

(* In a paste the next byte is of its text or the first of its end, and the *)
(* search for the end has not gone past it.                                 *)
PasteOK(p, F) ==
  p.in_paste => /\ Len(F) > 0 /\ F[1].k = "Paste" /\ F[1].i \in 5..(TextLen + 5)
                /\ p.paste_scanned < TextLen + 6 - F[1].i

StepOK(t, p, F) ==
  /\ t.used \in 0..Len(p.buf) /\ t.parser \in Parser /\ t.parser.buf = Cut(p.buf, t.used)
  /\ Takes(F, p.in_paste, t.used, t.events, t.parser.in_paste)
  /\ PasteOK(t.parser, Cut(F, t.used))
  /\ t.parser.esc_pending =>
       /\ t.used = 0 /\ ~t.parser.in_paste
       /\ Len(p.buf) = 1 /\ p.buf[1].b = "esc"

(* Outside of a paste a step is one Took(). *)
LEMMA PlainStep ==
  ASSUME NEW p \in Parser, ~p.in_paste, NEW F, NEW n \in 0..Len(p.buf), NEW ev,
         Takes(F, p.in_paste, n, ev, p.in_paste)
  PROVE  StepOK(Took(p, n, ev), p, F)
  <1> DEFINE t == Took(p, n, ev)
  <1>1. TookIs(t, p, n, ev)
    BY TookSpec
  <1> HIDE DEF t
  <1>3. t.parser.in_paste = p.in_paste
    BY <1>1 DEF TookIs
  <1>4. Takes(F, p.in_paste, t.used, t.events, t.parser.in_paste)
    BY <1>1, <1>3 DEF TookIs
  <1>5. ~t.parser.in_paste /\ ~t.parser.esc_pending
    BY <1>1, <1>3 DEF TookIs
  <1>6. t.used \in 0..Len(p.buf) /\ t.parser \in Parser /\ t.parser.buf = Cut(p.buf, t.used)
    BY <1>1 DEF TookIs
  <1>7. StepOK(t, p, F)
    BY <1>4, <1>5, <1>6 DEF StepOK, PasteOK
  <1> QED
    BY <1>7 DEF t

LEMMA PlainWait ==
  ASSUME NEW p \in Parser, ~p.in_paste, NEW F
  PROVE  StepOK(Waits(p), p, F)
  <1>1. p.buf \in Seq(Byte)
    BY DEF Parser
  <1>2. 0 \in 0..Len(p.buf)
    BY <1>1
  <1>3. Takes(F, p.in_paste, 0, <<>>, p.in_paste)
    BY DEF Takes, Stays
  <1> QED
    BY <1>2, <1>3, PlainStep DEF Waits

-----------------------------------------------------------------------------
(* What can be where. *)
LEMMA LateBytes ==
  ASSUME NEW k \in Keys, NEW i \in 2..Len(Bytes(k))
  PROVE  (Bytes(k)[i] = "C3" => k = "Paste") /\ (Bytes(k)[i] = "esc" => k = "Paste" /\ i = TextLen + 5)
  <1>1. CASE k = "Paste"
    <2>1. i \in 2..(TextLen + 8) /\ TextLen \in Nat
      BY <1>1, BytesOfPaste
    <2>2. CASE i \in {2, 3, 4}
      BY <1>1, <2>2, BytesOfPaste
    <2>3. CASE i \in {TextLen + 5, TextLen + 6, TextLen + 7, TextLen + 8}
      BY <1>1, <2>3, BytesOfPaste
    <2>4. CASE i - 4 \in 1..TextLen
      <3>1. Bytes("Paste")[(i - 4) + 4] = PasteText[i - 4] /\ (i - 4) + 4 = i
        BY <2>4, BytesOfPaste
      <3>2. PasteText[i - 4] # "esc"
        BY <2>4, TextIsPlain
      <3> QED
        BY <1>1, <3>1, <3>2
    <2> QED
      BY <2>1, <2>2, <2>3, <2>4
  <1>2. CASE k \notin Named
    BY <1>2, BytesOfCharacter
  <1>3. CASE k \in {"Escape", "Enter", "leader", "CtrlQ", "LineFeed", "CtrlH", "Backspace", "CtrlBar"}
    BY <1>3, ByteTable
  <1>4. CASE k \in {"Alt", "accent"}
    <2>1. Len(Bytes(k)) = 2
      BY <1>4, ByteTable
    <2>2. i = 2
      BY <2>1
    <2> QED
      BY <1>4, <2>2, ByteTable
  <1>5. CASE k \in {"Up", "F1", "Focus"}
    <2>1. Len(Bytes(k)) = 3
      BY <1>5, ByteTable
    <2>2. i = 2 \/ i = 3
      BY <2>1
    <2> QED
      BY <1>5, <2>2, ByteTable
  <1>6. CASE k \in {"CtrlUp", "F5", "Press", "HomeTilde"}
    <2>1. Len(Bytes(k)) = 4
      BY <1>6, ByteTable
    <2>2. i = 2 \/ i = 3 \/ i = 4
      BY <2>1
    <2> QED
      BY <1>6, <2>2, ByteTable
  <1> QED
    BY <1>1, <1>2, <1>3, <1>4, <1>5, <1>6 DEF Named

Sequences1 == {"Alt", "F1", "Up", "Focus", "CtrlUp", "F5", "Press", "HomeTilde", "Paste"}

LEMMA FirstBytes ==
  ASSUME NEW k \in Keys
  PROVE  /\ Bytes(k)[1] \in {"[", "O"} => k \in {"[", "O"}
         /\ Bytes(k)[1] = "esc" => k = "Escape" \/ k \in Sequences1
         /\ Bytes(k)[1] = "C3" => k = "accent"
  <1>1. CASE k \notin Named
    BY <1>1, BytesOfCharacter, KeyboardAssumption
  <1>2. CASE k \in Named /\ k # "Paste"
    BY <1>2, ByteTable DEF Named, Sequences1
  <1>3. CASE k = "Paste"
    BY <1>3, BytesOfPaste DEF Sequences1
  <1> QED
    BY <1>1, <1>2, <1>3

(* The keys of one byte. *)
LEMMA CharEvents ==
  /\ CharEvent("cr") = Event("Enter") /\ CharEvent("lf") = Event("Enter")
  /\ CharEvent("bs") = Event("Backspace")
  <1>1. /\ "cr" \notin {Control[c] : c \in DOMAIN Control} /\ "lf" \notin {Control[c] : c \in DOMAIN Control}
        /\ "bs" \notin {Control[c] : c \in DOMAIN Control}
    BY ControlOf
  <1>2. CharEvent("cr") = Event("Enter") /\ CharEvent("lf") = Event("Enter")
    BY <1>1 DEF CharEvent
  <1>3. CharEvent("bs") = Event("Backspace")
    BY <1>1 DEF CharEvent
  <1> QED
    BY <1>2, <1>3

LEMMA ControlEvents ==
  ASSUME NEW k \in {"leader", "CtrlQ", "Backspace", "CtrlBar"}
  PROVE  CharEvent(Control[k]) = Event(k)
  <1>1. \A c, d \in DOMAIN Control : Control[c] = Control[d] => c = d
    BY ControlOf
  <1>2. k \in DOMAIN Control
    BY ControlOf
  <1>3. (CHOOSE c \in DOMAIN Control : Control[c] = Control[k]) = k
    BY <1>1, <1>2
  <1> DEFINE b == Control[k]
  <1>4. b \notin {"cr", "lf", "bs"} /\ b \in {Control[c] : c \in DOMAIN Control} /\ b \notin {"C3", "A9"}
    BY <1>2, ControlOf
  <1>5. CharEvent(b) = Event(CHOOSE c \in DOMAIN Control : Control[c] = b)
    <2> HIDE DEF b
    <2> QED
      BY <1>4 DEF CharEvent
  <1> QED
    BY <1>3, <1>5

LEMMA SingleBytes ==
  ASSUME NEW k \in Keys, Bytes(k)[1] # "esc", Bytes(k)[1] # "C3"
  PROVE  /\ Len(Bytes(k)) = 1 /\ k \notin {"Alt", "Paste", "Escape"}
         /\ CharEvent(Bytes(k)[1]) = Means(k)
  <1>1. CASE k \notin Named
    <2>1. Bytes(k) = <<k>> /\ k \notin {"cr", "lf", "bs", "del", "fs", "^a", "^q", "C3", "A9"}
      BY <1>1, BytesOfCharacter, KeyboardAssumption
    <2>2. k \notin {Control[c] : c \in DOMAIN Control}
      BY <2>1, ControlOf
    <2>3. CharEvent(k) = Event(k)
      BY <2>1, <2>2 DEF CharEvent
    <2>4. Means(k) = Event(k)
      BY <1>1, MeansIs DEF Named
    <2> QED
      BY <1>1, <2>1, <2>3, <2>4 DEF Named
  <1>2. CASE k \in {"Enter", "LineFeed", "CtrlH"}
    BY <1>2, ByteTable, CharEvents, MeansIs
  <1>3. CASE k \in {"leader", "CtrlQ", "Backspace", "CtrlBar"}
    <2>1. Len(Bytes(k)) = 1 /\ Bytes(k)[1] = Control[k]
      BY <1>3, ByteTable, ControlOf
    <2>2. Means(k) = Event(k)
      BY <1>3, MeansIs
    <2> QED
      BY <1>3, <2>1, <2>2, ControlEvents
  <1>4. k \notin (Named \ {"Enter", "leader", "CtrlQ", "LineFeed", "CtrlH", "Backspace", "CtrlBar"})
    BY ByteTable, BytesOfPaste DEF Named
  <1> QED
    BY <1>1, <1>2, <1>3, <1>4

LEMMA BufferAhead ==
  ASSUME NEW p \in Parser, NEW F, Ahead(p, F)
  PROVE  /\ Len(p.buf) \in Nat /\ Len(Values(p.buf)) = Len(p.buf)
         /\ \A j \in 1..Len(p.buf) : Values(p.buf)[j] = F[j].b
  <1>1. p.buf \in Seq(Byte)
    BY DEF Parser
  <1>2. Len(p.buf) \in Nat
    BY <1>1
  <1> QED
    BY <1>1, <1>2, ValuesAre DEF Ahead

-----------------------------------------------------------------------------
(* step(), by what the next byte is. *)

LEMMA StepSingle ==
  ASSUME NEW p \in Parser, ~p.in_paste, NEW F, Chain(F), Ahead(p, F), Len(p.buf) > 0,
         F[1].i = 1, F[1].b # "esc"
  PROVE  StepOK(Step(p), p, F)
  <1> DEFINE s == Values(p.buf)
             k == F[1].k
  <1>1. /\ Len(p.buf) \in Nat /\ Len(s) = Len(p.buf)
        /\ \A j \in 1..Len(p.buf) : s[j] = F[j].b
    BY BufferAhead
  <1>2. Len(F) > 0 /\ Len(p.buf) <= Len(F) /\ Len(F) \in Nat /\ 1 \in 1..Len(p.buf)
    BY <1>1 DEF Ahead, Chain
  <1>3. OfKey(F[1])
    BY <1>2 DEF Chain
  <1>4. k \in Keys /\ F[1].b = Bytes(k)[1] /\ s[1] = Bytes(k)[1]
    BY <1>1, <1>2, <1>3 DEF OfKey
  <1>5. CASE s[1] # "C3"
    <2>1. /\ Len(Bytes(k)) = 1 /\ k \notin {"Alt", "Paste", "Escape"}
          /\ CharEvent(Bytes(k)[1]) = Means(k)
      BY <1>4, <1>5, SingleBytes
    <2>2. Step(p) = Took(p, 1, <<CharEvent(s[1])>>)
      BY <1>4, <1>5 DEF Step
    <2>3. Means(k) = CharEvent(s[1])
      BY <1>4, <2>1
    <2>4. TakesWhole(F, p.in_paste, 1, <<CharEvent(s[1])>>, p.in_paste)
      BY <2>1, <2>3 DEF TakesWhole
    <2>5. Takes(F, p.in_paste, 1, <<CharEvent(s[1])>>, p.in_paste) /\ 1 \in 0..Len(p.buf)
      BY <1>2, <2>4 DEF Takes
    <2> QED
      BY <2>2, <2>5, PlainStep
  <1>6. CASE s[1] = "C3"
    <2>1. k = "accent"
      BY <1>4, <1>6, FirstBytes
    <2>2. Len(Bytes(k)) = 2 /\ Bytes(k)[2] = "A9"
      BY <2>1, ByteTable
    <2>3. CASE Len(p.buf) < 2
      <3>1. Step(p) = Waits(p)
        BY <1>1, <1>6, <2>3 DEF Step
      <3> QED
        BY <3>1, PlainWait
    <2>4. CASE ~(Len(p.buf) < 2)
      <3>1. 2 \in 1..Len(p.buf) /\ 2 \in 0..Len(p.buf) /\ 1 \in 0..(Len(Bytes(k)) - F[1].i)
        BY <1>1, <2>2, <2>4
      <3>2. F[1 + 1].b = Bytes(k)[F[1].i + 1]
        BY <1>2, <3>1, ChainAhead
      <3>3. s[2] = "A9"
        BY <1>1, <2>2, <3>1, <3>2
      <3>4. Step(p) = Took(p, 2, <<Event("accent")>>)
        BY <1>1, <1>6, <2>4, <3>3 DEF Step
      <3>5. Means(k) = Event("accent")
        BY <2>1, MeansIs
      <3>6. TakesWhole(F, p.in_paste, 2, <<Event("accent")>>, p.in_paste)
        BY <2>1, <2>2, <3>5 DEF TakesWhole
      <3>7. Takes(F, p.in_paste, 2, <<Event("accent")>>, p.in_paste)
        BY <3>6 DEF Takes
      <3> QED
        BY <3>1, <3>4, <3>7, PlainStep
    <2> QED
      BY <2>3, <2>4
  <1> QED
    BY <1>5, <1>6

LEMMA StepSpells ==
  ASSUME NEW p \in Parser, ~p.in_paste, NEW F, Chain(F), Ahead(p, F), Len(p.buf) > 0,
         F[1].i > 1, F[1].b # "esc"
  PROVE  StepOK(Step(p), p, F)
  <1> DEFINE s == Values(p.buf)
             k == F[1].k
  <1>1. /\ Len(p.buf) \in Nat /\ Len(s) = Len(p.buf)
        /\ \A j \in 1..Len(p.buf) : s[j] = F[j].b
    BY BufferAhead
  <1>2. Len(F) > 0 /\ Len(p.buf) <= Len(F) /\ Len(F) \in Nat /\ 1 \in 1..Len(p.buf)
    BY <1>1 DEF Ahead, Chain
  <1>3. OfKey(F[1])
    BY <1>2 DEF Chain
  <1>4. k \in Keys /\ F[1].b = Bytes(k)[F[1].i] /\ s[1] = F[1].b /\ F[1].i \in 1..Len(Bytes(k))
    BY <1>1, <1>2, <1>3 DEF OfKey
  <1>5. F[1].i \in 2..Len(Bytes(k))
    BY <1>4
  <1>6. CASE s[1] # "C3"
    <2>1. Step(p) = Took(p, 1, <<CharEvent(s[1])>>)
      BY <1>4, <1>6 DEF Step
    <2>2. TakesSpelled(F, p.in_paste, 1, <<CharEvent(s[1])>>, p.in_paste)
      BY <1>4, <1>6 DEF TakesSpelled, HalfOfTwo
    <2>3. Takes(F, p.in_paste, 1, <<CharEvent(s[1])>>, p.in_paste) /\ 1 \in 0..Len(p.buf)
      BY <1>2, <2>2 DEF Takes
    <2> QED
      BY <2>1, <2>3, PlainStep
  <1>7. CASE s[1] = "C3" /\ Len(s) < 2
    <2>1. Step(p) = Waits(p)
      BY <1>7 DEF Step
    <2> QED
      BY <2>1, PlainWait
  <1>8. CASE s[1] = "C3" /\ ~(Len(s) < 2)
    <2>1. 2 \in 1..Len(p.buf) /\ 1 \in 0..Len(p.buf) /\ 2 \in 0..Len(p.buf) /\ Len(F) > 1
      BY <1>1, <1>2, <1>8
    <2>2. s[2] = F[2].b
      BY <1>1, <2>1
    <2>3. k = "Paste"
      BY <1>4, <1>5, <1>8, LateBytes
    <2>4. CASE s[2] = "A9"
      <3>1. Step(p) = Took(p, 2, <<Event("accent")>>)
        BY <1>8, <2>4 DEF Step
      <3>2. TakesAccent(F, p.in_paste, 2, <<Event("accent")>>, p.in_paste)
        BY <1>4, <1>8, <2>1, <2>2, <2>3, <2>4 DEF TakesAccent, HalfOfTwo
      <3>3. Takes(F, p.in_paste, 2, <<Event("accent")>>, p.in_paste)
        BY <3>2 DEF Takes
      <3> QED
        BY <2>1, <3>1, <3>3, PlainStep
    <2>5. CASE s[2] # "A9"
      <3>1. Step(p) = Took(p, 1, <<CharEvent("C3")>>)
        BY <1>8, <2>5 DEF Step
      <3>2. TakesSpelled(F, p.in_paste, 1, <<CharEvent("C3")>>, p.in_paste)
        BY <1>4, <1>8, <2>2, <2>5 DEF TakesSpelled, HalfOfTwo
      <3>3. Takes(F, p.in_paste, 1, <<CharEvent("C3")>>, p.in_paste)
        BY <3>2 DEF Takes
      <3> QED
        BY <2>1, <3>1, <3>3, PlainStep
    <2> QED
      BY <2>4, <2>5
  <1> QED
    BY <1>6, <1>7, <1>8

(* A lone escape is kept, and esc_pending() says so. *)
LEMMA StepPends ==
  ASSUME NEW p \in Parser, ~p.in_paste, NEW F, Ahead(p, F), Len(p.buf) = 1, F[1].b = "esc"
  PROVE  StepOK(Step(p), p, F)
  <1> DEFINE s == Values(p.buf)
  <1>1. Len(s) = 1 /\ s[1] = "esc" /\ p.buf[1].b = "esc"
    BY BufferAhead DEF Ahead
  <1> DEFINE w == Waits(p)
             t == [w EXCEPT !.parser.esc_pending = TRUE]
  <1>2. Step(p) = t
    BY <1>1 DEF Step
  <1>3. TookIs(w, p, 0, <<>>)
    <2>1. 0 \in 0..Len(p.buf)
      OBVIOUS
    <2> QED
      BY <2>1, TookSpec DEF Waits
  <1>4. w = [used |-> w.used, events |-> w.events, parser |-> w.parser]
    BY DEF Waits, Took
  <1> HIDE DEF w
  <1> DEFINE q == [w.parser EXCEPT !.esc_pending = TRUE]
  <1>5. t = [used |-> w.used, events |-> w.events, parser |-> q]
    <2>1. DOMAIN w = {"used", "events", "parser"}
      BY <1>4
    <2>2. t = [f \in {"used", "events", "parser"} |-> IF f = "parser" THEN q ELSE w[f]]
      BY <2>1
    <2> HIDE DEF t, q
    <2> QED
      BY <2>2
  <1>6. /\ q \in Parser /\ q.buf = w.parser.buf /\ q.in_paste = w.parser.in_paste
    BY <1>3 DEF TookIs, Parser
  <1> HIDE DEF q
  <1>7. t.used = 0 /\ t.events = <<>> /\ t.parser = q
    BY <1>3, <1>5 DEF TookIs
  <1> HIDE DEF t
  <1>8. q.buf = Cut(p.buf, 0) /\ q.in_paste = p.in_paste
    BY <1>3, <1>6 DEF TookIs
  <1>9. Takes(F, p.in_paste, t.used, t.events, t.parser.in_paste)
    BY <1>7, <1>8 DEF Takes, Stays
  <1>10. ~t.parser.in_paste
    BY <1>7, <1>8
  <1>11. t.used \in 0..Len(p.buf)
    BY <1>7
  <1>12. StepOK(t, p, F)
    BY <1>1, <1>6, <1>7, <1>8, <1>9, <1>10, <1>11 DEF StepOK, PasteOK
  <1> QED
    BY <1>2, <1>12

LEMMA AfterEscape ==
  ASSUME NEW x, x.k = "Escape", x.i = 1, NEW y, Follows(x, y)
  PROVE  y.i = 1
  <1>1. Len(Bytes("Escape")) = 1
    BY ByteTable
  <1>2. ~(1 < 1)
    OBVIOUS
  <1>3. ~(x.i < Len(Bytes(x.k)))
    BY <1>1, <1>2
  <1> QED
    BY <1>3 DEF Follows

(* Escape and what was typed right after it. *)
LEMMA StepMerges ==
  ASSUME NoOpener, NEW p \in Parser, ~p.in_paste, NEW F, Chain(F), Ahead(p, F), Len(p.buf) > 1,
         F[1].k = "Escape"
  PROVE  StepOK(Step(p), p, F)
  <1> DEFINE s == Values(p.buf)
             ev == IF Printable(s[2]) THEN <<AltChar(s[2])>> ELSE <<>>
  <1>1. /\ Len(p.buf) \in Nat /\ Len(s) = Len(p.buf)
        /\ \A j \in 1..Len(p.buf) : s[j] = F[j].b
    BY BufferAhead
  <1>2. Len(F) > 1 /\ Len(F) \in Nat /\ {1, 2} \subseteq 1..Len(p.buf) /\ {1, 2} \subseteq 1..Len(F)
    BY <1>1 DEF Ahead, Chain
  <1>3. OfKey(F[1]) /\ OfKey(F[2]) /\ Follows(F[1], F[1 + 1])
    BY <1>2 DEF Chain
  <1>4. F[1].i = 1 /\ s[1] = "esc"
    BY <1>1, <1>2, <1>3, ByteTable DEF OfKey
  <1>5. F[2].i = 1
    BY <1>3, <1>4, AfterEscape
  <1>6. s[2] = Bytes(F[2].k)[1] /\ F[2].k \in Keys /\ s[2] = F[2].b
    BY <1>1, <1>2, <1>3, <1>5 DEF OfKey
  <1>7. s[2] \notin {"[", "O"}
    BY <1>6, FirstBytes DEF NoOpener
  <1>8. Step(p) = Took(p, 2, ev)
    BY <1>1, <1>2, <1>4, <1>7 DEF Step
  <1>9. TakesMerged(F, p.in_paste, 2, ev, p.in_paste)
    BY <1>2, <1>6 DEF TakesMerged
  <1> HIDE DEF ev
  <1>10. Takes(F, p.in_paste, 2, ev, p.in_paste) /\ 2 \in 0..Len(p.buf)
    BY <1>2, <1>9 DEF Takes
  <1> QED
    BY <1>8, <1>10, PlainStep

-----------------------------------------------------------------------------
(* CSI sequences: what StepCsi() does once it has found the final byte. *)
CsiEnd(p, f, params, b) ==
  IF params = <<"<0:1:1">> THEN Took(p, f, <<Event("Press")>>)
  ELSE IF b = "O" THEN Took(p, f, <<Event("Focus")>>)
  ELSE IF b = "~"
  THEN IF params = <<"200">>
       THEN Took([p EXCEPT !.in_paste = TRUE, !.paste_scanned = 0], f, <<>>)
       ELSE Took(p, f, <<Event(KeyFromTilde(params))>>)
  ELSE Took(p, f, <<Event(KeyFromFinal(params, b))>>)

Finals(s) == {i \in 3..Len(s) : Final(s[i])}

LEMMA CsiFinal ==
  ASSUME NEW p, NEW f \in Finals(Values(p.buf)), \A j \in Finals(Values(p.buf)) : f <= j,
         Len(Values(p.buf)) \in Nat, f <= 2 + MaxCsiParams
  PROVE  StepCsi(p) = CsiEnd(p, f, SubSeq(Values(p.buf), 3, f - 1), Values(p.buf)[f])
  <1> DEFINE s      == Values(p.buf)
             finals == {i \in 3..Len(s) : Final(s[i])}
             g      == CHOOSE i \in finals : \A j \in finals : i <= j
  <1>1. finals = Finals(s)
    BY DEF Finals
  <1>2. \A i \in finals : i \in Nat
    OBVIOUS
  <1>3. g = f
    <2>1. f \in finals /\ \A j \in finals : f <= j
      BY <1>1
    <2> HIDE DEF finals
    <2>2. g \in finals /\ \A j \in finals : g <= j
      BY <2>1
    <2>3. g <= f /\ f <= g /\ g \in Nat /\ f \in Nat
      BY <1>2, <2>1, <2>2
    <2> HIDE DEF g
    <2> QED
      BY <2>3
  <1>4. ~(\A i \in finals : i > 2 + MaxCsiParams)
    <2>1. f \in finals /\ f \in Nat
      BY <1>1, <1>2
    <2>2. ~(f > 2 + MaxCsiParams)
      BY <2>1, InputParserAssumption
    <2> QED
      BY <2>1, <2>2
  <1>5. finals # {}
    BY <1>1
  <1>6. StepCsi(p) = CsiEnd(p, g, SubSeq(s, 3, g - 1), s[g])
    BY <1>4, <1>5 DEF StepCsi, CsiEnd
  <1> HIDE DEF g, finals
  <1> QED
    BY <1>3, <1>6

LEMMA CsiOne ==
  ASSUME NEW p \in Parser, Len(Values(p.buf)) \in Nat, Len(Values(p.buf)) > 2,
         Final(Values(p.buf)[3])
  PROVE  StepCsi(p) = CsiEnd(p, 3, <<>>, Values(p.buf)[3])
  <1> DEFINE s == Values(p.buf)
  <1>1. s \in Seq(Value \cup {"header"})
    BY ValuesAre DEF Parser
  <1> HIDE DEF s
  <1>2. 3 \in Finals(s) /\ \A j \in Finals(s) : 3 <= j
    BY DEF Finals, s
  <1>3. 3 <= 2 + MaxCsiParams
    BY InputParserAssumption
  <1>4. SubSeq(s, 3, 3 - 1) = <<>>
    BY <1>1
  <1>5. StepCsi(p) = CsiEnd(p, 3, SubSeq(s, 3, 3 - 1), s[3])
    BY <1>2, <1>3, CsiFinal DEF s
  <1> QED
    BY <1>4, <1>5 DEF s

LEMMA ThirdOnly ==
  ASSUME NEW X, NEW r \in Seq(X), Len(r) > 3
  PROVE  SubSeq(r, 3, 3) = <<r[3]>>
  <1>1. SubSeq(r, 3, 3) \in Seq(X) /\ Len(SubSeq(r, 3, 3)) = 1 /\ SubSeq(r, 3, 3)[1] = r[3]
    OBVIOUS
  <1>2. r[3] \in X
    OBVIOUS
  <1>3. \A q \in Seq(X) : Len(q) = 1 => q = <<q[1]>>
    OBVIOUS
  <1> QED
    BY <1>1, <1>2, <1>3

LEMMA CsiTwo ==
  ASSUME NEW p \in Parser, Len(Values(p.buf)) \in Nat, Len(Values(p.buf)) > 3,
         ~Final(Values(p.buf)[3]), Final(Values(p.buf)[4])
  PROVE  StepCsi(p) = CsiEnd(p, 4, <<Values(p.buf)[3]>>, Values(p.buf)[4])
  <1> DEFINE s == Values(p.buf)
  <1>1. s \in Seq(Value \cup {"header"})
    BY ValuesAre DEF Parser
  <1> HIDE DEF s
  <1>0. Len(s) \in Nat /\ Len(s) > 3 /\ ~Final(s[3]) /\ Final(s[4])
    BY DEF s
  <1>2. 4 \in Finals(s) /\ \A j \in Finals(s) : 4 <= j
    <2>1. 4 \in Finals(s)
      BY <1>0 DEF Finals
    <2>2. \A j \in Finals(s) : j \in Nat /\ 3 <= j /\ j # 3
      BY <1>0 DEF Finals
    <2> QED
      BY <2>1, <2>2
  <1>3. 4 <= 2 + MaxCsiParams
    BY InputParserAssumption
  <1>4. SubSeq(s, 3, 4 - 1) = <<s[3]>>
    <2>1. SubSeq(s, 3, 3) = <<s[3]>>
      BY <1>0, <1>1, ThirdOnly
    <2> QED
      BY <2>1
  <1>5. StepCsi(p) = CsiEnd(p, 4, SubSeq(s, 3, 4 - 1), s[4])
    BY <1>0, <1>2, <1>3, CsiFinal DEF s
  <1> QED
    BY <1>4, <1>5 DEF s

LEMMA CsiWaits ==
  ASSUME NEW p \in Parser,
         Len(Values(p.buf)) = 2 \/ (Len(Values(p.buf)) = 3 /\ ~Final(Values(p.buf)[3]))
  PROVE  StepCsi(p) = Waits(p)
  <1> DEFINE s == Values(p.buf)
  <1> HIDE DEF s
  <1>0. Len(s) = 2 \/ (Len(s) = 3 /\ ~Final(s[3]))
    BY DEF s
  <1>1. {i \in 3..Len(s) : Final(s[i])} = {}
    BY <1>0
  <1>2. ~(Len(s) > 2 + MaxCsiParams)
    <2>1. ~(2 > 2 + MaxCsiParams) /\ ~(3 > 2 + MaxCsiParams)
      BY InputParserAssumption
    <2>2. CASE Len(s) = 2
      BY <2>1, <2>2
    <2>3. CASE Len(s) = 3
      BY <2>1, <2>3
    <2> QED
      BY <1>0, <2>2, <2>3
  <1> QED
    BY <1>1, <1>2 DEF StepCsi, s

-----------------------------------------------------------------------------
(* The keys that begin with an escape. *)
LEMMA KeyAhead ==
  ASSUME NEW p \in Parser, NEW F, Chain(F), Ahead(p, F), Len(p.buf) > 0
  PROVE  \A j \in 1..Len(p.buf) : j <= Len(Bytes(F[1].k)) - F[1].i + 1 =>
           Values(p.buf)[j] = Bytes(F[1].k)[F[1].i + j - 1]
  <1>1. /\ Len(p.buf) \in Nat
        /\ \A j \in 1..Len(p.buf) : Values(p.buf)[j] = F[j].b
    BY BufferAhead
  <1>2. Len(F) > 0 /\ Len(F) \in Nat
    BY <1>1 DEF Ahead, Chain
  <1>3. OfKey(F[1])
    BY <1>2 DEF Chain
  <1>4. F[1].i \in Nat /\ Len(Bytes(F[1].k)) \in Nat
    BY <1>3, KeysAreSound DEF OfKey, Sound
  <1> SUFFICES ASSUME NEW j \in 1..Len(p.buf), j <= Len(Bytes(F[1].k)) - F[1].i + 1
               PROVE  Values(p.buf)[j] = Bytes(F[1].k)[F[1].i + j - 1]
    OBVIOUS
  <1>5. /\ j - 1 \in 0..(Len(Bytes(F[1].k)) - F[1].i) /\ (j - 1) + 1 = j
        /\ F[1].i + (j - 1) = F[1].i + j - 1
    BY <1>4
  <1>6. F[(j - 1) + 1].b = Bytes(F[1].k)[F[1].i + (j - 1)]
    BY <1>2, <1>5, ChainAhead
  <1> QED
    BY <1>1, <1>5, <1>6

(* A key that is there from its first byte on. *)
FromItsFirst(p, F, k) ==
  /\ F[1].k = k /\ F[1].i = 1
  /\ \A j \in 1..Len(p.buf) : j <= Len(Bytes(k)) => Values(p.buf)[j] = Bytes(k)[j]

LEMMA FirstAhead ==
  ASSUME NEW p \in Parser, NEW F, Chain(F), Ahead(p, F), Len(p.buf) > 0, F[1].i = 1
  PROVE  FromItsFirst(p, F, F[1].k)
  <1>1. Len(p.buf) \in Nat /\ Len(F) > 0
    BY BufferAhead DEF Ahead, Chain
  <1>2. OfKey(F[1])
    BY <1>1 DEF Chain
  <1>3. Len(Bytes(F[1].k)) \in Nat
    BY <1>2, KeysAreSound DEF OfKey, Sound
  <1>4. \A j \in 1..Len(p.buf) : j <= Len(Bytes(F[1].k)) =>
           j <= Len(Bytes(F[1].k)) - F[1].i + 1 /\ F[1].i + j - 1 = j
    BY <1>1, <1>3
  <1>5. \A j \in 1..Len(p.buf) : j <= Len(Bytes(F[1].k)) - F[1].i + 1 =>
           Values(p.buf)[j] = Bytes(F[1].k)[F[1].i + j - 1]
    BY KeyAhead
  <1> QED
    BY <1>4, <1>5 DEF FromItsFirst

(* A step that takes a whole key with its meaning. *)
LEMMA WholeStep ==
  ASSUME NEW p \in Parser, ~p.in_paste, NEW F, F[1].i = 1, F[1].k \notin {"Paste", "Escape"},
         NEW n \in 0..Len(p.buf), n = Len(Bytes(F[1].k)), NEW e, e = Means(F[1].k)
  PROVE  StepOK(Took(p, n, <<e>>), p, F)
  <1>1. TakesWhole(F, p.in_paste, n, <<e>>, p.in_paste)
    BY DEF TakesWhole
  <1>2. Takes(F, p.in_paste, n, <<e>>, p.in_paste)
    BY <1>1 DEF Takes
  <1> QED
    BY <1>2, PlainStep

LEMMA StepAlt ==
  ASSUME NEW p \in Parser, ~p.in_paste, NEW F, Chain(F), Ahead(p, F), Len(p.buf) > 1,
         F[1].i = 1, F[1].k = "Alt"
  PROVE  StepOK(Step(p), p, F)
  <1>1. Len(p.buf) \in Nat /\ Len(Values(p.buf)) = Len(p.buf)
    BY BufferAhead
  <1>2. FromItsFirst(p, F, "Alt")
    BY FirstAhead, <1>1
  <1>3. {1, 2} \subseteq 1..Len(p.buf) /\ 2 \in 0..Len(p.buf)
    BY <1>1
  <1>4. Values(p.buf)[1] = "esc" /\ Values(p.buf)[2] = "x"
    BY <1>2, <1>3, ByteTable DEF FromItsFirst
  <1>5. Printable("x")
    BY DEF Printable
  <1>6. Step(p) = Took(p, 2, <<AltChar("x")>>)
    BY <1>1, <1>4, <1>5 DEF Step
  <1>7. AltChar("x") = Means(F[1].k) /\ 2 = Len(Bytes(F[1].k))
    BY ByteTable, MeansIs
  <1> QED
    BY <1>3, <1>6, <1>7, WholeStep

LEMMA StepF1 ==
  ASSUME NEW p \in Parser, ~p.in_paste, NEW F, Chain(F), Ahead(p, F), Len(p.buf) > 1,
         F[1].i = 1, F[1].k = "F1"
  PROVE  StepOK(Step(p), p, F)
  <1>1. Len(p.buf) \in Nat /\ Len(Values(p.buf)) = Len(p.buf)
    BY BufferAhead
  <1>2. FromItsFirst(p, F, "F1")
    BY FirstAhead, <1>1
  <1>3. {1, 2} \subseteq 1..Len(p.buf)
    BY <1>1
  <1>4. Values(p.buf)[1] = "esc" /\ Values(p.buf)[2] = "O"
    BY <1>2, <1>3, ByteTable DEF FromItsFirst
  <1>5. CASE Len(p.buf) < 3
    <2>1. Step(p) = Waits(p)
      BY <1>1, <1>4, <1>5 DEF Step
    <2> QED
      BY <2>1, PlainWait
  <1>6. CASE ~(Len(p.buf) < 3)
    <2>1. 3 \in 1..Len(p.buf) /\ 3 \in 0..Len(p.buf)
      BY <1>1, <1>6
    <2>2. Values(p.buf)[3] = "P"
      BY <1>2, <2>1, ByteTable DEF FromItsFirst
    <2>3. KeyFromFinal(<<>>, "P") = "F1"
      BY DEF KeyFromFinal
    <2>4. Step(p) = Took(p, 3, <<Event("F1")>>)
      BY <1>1, <1>4, <1>6, <2>2, <2>3 DEF Step
    <2>5. Event("F1") = Means(F[1].k) /\ 3 = Len(Bytes(F[1].k))
      BY ByteTable, MeansIs
    <2> QED
      BY <2>1, <2>4, <2>5, WholeStep
  <1> QED
    BY <1>5, <1>6

LEMMA AreFinals == \A b \in {"A", "O", "~", "M"} : Final(b)
  BY DEF Final, Printable, Params

LEMMA AreParams == \A b \in {"1", "1:5", "15", "200", "201", "<0:1:1"} : ~Final(b)
  BY DEF Final, Params

(* Two lists of parameters. *)
LEMMA OneParam ==
  ASSUME NEW a, NEW b
  PROVE  <<a>> # <<>> /\ (<<a>> = <<b>> => a = b)
  <1>1. <<a>>[1] = a /\ <<b>>[1] = b /\ Len(<<a>>) = 1 /\ Len(<<>>) = 0
    OBVIOUS
  <1>2. <<a>> # <<>>
    BY <1>1
  <1>3. <<a>> = <<b>> => a = b
    BY <1>1
  <1> QED
    BY <1>2, <1>3

LEMMA TwoOrThree ==
  ASSUME NEW n \in Nat, n > 1
  PROVE  (n < 3 => n = 2) /\ (n < 4 => n = 2 \/ n = 3)
  OBVIOUS

LEMMA IntoCsi ==
  ASSUME NEW p \in Parser, ~p.in_paste, Len(Values(p.buf)) \in Nat, Len(Values(p.buf)) > 1,
         Values(p.buf)[1] = "esc", Values(p.buf)[2] = "["
  PROVE  Step(p) = StepCsi(p)
  BY DEF Step

LEMMA StepCsiShort ==
  ASSUME NEW p \in Parser, ~p.in_paste, NEW F, Chain(F), Ahead(p, F), Len(p.buf) > 1,
         F[1].i = 1, F[1].k \in {"Up", "Focus"}
  PROVE  StepOK(Step(p), p, F)
  <1> DEFINE k == F[1].k
             s == Values(p.buf)
  <1>1. Len(p.buf) \in Nat /\ Len(s) = Len(p.buf)
    BY BufferAhead
  <1>2. FromItsFirst(p, F, k)
    BY FirstAhead, <1>1
  <1>3. {1, 2} \subseteq 1..Len(p.buf)
    BY <1>1
  <1>4. /\ Len(Bytes(k)) = 3 /\ Bytes(k)[1] = "esc" /\ Bytes(k)[2] = "["
        /\ k = "Up" => Bytes(k)[3] = "A"
        /\ k = "Focus" => Bytes(k)[3] = "O"
    BY ByteTable
  <1>5. s[1] = "esc" /\ s[2] = "["
    BY <1>2, <1>3, <1>4 DEF FromItsFirst
  <1>6. Step(p) = StepCsi(p)
    BY <1>1, <1>5, IntoCsi
  <1>7. CASE Len(p.buf) < 3
    <2>1. Len(s) = 2
      BY <1>1, <1>7, TwoOrThree
    <2>2. StepCsi(p) = Waits(p)
      BY <2>1, CsiWaits
    <2> QED
      BY <1>6, <2>2, PlainWait
  <1>8. CASE ~(Len(p.buf) < 3)
    <2>1. 3 \in 1..Len(p.buf) /\ 3 \in 0..Len(p.buf) /\ Len(s) > 2
      BY <1>1, <1>8
    <2>2. s[3] = Bytes(k)[3]
      BY <1>2, <1>4, <2>1 DEF FromItsFirst
    <2>3. Final(s[3])
      BY <1>4, <2>2, AreFinals
    <2>4. StepCsi(p) = CsiEnd(p, 3, <<>>, s[3])
      BY <1>1, <2>1, <2>3, CsiOne
    <2>5. <<>> # <<"<0:1:1">> /\ <<>> # <<"1:5">>
      BY OneParam
    <2>6. CASE k = "Up"
      <3>1. KeyFromFinal(<<>>, "A") = "Up"
        BY <2>5 DEF KeyFromFinal
      <3>2. s[3] = "A"
        BY <1>4, <2>2, <2>6
      <3>3. CsiEnd(p, 3, <<>>, "A") = Took(p, 3, <<Event("Up")>>)
        BY <2>5, <3>1 DEF CsiEnd
      <3>4. Event("Up") = Means(F[1].k) /\ 3 = Len(Bytes(F[1].k))
        BY <1>4, <2>6, MeansIs
      <3> QED
        BY <1>6, <2>1, <2>4, <3>2, <3>3, <3>4, WholeStep
    <2>7. CASE k = "Focus"
      <3>2. s[3] = "O"
        BY <1>4, <2>2, <2>7
      <3>3. CsiEnd(p, 3, <<>>, "O") = Took(p, 3, <<Event("Focus")>>)
        BY <2>5 DEF CsiEnd
      <3>4. Event("Focus") = Means(F[1].k) /\ 3 = Len(Bytes(F[1].k))
        BY <1>4, <2>7, MeansIs
      <3> QED
        BY <1>6, <2>1, <2>4, <3>2, <3>3, <3>4, WholeStep
    <2> QED
      BY <2>6, <2>7
  <1> QED
    BY <1>7, <1>8

LEMMA StepCsiLong ==
  ASSUME NEW p \in Parser, ~p.in_paste, NEW F, Chain(F), Ahead(p, F), Len(p.buf) > 1,
         F[1].i = 1, F[1].k \in {"CtrlUp", "F5", "Press", "HomeTilde"}
  PROVE  StepOK(Step(p), p, F)
  <1> DEFINE k == F[1].k
             s == Values(p.buf)
  <1>1. Len(p.buf) \in Nat /\ Len(s) = Len(p.buf)
    BY BufferAhead
  <1>2. FromItsFirst(p, F, k)
    BY FirstAhead, <1>1
  <1>3. {1, 2} \subseteq 1..Len(p.buf)
    BY <1>1
  <1>4. /\ Len(Bytes(k)) = 4 /\ Bytes(k)[1] = "esc" /\ Bytes(k)[2] = "["
        /\ k = "CtrlUp" => Bytes(k)[3] = "1:5" /\ Bytes(k)[4] = "A"
        /\ k = "F5" => Bytes(k)[3] = "15" /\ Bytes(k)[4] = "~"
        /\ k = "HomeTilde" => Bytes(k)[3] = "1" /\ Bytes(k)[4] = "~"
        /\ k = "Press" => Bytes(k)[3] = "<0:1:1" /\ Bytes(k)[4] = "M"
    BY ByteTable
  <1>5. s[1] = "esc" /\ s[2] = "["
    BY <1>2, <1>3, <1>4 DEF FromItsFirst
  <1>6. Step(p) = StepCsi(p)
    BY <1>1, <1>5, IntoCsi
  <1>7. CASE Len(p.buf) < 4
    <2>1. Len(s) = 2 \/ Len(s) = 3
      BY <1>1, <1>7, TwoOrThree
    <2>2. Len(s) = 3 => ~Final(s[3])
      <3> SUFFICES ASSUME Len(s) = 3 PROVE ~Final(s[3])
        OBVIOUS
      <3>1. 3 \in 1..Len(p.buf)
        <4>1. Len(p.buf) = 3
          BY <1>1
        <4>2. 3 \in 1..3
          OBVIOUS
        <4> QED
          BY <4>1, <4>2
      <3>2. s[3] = Bytes(k)[3]
        BY <1>2, <1>4, <3>1 DEF FromItsFirst
      <3> QED
        BY <1>4, <3>2, AreParams
    <2>3. StepCsi(p) = Waits(p)
      BY <2>1, <2>2, CsiWaits
    <2> QED
      BY <1>6, <2>3, PlainWait
  <1>8. CASE ~(Len(p.buf) < 4)
    <2>1. 3 \in 1..Len(p.buf) /\ 4 \in 1..Len(p.buf) /\ 4 \in 0..Len(p.buf) /\ Len(s) > 3
      BY <1>1, <1>8
    <2>2. s[3] = Bytes(k)[3] /\ s[4] = Bytes(k)[4]
      BY <1>2, <1>4, <2>1 DEF FromItsFirst
    <2>3. ~Final(s[3]) /\ Final(s[4])
      BY <1>4, <2>2, AreFinals, AreParams
    <2>4. StepCsi(p) = CsiEnd(p, 4, <<s[3]>>, s[4])
      BY <1>1, <2>1, <2>3, CsiTwo
    <2>6. CASE k = "CtrlUp"
      <3>1. <<"1:5">> # <<>> /\ <<"1:5">> # <<"<0:1:1">>
        BY OneParam
      <3>2. KeyFromFinal(<<"1:5">>, "A") = "CtrlUp"
        BY <3>1 DEF KeyFromFinal
      <3>3. s[3] = "1:5" /\ s[4] = "A"
        BY <1>4, <2>2, <2>6
      <3>4. CsiEnd(p, 4, <<"1:5">>, "A") = Took(p, 4, <<Event("CtrlUp")>>)
        BY <3>1, <3>2 DEF CsiEnd
      <3>5. Event("CtrlUp") = Means(F[1].k) /\ 4 = Len(Bytes(F[1].k))
        BY <1>4, <2>6, MeansIs
      <3> QED
        BY <1>6, <2>1, <2>4, <3>3, <3>4, <3>5, WholeStep
    <2>7. CASE k = "F5"
      <3>1. <<"15">> # <<"<0:1:1">> /\ <<"15">> # <<"200">>
        BY OneParam
      <3>2. KeyFromTilde(<<"15">>) = "F5"
        <4>1. <<"15">> # <<"1">>
          BY OneParam
        <4> QED
          BY <4>1 DEF KeyFromTilde
      <3>3. s[3] = "15" /\ s[4] = "~"
        BY <1>4, <2>2, <2>7
      <3>4. CsiEnd(p, 4, <<"15">>, "~") = Took(p, 4, <<Event("F5")>>)
        BY <3>1, <3>2 DEF CsiEnd
      <3>5. Event("F5") = Means(F[1].k) /\ 4 = Len(Bytes(F[1].k))
        BY <1>4, <2>7, MeansIs
      <3> QED
        BY <1>6, <2>1, <2>4, <3>3, <3>4, <3>5, WholeStep
    <2>9. CASE k = "HomeTilde"
      <3>1. <<"1">> # <<"<0:1:1">> /\ <<"1">> # <<"200">> /\ <<"1">> # <<"15">>
        BY OneParam
      <3>2. KeyFromTilde(<<"1">>) = "Home"
        BY <3>1 DEF KeyFromTilde
      <3>3. s[3] = "1" /\ s[4] = "~"
        BY <1>4, <2>2, <2>9
      <3>4. CsiEnd(p, 4, <<"1">>, "~") = Took(p, 4, <<Event("Home")>>)
        BY <3>1, <3>2 DEF CsiEnd
      <3>5. Event("Home") = Means(F[1].k) /\ 4 = Len(Bytes(F[1].k))
        BY <1>4, <2>9, MeansIs
      <3> QED
        BY <1>6, <2>1, <2>4, <3>3, <3>4, <3>5, WholeStep
    <2>8. CASE k = "Press"
      <3>3. s[3] = "<0:1:1" /\ s[4] = "M"
        BY <1>4, <2>2, <2>8
      <3>4. CsiEnd(p, 4, <<"<0:1:1">>, "M") = Took(p, 4, <<Event("Press")>>)
        BY DEF CsiEnd
      <3>5. Event("Press") = Means(F[1].k) /\ 4 = Len(Bytes(F[1].k))
        BY <1>4, <2>8, MeansIs
      <3> QED
        BY <1>6, <2>1, <2>4, <3>3, <3>4, <3>5, WholeStep
    <2> QED
      BY <2>6, <2>7, <2>8, <2>9
  <1> QED
    BY <1>7, <1>8

(* The mark that opens a paste. *)
LEMMA StepOpens ==
  ASSUME NEW p \in Parser, ~p.in_paste, NEW F, Chain(F), Ahead(p, F), Len(p.buf) > 1,
         F[1].i = 1, F[1].k = "Paste"
  PROVE  StepOK(Step(p), p, F)
  <1> DEFINE s == Values(p.buf)
  <1>1. Len(p.buf) \in Nat /\ Len(s) = Len(p.buf)
    BY BufferAhead
  <1>2. FromItsFirst(p, F, "Paste")
    BY FirstAhead, <1>1
  <1>3. {1, 2} \subseteq 1..Len(p.buf)
    BY <1>1
  <1>4. /\ Len(Bytes("Paste")) = TextLen + 8 /\ TextLen \in Nat
        /\ Bytes("Paste")[1] = "esc" /\ Bytes("Paste")[2] = "["
        /\ Bytes("Paste")[3] = "200" /\ Bytes("Paste")[4] = "~"
    BY BytesOfPaste
  <1>5. \A j \in 1..4 : j <= Len(Bytes("Paste"))
    BY <1>4
  <1>6. \A j \in 1..4 : j \in 1..Len(p.buf) => s[j] = Bytes("Paste")[j]
    BY <1>2, <1>5 DEF FromItsFirst
  <1>7. s[1] = "esc" /\ s[2] = "["
    BY <1>3, <1>4, <1>6
  <1>8. Step(p) = StepCsi(p)
    BY <1>1, <1>7, IntoCsi
  <1>9. CASE Len(p.buf) < 4
    <2>1. Len(s) = 2 \/ Len(s) = 3
      BY <1>1, <1>9, TwoOrThree
    <2>2. Len(s) = 3 => ~Final(s[3])
      <3> SUFFICES ASSUME Len(s) = 3 PROVE ~Final(s[3])
        OBVIOUS
      <3>1. 3 \in 1..Len(p.buf)
        <4> HIDE DEF s
        <4> QED
          BY <1>1
      <3>2. s[3] = "200"
        BY <1>4, <1>6, <3>1
      <3> QED
        BY <3>2, AreParams
    <2>3. StepCsi(p) = Waits(p)
      BY <2>1, <2>2, CsiWaits
    <2> QED
      BY <1>8, <2>3, PlainWait
  <1>10. CASE ~(Len(p.buf) < 4)
    <2>1. 3 \in 1..Len(p.buf) /\ 4 \in 1..Len(p.buf) /\ 4 \in 0..Len(p.buf) /\ Len(s) > 3
      BY <1>1, <1>10
    <2>2. s[3] = "200" /\ s[4] = "~"
      BY <1>4, <1>6, <2>1
    <2>3. ~Final(s[3]) /\ Final(s[4])
      BY <2>2, AreFinals, AreParams
    <2>4. StepCsi(p) = CsiEnd(p, 4, <<s[3]>>, s[4])
      BY <1>1, <2>1, <2>3, CsiTwo
    <2> DEFINE q == [p EXCEPT !.in_paste = TRUE, !.paste_scanned = 0]
               t == Took(q, 4, <<>>)
    <2>5. CsiEnd(p, 4, <<"200">>, "~") = t
      <3>1. <<"200">> # <<"<0:1:1">>
        BY OneParam
      <3> QED
        BY <3>1 DEF CsiEnd
    <2>6. q \in Parser /\ q.buf = p.buf /\ q.in_paste = TRUE /\ q.paste_scanned = 0
      BY DEF Parser
    <2> HIDE DEF q
    <2>7. TookIs(t, q, 4, <<>>)
      BY <2>1, <2>6, TookSpec
    <2> HIDE DEF t
    <2>8. t.used = 4 /\ t.events = <<>> /\ t.parser \in Parser /\ t.parser.buf = Cut(p.buf, 4)
      BY <2>6, <2>7 DEF TookIs
    <2>9. t.parser.in_paste = TRUE /\ t.parser.paste_scanned = 0
      BY <2>6, <2>7 DEF TookIs
    <2>10. ~t.parser.esc_pending
      BY <2>7 DEF TookIs
    <2>11. TakesOpening(F, p.in_paste, t.used, t.events, t.parser.in_paste)
      BY <2>8, <2>9 DEF TakesOpening
    <2>12. Takes(F, p.in_paste, t.used, t.events, t.parser.in_paste)
      BY <2>11 DEF Takes
    <2>13. PasteOK(t.parser, Cut(F, t.used))
      <3>1. F \in Seq(Byte) /\ Len(F) \in Nat /\ Len(F) > 0
        BY <1>1 DEF Chain, Ahead
      <3>2. 4 \in 0..(Len(Bytes(F[1].k)) - F[1].i)
        BY <1>4
      <3>3. 4 + 1 \in 1..Len(F) /\ F[4 + 1].k = F[1].k /\ F[4 + 1].i = F[1].i + 4
        BY <3>1, <3>2, ChainAhead
      <3>4. 4 \in 0..Len(F) /\ 1 \in 1..(Len(F) - 4)
        BY <3>1, <3>3
      <3>5. Len(Cut(F, 4)) = Len(F) - 4 /\ Cut(F, 4)[1] = F[4 + 1]
        <4> DEFINE C == Cut(F, 4)
        <4>1. 4 \in 0..Len(F)
          BY <3>4
        <4>2. Len(C) = Len(F) - 4 /\ \A j \in 1..(Len(F) - 4) : C[j] = F[4 + j]
          BY <3>1, <4>1, CutIs
        <4> HIDE DEF C
        <4>3. Len(C) = Len(F) - 4 /\ C[1] = F[4 + 1]
          BY <3>4, <4>2
        <4> QED
          BY <4>3 DEF C
      <3>6. Cut(F, 4)[1].k = "Paste" /\ Cut(F, 4)[1].i = 5 /\ Len(Cut(F, 4)) > 0
        BY <3>1, <3>3, <3>4, <3>5
      <3>7. 5 \in 5..(TextLen + 5) /\ 0 < TextLen + 6 - 5
        BY <1>4
      <3> QED
        BY <2>8, <2>9, <3>6, <3>7 DEF PasteOK
    <2>14. StepOK(t, p, F)
      BY <2>1, <2>8, <2>10, <2>12, <2>13 DEF StepOK
    <2> QED
      BY <1>8, <2>2, <2>4, <2>5, <2>14
  <1> QED
    BY <1>9, <1>10

(* The end of a paste that was not recognised. *)
LEMMA StepOrphan ==
  ASSUME NEW p \in Parser, ~p.in_paste, NEW F, Chain(F), Ahead(p, F), Len(p.buf) > 1,
         F[1].i = TextLen + 5, F[1].k = "Paste"
  PROVE  StepOK(Step(p), p, F)
  <1> DEFINE s == Values(p.buf)
  <1>1. Len(p.buf) \in Nat /\ Len(s) = Len(p.buf)
    BY BufferAhead
  <1>2. \A j \in 1..Len(p.buf) : j <= Len(Bytes(F[1].k)) - F[1].i + 1 =>
           s[j] = Bytes(F[1].k)[F[1].i + j - 1]
    BY KeyAhead, <1>1
  <1>3. {1, 2} \subseteq 1..Len(p.buf)
    BY <1>1
  <1>4. /\ Len(Bytes("Paste")) = TextLen + 8 /\ TextLen \in Nat
        /\ Bytes("Paste")[TextLen + 5] = "esc" /\ Bytes("Paste")[TextLen + 6] = "["
        /\ Bytes("Paste")[TextLen + 7] = "201" /\ Bytes("Paste")[TextLen + 8] = "~"
    BY BytesOfPaste
  <1>5. \A j \in 1..4 : j <= Len(Bytes(F[1].k)) - F[1].i + 1
                        /\ F[1].i + j - 1 = TextLen + 4 + j
    BY <1>4
  <1>6. \A j \in 1..4 : j \in 1..Len(p.buf) => s[j] = Bytes("Paste")[TextLen + 4 + j]
    BY <1>2, <1>5
  <1>7. /\ 1 \in 1..Len(p.buf) => s[1] = "esc"
        /\ 2 \in 1..Len(p.buf) => s[2] = "["
        /\ 3 \in 1..Len(p.buf) => s[3] = "201"
        /\ 4 \in 1..Len(p.buf) => s[4] = "~"
    <2>1. /\ TextLen + 4 + 1 = TextLen + 5 /\ TextLen + 4 + 2 = TextLen + 6
          /\ TextLen + 4 + 3 = TextLen + 7 /\ TextLen + 4 + 4 = TextLen + 8
      BY <1>4
    <2> HIDE DEF s
    <2> QED
      BY <1>4, <1>6, <2>1
  <1>8. Step(p) = StepCsi(p)
    BY <1>1, <1>3, <1>7, IntoCsi
  <1>9. CASE Len(p.buf) < 4
    <2>1. Len(s) = 2 \/ Len(s) = 3
      BY <1>1, <1>9, TwoOrThree
    <2>2. Len(s) = 3 => ~Final(s[3])
      <3> SUFFICES ASSUME Len(s) = 3 PROVE ~Final(s[3])
        OBVIOUS
      <3>1. 3 \in 1..Len(p.buf)
        <4>1. Len(p.buf) = 3
          BY <1>1
        <4>2. 3 \in 1..3
          OBVIOUS
        <4> QED
          BY <4>1, <4>2
      <3> QED
        BY <1>7, <3>1, AreParams
    <2>3. StepCsi(p) = Waits(p)
      BY <2>1, <2>2, CsiWaits
    <2> QED
      BY <1>8, <2>3, PlainWait
  <1>10. CASE ~(Len(p.buf) < 4)
    <2>1. 3 \in 1..Len(p.buf) /\ 4 \in 1..Len(p.buf) /\ 4 \in 0..Len(p.buf) /\ Len(s) > 3
      BY <1>1, <1>10
    <2>2. s[3] = "201" /\ s[4] = "~"
      BY <1>7, <2>1
    <2>3. ~Final(s[3]) /\ Final(s[4])
      BY <2>2, AreFinals, AreParams
    <2>4. StepCsi(p) = CsiEnd(p, 4, <<s[3]>>, s[4])
      BY <1>1, <2>1, <2>3, CsiTwo
    <2>5. CsiEnd(p, 4, <<"201">>, "~") = Took(p, 4, <<Event("Unknown")>>)
      <3>1. <<"201">> # <<"<0:1:1">> /\ <<"201">> # <<"200">> /\ <<"201">> # <<"15">>
            /\ <<"201">> # <<"1">>
        BY OneParam
      <3>2. KeyFromTilde(<<"201">>) = "Unknown"
        BY <3>1 DEF KeyFromTilde
      <3> QED
        BY <3>1, <3>2 DEF CsiEnd
    <2>6. F[1].b = "esc"
      <3>1. Len(F) > 0
        BY <1>1 DEF Ahead, Chain
      <3>2. OfKey(F[1])
        BY <3>1 DEF Chain
      <3> QED
        BY <1>4, <3>2 DEF OfKey
    <2>7. TakesOrphan(F, p.in_paste, 4, <<Event("Unknown")>>, p.in_paste)
      BY <2>6 DEF TakesOrphan
    <2>8. Takes(F, p.in_paste, 4, <<Event("Unknown")>>, p.in_paste)
      BY <2>7 DEF Takes
    <2>9. StepOK(Took(p, 4, <<Event("Unknown")>>), p, F)
      BY <2>1, <2>8, PlainStep
    <2> QED
      BY <1>8, <2>2, <2>4, <2>5, <2>9
  <1> QED
    BY <1>9, <1>10

(* A length that is not zero. *)
LEMMA OneOrMore ==
  ASSUME NEW n \in Nat, n > 0
  PROVE  n = 1 \/ n > 1
  OBVIOUS

(* Outside of a paste. *)
LEMMA StepPlain ==
  ASSUME NoOpener, NEW p \in Parser, ~p.in_paste, NEW F, Chain(F), Ahead(p, F), Len(p.buf) > 0
  PROVE  StepOK(Step(p), p, F)
  <1>1. Len(p.buf) \in Nat /\ Len(F) > 0 /\ Len(F) \in Nat
    BY BufferAhead DEF Ahead, Chain
  <1>2. OfKey(F[1])
    BY <1>1 DEF Chain
  <1>3. F[1].k \in Keys /\ F[1].i \in 1..Len(Bytes(F[1].k)) /\ F[1].b = Bytes(F[1].k)[F[1].i]
        /\ Len(Bytes(F[1].k)) \in Nat
    BY <1>2, KeysAreSound DEF OfKey, Sound
  <1>4. F[1].i = 1 \/ F[1].i > 1
    BY <1>3
  <1>5. CASE F[1].b # "esc"
    BY <1>1, <1>4, <1>5, StepSingle, StepSpells
  <1>6. CASE F[1].b = "esc" /\ Len(p.buf) = 1
    BY <1>6, StepPends
  <1>7. CASE F[1].b = "esc" /\ Len(p.buf) > 1
    <2>1. CASE F[1].i > 1
      <3>1. F[1].i \in 2..Len(Bytes(F[1].k))
        BY <1>3, <2>1
      <3>2. F[1].k = "Paste" /\ F[1].i = TextLen + 5
        BY <1>3, <1>7, <3>1, LateBytes
      <3> QED
        BY <1>7, <3>2, StepOrphan
    <2>2. CASE F[1].i = 1
      <3>1. F[1].k = "Escape" \/ F[1].k \in Sequences1
        BY <1>3, <1>7, <2>2, FirstBytes
      <3>2. CASE F[1].k = "Escape"
        BY <1>7, <3>2, StepMerges
      <3>3. CASE F[1].k \in {"Up", "Focus"}
        BY <1>7, <2>2, <3>3, StepCsiShort
      <3>4. CASE F[1].k \in {"CtrlUp", "F5", "Press", "HomeTilde"}
        BY <1>7, <2>2, <3>4, StepCsiLong
      <3>5. CASE F[1].k = "Alt"
        BY <1>7, <2>2, <3>5, StepAlt
      <3>6. CASE F[1].k = "F1"
        BY <1>7, <2>2, <3>6, StepF1
      <3>7. CASE F[1].k = "Paste"
        BY <1>7, <2>2, <3>7, StepOpens
      <3> QED
        BY <3>1, <3>2, <3>3, <3>4, <3>5, <3>6, <3>7 DEF Sequences1
    <2> QED
      BY <1>4, <2>1, <2>2
  <1>8. Len(p.buf) = 1 \/ Len(p.buf) > 1
    <2>1. PICK n \in Nat : n = Len(p.buf) /\ n > 0
      BY <1>1
    <2> QED
      BY <2>1, OneOrMore
  <1> QED
    BY <1>5, <1>6, <1>7, <1>8

-----------------------------------------------------------------------------
(* In a paste. *)
LEMMA SameSeq ==
  ASSUME NEW X, NEW v \in Seq(X), NEW w \in Seq(X), Len(v) = Len(w),
         \A j \in 1..Len(v) : v[j] = w[j]
  PROVE  v = w
  OBVIOUS

LEMMA FourOf ==
  ASSUME NEW X, NEW r \in Seq(X), NEW j \in 1..Len(r), j + 3 <= Len(r)
  PROVE  /\ SubSeq(r, j, j + 3) = <<r[j], r[j + 1], r[j + 2], r[j + 3]>>
         /\ SubSeq(r, j, j + 3)[1] = r[j]
  <1> DEFINE u == SubSeq(r, j, j + 3)
             v == <<r[j], r[j + 1], r[j + 2], r[j + 3]>>
  <1>1. u \in Seq(X) /\ Len(u) = 4 /\ \A i \in 1..4 : u[i] = r[j + i - 1]
    OBVIOUS
  <1>2. Len(v) = 4 /\ v[1] = r[j] /\ v[2] = r[j + 1] /\ v[3] = r[j + 2] /\ v[4] = r[j + 3]
    OBVIOUS
  <1>3. j + 1 - 1 = j /\ j + 2 - 1 = j + 1 /\ j + 3 - 1 = j + 2 /\ j + 4 - 1 = j + 3
    OBVIOUS
  <1>4. {r[j], r[j + 1], r[j + 2], r[j + 3]} \subseteq X
    OBVIOUS
  <1>5. v \in Seq(X)
    BY <1>4
  <1> HIDE DEF u, v
  <1>6. u[1] = r[j] /\ u[2] = r[j + 1] /\ u[3] = r[j + 2] /\ u[4] = r[j + 3]
    BY <1>1, <1>3
  <1>7. \A i \in 1..4 : u[i] = v[i]
    BY <1>2, <1>6
  <1>8. u = v
    BY <1>1, <1>2, <1>5, <1>7, SameSeq
  <1> QED
    BY <1>6, <1>8 DEF u, v

(* Where the end of the paste is, counted from the next byte. *)
EndAt(F) == TextLen + 6 - F[1].i

LEMMA PasteAhead ==
  ASSUME NEW p \in Parser, p.in_paste, NEW F, Chain(F), Ahead(p, F), PasteOK(p, F),
         Len(p.buf) > 0
  PROVE  /\ EndAt(F) \in Nat \ {0} /\ F[1].i \in Nat /\ F[1].i - 5 \in Nat /\ TextLen \in Nat
         /\ EndAt(F) + F[1].i = TextLen + 6
         /\ \A j \in 1..Len(p.buf) : j < EndAt(F) =>
              /\ Values(p.buf)[j] = PasteText[F[1].i - 5 + j] /\ Values(p.buf)[j] # "esc"
              /\ F[1].i - 5 + j \in 1..TextLen
         /\ EndAt(F) + 3 <= Len(p.buf) =>
              /\ Values(p.buf)[EndAt(F)] = "esc" /\ Values(p.buf)[EndAt(F) + 1] = "["
              /\ Values(p.buf)[EndAt(F) + 2] = "201" /\ Values(p.buf)[EndAt(F) + 3] = "~"
  <1> DEFINE s == Values(p.buf)
  <1>1. Len(p.buf) \in Nat /\ Len(s) = Len(p.buf)
    BY BufferAhead
  <1>2. \A j \in 1..Len(p.buf) : j <= Len(Bytes(F[1].k)) - F[1].i + 1 =>
           s[j] = Bytes(F[1].k)[F[1].i + j - 1]
    BY KeyAhead, <1>1
  <1> HIDE DEF s
  <1>3. PICK T \in Nat : T = TextLen
    BY BytesOfPaste
  <1>4. /\ Len(Bytes("Paste")) = T + 8
        /\ \A i \in 1..T : Bytes("Paste")[i + 4] = PasteText[i]
        /\ Bytes("Paste")[T + 5] = "esc" /\ Bytes("Paste")[T + 6] = "["
        /\ Bytes("Paste")[T + 7] = "201" /\ Bytes("Paste")[T + 8] = "~"
    BY <1>3, BytesOfPaste
  <1>5. F[1].k = "Paste" /\ F[1].i \in 5..(T + 5)
    BY <1>3 DEF PasteOK
  <1>6. PICK i \in 5..(T + 5) : i = F[1].i
    BY <1>5
  <1>7. PICK e \in Nat \ {0} : e = T + 6 - i
    BY <1>3
  <1>8. e = EndAt(F)
    BY <1>3, <1>6, <1>7 DEF EndAt
  <1>9. \A j \in 1..Len(p.buf) : j <= e + 3 => s[j] = Bytes("Paste")[i + j - 1]
    <2> SUFFICES ASSUME NEW j \in 1..Len(p.buf), j <= e + 3
                 PROVE  s[j] = Bytes("Paste")[i + j - 1]
      OBVIOUS
    <2>1. j <= (T + 8) - i + 1
      BY <1>1, <1>7
    <2> QED
      BY <1>2, <1>4, <1>5, <1>6, <2>1
  <1>10. ASSUME NEW j \in 1..Len(p.buf), j < e
         PROVE  s[j] = PasteText[i - 5 + j] /\ s[j] # "esc" /\ i - 5 + j \in 1..T
    <2>1. j <= e + 3 /\ i - 5 + j \in 1..T /\ i + j - 1 = (i - 5 + j) + 4
      BY <1>1, <1>7, <1>10
    <2>2. s[j] = Bytes("Paste")[(i - 5 + j) + 4]
      BY <1>9, <2>1
    <2>3. s[j] = PasteText[i - 5 + j]
      BY <1>4, <2>1, <2>2
    <2>4. PasteText[i - 5 + j] # "esc"
      BY <1>3, <2>1, TextIsPlain
    <2> QED
      BY <2>1, <2>3, <2>4
  <1>11. ASSUME e + 3 <= Len(p.buf)
         PROVE  s[e] = "esc" /\ s[e + 1] = "[" /\ s[e + 2] = "201" /\ s[e + 3] = "~"
    <2>1. /\ e \in 1..Len(p.buf) /\ e + 1 \in 1..Len(p.buf)
          /\ e + 2 \in 1..Len(p.buf) /\ e + 3 \in 1..Len(p.buf)
      BY <1>1, <1>11
    <2>2. /\ i + e - 1 = T + 5 /\ i + (e + 1) - 1 = T + 6
          /\ i + (e + 2) - 1 = T + 7 /\ i + (e + 3) - 1 = T + 8
      BY <1>7
    <2>3. e <= e + 3 /\ e + 1 <= e + 3 /\ e + 2 <= e + 3 /\ e + 3 <= e + 3
      OBVIOUS
    <2>4. /\ s[e] = Bytes("Paste")[i + e - 1] /\ s[e + 1] = Bytes("Paste")[i + (e + 1) - 1]
          /\ s[e + 2] = Bytes("Paste")[i + (e + 2) - 1]
          /\ s[e + 3] = Bytes("Paste")[i + (e + 3) - 1]
      BY <1>9, <2>1, <2>3
    <2> QED
      BY <1>4, <2>2, <2>4
  <1>12. i - 5 \in Nat /\ i \in Nat /\ e + i = T + 6
    BY <1>7
  <1> QED
    BY <1>3, <1>6, <1>8, <1>10, <1>11, <1>12 DEF s

(* The ends that StepInPaste() finds. *)
Ends(p) ==
  {i \in (RescanFrom(p) + 1)..(Len(Values(p.buf)) - 3) : SubSeq(Values(p.buf), i, i + 3) = PasteEnd}

LEMMA RescanIsBehind ==
  ASSUME NEW p \in Parser
  PROVE  RescanFrom(p) \in 0..p.paste_scanned
  <1>1. Len(PasteEnd) - 1 = 3
    BY DEF PasteEnd
  <1>2. PICK n \in Nat : n = p.paste_scanned
    BY DEF Parser
  <1>3. RescanFrom(p) = IF n > 3 THEN n - 3 ELSE 0
    BY <1>1, <1>2 DEF RescanFrom
  <1> QED
    BY <1>2, <1>3

LEMMA EndsFound ==
  ASSUME NEW p \in Parser, p.in_paste, NEW F, Chain(F), Ahead(p, F), PasteOK(p, F),
         Len(p.buf) > 0
  PROVE  /\ EndAt(F) + 3 <= Len(p.buf) => EndAt(F) \in Ends(p)
         /\ \A i \in Ends(p) : EndAt(F) <= i /\ i + 3 <= Len(p.buf) /\ i \in Nat
  <1> DEFINE s == Values(p.buf)
  <1>1. PICK n \in Nat : n = Len(p.buf) /\ Len(s) = n
    BY BufferAhead
  <1>2. s \in Seq(Value \cup {"header"})
    BY ValuesAre DEF Parser
  <1>3. PICK e \in Nat \ {0} : e = EndAt(F)
    BY PasteAhead
  <1>4. /\ \A j \in 1..n : j < e => s[j] # "esc"
        /\ e + 3 <= n => s[e] = "esc" /\ s[e + 1] = "[" /\ s[e + 2] = "201" /\ s[e + 3] = "~"
    BY <1>1, <1>3, PasteAhead
  <1>5. PICK r \in Nat : r = RescanFrom(p) /\ r < e
    <2>1. p.paste_scanned \in Nat /\ p.paste_scanned < e
      BY <1>3 DEF PasteOK, EndAt, Parser
    <2>2. RescanFrom(p) \in 0..p.paste_scanned
      BY RescanIsBehind
    <2> QED
      BY <2>1, <2>2
  <1> HIDE DEF s
  <1>6. Ends(p) = {i \in (r + 1)..(n - 3) : SubSeq(s, i, i + 3) = PasteEnd}
    BY <1>1, <1>5 DEF Ends, s
  <1>7. e + 3 <= n => e \in Ends(p)
    <2> SUFFICES ASSUME e + 3 <= n PROVE e \in Ends(p)
      OBVIOUS
    <2>1. e \in (r + 1)..(n - 3) /\ e \in 1..Len(s) /\ e + 3 <= Len(s)
      BY <1>1, <1>3, <1>5
    <2>2. SubSeq(s, e, e + 3) = <<s[e], s[e + 1], s[e + 2], s[e + 3]>>
      BY <1>2, <2>1, FourOf
    <2>3. SubSeq(s, e, e + 3) = PasteEnd
      BY <1>4, <2>2 DEF PasteEnd
    <2> QED
      BY <1>6, <2>1, <2>3
  <1>8. \A i \in Ends(p) : e <= i /\ i + 3 <= n /\ i \in Nat
    <2> SUFFICES ASSUME NEW i \in Ends(p) PROVE e <= i /\ i + 3 <= n /\ i \in Nat
      OBVIOUS
    <2>1. i \in (r + 1)..(n - 3) /\ SubSeq(s, i, i + 3) = PasteEnd
      BY <1>6
    <2>2. i \in Nat /\ i + 3 <= n /\ i \in 1..n
      BY <1>1, <1>5, <2>1
    <2>3. SubSeq(s, i, i + 3)[1] = s[i]
      BY <1>1, <1>2, <2>2, FourOf
    <2>4. PasteEnd[1] = "esc"
      BY DEF PasteEnd
    <2>5. ~(i < e)
      BY <1>4, <2>1, <2>2, <2>3, <2>4
    <2> QED
      BY <1>3, <2>2, <2>5
  <1> QED
    BY <1>1, <1>3, <1>7, <1>8

LEMMA SliceOf ==
  ASSUME NEW X, NEW r \in Seq(X), NEW u \in Seq(X), NEW a \in Nat, NEW n \in Nat,
         n <= Len(r), a + n <= Len(u), \A j \in 1..n : r[j] = u[a + j]
  PROVE  SubSeq(r, 1, n) = SubSeq(u, a + 1, a + n)
  <1> DEFINE v == SubSeq(r, 1, n)
             w == SubSeq(u, a + 1, a + n)
  <1>1. v \in Seq(X) /\ Len(v) = n /\ \A j \in 1..n : v[j] = r[j]
    OBVIOUS
  <1>2. w \in Seq(X) /\ Len(w) = n /\ \A j \in 1..n : w[j] = u[a + j]
    <2>1. w \in Seq(X) /\ Len(w) = n
      OBVIOUS
    <2>2. \A j \in 1..n : w[j] = u[(a + 1) + j - 1] /\ (a + 1) + j - 1 = a + j
      OBVIOUS
    <2> QED
      BY <2>1, <2>2
  <1> HIDE DEF v, w
  <1>3. \A j \in 1..n : v[j] = w[j]
    BY <1>1, <1>2
  <1>4. v = w
    BY <1>1, <1>2, <1>3, SameSeq
  <1> QED
    BY <1>4 DEF v, w

(* StepInPaste(), by the ends it finds. *)
LEMMA InPasteEnd ==
  ASSUME NEW p \in Parser, p.in_paste, NEW e \in Ends(p), \A j \in Ends(p) : e <= j,
         Ends(p) \subseteq Nat
  PROVE  Step(p) = Took([p EXCEPT !.paste_scanned = 0, !.in_paste = FALSE], e + 3,
                        <<Pasted(SubSeq(Values(p.buf), 1, e - 1), TRUE)>>)
  <1>1. Step(p) = StepInPaste(p)
    BY DEF Step
  <1>2. Len(PasteEnd) - 1 = 3
    BY DEF PasteEnd
  <1> DEFINE E == Ends(p)
  <1>3. (CHOOSE i \in E : \A j \in E : i <= j) = e
    <2> DEFINE c == CHOOSE i \in E : \A j \in E : i <= j
    <2>1. c \in E /\ \A j \in E : c <= j
      OBVIOUS
    <2> HIDE DEF c, E
    <2>2. c <= e /\ e <= c /\ c \in Nat /\ e \in Nat
      BY <2>1 DEF E
    <2>3. c = e
      BY <2>2
    <2> QED
      BY <2>3 DEF c
  <1>4. [[p EXCEPT !.paste_scanned = 0] EXCEPT !.in_paste = FALSE]
          = [p EXCEPT !.paste_scanned = 0, !.in_paste = FALSE]
    OBVIOUS
  <1>5. E = {i \in (RescanFrom(p) + 1)..(Len(Values(p.buf)) - 3) :
               SubSeq(Values(p.buf), i, i + 3) = PasteEnd}
    BY DEF Ends
  <1> HIDE DEF E
  <1>6. E # {}
    BY DEF E
  <1>7. StepInPaste(p) =
          Took([[p EXCEPT !.paste_scanned = 0] EXCEPT !.in_paste = FALSE],
               (CHOOSE i \in E : \A j \in E : i <= j) + 3,
               <<Pasted(SubSeq(Values(p.buf), 1, (CHOOSE i \in E : \A j \in E : i <= j) - 1), TRUE)>>)
    BY <1>2, <1>5, <1>6 DEF StepInPaste
  <1> QED
    BY <1>1, <1>3, <1>4, <1>7

LEMMA InPasteOpen ==
  ASSUME NEW p \in Parser, p.in_paste, Ends(p) = {}
  PROVE  Step(p) =
           IF Len(Values(p.buf)) >= MaxPasteChunk
           THEN Took([p EXCEPT !.paste_scanned = 0], Len(Values(p.buf)) - 3,
                     <<Pasted(SubSeq(Values(p.buf), 1, Len(Values(p.buf)) - 3), FALSE)>>)
           ELSE Waits([p EXCEPT !.paste_scanned =
                         IF Len(Values(p.buf)) >= 3 THEN Len(Values(p.buf)) - 3 ELSE 0])
  <1>1. Step(p) = StepInPaste(p)
    BY DEF Step
  <1>2. Len(PasteEnd) - 1 = 3
    BY DEF PasteEnd
  <1>3. {i \in (RescanFrom(p) + 1)..(Len(Values(p.buf)) - 3) :
               SubSeq(Values(p.buf), i, i + 3) = PasteEnd} = {}
    BY DEF Ends
  <1>4. StepInPaste(p) =
           IF Len(Values(p.buf)) >= MaxPasteChunk
           THEN Took([p EXCEPT !.paste_scanned = 0], Len(Values(p.buf)) - 3,
                     <<Pasted(SubSeq(Values(p.buf), 1, Len(Values(p.buf)) - 3), FALSE)>>)
           ELSE Waits([p EXCEPT !.paste_scanned =
                         IF Len(Values(p.buf)) >= 3 THEN Len(Values(p.buf)) - 3 ELSE 0])
    BY <1>2, <1>3 DEF StepInPaste
  <1> QED
    BY <1>1, <1>4

LEMMA PasteArith ==
  ASSUME NEW e \in Nat \ {0}, NEW i \in Nat, NEW T \in Nat, i >= 5, e + i = T + 6
  PROVE  /\ e + 3 = T + 9 - i /\ i - 4 + (e - 1) - 1 = T /\ e - 1 \in Nat /\ i - 5 \in Nat
         /\ \A m \in Nat : m < e =>
              /\ (i - 5) + m <= T /\ i - 4 = (i - 5) + 1 /\ i - 4 + m - 1 = (i - 5) + m
              /\ i + m \in 5..(T + 5) /\ 0 < T + 6 - (i + m) /\ m <= T + 5 - i
              /\ m <= (T + 8) - i
  OBVIOUS

LEMMA StepPaste ==
  ASSUME NEW p \in Parser, p.in_paste, NEW F, Chain(F), Ahead(p, F), PasteOK(p, F),
         Len(p.buf) > 0
  PROVE  StepOK(Step(p), p, F)
  <1> DEFINE s == Values(p.buf)
  <1>1. PICK n \in Nat : n = Len(p.buf) /\ Len(s) = n /\ n > 0
    BY BufferAhead
  <1>2. PICK e \in Nat \ {0}, i \in Nat, T \in Nat :
          e = EndAt(F) /\ i = F[1].i /\ T = TextLen /\ i - 5 \in Nat /\ e + i = T + 6
    <2>1. /\ EndAt(F) \in Nat \ {0} /\ F[1].i \in Nat /\ F[1].i - 5 \in Nat /\ TextLen \in Nat
          /\ EndAt(F) + F[1].i = TextLen + 6
      BY PasteAhead
    <2> QED
      BY <2>1
  <1>a. /\ e + 3 = T + 9 - i /\ i - 4 + (e - 1) - 1 = T /\ e - 1 \in Nat /\ i - 5 \in Nat
        /\ \A m \in Nat : m < e =>
             /\ (i - 5) + m <= T /\ i - 4 = (i - 5) + 1 /\ i - 4 + m - 1 = (i - 5) + m
             /\ i + m \in 5..(T + 5) /\ 0 < T + 6 - (i + m) /\ m <= T + 5 - i
             /\ m <= (T + 8) - i
    <2>1. i >= 5 /\ e + i = T + 6
      BY <1>2
    <2> QED
      BY <2>1, PasteArith
  <1>3. \A j \in 1..n : j < e => s[j] = PasteText[i - 5 + j]
    BY <1>1, <1>2, PasteAhead
  <1>4. /\ e + 3 <= n => e \in Ends(p)
        /\ \A j \in Ends(p) : e <= j /\ j + 3 <= n /\ j \in Nat
    BY <1>1, <1>2, EndsFound
  <1>5. s \in Seq(Value \cup {"header"}) /\ PasteText \in Seq(Value \cup {"header"})
    <2>1. s \in Seq(Value \cup {"header"})
      BY ValuesAre DEF Parser
    <2>2. PasteText \in Seq(Value)
      BY TextIsSeq
    <2> QED
      BY <2>1, <2>2
  <1>6. Len(PasteText) = T
    BY <1>2 DEF TextLen
  <1>7. F \in Seq(Byte) /\ n <= Len(F) /\ Len(F) \in Nat /\ Len(F) > 0
    BY <1>1 DEF Chain, Ahead
  <1>8. F[1].k = "Paste" /\ p.paste_scanned < e
    BY <1>2 DEF PasteOK, EndAt
  <1> HIDE DEF s
  <1>9. \A m \in 0..n : m < e => SubSeq(s, 1, m) = SubSeq(PasteText, i - 4, i - 4 + m - 1)
    <2> SUFFICES ASSUME NEW m \in 0..n, m < e
                 PROVE  SubSeq(s, 1, m) = SubSeq(PasteText, i - 4, i - 4 + m - 1)
      OBVIOUS
    <2>1. PICK a \in Nat : a = i - 5
      BY <1>2
    <2>2. m \in Nat /\ m <= Len(s) /\ a + m <= Len(PasteText)
          /\ i - 4 = a + 1 /\ i - 4 + m - 1 = a + m
      BY <1>1, <1>a, <1>6, <2>1
    <2>3. \A j \in 1..m : j \in 1..n /\ j < e
      OBVIOUS
    <2>4. \A j \in 1..m : s[j] = PasteText[a + j]
      BY <1>3, <2>1, <2>3
    <2>5. SubSeq(s, 1, m) = SubSeq(PasteText, a + 1, a + m)
      <3> DEFINE u == PasteText
                 X == Value \cup {"header"}
      <3>1. s \in Seq(X) /\ u \in Seq(X) /\ m \in Nat /\ m <= Len(s) /\ a + m <= Len(u)
            /\ \A j \in 1..m : s[j] = u[a + j]
        BY <1>5, <2>2, <2>4
      <3> HIDE DEF u, X
      <3>2. SubSeq(s, 1, m) = SubSeq(u, a + 1, a + m)
        BY <3>1, SliceOf
      <3> QED
        BY <3>2 DEF u
    <2> QED
      BY <2>2, <2>5
  <1>10. CASE Ends(p) # {}
    <2>1. e \in Ends(p) /\ (\A j \in Ends(p) : e <= j) /\ Ends(p) \subseteq Nat /\ e + 3 <= n
      <3>1. e + 3 <= n
        BY <1>1, <1>4, <1>10
      <3> QED
        BY <1>4, <3>1
    <2> DEFINE q  == [p EXCEPT !.paste_scanned = 0, !.in_paste = FALSE]
               ev == <<Pasted(SubSeq(s, 1, e - 1), TRUE)>>
               t  == Took(q, e + 3, ev)
    <2>2. Step(p) = t
      BY <2>1, InPasteEnd DEF s
    <2>3. q \in Parser /\ q.buf = p.buf /\ q.in_paste = FALSE
      BY DEF Parser
    <2>4. ev = <<Pasted(SubSeq(PasteText, F[1].i - 4, TextLen), TRUE)>>
      <3>1. e - 1 \in 0..n /\ e - 1 < e /\ i - 4 + (e - 1) - 1 = T
        BY <1>a, <2>1
      <3>2. SubSeq(s, 1, e - 1) = SubSeq(PasteText, i - 4, T)
        BY <1>9, <3>1
      <3> QED
        BY <1>2, <3>2
    <2> HIDE DEF q, ev
    <2>5. e + 3 \in 0..Len(q.buf)
      BY <1>1, <2>1, <2>3
    <2>6. TookIs(t, q, e + 3, ev)
      BY <2>3, <2>5, TookSpec
    <2> HIDE DEF t
    <2>7. t.used = e + 3 /\ t.events = ev /\ t.parser \in Parser /\ t.parser.buf = Cut(p.buf, t.used)
      BY <2>3, <2>6 DEF TookIs
    <2>8. t.parser.in_paste = FALSE /\ ~t.parser.esc_pending
      BY <2>3, <2>6 DEF TookIs
    <2>9. e + 3 = TextLen + 9 - F[1].i
      <3>1. e + 3 = T + 9 - i
        BY <1>a
      <3> QED
        BY <1>2, <3>1
    <2>10. TakesEnd(F, p.in_paste, t.used, t.events, t.parser.in_paste)
      BY <2>4, <2>7, <2>8, <2>9 DEF TakesEnd
    <2>11. Takes(F, p.in_paste, t.used, t.events, t.parser.in_paste)
      BY <2>10 DEF Takes
    <2>12. PasteOK(t.parser, Cut(F, t.used))
      BY <2>8 DEF PasteOK
    <2>13. t.used \in 0..Len(p.buf)
      BY <2>3, <2>5, <2>7
    <2> QED
      BY <2>2, <2>7, <2>8, <2>11, <2>12, <2>13 DEF StepOK
  <1>11. CASE Ends(p) = {} /\ n >= MaxPasteChunk
    <2>1. PICK m \in Nat : m = n - 3 /\ m > 0 /\ m < e /\ m <= n
      <3>1. ~(e + 3 <= n)
        BY <1>4, <1>11
      <3>2. MaxPasteChunk \in Nat /\ MaxPasteChunk > 3
        BY InputParserAssumption
      <3>3. n >= MaxPasteChunk
        BY <1>11
      <3>4. n > 3
        BY <3>2, <3>3
      <3>5. n - 3 \in Nat /\ n - 3 > 0 /\ n - 3 < e /\ n - 3 <= n
        BY <3>1, <3>4
      <3> QED
        BY <3>5
    <2> DEFINE q  == [p EXCEPT !.paste_scanned = 0]
               ev == <<Pasted(SubSeq(s, 1, m), FALSE)>>
               t  == Took(q, m, ev)
    <2>2. Step(p) = t
      <3>1. Len(Values(p.buf)) = n /\ n >= MaxPasteChunk
        BY <1>1, <1>11 DEF s
      <3> QED
        BY <1>11, <2>1, <3>1, InPasteOpen DEF s
    <2>3. q \in Parser /\ q.buf = p.buf /\ q.in_paste = p.in_paste /\ q.paste_scanned = 0
      BY DEF Parser
    <2>4. ev = <<Pasted(SubSeq(PasteText, F[1].i - 4, F[1].i - 4 + m - 1), FALSE)>>
      <3>1. m \in 0..n
        BY <2>1
      <3>2. SubSeq(s, 1, m) = SubSeq(PasteText, i - 4, i - 4 + m - 1)
        BY <1>9, <2>1, <3>1
      <3> QED
        BY <1>2, <3>2
    <2> HIDE DEF q, ev
    <2>5. m \in 0..Len(q.buf)
      BY <1>1, <2>1, <2>3
    <2>6. TookIs(t, q, m, ev)
      BY <2>3, <2>5, TookSpec
    <2> HIDE DEF t
    <2>7. t.used = m /\ t.events = ev /\ t.parser \in Parser /\ t.parser.buf = Cut(p.buf, t.used)
      BY <2>3, <2>6 DEF TookIs
    <2>8. t.parser.in_paste = p.in_paste /\ ~t.parser.esc_pending /\ t.parser.paste_scanned = 0
      BY <2>3, <2>6 DEF TookIs
    <2>9. m \in 1..(TextLen + 5 - F[1].i)
      <3>1. m \in 1..(T + 5 - i)
        BY <1>a, <2>1
      <3> QED
        BY <1>2, <3>1
    <2>10. TakesSlice(F, p.in_paste, t.used, t.events, t.parser.in_paste)
      BY <2>4, <2>7, <2>8, <2>9 DEF TakesSlice
    <2>11. Takes(F, p.in_paste, t.used, t.events, t.parser.in_paste)
      BY <2>10 DEF Takes
    <2>12. PasteOK(t.parser, Cut(F, t.used))
      <3>1. m \in 0..(Len(Bytes(F[1].k)) - F[1].i)
        <4>1. Len(Bytes(F[1].k)) = T + 8
          BY <1>2, <1>8, BytesOfPaste
        <4> QED
          BY <1>2, <2>1, <4>1
      <3>2. m + 1 \in 1..Len(F) /\ F[m + 1].k = F[1].k /\ F[m + 1].i = F[1].i + m
        BY <1>7, <3>1, ChainAhead
      <3>3. m \in 0..Len(F) /\ 1 \in 1..(Len(F) - m)
        BY <1>7, <2>1, <3>2
      <3>4. Len(Cut(F, m)) = Len(F) - m /\ Cut(F, m)[1] = F[m + 1]
        BY <1>7, <3>3, CutIs
      <3>5. Cut(F, m)[1].k = "Paste" /\ Cut(F, m)[1].i = i + m /\ Len(Cut(F, m)) > 0
        BY <1>2, <1>7, <1>8, <3>2, <3>3, <3>4
      <3>6. i + m \in 5..(T + 5) /\ 0 < T + 6 - (i + m)
        BY <1>a, <2>1
      <3> QED
        BY <1>2, <2>7, <2>8, <3>5, <3>6 DEF PasteOK
    <2>13. t.used \in 0..Len(p.buf)
      BY <2>3, <2>5, <2>7
    <2> QED
      BY <2>2, <2>7, <2>8, <2>11, <2>12, <2>13 DEF StepOK
  <1>12. CASE Ends(p) = {} /\ ~(n >= MaxPasteChunk)
    <2>1. PICK m \in Nat : m = (IF n >= 3 THEN n - 3 ELSE 0) /\ m < e
      <3>1. ~(e + 3 <= n)
        BY <1>4, <1>12
      <3> QED
        BY <1>2, <3>1
    <2> DEFINE q  == [p EXCEPT !.paste_scanned = m]
               t  == Took(q, 0, <<>>)
    <2>2. Step(p) = t
      <3>1. Len(Values(p.buf)) = n
        BY <1>1 DEF s
      <3> QED
        BY <1>12, <2>1, <3>1, InPasteOpen DEF Waits
    <2>3. q \in Parser /\ q.buf = p.buf /\ q.in_paste = p.in_paste /\ q.paste_scanned = m
      BY DEF Parser
    <2> HIDE DEF q
    <2>5. 0 \in 0..Len(q.buf)
      BY <1>1, <2>3
    <2>6. TookIs(t, q, 0, <<>>)
      BY <2>3, <2>5, TookSpec
    <2> HIDE DEF t
    <2>7. t.used = 0 /\ t.events = <<>> /\ t.parser \in Parser /\ t.parser.buf = Cut(p.buf, t.used)
      BY <2>3, <2>6 DEF TookIs
    <2>8. t.parser.in_paste = p.in_paste /\ ~t.parser.esc_pending /\ t.parser.paste_scanned = m
      BY <2>3, <2>6 DEF TookIs
    <2>10. Stays(F, p.in_paste, t.used, t.events, t.parser.in_paste)
      BY <2>7, <2>8 DEF Stays
    <2>11. Takes(F, p.in_paste, t.used, t.events, t.parser.in_paste)
      BY <2>10 DEF Takes
    <2>12. PasteOK(t.parser, Cut(F, t.used))
      <3>1. Cut(F, 0) = F
        BY <1>7 DEF Cut
      <3>2. F[1].i \in 5..(TextLen + 5) /\ m < TextLen + 6 - F[1].i
        BY <1>2, <2>1 DEF PasteOK, EndAt
      <3> QED
        BY <1>7, <1>8, <2>7, <2>8, <3>1, <3>2 DEF PasteOK
    <2>13. t.used \in 0..Len(p.buf)
      BY <2>3, <2>5, <2>7
    <2> QED
      BY <2>2, <2>7, <2>8, <2>11, <2>12, <2>13 DEF StepOK
  <1> QED
    BY <1>10, <1>11, <1>12

(* step(), wherever the parser is. *)
LEMMA StepIsTaken ==
  ASSUME NoOpener, NEW p \in Parser, NEW F, Chain(F), Ahead(p, F), PasteOK(p, F), Len(p.buf) > 0
  PROVE  StepOK(Step(p), p, F)
  BY StepPlain, StepPaste

(* timeout(), of a lone escape. *)
TimeoutOK(t, p) ==
  /\ t.events = <<Event("Escape")>> /\ t.parser \in Parser /\ t.parser.buf = Cut(p.buf, 1)
  /\ ~t.parser.in_paste /\ ~t.parser.esc_pending

LEMMA TimeoutIsTaken ==
  ASSUME NEW p \in Parser, ~p.in_paste, Len(p.buf) = 1, p.buf[1].b = "esc"
  PROVE  TimeoutOK(Timeout(p), p)
  <1> DEFINE s == Values(p.buf)
             ev == <<Event("Escape")>> \o [i \in 1..(Len(s) - 1) |-> Event(s[i + 1])]
             t == Took(p, 1, <<Event("Escape")>>)
  <1>1. p.buf \in Seq(Byte)
    BY DEF Parser
  <1>2. s \in Seq(Value \cup {"header"}) /\ Len(s) = 1 /\ s[1] = "esc"
    BY <1>1, ValuesAre
  <1>3. s # <<>>
    BY <1>2
  <1> HIDE DEF s
  <1>4. ev = <<Event("Escape")>>
    <2> DEFINE e == Event("Escape")
    <2> HIDE DEF e
    <2>1. Len(s) - 1 = 0
      BY <1>2
    <2>2. [i \in 1..(Len(s) - 1) |-> Event(s[i + 1])] = <<>>
      <3> DEFINE f == [i \in 1..0 |-> Event(s[i + 1])]
      <3>1. f \in Seq({}) /\ Len(f) = 0
        OBVIOUS
      <3> HIDE DEF f
      <3>2. f = <<>>
        BY <3>1
      <3> QED
        BY <2>1, <3>2 DEF f
    <2>3. <<e>> \o <<>> = <<e>>
      OBVIOUS
    <2> QED
      BY <2>2, <2>3 DEF e
  <1> HIDE DEF ev
  <1>5. Timeout(p) = Took(p, Len(s), ev)
    BY <1>2, <1>3 DEF Timeout, s, ev
  <1>6. Timeout(p) = t
    BY <1>2, <1>4, <1>5
  <1>7. TookIs(t, p, 1, <<Event("Escape")>>)
    <2>1. 1 \in 0..Len(p.buf)
      OBVIOUS
    <2> QED
      BY <2>1, TookSpec
  <1> HIDE DEF t
  <1>8. TimeoutOK(t, p)
    BY <1>7 DEF TookIs, TimeoutOK
  <1> QED
    BY <1>6, <1>8

-----------------------------------------------------------------------------
(* Induction on the length of a sequence, and the sequences made of the     *)
(* pieces that the elements of another one stand for.                       *)
LEMMA SeqInduct ==
  ASSUME NEW X, NEW S, <<>> \in S,
         \A u \in Seq(X) : \A x \in X : u \in S => Append(u, x) \in S
  PROVE  \A u \in Seq(X) : u \in S
  <1> SUFFICES ASSUME NEW u \in Seq(X), u \notin S PROVE FALSE
    OBVIOUS
  <1> DEFINE P(n) == SubSeq(u, 1, n)
             T == {n \in 0..Len(u) : P(n) \notin S}
  <1>1. P(Len(u)) = u /\ Len(u) \in 0..Len(u)
    OBVIOUS
  <1>2. T \in SUBSET Nat /\ T # {}
    <2>1. Len(u) \in T
      <3> HIDE DEF P
      <3> QED
        BY <1>1
    <2>2. 0..Len(u) \subseteq Nat
      OBVIOUS
    <2> QED
      BY <2>1, <2>2
  <1>3. PICK n \in T : \A y \in T : n <= y
    <2> HIDE DEF T
    <2> QED
      BY <1>2, LeastNatural
  <1>4. n \in 0..Len(u) /\ P(n) \notin S
    BY <1>3
  <1>5. CASE n = 0
    <2>1. P(0) = <<>>
      OBVIOUS
    <2> QED
      BY <1>4, <1>5, <2>1
  <1>6. CASE n # 0
    <2>1. n - 1 \in 0..Len(u) /\ ~(n <= n - 1) /\ n \in 1..Len(u)
      BY <1>4, <1>6
    <2>2. n - 1 \notin T
      <3> HIDE DEF T
      <3> QED
        BY <1>3, <2>1
    <2>3. P(n - 1) \in S
      BY <2>1, <2>2
    <2>4. P(n) = Append(P(n - 1), u[n]) /\ P(n - 1) \in Seq(X) /\ u[n] \in X
      BY <2>1
    <2> HIDE DEF P
    <2> QED
      BY <1>4, <2>3, <2>4
  <1> QED
    BY <1>5, <1>6

Map(g, u) == [j \in DOMAIN u |-> g[u[j]]]

FlatMap(g, u) == FlattenSeq(Map(g, u))

IsMap(m, g, u, Y) ==
  m \in Seq(Y) /\ Len(m) = Len(u) /\ \A j \in 1..Len(u) : m[j] = g[u[j]]

LEMMA MapIs ==
  ASSUME NEW X, NEW Y, NEW g \in [X -> Y], NEW u \in Seq(X)
  PROVE  IsMap(Map(g, u), g, u, Y)
  <1>1. PICK n \in Nat : n = Len(u) /\ DOMAIN u = 1..n
    OBVIOUS
  <1>2. \A j \in 1..n : u[j] \in X
    BY <1>1
  <1>3. \A j \in 1..n : g[u[j]] \in Y
    BY <1>2
  <1>4. Map(g, u) = [j \in 1..n |-> g[u[j]]]
    BY <1>1 DEF Map
  <1> QED
    BY <1>1, <1>3, <1>4 DEF IsMap

LEMMA MapAppend ==
  ASSUME NEW X, NEW Y, NEW g \in [X -> Y], NEW u \in Seq(X), NEW x \in X
  PROVE  Map(g, Append(u, x)) = Append(Map(g, u), g[x])
  <1> DEFINE v == Append(u, x)
             m == Map(g, u)
             w == Map(g, v)
             z == Append(m, g[x])
  <1>1. /\ v \in Seq(X) /\ Len(v) = Len(u) + 1 /\ Len(u) \in Nat /\ g[x] \in Y
        /\ \A j \in 1..Len(u) : v[j] = u[j]
        /\ v[Len(u) + 1] = x
    OBVIOUS
  <1> HIDE DEF v
  <1>2. w \in Seq(Y) /\ Len(w) = Len(v) /\ \A j \in 1..Len(v) : w[j] = g[v[j]]
    <2>1. IsMap(w, g, v, Y)
      BY <1>1, MapIs
    <2> HIDE DEF w
    <2> QED
      BY <2>1 DEF IsMap
  <1>3. m \in Seq(Y) /\ Len(m) = Len(u) /\ \A j \in 1..Len(u) : m[j] = g[u[j]]
    <2>1. IsMap(m, g, u, Y)
      BY <1>1, MapIs
    <2> HIDE DEF m
    <2> QED
      BY <2>1 DEF IsMap
  <1> HIDE DEF m, w
  <1>4. /\ z \in Seq(Y) /\ Len(z) = Len(u) + 1 /\ z[Len(u) + 1] = g[x]
        /\ \A j \in 1..Len(u) : z[j] = m[j]
    BY <1>1, <1>3
  <1> HIDE DEF z
  <1>5. \A j \in 1..Len(w) : w[j] = z[j]
    <2> TAKE j \in 1..Len(w)
    <2>1. CASE j = Len(u) + 1
      BY <1>1, <1>2, <1>4, <2>1
    <2>2. CASE j \in 1..Len(u)
      BY <1>1, <1>2, <1>3, <1>4, <2>2
    <2> QED
      BY <1>1, <1>2, <2>1, <2>2
  <1>6. w = z
    BY <1>1, <1>2, <1>4, <1>5, SameSeq
  <1> QED
    BY <1>6 DEF v, w, z, m

LEMMA FlatMapEmpty ==
  ASSUME NEW g PROVE FlatMap(g, <<>>) = <<>>
  <1>1. Map(g, <<>>) = <<>>
    BY DEF Map
  <1> QED
    BY <1>1, FlattenEmpty DEF FlatMap

LEMMA FlatMapType ==
  ASSUME NEW X, NEW Y, NEW g \in [X -> Seq(Y)], NEW u \in Seq(X)
  PROVE  FlatMap(g, u) \in Seq(Y)
  <1>1. Map(g, u) \in Seq(Seq(Y))
    BY MapIs DEF IsMap
  <1> QED
    BY <1>1, FlattenType DEF FlatMap

LEMMA FlatMapAppend ==
  ASSUME NEW X, NEW Y, NEW g \in [X -> Seq(Y)], NEW u \in Seq(X), NEW x \in X
  PROVE  FlatMap(g, Append(u, x)) = FlatMap(g, u) \o g[x]
  <1>1. Map(g, u) \in Seq(Seq(Y)) /\ g[x] \in Seq(Y)
    BY MapIs DEF IsMap
  <1>2. Map(g, Append(u, x)) = Append(Map(g, u), g[x])
    BY MapAppend
  <1> QED
    BY <1>1, <1>2, FlattenAppend DEF FlatMap

LEMMA FlatMapCat ==
  ASSUME NEW X, NEW Y, NEW g \in [X -> Seq(Y)], NEW u \in Seq(X), NEW v \in Seq(X)
  PROVE  FlatMap(g, u \o v) = FlatMap(g, u) \o FlatMap(g, v)
  <1> DEFINE S == {w \in Seq(X) : FlatMap(g, u \o w) = FlatMap(g, u) \o FlatMap(g, w)}
  <1>1. \A w \in Seq(X) : FlatMap(g, w) \in Seq(Y)
    BY FlatMapType
  <1>2. <<>> \in S
    <2>1. u \o <<>> = u /\ <<>> \in Seq(X)
      OBVIOUS
    <2>2. \A f \in Seq(Y) : f \o <<>> = f
      OBVIOUS
    <2>3. FlatMap(g, u) \o <<>> = FlatMap(g, u)
      BY <1>1, <2>2
    <2> QED
      BY <2>1, <2>3, FlatMapEmpty
  <1>3. ASSUME NEW w \in Seq(X), NEW x \in X, w \in S PROVE Append(w, x) \in S
    <2>1. u \o Append(w, x) = Append(u \o w, x)
      <3>1. AddsOne(u, w, x)
        BY CatAppend
      <3> QED
        BY <3>1 DEF AddsOne
    <2>2. u \o w \in Seq(X) /\ Append(w, x) \in Seq(X)
      OBVIOUS
    <2>3. FlatMap(g, Append(u \o w, x)) = FlatMap(g, u \o w) \o g[x]
      BY <2>2, FlatMapAppend
    <2>4. FlatMap(g, Append(w, x)) = FlatMap(g, w) \o g[x]
      BY FlatMapAppend
    <2>5. FlatMap(g, u \o w) = FlatMap(g, u) \o FlatMap(g, w)
      BY <1>3
    <2>6. (FlatMap(g, u) \o FlatMap(g, w)) \o g[x] = FlatMap(g, u) \o (FlatMap(g, w) \o g[x])
      <3>1. FlatMap(g, u) \in Seq(Y) /\ FlatMap(g, w) \in Seq(Y) /\ g[x] \in Seq(Y)
        BY <1>1
      <3>2. Assoc(FlatMap(g, u), FlatMap(g, w), g[x])
        BY <3>1, AssocIs
      <3> QED
        BY <3>2 DEF Assoc
    <2>7. FlatMap(g, u \o Append(w, x)) = FlatMap(g, u) \o FlatMap(g, Append(w, x))
      BY <2>1, <2>3, <2>4, <2>5, <2>6
    <2> QED
      BY <2>2, <2>7
  <1> HIDE DEF S
  <1>4. v \in S
    BY <1>2, <1>3, SeqInduct
  <1> QED
    BY <1>4 DEF S

Splits(g, a, u) == FlatMap(g, a \o u) = FlatMap(g, a) \o FlatMap(g, u)

LEMMA MapSplits ==
  ASSUME NEW X, NEW Y, NEW g \in [X -> Seq(Y)], NEW a \in Seq(X), NEW u \in Seq(X)
  PROVE  Splits(g, a, u)
  BY FlatMapCat DEF Splits

Grows(g, u, x) == FlatMap(g, Append(u, x)) = FlatMap(g, u) \o g[x]

LEMMA MapGrows ==
  ASSUME NEW X, NEW Y, NEW g \in [X -> Seq(Y)], NEW u \in Seq(X), NEW x \in X
  PROVE  Grows(g, u, x)
  BY FlatMapAppend DEF Grows

LEMMA FlatMapOne ==
  ASSUME NEW X, NEW Y, NEW g \in [X -> Seq(Y)], NEW x \in X
  PROVE  FlatMap(g, <<x>>) = g[x]
  <1>1. Append(<<>>, x) = <<x>> /\ <<>> \in Seq(X)
    OBVIOUS
  <1>2. FlatMap(g, Append(<<>>, x)) = <<>> \o g[x]
    BY <1>1, FlatMapAppend, FlatMapEmpty
  <1>3. \A f \in Seq(Y) : <<>> \o f = f
    OBVIOUS
  <1> QED
    BY <1>1, <1>2, <1>3

-----------------------------------------------------------------------------
(* Bodies and frames. *)
Plain == {x \in Byte : x.b # "header"}

piece == [x \in Byte |-> IF x.b = "header" THEN <<>> ELSE <<x>>]

LEMMA PieceType == piece \in [Byte -> Seq(Byte)]
  BY DEF piece

LEMMA PlainIsByte ==
  ASSUME NEW s \in Seq(Plain) PROVE s \in Seq(Byte)
  BY DEF Plain

LEMMA BodyIs ==
  ASSUME NEW s \in Seq(Byte)
  PROVE  Body(s) = FlatMap(piece, s)
  <1>1. \A j \in DOMAIN s : s[j] \in Byte
    OBVIOUS
  <1>2. \A x \in Byte : piece[x] = IF x.b = "header" THEN <<>> ELSE <<x>>
    BY DEF piece
  <1>3. \A j \in DOMAIN s : piece[s[j]] = IF s[j].b = "header" THEN <<>> ELSE <<s[j]>>
    BY <1>1, <1>2
  <1>4. Map(piece, s) = [j \in DOMAIN s |-> IF s[j].b = "header" THEN <<>> ELSE <<s[j]>>]
    BY <1>3 DEF Map
  <1> QED
    BY <1>4 DEF Body, FlatMap

LEMMA BodyType ==
  ASSUME NEW s \in Seq(Byte)
  PROVE  Body(s) \in Seq(Byte)
  BY BodyIs, PieceType, FlatMapType

LEMMA BodyCat ==
  ASSUME NEW s \in Seq(Byte), NEW t \in Seq(Byte)
  PROVE  Body(s \o t) = Body(s) \o Body(t)
  <1>1. s \o t \in Seq(Byte)
    OBVIOUS
  <1>2. FlatMap(piece, s \o t) = FlatMap(piece, s) \o FlatMap(piece, t)
    <2>1. Splits(piece, s, t)
      BY PieceType, MapSplits
    <2> QED
      BY <2>1 DEF Splits
  <1> QED
    BY <1>1, <1>2, BodyIs

LEMMA BodyOfNone == Body(<<>>) = <<>>
  <1>1. <<>> \in Seq(Byte)
    OBVIOUS
  <1> QED
    BY <1>1, BodyIs, FlatMapEmpty

LEMMA BodyOfPlain ==
  ASSUME NEW s \in Seq(Plain)
  PROVE  Body(s) = s
  <1> DEFINE S == {u \in Seq(Plain) : FlatMap(piece, u) = u}
  <1>1. <<>> \in S
    BY FlatMapEmpty
  <1>2. ASSUME NEW u \in Seq(Plain), NEW x \in Plain, u \in S PROVE Append(u, x) \in S
    <2>1. u \in Seq(Byte) /\ x \in Byte /\ x.b # "header"
      BY PlainIsByte DEF Plain
    <2>2. piece[x] = <<x>>
      BY <2>1 DEF piece
    <2>3. FlatMap(piece, Append(u, x)) = FlatMap(piece, u) \o piece[x]
      <3>1. Grows(piece, u, x)
        BY <2>1, PieceType, MapGrows
      <3> QED
        BY <3>1 DEF Grows
    <2>4. u \o <<x>> = Append(u, x) /\ Append(u, x) \in Seq(Plain)
      OBVIOUS
    <2>5. FlatMap(piece, u) = u
      BY <1>2
    <2> QED
      BY <2>2, <2>3, <2>4, <2>5
  <1> HIDE DEF S
  <1>3. s \in S
    BY <1>1, <1>2, SeqInduct
  <1> QED
    BY <1>3, PlainIsByte, BodyIs DEF S

LEMMA BodyOfHeaders ==
  ASSUME NEW s \in Seq(Byte \ Plain)
  PROVE  Body(s) = <<>>
  <1> DEFINE X == Byte \ Plain
             S == {u \in Seq(X) : FlatMap(piece, u) = <<>>}
  <1>1. <<>> \in S
    BY FlatMapEmpty
  <1>2. ASSUME NEW u \in Seq(X), NEW x \in X, u \in S PROVE Append(u, x) \in S
    <2>1. u \in Seq(Byte) /\ x \in Byte /\ x.b = "header"
      BY DEF Plain
    <2>2. piece[x] = <<>>
      BY <2>1 DEF piece
    <2>3. FlatMap(piece, Append(u, x)) = FlatMap(piece, u) \o piece[x]
      <3>1. Grows(piece, u, x)
        BY <2>1, PieceType, MapGrows
      <3> QED
        BY <3>1 DEF Grows
    <2>4. <<>> \o <<>> = <<>> /\ Append(u, x) \in Seq(X)
      OBVIOUS
    <2>5. FlatMap(piece, u) = <<>>
      BY <1>2
    <2> QED
      BY <2>2, <2>3, <2>4, <2>5
  <1> HIDE DEF S, X
  <1>3. s \in S
    <2>1. s \in Seq(X)
      BY DEF X
    <2> QED
      BY <1>1, <1>2, <2>1, SeqInduct
  <1>4. s \in Seq(Byte)
    OBVIOUS
  <1> QED
    BY <1>3, <1>4, BodyIs DEF S

HeaderOf(n) == [i \in 1..HeaderSize |-> [b |-> "header", k |-> "Input", i |-> n]]

LEMMA HeaderIs ==
  ASSUME NEW n \in Nat
  PROVE  /\ HeaderSize \in Nat \ {0}
         /\ HeaderOf(n) \in Seq(Byte \ Plain) /\ HeaderOf(n) \in Seq(Byte)
         /\ Len(HeaderOf(n)) = HeaderSize /\ HeaderOf(n)[1].i = n
  <1> DEFINE x == [b |-> "header", k |-> "Input", i |-> n]
  <1>1. HeaderSize \in Nat \ {0}
    BY KeyboardAssumption
  <1>2. x \in Byte /\ x.b = "header" /\ x.i = n
    BY DEF Byte
  <1>3. x \in Byte \ Plain
    BY <1>2 DEF Plain
  <1>4. HeaderOf(n) = [i \in 1..HeaderSize |-> x]
    BY DEF HeaderOf
  <1> HIDE DEF x
  <1>5. HeaderOf(n) \in Seq(Byte \ Plain) /\ Len(HeaderOf(n)) = HeaderSize /\ HeaderOf(n)[1] = x
    BY <1>1, <1>3, <1>4
  <1>6. HeaderOf(n) \in Seq(Byte)
    BY <1>5
  <1> QED
    BY <1>1, <1>2, <1>5, <1>6

LEMMA FrameIs ==
  ASSUME NEW c \in Seq(Plain)
  PROVE  /\ Frame(c) = HeaderOf(Len(c)) \o c /\ Frame(c) \in Seq(Byte)
         /\ Len(Frame(c)) = HeaderSize + Len(c) /\ Len(c) \in Nat /\ HeaderSize \in Nat \ {0}
         /\ Frame(c)[1].i = Len(c)
         /\ \A j \in 1..Len(c) : Frame(c)[HeaderSize + j] = c[j]
         /\ Body(Frame(c)) = c
  <1>1. Len(c) \in Nat /\ c \in Seq(Byte)
    BY PlainIsByte
  <1> DEFINE h == HeaderOf(Len(c))
  <1>2. Frame(c) = h \o c
    BY DEF Frame, HeaderOf
  <1>3. /\ HeaderSize \in Nat \ {0} /\ h \in Seq(Byte \ Plain) /\ h \in Seq(Byte)
        /\ Len(h) = HeaderSize /\ h[1].i = Len(c)
    BY <1>1, HeaderIs
  <1> HIDE DEF h
  <1>4. IsCat(h \o c, h, c, Byte)
    BY <1>1, <1>3, CatIs
  <1>5. /\ Frame(c) \in Seq(Byte) /\ Len(Frame(c)) = HeaderSize + Len(c)
        /\ \A j \in 1..HeaderSize : Frame(c)[j] = h[j]
        /\ \A j \in 1..Len(c) : Frame(c)[HeaderSize + j] = c[j]
    BY <1>2, <1>3, <1>4 DEF IsCat
  <1>6. Frame(c)[1].i = Len(c)
    <2>1. 1 \in 1..HeaderSize
      BY <1>3
    <2> QED
      BY <1>3, <1>5, <2>1
  <1>7. Body(Frame(c)) = c
    <2>1. Body(h \o c) = Body(h) \o Body(c)
      BY <1>1, <1>3, BodyCat
    <2>2. Body(h) = <<>> /\ Body(c) = c
      BY <1>3, BodyOfHeaders, BodyOfPlain
    <2>3. <<>> \o c = c
      OBVIOUS
    <2> QED
      BY <1>2, <2>1, <2>2, <2>3
  <1> QED
    BY <1>1, <1>2, <1>3, <1>5, <1>6, <1>7 DEF h

framer == [c \in Seq(Plain) |-> Frame(c)]

LEMMA FramerType == framer \in [Seq(Plain) -> Seq(Byte)]
  BY FrameIs DEF framer

(* What is between the client and the Decoder is one frame after the other. *)
Framed(W) == \E fs \in Seq(Seq(Plain)) : W = FlatMap(framer, fs)

LEMMA FramedType ==
  ASSUME NEW W, Framed(W)
  PROVE  W \in Seq(Byte)
  BY FramerType, FlatMapType DEF Framed

LEMMA FramedNone == Framed(<<>>)
  <1>1. <<>> \in Seq(Seq(Plain))
    OBVIOUS
  <1> QED
    BY <1>1, FlatMapEmpty DEF Framed

LEMMA FramedAppend ==
  ASSUME NEW W, Framed(W), NEW c \in Seq(Plain)
  PROVE  Framed(W \o Frame(c))
  <1>1. PICK fs \in Seq(Seq(Plain)) : W = FlatMap(framer, fs)
    BY DEF Framed
  <1>2. FlatMap(framer, Append(fs, c)) = FlatMap(framer, fs) \o framer[c]
    BY FramerType, FlatMapAppend
  <1>3. framer[c] = Frame(c) /\ Append(fs, c) \in Seq(Seq(Plain))
    BY DEF framer
  <1> QED
    BY <1>1, <1>2, <1>3 DEF Framed

LEMMA HeadAndTail ==
  ASSUME NEW X, NEW s \in Seq(X), s # <<>>
  PROVE  s = <<s[1]>> \o Tail(s)
  <1> DEFINE a == <<s[1]>>
             t == Tail(s)
  <1>1. a \in Seq(X) /\ Len(a) = 1 /\ a[1] = s[1]
    OBVIOUS
  <1>2. t \in Seq(X) /\ Len(t) = Len(s) - 1 /\ Len(s) \in Nat \ {0}
        /\ \A j \in 1..Len(t) : t[j] = s[j + 1]
    OBVIOUS
  <1> HIDE DEF a, t
  <1>3. IsCat(a \o t, a, t, X)
    BY <1>1, <1>2, CatIs
  <1>4. /\ a \o t \in Seq(X) /\ Len(a \o t) = Len(s) /\ (a \o t)[1] = s[1]
        /\ \A j \in 1..Len(t) : (a \o t)[1 + j] = s[j + 1]
    BY <1>1, <1>2, <1>3 DEF IsCat
  <1>5. \A j \in 1..Len(s) : s[j] = (a \o t)[j]
    <2> TAKE j \in 1..Len(s)
    <2>1. CASE j = 1
      BY <1>4, <2>1
    <2>2. CASE j # 1
      <3>1. j - 1 \in 1..Len(t) /\ 1 + (j - 1) = j /\ (j - 1) + 1 = j
        BY <1>2, <2>2
      <3> QED
        BY <1>4, <3>1
    <2> QED
      BY <2>1, <2>2
  <1>6. s = a \o t
    BY <1>4, <1>5, SameSeq
  <1> QED
    BY <1>6 DEF a, t

Peels(g, a, x, u) == FlatMap(g, a \o u) = g[x] \o FlatMap(g, u)

LEMMA FlatMapFirst ==
  ASSUME NEW X, NEW Y, NEW g \in [X -> Seq(Y)], NEW x \in X, NEW u \in Seq(X)
  PROVE  Peels(g, <<x>>, x, u)
  <1> DEFINE a == <<x>>
  <1>1. a \in Seq(X)
    OBVIOUS
  <1>2. FlatMap(g, a) = g[x]
    BY FlatMapOne
  <1> HIDE DEF a
  <1>3. Splits(g, a, u)
    BY <1>1, MapSplits
  <1>4. FlatMap(g, a \o u) = g[x] \o FlatMap(g, u)
    BY <1>2, <1>3 DEF Splits
  <1>5. Peels(g, a, x, u)
    BY <1>4 DEF Peels
  <1> QED
    BY <1>5 DEF a

LEMMA FramedFirst ==
  ASSUME NEW W, Framed(W), W # <<>>
  PROVE  \E c \in Seq(Plain), V \in Seq(Byte) : W = Frame(c) \o V /\ Framed(V)
  <1>1. PICK fs \in Seq(Seq(Plain)) : W = FlatMap(framer, fs)
    BY DEF Framed
  <1>2. fs # <<>>
    BY <1>1, FlatMapEmpty
  <1>3. PICK c \in Seq(Plain), gs \in Seq(Seq(Plain)) : fs = <<c>> \o gs
    <2>1. fs[1] \in Seq(Plain) /\ Tail(fs) \in Seq(Seq(Plain))
      BY <1>2
    <2>2. fs = <<fs[1]>> \o Tail(fs)
      BY <1>2, HeadAndTail
    <2> QED
      BY <2>1, <2>2
  <1> DEFINE V == FlatMap(framer, gs)
  <1>4. FlatMap(framer, <<c>> \o gs) = framer[c] \o V
    <2>1. Peels(framer, <<c>>, c, gs)
      BY FramerType, FlatMapFirst
    <2> QED
      BY <2>1 DEF Peels
  <1>5. framer[c] = Frame(c)
    BY DEF framer
  <1>6. V \in Seq(Byte) /\ Framed(V)
    BY FramerType, FlatMapType DEF Framed
  <1> HIDE DEF V
  <1> QED
    BY <1>1, <1>3, <1>4, <1>5, <1>6

-----------------------------------------------------------------------------
(* Cutting what has been put together. *)
CutsTo(y, w, n, X) ==
  y \in Seq(X) /\ Len(y) = Len(w) - n /\ \A j \in 1..(Len(w) - n) : y[j] = w[n + j]

LEMMA CutCat ==
  ASSUME NEW X, NEW a \in Seq(X), NEW c \in Seq(X), NEW n \in 0..Len(a)
  PROVE  Cut(a \o c, n) = Cut(a, n) \o c
  <1> DEFINE w == a \o c
             v == Cut(a, n)
             y == Cut(w, n)
             z == v \o c
  <1>1. IsCat(w, a, c, X)
    BY CatIs
  <1>2. v \in Seq(X) /\ Len(v) = Len(a) - n /\ \A j \in 1..(Len(a) - n) : v[j] = a[n + j]
    BY CutIs
  <1>3. PICK la \in Nat, lc \in Nat : la = Len(a) /\ lc = Len(c) /\ n \in 0..la
    OBVIOUS
  <1> HIDE DEF w, v
  <1>4. /\ w \in Seq(X) /\ Len(w) = la + lc
        /\ \A j \in 1..la : w[j] = a[j]
        /\ \A j \in 1..lc : w[la + j] = c[j]
    BY <1>1, <1>3 DEF IsCat
  <1>5. y \in Seq(X) /\ Len(y) = la + lc - n /\ \A j \in 1..(la + lc - n) : y[j] = w[n + j]
    <2>1. n \in 0..Len(w) /\ Len(w) = la + lc
      BY <1>3, <1>4
    <2>2. CutsTo(y, w, n, X)
      BY <1>4, <2>1, CutIs DEF CutsTo
    <2> HIDE DEF y
    <2> QED
      BY <2>1, <2>2 DEF CutsTo
  <1>6. IsCat(z, v, c, X)
    BY <1>2, CatIs
  <1> HIDE DEF y, z
  <1>7. /\ z \in Seq(X) /\ Len(z) = la - n + lc
        /\ \A j \in 1..(la - n) : z[j] = a[n + j]
        /\ \A j \in 1..lc : z[la - n + j] = c[j]
    BY <1>2, <1>3, <1>6 DEF IsCat
  <1>8. ASSUME NEW j \in 1..Len(y) PROVE y[j] = z[j]
    <2>1. CASE j <= la - n
      <3>1. j \in 1..(la - n) /\ j \in 1..(la + lc - n) /\ n + j \in 1..la
        BY <1>3, <1>5, <2>1
      <3> QED
        BY <1>4, <1>5, <1>7, <3>1
    <2>2. CASE ~(j <= la - n)
      <3>a. j \in 1..(la + lc - n) /\ n \in Nat /\ n <= la
        BY <1>3, <1>5
      <3>b. j - (la - n) \in 1..lc
        BY <1>3, <2>2, <3>a
      <3>1. PICK i \in 1..lc : i = j - (la - n)
        BY <3>b
      <3>2. la - n + i = j /\ n + j = la + i /\ j \in 1..(la + lc - n)
        BY <1>3, <1>5, <3>1
      <3>3. y[j] = w[la + i]
        BY <1>5, <3>2
      <3>4. w[la + i] = c[i]
        BY <1>4
      <3>5. z[la - n + i] = c[i]
        BY <1>7
      <3> QED
        BY <3>2, <3>3, <3>4, <3>5
    <2> QED
      BY <2>1, <2>2
  <1>9. Len(y) = Len(z)
    BY <1>3, <1>5, <1>7
  <1>10. y = z
    BY <1>5, <1>7, <1>8, <1>9, SameSeq
  <1> QED
    BY <1>10 DEF w, v, y, z

LEMMA CutAll ==
  ASSUME NEW X, NEW a \in Seq(X)
  PROVE  Cut(a, Len(a)) = <<>> /\ Cut(a, 0) = a
  BY DEF Cut

LEMMA SplitAt ==
  ASSUME NEW X, NEW s \in Seq(X), NEW n \in 0..Len(s)
  PROVE  /\ SubSeq(s, 1, n) \in Seq(X) /\ Cut(s, n) \in Seq(X) /\ Len(SubSeq(s, 1, n)) = n
         /\ SubSeq(s, 1, n) \o Cut(s, n) = s
  <1> DEFINE a == SubSeq(s, 1, n)
             c == Cut(s, n)
             w == a \o c
  <1>1. a \in Seq(X) /\ Len(a) = n /\ \A j \in 1..n : a[j] = s[j]
    OBVIOUS
  <1>2. c \in Seq(X) /\ Len(c) = Len(s) - n /\ \A j \in 1..(Len(s) - n) : c[j] = s[n + j]
    BY CutIs
  <1>3. PICK m \in Nat : m = Len(s) /\ n \in 0..m
    OBVIOUS
  <1> HIDE DEF a, c
  <1>4. IsCat(w, a, c, X)
    BY <1>1, <1>2, CatIs
  <1> HIDE DEF w
  <1>5. /\ w \in Seq(X) /\ Len(w) = m
        /\ \A j \in 1..n : w[j] = s[j]
        /\ \A j \in 1..(m - n) : w[n + j] = s[n + j]
    BY <1>1, <1>2, <1>3, <1>4 DEF IsCat
  <1>6. ASSUME NEW j \in 1..m PROVE w[j] = s[j]
    <2>1. CASE j <= n
      BY <1>3, <1>5, <2>1
    <2>2. CASE ~(j <= n)
      <3>1. PICK i \in 1..(m - n) : n + i = j
        <4>1. j - n \in 1..(m - n) /\ n + (j - n) = j
          BY <1>3, <2>2
        <4> QED
          BY <4>1
      <3> QED
        BY <1>5, <3>1
    <2> QED
      BY <2>1, <2>2
  <1>7. w = s
    BY <1>3, <1>5, <1>6, SameSeq
  <1> QED
    BY <1>1, <1>2, <1>7 DEF a, c, w

LEMMA SubSeqAt ==
  ASSUME NEW X, NEW s \in Seq(X), NEW a \in Nat, NEW m \in Nat, a + m <= Len(s)
  PROVE  \A j \in 1..m : SubSeq(s, a + 1, a + m)[j] = s[a + j]
  <1> TAKE j \in 1..m
  <1>1. SubSeq(s, a + 1, a + m)[j] = s[(a + 1) + j - 1] /\ (a + 1) + j - 1 = a + j
    OBVIOUS
  <1> QED
    BY <1>1

(* The message that next() gives is the body of the first frame. *)
MessageOf(d) == SubSeq(d, HeaderSize + 1, Declared(d))

LEMMA NextMessage ==
  ASSUME NEW d \in Seq(Byte), NEW w \in Seq(Byte), Framed(d \o w), HasMessage(d)
  PROVE  /\ Declared(d) \in 0..Len(d) /\ MessageOf(d) \in Seq(Plain)
         /\ Framed(Cut(d, Declared(d)) \o w)
         /\ Body(d \o w) = MessageOf(d) \o Body(Cut(d, Declared(d)) \o w)
  <1> DEFINE W == d \o w
  <1>1. HeaderSize \in Nat \ {0}
    BY KeyboardAssumption
  <1>2. IsCat(W, d, w, Byte)
    BY CatIs
  <1>3. PICK ld \in Nat : ld = Len(d) /\ ld > 0
    <2>1. Len(d) \in Nat /\ Len(d) >= HeaderSize
      BY DEF HasMessage
    <2> QED
      BY <1>1, <2>1
  <1> HIDE DEF W
  <1>4. W \in Seq(Byte) /\ (\A j \in 1..ld : W[j] = d[j]) /\ Len(W) = ld + Len(w)
    BY <1>2, <1>3 DEF IsCat
  <1>5. W # <<>>
    BY <1>3, <1>4
  <1>6. PICK c \in Seq(Plain), V \in Seq(Byte) : W = Frame(c) \o V /\ Framed(V)
    BY <1>5, FramedFirst DEF W
  <1> DEFINE f == Frame(c)
  <1>7. PICK lc \in Nat : lc = Len(c)
    OBVIOUS
  <1>8. /\ f \in Seq(Byte) /\ Len(f) = HeaderSize + lc /\ f[1].i = lc
        /\ \A j \in 1..lc : f[HeaderSize + j] = c[j]
    BY <1>7, FrameIs
  <1>9. Body(f) = c
    BY FrameIs
  <1>10. W = f \o V
    BY <1>6
  <1> HIDE DEF f
  <1>11. \A j \in 1..Len(f) : W[j] = f[j]
    BY <1>8, <1>10
  <1>12. d[1].i = lc
    <2>1. 1 \in 1..ld /\ 1 \in 1..Len(f)
      BY <1>1, <1>3, <1>7, <1>8
    <2> QED
      BY <1>4, <1>8, <1>11, <2>1
  <1>13. PICK n \in Nat : n = Declared(d) /\ n = HeaderSize + lc /\ n = Len(f) /\ n \in 0..ld
    <2>1. Declared(d) = HeaderSize + lc /\ Len(d) >= Declared(d)
      BY <1>12 DEF Declared, HasMessage
    <2> QED
      BY <1>1, <1>3, <1>7, <1>8, <2>1
  <1>14. MessageOf(d) = c
    <2> DEFINE m == SubSeq(d, HeaderSize + 1, n)
    <2>1. m \in Seq(Byte) /\ Len(m) = lc
      BY <1>1, <1>3, <1>13
    <2>2. \A j \in 1..lc : m[j] = d[HeaderSize + j]
      <3>1. PICK a \in Nat : a = HeaderSize
        BY <1>1
      <3>2. n = a + lc /\ n <= Len(d)
        BY <1>3, <1>13, <3>1
      <3>3. \A j \in 1..lc : m[j] = d[a + j]
        BY <3>1, <3>2, SubSeqAt
      <3> QED
        BY <3>1, <3>3
    <2>3. \A j \in 1..lc : HeaderSize + j \in 1..ld /\ HeaderSize + j \in 1..Len(f)
      BY <1>1, <1>3, <1>13
    <2> HIDE DEF m
    <2>4. \A j \in 1..lc : m[j] = c[j]
      BY <1>4, <1>8, <1>11, <2>2, <2>3
    <2>5. c \in Seq(Byte)
      BY PlainIsByte
    <2>6. m = c
      BY <1>7, <2>1, <2>4, <2>5, SameSeq
    <2> QED
      BY <1>13, <2>6 DEF MessageOf, m
  <1>15. V = Cut(d, n) \o w
    <2>1. Cut(W, n) = Cut(d, n) \o w
      BY <1>3, <1>13, CutCat DEF W
    <2>2. Cut(W, n) = Cut(f, n) \o V
      <3>1. n \in 0..Len(f)
        BY <1>13
      <3> QED
        BY <1>8, <1>10, <3>1, CutCat
    <2>3. Cut(f, n) = <<>>
      BY <1>8, <1>13, CutAll
    <2>4. <<>> \o V = V
      OBVIOUS
    <2> QED
      BY <2>1, <2>2, <2>3, <2>4
  <1>16. Body(W) = c \o Body(V)
    BY <1>8, <1>9, <1>10, BodyCat
  <1> QED
    BY <1>3, <1>6, <1>13, <1>14, <1>15, <1>16 DEF W

-----------------------------------------------------------------------------
(* What is typed is such a chain. *)
LEMMA TaggedIs ==
  ASSUME NEW k \in Keys
  PROVE  /\ Tagged(k) \in Seq(Plain) /\ Len(Tagged(k)) = Len(Bytes(k))
         /\ Len(Bytes(k)) \in Nat \ {0}
         /\ \A i \in 1..Len(Bytes(k)) : Tagged(k)[i] = [b |-> Bytes(k)[i], k |-> k, i |-> i]
  <1>1. PICK n \in Nat \ {0} : n = Len(Bytes(k))
    BY KeysAreSound DEF Sound
  <1>2. \A i \in 1..n : Bytes(k)[i] \in Value \ {"header"}
    BY <1>1, KeysAreSound DEF Sound
  <1>3. \A i \in 1..n : [b |-> Bytes(k)[i], k |-> k, i |-> i] \in Plain
    <2> TAKE i \in 1..n
    <2>1. Bytes(k)[i] \in Value /\ Bytes(k)[i] # "header" /\ i \in Nat
      BY <1>2
    <2> QED
      BY <2>1 DEF Plain, Byte
  <1>4. Tagged(k) = [i \in 1..n |-> [b |-> Bytes(k)[i], k |-> k, i |-> i]]
    BY <1>1 DEF Tagged
  <1> DEFINE r(i) == [b |-> Bytes(k)[i], k |-> k, i |-> i]
  <1> HIDE DEF r
  <1>5. (\A i \in 1..n : r(i) \in Plain) /\ Tagged(k) = [i \in 1..n |-> r(i)]
    BY <1>3, <1>4 DEF r
  <1>6. Tagged(k) \in Seq(Plain) /\ Len(Tagged(k)) = n /\ \A i \in 1..n : Tagged(k)[i] = r(i)
    BY <1>5
  <1> QED
    BY <1>1, <1>6 DEF r

LEMMA TaggedChain ==
  ASSUME NEW k \in Keys
  PROVE  Chain(Tagged(k)) /\ Tagged(k)[1].i = 1 /\ Tagged(k)[1].b = Bytes(k)[1]
  <1> DEFINE F == Tagged(k)
  <1>1. PICK n \in Nat \ {0} : n = Len(Bytes(k)) /\ n = Len(F)
    BY TaggedIs
  <1>2. \A i \in 1..n : F[i].b = Bytes(k)[i] /\ F[i].k = k /\ F[i].i = i
    <2> TAKE i \in 1..n
    <2>1. F[i] = [b |-> Bytes(k)[i], k |-> k, i |-> i]
      BY <1>1, TaggedIs
    <2> HIDE DEF F
    <2> QED
      BY <2>1
  <1>3. F \in Seq(Byte)
    BY TaggedIs, PlainIsByte
  <1> HIDE DEF F
  <1>4. \A j \in 1..Len(F) : OfKey(F[j])
    BY <1>1, <1>2 DEF OfKey
  <1>5. \A j \in 1..Len(F) : j + 1 \in 1..Len(F) => Follows(F[j], F[j + 1])
    <2> SUFFICES ASSUME NEW j \in 1..n, j + 1 \in 1..n PROVE Follows(F[j], F[j + 1])
      BY <1>1
    <2>1. F[j].i = j /\ F[j].k = k /\ F[j + 1].k = k /\ F[j + 1].i = j + 1 /\ j < n
      BY <1>2
    <2> QED
      BY <1>1, <2>1 DEF Follows
  <1>6. F[Len(F)].i = Len(Bytes(F[Len(F)].k))
    <2>1. n \in 1..n /\ 1 \in 1..n
      OBVIOUS
    <2> QED
      BY <1>1, <1>2, <2>1
  <1>7. F[1].i = 1 /\ F[1].b = Bytes(k)[1]
    <2>1. 1 \in 1..n
      OBVIOUS
    <2> QED
      BY <1>2, <2>1
  <1> QED
    BY <1>3, <1>4, <1>5, <1>6, <1>7 DEF Chain, F

LEMMA ChainCat ==
  ASSUME NEW F, Chain(F), NEW G, Chain(G), Len(G) > 0 => G[1].i = 1
  PROVE  Chain(F \o G)
  <1> DEFINE W == F \o G
  <1>1. PICK m \in Nat, n \in Nat : m = Len(F) /\ n = Len(G) /\ F \in Seq(Byte) /\ G \in Seq(Byte)
    BY DEF Chain
  <1>2. IsCat(W, F, G, Byte)
    BY <1>1, CatIs
  <1> HIDE DEF W
  <1>3. /\ W \in Seq(Byte) /\ Len(W) = m + n
        /\ \A j \in 1..m : W[j] = F[j]
        /\ \A j \in 1..n : W[m + j] = G[j]
    BY <1>1, <1>2 DEF IsCat
  <1>4. \A j \in 1..(m + n) : j \in 1..m \/ \E i \in 1..n : j = m + i
    <2> TAKE j \in 1..(m + n)
    <2>1. j \in 1..m \/ j - m \in 1..n
      OBVIOUS
    <2>2. j = m + (j - m)
      OBVIOUS
    <2> QED
      BY <2>1, <2>2
  <1>5. ASSUME NEW j \in 1..(m + n) PROVE OfKey(W[j])
    <2>1. (\A i \in 1..m : OfKey(F[i])) /\ \A i \in 1..n : OfKey(G[i])
      BY <1>1 DEF Chain
    <2>2. CASE j \in 1..m
      BY <1>3, <2>1, <2>2
    <2>3. CASE \E i \in 1..n : j = m + i
      BY <1>3, <2>1, <2>3
    <2> QED
      BY <1>4, <2>2, <2>3
  <1>6. ASSUME NEW j \in 1..(m + n), j + 1 \in 1..(m + n) PROVE Follows(W[j], W[j + 1])
    <2>1. CASE j + 1 \in 1..m
      <3>1. j \in 1..m /\ j + 1 \in 1..m
        BY <2>1
      <3>2. Follows(F[j], F[j + 1])
        BY <1>1, <3>1 DEF Chain
      <3> QED
        BY <1>3, <3>1, <3>2
    <2>2. CASE j = m
      <3>1. j \in 1..m /\ 1 \in 1..n /\ m > 0 /\ n > 0 /\ j + 1 = m + 1
        BY <1>6, <2>2
      <3>2. F[m].i = Len(Bytes(F[m].k)) /\ G[1].i = 1
        BY <1>1, <3>1 DEF Chain
      <3>3. OfKey(F[m])
        BY <1>1, <2>2, <3>1 DEF Chain
      <3>4. Len(Bytes(F[m].k)) \in Nat
        BY <3>3, KeysAreSound DEF OfKey, Sound
      <3>5. W[j] = F[m] /\ W[j + 1] = G[1]
        BY <1>3, <2>2, <3>1
      <3>6. ~(F[m].i < Len(Bytes(F[m].k)))
        BY <3>2, <3>4
      <3> QED
        BY <3>2, <3>5, <3>6 DEF Follows
    <2>3. CASE j > m
      <3>1. PICK i \in 1..n : i = j - m /\ i + 1 \in 1..n /\ j = m + i /\ j + 1 = m + (i + 1)
        <4>1. j - m \in 1..n /\ (j - m) + 1 \in 1..n /\ j = m + (j - m) /\ j + 1 = m + ((j - m) + 1)
          BY <1>6, <2>3
        <4> QED
          BY <4>1
      <3>2. Follows(G[i], G[i + 1])
        BY <1>1, <3>1 DEF Chain
      <3> QED
        BY <1>3, <3>1, <3>2
    <2>4. j + 1 \in 1..m \/ j = m \/ j > m
      OBVIOUS
    <2> QED
      BY <2>1, <2>2, <2>3, <2>4
  <1>7. ASSUME m + n > 0 PROVE W[m + n].i = Len(Bytes(W[m + n].k))
    <2>1. CASE n = 0
      <3>1. m + n = m /\ m \in 1..m /\ m > 0
        BY <1>7, <2>1
      <3> QED
        BY <1>1, <1>3, <3>1 DEF Chain
    <2>2. CASE n # 0
      <3>1. n \in 1..n /\ n > 0
        BY <2>2
      <3> QED
        BY <1>1, <1>3, <3>1 DEF Chain
    <2> QED
      BY <2>1, <2>2
  <1> QED
    BY <1>3, <1>5, <1>6, <1>7 DEF Chain, W

LEMMA NoneIsChain == Chain(<<>>)
  <1>1. <<>> \in Seq(Byte) /\ Len(<<>>) = 0
    OBVIOUS
  <1>2. \A j \in 1..0 : FALSE
    OBVIOUS
  <1> QED
    BY <1>1, <1>2 DEF Chain

tagger == [k \in Keys |-> Tagged(k)]

LEMMA TaggerType ==
  tagger \in [Keys -> Seq(Plain)] /\ \A k \in Keys : tagger[k] = Tagged(k)
  BY TaggedIs DEF tagger

LEMMA TypedIsMap ==
  ASSUME NEW u \in Seq(Keys)
  PROVE  FlattenSeq([j \in DOMAIN u |-> Tagged(u[j])]) = FlatMap(tagger, u)
  <1>1. \A j \in DOMAIN u : u[j] \in Keys
    OBVIOUS
  <1>2. \A j \in DOMAIN u : tagger[u[j]] = Tagged(u[j])
    BY <1>1, TaggerType
  <1>3. Map(tagger, u) = [j \in DOMAIN u |-> Tagged(u[j])]
    BY <1>2 DEF Map
  <1> QED
    BY <1>3 DEF FlatMap

LEMMA TypedIsPlain ==
  ASSUME NEW u \in Seq(Keys)
  PROVE  FlatMap(tagger, u) \in Seq(Plain)
  BY TaggerType, FlatMapType

LEMMA TypedAppend ==
  ASSUME NEW u \in Seq(Keys), NEW x \in Keys
  PROVE  FlatMap(tagger, Append(u, x)) = FlatMap(tagger, u) \o Tagged(x)
  BY TaggerType, FlatMapAppend

LEMMA TypedIsChain ==
  ASSUME NEW u \in Seq(Keys)
  PROVE  Chain(FlatMap(tagger, u))
  <1> DEFINE S == {w \in Seq(Keys) : Chain(FlatMap(tagger, w))}
  <1>1. <<>> \in S
    BY FlatMapEmpty, NoneIsChain
  <1>2. ASSUME NEW w \in Seq(Keys), NEW x \in Keys, w \in S PROVE Append(w, x) \in S
    <2>1. Chain(FlatMap(tagger, w)) /\ Chain(Tagged(x)) /\ Tagged(x)[1].i = 1
      BY <1>2, TaggedChain
    <2>2. Chain(FlatMap(tagger, w) \o Tagged(x))
      BY <2>1, ChainCat
    <2>3. Append(w, x) \in Seq(Keys)
      OBVIOUS
    <2> QED
      BY <2>2, <2>3, TypedAppend
  <1> HIDE DEF S
  <1>3. u \in S
    BY <1>1, <1>2, SeqInduct
  <1> QED
    BY <1>3 DEF S

-----------------------------------------------------------------------------
(* The inductive invariant. *)
FlightOf(f, d, w, y) == f \o Body(d) \o Body(w) \o y

Joins(f, e, v, y) == ((f \o e) \o v) \o y = f \o ((e \o v) \o y)

LEMMA FourCat ==
  ASSUME NEW X, NEW f \in Seq(X), NEW e \in Seq(X), NEW v \in Seq(X), NEW y \in Seq(X)
  PROVE  Joins(f, e, v, y)
  <1>1. (f \o e) \o v = f \o (e \o v)
    <2>1. Assoc(f, e, v)
      BY AssocIs
    <2> QED
      BY <2>1 DEF Assoc
  <1>2. PICK u \in Seq(X) : u = e \o v
    <2>1. e \o v \in Seq(X)
      OBVIOUS
    <2> QED
      BY <2>1, Zenon
  <1>3. (f \o u) \o y = f \o (u \o y)
    <2>1. Assoc(f, u, y)
      BY AssocIs
    <2> QED
      BY <2>1 DEF Assoc
  <1> QED
    BY <1>1, <1>2, <1>3 DEF Joins

Joined(f, d, w, y) == FlightOf(f, d, w, y) = f \o (Body(d \o w) \o y)

LEMMA FlightJoin ==
  ASSUME NEW f \in Seq(Byte), NEW d \in Seq(Byte), NEW w \in Seq(Byte), NEW y \in Seq(Byte)
  PROVE  Joined(f, d, w, y)
  <1>1. PICK e \in Seq(Byte), v \in Seq(Byte) : e = Body(d) /\ v = Body(w)
    BY BodyType
  <1>2. Body(d \o w) = e \o v
    BY <1>1, BodyCat
  <1>3. ((f \o e) \o v) \o y = f \o ((e \o v) \o y)
    <2>1. Joins(f, e, v, y)
      BY FourCat
    <2> QED
      BY <2>1 DEF Joins
  <1> QED
    BY <1>1, <1>2, <1>3 DEF FlightOf, Joined

Waiting ==
  input.esc_pending =>
    /\ Len(input.buf) > 0
    /\ at # "pump" => Len(input.buf) = 1 /\ input.buf[1].b = "esc" /\ ~input.in_paste

SeqLike(s) == \E X : s \in Seq(X)

KeyTypes ==
  /\ input \in Parser /\ dec \in Seq(Byte) /\ wire \in Seq(Byte) /\ tty \in Seq(Plain)
  /\ typed \in Seq(Keys) /\ SeqLike(seen)

KeyInv ==
  /\ KeyTypes /\ Framed(dec \o wire) /\ Chain(Flight) /\ PasteOK(input, Flight) /\ Waiting

(* What a step may do to the keys. *)
Rests ==
  Flight' = Flight /\ seen' = seen /\ input'.in_paste = input.in_paste /\ waited' = waited /\ kept' = kept

Moved(n, ev) ==
  /\ n \in 0..Len(Flight) /\ Len(Flight) > 0
  /\ Flight' = Cut(Flight, n) /\ seen' = seen \o ev
  /\ Takes(Flight, input.in_paste, n, ev, input'.in_paste)
  /\ waited' = waited /\ kept' = kept

GivesUp ==
  /\ Len(Flight) > 0 /\ Flight[1].b = "esc" /\ ~input.in_paste /\ input'.in_paste = input.in_paste
  /\ Flight' = Cut(Flight, 1) /\ seen' = seen \o <<Event("Escape")>>
  /\ waited' = waited + 1 /\ kept' = kept

Forgets ==
  Flight' = <<>> /\ ~input'.in_paste /\ seen' = seen /\ waited' = waited /\ kept' = FALSE

Moves ==
  /\ Rests \/ (\E n, ev : Moved(n, ev)) \/ GivesUp \/ Forgets
  /\ typed' = typed

LEMMA SeqLikeCat ==
  ASSUME NEW s, SeqLike(s)
  PROVE  s \o <<>> = s /\ SeqLike(s \o <<>>) /\ \A e : SeqLike(s \o <<e>>)
  <1>1. PICK X : s \in Seq(X)
    BY DEF SeqLike
  <1>2. s \o <<>> = s
    BY <1>1
  <1>3. ASSUME NEW e PROVE SeqLike(s \o <<e>>)
    <2> DEFINE Y == X \cup {e}
    <2>1. s \in Seq(Y) /\ <<e>> \in Seq(Y)
      BY <1>1
    <2> HIDE DEF Y
    <2>2. s \o <<e>> \in Seq(Y)
      BY <2>1
    <2> QED
      BY <2>2 DEF SeqLike
  <1> QED
    BY <1>2, <1>3

LEMMA TakesEvents ==
  ASSUME NEW F, NEW in, NEW n, NEW ev, NEW out, Takes(F, in, n, ev, out)
  PROVE  ev = <<>> \/ \E e : ev = <<e>>
  <1>1. CASE Stays(F, in, n, ev, out)
    BY <1>1 DEF Stays
  <1>2. CASE TakesWhole(F, in, n, ev, out)
    BY <1>2 DEF TakesWhole
  <1>3. CASE TakesSpelled(F, in, n, ev, out)
    BY <1>3 DEF TakesSpelled
  <1>4. CASE TakesOrphan(F, in, n, ev, out)
    BY <1>4 DEF TakesOrphan
  <1>5. CASE TakesMerged(F, in, n, ev, out)
    BY <1>5 DEF TakesMerged
  <1>6. CASE TakesOpening(F, in, n, ev, out)
    BY <1>6 DEF TakesOpening
  <1>7. CASE TakesSlice(F, in, n, ev, out)
    BY <1>7 DEF TakesSlice
  <1>8. CASE TakesEnd(F, in, n, ev, out)
    BY <1>8 DEF TakesEnd
  <1>9. CASE TakesAccent(F, in, n, ev, out)
    BY <1>9 DEF TakesAccent
  <1> QED
    BY <1>1, <1>2, <1>3, <1>4, <1>5, <1>6, <1>7, <1>8, <1>9 DEF Takes

LEMMA NewParserIs ==
  NewParser \in Parser /\ NewParser.buf = <<>> /\ ~NewParser.in_paste /\ ~NewParser.esc_pending
  BY DEF NewParser, Parser

LEMMA FlightEmpty ==
  ASSUME NEW y \in Seq(Byte)
  PROVE  FlightOf(<<>>, <<>>, <<>>, y) = y
  <1>1. <<>> \o <<>> = <<>> /\ <<>> \o y = y
    OBVIOUS
  <1> QED
    BY <1>1, BodyOfNone DEF FlightOf

LEMMA InitKeyInv ==
  ASSUME Init
  PROVE  KeyInv /\ Flight = tty
  <1>1. typed \in Seq(Keys)
    BY DEF Init
  <1>2. tty = FlatMap(tagger, typed)
    BY <1>1, TypedIsMap DEF Init
  <1>3. tty \in Seq(Plain) /\ Chain(tty)
    BY <1>1, <1>2, TypedIsPlain, TypedIsChain
  <1>4. tty \in Seq(Byte)
    BY <1>3, PlainIsByte
  <1>5. wire = <<>> /\ dec = <<>> /\ input = NewParser /\ seen = <<>>
    BY DEF Init
  <1>6. Flight = tty
    <2>1. Flight = FlightOf(<<>>, <<>>, <<>>, tty)
      BY <1>5, NewParserIs DEF Flight, FlightOf
    <2> QED
      BY <1>4, <2>1, FlightEmpty
  <1>7. <<>> \in Seq(Byte) /\ <<>> \o <<>> = <<>>
    OBVIOUS
  <1>8. KeyTypes
    BY <1>1, <1>3, <1>5, <1>7, NewParserIs DEF KeyTypes, SeqLike
  <1>9. Framed(dec \o wire)
    BY <1>5, <1>7, FramedNone
  <1>10. PasteOK(input, Flight) /\ Waiting
    BY <1>5, NewParserIs DEF PasteOK, Waiting
  <1> QED
    BY <1>3, <1>6, <1>8, <1>9, <1>10 DEF KeyInv

LEMMA KeyTypesAre ==
  ASSUME KeyTypes
  PROVE  /\ input.buf \in Seq(Byte) /\ tty \in Seq(Byte)
         /\ dec \o wire \in Seq(Byte) /\ Body(dec \o wire) \in Seq(Byte)
         /\ Body(dec \o wire) \o tty \in Seq(Byte)
         /\ Flight = input.buf \o (Body(dec \o wire) \o tty)
  <1>1. input.buf \in Seq(Byte)
    BY DEF KeyTypes, Parser
  <1>2. tty \in Seq(Byte) /\ dec \in Seq(Byte) /\ wire \in Seq(Byte)
    BY PlainIsByte DEF KeyTypes
  <1>3. dec \o wire \in Seq(Byte)
    BY <1>2
  <1>4. Body(dec \o wire) \in Seq(Byte)
    BY <1>3, BodyType
  <1>5. Body(dec \o wire) \o tty \in Seq(Byte)
    BY <1>2, <1>4
  <1>6. Flight = FlightOf(input.buf, dec, wire, tty)
    BY DEF Flight, FlightOf
  <1>7. Joined(input.buf, dec, wire, tty)
    BY <1>1, <1>2, FlightJoin
  <1>8. Flight = input.buf \o (Body(dec \o wire) \o tty)
    BY <1>6, <1>7 DEF Joined
  <1> QED
    BY <1>1, <1>2, <1>3, <1>4, <1>5, <1>8

LEMMA KeyTypesArePrimed ==
  ASSUME KeyTypes'
  PROVE  Flight' = input'.buf \o (Body(dec' \o wire') \o tty')
  <1>1. input'.buf \in Seq(Byte)
    BY DEF KeyTypes, Parser
  <1>2. tty' \in Seq(Byte) /\ dec' \in Seq(Byte) /\ wire' \in Seq(Byte)
    BY PlainIsByte DEF KeyTypes
  <1>3. Flight' = FlightOf(input'.buf, dec', wire', tty')
    BY DEF Flight, FlightOf
  <1>4. Joined(input'.buf, dec', wire', tty')
    BY <1>1, <1>2, FlightJoin
  <1> QED
    BY <1>3, <1>4 DEF Joined

(* The parser has the first bytes of what is on its way. *)
LEMMA InputAhead ==
  ASSUME KeyTypes
  PROVE  Ahead(input, Flight) /\ \A n \in 0..Len(input.buf) :
           Cut(Flight, n) = Cut(input.buf, n) \o (Body(dec \o wire) \o tty)
  <1> DEFINE f == input.buf
             R == Body(dec \o wire) \o tty
  <1>1. f \in Seq(Byte) /\ R \in Seq(Byte) /\ Flight = f \o R
    BY KeyTypesAre
  <1> HIDE DEF f, R
  <1>2. IsCat(f \o R, f, R, Byte)
    BY <1>1, CatIs
  <1>3. Len(f) <= Len(f \o R) /\ \A j \in 1..Len(f) : f[j] = (f \o R)[j]
    BY <1>1, <1>2 DEF IsCat
  <1>4. \A n \in 0..Len(f) : Cut(f \o R, n) = Cut(f, n) \o R
    BY <1>1, CutCat
  <1> QED
    BY <1>1, <1>3, <1>4 DEF Ahead, f, R

(* A step that only moves bytes along. *)
LEMMA Along ==
  ASSUME KeyInv, KeyTypes', Framed(dec' \o wire'), Flight' = Flight,
         input'.in_paste = input.in_paste, input'.paste_scanned = input.paste_scanned,
         Waiting', seen' = seen, waited' = waited, kept' = kept, typed' = typed
  PROVE  KeyInv' /\ Moves
  <1>1. Chain(Flight') /\ PasteOK(input', Flight')
    BY DEF KeyInv, PasteOK
  <1>2. KeyInv'
    BY <1>1 DEF KeyInv
  <1> QED
    BY <1>2 DEF Moves, Rests

LEMMA SendStep ==
  ASSUME KeyInv, NEW n, ClientSend(n)
  PROVE  KeyInv' /\ Moves
  <1> DEFINE c == SubSeq(tty, 1, n)
             r == Cut(tty, n)
             W == dec \o wire
             fr == Frame(c)
  <1>1. KeyTypes /\ Framed(W) /\ Waiting
    BY DEF KeyInv
  <1>2. tty \in Seq(Plain) /\ n \in 0..Len(tty)
    BY <1>1 DEF KeyTypes, ClientSend
  <1>3. c \in Seq(Plain) /\ r \in Seq(Plain) /\ c \o r = tty
    BY <1>2, SplitAt
  <1>4. /\ wire' = wire \o fr /\ tty' = r /\ dec' = dec /\ input' = input
        /\ at' = at /\ typed' = typed /\ seen' = seen /\ waited' = waited /\ kept' = kept
    BY DEF ClientSend, Cut
  <1> HIDE DEF c, r
  <1>5. fr \in Seq(Byte) /\ Body(fr) = c /\ c \in Seq(Byte) /\ r \in Seq(Byte)
    BY <1>3, FrameIs, PlainIsByte
  <1>6. Framed(W \o fr)
    BY <1>1, <1>3, FramedAppend
  <1> HIDE DEF fr
  <1>7. dec \in Seq(Byte) /\ wire \in Seq(Byte)
    BY <1>1 DEF KeyTypes
  <1>8. dec \o (wire \o fr) = W \o fr
    <2>1. Assoc(dec, wire, fr)
      BY <1>5, <1>7, AssocIs
    <2> QED
      BY <2>1 DEF Assoc
  <1>9. Framed(dec' \o wire')
    BY <1>4, <1>6, <1>8
  <1>10. KeyTypes'
    <2>1. wire \o fr \in Seq(Byte)
      BY <1>5, <1>7
    <2> QED
      BY <1>1, <1>3, <1>4, <2>1 DEF KeyTypes
  <1>11. Waiting'
    BY <1>1, <1>4 DEF Waiting
  <1>12. Flight' = Flight
    <2>1. W \in Seq(Byte) /\ Body(W) \in Seq(Byte) /\ Flight = input.buf \o (Body(W) \o tty)
      BY <1>1, KeyTypesAre
    <2>2. Flight' = input.buf \o (Body(W \o fr) \o r)
      BY <1>4, <1>8, <1>10, KeyTypesArePrimed
    <2> HIDE DEF W
    <2>3. Body(W \o fr) = Body(W) \o c
      BY <1>5, <2>1, BodyCat
    <2>4. Assoc(Body(W), c, r)
      BY <1>5, <2>1, AssocIs
    <2>5. (Body(W) \o c) \o r = Body(W) \o tty
      BY <1>3, <2>4 DEF Assoc
    <2> QED
      BY <2>1, <2>2, <2>3, <2>5
  <1> QED
    BY <1>4, <1>9, <1>10, <1>11, <1>12, Along

LEMMA StillStep ==
  ASSUME KeyInv, input' = input, dec' = dec, wire' = wire, tty' = tty, typed' = typed,
         seen' = seen, waited' = waited, kept' = kept, at # "pump" \/ at' = "pump" \/ input.buf = <<>>
  PROVE  KeyInv' /\ Moves
  <1>1. Flight' = Flight
    BY DEF Flight
  <1>2. KeyTypes' /\ Framed(dec' \o wire')
    BY DEF KeyInv, KeyTypes
  <1>3. Waiting'
    <2>1. input.buf = <<>> => ~(Len(input.buf) > 0)
      OBVIOUS
    <2> QED
      BY <2>1 DEF KeyInv, Waiting
  <1> QED
    BY <1>1, <1>2, <1>3, Along

LEMMA DropStep ==
  ASSUME KeyInv, Dropped, seen' = seen, waited' = waited, typed' = typed
  PROVE  KeyInv' /\ Moves
  <1>1. tty' = <<>> /\ wire' = <<>> /\ dec' = <<>> /\ input' = NewParser /\ kept' = FALSE
    BY DEF Dropped
  <1>2. <<>> \in Seq(Byte) /\ <<>> \in Seq(Plain) /\ <<>> \o <<>> = <<>>
    OBVIOUS
  <1>3. Flight' = <<>>
    <2>1. Flight' = FlightOf(<<>>, <<>>, <<>>, <<>>)
      BY <1>1, NewParserIs DEF Flight, FlightOf
    <2> QED
      BY <1>2, <2>1, FlightEmpty
  <1>4. KeyTypes'
    BY <1>1, <1>2, NewParserIs DEF KeyInv, KeyTypes
  <1>5. Framed(dec' \o wire')
    BY <1>1, <1>2, FramedNone
  <1>6. PasteOK(input', Flight') /\ Waiting'
    BY <1>1, NewParserIs DEF PasteOK, Waiting
  <1>7. KeyInv'
    BY <1>3, <1>4, <1>5, <1>6, NoneIsChain DEF KeyInv
  <1>8. Forgets
    BY <1>1, <1>3, NewParserIs DEF Forgets
  <1> QED
    BY <1>7, <1>8 DEF Moves

LEMMA DrainStep ==
  ASSUME KeyInv, NEW n, Drain(n)
  PROVE  KeyInv' /\ Moves
  <1>1. CASE Overfed(dec, SubSeq(wire, 1, n))
    BY <1>1, DropStep DEF Drain
  <1>2. CASE ~Overfed(dec, SubSeq(wire, 1, n))
    <2> DEFINE c == SubSeq(wire, 1, n)
               r == Cut(wire, n)
    <2>1. KeyTypes /\ Framed(dec \o wire) /\ Waiting
      BY DEF KeyInv
    <2>2. wire \in Seq(Byte) /\ dec \in Seq(Byte) /\ n \in 0..Len(wire)
      BY <2>1 DEF KeyTypes, Drain
    <2>3. c \in Seq(Byte) /\ r \in Seq(Byte) /\ c \o r = wire
      BY <2>2, SplitAt
    <2>4. /\ dec' = dec \o c /\ wire' = r /\ tty' = tty /\ input' = input /\ at' = "decode"
          /\ at = "wait" /\ typed' = typed /\ seen' = seen /\ waited' = waited /\ kept' = kept
      BY <1>2 DEF Drain, Cut
    <2> HIDE DEF c, r
    <2>5. (dec \o c) \o r = dec \o wire
      <3>1. Assoc(dec, c, r)
        BY <2>2, <2>3, AssocIs
      <3> QED
        BY <2>3, <3>1 DEF Assoc
    <2>6. KeyTypes'
      <3>1. dec \o c \in Seq(Byte)
        BY <2>2, <2>3
      <3> QED
        BY <2>1, <2>3, <2>4, <3>1 DEF KeyTypes
    <2>7. Framed(dec' \o wire')
      BY <2>1, <2>4, <2>5
    <2>8. Flight' = Flight
      BY <2>1, <2>4, <2>5, <2>6, KeyTypesAre, KeyTypesArePrimed
    <2>9. Waiting'
      BY <2>1, <2>4 DEF Waiting
    <2> QED
      BY <2>4, <2>6, <2>7, <2>8, <2>9, Along
  <1> QED
    BY <1>1, <1>2

LEMMA DecodeStep ==
  ASSUME KeyInv, Decode
  PROVE  KeyInv' /\ Moves
  <1>1. CASE ~HasMessage(dec)
    <2>1. at = "decode" /\ input' = input /\ dec' = dec
      BY <1>1 DEF Decode
    <2>2. wire' = wire /\ tty' = tty /\ typed' = typed /\ seen' = seen /\ waited' = waited
          /\ kept' = kept
      BY DEF Decode
    <2> QED
      BY <2>1, <2>2, StillStep
  <1>2. CASE HasMessage(dec)
    <2> DEFINE m == MessageOf(dec)
               r == Cut(dec, Declared(dec))
               V == r \o wire
    <2>1. KeyTypes /\ Framed(dec \o wire) /\ Waiting
      BY DEF KeyInv
    <2>2. wire \in Seq(Byte) /\ dec \in Seq(Byte) /\ input \in Parser
      BY <2>1 DEF KeyTypes
    <2>3. /\ Declared(dec) \in 0..Len(dec) /\ m \in Seq(Plain) /\ Framed(V)
          /\ Body(dec \o wire) = m \o Body(V)
      BY <1>2, <2>1, <2>2, NextMessage
    <2>4. r \in Seq(Byte)
      BY <2>2, <2>3, CutIs
    <2>5. /\ input' = [input EXCEPT !.buf = @ \o m] /\ dec' = r /\ at' = "pump"
          /\ wire' = wire /\ tty' = tty
          /\ typed' = typed /\ seen' = seen /\ waited' = waited /\ kept' = kept
      BY <1>2 DEF Decode, Cut, MessageOf
    <2> HIDE DEF m, r
    <2>6. m \in Seq(Byte) /\ input.buf \in Seq(Byte)
      BY <2>2, <2>3, PlainIsByte DEF Parser
    <2>7. /\ input' \in Parser /\ input'.buf = input.buf \o m
          /\ input'.in_paste = input.in_paste /\ input'.paste_scanned = input.paste_scanned
          /\ input'.esc_pending = input.esc_pending
      <3>1. PICK w \in Seq(Byte) : w = input.buf \o m
        <4>1. input.buf \o m \in Seq(Byte)
          BY <2>6
        <4> QED
          BY <4>1, Zenon
      <3>2. input' = [input EXCEPT !.buf = w]
        BY <2>2, <2>5, <3>1 DEF Parser
      <3>3. /\ input' \in Parser /\ input'.buf = w
            /\ input'.in_paste = input.in_paste /\ input'.paste_scanned = input.paste_scanned
            /\ input'.esc_pending = input.esc_pending
        BY <2>2, <3>2 DEF Parser
      <3> QED
        BY <3>1, <3>3
    <2>8. KeyTypes'
      BY <2>1, <2>4, <2>5, <2>7 DEF KeyTypes
    <2>9. Framed(dec' \o wire')
      BY <2>3, <2>5
    <2>10. Flight' = Flight
      <3>1. V \in Seq(Byte)
        BY <2>2, <2>4
      <3>2. Body(V) \in Seq(Byte) /\ tty \in Seq(Byte)
        BY <2>1, <3>1, BodyType, KeyTypesAre
      <3>3. Flight = input.buf \o (Body(dec \o wire) \o tty)
        BY <2>1, KeyTypesAre
      <3>4. Flight' = (input.buf \o m) \o (Body(V) \o tty)
        BY <2>5, <2>7, <2>8, KeyTypesArePrimed
      <3>5. PICK B \in Seq(Byte) : B = Body(V)
        BY <3>2, Zenon
      <3>6. B \o tty \in Seq(Byte)
        BY <3>2
      <3>7. Assoc(input.buf, m, B \o tty)
        BY <2>6, <3>6, AssocIs
      <3>8. Assoc(m, B, tty)
        BY <2>6, <3>2, AssocIs
      <3> HIDE DEF V
      <3> QED
        BY <2>3, <3>3, <3>4, <3>5, <3>7, <3>8 DEF Assoc
    <2>11. Waiting'
      <3>1. input.esc_pending => Len(input.buf) > 0
        BY <2>1 DEF Waiting
      <3>2. Len(input.buf) > 0 => Len(input.buf \o m) > 0
        BY <2>6
      <3> QED
        BY <2>5, <2>7, <3>1, <3>2 DEF Waiting
    <2> QED
      BY <2>5, <2>7, <2>8, <2>9, <2>10, <2>11, Along
  <1> QED
    BY <1>1, <1>2

LEMMA PumpStep ==
  ASSUME NoOpener, KeyInv, Pump
  PROVE  KeyInv' /\ Moves
  <1>1. /\ at = "pump" /\ dec' = dec /\ wire' = wire /\ tty' = tty /\ typed' = typed
        /\ waited' = waited /\ kept' = kept
    BY DEF Pump
  <1>2. CASE input.buf = <<>>
    <2>1. input' = input /\ seen' = seen
      BY <1>2 DEF Pump
    <2> QED
      BY <1>1, <1>2, <2>1, StillStep
  <1>3. CASE input.buf # <<>>
    <2> DEFINE t == Step(input)
               R == Body(dec \o wire) \o tty
    <2>1. KeyTypes /\ Framed(dec \o wire) /\ Chain(Flight) /\ PasteOK(input, Flight)
      BY DEF KeyInv
    <2>2. Ahead(input, Flight) /\ (\A n \in 0..Len(input.buf) : Cut(Flight, n) = Cut(input.buf, n) \o R)
      BY <2>1, InputAhead
    <2>3. input \in Parser /\ input.buf \in Seq(Byte) /\ Len(input.buf) > 0
      <3>1. input \in Parser /\ input.buf \in Seq(Byte)
        BY <2>1, KeyTypesAre DEF KeyTypes
      <3> QED
        BY <1>3, <3>1
    <2>4. StepOK(t, input, Flight)
      BY <2>1, <2>2, <2>3, StepIsTaken
    <2>5. input' = t.parser /\ seen' = seen \o t.events
      BY <1>3 DEF Pump
    <2>6. at' = IF t.used = 0 THEN "decode" ELSE "pump"
      BY <1>3 DEF Pump
    <2> HIDE DEF t
    <2>7. /\ t.used \in 0..Len(input.buf) /\ input' \in Parser /\ input'.buf = Cut(input.buf, t.used)
          /\ Takes(Flight, input.in_paste, t.used, t.events, input'.in_paste)
          /\ PasteOK(input', Cut(Flight, t.used))
      BY <2>4, <2>5 DEF StepOK
    <2>8. SeqLike(seen')
      <3>1. t.events = <<>> \/ \E e : t.events = <<e>>
        BY <2>7, TakesEvents
      <3>2. SeqLike(seen)
        BY <2>1 DEF KeyTypes
      <3>3. CASE t.events = <<>>
        BY <2>5, <3>2, <3>3, SeqLikeCat
      <3>4. CASE \E e : t.events = <<e>>
        <4>1. PICK e : t.events = <<e>>
          BY <3>4
        <4> QED
          BY <2>5, <3>2, <4>1, SeqLikeCat
      <3> QED
        BY <3>1, <3>3, <3>4
    <2>9. KeyTypes'
      BY <1>1, <2>1, <2>7, <2>8 DEF KeyTypes
    <2>10. Flight' = Cut(Flight, t.used)
      BY <1>1, <2>2, <2>7, <2>9, KeyTypesArePrimed
    <2>11. t.used \in 0..Len(Flight) /\ Len(Flight) > 0
      <3>1. Len(input.buf) \in Nat /\ Len(Flight) \in Nat /\ Len(input.buf) <= Len(Flight)
        BY <2>1, <2>2, <2>3 DEF Ahead, Chain
      <3> QED
        BY <2>3, <2>7, <3>1
    <2>12. Chain(Flight')
      BY <2>1, <2>10, <2>11, ChainCut
    <2>13. Waiting'
      <3> SUFFICES ASSUME input'.esc_pending
                   PROVE  Len(input'.buf) = 1 /\ input'.buf[1].b = "esc" /\ ~input'.in_paste
        BY DEF Waiting
      <3>1. t.used = 0 /\ ~input'.in_paste /\ Len(input.buf) = 1 /\ input.buf[1].b = "esc"
        BY <2>4, <2>5 DEF StepOK
      <3>2. input'.buf = input.buf
        BY <2>3, <2>7, <3>1, CutAll
      <3> QED
        BY <3>1, <3>2
    <2>14. KeyInv'
      BY <1>1, <2>1, <2>7, <2>9, <2>10, <2>12, <2>13 DEF KeyInv
    <2>15. Moved(t.used, t.events)
      BY <1>1, <2>5, <2>7, <2>10, <2>11 DEF Moved
    <2> QED
      BY <1>1, <2>14, <2>15 DEF Moves
  <1> QED
    BY <1>2, <1>3

LEMMA EscStep ==
  ASSUME KeyInv, EscTurn
  PROVE  KeyInv' /\ Moves
  <1>1. /\ at = "top" /\ at' = "wait" /\ dec' = dec /\ wire' = wire /\ tty' = tty
        /\ typed' = typed /\ kept' = kept
    BY DEF EscTurn
  <1>2. CASE ~(input.esc_pending /\ esc = "due")
    <2>1. input' = input /\ seen' = seen /\ waited' = waited
      BY <1>2 DEF EscTurn
    <2> QED
      BY <1>1, <2>1, StillStep
  <1>3. CASE input.esc_pending /\ esc = "due"
    <2> DEFINE t == Timeout(input)
               R == Body(dec \o wire) \o tty
    <2>1. KeyTypes /\ Framed(dec \o wire) /\ Chain(Flight)
      BY DEF KeyInv
    <2>2. Ahead(input, Flight) /\ (\A n \in 0..Len(input.buf) : Cut(Flight, n) = Cut(input.buf, n) \o R)
      BY <2>1, InputAhead
    <2>3. input \in Parser /\ Len(input.buf) = 1 /\ input.buf[1].b = "esc" /\ ~input.in_paste
      BY <1>1, <1>3, <2>1 DEF KeyInv, Waiting, KeyTypes
    <2>4. TimeoutOK(t, input)
      BY <2>3, TimeoutIsTaken
    <2>5. input' = t.parser /\ seen' = seen \o t.events /\ waited' = waited + 1
      BY <1>3 DEF EscTurn
    <2> HIDE DEF t
    <2>6. /\ input' \in Parser /\ input'.buf = Cut(input.buf, 1) /\ ~input'.in_paste
          /\ ~input'.esc_pending /\ seen' = seen \o <<Event("Escape")>>
      BY <2>4, <2>5 DEF TimeoutOK
    <2>7. SeqLike(seen')
      BY <2>1, <2>6, SeqLikeCat DEF KeyTypes
    <2>8. KeyTypes'
      BY <1>1, <2>1, <2>6, <2>7 DEF KeyTypes
    <2>9. Flight' = Cut(Flight, 1)
      <3>1. 1 \in 0..Len(input.buf)
        BY <2>3
      <3> QED
        BY <1>1, <2>2, <2>6, <2>8, <3>1, KeyTypesArePrimed
    <2>10. 1 \in 0..Len(Flight) /\ Len(Flight) > 0 /\ Flight[1].b = "esc"
      <3>1. Len(Flight) \in Nat /\ 1 <= Len(Flight) /\ input.buf[1] = Flight[1]
        BY <2>1, <2>2, <2>3 DEF Ahead, Chain
      <3> QED
        BY <2>3, <3>1
    <2>11. Chain(Flight')
      BY <2>1, <2>9, <2>10, ChainCut
    <2>12. PasteOK(input', Flight') /\ Waiting'
      BY <2>6 DEF PasteOK, Waiting
    <2>13. KeyInv'
      BY <1>1, <2>1, <2>8, <2>11, <2>12 DEF KeyInv
    <2>14. GivesUp
      <3>1. input'.in_paste = FALSE /\ input.in_paste = FALSE
        BY <2>3, <2>6 DEF Parser
      <3> QED
        BY <1>1, <2>3, <2>5, <2>6, <2>9, <2>10, <3>1 DEF GivesUp
    <2> QED
      BY <1>1, <2>13, <2>14 DEF Moves
  <1> QED
    BY <1>2, <1>3

LEMMA NextStep ==
  ASSUME NoOpener, KeyInv, [Next]_vars
  PROVE  KeyInv' /\ Moves
  <1>1. ASSUME NEW n, ClientSend(n) PROVE KeyInv' /\ Moves
    BY <1>1, SendStep
  <1>2. ASSUME NEW n, Drain(n) PROVE KeyInv' /\ Moves
    BY <1>2, DrainStep
  <1>3. CASE EscTurn
    BY <1>3, EscStep
  <1>4. CASE Elapse
    BY <1>4, StillStep DEF Elapse
  <1>5. CASE Wake
    BY <1>5, StillStep DEF Wake
  <1>6. CASE Decode
    BY <1>6, DecodeStep
  <1>7. CASE Pump
    BY <1>7, PumpStep
  <1>8. CASE Detach
    BY <1>8, DropStep DEF Detach
  <1>9. CASE Lose
    BY <1>9, DropStep DEF Lose
  <1>10. CASE SeriesLapses
    BY <1>10, StillStep DEF SeriesLapses
  <1>11. CASE HelpComes
    BY <1>11, StillStep DEF HelpComes
  <1>12. CASE UNCHANGED vars
    BY <1>12, StillStep DEF vars
  <1> QED
    BY <1>1, <1>2, <1>3, <1>4, <1>5, <1>6, <1>7, <1>8, <1>9, <1>10, <1>11, <1>12 DEF Next

-----------------------------------------------------------------------------
(* KeyStream speaks of the same bytes and of the same events. *)
LEMMA SameBytes ==
  ASSUME NEW k
  PROVE  Promise!Bytes(k) = Bytes(k)
  <1>1. Promise!PasteStart = PasteStart /\ Promise!PasteEnd = PasteEnd
    BY DEF Promise!PasteStart, PasteStart, Promise!PasteEnd, PasteEnd
  <1>2. Promise!Sends = Sends
    BY <1>1 DEF Promise!Sends, Sends
  <1>3. Promise!Control = Control
    BY DEF Promise!Control, Control
  <1> QED
    BY <1>2, <1>3 DEF Promise!Bytes, Bytes

LEMMA SameTagged ==
  ASSUME NEW k
  PROVE  Promise!Tagged(k) = Tagged(k)
  BY SameBytes DEF Promise!Tagged, Tagged

LEMMA SameEvents ==
  ASSUME NEW x, NEW c
  PROVE  /\ Promise!Event(x) = Event(x) /\ Promise!AltChar(x) = AltChar(x)
         /\ Promise!Printable(x) = Printable(x) /\ Promise!Pasted(x, c) = Pasted(x, c)
         /\ Promise!CharEvent(x) = CharEvent(x) /\ Promise!Meaning(x) = Means(x)
  <1>1. \A y : Promise!Event(y) = Event(y)
    BY DEF Promise!Event, Event
  <1>2. \A y : Promise!AltChar(y) = AltChar(y)
    BY <1>1 DEF Promise!AltChar, AltChar
  <1>3. Promise!Control = Control
    BY DEF Promise!Control, Control
  <1>4. Promise!CharEvent(x) = CharEvent(x)
    BY <1>1, <1>3 DEF Promise!CharEvent, CharEvent
  <1>5. Promise!Printable(x) = Printable(x) /\ Promise!Pasted(x, c) = Pasted(x, c)
    BY DEF Promise!Printable, Printable, Promise!Pasted, Pasted
  <1>6. Promise!Meaning(x) = Means(x)
    BY <1>1, <1>2 DEF Promise!Meaning, Means, Promise!HeardAs, HeardKey
  <1> QED
    BY <1>1, <1>2, <1>4, <1>5, <1>6

LEMMA SameUse ==
  ASSUME NEW n, Flight' = Cut(Flight, n)
  PROVE  Promise!Used(n)
  BY DEF Promise!Used, Cut

LEMMA InitPromise ==
  ASSUME Init
  PROVE  Promise!Init
  <1>1. Flight = FlattenSeq([j \in DOMAIN typed |-> Tagged(typed[j])])
    BY InitKeyInv DEF Init
  <1>2. PICK n \in 0..MaxKeys : typed \in [1..n -> Keys]
    BY DEF Init
  <1>3. Flight = FlattenSeq([j \in 1..n |-> Promise!Tagged(typed[j])])
    <2>1. DOMAIN typed = 1..n
      BY <1>2
    <2> QED
      BY <1>1, <2>1, SameTagged
  <1>4. seen = <<>> /\ input.in_paste = FALSE /\ waited = 0
    BY DEF Init, NewParser
  <1>5. \A s : Promise!FlattenSeq(s) = FlattenSeq(s)
    BY DEF Promise!FlattenSeq, FlattenSeq
  <1>6. Flight = Promise!FlattenSeq([j \in 1..n |-> Promise!Tagged(typed[j])])
    BY <1>3, <1>5
  <1> QED
    BY <1>2, <1>4, <1>6 DEF Promise!Init

LEMMA MovePromise ==
  ASSUME KeyInv, NEW n, NEW ev, Moved(n, ev)
  PROVE  [Promise!Next]_(Promise!vars)
  <1> DEFINE F == Flight
             in == input.in_paste
             out == input'.in_paste
  <1>1. /\ n \in 0..Len(F) /\ Len(F) > 0 /\ F' = Cut(F, n) /\ seen' = seen \o ev
        /\ Takes(F, in, n, ev, out) /\ waited' = waited
    BY DEF Moved
  <1>2. F \in Seq(Byte) /\ Chain(F) /\ F # <<>>
    BY <1>1 DEF KeyInv, Chain
  <1>3. SeqLike(seen)
    BY DEF KeyInv, KeyTypes
  <1>4. Promise!Used(n)
    BY <1>1, SameUse
  <1>5. Promise!Handles(ev)
    BY <1>1 DEF Promise!Handles
  <1>6. OfKey(F[1])
    BY <1>1, <1>2 DEF Chain
  <1>7. F[1].k \in Keys /\ Len(Bytes(F[1].k)) \in Nat \ {0} /\ F[1].i \in 1..Len(Bytes(F[1].k))
        /\ F[1].b = Bytes(F[1].k)[F[1].i]
    BY <1>6, KeysAreSound DEF OfKey, Sound
  <1>8. Promise!First = F[1]
    BY DEF Promise!First
  <1>9. in \/ Promise!Plain
    BY <1>2 DEF Promise!Plain
  <1>10. \A k, i : Promise!Rest(k, i) = Len(Bytes(k)) - i + 1
    BY SameBytes DEF Promise!Rest
  <1>11. Len(Promise!PasteStart) = 4
    BY DEF Promise!PasteStart
  <1>12. TextLen \in Nat /\ Len(Bytes("Paste")) = TextLen + 8 /\ TextLen = Len(PasteText)
    BY BytesOfPaste DEF TextLen
  <1> HIDE DEF F, in, out
  <1>13. CASE Stays(F, in, n, ev, out)
    <2>1. Cut(F, 0) = F /\ seen \o <<>> = seen
      BY <1>2, <1>3, CutAll, SeqLikeCat
    <2>2. F' = F /\ seen' = seen /\ out = in
      BY <1>1, <1>13, <2>1 DEF Stays
    <2> QED
      BY <1>1, <2>2 DEF Promise!vars, F, in, out
  <1>14. CASE TakesWhole(F, in, n, ev, out)
    <2>1. ~in /\ out = in /\ F[1].i = 1 /\ F[1].k \notin {"Paste", "Escape"}
          /\ ev = <<Means(F[1].k)>> /\ n = Len(Bytes(F[1].k))
      BY <1>14 DEF TakesWhole
    <2>2. Promise!Rest(F[1].k, 1) = n
      BY <1>7, <1>10, <2>1
    <2>3. Promise!Meaning(F[1].k) = Means(F[1].k)
      BY SameEvents
    <2>4. Promise!Whole
      BY <1>1, <1>4, <1>5, <1>8, <1>9, <2>1, <2>2, <2>3 DEF Promise!Whole, in, out
    <2> QED
      BY <2>4 DEF Promise!Next
  <1>15. CASE TakesSpelled(F, in, n, ev, out)
    <2>1. ~in /\ out = in /\ F[1].i > 1 /\ F[1].b # "esc" /\ ev = <<CharEvent(F[1].b)>> /\ n = 1
      BY <1>15 DEF TakesSpelled
    <2>2. Promise!CharEvent(F[1].b) = CharEvent(F[1].b)
      BY SameEvents
    <2>4. ~Promise!Accented
      BY <1>8, <1>15 DEF TakesSpelled, HalfOfTwo, Promise!Accented, F
    <2>3. Promise!Spell
      BY <1>1, <1>4, <1>5, <1>8, <1>9, <2>1, <2>2, <2>4 DEF Promise!Spell, in, out
    <2> QED
      BY <2>3 DEF Promise!Next
  <1>21. CASE TakesAccent(F, in, n, ev, out)
    <2>1. ~in /\ out = in /\ F[1].i > 1 /\ F[1].b # "esc" /\ ev = <<Event("accent")>> /\ n = 2
      BY <1>21 DEF TakesAccent, HalfOfTwo
    <2>2. Promise!Event("accent") = Event("accent")
      BY SameEvents
    <2>4. Promise!Accented
      BY <1>8, <1>21 DEF TakesAccent, HalfOfTwo, Promise!Accented, F
    <2>3. Promise!Spell
      BY <1>1, <1>4, <1>5, <1>8, <1>9, <2>1, <2>2, <2>4 DEF Promise!Spell, in, out
    <2> QED
      BY <2>3 DEF Promise!Next
  <1>16. CASE TakesOrphan(F, in, n, ev, out)
    <2>1. ~in /\ out = in /\ F[1].k = "Paste" /\ F[1].i = TextLen + 5 /\ F[1].b = "esc"
          /\ ev = <<Event("Unknown")>> /\ n = 4
      BY <1>16 DEF TakesOrphan
    <2>2. TextLen + 5 > 1 /\ (TextLen + 8) - (TextLen + 5) + 1 = 4
      BY <1>12
    <2>3. Promise!Rest(F[1].k, F[1].i) = n /\ F[1].i > 1
      BY <1>10, <1>12, <2>1, <2>2
    <2>4. Promise!Event("Unknown") = Event("Unknown")
      BY SameEvents
    <2>5. Promise!Orphan
      BY <1>1, <1>4, <1>5, <1>8, <1>9, <2>1, <2>3, <2>4 DEF Promise!Orphan, in, out
    <2> QED
      BY <2>5 DEF Promise!Next
  <1>17. CASE TakesMerged(F, in, n, ev, out)
    <2>1. ~in /\ out = in /\ F[1].k = "Escape" /\ Len(F) > 1 /\ n = 2
          /\ ev = IF Printable(F[2].b) THEN <<AltChar(F[2].b)>> ELSE <<>>
      BY <1>17 DEF TakesMerged
    <2>2. Promise!Printable(F[2].b) = Printable(F[2].b) /\ Promise!AltChar(F[2].b) = AltChar(F[2].b)
      BY SameEvents
    <2>3. ev = IF Promise!Printable(F[2].b) THEN <<Promise!AltChar(F[2].b)>> ELSE <<>>
      BY <2>1, <2>2
    <2>4. Promise!Merge
      BY <1>1, <1>4, <1>5, <1>8, <1>9, <2>1, <2>3 DEF Promise!Merge, in, out, F
    <2> QED
      BY <2>4 DEF Promise!Next
  <1>18. CASE TakesOpening(F, in, n, ev, out)
    <2>1. ~in /\ out = TRUE /\ F[1].k = "Paste" /\ F[1].i = 1 /\ n = 4 /\ ev = <<>>
      BY <1>18 DEF TakesOpening
    <2>2. seen' = seen
      BY <1>1, <1>3, <2>1, SeqLikeCat
    <2>3. Promise!OpenPaste
      BY <1>1, <1>4, <1>8, <1>9, <1>11, <2>1, <2>2 DEF Promise!OpenPaste, in, out
    <2> QED
      BY <2>3 DEF Promise!Next
  <1>19. CASE TakesSlice(F, in, n, ev, out)
    <2> DEFINE from == F[1].i - 4
    <2>1. in /\ out = in /\ n \in 1..(TextLen + 5 - F[1].i)
          /\ ev = <<Pasted(SubSeq(PasteText, from, from + n - 1), FALSE)>>
      BY <1>19 DEF TakesSlice
    <2>2. Promise!Pasted(SubSeq(PasteText, from, from + n - 1), FALSE)
            = Pasted(SubSeq(PasteText, from, from + n - 1), FALSE)
      BY SameEvents
    <2>3. n \in 1..(Len(PasteText) - from + 1)
      <3>1. PICK i \in Nat : i = F[1].i
        BY <1>7
      <3>2. \A T \in Nat : T + 5 - i = T - (i - 4) + 1
        OBVIOUS
      <3>3. TextLen + 5 - i = TextLen - (i - 4) + 1
        BY <1>12, <3>2
      <3> QED
        BY <1>12, <2>1, <3>1, <3>3
    <2> HIDE DEF from
    <2>4. Promise!First.i - Len(Promise!PasteStart) = from
      BY <1>8, <1>11 DEF from
    <2>5. Promise!Slice
      BY <1>1, <1>2, <1>4, <1>5, <2>1, <2>2, <2>3, <2>4 DEF Promise!Slice, in, out, F
    <2> QED
      BY <2>5 DEF Promise!Next
  <1>20. CASE TakesEnd(F, in, n, ev, out)
    <2> DEFINE from == F[1].i - 4
    <2>1. in /\ out = FALSE /\ n = TextLen + 9 - F[1].i
          /\ ev = <<Pasted(SubSeq(PasteText, from, Len(PasteText)), TRUE)>>
      BY <1>12, <1>20 DEF TakesEnd
    <2>2. Promise!Pasted(SubSeq(PasteText, from, Len(PasteText)), TRUE)
            = Pasted(SubSeq(PasteText, from, Len(PasteText)), TRUE)
      BY SameEvents
    <2>3. Promise!Rest("Paste", F[1].i) = n
      <3>1. PICK i \in Nat : i = F[1].i
        BY <1>7
      <3>2. \A T \in Nat : (T + 8) - i + 1 = T + 9 - i
        OBVIOUS
      <3>3. (TextLen + 8) - i + 1 = TextLen + 9 - i
        BY <1>12, <3>2
      <3> QED
        BY <1>10, <1>12, <2>1, <3>1, <3>3
    <2> HIDE DEF from
    <2>4. Promise!First.i - Len(Promise!PasteStart) = from
      BY <1>8, <1>11 DEF from
    <2>5. Promise!Slice
      BY <1>1, <1>2, <1>4, <1>5, <1>8, <2>1, <2>2, <2>3, <2>4 DEF Promise!Slice, in, out, F
    <2> QED
      BY <2>5 DEF Promise!Next
  <1> QED
    BY <1>1, <1>13, <1>14, <1>15, <1>16, <1>17, <1>18, <1>19, <1>20, <1>21 DEF Takes

LEMMA StepPromise ==
  ASSUME KeyInv, Moves
  PROVE  [Promise!Next]_(Promise!vars)
  <1>1. CASE Rests
    BY <1>1 DEF Rests, Promise!vars
  <1>2. CASE \E n, ev : Moved(n, ev)
    BY <1>2, MovePromise
  <1>3. CASE GivesUp
    <2>1. Flight # <<>>
      BY <1>3 DEF GivesUp
    <2>2. Promise!Used(1) /\ Promise!Event("Escape") = Event("Escape")
      BY <1>3, SameUse, SameEvents DEF GivesUp
    <2>3. input'.in_paste = input.in_paste
      BY <1>3 DEF GivesUp
    <2>4. Promise!Split
      BY <1>3, <2>1, <2>2, <2>3 DEF GivesUp, Promise!Split, Promise!Plain, Promise!First, Promise!Handles
    <2> QED
      BY <2>4 DEF Promise!Next
  <1>4. CASE Forgets
    <2>1. input'.in_paste = FALSE
      BY <1>4 DEF Forgets
    <2>2. Promise!Lose
      BY <1>4, <2>1 DEF Forgets, Promise!Lose
    <2> QED
      BY <2>2 DEF Promise!Next
  <1> QED
    BY <1>1, <1>2, <1>3, <1>4 DEF Moves

(* The keys arrive as they were typed, whatever happens to their bytes on   *)
(* the way: the client's reads, the frames, the socket, the Decoder and the *)
(* parser (client.cpp, proto.cpp, parser.cpp, daemon.cpp) implement         *)
(* KeyStream.  The user types no '[' and no 'O' of their own: after Escape  *)
(* and before the deadline, parser.cpp takes them for the beginning of a    *)
(* sequence, which takes the next key along.                                *)
THEOREM KeysAreKept ==
  ASSUME NoOpener
  PROVE  Spec => KeysArrive
  <1>1. Init => KeyInv /\ Promise!Init
    BY InitKeyInv, InitPromise
  <1>2. KeyInv /\ [Next]_vars => KeyInv' /\ [Promise!Next]_(Promise!vars)
    BY NextStep, StepPromise
  <1> QED
    BY <1>1, <1>2, PTL DEF Spec, KeysArrive, Promise!Spec

-----------------------------------------------------------------------------
(* What a window writes for the keys it gets. *)
Unkeyed == {"Paste", "Press", "Focus", "HomeTilde"}

Clean(F) ==
  /\ \A j \in 1..Len(F) : F[j].k \notin Unkeyed
  /\ \A j \in 1..Len(F) : j + 1 \in 1..Len(F) /\ F[j].k = "Escape" => Printable(F[j + 1].b)
  /\ Len(F) > 0 => ~(F[1].k = "accent" /\ F[1].i = 2)

KeyEvent == [key : Value \cup {"Escape", "Enter", "Backspace"}, alt : BOOLEAN, text : {<<>>}, complete : {TRUE}]

LEMMA EncodingsOf ==
  /\ DOMAIN Encodings = {"Escape", "Enter", "accent", "leader", "CtrlQ", "Up", "CtrlUp", "F1", "F5",
                         "Unknown", "Backspace", "CtrlBar", "Home"}
  /\ Encodings["Backspace"] = <<"del">> /\ Encodings["CtrlBar"] = <<"|">>
  /\ Encodings["Home"] = <<"esc", "[", "H">>
  /\ Encodings["Escape"] = <<"esc">> /\ Encodings["Enter"] = <<"cr">>
  /\ Encodings["accent"] = <<"C3", "A9">> /\ Encodings["leader"] = <<"^a">>
  /\ Encodings["CtrlQ"] = <<"^q">> /\ Encodings["Up"] = <<"esc", "[", "A">>
  /\ Encodings["CtrlUp"] = <<"esc", "[", "1:5", "A">> /\ Encodings["F1"] = <<"esc", "O", "P">>
  /\ Encodings["F5"] = <<"esc", "[", "15", "~">> /\ Encodings["Unknown"] = <<>>
  BY DEF Encodings

LEMMA EventIs ==
  ASSUME NEW x \in Value \cup {"Escape", "Enter", "Backspace"}
  PROVE  /\ Event(x) \in KeyEvent /\ Event(x).key = x /\ ~Event(x).alt
         /\ AltChar(x) \in KeyEvent /\ AltChar(x).key = x /\ AltChar(x).alt
  BY DEF Event, AltChar, KeyEvent

LEMMA ValuesIn ==
  /\ "esc" \in Value /\ "[" \in Value /\ "A" \in Value /\ "1:5" \in Value /\ "O" \in Value
  /\ "P" \in Value /\ "15" \in Value /\ "~" \in Value /\ "M" \in Value /\ "<0:1:1" \in Value
  /\ "cr" \in Value /\ "^a" \in Value /\ "^q" \in Value /\ "x" \in Value /\ "C3" \in Value
  /\ "A9" \in Value /\ "lf" \in Value /\ "bs" \in Value /\ "del" \in Value /\ "fs" \in Value
  /\ "1" \in Value /\ "H" \in Value /\ "|" \in Value /\ Keys \subseteq Value
  BY DEF Value

LEMMA ShortIn ==
  ASSUME NEW X, NEW w \in X, NEW x \in X, NEW y \in X
  PROVE  <<>> \in Seq(X) /\ <<w>> \in Seq(X) /\ <<w, x>> \in Seq(X) /\ <<w, x, y>> \in Seq(X)
  OBVIOUS

LEMMA BytesType ==
  ASSUME NEW k \in Keys
  PROVE  Bytes(k) \in Seq(Value)
  <1>1. CASE k \notin Named
    <2>1. Bytes(k) = <<k>>
      BY <1>1, BytesOfCharacter
    <2>2. k \in Value
      BY ValuesIn
    <2>3. <<k>> \in Seq(Value)
      BY <2>2
    <2> QED
      BY <2>1, <2>3
  <1>2. CASE k = "Paste"
    BY <1>2, BytesOfPaste
  <1>3. CASE k \in {"Escape", "Enter", "leader", "CtrlQ", "LineFeed", "CtrlH", "Backspace", "CtrlBar"}
    <2>1. Bytes(k) \in {<<"esc">>, <<"cr">>, <<"^a">>, <<"^q">>, <<"lf">>, <<"bs">>, <<"del">>, <<"fs">>}
      BY <1>3, BytesOfNamed
    <2> QED
      BY <2>1, ValuesIn, ShortIn
  <1>4. CASE k \in {"Alt", "accent"}
    <2>1. Bytes(k) \in {<<"esc", "x">>, <<"C3", "A9">>}
      BY <1>4, BytesOfNamed
    <2>2. <<"esc", "x">> \in Seq(Value)
      BY ValuesIn, ShortIn
    <2>3. <<"C3", "A9">> \in Seq(Value)
      BY ValuesIn, ShortIn
    <2> QED
      BY <2>1, <2>2, <2>3
  <1>5. CASE k \in {"Up", "F1", "Focus"}
    <2>1. Bytes(k) \in {<<"esc", "[", "A">>, <<"esc", "O", "P">>, <<"esc", "[", "O">>}
      BY <1>5, BytesOfNamed
    <2>2. <<"esc", "[", "A">> \in Seq(Value) /\ <<"esc", "O", "P">> \in Seq(Value)
      BY ValuesIn, ShortIn
    <2>3. <<"esc", "[", "O">> \in Seq(Value)
      BY ValuesIn, ShortIn
    <2> QED
      BY <2>1, <2>2, <2>3
  <1>6. CASE k \in {"CtrlUp", "F5", "Press", "HomeTilde"}
    <2>1. Bytes(k) \in {<<"esc", "[", "1:5", "A">>, <<"esc", "[", "15", "~">>, <<"esc", "[", "<0:1:1", "M">>,
                        <<"esc", "[", "1", "~">>}
      BY <1>6, BytesOfNamed
    <2>2. <<"esc", "[", "1:5", "A">> \in Seq(Value) /\ <<"esc", "[", "15", "~">> \in Seq(Value)
      BY ValuesIn, FourIn
    <2>3. <<"esc", "[", "<0:1:1", "M">> \in Seq(Value) /\ <<"esc", "[", "1", "~">> \in Seq(Value)
      BY ValuesIn, FourIn
    <2> QED
      BY <2>1, <2>2, <2>3
  <1> QED
    BY <1>1, <1>2, <1>3, <1>4, <1>5, <1>6 DEF Named

LEMMA EncodeOther ==
  ASSUME NEW x \in Value \cup {"Escape", "Enter", "Backspace"}, x \notin DOMAIN Encodings
  PROVE  EncodeKey(Event(x)) = <<x>> /\ EncodeKey(AltChar(x)) = <<"esc", x>>
  BY EventIs DEF EncodeKey

(* What is rewritten. *)
Altered == {"lf", "bs", "fs"}

LEMMA RewrittenIs ==
  /\ Rewritten("lf") = "cr" /\ Rewritten("bs") = "del" /\ Rewritten("fs") = "|"
  /\ \A b : b \notin Altered => Rewritten(b) = b
  BY DEF Rewritten, Altered

Texts == Value \cup {"header"}

LEMMA RewrittenType ==
  ASSUME NEW b \in Texts
  PROVE  Rewritten(b) \in Texts /\ (b \in Value => Rewritten(b) \in Value)
  <1>1. CASE b \in Altered
    <2>1. Rewritten(b) \in {"cr", "del", "|"}
      BY <1>1, RewrittenIs DEF Altered
    <2> QED
      BY <2>1, ValuesIn DEF Texts
  <1>2. CASE b \notin Altered
    BY <1>2, RewrittenIs
  <1> QED
    BY <1>1, <1>2

LEMMA RewriteIs ==
  ASSUME NEW s \in Seq(Texts)
  PROVE  /\ Rewrite(s) \in Seq(Texts) /\ Len(Rewrite(s)) = Len(s)
         /\ \A j \in 1..Len(s) : Rewrite(s)[j] = Rewritten(s[j])
  <1>1. PICK n \in Nat : n = Len(s) /\ DOMAIN s = 1..n
    OBVIOUS
  <1>2. \A j \in 1..n : Rewritten(s[j]) \in Texts
    BY <1>1, RewrittenType
  <1> DEFINE r == [j \in 1..n |-> Rewritten(s[j])]
  <1>3. r \in [1..n -> Texts] /\ \A j \in 1..n : r[j] = Rewritten(s[j])
    BY <1>2
  <1>4. Rewrite(s) = r
    BY <1>1 DEF Rewrite
  <1> HIDE DEF r
  <1>5. r \in Seq(Texts) /\ Len(r) = n
    BY <1>3
  <1> QED
    BY <1>1, <1>3, <1>4, <1>5

LEMMA RewriteType ==
  ASSUME NEW s \in Seq(Value)
  PROVE  Rewrite(s) \in Seq(Value)
  <1>1. PICK n \in Nat : n = Len(s) /\ DOMAIN s = 1..n
    OBVIOUS
  <1>2. \A j \in 1..n : s[j] \in Texts /\ s[j] \in Value
    BY <1>1 DEF Texts
  <1>3. \A j \in 1..n : Rewritten(s[j]) \in Value
    BY <1>2, RewrittenType
  <1> DEFINE r == [j \in 1..n |-> Rewritten(s[j])]
  <1>4. r \in [1..n -> Value]
    BY <1>3
  <1>5. Rewrite(s) = r
    BY <1>1 DEF Rewrite
  <1> HIDE DEF r
  <1>6. r \in Seq(Value)
    BY <1>4
  <1> QED
    BY <1>5, <1>6

LEMMA InTexts ==
  ASSUME NEW s \in Seq(Value)
  PROVE  s \in Seq(Texts)
  BY DEF Texts

LEMMA RewriteSame ==
  ASSUME NEW s \in Seq(Value), NEW r \in Seq(Value), Len(r) = Len(s),
         \A j \in 1..Len(s) : Rewritten(s[j]) = r[j]
  PROVE  Rewrite(s) = r
  <1>1. s \in Seq(Texts) /\ r \in Seq(Texts)
    BY InTexts
  <1> DEFINE z == Rewrite(s)
  <1>2. z \in Seq(Texts) /\ Len(z) = Len(s) /\ \A j \in 1..Len(s) : z[j] = Rewritten(s[j])
    BY <1>1, RewriteIs
  <1> HIDE DEF z
  <1>3. z = r
    BY <1>1, <1>2, SameSeq
  <1> QED
    BY <1>3 DEF z

LEMMA RewriteOne ==
  ASSUME NEW b \in Value, NEW c \in Value, Rewritten(b) = c
  PROVE  Rewrite(<<b>>) = <<c>>
  <1> DEFINE s == <<b>>
             r == <<c>>
  <1>1. s \in Seq(Value) /\ r \in Seq(Value) /\ Len(s) = 1 /\ Len(r) = 1 /\ s[1] = b /\ r[1] = c
    OBVIOUS
  <1>2. \A j \in 1..1 : j = 1
    OBVIOUS
  <1> HIDE DEF s, r
  <1>3. \A j \in 1..Len(s) : Rewritten(s[j]) = r[j]
    BY <1>1, <1>2
  <1>4. Rewrite(s) = r
    BY <1>1, <1>3, RewriteSame
  <1> QED
    BY <1>4 DEF s, r

(* The keys whose bytes are left alone. *)
LEMMA UnalteredBytes ==
  ASSUME NEW k \in Keys, k \notin Unkeyed, k \notin {"LineFeed", "CtrlH", "CtrlBar"},
         NEW j \in 1..Len(Bytes(k))
  PROVE  Bytes(k)[j] \notin Altered
  <1>1. CASE k \notin Named
    <2>1. Bytes(k) = <<k>> /\ k \notin Altered
      BY <1>1, BytesOfCharacter, KeyboardAssumption DEF Altered
    <2>2. Len(<<k>>) = 1 /\ <<k>>[1] = k
      OBVIOUS
    <2>3. j = 1
      BY <2>1, <2>2
    <2> QED
      BY <2>1, <2>2, <2>3
  <1>2. CASE k \in {"Escape", "Enter", "leader", "CtrlQ", "Backspace"}
    <2>1. Len(Bytes(k)) = 1
      BY <1>2, ByteTable
    <2>2. j = 1
      BY <2>1
    <2> QED
      BY <1>2, <2>2, ByteTable DEF Altered
  <1>3. CASE k \in {"Alt", "accent"}
    <2>1. Len(Bytes(k)) = 2
      BY <1>3, ByteTable
    <2>2. j = 1 \/ j = 2
      BY <2>1
    <2> QED
      BY <1>3, <2>2, ByteTable DEF Altered
  <1>4. CASE k \in {"Up", "F1"}
    <2>1. Len(Bytes(k)) = 3
      BY <1>4, ByteTable
    <2>2. j = 1 \/ j = 2 \/ j = 3
      BY <2>1
    <2> QED
      BY <1>4, <2>2, ByteTable DEF Altered
  <1>5. CASE k \in {"CtrlUp", "F5"}
    <2>1. Len(Bytes(k)) = 4
      BY <1>5, ByteTable
    <2>2. j = 1 \/ j = 2 \/ j = 3 \/ j = 4
      BY <2>1
    <2> QED
      BY <1>5, <2>2, ByteTable DEF Altered
  <1> QED
    BY <1>1, <1>2, <1>3, <1>4, <1>5 DEF Named, Unkeyed

LEMMA RewriteUnaltered ==
  ASSUME NEW k \in Keys, k \notin Unkeyed, k \notin {"LineFeed", "CtrlH", "CtrlBar"}
  PROVE  Rewrite(Bytes(k)) = Bytes(k)
  <1>1. Bytes(k) \in Seq(Value)
    BY BytesType
  <1>2. \A j \in 1..Len(Bytes(k)) : Rewritten(Bytes(k)[j]) = Bytes(k)[j]
    BY UnalteredBytes, RewrittenIs
  <1> QED
    BY <1>1, <1>2, RewriteSame

LEMMA EncodeMeaning ==
  ASSUME NEW k \in Keys, k \notin Unkeyed
  PROVE  EncodeKey(Means(k)) = Rewrite(Bytes(k)) /\ Means(k) \in KeyEvent
  <1>1. k \in Value /\ "x" \in Value /\ k # "Unknown" /\ k # "Home"
    BY ValuesIn, KeyboardAssumption
  <1>2. CASE k = "Alt"
    <2>1. "x" \notin DOMAIN Encodings
      BY EncodingsOf
    <2>2. EncodeKey(AltChar("x")) = <<"esc", "x">> /\ AltChar("x") \in KeyEvent
      BY <1>1, <2>1, EncodeOther, EventIs
    <2>3. Means(k) = AltChar("x")
      BY <1>2, MeansIs
    <2>4. Rewrite(Bytes(k)) = Bytes(k)
      BY <1>2, RewriteUnaltered
    <2> QED
      BY <1>2, <2>2, <2>3, <2>4, BytesOfNamed
  <1>3. CASE k \notin Named
    <2>1. Means(k) = Event(k) /\ Event(k) \in KeyEvent
      BY <1>1, <1>3, EventIs, MeansIs DEF Named
    <2>2. k \notin DOMAIN Encodings
      BY <1>1, <1>3, EncodingsOf DEF Named
    <2>3. EncodeKey(Event(k)) = <<k>> /\ Bytes(k) = <<k>>
      BY <1>1, <1>3, <2>2, EncodeOther, BytesOfCharacter
    <2>4. Rewrite(Bytes(k)) = Bytes(k)
      BY <1>3, RewriteUnaltered DEF Named
    <2> QED
      BY <2>1, <2>3, <2>4
  <1>4. CASE k \in {"Escape", "Enter", "accent", "leader", "CtrlQ", "Up", "CtrlUp", "F1", "F5", "Backspace"}
    <2>1. Means(k) = Event(k) /\ Event(k) \in KeyEvent /\ Event(k).key = k
      BY <1>1, <1>4, EventIs, MeansIs
    <2>2. EncodeKey(Event(k)) = Encodings[k]
      BY <1>4, <2>1, EncodingsOf DEF EncodeKey
    <2>3. Encodings[k] = Bytes(k)
      BY <1>4, EncodingsOf, BytesOfNamed
    <2>4. Rewrite(Bytes(k)) = Bytes(k)
      BY <1>4, RewriteUnaltered
    <2> QED
      BY <2>1, <2>2, <2>3, <2>4
  <1>5. CASE k \in {"LineFeed", "CtrlH", "CtrlBar"}
    <2>1. /\ Event("Enter") \in KeyEvent /\ Event("Enter").key = "Enter"
          /\ Event("Backspace") \in KeyEvent /\ Event("Backspace").key = "Backspace"
      BY EventIs
    <2>2. EncodeKey(Event("Enter")) = <<"cr">> /\ EncodeKey(Event("Backspace")) = <<"del">>
      BY <2>1, EncodingsOf DEF EncodeKey
    <2>3. /\ Rewrite(<<"lf">>) = <<"cr">> /\ Rewrite(<<"bs">>) = <<"del">>
          /\ Rewrite(<<"fs">>) = <<"|">>
      BY RewriteOne, RewrittenIs, ValuesIn
    <2>4. CASE k = "LineFeed"
      BY <2>1, <2>2, <2>3, <2>4, MeansIs, BytesOfNamed
    <2>5. CASE k = "CtrlH"
      BY <2>1, <2>2, <2>3, <2>5, MeansIs, BytesOfNamed
    <2>6. CASE k = "CtrlBar"
      <3>1. Event("CtrlBar") \in KeyEvent /\ Event("CtrlBar").key = "CtrlBar"
        BY <1>1, <2>6, EventIs
      <3>2. EncodeKey(Event("CtrlBar")) = <<"|">>
        BY <3>1, EncodingsOf DEF EncodeKey
      <3> QED
        BY <2>3, <2>6, <3>1, <3>2, MeansIs, BytesOfNamed
    <2> QED
      BY <1>5, <2>4, <2>5, <2>6
  <1> QED
    BY <1>2, <1>3, <1>4, <1>5 DEF Named, Unkeyed

LEMMA EncodeType ==
  ASSUME NEW e \in KeyEvent
  PROVE  EncodeKey(e) \in Seq(Value)
  <1>1. e.key \in Value \cup {"Escape", "Enter", "Backspace"}
    BY DEF KeyEvent
  <1>2. CASE e.key \in DOMAIN Encodings
    <2>1. EncodeKey(e) = Encodings[e.key]
      BY <1>2 DEF EncodeKey
    <2>2. /\ <<"esc">> \in Seq(Value) /\ <<"cr">> \in Seq(Value) /\ <<"C3", "A9">> \in Seq(Value)
          /\ <<"^a">> \in Seq(Value) /\ <<"^q">> \in Seq(Value) /\ <<"esc", "[", "A">> \in Seq(Value)
          /\ <<"esc", "O", "P">> \in Seq(Value) /\ <<>> \in Seq(Value)
          /\ <<"del">> \in Seq(Value) /\ <<"|">> \in Seq(Value) /\ <<"esc", "[", "H">> \in Seq(Value)
      BY ValuesIn, ShortIn
    <2>3. <<"esc", "[", "1:5", "A">> \in Seq(Value) /\ <<"esc", "[", "15", "~">> \in Seq(Value)
      BY ValuesIn, FourIn
    <2>4. /\ Encodings["Escape"] \in Seq(Value)
          /\ Encodings["Enter"] \in Seq(Value)
          /\ Encodings["accent"] \in Seq(Value)
          /\ Encodings["leader"] \in Seq(Value)
          /\ Encodings["CtrlQ"] \in Seq(Value)
          /\ Encodings["Up"] \in Seq(Value)
          /\ Encodings["CtrlUp"] \in Seq(Value)
          /\ Encodings["F1"] \in Seq(Value)
          /\ Encodings["F5"] \in Seq(Value)
          /\ Encodings["Unknown"] \in Seq(Value)
          /\ Encodings["Backspace"] \in Seq(Value)
          /\ Encodings["CtrlBar"] \in Seq(Value)
          /\ Encodings["Home"] \in Seq(Value)
      <3>1. Encodings["Escape"] = <<"esc">>
        BY EncodingsOf
      <3>2. Encodings["Enter"] = <<"cr">>
        BY EncodingsOf
      <3>3. Encodings["accent"] = <<"C3", "A9">>
        BY EncodingsOf
      <3>4. Encodings["leader"] = <<"^a">>
        BY EncodingsOf
      <3>5. Encodings["CtrlQ"] = <<"^q">>
        BY EncodingsOf
      <3>6. Encodings["Up"] = <<"esc", "[", "A">>
        BY EncodingsOf
      <3>7. Encodings["CtrlUp"] = <<"esc", "[", "1:5", "A">>
        BY EncodingsOf
      <3>8. Encodings["F1"] = <<"esc", "O", "P">>
        BY EncodingsOf
      <3>9. Encodings["F5"] = <<"esc", "[", "15", "~">>
        BY EncodingsOf
      <3>10. Encodings["Unknown"] = <<>>
        BY EncodingsOf
      <3>11. Encodings["Backspace"] = <<"del">>
        BY EncodingsOf
      <3>12. Encodings["CtrlBar"] = <<"|">>
        BY EncodingsOf
      <3>13. Encodings["Home"] = <<"esc", "[", "H">>
        BY EncodingsOf
      <3> QED
        BY <2>2, <2>3, <3>1, <3>2, <3>3, <3>4, <3>5, <3>6, <3>7, <3>8, <3>9, <3>10, <3>11, <3>12, <3>13
    <2>7. e.key \in {"Escape", "Enter", "accent", "leader", "CtrlQ", "Up", "CtrlUp", "F1", "F5", "Unknown",
                    "Backspace", "CtrlBar", "Home"}
      BY <1>2, EncodingsOf
    <2> QED
      BY <2>1, <2>4, <2>7
  <1>3. CASE e.key \notin DOMAIN Encodings
    <2>1. e.key \in Value
      BY <1>1, <1>3, EncodingsOf
    <2>2. EncodeKey(e) \in {<<"esc", e.key>>, <<e.key>>}
      BY <1>3 DEF EncodeKey
    <2> QED
      BY <2>1, <2>2, ValuesIn, ShortIn
  <1> QED
    BY <1>2, <1>3

encoder == [e \in KeyEvent |-> EncodeKey(e)]

LEMMA EncoderType ==
  encoder \in [KeyEvent -> Seq(Value)] /\ \A e \in KeyEvent : encoder[e] = EncodeKey(e)
  BY EncodeType DEF encoder

byter == [k \in Keys |-> Rewrite(Bytes(k))]

LEMMA ByterType ==
  byter \in [Keys -> Seq(Value)] /\ \A k \in Keys : byter[k] = Rewrite(Bytes(k))
  BY BytesType, RewriteType DEF byter

LEMMA SeenIsMap ==
  ASSUME NEW u \in Seq(KeyEvent)
  PROVE  FlattenSeq([j \in DOMAIN u |-> EncodeKey(u[j])]) = FlatMap(encoder, u)
  <1>1. \A j \in DOMAIN u : u[j] \in KeyEvent
    OBVIOUS
  <1>2. \A j \in DOMAIN u : encoder[u[j]] = EncodeKey(u[j])
    BY <1>1, EncoderType
  <1>3. Map(encoder, u) = [j \in DOMAIN u |-> EncodeKey(u[j])]
    BY <1>2 DEF Map
  <1> QED
    BY <1>3 DEF FlatMap

LEMMA BytesAreMap ==
  ASSUME NEW u \in Seq(Keys)
  PROVE  FlattenSeq([j \in DOMAIN u |-> Rewrite(Bytes(u[j]))]) = FlatMap(byter, u)
  <1>1. \A j \in DOMAIN u : u[j] \in Keys
    OBVIOUS
  <1>2. \A j \in DOMAIN u : byter[u[j]] = Rewrite(Bytes(u[j]))
    BY <1>1, ByterType
  <1>3. Map(byter, u) = [j \in DOMAIN u |-> Rewrite(Bytes(u[j]))]
    BY <1>2 DEF Map
  <1> QED
    BY <1>3 DEF FlatMap

Told(s) == Rewrite(Values(s))

LEMMA ToldIs ==
  ASSUME NEW s \in Seq(Byte)
  PROVE  /\ Told(s) \in Seq(Texts) /\ Len(Told(s)) = Len(s)
         /\ \A j \in 1..Len(s) : Told(s)[j] = Rewritten(s[j].b)
  <1> DEFINE v == Values(s)
  <1>1. v \in Seq(Texts) /\ Len(v) = Len(s) /\ \A j \in 1..Len(s) : v[j] = s[j].b
    BY ValuesAre DEF Texts
  <1> HIDE DEF v
  <1> DEFINE r == Rewrite(v)
  <1>2. r \in Seq(Texts) /\ Len(r) = Len(v) /\ \A j \in 1..Len(v) : r[j] = Rewritten(v[j])
    BY <1>1, RewriteIs
  <1> HIDE DEF r
  <1>3. \A j \in 1..Len(s) : r[j] = Rewritten(s[j].b)
    BY <1>1, <1>2
  <1>4. Told(s) = r
    BY DEF Told, r, v
  <1> QED
    BY <1>1, <1>2, <1>3, <1>4

LEMMA ToldOf ==
  ASSUME NEW s \in Seq(Byte), NEW v \in Seq(Value), Len(s) = Len(v),
         \A j \in 1..Len(s) : Rewritten(s[j].b) = v[j]
  PROVE  Told(s) = v
  <1> DEFINE Y == Texts
             w == Told(s)
  <1>1. w \in Seq(Y) /\ Len(w) = Len(s) /\ \A j \in 1..Len(s) : w[j] = Rewritten(s[j].b)
    BY ToldIs
  <1>2. v \in Seq(Y)
    BY InTexts
  <1> HIDE DEF w, Y
  <1>3. w = v
    BY <1>1, <1>2, SameSeq
  <1> QED
    BY <1>3 DEF w

LEMMA ToldCat ==
  ASSUME NEW s \in Seq(Byte), NEW t \in Seq(Byte)
  PROVE  Told(s \o t) = Told(s) \o Told(t)
  <1> DEFINE Y == Texts
             a == Told(s)
             c == Told(t)
             u == s \o t
             w == Told(u)
             z == a \o c
  <1>1. PICK m \in Nat, n \in Nat : m = Len(s) /\ n = Len(t)
    OBVIOUS
  <1>2. a \in Seq(Y) /\ Len(a) = m /\ \A j \in 1..m : a[j] = Rewritten(s[j].b)
    BY <1>1, ToldIs
  <1>3. c \in Seq(Y) /\ Len(c) = n /\ \A j \in 1..n : c[j] = Rewritten(t[j].b)
    BY <1>1, ToldIs
  <1>4. IsCat(u, s, t, Byte)
    BY CatIs
  <1> HIDE DEF u
  <1>5. /\ u \in Seq(Byte) /\ Len(u) = m + n
        /\ \A j \in 1..m : u[j] = s[j]
        /\ \A j \in 1..n : u[m + j] = t[j]
    BY <1>1, <1>4 DEF IsCat
  <1>6. w \in Seq(Y) /\ Len(w) = m + n /\ \A j \in 1..(m + n) : w[j] = Rewritten(u[j].b)
    BY <1>5, ToldIs
  <1> HIDE DEF a, c, w, Y
  <1>7. IsCat(z, a, c, Y)
    BY <1>2, <1>3, CatIs
  <1> HIDE DEF z
  <1>8. /\ z \in Seq(Y) /\ Len(z) = m + n
        /\ \A j \in 1..m : z[j] = a[j]
        /\ \A j \in 1..n : z[m + j] = c[j]
    BY <1>2, <1>3, <1>7 DEF IsCat
  <1>9. ASSUME NEW j \in 1..(m + n) PROVE w[j] = z[j]
    <2>1. CASE j \in 1..m
      <3>1. a[j] = Rewritten(s[j].b) /\ u[j] = s[j] /\ z[j] = a[j]
        BY <1>2, <1>5, <1>8, <2>1
      <3>2. w[j] = Rewritten(u[j].b)
        BY <1>6
      <3> QED
        BY <3>1, <3>2
    <2>2. CASE j \notin 1..m
      <3>1. PICK i \in 1..n : j = m + i
        <4>1. j - m \in 1..n /\ j = m + (j - m)
          BY <2>2
        <4> QED
          BY <4>1
      <3>2. c[i] = Rewritten(t[i].b) /\ u[j] = t[i] /\ z[j] = c[i]
        BY <1>3, <1>5, <1>8, <3>1
      <3>3. w[j] = Rewritten(u[j].b)
        BY <1>6
      <3> QED
        BY <3>2, <3>3
    <2> QED
      BY <2>1, <2>2
  <1>10. w = z
    BY <1>6, <1>8, <1>9, SameSeq
  <1> QED
    BY <1>10 DEF a, c, u, w, z

LEMMA ToldOfTagged ==
  ASSUME NEW k \in Keys
  PROVE  Told(Tagged(k)) = Rewrite(Bytes(k))
  <1> DEFINE s == Tagged(k)
             B == Bytes(k)
             r == Rewrite(B)
  <1>1. s \in Seq(Byte) /\ Len(s) = Len(B) /\ B \in Seq(Value)
    BY TaggedIs, PlainIsByte, BytesType
  <1>2. ASSUME NEW j \in 1..Len(B) PROVE s[j].b = B[j]
    <2>1. s[j] = [b |-> B[j], k |-> k, i |-> j]
      BY TaggedIs
    <2> HIDE DEF s, B
    <2> QED
      BY <2>1
  <1> HIDE DEF s, B
  <1>3. r \in Seq(Value) /\ Len(r) = Len(B) /\ \A j \in 1..Len(B) : r[j] = Rewritten(B[j])
    BY <1>1, InTexts, RewriteIs, RewriteType
  <1> HIDE DEF r
  <1>4. \A j \in 1..Len(s) : Rewritten(s[j].b) = r[j]
    BY <1>1, <1>2, <1>3
  <1>5. Told(s) = r
    BY <1>1, <1>3, <1>4, ToldOf
  <1> QED
    BY <1>5 DEF s, r, B

LEMMA ToldNone == Told(<<>>) = <<>>
  <1>1. <<>> \in Seq(Byte) /\ Len(<<>>) = 0
    OBVIOUS
  <1>2. Told(<<>>) \in Seq(Texts) /\ Len(Told(<<>>)) = 0
    BY <1>1, ToldIs
  <1> DEFINE t == Told(<<>>)
  <1> HIDE DEF t
  <1>3. t = <<>>
    BY <1>2 DEF t
  <1> QED
    BY <1>3 DEF t

LEMMA ToldOfTyped ==
  ASSUME NEW u \in Seq(Keys)
  PROVE  Told(FlatMap(tagger, u)) = FlatMap(byter, u)
  <1> DEFINE S == {w \in Seq(Keys) : Told(FlatMap(tagger, w)) = FlatMap(byter, w)}
  <1>1. <<>> \in S
    <2>1. FlatMap(tagger, <<>>) = <<>> /\ FlatMap(byter, <<>>) = <<>>
      BY FlatMapEmpty
    <2>2. Told(<<>>) = <<>>
      BY ToldNone
    <2> QED
      BY <2>1, <2>2
  <1>2. ASSUME NEW w \in Seq(Keys), NEW x \in Keys, w \in S PROVE Append(w, x) \in S
    <2>1. FlatMap(tagger, Append(w, x)) = FlatMap(tagger, w) \o Tagged(x)
      BY TypedAppend
    <2>2. FlatMap(byter, Append(w, x)) = FlatMap(byter, w) \o Rewrite(Bytes(x))
      BY ByterType, FlatMapAppend
    <2>3. FlatMap(tagger, w) \in Seq(Byte) /\ Tagged(x) \in Seq(Byte)
      BY TypedIsPlain, TaggedIs, PlainIsByte
    <2>4. Told(FlatMap(tagger, w) \o Tagged(x)) = Told(FlatMap(tagger, w)) \o Told(Tagged(x))
      BY <2>3, ToldCat
    <2>5. Append(w, x) \in Seq(Keys) /\ Told(FlatMap(tagger, w)) = FlatMap(byter, w)
      BY <1>2
    <2> QED
      BY <2>1, <2>2, <2>4, <2>5, ToldOfTagged
  <1> HIDE DEF S
  <1>3. u \in S
    BY <1>1, <1>2, SeqInduct
  <1> QED
    BY <1>3 DEF S

(* What is cut off a clean chain leaves a clean chain, unless it is half of *)
(* a character.                                                            *)
LEMMA CleanCut ==
  ASSUME NEW F, Chain(F), Clean(F), NEW n \in 0..Len(F),
         n < Len(F) => ~(F[n + 1].k = "accent" /\ F[n + 1].i = 2)
  PROVE  Clean(Cut(F, n))
  <1> DEFINE G == Cut(F, n)
  <1>1. F \in Seq(Byte)
    BY DEF Chain
  <1>2. PICK m \in Nat : m = Len(F) /\ n \in 0..m
    BY <1>1
  <1>3. Len(G) = m - n /\ \A j \in 1..(m - n) : G[j] = F[n + j]
    BY <1>1, <1>2, CutIs
  <1> HIDE DEF G
  <1>4. \A j \in 1..(m - n) : n + j \in 1..m
    BY <1>2
  <1>5. \A j \in 1..(m - n) : G[j].k \notin Unkeyed
    BY <1>2, <1>3, <1>4 DEF Clean
  <1>6. ASSUME NEW j \in 1..(m - n), j + 1 \in 1..(m - n), G[j].k = "Escape"
        PROVE  Printable(G[j + 1].b)
    <2>1. n + j \in 1..m /\ (n + j) + 1 \in 1..m /\ n + (j + 1) = (n + j) + 1
      BY <1>2, <1>6
    <2>2. G[j] = F[n + j] /\ G[j + 1] = F[(n + j) + 1]
      BY <1>3, <1>6, <2>1
    <2> QED
      BY <1>2, <1>6, <2>1, <2>2 DEF Clean
  <1>7. m - n > 0 => ~(G[1].k = "accent" /\ G[1].i = 2)
    <2> SUFFICES ASSUME m - n > 0 PROVE ~(G[1].k = "accent" /\ G[1].i = 2)
      OBVIOUS
    <2>1. 1 \in 1..(m - n) /\ n < m
      BY <1>2
    <2>2. G[1] = F[n + 1]
      BY <1>3, <2>1
    <2> QED
      BY <1>2, <2>1, <2>2
  <1> QED
    BY <1>3, <1>5, <1>6, <1>7 DEF Clean, G

LEMMA NotHalf ==
  ASSUME NEW F, Chain(F), NEW n \in 1..Len(F), ~(F[n].k = "accent" /\ F[n].i = 1)
  PROVE  n < Len(F) => ~(F[n + 1].k = "accent" /\ F[n + 1].i = 2)
  <1> SUFFICES ASSUME n < Len(F), F[n + 1].k = "accent", F[n + 1].i = 2 PROVE FALSE
    OBVIOUS
  <1>1. F \in Seq(Byte)
    BY DEF Chain
  <1>2. n + 1 \in 1..Len(F)
    BY <1>1
  <1>3. Follows(F[n], F[n + 1]) /\ OfKey(F[n])
    BY <1>2 DEF Chain
  <1>4. F[n].i \in Nat
    <2>1. F[n] \in Byte
      BY <1>1
    <2> QED
      BY <2>1 DEF Byte
  <1>5. F[n].k = "accent" /\ 2 = F[n].i + 1
    BY <1>3 DEF Follows
  <1> QED
    BY <1>4, <1>5

(* What is left of a key that was split. *)
LEMMA LateNames ==
  ASSUME NEW k \in Keys, k \notin Unkeyed, NEW i \in 2..Len(Bytes(k)), ~(k = "accent" /\ i = 2)
  PROVE  Bytes(k)[i] \in {"[", "A", "1:5", "O", "P", "15", "~", "x"}
  <1>1. CASE k \notin Named
    BY <1>1, BytesOfCharacter
  <1>2. CASE k \in {"Escape", "Enter", "leader", "CtrlQ", "LineFeed", "CtrlH", "Backspace", "CtrlBar"}
    BY <1>2, ByteTable
  <1>3. CASE k \in {"Alt", "accent"}
    <2>1. Len(Bytes(k)) = 2
      BY <1>3, ByteTable
    <2>2. i = 2
      BY <2>1
    <2> QED
      BY <1>3, <2>2, ByteTable
  <1>4. CASE k \in {"Up", "F1"}
    <2>1. Len(Bytes(k)) = 3
      BY <1>4, ByteTable
    <2>2. i = 2 \/ i = 3
      BY <2>1
    <2> QED
      BY <1>4, <2>2, ByteTable
  <1>5. CASE k \in {"CtrlUp", "F5"}
    <2>1. Len(Bytes(k)) = 4
      BY <1>5, ByteTable
    <2>2. i = 2 \/ i = 3 \/ i = 4
      BY <2>1
    <2> QED
      BY <1>5, <2>2, ByteTable
  <1> QED
    BY <1>1, <1>2, <1>3, <1>4, <1>5 DEF Named, Unkeyed

LEMMA SpellLate ==
  ASSUME NEW c \in {"[", "A", "1:5", "O", "P", "15", "~", "x"}
  PROVE  CharEvent(c) = Event(c) /\ c \in Value /\ c \notin DOMAIN Encodings
  <1>1. c \notin {Control[k] : k \in DOMAIN Control} /\ c \notin {"cr", "lf", "bs", "C3", "A9"}
    BY ControlOf
  <1>2. CharEvent(c) = Event(c)
    BY <1>1 DEF CharEvent
  <1> QED
    BY <1>2, ValuesIn, EncodingsOf

(* Escape goes with a character, and with nothing else. *)
LEMMA PrintableFirst ==
  ASSUME NEW k \in Keys, Printable(Bytes(k)[1])
  PROVE  Bytes(k)[1] = k /\ k \notin DOMAIN Encodings /\ k # "accent"
  <1>1. k \notin Named
    <2> SUFFICES ASSUME k \in Named PROVE FALSE
      OBVIOUS
    <2>1. Bytes(k)[1] \in {"esc", "cr", "lf", "bs", "del", "fs", "^a", "^q", "C3"}
      BY ByteTable, BytesOfPaste DEF Named
    <2> QED
      BY <2>1 DEF Printable
  <1>2. Bytes(k) = <<k>> /\ k # "Unknown" /\ k # "Home"
    BY <1>1, BytesOfCharacter, KeyboardAssumption
  <1> QED
    BY <1>1, <1>2, EncodingsOf DEF Named

(* The events a window gets for bytes, written out, are those bytes. *)
Echoes(F, n, ev) ==
  /\ ev \in Seq(KeyEvent) /\ FlatMap(encoder, ev) = Told(SubSeq(F, 1, n)) /\ Clean(Cut(F, n))

LEMMA EchoOne ==
  ASSUME NEW F \in Seq(Byte), NEW n \in 0..Len(F), NEW e \in KeyEvent, NEW v \in Seq(Value),
         EncodeKey(e) = v, Len(v) = n, \A j \in 1..n : Rewritten(F[j].b) = v[j], Clean(Cut(F, n))
  PROVE  Echoes(F, n, <<e>>)
  <1> DEFINE s == SubSeq(F, 1, n)
  <1>1. s \in Seq(Byte) /\ Len(s) = n /\ \A j \in 1..n : s[j] = F[j]
    OBVIOUS
  <1> HIDE DEF s
  <1>2. Told(s) = v
    BY <1>1, ToldOf
  <1>3. FlatMap(encoder, <<e>>) = encoder[e]
    BY EncoderType, FlatMapOne
  <1>4. <<e>> \in Seq(KeyEvent)
    OBVIOUS
  <1> QED
    BY <1>2, <1>3, <1>4, EncoderType DEF Echoes, s

LEMMA CleanTake ==
  ASSUME NEW F, Chain(F), Clean(F), Len(F) > 0, NEW p, PasteOK(p, F), NEW n \in 0..Len(F),
         NEW ev, NEW out, Takes(F, p.in_paste, n, ev, out)
  PROVE  Echoes(F, n, ev)
  <1> DEFINE k == F[1].k
             i == F[1].i
  <1>1. F \in Seq(Byte) /\ Len(F) \in Nat /\ 1 \in 1..Len(F)
    BY DEF Chain
  <1>2. k \notin Unkeyed /\ ~(k = "accent" /\ i = 2)
    BY <1>1 DEF Clean
  <1>3. OfKey(F[1])
    BY <1>1 DEF Chain
  <1>4. k \in Keys /\ Len(Bytes(k)) \in Nat \ {0} /\ i \in 1..Len(Bytes(k)) /\ F[1].b = Bytes(k)[i]
    BY <1>3, KeysAreSound DEF OfKey, Sound
  <1>5. k # "Paste"
    BY <1>2 DEF Unkeyed
  <1>6. ~p.in_paste
    BY <1>5 DEF PasteOK
  <1>7. CASE Stays(F, p.in_paste, n, ev, out)
    <2>1. n = 0 /\ ev = <<>>
      BY <1>7 DEF Stays
    <2>2. Cut(F, 0) = F /\ SubSeq(F, 1, 0) = <<>>
      BY <1>1, CutAll
    <2>3. Told(<<>>) = <<>> /\ FlatMap(encoder, <<>>) = <<>> /\ <<>> \in Seq(KeyEvent)
      BY FlatMapEmpty, ToldNone
    <2> QED
      BY <2>1, <2>2, <2>3 DEF Echoes
  <1>8. CASE TakesWhole(F, p.in_paste, n, ev, out)
    <2>1. i = 1 /\ ev = <<Means(k)>> /\ n = Len(Bytes(k))
      BY <1>8 DEF TakesWhole
    <2>2. EncodeKey(Means(k)) = Rewrite(Bytes(k)) /\ Means(k) \in KeyEvent /\ Bytes(k) \in Seq(Value)
      BY <1>2, <1>4, EncodeMeaning, BytesType
    <2>3. \A m \in 0..(Len(Bytes(k)) - i) :
            F[m + 1].k = k /\ F[m + 1].i = i + m /\ F[m + 1].b = Bytes(k)[i + m]
      BY ChainAhead
    <2> HIDE DEF k, i
    <2>4. ASSUME NEW j \in 1..n PROVE F[j].k = k /\ F[j].i = j /\ F[j].b = Bytes(k)[j]
      <3>1. j - 1 \in 0..(Len(Bytes(k)) - i) /\ (j - 1) + 1 = j /\ i + (j - 1) = j
        BY <1>4, <2>1
      <3> QED
        BY <2>3, <3>1
    <2>5. n \in 1..Len(F) /\ n \in 1..n
      BY <1>1, <1>4, <2>1
    <2>6. ~(F[n].k = "accent" /\ F[n].i = 1)
      <3>1. F[n].k = k /\ F[n].i = n
        BY <2>4, <2>5
      <3>2. k = "accent" => n = 2
        BY <2>1, ByteTable
      <3> QED
        BY <3>1, <3>2
    <2>7. Clean(Cut(F, n))
      BY <2>5, <2>6, NotHalf, CleanCut
    <2> DEFINE B == Bytes(k)
               v == Rewrite(B)
               e == Means(k)
    <2>9. /\ v \in Seq(Value) /\ Len(v) = n /\ EncodeKey(e) = v /\ e \in KeyEvent
          /\ \A j \in 1..n : v[j] = Rewritten(B[j])
      <3>1. B \in Seq(Value) /\ Len(B) = n
        BY <2>1, <2>2
      <3> HIDE DEF B
      <3>2. v \in Seq(Value) /\ Len(v) = Len(B) /\ \A j \in 1..Len(B) : v[j] = Rewritten(B[j])
        BY <3>1, InTexts, RewriteIs, RewriteType
      <3> HIDE DEF v
      <3> QED
        BY <2>2, <3>1, <3>2 DEF v, B
    <2>10. \A j \in 1..n : Rewritten(F[j].b) = v[j]
      <3> HIDE DEF v
      <3> QED
        BY <2>4, <2>9
    <2> HIDE DEF v, e, B
    <2>8. Echoes(F, n, <<e>>)
      BY <1>1, <2>5, <2>7, <2>9, <2>10, EchoOne
    <2> QED
      BY <2>1, <2>8 DEF e
  <1>9. CASE TakesSpelled(F, p.in_paste, n, ev, out)
    <2> DEFINE c == F[1].b
    <2>1. i > 1 /\ ev = <<CharEvent(c)>> /\ n = 1
      BY <1>9 DEF TakesSpelled
    <2>2. i \in 2..Len(Bytes(k))
      BY <1>4, <2>1
    <2>3. c \in {"[", "A", "1:5", "O", "P", "15", "~", "x"}
      BY <1>2, <1>4, <2>2, LateNames
    <2>4. CharEvent(c) = Event(c) /\ c \in Value /\ c \notin DOMAIN Encodings
      BY <2>3, SpellLate
    <2>5. EncodeKey(Event(c)) = <<c>> /\ Event(c) \in KeyEvent
      BY <2>4, EncodeOther, EventIs
    <2>6. <<c>> \in Seq(Value) /\ Len(<<c>>) = 1 /\ <<c>>[1] = c
      BY <2>4
    <2>7. Clean(Cut(F, 1))
      <3>1. ~(F[1].k = "accent" /\ F[1].i = 1)
        BY <2>1
      <3> QED
        BY <1>1, <2>1, <3>1, NotHalf, CleanCut
    <2>8. \A j \in 1..1 : Rewritten(F[j].b) = <<c>>[j]
      <3>1. \A j \in 1..1 : j = 1
        OBVIOUS
      <3>2. c \notin Altered
        BY <2>3 DEF Altered
      <3>3. Rewritten(c) = c
        BY <3>2, RewrittenIs
      <3> QED
        BY <2>6, <3>1, <3>3
    <2> DEFINE v == <<c>>
    <2>9. v \in Seq(Value) /\ Len(v) = 1 /\ (\A j \in 1..1 : Rewritten(F[j].b) = v[j]) /\ EncodeKey(Event(c)) = v
      BY <2>5, <2>6, <2>8
    <2> HIDE DEF v, c
    <2>10. Echoes(F, 1, <<Event(c)>>)
      BY <1>1, <2>1, <2>5, <2>7, <2>9, EchoOne
    <2> QED
      BY <2>1, <2>4, <2>10
  <1>10. CASE TakesMerged(F, p.in_paste, n, ev, out)
    <2> DEFINE c == F[2].b
    <2>1. k = "Escape" /\ Len(F) > 1 /\ n = 2 /\ ev = IF Printable(c) THEN <<AltChar(c)>> ELSE <<>>
      BY <1>10 DEF TakesMerged
    <2>2. 1 + 1 \in 1..Len(F) /\ 2 \in 1..Len(F) /\ 1 + 1 = 2
      BY <1>1, <2>1
    <2>3. Printable(c)
      <3>1. Printable(F[1 + 1].b)
        BY <1>1, <2>1, <2>2 DEF Clean
      <3> QED
        BY <2>2, <3>1
    <2>4. Follows(F[1], F[2]) /\ OfKey(F[2])
      <3>1. Follows(F[1], F[1 + 1])
        BY <1>1, <2>2 DEF Chain
      <3> QED
        BY <2>2, <3>1 DEF Chain
    <2>5. Len(Bytes("Escape")) = 1 /\ Bytes("Escape")[1] = "esc"
      BY ByteTable
    <2>6. i = 1 /\ F[1].b = "esc"
      BY <1>4, <2>1, <2>5
    <2>7. F[2].i = 1 /\ F[2].k \in Keys /\ c = Bytes(F[2].k)[1]
      BY <2>1, <2>4, <2>5, <2>6 DEF Follows, OfKey
    <2>8. c = F[2].k /\ c \notin DOMAIN Encodings /\ F[2].k # "accent" /\ c \in Value
      BY <2>3, <2>7, PrintableFirst, ValuesIn
    <2>9. EncodeKey(AltChar(c)) = <<"esc", c>> /\ AltChar(c) \in KeyEvent
      BY <2>8, EncodeOther, EventIs
    <2> DEFINE v == <<"esc", c>>
    <2>10. v \in Seq(Value) /\ Len(v) = 2 /\ v[1] = "esc" /\ v[2] = c
      BY <2>8, ValuesIn
    <2>11. \A j \in 1..2 : Rewritten(F[j].b) = v[j]
      <3>1. \A j \in 1..2 : j = 1 \/ j = 2
        OBVIOUS
      <3>2. "esc" \notin Altered /\ c \notin Altered
        BY <2>3 DEF Altered, Printable
      <3>3. Rewritten("esc") = "esc" /\ Rewritten(c) = c
        BY <3>2, RewrittenIs
      <3> HIDE DEF v
      <3> QED
        BY <2>6, <2>10, <3>1, <3>3
    <2>12. Clean(Cut(F, 2))
      BY <2>1, <2>2, <2>8, NotHalf, CleanCut
    <2>13. EncodeKey(AltChar(c)) = v
      BY <2>9
    <2> HIDE DEF v, c
    <2>14. Echoes(F, 2, <<AltChar(c)>>)
      BY <1>1, <2>1, <2>9, <2>10, <2>11, <2>12, <2>13, EchoOne
    <2> QED
      BY <2>1, <2>3, <2>14
  <1>11. ~TakesOrphan(F, p.in_paste, n, ev, out) /\ ~TakesOpening(F, p.in_paste, n, ev, out)
         /\ ~TakesAccent(F, p.in_paste, n, ev, out)
    BY <1>5 DEF TakesOrphan, TakesOpening, TakesAccent
  <1>12. ~TakesSlice(F, p.in_paste, n, ev, out) /\ ~TakesEnd(F, p.in_paste, n, ev, out)
    BY <1>6 DEF TakesSlice, TakesEnd
  <1> QED
    BY <1>7, <1>8, <1>9, <1>10, <1>11, <1>12 DEF Takes

(* The timer gives up on an escape: the window writes it. *)
LEMMA CleanGiveUp ==
  ASSUME NEW F, Chain(F), Clean(F), Len(F) > 0, F[1].b = "esc"
  PROVE  Echoes(F, 1, <<Event("Escape")>>)
  <1>1. F \in Seq(Byte) /\ 1 \in 1..Len(F) /\ 1 \in 0..Len(F)
    BY DEF Chain
  <1>2. OfKey(F[1])
    BY <1>1 DEF Chain
  <1>3. ~(F[1].k = "accent" /\ F[1].i = 1)
    <2> SUFFICES ASSUME F[1].k = "accent", F[1].i = 1 PROVE FALSE
      OBVIOUS
    <2>1. F[1].b = Bytes("accent")[1]
      BY <1>2 DEF OfKey
    <2> QED
      BY <2>1, ByteTable
  <1>4. Clean(Cut(F, 1))
    BY <1>1, <1>3, NotHalf, CleanCut
  <1>5. Event("Escape") \in KeyEvent /\ Event("Escape").key = "Escape"
    BY EventIs
  <1>6. EncodeKey(Event("Escape")) = <<"esc">>
    BY <1>5, EncodingsOf DEF EncodeKey
  <1> DEFINE v == <<"esc">>
             e == Event("Escape")
  <1>7. v \in Seq(Value) /\ Len(v) = 1 /\ v[1] = "esc"
    BY ValuesIn
  <1>8. e \in KeyEvent /\ EncodeKey(e) = v
    BY <1>5, <1>6
  <1> HIDE DEF v, e
  <1>9. \A j \in 1..1 : Rewritten(F[j].b) = v[j]
    <2>1. \A j \in 1..1 : j = 1
      OBVIOUS
    <2>2. "esc" \notin Altered
      BY DEF Altered
    <2>3. Rewritten("esc") = "esc"
      BY <2>2, RewrittenIs
    <2> QED
      BY <1>7, <2>1, <2>3
  <1>10. Echoes(F, 1, <<e>>)
    BY <1>1, <1>4, <1>7, <1>8, <1>9, EchoOne
  <1> QED
    BY <1>10 DEF e

LEMMA CleanCat ==
  ASSUME NEW F \in Seq(Byte), Clean(F), NEW x \in Keys, x \notin Unkeyed,
         Len(F) > 0 /\ F[Len(F)].k = "Escape" => Printable(Bytes(x)[1])
  PROVE  LET G == F \o Tagged(x)
         IN  Clean(G) /\ Len(G) > 0 /\ G[Len(G)].k = x
  <1> DEFINE s == Tagged(x)
             G == F \o s
  <1>1. s \in Seq(Byte) /\ Len(s) = Len(Bytes(x)) /\ Len(Bytes(x)) \in Nat \ {0}
    BY TaggedIs, PlainIsByte, KeysAreSound DEF Sound
  <1>2. ASSUME NEW j \in 1..Len(s) PROVE s[j].b = Bytes(x)[j] /\ s[j].k = x /\ s[j].i = j
    <2>1. j \in 1..Len(Bytes(x))
      BY <1>1
    <2>2. s[j] = [b |-> Bytes(x)[j], k |-> x, i |-> j]
      BY <2>1, TaggedIs
    <2> HIDE DEF s
    <2> QED
      BY <2>2
  <1> HIDE DEF s
  <1>3. PICK m \in Nat, n \in Nat : m = Len(F) /\ n = Len(s) /\ n > 0
    BY <1>1
  <1>4. IsCat(G, F, s, Byte)
    BY <1>1, CatIs
  <1> HIDE DEF G
  <1>5. /\ Len(G) = m + n
        /\ \A j \in 1..m : G[j] = F[j]
        /\ \A j \in 1..n : G[m + j] = s[j]
    BY <1>3, <1>4 DEF IsCat
  <1>6. \A j \in 1..n : G[m + j].k = x /\ G[m + j].b = Bytes(x)[j] /\ G[m + j].i = j
    BY <1>2, <1>3, <1>5
  <1>7. \A j \in 1..(m + n) : j \in 1..m \/ (j - m \in 1..n /\ m + (j - m) = j)
    BY <1>3
  <1>8. ASSUME NEW j \in 1..(m + n) PROVE G[j].k \notin Unkeyed
    <2>1. CASE j \in 1..m
      BY <1>3, <1>5, <2>1 DEF Clean
    <2>2. CASE j - m \in 1..n /\ m + (j - m) = j
      <3>1. G[j].k = x
        BY <1>6, <2>2
      <3> QED
        BY <3>1
    <2> QED
      BY <1>7, <2>1, <2>2
  <1>9. ASSUME NEW j \in 1..(m + n), j + 1 \in 1..(m + n), G[j].k = "Escape"
        PROVE  Printable(G[j + 1].b)
    <2>1. CASE j \in 1..m /\ j + 1 \in 1..m
      BY <1>3, <1>5, <1>9, <2>1 DEF Clean
    <2>2. CASE j = m /\ m > 0
      <3>1. j \in 1..m /\ 1 \in 1..n /\ j + 1 = m + 1
        BY <1>3, <2>2
      <3>2. G[j] = F[m] /\ G[j + 1].b = Bytes(x)[1]
        BY <1>5, <1>6, <2>2, <3>1
      <3> QED
        BY <1>3, <1>9, <2>2, <3>2
    <2>3. CASE j > m
      <3>1. j - m \in 1..n /\ m + (j - m) = j /\ n > 1
        BY <1>3, <1>9, <2>3
      <3>2. x = "Escape"
        BY <1>6, <1>9, <3>1
      <3>3. n = 1
        BY <1>1, <1>3, <3>2, ByteTable
      <3> QED
        BY <3>1, <3>3
    <2> QED
      BY <1>3, <1>9, <2>1, <2>2, <2>3
  <1>10. ~(G[1].k = "accent" /\ G[1].i = 2)
    <2>1. CASE m > 0
      <3>1. 1 \in 1..m
        BY <1>3, <2>1
      <3> QED
        BY <1>3, <1>5, <2>1, <3>1 DEF Clean
    <2>2. CASE m = 0
      <3>1. 1 \in 1..n /\ m + 1 = 1
        BY <1>3, <2>2
      <3>2. G[1].i = 1
        BY <1>6, <3>1
      <3> QED
        BY <3>2
    <2> QED
      BY <1>3, <2>1, <2>2
  <1>11. m + n > 0 /\ G[m + n].k = x
    <2>1. n \in 1..n /\ m + n > 0
      BY <1>3
    <2> QED
      BY <1>6, <2>1
  <1>12. Clean(G)
    BY <1>5, <1>8, <1>9, <1>10 DEF Clean
  <1> QED
    BY <1>5, <1>11, <1>12 DEF G, s

(* The keys Transparent is about. *)
Unmixed(u) ==
  /\ \A j \in 1..Len(u) : u[j] \notin Unkeyed
  /\ \A j \in 1..(Len(u) - 1) : u[j] = "Escape" => Printable(Bytes(u[j + 1])[1])

EndsIn(F, u) ==
  \/ Len(u) = 0 /\ Len(F) = 0
  \/ Len(u) > 0 /\ Len(F) > 0 /\ F[Len(F)].k = u[Len(u)]

LEMMA UnmixedAppend ==
  ASSUME NEW u \in Seq(Keys), NEW x \in Keys, Unmixed(Append(u, x))
  PROVE  Unmixed(u) /\ x \notin Unkeyed /\ (Len(u) > 0 /\ u[Len(u)] = "Escape" => Printable(Bytes(x)[1]))
  <1> DEFINE v == Append(u, x)
  <1>1. PICK n \in Nat : n = Len(u)
    OBVIOUS
  <1>2. Len(v) = n + 1 /\ v[n + 1] = x /\ \A j \in 1..n : v[j] = u[j]
    BY <1>1
  <1> HIDE DEF v
  <1>3. /\ \A j \in 1..(n + 1) : v[j] \notin Unkeyed
        /\ \A j \in 1..n : v[j] = "Escape" => Printable(Bytes(v[j + 1])[1])
    <2>1. (n + 1) - 1 = n
      OBVIOUS
    <2> QED
      BY <1>2, <2>1 DEF Unmixed, v
  <1>4. x \notin Unkeyed
    <2>1. n + 1 \in 1..(n + 1)
      OBVIOUS
    <2> QED
      BY <1>2, <1>3, <2>1
  <1>5. \A j \in 1..n : u[j] \notin Unkeyed
    <2>1. \A j \in 1..n : j \in 1..(n + 1)
      OBVIOUS
    <2> QED
      BY <1>2, <1>3, <2>1
  <1>6. ASSUME NEW j \in 1..(n - 1), u[j] = "Escape" PROVE Printable(Bytes(u[j + 1])[1])
    <2>1. j \in 1..n /\ j + 1 \in 1..n
      OBVIOUS
    <2> QED
      BY <1>2, <1>3, <1>6, <2>1
  <1>7. ASSUME n > 0, u[n] = "Escape" PROVE Printable(Bytes(x)[1])
    <2>1. n \in 1..n
      BY <1>7
    <2> QED
      BY <1>2, <1>3, <1>7, <2>1
  <1> QED
    BY <1>1, <1>4, <1>5, <1>6, <1>7 DEF Unmixed

LEMMA TypedIsClean ==
  ASSUME NEW u \in Seq(Keys), Unmixed(u)
  PROVE  Clean(FlatMap(tagger, u))
  <1> DEFINE F(w) == FlatMap(tagger, w)
             S == {w \in Seq(Keys) : Unmixed(w) => Clean(F(w)) /\ EndsIn(F(w), w)}
  <1>1. <<>> \in S
    <2>1. F(<<>>) = <<>>
      BY FlatMapEmpty
    <2>2. Clean(<<>>) /\ EndsIn(<<>>, <<>>)
      BY DEF Clean, EndsIn
    <2> QED
      BY <2>1, <2>2
  <1>2. ASSUME NEW w \in Seq(Keys), NEW x \in Keys, w \in S PROVE Append(w, x) \in S
    <2> SUFFICES ASSUME Unmixed(Append(w, x))
                 PROVE  Clean(F(Append(w, x))) /\ EndsIn(F(Append(w, x)), Append(w, x))
      OBVIOUS
    <2>1. /\ Unmixed(w) /\ x \notin Unkeyed
          /\ Len(w) > 0 /\ w[Len(w)] = "Escape" => Printable(Bytes(x)[1])
      BY UnmixedAppend
    <2>2. Clean(F(w)) /\ EndsIn(F(w), w) /\ F(w) \in Seq(Byte)
      BY <1>2, <2>1, TypedIsPlain, PlainIsByte
    <2>3. F(Append(w, x)) = F(w) \o Tagged(x)
      BY TypedAppend
    <2>4. Len(Append(w, x)) > 0 /\ Append(w, x)[Len(Append(w, x))] = x
      OBVIOUS
    <2> DEFINE A == F(w)
               G == A \o Tagged(x)
               a == Append(w, x)
    <2> HIDE DEF F
    <2>5. Len(A) > 0 /\ A[Len(A)].k = "Escape" => Printable(Bytes(x)[1])
      BY <2>1, <2>2 DEF EndsIn
    <2>6. Clean(G) /\ Len(G) > 0 /\ G[Len(G)].k = x
      <3> HIDE DEF A
      <3> QED
        BY <2>1, <2>2, <2>5, CleanCat DEF A
    <2> HIDE DEF G, a
    <2>7. EndsIn(G, a)
      BY <2>4, <2>6 DEF EndsIn, a
    <2> QED
      BY <2>3, <2>6, <2>7 DEF G, a
  <1> HIDE DEF S
  <1>3. u \in S
    BY <1>1, <1>2, SeqInduct
  <1> QED
    BY <1>3 DEF S

Shown(s, F) == FlatMap(encoder, s) \o Told(F)

Echoed(s, F, u) == Clean(F) /\ s \in Seq(KeyEvent) /\ Shown(s, F) = FlatMap(byter, u)

(* What has been handled, written out, and what is on its way are what was  *)
(* typed.                                                                   *)
TransInv == kept /\ Unmixed(typed) => Echoed(seen, Flight, typed)

LEMMA EchoMore ==
  ASSUME NEW F \in Seq(Byte), NEW s \in Seq(KeyEvent), NEW n \in 0..Len(F), NEW ev, Echoes(F, n, ev)
  PROVE  s \o ev \in Seq(KeyEvent) /\ Shown(s \o ev, Cut(F, n)) = Shown(s, F)
  <1> DEFINE Y == Texts
             h == SubSeq(F, 1, n)
             r == Cut(F, n)
             a == FlatMap(encoder, s)
             c == FlatMap(encoder, ev)
             g == Told(r)
  <1>1. ev \in Seq(KeyEvent) /\ c = Told(h)
    BY DEF Echoes
  <1>2. h \in Seq(Byte) /\ r \in Seq(Byte) /\ h \o r = F
    BY SplitAt
  <1>3. Told(F) = Told(h) \o Told(r)
    <2> HIDE DEF h, r
    <2>1. Told(h \o r) = Told(h) \o Told(r)
      BY <1>2, ToldCat
    <2> QED
      BY <1>2, <2>1
  <1>4. FlatMap(encoder, s \o ev) = a \o c
    <2>1. encoder \in [KeyEvent -> Seq(Value)]
      BY EncoderType
    <2>2. Splits(encoder, s, ev)
      BY <1>1, <2>1, MapSplits
    <2> QED
      BY <2>2 DEF Splits
  <1>5. a \in Seq(Value) /\ c \in Seq(Value) /\ g \in Seq(Y)
    BY <1>1, <1>2, EncoderType, FlatMapType, ToldIs
  <1>6. a \in Seq(Y) /\ c \in Seq(Y) /\ g \in Seq(Y)
    <2> HIDE DEF a, c, g
    <2>1. \A z \in Seq(Value) : z \in Seq(Y)
      BY InTexts
    <2> QED
      BY <1>5, <2>1
  <1>7. s \o ev \in Seq(KeyEvent)
    BY <1>1
  <1> HIDE DEF a, c, g, h, r, Y
  <1>8. (a \o c) \o g = a \o (c \o g)
    <2>1. Assoc(a, c, g)
      BY <1>6, AssocIs
    <2> QED
      BY <2>1 DEF Assoc
  <1>9. Told(F) = c \o g
    BY <1>1, <1>3 DEF g
  <1>10. Shown(s \o ev, r) = (a \o c) \o g
    BY <1>4 DEF Shown, g
  <1>11. Shown(s, F) = a \o (c \o g)
    BY <1>9 DEF Shown, a
  <1> QED
    BY <1>7, <1>8, <1>10, <1>11 DEF r

LEMMA InitTrans ==
  ASSUME Init
  PROVE  TransInv
  <1> SUFFICES ASSUME Unmixed(typed) PROVE Echoed(seen, Flight, typed)
    BY DEF TransInv
  <1>1. typed \in Seq(Keys) /\ seen = <<>>
    BY DEF Init
  <1>2. Flight = FlatMap(tagger, typed)
    BY <1>1, InitKeyInv, TypedIsMap DEF Init
  <1> DEFINE F == FlatMap(tagger, typed)
  <1>3. Clean(F) /\ F \in Seq(Byte) /\ Told(F) = FlatMap(byter, typed)
    BY <1>1, TypedIsClean, TypedIsPlain, PlainIsByte, ToldOfTyped
  <1> HIDE DEF F
  <1>4. FlatMap(encoder, <<>>) = <<>> /\ <<>> \in Seq(KeyEvent)
    BY FlatMapEmpty
  <1>5. <<>> \o Told(F) = Told(F)
    <2>1. Told(F) \in Seq(Texts)
      BY <1>3, ToldIs
    <2> DEFINE v == Told(F)
    <2> HIDE DEF v
    <2>2. <<>> \o v = v
      BY <2>1 DEF v
    <2> QED
      BY <2>2 DEF v
  <1>6. Shown(<<>>, F) = FlatMap(byter, typed)
    BY <1>3, <1>4, <1>5 DEF Shown
  <1>7. Echoed(<<>>, F, typed)
    BY <1>3, <1>4, <1>6 DEF Echoed
  <1>8. Flight = F
    BY <1>2 DEF F
  <1> QED
    BY <1>1, <1>7, <1>8

LEMMA EchoStep ==
  ASSUME KeyInv, NEW n \in 0..Len(Flight), NEW ev, Echoed(seen, Flight, typed), Echoes(Flight, n, ev),
         Flight' = Cut(Flight, n), seen' = seen \o ev, typed' = typed
  PROVE  Echoed(seen', Flight', typed')
  <1> DEFINE F == Flight
  <1>1. F \in Seq(Byte) /\ seen \in Seq(KeyEvent) /\ Shown(seen, F) = FlatMap(byter, typed)
    BY DEF KeyInv, Chain, Echoed
  <1>2. n \in 0..Len(F) /\ Echoes(F, n, ev)
    OBVIOUS
  <1> HIDE DEF F
  <1>3. seen \o ev \in Seq(KeyEvent) /\ Shown(seen \o ev, Cut(F, n)) = Shown(seen, F)
    BY <1>1, <1>2, EchoMore
  <1>4. Clean(Cut(F, n))
    BY <1>2 DEF Echoes
  <1>5. Echoed(seen \o ev, Cut(F, n), typed)
    BY <1>1, <1>3, <1>4 DEF Echoed
  <1>6. Flight' = Cut(F, n)
    BY DEF F
  <1> QED
    BY <1>5, <1>6

LEMMA StepTrans ==
  ASSUME KeyInv, Moves, TransInv
  PROVE  TransInv'
  <1> SUFFICES ASSUME kept', Unmixed(typed') PROVE Echoed(seen', Flight', typed')
    BY DEF TransInv
  <1>1. typed' = typed /\ Unmixed(typed)
    BY DEF Moves
  <1>2. ~Forgets
    BY DEF Forgets
  <1>3. kept
    BY <1>2 DEF Moves, Rests, Moved, GivesUp
  <1>4. Echoed(seen, Flight, typed)
    BY <1>1, <1>3 DEF TransInv
  <1>5. Chain(Flight) /\ PasteOK(input, Flight) /\ Clean(Flight) /\ Flight \in Seq(Byte)
    BY <1>4 DEF KeyInv, Echoed, Chain
  <1>6. CASE Rests
    BY <1>1, <1>4, <1>6 DEF Rests
  <1>7. ASSUME NEW n, NEW ev, Moved(n, ev) PROVE Echoed(seen', Flight', typed')
    <2>1. /\ n \in 0..Len(Flight) /\ Len(Flight) > 0 /\ Flight' = Cut(Flight, n) /\ seen' = seen \o ev
          /\ Takes(Flight, input.in_paste, n, ev, input'.in_paste)
      BY <1>7 DEF Moved
    <2> DEFINE out == input'.in_paste
    <2> HIDE DEF out
    <2>2. Takes(Flight, input.in_paste, n, ev, out)
      BY <2>1 DEF out
    <2>3. Echoes(Flight, n, ev)
      BY <1>5, <2>1, <2>2, CleanTake
    <2> QED
      BY <1>1, <1>4, <2>1, <2>3, EchoStep
  <1>8. CASE GivesUp
    <2> DEFINE ev == <<Event("Escape")>>
    <2>1. /\ Len(Flight) > 0 /\ Flight[1].b = "esc" /\ Flight' = Cut(Flight, 1) /\ seen' = seen \o ev
      BY <1>8 DEF GivesUp
    <2>2. 1 \in 0..Len(Flight)
      BY <1>5, <2>1
    <2>3. Echoes(Flight, 1, ev)
      BY <1>5, <2>1, CleanGiveUp
    <2> HIDE DEF ev
    <2> QED
      BY <1>1, <1>4, <2>1, <2>2, <2>3, EchoStep
  <1> QED
    BY <1>2, <1>6, <1>7, <1>8 DEF Moves

LEMMA TransIsTransparent ==
  ASSUME KeyInv, TransInv
  PROVE  Transparent
  <1> SUFFICES ASSUME kept, Range(typed) \cap {"Paste", "Press", "Focus"} = {}, "HomeTilde" \notin Range(typed),
                      \A j \in 1..(Len(typed) - 1) : typed[j] = "Escape" => Printable(Bytes(typed[j + 1])[1])
               PROVE  Written \o Rewrite(Values(Flight))
                        = FlattenSeq([j \in DOMAIN typed |-> Rewrite(Bytes(typed[j]))])
    BY DEF Transparent, PlainlyTyped
  <1>1. typed \in Seq(Keys)
    BY DEF KeyInv, KeyTypes
  <1>2. \A j \in 1..Len(typed) : typed[j] \notin Unkeyed
    <2>1. \A j \in 1..Len(typed) : typed[j] \in Range(typed)
      BY <1>1 DEF Range
    <2> QED
      BY <2>1 DEF Unkeyed
  <1>3. Unmixed(typed)
    BY <1>2 DEF Unmixed
  <1>4. Echoed(seen, Flight, typed)
    BY <1>3 DEF TransInv
  <1>5. Written = FlatMap(encoder, seen)
    BY <1>4, SeenIsMap DEF Echoed, Written
  <1>6. FlattenSeq([j \in DOMAIN typed |-> Rewrite(Bytes(typed[j]))]) = FlatMap(byter, typed)
    BY <1>1, BytesAreMap
  <1> QED
    BY <1>4, <1>5, <1>6 DEF Echoed, Shown, Told

(* The desktop is transparent to a window that gets every key: what it      *)
(* would write to its shell (encode.cpp), with what is still on its way,    *)
(* is what was typed, but for the three control bytes that parser.cpp and   *)
(* encode.cpp rewrite, wherever client.cpp, the socket and parser.cpp cut   *)
(* it and whenever the timer of the escape key went off (daemon.cpp).  No   *)
(* '[' and no 'O' is typed after Escape.                                    *)
THEOREM DesktopIsTransparent ==
  ASSUME NoOpener
  PROVE  Spec => []Transparent
  <1>1. Init => KeyInv /\ TransInv
    BY InitKeyInv, InitTrans
  <1>2. KeyInv /\ TransInv /\ [Next]_vars => KeyInv' /\ TransInv'
    BY NextStep, StepTrans
  <1>3. KeyInv /\ TransInv => Transparent
    BY TransIsTransparent
  <1> QED
    BY <1>1, <1>2, <1>3, PTL DEF Spec
=============================================================================
