---------------------------- MODULE ScreenProofs ----------------------------
(***************************************************************************)
(* What the page of a terminal window guarantees, for every size of the    *)
(* window, every capacity of the history and any number of orders.         *)
(***************************************************************************)
EXTENDS Screen, WellFoundedInduction, TLAPS

Cell == {"blank", "char", "left", "right"}

Row(c) == [0..(c - 1) -> Cell]

Page(c, r) == [0..(r - 1) -> Row(c)]

(* A line without half a character. *)
Whole(row, c) ==
  \A x \in 0..(c - 1) :
    /\ row[x] = "left" => x + 1 < c /\ row[x + 1] = "right"
    /\ row[x] = "right" => x > 0 /\ row[x - 1] = "left"

-----------------------------------------------------------------------------
(* One line *)

(* clear_wide_at(): only the other half of what stands at x goes. *)
LEMMA ClearWideFacts ==
  ASSUME NEW c \in Nat, NEW row \in Row(c), NEW x \in Int
  PROVE  /\ ClearWideAt(row, x) \in Row(c)
         /\ \A z \in 0..(c - 1) :
              ClearWideAt(row, x)[z] =
                IF x \in 0..(c - 1) /\ ((row[x] = "left" /\ z = x + 1) \/ (row[x] = "right" /\ z = x - 1))
                THEN "blank" ELSE row[z]
<1>1. DOMAIN row = 0..(c - 1)
  BY DEF Row
<1>2. \A z \in 0..(c - 1) :
        z \in OtherHalf(row, x) <=>
          x \in 0..(c - 1) /\ ((row[x] = "left" /\ z = x + 1) \/ (row[x] = "right" /\ z = x - 1))
  BY <1>1 DEF OtherHalf
<1> QED
  BY <1>1, <1>2 DEF ClearWideAt, Row, Cell

(* A blank line is whole. *)
LEMMA BlankRowFacts ==
  ASSUME NEW c \in Nat
  PROVE  BlankRow(c) \in Row(c) /\ Whole(BlankRow(c), c)
BY DEF BlankRow, Row, Cell, Whole

(* break_wide_at(): what stands at x is no half any more, a whole line     *)
(* stays whole.                                                            *)
LEMMA BreakWideFacts ==
  ASSUME NEW c \in Nat, NEW row \in Row(c), NEW x \in Int
  PROVE  /\ BreakWideAt(row, x) \in Row(c)
         /\ Whole(row, c) =>
              /\ Whole(BreakWideAt(row, x), c)
              /\ x \in 0..(c - 1) => BreakWideAt(row, x)[x] \in {"blank", "char"}
              /\ \A z \in 0..(c - 1) : row[z] \in {"blank", "char"} => BreakWideAt(row, x)[z] \in {"blank", "char"}
<1>1. DOMAIN row = 0..(c - 1)
  BY DEF Row
<1> DEFINE k == ClearWideAt(row, x)
<1>2. k \in Row(c)
  BY ClearWideFacts
<1>3. \A z \in 0..(c - 1) :
        k[z] = IF x \in 0..(c - 1) /\ ((row[x] = "left" /\ z = x + 1) \/ (row[x] = "right" /\ z = x - 1))
               THEN "blank" ELSE row[z]
  BY ClearWideFacts
<1> HIDE DEF k
<1>4. CASE OtherHalf(row, x) = {}
  <2>1. BreakWideAt(row, x) = row
    BY <1>4 DEF BreakWideAt
  <2>2. ASSUME Whole(row, c), x \in 0..(c - 1) PROVE row[x] \in {"blank", "char"}
    <3>1. row[x] \in Cell
      BY <2>2 DEF Row
    <3>2. row[x] # "left"
      <4>1. SUFFICES ASSUME row[x] = "left" PROVE FALSE
        OBVIOUS
      <4>2. x + 1 \in 0..(c - 1)
        BY <2>2, <4>1 DEF Whole
      <4>3. x + 1 \in OtherHalf(row, x)
        BY <1>1, <2>2, <4>1, <4>2 DEF OtherHalf
      <4> QED
        BY <1>4, <4>3
    <3>3. row[x] # "right"
      <4>1. SUFFICES ASSUME row[x] = "right" PROVE FALSE
        OBVIOUS
      <4>2. x - 1 \in 0..(c - 1)
        BY <2>2, <4>1 DEF Whole
      <4>3. x - 1 \in OtherHalf(row, x)
        BY <1>1, <2>2, <4>1, <4>2 DEF OtherHalf
      <4> QED
        BY <1>4, <4>3
    <3> QED
      BY <3>1, <3>2, <3>3 DEF Cell
  <2> QED
    BY <2>1, <2>2
<1>5. CASE OtherHalf(row, x) # {}
  <2>1. x \in 0..(c - 1)
    BY <1>1, <1>5 DEF OtherHalf
  <2>2. BreakWideAt(row, x) = [k EXCEPT ![x] = "blank"]
    BY <1>5 DEF BreakWideAt, k
  <2> DEFINE b == [k EXCEPT ![x] = "blank"]
  <2>3. b \in Row(c)
    BY <1>2, <2>1 DEF Row, Cell
  <2>4. \A z \in 0..(c - 1) :
          b[z] = IF z = x \/ (row[x] = "left" /\ z = x + 1) \/ (row[x] = "right" /\ z = x - 1)
                 THEN "blank" ELSE row[z]
    BY <1>2, <1>3, <2>1 DEF Row
  <2> HIDE DEF b
  <2>5. ASSUME Whole(row, c) PROVE Whole(b, c)
    BY <2>1, <2>4, <2>5 DEF Whole
  <2> QED
    BY <2>1, <2>2, <2>3, <2>4, <2>5 DEF b
<1> QED
  BY <1>4, <1>5

(* erase_span(): the cells between x0 and x1 are blank, and the halves     *)
(* that had their other one there.                                         *)
LEMMA EraseSpanFacts ==
  ASSUME NEW c \in Nat, NEW row \in Row(c), NEW x0 \in 0..(c - 1), NEW x1 \in x0..(c - 1)
  PROVE  /\ EraseSpan(row, x0, x1) \in Row(c)
         /\ Whole(row, c) => Whole(EraseSpan(row, x0, x1), c)
         /\ \A z \in 0..(c - 1) :
              EraseSpan(row, x0, x1)[z] =
                IF z \in x0..x1 \/ (row[x0] = "right" /\ z = x0 - 1)
                   \/ (row[x1] = "left" /\ ~(row[x0] = "left" /\ x1 = x0 + 1) /\ z = x1 + 1) THEN "blank" ELSE row[z]
<1> DEFINE k == ClearWideAt(row, x0)
           l == ClearWideAt(k, x1)
           e == EraseSpan(row, x0, x1)
<1>1. k \in Row(c) /\ l \in Row(c)
  BY ClearWideFacts
<1>2. \A z \in 0..(c - 1) :
        k[z] = IF (row[x0] = "left" /\ z = x0 + 1) \/ (row[x0] = "right" /\ z = x0 - 1)
               THEN "blank" ELSE row[z]
  BY ClearWideFacts
<1>3. \A z \in 0..(c - 1) :
        l[z] = IF (k[x1] = "left" /\ z = x1 + 1) \/ (k[x1] = "right" /\ z = x1 - 1)
               THEN "blank" ELSE k[z]
  BY <1>1, ClearWideFacts, SMTT(30)
<1>4. e = [x \in 0..(c - 1) |-> IF x \in x0..x1 THEN "blank" ELSE l[x]]
  BY DEF EraseSpan, Row
<1> HIDE DEF k, l, e
<1>5. e \in Row(c)
  BY <1>1, <1>4 DEF Row, Cell
<1>6. \A z \in 0..(c - 1) : e[z] = IF z \in x0..x1 THEN "blank" ELSE l[z]
  BY <1>4
<1>7. \A z \in 0..(c - 1) :
        e[z] = IF z \in x0..x1 \/ (row[x0] = "right" /\ z = x0 - 1)
                   \/ (row[x1] = "left" /\ ~(row[x0] = "left" /\ x1 = x0 + 1) /\ z = x1 + 1) THEN "blank" ELSE row[z]
  BY <1>2, <1>3, <1>6
<1>8. Whole(row, c) => Whole(e, c)
  BY <1>7 DEF Whole
<1> QED
  BY <1>5, <1>7, <1>8 DEF e

(* insert_chars(): the half that would end up alone, at the cursor or      *)
(* against the edge, goes.                                                 *)
LEMMA InsertCharsFacts ==
  ASSUME NEW c \in Nat, NEW row \in Row(c), NEW x \in 0..(c - 1), NEW n \in 1..(c - x)
  PROVE  /\ InsertChars(row, x, n) \in Row(c)
         /\ Whole(row, c) => Whole(InsertChars(row, x, n), c)
<1> DEFINE b == BreakWideAt(row, x)
           h == [i \in 0..(c - 1) |-> IF i >= x + n THEN b[i - n] ELSE b[i]]
           e == EraseSpan(h, x, x + n - 1)
           t == [i \in 0..(c - 1) |->
                   IF i + 1 \notin 0..(c - 1) /\ e[i] = "left" THEN "blank" ELSE e[i]]
<1>1. DOMAIN row = 0..(c - 1)
  BY DEF Row
<1>2. InsertChars(row, x, n) = t
  BY <1>1 DEF InsertChars
<1>3. b \in Row(c)
  BY BreakWideFacts
<1>4. ASSUME Whole(row, c) PROVE Whole(b, c) /\ b[x] \in {"blank", "char"}
  BY <1>4, BreakWideFacts
<1> HIDE DEF b
<1>5. \A i \in 0..(c - 1) : b[i] \in Cell /\ (i >= x + n => b[i - n] \in Cell)
  BY <1>3 DEF Row
<1>6. h \in Row(c)
  BY <1>5 DEF Row
<1>7. \A i \in 0..(c - 1) : h[i] = IF i >= x + n THEN b[i - n] ELSE b[i]
  OBVIOUS
<1> HIDE DEF h
<1>8. x + n - 1 \in x..(c - 1)
  OBVIOUS
<1>9. e \in Row(c)
  BY <1>6, <1>8, EraseSpanFacts
<1>10. \A z \in 0..(c - 1) :
         e[z] = IF z \in x..(x + n - 1) \/ (h[x] = "right" /\ z = x - 1)
                  \/ (h[x + n - 1] = "left" /\ ~(h[x] = "left" /\ x + n - 1 = x + 1) /\ z = x + n - 1 + 1)
                THEN "blank" ELSE h[z]
  BY <1>6, <1>8, EraseSpanFacts
<1> HIDE DEF e
<1>11. t \in Row(c)
  BY <1>9 DEF Row, Cell
<1>12. \A i \in 0..(c - 1) : t[i] = IF i = c - 1 /\ e[i] = "left" THEN "blank" ELSE e[i]
  OBVIOUS
<1> HIDE DEF t
<1>13. ASSUME Whole(row, c) PROVE Whole(t, c)
  <2>1. h[x] = b[x] /\ b[x] \in {"blank", "char"}
    BY <1>4, <1>7, <1>13
  <2>2. \A z \in 0..(c - 1) :
          e[z] = IF z \in x..(x + n - 1) THEN "blank"
                 ELSE IF z < x THEN b[z]
                 ELSE IF z = x + n /\ h[x + n - 1] = "left" THEN "blank" ELSE b[z - n]
    BY <1>7, <1>10, <2>1
  <2>3. /\ \A z \in 0..(c - 1) : z < x => e[z] = b[z]
        /\ \A z \in x..(x + n - 1) : e[z] = "blank"
        /\ \A z \in (x + n + 1)..(c - 1) : e[z] = b[z - n]
        /\ x + n < c => e[x + n] \in {"blank", "char"}
    BY <2>1, <2>2
  <2>4. \A z \in 0..(c - 1) : b[z] = "left" => z + 1 < c /\ b[z + 1] = "right"
    BY <1>4, <1>13 DEF Whole
  <2>5. \A z \in 0..(c - 1) : b[z] = "right" => z > 0 /\ b[z - 1] = "left"
    BY <1>4, <1>13 DEF Whole
  <2>6. ASSUME NEW z \in 0..(c - 1), e[z] = "left" PROVE z = c - 1 \/ (z + 1 < c /\ e[z + 1] = "right")
    <3>1. CASE z < x
      BY <2>1, <2>3, <2>4, <2>6, <3>1
    <3>2. CASE z > x + n
      <4>1. e[z] = b[z - n] /\ (z + 1 < c => e[z + 1] = b[z - n + 1])
        BY <2>3, <3>2
      <4> QED
        BY <2>4, <2>6, <3>2, <4>1
    <3> QED
      BY <2>3, <2>6, <3>1, <3>2
  <2>7. ASSUME NEW z \in 0..(c - 1), e[z] = "right" PROVE z > 0 /\ e[z - 1] = "left"
    <3>1. CASE z < x
      BY <2>3, <2>5, <2>7, <3>1
    <3>2. CASE z > x + n
      <4>1. b[z - n] = "right" /\ z - n - 1 >= x /\ b[z - n - 1] = "left"
        BY <2>3, <2>5, <2>7, <3>2
      <4>2. z - 1 # x + n
        BY <2>1, <4>1
      <4>3. e[z - 1] = b[z - n - 1]
        BY <2>3, <3>2, <4>2
      <4> QED
        BY <4>1, <4>3
    <3> QED
      BY <2>3, <2>7, <3>1, <3>2
  <2> QED
    BY <1>12, <2>6, <2>7 DEF Whole
<1> QED
  BY <1>2, <1>11, <1>13

(* delete_chars(): a line stays whole unless the part erased at the end    *)
(* begins on a right half and the last character is wide.                  *)
LEMMA DeleteCharsFacts ==
  ASSUME NEW c \in Nat, NEW row \in Row(c), NEW x \in 0..(c - 1), NEW n \in 1..(c - x)
  PROVE  /\ DeleteChars(row, x, n, c) \in Row(c)
         /\ Whole(row, c) /\ ~Halves(row, x, n, c) => Whole(DeleteChars(row, x, n, c), c)
<1> DEFINE a == BreakWideAt(row, x)
           b == Broken(row, x, n)
           h == [i \in 0..(c - 1) |-> IF i >= x /\ i + n < c THEN b[i + n] ELSE b[i]]
           e == EraseSpan(h, c - n, c - 1)
<1>1. DeleteChars(row, x, n, c) = e
  BY DEF DeleteChars, Row
<1>2. a \in Row(c) /\ b = BreakWideAt(a, x + n)
  BY BreakWideFacts DEF Broken
<1>3. ASSUME Whole(row, c) PROVE Whole(a, c) /\ a[x] \in {"blank", "char"}
  BY <1>3, BreakWideFacts
<1> HIDE DEF a, b
<1>4. b \in Row(c)
  BY <1>2, BreakWideFacts
<1>5. ASSUME Whole(row, c)
      PROVE  Whole(b, c) /\ b[x] \in {"blank", "char"} /\ (x + n < c => b[x + n] \in {"blank", "char"})
  BY <1>2, <1>3, <1>5, BreakWideFacts, SMTT(30)
<1>6. h \in Row(c)
  BY <1>4 DEF Row
<1>7. \A i \in 0..(c - 1) : h[i] = IF i >= x /\ i + n < c THEN b[i + n] ELSE b[i]
  OBVIOUS
<1> HIDE DEF h
<1>8. c - n \in 0..(c - 1) /\ c - 1 \in (c - n)..(c - 1)
  OBVIOUS
<1>9. e \in Row(c)
  BY <1>6, <1>8, EraseSpanFacts
<1>10. \A z \in 0..(c - 1) :
         e[z] = IF z \in (c - n)..(c - 1) \/ (h[c - n] = "right" /\ z = c - n - 1)
                  \/ (h[c - 1] = "left" /\ ~(h[c - n] = "left" /\ c - 1 = c - n + 1) /\ z = c - 1 + 1)
                THEN "blank" ELSE h[z]
  BY <1>6, <1>8, EraseSpanFacts
<1> HIDE DEF e
<1>11. ASSUME Whole(row, c), ~Halves(row, x, n, c) PROVE Whole(e, c)
  <2>1. /\ \A z \in 0..(x - 1) : h[z] = b[z]
        /\ \A z \in x..(c - n - 1) : h[z] = b[z + n]
        /\ h[c - n] = b[c - n]
    BY <1>7
  <2>2. /\ \A z \in 0..(c - 1) : b[z] = "left" => z + 1 < c /\ b[z + 1] = "right"
        /\ \A z \in 0..(c - 1) : b[z] = "right" => z > 0 /\ b[z - 1] = "left"
        /\ b[x] \in {"blank", "char"} /\ (x + n < c => b[x + n] \in {"blank", "char"})
    BY <1>5, <1>11 DEF Whole
  <2>3. ~(b[c - n] = "right" /\ b[c - 1] = "right")
    BY <1>11 DEF Halves, b
  <2>4. /\ \A z \in 0..(c - n - 2) : e[z] = h[z]
        /\ \A z \in (c - n)..(c - 1) : e[z] = "blank"
        /\ c - n > 0 => e[c - n - 1] = IF h[c - n] = "right" THEN "blank" ELSE h[c - n - 1]
    BY <1>10
  <2>5. c - n > 0 /\ c - n > x => h[c - n - 1] = b[c - 1] /\ b[c - 1] # "left"
    BY <2>1, <2>2
  <2>6. c - n > 0 /\ c - n = x => e[c - n - 1] = b[x - 1] /\ b[x - 1] # "left"
    BY <2>1, <2>2, <2>4
  <2>7. ASSUME NEW z \in 0..(c - 1), e[z] = "left" PROVE z + 1 < c /\ e[z + 1] = "right"
    <3>1. z < c - n /\ h[z] = "left"
      BY <2>4, <2>7
    <3>2. z < c - n - 1
      BY <2>4, <2>5, <2>6, <2>7, <3>1
    <3>3. CASE z < x
      <4>1. b[z] = "left" /\ z + 1 < c /\ b[z + 1] = "right"
        BY <2>1, <2>2, <3>1, <3>3
      <4>2. z + 1 < x
        BY <2>2, <3>3, <4>1
      <4>3. h[z + 1] = "right"
        BY <2>1, <4>1, <4>2
      <4>4. z + 1 = c - n - 1 => h[c - n] # "right"
        BY <2>1, <2>2, <3>2, <4>2
      <4> QED
        BY <2>4, <3>2, <4>1, <4>3, <4>4
    <3>4. CASE z >= x
      <4>1. b[z + n] = "left" /\ b[z + n + 1] = "right" /\ h[z + 1] = b[z + n + 1]
        BY <2>1, <2>2, <3>1, <3>2, <3>4
      <4>2. z + 1 = c - n - 1 => b[c - 1] = "right"
        BY <4>1
      <4>3. z + 1 = c - n - 1 => h[c - n] # "right"
        BY <2>1, <2>3, <4>2
      <4> QED
        BY <2>4, <3>2, <4>1, <4>3
    <3> QED
      BY <3>3, <3>4
  <2>8. ASSUME NEW z \in 0..(c - 1), e[z] = "right" PROVE z > 0 /\ e[z - 1] = "left"
    <3>1. z < c - n /\ h[z] = "right"
      BY <2>4, <2>8
    <3>2. CASE z < x
      BY <2>1, <2>2, <2>4, <3>1, <3>2
    <3>3. CASE z >= x
      <4>1. b[z + n] = "right" /\ z # x /\ b[z + n - 1] = "left" /\ h[z - 1] = b[z + n - 1]
        BY <2>1, <2>2, <3>1, <3>3
      <4> QED
        BY <2>4, <3>1, <3>3, <4>1
    <3> QED
      BY <3>2, <3>3
  <2> QED
    BY <2>7, <2>8 DEF Whole
<1> QED
  BY <1>1, <1>9, <1>11

-----------------------------------------------------------------------------
(* The page *)

SavedCursor == [x : Nat, y : Nat, wrap : BOOLEAN]

(* A screen of c columns and r rows. *)
ScreenOf(c, r) ==
  [cols : {c}, rows : {r}, grid : Page(c, r), cx : 0..(c - 1), cy : 0..(r - 1),
   wrap_pending : BOOLEAN, top : 0..(r - 1), bottom : 0..(r - 1), autowrap : BOOLEAN,
   tabs : SUBSET (0..(c - 1)), saved : SavedCursor, alt : BOOLEAN,
   parked : Page(c, r) \cup {NoPage},
   parked_cursor : [x : 0..(c - 1), y : 0..(r - 1), wrap : BOOLEAN],
   parked_decsc : SavedCursor]

(* Two pages of r rows with the same lines outside of top to bottom. *)
SameOutside(g, h, top, bottom, r) ==
  \A y \in 0..(r - 1) : y \notin top..bottom => h[y] = g[y]

(* Half a character, on lines of one length. *)
LEMMA PairedPage ==
  ASSUME NEW c \in Nat, NEW r \in Nat, NEW g \in Page(c, r)
  PROVE  Paired(g) <=> \A y \in 0..(r - 1) : Whole(g[y], c)
<1>1. DOMAIN g = 0..(r - 1) /\ \A y \in 0..(r - 1) : DOMAIN g[y] = 0..(c - 1)
  BY DEF Page, Row
<1>2. ASSUME Paired(g), NEW y \in 0..(r - 1) PROVE Whole(g[y], c)
  <2>1. \A x \in 0..(c - 1) :
          /\ g[y][x] = "left" => x + 1 \in 0..(c - 1) /\ g[y][x + 1] = "right"
          /\ g[y][x] = "right" => x > 0 /\ g[y][x - 1] = "left"
    BY <1>1, <1>2 DEF Paired
  <2> QED
    BY <2>1 DEF Whole
<1>3. ASSUME \A y \in 0..(r - 1) : Whole(g[y], c) PROVE Paired(g)
  <2>1. \A y \in 0..(r - 1) : \A x \in 0..(c - 1) :
          /\ g[y][x] = "left" => x + 1 \in 0..(c - 1) /\ g[y][x + 1] = "right"
          /\ g[y][x] = "right" => x > 0 /\ g[y][x - 1] = "left"
    BY <1>3 DEF Whole
  <2> QED
    BY <1>1, <2>1 DEF Paired
<1> QED
  BY <1>2, <1>3

(* The page that does not exist. *)
LEMMA PairedNoPage == Paired(NoPage)
BY DEF Paired, NoPage

(* A blank page is whole. *)
LEMMA BlankPageFacts ==
  ASSUME NEW c \in Nat, NEW r \in Nat
  PROVE  BlankPage(c, r) \in Page(c, r) /\ Paired(BlankPage(c, r))
<1>1. BlankPage(c, r) \in Page(c, r)
  BY BlankRowFacts DEF BlankPage, Page
<1>2. \A y \in 0..(r - 1) : BlankPage(c, r)[y] = BlankRow(c)
  BY DEF BlankPage
<1>3. \A y \in 0..(r - 1) : Whole(BlankPage(c, r)[y], c)
  BY <1>2, BlankRowFacts
<1> QED
  BY <1>1, <1>3, PairedPage

(* One line of a page is written. *)
LEMMA OneRowFacts ==
  ASSUME NEW c \in Nat, NEW r \in Nat, NEW g \in Page(c, r), NEW y \in 0..(r - 1), NEW row \in Row(c)
  PROVE  /\ [g EXCEPT ![y] = row] \in Page(c, r)
         /\ Paired(g) /\ Whole(row, c) => Paired([g EXCEPT ![y] = row])
<1> DEFINE h == [g EXCEPT ![y] = row]
<1>1. h \in Page(c, r) /\ \A z \in 0..(r - 1) : h[z] = IF z = y THEN row ELSE g[z]
  BY DEF Page
<1> HIDE DEF h
<1>2. ASSUME Paired(g), Whole(row, c) PROVE Paired(h)
  BY <1>1, <1>2, PairedPage
<1> QED
  BY <1>1, <1>2 DEF h

(* Lines top to bottom move by n; the others stay. *)
LEMMA SliceUpFacts ==
  ASSUME NEW c \in Nat, NEW r \in Nat, NEW g \in Page(c, r),
         NEW top \in 0..(r - 1), NEW bottom \in 0..(r - 1), NEW n \in Nat
  PROVE  /\ SliceUp(g, top, bottom, n, c) \in Page(c, r)
         /\ Paired(g) => Paired(SliceUp(g, top, bottom, n, c))
         /\ SameOutside(g, SliceUp(g, top, bottom, n, c), top, bottom, r)
         /\ \A y \in top..bottom : y + n <= bottom => SliceUp(g, top, bottom, n, c)[y] = g[y + n]
<1> DEFINE h == SliceUp(g, top, bottom, n, c)
<1>0. BlankRow(c) \in Row(c) /\ Whole(BlankRow(c), c)
  BY BlankRowFacts
<1>1. h = [y \in 0..(r - 1) |->
             IF y \notin top..bottom THEN g[y] ELSE IF y + n <= bottom THEN g[y + n] ELSE BlankRow(c)]
  BY DEF SliceUp, Page
<1> HIDE DEF h
<1>2. \A y \in 0..(r - 1) :
        h[y] = IF y \notin top..bottom THEN g[y] ELSE IF y + n <= bottom THEN g[y + n] ELSE BlankRow(c)
  BY <1>1
<1>3. \A y \in 0..(r - 1) : g[y] \in Row(c) /\ (y + n <= bottom => y + n \in 0..(r - 1))
  BY DEF Page
<1>4. h \in Page(c, r)
  BY <1>0, <1>1, <1>3 DEF Page
<1>5. ASSUME Paired(g) PROVE Paired(h)
  <2>1. \A y \in 0..(r - 1) : Whole(g[y], c)
    BY <1>5, PairedPage
  <2>2. \A y \in 0..(r - 1) : Whole(h[y], c)
    BY <1>0, <1>2, <1>3, <2>1
  <2> QED
    BY <1>4, <2>2, PairedPage
<1>6. SameOutside(g, h, top, bottom, r)
  BY <1>2 DEF SameOutside
<1> QED
  BY <1>2, <1>4, <1>5, <1>6 DEF h

(* The same, downwards. *)
LEMMA SliceDownFacts ==
  ASSUME NEW c \in Nat, NEW r \in Nat, NEW g \in Page(c, r),
         NEW top \in 0..(r - 1), NEW bottom \in 0..(r - 1), NEW n \in Nat
  PROVE  /\ SliceDown(g, top, bottom, n, c) \in Page(c, r)
         /\ Paired(g) => Paired(SliceDown(g, top, bottom, n, c))
         /\ SameOutside(g, SliceDown(g, top, bottom, n, c), top, bottom, r)
<1> DEFINE h == SliceDown(g, top, bottom, n, c)
<1>0. BlankRow(c) \in Row(c) /\ Whole(BlankRow(c), c)
  BY BlankRowFacts
<1>1. h = [y \in 0..(r - 1) |->
             IF y \notin top..bottom THEN g[y] ELSE IF y - n >= top THEN g[y - n] ELSE BlankRow(c)]
  BY DEF SliceDown, Page
<1> HIDE DEF h
<1>2. \A y \in 0..(r - 1) :
        h[y] = IF y \notin top..bottom THEN g[y] ELSE IF y - n >= top THEN g[y - n] ELSE BlankRow(c)
  BY <1>1
<1>3. \A y \in 0..(r - 1) : g[y] \in Row(c) /\ (y - n >= top => y - n \in 0..(r - 1))
  BY DEF Page
<1>4. h \in Page(c, r)
  BY <1>0, <1>1, <1>3 DEF Page
<1>5. ASSUME Paired(g) PROVE Paired(h)
  <2>1. \A y \in 0..(r - 1) : Whole(g[y], c)
    BY <1>5, PairedPage
  <2>2. \A y \in 0..(r - 1) : Whole(h[y], c)
    BY <1>0, <1>2, <1>3, <2>1
  <2> QED
    BY <1>4, <2>2, PairedPage
<1>6. SameOutside(g, h, top, bottom, r)
  BY <1>2 DEF SameOutside
<1> QED
  BY <1>2, <1>4, <1>5, <1>6 DEF h

(* reshape(): a wide character the new edge cuts goes. *)
LEMMA ReshapeFacts ==
  ASSUME NEW c \in Nat, NEW r \in Nat \ {0}, NEW g \in Page(c, r), NEW d \in Nat, NEW q \in Nat
  PROVE  /\ Reshape(g, d, q) \in Page(d, q)
         /\ Paired(g) => Paired(Reshape(g, d, q))
<1> DEFINE h == Reshape(g, d, q)
           cell(y, x) == IF y \notin 0..(r - 1) \/ x \notin 0..(c - 1) THEN "blank"
                         ELSE IF g[y][x] = "left" /\ (x = d - 1 \/ x + 1 \notin 0..(c - 1)) THEN "blank"
                         ELSE g[y][x]
<1>1. DOMAIN g = 0..(r - 1) /\ DOMAIN g[0] = 0..(c - 1) /\ \A y \in 0..(r - 1) : g[y] \in Row(c)
  BY DEF Page, Row
<1>2. h = [y \in 0..(q - 1) |-> [x \in 0..(d - 1) |-> cell(y, x)]]
  BY <1>1 DEF Reshape
<1>3. \A y \in 0..(q - 1) : \A x \in 0..(d - 1) : cell(y, x) \in Cell
  BY <1>1 DEF Row, Cell
<1>4. \A y \in 0..(q - 1) : h[y] = [x \in 0..(d - 1) |-> cell(y, x)]
  BY <1>2
<1> HIDE DEF h
<1>5. h \in Page(d, q)
  <2> HIDE DEF cell
  <2>1. \A y \in 0..(q - 1) : [x \in 0..(d - 1) |-> cell(y, x)] \in Row(d)
    BY <1>3 DEF Row
  <2> QED
    BY <1>2, <2>1 DEF Page
<1>6. \A y \in 0..(q - 1) : \A x \in 0..(d - 1) : h[y][x] = cell(y, x)
  <2> HIDE DEF cell
  <2> QED
    BY <1>4
<1>7. ASSUME Paired(g) PROVE Paired(h)
  <2>1. ASSUME NEW y \in 0..(q - 1) PROVE Whole(h[y], d)
    <3>1. CASE y \notin 0..(r - 1)
      BY <1>6, <3>1 DEF Whole
    <3>2. CASE y \in 0..(r - 1)
      <4>1. Whole(g[y], c)
        BY <1>7, <3>2, PairedPage
      <4>2. \A x \in 0..(c - 1) : x < d /\ g[y][x] # "left" => h[y][x] = g[y][x]
        BY <1>6, <3>2
      <4>3. \A x \in 0..(c - 1) : x + 1 < d /\ x + 1 < c /\ g[y][x] = "left" => h[y][x] = g[y][x]
        BY <1>6, <3>2
      <4>4. \A x \in 0..(d - 1) :
              h[y][x] # "blank" => x < c /\ h[y][x] = g[y][x] /\ (h[y][x] = "left" => x + 1 < d /\ x + 1 < c)
        BY <1>6, <3>2
      <4>5. ASSUME NEW x \in 0..(d - 1), h[y][x] = "left" PROVE x + 1 < d /\ h[y][x + 1] = "right"
        <5>1. x < c /\ g[y][x] = "left" /\ x + 1 < d /\ x + 1 < c
          BY <4>4, <4>5
        <5>2. g[y][x + 1] = "right"
          BY <4>1, <5>1 DEF Whole
        <5> QED
          BY <4>2, <5>1, <5>2
      <4>6. ASSUME NEW x \in 0..(d - 1), h[y][x] = "right" PROVE x > 0 /\ h[y][x - 1] = "left"
        <5>1. x < c /\ g[y][x] = "right"
          BY <4>4, <4>6
        <5>2. x > 0 /\ g[y][x - 1] = "left"
          BY <4>1, <5>1 DEF Whole
        <5>3. x - 1 \in 0..(c - 1) /\ (x - 1) + 1 < d /\ (x - 1) + 1 < c
          BY <5>1, <5>2
        <5> QED
          BY <4>3, <5>2, <5>3
      <4> QED
        BY <4>5, <4>6 DEF Whole
    <3> QED
      BY <3>1, <3>2
  <2> QED
    BY <1>5, <2>1, PairedPage
<1> QED
  BY <1>5, <1>7 DEF h

-----------------------------------------------------------------------------
(* The screen *)

(* t is s after an order that leaves the parked page alone. *)
Edited(s, t, c, r) ==
  /\ t \in ScreenOf(c, r)
  /\ t.alt = s.alt /\ t.parked = s.parked
  /\ t.parked_cursor = s.parked_cursor /\ t.parked_decsc = s.parked_decsc

(* The line print() writes on. *)
PutRow(row, x, w) ==
  [z \in DOMAIN row |->
     CASE z = x -> (IF w = 2 THEN "left" ELSE "char")
       [] z = x + 1 /\ w = 2 -> "right"
       [] OTHER -> (IF w = 2 THEN ClearWideAt(ClearWideAt(row, x), x + 1)
                    ELSE ClearWideAt(row, x))[z]]

(* print(): the halves of what was under the character go, its own two are *)
(* there.                                                                  *)
LEMMA PutRowFacts ==
  ASSUME NEW c \in Nat, NEW row \in Row(c), NEW x \in 0..(c - 1), NEW w \in 1..2, w = 2 => x + 1 < c
  PROVE  PutRow(row, x, w) \in Row(c) /\ (Whole(row, c) => Whole(PutRow(row, x, w), c))
<1> DEFINE k == ClearWideAt(row, x)
           l == ClearWideAt(k, x + 1)
           t == PutRow(row, x, w)
<1>1. k \in Row(c) /\ l \in Row(c)
  BY ClearWideFacts
<1>2. \A z \in 0..(c - 1) :
        k[z] = IF (row[x] = "left" /\ z = x + 1) \/ (row[x] = "right" /\ z = x - 1)
               THEN "blank" ELSE row[z]
  BY ClearWideFacts
<1>3. \A z \in 0..(c - 1) :
        l[z] = IF x + 1 \in 0..(c - 1) /\ ((k[x + 1] = "left" /\ z = x + 2) \/ (k[x + 1] = "right" /\ z = x))
               THEN "blank" ELSE k[z]
  BY <1>1, ClearWideFacts, SMTT(30)
<1>4. DOMAIN row = 0..(c - 1)
  BY DEF Row
<1> HIDE DEF k, l
<1>5. t = [z \in 0..(c - 1) |->
             CASE z = x -> (IF w = 2 THEN "left" ELSE "char")
               [] z = x + 1 /\ w = 2 -> "right"
               [] OTHER -> (IF w = 2 THEN l ELSE k)[z]]
  BY <1>4 DEF PutRow, k, l
<1> HIDE DEF t
<1>6. \A z \in 0..(c - 1) :
        t[z] = IF z = x THEN (IF w = 2 THEN "left" ELSE "char")
               ELSE IF z = x + 1 /\ w = 2 THEN "right" ELSE IF w = 2 THEN l[z] ELSE k[z]
  BY <1>5
<1>7. t \in Row(c)
  <2>1. \A z \in 0..(c - 1) : t[z] \in Cell
    BY <1>1, <1>6 DEF Row, Cell
  <2> QED
    BY <1>5, <2>1 DEF Row
<1>8. ASSUME Whole(row, c) PROVE Whole(t, c)
  <2>1. CASE w = 1
    <3>1. \A z \in 0..(c - 1) : t[z] = IF z = x THEN "char" ELSE k[z]
      BY <1>6, <2>1
    <3> QED
      BY <1>2, <1>8, <3>1 DEF Whole
  <2>2. CASE w = 2
    <3>1. \A z \in 0..(c - 1) : t[z] = IF z = x THEN "left" ELSE IF z = x + 1 THEN "right" ELSE l[z]
      BY <1>6, <2>2
    <3>2. \A z \in 0..(c - 1) :
            z # x /\ z # x + 1 =>
              t[z] = IF (row[x] = "right" /\ z = x - 1) \/ (row[x + 1] = "left" /\ z = x + 2)
                     THEN "blank" ELSE row[z]
      BY <1>2, <1>3, <1>8, <2>2, <3>1 DEF Whole
    <3> QED
      BY <1>8, <2>2, <3>1, <3>2 DEF Whole
  <2> QED
    BY <2>1, <2>2
<1> QED
  BY <1>7, <1>8 DEF t

(* print(), once the cursor is where there is room. *)
LEMMA PutFacts ==
  ASSUME NEW c \in Nat, NEW r \in Nat, NEW s \in ScreenOf(c, r), NEW w \in 1..2, w = 2 => s.cx + 1 < c
  PROVE  /\ Edited(s, Put(s, w), c, r)
         /\ Put(s, w).cy = s.cy /\ Put(s, w).top = s.top /\ Put(s, w).bottom = s.bottom
         /\ Paired(s.grid) => Paired(Put(s, w).grid)
         /\ \A y \in 0..(r - 1) : y # s.cy => Put(s, w).grid[y] = s.grid[y]
<1> DEFINE row == PutRow(s.grid[s.cy], s.cx, w)
           g == [s.grid EXCEPT ![s.cy] = row]
           x == IF s.cx + w >= s.cols THEN s.cols - 1 ELSE s.cx + w
           p == s.wrap_pending \/ s.cx + w >= s.cols
<1>1. /\ s.cols = c /\ s.grid \in Page(c, r) /\ s.cx \in 0..(c - 1) /\ s.cy \in 0..(r - 1)
      /\ s.wrap_pending \in BOOLEAN
  BY DEF ScreenOf
<1>2. s.grid[s.cy] \in Row(c)
  BY <1>1 DEF Page
<1>3. row \in Row(c) /\ (Whole(s.grid[s.cy], c) => Whole(row, c))
  BY <1>1, <1>2, PutRowFacts
<1>4. Put(s, w) = [s EXCEPT !.grid = g, !.cx = x, !.wrap_pending = p]
  BY <1>1, <1>2 DEF Put, PutRow, ScreenOf
<1>5. x \in 0..(c - 1) /\ p \in BOOLEAN
  BY <1>1
<1> HIDE DEF row, x, p
<1>6. g \in Page(c, r) /\ (Paired(s.grid) /\ Whole(row, c) => Paired(g))
  BY <1>1, <1>3, OneRowFacts
<1>7. Paired(s.grid) => Whole(s.grid[s.cy], c)
  BY <1>1, PairedPage
<1>8. \A y \in 0..(r - 1) : y # s.cy => g[y] = s.grid[y]
  BY <1>1 DEF Page
<1> HIDE DEF g
<1> QED
  BY <1>3, <1>4, <1>5, <1>6, <1>7, <1>8 DEF Edited, ScreenOf

(* line_feed(): only the lines of the region move. *)
LEMMA FedFacts ==
  ASSUME NEW c \in Nat, NEW r \in Nat, NEW s \in ScreenOf(c, r)
  PROVE  /\ Edited(s, Fed(s), c, r)
         /\ Fed(s).cx = s.cx /\ Fed(s).top = s.top /\ Fed(s).bottom = s.bottom
         /\ Paired(s.grid) => Paired(Fed(s).grid)
         /\ SameOutside(s.grid, Fed(s).grid, s.top, s.bottom, r)
<1> DEFINE g == SliceUp(s.grid, s.top, s.bottom, 1, c)
<1>1. /\ s.cols = c /\ s.rows = r /\ s.grid \in Page(c, r) /\ s.cy \in 0..(r - 1)
      /\ s.top \in 0..(r - 1) /\ s.bottom \in 0..(r - 1)
  BY DEF ScreenOf
<1>2. /\ g \in Page(c, r) /\ (Paired(s.grid) => Paired(g))
      /\ SameOutside(s.grid, g, s.top, s.bottom, r)
  BY <1>1, SliceUpFacts
<1> HIDE DEF g
<1>3. CASE AtBottom(s)
  <2>1. Fed(s) = [s EXCEPT !.wrap_pending = FALSE, !.grid = g]
    BY <1>1, <1>3 DEF Fed, ScrollUp, g, ScreenOf
  <2> QED
    BY <1>2, <2>1 DEF Edited, ScreenOf
<1>4. CASE ~AtBottom(s) /\ s.cy + 1 < s.rows
  <2>1. Fed(s) = [s EXCEPT !.wrap_pending = FALSE, !.cy = s.cy + 1]
    BY <1>1, <1>4 DEF Fed, ScreenOf
  <2>2. s.cy + 1 \in 0..(r - 1)
    BY <1>1, <1>4
  <2> QED
    BY <2>1, <2>2 DEF Edited, ScreenOf, SameOutside
<1>5. CASE ~AtBottom(s) /\ ~(s.cy + 1 < s.rows)
  <2>1. Fed(s) = [s EXCEPT !.wrap_pending = FALSE]
    BY <1>5 DEF Fed
  <2> QED
    BY <2>1 DEF Edited, ScreenOf, SameOutside
<1> QED
  BY <1>3, <1>4, <1>5

-----------------------------------------------------------------------------
(* Every order *)

(* A screen the program can have. *)
Sized(s) ==
  /\ s.cols \in Nat \ {0, 1} /\ s.rows \in Nat \ {0}
  /\ s \in ScreenOf(s.cols, s.rows) /\ s.top <= s.bottom

(* An order on the page in front. *)
Good(s, t) ==
  /\ Edited(s, t, s.cols, s.rows) /\ t.top <= t.bottom
  /\ Paired(s.grid) => Paired(t.grid)

(* The lines that neither scroll nor have the cursor. *)
Still(s, t) ==
  \A y \in Rows(s) \ (s.top..s.bottom \cup {s.cy, t.cy}) : t.grid[y] = s.grid[y]

(* clamp(). *)
LEMMA ClampFacts ==
  ASSUME NEW n \in Nat \ {0}, NEW x \in Int
  PROVE  Clamp(x, 0, n - 1) \in 0..(n - 1) /\ (x \in Nat => Clamp(x, 0, n - 1) = Lowest(x, n - 1))
BY DEF Clamp, Highest, Lowest

(* The cursor moves. *)
LEMMA MovedToFacts ==
  ASSUME NEW s, Sized(s), NEW x \in Int, NEW y \in Int
  PROVE  Good(s, MovedTo(s, x, y)) /\ Still(s, MovedTo(s, x, y)) /\ MovedTo(s, x, y).cols = s.cols
<1> DEFINE a == Clamp(x, 0, s.cols - 1)
           b == Clamp(y, 0, s.rows - 1)
<1>1. a \in 0..(s.cols - 1) /\ b \in 0..(s.rows - 1)
  BY ClampFacts DEF Sized
<1>2. MovedTo(s, x, y) = [s EXCEPT !.cx = a, !.cy = b, !.wrap_pending = FALSE]
  BY DEF MovedTo
<1> HIDE DEF a, b
<1> QED
  BY <1>1, <1>2 DEF Sized, Good, Edited, Still, ScreenOf

(* next_tab(): there is a first stop ahead if there is one. *)
LEMMA FirstOf ==
  ASSUME NEW T \in SUBSET Nat, T # {}
  PROVE  \E x \in T : \A z \in T : x <= z
<1> DEFINE R == OpToRel(<, Nat)
<1>1. IsWellFoundedOn(R, Nat)
  BY NatLessThanWellFounded
<1>2. \A x, z \in Nat : x < z => <<x, z>> \in R
  BY DEF OpToRel
<1> HIDE DEF R
<1>3. PICK x \in T : \A z \in T : ~(<<z, x>> \in R)
  BY <1>1, WFMin
<1>4. \A z \in T : x \in Nat /\ z \in Nat /\ ~(z < x)
  BY <1>1, <1>2, <1>3
<1> QED
  BY <1>4

(* Orders that move the cursor. *)
LEMMA CursorOrders ==
  ASSUME Sized(screen),
         CarriageReturn \/ Backspace \/ Tab \/ MoveTo \/ (\E n \in 1..2 : MoveLeft(n)) \/ RestoreCursor
  PROVE  Good(screen, screen') /\ Still(screen, screen')
<1>1. CASE CarriageReturn
  <2>1. screen' = [screen EXCEPT !.cx = 0, !.wrap_pending = FALSE]
    BY <1>1 DEF CarriageReturn, Becomes
  <2>2. 0 \in 0..(screen.cols - 1)
    BY DEF Sized
  <2> QED
    BY <2>1, <2>2 DEF Sized, Good, Edited, Still, ScreenOf
<1>2. CASE Backspace
  <2>1. CASE screen.wrap_pending
    <3>1. screen' = [screen EXCEPT !.wrap_pending = FALSE]
      BY <1>2, <2>1 DEF Backspace, Becomes
    <3> QED
      BY <3>1 DEF Sized, Good, Edited, Still, ScreenOf
  <2>2. CASE ~screen.wrap_pending
    <3>1. Highest(0, screen.cx - 1) \in 0..(screen.cols - 1)
      BY DEF Sized, ScreenOf, Highest
    <3>2. screen' = [screen EXCEPT !.cx = Highest(0, screen.cx - 1)]
      BY <1>2, <2>2 DEF Backspace, Becomes
    <3> QED
      BY <3>1, <3>2 DEF Sized, Good, Edited, Still, ScreenOf
  <2> QED
    BY <2>1, <2>2
<1>3. CASE Tab
  <2> DEFINE ahead == {x \in screen.tabs : x > screen.cx}
             x0 == IF ahead = {} THEN screen.cols - 1 ELSE CHOOSE x \in ahead : \A z \in ahead : x <= z
  <2>1. screen' = [screen EXCEPT !.wrap_pending = FALSE, !.cx = x0]
    BY <1>3 DEF Tab, Becomes
  <2>2. x0 \in 0..(screen.cols - 1)
    <3>1. ahead \subseteq 0..(screen.cols - 1) /\ ahead \in SUBSET Nat
      BY DEF Sized, ScreenOf
    <3> HIDE DEF ahead
    <3>2. ASSUME ahead # {} PROVE \E x \in ahead : \A z \in ahead : x <= z
      BY <3>1, <3>2, FirstOf
    <3>3. ahead # {} => (CHOOSE x \in ahead : \A z \in ahead : x <= z) \in ahead
      BY <3>2
    <3>4. screen.cols - 1 \in 0..(screen.cols - 1)
      BY DEF Sized
    <3> QED
      BY <3>1, <3>3, <3>4
  <2> HIDE DEF x0
  <2> QED
    BY <2>1, <2>2 DEF Sized, Good, Edited, Still, ScreenOf
<1>4. CASE MoveTo
  <2>1. PICK x \in Cols(screen), y \in Rows(screen) : screen' = MovedTo(screen, x, y)
    BY <1>4 DEF MoveTo, Becomes
  <2> QED
    BY <2>1, MovedToFacts DEF Cols, Rows
<1>5. ASSUME NEW n \in 1..2, MoveLeft(n) PROVE Good(screen, screen') /\ Still(screen, screen')
  <2> DEFINE x == screen.cx - (IF screen.wrap_pending THEN n - 1 ELSE n)
  <2>1. screen' = MovedTo(screen, x, screen.cy)
    BY <1>5 DEF MoveLeft, Becomes
  <2>2. x \in Int /\ screen.cy \in Int
    BY DEF Sized, ScreenOf
  <2> HIDE DEF x
  <2> QED
    BY <2>1, <2>2, MovedToFacts
<1>6. CASE RestoreCursor
  <2> DEFINE t == MovedTo(screen, screen.saved.x, screen.saved.y)
             w == screen.saved.wrap /\ t.cx = t.cols - 1
  <2>1. screen' = [t EXCEPT !.wrap_pending = w]
    BY <1>6 DEF RestoreCursor, Becomes
  <2>2. screen.saved.x \in Int /\ screen.saved.y \in Int
    BY DEF Sized, ScreenOf, SavedCursor
  <2>3. Good(screen, t) /\ Still(screen, t) /\ w \in BOOLEAN
    BY <2>2, MovedToFacts
  <2> HIDE DEF t, w
  <2> QED
    BY <2>1, <2>3 DEF Sized, Good, Edited, Still, ScreenOf
<1> QED
  BY <1>1, <1>2, <1>3, <1>4, <1>5, <1>6

(* Orders that move the cursor, or the lines of the region. *)
LEMMA LineOrders ==
  ASSUME Sized(screen), LineFeed \/ NextLine \/ ReverseIndex
  PROVE  Good(screen, screen') /\ Still(screen, screen')
<1> DEFINE c == screen.cols
           r == screen.rows
<1>0. /\ c \in Nat /\ r \in Nat /\ screen \in ScreenOf(c, r) /\ 0 \in 0..(c - 1)
      /\ screen.top <= screen.bottom
  BY DEF Sized
<1>1. screen.grid \in Page(c, r) /\ screen.top \in 0..(r - 1) /\ screen.bottom \in 0..(r - 1)
  BY <1>0 DEF ScreenOf
<1>2. CASE LineFeed
  <2>1. screen' = Fed(screen)
    BY <1>2 DEF LineFeed
  <2> QED
    BY <1>0, <2>1, FedFacts DEF Good, Still, SameOutside, Rows
<1>3. CASE NextLine
  <2> DEFINE t == [screen EXCEPT !.cx = 0]
  <2>1. screen' = Fed(t)
    BY <1>3 DEF NextLine
  <2>2. /\ t \in ScreenOf(c, r) /\ t.grid = screen.grid /\ t.top = screen.top /\ t.bottom = screen.bottom
        /\ t.alt = screen.alt /\ t.parked = screen.parked
        /\ t.parked_cursor = screen.parked_cursor /\ t.parked_decsc = screen.parked_decsc
    BY <1>0 DEF ScreenOf
  <2> HIDE DEF t
  <2>3. /\ Edited(t, Fed(t), c, r) /\ Fed(t).top = t.top /\ Fed(t).bottom = t.bottom
        /\ Paired(t.grid) => Paired(Fed(t).grid)
        /\ SameOutside(t.grid, Fed(t).grid, t.top, t.bottom, r)
    BY <1>0, <2>2, FedFacts
  <2> QED
    BY <1>0, <2>1, <2>2, <2>3 DEF Good, Edited, Still, SameOutside, Rows
<1>4. CASE ReverseIndex
  <2> DEFINE g == SliceDown(screen.grid, screen.top, screen.bottom, 1, c)
  <2>1. /\ g \in Page(c, r) /\ (Paired(screen.grid) => Paired(g))
        /\ SameOutside(screen.grid, g, screen.top, screen.bottom, r)
    BY <1>0, <1>1, SliceDownFacts
  <2>2. CASE screen.cy = screen.top
    <3>1. screen' = [screen EXCEPT !.wrap_pending = FALSE, !.grid = g]
      BY <1>0, <1>4, <2>2 DEF ReverseIndex, Becomes, ScreenOf
    <3> HIDE DEF g
    <3> QED
      BY <1>0, <2>1, <3>1 DEF Good, Edited, Still, SameOutside, Rows, ScreenOf
  <2>3. CASE screen.cy # screen.top
    <3>1. screen' = [screen EXCEPT !.wrap_pending = FALSE, !.cy = Highest(0, screen.cy - 1)]
      BY <1>0, <1>4, <2>3 DEF ReverseIndex, Becomes, ScreenOf
    <3>2. Highest(0, screen.cy - 1) \in 0..(r - 1)
      BY <1>0 DEF ScreenOf, Highest
    <3> QED
      BY <1>0, <3>1, <3>2 DEF Good, Edited, Still, Rows, ScreenOf
  <2> QED
    BY <2>2, <2>3
<1> QED
  BY <1>2, <1>3, <1>4

(* Orders that change neither the page nor the cursor. *)
LEMMA ModeOrders ==
  ASSUME Sized(screen), SetTabs \/ SaveCursor \/ SetScrollRegion \/ SetAutowrap
  PROVE  Good(screen, screen') /\ Still(screen, screen')
<1>1. CASE SetTabs
  <2>1. PICK tabs \in {screen.tabs \cup {screen.cx}, screen.tabs \ {screen.cx}, {}} :
           screen' = [screen EXCEPT !.tabs = tabs]
    BY <1>1 DEF SetTabs, Becomes
  <2>2. tabs \subseteq 0..(screen.cols - 1)
    BY DEF Sized, ScreenOf
  <2> QED
    BY <2>1, <2>2 DEF Sized, Good, Edited, Still, ScreenOf
<1>2. CASE SaveCursor
  <2>1. Cursor(screen) \in SavedCursor
    BY DEF Sized, ScreenOf, Cursor, SavedCursor
  <2>2. screen' = [screen EXCEPT !.saved = Cursor(screen)]
    BY <1>2 DEF SaveCursor, Becomes
  <2> QED
    BY <2>1, <2>2 DEF Sized, Good, Edited, Still, ScreenOf
<1>3. CASE SetScrollRegion
  <2> DEFINE t == MovedTo(screen, 0, 0)
  <2>1. PICK top \in Rows(screen), bottom \in Rows(screen) :
          /\ bottom > top \/ (top = 0 /\ bottom = screen.rows - 1)
          /\ screen' = [t EXCEPT !.top = top, !.bottom = bottom]
    BY <1>3 DEF SetScrollRegion, Becomes
  <2>2. Good(screen, t) /\ Still(screen, t)
    BY MovedToFacts
  <2>3. top \in 0..(screen.rows - 1) /\ bottom \in 0..(screen.rows - 1) /\ top <= bottom
    BY <2>1 DEF Rows, Sized
  <2> HIDE DEF t
  <2> QED
    BY <2>1, <2>2, <2>3 DEF Sized, Good, Edited, Still, ScreenOf
<1>4. CASE SetAutowrap
  <2>1. screen' = [screen EXCEPT !.autowrap = ~screen.autowrap]
    BY <1>4 DEF SetAutowrap, Becomes
  <2> QED
    BY <2>1 DEF Sized, Good, Edited, Still, ScreenOf
<1> QED
  BY <1>1, <1>2, <1>3, <1>4

(* print(): a wide character that does not fit wraps, or is not written. *)
LEMMA DrawOrders ==
  ASSUME Sized(screen), NEW w \in 1..2, Draw(w)
  PROVE  Good(screen, screen') /\ Still(screen, screen')
<1> DEFINE c == screen.cols
           r == screen.rows
<1>0. /\ c \in Nat \ {0, 1} /\ r \in Nat \ {0} /\ screen \in ScreenOf(c, r) /\ 0 \in 0..(c - 1)
      /\ screen.top <= screen.bottom
  BY DEF Sized
<1>1. CASE ~Fits(screen, w)
  <2>1. screen' = screen
    BY <1>1 DEF Draw
  <2> QED
    BY <1>0, <2>1 DEF Good, Edited, Still
<1>2. CASE Fits(screen, w) /\ ~Wraps(screen, w)
  <2>1. screen' = Put(screen, w)
    BY <1>2 DEF Draw
  <2>2. w = 2 => screen.cx + 1 < c
    BY <1>0, <1>2 DEF Fits, Wraps, ScreenOf
  <2> QED
    BY <1>0, <2>1, <2>2, PutFacts DEF Good, Still, Rows
<1>3. CASE Fits(screen, w) /\ Wraps(screen, w)
  <2> DEFINE f == Fed(screen)
             t == [f EXCEPT !.cx = 0]
  <2>1. screen' = Put(t, w)
    BY <1>3 DEF Draw
  <2>2. /\ Edited(screen, f, c, r) /\ f.top = screen.top /\ f.bottom = screen.bottom
        /\ Paired(screen.grid) => Paired(f.grid)
        /\ SameOutside(screen.grid, f.grid, screen.top, screen.bottom, r)
    BY <1>0, FedFacts
  <2> HIDE DEF f
  <2>3. /\ t \in ScreenOf(c, r) /\ t.grid = f.grid /\ t.top = f.top /\ t.bottom = f.bottom
        /\ t.alt = f.alt /\ t.parked = f.parked /\ t.cx = 0
        /\ t.parked_cursor = f.parked_cursor /\ t.parked_decsc = f.parked_decsc
    BY <1>0, <2>2 DEF ScreenOf, Edited
  <2> HIDE DEF t
  <2>4. w = 2 => t.cx + 1 < c
    BY <1>0, <2>3
  <2>5. /\ Edited(t, Put(t, w), c, r)
        /\ Put(t, w).cy = t.cy /\ Put(t, w).top = t.top /\ Put(t, w).bottom = t.bottom
        /\ Paired(t.grid) => Paired(Put(t, w).grid)
        /\ \A y \in 0..(r - 1) : y # t.cy => Put(t, w).grid[y] = t.grid[y]
    BY <1>0, <2>3, <2>4, PutFacts
  <2>6. Good(screen, screen')
    BY <1>0, <2>1, <2>2, <2>3, <2>5 DEF Good, Edited
  <2>7. Still(screen, screen')
    BY <1>0, <2>1, <2>2, <2>3, <2>5 DEF Still, SameOutside, Rows
  <2> QED
    BY <2>6, <2>7
<1> QED
  BY <1>1, <1>2, <1>3

(* An order that writes the cursor's line. *)
LEMMA OnRowFacts ==
  ASSUME Sized(screen), NEW row \in Row(screen.cols), screen' = OnRow(row)
  PROVE  /\ Edited(screen, screen', screen.cols, screen.rows) /\ screen'.top <= screen'.bottom
         /\ Paired(screen.grid) /\ Whole(row, screen.cols) => Paired(screen'.grid)
         /\ Still(screen, screen')
<1> DEFINE c == screen.cols
           r == screen.rows
           g == [screen.grid EXCEPT ![screen.cy] = row]
<1>0. /\ c \in Nat /\ r \in Nat /\ screen \in ScreenOf(c, r) /\ screen.top <= screen.bottom
      /\ screen.grid \in Page(c, r) /\ screen.cy \in 0..(r - 1)
  BY DEF Sized, ScreenOf
<1>1. g \in Page(c, r) /\ (Paired(screen.grid) /\ Whole(row, c) => Paired(g))
  BY <1>0, OneRowFacts
<1>2. \A y \in 0..(r - 1) : y # screen.cy => g[y] = screen.grid[y]
  BY <1>0 DEF Page
<1>3. screen' = [screen EXCEPT !.grid = g]
  BY DEF OnRow
<1> HIDE DEF g
<1> QED
  BY <1>0, <1>1, <1>2, <1>3 DEF Edited, ScreenOf, Still, Rows

(* The line of the cursor, and what is erased of a line. *)
LEMMA CursorRow ==
  ASSUME Sized(screen)
  PROVE  /\ screen.grid[screen.cy] \in Row(screen.cols)
         /\ screen.cols \in Nat /\ screen.cx \in 0..(screen.cols - 1)
         /\ Paired(screen.grid) => Whole(screen.grid[screen.cy], screen.cols)
<1>1. /\ screen.grid \in Page(screen.cols, screen.rows) /\ screen.cy \in 0..(screen.rows - 1)
      /\ screen.cols \in Nat /\ screen.rows \in Nat /\ screen.cx \in 0..(screen.cols - 1)
  BY DEF Sized, ScreenOf
<1>2. screen.grid[screen.cy] \in Row(screen.cols)
  BY <1>1 DEF Page
<1>3. Paired(screen.grid) => Whole(screen.grid[screen.cy], screen.cols)
  BY <1>1, PairedPage
<1> QED
  BY <1>1, <1>2, <1>3

(* EL and ED, one line. *)
LEMMA ErasedFacts ==
  ASSUME Sized(screen), NEW mode \in 0..2, NEW y \in 0..(screen.rows - 1)
  PROVE  /\ Erased(mode, y) \in Row(screen.cols)
         /\ Paired(screen.grid) => Whole(Erased(mode, y), screen.cols)
<1> DEFINE x0 == IF mode = 0 /\ y = screen.cy THEN screen.cx ELSE 0
           x1 == IF mode = 1 /\ y = screen.cy THEN screen.cx ELSE screen.cols - 1
<1>1. /\ screen.grid \in Page(screen.cols, screen.rows)
      /\ screen.cols \in Nat \ {0, 1} /\ screen.rows \in Nat /\ screen.cx \in 0..(screen.cols - 1)
  BY DEF Sized, ScreenOf
<1>2. screen.grid[y] \in Row(screen.cols)
  BY <1>1 DEF Page
<1>3. Paired(screen.grid) => Whole(screen.grid[y], screen.cols)
  BY <1>1, PairedPage
<1>4. x0 \in 0..(screen.cols - 1) /\ x1 \in x0..(screen.cols - 1)
  BY <1>1
<1>5. Erased(mode, y) = EraseSpan(screen.grid[y], x0, x1)
  BY DEF Erased
<1> HIDE DEF x0, x1
<1> QED
  BY <1>1, <1>2, <1>3, <1>4, <1>5, EraseSpanFacts

(* Orders on the line of the cursor; delete_chars() may halve. *)
LEMMA RowOrders ==
  ASSUME Sized(screen), EraseLine \/ EraseChars \/ Insert
  PROVE  Good(screen, screen') /\ Still(screen, screen')
<1>1. SUFFICES \E row \in Row(screen.cols) :
                 /\ screen' = OnRow(row)
                 /\ Paired(screen.grid) => Whole(row, screen.cols)
  BY OnRowFacts DEF Good
<1>2. /\ screen.grid[screen.cy] \in Row(screen.cols) /\ screen.cy \in 0..(screen.rows - 1)
      /\ screen.cols \in Nat /\ screen.cx \in 0..(screen.cols - 1)
      /\ Paired(screen.grid) => Whole(screen.grid[screen.cy], screen.cols)
  BY CursorRow DEF Sized, ScreenOf
<1>3. CASE EraseLine
  <2>1. PICK mode \in 0..2 : screen' = OnRow(Erased(mode, screen.cy))
    BY <1>3 DEF EraseLine, Becomes
  <2> QED
    BY <1>2, <2>1, ErasedFacts
<1>4. CASE EraseChars
  <2>1. PICK n \in Counts :
          screen' = OnRow(EraseSpan(screen.grid[screen.cy], screen.cx, screen.cx + n - 1))
    BY <1>4 DEF EraseChars, Becomes
  <2>2. screen.cx + n - 1 \in screen.cx..(screen.cols - 1)
    BY <1>2 DEF Counts
  <2> QED
    BY <1>2, <2>1, <2>2, EraseSpanFacts
<1>5. CASE Insert
  <2>1. PICK n \in Counts : screen' = OnRow(InsertChars(screen.grid[screen.cy], screen.cx, n))
    BY <1>5 DEF Insert, Becomes
  <2> QED
    BY <1>2, <2>1, InsertCharsFacts DEF Counts
<1> QED
  BY <1>3, <1>4, <1>5

(* DCH. *)
LEMMA DeleteOrder ==
  ASSUME Sized(screen), Delete
  PROVE  /\ Edited(screen, screen', screen.cols, screen.rows) /\ screen'.top <= screen'.bottom
         /\ ~halved' /\ Paired(screen.grid) => Paired(screen'.grid)
         /\ Still(screen, screen')
<1> DEFINE row == screen.grid[screen.cy]
<1>1. /\ row \in Row(screen.cols)
      /\ screen.cols \in Nat /\ screen.cx \in 0..(screen.cols - 1)
      /\ Paired(screen.grid) => Whole(row, screen.cols)
  BY CursorRow
<1>2. PICK n \in 1..(screen.cols - screen.cx) :
        /\ screen' = OnRow(DeleteChars(row, screen.cx, n, screen.cols))
        /\ halved' = (halved \/ Halves(row, screen.cx, n, screen.cols))
  BY DEF Delete, Counts
<1> DEFINE new == DeleteChars(row, screen.cx, n, screen.cols)
<1> HIDE DEF row
<1>3. /\ new \in Row(screen.cols)
      /\ Whole(row, screen.cols) /\ ~Halves(row, screen.cx, n, screen.cols) => Whole(new, screen.cols)
  BY <1>1, <1>2, DeleteCharsFacts
<1>4. screen' = OnRow(new)
  BY <1>2
<1> HIDE DEF new
<1> QED
  BY <1>1, <1>2, <1>3, <1>4, OnRowFacts

(* Orders on several lines. *)
LEMMA PageOrders ==
  ASSUME Sized(screen), EraseDisplay \/ \E n \in 1..2 : InsertLines(n) \/ DeleteLines(n)
  PROVE  Good(screen, screen') /\ (EraseDisplay \/ Still(screen, screen'))
<1> DEFINE c == screen.cols
           r == screen.rows
<1>0. /\ c \in Nat /\ r \in Nat /\ screen \in ScreenOf(c, r) /\ screen.top <= screen.bottom
      /\ screen.grid \in Page(c, r) /\ screen.top \in 0..(r - 1) /\ screen.bottom \in 0..(r - 1)
      /\ screen.cy \in 0..(r - 1)
  BY DEF Sized, ScreenOf
<1>1. ASSUME NEW g \in Page(c, r), screen' = [screen EXCEPT !.grid = g],
             Paired(screen.grid) => Paired(g)
      PROVE  Good(screen, screen')
  BY <1>0, <1>1 DEF Good, Edited, ScreenOf
<1>2. CASE EraseDisplay
  <2>1. PICK mode \in 0..2 :
          screen' = [screen EXCEPT !.grid = [y \in 0..(r - 1) |->
            IF mode = 2 \/ y = screen.cy \/ (mode = 0 /\ y > screen.cy) \/ (mode = 1 /\ y < screen.cy)
            THEN Erased(mode, y) ELSE screen.grid[y]]]
    BY <1>2 DEF EraseDisplay, Becomes, Rows
  <2> DEFINE g == [y \in 0..(r - 1) |->
            IF mode = 2 \/ y = screen.cy \/ (mode = 0 /\ y > screen.cy) \/ (mode = 1 /\ y < screen.cy)
            THEN Erased(mode, y) ELSE screen.grid[y]]
  <2>2. \A y \in 0..(r - 1) : screen.grid[y] \in Row(c) /\ Erased(mode, y) \in Row(c)
    BY <1>0, ErasedFacts DEF Page
  <2>3. g \in Page(c, r) /\ \A y \in 0..(r - 1) : g[y] = screen.grid[y] \/ g[y] = Erased(mode, y)
    BY <2>2 DEF Page
  <2>4. screen' = [screen EXCEPT !.grid = g]
    BY <2>1
  <2> HIDE DEF g
  <2>5. ASSUME Paired(screen.grid) PROVE Paired(g)
    <3>1. \A y \in 0..(r - 1) : Whole(screen.grid[y], c) /\ Whole(Erased(mode, y), c)
      BY <1>0, <2>5, ErasedFacts, PairedPage
    <3>2. \A y \in 0..(r - 1) : Whole(g[y], c)
      BY <2>3, <3>1
    <3> QED
      BY <1>0, <2>3, <3>2, PairedPage
  <2> QED
    BY <1>1, <1>2, <2>3, <2>4, <2>5
<1>3. ASSUME NEW n \in 1..2, InsertLines(n) PROVE Good(screen, screen') /\ Still(screen, screen')
  <2> DEFINE g == SliceDown(screen.grid, screen.cy, screen.bottom, n, c)
  <2>1. screen' = [screen EXCEPT !.grid = g] /\ screen.cy \in screen.top..screen.bottom
    BY <1>3 DEF InsertLines, Becomes
  <2>2. /\ g \in Page(c, r) /\ (Paired(screen.grid) => Paired(g))
        /\ SameOutside(screen.grid, g, screen.cy, screen.bottom, r)
    <3>1. n \in Nat
      OBVIOUS
    <3> HIDE DEF c, r
    <3> QED
      BY <1>0, <3>1, SliceDownFacts
  <2> HIDE DEF g
  <2>3. Still(screen, screen')
    BY <1>0, <2>1, <2>2 DEF Still, SameOutside, Rows, ScreenOf
  <2> QED
    BY <1>1, <2>1, <2>2, <2>3
<1>4. ASSUME NEW n \in 1..2, DeleteLines(n) PROVE Good(screen, screen') /\ Still(screen, screen')
  <2> DEFINE g == SliceUp(screen.grid, screen.cy, screen.bottom, n, c)
  <2>1. screen' = [screen EXCEPT !.grid = g] /\ screen.cy \in screen.top..screen.bottom
    BY <1>4 DEF DeleteLines, Becomes
  <2>2. /\ g \in Page(c, r) /\ (Paired(screen.grid) => Paired(g))
        /\ SameOutside(screen.grid, g, screen.cy, screen.bottom, r)
    <3>1. n \in Nat
      OBVIOUS
    <3> HIDE DEF c, r
    <3> QED
      BY <1>0, <3>1, SliceUpFacts
  <2> HIDE DEF g
  <2>3. Still(screen, screen')
    BY <1>0, <2>1, <2>2 DEF Still, SameOutside, Rows, ScreenOf
  <2> QED
    BY <1>1, <2>1, <2>2, <2>3
<1> QED
  BY <1>2, <1>3, <1>4

-----------------------------------------------------------------------------
(* The inductive invariant *)

(* The alternate page is in front exactly when the main one waits. *)
AltHasPage == screen.alt <=> screen.parked # NoPage

(* What waits is what was left, cut to the window. *)
MainKnown ==
  /\ main \in [page : {main.page}, cursor : SavedCursor, saved : SavedCursor]
  /\ screen.alt =>
       /\ screen.parked = main.page /\ screen.parked_cursor = main.cursor
       /\ screen.parked_decsc = main.saved

(* The history is a ring, and the view does not go beyond its lines. *)
Ring(b) ==
  /\ b \in [ring : [0..(Capacity - 1) -> Seq(Cell)], head : Nat, size : 0..Capacity, offset : Nat]
  /\ Capacity # 0 => b.head < Capacity
  /\ b.offset <= b.size

ScreenInv == Sized(screen) /\ AltHasPage /\ MainKnown /\ Ring(back) /\ WidePaired

(* The end of a line: the last cell that is not blank. *)
LEMMA LastOf ==
  ASSUME NEW n \in Nat, NEW T \in SUBSET (0..(n - 1)), T # {}
  PROVE  \E x \in T : \A z \in T : z <= x
<1> DEFINE U == {k \in Nat : n - k \in T}
<1>1. U \in SUBSET Nat /\ U # {}
  <2>1. PICK x \in T : TRUE
    OBVIOUS
  <2>2. n - x \in Nat /\ n - (n - x) = x
    BY <2>1
  <2>3. n - x \in U
    BY <2>1, <2>2
  <2> QED
    BY <2>3
<1>2. PICK k \in U : \A m \in U : k <= m
  <2> HIDE DEF U
  <2> QED
    BY <1>1, FirstOf
<1>3. \A z \in T : n - z \in U
  <2>1. \A z \in T : n - z \in Nat /\ n - (n - z) = z
    OBVIOUS
  <2> QED
    BY <2>1
<1>4. \A z \in T : z <= n - k
  <2>1. \A z \in T : k <= n - z /\ z \in Nat
    BY <1>2, <1>3
  <2> QED
    BY <1>2, <2>1
<1> QED
  BY <1>2, <1>4

(* push_line() trims the line it keeps. *)
LEMMA TrimFacts ==
  ASSUME NEW c \in Nat, NEW row \in Row(c)
  PROVE  Trim(row) \in Seq(Cell)
<1> DEFINE last == {x \in DOMAIN row : row[x] # "blank"}
           len  == IF last = {} THEN 0 ELSE (CHOOSE x \in last : \A z \in last : z <= x) + 1
<1>1. last \in SUBSET (0..(c - 1))
  BY DEF Row
<1>2. Trim(row) = [i \in 1..len |-> row[i - 1]]
  BY DEF Trim
<1>3. len \in 0..c
  <2> HIDE DEF last
  <2> DEFINE e == CHOOSE x \in last : \A z \in last : z <= x
  <2>1. ASSUME last # {} PROVE e \in last
    <3>1. \E x \in last : \A z \in last : z <= x
      BY <1>1, <2>1, LastOf
    <3> QED
      BY <3>1
  <2> HIDE DEF e
  <2>2. ASSUME last # {} PROVE e + 1 \in 0..c
    <3>1. e \in 0..(c - 1)
      BY <1>1, <2>1, <2>2
    <3> QED
      BY <3>1
  <2>3. len = IF last = {} THEN 0 ELSE e + 1
    BY DEF e
  <2> QED
    BY <2>2, <2>3
<1> HIDE DEF last, len
<1>4. \A i \in 1..len : row[i - 1] \in Cell
  BY <1>3 DEF Row
<1> QED
  BY <1>2, <1>3, <1>4

(* The view goes back with what it shows, never beyond the first line. *)
LEMMA FollowFacts ==
  ASSUME NEW b, Ring(b)
  PROVE  Ring(Follow(b))
<1>1. CASE b.offset > 0
  <2>1. Lowest(b.offset + 1, b.size) \in Nat /\ Lowest(b.offset + 1, b.size) <= b.size
    BY DEF Ring, Lowest
  <2>2. Follow(b) = [b EXCEPT !.offset = Lowest(b.offset + 1, b.size)]
    BY <1>1 DEF Follow, Ring
  <2> QED
    BY <2>1, <2>2 DEF Ring
<1> QED
  BY <1>1 DEF Follow

(* push_line(): the ring turns, the view follows. *)
LEMMA PushLineFacts ==
  ASSUME NEW b, Ring(b), NEW c \in Nat, NEW row \in Row(c)
  PROVE  Ring(PushLine(b, row))
<1> DEFINE line == Trim(row)
<1>0. Capacity \in Nat /\ line \in Seq(Cell)
  BY ScreenAssumption, TrimFacts DEF ScreenAssumption
<1> HIDE DEF line
<1>1. CASE Capacity = 0
  BY <1>1 DEF PushLine
<1>2. CASE Capacity # 0 /\ b.size < Capacity
  <2> DEFINE i == (b.head + b.size) % Capacity
             ring == [b.ring EXCEPT ![i] = line]
             a == [b EXCEPT !.ring = ring, !.size = b.size + 1]
  <2>1. PushLine(b, row) = Follow(a)
    BY <1>2 DEF PushLine, Ring, line
  <2>2. ring \in [0..(Capacity - 1) -> Seq(Cell)]
    BY <1>0 DEF Ring
  <2> HIDE DEF ring
  <2>3. b.size + 1 \in 0..Capacity /\ b.offset <= b.size + 1
    BY <1>0, <1>2 DEF Ring
  <2>4. Ring(a)
    BY <2>2, <2>3 DEF Ring
  <2> HIDE DEF a
  <2> QED
    BY <1>0, <2>1, <2>4, FollowFacts
<1>3. CASE Capacity # 0 /\ ~(b.size < Capacity)
  <2> DEFINE ring == [b.ring EXCEPT ![b.head] = line]
             h == (b.head + 1) % Capacity
             a == [b EXCEPT !.ring = ring, !.head = h]
  <2>1. PushLine(b, row) = Follow(a)
    BY <1>3 DEF PushLine, Ring, line
  <2>2. ring \in [0..(Capacity - 1) -> Seq(Cell)]
    BY <1>0 DEF Ring
  <2>3. h \in 0..(Capacity - 1)
    BY <1>0, <1>3 DEF Ring
  <2> HIDE DEF ring, h
  <2>5. h \in Nat /\ h < Capacity
    BY <1>0, <2>3
  <2>4. Ring(a)
    BY <2>2, <2>5 DEF Ring
  <2> HIDE DEF a
  <2> QED
    BY <1>0, <2>1, <2>4, FollowFacts
<1> QED
  BY <1>1, <1>2, <1>3

(* A step that leaves the parked page alone. *)
LEMMA EditInv ==
  ASSUME ScreenInv, Edited(screen, screen', screen.cols, screen.rows), screen'.top <= screen'.bottom,
         ~halved' => ~halved, ~halved' /\ Paired(screen.grid) => Paired(screen'.grid), main' = main,
         Ring(back')
  PROVE  ScreenInv'
<1>1. Sized(screen')
  BY DEF ScreenInv, Sized, Edited, ScreenOf
<1>2. (AltHasPage /\ MainKnown)'
  BY DEF ScreenInv, AltHasPage, MainKnown, Edited
<1>3. WidePaired'
  BY DEF ScreenInv, WidePaired, Edited
<1> QED
  BY <1>1, <1>2, <1>3 DEF ScreenInv

(* Mode 1049, both ways, and the window's size. *)
LEMMA SwitchInv ==
  ASSUME ScreenInv, EnterAltScreen \/ LeaveAltScreen \/ Resize
  PROVE  ScreenInv'
<1> USE ScreenAssumption
<1> DEFINE c == screen.cols
           r == screen.rows
<1>0. /\ c \in Nat \ {0, 1} /\ r \in Nat \ {0} /\ screen \in ScreenOf(c, r)
      /\ screen.top <= screen.bottom /\ screen.grid \in Page(c, r)
      /\ screen.parked \in Page(c, r) \cup {NoPage}
  BY DEF ScreenInv, Sized, ScreenOf
<1>1. \A a, b \in Nat : \A g \in Page(a, b) : b # 0 => g # NoPage
  BY DEF Page, NoPage
<1>2. CASE EnterAltScreen /\ ~screen.alt
  <2>1. /\ screen' = [screen EXCEPT !.alt = TRUE, !.parked = screen.grid,
                       !.grid = BlankPage(c, r),
                       !.parked_cursor = Cursor(screen), !.parked_decsc = screen.saved,
                       !.saved = Origin]
        /\ main' = [page |-> screen.grid, cursor |-> Cursor(screen), saved |-> screen.saved]
        /\ UNCHANGED <<back, halved>>
    BY <1>2 DEF EnterAltScreen, EntersAlt
  <2>2. BlankPage(c, r) \in Page(c, r) /\ Paired(BlankPage(c, r))
    BY <1>0, BlankPageFacts
  <2>3. /\ Origin \in SavedCursor /\ Cursor(screen) \in SavedCursor /\ screen.saved \in SavedCursor
        /\ Cursor(screen) \in [x : 0..(c - 1), y : 0..(r - 1), wrap : BOOLEAN]
    BY <1>0 DEF Origin, SavedCursor, Cursor, ScreenOf
  <2>4. Sized(screen')
    BY <1>0, <2>1, <2>2, <2>3 DEF Sized, ScreenOf
  <2>5. AltHasPage' /\ MainKnown'
    BY <1>0, <1>1, <2>1, <2>3 DEF AltHasPage, MainKnown, ScreenOf
  <2>6. WidePaired' /\ Ring(back')
    BY <1>0, <2>1, <2>2 DEF ScreenInv, WidePaired, ScreenOf
  <2> QED
    BY <2>4, <2>5, <2>6 DEF ScreenInv
<1>3. CASE EnterAltScreen /\ screen.alt
  <2>1. UNCHANGED <<screen, main, back, halved>>
    BY <1>3 DEF EnterAltScreen, EntersAlt
  <2> QED
    BY <2>1 DEF ScreenInv, AltHasPage, MainKnown, WidePaired
<1>4. CASE LeaveAltScreen
  <2>1. /\ screen' = [screen EXCEPT !.alt = FALSE, !.grid = screen.parked, !.parked = NoPage,
                !.cx = screen.parked_cursor.x, !.cy = screen.parked_cursor.y,
                !.wrap_pending = screen.parked_cursor.wrap,
                !.saved = screen.parked_decsc]
        /\ screen.alt /\ UNCHANGED <<back, main, halved>>
    BY <1>4 DEF LeaveAltScreen, Becomes
  <2>2. screen.parked \in Page(c, r)
    BY <1>0, <2>1 DEF ScreenInv, AltHasPage
  <2> DEFINE z == screen.parked_cursor
  <2>6. /\ z.x \in 0..(c - 1) /\ z.y \in 0..(r - 1) /\ z.wrap \in BOOLEAN
        /\ screen.parked_decsc \in SavedCursor
    BY <1>0 DEF ScreenOf
  <2> DEFINE x == z.x
             y == z.y
             w == z.wrap
             k == screen.parked_decsc
             g == screen.parked
  <2>7. screen' = [screen EXCEPT !.alt = FALSE, !.grid = g, !.parked = NoPage,
                !.cx = x, !.cy = y, !.wrap_pending = w, !.saved = k]
    BY <2>1
  <2>8. /\ x \in 0..(c - 1) /\ y \in 0..(r - 1) /\ w \in BOOLEAN
        /\ k \in SavedCursor /\ g \in Page(c, r)
    BY <2>2, <2>6
  <2> HIDE DEF x, y, w, k, g
  <2>3. Sized(screen')
    <3>1. screen' \in ScreenOf(c, r)
      BY <1>0, <2>7, <2>8 DEF ScreenOf
    <3>2. screen'.top = screen.top /\ screen'.bottom = screen.bottom
      BY <1>0, <2>7 DEF ScreenOf
    <3>3. screen'.cols = c /\ screen'.rows = r
      BY <3>1 DEF ScreenOf
    <3> QED
      BY <1>0, <3>1, <3>2, <3>3 DEF Sized
  <2>4. AltHasPage' /\ MainKnown'
    BY <1>0, <2>1 DEF ScreenInv, AltHasPage, MainKnown, ScreenOf
  <2>5. WidePaired' /\ Ring(back')
    BY <1>0, <2>1, PairedNoPage DEF ScreenInv, WidePaired, ScreenOf
  <2> QED
    BY <2>3, <2>4, <2>5 DEF ScreenInv
<1>5. CASE Resize
  <2>2. PICK d \in Nat \ {0, 1}, q \in Nat \ {0} :
          /\ screen' = Resized(screen, d, q)
          /\ main' = [main EXCEPT !.page = IF @ = NoPage THEN @ ELSE Reshape(@, d, q),
                        !.cursor = [x |-> Lowest(@.x, d - 1), y |-> Lowest(@.y, q - 1), wrap |-> @.wrap]]
          /\ UNCHANGED <<back, halved>>
    <3>1. PICK size \in Sizes :
            /\ screen' = Resized(screen, size[1], size[2])
            /\ main' = [main EXCEPT !.page = IF @ = NoPage THEN @ ELSE Reshape(@, size[1], size[2]),
                          !.cursor = [x |-> Lowest(@.x, size[1] - 1), y |-> Lowest(@.y, size[2] - 1), wrap |-> @.wrap]]
            /\ UNCHANGED <<back, halved>>
      BY <1>5 DEF Resize
    <3>2. size[1] \in Nat \ {0, 1} /\ size[2] \in Nat \ {0}
      BY DEF ScreenAssumption
    <3> QED
      BY <3>1, <3>2, Zenon
  <2> DEFINE g == IF screen.alt THEN BlankPage(d, q) ELSE Reshape(screen.grid, d, q)
             k == IF screen.alt THEN Reshape(screen.parked, d, q) ELSE screen.parked
             x == Clamp(screen.cx, 0, d - 1)
             y == Clamp(screen.cy, 0, q - 1)
             pc == [x |-> Clamp(screen.parked_cursor.x, 0, d - 1), y |-> Clamp(screen.parked_cursor.y, 0, q - 1),
                    wrap |-> screen.parked_cursor.wrap]
             t == IF d # c THEN ResetTabs(d) ELSE screen.tabs
  <2>3. screen' = [screen EXCEPT !.grid = g, !.parked = k, !.cols = d, !.rows = q, !.cx = x, !.cy = y,
                     !.wrap_pending = FALSE, !.parked_cursor = pc, !.top = 0, !.bottom = q - 1,
                     !.tabs = t]
    <3> DEFINE pages == IF screen.alt
                        THEN [screen EXCEPT !.parked = Reshape(screen.parked, d, q),
                                            !.grid = BlankPage(d, q)]
                        ELSE [screen EXCEPT !.grid = Reshape(screen.grid, d, q)]
    <3>1. screen' = [pages EXCEPT !.cols = d, !.rows = q,
             !.cx = Clamp(@, 0, d - 1), !.cy = Clamp(@, 0, q - 1), !.wrap_pending = FALSE,
             !.parked_cursor = [x |-> Clamp(@.x, 0, d - 1), y |-> Clamp(@.y, 0, q - 1), wrap |-> @.wrap],
             !.top = 0, !.bottom = q - 1,
             !.tabs = IF d # c THEN ResetTabs(d) ELSE @]
      BY <2>2 DEF Resized
    <3>2. pages = [screen EXCEPT !.grid = g, !.parked = k]
      <4>1. CASE screen.alt
        BY <1>0, <4>1 DEF ScreenOf
      <4>2. CASE ~screen.alt
        BY <1>0, <4>2 DEF ScreenOf
      <4> QED
        BY <4>1, <4>2
    <3> HIDE DEF pages, g, k
    <3>3. /\ pages.cx = screen.cx /\ pages.cy = screen.cy /\ pages.tabs = screen.tabs
          /\ pages.parked_cursor = screen.parked_cursor
      BY <1>0, <3>2 DEF ScreenOf
    <3>4. screen' = [pages EXCEPT !.cols = d, !.rows = q, !.cx = x, !.cy = y, !.wrap_pending = FALSE,
                       !.parked_cursor = pc, !.top = 0, !.bottom = q - 1, !.tabs = t]
      BY <1>0, <3>1, <3>2, <3>3 DEF ScreenOf
    <3> HIDE DEF x, y, pc, t
    <3> QED
      BY <1>0, <3>2, <3>4 DEF ScreenOf
  <2>4. screen.alt => screen.parked \in Page(c, r)
    BY <1>0 DEF ScreenInv, AltHasPage
  <2>5. g \in Page(d, q) /\ (Paired(screen.grid) => Paired(g))
    BY <1>0, <2>2, BlankPageFacts, ReshapeFacts
  <2>6. /\ screen.alt => k \in Page(d, q) /\ k # NoPage
        /\ ~screen.alt => k = NoPage
        /\ Paired(screen.parked) => Paired(k)
    <3>1. CASE screen.alt
      <4>1. k = Reshape(screen.parked, d, q)
        BY <3>1
      <4>2. k \in Page(d, q) /\ (Paired(screen.parked) => Paired(k))
        BY <1>0, <2>4, <3>1, <4>1, ReshapeFacts
      <4> QED
        BY <1>1, <3>1, <4>2
    <3>2. CASE ~screen.alt
      BY <3>2 DEF ScreenInv, AltHasPage
    <3> QED
      BY <3>1, <3>2
  <2>7. /\ screen.cx \in Int /\ screen.cy \in Int
        /\ screen.parked_cursor \in [x : 0..(c - 1), y : 0..(r - 1), wrap : BOOLEAN]
    BY <1>0 DEF ScreenOf
  <2>8. x \in 0..(d - 1) /\ y \in 0..(q - 1)
    BY <2>2, <2>7, ClampFacts
  <2>9. /\ pc \in [x : 0..(d - 1), y : 0..(q - 1), wrap : BOOLEAN]
        /\ pc = [x |-> Lowest(screen.parked_cursor.x, d - 1), y |-> Lowest(screen.parked_cursor.y, q - 1),
                 wrap |-> screen.parked_cursor.wrap]
    <3> DEFINE z == screen.parked_cursor
    <3>1. z.x \in Nat /\ z.y \in Nat /\ z.wrap \in BOOLEAN
      BY <2>7
    <3>2. /\ Clamp(z.x, 0, d - 1) \in 0..(d - 1) /\ Clamp(z.x, 0, d - 1) = Lowest(z.x, d - 1)
          /\ Clamp(z.y, 0, q - 1) \in 0..(q - 1) /\ Clamp(z.y, 0, q - 1) = Lowest(z.y, q - 1)
      BY <3>1, ClampFacts
    <3> QED
      BY <3>1, <3>2
  <2>10. t \subseteq 0..(d - 1)
    BY <1>0, <2>2 DEF ResetTabs, ScreenOf
  <2> HIDE DEF g, k, x, y, pc, t
  <2>11. Sized(screen')
    <3>1. /\ 0 \in 0..(q - 1) /\ q - 1 \in 0..(q - 1) /\ 0 <= q - 1
          /\ k \in Page(d, q) \cup {NoPage} /\ t \in SUBSET (0..(d - 1))
      BY <2>2, <2>6, <2>10
    <3>2. screen' \in ScreenOf(d, q)
      BY <1>0, <2>3, <2>5, <2>8, <2>9, <3>1 DEF ScreenOf
    <3>3. screen'.cols = d /\ screen'.rows = q
      BY <3>2 DEF ScreenOf
    <3>4. screen'.top = 0 /\ screen'.bottom = q - 1
      BY <1>0, <2>3 DEF ScreenOf
    <3> QED
      BY <2>2, <3>1, <3>2, <3>3, <3>4 DEF Sized
  <2>12. AltHasPage'
    BY <1>0, <2>3, <2>6 DEF AltHasPage, ScreenOf
  <2>13. MainKnown'
    <3>1. main \in [page : {main.page}, cursor : SavedCursor, saved : SavedCursor]
      BY DEF ScreenInv, MainKnown
    <3> DEFINE p == IF main.page = NoPage THEN main.page ELSE Reshape(main.page, d, q)
               u == [x |-> Lowest(main.cursor.x, d - 1), y |-> Lowest(main.cursor.y, q - 1), wrap |-> main.cursor.wrap]
    <3>7. main' = [main EXCEPT !.page = p, !.cursor = u]
      BY <2>2, <3>1
    <3>8. u \in SavedCursor
      <4>1. \A i \in Nat : Lowest(i, d - 1) \in Nat /\ Lowest(i, q - 1) \in Nat
        BY <2>2 DEF Lowest
      <4> QED
        BY <3>1, <4>1 DEF SavedCursor
    <3> HIDE DEF p, u
    <3>9. main'.page = p /\ main'.cursor = u /\ main'.saved = main.saved
      BY <3>1, <3>7
    <3>6. main' \in [page : {main'.page}, cursor : SavedCursor, saved : SavedCursor]
      BY <3>1, <3>7, <3>8, <3>9
    <3>2. /\ main'.page = (IF main.page = NoPage THEN NoPage ELSE Reshape(main.page, d, q))
          /\ main'.cursor = [x |-> Lowest(main.cursor.x, d - 1), y |-> Lowest(main.cursor.y, q - 1), wrap |-> main.cursor.wrap]
          /\ main'.saved = main.saved
      BY <3>9 DEF p, u
    <3>4. ASSUME screen.alt
          PROVE  k = main'.page /\ pc = main'.cursor /\ screen.parked_decsc = main'.saved
      BY <1>0, <1>1, <2>4, <2>9, <3>2, <3>4 DEF ScreenInv, MainKnown, k
    <3>5. /\ screen'.alt = screen.alt /\ screen'.parked = k
          /\ screen'.parked_cursor = pc /\ screen'.parked_decsc = screen.parked_decsc
      BY <1>0, <2>3 DEF ScreenOf
    <3> QED
      BY <3>4, <3>5, <3>6 DEF MainKnown
  <2>14. WidePaired' /\ Ring(back')
    BY <1>0, <2>2, <2>3, <2>5, <2>6 DEF ScreenInv, WidePaired, ScreenOf
  <2> QED
    BY <2>11, <2>12, <2>13, <2>14 DEF ScreenInv
<1> QED
  BY <1>2, <1>3, <1>4, <1>5

(* The history takes the first line of the page, or nothing. *)
LEMMA FedBackFacts ==
  ASSUME ScreenInv
  PROVE  Ring(FedBack(back, screen))
<1>1. screen.cols \in Nat /\ screen.grid[0] \in Row(screen.cols)
  BY DEF ScreenInv, Sized, ScreenOf, Page
<1>2. Ring(back)
  BY DEF ScreenInv
<1> QED
  BY <1>1, <1>2, PushLineFacts DEF FedBack

(* The user's gestures move the view only. *)
LEMMA LookInv ==
  ASSUME ScreenInv, LookBack \/ LookForward \/ Type
  PROVE  ScreenInv'
<1>0. Steps \subseteq Nat \ {0}
  BY ScreenAssumption DEF ScreenAssumption
<1>1. UNCHANGED <<screen, main, halved>>
  BY DEF LookBack, LookForward, Type
<1>2. SUFFICES Ring(back')
  BY <1>1 DEF ScreenInv, AltHasPage, MainKnown, WidePaired
<1>3. SUFFICES \E o \in Nat : o <= back.size /\ back' = [back EXCEPT !.offset = o]
  BY DEF ScreenInv, Ring
<1>4. back.offset \in Nat /\ back.size \in Nat /\ back.offset <= back.size
  BY ScreenAssumption DEF ScreenInv, Ring, ScreenAssumption
<1>5. CASE LookBack
  <2>1. PICK n \in Steps : back' = [back EXCEPT !.offset = Lowest(back.offset + n, back.size)]
    BY <1>5 DEF LookBack
  <2>2. Lowest(back.offset + n, back.size) \in Nat /\ Lowest(back.offset + n, back.size) <= back.size
    BY <1>0, <1>4 DEF Lowest
  <2> QED
    BY <2>1, <2>2
<1>6. CASE LookForward
  <2>1. PICK n \in Steps : back' = [back EXCEPT !.offset = Highest(back.offset - n, 0)]
    BY <1>6 DEF LookForward
  <2>2. Highest(back.offset - n, 0) \in Nat /\ Highest(back.offset - n, 0) <= back.size
    BY <1>0, <1>4 DEF Highest
  <2> QED
    BY <2>1, <2>2
<1>7. CASE Type
  BY <1>4, <1>7 DEF Type
<1> QED
  BY <1>5, <1>6, <1>7

(* The new screen. *)
LEMMA InitInv == Init => ScreenInv
<1>1. SUFFICES ASSUME Init PROVE ScreenInv
  OBVIOUS
<1>0. /\ Sizes \subseteq (Nat \ {0, 1}) \X (Nat \ {0}) /\ Capacity \in Nat
  BY ScreenAssumption DEF ScreenAssumption
<1>2. PICK c \in Nat \ {0, 1}, r \in Nat \ {0} : screen = NewScreen(<<c, r>>)
  <2>1. PICK size \in Sizes : screen = NewScreen(size)
    BY <1>1 DEF Init
  <2>2. size[1] \in Nat \ {0, 1} /\ size[2] \in Nat \ {0} /\ size = <<size[1], size[2]>>
    BY <1>0
  <2> QED
    BY <2>1, <2>2
<1>3. /\ BlankPage(c, r) \in Page(c, r) /\ Paired(BlankPage(c, r))
      /\ ResetTabs(c) \in SUBSET (0..(c - 1)) /\ Origin \in SavedCursor
      /\ Origin \in [x : 0..(c - 1), y : 0..(r - 1), wrap : BOOLEAN]
      /\ 0 \in 0..(c - 1) /\ 0 \in 0..(r - 1) /\ r - 1 \in 0..(r - 1) /\ 0 <= r - 1
  BY <1>2, BlankPageFacts DEF ResetTabs, Origin, SavedCursor
<1>4. Sized(screen)
  <2> DEFINE g == BlankPage(c, r)
             t == ResetTabs(c)
             b == r - 1
  <2>1. screen = [cols |-> c, rows |-> r, grid |-> g,
                  cx |-> 0, cy |-> 0, wrap_pending |-> FALSE, top |-> 0, bottom |-> b,
                  autowrap |-> TRUE, tabs |-> t, saved |-> Origin,
                  alt |-> FALSE, parked |-> NoPage, parked_cursor |-> Origin, parked_decsc |-> Origin]
    BY <1>2 DEF NewScreen
  <2>2. g \in Page(c, r) /\ t \in SUBSET (0..(c - 1)) /\ b \in 0..(r - 1) /\ 0 <= b
    BY <1>3
  <2> HIDE DEF g, t, b
  <2>3. screen \in ScreenOf(c, r)
    BY <1>3, <2>1, <2>2 DEF ScreenOf
  <2>4. screen.cols = c /\ screen.rows = r /\ screen.top = 0 /\ screen.bottom = b
    BY <2>1
  <2> QED
    BY <1>2, <2>2, <2>3, <2>4 DEF Sized
<1>5. AltHasPage /\ WidePaired
  BY <1>2, <1>3, PairedNoPage DEF AltHasPage, WidePaired, NewScreen
<1>6. MainKnown
  BY <1>1, <1>2, <1>3 DEF Init, MainKnown, NewScreen
<1>7. Ring(back)
  <2>1. <<>> \in Seq(Cell)
    OBVIOUS
  <2> QED
    BY <1>0, <1>1, <2>1 DEF Init, Ring, NewScrollback
<1> QED
  BY <1>4, <1>5, <1>6, <1>7 DEF ScreenInv

(* What one order does to the page in front, save those of SwitchInv. *)
LEMMA OrderFacts ==
  ASSUME ScreenInv,
         (\E w \in 1..2 : Draw(w)) \/ Moves \/ Edits \/ SetAutowrap
  PROVE  /\ Edited(screen, screen', screen.cols, screen.rows) /\ screen'.top <= screen'.bottom
         /\ ~halved' => ~halved /\ (Paired(screen.grid) => Paired(screen'.grid))
         /\ EraseDisplay \/ Still(screen, screen')
         /\ main' = main
<1>0. Sized(screen)
  BY DEF ScreenInv
<1>1. CASE \E w \in 1..2 : Draw(w)
  BY <1>0, <1>1, DrawOrders DEF Good, Draw
<1>2. CASE CarriageReturn \/ Backspace \/ Tab \/ MoveTo \/ (\E n \in 1..2 : MoveLeft(n)) \/ RestoreCursor
  BY <1>0, <1>2, CursorOrders
     DEF Good, CarriageReturn, Backspace, Tab, MoveTo, MoveLeft, RestoreCursor, Becomes
<1>3. CASE LineFeed \/ NextLine \/ ReverseIndex
  BY <1>0, <1>3, LineOrders DEF Good, LineFeed, NextLine, ReverseIndex, Becomes
<1>4. CASE SetTabs \/ SaveCursor \/ SetScrollRegion \/ SetAutowrap
  <2>1. main' = main /\ halved' = halved
    BY <1>4 DEF SetTabs, SaveCursor, SetScrollRegion, SetAutowrap, Becomes
  <2> QED
    BY <1>0, <1>4, <2>1, ModeOrders DEF Good
<1>5. CASE EraseLine \/ EraseChars \/ Insert
  BY <1>0, <1>5, RowOrders DEF Good, EraseLine, EraseChars, Insert, Becomes
<1>6. CASE Delete
  <2>1. ~halved' => ~halved
    BY <1>6 DEF Delete
  <2> QED
    BY <1>0, <1>6, <2>1, DeleteOrder DEF Delete
<1>7. CASE EraseDisplay \/ \E n \in 1..2 : InsertLines(n) \/ DeleteLines(n)
  BY <1>0, <1>7, PageOrders DEF Good, EraseDisplay, InsertLines, DeleteLines, Becomes
<1> QED
  BY <1>1, <1>2, <1>3, <1>4, <1>5, <1>6, <1>7 DEF Moves, Edits

(* What becomes of the history meanwhile. *)
LEMMA OrderBack ==
  ASSUME (\E w \in 1..2 : Draw(w)) \/ Moves \/ Edits \/ SetAutowrap
  PROVE  back' = back \/ (back' = FedBack(back, screen) /\ ((\E w \in 1..2 : Draw(w) /\ Wraps(screen, w)) \/ LineFeed \/ NextLine))
<1>1. CASE \E w \in 1..2 : Draw(w)
  BY <1>1 DEF Draw
<1>2. CASE Moves \/ SetAutowrap
  BY <1>2 DEF Moves, SetAutowrap, CarriageReturn, LineFeed, NextLine, ReverseIndex, Backspace, Tab,
              SetTabs, MoveTo, MoveLeft, SaveCursor, RestoreCursor, SetScrollRegion, Becomes
<1>3. CASE Edits
  BY <1>3 DEF Edits, EraseLine, EraseDisplay, EraseChars, Insert, Delete, InsertLines, DeleteLines, Becomes
<1> QED
  BY <1>1, <1>2, <1>3

(* Every step keeps the invariant. *)
LEMMA NextInv == ScreenInv /\ [Next]_vars => ScreenInv'
<1>1. SUFFICES ASSUME ScreenInv, [Next]_vars PROVE ScreenInv'
  OBVIOUS
<1>2. CASE UNCHANGED vars
  BY <1>1, <1>2 DEF vars, ScreenInv, AltHasPage, MainKnown, WidePaired
<1>3. CASE (\E w \in 1..2 : Draw(w)) \/ Moves \/ Edits \/ SetAutowrap
  <2>1. Ring(back')
    BY <1>1, <1>3, OrderBack, FedBackFacts DEF ScreenInv
  <2> QED
    BY <1>1, <1>3, <2>1, OrderFacts, EditInv
<1>4. CASE EnterAltScreen \/ LeaveAltScreen \/ Resize
  BY <1>1, <1>4, SwitchInv
<1>5. CASE LookBack \/ LookForward \/ Type
  BY <1>1, <1>5, LookInv
<1> QED
  BY <1>1, <1>2, <1>3, <1>4, <1>5 DEF Next, Switches

-----------------------------------------------------------------------------
(* Whatever the program prints and however the user resizes the window,    *)
(* the cursor and the region are on the page, the page has the window's    *)
(* size, the main page waits exactly while the alternate one is in front,  *)
(* and the view of the history is within its ring: the indices screen.cpp  *)
(* and scrollback.cpp use without a check are in range.                    *)
THEOREM ScreenInvariant == Spec => []ScreenInv
<1>1. Init => ScreenInv
  BY InitInv
<1>2. ScreenInv /\ [Next]_vars => ScreenInv'
  BY NextInv
<1> QED
  BY <1>1, <1>2, PTL DEF Spec

(* No order leaves half of a wide character, on the page in front or on    *)
(* the one that waits, save the one delete_chars() of Halves.              *)
THEOREM WideAlwaysPaired == Spec => []WidePaired
<1>1. ScreenInv => WidePaired
  BY DEF ScreenInv
<1> QED
  BY <1>1, ScreenInvariant, PTL

(* leave_alt_screen() brings the main page back as it was left, cut to the *)
(* window's size, with its cursor and its saved cursor.                    *)
THEOREM MainPageComesBack == Spec => MainPageKept
<1>1. ScreenInv /\ [Next]_vars =>
        [screen.alt /\ ~screen'.alt =>
           /\ screen'.grid = main.page /\ Cursor(screen') = main.cursor
           /\ screen'.saved = main.saved]_vars
  <2>1. SUFFICES ASSUME ScreenInv, [Next]_vars, screen.alt, ~screen'.alt
                 PROVE  /\ screen'.grid = main.page /\ Cursor(screen') = main.cursor
                        /\ screen'.saved = main.saved
    OBVIOUS
  <2>2. ~(UNCHANGED screen)
    BY <2>1
  <2>3. ~((\E w \in 1..2 : Draw(w)) \/ Moves \/ Edits \/ SetAutowrap)
    BY <2>1, OrderFacts DEF Edited
  <2>4. ~EnterAltScreen
    BY <2>1, <2>2 DEF EnterAltScreen, EntersAlt
  <2>5. ~Resize
    <3>1. ASSUME NEW d, NEW q, screen' = Resized(screen, d, q) PROVE screen'.alt
      BY <2>1, <3>1 DEF ScreenInv, Sized, ScreenOf, Resized
    <3> QED
      BY <2>1, <3>1 DEF Resize
  <2>6. LeaveAltScreen
    BY <2>1, <2>2, <2>3, <2>4, <2>5 DEF Next, Switches, LookBack, LookForward, Type, vars
  <2>7. /\ screen'.grid = screen.parked /\ screen'.saved = screen.parked_decsc
        /\ screen'.cx = screen.parked_cursor.x /\ screen'.cy = screen.parked_cursor.y
        /\ screen'.wrap_pending = screen.parked_cursor.wrap
    BY <2>1, <2>6 DEF LeaveAltScreen, Becomes, ScreenInv, Sized, ScreenOf
  <2>8. Cursor(screen') = screen.parked_cursor
    BY <2>1, <2>7 DEF Cursor, ScreenInv, Sized, ScreenOf
  <2> QED
    BY <2>1, <2>7, <2>8 DEF ScreenInv, MainKnown
<1> QED
  BY <1>1, ScreenInvariant, PTL DEF Spec, MainPageKept

(* Line feeds, wrapped text, inserted and deleted lines do not reach what  *)
(* stands outside of the region that scrolls.                              *)
THEOREM OutsideStaysStill == Spec => OutsideRegionStill
<1>1. ScreenInv /\ [Next]_vars =>
        [ \/ EraseDisplay \/ EnterAltScreen \/ LeaveAltScreen \/ Resize
          \/ \A y \in Rows(screen) \ (screen.top..screen.bottom \cup {screen.cy, screen'.cy}) :
               screen'.grid[y] = screen.grid[y] ]_vars
  <2>1. SUFFICES ASSUME ScreenInv, Next,
                        ~(EraseDisplay \/ EnterAltScreen \/ LeaveAltScreen \/ Resize)
                 PROVE  Still(screen, screen')
    BY DEF Still
  <2>2. CASE (\E w \in 1..2 : Draw(w)) \/ Moves \/ Edits \/ SetAutowrap
    BY <2>1, <2>2, OrderFacts
  <2>3. CASE LookBack \/ LookForward \/ Type
    BY <2>3 DEF LookBack, LookForward, Type, Still
  <2> QED
    BY <2>1, <2>2, <2>3 DEF Next, Switches
<1> QED
  BY <1>1, ScreenInvariant, PTL DEF Spec, OutsideRegionStill

-----------------------------------------------------------------------------
(* The view of the history *)

(* The places of the ring: where h + k of them are, seen from the first. *)
Place(h, k, n) == IF h + k < n THEN h + k ELSE h + k - n

(* The index the code computes modulo the capacity is that place. *)
LEMMA RingPlace ==
  ASSUME NEW n \in Nat \ {0}
  PROVE  \A h \in 0..(n - 1), k \in 0..n : (h + k) % n = Place(h, k, n)
<1>1. \A x \in 0..(n - 1) : x % n = x /\ (x + n) % n = x
  OBVIOUS
<1>2. ASSUME NEW h \in 0..(n - 1), NEW k \in 0..n PROVE (h + k) % n = Place(h, k, n)
  <2>1. CASE h + k < n
    <3>1. h + k \in 0..(n - 1)
      BY <2>1
    <3> QED
      BY <1>1, <2>1, <3>1 DEF Place
  <2>2. CASE ~(h + k < n)
    <3>1. h + k - n \in 0..(n - 1) /\ (h + k - n) + n = h + k
      BY <2>2
    <3>2. ((h + k - n) + n) % n = h + k - n
      BY <1>1, <3>1
    <3> QED
      BY <2>2, <3>1, <3>2 DEF Place
  <2> QED
    BY <2>1, <2>2
<1> QED
  BY <1>2

(* Before the ring is full, a line goes to a place of its own. *)
LEMMA RingGrows ==
  ASSUME NEW n \in Nat \ {0}, NEW h \in 0..(n - 1), NEW z \in 0..(n - 1), NEW k \in 0..(z - 1)
  PROVE  (h + k) % n \in 0..(n - 1) /\ (h + z) % n \in 0..(n - 1) /\ (h + k) % n # (h + z) % n
<1>1. k \in 0..n /\ z \in 0..n
  OBVIOUS
<1>2. (h + k) % n = Place(h, k, n) /\ (h + z) % n = Place(h, z, n)
  BY <1>1, RingPlace
<1>3. Place(h, k, n) \in 0..(n - 1) /\ Place(h, z, n) \in 0..(n - 1) /\ Place(h, k, n) # Place(h, z, n)
  BY DEF Place
<1> QED
  BY <1>2, <1>3

(* The places seen from the head h, and from the next one, g. *)
Turned(g, h, n) ==
  /\ (g + (n - 1)) % n = h
  /\ \A k \in 1..(n - 1) :
       (g + (k - 1)) % n = (h + k) % n /\ (h + k) % n # h /\ (h + k) % n \in 0..(n - 1)

(* Once it is full, the head moves on and the line takes its place. *)
LEMMA RingTurns ==
  ASSUME NEW n \in Nat \ {0}, NEW h \in 0..(n - 1), NEW g, g = (h + 1) % n
  PROVE  Turned(g, h, n)
<1>1. g = Place(h, 1, n) /\ 1 \in 0..n /\ n - 1 \in 0..n
  <2>1. 1 \in 0..n /\ n - 1 \in 0..n
    OBVIOUS
  <2> QED
    BY <2>1, RingPlace
<1>2. g \in 0..(n - 1)
  BY <1>1 DEF Place
<1>3. (g + (n - 1)) % n = Place(g, n - 1, n)
  BY <1>1, <1>2, RingPlace
<1>4. Place(g, n - 1, n) = h
  BY <1>1 DEF Place
<1>5. ASSUME NEW k \in 1..(n - 1)
      PROVE  (g + (k - 1)) % n = (h + k) % n /\ (h + k) % n # h /\ (h + k) % n \in 0..(n - 1)
  <2>1. k \in 0..n /\ k - 1 \in 0..n
    OBVIOUS
  <2>2. (h + k) % n = Place(h, k, n) /\ (g + (k - 1)) % n = Place(g, k - 1, n)
    BY <1>2, <2>1, RingPlace
  <2>3. Place(g, k - 1, n) = Place(h, k, n) /\ Place(h, k, n) # h /\ Place(h, k, n) \in 0..(n - 1)
    BY <1>1 DEF Place
  <2> QED
    BY <2>2, <2>3
<1> QED
  BY <1>3, <1>4, <1>5 DEF Turned

(* push_line(), seen by who looks back: the same lines, and below them the *)
(* one that has just left the page.                                        *)
LEMMA PushLineView ==
  ASSUME NEW b, Ring(b), NEW row, b.offset \in 1..(Capacity - 1),
         NEW a, a = PushLine(b, row)
  PROVE  /\ a.offset = b.offset + 1
         /\ \A y \in 0..(b.offset - 1) : LineAt(a, a.size - a.offset + y) = LineAt(b, b.size - b.offset + y)
         /\ LineAt(a, a.size - a.offset + b.offset) = Trim(row)
<1> DEFINE line == Trim(row)
<1>0. PICK n \in Nat \ {0}, h \in Nat, z \in Nat, o \in Nat :
        /\ n = Capacity /\ h = b.head /\ z = b.size /\ o = b.offset /\ o <= z
        /\ h \in 0..(n - 1) /\ z \in 0..n /\ o \in 1..(n - 1)
  <2>1. Capacity \in Nat
    BY ScreenAssumption DEF ScreenAssumption
  <2>2. Capacity # 0
    BY <2>1
  <2>3. /\ Capacity \in Nat \ {0} /\ b.head \in Nat /\ b.size \in Nat /\ b.offset \in Nat
        /\ b.offset <= b.size /\ b.head \in 0..(Capacity - 1) /\ b.size \in 0..Capacity
    BY <2>1, <2>2 DEF Ring
  <2> QED
    BY <2>3
<1>1. DOMAIN b.ring = 0..(n - 1)
  BY <1>0 DEF Ring
<1> HIDE DEF line
<1>2. CASE z < n
  <2> DEFINE i == (h + z) % n
             ring == [b.ring EXCEPT ![i] = line]
             e == [b EXCEPT !.ring = ring, !.size = z + 1]
  <2>1. a = Follow(e)
    BY <1>0, <1>2 DEF PushLine, Ring, line
  <2>2. e.ring = ring /\ e.head = h /\ e.size = z + 1 /\ e.offset = o
    BY <1>0 DEF Ring
  <2>3. a = [e EXCEPT !.offset = Lowest(o + 1, z + 1)]
    BY <1>0, <2>1, <2>2 DEF Follow
  <2>4. Lowest(o + 1, z + 1) = o + 1
    BY <1>0 DEF Lowest
  <2>5. a.ring = ring /\ a.head = h /\ a.size = z + 1 /\ a.offset = o + 1
    BY <2>2, <2>3, <2>4 DEF Ring
  <2> HIDE DEF e
  <2>6. i \in 0..(n - 1)
    BY <1>0
  <2>7. ASSUME NEW y \in 0..(o - 1)
        PROVE  LineAt(a, a.size - a.offset + y) = LineAt(b, b.size - b.offset + y)
    <3>0. z - o + y \in 0..(z - 1) /\ z + 1 - (o + 1) + y = z - o + y
      BY <1>0
    <3>4. PICK k \in 0..(z - 1) : k = z - o + y
      BY <3>0
    <3>1. z + 1 - (o + 1) + y = k /\ z - o + y = k /\ ~(k >= z) /\ ~(k >= z + 1)
      BY <3>0, <3>4
    <3>2. (h + k) % n \in 0..(n - 1) /\ (h + k) % n # i
      <4>1. z \in 0..(n - 1)
        BY <1>0, <1>2
      <4>2. n \in Nat \ {0} /\ h \in 0..(n - 1) /\ k \in 0..(z - 1)
        BY <1>0
      <4> HIDE DEF ring, e
      <4> QED
        BY <4>1, <4>2, RingGrows, Zenon
    <3>3. ring[(h + k) % n] = b.ring[(h + k) % n]
      BY <1>1, <3>2
    <3> HIDE DEF ring
    <3>5. LineAt(a, k) = ring[(h + k) % n]
      BY <1>0, <2>5, <3>1 DEF LineAt
    <3>6. LineAt(b, k) = b.ring[(h + k) % n]
      BY <1>0, <3>1 DEF LineAt
    <3>7. a.size - a.offset + y = k /\ b.size - b.offset + y = k
      BY <1>0, <2>5, <3>1
    <3> QED
      BY <3>3, <3>5, <3>6, <3>7
  <2>8. LineAt(a, a.size - a.offset + b.offset) = line
    <3>1. z + 1 - (o + 1) + o = z /\ ~(z >= z + 1)
      BY <1>0
    <3>2. ring[i] = line
      BY <1>0, <1>1, <2>6
    <3> HIDE DEF ring
    <3>3. LineAt(a, z) = ring[i]
      BY <1>0, <2>5, <3>1 DEF LineAt
    <3>4. a.size - a.offset + b.offset = z
      BY <1>0, <2>5, <3>1
    <3> QED
      BY <3>2, <3>3, <3>4
  <2> QED
    BY <1>0, <2>5, <2>7, <2>8 DEF line
<1>3. CASE ~(z < n)
  <2> DEFINE ring == [b.ring EXCEPT ![h] = line]
             g == (h + 1) % n
             e == [b EXCEPT !.ring = ring, !.head = g]
  <2>0. z = n
    BY <1>0, <1>3
  <2>1. a = Follow(e)
    BY <1>0, <1>3 DEF PushLine, Ring, line
  <2>2. e.ring = ring /\ e.head = g /\ e.size = n /\ e.offset = o
    BY <1>0, <2>0 DEF Ring
  <2>3. a = [e EXCEPT !.offset = Lowest(o + 1, n)]
    <3> HIDE DEF e
    <3>1. o > 0
      BY <1>0
    <3> QED
      BY <2>1, <2>2, <3>1 DEF Follow
  <2>4. Lowest(o + 1, n) = o + 1
    BY <1>0 DEF Lowest
  <2>5. a.ring = ring /\ a.head = g /\ a.size = n /\ a.offset = o + 1
    BY <2>2, <2>3, <2>4 DEF Ring
  <2> HIDE DEF e
  <2>6. /\ (g + (n - 1)) % n = h
        /\ \A k \in 1..(n - 1) :
              (g + (k - 1)) % n = (h + k) % n /\ (h + k) % n # h /\ (h + k) % n \in 0..(n - 1)
    <3>1. g = (h + 1) % n
      OBVIOUS
    <3> HIDE DEF g
    <3>2. n \in Nat \ {0} /\ h \in 0..(n - 1)
      BY <1>0
    <3>3. Turned(g, h, n)
      BY <3>1, <3>2, RingTurns
    <3> QED
      BY <3>3 DEF Turned
  <2> HIDE DEF g
  <2>7. ASSUME NEW y \in 0..(o - 1)
        PROVE  LineAt(a, a.size - a.offset + y) = LineAt(b, b.size - b.offset + y)
    <3>0. n - o + y \in 1..(n - 1) /\ n - (o + 1) + y = (n - o + y) - 1
      BY <1>0
    <3>4. PICK k \in 1..(n - 1) : k = n - o + y
      BY <3>0
    <3>1. n - (o + 1) + y = k - 1 /\ n - o + y = k /\ ~(k - 1 >= n) /\ ~(k >= n)
      BY <3>0, <3>4
    <3>2. ring[(h + k) % n] = b.ring[(h + k) % n]
      BY <1>0, <1>1, <2>6
    <3>3. (g + (k - 1)) % n = (h + k) % n
      BY <2>6
    <3> HIDE DEF ring
    <3> QED
      BY <1>0, <2>0, <2>5, <3>1, <3>2, <3>3 DEF LineAt
  <2>8. LineAt(a, a.size - a.offset + b.offset) = line
    <3>1. n - (o + 1) + o = n - 1 /\ ~(n - 1 >= n)
      BY <1>0
    <3>2. ring[h] = line
      BY <1>0, <1>1
    <3> HIDE DEF ring
    <3> QED
      BY <1>0, <2>5, <2>6, <3>1, <3>2 DEF LineAt
  <2> QED
    BY <1>0, <2>5, <2>7, <2>8 DEF line
<1> QED
  BY <1>2, <1>3

(* The page whose first line has left it. *)
Scrolled(s, t) == \A y \in 0..(s.rows - 2) : t.grid[y] = s.grid[y + 1]

(* line_feed() on the last line of a page that scrolls as a whole. *)
LEMMA FedScrolls ==
  ASSUME NEW c \in Nat, NEW r \in Nat \ {0}, NEW s \in ScreenOf(c, r), AtBottom(s), s.top = 0, s.bottom = r - 1
  PROVE  Fed(s).cy = r - 1 /\ Scrolled(s, Fed(s))
<1> DEFINE g == SliceUp(s.grid, 0, r - 1, 1, c)
<1>1. s.cols = c /\ s.rows = r /\ s.grid \in Page(c, r) /\ s.cy = r - 1
  BY DEF ScreenOf, AtBottom
<1>2. \A y \in 0..(r - 2) : g[y] = s.grid[y + 1]
  BY <1>1 DEF SliceUp, Page
<1>3. Fed(s) = [s EXCEPT !.wrap_pending = FALSE, !.grid = g]
  BY <1>1 DEF Fed, ScrollUp, ScreenOf
<1> HIDE DEF g
<1>4. Fed(s).cy = s.cy /\ Fed(s).grid = g
  BY <1>3 DEF ScreenOf
<1> QED
  BY <1>1, <1>2, <1>4 DEF Scrolled

(* "La consultation reste sur CE QU'ELLE MONTRE" (scrollback.cpp): while   *)
(* the user looks back, what the program prints moves nothing in the       *)
(* window, also once the ring is full and reuses its lines.                *)
THEOREM ViewStaysPut == Spec => ViewStays
<1>1. ScreenInv /\ [Next]_vars =>
        [ back.offset \in 1..(Capacity - 1) /\ <<back.ring, back.size>> # <<back'.ring, back'.size>> =>
            \A y \in Rows(screen) : Shown(screen', back', y) = Shown(screen, back, y) ]_vars
  <2>1. SUFFICES ASSUME ScreenInv, [Next]_vars, back.offset \in 1..(Capacity - 1),
                        <<back.ring, back.size>> # <<back'.ring, back'.size>>
                 PROVE  \A y \in Rows(screen) : Shown(screen', back', y) = Shown(screen, back, y)
    OBVIOUS
  <2> DEFINE c == screen.cols
             r == screen.rows
  <2>2. /\ c \in Nat \ {0, 1} /\ r \in Nat \ {0} /\ screen \in ScreenOf(c, r) /\ 0 \in 0..(c - 1)
        /\ Ring(back) /\ Capacity \in Nat /\ back.offset \in Nat
    BY <2>1, ScreenAssumption DEF ScreenInv, Sized, ScreenAssumption
  <2>3. back' # back
    BY <2>1
  <2>4. ~(LookBack \/ LookForward \/ Type)
    BY <2>1, <2>2 DEF LookBack, LookForward, Type, Ring
  <2>5. ~(EnterAltScreen \/ LeaveAltScreen \/ Resize \/ UNCHANGED vars)
    BY <2>3 DEF EnterAltScreen, LeaveAltScreen, Resize, vars, Becomes
  <2>6. /\ back' = FedBack(back, screen)
        /\ (\E w \in 1..2 : Draw(w) /\ Wraps(screen, w)) \/ LineFeed \/ NextLine
    BY <2>1, <2>3, <2>4, <2>5, OrderBack DEF Next, Switches
  <2>7. AtBottom(screen) /\ Recorded(screen) /\ back' = PushLine(back, screen.grid[0])
    BY <2>3, <2>6 DEF FedBack
  <2>8. screen.top = 0 /\ screen.bottom = r - 1
    BY <2>7 DEF Recorded
  <2>9. Scrolled(screen, screen')
    <3>1. CASE LineFeed
      BY <2>2, <2>7, <2>8, <3>1, FedScrolls DEF LineFeed
    <3>2. CASE NextLine
      <4> DEFINE t == [screen EXCEPT !.cx = 0]
      <4>1. /\ t \in ScreenOf(c, r) /\ t.grid = screen.grid /\ t.top = 0 /\ t.bottom = r - 1
            /\ t.cy = screen.cy /\ t.rows = screen.rows
        BY <2>2, <2>8 DEF ScreenOf
      <4>2. screen' = Fed(t) /\ screen.cy = screen.bottom
        BY <2>7, <3>2 DEF NextLine, AtBottom
      <4> HIDE DEF t
      <4>3. AtBottom(t)
        BY <2>8, <4>1, <4>2 DEF AtBottom
      <4>4. Scrolled(t, screen')
        BY <2>2, <4>1, <4>2, <4>3, FedScrolls
      <4> QED
        BY <4>1, <4>4 DEF Scrolled
    <3>3. ASSUME NEW w \in 1..2, Draw(w), Wraps(screen, w) PROVE Scrolled(screen, screen')
      <4> DEFINE f == Fed(screen)
                 t == [f EXCEPT !.cx = 0]
      <4>1. Scrolled(screen, f) /\ f.cy = r - 1 /\ f \in ScreenOf(c, r)
        BY <2>2, <2>7, <2>8, FedScrolls, FedFacts DEF Edited
      <4>2. screen' = Put(t, w)
        BY <3>3 DEF Draw, Fits, Wraps
      <4> HIDE DEF f
      <4>3. t \in ScreenOf(c, r) /\ t.grid = f.grid /\ t.cy = r - 1 /\ t.cx = 0
        BY <2>2, <4>1 DEF ScreenOf
      <4> HIDE DEF t
      <4>4. w = 2 => t.cx + 1 < c
        BY <2>2, <4>3
      <4>5. \A y \in 0..(r - 1) : y # t.cy => Put(t, w).grid[y] = t.grid[y]
        BY <2>2, <4>3, <4>4, PutFacts
      <4> QED
        BY <2>2, <4>1, <4>2, <4>3, <4>5 DEF Scrolled
    <3> QED
      BY <2>6, <3>1, <3>2, <3>3
  <2> DEFINE o == back.offset
             line == Trim(screen.grid[0])
  <2>10. /\ back'.offset = o + 1
         /\ \A y \in 0..(o - 1) : LineAt(back', back'.size - back'.offset + y) = LineAt(back, back.size - o + y)
         /\ LineAt(back', back'.size - back'.offset + o) = line
    BY <2>1, <2>2, <2>7, PushLineView
  <2>11. ASSUME NEW y \in 0..(r - 1) PROVE Shown(screen', back', y) = Shown(screen, back, y)
    <3>1. CASE y < o
      <4>1. y < back'.offset /\ y \in 0..(o - 1)
        BY <2>2, <2>10, <3>1
      <4> QED
        BY <2>10, <3>1, <4>1 DEF Shown
    <3>2. CASE y = o
      <4>1. y < back'.offset /\ ~(y < o) /\ y - o = 0
        BY <2>2, <2>10, <3>2
      <4> QED
        BY <2>10, <3>2, <4>1 DEF Shown
    <3>3. CASE y > o
      <4>1. /\ ~(y < back'.offset) /\ ~(y < o)
            /\ y - back'.offset \in 0..(r - 2) /\ (y - back'.offset) + 1 = y - o
        BY <2>2, <2>10, <3>3
      <4>2. screen'.grid[y - back'.offset] = screen.grid[y - o]
        BY <2>9, <4>1 DEF Scrolled
      <4> QED
        BY <4>1, <4>2 DEF Shown
    <3> QED
      BY <2>2, <3>1, <3>2, <3>3
  <2> QED
    BY <2>11 DEF Rows
<1> QED
  BY <1>1, ScreenInvariant, PTL DEF Spec, ViewStays
=============================================================================
