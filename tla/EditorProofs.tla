----------------------------- MODULE EditorProofs ------------------------------
(***************************************************************************)
(* Type correctness and the two safety invariants of Editor, for every     *)
(* character set, marker set, argument set and bound.                      *)
(*                                                                         *)
(* Neither invariant is inductive.  That LeaveSaveRestriction computes a   *)
(* legal tail needs Hi to be set whenever Lo is; that a second round of    *)
(* self-insert keeps garbage out of the text needs its character to be one.*)
(***************************************************************************)
EXTENDS Editor, SequenceTheorems, FiniteSetTheorems, TLAPS

(***************************************************************************)
(* The gap buffer: what the operators of GapBuffer preserve, and what they *)
(* do to the text, for every buffer.                                       *)
(***************************************************************************)
(* A buffer with every marker of M in its block, and a text free of garbage.*)
Sound(b, M) == /\ WellFormed(b)
               /\ Clean(b)
               /\ \A m \in M : Inside(b, m)

(* g comes of b by an operation that leaves the restriction and the set of   *)
(* markers in use alone, gives up no storage and keeps the buffer sound.     *)
Preserves(b, g, M) == /\ Sound(g, M)
                      /\ g.head = b.head /\ g.tail = b.tail
                      /\ g.size >= b.size
                      /\ \A m \in Marker : g.mark[m] = 0 <=> b.mark[m] = 0

(* The types of the fields, in the form the leaf proofs use. *)
Sizes(b) == /\ b.size \in Nat /\ b.s1 \in Nat /\ b.gap \in Nat /\ b.s2 \in Nat
            /\ b.head \in Nat /\ b.tail \in Nat
            /\ b.size = b.s1 + b.gap + b.s2 /\ b.head >= 1
Cells(b) == \A i \in 1..b.size : b.mem[i] \in Cell
Marks(b) == \A m \in Marker : b.mark[m] \in Nat

LEMMA Fields == ASSUME NEW b, WellFormed(b)
                PROVE  Sizes(b) /\ Cells(b) /\ Marks(b)
BY DEF Sizes, Cells, Marks, WellFormed, Buffer

(* A block described cell by cell is a sequence of cells. *)
LEMMA BlockIsSeq ==
  ASSUME NEW z \in Nat, NEW f \in [1..z -> Cell]
  PROVE  f \in Seq(Cell) /\ Len(f) = z
OBVIOUS

(* Moving the gap left keeps the buffer sound. *)
LEMMA GapLeftSound ==
  ASSUME NEW M \in SUBSET Marker, NEW b, Sound(b, M), NEW n \in 1..b.s1
  PROVE  /\ Preserves(b, GapLeft(b, n), M)
         /\ GapLeft(b, n).s1 = n - 1
         /\ Length(GapLeft(b, n)) = Length(b)
<1> DEFINE g == GapLeft(b, n)
<1>a. WellFormed(b) /\ Sizes(b) /\ Cells(b) /\ Marks(b)
  BY Fields DEF Sound
<1>1. LeftMem(b, n) \in [1..b.size -> Cell]
  BY <1>a DEF Sizes, Cells, LeftMem, Cell
<1>2. LeftMem(b, n) \in Seq(Cell) /\ Len(LeftMem(b, n)) = b.size
  BY <1>1, <1>a, BlockIsSeq DEF Sizes
<1>3. LeftMark(b, n) \in [Marker -> Nat]
  BY <1>a DEF Sizes, Marks, LeftMark
<1>4. /\ g.s1 = n - 1 /\ g.s2 = b.s2 + (b.s1 + 1 - n)
      /\ g.size = b.size /\ g.gap = b.gap /\ g.head = b.head /\ g.tail = b.tail
      /\ g.mem = LeftMem(b, n) /\ g.mark = LeftMark(b, n)
  BY <1>a DEF GapLeft, Buffer, WellFormed
<1>5. n - 1 \in Nat /\ b.s2 + (b.s1 + 1 - n) \in Nat
  BY <1>a DEF Sizes
<1>6. g \in Buffer
  BY <1>a, <1>2, <1>3, <1>5 DEF GapLeft, Buffer, WellFormed
<1> HIDE DEF g
<1>7. WellFormed(g)
  BY <1>a, <1>2, <1>4, <1>6, SMTT(40) DEF WellFormed, Sizes
<1>8. \A i \in 1..Length(b) : CharAt(g, i) = CharAt(b, i)
  <2> TAKE i \in 1..Length(b)
  <2>1. CASE i <= n - 1
    BY <2>1, <1>a, <1>4, SMTT(40) DEF Sizes, CharAt, Length, LeftMem
  <2>2. CASE i \in n..b.s1
    <3>1. /\ i + b.gap \in (n + b.gap)..(b.s1 + b.gap)
          /\ i + b.gap \notin n..(n + b.gap - 1)
          /\ i + b.gap \in 1..b.size
          /\ i + b.gap - b.gap = i
      BY <2>2, <1>a DEF Sizes
    <3>2. LeftMem(b, n)[i + b.gap] = b.mem[i]
      BY <3>1, <2>2, <1>a DEF LeftMem, Sizes
    <3> QED
      BY <3>2, <2>2, <1>a, <1>4 DEF Sizes, CharAt
  <2>3. CASE i > b.s1
    <3>1. /\ i + b.gap \notin (n + b.gap)..(b.s1 + b.gap)
          /\ i + b.gap \notin n..(n + b.gap - 1)
          /\ i + b.gap \in 1..b.size
      BY <2>3, <1>a DEF Sizes, Length
    <3>2. LeftMem(b, n)[i + b.gap] = b.mem[i + b.gap]
      BY <3>1 DEF LeftMem
    <3> QED
      BY <3>2, <2>3, <1>a, <1>4 DEF Sizes, CharAt
  <2> QED
    BY <2>1, <2>2, <2>3, <1>a DEF Sizes, Length
<1>9. ASSUME NEW m \in Marker, Inside(b, m) PROVE Inside(g, m)
  BY <1>9, <1>a, <1>4 DEF Sizes, Marks, Inside, LeftMark
<1>z. \A m \in Marker : g.mark[m] = 0 <=> b.mark[m] = 0
  BY <1>a, <1>4 DEF Sizes, Marks, LeftMark
<1>10. Length(g) = Length(b)
  BY <1>a, <1>4 DEF Sizes, Length
<1>11. Sound(g, M)
  BY <1>7, <1>8, <1>9, <1>10 DEF Sound, Clean
<1>12. g.size >= b.size
  BY <1>a, <1>4 DEF Sizes
<1> QED
  BY <1>4, <1>10, <1>11, <1>12, <1>z DEF Preserves, g

(* Moving the gap right keeps the buffer sound. *)
LEMMA GapRightSound ==
  ASSUME NEW M \in SUBSET Marker, NEW b, Sound(b, M),
         NEW n \in (b.s1 + 2)..(Length(b) + 1)
  PROVE  /\ Preserves(b, GapRight(b, n), M)
         /\ GapRight(b, n).s1 = n - 1
         /\ Length(GapRight(b, n)) = Length(b)
<1> DEFINE g == GapRight(b, n)
<1>a. WellFormed(b) /\ Sizes(b) /\ Cells(b) /\ Marks(b)
  BY Fields DEF Sound
<1>b. n \in Int /\ b.s1 + 2 <= n /\ n <= b.s1 + b.s2 + 1
  BY <1>a DEF Sizes, Length
<1>1. RightMem(b, n) \in [1..b.size -> Cell]
  BY <1>a, <1>b DEF Sizes, Cells, RightMem, Cell
<1>2. RightMem(b, n) \in Seq(Cell) /\ Len(RightMem(b, n)) = b.size
  BY <1>1, <1>a, BlockIsSeq DEF Sizes
<1>3. RightMark(b, n) \in [Marker -> Nat]
  BY <1>a, <1>b DEF Sizes, Marks, RightMark
<1>4. /\ g.s1 = n - 1 /\ g.s2 = b.s2 - (n - 1 - b.s1)
      /\ g.size = b.size /\ g.gap = b.gap /\ g.head = b.head /\ g.tail = b.tail
      /\ g.mem = RightMem(b, n) /\ g.mark = RightMark(b, n)
  BY <1>a DEF GapRight, Buffer, WellFormed
<1>5. n - 1 \in Nat /\ b.s2 - (n - 1 - b.s1) \in Nat
  BY <1>a, <1>b DEF Sizes
<1>6. g \in Buffer
  BY <1>a, <1>2, <1>3, <1>5 DEF GapRight, Buffer, WellFormed
<1> HIDE DEF g
<1>7. WellFormed(g)
  <2>1. b.size = (n - 1) + b.gap + (b.s2 - (n - 1 - b.s1)) /\ b.head >= 1
    BY <1>a, <1>b DEF Sizes
  <2> QED
    BY <2>1, <1>2, <1>4, <1>6 DEF WellFormed
<1>8. \A i \in 1..Length(b) : CharAt(g, i) = CharAt(b, i)
  <2> TAKE i \in 1..Length(b)
  <2>1. CASE i <= b.s1
    BY <2>1, <1>a, <1>b, <1>4, SMTT(40) DEF Sizes, CharAt, Length, RightMem
  <2>2. CASE i \in (b.s1 + 1)..(n - 1)
    BY <2>2, <1>a, <1>b, <1>4, SMTT(40) DEF Sizes, CharAt, Length, RightMem
  <2>3. CASE i >= n
    <3>1. /\ i + b.gap \notin (b.s1 + 1)..(n - 1)
          /\ i + b.gap \notin n..(n + b.gap - 1)
          /\ i + b.gap \in 1..b.size
      BY <2>3, <1>a, <1>b DEF Sizes, Length
    <3>2. RightMem(b, n)[i + b.gap] = b.mem[i + b.gap]
      BY <3>1 DEF RightMem
    <3> QED
      BY <3>2, <2>3, <1>a, <1>b, <1>4 DEF Sizes, CharAt
  <2> QED
    BY <2>1, <2>2, <2>3, <1>a, <1>b DEF Sizes, Length
<1>9. ASSUME NEW m \in Marker, Inside(b, m) PROVE Inside(g, m)
  BY <1>9, <1>a, <1>b, <1>4 DEF Sizes, Marks, Inside, RightMark
<1>z. \A m \in Marker : g.mark[m] = 0 <=> b.mark[m] = 0
  BY <1>a, <1>b, <1>4 DEF Sizes, Marks, RightMark
<1>10. Length(g) = Length(b)
  BY <1>a, <1>b, <1>4 DEF Sizes, Length
<1>11. Sound(g, M)
  BY <1>7, <1>8, <1>9, <1>10 DEF Sound, Clean
<1>12. g.size >= b.size
  BY <1>a, <1>4 DEF Sizes
<1> QED
  BY <1>4, <1>10, <1>11, <1>12, <1>z DEF Preserves, g

(* So does moving it anywhere: GapTo changes neither the text nor the       *)
(* restriction, and leaves the gap where it was asked for.                  *)
LEMMA GapToSound ==
  ASSUME NEW M \in SUBSET Marker, NEW b, Sound(b, M), NEW n \in Nat \ {0}
  PROVE  /\ Preserves(b, GapTo(b, n), M)
         /\ GapTo(b, n).s1 = Lesser(n, Length(b) + 1) - 1
         /\ Length(GapTo(b, n)) = Length(b)
<1> DEFINE to == IF n > Length(b) THEN Length(b) + 1 ELSE n
<1>1. Sizes(b) /\ Length(b) \in Nat /\ to \in 1..(Length(b) + 1)
  BY Fields DEF Sound, Sizes, Length
<1>2. to = Lesser(n, Length(b) + 1)
  BY <1>1 DEF Lesser
<1>3. CASE to = b.s1 + 1
  <2>1. GapTo(b, n) = b /\ b.size >= b.size
    BY <1>1, <1>3 DEF GapTo, Sizes
  <2> QED
    BY <2>1, <1>1, <1>2, <1>3 DEF Preserves, Sizes
<1>4. CASE to <= b.s1
  <2>1. to \in 1..b.s1 /\ to # b.s1 + 1
    BY <1>1, <1>4 DEF Sizes
  <2>2. GapTo(b, n) = GapLeft(b, to)
    BY <2>1, <1>4 DEF GapTo
  <2> QED
    BY <2>1, <2>2, <1>2, GapLeftSound
<1>5. CASE to > b.s1 + 1
  <2>1. to \in (b.s1 + 2)..(Length(b) + 1) /\ to # b.s1 + 1 /\ ~(to <= b.s1)
    BY <1>1, <1>5 DEF Sizes
  <2>2. GapTo(b, n) = GapRight(b, to)
    BY <2>1 DEF GapTo
  <2> QED
    BY <2>1, <2>2, <1>2, GapRightSound
<1> QED
  BY <1>1, <1>3, <1>4, <1>5 DEF Sizes

(* Growing the block keeps the buffer sound. *)
LEMMA WidenedSound ==
  ASSUME NEW M \in SUBSET Marker, NEW b, Sound(b, M), NEW more \in Nat
  PROVE  /\ Preserves(b, Widened(b, more), M)
         /\ Widened(b, more).s1 = b.s1
         /\ Widened(b, more).s2 = b.s2
         /\ Widened(b, more).gap = b.gap + more
<1> DEFINE g == Widened(b, more)
<1>a. WellFormed(b) /\ Sizes(b) /\ Cells(b) /\ Marks(b)
  BY Fields DEF Sound
<1>1. WideMem(b, more) \in [1..(b.size + more) -> Cell]
  BY <1>a DEF Sizes, Cells, WideMem, Cell
<1>2. /\ WideMem(b, more) \in Seq(Cell)
      /\ Len(WideMem(b, more)) = b.size + more
      /\ b.size + more \in Nat /\ b.gap + more \in Nat
  <2>1. b.size + more \in Nat /\ b.gap + more \in Nat
    BY <1>a DEF Sizes
  <2> QED
    BY <2>1, <1>1, BlockIsSeq
<1>3. WideMark(b, more) \in [Marker -> Nat]
  BY <1>a DEF Sizes, Marks, WideMark
<1>4. /\ g.s1 = b.s1 /\ g.s2 = b.s2 /\ g.size = b.size + more
      /\ g.gap = b.gap + more /\ g.head = b.head /\ g.tail = b.tail
      /\ g.mem = WideMem(b, more) /\ g.mark = WideMark(b, more)
  BY <1>a DEF Widened, Buffer, WellFormed
<1>5. g \in Buffer
  BY <1>a, <1>2, <1>3 DEF Widened, Buffer, WellFormed
<1> HIDE DEF g
<1>6. WellFormed(g)
  BY <1>a, <1>2, <1>4, <1>5 DEF WellFormed, Sizes
<1>7. \A i \in 1..Length(b) : CharAt(g, i) = CharAt(b, i)
  <2> TAKE i \in 1..Length(b)
  <2>1. CASE i <= b.s1
    BY <2>1, <1>a, <1>4 DEF Sizes, CharAt, Length, WideMem
  <2>2. CASE i > b.s1
    <3>1. /\ i + (b.gap + more) \in 1..(b.size + more)
          /\ i + (b.gap + more) > b.s1 + b.gap + more
          /\ i + (b.gap + more) - more = i + b.gap
          /\ ~(i + (b.gap + more) <= b.s1)
      BY <2>2, <1>a DEF Sizes, Length
    <3>2. WideMem(b, more)[i + (b.gap + more)] = b.mem[i + b.gap]
      BY <3>1, <1>a, SMTT(40) DEF WideMem, Sizes
    <3> QED
      BY <3>2, <2>2, <1>a, <1>4 DEF Sizes, CharAt
  <2> QED
    BY <2>1, <2>2, <1>a DEF Sizes, Length
<1>8. ASSUME NEW m \in Marker, Inside(b, m) PROVE Inside(g, m)
  BY <1>8, <1>a, <1>4 DEF Sizes, Marks, Inside, WideMark
<1>z. \A m \in Marker : g.mark[m] = 0 <=> b.mark[m] = 0
  BY <1>a, <1>4 DEF Sizes, Marks, WideMark
<1>9. Length(g) = Length(b)
  BY <1>a, <1>4 DEF Sizes, Length
<1>10. Sound(g, M)
  BY <1>6, <1>7, <1>8, <1>9 DEF Sound, Clean
<1>11. g.size >= b.size
  BY <1>a, <1>4 DEF Sizes
<1> QED
  BY <1>4, <1>10, <1>11, <1>z DEF Preserves, g

(* Filling the gap with characters keeps the buffer sound, if they fit. *)
LEMMA FilledSound ==
  ASSUME NEW M \in SUBSET Marker, NEW b, Sound(b, M),
         NEW s \in Seq(Char), Len(s) <= b.gap
  PROVE  /\ Preserves(b, Filled(b, s), M)
         /\ Length(Filled(b, s)) = Length(b) + Len(s)
<1> DEFINE g == Filled(b, s)
<1> DEFINE k == Len(s)
<1>a. WellFormed(b) /\ Sizes(b) /\ Cells(b) /\ Marks(b)
  BY Fields DEF Sound
<1>b. k \in Nat /\ k <= b.gap
  OBVIOUS
<1>c. \A i \in 1..k : s[i] \in Char
  OBVIOUS
<1> HIDE DEF k
<1>0. FilledMem(b, s) = [ i \in 1..b.size |-> IF i \in (b.s1 + 1)..(b.s1 + k)
                                             THEN s[i - b.s1] ELSE b.mem[i] ]
  BY DEF FilledMem, k
<1>1. FilledMem(b, s) \in [1..b.size -> Cell]
  <2> SUFFICES ASSUME NEW i \in 1..b.size, i \in (b.s1 + 1)..(b.s1 + k)
               PROVE  s[i - b.s1] \in Char
    BY <1>0, <1>a DEF Cells, Cell
  <2>1. i - b.s1 \in 1..k
    BY <1>a, <1>b, SMTT(40) DEF Sizes
  <2> QED
    BY <2>1, <1>c
<1>2. FilledMem(b, s) \in Seq(Cell) /\ Len(FilledMem(b, s)) = b.size
  BY <1>1, <1>a, BlockIsSeq DEF Sizes
<1>3. b.s1 + k \in Nat /\ b.gap - k \in Nat
  BY <1>a, <1>b DEF Sizes
<1>4. /\ g.s1 = b.s1 + k /\ g.s2 = b.s2 /\ g.size = b.size
      /\ g.gap = b.gap - k /\ g.head = b.head /\ g.tail = b.tail
      /\ g.mem = FilledMem(b, s) /\ g.mark = b.mark
  BY <1>a DEF Filled, Buffer, WellFormed, k
<1>5. g \in Buffer
  BY <1>a, <1>2, <1>3 DEF Filled, Buffer, WellFormed, k
<1> HIDE DEF g
<1>6. WellFormed(g)
  <2>1. b.size = (b.s1 + k) + (b.gap - k) + b.s2 /\ b.head >= 1
    BY <1>a, <1>b DEF Sizes
  <2> QED
    BY <2>1, <1>2, <1>4, <1>5 DEF WellFormed
<1>7. Length(g) = Length(b) + k
  BY <1>a, <1>b, <1>4 DEF Sizes, Length
<1>8. \A i \in 1..Length(g) : CharAt(g, i) \in Char
  <2> TAKE i \in 1..Length(g)
  <2>1. CASE i <= b.s1
    <3>1. /\ i \in 1..b.size /\ i \notin (b.s1 + 1)..(b.s1 + k)
          /\ ~(i > b.s1 + k) /\ ~(i > b.s1) /\ i \in 1..Length(b)
      BY <2>1, <1>7, <1>a, <1>b DEF Sizes, Length
    <3>2. CharAt(g, i) = CharAt(b, i)
      BY <3>1, <1>0, <1>4 DEF CharAt
    <3> QED
      BY <3>1, <3>2 DEF Sound, Clean
  <2>2. CASE i \in (b.s1 + 1)..(b.s1 + k)
    <3>1. /\ i \in 1..b.size /\ ~(i > b.s1 + k) /\ i - b.s1 \in 1..k
      BY <2>2, <1>a, <1>b, SMTT(40) DEF Sizes
    <3>2. CharAt(g, i) = s[i - b.s1]
      BY <3>1, <2>2, <1>0, <1>4 DEF CharAt
    <3> QED
      BY <3>1, <3>2, <1>c
  <2>3. CASE i > b.s1 + k
    <3>0. i \in Int /\ i <= b.s1 + b.s2 + k /\ i > b.s1 + k
      BY <2>3, <1>7, <1>a, <1>b DEF Sizes, Length
    <3>1. /\ i + (b.gap - k) \in 1..b.size
          /\ i + (b.gap - k) \notin (b.s1 + 1)..(b.s1 + k)
          /\ i - k \in 1..Length(b) /\ i - k > b.s1
          /\ i + (b.gap - k) = (i - k) + b.gap
      <4>1. i + (b.gap - k) >= 1 /\ i + (b.gap - k) <= b.size
        BY <3>0, <1>a, <1>b DEF Sizes
      <4>2. i + (b.gap - k) > b.s1 + k
        BY <3>0, <1>a, <1>b DEF Sizes
      <4>3. i - k >= 1 /\ i - k <= b.s1 + b.s2 /\ i - k > b.s1
        BY <3>0, <1>a, <1>b DEF Sizes
      <4>4. i + (b.gap - k) = (i - k) + b.gap
        BY <3>0, <1>a, <1>b DEF Sizes
      <4> QED
        BY <4>1, <4>2, <4>3, <4>4, <3>0, <1>a, <1>b, SMTT(40) DEF Sizes, Length
    <3>2. FilledMem(b, s)[i + (b.gap - k)] = b.mem[i + (b.gap - k)]
      BY <3>1, <1>0
    <3>3. CharAt(g, i) = CharAt(b, i - k)
      BY <3>1, <3>2, <2>3, <1>4 DEF CharAt
    <3> QED
      BY <3>1, <3>3 DEF Sound, Clean
  <2> QED
    BY <2>1, <2>2, <2>3, <1>7, <1>a, <1>b DEF Sizes, Length
<1>9. Sound(g, M) /\ g.size >= b.size
  BY <1>4, <1>6, <1>8, <1>a DEF Sound, Clean, Inside, Sizes
<1> QED
  BY <1>4, <1>7, <1>9 DEF Preserves, g, k

(* One after the other, two operations that preserve a buffer preserve it. *)
LEMMA PreservesTwice ==
  ASSUME NEW M \in SUBSET Marker, NEW b, NEW g, NEW h,
         Sound(b, M), Preserves(b, g, M), Preserves(g, h, M)
  PROVE  Preserves(b, h, M)
<1>1. Sizes(b) /\ Sizes(g) /\ Sizes(h)
  BY Fields DEF Preserves, Sound
<1> QED
  BY <1>1 DEF Preserves, Sizes

(* What is left of a buffer whose block could not be had. *)
Gone(b) == /\ b \in Buffer /\ Lost(b)
           /\ b.s1 = 0 /\ b.gap = 0 /\ b.s2 = 0 /\ b.mem = << >>

(* An insertion either keeps the buffer sound and makes it as much longer,  *)
(* or loses the text.                                                       *)
LEMMA InsertSound ==
  ASSUME NEW M \in SUBSET Marker, NEW b, Sound(b, M), ~Lost(b),
         NEW n \in Nat \ {0}, NEW s \in Seq(Char), NEW granted \in BOOLEAN
  PROVE  LET g == Insert(b, n, s, granted)
         IN  IF Lost(g) THEN Gone(g) /\ g.head = b.head /\ g.tail = b.tail
             ELSE /\ Preserves(b, g, M)
                  /\ Length(g) = Length(b) + Len(s)
<1> DEFINE at   == GapTo(b, n)
           room == GapRoom(at, Len(s), granted)
           more == Len(s) + GapSlack
<1>a. Sizes(b) /\ Len(s) \in Nat /\ GapSlack \in Nat \ {0} /\ more \in Nat
  BY Fields, GapSlackAssumption DEF Sound
<1>1. Preserves(b, at, M) /\ Length(at) = Length(b)
  BY GapToSound
<1>2. WellFormed(at) /\ Sizes(at) /\ Sound(at, M) /\ ~Lost(at)
  BY <1>1, <1>a, Fields DEF Preserves, Sound, Lost, Sizes
<1>3. Insert(b, n, s, granted) = IF Lost(room) THEN room ELSE Filled(room, s)
  BY DEF Insert
<1> HIDE DEF at
<1>4. CASE at.gap >= Len(s)
  <2>1. room = at
    BY <1>4 DEF GapRoom
  <2>2. Insert(b, n, s, granted) = Filled(at, s)
    BY <2>1, <1>2, <1>3
  <2>3. Len(s) <= at.gap
    BY <1>4, <1>2, <1>a DEF Sizes
  <2>4. Preserves(at, Filled(at, s), M) /\ Length(Filled(at, s)) = Length(at) + Len(s)
    BY <2>3, <1>2, FilledSound
  <2>5. Preserves(b, Filled(at, s), M)
    BY <2>4, <1>1, PreservesTwice
  <2>6. ~Lost(Filled(at, s))
    <3>1. Sizes(Filled(at, s))
      BY <2>4, Fields DEF Preserves, Sound
    <3> QED
      BY <3>1, <2>4, <1>2 DEF Preserves, Lost, Sizes
  <2> QED
    BY <2>2, <2>4, <2>5, <2>6, <1>1
<1>5. CASE ~(at.gap >= Len(s)) /\ granted
  <2> DEFINE w == Widened(at, more)
  <2>1. room = w
    BY <1>5, <1>2 DEF GapRoom
  <2>2. /\ Preserves(at, w, M)
        /\ w.s1 = at.s1 /\ w.s2 = at.s2 /\ w.gap = at.gap + more
    BY <1>2, <1>a, WidenedSound
  <2> HIDE DEF w
  <2>3. Sizes(w) /\ Sound(w, M)
    BY <2>2, Fields DEF Preserves, Sound
  <2>4. Len(s) <= w.gap /\ ~Lost(w) /\ Length(w) = Length(at)
    <3>1. w.size >= at.size
      BY <2>2 DEF Preserves
    <3>2. w.size # 0
      BY <3>1, <2>3, <1>2 DEF Sizes, Lost
    <3>3. Len(s) <= at.gap + (Len(s) + GapSlack)
      BY <1>2, <1>a DEF Sizes
    <3> QED
      BY <3>2, <3>3, <2>2 DEF Lost, Length
  <2>5. Preserves(w, Filled(w, s), M) /\ Length(Filled(w, s)) = Length(w) + Len(s)
    BY <2>3, <2>4, FilledSound
  <2>6. Preserves(b, Filled(w, s), M)
    BY <2>2, <2>3, <2>5, <1>1, <1>2, PreservesTwice
  <2>7. ~Lost(Filled(w, s))
    <3>1. Sizes(Filled(w, s))
      BY <2>5, Fields DEF Preserves, Sound
    <3> QED
      BY <3>1, <2>3, <2>4, <2>5 DEF Preserves, Lost, Sizes
  <2> QED
    BY <2>1, <2>4, <2>5, <2>6, <2>7, <1>1, <1>3
<1>6. CASE ~(at.gap >= Len(s)) /\ ~granted
  <2>1. room = Emptied(at)
    BY <1>6 DEF GapRoom
  <2>2. /\ Emptied(at).size = 0 /\ Emptied(at).s1 = 0 /\ Emptied(at).gap = 0
        /\ Emptied(at).s2 = 0 /\ Emptied(at).mem = << >>
        /\ Emptied(at).head = at.head /\ Emptied(at).tail = at.tail
        /\ Emptied(at) \in Buffer
    <3>1. << >> \in Seq(Cell) /\ 0 \in Nat
      OBVIOUS
    <3> QED
      BY <3>1, <1>2 DEF Emptied, Buffer, WellFormed
  <2>3. Gone(Emptied(at)) /\ Lost(Emptied(at))
    BY <2>2 DEF Gone, Lost
  <2> QED
    BY <2>1, <2>2, <2>3, <1>1, <1>3 DEF Preserves
<1> QED
  BY <1>4, <1>5, <1>6

(* Letting the gap swallow d characters on its edges keeps the buffer sound.*)
LEMMA SwallowedSound ==
  ASSUME NEW M \in SUBSET Marker, NEW b, Sound(b, M),
         NEW s1 \in Nat, NEW s2 \in Nat, NEW d \in Nat,
         s1 <= b.s1, s2 <= b.s2, s1 + s2 + d = Length(b)
  PROVE  /\ Preserves(b, Swallowed(b, s1, s2, d), M)
         /\ Length(Swallowed(b, s1, s2, d)) = Length(b) - d
<1> DEFINE g == Swallowed(b, s1, s2, d)
           mem == [ i \in 1..b.size |->
                      IF i \in (s1 + 1)..(s1 + b.gap + d) THEN Junk ELSE b.mem[i] ]
           mark == [ m \in Marker |->
                       IF b.mark[m] \in (s1 + 1)..(s1 + b.gap + d) THEN s1 + 1
                       ELSE b.mark[m] ]
<1>a. WellFormed(b) /\ Sizes(b) /\ Cells(b) /\ Marks(b)
  BY Fields DEF Sound
<1>b. s1 + s2 + d = b.s1 + b.s2 /\ b.gap + d \in Nat
  BY <1>a DEF Sizes, Length
<1>1. mem \in [1..b.size -> Cell]
  BY <1>a DEF Cells, Cell
<1>2. mem \in Seq(Cell) /\ Len(mem) = b.size
  BY <1>1, <1>a, BlockIsSeq DEF Sizes
<1>3. mark \in [Marker -> Nat]
  BY <1>a DEF Marks
<1>z. \A m \in Marker : mark[m] = 0 <=> b.mark[m] = 0
  BY <1>a DEF Marks, Sizes
<1>i. \A m \in Marker : Inside(b, m) => mark[m] <= b.size + 1
  BY <1>a, <1>b DEF Marks, Sizes, Inside
<1>m. \A i \in 1..b.size : i \notin (s1 + 1)..(s1 + b.gap + d) => mem[i] = b.mem[i]
  OBVIOUS
<1>0. g = [ b EXCEPT !.s1 = s1, !.gap = b.gap + d, !.s2 = s2,
                     !.mem = mem, !.mark = mark ]
  BY DEF Swallowed
<1> HIDE DEF mem, mark, g
<1>4. /\ g.s1 = s1 /\ g.s2 = s2 /\ g.size = b.size
      /\ g.gap = b.gap + d /\ g.head = b.head /\ g.tail = b.tail
      /\ g.mem = mem /\ g.mark = mark
  BY <1>0, <1>a DEF Buffer, WellFormed
<1>5. g \in Buffer
  BY <1>0, <1>a, <1>b, <1>2, <1>3 DEF Buffer, WellFormed
<1>6. WellFormed(g)
  <2>1. b.size = s1 + (b.gap + d) + s2 /\ b.head >= 1
    BY <1>a, <1>b DEF Sizes
  <2> QED
    BY <2>1, <1>2, <1>4, <1>5 DEF WellFormed
<1>7. Length(g) = Length(b) - d
  BY <1>a, <1>b, <1>4 DEF Sizes, Length
<1>8. \A i \in 1..Length(g) : CharAt(g, i) \in Char
  <2> TAKE i \in 1..Length(g)
  <2>0. i \in Int /\ i >= 1 /\ i <= s1 + s2
    BY <1>4 DEF Length
  <2>1. CASE i <= s1
    <3>1. /\ i \in 1..b.size /\ i \notin (s1 + 1)..(s1 + b.gap + d)
          /\ ~(i > s1) /\ ~(i > b.s1) /\ i \in 1..Length(b)
      BY <2>0, <2>1, <1>a, <1>b DEF Sizes, Length
    <3>2. CharAt(g, i) = CharAt(b, i)
      BY <3>1, <1>m, <1>4 DEF CharAt
    <3> QED
      BY <3>1, <3>2 DEF Sound, Clean
  <2>2. CASE i > s1
    <3>1. i + (b.gap + d) >= 1 /\ i + (b.gap + d) <= b.size
      BY <2>0, <2>2, <1>a, <1>b DEF Sizes
    <3>2. i + (b.gap + d) > s1 + b.gap + d
      BY <2>0, <2>2, <1>a DEF Sizes
    <3>3. i + d > b.s1 /\ i + d \in 1..Length(b)
      BY <2>0, <2>2, <1>a, <1>b DEF Sizes, Length
    <3>4. (i + d) + b.gap = i + (b.gap + d)
      BY <2>0, <1>a DEF Sizes
    <3>5. mem[i + (b.gap + d)] = b.mem[i + (b.gap + d)]
      BY <3>1, <3>2, <2>0, <1>a, <1>m DEF Sizes
    <3>6. CharAt(g, i) = CharAt(b, i + d)
      BY <3>3, <3>4, <3>5, <2>2, <1>4 DEF CharAt
    <3> QED
      BY <3>3, <3>6 DEF Sound, Clean
  <2> QED
    BY <2>0, <2>1, <2>2
<1>9. Sound(g, M) /\ g.size >= b.size
  <2>1. b.size >= b.size
    BY <1>a DEF Sizes
  <2> QED
    BY <2>1, <1>4, <1>6, <1>8, <1>i DEF Sound, Clean, Inside
<1> QED
  BY <1>4, <1>7, <1>9, <1>z DEF Preserves, g

(* Deleting forward keeps the buffer sound and never eats into the tail, so *)
(* the place it deletes from stays in the visible text.                     *)
LEMMA DelFrwdSound ==
  ASSUME NEW M \in SUBSET Marker, NEW b, Sound(b, M), b.tail <= Length(b),
         NEW n \in Nat \ {0}, NEW k \in Int
  PROVE  /\ Preserves(b, DelFrwd(b, n, k), M)
         /\ b.tail <= Length(DelFrwd(b, n, k))
         /\ n <= NumCharacters(b) + 1 => n <= NumCharacters(DelFrwd(b, n, k)) + 1
<1>0. Sizes(b)
  BY Fields DEF Sound
<1>s. n <= NumCharacters(b) + 1 => GapTo(b, n).s1 = n - 1
  <2> SUFFICES ASSUME n <= NumCharacters(b) + 1 PROVE Lesser(n, Length(b) + 1) = n
    BY GapToSound
  <2> QED
    BY <1>0 DEF Lesser, NumCharacters, Length, Sizes
<1> DEFINE at == GapTo(b, n)
           d  == Lesser(k, at.s2 - at.tail)
<1>1. Preserves(b, at, M) /\ Length(at) = Length(b) /\ at.tail = b.tail
  BY GapToSound DEF Preserves
<1>2. Sound(at, M) /\ Sizes(at)
  BY <1>1, Fields DEF Preserves, Sound
<1>3. DelFrwd(b, n, k) = IF d > 0 THEN Swallowed(at, at.s1, at.s2 - d, d) ELSE at
  BY DEF DelFrwd
<1>t. n <= NumCharacters(b) + 1 => at.s1 = n - 1
  BY <1>s
<1> HIDE DEF at
<1>4. CASE d > 0
  <2>1. d \in Nat /\ d <= at.s2 - at.tail
    BY <1>2, <1>4 DEF Lesser, Sizes
  <2> HIDE DEF d
  <2>2. /\ at.s2 - d \in Nat /\ at.s2 - d <= at.s2 /\ at.s1 <= at.s1
        /\ at.s1 \in Nat /\ at.s1 + (at.s2 - d) + d = Length(at)
    BY <2>1, <1>2 DEF Sizes, Length
  <2>3. /\ Preserves(at, Swallowed(at, at.s1, at.s2 - d, d), M)
        /\ Length(Swallowed(at, at.s1, at.s2 - d, d)) = Length(at) - d
    <3> DEFINE s2 == at.s2 - d
    <3>1. s2 \in Nat /\ s2 <= at.s2 /\ at.s1 + s2 + d = Length(at)
      BY <2>2
    <3> HIDE DEF s2
    <3>2. /\ Preserves(at, Swallowed(at, at.s1, s2, d), M)
          /\ Length(Swallowed(at, at.s1, s2, d)) = Length(at) - d
      BY <3>1, <2>1, <2>2, <1>2, SwallowedSound
    <3> QED
      BY <3>2 DEF s2
  <2>4. at.tail <= Length(at) - d
    BY <2>1, <1>2 DEF Sizes, Length
  <2>5. n <= NumCharacters(b) + 1 => n <= Length(at) - d - at.tail + 1
    BY <2>1, <1>2, <1>t DEF Sizes, Length
  <2>6. /\ DelFrwd(b, n, k) = Swallowed(at, at.s1, at.s2 - d, d)
        /\ Preserves(b, DelFrwd(b, n, k), M)
    BY <2>3, <1>1, <1>3, <1>4, PreservesTwice
  <2>7. DelFrwd(b, n, k).tail = at.tail /\ Length(DelFrwd(b, n, k)) = Length(at) - d
    BY <2>3, <2>6, <1>1 DEF Preserves
  <2> QED
    BY <2>4, <2>5, <2>6, <2>7, <1>1 DEF NumCharacters
<1>5. CASE ~(d > 0)
  BY <1>1, <1>3, <1>5 DEF NumCharacters
<1> QED
  BY <1>4, <1>5

(* Deleting backward keeps the buffer sound, and leaves the tail alone when *)
(* it starts in the visible text.                                           *)
LEMMA DelBackSound ==
  ASSUME NEW M \in SUBSET Marker, NEW b, Sound(b, M), b.tail <= Length(b),
         NEW n \in Nat \ {0}, n <= NumCharacters(b) + 1, NEW k \in Int
  PROVE  /\ Preserves(b, DelBack(b, n, k), M)
         /\ b.tail <= Length(DelBack(b, n, k))
         /\ k >= 0 => Length(DelBack(b, n, k)) >= Length(b) - k
<1> DEFINE at == GapTo(b, n)
           d  == Lesser(k, at.s1 - at.head + 1)
<1>0. Sizes(b)
  BY Fields DEF Sound
<1>1. Preserves(b, at, M) /\ Length(at) = Length(b) /\ at.tail = b.tail
  BY GapToSound DEF Preserves
<1>s. at.s1 = n - 1
  <2>1. at.s1 = Lesser(n, Length(b) + 1) - 1
    BY GapToSound
  <2>2. Lesser(n, Length(b) + 1) = n
    BY <1>0 DEF Lesser, NumCharacters, Length, Sizes
  <2> QED
    BY <2>1, <2>2
<1>2. Sound(at, M) /\ Sizes(at)
  BY <1>1, Fields DEF Preserves, Sound
<1>3. DelBack(b, n, k) = IF d > 0 THEN Swallowed(at, at.s1 - d, at.s2, d) ELSE at
  BY DEF DelBack
<1> HIDE DEF at
<1>t. at.s2 >= at.tail
  BY <1>0, <1>1, <1>2, <1>s DEF Sizes, Length, NumCharacters
<1>4. CASE d > 0
  <2>1. d \in Nat /\ d <= at.s1 - at.head + 1
    BY <1>2, <1>4 DEF Lesser, Sizes
  <2>a. d <= k
    BY <1>2 DEF Lesser, Sizes
  <2> HIDE DEF d
  <2>2. /\ at.s1 - d \in Nat /\ at.s1 - d <= at.s1 /\ at.s2 <= at.s2
        /\ at.s2 \in Nat /\ (at.s1 - d) + at.s2 + d = Length(at)
    BY <2>1, <1>2 DEF Sizes, Length
  <2>3. /\ Preserves(at, Swallowed(at, at.s1 - d, at.s2, d), M)
        /\ Length(Swallowed(at, at.s1 - d, at.s2, d)) = Length(at) - d
    <3> DEFINE s1 == at.s1 - d
    <3>1. s1 \in Nat /\ s1 <= at.s1 /\ s1 + at.s2 + d = Length(at)
      BY <2>2
    <3> HIDE DEF s1
    <3>2. /\ Preserves(at, Swallowed(at, s1, at.s2, d), M)
          /\ Length(Swallowed(at, s1, at.s2, d)) = Length(at) - d
      BY <3>1, <2>1, <2>2, <1>2, SwallowedSound
    <3> QED
      BY <3>2 DEF s1
  <2>4. at.tail <= Length(at) - d
    BY <2>1, <2>2, <1>2, <1>t DEF Sizes, Length
  <2>5. Length(at) - d >= Length(at) - k
    BY <2>1, <2>a, <1>2 DEF Sizes, Length
  <2> QED
    BY <2>3, <2>4, <2>5, <1>1, <1>3, <1>4, PreservesTwice
<1>5. CASE ~(d > 0)
  <2>1. k >= 0 => Length(b) >= Length(b) - k
    BY <1>0 DEF Sizes, Length
  <2> QED
    BY <2>1, <1>1, <1>3, <1>5
<1> QED
  BY <1>4, <1>5

(* Every marker but m is where it was. *)
OthersKept(b, g, m) == \A o \in Marker \ {m} : g.mark[o] = b.mark[o]

(* Setting a marker keeps the buffer sound; the marker is in the block when *)
(* its position is in the text or just past it.                             *)
LEMMA SetMarkSound ==
  ASSUME NEW M \in SUBSET Marker, NEW b, Sound(b, M),
         NEW m \in Marker, NEW pos \in Nat \ {0},
         m \in M => pos <= Length(b) + 1
  PROVE  LET g == SetMark(b, m, pos)
         IN  /\ Sound(g, M) /\ g.mark[m] # 0
             /\ OthersKept(b, g, m)
             /\ g.s1 = b.s1 /\ g.s2 = b.s2 /\ g.size = b.size
             /\ g.head = b.head /\ g.tail = b.tail
<1> DEFINE g == SetMark(b, m, pos)
           p == IF pos > b.s1 + 1 THEN pos + b.gap ELSE pos
<1>a. WellFormed(b) /\ Sizes(b) /\ Marks(b)
  BY Fields DEF Sound
<1>1. p \in Nat /\ p # 0 /\ (m \in M => p <= b.size + 1)
  BY <1>a DEF Sizes, Length
<1>2. g = [ b EXCEPT !.mark[m] = p ]
  BY DEF SetMark
<1> HIDE DEF g, p
<1>3. /\ g.s1 = b.s1 /\ g.s2 = b.s2 /\ g.size = b.size /\ g.gap = b.gap
      /\ g.head = b.head /\ g.tail = b.tail /\ g.mem = b.mem
      /\ g.mark = [ b.mark EXCEPT ![m] = p ] /\ g \in Buffer
  BY <1>1, <1>2, <1>a DEF Buffer, WellFormed
<1>4. g.mark[m] = p /\ \A o \in Marker \ {m} : g.mark[o] = b.mark[o]
  BY <1>3, <1>a DEF WellFormed, Buffer
<1>5. \A n : CharAt(g, n) = CharAt(b, n)
  BY <1>3 DEF CharAt
<1>6. WellFormed(g) /\ Clean(g)
  BY <1>3, <1>5, <1>a DEF WellFormed, Clean, Length, Sound
<1>7. \A o \in M : Inside(g, o)
  BY <1>1, <1>3, <1>4 DEF Inside, Sound
<1> QED
  BY <1>1, <1>3, <1>4, <1>6, <1>7 DEF Sound, OthersKept, g

(***************************************************************************)
(* What the operators do to the text and to the places of the markers in   *)
(* it, for every buffer: moving or widening the gap does nothing that can  *)
(* be seen, filling it inserts, swallowing deletes.                        *)
(***************************************************************************)
(* The same text, with the markers at the same places. *)
Alike(b, g) ==
  /\ Length(g) = Length(b)
  /\ \A i \in 1..Length(b) : CharAt(g, i) = CharAt(b, i)
  /\ \A m \in Marker : ToMark(g, m) = ToMark(b, m)

(* The text with c inserted as its n-th character; a marker that stood     *)
(* there may be before it or behind it.                                    *)
Inserted(b, g, n, c) ==
  /\ Length(g) = Length(b) + 1
  /\ \A i \in 1..Length(g) : CharAt(g, i) = IF i < n THEN CharAt(b, i)
                                            ELSE IF i = n THEN c
                                            ELSE CharAt(b, i - 1)
  /\ \A m \in Marker : \/ ToMark(b, m) < n /\ ToMark(g, m) = ToMark(b, m)
                       \/ ToMark(b, m) > n /\ ToMark(g, m) = ToMark(b, m) + 1
                       \/ ToMark(b, m) = n /\ ToMark(g, m) \in {n, n + 1}

(* The text without the k characters from the n-th on. *)
Removed(b, g, n, k) ==
  /\ Length(g) = Length(b) - k
  /\ \A i \in 1..Length(g) : CharAt(g, i) = IF i < n THEN CharAt(b, i)
                                            ELSE CharAt(b, i + k)
  /\ \A m \in Marker : ToMark(g, m) = IF ToMark(b, m) <= n THEN ToMark(b, m)
                                      ELSE IF ToMark(b, m) <= n + k THEN n
                                      ELSE ToMark(b, m) - k

LEMMA MarkType ==
  ASSUME NEW b, WellFormed(b), NEW m \in Marker
  PROVE  ToMark(b, m) \in Nat /\ (b.mark[m] = 0 <=> ToMark(b, m) = 0)
<1>1. Sizes(b) /\ b.mark[m] \in Nat
  BY Fields DEF Marks
<1> QED
  BY <1>1 DEF ToMark, Position, Sizes

LEMMA GapLeftAlike ==
  ASSUME NEW b, WellFormed(b), NEW n \in 1..b.s1
  PROVE  Alike(b, GapLeft(b, n))
<1> DEFINE g == GapLeft(b, n)
<1>a. b \in Buffer /\ Sizes(b) /\ Marks(b)
  BY Fields DEF WellFormed
<1>1. /\ g.s1 = n - 1 /\ g.s2 = b.s2 + (b.s1 + 1 - n) /\ g.gap = b.gap
      /\ g.mem = LeftMem(b, n) /\ g.mark = LeftMark(b, n)
  BY <1>a DEF GapLeft, Buffer
<1> HIDE DEF g
<1>2. Length(g) = Length(b)
  BY <1>1, <1>a DEF Length, Sizes
<1>3. ASSUME NEW i \in 1..Length(b)
      PROVE  CharAt(g, i) = CharAt(b, i)
  <2>1. i \in Int /\ 1 <= i /\ i <= b.s1 + b.s2
    BY <1>a DEF Length, Sizes
  <2>2. CASE i > n - 1
    <3>1. i + b.gap \in 1..b.size
      BY <2>1, <1>a DEF Sizes
    <3>2. CharAt(g, i) = LeftMem(b, n)[i + b.gap]
      BY <2>2, <1>1 DEF CharAt
    <3>3. LeftMem(b, n)[i + b.gap] = IF i <= b.s1 THEN b.mem[i] ELSE b.mem[i + b.gap]
      BY <3>1, <2>1, <2>2, <1>a, SMTT(40) DEF LeftMem, Sizes
    <3> QED
      BY <3>2, <3>3, <2>1, <1>a DEF CharAt, Sizes
  <2>3. CASE ~(i > n - 1)
    <3>1. i \in 1..b.size
      BY <2>1, <1>a DEF Sizes
    <3>2. CharAt(g, i) = LeftMem(b, n)[i]
      BY <2>3, <1>1 DEF CharAt
    <3>3. LeftMem(b, n)[i] = b.mem[i]
      BY <3>1, <2>1, <2>3, <1>a DEF LeftMem, Sizes
    <3> QED
      BY <3>2, <3>3, <2>1, <2>3, <1>a DEF CharAt, Sizes
  <2> QED
    BY <2>2, <2>3
<1>4. ASSUME NEW m \in Marker
      PROVE  ToMark(g, m) = ToMark(b, m)
  <2>1. b.mark[m] \in Nat
    BY <1>a DEF Marks
  <2>2. g.mark[m] = IF b.mark[m] > b.s1 + b.gap THEN b.mark[m]
                    ELSE IF b.mark[m] > b.s1 THEN b.s1 + b.gap + 1
                    ELSE IF b.mark[m] > n THEN b.mark[m] + b.gap ELSE b.mark[m]
    BY <1>1 DEF LeftMark
  <2> QED
    BY <2>1, <2>2, <1>1, <1>a DEF ToMark, Position, Sizes
<1> QED
  BY <1>2, <1>3, <1>4 DEF Alike, g

LEMMA GapRightAlike ==
  ASSUME NEW b, WellFormed(b), NEW n \in (b.s1 + 2)..(Length(b) + 1)
  PROVE  Alike(b, GapRight(b, n))
<1> DEFINE g == GapRight(b, n)
<1>a. b \in Buffer /\ Sizes(b) /\ Marks(b)
  BY Fields DEF WellFormed
<1>b. n \in Int /\ b.s1 + 2 <= n /\ n <= b.s1 + b.s2 + 1
  BY <1>a DEF Sizes, Length
<1>1. /\ g.s1 = n - 1 /\ g.s2 = b.s2 - (n - 1 - b.s1) /\ g.gap = b.gap
      /\ g.mem = RightMem(b, n) /\ g.mark = RightMark(b, n)
  BY <1>a DEF GapRight, Buffer
<1> HIDE DEF g
<1>2. Length(g) = Length(b)
  BY <1>1, <1>a, <1>b DEF Length, Sizes
<1>3. ASSUME NEW i \in 1..Length(b)
      PROVE  CharAt(g, i) = CharAt(b, i)
  <2>1. i \in Int /\ 1 <= i /\ i <= b.s1 + b.s2
    BY <1>a DEF Length, Sizes
  <2>2. CASE i > n - 1
    <3>1. i + b.gap \in 1..b.size
      BY <2>1, <1>a DEF Sizes
    <3>2. CharAt(g, i) = RightMem(b, n)[i + b.gap]
      BY <2>2, <1>1 DEF CharAt
    <3>3. RightMem(b, n)[i + b.gap] = b.mem[i + b.gap]
      BY <3>1, <2>1, <2>2, <1>a, <1>b DEF RightMem, Sizes
    <3> QED
      BY <3>2, <3>3, <2>1, <2>2, <1>a, <1>b DEF CharAt, Sizes
  <2>3. CASE ~(i > n - 1)
    <3>1. i \in 1..b.size
      BY <2>1, <1>a DEF Sizes
    <3>2. CharAt(g, i) = RightMem(b, n)[i]
      BY <2>3, <1>1 DEF CharAt
    <3>3. RightMem(b, n)[i] = IF i > b.s1 THEN b.mem[i + b.gap] ELSE b.mem[i]
      BY <3>1, <2>1, <2>3, <1>a, <1>b DEF RightMem, Sizes
    <3> QED
      BY <3>2, <3>3, <2>1, <1>a DEF CharAt, Sizes
  <2> QED
    BY <2>2, <2>3
<1>4. ASSUME NEW m \in Marker
      PROVE  ToMark(g, m) = ToMark(b, m)
  <2>1. b.mark[m] \in Nat
    BY <1>a DEF Marks
  <2>2. g.mark[m] = IF b.mark[m] <= b.s1 \/ b.mark[m] > n + b.gap THEN b.mark[m]
                    ELSE IF b.mark[m] > b.s1 + b.gap THEN b.mark[m] - b.gap
                    ELSE b.s1 + 1
    BY <1>1 DEF RightMark
  <2> QED
    BY <2>1, <2>2, <1>1, <1>a, <1>b DEF ToMark, Position, Sizes
<1> QED
  BY <1>2, <1>3, <1>4 DEF Alike, g

(* Wherever the gap goes, nothing is seen of it. *)
LEMMA GapToAlike ==
  ASSUME NEW b, WellFormed(b), NEW n \in Nat \ {0}
  PROVE  Alike(b, GapTo(b, n))
<1> DEFINE to == IF n > Length(b) THEN Length(b) + 1 ELSE n
<1>1. Sizes(b) /\ Length(b) \in Nat /\ to \in 1..(Length(b) + 1)
  BY Fields DEF Sizes, Length
<1>2. GapTo(b, n) = IF to = b.s1 + 1 THEN b
                    ELSE IF to <= b.s1 THEN GapLeft(b, to) ELSE GapRight(b, to)
  BY DEF GapTo
<1> HIDE DEF to
<1>3. CASE to = b.s1 + 1
  BY <1>2, <1>3 DEF Alike
<1>4. CASE to <= b.s1
  <2>1. to \in 1..b.s1 /\ to # b.s1 + 1
    BY <1>1, <1>4 DEF Sizes
  <2> QED
    BY <2>1, <1>2, <1>4, GapLeftAlike
<1>5. CASE to > b.s1 + 1
  <2>1. to \in (b.s1 + 2)..(Length(b) + 1) /\ to # b.s1 + 1 /\ ~(to <= b.s1)
    BY <1>1, <1>5 DEF Sizes
  <2> QED
    BY <2>1, <1>2, GapRightAlike
<1> QED
  BY <1>1, <1>3, <1>4, <1>5 DEF Sizes

LEMMA WidenedAlike ==
  ASSUME NEW b, WellFormed(b), NEW more \in Nat
  PROVE  Alike(b, Widened(b, more))
<1> DEFINE g == Widened(b, more)
<1>a. b \in Buffer /\ Sizes(b) /\ Marks(b)
  BY Fields DEF WellFormed
<1>1. /\ g.s1 = b.s1 /\ g.s2 = b.s2 /\ g.gap = b.gap + more
      /\ g.mem = WideMem(b, more) /\ g.mark = WideMark(b, more)
  BY <1>a DEF Widened, Buffer
<1> HIDE DEF g
<1>2. Length(g) = Length(b)
  BY <1>1 DEF Length
<1>3. ASSUME NEW i \in 1..Length(b)
      PROVE  CharAt(g, i) = CharAt(b, i)
  <2>1. i \in Int /\ 1 <= i /\ i <= b.s1 + b.s2
    BY <1>a DEF Length, Sizes
  <2>2. CASE i > b.s1
    <3>1. i + b.gap + more \in 1..(b.size + more)
      BY <2>1, <1>a DEF Sizes
    <3>2. CharAt(g, i) = WideMem(b, more)[i + b.gap + more]
      BY <2>1, <2>2, <1>1, <1>a DEF CharAt, Sizes
    <3>3. WideMem(b, more)[i + b.gap + more] = b.mem[i + b.gap]
      BY <3>1, <2>1, <2>2, <1>a, SMTT(40) DEF WideMem, Sizes
    <3> QED
      BY <3>2, <3>3, <2>2 DEF CharAt
  <2>3. CASE ~(i > b.s1)
    <3>1. i \in 1..(b.size + more)
      BY <2>1, <1>a DEF Sizes
    <3>2. CharAt(g, i) = WideMem(b, more)[i]
      BY <2>3, <1>1 DEF CharAt
    <3>3. WideMem(b, more)[i] = b.mem[i]
      BY <3>1, <2>1, <2>3, <1>a DEF WideMem, Sizes
    <3> QED
      BY <3>2, <3>3, <2>3 DEF CharAt
  <2> QED
    BY <2>2, <2>3
<1>4. ASSUME NEW m \in Marker
      PROVE  ToMark(g, m) = ToMark(b, m)
  <2>1. b.mark[m] \in Nat
    BY <1>a DEF Marks
  <2>2. g.mark[m] = IF b.mark[m] > b.s1 + b.gap THEN b.mark[m] + more ELSE b.mark[m]
    BY <1>1 DEF WideMark
  <2> QED
    BY <2>1, <2>2, <1>1, <1>a DEF ToMark, Position, Sizes
<1> QED
  BY <1>2, <1>3, <1>4 DEF Alike, g

(* One character put into the gap. *)
LEMMA FilledInserts ==
  ASSUME NEW b, WellFormed(b), b.gap >= 1, NEW c
  PROVE  Inserted(b, Filled(b, << c >>), b.s1 + 1, c)
<1> DEFINE g == Filled(b, << c >>)
<1>a. b \in Buffer /\ Sizes(b) /\ Marks(b)
  BY Fields DEF WellFormed
<1>0. Len(<< c >>) = 1 /\ << c >>[1] = c
  OBVIOUS
<1>1. /\ g.s1 = b.s1 + 1 /\ g.s2 = b.s2 /\ g.gap = b.gap - 1
      /\ g.mem = FilledMem(b, << c >>) /\ g.mark = b.mark
  BY <1>a, <1>0 DEF Filled, Buffer
<1>2. FilledMem(b, << c >>) = [ i \in 1..b.size |-> IF i = b.s1 + 1 THEN c ELSE b.mem[i] ]
  <2>1. FilledMem(b, << c >>)
          = [ i \in 1..b.size |-> IF i \in (b.s1 + 1)..(b.s1 + 1)
                                  THEN << c >>[i - b.s1] ELSE b.mem[i] ]
    BY <1>0 DEF FilledMem
  <2>2. \A i \in 1..b.size : i \in (b.s1 + 1)..(b.s1 + 1) <=> i = b.s1 + 1
    BY <1>a DEF Sizes
  <2>3. (b.s1 + 1) - b.s1 = 1
    BY <1>a DEF Sizes
  <2> QED
    BY <2>1, <2>2, <2>3, <1>0
<1> HIDE DEF g
<1>3. Length(g) = Length(b) + 1
  BY <1>1, <1>a DEF Length, Sizes
<1>4. ASSUME NEW i \in 1..Length(g)
      PROVE  CharAt(g, i) = IF i < b.s1 + 1 THEN CharAt(b, i)
                            ELSE IF i = b.s1 + 1 THEN c ELSE CharAt(b, i - 1)
  <2>1. i \in Int /\ 1 <= i /\ i <= b.s1 + b.s2 + 1
    BY <1>3, <1>a DEF Length, Sizes
  <2>2. CASE i > b.s1 + 1
    <3>1. i + (b.gap - 1) \in 1..b.size /\ i + (b.gap - 1) # b.s1 + 1
      BY <2>1, <2>2, <1>a DEF Sizes
    <3>2. CharAt(g, i) = b.mem[i + (b.gap - 1)]
      BY <3>1, <2>2, <1>1, <1>2, <1>a DEF CharAt, Sizes
    <3>3. CharAt(b, i - 1) = b.mem[(i - 1) + b.gap] /\ (i - 1) + b.gap = i + (b.gap - 1)
      BY <2>1, <2>2, <1>a DEF CharAt, Sizes
    <3> QED
      BY <3>2, <3>3, <2>1, <2>2, <1>a DEF Sizes
  <2>3. CASE ~(i > b.s1 + 1)
    <3>1. i \in 1..b.size
      BY <2>1, <2>3, <1>a DEF Sizes
    <3>2. CharAt(g, i) = IF i = b.s1 + 1 THEN c ELSE b.mem[i]
      BY <3>1, <2>3, <1>1, <1>2 DEF CharAt
    <3>3. i < b.s1 + 1 => CharAt(b, i) = b.mem[i]
      BY <2>1, <1>a DEF CharAt, Sizes
    <3> QED
      BY <3>2, <3>3, <2>1, <2>3, <1>a DEF Sizes
  <2> QED
    BY <2>2, <2>3
<1>5. ASSUME NEW m \in Marker
      PROVE  \/ ToMark(b, m) < b.s1 + 1 /\ ToMark(g, m) = ToMark(b, m)
             \/ ToMark(b, m) > b.s1 + 1 /\ ToMark(g, m) = ToMark(b, m) + 1
             \/ ToMark(b, m) = b.s1 + 1 /\ ToMark(g, m) \in {b.s1 + 1, b.s1 + 1 + 1}
  <2>1. b.mark[m] \in Nat /\ g.mark[m] = b.mark[m]
    BY <1>1, <1>a DEF Marks
  <2> QED
    BY <2>1, <1>1, <1>a DEF ToMark, Position, Sizes
<1> QED
  BY <1>3, <1>4, <1>5 DEF Inserted, g

(* The gap grows over the d characters from the (s1 + 1)-th on. *)
LEMMA SwallowedRemoves ==
  ASSUME NEW b, WellFormed(b), NEW s1 \in Nat, NEW s2 \in Nat, NEW d \in Nat \ {0},
         s1 <= b.s1, s2 <= b.s2, s1 + s2 + d = Length(b)
  PROVE  Removed(b, Swallowed(b, s1, s2, d), s1 + 1, d)
<1> DEFINE g    == Swallowed(b, s1, s2, d)
           mem  == [ i \in 1..b.size |->
                       IF i \in (s1 + 1)..(s1 + b.gap + d) THEN Junk ELSE b.mem[i] ]
           mark == [ m \in Marker |->
                       IF b.mark[m] \in (s1 + 1)..(s1 + b.gap + d) THEN s1 + 1
                       ELSE b.mark[m] ]
<1>a. b \in Buffer /\ Sizes(b) /\ Marks(b)
  BY Fields DEF WellFormed
<1>b. s1 + s2 + d = b.s1 + b.s2
  BY DEF Length
<1>1. /\ g.s1 = s1 /\ g.s2 = s2 /\ g.gap = b.gap + d
      /\ g.mem = mem /\ g.mark = mark
  BY <1>a DEF Swallowed, Buffer
<1> HIDE DEF g
<1>2. Length(g) = Length(b) - d
  BY <1>1, <1>b, <1>a DEF Length, Sizes
<1>3. ASSUME NEW i \in 1..Length(g)
      PROVE  CharAt(g, i) = IF i < s1 + 1 THEN CharAt(b, i) ELSE CharAt(b, i + d)
  <2>1. i \in Int /\ 1 <= i /\ i <= s1 + s2
    BY <1>2, <1>b, <1>a DEF Length, Sizes
  <2>2. CASE i > s1
    <3>1. i + (b.gap + d) \in 1..b.size /\ i + (b.gap + d) \notin (s1 + 1)..(s1 + b.gap + d)
      BY <2>1, <2>2, <1>a, <1>b DEF Sizes
    <3>2. CharAt(g, i) = b.mem[i + (b.gap + d)]
      BY <3>1, <2>2, <1>1 DEF CharAt
    <3>3. CharAt(b, i + d) = b.mem[i + d + b.gap] /\ i + d + b.gap = i + (b.gap + d)
      BY <2>1, <2>2, <1>a, <1>b DEF CharAt, Sizes
    <3> QED
      BY <3>2, <3>3, <2>1, <2>2
  <2>3. CASE ~(i > s1)
    <3>1. i \in 1..b.size /\ i \notin (s1 + 1)..(s1 + b.gap + d) /\ ~(i > b.s1)
      BY <2>1, <2>3, <1>a DEF Sizes
    <3>2. CharAt(g, i) = b.mem[i]
      BY <3>1, <2>3, <1>1 DEF CharAt
    <3> QED
      BY <3>1, <3>2, <2>1, <2>3 DEF CharAt
  <2> QED
    BY <2>2, <2>3
<1>4. ASSUME NEW m \in Marker
      PROVE  ToMark(g, m) = IF ToMark(b, m) <= s1 + 1 THEN ToMark(b, m)
                            ELSE IF ToMark(b, m) <= s1 + 1 + d THEN s1 + 1
                            ELSE ToMark(b, m) - d
  <2>1. b.mark[m] \in Nat
    BY <1>a DEF Marks
  <2>2. g.mark[m] = IF b.mark[m] \in (s1 + 1)..(s1 + b.gap + d) THEN s1 + 1
                    ELSE b.mark[m]
    BY <1>1
  <2>3. g.s1 = s1 /\ g.gap = b.gap + d
    BY <1>1
  <2> DEFINE p == b.mark[m]
             q == g.mark[m]
  <2>4. /\ ToMark(b, m) = IF p <= b.s1 THEN p
                          ELSE IF p <= b.s1 + b.gap THEN b.s1 + 1 ELSE p - b.gap
        /\ ToMark(g, m) = IF q <= s1 THEN q
                          ELSE IF q <= s1 + (b.gap + d) THEN s1 + 1
                          ELSE q - (b.gap + d)
    BY <2>3 DEF ToMark, Position
  <2>5. p \in Nat /\ q = IF p \in (s1 + 1)..(s1 + b.gap + d) THEN s1 + 1 ELSE p
    BY <2>1, <2>2
  <2> HIDE DEF p, q
  <2>6. b.s1 \in Nat /\ b.gap \in Nat /\ b.s2 \in Nat
    BY <1>a DEF Sizes
  <2>7. CASE p <= s1
    BY <2>4, <2>5, <2>6, <2>7
  <2>8. CASE s1 < p /\ p <= s1 + b.gap + d
    BY <2>4, <2>5, <2>6, <2>8, <1>b
  <2>9. CASE p > s1 + b.gap + d
    BY <2>4, <2>5, <2>6, <2>9, <1>b
  <2> QED
    BY <2>5, <2>6, <2>7, <2>8, <2>9
<1> QED
  BY <1>2, <1>3, <1>4 DEF Removed, g

(* What is done to a buffer that only looks like b is done to b. *)
LEMMA AlikeThenInserted ==
  ASSUME NEW b, NEW g, NEW h, NEW n \in Nat \ {0}, NEW c, Length(b) \in Nat,
         n <= Length(b) + 1, Alike(b, g), Inserted(g, h, n, c)
  PROVE  Inserted(b, h, n, c)
<1>1. Length(g) = Length(b) /\ Length(h) = Length(b) + 1
  BY DEF Alike, Inserted
<1>2. ASSUME NEW i \in 1..Length(h)
      PROVE  CharAt(h, i) = IF i < n THEN CharAt(b, i)
                            ELSE IF i = n THEN c ELSE CharAt(b, i - 1)
  <2>1. CharAt(h, i) = IF i < n THEN CharAt(g, i)
                       ELSE IF i = n THEN c ELSE CharAt(g, i - 1)
    BY DEF Inserted
  <2>2. i < n => i \in 1..Length(b)
    BY <1>1
  <2>3. ~(i < n) /\ i # n => i - 1 \in 1..Length(b)
    BY <1>1
  <2> QED
    BY <2>1, <2>2, <2>3 DEF Alike
<1>3. \A m \in Marker : ToMark(g, m) = ToMark(b, m)
  BY DEF Alike
<1> QED
  BY <1>1, <1>2, <1>3 DEF Inserted

LEMMA AlikeThenRemoved ==
  ASSUME NEW b, NEW g, NEW h, NEW n \in Nat \ {0}, NEW k \in Nat, Length(b) \in Nat,
         Alike(b, g), Removed(g, h, n, k)
  PROVE  Removed(b, h, n, k)
<1>1. Length(g) = Length(b) /\ Length(h) = Length(b) - k
  BY DEF Alike, Removed
<1>2. ASSUME NEW i \in 1..Length(h)
      PROVE  CharAt(h, i) = IF i < n THEN CharAt(b, i) ELSE CharAt(b, i + k)
  <2>1. CharAt(h, i) = IF i < n THEN CharAt(g, i) ELSE CharAt(g, i + k)
    BY DEF Removed
  <2>2. i \in 1..Length(b) /\ i + k \in 1..Length(b)
    BY <1>1
  <2> QED
    BY <2>1, <2>2 DEF Alike
<1>3. \A m \in Marker : ToMark(g, m) = ToMark(b, m)
  BY DEF Alike
<1> QED
  BY <1>1, <1>2, <1>3 DEF Removed

LEMMA AlikeRemovesNothing ==
  ASSUME NEW b, NEW g, WellFormed(b), NEW n \in Nat \ {0}, Alike(b, g)
  PROVE  Removed(b, g, n, 0)
<1>1. Sizes(b) /\ Length(b) \in Nat
  BY Fields DEF Sizes, Length
<1>2. \A i \in 1..Length(b) : i + 0 = i
  OBVIOUS
<1>3. \A m \in Marker : ToMark(b, m) \in Nat
  BY MarkType
<1>4. \A m \in Marker : ToMark(g, m) = IF ToMark(b, m) <= n THEN ToMark(b, m)
                                       ELSE IF ToMark(b, m) <= n + 0 THEN n
                                       ELSE ToMark(b, m) - 0
  BY <1>3 DEF Alike
<1>5. Length(g) = Length(b) - 0
  BY <1>1 DEF Alike
<1>6. \A i \in 1..Length(g) : CharAt(g, i) = IF i < n THEN CharAt(b, i)
                                             ELSE CharAt(b, i + 0)
  BY <1>2 DEF Alike
<1> QED
  BY <1>4, <1>5, <1>6 DEF Removed

(* InsertAt puts the character where it was asked to, if it keeps the text. *)
LEMMA InsertInserts ==
  ASSUME NEW M \in SUBSET Marker, NEW b, Sound(b, M), ~Lost(b),
         NEW n \in Nat \ {0}, n <= Length(b) + 1,
         NEW c \in Char, NEW granted \in BOOLEAN,
         ~Lost(Insert(b, n, << c >>, granted))
  PROVE  Inserted(b, Insert(b, n, << c >>, granted), n, c)
<1> DEFINE at   == GapTo(b, n)
           room == GapRoom(at, 1, granted)
           w    == Widened(at, 1 + GapSlack)
<1>a. /\ WellFormed(b) /\ Sizes(b) /\ Length(b) \in Nat
      /\ GapSlack \in Nat \ {0} /\ 1 + GapSlack \in Nat
  BY Fields, GapSlackAssumption DEF Sound, Sizes, Length
<1>1. /\ Preserves(b, at, M) /\ Length(at) = Length(b)
      /\ at.s1 = Lesser(n, Length(b) + 1) - 1
  BY GapToSound
<1>2. /\ WellFormed(at) /\ Sizes(at) /\ Sound(at, M)
      /\ Alike(b, at) /\ at.s1 + 1 = n
  BY <1>1, <1>a, Fields, GapToAlike DEF Preserves, Sound, Lesser
<1>3. Insert(b, n, << c >>, granted) = IF Lost(room) THEN room ELSE Filled(room, << c >>)
  <2>1. Len(<< c >>) = 1
    OBVIOUS
  <2> QED
    BY <2>1 DEF Insert
<1> HIDE DEF at
<1>4. CASE at.gap >= 1
  <2>1. Inserted(at, Filled(at, << c >>), n, c)
    BY <1>2, <1>4, FilledInserts
  <2>2. room = at
    BY <1>4 DEF GapRoom
  <2>3. Lost(at) => FALSE
    BY <2>2, <1>2, <1>4 DEF Lost, Sizes
  <2> QED
    BY <2>1, <2>2, <2>3, <1>2, <1>3, <1>a, AlikeThenInserted
<1>5. CASE room = w /\ ~Lost(w)
  <2>1. /\ Preserves(at, w, M) /\ w.s1 = at.s1 /\ w.gap = at.gap + (1 + GapSlack)
        /\ Alike(at, w)
    BY <1>2, <1>a, WidenedSound, WidenedAlike
  <2> HIDE DEF w
  <2>2. WellFormed(w) /\ w.gap >= 1
    BY <2>1, <1>2, <1>a DEF Preserves, Sound, Sizes
  <2>3. Inserted(w, Filled(w, << c >>), n, c)
    BY <2>1, <2>2, <1>2, FilledInserts
  <2>4. Inserted(at, Filled(w, << c >>), n, c)
    BY <2>1, <2>3, <1>1, <1>a, AlikeThenInserted
  <2> QED
    BY <2>4, <1>2, <1>3, <1>5, <1>a, AlikeThenInserted
<1>6. CASE ~(at.gap >= 1) /\ ~(granted /\ ~Lost(at))
  <2>1. room = Emptied(at) /\ Lost(room)
    BY <1>6, <1>2 DEF GapRoom, Emptied, Lost, WellFormed, Buffer
  <2> QED
    BY <2>1, <1>3
<1>7. CASE ~(at.gap >= 1) /\ granted /\ ~Lost(at)
  <2>1. room = w
    BY <1>7 DEF GapRoom
  <2>2. CASE Lost(w)
    BY <2>1, <2>2, <1>3
  <2> QED
    BY <2>1, <2>2, <1>5
<1> QED
  BY <1>4, <1>6, <1>7

(* How many characters go when k are asked for and the visible text has     *)
(* room more on that side.                                                  *)
Taken(k, room) == IF Lesser(k, room) > 0 THEN Lesser(k, room) ELSE 0

LEMMA TakenType ==
  ASSUME NEW k \in Int, NEW room \in Int
  PROVE  /\ Taken(k, room) \in Nat
         /\ Taken(k, room) > 0 => Taken(k, room) <= k /\ Taken(k, room) <= room
BY DEF Taken, Lesser

LEMMA TakenAll ==
  ASSUME NEW k \in Nat, NEW room \in Int, k <= room
  PROVE  Taken(k, room) = k
BY DEF Taken, Lesser

(* DelFrwd deletes from n on, as far as the visible text goes. *)
LEMMA DelFrwdRemoves ==
  ASSUME NEW M \in SUBSET Marker, NEW b, Sound(b, M), b.tail <= Length(b),
         NEW n \in Nat \ {0}, n <= NumCharacters(b) + 1, NEW k \in Int
  PROVE  Removed(b, DelFrwd(b, n, k), n, Taken(k, NumCharacters(b) + 1 - n))
<1> DEFINE at == GapTo(b, n)
           d  == Lesser(k, at.s2 - at.tail)
<1>a. WellFormed(b) /\ Sizes(b) /\ Length(b) \in Nat
  BY Fields DEF Sound, Sizes, Length
<1>1. /\ Preserves(b, at, M) /\ Length(at) = Length(b) /\ at.tail = b.tail
      /\ at.s1 = Lesser(n, Length(b) + 1) - 1
  BY GapToSound DEF Preserves
<1>2. /\ WellFormed(at) /\ Sizes(at) /\ Alike(b, at) /\ at.s1 + 1 = n
  <2>1. Lesser(n, Length(b) + 1) = n
    BY <1>a DEF Lesser, NumCharacters, Sizes
  <2> QED
    BY <1>1, <1>a, <2>1, Fields, GapToAlike DEF Preserves, Sound
<1>3. DelFrwd(b, n, k) = IF d > 0 THEN Swallowed(at, at.s1, at.s2 - d, d) ELSE at
  BY DEF DelFrwd
<1>4. at.s2 - at.tail = NumCharacters(b) + 1 - n
  BY <1>1, <1>2, <1>a DEF NumCharacters, Length, Sizes
<1>5. Taken(k, NumCharacters(b) + 1 - n) = IF d > 0 THEN d ELSE 0
  BY <1>4 DEF Taken
<1> HIDE DEF at
<1>6. CASE d > 0
  <2> DEFINE s2 == at.s2 - d
             g  == Swallowed(at, at.s1, s2, d)
  <2>1. d \in Nat \ {0} /\ d <= at.s2 - at.tail
    BY <1>2, <1>6 DEF Lesser, Sizes
  <2>2. DelFrwd(b, n, k) = g
    BY <1>3, <1>6
  <2> HIDE DEF d
  <2>3. /\ s2 \in Nat /\ s2 <= at.s2 /\ at.s1 <= at.s1
        /\ at.s1 \in Nat /\ at.s1 + s2 + d = Length(at)
    BY <2>1, <1>2 DEF Sizes, Length
  <2> HIDE DEF s2
  <2>4. Removed(at, g, n, d)
    BY <2>1, <2>3, <1>2, SwallowedRemoves
  <2> HIDE DEF g
  <2>5. Removed(b, g, n, d)
    BY <2>1, <2>4, <1>2, <1>a, AlikeThenRemoved
  <2> QED
    BY <2>2, <2>5, <1>5, <1>6
<1>7. CASE ~(d > 0)
  BY <1>2, <1>3, <1>5, <1>7, <1>a, AlikeRemovesNothing
<1> QED
  BY <1>6, <1>7

(* DelBack deletes what stands before n, as far as the visible text goes. *)
LEMMA DelBackRemoves ==
  ASSUME NEW M \in SUBSET Marker, NEW b, Sound(b, M), b.tail <= Length(b),
         NEW n \in Nat \ {0}, n <= NumCharacters(b) + 1, NEW k \in Int
  PROVE  LET d == Taken(k, n - b.head) IN Removed(b, DelBack(b, n, k), n - d, d)
<1> DEFINE at == GapTo(b, n)
           d  == Lesser(k, at.s1 - at.head + 1)
<1>a. WellFormed(b) /\ Sizes(b) /\ Length(b) \in Nat
  BY Fields DEF Sound, Sizes, Length
<1>1. /\ Preserves(b, at, M) /\ Length(at) = Length(b) /\ at.head = b.head
      /\ at.s1 = Lesser(n, Length(b) + 1) - 1
  BY GapToSound DEF Preserves
<1>2. /\ WellFormed(at) /\ Sizes(at) /\ Alike(b, at) /\ at.s1 + 1 = n
  <2>1. Lesser(n, Length(b) + 1) = n
    BY <1>a DEF Lesser, NumCharacters, Sizes
  <2> QED
    BY <1>1, <1>a, <2>1, Fields, GapToAlike DEF Preserves, Sound
<1>3. DelBack(b, n, k) = IF d > 0 THEN Swallowed(at, at.s1 - d, at.s2, d) ELSE at
  BY DEF DelBack
<1>4. at.s1 - at.head + 1 = n - b.head
  BY <1>1, <1>2 DEF Sizes
<1>5. Taken(k, n - b.head) = IF d > 0 THEN d ELSE 0
  BY <1>4 DEF Taken
<1> HIDE DEF at
<1>6. CASE d > 0
  <2> DEFINE s1 == at.s1 - d
             g  == Swallowed(at, s1, at.s2, d)
  <2>1. d \in Nat \ {0} /\ d <= at.s1 - at.head + 1
    BY <1>2, <1>6 DEF Lesser, Sizes
  <2>2. DelBack(b, n, k) = g
    BY <1>3, <1>6
  <2> HIDE DEF d
  <2>3. /\ s1 \in Nat /\ s1 <= at.s1 /\ at.s2 <= at.s2 /\ at.s2 \in Nat
        /\ s1 + at.s2 + d = Length(at) /\ s1 + 1 = n - d
    BY <2>1, <1>2 DEF Sizes, Length
  <2> HIDE DEF s1
  <2>4. Removed(at, g, n - d, d)
    BY <2>1, <2>3, <1>2, SwallowedRemoves
  <2> HIDE DEF g
  <2>5. n - d \in Nat \ {0}
    BY <2>1, <2>3
  <2>6. Removed(b, g, n - d, d)
    BY <2>1, <2>4, <2>5, <1>2, <1>a, AlikeThenRemoved
  <2> QED
    BY <2>2, <2>6, <1>5, <1>6
<1>7. CASE ~(d > 0)
  <2>1. n - 0 = n
    OBVIOUS
  <2> QED
    BY <2>1, <1>2, <1>3, <1>5, <1>7, <1>a, AlikeRemovesNothing
<1> QED
  BY <1>6, <1>7

(***************************************************************************)
(* The same, for the text as a sequence.                                   *)
(***************************************************************************)
LEMMA TextIsSeq ==
  ASSUME NEW b, WellFormed(b), Clean(b)
  PROVE  /\ Text(b) \in Seq(Char) /\ Len(Text(b)) = Length(b) /\ Length(b) \in Nat
         /\ \A i \in 1..Length(b) : Text(b)[i] = CharAt(b, i)
<1> DEFINE N == Length(b)
           t == [ i \in 1..N |-> CharAt(b, i) ]
<1>1. N \in Nat
  BY Fields DEF Length, Sizes
<1>2. Text(b) = t
  BY DEF Text
<1>3. \A i \in 1..N : CharAt(b, i) \in Char
  BY DEF Clean
<1> HIDE DEF N
<1>4. t \in [1..N -> Char]
  BY <1>3
<1>5. t \in Seq(Char) /\ Len(t) = N /\ \A i \in 1..N : t[i] = CharAt(b, i)
  BY <1>1, <1>4
<1> QED
  BY <1>1, <1>2, <1>5 DEF N

LEMMA TextAlike ==
  ASSUME NEW b, NEW g, Alike(b, g)
  PROVE  Text(g) = Text(b)
BY DEF Alike, Text

(* Two sequences that agree everywhere are one. *)
LEMMA SameSeq ==
  ASSUME NEW t \in Seq(Char), NEW u \in Seq(Char), Len(t) = Len(u),
         \A i \in 1..Len(t) : t[i] = u[i]
  PROVE  t = u
BY SeqEqual

LEMMA TextInserted ==
  ASSUME NEW b, NEW g, WellFormed(b), Clean(b), WellFormed(g), Clean(g),
         NEW n \in 1..(Length(b) + 1), NEW c \in Char, Inserted(b, g, n, c)
  PROVE  Text(g) = SubSeq(Text(b), 1, n - 1) \o << c >> \o SubSeq(Text(b), n, Len(Text(b)))
<1> DEFINE t == Text(b)
           u == Text(g)
           N == Length(b)
<1>1. /\ t \in Seq(Char) /\ Len(t) = N /\ N \in Nat
      /\ \A i \in 1..N : t[i] = CharAt(b, i)
  BY TextIsSeq
<1>2. /\ u \in Seq(Char) /\ Len(u) = N + 1
      /\ \A i \in 1..(N + 1) : u[i] = CharAt(g, i)
  BY TextIsSeq DEF Inserted
<1>3. \A i \in 1..(N + 1) : u[i] = IF i < n THEN t[i] ELSE IF i = n THEN c ELSE t[i - 1]
  <2> TAKE i \in 1..(N + 1)
  <2>1. CharAt(g, i) = IF i < n THEN CharAt(b, i) ELSE IF i = n THEN c ELSE CharAt(b, i - 1)
    BY DEF Inserted
  <2>2. (i < n => i \in 1..N) /\ (~(i < n) /\ i # n => i - 1 \in 1..N)
    BY <1>1
  <2> QED
    BY <2>1, <2>2, <1>1, <1>2
<1>n. n \in Nat /\ 1 <= n /\ n <= N + 1
  BY <1>1
<1> HIDE DEF t, u, N
<1> DEFINE l == SubSeq(t, 1, n - 1)
           r == SubSeq(t, n, N)
<1>4. /\ l \in Seq(Char) /\ Len(l) = n - 1 /\ \A i \in 1..(n - 1) : l[i] = t[i]
  <2>1. 1 \in Int /\ n - 1 \in Int /\ \A i \in 1..(n - 1) : t[i] \in Char
    BY <1>1, <1>n
  <2>2. /\ SubSeq(t, 1, n - 1) \in Seq(Char)
        /\ Len(SubSeq(t, 1, n - 1)) = IF 1 <= n - 1 THEN (n - 1) - 1 + 1 ELSE 0
        /\ \A i \in 1..((n - 1) - 1 + 1) : SubSeq(t, 1, n - 1)[i] = t[1 + i - 1]
    BY <2>1, SubSeqProperties
  <2> HIDE DEF l
  <2>3. Len(l) = n - 1
    BY <2>2, <1>n DEF l
  <2>4. \A i \in 1..(n - 1) : l[i] = t[i]
    <3> TAKE i \in 1..(n - 1)
    <3>1. i \in 1..((n - 1) - 1 + 1) /\ 1 + i - 1 = i
      BY <1>n
    <3> QED
      BY <3>1, <2>2 DEF l
  <2> QED
    BY <2>2, <2>3, <2>4 DEF l
<1>5. /\ r \in Seq(Char) /\ Len(r) = N - n + 1
      /\ \A i \in 1..(N - n + 1) : r[i] = t[n + i - 1]
  <2>1. N \in Int /\ n \in Int /\ \A i \in n..N : t[i] \in Char
    BY <1>1, <1>n
  <2>2. /\ SubSeq(t, n, N) \in Seq(Char)
        /\ Len(SubSeq(t, n, N)) = IF n <= N THEN N - n + 1 ELSE 0
        /\ \A i \in 1..(N - n + 1) : SubSeq(t, n, N)[i] = t[n + i - 1]
    BY <2>1, SubSeqProperties
  <2> HIDE DEF r
  <2>3. Len(r) = N - n + 1
    BY <2>2, <1>n, <1>1 DEF r
  <2> QED
    BY <2>2, <2>3 DEF r
<1> HIDE DEF l, r
<1> DEFINE lc == l \o << c >>
<1>6. /\ lc \in Seq(Char) /\ Len(lc) = n
      /\ \A i \in 1..n : lc[i] = IF i <= n - 1 THEN l[i] ELSE c
  <2>1. << c >> \in Seq(Char) /\ Len(<< c >>) = 1 /\ << c >>[1] = c
    OBVIOUS
  <2>2. /\ lc \in Seq(Char) /\ Len(lc) = Len(l) + Len(<< c >>)
        /\ \A i \in 1..(Len(l) + Len(<< c >>)) :
             lc[i] = IF i <= Len(l) THEN l[i] ELSE << c >>[i - Len(l)]
    BY <1>4, <2>1, ConcatProperties
  <2>3. Len(l) + Len(<< c >>) = n
    BY <1>4, <2>1, <1>n
  <2>4. \A i \in 1..n : lc[i] = IF i <= n - 1 THEN l[i] ELSE c
    <3> TAKE i \in 1..n
    <3>1. lc[i] = IF i <= n - 1 THEN l[i] ELSE << c >>[i - (n - 1)]
      BY <2>2, <2>3, <1>4
    <3>2. ~(i <= n - 1) => i - (n - 1) = 1
      BY <1>n
    <3> QED
      BY <3>1, <3>2, <2>1
  <2> QED
    BY <2>2, <2>3, <2>4
<1> HIDE DEF lc
<1> DEFINE w == lc \o r
<1>7. /\ w \in Seq(Char) /\ Len(w) = N + 1
      /\ \A i \in 1..(N + 1) : w[i] = IF i <= n THEN lc[i] ELSE r[i - n]
  <2>1. /\ w \in Seq(Char) /\ Len(w) = Len(lc) + Len(r)
        /\ \A i \in 1..(Len(lc) + Len(r)) :
             w[i] = IF i <= Len(lc) THEN lc[i] ELSE r[i - Len(lc)]
    BY <1>5, <1>6, ConcatProperties
  <2>2. Len(lc) + Len(r) = N + 1
    BY <1>5, <1>6, <1>n, <1>1
  <2> QED
    BY <2>1, <2>2, <1>6
<1> HIDE DEF w
<1>8. \A i \in 1..(N + 1) : u[i] = w[i]
  <2> TAKE i \in 1..(N + 1)
  <2>1. CASE i < n
    <3>1. i \in 1..n /\ i <= n - 1 /\ i <= n /\ i \in 1..(n - 1)
      BY <2>1, <1>n
    <3> QED
      BY <3>1, <2>1, <1>3, <1>4, <1>6, <1>7
  <2>2. CASE i = n
    <3>1. i \in 1..n /\ ~(i <= n - 1) /\ i <= n /\ ~(i < n)
      BY <2>2, <1>n
    <3> QED
      BY <3>1, <2>2, <1>3, <1>6, <1>7
  <2>3. CASE i > n
    <3>1. ~(i <= n) /\ ~(i < n) /\ i # n /\ i - n \in 1..(N - n + 1)
      BY <2>3, <1>n, <1>1
    <3>2. n + (i - n) - 1 = i - 1
      BY <1>n
    <3>3. u[i] = t[i - 1] /\ w[i] = r[i - n]
      BY <3>1, <1>3, <1>7
    <3> QED
      BY <3>1, <3>2, <3>3, <1>5
  <2> QED
    BY <2>1, <2>2, <2>3, <1>n
<1>9. u = w
  BY <1>2, <1>7, <1>8, SameSeq
<1> QED
  BY <1>1, <1>9 DEF u, t, w, lc, l, r, N

LEMMA TextRemoved ==
  ASSUME NEW b, NEW g, WellFormed(b), Clean(b), WellFormed(g), Clean(g),
         NEW n \in Nat \ {0}, NEW k \in Nat, n + k <= Length(b) + 1,
         Removed(b, g, n, k)
  PROVE  Text(g) = SubSeq(Text(b), 1, n - 1) \o SubSeq(Text(b), n + k, Len(Text(b)))
<1> DEFINE t == Text(b)
           u == Text(g)
           N == Length(b)
<1>1. /\ t \in Seq(Char) /\ Len(t) = N /\ N \in Nat
      /\ \A i \in 1..N : t[i] = CharAt(b, i)
  BY TextIsSeq
<1>2. /\ u \in Seq(Char) /\ Len(u) = N - k
      /\ \A i \in 1..(N - k) : u[i] = CharAt(g, i)
  BY TextIsSeq DEF Removed
<1>n. 1 <= n /\ n + k <= N + 1 /\ k >= 0
  OBVIOUS
<1>3. \A i \in 1..(N - k) : u[i] = IF i < n THEN t[i] ELSE t[i + k]
  <2> TAKE i \in 1..(N - k)
  <2>1. CharAt(g, i) = IF i < n THEN CharAt(b, i) ELSE CharAt(b, i + k)
    BY DEF Removed
  <2>2. i \in 1..N /\ i + k \in 1..N
    BY <1>1
  <2> QED
    BY <2>1, <2>2, <1>1, <1>2
<1> HIDE DEF t, u, N
<1> DEFINE l == SubSeq(t, 1, n - 1)
           r == SubSeq(t, n + k, N)
<1>4. /\ l \in Seq(Char) /\ Len(l) = n - 1 /\ \A i \in 1..(n - 1) : l[i] = t[i]
  <2>1. 1 \in Int /\ n - 1 \in Int /\ \A i \in 1..(n - 1) : t[i] \in Char
    BY <1>1, <1>n
  <2>2. /\ SubSeq(t, 1, n - 1) \in Seq(Char)
        /\ Len(SubSeq(t, 1, n - 1)) = IF 1 <= n - 1 THEN (n - 1) - 1 + 1 ELSE 0
        /\ \A i \in 1..((n - 1) - 1 + 1) : SubSeq(t, 1, n - 1)[i] = t[1 + i - 1]
    BY <2>1, SubSeqProperties
  <2> HIDE DEF l
  <2>3. Len(l) = n - 1
    BY <2>2, <1>n DEF l
  <2>4. \A i \in 1..(n - 1) : l[i] = t[i]
    <3> TAKE i \in 1..(n - 1)
    <3>1. i \in 1..((n - 1) - 1 + 1) /\ 1 + i - 1 = i
      BY <1>n
    <3> QED
      BY <3>1, <2>2 DEF l
  <2> QED
    BY <2>2, <2>3, <2>4 DEF l
<1>5. /\ r \in Seq(Char) /\ Len(r) = N - n - k + 1
      /\ \A i \in 1..(N - n - k + 1) : r[i] = t[n + k + i - 1]
  <2>1. N \in Int /\ n + k \in Int /\ \A i \in (n + k)..N : t[i] \in Char
    BY <1>1, <1>n
  <2>2. /\ SubSeq(t, n + k, N) \in Seq(Char)
        /\ Len(SubSeq(t, n + k, N)) = IF n + k <= N THEN N - (n + k) + 1 ELSE 0
        /\ \A i \in 1..(N - (n + k) + 1) : SubSeq(t, n + k, N)[i] = t[(n + k) + i - 1]
    BY <2>1, SubSeqProperties
  <2> HIDE DEF r
  <2>3. Len(r) = N - n - k + 1
    BY <2>2, <1>n, <1>1 DEF r
  <2>4. N - (n + k) + 1 = N - n - k + 1
    BY <1>1
  <2> QED
    BY <2>2, <2>3, <2>4 DEF r
<1> HIDE DEF l, r
<1> DEFINE w == l \o r
<1>7. /\ w \in Seq(Char) /\ Len(w) = N - k
      /\ \A i \in 1..(N - k) : w[i] = IF i <= n - 1 THEN l[i] ELSE r[i - (n - 1)]
  <2>1. /\ w \in Seq(Char) /\ Len(w) = Len(l) + Len(r)
        /\ \A i \in 1..(Len(l) + Len(r)) :
             w[i] = IF i <= Len(l) THEN l[i] ELSE r[i - Len(l)]
    BY <1>4, <1>5, ConcatProperties
  <2>2. Len(l) + Len(r) = N - k
    BY <1>4, <1>5, <1>n, <1>1
  <2> QED
    BY <2>1, <2>2, <1>4
<1> HIDE DEF w
<1>8. \A i \in 1..(N - k) : u[i] = w[i]
  <2> TAKE i \in 1..(N - k)
  <2>1. CASE i < n
    <3>1. i <= n - 1 /\ i \in 1..(n - 1)
      BY <2>1, <1>n
    <3> QED
      BY <3>1, <2>1, <1>3, <1>4, <1>7
  <2>2. CASE ~(i < n)
    <3>1. ~(i <= n - 1) /\ i - (n - 1) \in 1..(N - n - k + 1)
      BY <2>2, <1>n, <1>1
    <3>2. n + k + (i - (n - 1)) - 1 = i + k
      OBVIOUS
    <3>3. u[i] = t[i + k] /\ w[i] = r[i - (n - 1)]
      BY <3>1, <2>2, <1>3, <1>7
    <3> QED
      BY <3>1, <3>2, <3>3, <1>5
  <2> QED
    BY <2>1, <2>2
<1>9. u = w
  BY <1>2, <1>7, <1>8, SameSeq
<1> QED
  BY <1>1, <1>9 DEF u, t, w, l, r, N

(***************************************************************************)
(* The commands.                                                           *)
(***************************************************************************)
Held == Marker \ {Lo}

(* A buffer that still has its text. *)
Good(b) == /\ ~Lost(b) /\ Sound(b, Held)
           /\ b.tail <= Length(b)
           /\ b.mark[Lo] = 0 <=> b.mark[Hi] = 0

InRange(b, d) == 1 <= d /\ d <= NumCharacters(b) + 1

IInv == /\ TypeOK
        /\ job.do = "insert" => job.c \in Char
        /\ IF Lost(buf) THEN job.do = "nothing"
           ELSE Good(buf) /\ InRange(buf, dot)

(***************************************************************************)
(* Facts about single buffers.                                             *)
(***************************************************************************)
LEMMA GoodFacts ==
  ASSUME NEW b, Good(b)
  PROVE  /\ b \in Buffer /\ Sizes(b) /\ Marks(b)
         /\ Length(b) \in Nat /\ NumCharacters(b) \in Nat
         /\ b.tail + NumCharacters(b) = Length(b)
<1>1. b \in Buffer /\ Sizes(b) /\ Marks(b)
  BY Fields DEF Good, Sound, WellFormed
<1>2. Length(b) \in Nat /\ b.tail <= Length(b)
  BY <1>1 DEF Sizes, Length, Good
<1> QED
  BY <1>1, <1>2 DEF NumCharacters, Sizes

LEMMA HeldFacts == /\ Held \in SUBSET Marker
                   /\ Mark \in Marker /\ Lo \in Marker /\ Hi \in Marker
                   /\ Mark \in Held /\ Hi \in Held /\ Lo \notin Held
BY MarkerAssumption DEF Held

(* What preserves the buffer and spares the tail keeps it good. *)
LEMMA StaysGood ==
  ASSUME NEW b, Good(b), NEW g, Preserves(b, g, Held), b.tail <= Length(g)
  PROVE  Good(g)
<1>1. Sizes(g) /\ Sizes(b)
  BY Fields, GoodFacts DEF Preserves, Sound
<1>2. ~Lost(g)
  BY <1>1 DEF Good, Preserves, Lost, Sizes
<1> QED
  BY <1>2, HeldFacts DEF Good, Preserves

LEMMA NewBfGood == Good(NewBf) /\ InRange(NewBf, 1)
<1> DEFINE mem == [ i \in 1..GapSlack |-> Junk ]
           mark == [ m \in Marker |-> 0 ]
<1>1. mem \in [1..GapSlack -> Cell]
  BY DEF Cell
<1>2. mem \in Seq(Cell) /\ Len(mem) = GapSlack
  BY <1>1, BlockIsSeq, GapSlackAssumption
<1>3. mark \in [Marker -> Nat] /\ \A m \in Marker : mark[m] = 0
  OBVIOUS
<1>4. NewBf = [ mem |-> mem, size |-> GapSlack, s1 |-> 0, gap |-> GapSlack,
                s2 |-> 0, head |-> 1, tail |-> 0, mark |-> mark ]
  BY DEF NewBf
<1> HIDE DEF mem, mark
<1>5. NewBf \in Buffer
  BY <1>2, <1>3, <1>4, GapSlackAssumption DEF Buffer
<1>6. /\ NewBf.mem = mem /\ NewBf.size = GapSlack /\ NewBf.s1 = 0
      /\ NewBf.gap = GapSlack /\ NewBf.s2 = 0 /\ NewBf.head = 1
      /\ NewBf.tail = 0 /\ NewBf.mark = mark
  BY <1>4
<1>7. WellFormed(NewBf) /\ Length(NewBf) = 0
  BY <1>2, <1>5, <1>6, GapSlackAssumption DEF WellFormed, Length
<1>8. Clean(NewBf) /\ \A m \in Held : Inside(NewBf, m)
  BY <1>3, <1>6, <1>7, HeldFacts, GapSlackAssumption DEF Clean, Inside
<1>9. ~Lost(NewBf) /\ NewBf.tail <= Length(NewBf) /\ InRange(NewBf, 1)
  BY <1>6, <1>7, GapSlackAssumption DEF Lost, InRange, NumCharacters
<1> QED
  BY <1>3, <1>6, <1>7, <1>8, <1>9, HeldFacts DEF Good, Sound

(* A set marker that is in the block stands for a place in the text. *)
LEMMA ToMarkInText ==
  ASSUME NEW b, Good(b), NEW m \in Marker, b.mark[m] # 0
  PROVE  /\ ToMark(b, m) \in Nat \ {0}
         /\ m \in Held => ToMark(b, m) <= Length(b) + 1
<1>1. Sizes(b) /\ b.mark[m] \in Nat \ {0}
  BY GoodFacts DEF Marks
<1>2. m \in Held => b.mark[m] <= b.size + 1
  BY DEF Good, Sound, Inside
<1> QED
  BY <1>1, <1>2 DEF ToMark, Position, Length, Sizes

(***************************************************************************)
(* How far a scan goes.                                                    *)
(***************************************************************************)
LEMMA RunAfterBound ==
  ASSUME NEW b, Good(b), NEW n \in Int, NEW S
  PROVE  /\ RunAfter(b, n, S) \in Nat
         /\ n <= NumCharacters(b) + 1 => n + RunAfter(b, n, S) <= NumCharacters(b) + 1
<1> DEFINE N == NumCharacters(b)
           R == { i \in n..N : \A j \in n..i : CharAt(b, j) \in S }
<1>1. N \in Nat
  BY GoodFacts
<1> HIDE DEF N
<1>2. IsFiniteSet(n..N) /\ Cardinality(n..N) = IF n > N THEN 0 ELSE N - n + 1
  BY <1>1, FS_Interval
<1>3. R \in SUBSET (n..N)
  OBVIOUS
<1>4. IsFiniteSet(R) /\ Cardinality(R) <= Cardinality(n..N)
  BY <1>2, <1>3, FS_Subset
<1>5. Cardinality(R) \in Nat
  BY <1>4, FS_CardinalityType
<1>6. RunAfter(b, n, S) = Cardinality(R)
  BY DEF RunAfter, N
<1> HIDE DEF R
<1>7. n <= N + 1 => n + Cardinality(R) <= N + 1
  BY <1>1, <1>2, <1>4, <1>5
<1> QED
  BY <1>5, <1>6, <1>7 DEF N

LEMMA RunBeforeBound ==
  ASSUME NEW b, Good(b), NEW n \in Int, NEW S
  PROVE  /\ RunBefore(b, n, S) \in Nat
         /\ RunBefore(b, n, S) # 0 => n - RunBefore(b, n, S) >= b.head
<1> DEFINE h == b.head
           R == { i \in h..(n - 1) : \A j \in i..(n - 1) : CharAt(b, j) \in S }
<1>1. h \in Nat
  BY GoodFacts DEF Sizes
<1> HIDE DEF h
<1>2. /\ IsFiniteSet(h..(n - 1))
      /\ Cardinality(h..(n - 1)) = IF h > n - 1 THEN 0 ELSE (n - 1) - h + 1
  BY <1>1, FS_Interval
<1>3. R \in SUBSET (h..(n - 1))
  OBVIOUS
<1>4. IsFiniteSet(R) /\ Cardinality(R) <= Cardinality(h..(n - 1))
  BY <1>2, <1>3, FS_Subset
<1>5. Cardinality(R) \in Nat
  BY <1>4, FS_CardinalityType
<1>6. RunBefore(b, n, S) = Cardinality(R)
  BY DEF RunBefore, FirstCharacter, h
<1> HIDE DEF R
<1>7. Cardinality(R) # 0 => n - Cardinality(R) >= h
  BY <1>1, <1>2, <1>4, <1>5
<1> QED
  BY <1>5, <1>6, <1>7 DEF h

LEMMA WordAfterBound ==
  ASSUME NEW b, Good(b), NEW d \in Int, InRange(b, d)
  PROVE  WordAfter(b, d) \in Nat /\ InRange(b, d + WordAfter(b, d))
<1> DEFINE r == RunAfter(b, d, NotWord)
           w == RunAfter(b, d + r, WordChar)
<1>0. NumCharacters(b) \in Nat /\ d <= NumCharacters(b) + 1 /\ d >= 1
  BY GoodFacts DEF InRange
<1>1. r \in Nat /\ d + r <= NumCharacters(b) + 1
  BY <1>0, RunAfterBound
<1> HIDE DEF r
<1>2. w \in Nat /\ (d + r) + w <= NumCharacters(b) + 1
  BY <1>1, RunAfterBound
<1>3. WordAfter(b, d) = r + w
  BY DEF WordAfter, r
<1> HIDE DEF w
<1> QED
  BY <1>0, <1>1, <1>2, <1>3 DEF InRange

LEMMA WordBeforeBound ==
  ASSUME NEW b, Good(b), NEW d \in Int
  PROVE  /\ WordBefore(b, d) \in Nat
         /\ WordBefore(b, d) # 0 => d - WordBefore(b, d) >= b.head
<1> DEFINE r == RunBefore(b, d, NotWord)
           w == RunBefore(b, d - r, WordChar)
<1>0. b.head \in Nat
  BY GoodFacts DEF Sizes
<1>1. r \in Nat /\ (r # 0 => d - r >= b.head)
  BY RunBeforeBound
<1> HIDE DEF r
<1>2. w \in Nat /\ (w # 0 => (d - r) - w >= b.head)
  BY <1>1, RunBeforeBound
<1>3. WordBefore(b, d) = r + w
  BY DEF WordBefore, r
<1> HIDE DEF w
<1> QED
  BY <1>0, <1>1, <1>2, <1>3

(***************************************************************************)
(* How a command ends.                                                     *)
(***************************************************************************)
LEMMA ClampedInRange ==
  ASSUME NEW b, Good(b), NEW d \in Int
  PROVE  Clamped(b, d) \in Int /\ InRange(b, Clamped(b, d))
<1>1. b.head \in Nat /\ b.head >= 1 /\ NumCharacters(b) \in Nat
  BY GoodFacts DEF Sizes
<1> QED
  BY <1>1 DEF Clamped, FirstCharacter, InRange

LEMMA IdleJob ==
  ASSUME job' = Idle
  PROVE  /\ job' \in [ do : {"nothing", "insert", "word"}, left : Nat,
                       c : Cell, back : BOOLEAN, del : BOOLEAN ]
         /\ job'.do = "nothing"
BY DEF Idle, Cell

(* Finish reestablishes the invariant from any good or lost buffer. *)
LEMMA Finishing ==
  ASSUME NEW b \in Buffer, NEW d \in Int, Finish(b, d), Lost(b) \/ Good(b)
  PROVE  IInv'
<1>1. /\ buf' = b /\ dot' = Clamped(b, d)
      /\ job' \in [ do : {"nothing", "insert", "word"}, left : Nat,
                    c : Cell, back : BOOLEAN, del : BOOLEAN ]
      /\ job'.do = "nothing"
  BY IdleJob DEF Finish
<1>2. Clamped(b, d) \in Int
  <2>1. b.head \in Int /\ NumCharacters(b) \in Int
    BY DEF Buffer, NumCharacters, Length
  <2> QED
    BY <2>1 DEF Clamped, FirstCharacter
<1>3. TypeOK'
  BY <1>1, <1>2 DEF TypeOK
<1>4. CASE Lost(b)
  BY <1>1, <1>3, <1>4 DEF IInv
<1>5. CASE Good(b)
  <2>1. InRange(b, Clamped(b, d)) /\ ~Lost(b)
    BY <1>5, ClampedInRange DEF Good
  <2> QED
    BY <2>1, <1>1, <1>3, <1>5 DEF IInv
<1> QED
  BY <1>4, <1>5

(* What a command may take for granted when it starts. *)
LEMMA Starting ==
  ASSUME IInv, ~Lost(buf)
  PROVE  /\ Good(buf) /\ buf \in Buffer /\ dot \in Nat \ {0}
         /\ InRange(buf, dot) /\ dot <= Length(buf) + 1
         /\ Sound(buf, Held) /\ buf.tail <= Length(buf)
<1>1. Good(buf) /\ InRange(buf, dot) /\ dot \in Int
  BY DEF IInv, TypeOK
<1>2. buf.tail \in Nat
  BY <1>1, GoodFacts DEF Sizes
<1> QED
  BY <1>1, <1>2, GoodFacts DEF InRange, Good

(* A command that only moves dot. *)
LEMMA Moving ==
  ASSUME IInv, Ready, NEW d \in Int, Finish(buf, d)
  PROVE  IInv'
BY Starting, Finishing DEF Ready

LEMMA BackwardInt ==
  ASSUME NEW b, Good(b), NEW d \in Int, NEW arg \in Int
  PROVE  Backward(b, d, arg) \in Int
BY GoodFacts DEF Backward, FirstCharacter, Sizes

(***************************************************************************)
(* Motion.                                                                 *)
(***************************************************************************)
LEMMA MotionKeeps ==
  ASSUME IInv, NEW arg \in Int,
         \/ ForwardCharacter(arg) \/ BackwardCharacter(arg) \/ EndOfLine(arg)
         \/ BeginningOfFile \/ EndOfFile \/ BeginningOfLine
  PROVE  IInv'
<1>0. Ready
  BY DEF ForwardCharacter, BackwardCharacter, EndOfLine, BeginningOfFile,
         EndOfFile, BeginningOfLine
<1>a. Good(buf) /\ dot \in Int /\ arg \in Int
  BY <1>0, Starting DEF Ready
<1>b. NumCharacters(buf) \in Int /\ buf.head \in Int
  BY <1>a, GoodFacts DEF Sizes
<1>1. CASE ForwardCharacter(arg)
  BY <1>0, <1>1, <1>a, <1>b, Moving DEF ForwardCharacter
<1>2. CASE BackwardCharacter(arg)
  BY <1>0, <1>2, <1>a, Moving, BackwardInt DEF BackwardCharacter
<1>3. CASE EndOfLine(arg)
  <2> DEFINE d == NextLineStart(buf, dot)
             to == IF d # dot /\ CharAt(buf, d - 1) = Newline
                   THEN Backward(buf, d, arg) ELSE d
  <2>1. d \in Int
    <3>1. RunAfter(buf, dot, Char \ {Newline}) \in Nat
      BY <1>a, RunAfterBound
    <3> QED
      BY <3>1, <1>a, <1>b DEF NextLineStart
  <2>2. Finish(buf, to)
    BY <1>3 DEF EndOfLine
  <2> HIDE DEF d
  <2>3. to \in Int
    BY <2>1, <1>a, BackwardInt
  <2> QED
    BY <2>2, <2>3, <1>0, Moving
<1>4. CASE BeginningOfFile
  BY <1>0, <1>4, <1>b, Moving DEF BeginningOfFile, FirstCharacter
<1>5. CASE EndOfFile
  BY <1>0, <1>5, <1>b, Moving DEF EndOfFile
<1>6. CASE BeginningOfLine
  <2>1. RunBefore(buf, dot, Char \ {Newline}) \in Nat
    BY <1>a, RunBeforeBound
  <2>2. LineStart(buf, dot) \in Int
    BY <2>1, <1>a, <1>b DEF LineStart, FirstCharacter
  <2> QED
    BY <2>2, <1>0, <1>6, Moving DEF BeginningOfLine
<1> QED
  BY <1>1, <1>2, <1>3, <1>4, <1>5, <1>6

(***************************************************************************)
(* Insertion and deletion.                                                 *)
(***************************************************************************)
(* A deletion that ends a command. *)
LEMMA Deleting ==
  ASSUME IInv, ~Lost(buf), NEW n \in Nat \ {0}, NEW k \in Int, NEW d \in Int,
         \/ Finish(DelFrwd(buf, n, k), d)
         \/ Finish(DelBack(buf, n, k), d) /\ n <= NumCharacters(buf) + 1
  PROVE  IInv'
<1>0. Good(buf) /\ Sound(buf, Held) /\ buf.tail <= Length(buf) /\ Held \in SUBSET Marker
  BY Starting, HeldFacts
<1>1. CASE Finish(DelFrwd(buf, n, k), d)
  <2> DEFINE g == DelFrwd(buf, n, k)
  <2>1. Preserves(buf, g, Held) /\ buf.tail <= Length(g)
    BY <1>0, DelFrwdSound
  <2> HIDE DEF g
  <2>2. Good(g) /\ g \in Buffer
    BY <2>1, <1>0, StaysGood, GoodFacts
  <2> QED
    BY <2>2, <1>1, Finishing DEF g
<1>2. CASE Finish(DelBack(buf, n, k), d) /\ n <= NumCharacters(buf) + 1
  <2> DEFINE g == DelBack(buf, n, k)
  <2>1. Preserves(buf, g, Held) /\ buf.tail <= Length(g)
    BY <1>0, <1>2, DelBackSound
  <2> HIDE DEF g
  <2>2. Good(g) /\ g \in Buffer
    BY <2>1, <1>0, StaysGood, GoodFacts
  <2> QED
    BY <2>2, <1>2, Finishing DEF g
<1> QED
  BY <1>1, <1>2

(* What an insertion of one character leaves: a good buffer one longer, or  *)
(* one without text.                                                        *)
LEMMA InsertingOne ==
  ASSUME NEW b, Good(b), NEW n \in Nat \ {0}, NEW c \in Char, NEW granted \in BOOLEAN
  PROVE  LET g == Insert(b, n, << c >>, granted)
         IN  /\ g \in Buffer
             /\ Lost(g) \/ (Good(g) /\ NumCharacters(g) = NumCharacters(b) + 1)
<1> DEFINE g == Insert(b, n, << c >>, granted)
<1>0. Sound(b, Held) /\ ~Lost(b) /\ Held \in SUBSET Marker
  BY HeldFacts DEF Good
<1>1. << c >> \in Seq(Char) /\ Len(<< c >>) = 1
  OBVIOUS
<1>2. IF Lost(g) THEN Gone(g) /\ g.head = b.head /\ g.tail = b.tail
      ELSE Preserves(b, g, Held) /\ Length(g) = Length(b) + Len(<< c >>)
  BY <1>0, <1>1, InsertSound
<1> HIDE DEF g
<1>3. CASE Lost(g)
  BY <1>2, <1>3 DEF Gone, g
<1>4. CASE ~Lost(g)
  <2>1. Preserves(b, g, Held) /\ Length(g) = Length(b) + 1
    BY <1>1, <1>2, <1>4
  <2>2. b.tail <= Length(g)
    BY <2>1, GoodFacts DEF Good, Sizes
  <2>3. Good(g)
    BY <2>1, <2>2, StaysGood
  <2>4. NumCharacters(g) = NumCharacters(b) + 1
    BY <2>1, GoodFacts DEF Preserves, NumCharacters, Sizes
  <2> QED
    BY <2>3, <2>4, GoodFacts DEF g
<1> QED
  BY <1>3, <1>4

LEMMA SelfInsertRoundKeeps ==
  ASSUME IInv, ~Lost(buf), NEW c \in Char, NEW left \in Int, SelfInsertRound(c, left)
  PROVE  IInv'
<1>0. Good(buf) /\ dot \in Nat \ {0} /\ InRange(buf, dot)
  BY Starting
<1>1. PICK granted \in BOOLEAN :
        LET b == Insert(buf, dot, << c >>, granted)
        IN  IF left > 1 /\ ~Lost(b)
            THEN /\ buf' = b /\ dot' = dot + 1
                 /\ job' = [ Idle EXCEPT !.do = "insert", !.left = left - 1, !.c = c ]
            ELSE Finish(b, dot + 1)
  BY DEF SelfInsertRound
<1> DEFINE b == Insert(buf, dot, << c >>, granted)
<1>2. /\ b \in Buffer
      /\ Lost(b) \/ (Good(b) /\ NumCharacters(b) = NumCharacters(buf) + 1)
  BY <1>0, InsertingOne
<1>3. IF left > 1 /\ ~Lost(b)
      THEN /\ buf' = b /\ dot' = dot + 1
           /\ job' = [ Idle EXCEPT !.do = "insert", !.left = left - 1, !.c = c ]
      ELSE Finish(b, dot + 1)
  BY <1>1
<1> HIDE DEF b
<1>4. CASE left > 1 /\ ~Lost(b)
  <2>1. left - 1 \in Nat
    BY <1>4
  <2>2. /\ job' \in [ do : {"nothing", "insert", "word"}, left : Nat,
                      c : Cell, back : BOOLEAN, del : BOOLEAN ]
        /\ job'.c = c
    BY <2>1, <1>3, <1>4 DEF Idle, Cell
  <2>3. dot + 1 \in Int /\ InRange(b, dot + 1)
    BY <1>0, <1>2, <1>4, GoodFacts DEF InRange
  <2> QED
    BY <2>2, <2>3, <1>2, <1>3, <1>4 DEF IInv, TypeOK
<1>5. CASE ~(left > 1 /\ ~Lost(b))
  BY <1>0, <1>2, <1>3, <1>5, Finishing
<1> QED
  BY <1>4, <1>5

LEMMA SelfInsertKeeps ==
  ASSUME IInv, \/ \E c \in Char, arg \in Args : SelfInsert(c, arg)
               \/ SelfInsertAgain
  PROVE  IInv'
<1>1. CASE \E c \in Char, arg \in Args : SelfInsert(c, arg)
  BY <1>1, SelfInsertRoundKeeps, ArgsAssumption DEF SelfInsert, Ready
<1>2. CASE SelfInsertAgain
  <2>1. job.c \in Char /\ job.left \in Int /\ ~Lost(buf)
    BY <1>2 DEF SelfInsertAgain, IInv, TypeOK
  <2> QED
    BY <2>1, <1>2, SelfInsertRoundKeeps DEF SelfInsertAgain
<1> QED
  BY <1>1, <1>2

LEMMA DeletionKeeps ==
  ASSUME IInv, NEW arg \in Int,
         \/ DeleteNextCharacter(arg) \/ DeletePreviousCharacter(arg)
         \/ DeleteWhiteSpace
  PROVE  IInv'
<1>0. ~Lost(buf)
  BY DEF DeleteNextCharacter, DeletePreviousCharacter, DeleteWhiteSpace, Ready
<1>a. /\ Good(buf) /\ dot \in Nat \ {0} /\ arg \in Int
      /\ dot <= NumCharacters(buf) + 1
  BY <1>0, Starting DEF InRange
<1>1. CASE DeleteNextCharacter(arg)
  <2>1. Finish(DelFrwd(buf, dot, arg), dot) /\ dot \in Int
    BY <1>1, <1>a DEF DeleteNextCharacter
  <2> QED
    BY <2>1, <1>0, <1>a, Deleting
<1>2. CASE DeletePreviousCharacter(arg)
  <2>1. dot - arg \in Int
    BY <1>a
  <2> QED
    BY <2>1, <1>0, <1>2, <1>a, Deleting DEF DeletePreviousCharacter
<1>3. CASE DeleteWhiteSpace
  <2> DEFINE after  == RunAfter(buf, dot, White)
             before == RunBefore(buf, dot, White)
             b      == IF after + before > 0
                       THEN DelFrwd(buf, dot - before, after + before) ELSE buf
  <2>1. after \in Nat /\ before \in Nat /\ (before # 0 => dot - before >= buf.head)
    BY <1>a, RunAfterBound, RunBeforeBound
  <2>2. Finish(b, dot - before)
    BY <1>3 DEF DeleteWhiteSpace
  <2> HIDE DEF after, before
  <2>3. dot - before \in Nat \ {0} /\ after + before \in Int
    BY <2>1, <1>a, GoodFacts DEF Sizes
  <2>4. CASE after + before > 0
    <3> DEFINE at == dot - before
               k  == after + before
    <3>1. Finish(DelFrwd(buf, at, k), at) /\ at \in Nat \ {0} /\ at \in Int /\ k \in Int
      BY <2>2, <2>3, <2>4
    <3> HIDE DEF at, k
    <3> QED
      BY <3>1, <1>0, Deleting
  <2>5. CASE ~(after + before > 0)
    BY <2>2, <2>3, <2>5, <1>3, Moving DEF DeleteWhiteSpace
  <2> QED
    BY <2>4, <2>5
<1> QED
  BY <1>1, <1>2, <1>3

LEMMA TransposeKeeps ==
  ASSUME IInv, TransposeCharacters
  PROVE  IInv'
<1>0. ~Lost(buf) /\ Ready
  BY DEF TransposeCharacters, Ready
<1>a. /\ Good(buf) /\ dot \in Nat \ {0} /\ dot <= NumCharacters(buf) + 1
      /\ Sound(buf, Held) /\ buf.tail <= Length(buf) /\ Held \in SUBSET Marker
      /\ dot <= Length(buf) + 1
  BY <1>0, Starting, HeldFacts DEF InRange
<1>1. CASE dot < 3
  BY <1>0, <1>1, <1>a, Moving DEF TransposeCharacters
<1>2. CASE ~(dot < 3)
  <2> DEFINE g == DelBack(buf, dot, 1)
             c == CharAt(buf, dot - 1)
  <2>1. c \in Char
    <3>1. dot - 1 \in 1..Length(buf)
      BY <1>2, <1>a, GoodFacts
    <3> QED
      BY <3>1, <1>a DEF Sound, Clean
  <2>2. PICK granted \in BOOLEAN : Finish(Insert(g, dot - 2, << c >>, granted), dot)
    BY <1>2 DEF TransposeCharacters
  <2>3. Preserves(buf, g, Held) /\ buf.tail <= Length(g)
    BY <1>a, DelBackSound
  <2> HIDE DEF g, c
  <2>4. Good(g) /\ dot - 2 \in Nat \ {0}
    BY <2>3, <1>2, <1>a, StaysGood
  <2> DEFINE b == Insert(g, dot - 2, << c >>, granted)
  <2>5. b \in Buffer /\ (Lost(b) \/ Good(b))
    BY <2>1, <2>4, InsertingOne
  <2> HIDE DEF b
  <2> QED
    BY <2>2, <2>5, <1>a, Finishing DEF b
<1> QED
  BY <1>1, <1>2

(***************************************************************************)
(* Words.                                                                  *)
(***************************************************************************)
(* One round: the buffer it leaves is good, and dot is in it.              *)
LEMMA WordRoundKeeps ==
  ASSUME IInv, ~Lost(buf), NEW back \in BOOLEAN, NEW del \in BOOLEAN,
         NEW left \in Int, WordRound(back, del, left)
  PROVE  IInv'
<1> DEFINE n == IF back THEN WordBefore(buf, dot) ELSE WordAfter(buf, dot)
           b == IF ~del \/ n = 0 THEN buf
                ELSE IF back THEN DelBack(buf, dot, n) ELSE DelFrwd(buf, dot, n)
           d == IF back THEN dot - n ELSE IF del THEN dot ELSE dot + n
<1>a. /\ Good(buf) /\ dot \in Nat \ {0} /\ dot <= NumCharacters(buf) + 1
      /\ Sound(buf, Held) /\ buf.tail <= Length(buf) /\ Held \in SUBSET Marker
      /\ InRange(buf, dot) /\ buf \in Buffer
  BY Starting, HeldFacts DEF InRange
<1>b. NumCharacters(buf) \in Nat /\ Sizes(buf) /\ Length(buf) \in Nat
  BY <1>a, GoodFacts
<1>1. /\ n \in Nat
      /\ back /\ n # 0 => dot - n >= buf.head
      /\ ~back => InRange(buf, dot + n)
  BY <1>a, WordBeforeBound, WordAfterBound
<1>2. IF n > 0 /\ left > 1
      THEN /\ buf' = b /\ dot' = d
           /\ job' = [ Idle EXCEPT !.do = "word", !.left = left - 1,
                                  !.back = back, !.del = del ]
      ELSE Finish(b, d)
  BY DEF WordRound
<1> HIDE DEF n
<1>3. Good(b) /\ b \in Buffer /\ InRange(b, d) /\ d \in Int
  <2>1. CASE ~del \/ n = 0
    <3>1. b = buf /\ d \in Int
      BY <2>1, <1>1, <1>a
    <3>2. InRange(buf, d)
      BY <2>1, <1>1, <1>a, <1>b DEF InRange, Sizes
    <3> QED
      BY <3>1, <3>2, <1>a
  <2>2. CASE del /\ n # 0 /\ back
    <3> DEFINE g == DelBack(buf, dot, n)
    <3>1. b = g /\ d = dot - n /\ n \in Int /\ n >= 0
      BY <2>2, <1>1
    <3>2. /\ Preserves(buf, g, Held) /\ buf.tail <= Length(g)
          /\ Length(g) >= Length(buf) - n
      BY <3>1, <1>a, DelBackSound
    <3> HIDE DEF g
    <3>3. Good(g) /\ g \in Buffer /\ Length(g) \in Nat /\ g.tail = buf.tail
      BY <3>2, <1>a, StaysGood, GoodFacts DEF Preserves
    <3>4. InRange(g, dot - n)
      BY <2>2, <3>2, <3>3, <1>1, <1>a, <1>b DEF InRange, NumCharacters, Sizes
    <3> QED
      BY <3>1, <3>3, <3>4, <1>1, <1>a
  <2>3. CASE del /\ n # 0 /\ ~back
    <3> DEFINE g == DelFrwd(buf, dot, n)
    <3>1. b = g /\ d = dot /\ n \in Int
      BY <2>3, <1>1
    <3>2. /\ Preserves(buf, g, Held) /\ buf.tail <= Length(g)
          /\ dot <= NumCharacters(g) + 1
      BY <3>1, <1>a, DelFrwdSound
    <3> HIDE DEF g
    <3>3. Good(g) /\ g \in Buffer /\ InRange(g, dot)
      BY <3>2, <1>a, StaysGood, GoodFacts DEF InRange
    <3> QED
      BY <3>1, <3>3, <1>a
  <2> QED
    BY <2>1, <2>2, <2>3
<1> HIDE DEF b, d
<1>4. CASE n > 0 /\ left > 1
  <2>1. left - 1 \in Nat
    BY <1>4
  <2>2. /\ job' \in [ do : {"nothing", "insert", "word"}, left : Nat,
                      c : Cell, back : BOOLEAN, del : BOOLEAN ]
        /\ job'.do = "word"
    BY <2>1, <1>2, <1>4 DEF Idle, Cell
  <2> QED
    BY <2>2, <1>2, <1>3, <1>4 DEF IInv, TypeOK, Good
<1>5. CASE ~(n > 0 /\ left > 1)
  BY <1>2, <1>3, <1>5, Finishing
<1> QED
  BY <1>4, <1>5

LEMMA WordKeeps ==
  ASSUME IInv, \/ \E back, del \in BOOLEAN, arg \in Args : Word(back, del, arg)
               \/ WordAgain
  PROVE  IInv'
<1>1. CASE \E back, del \in BOOLEAN, arg \in Args : Word(back, del, arg)
  BY <1>1, WordRoundKeeps, ArgsAssumption DEF Word, Ready
<1>2. CASE WordAgain
  <2>1. /\ job.back \in BOOLEAN /\ job.del \in BOOLEAN /\ job.left \in Int
        /\ ~Lost(buf)
    BY <1>2 DEF WordAgain, IInv, TypeOK
  <2> QED
    BY <2>1, <1>2, WordRoundKeeps DEF WordAgain
<1> QED
  BY <1>1, <1>2

(***************************************************************************)
(* The mark and the restriction.                                           *)
(***************************************************************************)
LEMMA MarkKeeps ==
  ASSUME IInv, SetMarkCommand \/ ExchangeDotAndMark
  PROVE  IInv'
<1>0. ~Lost(buf)
  BY DEF SetMarkCommand, ExchangeDotAndMark, Ready
<1>a. /\ Good(buf) /\ dot \in Nat \ {0} /\ dot <= Length(buf) + 1
      /\ Sound(buf, Held) /\ buf.tail <= Length(buf)
  BY <1>0, Starting
<1> DEFINE b == SetMark(buf, Mark, dot)
<1>p. /\ Mark \in Marker /\ Held \in SUBSET Marker
      /\ Mark \in Held => dot <= Length(buf) + 1
  BY <1>a, HeldFacts
<1>1. /\ Sound(b, Held)
      /\ OthersKept(buf, b, Mark)
      /\ b.s1 = buf.s1 /\ b.s2 = buf.s2 /\ b.size = buf.size
      /\ b.head = buf.head /\ b.tail = buf.tail
  BY <1>a, <1>p, SetMarkSound, ZenonT(60)
<1> HIDE DEF b
<1>2. b.mark[Lo] = buf.mark[Lo] /\ b.mark[Hi] = buf.mark[Hi]
  BY <1>1, HeldFacts, MarkerAssumption DEF OthersKept
<1>3. Good(b) /\ b \in Buffer
  BY <1>1, <1>2, <1>a DEF Good, Lost, Length, Sound, WellFormed
<1>4. CASE SetMarkCommand
  BY <1>3, <1>4, <1>a, Finishing DEF SetMarkCommand, b
<1>5. CASE ExchangeDotAndMark
  <2>1. ToMark(buf, Mark) \in Int
    BY <1>5, <1>a, HeldFacts, ToMarkInText DEF ExchangeDotAndMark, IsSet
  <2> QED
    BY <2>1, <1>3, <1>5, Finishing DEF ExchangeDotAndMark, b
<1> QED
  BY <1>4, <1>5

LEMMA EraseRegionKeeps ==
  ASSUME IInv, EraseRegion
  PROVE  IInv'
<1>0. ~Lost(buf)
  BY DEF EraseRegion, Ready
<1>a. Good(buf) /\ dot \in Nat \ {0}
  BY <1>0, Starting
<1> DEFINE n == ToMark(buf, Mark) - dot
<1>1. ToMark(buf, Mark) \in Nat \ {0}
  BY <1>a, HeldFacts, ToMarkInText DEF EraseRegion, IsSet
<1>2. IF n < 0 THEN Finish(DelFrwd(buf, dot + n, -n), dot + n)
      ELSE Finish(DelFrwd(buf, dot, n), dot)
  BY DEF EraseRegion
<1>3. n \in Int /\ -n \in Int /\ dot + n \in Nat \ {0} /\ dot \in Int
  BY <1>1, <1>a
<1> HIDE DEF n
<1>4. CASE n < 0
  <2> DEFINE at == dot + n
             k  == -n
  <2>1. Finish(DelFrwd(buf, at, k), at) /\ at \in Nat \ {0} /\ at \in Int /\ k \in Int
    BY <1>2, <1>3, <1>4
  <2> HIDE DEF at, k
  <2> QED
    BY <2>1, <1>0, Deleting
<1>5. CASE ~(n < 0)
  <2>1. Finish(DelFrwd(buf, dot, n), dot)
    BY <1>2, <1>5
  <2> QED
    BY <2>1, <1>0, <1>3, <1>a, Deleting
<1> QED
  BY <1>4, <1>5

(* A restriction set from two places of the text is a legal one. *)
LEMMA RestrictedGood ==
  ASSUME NEW b, Good(b), NEW lo \in Nat \ {0}, NEW hi \in Nat \ {0},
         hi <= Length(b) + 1
  PROVE  /\ Good(Restricted(b, lo, hi)) /\ Restricted(b, lo, hi) \in Buffer
         /\ Restricted(b, lo, hi).mark = b.mark
<1> DEFINE g == Restricted(b, lo, hi)
           t == Length(b) + 1 - hi
<1>a. b \in Buffer /\ WellFormed(b) /\ Length(b) \in Nat
  BY GoodFacts DEF Good, Sound
<1>1. t \in Nat /\ t <= Length(b) /\ lo \in Nat /\ lo >= 1
  BY <1>a
<1>2. g = [ b EXCEPT !.head = lo, !.tail = t ]
  BY DEF Restricted
<1> HIDE DEF g, t
<1>3. /\ g \in Buffer /\ g.mem = b.mem /\ g.size = b.size /\ g.s1 = b.s1
      /\ g.gap = b.gap /\ g.s2 = b.s2 /\ g.mark = b.mark
      /\ g.head = lo /\ g.tail = t
  BY <1>1, <1>2, <1>a DEF Buffer
<1>4. WellFormed(g) /\ Length(g) = Length(b) /\ ~Lost(g)
  BY <1>1, <1>3, <1>a DEF WellFormed, Length, Lost, Good
<1>5. \A i : CharAt(g, i) = CharAt(b, i)
  BY <1>3 DEF CharAt
<1>6. Sound(g, Held)
  BY <1>3, <1>4, <1>5 DEF Good, Sound, Clean, Inside
<1>7. Good(g)
  BY <1>1, <1>3, <1>4, <1>6 DEF Good
<1> QED
  BY <1>3, <1>7 DEF g

LEMMA NarrowWidenKeeps ==
  ASSUME IInv, NarrowRegion \/ WidenRegion
  PROVE  IInv'
<1>0. ~Lost(buf)
  BY DEF NarrowRegion, WidenRegion, Ready
<1>a. Good(buf) /\ dot \in Nat \ {0} /\ dot <= Length(buf) + 1 /\ dot \in Int
  BY <1>0, Starting
<1>1. CASE NarrowRegion
  <2> DEFINE m == ToMark(buf, Mark)
  <2>1. m \in Nat \ {0} /\ m <= Length(buf) + 1
    BY <1>1, <1>a, HeldFacts, ToMarkInText DEF NarrowRegion, IsSet
  <2>2. \/ Finish(Restricted(buf, dot, m), dot)
        \/ Finish(Restricted(buf, m, dot), dot)
    BY <1>1 DEF NarrowRegion
  <2> HIDE DEF m
  <2> QED
    BY <2>1, <2>2, <1>a, RestrictedGood, Finishing
<1>2. CASE WidenRegion
  <2> DEFINE b == [ buf EXCEPT !.head = 1, !.tail = 0 ]
  <2>1. Length(buf) \in Nat
    BY <1>a, GoodFacts
  <2>2. Length(buf) + 1 - (Length(buf) + 1) = 0 /\ Length(buf) + 1 \in Nat \ {0}
        /\ Length(buf) + 1 <= Length(buf) + 1
    BY <2>1
  <2>3. b = Restricted(buf, 1, Length(buf) + 1)
    BY <2>2 DEF Restricted
  <2>4. Good(b) /\ b \in Buffer
    BY <2>2, <2>3, <1>a, RestrictedGood
  <2>5. Finish(b, dot)
    BY <1>2 DEF WidenRegion
  <2> HIDE DEF b
  <2> QED
    BY <2>4, <2>5, <1>a, Finishing
<1> QED
  BY <1>1, <1>2

LEMMA EnterKeeps ==
  ASSUME IInv, EnterSaveRestriction
  PROVE  IInv'
<1>0. ~Lost(buf)
  BY DEF EnterSaveRestriction, Ready
<1>a. Good(buf) /\ dot \in Int /\ Sound(buf, Held) /\ buf.tail <= Length(buf)
  BY <1>0, Starting
<1> DEFINE g == SetMark(buf, Lo, buf.head)
           N == NumCharacters(buf)
           h == SetMark(g, Hi, N + 1)
<1>b. buf.head \in Nat \ {0} /\ N + 1 \in Nat \ {0} /\ N + 1 <= Length(buf) + 1
  <2>1. Sizes(buf) /\ N \in Nat /\ buf.tail + N = Length(buf)
    BY <1>a, GoodFacts
  <2> QED
    BY <2>1 DEF Sizes
<1>1. Finish(h, dot)
  BY DEF EnterSaveRestriction
<1> HIDE DEF N
<1>q. /\ Lo \in Marker /\ buf.head \in Nat \ {0} /\ Held \in SUBSET Marker
      /\ Lo \in Held => buf.head <= Length(buf) + 1
  BY <1>b, HeldFacts
<1>2. /\ Sound(g, Held) /\ g.mark[Lo] # 0
      /\ g.s1 = buf.s1 /\ g.s2 = buf.s2 /\ g.size = buf.size
      /\ g.head = buf.head /\ g.tail = buf.tail
  BY <1>a, <1>q, SetMarkSound, ZenonT(30)
<1> HIDE DEF g
<1>3. N + 1 <= Length(g) + 1
  BY <1>2, <1>b DEF Length
<1>p. /\ Hi \in Marker /\ N + 1 \in Nat \ {0} /\ Held \in SUBSET Marker
      /\ Hi \in Held => N + 1 <= Length(g) + 1
  BY <1>b, <1>3, HeldFacts
<1>4. /\ Sound(h, Held) /\ h.mark[Hi] # 0
      /\ OthersKept(g, h, Hi)
      /\ h.s1 = g.s1 /\ h.s2 = g.s2 /\ h.size = g.size
      /\ h.head = g.head /\ h.tail = g.tail
  BY <1>p, <1>2, SetMarkSound, ZenonT(30)
<1> HIDE DEF h
<1>5. h.mark[Lo] # 0
  BY <1>2, <1>4, HeldFacts, MarkerAssumption DEF OthersKept
<1>6. Good(h) /\ h \in Buffer
  BY <1>2, <1>4, <1>5, <1>a DEF Good, Lost, Length, Sound, WellFormed
<1> QED
  BY <1>1, <1>6, <1>a, Finishing

LEMMA LeaveKeeps ==
  ASSUME IInv, LeaveSaveRestriction
  PROVE  IInv'
<1>0. ~Lost(buf)
  BY DEF LeaveSaveRestriction, Ready
<1>a. Good(buf) /\ dot \in Int
  BY <1>0, Starting
<1> DEFINE outer == Restricted(buf, ToMark(buf, Lo), ToMark(buf, Hi))
           freed == [ outer EXCEPT !.mark[Lo] = 0, !.mark[Hi] = 0 ]
<1>1. Finish(freed, Clamped(buf, dot))
  BY DEF LeaveSaveRestriction
<1>2. buf.mark[Lo] # 0 /\ buf.mark[Hi] # 0
  BY <1>a DEF LeaveSaveRestriction, IsSet, Good
<1>3. /\ ToMark(buf, Lo) \in Nat \ {0} /\ ToMark(buf, Hi) \in Nat \ {0}
      /\ ToMark(buf, Hi) <= Length(buf) + 1
  BY <1>a, <1>2, HeldFacts, ToMarkInText
<1>4. Good(outer) /\ outer \in Buffer /\ outer.mark = buf.mark
  BY <1>3, <1>a, RestrictedGood
<1> HIDE DEF outer
<1>5. freed = [ outer EXCEPT !.mark = [ [ outer.mark EXCEPT ![Lo] = 0 ] EXCEPT ![Hi] = 0 ] ]
  BY <1>4 DEF Buffer
<1> HIDE DEF freed
<1>6. /\ freed \in Buffer
      /\ freed.mem = outer.mem /\ freed.size = outer.size /\ freed.s1 = outer.s1
      /\ freed.gap = outer.gap /\ freed.s2 = outer.s2
      /\ freed.head = outer.head /\ freed.tail = outer.tail
      /\ freed.mark = [ [ outer.mark EXCEPT ![Lo] = 0 ] EXCEPT ![Hi] = 0 ]
  BY <1>4, <1>5 DEF Buffer
<1>7. /\ freed.mark[Lo] = 0 /\ freed.mark[Hi] = 0
      /\ \A m \in Marker : freed.mark[m] = 0 \/ freed.mark[m] = outer.mark[m]
  BY <1>4, <1>6, HeldFacts, MarkerAssumption DEF Buffer
<1>8. WellFormed(freed) /\ Length(freed) = Length(outer) /\ ~Lost(freed)
  BY <1>4, <1>6 DEF Good, Sound, WellFormed, Length, Lost
<1>9. \A i : CharAt(freed, i) = CharAt(outer, i)
  BY <1>6 DEF CharAt
<1>10. \A m \in Held : Inside(freed, m)
  <2> TAKE m \in Held
  <2>1. Inside(outer, m) /\ Sizes(outer)
    BY <1>4, GoodFacts DEF Good, Sound
  <2> QED
    BY <2>1, <1>6, <1>7, HeldFacts DEF Inside, Sizes
<1>11. Good(freed)
  BY <1>4, <1>6, <1>7, <1>8, <1>9, <1>10 DEF Good, Sound, Clean
<1>12. Clamped(buf, dot) \in Int
  BY <1>a, ClampedInRange
<1> QED
  BY <1>1, <1>6, <1>11, <1>12, Finishing

LEMMA ReplaceKeeps ==
  ASSUME IInv, ReplaceBuffer
  PROVE  IInv'
<1>1. Good(NewBf) /\ NewBf \in Buffer
  BY NewBfGood, GoodFacts
<1> QED
  BY <1>1, Finishing DEF ReplaceBuffer

(***************************************************************************)
(* The invariant, and what follows from it.                                *)
(***************************************************************************)
LEMMA InitIInv == Init => IInv
<1> SUFFICES ASSUME Init PROVE IInv
  OBVIOUS
<1>1. Good(NewBf) /\ NewBf \in Buffer /\ InRange(NewBf, 1)
  BY NewBfGood, GoodFacts
<1>2. /\ job \in [ do : {"nothing", "insert", "word"}, left : Nat,
                   c : Cell, back : BOOLEAN, del : BOOLEAN ]
      /\ job.do = "nothing"
  BY DEF Init, Idle, Cell
<1> QED
  BY <1>1, <1>2 DEF Init, IInv, TypeOK, Good

LEMMA NextIInv == IInv /\ [Next]_vars => IInv'
<1> SUFFICES ASSUME IInv, [Next]_vars PROVE IInv'
  OBVIOUS
<1>1. CASE UNCHANGED vars
  BY <1>1 DEF vars, IInv, TypeOK, Good, InRange
<1>2. CASE \E arg \in Args : \/ ForwardCharacter(arg) \/ BackwardCharacter(arg)
                             \/ EndOfLine(arg)
  BY <1>2, ArgsAssumption, MotionKeeps
<1>3. CASE BeginningOfFile \/ EndOfFile \/ BeginningOfLine
  BY <1>3, 0 \in Int, MotionKeeps
<1>4. CASE (\E c \in Char, arg \in Args : SelfInsert(c, arg)) \/ SelfInsertAgain
  BY <1>4, SelfInsertKeeps
<1>5. CASE \E arg \in Args : DeleteNextCharacter(arg) \/ DeletePreviousCharacter(arg)
  BY <1>5, ArgsAssumption, DeletionKeeps
<1>6. CASE DeleteWhiteSpace
  BY <1>6, 0 \in Int, DeletionKeeps
<1>7. CASE TransposeCharacters
  BY <1>7, TransposeKeeps
<1>8. CASE (\E back, del \in BOOLEAN, arg \in Args : Word(back, del, arg)) \/ WordAgain
  BY <1>8, WordKeeps
<1>9. CASE SetMarkCommand \/ ExchangeDotAndMark
  BY <1>9, MarkKeeps
<1>10. CASE EraseRegion
  BY <1>10, EraseRegionKeeps
<1>11. CASE NarrowRegion \/ WidenRegion
  BY <1>11, NarrowWidenKeeps
<1>12. CASE EnterSaveRestriction
  BY <1>12, EnterKeeps
<1>13. CASE LeaveSaveRestriction
  BY <1>13, LeaveKeeps
<1>14. CASE ReplaceBuffer
  BY <1>14, ReplaceKeeps
<1> QED
  BY <1>1, <1>2, <1>3, <1>4, <1>5, <1>6, <1>7, <1>8, <1>9, <1>10, <1>11,
     <1>12, <1>13, <1>14 DEF Next

(* The types of the editor's variables: however commands, repetitions and   *)
(* failed allocations follow one another.                                   *)
THEOREM EditorTypes == Spec => []TypeOK
<1>1. IInv => TypeOK
  BY DEF IInv
<1> QED
  BY <1>1, InitIInv, NextIInv, PTL DEF Spec

(* The three parts of the block always add up to it, every marker but Lo is *)
(* in it, and no cell of the gap is part of the text.                       *)
THEOREM EditorBufferSound == Spec => []BufferSound
<1>1. IInv => BufferSound
  BY DEF IInv, Good, Sound, Held, BufferSound
<1> QED
  BY <1>1, InitIInv, NextIInv, PTL DEF Spec

(* Dot is always a place of the text, whatever the restriction.             *)
THEOREM EditorDotInText == Spec => []DotInText
<1>1. IInv => DotInText
  BY DEF IInv, Good, InRange, DotInText
<1> QED
  BY <1>1, InitIInv, NextIInv, PTL DEF Spec

(***************************************************************************)
(* Editor implements TextBuffer, and keeps the hidden text, for every      *)
(* character set, marker set, argument set and bound.                      *)
(*                                                                         *)
(* IInv does not say enough: a deletion reaches no hidden text because dot *)
(* is either in the visible text or just past it, even where EraseRegion   *)
(* has left the head of the restriction beyond the end.                    *)
(***************************************************************************)
(* Dot is not before the restriction, unless it is at the end of the text. *)
Seen(b, d) == d >= b.head \/ d = NumCharacters(b) + 1

Extra == IF Lost(buf) THEN Gone(buf) ELSE Seen(buf, dot)
VInv  == IInv /\ Extra

(* The restriction stays, and the markers that are set stay set. *)
Frame(b, g) == /\ g.head = b.head /\ g.tail = b.tail
               /\ \A m \in Marker : g.mark[m] = 0 <=> b.mark[m] = 0

(* What the commands but two do to the text: nothing, an insertion at dot,  *)
(* or a deletion of visible text.                                           *)
Spares ==
  \/ Lost(buf) \/ Lost(buf')
  \/ Text(buf') = Text(buf)
  \/ \E c \in Char : Inserted(buf, buf', dot, c)
  \/ \E n \in Nat \ {0}, k \in Nat :
       buf.head <= n /\ n + k <= NumCharacters(buf) + 1 /\ Removed(buf, buf', n, k)

(* The places of the markers, 0 for those that are not set. *)
Places(b) == [ m \in Marker |-> IF b.mark[m] # 0 THEN ToMark(b, m) ELSE 0 ]

(***************************************************************************)
(* The terms of the abstract specification.                                *)
(***************************************************************************)
LEMMA PlacesAre ==
  ASSUME NEW b, WellFormed(b)
  PROVE  /\ Places(b) = [ m \in Marker |-> ToMark(b, m) ]
         /\ \A m \in Marker : Places(b)[m] = ToMark(b, m) /\ Places(b)[m] \in Nat
         /\ \A m \in Marker : b.mark[m] = 0 <=> Places(b)[m] = 0
<1>1. \A m \in Marker : ToMark(b, m) \in Nat /\ (b.mark[m] = 0 <=> ToMark(b, m) = 0)
  BY MarkType
<1> QED
  BY <1>1 DEF Places

LEMMA AbstractMarks ==
  /\ [ m \in Marker |-> IF IsSet(m) THEN ToMark(buf, m) ELSE 0 ] = Places(buf)
  /\ [ m \in Marker |-> IF IsSet(m) THEN ToMark(buf, m) ELSE 0 ]' = Places(buf')
BY DEF Places, IsSet

LEMMA PlacesAlike ==
  ASSUME NEW b, NEW g, WellFormed(b), WellFormed(g), Alike(b, g)
  PROVE  Places(g) = Places(b)
<1>1. /\ Places(b) = [ m \in Marker |-> ToMark(b, m) ]
      /\ Places(g) = [ m \in Marker |-> ToMark(g, m) ]
  BY PlacesAre
<1> QED
  BY <1>1 DEF Alike

LEMMA PlacesPushed ==
  ASSUME NEW b, NEW g, WellFormed(b), WellFormed(g),
         NEW n, NEW c, Inserted(b, g, n, c)
  PROVE  Abstract!Pushed(Places(b), Places(g), n, 1)
<1>1. \A m \in Marker : Places(b)[m] = ToMark(b, m) /\ Places(g)[m] = ToMark(g, m)
  BY PlacesAre
<1> QED
  BY <1>1 DEF Inserted, Abstract!Pushed

LEMMA PlacesPulled ==
  ASSUME NEW b, NEW g, WellFormed(b), WellFormed(g),
         NEW n, NEW k, Removed(b, g, n, k)
  PROVE  Places(g) = Abstract!Pulled(Places(b), n, k)
<1>1. /\ \A m \in Marker : Places(b)[m] = ToMark(b, m)
      /\ Places(g) = [ m \in Marker |-> ToMark(g, m) ]
  BY PlacesAre
<1> QED
  BY <1>1 DEF Removed, Abstract!Pulled

LEMMA RemovedNothing ==
  ASSUME NEW b, NEW g, WellFormed(b), NEW n \in Nat \ {0}, Removed(b, g, n, 0)
  PROVE  Alike(b, g)
<1>1. Sizes(b) /\ Length(b) \in Nat
  BY Fields DEF Sizes, Length
<1>2. \A m \in Marker : ToMark(b, m) \in Nat
  BY MarkType
<1>3. Length(g) = Length(b)
  BY <1>1 DEF Removed
<1>4. \A i \in 1..Length(b) : CharAt(g, i) = CharAt(b, i)
  <2> TAKE i \in 1..Length(b)
  <2>1. i + 0 = i
    OBVIOUS
  <2> QED
    BY <2>1, <1>3 DEF Removed
<1>5. \A m \in Marker : ToMark(g, m) = ToMark(b, m)
  BY <1>2 DEF Removed
<1> QED
  BY <1>3, <1>4, <1>5 DEF Alike

LEMMA Before ==
  ASSUME VInv, ~Lost(buf)
  PROVE  /\ Good(buf) /\ WellFormed(buf) /\ Clean(buf) /\ Sound(buf, Held)
         /\ Sizes(buf) /\ buf.tail <= Length(buf)
         /\ dot \in Nat \ {0} /\ InRange(buf, dot) /\ Seen(buf, dot)
         /\ dot <= NumCharacters(buf) + 1 /\ dot <= Length(buf) + 1
         /\ Length(buf) \in Nat /\ NumCharacters(buf) \in Nat
         /\ NumCharacters(buf) = Length(buf) - buf.tail
         /\ Text(buf) \in Seq(Char) /\ Len(Text(buf)) = Length(buf)
         /\ Abstract!Num = NumCharacters(buf) /\ Abstract!End = Length(buf) + 1
<1>1. Good(buf) /\ dot \in Nat \ {0} /\ InRange(buf, dot) /\ dot <= Length(buf) + 1
  BY Starting DEF VInv
<1>2. WellFormed(buf) /\ Clean(buf) /\ Sound(buf, Held) /\ buf.tail <= Length(buf)
  BY <1>1 DEF Good, Sound
<1>3. Sizes(buf) /\ Length(buf) \in Nat /\ NumCharacters(buf) \in Nat
  BY <1>1, GoodFacts
<1>4. Text(buf) \in Seq(Char) /\ Len(Text(buf)) = Length(buf)
  BY <1>2, TextIsSeq
<1>5. Seen(buf, dot)
  BY DEF VInv, Extra
<1> QED
  BY <1>1, <1>2, <1>3, <1>4, <1>5
  DEF NumCharacters, InRange, Abstract!Num, Abstract!End

LEMMA After ==
  ASSUME IInv', ~Lost(buf')
  PROVE  /\ Good(buf') /\ WellFormed(buf') /\ Clean(buf') /\ Sizes(buf')
         /\ dot' \in Int /\ InRange(buf', dot')
<1>1. Good(buf') /\ InRange(buf', dot') /\ dot' \in Int
  BY DEF IInv, TypeOK
<1> QED
  BY <1>1, GoodFacts DEF Good, Sound

(* Where Finish puts dot: back into sight, and nowhere else if it was there.*)
LEMMA ClampedSeen ==
  ASSUME NEW b, Good(b), NEW d, Clamped(b, d) \in Int
  PROVE  /\ Seen(b, Clamped(b, d))
         /\ d \in Int /\ Seen(b, d) /\ InRange(b, d) => Clamped(b, d) = d
<1>1. b.head \in Nat /\ NumCharacters(b) \in Nat
  BY GoodFacts DEF Sizes
<1> QED
  BY <1>1 DEF Seen, Clamped, InRange, FirstCharacter

(***************************************************************************)
(* The kinds of steps.                                                     *)
(***************************************************************************)
LEMMA MoveRefines ==
  ASSUME VInv, ~Lost(buf), IInv', ~Lost(buf'), Alike(buf, buf'), Frame(buf, buf')
  PROVE  Abstract!Move /\ Spares
<1>1. /\ WellFormed(buf) /\ WellFormed(buf') /\ InRange(buf', dot') /\ dot' \in Int
      /\ Abstract!Num = NumCharacters(buf) /\ NumCharacters(buf) \in Nat
  BY Before, After
<1>2. Text(buf') = Text(buf)
  BY TextAlike
<1>3. UNCHANGED [ m \in Marker |-> IF IsSet(m) THEN ToMark(buf, m) ELSE 0 ]
  BY <1>1, PlacesAlike, AbstractMarks
<1>4. UNCHANGED << Text(buf), buf.head, buf.tail, Lost(buf) >>
  BY <1>2 DEF Frame, Lost
<1>5. dot' \in 1..(Abstract!Num + 1)
  BY <1>1 DEF Frame, Alike, NumCharacters, InRange
<1> QED
  BY <1>2, <1>3, <1>4, <1>5 DEF Abstract!Move, Spares

LEMMA LoseRefines ==
  ASSUME Gone(buf')
  PROVE  Abstract!Lose /\ Spares /\ Extra'
<1>1. Length(buf') = 0
  BY DEF Gone, Length
<1>2. Text(buf') = << >>
  BY <1>1 DEF Text
<1>3. Lost(buf)' = TRUE
  BY DEF Gone, Lost
<1> QED
  BY <1>2, <1>3 DEF Abstract!Lose, Spares, Extra

LEMMA TypeRefines ==
  ASSUME VInv, ~Lost(buf), IInv', ~Lost(buf'), NEW c \in Char,
         Inserted(buf, buf', dot, c), Frame(buf, buf'), dot' = dot + 1
  PROVE  Abstract!Type(c) /\ Spares
<1>1. /\ WellFormed(buf) /\ Clean(buf) /\ WellFormed(buf') /\ Clean(buf')
      /\ dot \in 1..(Length(buf) + 1)
  BY Before, After
<1>2. Text(buf)' = Abstract!Spliced(dot, << c >>)
  BY <1>1, TextInserted DEF Abstract!Spliced
<1>3. Abstract!Pushed(Places(buf), Places(buf'), dot, 1)
  BY <1>1, PlacesPushed
<1>4. UNCHANGED << buf.head, buf.tail, Lost(buf) >>
  BY DEF Frame, Lost
<1>5. Abstract!Type(c)
  BY <1>2, <1>3, <1>4, AbstractMarks DEF Abstract!Type
<1> QED
  BY <1>5 DEF Spares

LEMMA CutRefines ==
  ASSUME VInv, ~Lost(buf), IInv', ~Lost(buf'), NEW n \in Nat \ {0}, NEW k \in Nat,
         Removed(buf, buf', n, k), Frame(buf, buf'), n + k <= NumCharacters(buf) + 1
  PROVE  /\ Text(buf)' = Abstract!Cut(Text(buf), n, k)
         /\ Places(buf') = Abstract!Pulled(Places(buf), n, k)
         /\ UNCHANGED << buf.head, buf.tail, Lost(buf) >>
         /\ NumCharacters(buf') = NumCharacters(buf) - k
<1>1. /\ WellFormed(buf) /\ Clean(buf) /\ WellFormed(buf') /\ Clean(buf')
      /\ n + k <= Length(buf) + 1 /\ Sizes(buf) /\ Length(buf) \in Nat
  BY Before, After, SMTT(40) DEF Sizes
<1>2. Text(buf)' = Abstract!Cut(Text(buf), n, k)
  BY <1>1, TextRemoved DEF Abstract!Cut
<1>3. Places(buf') = Abstract!Pulled(Places(buf), n, k)
  BY <1>1, PlacesPulled
<1>4. UNCHANGED << buf.head, buf.tail, Lost(buf) >>
  BY DEF Frame, Lost
<1>5. NumCharacters(buf') = NumCharacters(buf) - k
  BY <1>1 DEF Frame, NumCharacters, Removed, Sizes
<1> QED
  BY <1>2, <1>3, <1>4, <1>5

LEMMA EraseRefines ==
  ASSUME VInv, ~Lost(buf), IInv', ~Lost(buf'), NEW n \in Nat \ {0}, NEW k \in Nat,
         Removed(buf, buf', n, k), Frame(buf, buf'), dot' = n,
         buf.head <= n, n <= dot, dot <= n + k, n + k <= NumCharacters(buf) + 1
  PROVE  /\ \E x, y \in 0..Len(Text(buf)) + 1 : Abstract!Erase(x, y)
         /\ Spares
<1>1. /\ n \in 0..Len(Text(buf)) + 1 /\ k \in 0..Len(Text(buf)) + 1
      /\ Abstract!Num = NumCharacters(buf)
  BY Before DEF Sizes
<1>2. /\ Text(buf)' = Abstract!Cut(Text(buf), n, k)
      /\ Places(buf') = Abstract!Pulled(Places(buf), n, k)
      /\ UNCHANGED << buf.head, buf.tail, Lost(buf) >>
  BY CutRefines
<1>3. Abstract!Erase(n, k)
  BY <1>1, <1>2, AbstractMarks DEF Abstract!Erase
<1>4. Spares
  BY DEF Spares
<1> QED
  BY <1>1, <1>3, <1>4

LEMMA Finished ==
  ASSUME IInv', NEW b, Good(b), NEW d, Finish(b, d)
  PROVE  /\ buf' = b /\ ~Lost(buf') /\ dot' = Clamped(b, d) /\ Extra'
         /\ d \in Int /\ Seen(b, d) /\ InRange(b, d) => dot' = d
<1>1. buf' = b /\ dot' = Clamped(b, d) /\ ~Lost(b)
  BY DEF Finish, Good
<1>2. Clamped(b, d) \in Int
  BY <1>1, After
<1> QED
  BY <1>1, <1>2, ClampedSeen DEF Extra

(***************************************************************************)
(* The commands.                                                           *)
(***************************************************************************)
LEMMA OnlyMoves ==
  ASSUME VInv, IInv', ~Lost(buf), NEW d, Finish(buf, d)
  PROVE  Abstract!Move /\ Spares /\ Extra'
<1>1. buf' = buf /\ ~Lost(buf') /\ Extra'
  BY Before, Finished
<1>2. Alike(buf, buf') /\ Frame(buf, buf')
  BY <1>1 DEF Alike, Frame
<1> QED
  BY <1>1, <1>2, MoveRefines

LEMMA MotionRefines ==
  ASSUME VInv, IInv', NEW arg,
         \/ ForwardCharacter(arg) \/ BackwardCharacter(arg) \/ EndOfLine(arg)
         \/ BeginningOfFile \/ EndOfFile \/ BeginningOfLine
  PROVE  Abstract!Move /\ Spares /\ Extra' /\ ~Lost(buf)
<1>1. Ready /\ \E d : Finish(buf, d)
  BY DEF ForwardCharacter, BackwardCharacter, EndOfLine, BeginningOfFile,
         EndOfFile, BeginningOfLine
<1> QED
  BY <1>1, OnlyMoves DEF Ready

(* What an insertion does to the abstract buffer. *)
LEMMA InsertFacts ==
  ASSUME NEW b, Good(b), NEW n \in Nat \ {0}, n <= Length(b) + 1,
         NEW c \in Char, NEW granted \in BOOLEAN
  PROVE  LET g == Insert(b, n, << c >>, granted)
         IN  IF Lost(g) THEN Gone(g)
             ELSE Good(g) /\ Inserted(b, g, n, c) /\ Frame(b, g)
<1> DEFINE g == Insert(b, n, << c >>, granted)
<1>1. Sound(b, Held) /\ ~Lost(b) /\ Held \in SUBSET Marker /\ << c >> \in Seq(Char)
  BY HeldFacts DEF Good
<1>2. IF Lost(g) THEN Gone(g) ELSE Preserves(b, g, Held)
  BY <1>1, InsertSound
<1>3. ~Lost(g) => Inserted(b, g, n, c) /\ Good(g)
  BY <1>1, InsertInserts, InsertingOne
<1> HIDE DEF g
<1>4. CASE Lost(g)
  BY <1>2, <1>4 DEF g
<1>5. CASE ~Lost(g)
  BY <1>2, <1>3, <1>5 DEF g, Preserves, Frame
<1> QED
  BY <1>4, <1>5

LEMMA SelfInsertRefines ==
  ASSUME VInv, IInv', ~Lost(buf), NEW c \in Char, NEW left, SelfInsertRound(c, left)
  PROVE  (Abstract!Lose \/ Abstract!Type(c)) /\ Spares /\ Extra'
<1>a. /\ Good(buf) /\ dot \in Nat \ {0} /\ dot <= Length(buf) + 1
      /\ Sizes(buf) /\ Length(buf) \in Nat /\ NumCharacters(buf) \in Nat
      /\ InRange(buf, dot) /\ Seen(buf, dot)
  BY Before
<1>1. PICK granted \in BOOLEAN :
        LET b == Insert(buf, dot, << c >>, granted)
        IN  IF left > 1 /\ ~Lost(b)
            THEN /\ buf' = b /\ dot' = dot + 1
                 /\ job' = [ Idle EXCEPT !.do = "insert", !.left = left - 1, !.c = c ]
            ELSE Finish(b, dot + 1)
  BY DEF SelfInsertRound
<1> DEFINE b == Insert(buf, dot, << c >>, granted)
<1>2. IF Lost(b) THEN Gone(b) ELSE Good(b) /\ Inserted(buf, b, dot, c) /\ Frame(buf, b)
  BY <1>a, InsertFacts
<1>3. \/ ~Lost(b) /\ buf' = b /\ dot' = dot + 1
      \/ Finish(b, dot + 1)
  BY <1>1
<1> HIDE DEF b
<1>4. CASE Lost(b)
  BY <1>2, <1>3, <1>4, LoseRefines DEF Finish
<1>5. CASE ~Lost(b)
  <2>0. b.head = buf.head /\ b.tail = buf.tail /\ Length(b) = Length(buf) + 1
    BY <1>2, <1>5 DEF Inserted, Frame
  <2>1. NumCharacters(b) = NumCharacters(buf) + 1
    BY <2>0, <1>a DEF NumCharacters, Sizes
  <2>2. Seen(b, dot + 1) /\ InRange(b, dot + 1)
    <3>1. dot >= buf.head \/ dot = NumCharacters(buf) + 1
      BY <1>a DEF Seen
    <3>2. dot + 1 >= b.head \/ dot + 1 = NumCharacters(b) + 1
      BY <3>1, <2>0, <2>1, <1>a DEF Sizes
    <3>3. 1 <= dot + 1 /\ dot + 1 <= NumCharacters(b) + 1
      BY <2>1, <1>a DEF InRange
    <3> QED
      BY <3>2, <3>3 DEF Seen, InRange
  <2>3. CASE buf' = b /\ dot' = dot + 1
    BY <2>2, <2>3, <1>2, <1>5, TypeRefines DEF Extra
  <2>4. CASE Finish(b, dot + 1)
    <3>1. buf' = b /\ dot' = dot + 1 /\ Extra'
      BY <2>2, <2>4, <1>2, <1>5, <1>a, Finished
    <3> QED
      BY <3>1, <1>2, <1>5, TypeRefines
  <2> QED
    BY <2>3, <2>4, <1>3, <1>5
<1> QED
  BY <1>4, <1>5

(* What a deletion does to the abstract buffer. *)
LEMMA DeleteFacts ==
  ASSUME NEW b, Good(b), NEW n \in Nat \ {0}, n <= NumCharacters(b) + 1, NEW k \in Int
  PROVE  /\ LET d == Taken(k, NumCharacters(b) + 1 - n)
            IN  /\ d \in Nat /\ Good(DelFrwd(b, n, k)) /\ Frame(b, DelFrwd(b, n, k))
                /\ Removed(b, DelFrwd(b, n, k), n, d)
                /\ n + d <= NumCharacters(b) + 1
         /\ LET d == Taken(k, n - b.head)
            IN  /\ d \in Nat /\ Good(DelBack(b, n, k)) /\ Frame(b, DelBack(b, n, k))
                /\ Removed(b, DelBack(b, n, k), n - d, d)
                /\ d > 0 => n - d >= b.head
<1>1. /\ Sound(b, Held) /\ b.tail <= Length(b) /\ Held \in SUBSET Marker
      /\ NumCharacters(b) \in Nat /\ b.head \in Nat
  BY GoodFacts, HeldFacts DEF Good, Sizes
<1>2. /\ Good(DelFrwd(b, n, k)) /\ Frame(b, DelFrwd(b, n, k))
      /\ Removed(b, DelFrwd(b, n, k), n, Taken(k, NumCharacters(b) + 1 - n))
  <2> DEFINE g == DelFrwd(b, n, k)
  <2>1. Preserves(b, g, Held) /\ b.tail <= Length(g)
    BY <1>1, DelFrwdSound
  <2>2. Removed(b, g, n, Taken(k, NumCharacters(b) + 1 - n))
    BY <1>1, DelFrwdRemoves
  <2> HIDE DEF g
  <2>3. Good(g) /\ Frame(b, g)
    BY <2>1, StaysGood DEF Preserves, Frame
  <2> QED
    BY <2>2, <2>3 DEF g
<1>3. /\ Good(DelBack(b, n, k)) /\ Frame(b, DelBack(b, n, k))
      /\ Removed(b, DelBack(b, n, k), n - Taken(k, n - b.head), Taken(k, n - b.head))
  <2> DEFINE g == DelBack(b, n, k)
  <2>1. Preserves(b, g, Held) /\ b.tail <= Length(g)
    BY <1>1, DelBackSound
  <2>2. Removed(b, g, n - Taken(k, n - b.head), Taken(k, n - b.head))
    BY <1>1, DelBackRemoves
  <2> HIDE DEF g
  <2>3. Good(g) /\ Frame(b, g)
    BY <2>1, StaysGood DEF Preserves, Frame
  <2> QED
    BY <2>2, <2>3 DEF g
<1>4. /\ Taken(k, NumCharacters(b) + 1 - n) \in Nat
      /\ n + Taken(k, NumCharacters(b) + 1 - n) <= NumCharacters(b) + 1
  <2> DEFINE r == NumCharacters(b) + 1 - n
  <2>1. r \in Int /\ r >= 0
    BY <1>1
  <2> HIDE DEF r
  <2>2. Taken(k, r) \in Nat /\ Taken(k, r) <= r
    <3>1. Taken(k, r) \in Nat /\ (Taken(k, r) > 0 => Taken(k, r) <= r)
      BY <2>1, TakenType, Zenon
    <3> QED
      BY <3>1, <2>1
  <2>3. n + Taken(k, r) <= NumCharacters(b) + 1
    BY <2>1, <2>2, <1>1 DEF r
  <2> QED
    BY <2>2, <2>3 DEF r
<1>5. /\ Taken(k, n - b.head) \in Nat
      /\ Taken(k, n - b.head) > 0 => n - Taken(k, n - b.head) >= b.head
  <2> DEFINE r == n - b.head
  <2>0. r \in Int
    BY <1>1
  <2>1. Taken(k, r) \in Nat /\ (Taken(k, r) > 0 => Taken(k, r) <= r)
    BY <2>0, TakenType, Zenon
  <2>2. Taken(k, r) > 0 => n - Taken(k, r) >= b.head
    <3> DEFINE x == Taken(k, r)
    <3>1. x \in Nat /\ (x > 0 => x <= n - b.head)
      BY <2>1
    <3> HIDE DEF x
    <3> QED
      BY <3>1, <1>1 DEF x
  <2> QED
    BY <2>1, <2>2
<1> QED
  BY <1>2, <1>3, <1>4, <1>5

(* A deletion around dot that ends with dot where the text was: a move when *)
(* there was nothing to delete.                                             *)
LEMMA DeletionRefines ==
  ASSUME VInv, ~Lost(buf), IInv', ~Lost(buf'), NEW n \in Nat \ {0}, NEW k \in Nat,
         Removed(buf, buf', n, k), Frame(buf, buf'),
         k > 0 => /\ dot' = n /\ buf.head <= n /\ n <= dot /\ dot <= n + k
                  /\ n + k <= NumCharacters(buf) + 1
  PROVE  /\ \/ Abstract!Move
            \/ \E x, y \in 0..Len(Text(buf)) + 1 : Abstract!Erase(x, y)
         /\ Spares
<1>1. CASE k > 0
  BY <1>1, EraseRefines
<1>2. CASE k = 0
  <2>1. Alike(buf, buf')
    BY <1>2, RemovedNothing, Before
  <2> QED
    BY <2>1, MoveRefines
<1> QED
  BY <1>1, <1>2

Erasing == \/ Abstract!Move
           \/ \E x, y \in 0..Len(Text(buf)) + 1 : Abstract!Erase(x, y)

LEMMA DeleteNextRefines ==
  ASSUME VInv, IInv', NEW arg \in Int, DeleteNextCharacter(arg)
  PROVE  Erasing /\ Spares /\ Extra' /\ ~Lost(buf)
<1>0. ~Lost(buf) /\ Finish(DelFrwd(buf, dot, arg), dot)
  BY DEF DeleteNextCharacter, Ready
<1>a. /\ Good(buf) /\ dot \in Nat \ {0} /\ dot <= NumCharacters(buf) + 1
      /\ NumCharacters(buf) \in Nat /\ Seen(buf, dot) /\ Sizes(buf)
      /\ Length(buf) \in Nat /\ NumCharacters(buf) = Length(buf) - buf.tail
  BY <1>0, Before
<1> DEFINE g == DelFrwd(buf, dot, arg)
           d == Taken(arg, NumCharacters(buf) + 1 - dot)
<1>1. /\ d \in Nat /\ Good(g) /\ Frame(buf, g) /\ Removed(buf, g, dot, d)
      /\ dot + d <= NumCharacters(buf) + 1
  BY <1>a, DeleteFacts
<1>2. Finish(g, dot)
  BY <1>0
<1> HIDE DEF g, d
<1>3. NumCharacters(g) = NumCharacters(buf) - d /\ g.head = buf.head
  BY <1>1, <1>a DEF Removed, Frame, NumCharacters, Sizes
<1>4. d > 0 => dot >= buf.head
  BY <1>1, <1>a DEF Seen
<1>5. d > 0 => Seen(g, dot) /\ InRange(g, dot)
  BY <1>1, <1>3, <1>4, <1>a DEF Seen, InRange
<1>6. buf' = g /\ ~Lost(buf') /\ Extra' /\ (d > 0 => dot' = dot)
  BY <1>1, <1>2, <1>5, <1>a, Finished
<1>7. dot <= dot /\ dot <= dot + d
  BY <1>1, <1>a
<1> QED
  BY <1>0, <1>1, <1>4, <1>6, <1>7, <1>a, DeletionRefines DEF Erasing

LEMMA DeletePreviousRefines ==
  ASSUME VInv, IInv', NEW arg \in Int, DeletePreviousCharacter(arg)
  PROVE  Erasing /\ Spares /\ Extra' /\ ~Lost(buf)
<1>0. ~Lost(buf) /\ Finish(DelBack(buf, dot, arg), dot - arg)
  BY DEF DeletePreviousCharacter, Ready
<1>a. /\ Good(buf) /\ dot \in Nat \ {0} /\ dot <= NumCharacters(buf) + 1
      /\ NumCharacters(buf) \in Nat /\ Seen(buf, dot) /\ Sizes(buf)
      /\ Length(buf) \in Nat /\ NumCharacters(buf) = Length(buf) - buf.tail
  BY <1>0, Before
<1> DEFINE g == DelBack(buf, dot, arg)
           d == Taken(arg, dot - buf.head)
           n == dot - d
<1>1. /\ d \in Nat /\ Good(g) /\ Frame(buf, g) /\ Removed(buf, g, n, d)
      /\ d > 0 => n >= buf.head
  BY <1>a, DeleteFacts
<1>2. Finish(g, dot - arg)
  BY <1>0
<1>3. d > 0 => d = Lesser(arg, dot - buf.head)
  BY DEF Taken
<1> HIDE DEF g, d
<1>4. g.head = buf.head /\ NumCharacters(g) = NumCharacters(buf) - d
  BY <1>1, <1>a DEF Removed, Frame, NumCharacters, Sizes
<1>5. d > 0 => Clamped(g, dot - arg) = n
  <2> SUFFICES ASSUME d > 0 PROVE Clamped(g, dot - arg) = n
    OBVIOUS
  <2>1. d = (IF arg < dot - buf.head THEN arg ELSE dot - buf.head)
    BY <1>3 DEF Lesser
  <2>2. n >= buf.head /\ buf.head \in Nat
    BY <1>1, <1>a DEF Sizes
  <2>3. (IF dot - arg < buf.head THEN buf.head ELSE dot - arg) = n
    BY <2>1, <2>2, <1>1, <1>a
  <2>4. n <= NumCharacters(g) + 1 /\ n \in Nat
    BY <2>2, <1>1, <1>4, <1>a
  <2>5. NumCharacters(g) \in Int
    BY <1>1, <1>4, <1>a
  <2> HIDE DEF n
  <2>6. (IF n > NumCharacters(g) THEN NumCharacters(g) + 1 ELSE n) = n
    BY <2>4, <2>5
  <2> QED
    BY <2>3, <2>6, <1>4 DEF Clamped, FirstCharacter
<1>6. buf' = g /\ dot' = Clamped(g, dot - arg) /\ ~Lost(buf') /\ Extra'
  BY <1>1, <1>2, Finished
<1>7. /\ n \in Nat \ {0}
      /\ d > 0 => n <= dot /\ dot <= n + d /\ n + d <= NumCharacters(buf) + 1
  <2>1. CASE d > 0
    BY <2>1, <1>1, <1>a DEF Sizes
  <2>2. CASE d = 0
    BY <2>2, <1>a
  <2> QED
    BY <2>1, <2>2, <1>1
<1>8. d > 0 => dot' = n /\ buf.head <= n
  BY <1>1, <1>5, <1>6, <1>a DEF Sizes
<1> HIDE DEF n
<1> QED
  BY <1>0, <1>1, <1>6, <1>7, <1>8, DeletionRefines DEF Erasing

LEMMA WhiteSpaceRefines ==
  ASSUME VInv, IInv', DeleteWhiteSpace
  PROVE  Erasing /\ Spares /\ Extra' /\ ~Lost(buf)
<1>0. ~Lost(buf)
  BY DEF DeleteWhiteSpace, Ready
<1>a. /\ Good(buf) /\ dot \in Nat \ {0} /\ dot <= NumCharacters(buf) + 1
      /\ NumCharacters(buf) \in Nat /\ Seen(buf, dot) /\ Sizes(buf)
      /\ Length(buf) \in Nat /\ NumCharacters(buf) = Length(buf) - buf.tail
  BY <1>0, Before
<1> DEFINE after  == RunAfter(buf, dot, White)
           before == RunBefore(buf, dot, White)
           n == dot - before
           k == after + before
<1>1. /\ after \in Nat /\ dot + after <= NumCharacters(buf) + 1
      /\ before \in Nat /\ (before # 0 => n >= buf.head)
  BY <1>a, RunAfterBound, RunBeforeBound
<1>2. Finish(IF k > 0 THEN DelFrwd(buf, n, k) ELSE buf, n)
  BY DEF DeleteWhiteSpace
<1> HIDE DEF after, before
<1>3. CASE k > 0
  <2> DEFINE g == DelFrwd(buf, n, k)
  <2>1. n >= buf.head /\ n \in Nat \ {0} /\ k \in Nat
    <3>1. CASE before # 0
      BY <3>1, <1>1, <1>a DEF Sizes
    <3>2. CASE before = 0
      <4>1. dot <= NumCharacters(buf)
        BY <3>2, <1>1, <1>3, <1>a
      <4>2. dot >= buf.head
        BY <4>1, <1>a DEF Seen
      <4> QED
        BY <4>2, <3>2, <1>1, <1>a
    <3> QED
      BY <3>1, <3>2
  <2>2. n <= dot /\ dot <= n + k /\ n + k <= NumCharacters(buf) + 1
        /\ n <= NumCharacters(buf) + 1
    BY <1>1, <1>a
  <2>3. Finish(g, n)
    BY <1>2, <1>3
  <2> HIDE DEF n, k
  <2>4. Taken(k, NumCharacters(buf) + 1 - n) = k
    <3> DEFINE r == NumCharacters(buf) + 1 - n
    <3>1. r \in Int /\ k <= r
      BY <2>1, <2>2, <1>a
    <3> HIDE DEF r
    <3>2. Taken(k, r) = k
      BY <3>1, <2>1, TakenAll
    <3> QED
      BY <3>2 DEF r
  <2>5. Good(g) /\ Frame(buf, g) /\ Removed(buf, g, n, k)
    BY <2>1, <2>2, <2>4, <1>a, DeleteFacts
  <2> HIDE DEF g
  <2>6. NumCharacters(g) = NumCharacters(buf) - k /\ g.head = buf.head
    BY <2>1, <2>5, <1>a DEF Removed, Frame, NumCharacters, Sizes
  <2>7. Seen(g, n) /\ InRange(g, n) /\ n \in Int
    BY <2>1, <2>2, <2>6, <1>a DEF Seen, InRange, Sizes
  <2>8. buf' = g /\ ~Lost(buf') /\ Extra' /\ dot' = n
    BY <2>3, <2>5, <2>7, Finished
  <2>9. buf.head <= n
    BY <2>1, <1>a DEF Sizes
  <2> QED
    BY <2>1, <2>2, <2>5, <2>8, <2>9, <1>0, DeletionRefines DEF Erasing
<1>4. CASE ~(k > 0)
  BY <1>0, <1>2, <1>4, OnlyMoves DEF Erasing
<1> QED
  BY <1>3, <1>4

(* One round of a word command. *)
LEMMA WordRoundRefines ==
  ASSUME VInv, IInv', ~Lost(buf), NEW back \in BOOLEAN, NEW del \in BOOLEAN,
         NEW left, WordRound(back, del, left)
  PROVE  Erasing /\ Spares /\ Extra'
<1> DEFINE n == IF back THEN WordBefore(buf, dot) ELSE WordAfter(buf, dot)
           b == IF ~del \/ n = 0 THEN buf
                ELSE IF back THEN DelBack(buf, dot, n) ELSE DelFrwd(buf, dot, n)
           d == IF back THEN dot - n ELSE IF del THEN dot ELSE dot + n
<1>a. /\ Good(buf) /\ dot \in Nat \ {0} /\ dot <= NumCharacters(buf) + 1
      /\ NumCharacters(buf) \in Nat /\ Seen(buf, dot) /\ Sizes(buf) /\ WellFormed(buf)
      /\ Length(buf) \in Nat /\ NumCharacters(buf) = Length(buf) - buf.tail
      /\ InRange(buf, dot)
  BY Before
<1>1. /\ n \in Nat
      /\ back /\ n # 0 => dot - n >= buf.head
      /\ ~back => dot + n <= NumCharacters(buf) + 1
  BY <1>a, WordBeforeBound, WordAfterBound DEF InRange
<1>2. \/ n > 0 /\ buf' = b /\ dot' = d
      \/ Finish(b, d)
  BY DEF WordRound
<1> HIDE DEF n
<1>3. CASE ~del \/ n = 0
  <2>1. b = buf
    BY <1>3
  <2>2. CASE Finish(b, d)
    BY <2>1, <2>2, OnlyMoves DEF Erasing
  <2>3. CASE n > 0 /\ buf' = b /\ dot' = d
    <3>1. buf' = buf /\ ~Lost(buf') /\ Alike(buf, buf') /\ Frame(buf, buf')
      BY <2>1, <2>3 DEF Alike, Frame
    <3>2. Seen(buf, d)
      <4>1. CASE back
        BY <4>1, <2>3, <1>1, <1>a DEF Seen
      <4>2. CASE ~back
        <5>1. d = dot + n
          BY <4>2, <2>3, <1>3, <1>1
        <5>2. dot >= buf.head
          BY <4>2, <2>3, <1>1, <1>a DEF Seen
        <5> QED
          BY <5>1, <5>2, <1>1, <1>a DEF Seen, Sizes
      <4> QED
        BY <4>1, <4>2
    <3> QED
      BY <3>1, <3>2, <2>3, MoveRefines DEF Extra, Erasing
  <2> QED
    BY <2>2, <2>3, <1>2
<1>4. CASE del /\ n # 0 /\ back
  <2> DEFINE g == DelBack(buf, dot, n)
  <2>1. b = g /\ d = dot - n /\ n \in Nat \ {0} /\ dot - n >= buf.head
    BY <1>4, <1>1
  <2> DEFINE r == dot - buf.head
  <2>2. r \in Int /\ n <= r
    BY <2>1, <1>a DEF Sizes
  <2> HIDE DEF r
  <2>3. Taken(n, r) = n
    BY <2>1, <2>2, TakenAll
  <2>4. Taken(n, dot - buf.head) = n
    BY <2>3 DEF r
  <2>5. Good(g) /\ Frame(buf, g) /\ Removed(buf, g, dot - n, n)
    BY <2>1, <2>4, <1>a, DeleteFacts
  <2> HIDE DEF g
  <2>6. /\ NumCharacters(g) = NumCharacters(buf) - n /\ g.head = buf.head
        /\ dot - n \in Nat \ {0} /\ buf.head <= dot - n
        /\ dot - n <= dot /\ dot <= (dot - n) + n
        /\ (dot - n) + n <= NumCharacters(buf) + 1
    BY <2>1, <2>5, <1>a DEF Removed, Frame, NumCharacters, Sizes
  <2> DEFINE at == dot - n
  <2>7. Seen(g, at) /\ InRange(g, at) /\ at \in Int
    BY <2>1, <2>6, <1>a DEF Seen, InRange, Sizes
  <2>8. (buf' = g /\ dot' = at) \/ Finish(g, at)
    BY <1>2, <2>1
  <2> HIDE DEF at
  <2>9. buf' = g /\ ~Lost(buf') /\ Extra' /\ dot' = at
    <3>1. CASE Finish(g, at)
      BY <3>1, <2>5, <2>7, Finished
    <3>2. CASE buf' = g /\ dot' = at
      BY <3>2, <2>5, <2>7 DEF Extra, Good
    <3> QED
      BY <3>1, <3>2, <2>8
  <2> QED
    BY <2>1, <2>5, <2>6, <2>9, DeletionRefines DEF Erasing, at
<1>5. CASE del /\ n # 0 /\ ~back
  <2> DEFINE g == DelFrwd(buf, dot, n)
  <2>1. b = g /\ d = dot /\ n \in Nat \ {0} /\ dot + n <= NumCharacters(buf) + 1
    BY <1>5, <1>1
  <2> DEFINE r == NumCharacters(buf) + 1 - dot
  <2>2. r \in Int /\ n <= r
    BY <2>1, <1>a
  <2> HIDE DEF r
  <2>3. Taken(n, r) = n
    BY <2>1, <2>2, TakenAll
  <2>4. Taken(n, NumCharacters(buf) + 1 - dot) = n
    BY <2>3 DEF r
  <2>5. Good(g) /\ Frame(buf, g) /\ Removed(buf, g, dot, n)
    BY <2>1, <2>4, <1>a, DeleteFacts
  <2> HIDE DEF g
  <2>6. /\ NumCharacters(g) = NumCharacters(buf) - n /\ g.head = buf.head
        /\ dot <= dot /\ dot <= dot + n
    BY <2>1, <2>5, <1>a DEF Removed, Frame, NumCharacters, Sizes
  <2>a. buf.head <= dot
    BY <2>1, <1>a DEF Seen, Sizes
  <2>7. Seen(g, dot) /\ InRange(g, dot) /\ dot \in Int
    BY <2>1, <2>6, <2>a, <1>a DEF Seen, InRange, Sizes
  <2>9. buf' = g /\ ~Lost(buf') /\ Extra' /\ dot' = dot
    <3>1. CASE Finish(g, dot)
      BY <3>1, <2>5, <2>7, Finished
    <3>2. CASE buf' = g /\ dot' = dot
      BY <3>2, <2>5, <2>7 DEF Extra, Good
    <3> QED
      BY <3>1, <3>2, <1>2, <2>1
  <2> QED
    BY <2>1, <2>5, <2>6, <2>a, <2>9, <1>a, DeletionRefines DEF Erasing
<1> QED
  BY <1>3, <1>4, <1>5

(* The character before the one before dot takes its place.  At the head of *)
(* the restriction nothing is deleted.                                      *)
LEMMA TransposeRefines ==
  ASSUME VInv, IInv', TransposeCharacters
  PROVE  /\ ~Lost(buf) /\ Extra'
         /\ \/ (Abstract!Move \/ Abstract!Lose) /\ Spares
            \/ Abstract!Transpose
<1>0. ~Lost(buf)
  BY DEF TransposeCharacters, Ready
<1>a. /\ Good(buf) /\ dot \in Nat \ {0} /\ dot <= NumCharacters(buf) + 1
      /\ NumCharacters(buf) \in Nat /\ Seen(buf, dot) /\ Sizes(buf) /\ WellFormed(buf)
      /\ Clean(buf) /\ dot <= Length(buf) + 1
      /\ Length(buf) \in Nat /\ NumCharacters(buf) = Length(buf) - buf.tail
      /\ InRange(buf, dot)
  BY <1>0, Before
<1>1. CASE dot < 3
  <2>1. Finish(buf, dot)
    BY <1>1 DEF TransposeCharacters
  <2> QED
    BY <2>1, <1>0, OnlyMoves
<1>2. CASE ~(dot < 3)
  <2> DEFINE g == DelBack(buf, dot, 1)
             c == CharAt(buf, dot - 1)
             d == Taken(1, dot - buf.head)
  <2>1. c \in Char /\ Text(buf)[dot - 1] = c
    <3>1. dot - 1 \in 1..Length(buf)
      BY <1>2, <1>a
    <3> QED
      BY <3>1, <1>a, TextIsSeq DEF Clean
  <2>2. PICK granted \in BOOLEAN : Finish(Insert(g, dot - 2, << c >>, granted), dot)
    BY <1>2 DEF TransposeCharacters
  <2>3. d = IF dot <= buf.head THEN 0 ELSE 1
    BY <1>a DEF Taken, Lesser, Sizes
  <2>4. Good(g) /\ Frame(buf, g) /\ Removed(buf, g, dot - d, d)
    BY <1>a, DeleteFacts
  <2> HIDE DEF g, c, d
  <2>5. WellFormed(g) /\ Clean(g) /\ Length(g) = Length(buf) - d
    BY <2>4 DEF Good, Sound, Removed
  <2>6. dot - 2 \in Nat \ {0} /\ dot - 2 <= Length(g) + 1 /\ dot - 2 \in 1..(Length(g) + 1)
    BY <2>3, <2>5, <1>2, <1>a
  <2> DEFINE b == Insert(g, dot - 2, << c >>, granted)
  <2>7. IF Lost(b) THEN Gone(b) ELSE Good(b) /\ Inserted(g, b, dot - 2, c) /\ Frame(g, b)
    BY <2>1, <2>4, <2>6, InsertFacts
  <2>8. Finish(b, dot)
    BY <2>2
  <2> HIDE DEF b
  <2>9. CASE Lost(b)
    BY <2>7, <2>8, <2>9, <1>0, LoseRefines DEF Finish
  <2>10. CASE ~Lost(b)
    <3>1. /\ Good(b) /\ Inserted(g, b, dot - 2, c) /\ Frame(g, b) /\ Frame(buf, b)
          /\ WellFormed(b) /\ Clean(b)
      BY <2>4, <2>7, <2>10 DEF Frame, Good, Sound
    <3>2. buf' = b /\ ~Lost(buf') /\ Extra' /\ dot' = Clamped(b, dot)
      BY <2>8, <3>1, Finished
    <3>3. Text(g) = IF dot <= buf.head THEN Text(buf) ELSE Abstract!Cut(Text(buf), dot - 1, 1)
      <4>1. CASE dot <= buf.head
        <5>1. Removed(buf, g, dot, 0)
          BY <4>1, <2>3, <2>4, <1>a
        <5> QED
          BY <5>1, <4>1, <1>a, RemovedNothing, TextAlike
      <4>2. CASE ~(dot <= buf.head)
        <5>1. Removed(buf, g, dot - 1, 1)
          BY <4>2, <2>3, <2>4
        <5> DEFINE n == dot - 1
        <5>2. n \in Nat \ {0} /\ n + 1 <= Length(buf) + 1 /\ Removed(buf, g, n, 1)
          BY <5>1, <1>2, <1>a
        <5> HIDE DEF n
        <5>3. Text(g) = SubSeq(Text(buf), 1, n - 1)
                         \o SubSeq(Text(buf), n + 1, Len(Text(buf)))
          BY <5>2, <2>5, <1>a, 1 \in Nat, TextRemoved, Zenon
        <5>4. Text(g) = Abstract!Cut(Text(buf), n, 1)
          BY <5>3 DEF Abstract!Cut
        <5> QED
          BY <5>4, <4>2 DEF n
      <4> QED
        BY <4>1, <4>2
    <3>4. Places(g) = IF dot <= buf.head THEN Places(buf)
                      ELSE Abstract!Pulled(Places(buf), dot - 1, 1)
      <4>1. CASE dot <= buf.head
        <5>1. Removed(buf, g, dot, 0)
          BY <4>1, <2>3, <2>4, <1>a
        <5> QED
          BY <5>1, <4>1, <2>5, <1>a, RemovedNothing, PlacesAlike
      <4>2. CASE ~(dot <= buf.head)
        <5>1. Removed(buf, g, dot - 1, 1)
          BY <4>2, <2>3, <2>4
        <5> QED
          BY <5>1, <4>2, <2>5, <1>a, PlacesPulled
      <4> QED
        BY <4>1, <4>2
    <3>5. Text(b) = SubSeq(Text(g), 1, dot - 3) \o << c >>
                      \o SubSeq(Text(g), dot - 2, Len(Text(g)))
      <4> DEFINE n == dot - 2
      <4>1. n \in 1..(Length(g) + 1) /\ Inserted(g, b, n, c) /\ n - 1 = dot - 3
        BY <3>1, <2>6, <1>a
      <4> HIDE DEF n
      <4>2. Text(b) = SubSeq(Text(g), 1, n - 1) \o << c >>
                        \o SubSeq(Text(g), n, Len(Text(g)))
        BY <4>1, <3>1, <2>1, <2>5, TextInserted
      <4> QED
        BY <4>1, <4>2 DEF n
    <3>6. Abstract!Pushed(Places(g), Places(b), dot - 2, 1)
      BY <3>1, <2>5, PlacesPushed
    <3>7. dot' = dot \/ (dot < buf.head /\ dot' = dot + 1)
      <4>1. /\ NumCharacters(b) = NumCharacters(buf) - d + 1 /\ b.head = buf.head
            /\ b.tail = buf.tail
        <5>1. Length(b) = Length(buf) - d + 1 /\ b.head = buf.head /\ b.tail = buf.tail
          BY <3>1, <2>5 DEF Inserted, Frame
        <5> QED
          BY <5>1, <2>3, <1>a DEF NumCharacters, Sizes
      <4>2. dot >= buf.head \/ dot = NumCharacters(buf) + 1
        BY <1>a DEF Seen
      <4> DEFINE N == NumCharacters(b)
                 M == NumCharacters(buf)
                 h == buf.head
                 low == IF dot < h THEN h ELSE dot
      <4>3. dot' = IF low > N THEN N + 1 ELSE low
        BY <4>1, <3>2 DEF Clamped, FirstCharacter
      <4>4. h \in Nat /\ M \in Nat /\ N = M - d + 1 /\ (dot >= h \/ dot = M + 1)
            /\ dot \in Nat /\ dot <= M + 1
        BY <4>1, <4>2, <1>a DEF Sizes
      <4>5. d = IF dot <= h THEN 0 ELSE 1
        BY <2>3
      <4> HIDE DEF N, M, h
      <4>6. CASE dot > h
        BY <4>3, <4>4, <4>5, <4>6
      <4>7. CASE dot = h
        BY <4>3, <4>4, <4>5, <4>7
      <4>8. CASE dot < h
        BY <4>3, <4>4, <4>5, <4>8 DEF h
      <4> QED
        BY <4>4, <4>6, <4>7, <4>8
    <3>8. UNCHANGED << buf.head, buf.tail, Lost(buf) >>
      BY <3>1, <3>2, <1>0 DEF Frame, Lost
    <3>9. dot >= 3
      BY <1>2, <1>a
    <3>10. Text(buf)' = Text(b) /\ Places(buf') = Places(b)
      BY <3>2
    <3>11. Abstract!Transpose
      BY <3>3, <3>4, <3>5, <3>6, <3>7, <3>8, <3>9, <3>10, <2>1, AbstractMarks
      DEF Abstract!Transpose
    <3> QED
      BY <3>2, <3>11, <1>0
  <2> QED
    BY <2>9, <2>10
<1> QED
  BY <1>1, <1>2

(* The region is erased as far as the visible text goes, hidden or not at   *)
(* its beginning.                                                           *)
LEMMA EraseRegionRefines ==
  ASSUME VInv, IInv', EraseRegion
  PROVE  Abstract!EraseRegion /\ Extra' /\ ~Lost(buf)
<1>0. ~Lost(buf) /\ buf.mark[Mark] # 0
  BY DEF EraseRegion, Ready, IsSet
<1>a. /\ Good(buf) /\ dot \in Nat \ {0} /\ dot <= NumCharacters(buf) + 1
      /\ NumCharacters(buf) \in Nat /\ Sizes(buf) /\ WellFormed(buf)
      /\ Length(buf) \in Nat /\ NumCharacters(buf) = Length(buf) - buf.tail
      /\ Abstract!Num = NumCharacters(buf)
  BY <1>0, Before
<1> DEFINE m == ToMark(buf, Mark)
           n == IF m < dot THEN m ELSE dot
           last == IF m < dot THEN dot ELSE m
           N == NumCharacters(buf)
           k == (IF last > N + 1 THEN N + 1 ELSE last) - n
           g == DelFrwd(buf, n, last - n)
           d == Taken(last - n, N + 1 - n)
<1>1. m \in Nat \ {0}
  BY <1>0, <1>a, HeldFacts, ToMarkInText
<1>2. \E to : Finish(g, to)
  <2> DEFINE j == m - dot
  <2>1. IF j < 0 THEN Finish(DelFrwd(buf, dot + j, -j), dot + j)
        ELSE Finish(DelFrwd(buf, dot, j), dot)
    BY DEF EraseRegion
  <2>2. CASE m < dot
    <3>1. j < 0 /\ dot + j = n /\ -j = last - n
      BY <2>2, <1>1, <1>a
    <3> HIDE DEF j, n, last, m
    <3> QED
      BY <3>1, <2>1
  <2>3. CASE ~(m < dot)
    <3>1. ~(j < 0) /\ dot = n /\ j = last - n
      BY <2>3, <1>1, <1>a
    <3> HIDE DEF j, n, last, m
    <3> QED
      BY <3>1, <2>1
  <2> QED
    BY <2>2, <2>3
<1>3. /\ n \in Nat \ {0} /\ n <= N + 1 /\ last - n \in Int /\ last >= n /\ last \in Nat
  BY <1>1, <1>a
<1>n. Places(buf)[Mark] = m
  BY <1>a, PlacesAre, HeldFacts
<1> HIDE DEF m
<1>b. N \in Nat
  BY <1>a
<1>4. d = k /\ k \in Nat /\ n + k <= N + 1
  <2> HIDE DEF n, last, N
  <2> QED
    BY <1>3, <1>b DEF Taken, Lesser
<1>5. d \in Nat /\ Good(g) /\ Frame(buf, g) /\ Removed(buf, g, n, d)
  <2> HIDE DEF n, last
  <2> QED
    BY <1>3, <1>a, DeleteFacts
<1> HIDE DEF g, d
<1>6. buf' = g /\ ~Lost(buf') /\ Extra'
  BY <1>2, <1>5, Finished
<1>7. /\ Text(buf)' = Abstract!Cut(Text(buf), n, k)
      /\ Places(buf') = Abstract!Pulled(Places(buf), n, k)
      /\ UNCHANGED << buf.head, buf.tail, Lost(buf) >>
      /\ NumCharacters(buf') = N - k
  <2> HIDE DEF n, k, last
  <2> QED
    BY <1>0, <1>3, <1>4, <1>5, <1>6, CutRefines
<1>8. dot' \in 1..(N - k + 1)
  <2>1. InRange(buf', dot') /\ dot' \in Int
    BY <1>6, After
  <2> HIDE DEF n, k, last, N
  <2> QED
    BY <2>1, <1>7, <1>4, <1>b DEF InRange
<1>9. m # 0
  BY <1>1
<1> QED
  BY <1>0, <1>6, <1>7, <1>8, <1>9, <1>n, <1>a, AbstractMarks DEF Abstract!EraseRegion

(***************************************************************************)
(* The mark and the restriction.                                           *)
(***************************************************************************)
(* Setting a marker changes nothing but its place. *)
LEMMA MarkFacts ==
  ASSUME NEW b, Sound(b, Held), NEW m \in Marker, NEW pos \in Nat \ {0},
         m \in Held => pos <= Length(b) + 1
  PROVE  LET g == SetMark(b, m, pos)
         IN  /\ Sound(g, Held) /\ OthersKept(b, g, m) /\ g.mark[m] # 0
             /\ Length(g) = Length(b) /\ Text(g) = Text(b)
             /\ g.head = b.head /\ g.tail = b.tail /\ g.size = b.size
             /\ Places(g) = [ Places(b) EXCEPT ![m] = pos ]
<1> DEFINE g == SetMark(b, m, pos)
           p == IF pos > b.s1 + 1 THEN pos + b.gap ELSE pos
<1>a. Sound(b, Held) /\ Held \in SUBSET Marker /\ WellFormed(b) /\ Sizes(b) /\ b \in Buffer
  BY HeldFacts, Fields DEF Sound, WellFormed
<1>s. Sound(b, Held) /\ Held \in SUBSET Marker
  BY <1>a
<1>p. m \in Marker /\ pos \in Nat \ {0} /\ (m \in Held => pos <= Length(b) + 1)
  OBVIOUS
<1>1. /\ Sound(g, Held) /\ g.mark[m] # 0 /\ OthersKept(b, g, m)
      /\ g.s1 = b.s1 /\ g.s2 = b.s2 /\ g.size = b.size
      /\ g.head = b.head /\ g.tail = b.tail
  <2>1. \A M \in SUBSET Marker, o \in Marker, at \in Nat \ {0} : \A x :
          (o \in M => at <= Length(x) + 1) /\ Sound(x, M)
            => LET y == SetMark(x, o, at)
               IN  /\ Sound(y, M) /\ y.mark[o] # 0 /\ OthersKept(x, y, o)
                   /\ y.s1 = x.s1 /\ y.s2 = x.s2 /\ y.size = x.size
                   /\ y.head = x.head /\ y.tail = x.tail
    BY SetMarkSound
  <2> QED
    BY <2>1, <1>s, <1>p
<1>2. g.mem = b.mem /\ g.gap = b.gap /\ g.mark[m] = p
  <2>1. g = [ b EXCEPT !.mark[m] = p ]
    BY DEF SetMark
  <2> QED
    BY <2>1, <1>a DEF Buffer
<1> HIDE DEF g
<1>3. Length(g) = Length(b) /\ Text(g) = Text(b)
  BY <1>1, <1>2 DEF Length, Text, CharAt
<1>4. ToMark(g, m) = pos
  <2>1. g.s1 = b.s1 /\ g.gap = b.gap /\ b.s1 \in Nat /\ b.gap \in Nat
    BY <1>1, <1>2, <1>a DEF Sizes
  <2>2. ToMark(g, m) = IF p <= b.s1 THEN p
                       ELSE IF p <= b.s1 + b.gap THEN b.s1 + 1 ELSE p - b.gap
    BY <2>1, <1>2 DEF ToMark, Position
  <2> QED
    BY <2>1, <2>2
<1>5. \A o \in Marker \ {m} : ToMark(g, o) = ToMark(b, o) /\ g.mark[o] = b.mark[o]
  BY <1>1, <1>2 DEF OthersKept, ToMark, Position
<1>6. Places(g) = [ Places(b) EXCEPT ![m] = pos ]
  BY <1>1, <1>4, <1>5 DEF Places
<1> QED
  BY <1>1, <1>3, <1>6 DEF g

LEMMA MarkRefines ==
  ASSUME VInv, IInv', SetMarkCommand \/ ExchangeDotAndMark
  PROVE  /\ ~Lost(buf) /\ Extra' /\ Spares
         /\ Abstract!SetMark \/ Abstract!Exchange
<1>0. ~Lost(buf)
  BY DEF SetMarkCommand, ExchangeDotAndMark, Ready
<1>a. /\ Good(buf) /\ dot \in Nat \ {0} /\ dot <= Length(buf) + 1 /\ WellFormed(buf)
      /\ Seen(buf, dot) /\ InRange(buf, dot) /\ Abstract!Num = NumCharacters(buf)
  BY <1>0, Before
<1> DEFINE b == SetMark(buf, Mark, dot)
<1>1. /\ Sound(b, Held) /\ OthersKept(buf, b, Mark)
      /\ Length(b) = Length(buf) /\ Text(b) = Text(buf)
      /\ b.head = buf.head /\ b.tail = buf.tail /\ b.size = buf.size
      /\ Places(b) = [ Places(buf) EXCEPT ![Mark] = dot ]
  BY <1>a, HeldFacts, MarkFacts DEF Good
<1>2. \E to : Finish(b, to)
  BY DEF SetMarkCommand, ExchangeDotAndMark
<1>3. SetMarkCommand => Finish(b, dot)
  BY DEF SetMarkCommand
<1>4. ExchangeDotAndMark => Finish(b, ToMark(buf, Mark)) /\ buf.mark[Mark] # 0
  BY DEF ExchangeDotAndMark, IsSet
<1> HIDE DEF b
<1>5. Good(b) /\ NumCharacters(b) = NumCharacters(buf)
  <2>1. b.mark[Lo] = buf.mark[Lo] /\ b.mark[Hi] = buf.mark[Hi]
    BY <1>1, HeldFacts, MarkerAssumption DEF OthersKept
  <2> QED
    BY <2>1, <1>1, <1>a DEF Good, Lost, NumCharacters
<1>6. buf' = b /\ ~Lost(buf') /\ Extra'
  BY <1>2, <1>5, Finished
<1>7. UNCHANGED << Text(buf), buf.head, buf.tail, Lost(buf) >> /\ Spares
  BY <1>0, <1>1, <1>6 DEF Lost, Spares
<1>8. Places(buf') = [ Places(buf) EXCEPT ![Mark] = dot ]
  BY <1>1, <1>6
<1>9. CASE SetMarkCommand
  <2>1. Seen(b, dot) /\ InRange(b, dot)
    BY <1>1, <1>5, <1>a DEF Seen, InRange
  <2>2. dot' = dot
    BY <2>1, <1>3, <1>5, <1>9, <1>a, Finished
  <2>3. Abstract!SetMark
    BY <2>2, <1>7, <1>8, AbstractMarks DEF Abstract!SetMark
  <2> QED
    BY <2>3, <1>0, <1>6, <1>7
<1>10. CASE ExchangeDotAndMark
  <2>1. dot' = Clamped(b, ToMark(buf, Mark))
    BY <1>4, <1>5, <1>10, Finished
  <2>2. Places(buf)[Mark] = ToMark(buf, Mark) /\ Places(buf)[Mark] # 0
    BY <1>4, <1>10, <1>a, PlacesAre, HeldFacts
  <2>3. dot' = Abstract!Visible(Places(buf)[Mark])
    BY <2>1, <2>2, <1>1, <1>5, <1>a DEF Clamped, FirstCharacter, Abstract!Visible
  <2>4. Abstract!Exchange
    BY <2>2, <2>3, <1>7, <1>8, AbstractMarks DEF Abstract!Exchange
  <2> QED
    BY <2>4, <1>0, <1>6, <1>7
<1> QED
  BY <1>9, <1>10

(* A buffer with another restriction shows the same text and places. *)
LEMMA RestrictedFacts ==
  ASSUME NEW b, Good(b), NEW lo \in Nat \ {0}, NEW hi \in Nat \ {0},
         hi <= Length(b) + 1
  PROVE  LET g == Restricted(b, lo, hi)
         IN  /\ Good(g) /\ g.mark = b.mark /\ g.size = b.size
             /\ g.head = lo /\ g.tail = Length(b) + 1 - hi
             /\ NumCharacters(g) = hi - 1 /\ Length(g) = Length(b)
             /\ Text(g) = Text(b) /\ Places(g) = Places(b)
<1> DEFINE g == Restricted(b, lo, hi)
<1>1. Good(g) /\ g.mark = b.mark
  BY RestrictedGood
<1>2. b \in Buffer /\ Length(b) \in Nat
  BY GoodFacts
<1>3. /\ g.mem = b.mem /\ g.size = b.size /\ g.s1 = b.s1 /\ g.gap = b.gap
      /\ g.s2 = b.s2 /\ g.head = lo /\ g.tail = Length(b) + 1 - hi
  BY <1>2 DEF Restricted, Buffer
<1> HIDE DEF g
<1>4. Length(g) = Length(b) /\ Text(g) = Text(b)
  BY <1>3 DEF Length, Text, CharAt
<1>5. NumCharacters(g) = hi - 1
  BY <1>2, <1>3, <1>4 DEF NumCharacters
<1>6. Places(g) = Places(b)
  BY <1>1, <1>3 DEF Places, ToMark, Position
<1> QED
  BY <1>1, <1>3, <1>4, <1>5, <1>6 DEF g

LEMMA NarrowRefines ==
  ASSUME VInv, IInv', NarrowRegion \/ WidenRegion
  PROVE  /\ ~Lost(buf) /\ Extra' /\ Spares
         /\ Abstract!Narrow \/ Abstract!Widen
<1>0. ~Lost(buf)
  BY DEF NarrowRegion, WidenRegion, Ready
<1>a. /\ Good(buf) /\ dot \in Nat \ {0} /\ dot <= Length(buf) + 1 /\ WellFormed(buf)
      /\ buf \in Buffer /\ Length(buf) \in Nat /\ Abstract!End = Length(buf) + 1
  BY <1>0, Before DEF WellFormed
<1>1. ASSUME NEW lo \in Nat \ {0}, NEW hi \in Nat \ {0}, hi <= Length(buf) + 1,
             lo <= dot, dot <= hi, Finish(Restricted(buf, lo, hi), dot)
      PROVE  /\ Abstract!Restrict(lo, hi) /\ Places(buf') = Places(buf)
             /\ dot' = dot /\ Extra' /\ Spares
  <2> DEFINE g == Restricted(buf, lo, hi)
  <2>1. /\ Good(g) /\ g.size = buf.size /\ g.head = lo /\ g.tail = Length(buf) + 1 - hi
        /\ NumCharacters(g) = hi - 1 /\ Text(g) = Text(buf) /\ Places(g) = Places(buf)
    BY <1>1, <1>a, RestrictedFacts
  <2>2. Finish(g, dot)
    BY <1>1
  <2> HIDE DEF g
  <2>3. Seen(g, dot) /\ InRange(g, dot)
    BY <2>1, <1>1, <1>a DEF Seen, InRange
  <2>4. buf' = g /\ ~Lost(buf') /\ Extra' /\ dot' = dot
    BY <2>1, <2>2, <2>3, <1>a, Finished
  <2>5. UNCHANGED << Text(buf), Lost(buf) >>
    BY <2>1, <2>4, <1>0 DEF Lost
  <2>6. buf'.head = lo /\ buf'.tail = Abstract!End - hi
    BY <2>1, <2>4, <1>a
  <2>7. Abstract!Restrict(lo, hi)
    BY <2>5, <2>6 DEF Abstract!Restrict
  <2> QED
    BY <2>1, <2>4, <2>7 DEF Spares
<1>2. CASE NarrowRegion
  <2> DEFINE m == ToMark(buf, Mark)
  <2>1. /\ m \in Nat \ {0} /\ m <= Length(buf) + 1
        /\ Places(buf)[Mark] = m /\ Places(buf)[Mark] # 0
    BY <1>2, <1>a, HeldFacts, ToMarkInText, PlacesAre DEF NarrowRegion, IsSet
  <2>2. IF dot < m THEN Finish(Restricted(buf, dot, m), dot)
        ELSE Finish(Restricted(buf, m, dot), dot)
    BY <1>2 DEF NarrowRegion
  <2> HIDE DEF m
  <2>3. CASE dot < m
    <3>1. dot <= dot /\ dot <= m /\ Finish(Restricted(buf, dot, m), dot)
      BY <2>1, <2>2, <2>3, <1>a
    <3>2. /\ Abstract!Restrict(dot, m) /\ Places(buf') = Places(buf)
          /\ dot' = dot /\ Extra' /\ Spares
      BY <3>1, <2>1, <1>a, <1>1
    <3>3. Abstract!Narrow
      BY <3>2, <2>1, <2>3, AbstractMarks DEF Abstract!Narrow
    <3> QED
      BY <3>2, <3>3, <1>0
  <2>4. CASE ~(dot < m)
    <3>1. m <= dot /\ dot <= dot /\ Finish(Restricted(buf, m, dot), dot)
      BY <2>1, <2>2, <2>4, <1>a
    <3>2. /\ Abstract!Restrict(m, dot) /\ Places(buf') = Places(buf)
          /\ dot' = dot /\ Extra' /\ Spares
      BY <3>1, <2>1, <1>a, <1>1
    <3>3. Abstract!Narrow
      BY <3>1, <3>2, <2>1, AbstractMarks DEF Abstract!Narrow
    <3> QED
      BY <3>2, <3>3, <1>0
  <2> QED
    BY <2>3, <2>4
<1>3. CASE WidenRegion
  <2> DEFINE end == Length(buf) + 1
  <2>1. end \in Nat \ {0} /\ end <= Length(buf) + 1 /\ Length(buf) + 1 - end = 0
        /\ 1 \in Nat \ {0} /\ 1 <= dot /\ dot <= end
    BY <1>a
  <2>2. [ buf EXCEPT !.head = 1, !.tail = 0 ] = Restricted(buf, 1, end)
    BY <2>1 DEF Restricted
  <2>3. Finish(Restricted(buf, 1, end), dot)
    BY <2>2, <1>3 DEF WidenRegion
  <2> HIDE DEF end
  <2>4. /\ Abstract!Restrict(1, end) /\ Places(buf') = Places(buf)
        /\ dot' = dot /\ Extra' /\ Spares
    BY <2>1, <2>3, <1>1
  <2>5. Abstract!Widen
    BY <2>4, <1>a, AbstractMarks DEF Abstract!Widen, end
  <2> QED
    BY <2>4, <2>5, <1>0
<1> QED
  BY <1>2, <1>3

LEMMA SaveRefines ==
  ASSUME VInv, IInv', EnterSaveRestriction
  PROVE  ~Lost(buf) /\ Extra' /\ Spares /\ Abstract!Save
<1>0. ~Lost(buf) /\ buf.mark[Lo] = 0
  BY DEF EnterSaveRestriction, Ready, IsSet
<1>a. /\ Good(buf) /\ dot \in Nat \ {0} /\ dot <= Length(buf) + 1 /\ WellFormed(buf)
      /\ Seen(buf, dot) /\ InRange(buf, dot) /\ Sizes(buf) /\ buf.tail <= Length(buf)
      /\ Length(buf) \in Nat /\ NumCharacters(buf) \in Nat
      /\ NumCharacters(buf) = Length(buf) - buf.tail /\ Abstract!End = Length(buf) + 1
  BY <1>0, Before
<1> DEFINE g == SetMark(buf, Lo, buf.head)
           N == NumCharacters(buf) + 1
           h == SetMark(g, Hi, N)
<1>1. Finish(h, dot)
  BY DEF EnterSaveRestriction
<1>2. buf.head \in Nat \ {0} /\ N \in Nat \ {0} /\ N <= Length(buf) + 1
  BY <1>a DEF Sizes
<1>3. /\ Sound(g, Held) /\ OthersKept(buf, g, Lo) /\ g.mark[Lo] # 0
      /\ Length(g) = Length(buf) /\ Text(g) = Text(buf)
      /\ g.head = buf.head /\ g.tail = buf.tail /\ g.size = buf.size
      /\ Places(g) = [ Places(buf) EXCEPT ![Lo] = buf.head ]
  BY <1>2, <1>a, HeldFacts, MarkFacts DEF Good
<1>e. N = Length(buf) + 1 - buf.tail
  BY <1>a DEF Sizes
<1> HIDE DEF g, N
<1>p. Hi \in Marker /\ N \in Nat \ {0} /\ (Hi \in Held => N <= Length(g) + 1)
  BY <1>2, <1>3, HeldFacts
<1>4. /\ Sound(h, Held) /\ OthersKept(g, h, Hi) /\ h.mark[Hi] # 0
      /\ Length(h) = Length(g) /\ Text(h) = Text(g)
      /\ h.head = g.head /\ h.tail = g.tail /\ h.size = g.size
      /\ Places(h) = [ Places(g) EXCEPT ![Hi] = N ]
  <2>1. Sound(g, Held)
    BY <1>3
  <2> HIDE DEF h
  <2> QED
    BY <2>1, <1>p, MarkFacts, ZenonT(30) DEF h
<1> HIDE DEF h
<1>5. Good(h) /\ NumCharacters(h) = NumCharacters(buf)
  <2>1. h.mark[Lo] # 0
    BY <1>3, <1>4, HeldFacts, MarkerAssumption DEF OthersKept
  <2> QED
    BY <2>1, <1>3, <1>4, <1>a DEF Good, Lost, NumCharacters
<1>6. Seen(h, dot) /\ InRange(h, dot)
  BY <1>3, <1>4, <1>5, <1>a DEF Seen, InRange
<1>7. buf' = h /\ ~Lost(buf') /\ Extra' /\ dot' = dot
  BY <1>1, <1>5, <1>6, <1>a, Finished
<1>8. UNCHANGED << Text(buf), dot, buf.head, buf.tail, Lost(buf) >> /\ Spares
  BY <1>0, <1>3, <1>4, <1>7 DEF Lost, Spares
<1>9. Places(buf') = [ Places(buf) EXCEPT ![Lo] = buf.head, ![Hi] = Abstract!End - buf.tail ]
  <2>1. Places(buf') = [ [ Places(buf) EXCEPT ![Lo] = buf.head ] EXCEPT ![Hi] = N ]
    BY <1>3, <1>4, <1>7
  <2>2. N = Abstract!End - buf.tail
    <3>1. Abstract!End = Length(buf) + 1 /\ Length(buf) \in Int /\ buf.tail \in Int
      BY <1>a DEF Sizes
    <3> QED
      BY <3>1, <1>e
  <2> QED
    BY <2>1, <2>2
<1>10. Places(buf)[Lo] = 0
  BY <1>0, <1>a, PlacesAre, HeldFacts
<1>11. Abstract!Save
  BY <1>8, <1>9, <1>10, AbstractMarks DEF Abstract!Save
<1> QED
  BY <1>0, <1>7, <1>8, <1>11

LEMMA RestoreRefines ==
  ASSUME VInv, IInv', LeaveSaveRestriction
  PROVE  ~Lost(buf) /\ Extra' /\ Spares /\ Abstract!Restore
<1>0. ~Lost(buf) /\ buf.mark[Lo] # 0
  BY DEF LeaveSaveRestriction, Ready, IsSet
<1>a. /\ Good(buf) /\ dot \in Nat \ {0} /\ dot <= Length(buf) + 1 /\ WellFormed(buf)
      /\ Seen(buf, dot) /\ InRange(buf, dot) /\ Length(buf) \in Nat
      /\ Abstract!End = Length(buf) + 1
  BY <1>0, Before
<1> DEFINE lo == ToMark(buf, Lo)
           hi == ToMark(buf, Hi)
           outer == Restricted(buf, lo, hi)
           freed == [ outer EXCEPT !.mark[Lo] = 0, !.mark[Hi] = 0 ]
<1>1. Finish(freed, Clamped(buf, dot))
  BY DEF LeaveSaveRestriction
<1>2. /\ lo \in Nat \ {0} /\ hi \in Nat \ {0} /\ hi <= Length(buf) + 1
      /\ Places(buf)[Lo] = lo /\ Places(buf)[Hi] = hi
  BY <1>0, <1>a, HeldFacts, ToMarkInText, PlacesAre DEF Good
<1>3. Clamped(buf, dot) = dot
  <2>1. dot \in Int /\ Clamped(buf, dot) \in Int
    BY <1>a, ClampedInRange
  <2> QED
    BY <2>1, <1>a, ClampedSeen
<1>4. /\ Good(outer) /\ outer.mark = buf.mark /\ outer.size = buf.size
      /\ outer.head = lo /\ outer.tail = Length(buf) + 1 - hi
      /\ NumCharacters(outer) = hi - 1 /\ Length(outer) = Length(buf)
      /\ Text(outer) = Text(buf) /\ Places(outer) = Places(buf)
  <2> HIDE DEF lo, hi
  <2> QED
    BY <1>2, <1>a, RestrictedFacts, SMTT(40)
<1> HIDE DEF outer
<1>b. outer \in Buffer /\ WellFormed(outer) /\ Sizes(outer)
  BY <1>4, GoodFacts DEF Good, Sound
<1>5. freed = [ outer EXCEPT !.mark = [ [ outer.mark EXCEPT ![Lo] = 0 ] EXCEPT ![Hi] = 0 ] ]
  BY <1>b DEF Buffer
<1> HIDE DEF freed
<1>6. /\ freed \in Buffer
      /\ freed.mem = outer.mem /\ freed.size = outer.size /\ freed.s1 = outer.s1
      /\ freed.gap = outer.gap /\ freed.s2 = outer.s2
      /\ freed.head = outer.head /\ freed.tail = outer.tail
      /\ freed.mark = [ [ outer.mark EXCEPT ![Lo] = 0 ] EXCEPT ![Hi] = 0 ]
  BY <1>b, <1>5 DEF Buffer
<1>7. /\ freed.mark[Lo] = 0 /\ freed.mark[Hi] = 0
      /\ \A m \in Marker \ {Lo, Hi} : freed.mark[m] = outer.mark[m]
  BY <1>b, <1>6, HeldFacts, MarkerAssumption DEF Buffer
<1>8. Length(freed) = Length(outer) /\ Text(freed) = Text(outer)
      /\ NumCharacters(freed) = NumCharacters(outer)
  BY <1>6 DEF Length, Text, CharAt, NumCharacters
<1>9. Good(freed)
  <2>1. WellFormed(freed) /\ ~Lost(freed) /\ freed.tail <= Length(freed)
    BY <1>4, <1>6, <1>8, <1>b DEF WellFormed, Good, Lost
  <2>2. \A i : CharAt(freed, i) = CharAt(outer, i)
    BY <1>6 DEF CharAt
  <2>3. Clean(freed)
    BY <2>2, <1>4, <1>8 DEF Good, Sound, Clean
  <2>4. \A m \in Held : Inside(freed, m)
    <3> TAKE m \in Held
    <3>1. Inside(outer, m) /\ m \in Marker /\ m # Lo
      BY <1>4, HeldFacts DEF Good, Sound, Held
    <3>2. CASE m = Hi
      BY <3>2, <1>6, <1>7, <1>b DEF Inside, Sizes
    <3>3. CASE m # Hi
      <4>1. freed.mark[m] = outer.mark[m] /\ freed.size = outer.size
        BY <3>1, <3>3, <1>6, <1>7
      <4> QED
        BY <4>1, <3>1 DEF Inside
    <3> QED
      BY <3>2, <3>3
  <2> QED
    BY <2>1, <2>3, <2>4, <1>7 DEF Good, Sound
<1>10. Places(freed) = [ Places(outer) EXCEPT ![Lo] = 0, ![Hi] = 0 ]
  <2>1. \A m \in Marker \ {Lo, Hi} : ToMark(freed, m) = ToMark(outer, m)
    BY <1>6, <1>7 DEF ToMark, Position
  <2> QED
    BY <2>1, <1>7, HeldFacts, MarkerAssumption DEF Places
<1>11. buf' = freed /\ ~Lost(buf') /\ Extra' /\ dot' = Clamped(freed, dot)
  BY <1>1, <1>3, <1>9, Finished
<1>12. dot' = IF lo <= dot /\ dot <= hi THEN dot
              ELSE IF lo <= hi /\ dot < lo THEN lo ELSE hi
  <2>1. dot' = LET low == IF dot < lo THEN lo ELSE dot
               IN  IF low > hi - 1 THEN (hi - 1) + 1 ELSE low
    BY <1>4, <1>6, <1>8, <1>11 DEF Clamped, FirstCharacter
  <2> HIDE DEF lo, hi
  <2> QED
    BY <2>1, <1>2, <1>a
<1>13. UNCHANGED << Text(buf), Lost(buf) >> /\ Spares
  BY <1>0, <1>4, <1>8, <1>11 DEF Lost, Spares
<1>14. buf'.head = Places(buf)[Lo] /\ buf'.tail = Abstract!End - Places(buf)[Hi]
  BY <1>2, <1>4, <1>6, <1>11, <1>a
<1>15. Abstract!Restrict(Places(buf)[Lo], Places(buf)[Hi])
  BY <1>13, <1>14 DEF Abstract!Restrict
<1>16. Places(buf)[Lo] # 0 /\ Places(buf') = [ Places(buf) EXCEPT ![Lo] = 0, ![Hi] = 0 ]
  BY <1>2, <1>4, <1>10, <1>11
<1>17. Abstract!Restore
  BY <1>2, <1>12, <1>15, <1>16, AbstractMarks DEF Abstract!Restore
<1> QED
  BY <1>0, <1>11, <1>13, <1>17

LEMMA NewBfFacts ==
  /\ Text(NewBf) = << >> /\ Places(NewBf) = [ m \in Marker |-> 0 ]
  /\ NewBf.head = 1 /\ NewBf.tail = 0 /\ ~Lost(NewBf) /\ Clamped(NewBf, 1) = 1
<1>1. /\ NewBf.s1 = 0 /\ NewBf.s2 = 0 /\ NewBf.head = 1 /\ NewBf.tail = 0
      /\ NewBf.size = GapSlack /\ NewBf.mark = [ m \in Marker |-> 0 ]
  BY DEF NewBf
<1>2. Length(NewBf) = 0
  BY <1>1 DEF Length
<1>3. Text(NewBf) = << >>
  BY <1>2 DEF Text
<1>4. Places(NewBf) = [ m \in Marker |-> 0 ]
  BY <1>1 DEF Places
<1>5. ~Lost(NewBf) /\ Clamped(NewBf, 1) = 1
  BY <1>1, <1>2, GapSlackAssumption DEF Lost, Clamped, FirstCharacter, NumCharacters
<1> QED
  BY <1>1, <1>3, <1>4, <1>5

LEMMA ReplaceRefines ==
  ASSUME ReplaceBuffer
  PROVE  Lost(buf) /\ Extra' /\ Abstract!Replace
<1>1. Lost(buf) /\ buf' = NewBf /\ dot' = 1
  BY NewBfFacts DEF ReplaceBuffer, Finish
<1>2. Extra'
  BY <1>1, NewBfFacts DEF Extra, Seen
<1>3. Lost(buf) /\ Lost(buf)' = FALSE
  BY <1>1, NewBfFacts DEF Lost
<1>4. /\ Text(buf)' = << >> /\ Places(buf') = [ m \in Marker |-> 0 ]
      /\ buf'.head = 1 /\ buf'.tail = 0
  BY <1>1, NewBfFacts
<1>5. Abstract!Replace
  BY <1>1, <1>3, <1>4, AbstractMarks DEF Abstract!Replace
<1> QED
  BY <1>2, <1>3, <1>5

(***************************************************************************)
(* Every step, and the theorem.                                            *)
(***************************************************************************)
(* What a step of the editor is: of TextBuffer, and for the hidden text. *)
Answered == \/ ReplaceBuffer
            \/ ~Lost(buf) /\ (Spares \/ EraseRegion \/ TransposeCharacters)

LEMMA StepRefines ==
  ASSUME VInv, IInv', Next
  PROVE  Extra' /\ Abstract!Next /\ Answered
<1>i. IInv
  BY DEF VInv
<1>1. CASE \E arg \in Args : \/ ForwardCharacter(arg) \/ BackwardCharacter(arg)
                             \/ EndOfLine(arg)
  <2>1. Abstract!Move /\ Spares /\ Extra' /\ ~Lost(buf)
    BY <1>1, MotionRefines
  <2> QED
    BY <2>1 DEF Answered, Abstract!Next, Abstract!Edit
<1>2. CASE BeginningOfFile \/ EndOfFile \/ BeginningOfLine
  <2>1. Abstract!Move /\ Spares /\ Extra' /\ ~Lost(buf)
    BY <1>2, MotionRefines
  <2> QED
    BY <2>1 DEF Answered, Abstract!Next, Abstract!Edit
<1>3. CASE (\E c \in Char, arg \in Args : SelfInsert(c, arg)) \/ SelfInsertAgain
  <2>1. ~Lost(buf) /\ \E left : \E c \in Char : SelfInsertRound(c, left)
    <3>1. CASE \E c \in Char, arg \in Args : SelfInsert(c, arg)
      BY <3>1 DEF SelfInsert, Ready
    <3>2. CASE SelfInsertAgain
      BY <3>2, <1>i DEF SelfInsertAgain, IInv
    <3> QED
      BY <3>1, <3>2, <1>3
  <2>2. PICK left : \E c \in Char : SelfInsertRound(c, left)
    BY <2>1
  <2>3. PICK c \in Char : SelfInsertRound(c, left)
    BY <2>2
  <2>4. (Abstract!Lose \/ Abstract!Type(c)) /\ Spares /\ Extra'
    BY <2>1, <2>3, SelfInsertRefines
  <2> QED
    BY <2>1, <2>4 DEF Answered, Abstract!Next, Abstract!Edit
<1>4. CASE \/ \E arg \in Args : DeleteNextCharacter(arg) \/ DeletePreviousCharacter(arg)
           \/ DeleteWhiteSpace
           \/ \E back, del \in BOOLEAN, arg \in Args : Word(back, del, arg)
           \/ WordAgain
  <2>1. Erasing /\ Spares /\ Extra' /\ ~Lost(buf)
    <3>1. CASE \E arg \in Args : DeleteNextCharacter(arg) \/ DeletePreviousCharacter(arg)
      BY <3>1, ArgsAssumption, DeleteNextRefines, DeletePreviousRefines
    <3>2. CASE DeleteWhiteSpace
      BY <3>2, WhiteSpaceRefines
    <3>3. CASE \E back, del \in BOOLEAN, arg \in Args : Word(back, del, arg)
      BY <3>3, WordRoundRefines DEF Word, Ready
    <3>4. CASE WordAgain
      <4>1. job.back \in BOOLEAN /\ job.del \in BOOLEAN /\ ~Lost(buf)
        BY <3>4, <1>i DEF WordAgain, IInv, TypeOK
      <4> QED
        BY <4>1, <3>4, WordRoundRefines DEF WordAgain
    <3> QED
      BY <3>1, <3>2, <3>3, <3>4, <1>4
  <2> QED
    BY <2>1 DEF Answered, Erasing, Abstract!Next, Abstract!Edit
<1>5. CASE TransposeCharacters
  BY <1>5, TransposeRefines DEF Answered, Abstract!Next, Abstract!Edit
<1>6. CASE EraseRegion
  BY <1>6, EraseRegionRefines DEF Answered, Abstract!Next, Abstract!Edit
<1>7. CASE SetMarkCommand \/ ExchangeDotAndMark
  BY <1>7, MarkRefines DEF Answered, Abstract!Next, Abstract!Edit
<1>8. CASE NarrowRegion \/ WidenRegion
  BY <1>8, NarrowRefines DEF Answered, Abstract!Next, Abstract!Edit
<1>9. CASE EnterSaveRestriction
  BY <1>9, SaveRefines DEF Answered, Abstract!Next, Abstract!Edit
<1>10. CASE LeaveSaveRestriction
  BY <1>10, RestoreRefines DEF Answered, Abstract!Next, Abstract!Edit
<1>11. CASE ReplaceBuffer
  BY <1>11, ReplaceRefines DEF Answered, Abstract!Next
<1> QED
  BY <1>1, <1>2, <1>3, <1>4, <1>5, <1>6, <1>7, <1>8, <1>9, <1>10, <1>11 DEF Next

LEMMA InitRefines == Init => VInv /\ Abstract!Init
<1> SUFFICES ASSUME Init PROVE VInv /\ Abstract!Init
  OBVIOUS
<1>1. IInv /\ buf = NewBf /\ dot = 1
  BY InitIInv DEF Init
<1>2. Extra
  BY <1>1, NewBfFacts DEF Extra, Seen
<1>3. /\ Text(buf) = << >> /\ Places(buf) = [ m \in Marker |-> 0 ]
      /\ buf.head = 1 /\ buf.tail = 0 /\ Lost(buf) = FALSE
  BY <1>1, NewBfFacts DEF Lost
<1>4. Abstract!Init
  BY <1>1, <1>3, AbstractMarks DEF Abstract!Init
<1> QED
  BY <1>1, <1>2, <1>4 DEF VInv

LEMMA NextVInv == VInv /\ [Next]_vars => VInv'
<1> SUFFICES ASSUME VInv, [Next]_vars PROVE VInv'
  OBVIOUS
<1>1. IInv'
  BY NextIInv DEF VInv
<1>2. CASE Next
  BY <1>1, <1>2, StepRefines DEF VInv
<1>3. CASE UNCHANGED vars
  BY <1>1, <1>3 DEF vars, VInv, Extra, Seen
<1> QED
  BY <1>2, <1>3

LEMMA NextRefines == VInv /\ [Next]_vars => [Abstract!Next]_Abstract!vars
<1> SUFFICES ASSUME VInv, [Next]_vars PROVE [Abstract!Next]_Abstract!vars
  OBVIOUS
<1>1. IInv'
  BY NextIInv DEF VInv
<1>2. CASE Next
  BY <1>1, <1>2, StepRefines
<1>3. CASE UNCHANGED vars
  <2>1. buf' = buf /\ dot' = dot
    BY <1>3 DEF vars
  <2>2. Places(buf') = Places(buf) /\ Text(buf)' = Text(buf) /\ Lost(buf)' = Lost(buf)
    BY <2>1
  <2> QED
    BY <2>1, <2>2, AbstractMarks DEF Abstract!vars
<1> QED
  BY <1>2, <1>3

(* The gap cannot be seen: whatever the commands do to the block, to its gap*)
(* and to the places markers store (buffer.c), the editor does to the text  *)
(* what TextBuffer says, for every set of characters, markers and arguments.*)
THEOREM EditorImplements == Spec => Implements
<1>1. Init => Abstract!Init
  BY InitRefines
<1>2. Init => VInv
  BY InitRefines
<1> QED
  BY <1>1, <1>2, NextVInv, NextRefines, PTL DEF Spec, Implements, Abstract!Spec

(***************************************************************************)
(* The hidden text.                                                        *)
(***************************************************************************)
LEMMA SubsAgree ==
  ASSUME NEW t \in Seq(Char), NEW u \in Seq(Char),
         NEW m \in Int, NEW n \in Int, NEW k \in Int,
         \A i \in m..n : /\ i \in 1..Len(t) /\ i + k \in 1..Len(u)
                         /\ u[i + k] = t[i]
  PROVE  SubSeq(u, m + k, n + k) = SubSeq(t, m, n)
<1> DEFINE r == SubSeq(t, m, n)
           q == SubSeq(u, m + k, n + k)
<1>1. \A i \in m..n : t[i] \in Char
  OBVIOUS
<1>2. /\ r \in Seq(Char) /\ Len(r) = IF m <= n THEN n - m + 1 ELSE 0
      /\ \A i \in 1..(n - m + 1) : r[i] = t[m + i - 1]
  BY <1>1, SubSeqProperties
<1> DEFINE m2 == m + k
           n2 == n + k
<1>3. /\ m2 \in Int /\ n2 \in Int /\ n2 - m2 = n - m /\ (m2 <= n2 <=> m <= n)
      /\ \A i \in m2..n2 : u[i] \in Char
  <2>1. \A i \in m2..n2 : i - k \in m..n /\ (i - k) + k = i
    OBVIOUS
  <2> QED
    BY <2>1
<1>4. \A i \in 1..(n - m + 1) : u[m2 + i - 1] = t[m + i - 1]
  <2> TAKE i \in 1..(n - m + 1)
  <2>1. m + i - 1 \in m..n /\ (m + i - 1) + k = m2 + i - 1
    OBVIOUS
  <2> QED
    BY <2>1
<1> HIDE DEF m2, n2
<1>5. /\ SubSeq(u, m2, n2) \in Seq(Char)
      /\ Len(SubSeq(u, m2, n2)) = IF m2 <= n2 THEN n2 - m2 + 1 ELSE 0
      /\ \A i \in 1..(n2 - m2 + 1) : SubSeq(u, m2, n2)[i] = u[m2 + i - 1]
  BY <1>3, SubSeqProperties
<1>6. /\ q \in Seq(Char) /\ Len(q) = IF m <= n THEN n - m + 1 ELSE 0
      /\ \A i \in 1..(n - m + 1) : q[i] = u[m2 + i - 1]
  BY <1>5, <1>3 DEF m2, n2
<1> HIDE DEF r, q
<1>7. Len(r) = Len(q) /\ \A i \in 1..Len(r) : r[i] = q[i]
  BY <1>2, <1>4, <1>6
<1>8. r = q
  BY <1>2, <1>6, <1>7, SameSeq
<1> QED
  BY <1>8 DEF r, q

(* The hidden ends are the same when what lies between them is s longer. *)
LEMMA HiddenShifted ==
  ASSUME NEW b, NEW g, Good(b), Good(g), NEW s \in Int,
         g.head = b.head, g.tail = b.tail, Length(g) = Length(b) + s,
         b.head <= Length(b) + 1, b.head <= Length(g) + 1,
         \A i \in 1..(b.head - 1) : CharAt(g, i) = CharAt(b, i),
         \A i \in (NumCharacters(b) + 1)..Length(b) :
            i + s >= 1 /\ CharAt(g, i + s) = CharAt(b, i)
  PROVE  Hidden(g) = Hidden(b)
<1> DEFINE t == Text(b)
           u == Text(g)
           L == Length(b)
           h == b.head - 1
           N == NumCharacters(b)
<1>1. /\ t \in Seq(Char) /\ Len(t) = L /\ L \in Nat
      /\ \A i \in 1..L : t[i] = CharAt(b, i)
  BY TextIsSeq DEF Good, Sound
<1>2. /\ u \in Seq(Char) /\ Len(u) = L + s
      /\ \A i \in 1..(L + s) : u[i] = CharAt(g, i)
  BY TextIsSeq DEF Good, Sound
<1>3. h \in Nat /\ N \in Nat /\ N + b.tail = L /\ b.tail \in Nat
  BY GoodFacts DEF Sizes
<1>4. h <= L /\ h <= L + s /\ NumCharacters(g) = N + s
  <2>1. NumCharacters(g) = (L + s) - b.tail /\ b.head \in Int
    BY GoodFacts DEF NumCharacters, Sizes
  <2>2. b.head <= L + 1 /\ b.head <= (L + s) + 1
    OBVIOUS
  <2>3. h <= L /\ h <= L + s
    <3> DEFINE H == b.head
    <3>1. H \in Int /\ H <= L + 1 /\ H <= (L + s) + 1 /\ h = H - 1 /\ L \in Int
      BY <2>1, <2>2, <1>1
    <3> HIDE DEF H, h, L
    <3> QED
      BY <3>1
  <2>4. (L + s) - b.tail = N + s
    <3> DEFINE T == b.tail
    <3>1. T \in Int /\ N + T = L /\ N \in Int
      BY <1>3
    <3> HIDE DEF T, N, L
    <3>2. (L + s) - T = N + s
      BY <3>1
    <3> QED
      BY <3>2 DEF T
  <2> QED
    BY <2>1, <2>3, <2>4
<1>5. /\ \A i \in 1..h : CharAt(g, i) = CharAt(b, i)
      /\ \A i \in (N + 1)..L : i + s >= 1 /\ CharAt(g, i + s) = CharAt(b, i)
  OBVIOUS
<1>6. /\ Hidden(b) = << SubSeq(t, 1, h), SubSeq(t, N + 1, L) >>
      /\ Hidden(g) = << SubSeq(u, 1, h), SubSeq(u, N + s + 1, L + s) >>
  <2>1. Lesser(FirstCharacter(b) - 1, Length(b)) = h
    BY <1>1, <1>3, <1>4 DEF Lesser, FirstCharacter
  <2>2. Lesser(FirstCharacter(g) - 1, Length(g)) = h
    BY <1>1, <1>3, <1>4 DEF Lesser, FirstCharacter
  <2>3. NumCharacters(g) + 1 = N + s + 1 /\ Length(g) = L + s
    BY <1>4
  <2> QED
    BY <2>1, <2>2, <2>3 DEF Hidden
<1> HIDE DEF t, u, L, h, N
<1>7. SubSeq(u, 1, h) = SubSeq(t, 1, h)
  <2>1. \A i \in 1..h : /\ i \in 1..Len(t) /\ i + 0 \in 1..Len(u)
                        /\ u[i + 0] = t[i]
    <3> TAKE i \in 1..h
    <3>1. i \in 1..L /\ i \in 1..(L + s) /\ i + 0 = i
      BY <1>1, <1>3, <1>4
    <3> QED
      BY <3>1, <1>1, <1>2, <1>5
  <2>2. 1 \in Int /\ h \in Int /\ 0 \in Int /\ 1 + 0 = 1 /\ h + 0 = h
    BY <1>3
  <2>3. SubSeq(u, 1 + 0, h + 0) = SubSeq(t, 1, h)
    BY <2>1, <2>2, <1>1, <1>2, SubsAgree
  <2> QED
    BY <2>2, <2>3
<1>8. SubSeq(u, N + s + 1, L + s) = SubSeq(t, N + 1, L)
  <2> DEFINE m == N + 1
  <2>1. \A i \in m..L : /\ i \in 1..Len(t) /\ i + s \in 1..Len(u)
                        /\ u[i + s] = t[i]
    <3> TAKE i \in m..L
    <3>1. i \in 1..L /\ i + s \in 1..(L + s) /\ CharAt(g, i + s) = CharAt(b, i)
      BY <1>1, <1>3, <1>5
    <3> QED
      BY <3>1, <1>1, <1>2
  <2>2. m \in Int /\ L \in Int /\ m + s = N + s + 1
    BY <1>1, <1>3
  <2> HIDE DEF m
  <2>3. SubSeq(u, m + s, L + s) = SubSeq(t, m, L)
    BY <2>1, <2>2, <1>1, <1>2, SubsAgree
  <2> QED
    BY <2>2, <2>3 DEF m
<1> QED
  BY <1>6, <1>7, <1>8

LEMMA HiddenStays ==
  ASSUME VInv, IInv', ~Lost(buf), Spares, RestrictionStands
  PROVE  Hidden(buf)' = Hidden(buf)
<1>a. /\ Good(buf) /\ WellFormed(buf) /\ Clean(buf) /\ Sizes(buf)
      /\ dot \in Nat \ {0} /\ dot <= NumCharacters(buf) + 1
      /\ Length(buf) \in Nat /\ NumCharacters(buf) = Length(buf) - buf.tail
      /\ NumCharacters(buf) \in Nat
  BY Before
<1>b. /\ ~Lost(buf') /\ buf.head <= dot /\ buf'.head = buf.head /\ buf'.tail = buf.tail
  BY DEF RestrictionStands
<1>c. Good(buf') /\ WellFormed(buf') /\ Clean(buf')
  BY <1>b, After
<1>d. buf.head \in Nat /\ buf.tail \in Nat /\ buf.head <= NumCharacters(buf) + 1
  BY <1>a, <1>b DEF Sizes
<1>e. NumCharacters(buf') \in Nat /\ Length(buf') \in Nat
      /\ NumCharacters(buf') = Length(buf') - buf.tail
  BY <1>b, <1>c, GoodFacts DEF NumCharacters
<1> DEFINE N == NumCharacters(buf)
           L == Length(buf)
<1>1. CASE Text(buf') = Text(buf)
  <2>1. Length(buf') = Length(buf)
    BY <1>1, <1>a, <1>c, TextIsSeq
  <2> QED
    BY <2>1, <1>1, <1>b DEF Hidden, FirstCharacter, NumCharacters
<1>2. CASE \E c \in Char : Inserted(buf, buf', dot, c)
  <2>1. PICK c \in Char : Inserted(buf, buf', dot, c)
    BY <1>2
  <2>2. /\ Length(buf') = L + 1
        /\ \A i \in 1..(L + 1) : CharAt(buf', i) = IF i < dot THEN CharAt(buf, i)
                                                   ELSE IF i = dot THEN c
                                                   ELSE CharAt(buf, i - 1)
    BY <2>1 DEF Inserted
  <2> HIDE DEF N, L
  <2>3. \A i \in 1..(buf.head - 1) : CharAt(buf', i) = CharAt(buf, i)
    <3> TAKE i \in 1..(buf.head - 1)
    <3>1. i \in 1..(L + 1) /\ i < dot
      BY <1>a, <1>b, <1>d DEF N, L
    <3> QED
      BY <3>1, <2>2
  <2>4. \A i \in (N + 1)..L : i + 1 >= 1 /\ CharAt(buf', i + 1) = CharAt(buf, i)
    <3> TAKE i \in (N + 1)..L
    <3>1. i + 1 \in 1..(L + 1) /\ ~(i + 1 < dot) /\ i + 1 # dot /\ (i + 1) - 1 = i
      BY <1>a, <1>d DEF N, L
    <3> QED
      BY <3>1, <2>2
  <2>5. buf.head <= L + 1 /\ buf.head <= Length(buf') + 1
    BY <2>2, <1>a, <1>d DEF L
  <2> QED
    BY <2>2, <2>3, <2>4, <2>5, <1>a, <1>b, <1>c, 1 \in Int, HiddenShifted DEF N, L
<1>3. CASE \E n \in Nat \ {0}, k \in Nat :
             buf.head <= n /\ n + k <= NumCharacters(buf) + 1 /\ Removed(buf, buf', n, k)
  <2>1. PICK n \in Nat \ {0}, k \in Nat :
          buf.head <= n /\ n + k <= NumCharacters(buf) + 1 /\ Removed(buf, buf', n, k)
    BY <1>3
  <2>2. /\ Length(buf') = L - k
        /\ \A i \in 1..(L - k) : CharAt(buf', i) = IF i < n THEN CharAt(buf, i)
                                                   ELSE CharAt(buf, i + k)
    BY <2>1 DEF Removed
  <2> DEFINE s == 0 - k
  <2> HIDE DEF N, L
  <2>3. \A i \in 1..(buf.head - 1) : CharAt(buf', i) = CharAt(buf, i)
    <3> TAKE i \in 1..(buf.head - 1)
    <3>1. i \in 1..(L - k) /\ i < n
      BY <2>1, <1>a, <1>d DEF N, L
    <3> QED
      BY <3>1, <2>2
  <2>4. \A i \in (N + 1)..L : i + s >= 1 /\ CharAt(buf', i + s) = CharAt(buf, i)
    <3> TAKE i \in (N + 1)..L
    <3>1. i + s \in 1..(L - k) /\ ~(i + s < n) /\ (i + s) + k = i /\ i + s >= 1
      BY <2>1, <1>a, <1>d DEF N, L
    <3> HIDE DEF s
    <3> QED
      BY <3>1, <2>2
  <2>5. /\ buf.head <= L + 1 /\ buf.head <= Length(buf') + 1
        /\ s \in Int /\ Length(buf') = L + s
    BY <2>1, <2>2, <1>a, <1>d DEF N, L
  <2> HIDE DEF s
  <2> QED
    BY <2>3, <2>4, <2>5, <1>a, <1>b, <1>c, HiddenShifted DEF N, L
<1> QED
  BY <1>1, <1>2, <1>3, <1>b DEF Spares

LEMMA HiddenReplaced ==
  ASSUME VInv, ReplaceBuffer, RestrictionStands
  PROVE  Hidden(buf)' = Hidden(buf)
<1>1. buf' = NewBf /\ Lost(buf) /\ buf.head = NewBf.head /\ buf.tail = NewBf.tail
  BY DEF ReplaceBuffer, Finish, RestrictionStands
<1>2. Length(buf) = 0
  BY <1>1 DEF VInv, Extra, Gone, Length
<1>3. Length(NewBf) = 0
  BY DEF NewBf, Length
<1>4. Text(buf) = << >> /\ Text(NewBf) = << >>
  BY <1>2, <1>3 DEF Text
<1> QED
  BY <1>1, <1>2, <1>3, <1>4 DEF Hidden, FirstCharacter, NumCharacters

(* "Text outside this region ... won't be manipulable by any editing        *)
(* commands" (the manual, on narrow-region): true of every command but      *)
(* erase-region and transpose-characters, in any sequence of commands.      *)
THEOREM EditorOnlyTwoReachHidden == Spec => OnlyTwoReachHidden
<1>1. VInv /\ [Next]_vars
        => [ RestrictionStands => \/ Hidden(buf)' = Hidden(buf)
                                  \/ EraseRegion \/ TransposeCharacters ]_vars
  <2> SUFFICES ASSUME VInv, Next, RestrictionStands
               PROVE  \/ Hidden(buf)' = Hidden(buf)
                      \/ EraseRegion \/ TransposeCharacters
    OBVIOUS
  <2>1. IInv'
    BY NextIInv DEF VInv
  <2>2. Answered
    BY <2>1, StepRefines
  <2> QED
    BY <2>1, <2>2, HiddenStays, HiddenReplaced DEF Answered
<1>2. Init => VInv
  BY InitRefines
<1> QED
  BY <1>1, <1>2, NextVInv, PTL DEF Spec, OnlyTwoReachHidden
==============================================================================
