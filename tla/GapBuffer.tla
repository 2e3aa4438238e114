------------------------------ MODULE GapBuffer ------------------------------
(***************************************************************************)
(* The gap buffer of buffer.h and buffer.c: one block of storage cut into  *)
(* a first part, a gap and a second part, with the markers that refer to   *)
(* it.  Everything here is an operator on buffer values; the modules that  *)
(* EXTEND this one turn them into actions.                                 *)
(*                                                                         *)
(* A marker holds an index into the block (m_pos), not a character number, *)
(* so every operation that moves the gap must also move some markers.      *)
(***************************************************************************)
EXTENDS Integers, Sequences

CONSTANTS
  Char,      \* the characters a buffer may hold
  Marker,    \* the struct markers that may refer to the buffer
  GapSlack,  \* what NewBf and GapRoom allocate beyond what is needed (2000)
  Junk       \* the content of a cell that belongs to the gap

ASSUME GapSlackAssumption == GapSlack \in Nat \ {0}
ASSUME JunkAssumption     == Junk \notin Char

Cell == Char \cup {Junk}

(* A cell the text gives up becomes Junk: the code leaves the old character *)
(* there, and nothing may depend on it.                                     *)
(*                                                                          *)
(* struct buffer with the current-buffer copies of its fields (bf_s1, ...). *)
(* mark[m] is m_pos, 0 while the marker is not set in this buffer.          *)
Buffer == [ mem : Seq(Cell), size : Nat,
            s1 : Nat, gap : Nat, s2 : Nat,
            head : Nat, tail : Nat,
            mark : [Marker -> Nat] ]

Lesser(a, b) == IF a < b THEN a ELSE b

Length(b)         == b.s1 + b.s2
NumCharacters(b)  == Length(b) - b.tail
FirstCharacter(b) == b.head
CharAt(b, n)      == IF n > b.s1 THEN b.mem[n + b.gap] ELSE b.mem[n]

(* The text a reader of the buffer sees, gap removed. *)
Text(b) == [ n \in 1..Length(b) |-> CharAt(b, n) ]

(* b_base = 0: an allocation failed and the text is gone. *)
Lost(b) == b.size = 0

NewBf == [ mem |-> [ i \in 1..GapSlack |-> Junk ], size |-> GapSlack,
           s1 |-> 0, gap |-> GapSlack, s2 |-> 0,
           head |-> 1, tail |-> 0,
           mark |-> [ m \in Marker |-> 0 ] ]

(***************************************************************************)
(* Markers.                                                                *)
(***************************************************************************)
(* ToMark: the character number a set marker stands for. *)
Position(b, p) == IF p <= b.s1 THEN p
                  ELSE IF p <= b.s1 + b.gap THEN b.s1 + 1
                  ELSE p - b.gap

ToMark(b, m) == Position(b, b.mark[m])

(* A position below 1 is reported ("Bogus Setmark") and replaced by 1. *)
SetMark(b, m, pos) ==
  LET p == IF pos < 1 THEN 1 ELSE pos
  IN  [ b EXCEPT !.mark[m] = IF p > b.s1 + 1 THEN p + b.gap ELSE p ]

CopyMark(b, dst, src) == [ b EXCEPT !.mark[dst] = b.mark[src] ]

(***************************************************************************)
(* Gap motion.                                                             *)
(***************************************************************************)
(* The block and the markers once the gap has moved left to n ... *)
LeftMem(b, n) ==
  [ i \in 1..b.size |-> IF i \in n..(n + b.gap - 1) THEN Junk
                        ELSE IF i \in (n + b.gap)..(b.s1 + b.gap)
                        THEN b.mem[i - b.gap] ELSE b.mem[i] ]
LeftMark(b, n) ==
  [ m \in Marker |-> LET p == b.mark[m]
                     IN  IF p > b.s1 + b.gap THEN p
                         ELSE IF p > b.s1 THEN b.s1 + b.gap + 1
                         ELSE IF p > n THEN p + b.gap ELSE p ]

GapLeft(b, n) == [ b EXCEPT !.s1 = n - 1, !.s2 = b.s2 + (b.s1 + 1 - n),
                            !.mem = LeftMem(b, n), !.mark = LeftMark(b, n) ]

(* ... or right to n. *)
RightMem(b, n) ==
  [ i \in 1..b.size |-> IF i \in (b.s1 + 1)..(n - 1) THEN b.mem[i + b.gap]
                        ELSE IF i \in n..(n + b.gap - 1) THEN Junk
                        ELSE b.mem[i] ]
RightMark(b, n) ==
  [ m \in Marker |-> LET p == b.mark[m]
                     IN  IF p <= b.s1 \/ p > n + b.gap THEN p
                         ELSE IF p > b.s1 + b.gap THEN p - b.gap
                         ELSE b.s1 + 1 ]

GapRight(b, n) == [ b EXCEPT !.s1 = n - 1, !.s2 = b.s2 - (n - 1 - b.s1),
                             !.mem = RightMem(b, n), !.mark = RightMark(b, n) ]

(* GapTo, for the positions its callers pass (all at least 1). *)
GapTo(b, pos) ==
  LET n == IF pos > Length(b) THEN Length(b) + 1 ELSE pos
  IN  IF n = b.s1 + 1 THEN b
      ELSE IF n <= b.s1 THEN GapLeft(b, n)
      ELSE GapRight(b, n)

(***************************************************************************)
(* GapRoom: make the gap at least k wide.  granted says whether realloc    *)
(* found the memory; when it does not, the text is gone.                   *)
(***************************************************************************)
(* Slips kept for comparison: the second part, or the markers in it, left   *)
(* where they were when the gap grew.                                       *)
WideMemStill(b, more) ==
  [ i \in 1..(b.size + more) |-> IF i <= b.size THEN b.mem[i] ELSE Junk ]
WideMarkStill(b, more) == b.mark

WideMem(b, more) ==
  [ i \in 1..(b.size + more) |->
      IF i <= b.s1 THEN b.mem[i]
      ELSE IF i > b.s1 + b.gap + more THEN b.mem[i - more] ELSE Junk ]
WideMark(b, more) ==
  [ m \in Marker |-> IF b.mark[m] > b.s1 + b.gap THEN b.mark[m] + more
                     ELSE b.mark[m] ]

Widened(b, more) == [ b EXCEPT !.size = b.size + more, !.gap = b.gap + more,
                               !.mem = WideMem(b, more),
                               !.mark = WideMark(b, more) ]

Emptied(b) == [ b EXCEPT !.size = 0, !.gap = 0, !.s1 = 0, !.s2 = 0,
                         !.mem = << >> ]

(* A slip: room for one character less than asked for.                      *)
GapRoomShort(b, k, granted) ==
  IF b.gap + 1 >= k THEN b
  ELSE IF granted /\ ~Lost(b) THEN Widened(b, k + GapSlack)
  ELSE Emptied(b)

GapRoom(b, k, granted) ==
  IF b.gap >= k THEN b
  ELSE IF granted /\ ~Lost(b) THEN Widened(b, k + GapSlack)
  ELSE Emptied(b)

(***************************************************************************)
(* Insertion and deletion.                                                 *)
(***************************************************************************)
(* The copying loop of InsertAt (one character) and InsCStr (a string). *)
FilledMem(b, s) ==
  [ i \in 1..b.size |-> IF i \in (b.s1 + 1)..(b.s1 + Len(s)) THEN s[i - b.s1]
                        ELSE b.mem[i] ]

Filled(b, s) == [ b EXCEPT !.s1 = b.s1 + Len(s), !.gap = b.gap - Len(s),
                           !.mem = FilledMem(b, s) ]

Insert(b, n, s, granted) ==
  LET room == GapRoom(GapTo(b, n), Len(s), granted)
  IN  IF Lost(room) THEN room ELSE Filled(room, s)

(* The gap swallows d characters after it or before it; markers inside the  *)
(* wider gap collapse onto its left edge.                                   *)
Swallowed(b, s1, s2, d) ==
  [ b EXCEPT !.s1 = s1, !.gap = b.gap + d, !.s2 = s2,
             !.mem  = [ i \in 1..b.size |->
                          IF i \in (s1 + 1)..(s1 + b.gap + d) THEN Junk
                          ELSE b.mem[i] ],
             !.mark = [ m \in Marker |->
                          IF b.mark[m] \in (s1 + 1)..(s1 + b.gap + d)
                          THEN s1 + 1 ELSE b.mark[m] ] ]

DelFrwd(b, n, k) ==
  LET at == GapTo(b, n)
      d  == Lesser(k, at.s2 - at.tail)
  IN  IF d > 0 THEN Swallowed(at, at.s1, at.s2 - d, d) ELSE at

(* A slip: the head of the restriction forgotten. *)
DelBackHidden(b, n, k) ==
  LET at == GapTo(b, n)
      d  == Lesser(k, at.s1)
  IN  IF d > 0 THEN Swallowed(at, at.s1 - d, at.s2, d) ELSE at

DelBack(b, n, k) ==
  LET at == GapTo(b, n)
      d  == Lesser(k, at.s1 - at.head + 1)
  IN  IF d > 0 THEN Swallowed(at, at.s1 - d, at.s2, d) ELSE at

(***************************************************************************)
(* What every buffer that still owns its block satisfies.                  *)
(***************************************************************************)
(* The three parts fill the block. *)
WellFormed(b) ==
  /\ b \in Buffer
  /\ Len(b.mem) = b.size
  /\ b.size = b.s1 + b.gap + b.s2
  /\ b.head >= 1

(* The marker is in the block, or just past it. *)
Inside(b, m) == b.mark[m] <= b.size + 1

(* No garbage cell is part of the text. *)
Clean(b) == \A n \in 1..Length(b) : CharAt(b, n) \in Char
==============================================================================
