----------------------------- MODULE TextBuffer ------------------------------
(***************************************************************************)
(* What a buffer promises to the commands: a text, some marks in it, dot,  *)
(* and a restriction that hides its ends.  Nothing here knows of the gap.  *)
(* Editor (the gap buffer with the commands of simplecoms.c) implements    *)
(* this specification.                                                     *)
(*                                                                         *)
(* A mark stands between two characters.  When text is inserted exactly    *)
(* where a mark stands the mark ends up on either side of it: which one    *)
(* depends on where the gap was, so the promise leaves it open.            *)
(***************************************************************************)
EXTENDS Integers, Sequences

CONSTANTS Char, Marker, Mark, Lo, Hi, NoMark

VARIABLES
  text,        \* the sequence of characters
  mark,        \* the position of each marker, NoMark when unset
  dot,
  head, tail,  \* the restriction: first visible position, characters hidden
  lost         \* the buffer ran out of memory and its text is gone

vars == << text, mark, dot, head, tail, lost >>

End == Len(text) + 1
Num == Len(text) - tail

Spliced(n, s) == SubSeq(text, 1, n - 1) \o s \o SubSeq(text, n, Len(text))
Cut(t, n, k)  == SubSeq(t, 1, n - 1) \o SubSeq(t, n + k, Len(t))
Visible(d)    == LET low == IF d < head THEN head ELSE d
                 IN  IF low > Num THEN Num + 1 ELSE low

(* Where the marks may stand after k characters appear at n. *)
Pushed(from, to, n, k) ==
  \A m \in Marker :
    \/ from[m] < n /\ to[m] = from[m]
    \/ from[m] > n /\ to[m] = from[m] + k
    \/ from[m] = n /\ to[m] \in {n, n + k}

(* Where they stand after the k characters at n are gone. *)
Pulled(from, n, k) ==
  [ m \in Marker |-> IF from[m] <= n THEN from[m]
                     ELSE IF from[m] <= n + k THEN n ELSE from[m] - k ]

Init == /\ text = << >> /\ dot = 1 /\ head = 1 /\ tail = 0
        /\ mark = [ m \in Marker |-> NoMark ]
        /\ lost = FALSE

Move == /\ dot' \in 1..(Num + 1)
        /\ UNCHANGED << text, mark, head, tail, lost >>

Type(c) == /\ text' = Spliced(dot, << c >>)
           /\ Pushed(mark, mark', dot, 1)
           /\ dot' = dot + 1
           /\ UNCHANGED << head, tail, lost >>

(* A command that deletes around dot never reaches hidden text. *)
Erase(n, k) == /\ head <= n /\ n <= dot /\ dot <= n + k /\ n + k <= Num + 1
               /\ text' = Cut(text, n, k)
               /\ mark' = Pulled(mark, n, k)
               /\ dot'  = n
               /\ UNCHANGED << head, tail, lost >>

(* The region may begin before the restriction, and is then erased there. *)
EraseRegion ==
  LET n    == IF mark[Mark] < dot THEN mark[Mark] ELSE dot
      last == IF mark[Mark] < dot THEN dot ELSE mark[Mark]
      k    == (IF last > Num + 1 THEN Num + 1 ELSE last) - n
  IN  /\ mark[Mark] # NoMark
      /\ text' = Cut(text, n, k)
      /\ mark' = Pulled(mark, n, k)
      /\ dot' \in 1..(Num - k + 1)
      /\ UNCHANGED << head, tail, lost >>

(* The two characters before dot change places; at the very head of the     *)
(* restriction the first of them is hidden and the second may not be        *)
(* deleted, so it is only copied.                                           *)
Transpose ==
  /\ dot >= 3
  /\ LET kept == dot <= head
         t    == IF kept THEN text ELSE Cut(text, dot - 1, 1)
         mk   == IF kept THEN mark ELSE Pulled(mark, dot - 1, 1)
     IN  /\ text' = SubSeq(t, 1, dot - 3) \o << text[dot - 1] >>
                      \o SubSeq(t, dot - 2, Len(t))
         /\ Pushed(mk, mark', dot - 2, 1)
  /\ dot' = dot \/ (dot < head /\ dot' = dot + 1)
  /\ UNCHANGED << head, tail, lost >>

SetMark == /\ mark' = [mark EXCEPT ![Mark] = dot]
           /\ UNCHANGED << text, dot, head, tail, lost >>

Exchange == /\ mark[Mark] # NoMark
            /\ dot'  = Visible(mark[Mark])
            /\ mark' = [mark EXCEPT ![Mark] = dot]
            /\ UNCHANGED << text, head, tail, lost >>

Restrict(lo, hi) == /\ head' = lo /\ tail' = End - hi
                    /\ UNCHANGED << text, lost >>

Narrow == /\ mark[Mark] # NoMark
          /\ \/ mark[Mark] <= dot /\ Restrict(mark[Mark], dot)
             \/ dot < mark[Mark]  /\ Restrict(dot, mark[Mark])
          /\ UNCHANGED << mark, dot >>

Widen == Restrict(1, End) /\ UNCHANGED << mark, dot >>

Save == /\ mark[Lo] = NoMark
        /\ mark' = [mark EXCEPT ![Lo] = head, ![Hi] = End - tail]
        /\ UNCHANGED << text, dot, head, tail, lost >>

Restore == /\ mark[Lo] # NoMark
           /\ Restrict(mark[Lo], mark[Hi])
           /\ mark' = [mark EXCEPT ![Lo] = NoMark, ![Hi] = NoMark]
           /\ dot'  = IF mark[Lo] <= dot /\ dot <= mark[Hi] THEN dot
                      ELSE IF mark[Lo] <= mark[Hi] /\ dot < mark[Lo]
                      THEN mark[Lo] ELSE mark[Hi]

(* What dot and the marks say without a text means nothing. *)
Lose == lost' = TRUE /\ text' = << >>

Replace == /\ lost /\ lost' = FALSE /\ text' = << >>
           /\ dot' = 1 /\ head' = 1 /\ tail' = 0
           /\ mark' = [ m \in Marker |-> NoMark ]

Edit == /\ ~lost
        /\ \/ Move \/ Lose \/ EraseRegion \/ Transpose \/ SetMark \/ Exchange
           \/ Narrow \/ Widen \/ Save \/ Restore
           \/ \E c \in Char : Type(c)
           \/ \E n, k \in 0..Len(text) + 1 : Erase(n, k)

Next == Edit \/ Replace

Spec == Init /\ [][Next]_vars
==============================================================================
