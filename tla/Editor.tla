------------------------------- MODULE Editor --------------------------------
(***************************************************************************)
(* The commands of simplecoms.c and metacoms.c that edit the current       *)
(* buffer, run one at a time by ExecuteBound on the gap buffer of          *)
(* GapBuffer.  A command that repeats itself (self-insert and the word     *)
(* commands loop on their argument) takes one step per round of its loop;  *)
(* job holds the rounds that remain.                                       *)
(***************************************************************************)
EXTENDS GapBuffer, FiniteSets

CONSTANTS
  Newline, WordChar, White,  \* '\n', the word characters, blank and tab
  Mark,                      \* b_mark, the mark of this buffer
  Lo, Hi,                    \* the two markers of SaveRestriction
  Args,                      \* the prefix arguments tried
  MaxText                    \* bound: no longer text, no head far beyond it

ASSUME MarkerAssumption == /\ {Mark, Lo, Hi} \subseteq Marker
                           /\ Mark # Lo /\ Mark # Hi /\ Lo # Hi
ASSUME ArgsAssumption   == Args \subseteq Int

VARIABLES
  buf,   \* the current buffer
  dot,
  job    \* what a looping command has left to do

vars == << buf, dot, job >>

Idle == [ do |-> "nothing", left |-> 0, c |-> Junk, back |-> FALSE, del |-> FALSE ]

Init == buf = NewBf /\ dot = 1 /\ job = Idle

(***************************************************************************)
(* How a command ends (ExecuteBound) and how text is scanned.              *)
(***************************************************************************)
(* A slip: dot clamped from below only. *)
ClampedLow(b, d) == IF d < FirstCharacter(b) THEN FirstCharacter(b) ELSE d

Clamped(b, d) ==
  LET low == IF d < FirstCharacter(b) THEN FirstCharacter(b) ELSE d
  IN  IF low > NumCharacters(b) THEN NumCharacters(b) + 1 ELSE low

(* After a command returns: its buffer, and dot forced into the restriction.*)
Finish(b, d) == buf' = b /\ dot' = Clamped(b, d) /\ job' = Idle

(* A command may start: none is running, and the buffer has its storage.    *)
Ready == job = Idle /\ ~Lost(buf)

(* How many characters starting at n, or ending just before n, are in S. *)
RunAfter(b, n, S) ==
  Cardinality({ i \in n..NumCharacters(b) : \A j \in n..i : CharAt(b, j) \in S })
RunBefore(b, n, S) ==
  Cardinality({ i \in FirstCharacter(b)..(n - 1) :
                  \A j \in i..(n - 1) : CharAt(b, j) \in S })

(* ScanBf('\n', n, 1) and ScanBf('\n', n, -1). *)
NextLineStart(b, n) ==
  LET p == n + RunAfter(b, n, Char \ {Newline})
  IN  IF p > NumCharacters(b) THEN p ELSE p + 1
LineStart(b, n) ==
  IF n <= FirstCharacter(b) THEN FirstCharacter(b)
  ELSE n - RunBefore(b, n, Char \ {Newline})

(***************************************************************************)
(* Motion.                                                                 *)
(***************************************************************************)
ForwardCharacter(arg) ==
  Ready /\ Finish(buf, LET d == dot + arg
                       IN  IF d > NumCharacters(buf) + 1
                           THEN NumCharacters(buf) + 1 ELSE d)

Backward(b, d, arg) == IF d - arg < FirstCharacter(b) THEN FirstCharacter(b)
                       ELSE d - arg
BackwardCharacter(arg) == Ready /\ Finish(buf, Backward(buf, dot, arg))

BeginningOfFile == Ready /\ Finish(buf, FirstCharacter(buf))
EndOfFile       == Ready /\ Finish(buf, NumCharacters(buf) + 1)
BeginningOfLine == Ready /\ Finish(buf, LineStart(buf, dot))

(* Backing up over the newline uses BackwardCharacter, prefix argument and  *)
(* all.                                                                     *)
EndOfLine(arg) ==
  /\ Ready
  /\ LET d == NextLineStart(buf, dot)
     IN  Finish(buf, IF d # dot /\ CharAt(buf, d - 1) = Newline
                     THEN Backward(buf, d, arg) ELSE d)

(***************************************************************************)
(* Insertion and deletion.                                                 *)
(***************************************************************************)
(* One round of the loop of SelfInsert, at least one whatever the argument. *)
SelfInsertRound(c, left) ==
  \E granted \in BOOLEAN :
    LET b == Insert(buf, dot, << c >>, granted)
    IN  IF left > 1 /\ ~Lost(b)
        THEN /\ buf' = b /\ dot' = dot + 1
             /\ job' = [ Idle EXCEPT !.do = "insert", !.left = left - 1, !.c = c ]
        ELSE Finish(b, dot + 1)

SelfInsert(c, arg) ==
  /\ Ready /\ Length(buf) < MaxText /\ Length(buf) + arg <= MaxText
  /\ SelfInsertRound(c, arg)
SelfInsertAgain    == job.do = "insert" /\ SelfInsertRound(job.c, job.left)

DeleteNextCharacter(arg) == Ready /\ Finish(DelFrwd(buf, dot, arg), dot)

DeletePreviousCharacter(arg) ==
  Ready /\ Finish(DelBack(buf, dot, arg), dot - arg)

DeleteWhiteSpace ==
  /\ Ready
  /\ LET after  == RunAfter(buf, dot, White)
         before == RunBefore(buf, dot, White)
         b      == IF after + before > 0
                   THEN DelFrwd(buf, dot - before, after + before) ELSE buf
     IN  Finish(b, dot - before)

TransposeCharacters ==
  /\ Ready
  /\ IF dot < 3 THEN Finish(buf, dot)
     ELSE /\ Length(buf) < MaxText
          /\ \E granted \in BOOLEAN :
               Finish(Insert(DelBack(buf, dot, 1), dot - 2,
                             << CharAt(buf, dot - 1) >>, granted), dot)

(***************************************************************************)
(* Words.  One round skips what is not a word, then a word.                *)
(***************************************************************************)
NotWord == Char \ WordChar

WordAfter(b, d) ==
  LET gap == RunAfter(b, d, NotWord) IN gap + RunAfter(b, d + gap, WordChar)
WordBefore(b, d) ==
  LET gap == RunBefore(b, d, NotWord) IN gap + RunBefore(b, d - gap, WordChar)

WordRound(back, del, left) ==
  LET n == IF back THEN WordBefore(buf, dot) ELSE WordAfter(buf, dot)
      b == IF ~del \/ n = 0 THEN buf
           ELSE IF back THEN DelBack(buf, dot, n) ELSE DelFrwd(buf, dot, n)
      d == IF back THEN dot - n ELSE IF del THEN dot ELSE dot + n
  IN  IF n > 0 /\ left > 1
      THEN /\ buf' = b /\ dot' = d
           /\ job' = [ Idle EXCEPT !.do = "word", !.left = left - 1,
                                  !.back = back, !.del = del ]
      ELSE Finish(b, d)

Word(back, del, arg) == Ready /\ WordRound(back, del, arg)
WordAgain == job.do = "word" /\ WordRound(job.back, job.del, job.left)

(***************************************************************************)
(* The mark and the region.                                                *)
(***************************************************************************)
IsSet(m) == buf.mark[m] # 0

SetMarkCommand == Ready /\ Finish(SetMark(buf, Mark, dot), dot)

ExchangeDotAndMark ==
  /\ Ready /\ IsSet(Mark)
  /\ Finish(SetMark(buf, Mark, dot), ToMark(buf, Mark))

EraseRegion ==
  /\ Ready /\ IsSet(Mark)
  /\ LET n == ToMark(buf, Mark) - dot
     IN  IF n < 0 THEN Finish(DelFrwd(buf, dot + n, -n), dot + n)
         ELSE Finish(DelFrwd(buf, dot, n), dot)

(***************************************************************************)
(* The restriction.                                                        *)
(***************************************************************************)
Restricted(b, lo, hi) == [ b EXCEPT !.head = lo, !.tail = Length(b) + 1 - hi ]

NarrowRegion ==
  /\ Ready /\ IsSet(Mark)
  /\ LET m == ToMark(buf, Mark)
     IN  Finish(IF dot < m THEN Restricted(buf, dot, m)
                ELSE Restricted(buf, m, dot), dot)

WidenRegion == Ready /\ Finish([ buf EXCEPT !.head = 1, !.tail = 0 ], dot)

(* SaveRestriction: what it does before its body ...  (Bound: a head that   *)
(* EraseRegion left beyond the text drifts further with every insertion.)   *)
EnterSaveRestriction ==
  /\ Ready /\ ~IsSet(Lo) /\ buf.head <= MaxText + 1
  /\ Finish(SetMark(SetMark(buf, Lo, buf.head), Hi, NumCharacters(buf) + 1), dot)

(* ... and after it.  Dot is clamped under the inner restriction, which is *)
(* the current one until the last assignment, and then by ExecuteBound.    *)
LeaveSaveRestriction ==
  /\ Ready /\ IsSet(Lo)
  /\ LET outer == Restricted(buf, ToMark(buf, Lo), ToMark(buf, Hi))
         freed == [ outer EXCEPT !.mark[Lo] = 0, !.mark[Hi] = 0 ]
     IN  Finish(freed, Clamped(buf, dot))

(* A buffer that lost its text can only be deleted; another takes its place.*)
ReplaceBuffer == Lost(buf) /\ Finish(NewBf, 1)

(***************************************************************************)
Next ==
  \/ \E a \in Args : \/ ForwardCharacter(a) \/ BackwardCharacter(a)
                     \/ DeleteNextCharacter(a) \/ DeletePreviousCharacter(a)
                     \/ EndOfLine(a)
                     \/ \E c \in Char : SelfInsert(c, a)
                     \/ \E back, del \in BOOLEAN : Word(back, del, a)
  \/ SelfInsertAgain \/ WordAgain
  \/ BeginningOfFile \/ EndOfFile \/ BeginningOfLine
  \/ DeleteWhiteSpace \/ TransposeCharacters
  \/ SetMarkCommand \/ ExchangeDotAndMark \/ EraseRegion
  \/ NarrowRegion \/ WidenRegion
  \/ EnterSaveRestriction \/ LeaveSaveRestriction
  \/ ReplaceBuffer

Spec == Init /\ [][Next]_vars

(***************************************************************************)
(* Properties.                                                             *)
(***************************************************************************)
(* Every variable has its type; dot may be anything once the text is lost. *)
TypeOK == /\ buf \in Buffer
          /\ dot \in Int
          /\ job \in [ do : {"nothing", "insert", "word"}, left : Nat,
                       c : Cell, back : BOOLEAN, del : BOOLEAN ]

(* The three parts of the block always add up to it, every marker lies in   *)
(* it and no cell of the gap shows through as text, whatever the sequence   *)
(* of gap motions, insertions, deletions and reallocations was (buffer.c).  *)
(* The exception is Lo: SaveRestriction sets it at FirstCharacter, and      *)
(* EraseRegion may have left FirstCharacter beyond the end of the text.     *)
BufferSound == ~Lost(buf) => /\ WellFormed(buf)
                             /\ Clean(buf)
                             /\ \A m \in Marker \ {Lo} : Inside(buf, m)

(* Dot always names a character of the text or its end, and the restriction *)
(* never hides more of the tail than there is: CharAt(dot), which checks    *)
(* nothing, is always in bounds.                                            *)
DotInText == ~Lost(buf) => /\ buf.tail <= Length(buf)
                           /\ 1 <= dot /\ dot <= NumCharacters(buf) + 1

(* What the restriction hides, before and after the visible text. *)
Hidden(b) == << SubSeq(Text(b), 1, Lesser(FirstCharacter(b) - 1, Length(b))),
                SubSeq(Text(b), NumCharacters(b) + 1, Length(b)) >>

(* The step leaves the restriction alone, and it is one the text fills. *)
RestrictionStands == /\ ~Lost(buf)' /\ buf.head <= dot
                     /\ buf.head' = buf.head /\ buf.tail' = buf.tail

(* "Text outside this region ... won't be manipulable by any editing        *)
(* commands" (the manual, on narrow-region): while the restriction stands,  *)
(* the hidden text stays as it is, but for the two commands that compute    *)
(* the place they delete from without looking at FirstCharacter.            *)
OnlyTwoReachHidden ==
  [][ RestrictionStands => \/ Hidden(buf)' = Hidden(buf)
                           \/ EraseRegion \/ TransposeCharacters ]_vars

(* The gap is invisible: the editor implements TextBuffer, where a buffer   *)
(* is its text and a mark a place between two characters.                   *)
Abstract == INSTANCE TextBuffer WITH
              text <- Text(buf), NoMark <- 0,
              mark <- [ m \in Marker |-> IF IsSet(m) THEN ToMark(buf, m) ELSE 0 ],
              head <- buf.head, tail <- buf.tail, lost <- Lost(buf)
Implements == Abstract!Spec
==============================================================================
