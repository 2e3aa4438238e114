-------------------------------- MODULE Undo ---------------------------------
(***************************************************************************)
(* The undo facility of undo.c: a ring of records, a ring of deleted       *)
(* characters, and the walk of undo and undo-more back through both.       *)
(* Buffers are texts here (the gap is the business of GapBuffer); each     *)
(* primitive insertion or deletion records itself exactly as buffer.c      *)
(* makes it.  A keystroke lays a boundary (ProcessKeys); what the command  *)
(* it starts does to the buffers is any sequence of primitives, the        *)
(* output of subprocesses that arrives while the key is awaited included.  *)
(*                                                                         *)
(* UndoMore is a loop over records that ends before anything else runs;    *)
(* one step here is one round of it.                                       *)
(***************************************************************************)
EXTENDS Integers, Sequences, FiniteSets

CONSTANTS
  Char, Buffer, Blank,         \* Blank: a cell of UndoCQ not yet written
  NUndoR, NUndoC,              \* the lengths of the two queues
  MaxText, MaxKeys, MaxEdits   \* bounds: length of a text, keystrokes, edits

ASSUME QueueAssumption == /\ NUndoR \in Nat \ {0}
                          /\ NUndoC \in Nat \ {0} /\ NUndoC >= MaxText

VARIABLES
  text, live, cur,   \* the buffers, those not deleted, and bf_cur
  u,                 \* the static variables of undo.c
  at,                \* where UndoMore is: its locals, or at.pc = "idle"
  \* History, for the properties only:
  past,              \* the texts at each boundary laid by a keystroke
  reach,             \* boundaries reach..Len(past) have been undone
  edits,             \* the edits and undos made so far, bounded by MaxEdits
  flaws                \* how the queues came to tell what did not happen

vars == << text, live, cur, u, at, past, reach, edits, flaws >>

NoRec   == -1
Slots   == 0..NUndoR   \* FillRQ may equal NUndoR, one beyond UndoRQ
(***************************************************************************)
(* The rings.                                                              *)
(***************************************************************************)
(* A slip: a new record does not end the run of undos. *)
NewUndoKeepsLast(r, kind, b, d, len) ==
  LET p  == r.FillRQ
      np == IF p >= NUndoR THEN 0 ELSE p + 1
  IN  [ r EXCEPT !.RQ = [ @ EXCEPT ![np].kind = "unundoable",
                                   ![p] = [ kind |-> kind, buffer |-> b,
                                            dot |-> d, len |-> len ] ],
                 !.FillRQ = np,
                 !.LastUndoRec = p ]

NewUndo(r, kind, b, d, len) ==
  LET p  == r.FillRQ
      np == IF p >= NUndoR THEN 0 ELSE p + 1
  IN  [ r EXCEPT !.RQ = [ @ EXCEPT ![np].kind = "unundoable",
                                   ![p] = [ kind |-> kind, buffer |-> b,
                                            dot |-> d, len |-> len ] ],
                 !.FillRQ = np,
                 !.LastUndoRec = p,
                 !.LastUndone = IF kind = "boundary" THEN @ ELSE NoRec ]

(* The last record absorbs a change that begins where it ends: whether it   *)
(* is of the same buffer is not asked.                                      *)
Merges(r, kind, d) == LET p == r.RQ[r.LastUndoRec]
                      IN  p.kind = kind /\ p.dot + p.len = d
Grown(r, n) == [ r EXCEPT !.RQ[r.LastUndoRec].len = @ + n ]

RecordInsert(r, b, d, n) ==
  IF Merges(r, "delete", d) THEN Grown(r, n) ELSE NewUndo(r, "delete", b, d, n)

(* FillCQ runs over 0..NUndoC: the queue is used as if it had one cell more.*)
RecordDelete(r, b, d, s) ==
  LET n   == Len(s)
      rec == IF Merges(r, "insert", d) THEN Grown(r, n)
             ELSE NewUndo(r, "insert", b, d, n)
      cyc == NUndoC + 1
  IN  [ rec EXCEPT
          !.NCharsLeft = @ - n,
          !.CQ = [ i \in 0..NUndoC |-> LET k == (i - r.FillCQ) % cyc
                                       IN  IF k < n THEN s[k + 1] ELSE @[i] ],
          !.FillCQ = (@ + n) % cyc ]

(***************************************************************************)
(* The primitives of buffer.c, seen as what they do to a text and the      *)
(* rings.  st is [t, r, f]: the text, the rings, the history of flaws.     *)
(***************************************************************************)
Lesser(x, y) == IF x < y THEN x ELSE y
Chunk(from, n) == [ i \in 1..n |-> u.CQ[from + i - 1] ]

(* History.  "ring": a queue has gone round; "merged": a change joined a     *)
(* record it does not continue; "silent": it joined the last record of an   *)
(* undo, so that undo-more does not see it.                                 *)
Round(r, n) == IF r.FillRQ = NUndoR \/ r.FillCQ + n > NUndoC THEN {"ring"} ELSE {}
Joined(r, kind, b, d) ==
  IF ~Merges(r, kind, d) THEN {}
  ELSE (IF kind = "insert" \/ r.RQ[r.LastUndoRec].buffer # b THEN {"merged"} ELSE {})
       \cup (IF r.LastUndone # NoRec THEN {"silent"} ELSE {})

Inserted(st, b, d, s) ==
  LET n == Lesser(d, Len(st.t) + 1)
  IN  [ t |-> SubSeq(st.t, 1, n - 1) \o s \o SubSeq(st.t, n, Len(st.t)),
        r |-> RecordInsert(st.r, b, d, Len(s)),
        f |-> st.f \cup Round(st.r, 0) \cup Joined(st.r, "delete", b, d) ]

Deleted(st, b, d, k) ==
  LET n == Lesser(k, Len(st.t) + 1 - d)
  IN  IF n <= 0 THEN st
      ELSE [ t |-> SubSeq(st.t, 1, d - 1) \o SubSeq(st.t, d + n, Len(st.t)),
             r |-> RecordDelete(st.r, b, d, SubSeq(st.t, d, d + n - 1)),
             f |-> st.f \cup Round(st.r, n) \cup Joined(st.r, "insert", b, d) ]

Now == [ t |-> text[cur], r |-> u, f |-> flaws ]
Becomes(st) == /\ text' = [text EXCEPT ![cur] = st.t]
               /\ u' = st.r
               /\ flaws' = st.f

(***************************************************************************)
(* InitUndo: DoneIsDone bars the way back beyond the start.                *)
(***************************************************************************)
AtRest == [ pc |-> "idle", p |-> 0, n |-> 0, arg |-> 0, chars |-> 0, goal |-> 0 ]

Init ==
  /\ text = [ b \in Buffer |-> << >> ]
  /\ live = Buffer
  /\ cur \in Buffer
  /\ LET none == [ kind |-> "boundary", buffer |-> cur, dot |-> 0, len |-> 0 ]
         zero == [ RQ |-> [ i \in Slots |-> none ],
                   CQ |-> [ i \in 0..NUndoC |-> Blank ],
                   FillRQ |-> 0, FillCQ |-> 0, NUndone |-> 0, NCharsLeft |-> 0,
                   LastUndoneC |-> 0, LastUndone |-> NoRec,
                   LastUndoRec |-> NoRec ]
     IN  u = NewUndo(zero, "unundoable", cur, 1, 0)
  /\ at = AtRest
  /\ past = << >> /\ reach = 0 /\ edits = 0 /\ flaws = {}

(***************************************************************************)
(* Keystrokes and edits.                                                   *)
(***************************************************************************)
Idle == at.pc = "idle"

(* ProcessKeys, before it reads a key that begins a command. *)
UndoBoundary ==
  /\ Idle /\ Len(past) < MaxKeys
  /\ u' = NewUndo(u, "boundary", cur, 1, 0)
  /\ past' = Append(past, text)
  /\ flaws' = flaws \cup Round(u, 0)
  /\ UNCHANGED << text, live, cur, at, reach, edits >>

Editing == Idle /\ past # << >> /\ edits < MaxEdits

Insert(d, c) ==
  /\ Editing /\ Len(text[cur]) < MaxText
  /\ Becomes(Inserted(Now, cur, d, << c >>))
  /\ edits' = edits + 1
  /\ UNCHANGED << live, cur, at, past, reach >>

Delete(d, k) ==
  /\ Editing
  /\ Becomes(Deleted(Now, cur, d, k))
  /\ edits' = edits + 1
  /\ UNCHANGED << live, cur, at, past, reach >>

SetBfp(b) == /\ Idle /\ b \in live
             /\ cur' = b
             /\ UNCHANGED << text, live, u, at, past, reach, edits, flaws >>

(* DelBuf says nothing to undo.c: the records of the buffer stay, orphaned. *)
DelBuf(b) ==
  /\ Editing /\ b \in live /\ live # {b}
  /\ live' = live \ {b}
  /\ text' = [text EXCEPT ![b] = << >>]
  /\ cur' \in (IF cur = b THEN live \ {b} ELSE {cur})
  /\ edits' = edits + 1
  /\ flaws' = flaws \cup {"orphans"}
  /\ UNCHANGED << u, at, past, reach >>

(***************************************************************************)
(* Undo and UndoMore: first a walk that counts the records and sees        *)
(* whether all of them can be undone, then the work.                       *)
(***************************************************************************)
Walk(r, arg, from) ==
  at' = [ AtRest EXCEPT !.pc = "walk", !.p = r.LastUndone, !.arg = arg,
                        !.goal = from - arg ]

Undo(arg) ==
  /\ Editing
  /\ u' = [ u EXCEPT !.LastUndone = u.LastUndoRec, !.NCharsLeft = NUndoC,
                     !.NUndone = 0, !.LastUndoneC = u.FillCQ ]
  /\ Walk(u', arg + 1, Len(past) + 1)
  /\ reach' = Len(past) + 1
  /\ edits' = edits + 1
  /\ UNCHANGED << text, live, cur, past, flaws >>

UndoMore(arg) ==
  /\ Editing /\ u.LastUndone # NoRec
  /\ Walk(u, arg, reach)
  /\ edits' = edits + 1
  /\ UNCHANGED << text, live, cur, u, past, reach, flaws >>

(* A slip: the walk never tires. *)
RefusedNever(rec, left) == \/ rec.kind = "insert" /\ left < 0
                           \/ rec.kind = "unundoable"

Before(p) == IF p = 0 THEN NUndoR - 1 ELSE p - 1

Refused(rec, left) == \/ rec.kind = "insert" /\ left < 0
                      \/ rec.kind = "unundoable"
                      \/ u.NUndone >= NUndoR

WalkRecord ==
  LET rec  == u.RQ[at.p]
      left == u.NCharsLeft - (IF rec.kind = "insert" THEN rec.len ELSE 0)
  IN  /\ at.pc = "walk" /\ rec.kind # "boundary"
      /\ IF Refused(rec, left)
         THEN at' = AtRest /\ u' = [ u EXCEPT !.NCharsLeft = left ]
         ELSE /\ at' = [ at EXCEPT !.p = Before(@), !.n = @ + 1 ]
              /\ u'  = [ u EXCEPT !.NCharsLeft = left, !.NUndone = @ + 1 ]
      /\ UNCHANGED << text, live, cur, past, reach, edits, flaws >>

WalkBoundary ==
  /\ at.pc = "walk" /\ u.RQ[at.p].kind = "boundary"
  /\ u' = [ u EXCEPT !.NUndone = @ + 1 ]
  /\ at' = IF at.arg > 1
           THEN [ at EXCEPT !.p = Before(@), !.n = @ + 1, !.arg = @ - 1 ]
           ELSE [ at EXCEPT !.pc = "apply", !.p = u.LastUndone, !.n = @ + 1,
                            !.chars = u.LastUndoneC ]
  /\ UNCHANGED << text, live, cur, past, reach, edits, flaws >>

(* The text an Uinsert record stands for, put back at d. Characters that    *)
(* go round the end of the queue come back in two pieces.                   *)
PutBack(st, b, d, len) ==
  LET chars == at.chars - len
  IN  IF chars >= 0 THEN Inserted(st, b, d, Chunk(chars, len))
      ELSE Inserted(Inserted(st, b, d, Chunk(0, len + chars)),
                    b, d + len + chars, Chunk(chars + NUndoC, - chars))

(* SetBfp returns without a word when the buffer has been deleted, and the  *)
(* record is then applied to the buffer that happens to be current.         *)
ApplyRecord ==
  LET rec  == u.RQ[at.p]
      b    == IF rec.buffer \in live THEN rec.buffer ELSE cur
      st   == [ t |-> text[b], r |-> u, f |-> flaws ]
      done == CASE rec.kind = "delete" -> Deleted(st, b, rec.dot, rec.len)
                [] rec.kind = "insert" -> PutBack(st, b, rec.dot, rec.len)
                [] OTHER -> st
      left == at.chars - (IF rec.kind = "insert" THEN rec.len ELSE 0)
      next == [ at EXCEPT !.p = Before(@), !.n = @ - 1,
                          !.chars = IF left < 0 THEN left + NUndoC ELSE left ]
  IN  /\ at.pc = "apply" /\ at.n > 0
      /\ cur' = b
      /\ text' = [text EXCEPT ![b] = done.t]
      /\ u' = done.r
      /\ flaws' = done.f
      /\ at' = IF rec.kind = "unundoable" THEN AtRest ELSE next
      /\ UNCHANGED << live, past, reach, edits >>

FinishUndo ==
  /\ at.pc = "apply" /\ at.n = 0
  /\ u' = [ u EXCEPT !.LastUndone = at.p, !.LastUndoneC = at.chars ]
  /\ at' = AtRest
  /\ reach' = at.goal
  /\ UNCHANGED << text, live, cur, past, edits, flaws >>

Working == WalkRecord \/ WalkBoundary \/ ApplyRecord \/ FinishUndo

Next ==
  \/ UndoBoundary
  \/ \E d \in 1..(Len(text[cur]) + 1), c \in Char : Insert(d, c)
  \/ \E d \in 1..Len(text[cur]), k \in 1..2 : Delete(d, k)
  \/ \E b \in Buffer : SetBfp(b) \/ DelBuf(b)
  \/ \E arg \in 1..2 : Undo(arg) \/ UndoMore(arg)
  \/ Working

Spec == Init /\ [][Next]_vars

(***************************************************************************)
(* Properties.                                                             *)
(***************************************************************************)
(* The text is again what it was when the command gone back to began. *)
Exact == at.goal \in DOMAIN past /\ text = past[at.goal]

(* An undo or an undo-more that is not refused brings every buffer back to  *)
(* what it was when the command it goes back to began, and so the undo of   *)
(* an undo does too: as long as no record was merged with one it does not   *)
(* continue, no queue went round, and no buffer was deleted (UndoMore).     *)
UndoExact == [][ FinishUndo /\ flaws = {} => Exact ]_vars

(* The walk back goes round the queue of records once at most, whatever the *)
(* records overwritten look like: NUndone stops it (UndoMore).              *)
WalkBounded == at.n <= NUndoR + 3

==============================================================================
