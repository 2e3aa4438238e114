------------------------------ MODULE UndoProofs -----------------------------
(***************************************************************************)
(* The walk of undo and undo-more through the ring of records, proved to   *)
(* be bounded for queues of every length; and what undo does, proved to be *)
(* exact as long as the queues tell what happened.                         *)
(*                                                                         *)
(* WalkBounded is not inductive.  A record is passed only while NUndone is *)
(* below NUndoR and adds one to it; a boundary is passed whatever NUndone  *)
(* is, but there are no more of them than the argument asks for.  So what  *)
(* has been passed is at most NUndone, or NUndoR, and the boundaries.      *)
(*                                                                         *)
(* UndoExact needs what the records mean.  While flaws is empty there is a *)
(* tale: the texts before each record, each made of those after it as the  *)
(* record tells.  A change adds a record to the tale or alters the last,   *)
(* and leaves the texts before it; undo walks back through the tale and    *)
(* makes each of its texts in turn, while what it does adds to the end of  *)
(* the same tale.                                                          *)
(***************************************************************************)
EXTENDS Undo, TLAPS

Counts(r) == "NUndone" \in DOMAIN r /\ r.NUndone \in Nat

(* The most an argument may ask for: undo adds one to it. *)
MaxArg == 3

Passed == Lesser(u.NUndone, NUndoR) + MaxArg - at.arg

WalkInv ==
  /\ Counts(u)
  /\ {"pc", "p", "n", "arg", "chars", "goal"} \subseteq DOMAIN at
  /\ at.n \in Int /\ at.arg \in Int
  /\ at.n <= NUndoR + MaxArg
  /\ at.pc = "walk" => 1 <= at.arg /\ at.arg <= MaxArg /\ at.n <= Passed

(***************************************************************************)
(* Recording leaves NUndone alone.                                         *)
(***************************************************************************)
Same(r, q) == Counts(q) /\ q.NUndone = r.NUndone

LEMMA NewUndoSame ==
  ASSUME NEW r, Counts(r), NEW kind, NEW b, NEW d, NEW len
  PROVE  Same(r, NewUndo(r, kind, b, d, len))
BY DEF NewUndo, Counts, Same

LEMMA GrownSame ==
  ASSUME NEW r, Counts(r), NEW n
  PROVE  Same(r, Grown(r, n))
BY DEF Grown, Counts, Same

LEMMA RecordInsertSame ==
  ASSUME NEW r, Counts(r), NEW b, NEW d, NEW n
  PROVE  Same(r, RecordInsert(r, b, d, n))
BY NewUndoSame, GrownSame DEF RecordInsert

LEMMA RecordDeleteSame ==
  ASSUME NEW r, Counts(r), NEW b, NEW d, NEW s
  PROVE  Same(r, RecordDelete(r, b, d, s))
<1> DEFINE n   == Len(s)
           rec == IF Merges(r, "insert", d) THEN Grown(r, n)
                  ELSE NewUndo(r, "insert", b, d, n)
<1>1. Same(r, rec)
  BY NewUndoSame, GrownSame
<1> HIDE DEF n, rec
<1>2. \A x, y, z : Same(r, [ rec EXCEPT !.NCharsLeft = x, !.CQ = y, !.FillCQ = z ])
  BY <1>1 DEF Same, Counts
<1> QED
  BY <1>2 DEF RecordDelete, n, rec

LEMMA InsertedSame ==
  ASSUME NEW st, Counts(st.r), NEW b, NEW d, NEW s
  PROVE  Same(st.r, Inserted(st, b, d, s).r)
BY RecordInsertSame DEF Inserted

LEMMA DeletedSame ==
  ASSUME NEW st, Counts(st.r), NEW b, NEW d, NEW k
  PROVE  Same(st.r, Deleted(st, b, d, k).r)
BY RecordDeleteSame DEF Deleted, Same

LEMMA PutBackSame ==
  ASSUME NEW st, Counts(st.r), NEW b, NEW d, NEW len
  PROVE  Same(st.r, PutBack(st, b, d, len).r)
<1>1. \A c1, c2, d2 :
        Same(st.r, Inserted(Inserted(st, b, d, c1), b, d2, c2).r)
  BY InsertedSame DEF Same
<1> QED
  BY <1>1, InsertedSame DEF PutBack

(***************************************************************************)
(* The steps.                                                              *)
(***************************************************************************)
LEMMA Elsewhere ==
  ASSUME WalkInv, Counts(u'), at' = at, at.pc # "walk"
  PROVE  WalkInv'
BY DEF WalkInv

LEMMA WalkBegins ==
  ASSUME NEW r, NEW arg \in 1..MaxArg, NEW from, Counts(u'), Walk(r, arg, from)
  PROVE  WalkInv'
<1>1. at'.pc = "walk" /\ at'.n = 0 /\ at'.arg = arg
      /\ {"pc", "p", "n", "arg", "chars", "goal"} \subseteq DOMAIN at'
  BY DEF Walk, AtRest
<1> QED
  BY <1>1, QueueAssumption DEF WalkInv, Passed, Lesser, Counts, MaxArg

LEMMA Rests ==
  ASSUME Counts(u'), at' = AtRest
  PROVE  WalkInv'
BY QueueAssumption DEF AtRest, WalkInv, MaxArg

LEMMA Steps ==
  ASSUME WalkInv, [Next]_vars
  PROVE  WalkInv'
<1> USE DEF MaxArg
<1> Counts(u)
  BY DEF WalkInv
<1>1. CASE UndoBoundary
  <2>1. Counts(u')
    BY <1>1, NewUndoSame DEF UndoBoundary, Same
  <2> QED
    BY <1>1, <2>1, Elsewhere DEF UndoBoundary, Idle
<1>2. ASSUME NEW d, NEW c, Insert(d, c)
      PROVE  WalkInv'
  <2>1. Counts(u')
    BY <1>2, InsertedSame DEF Insert, Becomes, Now, Same
  <2> QED
    BY <1>2, <2>1, Elsewhere DEF Insert, Editing, Idle
<1>3. ASSUME NEW d, NEW k, Delete(d, k)
      PROVE  WalkInv'
  <2>1. Counts(u')
    BY <1>3, DeletedSame DEF Delete, Becomes, Now, Same
  <2> QED
    BY <1>3, <2>1, Elsewhere DEF Delete, Editing, Idle
<1>4. ASSUME NEW b, SetBfp(b) \/ DelBuf(b)
      PROVE  WalkInv'
  BY <1>4, Elsewhere DEF SetBfp, DelBuf, Editing, Idle
<1>5. ASSUME NEW arg \in 1..2, Undo(arg)
      PROVE  WalkInv'
  <2>1. Counts(u')
    BY <1>5 DEF Undo, Counts
  <2>2. Walk(u', arg + 1, Len(past) + 1)
    BY <1>5 DEF Undo
  <2> QED
    BY <2>1, <2>2, WalkBegins
<1>6. ASSUME NEW arg \in 1..2, UndoMore(arg)
      PROVE  WalkInv'
  <2>1. Counts(u') /\ Walk(u, arg, reach)
    BY <1>6 DEF UndoMore
  <2> QED
    BY <2>1, WalkBegins
<1>7. CASE WalkRecord
  <2> DEFINE rec  == u.RQ[at.p]
             left == u.NCharsLeft - (IF rec.kind = "insert" THEN rec.len ELSE 0)
  <2>1. CASE Refused(rec, left)
    <3>1. at' = AtRest /\ u' = [ u EXCEPT !.NCharsLeft = left ]
      BY <1>7, <2>1 DEF WalkRecord
    <3> QED
      BY <3>1, Rests DEF Counts
  <2>2. CASE ~Refused(rec, left)
    <3>1. /\ at' = [ at EXCEPT !.p = Before(@), !.n = @ + 1 ]
          /\ u'  = [ u EXCEPT !.NCharsLeft = left, !.NUndone = @ + 1 ]
          /\ at.pc = "walk"
      BY <1>7, <2>2 DEF WalkRecord
    <3>2. ~(u.NUndone >= NUndoR)
      BY <2>2 DEF Refused
    <3> HIDE DEF rec, left
    <3>3. /\ Counts(u') /\ u'.NUndone = u.NUndone + 1
          /\ at'.n = at.n + 1 /\ at'.arg = at.arg /\ DOMAIN at' = DOMAIN at
      BY <3>1 DEF Counts, WalkInv
    <3> QED
      BY <3>1, <3>2, <3>3, QueueAssumption DEF WalkInv, Passed, Lesser, Counts
  <2> QED
    BY <2>1, <2>2
<1>8. CASE WalkBoundary
  <2>1. /\ at.pc = "walk" /\ Counts(u') /\ u'.NUndone = u.NUndone + 1
    BY <1>8 DEF WalkBoundary, Counts
  <2>2. CASE at.arg > 1
    <3>1. at' = [ at EXCEPT !.p = Before(@), !.n = @ + 1, !.arg = @ - 1 ]
      BY <1>8, <2>2 DEF WalkBoundary
    <3>2. at'.n = at.n + 1 /\ at'.arg = at.arg - 1 /\ DOMAIN at' = DOMAIN at
      BY <3>1 DEF WalkInv
    <3> QED
      BY <2>1, <2>2, <3>2, QueueAssumption DEF WalkInv, Passed, Lesser, Counts
  <2>3. CASE ~(at.arg > 1)
    <3>1. at' = [ at EXCEPT !.pc = "apply", !.p = u.LastUndone, !.n = @ + 1,
                            !.chars = u.LastUndoneC ]
      BY <1>8, <2>3 DEF WalkBoundary
    <3>2. /\ at'.n = at.n + 1 /\ at'.arg = at.arg /\ DOMAIN at' = DOMAIN at
          /\ at'.pc = "apply"
      BY <3>1 DEF WalkInv
    <3> QED
      BY <2>1, <2>3, <3>2, QueueAssumption DEF WalkInv, Passed, Lesser, Counts
  <2> QED
    BY <2>2, <2>3
<1>9. CASE ApplyRecord
  <2> DEFINE rec  == u.RQ[at.p]
             b    == IF rec.buffer \in live THEN rec.buffer ELSE cur
             st   == [ t |-> text[b], r |-> u, f |-> flaws ]
             done == CASE rec.kind = "delete" -> Deleted(st, b, rec.dot, rec.len)
                       [] rec.kind = "insert" -> PutBack(st, b, rec.dot, rec.len)
                       [] OTHER -> st
             left == at.chars - (IF rec.kind = "insert" THEN rec.len ELSE 0)
             next == [ at EXCEPT !.p = Before(@), !.n = @ - 1,
                                 !.chars = IF left < 0 THEN left + NUndoC ELSE left ]
  <2>1. /\ at.pc = "apply" /\ u' = done.r
        /\ at' = IF rec.kind = "unundoable" THEN AtRest ELSE next
    BY <1>9 DEF ApplyRecord
  <2>2. Counts(st.r)
    OBVIOUS
  <2>3. Same(u, Deleted(st, b, rec.dot, rec.len).r)
    BY <2>2, DeletedSame
  <2>4. Same(u, PutBack(st, b, rec.dot, rec.len).r)
    BY <2>2, PutBackSame
  <2>5. Counts(u')
    BY <2>1, <2>3, <2>4 DEF Same
  <2>6. next.n = at.n - 1 /\ next.arg = at.arg /\ DOMAIN next = DOMAIN at /\ next.pc = at.pc
    BY DEF WalkInv
  <2> HIDE DEF next, done
  <2>7. CASE rec.kind = "unundoable"
    BY <2>1, <2>5, <2>7, Rests
  <2>8. CASE rec.kind # "unundoable"
    BY <2>1, <2>5, <2>6, <2>8, QueueAssumption DEF WalkInv
  <2> QED
    BY <2>7, <2>8
<1>10. CASE FinishUndo
  <2>1. Counts(u') /\ at' = AtRest
    BY <1>10 DEF FinishUndo, Counts
  <2> QED
    BY <2>1, Rests
<1>11. CASE UNCHANGED vars
  BY <1>11 DEF vars, WalkInv, Passed
<1> QED
  BY <1>1, <1>2, <1>3, <1>4, <1>5, <1>6, <1>7, <1>8, <1>9, <1>10, <1>11 DEF Next, Working

(* The walk back passes no more records than there are, and one boundary   *)
(* for each unit of the argument: UndoMore ends, whatever the queues hold, *)
(* however long they are and however often they have gone round.           *)
THEOREM UndoWalkBounded == Spec => []WalkBounded
<1>1. Init => WalkInv
  <2> SUFFICES ASSUME Init
               PROVE  WalkInv
    OBVIOUS
  <2>1. Counts(u)
    BY NewUndoSame DEF Init, Counts, Same
  <2> QED
    BY <2>1, QueueAssumption DEF Init, AtRest, WalkInv, MaxArg
<1>2. WalkInv /\ [Next]_vars => WalkInv'
  BY Steps
<1>3. WalkInv => WalkBounded
  BY DEF WalkInv, WalkBounded, MaxArg
<1> QED
  BY <1>1, <1>2, <1>3, PTL DEF Spec

(***************************************************************************)
(* Texts with a piece put in or taken out.                                 *)
(***************************************************************************)
Put(t, d, s) == SubSeq(t, 1, d - 1) \o s \o SubSeq(t, d, Len(t))
Cut(t, d, n) == SubSeq(t, 1, d - 1) \o SubSeq(t, d + n, Len(t))

LEMMA SameTexts ==
  ASSUME NEW S, NEW s \in Seq(S), NEW t \in Seq(S), Len(s) = Len(t),
         \A i \in 1..Len(s) : s[i] = t[i]
  PROVE  s = t
<1>1. s = [ i \in 1..Len(s) |-> s[i] ] /\ t = [ i \in 1..Len(t) |-> t[i] ]
  OBVIOUS
<1> QED
  BY <1>1

LEMMA SubSeqFacts ==
  ASSUME NEW S, NEW t \in Seq(S), NEW m \in 1..(Len(t) + 1), NEW n \in (m - 1)..Len(t)
  PROVE  /\ SubSeq(t, m, n) \in Seq(S) /\ Len(SubSeq(t, m, n)) = n - m + 1
         /\ \A i \in 1..(n - m + 1) : SubSeq(t, m, n)[i] = t[i + m - 1]
OBVIOUS

LEMMA JoinedFacts ==
  ASSUME NEW S, NEW s \in Seq(S), NEW t \in Seq(S)
  PROVE  /\ s \o t \in Seq(S) /\ Len(s \o t) = Len(s) + Len(t)
         /\ Len(s) \in Nat /\ Len(t) \in Nat
         /\ \A i \in 1..Len(s) : (s \o t)[i] = s[i]
         /\ \A i \in 1..Len(t) : (s \o t)[Len(s) + i] = t[i]
OBVIOUS

LEMMA PutFacts ==
  ASSUME NEW S, NEW t \in Seq(S), NEW s \in Seq(S), NEW d \in 1..(Len(t) + 1)
  PROVE  /\ Put(t, d, s) \in Seq(S) /\ Len(Put(t, d, s)) = Len(t) + Len(s)
         /\ \A i \in 1..(d - 1) : Put(t, d, s)[i] = t[i]
         /\ \A i \in 1..Len(s) : Put(t, d, s)[d + i - 1] = s[i]
         /\ \A i \in d..Len(t) : Put(t, d, s)[i + Len(s)] = t[i]
<1> DEFINE l == SubSeq(t, 1, d - 1)
           r == SubSeq(t, d, Len(t))
<1>1. /\ l \in Seq(S) /\ Len(l) = d - 1 /\ \A i \in 1..(d - 1) : l[i] = t[i]
      /\ r \in Seq(S) /\ Len(r) = Len(t) - d + 1
      /\ \A i \in 1..(Len(t) - d + 1) : r[i] = t[i + d - 1]
  BY SubSeqFacts
<1> HIDE DEF l, r
<1> DEFINE q == l \o s
<1>0. Len(t) \in Nat /\ Len(s) \in Nat
  OBVIOUS
<1>2. /\ q \in Seq(S) /\ Len(q) = d - 1 + Len(s)
      /\ \A i \in 1..(d - 1) : q[i] = l[i]
      /\ \A i \in 1..Len(s) : q[d - 1 + i] = s[i]
  BY <1>1, JoinedFacts
<1> HIDE DEF q
<1>3. /\ q \o r \in Seq(S) /\ Len(q \o r) = Len(q) + Len(r)
      /\ \A i \in 1..Len(q) : (q \o r)[i] = q[i]
      /\ \A i \in 1..Len(r) : (q \o r)[Len(q) + i] = r[i]
  <2>1. q \in Seq(S) /\ r \in Seq(S)
    BY <1>1, <1>2
  <2> QED
    BY <2>1, JoinedFacts
<1>4. ASSUME NEW i \in d..Len(t) PROVE (q \o r)[i + Len(s)] = t[i]
  <2>1. i - d + 1 \in 1..Len(r) /\ Len(q) + (i - d + 1) = i + Len(s)
        /\ (i - d + 1) + d - 1 = i
    BY <1>0, <1>1, <1>2
  <2> QED
    BY <1>1, <1>3, <2>1, ZenonT(40)
<1>5. ASSUME NEW i \in 1..(d - 1) PROVE (q \o r)[i] = t[i]
  <2>1. i \in 1..Len(q)
    BY <1>0, <1>2
  <2> QED
    BY <1>1, <1>2, <1>3, <2>1
<1>6. ASSUME NEW i \in 1..Len(s) PROVE (q \o r)[d + i - 1] = s[i]
  <2>1. d - 1 + i \in 1..Len(q) /\ d - 1 + i = d + i - 1
    BY <1>0, <1>2
  <2> QED
    BY <1>2, <1>3, <2>1
<1>7. Len(q \o r) = Len(t) + Len(s)
  BY <1>0, <1>1, <1>2, <1>3
<1> QED
  BY <1>3, <1>4, <1>5, <1>6, <1>7 DEF Put, q, l, r

LEMMA CutFacts ==
  ASSUME NEW S, NEW t \in Seq(S), NEW d \in Nat \ {0}, NEW n \in Nat, d + n <= Len(t) + 1
  PROVE  /\ Cut(t, d, n) \in Seq(S) /\ Len(Cut(t, d, n)) = Len(t) - n
         /\ \A i \in 1..(d - 1) : Cut(t, d, n)[i] = t[i]
         /\ \A i \in d..(Len(t) - n) : Cut(t, d, n)[i] = t[i + n]
<1> DEFINE l == SubSeq(t, 1, d - 1)
           r == SubSeq(t, d + n, Len(t))
<1>1. /\ l \in Seq(S) /\ Len(l) = d - 1 /\ \A i \in 1..(d - 1) : l[i] = t[i]
      /\ r \in Seq(S) /\ Len(r) = Len(t) - (d + n) + 1
      /\ \A i \in 1..(Len(t) - (d + n) + 1) : r[i] = t[i + (d + n) - 1]
  BY SubSeqFacts
<1> HIDE DEF l, r
<1>0. Len(t) \in Nat
  OBVIOUS
<1>2. /\ l \o r \in Seq(S) /\ Len(l \o r) = Len(l) + Len(r)
      /\ \A i \in 1..Len(l) : (l \o r)[i] = l[i]
      /\ \A i \in 1..Len(r) : (l \o r)[Len(l) + i] = r[i]
  <2>1. l \in Seq(S) /\ r \in Seq(S)
    BY <1>1
  <2> QED
    BY <2>1, JoinedFacts
<1>3. ASSUME NEW i \in d..(Len(t) - n) PROVE (l \o r)[i] = t[i + n]
  <2>1. i - d + 1 \in 1..Len(r) /\ Len(l) + (i - d + 1) = i
        /\ (i - d + 1) + (d + n) - 1 = i + n
    BY <1>0, <1>1
  <2> QED
    BY <1>1, <1>2, <2>1, ZenonT(40)
<1>4. Len(l \o r) = Len(t) - n
  BY <1>0, <1>1, <1>2
<1> QED
  BY <1>1, <1>2, <1>3, <1>4 DEF Cut, l, r

(* What is put in and taken out again, and the other way round. *)
LEMMA PutThenCut ==
  ASSUME NEW S, NEW t \in Seq(S), NEW s \in Seq(S), NEW d \in 1..(Len(t) + 1)
  PROVE  Cut(Put(t, d, s), d, Len(s)) = t
<1> DEFINE p == Put(t, d, s)
<1>1. /\ p \in Seq(S) /\ Len(p) = Len(t) + Len(s)
      /\ \A i \in 1..(d - 1) : p[i] = t[i]
      /\ \A i \in d..Len(t) : p[i + Len(s)] = t[i]
  BY PutFacts
<1> HIDE DEF p
<1>2. /\ Cut(p, d, Len(s)) \in Seq(S) /\ Len(Cut(p, d, Len(s))) = Len(t)
      /\ \A i \in 1..(d - 1) : Cut(p, d, Len(s))[i] = p[i]
      /\ \A i \in d..Len(t) : Cut(p, d, Len(s))[i] = p[i + Len(s)]
  <2>1. Len(s) \in Nat /\ Len(t) \in Nat /\ d \in Nat \ {0}
    OBVIOUS
  <2>2. p \in Seq(S) /\ d + Len(s) <= Len(p) + 1 /\ Len(p) - Len(s) = Len(t)
    BY <1>1, <2>1
  <2> DEFINE n == Len(s)
  <2> HIDE DEF n
  <2>3. n \in Nat /\ d + n <= Len(p) + 1 /\ Len(p) - n = Len(t)
    BY <2>1, <2>2 DEF n
  <2>4. /\ Cut(p, d, n) \in Seq(S) /\ Len(Cut(p, d, n)) = Len(p) - n
        /\ \A i \in 1..(d - 1) : Cut(p, d, n)[i] = p[i]
        /\ \A i \in d..(Len(p) - n) : Cut(p, d, n)[i] = p[i + n]
    BY <2>1, <2>2, <2>3, CutFacts, ZenonT(40)
  <2> QED
    BY <2>3, <2>4 DEF n
<1>3. \A i \in 1..Len(t) : Cut(p, d, Len(s))[i] = t[i]
  BY <1>1, <1>2
<1> QED
  BY <1>2, <1>3, SameTexts DEF p

LEMMA CutThenPut ==
  ASSUME NEW S, NEW t \in Seq(S), NEW d \in Nat \ {0}, NEW n \in Nat, d + n <= Len(t) + 1
  PROVE  Put(Cut(t, d, n), d, SubSeq(t, d, d + n - 1)) = t
<1> DEFINE c == Cut(t, d, n)
           s == SubSeq(t, d, d + n - 1)
<1>1. /\ c \in Seq(S) /\ Len(c) = Len(t) - n
      /\ \A i \in 1..(d - 1) : c[i] = t[i]
      /\ \A i \in d..(Len(t) - n) : c[i] = t[i + n]
  BY CutFacts
<1>2. s \in Seq(S) /\ Len(s) = n /\ \A i \in 1..n : s[i] = t[i + d - 1]
  BY SubSeqFacts
<1> HIDE DEF c, s
<1> DEFINE p == Put(c, d, s)
<1>3. /\ p \in Seq(S) /\ Len(p) = Len(t)
      /\ \A i \in 1..(d - 1) : p[i] = c[i]
      /\ \A i \in 1..n : p[d + i - 1] = s[i]
      /\ \A i \in d..(Len(t) - n) : p[i + n] = c[i]
  <2>1. Len(t) \in Nat /\ c \in Seq(S) /\ d \in 1..(Len(c) + 1) /\ Len(c) + n = Len(t)
    BY <1>1
  <2>2. /\ p \in Seq(S) /\ Len(p) = Len(c) + Len(s)
        /\ \A i \in 1..(d - 1) : p[i] = c[i]
        /\ \A i \in 1..Len(s) : p[d + i - 1] = s[i]
        /\ \A i \in d..Len(c) : p[i + Len(s)] = c[i]
    BY <1>2, <2>1, PutFacts
  <2> HIDE DEF p
  <2> QED
    BY <1>1, <1>2, <2>1, <2>2
<1> HIDE DEF p
<1>4. \A i \in 1..(d - 1) : p[i] = t[i]
  BY <1>1, <1>3
<1>5. ASSUME NEW i \in d..(d + n - 1) PROVE p[i] = t[i]
  <2>1. i - d + 1 \in 1..n /\ d + (i - d + 1) - 1 = i /\ (i - d + 1) + d - 1 = i
    OBVIOUS
  <2>2. p[d + (i - d + 1) - 1] = s[i - d + 1] /\ s[i - d + 1] = t[(i - d + 1) + d - 1]
    BY <1>2, <1>3, <2>1
  <2> QED
    BY <2>1, <2>2
<1>6. ASSUME NEW i \in (d + n)..Len(t) PROVE p[i] = t[i]
  <2>1. i - n \in d..(Len(t) - n) /\ (i - n) + n = i
    OBVIOUS
  <2> QED
    BY <1>1, <1>3, <2>1
<1>7. \A i \in 1..Len(t) : p[i] = t[i]
  BY <1>4, <1>5, <1>6
<1> QED
  BY <1>3, <1>7, SameTexts DEF p, c, s

(* What is put in at the end of a piece comes out with it. *)
LEMMA PutAtEnd ==
  ASSUME NEW S, NEW t \in Seq(S), NEW s \in Seq(S),
         NEW d \in Nat \ {0}, NEW n \in Nat, d + n <= Len(t) + 1
  PROVE  Cut(Put(t, d + n, s), d, n + Len(s)) = Cut(t, d, n)
<1> DEFINE e == d + n
           k == Len(s)
           m == n + k
           p == Put(t, e, s)
<1>0. /\ Len(t) \in Nat /\ k \in Nat /\ k = Len(s) /\ m \in Nat /\ m = n + k
      /\ e \in Nat /\ e = d + n /\ e \in 1..(Len(t) + 1)
  OBVIOUS
<1> HIDE DEF e, k, m
<1>1. /\ p \in Seq(S) /\ Len(p) = Len(t) + k
      /\ \A i \in 1..(e - 1) : p[i] = t[i]
      /\ \A i \in e..Len(t) : p[i + k] = t[i]
  BY <1>0, PutFacts, SMTT(40)
<1> HIDE DEF p
<1> DEFINE c == Cut(p, d, m)
           q == Cut(t, d, n)
<1>2. /\ c \in Seq(S) /\ Len(c) = Len(p) - m
      /\ \A i \in 1..(d - 1) : c[i] = p[i]
      /\ \A i \in d..(Len(p) - m) : c[i] = p[i + m]
  <2>1. p \in Seq(S) /\ m \in Nat /\ d + m <= Len(p) + 1
    BY <1>0, <1>1
  <2> QED
    BY <2>1, CutFacts
<1>3. /\ q \in Seq(S) /\ Len(q) = Len(t) - n
      /\ \A i \in 1..(d - 1) : q[i] = t[i]
      /\ \A i \in d..(Len(t) - n) : q[i] = t[i + n]
  BY CutFacts
<1> HIDE DEF c, q
<1>4. Len(p) - m = Len(t) - n
  BY <1>0, <1>1
<1>5. ASSUME NEW i \in d..(Len(t) - n) PROVE c[i] = q[i]
  <2>1. i \in d..(Len(p) - m) /\ i + n \in e..Len(t) /\ (i + n) + k = i + m
    BY <1>0, <1>4
  <2>2. c[i] = p[i + m] /\ p[(i + n) + k] = t[i + n] /\ q[i] = t[i + n]
    BY <1>1, <1>2, <1>3, <2>1
  <2> QED
    BY <2>1, <2>2
<1>6. ASSUME NEW i \in 1..(d - 1) PROVE c[i] = q[i]
  <2>1. i \in 1..(e - 1)
    BY <1>0
  <2> QED
    BY <1>1, <1>2, <1>3, <2>1
<1>7. \A i \in 1..Len(c) : c[i] = q[i]
  BY <1>0, <1>2, <1>4, <1>5, <1>6
<1> QED
  BY <1>2, <1>3, <1>4, <1>7, SameTexts DEF c, q, p, m, k, e

(***************************************************************************)
(* What the records tell, as long as flaws is empty.                       *)
(*                                                                         *)
(* There is a tale: T[i] are the texts before record i was laid, C[i] the  *)
(* place in the queue of characters, B[j] the record that is the j-th      *)
(* boundary.  Each record tells how the texts before it follow from those  *)
(* after it.                                                               *)
(***************************************************************************)
Texts == [ Buffer -> Seq(Char) ]
Kinds == {"boundary", "unundoable", "insert", "delete"}
Rec   == [ kind : Kinds, buffer : Buffer, dot : Nat, len : Nat ]
Rings == [ RQ : [ Slots -> Rec ], CQ : [ 0..NUndoC -> Char \cup {Blank} ],
           FillRQ : Slots, FillCQ : 0..NUndoC, NUndone : Int, NCharsLeft : Int,
           LastUndoneC : Int, LastUndone : Int, LastUndoRec : Int ]

Piece(cq, from, n) == [ i \in 1..n |-> cq[from + i - 1] ]

Told(rec, cq, x, y, c, d) ==
  LET b == rec.buffer
  IN  /\ rec.kind \in {"boundary", "unundoable"} => x = y /\ c = d
      /\ rec.kind \in {"delete", "insert"} => rec.dot # 0 /\ rec.len # 0
      /\ rec.kind = "delete" => /\ rec.dot + rec.len <= Len(y[b]) + 1
                                /\ x = [ y EXCEPT ![b] = Cut(y[b], rec.dot, rec.len) ]
                                /\ c = d
      /\ rec.kind = "insert" => /\ rec.dot <= Len(y[b]) + 1
                                /\ Piece(cq, c, rec.len) \in Seq(Char)
                                /\ x = [ y EXCEPT ![b] = Put(y[b], rec.dot, Piece(cq, c, rec.len)) ]
                                /\ d = c + rec.len

Linear(r) == /\ r \in Rings /\ r.FillRQ # 0
             /\ r.LastUndoRec = r.FillRQ - 1
             /\ \A i \in 0..(r.FillRQ - 1) : r.RQ[i].kind = "unundoable" <=> i = 0

Tale(x, r, T, C) ==
  /\ T \in [ 0..r.FillRQ -> Texts ] /\ T[r.FillRQ] = x
  /\ C \in [ 0..r.FillRQ -> Nat ] /\ C[r.FillRQ] = r.FillCQ
  /\ \A i \in 0..r.FillRQ : C[i] <= r.FillCQ
  /\ \A i \in 0..(r.FillRQ - 1) : Told(r.RQ[i], r.CQ, T[i], T[i + 1], C[i], C[i + 1])

Marks(r, h, T, B) ==
  /\ B \in [ 1..Len(h) -> 0..(r.FillRQ - 1) ]
  /\ \A i, j \in 1..Len(h) : i < j => B[i] < B[j]
  /\ \A p \in 0..(r.FillRQ - 1) : r.RQ[p].kind = "boundary" <=> \E j \in 1..Len(h) : B[j] = p
  /\ \A j \in 1..Len(h) : T[B[j]] = h[j]

(* The tale goes on: what is told before record k stays. *)
Keeps(k, T, C, T2, C2) == \A i \in 0..k : T2[i] = T[i] /\ C2[i] = C[i]

(***************************************************************************)
(* The rings when something is recorded and no queue goes round.           *)
(***************************************************************************)
LEMMA ModSmall ==
  ASSUME NEW m \in Nat \ {0}, NEW x \in 0..(m - 1)
  PROVE  x % m = x
OBVIOUS

LEMMA ModBelow ==
  ASSUME NEW m \in Nat \ {0}, NEW x \in (- m)..(-1)
  PROVE  x % m = x + m
OBVIOUS

LEMMA NewUndoFacts ==
  ASSUME NEW r \in Rings, r.FillRQ < NUndoR,
         NEW kind \in Kinds, NEW b \in Buffer, NEW d \in Nat, NEW len \in Nat
  PROVE  LET q == NewUndo(r, kind, b, d, len)
         IN  /\ q \in Rings /\ q.FillRQ = r.FillRQ + 1 /\ q.LastUndoRec = r.FillRQ
             /\ q.RQ[r.FillRQ] = [ kind |-> kind, buffer |-> b, dot |-> d, len |-> len ]
             /\ \A i \in 0..(r.FillRQ - 1) : q.RQ[i] = r.RQ[i]
             /\ q.CQ = r.CQ /\ q.FillCQ = r.FillCQ
             /\ q.LastUndone = IF kind = "boundary" THEN r.LastUndone ELSE NoRec
             /\ q.LastUndoneC = r.LastUndoneC
<1> DEFINE p == r.FillRQ
           rec == [ kind |-> kind, buffer |-> b, dot |-> d, len |-> len ]
           R2 == [ r.RQ EXCEPT ![p + 1].kind = "unundoable", ![p] = rec ]
           last == IF kind = "boundary" THEN r.LastUndone ELSE NoRec
           q == [ r EXCEPT !.RQ = R2, !.FillRQ = p + 1, !.LastUndoRec = p, !.LastUndone = last ]
<1>1. NUndoR \in Nat \ {0} /\ p \in 0..NUndoR /\ p + 1 \in 0..NUndoR /\ ~(p >= NUndoR)
  BY QueueAssumption DEF Rings, Slots
<1>2. NewUndo(r, kind, b, d, len) = q
  BY <1>1 DEF NewUndo
<1>3. r.RQ \in [ Slots -> Rec ] /\ rec \in Rec /\ last \in Int
  BY DEF Rings, Rec, NoRec
<1> HIDE DEF rec, last
<1>4. [ r.RQ[p + 1] EXCEPT !.kind = "unundoable" ] \in Rec
  BY <1>1, <1>3 DEF Rec, Kinds, Slots
<1>5. R2 \in [ Slots -> Rec ] /\ R2[p] = rec /\ \A i \in 0..(p - 1) : R2[i] = r.RQ[i]
  <2> DEFINE x  == [ r.RQ[p + 1] EXCEPT !.kind = "unundoable" ]
             R1 == [ r.RQ EXCEPT ![p + 1] = x ]
  <2>1. R2 = [ R1 EXCEPT ![p] = rec ]
    OBVIOUS
  <2>2. x \in Rec
    BY <1>4
  <2> HIDE DEF x, R2
  <2>3. p \in Slots /\ p + 1 \in Slots /\ \A i \in 0..(p - 1) : i \in Slots /\ i # p /\ i # p + 1
    BY <1>1 DEF Slots
  <2>4. R1 \in [ Slots -> Rec ] /\ \A i \in Slots : i # p + 1 => R1[i] = r.RQ[i]
    BY <1>3, <2>2, <2>3
  <2> HIDE DEF R1
  <2>5. R2 \in [ Slots -> Rec ] /\ R2[p] = rec /\ \A i \in Slots : i # p => R2[i] = R1[i]
    BY <1>3, <2>1, <2>3, <2>4
  <2> QED
    BY <2>3, <2>4, <2>5
<1> HIDE DEF R2
<1>6. q \in Rings /\ q.FillRQ = p + 1 /\ q.LastUndoRec = p /\ q.RQ = R2
      /\ q.CQ = r.CQ /\ q.FillCQ = r.FillCQ /\ q.LastUndone = last
      /\ q.LastUndoneC = r.LastUndoneC
  <2>1. p + 1 \in Slots /\ p \in Int
    BY <1>1 DEF Slots
  <2> HIDE DEF p
  <2> QED
    BY <1>3, <1>5, <2>1 DEF Rings
<1> QED
  BY <1>2, <1>5, <1>6 DEF rec, last

LEMMA GrownFacts ==
  ASSUME NEW r \in Rings, r.LastUndoRec \in Slots, NEW n \in Nat
  PROVE  LET q == Grown(r, n)
             l == r.LastUndoRec
         IN  /\ q \in Rings /\ q.FillRQ = r.FillRQ /\ q.LastUndoRec = l
             /\ q.RQ[l] = [ r.RQ[l] EXCEPT !.len = r.RQ[l].len + n ]
             /\ \A i \in Slots \ {l} : q.RQ[i] = r.RQ[i]
             /\ q.CQ = r.CQ /\ q.FillCQ = r.FillCQ
             /\ q.LastUndone = r.LastUndone /\ q.LastUndoneC = r.LastUndoneC
<1> DEFINE l == r.LastUndoRec
           rec == [ r.RQ[l] EXCEPT !.len = r.RQ[l].len + n ]
           R2 == [ r.RQ EXCEPT ![l] = rec ]
           q == [ r EXCEPT !.RQ = R2 ]
<1>1. r.RQ \in [ Slots -> Rec ] /\ r.RQ[l] \in Rec
  BY DEF Rings
<1>2. Grown(r, n) = q
  BY DEF Grown
<1>3. rec \in Rec
  BY <1>1 DEF Rec
<1> HIDE DEF rec
<1>4. R2 \in [ Slots -> Rec ] /\ R2[l] = rec /\ \A i \in Slots \ {l} : R2[i] = r.RQ[i]
  BY <1>1, <1>3
<1> HIDE DEF R2
<1>5. q \in Rings /\ q.FillRQ = r.FillRQ /\ q.LastUndoRec = l /\ q.RQ = R2
      /\ q.CQ = r.CQ /\ q.FillCQ = r.FillCQ /\ q.LastUndone = r.LastUndone
      /\ q.LastUndoneC = r.LastUndoneC
  BY <1>4 DEF Rings
<1> QED
  BY <1>2, <1>4, <1>5 DEF rec

LEMMA RecordDeleteFacts ==
  ASSUME NEW r \in Rings, r.FillRQ < NUndoR, NEW b \in Buffer, NEW d \in Nat,
         NEW s \in Seq(Char), r.FillCQ + Len(s) <= NUndoC, ~Merges(r, "insert", d)
  PROVE  LET q == RecordDelete(r, b, d, s)
         IN  /\ q \in Rings /\ q.FillRQ = r.FillRQ + 1 /\ q.LastUndoRec = r.FillRQ
             /\ q.RQ[r.FillRQ] = [ kind |-> "insert", buffer |-> b, dot |-> d, len |-> Len(s) ]
             /\ \A i \in 0..(r.FillRQ - 1) : q.RQ[i] = r.RQ[i]
             /\ \A i \in 0..(r.FillCQ - 1) : q.CQ[i] = r.CQ[i]
             /\ Piece(q.CQ, r.FillCQ, Len(s)) = s
             /\ q.FillCQ = r.FillCQ + Len(s)
             /\ q.LastUndone = NoRec
<1> DEFINE n   == Len(s)
           cyc == NUndoC + 1
           f   == r.FillCQ
           m   == NewUndo(r, "insert", b, d, n)
           cq  == [ i \in 0..NUndoC |-> LET k == (i - f) % cyc
                                        IN  IF k < n THEN s[k + 1] ELSE m.CQ[i] ]
           q   == [ m EXCEPT !.NCharsLeft = @ - n, !.CQ = cq, !.FillCQ = (@ + n) % cyc ]
<1>1. n \in Nat /\ NUndoC \in Nat /\ f \in 0..NUndoC /\ f + n <= NUndoC /\ cyc \in Nat \ {0}
      /\ cyc = NUndoC + 1
  BY QueueAssumption DEF Rings
<1>2. /\ m \in Rings /\ m.FillRQ = r.FillRQ + 1 /\ m.LastUndoRec = r.FillRQ
      /\ m.RQ[r.FillRQ] = [ kind |-> "insert", buffer |-> b, dot |-> d, len |-> n ]
      /\ \A i \in 0..(r.FillRQ - 1) : m.RQ[i] = r.RQ[i]
      /\ m.CQ = r.CQ /\ m.FillCQ = f /\ m.LastUndone = NoRec
  <2>1. "insert" \in Kinds /\ "insert" # "boundary"
    BY DEF Kinds
  <2> HIDE DEF n
  <2>2. LET z == NewUndo(r, "insert", b, d, n)
        IN  /\ z \in Rings /\ z.FillRQ = r.FillRQ + 1 /\ z.LastUndoRec = r.FillRQ
            /\ z.RQ[r.FillRQ] = [ kind |-> "insert", buffer |-> b, dot |-> d, len |-> n ]
            /\ \A i \in 0..(r.FillRQ - 1) : z.RQ[i] = r.RQ[i]
            /\ z.CQ = r.CQ /\ z.FillCQ = r.FillCQ
            /\ z.LastUndone = IF "insert" = "boundary" THEN r.LastUndone ELSE NoRec
    BY <1>1, <2>1, NewUndoFacts
  <2> QED
    BY <2>1, <2>2
<1>3. RecordDelete(r, b, d, s) = q
  BY DEF RecordDelete
<1> HIDE DEF m, n, f, cyc
<1>4. ASSUME NEW i \in 0..NUndoC PROVE (i - f) % cyc = IF i >= f THEN i - f ELSE i - f + cyc
  <2>1. CASE i >= f
    <3>1. i - f \in 0..(cyc - 1)
      BY <1>1, <2>1
    <3> QED
      BY <1>1, <2>1, <3>1, ModSmall
  <2>2. CASE ~(i >= f)
    <3>1. i - f \in (- cyc)..(-1)
      BY <1>1, <2>2
    <3> QED
      BY <1>1, <2>2, <3>1, ModBelow
  <2> QED
    BY <2>1, <2>2
<1>5. /\ \A i \in 0..NUndoC : i < f \/ i >= f + n => cq[i] = r.CQ[i]
      /\ \A i \in f..(f + n - 1) : cq[i] = s[i - f + 1]
  <2>1. ASSUME NEW i \in 0..NUndoC
        PROVE  cq[i] = IF (i - f) % cyc < n THEN s[((i - f) % cyc) + 1] ELSE r.CQ[i]
    BY <1>2
  <2> HIDE DEF cq
  <2>2. ASSUME NEW i \in 0..NUndoC, i < f PROVE cq[i] = r.CQ[i]
    <3>1. (i - f) % cyc = i - f + cyc
      BY <1>1, <1>4, <2>2
    <3>2. ~(i - f + cyc < n)
      BY <1>1, <2>2
    <3> QED
      BY <2>1, <3>1, <3>2
  <2>3. ASSUME NEW i \in 0..NUndoC, i >= f + n PROVE cq[i] = r.CQ[i]
    <3>1. (i - f) % cyc = i - f
      BY <1>1, <1>4, <2>3
    <3>2. ~(i - f < n)
      BY <1>1, <2>3
    <3> QED
      BY <2>1, <3>1, <3>2
  <2>4. ASSUME NEW i \in f..(f + n - 1) PROVE cq[i] = s[i - f + 1]
    <3>1. i \in 0..NUndoC /\ i >= f /\ i - f < n
      BY <1>1
    <3>2. (i - f) % cyc = i - f
      BY <1>4, <3>1
    <3> QED
      BY <2>1, <3>1, <3>2
  <2> QED
    BY <2>2, <2>3, <2>4
<1>6. cq \in [ 0..NUndoC -> Char \cup {Blank} ]
  <2>1. r.CQ \in [ 0..NUndoC -> Char \cup {Blank} ]
    BY DEF Rings
  <2>2. \A i \in 1..n : s[i] \in Char
    BY DEF n
  <2>3. ASSUME NEW i \in 0..NUndoC PROVE cq[i] \in Char \cup {Blank}
    <3>1. CASE i < f \/ i >= f + n
      BY <1>5, <2>1, <3>1
    <3>2. CASE i >= f /\ i < f + n
      <4>1. i \in f..(f + n - 1) /\ i - f + 1 \in 1..n
        BY <1>1, <3>2
      <4> QED
        BY <1>5, <2>2, <4>1
    <3> QED
      BY <1>1, <3>1, <3>2
  <2> QED
    BY <2>3
<1> HIDE DEF cq
<1>7. (f + n) % cyc = f + n
  <2>1. f + n \in 0..(cyc - 1)
    BY <1>1
  <2> QED
    BY <1>1, <2>1, ModSmall
<1>8. /\ q \in Rings /\ q.FillRQ = m.FillRQ /\ q.LastUndoRec = m.LastUndoRec
      /\ q.RQ = m.RQ /\ q.CQ = cq /\ q.FillCQ = f + n /\ q.LastUndone = m.LastUndone
  <2>1. m \in Rings /\ m.NCharsLeft - n \in Int /\ f + n \in 0..NUndoC /\ m.FillCQ = f
    BY <1>1, <1>2 DEF Rings
  <2>2. q = [ m EXCEPT !.NCharsLeft = m.NCharsLeft - n, !.CQ = cq, !.FillCQ = f + n ]
    BY <1>7, <2>1
  <2> HIDE DEF q
  <2> QED
    BY <1>6, <2>1, <2>2 DEF Rings
<1>9. Piece(cq, f, n) = s
  <2>1. \A i \in 1..n : cq[f + i - 1] = s[i]
    BY <1>1, <1>5
  <2>2. Piece(cq, f, n) = [ i \in 1..n |-> s[i] ]
    BY <2>1 DEF Piece
  <2> QED
    BY <2>2 DEF n
<1>10. \A i \in 0..(f - 1) : cq[i] = r.CQ[i]
  BY <1>1, <1>5
<1> HIDE DEF q
<1> QED
  BY <1>2, <1>3, <1>8, <1>9, <1>10 DEF n, f

(***************************************************************************)
(* The tale when something is recorded.                                    *)
(***************************************************************************)
LEMMA ToldKept ==
  ASSUME NEW rec \in Rec, NEW cq, NEW cq2, NEW x, NEW y,
         NEW c \in Nat, NEW d \in Nat, NEW k \in Nat, d <= k,
         \A i \in 0..(k - 1) : cq2[i] = cq[i],
         Told(rec, cq, x, y, c, d)
  PROVE  Told(rec, cq2, x, y, c, d)
<1>1. CASE rec.kind = "insert"
  <2>1. rec.len \in Nat /\ d = c + rec.len
    BY <1>1 DEF Rec, Told
  <2>2. \A i \in 1..rec.len : c + i - 1 \in 0..(k - 1)
    BY <2>1
  <2>3. \A i \in 1..rec.len : cq2[c + i - 1] = cq[c + i - 1]
    BY <2>2
  <2>4. Piece(cq2, c, rec.len) = Piece(cq, c, rec.len)
    BY <2>3 DEF Piece
  <2> QED
    BY <1>1, <2>4 DEF Told
<1>2. CASE rec.kind # "insert"
  BY <1>2 DEF Told
<1> QED
  BY <1>1, <1>2

(* One record more. *)
LEMMA TaleGrows ==
  ASSUME NEW r, Linear(r), NEW x \in Texts, NEW T, NEW C, Tale(x, r, T, C),
         NEW q \in Rings, NEW y \in Texts,
         q.FillRQ = r.FillRQ + 1, q.LastUndoRec = r.FillRQ,
         q.RQ[r.FillRQ].kind # "unundoable",
         \A i \in 0..(r.FillRQ - 1) : q.RQ[i] = r.RQ[i],
         \A i \in 0..(r.FillCQ - 1) : q.CQ[i] = r.CQ[i],
         r.FillCQ <= q.FillCQ,
         Told(q.RQ[r.FillRQ], q.CQ, x, y, r.FillCQ, q.FillCQ)
  PROVE  /\ Linear(q)
         /\ \E T2, C2 : Tale(y, q, T2, C2) /\ Keeps(r.FillRQ, T, C, T2, C2)
<1> DEFINE p == r.FillRQ
           T2 == [ i \in 0..(p + 1) |-> IF i = p + 1 THEN y ELSE T[i] ]
           C2 == [ i \in 0..(p + 1) |-> IF i = p + 1 THEN q.FillCQ ELSE C[i] ]
<1>1. /\ p \in Nat /\ p # 0 /\ r.FillCQ \in Nat /\ q.FillCQ \in Nat /\ q.FillRQ = p + 1
      /\ r.RQ \in [ Slots -> Rec ] /\ \A i \in 0..p : i \in Slots
      /\ \A i \in 0..(p - 1) : r.RQ[i].kind = "unundoable" <=> i = 0
  BY QueueAssumption, SMTT(40) DEF Linear, Rings, Slots
<1>2. Linear(q)
  <2>1. \A i \in 0..p : q.RQ[i].kind = "unundoable" <=> i = 0
    <3> TAKE i \in 0..p
    <3>1. i = p \/ i \in 0..(p - 1)
      BY <1>1
    <3> QED
      BY <1>1, <3>1
  <2>2. q.FillRQ - 1 = p /\ q.FillRQ # 0
    BY <1>1
  <2> QED
    BY <2>1, <2>2 DEF Linear
<1>3. /\ T \in [ 0..p -> Texts ] /\ T[p] = x /\ C \in [ 0..p -> Nat ] /\ C[p] = r.FillCQ
      /\ \A i \in 0..p : C[i] <= r.FillCQ
      /\ \A i \in 0..(p - 1) : Told(r.RQ[i], r.CQ, T[i], T[i + 1], C[i], C[i + 1])
  BY DEF Tale
<1>4. /\ \A i \in 0..p : T2[i] = T[i] /\ C2[i] = C[i]
      /\ T2[p + 1] = y /\ C2[p + 1] = q.FillCQ
  BY <1>1
<1>5. T2 \in [ 0..(p + 1) -> Texts ] /\ C2 \in [ 0..(p + 1) -> Nat ]
  <2>1. \A i \in 0..(p + 1) : i = p + 1 \/ i \in 0..p
    BY <1>1
  <2> QED
    BY <1>1, <1>3, <2>1
<1> HIDE DEF T2, C2
<1>6. ASSUME NEW i \in 0..p PROVE Told(q.RQ[i], q.CQ, T2[i], T2[i + 1], C2[i], C2[i + 1])
  <2>1. CASE i = p
    BY <1>1, <1>3, <1>4, <2>1
  <2>2. CASE i # p
    <3>1. i \in 0..(p - 1) /\ i + 1 \in 0..p /\ i \in 0..p
      BY <1>1, <2>2
    <3>2. /\ T2[i] = T[i] /\ T2[i + 1] = T[i + 1] /\ C2[i] = C[i] /\ C2[i + 1] = C[i + 1]
          /\ q.RQ[i] = r.RQ[i] /\ r.RQ[i] \in Rec /\ C[i] \in Nat /\ C[i + 1] \in Nat
          /\ C[i + 1] <= r.FillCQ
      BY <1>1, <1>3, <1>4, <3>1
    <3>3. Told(r.RQ[i], r.CQ, T[i], T[i + 1], C[i], C[i + 1])
      BY <1>3, <3>1
    <3>4. Told(r.RQ[i], q.CQ, T[i], T[i + 1], C[i], C[i + 1])
      <4> DEFINE rec == r.RQ[i]
                 cq  == r.CQ
                 cq2 == q.CQ
                 a   == T[i]
                 b   == T[i + 1]
                 c   == C[i]
                 d   == C[i + 1]
                 k   == r.FillCQ
      <4>1. /\ rec \in Rec /\ c \in Nat /\ d \in Nat /\ k \in Nat /\ d <= k
            /\ \A j \in 0..(k - 1) : cq2[j] = cq[j]
            /\ Told(rec, cq, a, b, c, d)
        BY <1>1, <3>2, <3>3
      <4> HIDE DEF rec, cq, cq2, a, b, c, d, k
      <4>2. Told(rec, cq2, a, b, c, d)
        BY <4>1, ToldKept
      <4> QED
        BY <4>2 DEF rec, cq2, a, b, c, d
    <3> QED
      BY <3>2, <3>4
  <2> QED
    BY <2>1, <2>2
<1>7. \A i \in 0..(p + 1) : C2[i] <= q.FillCQ
  <2> TAKE i \in 0..(p + 1)
  <2>1. i = p + 1 \/ i \in 0..p
    BY <1>1
  <2> QED
    <3>1. CASE i = p + 1
      BY <1>1, <1>4, <3>1
    <3>2. CASE i \in 0..p
      <4>1. C2[i] = C[i] /\ C[i] \in Nat /\ C[i] <= r.FillCQ
        BY <1>3, <1>4, <3>2
      <4> QED
        BY <1>1, <4>1
    <3> QED
      BY <2>1, <3>1, <3>2
<1>8. Tale(y, q, T2, C2)
  <2>1. q.FillRQ - 1 = p
    BY <1>1
  <2> QED
    BY <1>1, <1>4, <1>5, <1>6, <1>7, <2>1 DEF Tale
<1> QED
  BY <1>2, <1>4, <1>8 DEF Keeps

(* The last record told otherwise, the texts before it being what they were.*)
LEMMA TaleChanges ==
  ASSUME NEW r, Linear(r), NEW x \in Texts, NEW T, NEW C, Tale(x, r, T, C),
         NEW q \in Rings, NEW y \in Texts,
         q.FillRQ = r.FillRQ, q.LastUndoRec = r.LastUndoRec,
         q.RQ[r.LastUndoRec].kind = r.RQ[r.LastUndoRec].kind,
         \A i \in Slots \ {r.LastUndoRec} : q.RQ[i] = r.RQ[i],
         q.CQ = r.CQ, q.FillCQ = r.FillCQ,
         Told(q.RQ[r.LastUndoRec], r.CQ, T[r.LastUndoRec], y, C[r.LastUndoRec], r.FillCQ)
  PROVE  /\ Linear(q)
         /\ \E T2, C2 : Tale(y, q, T2, C2) /\ Keeps(r.FillRQ - 1, T, C, T2, C2)
<1> DEFINE p == r.FillRQ
           l == p - 1
           T2 == [ i \in 0..p |-> IF i = p THEN y ELSE T[i] ]
<1>1. /\ p \in Nat /\ p # 0 /\ l = p - 1 /\ l \in Nat /\ l + 1 = p /\ r.FillCQ \in Nat
      /\ r.LastUndoRec = l /\ \A i \in 0..p : i \in Slots
      /\ \A i \in 0..l : r.RQ[i].kind = "unundoable" <=> i = 0
  BY QueueAssumption DEF Linear, Rings, Slots
<1> HIDE DEF l
<1>2. \A i \in 0..l : q.RQ[i].kind = r.RQ[i].kind
  <2> TAKE i \in 0..l
  <2>1. i \in Slots /\ (i = l \/ i \in Slots \ {l})
    BY <1>1
  <2> QED
    BY <1>1, <2>1
<1>3. Linear(q)
  BY <1>1, <1>2 DEF Linear
<1>4. /\ T \in [ 0..p -> Texts ] /\ C \in [ 0..p -> Nat ] /\ C[p] = r.FillCQ
      /\ \A i \in 0..p : C[i] <= r.FillCQ
      /\ \A i \in 0..l : Told(r.RQ[i], r.CQ, T[i], T[i + 1], C[i], C[i + 1])
  BY <1>1 DEF Tale
<1>5. /\ \A i \in 0..l : T2[i] = T[i]
      /\ T2[p] = y /\ T2 \in [ 0..p -> Texts ]
  BY <1>1, <1>4
<1> HIDE DEF T2
<1>6. ASSUME NEW i \in 0..l PROVE Told(q.RQ[i], q.CQ, T2[i], T2[i + 1], C[i], C[i + 1])
  <2>1. CASE i = l
    BY <1>1, <1>4, <1>5, <2>1
  <2>2. CASE i # l
    <3>1. i \in 0..l /\ i + 1 \in 0..l /\ i \in Slots \ {l}
      BY <1>1, <2>2
    <3> QED
      BY <1>1, <1>4, <1>5, <3>1
  <2> QED
    BY <2>1, <2>2
<1>7. Tale(y, q, T2, C)
  BY <1>1, <1>4, <1>5, <1>6 DEF Tale
<1> QED
  BY <1>1, <1>3, <1>5, <1>7 DEF Keeps

(* A boundary already laid stays the boundary it was. *)
LEMMA MarksKept ==
  ASSUME NEW r, Linear(r), NEW h, Len(h) \in Nat, NEW T, NEW B, Marks(r, h, T, B),
         NEW q, Linear(q), NEW T2,
         q.FillRQ = r.FillRQ \/ /\ q.FillRQ = r.FillRQ + 1
                                /\ q.RQ[r.FillRQ].kind # "boundary",
         \A i \in 0..(r.FillRQ - 1) : q.RQ[i].kind = r.RQ[i].kind /\ T2[i] = T[i]
  PROVE  Marks(q, h, T2, B)
<1>1. r.FillRQ \in Nat /\ q.FillRQ \in Nat
  BY QueueAssumption DEF Linear, Rings, Slots
<1>2. \A j \in 1..Len(h) : B[j] \in 0..(r.FillRQ - 1)
  BY DEF Marks
<1>3. 0..(r.FillRQ - 1) \subseteq 0..(q.FillRQ - 1)
  BY <1>1
<1>4. B \in [ 1..Len(h) -> 0..(q.FillRQ - 1) ]
  BY <1>3 DEF Marks
<1>5. \A p \in 0..(q.FillRQ - 1) :
        q.RQ[p].kind = "boundary" <=> \E j \in 1..Len(h) : B[j] = p
  <2> TAKE p \in 0..(q.FillRQ - 1)
  <2>1. CASE p \in 0..(r.FillRQ - 1)
    BY <2>1 DEF Marks
  <2>2. CASE p \notin 0..(r.FillRQ - 1)
    <3>1. p = r.FillRQ /\ q.RQ[p].kind # "boundary"
      BY <1>1, <2>2
    <3> QED
      BY <1>2, <2>2, <3>1
  <2> QED
    BY <2>1, <2>2
<1> QED
  BY <1>2, <1>4, <1>5 DEF Marks

(* What a change to the texts leaves of tale and marks. *)
Recorded(x, r, h, T, C, B, y, q) ==
  /\ y \in Texts /\ Linear(q) /\ q.LastUndone = NoRec /\ r.FillRQ <= q.FillRQ
  /\ \E T2, C2 : /\ Tale(y, q, T2, C2) /\ Marks(q, h, T2, B)
                 /\ Keeps(r.FillRQ - 1, T, C, T2, C2)

LEMMA GrowsRecorded ==
  ASSUME NEW r, Linear(r), NEW x \in Texts, NEW T, NEW C, Tale(x, r, T, C),
         NEW h, Len(h) \in Nat, NEW B, Marks(r, h, T, B),
         NEW q \in Rings, NEW y \in Texts,
         q.FillRQ = r.FillRQ + 1, q.LastUndoRec = r.FillRQ, q.LastUndone = NoRec,
         q.RQ[r.FillRQ].kind \in {"insert", "delete"},
         \A i \in 0..(r.FillRQ - 1) : q.RQ[i] = r.RQ[i],
         \A i \in 0..(r.FillCQ - 1) : q.CQ[i] = r.CQ[i],
         r.FillCQ <= q.FillCQ,
         Told(q.RQ[r.FillRQ], q.CQ, x, y, r.FillCQ, q.FillCQ)
  PROVE  Recorded(x, r, h, T, C, B, y, q)
<1>1. q.RQ[r.FillRQ].kind # "unundoable" /\ q.RQ[r.FillRQ].kind # "boundary"
  OBVIOUS
<1>2. PICK T2, C2 : Linear(q) /\ Tale(y, q, T2, C2) /\ Keeps(r.FillRQ, T, C, T2, C2)
  BY <1>1, TaleGrows
<1>3. r.FillRQ \in Nat
  BY QueueAssumption DEF Linear, Rings, Slots
<1>4. Keeps(r.FillRQ - 1, T, C, T2, C2)
  BY <1>2, <1>3 DEF Keeps
<1>5. Marks(q, h, T2, B)
  BY <1>1, <1>2, <1>4, MarksKept DEF Keeps
<1> QED
  BY <1>2, <1>3, <1>4, <1>5 DEF Recorded

LEMMA ChangesRecorded ==
  ASSUME NEW r, Linear(r), NEW x \in Texts, NEW T, NEW C, Tale(x, r, T, C),
         NEW h, Len(h) \in Nat, NEW B, Marks(r, h, T, B),
         NEW q \in Rings, NEW y \in Texts, q.LastUndone = NoRec,
         q.FillRQ = r.FillRQ, q.LastUndoRec = r.LastUndoRec,
         q.RQ[r.LastUndoRec].kind = r.RQ[r.LastUndoRec].kind,
         \A i \in Slots \ {r.LastUndoRec} : q.RQ[i] = r.RQ[i],
         q.CQ = r.CQ, q.FillCQ = r.FillCQ,
         Told(q.RQ[r.LastUndoRec], r.CQ, T[r.LastUndoRec], y, C[r.LastUndoRec], r.FillCQ)
  PROVE  Recorded(x, r, h, T, C, B, y, q)
<1>1. PICK T2, C2 : Linear(q) /\ Tale(y, q, T2, C2) /\ Keeps(r.FillRQ - 1, T, C, T2, C2)
  BY TaleChanges
<1>2. r.FillRQ \in Nat /\ r.LastUndoRec = r.FillRQ - 1 /\ \A i \in 0..(r.FillRQ - 1) : i \in Slots
  BY QueueAssumption DEF Linear, Rings, Slots
<1>3. \A i \in 0..(r.FillRQ - 1) : q.RQ[i].kind = r.RQ[i].kind
  BY <1>2
<1>4. Marks(q, h, T2, B)
  BY <1>1, <1>3, MarksKept DEF Keeps
<1> QED
  BY <1>1, <1>2, <1>4 DEF Recorded

LEMMA OneText ==
  ASSUME NEW x \in Texts, NEW b \in Buffer, NEW v \in Seq(Char), NEW w
  PROVE  LET y == [ x EXCEPT ![b] = v ]
         IN  /\ y \in Texts /\ y[b] = v
             /\ [ y EXCEPT ![b] = w ] = [ x EXCEPT ![b] = w ]
             /\ [ y EXCEPT ![b] = x[b] ] = x
BY DEF Texts

(* An insertion recorded, in a record of its own or at the end of the last. *)
LEMMA InsertedRecorded ==
  ASSUME NEW r, Linear(r), NEW x \in Texts, NEW T, NEW C, Tale(x, r, T, C),
         NEW h, Len(h) \in Nat, NEW B, Marks(r, h, T, B),
         NEW b \in Buffer, NEW s \in Seq(Char), Len(s) # 0,
         NEW d \in 1..(Len(x[b]) + 1), NEW f,
         Inserted([ t |-> x[b], r |-> r, f |-> f ], b, d, s).f = {}
  PROVE  LET z == Inserted([ t |-> x[b], r |-> r, f |-> f ], b, d, s)
         IN  /\ z.t = Put(x[b], d, s)
             /\ Recorded(x, r, h, T, C, B, [ x EXCEPT ![b] = Put(x[b], d, s) ], z.r)
<1> DEFINE n == Len(s)
           v == Put(x[b], d, s)
           y == [ x EXCEPT ![b] = v ]
           z == Inserted([ t |-> x[b], r |-> r, f |-> f ], b, d, s)
           q == RecordInsert(r, b, d, n)
           l == r.LastUndoRec
<1>1. x[b] \in Seq(Char) /\ Len(x[b]) \in Nat /\ n \in Nat /\ n # 0 /\ d \in Nat \ {0}
  BY DEF Texts
<1>2. Lesser(d, Len(x[b]) + 1) = d
  BY <1>1 DEF Lesser
<1>3. z.t = v /\ z.r = q
  BY <1>2 DEF Inserted, Put
<1>4. Round(r, 0) = {} /\ Joined(r, "delete", b, d) = {}
  BY DEF Inserted
<1>5. r.FillRQ # NUndoR
  BY <1>4 DEF Round
<1>6. v \in Seq(Char) /\ Len(v) = Len(x[b]) + n
  BY <1>1, PutFacts
<1>7. Cut(v, d, n) = x[b]
  BY <1>1, PutThenCut
<1> HIDE DEF v, z
<1>8. y \in Texts /\ y[b] = v /\ [ y EXCEPT ![b] = x[b] ] = x
  BY <1>6, OneText
<1>9. r \in Rings /\ l = r.FillRQ - 1 /\ l \in Slots /\ r.FillRQ \in Slots /\ l \in Nat
      /\ r.FillRQ \in Nat /\ r.FillRQ < NUndoR /\ r.FillCQ \in Nat
  BY <1>5, QueueAssumption DEF Linear, Rings, Slots
<1>10. CASE ~Merges(r, "delete", d)
  <2> DEFINE rec == [ kind |-> "delete", buffer |-> b, dot |-> d, len |-> n ]
             g   == NewUndo(r, "delete", b, d, n)
  <2>1. q = g
    BY <1>10 DEF RecordInsert
  <2> HIDE DEF n, q
  <2>2. "delete" \in Kinds /\ "delete" # "boundary" /\ d \in Nat
    BY <1>1 DEF Kinds
  <2>3. /\ g \in Rings /\ g.FillRQ = r.FillRQ + 1 /\ g.LastUndoRec = r.FillRQ
        /\ g.RQ[r.FillRQ] = rec
        /\ \A i \in 0..(r.FillRQ - 1) : g.RQ[i] = r.RQ[i]
        /\ g.CQ = r.CQ /\ g.FillCQ = r.FillCQ /\ g.LastUndone = NoRec
    BY <1>1, <1>9, <2>2, NewUndoFacts
  <2> HIDE DEF g
  <2>4. Told(rec, g.CQ, x, y, r.FillCQ, g.FillCQ)
    <3>1. x = [ y EXCEPT ![b] = Cut(y[b], d, n) ]
      BY <1>7, <1>8
    <3>2. d + n <= Len(y[b]) + 1
      BY <1>1, <1>6, <1>8
    <3> HIDE DEF y
    <3> QED
      BY <1>1, <2>3, <3>1, <3>2 DEF Told
  <2>5. rec.kind \in {"insert", "delete"}
    OBVIOUS
  <2> HIDE DEF rec, y
  <2>6. Recorded(x, r, h, T, C, B, y, g)
    BY <1>8, <1>9, <2>3, <2>4, <2>5, GrowsRecorded
  <2> QED
    BY <1>3, <2>1, <2>6 DEF y, v, z
<1>11. CASE Merges(r, "delete", d)
  <2> DEFINE last == r.RQ[l]
             g    == Grown(r, n)
  <2>1. q = g
    BY <1>11 DEF RecordInsert
  <2>2. last.kind = "delete" /\ last.dot + last.len = d
    BY <1>11 DEF Merges
  <2>3. last.buffer = b /\ r.LastUndone = NoRec
    BY <1>4, <1>11 DEF Joined
  <2>4. /\ g \in Rings /\ g.FillRQ = r.FillRQ /\ g.LastUndoRec = l
        /\ g.RQ[l] = [ last EXCEPT !.len = last.len + n ]
        /\ \A i \in Slots \ {l} : g.RQ[i] = r.RQ[i]
        /\ g.CQ = r.CQ /\ g.FillCQ = r.FillCQ /\ g.LastUndone = r.LastUndone
    BY <1>1, <1>9, GrownFacts
  <2> HIDE DEF g, n, q
  <2>5. Told(last, r.CQ, T[l], x, C[l], r.FillCQ)
    <3>1. l \in 0..(r.FillRQ - 1) /\ l + 1 = r.FillRQ
      BY <1>9
    <3> QED
      BY <3>1 DEF Tale
  <2>6. last \in Rec
    BY <1>9 DEF Rings
  <2>7. /\ last.dot \in Nat \ {0} /\ last.len \in Nat \ {0}
        /\ last.dot + last.len <= Len(x[b]) + 1
        /\ T[l] = [ x EXCEPT ![b] = Cut(x[b], last.dot, last.len) ]
        /\ C[l] = r.FillCQ
    BY <2>2, <2>3, <2>5, <2>6 DEF Told, Rec
  <2>8. Cut(v, last.dot, last.len + n) = Cut(x[b], last.dot, last.len)
    <3> DEFINE e == last.dot
               k == last.len
               w == x[b]
    <3>1. e \in Nat \ {0} /\ k \in Nat /\ e + k <= Len(w) + 1 /\ w \in Seq(Char) /\ d = e + k
      BY <1>1, <2>2, <2>7
    <3> HIDE DEF e, k, w
    <3>2. Cut(Put(w, e + k, s), e, k + Len(s)) = Cut(w, e, k)
      BY <3>1, PutAtEnd
    <3> QED
      BY <3>1, <3>2 DEF v, n, e, k, w
  <2>9. T[l] = [ y EXCEPT ![b] = Cut(y[b], last.dot, last.len + n) ]
    <3>1. [ y EXCEPT ![b] = Cut(x[b], last.dot, last.len) ]
            = [ x EXCEPT ![b] = Cut(x[b], last.dot, last.len) ]
      <4> DEFINE w == Cut(x[b], last.dot, last.len)
      <4> HIDE DEF w
      <4>1. [ y EXCEPT ![b] = w ] = [ x EXCEPT ![b] = w ]
        BY DEF Texts
      <4> QED
        BY <4>1 DEF w
    <3>2. y[b] = v
      BY <1>8
    <3> HIDE DEF y
    <3> QED
      BY <2>7, <2>8, <3>1, <3>2
  <2> DEFINE rec == g.RQ[l]
  <2>10. /\ rec.kind = "delete" /\ rec.buffer = b /\ rec.dot = last.dot
         /\ rec.len = last.len + n
    BY <2>2, <2>3, <2>4, <2>6 DEF Rec
  <2>11. last.dot + (last.len + n) <= Len(y[b]) + 1 /\ last.len + n # 0
    BY <1>1, <1>6, <1>8, <2>2, <2>7
  <2> HIDE DEF y, rec
  <2>12. Told(rec, r.CQ, T[l], y, C[l], r.FillCQ)
    BY <2>7, <2>9, <2>10, <2>11 DEF Told
  <2>13. Recorded(x, r, h, T, C, B, y, g)
    BY <1>8, <1>9, <2>2, <2>3, <2>4, <2>10, <2>12, ChangesRecorded DEF rec
  <2> QED
    BY <1>3, <2>1, <2>13 DEF y, v, z
<1> QED
  BY <1>10, <1>11

(* A deletion recorded: what was deleted is in the queue of characters.     *)
LEMMA DeletedRecorded ==
  ASSUME NEW r, Linear(r), NEW x \in Texts, NEW T, NEW C, Tale(x, r, T, C),
         NEW h, Len(h) \in Nat, NEW B, Marks(r, h, T, B),
         NEW b \in Buffer, NEW d \in 1..Len(x[b]), NEW k \in Nat \ {0}, NEW f,
         Deleted([ t |-> x[b], r |-> r, f |-> f ], b, d, k).f = {}
  PROVE  LET z == Deleted([ t |-> x[b], r |-> r, f |-> f ], b, d, k)
             n == Lesser(k, Len(x[b]) + 1 - d)
         IN  /\ z.t = Cut(x[b], d, n)
             /\ Recorded(x, r, h, T, C, B, [ x EXCEPT ![b] = Cut(x[b], d, n) ], z.r)
<1> DEFINE n == Lesser(k, Len(x[b]) + 1 - d)
           v == Cut(x[b], d, n)
           s == SubSeq(x[b], d, d + n - 1)
           y == [ x EXCEPT ![b] = v ]
           z == Deleted([ t |-> x[b], r |-> r, f |-> f ], b, d, k)
           q == RecordDelete(r, b, d, s)
<1>1. /\ x[b] \in Seq(Char) /\ Len(x[b]) \in Nat /\ n \in Nat \ {0} /\ d \in Nat \ {0}
      /\ d + n <= Len(x[b]) + 1 /\ ~(n <= 0)
  BY DEF Texts, Lesser
<1> HIDE DEF n
<1>2. z.t = v /\ z.r = q /\ z.f = f \cup Round(r, n) \cup Joined(r, "insert", b, d)
  BY <1>1 DEF Deleted, Cut, n
<1>3. Round(r, n) = {} /\ Joined(r, "insert", b, d) = {}
  BY <1>2
<1>4. ~Merges(r, "insert", d)
  BY <1>3 DEF Joined
<1>5. s \in Seq(Char) /\ Len(s) = n
  BY <1>1, SubSeqFacts
<1>6. v \in Seq(Char) /\ Len(v) = Len(x[b]) - n
  <2> DEFINE w == x[b]
  <2>1. w \in Seq(Char) /\ d \in Nat \ {0} /\ n \in Nat /\ d + n <= Len(w) + 1
    BY <1>1
  <2> HIDE DEF w
  <2>2. Cut(w, d, n) \in Seq(Char) /\ Len(Cut(w, d, n)) = Len(w) - n
    BY <2>1, CutFacts
  <2> QED
    BY <2>2 DEF w
<1>7. Put(v, d, s) = x[b]
  BY <1>1, CutThenPut
<1> HIDE DEF v, z, s
<1>8. y \in Texts /\ y[b] = v /\ [ y EXCEPT ![b] = x[b] ] = x
  BY <1>6, OneText
<1>9. r \in Rings /\ r.FillRQ < NUndoR /\ r.FillCQ \in Nat /\ r.FillCQ + n <= NUndoC
  BY <1>1, <1>3, QueueAssumption DEF Linear, Rings, Slots, Round
<1> DEFINE rec == [ kind |-> "insert", buffer |-> b, dot |-> d, len |-> n ]
<1>10. /\ q \in Rings /\ q.FillRQ = r.FillRQ + 1 /\ q.LastUndoRec = r.FillRQ
       /\ q.RQ[r.FillRQ] = rec
       /\ \A i \in 0..(r.FillRQ - 1) : q.RQ[i] = r.RQ[i]
       /\ \A i \in 0..(r.FillCQ - 1) : q.CQ[i] = r.CQ[i]
       /\ Piece(q.CQ, r.FillCQ, n) = s
       /\ q.FillCQ = r.FillCQ + n /\ q.LastUndone = NoRec
  BY <1>1, <1>4, <1>5, <1>9, RecordDeleteFacts
<1> HIDE DEF q
<1>11. Told(rec, q.CQ, x, y, r.FillCQ, q.FillCQ)
  <2>1. x = [ y EXCEPT ![b] = Put(y[b], d, s) ]
    BY <1>7, <1>8
  <2>2. d <= Len(y[b]) + 1
    BY <1>1, <1>6, <1>8
  <2> HIDE DEF y
  <2> QED
    BY <1>1, <1>5, <1>10, <2>1, <2>2 DEF Told
<1>12. rec.kind \in {"insert", "delete"} /\ r.FillCQ <= q.FillCQ
  BY <1>1, <1>9, <1>10
<1> HIDE DEF rec, y
<1>13. Recorded(x, r, h, T, C, B, y, q)
  BY <1>8, <1>9, <1>10, <1>11, <1>12, GrowsRecorded
<1> QED
  BY <1>2, <1>13 DEF y, v, z, n

(***************************************************************************)
(* The invariant: there is a tale of the queues, and undo is at a place of *)
(* it.  Behind a place p lie the boundaries up to the m-th.                *)
(***************************************************************************)
Places == [ pc : {"idle", "walk", "apply"}, p : Int, n : Int, arg : Int,
            chars : Int, goal : Int ]

Typed == /\ live = Buffer /\ cur \in Buffer /\ text \in Texts
         /\ past \in Seq(Texts) /\ reach \in Int /\ at \in Places
         /\ Linear(u)

Behind(p, m, B) == /\ m \in 0..Len(past)
                   /\ \A j \in 1..Len(past) : B[j] <= p <=> j <= m

Stands(p, c, m, T, C, B) == /\ p \in 0..(u.FillRQ - 1)
                            /\ T[p + 1] = text /\ C[p + 1] = c
                            /\ Behind(p, m, B)

(* After an undo: where undo-more goes on. *)
Undone(T, C, B) ==
  u.LastUndone # NoRec => Stands(u.LastUndone, u.LastUndoneC, reach - 1, T, C, B)

WalksBack(B) == /\ u.LastUndone # NoRec /\ at.p \in 0..(u.FillRQ - 1)
                /\ at.n = u.LastUndone - at.p /\ at.n >= 0 /\ at.arg >= 1
                /\ Behind(at.p, at.goal + at.arg - 1, B)

GoesBack(T, C, B) == /\ at.p \in 0..(u.FillRQ - 1) /\ at.n >= 0
                     /\ T[at.p + 1] = text /\ C[at.p + 1] = at.chars
                     /\ at.goal \in 1..Len(past) /\ at.p - at.n + 1 = B[at.goal]

Place(T, C, B) == /\ at.pc # "apply" => Undone(T, C, B)
                  /\ at.pc = "walk" => WalksBack(B)
                  /\ at.pc = "apply" => GoesBack(T, C, B)

Sound == /\ Typed
         /\ \E T, C, B : /\ Tale(text, u, T, C) /\ Marks(u, past, T, B)
                         /\ Place(T, C, B)

UndoInv == flaws = {} => Sound

LEMMA Bounds ==
  ASSUME Typed
  PROVE  /\ u.FillRQ \in Nat /\ u.FillRQ # 0 /\ u.LastUndoRec = u.FillRQ - 1
         /\ u.FillCQ \in Nat /\ u.LastUndone \in Int /\ u.LastUndoneC \in Int
         /\ u.NCharsLeft \in Int /\ u.NUndone \in Int
         /\ u.RQ \in [ Slots -> Rec ] /\ \A i \in 0..(u.FillRQ - 1) : i \in Slots
         /\ Len(past) \in Nat /\ u.FillRQ \in Slots
BY QueueAssumption DEF Typed, Linear, Rings, Slots

(***************************************************************************)
(* What keeps it.                                                          *)
(***************************************************************************)
LEMMA Edited ==
  ASSUME Typed, NEW T, NEW C, NEW B,
         Recorded(text, u, past, T, C, B, text', u'),
         at.pc = "idle", cur' \in Buffer, UNCHANGED << live, at, past, reach >>
  PROVE  Sound'
<1>1. PICK T2, C2 : Tale(text', u', T2, C2) /\ Marks(u', past, T2, B)
  BY DEF Recorded
<1>2. Typed'
  BY DEF Typed, Recorded
<1>3. Place(T2, C2, B)'
  BY DEF Place, Undone, Recorded
<1> QED
  BY <1>1, <1>2, <1>3 DEF Sound

LEMMA InsertKeeps ==
  ASSUME Sound, flaws' = {}, NEW d \in 1..(Len(text[cur]) + 1), NEW c \in Char, Insert(d, c)
  PROVE  Sound'
<1>1. PICK T, C, B : Tale(text, u, T, C) /\ Marks(u, past, T, B)
  BY DEF Sound
<1> DEFINE s == << c >>
           z == Inserted([ t |-> text[cur], r |-> u, f |-> flaws ], cur, d, s)
<1>2. Typed /\ Linear(u) /\ text \in Texts /\ cur \in Buffer /\ Len(past) \in Nat
  BY DEF Sound, Typed
<1>3. s \in Seq(Char) /\ Len(s) # 0
  OBVIOUS
<1>4. /\ at.pc = "idle" /\ UNCHANGED << live, cur, at, past, reach >>
      /\ text' = [ text EXCEPT ![cur] = z.t ] /\ u' = z.r /\ z.f = {}
  BY DEF Insert, Editing, Idle, Becomes, Now
<1> HIDE DEF s
<1>5. /\ z.t = Put(text[cur], d, s)
      /\ Recorded(text, u, past, T, C, B, [ text EXCEPT ![cur] = Put(text[cur], d, s) ], z.r)
  BY <1>1, <1>2, <1>3, <1>4, InsertedRecorded
<1> HIDE DEF z
<1> QED
  BY <1>2, <1>4, <1>5, Edited

LEMMA DeleteKeeps ==
  ASSUME Sound, flaws' = {}, NEW d \in 1..Len(text[cur]), NEW k \in 1..2, Delete(d, k)
  PROVE  Sound'
<1>1. PICK T, C, B : Tale(text, u, T, C) /\ Marks(u, past, T, B)
  BY DEF Sound
<1> DEFINE n == Lesser(k, Len(text[cur]) + 1 - d)
           z == Deleted([ t |-> text[cur], r |-> u, f |-> flaws ], cur, d, k)
<1>2. Typed /\ Linear(u) /\ text \in Texts /\ cur \in Buffer /\ Len(past) \in Nat
  BY DEF Sound, Typed
<1>3. /\ at.pc = "idle" /\ UNCHANGED << live, cur, at, past, reach >>
      /\ text' = [ text EXCEPT ![cur] = z.t ] /\ u' = z.r /\ z.f = {}
  BY DEF Delete, Editing, Idle, Becomes, Now
<1>4. k \in Nat \ {0}
  OBVIOUS
<1>5. /\ z.t = Cut(text[cur], d, n)
      /\ Recorded(text, u, past, T, C, B, [ text EXCEPT ![cur] = Cut(text[cur], d, n) ], z.r)
  BY <1>1, <1>2, <1>3, <1>4, DeletedRecorded
<1> HIDE DEF z, n
<1> QED
  BY <1>2, <1>3, <1>5, Edited

LEMMA SetBfpKeeps ==
  ASSUME Sound, NEW b, SetBfp(b) \/ UNCHANGED vars
  PROVE  Sound'
<1>1. UNCHANGED << text, live, u, at, past, reach >> /\ cur' \in Buffer
  BY DEF SetBfp, vars, Sound, Typed
<1> QED
  BY <1>1 DEF Sound, Typed, Place, Undone, WalksBack, GoesBack, Stands, Behind

LEMMA BoundaryKeeps ==
  ASSUME Sound, flaws' = {}, UndoBoundary
  PROVE  Sound'
<1> DEFINE F  == u.FillRQ
           m  == Len(past)
<1>1. PICK T, C, B : Tale(text, u, T, C) /\ Marks(u, past, T, B) /\ Place(T, C, B)
  BY DEF Sound
<1>2. Typed /\ Linear(u) /\ text \in Texts /\ cur \in Buffer /\ past \in Seq(Texts) /\ u \in Rings
  BY DEF Sound, Typed, Linear
<1>3. /\ at.pc = "idle" /\ u' = NewUndo(u, "boundary", cur, 1, 0)
      /\ past' = Append(past, text) /\ flaws' = flaws \cup Round(u, 0)
      /\ UNCHANGED << text, live, cur, at, reach >>
  BY DEF UndoBoundary, Idle
<1>4. F < NUndoR
  <2>1. F # NUndoR
    BY <1>3 DEF Round
  <2> QED
    BY <1>2, <2>1, QueueAssumption DEF Rings, Slots
<1>5. /\ u' \in Rings /\ u'.FillRQ = F + 1 /\ u'.LastUndoRec = F
      /\ u'.RQ[F] = [ kind |-> "boundary", buffer |-> cur, dot |-> 1, len |-> 0 ]
      /\ \A i \in 0..(F - 1) : u'.RQ[i] = u.RQ[i]
      /\ u'.CQ = u.CQ /\ u'.FillCQ = u.FillCQ
      /\ u'.LastUndone = u.LastUndone /\ u'.LastUndoneC = u.LastUndoneC
  <2> DEFINE w == "boundary"
             g == NewUndo(u, w, cur, 1, 0)
  <2>1. w \in Kinds /\ w = "boundary"
    BY DEF Kinds
  <2> HIDE DEF w
  <2>2. /\ g \in Rings /\ g.FillRQ = u.FillRQ + 1 /\ g.LastUndoRec = u.FillRQ
        /\ g.RQ[u.FillRQ] = [ kind |-> w, buffer |-> cur, dot |-> 1, len |-> 0 ]
        /\ \A i \in 0..(u.FillRQ - 1) : g.RQ[i] = u.RQ[i]
        /\ g.CQ = u.CQ /\ g.FillCQ = u.FillCQ
        /\ g.LastUndone = (IF w = "boundary" THEN u.LastUndone ELSE NoRec)
        /\ g.LastUndoneC = u.LastUndoneC
    <3>1. u \in Rings /\ u.FillRQ < NUndoR /\ cur \in Buffer
      BY <1>2, <1>4
    <3> QED
      BY <2>1, <3>1, NewUndoFacts
  <2> HIDE DEF g
  <2>3. u' = g
    BY <1>3 DEF g, w
  <2> QED
    BY <2>1, <2>2, <2>3
<1>6. /\ F \in Nat /\ F # 0 /\ u.FillCQ \in Nat /\ m \in Nat /\ u.LastUndone \in Int
  BY <1>2, Bounds
<1> HIDE DEF F, m
<1>7. Told(u'.RQ[F], u'.CQ, text, text, u.FillCQ, u'.FillCQ)
  BY <1>5 DEF Told
<1>8. PICK T2, C2 : Linear(u') /\ Tale(text, u', T2, C2) /\ Keeps(F, T, C, T2, C2)
  <2>1. u'.RQ[F].kind # "unundoable" /\ u.FillCQ <= u'.FillCQ
    BY <1>5, <1>6
  <2>2. \A i \in 0..(u.FillCQ - 1) : u'.CQ[i] = u.CQ[i]
    BY <1>5
  <2> QED
    BY <1>1, <1>2, <1>5, <1>7, <2>1, <2>2, TaleGrows DEF F
<1>9. /\ past' \in Seq(Texts) /\ Len(past') = m + 1 /\ past'[m + 1] = text
      /\ \A j \in 1..m : past'[j] = past[j]
  BY <1>2, <1>3 DEF m
<1>10. PICK B2 :
         /\ \A j \in 1..m : B2[j] = B[j] /\ B[j] \in 0..(F - 1)
         /\ B2[m + 1] = F /\ \A j \in 1..(m + 1) : j \in 1..m \/ j = m + 1
         /\ B2 \in [ 1..(m + 1) -> 0..F ]
  <2> DEFINE b2 == [ j \in 1..(m + 1) |-> IF j = m + 1 THEN F ELSE B[j] ]
  <2>1. \A j \in 1..m : B[j] \in 0..(F - 1)
    BY <1>1 DEF Marks, m, F
  <2>2. \A j \in 1..(m + 1) : j \in 1..m \/ j = m + 1
    BY <1>6
  <2>3. \A j \in 1..m : j # m + 1 /\ j \in 1..(m + 1)
    BY <1>6
  <2>4. m + 1 \in 1..(m + 1) /\ F \in 0..F /\ \A i \in 0..(F - 1) : i \in 0..F
    BY <1>6
  <2>5. /\ \A j \in 1..m : b2[j] = B[j]
        /\ b2[m + 1] = F /\ b2 \in [ 1..(m + 1) -> 0..F ]
    BY <2>1, <2>2, <2>3, <2>4
  <2> QED
    BY <2>1, <2>2, <2>5
<1>11. Marks(u', past', T2, B2)
  <2>0. T[F] = text /\ Len(past') = m + 1 /\ u'.FillRQ - 1 = F
    BY <1>1, <1>5, <1>6, <1>9 DEF Tale, F
  <2>1. B2 \in [ 1..Len(past') -> 0..(u'.FillRQ - 1) ]
    BY <1>10, <2>0
  <2>2. \A i, j \in 1..(m + 1) : i < j => B2[i] < B2[j]
    <3> TAKE i, j \in 1..(m + 1)
    <3> HAVE i < j
    <3>1. i \in 1..m /\ B2[i] = B[i] /\ B[i] \in 0..(F - 1)
      BY <1>6, <1>10
    <3>2. CASE j = m + 1
      BY <1>6, <1>10, <3>1, <3>2
    <3>3. CASE j \in 1..m
      BY <1>1, <1>10, <3>1, <3>3 DEF Marks, m
    <3> QED
      BY <1>10, <3>2, <3>3
  <2>3. ASSUME NEW p \in 0..F
        PROVE  u'.RQ[p].kind = "boundary" <=> \E j \in 1..(m + 1) : B2[j] = p
    <3>1. CASE p = F
      <4>1. u'.RQ[p].kind = "boundary" /\ B2[m + 1] = p /\ m + 1 \in 1..(m + 1)
        BY <1>5, <1>6, <1>10, <3>1
      <4> QED
        BY <4>1
    <3>2. CASE p # F
      <4>1. p \in 0..(F - 1)
        BY <1>6, <3>2
      <4>2. u.RQ[p].kind = "boundary" <=> \E j \in 1..m : B[j] = p
        BY <1>1, <4>1 DEF Marks, F, m
      <4>3. u'.RQ[p] = u.RQ[p]
        BY <1>5, <4>1
      <4>4. \A j \in 1..(m + 1) : B2[j] = p => j \in 1..m
        BY <1>10, <3>2
      <4>5. \A j \in 1..m : j \in 1..(m + 1)
        BY <1>6
      <4> QED
        BY <1>10, <4>2, <4>3, <4>4, <4>5
    <3> QED
      BY <3>1, <3>2
  <2>4. ASSUME NEW j \in 1..(m + 1) PROVE T2[B2[j]] = past'[j]
    <3>1. CASE j = m + 1
      BY <1>6, <1>8, <1>9, <1>10, <2>0, <3>1 DEF Keeps
    <3>2. CASE j \in 1..m
      <4>1. B2[j] = B[j] /\ B[j] \in 0..F /\ T[B[j]] = past[j] /\ past'[j] = past[j]
        BY <1>1, <1>6, <1>9, <1>10, <3>2 DEF Marks, m
      <4> QED
        BY <1>8, <4>1 DEF Keeps
    <3> QED
      BY <1>10, <3>1, <3>2
  <2> QED
    BY <2>0, <2>1, <2>2, <2>3, <2>4 DEF Marks
<1>12. Place(T2, C2, B2)'
  <2>1. SUFFICES ASSUME u.LastUndone # NoRec
                 PROVE  Stands(u.LastUndone, u.LastUndoneC, reach - 1, T2, C2, B2)'
    BY <1>3, <1>5 DEF Place, Undone
  <2> DEFINE p == u.LastUndone
             k == reach - 1
  <2>2. /\ p \in 0..(F - 1) /\ T[p + 1] = text /\ C[p + 1] = u.LastUndoneC
        /\ k \in 0..m /\ \A j \in 1..m : B[j] <= p <=> j <= k
    BY <1>1, <1>3, <2>1 DEF Place, Undone, Stands, Behind, F, m
  <2> HIDE DEF p, k
  <2>3. p + 1 \in 0..F /\ p \in 0..(u'.FillRQ - 1) /\ k \in 0..(m + 1)
    BY <1>5, <1>6, <2>2
  <2>4. T2[p + 1] = text /\ C2[p + 1] = u.LastUndoneC
    BY <1>8, <2>2, <2>3 DEF Keeps
  <2>5. ASSUME NEW j \in 1..(m + 1) PROVE B2[j] <= p <=> j <= k
    <3>1. CASE j = m + 1
      BY <1>6, <1>10, <2>2, <3>1
    <3>2. CASE j \in 1..m
      BY <1>10, <2>2, <3>2
    <3> QED
      BY <1>10, <3>1, <3>2
  <2>6. /\ text' = text /\ u'.LastUndone = p /\ u'.LastUndoneC = u.LastUndoneC
        /\ reach' - 1 = k /\ Len(past') = m + 1
    BY <1>3, <1>5, <1>9 DEF p, k
  <2> QED
    BY <2>3, <2>4, <2>5, <2>6 DEF Stands, Behind
<1>13. Typed'
  BY <1>2, <1>3, <1>8, <1>9 DEF Typed
<1> QED
  BY <1>3, <1>8, <1>11, <1>12, <1>13 DEF Sound

(* The walk reads the queues and leaves them as they are. *)
Alike(r, q) == /\ q \in Rings
               /\ q.RQ = r.RQ /\ q.CQ = r.CQ /\ q.FillRQ = r.FillRQ
               /\ q.FillCQ = r.FillCQ /\ q.LastUndoRec = r.LastUndoRec

LEMMA AlikeTales ==
  ASSUME NEW r, NEW q, Linear(r), Alike(r, q)
  PROVE  /\ Linear(q)
         /\ \A x, T, C : Tale(x, r, T, C) => Tale(x, q, T, C)
         /\ \A h, T, B : Marks(r, h, T, B) => Marks(q, h, T, B)
BY DEF Alike, Linear, Tale, Marks

LEMMA WalkAt ==
  ASSUME NEW r, NEW arg, NEW from, Walk(r, arg, from)
  PROVE  at' = [ pc |-> "walk", p |-> r.LastUndone, n |-> 0, arg |-> arg, chars |-> 0,
                 goal |-> from - arg ]
BY DEF Walk, AtRest

LEMMA UndoKeeps ==
  ASSUME Sound, NEW arg \in 1..2, Undo(arg)
  PROVE  Sound'
<1>1. PICK T, C, B : Tale(text, u, T, C) /\ Marks(u, past, T, B)
  BY DEF Sound
<1>2. Typed /\ u \in Rings /\ Linear(u)
  BY DEF Sound, Typed, Linear
<1>3. /\ u' = [ u EXCEPT !.LastUndone = u.LastUndoRec, !.NCharsLeft = NUndoC,
                         !.NUndone = 0, !.LastUndoneC = u.FillCQ ]
      /\ Walk(u', arg + 1, Len(past) + 1) /\ reach' = Len(past) + 1
      /\ UNCHANGED << text, live, cur, past >>
  BY DEF Undo
<1>4. Alike(u, u') /\ u'.LastUndone = u.LastUndoRec /\ u'.LastUndoneC = u.FillCQ
  <2>1. u.LastUndoRec \in Int /\ NUndoC \in Int /\ u.FillCQ \in Int
    BY <1>2, QueueAssumption DEF Rings
  <2> DEFINE a == u.LastUndoRec
             b == NUndoC
             c == 0
             d == u.FillCQ
  <2>2. a \in Int /\ b \in Int /\ c \in Int /\ d \in Int /\ u \in Rings
    BY <1>2, <2>1
  <2> DEFINE q == [ u EXCEPT !.LastUndone = a, !.NCharsLeft = b, !.NUndone = c,
                             !.LastUndoneC = d ]
  <2>3. u' = q
    BY <1>3
  <2> HIDE DEF a, b, c, d
  <2>5. Alike(u, q) /\ q.LastUndone = a /\ q.LastUndoneC = d
    BY <2>2 DEF Alike, Rings
  <2> HIDE DEF q
  <2>4. Alike(u, u') /\ u'.LastUndone = a /\ u'.LastUndoneC = d
    BY <2>3, <2>5
  <2> QED
    BY <2>4 DEF a, d
<1>5. Linear(u') /\ Tale(text', u', T, C) /\ Marks(u', past', T, B)
  BY <1>1, <1>2, <1>3, <1>4, AlikeTales
<1>6. /\ u.FillRQ \in Nat /\ u.FillRQ # 0 /\ u.LastUndoRec = u.FillRQ - 1
      /\ Len(past) \in Nat /\ u.FillCQ \in Nat
  BY <1>2, Bounds
<1>7. at' = [ pc |-> "walk", p |-> u.FillRQ - 1, n |-> 0, arg |-> arg + 1, chars |-> 0,
              goal |-> Len(past) + 1 - (arg + 1) ]
  <2>1. at' = [ pc |-> "walk", p |-> u'.LastUndone, n |-> 0, arg |-> arg + 1, chars |-> 0,
                goal |-> Len(past) + 1 - (arg + 1) ]
    <3>1. Walk(u', arg + 1, Len(past) + 1)
      BY <1>3
    <3> QED
      BY <3>1, WalkAt
  <2> QED
    BY <1>4, <1>6, <2>1
<1>8. Typed'
  BY <1>2, <1>3, <1>5, <1>6, <1>7, SMTT(40) DEF Typed, Places
<1>9. \A j \in 1..Len(past) : B[j] <= u.FillRQ - 1 <=> j <= Len(past)
  BY <1>1, <1>6 DEF Marks
<1>10. T[u.FillRQ] = text /\ C[u.FillRQ] = u.FillCQ /\ (u.FillRQ - 1) + 1 = u.FillRQ
  BY <1>1, <1>6 DEF Tale
<1>11. /\ u'.LastUndone # NoRec /\ reach' - 1 = Len(past)
       /\ Len(past) + 1 - (arg + 1) + (arg + 1) - 1 = Len(past)
       /\ arg + 1 >= 1 /\ 0 = (u.FillRQ - 1) - (u.FillRQ - 1)
       /\ u.FillRQ - 1 \in 0..(u.FillRQ - 1) /\ Len(past) \in 0..Len(past)
  BY <1>3, <1>4, <1>6 DEF NoRec
<1>12. Stands(u.LastUndone, u.LastUndoneC, reach - 1, T, C, B)'
  BY <1>3, <1>4, <1>6, <1>9, <1>10, <1>11 DEF Stands, Behind, Alike
<1>13. WalksBack(B)'
  BY <1>3, <1>4, <1>6, <1>7, <1>9, <1>11 DEF WalksBack, Behind, Alike
<1>14. Place(T, C, B)'
  BY <1>7, <1>12, <1>13 DEF Place, Undone
<1> QED
  BY <1>5, <1>8, <1>14 DEF Sound

LEMMA UndoMoreKeeps ==
  ASSUME Sound, NEW arg \in 1..2, UndoMore(arg)
  PROVE  Sound'
<1>1. PICK T, C, B : Tale(text, u, T, C) /\ Marks(u, past, T, B) /\ Place(T, C, B)
  BY DEF Sound
<1>2. /\ at.pc = "idle" /\ u.LastUndone # NoRec /\ Walk(u, arg, reach)
      /\ UNCHANGED << text, live, cur, u, past, reach >>
  BY DEF UndoMore, Editing, Idle
<1>3. Typed /\ u.LastUndone \in Int /\ u.FillRQ \in Nat /\ reach \in Int /\ Len(past) \in Nat
  BY Bounds DEF Sound, Typed
<1>4. Stands(u.LastUndone, u.LastUndoneC, reach - 1, T, C, B)
  BY <1>1, <1>2 DEF Place, Undone
<1>5. at' = [ pc |-> "walk", p |-> u.LastUndone, n |-> 0, arg |-> arg, chars |-> 0,
              goal |-> reach - arg ]
  BY <1>2 DEF Walk, AtRest
<1>6. Typed'
  BY <1>2, <1>3, <1>5 DEF Typed, Places
<1>7. 0 = u.LastUndone - u.LastUndone /\ arg >= 1 /\ reach - arg + arg - 1 = reach - 1
  BY <1>3
<1>8. WalksBack(B)'
  BY <1>2, <1>4, <1>5, <1>7 DEF WalksBack, Stands, Behind
<1>9. Stands(u.LastUndone, u.LastUndoneC, reach - 1, T, C, B)'
  BY <1>2, <1>4 DEF Stands, Behind
<1>10. Place(T, C, B)'
  BY <1>5, <1>8, <1>9 DEF Place, Undone
<1> QED
  BY <1>1, <1>2, <1>6, <1>10 DEF Sound

LEMMA WalkRecordKeeps ==
  ASSUME Sound, WalkRecord
  PROVE  Sound'
<1> DEFINE rec  == u.RQ[at.p]
           left == u.NCharsLeft - (IF rec.kind = "insert" THEN rec.len ELSE 0)
<1>1. PICK T, C, B : Tale(text, u, T, C) /\ Marks(u, past, T, B) /\ Place(T, C, B)
  BY DEF Sound
<1>2. /\ at.pc = "walk" /\ rec.kind # "boundary"
      /\ UNCHANGED << text, live, cur, past, reach >>
      /\ IF Refused(rec, left)
         THEN at' = AtRest /\ u' = [ u EXCEPT !.NCharsLeft = left ]
         ELSE /\ at' = [ at EXCEPT !.p = Before(@), !.n = @ + 1 ]
              /\ u'  = [ u EXCEPT !.NCharsLeft = left, !.NUndone = @ + 1 ]
  BY DEF WalkRecord
<1>3. /\ Typed /\ at \in Places /\ u \in Rings /\ Linear(u)
      /\ u.NCharsLeft \in Int /\ u.NUndone \in Int /\ u.LastUndone \in Int
      /\ u.RQ \in [ Slots -> Rec ] /\ \A i \in 0..(u.FillRQ - 1) : i \in Slots
      /\ u.FillRQ \in Nat /\ Len(past) \in Nat
  BY Bounds DEF Sound, Typed, Linear
<1>4. WalksBack(B) /\ Stands(u.LastUndone, u.LastUndoneC, reach - 1, T, C, B)
  BY <1>1, <1>2 DEF Place, Undone, WalksBack
<1>5. at.p \in 0..(u.FillRQ - 1) /\ rec \in Rec /\ left \in Int
  BY <1>3, <1>4 DEF WalksBack, Rec
<1> HIDE DEF left
<1>6. /\ Alike(u, u') /\ u'.LastUndone = u.LastUndone /\ u'.LastUndoneC = u.LastUndoneC
  <2>1. CASE Refused(rec, left)
    BY <1>2, <1>3, <1>5, <2>1 DEF Alike, Rings
  <2>2. CASE ~Refused(rec, left)
    <3>1. u.NUndone + 1 \in Int
      BY <1>3
    <3> QED
      BY <1>2, <1>3, <1>5, <2>2, <3>1 DEF Alike, Rings
  <2> QED
    BY <2>1, <2>2
<1>7. Linear(u') /\ Tale(text', u', T, C) /\ Marks(u', past', T, B)
  BY <1>1, <1>2, <1>3, <1>6, AlikeTales
<1>8. Stands(u.LastUndone, u.LastUndoneC, reach - 1, T, C, B)'
  BY <1>2, <1>4, <1>6 DEF Stands, Behind, Alike
<1>9. CASE Refused(rec, left)
  <2>1. at' = AtRest
    BY <1>2, <1>9
  <2>2. Typed'
    BY <1>2, <1>3, <1>7, <2>1 DEF Typed, Places, AtRest
  <2>3. Place(T, C, B)'
    BY <1>8, <2>1 DEF Place, Undone, AtRest
  <2> QED
    BY <1>7, <2>2, <2>3 DEF Sound
<1>10. CASE ~Refused(rec, left)
  <2>1. at' = [ at EXCEPT !.p = Before(@), !.n = @ + 1 ]
    BY <1>2, <1>10
  <2>2. at.p # 0 /\ Before(at.p) = at.p - 1 /\ at.p - 1 \in 0..(u.FillRQ - 1)
    <3>1. rec.kind # "unundoable"
      BY <1>10 DEF Refused
    <3> QED
      BY <1>3, <1>5, <3>1 DEF Linear, Before
  <2>3. /\ at' \in Places /\ at'.pc = "walk" /\ at'.p = at.p - 1 /\ at'.n = at.n + 1
        /\ at'.arg = at.arg /\ at'.goal = at.goal
    <3>1. at.p - 1 \in Int /\ at.n + 1 \in Int
      BY <1>3 DEF Places
    <3> QED
      BY <1>2, <1>3, <2>1, <2>2, <3>1 DEF Places
  <2>4. Typed'
    BY <1>2, <1>3, <1>7, <2>3 DEF Typed
  <2> DEFINE m == at.goal + at.arg - 1
  <2>5. m \in 0..Len(past) /\ \A j \in 1..Len(past) : B[j] <= at.p - 1 <=> j <= m
    <3>1. m \in 0..Len(past) /\ \A j \in 1..Len(past) : B[j] <= at.p <=> j <= m
      BY <1>4 DEF WalksBack, Behind
    <3>2. \A j \in 1..Len(past) : B[j] \in Int /\ B[j] # at.p
      BY <1>1, <1>2, <1>5 DEF Marks
    <3> QED
      BY <1>5, <3>1, <3>2
  <2>6. WalksBack(B)'
    <3>1. at'.n = u'.LastUndone - at'.p /\ at'.n >= 0
      <4>1. /\ at.n \in Int /\ at.p \in Int /\ at.n = u.LastUndone - at.p /\ at.n >= 0
            /\ u'.LastUndone = u.LastUndone
        BY <1>3, <1>4, <1>6 DEF WalksBack, Places
      <4> QED
        BY <1>3, <2>3, <4>1
    <3>2. at'.goal + at'.arg - 1 = m /\ at'.p = at.p - 1 /\ Len(past') = Len(past)
      BY <1>2, <2>3
    <3> HIDE DEF m
    <3> QED
      BY <1>4, <1>6, <2>2, <2>3, <2>5, <3>1, <3>2 DEF WalksBack, Behind, Alike
  <2>7. Place(T, C, B)'
    BY <1>8, <2>3, <2>6 DEF Place, Undone
  <2> QED
    BY <1>7, <2>4, <2>7 DEF Sound
<1> QED
  BY <1>9, <1>10

LEMMA WalkBoundaryKeeps ==
  ASSUME Sound, WalkBoundary
  PROVE  Sound'
<1> DEFINE m == at.goal + at.arg - 1
<1>1. PICK T, C, B : Tale(text, u, T, C) /\ Marks(u, past, T, B) /\ Place(T, C, B)
  BY DEF Sound
<1>2. /\ at.pc = "walk" /\ u.RQ[at.p].kind = "boundary"
      /\ UNCHANGED << text, live, cur, past, reach >>
      /\ u' = [ u EXCEPT !.NUndone = @ + 1 ]
      /\ at' = IF at.arg > 1
               THEN [ at EXCEPT !.p = Before(@), !.n = @ + 1, !.arg = @ - 1 ]
               ELSE [ at EXCEPT !.pc = "apply", !.p = u.LastUndone, !.n = @ + 1,
                                !.chars = u.LastUndoneC ]
  BY DEF WalkBoundary
<1>3. /\ Typed /\ at \in Places /\ u \in Rings /\ Linear(u)
      /\ u.NUndone \in Int /\ u.LastUndone \in Int /\ u.LastUndoneC \in Int
      /\ u.FillRQ \in Nat /\ Len(past) \in Nat
  BY Bounds DEF Sound, Typed, Linear
<1>4. WalksBack(B) /\ Stands(u.LastUndone, u.LastUndoneC, reach - 1, T, C, B)
  BY <1>1, <1>2 DEF Place, Undone, WalksBack
<1>5. /\ at.p \in 0..(u.FillRQ - 1) /\ at.arg >= 1 /\ at.n = u.LastUndone - at.p
      /\ m \in 0..Len(past) /\ \A j \in 1..Len(past) : B[j] <= at.p <=> j <= m
  BY <1>4 DEF WalksBack, Behind
<1>6. /\ Alike(u, u') /\ u'.LastUndone = u.LastUndone /\ u'.LastUndoneC = u.LastUndoneC
  <2>1. u.NUndone + 1 \in Int
    BY <1>3
  <2> QED
    BY <1>2, <1>3, <2>1 DEF Alike, Rings
<1>7. Linear(u') /\ Tale(text', u', T, C) /\ Marks(u', past', T, B)
  BY <1>1, <1>2, <1>3, <1>6, AlikeTales
<1>8. Stands(u.LastUndone, u.LastUndoneC, reach - 1, T, C, B)'
  BY <1>2, <1>4, <1>6 DEF Stands, Behind, Alike
<1>9. \A j \in 1..Len(past) : B[j] \in 0..(u.FillRQ - 1)
  BY <1>1 DEF Marks
<1>10. m \in 1..Len(past) /\ B[m] = at.p
  <2>1. PICK j \in 1..Len(past) : B[j] = at.p
    BY <1>1, <1>2, <1>5 DEF Marks
  <2>2. j <= m /\ m \in 1..Len(past)
    <3>1. B[j] <= at.p
      BY <1>5, <2>1
    <3> QED
      BY <1>3, <1>5, <3>1
  <2> HIDE DEF m
  <2>3. B[m] <= at.p
    BY <1>5, <2>2
  <2>4. j < m => B[j] < B[m]
    BY <1>1, <2>2 DEF Marks
  <2>5. j = m
    BY <1>3, <1>5, <1>9, <2>1, <2>2, <2>3, <2>4
  <2> QED
    BY <2>1, <2>2, <2>5
<1>11. at.p # 0
  BY <1>2, <1>3, <1>5 DEF Linear
<1>12. /\ at.p \in Int /\ at.n \in Int /\ at.arg \in Int /\ at.goal \in Int
  BY <1>3 DEF Places
<1>13. CASE at.arg > 1
  <2>1. at' = [ at EXCEPT !.p = at.p - 1, !.n = at.n + 1, !.arg = at.arg - 1 ]
    BY <1>2, <1>11, <1>13 DEF Before
  <2>2. /\ at' \in Places /\ at'.pc = "walk" /\ at'.p = at.p - 1 /\ at'.n = at.n + 1
        /\ at'.arg = at.arg - 1 /\ at'.goal = at.goal
    <3>1. at.p - 1 \in Int /\ at.n + 1 \in Int /\ at.arg - 1 \in Int
      BY <1>12
    <3> QED
      BY <1>2, <1>3, <2>1, <3>1 DEF Places
  <2>3. Typed'
    BY <1>2, <1>3, <1>7, <2>2 DEF Typed
  <2>4. \A j \in 1..Len(past) : B[j] <= at.p - 1 <=> j <= m - 1
    <3> TAKE j \in 1..Len(past)
    <3> HIDE DEF m
    <3>1. j < m => B[j] < B[m]
      BY <1>1, <1>10 DEF Marks
    <3>2. m < j => B[m] < B[j]
      BY <1>1, <1>10 DEF Marks
    <3> QED
      BY <1>5, <1>9, <1>10, <3>1, <3>2
  <2>5. /\ at.p - 1 \in 0..(u.FillRQ - 1) /\ at.arg - 1 >= 1
        /\ at.goal + (at.arg - 1) - 1 = m - 1 /\ m - 1 \in 0..Len(past)
        /\ at.n + 1 = u.LastUndone - (at.p - 1) /\ at.n + 1 >= 0
    <3>1. at.p - 1 \in 0..(u.FillRQ - 1) /\ at.arg - 1 >= 1
      BY <1>3, <1>5, <1>11, <1>12, <1>13, SMTT(40)
    <3>2. at.goal + (at.arg - 1) - 1 = m - 1
      BY <1>12
    <3>3. at.n + 1 = u.LastUndone - (at.p - 1) /\ at.n + 1 >= 0
      <4>1. at.n >= 0
        BY <1>4 DEF WalksBack
      <4> QED
        BY <1>3, <1>5, <1>12, <4>1
    <3> HIDE DEF m
    <3>4. m - 1 \in 0..Len(past)
      BY <1>3, <1>10
    <3> QED
      BY <3>1, <3>2, <3>3, <3>4
  <2> HIDE DEF m
  <2>6. WalksBack(B)'
    BY <1>2, <1>4, <1>6, <2>2, <2>4, <2>5 DEF WalksBack, Behind, Alike
  <2>7. Place(T, C, B)'
    BY <1>8, <2>2, <2>6 DEF Place, Undone
  <2> QED
    BY <1>7, <2>3, <2>7 DEF Sound
<1>14. CASE ~(at.arg > 1)
  <2>1. at' = [ at EXCEPT !.pc = "apply", !.p = u.LastUndone, !.n = at.n + 1,
                          !.chars = u.LastUndoneC ]
    BY <1>2, <1>14
  <2>2. /\ at' \in Places /\ at'.pc = "apply" /\ at'.p = u.LastUndone /\ at'.n = at.n + 1
        /\ at'.chars = u.LastUndoneC /\ at'.goal = at.goal
    <3>1. at.n + 1 \in Int
      BY <1>12
    <3> QED
      BY <1>3, <2>1, <3>1 DEF Places
  <2>3. Typed'
    BY <1>2, <1>3, <1>7, <2>2 DEF Typed
  <2>4. m = at.goal
    BY <1>5, <1>12, <1>14
  <2>5. /\ u.LastUndone \in 0..(u.FillRQ - 1) /\ T[u.LastUndone + 1] = text
        /\ C[u.LastUndone + 1] = u.LastUndoneC
        /\ \A j \in 1..Len(past) : B[j] <= u.LastUndone <=> j <= reach - 1
    BY <1>4 DEF Stands, Behind
  <2>6. at.n >= 0
    BY <1>4 DEF WalksBack
  <2>7. /\ at.n + 1 >= 0 /\ u.LastUndone - (at.n + 1) + 1 = at.p
    BY <1>3, <1>5, <1>12, <2>6
  <2>8. GoesBack(T, C, B)'
    BY <1>2, <1>6, <1>10, <2>2, <2>4, <2>5, <2>7 DEF GoesBack, Alike
  <2>9. Place(T, C, B)'
    BY <2>2, <2>8 DEF Place
  <2> QED
    BY <1>7, <2>3, <2>9 DEF Sound
<1> QED
  BY <1>13, <1>14

LEMMA FinishKeeps ==
  ASSUME Sound, FinishUndo
  PROVE  Sound' /\ Exact
<1> DEFINE g == at.goal
<1>1. PICK T, C, B : Tale(text, u, T, C) /\ Marks(u, past, T, B) /\ Place(T, C, B)
  BY DEF Sound
<1>2. /\ at.pc = "apply" /\ at.n = 0
      /\ u' = [ u EXCEPT !.LastUndone = at.p, !.LastUndoneC = at.chars ]
      /\ at' = AtRest /\ reach' = at.goal
      /\ UNCHANGED << text, live, cur, past >>
  BY DEF FinishUndo
<1>3. /\ Typed /\ at \in Places /\ u \in Rings /\ Linear(u) /\ past \in Seq(Texts)
      /\ u.FillRQ \in Nat /\ Len(past) \in Nat
      /\ at.p \in Int /\ at.chars \in Int /\ g \in Int
  BY Bounds DEF Sound, Typed, Linear, Places
<1>4. /\ at.p \in 0..(u.FillRQ - 1)
      /\ T[at.p + 1] = text /\ C[at.p + 1] = at.chars
      /\ g \in 1..Len(past) /\ at.p + 1 = B[g]
  BY <1>1, <1>2, <1>3 DEF Place, GoesBack
<1> HIDE DEF g
<1>5. text = past[g]
  BY <1>1, <1>4 DEF Marks
<1>6. Exact
  BY <1>3, <1>4, <1>5 DEF Exact, g
<1>7. /\ Alike(u, u') /\ u'.LastUndone = at.p /\ u'.LastUndoneC = at.chars
  BY <1>2, <1>3 DEF Alike, Rings
<1>8. Linear(u') /\ Tale(text', u', T, C) /\ Marks(u', past', T, B)
  BY <1>1, <1>2, <1>3, <1>7, AlikeTales
<1>9. Typed'
  BY <1>2, <1>3, <1>8 DEF Typed, Places, AtRest, g
<1>10. \A j \in 1..Len(past) : B[j] <= at.p <=> j <= g - 1
  <2> TAKE j \in 1..Len(past)
  <2>1. B[j] \in 0..(u.FillRQ - 1) /\ B[g] \in 0..(u.FillRQ - 1)
    BY <1>1, <1>4 DEF Marks
  <2>2. /\ j < g => B[j] < B[g]
        /\ g < j => B[g] < B[j]
    BY <1>1, <1>4 DEF Marks
  <2> QED
    BY <1>3, <1>4, <2>1, <2>2
<1>11. g - 1 \in 0..Len(past) /\ at'.pc = "idle"
  BY <1>2, <1>3, <1>4 DEF AtRest
<1>12. Stands(u.LastUndone, u.LastUndoneC, reach - 1, T, C, B)'
  BY <1>2, <1>4, <1>7, <1>10, <1>11 DEF Stands, Behind, Alike, g
<1>13. Place(T, C, B)'
  BY <1>11, <1>12 DEF Place, Undone
<1> QED
  BY <1>6, <1>8, <1>9, <1>13 DEF Sound

(* One record undone: the texts are those before it. *)
LEMMA RecordUndone ==
  ASSUME Sound, NEW T, NEW C, NEW B, NEW T2, NEW C2, NEW cs,
         Tale(text, u, T, C), GoesBack(T, C, B),
         at.pc = "apply", at.n > 0, at.p # 0,
         text' = T[at.p], cs = C[at.p], Linear(u'), u.FillRQ <= u'.FillRQ,
         Tale(text', u', T2, C2), Marks(u', past, T2, B),
         Keeps(u.FillRQ - 1, T, C, T2, C2),
         at' = [ at EXCEPT !.p = at.p - 1, !.n = at.n - 1, !.chars = cs ],
         cur' \in Buffer, UNCHANGED << live, past, reach >>
  PROVE  Sound'
<1>1. /\ Typed /\ at \in Places /\ u.FillRQ \in Nat
      /\ T \in [ 0..u.FillRQ -> Texts ] /\ C \in [ 0..u.FillRQ -> Nat ]
  BY Bounds DEF Sound, Typed, Tale
<1>2. /\ at.p \in 0..(u.FillRQ - 1) /\ at.goal \in 1..Len(past)
      /\ at.p - at.n + 1 = B[at.goal]
  BY DEF GoesBack
<1>3. /\ at.p \in Int /\ at.n \in Int /\ at.p \in 0..u.FillRQ
      /\ at.p - 1 \in 0..(u.FillRQ - 1)
      /\ (at.p - 1) + 1 = at.p /\ (at.p - 1) - (at.n - 1) + 1 = at.p - at.n + 1
      /\ at.n - 1 >= 0 /\ at.p - 1 \in Int /\ at.n - 1 \in Int
  BY <1>1, <1>2, SMTT(40) DEF Places
<1>4. cs \in Int
  BY <1>1, <1>3
<1>5. /\ at' \in Places /\ at'.pc = "apply" /\ at'.p = at.p - 1 /\ at'.n = at.n - 1
      /\ at'.chars = cs /\ at'.goal = at.goal
  BY <1>1, <1>3, <1>4 DEF Places
<1>6. Typed'
  BY <1>1, <1>3, <1>5 DEF Typed
<1>7. T2[at.p] = T[at.p] /\ C2[at.p] = C[at.p]
  BY <1>2 DEF Keeps
<1>8. at.p - 1 \in 0..(u'.FillRQ - 1)
  <2>1. u'.FillRQ \in Nat
    BY QueueAssumption DEF Linear, Rings, Slots
  <2> QED
    BY <1>1, <1>3, <2>1, SMTT(40)
<1>9. GoesBack(T2, C2, B)'
  BY <1>2, <1>3, <1>5, <1>7, <1>8 DEF GoesBack
<1>10. Place(T2, C2, B)'
  BY <1>5, <1>9 DEF Place
<1> QED
  BY <1>6, <1>10 DEF Sound

LEMMA ApplyKeeps ==
  ASSUME Sound, flaws' = {}, ApplyRecord
  PROVE  Sound'
<1> DEFINE p    == at.p
           rec  == u.RQ[p]
           b    == IF rec.buffer \in live THEN rec.buffer ELSE cur
           st   == [ t |-> text[b], r |-> u, f |-> flaws ]
           done == CASE rec.kind = "delete" -> Deleted(st, b, rec.dot, rec.len)
                     [] rec.kind = "insert" -> PutBack(st, b, rec.dot, rec.len)
                     [] OTHER -> st
           left == at.chars - (IF rec.kind = "insert" THEN rec.len ELSE 0)
           cs   == IF left < 0 THEN left + NUndoC ELSE left
           w    == rec.buffer
           v    == [ t |-> text[w], r |-> u, f |-> flaws ]
<1>1. PICK T, C, B : Tale(text, u, T, C) /\ Marks(u, past, T, B) /\ Place(T, C, B)
  BY DEF Sound
<1>2. /\ at.pc = "apply" /\ at.n > 0 /\ cur' = b
      /\ text' = [ text EXCEPT ![b] = done.t ] /\ u' = done.r /\ flaws' = done.f
      /\ at' = IF rec.kind = "unundoable" THEN AtRest
               ELSE [ at EXCEPT !.p = Before(@), !.n = @ - 1, !.chars = cs ]
      /\ UNCHANGED << live, past, reach >>
  BY DEF ApplyRecord
<1>3. /\ Typed /\ at \in Places /\ Linear(u) /\ text \in Texts /\ live = Buffer
      /\ u.RQ \in [ Slots -> Rec ] /\ \A i \in 0..(u.FillRQ - 1) : i \in Slots
      /\ u.FillRQ \in Nat /\ u.FillRQ # 0 /\ Len(past) \in Nat
      /\ at.n \in Int
  BY Bounds DEF Sound, Typed, Places
<1>4. GoesBack(T, C, B)
  BY <1>1, <1>2 DEF Place
<1>5. /\ p \in 0..(u.FillRQ - 1) /\ T[p + 1] = text /\ C[p + 1] = at.chars
      /\ at.goal \in 1..Len(past) /\ p - at.n + 1 = B[at.goal]
  BY <1>4 DEF GoesBack
<1>6. rec \in Rec /\ b = w /\ w \in Buffer
  BY <1>3, <1>5 DEF Rec
<1>7. p # 0 /\ rec.kind # "unundoable"
  <2>1. B[at.goal] \in 0..(u.FillRQ - 1) /\ u.RQ[B[at.goal]].kind = "boundary"
    BY <1>1, <1>5 DEF Marks
  <2>2. B[at.goal] # 0
    BY <2>1 DEF Linear, Sound, Typed
  <2>3. p # 0
    <3> DEFINE x == B[at.goal]
               n == at.n
    <3>1. p \in Int /\ p - n + 1 = x
      BY <1>3, <1>5
    <3>2. x \in Nat /\ x # 0
      BY <1>3, <2>1, <2>2
    <3>3. n \in Int /\ n > 0
      BY <1>2, <1>3
    <3> HIDE DEF x, n, p
    <3> QED
      BY <3>1, <3>2, <3>3
  <2> QED
    BY <1>3, <1>5, <2>3 DEF Linear
<1>8. Told(rec, u.CQ, T[p], text, C[p], at.chars)
  BY <1>1, <1>5 DEF Tale
<1>9. C[p] \in Nat /\ T[p] \in Texts
  <2>1. p \in 0..u.FillRQ
    BY <1>3, <1>5
  <2> QED
    BY <1>1, <2>1 DEF Tale
<1> HIDE DEF rec, p, cs, left
<1>10. at' = [ at EXCEPT !.p = at.p - 1, !.n = at.n - 1, !.chars = cs ]
  BY <1>2, <1>7 DEF Before, p
<1>11. st = v
  BY <1>6
<1> HIDE DEF b, st
<1>12. CASE rec.kind = "delete"
  <2> DEFINE d == rec.dot
             n == rec.len
  <2>1. done = Deleted(v, w, d, n)
    BY <1>6, <1>11, <1>12
  <2>2. /\ d \in Nat /\ d # 0 /\ n \in Nat /\ n # 0 /\ d + n <= Len(text[w]) + 1
        /\ T[p] = [ text EXCEPT ![w] = Cut(text[w], d, n) ] /\ C[p] = at.chars
    BY <1>6, <1>8, <1>12 DEF Told, Rec
  <2> HIDE DEF done, w, d, n
  <2>3. Len(text[w]) \in Nat
    BY <1>3, <1>6 DEF Texts, w
  <2>4. d \in 1..Len(text[w]) /\ n \in Nat \ {0} /\ Lesser(n, Len(text[w]) + 1 - d) = n
    BY <2>2, <2>3 DEF Lesser
  <2> DEFINE z == Deleted(v, w, d, n)
  <2>5. z.f = {} /\ text' = [ text EXCEPT ![w] = z.t ] /\ u' = z.r
    BY <1>2, <1>6, <2>1
  <2>6. /\ z.t = Cut(text[w], d, n)
        /\ Recorded(text, u, past, T, C, B, [ text EXCEPT ![w] = Cut(text[w], d, n) ], z.r)
    <3> DEFINE k == Lesser(n, Len(text[w]) + 1 - d)
    <3>1. /\ z.t = Cut(text[w], d, k)
          /\ Recorded(text, u, past, T, C, B, [ text EXCEPT ![w] = Cut(text[w], d, k) ], z.r)
      BY <1>1, <1>3, <1>6, <2>4, <2>5, DeletedRecorded DEF v
    <3> HIDE DEF z, v
    <3> QED
      BY <2>4, <3>1
  <2> HIDE DEF z, v
  <2>7. text' = T[p] /\ Recorded(text, u, past, T, C, B, text', u')
    BY <2>2, <2>5, <2>6
  <2>8. cs = C[p]
    BY <1>9, <1>12, <2>2 DEF cs, left
  <2>9. PICK T2, C2 : /\ Tale(text', u', T2, C2) /\ Marks(u', past, T2, B)
                      /\ Keeps(u.FillRQ - 1, T, C, T2, C2)
    BY <2>7 DEF Recorded
  <2>10. Linear(u') /\ u.FillRQ <= u'.FillRQ /\ cur' \in Buffer
    BY <1>2, <1>6, <2>7 DEF Recorded, w
  <2> QED
    BY <1>1, <1>2, <1>4, <1>7, <1>10, <2>7, <2>8, <2>9, <2>10, RecordUndone DEF p
<1>13. CASE rec.kind = "insert"
  <2> DEFINE d == rec.dot
             n == rec.len
             s == Piece(u.CQ, C[p], n)
  <2>1. /\ d \in Nat /\ d # 0 /\ n \in Nat /\ n # 0 /\ d <= Len(text[w]) + 1
        /\ T[p] = [ text EXCEPT ![w] = Put(text[w], d, s) ] /\ at.chars = C[p] + n
        /\ s \in Seq(Char)
    BY <1>6, <1>8, <1>13 DEF Told, Rec
  <2>2. done = PutBack(v, w, d, n)
    BY <1>6, <1>11, <1>13
  <2> HIDE DEF d, n, done, w, v
  <2>3. at.chars - n >= 0 /\ at.chars - n = C[p]
    BY <1>9, <2>1
  <2>4. PutBack(v, w, d, n) = Inserted(v, w, d, s)
    BY <2>3 DEF PutBack, Chunk, Piece
  <2>5. Len(s) # 0
    <3>1. DOMAIN s = 1..n /\ DOMAIN s = 1..Len(s) /\ 1 \in 1..n
      BY <2>1 DEF Piece
    <3>2. 1 \in 1..Len(s)
      BY <3>1
    <3> HIDE DEF s
    <3> QED
      BY <3>2
  <2> HIDE DEF s
  <2>6. d \in 1..(Len(text[w]) + 1)
    <3>1. Len(text[w]) \in Nat
      BY <1>3, <1>6 DEF Texts
    <3> QED
      BY <2>1, <3>1
  <2> DEFINE z == Inserted(v, w, d, s)
  <2>7. z.f = {} /\ text' = [ text EXCEPT ![w] = z.t ] /\ u' = z.r
    BY <1>2, <1>6, <2>2, <2>4
  <2>8. /\ z.t = Put(text[w], d, s)
        /\ Recorded(text, u, past, T, C, B, [ text EXCEPT ![w] = Put(text[w], d, s) ], z.r)
    BY <1>1, <1>3, <1>6, <2>1, <2>5, <2>6, <2>7, InsertedRecorded DEF v
  <2> HIDE DEF z
  <2>9. text' = T[p] /\ Recorded(text, u, past, T, C, B, text', u')
    BY <2>1, <2>7, <2>8
  <2>10. cs = C[p]
    BY <1>9, <1>13, <2>3 DEF cs, left, n
  <2>11. PICK T2, C2 : /\ Tale(text', u', T2, C2) /\ Marks(u', past, T2, B)
                       /\ Keeps(u.FillRQ - 1, T, C, T2, C2)
    BY <2>9 DEF Recorded
  <2>12. Linear(u') /\ u.FillRQ <= u'.FillRQ /\ cur' \in Buffer
    BY <1>2, <1>6, <2>9 DEF Recorded
  <2> QED
    BY <1>1, <1>2, <1>4, <1>7, <1>10, <2>9, <2>10, <2>11, <2>12, RecordUndone DEF p
<1>14. CASE rec.kind \notin {"delete", "insert"}
  <2>1. done = v
    BY <1>11, <1>14
  <2>2. rec.kind = "boundary"
    BY <1>6, <1>7, <1>14 DEF Rec, Kinds
  <2>3. T[p] = text /\ C[p] = at.chars
    BY <1>8, <2>2 DEF Told
  <2> HIDE DEF w
  <2>4. text' = text /\ u' = u
    BY <1>2, <1>3, <1>6, <2>1 DEF Texts
  <2>5. cs = C[p]
    BY <1>9, <2>2, <2>3 DEF cs, left
  <2>6. cur' \in Buffer /\ u.FillRQ <= u'.FillRQ
    BY <1>2, <1>3, <1>6, <2>4
  <2>7. Keeps(u.FillRQ - 1, T, C, T, C)
    BY DEF Keeps
  <2>8. Linear(u') /\ Tale(text', u', T, C) /\ Marks(u', past, T, B)
    BY <1>1, <1>3, <2>4
  <2>9. text' = T[p]
    BY <2>3, <2>4
  <2> QED
    BY <1>1, <1>2, <1>4, <1>7, <1>10, <2>5, <2>6, <2>7, <2>8, <2>9, RecordUndone DEF p
<1> QED
  BY <1>12, <1>13, <1>14

(* What is flawed stays flawed. *)
LEMMA FlawsStay ==
  ASSUME [Next]_vars, flaws' = {}
  PROVE  flaws = {}
<1>1. \A st, b, d, s : st.f \subseteq Inserted(st, b, d, s).f
  BY DEF Inserted
<1>2. \A st, b, d, k : st.f \subseteq Deleted(st, b, d, k).f
  BY DEF Deleted
<1>3. \A st, b, d, len : st.f \subseteq PutBack(st, b, d, len).f
  BY <1>1 DEF PutBack
<1>4. CASE UndoBoundary
  BY <1>4 DEF UndoBoundary
<1>5. ASSUME NEW d, NEW c, Insert(d, c) PROVE flaws = {}
  <2>1. Now.f \subseteq flaws' /\ Now.f = flaws
    BY <1>1, <1>5 DEF Insert, Becomes, Now
  <2> QED
    BY <2>1
<1>6. ASSUME NEW d, NEW k, Delete(d, k) PROVE flaws = {}
  <2>1. Now.f \subseteq flaws' /\ Now.f = flaws
    BY <1>2, <1>6 DEF Delete, Becomes, Now
  <2> QED
    BY <2>1
<1>7. CASE ApplyRecord
  <2> DEFINE rec  == u.RQ[at.p]
             b    == IF rec.buffer \in live THEN rec.buffer ELSE cur
             st   == [ t |-> text[b], r |-> u, f |-> flaws ]
             done == CASE rec.kind = "delete" -> Deleted(st, b, rec.dot, rec.len)
                       [] rec.kind = "insert" -> PutBack(st, b, rec.dot, rec.len)
                       [] OTHER -> st
  <2>1. flaws' = done.f
    BY <1>7 DEF ApplyRecord
  <2>2. st.f = flaws
    OBVIOUS
  <2> HIDE DEF st, rec, b
  <2>3. st.f \subseteq done.f
    BY <1>2, <1>3
  <2> QED
    BY <2>1, <2>2, <2>3
<1>8. ASSUME NEW b, SetBfp(b) \/ DelBuf(b) PROVE flaws = {}
  BY <1>8 DEF SetBfp, DelBuf
<1>9. ASSUME NEW arg, Undo(arg) \/ UndoMore(arg) PROVE flaws = {}
  BY <1>9 DEF Undo, UndoMore
<1>10. CASE WalkRecord \/ WalkBoundary \/ FinishUndo \/ UNCHANGED vars
  BY <1>10 DEF WalkRecord, WalkBoundary, FinishUndo, vars
<1> QED
  BY <1>4, <1>5, <1>6, <1>7, <1>8, <1>9, <1>10 DEF Next, Working

LEMMA UndoSteps ==
  ASSUME UndoInv, [Next]_vars
  PROVE  UndoInv'
<1> SUFFICES ASSUME flaws' = {}
             PROVE  Sound'
  BY DEF UndoInv
<1>1. Sound
  BY FlawsStay DEF UndoInv
<1>2. CASE UndoBoundary
  BY <1>1, <1>2, BoundaryKeeps
<1>3. ASSUME NEW d \in 1..(Len(text[cur]) + 1), NEW c \in Char, Insert(d, c) PROVE Sound'
  BY <1>1, <1>3, InsertKeeps
<1>4. ASSUME NEW d \in 1..Len(text[cur]), NEW k \in 1..2, Delete(d, k) PROVE Sound'
  BY <1>1, <1>4, DeleteKeeps
<1>5. ASSUME NEW b, SetBfp(b) \/ UNCHANGED vars PROVE Sound'
  BY <1>1, <1>5, SetBfpKeeps
<1>6. ASSUME NEW b, DelBuf(b) PROVE Sound'
  BY <1>6 DEF DelBuf
<1>7. ASSUME NEW arg \in 1..2, Undo(arg) \/ UndoMore(arg) PROVE Sound'
  BY <1>1, <1>7, UndoKeeps, UndoMoreKeeps
<1>8. CASE WalkRecord
  BY <1>1, <1>8, WalkRecordKeeps
<1>9. CASE WalkBoundary
  BY <1>1, <1>9, WalkBoundaryKeeps
<1>10. CASE ApplyRecord
  BY <1>1, <1>10, ApplyKeeps
<1>11. CASE FinishUndo
  BY <1>1, <1>11, FinishKeeps
<1> QED
  BY <1>2, <1>3, <1>4, <1>5, <1>6, <1>7, <1>8, <1>9, <1>10, <1>11 DEF Next, Working

LEMMA UndoStarts ==
  ASSUME Init
  PROVE  UndoInv
<1> DEFINE none == [ kind |-> "boundary", buffer |-> cur, dot |-> 0, len |-> 0 ]
           zero == [ RQ |-> [ i \in Slots |-> none ],
                     CQ |-> [ i \in 0..NUndoC |-> Blank ],
                     FillRQ |-> 0, FillCQ |-> 0, NUndone |-> 0, NCharsLeft |-> 0,
                     LastUndoneC |-> 0, LastUndone |-> NoRec,
                     LastUndoRec |-> NoRec ]
           k == "unundoable"
           g == NewUndo(zero, k, cur, 1, 0)
<1>1. /\ text = [ b \in Buffer |-> << >> ] /\ live = Buffer /\ cur \in Buffer
      /\ u = g /\ at = AtRest /\ past = << >> /\ reach = 0
  BY DEF Init
<1>2. NUndoR \in Nat \ {0} /\ NUndoC \in Nat /\ 0 \in Slots /\ 0 \in 0..NUndoC /\ NoRec \in Int
  BY QueueAssumption DEF Slots, NoRec
<1>3. k \in Kinds /\ k # "boundary" /\ none \in Rec
  BY <1>1 DEF Kinds, Rec
<1> HIDE DEF none
<1>4. zero \in Rings /\ zero.FillRQ = 0 /\ zero.FillCQ = 0
  BY <1>2, <1>3 DEF Rings
<1> HIDE DEF zero, k
<1>5. /\ g \in Rings /\ g.FillRQ = zero.FillRQ + 1 /\ g.LastUndoRec = zero.FillRQ
      /\ g.RQ[zero.FillRQ] = [ kind |-> k, buffer |-> cur, dot |-> 1, len |-> 0 ]
      /\ g.FillCQ = zero.FillCQ /\ g.LastUndone = NoRec
  <2>1. zero.FillRQ < NUndoR
    BY <1>2, <1>4
  <2>2. /\ g \in Rings /\ g.FillRQ = zero.FillRQ + 1 /\ g.LastUndoRec = zero.FillRQ
        /\ g.RQ[zero.FillRQ] = [ kind |-> k, buffer |-> cur, dot |-> 1, len |-> 0 ]
        /\ g.FillCQ = zero.FillCQ
        /\ g.LastUndone = IF k = "boundary" THEN zero.LastUndone ELSE NoRec
    BY <1>1, <1>3, <1>4, <2>1, NewUndoFacts
  <2> QED
    BY <1>3, <2>2
<1> HIDE DEF g
<1>6. /\ u \in Rings /\ u.FillRQ = 1 /\ u.LastUndoRec = 0 /\ u.FillCQ = 0
      /\ u.RQ[0].kind = "unundoable" /\ u.LastUndone = NoRec
  BY <1>1, <1>4, <1>5 DEF k
<1>7. \A i \in 0..(u.FillRQ - 1) : i = 0
  BY <1>6
<1>8. Linear(u)
  BY <1>6, <1>7 DEF Linear
<1>9. Typed
  BY <1>1, <1>8 DEF Typed, Places, AtRest, Texts
<1> DEFINE T == [ i \in 0..1 |-> text ]
           C == [ i \in 0..1 |-> 0 ]
           B == [ j \in 1..0 |-> 0 ]
<1>10. Tale(text, u, T, C)
  <2>1. Told(u.RQ[0], u.CQ, text, text, 0, 0)
    BY <1>6 DEF Told
  <2>2. text \in Texts
    BY <1>9 DEF Typed
  <2>3. T \in [ 0..1 -> Texts ] /\ T[0] = text /\ T[1] = text
    BY <2>2
  <2>4. C \in [ 0..1 -> Nat ] /\ C[0] = 0 /\ C[1] = 0 /\ \A i \in 0..1 : C[i] <= 0
    OBVIOUS
  <2> HIDE DEF T, C
  <2> QED
    BY <1>6, <1>7, <2>1, <2>3, <2>4 DEF Tale
<1>11. Marks(u, past, T, B)
  <2>1. Len(past) = 0 /\ 1..0 = {} /\ B \in [ 1..0 -> 0..(u.FillRQ - 1) ]
    BY <1>1
  <2> HIDE DEF B, T
  <2>2. \A p \in 0..(u.FillRQ - 1) : u.RQ[p].kind # "boundary"
    BY <1>6, <1>7
  <2> QED
    BY <2>1, <2>2 DEF Marks
<1> HIDE DEF T, C, B
<1>12. Place(T, C, B)
  BY <1>1, <1>6 DEF Place, Undone, AtRest
<1> QED
  BY <1>9, <1>10, <1>11, <1>12 DEF UndoInv, Sound

(* As long as flaws is empty the queues tell the whole history of the texts, *)
(* and undo is at a place of it (undo.c:NewUndo, undo.c:UndoMore).           *)
THEOREM QueuesTellAll == Spec => []UndoInv
<1>1. Init => UndoInv
  BY UndoStarts
<1>2. UndoInv /\ [Next]_vars => UndoInv'
  BY UndoSteps
<1> QED
  BY <1>1, <1>2, PTL DEF Spec

(* An undo that is not refused brings back the texts of the boundary it goes *)
(* back to, whatever the lengths of the queues, the texts and the history    *)
(* (undo.c:UndoMore).                                                        *)
THEOREM UndoIsExact == Spec => UndoExact
<1>1. UndoInv /\ [Next]_vars => [ FinishUndo /\ flaws = {} => Exact ]_vars
  BY FinishKeeps DEF UndoInv
<1> QED
  BY <1>1, QueuesTellAll, PTL DEF Spec, UndoExact
==============================================================================
