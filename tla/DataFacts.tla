------------------------------ MODULE DataFacts ------------------------------
(***************************************************************************)
(* Facts about numbers, sets and sequences that the proofs of several      *)
(* components need and the theorem library does not state: the least       *)
(* number of a set, which is how a proof goes through a list or a loop     *)
(* step by step; the sequence of the elements of a set; a stack and its    *)
(* top; the beginning of a text.                                           *)
(***************************************************************************)
EXTENDS Integers, SequencesExt, FiniteSetTheorems, SequenceTheorems, WellFoundedInduction,
        TLAPS

LEMMA Wf == IsWellFoundedOn({ss \in Nat \X Nat : ss[1] < ss[2]}, Nat)
BY NatLessThanWellFounded DEF OpToRel

LEMMA NatMin ==
  ASSUME NEW T \in SUBSET Nat, T # {}
  PROVE  \E n \in T : \A m \in T : n <= m
<1> DEFINE R == {ss \in Nat \X Nat : ss[1] < ss[2]}
<1>1. IsWellFoundedOn(R, Nat)
  BY Wf
<1>a. \A m, n \in Nat : m < n => << m, n >> \in R
  OBVIOUS
<1> HIDE DEF R
<1>2. \E n \in T : \A m \in T : ~(<< m, n >> \in R)
  BY <1>1, WFMin
<1>3. PICK n \in T : \A m \in T : ~(<< m, n >> \in R)
  BY <1>2
<1>4. \A m \in T : n <= m
  <2> TAKE m \in T
  <2>1. n \in Nat /\ m \in Nat
    OBVIOUS
  <2>2. ~(m < n)
    BY <1>3, <1>a, <2>1
  <2> QED
    BY <2>1, <2>2
<1> QED
  BY <1>4

LEMMA MinIsLeast ==
  ASSUME NEW T \in SUBSET Nat, T # {}
  PROVE  Min(T) \in T /\ \A m \in T : Min(T) <= m
BY NatMin DEF Min

LEMMA SetToSeqFacts ==
  ASSUME NEW S, IsFiniteSet(S)
  PROVE  SetToSeq(S) \in Seq(S) /\ Range(SetToSeq(S)) = S
<1>1. Cardinality(S) \in Nat /\ ExistsBijection(1..Cardinality(S), S)
  BY FS_CardinalityType
<1>2. PICK f \in Bijection(1..Cardinality(S), S) : TRUE
  BY <1>1 DEF ExistsBijection
<1>3. f \in [1..Cardinality(S) -> S] /\ IsInjective(f)
  BY <1>2 DEF Bijection, Injection, IsInjective
<1> DEFINE s == SetToSeq(S)
<1>4. s \in [1..Cardinality(S) -> S] /\ IsInjective(s)
  BY <1>3 DEF SetToSeq
<1>5. s \in Seq(S)
  BY <1>4, <1>1
<1>6. Cardinality(1..Cardinality(S)) = Cardinality(S)
  BY <1>1, FS_Interval
<1>7. s \in Injection(1..Cardinality(S), S)
  BY <1>4 DEF Injection, IsInjective
<1>8. s \in Surjection(1..Cardinality(S), S)
  BY <1>6, <1>7, FS_Injection
<1>9. Range(s) = S
  BY <1>4, <1>8 DEF Range, Surjection
<1> QED
  BY <1>5, <1>9

(***************************************************************************)
(* A stack, top first.                                                     *)
(***************************************************************************)
LEMMA Pushed ==
  ASSUME NEW S, NEW j \in S, NEW s \in Seq(S)
  PROVE  LET t == << j >> \o s
         IN  /\ t \in Seq(S) /\ t # << >> /\ Len(t) = Len(s) + 1
             /\ Head(t) = j /\ Tail(t) = s /\ t[1] = j
             /\ \A i \in 1..Len(s) : t[i + 1] = s[i]
             /\ \A i \in 2..Len(t) : t[i] = s[i - 1]
OBVIOUS

LEMMA Popped ==
  ASSUME NEW S, NEW t \in Seq(S), t # << >>
  PROVE  /\ Head(t) \in S /\ Tail(t) \in Seq(S) /\ Len(t) = Len(Tail(t)) + 1
         /\ Head(t) = t[1]
         /\ \A i \in 1..Len(Tail(t)) : Tail(t)[i] = t[i + 1]
OBVIOUS

(***************************************************************************)
(* The beginning of a text.                                                *)
(***************************************************************************)
LEMMA PrefixOfItself ==
  ASSUME NEW S, NEW s \in Seq(S)
  PROVE  IsPrefix(s, s)
BY DEF IsPrefix

LEMMA PrefixOfLonger ==
  ASSUME NEW S, NEW s \in Seq(S), NEW t \in Seq(S), NEW u \in Seq(S), IsPrefix(s, t)
  PROVE  IsPrefix(s, t \o u)
<1> DEFINE n == Len(s)
           l == SubSeq(t \o u, 1, n)
           r == SubSeq(t, 1, n)
<1>1. n \in Nat /\ n <= Len(t) /\ SubSeq(s, 1, n) = r
  BY DEF IsPrefix
<1>2. Len(t \o u) = Len(t) + Len(u) /\ t \o u \in Seq(S)
  OBVIOUS
<1>3. Len(t) \in Nat /\ Len(u) \in Nat
  OBVIOUS
<1>4. \A i \in 1..n : (t \o u)[i] = t[i] /\ t[i] \in S
  BY <1>1
<1> HIDE DEF n
<1>5. l \in Seq(S) /\ r \in Seq(S) /\ Len(l) = n /\ Len(r) = n
  BY <1>1, <1>4, SubSeqProperties
<1>6. \A i \in 1..n : l[i] = r[i]
  BY <1>1, <1>4, SubSeqProperties
<1>7. l = r
  BY <1>5, <1>6, SeqEqual
<1> QED
  BY <1>1, <1>2, <1>3, <1>7 DEF IsPrefix, n

LEMMA PrefixPoints ==
  ASSUME NEW S, NEW s \in Seq(S), NEW t \in Seq(S), IsPrefix(s, t)
  PROVE  \A i \in 1..Len(s) : s[i] = t[i]
<1> DEFINE n == Len(s)
           l == SubSeq(s, 1, n)
           r == SubSeq(t, 1, n)
<1>1. n \in Nat /\ n <= Len(t) /\ l = r
  BY DEF IsPrefix
<1>2. Len(t) \in Nat /\ \A i \in 1..n : i \in 1..Len(t)
  BY <1>1
<1>3. \A i \in 1..n : l[i] = s[i] /\ r[i] = t[i]
  BY <1>1, <1>2
<1> HIDE DEF l, r
<1> QED
  BY <1>1, <1>3

LEMMA PrefixByPoints ==
  ASSUME NEW S, NEW s \in Seq(S), NEW t \in Seq(S), Len(s) <= Len(t),
         \A i \in 1..Len(s) : s[i] = t[i]
  PROVE  IsPrefix(s, t)
<1> DEFINE n == Len(s)
           r == SubSeq(t, 1, n)
<1>1. n \in Nat /\ n <= Len(t) /\ Len(t) \in Nat /\ SubSeq(s, 1, n) = s
  OBVIOUS
<1>2. r \in Seq(S) /\ Len(r) = n
  BY <1>1
<1>3. \A i \in 1..n : r[i] = t[i]
  BY <1>1
<1> HIDE DEF r
<1>4. r = s
  BY <1>1, <1>2, <1>3, SeqEqual
<1> QED
  BY <1>1, <1>4 DEF IsPrefix, r
==============================================================================
