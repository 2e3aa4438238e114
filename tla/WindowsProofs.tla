---------------------------- MODULE WindowsProofs ----------------------------
(***************************************************************************)
(* The properties of Windows, for terminals of any height, any number of   *)
(* windows, any set of buffers, and answers and excursions nested to any   *)
(* depth.                                                                  *)
(*                                                                         *)
(* None is inductive: to know that the window and the buffer that a        *)
(* command goes to exist, one needs the distinct numbers of the windows,   *)
(* the chain of buffers that ends in the minibuffer (Fine), what every     *)
(* open answer and excursion has recorded (Stacked), and that at top level *)
(* the minibuffer is at the bottom and not current (Quiet).                *)
(*                                                                         *)
(* The loops of the code are recursive functions on numbers.  A loop is    *)
(* given as the set of states that may stand after each of its rounds, and *)
(* Stepwise and Iterated carry it through them.                            *)
(*                                                                         *)
(* What a command does to windows and their places is told as adding       *)
(* windows or taking some away with all others in place (More, Fewer),     *)
(* and then tying some to other buffers (Loyal); together Calm.            *)
(***************************************************************************)
EXTENDS Windows, DataFacts

LEMMA Stepwise ==
  ASSUME NEW n \in Nat, NEW S, NEW g, g[0] \in S[0],
         \A i \in 1..n : g[i - 1] \in S[i - 1] => g[i] \in S[i]
  PROVE  \A i \in 0..n : g[i] \in S[i]
<1> DEFINE T == { i \in 0..n : g[i] \notin S[i] }
<1> SUFFICES ASSUME T # {} PROVE FALSE
  OBVIOUS
<1>1. T \in SUBSET Nat
  OBVIOUS
<1>2. PICK i \in T : \A m \in T : i <= m
  BY <1>1, NatMin
<1>3. i \in 0..n /\ g[i] \notin S[i] /\ i # 0
  OBVIOUS
<1>4. i \in 1..n /\ i - 1 \in 0..n /\ i - 1 \notin T
  BY <1>2, <1>3
<1> QED
  BY <1>3, <1>4

On(f, n) == f = [ i \in 0..n |-> f[i] ]

(* The steps of a loop: step[i] takes the set S[i - 1] to S[i].            *)
Leads(step, S, n) == \A i \in 1..n : \A t \in S[i - 1] : step[i][t] \in S[i]

LEMMA Iterated ==
  ASSUME NEW n \in Nat, NEW S, NEW s \in S[0], NEW step, Leads(step, S, n)
  PROVE  \E f : /\ On(f, n) /\ f[0] = s
                /\ \A i \in 1..n : f[i] = step[i][f[i - 1]]
                /\ \A i \in 0..n : f[i] \in S[i]
<1> DEFINE Part(f, k) == f = [ i \in 0..n |-> IF i = 0 THEN s
                                              ELSE IF i > k THEN s ELSE step[i][f[i - 1]] ]
           T == { k \in 0..n : ~ \E f : Part(f, k) }
<1>1. T = {}
  <2> SUFFICES ASSUME T # {} PROVE FALSE
    OBVIOUS
  <2>1. T \in SUBSET Nat
    OBVIOUS
  <2>2. PICK k \in T : \A m \in T : k <= m
    BY <2>1, NatMin
  <2>3. k \in 0..n /\ ~ \E f : Part(f, k)
    OBVIOUS
  <2>4. k # 0
    <3> DEFINE f == [ i \in 0..n |-> s ]
    <3>1. Part(f, 0)
      OBVIOUS
    <3> QED
      BY <2>3, <3>1
  <2>5. k - 1 \in 0..n /\ k - 1 \in Nat
    BY <2>3, <2>4
  <2>a. k - 1 \notin T
    <3> HIDE DEF T
    <3> QED
      BY <2>1, <2>2, <2>5
  <2>6. PICK f : Part(f, k - 1)
    <3> HIDE DEF Part
    <3> QED
      BY <2>5, <2>a
  <2> DEFINE g == [ i \in 0..n |-> IF i = k THEN step[k][f[k - 1]] ELSE f[i] ]
  <2>7. Part(g, k)
    <3>1. \A i \in 0..n : i > 0 /\ i <= k => g[i - 1] = f[i - 1]
      BY <2>3
    <3>2. \A i \in 0..n : f[i] = IF i = 0 THEN s
                                 ELSE IF i > k - 1 THEN s ELSE step[i][f[i - 1]]
      BY <2>6
    <3>3. ASSUME NEW i \in 0..n
          PROVE  g[i] = IF i = 0 THEN s ELSE IF i > k THEN s ELSE step[i][g[i - 1]]
      <4>1. CASE i = 0
        BY <2>3, <2>4, <3>2, <4>1
      <4>2. CASE i > k
        BY <2>3, <2>4, <3>2, <4>2
      <4>3. CASE i = k
        BY <2>3, <2>4, <3>1, <4>3
      <4>4. CASE i > 0 /\ i < k
        BY <2>3, <3>1, <3>2, <4>4
      <4> QED
        BY <2>3, <4>1, <4>2, <4>3, <4>4
    <3> HIDE DEF g
    <3>4. g = [ i \in 0..n |-> g[i] ]
      BY DEF g
    <3> QED
      BY <3>3, <3>4
  <2> QED
    BY <2>3, <2>7
<1>2. PICK f : Part(f, n)
  BY <1>1
<1>3. f = [ i \in 0..n |-> IF i = 0 THEN s ELSE step[i][f[i - 1]] ]
  <2>1. \A i \in 0..n : ~(i > n)
    OBVIOUS
  <2> QED
    BY <1>2, <2>1
<1>4. f[0] = s /\ \A i \in 1..n : f[i] = step[i][f[i - 1]]
  BY <1>3
<1>5. \A i \in 0..n : f[i] \in S[i]
  <2>1. \A i \in 1..n : f[i - 1] \in S[i - 1] => f[i] \in S[i]
    BY <1>4 DEF Leads
  <2> QED
    BY <1>4, <2>1, Stepwise
<1>6. On(f, n)
  BY <1>3 DEF On
<1> QED
  BY <1>4, <1>5, <1>6

(***************************************************************************)
(* The largest of the numbers of a list.                                   *)
(***************************************************************************)
LEMMA MaxOfImage ==
  ASSUME NEW n \in Nat \ {0}, NEW f \in [ 1..n -> Int ]
  PROVE  LET T == { f[i] : i \in 1..n }
         IN  Max(T) \in T /\ \A i \in 1..n : f[i] <= Max(T)
<1> DEFINE T == { f[i] : i \in 1..n }
           Top(k, m) == m \in 1..k /\ \A i \in 1..k : f[i] <= f[m]
           L == { k \in 1..n : ~ \E m : Top(k, m) }
<1>1. L = {}
  <2> SUFFICES ASSUME L # {} PROVE FALSE
    OBVIOUS
  <2>1. L \in SUBSET Nat
    OBVIOUS
  <2>2. PICK k \in L : \A m \in L : k <= m
    BY <2>1, NatMin
  <2>3. k \in 1..n /\ ~ \E m : Top(k, m)
    OBVIOUS
  <2>4. k # 1
    <3>1. Top(1, 1)
      OBVIOUS
    <3> QED
      BY <2>3, <3>1
  <2>5. k - 1 \in 1..n
    BY <2>3, <2>4
  <2>6. k - 1 \notin L
    <3> HIDE DEF L
    <3> QED
      BY <2>1, <2>2, <2>5
  <2>7. PICK m : Top(k - 1, m)
    <3> HIDE DEF Top
    <3> QED
      BY <2>5, <2>6
  <2>8. m \in 1..n /\ f[m] \in Int /\ f[k] \in Int
    BY <2>3, <2>5, <2>7
  <2>9. CASE f[k] <= f[m]
    <3>1. Top(k, m)
      BY <2>3, <2>7, <2>9
    <3> QED
      BY <2>3, <3>1
  <2>10. CASE f[m] <= f[k]
    <3>1. Top(k, k)
      <4>1. \A i \in 1..(k - 1) : f[i] \in Int /\ f[i] <= f[m]
        BY <2>3, <2>7
      <4>2. \A i \in 1..(k - 1) : f[i] <= f[k]
        BY <4>1, <2>8, <2>10
      <4> QED
        BY <2>3, <2>8, <4>2
    <3> QED
      BY <2>3, <3>1
  <2> QED
    BY <2>8, <2>9, <2>10
<1>2. PICK m : Top(n, m)
  <2>1. n \in 1..n /\ n \notin L
    BY <1>1
  <2> HIDE DEF Top
  <2> QED
    BY <2>1
<1>3. f[m] \in T /\ \A y \in T : f[m] >= y
  BY <1>2
<1>4. Max(T) \in T /\ \A y \in T : Max(T) >= y
  <2> HIDE DEF T
  <2> QED
    BY <1>3 DEF Max
<1>5. Max(T) \in Int
  BY <1>4
<1>6. \A i \in 1..n : f[i] \in T /\ f[i] \in Int
  OBVIOUS
<1> QED
  BY <1>4, <1>5, <1>6

(* A list of windows, and the state of the screen. *)
Win    == [ id : Nat, buf : Buffers, height : Int, use : Nat, dot : Int ]
Screen == [ wins : Seq(Win), cur : Nat, bf : Buffers \cup {0}, dot : Int,
            eph : [ Buffers -> Int ], list : Seq(Buffers) ]

(* Windows have different numbers, the chain of buffers ends in minibuf.   *)
Distinct(wins) == \A i, j \in 1..Len(wins) : wins[i].id = wins[j].id => i = j
Chained(list)  == /\ Len(list) > 0 /\ list[Len(list)] = minibuf
                  /\ \A i, j \in 1..Len(list) : list[i] = list[j] => i = j

Fine(s) == /\ s \in Screen /\ Len(s.wins) >= 2 /\ s.cur \in 1..Len(s.wins)
           /\ Distinct(s.wins) /\ Chained(s.list)

(* The same windows on the same buffers, of the same height. *)
Alike(v, w)  == v.id = w.id /\ v.buf = w.buf /\ v.height = w.height
SameWins(v, w) == Len(v) = Len(w) /\ \A i \in 1..Len(v) : Alike(v[i], w[i])
Same(s, t)   == SameWins(s.wins, t.wins) /\ t.list = s.list

LEMMA FineFields ==
  ASSUME NEW s, Fine(s)
  PROVE  /\ s.wins \in Seq(Win) /\ Len(s.wins) \in Nat /\ Len(s.wins) >= 2
         /\ s.cur \in 1..Len(s.wins) /\ s.bf \in Buffers \cup {0} /\ s.dot \in Int
         /\ s.eph \in [ Buffers -> Int ] /\ s.list \in Seq(Buffers) /\ Len(s.list) \in Nat
<1>1. s \in Screen
  BY DEF Fine
<1> QED
  BY <1>1 DEF Fine, Screen

LEMMA WinFields ==
  ASSUME NEW s, Fine(s), NEW i \in 1..Len(s.wins)
  PROVE  /\ s.wins[i] \in Win /\ s.wins[i].id \in Nat /\ s.wins[i].buf \in Buffers
         /\ s.wins[i].height \in Int /\ s.wins[i].use \in Nat /\ s.wins[i].dot \in Int
<1>1. s.wins[i] \in Win
  BY FineFields
<1> QED
  BY <1>1 DEF Win

LEMMA SameFine ==
  ASSUME NEW s, Fine(s), NEW t \in Screen, Same(s, t), t.cur \in 1..Len(t.wins)
  PROVE  Fine(t)
BY DEF Fine, Same, SameWins, Alike, Distinct

LEMMA NoBuffer ==
  ASSUME NEW s, Fine(s)
  PROVE  Deleted(s, 0)
BY BuffersAssumption, FineFields DEF Deleted, Contains

(* One window is changed. *)
LEMMA Changed ==
  ASSUME NEW s, Fine(s), NEW w \in 1..Len(s.wins), NEW e \in Win, e.id = s.wins[w].id
  PROVE  LET x == [ s EXCEPT !.wins[w] = e ]
         IN  /\ Fine(x) /\ Len(x.wins) = Len(s.wins)
             /\ \A i \in 1..Len(s.wins) : x.wins[i] = IF i = w THEN e ELSE s.wins[i]
             /\ x.cur = s.cur /\ x.bf = s.bf /\ x.dot = s.dot
             /\ x.eph = s.eph /\ x.list = s.list
<1> DEFINE x == [ s EXCEPT !.wins[w] = e ]
           v == [ s.wins EXCEPT ![w] = e ]
<1>1. s \in Screen /\ s.wins \in Seq(Win)
  BY FineFields DEF Fine
<1>2. /\ v \in Seq(Win) /\ Len(v) = Len(s.wins)
      /\ \A i \in 1..Len(s.wins) : v[i] = IF i = w THEN e ELSE s.wins[i]
  BY <1>1, ExceptSeq
<1>3. /\ x.wins = v /\ x.cur = s.cur /\ x.bf = s.bf /\ x.dot = s.dot
      /\ x.eph = s.eph /\ x.list = s.list
  BY <1>1 DEF Screen
<1>4. x = [ s EXCEPT !.wins = v ]
  BY <1>1 DEF Screen
<1> HIDE DEF v
<1>5. x \in Screen
  BY <1>1, <1>2, <1>4 DEF Screen
<1> HIDE DEF x
<1>6. Distinct(x.wins)
  BY <1>2, <1>3 DEF Fine, Distinct
<1> QED
  BY <1>2, <1>3, <1>5, <1>6, FineFields DEF Fine, x

LEMMA DotStored ==
  ASSUME NEW s, Fine(s), NEW w \in 1..Len(s.wins), NEW d \in Int
  PROVE  LET x == [ s EXCEPT !.wins[w].dot = d ]
         IN  /\ Fine(x) /\ Same(s, x) /\ x.cur = s.cur /\ x.bf = s.bf /\ x.dot = s.dot
             /\ x.eph = s.eph /\ x.wins[w].dot = d
             /\ \A i \in 1..Len(s.wins) : i # w => x.wins[i] = s.wins[i]
<1> DEFINE c == [ s.wins[w] EXCEPT !.dot = d ]
           x == [ s EXCEPT !.wins[w] = c ]
<1>1. s.wins[w] \in Win
  BY WinFields
<1>2. c \in Win /\ Alike(s.wins[w], c) /\ c.dot = d
  BY <1>1 DEF Win, Alike
<1>3. [ s EXCEPT !.wins[w].dot = d ] = x
  OBVIOUS
<1> HIDE DEF c
<1>4. /\ Fine(x) /\ Len(x.wins) = Len(s.wins)
      /\ \A i \in 1..Len(s.wins) : x.wins[i] = IF i = w THEN c ELSE s.wins[i]
      /\ x.cur = s.cur /\ x.bf = s.bf /\ x.dot = s.dot /\ x.eph = s.eph /\ x.list = s.list
  BY <1>2, Changed DEF Alike
<1> HIDE DEF x
<1>5. Same(s, x)
  BY <1>2, <1>4 DEF Same, SameWins, Alike
<1> QED
  BY <1>2, <1>3, <1>4, <1>5

LEMMA UseStored ==
  ASSUME NEW s, Fine(s), NEW w \in 1..Len(s.wins), NEW u \in Nat
  PROVE  LET x == [ s EXCEPT !.wins[w].use = u ]
         IN  /\ Fine(x) /\ Same(s, x) /\ x.cur = s.cur /\ x.bf = s.bf /\ x.dot = s.dot
             /\ x.eph = s.eph /\ \A i \in 1..Len(s.wins) : x.wins[i].dot = s.wins[i].dot
<1> DEFINE c == [ s.wins[w] EXCEPT !.use = u ]
           x == [ s EXCEPT !.wins[w] = c ]
<1>1. s.wins[w] \in Win
  BY WinFields
<1>2. c \in Win /\ Alike(s.wins[w], c) /\ c.dot = s.wins[w].dot
  BY <1>1 DEF Win, Alike
<1>3. [ s EXCEPT !.wins[w].use = u ] = x
  OBVIOUS
<1> HIDE DEF c
<1>4. /\ Fine(x) /\ Len(x.wins) = Len(s.wins)
      /\ \A i \in 1..Len(s.wins) : x.wins[i] = IF i = w THEN c ELSE s.wins[i]
      /\ x.cur = s.cur /\ x.bf = s.bf /\ x.dot = s.dot /\ x.eph = s.eph /\ x.list = s.list
  BY <1>2, Changed DEF Alike
<1> HIDE DEF x
<1>5. Same(s, x) /\ \A i \in 1..Len(s.wins) : x.wins[i].dot = s.wins[i].dot
  BY <1>2, <1>4 DEF Same, SameWins, Alike
<1> QED
  BY <1>3, <1>4, <1>5

LEMMA SameSelf ==
  ASSUME NEW s, Fine(s)
  PROVE  Same(s, s)
BY FineFields DEF Same, SameWins, Alike

LEMMA SameTrans ==
  ASSUME NEW s, NEW t, NEW u, Same(s, t), Same(t, u)
  PROVE  Same(s, u)
BY DEF Same, SameWins, Alike

LEMMA SameDeleted ==
  ASSUME NEW s, NEW t, Same(s, t), NEW b
  PROVE  Deleted(s, b) <=> Deleted(t, b)
BY DEF Same, Deleted

(* Window j of t is window i of s, on the same buffer, at the same place.  *)
SamePlace(s, i, t, j) == /\ t.wins[j].id = s.wins[i].id /\ t.wins[j].buf = s.wins[i].buf
                         /\ Place(t, j) = Place(s, i)

(* The same windows on the same buffers at the same places.                *)
Still(s, t) == /\ Len(t.wins) = Len(s.wins)
               /\ \A i \in 1..Len(s.wins) : SamePlace(s, i, t, i)

LEMMA StillSelf ==
  ASSUME NEW s
  PROVE  Still(s, s)
BY DEF Still, SamePlace

LEMMA StillTrans ==
  ASSUME NEW s, NEW t, NEW u, Still(s, t), Still(t, u)
  PROVE  Still(s, u)
BY DEF Still, SamePlace

LEMMA StillSame ==
  ASSUME NEW s, NEW t, Same(s, t), \A i \in 1..Len(s.wins) : Place(t, i) = Place(s, i)
  PROVE  Still(s, t)
BY DEF Still, SamePlace, Same, SameWins, Alike

(* Each window of t is one of s, on the same buffer at the same place.     *)
Fewer(s, t) == \A j \in 1..Len(t.wins) : \E i \in 1..Len(s.wins) : SamePlace(s, i, t, j)

LEMMA FewerSelf ==
  ASSUME NEW s
  PROVE  Fewer(s, s)
BY DEF Fewer, SamePlace

LEMMA FewerTrans ==
  ASSUME NEW s, NEW t, NEW u, Fewer(s, t), Fewer(t, u)
  PROVE  Fewer(s, u)
BY DEF Fewer, SamePlace

(* Each window of s is one of t, on the same buffer at the same place.     *)
More(s, t) == \A i \in 1..Len(s.wins) : \E j \in 1..Len(t.wins) : SamePlace(s, i, t, j)

LEMMA MoreTrans ==
  ASSUME NEW s, NEW t, NEW u, More(s, t), More(t, u)
  PROVE  More(s, u)
BY DEF More, SamePlace

LEMMA StillMore ==
  ASSUME NEW s, NEW t, Still(s, t)
  PROVE  More(s, t) /\ Fewer(s, t)
BY DEF Still, More, Fewer

(* The same windows; those on the same buffers are at the same places.     *)
Loyal(s, t) ==
  /\ Len(t.wins) = Len(s.wins)
  /\ \A i \in 1..Len(s.wins) :
       /\ t.wins[i].id = s.wins[i].id
       /\ t.wins[i].buf = s.wins[i].buf => Place(t, i) = Place(s, i)

LEMMA StillLoyal ==
  ASSUME NEW s, NEW t, Still(s, t)
  PROVE  Loyal(s, t)
BY DEF Still, Loyal, SamePlace

LEMMA LoyalStill ==
  ASSUME NEW s, NEW t, NEW u, Loyal(s, t), Still(t, u)
  PROVE  Loyal(s, u)
BY DEF Still, Loyal, SamePlace

LEMMA StillThenLoyal ==
  ASSUME NEW s, NEW t, NEW u, Still(s, t), Loyal(t, u)
  PROVE  Loyal(s, u)
BY DEF Still, Loyal, SamePlace

(* What a command does to the windows: some are added or some removed, and *)
(* then some are tied to other buffers.                                    *)
Calm(s, t) == \E a : Fine(a) /\ (More(s, a) \/ Fewer(s, a)) /\ Loyal(a, t)

LEMMA StillCalm ==
  ASSUME NEW s, Fine(s), NEW t, Still(s, t)
  PROVE  Calm(s, t)
BY StillSelf, StillMore, StillLoyal DEF Calm

LEMMA CalmStill ==
  ASSUME NEW s, NEW t, NEW u, Calm(s, t), Still(t, u)
  PROVE  Calm(s, u)
BY LoyalStill DEF Calm

LEMMA StillThenCalm ==
  ASSUME NEW s, NEW t, NEW u, Still(s, t), Calm(t, u)
  PROVE  Calm(s, u)
BY StillMore, MoreTrans, FewerTrans DEF Calm

(* The places of the windows that have stayed on their buffers.            *)
Steady(s, t) == \A i \in 1..Len(s.wins) : \A j \in 1..Len(t.wins) :
                  (s.wins[i].id = t.wins[j].id /\ s.wins[i].buf = t.wins[j].buf)
                    => Place(s, i) = Place(t, j)

LEMMA CalmSteady ==
  ASSUME NEW s, Fine(s), NEW t, Calm(s, t)
  PROVE  Steady(s, t)
<1>1. PICK a : Fine(a) /\ (More(s, a) \/ Fewer(s, a)) /\ Loyal(a, t)
  BY DEF Calm
<1>2. SUFFICES ASSUME NEW i \in 1..Len(s.wins), NEW j \in 1..Len(t.wins),
                      s.wins[i].id = t.wins[j].id, s.wins[i].buf = t.wins[j].buf
               PROVE  Place(s, i) = Place(t, j)
  BY DEF Steady
<1>3. /\ j \in 1..Len(a.wins) /\ t.wins[j].id = a.wins[j].id
      /\ t.wins[j].buf = a.wins[j].buf => Place(t, j) = Place(a, j)
  BY <1>1 DEF Loyal
<1>4. CASE More(s, a)
  <2>1. PICK k \in 1..Len(a.wins) : SamePlace(s, i, a, k)
    BY <1>4 DEF More
  <2>2. k = j
    BY <1>1, <1>2, <1>3, <2>1 DEF Fine, Distinct, SamePlace
  <2> QED
    BY <1>2, <1>3, <2>1, <2>2 DEF SamePlace
<1>5. CASE Fewer(s, a)
  <2>1. PICK k \in 1..Len(s.wins) : SamePlace(s, k, a, j)
    BY <1>3, <1>5 DEF Fewer
  <2>2. k = i
    BY <1>2, <1>3, <2>1 DEF Fine, Distinct, SamePlace
  <2> QED
    BY <1>2, <1>3, <2>1, <2>2 DEF SamePlace
<1> QED
  BY <1>1, <1>4, <1>5

LEMMA Entered ==
  ASSUME NEW s, Fine(s), NEW p \in Buffers \cup {0}
  PROVE  LET x == [ s EXCEPT !.bf = p ]
         IN  /\ Fine(x) /\ x.wins = s.wins /\ x.cur = s.cur /\ x.list = s.list
             /\ x.eph = s.eph /\ x.bf = p /\ x.dot = s.dot
<1> DEFINE x == [ s EXCEPT !.bf = p ]
<1>1. s \in Screen
  BY DEF Fine
<1>2. /\ x \in Screen /\ x.wins = s.wins /\ x.cur = s.cur /\ x.list = s.list
      /\ x.eph = s.eph /\ x.bf = p /\ x.dot = s.dot
  BY <1>1 DEF Screen
<1> HIDE DEF x
<1> QED
  BY <1>2 DEF Fine, x

LEMMA Aimed ==
  ASSUME NEW s, Fine(s), NEW d \in Int
  PROVE  LET x == [ s EXCEPT !.dot = d ]
         IN  /\ Fine(x) /\ x.wins = s.wins /\ x.cur = s.cur /\ x.list = s.list
             /\ x.eph = s.eph /\ x.bf = s.bf /\ x.dot = d
<1> DEFINE x == [ s EXCEPT !.dot = d ]
<1>1. s \in Screen
  BY DEF Fine
<1>2. /\ x \in Screen /\ x.wins = s.wins /\ x.cur = s.cur /\ x.list = s.list
      /\ x.eph = s.eph /\ x.bf = s.bf /\ x.dot = d
  BY <1>1 DEF Screen
<1> HIDE DEF x
<1> QED
  BY <1>2 DEF Fine, x

(* The dot of the buffer that is left is stored. *)
LEMMA LeftFine ==
  ASSUME NEW s, Fine(s), s.bf # 0
  PROVE  LET x == [ s EXCEPT !.eph[s.bf] = s.dot,
                             !.wins[s.cur].dot = IF s.bf = Current(s).buf THEN s.dot ELSE @ ]
         IN  /\ Fine(x) /\ Same(s, x) /\ x.cur = s.cur /\ x.bf = s.bf /\ x.dot = s.dot
             /\ \A i \in 1..Len(s.wins) : x.wins[i].dot = Place(s, i)
<1> DEFINE y == [ s EXCEPT !.eph[s.bf] = s.dot ]
           d == IF s.bf = Current(s).buf THEN s.dot ELSE s.wins[s.cur].dot
           x == [ y EXCEPT !.wins[s.cur].dot = d ]
<1>1. s \in Screen /\ s.bf \in Buffers /\ s.dot \in Int /\ s.cur \in 1..Len(s.wins)
      /\ s.eph \in [ Buffers -> Int ]
  BY FineFields
     DEF Fine
<1>2. /\ y \in Screen /\ y.wins = s.wins /\ y.cur = s.cur /\ y.list = s.list
      /\ y.bf = s.bf /\ y.dot = s.dot
  BY <1>1 DEF Screen
<1>3. [ s EXCEPT !.eph[s.bf] = s.dot,
                 !.wins[s.cur].dot = IF s.bf = Current(s).buf THEN s.dot ELSE @ ] = x
  BY <1>1, <1>2 DEF Screen
<1>4. d \in Int
  BY <1>1, WinFields
<1>5. Fine(y) /\ s.cur \in 1..Len(y.wins)
  BY <1>1, <1>2 DEF Fine
<1>d. d = Place(s, s.cur) /\ \A i \in 1..Len(s.wins) : i # s.cur => Place(s, i) = s.wins[i].dot
  BY DEF Place, Current
<1> DEFINE c == s.cur
<1> HIDE DEF y, d, c
<1>6. /\ Fine(x) /\ Same(y, x) /\ x.cur = y.cur /\ x.bf = y.bf /\ x.dot = y.dot
      /\ x.wins[s.cur].dot = d
      /\ \A i \in 1..Len(y.wins) : i # s.cur => x.wins[i] = y.wins[i]
  BY <1>4, <1>5, DotStored DEF c
<1> HIDE DEF x
<1>7. \A i \in 1..Len(s.wins) : x.wins[i].dot = Place(s, i)
  BY <1>2, <1>6, <1>d
<1> QED
  BY <1>2, <1>3, <1>6, <1>7 DEF Same

LEMMA SetBfpFine ==
  ASSUME NEW s, Fine(s), NEW p \in Buffers \cup {0}
  PROVE  LET t == SetBfp(s, p)
         IN  /\ Fine(t) /\ Same(s, t) /\ t.cur = s.cur
             /\ Deleted(s, p) => t = s
             /\ ~Deleted(s, p) => /\ t.bf = p
                                  /\ \A i \in 1..Len(s.wins) : Place(t, i) = t.wins[i].dot
             /\ Still(s, t)
<1>1. CASE Deleted(s, p)
  BY <1>1, SameSelf, StillSelf DEF SetBfp
<1>2. CASE ~Deleted(s, p)
  <2> DEFINE left == IF s.bf = 0 THEN s
                     ELSE [ s EXCEPT !.eph[s.bf] = s.dot,
                                     !.wins[s.cur].dot =
                                        IF s.bf = Current(s).buf THEN s.dot ELSE @ ]
             d == IF p = Current(left).buf THEN Current(left).dot ELSE left.eph[p]
             x == [ left EXCEPT !.bf = p ]
             t == [ x EXCEPT !.dot = d ]
  <2>1. SetBfp(s, p) = t
    BY <1>2 DEF SetBfp
  <2>2. /\ Fine(left) /\ Same(s, left) /\ left.cur = s.cur
        /\ \A i \in 1..Len(s.wins) : left.wins[i].dot = Place(s, i)
    <3>1. CASE s.bf = 0
      <4>1. \A i \in 1..Len(s.wins) : s.wins[i].buf # 0
        BY WinFields, BuffersAssumption
      <4> QED
        BY <3>1, <4>1, SameSelf DEF Place
    <3>2. CASE s.bf # 0
      <4> DEFINE y == [ s EXCEPT !.eph[s.bf] = s.dot,
                                 !.wins[s.cur].dot =
                                    IF s.bf = Current(s).buf THEN s.dot ELSE @ ]
      <4>1. left = y
        BY <3>2
      <4>2. /\ Fine(y) /\ Same(s, y) /\ y.cur = s.cur
            /\ \A i \in 1..Len(s.wins) : y.wins[i].dot = Place(s, i)
        BY <3>2, LeftFine
      <4> HIDE DEF y, left
      <4> QED
        BY <4>1, <4>2
    <3> QED
      BY <3>1, <3>2
  <2>3. p \in Buffers
    BY <1>2, NoBuffer
  <2> HIDE DEF left
  <2>4. d \in Int
    BY <2>2, <2>3, FineFields, WinFields DEF Current
  <2>d. p = left.wins[left.cur].buf => d = left.wins[left.cur].dot
    BY DEF Current
  <2> HIDE DEF d
  <2>5. Fine(x) /\ x.wins = left.wins /\ x.cur = left.cur /\ x.list = left.list /\ x.bf = p
    BY <2>2, <2>3, Entered
  <2> HIDE DEF x
  <2>6. /\ Fine(t) /\ t.wins = x.wins /\ t.cur = x.cur /\ t.list = x.list /\ t.bf = x.bf
        /\ t.dot = d
    BY <2>4, <2>5, Aimed
  <2> HIDE DEF t
  <2>7. \A i \in 1..Len(s.wins) : Place(t, i) = t.wins[i].dot
    BY <2>5, <2>6, <2>d DEF Place
  <2>8. Same(s, t)
    BY <2>2, <2>5, <2>6 DEF Same
  <2>9. Still(s, t)
    BY <2>2, <2>5, <2>6, <2>7, <2>8, StillSame
  <2> QED
    BY <1>2, <2>1, <2>2, <2>5, <2>6, <2>7, <2>8, <2>9
<1> QED
  BY <1>1, <1>2

LEMMA GotoFine ==
  ASSUME NEW s, Fine(s), NEW b \in Buffers \cup {0}
  PROVE  LET t == Goto(s, b)
         IN  /\ Fine(t) /\ Same(s, t) /\ t.cur = s.cur
             /\ ~Deleted(s, b) => t.bf = b
             /\ t.bf \in {s.bf, b} /\ (s.bf # 0 => t.bf # 0) /\ Still(s, t)
<1>1. CASE s.bf = b
  BY <1>1, SameSelf, StillSelf DEF Goto
<1>2. CASE s.bf # b
  BY <1>2, SetBfpFine, NoBuffer DEF Goto
<1> QED
  BY <1>1, <1>2

Marker == [ buf : Buffers, dot : Int ]

LEMMA ClipFine ==
  ASSUME NEW s, NEW pos \in Int
  PROVE  Clip(s, pos) \in Int
BY DEF Clip

LEMMA ToMarkFine ==
  ASSUME NEW s, Fine(s), NEW m, m.buf \in Buffers, m.dot \in Int
  PROVE  LET t == ToMark(s, m)
         IN  /\ Fine(t) /\ Same(s, t) /\ t.cur = s.cur
             /\ ~Deleted(s, m.buf) => t.bf = m.buf /\ t.dot = m.dot
             /\ (s.bf # 0 => t.bf # 0)
<1> DEFINE t == Goto(s, m.buf)
           d == IF t.bf = m.buf THEN m.dot ELSE Clip(t, m.dot)
           u == [ t EXCEPT !.dot = d ]
<1>1. /\ Fine(t) /\ Same(s, t) /\ t.cur = s.cur
      /\ ~Deleted(s, m.buf) => t.bf = m.buf
      /\ (s.bf # 0 => t.bf # 0)
  BY GotoFine
<1>2. ToMark(s, m) = u
  BY DEF ToMark
<1> HIDE DEF t
<1>3. d \in Int
  BY ClipFine
<1>4. ~Deleted(s, m.buf) => d = m.dot
  BY <1>1
<1> HIDE DEF d
<1>5. Fine(u) /\ u.wins = t.wins /\ u.cur = t.cur /\ u.list = t.list /\ u.bf = t.bf /\ u.dot = d
  BY <1>1, <1>3, Aimed
<1> HIDE DEF u
<1> QED
  BY <1>1, <1>2, <1>4, <1>5 DEF Same

LEMMA UseTimeFine ==
  ASSUME NEW s, Fine(s)
  PROVE  UseTime(s) \in Nat
<1> DEFINE f == [ i \in 1..Len(s.wins) |-> s.wins[i].use ]
           n == Len(s.wins)
           T == { f[i] : i \in 1..n }
<1>1. n \in Nat \ {0} /\ f \in [ 1..n -> Int ] /\ \A i \in 1..n : f[i] \in Nat
  BY FineFields, WinFields
<1>2. UseTime(s) = 1 + Max(T)
  BY DEF UseTime
<1> HIDE DEF f, n
<1>3. Max(T) \in T
  BY <1>1, MaxOfImage
<1>4. \A x \in T : x \in Nat
  BY <1>1
<1> HIDE DEF T
<1> QED
  BY <1>2, <1>3, <1>4

LEMMA SetWinFine ==
  ASSUME NEW s, Fine(s), NEW w \in 1..Len(s.wins)
  PROVE  LET t == SetWin(s, w)
         IN  /\ Fine(t) /\ Same(s, t) /\ t.cur = w
             /\ t.bf = IF Deleted(s, s.wins[w].buf) THEN 0 ELSE s.wins[w].buf
             /\ \A i \in 1..Len(s.wins) :
                  i # s.cur \/ ~Deleted(s, s.wins[w].buf) => SamePlace(s, i, t, i)
<1> DEFINE b == s.wins[w].buf
           u == UseTime(s)
           x == [ s EXCEPT !.wins[w].use = u ]
           t == SetBfp(x, b)
           c == [ t EXCEPT !.cur = w ]
           y == [ c EXCEPT !.bf = 0 ]
           z == SetBfp(y, b)
<1>1. SetWin(s, w) = z
  BY DEF SetWin
<1>2. u \in Nat /\ b \in Buffers
  BY UseTimeFine, WinFields
<1> HIDE DEF u, b
<1>3. /\ Fine(x) /\ Same(s, x) /\ x.cur = s.cur /\ x.bf = s.bf /\ x.dot = s.dot
      /\ \A i \in 1..Len(s.wins) : x.wins[i].dot = s.wins[i].dot
  BY <1>2, UseStored
<1> HIDE DEF x
<1>b. Still(s, x)
  BY <1>3, StillSame DEF Place, Same, SameWins, Alike
<1>4. /\ Fine(t) /\ Same(x, t) /\ t.cur = x.cur /\ Still(x, t)
      /\ ~Deleted(x, b) => \A i \in 1..Len(x.wins) : Place(t, i) = t.wins[i].dot
  BY <1>2, <1>3, SetBfpFine
<1> HIDE DEF t
<1>c. Still(s, t)
  BY <1>4, <1>b, StillTrans
<1>5. t \in Screen /\ w \in 1..Len(t.wins) /\ Len(t.wins) \in Nat
  BY <1>3, <1>4, FineFields DEF Fine, Same, SameWins
<1>6. c \in Screen /\ c.wins = t.wins /\ c.list = t.list /\ c.cur = w
  <2>1. w \in Nat /\ t \in Screen
    BY <1>5
  <2> QED
    BY <2>1 DEF Screen
<1> HIDE DEF c
<1>a. Fine(c)
  BY <1>4, <1>5, <1>6 DEF Fine
<1>7. Fine(y) /\ y.wins = t.wins /\ y.list = t.list /\ y.cur = w /\ y.bf = 0
  BY <1>6, <1>a, Entered, ZenonT(60)
<1> HIDE DEF y
<1>8. Same(s, y)
  BY <1>3, <1>4, <1>7, SameTrans DEF Same
<1>9. /\ Fine(z) /\ Same(y, z) /\ z.cur = w /\ Still(y, z)
      /\ Deleted(y, b) => z = y
      /\ ~Deleted(y, b) => z.bf = b
  BY <1>2, <1>7, SetBfpFine
<1> HIDE DEF z
<1>10. Same(s, z)
  BY <1>8, <1>9, SameTrans
<1>11. Deleted(s, b) <=> Deleted(y, b)
  BY <1>8, SameDeleted
<1>12. ASSUME NEW i \in 1..Len(s.wins), i # s.cur \/ ~Deleted(s, b) PROVE SamePlace(s, i, z, i)
  <2>1. Place(t, i) = t.wins[i].dot
    <3>1. CASE i # s.cur
      BY <1>3, <1>4, <3>1 DEF Place
    <3>2. CASE ~Deleted(s, b)
      <4>1. ~Deleted(x, b) /\ Len(x.wins) = Len(s.wins)
        BY <1>3, <3>2, SameDeleted DEF Same, SameWins
      <4> QED
        BY <1>4, <4>1
    <3> QED
      BY <1>12, <3>1, <3>2
  <2>2. Place(y, i) = t.wins[i].dot
    <3>1. y.wins[i].buf # 0
      BY <1>7, <1>8, WinFields, BuffersAssumption DEF Same, SameWins
    <3> QED
      BY <1>7, <3>1 DEF Place
  <2>3. SamePlace(s, i, t, i) /\ SamePlace(y, i, z, i)
    BY <1>c, <1>8, <1>9 DEF Still, Same, SameWins
  <2> QED
    BY <1>7, <2>1, <2>2, <2>3 DEF SamePlace
<1> QED
  BY <1>1, <1>7, <1>9, <1>10, <1>11, <1>12 DEF b

(***************************************************************************)
(* The chain of buffers.                                                   *)
(***************************************************************************)
LEMMA NewBfFine ==
  ASSUME NEW s, Fine(s), NEW b \in Buffers, Deleted(s, b)
  PROVE  LET t == NewBf(s, b)
         IN  /\ Fine(t) /\ t.wins = s.wins /\ t.cur = s.cur /\ t.bf = s.bf /\ t.dot = s.dot
             /\ t.list = << b >> \o s.list
             /\ \A c : ~Deleted(t, c) <=> c = b \/ ~Deleted(s, c)
<1> DEFINE l == << b >> \o s.list
           x == [ s EXCEPT !.list = l ]
           e == [ x.eph EXCEPT ![b] = 1 ]
           t == [ x EXCEPT !.eph = e ]
<1>1. s \in Screen /\ s.list \in Seq(Buffers) /\ Len(s.list) \in Nat /\ Chained(s.list)
  BY FineFields DEF Fine
<1>2. NewBf(s, b) = t
  BY <1>1 DEF NewBf, Screen
<1>3. /\ l \in Seq(Buffers) /\ Len(l) = Len(s.list) + 1 /\ l[1] = b
      /\ \A i \in 2..Len(l) : l[i] = s.list[i - 1]
      /\ \A i \in 1..Len(s.list) : l[i + 1] = s.list[i]
  BY <1>1, Pushed
<1> HIDE DEF l
<1>a. /\ x \in Screen /\ x.wins = s.wins /\ x.cur = s.cur /\ x.bf = s.bf /\ x.list = l
      /\ x.eph \in [ Buffers -> Int ] /\ x.dot = s.dot
  BY <1>1, <1>3 DEF Screen
<1>b. e \in [ Buffers -> Int ]
  BY <1>a
<1> HIDE DEF x, e
<1>4. /\ t \in Screen /\ t.wins = s.wins /\ t.cur = s.cur /\ t.bf = s.bf /\ t.list = l
      /\ t.dot = s.dot
  BY <1>a, <1>b DEF Screen
<1> HIDE DEF t
<1>5. \A i \in 1..Len(s.list) : s.list[i] # b
  BY DEF Deleted, Contains
<1>6. l[Len(l)] = minibuf
  BY <1>1, <1>3 DEF Chained
<1>7. ASSUME NEW i \in 1..Len(l), NEW j \in 1..Len(l), l[i] = l[j] PROVE i = j
  <2>0. Len(s.list) \in Nat /\ Len(l) = Len(s.list) + 1
    BY <1>1, <1>3
  <2>1. CASE i = 1
    <3>1. j # 1 => l[j] # b
      BY <1>3, <1>5, <2>0
    <3> QED
      BY <1>3, <1>7, <2>1, <3>1
  <2>3. CASE j = 1
    <3>1. i # 1 => l[i] # b
      BY <1>3, <1>5, <2>0
    <3> QED
      BY <1>3, <1>7, <2>3, <3>1
  <2>2. CASE i # 1 /\ j # 1
    <3>1. i - 1 \in 1..Len(s.list) /\ j - 1 \in 1..Len(s.list) /\ s.list[i - 1] = s.list[j - 1]
      BY <1>1, <1>3, <1>7, <2>2
    <3>2. i - 1 = j - 1
      BY <1>1, <3>1 DEF Chained
    <3> QED
      BY <3>2
  <2> QED
    BY <2>1, <2>2, <2>3
<1>8. Chained(l)
  BY <1>1, <1>3, <1>6, <1>7 DEF Chained
<1>9. ASSUME NEW c PROVE ~Deleted(t, c) <=> c = b \/ ~Deleted(s, c)
  <2>1. ASSUME NEW i \in 1..Len(l), l[i] = c PROVE c = b \/ ~Deleted(s, c)
    <3>1. CASE i = 1
      BY <1>3, <2>1, <3>1
    <3>2. CASE i # 1
      <4>1. i - 1 \in 1..Len(s.list) /\ s.list[i - 1] = c
        BY <1>1, <1>3, <2>1, <3>2
      <4> QED
        BY <4>1 DEF Deleted, Contains
    <3> QED
      BY <3>1, <3>2
  <2>2. ASSUME NEW i \in 1..Len(s.list), s.list[i] = c PROVE ~Deleted(t, c)
    <3>1. i + 1 \in 1..Len(l) /\ l[i + 1] = c
      BY <1>1, <1>3, <2>2
    <3> QED
      BY <1>4, <3>1 DEF Deleted, Contains
  <2>3. ~Deleted(t, b)
    <3>1. 1 \in 1..Len(l)
      BY <1>1, <1>3
    <3> QED
      BY <1>3, <1>4, <3>1 DEF Deleted, Contains
  <2> QED
    BY <1>4, <2>1, <2>2, <2>3 DEF Deleted, Contains
<1> QED
  BY <1>2, <1>4, <1>8, <1>9 DEF Fine, l

(***************************************************************************)
(* A window is tied to a buffer.                                           *)
(***************************************************************************)
(* t is s with window w, if not already so, on buffer b.                   *)
Retied(s, w, b, t) ==
  /\ Len(t.wins) = Len(s.wins) /\ t.list = s.list
  /\ t.cur = s.cur /\ t.bf = s.bf /\ t.dot = s.dot
  /\ \A i \in 1..Len(s.wins) : t.wins[i].id = s.wins[i].id /\ t.wins[i].height = s.wins[i].height
  /\ \A i \in 1..Len(s.wins) : i # w => t.wins[i].buf = s.wins[i].buf
  /\ t.wins[w].buf = IF Deleted(s, b) THEN s.wins[w].buf ELSE b
  /\ Loyal(s, t)

LEMMA TieWinFine ==
  ASSUME NEW s, Fine(s), NEW w \in 1..Len(s.wins), NEW b \in Buffers
  PROVE  Fine(TieWin(s, w, b)) /\ Retied(s, w, b, TieWin(s, w, b))
<1>1. CASE s.wins[w].buf = b \/ Deleted(s, b)
  BY <1>1, StillSelf, StillLoyal DEF TieWin, Retied
<1>2. CASE ~(s.wins[w].buf = b \/ Deleted(s, b))
  <2> DEFINE u == UseTime(s)
             d == IF b = s.bf THEN s.dot ELSE s.eph[b]
             e == [ s.wins[w] EXCEPT !.buf = b, !.use = u, !.dot = d ]
             t == [ s EXCEPT !.wins[w] = e ]
  <2>1. [ s EXCEPT !.wins[w].buf = b, !.wins[w].use = u, !.wins[w].dot = d ] = t
    <3>1. s \in Screen /\ s.wins \in Seq(Win) /\ s.wins[w] \in Win
      BY FineFields, WinFields DEF Fine
    <3> HIDE DEF u, d
    <3> QED
      BY <3>1, ZenonT(60) DEF Screen, Win
  <2>2. TieWin(s, w, b) = t
    BY <1>2, <2>1 DEF TieWin
  <2>3. u \in Nat /\ d \in Int /\ s.wins[w] \in Win
    BY UseTimeFine, FineFields, WinFields
  <2> HIDE DEF u, d
  <2>4. e \in Win /\ e.id = s.wins[w].id /\ e.height = s.wins[w].height /\ e.buf = b
    BY <2>3 DEF Win
  <2> HIDE DEF e
  <2>5. /\ Fine(t) /\ Len(t.wins) = Len(s.wins)
        /\ \A i \in 1..Len(s.wins) : t.wins[i] = IF i = w THEN e ELSE s.wins[i]
        /\ t.cur = s.cur /\ t.bf = s.bf /\ t.dot = s.dot /\ t.list = s.list
    BY <2>4, Changed
  <2> HIDE DEF t
  <2>6. Loyal(s, t)
    BY <1>2, <2>4, <2>5 DEF Loyal, Place
  <2> QED
    BY <1>2, <2>2, <2>4, <2>5, <2>6 DEF Retied
<1> QED
  BY <1>1, <1>2

(***************************************************************************)
(* A window is put into the list, or taken out of it.                      *)
(***************************************************************************)
With(v, k, e, t) == /\ Len(t) = Len(v) + 1 /\ t[k] = e
                    /\ \A i \in 1..(k - 1) : t[i] = v[i]
                    /\ \A i \in (k + 1)..(Len(v) + 1) : t[i] = v[i - 1]

LEMMA Inserted ==
  ASSUME NEW S, NEW v \in Seq(S), NEW e \in S, NEW k \in 1..(Len(v) + 1)
  PROVE  InsertAt(v, k, e) \in Seq(S) /\ With(v, k, e, InsertAt(v, k, e))
<1> DEFINE a == SubSeq(v, 1, k - 1)
           c == SubSeq(v, k, Len(v))
           t == a \o << e >> \o c
<1>1. Len(v) \in Nat /\ k \in Nat
  OBVIOUS
<1>2. a \in Seq(S) /\ Len(a) = k - 1 /\ \A i \in 1..(k - 1) : a[i] = v[i]
  BY <1>1, SubSeqProperties
<1>3. c \in Seq(S) /\ Len(c) = Len(v) + 1 - k /\ \A i \in 1..(Len(v) + 1 - k) : c[i] = v[k + i - 1]
  <2>1. \A i \in k..Len(v) : v[i] \in S
    BY <1>1
  <2> QED
    BY <1>1, <2>1, SubSeqProperties
<1>4. InsertAt(v, k, e) = t
  BY DEF InsertAt
<1> HIDE DEF a, c
<1> DEFINE d == << e >> \o c
<1>5. /\ d \in Seq(S) /\ Len(d) = Len(v) + 2 - k /\ d[1] = e
      /\ \A i \in 2..(Len(v) + 2 - k) : d[i] = c[i - 1]
  BY <1>1, <1>3, Pushed
<1>6. t = a \o d
  BY <1>2, <1>3
<1> HIDE DEF t, d
<1>7. /\ t \in Seq(S) /\ Len(t) = Len(v) + 1
      /\ \A i \in 1..(Len(v) + 1) : t[i] = IF i <= k - 1 THEN a[i] ELSE d[i - (k - 1)]
  BY <1>1, <1>2, <1>5, <1>6, ConcatProperties
<1>8. t[k] = e
  BY <1>1, <1>5, <1>7
<1>9. \A i \in 1..(k - 1) : t[i] = v[i]
  BY <1>1, <1>2, <1>7
<1>10. ASSUME NEW i \in (k + 1)..(Len(v) + 1) PROVE t[i] = v[i - 1]
  <2>1. t[i] = d[i - (k - 1)] /\ i - (k - 1) \in 2..(Len(v) + 2 - k)
    BY <1>1, <1>7
  <2>2. d[i - (k - 1)] = c[i - k] /\ i - k \in 1..(Len(v) + 1 - k)
    BY <1>1, <1>5, <2>1
  <2> QED
    BY <1>1, <1>3, <2>1, <2>2
<1> QED
  BY <1>4, <1>7, <1>8, <1>9, <1>10 DEF With

Without(v, k, t) == /\ Len(t) = Len(v) - 1
                    /\ \A i \in 1..(k - 1) : t[i] = v[i]
                    /\ \A i \in k..(Len(v) - 1) : t[i] = v[i + 1]

LEMMA Removed ==
  ASSUME NEW S, NEW v \in Seq(S), NEW k \in 1..Len(v)
  PROVE  RemoveAt(v, k) \in Seq(S) /\ Without(v, k, RemoveAt(v, k))
<1> DEFINE a == SubSeq(v, 1, k - 1)
           c == SubSeq(v, k + 1, Len(v))
           t == a \o c
<1>1. Len(v) \in Nat /\ k \in Nat
  OBVIOUS
<1>2. a \in Seq(S) /\ Len(a) = k - 1 /\ \A i \in 1..(k - 1) : a[i] = v[i]
  BY <1>1, SubSeqProperties
<1>3. c \in Seq(S) /\ Len(c) = Len(v) - k /\ \A i \in 1..(Len(v) - k) : c[i] = v[k + i]
  BY <1>1, SubSeqProperties
<1>4. RemoveAt(v, k) = t
  BY DEF RemoveAt
<1> HIDE DEF a, c
<1>5. /\ t \in Seq(S) /\ Len(t) = Len(v) - 1
      /\ \A i \in 1..(Len(v) - 1) : t[i] = IF i <= k - 1 THEN a[i] ELSE c[i - (k - 1)]
  <2>1. a \in Seq(S) /\ c \in Seq(S) /\ Len(a) + Len(c) = Len(v) - 1
    BY <1>1, <1>2, <1>3
  <2> QED
    <3>1. /\ t \in Seq(S) /\ Len(t) = Len(a) + Len(c)
          /\ \A i \in 1..(Len(a) + Len(c)) : t[i] = IF i <= Len(a) THEN a[i] ELSE c[i - Len(a)]
      BY <2>1, ConcatProperties
    <3> HIDE DEF t
    <3> QED
      BY <1>2, <2>1, <3>1
<1> HIDE DEF t
<1>6. \A i \in 1..(k - 1) : t[i] = v[i]
  BY <1>1, <1>2, <1>5
<1>7. ASSUME NEW i \in k..(Len(v) - 1) PROVE t[i] = v[i + 1]
  <2>1. t[i] = c[i - (k - 1)] /\ i - (k - 1) \in 1..(Len(v) - k)
    BY <1>1, <1>5
  <2> QED
    BY <1>1, <1>3, <2>1
<1> QED
  BY <1>4, <1>5, <1>6, <1>7 DEF Without

(***************************************************************************)
(* The lines of a list of windows.                                         *)
(***************************************************************************)
Upto(wins, f) == /\ f \in [ 0..Len(wins) -> Int ] /\ f[0] = 0
                 /\ \A i \in 1..Len(wins) : f[i] = f[i - 1] + wins[i].height

LEMMA LinesUpto ==
  ASSUME NEW wins \in Seq(Win)
  PROVE  \E f : Upto(wins, f) /\ Lines(wins) = f[Len(wins)]
<1> DEFINE n == Len(wins)
           S == [ i \in 0..n |-> Int ]
           step == [ i \in 1..n |-> [ x \in Int |-> x + wins[i].height ] ]
           Sum(f) == f = [ i \in 0..n |-> IF i = 0 THEN 0 ELSE f[i - 1] + wins[i].height ]
           g == CHOOSE f : Sum(f)
<1>1. n \in Nat /\ \A i \in 1..n : wins[i].height \in Int
  <2>1. \A i \in 1..n : wins[i] \in Win
    OBVIOUS
  <2> QED
    BY <2>1 DEF Win
<1>2. Leads(step, S, n)
  BY <1>1 DEF Leads
<1>3. 0 \in S[0]
  BY <1>1
<1>4. PICK f : /\ On(f, n) /\ f[0] = 0
               /\ \A i \in 1..n : f[i] = step[i][f[i - 1]]
               /\ \A i \in 0..n : f[i] \in S[i]
  <2> HIDE DEF n, S, step
  <2> QED
    BY <1>1, <1>2, <1>3, Iterated
<1>5. \A i \in 1..n : f[i - 1] \in Int
  <2>1. \A i \in 1..n : i - 1 \in 0..n /\ S[i - 1] = Int
    BY <1>1
  <2> HIDE DEF S
  <2> QED
    BY <1>4, <2>1
<1>6. Sum(f)
  <2>1. \A i \in 1..n : step[i][f[i - 1]] = f[i - 1] + wins[i].height
    BY <1>5
  <2>2. f = [ i \in 0..n |-> f[i] ] /\ f[0] = 0
    BY <1>4 DEF On
  <2>3. \A i \in 1..n : f[i] = f[i - 1] + wins[i].height
    BY <1>4, <2>1
  <2>4. \A i \in 0..n : f[i] = IF i = 0 THEN 0 ELSE f[i - 1] + wins[i].height
    <3>1. \A i \in 0..n : i # 0 => i \in 1..n
      BY <1>1
    <3> HIDE DEF n
    <3> QED
      BY <2>2, <2>3, <3>1
  <2> QED
    BY <2>2, <2>4
<1>7. Sum(g)
  <2> HIDE DEF Sum
  <2> QED
    BY <1>6
<1>8. Lines(wins) = g[n]
  BY DEF Lines
<1> HIDE DEF g
<1>9. g[0] = 0 /\ \A i \in 1..n : g[i] = g[i - 1] + wins[i].height
  BY <1>1, <1>7
<1>10. \A i \in 0..n : g[i] \in S[i]
  <2>1. \A i \in 1..n : g[i - 1] \in S[i - 1] => g[i] \in S[i]
    BY <1>1, <1>9
  <2>2. g[0] \in S[0]
    BY <1>3, <1>9
  <2> HIDE DEF S, n
  <2> QED
    BY <1>1, <2>1, <2>2, Stepwise
<1>11. g \in [ 0..n -> Int ]
  BY <1>7, <1>10
<1> QED
  BY <1>8, <1>9, <1>11 DEF Upto

Numbers(f, a, n)     == \A i \in 0..n : f[a + i] \in Int
Steps(f, a, g, b, n) == \A i \in 1..n : f[a + i] - f[a + i - 1] = g[b + i] - g[b + i - 1]

Parallel(f, a, g, b, n) == f[a + n] - g[b + n] = f[a] - g[b]

(* Two sums whose steps are the same differ by as much at the end as at    *)
(* the beginning.                                                          *)
LEMMA SameSteps ==
  ASSUME NEW f, NEW g, NEW a \in Nat, NEW b \in Nat, NEW n \in Nat,
         Numbers(f, a, n), Numbers(g, b, n), Steps(f, a, g, b, n)
  PROVE  Parallel(f, a, g, b, n)
<1> DEFINE d == [ i \in 0..n |-> f[a + i] - g[b + i] ]
           S == [ i \in 0..n |-> {f[a] - g[b]} ]
<1>1. d[0] \in S[0]
  BY DEF d, S
<1>2. ASSUME NEW i \in 1..n, d[i - 1] \in S[i - 1] PROVE d[i] \in S[i]
  <2>1. i - 1 \in 0..n /\ i \in 0..n /\ a + (i - 1) = a + i - 1 /\ b + (i - 1) = b + i - 1
    OBVIOUS
  <2>2. /\ f[a + i - 1] \in Int /\ g[b + i - 1] \in Int /\ f[a + i] \in Int /\ g[b + i] \in Int
    BY <2>1 DEF Numbers
  <2>3. f[a + i - 1] - g[b + i - 1] = f[a] - g[b]
    BY <1>2, <2>1
  <2>4. d[i] = f[a + i] - g[b + i] /\ S[i] = {f[a] - g[b]}
    BY <2>1
  <2>5. f[a + i] - f[a + i - 1] = g[b + i] - g[b + i - 1]
    BY DEF Steps
  <2> HIDE DEF d, S
  <2> QED
    BY <2>2, <2>3, <2>4, <2>5
<1> HIDE DEF d, S
<1>3. \A i \in 0..n : d[i] \in S[i]
  BY <1>1, <1>2, Stepwise
<1> QED
  BY <1>3 DEF d, S, Parallel

LEMMA SameStep ==
  ASSUME NEW a \in Int, NEW b \in Int, NEW c \in Int, NEW d \in Int, NEW h \in Int,
         a = b + h, c = d + h
  PROVE  a - b = c - d
OBVIOUS

(* A list like v but for the height of window k. *)
LEMMA LinesChanged ==
  ASSUME NEW v \in Seq(Win), NEW w \in Seq(Win), Len(w) = Len(v), NEW k \in 1..Len(v),
         \A i \in 1..Len(v) : i # k => w[i].height = v[i].height
  PROVE  Lines(w) = Lines(v) + w[k].height - v[k].height
<1> DEFINE n == Len(v)
           x == w[k].height
           y == v[k].height
<1>1. PICK f : Upto(v, f) /\ Lines(v) = f[Len(v)]
  BY LinesUpto
<1>2. PICK g : Upto(w, g) /\ Lines(w) = g[Len(w)]
  BY LinesUpto
<1>3. n \in Nat /\ k \in Nat /\ k >= 1 /\ k <= n
  OBVIOUS
<1>4. \A i \in 0..n : f[i] \in Int /\ g[i] \in Int
  BY <1>1, <1>2 DEF Upto
<1>5. f[0] = 0 /\ g[0] = 0
  BY <1>1, <1>2 DEF Upto
<1>6. \A i \in 1..n : f[i] = f[i - 1] + v[i].height /\ g[i] = g[i - 1] + w[i].height
  BY <1>1, <1>2 DEF Upto
<1>7. \A i \in 1..n : v[i].height \in Int /\ w[i].height \in Int
  <2>1. \A i \in 1..n : v[i] \in Win /\ w[i] \in Win
    OBVIOUS
  <2> QED
    BY <2>1 DEF Win
<1>8. \A i \in 1..n : i # k => f[i] - f[i - 1] = g[i] - g[i - 1]
  <2> SUFFICES ASSUME NEW i \in 1..n, i # k PROVE f[i] - f[i - 1] = g[i] - g[i - 1]
    OBVIOUS
  <2>1. i \in 0..n /\ i - 1 \in 0..n
    OBVIOUS
  <2>2. f[i] \in Int /\ g[i] \in Int /\ f[i - 1] \in Int /\ g[i - 1] \in Int
    BY <1>4, <2>1
  <2> DEFINE h == v[i].height
  <2>3. h \in Int /\ f[i] = f[i - 1] + h /\ g[i] = g[i - 1] + h
    BY <1>6, <1>7
  <2> HIDE DEF h
  <2> QED
    BY <2>2, <2>3, SameStep
<1>9. Lines(v) = f[n] /\ Lines(w) = g[n]
  BY <1>1, <1>2
<1>x. x \in Int /\ y \in Int
  BY <1>3, <1>7
<1>s. f[k] = f[k - 1] + y /\ g[k] = g[k - 1] + x
  BY <1>3, <1>6
<1> HIDE DEF n, x, y
<1>10. f[k - 1] - g[k - 1] = f[0] - g[0]
  <2>0. 0 \in Nat /\ k - 1 \in Nat /\ 0 + (k - 1) = k - 1
    BY <1>3
  <2>1. Numbers(f, 0, k - 1) /\ Numbers(g, 0, k - 1)
    BY <1>3, <1>4 DEF Numbers
  <2>2. Steps(f, 0, g, 0, k - 1)
    BY <1>3, <1>8 DEF Steps
  <2> DEFINE z == 0
             m == k - 1
  <2>3. Parallel(f, z, g, z, m)
    <3>1. /\ z \in Nat /\ m \in Nat /\ Numbers(f, z, m) /\ Numbers(g, z, m)
          /\ Steps(f, z, g, z, m)
      BY <2>0, <2>1, <2>2
    <3> HIDE DEF z, m
    <3> QED
      BY <3>1, SameSteps
  <2> QED
    BY <2>0, <2>3 DEF Parallel
<1>11. f[n] - g[n] = f[k] - g[k]
  <2>0. n - k \in Nat /\ k + (n - k) = n
    BY <1>3
  <2>1. Numbers(f, k, n - k) /\ Numbers(g, k, n - k)
    BY <1>3, <1>4 DEF Numbers
  <2>2. Steps(f, k, g, k, n - k)
    BY <1>3, <1>8 DEF Steps
  <2> DEFINE m == n - k
  <2>3. Parallel(f, k, g, k, m)
    <3>1. /\ k \in Nat /\ m \in Nat /\ Numbers(f, k, m) /\ Numbers(g, k, m)
          /\ Steps(f, k, g, k, m)
      BY <1>3, <2>0, <2>1, <2>2
    <3> HIDE DEF m
    <3> QED
      BY <3>1, SameSteps
  <2> QED
    BY <2>0, <2>3 DEF Parallel
<1>12. /\ f[k] \in Int /\ g[k] \in Int /\ f[k - 1] \in Int /\ g[k - 1] \in Int
       /\ f[n] \in Int /\ g[n] \in Int
  <2>1. k \in 0..n /\ k - 1 \in 0..n /\ n \in 0..n
    BY <1>3
  <2> QED
    BY <1>4, <2>1
<1>13. f[k - 1] - g[k - 1] = 0
  BY <1>5, <1>10
<1> DEFINE A == f[n]
           B == g[n]
           C == f[k - 1]
           D == g[k - 1]
           E == f[k]
           F == g[k]
<1>14. /\ A \in Int /\ B \in Int /\ C \in Int /\ D \in Int /\ E \in Int /\ F \in Int
       /\ C - D = 0 /\ E = C + y /\ F = D + x /\ A - B = E - F
       /\ Lines(v) = A /\ Lines(w) = B
  BY <1>s, <1>9, <1>11, <1>12, <1>13
<1> HIDE DEF A, B, C, D, E, F
<1>15. B = A + x - y
  BY <1>14, <1>x
<1> QED
  BY <1>14, <1>15 DEF x, y

LEMMA LinesSame ==
  ASSUME NEW v \in Seq(Win), NEW w \in Seq(Win), SameWins(v, w), Len(v) > 0
  PROVE  Lines(w) = Lines(v)
<1>1. 1 \in 1..Len(v) /\ Len(v) \in Nat
  OBVIOUS
<1>2. \A i \in 1..Len(v) : w[i].height = v[i].height
  BY DEF SameWins, Alike
<1>3. Len(w) = Len(v)
  BY DEF SameWins
<1> DEFINE k == 1
<1>4. Lines(w) = Lines(v) + w[k].height - v[k].height
  <2> HIDE DEF k
  <2> QED
    BY <1>1, <1>2, <1>3, LinesChanged DEF k
<1>5. v[1].height \in Int
  <2>1. v[1] \in Win
    BY <1>1
  <2> QED
    BY <2>1 DEF Win
<1>6. Lines(v) \in Int
  <2>1. PICK f : Upto(v, f) /\ Lines(v) = f[Len(v)]
    BY LinesUpto
  <2> QED
    BY <1>1, <2>1 DEF Upto
<1> QED
  BY <1>1, <1>2, <1>4, <1>5, <1>6

(* A list that is v without window k. *)
LEMMA LinesWithout ==
  ASSUME NEW v \in Seq(Win), NEW w \in Seq(Win), NEW k \in 1..Len(v), Len(w) = Len(v) - 1,
         \A i \in 1..(k - 1) : w[i].height = v[i].height,
         \A i \in k..(Len(v) - 1) : w[i].height = v[i + 1].height
  PROVE  Lines(v) = Lines(w) + v[k].height
<1> DEFINE n == Len(v)
           y == v[k].height
<1>1. PICK f : Upto(v, f) /\ Lines(v) = f[Len(v)]
  BY LinesUpto
<1>2. PICK g : Upto(w, g) /\ Lines(w) = g[Len(w)]
  BY LinesUpto
<1>3. n \in Nat /\ k \in Nat /\ k >= 1 /\ k <= n
  OBVIOUS
<1>4. (\A i \in 0..n : f[i] \in Int) /\ (\A i \in 0..(n - 1) : g[i] \in Int)
  BY <1>1, <1>2 DEF Upto
<1>5. f[0] = 0 /\ g[0] = 0
  BY <1>1, <1>2 DEF Upto
<1>6. /\ \A i \in 1..n : f[i] = f[i - 1] + v[i].height
      /\ \A i \in 1..(n - 1) : g[i] = g[i - 1] + w[i].height
  BY <1>1, <1>2 DEF Upto
<1>7. (\A i \in 1..n : v[i].height \in Int) /\ (\A i \in 1..(n - 1) : w[i].height \in Int)
  <2>1. (\A i \in 1..n : v[i] \in Win) /\ (\A i \in 1..(n - 1) : w[i] \in Win)
    OBVIOUS
  <2> QED
    BY <2>1 DEF Win
<1>8. \A i \in 1..(k - 1) : f[i] - f[i - 1] = g[i] - g[i - 1]
  <2> TAKE i \in 1..(k - 1)
  <2>1. i \in 0..n /\ i - 1 \in 0..n /\ i \in 0..(n - 1) /\ i - 1 \in 0..(n - 1)
        /\ i \in 1..n /\ i \in 1..(n - 1)
    BY <1>3
  <2>2. f[i] \in Int /\ g[i] \in Int /\ f[i - 1] \in Int /\ g[i - 1] \in Int
    BY <1>4, <2>1
  <2> DEFINE h == v[i].height
  <2>3. h \in Int /\ f[i] = f[i - 1] + h /\ g[i] = g[i - 1] + h
    BY <1>6, <1>7, <2>1
  <2> HIDE DEF h
  <2> QED
    BY <2>2, <2>3, SameStep
<1>a. \A i \in k..(n - 1) : f[i + 1] - f[i] = g[i] - g[i - 1]
  <2> TAKE i \in k..(n - 1)
  <2>1. i \in 0..n /\ i + 1 \in 0..n /\ i \in 0..(n - 1) /\ i - 1 \in 0..(n - 1)
        /\ i + 1 \in 1..n /\ i \in 1..(n - 1) /\ (i + 1) - 1 = i
    BY <1>3
  <2>2. f[i] \in Int /\ g[i] \in Int /\ f[i + 1] \in Int /\ g[i - 1] \in Int
    BY <1>4, <2>1
  <2>3. f[i + 1] = f[i] + v[i + 1].height /\ g[i] = g[i - 1] + w[i].height
    BY <1>6, <2>1
  <2> DEFINE h == v[i + 1].height
  <2>4. h \in Int /\ f[i + 1] = f[i] + h /\ g[i] = g[i - 1] + h
    BY <1>7, <2>1, <2>3
  <2> HIDE DEF h
  <2> QED
    BY <2>2, <2>4, SameStep, SMTT(30)
<1>9. Lines(v) = f[n] /\ Lines(w) = g[n - 1]
  BY <1>1, <1>2
<1>x. y \in Int
  BY <1>3, <1>7
<1>s. f[k] = f[k - 1] + y
  BY <1>3, <1>6
<1> HIDE DEF n, y
<1>10. f[k - 1] - g[k - 1] = f[0] - g[0]
  <2>0. 0 \in Nat /\ k - 1 \in Nat /\ 0 + (k - 1) = k - 1
    BY <1>3
  <2>1. Numbers(f, 0, k - 1) /\ Numbers(g, 0, k - 1)
    BY <1>3, <1>4 DEF Numbers
  <2>2. Steps(f, 0, g, 0, k - 1)
    BY <1>3, <1>8 DEF Steps
  <2> DEFINE z == 0
             m == k - 1
  <2>3. Parallel(f, z, g, z, m)
    <3>1. /\ z \in Nat /\ m \in Nat /\ Numbers(f, z, m) /\ Numbers(g, z, m)
          /\ Steps(f, z, g, z, m)
      BY <2>0, <2>1, <2>2
    <3> HIDE DEF z, m
    <3> QED
      BY <3>1, SameSteps
  <2> QED
    BY <2>0, <2>3 DEF Parallel
<1>11. f[n] - g[n - 1] = f[k] - g[k - 1]
  <2>0. n - k \in Nat /\ k + (n - k) = n /\ k - 1 \in Nat /\ (k - 1) + (n - k) = n - 1
    BY <1>3
  <2>1. Numbers(f, k, n - k) /\ Numbers(g, (k - 1), n - k)
    BY <1>3, <1>4 DEF Numbers
  <2>2. Steps(f, k, g, k - 1, n - k)
    <3> SUFFICES ASSUME NEW i \in 1..(n - k)
                 PROVE  f[k + i] - f[k + i - 1] = g[(k - 1) + i] - g[(k - 1) + i - 1]
      BY DEF Steps
    <3>1. k + i - 1 \in k..(n - 1) /\ (k + i - 1) + 1 = k + i /\ (k - 1) + i = k + i - 1
          /\ (k - 1) + i - 1 = (k + i - 1) - 1
      BY <1>3
    <3> QED
      BY <1>a, <3>1
  <2> DEFINE m == n - k
             j == k - 1
  <2>3. Parallel(f, k, g, j, m)
    <3>1. /\ k \in Nat /\ j \in Nat /\ m \in Nat /\ Numbers(f, k, m) /\ Numbers(g, j, m)
          /\ Steps(f, k, g, j, m)
      BY <1>3, <2>0, <2>1, <2>2
    <3> HIDE DEF m, j
    <3> QED
      BY <3>1, SameSteps
  <2> QED
    BY <2>0, <2>3 DEF Parallel
<1>12. /\ f[k] \in Int /\ f[k - 1] \in Int /\ g[k - 1] \in Int
       /\ f[n] \in Int /\ g[n - 1] \in Int
  <2>1. k \in 0..n /\ k - 1 \in 0..n /\ n \in 0..n /\ k - 1 \in 0..(n - 1) /\ n - 1 \in 0..(n - 1)
    BY <1>3
  <2> QED
    BY <1>4, <2>1
<1>13. f[k - 1] - g[k - 1] = 0
  BY <1>5, <1>10
<1> DEFINE A == f[n]
           B == g[n - 1]
           C == f[k]
           D == f[k - 1]
           E == g[k - 1]
<1>14. /\ A \in Int /\ B \in Int /\ C \in Int /\ D \in Int /\ E \in Int
       /\ C = D + y /\ D - E = 0 /\ A - B = C - E /\ Lines(v) = A /\ Lines(w) = B
  BY <1>s, <1>9, <1>11, <1>12, <1>13
<1> HIDE DEF A, B, C, D, E
<1>15. A = B + y
  BY <1>14, <1>x
<1> QED
  BY <1>14, <1>15 DEF y

(***************************************************************************)
(* Splitting a window.                                                     *)
(***************************************************************************)
LEMMA FreshIdFine ==
  ASSUME NEW s, Fine(s)
  PROVE  FreshId(s) \in Nat /\ \A i \in 1..Len(s.wins) : s.wins[i].id # FreshId(s)
<1> DEFINE n == Len(s.wins)
           T == { s.wins[i].id : i \in 1..n }
           A == (1..(n + 1)) \ T
<1>1. n \in Nat /\ \A i, j \in 1..n : s.wins[i].id = s.wins[j].id => i = j
  BY FineFields DEF Fine, Distinct
<1>2. A # {}
  <2> SUFFICES ASSUME A = {} PROVE FALSE
    OBVIOUS
  <2> HIDE DEF n
  <2>1. \A k \in 1..(n + 1) : \E i \in 1..n : s.wins[i].id = k
    OBVIOUS
  <2> DEFINE f == [ k \in 1..(n + 1) |-> CHOOSE i \in 1..n : s.wins[i].id = k ]
  <2>2. f \in [ 1..(n + 1) -> 1..n ] /\ \A k \in 1..(n + 1) : s.wins[f[k]].id = k
    BY <2>1
  <2>3. IsFiniteSet(1..(n + 1)) /\ Cardinality(1..(n + 1)) = n + 1
    BY <1>1, FS_Interval
  <2>4. IsFiniteSet(1..n) /\ Cardinality(1..n) = n
    BY <1>1, FS_Interval
  <2> HIDE DEF f
  <2> DEFINE S == 1..(n + 1)
             R == 1..n
  <2>5. Cardinality(R) < Cardinality(S)
    BY <1>1, <2>3, <2>4
  <2>6. \E x, y \in S : x # y /\ f[x] = f[y]
    <3>1. IsFiniteSet(S) /\ IsFiniteSet(R) /\ f \in [ S -> R ]
      BY <2>2, <2>3, <2>4
    <3> HIDE DEF S, R
    <3> QED
      BY <2>5, <3>1, FS_PigeonHole
  <2> QED
    BY <2>2, <2>6
<1>3. A \in SUBSET Nat
  BY <1>1
<1>4. FreshId(s) = Min(A)
  BY DEF FreshId
<1> HIDE DEF A
<1>5. Min(A) \in A
  BY <1>2, <1>3, MinIsLeast
<1> QED
  BY <1>3, <1>4, <1>5 DEF A

(* t is s with window w split, its upper part in the place of w. *)
Split(s, w, t) ==
  /\ Len(t.wins) = Len(s.wins) + 1 /\ t.list = s.list
  /\ t.cur = (IF s.cur > w THEN s.cur + 1 ELSE s.cur)
  /\ \A i \in 1..w : t.wins[i].id = s.wins[i].id /\ t.wins[i].buf = s.wins[i].buf
  /\ t.wins[w + 1].buf = s.wins[w].buf
  /\ \A i \in (w + 2)..(Len(s.wins) + 1) : Alike(t.wins[i], s.wins[i - 1])
  /\ Lines(t.wins) = Lines(s.wins)
  /\ s.bf # 0 => t.bf # 0
  /\ ~Deleted(s, s.bf) => t.bf = s.bf
  /\ More(s, t)

LEMMA SplitWinFine ==
  ASSUME NEW s, Fine(s), NEW w \in 1..Len(s.wins), Splits(s, w)
  PROVE  Fine(SplitWin(s, w)) /\ Split(s, w, SplitWin(s, w))
<1> DEFINE b == s.wins[w].buf
           t == Goto(s, b)
           h == t.wins[w].height \div 2
           fresh == FreshId(t)
           n == [ t.wins[w] EXCEPT !.id = fresh, !.height = h, !.use = 0 ]
           g == t.wins[w].height - h
           m == [ t.wins[w] EXCEPT !.height = g ]
           v == [ t.wins EXCEPT ![w] = m ]
           l == InsertAt(v, w + 1, n)
           c == IF t.cur > w THEN t.cur + 1 ELSE t.cur
           p == [ t EXCEPT !.wins = l ]
           x == [ p EXCEPT !.cur = c ]
           z == SetBfp(x, s.bf)
<1>0. b \in Buffers /\ Len(s.wins) \in Nat /\ w \in Nat /\ s.bf \in Buffers \cup {0}
  BY FineFields, WinFields
<1>1. SplitWin(s, w) = z
  BY DEF SplitWin
<1> HIDE DEF b
<1>2. /\ Fine(t) /\ Same(s, t) /\ t.cur = s.cur /\ (s.bf # 0 => t.bf # 0) /\ t.bf \in {s.bf, b}
      /\ Still(s, t)
  BY <1>0, GotoFine
<1> HIDE DEF t
<1>3. w \in 1..Len(t.wins) /\ Len(t.wins) = Len(s.wins) /\ t.list = s.list
  BY <1>2 DEF Same, SameWins
<1>4. t.wins[w] \in Win /\ t.wins[w].height \in Int /\ t.wins \in Seq(Win) /\ t \in Screen
  BY <1>2, <1>3, WinFields, FineFields DEF Fine
<1>5. h \in Int
  BY <1>4
<1>6. fresh \in Nat /\ \A i \in 1..Len(s.wins) : t.wins[i].id # fresh
  BY <1>2, <1>3, FreshIdFine
<1> HIDE DEF h, fresh
<1>7. n \in Win /\ n.id = fresh /\ n.height = h /\ n.buf = t.wins[w].buf
  BY <1>4, <1>5, <1>6 DEF Win
<1>8. /\ m \in Win /\ m.id = t.wins[w].id /\ m.buf = t.wins[w].buf /\ m.height = t.wins[w].height - h
      /\ m.dot = t.wins[w].dot
  <2>1. g \in Int /\ g = t.wins[w].height - h
    BY <1>4, <1>5
  <2> HIDE DEF g
  <2> QED
    BY <1>4, <2>1 DEF Win
<1> HIDE DEF n, m
<1>9. /\ v \in Seq(Win) /\ Len(v) = Len(s.wins)
      /\ \A i \in 1..Len(s.wins) : v[i] = IF i = w THEN m ELSE t.wins[i]
  BY <1>3, <1>4, <1>8, ExceptSeq
<1>v. \A i \in 1..Len(s.wins) : /\ v[i].id = t.wins[i].id /\ v[i].buf = t.wins[i].buf
                                /\ v[i].dot = t.wins[i].dot
  BY <1>8, <1>9
<1> HIDE DEF v
<1> DEFINE k == w + 1
<1>10. k \in 1..(Len(v) + 1)
  BY <1>0, <1>9
<1>11. /\ l \in Seq(Win) /\ Len(l) = Len(v) + 1 /\ l[k] = n
       /\ \A i \in 1..(k - 1) : l[i] = v[i]
       /\ \A i \in (k + 1)..(Len(v) + 1) : l[i] = v[i - 1]
  <2>1. InsertAt(v, k, n) = l
    OBVIOUS
  <2> HIDE DEF k, l
  <2>2. l \in Seq(Win) /\ With(v, k, n, l)
    BY <1>7, <1>9, <1>10, <2>1, Inserted
  <2> QED
    BY <2>2 DEF With
<1> HIDE DEF l
<1>12. /\ \A i \in 1..w : l[i] = v[i]
       /\ \A i \in (w + 2)..(Len(s.wins) + 1) : l[i] = t.wins[i - 1]
       /\ l[w + 1] = n /\ Len(l) = Len(s.wins) + 1
  <2>1. (w + 1) - 1 = w /\ (w + 1) + 1 = w + 2 /\ k = w + 1
    BY <1>0
  <2>2. \A i \in (w + 2)..(Len(s.wins) + 1) : i - 1 \in 1..Len(s.wins) /\ i - 1 # w
    BY <1>0
  <2> HIDE DEF k
  <2> QED
    BY <1>9, <1>11, <2>1, <2>2
<1>13. c \in Nat /\ c \in 1..(Len(s.wins) + 1)
  BY <1>0, <1>2, FineFields
<1>c. t.cur \in 1..Len(s.wins) /\ c = IF t.cur > w THEN t.cur + 1 ELSE t.cur
  BY <1>2, FineFields
<1> HIDE DEF c
<1>14. /\ p \in Screen /\ p.wins = l /\ p.list = t.list /\ p.bf = t.bf /\ p.cur = t.cur
       /\ p.dot = t.dot
  BY <1>4, <1>11 DEF Screen
<1> HIDE DEF p
<1>15. /\ x \in Screen /\ x.wins = l /\ x.list = t.list /\ x.bf = t.bf /\ x.cur = c
       /\ x.dot = t.dot
  BY <1>13, <1>14 DEF Screen
<1> HIDE DEF x
<1>16. ASSUME NEW i \in 1..Len(l)
       PROVE  \/ i <= w /\ l[i].id = t.wins[i].id /\ i \in 1..Len(s.wins)
              \/ i = w + 1 /\ l[i].id = fresh
              \/ i > w + 1 /\ l[i].id = t.wins[i - 1].id /\ i - 1 \in 1..Len(s.wins)
  <2>1. CASE i <= w
    <3>1. i \in 1..w /\ i \in 1..Len(s.wins)
      BY <1>0, <1>12, <2>1
    <3> QED
      BY <1>8, <1>9, <1>12, <2>1, <3>1
  <2>2. CASE i = w + 1
    BY <1>7, <1>12, <2>2
  <2>3. CASE i > w + 1
    <3>1. i \in (w + 2)..(Len(s.wins) + 1) /\ i - 1 \in 1..Len(s.wins)
      BY <1>0, <1>12, <2>3
    <3> QED
      BY <1>12, <2>3, <3>1
  <2>4. i \in Nat
    OBVIOUS
  <2> QED
    BY <1>0, <2>1, <2>2, <2>3, <2>4
<1>17. Distinct(l)
  <2> SUFFICES ASSUME NEW i \in 1..Len(l), NEW j \in 1..Len(l), l[i].id = l[j].id
               PROVE  i = j
    BY DEF Distinct
  <2>0. i \in Nat /\ j \in Nat
    OBVIOUS
  <2>1. \A q, r \in 1..Len(s.wins) : t.wins[q].id = t.wins[r].id => q = r
    BY <1>2, <1>3 DEF Fine, Distinct
  <2>2. \/ i <= w /\ l[i].id = t.wins[i].id /\ i \in 1..Len(s.wins)
        \/ i = w + 1 /\ l[i].id = fresh
        \/ i > w + 1 /\ l[i].id = t.wins[i - 1].id /\ i - 1 \in 1..Len(s.wins)
    BY <1>16
  <2>3. \/ j <= w /\ l[j].id = t.wins[j].id /\ j \in 1..Len(s.wins)
        \/ j = w + 1 /\ l[j].id = fresh
        \/ j > w + 1 /\ l[j].id = t.wins[j - 1].id /\ j - 1 \in 1..Len(s.wins)
    BY <1>16
  <2> QED
    BY <1>0, <1>6, <2>0, <2>1, <2>2, <2>3
<1>18. Fine(x)
  BY <1>0, <1>2, <1>12, <1>13, <1>15, <1>17, FineFields DEF Fine
<1>19. /\ Fine(z) /\ Same(x, z) /\ z.cur = x.cur /\ Still(x, z)
       /\ Deleted(x, s.bf) => z = x
       /\ ~Deleted(x, s.bf) => z.bf = s.bf
  BY <1>0, <1>18, SetBfpFine
<1> HIDE DEF z
<1>20. Lines(l) = Lines(s.wins)
  <2>1. Lines(v) = Lines(t.wins) + v[w].height - t.wins[w].height
    <3>1. \A i \in 1..Len(t.wins) : i # w => v[i].height = t.wins[i].height
      BY <1>3, <1>9
    <3>2. Len(v) = Len(t.wins)
      BY <1>3, <1>9
    <3> QED
      BY <1>3, <1>4, <1>9, <3>1, <3>2, LinesChanged
  <2>2. Lines(t.wins) = Lines(s.wins)
    <3>1. s.wins \in Seq(Win) /\ Len(s.wins) > 0 /\ SameWins(s.wins, t.wins)
      BY <1>2, FineFields DEF Same
    <3> QED
      BY <1>4, <3>1, LinesSame
  <2>3. k \in 1..Len(l) /\ Len(v) = Len(l) - 1
    BY <1>0, <1>9, <1>12
  <2>4. /\ \A i \in 1..(k - 1) : v[i].height = l[i].height
        /\ \A i \in k..(Len(l) - 1) : v[i].height = l[i + 1].height
    <3>1. \A i \in k..(Len(l) - 1) : i + 1 \in (k + 1)..(Len(v) + 1) /\ (i + 1) - 1 = i
      BY <1>0, <1>9, <1>12
    <3> HIDE DEF k
    <3> QED
      BY <1>11, <3>1
  <2>5. Lines(l) = Lines(v) + l[k].height
    <3> HIDE DEF k
    <3> QED
      BY <1>9, <1>11, <2>3, <2>4, LinesWithout
  <2>6. l[k].height = h /\ v[w].height = t.wins[w].height - h
    BY <1>3, <1>7, <1>8, <1>9, <1>11
  <2>7. Lines(s.wins) \in Int
    <3>1. s.wins \in Seq(Win) /\ Len(s.wins) \in Nat
      BY FineFields
    <3>2. PICK f : Upto(s.wins, f) /\ Lines(s.wins) = f[Len(s.wins)]
      BY <3>1, LinesUpto
    <3> QED
      BY <3>1, <3>2 DEF Upto
  <2> HIDE DEF k
  <2> QED
    BY <1>4, <1>5, <2>1, <2>2, <2>5, <2>6, <2>7
<1>21. Lines(z.wins) = Lines(s.wins)
  <2>1. z.wins \in Seq(Win) /\ l \in Seq(Win) /\ Len(l) > 0 /\ SameWins(l, z.wins)
    BY <1>0, <1>11, <1>12, <1>15, <1>19, FineFields DEF Same
  <2> QED
    BY <1>20, <2>1, LinesSame
<1>22. /\ Len(z.wins) = Len(s.wins) + 1 /\ z.list = s.list /\ z.cur = c
       /\ \A i \in 1..(Len(s.wins) + 1) : Alike(l[i], z.wins[i])
  BY <1>3, <1>12, <1>15, <1>19 DEF Same, SameWins
<1>23. \A i \in 1..Len(s.wins) : Alike(s.wins[i], t.wins[i])
  BY <1>2 DEF Same, SameWins
<1>24. \A i \in 1..w : z.wins[i].id = s.wins[i].id /\ z.wins[i].buf = s.wins[i].buf
  <2> TAKE i \in 1..w
  <2>1. i \in 1..Len(s.wins) /\ i \in 1..(Len(s.wins) + 1)
    BY <1>0
  <2> QED
    BY <1>8, <1>9, <1>12, <1>22, <1>23, <2>1, SMTT(30) DEF Alike
<1>25. z.wins[w + 1].buf = s.wins[w].buf
  <2>1. w + 1 \in 1..(Len(s.wins) + 1)
    BY <1>0
  <2> QED
    BY <1>7, <1>12, <1>22, <1>23, <2>1 DEF Alike
<1>26. \A i \in (w + 2)..(Len(s.wins) + 1) : Alike(z.wins[i], s.wins[i - 1])
  <2> TAKE i \in (w + 2)..(Len(s.wins) + 1)
  <2>1. i - 1 \in 1..Len(s.wins) /\ i \in 1..(Len(s.wins) + 1)
    BY <1>0
  <2>2. l[i] = t.wins[i - 1] /\ Alike(l[i], z.wins[i])
    BY <1>12, <1>22, <2>1
  <2>3. Alike(s.wins[i - 1], t.wins[i - 1])
    BY <1>23, <2>1
  <2> QED
    BY <2>2, <2>3 DEF Alike
<1>27. s.bf # 0 => z.bf # 0
  BY <1>2, <1>15, <1>19
<1>28. ~Deleted(s, s.bf) => z.bf = s.bf
  BY <1>3, <1>15, <1>19 DEF Deleted
<1>29. z.cur = IF s.cur > w THEN s.cur + 1 ELSE s.cur
  BY <1>2, <1>22 DEF c
<1>30. More(t, x)
  <2> SUFFICES ASSUME NEW i \in 1..Len(s.wins)
               PROVE  \E j \in 1..(Len(s.wins) + 1) : SamePlace(t, i, x, j)
    BY <1>3, <1>12, <1>15 DEF More
  <2> DEFINE j == IF i > w THEN i + 1 ELSE i
  <2>1. j \in 1..(Len(s.wins) + 1) /\ l[j] = v[i] /\ (c = j <=> t.cur = i)
    <3>0. i \in Nat /\ t.cur \in Nat
      BY <1>c
    <3>1. CASE i > w
      <4>1. j = i + 1 /\ i + 1 \in (w + 2)..(Len(s.wins) + 1) /\ (i + 1) - 1 = i /\ i # w
        BY <1>0, <3>1
      <4>2. c = i + 1 <=> t.cur = i
        BY <1>0, <1>c, <3>0, <3>1
      <4>3. l[i + 1] = t.wins[i] /\ v[i] = t.wins[i]
        BY <1>9, <1>12, <4>1
      <4> HIDE DEF j
      <4> QED
        BY <1>0, <4>1, <4>2, <4>3
    <3>2. CASE ~(i > w)
      <4>1. j = i /\ i \in 1..w
        BY <1>0, <3>2
      <4>2. c = i <=> t.cur = i
        BY <1>0, <1>c, <3>0, <3>2
      <4> HIDE DEF j
      <4> QED
        BY <1>0, <1>12, <4>1, <4>2
    <3> QED
      BY <3>1, <3>2
  <2> HIDE DEF j
  <2>2. x.wins[j] = v[i] /\ (x.cur = j <=> t.cur = i)
    BY <1>15, <2>1
  <2>3. SamePlace(t, i, x, j)
    BY <1>15, <1>v, <2>2 DEF SamePlace, Place
  <2> QED
    BY <2>1, <2>3
<1>31. More(s, z)
  BY <1>2, <1>19, <1>30, StillMore, MoreTrans
<1> QED
  BY <1>1, <1>19, <1>21, <1>22, <1>24, <1>25, <1>26, <1>27, <1>28, <1>29, <1>31 DEF Split

(***************************************************************************)
(* Heights.                                                                *)
(***************************************************************************)
LEMMA MaxInInterval ==
  ASSUME NEW n \in Nat, NEW T \in SUBSET (1..n), T # {}
  PROVE  Max(T) \in T
<1> DEFINE D == { n - x : x \in T }
<1>1. D \in SUBSET Nat /\ D # {}
  <2>1. \A x \in T : x \in 1..n /\ n - x \in Nat
    OBVIOUS
  <2>2. PICK y \in T : TRUE
    OBVIOUS
  <2>3. n - y \in D
    OBVIOUS
  <2> QED
    BY <2>1, <2>3
<1>2. PICK d \in D : \A e \in D : d <= e
  <2> HIDE DEF D
  <2> QED
    BY <1>1, NatMin
<1>3. PICK x \in T : d = n - x
  OBVIOUS
<1>4. \A y \in T : x >= y
  <2> TAKE y \in T
  <2>1. n - y \in D /\ x \in 1..n /\ y \in 1..n
    OBVIOUS
  <2>2. n - x <= n - y
    BY <1>2, <1>3, <2>1
  <2> QED
    BY <2>1, <2>2
<1> QED
  BY <1>4 DEF Max

LEMMA LinesNumber ==
  ASSUME NEW wins \in Seq(Win)
  PROVE  Lines(wins) \in Int
<1>1. PICK f : Upto(wins, f) /\ Lines(wins) = f[Len(wins)]
  BY LinesUpto
<1>2. Len(wins) \in Nat
  OBVIOUS
<1> QED
  BY <1>1, <1>2 DEF Upto

LEMMA SameLines ==
  ASSUME NEW s, NEW t, Fine(s), Fine(t), Same(s, t)
  PROVE  Lines(t.wins) = Lines(s.wins)
<1>1. s.wins \in Seq(Win) /\ t.wins \in Seq(Win) /\ Len(s.wins) > 0 /\ SameWins(s.wins, t.wins)
  BY FineFields DEF Same
<1> QED
  BY <1>1, LinesSame

(* t is s with the height of window w changed by d. *)
Resized(s, w, d, t) ==
  /\ Len(t.wins) = Len(s.wins) /\ t.list = s.list /\ t.cur = s.cur /\ t.bf = s.bf
  /\ t.dot = s.dot /\ t.eph = s.eph
  /\ \A i \in 1..Len(s.wins) : /\ t.wins[i].id = s.wins[i].id /\ t.wins[i].buf = s.wins[i].buf
                              /\ t.wins[i].dot = s.wins[i].dot
  /\ \A i \in 1..Len(s.wins) :
       t.wins[i].height = IF i = w THEN s.wins[w].height + d ELSE s.wins[i].height
  /\ Lines(t.wins) = Lines(s.wins) + d

LEMMA ResizedFine ==
  ASSUME NEW s, Fine(s), NEW w \in 1..Len(s.wins), NEW d \in Int
  PROVE  LET t == [ s EXCEPT !.wins[w].height = @ + d ] IN Fine(t) /\ Resized(s, w, d, t)
<1> DEFINE h == s.wins[w].height + d
           e == [ s.wins[w] EXCEPT !.height = h ]
           t == [ s EXCEPT !.wins[w] = e ]
<1>1. s.wins[w] \in Win /\ s.wins[w].height \in Int
  BY WinFields
<1>2. [ s EXCEPT !.wins[w].height = @ + d ] = t
  BY DEF Fine, Screen
<1>3. h \in Int
  BY <1>1
<1> DEFINE g == h
<1>4. /\ e \in Win /\ e.id = s.wins[w].id /\ e.height = h /\ e.buf = s.wins[w].buf
      /\ e.dot = s.wins[w].dot
  <2> HIDE DEF h
  <2> QED
    BY <1>1, <1>3 DEF Win
<1> HIDE DEF e
<1>5. /\ Fine(t) /\ Len(t.wins) = Len(s.wins)
      /\ \A i \in 1..Len(s.wins) : t.wins[i] = IF i = w THEN e ELSE s.wins[i]
      /\ t.cur = s.cur /\ t.bf = s.bf /\ t.dot = s.dot /\ t.eph = s.eph /\ t.list = s.list
  BY <1>4, Changed
<1> HIDE DEF t
<1>6. Lines(t.wins) = Lines(s.wins) + t.wins[w].height - s.wins[w].height
  <2>1. t.wins \in Seq(Win) /\ s.wins \in Seq(Win)
    BY <1>5, FineFields
  <2>2. \A i \in 1..Len(s.wins) : i # w => t.wins[i].height = s.wins[i].height
    BY <1>5
  <2> QED
    BY <1>5, <2>1, <2>2, LinesChanged
<1>7. Lines(s.wins) \in Int
  BY FineFields, LinesNumber
<1>8. t.wins[w].height = s.wins[w].height + d
  BY <1>4, <1>5
<1>9. Lines(t.wins) = Lines(s.wins) + d
  BY <1>1, <1>6, <1>7, <1>8
<1>10. \A i \in 1..Len(s.wins) : /\ t.wins[i].id = s.wins[i].id /\ t.wins[i].buf = s.wins[i].buf
                                 /\ t.wins[i].dot = s.wins[i].dot
  BY <1>4, <1>5
<1>11. \A i \in 1..Len(s.wins) :
         t.wins[i].height = IF i = w THEN s.wins[w].height + d ELSE s.wins[i].height
  BY <1>5, <1>8
<1> QED
  BY <1>2, <1>5, <1>9, <1>10, <1>11 DEF Resized

LEMMA ChgWHeightFine ==
  ASSUME NEW s, Fine(s), NEW w \in 1..Len(s.wins), NEW d \in Int
  PROVE  /\ Fine(ChgWHeight(s, w, d))
         /\ CanChange(s, w, d) => Resized(s, w, d, ChgWHeight(s, w, d))
         /\ ~CanChange(s, w, d) => ChgWHeight(s, w, d) = s
BY ResizedFine DEF ChgWHeight

(* The same windows on the same buffers. *)
SameTies(s, t) ==
  /\ Len(t.wins) = Len(s.wins) /\ t.list = s.list
  /\ \A i \in 1..Len(s.wins) : t.wins[i].id = s.wins[i].id /\ t.wins[i].buf = s.wins[i].buf

LEMMA ChangeWindowSizeFine ==
  ASSUME NEW s, Fine(s), NEW d \in Int
  PROVE  LET t == ChangeWindowSize(s, d)
         IN  /\ Fine(t) /\ SameTies(s, t) /\ t.cur = s.cur /\ t.bf = s.bf /\ t.dot = s.dot
             /\ Lines(t.wins) = Lines(s.wins) /\ Still(s, t)
<1> DEFINE t == ChangeWindowSize(s, d)
           below == Chain(s, (s.cur + 1)..Bottom(s), -d)
           above == Chain(s, 1..(s.cur - 1), -d)
           w == IF below # {} THEN Min(below) ELSE Max(above)
           x == ChgWHeight(s, w, -d)
           y == ChgWHeight(x, s.cur, d)
<1>0. s.cur \in 1..Len(s.wins) /\ Len(s.wins) \in Nat /\ -d \in Int /\ Bottom(s) = Len(s.wins)
  BY FineFields DEF Bottom
<1>1. CASE ~CanChange(s, s.cur, d) \/ (below = {} /\ above = {})
  <2>1. t = s
    BY <1>1 DEF ChangeWindowSize
  <2> QED
    BY <2>1, StillSelf DEF SameTies
<1>2. CASE ~(~CanChange(s, s.cur, d) \/ (below = {} /\ above = {}))
  <2>1. t = y
    BY <1>2 DEF ChangeWindowSize
  <2>2. w \in 1..Len(s.wins) /\ w # s.cur /\ CanChange(s, w, -d)
    <3>1. below \in SUBSET Nat /\ above \in SUBSET (1..Len(s.wins))
      BY <1>0 DEF Chain
    <3>2. (below # {} => Min(below) \in below) /\ (above # {} => Max(above) \in above)
      <4> HIDE DEF below, above
      <4> QED
        BY <1>0, <3>1, MinIsLeast, MaxInInterval
    <3>3. w \in below \/ w \in above
      <4> HIDE DEF below, above
      <4> QED
        BY <1>2, <3>2
    <3>4. ASSUME NEW i \in below \cup above
          PROVE  i \in 1..Len(s.wins) /\ i # s.cur /\ CanChange(s, i, -d)
      BY <1>0 DEF Chain
    <3> HIDE DEF below, above, w
    <3> QED
      BY <3>3, <3>4
  <2> DEFINE e == -d
             c == s.cur
  <2>e. e \in Int /\ e = -d /\ c \in 1..Len(s.wins) /\ c = s.cur
    BY <1>0
  <2>3. Fine(x) /\ Resized(s, w, e, x)
    <3>1. x = ChgWHeight(s, w, e) /\ CanChange(s, w, e)
      BY <2>2
    <3> HIDE DEF x, e, w
    <3> QED
      BY <2>2, <2>e, <3>1, ChgWHeightFine
  <2> HIDE DEF w, x
  <2>4. c \in 1..Len(x.wins) /\ CanChange(x, c, d)
    BY <1>2, <2>2, <2>3, <2>e DEF Resized, CanChange, Least
  <2>5. Fine(y) /\ Resized(x, c, d, y)
    <3>1. y = ChgWHeight(x, c, d)
      OBVIOUS
    <3> HIDE DEF y, c
    <3> QED
      BY <2>3, <2>4, <3>1, ChgWHeightFine
  <2> HIDE DEF y, c
  <2>6. Lines(y.wins) = Lines(s.wins)
    <3>1. Lines(s.wins) \in Int
      BY FineFields, LinesNumber
    <3>2. Lines(x.wins) = Lines(s.wins) + e /\ Lines(y.wins) = Lines(x.wins) + d
      BY <2>3, <2>5 DEF Resized
    <3> QED
      BY <2>e, <3>1, <3>2
  <2>7. SameTies(s, y) /\ y.cur = s.cur /\ y.bf = s.bf /\ y.dot = s.dot
    BY <2>3, <2>5 DEF Resized, SameTies
  <2>8. Still(s, y)
    BY <2>3, <2>5 DEF Resized, Still, SamePlace, Place
  <2> QED
    BY <2>1, <2>5, <2>6, <2>7, <2>8
<1> QED
  BY <1>1, <1>2

(***************************************************************************)
(* Deleting a window.                                                      *)
(***************************************************************************)
(* t is s without window w; a neighbour has its lines. *)
Less(s, w, t) ==
  /\ Len(t.wins) = Len(s.wins) - 1 /\ t.list = s.list /\ Lines(t.wins) = Lines(s.wins)
  /\ \A i \in 1..(w - 1) : t.wins[i].id = s.wins[i].id /\ t.wins[i].buf = s.wins[i].buf
  /\ \A i \in w..(Len(s.wins) - 1) :
       t.wins[i].id = s.wins[i + 1].id /\ t.wins[i].buf = s.wins[i + 1].buf
  /\ w > 1 => /\ \A i \in 1..(w - 2) : t.wins[i].height = s.wins[i].height
              /\ \A i \in w..(Len(s.wins) - 1) : t.wins[i].height = s.wins[i + 1].height
  /\ s.cur # w => t.bf = s.bf /\ t.cur = IF s.cur > w THEN s.cur - 1 ELSE s.cur
  /\ s.cur < Len(s.wins) => t.cur < Len(t.wins)
  /\ s.cur = w => t.bf = IF Deleted(t, t.wins[t.cur].buf) THEN 0 ELSE t.wins[t.cur].buf
  /\ Fewer(s, t)

LEMMA DelWinFine ==
  ASSUME NEW s, Fine(s), NEW w \in 1..Len(s.wins)
  PROVE  LET t == DelWin(s, w)
         IN  /\ Fine(t)
             /\ w = Len(s.wins) \/ Len(s.wins) = 2 => t = s
             /\ w # Len(s.wins) /\ Len(s.wins) # 2 => Less(s, w, t)
<1>0. Len(s.wins) \in Nat /\ Len(s.wins) >= 2 /\ w \in Nat /\ w >= 1 /\ s.cur \in 1..Len(s.wins)
  BY FineFields
<1>1. CASE w = Len(s.wins) \/ Len(s.wins) = 2
  BY <1>1 DEF DelWin, Bottom
<1>2. CASE w # Len(s.wins) /\ Len(s.wins) # 2
  <2> DEFINE n == Len(s.wins)
             heir == IF w > 1 THEN w - 1 ELSE 2
             t == IF w = s.cur THEN SetWin(s, heir) ELSE s
             d == t.wins[w].height
             x == [ t EXCEPT !.wins[heir].height = @ + d ]
             v == [ t.wins EXCEPT ![heir].height = @ + t.wins[w].height ]
             l == RemoveAt(v, w)
             c == IF t.cur > w THEN t.cur - 1 ELSE t.cur
             p == [ t EXCEPT !.wins = l ]
             z == [ p EXCEPT !.cur = c ]
  <2> HIDE DEF heir, t, d, x, v, l, c, p, z
  <2>a. n \in Nat /\ n > 2 /\ w \in 1..(n - 1)
    <3>1. n \in Nat /\ n >= 2 /\ w >= 1 /\ w <= n /\ w # n /\ n # 2 /\ w \in Nat
      BY <1>0, <1>2
    <3> HIDE DEF n
    <3> QED
      BY <3>1
  <2> USE DEF t, d, x, v, l, c, p, z
  <2>b. heir \in 1..(n - 1) /\ heir # w
    <3> HIDE DEF n
    <3> USE DEF heir
    <3>1. w \in Nat /\ w >= 1 /\ w <= n - 1
      BY <2>a
    <3>2. CASE w > 1
      BY <2>a, <3>1, <3>2
    <3>3. CASE w = 1
      BY <2>a, <3>1, <3>3
    <3> QED
      BY <3>1, <3>2, <3>3
  <2> USE DEF heir
  <2>0. n \in Nat /\ n > 2 /\ w \in 1..(n - 1) /\ heir \in 1..(n - 1) /\ heir # w
    BY <2>a, <2>b
  <2>1. DelWin(s, w) = z
    BY <1>2 DEF DelWin, Bottom
  <2>2. /\ Fine(t) /\ Same(s, t)
        /\ w = s.cur => /\ t.cur = heir
                        /\ t.bf = IF Deleted(s, s.wins[heir].buf) THEN 0 ELSE s.wins[heir].buf
        /\ w # s.cur => t = s
        /\ \A i \in 1..n : i # w => SamePlace(s, i, t, i)
    <3> HIDE DEF heir
    <3>1. heir \in 1..Len(s.wins)
      BY <2>0
    <3>2. CASE w = s.cur
      <4>1. t = SetWin(s, heir)
        BY <3>2
      <4> HIDE DEF t
      <4> QED
        BY <3>1, <3>2, <4>1, SetWinFine
    <3>3. CASE w # s.cur
      BY <3>3, SameSelf DEF SamePlace
    <3> QED
      BY <3>2, <3>3
  <2>h. heir = IF w > 1 THEN w - 1 ELSE 2
    OBVIOUS
  <2>3. /\ Len(t.wins) = n /\ t.list = s.list
        /\ \A i \in 1..n : /\ t.wins[i].id = s.wins[i].id /\ t.wins[i].buf = s.wins[i].buf
                           /\ t.wins[i].height = s.wins[i].height
    BY <2>2 DEF Same, SameWins, Alike
  <2> HIDE DEF t
  <2>4. t \in Screen /\ t.wins \in Seq(Win)
    BY <2>2, FineFields DEF Fine
  <2>5. x.wins = v
    BY <2>4 DEF Screen
  <2>6. d \in Int
    BY <2>0, <2>2, <2>3, WinFields
  <2>7. Fine(x) /\ Resized(t, heir, d, x)
    <3>1. heir \in 1..Len(t.wins)
      BY <2>0, <2>3
    <3> HIDE DEF heir, d
    <3> QED
      BY <2>2, <2>6, <3>1, ResizedFine
  <2>8. Lines(t.wins) = Lines(s.wins) /\ Lines(s.wins) \in Int
    BY <2>2, SameLines, FineFields, LinesNumber
  <2>e. \A i \in 1..n : v[i].dot = t.wins[i].dot
    BY <2>3, <2>5, <2>7 DEF Resized
  <2> HIDE DEF x, v, heir
  <2>9. /\ v \in Seq(Win) /\ Len(v) = n /\ Distinct(v) /\ Lines(v) = Lines(s.wins) + d
        /\ \A i \in 1..n : /\ v[i].id = s.wins[i].id /\ v[i].buf = s.wins[i].buf
                           /\ i # heir => v[i].height = s.wins[i].height
    <3>1. x.wins \in Seq(Win) /\ Distinct(x.wins)
      BY <2>7, FineFields DEF Fine
    <3> HIDE DEF d
    <3> QED
      BY <2>3, <2>5, <2>7, <2>8, <3>1 DEF Resized
  <2>10. w \in 1..Len(v)
    BY <2>0, <2>9
  <2>11. l \in Seq(Win) /\ Without(v, w, l)
    BY <2>9, <2>10, Removed
  <2> HIDE DEF l
  <2>12. /\ Len(l) = n - 1
         /\ \A i \in 1..(w - 1) : l[i] = v[i]
         /\ \A i \in w..(n - 1) : l[i] = v[i + 1]
    BY <2>9, <2>11 DEF Without
  <2>13. Lines(l) = Lines(s.wins)
    <3>1. Lines(v) = Lines(l) + v[w].height
      BY <2>9, <2>10, <2>11, <2>12, LinesWithout, SMTT(30)
    <3>2. v[w].height = d
      BY <2>0, <2>3, <2>9
    <3>3. Lines(l) \in Int
      BY <2>11, LinesNumber
    <3> HIDE DEF d
    <3> QED
      BY <2>6, <2>8, <2>9, <3>1, <3>2, <3>3
  <2>14. Distinct(l)
    <3> SUFFICES ASSUME NEW i \in 1..Len(l), NEW j \in 1..Len(l), l[i].id = l[j].id
                 PROVE  i = j
      BY DEF Distinct
    <3>1. i \in 1..(n - 1) /\ j \in 1..(n - 1)
      BY <2>12
    <3>2. \E q \in 1..n : l[i] = v[q] /\ q = IF i < w THEN i ELSE i + 1
      BY <2>0, <2>12, <3>1
    <3>3. \E q \in 1..n : l[j] = v[q] /\ q = IF j < w THEN j ELSE j + 1
      BY <2>0, <2>12, <3>1
    <3>4. \A q, r \in 1..n : v[q].id = v[r].id => q = r
      BY <2>9 DEF Distinct
    <3> QED
      BY <2>0, <3>1, <3>2, <3>3, <3>4
  <2>15. t.cur \in 1..n /\ t.cur # w
    BY <1>0, <2>0, <2>2
  <2>16. c \in Nat /\ c \in 1..(n - 1)
    BY <2>0, <2>15
  <2> DEFINE cc == c
  <2>c. cc = IF t.cur > w THEN t.cur - 1 ELSE t.cur
    OBVIOUS
  <2> HIDE DEF c
  <2>17. p \in Screen /\ p.wins = l /\ p.list = t.list /\ p.bf = t.bf /\ p.dot = t.dot
    BY <2>4, <2>11 DEF Screen
  <2> HIDE DEF p
  <2>18. /\ z \in Screen /\ z.wins = l /\ z.list = s.list /\ z.bf = t.bf /\ z.cur = c
         /\ z.dot = t.dot
    BY <2>3, <2>16, <2>17 DEF Screen
  <2> HIDE DEF z
  <2>19. Fine(z)
    <3>1. Chained(z.list)
      BY <2>18 DEF Fine
    <3> QED
      BY <2>0, <2>12, <2>14, <2>16, <2>18, <3>1 DEF Fine
  <2>20. Less(s, w, z)
    <3>1. \A i \in 1..(w - 1) : z.wins[i].id = s.wins[i].id /\ z.wins[i].buf = s.wins[i].buf
      <4>1. \A i \in 1..(w - 1) : i \in 1..n
        BY <2>0
      <4> QED
        BY <2>9, <2>12, <2>18, <4>1
    <3>2. \A i \in w..(n - 1) : z.wins[i].id = s.wins[i + 1].id /\ z.wins[i].buf = s.wins[i + 1].buf
      <4>1. \A i \in w..(n - 1) : i + 1 \in 1..n
        BY <2>0
      <4> QED
        BY <2>9, <2>12, <2>18, <4>1
    <3>3. ASSUME w > 1
          PROVE  /\ \A i \in 1..(w - 2) : z.wins[i].height = s.wins[i].height
                 /\ \A i \in w..(n - 1) : z.wins[i].height = s.wins[i + 1].height
      <4>1. \A i \in w..(n - 1) : i + 1 \in 1..n /\ i + 1 # heir
        BY <2>0, <2>h, <3>3
      <4>2. \A i \in 1..(w - 2) : i \in 1..(w - 1) /\ i \in 1..n /\ i # heir
        BY <2>0, <2>h, <3>3
      <4> QED
        BY <2>9, <2>12, <2>18, <4>1, <4>2
    <3>4. s.cur # w => z.bf = s.bf /\ z.cur = IF s.cur > w THEN s.cur - 1 ELSE s.cur
      BY <2>2, <2>18 DEF c
    <3>5. s.cur < n => z.cur < n - 1
      <4>1. s.cur < n => t.cur < n
        BY <1>0, <2>0, <2>2
      <4> QED
        BY <2>0, <2>15, <2>18, <4>1 DEF c
    <3>6. s.cur = w => z.bf = IF Deleted(z, z.wins[z.cur].buf) THEN 0 ELSE z.wins[z.cur].buf
      <4> SUFFICES ASSUME s.cur = w
                   PROVE  z.bf = IF Deleted(z, z.wins[z.cur].buf) THEN 0 ELSE z.wins[z.cur].buf
        OBVIOUS
      <4>1. t.cur = heir
        BY <2>2
      <4>2. z.wins[z.cur].buf = s.wins[heir].buf
        <5>1. CASE w > 1
          <6>1. z.cur = heir /\ heir \in 1..(w - 1)
            BY <2>0, <2>h, <2>18, <4>1, <5>1 DEF c
          <6> QED
            BY <3>1, <6>1
        <5>2. CASE w = 1
          <6>1. z.cur = 1 /\ heir = 2 /\ 1 \in w..(n - 1) /\ 1 + 1 = 2
            BY <2>0, <2>h, <2>18, <4>1, <5>2 DEF c
          <6> QED
            BY <3>2, <6>1
        <5> QED
          BY <1>0, <5>1, <5>2
      <4> QED
        BY <2>2, <2>18, <4>2 DEF Deleted
    <3>7. Fewer(s, z)
      <4> SUFFICES ASSUME NEW j \in 1..(n - 1)
                   PROVE  \E i \in 1..n : SamePlace(s, i, z, j)
        BY <2>12, <2>18 DEF Fewer
      <4> DEFINE q == IF j < w THEN j ELSE j + 1
      <4>1. /\ q \in 1..n /\ q # w /\ z.wins[j] = v[q]
            /\ z.cur = j <=> t.cur = q
        <5>1. j \in Nat /\ w \in Nat /\ t.cur \in Nat /\ z.cur = cc
          BY <2>0, <2>15, <2>18 DEF c
        <5>2. CASE j < w
          <6>1. j \in 1..(w - 1) /\ q = j
            BY <2>0, <5>1, <5>2
          <6>2. z.cur = j <=> t.cur = j
            BY <2>15, <2>c, <5>1, <5>2
          <6> HIDE DEF q
          <6> QED
            BY <2>0, <2>12, <2>18, <6>1, <6>2
        <5>3. CASE ~(j < w)
          <6>1. j \in w..(n - 1) /\ q = j + 1
            BY <2>0, <5>1, <5>3
          <6>2. z.cur = j <=> t.cur = j + 1
            BY <2>15, <2>c, <5>1, <5>3
          <6> HIDE DEF q
          <6> QED
            BY <2>0, <2>12, <2>18, <6>1, <6>2
        <5> QED
          BY <5>2, <5>3
      <4> HIDE DEF q
      <4>2. z.wins[j].buf = t.wins[q].buf /\ z.wins[j].dot = t.wins[q].dot
        BY <2>3, <2>9, <2>e, <4>1
      <4>3. Place(z, j) = Place(t, q)
        BY <2>18, <4>1, <4>2 DEF Place
      <4>4. SamePlace(s, q, t, q)
        BY <2>2, <4>1
      <4>5. z.wins[j].id = s.wins[q].id /\ z.wins[j].buf = s.wins[q].buf
        BY <2>9, <4>1
      <4> QED
        BY <4>1, <4>3, <4>4, <4>5 DEF SamePlace
    <3> QED
      BY <2>12, <2>13, <2>18, <3>1, <3>2, <3>3, <3>4, <3>5, <3>6, <3>7 DEF Less
  <2> QED
    BY <1>2, <2>1, <2>19, <2>20
<1> QED
  BY <1>1, <1>2

(* The windows of t are those of s but w. *)
LEMMA LessWins ==
  ASSUME NEW s, Fine(s), NEW w \in 1..(Len(s.wins) - 1), NEW t, Less(s, w, t)
  PROVE  /\ \A i \in 1..Len(t.wins) : \E q \in 1..Len(s.wins) :
               q # w /\ t.wins[i].id = s.wins[q].id /\ t.wins[i].buf = s.wins[q].buf
         /\ \A q \in 1..Len(s.wins) : q # w =>
               \E i \in 1..Len(t.wins) : t.wins[i].id = s.wins[q].id
         /\ t.wins[Len(t.wins)].id = s.wins[Len(s.wins)].id
         /\ t.wins[Len(t.wins)].buf = s.wins[Len(s.wins)].buf
         /\ s.cur # w => t.wins[t.cur].id = s.wins[s.cur].id
<1> DEFINE n == Len(s.wins)
<1>0. n \in Nat /\ n >= 2 /\ s.cur \in 1..n
  BY FineFields
<1>1. /\ Len(t.wins) = n - 1
      /\ \A i \in 1..(w - 1) : t.wins[i].id = s.wins[i].id /\ t.wins[i].buf = s.wins[i].buf
      /\ \A i \in w..(n - 1) : t.wins[i].id = s.wins[i + 1].id /\ t.wins[i].buf = s.wins[i + 1].buf
      /\ s.cur # w => t.cur = IF s.cur > w THEN s.cur - 1 ELSE s.cur
  BY DEF Less
<1>2. w \in 1..(n - 1) /\ w \in Nat
  OBVIOUS
<1> HIDE DEF n
<1>3. ASSUME NEW i \in 1..(n - 1)
      PROVE  \E q \in 1..n : q # w /\ t.wins[i].id = s.wins[q].id /\ t.wins[i].buf = s.wins[q].buf
  <2>1. CASE i < w
    <3>1. i \in 1..(w - 1) /\ i \in 1..n
      BY <1>0, <1>2, <2>1
    <3> QED
      BY <1>1, <2>1, <3>1
  <2>2. CASE i >= w
    <3>1. i \in w..(n - 1) /\ i + 1 \in 1..n /\ i + 1 # w
      BY <1>0, <1>2, <2>2
    <3> QED
      BY <1>1, <3>1
  <2> QED
    BY <1>2, <2>1, <2>2
<1>4. ASSUME NEW q \in 1..n, q # w
      PROVE  \E i \in 1..(n - 1) : /\ t.wins[i].id = s.wins[q].id
                                   /\ i = IF q > w THEN q - 1 ELSE q
  <2>1. CASE q < w
    <3>1. q \in 1..(w - 1) /\ q \in 1..(n - 1)
      BY <1>0, <1>2, <2>1
    <3> QED
      BY <1>1, <1>2, <2>1, <3>1
  <2>2. CASE q > w
    <3>1. q - 1 \in w..(n - 1) /\ q - 1 \in 1..(n - 1) /\ (q - 1) + 1 = q
      BY <1>0, <1>2, <2>2
    <3> QED
      BY <1>1, <2>2, <3>1
  <2> QED
    BY <1>2, <1>4, <2>1, <2>2
<1>5. t.wins[n - 1].id = s.wins[n].id /\ t.wins[n - 1].buf = s.wins[n].buf
  <2>1. n - 1 \in w..(n - 1) /\ (n - 1) + 1 = n
    BY <1>0, <1>2
  <2> QED
    BY <1>1, <2>1
<1>6. s.cur # w => t.wins[t.cur].id = s.wins[s.cur].id
  BY <1>0, <1>1, <1>4, ZenonT(60)
<1> QED
  BY <1>1, <1>3, <1>4, <1>5, <1>6 DEF n

LEMMA IndexFound ==
  ASSUME NEW s, NEW i \in 1..Len(s.wins)
  PROVE  /\ IndexOf(s, s.wins[i].id) \in 1..Len(s.wins)
         /\ s.wins[IndexOf(s, s.wins[i].id)].id = s.wins[i].id
BY DEF IndexOf

(***************************************************************************)
(* The loop that deletes windows: after k windows of s.                    *)
(***************************************************************************)
Thin(s, doomed, k, t) == IF s.wins[k].id \notin doomed THEN t
                         ELSE DelWin(t, IndexOf(t, s.wins[k].id))

Thins(s, doomed, S) ==
  \A k \in 1..Len(s.wins) : \A t \in S[k - 1] : Thin(s, doomed, k, t) \in S[k]

LEMMA DelWinsLoop ==
  ASSUME NEW s, Len(s.wins) \in Nat, NEW doomed, NEW S, s \in S[0], Thins(s, doomed, S)
  PROVE  DelWins(s, doomed) \in S[Len(s.wins)]
<1> DEFINE n == Len(s.wins)
           step == [ k \in 1..n |-> [ t \in S[k - 1] |-> Thin(s, doomed, k, t) ] ]
           After(f) == f = [ k \in 0..n |->
                               IF k = 0 THEN s
                               ELSE IF s.wins[k].id \notin doomed THEN f[k - 1]
                               ELSE DelWin(f[k - 1], IndexOf(f[k - 1], s.wins[k].id)) ]
           g == CHOOSE f : After(f)
<1>1. Leads(step, S, n)
  BY DEF Leads, Thins
<1>2. PICK f : /\ On(f, n) /\ f[0] = s
               /\ \A i \in 1..n : f[i] = step[i][f[i - 1]]
               /\ \A i \in 0..n : f[i] \in S[i]
  <2> HIDE DEF step
  <2> QED
    BY <1>1, Iterated, SMTT(30)
<1>3. \A i \in 1..n : f[i] = Thin(s, doomed, i, f[i - 1])
  <2>1. \A i \in 1..n : i - 1 \in 0..n
    OBVIOUS
  <2> QED
    BY <1>2, <2>1
<1>4. After(f)
  <2>1. f = [ i \in 0..n |-> f[i] ]
    BY <1>2 DEF On
  <2>2. \A k \in 0..n : f[k] = IF k = 0 THEN s
                               ELSE IF s.wins[k].id \notin doomed THEN f[k - 1]
                               ELSE DelWin(f[k - 1], IndexOf(f[k - 1], s.wins[k].id))
    <3>1. \A k \in 0..n : k # 0 => k \in 1..n
      OBVIOUS
    <3> HIDE DEF n
    <3> QED
      BY <1>2, <1>3, <3>1 DEF Thin
  <2> QED
    BY <2>1, <2>2
<1>5. After(g)
  <2> HIDE DEF After
  <2> QED
    BY <1>4
<1>6. DelWins(s, doomed) = g[n]
  BY DEF DelWins
<1> HIDE DEF g
<1>7. g[0] = s /\ \A i \in 1..n : g[i] = Thin(s, doomed, i, g[i - 1])
  BY <1>5 DEF Thin
<1>8. \A i \in 0..n : g[i] \in S[i]
  <2>1. \A i \in 1..n : g[i - 1] \in S[i - 1] => g[i] \in S[i]
    BY <1>7 DEF Thins
  <2> HIDE DEF n
  <2> QED
    BY <1>7, <2>1, Stepwise DEF n
<1> QED
  BY <1>6, <1>8

(* t is s after the first k of its windows have been looked at.            *)
Thinned(s, doomed, k, t) ==
  /\ t.list = s.list /\ Lines(t.wins) = Lines(s.wins)
  /\ \A i \in 1..Len(t.wins) : \E j \in 1..Len(s.wins) :
       t.wins[i].id = s.wins[j].id /\ t.wins[i].buf = s.wins[j].buf
  /\ t.wins[Len(t.wins)].id = s.wins[Len(s.wins)].id
  /\ t.wins[Len(t.wins)].buf = s.wins[Len(s.wins)].buf
  /\ \A j \in (k + 1)..Len(s.wins) : \E i \in 1..Len(t.wins) : t.wins[i].id = s.wins[j].id
  /\ \/ Len(t.wins) = 2
     \/ \A j \in 1..k : j < Len(s.wins) /\ s.wins[j].id \in doomed =>
          \A i \in 1..Len(t.wins) : t.wins[i].id # s.wins[j].id
  /\ s.cur < Len(s.wins) => t.cur < Len(t.wins)
  /\ s.wins[s.cur].id \notin doomed => t.bf = s.bf /\ t.wins[t.cur].id = s.wins[s.cur].id
  /\ (s.bf # 0 /\ \A i \in 1..Len(s.wins) : ~Deleted(s, s.wins[i].buf)) => t.bf # 0
  /\ t.bf \in {0, s.bf} \/ \E j \in 1..Len(s.wins) : t.bf = s.wins[j].buf
  /\ Fewer(s, t)

LEMMA ThinnedFirst ==
  ASSUME NEW s, Fine(s), NEW doomed
  PROVE  Thinned(s, doomed, 0, s)
<1>1. Len(s.wins) \in Nat /\ s.cur \in 1..Len(s.wins)
  BY FineFields
<1>2. \A j \in (0 + 1)..Len(s.wins) : j \in 1..Len(s.wins)
  BY <1>1
<1>3. \A j \in 1..0 : FALSE
  OBVIOUS
<1> QED
  BY <1>1, <1>2, <1>3, FewerSelf DEF Thinned

LEMMA ThinnedNext ==
  ASSUME NEW s, Fine(s), NEW doomed, NEW k \in 1..Len(s.wins),
         NEW t, Fine(t), Thinned(s, doomed, k - 1, t)
  PROVE  Fine(Thin(s, doomed, k, t)) /\ Thinned(s, doomed, k, Thin(s, doomed, k, t))
<1> DEFINE n == Len(s.wins)
           m == Len(t.wins)
           w == IndexOf(t, s.wins[k].id)
           x == DelWin(t, w)
<1>0. n \in Nat /\ n >= 2 /\ m \in Nat /\ m >= 2 /\ k \in 1..n /\ k \in Nat /\ k \in ((k - 1) + 1)..n
      /\ t.cur \in 1..m /\ s.cur \in 1..n
  BY FineFields
<1>1. /\ t.list = s.list /\ Lines(t.wins) = Lines(s.wins)
      /\ \A i \in 1..m : \E j \in 1..n :
           t.wins[i].id = s.wins[j].id /\ t.wins[i].buf = s.wins[j].buf
      /\ t.wins[m].id = s.wins[n].id /\ t.wins[m].buf = s.wins[n].buf
      /\ \A j \in ((k - 1) + 1)..n : \E i \in 1..m : t.wins[i].id = s.wins[j].id
      /\ \/ m = 2
         \/ \A j \in 1..(k - 1) : j < n /\ s.wins[j].id \in doomed =>
              \A i \in 1..m : t.wins[i].id # s.wins[j].id
      /\ s.cur < n => t.cur < m
      /\ s.wins[s.cur].id \notin doomed => t.bf = s.bf /\ t.wins[t.cur].id = s.wins[s.cur].id
      /\ (s.bf # 0 /\ \A i \in 1..n : ~Deleted(s, s.wins[i].buf)) => t.bf # 0
      /\ t.bf \in {0, s.bf} \/ \E j \in 1..n : t.bf = s.wins[j].buf
      /\ Fewer(s, t)
  BY DEF Thinned
<1>2. \A j \in (k + 1)..n : j \in ((k - 1) + 1)..n
  BY <1>0
<1>3. \A j \in 1..k : j \in 1..(k - 1) \/ j = k
  BY <1>0
<1>4. \A i, j \in 1..n : s.wins[i].id = s.wins[j].id => i = j
  BY DEF Fine, Distinct
<1>5. w \in 1..m /\ t.wins[w].id = s.wins[k].id
  <2>1. PICK i \in 1..m : t.wins[i].id = s.wins[k].id
    BY <1>0, <1>1
  <2>2. w = IndexOf(t, t.wins[i].id)
    BY <2>1
  <2> HIDE DEF w
  <2> QED
    BY <2>1, <2>2, IndexFound
<1>6. CASE s.wins[k].id \notin doomed
  <2>1. Thin(s, doomed, k, t) = t
    BY <1>6 DEF Thin
  <2>2. Thinned(s, doomed, k, t)
    <3> HIDE DEF n, m, w, x
    <3>1. \/ m = 2
          \/ \A j \in 1..k : j < n /\ s.wins[j].id \in doomed =>
               \A i \in 1..m : t.wins[i].id # s.wins[j].id
      BY <1>1, <1>3, <1>6
    <3>2. \A j \in (k + 1)..n : \E i \in 1..m : t.wins[i].id = s.wins[j].id
      BY <1>1, <1>2
    <3> QED
      BY <1>1, <3>1, <3>2 DEF Thinned, n, m
  <2> QED
    BY <2>1, <2>2
<1>7. CASE s.wins[k].id \in doomed
  <2>1. Thin(s, doomed, k, t) = x
    BY <1>7 DEF Thin
  <2> HIDE DEF w, x
  <2>2. /\ Fine(x)
        /\ w = m \/ m = 2 => x = t
        /\ w # m /\ m # 2 => Less(t, w, x)
    BY <1>5, DelWinFine DEF x
  <2>3. CASE w = m \/ m = 2
    <3>1. m = 2 \/ k = n
      <4>1. n \in 1..n
        BY <1>0
      <4> HIDE DEF n, m
      <4> QED
        BY <1>0, <1>1, <1>4, <1>5, <2>3, <4>1
    <3>2. \/ m = 2
          \/ \A j \in 1..k : j < n /\ s.wins[j].id \in doomed =>
               \A i \in 1..m : t.wins[i].id # s.wins[j].id
      <4> HIDE DEF n, m
      <4>1. ASSUME m # 2, NEW j \in 1..k, j < n PROVE j \in 1..(k - 1)
        BY <1>0, <1>3, <3>1, <4>1
      <4> QED
        BY <1>1, <4>1
    <3>3. \A j \in (k + 1)..n : \E i \in 1..m : t.wins[i].id = s.wins[j].id
      BY <1>1, <1>2
    <3>4. Thinned(s, doomed, k, t)
      <4> HIDE DEF n, m
      <4> QED
        BY <1>1, <3>2, <3>3 DEF Thinned, n, m
    <3> QED
      BY <2>1, <2>2, <2>3, <3>4
  <2>4. CASE w # m /\ m # 2
    <3>1. Less(t, w, x) /\ w \in 1..(Len(t.wins) - 1)
      BY <1>0, <1>5, <2>2, <2>4
    <3>2. /\ \A i \in 1..Len(x.wins) : \E q \in 1..m :
               q # w /\ x.wins[i].id = t.wins[q].id /\ x.wins[i].buf = t.wins[q].buf
          /\ \A q \in 1..m : q # w => \E i \in 1..Len(x.wins) : x.wins[i].id = t.wins[q].id
          /\ x.wins[Len(x.wins)].id = t.wins[m].id /\ x.wins[Len(x.wins)].buf = t.wins[m].buf
          /\ t.cur # w => x.wins[x.cur].id = t.wins[t.cur].id
      BY <3>1, LessWins
    <3>3. /\ x.list = t.list /\ Lines(x.wins) = Lines(t.wins)
          /\ t.cur # w => x.bf = t.bf
          /\ t.cur < m => x.cur < Len(x.wins)
          /\ t.cur = w => x.bf = IF Deleted(x, x.wins[x.cur].buf) THEN 0 ELSE x.wins[x.cur].buf
          /\ Fewer(t, x)
      BY <3>1 DEF Less
    <3>4. \A i, j \in 1..m : t.wins[i].id = t.wins[j].id => i = j
      BY DEF Fine, Distinct
    <3>5. x.cur \in 1..Len(x.wins)
      BY <2>2, FineFields
    <3> HIDE DEF n, m
    <3>6. \A i \in 1..Len(x.wins) : \E j \in 1..n :
            x.wins[i].id = s.wins[j].id /\ x.wins[i].buf = s.wins[j].buf
      BY <1>1, <3>2
    <3>7. ASSUME NEW j \in (k + 1)..n
          PROVE  \E i \in 1..Len(x.wins) : x.wins[i].id = s.wins[j].id
      <4>1. PICK q \in 1..m : t.wins[q].id = s.wins[j].id
        BY <1>1, <1>2
      <4>2. q # w
        <5>1. j # k /\ j \in 1..n
          BY <1>0
        <5> QED
          BY <1>0, <1>4, <1>5, <4>1, <5>1
      <4>3. PICK i \in 1..Len(x.wins) : x.wins[i].id = t.wins[q].id
        BY <3>2, <4>2
      <4> QED
        BY <4>1, <4>3
    <3>8. ASSUME NEW j \in 1..k, j < n, s.wins[j].id \in doomed, NEW i \in 1..Len(x.wins)
          PROVE  x.wins[i].id # s.wins[j].id
      <4>1. PICK q \in 1..m : q # w /\ x.wins[i].id = t.wins[q].id
        BY <3>2
      <4>2. CASE j = k
        BY <1>5, <3>4, <4>1, <4>2
      <4>3. CASE j \in 1..(k - 1)
        BY <1>1, <2>4, <3>8, <4>1, <4>3
      <4> QED
        BY <1>3, <4>2, <4>3
    <3>9. s.wins[s.cur].id \notin doomed => x.bf = s.bf /\ x.wins[x.cur].id = s.wins[s.cur].id
      BY <1>1, <1>5, <1>7, <3>2, <3>3
    <3>10. ASSUME s.bf # 0, \A i \in 1..n : ~Deleted(s, s.wins[i].buf) PROVE x.bf # 0
      <4>1. CASE t.cur # w
        BY <1>1, <3>3, <3>10, <4>1
      <4>2. CASE t.cur = w
        <5>1. PICK j \in 1..n : x.wins[x.cur].buf = s.wins[j].buf
          BY <3>5, <3>6
        <5>2. ~Deleted(x, x.wins[x.cur].buf)
          BY <1>1, <3>3, <3>10, <5>1 DEF Deleted
        <5>3. x.wins[x.cur].buf # 0
          BY <2>2, <5>2, NoBuffer
        <5> QED
          BY <3>3, <4>2, <5>2, <5>3
      <4> QED
        BY <4>1, <4>2
    <3>11. s.cur < n => x.cur < Len(x.wins)
      BY <1>1, <3>3
    <3>12. /\ x.list = s.list /\ Lines(x.wins) = Lines(s.wins)
           /\ x.wins[Len(x.wins)].id = s.wins[n].id /\ x.wins[Len(x.wins)].buf = s.wins[n].buf
      BY <1>1, <3>2, <3>3
    <3>13. x.bf \in {0, s.bf} \/ \E j \in 1..n : x.bf = s.wins[j].buf
      <4>1. CASE t.cur # w
        BY <1>1, <3>3, <4>1
      <4>2. CASE t.cur = w
        BY <3>3, <3>5, <3>6, <4>2
      <4> QED
        BY <4>1, <4>2
    <3>f. Fewer(s, x)
      BY <1>1, <3>3, FewerTrans
    <3>14. Thinned(s, doomed, k, x)
      BY <3>6, <3>7, <3>8, <3>9, <3>10, <3>11, <3>12, <3>13, <3>f DEF Thinned, n
    <3> QED
      BY <2>1, <2>2, <3>14
  <2> QED
    BY <2>3, <2>4
<1> QED
  BY <1>6, <1>7

LEMMA DelWinsFine ==
  ASSUME NEW s, Fine(s), NEW doomed
  PROVE  Fine(DelWins(s, doomed)) /\ Thinned(s, doomed, Len(s.wins), DelWins(s, doomed))
<1> DEFINE S == [ k \in 0..Len(s.wins) |-> { t \in Screen : Fine(t) /\ Thinned(s, doomed, k, t) } ]
<1>1. Len(s.wins) \in Nat /\ s \in Screen
  BY FineFields DEF Fine
<1>2. s \in S[0]
  BY <1>1, ThinnedFirst
<1>3. Thins(s, doomed, S)
  <2> SUFFICES ASSUME NEW k \in 1..Len(s.wins), NEW t \in S[k - 1]
               PROVE  Thin(s, doomed, k, t) \in S[k]
    BY DEF Thins
  <2>1. k - 1 \in 0..Len(s.wins) /\ k \in 0..Len(s.wins)
    BY <1>1
  <2>2. Fine(t) /\ Thinned(s, doomed, k - 1, t)
    BY <2>1
  <2> DEFINE x == Thin(s, doomed, k, t)
  <2>3. Fine(x) /\ Thinned(s, doomed, k, x)
    BY <2>2, ThinnedNext
  <2>4. x \in Screen
    BY <2>3 DEF Fine
  <2> HIDE DEF x
  <2> QED
    BY <2>1, <2>3, <2>4 DEF x
<1> DEFINE u == DelWins(s, doomed)
<1>4. u \in S[Len(s.wins)]
  <2> HIDE DEF S
  <2> QED
    BY <1>1, <1>2, <1>3, DelWinsLoop
<1> HIDE DEF u
<1>5. Fine(u) /\ Thinned(s, doomed, Len(s.wins), u)
  BY <1>1, <1>4
<1> QED
  BY <1>5 DEF u

(***************************************************************************)
(* Finding a window for a buffer.                                          *)
(***************************************************************************)
(* t is s, perhaps with windows added on the buffers that have one.        *)
Grown(s, t) ==
  /\ t.list = s.list /\ Lines(t.wins) = Lines(s.wins) /\ Len(t.wins) >= Len(s.wins)
  /\ t.wins[Len(t.wins)].buf = s.wins[Len(s.wins)].buf
  /\ \A i \in 1..Len(t.wins) : \E j \in 1..Len(s.wins) : t.wins[i].buf = s.wins[j].buf
  /\ s.cur < Len(s.wins) => t.cur < Len(t.wins)
  /\ s.bf # 0 => t.bf # 0
  /\ ~Deleted(s, s.bf) => t.bf = s.bf
  /\ More(s, t)

LEMMA GrownSelf ==
  ASSUME NEW s, Fine(s)
  PROVE  Grown(s, s)
BY FineFields, StillSelf, StillMore DEF Grown

LEMMA GrownTrans ==
  ASSUME NEW s, NEW t, NEW u, Fine(s), Fine(t), Fine(u), Grown(s, t), Grown(t, u)
  PROVE  Grown(s, u)
<1>1. Len(s.wins) \in Nat /\ Len(t.wins) \in Nat /\ Len(u.wins) \in Nat
  BY FineFields
<1>2. \A i \in 1..Len(u.wins) : \E j \in 1..Len(s.wins) : u.wins[i].buf = s.wins[j].buf
  BY DEF Grown
<1>3. /\ t.list = s.list /\ u.list = t.list
      /\ Len(t.wins) >= Len(s.wins) /\ Len(u.wins) >= Len(t.wins)
      /\ s.cur < Len(s.wins) => t.cur < Len(t.wins)
      /\ t.cur < Len(t.wins) => u.cur < Len(u.wins)
      /\ s.bf # 0 => t.bf # 0
      /\ t.bf # 0 => u.bf # 0
      /\ ~Deleted(s, s.bf) => t.bf = s.bf
      /\ ~Deleted(t, t.bf) => u.bf = t.bf
  BY DEF Grown
<1>4. Lines(u.wins) = Lines(s.wins) /\ u.wins[Len(u.wins)].buf = s.wins[Len(s.wins)].buf
  BY DEF Grown
<1>5. Len(u.wins) >= Len(s.wins)
  BY <1>1, <1>3
<1>6. ~Deleted(s, s.bf) => u.bf = s.bf
  BY <1>3 DEF Deleted
<1>7. More(s, u)
  <2>1. More(s, t) /\ More(t, u)
    BY DEF Grown
  <2> QED
    BY <2>1, MoreTrans
<1> QED
  BY <1>2, <1>3, <1>4, <1>5, <1>6, <1>7 DEF Grown

(* The bottom window has the height that it had. *)
SameFoot(s, t) == t.wins[Len(t.wins)].height = s.wins[Len(s.wins)].height

LEMMA SplitGrown ==
  ASSUME NEW s, Fine(s), NEW w \in 1..Len(s.wins)
  PROVE  LET t == SplitWin(s, w)
         IN  /\ Fine(t) /\ Grown(s, t) /\ SplitOff(s, w) \in 1..Len(t.wins)
             /\ t.wins[SplitOff(s, w)].buf = s.wins[w].buf
             /\ w < Len(s.wins) => SplitOff(s, w) \in 1..(Len(t.wins) - 1) /\ SameFoot(s, t)
<1>0. Len(s.wins) \in Nat /\ w \in Nat /\ s.cur \in 1..Len(s.wins)
  BY FineFields
<1>1. CASE ~Splits(s, w)
  <2>1. SplitWin(s, w) = s /\ SplitOff(s, w) = w
    BY <1>1 DEF SplitWin, SplitOff
  <2> QED
    BY <1>0, <2>1, GrownSelf DEF SameFoot
<1>2. CASE Splits(s, w)
  <2> DEFINE t == SplitWin(s, w)
             n == Len(s.wins)
  <2>1. Fine(t) /\ Split(s, w, t)
    BY <1>2, SplitWinFine
  <2>2. SplitOff(s, w) = w + 1
    BY <1>2 DEF SplitOff
  <2> HIDE DEF t
  <2>3. /\ Len(t.wins) = n + 1 /\ t.list = s.list
        /\ t.cur = (IF s.cur > w THEN s.cur + 1 ELSE s.cur)
        /\ \A i \in 1..w : t.wins[i].buf = s.wins[i].buf
        /\ t.wins[w + 1].buf = s.wins[w].buf
        /\ \A i \in (w + 2)..(n + 1) : /\ t.wins[i].buf = s.wins[i - 1].buf
                                       /\ t.wins[i].height = s.wins[i - 1].height
        /\ Lines(t.wins) = Lines(s.wins)
        /\ s.bf # 0 => t.bf # 0
        /\ ~Deleted(s, s.bf) => t.bf = s.bf
        /\ More(s, t)
    BY <2>1 DEF Split, Alike
  <2> HIDE DEF n
  <2>4. n \in Nat /\ w \in 1..n /\ w \in Nat /\ s.cur \in 1..n
    BY <1>0 DEF n
  <2>5. ASSUME NEW i \in 1..(n + 1) PROVE \E j \in 1..n : t.wins[i].buf = s.wins[j].buf
    <3>1. CASE i <= w
      <4>1. i \in 1..w /\ i \in 1..n
        BY <2>4, <3>1
      <4> QED
        BY <2>3, <4>1
    <3>2. CASE i = w + 1
      BY <2>3, <2>4, <3>2
    <3>3. CASE i > w + 1
      <4>1. i \in (w + 2)..(n + 1) /\ i - 1 \in 1..n
        BY <2>4, <3>3
      <4> QED
        BY <2>3, <4>1
    <3> QED
      BY <2>4, <3>1, <3>2, <3>3
  <2>6. t.wins[n + 1].buf = s.wins[n].buf
    <3>1. CASE w = n
      BY <2>3, <3>1
    <3>2. CASE w # n
      <4>1. n + 1 \in (w + 2)..(n + 1) /\ (n + 1) - 1 = n
        BY <2>4, <3>2
      <4> QED
        BY <2>3, <4>1
    <3> QED
      BY <3>1, <3>2
  <2>7. s.cur < n => t.cur < n + 1
    BY <2>3, <2>4
  <2>8. Grown(s, t)
    BY <2>3, <2>4, <2>5, <2>6, <2>7 DEF Grown, n
  <2>9. w + 1 \in 1..(n + 1) /\ (w < n => w + 1 \in 1..((n + 1) - 1))
    BY <2>4
  <2>10. w < n => t.wins[n + 1].height = s.wins[n].height
    <3>1. w < n => n + 1 \in (w + 2)..(n + 1) /\ (n + 1) - 1 = n
      BY <2>4
    <3> QED
      BY <2>3, <3>1
  <2> QED
    BY <2>1, <2>2, <2>3, <2>8, <2>9, <2>10 DEF t, n, SameFoot
<1> QED
  BY <1>1, <1>2

LEMMA LargestFine ==
  ASSUME NEW s, Fine(s)
  PROVE  LargestWindow(s) \in 1..(Len(s.wins) - 1)
<1> DEFINE n == Len(s.wins) - 1
           f == [ i \in 1..n |-> s.wins[i].height ]
           T == { f[i] : i \in 1..n }
           C == { i \in 1..n : s.wins[i].height = Max(T) }
<1>1. Len(s.wins) \in Nat /\ Len(s.wins) >= 2
  BY FineFields
<1>2. n \in Nat \ {0} /\ \A i \in 1..n : i \in 1..Len(s.wins)
  <2>1. n \in Nat /\ n # 0
    <3> DEFINE k == Len(s.wins)
    <3>1. k \in Nat /\ k >= 2 /\ n = k - 1
      BY <1>1
    <3> HIDE DEF k, n
    <3> QED
      BY <3>1
  <2>2. \A i \in 1..n : i \in 1..Len(s.wins)
    BY <1>1
  <2> QED
    BY <2>1, <2>2
<1>3. f \in [ 1..n -> Int ] /\ \A i \in 1..n : f[i] = s.wins[i].height
  BY <1>2, WinFields
<1>4. T = { s.wins[i].height : i \in 1..n }
  OBVIOUS
<1>5. LargestWindow(s) = Min(C)
  BY <1>4 DEF LargestWindow, LargestHeight, TextWindows
<1> HIDE DEF f
<1>6. Max(T) \in T
  <2> HIDE DEF n
  <2> QED
    BY <1>2, <1>3, MaxOfImage
<1> HIDE DEF T
<1>7. C # {} /\ C \in SUBSET Nat /\ C \in SUBSET (1..n)
  <2>1. \E i \in 1..n : f[i] = Max(T)
    BY <1>6 DEF T
  <2> QED
    BY <1>3, <2>1
<1> HIDE DEF C
<1> QED
  BY <1>5, <1>7, MinIsLeast

LEMMA LargestGrown ==
  ASSUME NEW s, Fine(s)
  PROVE  Fine(SplitLargestWindow(s)) /\ Grown(s, SplitLargestWindow(s))
<1> DEFINE w == LargestWindow(s)
<1>1. w \in 1..Len(s.wins)
  BY LargestFine, FineFields
<1>2. SplitLargestWindow(s) = SplitWin(s, w)
  BY DEF SplitLargestWindow
<1> HIDE DEF w
<1> QED
  BY <1>1, <1>2, SplitGrown

LEMMA LRUwinFine ==
  ASSUME NEW s, Fine(s)
  PROVE  LET r == LRUwin(s)
         IN  Fine(r.at) /\ Grown(s, r.at) /\ SameFoot(s, r.at) /\ r.w \in 1..(Len(r.at.wins) - 1)
<1> DEFINE empty  == { i \in TextWindows(s) : Empty(s, s.wins[i].buf) }
           others == TextWindows(s) \ {s.cur}
           uses   == { s.wins[i].use : i \in others }
           last   == { i \in others : s.wins[i].use = Min(uses) }
           w      == LargestWindow(s)
<1>0. Len(s.wins) \in Nat /\ Len(s.wins) >= 2 /\ TextWindows(s) = 1..(Len(s.wins) - 1)
  BY FineFields DEF TextWindows
<1>1. CASE empty # {}
  <2>1. LRUwin(s) = [ at |-> s, w |-> Min(empty) ]
    BY <1>1 DEF LRUwin
  <2>2. empty \in SUBSET Nat /\ empty \in SUBSET (1..(Len(s.wins) - 1))
    BY <1>0
  <2> HIDE DEF empty
  <2>3. Min(empty) \in 1..(Len(s.wins) - 1)
    BY <1>1, <2>2, MinIsLeast
  <2> QED
    BY <2>1, <2>3, GrownSelf DEF SameFoot
<1>2. CASE empty = {} /\ (others = {} \/ LargestHeight(s) >= scene.SplitHeightThreshhold)
  <2>1. LRUwin(s) = [ at |-> SplitLargestWindow(s), w |-> SplitOff(s, w) ]
    BY <1>2 DEF LRUwin
  <2>2. w \in 1..(Len(s.wins) - 1)
    BY LargestFine
  <2>3. SplitLargestWindow(s) = SplitWin(s, w)
    BY DEF SplitLargestWindow
  <2> HIDE DEF w
  <2>4. w \in 1..Len(s.wins) /\ w < Len(s.wins)
    BY <1>0, <2>2
  <2> QED
    BY <2>1, <2>3, <2>4, SplitGrown
<1>3. CASE empty = {} /\ ~(others = {} \/ LargestHeight(s) >= scene.SplitHeightThreshhold)
  <2>1. LRUwin(s) = [ at |-> s, w |-> Min(last) ]
    BY <1>3 DEF LRUwin
  <2>2. \A i \in others : i \in 1..Len(s.wins) /\ i \in 1..(Len(s.wins) - 1) /\ s.wins[i].use \in Nat
    <3>1. \A i \in others : i \in 1..Len(s.wins) /\ i \in 1..(Len(s.wins) - 1)
      BY <1>0
    <3> QED
      BY <3>1, WinFields
  <2> HIDE DEF others
  <2>3. uses \in SUBSET Nat /\ uses # {}
    BY <1>3, <2>2
  <2>4. Min(uses) \in uses
    <3> HIDE DEF uses
    <3> QED
      BY <2>3, MinIsLeast
  <2>5. last # {} /\ last \in SUBSET Nat /\ last \in SUBSET (1..(Len(s.wins) - 1))
    <3>1. PICK i \in others : s.wins[i].use = Min(uses)
      BY <2>4
    <3>2. i \in last
      BY <3>1
    <3> HIDE DEF uses
    <3> QED
      BY <2>2, <3>2
  <2> HIDE DEF last
  <2>6. Min(last) \in 1..(Len(s.wins) - 1)
    BY <2>5, MinIsLeast
  <2> QED
    BY <2>1, <2>6, GrownSelf DEF SameFoot
<1> QED
  BY <1>1, <1>2, <1>3

(* t is s with, in some window that is now the current one, buffer b.      *)
Shown(s, b, t) ==
  /\ t.list = s.list /\ Lines(t.wins) = Lines(s.wins)
  /\ PopUpWindows => t.wins[Len(t.wins)].buf = s.wins[Len(s.wins)].buf
  /\ (s.cur < Len(s.wins) /\ s.wins[Len(s.wins)].buf # b) =>
       t.cur < Len(t.wins) /\ t.wins[Len(t.wins)].buf = s.wins[Len(s.wins)].buf
  /\ \A i \in 1..Len(t.wins) :
       t.wins[i].buf = b \/ \E j \in 1..Len(s.wins) : t.wins[i].buf = s.wins[j].buf
  /\ ~Deleted(s, b) => t.bf = b
  /\ Len(t.wins) >= Len(s.wins) /\ SameFoot(s, t)
  /\ (\A i \in 1..Len(s.wins) : ~Deleted(s, s.wins[i].buf)) =>
       t.bf # 0 /\ \A i \in 1..Len(t.wins) : ~Deleted(t, t.wins[i].buf)
  /\ ~Deleted(s, b) => Calm(s, t)

LEMMA WindowOnFine ==
  ASSUME NEW s, Fine(s), NEW b \in Buffers
  PROVE  Fine(WindowOn(s, b)) /\ Shown(s, b, WindowOn(s, b))
<1> DEFINE pick == IF Current(s).buf = b     THEN [ at |-> s, w |-> s.cur ]
                   ELSE IF Showing(s, b) # {} THEN [ at |-> s, w |-> Min(Showing(s, b)) ]
                   ELSE IF PopUpWindows       THEN LRUwin(s)
                   ELSE [ at |-> s, w |-> s.cur ]
           a == pick.at
           w == pick.w
           x == TieWin(a, w, b)
           t == SetWin(x, w)
<1>0. Len(s.wins) \in Nat /\ s.cur \in 1..Len(s.wins) /\ Len(s.wins) >= 2
  BY FineFields
<1>1. WindowOn(s, b) = t
  BY DEF WindowOn
<1>2. /\ Fine(a) /\ Grown(s, a) /\ SameFoot(s, a) /\ w \in 1..Len(a.wins)
      /\ \/ w < Len(a.wins)
         \/ a.wins[w].buf = b
         \/ ~PopUpWindows /\ a = s /\ w = s.cur
      /\ s.cur < Len(s.wins) /\ s.wins[Len(s.wins)].buf # b => w < Len(a.wins)
  <2>1. CASE Current(s).buf = b
    <3>1. a = s /\ w = s.cur
      BY <2>1
    <3> HIDE DEF a, w
    <3> QED
      BY <1>0, <2>1, <3>1, GrownSelf DEF Current, SameFoot
  <2>2. CASE Current(s).buf # b /\ Showing(s, b) # {}
    <3>1. a = s /\ w = Min(Showing(s, b))
      BY <2>2
    <3> HIDE DEF a, w
    <3>2. Showing(s, b) \in SUBSET Nat
      BY <1>0 DEF Showing
    <3>3. w \in Showing(s, b)
      BY <2>2, <3>1, <3>2, MinIsLeast
    <3>4. w \in 1..Len(s.wins) /\ s.wins[w].buf = b
      BY <3>3 DEF Showing
    <3> QED
      BY <1>0, <3>1, <3>4, GrownSelf DEF SameFoot
  <2>3. CASE Current(s).buf # b /\ Showing(s, b) = {} /\ PopUpWindows
    <3>1. a = LRUwin(s).at /\ w = LRUwin(s).w
      BY <2>3
    <3> HIDE DEF a, w
    <3>2. Fine(a) /\ Grown(s, a) /\ SameFoot(s, a) /\ w \in 1..(Len(a.wins) - 1)
      BY <3>1, LRUwinFine
    <3>3. Len(a.wins) \in Nat
      BY <3>2, FineFields
    <3> QED
      BY <3>2, <3>3
  <2>4. CASE Current(s).buf # b /\ Showing(s, b) = {} /\ ~PopUpWindows
    <3>1. a = s /\ w = s.cur
      BY <2>4
    <3> HIDE DEF a, w
    <3> QED
      BY <1>0, <2>4, <3>1, GrownSelf DEF SameFoot
  <2> QED
    BY <2>1, <2>2, <2>3, <2>4
<1> HIDE DEF a, w
<1>3. Fine(x) /\ Retied(a, w, b, x)
  BY <1>2, TieWinFine
<1> HIDE DEF x
<1>4. /\ Len(x.wins) = Len(a.wins) /\ x.list = a.list
      /\ \A i \in 1..Len(a.wins) : i # w => x.wins[i].buf = a.wins[i].buf
      /\ x.wins[w].buf = IF Deleted(a, b) THEN a.wins[w].buf ELSE b
  BY <1>3 DEF Retied
<1>5. Lines(x.wins) = Lines(a.wins)
  <2>1. a.wins \in Seq(Win) /\ x.wins \in Seq(Win) /\ Lines(a.wins) \in Int
    BY <1>2, <1>3, FineFields, LinesNumber
  <2>2. \A i \in 1..Len(a.wins) : x.wins[i].height = a.wins[i].height /\ x.wins[i].height \in Int
    BY <1>3, <1>4, WinFields DEF Retied
  <2>3. Lines(x.wins) = Lines(a.wins) + x.wins[w].height - a.wins[w].height
    BY <1>2, <1>4, <2>1, <2>2, LinesChanged
  <2> QED
    BY <1>2, <2>1, <2>2, <2>3
<1>6. /\ Fine(t) /\ Same(x, t) /\ t.cur = w
      /\ t.bf = IF Deleted(x, x.wins[w].buf) THEN 0 ELSE x.wins[w].buf
      /\ \A i \in 1..Len(x.wins) :
           i # x.cur \/ ~Deleted(x, x.wins[w].buf) => SamePlace(x, i, t, i)
  BY <1>2, <1>3, <1>4, SetWinFine
<1> HIDE DEF t
<1>7. Lines(t.wins) = Lines(x.wins)
  BY <1>3, <1>6, SameLines
<1>8. /\ Len(t.wins) = Len(a.wins) /\ t.list = s.list /\ a.list = s.list
      /\ \A i \in 1..Len(a.wins) : t.wins[i].buf = x.wins[i].buf
  BY <1>2, <1>4, <1>6 DEF Same, SameWins, Alike, Grown
<1>9. Len(a.wins) \in Nat /\ Len(a.wins) >= 2
  BY <1>2, FineFields
<1>10. a.wins[Len(a.wins)].buf = s.wins[Len(s.wins)].buf
  BY <1>2 DEF Grown
<1>11. w < Len(a.wins) \/ a.wins[w].buf = b =>
         t.wins[Len(t.wins)].buf = s.wins[Len(s.wins)].buf
  <2>1. Len(a.wins) \in 1..Len(a.wins)
    BY <1>9
  <2>2. CASE w = Len(a.wins)
    BY <1>4, <1>8, <1>9, <1>10, <2>1, <2>2
  <2>3. CASE w # Len(a.wins)
    BY <1>4, <1>8, <1>9, <1>10, <2>1, <2>3
  <2> QED
    BY <2>2, <2>3
<1>12. ~Deleted(s, b) => t.bf = b
  BY <1>4, <1>6, <1>8 DEF Deleted
<1>13. ASSUME NEW i \in 1..Len(t.wins)
       PROVE  t.wins[i].buf = b \/ \E j \in 1..Len(s.wins) : t.wins[i].buf = s.wins[j].buf
  <2>1. i \in 1..Len(a.wins) /\ t.wins[i].buf = x.wins[i].buf
    BY <1>8
  <2>2. x.wins[i].buf = b \/ x.wins[i].buf = a.wins[i].buf
    BY <1>4, <2>1
  <2> QED
    BY <1>2, <2>1, <2>2 DEF Grown
<1>14. Lines(t.wins) = Lines(s.wins)
  BY <1>2, <1>5, <1>7 DEF Grown
<1>15. Len(t.wins) >= Len(s.wins) /\ SameFoot(s, t)
  <2>1. /\ Len(a.wins) \in 1..Len(a.wins) /\ Len(a.wins) >= Len(s.wins)
        /\ a.wins[Len(a.wins)].height = s.wins[Len(s.wins)].height
    BY <1>2, <1>9 DEF Grown, SameFoot
  <2>2. x.wins[Len(a.wins)].height = a.wins[Len(a.wins)].height
    BY <1>3, <2>1 DEF Retied
  <2>3. t.wins[Len(a.wins)].height = x.wins[Len(a.wins)].height
    BY <1>4, <1>6, <2>1 DEF Same, SameWins, Alike
  <2> QED
    BY <1>8, <2>1, <2>2, <2>3 DEF SameFoot
<1>16. ASSUME \A i \in 1..Len(s.wins) : ~Deleted(s, s.wins[i].buf)
       PROVE  t.bf # 0 /\ \A i \in 1..Len(t.wins) : ~Deleted(t, t.wins[i].buf)
  <2>1. ASSUME NEW i \in 1..Len(a.wins) PROVE ~Deleted(x, x.wins[i].buf)
    <3>1. \A j \in 1..Len(a.wins) : ~Deleted(s, a.wins[j].buf)
      BY <1>2, <1>16 DEF Grown
    <3>2. ~Deleted(a, b) => ~Deleted(s, b)
      BY <1>8 DEF Deleted
    <3>3. ~Deleted(s, x.wins[i].buf)
      BY <1>4, <3>1, <3>2
    <3> QED
      BY <1>4, <1>8, <3>3 DEF Deleted
  <2>2. t.bf = x.wins[w].buf
    BY <1>2, <1>6, <2>1
  <2>3. x.wins[w].buf # 0
    BY <1>2, <1>3, <2>1, NoBuffer
  <2> QED
    BY <1>4, <1>8, <2>1, <2>2, <2>3 DEF Deleted
<1>18. ASSUME ~Deleted(s, b) PROVE Calm(s, t)
  <2>1. ~Deleted(x, x.wins[w].buf)
    BY <1>4, <1>8, <1>18 DEF Deleted
  <2>2. Still(x, t)
    BY <1>6, <2>1 DEF Still, Same, SameWins
  <2>3. Loyal(a, t)
    BY <1>3, <2>2, LoyalStill DEF Retied
  <2> QED
    BY <1>2, <2>3 DEF Calm, Grown
<1>17. Shown(s, b, t)
  BY <1>2, <1>6, <1>8, <1>11, <1>12, <1>13, <1>14, <1>15, <1>16, <1>18 DEF Shown
<1> QED
  BY <1>1, <1>6, <1>17

(***************************************************************************)
(* Deleting a buffer.                                                      *)
(***************************************************************************)
LEMMA UnlinkedFine ==
  ASSUME NEW s, Fine(s), NEW b, ~Deleted(s, b), b # minibuf
  PROVE  LET t == Unlinked(s, b)
         IN  /\ Fine(t) /\ t.wins = s.wins /\ t.cur = s.cur /\ t.bf = s.bf /\ t.dot = s.dot
             /\ Len(t.list) = Len(s.list) - 1
             /\ \A c : ~Deleted(t, c) <=> c # b /\ ~Deleted(s, c)
<1> DEFINE k == CHOOSE i \in 1..Len(s.list) : s.list[i] = b
           l == RemoveAt(s.list, k)
           t == [ s EXCEPT !.list = l ]
           n == Len(s.list)
<1>0. s \in Screen /\ s.list \in Seq(Buffers) /\ Len(s.list) \in Nat /\ Chained(s.list)
  BY FineFields DEF Fine
<1>1. Unlinked(s, b) = t
  BY DEF Unlinked
<1>2. k \in 1..n /\ s.list[k] = b
  <2>1. \E i \in 1..n : s.list[i] = b
    BY DEF Deleted, Contains
  <2> QED
    BY <2>1
<1> HIDE DEF k
<1>3. l \in Seq(Buffers) /\ Without(s.list, k, l)
  BY <1>0, <1>2, Removed
<1> HIDE DEF l
<1>4. /\ Len(l) = n - 1
      /\ \A i \in 1..(k - 1) : l[i] = s.list[i]
      /\ \A i \in k..(n - 1) : l[i] = s.list[i + 1]
  BY <1>3 DEF Without
<1>5. /\ t \in Screen /\ t.wins = s.wins /\ t.cur = s.cur /\ t.bf = s.bf /\ t.dot = s.dot
      /\ t.list = l
  BY <1>0, <1>3 DEF Screen
<1> HIDE DEF t
<1>6. n \in Nat /\ n > 0 /\ s.list[n] = minibuf /\ k \in Nat /\ k # n
      /\ \A i, j \in 1..n : s.list[i] = s.list[j] => i = j
  BY <1>0, <1>2 DEF Chained
<1>7. Len(t.list) = n - 1
  BY <1>4, <1>5
<1> HIDE DEF n
<1>8. n - 1 > 0 /\ l[n - 1] = minibuf
  <2>1. n - 1 \in k..(n - 1) /\ (n - 1) + 1 = n /\ n - 1 > 0
    BY <1>2, <1>6
  <2> QED
    BY <1>4, <1>6, <2>1
<1>9. \A i \in 1..(n - 1) : \E q \in 1..n : l[i] = s.list[q] /\ q = IF i < k THEN i ELSE i + 1
  <2> TAKE i \in 1..(n - 1)
  <2>1. CASE i < k
    <3>1. i \in 1..(k - 1) /\ i \in 1..n
      BY <1>6, <2>1
    <3> QED
      BY <1>4, <2>1, <3>1
  <2>2. CASE ~(i < k)
    <3>1. i \in k..(n - 1) /\ i + 1 \in 1..n
      BY <1>6, <2>2
    <3> QED
      BY <1>4, <2>2, <3>1
  <2> QED
    BY <2>1, <2>2
<1>10. ASSUME NEW i \in 1..(n - 1), NEW j \in 1..(n - 1), l[i] = l[j] PROVE i = j
  <2>1. PICK q \in 1..n : l[i] = s.list[q] /\ q = IF i < k THEN i ELSE i + 1
    BY <1>9
  <2>2. PICK r \in 1..n : l[j] = s.list[r] /\ r = IF j < k THEN j ELSE j + 1
    BY <1>9
  <2>3. q = r
    BY <1>6, <1>10, <2>1, <2>2
  <2>4. i \in Nat /\ j \in Nat
    OBVIOUS
  <2>5. (i < k => q = i) /\ (~(i < k) => q = i + 1) /\ (j < k => r = j) /\ (~(j < k) => r = j + 1)
    BY <2>1, <2>2
  <2> QED
    BY <1>6, <2>3, <2>4, <2>5
<1>11. Chained(l)
  BY <1>4, <1>8, <1>10 DEF Chained
<1>12. ASSUME NEW c PROVE ~Deleted(t, c) <=> c # b /\ ~Deleted(s, c)
  <2>1. ASSUME NEW i \in 1..(n - 1), l[i] = c PROVE c # b /\ ~Deleted(s, c)
    <3>1. PICK q \in 1..n : l[i] = s.list[q] /\ q = IF i < k THEN i ELSE i + 1
      BY <1>9
    <3>2. q # k
      BY <1>6, <3>1
    <3>3. c # b
      BY <1>2, <1>6, <2>1, <3>1, <3>2
    <3> QED
      BY <2>1, <3>1, <3>3 DEF Deleted, Contains, n
  <2>2. ASSUME NEW q \in 1..n, s.list[q] = c, c # b PROVE \E i \in 1..(n - 1) : l[i] = c
    <3>1. CASE q < k
      <4>1. q \in 1..(k - 1) /\ q \in 1..(n - 1)
        BY <1>2, <1>6, <3>1
      <4> QED
        BY <1>4, <2>2, <4>1
    <3>2. CASE q > k
      <4>1. q - 1 \in k..(n - 1) /\ q - 1 \in 1..(n - 1) /\ (q - 1) + 1 = q
        BY <1>2, <1>6, <3>2
      <4> QED
        BY <1>4, <2>2, <4>1
    <3>3. q # k
      BY <1>2, <2>2
    <3> QED
      BY <1>6, <3>1, <3>2, <3>3
  <2> QED
    BY <1>4, <1>5, <2>1, <2>2 DEF Deleted, Contains, n
<1>13. Fine(t)
  BY <1>5, <1>11 DEF Fine
<1> QED
  BY <1>1, <1>5, <1>7, <1>12, <1>13 DEF n

LEMMA ReplacementFine ==
  ASSUME NEW s, Fine(s)
  PROVE  /\ Replacement(s) \in Buffers /\ ~Deleted(s, Replacement(s))
         /\ Replacement(s) = minibuf => Len(s.list) = 1
<1> DEFINE file == { i \in 1..Len(s.list) : s.list[i] \in FileBuffers }
           p == Replacement(s)
<1>0. /\ s.list \in Seq(Buffers) /\ Len(s.list) \in Nat /\ Len(s.list) > 0
      /\ s.list[Len(s.list)] = minibuf
      /\ \A i, j \in 1..Len(s.list) : s.list[i] = s.list[j] => i = j
  BY FineFields DEF Fine, Chained
<1>1. CASE file # {}
  <2>1. Replacement(s) = s.list[Min(file)]
    BY <1>1 DEF Replacement
  <2>2. file \in SUBSET Nat
    OBVIOUS
  <2>3. Min(file) \in file
    <3> HIDE DEF file
    <3> QED
      BY <1>1, <2>2, MinIsLeast
  <2>4. PICK i \in 1..Len(s.list) : s.list[i] \in FileBuffers /\ p = s.list[i]
    BY <2>1, <2>3
  <2>5. p # minibuf
    BY <2>4, BuffersAssumption
  <2> HIDE DEF p, file
  <2>6. p \in Buffers
    BY <1>0, <2>4
  <2>7. ~Deleted(s, p)
    BY <2>4 DEF Deleted, Contains
  <2> QED
    BY <2>5, <2>6, <2>7 DEF p
<1>2. CASE file = {}
  <2>1. p = s.list[1] /\ 1 \in 1..Len(s.list) /\ Len(s.list) \in 1..Len(s.list)
    BY <1>0, <1>2 DEF Replacement
  <2> HIDE DEF p, file
  <2>2. p \in Buffers
    BY <1>0, <2>1
  <2>3. ~Deleted(s, p)
    BY <2>1 DEF Deleted, Contains
  <2>4. p = minibuf => Len(s.list) = 1
    BY <1>0, <2>1
  <2> QED
    BY <2>2, <2>3, <2>4 DEF p
<1> QED
  BY <1>1, <1>2

SameHeights(s, t) ==
  Len(t.wins) = Len(s.wins) /\ \A i \in 1..Len(s.wins) : t.wins[i].height = s.wins[i].height

LEMMA SameHeightsLines ==
  ASSUME NEW s, NEW t, Fine(s), Fine(t), SameHeights(s, t)
  PROVE  Lines(t.wins) = Lines(s.wins)
<1> DEFINE k == 1
<1>1. /\ s.wins \in Seq(Win) /\ t.wins \in Seq(Win) /\ Lines(s.wins) \in Int
      /\ Len(t.wins) = Len(s.wins) /\ k \in 1..Len(s.wins)
  BY FineFields, LinesNumber DEF SameHeights
<1>2. \A i \in 1..Len(s.wins) : t.wins[i].height = s.wins[i].height /\ s.wins[i].height \in Int
  BY WinFields DEF SameHeights
<1> HIDE DEF k
<1>3. Lines(t.wins) = Lines(s.wins) + t.wins[k].height - s.wins[k].height
  BY <1>1, <1>2, LinesChanged
<1> QED
  BY <1>1, <1>2, <1>3

(* Nothing on the screen names a buffer that is not in the chain, and the  *)
(* current window is one above the minibuffer's.                           *)
Quiet(s) == /\ s.bf # 0 /\ ~Deleted(s, s.bf) /\ s.cur < Len(s.wins)
            /\ s.wins[Len(s.wins)].buf = minibuf
            /\ \A i \in 1..Len(s.wins) : ~Deleted(s, s.wins[i].buf)

(* The buffer that DelBuf ties the current window to, if that showed b. *)
Replaced(t, b) == LET p   == Replacement(t)
                      new == Min(Unused(t) \ {b})
                  IN  IF Current(t).buf # b THEN t
                      ELSE IF p # minibuf THEN TieWin(t, t.cur, p)
                      ELSE TieWin(NewBf(t, new), t.cur, new)

LEMMA ReplacedFine ==
  ASSUME NEW t, Fine(t), NEW b, b # minibuf, Unused(t) \ {b} # {} \/ Len(t.list) > 1
  PROVE  LET u == Replaced(t, b)
         IN  /\ Fine(u) /\ SameHeights(t, u) /\ u.cur = t.cur /\ u.bf = t.bf
             /\ \A i \in 1..Len(t.wins) : i # t.cur => u.wins[i].buf = t.wins[i].buf
             /\ t.wins[t.cur].buf # b => u.wins[t.cur].buf = t.wins[t.cur].buf
             /\ t.wins[t.cur].buf = b => ~Deleted(u, u.wins[t.cur].buf)
             /\ \A c : ~Deleted(t, c) => ~Deleted(u, c)
             /\ Loyal(t, u)
<1> DEFINE p   == Replacement(t)
           w   == t.cur
           R   == Unused(t) \ {b}
           new == Min(R)
           e   == NewBf(t, new)
           u   == Replaced(t, b)
<1>0. w \in 1..Len(t.wins) /\ t.list \in Seq(Buffers) /\ Len(t.list) \in Nat
  BY FineFields
<1>1. CASE Current(t).buf # b
  <2>1. u = t
    BY <1>1 DEF Replaced
  <2> QED
    BY <1>1, <2>1, StillSelf, StillLoyal DEF SameHeights, Current
<1>2. CASE Current(t).buf = b /\ p # minibuf
  <2>1. u = TieWin(t, w, p)
    BY <1>2 DEF Replaced
  <2>2. p \in Buffers /\ ~Deleted(t, p)
    BY ReplacementFine
  <2> HIDE DEF w, u, p
  <2>3. Fine(u) /\ Retied(t, w, p, u)
    BY <1>0, <2>1, <2>2, TieWinFine
  <2>4. u.wins[w].buf = p /\ u.list = t.list
    BY <2>2, <2>3 DEF Retied
  <2> QED
    BY <1>2, <2>2, <2>3, <2>4 DEF Retied, SameHeights, Current, w, u, Deleted
<1>3. CASE Current(t).buf = b /\ p = minibuf
  <2>1. u = TieWin(e, w, new)
    BY <1>3 DEF Replaced
  <2>2. R # {} /\ R \in SUBSET Buffers /\ R \in SUBSET Nat /\ \A c \in R : Deleted(t, c)
    <3>1. Len(t.list) = 1
      BY <1>3, ReplacementFine
    <3>2. \A c : ~Deleted(t, c) => c \in Range(t.list)
      BY <1>0 DEF Deleted, Contains, Range
    <3>3. R # {}
      BY <3>1
    <3>4. R \in SUBSET Buffers /\ \A c \in R : c \notin Range(t.list)
      BY DEF Unused
    <3> HIDE DEF R
    <3> QED
      BY <3>2, <3>3, <3>4, BuffersAssumption
  <2> HIDE DEF R
  <2>3. new \in Buffers /\ Deleted(t, new)
    BY <2>2, MinIsLeast
  <2> HIDE DEF new
  <2>4. /\ Fine(e) /\ e.wins = t.wins /\ e.cur = t.cur /\ e.bf = t.bf /\ e.dot = t.dot
        /\ \A c : ~Deleted(e, c) <=> c = new \/ ~Deleted(t, c)
    BY <2>3, NewBfFine
  <2> HIDE DEF w, u, e
  <2>5. Fine(u) /\ Retied(e, w, new, u)
    BY <1>0, <2>1, <2>3, <2>4, TieWinFine
  <2>6. u.wins[w].buf = new /\ u.list = e.list
    BY <2>4, <2>5 DEF Retied
  <2>7. \A c : ~Deleted(e, c) => ~Deleted(u, c)
    BY <2>6 DEF Deleted
  <2>8. Loyal(t, u)
    <3>1. Still(t, e)
      BY <2>4 DEF Still, SamePlace, Place
    <3> QED
      BY <2>5, <3>1, StillThenLoyal DEF Retied
  <2> QED
    BY <1>3, <2>3, <2>4, <2>5, <2>6, <2>7, <2>8 DEF Retied, SameHeights, Current, w, u
<1> QED
  BY <1>1, <1>2, <1>3

(* What DelBuf keeps. *)
Freed(s, t) == /\ Lines(t.wins) = Lines(s.wins)
               /\ s.wins[Len(s.wins)].buf = minibuf => t.wins[Len(t.wins)].buf = minibuf
               /\ Quiet(s) => Quiet(t)

LEMMA DelBufFine ==
  ASSUME NEW s, Fine(s), NEW b, ~Deleted(s, b), b # minibuf,
         Unused(s) # {} \/ Len(s.list) > 2
  PROVE  Fine(DelBuf(s, b)) /\ Freed(s, DelBuf(s, b)) /\ Calm(s, DelBuf(s, b))
<1> DEFINE v == Unlinked(s, b)
           d == Tied(s, b)
           t == DelWins(v, d)
           u == Replaced(t, b)
           c == Current(u).buf
           z == IF c # u.bf THEN SetBfp(u, c) ELSE u
           n == Len(s.wins)
<1>1. DelBuf(s, b) = z
  BY DEF DelBuf, Replaced
<1>2. /\ Fine(v) /\ v.wins = s.wins /\ v.cur = s.cur /\ v.bf = s.bf /\ v.dot = s.dot
      /\ Len(v.list) = Len(s.list) - 1
      /\ \A x : ~Deleted(v, x) <=> x # b /\ ~Deleted(s, x)
  BY UnlinkedFine
<1> HIDE DEF v
<1>3. Fine(t) /\ Thinned(v, d, Len(v.wins), t)
  BY <1>2, DelWinsFine
<1> HIDE DEF t
<1>4. /\ t.list = v.list /\ Lines(t.wins) = Lines(s.wins)
      /\ \A i \in 1..Len(t.wins) : \E j \in 1..n :
           t.wins[i].id = s.wins[j].id /\ t.wins[i].buf = s.wins[j].buf
      /\ t.wins[Len(t.wins)].buf = s.wins[n].buf
      /\ \/ Len(t.wins) = 2
         \/ \A j \in 1..n : j < n /\ s.wins[j].id \in d =>
              \A i \in 1..Len(t.wins) : t.wins[i].id # s.wins[j].id
      /\ s.cur < n => t.cur < Len(t.wins)
      /\ t.bf \in {0, s.bf} \/ \E j \in 1..n : t.bf = s.wins[j].buf
  BY <1>2, <1>3 DEF Thinned
<1>5. \A j \in 1..n : s.wins[j].buf = b => s.wins[j].id \in d
  BY DEF Tied, Showing
<1> HIDE DEF d
<1>6. Unused(t) \ {b} # {} \/ Len(t.list) > 1
  <2>1. Len(s.list) \in Nat /\ Len(t.list) = Len(s.list) - 1
    BY <1>2, <1>4, FineFields
  <2>2. CASE Len(s.list) > 2
    BY <2>1, <2>2
  <2>3. CASE Unused(s) # {}
    <3>1. PICK x : x \in Unused(s)
      BY <2>3
    <3>2. x \in Buffers /\ x \notin Range(s.list) /\ x \notin Held(s) /\ x # 0
      BY <3>1, BuffersAssumption DEF Unused
    <3>3. Deleted(s, x)
      BY <3>2 DEF Deleted, Contains, Range
    <3>4. x # b /\ x \notin Range(t.list)
      <4>1. x # b /\ Deleted(t, x)
        BY <1>2, <1>4, <3>3 DEF Deleted
      <4> QED
        BY <4>1 DEF Deleted, Contains, Range
    <3>5. \A j \in 1..n : s.wins[j].buf # x
      BY <3>2 DEF Held
    <3>6. s.bf # x /\ x \notin UNION { stack[k].holds : k \in 1..Len(stack) }
      BY <3>2 DEF Held
    <3>7. t.bf # x /\ \A i \in 1..Len(t.wins) : t.wins[i].buf # x
      <4> HIDE DEF n
      <4> QED
        BY <1>4, <3>2, <3>5, <3>6
    <3>8. x \notin Held(t)
      BY <3>6, <3>7 DEF Held
    <3> QED
      BY <3>2, <3>4, <3>8 DEF Unused
  <2> QED
    BY <2>2, <2>3
<1>7. /\ Fine(u) /\ SameHeights(t, u) /\ u.cur = t.cur /\ u.bf = t.bf
      /\ \A i \in 1..Len(t.wins) : i # t.cur => u.wins[i].buf = t.wins[i].buf
      /\ t.wins[t.cur].buf # b => u.wins[t.cur].buf = t.wins[t.cur].buf
      /\ t.wins[t.cur].buf = b => ~Deleted(u, u.wins[t.cur].buf)
      /\ \A x : ~Deleted(t, x) => ~Deleted(u, x)
      /\ Loyal(t, u)
  BY <1>3, <1>6, ReplacedFine
<1> HIDE DEF u
<1>8. c \in Buffers /\ c = u.wins[u.cur].buf
  BY <1>7, FineFields, WinFields DEF Current
<1> HIDE DEF c
<1>9. /\ Fine(z) /\ Same(u, z) /\ z.cur = u.cur /\ Still(u, z)
      /\ ~Deleted(u, c) => z.bf = c
  <2>1. CASE c = u.bf
    BY <1>7, <2>1, SameSelf, StillSelf
  <2>2. CASE c # u.bf
    BY <1>7, <1>8, <2>2, SetBfpFine
  <2> QED
    BY <2>1, <2>2
<1> HIDE DEF z
<1>10. /\ Len(u.wins) = Len(t.wins) /\ Len(z.wins) = Len(t.wins) /\ z.list = u.list
       /\ \A i \in 1..Len(t.wins) : z.wins[i].buf = u.wins[i].buf
  BY <1>7, <1>9 DEF SameHeights, Same, SameWins, Alike
<1>11. Lines(z.wins) = Lines(s.wins)
  BY <1>3, <1>4, <1>7, <1>9, SameHeightsLines, SameLines
<1>12. Len(t.wins) \in Nat /\ Len(t.wins) \in 1..Len(t.wins) /\ t.cur \in 1..Len(t.wins)
       /\ Len(t.wins) >= 2
  BY <1>3, FineFields
<1>13. ASSUME s.wins[n].buf = minibuf PROVE z.wins[Len(z.wins)].buf = minibuf
  <2>1. t.wins[Len(t.wins)].buf = minibuf
    BY <1>4, <1>13
  <2>2. u.wins[Len(t.wins)].buf = minibuf
    BY <1>7, <1>12, <2>1
  <2> QED
    BY <1>10, <1>12, <2>2
<1>14. ASSUME Quiet(s) PROVE Quiet(z)
  <2>1. s.cur < n /\ s.wins[n].buf = minibuf /\ \A i \in 1..n : ~Deleted(s, s.wins[i].buf)
    BY <1>14 DEF Quiet
  <2>2. t.cur < Len(t.wins)
    BY <1>4, <2>1
  <2>3. ASSUME NEW i \in 1..Len(t.wins), i # t.cur PROVE t.wins[i].buf # b
    <3> SUFFICES ASSUME t.wins[i].buf = b PROVE FALSE
      OBVIOUS
    <3>1. PICK j \in 1..n : t.wins[i].id = s.wins[j].id /\ t.wins[i].buf = s.wins[j].buf
      BY <1>4
    <3>2. s.wins[j].id \in d /\ j # n
      BY <1>5, <2>1, <3>1
    <3>3. j < n
      <4>1. n \in Nat
        BY FineFields
      <4> HIDE DEF n
      <4> QED
        BY <3>2, <4>1
    <3>4. Len(t.wins) = 2
      BY <1>4, <3>1, <3>2, <3>3
    <3>5. i = 2
      BY <1>12, <2>2, <2>3, <3>4
    <3> QED
      BY <1>4, <2>1, <3>4, <3>5
  <2>4. ASSUME NEW i \in 1..Len(t.wins), t.wins[i].buf # b PROVE ~Deleted(t, t.wins[i].buf)
    <3>1. PICK j \in 1..n : t.wins[i].buf = s.wins[j].buf
      BY <1>4
    <3>2. ~Deleted(v, t.wins[i].buf)
      BY <1>2, <2>1, <2>4, <3>1
    <3> QED
      BY <1>4, <3>2 DEF Deleted
  <2>5. ASSUME NEW i \in 1..Len(t.wins) PROVE ~Deleted(u, u.wins[i].buf)
    <3>1. CASE i # t.cur
      BY <1>7, <2>3, <2>4, <3>1
    <3>2. CASE i = t.cur
      BY <1>7, <2>4, <3>2
    <3> QED
      BY <3>1, <3>2
  <2>6. ~Deleted(u, c)
    BY <1>7, <1>8, <1>12, <2>5
  <2>7. z.bf = c /\ c # 0
    BY <1>9, <1>8, <2>6, BuffersAssumption
  <2> QED
    BY <1>7, <1>9, <1>10, <1>13, <2>1, <2>2, <2>5, <2>6, <2>7 DEF Quiet, Deleted
<1>15. Freed(s, z)
  BY <1>11, <1>13, <1>14 DEF Freed
<1>16. Calm(s, z)
  <2>1. Still(s, v)
    BY <1>2 DEF Still, SamePlace, Place
  <2>2. Fewer(s, t)
    BY <1>3, <2>1, StillMore, FewerTrans DEF Thinned
  <2> QED
    BY <1>3, <1>7, <1>9, <2>2, LoyalStill DEF Calm
<1> QED
  BY <1>1, <1>9, <1>15, <1>16

(***************************************************************************)
(* What a command keeps: the lines, and the minibuffer in the bottom       *)
(* window; and that the screen is quiet.                                   *)
(***************************************************************************)
Kept(s, t) ==
  /\ Lines(t.wins) = Lines(s.wins)
  /\ PopUpWindows /\ s.wins[Len(s.wins)].buf = minibuf => t.wins[Len(t.wins)].buf = minibuf

LEMMA KeptTrans ==
  ASSUME NEW s, NEW t, NEW u, Kept(s, t), Kept(t, u)
  PROVE  Kept(s, u)
BY DEF Kept

LEMMA SameKept ==
  ASSUME NEW s, NEW t, Fine(s), Fine(t), Same(s, t)
  PROVE  Kept(s, t)
<1>1. Lines(t.wins) = Lines(s.wins)
  BY SameLines
<1>2. Len(t.wins) = Len(s.wins) /\ Len(s.wins) \in 1..Len(s.wins)
  BY FineFields DEF Same, SameWins
<1> QED
  BY <1>1, <1>2 DEF Kept, Same, SameWins, Alike

LEMMA SameQuiet ==
  ASSUME NEW s, NEW t, Fine(s), Fine(t), Same(s, t), Quiet(s),
         t.cur < Len(t.wins), t.bf # 0, ~Deleted(t, t.bf)
  PROVE  Quiet(t)
<1>1. Len(t.wins) = Len(s.wins) /\ Len(s.wins) \in 1..Len(s.wins) /\ t.list = s.list
  BY FineFields DEF Same, SameWins
<1>2. \A i \in 1..Len(s.wins) : t.wins[i].buf = s.wins[i].buf
  BY DEF Same, SameWins, Alike
<1> QED
  BY <1>1, <1>2 DEF Quiet, Deleted

LEMMA SetBfpKept ==
  ASSUME NEW s, Fine(s), NEW p \in Buffers \cup {0}
  PROVE  Kept(s, SetBfp(s, p)) /\ (Quiet(s) => Quiet(SetBfp(s, p)))
<1> DEFINE t == SetBfp(s, p)
<1>1. /\ Fine(t) /\ Same(s, t) /\ t.cur = s.cur
      /\ Deleted(s, p) => t = s
      /\ ~Deleted(s, p) => t.bf = p
  BY SetBfpFine
<1> HIDE DEF t
<1>2. Kept(s, t)
  BY <1>1, SameKept
<1>3. ASSUME Quiet(s), ~Deleted(s, p) PROVE Quiet(t)
  <2>1. t.bf # 0 /\ ~Deleted(t, t.bf)
    BY <1>1, <1>3, NoBuffer, SameDeleted
  <2>2. t.cur < Len(t.wins)
    BY <1>1, <1>3 DEF Quiet, Same, SameWins
  <2> QED
    BY <1>1, <1>3, <2>1, <2>2, SameQuiet
<1> QED
  BY <1>1, <1>2, <1>3 DEF t

(* What a choice of window needs for the screen to be quiet. *)
Tidy(s) == /\ s.wins[Len(s.wins)].buf = minibuf
           /\ \A i \in 1..Len(s.wins) : ~Deleted(s, s.wins[i].buf)

LEMMA QuietTidy ==
  ASSUME NEW s, Quiet(s)
  PROVE  Tidy(s)
BY DEF Quiet, Tidy

LEMMA SameTidy ==
  ASSUME NEW s, NEW t, Fine(s), Same(s, t), Tidy(s)
  PROVE  Tidy(t)
<1>1. Len(t.wins) = Len(s.wins) /\ Len(s.wins) \in 1..Len(s.wins) /\ t.list = s.list
  BY FineFields DEF Same, SameWins
<1>2. \A i \in 1..Len(s.wins) : t.wins[i].buf = s.wins[i].buf
  BY DEF Same, SameWins, Alike
<1> QED
  BY <1>1, <1>2 DEF Tidy, Deleted

LEMMA SetWinKept ==
  ASSUME NEW s, Fine(s), NEW w \in 1..Len(s.wins)
  PROVE  Kept(s, SetWin(s, w)) /\ (Tidy(s) /\ w < Len(s.wins) => Quiet(SetWin(s, w)))
<1> DEFINE t == SetWin(s, w)
           b == s.wins[w].buf
<1>1. /\ Fine(t) /\ Same(s, t) /\ t.cur = w
      /\ t.bf = IF Deleted(s, b) THEN 0 ELSE b
  BY SetWinFine
<1> HIDE DEF t
<1>2. Kept(s, t)
  BY <1>1, SameKept
<1>3. ASSUME Tidy(s), w < Len(s.wins) PROVE Quiet(t)
  <2>1. ~Deleted(s, b)
    BY <1>3 DEF Tidy
  <2>2. b # 0
    BY <2>1, NoBuffer
  <2>3. t.bf # 0 /\ ~Deleted(t, t.bf)
    BY <1>1, <2>1, <2>2, SameDeleted
  <2>4. t.cur < Len(t.wins)
    BY <1>1, <1>3 DEF Same, SameWins
  <2>5. Tidy(t)
    BY <1>1, <1>3, SameTidy
  <2> QED
    BY <2>3, <2>4, <2>5 DEF Quiet, Tidy
<1> QED
  BY <1>2, <1>3 DEF t

LEMMA TieWinKept ==
  ASSUME NEW s, Fine(s), NEW w \in 1..Len(s.wins), NEW b \in Buffers, w < Len(s.wins)
  PROVE  Kept(s, TieWin(s, w, b)) /\ (Quiet(s) => Quiet(TieWin(s, w, b)))
<1> DEFINE t == TieWin(s, w, b)
<1>1. Fine(t) /\ Retied(s, w, b, t)
  BY TieWinFine
<1> HIDE DEF t
<1>2. /\ Len(t.wins) = Len(s.wins) /\ t.list = s.list /\ t.cur = s.cur /\ t.bf = s.bf
      /\ SameHeights(s, t)
      /\ \A i \in 1..Len(s.wins) : i # w => t.wins[i].buf = s.wins[i].buf
      /\ t.wins[w].buf = IF Deleted(s, b) THEN s.wins[w].buf ELSE b
  BY <1>1 DEF Retied, SameHeights
<1>3. Len(s.wins) \in 1..Len(s.wins) /\ Len(s.wins) # w
  BY FineFields
<1>4. Kept(s, t)
  BY <1>1, <1>2, <1>3, SameHeightsLines DEF Kept
<1>5. ASSUME Quiet(s) PROVE Quiet(t)
  <2>1. \A i \in 1..Len(s.wins) : ~Deleted(s, t.wins[i].buf)
    BY <1>2, <1>5 DEF Quiet
  <2> QED
    BY <1>2, <1>3, <1>5, <2>1 DEF Quiet, Deleted
<1> QED
  BY <1>4, <1>5 DEF t

LEMMA SetBfnFine ==
  ASSUME NEW s, Fine(s), NEW b \in Buffers
  PROVE  LET t == SetBfn(s, b)
         IN  /\ Fine(t) /\ t.cur = s.cur /\ SameWins(s.wins, t.wins) /\ Kept(s, t)
             /\ t.bf = b /\ ~Deleted(t, b) /\ (Quiet(s) => Quiet(t)) /\ Still(s, t)
<1> DEFINE e == IF Deleted(s, b) THEN NewBf(s, b) ELSE s
           t == SetBfp(e, b)
<1>0. SetBfn(s, b) = t
  BY DEF SetBfn
<1>1. /\ Fine(e) /\ e.wins = s.wins /\ e.cur = s.cur /\ e.bf = s.bf /\ e.dot = s.dot
      /\ ~Deleted(e, b) /\ \A c : ~Deleted(s, c) => ~Deleted(e, c)
  <2>1. CASE Deleted(s, b)
    BY <2>1, NewBfFine
  <2>2. CASE ~Deleted(s, b)
    BY <2>2
  <2> QED
    BY <2>1, <2>2
<1> HIDE DEF e
<1>2. Quiet(s) => Quiet(e)
  BY <1>1 DEF Quiet
<1>3. /\ Fine(t) /\ Same(e, t) /\ t.cur = e.cur /\ t.bf = b
      /\ Kept(e, t) /\ (Quiet(e) => Quiet(t)) /\ Still(e, t)
  BY <1>1, SetBfpFine, SetBfpKept
<1> HIDE DEF t
<1>4. ~Deleted(t, b)
  BY <1>1, <1>3, SameDeleted
<1>5. SameWins(s.wins, t.wins)
  BY <1>1, <1>3 DEF Same
<1>6. Kept(s, t)
  BY <1>1, <1>3 DEF Kept
<1>7. Still(s, t)
  <2>1. Still(s, e)
    BY <1>1 DEF Still, SamePlace, Place
  <2> QED
    BY <1>3, <2>1, StillTrans
<1> QED
  BY <1>0, <1>1, <1>2, <1>3, <1>4, <1>5, <1>6, <1>7

LEMMA WindowOnKept ==
  ASSUME NEW s, Fine(s), NEW b \in Buffers
  PROVE  /\ Kept(s, WindowOn(s, b))
         /\ Quiet(s) /\ b # minibuf /\ ~Deleted(s, b) => Quiet(WindowOn(s, b))
<1> DEFINE t == WindowOn(s, b)
<1>1. Fine(t) /\ Shown(s, b, t)
  BY WindowOnFine
<1> HIDE DEF t
<1>2. Kept(s, t)
  BY <1>1 DEF Shown, Kept
<1>3. ASSUME Quiet(s), b # minibuf, ~Deleted(s, b) PROVE Quiet(t)
  <2>1. /\ t.list = s.list /\ t.cur < Len(t.wins)
        /\ t.wins[Len(t.wins)].buf = minibuf /\ t.bf = b
        /\ \A i \in 1..Len(t.wins) :
             t.wins[i].buf = b \/ \E j \in 1..Len(s.wins) : t.wins[i].buf = s.wins[j].buf
    BY <1>1, <1>3 DEF Shown, Quiet
  <2>2. \A i \in 1..Len(t.wins) : ~Deleted(s, t.wins[i].buf)
    BY <1>3, <2>1 DEF Quiet
  <2> QED
    BY <1>3, <2>1, <2>2, NoBuffer DEF Quiet, Deleted
<1> QED
  BY <1>2, <1>3 DEF t

LEMMA GrownKept ==
  ASSUME NEW s, NEW t, Fine(s), Fine(t), Grown(s, t)
  PROVE  Kept(s, t) /\ (Quiet(s) => Quiet(t))
<1>1. Kept(s, t)
  BY DEF Grown, Kept
<1>2. ASSUME Quiet(s) PROVE Quiet(t)
  <2>1. \A i \in 1..Len(t.wins) : ~Deleted(s, t.wins[i].buf)
    BY <1>2 DEF Quiet, Grown
  <2> QED
    BY <1>2, <2>1 DEF Quiet, Grown, Deleted
<1> QED
  BY <1>1, <1>2

LEMMA LessKept ==
  ASSUME NEW s, Fine(s)
  PROVE  LET t == DelWin(s, s.cur)
         IN  Fine(t) /\ Kept(s, t) /\ (Quiet(s) => Quiet(t)) /\ Fewer(s, t)
<1> DEFINE w == s.cur
           t == DelWin(s, w)
<1>0. w \in 1..Len(s.wins) /\ Len(s.wins) \in Nat
  BY FineFields
<1>1. /\ Fine(t)
      /\ w = Len(s.wins) \/ Len(s.wins) = 2 => t = s
      /\ w # Len(s.wins) /\ Len(s.wins) # 2 => Less(s, w, t)
  <2> HIDE DEF w
  <2> QED
    BY <1>0, DelWinFine
<1> HIDE DEF t
<1>2. CASE w = Len(s.wins) \/ Len(s.wins) = 2
  BY <1>1, <1>2, FewerSelf DEF Kept, t
<1>3. CASE w # Len(s.wins) /\ Len(s.wins) # 2
  <2>1. Less(s, w, t) /\ w \in 1..(Len(s.wins) - 1)
    BY <1>0, <1>1, <1>3
  <2>2. /\ t.wins[Len(t.wins)].buf = s.wins[Len(s.wins)].buf
        /\ \A i \in 1..Len(t.wins) : \E q \in 1..Len(s.wins) : t.wins[i].buf = s.wins[q].buf
    <3> HIDE DEF w
    <3>1. /\ \A i \in 1..Len(t.wins) : \E q \in 1..Len(s.wins) :
               q # w /\ t.wins[i].id = s.wins[q].id /\ t.wins[i].buf = s.wins[q].buf
          /\ t.wins[Len(t.wins)].buf = s.wins[Len(s.wins)].buf
      BY <2>1, LessWins
    <3> QED
      BY <3>1
  <2>3. /\ t.list = s.list /\ Lines(t.wins) = Lines(s.wins)
        /\ s.cur < Len(s.wins) => t.cur < Len(t.wins)
        /\ t.bf = IF Deleted(t, t.wins[t.cur].buf) THEN 0 ELSE t.wins[t.cur].buf
        /\ Fewer(s, t)
    BY <2>1 DEF Less
  <2>4. Kept(s, t)
    BY <2>2, <2>3 DEF Kept
  <2>5. ASSUME Quiet(s) PROVE Quiet(t)
    <3>1. \A i \in 1..Len(t.wins) : ~Deleted(t, t.wins[i].buf)
      BY <2>2, <2>3, <2>5 DEF Quiet, Deleted
    <3>2. t.cur \in 1..Len(t.wins)
      BY <1>1, FineFields
    <3> QED
      BY <1>1, <2>2, <2>3, <2>5, <3>1, <3>2, NoBuffer DEF Quiet
  <2> QED
    BY <1>1, <2>3, <2>4, <2>5 DEF t
<1> QED
  BY <1>2, <1>3

LEMMA DelWinsKept ==
  ASSUME NEW s, Fine(s), NEW doomed
  PROVE  LET t == DelWins(s, doomed)
         IN  /\ Fine(t) /\ Kept(s, t) /\ Fewer(s, t)
             /\ Quiet(s) /\ s.wins[s.cur].id \notin doomed => Quiet(t)
<1> DEFINE t == DelWins(s, doomed)
<1>1. Fine(t) /\ Thinned(s, doomed, Len(s.wins), t)
  BY DelWinsFine
<1> HIDE DEF t
<1>2. /\ t.list = s.list /\ Lines(t.wins) = Lines(s.wins)
      /\ \A i \in 1..Len(t.wins) : \E j \in 1..Len(s.wins) : t.wins[i].buf = s.wins[j].buf
      /\ t.wins[Len(t.wins)].buf = s.wins[Len(s.wins)].buf
      /\ s.cur < Len(s.wins) => t.cur < Len(t.wins)
      /\ s.wins[s.cur].id \notin doomed => t.bf = s.bf
  BY <1>1 DEF Thinned
<1>3. Kept(s, t)
  BY <1>2 DEF Kept
<1>4. ASSUME Quiet(s), s.wins[s.cur].id \notin doomed PROVE Quiet(t)
  BY <1>2, <1>4 DEF Quiet, Deleted
<1>5. Fewer(s, t)
  BY <1>1 DEF Thinned
<1> QED
  BY <1>1, <1>3, <1>4, <1>5 DEF t

LEMMA SizeKept ==
  ASSUME NEW s, Fine(s), NEW d \in Int
  PROVE  LET t == ChangeWindowSize(s, d)
         IN  Fine(t) /\ Kept(s, t) /\ (Quiet(s) => Quiet(t)) /\ Still(s, t)
<1> DEFINE t == ChangeWindowSize(s, d)
<1>1. /\ Fine(t) /\ SameTies(s, t) /\ t.cur = s.cur /\ t.bf = s.bf
      /\ Lines(t.wins) = Lines(s.wins) /\ Still(s, t)
  BY ChangeWindowSizeFine
<1> HIDE DEF t
<1>2. Len(s.wins) \in 1..Len(s.wins)
  BY FineFields
<1>3. Kept(s, t)
  BY <1>1, <1>2 DEF Kept, SameTies
<1>4. Quiet(s) => Quiet(t)
  BY <1>1, <1>2 DEF Quiet, SameTies, Deleted
<1> QED
  BY <1>1, <1>3, <1>4 DEF t

(***************************************************************************)
(* The normal form at the end of each command.                             *)
(***************************************************************************)
LEMMA RankFine ==
  ASSUME NEW s, Fine(s), NEW i
  PROVE  Rank(s, i) \in Nat
<1> DEFINE T == TextWindows(s)
           K == { k \in T : s.wins[k].use > 0 /\ s.wins[k].use <= s.wins[i].use }
           U == { s.wins[j].use : j \in K }
           f == [ j \in K |-> s.wins[j].use ]
<1>1. IsFiniteSet(T)
  <2>1. Len(s.wins) - 1 \in Int
    BY FineFields
  <2> QED
    BY <2>1, FS_Interval DEF TextWindows
<1>2. K \in SUBSET T
  OBVIOUS
<1>3. f \in Surjection(K, U)
  BY DEF Surjection
<1>4. Rank(s, i) = IF i = Bottom(s) THEN 0 ELSE Cardinality(U)
  BY DEF Rank
<1> HIDE DEF T, K, U, f
<1>5. IsFiniteSet(K)
  BY <1>1, <1>2, FS_Subset
<1>6. IsFiniteSet(U)
  BY <1>3, <1>5, FS_Surjection
<1> QED
  BY <1>4, <1>6, FS_CardinalityType

LEMMA FinishFine ==
  ASSUME NEW s, Fine(s), Finish(s)
  PROVE  /\ Fine(scr') /\ Same(s, scr') /\ scr'.cur = s.cur /\ scr'.bf = s.bf
         /\ scr'.dot = s.dot /\ Still(s, scr')
<1> DEFINE n == Len(s.wins)
           v == [ i \in 1..n |-> [ s.wins[i] EXCEPT !.use = Rank(s, i) ] ]
           e == [ b \in Buffers |-> IF Deleted(s, b) THEN 1 ELSE s.eph[b] ]
           p == [ s EXCEPT !.wins = v ]
           x == [ p EXCEPT !.eph = e ]
<1>1. scr' = x
  BY DEF Finish
<1>2. s \in Screen /\ n \in Nat /\ s.wins \in Seq(Win) /\ s.eph \in [ Buffers -> Int ]
  BY FineFields DEF Fine
<1>3. \A i \in 1..n : v[i] \in Win /\ Alike(s.wins[i], v[i]) /\ v[i].dot = s.wins[i].dot
  <2> TAKE i \in 1..n
  <2>1. s.wins[i] \in Win
    BY <1>2
  <2>2. Rank(s, i) \in Nat
    BY RankFine
  <2> DEFINE r == Rank(s, i)
  <2>3. v[i] = [ s.wins[i] EXCEPT !.use = r ] /\ r \in Nat
    BY <2>2
  <2> HIDE DEF v, r
  <2> QED
    BY <2>1, <2>3 DEF Win, Alike
<1>4. v \in Seq(Win) /\ Len(v) = n
  <2>1. v \in [ 1..n -> Win ]
    BY <1>3
  <2> HIDE DEF v, n
  <2> QED
    BY <1>2, <2>1
<1>5. e \in [ Buffers -> Int ]
  BY <1>2
<1> HIDE DEF v, e
<1>6. p \in Screen /\ p.wins = v /\ p.cur = s.cur /\ p.bf = s.bf /\ p.dot = s.dot /\ p.list = s.list
  BY <1>2, <1>4 DEF Screen
<1> HIDE DEF p
<1>7. x \in Screen /\ x.wins = v /\ x.cur = s.cur /\ x.bf = s.bf /\ x.dot = s.dot /\ x.list = s.list
  BY <1>5, <1>6 DEF Screen
<1> HIDE DEF x
<1>8. Same(s, x)
  BY <1>3, <1>4, <1>7 DEF Same, SameWins
<1>9. x.cur \in 1..Len(x.wins)
  BY <1>2, <1>4, <1>7, FineFields
<1>10. Still(s, x)
  BY <1>3, <1>4, <1>7 DEF Still, SamePlace, Place, Alike
<1> QED
  BY <1>1, <1>7, <1>8, <1>9, <1>10, SameFine

LEMMA CommandKept ==
  ASSUME NEW s, Fine(s), Kept(scr, s), Finish(s)
  PROVE  /\ Fine(scr') /\ Kept(scr, scr')
         /\ Quiet(s) => Quiet(scr')
<1>1. Fine(scr') /\ Same(s, scr') /\ scr'.cur = s.cur /\ scr'.bf = s.bf
  BY FinishFine
<1>2. Kept(s, scr')
  BY <1>1, SameKept
<1>3. Kept(scr, scr')
  BY <1>2, KeptTrans
<1>4. ASSUME Quiet(s) PROVE Quiet(scr')
  <2>1. s.bf # 0 /\ ~Deleted(s, s.bf) /\ s.cur < Len(s.wins)
    BY <1>4 DEF Quiet
  <2>2. ~Deleted(scr', s.bf)
    BY <1>1, <2>1, SameDeleted
  <2>3. scr'.cur < Len(scr'.wins)
    BY <1>1, <2>1 DEF Same, SameWins
  <2> QED
    BY <1>1, <1>4, <2>1, <2>2, <2>3, SameQuiet
<1> QED
  BY <1>1, <1>3, <1>4

(***************************************************************************)
(* The commands.                                                           *)
(***************************************************************************)
Commands ==
  \/ \E d \in 1..scene.maxdot : MoveDot(d)
  \/ NextKey
  \/ \E b \in Buffers : SwitchToBuffer(b) \/ PopToBuffer(b) \/ TempUseBuffer(b) \/ DeleteBuffer(b)
  \/ DeleteWindow \/ DeleteOtherWindows \/ SplitCurrentWindow
  \/ NextWindow \/ PreviousWindow \/ EnlargeWindow(1) \/ ShrinkWindow(1)

(* After a command: what was quiet remains so if the minibuffer was not    *)
(* named and is not being read.                                            *)
Done == /\ Fine(scr') /\ Kept(scr, scr')
        /\ minibuf \notin scene.names /\ stack = << >> /\ Quiet(scr) => Quiet(scr')

LEMMA CommandCalm ==
  ASSUME NEW s, Fine(s), Finish(s), Calm(scr, s)
  PROVE  Calm(scr, scr')
BY FinishFine, CalmStill

LEMMA CommandStill ==
  ASSUME Fine(scr), NEW s, Fine(s), Finish(s), Still(scr, s)
  PROVE  Calm(scr, scr')
BY StillCalm, CommandCalm

(* No window is on a buffer that has gone.                                 *)
Linked(s) == \A i \in 1..Len(s.wins) : ~Deleted(s, s.wins[i].buf)

LEMMA SetWinLinked ==
  ASSUME NEW s, Fine(s), Linked(s), NEW w \in 1..Len(s.wins)
  PROVE  Still(s, SetWin(s, w)) /\ Linked(SetWin(s, w))
<1> DEFINE t == SetWin(s, w)
<1>1. /\ Fine(t) /\ Same(s, t)
      /\ \A i \in 1..Len(s.wins) :
           i # s.cur \/ ~Deleted(s, s.wins[w].buf) => SamePlace(s, i, t, i)
  BY SetWinFine
<1> HIDE DEF t
<1> QED
  BY <1>1 DEF Still, Linked, Same, SameWins, Alike, Deleted, t

LEMMA MoveDotDone ==
  ASSUME Fine(scr), NEW d \in 1..scene.maxdot, MoveDot(d), scene \in Scenes
  PROVE  Done
<1> DEFINE x == [ scr EXCEPT !.dot = d ]
<1>1. d \in Int
  OBVIOUS
<1>2. Finish(x)
  BY DEF MoveDot, Command
<1>3. Fine(x) /\ x.wins = scr.wins /\ x.cur = scr.cur /\ x.list = scr.list /\ x.bf = scr.bf
  BY <1>1, Aimed
<1> HIDE DEF x
<1>4. Kept(scr, x) /\ (Quiet(scr) => Quiet(x))
  BY <1>3 DEF Kept, Quiet, Deleted
<1> QED
  BY <1>2, <1>3, <1>4, CommandKept DEF Done

LEMMA NextKeyDone ==
  ASSUME Fine(scr), NextKey
  PROVE  Done /\ Calm(scr, scr')
<1> DEFINE x == SetBfp(scr, Current(scr).buf)
<1>1. Current(scr).buf \in Buffers
  BY FineFields, WinFields DEF Current
<1>2. Fine(x) /\ Kept(scr, x) /\ (Quiet(scr) => Quiet(x)) /\ Still(scr, x)
  BY <1>1, SetBfpFine, SetBfpKept
<1>3. Finish(x)
  BY DEF NextKey, Command
<1> HIDE DEF x
<1> QED
  BY <1>2, <1>3, CommandKept, CommandStill DEF Done

LEMMA NameableFine ==
  ASSUME NEW b \in Nameable
  PROVE  b \in scene.names /\ (minibuf \notin scene.names => b # minibuf)
BY DEF Nameable

LEMMA SwitchToBufferDone ==
  ASSUME Fine(scr), NEW b \in Buffers, SwitchToBuffer(b)
  PROVE  Done /\ Calm(scr, scr')
<1> DEFINE e == SetBfn(scr, b)
           w == IF scr.cur = Bottom(scr) THEN 1 ELSE scr.cur
           x == TieWin(e, w, b)
<1>1. Finish(x)
  BY DEF SwitchToBuffer, Command
<1>2. /\ Fine(e) /\ e.cur = scr.cur /\ SameWins(scr.wins, e.wins) /\ Kept(scr, e)
      /\ (Quiet(scr) => Quiet(e)) /\ Still(scr, e)
  BY SetBfnFine
<1> HIDE DEF e
<1>3. w \in 1..Len(e.wins) /\ w < Len(e.wins)
  <2>1. Len(e.wins) = Len(scr.wins)
    BY <1>2 DEF SameWins
  <2> QED
    BY <2>1, FineFields DEF Bottom
<1> HIDE DEF w
<1>4. Fine(x) /\ Kept(e, x) /\ (Quiet(e) => Quiet(x)) /\ Loyal(e, x)
  BY <1>2, <1>3, TieWinFine, TieWinKept DEF Retied
<1> HIDE DEF x
<1>5. Kept(scr, x)
  BY <1>2, <1>4, KeptTrans
<1>6. Calm(scr, x)
  BY <1>2, <1>4, StillMore DEF Calm
<1> QED
  BY <1>1, <1>2, <1>4, <1>5, <1>6, CommandKept, CommandCalm DEF Done

LEMMA PopToBufferDone ==
  ASSUME Fine(scr), NEW b \in Buffers, PopToBuffer(b)
  PROVE  Done /\ Calm(scr, scr')
<1> DEFINE e == SetBfn(scr, b)
           x == WindowOn(e, b)
<1>1. Finish(x) /\ b \in Nameable
  BY DEF PopToBuffer, Command
<1>2. /\ Fine(e) /\ Kept(scr, e) /\ ~Deleted(e, b) /\ (Quiet(scr) => Quiet(e))
      /\ Still(scr, e)
  BY SetBfnFine
<1> HIDE DEF e
<1>3. Fine(x) /\ Kept(e, x) /\ (Quiet(e) /\ b # minibuf => Quiet(x)) /\ Calm(e, x)
  BY <1>2, WindowOnFine, WindowOnKept DEF Shown
<1> HIDE DEF x
<1>4. Kept(scr, x)
  BY <1>2, <1>3, KeptTrans
<1>5. minibuf \notin scene.names => b # minibuf
  BY <1>1, NameableFine
<1>6. Calm(scr, x)
  BY <1>2, <1>3, StillThenCalm
<1> QED
  BY <1>1, <1>2, <1>3, <1>4, <1>5, <1>6, CommandKept, CommandCalm DEF Done

LEMMA TempUseBufferDone ==
  ASSUME Fine(scr), NEW b \in Buffers, TempUseBuffer(b)
  PROVE  Done /\ Calm(scr, scr')
<1> DEFINE e == SetBfn(scr, b)
<1>1. Finish(e)
  BY DEF TempUseBuffer, Command
<1>2. Fine(e) /\ Kept(scr, e) /\ (Quiet(scr) => Quiet(e)) /\ Still(scr, e)
  BY SetBfnFine
<1> HIDE DEF e
<1> QED
  BY <1>1, <1>2, CommandKept, CommandStill DEF Done

LEMMA DeleteBufferDone ==
  ASSUME Fine(scr), NEW b \in Buffers, DeleteBuffer(b)
  PROVE  Done /\ Calm(scr, scr')
<1> DEFINE x == DelBuf(scr, b)
<1>1. /\ Finish(x) /\ b \in Range(scr.list) /\ b # minibuf
      /\ Unused(scr) # {} \/ Len(scr.list) > 2
  BY DEF DeleteBuffer, Command
<1>2. ~Deleted(scr, b)
  <2>1. scr.list \in Seq(Buffers)
    BY FineFields
  <2> QED
    BY <1>1, <2>1 DEF Deleted, Contains, Range
<1>3. Fine(x) /\ Freed(scr, x) /\ Calm(scr, x)
  BY <1>1, <1>2, DelBufFine
<1> HIDE DEF x
<1>4. Kept(scr, x) /\ (Quiet(scr) => Quiet(x))
  BY <1>3 DEF Freed, Kept
<1> QED
  BY <1>1, <1>3, <1>4, CommandKept, CommandCalm DEF Done

LEMMA DeleteWindowDone ==
  ASSUME Fine(scr), DeleteWindow
  PROVE  Done /\ Calm(scr, scr')
<1> DEFINE t == DelWin(scr, scr.cur)
           b == Current(t).buf
           x == SetBfp(t, b)
<1>1. Finish(x)
  BY DEF DeleteWindow, Command
<1>2. Fine(t) /\ Kept(scr, t) /\ (Quiet(scr) => Quiet(t)) /\ Fewer(scr, t)
  BY LessKept
<1> HIDE DEF t
<1>3. b \in Buffers
  BY <1>2, FineFields, WinFields DEF Current
<1> HIDE DEF b
<1>4. Fine(x) /\ Kept(t, x) /\ (Quiet(t) => Quiet(x)) /\ Still(t, x)
  BY <1>2, <1>3, SetBfpFine, SetBfpKept
<1> HIDE DEF x
<1>5. Kept(scr, x)
  BY <1>2, <1>4, KeptTrans
<1>6. Calm(scr, x)
  BY <1>2, <1>4, StillLoyal DEF Calm
<1> QED
  BY <1>1, <1>2, <1>4, <1>5, <1>6, CommandKept, CommandCalm DEF Done

LEMMA DeleteOtherWindowsDone ==
  ASSUME Fine(scr), DeleteOtherWindows
  PROVE  Done /\ Calm(scr, scr')
<1> DEFINE d == { scr.wins[i].id : i \in 1..Len(scr.wins) } \ {Current(scr).id}
           x == DelWins(scr, d)
<1>1. Finish(x)
  BY DEF DeleteOtherWindows, Command
<1>2. scr.wins[scr.cur].id \notin d
  BY DEF Current
<1> HIDE DEF d
<1>3. Fine(x) /\ Kept(scr, x) /\ (Quiet(scr) => Quiet(x)) /\ Fewer(scr, x)
  BY <1>2, DelWinsKept
<1> HIDE DEF x
<1>4. Calm(scr, x)
  BY <1>3, StillSelf, StillLoyal DEF Calm
<1> QED
  BY <1>1, <1>3, <1>4, CommandKept, CommandCalm DEF Done

LEMMA SplitCurrentWindowDone ==
  ASSUME Fine(scr), SplitCurrentWindow
  PROVE  Done /\ (Linked(scr) => Calm(scr, scr'))
<1> DEFINE w == scr.cur
           t == SplitWin(scr, w)
           o == SplitOff(scr, w)
           x == SetWin(t, o)
<1>1. Finish(x)
  BY DEF SplitCurrentWindow, Command
<1>2. w \in 1..Len(scr.wins)
  BY FineFields
<1> DEFINE c == w
<1>3. /\ Fine(t) /\ Grown(scr, t) /\ o \in 1..Len(t.wins)
      /\ w < Len(scr.wins) => o \in 1..(Len(t.wins) - 1)
  <2> HIDE DEF w
  <2> QED
    BY <1>2, SplitGrown
<1> HIDE DEF t, o
<1>4. Kept(scr, t) /\ (Quiet(scr) => Quiet(t))
  BY <1>3, GrownKept
<1>5. Fine(x) /\ Kept(t, x) /\ (Quiet(t) /\ o < Len(t.wins) => Quiet(x))
  BY <1>3, SetWinFine, SetWinKept, QuietTidy
<1>s. ASSUME Linked(scr) PROVE Calm(scr, x)
  <2>1. Linked(t)
    BY <1>3, <1>s DEF Linked, Grown, Deleted
  <2>2. Still(t, x)
    BY <1>3, <2>1, SetWinLinked
  <2> QED
    BY <1>3, <2>2, StillLoyal DEF Calm, Grown
<1> HIDE DEF x
<1>6. Kept(scr, x)
  BY <1>4, <1>5, KeptTrans
<1>7. Quiet(scr) => o < Len(t.wins)
  <2>1. Len(t.wins) \in Nat
    BY <1>3, FineFields
  <2> QED
    BY <1>3, <2>1 DEF Quiet
<1> QED
  BY <1>1, <1>4, <1>5, <1>6, <1>7, <1>s, CommandKept, CommandCalm DEF Done

LEMMA NextWindowDone ==
  ASSUME Fine(scr), NextWindow
  PROVE  Done /\ (Linked(scr) => Calm(scr, scr'))
<1> DEFINE w == IF scr.cur = Bottom(scr) THEN 1 ELSE scr.cur + 1
           s == SetWin(scr, w)
           x == IF s.cur = Bottom(s) /\ ~Reading THEN SetWin(s, 1) ELSE s
           y == SetWin(s, 1)
<1>0. Len(scr.wins) \in Nat /\ Len(scr.wins) >= 2 /\ scr.cur \in 1..Len(scr.wins)
  BY FineFields
<1>1. Finish(x)
  BY DEF NextWindow, Command
<1>2. w \in 1..Len(scr.wins)
  BY <1>0 DEF Bottom
<1> HIDE DEF w
<1>3. Fine(s) /\ Same(scr, s) /\ s.cur = w /\ Kept(scr, s)
      /\ (Tidy(scr) /\ w < Len(scr.wins) => Quiet(s))
      /\ (Linked(scr) => Still(scr, s) /\ Linked(s))
  BY <1>2, SetWinFine, SetWinKept, SetWinLinked
<1> HIDE DEF s
<1>4. Len(s.wins) = Len(scr.wins) /\ 1 \in 1..Len(s.wins) /\ 1 < Len(s.wins)
  BY <1>0, <1>3 DEF Same, SameWins
<1>5. /\ Fine(y) /\ Kept(s, y) /\ (Tidy(s) => Quiet(y))
      /\ Linked(s) => Still(s, y)
  BY <1>3, <1>4, SetWinFine, SetWinKept, SetWinLinked
<1>a. /\ s.cur = Bottom(s) /\ ~Reading => x = y
      /\ ~(s.cur = Bottom(s) /\ ~Reading) => x = s
  OBVIOUS
<1> HIDE DEF x, y
<1>6. Kept(scr, y)
  BY <1>3, <1>5, KeptTrans
<1>7. Fine(x) /\ Kept(scr, x)
  BY <1>3, <1>5, <1>6, <1>a
<1>8. ASSUME stack = << >>, Quiet(scr) PROVE Quiet(x)
  <2>1. ~Reading
    BY <1>8 DEF Reading
  <2>2. Tidy(scr) /\ Tidy(s)
    BY <1>3, <1>8, QuietTidy, SameTidy
  <2>3. s.cur # Bottom(s) => w < Len(scr.wins)
    BY <1>0, <1>2, <1>3, <1>4 DEF Bottom
  <2> QED
    BY <1>3, <1>5, <1>a, <2>1, <2>2, <2>3
<1>9. Linked(scr) => Still(scr, x)
  BY <1>3, <1>5, <1>a, StillTrans
<1> QED
  BY <1>1, <1>7, <1>8, <1>9, CommandKept, CommandStill DEF Done

LEMMA PreviousWindowDone ==
  ASSUME Fine(scr), PreviousWindow
  PROVE  Done /\ (Linked(scr) => Calm(scr, scr'))
<1> DEFINE w == IF scr.cur = 1 THEN Bottom(scr) ELSE scr.cur - 1
           s == SetWin(scr, w)
           o == s.cur - 1
           x == IF s.cur = Bottom(s) /\ ~Reading THEN SetWin(s, s.cur - 1) ELSE s
           y == SetWin(s, o)
<1>0. Len(scr.wins) \in Nat /\ Len(scr.wins) >= 2 /\ scr.cur \in 1..Len(scr.wins)
  BY FineFields
<1>1. Finish(x)
  BY DEF PreviousWindow, Command
<1>2. w \in 1..Len(scr.wins)
  BY <1>0 DEF Bottom
<1> HIDE DEF w
<1>3. Fine(s) /\ Same(scr, s) /\ s.cur = w /\ Kept(scr, s)
      /\ (Tidy(scr) /\ w < Len(scr.wins) => Quiet(s))
      /\ (Linked(scr) => Still(scr, s) /\ Linked(s))
  BY <1>2, SetWinFine, SetWinKept, SetWinLinked
<1> HIDE DEF s
<1>4. Len(s.wins) = Len(scr.wins)
  BY <1>3 DEF Same, SameWins
<1>a. /\ s.cur = Bottom(s) /\ ~Reading => x = y
      /\ ~(s.cur = Bottom(s) /\ ~Reading) => x = s
  OBVIOUS
<1>5. s.cur = Bottom(s) => o \in 1..Len(s.wins) /\ o < Len(s.wins)
  BY <1>0, <1>4 DEF Bottom
<1> HIDE DEF o, x
<1>6. s.cur = Bottom(s) => /\ Fine(y) /\ Kept(s, y) /\ (Tidy(s) => Quiet(y))
                           /\ Linked(s) => Still(s, y)
  BY <1>3, <1>5, SetWinFine, SetWinKept, SetWinLinked
<1> HIDE DEF y
<1>7. Fine(x) /\ Kept(scr, x)
  <2>1. s.cur = Bottom(s) => Kept(scr, y)
    BY <1>3, <1>6, KeptTrans
  <2> QED
    BY <1>3, <1>6, <1>a, <2>1
<1>8. ASSUME stack = << >>, Quiet(scr) PROVE Quiet(x)
  <2>1. ~Reading
    BY <1>8 DEF Reading
  <2>2. Tidy(scr) /\ Tidy(s)
    BY <1>3, <1>8, QuietTidy, SameTidy
  <2>3. s.cur # Bottom(s) => w < Len(scr.wins)
    BY <1>0, <1>2, <1>3, <1>4 DEF Bottom
  <2> QED
    BY <1>3, <1>6, <1>a, <2>1, <2>2, <2>3
<1>9. Linked(scr) => Still(scr, x)
  BY <1>3, <1>6, <1>a, StillTrans
<1> QED
  BY <1>1, <1>7, <1>8, <1>9, CommandKept, CommandStill DEF Done

LEMMA SizeDone ==
  ASSUME Fine(scr), EnlargeWindow(1) \/ ShrinkWindow(1)
  PROVE  Done /\ Calm(scr, scr')
<1>1. PICK d \in Int : Finish(ChangeWindowSize(scr, d))
  <2>1. 1 \in Int /\ -1 \in Int
    OBVIOUS
  <2> QED
    BY <2>1 DEF EnlargeWindow, ShrinkWindow, Command
<1> DEFINE x == ChangeWindowSize(scr, d)
<1>2. Fine(x) /\ Kept(scr, x) /\ (Quiet(scr) => Quiet(x)) /\ Still(scr, x)
  BY SizeKept
<1>3. Finish(x)
  BY <1>1
<1> HIDE DEF x
<1> QED
  BY <1>2, <1>3, CommandKept, CommandStill DEF Done

LEMMA CommandsDone ==
  ASSUME Fine(scr), scene \in Scenes, Commands
  PROVE  /\ Done /\ UNCHANGED << stack, scene >> /\ Alive
         /\ \/ \E d \in 1..scene.maxdot : MoveDot(d)
            \/ Linked(scr) => Calm(scr, scr')
<1>1. CASE \E d \in 1..scene.maxdot : MoveDot(d)
  <2>1. PICK d \in 1..scene.maxdot : MoveDot(d)
    BY <1>1
  <2>2. Done
    BY <2>1, MoveDotDone
  <2> QED
    BY <2>1, <2>2 DEF MoveDot, Command
<1>2. CASE NextKey
  BY <1>2, NextKeyDone DEF NextKey, Command
<1>3. CASE \E b \in Buffers :
             SwitchToBuffer(b) \/ PopToBuffer(b) \/ TempUseBuffer(b) \/ DeleteBuffer(b)
  <2>1. PICK b \in Buffers :
             SwitchToBuffer(b) \/ PopToBuffer(b) \/ TempUseBuffer(b) \/ DeleteBuffer(b)
    BY <1>3
  <2>2. Done /\ Calm(scr, scr')
    BY <2>1, SwitchToBufferDone, PopToBufferDone, TempUseBufferDone, DeleteBufferDone
  <2>3. UNCHANGED << stack, scene >> /\ Alive
    BY <2>1 DEF SwitchToBuffer, PopToBuffer, TempUseBuffer, DeleteBuffer, Command
  <2> QED
    BY <2>2, <2>3
<1>4. CASE DeleteWindow
  BY <1>4, DeleteWindowDone DEF DeleteWindow, Command
<1>5. CASE DeleteOtherWindows
  BY <1>5, DeleteOtherWindowsDone DEF DeleteOtherWindows, Command
<1>6. CASE SplitCurrentWindow
  BY <1>6, SplitCurrentWindowDone DEF SplitCurrentWindow, Command
<1>7. CASE NextWindow
  BY <1>7, NextWindowDone DEF NextWindow, Command
<1>8. CASE PreviousWindow
  BY <1>8, PreviousWindowDone DEF PreviousWindow, Command
<1>9. CASE EnlargeWindow(1) \/ ShrinkWindow(1)
  BY <1>9, SizeDone DEF EnlargeWindow, ShrinkWindow, Command
<1> QED
  BY <1>1, <1>2, <1>3, <1>4, <1>5, <1>6, <1>7, <1>8, <1>9 DEF Commands

(***************************************************************************)
(* What save-window-excursion records.                                     *)
(***************************************************************************)
Record == [ height : Int, buf : Buffers, dot : Int ]

LEMMA RecordedFine ==
  ASSUME NEW s, Fine(s), s.bf # 0
  PROVE  LET r == Recorded(s)
         IN  /\ Fine(r.at) /\ Same(s, r.at) /\ r.at.cur = s.cur /\ r.at.bf # 0
             /\ r.wins \in Seq(Record) /\ Len(r.wins) = Len(s.wins) - 1
<1> DEFINE n == Len(s.wins) - 1
           Visit(t, k) == Goto(t, t.wins[k].buf)
           Reached(t) == Fine(t) /\ Same(s, t) /\ t.cur = s.cur /\ t.bf # 0
           T == { t \in Screen : Reached(t) }
           S == [ k \in 0..n |-> T ]
           step == [ k \in 1..n |-> [ t \in T |-> Visit(t, k) ] ]
           Path(f) == f = [ k \in 0..n |-> IF k = 0 THEN s
                                           ELSE Goto(f[k - 1], f[k - 1].wins[k].buf) ]
           g == CHOOSE f : Path(f)
           rec(k, w) == [ height |-> w.height, buf |-> w.buf, dot |-> Clip(g[k], w.dot) ]
           v == [ k \in 1..n |-> rec(k, g[k].wins[k]) ]
<1>1. Recorded(s) = [ at |-> g[n], wins |-> v ]
  BY DEF Recorded, TextWindows
<1>2. n \in Nat /\ s \in Screen /\ s \in T
  BY FineFields, SameSelf DEF Fine
<1>3. ASSUME NEW t \in T, NEW k \in 1..n PROVE Visit(t, k) \in T
  <2>1. Reached(t) /\ k \in 1..Len(t.wins)
    <3>1. k \in 1..Len(s.wins)
      BY <1>2
    <3> QED
      BY <3>1 DEF Same, SameWins
  <2> DEFINE b == t.wins[k].buf
  <2>2. b \in Buffers
    BY <2>1, WinFields
  <2> HIDE DEF b
  <2> DEFINE x == Goto(t, b)
  <2>3. Fine(x) /\ Same(t, x) /\ x.cur = t.cur /\ x.bf # 0
    BY <2>1, <2>2, GotoFine
  <2> HIDE DEF x
  <2>4. Same(s, x) /\ x \in Screen
    BY <2>1, <2>3, SameTrans DEF Fine
  <2>5. x \in T
    BY <2>1, <2>3, <2>4
  <2> QED
    BY <2>5 DEF x, b
<1>4. PICK f : /\ On(f, n) /\ f[0] = s
               /\ \A i \in 1..n : f[i] = step[i][f[i - 1]]
               /\ \A i \in 0..n : f[i] \in S[i]
  <2>1. Leads(step, S, n)
    <3> SUFFICES ASSUME NEW i \in 1..n, NEW t \in S[i - 1] PROVE step[i][t] \in S[i]
      BY DEF Leads
    <3>1. i - 1 \in 0..n /\ i \in 0..n
      BY <1>2
    <3> HIDE DEF T, n, Visit
    <3>2. t \in T /\ S[i] = T
      BY <3>1
    <3> QED
      BY <1>3, <3>2
  <2>2. s \in S[0]
    <3> HIDE DEF T
    <3> QED
      BY <1>2
  <2> HIDE DEF n, S, step, T
  <2> QED
    BY <1>2, <2>1, <2>2, Iterated
<1>5. Path(f)
  <2>1. \A i \in 1..n : i - 1 \in 0..n
    BY <1>2
  <2>2. \A i \in 1..n : f[i - 1] \in T
    <3> HIDE DEF T, n
    <3> QED
      BY <1>4, <2>1
  <2>3. \A i \in 1..n : f[i] = Visit(f[i - 1], i)
    <3> HIDE DEF T, n, Visit
    <3> QED
      BY <1>4, <2>2
  <2>4. \A i \in 0..n : i # 0 => i \in 1..n
    BY <1>2
  <2> HIDE DEF n, T, step
  <2>5. \A k \in 0..n : f[k] = IF k = 0 THEN s ELSE Goto(f[k - 1], f[k - 1].wins[k].buf)
    BY <1>4, <2>3, <2>4
  <2>6. f = [ k \in 0..n |-> f[k] ]
    BY <1>4 DEF On
  <2> QED
    BY <2>5, <2>6
<1>6. Path(g)
  <2> HIDE DEF Path
  <2> QED
    BY <1>5
<1> HIDE DEF g
<1>7. \A k \in 0..n : g[k] \in S[k]
  <2>1. g[0] = s /\ \A i \in 1..n : g[i] = Visit(g[i - 1], i)
    BY <1>2, <1>6
  <2>2. g[0] \in S[0] /\ \A i \in 1..n : g[i - 1] \in S[i - 1] => g[i] \in S[i]
    <3>1. \A i \in 1..n : S[i - 1] = T /\ S[i] = T
      BY <1>2
    <3>2. S[0] = T
      BY <1>2
    <3> HIDE DEF T, n, S, Visit
    <3> QED
      BY <1>2, <1>3, <2>1, <3>1, <3>2
  <2> HIDE DEF S, n
  <2> QED
    BY <1>2, <2>2, Stepwise
<1>8. \A k \in 0..n : Reached(g[k])
  BY <1>7
<1>9. ASSUME NEW k \in 1..n PROVE v[k] \in Record
  <2> DEFINE w == g[k].wins[k]
             c == Clip(g[k], w.dot)
  <2>1. k \in 0..n /\ k \in 1..Len(s.wins)
    BY <1>2
  <2>2. Reached(g[k])
    BY <1>8, <2>1
  <2>3. k \in 1..Len(g[k].wins) /\ Fine(g[k])
    BY <2>1, <2>2 DEF Same, SameWins
  <2>4. w.height \in Int /\ w.buf \in Buffers /\ w.dot \in Int
    <3> HIDE DEF n
    <3> QED
      BY <2>3, WinFields
  <2>5. c \in Int
    <3> HIDE DEF w
    <3> QED
      BY <2>4, ClipFine
  <2>6. v[k] = [ height |-> w.height, buf |-> w.buf, dot |-> c ]
    OBVIOUS
  <2> HIDE DEF v, w, c
  <2> QED
    BY <2>4, <2>5, <2>6 DEF Record
<1>10. v \in Seq(Record) /\ Len(v) = n
  <2>1. v \in [ 1..n -> Record ]
    <3>1. v = [ k \in 1..n |-> v[k] ]
      OBVIOUS
    <3> HIDE DEF v
    <3> QED
      BY <1>9, <3>1
  <2> HIDE DEF v, n
  <2> QED
    BY <1>2, <2>1
<1>11. Reached(g[n])
  <2>1. n \in 0..n
    BY <1>2
  <2> QED
    BY <1>8, <2>1
<1> HIDE DEF v
<1> QED
  BY <1>1, <1>10, <1>11

(***************************************************************************)
(* Windows are split until there are enough.                               *)
(***************************************************************************)
LEMMA SplitToFine ==
  ASSUME NEW s, Fine(s), NEW n \in Nat
  PROVE  Fine(SplitTo(s, n)) /\ (n < Len(s.wins) => SplitTo(s, n) = s)
<1>0. Len(s.wins) \in Nat /\ s \in Screen
  BY FineFields DEF Fine
<1>1. CASE n < Len(s.wins)
  BY <1>1 DEF SplitTo
<1>2. CASE ~(n < Len(s.wins))
  <2> DEFINE m == n + 1 - Len(s.wins)
             T == { t \in Screen : Fine(t) }
             S == [ k \in 0..m |-> T ]
             step == [ k \in 1..m |-> [ t \in T |-> SplitLargestWindow(t) ] ]
             Path(f) == f = [ k \in 0..m |-> IF k = 0 THEN s ELSE SplitLargestWindow(f[k - 1]) ]
             g == CHOOSE f : Path(f)
  <2>1. SplitTo(s, n) = g[m]
    BY <1>2 DEF SplitTo
  <2>2. m \in Nat /\ s \in T
    BY <1>0, <1>2
  <2>3. \A t \in T : SplitLargestWindow(t) \in T
    <3> TAKE t \in T
    <3>1. Fine(SplitLargestWindow(t))
      BY LargestGrown
    <3> QED
      BY <3>1 DEF Fine
  <2> HIDE DEF m, T
  <2>4. Leads(step, S, m)
    BY <2>2, <2>3 DEF Leads
  <2>5. s \in S[0]
    BY <2>2
  <2>6. PICK f : /\ On(f, m) /\ f[0] = s
                 /\ \A i \in 1..m : f[i] = step[i][f[i - 1]]
                 /\ \A i \in 0..m : f[i] \in S[i]
    <3> HIDE DEF S, step
    <3> QED
      BY <2>2, <2>4, <2>5, Iterated
  <2>7. \A i \in 1..m : f[i] = SplitLargestWindow(f[i - 1])
    <3>1. \A i \in 1..m : i - 1 \in 0..m
      BY <2>2
    <3>2. \A i \in 1..m : f[i - 1] \in T
      BY <2>6, <3>1
    <3> QED
      BY <2>6, <3>2
  <2>8. Path(f)
    <3>1. \A i \in 0..m : i # 0 => i \in 1..m
      BY <2>2
    <3>2. f = [ k \in 0..m |-> f[k] ]
      BY <2>6 DEF On
    <3>3. \A k \in 0..m : f[k] = IF k = 0 THEN s ELSE SplitLargestWindow(f[k - 1])
      BY <2>6, <2>7, <3>1
    <3> QED
      BY <3>2, <3>3
  <2>9. Path(g)
    <3> HIDE DEF Path
    <3> QED
      BY <2>8
  <2> HIDE DEF g
  <2>10. g[0] = s /\ \A i \in 1..m : g[i] = SplitLargestWindow(g[i - 1])
    BY <2>2, <2>9
  <2>11. g[0] \in S[0] /\ \A i \in 1..m : g[i - 1] \in S[i - 1] => g[i] \in S[i]
    <3>1. \A i \in 1..m : S[i - 1] = T /\ S[i] = T
      BY <2>2
    <3> HIDE DEF S
    <3> QED
      BY <2>3, <2>5, <2>10, <3>1
  <2>12. \A k \in 0..m : g[k] \in S[k]
    <3> HIDE DEF S
    <3> QED
      BY <2>2, <2>11, Stepwise
  <2>13. g[m] \in T
    BY <2>2, <2>12
  <2> QED
    BY <1>2, <2>1, <2>13 DEF T
<1> QED
  BY <1>1, <1>2

(***************************************************************************)
(* The windows are put back as recorded.                                   *)
(***************************************************************************)
(* t is s with window k, where that can be, as recorded in r.              *)
Recovered(s, v, r) == /\ r.height > 1 => v.height = r.height
                      /\ ~Deleted(s, r.buf) => v.buf = r.buf

PutBack(s, k, r, t) ==
  /\ Len(t.wins) = Len(s.wins) /\ t.list = s.list
  /\ t.bf # 0 => s.bf # 0 /\ k <= Len(s.wins)
  /\ s.bf # 0 /\ k <= Len(s.wins) =>
       /\ t.bf # 0 /\ Recovered(s, t.wins[k], r)
       /\ \A i \in 1..Len(s.wins) : i # k =>
            t.wins[i].height = s.wins[i].height /\ t.wins[i].buf = s.wins[i].buf

LEMMA ReinstatedFine ==
  ASSUME NEW s, Fine(s), NEW k \in Nat, k > 0, NEW r \in Record
  PROVE  Fine(Reinstated(s, k, r)) /\ PutBack(s, k, r, Reinstated(s, k, r))
<1>0. Len(s.wins) \in Nat /\ r.height \in Int /\ r.buf \in Buffers /\ r.dot \in Int
  BY FineFields DEF Record
<1>1. CASE s.bf = 0 \/ k > Len(s.wins)
  <2> DEFINE z == 0
             x == [ s EXCEPT !.bf = z ]
  <2>1. Reinstated(s, k, r) = x /\ z \in Buffers \cup {0} /\ z = 0
    BY <1>1 DEF Reinstated
  <2> HIDE DEF z
  <2>2. Fine(x) /\ x.wins = s.wins /\ x.list = s.list /\ x.bf = z
    BY <2>1, Entered
  <2> QED
    BY <1>0, <1>1, <2>1, <2>2 DEF PutBack
<1>2. CASE ~(s.bf = 0 \/ k > Len(s.wins))
  <2> DEFINE d == r.height - s.wins[k].height
             a == ChgWHeight(s, k, d)
             b == TieWin(a, k, r.buf)
             c == ToMark(b, r)
             e == c.dot
             x == [ c EXCEPT !.wins[k].dot = e ]
  <2>1. Reinstated(s, k, r) = x
    BY <1>2 DEF Reinstated
  <2>2. k \in 1..Len(s.wins) /\ s.wins[k].height \in Int /\ s.bf # 0
    BY <1>0, <1>2, WinFields
  <2>3. d \in Int
    BY <1>0, <2>2
  <2> DEFINE h == s.wins[k].height
             q == r.buf
  <2>0. q \in Buffers /\ q = r.buf
    BY <1>0
  <2>4. r.height > 1 => CanChange(s, k, d)
    <3>1. h + (r.height - h) = r.height
      BY <1>0, <2>2
    <3> QED
      BY <1>0, <3>1 DEF CanChange, Least
  <2>5. h + d = r.height
    BY <1>0, <2>2
  <2> HIDE DEF d, h, q
  <2>6. /\ Fine(a)
        /\ CanChange(s, k, d) => Resized(s, k, d, a)
        /\ ~CanChange(s, k, d) => a = s
    BY <2>2, <2>3, ChgWHeightFine
  <2> HIDE DEF a
  <2>7. /\ Len(a.wins) = Len(s.wins) /\ a.list = s.list /\ a.bf = s.bf
        /\ \A i \in 1..Len(s.wins) : a.wins[i].buf = s.wins[i].buf
        /\ \A i \in 1..Len(s.wins) : i # k => a.wins[i].height = s.wins[i].height
        /\ CanChange(s, k, d) => a.wins[k].height = h + d
    BY <2>2, <2>6 DEF Resized, h
  <2>8. k \in 1..Len(a.wins)
    BY <2>2, <2>7
  <2>9. Fine(b) /\ Retied(a, k, q, b)
    <3>1. b = TieWin(a, k, q)
      BY <2>0
    <3> HIDE DEF b
    <3> QED
      BY <2>6, <2>8, <2>0, <3>1, TieWinFine
  <2> HIDE DEF b
  <2>10. /\ Len(b.wins) = Len(s.wins) /\ b.list = s.list /\ b.bf = s.bf
         /\ \A i \in 1..Len(s.wins) : b.wins[i].height = a.wins[i].height
         /\ \A i \in 1..Len(s.wins) : i # k => b.wins[i].buf = s.wins[i].buf
         /\ ~Deleted(s, q) => b.wins[k].buf = q
    BY <2>2, <2>7, <2>9 DEF Retied, Deleted
  <2>11. Fine(c) /\ Same(b, c) /\ c.bf # 0
    BY <1>0, <2>2, <2>9, <2>10, ToMarkFine
  <2> HIDE DEF c
  <2>12. e \in Int /\ k \in 1..Len(c.wins)
    BY <2>2, <2>10, <2>11, FineFields DEF Same, SameWins
  <2> HIDE DEF e
  <2>13. Fine(x) /\ Same(c, x) /\ x.bf = c.bf
    BY <2>11, <2>12, DotStored
  <2> HIDE DEF x
  <2>14. Same(b, x)
    BY <2>11, <2>13, SameTrans
  <2>15. /\ Len(x.wins) = Len(s.wins) /\ x.list = s.list
         /\ \A i \in 1..Len(s.wins) : x.wins[i].height = b.wins[i].height
                                      /\ x.wins[i].buf = b.wins[i].buf
    BY <2>10, <2>14 DEF Same, SameWins, Alike
  <2>16. Recovered(s, x.wins[k], r)
    BY <2>2, <2>4, <2>5, <2>7, <2>10, <2>15, <2>0 DEF Recovered
  <2>17. \A i \in 1..Len(s.wins) : i # k =>
           x.wins[i].height = s.wins[i].height /\ x.wins[i].buf = s.wins[i].buf
    BY <2>7, <2>10, <2>15
  <2>18. x.bf # 0 /\ s.bf # 0 /\ k <= Len(s.wins)
    BY <1>0, <1>2, <2>11, <2>13
  <2> QED
    BY <2>1, <2>13, <2>15, <2>16, <2>17, <2>18 DEF PutBack
<1> QED
  BY <1>1, <1>2

(* After the first k windows of the recording. *)
Back(s, wins, k, t) ==
  /\ Len(t.wins) = Len(s.wins) /\ t.list = s.list
  /\ t.bf # 0 => k <= Len(s.wins)
  /\ s.bf # 0 /\ k <= Len(s.wins) =>
       /\ t.bf # 0
       /\ \A j \in 1..k : Recovered(s, t.wins[j], wins[j])
       /\ \A j \in (k + 1)..Len(s.wins) :
            t.wins[j].height = s.wins[j].height /\ t.wins[j].buf = s.wins[j].buf

LEMMA BackNext ==
  ASSUME NEW s, Fine(s), NEW wins \in Seq(Record), NEW k \in 1..Len(wins),
         NEW t, Fine(t), Back(s, wins, k - 1, t)
  PROVE  LET x == Reinstated(t, k, wins[k])
         IN  Fine(x) /\ Back(s, wins, k, x)
<1> DEFINE r == wins[k]
           x == Reinstated(t, k, r)
           n == Len(s.wins)
<1>1. r \in Record /\ k \in Nat /\ k > 0 /\ n \in Nat
  BY FineFields
<1> HIDE DEF r
<1>2. Fine(x) /\ PutBack(t, k, r, x)
  BY <1>1, ReinstatedFine
<1> HIDE DEF x
<1>3. /\ Len(t.wins) = n /\ t.list = s.list
      /\ s.bf # 0 /\ k - 1 <= n =>
           /\ t.bf # 0
           /\ \A j \in 1..(k - 1) : Recovered(s, t.wins[j], wins[j])
           /\ \A j \in ((k - 1) + 1)..n :
                t.wins[j].height = s.wins[j].height /\ t.wins[j].buf = s.wins[j].buf
  BY DEF Back
<1>4. /\ Len(x.wins) = n /\ x.list = s.list
      /\ x.bf # 0 => k <= n
      /\ t.bf # 0 /\ k <= n =>
           /\ x.bf # 0 /\ Recovered(t, x.wins[k], r)
           /\ \A i \in 1..n : i # k =>
                x.wins[i].height = t.wins[i].height /\ x.wins[i].buf = t.wins[i].buf
  BY <1>2, <1>3 DEF PutBack
<1> HIDE DEF n
<1>5. ASSUME s.bf # 0, k <= n
      PROVE  /\ x.bf # 0
             /\ \A j \in 1..k : Recovered(s, x.wins[j], wins[j])
             /\ \A j \in (k + 1)..n :
                  x.wins[j].height = s.wins[j].height /\ x.wins[j].buf = s.wins[j].buf
  <2>1. k - 1 <= n
    BY <1>1, <1>5
  <2>2. /\ x.bf # 0 /\ Recovered(t, x.wins[k], r)
        /\ \A i \in 1..n : i # k =>
             x.wins[i].height = t.wins[i].height /\ x.wins[i].buf = t.wins[i].buf
    BY <1>3, <1>4, <1>5, <2>1
  <2>3. ASSUME NEW j \in 1..k PROVE Recovered(s, x.wins[j], wins[j])
    <3>1. CASE j = k
      BY <1>3, <2>2, <3>1 DEF Recovered, Deleted, r
    <3>2. CASE j # k
      <4>1. j \in 1..(k - 1) /\ j \in 1..n
        BY <1>1, <1>5, <3>2
      <4> QED
        BY <1>3, <1>5, <2>1, <2>2, <3>2, <4>1 DEF Recovered
    <3> QED
      BY <3>1, <3>2
  <2>4. ASSUME NEW j \in (k + 1)..n
        PROVE  x.wins[j].height = s.wins[j].height /\ x.wins[j].buf = s.wins[j].buf
    <3>1. j \in 1..n /\ j # k /\ j \in ((k - 1) + 1)..n
      BY <1>1
    <3> QED
      BY <1>3, <1>5, <2>1, <2>2, <3>1
  <2> QED
    BY <2>2, <2>3, <2>4
<1> QED
  BY <1>2, <1>4, <1>5 DEF Back, r, n, x

LEMMA ReinstateFine ==
  ASSUME NEW s, Fine(s), NEW wins \in Seq(Record)
  PROVE  Fine(Reinstate(s, wins)) /\ Back(s, wins, Len(wins), Reinstate(s, wins))
<1> DEFINE n == Len(wins)
           S == [ k \in 0..n |-> { t \in Screen : Fine(t) /\ Back(s, wins, k, t) } ]
           step == [ k \in 1..n |-> [ t \in S[k - 1] |-> Reinstated(t, k, wins[k]) ] ]
           Path(f) == f = [ k \in 0..n |-> IF k = 0 THEN s ELSE Reinstated(f[k - 1], k, wins[k]) ]
           g == CHOOSE f : Path(f)
<1>1. n \in Nat /\ s \in Screen /\ Len(s.wins) \in Nat
  BY FineFields DEF Fine
<1>2. s \in S[0]
  <2>1. Back(s, wins, 0, s)
    <3>1. \A j \in 1..0 : FALSE
      OBVIOUS
    <3> QED
      BY <1>1, <3>1 DEF Back
  <2> QED
    BY <1>1, <2>1
<1>3. ASSUME NEW k \in 1..n, NEW t \in S[k - 1] PROVE Reinstated(t, k, wins[k]) \in S[k]
  <2>1. k - 1 \in 0..n /\ k \in 0..n
    BY <1>1
  <2>2. Fine(t) /\ Back(s, wins, k - 1, t)
    BY <2>1
  <2> DEFINE x == Reinstated(t, k, wins[k])
  <2>3. Fine(x) /\ Back(s, wins, k, x)
    BY <2>2, BackNext
  <2>4. x \in Screen
    BY <2>3 DEF Fine
  <2> HIDE DEF x
  <2> QED
    BY <2>1, <2>3, <2>4 DEF x
<1>4. Reinstate(s, wins) = g[n]
  BY DEF Reinstate
<1>5. PICK f : /\ On(f, n) /\ f[0] = s
               /\ \A i \in 1..n : f[i] = step[i][f[i - 1]]
               /\ \A i \in 0..n : f[i] \in S[i]
  <2>1. Leads(step, S, n)
    <3> HIDE DEF S
    <3> QED
      BY <1>3 DEF Leads
  <2> HIDE DEF n, S, step
  <2> QED
    BY <1>1, <1>2, <2>1, Iterated
<1> HIDE DEF S
<1>6. \A i \in 1..n : f[i] = Reinstated(f[i - 1], i, wins[i])
  <2>1. \A i \in 1..n : i - 1 \in 0..n
    BY <1>1
  <2>2. \A i \in 1..n : f[i - 1] \in S[i - 1]
    BY <1>5, <2>1
  <2> QED
    BY <1>5, <2>2
<1>7. Path(f)
  <2>1. \A i \in 0..n : i # 0 => i \in 1..n
    BY <1>1
  <2>2. f = [ k \in 0..n |-> f[k] ]
    BY <1>5 DEF On
  <2> HIDE DEF n
  <2>3. \A k \in 0..n : f[k] = IF k = 0 THEN s ELSE Reinstated(f[k - 1], k, wins[k])
    BY <1>5, <1>6, <2>1
  <2> QED
    BY <2>2, <2>3
<1>8. Path(g)
  <2> HIDE DEF Path
  <2> QED
    BY <1>7
<1> HIDE DEF g
<1>9. g[0] = s /\ \A i \in 1..n : g[i] = Reinstated(g[i - 1], i, wins[i])
  BY <1>1, <1>8
<1>10. \A k \in 0..n : g[k] \in S[k]
  <2>1. \A i \in 1..n : g[i - 1] \in S[i - 1] => g[i] \in S[i]
    BY <1>3, <1>9
  <2> HIDE DEF n
  <2> QED
    BY <1>1, <1>2, <1>9, <2>1, Stepwise
<1>11. g[n] \in S[n]
  BY <1>1, <1>10
<1>12. Fine(g[n]) /\ Back(s, wins, n, g[n])
  BY <1>1, <1>11 DEF S
<1> QED
  BY <1>4, <1>12

(***************************************************************************)
(* The activities that are open.                                           *)
(***************************************************************************)
Answers    == [ do : {"getstr"}, num : Nat, outer : Int, mark : Marker,
                holds : SUBSET Buffers, ids : Seq(Nat) ]
Excursions == [ do : {"excursion"}, wins : Seq(Record), current : Int, mark : Marker,
                visible : BOOLEAN, holds : SUBSET Buffers, bf : Buffers, dot : Int ]
Frames     == Answers \cup Excursions

(* An answer goes back to a window there was; an excursion without windows *)
(* goes back to the buffer and the dot there were, one with windows to one *)
(* of them.                                                                *)
Fit(f) ==
  /\ f.do = "getstr" => "getstr" \in scene.activities /\ f.num \in 1..Len(f.ids)
  /\ f.do = "excursion" =>
       /\ scene.activities # {} /\ f.current \in -1..Len(f.wins)
       /\ f.current = 0 <=> f.wins = << >>
       /\ f.wins = << >> => f.mark = [ buf |-> f.bf, dot |-> f.dot ]
       /\ f.current # 0 => "windows" \in scene.activities

Stacked == stack \in Seq(Frames) /\ \A k \in 1..Len(stack) : Fit(stack[k])

LEMMA Opened ==
  ASSUME Stacked, NEW f \in Frames, Fit(f), Open(f)
  PROVE  Stacked' /\ scene' = scene
<1> DEFINE t == << f >> \o stack
<1>1. stack' = t /\ scene' = scene /\ stack \in Seq(Frames)
  BY DEF Open, Stacked
<1>2. t \in Seq(Frames) /\ Len(t) = Len(stack) + 1 /\ t[1] = f
      /\ \A i \in 2..Len(t) : t[i] = stack[i - 1]
  BY <1>1, Pushed
<1> HIDE DEF t
<1>3. ASSUME NEW k \in 1..Len(t) PROVE Fit(t[k])
  <2>1. CASE k = 1
    BY <1>2, <2>1
  <2>2. CASE k # 1
    <3>1. k \in 2..Len(t) /\ k - 1 \in 1..Len(stack)
      BY <1>1, <1>2, <2>2
    <3> QED
      BY <1>2, <3>1 DEF Stacked
  <2> QED
    BY <2>1, <2>2
<1> QED
  BY <1>1, <1>2, <1>3 DEF Stacked, Fit

LEMMA Closed ==
  ASSUME Stacked, stack # << >>, Close
  PROVE  Stacked' /\ scene' = scene
<1> DEFINE t == Tail(stack)
<1>1. stack' = t /\ scene' = scene /\ stack \in Seq(Frames) /\ Len(stack) \in Nat
  BY DEF Close, Stacked
<1>2. t \in Seq(Frames) /\ Len(stack) = Len(t) + 1
      /\ \A i \in 1..Len(t) : t[i] = stack[i + 1]
  BY <1>1, Popped
<1> HIDE DEF t
<1>3. ASSUME NEW k \in 1..Len(t) PROVE Fit(t[k])
  <2>1. k + 1 \in 1..Len(stack)
    BY <1>1, <1>2
  <2> QED
    BY <1>2, <2>1 DEF Stacked
<1> QED
  BY <1>1, <1>2, <1>3 DEF Stacked, Fit

LEMMA Top ==
  ASSUME Stacked, stack # << >>
  PROVE  Head(stack) \in Frames /\ Fit(Head(stack))
<1>1. stack \in Seq(Frames)
  BY DEF Stacked
<1>2. 1 \in 1..Len(stack) /\ Head(stack) = stack[1] /\ Head(stack) \in Frames
  BY <1>1, Popped
<1> QED
  BY <1>2 DEF Stacked

LEMMA MinibufThere ==
  ASSUME NEW s, Fine(s)
  PROVE  minibuf \in Buffers /\ ~Deleted(s, minibuf)
BY FineFields, BuffersAssumption DEF Fine, Chained, Deleted, Contains

LEMMA ReturnFine ==
  ASSUME NEW s, Fine(s), s.bf # 0, NEW num \in Nat, num >= 1
  PROVE  LET t == Return(s, num)
         IN  /\ Fine(t) /\ Kept(s, t)
             /\ num <= Len(s.wins) => Same(s, t) /\ t.cur = num
<1>0. Len(s.wins) \in Nat /\ s.bf \in Buffers
  BY FineFields
<1>1. CASE num <= Len(s.wins)
  <2>1. num \in 1..Len(s.wins) /\ Return(s, num) = SetWin(s, num)
    BY <1>0, <1>1 DEF Return, Bottom
  <2> QED
    BY <2>1, SetWinFine, SetWinKept
<1>2. CASE ~(num <= Len(s.wins))
  <2> DEFINE b == s.bf
  <2>1. Return(s, num) = WindowOn(s, b) /\ b \in Buffers
    BY <1>0, <1>2 DEF Return, Bottom
  <2> HIDE DEF b
  <2> QED
    BY <1>2, <2>1, WindowOnFine, WindowOnKept
<1> QED
  BY <1>1, <1>2

LEMMA GetstrEnterDone ==
  ASSUME Fine(scr), Stacked, GetstrEnter
  PROVE  /\ Fine(scr') /\ Kept(scr, scr') /\ Stacked' /\ scene' = scene
         /\ scene.activities # {}
<1> DEFINE w == Bottom(scr)
           s == SetWin(scr, w)
           c == Clip(scr, scr.dot)
           m == [ buf |-> scr.bf, dot |-> c ]
           l == [ i \in DOMAIN scr.wins |-> scr.wins[i].id ]
           f == [ do |-> "getstr", num |-> scr.cur, outer |-> s.dot, mark |-> m,
                  holds |-> {scr.bf}, ids |-> l ]
           one == 1
           x == [ s EXCEPT !.dot = one ]
<1>1. "getstr" \in scene.activities /\ scr.bf # 0 /\ Open(f) /\ Finish(x)
  BY DEF GetstrEnter, Alive
<1>2. /\ w \in 1..Len(scr.wins) /\ scr.bf \in Buffers /\ scr.cur \in 1..Len(scr.wins)
      /\ c \in Int /\ scr.cur \in Nat /\ one \in Int
  <2>1. scr.dot \in Int
    BY FineFields
  <2> QED
    BY <1>1, <2>1, FineFields, ClipFine DEF Bottom
<1> HIDE DEF w, c, one
<1>3. Fine(s) /\ Same(scr, s)
  BY <1>2, SetWinFine
<1> HIDE DEF s
<1>4. Fine(x) /\ x.wins = s.wins /\ x.list = s.list
  BY <1>2, <1>3, Aimed
<1> HIDE DEF x
<1>5. Kept(scr, x)
  BY <1>3, <1>4, SameKept DEF Same
<1>6. l \in Seq(Nat) /\ Len(l) = Len(scr.wins)
  <2>1. scr.wins \in Seq(Win) /\ DOMAIN scr.wins = 1..Len(scr.wins) /\ Len(scr.wins) \in Nat
    BY FineFields
  <2>2. \A i \in 1..Len(scr.wins) : scr.wins[i].id \in Nat
    BY WinFields
  <2>3. l \in [ 1..Len(scr.wins) -> Nat ]
    BY <2>1, <2>2
  <2> HIDE DEF l
  <2> QED
    BY <2>1, <2>3
<1> HIDE DEF l
<1>7. m \in Marker /\ s.dot \in Int /\ {scr.bf} \in SUBSET Buffers
  BY <1>2, <1>3, FineFields DEF Marker
<1> HIDE DEF m
<1>8. f \in Frames /\ Fit(f)
  <2>1. f \in Answers
    BY <1>2, <1>6, <1>7 DEF Answers
  <2>2. f.do = "getstr" /\ f.num = scr.cur /\ f.ids = l
    OBVIOUS
  <2> HIDE DEF f
  <2> QED
    BY <1>1, <1>2, <1>6, <2>1, <2>2 DEF Fit, Frames
<1> HIDE DEF f
<1>9. Stacked' /\ scene' = scene
  BY <1>1, <1>8, Opened
<1> QED
  BY <1>1, <1>4, <1>5, <1>9, CommandKept

LEMMA GetstrLeaveDone ==
  ASSUME Fine(scr), Stacked, GetstrLeave
  PROVE  /\ Fine(scr') /\ Kept(scr, scr') /\ Stacked' /\ scene' = scene
         /\ scene.activities # {} /\ Head(stack) \in Answers /\ Fit(Head(stack))
         /\ Head(stack).num <= Len(scr.wins) => scr'.cur = Head(stack).num
         /\ (Head(stack).num <= Len(scr.wins) /\ ~Deleted(scr, Head(stack).mark.buf)) =>
              scr'.bf = Head(stack).mark.buf /\ scr'.dot = Head(stack).mark.dot
<1> DEFINE f == Head(stack)
           t == SetBfp(scr, minibuf)
           d == Clip(t, f.outer)
           x == [ t EXCEPT !.dot = d ]
           r == Return(x, f.num)
           y == ToMark(r, f.mark)
<1>1. scr.bf # 0 /\ stack # << >> /\ f.do = "getstr" /\ Finish(y) /\ Close
  BY DEF GetstrLeave, Alive, Innermost
<1>2. Stacked' /\ scene' = scene /\ f \in Frames /\ Fit(f)
  BY <1>1, Closed, Top
<1>3. f \in Answers
  BY <1>1, <1>2 DEF Frames, Excursions
<1>4. /\ f.num \in Nat /\ f.num >= 1 /\ f.outer \in Int /\ f.mark.buf \in Buffers
      /\ f.mark.dot \in Int /\ scene.activities # {}
  <2>1. f.num \in Nat /\ f.outer \in Int /\ f.mark \in Marker
    BY <1>3 DEF Answers
  <2>2. f.num \in 1..Len(f.ids) /\ "getstr" \in scene.activities
    BY <1>1, <1>2 DEF Fit
  <2> QED
    BY <2>1, <2>2 DEF Marker
<1> HIDE DEF f
<1>5. Fine(t) /\ Same(scr, t) /\ t.bf = minibuf
  BY MinibufThere, SetBfpFine
<1> HIDE DEF t
<1>6. d \in Int
  BY <1>4, ClipFine
<1> HIDE DEF d
<1>7. Fine(x) /\ x.wins = t.wins /\ x.list = t.list /\ x.bf = t.bf
  BY <1>5, <1>6, Aimed
<1> HIDE DEF x
<1>8. Same(scr, x) /\ x.bf # 0
  <2>1. minibuf # 0
    BY DEF minibuf
  <2> QED
    BY <1>5, <1>7, <2>1 DEF Same
<1> DEFINE num == f.num
<1>9. /\ Fine(r) /\ Kept(x, r)
      /\ num <= Len(x.wins) => Same(x, r) /\ r.cur = num
  <2>1. r = Return(x, num) /\ num \in Nat /\ num >= 1
    BY <1>4
  <2> HIDE DEF r, num
  <2> QED
    BY <1>7, <1>8, <2>1, ReturnFine
<1> HIDE DEF r
<1>10. /\ Fine(y) /\ Same(r, y) /\ y.cur = r.cur
       /\ ~Deleted(r, f.mark.buf) => y.bf = f.mark.buf /\ y.dot = f.mark.dot
  <2> DEFINE m == f.mark
  <2>1. y = ToMark(r, m) /\ m.buf \in Buffers /\ m.dot \in Int
    BY <1>4
  <2> HIDE DEF y, m
  <2>2. /\ Fine(y) /\ Same(r, y) /\ y.cur = r.cur
        /\ ~Deleted(r, m.buf) => y.bf = m.buf /\ y.dot = m.dot
    BY <1>9, <2>1, ToMarkFine
  <2> QED
    BY <2>2 DEF m
<1> HIDE DEF y
<1>11. Kept(scr, y)
  <2>1. Kept(scr, x) /\ Kept(r, y)
    BY <1>7, <1>8, <1>9, <1>10, SameKept
  <2>2. Kept(scr, r)
    BY <1>9, <2>1, KeptTrans
  <2> QED
    BY <2>1, <2>2, KeptTrans
<1>12. Fine(scr') /\ Kept(scr, scr') /\ scr'.cur = y.cur /\ scr'.bf = y.bf /\ scr'.dot = y.dot
  BY <1>1, <1>10, <1>11, CommandKept, FinishFine
<1>13. Len(x.wins) = Len(scr.wins)
  BY <1>8 DEF Same, SameWins
<1>14. num <= Len(scr.wins) => scr'.cur = num
  BY <1>9, <1>10, <1>12, <1>13
<1>15. ASSUME ~Deleted(scr, f.mark.buf), num <= Len(scr.wins)
       PROVE  scr'.bf = f.mark.buf /\ scr'.dot = f.mark.dot
  <2>1. ~Deleted(x, f.mark.buf)
    BY <1>8, <1>15, SameDeleted
  <2>2. Same(x, r)
    BY <1>9, <1>13, <1>15
  <2>3. ~Deleted(r, f.mark.buf)
    BY <2>1, <2>2, SameDeleted
  <2> QED
    BY <1>10, <1>12, <2>3
<1> QED
  BY <1>2, <1>3, <1>4, <1>12, <1>14, <1>15 DEF f

LEMMA SaveExcursionEnterDone ==
  ASSUME Fine(scr), Stacked, SaveExcursionEnter
  PROVE  /\ Fine(scr') /\ Kept(scr, scr') /\ Stacked' /\ scene' = scene
         /\ scene.activities # {}
<1> DEFINE m    == [ buf |-> scr.bf, dot |-> scr.dot ]
           v    == Current(scr).buf = scr.bf
           zero == 0
           none == << >>
           h    == {scr.bf} \cup { none[i].buf : i \in DOMAIN none }
           f    == [ do |-> "excursion", wins |-> none, current |-> zero, mark |-> m,
                     visible |-> v, holds |-> h, bf |-> scr.bf, dot |-> scr.dot ]
<1>1. "excursion" \in scene.activities /\ scr.bf # 0 /\ Open(f) /\ Finish(scr)
  BY DEF SaveExcursionEnter, Alive, Saved
<1>2. scr.bf \in Buffers /\ scr.dot \in Int /\ m \in Marker /\ v \in BOOLEAN
      /\ zero \in Int /\ zero = 0
  BY <1>1, FineFields DEF Marker
<1>3. h \in SUBSET Buffers /\ none \in Seq(Record) /\ none = << >> /\ Len(none) = 0
  <2>1. none = << >> /\ DOMAIN none = {}
    OBVIOUS
  <2>2. h = {scr.bf}
    BY <2>1
  <2> HIDE DEF h
  <2> QED
    BY <1>2, <2>1, <2>2
<1>0. m = [ buf |-> scr.bf, dot |-> scr.dot ]
  OBVIOUS
<1> HIDE DEF m, v, zero, none, h
<1>4. f \in Frames /\ Fit(f)
  <2>1. f \in Excursions
    BY <1>2, <1>3 DEF Excursions
  <2>2. f.do = "excursion" /\ f.current = 0 /\ f.wins = << >> /\ f.mark = m
        /\ f.bf = scr.bf /\ f.dot = scr.dot
    BY <1>2, <1>3
  <2> HIDE DEF f
  <2>3. f.current \in -1..Len(f.wins)
    BY <2>2
  <2> QED
    BY <1>1, <1>0, <2>1, <2>2, <2>3 DEF Fit, Frames
<1> HIDE DEF f
<1>5. Stacked' /\ scene' = scene
  BY <1>1, <1>4, Opened
<1>6. Kept(scr, scr)
  BY SameSelf, SameKept
<1> QED
  BY <1>1, <1>5, <1>6, CommandKept

LEMMA SaveWindowExcursionEnterDone ==
  ASSUME Fine(scr), Stacked, SaveWindowExcursionEnter
  PROVE  /\ Fine(scr') /\ Kept(scr, scr') /\ Stacked' /\ scene' = scene
         /\ scene.activities # {}
<1> DEFINE r == Recorded(scr)
           x == r.at
           u == r.wins
           c == IF scr.cur = Bottom(scr) THEN -1 ELSE scr.cur
           m == [ buf |-> x.bf, dot |-> x.dot ]
           v == Current(x).buf = x.bf
           h == {x.bf} \cup { u[i].buf : i \in DOMAIN u }
           f == [ do |-> "excursion", wins |-> u, current |-> c, mark |-> m,
                  visible |-> v, holds |-> h, bf |-> scr.bf, dot |-> scr.dot ]
<1>1. "windows" \in scene.activities /\ scr.bf # 0 /\ Open(f) /\ Finish(x)
  BY DEF SaveWindowExcursionEnter, Alive, Saved
<1>2. /\ Fine(x) /\ Same(scr, x) /\ x.bf # 0 /\ u \in Seq(Record)
      /\ Len(u) = Len(scr.wins) - 1
  <2> HIDE DEF r
  <2> QED
    BY <1>1, RecordedFine DEF r
<1> HIDE DEF r
<1> HIDE DEF x, u
<1>3. /\ scr.bf \in Buffers /\ scr.dot \in Int /\ scr.cur \in 1..Len(scr.wins)
      /\ x.bf \in Buffers /\ x.dot \in Int /\ Len(scr.wins) \in Nat /\ Len(scr.wins) >= 2
  BY <1>1, <1>2, FineFields DEF Fine
<1>4. c \in Int /\ c \in -1..Len(u) /\ c # 0 /\ u # << >>
  <2>1. c \in Int /\ c \in -1..Len(u) /\ c # 0
    BY <1>2, <1>3 DEF Bottom
  <2> QED
    BY <1>2, <1>3, <2>1
<1>5. m \in Marker /\ v \in BOOLEAN
  BY <1>3 DEF Marker
<1>6. h \in SUBSET Buffers
  <2>1. \A i \in DOMAIN u : u[i] \in Record
    BY <1>2
  <2>2. \A i \in DOMAIN u : u[i].buf \in Buffers
    BY <2>1 DEF Record
  <2> QED
    BY <1>3, <2>2
<1> HIDE DEF c, m, v, h
<1>7. f \in Frames /\ Fit(f)
  <2>1. f \in Excursions
    BY <1>2, <1>3, <1>4, <1>5, <1>6 DEF Excursions
  <2>2. f.do = "excursion" /\ f.current = c /\ f.wins = u
    OBVIOUS
  <2> HIDE DEF f
  <2> QED
    BY <1>1, <1>4, <2>1, <2>2 DEF Fit, Frames
<1> HIDE DEF f
<1>8. Stacked' /\ scene' = scene
  BY <1>1, <1>7, Opened
<1>9. Kept(scr, x)
  BY <1>2, SameKept
<1> QED
  BY <1>1, <1>2, <1>8, <1>9, CommandKept

(* The way back from an excursion, before its windows are put back.        *)
LEMMA BackToMarkFine ==
  ASSUME NEW s, Fine(s), s.bf # 0, NEW f \in Excursions
  PROVE  LET t == BackToMark(s, f)
         IN  /\ Fine(t) /\ Kept(s, t) /\ t.list = s.list
             /\ ~Deleted(s, f.mark.buf) => t.bf = f.mark.buf /\ t.dot = f.mark.dot
             /\ Len(t.wins) >= Len(s.wins) /\ SameFoot(s, t)
             /\ (\A i \in 1..Len(s.wins) : ~Deleted(s, s.wins[i].buf)) =>
                  t.bf # 0 /\ \A i \in 1..Len(t.wins) : ~Deleted(t, t.wins[i].buf)
             /\ (PopUpWindows /\ s.wins[Len(s.wins)].buf = minibuf) =>
                  t.wins[Len(t.wins)].buf = minibuf
<1> DEFINE m == f.mark
           t == SetBfp(s, m.buf)
           b == t.bf
           u == IF f.visible THEN WindowOn(t, b) ELSE t
           z == ToMark(u, m)
<1>1. m.buf \in Buffers /\ m.dot \in Int
  <2>1. m \in Marker
    BY DEF Excursions
  <2> QED
    BY <2>1 DEF Marker
<1>0. BackToMark(s, f) = z
  BY DEF BackToMark
<1> HIDE DEF m
<1>2. /\ Fine(t) /\ Same(s, t) /\ t.cur = s.cur
      /\ Deleted(s, m.buf) => t = s
      /\ ~Deleted(s, m.buf) => t.bf = m.buf
  BY <1>1, SetBfpFine
<1>3. t.bf # 0
  BY <1>1, <1>2, BuffersAssumption
<1> HIDE DEF t
<1>4. b \in Buffers
  BY <1>2, <1>3, FineFields
<1>5. Kept(s, t) /\ t.list = s.list /\ Len(t.wins) = Len(s.wins) /\ Len(s.wins) \in 1..Len(s.wins)
  BY <1>2, SameKept, FineFields DEF Same, SameWins
<1>6. SameFoot(s, t) /\ \A i \in 1..Len(s.wins) : t.wins[i].buf = s.wins[i].buf
  BY <1>2, <1>5 DEF SameFoot, Same, SameWins, Alike
<1>7. /\ Fine(u) /\ Kept(t, u) /\ u.list = t.list
      /\ Len(u.wins) >= Len(t.wins) /\ SameFoot(t, u)
      /\ (\A i \in 1..Len(t.wins) : ~Deleted(t, t.wins[i].buf)) =>
           u.bf # 0 /\ \A i \in 1..Len(u.wins) : ~Deleted(u, u.wins[i].buf)
  <2>1. CASE f.visible
    <3>1. u = WindowOn(t, b)
      BY <2>1
    <3> HIDE DEF u, b
    <3>2. Fine(u) /\ Shown(t, b, u) /\ Kept(t, u)
      BY <1>2, <1>4, <3>1, WindowOnFine, WindowOnKept
    <3> QED
      BY <3>2 DEF Shown
  <2>2. CASE ~f.visible
    <3>1. u = t
      BY <2>2
    <3>2. Kept(t, t) /\ SameFoot(t, t) /\ Len(t.wins) \in Nat
      BY <1>2, SameSelf, SameKept, FineFields DEF SameFoot
    <3> QED
      BY <1>2, <1>3, <3>1, <3>2
  <2> QED
    BY <2>1, <2>2
<1> HIDE DEF u, b
<1>8. /\ Fine(z) /\ Same(u, z)
      /\ ~Deleted(u, m.buf) => z.bf = m.buf /\ z.dot = m.dot
      /\ (u.bf # 0 => z.bf # 0)
  BY <1>1, <1>7, ToMarkFine
<1> HIDE DEF z
<1>9. /\ Kept(u, z) /\ z.list = u.list /\ Len(z.wins) = Len(u.wins)
      /\ \A i \in 1..Len(u.wins) : z.wins[i].buf = u.wins[i].buf /\ z.wins[i].height = u.wins[i].height
  BY <1>7, <1>8, SameKept DEF Same, SameWins, Alike
<1>10. Len(u.wins) \in 1..Len(u.wins) /\ Len(u.wins) \in Nat /\ Len(t.wins) \in Nat
  BY <1>2, <1>7, FineFields
<1>11. Kept(s, z) /\ z.list = s.list
  BY <1>5, <1>7, <1>9, KeptTrans
<1>12. ~Deleted(s, m.buf) => z.bf = m.buf /\ z.dot = m.dot
  BY <1>5, <1>7, <1>8 DEF Deleted
<1>13. Len(z.wins) >= Len(s.wins) /\ SameFoot(s, z)
  BY <1>5, <1>6, <1>7, <1>9, <1>10 DEF SameFoot
<1>14. ASSUME \A i \in 1..Len(s.wins) : ~Deleted(s, s.wins[i].buf)
       PROVE  z.bf # 0 /\ \A i \in 1..Len(z.wins) : ~Deleted(z, z.wins[i].buf)
  <2>1. \A i \in 1..Len(t.wins) : ~Deleted(t, t.wins[i].buf)
    BY <1>5, <1>6, <1>14 DEF Deleted
  <2>2. u.bf # 0 /\ \A i \in 1..Len(u.wins) : ~Deleted(u, u.wins[i].buf)
    BY <1>7, <2>1
  <2> QED
    BY <1>8, <1>9, <2>2 DEF Deleted
<1>15. PopUpWindows /\ s.wins[Len(s.wins)].buf = minibuf => z.wins[Len(z.wins)].buf = minibuf
  BY <1>11 DEF Kept
<1> QED
  BY <1>0, <1>11, <1>12, <1>13, <1>14, <1>15, <1>8 DEF m

LEMMA ExcursionLeaveDone ==
  ASSUME Fine(scr), Stacked, ExcursionLeave
  PROVE  /\ Fine(scr') /\ Stacked' /\ scene' = scene /\ scene.activities # {}
         /\ "windows" \notin scene.activities => Kept(scr, scr')
         /\ (Head(stack).wins = << >> /\ ~Deleted(scr, Head(stack).bf)) =>
              scr'.bf = Head(stack).bf /\ scr'.dot = Head(stack).dot
<1> DEFINE f == Head(stack)
           n == Len(f.wins)
           s == BackToMark(scr, f)
           a == TrimTo(s, n)
           b == SplitTo(a, n)
           t == Reinstate(b, f.wins)
           w == IF f.current = -1 THEN Bottom(t) ELSE f.current
           y == IF f.current = 0 THEN s ELSE IF t.bf = 0 THEN t ELSE SetWin(t, w)
<1>1. scr.bf # 0 /\ stack # << >> /\ f.do = "excursion" /\ Finish(y) /\ Close
  BY DEF ExcursionLeave, Alive, Innermost
<1>2. Stacked' /\ scene' = scene /\ f \in Frames /\ Fit(f)
  BY <1>1, Closed, Top
<1>3. f \in Excursions
  BY <1>1, <1>2 DEF Frames, Answers
<1>4. /\ scene.activities # {} /\ f.current \in -1..Len(f.wins) /\ f.wins \in Seq(Record)
      /\ f.wins = << >> => f.current = 0 /\ f.mark = [ buf |-> f.bf, dot |-> f.dot ]
      /\ f.current # 0 => "windows" \in scene.activities
  BY <1>1, <1>2, <1>3 DEF Fit, Excursions
<1>0. f = Head(stack)
  OBVIOUS
<1> HIDE DEF f
<1>5. /\ Fine(s) /\ Kept(scr, s) /\ s.list = scr.list
      /\ ~Deleted(scr, f.mark.buf) => s.bf = f.mark.buf /\ s.dot = f.mark.dot
  BY <1>1, <1>3, BackToMarkFine
<1> HIDE DEF s
<1>6. n \in Nat
  BY <1>4
<1>7. Fine(a)
  BY <1>5, DelWinsFine DEF TrimTo
<1>8. Fine(b)
  <2> HIDE DEF a, n
  <2> QED
    BY <1>6, <1>7, SplitToFine
<1>9. Fine(t) /\ Back(b, f.wins, n, t)
  <2> HIDE DEF b
  <2> QED
    BY <1>4, <1>8, ReinstateFine
<1>10. t.bf # 0 => n <= Len(t.wins)
  <2> HIDE DEF b, t, n
  <2> QED
    BY <1>9 DEF Back
<1> HIDE DEF a, b, t
<1>11. Fine(y)
  <2>1. CASE f.current = 0
    BY <1>5, <2>1
  <2>2. CASE f.current # 0 /\ t.bf = 0
    BY <1>9, <2>2
  <2>3. CASE f.current # 0 /\ t.bf # 0
    <3>1. w \in 1..Len(t.wins)
      <4>1. Len(t.wins) \in Nat /\ Len(t.wins) >= 2 /\ n <= Len(t.wins)
        BY <1>9, <1>10, <2>3, FineFields DEF Fine
      <4>2. f.current \in -1..n
        BY <1>4
      <4> HIDE DEF n
      <4> QED
        BY <1>6, <2>3, <4>1, <4>2 DEF Bottom
    <3>2. y = SetWin(t, w)
      BY <2>3
    <3> HIDE DEF w, y
    <3> QED
      BY <1>9, <3>1, <3>2, SetWinFine
  <2> QED
    BY <2>1, <2>2, <2>3
<1>12. f.current = 0 => y = s
  OBVIOUS
<1> HIDE DEF y
<1>13. Fine(scr') /\ Same(y, scr') /\ scr'.bf = y.bf /\ scr'.dot = y.dot
  BY <1>1, <1>11, FinishFine
<1>14. "windows" \notin scene.activities => Kept(scr, scr')
  <2>1. Kept(y, scr')
    BY <1>11, <1>13, SameKept
  <2> QED
    BY <1>4, <1>5, <1>12, <2>1, KeptTrans
<1>15. f.wins = << >> /\ ~Deleted(scr, f.bf) => scr'.bf = f.bf /\ scr'.dot = f.dot
  BY <1>4, <1>5, <1>12, <1>13
<1> QED
  BY <1>2, <1>4, <1>13, <1>14, <1>15, <1>0

(***************************************************************************)
(* The inductive invariant.                                                *)
(***************************************************************************)
IInv ==
  /\ scene \in Scenes /\ Fine(scr) /\ Stacked
  /\ "windows" \notin scene.activities => Lines(scr.wins) = scene.ScreenLength
  /\ (scene.activities = {} /\ minibuf \notin scene.names) => Quiet(scr)

LEMMA InitFine == Init => IInv
<1> SUFFICES ASSUME Init PROVE IInv
  OBVIOUS
<1> DEFINE L == scene.ScreenLength
           one == 1
           two == 2
           e  == Window(main, L - 1, one)
           m  == Window(minibuf, one, two)
           u  == << e, m >>
           l  == << main, minibuf >>
           p  == [ b \in Buffers |-> one ]
           s  == [ wins |-> u, cur |-> one, bf |-> main, dot |-> one, eph |-> p, list |-> l ]
<1>1. scene \in Scenes /\ scr = s /\ stack = << >>
  BY DEF Init
<1>2. L \in Nat /\ L - 1 \in Int /\ L = (L - 1) + 1
  BY <1>1, ScreenAssumption
<1>3. main \in Buffers /\ minibuf \in Buffers /\ main # minibuf /\ main # 0
      /\ one = 1 /\ one \in Int /\ one \in Nat
  BY BuffersAssumption DEF main, minibuf
<1> HIDE DEF L
<1>4. e \in Win /\ e.id = 1 /\ e.buf = main /\ e.height = L - 1
  BY <1>2, <1>3 DEF Window, Win
<1>5. m \in Win /\ m.id = 2 /\ m.buf = minibuf /\ m.height = 1
  BY <1>3 DEF Window, Win
<1> HIDE DEF e, m
<1>6. u \in Seq(Win) /\ Len(u) = 2 /\ u[1] = e /\ u[2] = m
  BY <1>4, <1>5
<1>7. l \in Seq(Buffers) /\ Len(l) = 2 /\ l[1] = main /\ l[2] = minibuf
  BY <1>3
<1>8. p \in [ Buffers -> Int ]
  BY <1>3
<1> HIDE DEF u, l, p
<1>9. s \in Screen /\ s.wins = u /\ s.cur = 1 /\ s.bf = main /\ s.list = l
  BY <1>3, <1>6, <1>7, <1>8 DEF Screen
<1> HIDE DEF s, one
<1>10. Distinct(u) /\ Chained(l)
  <2>1. \A i \in 1..2 : i = 1 \/ i = 2
    OBVIOUS
  <2>2. Distinct(u)
    BY <1>4, <1>5, <1>6, <2>1 DEF Distinct
  <2> QED
    BY <1>3, <1>7, <2>1, <2>2 DEF Chained
<1>11. Fine(s)
  <2>1. Len(s.wins) = 2 /\ s.cur \in 1..2
    BY <1>6, <1>9
  <2> QED
    BY <1>9, <1>10, <2>1 DEF Fine
<1>12. Stacked
  BY <1>1 DEF Stacked
<1>13. Lines(u) = L
  <2>1. PICK f : Upto(u, f) /\ Lines(u) = f[2]
    BY <1>6, LinesUpto
  <2>2. f[0] = 0 /\ f[1] = f[0] + (L - 1) /\ f[2] = f[1] + 1
    BY <1>4, <1>5, <1>6, <2>1 DEF Upto
  <2> QED
    BY <1>2, <2>1, <2>2
<1>14. Quiet(s)
  <2>1. ~Deleted(s, main) /\ ~Deleted(s, minibuf)
    <3>1. 1 \in 1..Len(s.list) /\ 2 \in 1..Len(s.list)
      BY <1>7, <1>9
    <3> QED
      BY <1>7, <1>9, <3>1 DEF Deleted, Contains
  <2>2. \A i \in 1..Len(u) : u[i].buf \in {main, minibuf}
    <3>1. \A i \in 1..2 : i = 1 \/ i = 2
      OBVIOUS
    <3> QED
      BY <1>4, <1>5, <1>6, <3>1
  <2>3. Len(s.wins) = 2 /\ s.wins[Len(s.wins)].buf = minibuf /\ s.cur < Len(s.wins)
    <3>1. Len(s.wins) = 2 /\ s.cur = 1
      BY <1>6, <1>9
    <3>2. s.wins[2] = m
      BY <1>6, <1>9
    <3> QED
      BY <1>5, <3>1, <3>2
  <2>4. \A i \in 1..Len(s.wins) : ~Deleted(s, s.wins[i].buf)
    BY <1>9, <2>1, <2>2
  <2> QED
    BY <1>3, <1>9, <2>1, <2>3, <2>4 DEF Quiet
<1> QED
  BY <1>1, <1>9, <1>11, <1>12, <1>13, <1>14 DEF IInv, L

(* What a step does to the invariant and to the bottom window.             *)
Stepped == /\ Fine(scr') /\ Stacked' /\ scene' = scene
           /\ "windows" \notin scene.activities => Kept(scr, scr')
           /\ (scene.activities = {} /\ minibuf \notin scene.names) => Quiet(scr')
           /\ Kept(scr, scr') \/ Ended("excursion")

LEMMA NextFine == IInv /\ [Next]_vars => Stepped
<1> SUFFICES ASSUME IInv, [Next]_vars PROVE Stepped
  OBVIOUS
<1>1. /\ Fine(scr) /\ Stacked /\ scene \in Scenes
      /\ (scene.activities = {} /\ minibuf \notin scene.names) => Quiet(scr)
  BY DEF IInv
<1>2. scene.activities = {} => stack = << >>
  <2> SUFFICES ASSUME stack # << >> PROVE scene.activities # {}
    OBVIOUS
  <2>1. Head(stack) \in Frames /\ Fit(Head(stack))
    BY <1>1, Top
  <2>2. Head(stack).do \in {"getstr", "excursion"}
    BY <2>1 DEF Frames, Answers, Excursions
  <2> QED
    BY <2>1, <2>2 DEF Fit
<1>3. CASE Commands
  <2>1. Done /\ stack' = stack /\ scene' = scene
    BY <1>1, <1>3, CommandsDone
  <2>2. Stacked'
    BY <1>1, <2>1 DEF Stacked, Fit
  <2> QED
    BY <1>1, <1>2, <2>1, <2>2 DEF Done, Stepped
<1>4. CASE GetstrEnter
  BY <1>1, <1>4, GetstrEnterDone DEF Stepped
<1>5. CASE GetstrLeave
  BY <1>1, <1>5, GetstrLeaveDone DEF Stepped
<1>6. CASE SaveExcursionEnter
  BY <1>1, <1>6, SaveExcursionEnterDone DEF Stepped
<1>7. CASE SaveWindowExcursionEnter
  BY <1>1, <1>7, SaveWindowExcursionEnterDone DEF Stepped
<1>8. CASE ExcursionLeave
  <2>1. Innermost("excursion") /\ stack' = Tail(stack) /\ stack \in Seq(Frames)
    BY <1>1, <1>8 DEF ExcursionLeave, Close, Stacked
  <2>2. Len(Tail(stack)) # Len(stack)
    BY <2>1 DEF Innermost
  <2>3. Ended("excursion")
    BY <2>1, <2>2 DEF Ended
  <2> QED
    BY <1>1, <1>8, <2>3, ExcursionLeaveDone DEF Stepped
<1>9. CASE UNCHANGED vars
  <2>1. scr' = scr /\ stack' = stack /\ scene' = scene
    BY <1>9 DEF vars
  <2>2. Stacked' /\ Kept(scr, scr')
    BY <1>1, <2>1, SameSelf, SameKept DEF Stacked, Fit
  <2> QED
    BY <1>1, <2>1, <2>2 DEF Stepped
<1> QED
  BY <1>3, <1>4, <1>5, <1>6, <1>7, <1>8, <1>9 DEF Next, Commands, Faulted

(* Whatever commands are given, the windows are a list of two at least,    *)
(* each with a number of its own, with a current one among them; the chain *)
(* of buffers ends in the minibuffer; the heights add up to the lines of   *)
(* the terminal; and what the open answers and excursions hold can be gone *)
(* back to (window.c, windowman.c, minibuf.c, mlisp.c).                    *)
THEOREM WindowsInvariant == Spec => []IInv
<1>1. IInv /\ [Next]_vars => IInv'
  <2> SUFFICES ASSUME IInv, [Next]_vars PROVE IInv'
    OBVIOUS
  <2>1. Stepped
    BY NextFine
  <2> QED
    BY <2>1 DEF IInv, Stepped, Kept
<1> QED
  BY <1>1, InitFine, PTL DEF Spec

(* The windows take up the terminal exactly unless a layout was put back,  *)
(* and DelBuf has found every use of the buffer it frees: no window, nor   *)
(* the editor itself, is left on a deleted buffer.                         *)
THEOREM WindowsAreSound == Spec => []WindowsSound
<1>1. IInv => WindowsSound
  BY DEF IInv, WindowsSound, Quiet, Alive
<1> QED
  BY <1>1, WindowsInvariant, PTL

(* When windows pop up, nothing but the end of save-window-excursion takes *)
(* the bottom window from the minibuffer: DelWin, TieWin, WindowOn and     *)
(* DelBuf pass it over, so that BrGetstr erases no text but the answer.    *)
THEOREM BottomStaysMinibuf ==
  ASSUME PopUpWindows
  PROVE  Spec => BottomIsMinibuf
<1>1. IInv /\ [Next]_vars => [ scr.wins[Bottom(scr)].buf = minibuf /\ ~Ended("excursion")
                               => scr'.wins[Bottom(scr')].buf = minibuf ]_vars
  <2> SUFFICES ASSUME IInv, [Next]_vars, scr.wins[Bottom(scr)].buf = minibuf,
                      ~Ended("excursion")
               PROVE  scr'.wins[Bottom(scr')].buf = minibuf
    OBVIOUS
  <2>1. Stepped
    BY NextFine
  <2> QED
    BY <2>1 DEF Stepped, Kept, Bottom
<1> QED
  BY <1>1, WindowsInvariant, PTL DEF Spec, BottomIsMinibuf

(* Only GetstrLeave ends an answer, only ExcursionLeave an excursion.      *)
LEMMA EndedBy ==
  ASSUME IInv, [Next]_vars, NEW what, Ended(what)
  PROVE  /\ what = "getstr" => GetstrLeave
         /\ what = "excursion" => ExcursionLeave
<1>1. stack' # stack /\ stack' = Tail(stack) /\ stack # << >> /\ stack \in Seq(Frames)
      /\ Head(stack).do = what
  BY DEF Ended, Innermost, IInv, Stacked
<1>2. Len(stack') < Len(stack)
  BY <1>1
<1>3. ~Commands
  BY <1>1, CommandsDone DEF IInv
<1>4. ASSUME NEW f, Open(f) PROVE FALSE
  <2>1. Len(stack') = Len(stack) + 1 /\ Len(stack) \in Nat
    BY <1>1, <1>4, Pushed DEF Open
  <2> QED
    BY <1>2, <2>1
<1>5. ~GetstrEnter /\ ~SaveExcursionEnter /\ ~SaveWindowExcursionEnter
  BY <1>4 DEF GetstrEnter, SaveExcursionEnter, SaveWindowExcursionEnter
<1>6. stack' # stack /\ ~UNCHANGED vars
  BY <1>1 DEF vars
<1>7. GetstrLeave \/ ExcursionLeave
  BY <1>3, <1>5, <1>6 DEF Next, Commands, Faulted
<1> QED
  BY <1>1, <1>7 DEF GetstrLeave, ExcursionLeave, Innermost

(* An answer from the minibuffer comes back to the window, the buffer and  *)
(* the place where it was asked for, if no window came or went since and   *)
(* the buffer is there: BrGetstr finds the window by its number again.     *)
THEOREM ReadComesBack == Spec => ReadReturns
<1> DEFINE f == Head(stack)
           A == (/\ Ended("getstr")
                 /\ f.ids = [ i \in DOMAIN scr.wins |-> scr.wins[i].id ]
                 /\ ~Deleted(scr, f.mark.buf) /\ ~Deleted(scr, scr.wins[f.num].buf))
                => scr'.cur = f.num /\ scr'.bf = f.mark.buf /\ scr'.dot = f.mark.dot
<1>1. IInv /\ [Next]_vars => [A]_vars
  <2> SUFFICES ASSUME IInv, [Next]_vars, Ended("getstr"), ~Deleted(scr, f.mark.buf),
                      f.ids = [ i \in DOMAIN scr.wins |-> scr.wins[i].id ]
               PROVE  scr'.cur = f.num /\ scr'.bf = f.mark.buf /\ scr'.dot = f.mark.dot
    OBVIOUS
  <2>1. Fine(scr) /\ Stacked /\ GetstrLeave
    BY EndedBy DEF IInv
  <2>2. /\ f \in Answers /\ Fit(f)
        /\ f.num <= Len(scr.wins) => scr'.cur = f.num
        /\ f.num <= Len(scr.wins) => scr'.bf = f.mark.buf /\ scr'.dot = f.mark.dot
    BY <2>1, GetstrLeaveDone
  <2>3. scr.wins \in Seq(Win) /\ Len(scr.wins) \in Nat
    BY <2>1, FineFields
  <2> DEFINE n == Len(scr.wins)
             l == f.ids
  <2>4. l \in Seq(Nat) /\ DOMAIN l = 1..n
    BY <2>2, <2>3 DEF Answers
  <2>5. f.num \in 1..Len(l)
    BY <2>2 DEF Fit, Answers
  <2>6. f.num \in 1..n
    BY <2>4, <2>5
  <2> QED
    BY <2>2, <2>6
<1> QED
  BY <1>1, WindowsInvariant, PTL DEF Spec, ReadReturns

(* save-excursion ends in the buffer and at the dot where it began.        *)
THEOREM ExcursionComesBack == Spec => ExcursionRestores
<1> DEFINE f == Head(stack)
           A == Ended("excursion") /\ f.wins = << >> /\ ~Deleted(scr, f.bf)
                  => scr'.bf = f.bf /\ scr'.dot = f.dot
<1>1. IInv /\ [Next]_vars => [A]_vars
  <2> SUFFICES ASSUME IInv, [Next]_vars, Ended("excursion"), f.wins = << >>,
                      ~Deleted(scr, f.bf)
               PROVE  scr'.bf = f.bf /\ scr'.dot = f.dot
    OBVIOUS
  <2>1. Fine(scr) /\ Stacked /\ ExcursionLeave
    BY EndedBy DEF IInv
  <2> QED
    BY <2>1, ExcursionLeaveDone
<1> QED
  BY <1>1, WindowsInvariant, PTL DEF Spec, ExcursionRestores

(***************************************************************************)
(* The windows that are more than were recorded go, with all their lines   *)
(* above the bottom one.                                                   *)
(***************************************************************************)
Beyond(s, n) == { s.wins[i].id : i \in (n + 1)..Len(s.wins) }

(* t is s after its first k windows have been looked at.                   *)
Cut(s, n, k, t) ==
  /\ k <= n => Len(t.wins) = Len(s.wins)
  /\ n < k /\ k < Len(s.wins) => Len(t.wins) = Len(s.wins) - (k - n)
  /\ k = Len(s.wins) => Len(t.wins) = n + 1
  /\ \A i \in (n + 1)..Len(t.wins) :
       t.wins[i].id = s.wins[i + (Len(s.wins) - Len(t.wins))].id
  /\ SameFoot(s, t)

LEMMA CutNext ==
  ASSUME NEW s, Fine(s), NEW n \in Nat, n >= 1, n < Len(s.wins),
         NEW k \in 1..Len(s.wins), NEW t, Fine(t), Cut(s, n, k - 1, t)
  PROVE  LET x == Thin(s, Beyond(s, n), k, t)
         IN  Fine(x) /\ Cut(s, n, k, x)
<1> DEFINE x  == Thin(s, Beyond(s, n), k, t)
           l  == Len(s.wins)
           m  == Len(t.wins)
           id == s.wins[k].id
<1>1. l \in Nat /\ l >= 2 /\ m \in Nat /\ m >= 2 /\ k \in 1..l /\ n < l
  BY FineFields
<1>2. /\ k - 1 <= n => m = l
      /\ n < k - 1 /\ k - 1 < l => m = l - (k - 1 - n)
      /\ k - 1 = l => m = n + 1
      /\ \A i \in (n + 1)..m : t.wins[i].id = s.wins[i + (l - m)].id
      /\ SameFoot(s, t)
  BY DEF Cut
<1>3. CASE k <= n
  <2>1. id \notin Beyond(s, n)
    <3>1. \A i \in (n + 1)..l : i \in 1..l /\ i # k
      <4> HIDE DEF l
      <4> QED
        BY <1>1, <1>3
    <3> QED
      BY <1>1, <3>1 DEF Beyond, Fine, Distinct
  <2>2. x = t
    BY <2>1 DEF Thin
  <2> HIDE DEF x, m, l
  <2>3. m = l
    BY <1>1, <1>2, <1>3
  <2>4. k <= n => m = l
    BY <2>3
  <2>5. ~(n < k) /\ k # l
    BY <1>1, <1>3
  <2> QED
    BY <1>2, <2>2, <2>3, <2>5 DEF Cut, m, l, x
<1>4. CASE n < k
  <2>1. id \in Beyond(s, n)
    <3>1. k \in (n + 1)..l
      BY <1>1, <1>4
    <3> QED
      BY <3>1 DEF Beyond
  <2> DEFINE w == IndexOf(t, id)
  <2>2. x = DelWin(t, w)
    BY <2>1 DEF Thin
  <2> HIDE DEF x, m, l, id
  <2>3. m = l - (k - 1 - n)
    BY <1>1, <1>2, <1>4
  <2>4. n + 1 \in 1..m /\ n + 1 \in (n + 1)..m /\ (n + 1) + (l - m) = k
    BY <1>1, <1>4, <2>3
  <2>5. t.wins[n + 1].id = id
    <3>1. t.wins[n + 1].id = s.wins[(n + 1) + (l - m)].id
      BY <1>2, <2>4
    <3> QED
      BY <2>4, <3>1 DEF id
  <2> DEFINE q == n + 1
  <2>6. w = q
    <3>1. q \in 1..m /\ t.wins[q].id = id
      BY <2>4, <2>5
    <3> HIDE DEF q
    <3>2. w \in 1..m /\ t.wins[w].id = id
      BY <3>1, IndexFound DEF m
    <3> QED
      BY <3>1, <3>2 DEF Fine, Distinct, m
  <2>7. x = DelWin(t, q) /\ q \in 1..m
    BY <2>2, <2>4, <2>6
  <2> HIDE DEF w
  <2>8. CASE k = l
    <3>1. m = q
      BY <1>1, <2>3, <2>8
    <3> HIDE DEF q
    <3>2. x = t
      BY <2>7, <3>1, DelWinFine DEF m
    <3>3. m = n + 1 /\ k = l
      BY <2>8, <3>1 DEF q
    <3>4. ~(k <= n) /\ ~(k < l)
      BY <1>1, <2>8, <1>4
    <3> QED
      BY <1>2, <3>2, <3>3, <3>4 DEF Cut, m, l, x
  <2>9. CASE k # l
    <3>1. q < m /\ m > 2 /\ q > 1 /\ q \in 1..(m - 1) /\ m # q /\ m # 2
      BY <1>1, <2>3, <2>9, <1>4
    <3>2. q = n + 1
      OBVIOUS
    <3> HIDE DEF q
    <3>3. Fine(x) /\ Less(t, q, x)
      BY <2>7, <3>1, DelWinFine DEF m
    <3>4. /\ Len(x.wins) = m - 1
          /\ \A i \in q..(m - 1) : x.wins[i].id = t.wins[i + 1].id
          /\ \A i \in q..(m - 1) : x.wins[i].height = t.wins[i + 1].height
      BY <3>1, <3>3 DEF Less, m
    <3>5. SameFoot(s, x)
      <4>1. m - 1 \in q..(m - 1) /\ (m - 1) + 1 = m
        BY <1>1, <3>1
      <4>2. x.wins[m - 1].height = t.wins[m].height
        BY <3>4, <4>1
      <4> QED
        BY <1>2, <3>4, <4>2 DEF SameFoot, m
    <3>6. \A i \in (n + 1)..(m - 1) : x.wins[i].id = s.wins[i + (l - (m - 1))].id
      <4> SUFFICES ASSUME NEW i \in (n + 1)..(m - 1)
                   PROVE  x.wins[i].id = s.wins[i + (l - (m - 1))].id
        OBVIOUS
      <4>1. i \in q..(m - 1) /\ i + 1 \in (n + 1)..m
            /\ (i + 1) + (l - m) = i + (l - (m - 1))
        BY <1>1, <3>2
      <4>2. x.wins[i].id = t.wins[i + 1].id
        BY <3>4, <4>1
      <4>3. t.wins[i + 1].id = s.wins[(i + 1) + (l - m)].id
        BY <1>2, <4>1
      <4> QED
        BY <4>1, <4>2, <4>3
    <3>7. ~(k <= n) /\ k # l /\ m - 1 = l - (k - n)
      BY <1>1, <1>4, <2>3, <2>9
    <3> DEFINE z == m - 1
    <3>8. /\ Len(x.wins) = z /\ z = l - (k - n)
          /\ \A i \in (n + 1)..z : x.wins[i].id = s.wins[i + (l - z)].id
      BY <3>4, <3>6, <3>7
    <3> HIDE DEF z
    <3> QED
      BY <3>3, <3>5, <3>7, <3>8 DEF Cut, l, x
  <2> QED
    BY <2>8, <2>9
<1> QED
  BY <1>1, <1>3, <1>4

LEMMA TrimToCut ==
  ASSUME NEW s, Fine(s), NEW n \in Nat, n >= 1, n < Len(s.wins)
  PROVE  Len(TrimTo(s, n).wins) = n + 1 /\ SameFoot(s, TrimTo(s, n))
<1> DEFINE d == Beyond(s, n)
           S == [ k \in 0..Len(s.wins) |-> { t \in Screen : Fine(t) /\ Cut(s, n, k, t) } ]
<1>1. Len(s.wins) \in Nat /\ Len(s.wins) >= 2 /\ s \in Screen
  BY FineFields DEF Fine
<1>2. s \in S[0]
  <2>1. \A i \in (n + 1)..Len(s.wins) : i + (Len(s.wins) - Len(s.wins)) = i
    BY <1>1
  <2>2. 0 <= n /\ ~(n < 0) /\ 0 # Len(s.wins)
    BY <1>1
  <2>3. Cut(s, n, 0, s)
    BY <2>1, <2>2 DEF Cut, SameFoot
  <2> QED
    BY <1>1, <2>3
<1>3. Thins(s, d, S)
  <2> SUFFICES ASSUME NEW k \in 1..Len(s.wins), NEW t \in S[k - 1]
               PROVE  Thin(s, d, k, t) \in S[k]
    BY DEF Thins
  <2>1. k - 1 \in 0..Len(s.wins) /\ k \in 0..Len(s.wins)
    BY <1>1
  <2>2. Fine(t) /\ Cut(s, n, k - 1, t)
    BY <2>1
  <2> DEFINE x == Thin(s, d, k, t)
  <2>3. Fine(x) /\ Cut(s, n, k, x)
    BY <2>2, CutNext
  <2>4. x \in Screen
    BY <2>3 DEF Fine
  <2> HIDE DEF x
  <2> QED
    BY <2>1, <2>3, <2>4 DEF x
<1> DEFINE u == DelWins(s, d)
<1>4. u \in S[Len(s.wins)]
  <2> HIDE DEF S, d
  <2> QED
    BY <1>1, <1>2, <1>3, DelWinsLoop
<1>5. TrimTo(s, n) = u
  BY DEF TrimTo, Beyond
<1> HIDE DEF u
<1>6. Cut(s, n, Len(s.wins), u)
  BY <1>1, <1>4
<1> QED
  BY <1>5, <1>6 DEF Cut

(* What LayoutRestored says of the layout that was recorded, once the      *)
(* windows of s are put back.                                              *)
Laid(s, wins, n, t) ==
  /\ Len(t.wins) = n + 1 /\ t.wins[n + 1].height = s.wins[Len(s.wins)].height
  /\ \A i \in 1..n : t.wins[i].buf = wins[i].buf /\ t.wins[i].height = wins[i].height

LEMMA SameLaid ==
  ASSUME NEW s, NEW wins, NEW n \in Nat, NEW t, Laid(s, wins, n, t), NEW u, Same(t, u)
  PROVE  Laid(s, wins, n, u)
<1>1. \A i \in 1..(n + 1) : u.wins[i].buf = t.wins[i].buf /\ u.wins[i].height = t.wins[i].height
  BY DEF Same, SameWins, Alike, Laid
<1>2. n + 1 \in 1..(n + 1) /\ \A i \in 1..n : i \in 1..(n + 1)
  OBVIOUS
<1>3. Len(u.wins) = Len(t.wins)
  BY DEF Same, SameWins
<1> QED
  BY <1>1, <1>2, <1>3 DEF Laid

LEMMA LayoutDone ==
  ASSUME Fine(scr), Stacked, ExcursionLeave,
         NEW n, n = Len(Head(stack).wins), n > 0, n < Len(scr.wins),
         \A i \in 1..n : /\ Head(stack).wins[i].height > 1
                         /\ ~Deleted(scr, Head(stack).wins[i].buf),
         \A i \in 1..Len(scr.wins) : ~Deleted(scr, scr.wins[i].buf)
  PROVE  Head(stack).current # 0 => Laid(scr, Head(stack).wins, n, scr')
<1> DEFINE f == Head(stack)
           v == f.wins
           s == BackToMark(scr, f)
           a == TrimTo(s, n)
           b == SplitTo(a, n)
           t == Reinstate(b, v)
           w == IF f.current = -1 THEN Bottom(t) ELSE f.current
           y == IF f.current = 0 THEN s ELSE IF t.bf = 0 THEN t ELSE SetWin(t, w)
<1> SUFFICES ASSUME f.current # 0 PROVE Laid(scr, v, n, scr')
  OBVIOUS
<1>1. scr.bf # 0 /\ stack # << >> /\ f.do = "excursion" /\ Finish(y)
  BY DEF ExcursionLeave, Alive, Innermost
<1>2. f \in Frames /\ Fit(f)
  BY <1>1, Top
<1>3. f \in Excursions
  BY <1>1, <1>2 DEF Frames, Answers
<1>4. f.current \in -1..n /\ v \in Seq(Record) /\ n \in Nat /\ n >= 1
      /\ n = Len(v) /\ n < Len(scr.wins) /\ Len(scr.wins) \in Nat
  <2>1. v \in Seq(Record) /\ f.current \in -1..Len(v)
    BY <1>1, <1>2, <1>3 DEF Fit, Excursions
  <2>2. n \in Nat
    BY <2>1
  <2> QED
    BY <2>1, <2>2, FineFields
<1>5. \A i \in 1..n : v[i].height > 1 /\ ~Deleted(scr, v[i].buf)
  OBVIOUS
<1>6. f.current # 0
  OBVIOUS
<1> HIDE DEF f
<1>7. /\ Fine(s) /\ s.list = scr.list /\ Len(s.wins) >= Len(scr.wins) /\ SameFoot(scr, s)
      /\ s.bf # 0 /\ \A i \in 1..Len(s.wins) : ~Deleted(s, s.wins[i].buf)
  BY <1>1, <1>3, BackToMarkFine
<1> HIDE DEF s
<1>8. n < Len(s.wins) /\ Len(s.wins) \in Nat
  BY <1>4, <1>7, FineFields
<1>9. /\ Fine(a) /\ a.list = s.list /\ a.bf # 0 /\ Len(a.wins) = n + 1 /\ SameFoot(s, a)
  <2>1. Len(a.wins) = n + 1 /\ SameFoot(s, a)
    BY <1>4, <1>7, <1>8, TrimToCut
  <2>2. /\ Fine(a)
        /\ Thinned(s, { s.wins[i].id : i \in (n + 1)..Len(s.wins) }, Len(s.wins), a)
    BY <1>7, DelWinsFine DEF TrimTo
  <2>3. a.list = s.list /\ a.bf # 0
    BY <1>7, <2>2 DEF Thinned
  <2> QED
    BY <2>1, <2>2, <2>3
<1> HIDE DEF a
<1>10. b = a
  BY <1>4, <1>9, SplitToFine
<1> HIDE DEF b
<1>11. Fine(t) /\ Back(a, v, n, t)
  BY <1>4, <1>9, <1>10, ReinstateFine
<1> HIDE DEF t
<1>12. Laid(scr, v, n, t) /\ t.bf # 0
  <2>1. n <= Len(a.wins) /\ n + 1 \in (n + 1)..Len(a.wins)
    BY <1>4, <1>9
  <2>2. /\ Len(t.wins) = Len(a.wins) /\ t.bf # 0
        /\ \A j \in 1..n : Recovered(a, t.wins[j], v[j])
        /\ \A j \in (n + 1)..Len(a.wins) : t.wins[j].height = a.wins[j].height
    BY <1>9, <1>11, <2>1 DEF Back
  <2>3. \A j \in 1..n : t.wins[j].buf = v[j].buf /\ t.wins[j].height = v[j].height
    BY <1>5, <1>7, <1>9, <2>2 DEF Recovered, Deleted
  <2>4. t.wins[n + 1].height = scr.wins[Len(scr.wins)].height
    BY <1>7, <1>9, <2>1, <2>2 DEF SameFoot
  <2> QED
    BY <1>9, <2>2, <2>3, <2>4 DEF Laid
<1>13. y = SetWin(t, w) /\ w \in 1..Len(t.wins)
  <2>1. Len(t.wins) = n + 1
    BY <1>12 DEF Laid
  <2> QED
    BY <1>4, <1>6, <1>12, <2>1 DEF Bottom
<1> HIDE DEF w, y
<1>14. Fine(y) /\ Same(t, y)
  BY <1>11, <1>13, SetWinFine
<1>15. Same(y, scr')
  BY <1>1, <1>14, FinishFine
<1>16. Laid(scr, v, n, y)
  BY <1>4, <1>12, <1>14, SameLaid
<1> QED
  BY <1>4, <1>15, <1>16, SameLaid

(* save-window-excursion puts the layout back: when its body has left as   *)
(* many windows as it recorded, or more, on buffers that are there, each   *)
(* gets its lines and its buffer, the bottom one keeps its height, and no  *)
(* window is left over.                                                    *)
THEOREM LayoutComesBack == Spec => LayoutRestored
<1> DEFINE f == Head(stack)
           n == Len(f.wins)
           A == (/\ Ended("excursion") /\ n > 0 /\ n < Len(scr.wins)
                 /\ scr.wins[Bottom(scr)].buf = minibuf
                 /\ \A i \in 1..n : f.wins[i].height > 1 /\ ~Deleted(scr, f.wins[i].buf)
                 /\ \A i \in DOMAIN scr.wins : ~Deleted(scr, scr.wins[i].buf))
                => /\ Len(scr'.wins) = n + 1
                   /\ scr'.wins[n + 1].height = scr.wins[Bottom(scr)].height
                   /\ \A i \in 1..n : /\ scr'.wins[i].buf = f.wins[i].buf
                                      /\ scr'.wins[i].height = f.wins[i].height
<1>1. IInv /\ [Next]_vars => [A]_vars
  <2> SUFFICES ASSUME IInv, [Next]_vars, Ended("excursion"), n > 0, n < Len(scr.wins),
                      \A i \in 1..n : f.wins[i].height > 1 /\ ~Deleted(scr, f.wins[i].buf),
                      \A i \in DOMAIN scr.wins : ~Deleted(scr, scr.wins[i].buf)
               PROVE  Laid(scr, f.wins, n, scr')
    BY DEF Laid, Bottom
  <2>1. Fine(scr) /\ Stacked /\ ExcursionLeave
    BY EndedBy DEF IInv
  <2>2. stack # << >> /\ f.do = "excursion"
    BY <2>1 DEF ExcursionLeave, Innermost
  <2>3. f.current # 0
    <3>1. f \in Frames /\ Fit(f)
      BY <2>1, <2>2, Top
    <3>2. f.wins # << >>
      OBVIOUS
    <3> QED
      BY <2>2, <3>1, <3>2 DEF Fit
  <2>4. \A i \in 1..Len(scr.wins) : ~Deleted(scr, scr.wins[i].buf)
    BY <2>1, FineFields
  <2> QED
    BY <2>1, <2>3, <2>4, LayoutDone
<1> QED
  BY <1>1, WindowsInvariant, PTL DEF Spec, LayoutRestored

(* A window that keeps its buffer keeps its place in it, whatever windows  *)
(* are made, deleted or gone to and whatever buffers are: each switch      *)
(* stores the dot that it leaves, and loads the one that it comes to, with *)
(* the right window (SetBfp, SetWin, TieWin, DelBuf).                      *)
THEOREM PlacesStay == Spec => PlacesKept
<1> DEFINE A == \/ \E d \in 1..scene.maxdot : MoveDot(d)
                \/ stack' # stack
                \/ \E i \in 1..Len(scr.wins) : Deleted(scr, scr.wins[i].buf)
                \/ \A i \in 1..Len(scr.wins) : \A j \in 1..Len(scr'.wins) :
                     (scr.wins[i].id = scr'.wins[j].id /\ scr.wins[i].buf = scr'.wins[j].buf)
                       => Place(scr, i) = Place(scr', j)
<1>1. IInv /\ [Next]_vars => [A]_vars
  <2> SUFFICES ASSUME IInv, [Next]_vars, stack' = stack, Linked(scr),
                      ~ \E d \in 1..scene.maxdot : MoveDot(d)
               PROVE  Steady(scr, scr')
    BY DEF Steady, Linked
  <2>1. Fine(scr) /\ Stacked /\ scene \in Scenes
    BY DEF IInv
  <2>2. CASE Commands
    BY <2>1, <2>2, CommandsDone, CalmSteady
  <2>3. CASE UNCHANGED vars
    <3>1. Still(scr, scr')
      BY <2>3, StillSelf DEF vars
    <3> QED
      BY <2>1, <3>1, StillCalm, CalmSteady
  <2>4. CASE GetstrEnter \/ SaveExcursionEnter \/ SaveWindowExcursionEnter
    <3>1. PICK f : stack' = << f >> \o stack
      BY <2>4 DEF GetstrEnter, SaveExcursionEnter, SaveWindowExcursionEnter, Open
    <3>2. stack \in Seq(Frames)
      BY <2>1 DEF Stacked
    <3>3. Len(<< f >> \o stack) # Len(stack)
      BY <3>2, Pushed
    <3> QED
      BY <3>1, <3>3
  <2>5. CASE GetstrLeave \/ ExcursionLeave
    <3>1. stack' = Tail(stack) /\ stack # << >>
      BY <2>5 DEF GetstrLeave, ExcursionLeave, Close, Innermost
    <3>2. Len(Tail(stack)) # Len(stack)
      BY <2>1, <3>1 DEF Stacked
    <3> QED
      BY <3>1, <3>2
  <2> QED
    BY <2>2, <2>3, <2>4, <2>5 DEF Next, Commands, Faulted
<1> QED
  BY <1>1, WindowsInvariant, PTL DEF Spec, PlacesKept
==============================================================================
