---------------------------- MODULE ProcessProofs ----------------------------
(***************************************************************************)
(* The process list, the current process and where output goes, for any    *)
(* number of blocks, descriptors and processes and any depth of filters,   *)
(* sentinels and questions, wherever SIGCHLD comes.                        *)
(*                                                                         *)
(* They rest on the order of the list: a newer process always comes before *)
(* an older one, so no block can come back (Linked), and the newer one of  *)
(* two that have had the same descriptor is read first (Owned).            *)
(***************************************************************************)
EXTENDS Process, DataFacts

N == Cardinality(Blocks)

(***************************************************************************)
(* The invariant.                                                          *)
(***************************************************************************)
Addresses == Blocks \cup {NULL}
Flags == {"RUNNING", "STOPPED", "EXITED", "CHANGED"}
Block == [ next : Addresses, pid : Pids \cup {0}, flag : SUBSET Flags,
           chan : Channels \cup {0}, out : {"none", "held"}, filter : BOOLEAN, sent : BOOLEAN ]
Kid   == [ st : {"none", "runs", "stopped", "dead", "gone"}, wrote : Nat, news : BOOLEAN ]
Pty   == [ pid : Pids \cup {0}, unread : Nat, slave : BOOLEAN ]
Dos   == {"fill", "msgs", "filter", "sentinel", "ask", "about", "start", "exec", "monitor"}
Pcs   == {"top", "select", "key", "scan", "again", "visit", "store", "next", "run", "heard",
          "ran", "found", "allocated", "lost", "read", "forked", "test", "pause"}
Level == [ do : Dos, pc : Pcs, at : Nat, ready : SUBSET Channels,
           flag : SUBSET (Flags \cup About \cup {"tty", "missed"}) ]
Texts == [ Pids -> Seq(Nat) ]
Sigs  == [ pending : BOOLEAN, held : BOOLEAN, late : SUBSET Blocks ]

Typed ==
  /\ block \in [ Blocks -> Block ]
  /\ head \in Addresses
  /\ cur \in Addresses
  /\ sel \in SUBSET Channels
  /\ kid \in [ Pids -> Kid ]
  /\ pty \in [ Channels -> Pty ]
  /\ main \in Seq(Level)
  /\ cbuf \in Pids \cup {0}
  /\ text \in Texts

(* What a frame points to. *)
Fits(fr) ==
  /\ fr.do \in {"fill", "msgs"} => fr.at \in Addresses
  /\ fr.do = "msgs" => fr.flag \subseteq Flags /\ (fr.pc \in {"store", "next"} => fr.at # NULL)
  /\ fr.do \in {"filter", "sentinel", "ask", "about"} => fr.at \in Blocks
  /\ fr.do = "ask" => fr.flag \subseteq Asks
  /\ fr.do = "about" => fr.flag \subseteq About

(* A frame that has called another, until that returns. *)
Waits(fr) == \/ fr.do \in {"fill", "ask"}
             \/ fr.do = "msgs" /\ fr.pc = "next"
             \/ fr.do \in {"filter", "sentinel"} /\ fr.pc = "ran"

Stacked(s) == /\ \A n \in 1..Len(s) : Fits(s[n])
              /\ \A n \in 2..Len(s) : Waits(s[n])

(* Newer processes come first. *)
Started(q) == kid[q].st # "none"
Linked ==
  /\ \A b \in List : /\ block[b].pid \in Pids /\ Started(block[b].pid)
                     /\ block[b].chan \in Channels
                     /\ block[b].next # NULL => block[block[b].next].pid < block[b].pid
  /\ \A p, q \in Pids : p < q /\ Started(q) => Started(p)

(* A process has one channel; a channel belongs to the last that got it. *)
Owned ==
  /\ \A c \in Channels : pty[c].pid # 0 => Started(pty[c].pid)
  /\ \A b \in List : \A c \in Channels : pty[c].pid = block[b].pid => c = block[b].chan
  /\ \A a, b \in List : block[a].chan = block[b].chan /\ block[b].pid < block[a].pid
                          => pty[block[b].chan].pid # block[b].pid

(* What is listed and not active has been waited for; there is news only   *)
(* of what can still be waited for.                                        *)
Ended ==
  /\ sig \in Sigs
  /\ \A q \in Pids : kid[q].news => kid[q].st \in {"stopped", "dead"}
  /\ \A b \in List : Active(block[b].flag) \/ kid[block[b].pid].st = "gone"

(* What the innermost frame has just looked at is still so, or what is not *)
(* does no harm: a process that has died after it was found is among those *)
(* in sig.late, and flags that were loaded before it died are active.      *)
Now ==
  /\ At("start", "allocated") => Top.at \in Free /\ NewPids # {}
  /\ At("about", "found") =>
       /\ Top.at \in List
       /\ "change" \in Top.flag => Active(block[Top.at].flag) \/ Top.at \in sig.late
  /\ At("msgs", "store") => Top.flag = Cleared(block[Top.at].flag) \/ Active(Top.flag)
  /\ At("filter", "run") => \/ cbuf = block[Top.at].pid
                            \/ \A b \in ToCome : block[b].pid # cbuf

Sound ==
  Typed /\ Stacked(main) /\ Linked /\ Owned /\ Ended /\ Now /\ CurrentIsActive

(* Once the list is lost the program does not go on.                       *)
LostInv    == Lost /\ sig \in Sigs /\ CurrentIsActive
ProcessInv == Sound \/ LostInv

(***************************************************************************)
(* The list, as the recursive function that goes along it.                 *)
(***************************************************************************)
Along(f, blk, first) ==
  /\ f = [ n \in 0..N |-> f[n] ] /\ f[0] = first
  /\ \A n \in 1..N : f[n] = IF f[n - 1] = NULL THEN NULL ELSE blk[f[n - 1]].next

LEMMA NumberOfBlocks == N \in Nat
BY NumbersAssumption, FS_CardinalityType DEF N

LEMMA AlongUnique ==
  ASSUME NEW f, NEW g, NEW blk, NEW first, Along(f, blk, first), Along(g, blk, first)
  PROVE  \A n \in 0..N : f[n] = g[n]
<1> DEFINE T == { n \in 0..N : f[n] # g[n] }
<1> SUFFICES ASSUME T # {} PROVE FALSE
  OBVIOUS
<1>1. T \in SUBSET Nat
  OBVIOUS
<1>2. PICK n \in T : \A m \in T : n <= m
  BY <1>1, NatMin
<1>3. n \in 0..N /\ f[n] # g[n]
  OBVIOUS
<1>4. n # 0
  BY <1>3 DEF Along
<1>5. n \in 1..N /\ n - 1 \in 0..N /\ n - 1 \notin T
  BY <1>2, <1>3, <1>4, NumberOfBlocks
<1>6. f[n - 1] = g[n - 1]
  BY <1>5
<1> QED
  BY <1>3, <1>5, <1>6 DEF Along

(* There is such a function: the longest part of it that there is, is it.  *)
Part(f, k, blk, first) ==
  f = [ n \in 0..N |-> IF n = 0 THEN first
                       ELSE IF n > k THEN NULL
                       ELSE IF f[n - 1] = NULL THEN NULL ELSE blk[f[n - 1]].next ]

LEMMA PartExists ==
  ASSUME NEW blk, NEW first, NEW k \in 0..N
  PROVE  \E f : Part(f, k, blk, first)
<1> DEFINE T == { i \in 0..N : ~ \E f : Part(f, i, blk, first) }
<1> SUFFICES ASSUME T # {} PROVE FALSE
  OBVIOUS
<1>n. N \in Nat
  BY NumberOfBlocks
<1>1. T \in SUBSET Nat
  OBVIOUS
<1>2. PICK i \in T : \A m \in T : i <= m
  BY <1>1, NatMin
<1>3. i \in 0..N /\ ~ \E f : Part(f, i, blk, first)
  OBVIOUS
<1>4. i # 0
  <2> SUFFICES ASSUME i = 0 PROVE FALSE
    OBVIOUS
  <2> DEFINE f == [ n \in 0..N |-> IF n = 0 THEN first ELSE NULL ]
  <2>1. Part(f, 0, blk, first)
    BY <1>n DEF Part
  <2> QED
    BY <2>1, <1>3
<1>5. i - 1 \in 0..N /\ i - 1 \notin T
  BY <1>2, <1>3, <1>4, <1>n
<1>6. PICK f : Part(f, i - 1, blk, first)
  BY <1>5
<1> DEFINE g == [ n \in 0..N |-> IF n = i THEN IF f[n - 1] = NULL THEN NULL ELSE blk[f[n - 1]].next
                                 ELSE f[n] ]
<1>7. \A n \in 0..N : f[n] = IF n = 0 THEN first ELSE IF n > i - 1 THEN NULL
                             ELSE IF f[n - 1] = NULL THEN NULL ELSE blk[f[n - 1]].next
  BY <1>6 DEF Part
<1>8. \A n \in 0..N : n # i => g[n] = f[n]
  OBVIOUS
<1>9. ASSUME NEW n \in 0..N
      PROVE  g[n] = IF n = 0 THEN first ELSE IF n > i THEN NULL
                    ELSE IF g[n - 1] = NULL THEN NULL ELSE blk[g[n - 1]].next
  <2>1. CASE n = 0
    BY <2>1, <1>3, <1>4, <1>7, <1>n
  <2>2. CASE n # 0 /\ n > i
    BY <2>2, <1>3, <1>7, <1>8, <1>n
  <2>3. CASE n # 0 /\ n <= i
    <3>1. n - 1 \in 0..N /\ n - 1 # i
      BY <2>3, <1>3, <1>n
    <3>2. g[n - 1] = f[n - 1]
      BY <3>1, <1>8
    <3>3. n # i => ~(n > i - 1)
      BY <2>3, <1>3, <1>n
    <3>4. g[n] = IF f[n - 1] = NULL THEN NULL ELSE blk[f[n - 1]].next
      BY <2>3, <1>7, <1>8, <3>3
    <3> QED
      BY <2>3, <3>2, <3>4, <1>3, <1>n
  <2> QED
    BY <2>1, <2>2, <2>3, <1>3, <1>n
<1>10. Part(g, i, blk, first)
  BY <1>9 DEF Part
<1> QED
  BY <1>3, <1>10

LEMMA ListedAlong ==
  ASSUME NEW blk, NEW first
  PROVE  Along(ListedIn(blk, first), blk, first)
<1>n. N \in Nat
  BY NumberOfBlocks
<1>1. PICK f : Part(f, N, blk, first)
  BY <1>n, PartExists
<1> DEFINE Step(g) == [ n \in 0..N |-> IF n = 0 THEN first
                                       ELSE IF g[n - 1] = NULL THEN NULL ELSE blk[g[n - 1]].next ]
<1>2. f = Step(f)
  <2>1. \A n \in 0..N : ~(n > N)
    BY <1>n
  <2> QED
    BY <1>1, <2>1 DEF Part
<1> DEFINE L == CHOOSE g : g = Step(g)
<1>3. L = Step(L)
  BY <1>2
<1>4. ListedIn(blk, first) = L
  BY DEF ListedIn, N
<1> HIDE DEF L
<1>5. Along(L, blk, first)
  BY <1>3, <1>n DEF Along
<1> QED
  BY <1>4, <1>5

LEMMA ListedTyped ==
  ASSUME NEW blk \in [ Blocks -> Block ], NEW first \in Addresses
  PROVE  \A n \in 0..N : ListedIn(blk, first)[n] \in Addresses
<1> DEFINE f == ListedIn(blk, first)
           T == { n \in 0..N : f[n] \notin Addresses }
<1>a. Along(f, blk, first)
  BY ListedAlong
<1> HIDE DEF f
<1> SUFFICES ASSUME T # {} PROVE FALSE
  BY DEF f
<1>1. T \in SUBSET Nat
  OBVIOUS
<1>2. PICK n \in T : \A m \in T : n <= m
  BY <1>1, NatMin
<1>3. n \in 0..N /\ f[n] \notin Addresses
  OBVIOUS
<1>4. n \in 1..N /\ n - 1 \in 0..N /\ n - 1 \notin T
  BY <1>a, <1>2, <1>3, NumberOfBlocks DEF Along
<1>5. f[n - 1] \in Addresses
  BY <1>4
<1>6. f[n - 1] # NULL => blk[f[n - 1]].next \in Addresses
  BY <1>5 DEF Addresses, Block
<1>7. NULL \in Addresses
  BY DEF Addresses
<1> QED
  BY <1>a, <1>3, <1>4, <1>6, <1>7 DEF Along

(* Only the links make the list. *)
LEMMA SameLinks ==
  ASSUME NEW blk \in [ Blocks -> Block ], NEW first \in Addresses, NEW new,
         \A b \in Blocks : new[b].next = blk[b].next
  PROVE  ListedIn(new, first) = ListedIn(blk, first)
<1> DEFINE f == ListedIn(blk, first)
           g == ListedIn(new, first)
<1>1. Along(f, blk, first) /\ Along(g, new, first)
  BY ListedAlong
<1>2. \A n \in 0..N : f[n] \in Addresses
  BY ListedTyped
<1> HIDE DEF f, g
<1>3. \A n \in 1..N : f[n - 1] # NULL => f[n - 1] \in Blocks
  BY <1>2, NumberOfBlocks DEF Addresses
<1>4. Along(f, new, first)
  BY <1>1, <1>3 DEF Along
<1>5. \A n \in 0..N : f[n] = g[n]
  BY <1>1, <1>4, AlongUnique
<1>6. f = g
  BY <1>1, <1>5 DEF Along
<1> QED
  BY <1>6 DEF f, g

(* A list on which the processes become older ends, and says so. *)
Ordered(f, blk) ==
  \A n \in 0..N : f[n] # NULL =>
    /\ f[n] \in Blocks /\ blk[f[n]].pid \in Nat
    /\ blk[f[n]].next # NULL => blk[blk[f[n]].next].pid < blk[f[n]].pid

LEMMA Older ==
  ASSUME NEW f, NEW blk, NEW first, Along(f, blk, first), Ordered(f, blk)
  PROVE  \A m, n \in 0..N : m < n /\ f[n] # NULL
            => f[m] # NULL /\ blk[f[n]].pid < blk[f[m]].pid
<1> SUFFICES ASSUME NEW m \in 0..N
             PROVE  \A n \in 0..N : m < n /\ f[n] # NULL
                       => f[m] # NULL /\ blk[f[n]].pid < blk[f[m]].pid
  OBVIOUS
<1> DEFINE T == { n \in 0..N : m < n /\ f[n] # NULL
                               /\ ~(f[m] # NULL /\ blk[f[n]].pid < blk[f[m]].pid) }
<1> SUFFICES ASSUME T # {} PROVE FALSE
  OBVIOUS
<1>1. T \in SUBSET Nat
  OBVIOUS
<1>2. PICK n \in T : \A k \in T : n <= k
  BY <1>1, NatMin
<1>3. n \in 1..N /\ n - 1 \in 0..N /\ n - 1 \notin T /\ m < n /\ f[n] # NULL
  BY <1>2, NumberOfBlocks
<1>4. f[n - 1] # NULL /\ f[n] = blk[f[n - 1]].next
  BY <1>3 DEF Along
<1>5. blk[f[n]].pid < blk[f[n - 1]].pid /\ blk[f[n]].pid \in Nat /\ blk[f[n - 1]].pid \in Nat
  BY <1>3, <1>4 DEF Ordered
<1>6. CASE m = n - 1
  BY <1>2, <1>4, <1>5, <1>6
<1>7. CASE m # n - 1
  <2>1. m < n - 1
    BY <1>3, <1>7, NumberOfBlocks
  <2>2. f[m] # NULL /\ blk[f[n - 1]].pid < blk[f[m]].pid
    BY <1>3, <1>4, <2>1
  <2>3. blk[f[m]].pid \in Nat
    BY <2>2 DEF Ordered
  <2> QED
    BY <1>2, <1>5, <2>2, <2>3
<1> QED
  BY <1>6, <1>7

LEMMA Ends ==
  ASSUME NEW f, NEW blk, NEW first, Along(f, blk, first), Ordered(f, blk)
  PROVE  f[N] = NULL
<1> SUFFICES ASSUME f[N] # NULL PROVE FALSE
  OBVIOUS
<1>n. N \in Nat
  BY NumberOfBlocks
<1>1. \A n \in 0..N : f[n] # NULL
  BY <1>n, Older
<1>2. f \in [ 0..N -> Blocks ]
  BY <1>1 DEF Along, Ordered
<1>3. IsFiniteSet(0..N) /\ Cardinality(0..N) = N + 1
  BY <1>n, FS_Interval
<1>4. IsFiniteSet(Blocks) /\ Cardinality(Blocks) < Cardinality(0..N)
  BY <1>n, <1>3, NumbersAssumption DEF N
<1>5. PICK m, n \in 0..N : m # n /\ f[m] = f[n]
  BY <1>2, <1>3, <1>4, FS_PigeonHole
<1>6. m < n \/ n < m
  BY <1>5, <1>n
<1>7. blk[f[m]].pid \in Nat
  BY <1>1 DEF Ordered
<1> QED
  BY <1>1, <1>5, <1>6, <1>7, Older

(* The list of a state. *)
LEMMA ListFacts ==
  ASSUME Typed, Linked
  PROVE  /\ Along(Listed, block, head) /\ Ordered(Listed, block)
         /\ \A n \in 0..N : Listed[n] \in Addresses
         /\ List = { Listed[n] : n \in 0..N } \ {NULL}
         /\ List \subseteq Blocks
<1>1. Along(Listed, block, head)
  BY ListedAlong DEF Listed
<1>2. \A n \in 0..N : Listed[n] \in Addresses
  BY ListedTyped DEF Typed, Listed
<1>3. DOMAIN Listed = 0..N
  BY <1>1 DEF Along
<1>4. List = { Listed[n] : n \in 0..N } \ {NULL}
  BY <1>3 DEF List, Range
<1>5. List \subseteq Blocks
  BY <1>2, <1>4 DEF Addresses
<1>6. Ordered(Listed, block)
  <2> SUFFICES ASSUME NEW n \in 0..N, Listed[n] # NULL
               PROVE  /\ Listed[n] \in Blocks /\ block[Listed[n]].pid \in Nat
                      /\ block[Listed[n]].next # NULL
                           => block[block[Listed[n]].next].pid < block[Listed[n]].pid
    BY DEF Ordered
  <2>1. Listed[n] \in List
    BY <1>4
  <2>2. /\ block[Listed[n]].pid \in Pids
        /\ block[Listed[n]].next # NULL
             => block[block[Listed[n]].next].pid < block[Listed[n]].pid
    BY <2>1 DEF Linked
  <2>3. Pids \subseteq Nat
    BY NumbersAssumption DEF Pids
  <2> QED
    BY <2>1, <2>2, <2>3, <1>5
<1> QED
  BY <1>1, <1>2, <1>4, <1>5, <1>6

LEMMA ListEndsHere ==
  ASSUME Typed, Linked
  PROVE  OnceEach
<1>n. N \in Nat
  BY NumberOfBlocks
<1>1. /\ Along(Listed, block, head) /\ Ordered(Listed, block) /\ DOMAIN Listed = 0..N
  BY ListFacts DEF Along
<1>2. Listed[N] = NULL
  BY <1>1, Ends
<1>3. \A m, n \in 0..N : m < n /\ Listed[n] # NULL => block[Listed[n]].pid < block[Listed[m]].pid
  BY <1>1, Older
<1>4. ASSUME NEW m \in 0..N, NEW n \in 0..N, Listed[m] = Listed[n], Listed[m] # NULL
      PROVE  m = n
  <2>1. block[Listed[m]].pid \in Nat
    BY <1>1, <1>4 DEF Ordered
  <2> QED
    BY <1>3, <1>4, <2>1
<1> QED
  BY <1>1, <1>2, <1>4, <1>n DEF OnceEach, Range

(* After a block on the list comes another or the end. *)
LEMMA NextListed ==
  ASSUME Typed, Linked, NEW b \in List
  PROVE  block[b].next \in List \cup {NULL}
<1>n. N \in Nat
  BY NumberOfBlocks
<1>1. /\ Along(Listed, block, head) /\ Ordered(Listed, block)
      /\ List = { Listed[n] : n \in 0..N } \ {NULL}
  BY ListFacts
<1>2. PICK n \in 0..N : Listed[n] = b /\ b # NULL
  BY <1>1
<1>3. n # N
  BY <1>1, <1>2, Ends
<1>4. n + 1 \in 1..N /\ (n + 1) - 1 = n
  BY <1>2, <1>3, <1>n
<1>5. Listed[n + 1] = block[b].next
  BY <1>1, <1>2, <1>4 DEF Along
<1> QED
  BY <1>1, <1>4, <1>5

(***************************************************************************)
(* Steps that leave the list as it is.                                     *)
(***************************************************************************)
SameList ==
  /\ block' \in [ Blocks -> Block ]
  /\ \A b \in Blocks : /\ block'[b].next = block[b].next
                       /\ block'[b].pid = block[b].pid
                       /\ block'[b].chan = block[b].chan
  /\ head' = head

(* Nothing new: no process is started, channels are only closed. *)
NothingNew ==
  /\ kid' \in [ Pids -> Kid ] /\ pty' \in [ Channels -> Pty ]
  /\ \A q \in Pids : kid'[q].st = "none" <=> kid[q].st = "none"
  /\ \A c \in Channels : pty'[c].pid = pty[c].pid \/ pty'[c].pid = 0

(* The same, or a process is started that has no channel. *)
Onward ==
  /\ kid' \in [ Pids -> Kid ] /\ pty' \in [ Channels -> Pty ]
  /\ \A q \in Pids : Started(q) => kid'[q].st # "none"
  /\ \A p, q \in Pids : p < q /\ kid'[q].st # "none" => kid'[p].st # "none"
  /\ \A c \in Channels : pty'[c].pid = pty[c].pid \/ pty'[c].pid = 0

LEMMA NothingNewOnward ==
  ASSUME Linked, NothingNew
  PROVE  Onward
BY DEF Linked, NothingNew, Onward, Started

LEMMA SameListFacts ==
  ASSUME Typed, SameList
  PROVE  Listed' = Listed /\ List' = List
<1>1. Listed' = Listed
  BY SameLinks DEF Typed, SameList, Listed
<1> QED
  BY <1>1 DEF List

LEMMA LinkedKept ==
  ASSUME Typed, Linked, SameList, Onward
  PROVE  Linked'
<1>1. List' = List /\ List \subseteq Blocks
  BY SameListFacts, ListFacts
<1>2. \A b \in Blocks : block[b].next # NULL => block[b].next \in Blocks
  BY DEF Typed, Block, Addresses
<1>3. ASSUME NEW b \in List
      PROVE  /\ block'[b].pid \in Pids /\ kid'[block'[b].pid].st # "none"
             /\ block'[b].chan \in Channels
             /\ block'[b].next # NULL => block'[block'[b].next].pid < block'[b].pid
  BY <1>1, <1>2 DEF Linked, SameList, Onward
<1> QED
  BY <1>1, <1>3 DEF Linked, Started, Onward

LEMMA OwnedKept ==
  ASSUME Typed, Linked, Owned, SameList, Onward
  PROVE  Owned'
<1>1. List' = List /\ List \subseteq Blocks
  BY SameListFacts, ListFacts
<1>2. 0 \notin Pids
  BY DEF Pids
<1>3. \A b \in List : block'[b].pid = block[b].pid /\ block'[b].chan = block[b].chan
                      /\ block[b].pid # 0 /\ block[b].chan \in Channels
  BY <1>1, <1>2 DEF SameList, Linked
<1>4. \A c \in Channels : pty'[c].pid # 0 => kid'[pty'[c].pid].st # "none"
  <2> SUFFICES ASSUME NEW c \in Channels, pty'[c].pid # 0 PROVE kid'[pty'[c].pid].st # "none"
    OBVIOUS
  <2>1. pty'[c].pid = pty[c].pid /\ Started(pty[c].pid)
    BY DEF Onward, Owned
  <2>2. pty[c].pid \in Pids
    BY <2>1 DEF Typed, Pty
  <2> QED
    BY <2>1, <2>2 DEF Onward
<1>5. \A b \in List : \A c \in Channels : pty'[c].pid = block'[b].pid => c = block'[b].chan
  BY <1>3 DEF Onward, Owned
<1>6. \A a, b \in List : block'[a].chan = block'[b].chan /\ block'[b].pid < block'[a].pid
                           => pty'[block'[b].chan].pid # block'[b].pid
  BY <1>3 DEF Onward, Owned
<1> QED
  BY <1>1, <1>4, <1>5, <1>6 DEF Owned, Started

(* What is on the list is where it was in the list. *)
LEMMA ToComeKept ==
  ASSUME Typed, SameList, Head(main').at = Head(main).at
  PROVE  ToCome' = ToCome
BY SameListFacts DEF ToCome, Top

(***************************************************************************)
(* The stack.                                                              *)
(***************************************************************************)
Looks(fr) == \/ fr.do = "start" /\ fr.pc = "allocated"
             \/ fr.do = "about" /\ fr.pc = "found"
             \/ fr.do = "msgs" /\ fr.pc = "store"
             \/ fr.do = "filter" /\ fr.pc = "run"

LEMMA WaitsLooksNot ==
  ASSUME NEW fr, Waits(fr)
  PROVE  ~Looks(fr)
BY DEF Waits, Looks

LEMMA NothingToKeep ==
  ASSUME main' = << >> \/ ~Looks(Head(main'))
  PROVE  Now' /\ ~At("start", "allocated")'
BY DEF Now, At, In, Looks

LEMMA Replaced ==
  ASSUME main \in Seq(Level), Stacked(main), main # << >>, NEW fr \in Level, Fits(fr),
         NEW s, s = << fr >> \o Tail(main)
  PROVE  s \in Seq(Level) /\ Stacked(s) /\ s # << >> /\ Head(s) = fr
<1>1. /\ Tail(main) \in Seq(Level) /\ Len(main) = Len(Tail(main)) + 1
      /\ \A i \in 1..Len(Tail(main)) : Tail(main)[i] = main[i + 1]
  BY Popped
<1> DEFINE t == Tail(main)
<1>2. /\ s \in Seq(Level) /\ s # << >> /\ Len(s) = Len(t) + 1
      /\ Head(s) = fr /\ s[1] = fr
      /\ \A i \in 2..Len(s) : s[i] = t[i - 1]
  BY <1>1, Pushed
<1>3. Len(t) \in Nat
  BY <1>1
<1> HIDE DEF t
<1>4. \A i \in 2..Len(s) : i - 1 \in 1..Len(t) /\ i \in 2..Len(main) /\ i \in 1..Len(main)
  BY <1>1, <1>2, <1>3 DEF t
<1>5. \A i \in 2..Len(s) : s[i] = main[i]
  BY <1>1, <1>2, <1>4 DEF t
<1>6. \A i \in 1..Len(s) : i = 1 \/ i \in 2..Len(s)
  BY <1>2, <1>3
<1> QED
  BY <1>2, <1>4, <1>5, <1>6 DEF Stacked

LEMMA GoesOn ==
  ASSUME main \in Seq(Level), Stacked(main), main # << >>, NEW fr \in Level, Fits(fr), Goes(fr)
  PROVE  main' \in Seq(Level) /\ Stacked(main') /\ main' # << >> /\ Head(main') = fr
BY Replaced DEF Goes

LEMMA PushedOn ==
  ASSUME NEW s \in Seq(Level), Stacked(s), s # << >> => Waits(Head(s)),
         NEW fr \in Level, Fits(fr), main' = << fr >> \o s
  PROVE  main' \in Seq(Level) /\ Stacked(main') /\ main' # << >> /\ Head(main') = fr
<1>2. /\ main' \in Seq(Level) /\ main' # << >> /\ Len(main') = Len(s) + 1
      /\ Head(main') = fr /\ main'[1] = fr
      /\ \A i \in 2..Len(main') : main'[i] = s[i - 1]
  BY Pushed
<1>3. Len(s) \in Nat
  OBVIOUS
<1>4. \A i \in 2..Len(main') : i - 1 \in 1..Len(s) /\ (i - 1 = 1 \/ i - 1 \in 2..Len(s))
  BY <1>2, <1>3
<1>5. \A i \in 1..Len(main') : i = 1 \/ i \in 2..Len(main')
  BY <1>2, <1>3
<1>6. \A i \in 1..Len(s) : Fits(s[i])
  BY DEF Stacked
<1>7. s # << >> => s[1] = Head(s)
  OBVIOUS
<1>8. \A i \in 1..Len(s) : s # << >>
  OBVIOUS
<1>9. \A i \in 1..Len(s) : i = 1 \/ i \in 2..Len(s) => Waits(s[i])
  BY <1>7, <1>8 DEF Stacked
<1> QED
  BY <1>2, <1>4, <1>5, <1>6, <1>9 DEF Stacked

LEMMA Returned ==
  ASSUME main \in Seq(Level), Stacked(main), main # << >>, Return
  PROVE  /\ main' \in Seq(Level) /\ Stacked(main')
         /\ main' = << >> \/ (Waits(Head(main')) /\ ~Looks(Head(main')))
<1> DEFINE t == Tail(main)
<1>1. /\ t \in Seq(Level) /\ Len(main) = Len(t) + 1
      /\ \A i \in 1..Len(t) : t[i] = main[i + 1]
  BY Popped
<1>2. Len(t) \in Nat /\ (t # << >> => Head(t) = t[1] /\ 1 \in 1..Len(t))
  BY <1>1
<1>3. main' = t
  BY DEF Return
<1> HIDE DEF t
<1>4. \A i \in 1..Len(t) : i + 1 \in 1..Len(main) /\ i + 1 \in 2..Len(main)
  BY <1>1, <1>2
<1>5. \A i \in 1..Len(t) : Fits(t[i]) /\ Waits(t[i])
  BY <1>1, <1>4 DEF Stacked
<1>6. \A i \in 2..Len(t) : i \in 1..Len(t)
  BY <1>2
<1> QED
  BY <1>1, <1>2, <1>3, <1>5, <1>6, WaitsLooksNot DEF Stacked

LEMMA Called ==
  ASSUME main \in Seq(Level), Stacked(main), main # << >>,
         NEW fr \in Level, Fits(fr), NEW back \in Level, Fits(back), Waits(back), Call(fr, back)
  PROVE  main' \in Seq(Level) /\ Stacked(main') /\ main' # << >> /\ Head(main') = fr
<1> DEFINE t == Tail(main)
           s == << back >> \o t
<1>1. /\ t \in Seq(Level) /\ Len(main) = Len(t) + 1
      /\ \A i \in 1..Len(t) : t[i] = main[i + 1]
  BY Popped
<1>2. s \in Seq(Level) /\ Head(s) = back /\ s[1] = back /\ Len(s) = Len(t) + 1
      /\ \A i \in 2..Len(s) : s[i] = t[i - 1]
  BY <1>1, Pushed
<1>3. << fr, back >> \o t = << fr >> \o s
  BY <1>1
<1>4. main' = << fr >> \o s
  BY <1>3 DEF Call
<1>5. Len(t) \in Nat
  BY <1>1
<1> HIDE DEF s, t
<1>6. \A i \in 2..Len(s) : i - 1 \in 1..Len(t) /\ i \in 2..Len(main) /\ i \in 1..Len(main)
  BY <1>1, <1>2, <1>5
<1>7. \A i \in 2..Len(s) : s[i] = main[i]
  <2> TAKE i \in 2..Len(s)
  <2>1. i - 1 \in 1..Len(t) /\ (i - 1) + 1 = i
    BY <1>6
  <2>2. t[i - 1] = main[(i - 1) + 1]
    BY <1>1, <2>1
  <2> QED
    BY <1>2, <2>1, <2>2
<1>8. \A i \in 1..Len(s) : i = 1 \/ i \in 2..Len(s)
  BY <1>2, <1>5
<1>9. Stacked(s)
  BY <1>2, <1>6, <1>7, <1>8 DEF Stacked
<1> QED
  BY <1>2, <1>4, <1>9, PushedOn

(***************************************************************************)
(* What a step has to show.                                                *)
(***************************************************************************)
Quiet == /\ main' \in Seq(Level) /\ Stacked(main')
         /\ main' = << >> \/ ~Looks(Head(main'))

SameFlags == \A b \in Blocks : block'[b].flag = block[b].flag

LEMMA InvParts ==
  ASSUME Sound
  PROVE  /\ Typed /\ Stacked(main) /\ Linked /\ Owned /\ Ended /\ Now /\ CurrentIsActive
         /\ main # << >> => Top \in Level /\ Fits(Top)
<1>1. Typed /\ Stacked(main) /\ Linked /\ Owned /\ Ended /\ Now /\ CurrentIsActive
  BY DEF Sound
<1>2. main \in Seq(Level)
  BY <1>1 DEF Typed
<1>3. main # << >> => Head(main) \in Level /\ Head(main) = main[1] /\ 1 \in 1..Len(main)
  BY <1>2
<1> QED
  BY <1>1, <1>3 DEF Stacked, Top

LEMMA KeptOn ==
  ASSUME Sound, SameList, Onward, Ended', CurrentIsActive', cur' \in Addresses,
         main' \in Seq(Level), Stacked(main'), Now', cbuf' \in Pids \cup {0}, text' \in Texts,
         sel' \in SUBSET Channels
  PROVE  Sound'
<1>1. Typed'
  BY InvParts DEF Typed, SameList, Onward
<1>2. Linked' /\ Owned'
  BY InvParts, LinkedKept, OwnedKept
<1>3. Stacked(main)'
  BY DEF Stacked, Waits, Fits
<1> QED
  BY <1>1, <1>2, <1>3 DEF Sound

LEMMA Kept ==
  ASSUME Sound, SameList, NothingNew, Ended', CurrentIsActive', cur' \in Addresses,
         main' \in Seq(Level), Stacked(main'), Now', cbuf' \in Pids \cup {0}, text' \in Texts,
         sel' \in SUBSET Channels
  PROVE  Sound'
BY InvParts, NothingNewOnward, KeptOn

(* The handler has nothing to do with it.                                  *)
Handled ==
  /\ sig' \in Sigs /\ sig'.late = sig.late
  /\ \A q \in Pids : /\ kid[q].st = "gone" => kid'[q].st = "gone"
                     /\ kid'[q].news => kid'[q].st \in {"stopped", "dead"}

LEMMA SameHandled ==
  ASSUME Ended, UNCHANGED << kid, sig >>
  PROVE  Handled
BY DEF Ended, Handled

LEMMA EndedKept ==
  ASSUME Typed, Linked, Ended, SameList, Handled,
         \A b \in List : Active(block[b].flag) => Active(block'[b].flag)
  PROVE  Ended'
<1>1. List' = List /\ List \subseteq Blocks
  BY SameListFacts, ListFacts
<1>2. \A b \in List : block[b].pid \in Pids /\ block'[b].pid = block[b].pid
  BY <1>1 DEF Linked, SameList
<1> QED
  BY <1>1, <1>2 DEF Ended, Handled

LEMMA FlagsActive ==
  ASSUME Typed, Linked, SameFlags
  PROVE  \A b \in List : Active(block[b].flag) => Active(block'[b].flag)
BY ListFacts DEF SameFlags

LEMMA CurrentKept ==
  ASSUME Sound, SameList, Handled, cur' = cur, ~At("start", "allocated"),
         \A b \in List : Active(block[b].flag) => Active(block'[b].flag)
  PROVE  CurrentIsActive'
<1>1. cur = NULL \/ cur \in sig.late \/ (cur \in List /\ Active(block[cur].flag))
  BY InvParts DEF CurrentIsActive
<1>2. List' = List
  BY InvParts, SameListFacts
<1>3. cur \in List /\ Active(block[cur].flag) => cur' \in List' /\ Active(block'[cur'].flag)
  BY <1>2
<1> QED
  BY <1>1, <1>3 DEF CurrentIsActive, Handled

(* Only the stack changes, and what is on its top looks at nothing. *)
LEMMA SameState ==
  ASSUME Sound, UNCHANGED << block, head, cur, kid, pty >>, Handled
  PROVE  SameList /\ NothingNew /\ SameFlags /\ Ended' /\ cur' \in Addresses
<1>1. Typed /\ Linked /\ Ended
  BY InvParts
<1>2. SameFlags /\ SameList /\ NothingNew
  BY <1>1 DEF SameFlags, SameList, NothingNew, Typed
<1> QED
  BY <1>1, <1>2, EndedKept DEF Typed

LEMMA QuietStep ==
  ASSUME Sound, UNCHANGED << block, head, cur, kid, pty >>, Handled, ~At("start", "allocated"),
         Quiet, cbuf' \in Pids \cup {0}, text' \in Texts, sel' \in SUBSET Channels
  PROVE  Sound'
<1>1. SameList /\ NothingNew /\ SameFlags /\ Ended' /\ cur' \in Addresses
  BY SameState
<1>2. CurrentIsActive'
  BY <1>1, CurrentKept
<1>3. Now'
  BY NothingToKeep DEF Quiet
<1> QED
  BY <1>1, <1>2, <1>3, Kept DEF Quiet

(* The same, with text and cbuffer left alone. *)
LEMMA MainStep ==
  ASSUME Sound, UNCHANGED << block, head, cur, sel, kid, pty, sig, cbuf, text >>,
         ~At("start", "allocated"), Quiet
  PROVE  Sound'
<1>1. cbuf' \in Pids \cup {0} /\ text' \in Texts /\ sel' \in SUBSET Channels /\ Handled
  BY InvParts, SameHandled DEF Typed
<1> QED
  BY <1>1, QuietStep

LEMMA QuietGoes ==
  ASSUME Sound, main # << >>, NEW fr \in Level, Fits(fr), ~Looks(fr), Goes(fr)
  PROVE  Quiet
BY InvParts, GoesOn DEF Quiet, Typed

LEMMA QuietReturn ==
  ASSUME Sound, main # << >>, Return
  PROVE  Quiet
BY InvParts, Returned DEF Quiet, Typed

LEMMA QuietCall ==
  ASSUME Sound, main # << >>, NEW fr \in Level, Fits(fr), ~Looks(fr),
         NEW back \in Level, Fits(back), Waits(back), Call(fr, back)
  PROVE  Quiet
BY InvParts, Called DEF Quiet, Typed

LEMMA Frames ==
  ASSUME NEW do \in Dos, NEW pc \in Pcs, NEW at \in Nat
  PROVE  /\ Frame(do, pc, at) \in Level
         /\ Frame(do, pc, at).do = do /\ Frame(do, pc, at).pc = pc
         /\ Frame(do, pc, at).at = at /\ Frame(do, pc, at).flag = {}
BY DEF Frame, Level

LEMMA AddressesAreNumbers == Addresses \subseteq Nat /\ Pids \subseteq Nat /\ NULL \in Nat
BY NumbersAssumption DEF Addresses, Pids, NULL

LEMMA QuietMessages ==
  ASSUME Sound, main # << >>, NEW back \in Level, Fits(back), back.do = "fill",
         NEW first, Messages(first, back)
  PROVE  Quiet
<1> DEFINE fr == Frame("msgs", "visit", head)
<1>1. head \in Addresses
  BY InvParts DEF Typed
<1>2. /\ fr \in Level /\ fr.do = "msgs" /\ fr.pc = "visit" /\ fr.at = head /\ fr.flag = {}
  BY <1>1, AddressesAreNumbers, Frames DEF Dos, Pcs
<1> HIDE DEF fr
<1>3. Fits(fr) /\ ~Looks(fr)
  BY <1>1, <1>2 DEF Fits, Looks
<1>4. Waits(back) /\ ~Looks(back)
  BY DEF Waits, Looks
<1>5. CASE first
  <2>1. Call(fr, back)
    BY <1>5 DEF Messages, fr
  <2> QED
    BY <2>1, <1>2, <1>3, <1>4, QuietCall
<1>6. CASE ~first
  <2>1. Goes(back)
    BY <1>6 DEF Messages
  <2> QED
    BY <2>1, <1>4, QuietGoes
<1> QED
  BY <1>5, <1>6

LEMMA PcSet ==
  ASSUME NEW fr \in Level, NEW pc \in Pcs
  PROVE  LET new == [fr EXCEPT !.pc = pc]
         IN  /\ new \in Level /\ new.do = fr.do /\ new.pc = pc /\ new.at = fr.at
             /\ new.flag = fr.flag /\ new.ready = fr.ready
BY DEF Level

LEMMA AtSet ==
  ASSUME NEW fr \in Level, NEW at \in Nat
  PROVE  LET new == [fr EXCEPT !.at = at]
         IN  /\ new \in Level /\ new.do = fr.do /\ new.pc = fr.pc /\ new.at = at
             /\ new.flag = fr.flag /\ new.ready = fr.ready
BY DEF Level

LEMMA AtFacts ==
  ASSUME Sound, NEW do, NEW pc, At(do, pc)
  PROVE  /\ main # << >> /\ Top \in Level /\ Fits(Top) /\ Top.do = do /\ Top.pc = pc
         /\ do # "start" \/ pc # "allocated" => ~At("start", "allocated")
BY InvParts DEF At, In, Top

(***************************************************************************)
(* fill_chan, but for reading and closing.                                 *)
(***************************************************************************)
LEMMA FillKeeps ==
  ASSUME Sound, NEW pc \in Pcs, Top.do = "fill", main # << >>
  PROVE  LET new == [Top EXCEPT !.pc = pc]
         IN  new \in Level /\ Fits(new) /\ new.do = "fill" /\ ~Looks(new)
BY InvParts, PcSet DEF Fits, Looks

LEMMA FillSteps ==
  ASSUME Sound, FillTop \/ SelectFails \/ ReadKeys \/ ReturnKey \/ ScanEnd
  PROVE  Sound'
<1>a. /\ {"select", "top", "key", "again"} \subseteq Pcs
      /\ cbuf \in Pids \cup {0} /\ text \in Texts /\ sel \in SUBSET Channels
  BY InvParts DEF Pcs, Typed
<1>1. CASE FillTop
  <2>1. At("fill", "top")
    BY <1>1 DEF FillTop
  <2>2. Quiet
    BY <1>1, <1>a, <2>1, AtFacts, FillKeeps, QuietMessages DEF FillTop
  <2> QED
    BY <1>1, <2>1, <2>2, AtFacts, MainStep DEF FillTop, list, chans, kernel, tty
<1>2. CASE SelectFails
  <2>1. At("fill", "select")
    BY <1>2 DEF SelectFails
  <2>2. Quiet
    BY <1>2, <1>a, <2>1, AtFacts, FillKeeps, QuietGoes DEF SelectFails
  <2> QED
    BY <1>2, <2>1, <2>2, AtFacts, MainStep DEF SelectFails, list, chans, kernel, tty
<1>3. CASE ReadKeys
  <2>1. At("fill", "select")
    BY <1>3 DEF ReadKeys
  <2>2. Quiet
    BY <1>3, <1>a, <2>1, AtFacts, FillKeeps, QuietMessages DEF ReadKeys
  <2>3. cbuf' \in Pids \cup {0} /\ text' \in Texts /\ sel' \in SUBSET Channels /\ Handled
    BY <1>3, <1>a, InvParts, SameHandled DEF ReadKeys, chans, kernel
  <2> QED
    BY <1>3, <2>1, <2>2, <2>3, AtFacts, QuietStep DEF ReadKeys, list, chans, kernel, tty
<1>4. CASE ReturnKey
  <2>1. At("fill", "key")
    BY <1>4 DEF ReturnKey
  <2>2. Quiet
    BY <1>4, <2>1, AtFacts, QuietReturn DEF ReturnKey
  <2> QED
    BY <1>4, <2>1, <2>2, AtFacts, MainStep DEF ReturnKey, list, chans, kernel
<1>5. CASE ScanEnd
  <2>1. At("fill", "scan")
    BY <1>5 DEF ScanEnd
  <2>2. Quiet
    BY <1>5, <1>a, <2>1, AtFacts, FillKeeps, QuietMessages DEF ScanEnd
  <2> QED
    BY <1>5, <2>1, <2>2, AtFacts, MainStep DEF ScanEnd, list, chans, kernel, tty
<1> QED
  BY <1>1, <1>2, <1>3, <1>4, <1>5

LEMMA SelectStep ==
  ASSUME Sound, Select
  PROVE  Sound'
<1> DEFINE new == [Top EXCEPT !.pc = "scan", !.at = head, !.ready = Ready]
<1>1. At("fill", "select") /\ Goes(new)
  BY DEF Select
<1>2. Ready \subseteq Channels /\ head \in Nat /\ head \in Addresses /\ "scan" \in Pcs
  BY InvParts, AddressesAreNumbers DEF Ready, Pcs, Typed
<1>3. Top \in Level /\ Top.do = "fill" /\ main # << >>
  BY <1>1, AtFacts
<1>4. new \in Level /\ new.do = "fill" /\ new.at = head
  BY <1>2, <1>3 DEF Level
<1> HIDE DEF new
<1>5. Fits(new) /\ ~Looks(new)
  BY <1>2, <1>4 DEF Fits, Looks
<1>6. Quiet
  BY <1>1, <1>3, <1>4, <1>5, QuietGoes
<1> QED
  BY <1>1, <1>6, AtFacts, MainStep DEF Select, list, chans, kernel, tty

LEMMA AgainStep ==
  ASSUME Sound, Again
  PROVE  Sound'
<1> DEFINE new == [Top EXCEPT !.pc = "top", !.ready = {}]
<1>1. At("fill", "again")
  BY DEF Again
<1>2. Top \in Level /\ Top.do = "fill" /\ main # << >> /\ Fits(Top) /\ "top" \in Pcs
  BY <1>1, AtFacts DEF Pcs
<1>3. new \in Level /\ new.do = "fill" /\ new.at = Top.at
  BY <1>2 DEF Level
<1>4. Goes(new) \/ Return
  BY DEF Again
<1> HIDE DEF new
<1>5. Fits(new) /\ ~Looks(new)
  BY <1>2, <1>3 DEF Fits, Looks
<1>6. Quiet
  BY <1>2, <1>3, <1>4, <1>5, QuietGoes, QuietReturn
<1> QED
  BY <1>1, <1>6, AtFacts, MainStep DEF Again, list, chans, kernel, tty

(***************************************************************************)
(* fill_chan reads, and closes.                                            *)
(***************************************************************************)
LEMMA TruncatedFacts ==
  ASSUME NEW s \in Seq(Nat)
  PROVE  Truncated(s) \in Seq(Nat) /\ Range(Truncated(s)) \subseteq Range(s)
<1>1. CASE Len(s) > BufferSize
  <2>1. s # << >>
    BY <1>1, NumbersAssumption
  <2>2. Tail(s) \in Seq(Nat) /\ Len(s) = Len(Tail(s)) + 1
        /\ \A i \in 1..Len(Tail(s)) : Tail(s)[i] = s[i + 1]
    BY <2>1, Popped
  <2>3. Len(Tail(s)) \in Nat
    BY <2>2
  <2>4. \A i \in 1..Len(Tail(s)) : i + 1 \in 1..Len(s)
    BY <2>2, <2>3
  <2>5. DOMAIN s = 1..Len(s) /\ DOMAIN Tail(s) = 1..Len(Tail(s))
    BY <2>2
  <2>6. Range(Tail(s)) \subseteq Range(s)
    BY <2>2, <2>4, <2>5 DEF Range
  <2>7. Truncated(s) = Tail(s)
    BY <1>1 DEF Truncated
  <2> QED
    BY <2>2, <2>6, <2>7
<1>2. CASE ~(Len(s) > BufferSize)
  BY <1>2 DEF Truncated
<1> QED
  BY <1>1, <1>2

LEMMA AppendedFacts ==
  ASSUME NEW s \in Seq(Nat), NEW x \in Nat
  PROVE  Append(s, x) \in Seq(Nat) /\ Range(Append(s, x)) \subseteq Range(s) \cup {x}
<1>1. /\ Append(s, x) \in Seq(Nat) /\ DOMAIN Append(s, x) = 1..(Len(s) + 1) /\ Len(s) \in Nat
      /\ \A i \in 1..Len(s) : Append(s, x)[i] = s[i]
      /\ Append(s, x)[Len(s) + 1] = x /\ DOMAIN s = 1..Len(s)
  OBVIOUS
<1>2. \A i \in 1..(Len(s) + 1) : i \in 1..Len(s) \/ i = Len(s) + 1
  BY <1>1
<1> QED
  BY <1>1, <1>2 DEF Range

(* What is read was written by the process of the block, or by one whose   *)
(* block will not be come to.                                              *)
LEMMA ReadsOwn ==
  ASSUME Typed, Linked, Owned, Top.at \in Blocks, Chan \in Channels
  PROVE  \/ pty[Chan].pid = block[Top.at].pid
         \/ \A b \in ToCome : block[b].pid # pty[Chan].pid
<1> SUFFICES ASSUME NEW b \in ToCome, block[b].pid = pty[Chan].pid
             PROVE  block[Top.at].pid = block[b].pid
  OBVIOUS
<1>1. /\ Along(Listed, block, head) /\ Ordered(Listed, block) /\ DOMAIN Listed = 0..N
      /\ List = { Listed[n] : n \in 0..N } \ {NULL}
  BY ListFacts DEF Along
<1>2. PICK i \in DOMAIN Listed : /\ b = Listed[i] /\ Listed[i] # NULL
                                 /\ \E m \in DOMAIN Listed : m <= i /\ Listed[m] = Top.at
  BY DEF ToCome
<1>3. PICK m \in DOMAIN Listed : m <= i /\ Listed[m] = Top.at
  BY <1>2
<1>4. Top.at # NULL
  BY NumbersAssumption DEF NULL
<1>5. b \in List /\ Top.at \in List
  BY <1>1, <1>2, <1>3, <1>4
<1>6. Chan = block[b].chan
  BY <1>5 DEF Owned
<1>7. CASE m = i
  BY <1>2, <1>3, <1>7
<1>8. CASE m # i
  <2>1. m \in 0..N /\ i \in 0..N /\ m < i
    BY <1>1, <1>3, <1>8, NumberOfBlocks
  <2>2. block[b].pid < block[Top.at].pid
    BY <2>1, <1>1, <1>2, <1>3, Older
  <2>3. pty[block[b].chan].pid # block[b].pid
    BY <2>2, <1>5, <1>6 DEF Owned, Chan
  <2> QED
    BY <2>3, <1>6
<1> QED
  BY <1>7, <1>8

LEMMA TextTyped ==
  ASSUME Typed, NEW q, NEW s, q \in Pids => s \in Seq(Nat), text' = [text EXCEPT ![q] = s]
  PROVE  text' \in Texts
BY DEF Typed, Texts

LEMMA SeenFacts ==
  ASSUME Sound, Scans
  PROVE  /\ At("fill", "scan") /\ main # << >> /\ Top \in Level /\ Top.at \in Blocks /\ Top.at \in Nat
         /\ block[Top.at] \in Block /\ Top.ready \subseteq Channels
         /\ Seen \in Level /\ Fits(Seen) /\ Seen.do = "fill" /\ Seen.at = Top.at
         /\ Waits(Seen) /\ ~Looks(Seen)
<1>1. At("fill", "scan") /\ Top.at # NULL
  BY DEF Scans
<1>2. main # << >> /\ Top \in Level /\ Fits(Top) /\ Top.do = "fill"
  BY <1>1, AtFacts
<1>3. Top.at \in Blocks /\ Top.at \in Nat /\ Top.at \in Addresses
  BY <1>1, <1>2, AddressesAreNumbers DEF Fits, Addresses
<1>4. block[Top.at] \in Block
  BY <1>3, InvParts DEF Typed
<1>5. Top.ready \subseteq Channels
  BY <1>2 DEF Level
<1>6. Seen \in Level /\ Seen.do = "fill" /\ Seen.at = Top.at
  BY <1>2, <1>5 DEF Level, Seen
<1> QED
  BY <1>1, <1>2, <1>3, <1>4, <1>5, <1>6 DEF Fits, Waits, Looks

LEMMA ReadOutputStep ==
  ASSUME Sound, ReadOutput
  PROVE  Sound'
<1>1. Scans /\ Chan \in Top.ready /\ pty[Chan].unread > 0
  BY DEF ReadOutput
<1>2. /\ At("fill", "scan") /\ main # << >> /\ Top \in Level /\ Top.at \in Blocks /\ Top.at \in Nat
      /\ block[Top.at] \in Block /\ Top.ready \subseteq Channels
      /\ Seen \in Level /\ Fits(Seen) /\ Seen.do = "fill" /\ Seen.at = Top.at
      /\ Waits(Seen) /\ ~Looks(Seen)
  BY <1>1, SeenFacts
<1>3. Typed /\ Linked /\ Owned /\ Ended /\ ~At("start", "allocated")
  BY <1>2, InvParts, AtFacts
<1>4. Chan \in Channels
  BY <1>1, <1>2
<1>5. UNCHANGED << block, head, cur, sel, kid, sig >> /\ pty' = [pty EXCEPT ![Chan].unread = @ - 1]
      /\ cbuf' = pty[Chan].pid
  BY DEF ReadOutput, list, chans
<1>6. cbuf' \in Pids \cup {0} /\ cbuf' \in Nat
  BY <1>3, <1>4, <1>5, AddressesAreNumbers DEF Typed, Pty
<1>7. pty' \in [ Channels -> Pty ] /\ \A c \in Channels : pty'[c].pid = pty[c].pid
  BY <1>1, <1>3, <1>4, <1>5 DEF Typed, Pty
<1>8. SameList /\ NothingNew /\ Handled
  BY <1>3, <1>5, <1>7, SameHandled DEF SameList, NothingNew, Typed
<1>9. Ended' /\ CurrentIsActive' /\ cur' \in Addresses /\ sel' \in SUBSET Channels
  BY <1>3, <1>5, <1>8, EndedKept, CurrentKept DEF Typed
<1>10. CASE block[Top.at].filter
  <2> DEFINE fr == Frame("filter", "run", Top.at)
  <2>1. fr \in Level /\ fr.do = "filter" /\ fr.pc = "run" /\ fr.at = Top.at
    <3>1. "filter" \in Dos /\ "run" \in Pcs
      BY DEF Dos, Pcs
    <3>2. Top.at \in Nat
      BY <1>2
    <3> QED
      BY <3>1, <3>2, Frames
  <2>2. Call(fr, Seen) /\ text' = text
    BY <1>10 DEF ReadOutput
  <2> HIDE DEF fr
  <2>3. Fits(fr)
    BY <1>2, <2>1 DEF Fits
  <2>4. main \in Seq(Level) /\ Stacked(main)
    BY <1>3, InvParts DEF Typed
  <2>5. main' \in Seq(Level) /\ Stacked(main') /\ main' # << >> /\ Head(main') = fr
    BY <1>2, <2>1, <2>2, <2>3, <2>4, Called
  <2>6. ToCome' = ToCome /\ Top'.at = Top.at /\ Top'.do = "filter"
    BY <1>3, <1>8, <2>1, <2>5, ToComeKept DEF Top
  <2>7. cbuf' = block'[Top'.at].pid \/ \A b \in ToCome' : block'[b].pid # cbuf'
    BY <1>2, <1>3, <1>4, <1>5, <2>6, ReadsOwn
  <2>8. Now'
    BY <2>6, <2>7 DEF Now, At, In, Top
  <2>9. text' \in Texts
    BY <2>2, <1>3 DEF Typed
  <2> QED
    BY <1>6, <1>8, <1>9, <2>5, <2>8, <2>9, Kept
<1>11. CASE ~block[Top.at].filter
  <2>1. Goes(Seen) /\ text' = [text EXCEPT ![Home(Top.at)] = Truncated(Append(@, cbuf'))]
    BY <1>11 DEF ReadOutput
  <2>2. Quiet
    BY <1>2, <2>1, QuietGoes
  <2>3. Home(Top.at) \in Pids => Truncated(Append(text[Home(Top.at)], cbuf')) \in Seq(Nat)
    BY <1>3, <1>6, AppendedFacts, TruncatedFacts DEF Typed, Texts
  <2>4. text' \in Texts
    BY <1>3, <2>1, <2>3, TextTyped
  <2>5. Now'
    BY <2>2, NothingToKeep DEF Quiet
  <2> QED
    BY <1>6, <1>8, <1>9, <2>2, <2>4, <2>5, Kept DEF Quiet
<1> QED
  BY <1>10, <1>11

LEMMA FilterEndStep ==
  ASSUME Sound, FilterEnd
  PROVE  Sound'
<1>1. In("filter") /\ main # << >> /\ ~At("start", "allocated")
  BY DEF FilterEnd, In, At
<1>2. Quiet
  BY <1>1, QuietReturn DEF FilterEnd
<1>3. Typed
  BY InvParts
<1>4. text' = [text EXCEPT ![Home(Top.at)] = Truncated(@)]
  BY DEF FilterEnd
<1>5. Home(Top.at) \in Pids => Truncated(text[Home(Top.at)]) \in Seq(Nat)
  BY <1>3, TruncatedFacts DEF Typed, Texts
<1>6. text' \in Texts
  BY <1>3, <1>4, <1>5, TextTyped
<1>7. cbuf' \in Pids \cup {0} /\ sel' \in SUBSET Channels /\ Handled
  BY <1>3, InvParts, SameHandled DEF FilterEnd, tty, chans, kernel, Typed
<1> QED
  BY <1>1, <1>2, <1>6, <1>7, QuietStep DEF FilterEnd, list, kernel

LEMMA CloseChannelStep ==
  ASSUME Sound, CloseChannel
  PROVE  Sound'
<1>1. Scans
  BY DEF CloseChannel
<1>2. At("fill", "scan") /\ main # << >> /\ Seen \in Level /\ Fits(Seen) /\ ~Looks(Seen)
  BY <1>1, SeenFacts
<1>3. Typed /\ Linked /\ Ended /\ ~At("start", "allocated")
  BY <1>2, InvParts, AtFacts
<1>4. UNCHANGED << block, head, cur, kid, sig, cbuf, text >> /\ pty' = [pty EXCEPT ![Chan] = Closed]
      /\ sel' = sel \ {Chan}
  BY DEF CloseChannel, list, tty
<1>5. Closed \in Pty /\ Closed.pid = 0
  BY DEF Closed, Pty
<1>6. pty' \in [ Channels -> Pty ] /\ \A c \in Channels : pty'[c].pid = pty[c].pid \/ pty'[c].pid = 0
  BY <1>3, <1>4, <1>5 DEF Typed
<1>7. SameList /\ NothingNew /\ Handled
  BY <1>3, <1>4, <1>6, SameHandled DEF SameList, NothingNew, Typed
<1>8. Ended' /\ CurrentIsActive' /\ cur' \in Addresses /\ sel' \in SUBSET Channels
      /\ cbuf' \in Pids \cup {0} /\ text' \in Texts
  BY <1>3, <1>4, <1>7, EndedKept, CurrentKept DEF Typed
<1>9. Quiet
  BY <1>2, QuietGoes DEF CloseChannel
<1>10. Now'
  BY <1>9, NothingToKeep DEF Quiet
<1> QED
  BY <1>7, <1>8, <1>9, <1>10, Kept DEF Quiet

LEMMA NextBlockStep ==
  ASSUME Sound, NextBlock
  PROVE  Sound'
<1> DEFINE b == Top.at
           new == [Top EXCEPT !.at = block[b].next]
<1>1. Scans /\ Goes(new)
  BY DEF NextBlock
<1>2. /\ At("fill", "scan") /\ main # << >> /\ Top \in Level /\ b \in Blocks
      /\ block[b] \in Block
  BY <1>1, SeenFacts
<1>3. Typed /\ Linked /\ Ended /\ ~At("start", "allocated") /\ Top.do = "fill"
  BY <1>2, InvParts, AtFacts
<1>4. UNCHANGED << head, cur, sel, kid, pty, sig, cbuf, text >>
      /\ (block' = block \/ block' = [block EXCEPT ![b].out = "none"])
  BY DEF NextBlock, kernel, tty
<1>5. block[b].next \in Addresses /\ block[b].next \in Nat
  BY <1>2, AddressesAreNumbers DEF Block
<1>6. new \in Level /\ new.do = "fill" /\ new.at = block[b].next
  BY <1>2, <1>3, <1>5, AtSet
<1> HIDE DEF new, b
<1>7. Fits(new) /\ ~Looks(new)
  BY <1>5, <1>6 DEF Fits, Looks
<1>8. Quiet
  BY <1>1, <1>2, <1>6, <1>7, QuietGoes
<1>9. SameList /\ NothingNew /\ SameFlags
  <2>1. block \in [ Blocks -> Block ]
    BY <1>3 DEF Typed
  <2>2. /\ block' \in [ Blocks -> Block ]
        /\ \A a \in Blocks : /\ block'[a].pid = block[a].pid /\ block'[a].next = block[a].next
                             /\ block'[a].chan = block[a].chan /\ block'[a].flag = block[a].flag
    <3>1. CASE block' = block
      BY <2>1, <3>1
    <3>2. CASE block' = [block EXCEPT ![b].out = "none"]
      <4>1. [block[b] EXCEPT !.out = "none"] \in Block
        BY <1>2 DEF Block
      <4> QED
        BY <1>2, <2>1, <3>2, <4>1 DEF Block
    <3> QED
      BY <1>4, <3>1, <3>2
  <2>3. SameList
    BY <1>4, <2>2 DEF SameList
  <2>4. NothingNew
    BY <1>3, <1>4 DEF NothingNew, Typed
  <2> QED
    BY <2>2, <2>3, <2>4 DEF SameFlags
<1>10. Ended' /\ CurrentIsActive' /\ cur' \in Addresses /\ sel' \in SUBSET Channels
       /\ cbuf' \in Pids \cup {0} /\ text' \in Texts
  <2>1. Handled /\ \A a \in List : Active(block[a].flag) => Active(block'[a].flag)
    BY <1>3, <1>4, <1>9, SameHandled, FlagsActive
  <2>2. Ended' /\ CurrentIsActive'
    BY <1>3, <1>4, <1>9, <2>1, EndedKept, CurrentKept
  <2> QED
    BY <1>3, <1>4, <2>2 DEF Typed
<1>11. Now'
  BY <1>8, NothingToKeep DEF Quiet
<1> QED
  BY <1>8, <1>9, <1>10, <1>11, Kept DEF Quiet

(***************************************************************************)
(* change_msgs, sentinels and filters.                                     *)
(***************************************************************************)
LEMMA MsgsVisitStep ==
  ASSUME Sound, MsgsVisit
  PROVE  Sound'
<1> DEFINE flag == block[Top.at].flag
           store == [Top EXCEPT !.pc = "store", !.flag = Cleared(flag)]
           on == [Top EXCEPT !.at = block[Top.at].next]
<1>1. /\ At("msgs", "visit") /\ Top.at # NULL
      /\ UNCHANGED << block, head, cur, sel, kid, pty, sig, cbuf, text >>
      /\ IF "CHANGED" \in flag THEN Goes(store) ELSE Goes(on)
  BY DEF MsgsVisit, list, chans, kernel, tty
<1>2. /\ main # << >> /\ Top \in Level /\ Fits(Top) /\ Top.do = "msgs" /\ Top.pc = "visit"
      /\ ~At("start", "allocated")
  BY <1>1, AtFacts
<1>3. Typed /\ Top.at \in Blocks
  BY <1>1, <1>2, InvParts DEF Fits, Addresses
<1>4. block[Top.at].next \in Addresses /\ block[Top.at].next \in Nat /\ flag \subseteq Flags
  BY <1>3, AddressesAreNumbers DEF Typed, Block
<1>5. CASE "CHANGED" \in flag
  <2>1. Cleared(flag) \subseteq Flags
    BY <1>4 DEF Cleared
  <2>2. /\ store \in Level /\ store.do = "msgs" /\ store.pc = "store" /\ store.at = Top.at
        /\ store.flag = Cleared(flag)
    BY <1>2, <2>1 DEF Level, Pcs
  <2> HIDE DEF store
  <2>3. Fits(store)
    BY <1>1, <1>2, <2>1, <2>2 DEF Fits
  <2>4. main \in Seq(Level) /\ Stacked(main)
    BY <1>3, InvParts DEF Typed
  <2>5. main' \in Seq(Level) /\ Stacked(main') /\ main' # << >> /\ Head(main') = store
    BY <1>1, <1>2, <1>5, <2>2, <2>3, <2>4, GoesOn
  <2>6. Now'
    BY <1>1, <2>2, <2>5 DEF Now, At, In, Top
  <2>7. Handled /\ SameList /\ NothingNew /\ Ended' /\ cur' \in Addresses
    BY <1>1, InvParts, SameHandled, SameState
  <2>8. CurrentIsActive'
    BY <1>1, <1>2, <2>7, CurrentKept
  <2> QED
    BY <1>1, <1>3, <2>5, <2>6, <2>7, <2>8, Kept DEF Typed
<1>6. CASE ~("CHANGED" \in flag)
  <2>1. /\ on \in Level /\ on.do = "msgs" /\ on.pc = "visit" /\ on.at = block[Top.at].next
        /\ on.flag = Top.flag
    BY <1>2, <1>4, AtSet
  <2> HIDE DEF on
  <2>2. Fits(on) /\ ~Looks(on)
    BY <1>2, <1>4, <2>1 DEF Fits, Looks
  <2>3. Quiet
    BY <1>1, <1>2, <1>6, <2>1, <2>2, QuietGoes
  <2> QED
    BY <1>1, <1>2, <2>3, MainStep
<1> QED
  BY <1>5, <1>6

LEMMA ReportStep ==
  ASSUME Sound, Report
  PROVE  Sound'
<1> DEFINE b == Top.at
           fr == Frame("sentinel", "run", b)
           back == [Top EXCEPT !.pc = "next", !.flag = {}]
<1>1. /\ At("msgs", "store")
      /\ UNCHANGED << head, cur, sel, kid, pty, sig, cbuf >>
      /\ block' = [block EXCEPT ![b].flag = Top.flag]
      /\ IF block[b].sent THEN Call(fr, back) ELSE Goes(back)
      /\ text' = text \/ text' = [text EXCEPT ![Home(b)] = Append(@, 0)]
  BY DEF Report, chans, kernel, tty
<1>2. /\ main # << >> /\ Top \in Level /\ Fits(Top) /\ Top.do = "msgs" /\ Top.pc = "store"
      /\ ~At("start", "allocated")
  BY <1>1, AtFacts
<1>3. Typed /\ Linked /\ Ended /\ b \in Blocks /\ b \in Nat /\ Top.flag \subseteq Flags
  BY <1>2, InvParts, AddressesAreNumbers DEF Fits, Addresses
<1>4. Top.flag = Cleared(block[b].flag) \/ Active(Top.flag)
  BY <1>1, InvParts DEF Now
<1>5. /\ back \in Level /\ back.do = "msgs" /\ back.pc = "next" /\ back.at = b /\ back.flag = {}
      /\ fr \in Level /\ fr.do = "sentinel" /\ fr.pc = "run" /\ fr.at = b
  <2>1. back \in Level /\ back.do = "msgs" /\ back.pc = "next" /\ back.at = b /\ back.flag = {}
    BY <1>2 DEF Level, Pcs
  <2>2. "sentinel" \in Dos /\ "run" \in Pcs
    BY DEF Dos, Pcs
  <2> HIDE DEF back
  <2> QED
    BY <1>3, <2>1, <2>2, Frames
<1> HIDE DEF fr, back, b
<1>6. Fits(fr) /\ Fits(back) /\ Waits(back) /\ ~Looks(fr) /\ ~Looks(back)
  BY <1>2, <1>3, <1>5, NumbersAssumption DEF Fits, Waits, Looks, Addresses, NULL
<1>7. Quiet
  BY <1>1, <1>2, <1>5, <1>6, QuietCall, QuietGoes
<1>8. block' \in [ Blocks -> Block ]
  BY <1>1, <1>3 DEF Typed, Block
<1>9. \A a \in Blocks : /\ block'[a].next = block[a].next /\ block'[a].pid = block[a].pid
                        /\ block'[a].chan = block[a].chan
                        /\ block'[a].flag = IF a = b THEN Top.flag ELSE block[a].flag
  BY <1>1, <1>3 DEF Typed, Block
<1>10. SameList /\ NothingNew
  BY <1>1, <1>3, <1>8, <1>9 DEF SameList, NothingNew, Typed
<1>11. Handled /\ \A a \in List : Active(block[a].flag) => Active(block'[a].flag)
  <2>1. \A a \in List : a \in Blocks
    BY InvParts, ListFacts
  <2>2. Active(block[b].flag) => Active(Top.flag)
    BY <1>4 DEF Active, Cleared
  <2> QED
    BY <1>1, <1>3, <1>9, <2>1, <2>2, SameHandled
<1>12. Ended' /\ CurrentIsActive' /\ cur' \in Addresses /\ sel' \in SUBSET Channels
       /\ cbuf' \in Pids \cup {0}
  BY <1>1, <1>2, <1>3, <1>10, <1>11, EndedKept, CurrentKept DEF Typed
<1>13. text' \in Texts
  <2>1. Home(b) \in Pids => Append(text[Home(b)], 0) \in Seq(Nat)
    BY <1>3, AppendedFacts DEF Typed, Texts
  <2>2. CASE text' = text
    BY <2>2, <1>3 DEF Typed
  <2>3. CASE text' = [text EXCEPT ![Home(b)] = Append(@, 0)]
    BY <1>3, <2>1, <2>3, TextTyped
  <2> QED
    BY <1>1, <2>2, <2>3
<1>14. Now'
  BY <1>7, NothingToKeep DEF Quiet
<1> QED
  BY <1>7, <1>10, <1>12, <1>13, <1>14, Kept DEF Quiet

LEMMA MsgsNextStep ==
  ASSUME Sound, MsgsNext
  PROVE  Sound'
<1> DEFINE new == [Top EXCEPT !.pc = "visit", !.at = block[Top.at].next]
<1>1. /\ At("msgs", "next") /\ Goes(new)
      /\ UNCHANGED << block, head, cur, sel, kid, pty, sig, cbuf, text >>
  BY DEF MsgsNext, list, chans, kernel, tty
<1>2. /\ main # << >> /\ Top \in Level /\ Fits(Top) /\ Top.do = "msgs" /\ Top.pc = "next"
      /\ ~At("start", "allocated")
  BY <1>1, AtFacts
<1>3. Typed /\ Top.at \in Blocks
  BY <1>1, <1>2, InvParts DEF Fits, Addresses
<1>4. block[Top.at].next \in Addresses /\ block[Top.at].next \in Nat
  BY <1>3, AddressesAreNumbers DEF Typed, Block
<1>5. /\ new \in Level /\ new.do = "msgs" /\ new.pc = "visit" /\ new.at = block[Top.at].next
      /\ new.flag = Top.flag
  BY <1>2, <1>4 DEF Level, Pcs
<1> HIDE DEF new
<1>6. Fits(new) /\ ~Looks(new)
  BY <1>2, <1>4, <1>5 DEF Fits, Looks
<1>7. Quiet
  BY <1>1, <1>2, <1>5, <1>6, QuietGoes
<1> QED
  BY <1>1, <1>2, <1>7, MainStep

LEMMA ReturnSteps ==
  ASSUME Sound, MsgsEnd \/ SentinelEnd
  PROVE  Sound'
<1>1. CASE MsgsEnd
  <2>1. At("msgs", "visit")
    BY <1>1 DEF MsgsEnd
  <2>2. Quiet
    BY <1>1, <2>1, AtFacts, QuietReturn DEF MsgsEnd
  <2> QED
    BY <1>1, <2>1, <2>2, AtFacts, MainStep DEF MsgsEnd, chans, kernel, tty
<1>2. CASE SentinelEnd
  <2>1. main # << >> /\ ~At("start", "allocated")
    BY <1>2 DEF SentinelEnd, In, At
  <2>2. Quiet
    BY <1>2, <2>1, QuietReturn DEF SentinelEnd
  <2> QED
    BY <1>2, <2>1, <2>2, MainStep DEF SentinelEnd, list, chans, kernel, tty
<1> QED
  BY <1>1, <1>2

(* A filter that inserts what has been read. *)
LEMMA ProcessOutputStep ==
  ASSUME Sound, ProcessOutput
  PROVE  Sound'
<1> DEFINE new == [Top EXCEPT !.pc = "heard"]
<1>1. /\ At("filter", "run") /\ Goes(new)
      /\ UNCHANGED << block, head, cur, sel, kid, pty, sig, cbuf >>
      /\ text' = [text EXCEPT ![Home(Top.at)] = Append(@, cbuf)]
  BY DEF ProcessOutput, list, chans, kernel, tty
<1>2. /\ main # << >> /\ Top \in Level /\ Fits(Top) /\ Top.do = "filter"
      /\ ~At("start", "allocated") /\ "heard" \in Pcs
  BY <1>1, AtFacts DEF Pcs
<1>3. /\ new \in Level /\ new.do = "filter" /\ new.pc = "heard" /\ new.at = Top.at
  BY <1>2, PcSet
<1> HIDE DEF new
<1>4. Fits(new) /\ ~Looks(new)
  BY <1>2, <1>3 DEF Fits, Looks
<1>5. Quiet
  BY <1>1, <1>2, <1>3, <1>4, QuietGoes
<1>6. Typed /\ cbuf \in Nat /\ Handled
  <2>1. Typed /\ Ended
    BY InvParts
  <2>2. cbuf \in Nat
    BY <2>1, AddressesAreNumbers DEF Typed
  <2> QED
    BY <1>1, <2>1, <2>2, SameHandled
<1>7. Home(Top.at) \in Pids => Append(text[Home(Top.at)], cbuf) \in Seq(Nat)
  BY <1>6, AppendedFacts DEF Typed, Texts
<1>8. text' \in Texts
  BY <1>1, <1>6, <1>7, TextTyped
<1> QED
  BY <1>1, <1>2, <1>5, <1>6, <1>8, QuietStep DEF Typed

(***************************************************************************)
(* Children, and the handler.                                              *)
(***************************************************************************)
LEMMA NowKept ==
  ASSUME Sound, SameList, NothingNew, UNCHANGED << main, cbuf >>, SameFlags, Handled
  PROVE  Now'
<1>1. Listed' = Listed /\ List' = List /\ List \subseteq Blocks /\ Now
  BY InvParts, ListFacts, SameListFacts
<1>2. ToCome' = ToCome
  BY InvParts, ToComeKept
<1>3. ToCome \subseteq Blocks
  BY <1>1 DEF ToCome, List, Range
<1>4. NewPids' = NewPids /\ Free' = Free
  BY <1>1 DEF NewPids, NothingNew, Free
<1>5. Top' = Top /\ \A do, pc : At(do, pc)' <=> At(do, pc)
  BY DEF Top, At, In
<1>6. At("start", "allocated")' => Top'.at \in Free' /\ NewPids' # {}
  BY <1>1, <1>4, <1>5 DEF Now
<1>7. At("about", "found")' =>
        /\ Top'.at \in List'
        /\ "change" \in Top'.flag => Active(block'[Top'.at].flag) \/ Top'.at \in sig'.late
  BY <1>1, <1>5 DEF Now, SameFlags, Handled
<1>8. ASSUME At("msgs", "store")'
      PROVE  Top'.flag = Cleared(block'[Top'.at].flag) \/ Active(Top'.flag)
  <2>1. At("msgs", "store") /\ (Top.flag = Cleared(block[Top.at].flag) \/ Active(Top.flag))
    BY <1>1, <1>5, <1>8 DEF Now
  <2>2. Top.at \in Blocks
    BY <2>1, AtFacts DEF Fits, Addresses
  <2> QED
    BY <1>5, <2>1, <2>2 DEF SameFlags
<1>9. ASSUME At("filter", "run")'
      PROVE  cbuf' = block'[Top'.at].pid \/ \A b \in ToCome' : block'[b].pid # cbuf'
  <2>1. /\ At("filter", "run")
        /\ cbuf = block[Top.at].pid \/ \A b \in ToCome : block[b].pid # cbuf
    BY <1>1, <1>5, <1>9 DEF Now
  <2>2. Top.at \in Blocks
    BY <2>1, AtFacts DEF Fits
  <2> QED
    BY <1>2, <1>3, <1>5, <2>1, <2>2 DEF SameList
<1> QED
  BY <1>6, <1>7, <1>8, <1>9 DEF Now

LEMMA OutsideStep ==
  ASSUME Sound, UNCHANGED << block, head, cur, sel, main, cbuf, text >>, NothingNew, Handled
  PROVE  Sound'
<1>1. SameList /\ SameFlags /\ Typed /\ Linked /\ Stacked(main)
  BY InvParts DEF SameList, SameFlags, Typed
<1>2. Ended' /\ Now' /\ List' = List
  BY <1>1, InvParts, EndedKept, NowKept, SameListFacts
<1>3. Top' = Top
  BY DEF Top
<1>4. CurrentIsActive'
  BY <1>2, <1>3, InvParts DEF CurrentIsActive, At, In, Handled
<1> QED
  BY <1>1, <1>2, <1>4, Kept DEF Typed

LEMMA TurnsNothingNew ==
  ASSUME Typed, Ended, NEW q, NEW st \in {"stopped", "dead"}, Alive(q), Turns(q, st)
  PROVE  NothingNew /\ Handled
<1>1. HungUp(q) \in [ Channels -> Pty ] /\ \A c \in Channels : HungUp(q)[c].pid = pty[c].pid
  BY DEF HungUp, Typed, Pty
<1>2. pty' \in [ Channels -> Pty ] /\ \A c \in Channels : pty'[c].pid = pty[c].pid
  BY <1>1 DEF Turns, Typed
<1>3. kid' \in [ Pids -> Kid ] /\ \A p \in Pids : kid'[p].st = "none" <=> kid[p].st = "none"
  BY DEF Turns, Alive, Typed, Kid
<1>4. \A p \in Pids : /\ kid[p].st = "gone" => kid'[p].st = "gone"
                      /\ kid'[p].news => kid'[p].st \in {"stopped", "dead"}
  BY DEF Turns, Alive, Typed, Kid, Ended
<1>5. sig' \in Sigs /\ sig'.late = sig.late
  BY DEF Turns, Ended, Sigs
<1> QED
  BY <1>2, <1>3, <1>4, <1>5 DEF NothingNew, Handled

LEMMA ChildSteps ==
  ASSUME Sound, NEW q \in Pids, Child(q)
  PROVE  Sound'
<1>1. Typed /\ Ended
  BY InvParts
<1>2. UNCHANGED << block, head, cur, sel, main, cbuf, text >>
  BY DEF Child, Writes, Exits, Detaches, Inside, list, chans, tty
<1>3. CASE Writes(q)
  <2>1. PICK c \in Slaves(q) : pty' = [pty EXCEPT ![c].unread = @ + 1]
    BY <1>3 DEF Writes
  <2>2. c \in Channels
    BY DEF Slaves
  <2>3. pty' \in [ Channels -> Pty ] /\ \A d \in Channels : pty'[d].pid = pty[d].pid
    <3> DEFINE u == pty[c].unread + 1
    <3>1. pty[c] \in Pty /\ pty \in [ Channels -> Pty ]
      BY <1>1, <2>2 DEF Typed
    <3>2. u \in Nat /\ pty' = [pty EXCEPT ![c].unread = u]
      BY <2>1, <3>1 DEF Pty
    <3> HIDE DEF u
    <3> QED
      BY <2>2, <3>1, <3>2 DEF Pty
  <2>4. kid' = [kid EXCEPT ![q].wrote = @ + 1]
    BY <1>3 DEF Writes
  <2>5. /\ kid' \in [ Pids -> Kid ]
        /\ \A p \in Pids : kid'[p].st = kid[p].st /\ kid'[p].news = kid[p].news
    <3> DEFINE w == kid[q].wrote + 1
    <3>1. kid[q] \in Kid /\ kid \in [ Pids -> Kid ]
      BY <1>1 DEF Typed
    <3>2. w \in Nat /\ kid' = [kid EXCEPT ![q].wrote = w]
      BY <2>4, <3>1 DEF Kid
    <3> HIDE DEF w
    <3> QED
      BY <3>1, <3>2 DEF Kid
  <2>6. NothingNew /\ Handled
    BY <1>1, <1>3, <2>3, <2>5 DEF NothingNew, Handled, Ended, Writes
  <2> QED
    BY <1>2, <2>6, OutsideStep
<1>4. CASE Exits(q)
  <2>1. NothingNew /\ Handled
    BY <1>1, <1>4, TurnsNothingNew DEF Exits, Alive
  <2> QED
    BY <1>2, <2>1, OutsideStep
<1>5. CASE Detaches(q)
  <2>1. pty' = HungUp(q) /\ kid' = kid /\ sig' = sig
    BY <1>5 DEF Detaches
  <2>2. NothingNew /\ Handled
    BY <1>1, <2>1, SameHandled DEF NothingNew, HungUp, Typed, Pty
  <2> QED
    BY <1>2, <2>2, OutsideStep
<1> QED
  BY <1>3, <1>4, <1>5 DEF Child

LEMMA TypesStep ==
  ASSUME Sound, Types \/ OtherKey
  PROVE  Sound'
<1>1. UNCHANGED << block, head, cur, sel, main, cbuf, text, kid, pty, sig >>
  BY DEF Types, OtherKey, list, chans, kernel
<1>2. NothingNew /\ Handled
  BY <1>1, InvParts, SameHandled DEF NothingNew, Typed
<1> QED
  BY <1>1, <1>2, OutsideStep

LEMMA NextProcessFacts ==
  ASSUME NEW blk, NEW first
  PROVE  LET b == NextProcess(blk, first)
         IN  b = NULL \/ (b \in Range(ListedIn(blk, first)) \ {NULL} /\ Active(blk[b].flag))
<1> DEFINE nth == ListedIn(blk, first)
           active == { n \in DOMAIN nth : nth[n] # NULL /\ Active(blk[nth[n]].flag) }
<1>1. DOMAIN nth = 0..N
  BY ListedAlong DEF Along
<1>2. NextProcess(blk, first) = IF active = {} THEN NULL ELSE nth[Min(active)]
  BY DEF NextProcess
<1>3. active \in SUBSET Nat
  BY <1>1
<1> HIDE DEF nth
<1>4. active # {} => Min(active) \in active
  BY <1>3, MinIsLeast
<1>5. active # {} => nth[Min(active)] \in Range(nth) \ {NULL} /\ Active(blk[nth[Min(active)]].flag)
  BY <1>4 DEF Range
<1> QED
  BY <1>2, <1>5 DEF nth

(* What the handler does to a block and to its process.                    *)
LEMMA MarkedFacts ==
  ASSUME Typed, Linked, Ended, NEW b \in Blocks
  PROVE  /\ Marked(b) \subseteq Flags
         /\ Marked(b) # block[b].flag =>
              b \in List /\ block[b].pid \in News /\ Active(block[b].flag)
         /\ b \in List => \/ Active(Marked(b))
                          \/ kid[block[b].pid].st \in {"dead", "gone"}
<1>1. block[b].flag \subseteq Flags
  BY DEF Typed, Block
<1>2. b \in List => block[b].pid \in Pids
  BY DEF Linked
<1>3. CASE b \notin List \/ block[b].pid \notin News
  BY <1>1, <1>3 DEF Marked, Ended
<1>4. CASE b \in List /\ block[b].pid \in News
  <2>1. kid[block[b].pid].st \in {"stopped", "dead"} /\ Active(block[b].flag)
    BY <1>2, <1>4 DEF News, Ended
  <2>2. Marked(b) = IF kid[block[b].pid].st = "stopped" THEN {"STOPPED", "CHANGED"}
                    ELSE {"EXITED", "CHANGED"}
    BY <1>4 DEF Marked
  <2> QED
    BY <1>4, <2>1, <2>2 DEF Active, Flags
<1> QED
  BY <1>3, <1>4

(* The process that is current when the handler has been there.            *)
LEMMA HandlerCurrent ==
  ASSUME Sound, SameList, cur' \in Currents, List' = List, List \subseteq Blocks,
         \A b \in Blocks : /\ block'[b].flag = Marked(b)
                           /\ Marked(b) # block[b].flag => b \in List /\ block[b].pid \in News,
         sig'.late = (sig.late \cap {cur'}) \cup TooLate,
         At("start", "allocated") => main' = main
  PROVE  CurrentIsActive' /\ cur' \in Addresses
<1>1. Typed /\ cur \in Addresses /\ CurrentIsActive
  BY InvParts DEF Typed
<1>2. CASE cur' = NextProcess(block', head)
  <2>1. cur' = NextProcess(block', head')
    BY <1>2 DEF SameList
  <2>2. cur' = NULL \/ (cur' \in List' /\ Active(block'[cur'].flag))
    BY <2>1, NextProcessFacts DEF List, Listed
  <2> QED
    BY <2>2 DEF CurrentIsActive, Addresses
<1>3. CASE cur' = cur /\ cur' # NextProcess(block', head)
  <2>1. CASE cur = NULL \/ cur \in sig.late
    BY <1>1, <1>3, <2>1 DEF CurrentIsActive
  <2>2. CASE At("start", "allocated") /\ cur = Top.at
    BY <1>1, <1>3, <2>2 DEF CurrentIsActive, At, In, Top
  <2>3. CASE cur \in List /\ Active(block[cur].flag)
    <3>1. Reported \/ block'[cur].flag = block[cur].flag
      BY <2>3 DEF Reported
    <3>2. Active(block'[cur].flag)
      <4>1. CASE Reported
        <5>1. cur' = CurrentAfter(block')
          BY <2>3, <4>1 DEF Currents
        <5> QED
          BY <1>3, <5>1 DEF CurrentAfter
      <4>2. CASE ~Reported
        BY <2>3, <3>1, <4>2
      <4> QED
        BY <4>1, <4>2
    <3> QED
      BY <1>1, <1>3, <2>3, <3>2 DEF CurrentIsActive
  <2> QED
    BY <1>1, <2>1, <2>2, <2>3 DEF CurrentIsActive
<1>4. cur' \in {cur, NextProcess(block', head)}
  BY DEF Currents, CurrentAfter
<1> QED
  BY <1>2, <1>3, <1>4

LEMMA ChildSigStep ==
  ASSUME Sound, ChildSig
  PROVE  Sound'
<1>1. Typed /\ Linked /\ Ended /\ Now
  BY InvParts
<1>2. /\ block' = [ b \in Blocks |-> [block[b] EXCEPT !.flag = Marked(b)] ]
      /\ cur' \in Currents
      /\ sig' = [sig EXCEPT !.pending = FALSE, !.late = (@ \cap {cur'}) \cup TooLate]
      /\ kid' = [ q \in Pids |-> [kid[q] EXCEPT !.news = FALSE, !.st = IF @ = "dead" THEN "gone" ELSE @] ]
      /\ UNCHANGED << head, sel, pty, cbuf, text >>
  BY DEF ChildSig, chans, tty
<1>3. \A b \in Blocks : /\ Marked(b) \subseteq Flags
                        /\ Marked(b) # block[b].flag =>
                             b \in List /\ block[b].pid \in News /\ Active(block[b].flag)
                        /\ b \in List => \/ Active(Marked(b))
                                         \/ kid[block[b].pid].st \in {"dead", "gone"}
  BY <1>1, MarkedFacts
<1>4. /\ block' \in [ Blocks -> Block ]
      /\ \A b \in Blocks : /\ block'[b].next = block[b].next /\ block'[b].pid = block[b].pid
                           /\ block'[b].chan = block[b].chan /\ block'[b].flag = Marked(b)
  <2>1. \A b \in Blocks : block[b] \in Block
    BY <1>1 DEF Typed
  <2>2. ASSUME NEW b \in Blocks
        PROVE  /\ [block[b] EXCEPT !.flag = Marked(b)] \in Block
               /\ [block[b] EXCEPT !.flag = Marked(b)].next = block[b].next
               /\ [block[b] EXCEPT !.flag = Marked(b)].pid = block[b].pid
               /\ [block[b] EXCEPT !.flag = Marked(b)].chan = block[b].chan
               /\ [block[b] EXCEPT !.flag = Marked(b)].flag = Marked(b)
    BY <1>3, <2>1 DEF Block
  <2> QED
    BY <1>2, <2>2
<1>5. SameList
  BY <1>2, <1>4 DEF SameList
<1>6. List' = List /\ List \subseteq Blocks
  BY <1>1, <1>5, SameListFacts, ListFacts
<1>7. /\ kid' \in [ Pids -> Kid ] /\ \A q \in Pids : kid'[q].st = "none" <=> kid[q].st = "none"
      /\ \A q \in Pids : ~kid'[q].news /\ (kid[q].st \in {"dead", "gone"} => kid'[q].st = "gone")
  BY <1>1, <1>2 DEF Typed, Kid
<1>8. NothingNew
  BY <1>1, <1>2, <1>7 DEF NothingNew, Typed
<1>9. sig' \in Sigs /\ sig'.late = (sig.late \cap {cur'}) \cup TooLate
  <2>1. TooLate \subseteq Blocks
    BY AtFacts DEF TooLate, Fits
  <2> QED
    BY <1>1, <1>2, <2>1 DEF Ended, Sigs
<1>10. Ended'
  <2>1. \A b \in List : block[b].pid \in Pids
    BY <1>1 DEF Linked
  <2>2. \A b \in List : Active(block'[b].flag) \/ kid'[block'[b].pid].st = "gone"
    BY <1>3, <1>4, <1>6, <1>7, <2>1
  <2> QED
    BY <1>6, <1>7, <1>9, <2>2 DEF Ended
<1>11. At("start", "allocated") \/ At("about", "found") \/ At("msgs", "store") \/ At("filter", "run")
         => main' = main
  BY DEF ChildSig, Paused, Waiting, At, In
<1>12. CurrentIsActive' /\ cur' \in Addresses
  BY <1>1, <1>2, <1>3, <1>4, <1>5, <1>6, <1>9, <1>11, HandlerCurrent
<1>13. CASE main' = main
  <2>1. Top' = Top /\ \A do, pc : At(do, pc)' <=> At(do, pc)
    BY <1>13 DEF At, In, Top
  <2>2. ASSUME At("start", "allocated") PROVE Top'.at \in Free' /\ NewPids' # {}
    <3>1. Free' = Free /\ NewPids' = NewPids
      BY <1>6, <1>7 DEF Free, NewPids
    <3> QED
      BY <1>1, <2>1, <2>2, <3>1 DEF Now
  <2>3. ASSUME At("about", "found")
        PROVE  /\ Top'.at \in List'
               /\ "change" \in Top'.flag => Active(block'[Top'.at].flag) \/ Top'.at \in sig'.late
    <3>1. Top.at \in List
      BY <1>1, <2>3 DEF Now
    <3>2. "change" \in Top.flag /\ ~Active(block'[Top.at].flag) => Top.at \in TooLate
      BY <2>3 DEF TooLate
    <3> QED
      BY <1>6, <1>9, <2>1, <3>1, <3>2
  <2>4. ASSUME At("msgs", "store")
        PROVE  Top'.flag = Cleared(block'[Top'.at].flag) \/ Active(Top'.flag)
    <3>1. Top.flag = Cleared(block[Top.at].flag) \/ Active(Top.flag)
      BY <1>1, <2>4 DEF Now
    <3>2. Top.at \in Blocks
      BY <2>4, AtFacts DEF Fits, Addresses
    <3>3. CASE Marked(Top.at) = block[Top.at].flag
      BY <1>4, <2>1, <3>1, <3>2, <3>3
    <3>4. CASE Marked(Top.at) # block[Top.at].flag
      <4>1. Active(block[Top.at].flag)
        BY <1>3, <3>2, <3>4
      <4>2. Active(Cleared(block[Top.at].flag))
        BY <4>1 DEF Active, Cleared
      <4> QED
        BY <2>1, <3>1, <4>2
    <3> QED
      BY <3>3, <3>4
  <2>5. ASSUME At("filter", "run")
        PROVE  cbuf' = block'[Top'.at].pid \/ \A b \in ToCome' : block'[b].pid # cbuf'
    <3>1. cbuf = block[Top.at].pid \/ \A b \in ToCome : block[b].pid # cbuf
      BY <1>1, <2>5 DEF Now
    <3>2. Top.at \in Blocks
      BY <2>5, AtFacts DEF Fits
    <3>3. ToCome' = ToCome
      BY <1>1, <1>5, <1>13, ToComeKept
    <3>4. ToCome \subseteq Blocks
      BY <1>6 DEF ToCome, List, Range
    <3> QED
      BY <1>2, <1>4, <2>1, <3>1, <3>2, <3>3, <3>4
  <2>6. Now'
    BY <2>1, <2>2, <2>3, <2>4, <2>5 DEF Now
  <2> QED
    BY <1>1, <1>2, <1>5, <1>8, <1>10, <1>12, <1>13, <2>6, InvParts, Kept DEF Typed
<1>14. ASSUME NEW new \in Level, new.do = Top.do, new.at = Top.at, main # << >>,
              Top.do \in {"fill", "exec", "monitor"}, Goes(new)
       PROVE  Sound'
  <2>1. Fits(Top)
    BY <1>14, InvParts
  <2>2. Fits(new) /\ ~Looks(new)
    BY <1>14, <2>1 DEF Fits, Looks
  <2>3. Quiet
    BY <1>14, <2>2, QuietGoes
  <2>4. Now'
    BY <2>3, NothingToKeep DEF Quiet
  <2> QED
    BY <1>1, <1>2, <1>5, <1>8, <1>10, <1>12, <2>3, <2>4, Kept DEF Quiet, Typed
<1>15. \/ At("fill", "select") /\ Goes([Top EXCEPT !.pc = "top"])
       \/ Paused /\ Goes([Top EXCEPT !.pc = "test"])
       \/ At("monitor", "forked") /\ Goes([Top EXCEPT !.flag = {"missed"}])
       \/ main' = main
  BY DEF ChildSig
<1>16. ASSUME At("fill", "select") \/ Paused, NEW pc \in {"top", "test"}
       PROVE  LET new == [Top EXCEPT !.pc = pc]
              IN  /\ new \in Level /\ new.do = Top.do /\ new.at = Top.at /\ main # << >>
                  /\ Top.do \in {"fill", "exec", "monitor"}
  <2>1. main # << >> /\ Top.do \in {"fill", "exec", "monitor"}
    BY <1>16 DEF At, Paused, Waiting, In, Top
  <2>2. Top \in Level /\ pc \in Pcs
    BY <2>1, InvParts DEF Pcs
  <2> QED
    BY <2>1, <2>2, PcSet
<1>17. ASSUME At("monitor", "forked")
       PROVE  LET new == [Top EXCEPT !.flag = {"missed"}]
              IN  /\ new \in Level /\ new.do = Top.do /\ new.at = Top.at /\ main # << >>
                  /\ Top.do \in {"fill", "exec", "monitor"}
  BY <1>17, AtFacts DEF Level
<1> QED
  BY <1>13, <1>14, <1>15, <1>16, <1>17

(***************************************************************************)
(* Commands.                                                               *)
(***************************************************************************)
LEMMA ReadsQuietly ==
  ASSUME Sound, Reads
  PROVE  /\ main \in Seq(Level) /\ Stacked(main) /\ ~At("start", "allocated")
         /\ main # << >> => Waits(Head(main)) /\ ~Looks(Head(main))
<1>1. main \in Seq(Level) /\ Stacked(main)
  BY InvParts DEF Typed
<1>2. main # << >> => Head(main).do = "ask"
  BY DEF Reads, In
<1> QED
  BY <1>1, <1>2 DEF Waits, Looks, At, In

LEMMA BelowFacts ==
  ASSUME Sound, NEW c, Gives(c)
  PROVE  /\ Below \in Seq(Level) /\ Stacked(Below) /\ ~At("start", "allocated")
         /\ Below # << >> => Waits(Head(Below)) /\ ~Looks(Head(Below))
<1>1. CASE Reads
  BY <1>1, ReadsQuietly DEF Below
<1>2. CASE ~Reads
  <2> DEFINE new == [Top EXCEPT !.pc = "ran"]
  <2>1. main # << >> /\ Top.do \in {"filter", "sentinel"}
    BY <1>2 DEF Gives, Bound, In, Top
  <2>2. Top \in Level /\ Fits(Top) /\ "ran" \in Pcs /\ main \in Seq(Level) /\ Stacked(main)
    BY <2>1, InvParts DEF Pcs, Typed
  <2>3. new \in Level /\ new.do = Top.do /\ new.pc = "ran" /\ new.at = Top.at
    BY <2>2, PcSet
  <2>4. Below = << new >> \o Tail(main)
    BY <1>2 DEF Below
  <2> HIDE DEF new
  <2>5. Fits(new) /\ Waits(new) /\ ~Looks(new)
    BY <2>1, <2>2, <2>3 DEF Fits, Waits, Looks
  <2>6. Below \in Seq(Level) /\ Stacked(Below) /\ Head(Below) = new
    BY <2>1, <2>2, <2>3, <2>4, <2>5, Replaced
  <2>7. ~At("start", "allocated")
    BY <2>1 DEF At, In, Top
  <2> QED
    BY <2>5, <2>6, <2>7
<1> QED
  BY <1>1, <1>2

LEMMA CallsFacts ==
  ASSUME Sound, NEW c, Gives(c), NEW fr \in Level, Fits(fr), Calls(fr)
  PROVE  main' \in Seq(Level) /\ Stacked(main') /\ main' # << >> /\ Head(main') = fr
BY BelowFacts, PushedOn DEF Calls

LEMMA QuietCalls ==
  ASSUME Sound, NEW c, Gives(c), NEW fr \in Level, Fits(fr), ~Looks(fr), Calls(fr)
  PROVE  Quiet
BY CallsFacts DEF Quiet

LEMMA QuietDone ==
  ASSUME Sound, NEW c, Gives(c), Done
  PROVE  Quiet
BY BelowFacts DEF Done, Quiet

LEMMA GetKeyStep ==
  ASSUME Sound, GetKey
  PROVE  Sound'
<1>1. /\ Reads /\ (main' = main \/ main' = << Fill >> \o main)
      /\ UNCHANGED << block, head, cur, sel, kid, pty, sig, cbuf, text >>
  BY DEF GetKey, list, chans, kernel
<1>2. /\ main \in Seq(Level) /\ Stacked(main) /\ ~At("start", "allocated")
      /\ main # << >> => Waits(Head(main)) /\ ~Looks(Head(main))
  BY <1>1, ReadsQuietly
<1>3. Fill \in Level /\ Fill.do = "fill" /\ Fill.at = NULL
  <2>1. Frame("fill", "top", NULL) \in Level /\ Frame("fill", "top", NULL).do = "fill"
        /\ Frame("fill", "top", NULL).at = NULL
    BY Frames, AddressesAreNumbers DEF Dos, Pcs
  <2> QED
    BY <2>1 DEF Fill, Level
<1>4. Fits(Fill) /\ ~Looks(Fill)
  BY <1>3 DEF Fits, Looks, Addresses
<1>5. Quiet
  BY <1>1, <1>2, <1>3, <1>4, PushedOn DEF Quiet
<1> QED
  BY <1>1, <1>2, <1>5, MainStep

LEMMA AwaitStep ==
  ASSUME Sound, AwaitProcessInput
  PROVE  Sound'
<1>1. Gives("await") /\ Calls(Await) /\ UNCHANGED << block, head, cur, sel, kid, pty, sig, cbuf, text >>
  BY DEF AwaitProcessInput, list, chans, kernel
<1>2. Await \in Level /\ Await.do = "fill" /\ Await.at = NULL
  BY Frames, AddressesAreNumbers DEF Dos, Pcs, Await
<1>3. Fits(Await) /\ ~Looks(Await)
  BY <1>2 DEF Fits, Looks, Addresses
<1>4. Quiet
  BY <1>1, <1>2, <1>3, QuietCalls
<1> QED
  BY <1>1, <1>4, BelowFacts, MainStep

(* A command about a process. *)
LEMMA GetBufProcStep ==
  ASSUME Sound, NEW what \in About, GetBufProc(what)
  PROVE  Sound'
<1> DEFINE do == IF Reads /\ what \in Asks THEN "ask" ELSE "about"
           pc == IF Reads /\ what \in Asks THEN "run" ELSE "found"
<1>1. /\ Gives(what) /\ UNCHANGED << block, head, cur, sel, kid, pty, sig, cbuf, text >>
      /\ ~At("start", "allocated")
  BY BelowFacts DEF GetBufProc, list, chans, kernel
<1>2. PICK b \in List : Active(block[b].flag) /\ Calls([Frame(do, pc, b) EXCEPT !.flag = {what}])
  BY DEF GetBufProc
<1> DEFINE fr == [Frame(do, pc, b) EXCEPT !.flag = {what}]
<1>3. Typed /\ Linked /\ b \in Blocks /\ b \in Nat
  BY InvParts, ListFacts, NumbersAssumption
<1>4. do \in Dos /\ pc \in Pcs
  BY DEF Dos, Pcs
<1>5. /\ (do = "ask" /\ pc = "run" /\ what \in Asks) \/ (do = "about" /\ pc = "found")
  OBVIOUS
<1> HIDE DEF do, pc
<1>6. /\ Frame(do, pc, b) \in Level /\ Frame(do, pc, b).do = do
      /\ Frame(do, pc, b).pc = pc /\ Frame(do, pc, b).at = b
  BY <1>3, <1>4, Frames
<1>7. fr \in Level /\ fr.do = do /\ fr.pc = pc /\ fr.at = b /\ fr.flag = {what}
  BY <1>6 DEF Level
<1>8. Calls(fr)
  BY <1>2
<1> HIDE DEF fr
<1>9. Fits(fr)
  BY <1>3, <1>5, <1>7 DEF Fits
<1>10. main' \in Seq(Level) /\ Stacked(main') /\ main' # << >> /\ Head(main') = fr
  BY <1>1, <1>7, <1>8, <1>9, CallsFacts
<1>11. CASE do = "ask" /\ pc = "run"
  <2>1. Quiet
    BY <1>7, <1>10, <1>11 DEF Quiet, Looks
  <2> QED
    BY <1>1, <2>1, MainStep
<1>12. CASE do = "about" /\ pc = "found"
  <2>1. Handled /\ SameList /\ NothingNew /\ Ended' /\ cur' \in Addresses
    BY <1>1, InvParts, SameHandled, SameState
  <2>2. CurrentIsActive' /\ List' = List
    BY <1>1, <1>3, <2>1, CurrentKept, SameListFacts
  <2>3. Now'
    BY <1>1, <1>2, <1>7, <1>10, <1>12, <2>2 DEF Now, At, In, Top
  <2> QED
    BY <1>1, <1>3, <1>10, <2>1, <2>2, <2>3, Kept DEF Typed
<1> QED
  BY <1>5, <1>11, <1>12

(* What the commands about a process do to it. *)
LEMMA OneBlock ==
  ASSUME Sound, NEW b, UNCHANGED << head, cur >>, Handled, ~At("start", "allocated"),
         \/ block' = block
         \/ \E out \in {"none", "held"} : block' = [block EXCEPT ![b].out = out]
         \/ \E set \in BOOLEAN : block' = [block EXCEPT ![b].filter = set]
         \/ \E set \in BOOLEAN : block' = [block EXCEPT ![b].sent = set]
  PROVE  SameList /\ Ended' /\ CurrentIsActive' /\ cur' \in Addresses
<1> DEFINE Same == /\ block' \in [ Blocks -> Block ]
                   /\ \A a \in Blocks : /\ block'[a].next = block[a].next
                                         /\ block'[a].pid = block[a].pid
                                         /\ block'[a].chan = block[a].chan
                                         /\ block'[a].flag = block[a].flag
<1>1. Typed /\ Linked /\ Ended
  BY InvParts
<1>2. ASSUME NEW v \in Block,
             v.next = block[b].next, v.pid = block[b].pid, v.chan = block[b].chan,
             v.flag = block[b].flag, block' = [block EXCEPT ![b] = v]
      PROVE  Same
  BY <1>1, <1>2 DEF Typed
<1>3. b \notin Blocks => Same
  <2> SUFFICES ASSUME b \notin Blocks PROVE Same
    OBVIOUS
  <2>1. block' = block
    BY <1>1 DEF Typed
  <2> QED
    BY <1>1, <2>1 DEF Typed
<1>4. b \in Blocks => Same
  <2> SUFFICES ASSUME b \in Blocks PROVE Same
    OBVIOUS
  <2>1. block[b] \in Block
    BY <1>1 DEF Typed
  <2>2. CASE block' = block
    BY <1>1, <2>2 DEF Typed
  <2>3. CASE \E out \in {"none", "held"} : block' = [block EXCEPT ![b].out = out]
    BY <1>2, <2>1, <2>3 DEF Block
  <2>4. CASE \E set \in BOOLEAN : block' = [block EXCEPT ![b].filter = set]
    BY <1>2, <2>1, <2>4 DEF Block
  <2>5. CASE \E set \in BOOLEAN : block' = [block EXCEPT ![b].sent = set]
    BY <1>2, <2>1, <2>5 DEF Block
  <2> QED
    BY <2>2, <2>3, <2>4, <2>5
<1>5. SameList /\ SameFlags
  BY <1>3, <1>4 DEF SameList, SameFlags
<1>6. Ended' /\ CurrentIsActive'
  BY <1>1, <1>5, FlagsActive, EndedKept, CurrentKept
<1> QED
  BY <1>1, <1>6, <1>5 DEF Typed

LEMMA Applied ==
  ASSUME Sound, NEW what, NEW b \in Blocks, Apply(what, b), ~At("start", "allocated"),
         \/ what \in Asks
         \/ /\ what \in About /\ b \in List
            /\ what = "change" => Active(block[b].flag) \/ b \in sig.late
  PROVE  /\ SameList /\ NothingNew /\ Ended' /\ CurrentIsActive' /\ cur' \in Addresses
         /\ sel' = sel
<1>1. Typed /\ Ended /\ Linked /\ List \subseteq Blocks
  BY InvParts, ListFacts
<1>2. UNCHANGED << kid, pty, sig >> => NothingNew /\ Handled
  BY <1>1, SameHandled DEF NothingNew, Typed
<1>3. ASSUME what \in {"string", "eot", "filter", "reset", "sentinel"}
      PROVE  /\ UNCHANGED << head, cur, sel, kid, pty, sig >>
             /\ \/ block' = block
                \/ \E out \in {"none", "held"} : block' = [block EXCEPT ![b].out = out]
                \/ \E set \in BOOLEAN : block' = [block EXCEPT ![b].filter = set]
                \/ \E set \in BOOLEAN : block' = [block EXCEPT ![b].sent = set]
  BY <1>3 DEF Apply, Send, InsertFilter, ResetFilter, InsertSentinel, chans, kernel
<1>4. CASE what \in {"string", "eot", "filter", "reset", "sentinel"}
  BY <1>2, <1>3, <1>4, OneBlock
<1>5. CASE what = "change"
  <2>1. cur' = b /\ UNCHANGED << block, head, sel, kid, pty, sig >>
    BY <1>5 DEF Apply, ChangeCurrentProcess, chans, kernel
  <2>2. b \in List /\ (Active(block[b].flag) \/ b \in sig.late)
    BY <1>5 DEF Asks
  <2>3. SameList
    BY <1>1, <2>1 DEF SameList, Typed
  <2>4. List' = List /\ Ended' /\ cur' \in Addresses
    BY <1>1, <1>2, <2>1, <2>3, SameListFacts, EndedKept DEF Addresses
  <2>5. CurrentIsActive'
    BY <2>1, <2>2, <2>4 DEF CurrentIsActive
  <2> QED
    BY <1>2, <2>1, <2>3, <2>4, <2>5
<1>6. ASSUME what \in {"int", "kill", "stop"}
      PROVE  /\ UNCHANGED << head, cur, sel >>
             /\ block' = block \/ block' = [block EXCEPT ![b].out = "none"]
             /\ \/ UNCHANGED << kid, pty, sig >>
                \/ \E st \in {"stopped", "dead"} : Alive(Struck(b)) /\ Turns(Struck(b), st)
  BY <1>6 DEF Apply, Interrupt, Kill, Stop, Alive, list, chans, kernel
<1>7. CASE what \in {"int", "kill", "stop"}
  BY <1>1, <1>2, <1>6, <1>7, OneBlock, TurnsNothingNew
<1>8. CASE what = "continue"
  <2>1. /\ block' = [block EXCEPT ![b].flag = (@ \ {"STOPPED"}) \cup {"RUNNING", "CHANGED"}]
        /\ UNCHANGED << head, cur, sel, pty, sig >>
        /\ \/ kid' = kid
           \/ /\ kid[Struck(b)].st = "stopped"
              /\ kid' = [kid EXCEPT ![Struck(b)].st = "runs", ![Struck(b)].news = FALSE]
    BY <1>8 DEF Apply, Continue, chans
  <2>2. b \in List
    BY <1>8 DEF Asks
  <2> DEFINE new == (block[b].flag \ {"STOPPED"}) \cup {"RUNNING", "CHANGED"}
  <2>3. new \subseteq Flags /\ Active(new)
    BY <1>1, <2>2 DEF Typed, Block, Flags, Active
  <2>4. block' = [block EXCEPT ![b].flag = new]
    BY <2>1
  <2> HIDE DEF new
  <2>5. /\ block' \in [ Blocks -> Block ]
        /\ \A a \in Blocks : /\ block'[a].next = block[a].next /\ block'[a].pid = block[a].pid
                             /\ block'[a].chan = block[a].chan
                             /\ block'[a].flag = IF a = b THEN new ELSE block[a].flag
    BY <1>1, <2>3, <2>4 DEF Typed, Block
  <2>6. SameList
    BY <2>1, <2>5 DEF SameList
  <2>7. /\ kid' \in [ Pids -> Kid ]
        /\ \A q \in Pids : /\ kid'[q].st = "none" <=> kid[q].st = "none"
                           /\ kid[q].st = "gone" => kid'[q].st = "gone"
                           /\ kid'[q].news => kid'[q].st \in {"stopped", "dead"}
    <3>1. CASE kid' = kid
      BY <1>1, <3>1 DEF Typed, Ended
    <3>2. CASE /\ kid[Struck(b)].st = "stopped"
               /\ kid' = [kid EXCEPT ![Struck(b)].st = "runs", ![Struck(b)].news = FALSE]
      BY <1>1, <3>2 DEF Typed, Kid, Ended
    <3> QED
      BY <2>1, <3>1, <3>2
  <2>8. NothingNew /\ Handled
    BY <1>1, <2>1, <2>7 DEF NothingNew, Handled, Typed, Ended
  <2>9. \A a \in List : Active(block[a].flag) => Active(block'[a].flag)
    BY <1>1, <2>3, <2>5
  <2>10. Ended' /\ CurrentIsActive' /\ cur' \in Addresses
    BY <1>1, <2>1, <2>6, <2>8, <2>9, EndedKept, CurrentKept DEF Typed
  <2> QED
    BY <2>1, <2>6, <2>8, <2>10
<1> QED
  BY <1>4, <1>5, <1>7, <1>8 DEF About, Asks

LEMMA AnswerStep ==
  ASSUME Sound, Answer
  PROVE  Sound'
<1>1. main # << >> /\ Top.do = "ask" /\ ~At("start", "allocated")
  BY DEF Answer, In, At, Top
<1>2. Top.at \in Blocks /\ Top.flag \subseteq Asks
  BY <1>1, InvParts DEF Fits
<1>3. PICK what \in Top.flag : Apply(what, Top.at)
  BY DEF Answer
<1>4. SameList /\ NothingNew /\ Ended' /\ CurrentIsActive' /\ cur' \in Addresses /\ sel' = sel
  BY <1>1, <1>2, <1>3, Applied
<1>5. Quiet
  BY <1>1, QuietReturn DEF Answer
<1>6. Now'
  BY <1>5, NothingToKeep DEF Quiet
<1> QED
  BY <1>4, <1>5, <1>6, InvParts, Kept DEF Answer, Quiet, Typed

LEMMA ActsStep ==
  ASSUME Sound, Acts
  PROVE  Sound'
<1>1. At("about", "found")
  BY DEF Acts
<1>2. main # << >> /\ ~At("start", "allocated") /\ Top.at \in Blocks
  BY <1>1, AtFacts DEF Fits
<1>3. /\ Top.at \in List
      /\ "change" \in Top.flag => Active(block[Top.at].flag) \/ Top.at \in sig.late
  BY <1>1, InvParts DEF Now
<1>4. PICK what \in Top.flag : Apply(what, Top.at)
  BY DEF Acts
<1>5. Quiet
  BY <1>2, QuietReturn DEF Acts
<1>6. Now'
  BY <1>5, NothingToKeep DEF Quiet
<1>7. what \in About
  BY <1>1, <1>4, AtFacts DEF Fits
<1>8. SameList /\ NothingNew /\ Ended' /\ CurrentIsActive' /\ cur' \in Addresses /\ sel' = sel
  BY <1>2, <1>3, <1>4, <1>7, Applied
<1> QED
  BY <1>5, <1>6, <1>8, InvParts, Kept DEF Acts, tty, Quiet, Typed

(***************************************************************************)
(* Starting a process.                                                     *)
(***************************************************************************)
LEMMA LeastOf ==
  ASSUME NEW T, T \subseteq Nat, T # {}
  PROVE  Min(T) \in T /\ \A m \in T : Min(T) <= m
<1>1. T \in SUBSET Nat
  OBVIOUS
<1> QED
  BY <1>1, MinIsLeast

LEMMA NewPidFacts ==
  ASSUME Typed, Linked, NewPids # {}
  PROVE  /\ NewPid \in Pids /\ ~Started(NewPid)
         /\ \A q \in Pids : Started(q) <=> q < NewPid
<1>1. NewPids \subseteq Pids /\ Pids \subseteq Nat
  BY AddressesAreNumbers DEF NewPids
<1>2. NewPid \in NewPids /\ \A q \in NewPids : NewPid <= q
  BY <1>1, LeastOf DEF NewPid
<1>3. NewPid \in Pids /\ ~Started(NewPid)
  BY <1>2 DEF NewPids, Started
<1>4. ASSUME NEW q \in Pids PROVE Started(q) <=> q < NewPid
  <2>1. q \in Nat /\ NewPid \in Nat
    BY <1>1, <1>3
  <2>2. Started(q) => q # NewPid /\ ~(NewPid < q)
    BY <1>3 DEF Linked
  <2>3. ~Started(q) => NewPid <= q
    BY <1>2 DEF NewPids, Started
  <2> QED
    BY <2>1, <2>2, <2>3
<1> QED
  BY <1>3, <1>4

LEMMA StartedOne ==
  ASSUME Typed, Linked, Ended, NewPids # {}, kid' = [kid EXCEPT ![NewPid].st = "runs"], sig' = sig
  PROVE  /\ kid' \in [ Pids -> Kid ] /\ kid'[NewPid].st # "none" /\ Handled
         /\ \A q \in Pids : Started(q) => kid'[q].st # "none"
         /\ \A p, q \in Pids : p < q /\ kid'[q].st # "none" => kid'[p].st # "none"
<1>1. NewPid \in Pids /\ \A q \in Pids : Started(q) <=> q < NewPid
  BY NewPidFacts
<1>2. /\ kid' \in [ Pids -> Kid ]
      /\ \A q \in Pids : /\ kid'[q].st = IF q = NewPid THEN "runs" ELSE kid[q].st
                         /\ kid'[q].news = kid[q].news
  BY <1>1 DEF Typed, Kid
<1>3. \A q \in Pids : kid'[q].st # "none" <=> q <= NewPid
  BY <1>1, <1>2, AddressesAreNumbers DEF Started
<1>4. kid[NewPid].st = "none"
  BY NewPidFacts DEF Started
<1>5. Handled
  BY <1>1, <1>2, <1>4 DEF Handled, Ended
<1> QED
  BY <1>1, <1>2, <1>3, <1>5, AddressesAreNumbers DEF Started

(* A process that is not on the list: a synchronous command. *)
LEMMA ExecStep ==
  ASSUME Sound, ExecBfp \/ ReturnToMonitor
  PROVE  Sound'
<1>1. PICK do \in {"exec", "monitor"}, pc \in {"read", "forked"} :
        /\ Gives(do) /\ NewPids # {} /\ Calls(Frame(do, pc, NewPid))
        /\ kid' = [kid EXCEPT ![NewPid].st = "runs"]
        /\ UNCHANGED << block, head, cur, sel, pty, sig, cbuf, text >>
  BY DEF ExecBfp, ReturnToMonitor, list, chans
<1>2. Typed /\ Linked /\ Ended /\ ~At("start", "allocated")
  BY <1>1, InvParts, BelowFacts
<1>3. NewPid \in Pids /\ NewPid \in Nat
  BY <1>1, <1>2, NewPidFacts, AddressesAreNumbers
<1> DEFINE fr == Frame(do, pc, NewPid)
<1>4. fr \in Level /\ fr.do = do
  BY <1>3, Frames DEF Dos, Pcs
<1> HIDE DEF fr
<1>5. Fits(fr) /\ ~Looks(fr)
  BY <1>4 DEF Fits, Looks
<1>6. Quiet
  BY <1>1, <1>4, <1>5, QuietCalls DEF fr
<1>7. Onward /\ Handled
  BY <1>1, <1>2, StartedOne DEF Onward, Typed
<1>8. SameList
  BY <1>1, <1>2 DEF SameList, Typed
<1>9. Ended' /\ CurrentIsActive'
  BY <1>1, <1>2, <1>7, <1>8, EndedKept, CurrentKept
<1>10. Now'
  BY <1>6, NothingToKeep DEF Quiet
<1> QED
  BY <1>1, <1>2, <1>6, <1>7, <1>8, <1>9, <1>10, KeptOn DEF Quiet, Typed

LEMMA WaitSteps ==
  ASSUME Sound, ReadPipeEnd \/ Forked \/ WaitForChild
  PROVE  Sound'
<1>1. /\ main # << >> /\ Top.do \in {"exec", "monitor"}
      /\ UNCHANGED << block, head, cur, sel, kid, pty, cbuf, text >>
      /\ sig' = sig \/ \E held \in BOOLEAN : sig' = [sig EXCEPT !.held = held]
      /\ Return \/ \E pc \in {"test", "pause"} : Goes([Top EXCEPT !.pc = pc])
  BY DEF ReadPipeEnd, Forked, WaitForChild, Waiting, At, In, Top, list, chans, kernel, tty
<1>2. /\ ~At("start", "allocated") /\ Top \in Level /\ Fits(Top)
      /\ cbuf' \in Pids \cup {0} /\ text' \in Texts /\ sel' \in SUBSET Channels
  BY <1>1, InvParts DEF At, In, Top, Typed
<1>h. Handled
  BY <1>1, InvParts DEF Handled, Ended, Sigs
<1>3. CASE Return
  BY <1>1, <1>2, <1>3, <1>h, QuietReturn, QuietStep
<1>4. ASSUME NEW pc \in {"test", "pause"}, Goes([Top EXCEPT !.pc = pc])
      PROVE  Sound'
  <2> DEFINE new == [Top EXCEPT !.pc = pc]
  <2>0. pc \in Pcs
    BY DEF Pcs
  <2>1. new \in Level /\ new.do = Top.do
    BY <1>2, <2>0, PcSet
  <2>2. Goes(new)
    BY <1>4
  <2> HIDE DEF new
  <2>3. Fits(new) /\ ~Looks(new)
    BY <1>1, <2>1 DEF Fits, Looks
  <2> QED
    BY <1>1, <1>2, <1>h, <2>1, <2>2, <2>3, QuietGoes, QuietStep
<1> QED
  BY <1>1, <1>3, <1>4

LEMMA StartProcessStep ==
  ASSUME Sound, StartProcess
  PROVE  Sound'
<1> DEFINE b == Min(Free)
           fr == Frame("start", "allocated", b)
<1>1. /\ Gives("start") /\ Free # {} /\ NewPids # {} /\ cur' = b /\ Calls(fr)
      /\ UNCHANGED << block, head, sel, kid, pty, sig, cbuf, text >>
  BY DEF StartProcess, chans, kernel
<1>2. Typed /\ Linked /\ Ended
  BY InvParts
<1>3. Free \subseteq Nat /\ Free \subseteq Blocks
  BY NumbersAssumption DEF Free
<1>4. b \in Free /\ b \in Addresses /\ b \in Nat
  BY <1>1, <1>3, LeastOf DEF Addresses
<1> HIDE DEF b
<1>5. fr \in Level /\ fr.do = "start" /\ fr.pc = "allocated" /\ fr.at = b
  BY <1>4, Frames DEF Dos, Pcs
<1> HIDE DEF fr
<1>6. Fits(fr)
  BY <1>5 DEF Fits
<1>7. main' \in Seq(Level) /\ Stacked(main') /\ main' # << >> /\ Head(main') = fr
  BY <1>1, <1>5, <1>6, CallsFacts
<1>8. SameList /\ NothingNew /\ Handled
  BY <1>1, <1>2, SameHandled DEF SameList, NothingNew, Typed
<1>9. Free' = Free /\ NewPids' = NewPids
  BY <1>1, <1>2, <1>8, SameListFacts DEF Free, NewPids
<1>10. Now' /\ CurrentIsActive'
  BY <1>1, <1>4, <1>5, <1>7, <1>9 DEF Now, CurrentIsActive, At, In, Top
<1>11. Ended'
  BY <1>1, <1>2, <1>8, EndedKept
<1> QED
  BY <1>1, <1>2, <1>4, <1>7, <1>8, <1>10, <1>11, Kept DEF Typed

(* The list with one block more, the first. *)
LEMMA ListedFirst ==
  ASSUME Typed, Linked, NEW b \in Blocks, b \notin List, NEW new,
         new[b].next = head, \A a \in List : new[a].next = block[a].next
  PROVE  Range(ListedIn(new, b)) \ {NULL} = List \cup {b}
<1>n. N \in Nat
  BY NumberOfBlocks
<1> DEFINE f == [ n \in 0..N |-> IF n = 0 THEN b ELSE Listed[n - 1] ]
           g == ListedIn(new, b)
<1>1. /\ Along(Listed, block, head) /\ Ordered(Listed, block)
      /\ List = { Listed[n] : n \in 0..N } \ {NULL}
  BY ListFacts
<1>2. b # NULL
  BY NumbersAssumption DEF NULL
<1>3. f[0] = b /\ \A n \in 1..N : f[n] = Listed[n - 1]
  BY <1>n
<1>4. f = [ n \in 0..N |-> f[n] ]
  OBVIOUS
<1> HIDE DEF f
<1>5. ASSUME NEW n \in 1..N
      PROVE  f[n] = IF f[n - 1] = NULL THEN NULL ELSE new[f[n - 1]].next
  <2>1. CASE n = 1
    <3>1. f[1] = head /\ f[0] = b
      BY <1>1, <1>3, <2>1 DEF Along
    <3> QED
      BY <1>2, <2>1, <3>1
  <2>2. CASE n # 1
    <3>1. n - 1 \in 1..N /\ (n - 1) - 1 \in 0..N /\ n - 1 \in 0..N
      BY <1>n, <2>2
    <3>2. f[n - 1] = Listed[(n - 1) - 1] /\ f[n] = Listed[n - 1]
      BY <1>3, <3>1
    <3>3. Listed[n - 1] = IF Listed[(n - 1) - 1] = NULL THEN NULL ELSE block[Listed[(n - 1) - 1]].next
      BY <1>1, <3>1 DEF Along
    <3>4. Listed[(n - 1) - 1] # NULL => Listed[(n - 1) - 1] \in List
      BY <1>1, <3>1
    <3> QED
      BY <3>2, <3>3, <3>4
  <2> QED
    BY <2>1, <2>2
<1>6. Along(f, new, b)
  BY <1>3, <1>4, <1>5 DEF Along
<1>7. Along(g, new, b)
  BY ListedAlong
<1> HIDE DEF g
<1>8. \A n \in 0..N : g[n] = f[n]
  BY <1>6, <1>7, AlongUnique
<1>9. DOMAIN g = 0..N
  BY <1>7 DEF Along
<1>10. Range(g) \ {NULL} = { f[n] : n \in 0..N } \ {NULL}
  BY <1>8, <1>9 DEF Range
<1>11. { f[n] : n \in 0..N } \ {NULL} \subseteq List \cup {b}
  <2> SUFFICES ASSUME NEW n \in 0..N, f[n] # NULL PROVE f[n] \in List \cup {b}
    OBVIOUS
  <2>1. CASE n = 0
    BY <1>3, <2>1
  <2>2. CASE n # 0
    <3>1. n \in 1..N /\ n - 1 \in 0..N
      BY <1>n, <2>2
    <3> QED
      BY <1>1, <1>3, <3>1
  <2> QED
    BY <2>1, <2>2
<1>12. List \cup {b} \subseteq { f[n] : n \in 0..N } \ {NULL}
  <2>1. b \in { f[n] : n \in 0..N }
    BY <1>3, <1>n
  <2>2. ASSUME NEW a \in List PROVE a \in { f[n] : n \in 0..N } /\ a # NULL
    <3>1. PICK n \in 0..N : Listed[n] = a /\ a # NULL
      BY <1>1
    <3>2. n # N
      BY <1>1, <3>1, Ends
    <3>3. n + 1 \in 1..N /\ n + 1 \in 0..N /\ (n + 1) - 1 = n
      BY <1>n, <3>2
    <3>4. f[n + 1] = a
      BY <1>3, <3>1, <3>3
    <3> QED
      BY <3>1, <3>3, <3>4
  <2> QED
    BY <1>2, <2>1, <2>2
<1> QED
  BY <1>10, <1>11, <1>12 DEF g

LEMMA SetOne ==
  ASSUME NEW S, NEW T, NEW f \in [S -> T], NEW x \in S, NEW y \in T
  PROVE  LET g == [f EXCEPT ![x] = y]
         IN  g \in [S -> T] /\ g[x] = y /\ \A z \in S : z # x => g[z] = f[z]
OBVIOUS

LEMMA Listed0 ==
  ASSUME Typed, Linked, head # NULL
  PROVE  head \in List
<1>1. Along(Listed, block, head) /\ List = { Listed[n] : n \in 0..N } \ {NULL}
  BY ListFacts
<1>2. Listed[0] = head /\ 0 \in 0..N
  BY <1>1, NumberOfBlocks DEF Along
<1> QED
  BY <1>1, <1>2

(* The new block becomes the first, and the newest. *)
NewBlock(c, filter) == [ next |-> head, pid |-> NewPid, flag |-> {"RUNNING", "CHANGED"},
                         chan |-> c, out |-> "none", filter |-> filter, sent |-> FALSE ]
NewPty == [ pid |-> NewPid, unread |-> 0, slave |-> TRUE ]

LEMMA Created ==
  ASSUME Sound, cur \in Free, NewPids # {}, Quiet,
         NEW filter \in BOOLEAN, NEW c \in Channels, pty[c].pid = 0,
         block' = [block EXCEPT ![cur] = NewBlock(c, filter)],
         head' = cur, cur' = cur,
         sel' = sel \cup {c},
         pty' = [pty EXCEPT ![c] = NewPty],
         kid' = [kid EXCEPT ![NewPid].st = "runs"],
         UNCHANGED << sig, cbuf, text >>
  PROVE  Sound'
<1>1. /\ Typed /\ Linked /\ Owned /\ Ended /\ List \subseteq Blocks
      /\ cur \in Blocks /\ cur \notin List /\ 0 \notin Pids
  BY InvParts, ListFacts DEF Free, Pids
<1>2. /\ NewPid \in Pids /\ ~Started(NewPid) /\ Pids \subseteq Nat
      /\ \A q \in Pids : Started(q) => q < NewPid
  BY <1>1, NewPidFacts, AddressesAreNumbers
<1> DEFINE b0 == NewBlock(c, filter)
           p0 == NewPty
<1>3. /\ b0 \in Block /\ b0.next = head /\ b0.pid = NewPid /\ b0.chan = c
      /\ b0.flag = {"RUNNING", "CHANGED"}
  BY <1>1, <1>2 DEF Block, Typed, Flags, NewBlock
<1>4. p0 \in Pty /\ p0.pid = NewPid
  BY <1>2 DEF Pty, NewPty
<1>5. block' = [block EXCEPT ![cur] = b0] /\ pty' = [pty EXCEPT ![c] = p0]
  OBVIOUS
<1> HIDE DEF b0, p0
<1>6. block' \in [ Blocks -> Block ] /\ block'[cur] = b0
      /\ \A b \in Blocks : b # cur => block'[b] = block[b]
  <2>1. block \in [ Blocks -> Block ]
    BY <1>1 DEF Typed
  <2> QED
    BY <2>1, <1>1, <1>3, <1>5, SetOne
<1>7. pty' \in [ Channels -> Pty ] /\ pty'[c] = p0
      /\ \A d \in Channels : d # c => pty'[d] = pty[d]
  BY <1>1, <1>4, <1>5 DEF Typed
<1>8. /\ kid' \in [ Pids -> Kid ] /\ kid'[NewPid].st # "none" /\ Handled
      /\ \A q \in Pids : Started(q) => kid'[q].st # "none"
      /\ \A p, q \in Pids : p < q /\ kid'[q].st # "none" => kid'[p].st # "none"
  BY <1>1, StartedOne
<1>9. Typed'
  BY <1>1, <1>6, <1>7, <1>8 DEF Typed, Quiet
<1>10. List' = List \cup {cur}
  <2>1. block'[cur].next = head /\ \A a \in List : block'[a].next = block[a].next
    BY <1>1, <1>3, <1>6
  <2>2. Range(ListedIn(block', cur)) \ {NULL} = List \cup {cur}
    BY <1>1, <2>1, ListedFirst
  <2> QED
    BY <2>2 DEF List, Listed
<1>11. \A b \in List : /\ block'[b] = block[b] /\ b # cur /\ block[b].pid \in Pids
                       /\ block[b].pid # 0 /\ Started(block[b].pid) /\ block[b].pid < NewPid
                       /\ block[b].chan \in Channels
  BY <1>1, <1>2, <1>6 DEF Linked
<1>12. Linked'
  <2>1. ASSUME NEW b \in List'
        PROVE  /\ block'[b].pid \in Pids /\ kid'[block'[b].pid].st # "none"
               /\ block'[b].chan \in Channels
               /\ block'[b].next # NULL => block'[block'[b].next].pid < block'[b].pid
    <3>1. CASE b = cur
      <4>1. head # NULL => head \in List
        BY <1>1, Listed0
      <4>2. head # NULL => block'[head].pid < NewPid
        BY <4>1, <1>11
      <4> QED
        BY <3>1, <4>2, <1>2, <1>3, <1>6, <1>8
    <3>2. CASE b # cur
      <4>1. b \in List
        BY <3>2, <2>1, <1>10
      <4>2. block[b].next # NULL => block[b].next \in List
        BY <4>1, <1>1, NextListed
      <4> QED
        BY <4>1, <4>2, <1>1, <1>8, <1>11 DEF Linked
    <3> QED
      BY <3>1, <3>2
  <2> QED
    BY <2>1, <1>8 DEF Linked, Started
<1>13. Owned'
  <2>1. ASSUME NEW d \in Channels, pty'[d].pid # 0 PROVE kid'[pty'[d].pid].st # "none"
    <3>1. CASE d = c
      BY <3>1, <1>4, <1>7, <1>8
    <3>2. CASE d # c
      <4>1. pty'[d] = pty[d] /\ Started(pty[d].pid) /\ pty[d].pid \in Pids
        BY <3>2, <2>1, <1>1, <1>7 DEF Owned, Typed, Pty
      <4> QED
        BY <4>1, <1>8
    <3> QED
      BY <3>1, <3>2
  <2>2. \A d \in Channels : pty[d].pid # NewPid
    BY <1>1, <1>2 DEF Owned
  <2>3. ASSUME NEW b \in List', NEW d \in Channels, pty'[d].pid = block'[b].pid
        PROVE  d = block'[b].chan
    <3>1. CASE b = cur
      BY <3>1, <2>2, <2>3, <1>3, <1>6, <1>7
    <3>2. CASE b # cur
      <4>1. b \in List
        BY <3>2, <2>3, <1>10
      <4>2. d # c
        BY <4>1, <2>3, <1>2, <1>4, <1>7, <1>11
      <4> QED
        BY <4>1, <4>2, <2>3, <1>1, <1>7, <1>11 DEF Owned
    <3> QED
      BY <3>1, <3>2
  <2>4. ASSUME NEW a \in List', NEW b \in List', block'[a].chan = block'[b].chan,
               block'[b].pid < block'[a].pid
        PROVE  pty'[block'[b].chan].pid # block'[b].pid
    <3>1. b # cur
      <4> SUFFICES ASSUME b = cur PROVE FALSE
        OBVIOUS
      <4>1. a # cur
        BY <2>4, <1>2, <1>3, <1>6
      <4>2. a \in List
        BY <4>1, <2>4, <1>10
      <4>3. block'[a].pid < NewPid /\ block'[a].pid \in Nat /\ NewPid < block'[a].pid
        BY <4>2, <2>4, <1>2, <1>3, <1>6, <1>11
      <4> QED
        BY <4>3, <1>2
    <3>2. b \in List
      BY <3>1, <2>4, <1>10
    <3>3. CASE block'[b].chan = c
      BY <3>2, <3>3, <1>2, <1>4, <1>7, <1>11
    <3>4. CASE block'[b].chan # c
      <4>1. a # cur
        BY <3>4, <2>4, <1>3, <1>6
      <4>2. a \in List
        BY <4>1, <2>4, <1>10
      <4>3. pty'[block'[b].chan] = pty[block[b].chan]
        BY <3>2, <3>4, <1>7, <1>11
      <4> QED
        BY <3>2, <4>2, <4>3, <2>4, <1>1, <1>11 DEF Owned
    <3> QED
      BY <3>3, <3>4
  <2> QED
    BY <2>1, <2>3, <2>4 DEF Owned, Started
<1>14. Ended' /\ CurrentIsActive'
  <2>1. Active(b0.flag)
    BY <1>3 DEF Active
  <2>2. Ended'
    BY <2>1, <1>1, <1>6, <1>8, <1>10, <1>11 DEF Ended, Handled
  <2>3. cur' \in List' /\ Active(block'[cur'].flag)
    BY <2>1, <1>6, <1>10
  <2> QED
    BY <2>2, <2>3 DEF CurrentIsActive
<1>15. Now' /\ Stacked(main)'
  BY NothingToKeep DEF Quiet, Stacked, Waits, Fits
<1> QED
  BY <1>9, <1>12, <1>13, <1>14, <1>15 DEF Sound

LEMMA CreateProcessStep ==
  ASSUME Sound, CreateProcess
  PROVE  Sound'
<1>1. At("start", "allocated") /\ cur = Top.at /\ UNCHANGED << cbuf, text >>
  BY DEF CreateProcess, tty
<1>2. main # << >> /\ cur \in Free /\ NewPids # {}
  BY <1>1, AtFacts, InvParts DEF Now
<1>3. Quiet
  BY <1>2, QuietReturn DEF CreateProcess
<1>4. CASE Unused = {}
  <2>1. cur' = NextProcess(block, head) /\ UNCHANGED << block, head, sel, kid, pty, sig >>
    BY <1>4 DEF CreateProcess, kernel
  <2>2. SameList /\ NothingNew /\ Handled /\ Typed /\ Linked /\ Ended
    BY <2>1, InvParts, SameHandled DEF SameList, NothingNew, Typed
  <2>3. Ended' /\ List' = List /\ List \subseteq Blocks
    BY <2>1, <2>2, EndedKept, SameListFacts, ListFacts
  <2>4. cur' = NULL \/ (cur' \in List /\ Active(block[cur'].flag))
    BY <2>1, NextProcessFacts DEF List, Listed
  <2>5. CurrentIsActive' /\ cur' \in Addresses
    BY <2>1, <2>3, <2>4 DEF CurrentIsActive, Addresses
  <2>6. Now'
    BY <1>3, NothingToKeep DEF Quiet
  <2> QED
    BY <1>1, <1>3, <2>1, <2>2, <2>3, <2>5, <2>6, Kept DEF Quiet, Typed
<1>5. CASE Unused # {}
  <2>1. Unused \subseteq Nat
    BY NumbersAssumption DEF Unused
  <2>2. Min(Unused) \in Unused
    BY <1>5, <2>1, LeastOf
  <2> DEFINE c == Min(Unused)
  <2>3. c \in Channels /\ pty[c].pid = 0
    BY <2>2 DEF Unused
  <2>4. \E filter \in BOOLEAN :
          /\ block' = [block EXCEPT ![cur] = NewBlock(c, filter)]
          /\ head' = cur /\ cur' = cur /\ sel' = sel \cup {c}
          /\ pty' = [pty EXCEPT ![c] = NewPty]
          /\ kid' = [kid EXCEPT ![NewPid].st = "runs"] /\ sig' = sig
    BY <1>5 DEF CreateProcess, NextOf, NewBlock, NewPty
  <2> HIDE DEF c
  <2> QED
    BY <1>1, <1>2, <1>3, <2>3, <2>4, Created
<1> QED
  BY <1>4, <1>5

(* The list is lost: it begins with the block it has been given twice.     *)
LEMMA CreateTwiceStep ==
  ASSUME Sound, CreateTwice
  PROVE  LostInv'
<1> DEFINE new == [Top EXCEPT !.pc = "lost"]
<1>1. /\ At("start", "allocated") /\ cur # Top.at /\ Goes(new)
      /\ UNCHANGED << cur, sig >>
      /\ IF cur = NULL THEN UNCHANGED << block, head >>
         ELSE block' = [block EXCEPT ![cur].next = head] /\ head' = cur
  BY DEF CreateTwice, kernel
<1>2. /\ main # << >> /\ Top \in Level /\ Top.do = "start" /\ Typed /\ Linked
      /\ main \in Seq(Level) /\ Stacked(main) /\ List \subseteq Blocks
  BY <1>1, AtFacts, InvParts, ListFacts DEF Typed
<1>3. new \in Level /\ new.do = "start" /\ new.pc = "lost"
  BY <1>2, PcSet DEF Pcs
<1> HIDE DEF new
<1>4. Fits(new)
  BY <1>3 DEF Fits
<1>5. main' # << >> /\ Head(main') = new
  BY <1>1, <1>2, <1>3, <1>4, GoesOn
<1>6. Lost'
  BY <1>3, <1>5 DEF Lost, At, In
<1>7. cur = NULL \/ cur \in sig.late \/ (cur \in List /\ Active(block[cur].flag))
  BY <1>1, InvParts DEF CurrentIsActive
<1>8. ASSUME cur # NULL, cur \in List, Active(block[cur].flag)
      PROVE  cur' \in List' /\ Active(block'[cur'].flag)
  <2>1. cur \in Blocks /\ block \in [ Blocks -> Block ]
    BY <1>2, <1>8 DEF Typed
  <2>2. block' = [block EXCEPT ![cur].next = head] /\ head' = cur /\ cur' = cur
    BY <1>1, <1>8
  <2>3. block'[cur'].flag = block[cur].flag
    BY <2>1, <2>2 DEF Block
  <2>4. Along(Listed', block', head')
    BY ListedAlong DEF Listed
  <2>5. Listed'[0] = cur' /\ 0 \in DOMAIN Listed'
    BY <2>2, <2>4, NumberOfBlocks DEF Along
  <2>6. cur' \in List'
    BY <1>1, <1>8, <2>5 DEF List, Range
  <2> QED
    BY <1>8, <2>3, <2>6
<1>9. CurrentIsActive'
  BY <1>1, <1>7, <1>8 DEF CurrentIsActive
<1>10. sig' \in Sigs
  BY <1>1, InvParts DEF Ended
<1> QED
  BY <1>6, <1>9, <1>10 DEF LostInv

(***************************************************************************)
(* list-processes.                                                         *)
(***************************************************************************)
After(n) == { m \in Stays : m > n }

LEMMA FirstOf ==
  ASSUME Typed, Linked, NEW T \in SUBSET Stays
  PROVE  \/ T = {} /\ First(T) = NULL
         \/ T # {} /\ Min(T) \in T /\ First(T) = Listed[Min(T)] /\ \A m \in T : Min(T) <= m
<1>1. DOMAIN Listed = 0..N
  BY ListFacts DEF Along
<1>2. T \in SUBSET Nat
  BY <1>1, NumberOfBlocks DEF Stays
<1> QED
  BY <1>2, MinIsLeast DEF First

LEMMA FlushedBlocks ==
  ASSUME Typed, Linked, block' = Flushed.block, head' = Flushed.first
  PROVE  /\ block' \in [ Blocks -> Block ] /\ head' = First(Stays) /\ head' \in Addresses
         /\ \A b \in Blocks : /\ block'[b].pid = block[b].pid /\ block'[b].chan = block[b].chan
                              /\ block'[b].flag = block[b].flag
         /\ \A n \in Stays : block'[Listed[n]].next = First(After(n))
<1>1. /\ DOMAIN Listed = 0..N /\ Ordered(Listed, block)
      /\ \A n \in 0..N : Listed[n] \in Addresses
  BY ListFacts DEF Along
<1>2. \A n \in Stays : n \in 0..N /\ Listed[n] # NULL /\ Listed[n] \in Blocks
  BY <1>1 DEF Stays, Addresses
<1>3. \A m, n \in Stays : Listed[m] = Listed[n] => m = n
  BY <1>1, <1>2, ListEndsHere DEF OnceEach
<1>4. ASSUME NEW T \in SUBSET Stays PROVE First(T) \in Addresses
  BY <1>2, <1>4, FirstOf DEF Addresses
<1> DEFINE at(b) == CHOOSE m \in Stays : Listed[m] = b
           on(b) == \E n \in Stays : Listed[n] = b
           new(b) == IF on(b) THEN [block[b] EXCEPT !.next = First(After(at(b)))] ELSE block[b]
<1>5. block' = [ b \in Blocks |-> new(b) ] /\ head' = First(Stays)
  BY DEF Flushed, After
<1>6. \A n \in Stays : on(Listed[n]) /\ at(Listed[n]) = n
  BY <1>3
<1>7. \A n : After(n) \in SUBSET Stays
  BY DEF After
<1> HIDE DEF at, on
<1>8. ASSUME NEW b \in Blocks
      PROVE  /\ new(b) \in Block /\ new(b).pid = block[b].pid /\ new(b).chan = block[b].chan
             /\ new(b).flag = block[b].flag
             /\ on(b) => new(b).next = First(After(at(b)))
  <2>1. block[b] \in Block
    BY DEF Typed
  <2> DEFINE x == First(After(at(b)))
  <2>2. x \in Addresses
    BY <1>4, <1>7
  <2> HIDE DEF x
  <2>3. /\ [block[b] EXCEPT !.next = x] \in Block
        /\ [block[b] EXCEPT !.next = x].pid = block[b].pid
        /\ [block[b] EXCEPT !.next = x].chan = block[b].chan
        /\ [block[b] EXCEPT !.next = x].flag = block[b].flag
        /\ [block[b] EXCEPT !.next = x].next = x
    BY <2>1, <2>2 DEF Block
  <2>4. new(b) = IF on(b) THEN [block[b] EXCEPT !.next = x] ELSE block[b]
    BY DEF x
  <2> HIDE DEF new
  <2>5. CASE on(b)
    BY <2>3, <2>4, <2>5 DEF x
  <2>6. CASE ~on(b)
    BY <2>1, <2>4, <2>6
  <2> QED
    BY <2>5, <2>6
<1> HIDE DEF new
<1>9. \A b \in Blocks : block'[b] = new(b)
  BY <1>5
<1>10. block' \in [ Blocks -> Block ]
  BY <1>5, <1>8
<1>11. \A n \in Stays : block'[Listed[n]].next = First(After(n))
  BY <1>2, <1>6, <1>8, <1>9
<1> QED
  BY <1>4, <1>5, <1>8, <1>9, <1>10, <1>11

(* Nothing comes on the list. *)
LEMMA FlushedListed ==
  ASSUME Typed, Linked, block' = Flushed.block, head' = Flushed.first
  PROVE  \A i \in 0..N : Listed'[i] = NULL \/ \E n \in Stays : Listed'[i] = Listed[n]
<1> DEFINE g == Listed'
           T == { i \in 0..N : ~(g[i] = NULL \/ \E n \in Stays : g[i] = Listed[n]) }
<1> SUFFICES ASSUME T # {} PROVE FALSE
  OBVIOUS
<1>1. Along(g, block', head')
  BY ListedAlong DEF Listed
<1> HIDE DEF g
<1>2. T \in SUBSET Nat
  OBVIOUS
<1>3. PICK i \in T : \A m \in T : i <= m
  BY <1>2, NatMin
<1>4. i \in 0..N /\ g[i] # NULL /\ ~\E n \in Stays : g[i] = Listed[n]
  OBVIOUS
<1>5. /\ head' = First(Stays)
      /\ \A n \in Stays : block'[Listed[n]].next = First(After(n))
  BY FlushedBlocks
<1>6. ASSUME NEW U \in SUBSET Stays, First(U) # NULL
      PROVE  \E n \in Stays : First(U) = Listed[n]
  BY <1>6, FirstOf
<1>7. i # 0
  BY <1>1, <1>4, <1>5, <1>6 DEF Along
<1>8. i \in 1..N /\ i - 1 \in 0..N /\ i - 1 \notin T
  BY <1>3, <1>4, <1>7, NumberOfBlocks
<1>9. g[i - 1] # NULL /\ g[i] = block'[g[i - 1]].next
  BY <1>1, <1>4, <1>8 DEF Along
<1>10. PICK n \in Stays : g[i - 1] = Listed[n]
  BY <1>8, <1>9
<1>11. g[i] = First(After(n)) /\ After(n) \in SUBSET Stays
  BY <1>5, <1>9, <1>10 DEF After
<1> QED
  BY <1>4, <1>6, <1>11

LEMMA FlushedLinked ==
  ASSUME Typed, Linked, block' = Flushed.block, head' = Flushed.first, kid' = kid
  PROVE  /\ List' \subseteq { Listed[n] : n \in Stays } /\ List' \subseteq List
         /\ Linked' /\ Ordered(Listed', block')
<1>n. N \in Nat
  BY NumberOfBlocks
<1>1. /\ Along(Listed, block, head) /\ Ordered(Listed, block) /\ DOMAIN Listed = 0..N
      /\ List = { Listed[n] : n \in 0..N } \ {NULL} /\ List \subseteq Blocks
  BY ListFacts DEF Along
<1>2. \A n \in Stays : n \in 0..N /\ Listed[n] \in List
  BY <1>1 DEF Stays
<1>3. /\ \A b \in Blocks : block'[b].pid = block[b].pid /\ block'[b].chan = block[b].chan
      /\ \A n \in Stays : block'[Listed[n]].next = First(After(n))
  BY FlushedBlocks
<1>4. Along(Listed', block', head')
  BY ListedAlong DEF Listed
<1>5. DOMAIN Listed' = 0..N
  BY <1>4 DEF Along
<1>6. List' = { Listed'[i] : i \in 0..N } \ {NULL}
  BY <1>5 DEF List, Range
<1>7. List' \subseteq { Listed[n] : n \in Stays }
  BY <1>6, FlushedListed
<1>8. List' \subseteq List
  BY <1>2, <1>7
<1>9. ASSUME NEW n \in Stays, First(After(n)) # NULL
      PROVE  First(After(n)) \in List /\ block[First(After(n))].pid < block[Listed[n]].pid
  <2>1. After(n) \in SUBSET Stays
    BY DEF After
  <2>2. PICK m \in After(n) : First(After(n)) = Listed[m]
    BY <1>9, <2>1, FirstOf
  <2>3. n < m /\ m \in Stays /\ Listed[m] # NULL
    BY <1>2, <1>n, <2>2 DEF After, Stays
  <2>4. block[Listed[m]].pid < block[Listed[n]].pid
    BY <1>1, <1>2, <2>3, Older
  <2> QED
    BY <1>2, <2>2, <2>3, <2>4
<1>10. ASSUME NEW b \in List'
       PROVE  /\ block'[b].pid \in Pids /\ Started(block'[b].pid)
              /\ block'[b].chan \in Channels
              /\ block'[b].next # NULL => block'[block'[b].next].pid < block'[b].pid
  <2>1. PICK n \in Stays : b = Listed[n]
    BY <1>7
  <2>2. b \in List /\ b \in Blocks /\ block'[b].next = First(After(n))
    BY <1>1, <1>2, <1>3, <2>1
  <2>3. block'[b].next # NULL => block'[block'[b].next].pid < block'[b].pid
    BY <1>1, <1>3, <1>9, <2>1, <2>2
  <2> QED
    BY <1>3, <2>2, <2>3 DEF Linked
<1>11. Linked'
  BY <1>10 DEF Linked, Started
<1>12. Ordered(Listed', block')
  <2> SUFFICES ASSUME NEW i \in 0..N, Listed'[i] # NULL
               PROVE  /\ Listed'[i] \in Blocks /\ block'[Listed'[i]].pid \in Nat
                      /\ block'[Listed'[i]].next # NULL
                           => block'[block'[Listed'[i]].next].pid < block'[Listed'[i]].pid
    BY DEF Ordered
  <2>1. Listed'[i] \in List'
    BY <1>6
  <2> QED
    BY <1>1, <1>8, <1>10, <2>1, AddressesAreNumbers
<1> QED
  BY <1>7, <1>8, <1>11, <1>12

(* And everything that stays is still there: going along the new list, a   *)
(* block has been passed or is still ahead.                                *)
LEMMA FlushedKeeps ==
  ASSUME Typed, Linked, block' = Flushed.block, head' = Flushed.first, kid' = kid,
         NEW n \in Stays
  PROVE  Listed[n] \in List'
<1>n. N \in Nat
  BY NumberOfBlocks
<1> DEFINE g == Listed'
           Passed(i) == \E j \in 0..i : g[j] = Listed[n]
           Ahead(i) == \E k \in Stays : g[i] = Listed[k] /\ k < n
           T == { i \in 0..N : ~(Passed(i) \/ Ahead(i)) }
<1>1. Along(g, block', head') /\ Ordered(g, block')
  BY ListedAlong, FlushedLinked DEF Listed
<1>2. List' = { g[i] : i \in 0..N } \ {NULL}
  BY <1>1 DEF Along, List, Range
<1> HIDE DEF g
<1>3. /\ head' = First(Stays)
      /\ \A m \in Stays : block'[Listed[m]].next = First(After(m))
  BY FlushedBlocks
<1>4. Stays \subseteq Nat /\ \A m \in Stays : Listed[m] # NULL
  <2>1. DOMAIN Listed = 0..N
    BY ListFacts DEF Along
  <2> QED
    BY <2>1, <1>n DEF Stays
<1>5. T = {}
  <2> SUFFICES ASSUME T # {} PROVE FALSE
    OBVIOUS
  <2>1. T \in SUBSET Nat
    OBVIOUS
  <2>2. PICK i \in T : \A m \in T : i <= m
    BY <2>1, NatMin
  <2>3. i \in 0..N /\ ~Passed(i) /\ ~Ahead(i)
    OBVIOUS
  <2>4. ASSUME NEW U \in SUBSET Stays, n \in U, g[i] = First(U)
        PROVE  FALSE
    <3>1. /\ Min(U) \in U /\ g[i] = Listed[Min(U)] /\ Min(U) <= n
      BY <2>4, FirstOf
    <3>2. Min(U) = n \/ Min(U) < n
      <4>1. Min(U) \in Nat /\ n \in Nat
        BY <3>1, <1>4
      <4> QED
        BY <3>1, <4>1
    <3>3. i \in 0..i
      BY <2>3, <1>n
    <3> QED
      BY <2>3, <3>1, <3>2, <3>3
  <2>5. i # 0
    <3> SUFFICES ASSUME i = 0 PROVE FALSE
      OBVIOUS
    <3>1. g[i] = First(Stays)
      BY <1>1, <1>3 DEF Along
    <3> QED
      BY <2>4, <3>1
  <2>6. i \in 1..N /\ i - 1 \in 0..N /\ i - 1 \notin T
    BY <2>2, <2>3, <2>5, <1>n
  <2>7. Passed(i - 1) \/ Ahead(i - 1)
    BY <2>6
  <2>8. ~Passed(i - 1)
    <3>1. 0..(i - 1) \subseteq 0..i
      BY <2>6, <1>n
    <3> QED
      BY <2>3, <3>1
  <2>9. PICK k \in Stays : g[i - 1] = Listed[k] /\ k < n
    BY <2>7, <2>8
  <2>10. g[i] = First(After(k))
    BY <1>1, <1>3, <1>4, <2>6, <2>9 DEF Along
  <2>11. After(k) \in SUBSET Stays /\ n \in After(k)
    BY <1>4, <2>9 DEF After
  <2> QED
    BY <2>4, <2>10, <2>11
<1>6. g[N] = NULL
  BY <1>1, Ends
<1>7. ~Ahead(N)
  BY <1>4, <1>6
<1>8. Passed(N)
  BY <1>5, <1>7, <1>n
<1> QED
  BY <1>2, <1>4, <1>8

LEMMA ListProcessesStep ==
  ASSUME Sound, ListProcesses
  PROVE  Sound'
<1>1. /\ Gives("list") /\ Done /\ head' = Flushed.first /\ block' = Flushed.block
      /\ UNCHANGED << cur, sel, kid, pty, sig, cbuf, text >>
  BY DEF ListProcesses, chans, kernel
<1>2. Typed /\ Linked /\ Owned /\ Ended /\ ~At("start", "allocated") /\ List \subseteq Blocks
  BY <1>1, InvParts, BelowFacts, ListFacts
<1>3. Quiet
  BY <1>1, QuietDone
<1>4. /\ block' \in [ Blocks -> Block ] /\ head' \in Addresses
      /\ \A b \in Blocks : /\ block'[b].pid = block[b].pid /\ block'[b].chan = block[b].chan
                           /\ block'[b].flag = block[b].flag
  BY <1>1, <1>2, FlushedBlocks
<1>5. Linked' /\ List' \subseteq List
  BY <1>1, <1>2, FlushedLinked
<1>6. Typed'
  BY <1>1, <1>2, <1>3, <1>4 DEF Typed, Quiet
<1>7. Owned'
  <2>1. \A b \in List' : /\ b \in List /\ block'[b].pid = block[b].pid
                         /\ block'[b].chan = block[b].chan
    BY <1>2, <1>4, <1>5
  <2> QED
    BY <1>1, <1>2, <2>1 DEF Owned, Started
<1>8. Ended'
  <2>1. \A b \in List' : b \in List /\ b \in Blocks
    BY <1>2, <1>5
  <2> QED
    BY <1>1, <1>2, <1>4, <2>1 DEF Ended
<1>9. CurrentIsActive'
  <2>1. CASE cur = NULL \/ cur \in sig.late
    BY <1>1, <2>1 DEF CurrentIsActive
  <2>2. CASE ~(cur = NULL \/ cur \in sig.late)
    <3>1. cur \in List /\ Active(block[cur].flag)
      BY <1>2, <2>2, InvParts DEF CurrentIsActive
    <3>2. PICK n \in DOMAIN Listed : Listed[n] = cur
      BY <3>1 DEF List, Range
    <3>3. n \in Stays
      BY <1>2, <2>2, <3>1, <3>2 DEF Stays
    <3>4. cur \in List'
      BY <1>1, <1>2, <3>2, <3>3, FlushedKeeps
    <3> QED
      BY <1>1, <1>2, <1>4, <3>1, <3>4 DEF CurrentIsActive
  <2> QED
    BY <2>1, <2>2
<1>10. Now' /\ Stacked(main)'
  BY <1>3, NothingToKeep DEF Quiet, Stacked, Waits, Fits
<1> QED
  BY <1>5, <1>6, <1>7, <1>8, <1>9, <1>10 DEF Sound

(***************************************************************************)
(* The invariant holds.                                                    *)
(***************************************************************************)
LEMMA InitInv ==
  ASSUME Init
  PROVE  Sound
<1>n. N \in Nat
  BY NumberOfBlocks
<1>1. /\ head = NULL /\ cur = NULL /\ sel = {} /\ main = << >> /\ cbuf = 0
      /\ block = [ b \in Blocks |-> [ next |-> NULL, pid |-> 0, flag |-> {}, chan |-> 0,
                                      out |-> "none", filter |-> FALSE, sent |-> FALSE ] ]
      /\ kid = [ q \in Pids |-> [ st |-> "none", wrote |-> 0, news |-> FALSE ] ]
      /\ pty = [ c \in Channels |-> Closed ]
      /\ text = [ q \in Pids |-> << >> ]
      /\ sig = [ pending |-> FALSE, held |-> FALSE, late |-> {} ]
  BY DEF Init
<1>2. block \in [ Blocks -> Block ] /\ \A b \in Blocks : block[b].flag = {}
  BY <1>1 DEF Block, Addresses
<1>3. kid \in [ Pids -> Kid ] /\ \A q \in Pids : ~Started(q)
  BY <1>1 DEF Kid, Started
<1>4. pty \in [ Channels -> Pty ] /\ \A c \in Channels : pty[c].pid = 0
  BY <1>1 DEF Pty, Closed
<1>5. text \in Texts
  BY <1>1 DEF Texts
<1>6. Typed
  <2>1. main \in Seq(Level) /\ head \in Addresses /\ cur \in Addresses /\ sel \in SUBSET Channels
        /\ cbuf \in Pids \cup {0}
    BY <1>1 DEF Addresses
  <2> QED
    BY <2>1, <1>2, <1>3, <1>4, <1>5 DEF Typed
<1>7. List = {}
  <2> DEFINE T == { n \in 0..N : Listed[n] # NULL }
  <2>1. Along(Listed, block, head)
    BY ListedAlong DEF Listed
  <2>2. T = {}
    <3> SUFFICES ASSUME T # {} PROVE FALSE
      OBVIOUS
    <3>1. T \in SUBSET Nat
      OBVIOUS
    <3>2. PICK n \in T : \A m \in T : n <= m
      BY <3>1, NatMin
    <3>3. n # 0
      BY <1>1, <2>1 DEF Along
    <3>4. n \in 1..N /\ n - 1 \in 0..N /\ n - 1 \notin T
      BY <3>2, <3>3, <1>n
    <3> QED
      BY <2>1, <3>4 DEF Along
  <2>3. DOMAIN Listed = 0..N
    BY <2>1 DEF Along
  <2> QED
    BY <2>2, <2>3 DEF List, Range
<1>8. Linked /\ Owned
  BY <1>3, <1>4, <1>7 DEF Linked, Owned
<1>9. Ended
  BY <1>1, <1>7 DEF Ended, Sigs
<1>10. Now /\ Stacked(main) /\ CurrentIsActive
  BY <1>1 DEF Now, Stacked, CurrentIsActive, At, In
<1> QED
  BY <1>6, <1>8, <1>9, <1>10 DEF Sound

LEMMA StutterStep ==
  ASSUME Sound, UNCHANGED vars
  PROVE  Sound'
<1>1. UNCHANGED << block, head, cur, sel, main, cbuf, text, kid, pty, sig >>
  BY DEF vars, list, chans, kernel, tty
<1>2. NothingNew /\ Handled
  BY <1>1, InvParts, SameHandled DEF NothingNew, Typed
<1> QED
  BY <1>1, <1>2, OutsideStep

LEMMA SoundStep ==
  ASSUME Sound, [Next]_vars
  PROVE  ProcessInv'
<1>1. CASE Filling
  BY <1>1, FillSteps, SelectStep, AgainStep, ReadOutputStep, CloseChannelStep, NextBlockStep,
     MsgsVisitStep, ReportStep, MsgsNextStep, ReturnSteps DEF Filling, ProcessInv
<1>2. CASE Ending
  BY <1>2, FilterEndStep, ReturnSteps DEF Ending, ProcessInv
<1>3. CASE Acting
  BY <1>3, CreateProcessStep, CreateTwiceStep, ActsStep, WaitSteps DEF Acting, ProcessInv
<1>4. CASE Command
  BY <1>4, TypesStep, StartProcessStep, ListProcessesStep, GetBufProcStep, AnswerStep, AwaitStep,
     ProcessOutputStep, ExecStep DEF Command, ProcessInv
<1>5. CASE Types \/ ChildSig \/ (\E q \in Pids : Child(q)) \/ GetKey
  BY <1>5, TypesStep, ChildSigStep, ChildSteps, GetKeyStep DEF ProcessInv
<1> QED
  BY <1>1, <1>2, <1>3, <1>4, <1>5, StutterStep DEF Next, ProcessInv

(* Nothing but children and the user goes on once the list is lost.        *)
LEMMA LostStep ==
  ASSUME Lost, [Next]_vars
  PROVE  /\ UNCHANGED << block, head, cur, main, text >>
         /\ sig' = sig \/ sig' = [sig EXCEPT !.pending = TRUE]
<1>1. main # << >> /\ Head(main).do = "start" /\ Head(main).pc = "lost"
  BY DEF Lost, At, In
<1>2. ~Filling
  BY <1>1 DEF Filling, FillTop, SelectFails, ReadKeys, ReturnKey, Select, ReadOutput, CloseChannel,
         NextBlock, ScanEnd, Again, MsgsVisit, Report, MsgsNext, MsgsEnd, Scans, At, In
<1>3. ~Ending /\ ~Acting
  BY <1>1 DEF Ending, FilterEnd, SentinelEnd, Acting, CreateProcess, CreateTwice, Acts, ReadPipeEnd,
         Forked, WaitForChild, Waiting, At, In
<1>4. ~Command /\ ~GetKey
  <2>1. ~Reads /\ ~Bound
    BY <1>1 DEF Reads, Bound, In
  <2> QED
    BY <1>1, <2>1 DEF Command, OtherKey, StartProcess, ListProcesses, GetBufProc, Answer,
         AwaitProcessInput, ProcessOutput, ExecBfp, ReturnToMonitor, Gives, GetKey, At, In
<1>5. ~ChildSig
  BY DEF ChildSig
<1>6. CASE Types \/ (\E q \in Pids : Child(q)) \/ UNCHANGED vars
  BY <1>6 DEF Types, Child, Writes, Exits, Detaches, Turns, Inside, vars, list, kernel
<1> QED
  BY <1>2, <1>3, <1>4, <1>5, <1>6 DEF Next

LEMMA LostStays ==
  ASSUME LostInv, [Next]_vars
  PROVE  LostInv'
<1>0. Lost /\ sig \in Sigs /\ CurrentIsActive
  BY DEF LostInv
<1>1. Lost'
  BY <1>0, LostStep DEF Lost, At, In
<1>2. ~At("start", "allocated")
  BY <1>0 DEF Lost, At
<1>3. sig' \in Sigs /\ sig'.late = sig.late
  BY <1>0, LostStep DEF Sigs
<1>4. List' = List /\ cur' = cur /\ block' = block
  BY <1>0, LostStep DEF List, Listed
<1>5. cur = NULL \/ cur \in sig.late \/ (cur \in List /\ Active(block[cur].flag))
  BY <1>0, <1>2 DEF CurrentIsActive
<1> QED
  BY <1>1, <1>3, <1>4, <1>5 DEF CurrentIsActive, LostInv

(* The inductive invariant, wherever SIGCHLD comes.                        *)
THEOREM ProcessInvariant == Spec => []ProcessInv
<1>1. Init => ProcessInv
  BY InitInv DEF ProcessInv
<1>2. ProcessInv /\ [Next]_vars => ProcessInv'
  BY SoundStep, LostStays DEF ProcessInv
<1> QED
  BY <1>1, <1>2, PTL DEF Spec

(* The process list ends and lists no block twice (flush_process,          *)
(* start_process: blocks are freed and allocated again at once), until the *)
(* handler has taken another process for the one start_process is about to *)
(* put on it (Lost).                                                       *)
THEOREM ListHasAnEnd == Spec => []ListEnds
<1>1. ProcessInv => ListEnds
  BY InvParts, ListEndsHere DEF ProcessInv, LostInv, ListEnds
<1> QED
  BY <1>1, ProcessInvariant, PTL

(* The current process is on the list and active (child_sig and            *)
(* get_next_process), but for the block start_process is about to fill in  *)
(* and what has died before change-current-process made it current.        *)
THEOREM CurrentStaysActive == Spec => []CurrentIsActive
<1>1. ProcessInv => CurrentIsActive
  BY InvParts DEF ProcessInv, LostInv
<1> QED
  BY <1>1, ProcessInvariant, PTL

(***************************************************************************)
(* Where output goes.                                                      *)
(***************************************************************************)
Astray(p) == \A b \in ToCome : block[b].pid # p

LEMMA OneText ==
  ASSUME Typed, NEW h, NEW s, NEW P, text' = [text EXCEPT ![h] = s],
         h \in Pids => Range(s) \subseteq Range(text[h]) \cup P
  PROVE  \A q \in Pids : \A p \in Range(text'[q]) \ Range(text[q]) : q = h /\ p \in P
<1>1. \A q \in Pids : text'[q] = IF q = h THEN s ELSE text[q]
  BY DEF Typed, Texts
<1> QED
  BY <1>1

LEMMA OutputStep ==
  ASSUME Sound, [Next]_vars
  PROVE  \A q \in Pids : \A p \in Range(text'[q]) \ Range(text[q]) : p \in {0, q} \/ Astray(p)
<1>1. Typed /\ Linked /\ Owned /\ Now
  BY InvParts
<1>2. \A q \in Pids : text[q] \in Seq(Nat)
  BY <1>1 DEF Typed, Texts
<1>3. CASE text' = text
  BY <1>3
<1>4. CASE ReadOutput
  <2>1. /\ Top.at \in Blocks /\ Chan \in Channels /\ cbuf' = pty[Chan].pid
        /\ (text' = text \/ text' = [text EXCEPT ![Home(Top.at)] = Truncated(Append(@, cbuf'))])
    BY <1>4, SeenFacts DEF ReadOutput
  <2>2. cbuf' = block[Top.at].pid \/ Astray(cbuf')
    BY <1>1, <2>1, ReadsOwn DEF Astray
  <2>3. cbuf' \in Nat
    BY <1>1, <2>1, AddressesAreNumbers DEF Typed, Pty
  <2> DEFINE h == Home(Top.at)
             s == Truncated(Append(text[h], cbuf'))
  <2>4. h \in Pids => Range(s) \subseteq Range(text[h]) \cup {cbuf'}
    <3> SUFFICES ASSUME h \in Pids PROVE Range(s) \subseteq Range(text[h]) \cup {cbuf'}
      OBVIOUS
    <3> DEFINE a == Append(text[h], cbuf')
    <3>1. a \in Seq(Nat) /\ Range(a) \subseteq Range(text[h]) \cup {cbuf'}
      BY <1>2, <2>3, AppendedFacts
    <3>2. Range(Truncated(a)) \subseteq Range(a)
      BY <3>1, TruncatedFacts
    <3> QED
      BY <3>1, <3>2
  <2>5. text' = text \/ text' = [text EXCEPT ![h] = s]
    BY <2>1
  <2>6. h = block[Top.at].pid
    BY DEF Home
  <2> HIDE DEF h, s
  <2>7. CASE text' = [text EXCEPT ![h] = s]
    <3>1. \A q \in Pids : \A p \in Range(text'[q]) \ Range(text[q]) : q = h /\ p \in {cbuf'}
      BY <1>1, <2>4, <2>7, OneText
    <3> QED
      BY <2>2, <2>6, <3>1
  <2> QED
    BY <1>3, <2>5, <2>7
<1>5. CASE FilterEnd
  <2> DEFINE h == Home(Top.at)
             s == Truncated(text[h])
  <2>1. text' = [text EXCEPT ![h] = s]
    BY <1>5 DEF FilterEnd
  <2>2. h \in Pids => Range(s) \subseteq Range(text[h]) \cup {}
    BY <1>2, TruncatedFacts
  <2> HIDE DEF h, s
  <2> QED
    BY <1>1, <2>1, <2>2, OneText
<1>6. CASE Report
  <2> DEFINE h == Home(Top.at)
             s == Append(text[h], 0)
  <2>1. text' = text \/ text' = [text EXCEPT ![h] = s]
    BY <1>6 DEF Report
  <2>2. h \in Pids => Range(s) \subseteq Range(text[h]) \cup {0}
    BY <1>2, AppendedFacts
  <2> HIDE DEF h, s
  <2> QED
    BY <1>1, <1>3, <2>1, <2>2, OneText
<1>7. CASE ProcessOutput
  <2> DEFINE h == Home(Top.at)
             s == Append(text[h], cbuf)
  <2>1. At("filter", "run") /\ text' = [text EXCEPT ![h] = s]
    BY <1>7 DEF ProcessOutput
  <2>2. cbuf \in Nat /\ (cbuf = block[Top.at].pid \/ Astray(cbuf))
    BY <1>1, <2>1, AddressesAreNumbers DEF Now, Astray, Typed
  <2>3. h \in Pids => Range(s) \subseteq Range(text[h]) \cup {cbuf}
    BY <1>2, <2>2, AppendedFacts
  <2>4. h = block[Top.at].pid
    BY DEF Home
  <2> HIDE DEF h, s
  <2> QED
    BY <1>1, <2>1, <2>2, <2>3, <2>4, OneText
<1>8. Filling => ReadOutput \/ Report \/ text' = text
  BY DEF Filling, FillTop, SelectFails, ReadKeys, ReturnKey, Select, CloseChannel, NextBlock,
         ScanEnd, Again, MsgsVisit, MsgsNext, MsgsEnd, tty
<1>9. Ending => FilterEnd \/ text' = text
  BY DEF Ending, SentinelEnd, tty
<1>10. Acting => text' = text
  BY DEF Acting, CreateProcess, CreateTwice, Acts, ReadPipeEnd, Forked, WaitForChild, tty
<1>11. Command => ProcessOutput \/ text' = text
  BY DEF Command, OtherKey, StartProcess, ListProcesses, GetBufProc, Answer, AwaitProcessInput,
         ExecBfp, ReturnToMonitor
<1>12. Types \/ ChildSig \/ (\E q \in Pids : Child(q)) \/ GetKey \/ UNCHANGED vars => text' = text
  BY DEF Types, ChildSig, Child, Writes, Exits, Detaches, Inside, GetKey, vars
<1> QED
  BY <1>3, <1>4, <1>5, <1>6, <1>7, <1>8, <1>9, <1>10, <1>11, <1>12 DEF Next

(* Output goes to the buffer of the process that wrote it, unless the block*)
(* of that process is not among those that fill_chan still comes to.       *)
THEOREM OutputGoesHome == Spec => OutputAtHome
<1>1. ProcessInv /\ [Next]_vars =>
        [ \A q \in Pids : \A p \in Range(text'[q]) \ Range(text[q]) :
            p \in {0, q} \/ \A b \in ToCome : block[b].pid # p ]_vars
  BY OutputStep, LostStep DEF Astray, ProcessInv, LostInv
<1> QED
  BY <1>1, ProcessInvariant, PTL DEF Spec, OutputAtHome
==============================================================================
