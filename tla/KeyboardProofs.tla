--------------------------- MODULE KeyboardProofs ----------------------------
(***************************************************************************)
(* Keyboard, for every set of tables, keys and bounds: the keyboard macro  *)
(* never outgrows its memory, an error ends everything that runs from      *)
(* macros, and the keys of a sequence run what describe-key gives for them.*)
(*                                                                         *)
(* A reader may return because it is not the last: the stack of readers    *)
(* always ends in the ProcessKeys of the editor.                           *)
(*                                                                         *)
(* The walk of ProcessKeys is compared with the way the keys lead down a   *)
(* map (Along): as long as the walk is sure, each of the two maps it is at *)
(* is where its keys lead from the local and the global map, or the empty  *)
(* map stands for a way that has ended.  A step that puts the next key     *)
(* into the walk goes on by one map in each; a command that may change the *)
(* tables, or the walk of the reader below, leaves a walk that is not sure.*)
(***************************************************************************)
EXTENDS Keyboard, DataFacts

(* Readers, the last of them the editor's. *)
Fields == {"kind", "pend", "over", "seq", "map"}
Readable(q) == /\ q \in Seq(Range(q)) /\ Len(q) > 0
               /\ \A i \in 1..Len(q) : Fields \subseteq DOMAIN q[i]
               /\ q[Len(q)].kind = "edit"

Has == {"stack", "used", "endOfMac", "ran", "walk", "typed", "interrupt", "err", "g", "l"}

(* A keyboard of which n is known: how many characters have been typed,    *)
(* which command keys have run last, and whether the walk may be sure.     *)
Room(s) == s.used \in 0 .. MemLen-1 /\ s.endOfMac \in 0 .. MemLen-1
Fine(s, n) == /\ Has \subseteq DOMAIN s /\ Room(s) /\ Readable(s.stack)
              /\ s.typed = n.typed /\ s.ran = n.ran
              /\ {"keys", "sure"} \subseteq DOMAIN s.walk /\ (s.walk.sure => n.sure)

Known(typed, ran, sure) == [typed |-> typed, ran |-> ran, sure |-> sure]

(* The walk with the keys q, down each of the two maps.  Where it has come *)
(* to its end in a map, the empty one may stand for it.                    *)
LocalOn(s, q)  == \/ s.l = Along(s, LocalMap(s), q)
                  \/ s.l = Null /\ Along(s, LocalMap(s), q) = None
GlobalOn(s, q) == \/ s.g # None /\ s.g \in {Along(s, s.global, q), Null}
                  \/ s.g = None /\ s.global = None

(* A key that begins or goes on with a local sequence has still to be      *)
(* looked up in the global map.                                            *)
OnTheWay(s) ==
  LET q == s.walk.keys
      p == s.stack[1].pend
  IN  /\ q \in Seq(Range(q)) /\ q # << >>
      /\ s.l # None /\ LocalOn(s, q)
      /\ IF p.stage = "global"
         THEN /\ p.key = Last(q) /\ GlobalOn(s, Front(q))
              /\ IsPrefixKey(s, LookupKeys(s, LocalMap(s), q))
         ELSE GlobalOn(s, q)

Walked(s) ==
  s.walk.sure => /\ Walks(s.stack[1]) /\ ~s.stack[1].over
                 /\ (s.g = None /\ s.l = None) \/ OnTheWay(s)

Told(s) == s.ran.sure => s.ran.cmd = s.ran.said

Now == Known(k.typed, k.ran, k.walk.sure)

IInv == Fine(k, Now) /\ k.typed \in Nat /\ Walked(k) /\ Told(k)

(***************************************************************************)
(* The stack of readers.                                                   *)
(***************************************************************************)
LEMMA InItsRange ==
  ASSUME NEW S, NEW q \in Seq(S)
  PROVE  q \in Seq(Range(q))
<1>1. q \in [1..Len(q) -> S] /\ Len(q) \in Nat
  BY LenProperties
<1>2. q \in [1..Len(q) -> Range(q)]
  BY <1>1 DEF Range
<1> QED
  BY <1>1, <1>2, SeqDef

LEMMA PushReader ==
  ASSUME NEW q, NEW f, Readable(q), Fields \subseteq DOMAIN f
  PROVE  Readable(<< f >> \o q)
<1> DEFINE S == Range(q) \union {f}
           r == << f >> \o q
<1>1. q \in Seq(S) /\ << f >> \in Seq(S) /\ Len(<< f >>) = 1 /\ Len(q) \in Nat
  BY DEF Readable
<1>2. r \in Seq(S) /\ Len(r) = 1 + Len(q)
  BY <1>1, ConcatProperties
<1>3. r[Len(r)] = q[Len(q)]
  BY <1>1, <1>2, ConcatProperties DEF Readable
<1>4. r \in Seq(Range(r))
  BY <1>2, InItsRange
<1>5. ASSUME NEW i \in 1..Len(r) PROVE Fields \subseteq DOMAIN r[i]
  <2>1. CASE i = 1
    BY <1>1, <2>1, ConcatProperties
  <2>2. CASE i # 1
    <3>1. i - 1 \in 1..Len(q) /\ r[i] = q[i - 1]
      BY <1>1, <1>2, <2>2, ConcatProperties
    <3> QED
      BY <3>1 DEF Readable
  <2> QED
    BY <2>1, <2>2
<1> QED
  BY <1>1, <1>2, <1>3, <1>4, <1>5 DEF Readable

LEMMA PopReader ==
  ASSUME NEW q, Readable(q), q[1].kind # "edit" \/ Len(q) > 1
  PROVE  Readable(Tail(q)) /\ Len(Tail(q)) = Len(q) - 1
<1> DEFINE S == Range(q)
           r == Tail(q)
<1>1. q \in Seq(S) /\ Len(q) \in Nat /\ q # << >> /\ Len(q) > 1
  BY DEF Readable
<1>2. r \in Seq(S) /\ Len(r) = Len(q) - 1 /\ r[Len(r)] = q[Len(q)]
  BY <1>1, HeadTailProperties
<1>3. r \in Seq(Range(r))
  BY <1>2, InItsRange
<1>4. ASSUME NEW i \in 1..Len(r) PROVE Fields \subseteq DOMAIN r[i]
  <2>1. i + 1 \in 1..Len(q) /\ r[i] = q[i + 1]
    BY <1>1, <1>2, HeadTailProperties
  <2> QED
    BY <2>1 DEF Readable
<1> QED
  BY <1>1, <1>2, <1>3, <1>4 DEF Readable

(* The reader that reads keeps its kind. *)
LEMMA ChangeReader ==
  ASSUME NEW q, NEW x, Readable(q),
         DOMAIN x = DOMAIN q[1], x.kind = q[1].kind
  PROVE  Readable([q EXCEPT ![1] = x]) /\ Len([q EXCEPT ![1] = x]) = Len(q)
<1> DEFINE S == Range(q) \union {x}
           r == [q EXCEPT ![1] = x]
<1>1. q \in Seq(S) /\ Len(q) \in Nat /\ 1 \in 1..Len(q)
  BY DEF Readable
<1>2. r \in Seq(S) /\ Len(r) = Len(q) /\ \A i \in 1..Len(q) : r[i] = IF i = 1 THEN x ELSE q[i]
  BY <1>1, ExceptSeq
<1>3. r \in Seq(Range(r))
  BY <1>2, InItsRange
<1>4. \A i \in 1..Len(r) : DOMAIN r[i] = DOMAIN q[i] /\ (i = Len(r) => r[i].kind = q[i].kind)
  BY <1>1, <1>2
<1> QED
  BY <1>1, <1>2, <1>3, <1>4 DEF Readable

(***************************************************************************)
(* Steps of the code.                                                      *)
(***************************************************************************)
LEMMA ErrorFine ==
  ASSUME NEW s, NEW n, Fine(s, n)
  PROVE  Fine(Error(s), n)
BY DEF Error, Fine, Has, Room

LEMMA FrameFields ==
  ASSUME NEW kind
  PROVE  Fields \subseteq DOMAIN Frame(kind)
BY DEF Fields, Frame

LEMMA EnterFine ==
  ASSUME NEW s, NEW n, NEW f, Fine(s, n), Fields \subseteq DOMAIN f
  PROVE  Fine(Push(s, f), n) /\ Fine(Enter(s, f), n)
<1>1. Readable(<< f >> \o s.stack)
  BY PushReader DEF Fine
<1>2. Fine(Push(s, f), n)
  BY <1>1 DEF Push, Fine, Has, Room
<1>3. Fine(Enter(s, f), n)
  BY <1>2 DEF Enter, Fine, Has, Room
<1> QED
  BY <1>2, <1>3

LEMMA PopFine ==
  ASSUME NEW s, NEW n, Fine(s, n), s.stack[1].kind # "edit" \/ Len(s.stack) > 1
  PROVE  Fine(Pop(s), n) /\ Len(Pop(s).stack) = Len(s.stack) - 1
<1>1. Readable(Tail(s.stack)) /\ Len(Tail(s.stack)) = Len(s.stack) - 1
  BY PopReader DEF Fine
<1> QED
  BY <1>1 DEF Pop, Fine, Has, Room

(* A change of the reader that reads. *)
LEMMA ReaderFine ==
  ASSUME NEW s, NEW n, Fine(s, n), NEW x,
         DOMAIN x = DOMAIN s.stack[1] /\ x.kind = s.stack[1].kind
  PROVE  LET t == [s EXCEPT !.stack = [@ EXCEPT ![1] = x]]
         IN  Fine(t, n) /\ Len(t.stack) = Len(s.stack)
<1>1. /\ Readable([s.stack EXCEPT ![1] = x])
      /\ Len([s.stack EXCEPT ![1] = x]) = Len(s.stack)
  BY ChangeReader DEF Fine
<1> QED
  BY <1>1 DEF Fine, Has, Room

(* Two keyboards with the same readers, macro memory and count of keys,    *)
(* and the same history of the walk.                                       *)
Same(s, t) == /\ DOMAIN t = DOMAIN s /\ t.stack = s.stack /\ t.typed = s.typed
              /\ t.used = s.used /\ t.endOfMac = s.endOfMac
              /\ t.walk = s.walk /\ t.ran = s.ran

LEMMA SameFine ==
  ASSUME NEW s, NEW n, NEW t, Fine(s, n), Same(s, t)
  PROVE  Fine(t, n)
BY DEF Fine, Same, Room

LEMMA LeaveLoopFine ==
  ASSUME NEW s, NEW n, Fine(s, n)
  PROVE  /\ Fine(LeaveLoop(s), n) /\ Len(LeaveLoop(s).stack) = Len(s.stack)
         /\ ~LeaveLoop(s).walk.sure
<1> DEFINE x == [s.stack[1] EXCEPT !.over = TRUE]
<1>1. DOMAIN x = DOMAIN s.stack[1] /\ x.kind = s.stack[1].kind
  OBVIOUS
<1> DEFINE t == [s EXCEPT !.stack = [@ EXCEPT ![1] = x]]
<1>2. LeaveLoop(s) = [t EXCEPT !.walk = [@ EXCEPT !.sure = FALSE]]
  BY DEF LeaveLoop
<1> HIDE DEF x
<1>3. Fine(t, n) /\ Len(t.stack) = Len(s.stack)
  BY <1>1, ReaderFine
<1> HIDE DEF t
<1>4. Fine([t EXCEPT !.walk = [@ EXCEPT !.sure = FALSE]], n)
  BY <1>3 DEF Fine, Has, Room
<1>5. ~LeaveLoop(s).walk.sure
  BY <1>2, <1>3 DEF Fine, Has
<1> QED
  BY <1>2, <1>3, <1>4, <1>5 DEF Fine, Has

LEMMA RememberFine ==
  ASSUME NEW s, NEW n, NEW c, Fine(s, n)
  PROVE  Fine(Remember(s, c), n)
<1> DEFINE mem == IF s.used < Len(s.keyMem) THEN [s.keyMem EXCEPT ![s.used + 1] = c]
                  ELSE Append(s.keyMem, c)
           put == [s EXCEPT !.used = @ + 1, !.keyMem = mem]
<1> HIDE DEF mem
<1>1. /\ Has \subseteq DOMAIN put /\ put.used = s.used + 1 /\ put.endOfMac = s.endOfMac
      /\ put.stack = s.stack /\ put.typed = s.typed /\ put.ran = s.ran /\ put.walk = s.walk
  BY DEF Fine, Has
<1> DEFINE gone == [Error(put) EXCEPT !.remembering = FALSE, !.used = 0, !.endOfMac = 0,
                                      !.keyMem = << >>]
<1>3. Fine(gone, n)
  <2>1. /\ Has \subseteq DOMAIN gone /\ gone.used = 0 /\ gone.endOfMac = 0
        /\ gone.stack = put.stack /\ gone.typed = put.typed
        /\ gone.ran = put.ran /\ gone.walk = put.walk
    BY <1>1 DEF Error, Has
  <2> QED
    BY <1>1, <2>1, SizesAssumption DEF Fine, Room
<1>4. Remember(s, c) = IF ~s.remembering THEN s ELSE IF put.used < MemLen THEN put ELSE gone
  BY DEF Remember, mem
<1> HIDE DEF put, gone
<1>5. put.used < MemLen => Fine(put, n)
  BY <1>1, SizesAssumption DEF Fine, Room
<1> QED
  BY <1>3, <1>4, <1>5

LEMMA RememberingFine ==
  ASSUME NEW s, NEW n, Fine(s, n)
  PROVE  Fine(StartRemembering(s), n) /\ Fine(StopRemembering(s), n)
<1> DEFINE b == Between(s)
           u == [s EXCEPT !.remembering = TRUE, !.used = 0, !.endOfMac = 0, !.log = << >>,
                          !.where = b]
<1>1. StartRemembering(s) = IF s.remembering THEN Error(s) ELSE u
  BY DEF StartRemembering
<1> HIDE DEF b
<1>a. Fine(u, n)
  BY SizesAssumption DEF Fine, Room, Has
<1> HIDE DEF u
<1>2. Fine(StartRemembering(s), n)
  BY <1>1, <1>a, ErrorFine
<1> DEFINE short == SubSeq(s.keyMem, 1, s.endOfMac)
           mac   == [cmds  |-> Front(s.log),
                     where |-> IF Between(s) = s.where THEN s.where ELSE NoWhere]
           t     == [s EXCEPT !.remembering = FALSE, !.keyMem = short, !.macro = mac]
<1>3. StopRemembering(s) = IF ~s.remembering THEN s ELSE t
  BY DEF StopRemembering
<1> HIDE DEF short, mac
<1>4. Fine(t, n)
  BY DEF Fine, Room, Has
<1> QED
  BY <1>2, <1>3, <1>4

(* What follows a command returns at once: it only marks the reader. *)
LEMMA AfterFine ==
  ASSUME NEW s, NEW n, NEW rv, Fine(s, n)
  PROVE  Fine(After(s, rv), n) /\ Len(After(s, rv).stack) = Len(s.stack)
<1> DEFINE p == s.stack[1].pend
           x == [s.stack[1] EXCEPT !.pend = NoPend]
           y == [s.stack[1] EXCEPT !.pend = [@ EXCEPT !.stage = "global"]]
           none == [s EXCEPT !.stack = [@ EXCEPT ![1] = x]]
           more == [s EXCEPT !.stack = [@ EXCEPT ![1] = y]]
<1>1. Fine(none, n) /\ Len(none.stack) = Len(s.stack)
  <2>1. DOMAIN x = DOMAIN s.stack[1] /\ x.kind = s.stack[1].kind
    OBVIOUS
  <2> HIDE DEF x
  <2> QED
    BY <2>1, ReaderFine
<1>2. Fine(more, n) /\ Len(more.stack) = Len(s.stack)
  <2>1. DOMAIN y = DOMAIN s.stack[1] /\ y.kind = s.stack[1].kind
    OBVIOUS
  <2> HIDE DEF y
  <2> QED
    BY <2>1, ReaderFine
<1>3. Fine(LocalAfter(s), n) /\ Len(LocalAfter(s).stack) = Len(s.stack)
  <2>1. LocalAfter(s) = IF s.l = None \/ s.g = None THEN [none EXCEPT !.g = None] ELSE more
    BY DEF LocalAfter
  <2>2. Same(none, [none EXCEPT !.g = None])
    BY DEF Same
  <2> HIDE DEF none, more
  <2> QED
    BY <1>1, <1>2, <2>1, <2>2, SameFine DEF Same
<1>4. \A local : Fine(GlobalAfter(s, local), n) /\ Len(GlobalAfter(s, local).stack) = Len(s.stack)
  <2> TAKE local
  <2> DEFINE t == GlobalAfter(s, local)
  <2>1. /\ DOMAIN t = DOMAIN s /\ t.used = s.used /\ t.endOfMac = s.endOfMac /\ t.typed = s.typed
        /\ t.walk = s.walk /\ t.ran = s.ran
    BY DEF GlobalAfter, Fine, Has
  <2>2. t.stack = none.stack
    BY DEF GlobalAfter, Fine, Has
  <2>3. DOMAIN none = DOMAIN s /\ none.used = s.used /\ none.endOfMac = s.endOfMac
        /\ none.typed = s.typed /\ none.walk = s.walk /\ none.ran = s.ran
    BY DEF Fine, Has
  <2>4. Same(none, t)
    BY <2>1, <2>2, <2>3 DEF Same
  <2> HIDE DEF t, none
  <2>5. Fine(t, n) /\ Len(t.stack) = Len(s.stack)
    BY <1>1, <2>2, <2>4, SameFine
  <2> QED
    BY <2>5 DEF t
<1>5. /\ Fine(LeaveLoop(s), n) /\ Len(LeaveLoop(s).stack) = Len(s.stack)
  BY LeaveLoopFine
<1> QED
  BY <1>3, <1>4, <1>5 DEF After

LEMMA CompleteFine ==
  ASSUME NEW s, NEW n, NEW rv, Fine(s, n)
  PROVE  Fine(Complete(s, rv), n) /\ Len(Complete(s, rv).stack) = Len(s.stack)
<1> DEFINE t == IF s.argState = "prepared" THEN s ELSE [s EXCEPT !.argState = "no", !.arg = 1]
<1>1. Same(s, t)
  BY DEF Same, Fine, Has
<1>2. Complete(s, rv) = After(t, rv)
  BY DEF Complete
<1> HIDE DEF t
<1>3. Fine(t, n) /\ t.stack = s.stack
  <2>1. Fine(t, n)
    BY <1>1, SameFine
  <2> QED
    BY <1>1, <2>1 DEF Same
<1>4. Fine(After(t, rv), n) /\ Len(After(t, rv).stack) = Len(t.stack)
  BY <1>3, AfterFine
<1> QED
  BY <1>2, <1>3, <1>4

LEMMA RoundsFine ==
  ASSUME NEW s, NEW n, NEW own, NEW left, Fine(s, n)
  PROVE  Fine(Rounds(s, own, left), n)
<1> DEFINE w == IF own = "KeyMem" THEN Where(s) ELSE s.from
           t == [s EXCEPT !.mem = [own |-> own, pos |-> 1], !.from = w]
           f == [Frame("macro") EXCEPT !.mem = s.mem, !.left = left, !.own = own, !.buf = s.buf]
<1>2. Rounds(s, own, left) = Enter(t, f)
  BY DEF Rounds
<1> HIDE DEF w
<1>1. Same(s, t)
  BY DEF Same, Fine, Has
<1>3. Fields \subseteq DOMAIN f
  BY FrameFields
<1> HIDE DEF t, f
<1> QED
  BY <1>1, <1>2, <1>3, SameFine, EnterFine

LEMMA ExecuteKeyboardMacroFine ==
  ASSUME NEW s, NEW n, Fine(s, n)
  PROVE  Fine(ExecuteKeyboardMacro(s), n)
<1> DEFINE t == [s EXCEPT !.executing = TRUE, !.arg = 0, !.argState = "no"]
<1>1. Same(s, t)
  BY DEF Same, Fine, Has
<1>2. Fine(Complete(Error(s), 0), n) /\ Fine(Complete(s, 0), n)
  BY ErrorFine, CompleteFine
<1> HIDE DEF t
<1>3. Fine(Rounds(t, "KeyMem", s.arg), n)
  BY <1>1, SameFine, RoundsFine
<1>4. ExecuteKeyboardMacro(s) \in {Complete(Error(s), 0), Complete(s, 0), Rounds(t, "KeyMem", s.arg)}
  BY DEF ExecuteKeyboardMacro, t
<1> QED
  BY <1>2, <1>3, <1>4

LEMMA AskFine ==
  ASSUME NEW s, NEW n, NEW kind, NEW cmd, NEW got, NEW map, Fine(s, n)
  PROVE  Fine(AskKey(s, cmd, got, map), n) /\ Fine(AskText(s, kind, cmd, got), n)
<1> DEFINE t == [s EXCEPT !.buf = "minibuf", !.text = << >>, !.argState = "no",
                          !.locals["minibuf"] = "minibuf map"]
           f == [Frame(kind) EXCEPT !.cmd = cmd, !.got = got, !.text = s.text, !.buf = s.buf,
                                    !.map = s.locals["minibuf"],
                                    !.arg = s.arg, !.argState = s.argState]
<1>1. Same(s, t)
  BY DEF Same, Fine, Has
<1>2. AskText(s, kind, cmd, got) = Enter(t, f)
  BY DEF AskText
<1>3. Fine(AskKey(s, cmd, got, map), n)
  BY EnterFine, FrameFields DEF AskKey
<1>4. Fields \subseteq DOMAIN f
  BY FrameFields
<1> HIDE DEF t, f
<1> QED
  BY <1>1, <1>2, <1>3, <1>4, SameFine, EnterFine

(***************************************************************************)
(* Tables.  What binds and defines names changes nothing else.             *)
(***************************************************************************)
LEMMA SameAgain ==
  ASSUME NEW s, NEW t, NEW u, Same(s, t), Same(t, u)
  PROVE  Same(s, u)
BY DEF Same

LEMMA NewMapSame ==
  ASSUME NEW s, Has \subseteq DOMAIN s
  PROVE  Same(s, NewMap(s).k)
<1> DEFINE m == CHOOSE m \in FreeMaps(s) : TRUE
           v == s.maps @@ (m :> NoKeys)
<1>1. NewMap(s).k \in {[s EXCEPT !.undefined = TRUE], [s EXCEPT !.maps = v]}
  BY DEF NewMap
<1> HIDE DEF v
<1> QED
  BY <1>1 DEF Same, Has

LEMMA DeepenSame ==
  ASSUME NEW s, NEW at, NEW c, Has \subseteq DOMAIN s
  PROVE  Same(s, Deepen([k |-> s, at |-> at], c).k)
<1> DEFINE w == [k |-> s, at |-> at]
           b == s.maps[at][c]
           id == NewMap(s).id
           made == NewMap(s).k
           t == [made EXCEPT !.maps[at][c] = id,
                             !.names = (id :> Name("key", << >>, id)) @@ @]
<1>2. Deepen(w, c).k = IF IsPrefixKey(s, b) THEN s ELSE t
  BY DEF Deepen
<1>3. Same(s, made)
  BY NewMapSame
<1>4. Same(made, t)
  <2> DEFINE v == [made.maps EXCEPT ![at] = [@ EXCEPT ![c] = id]]
             u == (id :> Name("key", << >>, id)) @@ made.names
  <2>1. t = [made EXCEPT !.maps = v, !.names = u]
    <3> HIDE DEF made, id
    <3> QED
      OBVIOUS
  <2>2. Has \subseteq DOMAIN made
    BY <1>3 DEF Same
  <2> HIDE DEF made, v, u
  <2> QED
    BY <2>1, <2>2 DEF Same, Has
<1>5. Same(s, s)
  BY DEF Same
<1> HIDE DEF made, t
<1> QED
  BY <1>2, <1>3, <1>4, <1>5, SameAgain

LEMMA InitializeLocalMapSame ==
  ASSUME NEW s, Has \subseteq DOMAIN s
  PROVE  Same(s, InitializeLocalMap(s))
<1>1. \A t : Has \subseteq DOMAIN t => \A c : Same(t, EmptyPrefix(t, c))
  BY DeepenSame DEF EmptyPrefix, Same
<1>2. Same(s, WithLocalMap(s))
  <2> DEFINE f == NewMap(s).k
             v == [f.locals EXCEPT ![s.buf] = NewMap(s).id]
  <2>1. WithLocalMap(s) = IF LocalMap(s) # None THEN s ELSE [f EXCEPT !.locals = v]
    BY DEF WithLocalMap
  <2>2. Same(s, f)
    BY NewMapSame
  <2> HIDE DEF f, v
  <2> QED
    BY <2>1, <2>2 DEF Same, Has
<1> DEFINE a == WithLocalMap(s)
           b == EmptyPrefix(a, Esc)
<1>3. InitializeLocalMap(s) = EmptyPrefix(b, CtlX)
  BY DEF InitializeLocalMap
<1> HIDE DEF a
<1>4. Same(a, b) /\ Has \subseteq DOMAIN b
  BY <1>1, <1>2 DEF Same, a
<1> HIDE DEF b
<1> QED
  BY <1>1, <1>2, <1>3, <1>4, SameAgain DEF a

LEMMA BindSame ==
  ASSUME NEW s, NEW map, NEW seq, NEW n, Has \subseteq DOMAIN s
  PROVE  /\ Same(s, PerformBind(s, map, seq, n))
         /\ Same(s, Unbind(s, map, seq))
         /\ Same(s, RemoveAllLocalBindings(s))
<1>1. Same(s, PerformBind(s, map, seq, n))
  <2> DEFINE f == CHOOSE f : f = [i \in 0..Len(seq) - 1 |->
                               IF i = 0 THEN [k |-> s, at |-> map] ELSE Deepen(f[i - 1], seq[i])]
             e == f[Len(seq) - 1]
             v == [e.k.maps EXCEPT ![e.at] = [@ EXCEPT ![Last(seq)] = n]]
             u == e.k.names
             b == e.k.undefined
  <2>1. PerformBind(s, map, seq, n) = [s EXCEPT !.maps = v, !.names = u, !.undefined = b]
    BY DEF PerformBind
  <2> HIDE DEF v, u, b
  <2> QED
    BY <2>1 DEF Same, Has
<1>2. Same(s, Unbind(s, map, seq))
  BY DEF Unbind, Same, Has
<1>3. Same(s, RemoveAllLocalBindings(s))
  BY DEF RemoveAllLocalBindings, Same, Has
<1> QED
  BY <1>1, <1>2, <1>3

LEMMA DefMacSame ==
  ASSUME NEW s, NEW n, NEW as, Has \subseteq DOMAIN s
  PROVE  Same(s, DefMac(s, n, as))
<1>1. Same(s, Unmapped(s, n))
  <2> DEFINE v == [b \in DOMAIN s.locals |-> IF s.locals[b] = s.names[n].map THEN None ELSE s.locals[b]]
  <2>1. Unmapped(s, n) = IF ~IsPrefixKey(s, n) THEN s ELSE [s EXCEPT !.locals = v, !.l = None, !.g = None]
    BY DEF Unmapped
  <2> HIDE DEF v
  <2> QED
    BY <2>1 DEF Same, Has
<1> DEFINE u == Unmapped(s, n)
           v == (n :> as) @@ u.names
           f == u.undefined \/ FreesUsed(s, n)
<1>2. DefMac(s, n, as) = [u EXCEPT !.names = v, !.undefined = f]
  BY DEF DefMac
<1> HIDE DEF u, v, f
<1>3. Has \subseteq DOMAIN u /\ Same(s, u)
  BY <1>1 DEF Same, u
<1>4. Same(u, DefMac(s, n, as))
  BY <1>2, <1>3 DEF Same, Has
<1> QED
  BY <1>3, <1>4, SameAgain

LEMMA DefineFine ==
  ASSUME NEW s, NEW n, NEW name, NEW what, NEW body, Fine(s, n)
  PROVE  Fine(Define(s, name, what, body), n)
<1>1. Fine([s EXCEPT !.err = TRUE, !.l = None, !.g = None], n)
  BY DEF Fine, Has, Room
<1>2. Fine(DefineKeymap(s, name), n)
  <2> DEFINE t == NewMap(s).k
             as == Name("key", << >>, NewMap(s).id)
  <2>1. DefineKeymap(s, name) = DefMac(t, name, as)
    BY DEF DefineKeymap
  <2> HIDE DEF as
  <2>2. Same(s, t) /\ Has \subseteq DOMAIN t
    BY NewMapSame DEF Same, Fine
  <2> HIDE DEF t
  <2> QED
    BY <2>1, <2>2, DefMacSame, SameFine
<1>3. \A as : Fine(DefMac(s, name, as), n)
  BY DefMacSame, SameFine DEF Fine
<1> QED
  BY <1>1, <1>2, <1>3 DEF Define

(***************************************************************************)
(* Commands and keys.                                                      *)
(***************************************************************************)
LEMMA RunProcFine ==
  ASSUME NEW s, NEW n, NEW cmd, Fine(s, n)
  PROVE  Fine(RunProc(s, cmd), n)
<1>1. /\ Fine(Complete(StartRemembering(s), 0), n)
      /\ Fine(Complete(StopRemembering(s), 0), n)
  BY RememberingFine, CompleteFine
<1>2. Fine(ExecuteKeyboardMacro(s), n)
  BY ExecuteKeyboardMacroFine
<1>3. Fine(RecursiveEdit(s), n)
  BY EnterFine, FrameFields DEF RecursiveEdit
<1>4. /\ Fine(Complete(s, -1), n) /\ Fine(Complete(s, 0), n)
      /\ Fine(Complete(Error(s), -1), n) /\ Fine(Complete(Error(s), 0), n)
  BY ErrorFine, CompleteFine
<1>5. Fine(Complete([s EXCEPT !.err = TRUE], 0), n)
  <2>1. Same(s, [s EXCEPT !.err = TRUE])
    BY DEF Same, Fine, Has
  <2> QED
    BY <2>1, SameFine, CompleteFine
<1>6. Fine(Complete(ArgumentPrefix(s), 0), n)
  <2>1. Same(s, ArgumentPrefix(s))
    BY DEF ArgumentPrefix, Same, Fine, Has
  <2> QED
    BY <2>1, SameFine, CompleteFine
<1>7. Fine(Push(s, [Frame("quote") EXCEPT !.cmd = cmd]), n)
  BY EnterFine, FrameFields
<1>8. \A got, map : Fine(AskKey(s, cmd, got, map), n)
  BY AskFine
<1>9. LET t == InitializeLocalMap(s) IN Fine(AskKey(t, cmd, << >>, LocalMap(t)), n)
  <2> DEFINE t == InitializeLocalMap(s)
  <2>1. Fine(t, n)
    BY InitializeLocalMapSame, SameFine DEF Fine
  <2> HIDE DEF t
  <2> QED
    BY <2>1, AskFine DEF t
<1>10. Fine(Complete(RemoveAllLocalBindings(s), 0), n)
  <2>1. Same(s, RemoveAllLocalBindings(s))
    BY BindSame DEF Fine
  <2>2. Fine(RemoveAllLocalBindings(s), n)
    BY <2>1, SameFine
  <2> QED
    BY <2>2, CompleteFine
<1>11. \A kind, got : Fine(AskText(s, kind, cmd, got), n)
  BY AskFine
<1>12. \A c : Fine(Complete(Insert(s, c), 0), n)
  <2>1. \A c : Same(s, Insert(s, c))
    BY DEF Insert, Same, Fine, Has
  <2> QED
    BY <2>1, SameFine, CompleteFine
<1> QED
  BY <1>1, <1>2, <1>3, <1>4, <1>5, <1>6, <1>7, <1>8, <1>9, <1>10, <1>11, <1>12 DEF RunProc

LEMMA RunNameFine ==
  ASSUME NEW s, NEW n, NEW name, Fine(s, n)
  PROVE  Fine(RunName(s, name), n)
<1> DEFINE t == Loaded(s, name)
<1>1. Fine(t, n)
  BY DefMacSame, SameFine DEF Loaded, Fine
<1>2. Fine(RunProc(s, name), n) /\ Fine(Complete(s, 0), n)
  BY RunProcFine, CompleteFine
<1>3. Fine(Rounds(s, name, s.arg), n)
  BY RoundsFine
<1> HIDE DEF t
<1>4. Fine(Rounds(t, name, t.arg), n)
  BY <1>1, RoundsFine
<1>5. Fine(Complete(Error([t EXCEPT !.arg = 0, !.argState = "no"]), 0), n)
  <2>1. Same(t, [t EXCEPT !.arg = 0, !.argState = "no"])
    BY <1>1 DEF Same, Fine, Has
  <2> QED
    BY <1>1, <2>1, SameFine, ErrorFine, CompleteFine
<1> QED
  BY <1>1, <1>2, <1>3, <1>4, <1>5 DEF RunName, t

(* What is known of the keyboard when the keys have led to a name.         *)
Meant(s, n, name) == IF IsPrefixKey(s, name) THEN n
                     ELSE Known(n.typed, Noted(s, name).ran, n.sure /\ name \in Plain)

LEMMA NotedFine ==
  ASSUME NEW s, NEW n, NEW name, Fine(s, n)
  PROVE  Fine(Noted(s, name), Meant(s, n, name))
<1>1. CASE IsPrefixKey(s, name)
  BY <1>1 DEF Noted, Meant
<1>2. CASE ~IsPrefixKey(s, name)
  <2> DEFINE said == DescribeKey(s, s.walk.keys)
             r == [cmd |-> name, said |-> said, sure |-> s.walk.sure /\ ~IsPrefixKey(s, said)]
             w == [s.walk EXCEPT !.sure = @ /\ name \in Plain]
             l == IF s.remembering THEN Append(s.log, name) ELSE s.log
             p == IF Playing(s) THEN Append(s.play, name) ELSE s.play
             t == [s EXCEPT !.ran = r, !.walk = w, !.log = l, !.play = p]
  <2>1. Noted(s, name) = t
    BY <1>2 DEF Noted
  <2>2. {"keys", "sure"} \subseteq DOMAIN w /\ (w.sure => n.sure /\ name \in Plain)
    BY DEF Fine
  <2> HIDE DEF said, r, w, l, p
  <2>3. /\ DOMAIN t = DOMAIN s /\ t.stack = s.stack /\ t.typed = s.typed
        /\ t.used = s.used /\ t.endOfMac = s.endOfMac /\ t.walk = w /\ t.ran = r
    BY DEF Fine, Has
  <2> HIDE DEF t
  <2>4. Fine(t, Known(n.typed, r, n.sure /\ name \in Plain))
    BY <2>2, <2>3 DEF Fine, Known, Room
  <2>5. t.ran = r
    BY <2>3
  <2> QED
    BY <1>2, <2>1, <2>4, <2>5 DEF Meant
<1> QED
  BY <1>1, <1>2

LEMMA ExecuteBoundFine ==
  ASSUME NEW s, NEW n, NEW name, Fine(s, n)
  PROVE  Fine(ExecuteBound(s, name), Meant(s, n, name))
<1> DEFINE a == Noted(s, name)
           m == Meant(s, n, name)
           t == ArgReady(a)
           u == [t EXCEPT !.l = t.names[name].map]
<1>2. Fine(a, m)
  BY NotedFine
<1> HIDE DEF a, m
<1>3. Same(a, t)
  BY <1>2 DEF ArgReady, Same, Fine, Has
<1>4. Fine(t, m)
  BY <1>2, <1>3, SameFine
<1>5. ExecuteBound(s, name) = IF IsPrefixKey(t, name) THEN After(u, 0) ELSE RunName(t, name)
  BY DEF ExecuteBound, a
<1> HIDE DEF t
<1>6. Same(t, u)
  BY <1>4 DEF Same, Fine, Has
<1> HIDE DEF u
<1>7. Fine(u, m)
  BY <1>4, <1>6, SameFine
<1>8. Fine(After(u, 0), m) /\ Fine(RunName(t, name), m)
  BY <1>4, <1>7, AfterFine, RunNameFine
<1> QED
  BY <1>5, <1>8 DEF m

(* What is left to do with a key is written in the reader. *)
LEMMA PendingFine ==
  ASSUME NEW s, NEW n, NEW p, Fine(s, n)
  PROVE  /\ Fine([s EXCEPT !.stack[1].pend = p], n)
         /\ Fine([s EXCEPT !.l = None, !.stack[1].pend = p], n)
         /\ Fine([s EXCEPT !.g = None, !.l = None, !.stack[1].pend = p], n)
<1> DEFINE x == [s.stack[1] EXCEPT !.pend = p]
           t == [s EXCEPT !.stack = [@ EXCEPT ![1] = x]]
<1>1. DOMAIN x = DOMAIN s.stack[1] /\ x.kind = s.stack[1].kind
  OBVIOUS
<1>2. t = [s EXCEPT !.stack[1].pend = p]
  OBVIOUS
<1>3. [s EXCEPT !.l = None, !.stack[1].pend = p] = [t EXCEPT !.l = None]
  OBVIOUS
<1>4. [s EXCEPT !.g = None, !.l = None, !.stack[1].pend = p] = [t EXCEPT !.g = None, !.l = None]
  OBVIOUS
<1> HIDE DEF x
<1>5. Fine(t, n)
  BY <1>1, ReaderFine
<1> HIDE DEF t
<1>6. Same(t, [t EXCEPT !.l = None]) /\ Same(t, [t EXCEPT !.g = None, !.l = None])
  BY <1>5 DEF Same, Fine, Has
<1> QED
  BY <1>2, <1>3, <1>4, <1>5, <1>6, SameFine

(* A key may run a command; it types nothing. *)
Keeps(s, n) == \E m : m.typed = n.typed /\ Fine(s, m)

LEMMA StageFine ==
  ASSUME NEW s, NEW n, NEW c, Fine(s, n)
  PROVE  Keeps(GlobalStage(s, c), n) /\ Keeps(LocalStage(s, c), n)
<1>1. ASSUME NEW u, NEW name, Fine(u, n) PROVE Keeps(ExecuteBound(u, name), n)
  <2>1. Meant(u, n, name).typed = n.typed
    BY DEF Meant, Known
  <2> QED
    BY <1>1, <2>1, ExecuteBoundFine DEF Keeps
<1>2. ASSUME NEW u, Fine(u, n) PROVE Keeps(GlobalStage(u, c), n)
  <2> DEFINE name == BoundTo(u, u.g, c)
             p == [stage |-> "run", key |-> c, local |-> u.l]
             t == [u EXCEPT !.g = None, !.l = None, !.stack[1].pend = p]
             x == [t EXCEPT !.err = TRUE, !.stack[1].pend = NoPend]
             y == [t EXCEPT !.l = u.l, !.g = Null, !.stack[1].pend = NoPend]
  <2>1. GlobalStage(u, c) = IF name = None THEN IF u.l = None THEN x ELSE y
                            ELSE ExecuteBound(t, name)
    BY DEF GlobalStage
  <2> HIDE DEF p, name
  <2>2. Fine(t, n)
    BY <1>2, PendingFine
  <2> HIDE DEF t
  <2> DEFINE q == [t EXCEPT !.stack[1].pend = NoPend]
  <2>3. Fine(q, n)
    BY <2>2, PendingFine
  <2>4. x = [q EXCEPT !.err = TRUE] /\ y = [q EXCEPT !.l = u.l, !.g = Null]
    OBVIOUS
  <2> HIDE DEF q, x, y
  <2>5. Same(q, x) /\ Same(q, y)
    BY <2>3, <2>4 DEF Same, Fine, Has
  <2>6. Fine(x, n) /\ Fine(y, n)
    BY <2>3, <2>5, SameFine
  <2>7. Keeps(x, n) /\ Keeps(y, n) /\ Keeps(ExecuteBound(t, name), n)
    BY <1>1, <2>2, <2>6 DEF Keeps
  <2> QED
    BY <2>1, <2>7
<1> DEFINE name == BoundTo(s, s.l, c)
           p == [stage |-> "local", key |-> c, local |-> None]
           t == [s EXCEPT !.l = None, !.stack[1].pend = p]
<1>3. LocalStage(s, c) = IF name = None THEN GlobalStage(t, c) ELSE ExecuteBound(t, name)
  BY DEF LocalStage
<1> HIDE DEF name, p
<1>4. Fine(t, n)
  BY PendingFine
<1> HIDE DEF t
<1> QED
  BY <1>1, <1>2, <1>3, <1>4

(***************************************************************************)
(* Answers.                                                                *)
(***************************************************************************)
LEMMA ExtendedCommandFine ==
  ASSUME NEW s, NEW n, NEW name, Fine(s, n)
  PROVE  Fine(ExtendedCommand(s, name), n)
<1> DEFINE t == ArgReady(s)
           u == [t EXCEPT !.l = t.names[name].map]
<1>1. Same(s, t)
  BY DEF ArgReady, Same, Fine, Has
<1>2. Fine(t, n)
  BY <1>1, SameFine
<1>3. ExtendedCommand(s, name) = IF IsPrefixKey(t, name) THEN Complete(u, 0) ELSE RunName(t, name)
  BY DEF ExtendedCommand
<1> HIDE DEF t
<1>4. Same(t, u)
  BY <1>2 DEF Same, Fine, Has
<1> QED
  BY <1>2, <1>3, <1>4, SameFine, CompleteFine, RunNameFine

LEMMA UseMapFine ==
  ASSUME NEW s, NEW n, NEW name, NEW use, Fine(s, n), Same(s, use)
  PROVE  Fine(Complete(UseMap(s, name, use), 0), n)
<1>1. Same(use, [use EXCEPT !.l = None, !.g = None])
  BY DEF Same, Fine, Has
<1>2. Fine(use, n)
  BY SameFine
<1>3. Fine([use EXCEPT !.l = None, !.g = None], n)
  BY <1>1, <1>2, SameFine
<1>4. Fine(UseMap(s, name, use), n)
  BY <1>3, ErrorFine DEF UseMap
<1> QED
  BY <1>4, CompleteFine

LEMMA ResumeFine ==
  ASSUME NEW s, NEW n, NEW cmd, NEW got, Fine(s, n)
  PROVE  Fine(Resume(s, cmd, got), n)
<1>1. Fine(ExtendedCommand(s, got[1]), n)
  BY ExtendedCommandFine
<1>2. \A map : Fine(AskKey(s, cmd, got, map), n)
  BY AskFine
<1>3. LET t == InitializeLocalMap(s) IN Fine(AskKey(t, cmd, got, LocalMap(t)), n)
  <2> DEFINE t == InitializeLocalMap(s)
  <2>1. Fine(t, n)
    BY InitializeLocalMapSame, SameFine DEF Fine
  <2> HIDE DEF t
  <2> QED
    BY <2>1, AskFine DEF t
<1>4. /\ \A map, seq, name : Fine(Complete(PerformBind(s, map, seq, name), 0), n)
      /\ \A map, seq : Fine(Complete(Unbind(s, map, seq), 0), n)
  <2>1. ASSUME NEW t, Same(s, t) PROVE Fine(Complete(t, 0), n)
    <3>1. Fine(t, n)
      BY <2>1, SameFine
    <3> QED
      BY <3>1, CompleteFine
  <2>2. Has \subseteq DOMAIN s
    BY DEF Fine
  <2> QED
    BY <2>1, <2>2, BindSame
<1>5. \A name, what, body : Fine(Define(s, name, what, body), n)
  BY DefineFine
<1>6. \A name, what, body : Fine(Complete(Define(s, name, what, body), 0), n)
  BY <1>5, CompleteFine
<1>7. \A name, what, body : Fine(Complete([Define(s, name, what, body) EXCEPT !.used = 0], 0), n)
  <2>1. \A d : Fine(d, n) => Fine([d EXCEPT !.used = 0], n)
    BY SizesAssumption DEF Fine, Has, Room
  <2> QED
    BY <1>5, <2>1, CompleteFine
<1>8. Fine(Complete(UseMap(s, got[1], [s EXCEPT !.global = s.names[got[1]].map]), 0), n)
  <2> DEFINE use == [s EXCEPT !.global = s.names[got[1]].map]
  <2>1. Same(s, use)
    BY DEF Same, Fine, Has
  <2> HIDE DEF use
  <2> QED
    BY <2>1, UseMapFine DEF use
<1>9. Fine(Complete(UseMap(s, got[1], [s EXCEPT !.locals[s.buf] = s.names[got[1]].map]), 0), n)
  <2> DEFINE use == [s EXCEPT !.locals[s.buf] = s.names[got[1]].map]
  <2>1. Same(s, use)
    BY DEF Same, Fine, Has
  <2> HIDE DEF use
  <2> QED
    BY <2>1, UseMapFine DEF use
<1>10. \A kind : Fine(AskText(s, kind, cmd, got), n)
  BY AskFine
<1>11. Fine(Complete(IF Len(s.pushed) >= MaxPushBack THEN Error([s EXCEPT !.pushed = << >>])
                     ELSE [s EXCEPT !.pushed = Append(@, Head(got[1]))], 0), n)
  <2> DEFINE t == [s EXCEPT !.pushed = << >>]
             u == [s EXCEPT !.pushed = Append(@, Head(got[1]))]
  <2>1. Same(s, t) /\ Same(s, u)
    BY DEF Same, Fine, Has
  <2> HIDE DEF t, u
  <2>2. Fine(Complete(Error(t), 0), n) /\ Fine(Complete(u, 0), n)
    BY <2>1, SameFine, ErrorFine, CompleteFine
  <2> QED
    BY <2>2 DEF t, u
<1> QED
  BY <1>1, <1>2, <1>3, <1>4, <1>6, <1>7, <1>8, <1>9, <1>10, <1>11
     DEF Resume, BindToKey, LocalBindToKey, RemoveBinding, RemoveLocalBinding

LEMMA FeedKeyFine ==
  ASSUME NEW s, NEW n, NEW c, Fine(s, n), s.stack[1].kind = "key"
  PROVE  Fine(FeedKey(s, c), n)
<1> DEFINE f    == s.stack[1]
           seq  == Append(f.seq, c)
           next == Down(s, f.map, c)
           t    == [s EXCEPT !.undefined = TRUE]
           u    == [s EXCEPT !.stack[1].seq = seq, !.stack[1].map = next]
<1>1. Fine(Pop(s), n)
  BY PopFine
<1>2. Fine(Complete(Error(Pop(s)), 0), n)
  BY <1>1, ErrorFine, CompleteFine
<1>3. Fine(t, n)
  <2>1. Same(s, t)
    BY DEF Same, Fine, Has
  <2> QED
    BY <2>1, SameFine
<1>4. \A q, m : Fine([s EXCEPT !.stack[1].seq = q, !.stack[1].map = m], n)
  <2> TAKE q, m
  <2> DEFINE x == [s.stack[1] EXCEPT !.seq = q, !.map = m]
  <2>1. [s EXCEPT !.stack[1].seq = q, !.stack[1].map = m] = [s EXCEPT !.stack = [@ EXCEPT ![1] = x]]
    OBVIOUS
  <2>2. DOMAIN x = DOMAIN s.stack[1] /\ x.kind = s.stack[1].kind
    OBVIOUS
  <2> HIDE DEF x
  <2> QED
    BY <2>1, <2>2, ReaderFine
<1>5. Fine(u, n)
  BY <1>4
<1>6. Fine(Resume(Pop(s), f.cmd, Append(f.got, seq)), n)
  BY <1>1, ResumeFine
<1> QED
  BY <1>2, <1>3, <1>5, <1>6 DEF FeedKey

(* What a reader does with a key that is not for the walk.                 *)
LEMMA FeedElseFine ==
  ASSUME NEW s, NEW n, NEW c, Fine(s, n), ~Walks(s.stack[1]) \/ c = EOT
  PROVE  Fine(Feed(s, c), n)
<1> DEFINE f == s.stack[1]
<1>1. CASE f.kind = "key"
  BY <1>1, FeedKeyFine DEF Feed
<1>2. CASE f.kind = "quote"
  <2>1. Fine(Pop(s), n)
    BY <1>2, PopFine
  <2>2. Same(Pop(s), Insert(Pop(s), c))
    BY <2>1 DEF Insert, Same, Fine, Has
  <2>3. Fine(Complete(Insert(Pop(s), c), 0), n)
    BY <2>1, <2>2, SameFine, CompleteFine
  <2> QED
    BY <1>2, <2>3 DEF Feed
<1>3. CASE f.kind \notin {"key", "quote"} /\ c = EOT
  BY <1>3, LeaveLoopFine DEF Feed
<1> QED
  BY <1>1, <1>2, <1>3 DEF Walks

LEMMA FeedWalk ==
  ASSUME NEW s, NEW c, Walks(s.stack[1]), c # EOT
  PROVE  Feed(s, c) = LocalStage(Walking(s, c), c)
<1>1. s.stack[1].kind # "key" /\ s.stack[1].kind # "quote"
  BY DEF Walks
<1> QED
  BY <1>1 DEF Feed

LEMMA WalkingFine ==
  ASSUME NEW s, NEW n, NEW c, Fine(s, n)
  PROVE  Fine(Walking(s, c), Known(n.typed, n.ran, TRUE))
<1> DEFINE w == Walk(s, c)
           g == IF s.g = None THEN s.global ELSE s.g
           l == IF s.l = None THEN LocalMap(s) ELSE s.l
           t == [s EXCEPT !.walk = w, !.g = g, !.l = l]
<1>1. {"keys", "sure"} \subseteq DOMAIN w
  BY DEF Walk, Fine
<1>2. Walking(s, c) = t
  BY DEF Walking
<1> HIDE DEF w, g, l
<1>3. /\ DOMAIN t = DOMAIN s /\ t.stack = s.stack /\ t.typed = s.typed
      /\ t.used = s.used /\ t.endOfMac = s.endOfMac /\ t.walk = w /\ t.ran = s.ran
  BY DEF Fine, Has
<1> HIDE DEF t
<1>4. Fine(t, Known(n.typed, n.ran, TRUE))
  BY <1>1, <1>3 DEF Fine, Known, Room
<1> QED
  BY <1>2, <1>4

LEMMA FeedFine ==
  ASSUME NEW s, NEW n, NEW c, Fine(s, n)
  PROVE  Keeps(Feed(s, c), n)
<1>1. CASE ~Walks(s.stack[1]) \/ c = EOT
  BY <1>1, FeedElseFine DEF Keeps
<1>2. CASE Walks(s.stack[1]) /\ c # EOT
  <2> DEFINE m == Known(n.typed, n.ran, TRUE)
  <2>1. m.typed = n.typed
    BY DEF Known
  <2> HIDE DEF m
  <2>2. Keeps(LocalStage(Walking(s, c), c), m)
    BY WalkingFine, StageFine DEF m
  <2> QED
    BY <1>2, <2>1, <2>2, FeedWalk DEF Keeps
<1> QED
  BY <1>1, <1>2

(***************************************************************************)
(* The walk down a map.                                                    *)
(***************************************************************************)
Going(s, map, q, f) ==
  f = [i \in 0..Len(q) |-> IF i = 0 THEN map ELSE Down(s, f[i - 1], q[i])]

(* The recursive function of Along exists: its first n + 1 values do, for  *)
(* each n.                                                                 *)
LEMMA AlongGoes ==
  ASSUME NEW S, NEW q \in Seq(S), NEW s, NEW map
  PROVE  \E f : Going(s, map, q, f) /\ Along(s, map, q) = f[Len(q)]
<1> DEFINE n == Len(q)
           Part(f, j) == f = [i \in 0..n |-> IF i = 0 \/ i > j THEN map
                                             ELSE Down(s, f[i - 1], q[i])]
           T == {j \in 0..n : ~ \E f : Part(f, j)}
<1>0. n \in Nat
  OBVIOUS
<1> HIDE DEF n
<1>1. T = {}
  <2> SUFFICES ASSUME T # {} PROVE FALSE
    OBVIOUS
  <2>1. T \in SUBSET Nat
    BY <1>0
  <2>2. PICK j \in T : \A m \in T : j <= m
    BY <2>1, NatMin
  <2>3. j \in 0..n /\ ~ \E f : Part(f, j)
    OBVIOUS
  <2>4. j # 0
    <3> DEFINE f == [i \in 0..n |-> map]
    <3>1. Part(f, 0)
      BY <1>0
    <3> QED
      BY <2>3, <3>1
  <2>5. j - 1 \in 0..n /\ j - 1 \in Nat
    BY <1>0, <2>3, <2>4
  <2>6. j - 1 \notin T
    <3> HIDE DEF T
    <3> QED
      BY <2>1, <2>2, <2>5
  <2>7. PICK f : Part(f, j - 1)
    <3> HIDE DEF Part
    <3> QED
      BY <2>5, <2>6
  <2> DEFINE g == [i \in 0..n |-> IF i = j THEN Down(s, f[j - 1], q[j]) ELSE f[i]]
  <2>8. Part(g, j)
    <3>1. \A i \in 0..n : i > 0 /\ i <= j => g[i - 1] = f[i - 1]
      BY <1>0, <2>3
    <3>2. \A i \in 0..n : f[i] = IF i = 0 \/ i > j - 1 THEN map ELSE Down(s, f[i - 1], q[i])
      BY <2>7
    <3>3. ASSUME NEW i \in 0..n
          PROVE  g[i] = IF i = 0 \/ i > j THEN map ELSE Down(s, g[i - 1], q[i])
      <4>1. CASE i = 0
        BY <1>0, <2>3, <2>4, <3>2, <4>1
      <4>2. CASE i > j
        BY <1>0, <2>3, <2>4, <3>2, <4>2
      <4>3. CASE i = j
        BY <1>0, <2>3, <2>4, <3>1, <4>3
      <4>4. CASE i > 0 /\ i < j
        BY <1>0, <2>3, <3>1, <3>2, <4>4
      <4> QED
        BY <1>0, <2>3, <4>1, <4>2, <4>3, <4>4
    <3> HIDE DEF g
    <3>4. g = [i \in 0..n |-> g[i]]
      BY DEF g
    <3> QED
      BY <3>3, <3>4
  <2> QED
    BY <2>3, <2>8
<1>2. PICK f : Part(f, n)
  <2>1. n \in 0..n /\ n \notin T
    <3> HIDE DEF T
    <3> QED
      BY <1>0, <1>1
  <2> HIDE DEF Part
  <2> QED
    BY <2>1
<1>3. Going(s, map, q, f)
  <2>1. \A i \in 0..n : ~(i > n)
    BY <1>0
  <2> QED
    BY <1>2, <2>1 DEF Going, n
<1> DEFINE at == CHOOSE h : h = [i \in 0..Len(q) |-> IF i = 0 THEN map
                                                     ELSE Down(s, h[i - 1], q[i])]
<1>4. Going(s, map, q, at)
  BY <1>3 DEF Going
<1>5. Along(s, map, q) = at[Len(q)]
  BY DEF Along
<1> QED
  BY <1>4, <1>5

(* As long as the keys and what is behind them are the same, so is the way. *)
LEMMA SameWay ==
  ASSUME NEW S, NEW q \in Seq(S), NEW r \in Seq(S), NEW s, NEW t, NEW map, NEW f, NEW g,
         Going(s, map, q, f), Going(t, map, r, g), Len(q) <= Len(r),
         \A i \in 1..Len(q) : q[i] = r[i], \A m, c : Down(s, m, c) = Down(t, m, c)
  PROVE  f[Len(q)] = g[Len(q)]
<1> DEFINE n == Len(q)
           T == {i \in 0..n : f[i] # g[i]}
<1>0. n \in Nat /\ Len(r) \in Nat /\ n <= Len(r)
  OBVIOUS
<1>1. /\ \A i \in 0..n : f[i] = IF i = 0 THEN map ELSE Down(s, f[i - 1], q[i])
      /\ \A i \in 0..Len(r) : g[i] = IF i = 0 THEN map ELSE Down(t, g[i - 1], r[i])
  BY DEF Going
<1>2. \A i \in 0..n : g[i] = IF i = 0 THEN map ELSE Down(s, g[i - 1], q[i])
  <2> TAKE i \in 0..n
  <2>1. i \in 0..Len(r) /\ (i = 0 \/ i \in 1..n)
    BY <1>0
  <2> QED
    BY <1>1, <2>1
<1> HIDE DEF n
<1>3. CASE T = {}
  BY <1>0, <1>3 DEF n
<1>4. CASE T # {}
  <2>1. T \in SUBSET Nat
    BY <1>0
  <2>2. PICK i \in T : \A m \in T : i <= m
    BY <1>4, <2>1, NatMin
  <2>3. i \in 0..n /\ f[i] # g[i]
    OBVIOUS
  <2>4. i # 0
    BY <1>0, <1>1, <1>2, <2>3
  <2>5. i - 1 \in 0..n /\ i - 1 \notin T
    <3>1. i - 1 \in 0..n /\ i - 1 \in Nat /\ ~(i <= i - 1)
      BY <1>0, <2>3, <2>4
    <3> QED
      BY <2>2, <3>1
  <2>6. f[i - 1] = g[i - 1]
    BY <2>5
  <2> QED
    BY <1>1, <1>2, <2>3, <2>4, <2>6
<1> QED
  BY <1>3, <1>4

LEMMA AlongAppend ==
  ASSUME NEW S, NEW q \in Seq(S), NEW s, NEW map, NEW c
  PROVE  /\ Along(s, map, Append(q, c)) = Down(s, Along(s, map, q), c)
         /\ LookupKeys(s, map, Append(q, c)) = BoundTo(s, Along(s, map, q), c)
         /\ Front(Append(q, c)) = q /\ Last(Append(q, c)) = c
         /\ Append(q, c) \in Seq(Range(Append(q, c))) /\ Append(q, c) # << >>
<1> DEFINE U == S \union {c}
           r == Append(q, c)
           n == Len(q)
<1>1. /\ q \in Seq(U) /\ c \in U /\ n \in Nat
  OBVIOUS
<1>2. /\ r \in Seq(U) /\ Len(r) = n + 1 /\ r[n + 1] = c
      /\ \A i \in 1..n : r[i] = q[i]
  BY <1>1, AppendProperties
<1>3. Front(r) = q /\ Last(r) = c
  BY <1>1 DEF Front, Last
<1> HIDE DEF U, r, n
<1>4. r \in Seq(Range(r)) /\ r # << >>
  <2>1. r \in Seq(Range(r))
    BY <1>2, InItsRange
  <2> QED
    BY <1>1, <1>2, <2>1
<1>5. PICK f : Going(s, map, q, f) /\ Along(s, map, q) = f[n]
  BY <1>1, AlongGoes DEF n
<1>6. PICK g : Going(s, map, r, g) /\ Along(s, map, r) = g[n + 1]
  BY <1>2, AlongGoes
<1>7. f[n] = g[n]
  BY <1>1, <1>2, <1>5, <1>6, SameWay DEF n
<1>8. g[n + 1] = Down(s, g[n], c)
  BY <1>1, <1>2, <1>6 DEF Going
<1> QED
  BY <1>3, <1>4, <1>5, <1>6, <1>7, <1>8 DEF LookupKeys, r

LEMMA AlongOne ==
  ASSUME NEW s, NEW map, NEW c
  PROVE  /\ Along(s, map, << >>) = map
         /\ << c >> \in Seq(Range(<< c >>)) /\ << c >> # << >>
         /\ Front(<< c >>) = << >> /\ Last(<< c >>) = c
         /\ << c >> = Append(<< >>, c) /\ << >> \in Seq({c})
<1>1. << >> \in Seq({c}) /\ << c >> = Append(<< >>, c)
  OBVIOUS
<1> DEFINE e == << >>
<1> HIDE DEF e
<1>a. e \in Seq({c}) /\ Len(e) = 0
  BY DEF e
<1>2. PICK f : Going(s, map, e, f) /\ Along(s, map, e) = f[Len(e)]
  BY <1>a, AlongGoes
<1>3. f[0] = map /\ Along(s, map, << >>) = f[0]
  BY <1>2, <1>a DEF Going, e
<1> QED
  BY <1>1, <1>2, <1>3, AlongAppend

(* Two keyboards with the same tables. *)
SameTables(s, t) == /\ t.maps = s.maps /\ t.names = s.names /\ t.global = s.global
                    /\ t.locals = s.locals /\ t.buf = s.buf

LEMMA SameLooks ==
  ASSUME NEW S, NEW q \in Seq(S), NEW s, NEW t, SameTables(s, t)
  PROVE  /\ \A n : IsPrefixKey(t, n) = IsPrefixKey(s, n)
         /\ LocalMap(t) = LocalMap(s) /\ t.global = s.global
         /\ \A map : Along(t, map, q) = Along(s, map, q)
         /\ \A map, c : BoundTo(t, map, c) = BoundTo(s, map, c)
<1>1. \A n : IsPrefixKey(t, n) = IsPrefixKey(s, n)
  BY DEF SameTables, IsPrefixKey, Kind
<1>2. LocalMap(t) = LocalMap(s) /\ t.global = s.global
  BY DEF SameTables, LocalMap
<1>3. \A map, c : BoundTo(t, map, c) = BoundTo(s, map, c)
  BY DEF SameTables, BoundTo
<1>4. \A m, c : Down(s, m, c) = Down(t, m, c)
  BY <1>1, <1>3 DEF Down, SameTables
<1>5. ASSUME NEW map PROVE Along(t, map, q) = Along(s, map, q)
  <2>1. PICK f : Going(s, map, q, f) /\ Along(s, map, q) = f[Len(q)]
    BY AlongGoes
  <2>2. PICK g : Going(t, map, q, g) /\ Along(t, map, q) = g[Len(q)]
    BY AlongGoes
  <2>3. Len(q) <= Len(q)
    OBVIOUS
  <2> QED
    BY <1>4, <2>1, <2>2, <2>3, SameWay
<1> QED
  BY <1>1, <1>2, <1>3, <1>5

(***************************************************************************)
(* What the keys find.                                                     *)
(***************************************************************************)
(* The reader, with a key still to be looked up. *)
Marked(s, t, p) == /\ t.stack[1].pend = p
                   /\ t.stack[1].kind = s.stack[1].kind /\ t.stack[1].over = s.stack[1].over

LEMMA MarkReader ==
  ASSUME NEW s, NEW n, NEW p, Fine(s, n)
  PROVE  /\ Marked(s, [s EXCEPT !.stack[1].pend = p], p)
         /\ "pend" \in DOMAIN s.stack[1] /\ 1 \in DOMAIN s.stack
<1>1. 1 \in DOMAIN s.stack /\ Fields \subseteq DOMAIN s.stack[1] /\ "stack" \in DOMAIN s
  BY DEF Fine, Has, Readable
<1> QED
  BY <1>1 DEF Marked, Fields

LEMMA ArgReadySame ==
  ASSUME NEW s
  PROVE  LET t == ArgReady(s)
         IN  /\ SameTables(s, t) /\ t.stack = s.stack /\ t.walk = s.walk /\ t.ran = s.ran
             /\ t.g = s.g /\ t.l = s.l /\ DOMAIN t = DOMAIN s
BY DEF ArgReady, SameTables

(* A command that does nothing to the tables or the walk. *)
LEMMA PlainRuns ==
  ASSUME NEW s, NEW n, NEW name \in Plain, Fine(s, n), s.l = None,
         s.stack[1].pend.stage \in {"local", "run"},
         s.stack[1].pend.stage = "local" => s.stack[1].pend.local = None
  PROVE  LET r == ExecuteBound(s, name)
             local == s.stack[1].pend.local
         IN  /\ SameTables(s, r) /\ Marked(s, r, NoPend) /\ r.walk.keys = s.walk.keys
             /\ r.ran = Noted(s, name).ran
             /\ r.l = local /\ r.g = IF local # None THEN Null ELSE None
<1> DEFINE a == Noted(s, name)
           b == ArgReady(a)
           p == s.stack[1].pend
           r == ExecuteBound(s, name)
<1>1. name \in Wired
  BY DEF Wired
<1>2. \A t : ~IsPrefixKey(t, name) /\ Kind(t, name) = "proc"
  BY <1>1 DEF IsPrefixKey, Kind
<1>3. /\ SameTables(s, a) /\ a.stack = s.stack /\ a.walk.keys = s.walk.keys
      /\ a.g = s.g /\ a.l = s.l
  BY <1>2 DEF Noted, SameTables
<1>4. Fine(a, Meant(s, n, name))
  BY NotedFine
<1> HIDE DEF a
<1>5. /\ SameTables(a, b) /\ b.stack = a.stack /\ b.walk = a.walk /\ b.ran = a.ran
      /\ b.g = a.g /\ b.l = a.l /\ DOMAIN b = DOMAIN a
  BY ArgReadySame
<1>6. r = RunProc(b, name)
  BY <1>2 DEF ExecuteBound, RunName, a
<1> HIDE DEF b
<1>7. Fine(b, Meant(s, n, name))
  <2>1. Same(a, b)
    BY <1>4, <1>5 DEF ArgReady, Same, Fine, Has, b
  <2> QED
    BY <1>4, <2>1, SameFine
<1>8. \E c : r \in {Complete(b, 0), Complete(Insert(b, c), 0)}
  BY <1>6 DEF RunProc, Plain, FirstQuestion
<1>9. PICK c : r \in {Complete(b, 0), Complete(Insert(b, c), 0)}
  BY <1>8
<1>10. PICK d \in {b, Insert(b, c)} : r = Complete(d, 0)
  BY <1>9
<1>11. /\ SameTables(b, d) /\ d.stack = b.stack /\ d.walk = b.walk /\ d.ran = b.ran
       /\ d.g = b.g /\ d.l = b.l /\ DOMAIN d = DOMAIN b
  <2> DEFINE v == Append(b.text, c)
  <2>1. d \in {b, [b EXCEPT !.text = v]}
    BY DEF Insert
  <2> HIDE DEF v
  <2>2. CASE d = b
    BY <2>2 DEF SameTables
  <2>3. CASE d = [b EXCEPT !.text = v]
    BY <2>3 DEF SameTables
  <2> QED
    BY <2>1, <2>2, <2>3
<1> DEFINE e == IF d.argState = "prepared" THEN d ELSE [d EXCEPT !.argState = "no", !.arg = 1]
<1>12. /\ SameTables(d, e) /\ e.stack = d.stack /\ e.walk = d.walk /\ e.ran = d.ran
       /\ e.g = d.g /\ e.l = d.l /\ DOMAIN e = DOMAIN d
  BY DEF SameTables
<1>13. r = After(e, 0)
  BY <1>10 DEF Complete
<1> HIDE DEF e
<1>14. /\ SameTables(s, e) /\ e.stack = s.stack /\ e.walk.keys = s.walk.keys /\ e.ran = a.ran
       /\ e.l = None /\ Has \subseteq DOMAIN e
  BY <1>3, <1>5, <1>7, <1>11, <1>12 DEF SameTables, Fine
<1>15. p.stage = "local" => r = [e EXCEPT !.g = None, !.stack[1].pend = NoPend]
  BY <1>13, <1>14 DEF After, LocalAfter
<1>16. p.stage = "run" => r = [e EXCEPT !.g = IF p.local # None THEN Null ELSE None,
                                        !.l = p.local, !.stack[1].pend = NoPend]
  BY <1>13, <1>14 DEF After, GlobalAfter
<1>17. \E g, l : /\ r = [e EXCEPT !.g = g, !.l = l, !.stack[1].pend = NoPend]
                 /\ l = p.local /\ g = IF p.local # None THEN Null ELSE None
  <2>1. CASE p.stage = "local"
    <3>1. [e EXCEPT !.g = None, !.stack[1].pend = NoPend]
          = [e EXCEPT !.g = None, !.l = None, !.stack[1].pend = NoPend]
      BY <1>14
    <3> QED
      BY <1>15, <2>1, <3>1
  <2>2. CASE p.stage = "run"
    BY <1>16, <2>2
  <2> QED
    BY <2>1, <2>2
<1>18. PICK g, l : /\ r = [e EXCEPT !.g = g, !.l = l, !.stack[1].pend = NoPend]
                   /\ l = p.local /\ g = IF p.local # None THEN Null ELSE None
  BY <1>17
<1>19. 1 \in DOMAIN s.stack /\ "pend" \in DOMAIN s.stack[1]
  BY MarkReader
<1>20. Marked(s, r, NoPend)
  BY <1>14, <1>18, <1>19 DEF Marked, Has
<1>21. /\ SameTables(e, r) /\ r.walk = e.walk /\ r.ran = e.ran /\ r.l = l /\ r.g = g
  BY <1>14, <1>18 DEF SameTables, Has
<1> QED
  BY <1>14, <1>18, <1>20, <1>21 DEF SameTables, a

(* A key map: the walk goes on in it. *)
LEMMA PrefixRuns ==
  ASSUME NEW s, NEW n, NEW name, Fine(s, n), IsPrefixKey(s, name),
         s.stack[1].pend.stage \in {"local", "run"}
  PROVE  LET r == ExecuteBound(s, name)
             p == s.stack[1].pend
             m == s.names[name].map
         IN  /\ SameTables(s, r) /\ r.walk = s.walk /\ r.ran = s.ran
             /\ p.stage = "run" =>
                  /\ Marked(s, r, NoPend)
                  /\ r.g = IF m # None THEN m ELSE IF p.local # None THEN Null ELSE None
                  /\ r.l = IF m # None /\ p.local = None THEN Null ELSE p.local
             /\ p.stage = "local" /\ (m = None \/ s.g = None) =>
                  Marked(s, r, NoPend) /\ r.g = None /\ r.l = m
             /\ p.stage = "local" /\ m # None /\ s.g # None =>
                  Marked(s, r, [p EXCEPT !.stage = "global"]) /\ r.g = s.g /\ r.l = m
<1> DEFINE t == ArgReady(s)
           m == s.names[name].map
           p == s.stack[1].pend
           u == [t EXCEPT !.l = m]
           r == ExecuteBound(s, name)
<1>1. Noted(s, name) = s
  BY DEF Noted
<1>2. /\ SameTables(s, t) /\ t.stack = s.stack /\ t.walk = s.walk /\ t.ran = s.ran
      /\ t.g = s.g /\ t.l = s.l /\ DOMAIN t = DOMAIN s
  BY ArgReadySame
<1>3. IsPrefixKey(t, name) /\ t.names[name].map = m
  BY <1>2 DEF IsPrefixKey, Kind, SameTables
<1>4. r = After(u, 0)
  BY <1>1, <1>3 DEF ExecuteBound
<1> HIDE DEF t
<1>5. /\ SameTables(s, u) /\ u.stack = s.stack /\ u.walk = s.walk /\ u.ran = s.ran
      /\ u.g = s.g /\ u.l = m /\ Has \subseteq DOMAIN u
  BY <1>2 DEF SameTables, Fine, Has
<1> HIDE DEF u, m
<1>6. 1 \in DOMAIN s.stack /\ "pend" \in DOMAIN s.stack[1]
  BY MarkReader
<1>7. CASE p.stage = "run"
  <2> DEFINE g == IF m # None THEN m ELSE IF p.local # None THEN Null ELSE None
             l == IF m # None /\ p.local = None THEN Null ELSE p.local
  <2>1. r = [u EXCEPT !.g = g, !.l = l, !.stack[1].pend = NoPend]
    BY <1>4, <1>5, <1>7 DEF After, GlobalAfter
  <2> HIDE DEF g, l
  <2>2. Marked(s, r, NoPend)
    BY <1>5, <1>6, <2>1 DEF Marked, Has
  <2>3. SameTables(u, r) /\ r.walk = u.walk /\ r.ran = u.ran /\ r.g = g /\ r.l = l
    BY <1>5, <2>1 DEF SameTables, Has
  <2> QED
    BY <1>5, <1>7, <2>2, <2>3 DEF SameTables, m, g, l
<1>8. CASE p.stage = "local" /\ (m = None \/ s.g = None)
  <2>1. r = [u EXCEPT !.g = None, !.stack[1].pend = NoPend]
    BY <1>4, <1>5, <1>8 DEF After, LocalAfter
  <2>2. Marked(s, r, NoPend)
    BY <1>5, <1>6, <2>1 DEF Marked, Has
  <2>3. SameTables(u, r) /\ r.walk = u.walk /\ r.ran = u.ran /\ r.g = None /\ r.l = u.l
    BY <1>5, <2>1 DEF SameTables, Has
  <2> QED
    BY <1>5, <1>8, <2>2, <2>3 DEF SameTables, m
<1>9. CASE p.stage = "local" /\ m # None /\ s.g # None
  <2> DEFINE v == [p EXCEPT !.stage = "global"]
  <2>1. r = [u EXCEPT !.stack[1].pend.stage = "global"]
    BY <1>4, <1>5, <1>9 DEF After, LocalAfter
  <2>2. r = [u EXCEPT !.stack[1].pend = v]
    BY <1>5, <2>1
  <2> HIDE DEF v
  <2>3. Marked(s, r, v)
    BY <1>5, <1>6, <2>2 DEF Marked, Has
  <2>4. SameTables(u, r) /\ r.walk = u.walk /\ r.ran = u.ran /\ r.g = u.g /\ r.l = u.l
    BY <1>5, <2>2 DEF SameTables, Has
  <2> QED
    BY <1>5, <1>9, <2>3, <2>4 DEF SameTables, m, v
<1> QED
  BY <1>7, <1>8, <1>9

LEMMA NoNameNoPrefix ==
  ASSUME NEW s
  PROVE  ~IsPrefixKey(s, None)
BY DEF IsPrefixKey, Kind, None

Right(s) == Walked(s) /\ Told(s)

LEMMA RightSame ==
  ASSUME NEW s, NEW t, Right(s), SameTables(s, t), t.stack = s.stack, t.walk = s.walk,
         t.ran = s.ran, (t.g = None /\ t.l = None) \/ (t.g = s.g /\ t.l = s.l)
  PROVE  Right(t)
<1>1. Told(t)
  BY DEF Right, Told
<1>2. ASSUME OnTheWay(s), t.g = s.g, t.l = s.l PROVE OnTheWay(t)
  <2> DEFINE q == s.walk.keys
  <2> HIDE DEF q
  <2>1. q \in Seq(Range(q)) /\ q # << >> /\ Front(q) \in Seq(Range(q))
    BY <1>2 DEF OnTheWay, Front, q
  <2>2. LocalMap(t) = LocalMap(s) /\ t.global = s.global
    BY <2>1, SameLooks
  <2>3. \A map : Along(t, map, q) = Along(s, map, q)
    BY <2>1, SameLooks
  <2>4. \A map : Along(t, map, Front(q)) = Along(s, map, Front(q))
    BY <2>1, SameLooks
  <2>5. \A map, c : BoundTo(t, map, c) = BoundTo(s, map, c)
    BY <2>1, SameLooks
  <2>6. \A n : IsPrefixKey(t, n) = IsPrefixKey(s, n)
    BY <2>1, SameLooks
  <2>7. LookupKeys(t, LocalMap(t), q) = LookupKeys(s, LocalMap(s), q)
    BY <2>2, <2>4, <2>5 DEF LookupKeys
  <2>8. LocalOn(s, q) => LocalOn(t, q)
    BY <1>2, <2>2, <2>3 DEF LocalOn
  <2>9. GlobalOn(s, q) => GlobalOn(t, q)
    BY <1>2, <2>2, <2>3 DEF GlobalOn
  <2>10. GlobalOn(s, Front(q)) => GlobalOn(t, Front(q))
    BY <1>2, <2>2, <2>4 DEF GlobalOn
  <2> QED
    BY <1>2, <2>6, <2>7, <2>8, <2>9, <2>10 DEF OnTheWay, q
<1>3. Walked(t)
  BY <1>2 DEF Right, Walked
<1> QED
  BY <1>1, <1>3 DEF Right

(* A command.  The way in the local map that it leaves is the one that     *)
(* was noted with the key.                                                 *)
LEMMA CommandRight ==
  ASSUME NEW s, NEW n, NEW name, Fine(s, n), ~IsPrefixKey(s, name), s.l = None,
         s.stack[1].pend.stage \in {"local", "run"},
         s.stack[1].pend.stage = "local" => s.stack[1].pend.local = None,
         Walks(s.stack[1]), ~s.stack[1].over, Told(Noted(s, name)),
         LET q == s.walk.keys
             local == s.stack[1].pend.local
         IN  /\ q \in Seq(Range(q)) /\ q # << >>
             /\ local # None => \/ local = Along(s, LocalMap(s), q)
                                \/ local = Null /\ Along(s, LocalMap(s), q) = None
  PROVE  Right(ExecuteBound(s, name))
<1> DEFINE r == ExecuteBound(s, name)
           q == s.walk.keys
           local == s.stack[1].pend.local
<1>1. Fine(r, Meant(s, n, name))
  BY ExecuteBoundFine
<1> HIDE DEF r
<1>2. r.ran = Noted(s, name).ran /\ (r.walk.sure => name \in Plain)
  BY <1>1 DEF Fine, Meant, Known
<1>3. Told(r)
  BY <1>2 DEF Told
<1>4. CASE name \notin Plain
  BY <1>2, <1>3, <1>4 DEF Right, Walked, r
<1>5. CASE name \in Plain
  <2>1. /\ SameTables(s, r) /\ Marked(s, r, NoPend) /\ r.walk.keys = q
        /\ r.l = local /\ r.g = IF local # None THEN Null ELSE None
    BY <1>5, PlainRuns DEF r
  <2>2. Walks(r.stack[1]) /\ ~r.stack[1].over /\ r.stack[1].pend = NoPend
    BY <2>1 DEF Walks, Marked
  <2>3. NoPend.stage # "global" /\ Null # None
    BY DEF NoPend, None, Null
  <2> HIDE DEF local, q
  <2>4. q \in Seq(Range(q)) /\ q # << >>
    BY DEF q, local
  <2>5. LocalMap(r) = LocalMap(s) /\ Along(r, LocalMap(s), q) = Along(s, LocalMap(s), q)
    BY <2>1, <2>4, SameLooks
  <2>6. local # None => LocalOn(r, q)
    BY <2>1, <2>5 DEF LocalOn, q, local
  <2>7. local # None => GlobalOn(r, q)
    BY <2>1, <2>3 DEF GlobalOn
  <2>8. local # None => OnTheWay(r)
    BY <2>1, <2>2, <2>3, <2>4, <2>6, <2>7 DEF OnTheWay
  <2>9. Walked(r)
    BY <2>1, <2>2, <2>8 DEF Walked
  <2> QED
    BY <1>3, <2>9 DEF Right, r
<1> QED
  BY <1>4, <1>5

(* Before a walk that is not known to be one, and after it. *)
Unsure(s) == ~s.walk.sure /\ Told(s)

LEMMA UnsureRight ==
  ASSUME NEW s, Unsure(s)
  PROVE  Right(s)
BY DEF Unsure, Right, Walked

LEMMA UnsureRuns ==
  ASSUME NEW s, NEW n, NEW name, Fine(s, n), Unsure(s)
  PROVE  Unsure(ExecuteBound(s, name))
<1> DEFINE m == Known(s.typed, s.ran, FALSE)
           r == ExecuteBound(s, name)
<1>1. Fine(s, m)
  BY DEF Fine, Known, Unsure
<1>2. Fine(r, Meant(s, m, name))
  BY <1>1, ExecuteBoundFine
<1> HIDE DEF r
<1>3. ~r.walk.sure
  BY <1>2 DEF Fine, Meant, Known
<1>4. CASE IsPrefixKey(s, name)
  <2>1. r.ran = s.ran
    BY <1>2, <1>4 DEF Fine, Meant, Known
  <2> QED
    BY <1>3, <2>1 DEF Unsure, Told, r
<1>5. CASE ~IsPrefixKey(s, name)
  <2>1. r.ran = Noted(s, name).ran
    BY <1>2, <1>5 DEF Fine, Meant, Known
  <2>2. ~Noted(s, name).ran.sure
    <3> DEFINE said == DescribeKey(s, s.walk.keys)
               b == s.walk.sure /\ ~IsPrefixKey(s, said)
    <3>1. "ran" \in DOMAIN s
      BY DEF Fine, Has
    <3>2. Noted(s, name).ran = [cmd |-> name, said |-> said, sure |-> b]
      BY <1>5, <3>1 DEF Noted
    <3>3. ~b
      BY DEF Unsure
    <3> HIDE DEF b, said
    <3> QED
      BY <3>2, <3>3
  <2> QED
    BY <1>3, <2>1, <2>2 DEF Unsure, Told, r
<1> QED
  BY <1>4, <1>5

(* What the key c after q0 finds in the local map is what describe-key     *)
(* would find there; when it finds nothing, the way there is at its end.   *)
LEMMA LocalLooks ==
  ASSUME NEW S, NEW q0 \in Seq(S), NEW s, NEW c, LocalOn(s, q0)
  PROVE  LET q == Append(q0, c)
             name == BoundTo(s, s.l, c)
         IN  /\ LookupKeys(s, LocalMap(s), q) = name
             /\ name = None => Along(s, LocalMap(s), q) = None
             /\ name # None => /\ s.l = Along(s, LocalMap(s), q0)
                               /\ Along(s, LocalMap(s), q) = Down(s, s.l, c)
<1> DEFINE q == Append(q0, c)
           map == LocalMap(s)
<1>1. /\ Along(s, map, q) = Down(s, Along(s, map, q0), c)
      /\ LookupKeys(s, map, q) = BoundTo(s, Along(s, map, q0), c)
  BY AlongAppend
<1> HIDE DEF q, map
<1>2. BoundTo(s, None, c) = None /\ BoundTo(s, Null, c) = None
  BY DEF BoundTo
<1>3. \A m : BoundTo(s, m, c) = None => Down(s, m, c) = None
  BY NoNameNoPrefix DEF Down
<1>4. \/ s.l = Along(s, map, q0)
      \/ s.l = Null /\ Along(s, map, q0) = None
  BY DEF LocalOn, map
<1> QED
  BY <1>1, <1>2, <1>3, <1>4 DEF q, map

LEMMA GlobalRight ==
  ASSUME NEW S, NEW q0 \in Seq(S), NEW s, NEW n, NEW c, Fine(s, n), s.walk.sure, Told(s),
         s.walk.keys = Append(q0, c), Walks(s.stack[1]), ~s.stack[1].over, GlobalOn(s, q0),
         LET q == s.walk.keys
             found == LookupKeys(s, LocalMap(s), q)
         IN  /\ s.l = None => found = None /\ Along(s, LocalMap(s), q) = None
             /\ s.l # None => LocalOn(s, q) /\ IsPrefixKey(s, found)
  PROVE  Right(GlobalStage(s, c))
<1> DEFINE q == Append(q0, c)
           p == [stage |-> "run", key |-> c, local |-> s.l]
           name == BoundTo(s, s.g, c)
           map == LocalMap(s)
           t == [s EXCEPT !.g = None, !.l = None, !.stack[1].pend = p]
           x == [t EXCEPT !.err = TRUE, !.stack[1].pend = NoPend]
           y == [t EXCEPT !.l = s.l, !.g = Null, !.stack[1].pend = NoPend]
<1>1. GlobalStage(s, c) = IF name = None THEN IF s.l = None THEN x ELSE y ELSE ExecuteBound(t, name)
  BY DEF GlobalStage
<1>2. /\ Front(q) = q0 /\ Last(q) = c /\ q \in Seq(Range(q)) /\ q # << >>
      /\ LookupKeys(s, s.global, q) = BoundTo(s, Along(s, s.global, q0), c)
      /\ Along(s, s.global, q) = Down(s, Along(s, s.global, q0), c)
  BY AlongAppend
<1>3. s.walk.keys = q
  OBVIOUS
<1>4. /\ s.l = None => LookupKeys(s, map, q) = None /\ Along(s, map, q) = None
      /\ s.l # None => LocalOn(s, q) /\ IsPrefixKey(s, LookupKeys(s, map, q))
  BY <1>3
<1> HIDE DEF q, map
<1>5. p.stage = "run" /\ p.local = s.l
  OBVIOUS
<1> HIDE DEF p
<1>6. /\ SameTables(s, t) /\ t.walk = s.walk /\ t.ran = s.ran /\ t.g = None /\ t.l = None
      /\ Marked(s, t, p) /\ Fine(t, n)
  <2>1. Marked(s, t, p)
    <3> DEFINE u == [s EXCEPT !.stack[1].pend = p]
    <3>1. Marked(s, u, p)
      BY MarkReader
    <3>2. t.stack = u.stack
      BY DEF Fine, Has
    <3> HIDE DEF t, u
    <3> QED
      BY <3>1, <3>2 DEF Marked
  <2>2. Fine(t, n)
    BY PendingFine
  <2>3. SameTables(s, t) /\ t.walk = s.walk /\ t.ran = s.ran /\ t.g = None /\ t.l = None
    BY DEF SameTables, Fine, Has
  <2> QED
    BY <2>1, <2>2, <2>3
<1> HIDE DEF t
<1>7. Walks(t.stack[1]) /\ ~t.stack[1].over /\ t.stack[1].pend = p
  BY <1>6 DEF Marked, Walks
<1>8. ASSUME NEW r, SameTables(s, r)
      PROVE  /\ LocalMap(r) = map /\ r.global = s.global
             /\ \A m : Along(r, m, q) = Along(s, m, q)
             /\ \A nn : IsPrefixKey(r, nn) = IsPrefixKey(s, nn)
             /\ \A m, d : BoundTo(r, m, d) = BoundTo(s, m, d)
             /\ \A m : LookupKeys(r, m, q) = LookupKeys(s, m, q)
  <2>1. /\ LocalMap(r) = map /\ r.global = s.global
        /\ \A m : Along(r, m, q) = Along(s, m, q)
        /\ \A nn : IsPrefixKey(r, nn) = IsPrefixKey(s, nn)
        /\ \A m, d : BoundTo(r, m, d) = BoundTo(s, m, d)
    BY <1>2, <1>8, SameLooks DEF map
  <2>2. \A m : Along(r, m, q0) = Along(s, m, q0)
    BY <1>8, SameLooks
  <2> QED
    BY <1>2, <2>1, <2>2 DEF LookupKeys
<1>9. NoPend.stage # "global" /\ Null # None
  BY DEF NoPend, Null, None
<1>10. CASE name = None
  <2>1. /\ SameTables(t, x) /\ x.walk = t.walk /\ x.ran = t.ran /\ x.g = None /\ x.l = None
        /\ Marked(t, x, NoPend)
    <3> DEFINE u == [t EXCEPT !.stack[1].pend = NoPend]
    <3>1. Marked(t, u, NoPend)
      BY <1>6, MarkReader
    <3>2. x = [u EXCEPT !.err = TRUE]
      OBVIOUS
    <3>3. /\ SameTables(t, u) /\ u.walk = t.walk /\ u.ran = t.ran /\ u.g = None /\ u.l = None
      BY <1>6 DEF SameTables
    <3> HIDE DEF u, x
    <3>4. /\ SameTables(u, x) /\ x.walk = u.walk /\ x.ran = u.ran /\ x.g = u.g /\ x.l = u.l
          /\ x.stack = u.stack
      BY <3>2 DEF SameTables
    <3> QED
      BY <3>1, <3>3, <3>4 DEF SameTables, Marked
  <2>2. /\ SameTables(t, y) /\ y.walk = t.walk /\ y.ran = t.ran /\ y.g = Null /\ y.l = s.l
        /\ Marked(t, y, NoPend)
    <3> DEFINE u == [t EXCEPT !.stack[1].pend = NoPend]
    <3>1. Marked(t, u, NoPend)
      BY <1>6, MarkReader
    <3>2. y = [u EXCEPT !.l = s.l, !.g = Null]
      OBVIOUS
    <3>3. SameTables(t, u) /\ u.walk = t.walk /\ u.ran = t.ran /\ {"g", "l"} \subseteq DOMAIN u
      BY <1>6 DEF SameTables, Fine, Has
    <3> HIDE DEF u, y
    <3>4. /\ SameTables(u, y) /\ y.walk = u.walk /\ y.ran = u.ran /\ y.g = Null /\ y.l = s.l
          /\ y.stack = u.stack
      BY <3>2, <3>3 DEF SameTables
    <3> QED
      BY <3>1, <3>3, <3>4 DEF SameTables, Marked
  <2> HIDE DEF x, y
  <2>3. CASE s.l = None
    <3>1. Walked(x) /\ Told(x)
      BY <1>6, <1>7, <2>1 DEF Walked, Told, Marked, Walks
    <3> QED
      BY <1>1, <1>10, <2>3, <3>1 DEF Right
  <2>4. CASE s.l # None
    <3>1. SameTables(s, y) /\ y.walk.keys = q /\ y.stack[1].pend = NoPend
      BY <1>3, <1>6, <2>2 DEF SameTables, Marked
    <3>2. LocalOn(y, q)
      BY <1>4, <1>8, <2>2, <2>4, <3>1 DEF LocalOn, map
    <3>3. GlobalOn(y, q)
      BY <1>9, <2>2 DEF GlobalOn
    <3>4. OnTheWay(y)
      BY <1>2, <1>9, <2>2, <2>4, <3>1, <3>2, <3>3 DEF OnTheWay
    <3>5. Walked(y) /\ Told(y)
      BY <1>6, <1>7, <2>2, <3>4 DEF Walked, Told, Marked, Walks
    <3> QED
      BY <1>1, <1>10, <2>4, <3>5 DEF Right
  <2> QED
    BY <2>3, <2>4
<1> HIDE DEF x, y
<1>11. CASE name # None
  <2>1. s.g # None /\ s.g = Along(s, s.global, q0)
    <3>1. BoundTo(s, None, c) = None /\ BoundTo(s, Null, c) = None
      BY DEF BoundTo
    <3> QED
      BY <1>11, <3>1 DEF GlobalOn
  <2>2. LookupKeys(s, s.global, q) = name /\ Along(s, s.global, q) = Down(s, s.g, c)
    BY <1>2, <2>1
  <2>3. GlobalStage(s, c) = ExecuteBound(t, name)
    BY <1>1, <1>11
  <2> DEFINE r == ExecuteBound(t, name)
  <2>4. CASE IsPrefixKey(s, name)
    <3> DEFINE m == t.names[name].map
    <3>1. IsPrefixKey(t, name) /\ Along(s, s.global, q) = m
      BY <1>6, <1>8, <2>2, <2>4 DEF Down, SameTables
    <3>2. /\ SameTables(t, r) /\ r.walk = t.walk /\ r.ran = t.ran /\ Marked(t, r, NoPend)
          /\ r.g = IF m # None THEN m ELSE IF s.l # None THEN Null ELSE None
          /\ r.l = IF m # None /\ s.l = None THEN Null ELSE s.l
      <4>1. t.stack[1].pend.stage = "run" /\ t.stack[1].pend.local = s.l
        BY <1>5, <1>7
      <4> HIDE DEF r
      <4>2. /\ SameTables(t, r) /\ r.walk = t.walk /\ r.ran = t.ran /\ Marked(t, r, NoPend)
            /\ r.g = IF m # None THEN m
                     ELSE IF t.stack[1].pend.local # None THEN Null ELSE None
            /\ r.l = IF m # None /\ t.stack[1].pend.local = None THEN Null
                     ELSE t.stack[1].pend.local
        <5>1. Fine(t, n) /\ IsPrefixKey(t, name) /\ t.stack[1].pend.stage = "run"
          BY <1>6, <3>1, <4>1
        <5> HIDE DEF name
        <5> QED
          BY <5>1, PrefixRuns DEF r
      <4> QED
        BY <4>1, <4>2
    <3> HIDE DEF r, m
    <3>3. SameTables(s, r) /\ r.walk.keys = q /\ r.stack[1].pend = NoPend
      BY <1>3, <1>6, <3>2 DEF SameTables, Marked
    <3>4. CASE m = None /\ s.l = None
      <4>1. Walked(r) /\ Told(r)
        BY <1>6, <1>7, <3>2, <3>4 DEF Walked, Told, Marked, Walks
      <4> QED
        BY <2>3, <4>1 DEF Right, r
    <3>5. CASE m # None \/ s.l # None
      <4>1. r.l # None
        BY <1>9, <3>2, <3>5
      <4>2. LocalOn(r, q)
        <5>1. CASE s.l = None
          BY <1>4, <1>8, <3>2, <3>3, <3>5, <5>1 DEF LocalOn, map
        <5>2. CASE s.l # None
          BY <1>4, <1>8, <3>2, <3>3, <5>2 DEF LocalOn, map
        <5> QED
          BY <5>1, <5>2
      <4>3. GlobalOn(r, q)
        BY <1>8, <1>9, <3>1, <3>2, <3>3, <3>5 DEF GlobalOn
      <4>4. OnTheWay(r)
        BY <1>2, <1>9, <3>3, <4>1, <4>2, <4>3 DEF OnTheWay
      <4>5. Walked(r) /\ Told(r)
        BY <1>6, <1>7, <3>2, <4>4 DEF Walked, Told, Marked, Walks
      <4> QED
        BY <2>3, <4>5 DEF Right, r
    <3> QED
      BY <3>4, <3>5
  <2>5. CASE ~IsPrefixKey(s, name)
    <3>1. ~IsPrefixKey(t, name) /\ t.walk.keys = q
      BY <1>3, <1>6, <1>8, <2>5
    <3>2. Told(Noted(t, name))
      <4> DEFINE said == DescribeKey(t, t.walk.keys)
                 b == t.walk.sure /\ ~IsPrefixKey(t, said)
      <4>1. "ran" \in DOMAIN t
        BY <1>6 DEF Fine, Has
      <4>2. Noted(t, name).ran = [cmd |-> name, said |-> said, sure |-> b]
        BY <3>1, <4>1 DEF Noted
      <4>3. b => said = name
        <5>1. said = LET l == LookupKeys(s, map, q)
                     IN  IF l # None THEN l ELSE LookupKeys(s, s.global, q)
          BY <1>6, <1>8, <3>1 DEF DescribeKey
        <5> HIDE DEF said
        <5>2. CASE s.l = None
          BY <1>4, <2>2, <5>1, <5>2
        <5>3. CASE s.l # None
          <6>1. IsPrefixKey(s, said)
            BY <1>4, <5>1, <5>3, NoNameNoPrefix
          <6>2. IsPrefixKey(t, said)
            BY <1>6, <1>8, <6>1
          <6> QED
            BY <6>2
        <5> QED
          BY <5>2, <5>3
      <4> HIDE DEF said, b
      <4> QED
        BY <4>2, <4>3 DEF Told
    <3>3. s.l # None => \/ s.l = Along(t, LocalMap(t), q)
                        \/ s.l = Null /\ Along(t, LocalMap(t), q) = None
      BY <1>4, <1>6, <1>8 DEF LocalOn, map
    <3>4. Right(r)
      BY <1>2, <1>5, <1>6, <1>7, <3>1, <3>2, <3>3, CommandRight
    <3> QED
      BY <2>3, <3>4
  <2> QED
    BY <2>4, <2>5
<1> QED
  BY <1>10, <1>11

LEMMA LocalRight ==
  ASSUME NEW S, NEW q0 \in Seq(S), NEW s, NEW n, NEW c, Fine(s, n), s.walk.sure, Told(s),
         s.walk.keys = Append(q0, c), Walks(s.stack[1]), ~s.stack[1].over,
         LocalOn(s, q0), GlobalOn(s, q0)
  PROVE  Right(LocalStage(s, c))
<1> DEFINE q == Append(q0, c)
           p == [stage |-> "local", key |-> c, local |-> None]
           name == BoundTo(s, s.l, c)
           map == LocalMap(s)
           t == [s EXCEPT !.l = None, !.stack[1].pend = p]
<1>1. LocalStage(s, c) = IF name = None THEN GlobalStage(t, c) ELSE ExecuteBound(t, name)
  BY DEF LocalStage
<1>2. /\ Front(q) = q0 /\ Last(q) = c /\ q \in Seq(Range(q)) /\ q # << >>
      /\ LookupKeys(s, s.global, q) = BoundTo(s, Along(s, s.global, q0), c)
      /\ Along(s, s.global, q) = Down(s, Along(s, s.global, q0), c)
  BY AlongAppend
<1>3. s.walk.keys = q
  OBVIOUS
<1>4. /\ LookupKeys(s, map, q) = name
      /\ name = None => Along(s, map, q) = None
      /\ name # None => s.l = Along(s, map, q0) /\ Along(s, map, q) = Down(s, s.l, c)
  BY LocalLooks
<1> HIDE DEF q, map
<1>5. /\ p.stage = "local" /\ p.local = None /\ p.key = c
      /\ [p EXCEPT !.stage = "global"].key = c
      /\ [p EXCEPT !.stage = "global"].stage = "global"
  OBVIOUS
<1> HIDE DEF p
<1>6. /\ SameTables(s, t) /\ t.walk = s.walk /\ t.ran = s.ran /\ t.g = s.g /\ t.l = None
      /\ Marked(s, t, p) /\ Fine(t, n)
  <2>1. Marked(s, t, p)
    <3> DEFINE u == [s EXCEPT !.stack[1].pend = p]
    <3>1. Marked(s, u, p)
      BY MarkReader
    <3>2. t.stack = u.stack
      BY DEF Fine, Has
    <3> HIDE DEF t, u
    <3> QED
      BY <3>1, <3>2 DEF Marked
  <2>2. Fine(t, n)
    BY PendingFine
  <2>3. SameTables(s, t) /\ t.walk = s.walk /\ t.ran = s.ran /\ t.g = s.g /\ t.l = None
    BY DEF SameTables, Fine, Has
  <2> QED
    BY <2>1, <2>2, <2>3
<1> HIDE DEF t
<1>7. Walks(t.stack[1]) /\ ~t.stack[1].over /\ t.stack[1].pend = p
  BY <1>6 DEF Marked, Walks
<1>8. ASSUME NEW r, SameTables(s, r)
      PROVE  /\ LocalMap(r) = map /\ r.global = s.global
             /\ \A m : Along(r, m, q) = Along(s, m, q)
             /\ \A m : Along(r, m, q0) = Along(s, m, q0)
             /\ \A nn : IsPrefixKey(r, nn) = IsPrefixKey(s, nn)
             /\ \A m, d : BoundTo(r, m, d) = BoundTo(s, m, d)
             /\ \A m : LookupKeys(r, m, q) = LookupKeys(s, m, q)
  <2>1. /\ LocalMap(r) = map /\ r.global = s.global
        /\ \A m : Along(r, m, q) = Along(s, m, q)
        /\ \A nn : IsPrefixKey(r, nn) = IsPrefixKey(s, nn)
        /\ \A m, d : BoundTo(r, m, d) = BoundTo(s, m, d)
    BY <1>2, <1>8, SameLooks DEF map
  <2>2. \A m : Along(r, m, q0) = Along(s, m, q0)
    BY <1>8, SameLooks
  <2> QED
    BY <1>2, <2>1, <2>2 DEF LookupKeys
<1>9. NoPend.stage # "global"
  BY DEF NoPend, None
<1>10. CASE name = None
  <2>1. GlobalOn(t, q0)
    BY <1>6, <1>8 DEF GlobalOn
  <2>2. t.walk.keys = Append(q0, c) /\ t.walk.sure /\ Told(t)
    BY <1>6 DEF Told
  <2>3. LookupKeys(t, LocalMap(t), t.walk.keys) = None /\ Along(t, LocalMap(t), t.walk.keys) = None
    BY <1>3, <1>4, <1>6, <1>8, <1>10
  <2>4. Right(GlobalStage(t, c))
    BY <1>6, <1>7, <2>1, <2>2, <2>3, GlobalRight
  <2> QED
    BY <1>1, <1>10, <2>4
<1>11. CASE name # None /\ IsPrefixKey(s, name)
  <2> DEFINE m == t.names[name].map
             r == ExecuteBound(t, name)
  <2>1. IsPrefixKey(t, name) /\ Along(s, map, q) = m
    BY <1>4, <1>6, <1>8, <1>11 DEF Down, SameTables
  <2>2. LocalStage(s, c) = r
    BY <1>1, <1>11
  <2> HIDE DEF r
  <2>3. t.stack[1].pend.stage = "local"
    BY <1>5, <1>7
  <2>4. /\ SameTables(t, r) /\ r.walk = t.walk /\ r.ran = t.ran
        /\ m = None \/ t.g = None => Marked(t, r, NoPend) /\ r.g = None /\ r.l = m
        /\ m # None /\ t.g # None =>
             Marked(t, r, [t.stack[1].pend EXCEPT !.stage = "global"]) /\ r.g = t.g /\ r.l = m
    <3> HIDE DEF name
    <3> QED
      BY <1>6, <2>1, <2>3, PrefixRuns DEF r
  <2> HIDE DEF m, name
  <2>5. SameTables(s, r) /\ r.walk.keys = q /\ Told(r)
    BY <1>3, <1>6, <2>4 DEF SameTables, Told
  <2>6. Walks(r.stack[1]) /\ ~r.stack[1].over
    BY <1>7, <2>4 DEF Marked, Walks
  <2>7. CASE m = None
    BY <2>2, <2>4, <2>5, <2>6, <2>7 DEF Right, Walked
  <2>8. CASE m # None
    <3>1. r.l = m /\ LocalOn(r, q)
      BY <1>8, <2>1, <2>4, <2>5 DEF LocalOn
    <3>2. CASE t.g = None
      <4>1. GlobalOn(r, q) /\ r.stack[1].pend = NoPend
        BY <1>6, <1>8, <2>4, <2>5, <3>2 DEF GlobalOn, Marked
      <4>2. OnTheWay(r)
        BY <1>2, <1>9, <2>5, <2>8, <3>1, <4>1 DEF OnTheWay
      <4> QED
        BY <2>2, <2>5, <2>6, <4>2 DEF Right, Walked
    <3>3. CASE t.g # None
      <4>1. r.g = s.g /\ r.stack[1].pend = [p EXCEPT !.stage = "global"]
        BY <1>6, <1>7, <2>4, <2>8, <3>3 DEF Marked
      <4>2. GlobalOn(r, q0)
        BY <1>8, <2>5, <4>1 DEF GlobalOn
      <4>3. IsPrefixKey(r, LookupKeys(r, LocalMap(r), q))
        BY <1>4, <1>8, <1>11, <2>5
      <4>4. OnTheWay(r)
        BY <1>2, <1>5, <2>5, <2>8, <3>1, <4>1, <4>2, <4>3 DEF OnTheWay
      <4> QED
        BY <2>2, <2>5, <2>6, <4>4 DEF Right, Walked
    <3> QED
      BY <3>2, <3>3
  <2> QED
    BY <2>7, <2>8
<1>12. CASE name # None /\ ~IsPrefixKey(s, name)
  <2>1. ~IsPrefixKey(t, name) /\ t.walk.keys = q
    BY <1>3, <1>6, <1>8, <1>12
  <2>2. Told(Noted(t, name))
    <3> DEFINE said == DescribeKey(t, t.walk.keys)
               b == t.walk.sure /\ ~IsPrefixKey(t, said)
    <3>1. "ran" \in DOMAIN t
      BY <1>6 DEF Fine, Has
    <3>2. Noted(t, name).ran = [cmd |-> name, said |-> said, sure |-> b]
      BY <2>1, <3>1 DEF Noted
    <3>3. said = name
      BY <1>4, <1>6, <1>8, <1>12, <2>1 DEF DescribeKey
    <3> HIDE DEF said, b
    <3> QED
      BY <3>2, <3>3 DEF Told
  <2>3. t.stack[1].pend.stage = "local" /\ t.stack[1].pend.local = None
    BY <1>5, <1>7
  <2> HIDE DEF name
  <2>4. Right(ExecuteBound(t, name))
    BY <1>2, <1>6, <1>7, <2>1, <2>2, <2>3, CommandRight
  <2> QED
    BY <1>1, <1>12, <2>4
<1> QED
  BY <1>10, <1>11, <1>12

LEMMA UnsureStage ==
  ASSUME NEW s, NEW n, NEW c, Fine(s, n), Unsure(s)
  PROVE  Unsure(GlobalStage(s, c)) /\ Unsure(LocalStage(s, c))
<1>1. ASSUME NEW u, NEW v, Unsure(u), v.walk = u.walk, v.ran = u.ran PROVE Unsure(v)
  BY <1>1 DEF Unsure, Told
<1>2. ASSUME NEW u, Fine(u, n), Unsure(u) PROVE Unsure(GlobalStage(u, c))
  <2> DEFINE name == BoundTo(u, u.g, c)
             p == [stage |-> "run", key |-> c, local |-> u.l]
             t == [u EXCEPT !.g = None, !.l = None, !.stack[1].pend = p]
             x == [t EXCEPT !.err = TRUE, !.stack[1].pend = NoPend]
             y == [t EXCEPT !.l = u.l, !.g = Null, !.stack[1].pend = NoPend]
  <2>1. GlobalStage(u, c) = IF name = None THEN IF u.l = None THEN x ELSE y
                            ELSE ExecuteBound(t, name)
    BY DEF GlobalStage
  <2> HIDE DEF p, name
  <2>2. Fine(t, n)
    BY <1>2, PendingFine
  <2>3. t.walk = u.walk /\ t.ran = u.ran
    OBVIOUS
  <2> HIDE DEF t
  <2>4. x.walk = t.walk /\ x.ran = t.ran /\ y.walk = t.walk /\ y.ran = t.ran
    OBVIOUS
  <2> HIDE DEF x, y
  <2>5. Unsure(t) /\ Unsure(x) /\ Unsure(y)
    BY <1>1, <1>2, <2>3, <2>4
  <2>6. Unsure(ExecuteBound(t, name))
    BY <2>2, <2>5, UnsureRuns
  <2> QED
    BY <2>1, <2>5, <2>6
<1> DEFINE name == BoundTo(s, s.l, c)
           p == [stage |-> "local", key |-> c, local |-> None]
           t == [s EXCEPT !.l = None, !.stack[1].pend = p]
<1>3. LocalStage(s, c) = IF name = None THEN GlobalStage(t, c) ELSE ExecuteBound(t, name)
  BY DEF LocalStage
<1> HIDE DEF name, p
<1>4. Fine(t, n)
  BY PendingFine
<1>5. t.walk = s.walk /\ t.ran = s.ran
  OBVIOUS
<1> HIDE DEF t
<1>6. Unsure(t)
  BY <1>1, <1>5
<1>7. Unsure(GlobalStage(t, c)) /\ Unsure(ExecuteBound(t, name))
  BY <1>2, <1>4, <1>6, UnsureRuns
<1> QED
  BY <1>2, <1>3, <1>7

(* The three ways on: a walk begins, goes on, or is not known to be one. *)
LEMMA FeedRight ==
  ASSUME NEW s, NEW n, NEW c, Fine(s, n), Right(s), ~s.stack[1].over,
         s.stack[1].pend.stage # "global"
  PROVE  Right(Feed(s, c))
<1> DEFINE w == Walking(s, c)
<1>1. CASE ~Walks(s.stack[1])
  <2>1. Fine(s, Known(s.typed, s.ran, FALSE))
    BY <1>1 DEF Fine, Known, Right, Walked
  <2>2. Fine(Feed(s, c), Known(s.typed, s.ran, FALSE))
    BY <1>1, <2>1, FeedElseFine
  <2>3. ~Feed(s, c).walk.sure /\ Feed(s, c).ran = s.ran
    BY <2>2 DEF Fine, Known
  <2>4. Unsure(Feed(s, c))
    BY <2>3 DEF Unsure, Told, Right
  <2> QED
    BY <2>4, UnsureRight
<1>2. CASE Walks(s.stack[1]) /\ c = EOT
  <2>1. Feed(s, c) = LeaveLoop(s)
    BY <1>2 DEF Feed, Walks
  <2>2. ~LeaveLoop(s).walk.sure
    BY LeaveLoopFine
  <2>3. LeaveLoop(s).ran = s.ran
    BY LeaveLoopFine DEF Fine
  <2>4. Unsure(Feed(s, c))
    BY <2>1, <2>2, <2>3 DEF Unsure, Told, Right
  <2> QED
    BY <2>4, UnsureRight
<1>3. CASE Walks(s.stack[1]) /\ c # EOT
  <2>1. Feed(s, c) = LocalStage(w, c)
    BY <1>3, FeedWalk
  <2>2. Fine(w, Known(n.typed, n.ran, TRUE))
    BY WalkingFine
  <2>3. /\ SameTables(s, w) /\ w.stack = s.stack /\ w.ran = s.ran /\ w.walk = Walk(s, c)
        /\ w.g = IF s.g = None THEN s.global ELSE s.g
        /\ w.l = IF s.l = None THEN LocalMap(s) ELSE s.l
    <3> DEFINE a == Walk(s, c)
               g == IF s.g = None THEN s.global ELSE s.g
               l == IF s.l = None THEN LocalMap(s) ELSE s.l
    <3>1. w = [s EXCEPT !.walk = a, !.g = g, !.l = l]
      BY DEF Walking
    <3> HIDE DEF a, g, l, w
    <3>2. SameTables(s, w) /\ w.stack = s.stack /\ w.ran = s.ran /\ w.walk = a /\ w.g = g /\ w.l = l
      BY <3>1 DEF SameTables, Fine, Has
    <3> QED
      BY <3>2 DEF a, g, l
  <2> HIDE DEF w
  <2>4. Told(w)
    BY <2>3 DEF Told, Right
  <2>5. Walks(w.stack[1]) /\ ~w.stack[1].over
    BY <1>3, <2>3
  <2>6. CASE s.g = None /\ s.l = None
    <3> DEFINE e == << >>
    <3>1. w.walk.keys = << c >> /\ w.walk.sure
      BY <2>3, <2>6 DEF Walk
    <3>2. /\ \A m : Along(w, m, e) = m
          /\ << c >> = Append(e, c) /\ e \in Seq({c})
      BY AlongOne
    <3> HIDE DEF e
    <3>3. w.g = w.global /\ w.l = LocalMap(w)
      BY <2>3, <2>6 DEF SameTables, LocalMap
    <3>4. LocalOn(w, e) /\ GlobalOn(w, e)
      BY <3>2, <3>3 DEF LocalOn, GlobalOn
    <3>5. w.walk.keys = Append(e, c) /\ e \in Seq({c})
      BY <3>1, <3>2
    <3>6. Right(LocalStage(w, c))
      BY <2>2, <2>4, <2>5, <3>1, <3>4, <3>5, LocalRight
    <3> QED
      BY <2>1, <3>6
  <2>7. CASE ~(s.g = None /\ s.l = None) /\ s.walk.sure
    <3> DEFINE q == s.walk.keys
    <3>1. OnTheWay(s)
      BY <2>7 DEF Right, Walked
    <3>2. q \in Seq(Range(q)) /\ s.l # None /\ LocalOn(s, q) /\ GlobalOn(s, q)
      BY <3>1 DEF OnTheWay
    <3>3. w.walk.keys = Append(q, c) /\ w.walk.sure
      <4>1. Walk(s, c) = [s.walk EXCEPT !.keys = Append(q, c)]
        BY <2>7 DEF Walk
      <4>2. "keys" \in DOMAIN s.walk
        BY DEF Fine
      <4> QED
        BY <2>3, <2>7, <4>1, <4>2
    <3> HIDE DEF q
    <3>4. /\ LocalMap(w) = LocalMap(s) /\ w.global = s.global
          /\ \A m : Along(w, m, q) = Along(s, m, q)
      BY <2>3, <3>2, SameLooks
    <3>5. LocalOn(w, q)
      BY <2>3, <3>2, <3>4 DEF LocalOn
    <3>6. GlobalOn(w, q)
      BY <2>3, <3>2, <3>4 DEF GlobalOn
    <3>7. Right(LocalStage(w, c))
      BY <2>2, <2>4, <2>5, <3>2, <3>3, <3>5, <3>6, LocalRight
    <3> QED
      BY <2>1, <3>7
  <2>8. CASE ~(s.g = None /\ s.l = None) /\ ~s.walk.sure
    <3>1. ~w.walk.sure
      BY <2>3, <2>8 DEF Walk
    <3>2. Unsure(LocalStage(w, c))
      BY <2>2, <2>4, <3>1, UnsureStage DEF Unsure
    <3> QED
      BY <2>1, <3>2, UnsureRight
  <2> QED
    BY <2>6, <2>7, <2>8
<1> QED
  BY <1>1, <1>2, <1>3

(* The key that has still to be looked up in the global map. *)
LEMMA GoOnRight ==
  ASSUME NEW s, NEW n, Fine(s, n), Right(s), ~s.stack[1].over, s.stack[1].pend.stage = "global"
  PROVE  Right(GlobalStage(s, s.stack[1].pend.key))
<1> DEFINE c == s.stack[1].pend.key
<1>1. CASE ~s.walk.sure
  BY <1>1, UnsureStage, UnsureRight DEF Unsure, Right
<1>2. CASE s.walk.sure /\ s.g = None /\ s.l = None
  <2> DEFINE p == [stage |-> "run", key |-> c, local |-> s.l]
             t == [s EXCEPT !.g = None, !.l = None, !.stack[1].pend = p]
             u == [t EXCEPT !.stack[1].pend = NoPend]
             x == [t EXCEPT !.err = TRUE, !.stack[1].pend = NoPend]
  <2>1. GlobalStage(s, c) = x
    BY <1>2 DEF GlobalStage, BoundTo
  <2> HIDE DEF p
  <2>2. Fine(t, n)
    BY PendingFine
  <2>3. t.walk = s.walk /\ t.ran = s.ran /\ t.g = None /\ t.l = None
    BY DEF Fine, Has
  <2>4. t.stack[1].kind = s.stack[1].kind /\ t.stack[1].over = s.stack[1].over
    <3> DEFINE v == [s EXCEPT !.stack[1].pend = p]
    <3>1. Marked(s, v, p)
      BY MarkReader
    <3>2. t.stack = v.stack
      BY DEF Fine, Has
    <3> HIDE DEF t, v
    <3> QED
      BY <3>1, <3>2 DEF Marked
  <2> HIDE DEF t
  <2>5. Marked(t, u, NoPend)
    BY <2>2, MarkReader
  <2>6. x.walk = t.walk /\ x.ran = t.ran /\ x.g = t.g /\ x.l = t.l /\ x.stack = u.stack
    BY <2>2 DEF Fine, Has
  <2> HIDE DEF x, u
  <2>7. Right(x)
    BY <1>2, <2>3, <2>4, <2>5, <2>6 DEF Right, Walked, Told, Marked, Walks
  <2> QED
    BY <2>1, <2>7
<1>3. CASE s.walk.sure /\ ~(s.g = None /\ s.l = None)
  <2> DEFINE q == s.walk.keys
             q0 == Front(q)
  <2>1. OnTheWay(s) /\ Walks(s.stack[1]) /\ Told(s)
    BY <1>3 DEF Right, Walked
  <2>2. /\ q \in Seq(Range(q)) /\ q # << >> /\ c = Last(q)
        /\ s.l # None /\ LocalOn(s, q) /\ GlobalOn(s, q0)
        /\ IsPrefixKey(s, LookupKeys(s, LocalMap(s), q))
    BY <2>1 DEF OnTheWay
  <2>3. q0 \in Seq(Range(q)) /\ q = Append(q0, c)
    <3> HIDE DEF q
    <3>1. q \in Seq(Range(q)) /\ q # << >> /\ c = Last(q)
      BY <2>2
    <3> HIDE DEF c
    <3> QED
      BY <3>1 DEF Front, Last
  <2> HIDE DEF c, q0
  <2>4. Right(GlobalStage(s, c))
    BY <1>3, <2>1, <2>2, <2>3, GlobalRight
  <2> QED
    BY <2>4 DEF c
<1> QED
  BY <1>1, <1>2, <1>3

(***************************************************************************)
(* The steps of the keyboard.                                              *)
(***************************************************************************)
LEMMA InitFine == Init => IInv
<1> SUFFICES ASSUME Init PROVE IInv
  OBVIOUS
<1> DEFINE f == Frame("edit")
<1>1. /\ k.stack = << f >> /\ k.used = 0 /\ k.endOfMac = 0 /\ k.typed = 0 /\ Has \subseteq DOMAIN k
      /\ k.walk = [keys |-> << >>, sure |-> FALSE]
      /\ k.ran = [cmd |-> None, said |-> None, sure |-> FALSE]
  BY DEF Init, Has
<1>2. Fields \subseteq DOMAIN f /\ f.kind = "edit"
  BY DEF Frame, Fields
<1> HIDE DEF f
<1>3. << f >> \in Seq({f}) /\ Len(<< f >>) = 1 /\ << f >>[1] = f
  OBVIOUS
<1>4. Readable(<< f >>)
  <2> DEFINE q == << f >>
  <2> HIDE DEF q
  <2>1. q \in Seq({f}) /\ Len(q) = 1 /\ q[1] = f
    BY <1>3 DEF q
  <2>2. q \in Seq(Range(q))
    BY <2>1, InItsRange
  <2>3. Readable(q)
    BY <1>2, <2>1, <2>2 DEF Readable
  <2> QED
    BY <2>3 DEF q
<1>5. Fine(k, Now)
  BY <1>1, <1>4, SizesAssumption DEF Fine, Room, Now, Known
<1>6. Right(k)
  BY <1>1 DEF Right, Walked, Told
<1> QED
  BY <1>1, <1>5, <1>6 DEF IInv, Right

(* What is read is the next key of the walk there was; when the memory of  *)
(* the keyboard macro is full, of none.                                    *)
OnWay(s) == /\ SameTables(k, s) /\ s.stack = k.stack /\ s.walk = k.walk /\ s.ran = k.ran
            /\ (s.g = None /\ s.l = None) \/ (s.g = k.g /\ s.l = k.l)

LEMMA OnWayRight ==
  ASSUME IInv, NEW s, NEW n, NEW c, OnWay(s), Fine(s, n), Reads
  PROVE  Right(Feed(s, c))
<1>1. Right(s)
  BY RightSame DEF IInv, Right, OnWay
<1>2. ~s.stack[1].over /\ s.stack[1].pend.stage # "global"
  BY DEF OnWay, Reads, Top
<1> QED
  BY <1>1, <1>2, FeedRight

LEMMA LoopTopFine ==
  ASSUME IInv
  PROVE  /\ Fine(LoopTop(k), Now) /\ OnWay(LoopTop(k))
         /\ \A quiet \in BOOLEAN :
              LET t == Typed(Shown(LoopTop(k), quiet))
              IN  Fine(t, Known(k.typed + 1, k.ran, k.walk.sure)) /\ OnWay(t)
<1> DEFINE s == LoopTop(k)
<1>1. Fine(s, Now)
  BY DEF LoopTop, IInv, Fine, Has, Room
<1>2. OnWay(s)
  BY DEF LoopTop, OnWay, SameTables
<1> HIDE DEF s
<1>3. ASSUME NEW quiet \in BOOLEAN
      PROVE  LET t == Typed(Shown(s, quiet))
             IN  Fine(t, Known(k.typed + 1, k.ran, k.walk.sure)) /\ OnWay(t)
  <2> DEFINE u == Shown(s, quiet)
             t == Typed(u)
  <2>1. Same(s, u) /\ OnWay(u)
    BY <1>1, <1>2 DEF Shown, Same, OnWay, SameTables, Fine, Has
  <2>2. Fine(u, Now)
    BY <1>1, <2>1, SameFine
  <2> HIDE DEF u
  <2>3. /\ DOMAIN t = DOMAIN u /\ t.stack = u.stack /\ t.used = u.used /\ t.endOfMac = u.endOfMac
        /\ t.walk = u.walk /\ t.ran = u.ran /\ t.typed = u.typed + 1
        /\ SameTables(u, t) /\ t.g = u.g /\ t.l = u.l
    BY <2>2 DEF Typed, Fine, Has, SameTables
  <2> HIDE DEF t
  <2>4. Fine(t, Known(k.typed + 1, k.ran, k.walk.sure))
    BY <2>2, <2>3 DEF Fine, Room, Now, Known
  <2>5. OnWay(t)
    BY <2>1, <2>3 DEF OnWay, SameTables
  <2> QED
    BY <2>4, <2>5 DEF t, u
<1> QED
  BY <1>1, <1>2, <1>3 DEF s

(* Keeps, and Right: the next state. *)
Next1(n) == Keeps(k', n) /\ Right(k')

LEMMA ReadFine ==
  ASSUME IInv, FromPushed \/ FromMeta \/ FromMacro
  PROVE  Next1(Now)
<1> DEFINE s == LoopTop(k)
<1>1. Fine(s, Now) /\ OnWay(s)
  BY LoopTopFine
<1> HIDE DEF s
<1>2. \A v : /\ Same(s, [s EXCEPT !.pushed = v]) /\ OnWay([s EXCEPT !.pushed = v])
             /\ Same(s, [s EXCEPT !.meta = v]) /\ OnWay([s EXCEPT !.meta = v])
             /\ Same(s, [s EXCEPT !.mem = v]) /\ OnWay([s EXCEPT !.mem = v])
  BY <1>1 DEF Same, Fine, Has, OnWay, SameTables
<1>3. ASSUME NEW t, NEW c, Same(s, t), OnWay(t), Reads, k' = Feed(t, c) PROVE Next1(Now)
  <2>1. Fine(t, Now)
    BY <1>1, <1>3, SameFine
  <2>2. Keeps(k', Now)
    BY <1>3, <2>1, FeedFine
  <2>3. Right(k')
    BY <1>3, <2>1, OnWayRight
  <2> QED
    BY <2>2, <2>3 DEF Next1
<1>4. CASE FromPushed
  <2>1. Reads /\ k' = Feed([s EXCEPT !.pushed = Front(s.pushed)], Last(k.pushed))
    BY <1>4 DEF FromPushed, s
  <2> QED
    BY <1>2, <1>3, <2>1
<1>5. CASE FromMeta
  <2>1. Reads /\ k' = Feed([s EXCEPT !.meta = None], k.meta)
    BY <1>5 DEF FromMeta, s
  <2> QED
    BY <1>2, <1>3, <2>1
<1>6. CASE FromMacro
  <2> DEFINE a == [s EXCEPT !.mem = NoMem]
             v == [s.mem EXCEPT !.pos = @ + 1]
             b == [s EXCEPT !.mem = v]
  <2>1. Reads /\ (k' = Feed(a, EOT) \/ k' = Feed(b, Body(k.mem.own)[k.mem.pos]))
    BY <1>6 DEF FromMacro, s
  <2> HIDE DEF v
  <2>2. Same(s, a) /\ OnWay(a) /\ Same(s, b) /\ OnWay(b)
    BY <1>2
  <2> HIDE DEF a, b
  <2> QED
    BY <1>3, <2>1, <2>2
<1> QED
  BY <1>4, <1>5, <1>6

LEMMA RememberOnWay ==
  ASSUME NEW s, NEW n, NEW c, OnWay(s), Fine(s, n)
  PROVE  OnWay(Remember(s, c))
<1> DEFINE mem == IF s.used < Len(s.keyMem) THEN [s.keyMem EXCEPT ![s.used + 1] = c]
                  ELSE Append(s.keyMem, c)
           put == [s EXCEPT !.used = @ + 1, !.keyMem = mem]
           gone == [Error(put) EXCEPT !.remembering = FALSE, !.used = 0, !.endOfMac = 0,
                                      !.keyMem = << >>]
<1>1. Remember(s, c) = IF ~s.remembering THEN s ELSE IF put.used < MemLen THEN put ELSE gone
  BY DEF Remember
<1> HIDE DEF mem
<1>2. OnWay(put) /\ Has \subseteq DOMAIN put
  BY DEF OnWay, SameTables, Fine, Has
<1> HIDE DEF put
<1>3. OnWay(gone)
  BY <1>2 DEF OnWay, SameTables, Error, Has
<1> HIDE DEF gone
<1> QED
  BY <1>1, <1>2, <1>3

LEMMA TypeFine ==
  ASSUME IInv, NEW c, Type(c) \/ TypeMeta(c)
  PROVE  Next1(Known(k.typed + 1, k.ran, k.walk.sure))
<1> DEFINE n == Known(k.typed + 1, k.ran, k.walk.sure)
<1>0. Reads
  BY DEF Type, TypeMeta, FromTerminal
<1> HIDE DEF n
<1>3. ASSUME NEW t, NEW d, Fine(t, n), OnWay(t), k' = Feed(t, d) PROVE Next1(n)
  <2>1. Keeps(k', n)
    BY <1>3, FeedFine
  <2>2. Right(k')
    BY <1>0, <1>3, OnWayRight
  <2> QED
    BY <2>1, <2>2 DEF Next1
<1>1. CASE Type(c)
  <2>1. PICK quiet \in BOOLEAN : k' = Feed(Remember(Typed(Shown(LoopTop(k), quiet)), c), c)
    BY <1>1 DEF Type
  <2> DEFINE s == Typed(Shown(LoopTop(k), quiet))
  <2>2. Fine(s, n) /\ OnWay(s)
    BY LoopTopFine DEF n
  <2> HIDE DEF s
  <2>3. Fine(Remember(s, c), n) /\ OnWay(Remember(s, c))
    BY <2>2, RememberFine, RememberOnWay
  <2> QED
    BY <1>3, <2>1, <2>3 DEF s, n
<1>2. CASE TypeMeta(c)
  <2> DEFINE t == Typed(Shown(LoopTop(k), TRUE))
             s == [t EXCEPT !.meta = c]
  <2>1. k' = Feed(Remember(Remember(s, Esc), c), Esc)
    BY <1>2 DEF TypeMeta
  <2>2. Fine(t, n) /\ OnWay(t)
    BY LoopTopFine DEF n
  <2> HIDE DEF t
  <2>3. Same(t, s) /\ OnWay(s)
    BY <2>2 DEF Same, Fine, Has, OnWay, SameTables
  <2>4. Fine(s, n)
    BY <2>2, <2>3, SameFine
  <2> HIDE DEF s
  <2>5. Fine(Remember(s, Esc), n) /\ OnWay(Remember(s, Esc))
    BY <2>3, <2>4, RememberFine, RememberOnWay
  <2>6. Fine(Remember(Remember(s, Esc), c), n) /\ OnWay(Remember(Remember(s, Esc), c))
    BY <2>5, RememberFine, RememberOnWay
  <2> QED
    BY <1>3, <2>1, <2>6 DEF n
<1> QED
  BY <1>1, <1>2

(***************************************************************************)
(* A reader returns: its walk is over.                                     *)
(***************************************************************************)
Quiet == Known(k.typed, k.ran, FALSE)

LEMMA OverFine ==
  ASSUME IInv, Top.over
  PROVE  Fine(k, Quiet)
BY DEF IInv, Fine, Now, Known, Quiet, Walked, Top

LEMMA QuietRight ==
  ASSUME IInv, Fine(k', Quiet)
  PROVE  k'.ran = k.ran /\ Next1(Now)
<1>1. k'.typed = k.typed /\ k'.ran = k.ran /\ ~k'.walk.sure
  BY DEF Fine, Quiet, Known
<1>2. Unsure(k')
  BY <1>1 DEF Unsure, IInv, Told
<1>3. Keeps(k', Now)
  BY DEF Keeps, Now, Quiet, Known
<1> QED
  BY <1>1, <1>2, <1>3, UnsureRight DEF Next1

(* A round of a macro ends, or the error does not let another begin. *)
LEMMA LeaveMacroFine ==
  ASSUME IInv, LeaveMacro
  PROVE  Fine(k', Quiet) /\ (k.err => Len(k'.stack) < Len(k.stack))
<1> DEFINE r == RoundEnds(k)
           s == [r EXCEPT !.mem = Top.mem]
           p == Pop(s)
           d == [p EXCEPT !.executing = @ /\ Top.own # "KeyMem"]
<1>a. Fine(k, Quiet)
  BY OverFine DEF LeaveMacro
<1>b. Same(k, r)
  <2> DEFINE rep == IF k.macro.where = NoWhere \/ {k.from, Where(k)} # {k.macro.where} THEN k.replay
                    ELSE [want |-> k.macro.cmds, got |-> k.play, err |-> k.err]
             u == [k EXCEPT !.play = << >>, !.from = NoWhere, !.replay = rep]
  <2>1. r = IF Top.own # "KeyMem" THEN k ELSE u
    BY DEF RoundEnds
  <2> HIDE DEF rep
  <2>2. Same(k, k) /\ Same(k, u)
    BY <1>a DEF Same, Fine, Has
  <2> HIDE DEF u, r
  <2> QED
    BY <2>1, <2>2
<1> HIDE DEF r
<1>c. Fine(r, Quiet) /\ r.stack = k.stack
  <2>1. Fine(r, Quiet)
    BY <1>a, <1>b, SameFine
  <2> QED
    BY <1>b, <2>1 DEF Same
<1>1. Fine(s, Quiet) /\ s.stack = k.stack
  BY <1>c DEF Fine, Has, Room
<1>2. s.stack[1].kind = "macro"
  BY <1>1 DEF LeaveMacro, Top
<1>3. k' = IF ~k.err /\ Top.left > 1 THEN Rounds(p, Top.own, Top.left - 1) ELSE Complete(d, 0)
  BY DEF LeaveMacro, r
<1> HIDE DEF s
<1>4. Fine(p, Quiet) /\ Len(p.stack) = Len(s.stack) - 1
  BY <1>1, <1>2, PopFine
<1> HIDE DEF p
<1>5. Fine(d, Quiet) /\ d.stack = p.stack
  BY <1>4 DEF Fine, Has, Room
<1> HIDE DEF d
<1>6. Fine(Complete(d, 0), Quiet) /\ Len(Complete(d, 0).stack) = Len(d.stack)
  BY <1>5, CompleteFine
<1>7. Fine(Rounds(p, Top.own, Top.left - 1), Quiet)
  BY <1>4, RoundsFine
<1>8. Len(k.stack) \in Nat
  BY <1>a DEF Fine, Readable
<1> QED
  BY <1>1, <1>3, <1>4, <1>5, <1>6, <1>7, <1>8

LEMMA LeaveEditFine ==
  ASSUME IInv, LeaveEdit
  PROVE  Fine(k', Quiet) /\ Len(k'.stack) < Len(k.stack)
<1> DEFINE p == Pop(k)
<1>a. Fine(k, Quiet) /\ Len(k.stack) > 1
  BY OverFine DEF LeaveEdit
<1>1. Fine(p, Quiet) /\ Len(p.stack) = Len(k.stack) - 1
  BY <1>a, PopFine
<1>3. k' = Complete(p, 0)
  BY DEF LeaveEdit
<1> HIDE DEF p
<1>4. Fine(k', Quiet) /\ Len(k'.stack) = Len(p.stack)
  BY <1>1, <1>3, CompleteFine
<1>5. Len(k.stack) \in Nat
  BY <1>a DEF Fine, Readable
<1> QED
  BY <1>1, <1>4, <1>5

LEMMA LeaveTextFine ==
  ASSUME IInv, LeaveText
  PROVE  Fine(k', Quiet) /\ (k.err => Len(k'.stack) < Len(k.stack))
<1> DEFINE p    == Pop(k)
           s    == [p EXCEPT !.buf = Top.buf, !.text = Top.text, !.locals["minibuf"] = Top.map,
                             !.arg = Top.arg, !.argState = Top.argState]
           word == NameOf(k.text)
           got  == IF Top.kind = "word" THEN word ELSE k.text
<1>a. Fine(k, Quiet)
  BY OverFine DEF LeaveText
<1>1. Top.kind # "edit"
  BY DEF LeaveText
<1>2. Fine(p, Quiet) /\ Len(p.stack) = Len(k.stack) - 1
  BY <1>a, <1>1, PopFine DEF Top
<1>4. k' \in { Complete(s, 0), Resume(s, Top.cmd, Append(Top.got, got)),
               AskText(s, "word", Top.cmd, Top.got), Complete(Error(s), 0) }
      /\ (k.err => k' = Complete(s, 0))
  BY DEF LeaveText
<1> HIDE DEF p, got
<1>5. Fine(s, Quiet) /\ s.stack = p.stack
  <2> DEFINE l == [p.locals EXCEPT !["minibuf"] = Top.map]
             t == [p EXCEPT !.buf = Top.buf, !.text = Top.text, !.locals = l,
                            !.arg = Top.arg, !.argState = Top.argState]
  <2>1. s = t
    OBVIOUS
  <2> HIDE DEF l
  <2>2. Same(p, t)
    BY <1>2 DEF Same, Fine, Has
  <2> HIDE DEF s, t
  <2>3. Fine(s, Quiet)
    BY <1>2, <2>1, <2>2, SameFine
  <2> QED
    BY <2>1, <2>2, <2>3 DEF Same
<1> HIDE DEF s
<1>6. /\ Fine(Complete(s, 0), Quiet) /\ Len(Complete(s, 0).stack) = Len(s.stack)
      /\ Fine(Resume(s, Top.cmd, Append(Top.got, got)), Quiet)
      /\ Fine(AskText(s, "word", Top.cmd, Top.got), Quiet)
  BY <1>5, CompleteFine, ResumeFine, AskFine
<1>7. Fine(Complete(Error(s), 0), Quiet)
  BY <1>5, CompleteFine, ErrorFine
<1>8. Len(k.stack) \in Nat
  BY <1>a DEF Fine, Readable
<1> QED
  BY <1>2, <1>4, <1>5, <1>6, <1>7, <1>8

LEMMA InterruptFine ==
  ASSUME IInv, InterruptKey
  PROVE  Next1(Now)
<1>1. k' = [k EXCEPT !.err = TRUE, !.interrupt = TRUE]
  BY DEF InterruptKey
<1>2. Same(k, k') /\ OnWay(k')
  BY <1>1 DEF Same, OnWay, SameTables, IInv, Fine, Has
<1>3. Fine(k', Now)
  BY <1>2, SameFine DEF IInv
<1>4. Right(k')
  BY <1>2, RightSame DEF OnWay, IInv, Right
<1> QED
  BY <1>3, <1>4 DEF Next1, Keeps

LEMMA GoOnFine ==
  ASSUME IInv, GoOn
  PROVE  Next1(Now)
<1>1. k' = GlobalStage(k, k.stack[1].pend.key)
  BY DEF GoOn, Top
<1>2. Keeps(k', Now)
  BY <1>1, StageFine DEF IInv
<1>3. Right(k')
  BY <1>1, GoOnRight DEF IInv, GoOn, Top, Right
<1> QED
  BY <1>2, <1>3 DEF Next1

(* The end of a macro's body is no key.                                    *)
LEMMA EndRunsNothing ==
  ASSUME NEW s, NEW n, Fine(s, n)
  PROVE  Feed(s, EOT).ran = s.ran
BY FeedElseFine DEF Fine

(***************************************************************************)
(* The theorems.                                                           *)
(***************************************************************************)
LEMMA NextFine == IInv /\ [Next]_vars => IInv'
<1> SUFFICES ASSUME IInv, [Next]_vars PROVE IInv'
  OBVIOUS
<1>1. ASSUME NEW n, n.typed \in {k.typed, k.typed + 1}, Next1(n) PROVE IInv'
  <2>1. PICK m : m.typed = n.typed /\ Fine(k', m)
    BY <1>1 DEF Next1, Keeps
  <2>2. k'.typed \in Nat
    BY <1>1, <2>1 DEF IInv, Fine
  <2>3. Fine(k', Known(k'.typed, k'.ran, k'.walk.sure))
    BY <2>1 DEF Fine, Known
  <2>4. Walked(k') /\ Told(k')
    BY <1>1 DEF Next1, Right
  <2>5. IInv' <=> /\ Fine(k', Known(k'.typed, k'.ran, k'.walk.sure)) /\ k'.typed \in Nat
                  /\ Walked(k') /\ Told(k')
    BY DEF IInv, Now, Fine, Room, Readable, Has, Fields, Walked, OnTheWay, LocalOn, GlobalOn, Told
  <2> QED
    BY <2>2, <2>3, <2>4, <2>5
<1>n. Now.typed = k.typed /\ Known(k.typed + 1, k.ran, k.walk.sure).typed = k.typed + 1
  BY DEF Now, Known
<1>2. CASE FromPushed \/ FromMeta \/ FromMacro
  BY <1>1, <1>2, <1>n, ReadFine
<1>3. CASE InterruptKey
  BY <1>1, <1>3, <1>n, InterruptFine
<1>4. CASE GoOn
  BY <1>1, <1>4, <1>n, GoOnFine
<1>5. CASE \E c \in Keys : Type(c) \/ TypeMeta(c)
  BY <1>1, <1>5, <1>n, TypeFine
<1>6. CASE LeaveMacro
  BY <1>1, <1>6, <1>n, LeaveMacroFine, QuietRight
<1>7. CASE LeaveEdit
  BY <1>1, <1>7, <1>n, LeaveEditFine, QuietRight
<1>8. CASE LeaveText
  BY <1>1, <1>8, <1>n, LeaveTextFine, QuietRight
<1>9. CASE UNCHANGED vars
  <2>1. k' = k
    BY <1>9 DEF vars
  <2>2. Keeps(k', Now) /\ Right(k')
    BY <2>1 DEF IInv, Keeps, Right
  <2> QED
    BY <1>1, <1>n, <2>2 DEF Next1
<1> QED
  BY <1>2, <1>3, <1>4, <1>5, <1>6, <1>7, <1>8, <1>9 DEF Next

(* The editor never returns from its own ProcessKeys, and the memory of    *)
(* the keyboard macro always has room for its end; the two maps of the     *)
(* walk are where the keys of the walk lead, or known not to be.           *)
THEOREM KeyboardInvariant == Spec => []IInv
BY InitFine, NextFine, PTL DEF Spec

(* MAXKEYMEM: neither the keys that are remembered nor the place where the *)
(* macro would end reach the last place of KeyMem, which is for the end.   *)
THEOREM MacroAlwaysFits == Spec => []MacroFits
<1>1. IInv => MacroFits
  BY SizesAssumption DEF IInv, Fine, Room, MacroFits
<1> QED
  BY <1>1, KeyboardInvariant, PTL

(* ProcessKeys, which goes down the local and the global map at the same   *)
(* time, runs for the keys of a sequence the command that describe-key,    *)
(* which looks down one and then the other, gives for them.                *)
THEOREM KeysRunWhatIsDescribed == Spec => []KeysFound
<1>1. IInv => KeysFound
  BY DEF IInv, Told, KeysFound
<1> QED
  BY <1>1, KeyboardInvariant, PTL

(* error() ends everything that is run from macros, at every level: what   *)
(* the macros still hold runs no command, and each reader that is over     *)
(* returns to the one below.                                               *)
THEOREM ErrorEndsMacros == Spec => ErrorUnwinds
<1> DEFINE Unwinds == k.err /\ ~FromKeyboard /\ k'.interrupt = k.interrupt
                            /\ Top.pend.stage # "global"
                      => /\ k'.ran = k.ran
                         /\ Top.over => Len(k'.stack) < Len(k.stack)
<1>1. IInv /\ [Next]_vars => [Unwinds]_vars
  <2> SUFFICES ASSUME IInv, Next, k.err, ~FromKeyboard, k'.interrupt = k.interrupt,
                      Top.pend.stage # "global"
               PROVE  /\ k'.ran = k.ran
                      /\ Top.over => Len(k'.stack) < Len(k.stack)
    OBVIOUS
  <2>1. k.typed \in Nat /\ k'.typed = k.typed /\ k.pushed = << >> /\ k.meta = None
    BY DEF FromKeyboard, IInv
  <2>2. ~FromPushed /\ ~FromMeta
    BY <2>1 DEF FromPushed, FromMeta
  <2>3. ~(\E c \in Keys : Type(c) \/ TypeMeta(c))
    <3> SUFFICES ASSUME NEW c \in Keys, Type(c) \/ TypeMeta(c) PROVE FALSE
      OBVIOUS
    <3>1. k'.typed = k.typed + 1
      BY TypeFine DEF Next1, Keeps, Fine, Known
    <3> QED
      BY <2>1, <3>1
  <2>4. ~InterruptKey
    BY DEF InterruptKey, IInv, Fine, Has
  <2>5. ~GoOn
    BY DEF GoOn
  <2>6. CASE FromMacro
    <3> DEFINE s == LoopTop(k)
               t == [s EXCEPT !.mem = NoMem]
    <3>1. k' = Feed(t, EOT) /\ ~Top.over
      BY <2>6 DEF FromMacro, Reads
    <3>2. Fine(s, Now)
      BY LoopTopFine
    <3>3. s.ran = k.ran
      BY <3>2 DEF Fine, Now, Known
    <3> HIDE DEF s
    <3>4. Fine(t, Now) /\ t.ran = s.ran
      BY <3>2 DEF Fine, Has, Room
    <3> HIDE DEF t
    <3>5. Feed(t, EOT).ran = t.ran
      BY <3>4, EndRunsNothing
    <3> QED
      BY <3>1, <3>3, <3>4, <3>5
  <2>7. CASE LeaveMacro
    BY <2>7, LeaveMacroFine, QuietRight
  <2>8. CASE LeaveEdit
    BY <2>8, LeaveEditFine, QuietRight
  <2>9. CASE LeaveText
    BY <2>9, LeaveTextFine, QuietRight
  <2> QED
    BY <2>2, <2>3, <2>4, <2>5, <2>6, <2>7, <2>8, <2>9 DEF Next
<1> QED
  BY <1>1, KeyboardInvariant, PTL DEF Spec, ErrorUnwinds

==============================================================================
