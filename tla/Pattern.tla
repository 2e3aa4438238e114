------------------------------- MODULE Pattern -------------------------------
(***************************************************************************)
(* Searching (search.c): compile turns a pattern into a program of         *)
(* instructions, advance runs the program along the text, backing up only  *)
(* at starred instructions, execute tries one place after another, and     *)
(* search goes to the n-th match.                                          *)
(*                                                                         *)
(* A character is its code.  An instruction is a record, so a place in     *)
(* expbuf is an index, and Width counts the ints it takes there.           *)
(***************************************************************************)
EXTENDS Integers, Sequences, FiniteSets, SequencesExt, FiniteSetsExt, Functions

CONSTANTS
  ESIZE, NBRA, NALTS,   \* sizes of expbuf, of the bracket lists, of alternatives
  Beyond                \* what lies in memory after the end of a pattern

Nul == 0
NL == 10
Blank == 32
Amp == 38
LParen == 40
RParen == 41
Star == 42
Dash == 45
Dot == 46
Dollar == 36
LBrack == 91
Backslash == 92
RBrack == 93
Caret == 94
Bar == 124
Lower == 97..122
Upper == 65..90
Letter == Lower \union Upper
ToUpper(c) == IF c \in Lower THEN c - 32 ELSE c

(***************************************************************************)
(* The buffer that is searched: its text, the restriction, dot, and the    *)
(* modes that count: whether case matters and which characters make words. *)
(***************************************************************************)
FirstCharacter(b) == b.head
NumCharacters(b)  == Len(b.text) - b.tail
CharAt(b, p)      == b.text[p]
IsWord(b, c)      == b.kind[c] = "word"
trt(b, c)         == IF b.fold /\ c \in Upper THEN c + 32 ELSE c

(***************************************************************************)
(* Compiling.                                                              *)
(***************************************************************************)
Instr(op, x) == [op |-> op, x |-> x, star |-> FALSE]
Width(i)     == CASE i.op \in {"CCHR", "CBRA", "CKET", "CBACK"} -> 2
                  [] i.op \in {"CCL", "NCCL"} -> 2 + Len(i.x)
                  [] OTHER -> 1
Escapes == (60 :> "BDOT") @@ (61 :> "EDOT") @@ (62 :> "ADOT") @@ (96 :> "BBUF") @@ (39 :> "EBUF")
           @@ (119 :> "WORD") @@ (87 :> "NWORD") @@ (98 :> "WBOUND") @@ (66 :> "NWBOUND")
Tests  == {"CIRC", "CDOL", "BBUF", "EBUF", "BDOT", "EDOT", "ADOT", "WBOUND", "NWBOUND"}
Single == {"CCHR", "CDOT", "CCL", "NCCL", "WORD", "NWORD"}

(* prog and alts as expbuf and alternatives; open the brackets that are not *)
(* closed; last the place that a star would repeat, 0 for none.             *)
Blankprog == [prog |-> << >>, alts |-> << 1 >>, open |-> << >>, nbra |-> 0, last |-> 0, bad |-> FALSE]
Bad       == [Blankprog EXCEPT !.alts = << >>, !.bad = TRUE]
Emit(c, op, x) == [c EXCEPT !.prog = Append(@, Instr(op, x))]
Full(c)   == FoldLeft(LAMBDA n, i : n + Width(i), 0, c.prog) >= ESIZE

Escaped(c, ch) ==
  CASE ch = LParen -> IF c.nbra >= NBRA THEN Bad
                      ELSE [Emit(c, "CBRA", c.nbra + 1) EXCEPT !.open = << c.nbra + 1 >> \o @, !.nbra = @ + 1]
    [] ch = RParen -> IF c.open = << >> THEN Bad ELSE [Emit(c, "CKET", Head(c.open)) EXCEPT !.open = Tail(@)]
    [] ch = Bar -> IF c.open # << >> THEN Bad ELSE [Emit(c, "CEOF", 0) EXCEPT !.alts = Append(@, Len(c.prog) + 2)]
    [] ch \in DOMAIN Escapes -> Emit(c, Escapes[ch], 0)
    [] ch \in 49..53 -> Emit(c, "CBACK", ch - 48)
    [] ch = Nul -> Bad
    [] OTHER -> Emit(c, "CCHR", ch)

(* The characters of a class, and the place after it; 0 when there is no   *)
(* end of it.  A range that the end of the pattern cuts off goes past it.  *)
RECURSIVE ClassFrom(_, _, _)
ClassFrom(s, j, chars) ==
  LET ranged == j < Len(s) /\ s[j] = Dash /\ chars # << >> /\ Last(chars) # Nul
      hi     == s[j + 1]
      more   == IF ranged THEN chars \o [i \in 1..Max({0, hi - Last(chars)}) |-> Last(chars) + i] \o << hi >>
                ELSE Append(chars, s[j])
      next   == IF ranged THEN j + 2 ELSE j + 1
  IN  IF j > Len(s) \/ s[j] = Nul THEN [chars |-> chars, next |-> 0]
      ELSE IF ranged /\ hi = RBrack THEN [chars |-> Append(chars, Dash), next |-> j + 2]
      ELSE IF next <= Len(s) /\ s[next] = RBrack THEN [chars |-> more, next |-> next + 1]
      ELSE ClassFrom(s, next, more)

(* A star is a character where there is nothing to repeat. *)
Repeatable(c) ==
  /\ c.last # 0
  /\ ~c.prog[c.last].star
  /\ c.prog[c.last].op \notin {"CBRA", "CKET"} \union (Tests \ {"CDOL"})

RECURSIVE CompileFrom(_, _, _)
CompileFrom(c, s, i) ==
  LET ch  == s[i]
      d   == IF ch = Star THEN c ELSE [c EXCEPT !.last = Len(c.prog) + 1]
      neg == s[i + 1] = Caret
      cl  == ClassFrom(s, IF neg THEN i + 2 ELSE i + 1, << >>)
      ends == s[i + 1] = Nul \/ (s[i + 1] = Backslash /\ s[i + 2] = Bar)
  IN  IF c.bad \/ Full(c) THEN Bad
      ELSE CASE ch = Nul -> IF c.open # << >> THEN Bad ELSE Emit(c, "CEOF", 0)
             [] ch = Backslash -> CompileFrom(Escaped(d, s[i + 1]), s, i + 2)
             [] ch = Dot -> CompileFrom(Emit(d, "CDOT", 0), s, i + 1)
             [] ch = Star /\ Repeatable(c) -> CompileFrom([c EXCEPT !.prog[c.last].star = TRUE], s, i + 1)
             [] ch = Caret /\ (d.prog = << >> \/ (Last(d.prog).op = "CEOF" /\ ~Last(d.prog).star)) ->
                  CompileFrom(Emit(d, "CIRC", 0), s, i + 1)
             [] ch = Dollar /\ ends -> CompileFrom(Emit(d, "CDOL", 0), s, i + 1)
             [] ch = LBrack -> IF cl.next = 0 THEN Bad
                               ELSE CompileFrom(Emit(d, IF neg THEN "NCCL" ELSE "CCL", cl.chars), s, cl.next)
             [] OTHER -> CompileFrom(Emit(d, "CCHR", ch), s, i + 1)

Plainly(s) == [Blankprog EXCEPT !.prog = [i \in DOMAIN s |-> Instr("CCHR", s[i])] \o << Instr("CEOF", 0) >>]

NoGroups == [i \in 1..NBRA |-> 0]
Globals  == [c |-> Bad, bras |-> NoGroups, brae |-> NoGroups, loc1 |-> 0, loc2 |-> 0,
             trt |-> "none", err |-> FALSE, ok |-> FALSE, hang |-> FALSE]

(* The empty pattern stands for the last one.  Alternatives that are too   *)
(* many run into the bracket lists, which execute clears.                  *)
compile(g, s, RE) ==
  LET kept(c) == [g EXCEPT !.c = [c EXCEPT !.alts = SubSeq(@, 1, Min({Len(@), NALTS}))],
                           !.err = c.bad]
  IN  IF s = << >> THEN [g EXCEPT !.err = g.c.bad]
      ELSE kept(IF RE THEN CompileFrom(Blankprog, s \o << Nul >> \o Beyond, 1)
                ELSE IF 2 * Len(s) >= ESIZE THEN Bad ELSE Plainly(s))

(***************************************************************************)
(* Matching: g carries the program and what is found.                      *)
(***************************************************************************)
Takes(b, i, p) ==
  LET c == CharAt(b, p)
      listed == \E x \in Range(i.x) : trt(b, x) = trt(b, c)
  IN  /\ p <= NumCharacters(b)
      /\ CASE i.op = "CCHR"  -> trt(b, i.x) = trt(b, c)
           [] i.op = "CDOT"  -> c # NL
           [] i.op = "WORD"  -> IsWord(b, c)
           [] i.op = "NWORD" -> ~IsWord(b, c)
           [] i.op = "CCL"   -> listed
           [] i.op = "NCCL"  -> ~listed

Outside(b, p) == p < FirstCharacter(b) \/ p > NumCharacters(b) \/ ~IsWord(b, CharAt(b, p))
Holds(b, i, p) ==
  CASE i.op = "CIRC" -> p <= FirstCharacter(b) \/ CharAt(b, p - 1) = NL
    [] i.op = "CDOL" -> CharAt(b, p) = NL
    [] i.op = "BBUF" -> p <= FirstCharacter(b)
    [] i.op = "EBUF" -> p > NumCharacters(b)
    [] i.op = "BDOT" -> p <= b.dot
    [] i.op = "EDOT" -> p = b.dot
    [] i.op = "ADOT" -> p >= b.dot
    [] i.op = "WBOUND"  -> Outside(b, p - 1) # Outside(b, p)
    [] i.op = "NWBOUND" -> Outside(b, p - 1) = Outside(b, p)

(* One character at least is compared. *)
Size(g, n) == g.brae[n] - g.bras[n]
backref(b, g, n, p) ==
  \A k \in 0..Max({0, Size(g, n) - 1}) :
     p + k <= NumCharacters(b) /\ CharAt(b, g.bras[n] + k) = CharAt(b, p + k)

No(g)       == [g EXCEPT !.ok = FALSE]
Found(g, p) == [g EXCEPT !.ok = TRUE, !.loc2 = p]
Stuck(g)    == [g EXCEPT !.ok = FALSE, !.hang = TRUE]

(* How often an instruction is repeated from p on, as often as it goes. *)
RECURSIVE Run(_, _, _), Copies(_, _, _, _)
Run(b, i, p) == IF Takes(b, i, p) THEN Run(b, i, p + 1) ELSE p
Copies(b, g, n, p) == IF backref(b, g, n, p) THEN Copies(b, g, n, p + Size(g, n)) ELSE p

RECURSIVE advance(_, _, _, _), Shorter(_, _, _, _, _, _)

(* The rest of the program at p, or at step before it, down to low. *)
Shorter(b, g, p, low, step, ep) ==
  LET on(r) == IF r.ok THEN r ELSE Shorter(b, r, p - step, low, step, ep)
  IN  IF p < low \/ g.hang THEN No(g) ELSE on(advance(b, g, p, ep))

(* A copy of nothing is repeated for ever; when no number of copies will   *)
(* do the match goes on one copy before where they began.                  *)
Repeated(b, g, n, p, ep) ==
  LET size == Size(g, n)
      r    == IF size = 0 THEN advance(b, g, p, ep)
              ELSE Shorter(b, g, Copies(b, g, n, p), p, size, ep)
  IN  IF size = 0 THEN IF backref(b, g, n, p) \/ ~r.ok THEN Stuck(g) ELSE r
      ELSE IF r.ok \/ r.hang THEN r ELSE advance(b, r, p - size, ep)

(* A slip: a run is not given back. *)
advance_possessive(b, g, p, ep) ==
  LET i == g.c.prog[ep]
      go(h, q) == advance(b, h, q, ep + 1)
  IN  IF ~i.star /\ p > NumCharacters(b) /\ i.op \notin {"CKET", "EBUF"}
      THEN IF i.op \in {"CEOF", "CDOL"} THEN Found(g, p) ELSE No(g)
      ELSE IF i.star /\ i.op \in Single THEN go(g, Run(b, i, p))
      ELSE CASE i.op \in Single -> IF Takes(b, i, p) THEN go(g, p + 1) ELSE No(g)
             [] i.op \in Tests  -> IF Holds(b, i, p) THEN go(g, p) ELSE No(g)
             [] i.op = "CEOF"   -> Found(g, p)
             [] i.op = "CBRA"   -> go([g EXCEPT !.bras[i.x] = p], p)
             [] i.op = "CKET"   -> go([g EXCEPT !.brae[i.x] = p], p)
             [] i.op = "CBACK"  -> IF backref(b, g, i.x, p) THEN go(g, p + Size(g, i.x)) ELSE No(g)

(* At the end of the text only some instructions are looked at. *)
advance(b, g, p, ep) ==
  LET i == g.c.prog[ep]
      go(h, q) == advance(b, h, q, ep + 1)
  IN  IF ~i.star /\ p > NumCharacters(b) /\ i.op \notin {"CKET", "EBUF"}
      THEN IF i.op \in {"CEOF", "CDOL"} THEN Found(g, p) ELSE No(g)
      ELSE IF i.op = "CBACK" /\ g.brae[i.x] = 0 THEN [No(g) EXCEPT !.err = TRUE]
      ELSE IF i.star
      THEN CASE i.op \in Single -> Shorter(b, g, Run(b, i, p), p, 1, ep + 1)
             [] i.op = "CBACK"  -> Repeated(b, g, i.x, p, ep + 1)
             [] OTHER -> go([g EXCEPT !.err = TRUE], p)
      ELSE CASE i.op \in Single -> IF Takes(b, i, p) THEN go(g, p + 1) ELSE No(g)
             [] i.op \in Tests  -> IF Holds(b, i, p) THEN go(g, p) ELSE No(g)
             [] i.op = "CEOF"   -> Found(g, p)
             [] i.op = "CBRA"   -> go([g EXCEPT !.bras[i.x] = p], p)
             [] i.op = "CKET"   -> go([g EXCEPT !.brae[i.x] = p], p)
             [] i.op = "CBACK"  -> IF backref(b, g, i.x, p) THEN go(g, p + Size(g, i.x)) ELSE No(g)

(* The alternatives in turn, at one place after another. *)
RECURSIVE Alternatives(_, _, _, _), Places(_, _, _, _)
Alternatives(b, g, p, k) ==
  LET on(r) == IF r.ok THEN [r EXCEPT !.loc1 = p] ELSE Alternatives(b, r, p, k + 1)
  IN  IF k > Len(g.c.alts) \/ g.hang THEN No(g) ELSE on(advance(b, g, p, g.c.alts[k]))
Places(b, g, p, step) ==
  LET on(r) == IF r.ok \/ r.err \/ r.hang \/ p + step \notin FirstCharacter(b)..NumCharacters(b) THEN r
               ELSE Places(b, r, p + step, step)
  IN  on(Alternatives(b, g, p, 1))
execute(b, g, forward, addr) ==
  Places(b, [g EXCEPT !.bras = NoGroups, !.brae = NoGroups], addr, IF forward THEN 1 ELSE -1)

(* looking-at takes whatever case rule the last search had. *)
AsLastTime(b, g) == [b EXCEPT !.fold = g.trt = "fold"]
LookingAt(b, g, s) ==
  LET here(c) == IF c.err THEN c
                 ELSE [Alternatives(AsLastTime(b, g), c, b.dot, 1) EXCEPT !.loc1 = b.dot]
  IN  here(compile(g, s, TRUE))

(* [pos, g]: pos is 0 when there is no match, -1 when there is an error.   *)
RECURSIVE NthFrom(_, _, _, _)
NthFrom(b, g, n, pos) ==
  LET on(r) == IF ~r.ok THEN [pos |-> 0, g |-> r]
               ELSE IF n < 0 THEN NthFrom(b, r, n + 1, r.loc1)
               ELSE NthFrom(b, r, n - 1, r.loc2)
  IN  IF g.err THEN [pos |-> -1, g |-> g]
      ELSE IF n = 0 THEN [pos |-> pos, g |-> g]
      ELSE IF (n < 0 /\ pos <= FirstCharacter(b)) \/ (n > 0 /\ pos > NumCharacters(b)) THEN [pos |-> 0, g |-> g]
      ELSE on(execute(b, g, n > 0, IF n > 0 THEN pos ELSE pos - 1))
search(b, g, s, n, pos, RE) ==
  NthFrom(b, compile([g EXCEPT !.trt = IF b.fold THEN "fold" ELSE "standard"], s, RE), n, pos)

(* quote: what it tests for a caret is the memory it writes to. *)
Special == {LBrack, RBrack, Star, Dot, Backslash}
Quote(s, memory) ==
  FlattenSeq([i \in DOMAIN s |->
    IF s[i] \in Special \/ (i = 1 /\ memory = Caret) \/ (s[i] = Dollar /\ i = Len(s))
    THEN << Backslash, s[i] >> ELSE << s[i] >>])
==============================================================================
