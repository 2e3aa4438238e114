-------------------------------- MODULE Syntax --------------------------------
(***************************************************************************)
(* Syntax tables (syntax.c) and what goes by them: moving by words         *)
(* (metacoms.c), changing the case of words (casefiddle.c), scanning for   *)
(* parentheses.  A table gives each character a kind and a partner; the    *)
(* comment fields are kept by the program and read by nothing.             *)
(***************************************************************************)
EXTENDS Pattern

CONSTANTS
  Codes,             \* the characters in use, Nul among them
  MaxSyntaxTables,
  StackSize,         \* parentheses that ParenScan can remember
  DEL                \* the largest char: counting past it never ends

Entry(kind, match) == [kind |-> kind, match |-> match]
Global == "global-syntax-table"
IsAlnum(c) == c \in Letter \union 48..57
GlobalSyntaxTable == [c \in Codes |-> Entry(IF IsAlnum(c) THEN "word" ELSE "dull", Nul)]

Kind(e, c) == e.kind[c]
Kinds(t)   == [c \in Codes |-> t[c].kind]

(* A table that is new begins as a copy of the global one. *)
locate(tables, name) ==
  IF name \in DOMAIN tables THEN tables ELSE (name :> GlobalSyntaxTable) @@ tables

UseSyntaxTable(e, name) ==
  LET t == locate(e.tables, name)
  IN  IF Cardinality(DOMAIN t) > MaxSyntaxTables + 1 THEN [e EXCEPT !.err = TRUE]
      ELSE [e EXCEPT !.tables = t, !.syntax = name, !.kind = Kinds(t[name])]

(* The characters from c to lim get the entry.  The count is a char.       *)
ModifySyntaxEntry(e, entry, c, lim) ==
  LET t == [d \in Codes |-> IF d \in c..lim THEN entry ELSE e.tables[e.syntax][d]]
  IN  IF e.syntax = Global THEN [e EXCEPT !.err = TRUE]
      ELSE IF c <= lim /\ lim >= DEL THEN [e EXCEPT !.stuck = TRUE]
      ELSE [e EXCEPT !.tables[e.syntax] = t, !.kind = Kinds(t)]

(* The runs of the table that dump-syntax-table shows, a line for each.    *)
DumpSyntaxTable(t) ==
  { r \in Codes \X Codes :
      /\ r[1] <= r[2]
      /\ \A c \in Codes : r[1] <= c /\ c <= r[2] => t[c] = t[r[1]]
      /\ \A c \in Codes : c = Max({ d \in Codes : d < r[1] } \union {-1}) => t[c] # t[r[1]]
      /\ \A c \in Codes : c = Min({ d \in Codes : d > r[2] } \union {DEL + 1}) => t[c] # t[r[1]] }

(***************************************************************************)
(* Parentheses.  The scan is a state: level and stack of partners, whether *)
(* and by which quote it is in a string; what it returns when it is over.  *)
(***************************************************************************)
BlankLine == {Blank, NL, 9}
RECURSIVE WhiteFrom(_, _, _, _, _)
WhiteFrom(e, p, limit, step, zero) ==     \* zero: whether what is before the text is blank
  IF (IF step > 0 THEN p < limit ELSE p > limit) /\ (IF p = 0 THEN zero ELSE CharAt(e, p) \in BlankLine)
  THEN WhiteFrom(e, p + step, limit, step, zero) ELSE p

(* SetDot, DotLeft and DotRight check nothing; the print column of dot is  *)
(* no longer known.                                                        *)
SetDot(e, n) == [e EXCEPT !.dot = n, !.col = 0]

Scan(e, start) == [e |-> e, level |-> 0, stack |-> << >>, quote |-> Nul, start |-> start, got |-> 0, over |-> FALSE]
Over(s)     == [s EXCEPT !.over = TRUE]
Mismatch(s) == [s EXCEPT !.e.err = TRUE]

(* A slip: a parenthesis in a string counts. *)
Counts_instring(s, k) == k \in {"begin", "end"}
Counts(s, k) == s.quote = Nul /\ k \in {"begin", "end"}

(* A parenthesis outside strings; a partner that differs is an error, and  *)
(* the scan still ends as if it had been found.                            *)
Paren(s, c, k, pc, forward, lines) ==
  LET opens == (~forward) = (k = "end")
      e == s.e
      up   == [s EXCEPT !.level = @ + 1, !.stack = << e.tables[e.syntax][c].match >> \o @]
      down == [s EXCEPT !.level = @ - 1, !.stack = IF @ = << >> THEN @ ELSE Tail(@),
                        !.e.err = s.level > 0 /\ Head(s.stack) # c]
      t == IF opens THEN up ELSE down
  IN  IF ~Counts(s, k) THEN s
      ELSE IF Len(t.stack) >= StackSize THEN [Over(t) EXCEPT !.e.stuck = TRUE]
      ELSE IF pc = NL /\ t.level > 0 /\ e.dot # s.start THEN Over(Mismatch(t))
      ELSE IF t.level < 0 \/ (t.level = 0 /\ ~lines) THEN [t EXCEPT !.over = TRUE, !.got = 1]
      ELSE t

RECURSIVE ScanFrom(_, _, _)
ScanFrom(s0, forward, lines) ==
  LET s  == IF forward THEN [s0 EXCEPT !.e = SetDot(@, @.dot + 1)] ELSE s0
      e  == s.e
      c  == CharAt(e, e.dot - 1)
      pc == IF e.dot > 2 THEN CharAt(e, e.dot - 2) ELSE Nul
      k  == IF Kind(e, pc) = "prefix" THEN "word" ELSE Kind(e, c)
      q  == IF k = "quote" /\ s.quote \in {Nul, c} THEN [s EXCEPT !.quote = IF @ = Nul THEN c ELSE Nul] ELSE s
      t  == Paren(q, c, k, pc, forward, lines)
      now == t.over /\ t.got = 0
      u  == IF forward \/ now THEN t ELSE [t EXCEPT !.e = SetDot(@, @.dot - 1)]
  IN  IF forward /\ s0.e.dot > NumCharacters(s0.e) THEN Over(s0)
      ELSE IF e.dot <= 2 /\ e.dot <= FirstCharacter(e) THEN Over(s)
      ELSE IF c = NL /\ (q.quote # Nul \/ (lines /\ q.level = 0)) THEN Over(q)
      ELSE IF u.over \/ u.e.err THEN [u EXCEPT !.over = TRUE, !.got = IF now THEN 0 ELSE 1]
      ELSE ScanFrom(u, forward, lines)

ParenScan(e, lines, forward, zero) ==
  LET limit == IF forward THEN NumCharacters(e) ELSE FirstCharacter(e)
      from  == IF lines THEN SetDot(e, WhiteFrom(e, e.dot - 1, limit, IF forward THEN 1 ELSE -1, zero) + 1) ELSE e
  IN  ScanFrom(Scan(from, IF forward THEN e.dot + 1 ELSE e.dot), forward, lines)

(***************************************************************************)
(* Inserting at dot and deleting: the hidden text is out of reach; the mark *)
(* and the marker that a query holds follow the text.                      *)
(***************************************************************************)
Shoved(e, m, k) == IF m > e.dot THEN m + k ELSE m
Inserted(e, s) == [e EXCEPT !.text = SubSeq(@, 1, e.dot - 1) \o s \o SubSeq(@, e.dot, Len(@)),
                            !.mark = Shoved(e, @, Len(s)), !.hold = Shoved(e, @, Len(s))]
Pulled(m, p, k) == IF m > p THEN Max({p, m - k}) ELSE m
Removed(e, p, k) == [e EXCEPT !.text = SubSeq(@, 1, p - 1) \o SubSeq(@, p + k, Len(@)),
                              !.mark = Pulled(@, p, k), !.hold = Pulled(@, p, k)]
DelFrwd(e, k) == Removed(e, e.dot, Max({0, Min({k, NumCharacters(e) + 1 - e.dot})}))
DelBack(e, p, k) == LET n == Max({0, Min({k, p - FirstCharacter(e)})}) IN Removed(e, p - n, n)
Put(e, s) == LET i == Inserted(e, s) IN SetDot(i, i.dot + Len(s))

(***************************************************************************)
(* Words.                                                                  *)
(***************************************************************************)
RECURSIVE SkipOver(_, _, _, _)
SkipOver(e, punct, step, p) ==
  LET at == IF step < 0 THEN p - 1 ELSE p
  IN  IF at \in FirstCharacter(e)..NumCharacters(e) /\ IsWord(e, CharAt(e, at)) # punct
      THEN SkipOver(e, punct, step, p + step) ELSE p

RECURSIVE WordOperation(_, _, _, _)
WordOperation(e, step, n, delete) ==
  LET p == SkipOver(e, FALSE, step, SkipOver(e, TRUE, step, e.dot))
      r == IF ~delete THEN SetDot(e, p)
           ELSE IF step < 0 THEN SetDot(DelBack(e, e.dot, e.dot - p), p) ELSE DelFrwd(e, p - e.dot)
  IN  IF p = e.dot THEN e ELSE IF n <= 1 THEN r ELSE WordOperation(r, step, n - 1, delete)

(* What the mode makes of a letter; first is true at the head of a word.   *)
Fiddled(c, mode, first) ==
  IF c \notin Letter THEN c
  ELSE CASE mode = "invert" -> IF c \in Upper THEN c + 32 ELSE c - 32
         [] mode = "upper" -> ToUpper(c)
         [] mode = "lower" -> IF c \in Upper THEN c + 32 ELSE c
         [] mode = "capitalize" -> IF first THEN ToUpper(c) ELSE IF c \in Upper THEN c + 32 ELSE c

NoMark == -1      \* 0 is before the first character
CaseFiddle(e, first, last, mode) ==
  [e EXCEPT !.text = [p \in DOMAIN @ |->
     IF p \notin first..(last - 1) \/ ~IsWord(e, @[p]) THEN @[p]
     ELSE Fiddled(@[p], mode, p \in {1, first} \/ ~IsWord(e, @[p - 1]))]]

(* From the head of the word that dot is in, or that is before it.         *)
CaseWord(e, mode, n) ==
  LET d  == IF e.dot <= NumCharacters(e) THEN e.dot + 1 ELSE e.dot
      at == WordOperation([e EXCEPT !.dot = d], -1, 1, FALSE)
      to == WordOperation(at, 1, n, FALSE)
  IN  SetDot(CaseFiddle(e, at.dot, to.dot, mode), e.dot)
CaseRegion(e, mode) ==
  IF e.mark = NoMark THEN [e EXCEPT !.err = TRUE]
  ELSE CaseFiddle(e, Min({e.dot, e.mark}), Max({e.dot, e.mark}), mode)
==============================================================================
