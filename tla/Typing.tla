-------------------------------- MODULE Typing --------------------------------
(***************************************************************************)
(* Typing text (simplecoms.c): self-insertion with automatic filling at    *)
(* the right margin, print columns and indentation (columns.c), moving     *)
(* between lines, and abbreviations (abbrev.c).                            *)
(*                                                                         *)
(* The print column of dot is cached: col is DotCol when ColValid, else 0. *)
(***************************************************************************)
EXTENDS Syntax

CONSTANTS TabSize, CtlWidth, MaxAbbrevTables

Tab == 9
White == {Blank, Tab}
LineStart(e, d) == Max({ p \in FirstCharacter(e)..d : p = FirstCharacter(e) \/ CharAt(e, p - 1) = NL })
NextLineStart(e, d) ==
  LET ends == { p \in d..NumCharacters(e) : CharAt(e, p) = NL }
  IN  IF ends = {} THEN NumCharacters(e) + 1 ELSE Min(ends) + 1
NextStop(col) == ((col - 1) \div TabSize + 1) * TabSize + 1
Advanced(col, c) == IF c = Tab THEN NextStop(col) ELSE IF c < Blank \/ c >= DEL THEN col + CtlWidth ELSE col + 1

ColumnAt(e, d) ==
  FoldLeft(Advanced, 1, [i \in 1..(d - LineStart(e, d)) |-> CharAt(e, LineStart(e, d) + i - 1)])
CalcCol(e) == [e EXCEPT !.col = ColumnAt(e, e.dot)]
CurCol(e)  == IF e.col # 0 THEN e ELSE CalcCol(e)

CurIndent(e) ==
  LET from == LineStart(e, e.dot)
      n == Max({ k \in 0..(NumCharacters(e) + 1 - from) : \A i \in 0..(k - 1) : CharAt(e, from + i) \in White })
  IN  ColumnAt(e, from + n)

DeleteWhiteSpace(e) ==
  LET after  == Max({ k \in 0..(NumCharacters(e) + 1 - e.dot) : \A i \in 0..(k - 1) : CharAt(e, e.dot + i) \in White })
      before == Max({ k \in 0..(e.dot - FirstCharacter(e)) : \A i \in 1..k : CharAt(e, e.dot - i) \in White })
  IN  DelFrwd(SetDot(e, e.dot - before), before + after)

EndOfLine(e) ==
  LET n == NextLineStart(e, e.dot)
  IN  IF n = e.dot THEN e ELSE SetDot(e, IF CharAt(e, n - 1) = NL THEN Max({n - 1, FirstCharacter(e)}) ELSE n)

(***************************************************************************)
(* Abbreviations: tables of names, each with its phrase and its hook; a    *)
(* hook is what it returns, 0 or nothing, and it changes nothing.          *)
(***************************************************************************)
NoHook == "none"
Abbrev(phrase, hook) == [phrase |-> phrase, hook |-> hook]
lookup(e, name, local) ==
  IF local # "" /\ name \in DOMAIN e.abbrevs[local] THEN e.abbrevs[local][name]
  ELSE IF name \in DOMAIN e.abbrevs["global"] THEN e.abbrevs["global"][name]
  ELSE Abbrev(<< >>, "undefined")

define(e, table, name, a) ==
  IF table = "" THEN [e EXCEPT !.err = TRUE] ELSE [e EXCEPT !.abbrevs[table] = (name :> a) @@ @]

(* Not hooked abbreviations turn abbrev mode on, even when this fails.     *)
DefineAbbrev(e, scope, name, a) ==
  LET r == define(e, IF scope = "local" THEN e.abbrev ELSE scope, name, a)
  IN  IF a.hook = NoHook THEN [r EXCEPT !.abbrevOn = TRUE] ELSE r

UseAbbrevTable(e, name) ==
  LET t == IF name \in DOMAIN e.abbrevs THEN e.abbrevs ELSE (name :> << >>) @@ e.abbrevs
  IN  IF Cardinality(DOMAIN t) > MaxAbbrevTables THEN [e EXCEPT !.err = TRUE]
      ELSE [e EXCEPT !.abbrevs = t, !.abbrev = name,
                     !.abbrevOn = @ \/ t[name] # << >> \/ t["global"] # << >>]

(* The word before dot; the restriction is not looked at.                  *)
WordBefore(e) ==
  LET n == Max({ k \in 0..(e.dot - 1) : \A i \in 1..k : IsWord(e, CharAt(e, e.dot - i)) })
  IN  SubSeq(e.text, e.dot - n, e.dot - 1)
LowerCase(s) == [i \in DOMAIN s |-> IF s[i] \in Upper THEN s[i] + 32 ELSE s[i]]
UpperCount(s) == Cardinality({ i \in DOMAIN s : s[i] \in Upper })

Cased(phrase, count) ==
  [i \in DOMAIN phrase |->
     IF count > 0 /\ (i = 1 \/ (count > 1 /\ phrase[i - 1] \in White \union {NL}))
     THEN ToUpper(phrase[i]) ELSE phrase[i]]

(* A slip: the last blank, within the margin or not. *)
BreakAt_beyond(e) ==
  LET blanks == { p \in LineStart(e, e.dot)..(e.dot - 1) : CharAt(e, p) \in White }
  IN  IF blanks = {} THEN 0 ELSE Max(blanks)
(* Where the line is broken: the last blank within the margin; 0 for none. *)
BreakAt(e) ==
  LET fits == { p \in LineStart(e, e.dot)..(e.dot - 1) : CharAt(e, p) \in White /\ ColumnAt(e, p) <= e.right }
  IN  IF fits = {} THEN 0 ELSE Max(fits)

RECURSIVE SelfInsert(_, _, _), ToCol(_, _)

ToCol(e0, n) ==
  LET e == CurCol(e0)
      stops  == { k \in 0..n : LET c == IF k = 0 THEN e.col ELSE ((e.col - 1) \div TabSize + k) * TabSize + 1 IN c <= n }
      col(k) == IF k = 0 THEN e.col ELSE ((e.col - 1) \div TabSize + k) * TabSize + 1
      after  == FoldLeft(LAMBDA f, i : SelfInsert(f, Tab, 1), e, [i \in 1..Max(stops) |-> i])
      spaced == FoldLeft(LAMBDA f, i : SelfInsert(f, Blank, 1), after, [i \in 1..(n - col(Max(stops))) |-> i])
  IN  IF e.col >= n THEN e ELSE [spaced EXCEPT !.col = n]

(* Filling: the white space at the break becomes a line break and the      *)
(* left margin; without a break the line stays long.                       *)
Filled(e) ==
  LET at == BreakAt(e)
      cut == DeleteWhiteSpace(SetDot(e, at))
      new == ToCol(Put(cut, << NL >>), e.left)
  IN  IF at = 0 THEN EndOfLine(SetDot(e, LineStart(e, e.dot))) ELSE EndOfLine(new)

AtLineEnd(e) == e.dot > NumCharacters(e) \/ CharAt(e, e.dot) = NL
Round(e, c) ==
  LET looks == c > Blank /\ AtLineEnd(e) /\ e.dot > FirstCharacter(e)
      f == IF looks THEN CurCol(e) ELSE e
  IN  Put(IF looks /\ f.col > e.right THEN Filled(f) ELSE f, << c >>)

(* The phrase takes the place of the word; a hook that returns 0 has done  *)
(* everything.                                                             *)
AbbrevExpand(e) ==
  LET word == WordBefore(e)
      a    == lookup(e, LowerCase(word), e.abbrev)
      gone == SetDot(DelBack(e, e.dot, Len(word)), e.dot - Len(word))
      said == Cased(a.phrase, UpperCount(word))
      new  == FoldLeft(LAMBDA f, c : SelfInsert(f, c, 1), [gone EXCEPT !.abbrevOn = FALSE], said)
  IN  IF a.hook = "undefined" THEN [e |-> e, rv |-> FALSE]
      ELSE IF a.hook # NoHook THEN [e |-> [e EXCEPT !.abbrevOn = TRUE], rv |-> a.hook = "zero"]
      ELSE [e |-> [new EXCEPT !.abbrevOn = TRUE], rv |-> FALSE]

SelfInsert(e, c, rep) ==
  LET ends == /\ e.abbrevOn /\ ~IsWord(e, c)
              /\ e.dot - 1 >= FirstCharacter(e) /\ IsWord(e, CharAt(e, e.dot - 1))
      x == IF ends THEN AbbrevExpand(e) ELSE [e |-> e, rv |-> FALSE]
  IN  IF x.rv THEN x.e
      ELSE FoldLeft(LAMBDA f, i : Round(f, c), x.e, [i \in 1..Max({1, rep}) |-> i])

QuoteCharacter(e, c) == [SelfInsert([e EXCEPT !.abbrevOn = FALSE], c, 1) EXCEPT !.abbrevOn = e.abbrevOn]
NewlineAndIndent(e) == LET n == CurIndent(e) IN ToCol(SelfInsert(e, NL, 1), n)
MoveToCommentColumn(e, column) ==
  LET c == CurCol(e)
      left == IF c.col = 1 THEN 1 ELSE column
  IN  ToCol([c EXCEPT !.left = left], left)

(* The character before dot goes one back; the column is not told.         *)
TransposeCharacters(e) ==
  LET cut == DelBack(e, e.dot, 1)
      new == Inserted([cut EXCEPT !.dot = e.dot - 2], << CharAt(e, e.dot - 1) >>)
  IN  IF e.dot < 3 THEN e ELSE [new EXCEPT !.dot = e.dot]

(* Lines: the column aimed at is that of the first of several moves, or    *)
(* the end of the line.  Up is a negative n.                               *)
RECURSIVE LineAt(_, _, _), Along(_, _, _)
LineAt(e, d, n) ==
  IF n > 0 THEN LineAt(e, NextLineStart(e, d), n - 1)
  ELSE LET s == LineStart(e, d)
       IN  IF n = 0 THEN d ELSE IF n = -1 \/ s = FirstCharacter(e) THEN s ELSE LineAt(e, s - 1, n + 1)
Along(e, d, goal) ==
  LET at == SetDot(e, d)
  IN  IF ColumnAt(e, d) >= goal \/ d > NumCharacters(e) \/ CharAt(e, d) = NL THEN CalcCol(at) ELSE Along(e, d + 1, goal)
LineMove(e, n) ==
  LET c == CurCol(e)
      goal == IF e.goal # 0 THEN e.goal
              ELSE IF e.dot <= NumCharacters(e) /\ CharAt(e, e.dot) = NL THEN 9999 ELSE c.col
      to == LineAt(e, e.dot, IF n < 0 THEN n - 1 ELSE n)
  IN  IF n = 0 THEN e ELSE [Along(e, to, goal) EXCEPT !.goal = goal]
==============================================================================
