----------------------------- MODULE TextCommands -----------------------------
(***************************************************************************)
(* The commands that work on text, given one after another to an editor    *)
(* of one buffer: searching, replacing with and without asking, syntax     *)
(* tables, words, parentheses, typing, abbreviations, killing.             *)
(*                                                                         *)
(* A scene is the text to begin with, the commands that may be given, the  *)
(* keys that answer a question, and how many steps are taken.              *)
(***************************************************************************)
EXTENDS Kills, PatternRules

CONSTANTS
  Scenes,
  Memory    \* what memory that malloc returns may hold

VARIABLES
  e,      \* the editor
  g,      \* search_globals
  ask,    \* the replacement that waits for a key
  did,    \* the command given last, and what there was before it; since: before a run of kills;
          \* ask: the replacement as the command left it, over or waiting
  scene, steps

vars == << e, g, ask, did, scene, steps >>

NoAsk  == [on |-> FALSE, edits |-> FALSE]
NoCmd  == [op |-> "none", ask |-> NoAsk]

(* A pattern is given as its meaning, and typed as it is written. *)
Typed(c) == IF c.re THEN Written(c.pat) ELSE [i \in DOMAIN c.pat[1] |-> c.pat[1][i].x]

Init ==
  /\ scene \in Scenes
  /\ e = scene.start
  /\ g = Globals
  /\ ask = NoAsk
  /\ did = NoCmd
  /\ steps = 0

(* After a command dot is brought back into the text that is shown; the    *)
(* column to aim at is forgotten unless the command moves by lines.        *)
Clamped(f) ==
  IF f.dot < FirstCharacter(f) THEN SetDot(f, FirstCharacter(f))
  ELSE IF f.dot > NumCharacters(f) + 1 THEN SetDot(f, NumCharacters(f) + 1) ELSE f

Ready == steps < scene.max /\ ~e.stuck /\ ~g.hang
Begin == [e EXCEPT !.err = FALSE]
Given(ops) == { c \in scene.cmds : c.op \in ops }
Free == Ready /\ (~ask.on \/ ask.edits)

DoneAsking(c, f, h, a) ==
  LET k == Clamped(f)
  IN  /\ e' = IF c.op = "line" THEN k ELSE [k EXCEPT !.goal = 0]
      /\ g' = [h EXCEPT !.err = FALSE]
      /\ did' = [op |-> c.op, cmd |-> c, e |-> e, g |-> g, ask |-> a,
                 since |-> IF did.op = "kill-line" /\ c.op \in {"kill-line", "yank"} THEN did.since ELSE e]
      /\ steps' = steps + 1
      /\ UNCHANGED scene
Done(c, f, h) == DoneAsking(c, f, h, NoAsk)

(***************************************************************************)
(* Searching.                                                              *)
(***************************************************************************)
Went(f, r) ==
  IF r.pos > 0 THEN SetDot(f, r.pos) ELSE [f EXCEPT !.err = TRUE]
Arrive(c, r) == Done(c, Went(Begin, r), r.g)

Search ==
  /\ Free
  /\ \E c \in Given({"search", "again"}) :
       LET times == IF c.n < 1 THEN 1 ELSE c.n
       IN  Arrive(c, search(e, g, IF c.op = "again" THEN << >> ELSE Typed(c),
                            IF c.back THEN -times ELSE times, e.dot, c.re))
  /\ UNCHANGED ask

(* What quote makes of a string is searched for as a pattern. *)
SearchQuoted ==
  /\ Free
  /\ \E c \in Given({"quoted"}), memory \in Memory :
       Arrive(c, search(e, g, Quote([i \in DOMAIN c.pat[1] |-> c.pat[1][i].x], memory), 1, e.dot, TRUE))
  /\ UNCHANGED ask

Look ==
  /\ Free
  /\ g.trt # "none"
  /\ \E c \in Given({"looking-at"}) :
       LET at(r) == Done(c, [Begin EXCEPT !.err = r.err], r) IN at(LookingAt(e, g, Typed(c)))
  /\ UNCHANGED ask

(* A group that took no part in the match is at 0: the mark goes before    *)
(* the text, and dot comes back into it when the command ends.             *)
RegionAroundMatch ==
  /\ Free
  /\ \E c \in Given({"region-around-match"}) :
       LET lo == IF c.n = 0 THEN g.loc1 ELSE g.bras[c.n]
           hi == IF c.n = 0 THEN g.loc2 ELSE g.brae[c.n]
           out == c.n \notin 0..g.c.nbra
       IN  Done(c, IF out THEN [Begin EXCEPT !.err = TRUE]
                   ELSE SetDot([Begin EXCEPT !.mark = lo], Max({hi, FirstCharacter(e)})), g)
  /\ UNCHANGED ask

(***************************************************************************)
(* Replacing.                                                              *)
(***************************************************************************)
(* What replace-case finds: the scan stops at a letter that is lower case  *)
(* where an upper case one is called for.                                  *)
CaseOf(f, h) ==
  LET first == [act |-> "do_nothing", str |-> TRUE, over |-> FALSE,
                word |-> h.loc1 <= FirstCharacter(f) \/ CharAt(f, h.loc1 - 1) \notin Letter]
      upper(s) == IF s.str THEN "First" ELSE IF s.word /\ s.act # "UPPER" THEN "FirstAll" ELSE "UPPER"
      see(s, p) ==
        LET c == CharAt(f, p)
        IN  IF s.over THEN s
            ELSE IF c \notin Letter THEN [s EXCEPT !.word = TRUE]
            ELSE IF c \in Upper THEN [s EXCEPT !.act = upper(s), !.str = FALSE, !.word = FALSE]
            ELSE IF s.act = "UPPER" \/ (s.act = "FirstAll" /\ s.word) THEN [s EXCEPT !.act = "do_nothing", !.over = TRUE]
            ELSE [s EXCEPT !.str = FALSE, !.word = FALSE]
  IN  IF ~f.cased THEN "do_nothing"
      ELSE FoldLeft(see, first, [i \in 1..(h.loc2 - h.loc1) |-> h.loc1 + i - 1]).act

(* A slip: the second of two backslashes quotes what follows. *)
QuotesNext_always(s, c, re) == re /\ c = Backslash
QuotesNext(s, c, re) == re /\ c = Backslash /\ ~s.prefix

(* What the template stands for.  \& is an ampersand. *)
Expanded(f, h, template, re) ==
  LET act == CaseOf(f, h)
      next(s, c) ==
        LET letter == act # "do_nothing" /\ ~s.prefix /\ c \in Letter
            up  == act = "UPPER" \/ (act = "FirstAll" /\ s.word) \/ (act = "First" /\ s.str)
            k   == c - 48
            out == CASE QuotesNext(s, c, re) -> << >>
                     [] re /\ ~s.prefix /\ c = Amp -> SubSeq(f.text, h.loc1, h.loc2 - 1)
                     [] s.prefix /\ k \in 1..h.c.nbra -> SubSeq(f.text, h.bras[k], h.brae[k] - 1)
                     [] OTHER -> << IF letter /\ up THEN ToUpper(c) ELSE c >>
        IN  [out |-> s.out \o out, prefix |-> QuotesNext(s, c, re),
             word |-> ~letter, str |-> s.str /\ ~letter]
      start == [out |-> << >>, prefix |-> FALSE, str |-> TRUE,
                word |-> f.dot <= FirstCharacter(f) \/ CharAt(f, f.dot - 1) \notin Letter]
  IN  FoldLeft(next, start, template).out

(* The match that ends at dot gives way; after an empty one dot goes on.   *)
Replace(f, h, template, re) ==
  LET size == h.loc2 - h.loc1
      drop(new) == IF size = 0 THEN SetDot(new, new.dot + 1)
                   ELSE DelBack(SetDot(new, new.dot - size), h.loc2, size)
  IN  drop(Put(f, Expanded(f, h, template, re)))

Finish(a, f) == SetDot([f EXCEPT !.err = @ \/ a.replaced = 0], a.olddot)

(* To the next match; without questions all of them at once.               *)
RECURSIVE ReplaceOn(_, _, _)
ReplaceOn(a, f, h) ==
  LET at(r) ==
        IF r.pos <= 0 THEN [a |-> [a EXCEPT !.on = FALSE], e |-> Finish(a, f), g |-> r.g]
        ELSE IF a.query THEN [a |-> [a EXCEPT !.comma = FALSE], e |-> SetDot(f, r.pos), g |-> r.g]
        ELSE ReplaceOn([a EXCEPT !.replaced = @ + 1],
                       Replace(SetDot(f, r.pos), r.g, a.cmd.new, a.cmd.re), r.g)
  IN  at(search(f, h, << >>, 1, f.dot, a.cmd.re))

(* A step of a replacement: over, or asking at a match. *)
Step(c, r) ==
  /\ DoneAsking(c, r.e, r.g, r.a)
  /\ ask' = IF r.a.on THEN r.a ELSE NoAsk

PerformReplace ==
  /\ Free /\ ~ask.on
  /\ \E c \in Given({"replace"}) :
       LET h == compile(g, Typed(c), c.re)
           a == [on |-> TRUE, cmd |-> c, query |-> c.query, comma |-> FALSE, replaced |-> 0, olddot |-> e.dot,
                 edits |-> FALSE, answers |-> << >>, from |-> e, saved |-> h]
       IN  IF h.err THEN Done(c, [Begin EXCEPT !.err = TRUE], h) /\ UNCHANGED ask
           ELSE Step(c, ReplaceOn(a, Begin, h))

Changes == {"space", "bang", "dot", "comma"}
Answered(a, key) == [a EXCEPT !.answers = Append(@, key)]

(* A key for the question: change here or not, then stop, ask again at the *)
(* same place, or go on.                                                   *)
Answer ==
  /\ Ready
  /\ ask.on /\ ~ask.edits
  /\ \E key \in scene.keys \ {"r"} :
       LET change == key \in Changes /\ ~ask.comma
           a == [Answered(ask, key) EXCEPT !.replaced = IF change THEN @ + 1 ELSE @,
                                           !.query = key # "bang",
                                           !.comma = @ \/ key = "comma"]
           then(f) ==
             CASE key \in {"dot", "quit"} -> [a |-> [a EXCEPT !.on = FALSE], e |-> Finish(a, f), g |-> g]
               [] key \in {"comma", "other"} -> [a |-> a, e |-> f, g |-> g]
               [] OTHER -> ReplaceOn(a, f, g)
       IN  Step([op |-> "answer", key |-> key],
                then(IF change THEN Replace(e, g, ask.cmd.new, ask.cmd.re) ELSE e))

(* r: a recursive edit, with a marker at the match; then the search goes   *)
(* on from the marker with the globals that were saved.  From there on     *)
(* the text is another.                                                    *)
Edit ==
  /\ Ready
  /\ ask.on /\ ~ask.edits /\ "r" \in scene.keys
  /\ ask' = [Answered(ask, "r") EXCEPT !.edits = TRUE, !.saved = g]
  /\ Done([op |-> "answer", key |-> "r"], [e EXCEPT !.hold = g.loc1], g)

Resume ==
  /\ Ready
  /\ ask.edits
  /\ LET f == SetDot([Begin EXCEPT !.hold = 0], e.hold)
     IN  Step([op |-> "answer", key |-> "^C"],
              ReplaceOn([ask EXCEPT !.edits = FALSE, !.answers = << >>, !.from = f], f, ask.saved))

(***************************************************************************)
(* The other commands.                                                     *)
(***************************************************************************)
Scanned(s) == [s.e EXCEPT !.value = s.got]      \* what MLisp is told

Plain(c) ==
  CASE c.op = "use-syntax"  -> UseSyntaxTable(Begin, c.name)
    [] c.op = "syntax"      -> ModifySyntaxEntry(Begin, c.entry, c.lo, c.hi)
    [] c.op = "word"        -> WordOperation(Begin, c.step, c.n, c.delete)
    [] c.op = "case-word"   -> CaseWord(Begin, c.mode, c.n)
    [] c.op = "case-region" -> CaseRegion(Begin, c.mode)
    [] c.op = "set-mark"    -> [Begin EXCEPT !.mark = e.dot]
    [] c.op = "goto"        -> SetDot(Begin, c.n)
    [] c.op = "paren"       -> Scanned(ParenScan(Begin, c.lines, c.forward, FALSE))
    [] c.op = "type"        -> SelfInsert(Begin, c.c, c.n)
    [] c.op = "quote"       -> QuoteCharacter(Begin, c.c)
    [] c.op = "indent"      -> NewlineAndIndent(Begin)
    [] c.op = "to-col"      -> ToCol(Begin, c.n)
    [] c.op = "comment"     -> MoveToCommentColumn(Begin, c.n)
    [] c.op = "white"       -> DeleteWhiteSpace(Begin)
    [] c.op = "transpose"   -> TransposeCharacters(Begin)
    [] c.op = "column"      -> CurCol(Begin)
    [] c.op = "line"        -> LineMove(Begin, c.n)
    [] c.op = "line-end"    -> EndOfLine(Begin)
    [] c.op = "abbrev"      -> DefineAbbrev(Begin, c.table, c.name, c.a)
    [] c.op = "use-abbrev"  -> UseAbbrevTable(Begin, c.name)
    [] c.op = "expand"      -> AbbrevExpand(Begin).e
    [] c.op = "kill-line"   -> KillToEndOfLine(Begin, did.op = "kill-line", c.n)
    [] c.op = "kill-region" -> DeleteToKillbuffer(Begin)
    [] c.op = "region"      -> RegionToBuffer(Begin, c.where, c.doit, c.name)
    [] c.op = "yank"        -> InsertBuffer(Begin, c.name)

PlainOps == {"use-syntax", "syntax", "word", "case-word", "case-region", "set-mark", "goto", "paren", "type", "quote",
             "indent", "to-col", "comment", "white", "transpose", "column", "line", "line-end", "abbrev", "use-abbrev", "expand",
             "kill-line", "kill-region", "region", "yank"}

Command ==
  /\ Free
  /\ \E c \in Given(PlainOps) : Done(c, Plain(c), g)
  /\ UNCHANGED ask

Next ==
  \/ Search \/ SearchQuoted \/ Look \/ RegionAroundMatch
  \/ PerformReplace \/ Answer \/ Edit \/ Resume
  \/ Command

Spec == Init /\ [][Next]_vars
==============================================================================
