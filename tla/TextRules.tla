------------------------------ MODULE TextRules ------------------------------
(***************************************************************************)
(* What the commands of TextCommands are for: searches find what the       *)
(* manual's rules call a match, replacements change these and nothing      *)
(* else, parentheses are matched, typing and killing lose nothing.         *)
(***************************************************************************)
EXTENDS TextCommands

WasOk == did.op # "none" /\ ~e.stuck /\ ~g.hang

(***************************************************************************)
(* Searching.                                                              *)
(***************************************************************************)
GroupsAgree(m) == \A k \in DOMAIN m.caps : << g.bras[k], g.brae[k] >> = m.caps[k]

(* A search goes to the n-th place that matches by the manual, with its    *)
(* bounds and groups remembered for region-around-match, or fails and dot  *)
(* stays; a quoted string matches itself and nothing else.  Asking for the *)
(* last pattern again with an empty one finds what that pattern matches,   *)
(* whatever was replaced or looked at in between.                          *)
(* The exception is the end of the text, where by the manual a pattern may *)
(* match no character too: there only $, \' and starred items do, and no   *)
(* match begins (search.c:659, 673).  What is found then is the best of    *)
(* the matches without such.                                               *)
FoundAsMeant ==
  WasOk /\ did.op \in {"search", "again", "quoted"} /\ (did.op = "again" => ~did.g.c.bad) =>
    LET c == did.cmd
        times == IF c.n < 1 THEN 1 ELSE c.n
        found(m) == /\ e.err = (m = NoMatch)
                    /\ e.dot = IF e.err THEN did.e.dot ELSE IF c.back THEN m.from ELSE m.to
                    /\ ~e.err => g.loc1 = m.from /\ g.loc2 = m.to /\ GroupsAgree(m)
        meant(all) == NthMatch(did.e, c.pat, IF c.back THEN -times ELSE times, did.e.dot, all)
    IN  /\ found(meant(TRUE)) \/ (meant(FALSE) # meant(TRUE) /\ found(meant(FALSE)))
        /\ e.text = did.e.text

(***************************************************************************)
(* Replacing.                                                              *)
(***************************************************************************)
(* The template, as meant: the whole match, a group, or characters.        *)
RawCase(w) ==
  IF w # << >> /\ \A i \in DOMAIN w : w[i] \in Upper
  THEN IF Len(w) = 1 THEN "First" ELSE "UPPER"
  ELSE IF w # << >> /\ w[1] \in Upper THEN "First" ELSE "do_nothing"
Meant(b, m, t) ==
  LET w == SubSeq(b.text, m.from, m.to - 1)
      piece(x) == CASE x.k = "whole" -> w
                    [] x.k = "group" -> SubSeq(b.text, m.caps[x.x][1], m.caps[x.x][2] - 1)
                    [] x.k = "char" -> << x.x >>
      all == FlattenSeq([i \in DOMAIN t |-> piece(t[i])])
      how == IF b.cased THEN RawCase(w) ELSE "do_nothing"
  IN  [i \in DOMAIN all |-> IF how = "UPPER" \/ (how = "First" /\ i = 1) THEN ToUpper(all[i]) ELSE all[i]]

(* The text from pos on when the answers are followed: each change, or not. *)
RECURSIVE Rewritten(_, _, _, _, _)
Rewritten(b, c, answers, pos, ever) ==
  LET all   == ever \/ ~c.query
      rest  == SubSeq(b.text, pos, Len(b.text))
      go(a, tail, m) ==
        LET before == SubSeq(b.text, pos, m.from - 1)
            new   == before \o Meant(b, m, c.template)
            after == SubSeq(b.text, m.to, Len(b.text))
            skip  == IF m.from = m.to THEN SubSeq(b.text, m.to, Min({m.to, NumCharacters(b)})) ELSE << >>
            away  == SelectInSeq(tail, LAMBDA k : k \notin {"comma", "other"})
            on(left, e1) == new \o skip \o Rewritten(b, c, left, m.to + Len(skip), e1)
        IN  IF m = NoMatch THEN rest
            ELSE IF m.from = m.to /\ m.to > NumCharacters(b) THEN new \o rest
            ELSE CASE a = "other" -> Rewritten(b, c, tail, pos, FALSE)
                   [] a = "quit"  -> rest
                   [] a = "dot"   -> new \o after
                   [] a = "skip"  -> before \o SubSeq(b.text, m.from, m.to - 1) \o Rewritten(b, c, tail, m.to, FALSE)
                   [] a \in {"space", "bang"} -> on(tail, a = "bang")
                   [] a = "comma" ->    \* changed now; the next key that is not "," says whether to go on
                        IF away = 0 \/ tail[away] \in {"dot", "quit"} THEN new \o after
                        ELSE on(SubSeq(tail, away + 1, Len(tail)), tail[away] = "bang")
  IN  IF pos > NumCharacters(b) \/ (~all /\ answers = << >>) THEN rest
      ELSE go(IF all THEN "bang" ELSE Head(answers), IF all THEN answers ELSE Tail(answers),
              Next1(b, c.pat, pos, FALSE))

(* When a replacement is over, by an answer, at its last match or at once  *)
(* when nothing is asked, and each time that it waits for an answer, the   *)
(* text is what the matches in the original text and the answers make of   *)
(* it: every match that was agreed to is replaced by the template, once,   *)
(* and nothing else changes, whatever the template brings in that matches  *)
(* again.  After a recursive edit this holds of the text as the edit left  *)
(* it, from the place of the match on, with the pattern there was before.  *)
(* Matches are those that begin at a character and have nothing empty at   *)
(* the end of the text (FoundAsMeant).                                     *)
ReplacedAsMeant ==
  LET a == did.ask
  IN  WasOk /\ a # NoAsk =>
        e.text = SubSeq(a.from.text, 1, a.from.dot - 1)
                 \o Rewritten(a.from, a.cmd, a.answers, a.from.dot, FALSE)

(***************************************************************************)
(* Parentheses.                                                            *)
(***************************************************************************)
PairKind(c) == e.tables[e.syntax][c].kind
(* What is left of text, read in the direction of the move, when strings   *)
(* and matching pairs are taken out.                                       *)
Reduced(s, opens) ==
  LET step(st, c) ==
        CASE st.quote # Nul -> [st EXCEPT !.quote = IF c = @ THEN Nul ELSE @]
          [] PairKind(c) = "quote" -> [st EXCEPT !.quote = c]
          [] PairKind(c) = opens -> [st EXCEPT !.left = Append(@, c)]
          [] PairKind(c) \in {"begin", "end"} \ {opens} ->
               IF st.left # << >> /\ e.tables[e.syntax][c].match = Last(st.left)
               THEN [st EXCEPT !.left = Front(@), !.last = "pair"]
               ELSE [st EXCEPT !.left = Append(@, c), !.last = "lone"]
          [] OTHER -> st
  IN  FoldLeft(step, [left |-> << >>, quote |-> Nul, last |-> "none"], s)

(* Moving by parentheses crosses one balanced group, or what there is      *)
(* before a parenthesis that closes more than was opened, up to that       *)
(* parenthesis and no less; strings do not count.                          *)
ParensMatch ==
  WasOk /\ did.op = "paren" /\ ~did.cmd.lines /\ ~e.err /\ e.value = 1 =>
    LET fwd  == did.cmd.forward
        opens == IF fwd THEN "begin" ELSE "end"
        seg  == IF fwd THEN SubSeq(e.text, did.e.dot, e.dot - 1) ELSE Reverse(SubSeq(e.text, e.dot, did.e.dot - 1))
        over(k) == LET r == Reduced(SubSeq(seg, 1, k), opens)
                   IN  (r.left = << >> /\ r.last = "pair") \/ (r.last = "lone" /\ Len(r.left) = 1)
    IN  over(Len(seg)) /\ \A k \in 1..(Len(seg) - 1) : ~over(k)

(***************************************************************************)
(* Typing.                                                                 *)
(***************************************************************************)
Visible(s) == SelectSeq(s, LAMBDA c : c \notin White \union {NL})
Expands(f) ==
  LET a == lookup(f, LowerCase(WordBefore(f)), f.abbrev)
  IN  IF a.hook = NoHook THEN a.phrase ELSE WordBefore(f)

Overlong(f) == AtLineEnd(f) /\ ColumnAt(f, f.dot) > f.right
Breaks(f)   == { p \in LineStart(f, f.dot)..(f.dot - 1) : CharAt(f, p) \in White /\ ColumnAt(f, p) <= f.right }

(* Typing a character loses nothing that can be seen: what was there is    *)
(* there in the same order, with the character in its place and an         *)
(* abbreviation before it expanded, however lines are broken.  A line that *)
(* has gone beyond the right margin is broken at its last blank within it. *)
TypedTextKept ==
  WasOk /\ did.op = "type" =>
    LET f == did.e
        word == WordBefore(f)
        ends == f.abbrevOn /\ ~IsWord(f, did.cmd.c)
        said == IF ends THEN Expands(f) ELSE word
        zero == ends /\ word # << >> /\ lookup(f, LowerCase(word), f.abbrev).hook = "zero"
        before == SubSeq(f.text, 1, f.dot - 1 - Len(word))
        after  == SubSeq(f.text, f.dot, Len(f.text))
        typed  == [i \in 1..(IF zero THEN 0 ELSE did.cmd.n) |-> did.cmd.c]
    IN  /\ LowerCase(Visible(e.text)) = LowerCase(Visible(before \o said \o typed \o after))
        /\ SubSeq(e.text, e.dot, Len(e.text)) = after
        /\ Overlong(f) /\ said = word /\ did.cmd.n = 1 /\ did.cmd.c > Blank /\ Breaks(f) # {} =>
             \E q \in DOMAIN e.text :
               /\ e.text[q] = NL /\ ColumnAt(e, q) <= e.right
               /\ Visible(SubSeq(e.text, 1, q)) = Visible(SubSeq(f.text, 1, Max(Breaks(f))))

(***************************************************************************)
(* Killing.                                                                *)
(***************************************************************************)
(* What went into the buffer: all of it, or what was put before or after   *)
(* the text that was there.                                                *)
Added(before, after, where) ==
  LET n == Len(after) - Len(before)
  IN  CASE where = 0 -> after
        [] where > 0 -> SubSeq(after, Len(before) + 1, Len(after))
        [] OTHER     -> SubSeq(after, 1, n)
Earlier(f, name) == IF name \in DOMAIN f.bufs THEN f.bufs[name] ELSE << >>
PutBack(f, s) == SubSeq(f.text, 1, f.dot - 1) \o s \o SubSeq(f.text, f.dot, Len(f.text))

(* What is killed is in the kill buffer: put back where dot is left it     *)
(* makes the text what it was, after a whole run of kill-to-end-of-line    *)
(* too, and yank-from-killbuffer does that.  Text copied or moved to a     *)
(* buffer is added to what the buffer held, which stays; hidden text does  *)
(* not go.                                                                 *)
KilledComesBack ==
  WasOk /\ did.op \in {"kill-line", "kill-region", "region", "yank"} /\ ~e.err =>
    LET c == did.cmd
        f == did.since
        name  == IF did.op = "region" THEN c.name ELSE KillBuffer
        where == IF did.op = "region" THEN c.where ELSE 0
        added == Added(Earlier(f, name), e.bufs[name], where)
    IN  CASE did.op = "yank" -> f # did.e /\ c.name = KillBuffer => e.text = f.text
          [] did.op = "region" /\ ~c.doit ->
               e.text = f.text /\ Joined(Earlier(f, name), where, added) = e.bufs[name]
               /\ \E p \in {f.dot, f.mark} \ {NoMark, 0} : PutBack([f EXCEPT !.text = SubSeq(@, 1, p - 1) \o SubSeq(@, p + Len(added), Len(@)), !.dot = p], added) = f.text
          [] OTHER -> /\ PutBack(e, added) = f.text
                      /\ Joined(Earlier(f, name), where, added) = e.bufs[name]
                      /\ SubSeq(e.text, 1, e.head - 1) = SubSeq(f.text, 1, f.head - 1)
                      /\ Len(e.text) - e.tail = NumCharacters(f) - Len(added)

==============================================================================
