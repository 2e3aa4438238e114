---------------------------- MODULE PatternRules -----------------------------
(***************************************************************************)
(* What a pattern matches, by the rules of section 14.2 of the manual      *)
(* (man/emacs.doc:873-943).  A pattern is a sequence of alternatives, each *)
(* a sequence of items; Written is how it is typed.                        *)
(***************************************************************************)
EXTENDS Pattern

Item(k, x)   == [k |-> k, x |-> x, s |-> << >>, items |-> << >>, star |-> FALSE]
Repeat(i)    == [i EXCEPT !.star = TRUE]
Char(c)      == Item("char", c)
OneOf(s, neg) == [Item(IF neg THEN "notin" ELSE "in", 0) EXCEPT !.s = s]
Group(n, s)  == [Item("group", n) EXCEPT !.items = s]
Literal(s)   == << [i \in DOMAIN s |-> Char(s[i])] >>

TestKeys == [before |-> 60, at |-> 61, after |-> 62, bobuf |-> 96, eobuf |-> 39, bound |-> 98, nonbound |-> 66]

RECURSIVE WrittenItems(_)
WrittenItem(i) ==
  (CASE i.k = "char" -> IF i.x \in Special \union {Caret, Dollar} THEN << Backslash, i.x >> ELSE << i.x >>
     [] i.k = "any" -> << Dot >>
     [] i.k = "word" -> << Backslash, 119 >>
     [] i.k = "nonword" -> << Backslash, 87 >>
     [] i.k = "in" -> << LBrack >> \o i.s \o << RBrack >>
     [] i.k = "notin" -> << LBrack, Caret >> \o i.s \o << RBrack >>
     [] i.k = "bol" -> << Caret >>
     [] i.k = "eol" -> << Dollar >>
     [] i.k = "copy" -> << Backslash, 48 + i.x >>
     [] i.k = "group" -> << Backslash, LParen >> \o WrittenItems(i.items) \o << Backslash, RParen >>
     [] i.k \in DOMAIN TestKeys -> << Backslash, TestKeys[i.k] >>)
  \o (IF i.star THEN << Star >> ELSE << >>)
WrittenItems(s) == FlattenSeq([j \in DOMAIN s |-> WrittenItem(s[j])])
Written(p) == FlattenSeq([k \in DOMAIN p |-> (IF k = 1 THEN << >> ELSE << Backslash, Bar >>) \o WrittenItems(p[k])])

(* The members of a class: ranges a-b, and characters. *)
RECURSIVE Members(_)
Members(s) ==
  IF s = << >> THEN {}
  ELSE IF Len(s) >= 3 /\ s[2] = Dash THEN (s[1])..(s[3]) \union Members(SubSeq(s, 4, Len(s)))
  ELSE {s[1]} \union Members(Tail(s))

Same(b, c, d) == c = d \/ (b.fold /\ {c, d} \subseteq Letter /\ (c - d) % 32 = 0)
IsMember(b, c, s) == \E d \in Members(s) : Same(b, c, d)
WordAt(b, p) == p \in b.head..NumCharacters(b) /\ b.kind[b.text[p]] = "word"
AtEnd(b, p)  == p > NumCharacters(b)

(* How the items may match from h.at on: where that ends, with the groups; *)
(* edge when something is matched by no character at the end of the text.  *)
How(p) == [at |-> p, caps |-> << >>, edge |-> FALSE]
RECURSIVE Matches(_, _, _), Starred(_, _, _)
ItemMatches(b, i, h) ==
  LET p == h.at
      c == b.text[p]
      empty         == [h EXCEPT !.edge = @ \/ AtEnd(b, p)]
      when(cond, q) == IF cond THEN << [(IF q = p THEN empty ELSE h) EXCEPT !.at = q] >> ELSE << >>
      one(cond)     == when(~AtEnd(b, p) /\ cond, p + 1)
      end(cond)     == IF cond THEN << h >> ELSE << >>
  IN  CASE i.k = "char" -> one(Same(b, c, i.x))
        [] i.k = "any" -> one(c # NL)
        [] i.k = "word" -> one(WordAt(b, p))
        [] i.k = "nonword" -> one(~WordAt(b, p))
        [] i.k = "in" -> one(IsMember(b, c, i.s))
        [] i.k = "notin" -> one(~IsMember(b, c, i.s))
        [] i.k = "bol" -> when(p = b.head \/ b.text[p - 1] = NL, p)
        [] i.k = "eol" -> end(AtEnd(b, p) \/ c = NL)
        [] i.k = "bobuf" -> when(p = b.head, p)
        [] i.k = "eobuf" -> end(AtEnd(b, p))
        [] i.k = "before" -> when(p <= b.dot, p)
        [] i.k = "at" -> when(p = b.dot, p)
        [] i.k = "after" -> when(p >= b.dot, p)
        [] i.k = "bound" -> when(WordAt(b, p - 1) # WordAt(b, p), p)
        [] i.k = "nonbound" -> when(WordAt(b, p - 1) = WordAt(b, p), p)
        [] i.k = "copy" -> LET from == h.caps[i.x][1]
                               n == h.caps[i.x][2] - from
                           IN  when(p + n <= NumCharacters(b) + 1
                                    /\ \A k \in 0..(n - 1) : b.text[from + k] = b.text[p + k], p + n)
        [] i.k = "group" -> LET in == Matches(b, i.items, empty)
                            IN  [j \in DOMAIN in |-> [in[j] EXCEPT !.caps = (i.x :> << p, in[j].at >>) @@ @]]

(* As many as possible first. *)
Starred(b, i, h) ==
  LET once == SelectSeq(ItemMatches(b, i, h), LAMBDA o : o.at > h.at)
  IN  FlattenSeq([j \in DOMAIN once |-> Starred(b, i, once[j])]) \o << h >>

Matches(b, s, h) ==
  IF s = << >> THEN << h >>
  ELSE LET first == IF Head(s).star THEN Starred(b, [Head(s) EXCEPT !.star = FALSE], h)
                    ELSE ItemMatches(b, Head(s), h)
       IN  FlattenSeq([j \in DOMAIN first |-> Matches(b, Tail(s), first[j])])

(* By the rules of the manual (all), or those matches alone that have a    *)
(* character to begin with and nothing empty at the end of the text.       *)
MatchesAt(b, pat, p, all) ==
  SelectSeq(FlattenSeq([k \in DOMAIN pat |-> Matches(b, pat[k], How(p))]),
            LAMBDA h : all \/ (~h.edge /\ ~AtEnd(b, p)))

(* The longest of the leftmost matches, searching forward, or of the       *)
(* rightmost that begin before pos.                                        *)
NoMatch == [from |-> 0, to |-> 0, caps |-> << >>]
Longest(p, ms) ==
  LET end == Max({ ms[j].at : j \in DOMAIN ms })
      j   == Min({ i \in DOMAIN ms : ms[i].at = end })
  IN  [from |-> p, to |-> end, caps |-> ms[j].caps]
Best(b, pat, places, First(_), all) ==
  LET at(hits) == IF hits = {} THEN NoMatch ELSE Longest(First(hits), MatchesAt(b, pat, First(hits), all))
  IN  at({ p \in places : MatchesAt(b, pat, p, all) # << >> })
Next1(b, pat, pos, all)     == Best(b, pat, pos..(NumCharacters(b) + 1), Min, all)
Previous1(b, pat, pos, all) == Best(b, pat, b.head..(pos - 1), Max, all)

RECURSIVE NthMatch(_, _, _, _, _)
NthMatch(b, pat, n, pos, all) ==
  LET on(m) == IF m = NoMatch \/ n \in {1, -1} THEN m
               ELSE NthMatch(b, pat, n - (IF n > 0 THEN 1 ELSE -1), IF n > 0 THEN m.to ELSE m.from, all)
  IN  on(IF n > 0 THEN Next1(b, pat, pos, all) ELSE Previous1(b, pat, pos, all))
==============================================================================
