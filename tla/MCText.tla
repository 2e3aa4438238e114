------------------------------- MODULE MCText -------------------------------
(* Scenes for model checking the text commands. *)
EXTENDS TextRules

BeyondVal == << 65, 0, 0 >>
CodesVal == {0, 1, 9, 10, 32, 34, 38, 40, 41, 42, 46, 65, 66, 88, 89, 91, 92, 93, 97, 98, 99, 120, 121, 127}

a == 97
b == 98
x == 120
y == 121
Word(s) == [i \in DOMAIN s |-> s[i]]
Editing(text, dot) ==
  [text |-> text, head |-> 1, tail |-> 0, dot |-> IF dot > Len(text) THEN Len(text) + 1 ELSE dot, mark |-> NoMark, hold |-> 0, fold |-> FALSE, cased |-> FALSE,
   tables |-> (Global :> GlobalSyntaxTable), syntax |-> Global, kind |-> Kinds(GlobalSyntaxTable),
   col |-> 0, goal |-> 0, left |-> 1, right |-> 6, abbrevs |-> ("global" :> << >>), abbrev |-> "", abbrevOn |-> FALSE, bufs |-> << >>,
   value |-> 0, err |-> FALSE, stuck |-> FALSE]
Scene(start, cmds, keys, max) == [start |-> start, cmds |-> cmds, keys |-> keys, max |-> max]

(* Patterns of up to two items and of chosen larger shapes. *)
A == Char(a)
B == Char(b)
Dots == Item("any", 0)
Items == { A, Repeat(A), B, Dots, Repeat(Dots), OneOf(<< a >>, TRUE), Repeat(OneOf(<< a, Dash, 99 >>, FALSE)),
           Item("word", 0), Repeat(Item("nonword", 0)), Item("bol", 0), Item("eol", 0), Item("bobuf", 0), Item("eobuf", 0),
           Item("before", 0), Item("at", 0), Item("after", 0), Item("bound", 0), Item("nonbound", 0) }
Shapes == { << Group(1, << A, Repeat(A) >>), B, Item("copy", 1) >>, << Group(1, << Dots >>), Item("copy", 1) >>,
            << Group(1, << A, Group(2, << Repeat(Dots) >>) >>), B >>, << Repeat(A), A, Repeat(B), B >>,
            << Repeat(Dots), Group(1, << B >>), Repeat(A) >> }
Patterns == { << << i >> >> : i \in Items } \union { << << i, j >> >> : i \in Items \ {Item("eol", 0)}, j \in Items \ {Item("bol", 0)} } \union { << s >> : s \in Shapes }
            \union { << << A, B >>, << B >> >>, << << Group(1, << A >>), A >>, << B, Group(2, << A >>) >> >> }
Strings == { << a >>, << a, b >>, << b, a, a >>, << a, Star >>, << Dot, a >>, << LBrack, a >>, << Backslash, b >> }
Texts == { << a, a, b, NL, b, a >>, << b, a, Blank, a, a, b >>, << 65, b, 66, a >>, << >>, << a, Star, Backslash, b, LBrack, a >> }
Find(op, pat, n, back, re) == [op |-> op, pat |-> pat, n |-> n, back |-> back, re |-> re]
Finding == { Scene([Editing(t, d) EXCEPT !.fold = f],
               { Find("search", p, n, k, TRUE) : p \in Patterns, n \in {0, 2}, k \in BOOLEAN }
               \union { Find("search", Literal(s), 1, k, FALSE) : s \in Strings, k \in BOOLEAN }
               \union { Find("quoted", Literal(s), 1, FALSE, TRUE) : s \in Strings }, {}, 1)
             : t \in Texts, d \in {1, 3}, f \in BOOLEAN }
Shown == { Scene([Editing(t, d) EXCEPT !.head = 3, !.tail = 1],
               { Find("search", p, 1, k, TRUE) : p \in Patterns, k \in BOOLEAN }, {}, 1)
             : t \in {<< a, b, a, a, b, a >>, << a, NL, a, NL, b, NL, a >>}, d \in {3, 5} }

(* Searches and looks, one after another. *)
LookAt(p) == [op |-> "looking-at", pat |-> p, re |-> TRUE]
Again == { Scene(Editing(<< a, b, a, a, b >>, 1),
             { Find("search", p, 1, FALSE, TRUE), Find("again", p, 1, FALSE, TRUE), Find("again", p, 1, TRUE, TRUE), LookAt(p),
               [op |-> "region-around-match", n |-> 0], [op |-> "region-around-match", n |-> 1],
               [op |-> "case-region", mode |-> "upper"], [op |-> "goto", n |-> 1] }, {}, 4)
           : p \in { << << Group(1, << A >>), B >> >>, << << Repeat(A) >> >> } }

(* Replacing. *)
Whole == Char(Amp)
In(k, v) == [k |-> k, x |-> v]
Tmpl(t) == FlattenSeq([i \in DOMAIN t |->
  CASE t[i].k = "whole" -> << Amp >> [] t[i].k = "group" -> << Backslash, 48 + t[i].x >>
    [] t[i].k = "char" -> IF t[i].x \in {Amp, Backslash} THEN << Backslash, t[i].x >> ELSE << t[i].x >>])
Chars(s) == [i \in DOMAIN s |-> In("char", s[i])]
Replacement(pat, t, re, query) ==
  [op |-> "replace", pat |-> pat, template |-> t, new |-> IF re THEN Tmpl(t) ELSE [i \in DOMAIN t |-> t[i].x], re |-> re, query |-> query]
Templates == { Chars(<< >>), Chars(<< a >>), Chars(<< x, a, b >>), << In("whole", 0), In("char", Amp), In("whole", 0) >>,
               << In("char", Backslash), In("group", 1), In("char", x) >> }
Rewriting == { Scene([Editing(t, d) EXCEPT !.cased = c],
                 { Replacement(p, r, TRUE, FALSE) : p \in { << << Group(1, << Repeat(A) >>), B >> >>, << << Group(1, << Dots >>) >> >>,
                                                            << << Group(1, << >>), Item("eol", 0) >> >>, << << Group(1, << B >>), Repeat(A) >> >> },
                                                    r \in Templates }
                 \union { Replacement(Literal(s), Chars(r), FALSE, FALSE) : s \in {<< a, b >>, << b >>}, r \in {<< >>, << x, y >>, << a, b >>} }
                 \union { Replacement(<< << Repeat(A) >> >>, Chars(<< x >>), TRUE, FALSE) }, {}, 1)
             : t \in { << a, b, a, a, b >>, << a, NL, b, b, NL, a, b >>, << >> }, d \in {1, 2}, c \in {FALSE} }
Casing == { Scene([Editing(t, 1) EXCEPT !.cased = TRUE, !.fold = TRUE],
              { Replacement(Literal(<< a, b >>), Chars(r), FALSE, FALSE) : r \in { << x, y >>, << x >> } }, {}, 1)
            : t \in { << a, b, Blank, 65, 66, Blank, 65, b >>, << 65, 66, 65, 66 >> } }
Asking == { Scene(Editing(<< a, b, Blank, b, a, b >>, 1),
              { Replacement(<< << B >> >>, Chars(<< x, b >>), TRUE, TRUE),
                Replacement(<< << Repeat(A) >> >>, << In("whole", 0), In("char", y) >>, TRUE, TRUE) },
              {"space", "bang", "dot", "comma", "skip", "quit", "other"}, 5),
            Scene(Editing(<< a, b, Blank, b, a, b >>, 1),
              { Replacement(<< << B >> >>, Chars(<< x, b >>), TRUE, TRUE),
                [op |-> "type", c |-> x, n |-> 1], Find("search", << << A >> >>, 1, FALSE, TRUE),
                [op |-> "goto", n |-> 1], [op |-> "word", step |-> 1, n |-> 1, delete |-> TRUE] },
              {"space", "r", "skip"}, 6) }

(* Words, case and parentheses. *)
ByParen(f, l) == [op |-> "paren", forward |-> f, lines |-> l]
ParenTable == [GlobalSyntaxTable EXCEPT ![LParen] = Entry("begin", RParen), ![RParen] = Entry("end", LParen),
                 ![LBrack] = Entry("begin", RBrack), ![RBrack] = Entry("end", LBrack), ![34] = Entry("quote", Nul)]
Lispy(t, d) == [Editing(t, d) EXCEPT !.tables = ("lisp" :> ParenTable) @@ @, !.syntax = "lisp", !.kind = Kinds(ParenTable)]
Marks == {LParen, RParen, RBrack, 34, a}
Parens == { Scene(Lispy(t, d), { ByParen(TRUE, FALSE), ByParen(FALSE, FALSE) }, {}, 2)
            : t \in [1..5 -> Marks], d \in {1, 4, 6} }
Lines == { Scene(Lispy(t, d), { ByParen(TRUE, TRUE), ByParen(FALSE, TRUE), ByParen(FALSE, FALSE) }, {}, 2)
           : t \in { << NL, LParen, a, NL, LParen, a, RParen, RParen, Blank, NL, a >>, << Blank, LParen, RParen, NL, RParen >> }, d \in {2, 5} }
Move(k, m, del) == [op |-> "word", step |-> k, n |-> m, delete |-> del]
Words == { Scene(Editing(<< a, b, Blank, 65, x, Dot, y >>, d),
             { Move(1, 1, FALSE), Move(-1, 2, FALSE), Move(1, 1, TRUE), Move(-1, 1, TRUE),
               [op |-> "case-word", mode |-> "capitalize", n |-> 1], [op |-> "case-word", mode |-> "invert", n |-> 2],
               [op |-> "set-mark"], [op |-> "case-region", mode |-> "lower"],
               [op |-> "use-syntax", name |-> "t"], [op |-> "use-syntax", name |-> "u"],
               [op |-> "syntax", entry |-> Entry("word", Nul), lo |-> Dot, hi |-> Dot + 1],
               [op |-> "syntax", entry |-> Entry("dull", Nul), lo |-> 120, hi |-> 127] }, {}, 3) : d \in {1, 5} }

(* Typing. *)
Key(c, m) == [op |-> "type", c |-> c, n |-> m]
Typings == { Scene([Editing(t, Len(t) + 1) EXCEPT !.left = l],
               { Key(a, 1), Key(Blank, 1), Key(x, 3), Key(NL, 1), Key(Tab, 1), [op |-> "indent"], [op |-> "white"],
                 [op |-> "line-end"], [op |-> "line", n |-> -1], [op |-> "column"], [op |-> "comment", n |-> 5] }, {}, 4)
             : t \in { << a, a, Blank, b, b >>, << Blank, a, NL, a, b, Blank, a, a >> }, l \in {1, 3} }
Columns == { Scene(Editing(<< a, Tab, b, NL, 1, x >>, 3),
               { [op |-> "line", n |-> k] : k \in {-1, 1} }
               \union { [op |-> "column"], [op |-> "transpose"], [op |-> "to-col", n |-> 9], [op |-> "white"], [op |-> "line-end"], [op |-> "goto", n |-> 2] }, {}, 5) }
Short(name, phrase, hook) == [op |-> "abbrev", table |-> "global", name |-> name, a |-> Abbrev(phrase, hook)]
Abbrevs == { Scene([Editing(<< 65, a, Blank >>, d) EXCEPT !.right = 20],
               { Short(<< a >>, << x, y, Blank, b >>, NoHook), Short(<< a, a >>, << b >>, NoHook), Short(<< a >>, << >>, "zero"),
                 [Short(<< b >>, << x >>, NoHook) EXCEPT !.table = "local"], [op |-> "use-abbrev", name |-> "t"],
                 Key(a, 1), Key(Blank, 1), Key(65, 1), [op |-> "quote", c |-> Dot], [op |-> "expand"] }, {}, 4) : d \in {2, 4} }

(* Killing and yanking. *)
Kill(m) == [op |-> "kill-line", n |-> m]
Region(w, d) == [op |-> "region", where |-> w, doit |-> d, name |-> "other"]
Killing == { Scene([Editing(t, 1) EXCEPT !.head = h, !.tail = h - 1, !.dot = h],
               { Kill(1), Kill(2), [op |-> "kill-region"], [op |-> "set-mark"], [op |-> "goto", n |-> 4],
                 [op |-> "yank", name |-> KillBuffer], [op |-> "yank", name |-> "other"],
                 Region(0, TRUE), Region(0, FALSE), Region(1, FALSE), Region(-1, FALSE), Key(x, 1) }, {}, 5)
             : t \in { << a, b, NL, x, NL, y >>, << a, NL, NL, b >> }, h \in {1, 2} }
ScenesVal == Finding \union Shown \union Again \union Rewriting \union Casing \union Asking
             \union Parens \union Lines \union Words \union Typings \union Columns \union Abbrevs
             \union Killing
=============================================================================
