------------------------------- MODULE MCLisp -------------------------------
(* Programs for model checking the MLisp interpreter. *)
EXTENDS LispMeaning

BuffersVal == { << 49 >>, << 98 >> }      \* one has a number for a name
JunkVal == {-1, 0, 1}
One == Number(1)
Two == Number(2)
V == Variable("v")
X == Variable("x")
Setq(v, e) == Call("setq", << v, e >>)
Plus(a, b) == Call("+", << a, b >>)
Progn(ps)  == Call("progn", ps)
Fail       == Call("error-message", << Text(<< 101 >>) >>)
Visit(e)   == Call("switch-to-buffer", << e >>)
To(b)      == Visit(Text(b))
Do(f)      == Call(f, << >>)
ArgN(n)    == Call("arg", << Number(n) >>)
Defun(f, ps) == Call("defun", << Call(f, ps) >>)

Scene(files, loads, lines, max) ==
  [files |-> files, loads |-> loads, lines |-> lines, sets |-> {}, steps |-> << >>, max |-> max]

(* Blocks, a function that sees its caller's locals, errors in a block. *)
Scopes == Scene(<< >>, {},
  { Call("declare-global", << V >>), Call("declare-global", << X, V >>), Setq(V, One), Setq(X, Plus(V, One)),
    Defun("f", << Setq(X, Plus(V, X)), V >>), Do("f"), Call("is-bound", << V, X >>),
    Progn(<< V, Setq(V, Two), Do("f"), Progn(<< V, X, Setq(V, Number(3)), Do("f") >>), V >>),
    Call("error-occured", << X, Setq(X, Two), Progn(<< V, Setq(V, X), Fail >>), Setq(V, Two) >>),
    Call("save-excursion", << V, V, Setq(V, Number(3)), X >>), Call("setq-default", << V, Number(3) >>) }, 5)

(* Instances for buffers. *)
Specific == Scene(<< >>, {},
  { Call("declare-global", << V >>), Call("declare-buffer-specific", << V >>), Setq(V, One), Setq(X, V),
    Call("declare-global", << X >>), Call("if", << Call("is-bound", << X >>), Setq(V, X) >>), To(<< 49 >>), To(<< 98 >>),
    Call("setq-default", << V, Two >>),
    Progn(<< V, Setq(V, Number(3)), To(<< 98 >>), Setq(V, Plus(V, One)), Setq(X, V) >>) }, 6)

(* Arguments evaluated in the frame of the caller, recursion, prefix       *)
(* arguments, loops, files that load files, names that are autoloaded.     *)
Less(a, b) == Call("<", << a, b >>)
Files == (<< 1 >> :> << Call("declare-global", << V, X >>), Node("comment", "", Void, << >>), Setq(V, Two),
                        Call("load", << Text(<< 2 >>) >>), Setq(X, Plus(X, V)) >>)
         @@ (<< 2 >> :> << Defun("g", << Call("if", << Less(Number(0), ArgN(1)),
                               Plus(ArgN(1), Call("g", << Call("-", << ArgN(1), One >>) >>)), Number(0) >>) >>),
                           Setq(X, One) >>)
         @@ (<< 3 >> :> << Defun("h", << Call("prefix-argument-loop", << X, Setq(V, Plus(V, One)) >>) >>) >>)
Functions == Scene(Files, {<< 1 >>, << 2 >>, << 3 >>},
  { Setq(X, Call("g", << Less(Number(0), V) >>)), Setq(X, Call("g", << Call("g", << One >>) >>)), Setq(X, Call("g", << Two >>)),
    Call("autoload", << Text(<< 3 >>), Do("h") >>), Call("autoload", << Text(<< 2 >>), Do("h") >>), Do("h"),
    Call("provide-prefix-argument", << Two, Do("h") >>),
    Call("error-occured", << Call("provide-prefix-argument", << X, Do("h") >>) >>), Setq(V, Do("g")),
    Defun("g", << Setq(X, Do("nargs")), Defun("g", << Two >>), ArgN(2) >>), Call("g", << One, Plus(X, V) >>),
    Call("while", << Less(V, Number(5)), Setq(V, Plus(V, Two)), Call("if", << X, Setq(X, Number(0)) >>) >>) }, 4)

(* Operators and comparisons of numbers, numerals, text and nothing.       *)
Operands == { Number(0), Two, Number(-3), Text(<< 49, 50 >>), Text(<< 45, 51 >>), Text(<< 97 >>), Text(<< 97, 98 >>),
              X, Do("dot"), Fail, Do("novalue") }
Numbers  == { Number(0), Two, Number(-3), Number(7) }
Arithmetic == Scene(<< >>, {},
  { Call(op, << a, b >>) : op \in Relations \union {"concat"}, a \in Operands, b \in Operands }
  \union { Call(op, << a, b >>) : op \in {"+", "-", "*", "/", "%", "^", "&", "|"}, a \in Operands, b \in Operands }
  \union { Call(op, << a, b, c >>) : op \in {"+", "-", "*", "/", "%", "&", "|"}, a \in Numbers, b \in Numbers, c \in Numbers }
  \union { Call(op, << a >>) : op \in {"-", "!", "~", "+", "char-to-string"}, a \in Numbers }
  \union { Call(op, << a, b >>) : op \in {"bit&", "bit|", "bit^"}, a \in Numbers, b \in Numbers }
  \union { Call("&", << a, Progn(<< To(<< 98 >>), Two >>) >>) : a \in Operands }, 1)

Strings == { << 97 >>, << 97, 98 >>, << 98, 97, 98 >>, << >> }
Texts == Scene(<< >>, {},
  { Call("substr", << Text(s), Number(i), Number(n) >>) : s \in Strings, i \in -2..3, n \in -2..3 }
  \union { Call("index", << Text(s), Text(t), Number(i) >>) : s \in Strings, t \in Strings \ {<< >>}, i \in 1..3 }
  \union { Call(f, << Text(s) >>) : f \in {"length", "string-to-char"}, s \in Strings }, 1)

(* Excursions, with the mark set or not, and bodies that delete a buffer.  *)
Excursions == Scene(<< >>, {},
  { Call("declare-global", << V >>), Do("set-mark"), To(<< 98 >>), Setq(V, Do("dot")),
    Call("goto-character", << Number(3) >>), Call("goto-character", << V >>), Call("length", << V >>),
    Call("save-excursion", << To(<< 49 >>), Call("goto-character", << Two >>), Do("set-mark"), Visit(V), Do("set-mark") >>),
    Call("save-excursion", << Call("goto-character", << Two >>), Do("set-mark"), To(<< 98 >>), Do("set-mark"), Fail >>),
    Call("error-occured", << Call("save-excursion", << To(<< 49 >>), Do("mark"), Do("set-mark") >>) >>),
    Call("save-excursion", << Setq(V, Do("dot")), Call("delete-buffer", << V >>),
                              Call("save-excursion", << Call("goto-character", << Two >>) >>) >>),
    Call("save-excursion", << To(<< 98 >>), Call("goto-character", << Two >>), Call("delete-buffer", << Text(<< 49 >>) >>) >>) }, 5)

(* The same under single stepping, and a nested file with a syntax error.  *)
Stepping == [Scene(<< 1 >> :> << Setq(V, One), Node("unclosed", "", Void, << >>), Setq(X, Two) >>, {<< 1 >>},
  { Call("declare-global", << V, X >>), Progn(<< V, Setq(V, Two), Setq(X, Plus(V, One)) >>), Setq(V, Two),
    Call("load", << Text(<< 1 >>) >>),
    Setq(Variable("tag"), Call("concat", << Text(<< 97, 98 >>), Text(<< 99 >>) >>)), Setq(X, Variable("tag")) }, 4)
  EXCEPT !.sets = {<< "single", << 49 >> >>}, !.steps = << "space", "s", "space", "!", "s" >>]

ScenesVal == [scopes |-> Scopes, specific |-> Specific, functions |-> Functions, arithmetic |-> Arithmetic,
              texts |-> Texts, excursions |-> Excursions, stepping |-> Stepping]
=============================================================================
