----------------------------- MODULE LispMeaning -----------------------------
(***************************************************************************)
(* What MLisp programs mean, as section 13.2 of the manual explains it     *)
(* (man/emacs.doc:565-760), and the specification in which the interpreter *)
(* of Lisp and this meaning run the same forms side by side.               *)
(*                                                                         *)
(* A variable has scopes, the values of the blocks that declare it,        *)
(* innermost first; a global value; and, when it is buffer-specific, an    *)
(* instance for each buffer that has set it, the global value being the    *)
(* default.  An argument is evaluated before anything is done with it.     *)
(***************************************************************************)
EXTENDS Lisp

VARIABLES
  m,     \* the interpreter
  w,     \* the world as documented
  more   \* the scene, and how much is left to run

vars == << m, w, more >>

World(scene) ==
  LET f == Fresh(scene)
  IN  [scopes |-> [v \in Variables |-> << >>], inst |-> [v \in Variables |-> << >>],
       glob |-> [v \in Variables |-> Void], spec |-> [v \in Variables |-> FALSE],
       fns |-> << >>, files |-> scene.files, tag |-> << >>, single |-> 0,
       buf |-> f.buf, live |-> Buffers, dot |-> f.dot, mark |-> f.mark,
       val |-> Void, err |-> FALSE, lost |-> FALSE]

Failed(u)   == [u EXCEPT !.err = TRUE, !.val = Void]
Known(u, v) == u.scopes[v] # << >> \/ u.glob[v] # Void
Look(u, v)  == IF u.scopes[v] # << >> THEN Head(u.scopes[v])
               ELSE IF u.spec[v] /\ u.buf \in DOMAIN u.inst[v] THEN u.inst[v][u.buf]
               ELSE u.glob[v]
Assigned(u, v, x) ==
  CASE v = "tag"    -> [u EXCEPT !.tag = Cut(IF x.t = "int" THEN Printed(x.n) ELSE x.s, TagSize)]
    [] v = "single" -> [u EXCEPT !.single = x.n]
    [] v \in Variables /\ u.scopes[v] # << >> -> [u EXCEPT !.scopes[v][1] = x]
    [] v \in Variables /\ u.scopes[v] = << >> /\ u.glob[v] = Void -> Failed(u)
    [] v \in Variables /\ u.scopes[v] = << >> /\ u.glob[v] # Void ->
         IF u.spec[v] THEN [u EXCEPT !.inst[v] = (u.buf :> x) @@ @] ELSE [u EXCEPT !.glob[v] = x]

Frame(args, times, up) == [args |-> args, times |-> times, up |-> up]
TopFrame == Frame(<< >>, 1, << >>)

RECURSIVE Meaning(_, _, _), Each(_, _, _), AllOf(_, _, _), Looped(_, _, _)

Each(u, ps, c) == IF ps = << >> \/ u.err THEN u ELSE Each(Meaning(u, Head(ps), c), Tail(ps), c)

(* The values of the arguments, in order; a result without value is none.  *)
AllOf(u, ps, c) ==
  IF ps = << >> THEN [u |-> u, vals |-> << >>]
  ELSE LET a == Meaning(u, Head(ps), c)
           b == AllOf(a, Tail(ps), c)
       IN  IF a.err \/ a.val = Void THEN [u |-> Failed(a), vals |-> << >>]
           ELSE [u |-> b.u, vals |-> << a.val >> \o b.vals]

Numeric(x)  == x.t = "str" => IsNumeral(x.s)
AsNumber(x) == IF x.t = "str" THEN Numeral(x.s) ELSE x.n
AsText(x)   == IF x.t = "int" THEN Printed(x.n) ELSE x.s
Scoped(u, names) == [u EXCEPT !.scopes = [v \in Variables |->
                       [i \in 1..Cardinality({ j \in DOMAIN names : names[j] = v }) |-> IntVal(0)] \o @[v]]]
Unscoped(u, names) == [u EXCEPT !.scopes = [v \in Variables |->
  SubSeq(@[v], Cardinality({ j \in DOMAIN names : names[j] = v }) + 1, Len(@[v]))]]

Block(u, ps, c) ==
  LET n == SelectInSeq(ps \o << Number(0) >>, LAMBDA a : ~IsLocal(a)) - 1
      names == [i \in 1..n |-> ps[i].name]
  IN  Unscoped(Each(Scoped([u EXCEPT !.val = Void], names), SubSeq(ps, n + 1, Len(ps)), c), names)

Result(a, x) == IF a.u.err THEN a.u ELSE [a.u EXCEPT !.val = x]

(* Operators take any number of operands; & and | stop when they know.     *)
RECURSIVE Shorted(_, _, _, _)
Shorted(u, op, ps, c) ==
  LET a == AllOf(u, << Head(ps) >>, c)
      n == AsNumber(a.vals[1])
  IN  IF a.u.err THEN a.u
      ELSE IF ~Numeric(a.vals[1]) THEN Failed(a.u)
      ELSE IF Len(ps) = 1 \/ (op = "&") = (n = 0) THEN [a.u EXCEPT !.val = IntVal(n)]
      ELSE Shorted(a.u, op, Tail(ps), c)

Calculated(u, op, ps, c) ==
  LET a  == AllOf(u, ps, c)
      ns == [i \in DOMAIN a.vals |-> AsNumber(a.vals[i])]
  IN  IF a.u.err THEN a.u
      ELSE IF \E i \in DOMAIN ns : ~Numeric(a.vals[i]) THEN Failed(a.u)
      ELSE IF op \in {"/", "%"} /\ \E i \in 2..Len(ns) : ns[i] = 0 THEN Failed(a.u)
      ELSE IF op = "-" /\ Len(ns) = 1 THEN [a.u EXCEPT !.val = IntVal(Wrap(-ns[1]))]
      ELSE [a.u EXCEPT !.val = IntVal(FoldLeft(LAMBDA r, n : Combine(op, r, n), Head(ns), Tail(ns)))]

Related(u, op, ps, c) ==
  LET a == AllOf(u, ps, c)
      d == IF a.vals[1].t = "str" /\ a.vals[2].t = "str" THEN Compare(a.vals[1].s, a.vals[2].s)
           ELSE AsNumber(a.vals[1]) - AsNumber(a.vals[2])
  IN  Result(a, IntVal(Truth(CASE op = "=" -> d = 0 [] op = "!=" -> d # 0 [] op = "<" -> d < 0
                            [] op = "<=" -> d <= 0 [] op = ">" -> d > 0 [] op = ">=" -> d >= 0)))

Looped(u, ps, c) ==
  LET t == AllOf(u, << Head(ps) >>, c)
  IN  IF t.u.err \/ AsNumber(t.vals[1]) = 0 THEN t.u ELSE Looped(Each(t.u, Tail(ps), c), ps, c)

Substring(s, pos, n) ==
  LET from == Max({1, IF pos < 0 THEN pos + Len(s) + 1 ELSE pos})
      size == IF n < 0 THEN n + Len(s) ELSE n
  IN  [i \in { j \in DOMAIN s : from <= j /\ j < from + size } |-> s[i]]
Position(s, sub, from) ==
  LET hits == { i \in DOMAIN s : i >= from /\ IsPrefix(sub, SubSeq(s, i, Len(s))) }
  IN  IF hits = {} THEN 0 ELSE Min(hits)

RECURSIVE Times(_, _, _, _)
Times(u, n, ps, c) == IF n <= 0 \/ u.err THEN u ELSE Times(Block(u, ps, c), n - 1, ps, c)

Invoked(u, f, ps, times, c) ==
  LET d == Lookup(u, f)
      l == Each(u, u.files[d.file], c)
      e == IF d.kind = "autoload" THEN l ELSE u
      b == Lookup(e, f)
  IN  IF e.err \/ b.kind = "autoload" \/ b.body = NoNode THEN Failed(e)
      ELSE Block(e, b.body.args, Frame(ps, times, << c >>))

Another(rest) == CHOOSE b \in rest : \A c \in rest : b[1] <= c[1]
Pure(u, f, x) ==     \* functions of the values of their arguments
  CASE f = "!" -> [u EXCEPT !.val = IntVal(Truth(AsNumber(x[1]) = 0))]
    [] f = "~" -> [u EXCEPT !.val = IntVal(-AsNumber(x[1]) - 1)]
    [] f = "concat" -> [u EXCEPT !.val = Str(FlattenSeq([i \in DOMAIN x |-> AsText(x[i])]))]
    [] f = "length" -> [u EXCEPT !.val = IntVal(Len(AsText(x[1])))]
    [] f = "substr" ->
         LET g == Substring(AsText(x[1]), AsNumber(x[2]), AsNumber(x[3]))
         IN  [u EXCEPT !.val = Str([i \in 1..Cardinality(DOMAIN g) |-> g[Min(DOMAIN g) + i - 1]])]
    [] f = "index" -> [u EXCEPT !.val = IntVal(Position(AsText(x[1]), AsText(x[2]),
                                                   IF Len(x) = 3 THEN AsNumber(x[3]) ELSE 1))]
    [] f = "char-to-string" -> [u EXCEPT !.val = Str(<< AsNumber(x[1]) % 128 >>)]
    [] f = "string-to-char" -> [u EXCEPT !.val = IntVal(IF AsText(x[1]) = << >> THEN 0 ELSE AsText(x[1])[1])]
    [] f = "goto-character" -> [u EXCEPT !.val = Void, !.dot[u.buf] = Max({1, Min({AsNumber(x[1]), MaxDot})})]
    [] f = "set-mark" -> [u EXCEPT !.val = Void, !.mark[u.buf] = u.dot[u.buf]]
    [] f = "dot"  -> [u EXCEPT !.val = Marker(u.buf, u.dot[u.buf])]
    [] f = "mark" -> IF u.mark[u.buf] = 0 THEN Failed(u) ELSE [u EXCEPT !.val = Marker(u.buf, u.mark[u.buf])]
    [] f = "switch-to-buffer" ->
         IF AsText(x[1]) \in u.live THEN [u EXCEPT !.val = Void, !.buf = AsText(x[1])] ELSE Failed(u)
    [] f = "delete-buffer" ->
         LET rest == u.live \ {AsText(x[1])}
         IN  IF rest \in {u.live, {}} THEN Failed(u)
             ELSE [u EXCEPT !.val = Void, !.live = rest, !.buf = IF @ \in rest THEN @ ELSE Another(rest)]
    [] f \in {"message", "novalue"} -> [u EXCEPT !.val = Void]
    [] f = "error-message" -> Failed(u)
PureFunctions == {"!", "~", "concat", "length", "substr", "index", "char-to-string", "string-to-char",
                  "goto-character", "set-mark", "dot", "mark", "switch-to-buffer", "delete-buffer",
                  "message", "novalue", "error-message"}

(* Dot, mark and buffer are as before.  There is nothing to go back to in  *)
(* a buffer that is gone: one stays where the body ended.                  *)
Excursion(u, ps, c) ==
  LET r == Block(u, ps, c)
  IN  IF u.buf \notin r.live THEN [r EXCEPT !.lost = TRUE]
      ELSE [r EXCEPT !.buf = u.buf, !.dot[u.buf] = u.dot[u.buf],
                     !.mark[u.buf] = IF u.mark[u.buf] = 0 THEN @ ELSE u.mark[u.buf]]

Meaning(u, p, c) ==
  LET ps == p.args
      f  == p.name
  IN  CASE u.err -> u
        [] p.op \in {"number", "string"} -> [u EXCEPT !.val = p.val]
        [] p.op = "variable" ->
             IF f = "tag" THEN [u EXCEPT !.val = Str(u.tag)]
             ELSE IF f = "single" THEN [u EXCEPT !.val = IntVal(u.single)]
             ELSE IF Known(u, f) THEN [u EXCEPT !.val = Look(u, f)] ELSE Failed(u)
        [] p.op \in {"comment", "stray"} -> u
        [] p.op = "unclosed" -> Failed(u)
        [] p.op = "call" /\ f = "progn" -> Block(u, ps, c)
        [] p.op = "call" /\ f \in {"&", "|"} -> Shorted(u, f, ps, c)
        [] p.op = "call" /\ f \in Operators \ {"&", "|"} -> Calculated(u, f, ps, c)
        [] p.op = "call" /\ f \in Relations -> Related(u, f, ps, c)
        [] p.op = "call" /\ f \in PureFunctions ->
             LET a == AllOf(u, ps, c) IN IF a.u.err THEN a.u ELSE Pure(a.u, f, a.vals)
        [] p.op = "call" /\ f = "declare-global" ->
             [u EXCEPT !.val = Void,
                       !.glob = [v \in Variables |-> IF ~Known(u, v) /\ \E i \in DOMAIN ps : ps[i].name = v
                                                     THEN IntVal(0) ELSE @[v]]]
        [] p.op = "call" /\ f = "declare-buffer-specific" ->
             LET of(v) == \E i \in DOMAIN ps : ps[i].name = v
             IN  [u EXCEPT !.val = Void, !.spec = [v \in Variables |-> @[v] \/ of(v)],
                           !.glob = [v \in Variables |-> IF of(v) /\ u.glob[v] = Void THEN IntVal(0) ELSE @[v]]]
        [] p.op = "call" /\ f = "is-bound" ->
             [u EXCEPT !.val = IntVal(Truth(\A i \in DOMAIN ps : Known(u, ps[i].name)))]
        [] p.op = "call" /\ f = "error-occured" ->
             LET r == Block(u, ps, c) IN [r EXCEPT !.err = FALSE, !.val = IntVal(Truth(r.err))]
        [] p.op = "call" /\ f = "prefix-argument-loop" -> Times(u, c.times, ps, c)
        [] p.op = "call" /\ f = "provide-prefix-argument" ->
             LET a == AllOf(u, << ps[1] >>, c)
             IN  IF a.u.err THEN a.u ELSE Invoked(a.u, ps[2].name, ps[2].args, AsNumber(a.vals[1]), c)
        [] p.op = "call" /\ f = "if" ->
             LET a == AllOf(u, << ps[1] >>, c)
                 rest == Call("if", SubSeq(ps, 3, Len(ps)))
             IN  IF a.u.err THEN a.u
                 ELSE IF AsNumber(a.vals[1]) # 0 THEN Meaning(a.u, ps[2], c)
                 ELSE IF Len(ps) >= 4 THEN Meaning(a.u, rest, c)
                 ELSE IF Len(ps) = 3 THEN Meaning(a.u, ps[3], c) ELSE a.u
        [] p.op = "call" /\ f = "while" -> Looped(u, ps, c)
        [] p.op = "call" /\ f = "setq" ->
             LET a == AllOf(u, << ps[2] >>, c)
             IN  IF a.u.err THEN a.u ELSE [Assigned(a.u, ps[1].name, a.vals[1]) EXCEPT !.val = a.u.val]
        [] p.op = "call" /\ f = "setq-default" ->
             LET a == AllOf(u, << ps[2] >>, c) IN IF a.u.err THEN a.u ELSE [a.u EXCEPT !.glob[ps[1].name] = a.vals[1]]
        [] p.op = "call" /\ f = "save-excursion" -> Excursion(u, ps, c)
        [] p.op = "call" /\ f = "arg" ->
             LET a == AllOf(u, << ps[1] >>, c)
                 i == AsNumber(a.vals[1])
             IN  IF a.u.err \/ c.up = << >> \/ i \notin DOMAIN c.args THEN Failed(a.u)
                 ELSE Meaning(a.u, c.args[i], Head(c.up))
        [] p.op = "call" /\ f = "nargs" -> [u EXCEPT !.val = IntVal(Len(c.args))]
        [] p.op = "call" /\ f = "defun" ->
             [u EXCEPT !.val = Void,
                       !.fns = [g \in { ps[i].name : i \in DOMAIN ps } |->
                                  Function("lisp", Call("progn", (CHOOSE q \in Range(ps) : q.name = g).args), << >>)] @@ @]
        [] p.op = "call" /\ f = "autoload" ->
             [u EXCEPT !.val = Void, !.fns = (ps[2].name :> Function("autoload", NoNode, ps[1].val.s)) @@ @]
        [] p.op = "call" /\ f = "load" -> Each(u, u.files[ps[1].val.s], c)
        [] p.op = "call" /\ f \notin WiredFunctions -> Invoked(u, f, ps, 1, c)

(***************************************************************************)
(* Running forms: a file, or an expression typed on a line.  The error is  *)
(* over when the display has been brought up to date.                      *)
(***************************************************************************)
Init == \E n \in DOMAIN Scenes :
          m = Fresh(Scenes[n]) /\ w = World(Scenes[n]) /\ more = [name |-> n, left |-> Scenes[n].max, inherited |-> FALSE]
Running == Scenes[more.name]

Ready(x) == [x EXCEPT !.err = FALSE, !.val = Void]
Given(j) == [ArgTaken(Ready(m)) EXCEPT !.junk = j, !.steps = Running.steps]
Over(x)  == [ArgSpent(x) EXCEPT !.junk = 0, !.steps = << >>, !.rv = 0,
                                !.spent = { p \in @ : \E f \in DOMAIN x.fns : Within(p, x.fns[f].body) }]
(* How much is left, and whether a form has begun with the prefix argument *)
(* of another.                                                             *)
Begun    == [more EXCEPT !.left = @ - 1, !.inherited = @ \/ m.argState # "no"]

(* A file is executed. *)
LoadFile(file) ==
  /\ more.left > 0 /\ ~m.crash
  /\ more' = Begun
  /\ \E j \in Junk : m' = Over(ExecuteMLispFile(Given(j), file))
  /\ w' = Each(Ready(w), w.files[file], TopFrame)

(* An expression is executed from a line. *)
ExecuteMLispLine(p) ==
  /\ more.left > 0 /\ ~m.crash
  /\ more' = Begun
  /\ \E j \in Junk : m' = Over(ExecuteMLispSomething(Given(j), PrintExpr(p)))
  /\ w' = Meaning(Ready(w), p, TopFrame)

(* A value is given to a variable of the system from the keyboard.         *)
SetCommand(v, s) ==
  /\ more.left > 0 /\ ~m.crash
  /\ more' = Begun
  /\ m' = Over(PerformSet(ArgTaken(Ready(m)), v, 0, s, FALSE))
  /\ w' = Assigned(Ready(w), v, IF v = "single" THEN IntVal(Numeral(s)) ELSE Str(s))

Next == \/ \E file \in Running.loads : LoadFile(file)
        \/ \E p \in Running.lines : ExecuteMLispLine(p)
        \/ \E s \in Running.sets : SetCommand(s[1], s[2])

Spec == Init /\ [][Next]_vars

(***************************************************************************)
(* Properties.                                                             *)
(***************************************************************************)
Seen(v, b) == LET i == ResolveBufferSpecific(m.vars[v], b)
              IN  IF m.vars[v] = << >> THEN Void ELSE m.vars[v][i].val

(* The interpreter does what the manual says: the same forms fail, and     *)
(* after them every variable has, in every buffer, the value that scopes   *)
(* and instances give it, and dots, marks and buffer are where they belong.*)
(* One is in the same buffer even when the body of a save-excursion        *)
(* deleted the buffer it began in; but dot and mark of that one are then   *)
(* put into the buffer where the body ended, and where this one has no     *)
(* mark Emacs dies.  And a form may begin with the argument that another   *)
(* left (Unwound).                                                         *)
AsDocumented ==
  ~more.inherited =>
    /\ m.crash => w.lost
    /\ m.err = w.err /\ m.live = w.live /\ m.buf = w.buf
    /\ ~w.lost => /\ ~m.err /\ w.val # Void => m.val = w.val
                  /\ \A v \in Variables, b \in Buffers : Seen(v, b) = Look([w EXCEPT !.buf = b], v)
                  /\ << m.dot, m.mark, m.tag >> = << w.dot, w.mark, w.tag >>

(* Between forms nothing of a form is left: no binding but the global ones *)
(* and one instance for each buffer; and no prefix argument that was       *)
(* prepared for something else, but the 0 that provide-prefix-argument     *)
(* leaves when its number is in error (mlisp.c:1362).                      *)
Unwound ==
  /\ \A v \in Variables :
       /\ Cardinality({ i \in DOMAIN m.vars[v] : m.vars[v][i].dflt \/ ~m.vars[v][i].spec }) <= 1
       /\ \A i, j \in DOMAIN m.vars[v] : i # j => m.vars[v][i].buf # m.vars[v][j].buf
  /\ m.argState = "no" \/ (m.argState = "prepared" /\ m.arg = 0)
=============================================================================
