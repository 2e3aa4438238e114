-------------------------------- MODULE Lisp --------------------------------
(***************************************************************************)
(* The MLisp interpreter (mlisp.c, arithmetic.c, lispfuncs.c, the part of  *)
(* minibuf.c that takes answers from an argument list): reading programs,  *)
(* the tree walk of ExecProg and ExecuteBound, the chains of bindings      *)
(* behind variable names, prefix arguments, errors, single stepping.       *)
(*                                                                         *)
(* The program is data: a top-level form is a tree, and one step of the    *)
(* specification reads and runs a whole file, line or key.  So evaluation  *)
(* is a recursive operator from the state of the interpreter to the next.  *)
(* Below it, Meaning evaluates the same trees the way the manual explains  *)
(* them, with scopes and instances in place of chains, and the property    *)
(* AsDocumented compares the two.                                          *)
(*                                                                         *)
(* Strings are sequences of character codes; text is not changed, so a     *)
(* buffer is its dot and mark, and every position fits every buffer.       *)
(***************************************************************************)
EXTENDS Integers, Sequences, FiniteSets, SequencesExt, FiniteSetsExt, Functions

CONSTANTS
  Buffers,     \* the names of the buffers: codes, like other strings
  MaxDot,      \* positions of a buffer
  Variables,   \* names of variables that are not the system's
  Scenes,      \* name -> what may be run: files, those that are loaded, lines,
               \* variables set from the keyboard, keys of the stepper, how many
  IntBits,     \* width of an int
  TagSize,     \* size of the system's string variable
  Junk         \* what a C function may return that has no return statement

(***************************************************************************)
(* Values and program trees.                                               *)
(***************************************************************************)
Val(t, n, s) == [t |-> t, n |-> n, s |-> s]
Void    == Val("void", 0, << >>)
IntVal(n)  == Val("int", n, << >>)
Str(s)  == Val("str", 0, s)
Marker(b, n) == Val("marker", n, b)

Node(op, name, val, args) == [op |-> op, name |-> name, val |-> val, args |-> args]
NoNode      == Node("none", "", Void, << >>)
Number(n)   == Node("number", "", IntVal(n), << >>)
Text(s)     == Node("string", "", Str(s), << >>)
Variable(v) == Node("variable", v, Void, << >>)
Call(f, args) == Node("call", f, Void, args)

IsLocal(p) == p.op = "variable"
Locals(p)  == SelectInSeq(p.args \o << Number(0) >>, LAMBDA a : ~IsLocal(a)) - 1

Half    == 2 ^ (IntBits - 1)
Wrap(n) == ((n + Half) % (2 * Half)) - Half
Sign(n) == IF n < 0 THEN -1 ELSE 1
Magn(n) == n * Sign(n)
Quotient(a, b) == Sign(a) * Sign(b) * (Magn(a) \div Magn(b))

Minus == 45
IsDigit(c) == c \in 48..57
Blank == 32

(* NumericArg: blanks may stand anywhere, the sign before the digits. *)
Digits(s)   == FoldLeft(LAMBDA n, c : IF IsDigit(c) THEN Wrap(10 * n + (c - 48)) ELSE n, 0, s)
Unblank(s)  == SelectSeq(s, LAMBDA c : c # Blank)
Signed(s)   == IF s # << >> /\ s[1] = Minus THEN -Digits(Tail(s)) ELSE Digits(s)
IsNumeral(s) == LET d == Unblank(s)
                IN  \A i \in DOMAIN d : IsDigit(d[i]) \/ (i = 1 /\ d[1] = Minus)
Numeral(s)  == Signed(Unblank(s))

(* atoi: the digits it begins with. *)
AtoI(s) == LET d == IF s # << >> /\ s[1] = Minus THEN Tail(s) ELSE s
               n == SelectInSeq(d \o << 0 >>, LAMBDA c : ~IsDigit(c)) - 1
               v == Digits(SubSeq(d, 1, n))
           IN  IF s # d THEN -v ELSE v

(* A printed integer; one digit is enough here. *)
Printed(n) == IF n < 0 THEN << Minus, 48 + Magn(n) >> ELSE << 48 + n >>

Compare(s, t) ==
  LET d == { i \in 1..(Min({Len(s), Len(t)}) + 1) :
               \/ i > Len(s) \/ i > Len(t) \/ s[i] # t[i] }
      at(x) == IF Min(d) > Len(x) THEN 0 ELSE x[Min(d)]
  IN  at(s) - at(t)

(***************************************************************************)
(* The state of the interpreter.  A frame of the ExecutionRoot is          *)
(* [cur, times, given]; frames is the stack of them, innermost first.      *)
(***************************************************************************)
Binding(spec, dflt, buf, val) ==
  [spec |-> spec, dflt |-> dflt, buf |-> buf, val |-> val]

Fresh(scene) ==
  [vars |-> [v \in Variables |-> << >>], tag |-> << >>, single |-> 0,
   fns |-> << >>, files |-> scene.files,
   buf |-> CHOOSE b \in Buffers : \A c \in Buffers : b[1] <= c[1], live |-> Buffers,
   dot |-> [b \in Buffers |-> 1], mark |-> [b \in Buffers |-> 0],
   val |-> Void, len |-> 0, rv |-> 0, ret |-> 0, err |-> FALSE,
   cur |-> NoNode, last |-> 0, forced |-> FALSE,
   frames |-> << [cur |-> NoNode, times |-> 1, given |-> FALSE] >>,
   arg |-> 1, argState |-> "no", sub |-> << >>, spent |-> {}, junk |-> 0, steps |-> << >>, crash |-> FALSE]

Error(m)    == [m EXCEPT !.err = TRUE]
LengthOf(v) == IF v.t = "str" THEN Len(v.s) ELSE v.n
(* exp_int stays when a value is thrown away. *)
Give(m, v)  == [m EXCEPT !.val = v, !.len = IF v.t = "void" THEN @ ELSE LengthOf(v)]
Done(m)     == [m EXCEPT !.rv = 0]
Return(m, v) == Done(Give(m, v))
ReturnInt(m, n) == Return(m, IntVal(n))
Truth(b)    == IF b THEN 1 ELSE 0

(***************************************************************************)
(* Variables.                                                              *)
(***************************************************************************)
Declare(m, v, specific) ==
  LET chain == m.vars[v]
  IN  IF chain = << >> \/ ~specific
      THEN [m EXCEPT !.vars[v] = << Binding(specific, specific, << >>, IntVal(0)) >> \o @]
      ELSE [m EXCEPT !.vars[v][Len(chain)].spec = specific, !.vars[v][Len(chain)].dflt = specific]

(* The place in the chain of the binding in force in buffer b; 0 is the    *)
(* internal error.                                                         *)
ResolveBufferSpecific(chain, b) ==
  IF ~chain[1].spec THEN 1
  ELSE LET i == SelectInSeq(chain, LAMBDA x : x.dflt \/ ~x.spec \/ x.buf = b)
       IN  IF i = 0 \/ ~chain[i].spec THEN 0 ELSE i

(* A slip: the value goes into the default instance. *)
ResolveBufferSpecificAssignment_shares(m, v) ==
  [m EXCEPT !.ret = ResolveBufferSpecific(m.vars[v], m.buf)]

(* The binding to assign to: the instance of the buffer is made. *)
ResolveBufferSpecificAssignment(m, v) ==
  LET i == ResolveBufferSpecific(m.vars[v], m.buf)
  IN  IF i = 0 THEN [Error(m) EXCEPT !.ret = 0]
      ELSE IF ~m.vars[v][i].dflt THEN [m EXCEPT !.ret = i]
      ELSE [m EXCEPT !.vars[v] = << Binding(TRUE, FALSE, m.buf, IntVal(0)) >> \o @, !.ret = 1]

ExecVariable(m, v) ==
  LET chain == m.vars[v]
      i     == ResolveBufferSpecific(chain, m.buf)
  IN  IF v = "tag" THEN Return(m, Str(m.tag))
      ELSE IF v = "single" THEN ReturnInt(m, m.single)
      ELSE IF chain = << >> \/ i = 0 THEN Done(Error(m))
      ELSE Return(m, chain[i].val)

(* setq-default: the default instance, or the innermost of all. *)
DefaultOf(chain) ==
  LET i == SelectInSeq(chain, LAMBDA x : x.dflt) IN IF i = 0 THEN Len(chain) ELSE i

RECURSIVE ExecProg(_, _)

(***************************************************************************)
(* Arguments.  CheckArgs is TRUE when they are wrong; hi < lo is no limit. *)
(***************************************************************************)
Args(m) == m.cur.args
CheckArgs(m, lo, hi) ==
  \/ m.err
  \/ m.cur = NoNode /\ (lo # 0 \/ hi # 0)
  \/ m.cur # NoNode /\ (Len(Args(m)) < lo \/ (Len(Args(m)) > hi /\ lo <= hi))
Refuse(m) == [Error(m) EXCEPT !.ret = 0, !.rv = 0]

(* The argument is good when there is no error afterwards. *)
EvalArg(m, n) ==
  IF m.err THEN m
  ELSE IF m.cur = NoNode \/ Len(Args(m)) < n THEN Error(m)
  ELSE LET some(r) == IF r.val.t = "void" THEN Error(r) ELSE r
       IN  some(ExecProg(m, Args(m)[n]))

(* The number is in ret. *)
NumericArg(m, n) ==
  LET of(r, v) ==
        IF r.err THEN [r EXCEPT !.ret = 0]
        ELSE IF v.t = "str"
        THEN [r EXCEPT !.ret = Numeral(v.s), !.val = IntVal(Len(v.s)), !.err = ~IsNumeral(v.s)]
        ELSE [r EXCEPT !.ret = v.n, !.val = IntVal(v.n)]
      number(r) == of(r, r.val)
  IN  number(EvalArg(m, n))

StringArg(m, n) ==
  LET string(r) == IF r.err THEN r
                   ELSE Give(r, Str(IF r.val.t = "int" THEN Printed(r.val.n) ELSE r.val.s))
  IN  string(EvalArg(m, n))

(* BrGetstr and getnum in a program: the next argument is the answer.  The *)
(* prefix argument is put aside meanwhile; BrGetstr forgets it when there  *)
(* is an error.                                                            *)
Answer(m, Evaluate(_, _)) ==
  IF m.last >= Len(Args(m)) THEN Refuse([m EXCEPT !.argState = "no"])
  ELSE Evaluate([m EXCEPT !.last = @ + 1, !.argState = "no"], m.last + 1)
ArgBack(r, m) == [r EXCEPT !.arg = m.arg, !.argState = m.argState]
getstr(m) == LET of(r) == IF r.err THEN r ELSE ArgBack(r, m) IN of(Answer(m, StringArg))
getnum(m) == LET of(r) == IF m.last >= Len(Args(m)) THEN r ELSE ArgBack(r, m)
             IN  of(Answer(m, NumericArg))

(***************************************************************************)
(* Blocks and control.                                                     *)
(***************************************************************************)
RECURSIVE Sequence(_, _, _)
Sequence(m, p, i) ==
  IF m.err \/ m.rv # 0 \/ i > Len(p.args) THEN m ELSE Sequence(ExecProg(m, p.args[i]), p, i + 1)

DeclareLocals(m, p) ==
  FoldLeft(LAMBDA s, a : Declare(s, a.name, FALSE), m, SubSeq(p.args, 1, Locals(p)))

(* The binding at the head of the chain is taken away, whatever it is. *)
Unbound(m, v) == IF m.vars[v] = << >> THEN [m EXCEPT !.crash = TRUE] ELSE [m EXCEPT !.vars[v] = Tail(@)]

(* A slip: the locals are left when there is an error. *)
ProgN_leaves(m) ==
  LET p == m.cur
      r == Sequence([DeclareLocals(m, p) EXCEPT !.rv = 0], p, Locals(p) + 1)
  IN  IF p = NoNode THEN Refuse(m)
      ELSE IF r.err THEN r
      ELSE FoldLeft(LAMBDA s, a : Unbound(s, a.name), r, SubSeq(p.args, 1, Locals(p)))

ProgN(m) ==
  LET p == m.cur
      r == Sequence([DeclareLocals(m, p) EXCEPT !.rv = 0], p, Locals(p) + 1)
  IN  IF p = NoNode THEN Refuse(m)
      ELSE FoldLeft(LAMBDA s, a : Unbound(s, a.name), r, SubSeq(p.args, 1, Locals(p)))

PerformDeclare(m, specific) ==
  IF m.cur = NoNode THEN Refuse(m)
  ELSE Done(FoldLeft(LAMBDA s, a : IF s.vars[a.name] = << >> \/ specific
                                   THEN Declare(s, a.name, specific) ELSE s,
                     m, SubSeq(Args(m), 1, Locals(m.cur))))

IsBound(m) ==
  IF m.cur = NoNode THEN Refuse(m)
  ELSE ReturnInt(m, Truth(\A i \in 1..Locals(m.cur) : m.vars[Args(m)[i].name] # << >>))

(* What a body returned is returned, so that leaving goes on. *)
ErrorOccured(m) ==
  LET told(r) == [Give(r, IntVal(Truth(r.err))) EXCEPT !.err = FALSE] IN told(ProgN(m))

RECURSIVE Repeat(_, _)
Repeat(m, n) == IF n <= 0 \/ m.err \/ m.rv # 0 THEN m ELSE Repeat(ProgN(m), n - 1)
PrefixArgumentLoop(m) == Repeat(Done(m), Head(m.frames).times)

RECURSIVE IfFrom(_, _)
IfFrom(m, i) ==
  IF m.err \/ i > Len(Args(m)) THEN Done(m)
  ELSE IF i + 1 > Len(Args(m)) THEN ExecProg(m, Args(m)[i])
  ELSE LET then(c) == IF c.ret # 0 THEN ExecProg(c, Args(m)[i + 1]) ELSE IfFrom(c, i + 2)
       IN  then(NumericArg(m, i))
If(m) == IF CheckArgs(m, 2, 0) THEN Refuse(m) ELSE IfFrom(Done(m), 1)

RECURSIVE Loop(_)
Loop(m) ==
  LET test(t) == IF t.err \/ t.rv # 0 \/ t.val.t # "int" \/ t.val.n = 0 THEN t
                 ELSE Loop(Sequence(t, m.cur, 2))
  IN  IF m.err \/ m.rv # 0 THEN m ELSE test(ExecProg(m, Args(m)[1]))
While(m) == IF CheckArgs(m, 2, 0) THEN Refuse(m) ELSE Loop(Done(m))

(***************************************************************************)
(* Assignment.  The binding is found, and the instance of the buffer made, *)
(* before the value is computed.                                           *)
(***************************************************************************)
Cut(s, size) == SubSeq(s, 1, size - 1)
TooSmall(n)  == n <= 0

SetSystem(m, v, arg, text) ==
  LET single(r) == [r EXCEPT !.single = r.ret]
      tag(r)    == IF r.err THEN r ELSE [r EXCEPT !.tag = Cut(r.val.s, TagSize)]
  IN  Done(IF v = "single"
           THEN single(IF arg = 0 THEN [m EXCEPT !.ret = Numeral(text)] ELSE NumericArg(m, arg))
           ELSE IF arg = 0
           THEN [m EXCEPT !.tag = Cut(SubSeq(text, 1, Min({m.len + 1, Len(text)})), TagSize)]
           ELSE tag(StringArg(m, arg)))

(* A binding found before stays the same distance from the end of the      *)
(* chain: what runs meanwhile only changes the head.                       *)
Stored(m, v, i, arg, text) ==
  LET at(r)  == Len(r.vars[v]) - (Len(m.vars[v]) - i)
      put(r) == IF r.err THEN r ELSE [r EXCEPT !.vars[v][at(r)].val = r.val]
  IN  Done(IF arg = 0 THEN [m EXCEPT !.vars[v][i].val = Str(text)] ELSE put(EvalArg(m, arg)))

PerformSet(m, v, arg, text, dflt) ==
  LET at(t) == IF t.vars[v] = << >> THEN [Error(t) EXCEPT !.ret = 0]
               ELSE IF ~dflt /\ t.vars[v][1].spec THEN ResolveBufferSpecificAssignment(t, v)
               ELSE [t EXCEPT !.ret = IF dflt THEN DefaultOf(t.vars[v]) ELSE 1]
      store(a) == IF a.ret = 0 THEN Done(a) ELSE Stored(a, v, a.ret, arg, text)
  IN  IF v \in {"tag", "single"} THEN SetSystem(m, v, arg, text)
      ELSE store(at(IF dflt /\ m.vars[v] = << >> THEN Declare(m, v, FALSE) ELSE m))

DoSetQ(m, dflt) ==
  IF CheckArgs(m, 2, 2) THEN Refuse(m)
  ELSE IF ~IsLocal(Args(m)[1]) THEN Refuse(m)
  ELSE PerformSet(m, Args(m)[1].name, 2, << >>, dflt)

(***************************************************************************)
(* Arithmetic.  ret carries the result from argument to argument.          *)
(***************************************************************************)
Odd(n) == n % 2
RECURSIVE Bits(_, _, _, _)
Bits(op, a, b, w) ==
  IF w = 0 THEN 0
  ELSE LET x == Odd(a)
           y == Odd(b)
           z == CASE op = "bit&" -> x * y
                  [] op = "bit|" -> x + y - x * y
                  [] op \in {"bit^", "^"} -> (x + y) % 2
       IN  z + 2 * Bits(op, a \div 2, b \div 2, w - 1)

Combine(op, a, b) ==
  CASE op = "+" -> Wrap(a + b)
    [] op = "-" -> Wrap(a - b)
    [] op = "*" -> Wrap(a * b)
    [] op = "/" -> IF b = 0 THEN a ELSE Wrap(Quotient(a, b))
    [] op = "%" -> IF b = 0 THEN a ELSE a - b * Quotient(a, b)
    [] op = "<<" -> Wrap(a * 2 ^ b)
    [] op = ">>" -> a \div 2 ^ b
    [] op \in {"&", "|"} -> b
    [] op \in {"bit&", "bit|", "bit^", "^"} -> Wrap(Bits(op, a, b, IntBits))

Enough(op, r) == (op = "&" /\ r = 0) \/ (op = "|" /\ r # 0)

RECURSIVE ArithFrom(_, _, _, _)
ArithFrom(m, op, r, i) ==
  IF m.err \/ Enough(op, r) \/ i > Len(Args(m)) THEN [m EXCEPT !.ret = r]
  ELSE LET next(t) == ArithFrom(IF op \in {"/", "%"} /\ t.ret = 0 THEN Error(t) ELSE t,
                                op, Combine(op, r, t.ret), i + 1)
       IN  next(NumericArg(m, i))

(* bit&, bit| and bit^ return nothing to their caller. *)
Arith(m, op) ==
  LET all(first) ==
        IF op = "-" /\ ~first.err /\ Len(Args(m)) = 1 THEN [first EXCEPT !.ret = Wrap(-@)]
        ELSE ArithFrom(first, op, first.ret, 2)
      result(r) == IF r.val.t = "int" THEN Give(r, IntVal(r.ret)) ELSE r
  IN  [result(all(IF CheckArgs(m, 1, 0) THEN [Error(m) EXCEPT !.ret = 0] ELSE NumericArg(m, 1)))
       EXCEPT !.rv = IF op \in {"bit&", "bit|", "bit^"} THEN m.junk ELSE 0]

OfNumber(m, F(_)) ==
  LET of(r) == IF r.err THEN Done(r) ELSE ReturnInt(r, F(r.ret)) IN of(NumericArg(m, 1))
Not(m)    == OfNumber(m, LAMBDA n : Truth(n = 0))
BitNot(m) == OfNumber(m, LAMBDA n : -n - 1)

(* Strings are compared as strings only when both operands are. *)
Stands(op, d) == CASE op = "=" -> d = 0 [] op = "!=" -> d # 0 [] op = "<" -> d < 0
                   [] op = "<=" -> d <= 0 [] op = ">" -> d > 0 [] op = ">=" -> d >= 0
Comparison(m, op) ==
  LET number(v) == IF v.t = "str" THEN AtoI(v.s) ELSE v.n
      differ(a, b) == IF a.t = "str" /\ b.t = "str" THEN Compare(a.s, b.s) ELSE number(a) - number(b)
      of(a, r) == IF r.err THEN Done(r) ELSE ReturnInt(r, Truth(Stands(op, differ(a, r.val))))
      second(l) == of(l.val, EvalArg(l, 2))
  IN  second(EvalArg(m, 1))

(***************************************************************************)
(* Functions of strings and of the editor's state.                         *)
(***************************************************************************)
RECURSIVE ConcatFrom(_, _, _)
ConcatFrom(m, s, i) ==
  IF m.err \/ i > Len(Args(m)) THEN Give(m, Str(s))
  ELSE LET next(r) == ConcatFrom(r, IF r.err THEN s ELSE s \o r.val.s, i + 1)
       IN  next(StringArg(m, i))
Concat(m) == LET rest(r) == Done(IF r.err THEN r ELSE ConcatFrom(r, r.val.s, 2))
             IN  rest(StringArg(m, 1))

Substr(m) ==
  LET part(s, from, count) ==
        LET size == Len(s)
            pos  == Max({1, IF from < 0 THEN size + 1 + from ELSE from})
            n    == IF count < 0 THEN Max({0, size + count}) ELSE count
            kept == IF pos + n - 1 > size THEN Max({0, size + 1 - pos}) ELSE n
        IN  SubSeq(s, pos, pos + kept - 1)
      of(from, count, r) == IF r.err THEN Done(r) ELSE Return(r, Str(part(r.val.s, from, count)))
      string(from, b) == of(from, b.ret, StringArg(b, 1))
      count(a) == string(a.ret, NumericArg(a, 3))
  IN  count(NumericArg(m, 2))

(* What is looked for is kept in one place while the first argument is     *)
(* computed.                                                               *)
Index(m) ==
  LET hits(s, sub, skip) ==
        { i \in (Min({skip, Len(s)}) + 1)..Len(s) : IsPrefix(sub, SubSeq(s, i, Len(s))) }
      first(found) == IF found = {} THEN 0 ELSE Min(found)
      of(skip, r) == ReturnInt(r, IF r.err THEN 0 ELSE first(hits(r.val.s, r.sub, skip)))
      string(skip, b) == of(skip, StringArg(IF b.err THEN b ELSE [b EXCEPT !.sub = b.val.s], 1))
      sub(a) == string(a.ret - 1, StringArg(a, 2))
  IN  sub(IF Len(Args(m)) = 3 THEN NumericArg(m, 3) ELSE [m EXCEPT !.ret = 1])

Length(m) == LET of(r) == IF r.err THEN Done(r) ELSE ReturnInt(r, Len(r.val.s)) IN of(StringArg(m, 1))
CharToString(m) == LET of(r) == Return(r, Str(<< r.ret % 128 >>)) IN of(getnum(m))
StringToChar(m) ==
  LET of(r) == ReturnInt(r, IF r.err \/ r.val.s = << >> THEN 0 ELSE r.val.s[1]) IN of(getstr(m))

GotoCharacter(m) ==
  LET to(r) == Done(IF r.err THEN r ELSE [r EXCEPT !.dot[r.buf] = Max({1, Min({r.ret, MaxDot})})])
  IN  to(getnum(m))
SetMarkCommand(m) == Done([m EXCEPT !.mark[m.buf] = m.dot[m.buf]])
MarkVal(m) == IF m.mark[m.buf] = 0 THEN [Error(Return(m, Marker(m.buf, -1))) EXCEPT !.rv = 0]
              ELSE Return(m, Marker(m.buf, m.mark[m.buf]))
SwitchToBuffer(m) ==
  LET to(r) == Done(IF r.err \/ r.val.s \notin r.live THEN Error(r) ELSE [r EXCEPT !.buf = r.val.s])
  IN  to(getstr(m))

(* The buffer that is deleted is left for another first. *)
DeleteBuffer(m) ==
  LET delete(r, rest) ==
        IF r.err \/ rest = {} \/ r.val.s \notin r.live THEN Error(r)
        ELSE [r EXCEPT !.live = rest,
                       !.buf = IF @ = r.val.s THEN CHOOSE b \in rest : \A c \in rest : b[1] <= c[1] ELSE @]
      of(r) == Done(delete(r, r.live \ {r.val.s}))
  IN  of(getstr(m))

(* Dot and mark go back into the buffer that is current then. *)
SaveExcursion(m) ==
  LET back(r, b) ==
        LET s == [r EXCEPT !.buf = b, !.dot[b] = m.dot[m.buf]]
        IN  IF m.mark[m.buf] = 0 THEN s
            ELSE IF r.mark[b] = 0 THEN [s EXCEPT !.crash = TRUE]
            ELSE [s EXCEPT !.mark[b] = m.mark[m.buf]]
      after(r) == back(r, IF m.buf \in r.live THEN m.buf ELSE r.buf)
  IN  after(ProgN(m))

(***************************************************************************)
(* Reading a program.  A token is a parenthesis, a name, a number, a       *)
(* string or a comment; peek is the character that was read too far.       *)
(***************************************************************************)
Token(t, name, val) == [t |-> t, name |-> name, val |-> val]
Open  == Token("(", "", Void)
Close == Token(")", "", Void)
Comment == Token(";", "", Void)

RECURSIVE PrintExpr(_)
PrintExpr(p) ==
  CASE p.op = "call" -> << Open, Token("name", p.name, Void) >>
                        \o FlattenSeq([i \in DOMAIN p.args |-> PrintExpr(p.args[i])]) \o << Close >>
    [] p.op = "variable" -> << Token("name", p.name, Void) >>
    [] p.op \in {"number", "string"} -> << Token(p.op, "", p.val) >>
    [] p.op = "comment" -> << Comment >>
    [] p.op = "stray"   -> << Close >>
    [] p.op = "unclosed" -> << Open, Token("name", "progn", Void) >>

(* A reader: the tokens that are left; node is NoNode for the null pointer. *)
Reader(toks) == [toks |-> toks, peek |-> "no", node |-> NoNode, err |-> FALSE, names |-> {}]
NoResult(r, c) == [r EXCEPT !.peek = c, !.node = NoNode]
Ahead(r) == IF r.peek # "no" THEN Token(r.peek, "", Void)
            ELSE IF r.toks = << >> THEN Token("eof", "", Void) ELSE Head(r.toks)
Past(r)  == IF r.peek # "no" THEN [r EXCEPT !.peek = "no"]
            ELSE IF r.toks = << >> THEN r ELSE [r EXCEPT !.toks = Tail(@)]

RECURSIVE ParseNode(_), ParseArgs(_, _, _)

ParseArgs(r, name, args) ==
  LET end(t)  == [t EXCEPT !.node = Call(name, args),
                           !.peek = IF @ = ")" THEN "no" ELSE @,
                           !.err  = @ \/ t.peek = "eof"]
      next(t) == IF t.node # NoNode THEN ParseArgs(t, name, Append(args, t.node)) ELSE end(t)
  IN  IF r.err THEN end(r) ELSE next(ParseNode(r))

(* Without a name after the parenthesis there is no node. *)
ParenNode(r) ==
  LET n == Ahead(r)
  IN  IF n.t = "name" THEN ParseArgs([Past(r) EXCEPT !.names = @ \union {n.name}], n.name, << >>)
      ELSE NoResult(Past(r), n.t)

ParseNode(r) ==
  LET c == Ahead(r)
      t == Past(r)
  IN  CASE c.t = "("   -> ParenNode(t)
        [] c.t = ";"   -> ParseNode(t)
        [] c.t \in {"eof", ")"} -> NoResult(t, c.t)
        [] c.t = "name" -> [t EXCEPT !.node = Variable(c.name)]
        [] c.t \in {"number", "string"} -> [t EXCEPT !.node = Node(c.t, "", c.val, << >>)]

(* A defun that has defined its functions is spent, until its text is read *)
(* again.                                                                  *)
RECURSIVE Within(_, _)
Within(p, q) == p = q \/ \E i \in DOMAIN q.args : Within(p, q.args[i])

RunNode(m, r) == ExecProg([m EXCEPT !.err = r.err, !.spent = { p \in @ : ~Within(p, r.node) }], r.node)

(* A file is read form by form; what does not parse ends it in silence.    *)
(* What was read too far is lost.                                          *)
RECURSIVE ReadForms(_, _)
RunForms(m, r) == IF r.node = NoNode THEN m ELSE ReadForms(RunNode(m, r), r.toks)
ReadForms(m, toks) ==
  IF toks = << >> \/ m.err THEN m ELSE RunForms(m, ParseNode(Reader(toks)))

Tokens(forms) == FlattenSeq([i \in DOMAIN forms |-> PrintExpr(forms[i])])
ExecuteMLispFile(m, file) ==
  LET told(r) == [r EXCEPT !.rv = Truth(r.err)]
  IN  told(IF file \notin DOMAIN m.files THEN Error(m) ELSE ReadForms(m, Tokens(m.files[file])))
LoadCommand(m) ==
  LET load(r) == Done(IF r.err THEN r ELSE ExecuteMLispFile(r, r.val.s)) IN load(getstr(m))

(* Only the first expression of a line or of a buffer.  Nothing is         *)
(* returned when there is none.                                            *)
RunFirst(m, r) == IF r.node = NoNode THEN [m EXCEPT !.rv = m.junk] ELSE RunNode(m, r)
ExecuteMLispSomething(m, toks) == RunFirst(m, ParseNode(Reader(toks)))

(***************************************************************************)
(* Functions.                                                              *)
(***************************************************************************)
Operators == {"+", "-", "*", "/", "%", "<<", ">>", "&", "|", "^", "bit&", "bit|", "bit^"}
Relations == {"=", "!=", "<", "<=", ">", ">="}
WiredFunctions ==
  Operators \union Relations \union
  {"progn", "declare-global", "declare-buffer-specific", "is-bound", "error-occured",
   "prefix-argument-loop", "provide-prefix-argument", "return-prefix-argument", "if", "while",
   "setq", "setq-default", "!", "~", "concat", "substr", "index", "length", "char-to-string",
   "string-to-char", "goto-character", "set-mark", "dot", "mark", "switch-to-buffer",
   "delete-buffer", "save-excursion", "message", "error-message", "arg", "nargs", "interactive",
   "defun", "autoload", "load", "call-interactively", "novalue", "exit",
   "number", "string", "variable"}
FunctionOf(p) == IF p.op = "call" THEN p.name ELSE p.op

Function(kind, body, file) == [kind |-> kind, body |-> body, file |-> file]
Lookup(m, f) == IF f \in DOMAIN m.fns THEN m.fns[f] ELSE Function("lisp", NoNode, << >>)

(* The body is run as a progn; what the name meant before goes.  The trees *)
(* are taken out of the defun, which defines nothing a second time.        *)
DefineFunction(m) ==
  IF CheckArgs(m, 1, 0) THEN Refuse(m)
  ELSE IF m.cur \in m.spent THEN Done(m)
  ELSE Done(FoldLeft(LAMBDA s, p :
                       IF p.name \in WiredFunctions THEN Error(s)
                       ELSE [s EXCEPT !.fns = (p.name :> Function("lisp", Call("progn", p.args), << >>)) @@ @],
                     [m EXCEPT !.spent = @ \union {m.cur}], Args(m)))
Autoload(m) ==
  LET of(r) == IF r.err THEN r
               ELSE [r EXCEPT !.fns = (Args(m)[2].name :> Function("autoload", NoNode, r.val.s)) @@ @]
  IN  Done(of(getstr(m)))

(* The argument is evaluated where the function was called. *)
Arg(m) ==
  LET asked(q) == IF q.err THEN Done(q) ELSE Return(q, Str(<< 53 >>))
      of(r, f) ==
        IF r.err THEN Done(r)
        ELSE IF f.cur = NoNode \/ Len(r.frames) = 1
        THEN asked(StringArg(StringArg([r EXCEPT !.last = 1], 2), 2))
        ELSE IF r.ret > Len(f.cur.args) \/ r.ret <= 0 THEN Refuse(r)
        ELSE Done([ExecProg([r EXCEPT !.frames = Tail(@)], f.cur.args[r.ret])
                   EXCEPT !.frames = r.frames])
      arg(r) == of(r, Head(r.frames))
  IN  arg(NumericArg(m, 1))

Prepared(r) == [r EXCEPT !.arg = r.ret, !.argState = "prepared"]
ProvidePrefixArgument(m) ==
  LET with(r) == IF r.err THEN Done(r) ELSE ExecProg(r, Args(m)[2])
  IN  IF CheckArgs(m, 2, 2) THEN Refuse(m) ELSE with(Prepared(NumericArg(m, 1)))
ReturnPrefixArgument(m) == Done(Prepared(getnum(m)))

(* A message throws the value away, and so does an error message. *)
Voided(m) == Done([m EXCEPT !.val = Void])
Message(m)      == LET show(r) == IF r.err THEN Done(r) ELSE Voided(r) IN show(Concat(m))
ErrorMessage(m) == LET show(r) == IF r.err THEN Done(r) ELSE Voided(Error(r)) IN show(Concat(m))

Proc(m, f) ==
  CASE f = "progn" -> ProgN(m)
    [] f \in {"number", "string", "variable"} ->
         IF m.cur = NoNode THEN [m EXCEPT !.crash = TRUE]
         ELSE IF f = "variable" THEN ExecVariable(m, m.cur.name) ELSE Return(m, m.cur.val)
    [] f \in Operators -> Arith(m, f)
    [] f \in Relations -> Comparison(m, f)
    [] f = "!" -> Not(m)
    [] f = "~" -> BitNot(m)
    [] f = "declare-global" -> PerformDeclare(m, FALSE)
    [] f = "declare-buffer-specific" -> PerformDeclare(m, TRUE)
    [] f = "is-bound" -> IsBound(m)
    [] f = "error-occured" -> ErrorOccured(m)
    [] f = "prefix-argument-loop" -> PrefixArgumentLoop(m)
    [] f = "provide-prefix-argument" -> ProvidePrefixArgument(m)
    [] f = "return-prefix-argument" -> ReturnPrefixArgument(m)
    [] f = "if" -> If(m)
    [] f = "while" -> While(m)
    [] f = "setq" -> DoSetQ(m, FALSE)
    [] f = "setq-default" -> DoSetQ(m, TRUE)
    [] f = "concat" -> Concat(m)
    [] f = "substr" -> Substr(m)
    [] f = "index" -> Index(m)
    [] f = "length" -> Length(m)
    [] f = "char-to-string" -> CharToString(m)
    [] f = "string-to-char" -> StringToChar(m)
    [] f = "goto-character" -> GotoCharacter(m)
    [] f = "set-mark" -> SetMarkCommand(m)
    [] f = "dot" -> Return(m, Marker(m.buf, m.dot[m.buf]))
    [] f = "mark" -> MarkVal(m)
    [] f = "switch-to-buffer" -> SwitchToBuffer(m)
    [] f = "delete-buffer" -> DeleteBuffer(m)
    [] f = "save-excursion" -> SaveExcursion(m)
    [] f = "message" -> Message(m)
    [] f = "error-message" -> ErrorMessage(m)
    [] f = "arg" -> Arg(m)
    [] f = "nargs" -> ReturnInt(m, Len(Head(m.frames).cur.args))
    [] f = "interactive" -> ReturnInt(m, Truth(Head(m.frames).cur = NoNode))
    [] f = "defun" -> DefineFunction(m)
    [] f = "autoload" -> Autoload(m)
    [] f = "load" -> LoadCommand(m)
    [] f = "call-interactively" ->
         IF CheckArgs(m, 1, 1) THEN Refuse(m) ELSE ExecProg([m EXCEPT !.forced = TRUE], Args(m)[1])
    [] f = "novalue" -> Done(m)
    [] f = "exit" -> [m EXCEPT !.rv = -1]

RECURSIVE ExecuteBound(_, _)

(* A frame for the function while its body runs. *)
Entered(m, f) ==
  LET frame == [cur |-> m.cur, times |-> m.arg, given |-> m.argState # "no"]
      r == ExecProg([m EXCEPT !.frames = << frame >> \o @, !.argState = "no"], Lookup(m, f).body)
  IN  [r EXCEPT !.frames = m.frames]

Autoloaded(m, f) ==
  LET loaded(r) ==
        IF r.err THEN Done(r)
        ELSE IF Lookup(r, f).kind = "autoload" THEN Done(Error(r))
        ELSE ExecuteBound([r EXCEPT !.arg = m.arg, !.argState = m.argState], f)
  IN  loaded(ExecuteMLispFile([m EXCEPT !.arg = 0, !.argState = "no"], Lookup(m, f).file))

Bound(m, f) == IF f \in WiredFunctions THEN Proc(m, f)
               ELSE IF Lookup(m, f).kind = "autoload" THEN Autoloaded(m, f)
               ELSE Entered(m, f)
ArgTaken(m) == [m EXCEPT !.arg = IF m.argState = "no" THEN 1 ELSE @,
                         !.argState = IF @ = "prepared" THEN "have" ELSE @]
ArgSpent(m) == IF m.argState = "prepared" THEN m ELSE [m EXCEPT !.argState = "no", !.arg = 1]
ExecuteBound(m, f) == ArgSpent(Bound([ArgTaken(m) EXCEPT !.val = Void, !.rv = 0], f))

(***************************************************************************)
(* One expression.  When the program is stepped a key decides: go on, skip *)
(* it, stop stepping inside it, or for good.                               *)
(***************************************************************************)
StepKey(m)  == IF m.steps = << >> THEN "space" ELSE Head(m.steps)
Stepped(m)  == m.single % 2 = 1

ExecProg(m, p) ==
  LET t    == [m EXCEPT !.val = Void, !.rv = 0]
      key  == IF Stepped(t) THEN StepKey(t) ELSE "space"
      s    == [t EXCEPT !.steps = IF Stepped(t) /\ @ # << >> THEN Tail(@) ELSE @,
                        !.single = IF key \in {"!", "s"} THEN 0 ELSE @,
                        !.cur = IF m.forced THEN NoNode ELSE p, !.forced = FALSE, !.last = 0]
  IN  IF m.err THEN [m EXCEPT !.rv = 0]
      ELSE IF p = NoNode THEN Error(t)
      ELSE [IF key = "^G" THEN [t EXCEPT !.steps = s.steps] ELSE ExecuteBound(s, FunctionOf(p))
            EXCEPT !.cur = m.cur, !.last = m.last, !.forced = FALSE,
                   !.single = IF key = "!" THEN 0 ELSE m.single]
=============================================================================
