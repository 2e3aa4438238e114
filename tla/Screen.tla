------------------------------- MODULE Screen --------------------------------
(***************************************************************************)
(* display.c: the rows the terminal is believed to show (PhysScreen), the  *)
(* rows it should show (DesiredScreen), and UpdateScreen, which makes the  *)
(* first into the second: a changed row by the cheapest edit of the line,  *)
(* a changed screen by the cheapest insertions and deletions of lines.     *)
(* Operators only; Redisplay turns them into actions.                      *)
(*                                                                         *)
(* glass is what the terminal really shows.  A cell is a character, plus   *)
(* Bright when it is highlighted (a blank looks the same either way).      *)
(* A struct line is named by where it comes from: n for the line that row  *)
(* n shows when an update begins, L + n for the one it should show.        *)
(***************************************************************************)
EXTENDS Integers, Sequences, SequencesExt, FiniteSetsExt

CONSTANT MissingFeature   \* the overhead of an operation the terminal lacks

Space  == 32
Bright == 128
Spoilt == 0               \* a cell after an operation the terminal lacks

(* What a null pointer to a line stands for. *)
NoLine == [ body |-> << >>, hl |-> FALSE ]

LeadOf(s)  == Max({ k \in 0..Len(s) : \A i \in 1..k : s[i] = Space })
TrimEnd(s) == SubSeq(s, 1, Max({0} \cup { i \in 1..Len(s) : s[i] # Space }))
Bare(s)    == SubSeq(s, LeadOf(s) + 1, Len(s))
Agree(a, b) == Max({ k \in 0..Min({Len(a), Len(b)}) :
                       SubSeq(a, 1, k) = SubSeq(b, 1, k) })
Blanks(k) == [ i \in 1..k |-> Space ]
Cells(s, hl) == [ i \in 1..Len(s) |-> IF hl /\ s[i] # Space THEN s[i] + Bright
                                      ELSE s[i] ]

(* The row of cells a line makes on a clean terminal. *)
RowOf(tt, line) ==
  LET c == Cells(line.body, line.hl)
  IN  [ i \in 1..tt.W |-> IF i <= Len(c) THEN c[i] ELSE Space ]

(***************************************************************************)
(* The terminal's operations on one row: dumpstring and blanks with        *)
(* INSmode off and on, deletechars, wipeline.                              *)
(***************************************************************************)
Over(row, c, s) ==
  [ i \in DOMAIN row |-> IF i \in c..(c + Len(s) - 1) THEN s[i - c + 1]
                         ELSE row[i] ]
Wipe(row, c) == [ i \in DOMAIN row |-> IF i < c THEN row[i] ELSE Space ]

Inserted(tt, row, c, s) ==
  [ i \in DOMAIN row |-> IF s = << >> THEN row[i]
                         ELSE IF tt.ICov = MissingFeature THEN Spoilt
                         ELSE IF i < c THEN row[i]
                         ELSE IF i < c + Len(s) THEN s[i - c + 1]
                         ELSE row[i - Len(s)] ]
Deleted(tt, row, c, k) ==
  [ i \in DOMAIN row |-> IF k = 0 THEN row[i]
                         ELSE IF tt.DCov = MissingFeature THEN Spoilt
                         ELSE IF i < c THEN row[i]
                         ELSE IF i + k <= tt.W THEN row[i + k] ELSE Space ]

(***************************************************************************)
(* UpdateLine.  The parts of the two lines: leading blanks, a leading      *)
(* match m1, a difference, a trailing match m2.                            *)
(***************************************************************************)
Trailing(oo, nn, same, m1) ==
  LET m2 == Agree(Reverse(SubSeq(oo, same + 1, Len(oo))),
                  Reverse(SubSeq(nn, m1 + 1, Len(nn))))
  IN  [ m1 |-> m1, m2 |-> m2, od |-> Len(oo) - same - m2, nd |-> Len(nn) - m1 - m2 ]

(* loose: blanks of the new line may stand where the old line has ended.    *)
Matches(loose, oo, nn) ==
  LET after(same) ==
        Trailing(oo, nn, same,
                 same + (IF loose /\ same = Len(oo)
                         THEN LeadOf(SubSeq(nn, same + 1, Len(nn))) ELSE 0))
  IN  after(Agree(oo, nn))

Divided(loose, o, n, m) ==
  [ text |-> n, osp |-> IF loose /\ o = << >> THEN LeadOf(n) ELSE LeadOf(o),
    nsp |-> LeadOf(n), m1 |-> m.m1, m2 |-> m.m2, od |-> m.od, nd |-> m.nd ]

Parts(tt, old, new) ==
  LET o == TrimEnd(old.body)
      n == TrimEnd(new.body)
      loose == ~new.hl /\ ~tt.needspaces
      nsp == Min({LeadOf(new.body), Max({Len(new.body) - 1, 0})})
  IN  IF old.hl = new.hl
      THEN Divided(loose, o, n, Matches(loose, Bare(o), Bare(n)))
      ELSE [ text |-> new.body, osp |-> 0, nsp |-> nsp, m1 |-> 0, m2 |-> 0,
             od |-> Len(old.body), nd |-> Len(new.body) - nsp ]

(* Forget matches which would be expensive to capitalize on: c0 to c3 are   *)
(* the prices of using neither, one or both.                                *)
Forget(p, no1, no2) ==
  LET more == (IF no2 THEN p.m2 ELSE 0) + (IF no1 THEN p.m1 ELSE 0)
  IN  [ p EXCEPT !.m1 = IF no1 THEN 0 ELSE @, !.m2 = IF no2 THEN 0 ELSE @,
                 !.od = @ + more, !.nd = @ + more ]

Cheapest(p, c0, c1, c2, c3) ==
  Forget(p, (c0 < c1 /\ c0 < c3) \/ (c2 < c1 /\ c2 < c3),
            (c0 < c2 /\ c0 < c3) \/ (c1 < c2 /\ c1 < c3))

Affordable(tt, p) ==
  LET price(d) == IF d = 0 THEN 0
                  ELSE IF d < 0 THEN tt.DCov - d * tt.DCmf
                  ELSE tt.ICov + d * tt.ICmf
      indent == price(p.nsp - p.osp)
  IN  IF p.m1 = 0 /\ p.m2 = 0 THEN p
      ELSE Cheapest(p, p.nsp + p.m1 + p.m2, indent + p.m2,
                    price((p.nsp + p.nd) - (p.osp + p.od)) + p.m1,
                    price(p.nd - p.od) + indent)

(* The three ways of drawing: all of the line, up to a trailing match, and  *)
(* after a leading one.                                                     *)
(* A slip kept for comparison: the indentation left out of the comparison.  *)
DrawAll_indented(row, p, ink) ==
  LET c == Min({p.nsp, p.osp}) + 1
      s == Blanks(Max({p.nsp - p.osp, 0})) \o SubSeq(ink, p.nsp + 1, Len(p.text))
      drawn == Over(row, c, s)
  IN  IF p.nd < p.od THEN Wipe(drawn, c + Len(s)) ELSE drawn

DrawAll(row, p, ink) ==
  LET c == Min({p.nsp, p.osp}) + 1
      s == Blanks(Max({p.nsp - p.osp, 0})) \o SubSeq(ink, p.nsp + 1, Len(p.text))
      drawn == Over(row, c, s)
  IN  IF p.od = 0 /\ p.nd = 0 THEN row
      ELSE IF p.nsp + p.nd < p.osp + p.od THEN Wipe(drawn, c + Len(s))
      ELSE drawn

DrawHead(tt, row, p, ink) ==
  LET c  == Min({p.nsp, p.osp}) + 1
      nl == Len(p.text) - p.m2
      t  == (p.nsp + p.nd) - (p.osp + p.od)
      s  == SubSeq(ink, c, nl - Max({t, 0}))
      drawn == Over(row, c, s)
  IN  IF t < 0 THEN Deleted(tt, drawn, c + Len(s), 0 - t)
      ELSE Inserted(tt, drawn, c + Len(s), SubSeq(ink, nl - t + 1, nl))

DrawTail(tt, row, p, ink) ==
  LET lsp  == Min({p.nsp, p.osp})
      np   == p.nsp + p.m1 + 1
      nl   == Len(p.text) - p.m2
      c    == lsp + p.m1 + 1
      both == Min({p.nd, p.od})
      from == Deleted(tt, row, 1, p.osp - lsp)
      s    == SubSeq(ink, np, IF p.m2 = 0 THEN nl ELSE np + both - 1)
      drawn == Over(from, c, s)
      fixed == IF p.m2 = 0
               THEN IF p.nd < p.od THEN Wipe(drawn, c + Len(s)) ELSE drawn
               ELSE IF p.nd < p.od
               THEN Deleted(tt, drawn, c + Len(s), p.od - p.nd)
               ELSE Inserted(tt, drawn, c + Len(s), SubSeq(ink, np + p.od, nl))
  IN  Inserted(tt, fixed, 1, Blanks(p.nsp - lsp))

Draw(tt, row, p, ink) == IF p.m1 > 0 THEN DrawTail(tt, row, p, ink)
                         ELSE IF p.m2 > 0 THEN DrawHead(tt, row, p, ink)
                         ELSE DrawAll(row, p, ink)

UpdateLine(tt, row, old, new) ==
  LET with(p) == Draw(tt, IF old.hl # new.hl THEN Wipe(row, 1) ELSE row,
                      p, Cells(p.text, new.hl))
  IN  with(Affordable(tt, Parts(tt, old, new)))

(***************************************************************************)
(* An update in progress: u.phys, u.des (0 for a null pointer), u.free the *)
(* lines released so far, u.twice a "Bogus re-release", u.glass, u.pend    *)
(* (InputPending), u.quiet the UpdateLines to come before a key is seen,   *)
(* u.paused (LastRedisplayPaused).                                         *)
(***************************************************************************)
LineAt(u, id) == IF id = 0 THEN NoLine ELSE u.mem[id]

ReleaseLine(u, id) ==
  IF id = 0 THEN u
  ELSE [ u EXCEPT !.free = @ \cup {id}, !.twice = @ \/ id \in u.free ]

ReleaseIf(u, wanted, id) == IF wanted THEN ReleaseLine(u, id) ELSE u

Change(tt, u, old, new, ln) ==
  IF old = new THEN u
  ELSE [ u EXCEPT !.glass[ln] = UpdateLine(tt, @, LineAt(u, old), LineAt(u, new)),
                  !.quiet = IF u.pend THEN @ ELSE @ - 1,
                  !.pend = @ \/ u.quiet = 1 ]

(* phys[j] = id; des[j] = 0 *)
Settle(u, j, id) == [ u EXCEPT !.phys[j] = id, !.des[j] = 0 ]

(* hashline: highlighted lines are all alike, blanks at the ends ignored. *)
Hash(line) == IF line.hl THEN << Bright >>
              ELSE Bare(TrimEnd(line.body))
DrawCost(line) == Len(Bare(TrimEnd(line.body)))
SameHash(u, i, j) == /\ i # 0 /\ j # 0
                     /\ Hash(u.mem[i]) = Hash(u.mem[j])

(***************************************************************************)
(* calcM: M[i + 1][j + 1] is the least cost of making the first j rows     *)
(* from the first i, and the square the last step comes from.              *)
(***************************************************************************)
calcM(tt, u, win) ==
  LET draw(j) == DrawCost(LineAt(u, u.des[j]))
      move(i) == FoldSet(LAMBDA k, a : a + tt.ILmf * (tt.L - k) + tt.ILov,
                         0, 0..(i - 1))
      square(c, i, j) == [ cost |-> c, i |-> i, j |-> j ]
      top == [ j \in 1..(win + 1) |->
                 square(move(j - 1)
                          + FoldSet(LAMBDA k, a : a + draw(k), 0, 1..(j - 1)),
                        0, j - 2) ]
      step(i, above, row) ==
        LET j    == Len(row)
            id   == tt.ILmf * (win - i + 1) + tt.ILov
            up   == square(above[j + 1].cost + (IF j = win THEN 0 ELSE id),
                           i - 1, j)
            left == square(row[j].cost + (IF i = win THEN 0 ELSE id) + draw(j),
                           i, j - 1)
            diag == square(above[j].cost
                             + (IF SameHash(u, u.phys[i], u.des[j]) THEN 0
                                ELSE draw(j)), i - 1, j - 1)
            first == IF left.cost < up.cost THEN left ELSE up
        IN  IF diag.cost < first.cost THEN diag ELSE first
      next(rows, i) ==
        Append(rows,
               FoldLeft(LAMBDA row, j : Append(row, step(i, rows[i], row)),
                        << square(move(i), i - 1, 0) >>, [ j \in 1..win |-> j ]))
  IN  FoldLeft(next, << top >>, [ i \in 1..win |-> i ])

(* Below the window the rows stay where they are. *)
From(M, win, i, j) == IF i > win THEN [ i |-> i - 1, j |-> j - 1 ]
                      ELSE M[i + 1][j + 1]

(* insertlines and deletelines with the cursor on row r. *)
InsertLines(tt, glass, win, r, k) ==
  [ n \in 1..tt.L |-> IF n < r \/ n > win THEN glass[n]
                      ELSE IF n < r + k THEN Blanks(tt.W) ELSE glass[n - k] ]
DeleteLines(tt, glass, win, r, k) ==
  [ n \in 1..tt.L |-> IF n < r \/ n > win THEN glass[n]
                      ELSE IF n + k <= win THEN glass[n + k]
                      ELSE Blanks(tt.W) ]

(* How many squares above (i, j) are also deletions. *)
RECURSIVE Run(_, _, _, _)
Run(M, win, i, j) ==
  IF i = 0 \/ From(M, win, i, j).j # j THEN 0
  ELSE 1 + Run(M, win, From(M, win, i, j).i, j)

(* The branches of CalcID once the rows above are done: a row drawn anew,   *)
(* and one made from an old row.                                            *)
InsertedRow(tt, u, j) ==
  LET d == u.des[j]
      seen == Change(tt, u, 0, d, j)
  IN  IF u.pend
      THEN [ Settle(ReleaseLine(ReleaseIf(u, u.phys[j] # d, u.phys[j]), d), j, 0)
             EXCEPT !.paused = TRUE ]
      ELSE Settle(ReleaseIf(seen, u.phys[j] # d, u.phys[j]), j, d)

KeptRow(tt, u, i, j, old, early) ==
  LET d == u.des[j]
      p == u.phys[j]
      seen == IF ~early /\ (d # 0 \/ i # j) THEN Change(tt, u, old, d, j) ELSE u
  IN  IF u.pend /\ ~early
      THEN [ Settle(ReleaseIf(ReleaseIf(u, p # old, p), d # old /\ d # p, d),
                    j, old) EXCEPT !.paused = TRUE ]
      ELSE Settle(ReleaseIf(ReleaseIf(seen, p # d, p), old # d /\ old # p, old),
                  j, d)

(* A row whose old row moves lets it go first; on the last row of the       *)
(* screen the line is drawn at once.                                        *)
Early(tt, u, i, j) == i = tt.L /\ j = tt.L /\ u.des[j] \notin {0, u.phys[i]}
Detached(tt, u, i, j) ==
  LET v == [ u EXCEPT !.des[i] = IF u.phys[i] = @ THEN 0 ELSE @, !.phys[i] = 0 ]
  IN  IF Early(tt, u, i, j) THEN Change(tt, v, u.phys[i], u.des[j], j) ELSE v

(* The lines inserted below row j, once all above it is done.               *)
Opened(tt, u, win, j, k) ==
  IF k = 0 THEN u
  ELSE [ u EXCEPT !.glass = InsertLines(tt, @, win, j + 1, k) ]

RECURSIVE CalcID(_, _, _, _, _, _, _)
CalcID(tt, u, M, win, i, j, inserts) ==
  LET f   == From(M, win, i, j)
      run == IF j = win THEN 0 ELSE Run(M, win, f.i, f.j)
      gap == IF j = win THEN u
             ELSE [ u EXCEPT !.glass = DeleteLines(tt, @, win, i - run, run + 1) ]
      above(v, n, k) == CalcID(tt, v, M, win, n, f.j, k)
  IN  IF i = 0 /\ j = 0 THEN Opened(tt, u, win, j, inserts)
      ELSE IF f.i = i
      THEN InsertedRow(tt, above(u, i, IF i # win THEN inserts + 1 ELSE 0), j)
      ELSE Opened(tt, IF f.j = j THEN above(gap, f.i - run, 0)
                      ELSE KeptRow(tt, above(Detached(tt, u, i, j), f.i, 0), i, j,
                                   u.phys[i], Early(tt, u, i, j)),
                  win, j, inserts)

(***************************************************************************)
(* UpdateScreen.                                                           *)
(***************************************************************************)
FastUpdate(tt, u) ==
  LET row(v, n) ==
        IF v.des[n] = 0 THEN v
        ELSE LET seen == [ Change(tt, v, v.phys[n], v.des[n], n)
                           EXCEPT !.quiet = v.quiet, !.pend = v.pend ]
             IN  Settle(ReleaseIf(seen, v.phys[n] # v.des[n], v.phys[n]),
                        n, v.des[n])
  IN  FoldLeft(row, u, [ n \in 1..tt.L |-> n ])

(* The rows a fast update would have to redraw, from the bottom. *)
Differs(u, n) == /\ u.phys[n] # u.des[n] /\ u.phys[n] # 0
                 /\ ~SameHash(u, u.phys[n], u.des[n])

SlowUpdate(tt, u) ==
  LET all == [ u EXCEPT !.des = [ n \in 1..tt.L |-> IF u.des[n] = 0 THEN u.phys[n]
                                                    ELSE u.des[n] ] ]
      alike(n) == \/ all.phys[n] = all.des[n]
                  \/ SameHash(u, all.phys[n], all.des[n])
      win == IF tt.window THEN Max({0} \cup { n \in 1..tt.L : ~alike(n) })
             ELSE tt.L
  IN  IF Cardinality({ n \in 1..tt.L : Differs(all, n) }) <= 2
      THEN FastUpdate(tt, all)
      ELSE CalcID(tt, all, calcM(tt, all, win), win, tt.L, tt.L, 0)

(* scr: the screen between updates, rows holding the lines themselves, Null *)
(* for no line; wants: the rows written since the last update.              *)
(* A screen between updates again, made from u by the update to v.          *)
Settled(tt, u, v) ==
  LET rows == 1..tt.L
      used == { u.phys[n] : n \in rows } \cup { u.des[n] : n \in rows }
      held == { v.phys[n] : n \in rows } \ {0}
  IN  [ phys |-> [ n \in rows |-> IF v.phys[n] = 0 THEN << >>
                                  ELSE << v.mem[v.phys[n]] >> ],
        glass |-> v.glass, garbaged |-> FALSE, pend |-> v.pend,
        paused |-> v.paused,
        owned |-> /\ ~v.twice /\ v.free \cap held = {}
                  /\ used \ {0} = v.free \cup held
                  /\ \A a, b \in rows : a # b /\ v.phys[a] # 0
                                          => v.phys[a] # v.phys[b] ]

UpdateScreen(tt, scr, wants, slow, quiet) ==
  LET rows == 1..tt.L
      known(n) == ~scr.garbaged /\ scr.phys[n] # << >>
      begin == [ mem |-> [ id \in 1..(2 * tt.L) |->
                             IF id <= tt.L
                             THEN IF known(id) THEN scr.phys[id][1] ELSE NoLine
                             ELSE IF wants[id - tt.L] = << >> THEN NoLine
                             ELSE wants[id - tt.L][1] ],
                 phys |-> [ n \in rows |-> IF known(n) THEN n ELSE 0 ],
                 des |-> [ n \in rows |-> IF wants[n] = << >> THEN 0 ELSE tt.L + n ],
                 free |-> {}, twice |-> FALSE,
                 glass |-> IF scr.garbaged THEN [ n \in rows |-> Blanks(tt.W) ]
                           ELSE scr.glass,
                 pend |-> scr.pend \/ quiet = 0, quiet |-> quiet,
                 paused |-> scr.paused ]
      update(u) == Settled(tt, u, IF slow /\ tt.ILov # MissingFeature
                                  THEN SlowUpdate(tt, u) ELSE FastUpdate(tt, u))
  IN  update(begin)
==============================================================================
