------------------------------ MODULE Redisplay ------------------------------
(***************************************************************************)
(* window.c: what the windows should show, and the short cuts DoDsp takes  *)
(* to work it out.  When the hints (Cant1LineOpt, Cant1WinOpt, OneLValid,  *)
(* the modified flag of OneLStart) allow it, only the line of dot is       *)
(* written; else FullUpd writes every window, moving w_start when dot does *)
(* not show.  What was written goes to UpdateScreen (module Screen), which *)
(* may give up half way when a key is typed.                               *)
(*                                                                         *)
(* GetChar calls DoDsp (0) when no input is pending; the output of a       *)
(* process calls DoDsp (1), which leaves the minibuffer as it is.          *)
(***************************************************************************)
EXTENDS Screen

CONSTANTS
  Scenes,     \* what is displayed: terminal, windows, texts, commands
  Ahead,      \* the commands that may run between two displays
  TabSize,
  Jump,       \* how far FullUpd moves along a long line (50)
  MaxTries    \* the windows it tries before it gives up (10)

VARIABLES scene, scr, ed

vars == << scene, scr, ed >>

tt == scene.tt
Newline == 10  Tab == 9  DEL == 127
Wrapped == 92  Cut == 36   \* '\\' and '$', at the end of a row too long

Windows == 1..Len(scene.win)       \* the minibuffer is one more, below them
Buffer(w) == scene.win[w].buf
Height(w) == scene.win[w].height
TopOf(w)  == 1 + FoldSet(LAMBDA v, a : a + Height(v), 0, 1..(w - 1))
MBLine    == tt.L

(***************************************************************************)
(* DumpBfl: one row from character n of text t.  seen is the column of dot *)
(* (0 when it is not on the row).                                          *)
(***************************************************************************)
Wide(c) == c < Space \/ c >= DEL
Glyph(c) == IF Wide(c) THEN << 94, IF c < Space THEN c + 64 ELSE 63 >>
            ELSE << c >>
Padded(s, k) == s \o Blanks(k - Len(s))

RECURSIVE Fill(_, _, _)
Fill(t, dot, r) ==
  LET seen == IF r.n = dot THEN r.col ELSE r.seen
      c    == t[r.n]
      col  == IF c = Tab THEN ((r.col - 1) \div TabSize + 1) * TabSize + 1
              ELSE r.col + Len(Glyph(c))
      fits == IF c = Tab THEN col < tt.W ELSE col <= tt.W
      body == IF ~fits THEN r.body
              ELSE IF c = Tab THEN Padded(r.body, col - 1)
              ELSE Padded(r.body, r.col - 1) \o Glyph(c)
      done(next, end, over) == [ next |-> next, body |-> end, seen |-> seen,
                                 wrapped |-> over /\ scene.wrap ]
      tail(s, mark) == Append(Padded(s, tt.W - 1), mark)
  IN  IF r.n > Len(t) \/ t[r.n] = Newline
      THEN done(r.n + 1, IF r.col > tt.W THEN tail(r.body, Cut) ELSE r.body, FALSE)
      ELSE IF ~fits /\ scene.wrap
      THEN done(r.n, tail(r.body, Wrapped), TRUE)
      ELSE Fill(t, dot, [ n |-> r.n + 1, col |-> col, body |-> body,
                          seen |-> seen ])

DumpBfl(t, n, dot) == Fill(t, dot, [ n |-> n, col |-> 1, body |-> << >>,
                                     seen |-> 0 ])

(* ScanBf for newlines, k either way. *)
RECURSIVE ScanBf(_, _, _)
ScanBf(t, n, k) ==
  LET after  == { i \in n..Len(t) : t[i] = Newline }
      before == { i \in 1..(n - 1) : t[i] = Newline }
  IN  IF k = 0 THEN n + 1
      ELSE IF k > 0
      THEN IF after = {} THEN Max({n, Len(t) + 1})
           ELSE IF k = 1 THEN Min(after) + 1
           ELSE ScanBf(t, Min(after) + 1, k - 1)
      ELSE IF before = {} THEN 1
      ELSE IF k = -1 THEN Max(before) + 1
      ELSE ScanBf(t, Max(before), k + 1)

(***************************************************************************)
(* Markers: the character they stand for, whether they point past the gap, *)
(* whether they were touched (m_modified) since they were set.             *)
(***************************************************************************)
SetMark(s1, pos) == [ at |-> pos, far |-> pos > s1 + 1, touched |-> FALSE ]

GapTo(s1, n, m) ==
  IF n <= s1
  THEN IF ~m.far /\ m.at > n THEN [ m EXCEPT !.far = TRUE, !.touched = TRUE ] ELSE m
  ELSE IF n > s1 + 1 /\ (IF m.far THEN m.at <= n ELSE m.at = s1 + 1)
  THEN [ m EXCEPT !.far = FALSE, !.touched = TRUE ] ELSE m

(* The gap is at n: k characters come in, or go after or before it. *)
Pushed(n, k, m) == IF m.far THEN [ m EXCEPT !.at = @ + k ] ELSE m
Swallowed(n, k, m) ==
  IF m.at < n \/ (m.far /\ m.at >= n + k)
  THEN IF m.far THEN [ m EXCEPT !.at = @ - k ] ELSE m
  ELSE [ at |-> n, far |-> FALSE, touched |-> TRUE ]

(* Every marker of buffer b. *)
InMarks(e, b, F(_)) ==
  [ e EXCEPT !.start = [ w \in Windows |-> IF Buffer(w) = b THEN F(@[w]) ELSE @[w] ],
             !.wdot  = [ w \in Windows |-> IF Buffer(w) = b THEN F(@[w]) ELSE @[w] ],
             !.one   = IF e.onebuf = b THEN F(@) ELSE @ ]

Edited(e, b) == [ e EXCEPT !.cant1 = @ \/ ~e.mod[b], !.mod[b] = TRUE ]

Gap(e, b, n) ==
  [ InMarks(e, b, LAMBDA m : GapTo(e.s1[b], n, m)) EXCEPT !.s1[b] = n - 1 ]

InsAt(e, b, n, c) ==
  LET g == Gap(e, b, n)
      t == e.text[b]
  IN  Edited([ InMarks(g, b, LAMBDA m : Pushed(n, 1, m)) EXCEPT
                 !.text[b] = SubSeq(t, 1, n - 1) \o << c >> \o SubSeq(t, n, Len(t)),
                 !.s1[b] = n, !.cant1 = @ \/ c = Newline ], b)

(* DelFrwd (at = n) and DelBack (at = n + 1) of one character, dot there.  *)
DelAt(e, b, n, at) ==
  LET g == Gap(e, b, at)
      t == e.text[b]
  IN  Edited([ InMarks(g, b, LAMBDA m : Swallowed(n, 1, m)) EXCEPT
                 !.text[b] = SubSeq(t, 1, n - 1) \o SubSeq(t, n + 1, Len(t)),
                 !.s1[b] = n - 1, !.cant1 = @ \/ t[n] = Newline ], b)

(***************************************************************************)
(* DumpWin, and FullUpd's search for a w_start that shows dot.             *)
(***************************************************************************)
RECURSIVE Rows(_, _, _, _)
Rows(t, n, dot, k) ==
  IF k = 0 THEN << >>
  ELSE LET d == DumpBfl(t, n, dot)
       IN  << [ from |-> n, body |-> d.body, seen |-> d.seen,
                wrapped |-> d.wrapped ] >> \o Rows(t, d.next, dot, k - 1)

LineHead(t, n) == IF n > 1 /\ t[n - 1] # Newline THEN ScanBf(t, n, -1) ELSE n

(* v: the window's start (a marker), dot and force; state is dumpstate; rows *)
(* is what was dumped last.                                                 *)
NextStart(t, h, v) ==
  LET at     == v.start.at
      scroll == ScanBf(t, at, IF at > v.dot THEN -1 - scene.step ELSE scene.step)
      centre == ScanBf(t, v.dot, 0 - h \div 2)
      line   == ScanBf(t, at, 1)
  IN  IF v.state = 0 /\ scene.step > 0 /\ v.dot >= scroll THEN << scroll, 1 >>
      ELSE IF v.state <= 1 THEN << centre, 2 >>
      ELSE IF v.state = 2 /\ at < line /\ line <= v.dot THEN << line, 2 >>
      ELSE << at + Jump, IF v.state >= MaxTries THEN -1 ELSE v.state + 1 >>

(* What the window shows from where it starts.                              *)
Dumped(t, s1, h, v) ==
  LET from(start) == [ v EXCEPT !.start = start,
                                !.rows = Rows(t, start.at, v.dot, h - 1) ]
      head == LineHead(t, v.start.at)
  IN  from(IF v.state = 0 /\ head # v.start.at THEN SetMark(s1, head) ELSE v.start)

InSight(v) == { i \in 1..Len(v.rows) : v.rows[i].seen > 0 }

RECURSIVE Fit(_, _, _, _)
Fit(t, s1, h, v) ==
  LET moved(d) == [ d EXCEPT !.slow = TRUE ]
      other(d, next) ==
        IF next[1] > d.dot THEN moved(d)
        ELSE Fit(t, s1, h, [ moved(d) EXCEPT !.start = SetMark(s1, next[1]),
                                             !.state = next[2] ])
      try(d) ==
        IF InSight(d) # {} THEN d
        ELSE IF ~d.force THEN other(d, NextStart(t, h, d))
        ELSE Fit(t, s1, h, [ moved(d) EXCEPT
                   !.dot = IF d.state = 0 THEN ScanBf(t, d.start.at, h \div 2)
                           ELSE d.start.at,
                   !.state = @ + 1, !.force = d.state = 0 ])
  IN  IF v.state < 0 THEN v ELSE try(Dumped(t, s1, h, v))

(* The mode line: the sign of a modified buffer and its name. *)
DumpMode(e, w) == [ body |-> << IF e.mod[Buffer(w)] THEN 42 ELSE 45,
                                48 + Buffer(w) >>, hl |-> scene.modes ]

Plain(s) == [ body |-> s, hl |-> FALSE ]
DumpStr(s) == Plain(IF Len(s) < tt.W - 1 THEN s
                    ELSE Append(SubSeq(s, 1, tt.W - 2) \o << Space >>, Cut))

(* One window of FullUpd: the rows it writes and the state it leaves; in    *)
(* the current window also the cursor and the line of dot.                  *)
Shown(e, w, v) ==
  [ e EXCEPT
      !.want = [ n \in 1..tt.L |->
                   IF n - TopOf(w) + 1 \in 1..Len(v.rows)
                   THEN << Plain(v.rows[n - TopOf(w) + 1].body) >>
                   ELSE IF n = TopOf(w) + Height(w) - 1 /\ e.redo
                   THEN << DumpMode(e, w) >> ELSE e.want[n] ],
      !.start[w] = v.start,
      !.wdot[w] = IF w = e.cur \/ v.dot = @.at THEN @
                  ELSE SetMark(e.s1[Buffer(w)], v.dot),
      !.dot = IF w = e.cur THEN v.dot ELSE @, !.force[w] = FALSE,
      !.slow = @ \/ v.slow ]

DotRow(e, w, r, at) ==
  [ e EXCEPT !.cursor = << at, Min({r.seen, tt.W}) >>,
             !.oneline = at, !.onebuf = Buffer(w), !.onevalid = ~r.wrapped,
             !.one = SetMark(e.s1[Buffer(w)], IF r.wrapped THEN 1 ELSE r.from) ]

ShowWindow(e, w) ==
  LET last(v) == Max(InSight(v))
      show(v) == IF w # e.cur \/ InSight(v) = {} THEN Shown(e, w, v)
                 ELSE DotRow(Shown(e, w, v), w, v.rows[last(v)], TopOf(w) + last(v) - 1)
  IN  show(Fit(e.text[Buffer(w)], e.s1[Buffer(w)], Height(w),
               [ start |-> e.start[w], dot |-> IF w = e.cur THEN e.dot ELSE e.wdot[w].at,
                 force |-> e.force[w], slow |-> e.force[w], state |-> 0,
                 rows |-> << >> ]))

(* The minibuffer's window, empty but for the message. *)
ShowMinibuf(e, save) ==
  IF save /\ e.mb = << >> THEN e
  ELSE [ e EXCEPT !.want[MBLine] =
           << IF e.mb = << >> THEN Plain(<< >>) ELSE DumpStr(e.mb[1]) >> ]

SameBuffer(e) == { w \in Windows : Buffer(w) = Buffer(e.cur) }

FullUpd(e, save) ==
  LET all == FoldLeft(LAMBDA d, w : ShowWindow(d, w),
                      [ e EXCEPT !.onevalid = FALSE ], [ w \in Windows |-> w ])
  IN  [ ShowMinibuf(all, save) EXCEPT
          !.never = Cardinality(SameBuffer(e)) > 1 /\ ~scene.quick ]

(***************************************************************************)
(* DoDsp.                                                                  *)
(***************************************************************************)
(* The one line optimisation: the row of dot, if it may be used. *)
OneLine(e) == DumpBfl(e.text[Buffer(e.cur)], e.one.at, e.dot)

(* A slip: Cant1LineOpt not looked at.                                      *)
MayOneLine_unhinted(e) == /\ e.onevalid /\ ~e.one.touched
                          /\ e.onebuf = Buffer(e.cur)

MayOneLine(e) == /\ ~e.cant1 /\ e.onevalid /\ ~e.one.touched
                 /\ e.onebuf = Buffer(e.cur)

OneRow(e, save) ==
  LET r == OneLine(e)
  IN  [ e EXCEPT !.want[e.oneline] = << Plain(r.body) >>,
                 !.cursor = << e.oneline, Min({r.seen, tt.W}) >>,
                 !.want[MBLine] = IF e.mb = << >> \/ (save /\ e.mb[1] = << >>)
                                  THEN @ ELSE << DumpStr(e.mb[1]) >> ]

(* What DoDsp writes, given the flags; slow is its SlowUpdate. *)
Written(e, save) ==
  IF MayOneLine(e) /\ OneLine(e).seen > 0 /\ ~OneLine(e).wrapped
  THEN OneRow(e, save)
  ELSE LET f == FullUpd(e, save)
       IN  [ f EXCEPT !.slow = @ \/ ~MayOneLine(e) \/ scene.wrap ]

DoDsp(before, save, quiet) ==
  LET forget == scr.garbaged \/ before.err \/ scr.paused
      all    == forget \/ before.cantw
      update(e) ==
        [ scr |-> UpdateScreen(tt, [ scr EXCEPT !.paused = FALSE ],
                               e.want, e.slow, quiet),
          ed |-> [ e EXCEPT !.err = FALSE, !.cant1 = FALSE, !.cantw = e.never,
                            !.want = << >>, !.slow = FALSE, !.ahead = 0 ] ]
  IN  update(Written([ before EXCEPT !.cant1 = @ \/ all, !.redo = @ \/ all,
                         !.want = [ n \in 1..tt.L |-> << >> ] ], save))

Shows(d) == scr' = d.scr /\ ed' = d.ed /\ UNCHANGED scene

(* GetChar with no input pending. *)
Display ==
  /\ scene.kind = "text" /\ ~scr.pend /\ ed.ahead > 0
  /\ \E q \in scene.quiets : Shows(DoDsp(ed, FALSE, q))

(***************************************************************************)
(* stuff_buffer: a process sends a character to its buffer while GetChar   *)
(* waits.  SetBfp sets Cant1WinOpt before the display and after it.        *)
(***************************************************************************)
Received(e, b, c) ==
  [ InsAt(e, b, Len(e.text[b]) + 1, c) EXCEPT
      !.dot = IF Buffer(e.cur) = b THEN Len(e.text[b]) + 2 ELSE @, !.cantw = TRUE ]

Output ==
  /\ scene.kind = "text" /\ ~scr.pend /\ ed.ahead = 0
  /\ \E b \in scene.procs, c \in scene.chars, q \in scene.quiets :
       /\ Len(ed.text[b]) < scene.room
       /\ Shows([ DoDsp(Received(ed, b, c), TRUE, q) EXCEPT !.ed.cantw = TRUE ])

(***************************************************************************)
(* The commands.  Reading the key uses the input up and drops the message  *)
(* that was shown.                                                         *)
(***************************************************************************)
Here  == Buffer(ed.cur)
Size  == Len(ed.text[Here])

Keyed(e) == [ e EXCEPT !.ahead = @ + 1,
                       !.mb = IF @ = << >> \/ @[1] = << >> THEN << >>
                              ELSE << << >> >> ]

SelfInsert(e) == { [ InsAt(e, Here, e.dot, c) EXCEPT !.dot = @ + 1 ] :
                     c \in IF Size < scene.room THEN scene.chars ELSE {} }

DeleteNext(e) == IF e.dot > Size THEN {} ELSE { DelAt(e, Here, e.dot, e.dot) }

DeletePrevious(e) ==
  IF e.dot = 1 THEN {}
  ELSE { [ DelAt(e, Here, e.dot - 1, e.dot) EXCEPT !.dot = @ - 1 ] }

(* forward- and backward-character, beginning- and end-of-file. *)
Move(e) == { [ e EXCEPT !.dot = n ] :
               n \in {1, Size + 1} \cup ({e.dot - 1, e.dot + 1} \cap 1..(Size + 1)) }

(* SetWin, with the two SetBfp it makes. *)
NextWindow(e) ==
  LET w == (e.cur % Len(scene.win)) + 1
      kept == [ e EXCEPT !.wdot[e.cur] = SetMark(e.s1[Here], e.dot) ]
  IN  { [ kept EXCEPT !.cur = w, !.dot = kept.wdot[w].at, !.cantw = TRUE ] }

(* scroll-one-line-up and -down, line-to-top-of-window. *)
WindowMove(e) ==
  { [ e EXCEPT !.start[e.cur] =
        SetMark(e.s1[Here], IF k = 0 THEN ScanBf(e.text[Here], e.dot, -1)
                            ELSE ScanBf(e.text[Here], e.start[e.cur].at, k)),
      !.force[e.cur] = TRUE, !.cant1 = TRUE ] : k \in {-2, 0, 1} }

(* message and error: the first error stays. *)
Say(e) == { IF e.err /\ e.mb # << >> THEN e
            ELSE [ e EXCEPT !.mb = << scene.say >>, !.err = @ \/ bad ] :
              bad \in BOOLEAN }

WriteFile(e) == { [ e EXCEPT !.mod[Here] = FALSE, !.cant1 = TRUE ] }

Do(key, outcomes) ==
  /\ scene.kind = "text" /\ ed.ahead < Ahead /\ key \in scene.keys
  /\ ed' \in outcomes
  /\ scr' = [ scr EXCEPT !.pend = FALSE ]
  /\ UNCHANGED scene

Command == \/ Do("insert", SelfInsert(Keyed(ed)))
           \/ Do("delete", DeleteNext(Keyed(ed)))
           \/ Do("rubout", DeletePrevious(Keyed(ed)))
           \/ Do("move", Move(Keyed(ed)))
           \/ Do("window", NextWindow(Keyed(ed)))
           \/ Do("scroll", WindowMove(Keyed(ed)))
           \/ Do("say", Say(Keyed(ed)))
           \/ Do("write", WriteFile(Keyed(ed)))

(***************************************************************************)
(* Screen by itself: any rows are written, then the screen is updated.     *)
(* SlowUpdate is asked for only when every row was written, which is what  *)
(* FullUpd does once the mode lines are drawn.                             *)
(***************************************************************************)
Paint ==
  /\ scene.kind = "rows"
  /\ \E want \in [ 1..tt.L -> {<< >>} \cup { << l >> : l \in scene.lines } ],
        slow \in BOOLEAN, q \in scene.quiets :
       /\ \E n \in 1..tt.L : want[n] # << >>
       /\ slow => \A n \in 1..tt.L : want[n] # << >>
       /\ ~slow => tt.L = 1
       /\ scr' = UpdateScreen(tt, [ scr EXCEPT !.pend = FALSE, !.paused = FALSE ],
                              want, slow, q)
  /\ UNCHANGED << scene, ed >>

(***************************************************************************)
(* The start: a screen of unknown content, texts of the scene, their gaps  *)
(* at the end, the windows at the beginning of their texts.                *)
(***************************************************************************)
NoMark == [ at |-> 1, far |-> FALSE, touched |-> FALSE ]

Init ==
  /\ scene \in Scenes
  /\ scr = [ phys |-> [ n \in 1..tt.L |-> << >> ],
             glass |-> [ n \in 1..tt.L |-> [ i \in 1..tt.W |-> Spoilt ] ],
             garbaged |-> TRUE, pend |-> FALSE, paused |-> FALSE, owned |-> TRUE ]
  /\ ed = [ text |-> scene.text,
            s1 |-> [ b \in 1..Len(scene.text) |-> Len(scene.text[b]) ],
            mod |-> [ b \in 1..Len(scene.text) |-> FALSE ],
            dot |-> 1, cur |-> 1,
            start |-> [ w \in Windows |-> NoMark ],
            wdot |-> [ w \in Windows |-> NoMark ],
            force |-> [ w \in Windows |-> FALSE ],
            one |-> NoMark, onebuf |-> 0, onevalid |-> FALSE, oneline |-> 0,
            cant1 |-> FALSE, cantw |-> FALSE, never |-> FALSE, redo |-> FALSE,
            mb |-> << >>, err |-> FALSE, slow |-> FALSE, want |-> << >>,
            cursor |-> << 1, 1 >>, ahead |-> 1 ]

Next == Display \/ Output \/ Command \/ Paint

Spec == Init /\ [][Next]_vars

(***************************************************************************)
(* Properties.                                                             *)
(***************************************************************************)
(* What the editor believes of the terminal is so: a row it has a line for  *)
(* shows that line and nothing else, a row it has none for is blank; and    *)
(* every line is on one row or free, not both and not twice (the "Bogus     *)
(* re-release", "Free line in screen" and "core leakage" of display.c).     *)
BeliefsTrue ==
  /\ scr.owned
  /\ ~scr.garbaged =>
       \A n \in 1..tt.L : scr.glass[n] = IF scr.phys[n] = << >> THEN Blanks(tt.W)
                                         ELSE RowOf(tt, scr.phys[n][1])

(* The rows window w should show, from its w_start. *)
Expected(w) == Rows(ed.text[Buffer(w)], ed.start[w].at,
                    IF w = ed.cur THEN ed.dot ELSE 0, Height(w) - 1)

(* After a display no key cut short the terminal shows, row by row, what    *)
(* the texts are now: every window from its start, the mode lines, the      *)
(* message; and the cursor is on dot, which is in sight.  Whatever short    *)
(* cuts were taken since the last display.                                  *)
WindowsTrue ==
  scene.kind = "text" /\ ed.ahead = 0 /\ ~scr.pend /\ ~scr.garbaged =>
    LET rows == [ w \in Windows |-> Expected(w) ]
        mine == rows[ed.cur]
        seen == { i \in 1..Len(mine) : mine[i].seen > 0 }
    IN  /\ \A w \in Windows :
             /\ \A i \in 1..Len(rows[w]) :
                  scr.glass[TopOf(w) + i - 1] = RowOf(tt, Plain(rows[w][i].body))
             /\ scr.glass[TopOf(w) + Height(w) - 1] = RowOf(tt, DumpMode(ed, w))
        /\ scr.glass[MBLine] = RowOf(tt, IF ed.mb = << >> THEN NoLine
                                         ELSE DumpStr(ed.mb[1]))
        /\ seen # {}
        /\ ed.cursor = << TopOf(ed.cur) + Max(seen) - 1,
                          Min({mine[Max(seen)].seen, tt.W}) >>
==============================================================================
