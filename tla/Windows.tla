------------------------------- MODULE Windows -------------------------------
(***************************************************************************)
(* The window manager: windows tied to buffers, the current window and the *)
(* current buffer, and the two values of dot that each switch saves and    *)
(* loads (window.c, windowman.c, SetBfp and DelBuf of buffer.c), together  *)
(* with the two activities that span other commands and put the windows    *)
(* back afterwards: reading from the minibuffer (BrGetstr of minibuf.c)    *)
(* and the MLisp excursions (mlisp.c).  Text does not change here; a dot   *)
(* is a position, and position p fits every buffer with p - 1 characters.  *)
(*                                                                         *)
(* Buffers are numbered; a number is used again once nothing holds it.     *)
(***************************************************************************)
EXTENDS Integers, Sequences, FiniteSets, SequencesExt, FiniteSetsExt

CONSTANTS
  PopUpWindows,           \* a variable of the window manager
  Buffers,                \* 1..n, minibuf and main among them
  FileBuffers,            \* those whose b_kind is FileBuffer
  EmptyBuffers,           \* those without text
  Scenes                  \* the terminals and commands tried, see scene

minibuf == 1
main    == 2

(* The minibuffer is made a scratch buffer. *)
ASSUME ScreenAssumption  == \A s \in Scenes : /\ s.ScreenLength \in Nat /\ s.ScreenLength >= 3
                                             /\ s.maxdot \in Nat
ASSUME BuffersAssumption == /\ Buffers \subseteq Nat \ {0} /\ {minibuf, main} \subseteq Buffers
                            /\ minibuf \in EmptyBuffers /\ minibuf \notin FileBuffers

VARIABLES
  scr,   \* windows, current window and buffer, dot, ephemeral dots, buffers
  stack, \* the activities that are open, innermost first
  scene  \* what is tried and never changes: ScreenLength, the lines of the
         \* terminal; SplitHeightThreshhold, the other variable of the window
         \* manager; names, the buffers named in answers; activities, those
         \* that may be open; and the bounds maxdot, the positions of dot, and
         \* depth, the activities open at once

vars == << scr, stack, scene >>

Positions(b) == IF b \in EmptyBuffers THEN {1} ELSE 1..scene.maxdot

(***************************************************************************)
(* The state record.  wins runs from windows to the bottom one; cur is the *)
(* index of wn_cur; bf is bf_cur, 0 when there is none; eph[b] is          *)
(* b_EphemeralDot; list is the chain from buffers.  use orders w_lastuse.  *)
(***************************************************************************)
Current(s)    == s.wins[s.cur]
Deleted(s, b) == ~Contains(s.list, b)
Bottom(s)     == Len(s.wins)
TextWindows(s) == 1..(Len(s.wins) - 1)
Showing(s, b) == { i \in 1..Len(s.wins) : s.wins[i].buf = b }

UseTime(s)  == 1 + Max({ s.wins[i].use : i \in 1..Len(s.wins) })
FreshId(s)  == Min((1..(Len(s.wins) + 1)) \ { s.wins[i].id : i \in 1..Len(s.wins) })
IndexOf(s, id) == CHOOSE i \in 1..Len(s.wins) : s.wins[i].id = id

(* A slip: the dot of the window that is left is not stored. *)
SetBfpForgets(s, p) ==
  IF Deleted(s, p) THEN s
  ELSE LET left == IF s.bf = 0 THEN s ELSE [s EXCEPT !.eph[s.bf] = s.dot]
       IN  [left EXCEPT !.bf  = p,
                        !.dot = IF p = Current(s).buf THEN Current(s).dot ELSE s.eph[p]]

(* Make p the current buffer; a deleted one is passed over in silence. *)
SetBfp(s, p) ==
  IF Deleted(s, p) THEN s
  ELSE LET left == IF s.bf = 0 THEN s
                   ELSE [s EXCEPT !.eph[s.bf] = s.dot,
                                  !.wins[s.cur].dot =
                                     IF s.bf = Current(s).buf THEN s.dot ELSE @]
       IN  [left EXCEPT !.bf  = p,
                        !.dot = IF p = Current(left).buf THEN Current(left).dot
                                ELSE left.eph[p]]

(* ToMark goes to the buffer of the marker, then yields its position, cut  *)
(* to the text it finds when that buffer has gone.                         *)
Goto(s, b)   == IF s.bf = b THEN s ELSE SetBfp(s, b)
Clip(s, pos) == IF pos \in Positions(s.bf) THEN pos ELSE 1
ToMark(s, m) ==
  LET t == Goto(s, m.buf)
  IN  [t EXCEPT !.dot = IF t.bf = m.buf THEN m.dot ELSE Clip(t, m.dot)]

SetWin(s, w) ==
  LET b == s.wins[w].buf
      t == SetBfp([s EXCEPT !.wins[w].use = UseTime(s)], b)
  IN  SetBfp([t EXCEPT !.cur = w, !.bf = 0], b)

(* NewBf puts the new buffer at the head of the chain. *)
NewBf(s, b) == [s EXCEPT !.list = << b >> \o @, !.eph[b] = 1]

TieWin(s, w, b) ==
  IF s.wins[w].buf = b \/ Deleted(s, b) THEN s
  ELSE [s EXCEPT !.wins[w].buf = b, !.wins[w].use = UseTime(s),
                 !.wins[w].dot = IF b = s.bf THEN s.dot ELSE s.eph[b]]

(***************************************************************************)
(* Splitting and deleting windows.                                         *)
(***************************************************************************)
Splits(s, w) == s.wins[w].height > 4

(* The new window takes the stored dot of the old one, not the live dot. *)
SplitWin(s, w) ==
  IF ~Splits(s, w) THEN s
  ELSE LET t == Goto(s, s.wins[w].buf)
           h == t.wins[w].height \div 2
           n == [t.wins[w] EXCEPT !.id = FreshId(t), !.height = h, !.use = 0]
       IN  SetBfp([t EXCEPT !.wins = InsertAt([t.wins EXCEPT ![w].height = @ - h], w + 1, n),
                            !.cur  = IF @ > w THEN @ + 1 ELSE @],
                  s.bf)
SplitOff(s, w) == IF Splits(s, w) THEN w + 1 ELSE w

LargestHeight(s) == Max({ s.wins[i].height : i \in TextWindows(s) })
LargestWindow(s) == Min({ i \in TextWindows(s) : s.wins[i].height = LargestHeight(s) })
SplitLargestWindow(s) == SplitWin(s, LargestWindow(s))

(* A slip: the bottom window goes like any other. *)
DelWinAny(s, w) ==
  IF Bottom(s) = 2 THEN s
  ELSE LET heir == IF w > 1 THEN w - 1 ELSE 2
           t    == IF w = s.cur THEN SetWin(s, heir) ELSE s
       IN  [t EXCEPT !.wins = RemoveAt([t.wins EXCEPT ![heir].height = @ + t.wins[w].height], w),
                     !.cur  = IF @ > w THEN @ - 1 ELSE @]

(* The bottom window stays, and so does the last one above it. *)
DelWin(s, w) ==
  IF w = Bottom(s) \/ Bottom(s) = 2 THEN s
  ELSE LET heir == IF w > 1 THEN w - 1 ELSE 2
           t    == IF w = s.cur THEN SetWin(s, heir) ELSE s
       IN  [t EXCEPT !.wins = RemoveAt([t.wins EXCEPT ![heir].height = @ + t.wins[w].height], w),
                     !.cur  = IF @ > w THEN @ - 1 ELSE @]

(* A loop over the list as it was deletes the windows that it is to. *)
DelWins(s, doomed) ==
  LET after[k \in 0..Len(s.wins)] ==
        IF k = 0 THEN s
        ELSE IF s.wins[k].id \notin doomed THEN after[k - 1]
        ELSE DelWin(after[k - 1], IndexOf(after[k - 1], s.wins[k].id))
  IN  after[Len(s.wins)]

(***************************************************************************)
(* Finding a window for a buffer.                                          *)
(***************************************************************************)
Empty(s, b) == b \in EmptyBuffers \/ Deleted(s, b)
LRUwin(s) ==
  LET empty  == { i \in TextWindows(s) : Empty(s, s.wins[i].buf) }
      others == TextWindows(s) \ {s.cur}
      oldest == Min({ s.wins[i].use : i \in others })
  IN  IF empty # {} THEN [ at |-> s, w |-> Min(empty) ]
      ELSE IF others = {} \/ LargestHeight(s) >= scene.SplitHeightThreshhold
           THEN [ at |-> SplitLargestWindow(s), w |-> SplitOff(s, LargestWindow(s)) ]
           ELSE [ at |-> s, w |-> Min({ i \in others : s.wins[i].use = oldest }) ]

WindowOn(s, b) ==
  LET pick == IF Current(s).buf = b     THEN [ at |-> s, w |-> s.cur ]
              ELSE IF Showing(s, b) # {} THEN [ at |-> s, w |-> Min(Showing(s, b)) ]
              ELSE IF PopUpWindows       THEN LRUwin(s)
              ELSE [ at |-> s, w |-> s.cur ]
  IN  SetWin(TieWin(pick.at, pick.w, b), pick.w)

(***************************************************************************)
(* Heights.                                                                *)
(***************************************************************************)
Least(s, w) == IF s.wins[w].buf = minibuf THEN 1 ELSE 2
CanChange(s, w, delta) == s.wins[w].height + delta >= Least(s, w)
ChgWHeight(s, w, delta) ==
  IF CanChange(s, w, delta) THEN [s EXCEPT !.wins[w].height = @ + delta] ELSE s

(* Who can give or take delta lines: chaining below, or above. *)
Chain(s, range, delta) ==
  { i \in range : s.wins[i].buf # minibuf /\ CanChange(s, i, delta) }
ChangeWindowSize(s, delta) ==
  LET below == Chain(s, (s.cur + 1)..Bottom(s), -delta)
      above == Chain(s, 1..(s.cur - 1), -delta)
  IN  IF ~CanChange(s, s.cur, delta) \/ (below = {} /\ above = {}) THEN s
      ELSE ChgWHeight(ChgWHeight(s, IF below # {} THEN Min(below) ELSE Max(above), -delta),
                      s.cur, delta)

(***************************************************************************)
(* Deleting a buffer.                                                      *)
(***************************************************************************)
(* Numbers no buffer has and no window, marker or activity still names. *)
Held(s) == { s.wins[i].buf : i \in 1..Len(s.wins) } \cup {s.bf}
             \cup UNION { stack[k].holds : k \in 1..Len(stack) }
Unused(s) == Buffers \ (Range(s.list) \cup Held(s))

(* The buffer that replaces a deleted one in the current window. *)
Replacement(s) ==
  LET file == { i \in 1..Len(s.list) : s.list[i] \in FileBuffers }
  IN  IF file # {} THEN s.list[Min(file)] ELSE Head(s.list)

(* The chain of buffers without b, and the windows on it. *)
Unlinked(s, b) ==
  [s EXCEPT !.list = RemoveAt(s.list, CHOOSE i \in 1..Len(s.list) : s.list[i] = b)]
Tied(s, b) == { s.wins[i].id : i \in Showing(s, b) }

(* A slip: the current window is left as it is. *)
DelBufUntied(s, b) ==
  LET t == DelWins(Unlinked(s, b), Tied(s, b))
  IN  IF Current(t).buf # t.bf THEN SetBfp(t, Current(t).buf) ELSE t

DelBuf(s, b) ==
  LET t == DelWins(Unlinked(s, b), Tied(s, b))
      p == Replacement(t)
      u == IF Current(t).buf # b THEN t
           ELSE IF p # minibuf THEN TieWin(t, t.cur, p)
           ELSE LET new == Min(Unused(t) \ {b})
                IN  TieWin(NewBf(t, new), t.cur, new)
  IN  IF Current(u).buf # u.bf THEN SetBfp(u, Current(u).buf) ELSE u

(***************************************************************************)
(* Commands.  Each ends with the ranks of w_lastuse, and the ephemeral     *)
(* dots of dead buffers, in normal form.                                   *)
(***************************************************************************)
Rank(s, i) ==
  IF i = Bottom(s) THEN 0
  ELSE Cardinality({ s.wins[j].use : j \in { k \in TextWindows(s) :
                       s.wins[k].use > 0 /\ s.wins[k].use <= s.wins[i].use } })
Finish(s) ==
  scr' = [s EXCEPT !.wins = [ i \in 1..Len(s.wins) |-> [s.wins[i] EXCEPT !.use = Rank(s, i)] ],
                   !.eph  = [ b \in Buffers |-> IF Deleted(s, b) THEN 1 ELSE s.eph[b] ]]

(* A command needs a current buffer; without one the program faults. *)
Alive == scr.bf # 0
Command(s) == Alive /\ Finish(s) /\ UNCHANGED << stack, scene >>

(* SetBfn: go to the buffer of that name, made if there is none. *)
SetBfn(s, b) == SetBfp(IF Deleted(s, b) THEN NewBf(s, b) ELSE s, b)
Nameable == scene.names \cap (Range(scr.list) \cup Unused(scr))

MoveDot(d) == Command([scr EXCEPT !.dot = d]) /\ d \in Positions(scr.bf)

(* Before a key is interpreted the current buffer is made the window's. *)
NextKey == /\ Current(scr).buf # scr.bf
           /\ Command(SetBfp(scr, Current(scr).buf))

SwitchToBuffer(b) ==
  /\ b \in Nameable
  /\ Command(TieWin(SetBfn(scr, b), IF scr.cur = Bottom(scr) THEN 1 ELSE scr.cur, b))
PopToBuffer(b)   == b \in Nameable /\ Command(WindowOn(SetBfn(scr, b), b))
TempUseBuffer(b) == b \in Nameable /\ Command(SetBfn(scr, b))
DeleteBuffer(b)  == /\ b \in Range(scr.list) \ {minibuf}
                    /\ Unused(scr) # {} \/ Len(scr.list) > 2
                    /\ Command(DelBuf(scr, b))

DeleteWindow == LET t == DelWin(scr, scr.cur)
                IN  Command(SetBfp(t, Current(t).buf))
DeleteOtherWindows ==
  Command(DelWins(scr, { scr.wins[i].id : i \in 1..Len(scr.wins) } \ {Current(scr).id}))
SplitCurrentWindow ==
  Command(SetWin(SplitWin(scr, scr.cur), SplitOff(scr, scr.cur)))

(* The bottom window is passed over unless the minibuffer is being read. *)
Reading == \E k \in 1..Len(stack) : stack[k].do = "getstr"
NextWindow ==
  LET s == SetWin(scr, IF scr.cur = Bottom(scr) THEN 1 ELSE scr.cur + 1)
  IN  Command(IF s.cur = Bottom(s) /\ ~Reading THEN SetWin(s, 1) ELSE s)
PreviousWindow ==
  LET s == SetWin(scr, IF scr.cur = 1 THEN Bottom(scr) ELSE scr.cur - 1)
  IN  Command(IF s.cur = Bottom(s) /\ ~Reading THEN SetWin(s, s.cur - 1) ELSE s)

EnlargeWindow(arg) == Command(ChangeWindowSize(scr, arg))
ShrinkWindow(arg)  == Command(ChangeWindowSize(scr, -arg))

(***************************************************************************)
(* Reading from the minibuffer: the keys struck until the answer is ended  *)
(* are commands like any other, given in the bottom window.                *)
(***************************************************************************)
Open(f) == stack' = << f >> \o stack /\ UNCHANGED scene
Close   == stack' = Tail(stack) /\ UNCHANGED scene
Innermost(what) == stack # << >> /\ Head(stack).do = what

GetstrEnter ==
  LET s == SetWin(scr, Bottom(scr))
  IN  /\ Alive /\ Len(stack) < scene.depth /\ "getstr" \in scene.activities
      /\ Open([ do |-> "getstr", num |-> scr.cur, outer |-> s.dot,
                mark |-> [ buf |-> scr.bf, dot |-> Clip(scr, scr.dot) ], holds |-> {scr.bf},
                ids |-> [ i \in DOMAIN scr.wins |-> scr.wins[i].id ] ])
      /\ Finish([s EXCEPT !.dot = 1])   \* EraseBf

(* A slip: one window too far is counted on the way back. *)
ReturnToNext(s, num) == IF num < Bottom(s) THEN SetWin(s, num + 1) ELSE WindowOn(s, s.bf)

(* The window is found again by its number in the list. *)
Return(s, num) == IF num <= Bottom(s) THEN SetWin(s, num) ELSE WindowOn(s, s.bf)

GetstrLeave ==
  LET f == Head(stack)
      t == SetBfp(scr, minibuf)
  IN  /\ Alive /\ Innermost("getstr")
      /\ Finish(ToMark(Return([t EXCEPT !.dot = Clip(t, f.outer)], f.num), f.mark))
      /\ Close

(***************************************************************************)
(* save-excursion and save-window-excursion: what the body does is again   *)
(* any sequence of commands.                                               *)
(***************************************************************************)
(* Recording a window goes to its buffer, and reads its stored dot. *)
Recorded(s) ==
  LET at[k \in 0..(Len(s.wins) - 1)] ==
        IF k = 0 THEN s ELSE Goto(at[k - 1], at[k - 1].wins[k].buf)
      Record(k, w) == [ height |-> w.height, buf |-> w.buf, dot |-> Clip(at[k], w.dot) ]
  IN  [ at   |-> at[Len(s.wins) - 1],
        wins |-> [ k \in TextWindows(s) |-> Record(k, at[k].wins[k]) ] ]

Saved(s, wins, current) ==
  [ do |-> "excursion", wins |-> wins, current |-> current,
    mark |-> [ buf |-> s.bf, dot |-> s.dot ], visible |-> Current(s).buf = s.bf,
    holds |-> {s.bf} \cup { wins[i].buf : i \in DOMAIN wins },
    bf |-> scr.bf, dot |-> scr.dot ]

SaveExcursionEnter ==
  /\ Alive /\ Len(stack) < scene.depth /\ "excursion" \in scene.activities
  /\ Open(Saved(scr, << >>, 0))
  /\ Finish(scr)
SaveWindowExcursionEnter ==
  LET r == Recorded(scr)
  IN  /\ Alive /\ Len(stack) < scene.depth /\ "windows" \in scene.activities
      /\ Open(Saved(r.at, r.wins, IF scr.cur = Bottom(scr) THEN -1 ELSE scr.cur))
      /\ Finish(r.at)

(* A slip: the buffer comes back, the dot does not. *)
BackToBuffer(s, f) ==
  LET t == SetBfp(s, f.mark.buf) IN IF f.visible THEN WindowOn(t, t.bf) ELSE t

(* The end of SaveExcursion; nothing is done about a buffer that has gone. *)
BackToMark(s, f) ==
  LET t == SetBfp(s, f.mark.buf)
  IN  ToMark(IF f.visible THEN WindowOn(t, t.bf) ELSE t, f.mark)

(* A slip: one window more than recorded is left. *)
TrimShort(s, n) == DelWins(s, { s.wins[i].id : i \in (n + 2)..Len(s.wins) })

(* As many text windows as there were, if there is room to split. *)
TrimTo(s, n)  == DelWins(s, { s.wins[i].id : i \in (n + 1)..Len(s.wins) })
SplitTo(s, n) ==
  LET after[k \in 0..(n + 1 - Len(s.wins))] ==
        IF k = 0 THEN s ELSE SplitLargestWindow(after[k - 1])
  IN  IF n < Len(s.wins) THEN s ELSE after[n + 1 - Len(s.wins)]

(* Window k as recorded; past the end of the list the program faults. *)
Reinstated(s, k, r) ==
  IF s.bf = 0 \/ k > Len(s.wins) THEN [s EXCEPT !.bf = 0]
  ELSE LET t == ToMark(TieWin(ChgWHeight(s, k, r.height - s.wins[k].height), k, r.buf), r)
       IN  [t EXCEPT !.wins[k].dot = t.dot]

Reinstate(s, wins) ==
  LET after[k \in 0..Len(wins)] ==
        IF k = 0 THEN s ELSE Reinstated(after[k - 1], k, wins[k])
  IN  after[Len(wins)]

ExcursionLeave ==
  LET f == Head(stack)
      n == Len(f.wins)
      s == BackToMark(scr, f)
      t == Reinstate(SplitTo(TrimTo(s, n), n), f.wins)
  IN  /\ Alive /\ Innermost("excursion")
      /\ Finish(IF f.current = 0 THEN s
                ELSE IF t.bf = 0 THEN t
                ELSE SetWin(t, IF f.current = -1 THEN Bottom(t) ELSE f.current))
      /\ Close

(***************************************************************************)
(* The specification.                                                      *)
(***************************************************************************)
Window(b, h, id) == [ id |-> id, buf |-> b, height |-> h, use |-> 2 - id, dot |-> 1 ]

(* InitWin splits off the bottom window and shrinks it to one line. *)
Init ==
  /\ scene \in Scenes
  /\ scr = [ wins |-> << Window(main, scene.ScreenLength - 1, 1), Window(minibuf, 1, 2) >>,
             cur |-> 1, bf |-> main, dot |-> 1,
             eph |-> [ b \in Buffers |-> 1 ], list |-> << main, minibuf >> ]
  /\ stack = << >>

(* The program has no current buffer to work on. *)
Faulted == ~Alive /\ UNCHANGED vars

Next ==
  \/ \E d \in 1..scene.maxdot : MoveDot(d)
  \/ NextKey
  \/ \E b \in Buffers : \/ SwitchToBuffer(b) \/ PopToBuffer(b)
                        \/ TempUseBuffer(b)  \/ DeleteBuffer(b)
  \/ DeleteWindow \/ DeleteOtherWindows \/ SplitCurrentWindow
  \/ NextWindow \/ PreviousWindow \/ EnlargeWindow(1) \/ ShrinkWindow(1)
  \/ GetstrEnter \/ GetstrLeave
  \/ SaveExcursionEnter \/ SaveWindowExcursionEnter \/ ExcursionLeave
  \/ Faulted

Spec == Init /\ [][Next]_vars

(***************************************************************************)
(* Properties.                                                             *)
(***************************************************************************)
(* The lines that a list of windows takes up. *)
Lines(wins) ==
  LET upto[i \in 0..Len(wins)] == IF i = 0 THEN 0 ELSE upto[i - 1] + wins[i].height
  IN  upto[Len(wins)]

(* Whatever is split, deleted, enlarged or shrunk, the windows take up the *)
(* lines of the terminal exactly (w_height of SplitWin, DelWin, ChgWHeight),*)
(* unless a save-window-excursion gave recorded heights to fewer windows    *)
(* because a split was refused; no window is tied to a deleted buffer and   *)
(* the current buffer exists: DelBuf has found every use of the buffer it   *)
(* frees.  (Not so when a buffer is deleted while an answer or an excursion *)
(* that holds it is open.)                                                  *)
WindowsSound ==
  /\ "windows" \notin scene.activities =>
       Lines(scr.wins) = scene.ScreenLength
  /\ (scene.activities = {} /\ minibuf \notin scene.names) =>
       /\ Alive /\ ~Deleted(scr, scr.bf)
       /\ \A i \in 1..Len(scr.wins) : ~Deleted(scr, scr.wins[i].buf)

(* The place of window i: dot itself while the window shows it. *)
Place(s, i) == IF i = s.cur /\ s.bf = s.wins[i].buf THEN s.dot ELSE s.wins[i].dot

(* Only moving dot moves the place of a window that keeps its buffer: each *)
(* switch of windows or buffers (SetBfp, SetWin, TieWin, DelBuf) stores and *)
(* loads the dot of the right window.  (Going to a window on a deleted     *)
(* buffer, SetWin does not store the dot of the one it leaves.)            *)
PlacesKept ==
  [][ \/ \E d \in 1..scene.maxdot : MoveDot(d)
      \/ stack' # stack
      \/ \E i \in 1..Len(scr.wins) : Deleted(scr, scr.wins[i].buf)
      \/ \A i \in 1..Len(scr.wins) : \A j \in 1..Len(scr'.wins) :
           (scr.wins[i].id = scr'.wins[j].id /\ scr.wins[i].buf = scr'.wins[j].buf)
             => Place(scr, i) = Place(scr', j) ]_vars

(* The innermost activity, of this kind, has just ended. *)
Ended(kind) == stack' # stack /\ Innermost(kind) /\ stack' = Tail(stack)

(* The last window of the list is the minibuffer's: DelWin "can't" delete  *)
(* it, no command given while an answer is typed in it ties it to another  *)
(* buffer, and so BrGetstr erases no text but the answer.  Only the end of *)
(* save-window-excursion may break this: a split that is refused there     *)
(* leaves its loop in the minibuffer's window.                             *)
BottomIsMinibuf ==
  [][ scr.wins[Bottom(scr)].buf = minibuf /\ ~Ended("excursion")
        => scr'.wins[Bottom(scr')].buf = minibuf ]_vars

(* When an answer has been read, and no window was made or removed since,  *)
(* the command goes on in the window, buffer and place where it asked.     *)
ReadReturns ==
  [][ LET f == Head(stack)
      IN  (/\ Ended("getstr")
           /\ f.ids = [ i \in DOMAIN scr.wins |-> scr.wins[i].id ]
           /\ ~Deleted(scr, f.mark.buf) /\ ~Deleted(scr, scr.wins[f.num].buf))
          => scr'.cur = f.num /\ scr'.bf = f.mark.buf /\ scr'.dot = f.mark.dot ]_vars

(* save-excursion ends in the buffer and at the dot where it began,        *)
(* whatever windows and buffers its body made, left or deleted.            *)
ExcursionRestores ==
  [][ LET f == Head(stack)
      IN  Ended("excursion") /\ f.wins = << >> /\ ~Deleted(scr, f.bf)
          => scr'.bf = f.bf /\ scr'.dot = f.dot ]_vars

(* When the body has left at least as many windows as there were, and the  *)
(* minibuffer at the bottom, each gets back its lines and its buffer, and  *)
(* the extra ones are gone, with all of their lines above the bottom one.  *)
(* (ChgWHeight refuses to make a window of less than two lines.)           *)
LayoutRestored ==
  [][ LET f == Head(stack)
          n == Len(f.wins)
      IN  (/\ Ended("excursion") /\ n > 0 /\ n < Len(scr.wins)
           /\ scr.wins[Bottom(scr)].buf = minibuf
           /\ \A i \in 1..n : f.wins[i].height > 1 /\ ~Deleted(scr, f.wins[i].buf)
           /\ \A i \in DOMAIN scr.wins : ~Deleted(scr, scr.wins[i].buf))
          => /\ Len(scr'.wins) = n + 1
             /\ scr'.wins[n + 1].height = scr.wins[Bottom(scr)].height
             /\ \A i \in 1..n : /\ scr'.wins[i].buf = f.wins[i].buf
                                /\ scr'.wins[i].height = f.wins[i].height ]_vars

==============================================================================
