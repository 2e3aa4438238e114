------------------------------ MODULE Keyboard ------------------------------
(***************************************************************************)
(* Reading and running commands: ProcessKeys with its parallel walk down   *)
(* the local and the global map, GetChar with its sources (characters      *)
(* pushed back, a meta character, the macro being run, the terminal), the  *)
(* keyboard macro, named macros, prefix arguments, answers typed in the    *)
(* minibuffer and names of keys, recursive edits, and the interrupt key    *)
(* (keyboard.c, options.c, macros.c, minibuf.c).                           *)
(*                                                                         *)
(* The C stack of the readers is k.stack, innermost first.  A frame is     *)
(*   edit   ProcessKeys of the editor or of a recursive edit               *)
(*   macro  ProcessKeys of ExecStr: mem is the MemPtr to go back to, left  *)
(*          the rounds, own whose body is run                              *)
(*   word, string   BrGetstr: ProcessKeys in the minibuffer                *)
(*   key, quote     a loop over GetChar without ProcessKeys                *)
(* A frame that is over has left its loop and returns in a step of its     *)
(* own; pend is what its ProcessKeys has still to do with a key.           *)
(***************************************************************************)
EXTENDS Keymaps

CONSTANTS
  MemLen,       \* size of KeyMem
  MaxPushBack,  \* MAXPUSHBACK
  MaxDepth,     \* bound: readers at once
  ArgRange,     \* a power of 4: an int that is multiplied by 4 wraps to 0
  Scenes,       \* the tables and maps the editor starts from; in each, keys
                \* are those that are typed and max, a bound, how many
  Files         \* file -> the macros that loading it defines

ASSUME SizesAssumption == MemLen \in Nat /\ MemLen > 1 /\ MaxPushBack \in Nat

VARIABLE k
vars == << k >>

EOT   == "end of input"
NoMem == [own |-> None, pos |-> 0]
NoPend == [stage |-> None, key |-> None, local |-> None]

Frame(kind) == [kind |-> kind, cmd |-> None, got |-> << >>, over |-> FALSE,
                pend |-> NoPend, seq |-> << >>, mem |-> NoMem, left |-> 0,
                own |-> None, text |-> << >>, map |-> None, buf |-> "text",
                arg |-> 1, argState |-> "no"]

Top == k.stack[1]
Walks(f) == f.kind \notin {"key", "quote"}      \* its loop is ProcessKeys
Playing(s) == \E i \in DOMAIN s.stack : s.stack[i].own = "KeyMem"

(* History: the tables at the start or the end of a keyboard macro or of a *)
(* round of it, if only its own keys can be read there.                    *)
NoWhere == << >>
Where(s) == IF s.buf = "text" /\ s.pushed = << >> /\ s.meta = None
            THEN << s.maps, s.names, s.global, s.locals >> ELSE NoWhere
Between(s) == IF Len(s.stack) = 1 /\ s.stack[1].pend.local = None THEN Where(s) ELSE NoWhere

Init ==
  \E sc \in Scenes :
    k = [keys |-> sc.keys, max |-> sc.max, typed |-> 0, maps |-> sc.maps, names |-> sc.names,
         global |-> sc.global, locals |-> sc.locals, buf |-> "text",
         stack |-> << Frame("edit") >>, g |-> None, l |-> None,
         pushed |-> << >>, meta |-> None, mem |-> NoMem, err |-> FALSE,
         arg |-> 1, argState |-> "no", text |-> << >>,
         remembering |-> FALSE, keyMem |-> << >>, used |-> 0, endOfMac |-> 0,
         executing |-> FALSE, interrupt |-> FALSE, undefined |-> FALSE,
         walk |-> [keys |-> << >>, sure |-> FALSE],
         ran |-> [cmd |-> None, said |-> None, sure |-> FALSE],
         log |-> << >>, where |-> NoWhere, macro |-> [cmds |-> << >>, where |-> NoWhere],
         play |-> << >>, from |-> NoWhere,
         replay |-> [want |-> << >>, got |-> << >>, err |-> FALSE]]

(***************************************************************************)
(* Steps of the code on the record.                                        *)
(***************************************************************************)
Error(s) == [s EXCEPT !.err = TRUE, !.l = None, !.g = None]

Push(s, f)  == [s EXCEPT !.stack = << f >> \o @]
Enter(s, f) == [Push(s, f) EXCEPT !.l = None, !.g = None]
Pop(s)      == [s EXCEPT !.stack = Tail(@)]
LeaveLoop(s) == [s EXCEPT !.stack[1].over = TRUE, !.walk.sure = FALSE]

Interactive(s) == s.mem = NoMem

(* A slip: the last place of the memory is used for a key. *)
Remember_full(s, c) ==
  LET put == [s EXCEPT !.used = @ + 1,
                       !.keyMem = IF s.used < Len(@) THEN [@ EXCEPT ![s.used + 1] = c]
                                  ELSE Append(@, c)]
  IN  IF ~s.remembering THEN s
      ELSE IF put.used <= MemLen THEN put
      ELSE [Error(put) EXCEPT !.remembering = FALSE, !.used = 0,
                              !.endOfMac = 0, !.keyMem = << >>]

(* Remember a character; when the memory is full all of it is dropped. *)
Remember(s, c) ==
  LET put == [s EXCEPT !.used = @ + 1,
                       !.keyMem = IF s.used < Len(@) THEN [@ EXCEPT ![s.used + 1] = c]
                                  ELSE Append(@, c)]
  IN  IF ~s.remembering THEN s
      ELSE IF put.used < MemLen THEN put
      ELSE [Error(put) EXCEPT !.remembering = FALSE, !.used = 0,
                              !.endOfMac = 0, !.keyMem = << >>]

StartRemembering(s) ==
  IF s.remembering THEN Error(s)
  ELSE [s EXCEPT !.remembering = TRUE, !.used = 0, !.endOfMac = 0, !.log = << >>,
                  !.where = Between(s)]

(* A slip: the keys of stop-remembering itself stay in the macro. *)
StopRemembering_all(s) ==
  IF ~s.remembering THEN s
  ELSE [s EXCEPT !.remembering = FALSE, !.keyMem = SubSeq(@, 1, s.used), 
                  !.macro = [cmds |-> Front(s.log),
                             where |-> IF Between(s) = s.where THEN s.where ELSE NoWhere]]

(* The macro ends where the command that stops it began. *)
StopRemembering(s) ==
  IF ~s.remembering THEN s
  ELSE [s EXCEPT !.remembering = FALSE, !.keyMem = SubSeq(@, 1, s.endOfMac), 
                  !.macro = [cmds |-> Front(s.log),
                             where |-> IF Between(s) = s.where THEN s.where ELSE NoWhere]]

(* What ProcessKeys does with a command that has returned rv, and what it  *)
(* leaves of the two maps of the walk.                                     *)
LocalAfter(s) ==
  IF s.l = None \/ s.g = None THEN [s EXCEPT !.g = None, !.stack[1].pend = NoPend]
  ELSE [s EXCEPT !.stack[1].pend.stage = "global"]

(* A slip: what is left of the local walk is forgotten. *)
GlobalAfter_forgets(s, local) ==
  [s EXCEPT !.g = IF s.l # None THEN s.l ELSE None,
            !.l = IF s.l # None THEN Null ELSE None,
            !.stack[1].pend = NoPend]

GlobalAfter(s, local) ==
  [s EXCEPT !.g = IF s.l # None THEN s.l ELSE IF local # None THEN Null ELSE None,
            !.l = IF s.l # None /\ local = None THEN Null ELSE local,
            !.stack[1].pend = NoPend]

After(s, rv) ==
  LET p == s.stack[1].pend
  IN  IF rv < 0 THEN LeaveLoop(s)
      ELSE IF p.stage = "local" THEN LocalAfter(s) ELSE GlobalAfter(s, p.local)

(* The end of ExecuteBound for everything but a key map. *)
Complete(s, rv) ==
  After(IF s.argState = "prepared" THEN s ELSE [s EXCEPT !.argState = "no", !.arg = 1], rv)

(* ExecStr: run the body of own, left times in all. *)
Rounds(s, own, left) ==
  Enter([s EXCEPT !.mem = [own |-> own, pos |-> 1],
                  !.from = IF own = "KeyMem" THEN Where(s) ELSE @],
        [Frame("macro") EXCEPT !.mem = s.mem, !.left = left, !.own = own, !.buf = s.buf])

ExecuteKeyboardMacro(s) ==
  IF s.remembering \/ s.used = 0 THEN Complete(Error(s), 0)
  ELSE IF s.executing THEN Complete(s, 0)
  ELSE Rounds([s EXCEPT !.executing = TRUE, !.arg = 0, !.argState = "no"], "KeyMem", s.arg)

(* Only the text of the minibuffer is kept. *)
Insert(s, c) == IF s.buf = "minibuf" THEN [s EXCEPT !.text = Append(@, c)] ELSE s

RecursiveEdit(s) == Enter(s, [Frame("edit") EXCEPT !.buf = s.buf])

ArgumentPrefix(s) ==
  [s EXCEPT !.arg = IF s.argState = "no" THEN 4 ELSE (@ * 4) % ArgRange, !.argState = "prepared"]

(***************************************************************************)
(* Questions.  Ask opens the reader of the next answer of cmd; got holds   *)
(* the answers there are.  The walk in the minibuffer starts afresh, with  *)
(* the minibuffer's map in place of its own.                               *)
(***************************************************************************)
AskKey(s, cmd, got, map) ==
  Push(s, [Frame("key") EXCEPT !.cmd = cmd, !.got = got, !.map = map])
AskText(s, kind, cmd, got) ==
  Enter([s EXCEPT !.buf = "minibuf", !.text = << >>, !.argState = "no",
                  !.locals["minibuf"] = "minibuf map"],
        [Frame(kind) EXCEPT !.cmd = cmd, !.got = got, !.text = s.text, !.buf = s.buf,
                            !.map = s.locals["minibuf"],
                            !.arg = s.arg, !.argState = s.argState])

FirstQuestion ==
  [x |-> "word", bind |-> "word", localBind |-> "word", useGlobal |-> "word",
   useLocal |-> "word", defKeymap |-> "string", defKeyboard |-> "string",
   defString |-> "string", autoload |-> "string"]

NoMacroNow(s, cmd) == \/ cmd \in {"defKeyboard", "defString"} /\ s.remembering
                      \/ cmd = "defKeyboard" /\ s.used <= 0

RunProc(s, cmd) ==
  CASE cmd = "start"     -> Complete(StartRemembering(s), 0)
    [] cmd = "stop"      -> Complete(StopRemembering(s), 0)
    [] cmd = "exec"      -> ExecuteKeyboardMacro(s)
    [] cmd = "edit"      -> RecursiveEdit(s)
    [] cmd = "exit"      -> Complete(s, -1)
    [] cmd = "abort"     -> Complete(Error(s), -1)
    [] cmd = "illegal"   -> Complete([s EXCEPT !.err = TRUE], 0)
    [] cmd = "argument"  -> Complete(ArgumentPrefix(s), 0)
    [] cmd = "quote"     -> Push(s, [Frame("quote") EXCEPT !.cmd = cmd])
    [] cmd = "pushBack"  -> AskKey(s, cmd, << >>, "global")
    [] cmd = "unbind"    -> AskKey(s, cmd, << >>, s.global)
    [] cmd = "localUnbind" ->
         LET t == InitializeLocalMap(s) IN AskKey(t, cmd, << >>, LocalMap(t))
    [] cmd = "localClear"  -> Complete(RemoveAllLocalBindings(s), 0)
    [] cmd \in DOMAIN FirstQuestion ->
         IF NoMacroNow(s, cmd) THEN Complete(Error(s), 0)
         ELSE AskText(s, FirstQuestion[cmd], cmd, << >>)
    [] cmd = "self"  -> Complete(Insert(s, s.stack[1].pend.key), 0)
    [] OTHER         -> Complete(s, 0)

(* Loading the file of an autoloaded name. *)
Loaded(s, n) ==
  LET file == s.names[n].body
  IN  IF file \in DOMAIN Files /\ n \in DOMAIN Files[file]
      THEN DefMac(s, n, Macro(Files[file][n])) ELSE s

(* ExecuteBound; the walk goes on at once after a key map. *)
RunName(s, n) ==
  CASE Kind(s, n) = "proc"  -> RunProc(s, n)
    [] Kind(s, n) = "macro" -> Rounds(s, n, s.arg)
    [] Kind(s, n) = "autoload" ->
         LET t == Loaded(s, n)
         IN  IF Kind(t, n) = "autoload" THEN Complete(Error([t EXCEPT !.arg = 0, !.argState = "no"]), 0)
             ELSE Rounds(t, n, t.arg)
    [] OTHER -> Complete(s, 0)

ArgReady(s) == [s EXCEPT !.arg = IF s.argState = "no" THEN 1 ELSE @,
                         !.argState = IF @ = "prepared" THEN "have" ELSE @]

(* The history of the walk: which command its keys ran, and which one      *)
(* describe-key gives for them.  It is sure as long as it is the walk of   *)
(* these keys: it began with the first of them, and no command has run     *)
(* meanwhile that may change the tables or the walk.                       *)
Noted(s, n) ==
  LET said == DescribeKey(s, s.walk.keys)
  IN  IF IsPrefixKey(s, n) THEN s
      ELSE [s EXCEPT !.ran  = [cmd |-> n, said |-> said,
                              sure |-> s.walk.sure /\ ~IsPrefixKey(s, said)],
                     !.walk.sure = @ /\ n \in Plain,
                     !.log  = IF s.remembering THEN Append(@, n) ELSE @,
                     !.play = IF Playing(s) THEN Append(@, n) ELSE @]

ExecuteBound(s, n) ==
  LET t == ArgReady(Noted(s, n))
  IN  IF IsPrefixKey(t, n) THEN After([t EXCEPT !.l = t.names[n].map], 0)
      ELSE RunName(t, n)

(* Both maps are tried with the key; the local one first. *)
GlobalStage(s, c) ==
  LET n == BoundTo(s, s.g, c)
      t == [s EXCEPT !.g = None, !.l = None,
                     !.stack[1].pend = [stage |-> "run", key |-> c, local |-> s.l]]
  IN  IF n = None
      THEN IF s.l = None THEN [t EXCEPT !.err = TRUE, !.stack[1].pend = NoPend]
           ELSE [t EXCEPT !.l = s.l, !.g = Null, !.stack[1].pend = NoPend]
      ELSE ExecuteBound(t, n)

LocalStage(s, c) ==
  LET n == BoundTo(s, s.l, c)
      t == [s EXCEPT !.l = None,
                     !.stack[1].pend = [stage |-> "local", key |-> c, local |-> None]]
  IN  IF n = None THEN GlobalStage(t, c) ELSE ExecuteBound(t, n)

(***************************************************************************)
(* Answers.                                                                *)
(***************************************************************************)
NameOf(text) == IF Len(text) = 1 THEN Spell[text[1]] ELSE "odd"

ExtendedCommand(s, n) ==
  LET t == ArgReady(s)
  IN  IF IsPrefixKey(t, n) THEN Complete([t EXCEPT !.l = t.names[n].map], 0)
      ELSE RunName(t, n)

UseMap(s, n, use) ==
  IF IsPrefixKey(s, n) THEN [use EXCEPT !.l = None, !.g = None] ELSE Error(s)

(* cmd has the answers got: it asks the next question or does its work. *)
Resume(s, cmd, got) ==
  CASE cmd = "x" -> ExtendedCommand(s, got[1])
    [] cmd = "bind" /\ Len(got) = 1 -> AskKey(s, cmd, got, s.global)
    [] cmd = "bind"        -> Complete(BindToKey(s, got[1], got[2]), 0)
    [] cmd = "localBind" /\ Len(got) = 1 ->
         LET t == InitializeLocalMap(s) IN AskKey(t, cmd, got, LocalMap(t))
    [] cmd = "localBind"   -> Complete(LocalBindToKey(s, got[1], got[2]), 0)
    [] cmd = "unbind"      -> Complete(RemoveBinding(s, got[1]), 0)
    [] cmd = "localUnbind" -> Complete(RemoveLocalBinding(s, got[1]), 0)
    [] cmd = "useGlobal"   ->
         Complete(UseMap(s, got[1], [s EXCEPT !.global = s.names[got[1]].map]), 0)
    [] cmd = "useLocal"    ->
         Complete(UseMap(s, got[1], [s EXCEPT !.locals[s.buf] = s.names[got[1]].map]), 0)
    [] cmd = "defKeymap"   -> Complete(Define(s, NameOf(got[1]), "keymap", << >>), 0)
    [] cmd = "defKeyboard" ->
         Complete([Define(s, NameOf(got[1]), "macro", s.keyMem) EXCEPT !.used = 0], 0)
    [] cmd \in {"defString", "autoload"} /\ Len(got) = 1 -> AskText(s, "string", cmd, got)
    [] cmd = "defString"   -> Complete(Define(s, NameOf(got[1]), "macro", got[2]), 0)
    [] cmd = "autoload"    -> Complete(Define(s, NameOf(got[1]), "autoload", NameOf(got[2])), 0)
    [] OTHER ->                                            \* pushBack
         Complete(IF Len(s.pushed) >= MaxPushBack THEN Error([s EXCEPT !.pushed = << >>])
                  ELSE [s EXCEPT !.pushed = Append(@, Head(got[1]))], 0)

(* getkey: as long as the keys lead to a map.  A macro that ends here is   *)
(* looked up outside the map.                                              *)
FeedKey(s, c) ==
  LET f    == s.stack[1]
      seq  == Append(f.seq, c)
      next == Down(s, f.map, c)
  IN  IF c = "^G" THEN Complete(Error(Pop(s)), 0)
      ELSE IF c = EOT THEN [s EXCEPT !.undefined = TRUE]
      ELSE IF next # None THEN [s EXCEPT !.stack[1].seq = seq, !.stack[1].map = next]
      ELSE Resume(Pop(s), f.cmd, Append(f.got, seq))

(* The walk goes on with a key, or begins with it. *)
Walk(s, c) == IF s.g = None /\ s.l = None THEN [keys |-> << c >>, sure |-> TRUE]
              ELSE [s.walk EXCEPT !.keys = Append(@, c)]
Walking(s, c) == [s EXCEPT !.walk = Walk(s, c), !.g = IF @ = None THEN s.global ELSE @,
                           !.l = IF @ = None THEN LocalMap(s) ELSE @]

Feed(s, c) ==
  LET f == s.stack[1]
  IN  IF f.kind = "key" THEN FeedKey(s, c)
      ELSE IF f.kind = "quote" THEN Complete(Insert(Pop(s), c), 0)
      ELSE IF c = EOT THEN LeaveLoop(s)
      ELSE LocalStage(Walking(s, c), c)

(***************************************************************************)
(* GetChar.  A loop of ProcessKeys that is between commands first marks    *)
(* the place where a keyboard macro would end.                             *)
(***************************************************************************)
LoopTop(s) ==
  IF Walks(s.stack[1]) /\ s.g = None /\ s.remembering THEN [s EXCEPT !.endOfMac = s.used] ELSE s

Reads == ~Top.over /\ Top.pend.stage # "global" /\ Len(k.stack) < MaxDepth
Body(own) == IF own = "KeyMem" THEN k.keyMem ELSE k.names[own].body

FromPushed ==
  /\ Reads /\ k.pushed # << >>
  /\ k' = Feed([LoopTop(k) EXCEPT !.pushed = Front(@)], Last(k.pushed))

FromMeta ==
  /\ Reads /\ k.pushed = << >> /\ k.meta # None
  /\ k' = Feed([LoopTop(k) EXCEPT !.meta = None], k.meta)

(* An error, or the end of the body, ends the macro. *)
FromMacro ==
  /\ Reads /\ k.pushed = << >> /\ k.meta = None /\ k.mem # NoMem
  /\ LET s == LoopTop(k)
     IN  k' = IF k.err \/ k.mem.pos > Len(Body(k.mem.own)) THEN Feed([s EXCEPT !.mem = NoMem], EOT)
              ELSE Feed([s EXCEPT !.mem.pos = @ + 1], Body(k.mem.own)[k.mem.pos])

FromTerminal == Reads /\ k.pushed = << >> /\ k.meta = None /\ k.mem = NoMem

(* Nothing more is pending when the display is brought up to date, which   *)
(* ends the error.                                                         *)
Shown(s, quiet) == IF quiet THEN [s EXCEPT !.err = FALSE] ELSE s

Typed(s) == [s EXCEPT !.typed = @ + 1, !.interrupt = FALSE]

Type(c) ==
  /\ FromTerminal /\ c \in k.keys /\ k.typed < k.max
  /\ k.interrupt => c = "^G"
  /\ \E quiet \in BOOLEAN :
       k' = Feed(Remember(Typed(Shown(LoopTop(k), quiet)), c), c)

(* A meta character is an escape and a character; both are remembered. *)
TypeMeta(c) ==
  /\ FromTerminal /\ c \in k.keys /\ k.typed < k.max /\ ~k.interrupt
  /\ Esc \in k.keys
  /\ LET s == [Typed(Shown(LoopTop(k), TRUE)) EXCEPT !.meta = c]
     IN  k' = Feed(Remember(Remember(s, Esc), c), Esc)

(* The interrupt key while something runs. *)
InterruptKey ==
  /\ ~FromTerminal /\ ~k.interrupt /\ "^G" \in k.keys /\ k.typed < k.max
  /\ k' = [k EXCEPT !.err = TRUE, !.interrupt = TRUE]

(* ProcessKeys goes on with the key in the global map. *)
GoOn ==
  /\ ~Top.over /\ Top.pend.stage = "global"
  /\ k' = GlobalStage(k, Top.pend.key)

(***************************************************************************)
(* A reader returns.                                                       *)
(***************************************************************************)
(* History: a round is compared with what was remembered when the tables   *)
(* are still those it was remembered with.                                 *)
RoundEnds(s) ==
  IF Top.own # "KeyMem" THEN s
  ELSE [s EXCEPT !.play = << >>, !.from = NoWhere,
                 !.replay = IF s.macro.where = NoWhere \/ {s.from, Where(s)} # {s.macro.where} THEN @
                            ELSE [want |-> s.macro.cmds, got |-> s.play, err |-> s.err]]

(* A slip: another round is run after an error. *)
LeaveMacro_whatever ==
  /\ Top.over /\ Top.kind = "macro"
  /\ LET s == [RoundEnds(k) EXCEPT !.mem = Top.mem]
     IN  k' = IF Top.left > 1 THEN Rounds(Pop(s), Top.own, Top.left - 1)
              ELSE Complete([Pop(s) EXCEPT !.executing = @ /\ Top.own # "KeyMem"], 0)

LeaveMacro ==
  /\ Top.over /\ Top.kind = "macro"
  /\ LET s == [RoundEnds(k) EXCEPT !.mem = Top.mem]
     IN  k' = IF ~k.err /\ Top.left > 1 THEN Rounds(Pop(s), Top.own, Top.left - 1)
              ELSE Complete([Pop(s) EXCEPT !.executing = @ /\ Top.own # "KeyMem"], 0)

LeaveEdit ==
  /\ Top.over /\ Top.kind = "edit" /\ Len(k.stack) > 1
  /\ k' = Complete(Pop(k), 0)

(* BrGetstr returns; getword asks again for a word it does not know. *)
LeaveText ==
  /\ Top.over /\ Top.kind \in {"word", "string"}
  /\ LET s    == [Pop(k) EXCEPT !.buf = Top.buf, !.text = Top.text,
                                !.locals["minibuf"] = Top.map,
                                !.arg = Top.arg, !.argState = Top.argState]
         word == NameOf(k.text)
         got  == IF Top.kind = "word" THEN word ELSE k.text
     IN  k' = IF k.err THEN Complete(s, 0)
              ELSE IF Top.kind = "string" \/ Named(k, word)
                   THEN Resume(s, Top.cmd, Append(Top.got, got))
              ELSE IF Interactive(k) THEN AskText(s, "word", Top.cmd, Top.got)
              ELSE Complete(Error(s), 0)

Next == /\ ~k.undefined
        /\ \/ FromPushed \/ FromMeta \/ FromMacro \/ InterruptKey \/ GoOn
           \/ \E c \in Keys : Type(c) \/ TypeMeta(c)
           \/ LeaveMacro \/ LeaveEdit \/ LeaveText

Spec == Init /\ [][Next]_vars

(***************************************************************************)
(* Properties.                                                             *)
(***************************************************************************)
(* The keys of a sequence run the command that describe-key gives for      *)
(* them: the walk down both maps at once finds what a look down one and    *)
(* then the other finds.  (A local prefix over a global command is the     *)
(* exception: describe-key says it is a key map, and the command is run.   *)
(* Nor is anything said of the keys after a command that ran in the middle *)
(* of a walk and may have changed it: a key map that was called by name,   *)
(* or a macro that ended in a prefix key.)                                 *)
KeysFound == k.ran.sure => k.ran.cmd = k.ran.said

(* There is room for the mark at the end of the keyboard macro, wherever   *)
(* among the remembered keys it has to be put.                             *)
MacroFits == k.used < MemLen /\ k.endOfMac < MemLen

(* Running the keyboard macro runs the commands that ran while it was      *)
(* remembered, those of the macros and questions in it included; after an  *)
(* error, the first of them.  (So it is when it begins and ends at top     *)
(* level and the keys have not been bound otherwise.)                      *)
SameCommands == IF k.replay.err THEN IsPrefix(k.replay.got, k.replay.want)
                ELSE k.replay.got = k.replay.want

(* An error ends everything that is run from macros, at every level: no    *)
(* further command, no further round.                                      *)
FromKeyboard == k'.typed # k.typed \/ k.pushed # << >> \/ k.meta # None
ErrorUnwinds ==
  [][k.err /\ ~FromKeyboard /\ k'.interrupt = k.interrupt /\ Top.pend.stage # "global"
       => /\ k'.ran = k.ran
          /\ Top.over => Len(k'.stack) < Len(k.stack)]_vars

(* Binding or removing a sequence of keys, to a name that there is, leaves *)
(* every other sequence bound as it was, but for those it begins and those *)
(* it goes through, as long as no map is behind two keys.                  *)
Sequences12 == { << c >> : c \in k.keys } \union { << c, d >> : c \in k.keys, d \in k.keys }
Rebound == { s \in Sequences12 : LookupKeys(k', k'.global, s) # LookupKeys(k, k.global, s) }
Behind(m) == { at \in (DOMAIN k.maps) \X Keys :
                 LET n == k.maps[at[1]][at[2]] IN IsPrefixKey(k, n) /\ k.names[n].map = m }
OthersBound ==
  [][k'.maps # k.maps /\ k'.global = k.global /\ (\A m \in DOMAIN k.maps : Cardinality(Behind(m)) < 2)
       => LET changed == Rebound
          IN  changed = {} \/ \E s \in changed :
                /\ LET n == LookupKeys(k', k'.global, s) IN n = None \/ Named(k, n)
                /\ \A t \in changed : IsPrefix(s, t) \/ IsPrefix(t, s)]_vars
=============================================================================
