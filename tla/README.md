# A specification of Gosling Emacs

TLA+ models of the editor in this repository (Gosling Emacs 84S, with the
changes of DECWRL and UMCP), the TLC configurations that check them, and proofs that
the TLA+ proof system checks.  Everything is translated from the C sources at
the top of `src/`, with the build options of `config.h`: `subprocesses`,
`UciFeatures`, `UmcpFeatures` and `UtahFeatures` are on, `MPXcode` and
`TTYconnect` are off.

`PROJECT.json` is the index: components, runs, properties with the mutants that
break them, the source lines behind every definition, findings, hazards, and theorems.

## 1. The system

Emacs is one process and one thread of control.  What makes it hard is that the
thread is re-entered: a command that asks a question runs the whole keyboard loop
again (`BrGetstr` calls `RecursiveEdit`), an MLisp body between two halves of
a command may run any other command, and the output of a subprocess is filtered by
MLisp while a key is awaited.  State held in a global (`bf_cur`, `wn_cur`,
`dot`, `err`) or remembered in a local across such a call is stale more often than
the author expected.  Underneath, every position is an address into a block
of storage whose gap moves and which `realloc` moves as a whole.

| Component | State | Operations | Uses / used by |
|---|---|---|---|
| Gap buffer, markers (`buffer.c`, `buffer.h`) | `b_base`, two parts and a gap, `b_head`/`b_tail` of the restriction, markers as addresses | `GapTo`, `GapRoom`, `InsertAt`, `InsCStr`, `DelFrwd`, `DelBack`, `SetMark`, `ToMark` | everything |
| Editing commands (`simplecoms.c`, `metacoms.c`, `casefiddle.c`, `columns.c`, `abbrev.c`) | `dot`, the mark, the cached column, tables of abbreviations, the kill buffer | motion, typing, deletion, killing, words, region, restriction, case, indentation | gap buffer, syntax tables |
| Command execution (`options.c`) | the prefix argument, what a name is bound to | `ExecuteBound` dispatches on the kind of a name, loops over the argument and clamps dot after every command | keyboard, MLisp |
| Undo (`undo.c`) | `UndoRQ` and `UndoCQ`, circular; where the last undo stopped | `RecordInsert`, `RecordDelete`, `UndoBoundary`, `UndoMore` | called by the primitives of the gap buffer and by `ProcessKeys` |
| Windows (`window.c`, `windowman.c`) | list of windows: height, buffer, dot, last use; `wn_cur` | split, delete, tie, choose, resize | `SetBfp` and the two dots of `buffer.c` |
| Buffer list (`buffer.c`) | chain of buffers, `bf_cur`, `b_EphemeralDot` | `SetBfp`, `SetBfn`, `NewBf`, `DelBuf` | windows, files, processes |
| Minibuffer (`minibuf.c`) | the minibuffer, its depth | `BrGetstr` and what is built on it, `error` | re-enters the keyboard loop |
| MLisp (`mlisp.c`, `arithmetic.c`, `lispfuncs.c`) | chains of bindings behind names, frames, the file being read | evaluation, blocks, functions, variables; `save-excursion`, `save-window-excursion`, `save-restriction` | any command |
| Files (`fileio.c`) | name, modification time, modified count, checkpoint of each buffer; `err` | visit, read, four ways of writing, append, checkpoint | gap buffer, minibuffer, the disk |
| Keyboard (`keyboard.c`, `macros.c`) | key maps, keyboard macro, pushed-back characters, named macros | `ProcessKeys`, `GetChar`, `StartRemembering`, `ExecStr`, binding, `RecursiveEdit` | runs everything |
| Subprocesses (`mchan.c`, `subproc.c`) | process list, channels, pending output, `child_changed`, `subproc_id` | `child_sig` (a signal handler), `fill_chan`, `stuff_buffer`, `send_chan`, synchronous commands | buffers, MLisp filters and sentinels |
| Search and replace (`search.c`) | compiled pattern, what was matched | `compile`, `advance`, `search`, `query-replace-string` | gap buffer, minibuffer |
| Syntax tables (`syntax.c`) | kind and partner of each character | entries, words, parentheses | editing, search |
| Redisplay (`window.c`, `display.c`) | hints (`Cant1LineOpt`, ...), `w_start`; `PhysScreen`, `DesiredScreen` | `DoDsp`, `FullUpd`, `UpdateScreen` with `CalcCost` and `CalcID` | reads windows and buffers, may be cut short by a key |
| Databases (`ndbm.c`, `dbmanager.c`) | pages, directory bits, texts in three files; search lists; the one open database | look-up, storing with page splits, listing | MLisp, programs beside Emacs |
| Mail (`collectmail.c`, `lock.c`) | mail box, message files, Directory, lock file | a program run by hand or from MLisp, several at once | the disk |
| Error log, start up, file names, terminal drivers, MLisp library, older versions | | | not modelled (section 6) |

What makes each correct, and hard to test:

* **Gap buffer**: the parts add up, no gap cell is seen, and a marker stands at the
  same place in the text, in whatever order the gap moved, grew or swallowed.
* **Commands**: dot and restriction fit the text after every command; what is
  hidden stays untouched.
* **Undo**: text comes back exactly, across buffers and when both queues have gone round.
* **Windows, minibuffer, excursions**: one dot of three is the valid one at any
  moment; every activity that spans other commands returns to where it was
  although windows and buffers came and went.
* **Files**: the text that was there survives a crash at any system call; the
  flags `b_modified`, `b_checkpointed` and `b_modtime` say what is on disk.
* **Subprocesses**: the handler and the loop agree on the list; output reaches the buffer of the
  process that wrote it although descriptors and blocks are used again; keys are answered, waits end.
* **Keyboard**: the parallel walk down two maps finds what a look-up finds; a macro replays what
  was remembered; an error unwinds every level.
* **MLisp**: chains of bindings that change while buffers change mean what the manual says scopes mean.
* **Search, syntax, typing, killing**: the matcher finds what a pattern means; replacing, filling
  and killing lose no text.
* **Redisplay**: the short cuts and the cheapest edits leave on the terminal what a plain display would.
* **Databases, mail**: a key gives what was put last, a letter is in one place, wherever a program dies.

## 2. Modules

| Module | Models | State ↔ code |
|---|---|---|
| `GapBuffer` | `buffer.c` as operators on a record | `mem` is the block from `b_base` with the gap in place; `s1`, `gap`, `s2`, `size`, `head`, `tail` the fields of those names; `mark[m]` is `m_pos`, the address the code keeps, 0 for a marker of no buffer |
| `Editor` | the commands of `simplecoms.c`, `metacoms.c`, `save-restriction` of `mlisp.c` | `buf`, `dot`; `job` is what a loop over the prefix argument has left to do |
| `TextBuffer` | the abstract specification: a text with marks in it | no gap; a mark at the place of an insertion may go either way |
| `Undo` | `undo.c` and how `buffer.c` and `ProcessKeys` record | `u` holds the static variables of `undo.c` under their names; `at` the locals of `UndoMore` |
| `Windows` | `window.c`, `windowman.c`, buffer list, `BrGetstr`, two excursions | `scr` holds the windows and the current ones; `stack` the frames of the activities that are open, innermost first, with the locals they return by |
| `Files` | `fileio.c` | `disk` by name; `buf` the file fields of `struct buffer`; `stack` the calls of `WriteFile` in progress, `pc` the system call or question they are at |
| `Process` | `mchan.c`, `subproc.c` | `block` the process blocks by address, `cur` the current process, `main` what the thread is doing (`fill_chan`, a filter, a command), innermost first; `sig` is SIGCHLD: pending, held, and which processes it found too late; the children and what they wrote are outside |
| `Keymaps`, `Keyboard` | `keyboard.c`, the dispatch and binding part of `options.c`, `macros.c` | `k` holds maps, names, `KeyMem`, pushed-back characters; `k.stack` the C stack of readers (`ProcessKeys`, `ExecStr`, `BrGetstr`, loops over `GetChar`) |
| `Lisp` | `mlisp.c`, `arithmetic.c`, `lispfuncs.c` | `m`: `vars[v]` is the chain behind a `VariableName`, head first; `frames` the chain of `ExecutionRoot`s |
| `LispMeaning` | what section 13.2 of the manual says the same programs mean | `w`: scopes, instances and a global for each variable; no chains |
| `Pattern` | `search.c`: `compile`, `advance`, `execute`, `search` | `g` is `search_globals`; a place in `expbuf` is an index |
| `PatternRules` | what section 14.2 of the manual says a pattern matches | no program: a relation between items and stretches of text |
| `Syntax`, `Typing`, `Kills` | `syntax.c`; self-insertion, columns, `abbrev.c`; the kill buffer and copying to buffers | fields of the editor record `e` |
| `TextCommands` | the commands of these four given one after another, `query-replace-string` with its answers | `e` the buffer, `g` the pattern, `ask` the replacement that waits for a key |
| `TextRules` | the properties of `TextCommands`, by `PatternRules` and by counting | |
| `Screen` | `display.c`: `UpdateScreen`, `CalcCost`, `CalcID`, `UpdateLine` | `phys` and `des` the two screens, `free` the free list of lines, `glass` what the terminal really shows |
| `Redisplay` | the displaying part of `window.c`, and the commands that leave hints for it | `ed` holds the hints, `OneLStart`, `w_start`; `scr` the screen between updates |
| `Database` | `ndbm.c`, `dbmanager.c` | `st.disk` the files, `st.dbs` the databases in memory with their one page and one block, `op` the write in progress |
| `Mail` | `collectmail.c`, `lock.c` | `box`, `msgs`, `directory`, `lockfile`; `col[c]` where a collector is |
| `EditorProofs` | what the primitives of `buffer.c` preserve and the text they leave; theorems of the commands, and the refinement of `TextBuffer` | |
| `UndoProofs`, `WindowsProofs`, `FilesProofs`, `ProcessProofs`, `KeyboardProofs`, `MailProofs` | theorems of those modules | |
| `DataFacts` | lemmas on numbers, sequences and prefixes | |
| `MC*` | values of the constants for TLC; `MCPrograms` puts `Database` and `Mail` in one run | |

One command is one action, with all it calls: `Finish` in `Editor` is the
clamping of `ExecuteBound`, `Becomes` in `Undo` is the primitive with
its record, `Command` in `Windows` also renumbers `w_lastuse`.  A command that
loops on its argument, the walk of `UndoMore` and the system calls of `WriteFile`
take one step per round or call.  Where the code re-enters the keyboard loop the
model keeps a frame and lets any command run.

The interpreter, the matcher, the pure commands on text and `UpdateScreen` do
not wait for anybody: there one step of the specification is a whole form, command or update, and the
C functions are operators under their own names.

`TextBuffer` does not know of the gap.  `Editor` implements it under the
mapping `text <- Text(buf)`, `mark <- ToMark`, and so on: the property `Implements`.
The other modules do not use `GapBuffer`: they see a buffer as its text and a
dot, which is what `Implements` justifies.  `LispMeaning` and `PatternRules` are
abstract specifications of another kind: written from the manual, evaluated beside
the translated code on the same programs and patterns, and compared after every step.

Names that occur in two modules are two definitions; `TextCommands` and what it
extends share the record `e`, `Keyboard` and `Keymaps` the record `k`, `Redisplay` and `Screen` the screen.

Abstractions worth knowing:

* `GapBuffer` writes `Junk` into gap cells where the code leaves old characters:
  a read of one is then visible.  `GapSlack` stands for the 2000 bytes added
  by `NewBf` and `GapRoom`.
* `Undo`: what a key does to the buffers is any sequence of primitive edits.
* `Windows`: text does not change; a dot is one of few positions.  What is drawn,
  `w_start` and scrolling are left out.  Numbers of deleted
  buffers are used again when nothing names them (the freed address would be).
* `Files`: every edit replaces the text by one new piece.  The clock moves only
  when the outside world writes; Emacs does any number of things in one
  second but never in the second of a foreign write.  Restrictions, protections, the
  special case of `/tmp` and long names are left out, as are a second write
  of a file that an outer `WriteFile` has open, and a new name given to a buffer while its
  own `WriteFile` waits at a question (it frees the name still in use).
* `Process`: output is counted in buffers of `BUFSIZ`; what it says is only whose it is.  A
  block or descriptor that was freed keeps its contents and is given out again, least first.  SIGCHLD comes between any two
  steps unless the code holds it, and where the code leaves a window between looking and acting there are two steps:
  `"allocated"`, `"found"`, `"store"`, `"forked"`.  The handler that looks into a freed or unfilled block finds anything there.
* `Files`: a read fails, comes short or finds no room, a write fails or comes short, and what somebody else writes meanwhile
  comes between any two system calls, also while the file is open and a question waits.
* `Keyboard`: a command that is a procedure is known by its name; those that touch the keyboard have their
  effect, the others have none.  Where the code uses what it has freed the model stops (`undefined`).
* `Lisp`: programs are trees; the characters of the parser are left out, `PrintExpr` and
  the reading of files are kept as far as they stop, nest and fail.  A C function without
  `return` gives any value of `Junk`.
* `Pattern`: an instruction is a record; `Width` counts the ints it takes, so that `ESIZE` is met at
  the right place.  What lies behind a pattern in memory is a constant.
* `Screen`: a cell is a character with or without highlight, what an edit of a line costs is counted as in
  `display.c`; the terminal driver is external: operations on rows of `glass`.
* `Database`: a page is the set of its items with their sizes; a hash is a number given for each key.
  A write is never done by halves.
* `Mail`: a line is what it begins with.  A collector reads the box in one go.

## 3. Runs

| Run | Instance | What it shows |
|---|---|---|
| `editor` | three characters (letter, newline, blank), three markers, texts up to 3, slack 1, arguments -1, 1, 2 | `BufferSound`, `DotInText`, `OnlyTwoReachHidden`, and `Implements`: refinement of `TextBuffer` |
| `undo` | two buffers, 5 records, 3 characters of history, 3 keys, 5 edits, texts up to 2 | `UndoExact`, `WalkBounded` |
| `windows` | three scenes: 8 lines, 3 buffer numbers, 2 dots at top level; 6 lines with one question or `save-excursion` open; 7 lines with one `save-window-excursion` open | `WindowsSound` (the heights fill the screen; without excursions and questions, every window is tied to a live buffer), `PlacesKept`, `BottomIsMinibuf`, `ReadReturns`, `ExcursionRestores`, `LayoutRestored` |
| `files` | one buffer, one file with backup and checkpoint, 3 pieces, 2 clock values, checkpoints inside questions | reads and writes that fail or come short, another program at any point: `OriginalKept`, `OnlyWrittenIsClean`, `CheckpointTrusted`, `LookFindsForeign` |
| `process` | two blocks, two channels, two children of one output each, detached ones among them, 3 keys, 3 frames | with SIGCHLD at any point where it is not held: `OutputAtHome`, `ListEnds`, `CurrentIsActive` |
| `process_waits` | the same with other commands, under fairness | `KeyAnswered`, `WaitEnds` |
| `keyboard` | fifteen sets of tables, every sequence of 6 to 8 keys (answers included), `KeyMem` of 6, 3 characters pushed back, 6 maps made, 6 readers at once | `KeysFound`, `MacroFits`, `SameCommands`, `ErrorUnwinds`, `OthersBound` |
| `lisp` | families of forms in every order of 2 to 6, two buffers, two variables, ints of 8 bits; bodies that delete buffers, prefix arguments in error | `AsDocumented`, `Unwound` |
| `text` | 18 kinds of items in patterns of one and two and chosen larger ones; texts of up to seven characters; replacements of up to four answers, looked at while they wait and when they are over; every text of five for parentheses; margin at column 6 | `FoundAsMeant`, `ReplacedAsMeant`, `ParensMatch`, `TypedTextKept`, `KilledComesBack` |
| `display` | screens of 4 or 5 rows of 4 columns, four kinds of terminal, texts up to 4, a key after 2 rows or none | `BeliefsTrue`, `WindowsTrue` |
| `programs` | three databases (one read-only), 5 keys, pages of two entries, directory blocks of 4 bits, 1 or 2 deaths; a mail box with 2 collectors, 3 runs, 2 letters in 5 styles, a death | `FoundAsPut`, `ListedOnce`, `CollectedOnce`, `LockHolds` |
| `display_hints` | as `display`, three keys typed ahead | ends in a violation of `WindowsTrue` (section 5) |

Why the bounds are enough.  In `editor` a slack of 1 makes the gap fill and the block
grow every other insertion, and three characters are the least with text
before, inside and after a restriction; three markers are the mark and the
two of `save-restriction`, so that markers stand on both sides of the gap and
in it.  In `undo` both queues are shorter than the history, so both go round; two buffers give
records of different buffers side by side.  In `windows` eight lines allow three text
windows and splits that are refused; a third buffer number allows deletion and
re-creation; in the other scenes one activity at a time is open, since each relates
only its own frame to the windows, and one buffer name is asked for, the others being
reached through windows and deletions.  In `files` three pieces tell the original, the
edited and the foreign text apart; two clock values are one foreign write; a modified count of 2
allows an edit after a checkpoint.  Two buffers on one file are not in the run: the
properties speak of them (`Alone`, `hist.orig`), the instance does not reach them.

In `process` two blocks and two descriptors are few enough to be used again while an earlier owner
is still listed; three frames are a command, a filter and what the filter waits for.
In `keyboard` seven keys remember a command, end the macro behind
a prefix and replay it with an argument, or fill `KeyMem`; eight call a command by a typed name, bind a key and use it.
Names and sequences of keys of one or two characters tell the answers apart that matter: a name that there is, one that is not, a
key that is a prefix.  `MaxDepth` stops a macro that calls itself; six maps are more than the keys of any scene make.
In `lisp` the chain of a name needs a block, a global and two instances, which two buffers
and blocks nested twice give; 8-bit ints wrap within the numbers that occur.
In `text` patterns of two items put every kind of item before and behind every other, at both ends
of the text, of its lines and of a restriction.  In `display` four rows are the least on
which `CalcID` moves one run of lines past another, three columns of text make a long line.
In `programs` pages of two entries split at the third key, and hashes chosen alike in
their low bits make one put split several times, into a second directory block.

What an instance leaves out, because the code is known to go wrong there (section 5) and the property would
only say so again:

* `windows` opens `save-window-excursion` on 7 lines, too few for three text windows: with 8 a refused split ties
  recorded buffers and heights to the wrong windows, and what follows is a layout nobody meant.
* `Ahead` is 1 in `display`: one command between two displays.  `display_hints` has three.
* `lisp` has no assignment that comes before any declaration and no bit operators inside blocks; `text`
  types nothing right after transposing and copies no buffer into itself; `programs`
  puts no database in two search lists.

The properties were weakened only where the code itself makes an exception, and each
exception is named in its formula.  So `UndoExact` holds while `flaws` is
empty, `OnlyTwoReachHidden` names two commands.  `OnlyWrittenIsClean` names `erase-buffer`, `append-to-file`, a write that comes
short, a file that somebody else writes while it is open, and a read that fails or finds no room; `CheckpointTrusted` the
checkpoint that fails or comes short, and `erase-buffer`.  `ListEnds` and `KeyAnswered` end where the list is `Lost`;
`CurrentIsActive` excepts the block that is being filled in and the process that died after `change-current-process`
found it (`sig.late`); `WaitEnds` the child that died before `subproc_id` was assigned (`"missed"`).  `FoundAsMeant` and
`ReplacedAsMeant` take either the manual's match or, where the two differ, that of the code, which refuses items that take no character at the end
of the text; `AsDocumented` excepts dot and mark after an excursion whose buffer was deleted, and forms that begin with
the argument of another; `Unwound` the argument 0 of a `provide-prefix-argument` in error.  `OutputAtHome` names the block that the scan of the list does not come to any more,
`KeysFound` the local prefix over a global command and what follows, in the same walk, a command that may change the tables or the walk itself (a
prefix that its own command clears, a key map called by name, a macro that ends in a prefix key), `SameCommands` a macro
remembered or run in the middle of something else or with keys bound otherwise, `OthersBound` a map behind two keys,
`KeyAnswered` a wait for something else and a closed descriptor, `FoundAsPut` the key whose text was not written
before a death, `CollectedOnce` the letter delivered between the last read and `creat`, `LockHolds`
the lock that was broken or had vanished.

Two runs use symmetry: the commands of `undo` treat all characters and all buffers
alike, those of `files` all pieces of text, none is an operand of an order, and
neither run checks a liveness property.

Deadlock is checked in `editor`, `undo`, `windows` and `files`.  In the others the instance ends: no more
keys, commands, letters or deaths are allowed for, which is the end of the scene and not of the program.

**Fairness.**  Only `process_waits` assumes any: `FairSpec` is `Spec` with weak fairness of `ChildSig`
(a pending signal that is not held is delivered: the kernel does so) and of
`Filling \/ Ending \/ Acting` (the one thread of Emacs goes on whenever it can, and what an MLisp filter or
sentinel does ends).  Nothing is assumed of the children or of
whoever types: they may stop at any time.  `KeyAnswered` and `WaitEnds` are the
liveness properties; everything else checked is a safety or an action property.
That the walk of `UndoMore` ends is the invariant `WalkBounded`.

## 4. Proofs

Of `Editor`, for every set of characters, markers and prefix arguments, every slack and every
bound on the text:

* `EditorTypes`: `Spec => []TypeOK`;
* `EditorBufferSound`: `Spec => []BufferSound`;
* `EditorDotInText`: `Spec => []DotInText`;
* `EditorImplements`: `Spec => Implements`, the refinement of `TextBuffer`;
* `EditorOnlyTwoReachHidden`: `Spec => OnlyTwoReachHidden`.

They rest on the named assumptions only: `GapSlack` is a positive number, `Junk` no
character, the three markers are distinct markers, arguments are integers.

The argument.  The first part of `EditorProofs` shows of each primitive of `buffer.c` that it
preserves soundness of a buffer relative to a set `H` of markers: the three parts
add up to the block, the cells outside the gap are characters, the markers of `H` are in the
block.  First come the two motions of the gap and `GapTo`, then `GapRoom` with and
without memory, then insertion and the two deletions, each with what it
does to the length and the restriction.  Then it goes through the commands.
`BufferSound` and `DotInText` are not inductive.  `IInv` adds

* that a buffer which lost its text has no job: the loops stop at once;
* that the character of a repeated self-insert is a character, without which the second
  round could put `Junk` in the text;
* that `Lo` is set exactly when `Hi` is: the end of `save-restriction` computes the new tail from
  `Hi`, and would hide more than there is if `Hi` were unset;
* that the tail is never longer than the text, which the deletions need.

`Lo` itself is left out of `H`: `SaveRestriction` sets it at `FirstCharacter`, which
`EraseRegion` may have left beyond the text.

The refinement.  The lemmas on the primitives also say what they do to what can be seen: moving
and widening the gap leave text and places of markers `Alike`, filling it is `Inserted`, swallowing a neighbour
`Removed`; then the same as equations between sequences.  The last part of the module has one lemma for each command
(`TypeRefines`, `EraseRefines`, `SaveRefines`, ...) that its step is a step of `TextBuffer`.  `IInv` is too weak
for deletions, which must not begin before `head`: `VInv` adds `Seen`, that dot is at `head` or
after it, or at the very end of the visible text.  The end is the case `erase-region` makes, when it leaves `head`
beyond the text; there no character follows, and `DelBack`
compares with `FirstCharacter`, so nothing is deleted.  `VInv` also says that a lost buffer is empty.

The hidden text.  The same lemmas say, by `Spares`, that every command but two keeps the text, inserts at
dot, or removes characters from `head` on that end where the visible text does; `HiddenShifted` concludes that both
hidden ends are the sequences they were.

Of `Undo`, for queues of every length, every set of characters and buffers:

* `UndoWalkBounded`: `Spec => []WalkBounded`;
* `UndoIsExact`: `Spec => UndoExact`, from `QueuesTellAll`: `Spec => []UndoInv`.

`WalkBounded` bounds how far `UndoMore` goes back, and is not inductive: nothing in it
ties the steps taken to what made them possible.  `WalkInv` does.  A record is passed only while `NUndone` is below
`NUndoR`, and adds one to it; a boundary is passed whatever `NUndone` is, but takes one from the argument.  So what has
been passed is at most `NUndone`, or `NUndoR`, and the boundaries; the proof never looks into a record.
The lemmas say of recording that it leaves `NUndone` alone.

`UndoExact` needs what the records mean.  `UndoInv` says that while `flaws` is empty there is a tale of the queues: texts `T`
and places `C` in the queue of characters, one before each record and one after the last, such that each record tells
(`Told`) how the texts before it come from those after it.  A deletion record takes a piece out, an insertion record puts one
back from `UndoCQ`, a boundary changes nothing and marks the texts that `past` keeps.  That a change is told by
its own record is `PutThenCut` and `CutThenPut`; that it may join the last record is `PutAtEnd`.  Either way the tale before the
last record stays (`TaleGrows`, `TaleChanges`), which is why `UndoMore` may record its own changes behind the records it is reading.
The walk stands at a record with as many boundaries behind it as it was asked for (`WalksBack`); the work stands where the tale
has the present texts (`GoesBack`), so `RecordUndone` takes it one record back each time.  The first record is the only one that cannot be undone, so
the work never meets it.  `FlawsStay` says that the history of flaws only grows: the theorem speaks of every run up to its first
flaw, and nothing is said after it.

Of `Windows`, for terminals of every height, any set of buffers, and answers and excursions nested to any depth:

* `WindowsAreSound`: `Spec => []WindowsSound`;
* `BottomStaysMinibuf`: `Spec => BottomIsMinibuf`, when `PopUpWindows`; without it the property is false (section 5);
* `ReadComesBack`: `Spec => ReadReturns`;
* `ExcursionComesBack`: `Spec => ExcursionRestores`;
* `LayoutComesBack`: `Spec => LayoutRestored`;
* `PlacesStay`: `Spec => PlacesKept`.

All come from `WindowsInvariant`: `Spec => []IInv`.  `WindowsSound` is not inductive: nothing in it says that the window or the
buffer that a command goes to exists.  `IInv` is made of

* `Fine`: two windows at least, each with a number of its own, the current one among them; a chain of buffers without
  repetition that ends in the minibuffer, so that there is always a buffer to fall back on;
* `Stacked`: each open answer names a window of the list it began with, each excursion that recorded no windows has the mark
  of its buffer and dot, and an excursion that recorded some has a place among them to return to;
* the lines of the windows, where no layout is put back;
* `Quiet`, at top level where the minibuffer is not named in `pop-to-buffer`: no window and no editor on a deleted
  buffer, the minibuffer at the bottom, and the current window above it.  The last two are what `DelBuf` needs: it never
  looks at the bottom window, since `DelWin` refuses it, and gives a new buffer only to the current one.

The loops of the code (`DelBuf` and `DeleteOtherWindows` over the windows, the four of `save-window-excursion`) are
recursive functions on numbers.  `Iterated` and `Stepwise` give, from the least number where it fails, that such a function exists
and stays in the sets its steps lead through; `DelWinsLoop` is the form for a list from which windows go while it is
walked, `Thinned` what holds in the middle of it.  The sum of the heights is another such function (`LinesUpto`): `LinesChanged`,
`LinesSame` and `LinesWithout` say what one changed, inserted or removed window does to it, and give the lines of
`SplitWin`, `DelWin` and `ChgWHeight`.  `WindowOn` is the operator with most cases: `LRUwinFine` shows
that whichever window it splits or picks is one above the bottom, which is why the minibuffer stays where it is.

`LayoutRestored` is about the loop that deletes windows until no more are left than were recorded.  `Cut` says what it has done
after each round: each window that goes is the one after the last that stays and gives its lines to that one, so that the windows before it
and the bottom window have the lines they had (`TrimToCut`).  After it the windows are set one by one to what was recorded (`ReinstateFine`, `Back`).

`PlacesKept` is about places that several steps of one command could move: a window is made, the editor goes through others
to delete a buffer, and comes back.  Each step either adds windows and leaves all others at their places, or takes some away
(`More`, `Fewer`), and after that ties some to other buffers (`Loyal`).  The lemmas on the commands (`...Done`) show this form,
`Calm`, for each whole command, and since windows have distinct numbers it gives the property (`CalmSteady`).

Of `Mail`, for every set of collectors and letters, and any number of runs and deaths:

* `MailLockHolds`: `MailSpec => []LockHolds`.

`LockHolds` speaks of what has happened, not of who holds the lock.  `LockInv` adds: as long as no lock was broken and
none had vanished, whoever is between `lock` and the end of `unlock` is alone there and the lock file exists.  A death
leaves the file and nobody in the box; `link` fails while the file exists; only a holder removes it.

Of `Files`, for every set of files, pieces of text and every finite set of buffers, commands begun in the questions of
commands to any depth, any failures and any foreign writes:

* `OriginalIsKept`: `Spec => []OriginalKept`;
* `WrittenIsClean`: `Spec => OnlyWrittenIsClean`;
* `CheckpointsTrusted`: `Spec => CheckpointTrusted`;
* `ForeignIsFound`: `Spec => LookFindsForeign`.

They come from one inductive invariant, `FilesInvariant`: `Spec => []FilesInv`.  The four properties say what is so
between system calls, and a job stands between two calls for as long as its question is open, while other jobs run.  So the
invariant is what each job on the stack may count on when it goes on (`Ready`):

* its buffer still has the file name that it writes to, and the checkpoint its own;
* the backup is made, or given up for good, once the file may be unlinked or emptied;
* a file that is open and not yet written is empty, one that is written whole has the text of the buffer, unless somebody else
  wrote it meanwhile (`met`) or the write came short;
* nothing begun in the question of a job that has its file open writes to that file (`Apart`); this is
  what the model leaves out, a second job on a file that an outer job has open, carried to all that is begun.

`Times` says that no file and no buffer is later than the clock, and that a buffer whose file somebody else wrote
remembers an earlier time than the file has.  `Backups` and `NoneMade` say where the original is, and that a buffer without a
checkpoint has none on record.  `ContinueKeeps` and `ReturnsKeeps`, that going on to the next buffer and returning from a job keep all this, are shared by all four kinds of
job.  The assumption that buffers are finite is needed for the list of buffers that `write-modified-files` goes through.

Of `Process`, for any finite set of blocks, any set of descriptors and any number of processes, keys and frames,
wherever SIGCHLD comes that the code does not hold it:

* `ListHasAnEnd`: `Spec => []ListEnds`;
* `CurrentStaysActive`: `Spec => []CurrentIsActive`;
* `OutputGoesHome`: `Spec => OutputAtHome`.

None is inductive.  `ListEnds` says nothing of the order of the list, so a block that is freed and taken again might
close a circle.  `Linked` gives the order: a block comes before those of all older processes, and `NewPids` are younger than
all.  The list itself is the recursive function that goes along `next_process`; that it exists and is the only such
function is shown from the least number where it would fail (`NatMin` of `DataFacts`), and that it comes to its end within as many
steps as there are blocks by counting (the pids go down, so no block comes twice).  `FlushedKeeps` shows that what
`list-processes` leaves is the list without the exited.  The invariant `ProcessInv` is `Sound`, or `LostInv` once the list has been lost, where the program
does not go on.  `OutputAtHome` needs that a descriptor
belongs to the last process that got it (`Owned`), and so to the first block on the list that has it; `Now` holds what
the innermost frame has looked at until it acts on it: that the free block and the pid are still there, that the process
that was found is still listed and is active unless it is in `sig.late`, that flags loaded before a signal are the cleared ones or
active, that the buffer `cbuf` belongs to the process whose filter is about to run.  `CurrentIsActive` stands on `Ended`:
there is news only of what can still be waited for, and a listed process that is not active has been waited for, so the
handler marks nothing twice and each death goes through its choice of the next process.  In the windows it may not get
that far, and then `Now` says which of the named exceptions holds.

Of `Keyboard`, for every set of tables and of files that define macros, and memory of more than one place:

* `MacroAlwaysFits`: `Spec => []MacroFits`;
* `KeysRunWhatIsDescribed`: `Spec => []KeysFound`;
* `ErrorEndsMacros`: `Spec => ErrorUnwinds`.

All rest on `KeyboardInvariant`, whose first part is this: the stack of readers always ends in the `ProcessKeys` of the editor.  A reader
may be taken off the stack because it is not of that kind, so there is one below it to go on, whether
a macro, an answer, a loop over `GetChar` or a recursive edit returns.  Each operator of `Keyboard` and `Keymaps` has a lemma (`...Fine`, `...Same`)
that it keeps this, the room in `KeyMem` and the count of typed keys, or changes none of them.
`ErrorUnwinds` then follows case by case.  Characters come from the macro only as its end (`EndRunsNothing`), what
follows a command marks the reader and runs nothing (`CompleteRan`), and no round begins while `err` is set.

`KeysFound` needs the second part.  `walk.keys` are the keys since the walk began; while `walk.sure` holds the
reader on top is a `ProcessKeys`, and either the walk is at its beginning or (`OnTheWay`) each of its two maps is `Along` the keys from the local
or the global map.  Where the way has ended the code goes on with the empty map, which binds nothing, as a way that has
ended leads nowhere; and between the two halves of one key the global map is still one key behind.  `LocalStage` and
`GlobalStage` are split by what the key is bound to in each map: a prefix key goes one map down, a command is the one
`LookupKeys` gives, and with both the local one is run and then the global prefix is dropped or gone down.  A command of `Plain` leaves
tables and walk alone, any other ends the certainty, and so does a reader that comes on top or returns.
`Along` is a recursive function, which the prover unfolds only where it is known to exist; `AlongGoes` gets that from the
least number for which it does not.  Nothing is assumed of the tables, so maps that contain each other or lie behind several keys are included.

`DataFacts` takes the place of induction over numbers: every set of naturals with a member has a least one.

The constants need no more than the modules' own named assumptions.

Only model-checked: `CollectedOnce`; `SameCommands`, which compares two runs of whole programs of keys, and `OthersBound`, which compares the ends of all
sequences in a tree of maps before and after, of `Keyboard`;
and everything of `Lisp`, the text modules, `Redisplay` and `Database`; `KeyAnswered` and `WaitEnds` of `Process`.  Out of the
prover's reach: liveness under fairness and `ENABLED`; induction over data, so what the folds
compute for every list; and the modules with RECURSIVE operators (`Lisp`, `LispMeaning`, `Pattern` and what is
built on it, `Screen`, `Redisplay`, `Database`), where evaluation, matching, `CalcID` and the walk
over pages recurse as the code does.

## 5. What the models found

With a run: `display_hints`.  Insert on the second line, go back to the first, before anything is drawn:
the one-line update is taken, because an insertion bars it only for a newline, and the second row stays as it was
(`buffer.c:31`; `window.h:64` says "These hints had better be right!").

What follows was met while modelling, some as a counterexample of a property that was then given its exception.

*Editing and undo.*

* `erase-region` and `transpose-characters` change text that a restriction hides (`simplecoms.c:457`, `:185`).
* An insertion pushes a mark along or not depending on whether the gap was at its place and used
  up (`buffer.c:223`); this is why `TextBuffer` leaves it open.
* A deletion is merged with the one before it when it begins at `dot + len`
  of that record, as if deleting made the text longer (`undo.c:53`); records of one buffer are merged into those of another (`undo.c:44`), and edits after an undo into
  the undo's own record, so that undo-more does not see them (`undo.c:45`).
* The record queue is used as if it had `NUndoR + 1` records (`undo.c:24`); characters that go round the end of theirs are put back
  in swapped pieces, with the length of the queue off by one (`undo.c:130`, `undo.h:23`).
* The cached column stays valid after `transpose-characters` (`simplecoms.c:185`, against `window.h:31`).
* `copy-region-to-buffer` to the current buffer erases it, although nothing should be deleted (`simplecoms.c:479`);
  appending to itself copies from an address computed before the gap moves (`:498`).
  `kill-to-end-of-line` at the end of the buffer empties the kill buffer (`:479`).

*Windows and files.*

* Deleting a buffer while an answer is typed leaves the only text window on freed storage (`buffer.c:347`).
  At top level the same happens when `pop-to-buffer` of the minibuffer has put the cursor in its window, since
  `DelBuf` repairs the current window only; hence the condition on names in `WindowsSound`.
* On the way to a window on a deleted buffer `SetWin` does not store the dot of the window it leaves (`window.c:127`); hence
  the exception of deleted buffers in `PlacesKept`.
* `save-window-excursion` goes on when a split is refused (`mlisp.c:613`) and loses the dot of the current window (`:595`).
  From 8 lines on this happens: three windows are saved, two of 4 and 3 lines are left, neither is split, and the heights
  recorded for three go to two and to the minibuffer's, so that the windows are more or fewer lines than the terminal.  `WindowsSound` says
  nothing of the lines where such excursions run; `LayoutRestored` says what they restore otherwise.
* With `pop-up-windows` off the minibuffer's window may be tied to another buffer (`window.c:261`); `SplitWin` splits windows that
  `ChgWHeight` would not make (`window.c:139`, `:217`), and copies the stored dot of a window, not the live one (`:153`).
* A checkpoint sets `b_modtime` to the time of the checkpoint file, and a
  foreign change of the file itself is then written over unasked (`fileio.c:548`).  A failed one is entered as done (`:648`).
* `erase-buffer` and `append-to-file` clear `b_modified` (`buffer.c:426`, `fileio.c:537`).
* A read that fails in the middle, or comes short, leaves what it got as an unmodified buffer with the name and time of the
  file: saving it later replaces the file by its beginning (`fileio.c:382`).  One that finds no room leaves the old name on an erased,
  unmodified buffer (`:370`).
* A write that comes short counts as a complete one, as only a negative result is an error (`:529`).
* `WriteFile` asks about the newline at the end with the file already truncated and open.  What another program writes
  until the answer comes is mixed with the buffer's text, and its time is taken for that of our write (`:547`), so no later look finds it.
* A backup that cannot be made loses the old file: `link` is not checked before `unlink` (`fileio.c:510`).
  `b_BackedUp` belongs to the buffer: two buffers on a file back it up twice (`:481`).
  The newline at the end is decided before the hook and the questions (`:528`).

*Subprocesses.*

* SIGCHLD is not held where it should be:
  * `start_process` makes a block current that is not in the list yet and not filled in; SIGCHLD is held only from 892 (`mchan.c:885`).  The handler
    replaces `current_process` by a listed one, which is then linked again: from there the list goes round, and what was before it is lost;
    or by NULL, which is dereferenced.
  * A process that dies after `change-current-process` found it becomes the current one all the same (`:1391`), and stays it when
    `list-processes` frees its block: `current-process` then looks into free storage.
  * A death within `p_flag &= ~CHANGED` is written over (`:633`): the process counts as running for ever, and its sentinel never runs.
  * One that dies after `continue-process` found it gets RUNNING beside EXITED (`:1237`) and is never flushed.
  * `return-to-monitor` assigns `subproc_id` after `vfork`, without holding SIGCHLD; a shell that ends at once is missed, and the
    `sigpause` waits for ever (`subproc.c:314`).
* `child_changed` is cleared after the list was gone through (`mchan.c:481`).  A child dies, the loop reports it;
  a second one, earlier in the list, dies before the clearing: its sentinel runs only when some later child changes.
* Output can go to the buffer of an older process on the same descriptor (`mchan.c:436`), in two ways.  A process is detached and
  keeps its block; the next one on that descriptor ends, `list-processes` frees its block before its last output is
  read, and that is read through the block of the first.  Or a filter that waits for input closes a channel and a filter within starts a process on the
  descriptor; the outer loop still has the bit of that descriptor in `ichans`, and reads what the new process writes for the old one.
* A closed descriptor stays in the set of those to be written to, and `select` fails for ever; an orphan channel whose
  block `list-processes` freed keeps the loop spinning.
* `await-process-input` reads over what was typed ahead (`mchan.c:1446`, "Tty input is just buffered until requested").
* What is to be written to a blocked process is an address in the buffer (`mchan.c:1159`); `list-processes` goes on from a freed block (`:1099`).

*Keyboard.*

* A macro run recursively does not do what was remembered (`man/emacs.doc:2743`).  One that ends inside a prefix
  leaves its half in the outer look-up; stop-remembering by name leaves an incomplete macro.
* A key map called by name takes the place of one of the two maps for the next key, of the global one or the local one as the key of
  `execute-extended-command` was bound in (`keyboard.c:191`, `:161`).  A global command that removes the local prefix it lies under is followed by
  the sequences of that prefix all the same (`:196`).
* `describe-key` calls a local prefix over a global command a key map; the command is run (`options.c:123`).
* `DefMac` writes `==` for `=` (`macros.c:86`, `:88`) and frees a body that may be running.

*MLisp.*

* The first assignment to a name does not use its default (`mlisp.c:1165`, `emacs.doc:653`).  The bit operators return nothing (`arithmetic.c:265`).
* `declare-buffer-specific` under a local makes `ProgN` take off the wrong link (`mlisp.c:464`).
* `save-excursion` whose buffer was deleted puts dot and mark into the current one, and writes through a mark that is NULL where that
  one has none (`mlisp.c:723`-725).
* `provide-prefix-argument` with a number in error leaves a prepared argument 0 for whatever command is next (`mlisp.c:1362`).
* `defun` inside a body takes its functions out of the form: when the body runs again it defines nothing (`mlisp.c:913`).
* A stray `)` ends a file without a word.

*Text.*

* `\(c\)\1*c` matches a single c; a starred empty group copied (`\(x*\)\1*`) loops; items that take no character, but for `\)` and `\'`, never match at
  the end of the buffer (`search.c:659`, `:673`), so `a\b`, `a\>` and `a\=` are not found there, against rules 6, 11 and 12 of `man/emacs.doc:890`-912 and the example at `:982`, where the text ends with the match.
* The first alternative wins, not the longest; a pattern that ends inside a bracket is read beyond its end.
* A range of `modify-syntax-entry` that ends at DEL never ends (`syntax.c:105`); `backward-paren` and the expansion of an abbreviation do not look at the restriction.

*Redisplay.*

* `CalcID` forgets the record of a row that was not written when not all rows are (`display.c:406`); a dot far along a wrapped line never shows (`window.c:320`).

*Databases and mail.*

* The page in memory is never read again: one database in two search lists, or `dbadd` beside Emacs, and older entries are written over newer ones.
  `PutDatabaseEntry` stores into the first writable database, whether or not another has the key (`dbmanager.c:150`, `emacs.doc:1387`).
* A death between a key and its text gives the key the place of the next text; one in a split loses the entries that were moving.
  Keys of one hash that overflow a page split it for ever.
* `lock` goes on without a lock when the file vanishes between `link` and `stat` (`lock.c:68`); two programs break one stale lock, the second
  removing the first's new one (`:75`); a slow owner's lock is broken.
* A letter delivered between the last read and `creat` is lost (`collectmail.c:205`); a death after the Directory was flushed lists letters twice.

## 6. Not modelled

Of modelled components:

* `Editor`, `Typing`: `newline-and-backup`, the digits of prefix arguments, the auto-fill hook and prefix string.
* `Windows`: the mouse.  `Minibuffer`: completion (`getword`).
* `Files`: a second job on a file that a waiting job has open, a new name for the buffer of a waiting job; insert-file, unlink-file, auto-execute, `fopenp`, protections, names under `/tmp`.
* `Keyboard`: when a checkpoint is due (`GetChar` counts keys), listings, help and apropos.
* `Process`: reset-sentinel, handlers of unexpected processes, errors inside `fill_chan`, limits of filters and of strings sent; the
  window that output may bring up; what is done with the text of a filtered region.
* `Lisp`: the characters of the parser, interactive arguments, functions that ask the system, dumping.
* `Typing`: files of abbreviations.
* `Redisplay`: padding, `needspaces` beyond the cost, the visible bell, the mouse, `sit-for`.
* `Database`: deleting entries and lists, a reopening that fails, the programs `dbadd`, `dbprint`, `dbcreate`.
* `Mail`: makemail, several boxes, letters delivered by halves, output to the terminal.

Left out whole: terminal drivers (escape sequences; `Screen` takes them as external operations), the error log (patterns of
compilers' messages; its markers behave as those of `GapBuffer`), start up and exit (a straight line of calls), file names and
completion (string handling), the remote terminal (compiled to nothing), the
MLisp library (users of the primitives), and superseded sources (`Newmchan/`, `indent/`, `pchan.c`, `*.old`), which the build does not use.

## 7. What is left

In order of weight:

1. Proofs: `CollectedOnce`; `OthersBound`, for maps that are trees.
2. Two buffers on one file in `Files`.
3. The count of keys to the next checkpoint and the digits of arguments in `Keyboard`; completion in the minibuffer.
4. Deleting entries of a database, and a program that adds to it beside Emacs.
5. The error log as markers in two buffers.
