-------------------------------- MODULE Files --------------------------------
(***************************************************************************)
(* Buffers and the files they name (fileio.c): visiting, writing with the  *)
(* backup made first, appending, checkpoints, and the modification times   *)
(* by which Emacs notices that somebody else has written a file.  WriteFile*)
(* is taken system call by system call, since it asks questions, at which  *)
(* any other command may be given, and may be ended by a signal anywhere.  *)
(*                                                                         *)
(* A text is a sequence of pieces; every edit replaces it by a new piece.  *)
(* A piece is used again once nothing holds it.  Time passes only          *)
(* when the outside world writes a file, so that Emacs may do many things  *)
(* in one second but never shares a second with somebody else's write.     *)
(***************************************************************************)
EXTENDS Integers, Sequences, FiniteSets, SequencesExt

CONSTANTS
  Buffers, Files, None,      \* None: no file name
  BackupBeforeWriting, UnlinkCheckpointFiles,
  Pieces,                    \* of text
  MaxText,                   \* bound: pieces in one text
  MaxModified,               \* bound: on b_modified
  MaxTime,                   \* bound: on the clock
  MaxDepth,                  \* bound: jobs in progress, one in a question of another
  Inner                      \* bound: what may be begun in a question

ASSUME NoneAssumption    == None \notin Files
ASSUME BuffersAssumption == IsFiniteSet(Buffers)
ASSUME MaxTextAssumption == MaxText \in Nat

VARIABLES
  disk,    \* by name: the text and the modification time, 0 for no file
  buf,     \* by buffer: the fields of struct buffer about its file
  stack,   \* the jobs in progress, innermost first
  err,     \* an error has been reported since the last redisplay
  clock,
  hist     \* history, for the properties: orig, kept, foreign

vars == << disk, buf, stack, err, clock, hist >>

The(f)  == << "file", f >>
Bak(f)  == << "bak", f >>
Ckp(f)  == << "ckp", f >>
Names   == { << kind, f >> : kind \in {"file", "bak", "ckp"}, f \in Files }
Absent  == [ text |-> << >>, mtime |-> 0 ]
Exists(n) == disk[n].mtime > 0

J == Head(stack)
At(pc) == stack # << >> /\ J.pc = pc
Become(job) == stack' = << job >> \o Tail(stack)
Goes(pc) == Become([J EXCEPT !.pc = pc])
File == J.name[2]

(* At the keyboard, or at a question, where RecursiveEdit takes any command. *)
Questions  == {"ask", "newline", "ignore"}
AtKeyboard == stack # << >> => J.pc \in Questions
Command    == AtKeyboard /\ UNCHANGED << stack, clock >> /\ err' = FALSE

(* Left out: a second job on a file that an outer job has open, and a new  *)
(* name for a buffer whose job waits at a question (it frees the old one,  *)
(* which WriteFile still uses).                                            *)
HasOpen(job, n) == job.name = n /\ job.pc \in {"newline", "write", "close"}
Open(n)  == \E k \in DOMAIN stack : HasOpen(stack[k], n)
Waits(b) == \E k \in DOMAIN stack : stack[k].b = b /\ stack[k].pc \in Questions

Used  == UNION { Range(disk[n].text) : n \in Names }
           \cup UNION { Range(buf[b].text) : b \in Buffers }
           \cup UNION { Range(hist.orig[f]) : f \in Files }
Unused     == Pieces \ Used
CanEdit(b) == buf[b].modified < MaxModified
Edited(b)  == { [buf EXCEPT ![b].text = << p >>, ![b].modified = @ + 1] : p \in Unused }

(***************************************************************************)
(* Commands that write nothing.                                            *)
(***************************************************************************)
(* Reading, renaming, writing and checkpointing a buffer set b_modtime: it  *)
(* no longer tells what others wrote before.                               *)
Seen(b) == [hist EXCEPT !.foreign = @ \ {b}]

(* InsertAt and DelFrwd, whatever command calls them. *)
Edit(b) == /\ Command /\ CanEdit(b)
           /\ buf' \in Edited(b)
           /\ UNCHANGED << disk, hist >>

EraseBuffer(b) == /\ Command
                  /\ buf' = [buf EXCEPT ![b].text = << >>, ![b].modified = 0]
                  /\ UNCHANGED << disk, hist >>

(* The name of the checkpoint file goes with the name of the file. *)
Renamed(B, f) == [B EXCEPT !.fname = f, !.ckpfn = None,
                           !.checkpointed = IF B.ckpfn = None THEN @ ELSE 0]

(* readfile with erase replaces the text by the k pieces that it could     *)
(* read, and takes name and time of the file even when they are not all.   *)
Read(B, f, k) == [Renamed(B, f) EXCEPT !.text = SubSeq(disk[The(f)].text, 1, k),
                                       !.modified = 0, !.modtime = disk[The(f)].mtime]

(* There is no room for the text: it returns with the buffer erased.       *)
NoRoom(B) == [B EXCEPT !.text = << >>, !.modified = 0]

Readable(f, k) == Exists(The(f)) /\ k \in 0..Len(disk[The(f)].text)

(* A file that cannot be opened changes nothing. *)
ReadFile(b, f) ==
  /\ Command /\ ~Waits(b) /\ UNCHANGED disk
  /\ \/ \E k \in 0..MaxText : /\ Readable(f, k) /\ buf' = [buf EXCEPT ![b] = Read(@, f, k)]
                              /\ hist' = Seen(b)
     \/ Readable(f, 1) /\ buf' = [buf EXCEPT ![b] = NoRoom(@)] /\ UNCHANGED hist

(* A buffer on f is only switched to; one that takes the name of a file    *)
(* that is not there, or cannot be read, keeps its text and its time.      *)
VisitFile(b, f) ==
  LET Named(B) == [B EXCEPT !.fname = f, !.ckpfn = None, !.checkpointed = 0]
  IN  /\ Command /\ ~Waits(b) /\ \A c \in Buffers : buf[c].fname # f
      /\ \/ \E k \in 0..MaxText : Readable(f, k) /\ buf' = [buf EXCEPT ![b] = Named(Read(@, f, k))]
         \/ Readable(f, 1) /\ buf' = [buf EXCEPT ![b] = Named(NoRoom(@))]
         \/ buf' = [buf EXCEPT ![b] = Named(@)]
      /\ hist' = Seen(b)
      /\ UNCHANGED disk

ChangeFileName(b, f) ==
  /\ Command /\ ~Waits(b)
  /\ buf' = [buf EXCEPT ![b] =
               [ Renamed(@, f) EXCEPT
                   !.modtime = IF f = None THEN 0
                               ELSE IF buf[b].fname # f /\ Exists(The(f))
                               THEN disk[The(f)].mtime ELSE buf[b].modtime ]]
  /\ hist' = IF buf[b].fname # f THEN Seen(b) ELSE hist
  /\ UNCHANGED disk

(***************************************************************************)
(* Jobs: a list of buffers to go through, and a WriteFile for each.        *)
(***************************************************************************)
Saves(do) == do \in {"write", "modwrite"}
Due(do, B) == CASE do = "checkpoint" -> B.fname # None /\ B.checkpointed < B.modified
                [] do = "modwrite"   -> B.fname # None /\ B.modified > 0
                [] OTHER             -> TRUE

(* The next buffer that is due, and the name it is written to. *)
Continue(job, bufs, below) ==
  LET k == SelectInSeq(job.todo, LAMBDA b : Due(job.do, bufs[b]))
      b == job.todo[k]
      B == bufs[b]
      n == CASE job.do = "checkpoint" -> Ckp(B.fname)
             [] job.do = "modwrite"   -> The(B.fname)
             [] OTHER                 -> job.name
  IN  IF k = 0 THEN stack' = below /\ buf' = bufs
      ELSE /\ stack' = << [job EXCEPT !.todo = SubSeq(@, k + 1, Len(@)), !.b = b,
                                      !.name = n, !.modcnt = IF job.do = "checkpoint" THEN B.modified ELSE 0,
                                      !.short = FALSE, !.pc = "look"] >> \o below
           /\ buf' = [bufs EXCEPT ![b].ckpfn = IF job.do = "checkpoint" THEN B.fname ELSE @]

Begin(do, todo, name, bufs) ==
  /\ AtKeyboard /\ Len(stack) < MaxDepth /\ (stack # << >> => do \in Inner)
  /\ \A n \in {name} \cup { The(bufs[b].fname) : b \in Range(todo) } : ~Open(n)
  /\ do = "modwrite" => \A k \in DOMAIN stack : stack[k].pc # "newline"
  /\ Continue([ do |-> do, todo |-> todo, name |-> name, b |-> Head(todo), pc |-> "look",
                modcnt |-> 0, failed |-> FALSE, short |-> FALSE, at |-> 0, met |-> "nobody" ], bufs, stack)
  /\ err' = FALSE
  /\ UNCHANGED << disk, clock >>

AllBuffers == SetToSeq(Buffers)

WriteCurrentFile(b) == /\ buf[b].fname # None
                       /\ Begin("write", << b >>, The(buf[b].fname), buf)
                       /\ UNCHANGED hist

(* The name typed is compared with the absolute one it will become. *)
WriteNamedFile(b, f, absolute) ==
  LET other == buf[b].fname # None /\ ~(absolute /\ buf[b].fname = f)
  IN  /\ ~Waits(b)
      /\ Begin("write", << b >>, The(f),
               [buf EXCEPT ![b] = [ Renamed(@, f) EXCEPT
                                      !.modtime = IF other THEN 0 ELSE buf[b].modtime ]])
      /\ hist' = IF buf[b].fname # f THEN Seen(b) ELSE hist

AppendToFile(b, f) == /\ Len(disk[The(f)].text) + Len(buf[b].text) <= MaxText
                      /\ Begin("append", << b >>, The(f), buf)
                      /\ UNCHANGED hist
WriteModifiedFiles == Begin("modwrite", AllBuffers, None, buf) /\ UNCHANGED hist
Checkpoint         == Begin("checkpoint", AllBuffers, None, buf) /\ UNCHANGED hist

(* A slip: the count that WriteFile has cleared is not put back. *)
EpilogueForgets(B) ==
  CASE J.do = "checkpoint" -> [B EXCEPT !.checkpointed = J.modcnt]
    [] Saves(J.do) /\ UnlinkCheckpointFiles -> [B EXCEPT !.checkpointed = 0]
    [] OTHER -> B

(* WriteFile returns: what its caller does to the buffer, the disk, itself. *)
Epilogue(B) ==
  CASE J.do = "checkpoint" -> [B EXCEPT !.modified = J.modcnt, !.checkpointed = J.modcnt]
    [] Saves(J.do) /\ UnlinkCheckpointFiles -> [B EXCEPT !.checkpointed = 0]
    [] OTHER -> B
Unlinks(e) == Saves(J.do) /\ UnlinkCheckpointFiles /\ ~e /\ buf[J.b].ckpfn # None

(* A checkpoint that failed leaves no error behind. *)
Returns(B, ok, e, D) ==
  LET job  == [J EXCEPT !.failed = @ \/ (J.do = "checkpoint" /\ ~ok)]
      bufs == [buf EXCEPT ![J.b] = Epilogue(B)]
  IN  /\ disk' = IF Unlinks(e) THEN [D EXCEPT ![Ckp(buf[J.b].ckpfn)] = Absent] ELSE D
      /\ IF J.do = "modwrite" /\ ~ok
         THEN Become([job EXCEPT !.pc = "ignore"]) /\ buf' = bufs
         ELSE Continue(job, bufs, Tail(stack))
      /\ err' = (e /\ ~(job.failed /\ Len(stack') < Len(stack)))
      /\ UNCHANGED clock
Fails == Returns(buf[J.b], FALSE, TRUE, disk) /\ UNCHANGED hist

(* ModWrite counts the answers other than yes, and goes on either way. *)
IgnoreIt == /\ At("ignore") /\ err' = FALSE
            /\ Continue(J, buf, Tail(stack))
            /\ UNCHANGED << disk, clock, hist >>

(***************************************************************************)
(* WriteFile, step by step.                                                *)
(***************************************************************************)
(* A slip: the time remembered is not looked at. *)
ChangedNever(B, n) == FALSE

(* It looks at the time of the file before anything else. *)
Changed(B, n) == Exists(n) /\ B.modtime # 0 /\ disk[n].mtime > B.modtime

Asks == Saves(J.do) /\ Changed(buf[J.b], J.name)
Unwritable  == At("look") /\ J.do # "checkpoint" /\ Exists(J.name) /\ Fails
Ask         == At("look") /\ Asks /\ Goes("ask") /\ UNCHANGED << disk, buf, err, clock, hist >>
WriteAnyway == At("ask") /\ Goes("agreed") /\ err' = FALSE /\ UNCHANGED << disk, buf, clock, hist >>
NotWritten  == At("ask") /\ Fails

Agreed  == At("agreed") \/ (At("look") /\ ~Asks)
(* A slip: the backup is made again on every write. *)
BacksUpAgain == Saves(J.do) /\ BackupBeforeWriting

BacksUp == Saves(J.do) /\ BackupBeforeWriting /\ ~buf[J.b].backedUp

Forget == [hist EXCEPT !.orig[File] = << >>, !.kept = @ \ {File}]

(* The old backup goes first: unlink, or the creat that begins a copy.  The*)
(* variable, a symbolic link, or several links decide which.               *)
StartBackup(copying) ==
  /\ Agreed /\ BacksUp
  /\ buf' = [buf EXCEPT ![J.b].backedUp = TRUE]
  /\ CASE ~copying -> disk' = [disk EXCEPT ![Bak(File)] = Absent] /\ Goes("link")
       [] copying /\ Exists(J.name) ->
            /\ disk' = [disk EXCEPT ![Bak(File)] = [ text |-> << >>, mtime |-> 1 ]]
            /\ Goes("copy")
       [] OTHER -> UNCHANGED disk /\ Goes("creat")
  /\ hist' = IF File \in hist.kept /\ ~buf[J.b].backedUp THEN Forget ELSE hist
  /\ UNCHANGED << err, clock >>

(* Nobody looks whether the copy, or the link, could be made. *)
Kept(done) == hist' = IF hist.orig[File] = << >> \/ ~done THEN Forget
                      ELSE [hist EXCEPT !.kept = @ \cup {File}]
CopyBackup(done) ==
  /\ At("copy") /\ Goes("creat") /\ Kept(done)
  /\ disk' = IF done THEN [disk EXCEPT ![Bak(File)].text = disk[J.name].text] ELSE disk
  /\ UNCHANGED << buf, err, clock >>
LinkBackup(done) ==
  /\ At("link") /\ Goes("unlink") /\ Kept(done)
  /\ disk' = IF done /\ Exists(J.name)
             THEN [disk EXCEPT ![Bak(File)] = [ text |-> disk[J.name].text, mtime |-> 1 ]]
             ELSE disk
  /\ UNCHANGED << buf, err, clock >>
UnlinkOld ==
  /\ At("unlink") /\ Goes("creat")
  /\ disk' = [disk EXCEPT ![J.name] = Absent]
  /\ UNCHANGED << buf, err, clock, hist >>

(* creat empties the file, append opens it as it is.  Then the write hook, *)
(* which is any command: it may edit the text, or fail.                    *)
CanOpen == At("creat") \/ (Agreed /\ ~BacksUp)
Opened  == IF J.do = "append" /\ Exists(J.name) THEN disk[J.name]
           ELSE [ text |-> << >>, mtime |-> clock ]
Creat(hook) ==
  /\ CanOpen /\ (hook = "edits" => CanEdit(J.b))
  /\ disk' = [disk EXCEPT ![J.name] = Opened]
  /\ buf' \in IF hook = "edits" THEN Edited(J.b) ELSE {buf}
  /\ err' = (err \/ hook = "fails")
  /\ \E pc \in {"write", "newline"} :
       /\ pc = "newline" => J.do # "checkpoint" /\ buf[J.b].text # << >>
       /\ Become([J EXCEPT !.pc = pc, !.at = Len(Opened.text), !.met = "nobody"])
  /\ hist' = IF Saves(J.do) /\ File \notin hist.kept
             THEN Forget ELSE hist
  /\ UNCHANGED clock
CannotCreat == CanOpen /\ Fails

(* Shall a newline be added?  No answer, as after ^G, counts as yes. *)
AddNewline(aborted) ==
  /\ At("newline") /\ CanEdit(J.b)
  /\ buf' \in Edited(J.b)
  /\ err' = aborted
  /\ Goes("write")
  /\ UNCHANGED << disk, clock, hist >>
NoNewline == /\ At("newline") /\ err' = FALSE /\ Goes("write")
             /\ UNCHANGED << disk, buf, clock, hist >>

(* The text before the gap and the text after it, from the place where     *)
(* creat or lseek has left the descriptor, over what another program may   *)
(* have put there, or into a file that no longer has the name.  A write    *)
(* that comes short is not an error to WriteFile; one that fails may leave *)
(* a part as well.                                                         *)
Over(text, at, new) == SubSeq(text, 1, at) \o new \o SubSeq(text, at + Len(new) + 1, Len(text))
Written(k) == IF J.met = "replaced" \/ k = 0 THEN disk
              ELSE [disk EXCEPT ![J.name] = [ text  |-> Over(@.text, J.at, SubSeq(buf[J.b].text, 1, k)),
                                              mtime |-> clock ]]
Fits(k) == k <= Len(buf[J.b].text) /\ Len(disk[J.name].text) + k <= MaxText
WriteText(k) ==
  /\ At("write") /\ Fits(k) /\ disk' = Written(k)
  /\ Become([J EXCEPT !.pc = "close", !.short = k < Len(buf[J.b].text)])
  /\ UNCHANGED << buf, err, clock, hist >>
IOError(k) == /\ At("write") /\ Fits(k)
              /\ Returns(buf[J.b], FALSE, TRUE, Written(k)) /\ UNCHANGED hist

(* A slip: the count of the last checkpoint is left as it was. *)
ClosedKeepsCount(B) == IF err THEN B
                       ELSE [B EXCEPT !.modified = 0, !.modtime = disk[J.name].mtime]

Closed(B) == IF err THEN B
             ELSE [B EXCEPT !.modified = 0, !.modtime = disk[J.name].mtime,
                            !.checkpointed = 0]

Close == /\ At("close")
         /\ Returns(Closed(buf[J.b]), TRUE, err, disk)
         /\ hist' = IF err THEN hist ELSE Seen(J.b)

WriteFileStep ==
  \/ Unwritable \/ Ask \/ WriteAnyway \/ NotWritten \/ UnlinkOld \/ CannotCreat
  \/ \E done \in BOOLEAN : StartBackup(done) \/ CopyBackup(done) \/ LinkBackup(done)
                             \/ AddNewline(done)
  \/ \E hook \in {"nothing", "edits", "fails"} : Creat(hook)
  \/ NoNewline \/ Close \/ IgnoreIt
  \/ \E k \in 0..MaxText : WriteText(k) \/ IOError(k)

(***************************************************************************)
(* The world outside.                                                      *)
(***************************************************************************)
(* Another program writes the file, in place, or by a new file that takes  *)
(* its name.  It makes a difference to the job that has the file open.     *)
(* Left out: a file cut off before the place where that job will write,    *)
(* and one written in place while the backup is still a link to it.        *)
Met(job, f, how) == IF HasOpen(job, The(f)) /\ job.met # "replaced"
                    THEN [job EXCEPT !.met = how] ELSE job

Outside(f, how) ==
  /\ clock < MaxTime
  /\ how = "wrote" => \A k \in DOMAIN stack : HasOpen(stack[k], The(f)) => stack[k].at <= 1
  /\ stack' = [k \in DOMAIN stack |-> Met(stack[k], f, how)]
  /\ clock' = clock + 1
  /\ \E p \in Unused :
       disk' = [disk EXCEPT ![The(f)] = [ text |-> << p >>, mtime |-> clock + 1 ]]
  /\ hist' = [hist EXCEPT !.foreign = @ \cup { b \in Buffers : buf[b].fname = f },
                          !.orig[f] = IF @ = << >> \/ f \in hist.kept THEN @
                                      ELSE disk'[The(f)].text]
  /\ UNCHANGED << buf, err >>

(***************************************************************************)
(* The specification.  A session begins on files that earlier ones left,   *)
(* with their backups, or on no file.                                      *)
(***************************************************************************)
Fresh == [ text |-> << >>, modified |-> 0, modtime |-> 0, fname |-> None,
           backedUp |-> FALSE, ckpfn |-> None, checkpointed |-> 0 ]

Init ==
  /\ \E there \in SUBSET Files, p \in Pieces : \E q \in Pieces \ {p} :
       disk = [ n \in Names |->
                  CASE n[1] = "file" /\ n[2] \in there -> [ text |-> << p >>, mtime |-> 1 ]
                    [] n[1] = "bak"  /\ n[2] \in there -> [ text |-> << q >>, mtime |-> 1 ]
                    [] OTHER -> Absent ]
  /\ buf = [ b \in Buffers |-> Fresh ]
  /\ stack = << >> /\ err = FALSE /\ clock = 1
  /\ hist = [ orig |-> [ f \in Files |-> disk[The(f)].text ], kept |-> {},
              foreign |-> {} ]

Next ==
  \/ \E b \in Buffers : Edit(b) \/ EraseBuffer(b) \/ WriteCurrentFile(b)
  \/ \E b \in Buffers, f \in Files :
       \/ ReadFile(b, f) \/ VisitFile(b, f) \/ AppendToFile(b, f)
       \/ \E absolute \in BOOLEAN : WriteNamedFile(b, f, absolute)
  \/ \E b \in Buffers, f \in Files \cup {None} : ChangeFileName(b, f)
  \/ WriteModifiedFiles \/ Checkpoint
  \/ WriteFileStep
  \/ \E f \in Files, how \in {"wrote", "replaced"} : Outside(f, how)

Spec == Init /\ [][Next]_vars

(***************************************************************************)
(* Properties.                                                             *)
(***************************************************************************)
(* "The .BAK file will contain the file as it was before Emacs was invoked"*)
(* (variables.mss): at every moment, in the midst of a write too, the file *)
(* that was there, with what has been appended, is in place or in .BAK.    *)
(* hist.orig forgets a file when a backup could not be made, when it is    *)
(* written by a buffer whose one backup was of another file, and when a    *)
(* second buffer makes the backup again (StartBackup to Creat).            *)
OriginalKept ==
  BackupBeforeWriting =>
    \A f \in Files :
      hist.orig[f] # << >>
        => \E n \in {The(f), Bak(f)} : Exists(n) /\ IsPrefix(hist.orig[f], disk[n].text)

(* b_modified is "true iff this buffer has been modified since it was last *)
(* written" (buffer.h): it becomes false only when the file has the text,  *)
(* through hooks, questions, checkpoints and errors.  The ways out of the  *)
(* code, by name: erase-buffer, append-to-file, a write that comes short   *)
(* (fileio.c:529), a file that somebody else writes while it is open, and  *)
(* a read that failed or found no room (fileio.c:369, 382).                *)
FailedRead(b) == \E f \in Files : /\ ReadFile(b, f) \/ VisitFile(b, f)
                                  /\ Len(buf'[b].text) < Len(disk[The(f)].text)
OnlyWrittenIsClean ==
  [][ \A b \in Buffers :
        (buf[b].modified > 0 /\ buf'[b].modified = 0)
          => \/ buf'[b].fname # None /\ disk'[The(buf'[b].fname)].text = buf'[b].text
             \/ EraseBuffer(b) \/ FailedRead(b)
             \/ At("close") /\ (J.do = "append" \/ J.short \/ J.met # "nobody") ]_vars

(* b_checkpointed tells the truth about the checkpoint file. *)
Trusted(b) ==
  LET B == buf[b]
  IN  /\ B.checkpointed <= B.modified
      /\ (B.checkpointed = B.modified /\ B.modified > 0)
           => B.ckpfn # None /\ disk[Ckp(B.ckpfn)].text = B.text

Alone(b) == \A c \in Buffers \ {b} : buf[c].ckpfn # buf[b].ckpfn

(* A checkpoint that Emacs believes in is good: only erase-buffer and a     *)
(* read that finds no room, which lower b_modified below b_checkpointed in  *)
(* the same way, and a checkpoint that fails or comes short make it believe *)
(* in one that is not (CheckpointEverything).                               *)
CheckpointTrusted ==
  [][ \A b \in Buffers :
        (Trusted(b) /\ Alone(b) /\ Alone(b)')
          => \/ Trusted(b)'
             \/ EraseBuffer(b)
             \/ /\ stack # << >> /\ J.do = "checkpoint"
                /\ J.short \/ CannotCreat \/ \E k \in 0..MaxText : IOError(k) ]_vars

(* A file that somebody else has written since its buffer last read it,    *)
(* took its name or was written out is not written over unasked, unless no *)
(* time is remembered at all, or the buffer has been checkpointed since    *)
(* (the look at st_mtime in WriteFile).                                    *)
Overwrites(b) == /\ At("look") /\ Saves(J.do) /\ J.b = b
                 /\ Exists(J.name) /\ buf[b].modtime # 0
LookFindsForeign ==
  [][ \A b \in hist.foreign :
        Overwrites(b) => (UNCHANGED disk \/ clock' # clock) ]_vars

==============================================================================
