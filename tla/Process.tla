------------------------------- MODULE Process -------------------------------
(***************************************************************************)
(* Subprocesses (mchan.c) and synchronous commands (subproc.c).            *)
(*                                                                         *)
(* One thread runs commands and fill_chan; between any two of its steps    *)
(* the handler of SIGCHLD may run.  What the thread is doing is a stack of *)
(* frames, innermost first: a filter, a sentinel or a question runs any    *)
(* command, await-process-input among them, which is fill_chan again.      *)
(*                                                                         *)
(* A process block is an address: list-processes frees it, the next        *)
(* start-process may get it again, and until then its contents stay.       *)
(* A descriptor is used again once closed, the least first.  EXITED stands *)
(* for SIGNALED too.  Output is counted in buffers of BUFSIZ characters.   *)
(* In some places the code does not hold SIGCHLD between what it looks at  *)
(* and what it does with it; the pc is "allocated", "found", "store" or    *)
(* "forked" there.  What the signal spoils is remembered: sig.late is the  *)
(* processes found for change-current-process that have died before they   *)
(* were made current, and a frame waits with "missed" for a child that has *)
(* been waited for already.                                                *)
(***************************************************************************)
EXTENDS Integers, Sequences, FiniteSets, FiniteSetsExt, Functions

CONSTANTS
  Blocks,        \* addresses of process blocks, positive numbers
  Channels,      \* descriptors for the master ends of ptys, positive numbers
  Commands,      \* the commands that are given
  MaxPid,        \* bound: children ever started
  MaxOutput,     \* bound: what one child writes
  MaxKeys,       \* bound: keys ever typed
  MaxAhead,      \* bound: keys typed and not read
  MaxDepth,      \* bound: frames
  BufferSize     \* process-buffer-size, in outputs; ChunkSize is one output

ASSUME NumbersAssumption ==
  /\ Blocks \subseteq Nat \ {0} /\ IsFiniteSet(Blocks)
  /\ Channels \subseteq Nat \ {0}
  /\ MaxPid \in Nat /\ BufferSize \in Nat

Pids == 1..MaxPid
NULL == 0

VARIABLES
  block,     \* by address: struct process_blk
  head,      \* process_list
  cur,       \* current_process
  changed,   \* child_changed
  sel,       \* sel_ichans, but for the terminal
  blocked,   \* sel_ochans
  kid,       \* by process: its state, what it wrote, whether wait3 has news of it
  pty,       \* by descriptor: its process, what is unread, whether the slave is open
  sig,       \* SIGCHLD: pending, held, and whom it found too late
  subproc,   \* subproc_id
  main,      \* the stack of frames
  keys,      \* typed and not read, read and not taken (mpxin), ever typed
  cbuf,      \* whose input is in cbuffer: a process, or 0 for the terminal
  key,       \* a key has been read and its command not yet run
  text       \* by process: its buffer, a sequence of outputs; 0 is a message

list   == << block, head, cur, changed >>
chans  == << sel, blocked >>
kernel == << kid, pty, sig >>
tty    == << keys, cbuf, key >>
vars   == << list, chans, kernel, subproc, main, tty, text >>

(***************************************************************************)
(* The process list.                                                       *)
(***************************************************************************)
ListedIn(blk, first) ==
  LET nth[n \in 0..Cardinality(Blocks)] ==
        IF n = 0 THEN first ELSE IF nth[n - 1] = NULL THEN NULL ELSE blk[nth[n - 1]].next
  IN  nth
Listed    == ListedIn(block, head)
List      == Range(Listed) \ {NULL}
Active(flag) == {"RUNNING", "STOPPED"} \cap flag # {}

(* get_next_process: the first active process of the list. *)
NextProcess(blk, first) ==
  LET nth    == ListedIn(blk, first)
      active == { n \in DOMAIN nth : nth[n] # NULL /\ Active(blk[nth[n]].flag) }
  IN  IF active = {} THEN NULL ELSE nth[Min(active)]

(***************************************************************************)
(* Children, outside.                                                      *)
(***************************************************************************)
Inside     == << list, chans, subproc, main, tty, text >>
Slaves(q)  == { c \in Channels : pty[c].pid = q }
HungUp(q)  == [ c \in Channels |-> [pty[c] EXCEPT !.slave = @ /\ c \notin Slaves(q)] ]
Turns(q, st) == /\ kid' = [kid EXCEPT ![q].st = st, ![q].news = TRUE]
                /\ sig' = [sig EXCEPT !.pending = TRUE]
                /\ pty' = IF st = "dead" THEN HungUp(q) ELSE pty

Writes(q) == /\ kid[q].st = "runs" /\ kid[q].wrote < MaxOutput
             /\ \E c \in Slaves(q) :
                  pty[c].slave /\ pty' = [pty EXCEPT ![c].unread = @ + 1]
             /\ kid' = [kid EXCEPT ![q].wrote = @ + 1]
             /\ UNCHANGED << sig, Inside >>
Exits(q)  == kid[q].st = "runs" /\ Turns(q, "dead") /\ UNCHANGED Inside
(* It closes its terminal and goes on. *)
Detaches(q) == /\ "detach" \in Commands /\ kid[q].st = "runs"
               /\ \E c \in Slaves(q) : pty[c].slave
               /\ pty' = HungUp(q) /\ UNCHANGED << kid, sig, Inside >>
Types == /\ keys.typed < MaxKeys /\ keys.waiting < MaxAhead
         /\ keys' = [keys EXCEPT !.typed = @ + 1, !.waiting = @ + 1]
         /\ UNCHANGED << list, chans, kernel, subproc, main, cbuf, key, text >>

(***************************************************************************)
(* Frames.                                                                 *)
(***************************************************************************)
Frame(do, pc, at) == [ do |-> do, pc |-> pc, at |-> at, ready |-> {}, flag |-> {} ]
Fill        == [Frame("fill", "top", NULL) EXCEPT !.flag = {"tty"}]
Await       == Frame("fill", "top", NULL)
In(do)      == main # << >> /\ Head(main).do = do
At(do, pc)  == In(do) /\ Head(main).pc = pc
Top         == Head(main)
Goes(fr)    == main' = << fr >> \o Tail(main)
Call(fr, back) == main' = << fr, back >> \o Tail(main)
Return      == main' = Tail(main)
Waiting     == \E do \in {"exec", "monitor"} : In(do)
Paused      == Waiting /\ Top.pc = "pause"
Lost        == At("start", "lost")

(***************************************************************************)
(* The handler, child_sig.  It waits for everything there is news of; what *)
(* is not on the list is forgotten.  select and sigpause return after it.  *)
(***************************************************************************)
News_one == LET q == { p \in Pids : kid[p].news } IN IF q = {} THEN {} ELSE {Min(q)}
News     == { q \in Pids : kid[q].news }
Marked(b) ==
  IF b \notin List \/ block[b].pid \notin News THEN block[b].flag
  ELSE (IF kid[block[b].pid].st = "stopped" THEN {"STOPPED"} ELSE {"EXITED"}) \cup {"CHANGED"}
Reported == \E b \in List : block[b].pid \in News
CurrentAfter_same(blk) == cur
CurrentAfter(blk) == IF cur # NULL /\ Active(blk[cur].flag) THEN cur ELSE NextProcess(blk, head)
(* It looks at the current process when it has marked one, or has no child *)
(* left; in a block that is free, or not yet filled in, it finds anything. *)
Alive(q) == kid[q].st \in {"runs", "stopped"}
Currents ==
  CASE ~Reported /\ (\E q \in Pids : Alive(q)) -> {cur}
    [] cur \in List \cup {NULL}                 -> {CurrentAfter(block')}
    [] OTHER                                    -> {cur, NextProcess(block', head)}
(* What was found, or forked, is no longer so when the program goes on. *)
TooLate ==
  IF At("about", "found") /\ "change" \in Top.flag /\ ~Active(block'[Top.at].flag)
  THEN {Top.at} ELSE {}
ChildSig ==
  /\ sig.pending /\ (~sig.held \/ Paused) /\ ~Lost
  /\ block' = [ b \in Blocks |-> [block[b] EXCEPT !.flag = Marked(b)] ]
  /\ cur' \in Currents
  /\ sig' = [sig EXCEPT !.pending = FALSE, !.late = (@ \cap {cur'}) \cup TooLate]
  /\ changed' = (changed \/ Reported)
  /\ subproc' = IF subproc \in News THEN 0 ELSE subproc
  /\ kid' = [ q \in Pids |-> [kid[q] EXCEPT !.news = FALSE, !.st = IF @ = "dead" THEN "gone" ELSE @] ]
  /\ CASE At("fill", "select") -> Goes([Top EXCEPT !.pc = "top"])
       [] Paused -> Goes([Top EXCEPT !.pc = "test"])
       [] At("monitor", "forked") /\ Top.at \in News -> Goes([Top EXCEPT !.flag = {"missed"}])
       [] OTHER -> UNCHANGED main
  /\ UNCHANGED << head, chans, pty, tty, text >>

(***************************************************************************)
(* fill_chan.                                                              *)
(***************************************************************************)
Readable(c) == pty[c].unread > 0 \/ ~pty[c].slave
Ready       == { c \in sel : Readable(c) }
KeyReady    == "tty" \in Top.flag /\ keys.waiting > 0
TtyTurn_last == KeyReady /\ Ready = {} /\ blocked = {}
TtyTurn     == KeyReady
Wedged      == \E c \in blocked : pty[c].pid = 0     \* no such descriptor: select fails

(* change_msgs is called first if a child has changed. *)
Messages(first, back) == IF first THEN Call(Frame("msgs", "visit", head), back) ELSE Goes(back)
FillTop ==
  /\ At("fill", "top")
  /\ Messages(changed /\ Ready = {} /\ ~KeyReady, [Top EXCEPT !.pc = "select"])
  /\ UNCHANGED << list, chans, kernel, subproc, tty, text >>

(* From the top, again and again. *)
SelectFails ==
  /\ At("fill", "select") /\ Wedged
  /\ Goes([Top EXCEPT !.pc = "top"])
  /\ UNCHANGED << list, chans, kernel, subproc, tty, text >>

ReadKeys ==
  /\ At("fill", "select") /\ ~Wedged /\ TtyTurn
  /\ cbuf' = 0
  /\ keys' = [keys EXCEPT !.waiting = 0, !.ahead = keys.waiting]
  /\ Messages(changed, [Top EXCEPT !.pc = "key"])
  /\ UNCHANGED << list, chans, kernel, subproc, key, text >>
ReturnKey ==
  /\ At("fill", "key")
  /\ keys' = [keys EXCEPT !.ahead = @ - 1]
  /\ key' = TRUE
  /\ Return
  /\ UNCHANGED << list, chans, kernel, subproc, cbuf, text >>

(* A blocked channel takes output, or not, as it pleases. *)
Select ==
  /\ At("fill", "select") /\ ~Wedged /\ ~TtyTurn
  /\ Ready # {} \/ blocked # {}
  /\ Goes([Top EXCEPT !.pc = "scan", !.at = head, !.ready = Ready])
  /\ UNCHANGED << list, chans, kernel, subproc, tty, text >>

Scans   == At("fill", "scan") /\ Top.at # NULL
Chan    == block[Top.at].chan
Seen    == [Top EXCEPT !.ready = @ \ {Chan}]
Truncated(s) == IF Len(s) > BufferSize THEN Tail(s) ELSE s
Home_current(b) == IF cur = NULL THEN block[b].pid ELSE block[cur].pid
Home(b) == block[b].pid     \* ch_buffer
(* stuff_buffer, with a filter or without. *)
ReadOutput ==
  /\ Scans /\ Chan \in Top.ready /\ pty[Chan].unread > 0
  /\ pty' = [pty EXCEPT ![Chan].unread = @ - 1]
  /\ cbuf' = pty[Chan].pid
  /\ IF block[Top.at].filter
     THEN Call(Frame("filter", "run", Top.at), Seen) /\ UNCHANGED text
     ELSE /\ text' = [text EXCEPT ![Home(Top.at)] = Truncated(Append(@, cbuf'))]
          /\ Goes(Seen)
  /\ UNCHANGED << list, chans, kid, sig, subproc, keys, key >>
FilterEnd ==
  /\ In("filter")
  /\ text' = [text EXCEPT ![Home(Top.at)] = Truncated(@)]
  /\ Return
  /\ UNCHANGED << list, chans, kernel, subproc, tty >>
(* End of file, or an error: the channel is closed. *)
Closed  == [ pid |-> 0, unread |-> 0, slave |-> FALSE ]
CloseChannel ==
  /\ Scans /\ Chan \in Top.ready /\ pty[Chan].unread = 0
  /\ sel' = sel \ {Chan} /\ blocked' = blocked \ {Chan}
  /\ pty' = [pty EXCEPT ![Chan] = Closed]
  /\ Goes(Seen)
  /\ UNCHANGED << list, kid, sig, subproc, tty, text >>
(* What was held back goes out, if the channel takes it. *)
NextBlock ==
  /\ Scans /\ Chan \notin Top.ready
  /\ \/ UNCHANGED << block, blocked >>
     \/ /\ Chan \in blocked
        /\ blocked' = blocked \ {Chan}
        /\ block' = [block EXCEPT ![Top.at].out = "none"]
  /\ Goes([Top EXCEPT !.at = block[@].next])
  /\ UNCHANGED << head, cur, changed, sel, kernel, subproc, tty, text >>
ScanEnd ==
  /\ At("fill", "scan") /\ Top.at = NULL
  /\ Messages(changed, [Top EXCEPT !.pc = "again"])
  /\ UNCHANGED << list, chans, kernel, subproc, tty, text >>
Again ==
  /\ At("fill", "again")
  /\ IF "tty" \in Top.flag THEN Goes([Top EXCEPT !.pc = "top", !.ready = {}]) ELSE Return
  /\ UNCHANGED << list, chans, kernel, subproc, tty, text >>

(***************************************************************************)
(* change_msgs.  To clear CHANGED is to load, to mask and to store.        *)
(***************************************************************************)
Cleared(flag) == flag \ {"CHANGED"}
MsgsVisit ==
  /\ At("msgs", "visit") /\ Top.at # NULL
  /\ LET flag == block[Top.at].flag
     IN  IF "CHANGED" \in flag
         THEN Goes([Top EXCEPT !.pc = "store", !.flag = Cleared(flag)])
         ELSE Goes([Top EXCEPT !.at = block[@].next])
  /\ UNCHANGED << list, chans, kernel, subproc, tty, text >>
(* A message in the buffer of a process that has ended, or its sentinel. *)
Report ==
  /\ At("msgs", "store")
  /\ block' = [block EXCEPT ![Top.at].flag = Top.flag]
  /\ IF block[Top.at].sent
     THEN Call(Frame("sentinel", "run", Top.at), [Top EXCEPT !.pc = "next", !.flag = {}])
     ELSE Goes([Top EXCEPT !.pc = "next", !.flag = {}])
  /\ text' = IF "EXITED" \in Top.flag /\ ~block[Top.at].sent
             THEN [text EXCEPT ![Home(Top.at)] = Append(@, 0)] ELSE text
  /\ UNCHANGED << head, cur, changed, chans, kernel, subproc, tty >>
SentinelEnd ==
  /\ In("sentinel") /\ Return
  /\ UNCHANGED << list, chans, kernel, subproc, tty, text >>
MsgsNext ==
  /\ At("msgs", "next")
  /\ Goes([Top EXCEPT !.pc = "visit", !.at = block[@].next])
  /\ UNCHANGED << list, chans, kernel, subproc, tty, text >>
MsgsEnd ==
  /\ At("msgs", "visit") /\ Top.at = NULL
  /\ changed' = FALSE
  /\ Return
  /\ UNCHANGED << block, head, cur, chans, kernel, subproc, tty, text >>

(***************************************************************************)
(* Commands: one for a key; one, after process-output, in a filter or a    *)
(* sentinel.  A question reads keys, which may be commands in their turn.  *)
(***************************************************************************)
Reads   == main = << >> \/ In("ask")
GetKey  ==  \* GetChar
  /\ Reads /\ ~key /\ Len(main) < MaxDepth
  /\ IF keys.ahead > 0
     THEN /\ keys' = [keys EXCEPT !.ahead = @ - 1] /\ key' = TRUE /\ UNCHANGED main
     ELSE /\ main' = << Fill >> \o main /\ UNCHANGED << keys, key >>
  /\ UNCHANGED << list, chans, kernel, subproc, cbuf, text >>

Bound   == (In("filter") \/ In("sentinel")) /\ Top.pc \in {"run", "heard"}
Gives(c) == /\ c \in Commands
            /\ \/ Reads /\ key /\ key' = FALSE
               \/ Bound /\ UNCHANGED key
Below   == IF Reads THEN main ELSE << [Top EXCEPT !.pc = "ran"] >> \o Tail(main)
Done    == main' = Below
Calls(fr) == Len(main) < MaxDepth /\ main' = << fr >> \o Below

OtherKey == /\ Reads /\ key /\ key' = FALSE
            /\ UNCHANGED << list, chans, kernel, subproc, main, keys, cbuf, text >>

(* current_process is the new block while its contents are still the old ones. *)
NewPids == { q \in Pids : kid[q].st = "none" }
NewPid  == Min(NewPids)
Free    == Blocks \ List
Unused  == { c \in Channels : pty[c].pid = 0 }
NextOf_swapped(b) == b
NextOf(b) == head     \* before b becomes the head
StartProcess ==
  /\ Gives("start") /\ Free # {} /\ NewPids # {}
  /\ cur' = Min(Free)
  /\ Calls(Frame("start", "allocated", Min(Free)))
  /\ UNCHANGED << block, head, changed, chans, kernel, subproc, keys, cbuf, text >>
(* With SIGCHLD held: the block goes on the list, and again if there is no pty. *)
CreateProcess ==
  /\ At("start", "allocated") /\ cur = Top.at
  /\ Return
  /\ IF Unused = {}
     THEN /\ cur' = NextProcess(block, head)
          /\ UNCHANGED << block, head, changed, sel, kernel >>
     ELSE \E filter \in IF "filtered" \in Commands THEN BOOLEAN ELSE {FALSE} :
          /\ block' = [block EXCEPT ![cur] =
               [ next |-> NextOf(cur), pid |-> NewPid, flag |-> {"RUNNING", "CHANGED"},
                 chan |-> Min(Unused), out |-> "none", filter |-> filter, sent |-> FALSE ]]
          /\ head' = cur /\ changed' = TRUE /\ UNCHANGED cur
          /\ sel' = sel \cup {Min(Unused)}
          /\ pty' = [pty EXCEPT ![Min(Unused)] =
                       [ pid |-> NewPid, unread |-> 0, slave |-> TRUE ]]
          /\ kid' = [kid EXCEPT ![NewPid].st = "runs"]
          /\ UNCHANGED sig
  /\ UNCHANGED << blocked, subproc, tty, text >>

(* The handler has taken another process for the current one, which goes   *)
(* on the list again, or there is none, and Emacs dies.  The list runs     *)
(* into itself from here, and nothing more is modelled.                    *)
CreateTwice ==
  /\ At("start", "allocated") /\ cur # Top.at
  /\ Goes([Top EXCEPT !.pc = "lost"])
  /\ IF cur = NULL THEN UNCHANGED << block, head >>
     ELSE block' = [block EXCEPT ![cur].next = head] /\ head' = cur
  /\ UNCHANGED << cur, changed, chans, kernel, subproc, tty, text >>

(* Everything that has exited leaves the list, with SIGCHLD held.  What   *)
(* was killed has the flag SIGNALED and leaves it too; what was continued *)
(* once it had died has RUNNING as well, and stays.                       *)
Stays   == { n \in DOMAIN Listed :
               /\ Listed[n] # NULL
               /\ "EXITED" \in block[Listed[n]].flag => Active(block[Listed[n]].flag) }
First(N) == IF N = {} THEN NULL ELSE Listed[Min(N)]
Flushed ==
  [ first |-> First(Stays),
    block |-> [ b \in Blocks |->
                  IF \E n \in Stays : Listed[n] = b
                  THEN LET n == CHOOSE m \in Stays : Listed[m] = b
                       IN  [block[b] EXCEPT !.next = First({ m \in Stays : m > n })]
                  ELSE block[b] ] ]
ListProcesses ==
  /\ Gives("list") /\ Done
  /\ head' = Flushed.first /\ block' = Flushed.block
  /\ UNCHANGED << cur, changed, chans, kernel, subproc, keys, cbuf, text >>

(***************************************************************************)
(* Commands about a process: GetBufProc finds it among the active ones.    *)
(* Some ask one question more; the others go on at once.                   *)
(***************************************************************************)
Asks  == {"string", "filter", "sentinel"}
About == Asks \cup {"eot", "int", "kill", "stop", "continue", "change", "reset"}
GetBufProc(what) ==
  /\ Gives(what)
  /\ \E b \in List :
       /\ Active(block[b].flag)
       /\ Calls([Frame(IF Reads /\ what \in Asks THEN "ask" ELSE "about",
                       IF Reads /\ what \in Asks THEN "run" ELSE "found", b) EXCEPT !.flag = {what}])
  /\ UNCHANGED << list, chans, kernel, subproc, keys, cbuf, text >>

InsertFilter(b)   == \E set \in BOOLEAN :
                       /\ block' = [block EXCEPT ![b].filter = set]
                       /\ UNCHANGED << head, cur, changed, chans, kernel >>
ResetFilter(b)    == /\ block' = [block EXCEPT ![b].filter = FALSE]
                     /\ UNCHANGED << head, cur, changed, chans, kernel >>
InsertSentinel(b) == \E set \in BOOLEAN :
                       /\ block' = [block EXCEPT ![b].sent = set]
                       /\ UNCHANGED << head, cur, changed, chans, kernel >>
ChangeCurrentProcess(b) == cur' = b /\ UNCHANGED << block, head, changed, chans, kernel >>

(* send_chan: written, or held back. *)
Send(b) ==
  LET c == block[b].chan
  IN  /\ \/ /\ pty[c].pid # 0
            /\ block' = [block EXCEPT ![b].out = "none"] /\ UNCHANGED blocked
         \/ /\ block' = [block EXCEPT ![b].out = "held"]
            /\ blocked' = blocked \cup {c}
      /\ UNCHANGED << head, cur, changed, sel, kernel >>

(* sig_process: to the process of the channel, or to the leader if it is closed. *)
Struck(b)  == IF pty[block[b].chan].pid # 0 THEN pty[block[b].chan].pid ELSE block[b].pid
Kill(b) == /\ IF Alive(Struck(b)) THEN Turns(Struck(b), "dead") ELSE UNCHANGED kernel
           /\ UNCHANGED << list, chans >>
Interrupt(b) ==
  /\ block' = [block EXCEPT ![b].out = "none"]
  /\ \/ UNCHANGED kernel
     \/ Alive(Struck(b)) /\ Turns(Struck(b), "dead")
  /\ UNCHANGED << head, cur, changed, chans >>
Stop(b) == /\ IF kid[Struck(b)].st = "runs" THEN Turns(Struck(b), "stopped") ELSE UNCHANGED kernel
           /\ UNCHANGED << list, chans >>
Continue(b) ==
  /\ block' = [block EXCEPT ![b].flag = (@ \ {"STOPPED"}) \cup {"RUNNING", "CHANGED"}]
  /\ changed' = TRUE
  /\ kid' = IF kid[Struck(b)].st = "stopped"
            THEN [kid EXCEPT ![Struck(b)].st = "runs", ![Struck(b)].news = FALSE] ELSE kid
  /\ UNCHANGED << head, cur, chans, pty, sig >>

Apply(what, b) ==
  CASE what \in {"string", "eot"} -> Send(b)
    [] what = "filter"   -> InsertFilter(b)
    [] what = "reset"    -> ResetFilter(b)
    [] what = "sentinel" -> InsertSentinel(b)
    [] what = "change"   -> ChangeCurrentProcess(b)
    [] what = "int"      -> Interrupt(b)
    [] what = "kill"     -> Kill(b)
    [] what = "stop"     -> Stop(b)
    [] what = "continue" -> Continue(b)
Answer ==  \* the question is over
  /\ In("ask") /\ key /\ key' = FALSE
  /\ \E what \in Top.flag : Apply(what, Top.at)
  /\ Return /\ UNCHANGED << subproc, keys, cbuf, text >>
Acts ==
  /\ At("about", "found")
  /\ \E what \in Top.flag : Apply(what, Top.at)
  /\ Return /\ UNCHANGED << subproc, tty, text >>

(* fill_chan without the terminal. *)
AwaitProcessInput ==
  /\ Gives("await") /\ Calls(Await)
  /\ UNCHANGED << list, chans, kernel, subproc, keys, cbuf, text >>
(* A filter inserts what was read: what is in cbuffer.  Bound: it does so first. *)
ProcessOutput ==
  /\ At("filter", "run")
  /\ text' = [text EXCEPT ![Home(Top.at)] = Append(@, cbuf)]
  /\ Goes([Top EXCEPT !.pc = "heard"])
  /\ UNCHANGED << list, chans, kernel, subproc, tty >>

(***************************************************************************)
(* Synchronous commands.                                                   *)
(***************************************************************************)
(* SIGCHLD is held from before vfork until subproc_id is known. *)
ExecBfp ==
  /\ Gives("exec") /\ NewPids # {}
  /\ subproc' = NewPid
  /\ kid' = [kid EXCEPT ![NewPid].st = "runs"]
  /\ Calls(Frame("exec", "read", NewPid))
  /\ UNCHANGED << list, chans, pty, sig, keys, cbuf, text >>
(* The pipe is open as long as the child is there. *)
ReadPipeEnd ==
  /\ At("exec", "read") /\ ~Alive(Top.at)
  /\ Goes([Top EXCEPT !.pc = "test"])
  /\ UNCHANGED << list, chans, kernel, subproc, tty, text >>
ReturnToMonitor ==
  /\ Gives("monitor") /\ NewPids # {}
  /\ kid' = [kid EXCEPT ![NewPid].st = "runs"]
  /\ Calls(Frame("monitor", "forked", NewPid))
  /\ UNCHANGED << list, chans, pty, sig, subproc, keys, cbuf, text >>
Forked ==
  /\ At("monitor", "forked")
  /\ subproc' = Top.at
  /\ Goes([Top EXCEPT !.pc = "test"])
  /\ UNCHANGED << list, chans, kernel, tty, text >>
(* Until subproc_id is zero, with SIGCHLD held but while it pauses. *)
WaitForChild ==
  /\ Waiting /\ Top.pc = "test"
  /\ sig' = [sig EXCEPT !.held = subproc # 0]
  /\ IF subproc # 0 THEN Goes([Top EXCEPT !.pc = "pause"]) ELSE Return
  /\ UNCHANGED << list, chans, kid, pty, subproc, tty, text >>

(***************************************************************************)
Init ==
  /\ block = [ b \in Blocks |-> [ next |-> NULL, pid |-> 0, flag |-> {}, chan |-> 0,
                                  out |-> "none", filter |-> FALSE, sent |-> FALSE ] ]
  /\ head = NULL /\ cur = NULL /\ changed = FALSE
  /\ sel = {} /\ blocked = {}
  /\ kid = [ q \in Pids |-> [ st |-> "none", wrote |-> 0, news |-> FALSE ] ]
  /\ pty = [ c \in Channels |-> Closed ]
  /\ sig = [ pending |-> FALSE, held |-> FALSE, late |-> {} ]
  /\ subproc = 0 /\ main = << >>
  /\ keys = [ typed |-> 0, waiting |-> 0, ahead |-> 0 ]
  /\ cbuf = 0 /\ key = FALSE
  /\ text = [ q \in Pids |-> << >> ]

Child(q) == Writes(q) \/ Exits(q) \/ Detaches(q)
Filling  == \/ FillTop \/ SelectFails \/ ReadKeys \/ ReturnKey \/ Select \/ ReadOutput
            \/ CloseChannel \/ NextBlock \/ ScanEnd \/ Again
            \/ MsgsVisit \/ Report \/ MsgsNext \/ MsgsEnd
Ending   == FilterEnd \/ SentinelEnd
Acting   == CreateProcess \/ CreateTwice \/ Acts \/ ReadPipeEnd \/ Forked \/ WaitForChild
Command  == \/ OtherKey \/ StartProcess \/ ListProcesses
            \/ (\E what \in About : GetBufProc(what)) \/ Answer
            \/ AwaitProcessInput \/ ProcessOutput \/ ExecBfp \/ ReturnToMonitor
Next == \/ Types \/ ChildSig \/ (\E q \in Pids : Child(q))
        \/ GetKey \/ Command \/ Filling \/ Ending \/ Acting

(* The signal is delivered; the thread goes on; filters and sentinels end. *)
Fairness == WF_vars(ChildSig) /\ WF_vars(Filling \/ Ending \/ Acting)
Spec     == Init /\ [][Next]_vars
FairSpec == Spec /\ Fairness

(***************************************************************************)
(* Properties.                                                             *)
(***************************************************************************)
(* Output goes to the buffer of the process that wrote it, although a      *)
(* descriptor is used again while the block of its first process, dead or  *)
(* detached, is still listed, and although filters read output in between: *)
(* fill_chan comes to the block of the newer process first.  It goes astray*)
(* only when that block is not among those still to come: list-processes   *)
(* has freed it, or a filter has started the process during the scan.      *)
ToCome == { Listed[n] : n \in { i \in DOMAIN Listed :
              Listed[i] # NULL /\ \E m \in DOMAIN Listed : m <= i /\ Listed[m] = Top.at } }
OutputAtHome ==
  [][ \A q \in Pids : \A p \in Range(text'[q]) \ Range(text[q]) :
        p \in {0, q} \/ \A b \in ToCome : block[b].pid # p ]_vars

(* The list ends, and lists no block twice, although blocks are freed and  *)
(* allocated again.  One case is excepted: Lost, where the handler has come*)
(* between the allocation of a block and the signal being held, and        *)
(* start_process works on another block than its own.                      *)
OnceEach == /\ NULL \in Range(Listed)
            /\ \A m, n \in DOMAIN Listed : Listed[m] = Listed[n] => m = n \/ Listed[m] = NULL
ListEnds == Lost \/ OnceEach

(* The current process is on the list and active, however children die,    *)
(* are stopped, and list-processes frees their blocks, and wherever the    *)
(* signal comes: current-process and active-process look into it.  Only    *)
(* the block start_process is about to fill in is not yet listed; and what *)
(* change-current-process has made current is excepted if it died after it *)
(* was found (sig.late).                                                   *)
CurrentIsActive ==
  \/ cur = NULL
  \/ At("start", "allocated") /\ cur = Top.at
  \/ cur \in sig.late
  \/ cur \in List /\ Active(block[cur].flag)

(* A key is read however much output comes and however many children die,  *)
(* unless a filter or a sentinel waits for something else, a descriptor    *)
(* that is closed was written to and select fails for ever, or the list    *)
(* has been lost.                                                          *)
Elsewhere == \E n \in DOMAIN main : \/ main[n].do \in {"exec", "monitor"}
                                    \/ main[n].do = "fill" /\ main[n].flag = {}
KeyAnswered ==
  (In("fill") /\ Top.pc # "key" /\ KeyReady) ~> (keys.waiting = 0 \/ Wedged \/ Elsewhere \/ Lost)

(* A synchronous command whose child has died goes on: the signal cannot   *)
(* slip between the test of subproc_id and the pause.  It can slip between *)
(* vfork and the assignment of subproc_id in return-to-monitor, which then *)
(* waits for ever: excepted by name ("missed").                            *)
WaitEnds ==
  \A do \in {"exec", "monitor"} :
    (In(do) /\ ~Alive(Top.at)) ~> (~In(do) \/ "missed" \in Top.flag)

==============================================================================
