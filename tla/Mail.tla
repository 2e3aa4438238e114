-------------------------------- MODULE Mail ---------------------------------
(***************************************************************************)
(* collectmail.c and lock.c: the letters in a mail box are copied into one *)
(* file each, a line for each goes into the Directory, and the mail box is *)
(* truncated.  Collectors keep each other out with a lock file, which they *)
(* take for abandoned after 300 seconds; whoever delivers a letter takes   *)
(* no notice of it.                                                        *)
(*                                                                         *)
(* A line is what it begins with and the letter it belongs to: "From ",    *)
(* ^C, "" for the empty line, the name of a header field, or "text".       *)
(* A collector reads all that there is in one go (the box is shorter than  *)
(* a buffer of stdio), writes a message file when it closes it, and the    *)
(* Directory when it flushes it.  It may die between any two of its calls. *)
(***************************************************************************)
EXTENDS Integers, Sequences, SequencesExt, FiniteSetsExt

CONSTANTS Collectors,   \* the programs that may run
          Styles,       \* the letters that may be delivered, as they are in the box
          MaxLetters,   \* bound: letters delivered
          MaxRuns,      \* bound: times a collector is started
          MaxDeaths     \* bound: times one dies

VARIABLES box,          \* the lines of the mail box
          msgs,         \* the message files
          directory,    \* the lines of the Directory
          lockfile,     \* "none", "fresh", or "old": of more than 300 seconds ago
          col,          \* the collectors
          letters,      \* history: the letters delivered
          late,         \* history: those delivered to a box read to its end
          count,        \* history: collectors started, collectors dead
          happened      \* history: see Events

mailvars == << box, msgs, directory, lockfile, col, letters, late, count, happened >>

Fields   == {"from", "subject", "to", "date"}
NoFields == [ f \in Fields |-> 0 ]
NoFile   == 0

(* A lock was taken for abandoned; one was gone between link and stat; two *)
(* collectors were in the box at a time.                                   *)
Events == {"broke", "vanished", "together"}

(***************************************************************************)
(* ScanBox, line by line.  p is its state: the message file being written, *)
(* what goes there, and what was closed and not yet flushed.               *)
(***************************************************************************)
Unread == [ pos |-> 0, out |-> NoFile, body |-> << >>, inheader |-> FALSE,
            rational |-> FALSE, fromline |-> 0, field |-> NoFields,
            files |-> << >>, entries |-> << >> ]

Or(a, b) == IF a # 0 THEN a ELSE b

(* From the "From " line what the header does not say.                     *)
CloseMessage(p) ==
  IF p.out = NoFile THEN p
  ELSE [ p EXCEPT !.files = (p.out :> p.body) @@ @,
                  !.entries = Append(@, [ file |-> p.out,
                                          from |-> Or(p.field["from"], p.fromline),
                                          date |-> Or(p.field["date"], p.fromline),
                                          to |-> p.field["to"], subj |-> p.field["subject"] ]) ]

NewName(p) == Max({0} \cup DOMAIN msgs \cup DOMAIN p.files \cup {p.out}) + 1

StartsMessage(p, line) ==
  \/ ~p.inheader /\ ~p.rational /\ line.tag \in {"From ", "date"}
  \/ p.out = NoFile
  \/ line.tag = "^C"

OpenMessage(p, line) ==
  [ CloseMessage(p) EXCEPT !.out = NewName(p), !.body = << >>, !.inheader = TRUE,
                           !.fromline = IF line.tag = "From " THEN line.of ELSE 0,
                           !.field = NoFields, !.rational = @ \/ line.tag = "^C" ]

extractfield(p, line) ==
  IF p.inheader /\ line.tag \in Fields THEN [ p EXCEPT !.field[line.tag] = line.of ] ELSE p

Copy(p, line) == [ p EXCEPT !.body = Append(@, line) ]

ScanLine(p, line) ==
  IF line.tag = "" THEN IF p.out = NoFile THEN p
                        ELSE Copy([ p EXCEPT !.inheader = FALSE ], line)
  ELSE LET q == IF StartsMessage(p, line) THEN OpenMessage(p, line) ELSE p
       IN  IF line.tag = "^C" THEN q ELSE Copy(extractfield(q, line), line)

Scanned(p) == [ FoldLeft(ScanLine, p, SubSeq(box, p.pos + 1, Len(box)))
                EXCEPT !.pos = Len(box) ]

(***************************************************************************)
(* The steps of a collector.                                               *)
(***************************************************************************)
(* Where it is, and the state of its ScanBox.                              *)
Asleep == [ pc |-> "idle", scan |-> Unread ]

Inside == {"read", "end", "truncate"}
OtherInside(c) == \E d \in Collectors \ {c} : col[d].pc \in Inside
To(c, pc, p) ==
  /\ col' = [ col EXCEPT ![c] = [ pc |-> pc, scan |-> p ] ]
  /\ happened' = happened \cup (IF pc \in Inside /\ OtherInside(c) THEN {"together"} ELSE {})
  /\ UNCHANGED count
Goes(c, pc) == To(c, pc, col[c].scan)

Start(c) ==
  /\ col[c].pc = "idle" /\ count.runs < MaxRuns
  /\ box # << >>
  /\ col' = [ col EXCEPT ![c].pc = "lock" ]
  /\ count' = [ count EXCEPT !.runs = @ + 1 ]
  /\ UNCHANGED << box, msgs, directory, lockfile, letters, late, happened >>

(* A slip: the lock file is made with creat, which does not mind one that  *)
(* is there already.                                                       *)
lock1_creat(c) ==
  /\ col[c].pc = "lock"
  /\ lockfile' = "fresh" /\ Goes(c, "read")
  /\ UNCHANGED << box, msgs, directory, letters, late >>

lock1(c) ==
  /\ col[c].pc = "lock"
  /\ \/ lockfile = "none" /\ lockfile' = "fresh" /\ Goes(c, "read")
     \/ lockfile # "none" /\ Goes(c, "stat") /\ UNCHANGED lockfile
  /\ UNCHANGED << box, msgs, directory, letters, late >>

(* A lock that has gone meanwhile is not asked for again: lock returns.    *)
LockGone(c) ==
  /\ col[c].pc = "stat" /\ lockfile = "none"
  /\ col' = [ col EXCEPT ![c].pc = "read" ]
  /\ happened' = happened \cup {"vanished"} \cup (IF OtherInside(c) THEN {"together"} ELSE {})
  /\ UNCHANGED << box, msgs, directory, lockfile, letters, late, count >>

LockStays(c) ==
  /\ col[c].pc = "stat" /\ lockfile # "none"
  /\ Goes(c, IF lockfile = "fresh" THEN "lock" ELSE "remove")
  /\ UNCHANGED << box, msgs, directory, lockfile, letters, late >>

RemoveLock(c) ==
  /\ col[c].pc = "remove"
  /\ lockfile' = "none"
  /\ col' = [ col EXCEPT ![c].pc = "lock" ]
  /\ happened' = happened \cup {"broke"}
  /\ UNCHANGED << box, msgs, directory, letters, late, count >>

Read(c) ==
  /\ col[c].pc = "read"
  /\ IF col[c].scan.pos < Len(box)
     THEN LET p == Scanned(col[c].scan)
          IN  /\ To(c, "read", p)
              /\ msgs' = IF p.out = NoFile THEN msgs
                         ELSE p.files @@ (p.out :> << >>) @@ msgs
     ELSE Goes(c, "end") /\ UNCHANGED msgs
  /\ UNCHANGED << box, directory, lockfile, letters, late >>

(* A slip: the last message is not closed.                                 *)
Close_open(c) ==
  /\ col[c].pc = "end"
  /\ directory' = directory \o col[c].scan.entries
  /\ Goes(c, "truncate")
  /\ UNCHANGED << box, msgs, lockfile, letters, late >>

Close(c) ==
  /\ col[c].pc = "end"
  /\ LET p == CloseMessage(col[c].scan)
     IN  /\ directory' = directory \o p.entries
         /\ msgs' = p.files @@ msgs
         /\ To(c, "truncate", [ p EXCEPT !.entries = << >> ])
  /\ UNCHANGED << box, lockfile, letters, late >>

Truncate(c) ==
  /\ col[c].pc = "truncate"
  /\ box' = << >>
  /\ Goes(c, "unlock")
  /\ UNCHANGED << msgs, directory, lockfile, letters, late >>

unlock(c) ==
  /\ col[c].pc = "unlock"
  /\ lockfile' = "none"
  /\ col' = [ col EXCEPT ![c] = Asleep ]
  /\ UNCHANGED << box, msgs, directory, letters, late, count, happened >>

Dies(c) ==
  /\ col[c].pc # "idle" /\ count.deaths < MaxDeaths
  /\ col' = [ col EXCEPT ![c] = Asleep ]
  /\ count' = [ count EXCEPT !.deaths = @ + 1 ]
  /\ UNCHANGED << box, msgs, directory, lockfile, letters, late, happened >>

(* Outside: a letter arrives, and 300 seconds go by.  Those who deliver to *)
(* one box all put ^C before each letter or none does.                     *)
Has(n, tag) == Contains(letters[n], tag)
Lines(style, n) == [ i \in 1..Len(style) |-> [ tag |-> style[i], of |-> n ] ]

Deliver(style) ==
  /\ Len(letters) < MaxLetters
  /\ \A n \in 1..Len(letters) : Has(n, "^C") <=> Contains(style, "^C")
  /\ LET n == Len(letters) + 1
     IN  /\ box' = box \o Lines(style, n)
         /\ letters' = Append(letters, style)
         /\ late' = IF \E c \in Collectors : col[c].pc \in {"end", "truncate"}
                    THEN late \cup {n} ELSE late
  /\ UNCHANGED << msgs, directory, lockfile, col, count, happened >>

Wait300 ==
  /\ lockfile = "fresh"
  /\ lockfile' = "old"
  /\ UNCHANGED << box, msgs, directory, col, letters, late, count, happened >>

MailInit ==
  /\ box = << >> /\ msgs = << >> /\ directory = << >>
  /\ lockfile = "none"
  /\ col = [ c \in Collectors |-> Asleep ]
  /\ letters = << >> /\ late = {}
  /\ count = [ runs |-> 0, deaths |-> 0 ] /\ happened = {}

MailNext ==
  \/ \E c \in Collectors :
        \/ Start(c) \/ lock1(c) \/ LockGone(c) \/ LockStays(c) \/ RemoveLock(c)
        \/ Read(c) \/ Close(c) \/ Truncate(c) \/ unlock(c) \/ Dies(c)
  \/ \E style \in Styles : Deliver(style)
  \/ Wait300

MailSpec == MailInit /\ [][MailNext]_mailvars

(***************************************************************************)
(* Properties.                                                             *)
(***************************************************************************)
Kept(n)     == SelectSeq(Lines(letters[n], n), LAMBDA line : line.tag # "^C")
Header(n)   == SubSeq(letters[n], 1, IndexFirstSubSeq(<< "" >>, letters[n]))
Said(n, tags) == IF \E tag \in tags : Contains(Header(n), tag) THEN n ELSE 0
EntryOf(n, file) ==
  [ file |-> file, from |-> Said(n, {"from", "From "}), date |-> Said(n, {"date", "From "}),
    to |-> Said(n, {"to"}), subj |-> Said(n, {"subject"}) ]
ListedAs(n) == { i \in 1..Len(directory) : /\ msgs[directory[i].file] = Kept(n)
                                         /\ directory[i] = EntryOf(n, directory[i].file) }
InBox(n)  == \E i \in 0..Len(box) : IsPrefix(Lines(letters[n], n),
                                           SubSeq(box, i + 1, Len(box)))

(* Wherever collectors die, a letter is whole in the mail box or whole in  *)
(* a message file of its own, with a Directory line that says what its     *)
(* header or its "From " line says; unless it came in the window between   *)
(* a collector's last read and its creat, or two of them were in the box.  *)
(* The Directory has no line for anything but one letter, and lists none   *)
(* twice unless a collector died and left the box as it was.               *)
CollectedOnce ==
  "together" \in happened \/
  /\ \A n \in 1..Len(letters) : n \in late \/ InBox(n) \/ ListedAs(n) # {}
  /\ \A i \in 1..Len(directory) : \E n \in 1..Len(letters) : i \in ListedAs(n)
  /\ \A n \in 1..Len(letters) : Cardinality(ListedAs(n)) <= 1 + count.deaths

(* Two collectors are in the mail box at once only after a lock file was   *)
(* taken for abandoned, or was gone when lock looked how old it was.       *)
LockHolds == "together" \in happened => happened \cap {"broke", "vanished"} # {}
===============================================================================
