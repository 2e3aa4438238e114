----------------------------- MODULE FilesProofs -----------------------------
(***************************************************************************)
(* The properties of Files, for any number of buffers and files, and for   *)
(* commands begun in questions of commands to any depth.                   *)
(*                                                                         *)
(* None of them is inductive.  What they rest on is what each job on the   *)
(* stack may count on until it goes on: the file it has open is as it left *)
(* it unless another program has been there (InPlace), its buffer still has*)
(* the name that is being written, the backup is made or given up (Ready); *)
(* that nothing begun in its question writes to the file it has open       *)
(* (Apart); and how the times that buffers remember stand to the clock and *)
(* the files (Times).                                                      *)
(***************************************************************************)
EXTENDS Files, DataFacts

(***************************************************************************)
(* The invariant.                                                          *)
(***************************************************************************)
Kinds == {"write", "append", "modwrite", "checkpoint"}
Pcs   == Questions \cup {"look", "agreed", "link", "copy", "unlink", "creat", "write", "close"}
Job   == [ do : Kinds, todo : Seq(Buffers), name : Names \cup {None}, b : Buffers,
           pc : Pcs, modcnt : Nat, failed : BOOLEAN, short : BOOLEAN,
           at : Nat, met : {"nobody", "wrote", "replaced"} ]
OnDisk == [ text : Seq(Pieces), mtime : Nat ]
Buf    == [ text : Seq(Pieces), modified : Nat, modtime : Nat, fname : Files \cup {None},
            backedUp : BOOLEAN, ckpfn : Files \cup {None}, checkpointed : Nat ]
History == [ orig : [ Files -> Seq(Pieces) ], kept : SUBSET Files, foreign : SUBSET Buffers ]

Disks == [ Names -> OnDisk ]
Bufs  == [ Buffers -> Buf ]

Typed ==
  /\ disk \in Disks
  /\ buf \in Bufs
  /\ stack \in Seq(Job)
  /\ err \in BOOLEAN
  /\ clock \in Nat \ {0}
  /\ hist \in History

(* What its kind says of a job. *)
Formed(j) ==
  /\ j.name \in Names
  /\ j.do # "checkpoint" => j.name \in { The(f) : f \in Files }
  /\ j.do \in {"write", "append"} => j.todo = << >>
  /\ j.do = "checkpoint" => /\ j.modcnt > 0 /\ j.pc \in {"look", "write", "close"}
                            /\ j.met = "nobody"
  /\ j.pc \in {"ask", "agreed", "link", "copy", "unlink", "creat"} => Saves(j.do)
  /\ j.pc = "ignore" => j.do = "modwrite"

(* The file as it was is in the backup, or nothing is remembered of it. *)
Saved(f, h) == h.orig[f] = << >> \/ f \in h.kept

(* The file that a job has open, as far as no other program has been there.*)
InPlace(j, D, B, h) ==
  /\ j.pc \in {"newline", "write"} =>
       /\ j.do # "append" => j.at = 0
       /\ j.do # "append" /\ j.met = "nobody" => D[j.name].text = << >>
       /\ j.met # "replaced" => j.at <= Len(D[j.name].text)
       /\ j.do = "append" /\ j.met # "replaced" /\ ~Saved(j.name[2], h)
            => Len(h.orig[j.name[2]]) <= j.at
  /\ j.do # "append" /\ j.pc = "close" /\ ~j.short /\ j.met = "nobody"
       => D[j.name].text = B[j.b].text

Ready(j, D, B, h) ==
  /\ Formed(j)
  /\ Saves(j.do) => j.name = The(B[j.b].fname)
  /\ j.do = "checkpoint" => /\ j.name = Ckp(B[j.b].ckpfn)
                            /\ B[j.b].checkpointed < B[j.b].modified
  /\ InPlace(j, D, B, h)
  /\ Saves(j.do) /\ j.pc \in {"unlink", "newline", "write"} => Saved(j.name[2], h)
  /\ j.pc \in {"link", "copy"} => j.name[2] \notin h.kept
  /\ j.pc = "copy" => D[Bak(j.name[2])].mtime > 0

(* Nothing above a job that has its file open writes to that file. *)
AtNewline(j) == j.pc = "newline"
Apart(i, j)  == AtNewline(j) => i.do # "modwrite" /\ i.name # j.name

(* The jobs that wait, each at its question. *)
Waiting(s, D, B, h) ==
  /\ \A k \in 1..Len(s) : Ready(s[k], D, B, h) /\ s[k].pc \in Questions
  /\ \A i, k \in 1..Len(s) : i < k => Apart(s[i], s[k])

Clear(j, s) == \A k \in 1..Len(s) : Apart(j, s[k])

Stacked(s, D, B, h) ==
  s # << >> => /\ Ready(Head(s), D, B, h)
               /\ Waiting(Tail(s), D, B, h)
               /\ Clear(Head(s), Tail(s))

Begins(D, n, t) == D[n].mtime > 0 /\ IsPrefix(t, D[n].text)
Backups(D, h) ==
  \A f \in Files : h.orig[f] # << >> =>
     Begins(D, IF f \in h.kept THEN Bak(f) ELSE The(f), h.orig[f])

(* The time that b remembers of a file that somebody else has written. *)
Older(B, D) == B.fname # None => \/ D[The(B.fname)].mtime = 0
                                 \/ D[The(B.fname)].mtime > B.modtime
Times(D, B, c, h) ==
  /\ \A n \in Names : D[n].mtime <= c
  /\ \A b \in Buffers :
       /\ B[b].modtime <= c
       /\ b \in h.foreign /\ B[b].modtime # 0 => B[b].modtime < c /\ Older(B[b], D)

NoneMade(B) == \A b \in Buffers : B[b].ckpfn = None => B[b].checkpointed = 0

FilesInv ==
  /\ Typed
  /\ Stacked(stack, disk, buf, hist)
  /\ Backups(disk, hist)
  /\ Times(disk, buf, clock, hist)
  /\ NoneMade(buf)

(***************************************************************************)
(* Going on to the next buffer that is due.                                *)
(***************************************************************************)
NameOf(d, B, n) == CASE d = "checkpoint" -> Ckp(B.fname)
                     [] d = "modwrite"   -> The(B.fname)
                     [] OTHER            -> n

Taken(job, i, B, j) ==
  /\ j.do = job.do /\ j.todo = SubSeq(job.todo, i + 1, Len(job.todo))
  /\ j.b = job.todo[i] /\ j.name = NameOf(job.do, B, job.name)
  /\ j.modcnt = IF job.do = "checkpoint" THEN B.modified ELSE 0
  /\ j.pc = "look" /\ j.failed = job.failed /\ j.short = FALSE /\ j.met = job.met

Ckpfn(d, B) == IF d = "checkpoint" THEN B.fname ELSE B.ckpfn

GoesOn(job, bufs, below, i, j) ==
  LET b == job.todo[i]
  IN  /\ b \in Buffers /\ Due(job.do, bufs[b])
      /\ Taken(job, i, bufs[b], j)
      /\ stack' = << j >> \o below
      /\ buf' = [bufs EXCEPT ![b].ckpfn = Ckpfn(job.do, bufs[b])]

LEMMA ContinueChooses ==
  ASSUME NEW job, NEW bufs, NEW below, job.todo \in Seq(Buffers), Continue(job, bufs, below)
  PROVE  \/ stack' = below /\ buf' = bufs
         \/ \E i \in 1..Len(job.todo) :
              LET b == job.todo[i]
              IN  /\ Due(job.do, bufs[b])
                  /\ stack' = << [job EXCEPT !.todo = SubSeq(@, i + 1, Len(@)), !.b = b,
                                    !.name = NameOf(job.do, bufs[b], job.name),
                                    !.modcnt = IF job.do = "checkpoint" THEN bufs[b].modified ELSE 0,
                                    !.short = FALSE, !.pc = "look"] >> \o below
                  /\ buf' = [bufs EXCEPT ![b].ckpfn = IF job.do = "checkpoint" THEN bufs[b].fname ELSE @]
<1> DEFINE k == SelectInSeq(job.todo, LAMBDA b : Due(job.do, bufs[b]))
           I == { i \in 1..Len(job.todo) : Due(job.do, bufs[job.todo[i]]) }
<1>1. k = IF I # {} THEN Min(I) ELSE 0
  BY DEF SelectInSeq
<1>2. I \in SUBSET Nat
  OBVIOUS
<1>3. k = 0 \/ k \in I
  BY <1>1, <1>2, MinIsLeast
<1>4. CASE k = 0
  BY <1>4 DEF Continue
<1>5. CASE k # 0
  <2>1. k \in 1..Len(job.todo) /\ Due(job.do, bufs[job.todo[k]])
    BY <1>3, <1>5
  <2>2. /\ stack' = << [job EXCEPT !.todo = SubSeq(@, k + 1, Len(@)), !.b = job.todo[k],
                                    !.name = NameOf(job.do, bufs[job.todo[k]], job.name),
                                    !.modcnt = IF job.do = "checkpoint" THEN bufs[job.todo[k]].modified ELSE 0,
                                    !.short = FALSE, !.pc = "look"] >> \o below
        /\ buf' = [bufs EXCEPT ![job.todo[k]].ckpfn = IF job.do = "checkpoint" THEN bufs[job.todo[k]].fname ELSE @]
    BY <1>5 DEF Continue, NameOf
  <2> HIDE DEF k
  <2> QED
    BY <2>1, <2>2
<1> QED
  BY <1>4, <1>5

LEMMA ContinueShape ==
  ASSUME NEW job \in Job, NEW bufs \in Bufs, NEW below, Continue(job, bufs, below)
  PROVE  \/ stack' = below /\ buf' = bufs
         \/ \E i \in 1..Len(job.todo), j \in Job : GoesOn(job, bufs, below, i, j)
<1>1. job.todo \in Seq(Buffers) /\ job.do \in Kinds
  BY DEF Job
<1>2. CASE stack' = below /\ buf' = bufs
  BY <1>2
<1>3. CASE ~(stack' = below /\ buf' = bufs)
  <2>1. PICK i \in 1..Len(job.todo) :
          LET b == job.todo[i]
          IN  /\ Due(job.do, bufs[b])
              /\ stack' = << [job EXCEPT !.todo = SubSeq(@, i + 1, Len(@)), !.b = b,
                                !.name = NameOf(job.do, bufs[b], job.name),
                                !.modcnt = IF job.do = "checkpoint" THEN bufs[b].modified ELSE 0,
                                !.short = FALSE, !.pc = "look"] >> \o below
              /\ buf' = [bufs EXCEPT ![b].ckpfn = IF job.do = "checkpoint" THEN bufs[b].fname ELSE @]
    BY <1>1, <1>3, ContinueChooses
  <2> DEFINE b == job.todo[i]
             u == SubSeq(job.todo, i + 1, Len(job.todo))
             n == NameOf(job.do, bufs[b], job.name)
             m == IF job.do = "checkpoint" THEN bufs[b].modified ELSE 0
             j == [job EXCEPT !.todo = u, !.b = b, !.name = n, !.modcnt = m,
                              !.short = FALSE, !.pc = "look"]
  <2>2. b \in Buffers /\ u \in Seq(Buffers)
    BY <1>1
  <2>3. bufs[b] \in Buf
    BY <2>2 DEF Bufs
  <2>4. m \in Nat /\ bufs[b].fname \in Files \cup {None}
    BY <2>3 DEF Buf
  <2>5. n \in Names \cup {None}
    <3>1. CASE job.do \in {"checkpoint", "modwrite"}
      <4>1. bufs[b].fname \in Files
        BY <2>1, <2>4, <3>1 DEF Due
      <4> QED
        BY <3>1, <4>1 DEF NameOf, Names, Ckp, The
    <3>2. CASE job.do \in {"write", "append"}
      BY <3>2 DEF NameOf, Job
    <3> QED
      BY <1>1, <3>1, <3>2 DEF Kinds
  <2>6. stack' = << j >> \o below /\ Due(job.do, bufs[b])
    BY <2>1
  <2>7. buf' = [bufs EXCEPT ![b].ckpfn = Ckpfn(job.do, bufs[b])]
    BY <2>1 DEF Ckpfn
  <2> HIDE DEF u, m, n, b
  <2>8. /\ j \in Job /\ j.do = job.do /\ j.todo = u /\ j.b = b /\ j.name = n /\ j.modcnt = m
        /\ j.pc = "look" /\ j.failed = job.failed /\ j.short = FALSE /\ j.met = job.met
    BY <2>2, <2>4, <2>5 DEF Job, Pcs
  <2> HIDE DEF j
  <2>9. Taken(job, i, bufs[b], j)
    BY <2>8 DEF Taken, u, m, n, b
  <2> QED
    BY <2>2, <2>6, <2>7, <2>8, <2>9 DEF b, GoesOn
<1> QED
  BY <1>2, <1>3

(* What is remembered of a file stays, until the file is in its backup, or *)
(* forgotten.                                                              *)
Remembers(h, h2) ==
  \A f \in Files : Saved(f, h2) \/ (~Saved(f, h) /\ h2.orig[f] = h.orig[f])

(* A job that waits counts on nothing but its name, the file that it has   *)
(* open, and a backup that stays.                                          *)
LEMMA WaitingKept ==
  ASSUME NEW s \in Seq(Job), NEW D, NEW B, NEW h, NEW D2, NEW B2, NEW h2,
         Waiting(s, D, B, h),
         \A k \in 1..Len(s) : Saves(s[k].do) => B2[s[k].b].fname = B[s[k].b].fname,
         \A k \in 1..Len(s) : AtNewline(s[k]) => D2[s[k].name].text = D[s[k].name].text,
         Remembers(h, h2)
  PROVE  Waiting(s, D2, B2, h2)
<1> SUFFICES ASSUME NEW k \in 1..Len(s) PROVE Ready(s[k], D2, B2, h2)
  BY DEF Waiting
<1>1. Ready(s[k], D, B, h) /\ s[k].pc \in Questions
  BY DEF Waiting
<1>a. s[k] \in Job
  OBVIOUS
<1>2. s[k].do \in Kinds
  BY <1>a DEF Job
<1>3. s[k].do # "checkpoint" /\ s[k].name \in { The(f) : f \in Files }
  BY <1>1 DEF Ready, Formed, Questions
<1>4. s[k].name[2] \in Files
  BY <1>3 DEF The
<1>5. LET f == s[k].name[2]
      IN  /\ Saved(f, h) => Saved(f, h2)
          /\ ~Saved(f, h2) => ~Saved(f, h) /\ h2.orig[f] = h.orig[f]
  BY <1>4 DEF Remembers
<1>6. AtNewline(s[k]) => D2[s[k].name].text = D[s[k].name].text
  OBVIOUS
<1>7. InPlace(s[k], D2, B2, h2)
  BY <1>1, <1>5, <1>6, <1>3 DEF Ready, InPlace, AtNewline, Questions
<1> HIDE DEF Saved, InPlace
<1> QED
  BY <1>1, <1>3, <1>5, <1>7 DEF Ready, Questions

LEMMA WaitingStacked ==
  ASSUME NEW s \in Seq(Job), NEW D, NEW B, NEW h, Waiting(s, D, B, h)
  PROVE  Stacked(s, D, B, h)
<1> SUFFICES ASSUME s # << >>
             PROVE  /\ Ready(Head(s), D, B, h)
                    /\ Waiting(Tail(s), D, B, h)
                    /\ Clear(Head(s), Tail(s))
  BY DEF Stacked
<1> USE Popped
<1>1. Head(s) = s[1] /\ Len(s) = Len(Tail(s)) + 1 /\ Len(Tail(s)) \in Nat
  OBVIOUS
<1>2. \A i \in 1..Len(Tail(s)) : Tail(s)[i] = s[i + 1]
  OBVIOUS
<1>3. 1 \in 1..Len(s) /\ \A i \in 1..Len(Tail(s)) : i + 1 \in 1..Len(s)
  BY <1>1
<1>4. \A i, k \in 1..Len(Tail(s)) : i < k => i + 1 < k + 1
  BY <1>1
<1>5. \A k \in 1..Len(Tail(s)) : 1 < k + 1
  BY <1>1
<1> HIDE DEF Ready, Apart
<1>6. Waiting(Tail(s), D, B, h)
  <2>1. \A k \in 1..Len(Tail(s)) : Ready(Tail(s)[k], D, B, h) /\ Tail(s)[k].pc \in Questions
    BY <1>2, <1>3 DEF Waiting
  <2>2. \A i, k \in 1..Len(Tail(s)) : i < k => Apart(Tail(s)[i], Tail(s)[k])
    BY <1>2, <1>3, <1>4 DEF Waiting
  <2> QED
    BY <2>1, <2>2 DEF Waiting
<1>7. Clear(Head(s), Tail(s))
  BY <1>1, <1>2, <1>3, <1>5 DEF Waiting, Clear
<1> QED
  BY <1>1, <1>3, <1>6, <1>7 DEF Waiting

(* At the keyboard, or at a question, the whole stack waits. *)
LEMMA StackedWaiting ==
  ASSUME NEW s \in Seq(Job), NEW D, NEW B, NEW h, Stacked(s, D, B, h),
         s # << >> => Head(s).pc \in Questions
  PROVE  Waiting(s, D, B, h)
<1>1. CASE s = << >>
  BY <1>1 DEF Waiting
<1>2. CASE s # << >>
  <2> USE Popped
  <2> DEFINE r == Tail(s)
  <2>1. Head(s) = s[1] /\ Len(s) = Len(r) + 1 /\ Len(r) \in Nat
    BY <1>2
  <2>2. \A i \in 1..Len(r) : r[i] = s[i + 1]
    BY <1>2
  <2> HIDE DEF Ready, Apart, r
  <2>3. Waiting(r, D, B, h) /\ Clear(s[1], r) /\ Ready(s[1], D, B, h) /\ s[1].pc \in Questions
    BY <1>2, <2>1 DEF Stacked, r
  <2>4. \A i \in 1..Len(s) : i = 1 \/ (i - 1 \in 1..Len(r) /\ s[i] = r[i - 1])
    <3> TAKE i \in 1..Len(s)
    <3> SUFFICES ASSUME i # 1 PROVE i - 1 \in 1..Len(r) /\ s[i] = r[i - 1]
      OBVIOUS
    <3>1. i - 1 \in 1..Len(r) /\ (i - 1) + 1 = i
      BY <2>1
    <3> QED
      BY <2>2, <3>1
  <2>5. \A k \in 1..Len(s) : Ready(s[k], D, B, h) /\ s[k].pc \in Questions
    BY <2>3, <2>4 DEF Waiting
  <2>6. \A i, k \in 1..Len(s) : i < k => Apart(s[i], s[k])
    <3> TAKE i, k \in 1..Len(s)
    <3> HAVE i < k
    <3>1. k # 1 /\ k - 1 \in 1..Len(r) /\ s[k] = r[k - 1]
      BY <2>1, <2>4
    <3>2. CASE i = 1
      BY <2>3, <3>1, <3>2 DEF Clear
    <3>3. CASE i # 1
      <4>1. i - 1 \in 1..Len(r) /\ s[i] = r[i - 1]
        BY <2>4, <3>3
      <4>2. i - 1 < k - 1
        BY <2>1
      <4> QED
        BY <2>3, <3>1, <4>1, <4>2 DEF Waiting
    <3> QED
      BY <3>2, <3>3
  <2> QED
    BY <2>5, <2>6 DEF Waiting
<1> QED
  BY <1>1, <1>2

LEMMA NameFacts ==
  /\ \A f \in Files : The(f) \in Names /\ Bak(f) \in Names /\ Ckp(f) \in Names
  /\ \A f : The(f)[2] = f
  /\ \A f, g : The(f) # Bak(g) /\ The(f) # Ckp(g) /\ Bak(f) # Ckp(g)
  /\ \A f, g : (The(f) = The(g) \/ Bak(f) = Bak(g) \/ Ckp(f) = Ckp(g)) => f = g
BY DEF The, Bak, Ckp, Names

LEMMA BufsFacts ==
  ASSUME NEW B \in Bufs, NEW b \in Buffers
  PROVE  /\ B[b] \in Buf
         /\ B[b].text \in Seq(Pieces) /\ B[b].modified \in Nat /\ B[b].modtime \in Nat
         /\ B[b].fname \in Files \cup {None} /\ B[b].backedUp \in BOOLEAN
         /\ B[b].ckpfn \in Files \cup {None} /\ B[b].checkpointed \in Nat
<1>1. B[b] \in Buf
  BY DEF Bufs
<1> QED
  BY <1>1 DEF Buf

(* What Continue does to a buffer. *)
OnlyCkpfn(B, B2) ==
  \A b \in Buffers :
    /\ B2[b].text = B[b].text /\ B2[b].modified = B[b].modified
    /\ B2[b].modtime = B[b].modtime /\ B2[b].fname = B[b].fname
    /\ B2[b].backedUp = B[b].backedUp /\ B2[b].checkpointed = B[b].checkpointed
    /\ B2[b].ckpfn # B[b].ckpfn => B[b].checkpointed < B[b].modified /\ B2[b].ckpfn # None

LEMMA CkpfnChanged ==
  ASSUME NEW B \in Bufs, NEW b \in Buffers, NEW f \in Files \cup {None},
         f # B[b].ckpfn => f # None /\ B[b].checkpointed < B[b].modified,
         NoneMade(B)
  PROVE  LET B2 == [B EXCEPT ![b].ckpfn = f]
         IN  B2 \in Bufs /\ OnlyCkpfn(B, B2) /\ NoneMade(B2) /\ B2[b].ckpfn = f
<1> DEFINE B2 == [B EXCEPT ![b].ckpfn = f]
<1>1. B[b] \in Buf /\ \A c \in Buffers : B[c] \in Buf
  BY BufsFacts
<1>2. B2 \in Bufs /\ B2[b] = [B[b] EXCEPT !.ckpfn = f] /\ \A c \in Buffers \ {b} : B2[c] = B[c]
  BY <1>1 DEF Bufs, Buf
<1>3. /\ B2[b].text = B[b].text /\ B2[b].modified = B[b].modified
      /\ B2[b].modtime = B[b].modtime /\ B2[b].fname = B[b].fname
      /\ B2[b].backedUp = B[b].backedUp /\ B2[b].checkpointed = B[b].checkpointed
      /\ B2[b].ckpfn = f
  BY <1>1, <1>2 DEF Buf
<1> HIDE DEF B2
<1>4. OnlyCkpfn(B, B2)
  BY <1>2, <1>3 DEF OnlyCkpfn
<1>5. NoneMade(B2)
  BY <1>2, <1>3, ZenonT(40) DEF NoneMade
<1> QED
  BY <1>2, <1>3, <1>4, <1>5 DEF B2

(* What keeps a job and those below it out of each other's files. *)
MayGoOn(job, bufs, below) ==
  /\ job.do \in {"write", "append"} =>
       /\ job.name \in { The(f) : f \in Files }
       /\ Len(job.todo) <= 1
       /\ \A i \in 1..Len(job.todo), k \in 1..Len(below) :
            AtNewline(below[k]) => below[k].name # job.name
  /\ job.do = "write" => \A i \in 1..Len(job.todo) : job.name = The(bufs[job.todo[i]].fname)
  /\ job.do = "modwrite" => \A k \in 1..Len(below) : ~AtNewline(below[k])
  /\ job.do = "checkpoint" => job.met = "nobody"

(* Whatever Continue goes on to may count on what a new job counts on. *)
LEMMA ContinueKeeps ==
  ASSUME NEW job \in Job, NEW bufs \in Bufs, NEW below \in Seq(Job), NEW D, NEW h,
         Continue(job, bufs, below), Waiting(below, D, bufs, h), NoneMade(bufs),
         MayGoOn(job, bufs, below)
  PROVE  /\ stack' \in Seq(Job) /\ buf' \in Bufs
         /\ NoneMade(buf') /\ OnlyCkpfn(bufs, buf')
         /\ Stacked(stack', D, buf', h)
<1>1. CASE stack' = below /\ buf' = bufs
  BY <1>1, WaitingStacked DEF OnlyCkpfn
<1>2. CASE ~(stack' = below /\ buf' = bufs)
  <2>0. PICK i \in 1..Len(job.todo), j \in Job : GoesOn(job, bufs, below, i, j)
    BY <1>2, ContinueShape
  <2> DEFINE b == job.todo[i]
             B == bufs[b]
             f == Ckpfn(job.do, B)
  <2>1. /\ b \in Buffers /\ Due(job.do, B) /\ Taken(job, i, B, j) /\ stack' = << j >> \o below
        /\ buf' = [bufs EXCEPT ![b].ckpfn = f]
    BY <2>0 DEF GoesOn
  <2>2. b \in Buffers /\ job.do \in Kinds /\ job.todo \in Seq(Buffers)
    BY <2>1 DEF Job
  <2>3. f \in Files \cup {None} /\ (f # B.ckpfn => f # None /\ B.checkpointed < B.modified)
    BY <2>1, <2>2, BufsFacts DEF Ckpfn, Due
  <2> HIDE DEF f
  <2>4. /\ buf' \in Bufs /\ OnlyCkpfn(bufs, buf') /\ NoneMade(buf') /\ buf'[b].ckpfn = f
    BY <2>1, <2>2, <2>3, CkpfnChanged
  <2> USE DEF f
  <2>5. j.do = job.do /\ j.b = b /\ j.pc = "look" /\ j.name = NameOf(job.do, B, job.name)
    BY <2>1 DEF Taken
  <2>6. /\ j.do = "checkpoint" => B.fname \in Files /\ B.checkpointed < B.modified /\ j.modcnt = B.modified
        /\ j.do = "modwrite" => B.fname \in Files
    BY <2>1, <2>2, <2>5, BufsFacts DEF Due, Taken
  <2>7. Ready(j, D, buf', h)
    <3>1. Formed(j)
      <4>1. j.do # "checkpoint" => j.name \in { The(x) : x \in Files }
        BY <2>2, <2>5, <2>6 DEF NameOf, Kinds, MayGoOn
      <4>2. j.do = "checkpoint" => j.name = Ckp(B.fname) /\ j.modcnt > 0 /\ j.met = "nobody"
        BY <2>1, <2>2, <2>5, <2>6, BufsFacts DEF NameOf, MayGoOn, Taken
      <4>3. j.do \in {"write", "append"} => j.todo = << >>
        <5> SUFFICES ASSUME j.do \in {"write", "append"} PROVE j.todo = << >>
          OBVIOUS
        <5>a. Len(job.todo) <= 1 /\ Len(job.todo) \in Nat
          BY <2>2, <2>5 DEF MayGoOn
        <5>b. \A n \in Nat : n <= 1 => \A q \in 1..n : n = 1 /\ q = 1
          OBVIOUS
        <5>1. Len(job.todo) = 1 /\ i = 1
          BY <5>a, <5>b, ZenonT(30)
        <5>2. j.todo = SubSeq(job.todo, 2, 1)
          BY <2>1, <5>1 DEF Taken
        <5> QED
          BY <5>2, SubSeqEmpty
      <4>4. j.name \in Names
        BY <2>6, <4>1, <4>2, NameFacts
      <4> QED
        BY <2>5, <4>1, <4>2, <4>3, <4>4 DEF Formed
    <3>2. Saves(j.do) => j.name = The(buf'[j.b].fname)
      BY <2>2, <2>4, <2>5 DEF Saves, NameOf, OnlyCkpfn, MayGoOn
    <3>3. j.do = "checkpoint" => /\ j.name = Ckp(buf'[j.b].ckpfn)
                                 /\ buf'[j.b].checkpointed < buf'[j.b].modified
      BY <2>2, <2>4, <2>5, <2>6 DEF NameOf, OnlyCkpfn, Ckpfn
    <3> QED
      BY <2>5, <3>1, <3>2, <3>3 DEF Ready, InPlace
  <2>8. Waiting(below, D, buf', h)
    <3>1. \A k \in 1..Len(below) : below[k].b \in Buffers
      <4> TAKE k \in 1..Len(below)
      <4>1. below[k] \in Job
        OBVIOUS
      <4> QED
        BY <4>1 DEF Job
    <3>2. \A k \in 1..Len(below) : buf'[below[k].b].fname = bufs[below[k].b].fname
      BY <3>1, <2>4 DEF OnlyCkpfn
    <3>3. Remembers(h, h)
      BY DEF Remembers
    <3> QED
      BY <3>2, <3>3, WaitingKept
  <2>9. Clear(j, below)
    <3> SUFFICES ASSUME NEW k \in 1..Len(below), AtNewline(below[k])
                 PROVE  j.do # "modwrite" /\ j.name # below[k].name
      BY DEF Clear, Apart
    <3>1. below[k].name \in { The(x) : x \in Files }
      BY DEF Waiting, Ready, Formed, AtNewline
    <3> QED
      BY <2>2, <2>5, <2>6, <3>1, NameFacts DEF NameOf, Kinds, MayGoOn
  <2>10. stack' \in Seq(Job) /\ stack' # << >> /\ Head(stack') = j /\ Tail(stack') = below
    BY <2>1, Pushed
  <2> QED
    BY <2>4, <2>7, <2>8, <2>9, <2>10 DEF Stacked
<1> QED
  BY <1>1, <1>2

(***************************************************************************)
(* What a step leaves alone.                                               *)
(***************************************************************************)
LEMMA TimesKept ==
  ASSUME NEW D \in Disks, NEW B \in Bufs, NEW c \in Nat, NEW h, Times(D, B, c, h),
         NEW D2, NEW B2, NEW c2 \in Nat, NEW h2, c <= c2,
         \A n \in Names : D2[n].mtime <= c2,
         \A f \in Files : D2[The(f)].mtime \in { 0, c2, D[The(f)].mtime },
         \A b \in Buffers : B2[b].modtime <= c2,
         \A b \in Buffers : b \in h2.foreign /\ B2[b].modtime # 0 =>
           b \in h.foreign /\ B2[b].modtime = B[b].modtime /\ B2[b].fname = B[b].fname
  PROVE  Times(D2, B2, c2, h2)
<1> SUFFICES ASSUME NEW b \in Buffers, b \in h2.foreign, B2[b].modtime # 0
             PROVE  B2[b].modtime < c2 /\ Older(B2[b], D2)
  BY DEF Times
<1> DEFINE f == B[b].fname
           m == B[b].modtime
<1>1. b \in h.foreign /\ B2[b].modtime = m /\ B2[b].fname = f
  OBVIOUS
<1>2. m \in Nat /\ f \in Files \cup {None}
  BY BufsFacts
<1>3. m < c /\ Older(B[b], D)
  BY <1>1 DEF Times
<1> HIDE DEF m
<1>4. ASSUME f # None
      PROVE  D2[The(f)].mtime = 0 \/ D2[The(f)].mtime > m
  <2>1. f \in Files
    BY <1>2, <1>4
  <2>2. D[The(f)].mtime = 0 \/ D[The(f)].mtime > m
    BY <1>3, <1>4 DEF Older, m
  <2>3. D2[The(f)].mtime = 0 \/ D2[The(f)].mtime = c2 \/ D2[The(f)].mtime = D[The(f)].mtime
    BY <2>1
  <2>4. c2 > m
    BY <1>2, <1>3
  <2> QED
    BY <2>2, <2>3, <2>4
<1> QED
  BY <1>1, <1>2, <1>3, <1>4 DEF Older

LEMMA BackupsKept ==
  ASSUME NEW D, NEW h, Backups(D, h), NEW D2, NEW h2,
         \A f \in Files : h2.orig[f] # << >> =>
           /\ h2.orig[f] = h.orig[f]
           /\ f \in h2.kept <=> f \in h.kept
           /\ f \in h.kept => D2[Bak(f)] = D[Bak(f)]
           /\ f \notin h.kept => D2[The(f)] = D[The(f)]
  PROVE  Backups(D2, h2)
BY DEF Backups, Begins

LEMMA DisksFacts ==
  ASSUME NEW D \in Disks, NEW n \in Names
  PROVE  D[n] \in OnDisk /\ D[n].text \in Seq(Pieces) /\ D[n].mtime \in Nat
<1>1. D[n] \in OnDisk
  BY DEF Disks
<1> QED
  BY <1>1 DEF OnDisk

LEMMA TopFacts ==
  ASSUME FilesInv, stack # << >>
  PROVE  /\ J \in Job /\ Tail(stack) \in Seq(Job) /\ J.b \in Buffers
         /\ Ready(J, disk, buf, hist)
         /\ Waiting(Tail(stack), disk, buf, hist)
         /\ Clear(J, Tail(stack))
<1>1. J \in Job /\ Tail(stack) \in Seq(Job)
  BY Popped DEF FilesInv, Typed, J
<1>2. J.b \in Buffers
  BY <1>1 DEF Job
<1> QED
  BY <1>1, <1>2 DEF FilesInv, Stacked, J

(***************************************************************************)
(* Commands that write nothing.                                            *)
(***************************************************************************)
Replaced(b, R) == buf' = [buf EXCEPT ![b] = R]

LEMMA CommandKeeps ==
  ASSUME FilesInv, Command, UNCHANGED disk, NEW b \in Buffers, NEW R \in Buf, Replaced(b, R),
         R.ckpfn = None => R.checkpointed = 0,
         Waits(b) => R.fname = buf[b].fname,
         R.modtime <= clock,
         hist' = Seen(b) \/ (hist' = hist /\ (R.modtime = 0 \/ (R.modtime = buf[b].modtime /\ R.fname = buf[b].fname)))
  PROVE  FilesInv'
<1>1. disk \in Disks /\ buf \in Bufs /\ stack \in Seq(Job) /\ clock \in Nat \ {0} /\ hist \in History
  BY DEF FilesInv, Typed
<1>2. stack' = stack /\ clock' = clock /\ err' = FALSE /\ disk' = disk
  BY DEF Command
<1>3. buf' \in Bufs /\ buf'[b] = R /\ \A c \in Buffers \ {b} : buf'[c] = buf[c]
  BY <1>1 DEF Bufs, Replaced
<1>4. hist' \in History /\ hist'.orig = hist.orig /\ hist'.kept = hist.kept
      /\ hist'.foreign \subseteq hist.foreign
  BY <1>1 DEF Seen, History
<1>a. \/ b \notin hist'.foreign
      \/ R.modtime = 0
      \/ R.modtime = buf[b].modtime /\ R.fname = buf[b].fname
  BY <1>1 DEF Seen, History
<1>5. Typed'
  BY <1>1, <1>2, <1>3, <1>4 DEF Typed
<1>6. Stacked(stack', disk', buf', hist')
  <2>1. Waiting(stack, disk, buf, hist)
    <3>1. stack # << >> => Head(stack).pc \in Questions
      BY DEF Command, AtKeyboard, J
    <3> QED
      BY <1>1, <3>1, StackedWaiting DEF FilesInv
  <2>2. \A k \in 1..Len(stack) : Saves(stack[k].do) => buf'[stack[k].b].fname = buf[stack[k].b].fname
    <3> TAKE k \in 1..Len(stack)
    <3>1. stack[k] \in Job /\ k \in DOMAIN stack
      BY <1>1
    <3>2. stack[k].b \in Buffers /\ stack[k].pc \in Questions
      BY <2>1, <3>1 DEF Job, Waiting
    <3>3. stack[k].b = b => Waits(b)
      BY <3>1, <3>2 DEF Waits
    <3> QED
      BY <1>3, <3>2, <3>3
  <2>3. Remembers(hist, hist')
    BY <1>4 DEF Saved, Remembers
  <2>4. Waiting(stack', disk', buf', hist')
    BY <1>1, <1>2, <2>1, <2>2, <2>3, WaitingKept
  <2> QED
    BY <1>1, <1>2, <2>4, WaitingStacked
<1>7. Backups(disk', hist')
  BY <1>2, <1>4, BackupsKept DEF FilesInv
<1>8. Times(disk', buf', clock', hist')
  <2>1. \A n \in Names : disk'[n].mtime <= clock'
    BY <1>2 DEF FilesInv, Times
  <2>2. \A c \in Buffers : buf'[c].modtime <= clock'
    BY <1>2, <1>3 DEF FilesInv, Times
  <2>3. \A f \in Files : disk'[The(f)].mtime \in { 0, clock', disk[The(f)].mtime }
    BY <1>2
  <2>4. \A c \in Buffers : c \in hist'.foreign /\ buf'[c].modtime # 0 =>
          c \in hist.foreign /\ buf'[c].modtime = buf[c].modtime /\ buf'[c].fname = buf[c].fname
    <3> TAKE c \in Buffers
    <3>1. CASE c = b
      BY <1>3, <1>4, <1>a, <3>1
    <3>2. CASE c # b
      BY <1>3, <1>4, <3>2
    <3> QED
      BY <3>1, <3>2
  <2>5. Times(disk, buf, clock, hist)
    BY DEF FilesInv
  <2>6. clock' \in Nat /\ clock \in Nat /\ clock <= clock'
    BY <1>1, <1>2
  <2> QED
    BY <1>1, <2>1, <2>2, <2>3, <2>4, <2>5, <2>6, TimesKept, ZenonT(40)
<1>9. NoneMade(buf')
  BY <1>3 DEF NoneMade, FilesInv
<1> QED
  BY <1>5, <1>6, <1>7, <1>8, <1>9 DEF FilesInv

WithText(B, t, m) == [B EXCEPT !.text = t, !.modified = m]

LEMMA WithTextFacts ==
  ASSUME NEW B \in Buf, NEW t \in Seq(Pieces), NEW m \in Nat
  PROVE  LET R == WithText(B, t, m)
         IN  /\ R \in Buf /\ R.text = t /\ R.modified = m
             /\ R.modtime = B.modtime /\ R.fname = B.fname /\ R.backedUp = B.backedUp
             /\ R.ckpfn = B.ckpfn /\ R.checkpointed = B.checkpointed
BY DEF Buf, WithText

LEMMA EditedShape ==
  ASSUME buf \in Bufs, NEW b \in Buffers, NEW B2 \in Edited(b)
  PROVE  /\ B2 \in Bufs
         /\ \A c \in Buffers \ {b} : B2[c] = buf[c]
         /\ B2 = [buf EXCEPT ![b] = B2[b]]
         /\ B2[b].modified = buf[b].modified + 1
         /\ B2[b].modtime = buf[b].modtime /\ B2[b].fname = buf[b].fname
         /\ B2[b].backedUp = buf[b].backedUp /\ B2[b].ckpfn = buf[b].ckpfn
         /\ B2[b].checkpointed = buf[b].checkpointed
<1>1. PICK p \in Pieces : B2 = [buf EXCEPT ![b].text = << p >>, ![b].modified = @ + 1]
  BY DEF Edited, Unused
<1>2. buf[b] \in Buf /\ buf[b].modified \in Nat
  BY BufsFacts
<1> DEFINE t == << p >>
           m == buf[b].modified + 1
           R == WithText(buf[b], t, m)
<1>3. t \in Seq(Pieces) /\ m \in Nat
  BY <1>2
<1> HIDE DEF t, m
<1>4. /\ R \in Buf /\ R.modified = m
      /\ R.modtime = buf[b].modtime /\ R.fname = buf[b].fname
      /\ R.backedUp = buf[b].backedUp /\ R.ckpfn = buf[b].ckpfn
      /\ R.checkpointed = buf[b].checkpointed
  BY <1>2, <1>3, WithTextFacts, SMTT(40)
<1>5. B2 = [buf EXCEPT ![b] = R]
  BY <1>1 DEF Bufs, WithText, t, m
<1> HIDE DEF R
<1>6. B2 \in Bufs /\ B2[b] = R /\ \A c \in Buffers \ {b} : B2[c] = buf[c]
  BY <1>4, <1>5 DEF Bufs
<1> QED
  BY <1>4, <1>5, <1>6 DEF m

LEMMA EditKeeps ==
  ASSUME FilesInv, NEW b \in Buffers, Edit(b)
  PROVE  FilesInv'
<1>1. buf \in Bufs /\ NoneMade(buf) /\ Times(disk, buf, clock, hist)
  BY DEF FilesInv, Typed
<1>2. buf' \in Edited(b) /\ Command /\ UNCHANGED disk /\ hist' = hist
  BY DEF Edit
<1> DEFINE R == buf'[b]
<1>3. /\ buf' \in Bufs /\ buf' = [buf EXCEPT ![b] = R]
      /\ R.modtime = buf[b].modtime /\ R.fname = buf[b].fname
      /\ R.ckpfn = buf[b].ckpfn /\ R.checkpointed = buf[b].checkpointed
  BY <1>1, <1>2, EditedShape
<1>4. R \in Buf
  BY <1>3, BufsFacts
<1>5. (R.ckpfn = None => R.checkpointed = 0) /\ R.modtime <= clock
  BY <1>1, <1>3 DEF NoneMade, Times
<1> HIDE DEF R
<1>6. Replaced(b, R)
  BY <1>3 DEF Replaced
<1> QED
  BY <1>2, <1>3, <1>4, <1>5, <1>6, CommandKeeps

LEMMA EraseBufferKeeps ==
  ASSUME FilesInv, NEW b \in Buffers, EraseBuffer(b)
  PROVE  FilesInv'
<1>1. buf \in Bufs /\ NoneMade(buf) /\ Times(disk, buf, clock, hist)
  BY DEF FilesInv, Typed
<1> DEFINE R == WithText(buf[b], << >>, 0)
<1>2. Command /\ UNCHANGED disk /\ hist' = hist
  BY DEF EraseBuffer
<1>3. buf[b] \in Buf
  BY <1>1, BufsFacts
<1>4. /\ R \in Buf /\ R.modtime = buf[b].modtime /\ R.fname = buf[b].fname
      /\ R.ckpfn = buf[b].ckpfn /\ R.checkpointed = buf[b].checkpointed
  <2>1. << >> \in Seq(Pieces) /\ 0 \in Nat
    OBVIOUS
  <2> QED
    BY <1>3, <2>1, WithTextFacts, ZenonT(40)
<1>5. Replaced(b, R)
  BY <1>1 DEF EraseBuffer, Replaced, Bufs, WithText
<1> HIDE DEF R
<1>6. (R.ckpfn = None => R.checkpointed = 0) /\ R.modtime <= clock
  BY <1>1, <1>4 DEF NoneMade, Times
<1> QED
  BY <1>2, <1>4, <1>5, <1>6, CommandKeeps

(* A new name: no checkpoint file any more, and none is believed in. *)
LEMMA RenamedFacts ==
  ASSUME NEW B \in Buf, NEW f \in Files \cup {None}, B.ckpfn = None => B.checkpointed = 0
  PROVE  /\ Renamed(B, f) \in Buf
         /\ Renamed(B, f).fname = f /\ Renamed(B, f).ckpfn = None /\ Renamed(B, f).checkpointed = 0
         /\ Renamed(B, f).text = B.text /\ Renamed(B, f).modified = B.modified
         /\ Renamed(B, f).modtime = B.modtime /\ Renamed(B, f).backedUp = B.backedUp
BY DEF Renamed, Buf

LEMMA ReadFacts ==
  ASSUME disk \in Disks, NEW B \in Buf, NEW f \in Files, NEW k, Readable(f, k),
         B.ckpfn = None => B.checkpointed = 0
  PROVE  /\ Read(B, f, k) \in Buf
         /\ Read(B, f, k).fname = f /\ Read(B, f, k).ckpfn = None /\ Read(B, f, k).checkpointed = 0
         /\ Read(B, f, k).modified = 0 /\ Read(B, f, k).modtime = disk[The(f)].mtime
         /\ \/ Read(B, f, k).text = disk[The(f)].text
            \/ Len(Read(B, f, k).text) < Len(disk[The(f)].text)
<1> DEFINE R == Renamed(B, f)
           t == disk[The(f)].text
           u == SubSeq(t, 1, k)
<1>1. R \in Buf /\ R.fname = f /\ R.ckpfn = None /\ R.checkpointed = 0
  BY RenamedFacts
<1>2. t \in Seq(Pieces) /\ disk[The(f)].mtime \in Nat /\ k \in 0..Len(t)
  BY NameFacts, DisksFacts DEF Readable
<1>3. u \in Seq(Pieces) /\ (u = t \/ Len(u) < Len(t))
  <2> HIDE DEF t
  <2>1. u \in Seq(Pieces) /\ Len(u) = k
    BY <1>2
  <2>2. k = Len(t) => u = t
    BY <1>2
  <2> QED
    BY <1>2, <2>1, <2>2
<1>4. Read(B, f, k) = [R EXCEPT !.text = u, !.modified = 0, !.modtime = disk[The(f)].mtime]
  BY DEF Read
<1> HIDE DEF R, u
<1> QED
  BY <1>1, <1>2, <1>3, <1>4 DEF Buf

(* No room: as if the buffer were erased. *)
LEMMA NoRoomFacts ==
  ASSUME NEW B \in Buf
  PROVE  /\ NoRoom(B) \in Buf /\ NoRoom(B).text = << >> /\ NoRoom(B).modified = 0
         /\ NoRoom(B).modtime = B.modtime /\ NoRoom(B).fname = B.fname
         /\ NoRoom(B).ckpfn = B.ckpfn /\ NoRoom(B).checkpointed = B.checkpointed
<1> DEFINE R == WithText(B, << >>, 0)
<1>1. NoRoom(B) = R
  BY DEF NoRoom, WithText
<1>2. << >> \in Seq(Pieces) /\ 0 \in Nat
  OBVIOUS
<1>3. /\ R \in Buf /\ R.text = << >> /\ R.modified = 0
      /\ R.modtime = B.modtime /\ R.fname = B.fname
      /\ R.ckpfn = B.ckpfn /\ R.checkpointed = B.checkpointed
  BY <1>2, WithTextFacts, ZenonT(40)
<1> HIDE DEF R
<1> QED
  BY <1>1, <1>3

(* What read-file does: all of the file, a part of it, or nothing. *)
LEMMA ReadFileShape ==
  ASSUME NEW b \in Buffers, NEW f \in Files, ReadFile(b, f), buf \in Bufs
  PROVE  /\ Command /\ ~Waits(b) /\ UNCHANGED disk
         /\ \/ \E k : Readable(f, k) /\ Replaced(b, Read(buf[b], f, k)) /\ hist' = Seen(b)
            \/ /\ Readable(f, 1) /\ Replaced(b, NoRoom(buf[b])) /\ hist' = hist
               /\ EraseBuffer(b)
<1>1. Command /\ ~Waits(b) /\ UNCHANGED disk
  BY DEF ReadFile
<1>2. CASE \E k \in 0..MaxText : /\ Readable(f, k) /\ buf' = [buf EXCEPT ![b] = Read(@, f, k)]
                                 /\ hist' = Seen(b)
  BY <1>1, <1>2 DEF Replaced
<1>3. CASE Readable(f, 1) /\ buf' = [buf EXCEPT ![b] = NoRoom(@)] /\ UNCHANGED hist
  <2>1. buf' = [buf EXCEPT ![b].text = << >>, ![b].modified = 0]
    BY <1>3 DEF NoRoom, Bufs
  <2> QED
    BY <1>1, <1>3, <2>1 DEF Replaced, EraseBuffer
<1> QED
  BY <1>1, <1>2, <1>3 DEF ReadFile

LEMMA ReadFileKeeps ==
  ASSUME FilesInv, NEW b \in Buffers, NEW f \in Files, ReadFile(b, f)
  PROVE  FilesInv'
<1>1. disk \in Disks /\ buf \in Bufs /\ NoneMade(buf) /\ Times(disk, buf, clock, hist)
  BY DEF FilesInv, Typed
<1>2. buf[b] \in Buf /\ (buf[b].ckpfn = None => buf[b].checkpointed = 0)
  BY <1>1, BufsFacts DEF NoneMade
<1>3. CASE \E k : Readable(f, k) /\ Replaced(b, Read(buf[b], f, k)) /\ hist' = Seen(b)
  <2>1. PICK k : Readable(f, k) /\ Replaced(b, Read(buf[b], f, k)) /\ hist' = Seen(b)
    BY <1>3
  <2> DEFINE R == Read(buf[b], f, k)
  <2>2. R \in Buf /\ R.checkpointed = 0 /\ R.modtime = disk[The(f)].mtime
    BY <1>1, <1>2, <2>1, ReadFacts
  <2>3. R.modtime <= clock
    BY <1>1, <2>2, NameFacts DEF Times
  <2>4. Replaced(b, R) /\ Command /\ ~Waits(b) /\ UNCHANGED disk
    BY <1>1, <2>1, ReadFileShape
  <2> HIDE DEF R
  <2> QED
    BY <2>1, <2>2, <2>3, <2>4, CommandKeeps
<1>4. CASE EraseBuffer(b)
  BY <1>4, EraseBufferKeeps
<1> QED
  BY <1>1, <1>3, <1>4, ReadFileShape

(* What visit-file does: it reads, or keeps the text, and takes the name.  *)
Named(B, f) == [B EXCEPT !.fname = f, !.ckpfn = None, !.checkpointed = 0]

LEMMA NamedFacts ==
  ASSUME NEW B \in Buf, NEW f \in Files
  PROVE  /\ Named(B, f) \in Buf /\ Named(B, f).fname = f /\ Named(B, f).checkpointed = 0
         /\ Named(B, f).text = B.text /\ Named(B, f).modified = B.modified
         /\ Named(B, f).modtime = B.modtime
BY DEF Buf, Named

LEMMA VisitFileShape ==
  ASSUME NEW b \in Buffers, NEW f \in Files, VisitFile(b, f), disk \in Disks, buf[b] \in Buf,
         buf[b].ckpfn = None => buf[b].checkpointed = 0
  PROVE  /\ Command /\ ~Waits(b) /\ UNCHANGED disk /\ hist' = Seen(b)
         /\ \E B \in Buf :
              /\ Replaced(b, Named(B, f))
              /\ B.modtime \in { disk[The(f)].mtime, buf[b].modtime }
              /\ \/ B.text = disk[The(f)].text
                 \/ Len(B.text) < Len(disk[The(f)].text)
                 \/ B.text = buf[b].text /\ B.modified = buf[b].modified
<1>1. Command /\ ~Waits(b) /\ UNCHANGED disk /\ hist' = Seen(b)
  BY DEF VisitFile
<1>2. CASE \E k \in 0..MaxText : Readable(f, k) /\ buf' = [buf EXCEPT ![b] = Named(Read(@, f, k), f)]
  <2>1. PICK k : Readable(f, k) /\ buf' = [buf EXCEPT ![b] = Named(Read(buf[b], f, k), f)]
    BY <1>2
  <2>2. /\ Read(buf[b], f, k) \in Buf /\ Read(buf[b], f, k).modtime = disk[The(f)].mtime
        /\ \/ Read(buf[b], f, k).text = disk[The(f)].text
           \/ Len(Read(buf[b], f, k).text) < Len(disk[The(f)].text)
    BY <2>1, ReadFacts
  <2> QED
    BY <1>1, <2>1, <2>2 DEF Replaced
<1>3. CASE Readable(f, 1) /\ buf' = [buf EXCEPT ![b] = Named(NoRoom(@), f)]
  <2>1. /\ NoRoom(buf[b]) \in Buf /\ NoRoom(buf[b]).text = << >>
        /\ NoRoom(buf[b]).modtime = buf[b].modtime
    BY NoRoomFacts
  <2>2. Len(<< >>) < Len(disk[The(f)].text)
    BY <1>3, NameFacts, DisksFacts DEF Readable
  <2> QED
    BY <1>1, <1>3, <2>1, <2>2 DEF Replaced
<1>4. CASE buf' = [buf EXCEPT ![b] = Named(@, f)]
  BY <1>1, <1>4 DEF Replaced
<1> QED
  BY <1>2, <1>3, <1>4 DEF VisitFile, Named

LEMMA VisitFileKeeps ==
  ASSUME FilesInv, NEW b \in Buffers, NEW f \in Files, VisitFile(b, f)
  PROVE  FilesInv'
<1>1. disk \in Disks /\ buf \in Bufs /\ NoneMade(buf) /\ Times(disk, buf, clock, hist)
  BY DEF FilesInv, Typed
<1>2. buf[b] \in Buf /\ (buf[b].ckpfn = None => buf[b].checkpointed = 0)
  BY <1>1, BufsFacts DEF NoneMade
<1>3. Command /\ ~Waits(b) /\ UNCHANGED disk /\ hist' = Seen(b)
  BY <1>1, <1>2, VisitFileShape
<1>4. PICK B \in Buf : /\ Replaced(b, Named(B, f))
                       /\ B.modtime \in { disk[The(f)].mtime, buf[b].modtime }
  BY <1>1, <1>2, VisitFileShape
<1> DEFINE R == Named(B, f)
<1>5. R \in Buf /\ R.checkpointed = 0 /\ R.modtime = B.modtime
  BY NamedFacts
<1>6. B.modtime <= clock
  BY <1>1, <1>4, NameFacts DEF Times
<1>7. Replaced(b, R)
  BY <1>4
<1> HIDE DEF R
<1> QED
  BY <1>3, <1>5, <1>6, <1>7, CommandKeeps

LEMMA ChangeFileNameKeeps ==
  ASSUME FilesInv, NEW b \in Buffers, NEW f \in Files \cup {None}, ChangeFileName(b, f)
  PROVE  FilesInv'
<1>1. disk \in Disks /\ buf \in Bufs /\ NoneMade(buf) /\ Times(disk, buf, clock, hist) /\ clock \in Nat
  BY DEF FilesInv, Typed
<1> DEFINE Q == Renamed(buf[b], f)
           m == IF f = None THEN 0
                ELSE IF buf[b].fname # f /\ Exists(The(f)) THEN disk[The(f)].mtime
                ELSE buf[b].modtime
           R == [Q EXCEPT !.modtime = m]
<1>2. buf[b] \in Buf /\ (buf[b].ckpfn = None => buf[b].checkpointed = 0) /\ buf[b].modtime \in Nat
  BY <1>1, BufsFacts DEF NoneMade
<1>3. Q \in Buf /\ Q.checkpointed = 0 /\ Q.modtime = buf[b].modtime /\ Q.fname = f
  BY <1>2, RenamedFacts
<1>4. m \in Nat /\ m <= clock
  <2>1. f # None => disk[The(f)].mtime \in Nat /\ disk[The(f)].mtime <= clock
    BY <1>1, NameFacts, DisksFacts DEF Times
  <2> QED
    BY <1>1, <1>2, <2>1 DEF Times
<1>5. /\ Command /\ ~Waits(b) /\ UNCHANGED disk /\ Replaced(b, [Q EXCEPT !.modtime =
               IF f = None THEN 0
               ELSE IF buf[b].fname # f /\ Exists(The(f)) THEN disk[The(f)].mtime ELSE buf[b].modtime])
      /\ hist' = IF buf[b].fname # f THEN Seen(b) ELSE hist
  BY DEF ChangeFileName, Replaced
<1> HIDE DEF Q
<1>6. Replaced(b, R)
  BY <1>5
<1>7. hist' = Seen(b) \/ (hist' = hist /\ (m = 0 \/ (m = buf[b].modtime /\ f = buf[b].fname)))
  BY <1>5
<1> HIDE DEF m
<1>8. R \in Buf /\ R.checkpointed = 0 /\ R.modtime = m /\ R.fname = f
  BY <1>3, <1>4 DEF Buf
<1> HIDE DEF R
<1> QED
  BY <1>4, <1>5, <1>6, <1>7, <1>8, CommandKeeps

(***************************************************************************)
(* Commands that begin a job.                                              *)
(***************************************************************************)
NewJob(do, todo, name) ==
  [ do |-> do, todo |-> todo, name |-> name, b |-> Head(todo), pc |-> "look",
    modcnt |-> 0, failed |-> FALSE, short |-> FALSE, at |-> 0, met |-> "nobody" ]

LEMMA NewJobTyped ==
  ASSUME NEW do \in Kinds, NEW todo \in Seq(Buffers), NEW name \in Names \cup {None},
         todo # << >>
  PROVE  /\ NewJob(do, todo, name) \in Job
         /\ NewJob(do, todo, name).do = do /\ NewJob(do, todo, name).todo = todo
         /\ NewJob(do, todo, name).name = name /\ NewJob(do, todo, name).met = "nobody"
BY DEF NewJob, Job, Pcs

(* The buffers as the command hands them to its job. *)
Handed(bufs, todo, do, name) ==
  /\ bufs \in Bufs /\ NoneMade(bufs)
  /\ \A b \in Buffers : Waits(b) => bufs[b].fname = buf[b].fname
  /\ do \in {"write", "append"} => name \in { The(f) : f \in Files } /\ Len(todo) = 1
  /\ do = "write" => name = The(bufs[todo[1]].fname)

LEMMA BeginKeeps ==
  ASSUME FilesInv, NEW do \in Kinds, NEW todo \in Seq(Buffers), NEW name \in Names \cup {None},
         NEW bufs, Handed(bufs, todo, do, name), Begin(do, todo, name, bufs),
         hist' \in History, hist'.orig = hist.orig, hist'.kept = hist.kept,
         Times(disk, bufs, clock, hist')
  PROVE  FilesInv' /\ OnlyCkpfn(bufs, buf')
<1>1. /\ disk \in Disks /\ buf \in Bufs /\ stack \in Seq(Job) /\ clock \in Nat \ {0} /\ hist \in History
      /\ Stacked(stack, disk, buf, hist) /\ Backups(disk, hist)
  BY DEF FilesInv, Typed
<1>2. bufs \in Bufs /\ NoneMade(bufs)
  BY DEF Handed
<1>3. AtKeyboard /\ Continue(NewJob(do, todo, name), bufs, stack) /\ err' = FALSE
      /\ disk' = disk /\ clock' = clock
  BY DEF Begin, NewJob
<1>4. \A n \in {name} \cup { The(bufs[b].fname) : b \in Range(todo) } : ~Open(n)
  BY DEF Begin
<1>5. Waiting(stack, disk, buf, hist)
  <2>1. stack # << >> => Head(stack).pc \in Questions
    BY <1>3 DEF AtKeyboard, J
  <2> QED
    BY <1>1, <2>1, StackedWaiting
<1>6. \A k \in 1..Len(stack) :
        /\ k \in DOMAIN stack /\ stack[k] \in Job /\ stack[k].b \in Buffers
        /\ Ready(stack[k], disk, buf, hist) /\ stack[k].pc \in Questions
  <2> TAKE k \in 1..Len(stack)
  <2>1. stack[k] \in Job /\ k \in DOMAIN stack
    BY <1>1
  <2> QED
    BY <1>5, <2>1 DEF Waiting, Job
<1>7. Waiting(stack, disk, bufs, hist')
  <2>1. \A k \in 1..Len(stack) : Saves(stack[k].do) => bufs[stack[k].b].fname = buf[stack[k].b].fname
    <3> TAKE k \in 1..Len(stack)
    <3>1. Waits(stack[k].b)
      BY <1>6 DEF Waits
    <3> QED
      BY <1>6, <3>1 DEF Handed
  <2>2. Remembers(hist, hist')
    BY DEF Saved, Remembers
  <2> QED
    BY <1>1, <1>5, <2>1, <2>2, WaitingKept
<1>8. \A k \in 1..Len(stack) : AtNewline(stack[k]) => Open(stack[k].name)
  BY <1>6 DEF AtNewline, Open, HasOpen
<1>9. \A k \in 1..Len(stack) : AtNewline(stack[k]) => stack[k].name # name /\ do # "modwrite"
  <2> SUFFICES ASSUME NEW k \in 1..Len(stack), AtNewline(stack[k])
               PROVE  stack[k].name # name /\ do # "modwrite"
    OBVIOUS
  <2>1. stack[k].name # name
    BY <1>4, <1>8
  <2>2. ASSUME do = "modwrite" PROVE FALSE
    BY <1>6, <2>2 DEF Begin, AtNewline
  <2> QED
    BY <2>1, <2>2
<1>10. /\ stack' \in Seq(Job) /\ buf' \in Bufs
       /\ NoneMade(buf') /\ OnlyCkpfn(bufs, buf')
       /\ Stacked(stack', disk, buf', hist')
  <2> DEFINE job == NewJob(do, todo, name)
  <2>1. CASE todo = << >>
    <3>1. job.todo = << >>
      BY <2>1 DEF NewJob
    <3> HIDE DEF job
    <3>2. stack' = stack /\ buf' = bufs
      <4>1. job.todo \in Seq(Buffers) /\ 1..Len(job.todo) = {}
        BY <3>1
      <4> QED
        BY <1>3, <4>1, ContinueChooses DEF job
    <3> QED
      BY <1>1, <1>2, <1>7, <3>2, WaitingStacked DEF OnlyCkpfn
  <2>2. CASE todo # << >>
    <3>1. job \in Job /\ job.do = do /\ job.todo = todo /\ job.name = name /\ job.met = "nobody"
      BY <2>2, NewJobTyped
    <3> HIDE DEF job
    <3>2. MayGoOn(job, bufs, stack)
      <4>1. do \in {"write", "append"} =>
              /\ name \in { The(f) : f \in Files } /\ Len(todo) = 1
        BY DEF Handed
      <4>2. do = "write" => \A i \in 1..Len(todo) : name = The(bufs[todo[i]].fname)
        <5> SUFFICES ASSUME do = "write", NEW i \in 1..Len(todo) PROVE name = The(bufs[todo[i]].fname)
          OBVIOUS
        <5>1. Len(todo) = 1
          BY <4>1
        <5>2. \A n : n = 1 => \A q \in 1..n : q = 1
          OBVIOUS
        <5>3. i = 1
          BY <5>1, <5>2, ZenonT(30)
        <5> QED
          BY <5>3 DEF Handed
      <4>a. \A n : n = 1 => n <= 1
        OBVIOUS
      <4>3. do \in {"write", "append"} => Len(todo) <= 1
        BY <4>1, <4>a, ZenonT(30)
      <4>4. do \in {"write", "append"} =>
              \A i \in 1..Len(todo), k \in 1..Len(stack) : AtNewline(stack[k]) => stack[k].name # name
        BY <1>9
      <4>5. do = "modwrite" => \A k \in 1..Len(stack) : ~AtNewline(stack[k])
        BY <1>9
      <4> HIDE DEF AtNewline, The
      <4> QED
        BY <3>1, <4>1, <4>2, <4>3, <4>4, <4>5 DEF MayGoOn
    <3>3. Continue(job, bufs, stack)
      BY <1>3 DEF job
    <3> QED
      BY <1>1, <1>2, <1>7, <3>1, <3>2, <3>3, ContinueKeeps
  <2> QED
    BY <2>1, <2>2
<1>11. Times(disk', buf', clock', hist')
  <2>1. /\ \A n \in Names : disk'[n].mtime <= clock'
        /\ \A b \in Buffers : bufs[b].modtime <= clock'
    BY <1>3 DEF Times
  <2>2. \A b \in Buffers : buf'[b].modtime = bufs[b].modtime /\ buf'[b].fname = bufs[b].fname
    BY <1>10 DEF OnlyCkpfn
  <2>3. clock \in Nat /\ clock' \in Nat /\ clock <= clock'
    BY <1>1, <1>3
  <2>4. \A f \in Files : disk'[The(f)].mtime \in { 0, clock', disk[The(f)].mtime }
    BY <1>3
  <2>5. \A b \in Buffers : buf'[b].modtime <= clock'
    BY <2>1, <2>2
  <2>6. \A b \in Buffers : b \in hist'.foreign /\ buf'[b].modtime # 0 =>
          b \in hist'.foreign /\ buf'[b].modtime = bufs[b].modtime /\ buf'[b].fname = bufs[b].fname
    BY <2>2
  <2> HIDE DEF Times
  <2> QED
    BY <1>1, <1>2, <2>1, <2>3, <2>4, <2>5, <2>6, TimesKept, ZenonT(40)
<1>12. Backups(disk', hist')
  BY <1>1, <1>3, BackupsKept
<1>13. Stacked(stack', disk', buf', hist')
  BY <1>3, <1>10
<1>14. Typed'
  BY <1>1, <1>3, <1>10 DEF Typed
<1> QED
  BY <1>10, <1>11, <1>12, <1>13, <1>14 DEF FilesInv

LEMMA InvFacts ==
  ASSUME FilesInv
  PROVE  /\ disk \in Disks /\ buf \in Bufs /\ stack \in Seq(Job) /\ hist \in History
         /\ err \in BOOLEAN /\ clock \in Nat /\ clock > 0
         /\ Stacked(stack, disk, buf, hist) /\ Backups(disk, hist)
         /\ Times(disk, buf, clock, hist) /\ NoneMade(buf)
BY DEF FilesInv, Typed

LEMMA WriteCurrentFileKeeps ==
  ASSUME FilesInv, NEW b \in Buffers, WriteCurrentFile(b)
  PROVE  FilesInv' /\ OnlyCkpfn(buf, buf')
<1> DEFINE todo == << b >>
           name == The(buf[b].fname)
<1>1. Begin("write", todo, name, buf) /\ hist' = hist /\ buf[b].fname # None
  BY DEF WriteCurrentFile
<1>2. buf[b].fname \in Files
  BY <1>1, InvFacts, BufsFacts
<1>3. todo \in Seq(Buffers) /\ Len(todo) = 1 /\ todo[1] = b
  OBVIOUS
<1>4. name \in Names /\ name \in { The(f) : f \in Files } /\ name = The(buf[todo[1]].fname)
  BY <1>2, <1>3, NameFacts
<1> HIDE DEF todo, name
<1>5. Handed(buf, todo, "write", name)
  BY <1>3, <1>4, InvFacts DEF Handed
<1>6. "write" \in Kinds
  BY DEF Kinds
<1> QED
  BY <1>1, <1>3, <1>4, <1>5, <1>6, InvFacts, BeginKeeps

LEMMA AppendToFileKeeps ==
  ASSUME FilesInv, NEW b \in Buffers, NEW f \in Files, AppendToFile(b, f)
  PROVE  FilesInv' /\ OnlyCkpfn(buf, buf')
<1> DEFINE todo == << b >>
           name == The(f)
<1>1. Begin("append", todo, name, buf) /\ hist' = hist
  BY DEF AppendToFile
<1>3. todo \in Seq(Buffers) /\ Len(todo) = 1 /\ todo[1] = b
  OBVIOUS
<1>4. name \in Names /\ name \in { The(x) : x \in Files }
  BY NameFacts
<1> HIDE DEF todo, name
<1>5. Handed(buf, todo, "append", name)
  BY <1>3, <1>4, InvFacts DEF Handed
<1>6. "append" \in Kinds
  BY DEF Kinds
<1> QED
  BY <1>1, <1>3, <1>4, <1>5, <1>6, InvFacts, BeginKeeps

LEMMA AllBuffersFacts == AllBuffers \in Seq(Buffers) /\ Range(AllBuffers) = Buffers
BY BuffersAssumption, SetToSeqFacts DEF AllBuffers

LEMMA WriteModifiedFilesKeeps ==
  ASSUME FilesInv, WriteModifiedFiles
  PROVE  FilesInv' /\ OnlyCkpfn(buf, buf')
<1>1. Begin("modwrite", AllBuffers, None, buf) /\ hist' = hist
  BY DEF WriteModifiedFiles
<1>2. Handed(buf, AllBuffers, "modwrite", None)
  BY AllBuffersFacts, InvFacts DEF Handed
<1>3. "modwrite" \in Kinds /\ None \in Names \cup {None}
  BY DEF Kinds
<1> QED
  BY <1>1, <1>2, <1>3, AllBuffersFacts, InvFacts, BeginKeeps

LEMMA CheckpointKeeps ==
  ASSUME FilesInv, Checkpoint
  PROVE  FilesInv' /\ OnlyCkpfn(buf, buf')
<1>1. Begin("checkpoint", AllBuffers, None, buf) /\ hist' = hist
  BY DEF Checkpoint
<1>2. Handed(buf, AllBuffers, "checkpoint", None)
  BY AllBuffersFacts, InvFacts DEF Handed
<1>3. "checkpoint" \in Kinds /\ None \in Names \cup {None}
  BY DEF Kinds
<1> QED
  BY <1>1, <1>2, <1>3, AllBuffersFacts, InvFacts, BeginKeeps

LEMMA WriteNamedFileKeeps ==
  ASSUME FilesInv, NEW b \in Buffers, NEW f \in Files, NEW absolute \in BOOLEAN,
         WriteNamedFile(b, f, absolute)
  PROVE  /\ FilesInv'
         /\ \A c \in Buffers : buf'[c].modified = buf[c].modified /\ buf'[c].text = buf[c].text
         /\ \A c \in Buffers \ {b} :
              /\ buf'[c].checkpointed = buf[c].checkpointed
              /\ buf'[c].ckpfn # buf[c].ckpfn => buf[c].checkpointed < buf[c].modified
         /\ buf'[b].checkpointed = 0
<1> DEFINE todo == << b >>
           name == The(f)
           m == IF buf[b].fname # None /\ ~(absolute /\ buf[b].fname = f) THEN 0
                ELSE buf[b].modtime
           Q == Renamed(buf[b], f)
           R == [Q EXCEPT !.modtime = m]
           bufs == [buf EXCEPT ![b] = R]
<1>1. /\ ~Waits(b) /\ Begin("write", todo, name, bufs)
      /\ hist' = IF buf[b].fname # f THEN Seen(b) ELSE hist
  BY DEF WriteNamedFile
<1>2. /\ disk \in Disks /\ buf \in Bufs /\ NoneMade(buf) /\ Times(disk, buf, clock, hist)
      /\ clock \in Nat /\ hist \in History
  BY InvFacts
<1>3. buf[b] \in Buf /\ (buf[b].ckpfn = None => buf[b].checkpointed = 0) /\ buf[b].modtime \in Nat
  BY <1>2, BufsFacts DEF NoneMade
<1>4. /\ Q \in Buf /\ Q.checkpointed = 0 /\ Q.fname = f /\ Q.ckpfn = None
      /\ Q.text = buf[b].text /\ Q.modified = buf[b].modified
  BY <1>3, RenamedFacts
<1> HIDE DEF Q
<1>5. m \in Nat /\ m <= clock /\ (m = 0 \/ m = buf[b].modtime)
  BY <1>2, <1>3 DEF Times
<1>a. m # 0 => buf[b].fname = f \/ buf[b].fname # f
  OBVIOUS
<1> HIDE DEF m
<1>6. /\ R \in Buf /\ R.checkpointed = 0 /\ R.fname = f /\ R.modtime = m /\ R.ckpfn = None
      /\ R.text = buf[b].text /\ R.modified = buf[b].modified
  BY <1>4, <1>5 DEF Buf
<1> HIDE DEF R
<1>7. bufs \in Bufs /\ bufs[b] = R /\ \A c \in Buffers \ {b} : bufs[c] = buf[c]
  BY <1>2, <1>6 DEF Bufs
<1> HIDE DEF bufs
<1>8. NoneMade(bufs)
  BY <1>2, <1>6, <1>7 DEF NoneMade
<1>9. todo \in Seq(Buffers) /\ Len(todo) = 1 /\ todo[1] = b
  OBVIOUS
<1>10. name \in Names /\ name \in { The(x) : x \in Files } /\ name = The(bufs[todo[1]].fname)
  BY <1>6, <1>7, <1>9, NameFacts
<1> HIDE DEF todo, name
<1>11. Handed(bufs, todo, "write", name)
  BY <1>1, <1>7, <1>8, <1>9, <1>10 DEF Handed
<1>12. /\ hist' \in History /\ hist'.orig = hist.orig /\ hist'.kept = hist.kept
       /\ hist'.foreign \subseteq hist.foreign
       /\ b \in hist'.foreign => buf[b].fname = f
  BY <1>1, <1>2 DEF Seen, History
<1>13. Times(disk, bufs, clock, hist')
  <2>1. \A n \in Names : disk[n].mtime <= clock
    BY <1>2 DEF Times
  <2>2. \A c \in Buffers : bufs[c].modtime <= clock
    BY <1>2, <1>5, <1>6, <1>7 DEF Times
  <2>3. \A x \in Files : disk[The(x)].mtime \in { 0, clock, disk[The(x)].mtime }
    OBVIOUS
  <2>4. \A c \in Buffers : c \in hist'.foreign /\ bufs[c].modtime # 0 =>
          c \in hist.foreign /\ bufs[c].modtime = buf[c].modtime /\ bufs[c].fname = buf[c].fname
    <3> TAKE c \in Buffers
    <3>1. CASE c = b
      BY <1>5, <1>6, <1>7, <1>12, <3>1
    <3>2. CASE c # b
      BY <1>7, <1>12, <3>2
    <3> QED
      BY <3>1, <3>2
  <2>5. clock <= clock
    BY <1>2
  <2> QED
    BY <1>2, <2>1, <2>2, <2>3, <2>4, <2>5, TimesKept
<1>14. FilesInv' /\ OnlyCkpfn(bufs, buf')
  <2>1. "write" \in Kinds
    BY DEF Kinds
  <2> QED
    BY <1>1, <1>9, <1>10, <1>11, <1>12, <1>13, <2>1, BeginKeeps
<1>15. buf'[b].checkpointed = 0
  BY <1>6, <1>7, <1>14 DEF OnlyCkpfn
<1>16. \A c \in Buffers : buf'[c].modified = buf[c].modified /\ buf'[c].text = buf[c].text
  BY <1>6, <1>7, <1>14 DEF OnlyCkpfn
<1>17. \A c \in Buffers \ {b} :
         /\ buf'[c].checkpointed = buf[c].checkpointed
         /\ buf'[c].ckpfn # buf[c].ckpfn => buf[c].checkpointed < buf[c].modified
  BY <1>7, <1>14 DEF OnlyCkpfn
<1> QED
  BY <1>14, <1>15, <1>16, <1>17

(***************************************************************************)
(* Steps of the job on top.                                                *)
(***************************************************************************)
(* What a step of WriteFile leaves to the jobs that wait below. *)
Undisturbed(D2, B2, h2) ==
  /\ \A b \in Buffers : B2[b].fname = buf[b].fname
  /\ \A f \in Files : The(f) # J.name => D2[The(f)].text = disk[The(f)].text
  /\ Remembers(hist, h2)

LEMMA BelowKept ==
  ASSUME FilesInv, stack # << >>, NEW D2, NEW B2, NEW h2, Undisturbed(D2, B2, h2)
  PROVE  Waiting(Tail(stack), D2, B2, h2)
<1> DEFINE s == Tail(stack)
<1>1. s \in Seq(Job) /\ Waiting(s, disk, buf, hist) /\ Clear(J, s)
  BY TopFacts
<1> HIDE DEF s
<1>2. \A k \in 1..Len(s) : s[k].b \in Buffers /\ Formed(s[k])
  <2> TAKE k \in 1..Len(s)
  <2>1. s[k] \in Job
    BY <1>1
  <2> QED
    BY <1>1, <2>1 DEF Job, Waiting, Ready
<1>3. \A k \in 1..Len(s) : Saves(s[k].do) => B2[s[k].b].fname = buf[s[k].b].fname
  BY <1>2 DEF Undisturbed
<1>4. \A k \in 1..Len(s) : AtNewline(s[k]) => D2[s[k].name].text = disk[s[k].name].text
  <2> TAKE k \in 1..Len(s)
  <2> HAVE AtNewline(s[k])
  <2>1. s[k].name # J.name
    BY <1>1 DEF Clear, Apart
  <2>2. s[k].name \in { The(f) : f \in Files }
    BY <1>1, <1>2 DEF Formed, AtNewline
  <2> QED
    BY <2>1, <2>2 DEF Undisturbed
<1>5. Remembers(hist, h2)
  BY DEF Undisturbed
<1> QED
  BY <1>1, <1>3, <1>4, <1>5, WaitingKept DEF s

LEMMA BecomeKeeps ==
  ASSUME FilesInv, stack # << >>, NEW j \in Job, Become(j), j.do = J.do, j.name = J.name,
         NEW D2, NEW B2, NEW h2, Ready(j, D2, B2, h2), Undisturbed(D2, B2, h2)
  PROVE  stack' \in Seq(Job) /\ Stacked(stack', D2, B2, h2)
<1>1. /\ stack' \in Seq(Job) /\ Head(stack') = j /\ Tail(stack') = Tail(stack)
  BY TopFacts, Pushed DEF Become
<1>2. Waiting(Tail(stack), D2, B2, h2) /\ Clear(J, Tail(stack))
  BY BelowKept, TopFacts
<1>3. Clear(j, Tail(stack))
  BY <1>2 DEF Clear, Apart
<1> QED
  BY <1>1, <1>2, <1>3 DEF Stacked

(***************************************************************************)
(* WriteFile returns.                                                      *)
(***************************************************************************)
LEMMA EpilogueFacts ==
  ASSUME FilesInv, stack # << >>, NEW B \in Buf
  PROVE  /\ Epilogue(B) \in Buf
         /\ Epilogue(B).text = B.text /\ Epilogue(B).fname = B.fname
         /\ Epilogue(B).modtime = B.modtime /\ Epilogue(B).ckpfn = B.ckpfn
         /\ J.do = "checkpoint" =>
              Epilogue(B).modified = J.modcnt /\ Epilogue(B).checkpointed = J.modcnt
         /\ J.do # "checkpoint" =>
              /\ Epilogue(B).modified = B.modified
              /\ Epilogue(B).checkpointed \in { 0, B.checkpointed }
<1>1. J.modcnt \in Nat
  BY TopFacts DEF Job
<1>2. CASE J.do = "checkpoint"
  <2>1. Epilogue(B) = [B EXCEPT !.modified = J.modcnt, !.checkpointed = J.modcnt]
    BY <1>2 DEF Epilogue, Saves
  <2> HIDE DEF J
  <2> QED
    BY <1>1, <1>2, <2>1 DEF Buf
<1>3. CASE J.do # "checkpoint" /\ Saves(J.do) /\ UnlinkCheckpointFiles
  <2>1. Epilogue(B) = [B EXCEPT !.checkpointed = 0]
    BY <1>3 DEF Epilogue
  <2> HIDE DEF J
  <2> QED
    BY <1>3, <2>1 DEF Buf
<1>4. CASE J.do # "checkpoint" /\ ~(Saves(J.do) /\ UnlinkCheckpointFiles)
  <2>1. Epilogue(B) = B
    BY <1>4 DEF Epilogue
  <2> QED
    BY <1>4, <2>1
<1> QED
  BY <1>2, <1>3, <1>4

(* The buffer as it leaves WriteFile, and the disk. *)
Left(B, D) ==
  /\ B \in Buf /\ B.fname = buf[J.b].fname /\ B.ckpfn = buf[J.b].ckpfn
  /\ B.checkpointed \in { 0, buf[J.b].checkpointed }
  /\ D \in Disks

(* What the return leaves for everybody. *)
Returned(B, e, D) ==
  LET bufs == [buf EXCEPT ![J.b] = Epilogue(B)]
  IN  /\ bufs \in Bufs /\ buf' \in Bufs /\ disk' \in Disks /\ stack' \in Seq(Job)
      /\ err' \in BOOLEAN /\ clock' = clock
      /\ OnlyCkpfn(bufs, buf') /\ NoneMade(buf')
      /\ \A f \in Files : disk'[The(f)] = D[The(f)] /\ disk'[Bak(f)] = D[Bak(f)]
      /\ \A f \in Files : disk'[Ckp(f)] # D[Ckp(f)] =>
           Saves(J.do) /\ ~e /\ buf[J.b].ckpfn = f /\ UnlinkCheckpointFiles
      /\ \A n \in Names : disk'[n] = D[n] \/ disk'[n].mtime = 0

LEMMA ReturnsKeeps ==
  ASSUME FilesInv, stack # << >>, NEW B, NEW ok \in BOOLEAN, NEW e \in BOOLEAN, NEW D,
         Returns(B, ok, e, D), Left(B, D), Undisturbed(D, buf, hist')
  PROVE  Returned(B, e, D) /\ Stacked(stack', disk', buf', hist')
<1> DEFINE job  == [J EXCEPT !.failed = @ \/ (J.do = "checkpoint" /\ ~ok)]
           b    == J.b
           E    == Epilogue(B)
           bufs == [buf EXCEPT ![b] = E]
           c    == buf[J.b].ckpfn
<1>1. /\ disk \in Disks /\ buf \in Bufs /\ NoneMade(buf)
      /\ J \in Job /\ Tail(stack) \in Seq(Job) /\ b \in Buffers
      /\ Ready(J, disk, buf, hist) /\ Clear(J, Tail(stack))
  BY InvFacts, TopFacts
<1>2. /\ disk' = IF Unlinks(e) THEN [D EXCEPT ![Ckp(c)] = Absent] ELSE D
      /\ IF J.do = "modwrite" /\ ~ok
         THEN Become([job EXCEPT !.pc = "ignore"]) /\ buf' = bufs
         ELSE Continue(job, bufs, Tail(stack))
      /\ err' = (e /\ ~(job.failed /\ Len(stack') < Len(stack)))
      /\ clock' = clock
  BY DEF Returns
<1>3. /\ job \in Job /\ job.do = J.do /\ job.todo = J.todo /\ job.name = J.name
      /\ job.b = J.b /\ job.pc = J.pc /\ job.met = J.met
  <2> HIDE DEF J
  <2> QED
    BY <1>1 DEF Job
<1>4. B \in Buf /\ D \in Disks /\ buf[b] \in Buf
  BY <1>1, BufsFacts DEF Left
<1>5. /\ E \in Buf /\ E.fname = buf[b].fname /\ E.ckpfn = buf[b].ckpfn
      /\ E.ckpfn = None => E.checkpointed = 0
  <2>1. /\ E \in Buf /\ E.fname = buf[b].fname /\ E.ckpfn = buf[b].ckpfn
    BY <1>4, EpilogueFacts DEF Left
  <2>2. ASSUME J.do = "checkpoint" PROVE E.ckpfn # None
    <3>1. J.name = Ckp(buf[b].ckpfn) /\ J.name \in Names
      BY <1>1, <2>2 DEF Ready, Formed
    <3>2. buf[b].ckpfn \in Files
      BY <3>1 DEF Names, Ckp
    <3> QED
      BY <2>1, <3>2, NoneAssumption
  <2>3. ASSUME J.do # "checkpoint", E.ckpfn = None PROVE E.checkpointed = 0
    <3>1. buf[b].checkpointed = 0
      BY <1>1, <2>1, <2>3 DEF NoneMade
    <3> QED
      BY <1>4, <2>3, <3>1, EpilogueFacts DEF Left
  <2> QED
    BY <2>1, <2>2, <2>3
<1> HIDE DEF E
<1>6. bufs \in Bufs /\ bufs[b] = E /\ \A x \in Buffers \ {b} : bufs[x] = buf[x]
  BY <1>1, <1>5 DEF Bufs
<1>7. bufs = [buf EXCEPT ![J.b] = Epilogue(B)]
  BY DEF E
<1> HIDE DEF bufs
<1>8. NoneMade(bufs)
  BY <1>1, <1>5, <1>6 DEF NoneMade
<1>9. /\ disk' \in Disks
      /\ \A f \in Files : disk'[The(f)] = D[The(f)] /\ disk'[Bak(f)] = D[Bak(f)]
      /\ \A f \in Files : disk'[Ckp(f)] # D[Ckp(f)] =>
           Saves(J.do) /\ ~e /\ c = f /\ UnlinkCheckpointFiles
      /\ \A n \in Names : disk'[n] = D[n] \/ disk'[n].mtime = 0
  <2>1. CASE ~Unlinks(e)
    BY <1>2, <1>4, <2>1
  <2>2. CASE Unlinks(e)
    <3>1. disk' = [D EXCEPT ![Ckp(c)] = Absent]
      BY <1>2, <2>2
    <3>2. Absent \in OnDisk /\ Absent.mtime = 0
      BY DEF Absent, OnDisk
    <3>3. c \in Files
      BY <1>1, <2>2, BufsFacts DEF Unlinks
    <3>4. Ckp(c) \in Names
      BY <3>3, NameFacts
    <3> HIDE DEF c, Absent
    <3>5. disk' \in Disks /\ disk'[Ckp(c)] = Absent /\ \A n \in Names \ {Ckp(c)} : disk'[n] = D[n]
      BY <1>4, <3>1, <3>2, <3>4 DEF Disks
    <3>6. Saves(J.do) /\ ~e /\ UnlinkCheckpointFiles
      BY <2>2 DEF Unlinks
    <3> QED
      BY <3>2, <3>5, <3>6, NameFacts
  <2> QED
    BY <2>1, <2>2
<1>10. Undisturbed(disk', bufs, hist')
  <2>1. \A x \in Buffers : bufs[x].fname = buf[x].fname
    BY <1>1, <1>5, <1>6
  <2> QED
    BY <1>9, <2>1 DEF Undisturbed
<1>11. Waiting(Tail(stack), disk', bufs, hist')
  BY <1>10, BelowKept
<1>12. stack' \in Seq(Job) /\ buf' \in Bufs /\ OnlyCkpfn(bufs, buf') /\ NoneMade(buf')
       /\ Stacked(stack', disk', buf', hist')
  <2>1. CASE J.do = "modwrite" /\ ~ok
    <3> DEFINE j == [job EXCEPT !.pc = "ignore"]
    <3> HIDE DEF job
    <3>1. j \in Job /\ j.do = "modwrite" /\ j.name = J.name /\ j.b = b /\ j.pc = "ignore"
      BY <1>3, <2>1 DEF Job, Pcs, Questions
    <3>2. Become(j) /\ buf' = bufs
      BY <1>2, <2>1 DEF job
    <3> HIDE DEF j
    <3>3. Ready(j, disk', bufs, hist')
      <4>1. Formed(j)
        BY <1>1, <2>1, <3>1 DEF Ready, Formed
      <4>2. J.name = The(buf[b].fname)
        BY <1>1, <2>1 DEF Ready, Saves
      <4> QED
        BY <1>5, <1>6, <3>1, <4>1, <4>2 DEF Ready, InPlace
    <3>4. stack' \in Seq(Job) /\ Stacked(stack', disk', bufs, hist')
      BY <1>10, <2>1, <3>1, <3>2, <3>3, BecomeKeeps
    <3> QED
      BY <1>6, <1>8, <3>2, <3>4 DEF OnlyCkpfn
  <2>2. CASE ~(J.do = "modwrite" /\ ~ok)
    <3>1. Continue(job, bufs, Tail(stack))
      BY <1>2, <2>2
    <3>2. MayGoOn(job, bufs, Tail(stack))
      <4>1. job.do \in {"write", "append"} =>
              /\ job.name \in { The(f) : f \in Files } /\ job.todo = << >>
        BY <1>1, <1>3 DEF Ready, Formed
      <4>2. job.todo = << >> => Len(job.todo) <= 1 /\ 1..Len(job.todo) = {}
        OBVIOUS
      <4>3. job.do = "modwrite" => \A k \in 1..Len(Tail(stack)) : ~AtNewline(Tail(stack)[k])
        BY <1>1, <1>3 DEF Clear, Apart
      <4>4. job.do = "checkpoint" => job.met = "nobody"
        BY <1>1, <1>3 DEF Ready, Formed
      <4> HIDE DEF job, AtNewline
      <4> QED
        BY <4>1, <4>2, <4>3, <4>4 DEF MayGoOn
    <3> HIDE DEF job
    <3> QED
      BY <1>1, <1>3, <1>6, <1>8, <1>11, <3>1, <3>2, ContinueKeeps
  <2> QED
    BY <2>1, <2>2
<1>13. err' \in BOOLEAN
  BY <1>2
<1> QED
  BY <1>2, <1>6, <1>7, <1>9, <1>12, <1>13 DEF Returned

LEMMA ReturnedKeeps ==
  ASSUME FilesInv, stack # << >>, NEW B, NEW e, NEW D, Left(B, D), Returned(B, e, D),
         Stacked(stack', disk', buf', hist'), hist' \in History,
         Backups(D, hist'),
         Times(D, [buf EXCEPT ![J.b] = Epilogue(B)], clock, hist')
  PROVE  FilesInv'
<1> DEFINE bufs == [buf EXCEPT ![J.b] = Epilogue(B)]
<1>1. /\ bufs \in Bufs /\ buf' \in Bufs /\ disk' \in Disks /\ stack' \in Seq(Job)
      /\ err' \in BOOLEAN /\ clock' = clock
      /\ OnlyCkpfn(bufs, buf') /\ NoneMade(buf')
      /\ \A f \in Files : disk'[The(f)] = D[The(f)] /\ disk'[Bak(f)] = D[Bak(f)]
      /\ \A n \in Names : disk'[n] = D[n] \/ disk'[n].mtime = 0
  BY DEF Returned
<1>2. D \in Disks /\ Times(D, bufs, clock, hist') /\ clock \in Nat /\ clock > 0
  BY InvFacts DEF Left
<1> HIDE DEF bufs
<1>3. Times(disk', buf', clock', hist')
  <2>1. \A n \in Names : disk'[n].mtime <= clock'
    <3>1. \A n \in Names : D[n].mtime <= clock
      BY <1>2 DEF Times
    <3> QED
      BY <1>1, <1>2, <3>1
  <2>2. \A f \in Files : disk'[The(f)].mtime \in { 0, clock', D[The(f)].mtime }
    BY <1>1
  <2>3. \A b \in Buffers : buf'[b].modtime = bufs[b].modtime /\ buf'[b].fname = bufs[b].fname
    BY <1>1 DEF OnlyCkpfn
  <2>4. \A b \in Buffers : buf'[b].modtime <= clock'
    BY <1>1, <1>2, <2>3 DEF Times
  <2>5. \A b \in Buffers : b \in hist'.foreign /\ buf'[b].modtime # 0 =>
          b \in hist'.foreign /\ buf'[b].modtime = bufs[b].modtime /\ buf'[b].fname = bufs[b].fname
    BY <2>3
  <2>6. clock' \in Nat /\ clock <= clock'
    BY <1>1, <1>2
  <2> QED
    BY <1>1, <1>2, <2>1, <2>2, <2>4, <2>5, <2>6, TimesKept, SMTT(40)
<1>4. Backups(disk', hist')
  BY <1>1, BackupsKept
<1>5. Typed'
  BY <1>1, <1>2 DEF Typed
<1> QED
  BY <1>1, <1>3, <1>4, <1>5 DEF FilesInv

(* A step of the job on top that is not its last. *)
LEMMA GoesKeeps ==
  ASSUME FilesInv, stack # << >>, NEW j \in Job, Become(j), j.do = J.do, j.name = J.name,
         Ready(j, disk', buf', hist'), Undisturbed(disk', buf', hist'),
         disk' \in Disks, buf' \in Bufs, hist' \in History, err' \in BOOLEAN, clock' = clock,
         Backups(disk', hist'), NoneMade(buf'),
         \A b \in Buffers : buf'[b].modtime = buf[b].modtime,
         hist'.foreign \subseteq hist.foreign,
         \A n \in Names : disk'[n].mtime <= clock,
         \A f \in Files : disk'[The(f)].mtime \in { 0, clock, disk[The(f)].mtime }
  PROVE  FilesInv'
<1>1. /\ disk \in Disks /\ buf \in Bufs /\ clock \in Nat /\ clock > 0
      /\ Times(disk, buf, clock, hist)
  BY InvFacts
<1>2. stack' \in Seq(Job) /\ Stacked(stack', disk', buf', hist')
  BY BecomeKeeps
<1>3. Times(disk', buf', clock', hist')
  <2>1. \A b \in Buffers : buf'[b].modtime <= clock'
    BY <1>1 DEF Times
  <2>2. \A b \in Buffers : buf'[b].fname = buf[b].fname
    BY DEF Undisturbed
  <2>3. \A b \in Buffers : b \in hist'.foreign /\ buf'[b].modtime # 0 =>
          b \in hist.foreign /\ buf'[b].modtime = buf[b].modtime /\ buf'[b].fname = buf[b].fname
    BY <2>2
  <2>4. clock' \in Nat /\ clock <= clock'
    BY <1>1
  <2> QED
    BY <1>1, <2>1, <2>3, <2>4, TimesKept
<1>4. Typed'
  BY <1>1, <1>2 DEF Typed
<1> QED
  BY <1>2, <1>3, <1>4 DEF FilesInv

LEMMA GoesFacts ==
  ASSUME FilesInv, stack # << >>, NEW pc \in Pcs
  PROVE  LET j == [J EXCEPT !.pc = pc]
         IN  /\ j \in Job /\ j.do = J.do /\ j.todo = J.todo /\ j.name = J.name /\ j.b = J.b
             /\ j.pc = pc /\ j.modcnt = J.modcnt /\ j.short = J.short
             /\ j.at = J.at /\ j.met = J.met
<1>1. J \in Job
  BY TopFacts
<1> HIDE DEF J
<1> QED
  BY <1>1 DEF Job

(* What a job keeps that has no file open: nothing but its pc has changed. *)
LEMMA ReadyGoes ==
  ASSUME NEW i, NEW j, NEW D, NEW B, NEW h, NEW D2, NEW B2, NEW h2, Ready(i, D, B, h),
         j.do = i.do, j.todo = i.todo, j.name = i.name, j.b = i.b, j.modcnt = i.modcnt,
         j.met = i.met,
         j.pc \in {"ask", "agreed", "link", "copy", "unlink", "creat"}, Saves(j.do),
         B2[i.b].fname = B[i.b].fname,
         j.pc = "unlink" => Saved(j.name[2], h2),
         j.pc \in {"link", "copy"} => j.name[2] \notin h2.kept,
         j.pc = "copy" => D2[Bak(j.name[2])].mtime > 0
  PROVE  Ready(j, D2, B2, h2)
BY DEF Ready, Formed, InPlace, Saves

(***************************************************************************)
(* Each step.                                                              *)
(***************************************************************************)
LEMMA Untouched ==
  ASSUME FilesInv
  PROVE  /\ Undisturbed(disk, buf, hist)
         /\ \A n \in Names : disk[n].mtime <= clock
         /\ \A f \in Files : disk[The(f)].mtime \in { 0, clock, disk[The(f)].mtime }
BY InvFacts DEF Undisturbed, Times, Remembers

LEMMA AskKeeps ==
  ASSUME FilesInv, Ask
  PROVE  FilesInv'
<1> DEFINE j == [J EXCEPT !.pc = "ask"]
<1>1. /\ stack # << >> /\ J.pc = "look" /\ Become(j) /\ Saves(J.do)
      /\ disk' = disk /\ buf' = buf /\ err' = err /\ clock' = clock /\ hist' = hist
  BY DEF Ask, At, Asks, Goes
<1>2. /\ j \in Job /\ j.do = J.do /\ j.todo = J.todo /\ j.name = J.name /\ j.b = J.b
      /\ j.pc = "ask" /\ j.modcnt = J.modcnt /\ j.at = J.at /\ j.met = J.met
  BY <1>1, GoesFacts DEF Pcs, Questions
<1> HIDE DEF j
<1>3. Ready(j, disk, buf, hist)
  BY <1>1, <1>2, TopFacts, ReadyGoes DEF Saves
<1> QED
  BY <1>1, <1>2, <1>3, InvFacts, Untouched, GoesKeeps

LEMMA WriteAnywayKeeps ==
  ASSUME FilesInv, WriteAnyway
  PROVE  FilesInv'
<1> DEFINE j == [J EXCEPT !.pc = "agreed"]
<1>1. /\ stack # << >> /\ J.pc = "ask" /\ Become(j)
      /\ disk' = disk /\ buf' = buf /\ err' = FALSE /\ clock' = clock /\ hist' = hist
  BY DEF WriteAnyway, At, Goes
<1>2. /\ j \in Job /\ j.do = J.do /\ j.todo = J.todo /\ j.name = J.name /\ j.b = J.b
      /\ j.pc = "agreed" /\ j.modcnt = J.modcnt /\ j.at = J.at /\ j.met = J.met
  BY <1>1, GoesFacts DEF Pcs
<1>3. Saves(J.do)
  BY <1>1, TopFacts DEF Ready, Formed
<1> HIDE DEF j
<1>4. Ready(j, disk, buf, hist)
  BY <1>1, <1>2, <1>3, TopFacts, ReadyGoes DEF Saves
<1> QED
  BY <1>1, <1>2, <1>4, InvFacts, Untouched, GoesKeeps

LEMMA NoNewlineKeeps ==
  ASSUME FilesInv, NoNewline
  PROVE  FilesInv'
<1> DEFINE j == [J EXCEPT !.pc = "write"]
<1>1. /\ stack # << >> /\ J.pc = "newline" /\ Become(j)
      /\ disk' = disk /\ buf' = buf /\ err' = FALSE /\ clock' = clock /\ hist' = hist
  BY DEF NoNewline, At, Goes
<1>2. /\ j \in Job /\ j.do = J.do /\ j.todo = J.todo /\ j.name = J.name /\ j.b = J.b
      /\ j.pc = "write" /\ j.modcnt = J.modcnt /\ j.at = J.at /\ j.met = J.met
  BY <1>1, GoesFacts DEF Pcs
<1> HIDE DEF j
<1>3. Ready(j, disk, buf, hist)
  <2>1. Ready(J, disk, buf, hist)
    BY <1>1, TopFacts
  <2> QED
    BY <1>1, <1>2, <2>1 DEF Ready, Formed, InPlace
<1> QED
  BY <1>1, <1>2, <1>3, InvFacts, Untouched, GoesKeeps

LEMMA OneChanged ==
  ASSUME FilesInv, NEW n \in Names, NEW v \in OnDisk, v.mtime <= clock,
         disk' = [disk EXCEPT ![n] = v]
  PROVE  /\ disk' \in Disks /\ disk'[n] = v /\ \A m \in Names \ {n} : disk'[m] = disk[m]
         /\ \A m \in Names : disk'[m].mtime <= clock
<1>1. disk \in Disks /\ \A m \in Names : disk[m].mtime <= clock
  BY InvFacts DEF Times
<1>2. disk' \in Disks /\ disk'[n] = v /\ \A m \in Names \ {n} : disk'[m] = disk[m]
  BY <1>1 DEF Disks
<1> QED
  BY <1>1, <1>2

LEMMA ForgetFacts ==
  ASSUME FilesInv, File \in Files
  PROVE  /\ Forget \in History /\ Forget.foreign = hist.foreign
         /\ Forget.orig[File] = << >> /\ Forget.kept = hist.kept \ {File}
         /\ \A f \in Files \ {File} : Forget.orig[f] = hist.orig[f]
         /\ Remembers(hist, Forget)
<1>1. hist \in History
  BY InvFacts
<1> DEFINE n == File
<1>2. n \in Files /\ Forget = [hist EXCEPT !.orig[n] = << >>, !.kept = @ \ {n}]
  BY DEF Forget
<1> HIDE DEF n
<1>3. << >> \in Seq(Pieces)
  OBVIOUS
<1>4. /\ Forget \in History /\ Forget.foreign = hist.foreign
      /\ Forget.orig = [hist.orig EXCEPT ![n] = << >>] /\ Forget.kept = hist.kept \ {n}
  BY <1>1, <1>2, <1>3 DEF History
<1>5. hist.orig \in [Files -> Seq(Pieces)]
  BY <1>1 DEF History
<1>6. Forget.orig[n] = << >> /\ \A f \in Files \ {n} : Forget.orig[f] = hist.orig[f]
  BY <1>2, <1>4, <1>5
<1>7. Remembers(hist, Forget)
  BY <1>4, <1>6 DEF Saved, Remembers
<1> QED
  BY <1>4, <1>6, <1>7 DEF n

(* A job that saves, or appends, writes to a file, a checkpoint does not. *)
LEMMA FileFacts ==
  ASSUME FilesInv, stack # << >>, J.do # "checkpoint"
  PROVE  File \in Files /\ J.name = The(File) /\ J.name \in Names
<1>1. J.name \in { The(f) : f \in Files }
  BY TopFacts DEF Ready, Formed
<1> QED
  BY <1>1, NameFacts DEF File

LEMMA UnlinkOldKeeps ==
  ASSUME FilesInv, UnlinkOld
  PROVE  FilesInv'
<1> DEFINE j == [J EXCEPT !.pc = "creat"]
<1>1. /\ stack # << >> /\ J.pc = "unlink" /\ Become(j)
      /\ disk' = [disk EXCEPT ![J.name] = Absent]
      /\ buf' = buf /\ err' = err /\ clock' = clock /\ hist' = hist
  BY DEF UnlinkOld, At, Goes
<1>2. /\ j \in Job /\ j.do = J.do /\ j.todo = J.todo /\ j.name = J.name /\ j.b = J.b
      /\ j.pc = "creat" /\ j.modcnt = J.modcnt /\ j.at = J.at /\ j.met = J.met
  BY <1>1, GoesFacts DEF Pcs
<1> HIDE DEF j
<1>3. Saves(J.do) /\ J.do # "checkpoint" /\ Ready(J, disk, buf, hist) /\ Saved(File, hist)
  BY <1>1, TopFacts DEF Ready, Formed, Saves, File
<1>4. File \in Files /\ J.name = The(File) /\ J.name \in Names
  BY <1>1, <1>3, FileFacts
<1>5. Absent \in OnDisk /\ Absent.mtime = 0 /\ Absent.mtime <= clock
  BY InvFacts DEF Absent, OnDisk
<1>6. /\ disk' \in Disks /\ disk'[J.name] = Absent
      /\ \A m \in Names \ {J.name} : disk'[m] = disk[m]
      /\ \A m \in Names : disk'[m].mtime <= clock
  BY <1>1, <1>4, <1>5, OneChanged
<1>7. Undisturbed(disk', buf', hist')
  BY <1>1, <1>6, NameFacts DEF Undisturbed, Remembers
<1>8. Ready(j, disk', buf', hist')
  BY <1>1, <1>2, <1>3, ReadyGoes DEF Saves
<1>9. Backups(disk', hist')
  <2>1. \A f \in Files : hist'.orig[f] # << >> =>
          /\ hist'.orig[f] = hist.orig[f]
          /\ f \in hist'.kept <=> f \in hist.kept
          /\ f \in hist.kept => disk'[Bak(f)] = disk[Bak(f)]
          /\ f \notin hist.kept => disk'[The(f)] = disk[The(f)]
    BY <1>1, <1>3, <1>4, <1>6, NameFacts DEF Saved
  <2>2. Backups(disk, hist)
    BY InvFacts
  <2> QED
    BY <2>1, <2>2, BackupsKept
<1>10. \A f \in Files : disk'[The(f)].mtime \in { 0, clock, disk[The(f)].mtime }
  BY <1>4, <1>5, <1>6, NameFacts
<1> QED
  BY <1>1, <1>2, <1>6, <1>7, <1>8, <1>9, <1>10, InvFacts, GoesKeeps

LEMMA BackedUpFacts ==
  ASSUME FilesInv, NEW b \in Buffers, buf' = [buf EXCEPT ![b].backedUp = TRUE]
  PROVE  /\ buf' \in Bufs /\ NoneMade(buf')
         /\ \A c \in Buffers : /\ buf'[c].text = buf[c].text /\ buf'[c].modified = buf[c].modified
                               /\ buf'[c].modtime = buf[c].modtime /\ buf'[c].fname = buf[c].fname
                               /\ buf'[c].ckpfn = buf[c].ckpfn
                               /\ buf'[c].checkpointed = buf[c].checkpointed
<1>1. buf \in Bufs /\ buf[b] \in Buf /\ NoneMade(buf)
  BY InvFacts, BufsFacts
<1>2. buf' \in Bufs /\ buf'[b] = [buf[b] EXCEPT !.backedUp = TRUE]
      /\ \A c \in Buffers \ {b} : buf'[c] = buf[c]
  BY <1>1 DEF Bufs, Buf
<1>3. /\ buf'[b].text = buf[b].text /\ buf'[b].modified = buf[b].modified
      /\ buf'[b].modtime = buf[b].modtime /\ buf'[b].fname = buf[b].fname
      /\ buf'[b].ckpfn = buf[b].ckpfn
      /\ buf'[b].checkpointed = buf[b].checkpointed
  BY <1>1, <1>2 DEF Buf
<1> QED
  BY <1>1, <1>2, <1>3 DEF NoneMade

LEMMA StartBackupKeeps ==
  ASSUME FilesInv, NEW copying \in BOOLEAN, StartBackup(copying)
  PROVE  FilesInv'
<1>1. /\ stack # << >> /\ Saves(J.do) /\ J.pc \in {"look", "agreed"} /\ ~buf[J.b].backedUp
      /\ buf' = [buf EXCEPT ![J.b].backedUp = TRUE]
      /\ hist' = IF File \in hist.kept /\ ~buf[J.b].backedUp THEN Forget ELSE hist
      /\ err' = err /\ clock' = clock
  BY DEF StartBackup, Agreed, BacksUp, At
<1>2. J.do # "checkpoint" /\ Ready(J, disk, buf, hist) /\ J.b \in Buffers
  BY <1>1, TopFacts DEF Saves
<1>3. File \in Files /\ J.name = The(File) /\ J.name \in Names /\ Bak(File) \in Names
  BY <1>1, <1>2, FileFacts, NameFacts
<1>4. /\ buf' \in Bufs /\ NoneMade(buf')
      /\ \A c \in Buffers : /\ buf'[c].text = buf[c].text /\ buf'[c].modified = buf[c].modified
                            /\ buf'[c].modtime = buf[c].modtime /\ buf'[c].fname = buf[c].fname
                            /\ buf'[c].ckpfn = buf[c].ckpfn
                            /\ buf'[c].checkpointed = buf[c].checkpointed
  BY <1>1, <1>2, BackedUpFacts
<1>5. /\ hist' \in History /\ hist'.foreign = hist.foreign /\ File \notin hist'.kept
      /\ Remembers(hist, hist')
      /\ \A f \in Files : hist'.orig[f] # << >> =>
           hist'.orig[f] = hist.orig[f] /\ (f \in hist'.kept <=> f \in hist.kept)
  <2>1. CASE File \in hist.kept
    <3>1. hist' = Forget
      BY <1>1, <2>1
    <3>2. /\ Forget \in History /\ Forget.foreign = hist.foreign
          /\ Forget.orig[File] = << >> /\ Forget.kept = hist.kept \ {File}
          /\ \A f \in Files \ {File} : Forget.orig[f] = hist.orig[f]
          /\ Remembers(hist, Forget)
      BY <1>3, ForgetFacts
    <3> HIDE DEF Forget, File
    <3> QED
      BY <3>1, <3>2
  <2>2. CASE File \notin hist.kept
    BY <1>1, <2>2, InvFacts DEF Remembers
  <2> QED
    BY <2>1, <2>2
<1>6. PICK pc \in {"link", "copy", "creat"}, v \in OnDisk :
        /\ Become([J EXCEPT !.pc = pc])
        /\ disk' = disk \/ disk' = [disk EXCEPT ![Bak(File)] = v]
        /\ v.mtime <= clock
        /\ pc = "copy" => v.mtime = 1 /\ disk' = [disk EXCEPT ![Bak(File)] = v]
  <2> DEFINE empty == [ text |-> << >>, mtime |-> 1 ]
  <2>1. Absent \in OnDisk /\ Absent.mtime <= clock /\ empty \in OnDisk /\ empty.mtime = 1 /\ empty.mtime <= clock
    BY InvFacts DEF Absent, OnDisk
  <2>2. CASE ~copying
    BY <2>1, <2>2 DEF StartBackup, Goes
  <2>3. CASE copying /\ Exists(J.name)
    <3>1. disk' = [disk EXCEPT ![Bak(File)] = empty] /\ Become([J EXCEPT !.pc = "copy"])
      BY <2>3 DEF StartBackup, Goes
    <3> HIDE DEF empty
    <3> QED
      BY <2>1, <3>1
  <2>4. CASE copying /\ ~Exists(J.name)
    BY <2>1, <2>4 DEF StartBackup, Goes
  <2> QED
    BY <2>2, <2>3, <2>4
<1> DEFINE j == [J EXCEPT !.pc = pc]
<1>7. /\ j \in Job /\ j.do = J.do /\ j.todo = J.todo /\ j.name = J.name /\ j.b = J.b
      /\ j.pc = pc /\ j.modcnt = J.modcnt /\ j.at = J.at /\ j.met = J.met
  BY <1>1, GoesFacts DEF Pcs
<1> HIDE DEF j
<1>8. /\ disk' \in Disks
      /\ \A m \in Names \ {Bak(File)} : disk'[m] = disk[m]
      /\ \A m \in Names : disk'[m].mtime <= clock
      /\ pc = "copy" => disk'[Bak(File)].mtime > 0
  <2>1. CASE disk' = disk
    <3>1. pc = "copy" => disk'[Bak(File)].mtime > 0
      BY <1>3, <1>6, <2>1, InvFacts, OneChanged
    <3> QED
      BY <2>1, <3>1, InvFacts, Untouched
  <2>2. CASE disk' = [disk EXCEPT ![Bak(File)] = v]
    <3>1. /\ disk' \in Disks /\ disk'[Bak(File)] = v
          /\ \A m \in Names \ {Bak(File)} : disk'[m] = disk[m]
          /\ \A m \in Names : disk'[m].mtime <= clock
      BY <1>3, <1>6, <2>2, OneChanged
    <3>2. pc = "copy" => disk'[Bak(File)].mtime > 0
      BY <1>6, <3>1
    <3> QED
      BY <3>1, <3>2
  <2> QED
    BY <1>6, <2>1, <2>2
<1>9. \A f \in Files : disk'[The(f)] = disk[The(f)] /\ (f # File => disk'[Bak(f)] = disk[Bak(f)])
  BY <1>8, NameFacts
<1>10. Undisturbed(disk', buf', hist')
  BY <1>4, <1>5, <1>9 DEF Undisturbed
<1>11. Ready(j, disk', buf', hist')
  <2>1. j.pc \in {"link", "copy", "creat"} /\ j.name[2] = File
    BY <1>6, <1>7 DEF File
  <2>2. Saves(j.do) /\ j.do # "checkpoint"
    BY <1>1, <1>2, <1>7
  <2> QED
    BY <1>2, <1>4, <1>5, <1>7, <1>8, <2>1, <2>2, ReadyGoes
<1>12. Backups(disk', hist')
  <2>1. \A f \in Files : hist'.orig[f] # << >> =>
          /\ f \in hist.kept => disk'[Bak(f)] = disk[Bak(f)]
          /\ f \notin hist.kept => disk'[The(f)] = disk[The(f)]
    BY <1>5, <1>9
  <2> QED
    BY <1>5, <2>1, InvFacts, BackupsKept
<1>13. Become(j)
  BY <1>6 DEF j
<1> QED
  BY <1>1, <1>4, <1>5, <1>7, <1>8, <1>9, <1>10, <1>11, <1>12, <1>13, InvFacts, GoesKeeps

(* The backup is there, or nothing is remembered of the file. *)
LEMMA KeptFacts ==
  ASSUME FilesInv, File \in Files, NEW done \in BOOLEAN, Kept(done)
  PROVE  /\ hist' \in History /\ hist'.foreign = hist.foreign
         /\ Saved(File, hist')
         /\ Remembers(hist, hist')
         /\ \A f \in Files \ {File} : hist'.orig[f] = hist.orig[f] /\ (f \in hist'.kept <=> f \in hist.kept)
         /\ hist'.orig[File] # << >> =>
              done /\ hist'.orig[File] = hist.orig[File] /\ File \in hist'.kept
<1>1. hist \in History
  BY InvFacts
<1>2. CASE hist.orig[File] = << >> \/ ~done
  <2>1. hist' = Forget
    BY <1>2 DEF Kept
  <2>2. /\ Forget \in History /\ Forget.foreign = hist.foreign
        /\ Forget.orig[File] = << >> /\ Forget.kept = hist.kept \ {File}
        /\ \A f \in Files \ {File} : Forget.orig[f] = hist.orig[f]
        /\ Remembers(hist, Forget)
    BY ForgetFacts
  <2> HIDE DEF Forget, File
  <2> QED
    BY <2>1, <2>2 DEF Saved
<1>3. CASE ~(hist.orig[File] = << >> \/ ~done)
  <2> DEFINE n == File
  <2>1. hist' = [hist EXCEPT !.kept = @ \cup {n}] /\ n \in Files
    BY <1>3 DEF Kept
  <2> HIDE DEF n
  <2>2. hist' \in History /\ hist'.foreign = hist.foreign
        /\ hist'.orig = hist.orig /\ hist'.kept = hist.kept \cup {n}
    BY <1>1, <2>1 DEF History
  <2> QED
    BY <1>3, <2>2 DEF Saved, Remembers, n
<1> QED
  BY <1>2, <1>3

(* The backup has been made, or could not be. *)
LEMMA BackupMade ==
  ASSUME FilesInv, stack # << >>, J.pc \in {"link", "copy"}, NEW done \in BOOLEAN,
         NEW v \in OnDisk, Kept(done),
         NEW pc \in {"unlink", "creat"}, Become([J EXCEPT !.pc = pc]),
         disk' = disk \/ disk' = [disk EXCEPT ![Bak(File)] = v],
         v.mtime <= clock,
         done /\ hist.orig[File] # << >> =>
           disk' = [disk EXCEPT ![Bak(File)] = v] /\ v.mtime > 0 /\ v.text = disk[The(File)].text,
         buf' = buf, err' = err, clock' = clock
  PROVE  FilesInv'
<1> DEFINE j == [J EXCEPT !.pc = pc]
<1>1. /\ j \in Job /\ j.do = J.do /\ j.todo = J.todo /\ j.name = J.name /\ j.b = J.b
      /\ j.pc = pc /\ j.modcnt = J.modcnt /\ j.at = J.at /\ j.met = J.met
  BY GoesFacts DEF Pcs
<1>2. Become(j)
  OBVIOUS
<1> HIDE DEF j
<1>3. Saves(J.do) /\ J.do # "checkpoint" /\ Ready(J, disk, buf, hist) /\ File \notin hist.kept
  BY TopFacts DEF Ready, Formed, Saves, File
<1>4. File \in Files /\ Bak(File) \in Names /\ The(File) \in Names
  BY <1>3, FileFacts, NameFacts
<1>5. /\ hist' \in History /\ hist'.foreign = hist.foreign
      /\ Saved(File, hist')
      /\ Remembers(hist, hist')
      /\ \A f \in Files \ {File} : hist'.orig[f] = hist.orig[f] /\ (f \in hist'.kept <=> f \in hist.kept)
      /\ hist'.orig[File] # << >> =>
           done /\ hist'.orig[File] = hist.orig[File] /\ File \in hist'.kept
  BY <1>4, KeptFacts
<1>6. /\ disk' \in Disks
      /\ \A m \in Names \ {Bak(File)} : disk'[m] = disk[m]
      /\ \A m \in Names : disk'[m].mtime <= clock
      /\ done /\ hist.orig[File] # << >> => disk'[Bak(File)] = v
  <2>1. CASE disk' = disk
    <3>1. done /\ hist.orig[File] # << >> => disk'[Bak(File)] = v
      BY <1>4, <2>1, OneChanged
    <3> QED
      BY <2>1, <3>1, InvFacts, Untouched
  <2>2. CASE disk' = [disk EXCEPT ![Bak(File)] = v]
    BY <1>4, <2>2, OneChanged
  <2> QED
    BY <2>1, <2>2
<1>7. \A f \in Files : disk'[The(f)] = disk[The(f)] /\ (f # File => disk'[Bak(f)] = disk[Bak(f)])
  BY <1>6, NameFacts
<1>8. Undisturbed(disk', buf', hist')
  BY <1>5, <1>7 DEF Undisturbed
<1>9. Ready(j, disk', buf', hist')
  <2>1. j.name[2] = File
    BY <1>1 DEF File
  <2>2. Saves(j.do) /\ j.do # "checkpoint"
    BY <1>1, <1>3
  <2>3. j.pc \in {"unlink", "creat"}
    BY <1>1
  <2> QED
    BY <1>1, <1>3, <1>5, <2>1, <2>2, <2>3, ReadyGoes
<1>10. Backups(disk', hist')
  <2> SUFFICES ASSUME NEW f \in Files, hist'.orig[f] # << >>
               PROVE  Begins(disk', IF f \in hist'.kept THEN Bak(f) ELSE The(f), hist'.orig[f])
    BY DEF Backups
  <2>1. CASE f = File
    <3>1. done /\ hist'.orig[f] = hist.orig[f] /\ f \in hist'.kept /\ hist.orig[f] # << >>
      BY <1>5, <2>1
    <3>2. disk'[Bak(f)] = v /\ v.mtime > 0 /\ v.text = disk[The(f)].text
      BY <1>6, <2>1, <3>1
    <3>3. Begins(disk, The(f), hist.orig[f])
      BY <1>3, <2>1, <3>1, InvFacts DEF Backups
    <3> QED
      BY <3>1, <3>2, <3>3 DEF Begins
  <2>2. CASE f # File
    <3>1. hist'.orig[f] = hist.orig[f] /\ (f \in hist'.kept <=> f \in hist.kept)
      BY <1>5, <2>2
    <3>2. Begins(disk, IF f \in hist.kept THEN Bak(f) ELSE The(f), hist.orig[f])
      BY <3>1, InvFacts DEF Backups
    <3>3. disk'[The(f)] = disk[The(f)] /\ disk'[Bak(f)] = disk[Bak(f)]
      BY <1>7, <2>2
    <3> QED
      BY <3>1, <3>2, <3>3 DEF Begins
  <2> QED
    BY <2>1, <2>2
<1> QED
  BY <1>1, <1>2, <1>5, <1>6, <1>7, <1>8, <1>9, <1>10, InvFacts, GoesKeeps

LEMMA LinkBackupKeeps ==
  ASSUME FilesInv, NEW done \in BOOLEAN, LinkBackup(done)
  PROVE  FilesInv'
<1> DEFINE v == [ text |-> disk[J.name].text, mtime |-> 1 ]
<1>1. /\ stack # << >> /\ J.pc = "link" /\ Become([J EXCEPT !.pc = "unlink"]) /\ Kept(done)
      /\ disk' = IF done /\ Exists(J.name) THEN [disk EXCEPT ![Bak(File)] = v] ELSE disk
      /\ buf' = buf /\ err' = err /\ clock' = clock
  BY DEF LinkBackup, At, Goes
<1>2. J.do # "checkpoint" /\ Ready(J, disk, buf, hist) /\ File \notin hist.kept
  BY <1>1, TopFacts DEF Ready, Formed, Saves, File
<1>3. File \in Files /\ J.name = The(File) /\ J.name \in Names
  BY <1>1, <1>2, FileFacts
<1>4. v \in OnDisk /\ v.mtime = 1 /\ v.text = disk[The(File)].text /\ v.mtime <= clock
  BY <1>3, InvFacts, DisksFacts DEF OnDisk
<1>5. hist.orig[File] # << >> => Exists(J.name)
  BY <1>2, <1>3, InvFacts DEF Backups, Begins, Exists
<1> HIDE DEF v
<1>6. v.mtime > 0
  BY <1>4
<1> QED
  BY <1>1, <1>4, <1>5, <1>6, BackupMade

LEMMA CopyBackupKeeps ==
  ASSUME FilesInv, NEW done \in BOOLEAN, CopyBackup(done)
  PROVE  FilesInv'
<1> DEFINE old == disk[Bak(File)]
           v == [ old EXCEPT !.text = disk[J.name].text ]
<1>1. /\ stack # << >> /\ J.pc = "copy" /\ Become([J EXCEPT !.pc = "creat"]) /\ Kept(done)
      /\ disk' = IF done THEN [disk EXCEPT ![Bak(File)].text = disk[J.name].text] ELSE disk
      /\ buf' = buf /\ err' = err /\ clock' = clock
  BY DEF CopyBackup, At, Goes
<1>2. J.do # "checkpoint" /\ Ready(J, disk, buf, hist) /\ old.mtime > 0
  BY <1>1, TopFacts DEF Ready, Formed, Saves, File
<1>3. File \in Files /\ J.name = The(File) /\ J.name \in Names /\ Bak(File) \in Names
  BY <1>1, <1>2, FileFacts, NameFacts
<1>4. old \in OnDisk /\ old.mtime <= clock /\ disk[J.name].text \in Seq(Pieces)
  BY <1>3, InvFacts, DisksFacts, Untouched
<1>5. disk' = IF done THEN [disk EXCEPT ![Bak(File)] = v] ELSE disk
  BY <1>1
<1> HIDE DEF old
<1>6. v \in OnDisk /\ v.mtime = old.mtime /\ v.text = disk[The(File)].text
  BY <1>3, <1>4 DEF OnDisk
<1> HIDE DEF v
<1> QED
  BY <1>1, <1>2, <1>4, <1>5, <1>6, BackupMade

LEMMA AddNewlineKeeps ==
  ASSUME FilesInv, NEW aborted \in BOOLEAN, AddNewline(aborted)
  PROVE  FilesInv'
<1> DEFINE j == [J EXCEPT !.pc = "write"]
<1>1. /\ stack # << >> /\ J.pc = "newline" /\ Become(j)
      /\ buf' \in Edited(J.b) /\ err' = aborted
      /\ disk' = disk /\ clock' = clock /\ hist' = hist
  BY DEF AddNewline, At, Goes
<1>2. /\ j \in Job /\ j.do = J.do /\ j.todo = J.todo /\ j.name = J.name /\ j.b = J.b
      /\ j.pc = "write" /\ j.modcnt = J.modcnt /\ j.at = J.at /\ j.met = J.met
  BY <1>1, GoesFacts DEF Pcs
<1> HIDE DEF j
<1>3. Ready(J, disk, buf, hist) /\ J.do # "checkpoint" /\ J.b \in Buffers
  BY <1>1, TopFacts DEF Ready, Formed
<1>4. /\ buf' \in Bufs
      /\ \A c \in Buffers \ {J.b} : buf'[c] = buf[c]
      /\ buf'[J.b].modtime = buf[J.b].modtime /\ buf'[J.b].fname = buf[J.b].fname
      /\ buf'[J.b].ckpfn = buf[J.b].ckpfn
      /\ buf'[J.b].checkpointed = buf[J.b].checkpointed
  BY <1>1, <1>3, InvFacts, EditedShape
<1>5. /\ \A c \in Buffers : buf'[c].fname = buf[c].fname /\ buf'[c].modtime = buf[c].modtime
      /\ NoneMade(buf')
  BY <1>3, <1>4, InvFacts DEF NoneMade
<1>6. Ready(j, disk', buf', hist')
  BY <1>1, <1>2, <1>3, <1>4 DEF Ready, Formed, InPlace
<1>7. Undisturbed(disk', buf', hist')
  BY <1>1, <1>5 DEF Undisturbed, Remembers
<1>8. Backups(disk', hist') /\ hist' \in History /\ disk' \in Disks /\ err' \in BOOLEAN
  BY <1>1, InvFacts
<1>9. /\ hist'.foreign \subseteq hist.foreign
      /\ \A n \in Names : disk'[n].mtime <= clock
      /\ \A f \in Files : disk'[The(f)].mtime \in { 0, clock, disk[The(f)].mtime }
  BY <1>1, Untouched
<1> QED
  BY <1>1, <1>2, <1>4, <1>5, <1>6, <1>7, <1>8, <1>9, GoesKeeps

(* creat, and the write hook, that may edit the text. *)
LEMMA OpenedFacts ==
  ASSUME FilesInv, stack # << >>
  PROVE  /\ Opened \in OnDisk /\ Opened.mtime <= clock
         /\ Opened.mtime \in { clock, disk[J.name].mtime } /\ Opened.mtime > 0
         /\ J.do # "append" => Opened.text = << >>
         /\ J.do = "append" /\ disk[J.name].mtime > 0 => Opened = disk[J.name]
<1> DEFINE empty == [ text |-> << >>, mtime |-> clock ]
<1>1. J.name \in Names
  BY TopFacts DEF Ready, Formed
<1>2. /\ disk[J.name] \in OnDisk /\ disk[J.name].mtime <= clock /\ disk[J.name].mtime \in Nat
      /\ clock \in Nat /\ clock > 0
  BY <1>1, InvFacts, DisksFacts, Untouched
<1>3. empty \in OnDisk /\ empty.text = << >> /\ empty.mtime = clock
  BY <1>2 DEF OnDisk
<1>4. Opened = IF J.do = "append" /\ disk[J.name].mtime > 0 THEN disk[J.name] ELSE empty
  BY DEF Opened, Exists
<1> HIDE DEF empty
<1> QED
  BY <1>2, <1>3, <1>4

LEMMA HookFacts ==
  ASSUME FilesInv, stack # << >>, buf' \in Edited(J.b) \/ buf' = buf
  PROVE  /\ buf' \in Bufs /\ NoneMade(buf')
         /\ \A c \in Buffers : buf'[c].fname = buf[c].fname /\ buf'[c].modtime = buf[c].modtime
         /\ buf'[J.b].ckpfn = buf[J.b].ckpfn
         /\ buf[J.b].checkpointed < buf[J.b].modified => buf'[J.b].checkpointed < buf'[J.b].modified
<1>1. buf \in Bufs /\ NoneMade(buf) /\ J.b \in Buffers
  BY InvFacts, TopFacts
<1>2. CASE buf' \in Edited(J.b)
  <2>1. /\ buf' \in Bufs
        /\ \A c \in Buffers \ {J.b} : buf'[c] = buf[c]
        /\ buf'[J.b].modified = buf[J.b].modified + 1
        /\ buf'[J.b].modtime = buf[J.b].modtime /\ buf'[J.b].fname = buf[J.b].fname
        /\ buf'[J.b].ckpfn = buf[J.b].ckpfn
        /\ buf'[J.b].checkpointed = buf[J.b].checkpointed
    BY <1>1, <1>2, EditedShape
  <2>2. buf[J.b].modified \in Nat /\ buf[J.b].checkpointed \in Nat
    BY <1>1, BufsFacts
  <2> QED
    BY <1>1, <2>1, <2>2 DEF NoneMade
<1>3. CASE buf' = buf
  BY <1>1, <1>3
<1> QED
  BY <1>2, <1>3

(* The file is emptied when the backup is there, or given up. *)
CreatHist == IF Saves(J.do) /\ File \notin hist.kept THEN Forget ELSE hist

LEMMA CreatHistFacts ==
  ASSUME FilesInv, stack # << >>, hist' = CreatHist
  PROVE  /\ hist' \in History /\ hist'.foreign = hist.foreign
         /\ Saves(J.do) => Saved(File, hist')
         /\ Remembers(hist, hist')
         /\ \A f \in Files : hist'.orig[f] # << >> =>
              /\ hist'.orig[f] = hist.orig[f] /\ (f \in hist'.kept <=> f \in hist.kept)
              /\ Saves(J.do) /\ f = File => f \in hist.kept
<1>1. CASE Saves(J.do) /\ File \notin hist.kept
  <2>1. hist' = Forget
    BY <1>1 DEF CreatHist
  <2>2. File \in Files
    BY <1>1, FileFacts DEF Saves
  <2>3. /\ Forget \in History /\ Forget.foreign = hist.foreign
        /\ Forget.orig[File] = << >> /\ Forget.kept = hist.kept \ {File}
        /\ \A f \in Files \ {File} : Forget.orig[f] = hist.orig[f]
        /\ Remembers(hist, Forget)
    BY <2>2, ForgetFacts
  <2> HIDE DEF Forget, File
  <2> QED
    BY <1>1, <2>1, <2>3 DEF Saved
<1>2. CASE ~(Saves(J.do) /\ File \notin hist.kept)
  <2>1. hist' = hist
    BY <1>2 DEF CreatHist
  <2> HIDE DEF File
  <2> QED
    BY <1>2, <2>1, InvFacts DEF Saved, Remembers
<1> QED
  BY <1>1, <1>2

LEMMA CreatKeeps ==
  ASSUME FilesInv, NEW hook \in {"nothing", "edits", "fails"}, Creat(hook)
  PROVE  FilesInv'
<1>1. /\ stack # << >> /\ J.pc \in {"creat", "look", "agreed"}
      /\ disk' = [disk EXCEPT ![J.name] = Opened]
      /\ buf' \in Edited(J.b) \/ buf' = buf
      /\ err' = (err \/ hook = "fails")
      /\ hist' = CreatHist
      /\ clock' = clock
  BY DEF Creat, CanOpen, Agreed, At, CreatHist
<1>2. PICK pc \in {"newline", "write"} :
        /\ Become([J EXCEPT !.pc = pc, !.at = Len(Opened.text), !.met = "nobody"])
        /\ pc = "newline" => J.do # "checkpoint"
  BY DEF Creat
<1> DEFINE n == Len(Opened.text)
           j == [J EXCEPT !.pc = pc, !.at = n, !.met = "nobody"]
<1>3. /\ j \in Job /\ j.do = J.do /\ j.todo = J.todo /\ j.name = J.name /\ j.b = J.b
      /\ j.pc = pc /\ j.modcnt = J.modcnt /\ j.at = n /\ j.met = "nobody"
  <2>1. J \in Job /\ n \in Nat
    BY <1>1, TopFacts, OpenedFacts DEF OnDisk
  <2> HIDE DEF J, n
  <2> QED
    BY <2>1 DEF Job, Pcs, Questions
<1>4. Become(j)
  BY <1>2
<1> HIDE DEF j
<1>5. Ready(J, disk, buf, hist) /\ J.b \in Buffers /\ J.name \in Names
  BY <1>1, TopFacts DEF Ready, Formed
<1>6. /\ buf' \in Bufs /\ NoneMade(buf')
      /\ \A c \in Buffers : buf'[c].fname = buf[c].fname /\ buf'[c].modtime = buf[c].modtime
      /\ buf'[J.b].ckpfn = buf[J.b].ckpfn
      /\ buf[J.b].checkpointed < buf[J.b].modified => buf'[J.b].checkpointed < buf'[J.b].modified
  BY <1>1, HookFacts
<1>7. /\ hist' \in History /\ hist'.foreign = hist.foreign
      /\ Saves(J.do) => Saved(File, hist')
      /\ Remembers(hist, hist')
      /\ \A f \in Files : hist'.orig[f] # << >> =>
           /\ hist'.orig[f] = hist.orig[f] /\ (f \in hist'.kept <=> f \in hist.kept)
           /\ Saves(J.do) /\ f = File => f \in hist.kept
  BY <1>1, CreatHistFacts
<1>8. /\ Opened \in OnDisk /\ Opened.mtime <= clock
      /\ Opened.mtime \in { clock, disk[J.name].mtime } /\ Opened.mtime > 0
      /\ J.do # "append" => Opened.text = << >>
      /\ J.do = "append" /\ disk[J.name].mtime > 0 => Opened = disk[J.name]
  BY <1>1, OpenedFacts
<1>9. /\ disk' \in Disks /\ disk'[J.name] = Opened
      /\ \A m \in Names \ {J.name} : disk'[m] = disk[m]
      /\ \A m \in Names : disk'[m].mtime <= clock
  BY <1>1, <1>5, <1>8, OneChanged
<1> HIDE DEF File, Opened
<1>10. Ready(j, disk', buf', hist')
  <2>1. Saves(j.do) => Saved(j.name[2], hist')
    BY <1>3, <1>7 DEF File
  <2>2. InPlace(j, disk', buf', hist')
    <3>1. disk'[j.name].text = Opened.text /\ Opened.text \in Seq(Pieces)
      BY <1>3, <1>8, <1>9 DEF OnDisk
    <3>2. j.do # "append" => j.at = 0 /\ disk'[j.name].text = << >>
      BY <1>3, <1>8, <3>1
    <3>3. j.at <= Len(disk'[j.name].text)
      BY <1>3, <3>1
    <3>4. ASSUME j.do = "append", ~Saved(j.name[2], hist') PROVE Len(hist'.orig[j.name[2]]) <= j.at
      <4>1. hist' = hist /\ File \in Files /\ J.name = The(File) /\ j.name[2] = File
        BY <1>1, <1>3, <3>4, FileFacts DEF CreatHist, Saves, File
      <4>2. Begins(disk, The(File), hist.orig[File])
        BY <3>4, <4>1, InvFacts DEF Backups, Saved
      <4>3. disk[J.name].mtime > 0 /\ IsPrefix(hist.orig[File], disk[J.name].text)
        BY <4>1, <4>2 DEF Begins
      <4>4. Opened = disk[J.name]
        BY <1>3, <1>8, <3>4, <4>3
      <4> QED
        BY <1>3, <4>1, <4>3, <4>4 DEF IsPrefix
    <3> QED
      BY <1>3, <3>2, <3>3, <3>4 DEF InPlace
  <2>3. Formed(j) /\ (Saves(j.do) => j.name = The(buf'[j.b].fname))
    BY <1>2, <1>3, <1>5, <1>6 DEF Ready, Formed
  <2>4. j.do = "checkpoint" => /\ j.name = Ckp(buf'[j.b].ckpfn)
                               /\ buf'[j.b].checkpointed < buf'[j.b].modified
    BY <1>3, <1>5, <1>6 DEF Ready
  <2> QED
    BY <1>3, <2>1, <2>2, <2>3, <2>4 DEF Ready
<1>11. Undisturbed(disk', buf', hist')
  BY <1>6, <1>7, <1>9, NameFacts DEF Undisturbed
<1>12. Backups(disk', hist')
  <2> SUFFICES ASSUME NEW f \in Files, hist'.orig[f] # << >>
               PROVE  Begins(disk', IF f \in hist'.kept THEN Bak(f) ELSE The(f), hist'.orig[f])
    BY DEF Backups
  <2>1. hist'.orig[f] = hist.orig[f] /\ (f \in hist'.kept <=> f \in hist.kept)
    BY <1>7
  <2>2. Begins(disk, IF f \in hist.kept THEN Bak(f) ELSE The(f), hist.orig[f])
    BY <2>1, InvFacts DEF Backups
  <2>3. disk'[Bak(f)] = disk[Bak(f)]
    <3>1. J.name # Bak(f)
      BY <1>5, <1>1, FileFacts, NameFacts DEF Ready
    <3> QED
      BY <1>9, <3>1, NameFacts
  <2>4. f \notin hist.kept => disk'[The(f)] = disk[The(f)]
    <3>1. CASE J.name # The(f)
      BY <1>9, <3>1, NameFacts
    <3>2. CASE J.name = The(f)
      <4>1. J.do \in {"write", "append", "modwrite"} /\ File = f
        BY <1>1, <1>5, <3>2, TopFacts, NameFacts DEF Ready, Job, Kinds, File
      <4>2. f \notin hist.kept => J.do = "append"
        BY <1>7, <4>1 DEF Saves
      <4>3. f \notin hist.kept => disk[J.name].mtime > 0
        BY <2>2, <3>2 DEF Begins
      <4> QED
        BY <1>8, <1>9, <3>2, <4>2, <4>3
    <3> QED
      BY <3>1, <3>2
  <2> QED
    BY <2>1, <2>2, <2>3, <2>4 DEF Begins
<1>13. \A f \in Files : disk'[The(f)].mtime \in { 0, clock, disk[The(f)].mtime }
  BY <1>8, <1>9, NameFacts
<1>14. err' \in BOOLEAN
  BY <1>1, InvFacts
<1> QED
  BY <1>1, <1>3, <1>4, <1>6, <1>7, <1>9, <1>10, <1>11, <1>12, <1>13, <1>14, GoesKeeps

(* A write goes over what stands in its way, and keeps what is before it. *)
LEMMA OverFacts ==
  ASSUME NEW t \in Seq(Pieces), NEW at \in Nat, at <= Len(t), NEW u \in Seq(Pieces)
  PROVE  /\ Over(t, at, u) \in Seq(Pieces)
         /\ t = << >> => Over(t, at, u) = u
         /\ \A o \in Seq(Pieces) : IsPrefix(o, t) /\ Len(o) <= at => IsPrefix(o, Over(t, at, u))
<1> DEFINE a == SubSeq(t, 1, at)
           n == at + Len(u) + 1
           c == SubSeq(t, n, Len(t))
<1>1. a \in Seq(Pieces) /\ Len(a) = at /\ n \in Nat /\ n > 0
  OBVIOUS
<1>2. \A k \in 1..at : a[k] = t[k]
  OBVIOUS
<1> HIDE DEF n
<1>3. c \in Seq(Pieces)
  <2>1. CASE n <= Len(t)
    BY <1>1, <2>1
  <2>2. CASE ~(n <= Len(t))
    BY <1>1, <2>2
  <2> QED
    BY <2>1, <2>2
<1>4. Over(t, at, u) = (a \o u) \o c
  BY DEF Over, n
<1>5. t = << >> => a = << >> /\ c = << >>
  BY <1>1
<1> HIDE DEF a, c
<1>6. a \o u \in Seq(Pieces) /\ u \o c \in Seq(Pieces)
  BY <1>1, <1>3
<1>7. (a \o u) \o c \in Seq(Pieces)
  BY <1>3, <1>6
<1>8. t = << >> => (a \o u) \o c = u
  <2> SUFFICES ASSUME t = << >> PROVE (a \o u) \o c = u
    OBVIOUS
  <2>1. a = << >> /\ c = << >>
    BY <1>5
  <2>2. << >> \o u = u /\ u \o << >> = u
    OBVIOUS
  <2> QED
    BY <2>1, <2>2
<1>9. ASSUME NEW o \in Seq(Pieces), IsPrefix(o, t), Len(o) <= at
      PROVE  IsPrefix(o, (a \o u) \o c)
  <2>1. Len(o) \in Nat /\ Len(o) <= Len(a)
    BY <1>1, <1>9
  <2>2. \A k \in 1..Len(o) : o[k] = t[k]
    BY <1>9, PrefixPoints
  <2>3. \A k \in 1..Len(o) : o[k] = a[k]
    BY <1>1, <1>2, <2>1, <2>2, <1>9
  <2>4. IsPrefix(o, a)
    BY <1>1, <2>1, <2>3, PrefixByPoints
  <2>5. IsPrefix(o, a \o u)
    BY <1>1, <2>4, PrefixOfLonger
  <2> QED
    BY <1>3, <1>6, <2>5, PrefixOfLonger
<1> QED
  BY <1>4, <1>7, <1>8, <1>9

LEMMA WrittenFacts ==
  ASSUME FilesInv, stack # << >>, J.pc = "write", NEW k \in Nat, Fits(k)
  PROVE  LET D == Written(k)
             n == J.name
         IN  /\ D \in Disks /\ \A m \in Names \ {n} : D[m] = disk[m]
             /\ \A m \in Names : D[m].mtime <= clock
             /\ J.do # "append" /\ J.met = "nobody" /\ ~(k < Len(buf[J.b].text))
                  => D[n].text = buf[J.b].text
             /\ Undisturbed(D, buf, hist) /\ Backups(D, hist)
             /\ \A f \in Files : D[The(f)].mtime \in { 0, clock, disk[The(f)].mtime }
<1> DEFINE D == Written(k)
           n == J.name
           t == buf[J.b].text
           u == SubSeq(t, 1, k)
           o == disk[n].text
           v == [ text |-> Over(o, J.at, u), mtime |-> clock ]
<1>1. n \in Names /\ J.b \in Buffers /\ (J.do # "checkpoint" => n \in { The(f) : f \in Files })
  BY TopFacts DEF Ready, Formed
<1>2. /\ disk \in Disks /\ o \in Seq(Pieces)
      /\ clock \in Nat /\ clock > 0 /\ \A x \in Names : disk[x].mtime <= clock
      /\ t \in Seq(Pieces)
  BY <1>1, InvFacts, DisksFacts, BufsFacts, Untouched
<1>3. k <= Len(t) /\ u \in Seq(Pieces) /\ Len(u) = k /\ (k = Len(t) => u = t)
  BY <1>2 DEF Fits
<1>4. /\ J.at \in Nat /\ InPlace(J, disk, buf, hist)
      /\ Saves(J.do) => Saved(J.name[2], hist)
  BY TopFacts DEF Ready, Job
<1>a. Undisturbed(disk, buf, hist) /\ Backups(disk, hist)
  BY InvFacts, Untouched
<1>5. CASE J.met = "replaced" \/ k = 0
  <2>1. D = disk
    BY <1>5 DEF Written
  <2>2. ASSUME J.do # "append", J.met = "nobody", ~(k < Len(t)) PROVE disk[n].text = t
    <3>1. k = 0 /\ Len(t) = 0
      BY <1>2, <1>3, <1>5, <2>2
    <3>2. t = << >> /\ disk[n].text = << >>
      BY <1>2, <1>4, <2>2, <3>1 DEF InPlace
    <3> QED
      BY <3>2
  <2> HIDE DEF D
  <2> QED
    BY <1>2, <1>a, <2>1, <2>2, Untouched DEF D, n, t
<1>6. CASE ~(J.met = "replaced" \/ k = 0)
  <2>1. D = [disk EXCEPT ![n] = v]
    BY <1>6 DEF Written
  <2>2. J.at <= Len(o)
    BY <1>4, <1>6 DEF InPlace
  <2>3. /\ Over(o, J.at, u) \in Seq(Pieces)
        /\ o = << >> => Over(o, J.at, u) = u
        /\ \A p \in Seq(Pieces) : IsPrefix(p, o) /\ Len(p) <= J.at => IsPrefix(p, Over(o, J.at, u))
    BY <1>2, <1>3, <1>4, <2>2, OverFacts
  <2> HIDE DEF u, D, t
  <2>4. v \in OnDisk /\ v.text = Over(o, J.at, u) /\ v.mtime = clock
    BY <1>2, <2>3 DEF OnDisk
  <2> HIDE DEF v, o
  <2>5. D \in Disks /\ D[n] = v /\ \A x \in Names \ {n} : D[x] = disk[x]
    BY <1>1, <1>2, <2>1, <2>4 DEF Disks
  <2> HIDE DEF n
  <2>6. \A x \in Names : D[x].mtime <= clock
    BY <1>1, <1>2, <2>4, <2>5
  <2>7. ASSUME J.do # "append", J.met = "nobody", ~(k < Len(t)) PROVE D[n].text = t
    <3>1. k = Len(t)
      BY <1>2, <1>3, <2>7
    <3>2. o = << >>
      BY <1>4, <2>7 DEF InPlace, o, n
    <3> QED
      BY <1>3, <2>3, <2>4, <2>5, <3>1, <3>2
  <2>8. Undisturbed(D, buf, hist)
    BY <2>5, NameFacts DEF Undisturbed, n, Remembers
  <2>9. Backups(D, hist)
    <3> SUFFICES ASSUME NEW f \in Files, hist.orig[f] # << >>
                 PROVE  Begins(D, IF f \in hist.kept THEN Bak(f) ELSE The(f), hist.orig[f])
      BY DEF Backups
    <3> DEFINE x == IF f \in hist.kept THEN Bak(f) ELSE The(f)
    <3>1. Begins(disk, x, hist.orig[f]) /\ x \in Names
      BY InvFacts, NameFacts DEF Backups
    <3>2. hist.orig[f] \in Seq(Pieces)
      BY InvFacts DEF History
    <3>3. ASSUME x = n PROVE Begins(D, x, hist.orig[f])
      <4>1. IsPrefix(hist.orig[f], o)
        BY <3>1, <3>3 DEF Begins, o
      <4>2. f \notin hist.kept /\ n = The(f) /\ J.name[2] = f
        BY <1>1, <3>3, FileFacts, NameFacts, TopFacts DEF n, Ready
      <4>3. ~Saved(f, hist)
        BY <4>2 DEF Saved
      <4>4. J.do = "append"
        BY <1>1, <1>4, <4>2, <4>3, TopFacts, NameFacts DEF Job, Kinds, Saves, Ready, n
      <4>5. Len(hist.orig[f]) <= J.at
        BY <1>4, <1>6, <4>2, <4>3, <4>4 DEF InPlace
      <4>6. IsPrefix(hist.orig[f], D[n].text) /\ D[n].mtime > 0
        BY <1>2, <2>3, <2>4, <2>5, <3>2, <4>1, <4>5
      <4> QED
        BY <3>3, <4>6 DEF Begins
    <3> HIDE DEF x
    <3>4. ASSUME x # n PROVE Begins(D, x, hist.orig[f])
      BY <2>5, <3>1, <3>4 DEF Begins
    <3> HIDE DEF Begins
    <3> QED
      BY <3>3, <3>4 DEF x
  <2>10. \A f \in Files : D[The(f)].mtime \in { 0, clock, disk[The(f)].mtime }
    BY <2>4, <2>5, NameFacts
  <2> QED
    BY <2>5, <2>6, <2>7, <2>8, <2>9, <2>10 DEF D, n, t
<1> QED
  BY <1>5, <1>6

LEMMA WriteTextKeeps ==
  ASSUME FilesInv, NEW k \in Nat, WriteText(k)
  PROVE  FilesInv'
<1> DEFINE s == k < Len(buf[J.b].text)
           j == [J EXCEPT !.pc = "close", !.short = s]
           D == Written(k)
           n == J.name
<1>1. /\ stack # << >> /\ J.pc = "write" /\ Become(j) /\ disk' = D /\ Fits(k)
      /\ buf' = buf /\ err' = err /\ clock' = clock /\ hist' = hist
  BY DEF WriteText, At
<1>2. /\ D \in Disks /\ \A m \in Names \ {n} : D[m] = disk[m]
      /\ \A m \in Names : D[m].mtime <= clock
      /\ J.do # "append" /\ J.met = "nobody" /\ ~s => D[n].text = buf[J.b].text
      /\ Undisturbed(D, buf, hist) /\ Backups(D, hist)
      /\ \A f \in Files : D[The(f)].mtime \in { 0, clock, disk[The(f)].mtime }
  BY <1>1, WrittenFacts
<1>3. s \in BOOLEAN
  OBVIOUS
<1> HIDE DEF s, D
<1>4. /\ j \in Job /\ j.do = J.do /\ j.todo = J.todo /\ j.name = J.name /\ j.b = J.b
      /\ j.pc = "close" /\ j.modcnt = J.modcnt /\ j.short = s /\ j.met = J.met
  <2>1. J \in Job
    BY <1>1, TopFacts
  <2> HIDE DEF J
  <2> QED
    BY <1>3, <2>1 DEF Job, Pcs
<1>5. Become(j)
  BY <1>1
<1> HIDE DEF j
<1>6. Ready(j, D, buf, hist)
  <2>1. Ready(J, disk, buf, hist)
    BY <1>1, TopFacts
  <2> QED
    BY <1>1, <1>2, <1>4, <2>1 DEF Ready, Formed, InPlace
<1> QED
  BY <1>1, <1>2, <1>4, <1>5, <1>6, InvFacts, GoesKeeps

(* WriteFile returns, with an error or without. *)
LEMMA ReturnsWith ==
  ASSUME FilesInv, stack # << >>, NEW B, NEW ok \in BOOLEAN, NEW e \in BOOLEAN, NEW D,
         Returns(B, ok, e, D), Left(B, D), Undisturbed(D, buf, hist'), hist' \in History,
         Backups(D, hist'),
         \A n \in Names : D[n].mtime <= clock,
         \A f \in Files : D[The(f)].mtime \in { 0, clock, disk[The(f)].mtime },
         B.modtime <= clock, hist'.foreign \subseteq hist.foreign,
         J.b \in hist'.foreign => B.modtime = buf[J.b].modtime
  PROVE  FilesInv' /\ Returned(B, e, D)
<1> DEFINE E    == Epilogue(B)
           bufs == [buf EXCEPT ![J.b] = E]
<1>1. Returned(B, e, D) /\ Stacked(stack', disk', buf', hist')
  BY ReturnsKeeps
<1>2. /\ disk \in Disks /\ buf \in Bufs /\ clock \in Nat /\ Times(disk, buf, clock, hist)
      /\ J.b \in Buffers /\ B \in Buf /\ B.fname = buf[J.b].fname
  BY InvFacts, TopFacts DEF Left
<1>3. E \in Buf /\ E.fname = B.fname /\ E.modtime = B.modtime
  BY <1>2, EpilogueFacts
<1> HIDE DEF E
<1>4. bufs[J.b] = E /\ \A c \in Buffers \ {J.b} : bufs[c] = buf[c]
  BY <1>2 DEF Bufs
<1> HIDE DEF bufs
<1>5. Times(D, bufs, clock, hist')
  <2>1. \A c \in Buffers : bufs[c].modtime <= clock
    BY <1>2, <1>3, <1>4 DEF Times
  <2>2. \A c \in Buffers : c \in hist'.foreign /\ bufs[c].modtime # 0 =>
          c \in hist.foreign /\ bufs[c].modtime = buf[c].modtime /\ bufs[c].fname = buf[c].fname
    BY <1>2, <1>3, <1>4
  <2>3. bufs \in Bufs /\ clock <= clock
    BY <1>1, <1>2 DEF Returned, bufs, E
  <2>4. \A n \in Names : D[n].mtime <= clock
    OBVIOUS
  <2>5. \A f \in Files : D[The(f)].mtime \in { 0, clock, disk[The(f)].mtime }
    OBVIOUS
  <2> QED
    BY <1>2, <2>1, <2>2, <2>3, <2>4, <2>5, TimesKept, ZenonT(40)
<1> QED
  BY <1>1, <1>5, ReturnedKeeps DEF bufs, E

LEMMA LeftAlone ==
  ASSUME FilesInv, stack # << >>, NEW D \in Disks
  PROVE  Left(buf[J.b], D) /\ buf[J.b].modtime <= clock
BY InvFacts, TopFacts, BufsFacts DEF Left, Times

LEMMA FailsKeeps ==
  ASSUME FilesInv, stack # << >>, Fails
  PROVE  FilesInv' /\ Returned(buf[J.b], TRUE, disk)
<1>1. Returns(buf[J.b], FALSE, TRUE, disk) /\ hist' = hist
  BY DEF Fails
<1>2. Left(buf[J.b], disk) /\ buf[J.b].modtime <= clock
  BY InvFacts, LeftAlone
<1>3. /\ Undisturbed(disk, buf, hist)
      /\ \A n \in Names : disk[n].mtime <= clock
      /\ \A f \in Files : disk[The(f)].mtime \in { 0, clock, disk[The(f)].mtime }
  BY Untouched
<1>4. hist \in History /\ Backups(disk, hist)
  BY InvFacts
<1> QED
  BY <1>1, <1>2, <1>3, <1>4, ReturnsWith

LEMMA IOErrorKeeps ==
  ASSUME FilesInv, NEW k \in Nat, IOError(k)
  PROVE  FilesInv' /\ Returned(buf[J.b], TRUE, Written(k))
<1> DEFINE D == Written(k)
<1>1. /\ stack # << >> /\ J.pc = "write" /\ Fits(k)
      /\ Returns(buf[J.b], FALSE, TRUE, D) /\ hist' = hist
  BY DEF IOError, At
<1>2. /\ D \in Disks
      /\ \A m \in Names : D[m].mtime <= clock
      /\ Undisturbed(D, buf, hist) /\ Backups(D, hist)
      /\ \A f \in Files : D[The(f)].mtime \in { 0, clock, disk[The(f)].mtime }
  BY <1>1, WrittenFacts
<1> HIDE DEF D
<1>3. Left(buf[J.b], D) /\ buf[J.b].modtime <= clock
  BY <1>1, <1>2, LeftAlone
<1>4. hist \in History
  BY InvFacts
<1> QED
  BY <1>1, <1>2, <1>3, <1>4, ReturnsWith DEF D

LEMMA ClosedFacts ==
  ASSUME FilesInv, stack # << >>
  PROVE  LET B == Closed(buf[J.b])
         IN  /\ Left(B, disk) /\ B.modtime <= clock /\ B.text = buf[J.b].text
             /\ err => B = buf[J.b]
             /\ ~err => B.modified = 0 /\ B.checkpointed = 0 /\ B.modtime = disk[J.name].mtime
<1> DEFINE R == [buf[J.b] EXCEPT !.modified = 0, !.modtime = disk[J.name].mtime, !.checkpointed = 0]
           t == disk[J.name].mtime
<1>1. J.b \in Buffers /\ J.name \in Names
  BY TopFacts DEF Ready, Formed
<1>2. disk \in Disks /\ buf[J.b] \in Buf /\ t \in Nat /\ t <= clock
  BY <1>1, InvFacts, DisksFacts, BufsFacts, Untouched
<1>3. CASE err
  BY <1>2, <1>3, LeftAlone DEF Closed
<1>4. CASE ~err
  <2>1. Closed(buf[J.b]) = R
    BY <1>4 DEF Closed
  <2> HIDE DEF t
  <2>2. /\ R \in Buf /\ R.modified = 0 /\ R.modtime = t /\ R.checkpointed = 0
        /\ R.fname = buf[J.b].fname /\ R.ckpfn = buf[J.b].ckpfn /\ R.text = buf[J.b].text
    BY <1>2 DEF Buf, t
  <2> HIDE DEF R
  <2> QED
    BY <1>2, <1>4, <2>1, <2>2 DEF Left, t
<1> QED
  BY <1>3, <1>4

LEMMA CloseKeeps ==
  ASSUME FilesInv, Close
  PROVE  FilesInv' /\ Returned(Closed(buf[J.b]), err, disk)
<1> DEFINE B == Closed(buf[J.b])
           b == J.b
<1>1. /\ stack # << >> /\ Returns(B, TRUE, err, disk)
      /\ hist' = IF err THEN hist ELSE Seen(b)
  BY DEF Close, At
<1>2. /\ Left(B, disk) /\ B.modtime <= clock
      /\ err => B = buf[b]
  BY <1>1, ClosedFacts
<1>3. hist \in History /\ Backups(disk, hist) /\ err \in BOOLEAN
  BY InvFacts
<1> HIDE DEF B, b
<1>4. /\ hist' \in History /\ hist'.orig = hist.orig /\ hist'.kept = hist.kept
      /\ hist'.foreign \subseteq hist.foreign /\ (~err => b \notin hist'.foreign)
  BY <1>1, <1>3 DEF Seen, History
<1>5. Backups(disk, hist')
  BY <1>3, <1>4 DEF Backups
<1>6. Undisturbed(disk, buf, hist')
  BY <1>4, Untouched DEF Undisturbed, Saved, Remembers
<1>7. /\ \A n \in Names : disk[n].mtime <= clock
      /\ \A f \in Files : disk[The(f)].mtime \in { 0, clock, disk[The(f)].mtime }
  BY Untouched
<1>8. b \in hist'.foreign => B.modtime = buf[b].modtime
  BY <1>2, <1>4
<1> QED
  BY <1>1, <1>2, <1>3, <1>4, <1>5, <1>6, <1>7, <1>8, ReturnsWith DEF B, b

LEMMA IgnoreItKeeps ==
  ASSUME FilesInv, IgnoreIt
  PROVE  FilesInv' /\ OnlyCkpfn(buf, buf')
<1>1. /\ stack # << >> /\ J.pc = "ignore" /\ Continue(J, buf, Tail(stack))
      /\ err' = FALSE /\ disk' = disk /\ clock' = clock /\ hist' = hist
  BY DEF IgnoreIt, At
<1>2. /\ J \in Job /\ Tail(stack) \in Seq(Job) /\ J.do = "modwrite"
      /\ Waiting(Tail(stack), disk, buf, hist) /\ Clear(J, Tail(stack))
  BY <1>1, TopFacts DEF Ready, Formed
<1>3. MayGoOn(J, buf, Tail(stack))
  BY <1>2 DEF MayGoOn, Clear, Apart
<1>4. /\ disk \in Disks /\ buf \in Bufs /\ NoneMade(buf) /\ clock \in Nat /\ clock > 0 /\ hist \in History
      /\ Backups(disk, hist) /\ Times(disk, buf, clock, hist)
  BY InvFacts
<1>5. /\ stack' \in Seq(Job) /\ buf' \in Bufs /\ NoneMade(buf') /\ OnlyCkpfn(buf, buf')
      /\ Stacked(stack', disk, buf', hist)
  BY <1>1, <1>2, <1>3, <1>4, ContinueKeeps
<1>6. \A b \in Buffers : buf'[b].modtime = buf[b].modtime /\ buf'[b].fname = buf[b].fname
  BY <1>5 DEF OnlyCkpfn
<1>7. Times(disk, buf', clock, hist)
  BY <1>4, <1>6 DEF Times, Older
<1>8. Typed'
  <2>1. err' \in BOOLEAN
    BY <1>1
  <2>2. clock' \in Nat \ {0} /\ disk' \in Disks /\ hist' \in History
    BY <1>1, <1>4
  <2> QED
    BY <1>5, <2>1, <2>2 DEF Typed
<1> QED
  BY <1>1, <1>4, <1>5, <1>7, <1>8 DEF FilesInv

(* Somebody else writes a file, which a job may have open. *)
OrigAfter(f, t) == IF hist.orig[f] = << >> \/ f \in hist.kept THEN hist.orig[f] ELSE t

LEMMA OutsideFacts ==
  ASSUME FilesInv, NEW f \in Files, NEW how \in {"wrote", "replaced"}, Outside(f, how)
  PROVE  /\ disk' \in Disks /\ \A n \in Names \ {The(f)} : disk'[n] = disk[n]
         /\ disk'[The(f)].mtime = clock + 1 /\ Len(disk'[The(f)].text) = 1
         /\ hist' \in History /\ hist'.kept = hist.kept
         /\ hist'.foreign = hist.foreign \cup { b \in Buffers : buf[b].fname = f }
         /\ hist'.orig[f] = OrigAfter(f, disk'[The(f)].text)
         /\ \A g \in Files \ {f} : hist'.orig[g] = hist.orig[g]
         /\ buf' = buf /\ err' = err /\ clock' = clock + 1
         /\ stack' = [k \in DOMAIN stack |-> Met(stack[k], f, how)]
         /\ \A k \in DOMAIN stack : how = "wrote" /\ HasOpen(stack[k], The(f)) => stack[k].at <= 1
<1>1. PICK p \in Unused :
        disk' = [disk EXCEPT ![The(f)] = [ text |-> << p >>, mtime |-> clock + 1 ]]
  BY DEF Outside
<1> DEFINE v == [ text |-> << p >>, mtime |-> clock + 1 ]
           S == hist.foreign \cup { b \in Buffers : buf[b].fname = f }
           o == OrigAfter(f, disk'[The(f)].text)
<1>2. p \in Pieces /\ clock \in Nat /\ The(f) \in Names /\ disk \in Disks /\ hist \in History
  BY InvFacts, NameFacts DEF Unused
<1>3. v \in OnDisk /\ v.mtime = clock + 1 /\ Len(v.text) = 1 /\ disk' = [disk EXCEPT ![The(f)] = v]
  BY <1>1, <1>2 DEF OnDisk
<1> HIDE DEF v
<1>4. disk' \in Disks /\ disk'[The(f)] = v /\ \A n \in Names \ {The(f)} : disk'[n] = disk[n]
  BY <1>2, <1>3 DEF Disks
<1>5. hist' = [hist EXCEPT !.foreign = S, !.orig[f] = o]
  BY DEF Outside, OrigAfter
<1>6. o \in Seq(Pieces) /\ S \in SUBSET Buffers
  BY <1>2, <1>4, DisksFacts DEF History, OrigAfter
<1> HIDE DEF o, S
<1>7. /\ hist' \in History /\ hist'.kept = hist.kept /\ hist'.foreign = S
      /\ hist'.orig = [hist.orig EXCEPT ![f] = o]
  BY <1>2, <1>5, <1>6 DEF History
<1>8. hist'.orig[f] = o /\ \A g \in Files \ {f} : hist'.orig[g] = hist.orig[g]
  BY <1>2, <1>7 DEF History
<1>9. /\ buf' = buf /\ err' = err /\ clock' = clock + 1
      /\ stack' = [k \in DOMAIN stack |-> Met(stack[k], f, how)]
      /\ \A k \in DOMAIN stack : how = "wrote" /\ HasOpen(stack[k], The(f)) => stack[k].at <= 1
  BY DEF Outside
<1> QED
  BY <1>3, <1>4, <1>7, <1>8, <1>9 DEF S, o

(* A job that has the file open learns that somebody has been there.       *)
LEMMA MetShape ==
  ASSUME NEW j \in Job, NEW f, NEW how \in {"wrote", "replaced"}
  PROVE  LET i == Met(j, f, how)
         IN  /\ i \in Job /\ i.do = j.do /\ i.todo = j.todo /\ i.name = j.name /\ i.b = j.b
             /\ i.pc = j.pc /\ i.modcnt = j.modcnt /\ i.short = j.short /\ i.at = j.at
             /\ i.met = IF HasOpen(j, The(f)) /\ j.met # "replaced" THEN how ELSE j.met
<1>1. CASE HasOpen(j, The(f)) /\ j.met # "replaced"
  <2>1. Met(j, f, how) = [j EXCEPT !.met = how]
    BY <1>1 DEF Met
  <2>2. [j EXCEPT !.met = how] \in Job /\ [j EXCEPT !.met = how].met = how
    BY DEF Job
  <2> QED
    BY <1>1, <2>1, <2>2 DEF Job
<1>2. CASE ~(HasOpen(j, The(f)) /\ j.met # "replaced")
  BY <1>2 DEF Met
<1> QED
  BY <1>1, <1>2

LEMMA MetReady ==
  ASSUME FilesInv, NEW f \in Files, NEW how \in {"wrote", "replaced"}, Outside(f, how),
         NEW k \in DOMAIN stack, Ready(stack[k], disk, buf, hist)
  PROVE  Ready(Met(stack[k], f, how), disk', buf, hist')
<1> DEFINE j == stack[k]
           i == Met(j, f, how)
           g == j.name[2]
<1>1. /\ \A n \in Names \ {The(f)} : disk'[n] = disk[n]
      /\ Len(disk'[The(f)].text) = 1
      /\ hist'.kept = hist.kept
      /\ hist'.orig[f] = OrigAfter(f, disk'[The(f)].text)
      /\ \A x \in Files \ {f} : hist'.orig[x] = hist.orig[x]
      /\ how = "wrote" /\ HasOpen(j, The(f)) => j.at <= 1
  BY OutsideFacts
<1>2. j \in Job /\ hist \in History
  BY InvFacts
<1>3. /\ i.do = j.do /\ i.todo = j.todo /\ i.name = j.name /\ i.b = j.b
      /\ i.pc = j.pc /\ i.modcnt = j.modcnt /\ i.short = j.short /\ i.at = j.at /\ j.at \in Nat
      /\ i.met = IF HasOpen(j, The(f)) /\ j.met # "replaced" THEN how ELSE j.met
  BY <1>2, MetShape DEF Job
<1>4. Ready(j, disk, buf, hist)
  OBVIOUS
<1> HIDE DEF i, j
<1>5. /\ Formed(j) /\ InPlace(j, disk, buf, hist) /\ j.name \in Names
      /\ j.do # "checkpoint" => g \in Files /\ j.name = The(g)
  BY <1>4, NameFacts DEF Ready, Formed
<1>6. HasOpen(j, The(f)) => j.do # "checkpoint" /\ g = f
  <2> SUFFICES ASSUME j.name = The(f) PROVE j.do # "checkpoint" /\ g = f
    BY DEF HasOpen
  <2>1. j.do = "checkpoint" => j.name = Ckp(buf[j.b].ckpfn)
    BY <1>4 DEF Ready
  <2> QED
    BY <2>1, NameFacts
<1>7. Formed(i)
  BY <1>3, <1>5, <1>6 DEF Formed
<1>8. j.do # "checkpoint" => (Saved(g, hist) <=> Saved(g, hist'))
  <2> SUFFICES ASSUME j.do # "checkpoint" PROVE Saved(g, hist) <=> Saved(g, hist')
    OBVIOUS
  <2>1. CASE g # f
    BY <1>1, <1>5, <2>1 DEF Saved
  <2>2. CASE g = f
    <3>1. disk'[The(f)].text # << >>
      BY <1>1
    <3> QED
      BY <1>1, <2>2, <3>1 DEF Saved, OrigAfter
  <2> QED
    BY <2>1, <2>2
<1>9. InPlace(i, disk', buf, hist')
  <2>1. CASE ~HasOpen(j, The(f))
    <3>1. i.met = j.met /\ (j.pc \in {"newline", "write", "close"} => j.name # The(f))
      BY <1>3, <2>1 DEF HasOpen
    <3>2. j.pc \in {"newline", "write", "close"} => disk'[j.name] = disk[j.name]
      BY <1>1, <1>5, <3>1
    <3>3. j.do = "append" /\ j.pc \in {"newline", "write"} => hist'.orig[g] = hist.orig[g]
      BY <1>1, <1>5, <3>1
    <3> QED
      BY <1>3, <1>5, <1>8, <3>1, <3>2, <3>3 DEF InPlace
  <2>2. CASE HasOpen(j, The(f)) /\ (j.met = "replaced" \/ how = "replaced")
    <3>1. i.met = "replaced"
      BY <1>3, <2>2
    <3> QED
      BY <1>3, <1>5, <3>1 DEF InPlace
  <2>3. CASE HasOpen(j, The(f)) /\ j.met # "replaced" /\ how = "wrote"
    <3>1. i.met = "wrote" /\ j.name = The(f) /\ g = f /\ j.at <= 1
      BY <1>1, <1>3, <1>6, <2>3 DEF HasOpen
    <3>2. ASSUME j.do = "append", j.pc \in {"newline", "write"}, ~Saved(f, hist')
          PROVE  Len(hist'.orig[f]) <= j.at
      <4>1. ~Saved(f, hist) /\ Len(hist.orig[f]) <= j.at
        BY <1>5, <1>8, <2>3, <3>1, <3>2 DEF InPlace
      <4>2. hist.orig[f] \in Seq(Pieces) /\ hist.orig[f] # << >>
        BY <1>2, <4>1 DEF History, Saved
      <4>3. Len(hist'.orig[f]) = 1
        BY <1>1, <4>1 DEF OrigAfter, Saved
      <4> QED
        BY <1>3, <4>1, <4>2, <4>3
    <3>3. j.at <= Len(disk'[j.name].text)
      BY <1>1, <3>1
    <3> QED
      BY <1>3, <1>5, <3>1, <3>2, <3>3 DEF InPlace
  <2> QED
    BY <2>1, <2>2, <2>3
<1>10. j.pc = "copy" => disk'[Bak(g)] = disk[Bak(g)]
  BY <1>1, <1>5, NameFacts DEF Formed, Saves
<1>11. Ready(i, disk', buf, hist')
  BY <1>1, <1>3, <1>4, <1>5, <1>7, <1>8, <1>9, <1>10 DEF Ready, Saves
<1> QED
  BY <1>11 DEF i, j

(* The stack, job by job. *)
LEMMA StackedPoints ==
  ASSUME NEW s \in Seq(Job), NEW t \in Seq(Job), Len(t) = Len(s),
         NEW D, NEW B, NEW h, NEW D2, NEW B2, NEW h2, Stacked(s, D, B, h),
         \A k \in 1..Len(s) : /\ Ready(s[k], D, B, h) => Ready(t[k], D2, B2, h2)
                              /\ t[k].pc = s[k].pc /\ t[k].do = s[k].do /\ t[k].name = s[k].name
  PROVE  Stacked(t, D2, B2, h2)
<1> SUFFICES ASSUME t # << >>
             PROVE  /\ Ready(Head(t), D2, B2, h2)
                    /\ Waiting(Tail(t), D2, B2, h2)
                    /\ Clear(Head(t), Tail(t))
  BY DEF Stacked
<1> DEFINE p == Tail(s)
           q == Tail(t)
<1>1. /\ s # << >> /\ Head(s) = s[1] /\ Head(t) = t[1]
      /\ Len(p) = Len(q) /\ Len(q) \in Nat /\ 1 \in 1..Len(s)
      /\ \A k \in 1..Len(q) : k + 1 \in 1..Len(s) /\ p[k] = s[k + 1] /\ q[k] = t[k + 1]
  BY Popped
<1> HIDE DEF p, q, Ready
<1>2. Ready(s[1], D, B, h) /\ Waiting(p, D, B, h) /\ Clear(s[1], p)
  BY <1>1 DEF Stacked, p
<1>3. \A k \in 1..Len(q) : /\ Ready(p[k], D, B, h) => Ready(q[k], D2, B2, h2)
                           /\ q[k].pc = p[k].pc /\ q[k].do = p[k].do /\ q[k].name = p[k].name
  BY <1>1
<1>4. Waiting(q, D2, B2, h2)
  <2>1. \A k \in 1..Len(q) : Ready(p[k], D, B, h) /\ p[k].pc \in Questions
    BY <1>1, <1>2 DEF Waiting
  <2>2. \A i, k \in 1..Len(q) : i < k => Apart(p[i], p[k])
    BY <1>1, <1>2 DEF Waiting
  <2>3. \A k \in 1..Len(q) : Ready(q[k], D2, B2, h2) /\ q[k].pc \in Questions
    BY <1>3, <2>1
  <2>4. \A i, k \in 1..Len(q) : i < k => Apart(q[i], q[k])
    BY <1>3, <2>2 DEF Apart, AtNewline
  <2> QED
    BY <2>3, <2>4 DEF Waiting
<1>5. Clear(t[1], q)
  BY <1>1, <1>2, <1>3 DEF Clear, Apart, AtNewline
<1> QED
  BY <1>1, <1>2, <1>4, <1>5 DEF q

LEMMA OutsideKeeps ==
  ASSUME FilesInv, NEW f \in Files, NEW how \in {"wrote", "replaced"}, Outside(f, how)
  PROVE  FilesInv'
<1>1. /\ disk' \in Disks /\ \A n \in Names \ {The(f)} : disk'[n] = disk[n]
      /\ disk'[The(f)].mtime = clock + 1
      /\ hist' \in History /\ hist'.kept = hist.kept
      /\ hist'.foreign = hist.foreign \cup { b \in Buffers : buf[b].fname = f }
      /\ hist'.orig[f] = OrigAfter(f, disk'[The(f)].text)
      /\ \A g \in Files \ {f} : hist'.orig[g] = hist.orig[g]
      /\ buf' = buf /\ err' = err /\ clock' = clock + 1
      /\ stack' = [k \in DOMAIN stack |-> Met(stack[k], f, how)]
  BY OutsideFacts
<1>2. /\ disk \in Disks /\ buf \in Bufs /\ stack \in Seq(Job) /\ hist \in History
      /\ err \in BOOLEAN /\ clock \in Nat /\ clock > 0
      /\ Stacked(stack, disk, buf, hist) /\ Backups(disk, hist)
      /\ Times(disk, buf, clock, hist) /\ NoneMade(buf)
  BY InvFacts
<1>4. /\ stack' \in Seq(Job) /\ Len(stack') = Len(stack)
      /\ \A k \in 1..Len(stack) : stack'[k] = Met(stack[k], f, how)
  <2>1. \A k \in 1..Len(stack) : Met(stack[k], f, how) \in Job
    BY <1>2, MetShape
  <2> QED
    BY <1>1, <1>2, <2>1
<1>3. Typed'
  BY <1>1, <1>2, <1>4 DEF Typed
<1>6. Stacked(stack', disk', buf', hist')
  <2>1. \A k \in 1..Len(stack) :
          /\ Ready(stack[k], disk, buf, hist) => Ready(stack'[k], disk', buf, hist')
          /\ stack'[k].pc = stack[k].pc /\ stack'[k].do = stack[k].do /\ stack'[k].name = stack[k].name
    <3> TAKE k \in 1..Len(stack)
    <3>1. k \in DOMAIN stack /\ stack[k] \in Job /\ stack'[k] = Met(stack[k], f, how)
      BY <1>2, <1>4
    <3> QED
      BY <3>1, MetReady, MetShape
  <2> QED
    BY <1>1, <1>2, <1>4, <2>1, StackedPoints
<1>7. Backups(disk', hist')
  <2> SUFFICES ASSUME NEW g \in Files, hist'.orig[g] # << >>
               PROVE  Begins(disk', IF g \in hist'.kept THEN Bak(g) ELSE The(g), hist'.orig[g])
    BY DEF Backups
  <2>1. disk'[Bak(g)] = disk[Bak(g)] /\ (g # f => disk'[The(g)] = disk[The(g)])
    BY <1>1, NameFacts
  <2>2. CASE g # f \/ g \in hist.kept
    <3>1. hist'.orig[g] = hist.orig[g]
      BY <1>1, <2>2 DEF OrigAfter
    <3>2. Begins(disk, IF g \in hist.kept THEN Bak(g) ELSE The(g), hist.orig[g])
      BY <1>2, <3>1 DEF Backups
    <3> QED
      BY <1>1, <2>1, <2>2, <3>1, <3>2 DEF Begins
  <2>3. CASE g = f /\ g \notin hist.kept
    <3>1. hist.orig[g] # << >>
      BY <1>1, <2>3 DEF OrigAfter
    <3>2. hist'.orig[g] = disk'[The(g)].text /\ disk'[The(g)].mtime > 0
      BY <1>1, <1>2, <2>3, <3>1 DEF OrigAfter
    <3>3. IsPrefix(hist'.orig[g], disk'[The(g)].text)
      BY <1>1, <3>2, NameFacts, DisksFacts, PrefixOfItself
    <3> QED
      BY <1>1, <2>3, <3>2, <3>3 DEF Begins
  <2> QED
    BY <2>2, <2>3
<1>8. Times(disk', buf', clock', hist')
  <2>1. ASSUME NEW n \in Names PROVE disk'[n].mtime <= clock'
    <3>1. disk[n].mtime <= clock /\ disk[n].mtime \in Nat
      BY <1>2, Untouched, DisksFacts
    <3> QED
      BY <1>1, <1>2, <3>1
  <2>2. ASSUME NEW b \in Buffers
        PROVE  /\ buf[b].modtime <= clock'
               /\ b \in hist'.foreign /\ buf[b].modtime # 0 => buf[b].modtime < clock' /\ Older(buf[b], disk')
    <3>1. buf[b].modtime \in Nat /\ buf[b].modtime <= clock /\ buf[b].fname \in Files \cup {None}
      BY <1>2, BufsFacts DEF Times
    <3>2. buf[b].modtime < clock'
      BY <1>1, <1>2, <3>1
    <3>3. ASSUME b \in hist'.foreign, buf[b].modtime # 0 PROVE Older(buf[b], disk')
      <4>1. CASE buf[b].fname = f
        BY <1>1, <3>2, <4>1 DEF Older
      <4>2. CASE buf[b].fname # f
        <5>1. Older(buf[b], disk)
          BY <1>1, <1>2, <3>3, <4>2 DEF Times
        <5>2. buf[b].fname # None => disk'[The(buf[b].fname)] = disk[The(buf[b].fname)]
          BY <1>1, <3>1, <4>2, NameFacts
        <5> QED
          BY <5>1, <5>2 DEF Older
      <4> QED
        BY <4>1, <4>2
    <3> QED
      BY <3>1, <3>2, <3>3, <1>1, <1>2
  <2> QED
    BY <1>1, <2>1, <2>2 DEF Times
<1>9. NoneMade(buf')
  BY <1>1, <1>2
<1> QED
  BY <1>3, <1>6, <1>7, <1>8, <1>9 DEF FilesInv

LEMMA NothingKeeps ==
  ASSUME FilesInv, UNCHANGED vars
  PROVE  FilesInv'
<1>1. disk' = disk /\ buf' = buf /\ stack' = stack /\ err' = err /\ clock' = clock /\ hist' = hist
  BY DEF vars
<1> QED
  BY <1>1 DEF FilesInv, Typed

(***************************************************************************)
(* The invariant holds.                                                    *)
(***************************************************************************)
LEMMA InitEstablishes ==
  ASSUME Init
  PROVE  FilesInv
<1>1. PICK there \in SUBSET Files, p \in Pieces, q \in Pieces :
       disk = [ n \in Names |->
                  CASE n[1] = "file" /\ n[2] \in there -> [ text |-> << p >>, mtime |-> 1 ]
                    [] n[1] = "bak"  /\ n[2] \in there -> [ text |-> << q >>, mtime |-> 1 ]
                    [] OTHER -> Absent ]
  BY ZenonT(40) DEF Init
<1>2. /\ buf = [ b \in Buffers |-> Fresh ]
      /\ stack = << >> /\ err = FALSE /\ clock = 1
      /\ hist = [ orig |-> [ f \in Files |-> disk[The(f)].text ], kept |-> {},
                  foreign |-> {} ]
  BY DEF Init
<1> DEFINE old == [ text |-> << p >>, mtime |-> 1 ]
           bak == [ text |-> << q >>, mtime |-> 1 ]
           o   == [ f \in Files |-> disk[The(f)].text ]
<1>3. old \in OnDisk /\ bak \in OnDisk /\ Absent \in OnDisk
  BY DEF OnDisk, Absent
<1>4. /\ old.mtime = 1 /\ bak.mtime = 1 /\ Absent.mtime = 0 /\ Absent.text = << >>
  BY DEF Absent
<1> HIDE DEF old, bak
<1>5. \A n \in Names : disk[n] \in { old, bak, Absent }
  BY <1>1 DEF old, bak
<1>6. disk \in Disks
  <2>1. disk = [ n \in Names |-> disk[n] ]
    BY <1>1
  <2> QED
    BY <1>3, <1>5, <2>1 DEF Disks
<1>7. Fresh \in Buf /\ Fresh.modtime = 0 /\ Fresh.checkpointed = 0
  BY DEF Fresh, Buf
<1>8. buf \in Bufs /\ \A b \in Buffers : buf[b] = Fresh
  BY <1>2, <1>7 DEF Bufs
<1>9. o \in [ Files -> Seq(Pieces) ]
  BY <1>6, NameFacts, DisksFacts
<1>10. hist \in History /\ hist.orig = o /\ hist.kept = {} /\ hist.foreign = {}
  <2> HIDE DEF o
  <2> QED
    BY <1>2, <1>9 DEF History, o
<1>11. Typed
  <2>1. stack \in Seq(Job) /\ clock \in Nat \ {0}
    BY <1>2
  <2>2. err \in BOOLEAN
    BY <1>2
  <2> QED
    BY <1>6, <1>8, <1>10, <2>1, <2>2 DEF Typed
<1>12. Stacked(stack, disk, buf, hist)
  BY <1>2 DEF Stacked
<1>13. Backups(disk, hist)
  <2> SUFFICES ASSUME NEW f \in Files, hist.orig[f] # << >>
               PROVE  Begins(disk, The(f), hist.orig[f])
    BY <1>10 DEF Backups
  <2>1. hist.orig[f] = disk[The(f)].text /\ The(f) \in Names
    BY <1>10, NameFacts
  <2>2. disk[The(f)].mtime = 1
    BY <1>4, <1>5, <2>1
  <2>3. IsPrefix(hist.orig[f], disk[The(f)].text)
    BY <1>6, <2>1, DisksFacts, PrefixOfItself
  <2> QED
    BY <2>2, <2>3 DEF Begins
<1>14. Times(disk, buf, clock, hist)
  <2>1. \A n \in Names : disk[n].mtime <= 1
    BY <1>4, <1>5
  <2> QED
    BY <1>2, <1>7, <1>8, <1>10, <2>1 DEF Times
<1>15. NoneMade(buf)
  BY <1>7, <1>8 DEF NoneMade
<1> QED
  BY <1>11, <1>12, <1>13, <1>14, <1>15 DEF FilesInv

LEMMA WriteFileStepKeeps ==
  ASSUME FilesInv, WriteFileStep
  PROVE  FilesInv'
<1>1. 0..MaxText \subseteq Nat
  BY MaxTextAssumption
<1>2. CASE Unwritable
  BY <1>2, FailsKeeps DEF Unwritable, At
<1>3. CASE NotWritten
  BY <1>3, FailsKeeps DEF NotWritten, At
<1>4. CASE CannotCreat
  BY <1>4, FailsKeeps DEF CannotCreat, CanOpen, Agreed, At
<1>5. CASE Ask
  BY <1>5, AskKeeps
<1>6. CASE WriteAnyway
  BY <1>6, WriteAnywayKeeps
<1>7. CASE UnlinkOld
  BY <1>7, UnlinkOldKeeps
<1>8. ASSUME NEW done \in BOOLEAN,
             StartBackup(done) \/ CopyBackup(done) \/ LinkBackup(done) \/ AddNewline(done)
      PROVE  FilesInv'
  BY <1>8, StartBackupKeeps, CopyBackupKeeps, LinkBackupKeeps, AddNewlineKeeps
<1>9. ASSUME NEW hook \in {"nothing", "edits", "fails"}, Creat(hook) PROVE FilesInv'
  BY <1>9, CreatKeeps
<1>10. CASE NoNewline
  BY <1>10, NoNewlineKeeps
<1>11. CASE Close
  BY <1>11, CloseKeeps
<1>12. CASE IgnoreIt
  BY <1>12, IgnoreItKeeps
<1>13. ASSUME NEW k \in 0..MaxText, WriteText(k) \/ IOError(k) PROVE FilesInv'
  BY <1>1, <1>13, WriteTextKeeps, IOErrorKeeps
<1> QED
  BY <1>2, <1>3, <1>4, <1>5, <1>6, <1>7, <1>8, <1>9, <1>10, <1>11, <1>12, <1>13 DEF WriteFileStep

LEMMA NextKeeps ==
  ASSUME FilesInv, [Next]_vars
  PROVE  FilesInv'
<1>1. ASSUME NEW b \in Buffers, Edit(b) \/ EraseBuffer(b) \/ WriteCurrentFile(b)
      PROVE  FilesInv'
  BY <1>1, EditKeeps, EraseBufferKeeps, WriteCurrentFileKeeps
<1>2. ASSUME NEW b \in Buffers, NEW f \in Files,
             ReadFile(b, f) \/ VisitFile(b, f) \/ AppendToFile(b, f)
      PROVE  FilesInv'
  BY <1>2, ReadFileKeeps, VisitFileKeeps, AppendToFileKeeps
<1>3. ASSUME NEW b \in Buffers, NEW f \in Files, NEW absolute \in BOOLEAN,
             WriteNamedFile(b, f, absolute)
      PROVE  FilesInv'
  BY <1>3, WriteNamedFileKeeps
<1>4. ASSUME NEW b \in Buffers, NEW f \in Files \cup {None}, ChangeFileName(b, f)
      PROVE  FilesInv'
  BY <1>4, ChangeFileNameKeeps
<1>5. CASE WriteModifiedFiles \/ Checkpoint
  BY <1>5, WriteModifiedFilesKeeps, CheckpointKeeps
<1>6. CASE WriteFileStep
  BY <1>6, WriteFileStepKeeps
<1>7. ASSUME NEW f \in Files, NEW how \in {"wrote", "replaced"}, Outside(f, how) PROVE FilesInv'
  BY <1>7, OutsideKeeps
<1>8. CASE UNCHANGED vars
  BY <1>8, NothingKeeps
<1> QED
  BY <1>1, <1>2, <1>3, <1>4, <1>5, <1>6, <1>7, <1>8 DEF Next

(* Every reachable state: each job that waits may count on what Ready says *)
(* of it, and the backups and the times are in order (fileio.c).           *)
THEOREM FilesInvariant == Spec => []FilesInv
<1>1. Init => FilesInv
  BY InitEstablishes
<1>2. FilesInv /\ [Next]_vars => FilesInv'
  BY NextKeeps
<1> QED
  BY <1>1, <1>2, PTL DEF Spec

(* The file as it was before Emacs wrote to it is in place or in .BAK, in  *)
(* the midst of a write too, whatever was interrupted (WriteFile, which    *)
(* makes the backup before it empties the file).                           *)
THEOREM OriginalIsKept == Spec => []OriginalKept
<1>1. FilesInv => OriginalKept
  <2> SUFFICES ASSUME FilesInv, NEW f \in Files, hist.orig[f] # << >>
               PROVE  \E n \in {The(f), Bak(f)} : Exists(n) /\ IsPrefix(hist.orig[f], disk[n].text)
    BY DEF OriginalKept
  <2>1. Begins(disk, IF f \in hist.kept THEN Bak(f) ELSE The(f), hist.orig[f])
    BY DEF FilesInv, Backups
  <2> QED
    BY <2>1 DEF Begins, Exists
<1> QED
  BY <1>1, FilesInvariant, PTL

(***************************************************************************)
(* What a step does to the counts of a buffer.                             *)
(***************************************************************************)
Counts(b) ==
  /\ buf'[b].text = buf[b].text /\ buf'[b].modified = buf[b].modified
  /\ buf'[b].checkpointed = buf[b].checkpointed
  /\ buf'[b].ckpfn # buf[b].ckpfn => buf[b].checkpointed < buf[b].modified

LEMMA OnlyCkpfnCounts ==
  ASSUME OnlyCkpfn(buf, buf'), NEW b \in Buffers
  PROVE  Counts(b)
BY DEF OnlyCkpfn, Counts

(* The steps that leave the counts of all buffers alone, and checkpoints.  *)
StartsJob(b) ==
  \/ WriteCurrentFile(b) \/ WriteModifiedFiles \/ Checkpoint \/ \E f \in Files : AppendToFile(b, f)
Passes ==
  \/ Ask \/ WriteAnyway \/ NoNewline \/ UnlinkOld \/ IgnoreIt \/ UNCHANGED vars
  \/ \E done \in BOOLEAN : StartBackup(done) \/ CopyBackup(done) \/ LinkBackup(done)
  \/ \E f \in Files, how \in {"wrote", "replaced"} : Outside(f, how)

LEMMA StartsJobCounts ==
  ASSUME FilesInv, NEW c \in Buffers, StartsJob(c), NEW b \in Buffers
  PROVE  Counts(b) /\ disk' = disk
<1>1. OnlyCkpfn(buf, buf')
  BY WriteCurrentFileKeeps, WriteModifiedFilesKeeps, CheckpointKeeps, AppendToFileKeeps DEF StartsJob
<1>2. disk' = disk
  BY DEF StartsJob, WriteCurrentFile, WriteModifiedFiles, Checkpoint, AppendToFile, Begin
<1> QED
  BY <1>1, <1>2, OnlyCkpfnCounts

LEMMA PassesCounts ==
  ASSUME FilesInv, Passes, NEW b \in Buffers
  PROVE  Counts(b) /\ \A f \in Files : disk'[Ckp(f)] = disk[Ckp(f)]
<1>1. ASSUME NEW f \in Files PROVE Ckp(f) \in Names /\ \A g : Ckp(f) # Bak(g) /\ Ckp(f) # The(g)
  BY NameFacts
<1>2. CASE Ask \/ WriteAnyway \/ NoNewline \/ UNCHANGED vars
  BY <1>2 DEF Ask, WriteAnyway, NoNewline, vars, Counts
<1>3. CASE UnlinkOld
  <2>1. buf' = buf /\ disk' = [disk EXCEPT ![J.name] = Absent] /\ stack # << >> /\ J.pc = "unlink"
    BY <1>3 DEF UnlinkOld, At
  <2>2. J.name = The(File)
    BY <2>1, TopFacts, FileFacts DEF Ready, Formed, Saves
  <2>3. \A f \in Files : disk'[Ckp(f)] = disk[Ckp(f)]
    BY <1>1, <2>1, <2>2, InvFacts DEF Disks
  <2> QED
    BY <2>1, <2>3 DEF Counts
<1>4. CASE IgnoreIt
  <2>1. disk' = disk
    BY <1>4 DEF IgnoreIt
  <2> QED
    BY <1>4, <2>1, IgnoreItKeeps, OnlyCkpfnCounts
<1>5. ASSUME NEW done \in BOOLEAN, StartBackup(done) PROVE Counts(b) /\ \A f \in Files : disk'[Ckp(f)] = disk[Ckp(f)]
  <2>1. buf' = [buf EXCEPT ![J.b].backedUp = TRUE] /\ stack # << >>
    BY <1>5 DEF StartBackup, Agreed, At
  <2>2. Counts(b)
    BY <2>1, TopFacts, BackedUpFacts DEF Counts
  <2>3. disk' = disk \/ \E v : disk' = [disk EXCEPT ![Bak(File)] = v]
    BY <1>5 DEF StartBackup
  <2>4. \A f \in Files : disk'[Ckp(f)] = disk[Ckp(f)]
    BY <1>1, <2>3, InvFacts DEF Disks
  <2> QED
    BY <2>2, <2>4
<1>6. ASSUME NEW done \in BOOLEAN, CopyBackup(done) \/ LinkBackup(done)
      PROVE  Counts(b) /\ \A f \in Files : disk'[Ckp(f)] = disk[Ckp(f)]
  <2>1. buf' = buf
    BY <1>6 DEF CopyBackup, LinkBackup
  <2>2. disk' = disk \/ \E v : disk' = [disk EXCEPT ![Bak(File)] = v]
    BY <1>6 DEF CopyBackup, LinkBackup
  <2>3. \A f \in Files : disk'[Ckp(f)] = disk[Ckp(f)]
    BY <1>1, <2>2, InvFacts DEF Disks
  <2> QED
    BY <2>1, <2>3 DEF Counts
<1>7. ASSUME NEW f \in Files, NEW how \in {"wrote", "replaced"}, Outside(f, how)
      PROVE  Counts(b) /\ \A g \in Files : disk'[Ckp(g)] = disk[Ckp(g)]
  BY <1>1, <1>7, OutsideFacts DEF Counts
<1> QED
  BY <1>2, <1>3, <1>4, <1>5, <1>6, <1>7 DEF Passes

(* An edit, by a command, by the write hook, or of the newline. *)
Edits(b) == /\ buf'[b].modified = buf[b].modified + 1 /\ buf'[b].checkpointed = buf[b].checkpointed

LEMMA EditedCounts ==
  ASSUME FilesInv, NEW c \in Buffers, buf' \in Edited(c), NEW b \in Buffers
  PROVE  Edits(b) \/ Counts(b)
BY InvFacts, EditedShape DEF Edits, Counts

(* A job that ends, and the buffer it ends with. *)
LEMMA ReturnedCounts ==
  ASSUME FilesInv, stack # << >>, NEW B, NEW e, NEW D, Returned(B, e, D), Left(B, D),
         NEW b \in Buffers
  PROVE  /\ b # J.b => Counts(b)
         /\ b = J.b => /\ buf'[b].text = B.text /\ buf'[b].fname = B.fname
                       /\ buf'[b].modified = Epilogue(B).modified
                       /\ buf'[b].checkpointed = Epilogue(B).checkpointed
                       /\ buf'[b].ckpfn # B.ckpfn => buf'[b].checkpointed < buf'[b].modified
<1> DEFINE E    == Epilogue(B)
           bufs == [buf EXCEPT ![J.b] = E]
<1>1. OnlyCkpfn(bufs, buf') /\ J.b \in Buffers /\ buf \in Bufs /\ B \in Buf
  BY TopFacts, InvFacts DEF Returned, Left
<1>2. E.text = B.text /\ E.fname = B.fname /\ E.ckpfn = B.ckpfn
  BY <1>1, EpilogueFacts
<1> HIDE DEF E
<1>3. bufs[J.b] = E /\ \A c \in Buffers \ {J.b} : bufs[c] = buf[c]
  BY <1>1 DEF Bufs
<1> HIDE DEF bufs
<1> QED
  BY <1>1, <1>2, <1>3 DEF OnlyCkpfn, Counts, E

(***************************************************************************)
(* A buffer that is no longer modified is on the disk.                     *)
(***************************************************************************)
Clean(b) ==
  (buf[b].modified > 0 /\ buf'[b].modified = 0)
    => \/ buf'[b].fname # None /\ disk'[The(buf'[b].fname)].text = buf'[b].text
       \/ EraseBuffer(b) \/ FailedRead(b)
       \/ At("close") /\ (J.do = "append" \/ J.short \/ J.met # "nobody")

LEMMA CountsClean ==
  ASSUME NEW b \in Buffers, Counts(b)
  PROVE  Clean(b)
BY DEF Counts, Clean

LEMMA EditsClean ==
  ASSUME FilesInv, NEW c \in Buffers, buf' \in Edited(c), NEW b \in Buffers
  PROVE  Clean(b)
<1>1. buf[b].modified \in Nat
  BY InvFacts, BufsFacts
<1>2. Edits(b) \/ Counts(b)
  BY EditedCounts
<1> QED
  BY <1>1, <1>2 DEF Counts, Clean, Edits

(* A command that writes nothing. *)
LEMMA CommandClean ==
  ASSUME FilesInv, NEW c \in Buffers, NEW b \in Buffers,
         \/ Edit(c) \/ EraseBuffer(c)
         \/ \E f \in Files : ReadFile(c, f) \/ VisitFile(c, f)
         \/ \E f \in Files \cup {None} : ChangeFileName(c, f)
  PROVE  Clean(b)
<1>1. buf \in Bufs /\ disk \in Disks /\ buf[c] \in Buf /\ (buf[c].ckpfn = None => buf[c].checkpointed = 0)
  BY InvFacts, BufsFacts DEF NoneMade
<1>2. CASE Edit(c)
  BY <1>2, EditsClean DEF Edit
<1>3. CASE EraseBuffer(c)
  <2>1. CASE b = c
    BY <1>3, <2>1 DEF Clean
  <2>2. CASE b # c
    <3>1. buf'[b] = buf[b]
      BY <1>1, <1>3, <2>2 DEF EraseBuffer, Bufs
    <3> QED
      BY <3>1 DEF Clean
  <2> QED
    BY <2>1, <2>2
<1>a. ASSUME NEW f \in Files, ReadFile(c, f) \/ VisitFile(c, f), b = c, buf'[c].fname = f, disk' = disk,
             buf'[c].text = disk[The(f)].text \/ Len(buf'[c].text) < Len(disk[The(f)].text)
      PROVE  Clean(b)
  BY <1>a, NoneAssumption DEF Clean, FailedRead
<1>4. ASSUME NEW f \in Files, ReadFile(c, f) PROVE Clean(b)
  <2>1. CASE EraseBuffer(c)
    BY <1>3, <2>1
  <2>2. CASE \E k : Readable(f, k) /\ Replaced(c, Read(buf[c], f, k))
    <3>1. PICK k : Readable(f, k) /\ Replaced(c, Read(buf[c], f, k))
      BY <2>2
    <3> DEFINE R == Read(buf[c], f, k)
    <3>2. /\ R.fname = f
          /\ R.text = disk[The(f)].text \/ Len(R.text) < Len(disk[The(f)].text)
      BY <1>1, <3>1, ReadFacts
    <3>3. Replaced(c, R) /\ disk' = disk
      BY <1>1, <1>4, <3>1, ReadFileShape
    <3> HIDE DEF R
    <3>4. buf'[c] = R /\ (b # c => buf'[b] = buf[b])
      BY <1>1, <3>3 DEF Bufs, Replaced
    <3>5. CASE b = c
      BY <1>4, <1>a, <3>2, <3>3, <3>4, <3>5
    <3>6. CASE b # c
      BY <3>4, <3>6 DEF Clean
    <3> QED
      BY <3>5, <3>6
  <2> QED
    BY <1>1, <1>4, <2>1, <2>2, ReadFileShape
<1>5. ASSUME NEW f \in Files, VisitFile(c, f) PROVE Clean(b)
  <2>1. PICK B \in Buf :
          /\ Replaced(c, Named(B, f))
          /\ \/ B.text = disk[The(f)].text
             \/ Len(B.text) < Len(disk[The(f)].text)
             \/ B.text = buf[c].text /\ B.modified = buf[c].modified
    BY <1>1, <1>5, VisitFileShape
  <2> DEFINE R == Named(B, f)
  <2>2. R.fname = f /\ R.text = B.text /\ R.modified = B.modified
    BY NamedFacts
  <2>3. Replaced(c, R) /\ disk' = disk
    BY <1>1, <1>5, <2>1, VisitFileShape
  <2> HIDE DEF R
  <2>4. buf'[c] = R /\ (b # c => buf'[b] = buf[b])
    BY <1>1, <2>3 DEF Bufs, Replaced
  <2>5. CASE b = c /\ (R.text = disk[The(f)].text \/ Len(R.text) < Len(disk[The(f)].text))
    BY <1>5, <1>a, <2>2, <2>3, <2>4, <2>5
  <2>6. CASE b = c /\ R.modified = buf[c].modified
    BY <2>4, <2>6 DEF Clean
  <2>7. CASE b # c
    BY <2>4, <2>7 DEF Clean
  <2> QED
    BY <2>1, <2>2, <2>5, <2>6, <2>7
<1>6. ASSUME NEW f \in Files \cup {None}, ChangeFileName(c, f) PROVE Clean(b)
  <2>1. PICK m : buf' = [buf EXCEPT ![c] = [ Renamed(buf[c], f) EXCEPT !.modtime = m ]]
    BY <1>6 DEF ChangeFileName
  <2> DEFINE N == Renamed(buf[c], f)
             R == [ N EXCEPT !.modtime = m ]
  <2>2. N \in Buf /\ N.modified = buf[c].modified
    BY <1>1, RenamedFacts
  <2>3. buf' = [buf EXCEPT ![c] = R]
    BY <2>1
  <2> HIDE DEF N
  <2>4. R.modified = buf[c].modified
    BY <2>2 DEF Buf
  <2> HIDE DEF R
  <2>5. buf'[c] = R /\ (b # c => buf'[b] = buf[b])
    BY <1>1, <2>3 DEF Bufs
  <2> QED
    BY <2>4, <2>5 DEF Clean
<1> QED
  BY <1>2, <1>3, <1>4, <1>5, <1>6

(* An error leaves the buffer modified; so does a checkpoint. *)
LEMMA FailureClean ==
  ASSUME FilesInv, stack # << >>, NEW D \in Disks, Returned(buf[J.b], TRUE, D), NEW b \in Buffers
  PROVE  Clean(b)
<1>1. Left(buf[J.b], D)
  BY LeftAlone
<1>2. /\ b # J.b => Counts(b)
      /\ b = J.b => buf'[b].modified = Epilogue(buf[b]).modified
  BY <1>1, ReturnedCounts
<1>3. buf[b] \in Buf /\ (J.do = "checkpoint" => J.modcnt > 0 /\ J.modcnt \in Nat)
  BY InvFacts, BufsFacts, TopFacts DEF Ready, Formed, Job
<1>4. \/ J.do = "checkpoint" /\ Epilogue(buf[b]).modified = J.modcnt
      \/ J.do # "checkpoint" /\ Epilogue(buf[b]).modified = buf[b].modified
  BY <1>3, EpilogueFacts
<1> QED
  BY <1>2, <1>3, <1>4, CountsClean DEF Clean

(* WriteFile has closed the file without an error: all of the text is in it,*)
(* unless the write came short, the text stands after another, or somebody *)
(* else has written the file in the meantime.                              *)
LEMMA CloseClean ==
  ASSUME FilesInv, Close, NEW b \in Buffers
  PROVE  Clean(b)
<1> DEFINE B == Closed(buf[J.b])
<1>1. stack # << >> /\ J.pc = "close" /\ Returned(B, err, disk)
  BY CloseKeeps DEF Close, At
<1>2. /\ Left(B, disk) /\ B.text = buf[J.b].text
      /\ err => B = buf[J.b]
  BY <1>1, ClosedFacts
<1>3. CASE err
  BY <1>1, <1>2, <1>3, InvFacts, FailureClean
<1>4. CASE ~err
  <2>1. CASE b # J.b
    BY <1>1, <1>2, <2>1, ReturnedCounts, CountsClean
  <2>2. CASE b = J.b /\ J.do = "checkpoint"
    <3>1. Epilogue(B).modified = J.modcnt /\ J.modcnt > 0 /\ J.modcnt \in Nat
      BY <1>1, <1>2, <2>2, EpilogueFacts, TopFacts DEF Left, Ready, Formed, Job
    <3>2. buf'[b].modified = J.modcnt
      BY <1>1, <1>2, <2>2, <3>1, ReturnedCounts
    <3> QED
      BY <3>1, <3>2 DEF Clean
  <2>3. CASE b = J.b /\ (J.do = "append" \/ J.short \/ J.met # "nobody")
    BY <1>1, <2>3 DEF Clean, At
  <2>4. CASE b = J.b /\ Saves(J.do) /\ ~J.short /\ J.met = "nobody"
    <3>1. /\ J.name = The(buf[b].fname) /\ disk[J.name].text = buf[b].text
          /\ J.name \in { The(f) : f \in Files }
      BY <1>1, <2>4, TopFacts DEF Ready, Formed, InPlace, Saves
    <3>2. buf[b].fname \in Files
      BY <3>1, NameFacts
    <3>3. buf'[b].text = buf[b].text /\ buf'[b].fname = buf[b].fname
      BY <1>1, <1>2, <2>4, ReturnedCounts DEF Left
    <3>4. disk'[J.name] = disk[J.name]
      BY <1>1, <3>1, <3>2 DEF Returned
    <3> QED
      BY <3>1, <3>2, <3>3, <3>4, NoneAssumption DEF Clean
  <2>5. J.do \in {"write", "append", "modwrite", "checkpoint"}
    BY <1>1, TopFacts DEF Job, Kinds
  <2> QED
    BY <2>1, <2>2, <2>3, <2>4, <2>5 DEF Saves
<1> QED
  BY <1>3, <1>4

LEMMA WriteFileStepClean ==
  ASSUME FilesInv, WriteFileStep, NEW b \in Buffers
  PROVE  Clean(b)
<1>1. 0..MaxText \subseteq Nat
  BY MaxTextAssumption
<1>2. CASE Unwritable \/ NotWritten \/ CannotCreat
  <2>1. stack # << >> /\ Fails
    BY <1>2 DEF Unwritable, NotWritten, CannotCreat, CanOpen, Agreed, At
  <2> QED
    BY <2>1, FailsKeeps, FailureClean, InvFacts
<1>3. CASE Passes
  BY <1>3, PassesCounts, CountsClean
<1>4. ASSUME NEW done \in BOOLEAN, AddNewline(done) PROVE Clean(b)
  <2>1. stack # << >> /\ buf' \in Edited(J.b)
    BY <1>4 DEF AddNewline, At
  <2> QED
    BY <2>1, TopFacts, EditsClean
<1>5. ASSUME NEW hook \in {"nothing", "edits", "fails"}, Creat(hook) PROVE Clean(b)
  <2>1. stack # << >> /\ (buf' \in Edited(J.b) \/ buf' = buf)
    BY <1>5 DEF Creat, CanOpen, Agreed, At
  <2> QED
    BY <2>1, TopFacts, EditsClean DEF Clean
<1>6. CASE Close
  BY <1>6, CloseClean
<1>7. ASSUME NEW k \in 0..MaxText, WriteText(k) PROVE Clean(b)
  BY <1>7 DEF WriteText, Clean
<1>8. ASSUME NEW k \in 0..MaxText, IOError(k) PROVE Clean(b)
  <2>1. stack # << >> /\ J.pc = "write" /\ Fits(k) /\ k \in Nat
    BY <1>1, <1>8 DEF IOError, At
  <2>2. Written(k) \in Disks
    BY <2>1, WrittenFacts
  <2>3. Returned(buf[J.b], TRUE, Written(k))
    BY <1>8, <2>1, IOErrorKeeps
  <2> QED
    BY <2>1, <2>2, <2>3, FailureClean
<1> QED
  BY <1>2, <1>3, <1>4, <1>5, <1>6, <1>7, <1>8 DEF WriteFileStep, Passes

(* b_modified becomes false only when the file has the text of the buffer, *)
(* but for the ways out that the property names: erase-buffer, append,     *)
(* failed or short system calls, and a file that another program writes    *)
(* while it is open (WriteFile, readfile, CheckpointEverything).           *)
THEOREM WrittenIsClean == Spec => OnlyWrittenIsClean
<1>1. ASSUME FilesInv, [Next]_vars, NEW b \in Buffers PROVE Clean(b)
  <2>1. ASSUME NEW c \in Buffers, StartsJob(c) PROVE Clean(b)
    BY <1>1, <2>1, StartsJobCounts, CountsClean
  <2>2. ASSUME NEW c \in Buffers, NEW f \in Files, NEW absolute \in BOOLEAN,
               WriteNamedFile(c, f, absolute)
        PROVE  Clean(b)
    BY <1>1, <2>2, WriteNamedFileKeeps DEF Clean
  <2>3. CASE WriteFileStep
    BY <1>1, <2>3, WriteFileStepClean
  <2>4. CASE UNCHANGED vars \/ \E f \in Files, how \in {"wrote", "replaced"} : Outside(f, how)
    BY <1>1, <2>4, PassesCounts, CountsClean DEF Passes
  <2>5. ASSUME NEW c \in Buffers,
               \/ Edit(c) \/ EraseBuffer(c)
               \/ \E f \in Files : ReadFile(c, f) \/ VisitFile(c, f)
               \/ \E f \in Files \cup {None} : ChangeFileName(c, f)
        PROVE  Clean(b)
    BY <1>1, <2>5, CommandClean
  <2>6. CASE WriteModifiedFiles \/ Checkpoint
    BY <1>1, <2>1, <2>6 DEF StartsJob
  <2> QED
    BY <1>1, <2>1, <2>2, <2>3, <2>4, <2>5, <2>6 DEF Next, StartsJob
<1>2. FilesInv /\ [Next]_vars =>
        [ \A b \in Buffers :
            (buf[b].modified > 0 /\ buf'[b].modified = 0)
              => \/ buf'[b].fname # None /\ disk'[The(buf'[b].fname)].text = buf'[b].text
                 \/ EraseBuffer(b) \/ FailedRead(b)
                 \/ At("close") /\ (J.do = "append" \/ J.short \/ J.met # "nobody") ]_vars
  BY <1>1 DEF Clean
<1> QED
  BY <1>2, FilesInvariant, PTL DEF Spec, OnlyWrittenIsClean

(***************************************************************************)
(* A checkpoint that is believed in is good.                               *)
(***************************************************************************)
Excused(b) ==
  \/ EraseBuffer(b)
  \/ /\ stack # << >> /\ J.do = "checkpoint"
     /\ J.short \/ CannotCreat \/ \E k \in 0..MaxText : IOError(k)
Trusting(b) == Trusted(b)' \/ Excused(b)

LEMMA TrustedFacts ==
  ASSUME NEW b \in Buffers, Trusted(b)
  PROVE  /\ buf[b].checkpointed <= buf[b].modified
         /\ (buf[b].checkpointed = buf[b].modified /\ buf[b].modified > 0)
              => buf[b].ckpfn # None /\ disk[Ckp(buf[b].ckpfn)].text = buf[b].text
BY DEF Trusted

(* Nothing is claimed of the checkpoint of a buffer with a later edit.     *)
LEMMA LowTrusted ==
  ASSUME FilesInv, FilesInv', NEW b \in Buffers,
         buf'[b].checkpointed = 0 \/ buf'[b].checkpointed < buf'[b].modified
  PROVE  Trusted(b)'
<1>1. buf'[b].checkpointed \in Nat /\ buf'[b].modified \in Nat
  <2>1. buf' \in Bufs
    BY DEF FilesInv, Typed
  <2> QED
    BY <2>1, BufsFacts
<1>2. buf'[b].checkpointed <= buf'[b].modified
  BY <1>1
<1>3. ~(buf'[b].checkpointed = buf'[b].modified /\ buf'[b].modified > 0)
  BY <1>1
<1> QED
  BY <1>2, <1>3 DEF Trusted

LEMMA CountsTrusted ==
  ASSUME FilesInv, FilesInv', NEW b \in Buffers, Trusted(b), Counts(b),
         buf[b].ckpfn \in Files => disk'[Ckp(buf[b].ckpfn)].text = disk[Ckp(buf[b].ckpfn)].text
  PROVE  Trusted(b)'
<1>1. /\ buf[b].checkpointed \in Nat /\ buf[b].modified \in Nat
      /\ buf[b].ckpfn \in Files \cup {None}
  BY InvFacts, BufsFacts
<1>2. CASE buf[b].checkpointed < buf[b].modified
  BY <1>2, LowTrusted DEF Counts
<1>3. CASE buf[b].checkpointed = 0
  BY <1>3, LowTrusted DEF Counts
<1>4. CASE buf[b].checkpointed = buf[b].modified /\ buf[b].modified > 0
  <2>1. buf[b].ckpfn # None /\ disk[Ckp(buf[b].ckpfn)].text = buf[b].text
    BY <1>4, TrustedFacts
  <2>2. /\ buf'[b].ckpfn = buf[b].ckpfn /\ buf'[b].text = buf[b].text
        /\ buf'[b].modified = buf[b].modified /\ buf'[b].checkpointed = buf[b].checkpointed
    BY <1>1, <1>4 DEF Counts
  <2>3. disk'[Ckp(buf'[b].ckpfn)].text = buf'[b].text
    BY <1>1, <2>1, <2>2
  <2> QED
    BY <1>4, <1>1, <2>1, <2>2, <2>3 DEF Trusted
<1> QED
  BY <1>1, <1>2, <1>3, <1>4, TrustedFacts

LEMMA EditsTrusted ==
  ASSUME FilesInv, FilesInv', NEW b \in Buffers, Trusted(b), Edits(b)
  PROVE  Trusted(b)'
<1>1. buf[b].checkpointed \in Nat /\ buf[b].modified \in Nat /\ buf[b].checkpointed <= buf[b].modified
  BY InvFacts, BufsFacts, TrustedFacts
<1>2. buf'[b].checkpointed < buf'[b].modified
  BY <1>1 DEF Edits
<1> QED
  BY <1>2, LowTrusted

LEMMA CommandTrusted ==
  ASSUME FilesInv, FilesInv', NEW c \in Buffers, NEW b \in Buffers, Trusted(b),
         \/ Edit(c) \/ EraseBuffer(c)
         \/ \E f \in Files : ReadFile(c, f) \/ VisitFile(c, f)
         \/ \E f \in Files \cup {None} : ChangeFileName(c, f)
  PROVE  Trusting(b)
<1>1. /\ buf \in Bufs /\ disk \in Disks /\ buf[c] \in Buf
      /\ (buf[c].ckpfn = None => buf[c].checkpointed = 0)
  BY InvFacts, BufsFacts DEF NoneMade
<1>2. CASE Edit(c)
  <2>1. buf' \in Edited(c) /\ disk' = disk
    BY <1>2 DEF Edit
  <2> QED
    BY <2>1, EditedCounts, EditsTrusted, CountsTrusted DEF Trusting
<1>3. ASSUME NEW R, buf' = [buf EXCEPT ![c] = R], disk' = disk, R.checkpointed = 0 PROVE Trusted(b)'
  <2>1. buf'[c] = R /\ (b # c => buf'[b] = buf[b])
    BY <1>1, <1>3 DEF Bufs
  <2>2. CASE b = c
    BY <1>3, <2>1, <2>2, LowTrusted
  <2>3. CASE b # c
    BY <1>3, <2>1, <2>3, CountsTrusted DEF Counts
  <2> QED
    BY <2>2, <2>3
<1>4. CASE EraseBuffer(c)
  <2>1. CASE b = c
    BY <1>4, <2>1 DEF Trusting, Excused
  <2>2. CASE b # c
    <3>1. buf'[b] = buf[b] /\ disk' = disk
      BY <1>1, <1>4, <2>2 DEF EraseBuffer, Bufs
    <3> QED
      BY <3>1, CountsTrusted DEF Trusting, Counts
  <2> QED
    BY <2>1, <2>2
<1>5. ASSUME NEW f \in Files, ReadFile(c, f) PROVE Trusting(b)
  <2>1. CASE EraseBuffer(c)
    BY <1>4, <2>1
  <2>2. CASE \E k : Readable(f, k) /\ Replaced(c, Read(buf[c], f, k))
    <3>1. PICK k : Readable(f, k) /\ Replaced(c, Read(buf[c], f, k))
      BY <2>2
    <3> DEFINE R == Read(buf[c], f, k)
    <3>2. R.checkpointed = 0
      BY <1>1, <3>1, ReadFacts
    <3>3. buf' = [buf EXCEPT ![c] = R] /\ disk' = disk
      BY <1>1, <1>5, <3>1, ReadFileShape DEF Replaced
    <3> HIDE DEF R
    <3> QED
      BY <1>3, <3>2, <3>3 DEF Trusting
  <2> QED
    BY <1>1, <1>5, <2>1, <2>2, ReadFileShape
<1>6. ASSUME NEW f \in Files, VisitFile(c, f) PROVE Trusted(b)'
  <2>1. PICK B \in Buf : Replaced(c, Named(B, f))
    BY <1>1, <1>6, VisitFileShape
  <2> DEFINE R == Named(B, f)
  <2>2. R.checkpointed = 0
    BY NamedFacts
  <2>3. buf' = [buf EXCEPT ![c] = R] /\ disk' = disk
    BY <1>1, <1>6, <2>1, VisitFileShape DEF Replaced
  <2> HIDE DEF R
  <2> QED
    BY <1>3, <2>2, <2>3
<1>7. ASSUME NEW f \in Files \cup {None}, ChangeFileName(c, f) PROVE Trusted(b)'
  <2>1. /\ disk' = disk
        /\ \E m : buf' = [buf EXCEPT ![c] = [ Renamed(buf[c], f) EXCEPT !.modtime = m ]]
    BY <1>7 DEF ChangeFileName
  <2>2. PICK m : buf' = [buf EXCEPT ![c] = [ Renamed(buf[c], f) EXCEPT !.modtime = m ]]
    BY <2>1
  <2> DEFINE N == Renamed(buf[c], f)
             R == [ N EXCEPT !.modtime = m ]
  <2>3. N \in Buf /\ N.checkpointed = 0
    BY <1>1, RenamedFacts
  <2>4. buf' = [buf EXCEPT ![c] = R]
    BY <2>2
  <2> HIDE DEF N
  <2>5. R.checkpointed = 0
    BY <2>3 DEF Buf
  <2> HIDE DEF R
  <2> QED
    BY <1>3, <2>1, <2>4, <2>5
<1> QED
  BY <1>2, <1>4, <1>5, <1>6, <1>7 DEF Trusting

(* The job of another buffer does not touch the checkpoint file of b.      *)
LEMMA OthersCheckpoint ==
  ASSUME FilesInv, stack # << >>, NEW b \in Buffers, Alone(b), b # J.b,
         buf[b].ckpfn \in Files
  PROVE  J.name # Ckp(buf[b].ckpfn) /\ buf[J.b].ckpfn # buf[b].ckpfn
<1>1. J.b \in Buffers /\ buf[J.b].ckpfn # buf[b].ckpfn
  BY TopFacts DEF Alone
<1>2. CASE J.do = "checkpoint"
  BY <1>1, <1>2, TopFacts, NameFacts DEF Ready
<1>3. CASE J.do # "checkpoint"
  BY <1>1, <1>3, FileFacts, NameFacts
<1> QED
  BY <1>2, <1>3

(* A job that ends: but for a checkpoint it forgets, or changes nothing.   *)
LEMMA ReturnedTrusted ==
  ASSUME FilesInv, FilesInv', stack # << >>, NEW B, NEW e, NEW D, Returned(B, e, D), Left(B, D),
         NEW b \in Buffers, Trusted(b), Alone(b),
         \A f \in Files : J.name # Ckp(f) => D[Ckp(f)] = disk[Ckp(f)],
         b = J.b => /\ J.do # "checkpoint"
                    /\ B.text = buf[b].text
                    /\ e => B = buf[b]
                    /\ ~e => B.checkpointed = 0
  PROVE  Trusted(b)'
<1> DEFINE c == buf[b].ckpfn
<1>1. J.b \in Buffers /\ buf \in Bufs /\ B \in Buf
  BY TopFacts, InvFacts DEF Left
<1>2. CASE b # J.b
  <2>1. Counts(b)
    BY <1>2, ReturnedCounts
  <2>2. ASSUME c \in Files PROVE disk'[Ckp(c)] = disk[Ckp(c)]
    <3>1. J.name # Ckp(c) /\ buf[J.b].ckpfn # c
      BY <1>2, <2>2, OthersCheckpoint
    <3>2. D[Ckp(c)] = disk[Ckp(c)]
      BY <2>2, <3>1
    <3> QED
      BY <2>2, <3>1, <3>2 DEF Returned
  <2> QED
    BY <2>1, <2>2, CountsTrusted
<1>3. CASE b = J.b
  <2>1. /\ buf'[b].text = buf[b].text
        /\ buf'[b].modified = B.modified
        /\ buf'[b].checkpointed \in { 0, B.checkpointed }
        /\ buf'[b].ckpfn # B.ckpfn => buf'[b].checkpointed < buf'[b].modified
    BY <1>1, <1>3, ReturnedCounts, EpilogueFacts
  <2>2. CASE buf'[b].checkpointed = 0
    BY <2>2, LowTrusted
  <2>3. CASE buf'[b].checkpointed # 0
    <3>1. e /\ B = buf[b]
      BY <1>3, <2>1, <2>3
    <3>2. Counts(b)
      BY <2>1, <2>3, <3>1 DEF Counts
    <3>3. ASSUME c \in Files PROVE disk'[Ckp(c)] = disk[Ckp(c)]
      <4>1. J.name # Ckp(c)
        BY <1>3, FileFacts, NameFacts
      <4>2. D[Ckp(c)] = disk[Ckp(c)]
        BY <3>3, <4>1
      <4>3. disk'[Ckp(c)] = D[Ckp(c)]
        BY <3>1, <3>3 DEF Returned
      <4> QED
        BY <4>2, <4>3
    <3> QED
      BY <3>2, <3>3, CountsTrusted
  <2> QED
    BY <2>2, <2>3
<1> QED
  BY <1>2, <1>3

LEMMA CloseTrusted ==
  ASSUME FilesInv, FilesInv', Close, NEW b \in Buffers, Trusted(b), Alone(b)
  PROVE  Trusting(b)
<1> DEFINE B == Closed(buf[J.b])
<1>1. stack # << >> /\ J.pc = "close" /\ Returned(B, err, disk)
  BY CloseKeeps DEF Close, At
<1>2. /\ Left(B, disk) /\ B.text = buf[J.b].text
      /\ err => B = buf[J.b]
      /\ ~err => B.checkpointed = 0
  BY <1>1, ClosedFacts
<1>3. CASE b = J.b /\ J.do = "checkpoint" /\ J.short
  BY <1>1, <1>3 DEF Trusting, Excused
<1>4. CASE b = J.b /\ J.do = "checkpoint" /\ ~J.short
  <2>1. J.name = Ckp(buf[b].ckpfn) /\ J.name \in Names /\ disk[J.name].text = buf[b].text
    BY <1>1, <1>4, TopFacts DEF Ready, Formed, InPlace
  <2>2. buf[b].ckpfn \in Files
    BY <2>1 DEF Names, Ckp
  <2>3. J.modcnt \in Nat /\ B \in Buf /\ B.ckpfn = buf[b].ckpfn
    BY <1>1, <1>2, <1>4, TopFacts DEF Left, Job
  <2>4. /\ buf'[b].text = buf[b].text
        /\ buf'[b].modified = J.modcnt /\ buf'[b].checkpointed = J.modcnt
        /\ buf'[b].ckpfn # B.ckpfn => buf'[b].checkpointed < buf'[b].modified
    BY <1>1, <1>2, <1>4, <2>3, ReturnedCounts, EpilogueFacts
  <2>5. buf'[b].ckpfn = buf[b].ckpfn
    BY <2>3, <2>4
  <2>6. disk'[Ckp(buf[b].ckpfn)] = disk[Ckp(buf[b].ckpfn)]
    BY <1>1, <1>4, <2>2 DEF Returned, Saves
  <2>7. buf'[b].ckpfn # None /\ disk'[Ckp(buf'[b].ckpfn)].text = buf'[b].text
    BY <2>1, <2>2, <2>4, <2>5, <2>6, NoneAssumption
  <2> QED
    BY <2>3, <2>4, <2>7 DEF Trusting, Trusted
<1>5. CASE ~(b = J.b /\ J.do = "checkpoint")
  <2>1. Trusted(b)'
    BY <1>1, <1>2, <1>5, ReturnedTrusted
  <2> QED
    BY <2>1 DEF Trusting
<1> QED
  BY <1>3, <1>4, <1>5

LEMMA FailureTrusted ==
  ASSUME FilesInv, FilesInv', stack # << >>, NEW D \in Disks, Returned(buf[J.b], TRUE, D),
         \A f \in Files : J.name # Ckp(f) => D[Ckp(f)] = disk[Ckp(f)],
         NEW b \in Buffers, Trusted(b), Alone(b),
         b # J.b \/ J.do # "checkpoint"
  PROVE  Trusted(b)'
BY LeftAlone, ReturnedTrusted

(* A step of the job that writes, on the file it has open. *)
LEMMA WriterTrusted ==
  ASSUME FilesInv, FilesInv', stack # << >>, NEW b \in Buffers, Trusted(b), Alone(b),
         Edits(b) \/ Counts(b),
         \A n \in Names \ {J.name} : disk'[n] = disk[n]
  PROVE  Trusted(b)'
<1>1. CASE Edits(b)
  BY <1>1, EditsTrusted
<1>2. CASE Counts(b) /\ b = J.b /\ J.do = "checkpoint"
  <2>1. buf[b].checkpointed < buf[b].modified
    BY <1>2, TopFacts DEF Ready
  <2> QED
    BY <1>2, <2>1, LowTrusted DEF Counts
<1>3. CASE Counts(b) /\ ~(b = J.b /\ J.do = "checkpoint")
  <2>1. ASSUME buf[b].ckpfn \in Files PROVE disk'[Ckp(buf[b].ckpfn)] = disk[Ckp(buf[b].ckpfn)]
    <3>1. J.name # Ckp(buf[b].ckpfn)
      BY <1>3, <2>1, OthersCheckpoint, FileFacts, NameFacts
    <3> QED
      BY <2>1, <3>1, NameFacts
  <2> QED
    BY <1>3, <2>1, CountsTrusted
<1> QED
  BY <1>1, <1>2, <1>3

LEMMA WriteFileStepTrusted ==
  ASSUME FilesInv, FilesInv', WriteFileStep, NEW b \in Buffers, Trusted(b), Alone(b)
  PROVE  Trusting(b)
<1>1. 0..MaxText \subseteq Nat
  BY MaxTextAssumption
<1>2. ASSUME Unwritable \/ NotWritten, stack # << >> PROVE Trusted(b)'
  <2>1. Fails /\ J.do # "checkpoint"
    BY <1>2, TopFacts DEF Unwritable, NotWritten, At, Ready, Formed, Saves
  <2> QED
    BY <1>2, <2>1, FailsKeeps, FailureTrusted, InvFacts
<1>3. CASE CannotCreat
  <2>1. Fails /\ stack # << >>
    BY <1>3 DEF CannotCreat, CanOpen, Agreed, At
  <2>2. CASE J.do = "checkpoint"
    BY <1>3, <2>1, <2>2 DEF Trusting, Excused
  <2>3. CASE J.do # "checkpoint"
    <3>1. Trusted(b)'
      BY <2>1, <2>3, FailsKeeps, FailureTrusted, InvFacts
    <3> QED
      BY <3>1 DEF Trusting
  <2> QED
    BY <2>2, <2>3
<1>4. CASE Passes
  <2>1. Counts(b) /\ \A f \in Files : disk'[Ckp(f)] = disk[Ckp(f)]
    BY <1>4, PassesCounts
  <2> QED
    BY <2>1, CountsTrusted DEF Trusting
<1>5. ASSUME NEW done \in BOOLEAN, AddNewline(done) PROVE Trusted(b)'
  <2>1. stack # << >> /\ buf' \in Edited(J.b) /\ disk' = disk
    BY <1>5 DEF AddNewline, At
  <2> QED
    BY <2>1, TopFacts, EditedCounts, EditsTrusted, CountsTrusted
<1>6. ASSUME NEW hook \in {"nothing", "edits", "fails"}, Creat(hook) PROVE Trusted(b)'
  <2>1. /\ stack # << >> /\ (buf' \in Edited(J.b) \/ buf' = buf)
        /\ disk' = [disk EXCEPT ![J.name] = Opened]
    BY <1>6 DEF Creat, CanOpen, Agreed, At
  <2>2. Edits(b) \/ Counts(b)
    BY <2>1, TopFacts, EditedCounts DEF Counts
  <2>3. \A n \in Names \ {J.name} : disk'[n] = disk[n]
    BY <2>1, InvFacts DEF Disks
  <2> QED
    BY <2>1, <2>2, <2>3, WriterTrusted
<1>7. CASE Close
  BY <1>7, CloseTrusted
<1>8. ASSUME NEW k \in 0..MaxText, WriteText(k) PROVE Trusted(b)'
  <2>1. stack # << >> /\ J.pc = "write" /\ Fits(k) /\ k \in Nat /\ disk' = Written(k) /\ buf' = buf
    BY <1>1, <1>8 DEF WriteText, At
  <2>2. \A n \in Names \ {J.name} : disk'[n] = disk[n]
    BY <2>1, WrittenFacts
  <2>3. Counts(b)
    BY <2>1 DEF Counts
  <2> QED
    BY <2>1, <2>2, <2>3, WriterTrusted
<1>9. ASSUME NEW k \in 0..MaxText, IOError(k) PROVE Trusting(b)
  <2>1. stack # << >> /\ J.pc = "write" /\ Fits(k) /\ k \in Nat
    BY <1>1, <1>9 DEF IOError, At
  <2>2. CASE J.do = "checkpoint"
    BY <1>9, <2>1, <2>2 DEF Trusting, Excused
  <2>3. CASE J.do # "checkpoint"
    <3>1. Written(k) \in Disks /\ \A n \in Names \ {J.name} : Written(k)[n] = disk[n]
      BY <2>1, WrittenFacts
    <3>2. \A f \in Files : J.name # Ckp(f) => Written(k)[Ckp(f)] = disk[Ckp(f)]
      BY <3>1, NameFacts
    <3>3. Returned(buf[J.b], TRUE, Written(k))
      BY <1>9, <2>1, IOErrorKeeps
    <3>4. Trusted(b)'
      BY <2>1, <2>3, <3>1, <3>2, <3>3, FailureTrusted
    <3> QED
      BY <3>4 DEF Trusting
  <2> QED
    BY <2>2, <2>3
<1>10. (Unwritable \/ NotWritten) => stack # << >>
  BY DEF Unwritable, NotWritten, At
<1> QED
  BY <1>2, <1>3, <1>4, <1>5, <1>6, <1>7, <1>8, <1>9, <1>10 DEF WriteFileStep, Passes, Trusting

(* A checkpoint that b_checkpointed believes in has the text of the buffer,*)
(* but after erase-buffer and a checkpoint that fails or comes short       *)
(* (CheckpointEverything, WriteFile, VisitFile, ReadFile).                 *)
THEOREM CheckpointsTrusted == Spec => CheckpointTrusted
<1>1. ASSUME FilesInv, FilesInv', [Next]_vars, NEW b \in Buffers, Trusted(b), Alone(b)
      PROVE  Trusting(b)
  <2>1. ASSUME NEW c \in Buffers, StartsJob(c) PROVE Trusting(b)
    BY <1>1, <2>1, StartsJobCounts, CountsTrusted DEF Trusting
  <2>2. ASSUME NEW c \in Buffers, NEW f \in Files, NEW absolute \in BOOLEAN,
               WriteNamedFile(c, f, absolute)
        PROVE  Trusting(b)
    <3>1. disk' = disk
      BY <2>2 DEF WriteNamedFile, Begin
    <3>2. b # c => Counts(b)
      BY <1>1, <2>2, WriteNamedFileKeeps DEF Counts
    <3>3. b = c => buf'[b].checkpointed = 0
      BY <1>1, <2>2, WriteNamedFileKeeps
    <3> QED
      BY <1>1, <3>1, <3>2, <3>3, LowTrusted, CountsTrusted DEF Trusting
  <2>3. CASE WriteFileStep
    BY <1>1, <2>3, WriteFileStepTrusted
  <2>4. CASE UNCHANGED vars \/ \E f \in Files, how \in {"wrote", "replaced"} : Outside(f, how)
    BY <1>1, <2>4, PassesCounts, CountsTrusted DEF Passes, Trusting
  <2>5. ASSUME NEW c \in Buffers,
               \/ Edit(c) \/ EraseBuffer(c)
               \/ \E f \in Files : ReadFile(c, f) \/ VisitFile(c, f)
               \/ \E f \in Files \cup {None} : ChangeFileName(c, f)
        PROVE  Trusting(b)
    BY <1>1, <2>5, CommandTrusted
  <2>6. CASE WriteModifiedFiles \/ Checkpoint
    BY <1>1, <2>1, <2>6 DEF StartsJob
  <2> QED
    BY <1>1, <2>1, <2>2, <2>3, <2>4, <2>5, <2>6 DEF Next, StartsJob
<1>2. FilesInv /\ FilesInv' /\ [Next]_vars =>
        [ \A b \in Buffers :
            (Trusted(b) /\ Alone(b) /\ Alone(b)')
              => \/ Trusted(b)'
                 \/ EraseBuffer(b)
                 \/ /\ stack # << >> /\ J.do = "checkpoint"
                    /\ J.short \/ CannotCreat \/ \E k \in 0..MaxText : IOError(k) ]_vars
  BY <1>1 DEF Trusting, Excused
<1> QED
  BY <1>2, FilesInvariant, PTL DEF Spec, CheckpointTrusted

(***************************************************************************)
(* What somebody else has written is found.                                *)
(***************************************************************************)
LEMMA ForeignAsks ==
  ASSUME FilesInv, NEW b \in hist.foreign, Overwrites(b)
  PROVE  Asks /\ ~AtKeyboard /\ stack # << >> /\ J.pc = "look"
<1>1. /\ stack # << >> /\ J.pc = "look" /\ Saves(J.do) /\ J.b = b
      /\ disk[J.name].mtime > 0 /\ buf[b].modtime # 0
  BY DEF Overwrites, At, Exists
<1>2. b \in Buffers
  BY InvFacts DEF History
<1>3. J.name = The(buf[b].fname) /\ J.name \in Names /\ J.name \in { The(f) : f \in Files }
  BY <1>1, TopFacts DEF Ready, Formed, Saves
<1>4. buf[b].fname \in Files
  BY <1>3, NameFacts
<1>5. Older(buf[b], disk)
  BY <1>1, <1>2, InvFacts DEF Times
<1>6. disk[J.name].mtime > buf[b].modtime
  BY <1>1, <1>3, <1>4, <1>5, NoneAssumption DEF Older
<1>7. Asks
  BY <1>1, <1>6 DEF Asks, Changed, Exists
<1>8. ~AtKeyboard
  BY <1>1 DEF AtKeyboard, Questions
<1> QED
  BY <1>1, <1>7, <1>8

LEMMA LookKeepsDisk ==
  ASSUME FilesInv, [Next]_vars, Asks, ~AtKeyboard, stack # << >>, J.pc = "look"
  PROVE  disk' = disk \/ clock' # clock
<1>1. /\ ~At("ask") /\ ~At("agreed") /\ ~At("link") /\ ~At("copy") /\ ~At("unlink") /\ ~At("creat")
      /\ ~At("newline") /\ ~At("write") /\ ~At("close") /\ ~At("ignore")
  BY DEF At
<1>2. ~Agreed /\ ~CanOpen
  BY <1>1 DEF Agreed, CanOpen
<1>3. ~Command
  BY DEF Command
<1>4. ASSUME Unwritable PROVE disk' = disk
  BY <1>4 DEF Unwritable, Fails, Returns, Unlinks
<1>5. ASSUME WriteFileStep PROVE disk' = disk
  BY <1>1, <1>2, <1>4, <1>5
     DEF WriteFileStep, Ask, WriteAnyway, NotWritten, UnlinkOld, CannotCreat, StartBackup,
         CopyBackup, LinkBackup, AddNewline, Creat, NoNewline, Close, IgnoreIt, WriteText, IOError
<1>6. ASSUME NEW do, NEW todo, NEW name, NEW bufs, Begin(do, todo, name, bufs) PROVE FALSE
  BY <1>6 DEF Begin
<1>7. ASSUME NEW f \in Files, NEW how, Outside(f, how) PROVE clock' # clock
  BY <1>7, InvFacts DEF Outside
<1> QED
  BY <1>3, <1>5, <1>6, <1>7
     DEF Next, vars, Edit, EraseBuffer, ReadFile, VisitFile, ChangeFileName,
         WriteCurrentFile, WriteNamedFile, AppendToFile, WriteModifiedFiles, Checkpoint

(* WriteFile asks before it writes over what somebody else has written,    *)
(* whenever a time is remembered and no more is known of the file (the look*)
(* at st_mtime in WriteFile).                                              *)
THEOREM ForeignIsFound == Spec => LookFindsForeign
<1>1. ASSUME FilesInv, [Next]_vars, NEW b \in hist.foreign, Overwrites(b)
      PROVE  disk' = disk \/ clock' # clock
  BY <1>1, ForeignAsks, LookKeepsDisk
<1>2. FilesInv /\ [Next]_vars =>
        [ \A b \in hist.foreign :
            Overwrites(b) => (UNCHANGED disk \/ clock' # clock) ]_vars
  BY <1>1
<1> QED
  BY <1>2, FilesInvariant, PTL DEF Spec, LookFindsForeign
==============================================================================
