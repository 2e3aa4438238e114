------------------------------ MODULE Database -------------------------------
(***************************************************************************)
(* ndbm.c and dbmanager.c: keyed texts kept in three files, and the search *)
(* lists of databases that Emacs looks keys up in.                         *)
(*                                                                         *)
(* The keys of a database are spread over the pages of NAME.pag by the low *)
(* bits of their hash.  A page that overflows is split in two and the bit  *)
(* for it is set in NAME.dir; the entry of a key says where in NAME.dat    *)
(* its text is.  Each database in memory keeps one page and one block of   *)
(* the directory, and only the database used last has its files open.      *)
(*                                                                         *)
(* st.disk[f] is what the files of f hold, st.dbs the databases in memory, *)
(* st.last the one whose files are open.  A page is the set of its items.  *)
(* Emacs can die between any two writes; a write is never done by halves.  *)
(***************************************************************************)
EXTENDS Integers, Sequences, SequencesExt, FiniteSetsExt

CONSTANTS Files,        \* the names of databases
          ReadOnly,     \* those that cannot be written
          Keys,         \* the keys, numbers in the order of cmpdatum
          Hashes,       \* the hash of each key
          Sizes,        \* the bytes a key takes in a page
          PageRoom,     \* the bytes of a page (PBLKSIZ)
          BlockBits,    \* the bits of a directory block (DBLKSIZ * BYTESIZ)
          Names,        \* the names of search lists
          SearchLen,    \* the longest search list
          Plans,        \* what may be tried, see plan
          Shipped       \* the contents the databases start with

VARIABLES st,           \* the files and the databases in memory
          lists,        \* lists[n]: the search list, numbers of databases
          op,           \* the put under way
          meant,        \* history: the text that each key of each file should have
          doubt,        \* history: the keys whose text a crash has made uncertain
          puts, crashes,\* how often each happened
          plan          \* what is tried: offered[n] are the databases for list n,
                        \* keys and lengths what is put, puts and crashes the
                        \* bounds on both

dbvars == << st, lists, op, meant, doubt, puts, crashes, plan >>

Nothing == << >>        \* no text
Idle    == [ step |-> "idle" ]
Closed  == 0            \* no database has its files open
None    == -1           \* no page or block in memory

calchash(key) == Hashes[key]

(***************************************************************************)
(* Pages.  Whatever the order of its items, a page is searched through.    *)
(***************************************************************************)
Item(key, at, n)   == [ key |-> key, at |-> at, len |-> n ]
Bulk(page)         == MapThenSumSet(LAMBDA i : Sizes[i.key], page)
Found(page, key)   == { i \in page : i.key = key }
additem(page, key) == Bulk(page) + Sizes[key] <= PageRoom
Page(file, n)      == IF n \in DOMAIN file.pages THEN file.pages[n] ELSE {}

(***************************************************************************)
(* The files.  A file that is not open reads as nothing and takes nothing. *)
(***************************************************************************)
FileOf(S, h) == S.dbs[h].file
Block(bit)   == bit \div BlockBits
Low(hash, mask) == hash % (mask + 1)             \* hash & mask
Bit(mask, hash) == (hash \div (mask + 1)) % 2    \* hash & (mask + 1)

setup_db(S, h) ==
  IF S.last = h THEN S
  ELSE [ S EXCEPT !.last = h, !.dbs[h].rdonly = FileOf(S, h) \in ReadOnly ]

ReadPage(S, h, n) == IF S.last = h THEN Page(S.disk[FileOf(S, h)], n) ELSE {}
ReadBits(S, h, b) ==
  IF S.last = h THEN { n \in S.disk[FileOf(S, h)].bits : Block(n) = b } ELSE {}
WritePage(S, h, n, page) ==
  IF S.last # h THEN S
  ELSE [ S EXCEPT !.disk[FileOf(S, h)].pages = (n :> page) @@ @ ]
WriteBits(S, h, b, bits) ==
  IF S.last # h THEN S
  ELSE [ S EXCEPT !.disk[FileOf(S, h)].bits = { n \in @ : Block(n) # b } \cup bits,
                  !.disk[FileOf(S, h)].size = Max({@, b + 1}) ]

Opened(S, f) ==
  [ file |-> f, maxbno |-> S.disk[f].size * BlockBits - 1, rdonly |-> f \in ReadOnly,
    blkno |-> 0, bitno |-> 0, hmask |-> 0, oldpagb |-> None, pagbuf |-> {},
    olddirb |-> None, dirbuf |-> {} ]
open_db(S, f) ==
  [ S EXCEPT !.dbs = Append(@, Opened(S, f)), !.last = Len(S.dbs) + 1 ]

(***************************************************************************)
(* ndbm_access: from the whole hash space, halve as long as the directory  *)
(* says that the half was split, and bring in the page it ends at.         *)
(***************************************************************************)
LoadBits(S, h, b) ==
  IF S.dbs[h].olddirb = b THEN S
  ELSE LET T == setup_db(S, h)
       IN  [ T EXCEPT !.dbs[h].dirbuf = ReadBits(T, h, b), !.dbs[h].olddirb = b ]
(* getbit reads the directory only for a bit that may have been written. *)
LookBit(S, h, n) == IF n > S.dbs[h].maxbno THEN S ELSE LoadBits(S, h, Block(n))
IsSplit(S, h, n) == n <= S.dbs[h].maxbno /\ n \in S.dbs[h].dirbuf

RECURSIVE forder(_, _, _, _)
forder(S, h, hash, mask) ==
  LET n == Low(hash, mask) + mask
      T == LookBit(S, h, n)
  IN  IF IsSplit(T, h, n) THEN forder(T, h, hash, 2 * mask + 1)
      ELSE [ T EXCEPT !.dbs[h].blkno = Low(hash, mask), !.dbs[h].bitno = n,
                      !.dbs[h].hmask = mask ]

ndbm_access(S, h, hash) ==
  LET T == forder(S, h, hash, 0)
      n == T.dbs[h].blkno
      U == setup_db(T, h)
  IN  IF n = T.dbs[h].oldpagb THEN T
      ELSE [ U EXCEPT !.dbs[h].pagbuf = ReadPage(U, h, n), !.dbs[h].oldpagb = n ]

fetch(S, h, key) == ndbm_access(S, h, calchash(key))
Fetched(S, h, key) == Found(S.dbs[h].pagbuf, key)

(***************************************************************************)
(* get_db, and fetch-database-entry: the first database of the list that   *)
(* has the key and all of its text answers.                                *)
(***************************************************************************)
ReadText(S, h, i) ==
  LET data == S.disk[FileOf(S, h)].data
  IN  IF S.last = h /\ i.at + i.len <= Len(data)
      THEN SubSeq(data, i.at + 1, i.at + i.len) ELSE Nothing

(* A slip: the files are taken to be those of this database. *)
get_db_unset(S, h, key) ==
  LET T == fetch(S, h, key)
  IN  IF Fetched(T, h, key) = {} THEN [ st |-> T, text |-> Nothing ]
      ELSE [ st |-> T, text |-> ReadText(T, h, CHOOSE i \in Fetched(T, h, key) : TRUE) ]

get_db(S, h, key) ==
  LET T == fetch(S, h, key)
      U == setup_db(T, h)
  IN  IF Fetched(T, h, key) = {} THEN [ st |-> T, text |-> Nothing ]
      ELSE [ st |-> U, text |-> ReadText(U, h, CHOOSE i \in Fetched(T, h, key) : TRUE) ]

RECURSIVE LookUp(_, _, _)
LookUp(S, list, key) ==
  IF list = << >> THEN [ st |-> S, text |-> Nothing ]
  ELSE LET g == get_db(S, Head(list), key)
       IN  IF g.text # Nothing THEN g ELSE LookUp(g.st, Tail(list), key)

(***************************************************************************)
(* firstkey and nextkey, as dblist calls them: the keys of a page from the *)
(* largest down, and then the next page by the hash read from the left.    *)
(***************************************************************************)
(* A slip: the leftmost bit is passed over.                                *)
hashinc_right(hash, mask) ==
  LET n    == Low(hash, mask)
      zero == { b \in 0..(mask \div 2) : \E k \in 0..mask : b = 2^k /\ (n \div b) % 2 = 0 }
  IN  IF zero = {} THEN 0 ELSE (n % Max(zero)) + Max(zero)

hashinc(hash, mask) ==
  LET n    == Low(hash, mask)
      zero == { b \in 0..mask : \E k \in 0..mask : b = 2^k /\ (n \div b) % 2 = 0 }
  IN  IF zero = {} THEN 0 ELSE (n % Max(zero)) + Max(zero)

Below(S, h, key) == { i.key : i \in { j \in S.dbs[h].pagbuf : j.key < key } }

RECURSIVE ListedFrom(_, _, _, _)
ListedFrom(S, h, hash, key) ==
  LET T    == ndbm_access(S, h, hash)
      rest == Below(T, h, key)
      up   == hashinc(hash, T.dbs[h].hmask)
  IN  IF rest # {} THEN << Max(rest) >> \o ListedFrom(T, h, calchash(Max(rest)), Max(rest))
      ELSE IF up = 0 THEN << >>
      ELSE ListedFrom(T, h, up, Max(Keys) + 1)

Listed(f) ==
  LET S == open_db([ disk |-> st.disk, dbs |-> << >>, last |-> Closed ], f)
  IN  ListedFrom(S, 1, 0, Max(Keys) + 1)

(***************************************************************************)
(* The commands.                                                           *)
(***************************************************************************)
ExtendDatabaseSearchList(n, f) ==
  /\ op = Idle
  /\ \A i \in 1..Len(lists[n]) : FileOf(st, lists[n][i]) # f
  /\ Len(lists[n]) < SearchLen
  /\ st' = open_db(st, f)
  /\ lists' = [ lists EXCEPT ![n] = << Len(st'.dbs) >> \o @ ]
  /\ UNCHANGED << op, meant, doubt, puts, crashes, plan >>

FetchDatabaseEntry(n, key) ==
  /\ op = Idle
  /\ st' = LookUp(st, lists[n], key).st
  /\ UNCHANGED << lists, op, meant, doubt, puts, crashes, plan >>

(* put-database-entry up to the first write.  get_db with nowhere to put   *)
(* the text never answers 0, so the first database that can be written is  *)
(* taken whether it has the key or not.                                    *)
Writable(n) == { i \in 1..Len(lists[n]) : ~st.dbs[lists[n][i]].rdonly }
PlaceFor(S, h, key, len) ==
  LET old == { i \in Fetched(S, h, key) : i.len >= len }
  IN  IF old # {} THEN (CHOOSE i \in old : TRUE).at
      ELSE Len(S.disk[FileOf(S, h)].data)

PutDatabaseEntry(n, key, len) ==
  /\ op = Idle /\ puts < plan.puts
  /\ Writable(n) # {}
  /\ LET h == lists[n][Min(Writable(n))]
         S == setup_db(fetch(st, h, key), h)
     IN  /\ st' = S
         /\ op' = [ step |-> "store", h |-> h, key |-> key, at |-> PlaceFor(S, h, key, len),
                    text |-> [ i \in 1..len |-> << key, puts + 1 >> ] ]
  /\ puts' = puts + 1
  /\ UNCHANGED << lists, meant, doubt, crashes, plan >>

(* store: the entry into its page, when there is room. *)
Accessed == ndbm_access(setup_db(st, op.h), op.h, calchash(op.key))
OpPage   == { i \in Accessed.dbs[op.h].pagbuf : i.key # op.key }

StoreItem ==
  /\ op.step = "store"
  /\ additem(OpPage, op.key)
  /\ LET page == OpPage \cup { Item(op.key, op.at, Len(op.text)) }
         S    == [ Accessed EXCEPT !.dbs[op.h].pagbuf = page ]
     IN  st' = WritePage(S, op.h, S.dbs[op.h].blkno, page)
  /\ op' = [ op EXCEPT !.step = "content" ]
  /\ UNCHANGED << lists, meant, doubt, puts, crashes, plan >>

TooBig ==
  /\ op.step = "store"
  /\ ~additem(OpPage, op.key) /\ Sizes[op.key] > PageRoom
  /\ st' = Accessed /\ op' = Idle
  /\ UNCHANGED << lists, meant, doubt, puts, crashes, plan >>

(* A full page: what stays is written, then what goes, then the directory. *)
StaysIn(S, h, page) == { i \in page : Bit(S.dbs[h].hmask, calchash(i.key)) = 0 }

SplitLow ==
  /\ op.step = "store"
  /\ ~additem(OpPage, op.key) /\ Sizes[op.key] <= PageRoom
  /\ LET low == StaysIn(Accessed, op.h, OpPage)
         S   == [ Accessed EXCEPT !.dbs[op.h].pagbuf = low ]
     IN  /\ st' = WritePage(S, op.h, S.dbs[op.h].blkno, low)
         /\ op' = [ step |-> "high", moved |-> OpPage \ low ] @@ op
  /\ UNCHANGED << lists, meant, doubt, puts, crashes, plan >>

SplitHigh ==
  /\ op.step = "high"
  /\ LET d == st.dbs[op.h]
     IN  st' = WritePage(st, op.h, d.blkno + d.hmask + 1, op.moved)
  /\ op' = [ op EXCEPT !.step = "dir" ]
  /\ UNCHANGED << lists, meant, doubt, puts, crashes, plan >>

setbit(S, h) ==
  LET n == S.dbs[h].bitno
      b == Block(n)
      T == IF n > S.dbs[h].maxbno
           THEN LookBit([ S EXCEPT !.dbs[h].maxbno = n ], h, n) ELSE S
      U == setup_db([ T EXCEPT !.dbs[h].dirbuf = @ \cup {n} ], h)
  IN  WriteBits(U, h, b, U.dbs[h].dirbuf)

SplitDir ==
  /\ op.step = "dir"
  /\ st' = setbit(st, op.h)
  /\ op' = [ step |-> "store", h |-> op.h, key |-> op.key, at |-> op.at, text |-> op.text ]
  /\ UNCHANGED << lists, meant, doubt, puts, crashes, plan >>

Meets(a, n, i) == a < i.at + i.len /\ i.at < a + n
Entries(f) == UNION { st.disk[f].pages[n] : n \in DOMAIN st.disk[f].pages }

WriteContent ==
  LET f == FileOf(st, op.h)
      n == Len(op.text)
      Written(data) == [ i \in 1..Max({ Len(data), op.at + n }) |->
                           IF i \in (op.at + 1)..(op.at + n) THEN op.text[i - op.at]
                           ELSE data[i] ]
  IN  /\ op.step = "content"
      /\ st' = IF st.last = op.h THEN [ st EXCEPT !.disk[f].data = Written(@) ] ELSE st
      /\ op' = Idle
      /\ meant' = [ meant EXCEPT ![f][op.key] = op.text ]
      /\ doubt' = [ doubt EXCEPT ![f] =
                      IF op.key \notin @ THEN @
                      ELSE (@ \ {op.key}) \cup
                           { i.key : i \in { j \in Entries(f) : /\ j.key # op.key
                                                                /\ Meets(op.at, n, j) } } ]
      /\ UNCHANGED << lists, puts, crashes, plan >>

(* Emacs ends, anywhere; the next one starts with no database open. *)
Ends ==
  /\ crashes < plan.crashes
  /\ crashes' = crashes + 1
  /\ st' = [ st EXCEPT !.dbs = << >>, !.last = Closed ]
  /\ lists' = [ n \in Names |-> << >> ]
  /\ op' = Idle
  /\ meant' = IF op.step \notin {"high", "dir"} THEN meant
              ELSE [ meant EXCEPT ![FileOf(st, op.h)] =
                       [ k \in Keys |-> IF Found(op.moved, k) # {} THEN Nothing
                                        ELSE @[k] ] ]
  /\ doubt' = IF op.step # "content" THEN doubt
              ELSE [ doubt EXCEPT ![FileOf(st, op.h)] = @ \cup {op.key} ]
  /\ UNCHANGED << puts, plan >>

DatabaseInit ==
  /\ st = [ disk |-> Shipped, dbs |-> << >>, last |-> Closed ]
  /\ lists = [ n \in Names |-> << >> ]
  /\ op = Idle
  /\ meant = [ f \in Files |->
                 [ k \in Keys |->
                     LET i == Found(Page(Shipped[f], 0), k)
                     IN  IF i = {} THEN Nothing
                         ELSE LET j == CHOOSE j \in i : TRUE
                              IN  SubSeq(Shipped[f].data, j.at + 1, j.at + j.len) ] ]
  /\ doubt = [ f \in Files |-> {} ]
  /\ puts = 0 /\ crashes = 0
  /\ plan \in Plans

DatabaseNext ==
  \/ \E n \in Names : \E f \in plan.offered[n] : ExtendDatabaseSearchList(n, f)
  \/ \E n \in Names, key \in plan.keys :
        \/ FetchDatabaseEntry(n, key)
        \/ \E len \in plan.lengths : PutDatabaseEntry(n, key, len)
  \/ StoreItem \/ TooBig \/ SplitLow \/ SplitHigh \/ SplitDir
  \/ WriteContent
  \/ Ends

(***************************************************************************)
(* Properties.                                                             *)
(***************************************************************************)
Holders(n, key) ==
  { i \in 1..Len(lists[n]) : meant[FileOf(st, lists[n][i])][key] # Nothing }
Expected(n, key) ==
  IF Holders(n, key) = {} THEN Nothing
  ELSE meant[FileOf(st, lists[n][Min(Holders(n, key))])][key]
InDoubt(n, key) == \E i \in 1..Len(lists[n]) : key \in doubt[FileOf(st, lists[n][i])]

(* Between commands a search list answers a key with the text put last in  *)
(* the first of its databases that has it, whatever pages were split,      *)
(* whichever database had its files open, and wherever Emacs died before.  *)
(* A death in a split loses the entries that were on their way; one before *)
(* the text is written puts in doubt its key, and once that key is stored  *)
(* again the texts that were put where it thought its own was.             *)
FoundAsPut ==
  op = Idle => \A n \in Names, key \in Keys :
                 InDoubt(n, key) \/ LookUp(st, lists[n], key).text = Expected(n, key)

(* dblist, which goes by firstkey and nextkey through pages at different   *)
(* depths, shows every key of a database and shows none twice.             *)
ListedOnce ==
  op = Idle => \A f \in Files :
                 LET l == Listed(f)
                 IN  /\ IsInjective(l)
                     /\ ToSet(l) \ doubt[f] =
                          { k \in Keys : meant[f][k] # Nothing } \ doubt[f]
===============================================================================
