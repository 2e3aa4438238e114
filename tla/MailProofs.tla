------------------------------ MODULE MailProofs -----------------------------
(***************************************************************************)
(* The lock of Mail, proved for every set of collectors, every mail box    *)
(* and any number of runs and deaths.                                      *)
(*                                                                         *)
(* LockHolds is not inductive: it says nothing of who holds the lock.  As  *)
(* long as no lock was broken and none had vanished, whoever is between    *)
(* the lock and the end of unlock is alone there, and the lock file is     *)
(* there too; a collector that dies leaves the file behind and nobody in   *)
(* the box.                                                                *)
(***************************************************************************)
EXTENDS Mail, TLAPS

Respected == happened \cap {"broke", "vanished"} = {}
Holds(c)  == col[c].pc \in Inside \cup {"unlock"}

(* One holder at most, and never without the lock file. *)
Alone ==
  /\ \A c \in Collectors : Holds(c) => lockfile # "none"
  /\ \A c, d \in Collectors : Holds(c) /\ Holds(d) => c = d

(* A collector is somewhere. *)
Placed == /\ DOMAIN col = Collectors
          /\ \A c \in Collectors : "pc" \in DOMAIN col[c]

LockInv == Placed /\ (Respected => Alone /\ "together" \notin happened)

(* A step of c to pc leaves the other collectors where they are. *)
Moved(c, pc) == Placed' /\ (\A d \in Collectors : col'[d].pc = IF d = c THEN pc ELSE col[d].pc)

LEMMA ToMoves ==
  ASSUME Placed, NEW c \in Collectors, NEW pc, NEW p, To(c, pc, p)
  PROVE  /\ Moved(c, pc)
         /\ Respected' <=> Respected
         /\ "together" \in happened'
              <=> "together" \in happened \/ (pc \in Inside /\ OtherInside(c))
<1>1. Moved(c, pc)
  BY DEF To, Placed, Moved
<1> QED
  BY <1>1 DEF To, Respected

(* A collector that goes where no lock is needed, or goes on with the lock *)
(* it holds, disturbs nobody.                                              *)
LEMMA Harmless ==
  ASSUME LockInv, NEW c \in Collectors, NEW pc, Moved(c, pc),
         pc \in Inside \cup {"unlock"} => Holds(c),
         lockfile' = lockfile, Respected' => Respected,
         Respected => ("together" \in happened'
                        <=> "together" \in happened \/ (pc \in Inside /\ OtherInside(c)))
  PROVE  LockInv'
<1>1. Placed'
  BY DEF Moved
<1> SUFFICES ASSUME Respected'
             PROVE  Alone' /\ "together" \notin happened'
  BY <1>1 DEF LockInv
<1>2. Respected /\ Alone /\ "together" \notin happened
  BY DEF LockInv
<1>3. \A d \in Collectors : Holds(d)' => Holds(d)
  BY DEF Moved, Holds
<1>4. Alone'
  BY <1>2, <1>3 DEF Alone
<1>5. pc \in Inside => ~OtherInside(c)
  BY <1>2 DEF Alone, Holds, OtherInside
<1> QED
  BY <1>2, <1>4, <1>5

LEMMA Steps ==
  ASSUME LockInv, NEW c \in Collectors,
         \/ Start(c) \/ lock1(c) \/ LockGone(c) \/ LockStays(c) \/ RemoveLock(c)
         \/ Read(c) \/ Close(c) \/ Truncate(c) \/ unlock(c) \/ Dies(c)
  PROVE  LockInv'
<1> Placed
  BY DEF LockInv
<1>1. CASE Start(c)
  <2>1. Moved(c, "lock")
    BY <1>1 DEF Start, Placed, Moved
  <2> QED
    BY <1>1, <2>1, Harmless DEF Start, Respected, Inside
<1>2. CASE lock1(c)
  <2>1. CASE lockfile = "none" /\ lockfile' = "fresh" /\ Goes(c, "read")
    <3>1. /\ Moved(c, "read") /\ (Respected' <=> Respected)
          /\ "together" \in happened' <=> "together" \in happened \/ OtherInside(c)
      BY <2>1, ToMoves DEF Goes, Inside
    <3>2. Placed'
      BY <3>1 DEF Moved
    <3> SUFFICES ASSUME Respected'
                 PROVE  Alone' /\ "together" \notin happened'
      BY <3>2 DEF LockInv
    <3>3. \A d \in Collectors : ~Holds(d)
      BY <2>1, <3>1 DEF LockInv, Alone
    <3>4. ~OtherInside(c)
      BY <3>3 DEF OtherInside, Holds
    <3>5. \A d \in Collectors : Holds(d)' => d = c
      BY <3>1, <3>3 DEF Moved, Holds
    <3>6. lockfile' # "none"
      BY <2>1
    <3>7. Alone'
      BY <3>5, <3>6 DEF Alone
    <3> QED
      BY <3>1, <3>4, <3>7 DEF LockInv
  <2>2. CASE lockfile # "none" /\ Goes(c, "stat") /\ UNCHANGED lockfile
    BY <2>2, ToMoves, Harmless DEF Goes, Inside
  <2> QED
    BY <1>2, <2>1, <2>2 DEF lock1
<1>3. CASE LockGone(c)
  <2>1. Placed'
    BY <1>3 DEF LockGone, Placed
  <2>2. ~Respected'
    BY <1>3 DEF LockGone, Respected
  <2> QED
    BY <2>1, <2>2 DEF LockInv
<1>4. CASE LockStays(c)
  <2> DEFINE pc == IF lockfile = "fresh" THEN "lock" ELSE "remove"
  <2>1. To(c, pc, col[c].scan) /\ lockfile' = lockfile
    BY <1>4 DEF LockStays, Goes
  <2>2. pc \notin Inside \cup {"unlock"}
    BY DEF Inside
  <2> QED
    BY <2>1, <2>2, ToMoves, Harmless
<1>5. CASE RemoveLock(c)
  <2>1. Placed'
    BY <1>5 DEF RemoveLock, Placed
  <2>2. ~Respected'
    BY <1>5 DEF RemoveLock, Respected
  <2> QED
    BY <2>1, <2>2 DEF LockInv
<1>6. CASE Read(c)
  <2>1. Holds(c) /\ lockfile' = lockfile
    BY <1>6 DEF Read, Holds, Inside
  <2>2. PICK pc, p : To(c, pc, p)
    BY <1>6 DEF Read, Goes
  <2> QED
    BY <2>1, <2>2, ToMoves, Harmless
<1>7. CASE Close(c)
  <2>1. Holds(c) /\ lockfile' = lockfile
    BY <1>7 DEF Close, Holds, Inside
  <2>2. PICK pc, p : To(c, pc, p)
    BY <1>7 DEF Close
  <2> QED
    BY <2>1, <2>2, ToMoves, Harmless
<1>8. CASE Truncate(c)
  <2>1. Holds(c) /\ lockfile' = lockfile
    BY <1>8 DEF Truncate, Holds, Inside
  <2>2. PICK pc, p : To(c, pc, p)
    BY <1>8 DEF Truncate, Goes
  <2> QED
    BY <2>1, <2>2, ToMoves, Harmless
<1>9. CASE unlock(c)
  <2>1. Moved(c, "idle") /\ happened' = happened
    BY <1>9 DEF unlock, Placed, Moved, Asleep
  <2>2. Holds(c)
    BY <1>9 DEF unlock, Holds
  <2>3. Placed'
    BY <2>1 DEF Moved
  <2> SUFFICES ASSUME Respected'
               PROVE  Alone' /\ "together" \notin happened'
    BY <2>3 DEF LockInv
  <2>4. Alone /\ "together" \notin happened
    BY <2>1 DEF LockInv, Respected
  <2>5. \A d \in Collectors : ~Holds(d)'
    BY <2>1, <2>2, <2>4 DEF Alone, Moved, Holds, Inside
  <2> QED
    BY <2>1, <2>4, <2>5 DEF Alone
<1>10. CASE Dies(c)
  <2>1. Moved(c, "idle")
    BY <1>10 DEF Dies, Placed, Moved, Asleep
  <2> QED
    BY <1>10, <2>1, Harmless DEF Dies, Respected, Inside
<1> QED
  BY <1>1, <1>2, <1>3, <1>4, <1>5, <1>6, <1>7, <1>8, <1>9, <1>10

(* Two collectors are in the mail box at once only after a lock was broken *)
(* or had vanished, however many collectors there are and wherever they    *)
(* die (lock, lock1 and unlock of lock.c).                                 *)
THEOREM MailLockHolds == MailSpec => []LockHolds
<1>1. MailInit => LockInv
  BY DEF MailInit, LockInv, Placed, Alone, Holds, Asleep, Inside
<1>2. LockInv /\ [MailNext]_mailvars => LockInv'
  <2> SUFFICES ASSUME LockInv, [MailNext]_mailvars
               PROVE  LockInv'
    OBVIOUS
  <2>1. ASSUME NEW c \in Collectors,
               \/ Start(c) \/ lock1(c) \/ LockGone(c) \/ LockStays(c) \/ RemoveLock(c)
               \/ Read(c) \/ Close(c) \/ Truncate(c) \/ unlock(c) \/ Dies(c)
        PROVE  LockInv'
    BY <2>1, Steps
  <2>2. ASSUME UNCHANGED << lockfile, col, happened >>
        PROVE  LockInv'
    BY <2>2 DEF LockInv, Placed, Respected, Alone, Holds
  <2>3. ASSUME NEW style \in Styles, Deliver(style)
        PROVE  LockInv'
    BY <2>2, <2>3 DEF Deliver
  <2>4. CASE Wait300
    <3>1. UNCHANGED << col, happened >> /\ lockfile' # "none"
      BY <2>4 DEF Wait300
    <3> QED
      BY <3>1 DEF LockInv, Placed, Respected, Alone, Holds
  <2>5. CASE UNCHANGED mailvars
    BY <2>2, <2>5 DEF mailvars
  <2> QED
    BY <2>1, <2>3, <2>4, <2>5 DEF MailNext
<1>3. LockInv => LockHolds
  BY DEF LockInv, LockHolds, Respected
<1> QED
  BY <1>1, <1>2, <1>3, PTL DEF MailSpec
==============================================================================
