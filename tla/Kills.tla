--------------------------------- MODULE Kills ---------------------------------
(***************************************************************************)
(* Text moved to other buffers and back (simplecoms.c, metacoms.c): the    *)
(* kill buffer, and regions copied, appended or moved to a named buffer.   *)
(*                                                                         *)
(* bufs maps the names of the buffers there are, the current one left out, *)
(* to their texts; nothing in them is hidden.                              *)
(***************************************************************************)
EXTENDS Typing

KillBuffer == "Kill buffer"

(* Where the text goes: before what the buffer holds, after it, or instead. *)
Joined(old, where, new) ==
  IF where < 0 THEN new \o old ELSE IF where > 0 THEN old \o new ELSE new

(* The n characters after dot, or the -n before it, as far as they show.   *)
(* The buffer is made, or erased, even when nothing is left to take.       *)
DelToBuf(e, n, where, doit, name) ==
  LET from == Max({FirstCharacter(e), Min({e.dot, e.dot + n})})
      to   == Min({NumCharacters(e) + 1, Max({e.dot, e.dot + n})})
      old  == IF name \in DOMAIN e.bufs THEN e.bufs[name] ELSE << >>
      new  == Joined(old, where, IF from < to THEN SubSeq(e.text, from, to - 1) ELSE << >>)
      kept == [e EXCEPT !.bufs = (name :> new) @@ @]
  IN  IF from >= to THEN (IF where = 0 THEN SetDot(kept, e.dot) ELSE kept)
      ELSE IF doit THEN DelFrwd(SetDot(kept, from), to - from)
      ELSE SetDot(kept, e.dot)

(* To the end of the line, or the line end itself when dot is there; merge *)
(* says that the command before was this one too.                          *)
KillRound(e, merge) ==
  LET end == EndOfLine(e)
      n   == end.dot - e.dot
  IN  DelToBuf(end, IF n <= 0 THEN 1 ELSE -n, IF merge THEN 1 ELSE 0, TRUE, KillBuffer)

(* A slip: only what the last round takes is kept. *)
KillToEndOfLine_last(e, merge, times) ==
  FoldLeft(LAMBDA f, i : KillRound(f, merge), e, [i \in 1..Max({1, times}) |-> i])
KillToEndOfLine(e, merge, times) ==
  FoldLeft(LAMBDA f, i : KillRound(f, merge \/ i > 1), e, [i \in 1..Max({1, times}) |-> i])

(* The region between dot and the mark.                                    *)
RegionToBuffer(e, where, doit, name) ==
  IF e.mark = NoMark THEN [e EXCEPT !.err = TRUE] ELSE DelToBuf(e, e.mark - e.dot, where, doit, name)
DeleteToKillbuffer(e) == RegionToBuffer(e, 0, TRUE, KillBuffer)

InsertBuffer(e, name) ==
  IF name \in DOMAIN e.bufs THEN Put(e, e.bufs[name]) ELSE [e EXCEPT !.err = TRUE]
================================================================================
