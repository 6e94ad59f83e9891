------------------------------- MODULE QtList -------------------------------
(***************************************************************************)
(* The lists KWin keeps windows and surfaces in.  SelectSeq would do, but  *)
(* the provers know nothing of it.                                         *)
(***************************************************************************)
EXTENDS Integers, Sequences

\* QList::removeAll
RemoveAll(list, e) ==
  LET kept[i \in 0..Len(list)] ==
        IF i = 0 THEN <<>>
        ELSE IF list[i] = e THEN kept[i - 1] ELSE Append(kept[i - 1], list[i])
  IN  kept[Len(list)]
=============================================================================
