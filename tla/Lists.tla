------------------------------- MODULE Lists -------------------------------
(***************************************************************************)
(* A list in one stored vector, from which a member is taken off by        *)
(* copying all the others: the names of the directory and the bond tokens  *)
(* of a solver's record.                                                   *)
(***************************************************************************)
EXTENDS Integers, Sequences

\* The loop over the old list, with the copy after each turn.
Without(list, x) ==
  LET kept[k \in 0..Len(list)] ==
        IF k = 0 THEN << >>
        ELSE IF list[k] = x THEN kept[k - 1]
        ELSE Append(kept[k - 1], list[k])
  IN  kept[Len(list)]
=============================================================================
