------------------------------- MODULE Lists --------------------------------
(***************************************************************************)
(* The filter that several modules read lists with, as a function on       *)
(* numbers, which a proof can unfold.                                      *)
(***************************************************************************)
EXTENDS Naturals, Sequences

\* The elements of a list that are in S, in the order of the list.
Kept(list, S) ==
  LET kept[n \in 0..Len(list)] ==
        IF n = 0 THEN <<>>
        ELSE IF list[n] \in S THEN Append(kept[n - 1], list[n]) ELSE kept[n - 1]
  IN kept[Len(list)]
=============================================================================
