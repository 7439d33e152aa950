----------------------------- MODULE Selection -----------------------------
(***************************************************************************)
(* The loops that keep some elements of a list and their order.  It is     *)
(* SelectSeq for membership in a set, as a recursive function, so that     *)
(* what it returns can be proved (module SeqFacts).                        *)
(***************************************************************************)
EXTENDS Integers, Sequences

Select(s, T) ==
  LET taken[i \in 0..Len(s)] ==
        IF i = 0 THEN <<>>
        ELSE IF s[i] \in T THEN Append(taken[i - 1], s[i]) ELSE taken[i - 1]
  IN  taken[Len(s)]
=============================================================================
