---------------------------- MODULE EditDistance ----------------------------
(***************************************************************************)
(* levenshteinRatio of src/jiraimport/main.go: how alike two texts are,    *)
(* from their edit distance, computed in two rows of a table.              *)
(*                                                                         *)
(* A ratio is a pair, numerator and denominator.                           *)
(***************************************************************************)
EXTENDS Integers, Sequences, FiniteSetsExt

CONSTANTS Letters, MaxLen   \* runes; bound: the longest text

ASSUME LenAssumption == MaxLen \in Nat

VARIABLES
  s1, s2,      \* the texts, as runes
  prev, curr,  \* rows of the table, from 0 to Len(s2)
  i, j,        \* the cell that is next
  pc,          \* "start", "row", "cell", "copy" or "done"
  ratio        \* what is returned

vars == <<s1, s2, prev, curr, i, j, pc, ratio>>

Texts == UNION {[1..n -> Letters] : n \in 0..MaxLen}

Init ==
  /\ s1 \in Texts /\ s2 \in Texts
  /\ prev = [k \in 0..Len(s2) |-> 0] /\ curr = [k \in 0..Len(s2) |-> 0]
  /\ i = 0 /\ j = 0 /\ pc = "start" /\ ratio = <<0, 1>>

Min3(a, b, c) ==
  IF a <= b /\ a <= c THEN a ELSE IF b <= a /\ b <= c THEN b ELSE c

Max2(a, b) == IF a >= b THEN a ELSE b

(* An empty text. *)
Return ==
  /\ pc = "start" /\ (s1 = <<>> \/ s2 = <<>>)
  /\ ratio' = IF s1 = <<>> /\ s2 = <<>> THEN <<1, 1>> ELSE <<0, 1>>
  /\ pc' = "done"
  /\ UNCHANGED <<s1, s2, prev, curr, i, j>>

FirstRow ==
  /\ pc = "start" /\ s1 # <<>> /\ s2 # <<>>
  /\ prev' = [k \in 0..Len(s2) |-> k]
  /\ i' = 1 /\ pc' = "row"
  /\ UNCHANGED <<s1, s2, curr, j, ratio>>

StartRow ==
  /\ pc = "row" /\ i <= Len(s1)
  /\ curr' = [curr EXCEPT ![0] = i]
  /\ j' = 1 /\ pc' = "cell"
  /\ UNCHANGED <<s1, s2, prev, i, ratio>>

(* Faulty: to replace a rune costs what it costs to delete and insert one.  *)
CostOfTwo == IF s1[i] = s2[j] THEN 0 ELSE 2

Cost == IF s1[i] = s2[j] THEN 0 ELSE 1

Cell ==
  /\ pc = "cell" /\ j <= Len(s2)
  /\ curr' = [curr EXCEPT ![j] = Min3(curr[j - 1] + 1, prev[j] + 1, prev[j - 1] + Cost)]
  /\ j' = j + 1
  /\ UNCHANGED <<s1, s2, prev, i, pc, ratio>>

(* Faulty: the row above stays the first one. *)
RowUncopied ==
  /\ pc = "cell" /\ j > Len(s2)
  /\ i' = i + 1 /\ pc' = "row"
  /\ UNCHANGED <<s1, s2, prev, curr, j, ratio>>

CopyRow ==
  /\ pc = "cell" /\ j > Len(s2)
  /\ prev' = curr
  /\ i' = i + 1 /\ pc' = "row"
  /\ UNCHANGED <<s1, s2, curr, j, ratio>>

Finish ==
  /\ pc = "row" /\ i > Len(s1)
  /\ LET longest == Max2(Len(s1), Len(s2))
     IN  ratio' = <<longest - curr[Len(s2)], longest>>
  /\ pc' = "done"
  /\ UNCHANGED <<s1, s2, prev, curr, i, j>>

Next == Return \/ FirstRow \/ StartRow \/ Cell \/ CopyRow \/ Finish

Spec == Init /\ [][Next]_vars

-----------------------------------------------------------------------------
(* The ratio lies between 0 and 1, so the bonus of scoreCandidate between 0 *)
(* and 35.                                                                  *)
RatioInRange == ratio[2] > 0 /\ ratio[1] \in 0..ratio[2]

(* An alignment pairs some runes of the one text with runes of the other,   *)
(* in order.                                                                *)
Alignments ==
  [lens \in (0..MaxLen) \X (0..MaxLen) |->
     {pairs \in SUBSET ((1..lens[1]) \X (1..lens[2])) :
        \A p, q \in pairs : p = q \/ (p[1] < q[1] /\ p[2] < q[2]) \/ (p[1] > q[1] /\ p[2] > q[2])}]

(* What one costs: unpaired runes are deleted or inserted, pairs of unlike  *)
(* runes replaced.                                                          *)
EditsOf(pairs) ==
  (Len(s1) - Cardinality(pairs)) + (Len(s2) - Cardinality(pairs))
  + Cardinality({p \in pairs : s1[p[1]] # s2[p[2]]})

Distance == Min({EditsOf(pairs) : pairs \in Alignments[<<Len(s1), Len(s2)>>]})

(* The loops find the fewest edits that turn one text into the other, and   *)
(* the early returns agree with that: the ratio is 1 - distance / longest.  *)
RatioIsSimilarity ==
  LET longest == Max2(Len(s1), Len(s2))
  IN  pc = "done" /\ longest > 0 => ratio[1] * longest = (longest - Distance) * ratio[2]
=============================================================================
