------------------------- MODULE EditDistanceProofs -------------------------
(***************************************************************************)
(* levenshteinRatio never leaves [0, 1], for texts of any length: a cell   *)
(* (a, b) of the table holds at most the longer of the two prefixes, a     *)
(* runes of the one text and b of the other, since a step along the        *)
(* diagonal adds at most one to both.  And it is exact: the cell holds the *)
(* least cost of all alignments of these prefixes, because an alignment    *)
(* leaves one of the last two runes unpaired or pairs them.                *)
(***************************************************************************)
EXTENDS EditDistance, FiniteSetTheorems, TLAPS

Columns == 0..Len(s2)

(* The first n cells of a row, the one for a runes of s1. *)
RowBounded(row, a, n) == \A k \in 0..n : row[k] <= Max2(a, k)

TypeInv ==
  /\ s1 \in Seq(Letters) /\ s2 \in Seq(Letters)
  /\ prev \in [Columns -> Nat] /\ curr \in [Columns -> Nat]
  /\ i \in Nat /\ j \in Nat
  /\ pc \in {"start", "row", "cell", "done"}

InRow ==
  pc = "row" =>
    /\ Len(s1) >= 1 /\ Len(s2) >= 1 /\ i \in 1..Len(s1) + 1
    /\ RowBounded(prev, i - 1, Len(s2))
    /\ i > 1 => curr = prev

InCell ==
  pc = "cell" =>
    /\ Len(s1) >= 1 /\ Len(s2) >= 1 /\ i \in 1..Len(s1) /\ j \in 1..Len(s2) + 1
    /\ RowBounded(prev, i - 1, Len(s2))
    /\ RowBounded(curr, i, j - 1)

IInv == TypeInv /\ InRow /\ InCell /\ RatioInRange

(* Min3 gives one of its arguments and none of them is less. *)
LEMMA MinOfThree ==
  ASSUME NEW a \in Nat, NEW b \in Nat, NEW c \in Nat
  PROVE  Min3(a, b, c) \in Nat /\ Min3(a, b, c) <= c
BY DEF Min3

LEMMA InitInv == Init => IInv
<1> SUFFICES ASSUME Init PROVE IInv
  OBVIOUS
<1>1. s1 \in Seq(Letters) /\ s2 \in Seq(Letters)
  BY LenAssumption DEF Init, Texts
<1>2. Len(s2) \in Nat
  BY <1>1
<1>3. QED
  BY <1>1, <1>2 DEF Init, IInv, TypeInv, InRow, InCell, RatioInRange, Columns

LEMMA StepInv == IInv /\ [Next]_vars => IInv'
<1> SUFFICES ASSUME IInv, [Next]_vars PROVE IInv'
  OBVIOUS
<1> USE DEF IInv, TypeInv, Columns
<1>0. Len(s1) \in Nat /\ Len(s2) \in Nat
  OBVIOUS
<1>1. CASE Return
  BY <1>1 DEF Return, InRow, InCell, RatioInRange
<1>2. CASE FirstRow
  <2>1. Len(s1) >= 1 /\ Len(s2) >= 1
    BY <1>2 DEF FirstRow
  <2>2. RowBounded(prev', 0, Len(s2))
    BY <1>0, <1>2 DEF FirstRow, RowBounded, Max2
  <2>3. QED
    BY <1>0, <1>2, <2>1, <2>2 DEF FirstRow, InRow, InCell, RatioInRange
<1>3. CASE StartRow
  <2>1. TypeInv' /\ RatioInRange'
    BY <1>0, <1>3 DEF StartRow, RatioInRange
  <2>2. InRow'
    BY <1>3 DEF StartRow, InRow
  <2>3. RowBounded(curr', i, 0)
    BY <1>0, <1>3 DEF StartRow, RowBounded, Max2
  <2>4. InCell'
    BY <1>0, <1>3, <2>3 DEF StartRow, InRow, InCell
  <2>5. QED
    BY <2>1, <2>2, <2>4
<1>4. CASE Cell
  <2> DEFINE cell == Min3(curr[j - 1] + 1, prev[j] + 1, prev[j - 1] + Cost)
  <2>1. /\ pc = "cell" /\ i \in 1..Len(s1) /\ j \in 1..Len(s2)
        /\ RowBounded(prev, i - 1, Len(s2)) /\ RowBounded(curr, i, j - 1)
    BY <1>0, <1>4 DEF Cell, InCell
  <2>2. Cost \in {0, 1}
    BY DEF Cost
  <2>3. /\ curr[j - 1] \in Nat /\ prev[j] \in Nat /\ prev[j - 1] \in Nat
    <3>1. j \in Columns /\ j - 1 \in Columns
      BY <1>0, <2>1
    <3>2. QED
      BY <3>1
  <2>4. prev[j - 1] <= Max2(i - 1, j - 1)
    BY <1>0, <2>1 DEF RowBounded
  <2>5. cell \in Nat /\ cell <= prev[j - 1] + Cost
    <3>1. /\ curr[j - 1] + 1 \in Nat /\ prev[j] + 1 \in Nat
          /\ prev[j - 1] + Cost \in Nat
      BY <2>2, <2>3
    <3>2. QED
      BY <3>1, MinOfThree
  <2> HIDE DEF cell
  <2>6. cell <= Max2(i, j)
    BY <2>1, <2>2, <2>3, <2>4, <2>5 DEF Max2
  <2>7. curr' = [curr EXCEPT ![j] = cell]
    BY <1>4 DEF Cell, cell
  <2>8. RowBounded(curr', i, j)
    BY <1>0, <2>1, <2>6, <2>7 DEF RowBounded
  <2>9. curr' \in [Columns -> Nat]
    BY <1>0, <2>1, <2>5, <2>7
  <2>10. QED
    BY <1>0, <1>4, <2>1, <2>8, <2>9 DEF Cell, InRow, InCell, RatioInRange
<1>5. CASE CopyRow
  BY <1>0, <1>5 DEF CopyRow, InRow, InCell, RatioInRange, RowBounded
<1>6. CASE Finish
  <2>1. i = Len(s1) + 1 /\ curr = prev /\ RowBounded(prev, Len(s1), Len(s2))
        /\ Len(s1) >= 1 /\ Len(s2) >= 1
    BY <1>0, <1>6 DEF Finish, InRow
  <2>2. curr[Len(s2)] \in 0..Max2(Len(s1), Len(s2))
    BY <1>0, <2>1 DEF RowBounded
  <2>3. RatioInRange'
    BY <1>0, <1>6, <2>1, <2>2 DEF Finish, RatioInRange, Max2
  <2>4. QED
    BY <1>6, <2>3 DEF Finish, InRow, InCell
<1>7. CASE UNCHANGED vars
  BY <1>7 DEF vars, InRow, InCell, RatioInRange
<1>8. QED
  BY <1>1, <1>2, <1>3, <1>4, <1>5, <1>6, <1>7 DEF Next

(* The similarity that scoreCandidate multiplies by 35 (main.go:434-441)    *)
(* lies between 0 and 1, whatever the texts.                                *)
THEOREM RatioStaysInRange == Spec => []RatioInRange
<1>1. IInv => RatioInRange
  BY DEF IInv
<1>2. QED
  BY InitInv, StepInv, <1>1, PTL DEF Spec
-----------------------------------------------------------------------------
(* What alignments of prefixes cost. *)

InOrder(p, q) == p = q \/ (p[1] < q[1] /\ p[2] < q[2]) \/ (p[1] > q[1] /\ p[2] > q[2])

(* The alignments of the first m runes of the one text with the first n of  *)
(* the other.                                                               *)
Aligns(m, n) == {pairs \in SUBSET ((1..m) \X (1..n)) : \A p, q \in pairs : InOrder(p, q)}

(* The pairs of unlike runes, and what a pair costs. *)
Unlike(s, t, pairs) == {p \in pairs : s[p[1]] # t[p[2]]}
CostOf(s, t, m, n)  == IF s[m] = t[n] THEN 0 ELSE 1

EditsFor(s, t, m, n, pairs) ==
  (m - Cardinality(pairs)) + (n - Cardinality(pairs)) + Cardinality(Unlike(s, t, pairs))

(* v is the least cost of an alignment of two prefixes. *)
Least(s, t, m, n, v) ==
  /\ \E pairs \in Aligns(m, n) : EditsFor(s, t, m, n, pairs) = v
  /\ \A pairs \in Aligns(m, n) : EditsFor(s, t, m, n, pairs) >= v

(* An alignment is finite, and its cost a number. *)
LEMMA AlignsFinite ==
  ASSUME NEW s, NEW t, NEW m \in Nat, NEW n \in Nat, NEW pairs \in Aligns(m, n)
  PROVE  /\ IsFiniteSet(pairs) /\ Cardinality(pairs) \in Nat
         /\ IsFiniteSet(Unlike(s, t, pairs)) /\ Cardinality(Unlike(s, t, pairs)) \in Nat
         /\ EditsFor(s, t, m, n, pairs) \in Int
<1>1. IsFiniteSet((1..m) \X (1..n))
  <2>1. IsFiniteSet(1..m) /\ IsFiniteSet(1..n)
    BY FS_Interval
  <2> QED
    BY <2>1, FS_Product
<1>2. IsFiniteSet(pairs) /\ Cardinality(pairs) \in Nat
  BY <1>1, FS_Subset, FS_CardinalityType DEF Aligns
<1>3. Unlike(s, t, pairs) \in SUBSET pairs
  BY DEF Unlike
<1>4. IsFiniteSet(Unlike(s, t, pairs)) /\ Cardinality(Unlike(s, t, pairs)) \in Nat
  BY <1>2, <1>3, FS_Subset, FS_CardinalityType
<1> QED
  BY <1>2, <1>4 DEF EditsFor

(* With an empty prefix only the empty alignment is left. *)
LEMMA LeastOfEmpty ==
  ASSUME NEW s, NEW t, NEW m \in Nat, NEW n \in Nat, NEW v, v = m + n, m = 0 \/ n = 0
  PROVE  Least(s, t, m, n, v)
<1>1. (1..m) \X (1..n) = {}
  OBVIOUS
<1>2. Aligns(m, n) = {{}}
  BY <1>1 DEF Aligns
<1>3. Unlike(s, t, {}) = {}
  BY DEF Unlike
<1>4. EditsFor(s, t, m, n, {}) = v
  BY <1>3, FS_EmptySet DEF EditsFor
<1>5. v >= v
  OBVIOUS
<1> QED
  BY <1>2, <1>4, <1>5 DEF Least

(* To delete the last rune of the one text costs one.                       *)
LEMMA DeleteLast ==
  ASSUME NEW s, NEW t, NEW m \in Nat \ {0}, NEW n \in Nat \ {0}, NEW pairs \in Aligns(m - 1, n)
  PROVE  /\ pairs \in Aligns(m, n)
         /\ EditsFor(s, t, m, n, pairs) = EditsFor(s, t, m - 1, n, pairs) + 1
<1>1. m - 1 \in Nat /\ n \in Nat /\ (1..m - 1) \X (1..n) \subseteq (1..m) \X (1..n)
  OBVIOUS
<1>2. Cardinality(pairs) \in Nat /\ Cardinality(Unlike(s, t, pairs)) \in Nat
  BY <1>1, AlignsFinite
<1>3. pairs \in Aligns(m, n)
  BY <1>1 DEF Aligns
<1> QED
  BY <1>2, <1>3 DEF EditsFor

(* So does to insert the last rune of the other.                            *)
LEMMA InsertLast ==
  ASSUME NEW s, NEW t, NEW m \in Nat \ {0}, NEW n \in Nat \ {0}, NEW pairs \in Aligns(m, n - 1)
  PROVE  /\ pairs \in Aligns(m, n)
         /\ EditsFor(s, t, m, n, pairs) = EditsFor(s, t, m, n - 1, pairs) + 1
<1>1. m \in Nat /\ n - 1 \in Nat /\ (1..m) \X (1..n - 1) \subseteq (1..m) \X (1..n)
  OBVIOUS
<1>2. Cardinality(pairs) \in Nat /\ Cardinality(Unlike(s, t, pairs)) \in Nat
  BY <1>1, AlignsFinite
<1>3. pairs \in Aligns(m, n)
  BY <1>1 DEF Aligns
<1> QED
  BY <1>2, <1>3 DEF EditsFor

(* To pair the last runes costs nothing if they are alike, else one. *)
LEMMA PairLast ==
  ASSUME NEW s, NEW t, NEW m \in Nat \ {0}, NEW n \in Nat \ {0}, NEW pairs \in Aligns(m - 1, n - 1)
  PROVE  /\ pairs \cup {<<m, n>>} \in Aligns(m, n)
         /\ EditsFor(s, t, m, n, pairs \cup {<<m, n>>})
              = EditsFor(s, t, m - 1, n - 1, pairs) + CostOf(s, t, m, n)
<1> DEFINE all == pairs \cup {<<m, n>>}
<1>1. m - 1 \in Nat /\ n - 1 \in Nat /\ m \in Nat /\ n \in Nat
  OBVIOUS
<1>2. \A p \in pairs : /\ p \in (1..m - 1) \X (1..n - 1) /\ p[1] \in 1..m - 1 /\ p[2] \in 1..n - 1
                       /\ p # <<m, n>>
  BY DEF Aligns
<1>3. all \in SUBSET ((1..m) \X (1..n))
  <2>1. (1..m - 1) \X (1..n - 1) \subseteq (1..m) \X (1..n) /\ <<m, n>> \in (1..m) \X (1..n)
    OBVIOUS
  <2> QED
    BY <1>2, <2>1
<1>4. ASSUME NEW p \in all, NEW q \in all
      PROVE  InOrder(p, q)
  <2>1. \A r \in pairs : InOrder(r, <<m, n>>) /\ InOrder(<<m, n>>, r)
    BY <1>1, <1>2 DEF InOrder
  <2>2. InOrder(<<m, n>>, <<m, n>>)
    BY DEF InOrder
  <2>3. \A r, x \in pairs : InOrder(r, x)
    BY DEF Aligns
  <2> QED
    BY <2>1, <2>2, <2>3
<1>5. all \in Aligns(m, n)
  BY <1>3, <1>4 DEF Aligns
<1>6. /\ IsFiniteSet(pairs) /\ Cardinality(pairs) \in Nat
      /\ IsFiniteSet(Unlike(s, t, pairs)) /\ Cardinality(Unlike(s, t, pairs)) \in Nat
  BY <1>1, AlignsFinite
<1>7. Cardinality(all) = Cardinality(pairs) + 1
  <2>1. <<m, n>> \notin pairs
    BY <1>2
  <2> QED
    BY <1>6, <2>1, FS_AddElement
<1>8. Cardinality(Unlike(s, t, all)) = Cardinality(Unlike(s, t, pairs)) + CostOf(s, t, m, n)
  <2>1. <<m, n>> \notin Unlike(s, t, pairs)
    BY <1>2 DEF Unlike
  <2>2. CASE s[m] = t[n]
    <3>1. Unlike(s, t, all) = Unlike(s, t, pairs)
      BY <2>2 DEF Unlike
    <3> QED
      BY <1>6, <2>2, <3>1 DEF CostOf
  <2>3. CASE s[m] # t[n]
    <3>1. Unlike(s, t, all) = Unlike(s, t, pairs) \cup {<<m, n>>}
      BY <2>3 DEF Unlike
    <3> QED
      BY <1>6, <2>1, <2>3, <3>1, FS_AddElement DEF CostOf
  <2> QED
    BY <2>2, <2>3
<1>9. CostOf(s, t, m, n) \in Int
  BY DEF CostOf
<1> HIDE DEF all
<1>10. EditsFor(s, t, m, n, all) = EditsFor(s, t, m - 1, n - 1, pairs) + CostOf(s, t, m, n)
  BY <1>1, <1>6, <1>7, <1>8, <1>9 DEF EditsFor
<1> QED
  BY <1>5, <1>10 DEF all

(* An alignment leaves a last rune unpaired or pairs the two last ones. *)
LEMMA LastOfAlign ==
  ASSUME NEW m \in Nat \ {0}, NEW n \in Nat \ {0}, NEW pairs \in Aligns(m, n)
  PROVE  \/ pairs \in Aligns(m - 1, n)
         \/ pairs \in Aligns(m, n - 1)
         \/ \E rest \in Aligns(m - 1, n - 1) : pairs = rest \cup {<<m, n>>}
<1>1. \A p \in pairs : /\ p \in (1..m) \X (1..n) /\ p = <<p[1], p[2]>>
                       /\ p[1] \in 1..m /\ p[2] \in 1..n
  BY DEF Aligns
<1>2. \A p, q \in pairs : InOrder(p, q)
  BY DEF Aligns
<1>3. CASE \A p \in pairs : p[1] # m
  <2>1. \A p \in pairs : p \in (1..m - 1) \X (1..n)
    BY <1>1, <1>3
  <2> QED
    BY <1>2, <2>1 DEF Aligns
<1>4. CASE \A p \in pairs : p[2] # n
  <2>1. \A p \in pairs : p \in (1..m) \X (1..n - 1)
    BY <1>1, <1>4
  <2> QED
    BY <1>2, <2>1 DEF Aligns
<1>5. CASE (\E p \in pairs : p[1] = m) /\ (\E q \in pairs : q[2] = n)
  <2>1. PICK p \in pairs : p[1] = m
    BY <1>5
  <2>2. PICK q \in pairs : q[2] = n
    BY <1>5
  <2>3. p = q
    <3>1. InOrder(p, q)
      BY <1>2
    <3>2. q[1] \in 1..m /\ p[2] \in 1..n
      BY <1>1
    <3> QED
      BY <2>1, <2>2, <3>1, <3>2 DEF InOrder
  <2>4. p = <<m, n>>
    BY <1>1, <2>1, <2>2, <2>3
  <2> DEFINE rest == pairs \ {<<m, n>>}
  <2>5. ASSUME NEW r \in rest
        PROVE  r \in (1..m - 1) \X (1..n - 1)
    <3>1. InOrder(r, <<m, n>>) /\ r # <<m, n>>
      BY <1>2, <2>4
    <3>2. r[1] < m /\ r[2] < n
      BY <1>1, <3>1 DEF InOrder
    <3>3. r[1] \in 1..m - 1 /\ r[2] \in 1..n - 1 /\ r = <<r[1], r[2]>>
      BY <1>1, <3>2
    <3> QED
      BY <3>3
  <2>6. rest \in Aligns(m - 1, n - 1)
    BY <1>2, <2>5 DEF Aligns
  <2>7. pairs = rest \cup {<<m, n>>}
    BY <2>4
  <2> QED
    BY <2>6, <2>7
<1> QED
  BY <1>3, <1>4, <1>5

(* The recurrence of the table: the least of three ways to treat the last   *)
(* runes.                                                                   *)
LEMMA LeastOfThree ==
  ASSUME NEW s, NEW t, NEW m \in Nat \ {0}, NEW n \in Nat \ {0},
         NEW a \in Nat, NEW b \in Nat, NEW c \in Nat,
         Least(s, t, m, n - 1, a), Least(s, t, m - 1, n, b), Least(s, t, m - 1, n - 1, c)
  PROVE  Least(s, t, m, n, Min3(a + 1, b + 1, c + CostOf(s, t, m, n)))
<1> DEFINE d == CostOf(s, t, m, n)
           v == Min3(a + 1, b + 1, c + d)
<1>1. d \in {0, 1}
  BY DEF CostOf
<1> HIDE DEF d
<1>2. v \in Nat /\ v <= a + 1 /\ v <= b + 1 /\ v <= c + d /\ v \in {a + 1, b + 1, c + d}
  BY <1>1 DEF Min3
<1>3. \E pairs \in Aligns(m, n) : EditsFor(s, t, m, n, pairs) = a + 1
  <2>1. PICK pairs \in Aligns(m, n - 1) : EditsFor(s, t, m, n - 1, pairs) = a
    BY DEF Least
  <2> QED
    BY <2>1, InsertLast
<1>4. \E pairs \in Aligns(m, n) : EditsFor(s, t, m, n, pairs) = b + 1
  <2>1. PICK pairs \in Aligns(m - 1, n) : EditsFor(s, t, m - 1, n, pairs) = b
    BY DEF Least
  <2> QED
    BY <2>1, DeleteLast
<1>5. \E pairs \in Aligns(m, n) : EditsFor(s, t, m, n, pairs) = c + d
  <2>1. PICK pairs \in Aligns(m - 1, n - 1) : EditsFor(s, t, m - 1, n - 1, pairs) = c
    BY DEF Least
  <2>2. /\ pairs \cup {<<m, n>>} \in Aligns(m, n)
        /\ EditsFor(s, t, m, n, pairs \cup {<<m, n>>})
             = EditsFor(s, t, m - 1, n - 1, pairs) + CostOf(s, t, m, n)
    BY PairLast
  <2> QED
    BY <2>1, <2>2 DEF d
<1>6. ASSUME NEW pairs \in Aligns(m, n)
      PROVE  EditsFor(s, t, m, n, pairs) >= v
  <2>0. m \in Nat /\ n \in Nat /\ m - 1 \in Nat /\ n - 1 \in Nat
    OBVIOUS
  <2>1. CASE pairs \in Aligns(m - 1, n)
    <3>1. EditsFor(s, t, m - 1, n, pairs) >= b /\ EditsFor(s, t, m - 1, n, pairs) \in Int
      BY <2>0, <2>1, AlignsFinite DEF Least
    <3>2. EditsFor(s, t, m, n, pairs) = EditsFor(s, t, m - 1, n, pairs) + 1
      BY <2>1, DeleteLast
    <3> QED
      BY <1>2, <3>1, <3>2
  <2>2. CASE pairs \in Aligns(m, n - 1)
    <3>1. EditsFor(s, t, m, n - 1, pairs) >= a /\ EditsFor(s, t, m, n - 1, pairs) \in Int
      BY <2>0, <2>2, AlignsFinite DEF Least
    <3>2. EditsFor(s, t, m, n, pairs) = EditsFor(s, t, m, n - 1, pairs) + 1
      BY <2>2, InsertLast
    <3> QED
      BY <1>2, <3>1, <3>2
  <2>3. ASSUME NEW rest \in Aligns(m - 1, n - 1), pairs = rest \cup {<<m, n>>}
        PROVE  EditsFor(s, t, m, n, pairs) >= v
    <3>1. EditsFor(s, t, m - 1, n - 1, rest) >= c /\ EditsFor(s, t, m - 1, n - 1, rest) \in Int
      BY <2>0, AlignsFinite DEF Least
    <3>2. EditsFor(s, t, m, n, pairs) = EditsFor(s, t, m - 1, n - 1, rest) + d
      BY <2>3, PairLast DEF d
    <3> QED
      BY <1>1, <1>2, <3>1, <3>2
  <2> QED
    BY <2>1, <2>2, <2>3, LastOfAlign
<1> HIDE DEF v
<1>7. Least(s, t, m, n, v)
  BY <1>2, <1>3, <1>4, <1>5, <1>6 DEF Least
<1> QED
  BY <1>7 DEF v, d

-----------------------------------------------------------------------------
(* The table holds these costs. *)

(* The first n cells of a row, the one for a runes of s1. *)
RowLeast(row, a, n) == \A k \in 0..n : Least(s1, s2, a, k, row[k])

DistInRow == pc = "row" => RowLeast(prev, i - 1, Len(s2))

DistInCell == pc = "cell" => RowLeast(prev, i - 1, Len(s2)) /\ RowLeast(curr, i, j - 1)

DistInv ==
  /\ IInv /\ DistInRow /\ DistInCell /\ RatioIsSimilarity
  /\ Len(s1) \in 0..MaxLen /\ Len(s2) \in 0..MaxLen

(* The least cost over all alignments is the distance. *)
LEMMA LeastIsDistance ==
  ASSUME Len(s1) \in 0..MaxLen, Len(s2) \in 0..MaxLen,
         NEW v \in Nat, Least(s1, s2, Len(s1), Len(s2), v)
  PROVE  Distance = v
<1> DEFINE m == Len(s1)
           n == Len(s2)
           costs == {EditsOf(pairs) : pairs \in Alignments[<<m, n>>]}
<1>1. Alignments[<<m, n>>] = Aligns(m, n)
  <2>1. <<m, n>> \in (0..MaxLen) \X (0..MaxLen)
    OBVIOUS
  <2> QED
    BY <2>1 DEF Alignments, Aligns, InOrder
<1>2. \A pairs : EditsOf(pairs) = EditsFor(s1, s2, m, n, pairs)
  BY DEF EditsOf, EditsFor, Unlike
<1>3. v \in costs /\ \A c \in costs : v <= c
  BY <1>1, <1>2 DEF Least
<1>4. \A c \in costs : c \in Int
  <2>1. m \in Nat /\ n \in Nat
    BY LenAssumption
  <2> QED
    BY <1>1, <1>2, <2>1, AlignsFinite
<1> HIDE DEF costs
<1>5. Min(costs) = v
  <2>1. Min(costs) \in costs /\ \A c \in costs : Min(costs) <= c
    BY <1>3 DEF Min
  <2>2. Min(costs) \in Int /\ Min(costs) <= v /\ v <= Min(costs)
    BY <1>3, <1>4, <2>1
  <2> QED
    BY <2>2
<1> QED
  BY <1>5 DEF Distance, costs

LEMMA DistInit == Init => DistInv
<1> SUFFICES ASSUME Init PROVE DistInv
  OBVIOUS
<1>1. Len(s1) \in 0..MaxLen /\ Len(s2) \in 0..MaxLen
  BY LenAssumption DEF Init, Texts
<1> QED
  BY <1>1, InitInv DEF DistInv, Init, DistInRow, DistInCell, RatioIsSimilarity

LEMMA DistStep == DistInv /\ [Next]_vars => DistInv'
<1> SUFFICES ASSUME DistInv, [Next]_vars PROVE DistInv'
  OBVIOUS
<1>1. IInv'
  BY StepInv DEF DistInv
<1>2. /\ IInv /\ TypeInv /\ s1 \in Seq(Letters) /\ s2 \in Seq(Letters)
      /\ Len(s1) \in Nat /\ Len(s2) \in Nat
  BY DEF DistInv, IInv, TypeInv
<1>3. s1' = s1 /\ s2' = s2
  BY DEF Next, vars, Return, FirstRow, StartRow, Cell, CopyRow, Finish
<1>4. Len(s1)' \in 0..MaxLen /\ Len(s2)' \in 0..MaxLen
  BY <1>3 DEF DistInv
<1>5. pc' # "done" => RatioIsSimilarity'
  BY DEF RatioIsSimilarity
<1>6. CASE Return
  <2>1. Len(s1) = 0 \/ Len(s2) = 0
    BY <1>6 DEF Return
  <2>2. Distance = Len(s1) + Len(s2)
    <3>1. Least(s1, s2, Len(s1), Len(s2), Len(s1) + Len(s2)) /\ Len(s1) + Len(s2) \in Nat
      <4>1. Len(s1) + Len(s2) \in Nat
        BY <1>2
      <4> QED
        BY <1>2, <2>1, <4>1, LeastOfEmpty
    <3> QED
      BY <3>1, LeastIsDistance DEF DistInv
  <2>3. Distance' = Distance
    BY <1>3 DEF Distance, Alignments, EditsOf
  <2>4. RatioIsSimilarity'
    <3>1. Max2(Len(s1), Len(s2)) = Distance
      BY <1>2, <2>1, <2>2 DEF Max2
    <3>2. CASE Len(s1) = 0 /\ Len(s2) = 0
      <4>1. ~(Max2(Len(s1), Len(s2)) > 0)
        BY <3>2 DEF Max2
      <4>2. ~(Max2(Len(s1), Len(s2)) > 0)'
        BY <1>3, <4>1
      <4> QED
        BY <4>2 DEF RatioIsSimilarity
    <3>3. CASE ~(Len(s1) = 0 /\ Len(s2) = 0)
      <4>1. ratio' = <<0, 1>>
        BY <1>2, <1>6, <3>3 DEF Return
      <4>2. Distance \in Nat
        BY <1>2, <2>2
      <4>3. 0 * Distance = (Distance - Distance) * 1
        BY <4>2
      <4> QED
        BY <1>3, <2>3, <3>1, <4>1, <4>3 DEF RatioIsSimilarity
    <3> QED
      BY <3>2, <3>3
  <2> QED
    BY <1>1, <1>4, <1>6, <2>4 DEF Return, DistInv, DistInRow, DistInCell
<1>7. CASE FirstRow
  <2>1. RowLeast(prev, 0, Len(s2))'
    BY <1>2, <1>3, <1>7, LeastOfEmpty DEF FirstRow, RowLeast
  <2> QED
    BY <1>1, <1>4, <1>5, <1>7, <2>1 DEF FirstRow, DistInv, DistInRow, DistInCell
<1>8. CASE StartRow
  <2>1. RowLeast(curr, i, 0)'
    <3>1. i \in Nat /\ curr'[0] = i /\ i' = i
      BY <1>2, <1>8 DEF StartRow, TypeInv, Columns
    <3>2. Least(s1, s2, i, 0, i)
      BY <3>1, LeastOfEmpty
    <3> QED
      BY <1>3, <3>1, <3>2 DEF RowLeast
  <2>2. RowLeast(prev, i - 1, Len(s2))'
    BY <1>3, <1>8 DEF StartRow, DistInv, DistInRow, RowLeast
  <2> QED
    BY <1>1, <1>2, <1>4, <1>5, <1>8, <2>1, <2>2 DEF StartRow, DistInv, DistInRow, DistInCell, TypeInv
<1>9. CASE Cell
  <2>1. /\ pc = "cell" /\ i \in 1..Len(s1) /\ j \in 1..Len(s2)
        /\ RowLeast(prev, i - 1, Len(s2)) /\ RowLeast(curr, i, j - 1)
    BY <1>2, <1>9 DEF Cell, DistInv, DistInCell, IInv, InCell
  <2>2. /\ i \in Nat \ {0} /\ j \in Nat \ {0} /\ i - 1 \in Nat /\ j - 1 \in 0..Len(s2)
        /\ j \in 0..Len(s2) /\ j - 1 \in 0..j - 1
    BY <1>2, <2>1
  <2>3. curr[j - 1] \in Nat /\ prev[j] \in Nat /\ prev[j - 1] \in Nat
    BY <1>2, <2>2 DEF TypeInv, Columns
  <2>4. /\ Least(s1, s2, i, j - 1, curr[j - 1]) /\ Least(s1, s2, i - 1, j, prev[j])
        /\ Least(s1, s2, i - 1, j - 1, prev[j - 1])
    BY <2>1, <2>2 DEF RowLeast
  <2> DEFINE cell == Min3(curr[j - 1] + 1, prev[j] + 1, prev[j - 1] + Cost)
  <2>5. Cost = CostOf(s1, s2, i, j)
    BY DEF Cost, CostOf
  <2>6. Least(s1, s2, i, j, cell)
    BY <2>2, <2>3, <2>4, <2>5, LeastOfThree
  <2>7. curr' = [curr EXCEPT ![j] = cell] /\ prev' = prev /\ i' = i /\ j' = j + 1 /\ pc' = "cell"
    BY <1>9, <2>1 DEF Cell
  <2> HIDE DEF cell
  <2>8. curr \in [0..Len(s2) -> Nat]
    BY <1>2 DEF TypeInv, Columns
  <2>9. RowLeast(curr, i, j - 1)'
    <3>1. ASSUME NEW k \in 0..j
          PROVE  Least(s1, s2, i, k, curr'[k])
      <4>1. CASE k = j
        BY <2>2, <2>6, <2>7, <2>8, <4>1
      <4>2. CASE k # j
        <5>1. k \in 0..j - 1 /\ k \in 0..Len(s2)
          BY <2>1, <2>2, <4>2
        <5> QED
          BY <2>1, <2>7, <2>8, <4>2, <5>1 DEF RowLeast
      <4> QED
        BY <4>1, <4>2
    <3>2. j' - 1 = j
      BY <2>2, <2>7
    <3> QED
      BY <1>3, <2>7, <3>1, <3>2 DEF RowLeast
  <2>10. RowLeast(prev, i - 1, Len(s2))'
    BY <1>3, <2>1, <2>7 DEF RowLeast
  <2> QED
    BY <1>1, <1>4, <1>5, <2>7, <2>9, <2>10 DEF DistInv, DistInRow, DistInCell
<1>10. CASE CopyRow
  <2>1. pc = "cell" /\ pc' = "row" /\ prev' = curr /\ i' = i + 1 /\ i \in Nat /\ j - 1 = Len(s2)
    BY <1>2, <1>10 DEF CopyRow, IInv, InCell, TypeInv
  <2>2. i' - 1 = i /\ RowLeast(curr, i, Len(s2))
    BY <2>1 DEF DistInv, DistInCell
  <2>3. RowLeast(prev, i - 1, Len(s2))'
    BY <1>3, <2>1, <2>2 DEF RowLeast
  <2> QED
    BY <1>1, <1>4, <1>5, <2>1, <2>3 DEF DistInv, DistInRow, DistInCell
<1>11. CASE Finish
  <2> DEFINE m == Len(s1)
             n == Len(s2)
  <2>1. i = m + 1 /\ curr = prev /\ m >= 1 /\ n >= 1
    BY <1>2, <1>11 DEF Finish, IInv, InRow
  <2>2. Least(s1, s2, m, n, curr[n]) /\ curr[n] \in Nat
    <3>1. n \in 0..n /\ i - 1 = m
      BY <1>2, <2>1
    <3> QED
      BY <1>2, <1>11, <2>1, <3>1 DEF Finish, DistInv, DistInRow, RowLeast, TypeInv, Columns
  <2>3. Distance = curr[n]
    BY <2>2, LeastIsDistance DEF DistInv
  <2>4. Distance' = Distance
    BY <1>3 DEF Distance, Alignments, EditsOf
  <2>5. LET longest == Max2(m, n) IN ratio' = <<longest - Distance, longest>>
    BY <1>11, <2>3 DEF Finish
  <2>6. RatioIsSimilarity'
    BY <1>3, <2>4, <2>5 DEF RatioIsSimilarity
  <2> QED
    BY <1>1, <1>4, <1>11, <2>6 DEF Finish, DistInv, DistInRow, DistInCell
<1>12. CASE UNCHANGED vars
  <2>1. Distance' = Distance
    BY <1>3 DEF Distance, Alignments, EditsOf
  <2> QED
    BY <1>1, <1>4, <1>12, <2>1 DEF vars, DistInv, DistInRow, DistInCell, RatioIsSimilarity, RowLeast
<1> QED
  BY <1>6, <1>7, <1>8, <1>9, <1>10, <1>11, <1>12 DEF Next

(* The two rows find the fewest edits (main.go:283-319): what is returned   *)
(* is one less the share of the distance in the longer text, for texts of   *)
(* any length, the early returns for empty ones included.                   *)
THEOREM RatioIsExact == Spec => []RatioIsSimilarity
<1>1. DistInv => RatioIsSimilarity
  BY DEF DistInv
<1> QED
  BY DistInit, DistStep, <1>1, PTL DEF Spec

=============================================================================
