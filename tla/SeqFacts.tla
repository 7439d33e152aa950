------------------------------ MODULE SeqFacts ------------------------------
(***************************************************************************)
(* Lemmas on numbers and sequences for the proofs about the components.    *)
(***************************************************************************)
EXTENDS Selection, SequencesExt, FiniteSetsExt, SequenceTheorems, FiniteSetTheorems,
        WellFoundedInduction, TLAPS

(* Min of two numbers. *)
LEMMA MinOfTwo ==
  ASSUME NEW a \in Nat, NEW b \in Nat
  PROVE  Min({a, b}) = IF a <= b THEN a ELSE b
<1> DEFINE m == IF a <= b THEN a ELSE b
<1>1. m \in {a, b} /\ \A y \in {a, b} : m <= y
  OBVIOUS
<1>2. ASSUME NEW x \in {a, b}, \A y \in {a, b} : x <= y
      PROVE  x = m
  BY <1>2
<1> QED
  BY <1>1, <1>2 DEF Min

(* The elements of a sequence are in its range. *)
LEMMA ToSetIn ==
  ASSUME NEW S, NEW s \in Seq(S)
  PROVE  ToSet(s) \subseteq S
BY LenProperties, ElementOfSeq DEF ToSet

(* A sequence is one over its own range. *)
LEMMA OwnRange ==
  ASSUME NEW S, NEW s \in Seq(S)
  PROVE  s \in Seq(ToSet(s))
<1>1. /\ Len(s) \in Nat /\ DOMAIN s = 1..Len(s) /\ s = [i \in 1..Len(s) |-> s[i]]
      /\ \A i \in 1..Len(s) : s[i] \in ToSet(s)
  BY LenProperties DEF ToSet
<1> QED
  BY <1>1, IsASeq

(* Appending adds one element. *)
LEMMA AppendToSet ==
  ASSUME NEW S, NEW s \in Seq(S), NEW e \in S
  PROVE  ToSet(Append(s, e)) = ToSet(s) \cup {e}
<1>1. /\ Len(s) \in Nat
      /\ DOMAIN s = 1..Len(s)
  BY LenProperties
<1>2. /\ DOMAIN Append(s, e) = 1..Len(s) + 1
      /\ \A i \in 1..Len(s) : Append(s, e)[i] = s[i]
      /\ Append(s, e)[Len(s) + 1] = e
  BY <1>1
<1>3. ASSUME NEW x \in ToSet(Append(s, e))
      PROVE  x \in ToSet(s) \cup {e}
  <2>1. PICK i \in 1..Len(s) + 1 : x = Append(s, e)[i]
    BY <1>2, <1>3 DEF ToSet
  <2> QED
    BY <1>1, <1>2, <2>1 DEF ToSet
<1>4. ASSUME NEW x \in ToSet(s) \cup {e}
      PROVE  x \in ToSet(Append(s, e))
  BY <1>1, <1>2, <1>4 DEF ToSet
<1> QED
  BY <1>3, <1>4

(* Appending a new element to a sequence without repetition adds none. *)
LEMMA AppendKeepsInjective ==
  ASSUME NEW S, NEW s \in Seq(S), NEW e \in S, IsInjective(s), e \notin ToSet(s)
  PROVE  IsInjective(Append(s, e))
<1> DEFINE t == Append(s, e)
<1>1. /\ Len(s) \in Nat
      /\ DOMAIN s = 1..Len(s)
  BY LenProperties
<1>2. /\ DOMAIN Append(s, e) = 1..Len(s) + 1
      /\ \A i \in 1..Len(s) : Append(s, e)[i] = s[i]
      /\ Append(s, e)[Len(s) + 1] = e
  BY <1>1
<1>3. \A i \in 1..Len(s) : s[i] # e
  BY <1>1 DEF ToSet
<1>4. ASSUME NEW i \in 1..Len(s) + 1, NEW j \in 1..Len(s) + 1,
             Append(s, e)[i] = Append(s, e)[j]
      PROVE  i = j
  <2>1. CASE i \in 1..Len(s) /\ j \in 1..Len(s)
    BY <1>1, <1>2, <1>4, <2>1 DEF IsInjective
  <2>2. CASE i = Len(s) + 1 \/ j = Len(s) + 1
    BY <1>1, <1>2, <1>3, <1>4, <2>2
  <2> QED
    BY <1>1, <2>1, <2>2
<1>5. \A i, j \in DOMAIN t : t[i] = t[j] => i = j
  BY <1>2, <1>4
<1> QED
  BY <1>5, Zenon DEF IsInjective

(* Head and tail together are the whole. *)
LEMMA HeadOrTail ==
  ASSUME NEW S, NEW s \in Seq(S), s # <<>>
  PROVE  /\ Head(s) \in S /\ Tail(s) \in Seq(S)
         /\ ToSet(s) \subseteq {Head(s)} \cup ToSet(Tail(s))
<1>1. /\ Head(s) \in S /\ Tail(s) \in Seq(S) /\ Len(Tail(s)) = Len(s) - 1
      /\ \A i \in 1..Len(Tail(s)) : Tail(s)[i] = s[i + 1]
      /\ DOMAIN s = 1..Len(s) /\ Len(s) \in Nat /\ Head(s) = s[1]
      /\ DOMAIN Tail(s) = 1..Len(Tail(s))
  BY HeadTailProperties, LenProperties
<1>2. ASSUME NEW i \in 1..Len(s), i # 1
      PROVE  s[i] \in ToSet(Tail(s))
  <2>1. i - 1 \in 1..Len(Tail(s)) /\ (i - 1) + 1 = i
    BY <1>1, <1>2
  <2> QED
    BY <1>1, <2>1 DEF ToSet
<1> QED
  BY <1>1, <1>2 DEF ToSet

(* Head and tail lie within the whole. *)
LEMMA WithinSeq ==
  ASSUME NEW S, NEW s \in Seq(S), s # <<>>
  PROVE  Head(s) \in ToSet(s) /\ ToSet(Tail(s)) \subseteq ToSet(s)
<1>1. /\ Len(Tail(s)) = Len(s) - 1 /\ \A i \in 1..Len(Tail(s)) : Tail(s)[i] = s[i + 1]
      /\ DOMAIN s = 1..Len(s) /\ Len(s) \in Nat \ {0} /\ Head(s) = s[1]
      /\ DOMAIN Tail(s) = 1..Len(Tail(s))
  BY HeadTailProperties, LenProperties, EmptySeq
<1>2. \A i \in 1..Len(Tail(s)) : i + 1 \in 1..Len(s)
  BY <1>1
<1> QED
  BY <1>1, <1>2 DEF ToSet

(* A concatenation holds what its parts hold. *)
LEMMA ConcatToSet ==
  ASSUME NEW S, NEW s \in Seq(S), NEW t \in Seq(S)
  PROVE  s \o t \in Seq(S) /\ ToSet(s \o t) = ToSet(s) \cup ToSet(t)
<1>1. /\ s \o t \in Seq(S) /\ Len(s \o t) = Len(s) + Len(t)
      /\ \A i \in 1..Len(s) + Len(t) :
           (s \o t)[i] = IF i <= Len(s) THEN s[i] ELSE t[i - Len(s)]
  BY ConcatProperties
<1>2. /\ Len(s) \in Nat /\ Len(t) \in Nat
      /\ DOMAIN s = 1..Len(s) /\ DOMAIN t = 1..Len(t) /\ DOMAIN (s \o t) = 1..Len(s) + Len(t)
  BY <1>1, LenProperties
<1>3. ASSUME NEW i \in 1..Len(s) + Len(t)
      PROVE  (s \o t)[i] \in ToSet(s) \cup ToSet(t)
  <2>1. CASE i <= Len(s)
    BY <1>1, <1>2, <2>1 DEF ToSet
  <2>2. CASE i > Len(s)
    <3>1. i - Len(s) \in 1..Len(t)
      BY <1>2, <2>2
    <3> QED
      BY <1>1, <1>2, <2>2, <3>1 DEF ToSet
  <2> QED
    BY <1>2, <2>1, <2>2
<1>4. ASSUME NEW i \in 1..Len(s)
      PROVE  s[i] \in ToSet(s \o t)
  BY <1>1, <1>2 DEF ToSet
<1>5. ASSUME NEW i \in 1..Len(t)
      PROVE  t[i] \in ToSet(s \o t)
  <2>1. /\ Len(s) + i \in 1..Len(s) + Len(t) /\ ~(Len(s) + i <= Len(s))
        /\ (Len(s) + i) - Len(s) = i
    BY <1>2
  <2>2. (s \o t)[Len(s) + i] = t[i]
    BY <1>1, <2>1
  <2> QED
    BY <1>2, <2>1, <2>2 DEF ToSet
<1>6. ToSet(s \o t) \subseteq ToSet(s) \cup ToSet(t)
  BY <1>2, <1>3 DEF ToSet
<1>7. ToSet(s) \subseteq ToSet(s \o t) /\ ToSet(t) \subseteq ToSet(s \o t)
  BY <1>2, <1>4, <1>5 DEF ToSet
<1> QED
  BY <1>1, <1>6, <1>7

(* Nothing of a sequence without repetition is left in the tail once taken. *)
LEMMA TakeHead ==
  ASSUME NEW S, NEW s \in Seq(S), s # <<>>, IsInjective(s)
  PROVE  /\ Head(s) \in ToSet(s) /\ Head(s) \notin ToSet(Tail(s))
         /\ ToSet(Tail(s)) \subseteq ToSet(s) /\ IsInjective(Tail(s))
<1>1. /\ Tail(s) \in Seq(S) /\ Len(Tail(s)) = Len(s) - 1
      /\ \A i \in 1..Len(Tail(s)) : Tail(s)[i] = s[i + 1]
      /\ DOMAIN s = 1..Len(s) /\ Len(s) \in Nat \ {0} /\ Head(s) = s[1]
      /\ DOMAIN Tail(s) = 1..Len(Tail(s))
  BY HeadTailProperties, LenProperties, EmptySeq
<1>2. \A i \in 1..Len(s), j \in 1..Len(s) : s[i] = s[j] => i = j
  BY <1>1 DEF IsInjective
<1>3. \A i \in 1..Len(Tail(s)) : i + 1 \in 1..Len(s) /\ i + 1 # 1
  BY <1>1
<1>4. \A i, j \in DOMAIN Tail(s) : Tail(s)[i] = Tail(s)[j] => i = j
  BY <1>1, <1>2, <1>3
<1> QED
  BY <1>1, <1>2, <1>3, <1>4 DEF ToSet, IsInjective

(* A piece of a sequence. *)
LEMMA Piece ==
  ASSUME NEW S, NEW s \in Seq(S), NEW a \in Nat, NEW b \in 0..Len(s)
  PROVE  /\ SubSeq(s, a + 1, b) \in Seq(S)
         /\ Len(SubSeq(s, a + 1, b)) = IF a <= b THEN b - a ELSE 0
         /\ \A i \in 1..b - a : SubSeq(s, a + 1, b)[i] = s[a + i]
<1>1. Len(s) \in Nat /\ b \in Nat
  BY LenProperties
<1>2. \A i \in a + 1..b : s[i] \in S
  BY <1>1, ElementOfSeq
<1>3. /\ SubSeq(s, a + 1, b) \in Seq(S)
      /\ Len(SubSeq(s, a + 1, b)) = IF a + 1 <= b THEN b - (a + 1) + 1 ELSE 0
      /\ \A i \in 1..b - (a + 1) + 1 : SubSeq(s, a + 1, b)[i] = s[a + 1 + i - 1]
  BY <1>2, SubSeqProperties
<1>4. b - (a + 1) + 1 = b - a /\ \A i \in 1..b - a : a + 1 + i - 1 = a + i
  BY <1>1
<1> QED
  BY <1>1, <1>3, <1>4

(* A sequence ends with another if it does so place by place. *)
LEMMA SuffixByIndex ==
  ASSUME NEW S, NEW s \in Seq(S), NEW t \in Seq(S), Len(s) <= Len(t),
         \A i \in 1..Len(s) : t[Len(t) - Len(s) + i] = s[i]
  PROVE  IsSuffix(s, t)
<1> DEFINE rs == Reverse(s)
           rt == Reverse(t)
<1>1. PICK n \in Nat, m \in Nat : n = Len(s) /\ m = Len(t)
  BY LenProperties
<1>2. /\ Len(rs) = n /\ Len(rt) = m
      /\ \A i \in 1..n : rs[i] = s[n - i + 1]
      /\ \A i \in 1..m : rt[i] = t[m - i + 1]
  BY <1>1 DEF Reverse
<1> HIDE DEF rs, rt
<1>3. ASSUME NEW i \in 1..n
      PROVE  rt[i] = rs[i] /\ rs[i] \in S
  <2>1. n - i + 1 \in 1..n /\ i \in 1..m /\ m - n + (n - i + 1) = m - i + 1
    BY <1>1
  <2>2. s[n - i + 1] \in S /\ t[m - n + (n - i + 1)] = s[n - i + 1]
    BY <1>1, <2>1, ElementOfSeq
  <2> QED
    BY <1>2, <2>1, <2>2
<1>4. SubSeq(rs, 1, n) = SubSeq(rt, 1, n)
  <2>1. /\ SubSeq(rs, 1, n) \in Seq(S) /\ Len(SubSeq(rs, 1, n)) = n
        /\ \A i \in 1..n : SubSeq(rs, 1, n)[i] = rs[i]
    BY <1>3, SubSeqProperties
  <2>2. \A i \in 1..n : rt[i] \in S
    BY <1>3
  <2>3. /\ SubSeq(rt, 1, n) \in Seq(S) /\ Len(SubSeq(rt, 1, n)) = n
        /\ \A i \in 1..n : SubSeq(rt, 1, n)[i] = rt[i]
    BY <2>2, SubSeqProperties
  <2> QED
    BY <1>3, <2>1, <2>3, SeqEqual
<1> QED
  BY <1>1, <1>2, <1>4 DEF IsSuffix, IsPrefix, rs, rt

(* A sequence without repetition has as many elements as places. *)
LEMMA InjectiveCount ==
  ASSUME NEW S, NEW s \in Seq(S), IsInjective(s)
  PROVE  IsFiniteSet(ToSet(s)) /\ Cardinality(ToSet(s)) = Len(s)
<1> DEFINE T == ToSet(s)
<1>1. Len(s) \in Nat /\ DOMAIN s = 1..Len(s) /\ s \in [1..Len(s) -> T]
      /\ \A t \in T : \E i \in 1..Len(s) : s[i] = t
  BY LenProperties DEF ToSet
<1>2. IsFiniteSet(1..Len(s)) /\ Cardinality(1..Len(s)) = Len(s)
  <2>1. PICK n \in Nat : n = Len(s)
    BY <1>1
  <2>2. /\ IsFiniteSet(1..n)
        /\ Cardinality(1..n) = IF 1 > n THEN 0 ELSE n - 1 + 1
    BY FS_Interval
  <2> QED
    BY <2>1, <2>2
<1> HIDE DEF T
<1>3. s \in Surjection(1..Len(s), T) /\ s \in Injection(1..Len(s), T)
  BY <1>1 DEF Surjection, Injection
<1>4. IsFiniteSet(T) /\ Cardinality(T) = Cardinality(1..Len(s))
  BY <1>2, <1>3, FS_Surjection
<1> QED
  BY <1>2, <1>4 DEF T

(* The places of a finite sequence hold finitely many elements. *)
LEMMA RangeFinite ==
  ASSUME NEW S, NEW s \in Seq(S)
  PROVE  IsFiniteSet(ToSet(s)) /\ Cardinality(ToSet(s)) \in Nat
<1> DEFINE T == ToSet(s)
<1>1. Len(s) \in Nat /\ s \in [1..Len(s) -> T] /\ \A t \in T : \E i \in 1..Len(s) : s[i] = t
  BY LenProperties DEF ToSet
<1>2. IsFiniteSet(1..Len(s))
  <2>1. PICK n \in Nat : n = Len(s)
    BY <1>1
  <2>2. IsFiniteSet(1..n)
    BY FS_Interval
  <2> QED
    BY <2>1, <2>2
<1> HIDE DEF T
<1>3. s \in Surjection(1..Len(s), T)
  BY <1>1 DEF Surjection
<1> QED
  BY <1>2, <1>3, FS_Surjection, FS_CardinalityType DEF T

(* Listing a finite set lists its elements. *)
LEMMA ListOfSet ==
  ASSUME NEW S, IsFiniteSet(S)
  PROVE  SetToSeq(S) \in Seq(S)
<1> DEFINE n == Cardinality(S)
<1>1. n \in Nat /\ ExistsBijection(1..n, S)
  BY FS_CardinalityType
<1>2. \E f \in [1..n -> S] : IsInjective(f)
  BY <1>1 DEF ExistsBijection, Bijection, Injection
<1>3. SetToSeq(S) \in [1..n -> S]
  BY <1>2 DEF SetToSeq
<1> QED
  BY <1>1, <1>3

-----------------------------------------------------------------------------
(* A non-empty set of numbers has a least one. *)
LEMMA LeastNumber ==
  ASSUME NEW T \in SUBSET Nat, T # {}
  PROVE  \E x \in T : \A y \in T : x <= y
<1> DEFINE Less == {p \in Nat \X Nat : p[1] < p[2]}
<1>1. IsWellFoundedOn(Less, Nat)
  BY NatLessThanWellFounded DEF OpToRel
<1> HIDE DEF Less
<1>2. PICK x \in T : \A y \in T : <<y, x>> \notin Less
  BY <1>1, WFMin
<1>3. ASSUME NEW y \in T
      PROVE  x <= y
  <2>1. x \in Nat /\ y \in Nat /\ <<y, x>> \in Nat \X Nat
    OBVIOUS
  <2>2. ~(<<y, x>>[1] < <<y, x>>[2])
    BY <1>2, <2>1 DEF Less
  <2>3. <<y, x>>[1] = y /\ <<y, x>>[2] = x
    OBVIOUS
  <2> QED
    BY <2>1, <2>2, <2>3
<1> QED
  BY <1>3

(* A set with 0 that is closed under the next number holds all up to n. *)
LEMMA CountingUp ==
  ASSUME NEW n \in Nat, NEW A, 0 \in A, \A k \in 0..n : k < n /\ k \in A => k + 1 \in A
  PROVE  \A k \in 0..n : k \in A
<1> SUFFICES ASSUME NEW m \in 0..n, m \notin A
             PROVE  FALSE
  OBVIOUS
<1> DEFINE T == {k \in 0..n : k \notin A}
<1>1. PICK x \in T : \A y \in T : x <= y
  BY LeastNumber, T \in SUBSET Nat, m \in T
<1>2. x # 0 /\ x - 1 \in 0..n /\ x - 1 < n /\ (x - 1) + 1 = x
  BY <1>1
<1>3. x - 1 \in A
  BY <1>1, <1>2
<1> QED
  BY <1>1, <1>2, <1>3

(* f is the recursive function in Select. *)
Takes(f, s, T) ==
  f = [i \in 0..Len(s) |->
         IF i = 0 THEN <<>>
         ELSE IF s[i] \in T THEN Append(f[i - 1], s[i]) ELSE f[i - 1]]

(* The function that Select computes exists. *)
LEMMA SelectUnfolds ==
  ASSUME NEW S, NEW s \in Seq(S), NEW T
  PROVE  \E f : Select(s, T) = f[Len(s)] /\ Takes(f, s, T)
<1> DEFINE One(g, i) == IF i = 0 THEN <<>>
                        ELSE IF s[i] \in T THEN Append(g[i - 1], s[i]) ELSE g[i - 1]
           Good == {k \in 0..Len(s) : \E g : g = [i \in 0..k |-> One(g, i)]}
<1>1. Len(s) \in Nat
  BY LenProperties
<1>2. 0 \in Good
  <2> DEFINE g == [i \in 0..0 |-> <<>>]
  <2>1. g = [i \in 0..0 |-> One(g, i)]
    OBVIOUS
  <2>2. \E x : x = [i \in 0..0 |-> One(x, i)]
    <3> HIDE DEF g
    <3> QED
      BY <2>1
  <2> QED
    BY <1>1, <2>2
<1>3. ASSUME NEW k \in 0..Len(s), k < Len(s), k \in Good
      PROVE  k + 1 \in Good
  <2>1. PICK g : g = [i \in 0..k |-> One(g, i)]
    BY <1>3
  <2> DEFINE h == [i \in 0..k + 1 |-> IF i <= k THEN g[i] ELSE One(g, k + 1)]
  <2>2. ASSUME NEW i \in 0..k + 1
        PROVE  h[i] = One(h, i)
    <3>1. CASE i = 0
      BY <1>1, <2>1, <3>1
    <3>2. CASE i \in 1..k
      <4>1. i - 1 \in 0..k /\ i \in 0..k /\ i # 0 /\ i <= k /\ i - 1 <= k
        BY <1>1, <3>2
      <4>2. g[i] = One(g, i)
        BY <2>1, <4>1
      <4>3. h[i] = g[i] /\ h[i - 1] = g[i - 1]
        BY <4>1
      <4> QED
        BY <4>1, <4>2, <4>3
    <3>3. CASE i = k + 1
      <4>1. h[k + 1] = One(g, k + 1) /\ h[(k + 1) - 1] = g[(k + 1) - 1] /\ k + 1 # 0
        BY <1>1
      <4> QED
        BY <3>3, <4>1
    <3> QED
      BY <1>1, <3>1, <3>2, <3>3
  <2>3. h = [i \in 0..k + 1 |-> One(h, i)]
    BY <2>2
  <2> HIDE DEF h
  <2> QED
    BY <1>1, <1>3, <2>3
<1>4. Len(s) \in Good
  <2> HIDE DEF Good
  <2>1. \A k \in 0..Len(s) : k < Len(s) /\ k \in Good => k + 1 \in Good
    BY <1>3
  <2>2. \A k \in 0..Len(s) : k \in Good
    BY <1>1, <1>2, <2>1, CountingUp
  <2> QED
    BY <1>1, <2>2
<1>5. \E g : g = [i \in 0..Len(s) |-> One(g, i)]
  BY <1>4
<1> DEFINE f == CHOOSE g : g = [i \in 0..Len(s) |-> One(g, i)]
<1>6. f = [i \in 0..Len(s) |-> One(f, i)]
  BY <1>5
<1>7. Select(s, T) = f[Len(s)]
  BY DEF Select
<1> QED
  BY <1>6, <1>7 DEF Takes

(* Select keeps the elements of T, and no element comes twice that did not. *)
LEMMA SelectProperties ==
  ASSUME NEW S, NEW s \in Seq(S), NEW T
  PROVE  /\ Select(s, T) \in Seq(S)
         /\ ToSet(Select(s, T)) = ToSet(s) \cap T
         /\ IsInjective(s) => IsInjective(Select(s, T))
<1>1. PICK f : Select(s, T) = f[Len(s)] /\ Takes(f, s, T)
  BY SelectUnfolds
<1> DEFINE Firsts(k) == {s[i] : i \in 1..k}
           Good == {k \in 0..Len(s) : /\ f[k] \in Seq(S)
                                      /\ ToSet(f[k]) = Firsts(k) \cap T
                                      /\ IsInjective(s) => IsInjective(f[k])}
<1>2. Len(s) \in Nat /\ DOMAIN s = 1..Len(s) /\ \A i \in 1..Len(s) : s[i] \in S
  BY LenProperties, ElementOfSeq
<1>3. 0 \in Good
  <2>1. f[0] = <<>>
    BY <1>1, <1>2 DEF Takes
  <2>2. ToSet(<<>>) = {} /\ Firsts(0) = {} /\ <<>> \in Seq(S) /\ IsInjective(<<>>)
    BY DEF ToSet, IsInjective
  <2>3. 0 \in 0..Len(s) /\ f[0] \in Seq(S) /\ ToSet(f[0]) = {} /\ IsInjective(f[0])
    BY <1>2, <2>1, <2>2
  <2> QED
    BY <2>2, <2>3
<1>4. ASSUME NEW k \in 0..Len(s), k < Len(s), k \in Good
      PROVE  k + 1 \in Good
  <2> DEFINE e == s[k + 1]
  <2>1. /\ k + 1 \in 1..Len(s) /\ k + 1 # 0 /\ (k + 1) - 1 = k /\ k + 1 \in 0..Len(s)
        /\ e \in S
    BY <1>2, <1>4
  <2>2. f[k + 1] = IF e \in T THEN Append(f[k], e) ELSE f[k]
    BY <1>1, <2>1 DEF Takes
  <2>3. Firsts(k + 1) = Firsts(k) \cup {e}
    BY <1>2, <2>1
  <2>4. f[k] \in Seq(S) /\ ToSet(f[k]) = Firsts(k) \cap T
    BY <1>4
  <2>5. CASE e \in T
    <3>1. Append(f[k], e) \in Seq(S) /\ ToSet(Append(f[k], e)) = ToSet(f[k]) \cup {e}
      BY <2>1, <2>4, AppendToSet, AppendProperties
    <3>2. ASSUME IsInjective(s)
          PROVE  IsInjective(Append(f[k], e))
      <4>1. e \notin Firsts(k)
        BY <1>2, <2>1, <3>2 DEF IsInjective
      <4>2. IsInjective(f[k])
        BY <1>4, <3>2
      <4> QED
        BY <2>1, <2>4, <4>1, <4>2, AppendKeepsInjective
    <3> QED
      BY <2>1, <2>2, <2>3, <2>4, <2>5, <3>1, <3>2
  <2>6. CASE e \notin T
    BY <1>4, <2>1, <2>2, <2>3, <2>4, <2>6
  <2> QED
    BY <2>5, <2>6
<1>5. Len(s) \in Good
  <2> HIDE DEF Good
  <2>1. \A k \in 0..Len(s) : k < Len(s) /\ k \in Good => k + 1 \in Good
    BY <1>4
  <2>2. \A k \in 0..Len(s) : k \in Good
    BY <1>2, <1>3, <2>1, CountingUp
  <2> QED
    BY <1>2, <2>2
<1>6. Firsts(Len(s)) = ToSet(s)
  BY <1>2 DEF ToSet
<1> QED
  BY <1>1, <1>5, <1>6
(* Select keeps the order and repeats nothing of U that was not repeated.   *)
DistinctOn(s, U) == \A i, j \in DOMAIN s : s[i] = s[j] /\ s[i] \in U => i = j

LEMMA SelectKeepsDistinct ==
  ASSUME NEW S, NEW s \in Seq(S), NEW T, NEW U, DistinctOn(s, U)
  PROVE  DistinctOn(Select(s, T), U)
<1>1. PICK f : Select(s, T) = f[Len(s)] /\ Takes(f, s, T)
  BY SelectUnfolds
<1> DEFINE Firsts(k) == {s[i] : i \in 1..k}
           Good == {k \in 0..Len(s) : /\ f[k] \in Seq(S)
                                      /\ ToSet(f[k]) \subseteq Firsts(k)
                                      /\ DistinctOn(f[k], U)}
<1>2. Len(s) \in Nat /\ DOMAIN s = 1..Len(s) /\ \A i \in 1..Len(s) : s[i] \in S
  BY LenProperties, ElementOfSeq
<1>3. 0 \in Good
  <2>1. f[0] = <<>>
    BY <1>1, <1>2 DEF Takes
  <2>2. ToSet(<<>>) = {} /\ <<>> \in Seq(S) /\ DistinctOn(<<>>, U)
    BY DEF ToSet, DistinctOn
  <2>3. 0 \in 0..Len(s) /\ f[0] \in Seq(S) /\ ToSet(f[0]) = {} /\ DistinctOn(f[0], U)
    BY <1>2, <2>1, <2>2
  <2> QED
    BY <2>3
<1>4. ASSUME NEW k \in 0..Len(s), k < Len(s), k \in Good
      PROVE  k + 1 \in Good
  <2> DEFINE e == s[k + 1]
             g == f[k]
  <2>1. /\ k + 1 \in 1..Len(s) /\ k + 1 # 0 /\ (k + 1) - 1 = k /\ k + 1 \in 0..Len(s)
        /\ e \in S
    BY <1>2, <1>4
  <2>2. f[k + 1] = IF e \in T THEN Append(g, e) ELSE g
    BY <1>1, <2>1 DEF Takes
  <2>3. Firsts(k + 1) = Firsts(k) \cup {e}
    BY <1>2, <2>1
  <2>4. g \in Seq(S) /\ ToSet(g) \subseteq Firsts(k) /\ DistinctOn(g, U)
    BY <1>4
  <2>5. e \in U => e \notin Firsts(k)
    BY <1>2, <2>1 DEF DistinctOn
  <2> HIDE DEF g, e
  <2>6. CASE e \in T
    <3>1. Append(g, e) \in Seq(S) /\ ToSet(Append(g, e)) = ToSet(g) \cup {e}
      BY <2>1, <2>4, AppendToSet, AppendProperties
    <3>2. PICK n \in Nat : n = Len(g) /\ DOMAIN g = 1..n
      BY <2>4, LenProperties
    <3>3. /\ DOMAIN Append(g, e) = 1..n + 1
          /\ \A i \in 1..n : Append(g, e)[i] = g[i]
          /\ Append(g, e)[n + 1] = e
      BY <2>1, <2>4, <3>1, <3>2, AppendProperties, LenProperties
    <3>4. \A i \in 1..n : g[i] \in Firsts(k)
      BY <2>4, <3>2 DEF ToSet
    <3>5. ASSUME NEW i \in 1..n + 1, NEW j \in 1..n + 1,
                 Append(g, e)[i] = Append(g, e)[j], Append(g, e)[i] \in U
          PROVE  i = j
      <4>1. CASE i \in 1..n /\ j \in 1..n
        BY <2>4, <3>2, <3>3, <3>5, <4>1 DEF DistinctOn
      <4>2. CASE i = n + 1 \/ j = n + 1
        BY <2>5, <3>3, <3>4, <3>5, <4>2
      <4> QED
        BY <4>1, <4>2
    <3>6. DistinctOn(Append(g, e), U)
      BY <3>3, <3>5 DEF DistinctOn
    <3> QED
      BY <2>1, <2>2, <2>3, <2>4, <2>6, <3>1, <3>6
  <2>7. CASE e \notin T
    BY <2>1, <2>2, <2>3, <2>4, <2>7
  <2> QED
    BY <2>6, <2>7
<1>5. Len(s) \in Good
  <2> HIDE DEF Good
  <2>1. \A k \in 0..Len(s) : k < Len(s) /\ k \in Good => k + 1 \in Good
    BY <1>4
  <2>2. \A k \in 0..Len(s) : k \in Good
    BY <1>2, <1>3, <2>1, CountingUp
  <2> QED
    BY <1>2, <2>2
<1> QED
  BY <1>1, <1>5

(* What a list is without the element in place i. *)
LEMMA RemoveAtProperties ==
  ASSUME NEW S, NEW s \in Seq(S), NEW i \in 1..Len(s)
  PROVE  /\ RemoveAt(s, i) \in Seq(S) /\ Len(RemoveAt(s, i)) = Len(s) - 1
         /\ \A j \in 1..Len(s) - 1 : RemoveAt(s, i)[j] = IF j < i THEN s[j] ELSE s[j + 1]
<1>1. PICK n \in Nat : n = Len(s)
  BY LenProperties
<1>2. \A j \in 1..n : s[j] \in S
  BY <1>1, ElementOfSeq
<1> DEFINE a == SubSeq(s, 1, i - 1)
           b == SubSeq(s, i + 1, n)
<1>3. a \in Seq(S) /\ Len(a) = i - 1 /\ \A j \in 1..i - 1 : a[j] = s[j]
  <2>1. \A j \in 1..i - 1 : s[j] \in S
    BY <1>1, <1>2
  <2>2. /\ a \in Seq(S)
        /\ Len(a) = IF 1 <= i - 1 THEN (i - 1) - 1 + 1 ELSE 0
        /\ \A j \in 1..(i - 1) - 1 + 1 : a[j] = s[1 + j - 1]
    <3>1. i - 1 \in Int
      BY <1>1
    <3> QED
      BY <2>1, <3>1, SubSeqProperties
  <2>3. (i - 1) - 1 + 1 = i - 1 /\ \A j \in 1..i - 1 : 1 + j - 1 = j
    BY <1>1
  <2> HIDE DEF a
  <2> QED
    BY <1>1, <2>2, <2>3
<1>4. b \in Seq(S) /\ Len(b) = n - i /\ \A j \in 1..n - i : b[j] = s[i + j]
  <2>1. n \in 0..Len(s) /\ i \in Nat
    BY <1>1
  <2>2. /\ b \in Seq(S) /\ Len(b) = IF i <= n THEN n - i ELSE 0
        /\ \A j \in 1..n - i : b[j] = s[i + j]
    BY <2>1, Piece
  <2> HIDE DEF b
  <2> QED
    BY <1>1, <2>2
<1>5. /\ RemoveAt(s, i) = a \o b /\ a \o b \in Seq(S) /\ Len(a \o b) = (i - 1) + (n - i)
      /\ \A j \in 1..(i - 1) + (n - i) : (a \o b)[j] = IF j <= i - 1 THEN a[j] ELSE b[j - (i - 1)]
  <2>1. RemoveAt(s, i) = a \o b
    BY <1>1 DEF RemoveAt
  <2> HIDE DEF a, b
  <2>2. /\ a \o b \in Seq(S) /\ Len(a \o b) = Len(a) + Len(b)
        /\ \A j \in 1..Len(a) + Len(b) : (a \o b)[j] = IF j <= Len(a) THEN a[j] ELSE b[j - Len(a)]
    BY <1>3, <1>4, ConcatProperties
  <2> QED
    BY <1>3, <1>4, <2>1, <2>2
<1> HIDE DEF a, b
<1>6. ASSUME NEW j \in 1..n - 1
      PROVE  (a \o b)[j] = IF j < i THEN s[j] ELSE s[j + 1]
  <2>1. j \in 1..(i - 1) + (n - i)
    BY <1>1
  <2>2. CASE j < i
    BY <1>1, <1>3, <1>5, <2>1, <2>2
  <2>3. CASE j >= i
    <3>1. j - (i - 1) \in 1..n - i /\ i + (j - (i - 1)) = j + 1 /\ ~(j <= i - 1) /\ ~(j < i)
      BY <1>1, <2>3
    <3> QED
      BY <1>4, <1>5, <2>1, <3>1
  <2>4. j < i \/ j >= i
    BY <1>1
  <2> QED
    BY <2>2, <2>3, <2>4, Zenon
<1>7. (i - 1) + (n - i) = n - 1
  BY <1>1
<1> QED
  BY <1>1, <1>5, <1>6, <1>7

LEMMA RemoveAtKeeps ==
  ASSUME NEW S, NEW s \in Seq(S), NEW i \in 1..Len(s), NEW U
  PROVE  /\ ToSet(RemoveAt(s, i)) \subseteq ToSet(s)
         /\ ToSet(s) \subseteq {s[i]} \cup ToSet(RemoveAt(s, i))
         /\ DistinctOn(s, U) => /\ DistinctOn(RemoveAt(s, i), U)
                                /\ s[i] \in U => s[i] \notin ToSet(RemoveAt(s, i))
<1> DEFINE r == RemoveAt(s, i)
<1>1. PICK n \in Nat : n = Len(s) /\ DOMAIN s = 1..n
  BY LenProperties
<1>2. /\ DOMAIN r = 1..n - 1
      /\ \A j \in 1..n - 1 : r[j] = IF j < i THEN s[j] ELSE s[j + 1]
  <2>1. r \in Seq(S) /\ Len(r) = n - 1 /\ \A j \in 1..n - 1 : r[j] = IF j < i THEN s[j] ELSE s[j + 1]
    BY <1>1, RemoveAtProperties
  <2> QED
    BY <2>1, LenProperties
<1> HIDE DEF r
<1>3. ToSet(r) \subseteq ToSet(s)
  <2>1. \A j \in 1..n - 1 : j \in 1..n /\ j + 1 \in 1..n
    BY <1>1
  <2> QED
    BY <1>1, <1>2, <2>1 DEF ToSet
<1>4. ToSet(s) \subseteq {s[i]} \cup ToSet(r)
  <2>1. SUFFICES ASSUME NEW k \in 1..n, k # i
                 PROVE  s[k] \in ToSet(r)
    BY <1>1, Zenon DEF ToSet
  <2>2. CASE k < i
    <3>1. k \in 1..n - 1 /\ r[k] = s[k]
      BY <1>1, <1>2, <2>2
    <3> QED
      BY <1>2, <3>1 DEF ToSet
  <2>3. CASE k > i
    <3>1. k - 1 \in 1..n - 1 /\ ~(k - 1 < i) /\ (k - 1) + 1 = k
      BY <1>1, <2>3
    <3>2. r[k - 1] = s[k]
      BY <1>2, <3>1
    <3> QED
      BY <1>2, <3>1, <3>2 DEF ToSet
  <2> QED
    BY <1>1, <2>1, <2>2, <2>3
<1>5. ASSUME DistinctOn(s, U)
      PROVE  DistinctOn(r, U) /\ (s[i] \in U => s[i] \notin ToSet(r))
  <2> DEFINE from(j) == IF j < i THEN j ELSE j + 1
  <2>1. \A j \in 1..n - 1 : from(j) \in 1..n /\ from(j) # i /\ r[j] = s[from(j)]
    BY <1>1, <1>2
  <2>2. \A j, k \in 1..n - 1 : from(j) = from(k) => j = k
    BY <1>1
  <2> HIDE DEF from
  <2>3. DistinctOn(r, U)
    BY <1>1, <1>2, <1>5, <2>1, <2>2 DEF DistinctOn
  <2>4. s[i] \in U => s[i] \notin ToSet(r)
    BY <1>1, <1>2, <1>5, <2>1 DEF DistinctOn, ToSet
  <2> QED
    BY <2>3, <2>4
<1> QED
  BY <1>3, <1>4, <1>5 DEF r
-----------------------------------------------------------------------------
(* A function that unfolds Select: TakenBy(s, T)[k] is what is kept of the  *)
(* first k elements.                                                        *)
TakenBy(s, T) == CHOOSE f : Select(s, T) = f[Len(s)] /\ Takes(f, s, T)

LEMMA TakenStepwise ==
  ASSUME NEW S, NEW s \in Seq(S), NEW T
  PROVE  /\ TakenBy(s, T)[0] = <<>> /\ TakenBy(s, T)[Len(s)] = Select(s, T)
         /\ \A k \in 1..Len(s) :
              TakenBy(s, T)[k] = IF s[k] \in T THEN Append(TakenBy(s, T)[k - 1], s[k])
                                 ELSE TakenBy(s, T)[k - 1]
<1>1. Select(s, T) = TakenBy(s, T)[Len(s)] /\ Takes(TakenBy(s, T), s, T)
  BY SelectUnfolds DEF TakenBy
<1>2. PICK n \in Nat : n = Len(s)
  BY LenProperties
<1>3. 0 \in 0..n /\ \A k \in 1..n : k \in 0..n /\ k # 0
  BY <1>2
<1> QED
  BY <1>1, <1>2, <1>3 DEF Takes

(* f is the recursive function in FlattenSeq. *)
Flattens(f, seqs) ==
  f = [i \in 1..Len(seqs) |-> IF i = 1 THEN seqs[i] ELSE f[i - 1] \o seqs[i]]

LEMMA FlattenUnfolds ==
  ASSUME NEW seqs, Len(seqs) \in Nat \ {0}
  PROVE  \E f : FlattenSeq(seqs) = f[Len(seqs)] /\ Flattens(f, seqs)
<1> DEFINE One(g, i) == IF i = 1 THEN seqs[i] ELSE g[i - 1] \o seqs[i]
           Good == {k \in 0..Len(seqs) : \E g : g = [i \in 1..k |-> One(g, i)]}
<1>1. PICK n \in Nat : n = Len(seqs) /\ n # 0
  OBVIOUS
<1>2. 0 \in Good
  <2> DEFINE g == [i \in 1..0 |-> seqs[i]]
  <2>1. g = [i \in 1..0 |-> One(g, i)]
    OBVIOUS
  <2>2. \E x : x = [i \in 1..0 |-> One(x, i)]
    <3> HIDE DEF g
    <3> QED
      BY <2>1
  <2>3. 0 \in 0..Len(seqs)
    BY <1>1
  <2> QED
    BY <2>2, <2>3, Zenon
<1>3. ASSUME NEW k \in 0..n, k < n, k \in Good
      PROVE  k + 1 \in Good
  <2>1. PICK g : g = [i \in 1..k |-> One(g, i)]
    BY <1>3
  <2> DEFINE h == [i \in 1..k + 1 |-> IF i <= k THEN g[i] ELSE One(g, k + 1)]
  <2>2. ASSUME NEW i \in 1..k + 1
        PROVE  h[i] = One(h, i)
    <3>1. CASE i \in 1..k
      <4>1. i \in 1..k + 1 /\ i <= k /\ (i # 1 => i - 1 \in 1..k + 1 /\ i - 1 <= k)
        BY <1>1, <3>1
      <4>2. g[i] = One(g, i)
        BY <2>1, <3>1
      <4>3. h[i] = g[i] /\ (i # 1 => h[i - 1] = g[i - 1])
        BY <4>1
      <4> QED
        BY <4>1, <4>2, <4>3
    <3>2. CASE i = k + 1
      <4>1. k + 1 \in 1..k + 1 /\ ~(k + 1 <= k) /\ (k + 1) - 1 = k
            /\ (k + 1 # 1 => k \in 1..k + 1 /\ k <= k)
        BY <1>1
      <4>2. h[k + 1] = One(g, k + 1) /\ (k + 1 # 1 => h[k] = g[k])
        BY <4>1
      <4> QED
        BY <3>2, <4>1, <4>2
    <3> QED
      BY <1>1, <3>1, <3>2
  <2>3. h = [i \in 1..k + 1 |-> One(h, i)]
    BY <2>2
  <2> HIDE DEF h
  <2>4. \E x : x = [i \in 1..k + 1 |-> One(x, i)]
    BY <2>3
  <2>5. k + 1 \in 0..Len(seqs)
    BY <1>1, <1>3
  <2> QED
    BY <2>4, <2>5
<1>4. n \in Good
  <2> HIDE DEF Good
  <2>1. \A k \in 0..n : k < n /\ k \in Good => k + 1 \in Good
    BY <1>3
  <2>2. \A k \in 0..n : k \in Good
    BY <1>2, <2>1, CountingUp
  <2> QED
    BY <2>2
<1>5. \E g : g = [i \in 1..Len(seqs) |-> One(g, i)]
  BY <1>1, <1>4
<1> DEFINE f == CHOOSE g : g = [i \in 1..Len(seqs) |-> One(g, i)]
<1>6. f = [i \in 1..Len(seqs) |-> One(f, i)]
  BY <1>5
<1>7. FlattenSeq(seqs) = f[Len(seqs)]
  BY DEF FlattenSeq
<1> QED
  BY <1>6, <1>7 DEF Flattens

(* Pieces of q elements each, taken one after the other until the list is   *)
(* used up, give the list again.                                            *)
LEMMA FlattenPieces ==
  ASSUME NEW S, NEW s \in Seq(S), NEW q \in Nat \ {0}, NEW k \in Nat \ {0},
         (k - 1) * q <= Len(s), Len(s) <= k * q,
         NEW pieces, Len(pieces) = k,
         \A n \in 1..k : pieces[n] = SubSeq(s, (n - 1) * q + 1, Min({n * q, Len(s)}))
  PROVE  FlattenSeq(pieces) = s
<1>1. PICK L \in Nat : L = Len(s)
  BY LenProperties
<1>2. PICK f : FlattenSeq(pieces) = f[k] /\ Flattens(f, pieces)
  BY FlattenUnfolds
<1> DEFINE cut(j) == IF j * q <= L THEN j * q ELSE L
           Good == {j \in 0..k : j # 0 => f[j] = SubSeq(s, 1, cut(j))}
<1>3. ASSUME NEW j \in 0..k, j < k
      PROVE  /\ j * q \in Nat /\ j * q <= L /\ (j + 1) * q = j * q + q
             /\ cut(j + 1) \in j * q..L
             /\ pieces[j + 1] = SubSeq(s, j * q + 1, cut(j + 1))
  <2>1. PICK d \in Nat : k - 1 = j + d
    BY <1>3
  <2>2. (j + d) * q = j * q + d * q /\ j * q \in Nat /\ d * q \in Nat /\ (j + 1) * q = j * q + q
    OBVIOUS
  <2>3. PICK a \in Nat : a = j * q
    BY <2>2
  <2>4. a <= L
    BY <1>1, <2>1, <2>2, <2>3
  <2>5. Min({(j + 1) * q, Len(s)}) = cut(j + 1)
    <3>1. (j + 1) * q \in Nat
      BY <2>2, <2>3
    <3> QED
      BY <1>1, <3>1, MinOfTwo
  <2>6. j + 1 \in 1..k /\ (j + 1) - 1 = j
    BY <1>3
  <2>7. pieces[j + 1] = SubSeq(s, j * q + 1, cut(j + 1))
    BY <2>5, <2>6
  <2>8. cut(j + 1) \in a..L
    BY <1>1, <2>2, <2>3, <2>4
  <2> QED
    BY <2>2, <2>3, <2>4, <2>7, <2>8
<1>4. 0 \in Good
  OBVIOUS
<1>5. ASSUME NEW j \in 0..k, j < k, j \in Good
      PROVE  j + 1 \in Good
  <2> DEFINE c == cut(j + 1)
  <2>1. PICK a \in Nat : a = j * q /\ a <= L /\ c \in a..L /\ pieces[j + 1] = SubSeq(s, a + 1, c)
    BY <1>3, <1>5
  <2>2. j + 1 \in 1..k /\ (j + 1) - 1 = j /\ j + 1 \in 0..k
    BY <1>5
  <2>3. f[j + 1] = IF j + 1 = 1 THEN pieces[j + 1] ELSE f[j] \o pieces[j + 1]
    BY <1>2, <2>2 DEF Flattens
  <2>4. CASE j = 0
    <3>1. a = 0 /\ a + 1 = 1
      BY <2>1, <2>4
    <3>2. f[j + 1] = SubSeq(s, 1, c)
      BY <2>1, <2>3, <2>4, <3>1
    <3> QED
      BY <2>2, <3>2
  <2>5. CASE j # 0
    <3>1. f[j] = SubSeq(s, 1, a) /\ j + 1 # 1
      BY <1>5, <2>1, <2>5
    <3> HIDE DEF c
    <3>2. 1 \in 1..Len(s) + 1 /\ a \in 1 - 1..Len(s) /\ c \in a..Len(s)
      BY <1>1, <2>1
    <3>3. SubSeq(s, 1, a) \o SubSeq(s, a + 1, c) = SubSeq(s, 1, c)
      BY <3>2, ConcatAdjacentSubSeq
    <3>4. f[j + 1] = SubSeq(s, 1, c)
      BY <2>1, <2>3, <3>1, <3>3
    <3> QED
      BY <2>2, <3>4 DEF c
  <2> QED
    BY <2>4, <2>5
<1>6. k \in Good
  <2> HIDE DEF Good
  <2>1. \A j \in 0..k : j < k /\ j \in Good => j + 1 \in Good
    BY <1>5
  <2>2. \A j \in 0..k : j \in Good
    BY <1>4, <2>1, CountingUp
  <2> QED
    BY <2>2
<1>7. cut(k) = L
  <2>1. PICK p \in Nat : p = k * q
    OBVIOUS
  <2> QED
    BY <1>1, <2>1
<1>8. f[k] = SubSeq(s, 1, L)
  BY <1>6, <1>7
<1> QED
  BY <1>1, <1>2, <1>8, SubSeqFull
=============================================================================
