-------------------------- MODULE JiraImportProofs --------------------------
(***************************************************************************)
(* Proofs about JiraImport: types, what an import leaves alone, that a     *)
(* repeated import changes nothing and that the codes of a row belong      *)
(* together.                                                               *)
(*                                                                         *)
(* All rest on what the lines in memory are: the lines that were read,     *)
(* header extended, with the codes of some outcome of Search filled into   *)
(* those already matched (Computed).                                       *)
(***************************************************************************)
EXTENDS JiraImport, SeqFacts, SequenceTheorems, TLAPS

InHand == phase \in {"insts", "yays", "rows", "write", "tmp", "rename"}

(* TypeOK, with what a run holds at which point of it. *)
Typed ==
  /\ TypeOK
  /\ importedWith \in (Databases \X Databases) \cup {<<>>}
  /\ Len(rows) \in Nat
  /\ InHand => IsSheet(input) /\ IsSheet(rows) /\ next >= 2
  /\ phase \in {"write", "tmp", "rename"} => next > Len(rows) /\ ~dryRun
  /\ phase \in {"insts", "yays"} => next = 2
  /\ phase = "rename" => tmp[Target] = rows

(* new is what a run with these tables may make of old. *)
Found(insts, yays, row, header) == Search(insts, yays, SummaryOf(Padded(row, header), header))
Made(new, old, header, insts, yays) ==
  \E codes \in Found(insts, yays, old, header) : new = Filled(old, header, codes)

(* The rows before n are made, the others still as they were read. *)
MadeRows(new, old, n, insts, yays) ==
  /\ new[1] = Extended(old[1])
  /\ \A r \in 2..Len(new) : IF r < n THEN Made(new[r], old[r], new[1], insts, yays)
                            ELSE new[r] = old[r]

(* What the lines in memory are. *)
Computed == InHand => MadeRows(rows, input, next, instDb.inst, yayDb.yay)

(* A sheet that these tables leave as it is. *)
Fixed(row, header, insts, yays) ==
  \A codes \in Found(insts, yays, row, header) : Filled(row, header, codes) = row

(* So does another import: it finds the columns there and every row done. *)
Settled(sheet, insts, yays) ==
  /\ Extended(sheet[1]) = sheet[1]
  /\ \A r \in 2..Len(sheet) : Fixed(sheet[r], sheet[1], insts, yays)

(* The sheet that was imported is a fixed point of its tables. *)
ImportSettles ==
  importedWith # <<>> =>
    (Apart(file["csv"][1]) /\ Determined(importedWith[1].inst, importedWith[2].yay)
     => Settled(file["csv"], importedWith[1].inst, importedWith[2].yay))

(* The conclusion of PairsMatch. *)
Paired(sheet, insts) ==
  \A r \in 2..Len(sheet) :
    Belong(sheet[r][CodeCol(sheet[1], "npsp")], sheet[r][CodeCol(sheet[1], "npyp")], insts)

(* As long as neither the database nor a summary changes. *)
Undisturbed == changes = 0 /\ edits = 0

(* Then all tables are one, a run holds what is in the file, and the codes  *)
(* of an imported sheet belong together; one whose summaries would stand    *)
(* among its codes never gets any.                                          *)
PairsHold ==
  Undisturbed =>
    /\ instDb = db /\ yayDb = db
    /\ InHand => input = file["csv"]
    /\ importedWith = <<>> => file["csv"] = start
    /\ importedWith # <<>> => importedWith = <<db, db>>
    /\ importedWith # <<>> /\ WithoutCodes(start) /\ Determined(db.inst, db.yay)
       => Paired(file["csv"], db.inst)
    /\ WithoutCodes(start) /\ ~Apart(file["csv"][1]) => WithoutCodes(file["csv"])

-----------------------------------------------------------------------------
(* Lists: sequences over their own elements. *)

LEMMA ListFacts ==
  ASSUME NEW s, IsList(s)
  PROVE  /\ Len(s) \in Nat /\ DOMAIN s = 1..Len(s) /\ s = [i \in 1..Len(s) |-> s[i]]
         /\ s # <<>> => Len(s) >= 1
<1>1. Len(s) \in Nat /\ DOMAIN s = 1..Len(s) /\ s \in [1..Len(s) -> ToSet(s)]
  BY LenProperties DEF IsList
<1>2. s # <<>> => Len(s) \in Nat \ {0}
  BY EmptySeq DEF IsList
<1> QED
  BY <1>1, <1>2

LEMMA MakeList ==
  ASSUME NEW n \in Nat, NEW f, f = [i \in 1..n |-> f[i]]
  PROVE  IsList(f) /\ Len(f) = n /\ DOMAIN f = 1..n
<1>1. DOMAIN f = 1..n
  BY Zenon
<1>2. f \in [1..n -> ToSet(f)]
  BY <1>1 DEF ToSet
<1>3. f \in Seq(ToSet(f))
  BY <1>2, SeqDef
<1> QED
  BY <1>1, <1>2, <1>3, LenProperties DEF IsList

(* Lists of one length with the same elements are one. *)
LEMMA SameList ==
  ASSUME NEW s, NEW t, IsList(s), IsList(t), Len(s) = Len(t), \A i \in 1..Len(s) : s[i] = t[i]
  PROVE  s = t
<1>1. s = [i \in 1..Len(s) |-> s[i]] /\ t = [i \in 1..Len(s) |-> t[i]]
  BY ListFacts
<1> QED
  BY <1>1, Zenon

LEMMA SetElement ==
  ASSUME NEW s, IsList(s), NEW i \in 1..Len(s), NEW e
  PROVE  LET t == [s EXCEPT ![i] = e] IN
         IsList(t) /\ Len(t) = Len(s) /\ \A j \in 1..Len(s) : t[j] = IF j = i THEN e ELSE s[j]
<1> DEFINE t == [s EXCEPT ![i] = e]
<1>1. Len(s) \in Nat /\ DOMAIN s = 1..Len(s)
  BY ListFacts
<1>2. t = [j \in 1..Len(s) |-> t[j]]
  BY <1>1
<1>3. \A j \in 1..Len(s) : t[j] = IF j = i THEN e ELSE s[j]
  BY <1>1
<1> HIDE DEF t
<1>4. IsList(t) /\ Len(t) = Len(s)
  BY <1>1, <1>2, MakeList
<1> QED
  BY <1>3, <1>4 DEF t

LEMMA MaxOfTwo ==
  ASSUME NEW a \in Nat, NEW b \in Nat
  PROVE  Max({a, b}) = IF a >= b THEN a ELSE b
BY DEF Max

(* Columns are numbers up to the length of the header. *)
LEMMA Extremes ==
  ASSUME NEW n \in Nat, NEW T \in SUBSET (1..n), T # {}
  PROVE  /\ Max(T) \in T /\ \A y \in T : y <= Max(T)
         /\ Min(T) \in T /\ \A y \in T : Min(T) <= y
<1>1. \E x \in T : \A y \in T : x <= y
  BY LeastNumber
<1> DEFINE B == {n - y : y \in T}
<1>2. B \in SUBSET Nat /\ B # {}
  <2>1. \A y \in T : n - y \in Nat
    OBVIOUS
  <2>2. PICK y \in T : TRUE
    OBVIOUS
  <2>3. n - y \in B
    BY <2>2
  <2> QED
    BY <2>1, <2>3
<1>3. PICK b \in B : \A y \in B : b <= y
  <2> HIDE DEF B
  <2> QED
    BY <1>2, LeastNumber
<1>4. \E x \in T : \A y \in T : x >= y
  <2>1. PICK x \in T : b = n - x
    BY <1>3
  <2>2. \A y \in T : n - x <= n - y
    BY <1>3, <2>1
  <2>3. \A y \in T : x >= y
    <3>1. x \in 1..n /\ \A y \in T : y \in 1..n
      OBVIOUS
    <3> QED
      BY <2>2, <3>1
  <2> QED
    BY <2>3
<1> QED
  BY <1>1, <1>4 DEF Max, Min
-----------------------------------------------------------------------------
(* Headers. *)

Header == Seq(Kinds) \ {<<>>}

(* e is h with columns of the kinds in K, which it lacked, appended. *)
Extends(e, h, K) ==
  /\ e \in Header /\ Len(h) <= Len(e)
  /\ \A i \in 1..Len(h) : e[i] = h[i]
  /\ \A i \in Len(h) + 1..Len(e) : e[i] \in K /\ Columns(h, e[i]) = {}

LEMMA HeaderLen ==
  ASSUME NEW h \in Header
  PROVE  /\ Len(h) \in Nat \ {0} /\ DOMAIN h = 1..Len(h)
         /\ \A i \in 1..Len(h) : h[i] \in Kinds
         /\ \A k : Columns(h, k) \in SUBSET (1..Len(h))
BY EmptySeq, LenProperties, ElementOfSeq DEF Header, Columns

LEMMA WithKind ==
  ASSUME NEW h \in Header, NEW k \in Kinds
  PROVE  /\ Extends(With(h, k), h, {k}) /\ Len(With(h, k)) <= Len(h) + 1
         /\ Columns(With(h, k), k) # {}
<1>1. h \in Seq(Kinds) /\ Len(h) \in Nat \ {0}
  BY HeaderLen DEF Header
<1>2. CASE Columns(h, k) # {}
  <2>1. With(h, k) = h
    BY <1>2 DEF With
  <2> QED
    BY <1>1, <1>2, <2>1 DEF Extends
<1>3. CASE Columns(h, k) = {}
  <2> DEFINE e == Append(h, k)
  <2>1. /\ e \in Header /\ Len(e) = Len(h) + 1 /\ e[Len(h) + 1] = k
        /\ \A i \in 1..Len(h) : e[i] = h[i]
    BY <1>1, AppendProperties DEF Header
  <2>2. With(h, k) = e
    BY <1>3 DEF With
  <2> HIDE DEF e
  <2>3. Len(h) + 1 \in Columns(e, k)
    BY <1>1, <2>1, HeaderLen DEF Columns
  <2>4. \A i \in Len(h) + 1..Len(e) : i = Len(h) + 1
    BY <1>1, <2>1
  <2> QED
    BY <1>1, <1>3, <2>1, <2>2, <2>3, <2>4 DEF Extends
<1> QED
  BY <1>2, <1>3
(* The header that is written. *)
LEMMA ExtendedHeader ==
  ASSUME NEW h \in Header
  PROVE  /\ Extends(Extended(h), h, {"npyp", "npsp"}) /\ Len(Extended(h)) <= Len(h) + 2
         /\ Columns(Extended(h), "npyp") # {} /\ Columns(Extended(h), "npsp") # {}
<1>2. PICK w : w = With(h, "npyp")
  OBVIOUS
<1>3. /\ Extends(w, h, {"npyp"}) /\ Len(w) <= Len(h) + 1 /\ Columns(w, "npyp") # {}
      /\ w \in Header
  <2>1. "npyp" \in Kinds
    BY DEF Kinds
  <2>2. Extends(w, h, {"npyp"}) /\ Len(w) <= Len(h) + 1 /\ Columns(w, "npyp") # {}
    BY <1>2, <2>1, WithKind
  <2> QED
    BY <2>2 DEF Extends
<1>4. PICK e : e = With(w, "npsp") /\ e = Extended(h)
  BY <1>2 DEF Extended
<1>5. Extends(e, w, {"npsp"}) /\ Len(e) <= Len(w) + 1 /\ Columns(e, "npsp") # {} /\ e \in Header
  <2>1. "npsp" \in Kinds
    BY DEF Kinds
  <2>2. Extends(e, w, {"npsp"}) /\ Len(e) <= Len(w) + 1 /\ Columns(e, "npsp") # {}
    BY <1>3, <1>4, <2>1, WithKind
  <2> QED
    BY <2>2 DEF Extends
<1>6. /\ Len(h) \in Nat /\ Len(w) \in Nat /\ Len(e) \in Nat
      /\ DOMAIN h = 1..Len(h) /\ DOMAIN w = 1..Len(w) /\ DOMAIN e = 1..Len(e)
  BY <1>3, <1>5, HeaderLen
<1>7. Len(h) <= Len(w) /\ Len(w) <= Len(e) /\ Len(e) <= Len(h) + 2
  BY <1>3, <1>5, <1>6 DEF Extends
<1>8. \A i \in 1..Len(h) : i \in 1..Len(w) /\ w[i] = h[i] /\ e[i] = h[i]
  BY <1>3, <1>5, <1>6, <1>7 DEF Extends
<1>9. ASSUME NEW i \in Len(h) + 1..Len(e)
      PROVE  e[i] \in {"npyp", "npsp"} /\ Columns(h, e[i]) = {}
  <2>1. CASE i <= Len(w)
    <3>1. i \in 1..Len(w) /\ i \in Len(h) + 1..Len(w)
      BY <1>6, <2>1
    <3> QED
      BY <1>3, <1>5, <3>1 DEF Extends
  <2>2. CASE i > Len(w)
    <3>1. i \in Len(w) + 1..Len(e)
      BY <1>6, <2>2
    <3>2. e[i] = "npsp" /\ Columns(w, "npsp") = {}
      BY <1>5, <3>1 DEF Extends
    <3>3. Columns(h, "npsp") \subseteq Columns(w, "npsp")
      <4>1. \A j \in DOMAIN h : j \in DOMAIN w /\ w[j] = h[j]
        BY <1>6, <1>8
      <4> QED
        BY <4>1 DEF Columns
    <3> QED
      BY <3>2, <3>3
  <2> QED
    BY <1>6, <2>1, <2>2
<1>10. Columns(e, "npyp") # {}
  <2>1. PICK i \in 1..Len(w) : w[i] = "npyp"
    BY <1>3, <1>6 DEF Columns
  <2>2. i \in 1..Len(e) /\ e[i] = "npyp"
    BY <1>5, <1>6, <1>7, <2>1 DEF Extends
  <2> QED
    BY <1>6, <2>2 DEF Columns
<1>11. Len(h) <= Len(e)
  BY <1>6, <1>7
<1>12. Extends(e, h, {"npyp", "npsp"})
  BY <1>5, <1>8, <1>9, <1>11 DEF Extends
<1> QED
  BY <1>4, <1>5, <1>7, <1>10, <1>12

(* Which columns count in it. *)
LEMMA ColumnsOfExtended ==
  ASSUME NEW h \in Header, NEW e, e = Extended(h)
  PROVE  /\ SummaryCol(e) = SummaryCol(h) /\ SummaryCol(h) \in 1..Len(h)
         /\ \A k \in {"npyp", "npsp"} :
              /\ CodeCol(e, k) \in 1..Len(e) /\ e[CodeCol(e, k)] = k
              /\ IF Columns(h, k) = {} THEN CodeCol(e, k) > Len(h)
                 ELSE CodeCol(e, k) = CodeCol(h, k)
         /\ CodeCols(e) = {CodeCol(e, "npyp"), CodeCol(e, "npsp")}
         /\ \A c \in 1..Len(h) : c \notin CodeCols(h) => c \notin CodeCols(e)
<1>1. /\ Extends(e, h, {"npyp", "npsp"}) /\ e \in Header
      /\ Columns(e, "npyp") # {} /\ Columns(e, "npsp") # {}
  BY ExtendedHeader DEF Extends
<1>2. /\ Len(h) \in Nat \ {0} /\ Len(e) \in Nat
      /\ DOMAIN h = 1..Len(h) /\ DOMAIN e = 1..Len(e)
      /\ \A k : Columns(h, k) \in SUBSET (1..Len(h)) /\ Columns(e, k) \in SUBSET (1..Len(e))
  BY <1>1, HeaderLen
<1>3. /\ \A i \in 1..Len(h) : i \in 1..Len(e) /\ e[i] = h[i]
      /\ \A i \in 1..Len(e) : i \in 1..Len(h) \/ (e[i] \in {"npyp", "npsp"} /\ Columns(h, e[i]) = {})
  <2>1. Len(h) <= Len(e) /\ \A i \in 1..Len(h) : e[i] = h[i]
    BY <1>1 DEF Extends
  <2>2. \A i \in Len(h) + 1..Len(e) : e[i] \in {"npyp", "npsp"} /\ Columns(h, e[i]) = {}
    BY <1>1 DEF Extends
  <2>3. \A i \in 1..Len(e) : i \in 1..Len(h) \/ i \in Len(h) + 1..Len(e)
    BY <1>2
  <2>4. \A i \in 1..Len(h) : i \in 1..Len(e)
    BY <1>2, <2>1
  <2> QED
    BY <2>1, <2>2, <2>3, <2>4
<1>4. ASSUME NEW k, k \notin {"npyp", "npsp"} \/ Columns(h, k) # {}
      PROVE  Columns(e, k) = Columns(h, k)
  <2>1. \A i \in 1..Len(e) : e[i] = k => i \in 1..Len(h)
    BY <1>3, <1>4
  <2> QED
    BY <1>2, <1>3, <2>1 DEF Columns
<1>5. SummaryCol(e) = SummaryCol(h) /\ SummaryCol(h) \in 1..Len(h)
  <2>1. Columns(e, "summary") = Columns(h, "summary")
    BY <1>4
  <2> DEFINE T == Columns(h, "summary") \cup (IF Columns(h, "summary") = {} THEN {1} ELSE {})
  <2>2. T \in SUBSET (1..Len(h)) /\ T # {}
    BY <1>2
  <2>3. Min(T) \in T
    <3> HIDE DEF T
    <3> QED
      BY <1>2, <2>2, Extremes
  <2> QED
    BY <2>1, <2>2, <2>3 DEF SummaryCol
<1>6. ASSUME NEW k \in {"npyp", "npsp"}
      PROVE  /\ CodeCol(e, k) \in Columns(e, k)
             /\ IF Columns(h, k) = {} THEN CodeCol(e, k) > Len(h)
                ELSE CodeCol(e, k) = CodeCol(h, k) /\ CodeCol(h, k) \in Columns(h, k)
  <2>1. Columns(e, k) # {} /\ Columns(e, k) \in SUBSET (1..Len(e))
    BY <1>1, <1>2
  <2>2. CodeCol(e, k) \in Columns(e, k)
    BY <1>2, <2>1, Extremes DEF CodeCol
  <2>3. CASE Columns(h, k) = {}
    <3>1. PICK c \in 1..Len(e) : c = CodeCol(e, k) /\ e[c] = k
      BY <2>1, <2>2 DEF Columns
    <3>2. c \notin 1..Len(h)
      BY <1>2, <1>3, <2>3, <3>1 DEF Columns
    <3>3. c > Len(h)
      BY <1>2, <3>2
    <3> QED
      BY <2>2, <2>3, <3>1, <3>3
  <2>4. CASE Columns(h, k) # {}
    BY <1>4, <2>2, <2>4 DEF CodeCol
  <2> QED
    BY <2>3, <2>4
<1>7. \A k \in {"npyp", "npsp"} : CodeCol(e, k) \in 1..Len(e) /\ e[CodeCol(e, k)] = k
  BY <1>2, <1>6 DEF Columns
<1>8. CodeCols(e) = {CodeCol(e, "npyp"), CodeCol(e, "npsp")}
  BY <1>1 DEF CodeCols
<1>9. ASSUME NEW c \in 1..Len(h), c \notin CodeCols(h), NEW k \in {"npyp", "npsp"}
      PROVE  c # CodeCol(e, k)
  <2>1. CASE Columns(h, k) = {}
    <3>1. PICK n \in 1..Len(e) : n = CodeCol(e, k)
      BY <1>7
    <3>2. n > Len(h)
      BY <1>6, <2>1, <3>1
    <3> QED
      BY <1>2, <3>1, <3>2
  <2>2. CASE Columns(h, k) # {}
    BY <1>6, <1>9, <2>2 DEF CodeCols
  <2> QED
    BY <2>1, <2>2
<1> QED
  BY <1>5, <1>6, <1>7, <1>8, <1>9

(* A header is extended once. *)
LEMMA ExtendedOnce ==
  ASSUME NEW h \in Header
  PROVE  Extended(Extended(h)) = Extended(h)
BY ExtendedHeader DEF Extended, With-----------------------------------------------------------------------------
(* Rows. *)

Pads(p, row) == \A c \in 1..Len(p) : p[c] = IF c <= Len(row) THEN row[c] ELSE Empty

LEMMA PaddedRow ==
  ASSUME NEW row, IsList(row), NEW e \in Header, NEW p, p = Padded(row, e)
  PROVE  /\ IsList(p) /\ DOMAIN p = 1..Len(p)
         /\ Len(p) = IF Len(row) >= Len(e) THEN Len(row) ELSE Len(e)
         /\ Pads(p, row)
         /\ Len(row) >= Len(e) => p = row
<1>1. Len(row) \in Nat /\ Len(e) \in Nat
  BY ListFacts, HeaderLen
<1>2. PICK n \in Nat : n = IF Len(row) >= Len(e) THEN Len(row) ELSE Len(e)
  BY <1>1
<1>3. Max({Len(row), Len(e)}) = n
  BY <1>1, <1>2, MaxOfTwo
<1>4. p = [c \in 1..n |-> IF c <= Len(row) THEN row[c] ELSE Empty]
  BY <1>3 DEF Padded
<1>5. p = [c \in 1..n |-> p[c]]
  BY <1>4
<1>6. IsList(p) /\ Len(p) = n /\ DOMAIN p = 1..n
  BY <1>2, <1>5, MakeList
<1>7. \A c \in 1..Len(p) : p[c] = IF c <= Len(row) THEN row[c] ELSE Empty
  BY <1>4, <1>6
<1>8. ASSUME Len(row) >= Len(e)
      PROVE  p = row
  <2>1. Len(p) = Len(row)
    BY <1>2, <1>6, <1>8
  <2>2. \A c \in 1..Len(p) : p[c] = row[c]
    BY <1>1, <1>7, <2>1
  <2> QED
    BY <1>6, <2>1, <2>2, SameList
<1> QED
  BY <1>2, <1>6, <1>7, <1>8 DEF Pads

(* What is written into a padded row. *)
Gets(new, p, e, codes) ==
  /\ IsList(new) /\ Len(new) = Len(p)
  /\ \A c \in 1..Len(new) :
       new[c] = IF codes.npsp # Empty /\ c = CodeCol(e, "npsp") THEN codes.npsp
                ELSE IF codes.npyp # Empty /\ c = CodeCol(e, "npyp") THEN codes.npyp
                ELSE p[c]

LEMMA FilledRow ==
  ASSUME NEW row, IsList(row), NEW e \in Header, NEW codes
  PROVE  /\ Gets(Filled(row, e, codes), Padded(row, e), e, codes)
         /\ IsList(Filled(row, e, codes)) /\ Len(Filled(row, e, codes)) = Len(Padded(row, e))
         /\ Len(Filled(row, e, codes)) >= Len(e) /\ Len(Filled(row, e, codes)) >= Len(row)
<1> PICK new, p : new = Filled(row, e, codes) /\ p = Padded(row, e)
  OBVIOUS
<1>1. /\ Len(row) \in Nat /\ Len(e) \in Nat
      /\ IsList(p) /\ DOMAIN p = 1..Len(p)
      /\ Len(p) = IF Len(row) >= Len(e) THEN Len(row) ELSE Len(e)
  BY ListFacts, HeaderLen, PaddedRow
<1>2. new = [c \in 1..Len(p) |-> IF codes.npsp # Empty /\ c = CodeCol(e, "npsp") THEN codes.npsp
                                 ELSE IF codes.npyp # Empty /\ c = CodeCol(e, "npyp") THEN codes.npyp
                                 ELSE p[c]]
  BY <1>1 DEF Filled
<1>3. new = [c \in 1..Len(p) |-> new[c]]
  BY <1>2
<1>4. IsList(new) /\ Len(new) = Len(p)
  BY <1>1, <1>3, MakeList
<1>5. Len(p) >= Len(e) /\ Len(p) >= Len(row)
  BY <1>1
<1>6. Gets(new, p, e, codes)
  BY <1>2, <1>4 DEF Gets
<1> QED
  BY <1>4, <1>5, <1>6

(* A header that is extended already. *)
Wide(e) == e \in Header /\ Extended(e) = e

LEMMA WideColumns ==
  ASSUME NEW e, Wide(e)
  PROVE  /\ Len(e) \in Nat /\ SummaryCol(e) \in 1..Len(e)
         /\ CodeCol(e, "npyp") \in 1..Len(e) /\ CodeCol(e, "npsp") \in 1..Len(e)
         /\ CodeCol(e, "npyp") # CodeCol(e, "npsp")
         /\ CodeCols(e) = {CodeCol(e, "npyp"), CodeCol(e, "npsp")}
<1>1. e \in Header /\ e = Extended(e)
  BY DEF Wide
<1>2. /\ SummaryCol(e) \in 1..Len(e)
      /\ \A k \in {"npyp", "npsp"} : CodeCol(e, k) \in 1..Len(e) /\ e[CodeCol(e, k)] = k
      /\ CodeCols(e) = {CodeCol(e, "npyp"), CodeCol(e, "npsp")}
  BY <1>1, ColumnsOfExtended
<1>3. "npyp" # "npsp"
  OBVIOUS
<1> QED
  BY <1>1, <1>2, <1>3, HeaderLen

-----------------------------------------------------------------------------
(* Search. *)

LEMMA SearchDetermined ==
  ASSUME NEW insts, NEW yays, Determined(insts, yays), NEW s,
         NEW a \in Search(insts, yays, s), NEW b \in Search(insts, yays, s)
  PROVE  a = b
<1>1. CASE s \in Summaries
  BY <1>1 DEF Determined
<1>2. CASE s \notin Summaries
  <2>1. Search(insts, yays, s) = {Codes(Empty, Empty)}
    BY <1>2 DEF Search
  <2> QED
    BY <2>1
<1> QED
  BY <1>1, <1>2

(* The codes of one outcome belong together. *)
LEMMA SearchBelongs ==
  ASSUME NEW d \in Databases, NEW yays, NEW s, NEW codes \in Search(d.inst, yays, s)
  PROVE  Belong(codes.npsp, codes.npyp, d.inst)
<1>1. CASE codes = Codes(Empty, Empty)
  BY <1>1 DEF Codes, Belong
<1>2. CASE codes # Codes(Empty, Empty)
  <2>1. s \in Summaries
    BY <1>2 DEF Search
  <2>2. PICK i \in Bests(d.inst, s), y \in Bests(yays, s) : codes = Result(d.inst, yays, s, i, y)
    BY <1>2 DEF Search
  <2>3. CASE codes.npsp = Empty
    BY <2>3 DEF Belong
  <2>4. CASE codes.npsp # Empty
    <3>1. Passes(d.inst, s, i) /\ codes = Codes(d.inst.npsn[i], d.inst.npyp[i])
      BY <1>2, <2>2, <2>4 DEF Result, Codes
    <3>2. codes.npsp = d.inst.npsn[i] /\ codes.npyp = d.inst.npyp[i]
      BY <3>1 DEF Codes
    <3>3. i # NoRecord
      BY <3>1 DEF Passes
    <3>4. PICK top \in Shortlists(d.inst.hits[s]) : i \in Firsts(top, d.inst.hits[s], d.inst.score[s])
      BY <2>2 DEF Bests
    <3>5. i \in top
      BY <3>3, <3>4 DEF Firsts
    <3>6. i \in DOMAIN d.inst.hits[s]
      BY <3>4, <3>5 DEF Shortlists
    <3>7. i \in DOMAIN d.inst.npsn
      BY <2>1, <3>6, ImportAssumption
    <3> QED
      BY <3>2, <3>7 DEF Belong
  <2> QED
    BY <2>3, <2>4
<1> QED
  BY <1>1, <1>2
-----------------------------------------------------------------------------
(* What an import makes of a row, with the header extended. *)

(* Only the code columns change. *)
LEMMA KeepsCells ==
  ASSUME NEW row, IsList(row), NEW e, Wide(e), NEW codes, NEW c \in 1..Len(row), c \notin CodeCols(e)
  PROVE  Filled(row, e, codes)[c] = row[c]
<1>1. PICK new, p : new = Filled(row, e, codes) /\ p = Padded(row, e)
  OBVIOUS
<1>2. e \in Header /\ c # CodeCol(e, "npsp") /\ c # CodeCol(e, "npyp") /\ Len(row) \in Nat
  BY WideColumns, ListFacts DEF Wide
<1>3. Gets(new, p, e, codes) /\ IsList(new) /\ Len(new) = Len(p) /\ Len(new) >= Len(row)
  BY <1>1, <1>2, FilledRow
<1>4. Len(new) \in Nat
  BY <1>3, ListFacts
<1>5. c \in 1..Len(new) /\ c <= Len(row)
  BY <1>2, <1>3, <1>4
<1>6. new[c] = p[c]
  BY <1>2, <1>3, <1>5 DEF Gets
<1>7. p[c] = row[c]
  <2>1. Pads(p, row)
    BY <1>1, <1>2, PaddedRow
  <2> QED
    BY <1>3, <1>5, <2>1 DEF Pads
<1> QED
  BY <1>1, <1>6, <1>7

(* Without ties, and with codes and summaries apart, it is what the next    *)
(* import makes of it.                                                      *)
LEMMA MadeIsFixed ==
  ASSUME NEW row, IsList(row), NEW e, Wide(e), Apart(e), NEW insts, NEW yays,
         Determined(insts, yays), NEW new, Made(new, row, e, insts, yays)
  PROVE  Fixed(new, e, insts, yays)
<1>1. PICK codes \in Found(insts, yays, row, e) : new = Filled(row, e, codes)
  BY DEF Made
<1>2. PICK p : p = Padded(row, e)
  OBVIOUS
<1>3. e \in Header /\ SummaryCol(e) \in 1..Len(e) /\ Len(e) \in Nat
  BY WideColumns DEF Wide
<1>4. Gets(new, p, e, codes) /\ IsList(new) /\ Len(new) = Len(p) /\ Len(new) >= Len(e)
  BY <1>1, <1>2, <1>3, FilledRow
<1>5. Padded(new, e) = new /\ Len(new) \in Nat
  BY <1>3, <1>4, PaddedRow, ListFacts
<1>6. new[SummaryCol(e)] = p[SummaryCol(e)]
  <2>1. SummaryCol(e) # CodeCol(e, "npsp") /\ SummaryCol(e) # CodeCol(e, "npyp")
    BY WideColumns DEF Apart
  <2>2. SummaryCol(e) \in 1..Len(new)
    BY <1>3, <1>4, <1>5
  <2> QED
    BY <1>4, <2>1, <2>2 DEF Gets
<1>7. Found(insts, yays, new, e) = Found(insts, yays, row, e)
  BY <1>2, <1>5, <1>6 DEF Found, SummaryOf
<1>8. ASSUME NEW again \in Found(insts, yays, new, e)
      PROVE  Filled(new, e, again) = new
  <2>1. again = codes
    BY <1>7, <1>8, SearchDetermined DEF Found
  <2>2. PICK f : f = Filled(new, e, codes)
    OBVIOUS
  <2>3. Gets(f, new, e, codes) /\ IsList(f) /\ Len(f) = Len(new)
    BY <1>3, <1>4, <1>5, <2>2, FilledRow
  <2>4. \A c \in 1..Len(f) : f[c] = new[c]
    BY <1>4, <2>3 DEF Gets
  <2> QED
    BY <1>4, <2>1, <2>2, <2>3, <2>4, SameList
<1> QED
  BY <1>8 DEF Fixed
(* A row that has no code and is not longer than its header. *)
Codeless(row, h) == Len(row) <= Len(h) /\ \A c \in CodeCols(h) \cap DOMAIN row : row[c] = Empty

(* Padded, its cells in the code columns are empty. *)
LEMMA CodelessPadded ==
  ASSUME NEW row, IsList(row), NEW h \in Header, Codeless(row, h),
         NEW e, e = Extended(h), NEW p, p = Padded(row, e)
  PROVE  /\ e \in Header /\ Wide(e) /\ Len(p) = Len(e)
         /\ \A k \in {"npyp", "npsp"} : CodeCol(e, k) \in 1..Len(p) /\ p[CodeCol(e, k)] = Empty
<1>1. e \in Header /\ Wide(e)
  <2>1. e \in Header
    BY ExtendedHeader DEF Extends
  <2> QED
    BY <2>1, ExtendedOnce DEF Wide
<1>2. /\ Len(h) \in Nat /\ Len(e) \in Nat /\ Len(h) <= Len(e)
      /\ Len(row) \in Nat /\ DOMAIN row = 1..Len(row)
  BY <1>1, HeaderLen, ExtendedHeader, ListFacts DEF Extends
<1>3. Pads(p, row) /\ Len(p) = Len(e)
  <2>1. Pads(p, row) /\ Len(p) = IF Len(row) >= Len(e) THEN Len(row) ELSE Len(e)
    BY <1>1, PaddedRow
  <2>2. Len(row) <= Len(e)
    BY <1>2 DEF Codeless
  <2> QED
    BY <1>2, <2>1, <2>2
<1>4. ASSUME NEW k \in {"npyp", "npsp"}
      PROVE  CodeCol(e, k) \in 1..Len(p) /\ p[CodeCol(e, k)] = Empty
  <2>1. PICK c \in 1..Len(e) : c = CodeCol(e, k)
    BY ColumnsOfExtended
  <2>2. IF Columns(h, k) = {} THEN c > Len(h) ELSE c = CodeCol(h, k)
    BY <2>1, ColumnsOfExtended
  <2>3. c > Len(row) \/ row[c] = Empty
    <3>1. CASE Columns(h, k) = {}
      BY <1>2, <2>2, <3>1 DEF Codeless
    <3>2. CASE Columns(h, k) # {} /\ c <= Len(row)
      <4>1. c \in CodeCols(h)
        BY <2>2, <3>2 DEF CodeCols
      <4>2. c \in DOMAIN row
        BY <1>2, <2>1, <3>2
      <4> QED
        BY <4>1, <4>2 DEF Codeless
    <3> QED
      BY <1>2, <2>1, <3>1, <3>2
  <2>4. p[c] = Empty
    BY <1>2, <1>3, <2>1, <2>3 DEF Pads
  <2> QED
    BY <1>3, <2>1, <2>4
<1> QED
  BY <1>1, <1>3, <1>4

(* In a row without codes the codes of one outcome come together.           *)
LEMMA MadeIsPaired ==
  ASSUME NEW row, IsList(row), NEW h \in Header, Codeless(row, h),
         NEW e, e = Extended(h), NEW d \in Databases, NEW yays, NEW new, Made(new, row, e, d.inst, yays)
  PROVE  Belong(new[CodeCol(e, "npsp")], new[CodeCol(e, "npyp")], d.inst)
<1>1. PICK codes \in Found(d.inst, yays, row, e) : new = Filled(row, e, codes)
  BY DEF Made
<1>2. PICK p : p = Padded(row, e)
  OBVIOUS
<1>3. /\ e \in Header /\ Wide(e)
      /\ \A k \in {"npyp", "npsp"} : CodeCol(e, k) \in 1..Len(p) /\ p[CodeCol(e, k)] = Empty
  BY <1>2, CodelessPadded
<1>4. Gets(new, p, e, codes) /\ Len(new) = Len(p)
  BY <1>1, <1>2, <1>3, FilledRow
<1>5. CodeCol(e, "npyp") # CodeCol(e, "npsp")
  BY <1>3, WideColumns
<1>6. new[CodeCol(e, "npsp")] = codes.npsp /\ new[CodeCol(e, "npyp")] = codes.npyp
  BY <1>3, <1>4, <1>5 DEF Gets
<1>7. Belong(codes.npsp, codes.npyp, d.inst)
  BY <1>1, SearchBelongs DEF Found
<1> QED
  BY <1>6, <1>7

(* If its summary is one of these cells, nothing is searched for: it stays  *)
(* without codes.                                                           *)
LEMMA MadeStaysCodeless ==
  ASSUME NEW row, IsList(row), NEW h \in Header, Codeless(row, h),
         NEW e, e = Extended(h), ~Apart(e), NEW insts, NEW yays, NEW new, Made(new, row, e, insts, yays)
  PROVE  Codeless(new, e)
<1>1. PICK codes \in Found(insts, yays, row, e) : new = Filled(row, e, codes)
  BY DEF Made
<1>2. PICK p : p = Padded(row, e)
  OBVIOUS
<1>3. /\ e \in Header /\ Wide(e) /\ Len(p) = Len(e)
      /\ \A k \in {"npyp", "npsp"} : CodeCol(e, k) \in 1..Len(p) /\ p[CodeCol(e, k)] = Empty
  BY <1>2, CodelessPadded
<1>4. CodeCols(e) = {CodeCol(e, "npyp"), CodeCol(e, "npsp")}
  BY <1>3, WideColumns
<1>5. SummaryOf(p, e) = Empty
  BY <1>3, <1>4 DEF Apart, SummaryOf
<1>6. codes = Codes(Empty, Empty)
  BY <1>1, <1>2, <1>5, ImportAssumption DEF Found, Search
<1>7. Gets(new, p, e, codes) /\ Len(new) = Len(p)
  BY <1>1, <1>2, <1>3, FilledRow
<1>8. \A c \in 1..Len(new) : new[c] = p[c]
  BY <1>6, <1>7 DEF Gets, Codes
<1>9. \A c \in CodeCols(e) : new[c] = Empty
  BY <1>3, <1>4, <1>7, <1>8
<1>10. Len(new) <= Len(e)
  BY <1>3, <1>7, HeaderLen
<1> QED
  BY <1>9, <1>10 DEF Codeless

(* The sheet as a whole. *)
LEMMA MadeIsSame ==
  ASSUME NEW old, IsSheet(old), NEW new, IsSheet(new), Len(new) = Len(old),
         new[1] = Extended(old[1]), NEW insts, NEW yays,
         \A r \in 2..Len(new) : Made(new[r], old[r], new[1], insts, yays) \/ new[r] = old[r]
  PROVE  SameSheet(new, old)
<1>1. PICK h \in Header, e \in Header : h = old[1] /\ e = new[1] /\ e = Extended(h)
  BY DEF IsSheet, Header
<1>2. /\ Len(h) \in Nat /\ Len(e) \in Nat /\ DOMAIN h = 1..Len(h)
      /\ Len(h) <= Len(e) /\ Len(e) <= Len(h) + 2 /\ \A i \in 1..Len(h) : e[i] = h[i]
  <2>1. Extends(e, h, {"npyp", "npsp"}) /\ Len(e) <= Len(h) + 2
    BY <1>1, ExtendedHeader
  <2> QED
    BY <2>1, HeaderLen DEF Extends
<1>3. IsPrefix(h, e)
  <2>1. h \in Seq(Kinds) /\ e \in Seq(Kinds)
    BY DEF Header
  <2>2. 1 \in Int /\ Len(h) \in Int
    BY <1>2
  <2>3. \A i \in 1..Len(h) : h[i] \in Kinds /\ e[i] \in Kinds
    BY <1>2, HeaderLen
  <2> DEFINE a == SubSeq(h, 1, Len(h))
             b == SubSeq(e, 1, Len(h))
  <2>4. /\ a \in Seq(Kinds) /\ Len(a) = IF 1 <= Len(h) THEN Len(h) - 1 + 1 ELSE 0
        /\ \A i \in 1..Len(h) - 1 + 1 : a[i] = h[1 + i - 1]
    BY <2>2, <2>3, SubSeqProperties
  <2>5. /\ b \in Seq(Kinds) /\ Len(b) = IF 1 <= Len(h) THEN Len(h) - 1 + 1 ELSE 0
        /\ \A i \in 1..Len(h) - 1 + 1 : b[i] = e[1 + i - 1]
    BY <2>2, <2>3, SubSeqProperties
  <2> HIDE DEF a, b
  <2>6. /\ a \in Seq(Kinds) /\ b \in Seq(Kinds) /\ Len(a) = Len(h) /\ Len(b) = Len(h)
        /\ \A i \in 1..Len(h) : a[i] = h[i] /\ b[i] = e[i]
    <3>1. Len(h) - 1 + 1 = Len(h) /\ Len(h) >= 1
      BY HeaderLen
    <3>2. \A i \in 1..Len(h) : 1 + i - 1 = i
      OBVIOUS
    <3> QED
      BY <2>4, <2>5, <3>1, <3>2
  <2>7. \A i \in 1..Len(a) : a[i] = b[i]
    BY <1>2, <2>6
  <2>8. a = b
    BY <2>6, <2>7, SeqEqual
  <2> QED
    BY <1>2, <2>8 DEF IsPrefix, a, b
<1>4. ASSUME NEW r \in 2..Len(old), NEW c \in DOMAIN h \ CodeCols(h), c \in DOMAIN old[r]
      PROVE  new[r][c] = old[r][c]
  <2>1. Len(old) \in Nat /\ DOMAIN old = 1..Len(old)
    BY ListFacts DEF IsSheet
  <2>2. IsList(old[r])
    BY <2>1 DEF IsSheet
  <2>3. c \in 1..Len(old[r]) /\ c \in 1..Len(h)
    BY <1>2, <1>4, <2>2, ListFacts
  <2>4. c \notin CodeCols(e) /\ Wide(e)
    BY <1>1, <1>4, <2>3, ColumnsOfExtended, ExtendedOnce DEF Wide
  <2>5. CASE Made(new[r], old[r], e, insts, yays)
    <3>1. PICK codes : new[r] = Filled(old[r], e, codes)
      BY <2>5 DEF Made
    <3> QED
      BY <2>2, <2>3, <2>4, <3>1, KeepsCells
  <2> QED
    BY <1>1, <2>5
<1> QED
  BY <1>1, <1>2, <1>3, <1>4 DEF SameSheet-----------------------------------------------------------------------------
(* Sheets. *)

LEMMA SheetFacts ==
  ASSUME NEW lines, IsSheet(lines)
  PROVE  /\ Len(lines) \in Nat /\ Len(lines) >= 1 /\ DOMAIN lines = 1..Len(lines)
         /\ lines[1] \in Header /\ \A r \in 1..Len(lines) : IsList(lines[r])
BY ListFacts DEF IsSheet, Header

OneRow(new, lines, r, row) == \A i \in 1..Len(lines) : new[i] = IF i = r THEN row ELSE lines[i]

LEMMA SheetWithRow ==
  ASSUME NEW lines, IsSheet(lines), NEW r \in 2..Len(lines), NEW row, IsList(row)
  PROVE  LET new == [lines EXCEPT ![r] = row] IN
         /\ IsSheet(new) /\ Len(new) = Len(lines) /\ new[1] = lines[1]
         /\ OneRow(new, lines, r, row)
<1> DEFINE new == [lines EXCEPT ![r] = row]
<1>1. /\ IsList(lines) /\ Len(lines) \in Nat /\ Len(lines) >= 1
      /\ lines[1] \in Header /\ \A i \in 1..Len(lines) : IsList(lines[i])
  BY SheetFacts DEF IsSheet
<1>2. r \in 1..Len(lines) /\ 1 \in 1..Len(lines) /\ r # 1
  BY <1>1
<1>3. /\ IsList(new) /\ Len(new) = Len(lines)
      /\ \A i \in 1..Len(lines) : new[i] = IF i = r THEN row ELSE lines[i]
  BY <1>1, <1>2, SetElement
<1> HIDE DEF new
<1>4. new[1] = lines[1] /\ \A i \in 1..Len(lines) : IsList(new[i])
  BY <1>1, <1>2, <1>3
<1>5. DOMAIN new = 1..Len(lines) /\ new # <<>>
  <2>1. DOMAIN new = 1..Len(lines)
    BY <1>3, ListFacts
  <2> QED
    BY <1>2, <2>1
<1>6. OneRow(new, lines, r, row)
  BY <1>3 DEF OneRow
<1> QED
  BY <1>1, <1>3, <1>4, <1>5, <1>6 DEF IsSheet, Header, new

(* What ReadSheet puts into memory. *)
LEMMA SheetRead ==
  ASSUME NEW lines, IsSheet(lines), NEW new, new = <<Extended(Head(lines))>> \o Tail(lines)
  PROVE  /\ IsSheet(new) /\ Len(new) = Len(lines) /\ new[1] = Extended(lines[1])
         /\ \A r \in 2..Len(lines) : new[r] = lines[r]
<1>1. /\ Len(lines) \in Nat /\ Len(lines) >= 1 /\ DOMAIN lines = 1..Len(lines)
      /\ lines[1] \in Header /\ \A r \in 1..Len(lines) : IsList(lines[r])
  BY SheetFacts
<1>2. PICK e \in Header : e = Extended(lines[1])
  BY <1>1, ExtendedHeader DEF Extends
<1> DEFINE S == ToSet(lines) \cup {e}
<1>3. PICK t \in Seq(S) : /\ t = Tail(lines) /\ Len(t) = Len(lines) - 1
                          /\ \A i \in 1..Len(t) : t[i] = lines[i + 1]
  <2>1. lines \in Seq(ToSet(lines)) /\ lines # <<>>
    BY DEF IsSheet, IsList
  <2>2. /\ Tail(lines) \in Seq(ToSet(lines)) /\ Len(Tail(lines)) = Len(lines) - 1
        /\ \A i \in 1..Len(Tail(lines)) : Tail(lines)[i] = lines[i + 1]
    BY <2>1, HeadTailProperties
  <2>3. ToSet(lines) \subseteq S
    OBVIOUS
  <2>4. Tail(lines) \in Seq(S)
    <3> HIDE DEF S
    <3> QED
      BY <2>2, <2>3, SeqMonotonic
  <2> QED
    BY <2>2, <2>4
<1>4. Head(lines) = lines[1]
  OBVIOUS
<1>5. PICK f \in Seq(S) : f = <<e>> /\ Len(f) = 1 /\ f[1] = e
  <2>1. e \in S
    OBVIOUS
  <2> HIDE DEF S
  <2>2. <<e>> \in Seq(S) /\ Len(<<e>>) = 1 /\ <<e>>[1] = e
    BY <2>1
  <2> QED
    BY <2>2
<1> HIDE DEF S
<1>6. /\ new \in Seq(S) /\ Len(new) = Len(f) + Len(t)
      /\ \A i \in 1..Len(f) + Len(t) : new[i] = IF i <= Len(f) THEN f[i] ELSE t[i - Len(f)]
  BY <1>2, <1>3, <1>4, <1>5, ConcatProperties
<1>7. Len(new) = Len(lines) /\ IsList(new)
  <2>1. Len(new) = Len(lines)
    BY <1>1, <1>3, <1>5, <1>6
  <2>2. new \in Seq(ToSet(new))
    BY <1>6, OwnRange
  <2> QED
    BY <2>1, <2>2 DEF IsList
<1>8. new[1] = e
  BY <1>1, <1>3, <1>5, <1>6
<1>9. ASSUME NEW r \in 2..Len(lines)
      PROVE  new[r] = lines[r]
  <2>1. PICK i \in 1..Len(t) : r = i + 1 /\ r - 1 = i /\ r \in 1..1 + Len(t) /\ ~(r <= 1)
    <3>1. r - 1 \in 1..Len(t)
      BY <1>1, <1>3
    <3> QED
      BY <1>1, <1>3, <3>1
  <2>2. new[r] = t[i]
    BY <1>5, <1>6, <2>1
  <2> QED
    BY <1>3, <2>1, <2>2
<1>10. DOMAIN new = 1..Len(lines)
  BY <1>7, ListFacts
<1>11. \A r \in 1..Len(lines) : IsList(new[r])
  <2>1. IsList(e)
    BY OwnRange DEF IsList, Header
  <2>2. \A r \in 1..Len(lines) : r = 1 \/ r \in 2..Len(lines)
    BY <1>1
  <2> QED
    BY <1>1, <1>8, <1>9, <2>1, <2>2
<1>12. new # <<>>
  BY <1>1, <1>10
<1> QED
  BY <1>2, <1>7, <1>8, <1>9, <1>10, <1>11, <1>12 DEF IsSheet, Header-----------------------------------------------------------------------------
(* Types. *)

LEMMA InitTyped == Init => Typed
<1> SUFFICES ASSUME Init
             PROVE  Typed
  OBVIOUS
<1>1. /\ DOMAIN file = Paths /\ DOMAIN tmp = Paths /\ file["csv"] = start /\ file["out"] = Absent
  BY DEF Init, Paths
<1>2. start \in Sheets /\ IsSheet(start) /\ start # Absent
  BY ImportAssumption DEF Init, IsSheet, Absent
<1>3. \A p \in Paths : file[p] # Absent => IsSheet(file[p])
  BY <1>1, <1>2 DEF Paths
<1>4. next \in 0..Len(rows) + 1 /\ Len(rows) = Len(input) /\ Len(rows) \in Nat
  BY DEF Init
<1>5. /\ launches \in 0..MaxLaunches /\ edits \in 0..MaxEdits
      /\ changes \in 0..MaxChanges /\ kills \in 0..MaxKills
  BY ImportAssumption DEF Init
<1>6. {db, instDb, yayDb} \subseteq Databases /\ phase = "down" /\ {inPlace, dryRun} \subseteq BOOLEAN
      /\ importedWith = <<>>
  BY DEF Init
<1>7. TypeOK
  BY <1>1, <1>2, <1>3, <1>4, <1>5, <1>6 DEF TypeOK
<1> QED
  BY <1>4, <1>6, <1>7 DEF Typed, InHand

(* What the bounds count. *)
CountsOK == /\ launches \in 0..MaxLaunches /\ edits \in 0..MaxEdits
            /\ changes \in 0..MaxChanges /\ kills \in 0..MaxKills

LEMMA CountsStep == TypeOK /\ [Next]_vars => CountsOK'
<1> SUFFICES ASSUME TypeOK, [Next]_vars
             PROVE  CountsOK'
  OBVIOUS
<1>1. CountsOK /\ MaxLaunches \in Nat /\ MaxEdits \in Nat /\ MaxChanges \in Nat /\ MaxKills \in Nat
  BY ImportAssumption DEF TypeOK, CountsOK
<1>2. CASE UNCHANGED bounds
  BY <1>1, <1>2 DEF CountsOK, bounds
<1>3. CASE Launch
  BY <1>1, <1>3 DEF CountsOK, Launch
<1>4. CASE Kill
  BY <1>1, <1>4 DEF CountsOK, Kill
<1>5. CASE EditSheet
  BY <1>1, <1>5 DEF CountsOK, EditSheet
<1>6. CASE ChangeDatabase
  BY <1>1, <1>6 DEF CountsOK, ChangeDatabase
<1> QED
  BY <1>2, <1>3, <1>4, <1>5, <1>6 DEF Next, vars, ReadSheet, LoadInstitutions, LoadYayasans,
     MatchRow, RowsDone, OpenTmp, WriteTmp, Rename, Fails, bounds

(* What the disk holds. *)
DiskOK == /\ start \in Sheets /\ DOMAIN file = Paths /\ DOMAIN tmp = Paths /\ file["csv"] # Absent
          /\ \A p \in Paths : file[p] # Absent => IsSheet(file[p])

(* What the program has in hand. *)
ProgramOK ==
  /\ {db, instDb, yayDb} \subseteq Databases
  /\ importedWith \in (Databases \X Databases) \cup {<<>>}
  /\ phase \in {"down", "read", "insts", "yays", "rows", "write", "tmp", "rename"}
  /\ {inPlace, dryRun} \subseteq BOOLEAN
  /\ next \in 0..Len(rows) + 1 /\ Len(rows) = Len(input) /\ Len(rows) \in Nat
  /\ InHand => IsSheet(input) /\ IsSheet(rows) /\ next >= 2
  /\ phase \in {"write", "tmp", "rename"} => next > Len(rows) /\ ~dryRun
  /\ phase \in {"insts", "yays"} => next = 2
  /\ phase = "rename" => tmp[Target] = rows

LEMMA TypedParts == Typed <=> DiskOK /\ ProgramOK /\ CountsOK
BY DEF Typed, TypeOK, DiskOK, ProgramOK, CountsOK

LEMMA TargetPath == Target \in Paths
BY DEF Target, Paths

LEMMA DiskStep == Typed /\ [Next]_vars => DiskOK'
<1> SUFFICES ASSUME Typed, [Next]_vars
             PROVE  DiskOK'
  OBVIOUS
<1>1. DiskOK /\ ProgramOK
  BY TypedParts
<1>2. CASE UNCHANGED disk
  BY <1>1, <1>2 DEF DiskOK, disk
<1>3. CASE OpenTmp \/ WriteTmp \/ Kill
  <2>1. UNCHANGED <<start, file>> /\ DOMAIN tmp' = DOMAIN tmp
    BY <1>3 DEF OpenTmp, WriteTmp, Kill
  <2> QED
    BY <1>1, <2>1 DEF DiskOK
<1>4. CASE Rename
  <2>1. phase = "rename" /\ file' = [file EXCEPT ![Target] = rows] /\ start' = start
        /\ DOMAIN tmp' = DOMAIN tmp
    BY <1>1, <1>4 DEF Rename, ProgramOK
  <2>2. IsSheet(rows) /\ rows # Absent
    BY <1>1, <2>1 DEF ProgramOK, InHand, IsSheet, Absent
  <2>3. \A p \in Paths : file'[p] = IF p = Target THEN rows ELSE file[p]
    BY <1>1, <2>1 DEF DiskOK
  <2>4. DOMAIN file' = Paths /\ "csv" \in Paths
    BY <1>1, <2>1 DEF DiskOK, Paths
  <2> QED
    BY <1>1, <2>1, <2>2, <2>3, <2>4 DEF DiskOK
<1>5. CASE EditSheet
  <2>1. PICK r, s, col, row :
          /\ r \in 2..Len(file["csv"]) /\ s \in Summaries
          /\ col \in DOMAIN file["csv"][r] /\ row = [file["csv"][r] EXCEPT ![col] = s]
          /\ file' = [file EXCEPT !["csv"] = [@ EXCEPT ![r] = row]] /\ UNCHANGED <<start, tmp>>
    BY <1>5 DEF EditSheet
  <2>2. PICK lines : lines = file["csv"] /\ IsSheet(lines) /\ "csv" \in Paths
    BY <1>1 DEF DiskOK, Paths
  <2>3. IsList(lines[r])
    <3>1. r \in 1..Len(lines)
      BY <2>1, <2>2, SheetFacts
    <3> QED
      BY <2>2, <3>1, SheetFacts
  <2>4. IsList(row)
    <3>1. col \in 1..Len(lines[r])
      BY <2>1, <2>2, <2>3, ListFacts
    <3> QED
      BY <2>1, <2>2, <2>3, <3>1, SetElement
  <2>5. PICK new : new = [lines EXCEPT ![r] = row] /\ IsSheet(new)
    BY <2>1, <2>2, <2>4, SheetWithRow
  <2>6. file' = [file EXCEPT !["csv"] = new]
    BY <2>1, <2>2, <2>5
  <2>7. DOMAIN file' = Paths /\ \A p \in Paths : file'[p] = IF p = "csv" THEN new ELSE file[p]
    <3>1. DOMAIN file = Paths
      BY <1>1 DEF DiskOK
    <3> QED
      BY <2>6, <3>1
  <2>8. new # Absent
    BY <2>5 DEF IsSheet, Absent
  <2> QED
    BY <1>1, <2>1, <2>2, <2>5, <2>7, <2>8 DEF DiskOK
<1> QED
  BY <1>2, <1>3, <1>4, <1>5 DEF Next, vars, Launch, ReadSheet, LoadInstitutions, LoadYayasans,
     MatchRow, RowsDone, Fails, ChangeDatabase
(* One row of the lines in memory is matched. *)
LEMMA RowMatched ==
  ASSUME Typed, MatchRow
  PROVE  /\ phase = "rows" /\ next \in 2..Len(rows) /\ next' = next + 1
         /\ UNCHANGED <<disk, db, phase, flags, input, instDb, yayDb, importedWith, bounds>>
         /\ IsSheet(rows) /\ IsSheet(rows') /\ Len(rows') = Len(rows) /\ rows'[1] = rows[1]
         /\ \A r \in 1..Len(rows) : r # next => rows'[r] = rows[r]
         /\ Made(rows'[next], rows[next], rows[1], instDb.inst, yayDb.yay)
<1>1. PICK codes \in Found(instDb.inst, yayDb.yay, rows[next], rows[1]) :
        rows' = [rows EXCEPT ![next] = Filled(rows[next], rows[1], codes)]
  BY DEF MatchRow, Found
<1>2. /\ phase = "rows" /\ next <= Len(rows) /\ next' = next + 1
      /\ UNCHANGED <<disk, db, phase, flags, input, instDb, yayDb, importedWith, bounds>>
  BY DEF MatchRow
<1>3. IsSheet(rows) /\ next >= 2 /\ next \in Nat
  <2>1. IsSheet(rows) /\ next >= 2 /\ next \in 0..Len(rows) + 1
    BY <1>2 DEF Typed, TypeOK, InHand
  <2> QED
    BY <2>1
<1>4. Len(rows) \in Nat /\ rows[1] \in Header /\ \A r \in 1..Len(rows) : IsList(rows[r])
  BY <1>3, SheetFacts
<1>5. next \in 2..Len(rows) /\ next \in 1..Len(rows)
  BY <1>2, <1>3, <1>4
<1>6. PICK row : row = Filled(rows[next], rows[1], codes)
  OBVIOUS
<1>7. IsList(row)
  BY <1>4, <1>5, <1>6, FilledRow
<1>8. PICK new : /\ new = [rows EXCEPT ![next] = row] /\ IsSheet(new) /\ Len(new) = Len(rows)
                 /\ new[1] = rows[1] /\ OneRow(new, rows, next, row)
  BY <1>3, <1>5, <1>7, SheetWithRow
<1>9. rows' = new
  BY <1>1, <1>6, <1>8
<1>10. Made(row, rows[next], rows[1], instDb.inst, yayDb.yay)
  BY <1>1, <1>6 DEF Made
<1>11. new[next] = row /\ \A r \in 1..Len(rows) : r # next => new[r] = rows[r]
  BY <1>5, <1>8 DEF OneRow
<1> QED
  BY <1>2, <1>3, <1>5, <1>8, <1>9, <1>10, <1>11

LEMMA ProgramStep == Typed /\ [Next]_vars => ProgramOK'
<1> SUFFICES ASSUME Typed, [Next]_vars
             PROVE  ProgramOK'
  OBVIOUS
<1> USE DEF disk, flags, memory
<1>1. DiskOK /\ ProgramOK
  BY TypedParts
<1>2. next \in Nat /\ Len(rows) \in Nat
  BY <1>1 DEF ProgramOK
<1>3. CASE Quits /\ UNCHANGED <<db, importedWith>>
  BY <1>1, <1>3 DEF Quits, ProgramOK, InHand
<1>4. CASE Launch
  BY <1>1, <1>4 DEF Launch, ProgramOK, InHand
<1>5. CASE ReadSheet
  <2>1. PICK lines : lines = file["csv"] /\ IsSheet(lines)
    BY <1>1 DEF DiskOK, Paths
  <2>2. /\ phase' = "insts" /\ input' = lines /\ next' = 2
        /\ rows' = <<Extended(Head(lines))>> \o Tail(lines)
        /\ UNCHANGED <<db, flags, instDb, yayDb, importedWith>>
    BY <1>5, <2>1 DEF ReadSheet
  <2>3. IsSheet(rows') /\ Len(rows') = Len(lines) /\ Len(lines) \in Nat /\ Len(lines) >= 1
    BY <2>1, <2>2, SheetRead, SheetFacts
  <2>4. next' \in 0..Len(rows') + 1
    BY <2>2, <2>3
  <2> QED
    BY <1>1, <2>1, <2>2, <2>3, <2>4 DEF ProgramOK, InHand
<1>6. CASE LoadInstitutions
  BY <1>1, <1>6 DEF LoadInstitutions, ProgramOK, InHand
<1>7. CASE LoadYayasans
  BY <1>1, <1>7 DEF LoadYayasans, ProgramOK, InHand
<1>8. CASE MatchRow
  <2>1. /\ phase = "rows" /\ phase' = "rows" /\ next \in 2..Len(rows) /\ next' = next + 1
        /\ UNCHANGED <<db, flags, input, instDb, yayDb, importedWith>>
        /\ IsSheet(rows') /\ Len(rows') = Len(rows)
    BY <1>8, RowMatched
  <2>2. next' \in 0..Len(rows') + 1 /\ next' >= 2
    BY <1>2, <2>1
  <2> QED
    BY <1>1, <2>1, <2>2 DEF ProgramOK, InHand
<1>9. CASE RowsDone
  BY <1>1, <1>9 DEF RowsDone, ProgramOK, InHand
<1>10. CASE OpenTmp
  BY <1>1, <1>10 DEF OpenTmp, ProgramOK, InHand
<1>11. CASE WriteTmp
  <2>1. /\ phase = "tmp" /\ phase' = "rename" /\ tmp' = [tmp EXCEPT ![Target] = rows]
        /\ UNCHANGED <<db, flags, memory, importedWith>>
    BY <1>11 DEF WriteTmp
  <2>2. Target' = Target /\ tmp'[Target] = rows
    BY <1>1, <2>1, TargetPath DEF Target, DiskOK
  <2> QED
    BY <1>1, <2>1, <2>2 DEF ProgramOK, InHand
<1>12. CASE Rename
  <2>1. importedWith' \in (Databases \X Databases) \cup {<<>>}
    BY <1>1, <1>12 DEF Rename, ProgramOK
  <2> QED
    BY <1>1, <1>12, <2>1 DEF Rename, ProgramOK, InHand
<1>13. CASE EditSheet
  <2>1. /\ UNCHANGED <<tmp, db, phase, flags, memory>> /\ importedWith' = <<>>
    BY <1>13 DEF EditSheet
  <2> QED
    BY <1>1, <2>1 DEF ProgramOK, InHand, Target
<1>14. CASE ChangeDatabase
  <2>1. db' \in Databases /\ UNCHANGED <<tmp, phase, flags, memory, importedWith>>
    BY <1>14 DEF ChangeDatabase
  <2> QED
    BY <1>1, <2>1 DEF ProgramOK, InHand, Target
<1>15. CASE UNCHANGED vars
  BY <1>1, <1>15 DEF vars, ProgramOK, InHand, Target
<1> QED
  BY <1>3, <1>4, <1>5, <1>6, <1>7, <1>8, <1>9, <1>10, <1>11, <1>12, <1>13, <1>14, <1>15
     DEF Next, Fails, Kill

LEMMA TypedStep == Typed /\ [Next]_vars => Typed'
<1> SUFFICES ASSUME Typed, [Next]_vars
             PROVE  Typed'
  OBVIOUS
<1>1. DiskOK' /\ ProgramOK' /\ CountsOK'
  BY DiskStep, ProgramStep, CountsStep DEF Typed
<1> QED
  BY <1>1 DEF Typed, TypeOK, DiskOK, ProgramOK, CountsOK

(* Whatever is edited, killed or changed when, the files are absent or     *)
(* sheets and the program's lines a sheet of the length of its input.      *)
THEOREM ImportTypeCorrect == Spec => []TypeOK
<1>1. Init => Typed
  BY InitTyped
<1>2. Typed /\ [Next]_vars => Typed'
  BY TypedStep
<1>3. Typed => TypeOK
  BY DEF Typed
<1> QED
  BY <1>1, <1>2, <1>3, PTL DEF Spec

-----------------------------------------------------------------------------
(* What is in memory was made of what was read. *)

LEMMA ComputedStep == Typed /\ Computed /\ [Next]_vars => Computed'
<1> SUFFICES ASSUME Typed, Computed, [Next]_vars
             PROVE  Computed'
  OBVIOUS
<1> USE DEF disk, flags, memory
<1>1. DiskOK /\ ProgramOK
  BY TypedParts
<1>2. CASE Quits \/ Launch \/ Rename
  BY <1>2 DEF Quits, Launch, Rename, Computed, InHand
<1>3. CASE ReadSheet
  <2>1. PICK lines : lines = file["csv"] /\ IsSheet(lines)
    BY <1>1 DEF DiskOK, Paths
  <2>2. input' = lines /\ next' = 2 /\ rows' = <<Extended(Head(lines))>> \o Tail(lines)
    BY <1>3, <2>1 DEF ReadSheet
  <2>3. /\ Len(rows') = Len(lines) /\ rows'[1] = Extended(lines[1])
        /\ \A r \in 2..Len(lines) : rows'[r] = lines[r]
    BY <2>1, <2>2, SheetRead
  <2>4. \A r \in 2..Len(rows') : ~(r < 2)
    OBVIOUS
  <2> QED
    BY <2>2, <2>3, <2>4 DEF Computed, MadeRows
<1>4. CASE LoadInstitutions \/ LoadYayasans
  <2>1. InHand /\ next = 2 /\ UNCHANGED <<input, rows, next>>
    BY <1>1, <1>4 DEF LoadInstitutions, LoadYayasans, ProgramOK, InHand
  <2>2. \A r \in 2..Len(rows) : ~(r < 2)
    OBVIOUS
  <2>3. rows[1] = Extended(input[1]) /\ \A r \in 2..Len(rows) : rows[r] = input[r]
    BY <2>1, <2>2 DEF Computed, MadeRows
  <2> QED
    BY <2>1, <2>2, <2>3 DEF Computed, MadeRows
<1>5. CASE MatchRow
  <2>1. /\ phase = "rows" /\ next \in 2..Len(rows) /\ next' = next + 1 /\ UNCHANGED <<input, instDb, yayDb>>
        /\ Len(rows') = Len(rows) /\ rows'[1] = rows[1]
        /\ \A r \in 1..Len(rows) : r # next => rows'[r] = rows[r]
        /\ Made(rows'[next], rows[next], rows[1], instDb.inst, yayDb.yay)
    BY <1>5, RowMatched
  <2>2. MadeRows(rows, input, next, instDb.inst, yayDb.yay)
    BY <2>1 DEF Computed, InHand
  <2>3. next \in Nat /\ Len(rows) \in Nat
    BY <1>1 DEF ProgramOK
  <2>4. ASSUME NEW r \in 2..Len(rows)
        PROVE  IF r < next + 1 THEN Made(rows'[r], input[r], rows[1], instDb.inst, yayDb.yay)
               ELSE rows'[r] = input[r]
    <3>1. r \in 1..Len(rows)
      BY <2>3
    <3>2. CASE r = next
      <4>1. rows[r] = input[r] /\ r < next + 1
        BY <2>2, <2>3, <3>2 DEF MadeRows
      <4> QED
        BY <2>1, <3>2, <4>1
    <3>3. CASE r # next
      <4>1. rows'[r] = rows[r] /\ (r < next + 1 <=> r < next)
        BY <2>1, <2>3, <3>1, <3>3
      <4> QED
        BY <2>2, <4>1 DEF MadeRows
    <3> QED
      BY <3>2, <3>3
  <2> QED
    BY <2>1, <2>2, <2>4 DEF Computed, MadeRows
<1>6. CASE UNCHANGED memory /\ (InHand' => InHand)
  BY <1>6 DEF Computed
<1> QED
  BY <1>2, <1>3, <1>4, <1>5, <1>6 DEF Next, vars, Launch, RowsDone, OpenTmp, WriteTmp, Fails, Kill,
     EditSheet, ChangeDatabase, InHand

(* The end of a run: every row was matched, and no dry run comes here. *)
LEMMA RunEnds ==
  ASSUME Typed, Computed, Rename
  PROVE  /\ ~dryRun /\ edits' = edits /\ file' = [file EXCEPT ![Target] = rows]
         /\ inPlace => file'["csv"] = rows
         /\ ~inPlace => file'["csv"] = file["csv"]
         /\ IsSheet(input) /\ IsSheet(rows) /\ Len(rows) = Len(input)
         /\ rows[1] = Extended(input[1])
         /\ \A r \in 2..Len(rows) : Made(rows[r], input[r], rows[1], instDb.inst, yayDb.yay)
<1>1. DiskOK /\ ProgramOK
  BY TypedParts
<1>2. phase = "rename" /\ tmp[Target] = rows /\ ~dryRun /\ next > Len(rows) /\ InHand
      /\ IsSheet(input) /\ IsSheet(rows) /\ Len(rows) = Len(input)
      /\ Len(rows) \in Nat /\ next \in Nat
  BY <1>1 DEF Rename, ProgramOK, InHand
<1>3. edits' = edits /\ file' = [file EXCEPT ![Target] = rows]
  BY <1>2 DEF Rename, bounds
<1>4. \A r \in 2..Len(rows) : r < next
  BY <1>2
<1>5. /\ inPlace => file'["csv"] = rows
      /\ ~inPlace => file'["csv"] = file["csv"]
  BY <1>1, <1>3 DEF Target, DiskOK, Paths
<1> QED
  BY <1>2, <1>3, <1>4, <1>5 DEF Computed, MadeRows

(* A step of the program that changes the sheet replaces it by the whole of *)
(* it with codes filled in.                                                 *)
THEOREM SheetIsKept == Spec => ImportKeepsSheet
<1>1. Init => Typed /\ Computed
  BY InitTyped DEF Init, Computed, InHand
<1>2. Typed /\ Computed /\ [Next]_vars => Typed' /\ Computed'
  BY TypedStep, ComputedStep
<1>3. Typed /\ Computed /\ [Next]_vars =>
        [file'["csv"] # file["csv"] /\ edits' = edits =>
           /\ inPlace /\ ~dryRun
           /\ input = file["csv"] => SameSheet(file'["csv"], file["csv"])]_vars
  <2> SUFFICES ASSUME Typed, Computed, [Next]_vars, file'["csv"] # file["csv"], edits' = edits
               PROVE  /\ inPlace /\ ~dryRun
                      /\ input = file["csv"] => SameSheet(file'["csv"], file["csv"])
    OBVIOUS
  <2>1. CASE Rename
    <3>1. /\ ~dryRun /\ inPlace /\ file'["csv"] = rows
          /\ IsSheet(input) /\ IsSheet(rows) /\ Len(rows) = Len(input)
          /\ rows[1] = Extended(input[1])
          /\ \A r \in 2..Len(rows) : Made(rows[r], input[r], rows[1], instDb.inst, yayDb.yay)
      BY <2>1, RunEnds
    <3>2. SameSheet(rows, input)
      BY <3>1, MadeIsSame
    <3> QED
      BY <3>1, <3>2
  <2>2. CASE EditSheet
    <3>1. edits \in Nat /\ edits' = edits + 1
      BY <2>2 DEF EditSheet, Typed, TypeOK
    <3> QED
      BY <3>1
  <2> QED
    BY <2>1, <2>2 DEF Next, vars, disk, Launch, ReadSheet, LoadInstitutions, LoadYayasans,
       MatchRow, RowsDone, OpenTmp, WriteTmp, Fails, Kill, ChangeDatabase
<1> QED
  BY <1>1, <1>2, <1>3, PTL DEF Spec, ImportKeepsSheet

-----------------------------------------------------------------------------
(* A sheet that was imported is settled. *)

LEMMA ApartBefore ==
  ASSUME NEW h \in Header, Apart(Extended(h))
  PROVE  Apart(h)
<1>1. PICK e : e = Extended(h)
  OBVIOUS
<1>2. /\ SummaryCol(e) = SummaryCol(h)
      /\ \A k \in {"npyp", "npsp"} : Columns(h, k) # {} => CodeCol(h, k) = CodeCol(e, k)
      /\ CodeCols(e) = {CodeCol(e, "npyp"), CodeCol(e, "npsp")}
  BY <1>1, ColumnsOfExtended
<1>3. CodeCols(h) \subseteq CodeCols(e)
  BY <1>2 DEF CodeCols
<1> QED
  BY <1>1, <1>2, <1>3 DEF Apart

LEMMA ApartAfter ==
  ASSUME NEW h \in Header, Apart(h)
  PROVE  Apart(Extended(h))
<1>1. PICK e : e = Extended(h)
  OBVIOUS
<1>2. /\ SummaryCol(e) = SummaryCol(h) /\ SummaryCol(h) \in 1..Len(h)
      /\ \A c \in 1..Len(h) : c \notin CodeCols(h) => c \notin CodeCols(e)
  BY <1>1, ColumnsOfExtended
<1> QED
  BY <1>1, <1>2 DEF Apart

(* Made once, it is settled, *)
LEMMA MadeIsSettled ==
  ASSUME NEW old, IsSheet(old), NEW new, IsSheet(new), Len(new) = Len(old),
         new[1] = Extended(old[1]), NEW insts, NEW yays,
         \A r \in 2..Len(new) : Made(new[r], old[r], new[1], insts, yays),
         Apart(new[1]), Determined(insts, yays)
  PROVE  Settled(new, insts, yays)
<1>1. old[1] \in Header /\ new[1] \in Header
  BY DEF IsSheet, Header
<1>2. Wide(new[1])
  BY <1>1, ExtendedOnce DEF Wide
<1>3. ASSUME NEW r \in 2..Len(new)
      PROVE  Fixed(new[r], new[1], insts, yays)
  <2>1. r \in 1..Len(old)
    BY SheetFacts
  <2>2. IsList(old[r])
    BY <2>1, SheetFacts
  <2>3. PICK e : e = new[1] /\ Wide(e) /\ Apart(e)
    BY <1>2
  <2>4. Made(new[r], old[r], e, insts, yays)
    BY <2>3
  <2>5. Fixed(new[r], e, insts, yays)
    BY <2>2, <2>3, <2>4, MadeIsFixed
  <2> QED
    BY <2>3, <2>5
<1> QED
  BY <1>2, <1>3 DEF Settled, Wide

(* and made again it stays. *)
LEMMA SettledStays ==
  ASSUME NEW old, IsSheet(old), NEW new, IsSheet(new), Len(new) = Len(old),
         new[1] = Extended(old[1]), NEW insts, NEW yays,
         \A r \in 2..Len(new) : Made(new[r], old[r], new[1], insts, yays),
         Settled(old, insts, yays)
  PROVE  new = old
<1>1. new[1] = old[1]
  BY DEF Settled
<1>2. \A r \in 2..Len(new) : new[r] = old[r]
  BY <1>1 DEF Settled, Fixed, Made
<1>3. Len(new) \in Nat /\ IsList(new) /\ IsList(old)
  BY SheetFacts DEF IsSheet
<1>4. \A r \in 1..Len(new) : r = 1 \/ r \in 2..Len(new)
  BY <1>3
<1>5. \A r \in 1..Len(new) : new[r] = old[r]
  BY <1>1, <1>2, <1>4
<1> QED
  BY <1>3, <1>5, SameList

LEMMA SettlesStep == Typed /\ Computed /\ ImportSettles /\ [Next]_vars => ImportSettles'
<1> SUFFICES ASSUME Typed, Computed, ImportSettles, [Next]_vars
             PROVE  ImportSettles'
  OBVIOUS
<1>1. CASE UNCHANGED <<file, importedWith>>
  BY <1>1 DEF ImportSettles
<1>2. CASE EditSheet
  BY <1>2 DEF EditSheet, ImportSettles
<1>3. CASE Rename /\ ~inPlace
  <2>1. file'["csv"] = file["csv"] /\ importedWith' = importedWith
    BY <1>3, RunEnds DEF Rename
  <2> QED
    BY <2>1 DEF ImportSettles
<1>4. CASE Rename /\ inPlace
  <2>1. /\ file'["csv"] = rows /\ importedWith' = <<instDb, yayDb>>
        /\ IsSheet(input) /\ IsSheet(rows) /\ Len(rows) = Len(input)
        /\ rows[1] = Extended(input[1])
        /\ \A r \in 2..Len(rows) : Made(rows[r], input[r], rows[1], instDb.inst, yayDb.yay)
    BY <1>4, RunEnds DEF Rename
  <2>2. importedWith'[1] = instDb /\ importedWith'[2] = yayDb
    BY <2>1
  <2>3. Apart(rows[1]) /\ Determined(instDb.inst, yayDb.yay) => Settled(rows, instDb.inst, yayDb.yay)
    BY <2>1, MadeIsSettled
  <2> QED
    BY <2>1, <2>2, <2>3 DEF ImportSettles
<1> QED
  BY <1>1, <1>2, <1>3, <1>4 DEF Next, vars, disk, Launch, ReadSheet, LoadInstitutions,
     LoadYayasans, MatchRow, RowsDone, OpenTmp, WriteTmp, Fails, Kill, ChangeDatabase

ImportInv == Typed /\ Computed /\ ImportSettles

LEMMA ImportInvHolds == Spec => []ImportInv
<1>1. Init => ImportInv
  BY InitTyped DEF Init, ImportInv, Computed, InHand, ImportSettles
<1>2. ImportInv /\ [Next]_vars => ImportInv'
  BY TypedStep, ComputedStep, SettlesStep DEF ImportInv
<1> QED
  BY <1>1, <1>2, PTL DEF Spec

(* Importing again what was imported, from the same database, changes       *)
(* nothing, if it has no ties and codes and summaries are apart.            *)
THEOREM RerunsAreIdle == Spec => RerunChangesNothing
<1>1. ImportInv /\ [Next]_vars =>
        [phase = "rename" /\ phase' = "down" /\ inPlace /\ kills' = kills
           /\ input = file["csv"] /\ importedWith = <<instDb, yayDb>>
           /\ Determined(instDb.inst, yayDb.yay) /\ Apart(input[1])
         => file'["csv"] = file["csv"]]_vars
  <2> SUFFICES ASSUME ImportInv, [Next]_vars, phase = "rename", phase' = "down", inPlace,
                      kills' = kills, input = file["csv"], importedWith = <<instDb, yayDb>>,
                      Determined(instDb.inst, yayDb.yay), Apart(input[1])
               PROVE  file'["csv"] = file["csv"]
    OBVIOUS
  <2>1. CASE Rename
    <3>1. /\ file'["csv"] = rows
          /\ IsSheet(input) /\ IsSheet(rows) /\ Len(rows) = Len(input)
          /\ rows[1] = Extended(input[1])
          /\ \A r \in 2..Len(rows) : Made(rows[r], input[r], rows[1], instDb.inst, yayDb.yay)
      BY <2>1, RunEnds DEF ImportInv
    <3>2. importedWith # <<>> /\ importedWith[1] = instDb /\ importedWith[2] = yayDb
      OBVIOUS
    <3>3. Settled(input, instDb.inst, yayDb.yay)
      BY <3>2 DEF ImportInv, ImportSettles
    <3>4. rows = input
      BY <3>1, <3>3, SettledStays
    <3> QED
      BY <3>1, <3>4
  <2>2. CASE Fails
    BY <2>2 DEF Fails, disk
  <2>3. CASE Kill
    <3>1. kills \in Nat /\ kills' = kills + 1
      BY <2>3 DEF Kill, ImportInv, Typed, TypeOK
    <3> QED
      BY <3>1
  <2> QED
    BY <2>1, <2>2, <2>3 DEF Next, vars, disk, Launch, ReadSheet, LoadInstitutions,
       LoadYayasans, MatchRow, RowsDone, OpenTmp, WriteTmp, EditSheet, ChangeDatabase
<1> QED
  BY <1>1, ImportInvHolds, PTL DEF Spec, RerunChangesNothing

-----------------------------------------------------------------------------
(* The codes of a row belong together. *)

LEMMA MadeIsPairedSheet ==
  ASSUME NEW old, IsSheet(old), WithoutCodes(old), NEW new, IsSheet(new), Len(new) = Len(old),
         new[1] = Extended(old[1]), NEW d \in Databases, NEW yays,
         \A r \in 2..Len(new) : Made(new[r], old[r], new[1], d.inst, yays)
  PROVE  Paired(new, d.inst)
<1>1. PICK h, e : h \in Header /\ h = old[1] /\ e = new[1] /\ e = Extended(h)
  BY DEF IsSheet, Header
<1>2. ASSUME NEW r \in 2..Len(new)
      PROVE  Belong(new[r][CodeCol(e, "npsp")], new[r][CodeCol(e, "npyp")], d.inst)
  <2>1. r \in 2..Len(old) /\ r \in 1..Len(old)
    BY SheetFacts
  <2>2. IsList(old[r])
    BY <2>1, SheetFacts
  <2>3. Codeless(old[r], h)
    BY <1>1, <2>1 DEF WithoutCodes, Codeless
  <2>4. Made(new[r], old[r], e, d.inst, yays)
    BY <1>1
  <2>5. PICK row : row = old[r]
    OBVIOUS
  <2> QED
    BY <1>1, <2>2, <2>3, <2>4, <2>5, MadeIsPaired
<1> QED
  BY <1>1, <1>2 DEF Paired

LEMMA MadeStaysWithoutCodes ==
  ASSUME NEW old, IsSheet(old), WithoutCodes(old), NEW new, IsSheet(new), Len(new) = Len(old),
         new[1] = Extended(old[1]), ~Apart(new[1]), NEW insts, NEW yays,
         \A r \in 2..Len(new) : Made(new[r], old[r], new[1], insts, yays)
  PROVE  WithoutCodes(new)
<1>1. PICK h, e : h \in Header /\ h = old[1] /\ e = new[1] /\ e = Extended(h)
  BY DEF IsSheet, Header
<1>2. ASSUME NEW r \in 2..Len(new)
      PROVE  Codeless(new[r], e)
  <2>1. r \in 2..Len(old) /\ r \in 1..Len(old)
    BY SheetFacts
  <2>2. PICK row : row = old[r]
    OBVIOUS
  <2>3. IsList(row) /\ Codeless(row, h)
    BY <1>1, <2>1, <2>2, SheetFacts DEF WithoutCodes, Codeless
  <2>4. Made(new[r], row, e, insts, yays)
    BY <1>1, <2>2
  <2> QED
    BY <1>1, <2>3, <2>4, MadeStaysCodeless
<1> QED
  BY <1>1, <1>2 DEF WithoutCodes, Codeless

LEMMA PairsStep == ImportInv /\ PairsHold /\ [Next]_vars => PairsHold'
<1> SUFFICES ASSUME ImportInv, PairsHold, [Next]_vars
             PROVE  PairsHold'
  OBVIOUS
<1>1. DiskOK /\ ProgramOK /\ changes \in Nat /\ edits \in Nat
  BY TypedParts DEF ImportInv, Typed, TypeOK
<1> USE DEF disk, flags, bounds
<1>2. CASE EditSheet \/ ChangeDatabase
  <2>1. edits' = edits + 1 \/ changes' = changes + 1
    BY <1>2 DEF EditSheet, ChangeDatabase
  <2>2. ~Undisturbed'
    BY <1>1, <2>1 DEF Undisturbed
  <2> QED
    BY <2>2 DEF PairsHold
<1>3. CASE ReadSheet
  BY <1>3 DEF ReadSheet, PairsHold, Undisturbed
<1>4. CASE LoadInstitutions \/ LoadYayasans
  BY <1>4 DEF LoadInstitutions, LoadYayasans, PairsHold, Undisturbed, InHand
<1>5. CASE /\ UNCHANGED <<file, start, db, input, instDb, yayDb, importedWith, edits, changes>>
           /\ InHand' => InHand
  BY <1>5 DEF PairsHold, Undisturbed
<1>6. CASE Rename
  <2>1. SUFFICES ASSUME Undisturbed
                 PROVE  PairsHold'
    BY <1>6 DEF Rename, PairsHold, Undisturbed
  <2>2. /\ ~InHand' /\ UNCHANGED <<start, db, instDb, yayDb>> /\ Undisturbed'
        /\ importedWith' = IF inPlace THEN <<instDb, yayDb>> ELSE importedWith
    BY <1>6, <2>1 DEF Rename, InHand, memory, Undisturbed
  <2>3. instDb = db /\ yayDb = db /\ input = file["csv"]
    BY <1>6, <2>1 DEF PairsHold, Rename, InHand
  <2>4. CASE ~inPlace
    <3>1. file'["csv"] = file["csv"]
      BY <1>6, <2>4, RunEnds DEF ImportInv
    <3> QED
      BY <2>1, <2>2, <2>3, <2>4, <3>1 DEF PairsHold
  <2>5. CASE inPlace
    <3>1. /\ file'["csv"] = rows
          /\ IsSheet(input) /\ IsSheet(rows) /\ Len(rows) = Len(input)
          /\ rows[1] = Extended(input[1])
          /\ \A r \in 2..Len(rows) : Made(rows[r], input[r], rows[1], db.inst, db.yay)
      BY <1>6, <2>3, <2>5, RunEnds DEF ImportInv
    <3>2. db \in Databases /\ importedWith' = <<db, db>> /\ importedWith' # <<>>
      BY <1>1, <2>2, <2>3, <2>5 DEF ProgramOK
    <3>3. WithoutCodes(start) /\ ~Apart(rows[1]) => WithoutCodes(input)
      <4>1. Apart(input[1]) => Apart(rows[1])
        BY <3>1, ApartAfter DEF IsSheet, Header
      <4> QED
        BY <2>1, <2>3, <4>1 DEF PairsHold
    <3>4. WithoutCodes(start) /\ ~Apart(rows[1]) => WithoutCodes(rows)
      BY <3>1, <3>3, MadeStaysWithoutCodes
    <3>5. ASSUME WithoutCodes(start), Determined(db.inst, db.yay), ~Apart(rows[1])
          PROVE  Paired(rows, db.inst)
      BY <3>1, <3>2, <3>3, <3>5, MadeIsPairedSheet
    <3>6. ASSUME WithoutCodes(start), Determined(db.inst, db.yay), Apart(rows[1])
          PROVE  Paired(rows, db.inst)
      <4>1. CASE importedWith = <<>>
        <5>1. input = start
          BY <2>1, <2>3, <4>1 DEF PairsHold
        <5> QED
          BY <3>1, <3>2, <3>6, <5>1, MadeIsPairedSheet
      <4>2. CASE importedWith # <<>>
        <5>1. importedWith[1] = db /\ importedWith[2] = db
          BY <2>1, <4>2 DEF PairsHold
        <5>2. Apart(input[1])
          BY <3>1, <3>6, ApartBefore DEF IsSheet, Header
        <5>3. Settled(input, db.inst, db.yay)
          BY <2>3, <3>6, <4>2, <5>1, <5>2 DEF ImportInv, ImportSettles
        <5>4. rows = input
          BY <3>1, <5>3, SettledStays
        <5> QED
          BY <2>1, <2>3, <3>6, <4>2, <5>4 DEF PairsHold
      <4> QED
        BY <4>1, <4>2
    <3> QED
      BY <2>2, <2>3, <3>1, <3>2, <3>4, <3>5, <3>6 DEF PairsHold
  <2> QED
    BY <2>4, <2>5
<1> QED
  BY <1>2, <1>3, <1>4, <1>5, <1>6 DEF Next, vars, memory, Launch, MatchRow, RowsDone, OpenTmp,
     WriteTmp, Fails, Quits, Kill, InHand

(* Over any number of runs, completed, killed or failed, of a sheet that    *)
(* started without codes: the codes of a row are those of one record, as    *)
(* long as nothing but the program changes sheet or database and there are  *)
(* no ties.                                                                 *)
THEOREM CodesBelongTogether == Spec => []PairsMatch
<1>1. Init => PairsHold
  BY DEF Init, PairsHold, Undisturbed, InHand, Paths
<1>2. ImportInv /\ PairsHold /\ [Next]_vars => PairsHold'
  BY PairsStep
<1>3. PairsHold => PairsMatch
  BY DEF PairsHold, Undisturbed, PairsMatch, Paired
<1> QED
  BY <1>1, <1>2, <1>3, ImportInvHolds, PTL DEF Spec
=============================================================================
