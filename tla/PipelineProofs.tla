--------------------------- MODULE PipelineProofs ---------------------------
(***************************************************************************)
(* Theorems about the commands as their user chains them, for lists,       *)
(* pages, caps, chunks and parts of any size and any number of runs, kills *)
(* and failures: first the list (WInv), then the split (FilesInv: what is  *)
(* in the output, the parts and the groups), the types of the whole, the   *)
(* exit code of the script (ExitInv) and who writes a row (TwiceInv).      *)
(***************************************************************************)
EXTENDS Pipeline, SeqFacts

-----------------------------------------------------------------------------
(* Arithmetic of the page walk. *)

(* Pages up to k hold the whole of a list exactly if k reaches the number   *)
(* of pages, rounded up.                                                    *)
LEMMA RoundedUp ==
  ASSUME NEW n \in Nat, NEW q \in Nat \ {0}, NEW k \in Nat
  PROVE  (k >= (n + q - 1) \div q) <=> (k * q >= n)
<1> DEFINE d == (n + q - 1) \div q
<1>1. d \in Nat /\ q * d <= n + q - 1 /\ n + q - 1 < q * d + q
  OBVIOUS
<1>2. ASSUME k >= d
      PROVE  k * q >= n
  <2>1. k * q >= d * q
    BY <1>1, <1>2
  <2> QED
    BY <1>1, <2>1
<1>3. ASSUME k < d
      PROVE  k * q < n
  <2>1. (k + 1) * q <= d * q
    BY <1>1, <1>3
  <2>2. (k + 1) * q = k * q + q
    OBVIOUS
  <2> QED
    BY <1>1, <2>1, <2>2
<1> QED
  BY <1>1, <1>2, <1>3

-----------------------------------------------------------------------------
(* The invariant. *)

Lines  == ToSet(items) \cup {Header, Torn, Garbled}
Intact == {Torn, Garbled} \cap ToSet(out) = {}
Offset == (page - FirstPage) * PageSize
PageEnd == IF Offset + PageSize <= Len(items) THEN Offset + PageSize ELSE Len(items)

(* The values a list command computes with. *)
Typed ==
  /\ tool \in {"sekolah", "pddikti"} /\ items \in Seq(ToSet(items))
  /\ maxRecords \in Nat /\ (tool = "sekolah" => maxRecords > 0)
  /\ out \in Seq(Lines)
  /\ page \in Nat /\ data \in Seq(ToSet(items)) /\ size \in Nat /\ written \in Nat
  /\ listPhase \in {"down", "header", "fetch", "rows", "check"}

(* An intact file ends with the first n items. *)
EndsWithFirst(n) ==
  /\ n <= Len(items) /\ n <= Len(out)
  /\ \A i \in 1..n : out[Len(out) - n + i] = items[i]

(* That is so for the rows of this run, while it lasts and when it is over. *)
Follows == (listPhase # "down" \/ listExit = "ok") /\ Intact => EndsWithFirst(written)

(* Where the walk is: before a page, or with the rest of one in its hands. *)
AtPage ==
  /\ page >= FirstPage
  /\ listPhase = "header" => written = 0 /\ Offset = 0
  /\ listPhase = "fetch" => written = Offset /\ Offset <= Len(items)
  /\ listPhase \in {"rows", "check"} =>
       /\ Offset <= Len(items)
       /\ size = PageEnd - Offset
       /\ written + Len(data) = PageEnd
       /\ \A i \in 1..Len(data) : data[i] = items[written + i]
  /\ listPhase = "check" => data = <<>> \/ Capped
  /\ listPhase # "down" /\ tool = "sekolah" => written <= maxRecords

(* A finished command has written what was expected. *)
Finished == listPhase = "down" /\ listExit = "ok" => written = Len(Expected)

WInv == Typed /\ Follows /\ (listPhase # "down" => AtPage) /\ Finished

USE LineAssumption, ListAssumption

(* Facts of the invariant that most steps need. *)
LEMMA WalkFacts ==
  ASSUME Typed
  PROVE  /\ Len(items) \in Nat /\ Len(out) \in Nat /\ Len(data) \in Nat
         /\ PageSize \in Nat \ {0} /\ FirstPage \in {0, 1}
         /\ page >= FirstPage => Offset \in Nat
         /\ Offset \in Int /\ PageEnd \in Int /\ PageEnd <= Len(items)
<1>1. /\ Len(items) \in Nat /\ Len(out) \in Nat /\ Len(data) \in Nat
      /\ PageSize \in Nat \ {0} /\ FirstPage \in {0, 1} /\ page \in Nat
  BY LenProperties DEF Typed, FirstPage
<1>2. Offset \in Int
  BY <1>1 DEF Offset
<1>3. page >= FirstPage => Offset \in Nat
  <2>1. SUFFICES ASSUME page >= FirstPage
                 PROVE  Offset \in Nat
    OBVIOUS
  <2>2. PICK k \in Nat : k = page - FirstPage
    BY <1>1, <2>1
  <2>3. k * PageSize \in Nat
    BY <1>1
  <2> QED
    BY <2>2, <2>3 DEF Offset
<1> QED
  BY <1>1, <1>2, <1>3 DEF PageEnd

(* A row that is appended to an intact file is its last line. *)
LEMMA AppendedRow ==
  ASSUME NEW S, NEW file \in Seq(S), NEW row \in S, Garbled \in S,
         NEW lines \in Appended(file, row)
  PROVE  /\ lines \in Seq(S)
         /\ {Torn, Garbled} \cap ToSet(lines) = {} =>
              /\ {Torn, Garbled} \cap ToSet(file) = {}
              /\ lines = Append(file, row)
<1>1. Len(file) \in Nat /\ DOMAIN file = 1..Len(file)
  BY LenProperties
<1>2. CASE file # <<>> /\ Last(file) = Torn
  <2>1. Len(file) \in 1..Len(file)
    BY <1>1, <1>2, EmptySeq
  <2>2. Torn \in ToSet(file)
    BY <1>1, <1>2, <2>1 DEF Last, ToSet
  <2>3. Front(file) \in Seq(S)
    <3>1. \A i \in 1..Len(file) - 1 : file[i] \in S
      BY <1>1, ElementOfSeq
    <3> QED
      BY <1>1, <3>1, SubSeqProperties DEF Front
  <2>4. /\ Append(Front(file), Garbled) \in Seq(S)
        /\ Garbled \in ToSet(Append(Front(file), Garbled))
    <3>1. /\ Append(Front(file), Garbled) \in Seq(S)
          /\ Len(Front(file)) + 1 \in DOMAIN Append(Front(file), Garbled)
          /\ Append(Front(file), Garbled)[Len(Front(file)) + 1] = Garbled
      BY <2>3, AppendProperties
    <3> QED
      BY <3>1 DEF ToSet
  <2> QED
    BY <1>2, <2>2, <2>4 DEF Appended
<1>3. CASE ~(file # <<>> /\ Last(file) = Torn)
  <2>1. lines = Append(file, row)
    BY <1>3 DEF Appended
  <2>2. /\ lines \in Seq(S)
        /\ DOMAIN lines = 1..Len(file) + 1
        /\ \A i \in 1..Len(file) : lines[i] = file[i]
    BY <1>1, <2>1
  <2>3. ToSet(file) \subseteq ToSet(lines)
    BY <1>1, <2>2 DEF ToSet
  <2> QED
    BY <2>1, <2>2, <2>3
<1> QED
  BY <1>2, <1>3

(* The page the server answers with. *)
LEMMA PageFacts ==
  ASSUME Typed, page >= FirstPage, Offset <= Len(items)
  PROVE  /\ PageOf(page) \in Seq(ToSet(items))
         /\ Len(PageOf(page)) = PageEnd - Offset
         /\ \A i \in 1..Len(PageOf(page)) : PageOf(page)[i] = items[Offset + i]
<1>1. PICK o \in Nat, n \in Nat, q \in Nat \ {0} :
        o = Offset /\ n = Len(items) /\ q = PageSize /\ o <= n
  BY WalkFacts
<1>2. PICK e \in Nat : e = PageEnd /\ o <= e /\ e <= n
  BY <1>1 DEF PageEnd
<1>3. PageOf(page) = SubSeq(items, o + 1, e)
  <2>1. PageOf(page) = SubSeq(items, Offset + 1, Min({Offset + PageSize, Len(items)}))
    BY DEF PageOf, Offset
  <2>2. o + q \in Nat /\ Min({o + q, n}) = IF o + q <= n THEN o + q ELSE n
    BY <1>1, MinOfTwo
  <2>3. e = IF o + q <= n THEN o + q ELSE n
    BY <1>1, <1>2 DEF PageEnd
  <2> QED
    BY <1>1, <2>1, <2>2, <2>3
<1>4. \A i \in o + 1..e : items[i] \in ToSet(items)
  BY <1>1, <1>2, ElementOfSeq DEF Typed
<1>5. /\ SubSeq(items, o + 1, e) \in Seq(ToSet(items))
      /\ Len(SubSeq(items, o + 1, e)) = IF o + 1 <= e THEN e - (o + 1) + 1 ELSE 0
      /\ \A i \in 1..e - (o + 1) + 1 : SubSeq(items, o + 1, e)[i] = items[o + 1 + i - 1]
  BY <1>4, SubSeqProperties
<1>6. /\ Len(SubSeq(items, o + 1, e)) = e - o
      /\ \A i \in 1..e - o : SubSeq(items, o + 1, e)[i] = items[o + i]
  <2>1. e - (o + 1) + 1 = e - o /\ \A i \in 1..e - o : o + 1 + i - 1 = o + i
    BY <1>1, <1>2
  <2> QED
    BY <1>2, <1>5, <2>1
<1> QED
  BY <1>1, <1>2, <1>3, <1>5, <1>6

-----------------------------------------------------------------------------
(* One lemma for each step of the command. *)

LEMMA WInit == ListInit => WInv
<1> SUFFICES ASSUME ListInit
             PROVE  WInv
  OBVIOUS
<1>1. out \in Seq(Lines) /\ data \in Seq(ToSet(items)) /\ items \in Seq(ToSet(items))
  BY DEF ListInit
<1>2. Typed
  BY <1>1 DEF ListInit, Typed
<1> QED
  BY <1>2 DEF ListInit, WInv, Follows, Finished

LEMMA StartKeeps == WInv /\ StartList => WInv'
<1> SUFFICES ASSUME WInv, StartList
             PROVE  WInv'
  OBVIOUS
<1>1. Typed'
  BY DEF WInv, StartList, Typed, Lines, command, FirstPage
<1>2. FirstPage' = FirstPage /\ Offset' = 0
  BY DEF StartList, command, FirstPage, Offset, WInv, Typed
<1>3. AtPage'
  BY <1>1, <1>2, LenProperties DEF AtPage, StartList, command, WInv, Typed
<1>4. Follows'
  BY <1>1, LenProperties DEF StartList, Follows, EndsWithFirst, Typed
<1> QED
  BY <1>1, <1>3, <1>4 DEF WInv, Finished, StartList

LEMMA HeaderKeeps == WInv /\ WriteHeader => WInv'
<1> SUFFICES ASSUME WInv, WriteHeader
             PROVE  WInv'
  OBVIOUS
<1>1. Typed'
  BY AppendProperties DEF WInv, WriteHeader, Typed, Lines, command
<1>2. AtPage /\ written = 0
  BY DEF WInv, AtPage, WriteHeader
<1>3. FirstPage' = FirstPage /\ Offset' = Offset
  BY DEF WriteHeader, command, FirstPage, Offset
<1>4. AtPage'
  BY <1>1, <1>2, <1>3, LenProperties DEF AtPage, WriteHeader, command, WInv, Typed
<1>5. Follows'
  BY <1>1, <1>2, LenProperties DEF WriteHeader, command, Follows, EndsWithFirst, Typed
<1> QED
  BY <1>1, <1>4, <1>5 DEF WInv, Finished, WriteHeader

LEMMA FetchKeeps == WInv /\ FetchPage => WInv'
<1> SUFFICES ASSUME WInv, FetchPage
             PROVE  WInv'
  OBVIOUS
<1>1. Typed /\ AtPage /\ written = Offset /\ Offset <= Len(items) /\ page >= FirstPage
  BY DEF WInv, AtPage, FetchPage
<1>2. /\ data' \in Seq(ToSet(items)) /\ Len(data') = PageEnd - Offset
      /\ \A i \in 1..Len(data') : data'[i] = items[Offset + i]
      /\ size' = PageEnd - Offset
  BY <1>1, PageFacts DEF FetchPage
<1>3. PageEnd - Offset \in Nat /\ Offset \in Nat /\ PageEnd \in Nat
  BY <1>1, <1>2, WalkFacts DEF PageEnd
<1>4. Typed'
  BY <1>1, <1>2, <1>3 DEF FetchPage, Typed, Lines, command, listFile
<1>5. FirstPage' = FirstPage /\ Offset' = Offset /\ PageEnd' = PageEnd
  BY DEF FetchPage, command, FirstPage, Offset, PageEnd
<1>6. AtPage'
  BY <1>1, <1>2, <1>3, <1>5 DEF AtPage, FetchPage, command
<1>7. Follows'
  BY DEF WInv, FetchPage, command, listFile, Follows, EndsWithFirst, Intact
<1> QED
  BY <1>4, <1>6, <1>7 DEF WInv, Finished, FetchPage

LEMMA RowKeeps == WInv /\ WriteRow => WInv'
<1> SUFFICES ASSUME WInv, WriteRow
             PROVE  WInv'
  OBVIOUS
<1>1. Typed /\ AtPage /\ (Intact => EndsWithFirst(written))
  BY DEF WInv, Follows, WriteRow
<1>2. /\ written + Len(data) = PageEnd /\ PageEnd <= Len(items)
      /\ \A i \in 1..Len(data) : data[i] = items[written + i]
      /\ written \in Nat /\ Len(data) \in Nat /\ Len(items) \in Nat /\ Len(out) \in Nat
  BY <1>1, WalkFacts DEF AtPage, WriteRow, Typed
<1>3. /\ Head(data) = data[1] /\ Tail(data) \in Seq(ToSet(items))
      /\ Len(data) >= 1 /\ Len(Tail(data)) = Len(data) - 1
      /\ \A i \in 1..Len(data) - 1 : Tail(data)[i] = data[i + 1]
      /\ Head(data) \in ToSet(items)
  BY <1>1, <1>2, EmptySeq, HeadTailProperties DEF WriteRow, Typed
<1>4. Head(data) = items[written + 1]
  BY <1>2, <1>3
<1>5. /\ out' \in Seq(Lines)
      /\ Intact' => Intact /\ out' = Append(out, Head(data))
  BY <1>1, <1>3, AppendedRow DEF Typed, Lines, WriteRow, Intact
<1>6. /\ data' = Tail(data) /\ written' = written + 1
      /\ UNCHANGED <<command, created, listPhase, listExit, page, size, runs, kills>>
      /\ MayWrite
  BY DEF WriteRow
<1>7. Typed'
  BY <1>1, <1>2, <1>3, <1>5, <1>6 DEF Typed, Lines, command
<1>8. Follows'
  <2>1. SUFFICES ASSUME Intact'
                 PROVE  EndsWithFirst(written)'
    BY DEF Follows
  <2>2. /\ out' = Append(out, Head(data)) /\ items' = items
        /\ written <= Len(items) /\ written <= Len(out)
        /\ \A i \in 1..written : out[Len(out) - written + i] = items[i]
    BY <1>1, <1>5, <1>6, <2>1 DEF EndsWithFirst, command
  <2>3. /\ Len(out') = Len(out) + 1
        /\ \A i \in 1..Len(out) : out'[i] = out[i]
        /\ out'[Len(out) + 1] = Head(data)
    BY <1>1, <1>3, <2>2, AppendProperties DEF Typed, Lines
  <2>4. ASSUME NEW i \in 1..written + 1
        PROVE  out'[(Len(out) + 1) - (written + 1) + i] = items[i]
    <3>1. CASE i = written + 1
      <4>1. (Len(out) + 1) - (written + 1) + i = Len(out) + 1
        BY <1>2, <3>1
      <4> QED
        BY <1>4, <2>3, <3>1, <4>1
    <3>2. CASE i \in 1..written
      <4>1. /\ (Len(out) + 1) - (written + 1) + i = Len(out) - written + i
            /\ Len(out) - written + i \in 1..Len(out)
        BY <1>2, <2>2, <3>2
      <4> QED
        BY <2>2, <2>3, <3>2, <4>1
    <3> QED
      BY <1>2, <3>1, <3>2
  <2>5. written + 1 <= Len(items) /\ written + 1 <= Len(out')
    BY <1>2, <1>3, <2>2, <2>3
  <2>6. \A i \in 1..written + 1 : out'[Len(out') - (written + 1) + i] = items[i]
    BY <2>3, <2>4
  <2> QED
    BY <1>6, <2>2, <2>5, <2>6 DEF EndsWithFirst
<1>9. AtPage'
  <2>1. Offset' = Offset /\ PageEnd' = PageEnd /\ FirstPage' = FirstPage
    BY <1>6 DEF Offset, PageEnd, FirstPage, command
  <2>2. written' + Len(data') = PageEnd
    BY <1>2, <1>3, <1>6
  <2>3. ASSUME NEW i \in 1..Len(data')
        PROVE  data'[i] = items[written' + i]
    <3>1. i + 1 \in 1..Len(data) /\ written + 1 + i = written + (i + 1) /\ i \in 1..Len(data) - 1
      BY <1>2, <1>3, <1>6
    <3> QED
      BY <1>2, <1>3, <1>6, <3>1
  <2>4. tool = "sekolah" => written + 1 <= maxRecords
    BY <1>1, <1>2, <1>6 DEF MayWrite, Capped, Typed
  <2> QED
    BY <1>1, <1>6, <2>1, <2>2, <2>3, <2>4 DEF AtPage, WriteRow, command
<1> QED
  BY <1>6, <1>7, <1>8, <1>9 DEF WInv, Finished, WriteRow

LEMMA FlushKeeps == WInv /\ FlushPage => WInv'
<1> SUFFICES ASSUME WInv, FlushPage
             PROVE  WInv'
  OBVIOUS
<1>1. Typed' /\ Follows'
  BY DEF WInv, FlushPage, Typed, Lines, command, listFile, Follows, EndsWithFirst, Intact
<1>2. Offset' = Offset /\ PageEnd' = PageEnd /\ FirstPage' = FirstPage /\ Capped' = Capped
  BY DEF FlushPage, Offset, PageEnd, FirstPage, Capped, command, listFile
<1>3. AtPage'
  BY <1>2 DEF WInv, AtPage, FlushPage, MayWrite, command
<1> QED
  BY <1>1, <1>3 DEF WInv, Finished, FlushPage

(* What makes a page the last one: its end is the end of the list, or the   *)
(* cap is reached.                                                          *)
LEMMA LastPageFacts ==
  ASSUME Typed, AtPage, listPhase = "check"
  PROVE  /\ IsLastPage => written = Len(Expected)
         /\ ~IsLastPage => /\ data = <<>> /\ written = Offset + PageSize
                           /\ Offset + PageSize <= Len(items)
<1>1. /\ Offset \in Nat /\ Offset <= Len(items) /\ PageSize \in Nat \ {0}
      /\ Len(items) \in Nat /\ page \in Nat /\ page >= FirstPage
      /\ FirstPage = IF tool = "sekolah" THEN 0 ELSE 1
      /\ size = PageEnd - Offset /\ written + Len(data) = PageEnd /\ written \in Nat
      /\ Len(data) \in Nat /\ (data = <<>> => Len(data) = 0)
      /\ PageEnd = IF Offset + PageSize <= Len(items) THEN Offset + PageSize ELSE Len(items)
      /\ data = <<>> \/ Capped
  BY WalkFacts, EmptySeq DEF AtPage, Typed, PageEnd, FirstPage
<1>2. CASE tool = "sekolah"
  <2>1. /\ maxRecords \in Nat /\ maxRecords > 0 /\ written <= maxRecords
        /\ Capped <=> written >= maxRecords
        /\ IsLastPage <=> Capped \/ size < PageSize
    BY <1>2 DEF Typed, AtPage, Capped, IsLastPage, LastBySize
  <2>2. Expected = SubSeq(items, 1, Min({maxRecords, Len(items)}))
    BY <1>2 DEF Expected
  <2>3. PICK e \in Nat : /\ e = Min({maxRecords, Len(items)})
                         /\ e = IF maxRecords <= Len(items) THEN maxRecords ELSE Len(items)
    BY <1>1, <2>1, MinOfTwo
  <2>4. Len(Expected) = e
    <3>1. \A i \in 1..e : items[i] \in ToSet(items)
      BY <1>1, <2>1, <2>3, ElementOfSeq DEF Typed
    <3>2. Len(SubSeq(items, 1, e)) = IF 1 <= e THEN e - 1 + 1 ELSE 0
      BY <3>1, SubSeqProperties
    <3> QED
      BY <2>2, <2>3, <3>2
  <2>5. IsLastPage => written = e
    BY <1>1, <2>1, <2>3
  <2>6. ~IsLastPage => data = <<>> /\ written = Offset + PageSize /\ Offset + PageSize <= Len(items)
    BY <1>1, <2>1
  <2> QED
    BY <2>4, <2>5, <2>6
<1>3. CASE tool = "pddikti"
  <2>1. data = <<>> /\ Expected = items /\ FirstPage = 1
    BY <1>1, <1>3 DEF Capped, Expected
  <2>2. IsLastPage <=> page >= TotalPages \/ size = 0
    BY <1>3 DEF IsLastPage, LastByTotal
  <2>3. page >= TotalPages <=> page * PageSize >= Len(items)
    BY <1>1, RoundedUp DEF TotalPages
  <2>4. page * PageSize = Offset + PageSize
    <3>1. PICK k \in Nat : k = page - 1 /\ page = k + 1
      BY <1>1, <2>1
    <3>2. (k + 1) * PageSize = k * PageSize + PageSize
      BY <1>1
    <3> QED
      BY <2>1, <3>1, <3>2 DEF Offset
  <2> QED
    BY <1>1, <2>1, <2>2, <2>3, <2>4
<1> QED
  BY <1>2, <1>3 DEF Typed

LEMMA NextPageKeeps == WInv /\ NextPage => WInv'
<1> SUFFICES ASSUME WInv, NextPage
             PROVE  WInv'
  OBVIOUS
<1>1. /\ Typed /\ AtPage /\ data = <<>> /\ written = Offset + PageSize
      /\ Offset + PageSize <= Len(items)
  BY LastPageFacts DEF WInv, NextPage
<1>2. Typed' /\ Follows'
  BY DEF WInv, NextPage, Typed, Lines, command, listFile, Follows, EndsWithFirst, Intact
<1>3. FirstPage' = FirstPage
  BY DEF NextPage, FirstPage, command
<1>4. Offset' = Offset + PageSize
  <2>1. PICK k \in Nat : k = page - FirstPage /\ page' - FirstPage = k + 1
    BY <1>1, WalkFacts DEF AtPage, NextPage, Typed
  <2>2. (k + 1) * PageSize = k * PageSize + PageSize
    BY ListAssumption
  <2> QED
    BY <1>3, <2>1, <2>2 DEF Offset
<1>5. AtPage'
  <2>1. page' >= FirstPage'
    BY <1>1, <1>3, WalkFacts DEF AtPage, NextPage, Typed
  <2> QED
    BY <1>1, <1>4, <2>1 DEF AtPage, NextPage, command
<1> QED
  BY <1>2, <1>5 DEF WInv, Finished, NextPage

LEMMA FinishKeeps == WInv /\ FinishList => WInv'
<1> SUFFICES ASSUME WInv, FinishList
             PROVE  WInv'
  OBVIOUS
<1>1. Typed /\ written = Len(Expected)
  BY LastPageFacts DEF WInv, FinishList
<1>2. Typed'
  BY <1>1 DEF FinishList, ListEnds, Typed, Lines, command, listFile
<1>3. Follows'
  BY DEF WInv, FinishList, ListEnds, Follows, EndsWithFirst, Intact, command, listFile
<1>4. Expected' = Expected /\ written' = written /\ listPhase' = "down"
  BY DEF FinishList, ListEnds, Expected, command
<1> QED
  BY <1>1, <1>2, <1>3, <1>4 DEF WInv, Finished

(* A command that does not succeed leaves nothing to be shown but the types. *)
LEMMA StopKeeps ==
  ASSUME WInv, NEW how \in {"error", "killed"}, ListEnds(how),
         UNCHANGED command, out' \in Seq(Lines)
  PROVE  WInv'
<1>1. Typed'
  BY DEF WInv, ListEnds, Typed, Lines, command
<1> QED
  BY <1>1 DEF ListEnds, WInv, Follows, Finished

LEMMA FailKeeps == WInv /\ ListFails => WInv'
BY StopKeeps DEF ListFails, listFile, WInv, Typed

LEMMA KillKeeps == WInv /\ KillList => WInv'
<1> SUFFICES ASSUME WInv, KillList
             PROVE  WInv'
  OBVIOUS
<1>1. Append(out, Torn) \in Seq(Lines) /\ out \in Seq(Lines)
  BY AppendProperties DEF WInv, Typed, Lines
<1>2. out' \in Seq(Lines)
  BY <1>1 DEF KillList, Cut
<1> QED
  BY <1>2, StopKeeps DEF KillList

-----------------------------------------------------------------------------
LEMMA WInvStep == WInv /\ [ListNext]_listVars => WInv'
<1> SUFFICES ASSUME WInv, [ListNext]_listVars
             PROVE  WInv'
  OBVIOUS
<1>1. CASE UNCHANGED listVars
  BY <1>1 DEF WInv, Typed, Lines, Follows, EndsWithFirst, Intact, AtPage, Offset, PageEnd,
             FirstPage, Capped, Finished, Expected, listVars, command, listFile
<1> QED
  BY <1>1, StartKeeps, HeaderKeeps, FetchKeeps, FailKeeps, RowKeeps, FlushKeeps,
     NextPageKeeps, FinishKeeps, KillKeeps DEF ListNext, ListStep

(* The file ends with the items that were to be listed, place by place. *)
LEMMA ExactByIndex ==
  ASSUME WInv, listPhase = "down", listExit = "ok", Intact
  PROVE  /\ out \in Seq(Lines) /\ Expected \in Seq(Lines) /\ written = Len(Expected)
         /\ Len(items) \in Nat /\ Len(out) \in Nat /\ Len(Expected) \in Nat
         /\ Len(Expected) <= Len(items) /\ Len(Expected) <= Len(out)
         /\ \A i \in 1..Len(Expected) : /\ Expected[i] = items[i]
                                       /\ out[Len(out) - Len(Expected) + i] = Expected[i]
<1>1. Typed /\ EndsWithFirst(written) /\ written = Len(Expected)
  BY DEF WInv, Follows, Finished
<1>2. /\ Len(items) \in Nat /\ Len(out) \in Nat /\ written \in Nat
      /\ written <= Len(items) /\ written <= Len(out)
  BY <1>1, WalkFacts DEF EndsWithFirst, Typed
<1>3. /\ Expected \in Seq(Lines)
      /\ \A i \in 1..written : Expected[i] = items[i]
  <2>1. CASE tool = "sekolah"
    <3>1. maxRecords \in Nat /\ Expected = SubSeq(items, 1, Min({maxRecords, Len(items)}))
      BY <1>1, <2>1 DEF Expected, Typed
    <3>2. PICK e \in Nat : e = Min({maxRecords, Len(items)}) /\ e <= Len(items)
      BY <1>2, <3>1, MinOfTwo
    <3>3. \A i \in 1..e : items[i] \in Lines
      BY <1>1, <1>2, <3>2, ElementOfSeq DEF Typed, Lines
    <3>4. /\ SubSeq(items, 1, e) \in Seq(Lines) /\ Len(SubSeq(items, 1, e)) = e
          /\ \A i \in 1..e : SubSeq(items, 1, e)[i] = items[i]
      BY <3>3, SubSeqProperties
    <3> QED
      BY <1>1, <3>1, <3>2, <3>4
  <2>2. CASE tool = "pddikti"
    BY <1>1, <2>2 DEF Expected, Typed, Lines
  <2> QED
    BY <1>1, <2>1, <2>2 DEF Typed
<1>4. \A i \in 1..Len(Expected) : out[Len(out) - Len(Expected) + i] = Expected[i]
  BY <1>1, <1>3 DEF EndsWithFirst
<1> QED
  BY <1>1, <1>2, <1>3, <1>4 DEF Typed

LEMMA WInvExact == WInv => SuccessIsExact
<1> SUFFICES ASSUME WInv, listPhase = "down", listExit = "ok", Intact
             PROVE  IsSuffix(Expected, out) /\ written = Len(Expected)
  BY DEF SuccessIsExact, Intact
<1> QED
  BY ExactByIndex, SuffixByIndex

(* The commands of the pipeline run the list command or leave it alone. *)
LEMMA PipelineStep == [Next /\ Bounded']_vars => [ListNext]_listVars
BY DEF Next, List, ListRuns, ListKilled, SplitList, SplitRuns, DetailWhole, RunParts,
       DetailRuns, Trouble, ListNext, vars

(* runSimpleList (list.go:344-408) and runList (pddikti main.go:355-403): a *)
(* list command that exits with 0 has appended exactly what it was asked    *)
(* for, whatever other commands run, are killed or fail around it.          *)
THEOREM ListsAreExact == Spec => []SuccessIsExact
<1>1. Init => WInv
  BY WInit DEF Init
<1>2. WInv /\ [Next /\ Bounded']_vars => WInv'
  BY WInvStep, PipelineStep
<1> QED
  BY <1>1, <1>2, WInvExact, PTL DEF Spec
-----------------------------------------------------------------------------
(* The lines of a file. *)

BodyLine == Items \cup {Torn, Garbled}
AnyLine  == BodyLine \cup {Header}

USE SplitAssumption, RunnerAssumption, FlowAssumption

(* Only the first line may be a header. *)
Headless(file) == ToSet(DataRows(file)) \subseteq BodyLine

LEMMA RowsOfFile ==
  ASSUME NEW S, NEW file \in Seq(S)
  PROVE  /\ DataRows(file) \in Seq(S) /\ ToSet(DataRows(file)) \subseteq ToSet(file)
         /\ Len(DataRows(file)) \in Nat
         /\ Len(DataRows(file)) = IF file = <<>> THEN 0 ELSE Len(file) - 1
         /\ \A i \in 1..Len(DataRows(file)) : i + 1 \in 1..Len(file) /\ DataRows(file)[i] = file[i + 1]
<1>1. CASE file = <<>>
  <2>1. DataRows(file) = <<>>
    BY <1>1 DEF DataRows
  <2>2. <<>> \in Seq(S) /\ Len(<<>>) = 0 /\ ToSet(<<>>) = {}
    BY EmptySeq DEF ToSet
  <2>3. DataRows(file) \in Seq(S) /\ Len(DataRows(file)) = 0 /\ ToSet(DataRows(file)) = {}
    BY <2>1, <2>2
  <2> QED
    BY <1>1, <2>3
<1>2. CASE file # <<>>
  <2>1. /\ DataRows(file) = Tail(file) /\ Tail(file) \in Seq(S)
        /\ Len(Tail(file)) = Len(file) - 1 /\ Len(file) \in Nat \ {0}
        /\ \A i \in 1..Len(Tail(file)) : Tail(file)[i] = file[i + 1]
        /\ ToSet(Tail(file)) \subseteq ToSet(file)
    BY <1>2, HeadTailProperties, EmptySeq, WithinSeq DEF DataRows
  <2> QED
    BY <1>2, <2>1
<1> QED
  BY <1>1, <1>2

(* A file written as a first line and the rest. *)
LEMMA FileWithFirst ==
  ASSUME NEW S, NEW h \in S, NEW t \in Seq(S)
  PROVE  LET file == <<h>> \o t
         IN  /\ file \in Seq(S) /\ file # <<>> /\ Len(file) = Len(t) + 1
             /\ file[1] = h /\ Head(file) = h /\ DataRows(file) = t
             /\ ToSet(file) = {h} \cup ToSet(t)
<1> DEFINE file == <<h>> \o t
<1>1. PICK g \in Seq(S) : g = <<h>> /\ Len(g) = 1 /\ g[1] = h /\ ToSet(g) = {h}
  <2>1. <<h>> \in Seq(S) /\ Len(<<h>>) = 1 /\ <<h>>[1] = h
    OBVIOUS
  <2>2. ToSet(<<h>>) = {h}
    BY DEF ToSet
  <2> QED
    BY <2>1, <2>2
<1>2. /\ file \in Seq(S) /\ Len(file) = 1 + Len(t) /\ Len(t) \in Nat
      /\ \A i \in 1..1 + Len(t) : file[i] = IF i <= 1 THEN g[i] ELSE t[i - 1]
      /\ ToSet(file) = {h} \cup ToSet(t)
  <2>1. file = g \o t
    BY <1>1
  <2>2. /\ g \o t \in Seq(S) /\ Len(g \o t) = Len(g) + Len(t)
        /\ \A i \in 1..Len(g) + Len(t) : (g \o t)[i] = IF i <= Len(g) THEN g[i] ELSE t[i - Len(g)]
    BY ConcatProperties
  <2>3. ToSet(g \o t) = ToSet(g) \cup ToSet(t) /\ Len(t) \in Nat
    BY ConcatToSet, LenProperties
  <2> QED
    BY <1>1, <2>1, <2>2, <2>3
<1> HIDE DEF file
<1>3. file # <<>> /\ file[1] = h /\ Head(file) = h
  <2>1. Len(file) # 0 /\ Len(<<>>) = 0
    BY <1>2, EmptySeq
  <2>2. file # <<>>
    BY <2>1
  <2>3. 1 \in 1..1 + Len(t)
    BY <1>2
  <2>4. file[1] = h
    BY <1>1, <1>2, <2>3
  <2> QED
    BY <1>2, <2>2, <2>4
<1>4. /\ DataRows(file) \in Seq(S) /\ Len(DataRows(file)) = Len(t)
      /\ \A i \in 1..Len(t) : DataRows(file)[i] = file[i + 1]
  BY <1>2, <1>3, RowsOfFile
<1>5. \A i \in 1..Len(t) : file[i + 1] = t[i]
  <2>1. \A i \in 1..Len(t) : i + 1 \in 1..1 + Len(t) /\ ~(i + 1 <= 1) /\ (i + 1) - 1 = i
    BY <1>2
  <2> QED
    BY <1>2, <2>1
<1>6. DataRows(file) = t
  BY <1>4, <1>5, SeqEqual
<1> QED
  BY <1>2, <1>3, <1>6 DEF file

(* What writers, killed or not, do to a file that has its first line: lines *)
(* are added, and a torn one may become garbled.                            *)
Grown(file, lines) ==
  /\ lines \in Seq(AnyLine) /\ Len(file) <= Len(lines)
  /\ \A i \in 1..Len(file) : lines[i] = file[i] \/ (file[i] = Torn /\ lines[i] = Garbled)
  /\ \A i \in Len(file) + 1..Len(lines) : lines[i] \in BodyLine

LEMMA AppendGrows ==
  ASSUME NEW file \in Seq(AnyLine), NEW row \in BodyLine
  PROVE  Grown(file, Append(file, row))
<1>1. row \in AnyLine
  BY DEF AnyLine
<1>2. /\ Append(file, row) \in Seq(AnyLine) /\ Len(Append(file, row)) = Len(file) + 1
      /\ \A i \in 1..Len(file) : Append(file, row)[i] = file[i]
      /\ Append(file, row)[Len(file) + 1] = row /\ Len(file) \in Nat
  BY <1>1, AppendProperties, LenProperties
<1>3. \A i \in Len(file) + 1..Len(file) + 1 : i = Len(file) + 1
  BY <1>2
<1> QED
  BY <1>2, <1>3 DEF Grown

LEMMA AppendedGrows ==
  ASSUME NEW file \in Seq(AnyLine), NEW row \in Items, NEW lines \in Appended(file, row)
  PROVE  Grown(file, lines)
<1>1. Len(file) \in Nat /\ \A i \in 1..Len(file) : file[i] \in AnyLine
  BY LenProperties, ElementOfSeq
<1>2. Grown(file, file)
  BY <1>1 DEF Grown
<1>3. CASE lines = Append(Front(file), Garbled) /\ file # <<>> /\ Last(file) = Torn
  <2>1. PICK n \in Nat : n = Len(file) /\ n >= 1 /\ file[n] = Torn
    BY <1>1, <1>3, EmptySeq DEF Last
  <2>2. /\ Front(file) \in Seq(AnyLine) /\ Len(Front(file)) = n - 1
        /\ \A i \in 1..n - 1 : Front(file)[i] = file[i]
    <3>1. \A i \in 1..n - 1 : file[i] \in AnyLine
      BY <1>1, <2>1
    <3>2. Front(file) = SubSeq(file, 1, n - 1)
      BY <2>1 DEF Front
    <3> QED
      BY <2>1, <3>1, <3>2, SubSeqProperties
  <2>3. Garbled \in AnyLine
    BY DEF AnyLine, BodyLine
  <2>4. /\ lines \in Seq(AnyLine) /\ Len(lines) = n
        /\ \A i \in 1..n - 1 : lines[i] = file[i]
        /\ lines[n] = Garbled
    BY <1>3, <2>1, <2>2, <2>3, AppendProperties
  <2>5. \A i \in 1..n : lines[i] = file[i] \/ (file[i] = Torn /\ lines[i] = Garbled)
    BY <2>1, <2>4
  <2>6. n + 1..n = {}
    BY <2>1
  <2> QED
    BY <2>1, <2>4, <2>5, <2>6 DEF Grown
<1>4. Grown(file, Append(file, row))
  BY AppendGrows DEF BodyLine
<1> QED
  BY <1>2, <1>3, <1>4 DEF Appended

LEMMA CutGrows ==
  ASSUME NEW file \in Seq(AnyLine), NEW lines \in Cut(file)
  PROVE  Grown(file, lines)
<1>1. Len(file) \in Nat
  BY LenProperties
<1>2. Grown(file, file)
  BY <1>1 DEF Grown
<1>3. Grown(file, Append(file, Torn))
  BY AppendGrows DEF BodyLine
<1> QED
  BY <1>2, <1>3 DEF Cut

LEMMA GrownKeeps ==
  ASSUME NEW file \in Seq(AnyLine), NEW lines, Grown(file, lines), Headless(file)
  PROVE  /\ Headless(lines)
         /\ ItemsOnce(lines) => ItemsOnce(file)
         /\ ToSet(DataRows(file)) \cap Items \subseteq ToSet(DataRows(lines))
<1>1. /\ Len(file) \in Nat /\ DOMAIN file = 1..Len(file) /\ lines \in Seq(AnyLine)
      /\ Len(lines) \in Nat /\ DOMAIN lines = 1..Len(lines) /\ Len(file) <= Len(lines)
  BY LenProperties DEF Grown
<1>2. PICK n \in Nat, m \in Nat : n = Len(file) /\ m = Len(lines) /\ n <= m
  BY <1>1
<1>3. \A i \in 1..n : file[i] \in Items => lines[i] = file[i]
  BY <1>2 DEF Grown
<1>4. ItemsOnce(lines) => ItemsOnce(file)
  <2>1. SUFFICES ASSUME ItemsOnce(lines), NEW i \in 1..n, NEW j \in 1..n,
                        file[i] = file[j], file[i] \in Items
                 PROVE  i = j
    BY <1>1, <1>2 DEF ItemsOnce
  <2>2. i \in 1..m /\ j \in 1..m
    BY <1>2
  <2> QED
    BY <1>1, <1>2, <1>3, <2>1, <2>2 DEF ItemsOnce
<1>5. /\ DataRows(lines) \in Seq(AnyLine) /\ DataRows(file) \in Seq(AnyLine)
      /\ Len(DataRows(lines)) = IF lines = <<>> THEN 0 ELSE m - 1
      /\ \A i \in 1..Len(DataRows(lines)) : DataRows(lines)[i] = lines[i + 1]
      /\ Len(DataRows(file)) = IF file = <<>> THEN 0 ELSE n - 1
      /\ \A i \in 1..Len(DataRows(file)) : DataRows(file)[i] = file[i + 1]
      /\ lines = <<>> => m = 0
      /\ file = <<>> => n = 0
  BY <1>1, <1>2, RowsOfFile, EmptySeq
<1>6. /\ DOMAIN DataRows(lines) = 1..Len(DataRows(lines))
      /\ DOMAIN DataRows(file) = 1..Len(DataRows(file))
  BY <1>5, LenProperties
<1>7. Headless(lines)
  <2>1. SUFFICES ASSUME NEW i \in 1..Len(DataRows(lines))
                 PROVE  lines[i + 1] \in BodyLine
    <3>1. ToSet(DataRows(lines)) = {DataRows(lines)[i] : i \in 1..Len(DataRows(lines))}
      BY <1>6 DEF ToSet
    <3>2. \A i \in 1..Len(DataRows(lines)) : DataRows(lines)[i] = lines[i + 1]
      BY <1>5
    <3> QED
      BY <3>1, <3>2 DEF Headless
  <2>2. i + 1 \in 1..m
    <3>1. Len(DataRows(lines)) = IF lines = <<>> THEN 0 ELSE m - 1
      BY <1>5
    <3>2. lines = <<>> \/ i \in 1..m - 1
      BY <3>1
    <3>3. lines # <<>>
      BY <1>2, <3>1
    <3> QED
      BY <1>2, <3>2, <3>3
  <2>3. CASE i + 1 > n
    BY <1>2, <2>2, <2>3 DEF Grown
  <2>4. CASE i + 1 <= n
    <3>1. i \in 1..Len(DataRows(file)) /\ i + 1 \in 1..n
      BY <1>2, <1>5, <2>2, <2>4
    <3>2. file[i + 1] \in BodyLine
      BY <1>5, <1>6, <3>1 DEF Headless, ToSet
    <3> QED
      BY <1>2, <3>1, <3>2 DEF Grown, BodyLine
  <2> QED
    BY <1>2, <2>2, <2>3, <2>4
<1>8. ToSet(DataRows(file)) \cap Items \subseteq ToSet(DataRows(lines))
  <2>1. SUFFICES ASSUME NEW i \in 1..Len(DataRows(file)), DataRows(file)[i] \in Items
                 PROVE  /\ i \in 1..Len(DataRows(lines))
                        /\ DataRows(lines)[i] = DataRows(file)[i]
    BY <1>6 DEF ToSet
  <2>2. i + 1 \in 1..n /\ i \in 1..Len(DataRows(lines))
    BY <1>2, <1>5, EmptySeq
  <2> QED
    BY <1>3, <1>5, <2>1, <2>2
<1> QED
  BY <1>4, <1>7, <1>8
-----------------------------------------------------------------------------
(* The list side: types, and what becomes of the output. *)

OutFile ==
  /\ Headless(out)
  /\ ~created \/ listPhase = "header" => out = <<>>
  /\ listPhase # "down" => created /\ listExit = "none"

ListSide == WInv /\ ListTypeOK /\ OutFile

(* How a step of the list command may change its output. *)
OutGrows == out' = out \/ (out = <<>> /\ out' = <<Header>>) \/ Grown(out, out')

LEMMA MaxOfTwo ==
  ASSUME NEW a \in Nat, NEW b \in Nat
  PROVE  Max({a, b}) = IF a >= b THEN a ELSE b
<1> DEFINE m == IF a >= b THEN a ELSE b
<1>1. m \in {a, b} /\ \A y \in {a, b} : m >= y
  OBVIOUS
<1>2. ASSUME NEW x \in {a, b}, \A y \in {a, b} : x >= y
      PROVE  x = m
  BY <1>2
<1> QED
  BY <1>1, <1>2 DEF Max

LEMMA OutTyped == ListSide => out \in Seq(AnyLine) /\ ToSet(items) \subseteq Items
<1> SUFFICES ASSUME ListSide
             PROVE  out \in Seq(AnyLine) /\ ToSet(items) \subseteq Items
  OBVIOUS
<1>1. items \in Lists /\ out \in Seq(ToSet(items) \cup {Header, Torn, Garbled})
  BY DEF ListSide, ListTypeOK
<1>2. ToSet(items) \subseteq Items
  BY <1>1
<1> DEFINE S == ToSet(items) \cup {Header, Torn, Garbled}
<1>3. S \subseteq AnyLine
  BY <1>2 DEF AnyLine, BodyLine
<1>4. out \in Seq(S)
  BY <1>1
<1> HIDE DEF S
<1> QED
  BY <1>2, <1>3, <1>4, SeqMonotonic

LEMMA ListSideInit == ListInit => ListSide
<1> SUFFICES ASSUME ListInit
             PROVE  ListSide
  OBVIOUS
<1>1. WInv
  BY WInit
<1>2. Typed
  BY <1>1 DEF WInv
<1>3. page \in 0..Max({1, TotalPages})
  <2>1. TotalPages \in Nat
    BY <1>2, WalkFacts DEF TotalPages
  <2>2. Max({1, TotalPages}) \in Nat
    BY <2>1, MaxOfTwo
  <2> QED
    BY <2>2 DEF ListInit
<1>4. ListTypeOK
  <2>1. /\ tool \in Tools /\ items \in Lists /\ maxRecords \in Caps \cup {0}
        /\ created \in BOOLEAN /\ listPhase = "down" /\ listExit = "none" /\ page = 0
    BY DEF ListInit
  <2>2. 0 \in 0..PageSize /\ 0 \in 0..MaxRuns /\ 0 \in 0..MaxKills
    OBVIOUS
  <2>3. out \in Seq(ToSet(items) \cup {Header, Torn, Garbled}) /\ data \in Seq(ToSet(items))
    BY <1>2 DEF Typed, Lines
  <2>4. size \in 0..PageSize /\ written \in Nat /\ runs \in 0..MaxRuns /\ kills \in 0..MaxKills
    BY <2>2 DEF ListInit
  <2> QED
    BY <1>3, <2>1, <2>3, <2>4, Zenon DEF ListTypeOK
<1>5. Headless(out)
  <2>1. DataRows(<<>>) = <<>> /\ ToSet(<<>>) = {}
    BY DEF DataRows, ToSet
  <2> QED
    BY <2>1 DEF ListInit, Headless
<1> QED
  BY <1>1, <1>4, <1>5 DEF ListSide, OutFile, ListInit

(* The next page is one that exists, or the one after a full last page. *)
LEMMA PageInRange ==
  ASSUME WInv, ListTypeOK, [ListNext]_listVars
  PROVE  page' \in 0..Max({1, TotalPages})' /\ size' \in 0..PageSize
<1>1. /\ TotalPages' = TotalPages /\ items' = items /\ tool' = tool
  BY DEF ListNext, ListStep, StartList, WriteHeader, FetchPage, ListFails, WriteRow, FlushPage,
     NextPage, FinishList, KillList, listVars, command, TotalPages
<1>2. TotalPages \in Nat /\ Typed /\ Len(items) \in Nat /\ PageSize \in Nat \ {0}
  BY WalkFacts DEF TotalPages, WInv
<1>3. PICK t \in Nat : t = TotalPages
  BY <1>2
<1>4. PICK m \in Nat : m = Max({1, TotalPages}) /\ 1 <= m /\ t <= m /\ Max({1, TotalPages})' = m
  <2>1. Max({1, t}) = IF 1 >= t THEN 1 ELSE t
    BY MaxOfTwo
  <2> QED
    BY <1>1, <1>3, <2>1
<1>5. page \in 0..m /\ size \in 0..PageSize
  BY <1>4 DEF ListTypeOK
<1>6. CASE StartList
  BY <1>1, <1>2, <1>4, <1>6 DEF StartList, FirstPage
<1>7. CASE FetchPage
  <2>1. Offset \in Nat /\ Offset <= Len(items) /\ page >= FirstPage
    BY <1>2, <1>7, WalkFacts DEF WInv, AtPage, FetchPage
  <2>2. Len(PageOf(page)) = PageEnd - Offset
    BY <1>2, <2>1, PageFacts
  <2>3. PageEnd - Offset \in 0..PageSize
    BY <1>2, <2>1 DEF PageEnd
  <2> QED
    BY <1>4, <1>5, <1>7, <2>2, <2>3 DEF FetchPage
<1>8. CASE NextPage
  <2>1. /\ AtPage /\ written = Offset + PageSize /\ Offset + PageSize <= Len(items)
        /\ page' = page + 1 /\ size' = size /\ ~IsLastPage
    BY <1>2, <1>8, LastPageFacts DEF WInv, NextPage
  <2>2. page < t
    <3>1. CASE tool = "sekolah"
      <4>1. Offset = page * PageSize /\ page \in Nat
        BY <1>2, <3>1 DEF Offset, FirstPage, Typed
      <4>2. page * PageSize < Len(items)
        BY <1>2, <2>1, <4>1
      <4>3. page >= t <=> page * PageSize >= Len(items)
        BY <1>2, <1>3, <4>1, RoundedUp DEF TotalPages
      <4>4. page * PageSize \in Nat
        BY <1>2, <4>1
      <4> QED
        BY <1>2, <4>1, <4>2, <4>3, <4>4
    <3>2. CASE tool # "sekolah"
      BY <1>2, <1>3, <2>1, <3>2 DEF IsLastPage, LastByTotal, Typed
    <3> QED
      BY <3>1, <3>2
  <2> QED
    BY <1>4, <1>5, <2>1, <2>2
<1>9. CASE WriteHeader \/ WriteRow \/ FlushPage
  BY <1>4, <1>5, <1>9 DEF WriteHeader, WriteRow, FlushPage
<1>10. CASE ListFails \/ FinishList \/ KillList
  BY <1>2, <1>4, <1>10 DEF ListFails, FinishList, KillList, ListEnds
<1>11. CASE UNCHANGED listVars
  BY <1>4, <1>5, <1>11 DEF listVars
<1> QED
  BY <1>6, <1>7, <1>8, <1>9, <1>10, <1>11 DEF ListNext, ListStep

LEMMA OutStep ==
  ASSUME ListSide, [ListNext]_listVars
  PROVE  OutGrows /\ OutFile'
<1>1. out \in Seq(AnyLine) /\ ToSet(items) \subseteq Items
  BY OutTyped
<1>2. ASSUME out' = out
      PROVE  OutGrows /\ Headless(out')
  BY <1>2 DEF OutGrows, ListSide, OutFile
<1>3. ASSUME Grown(out, out')
      PROVE  OutGrows /\ Headless(out')
  BY <1>1, <1>3, GrownKeeps DEF OutGrows, ListSide, OutFile
<1>4. CASE StartList
  <2>1. /\ out' = out /\ created' /\ listExit' = "none" /\ (listPhase' = "header" => ~created)
    BY <1>4 DEF StartList
  <2> QED
    BY <1>2, <2>1 DEF ListSide, OutFile, Headless
<1>5. CASE WriteHeader
  <2>1. /\ out = <<>> /\ listPhase' = "fetch" /\ out' = Append(out, Header) /\ created' = created
        /\ created /\ listExit' = "none"
    BY <1>5 DEF WriteHeader, ListSide, OutFile
  <2>2. out' = <<Header>>
    BY <2>1
  <2>3. DataRows(<<Header>>) = <<>> /\ ToSet(<<>>) = {}
    BY DEF DataRows, ToSet
  <2> QED
    BY <2>1, <2>2, <2>3 DEF OutFile, OutGrows, Headless
<1>6. CASE WriteRow
  <2>1. /\ out' \in Appended(out, Head(data)) /\ data # <<>> /\ listPhase' = "rows"
        /\ created' = created /\ listExit' = listExit /\ listPhase = "rows"
    BY <1>6 DEF WriteRow
  <2>2. Head(data) \in Items
    BY <1>1, <2>1, HeadTailProperties DEF ListSide, ListTypeOK
  <2>3. Grown(out, out')
    BY <1>1, <2>1, <2>2, AppendedGrows
  <2> QED
    BY <1>3, <2>1, <2>3 DEF ListSide, OutFile, Headless
<1>7. CASE KillList
  <2>1. out' = out \/ out' \in Cut(out)
    BY <1>7 DEF KillList
  <2>2. out' = out \/ Grown(out, out')
    BY <1>1, <2>1, CutGrows
  <2>3. created' = created /\ listPhase' = "down" /\ created
    BY <1>7 DEF KillList, ListEnds, ListSide, OutFile
  <2> QED
    BY <1>2, <1>3, <2>2, <2>3 DEF OutFile, Headless
<1>8. CASE FetchPage \/ FlushPage \/ NextPage
  <2>1. out' = out /\ created' = created /\ listExit' = listExit /\ listPhase # "down"
        /\ listPhase' \in {"fetch", "rows", "check"}
    BY <1>8 DEF FetchPage, FlushPage, NextPage, listFile
  <2> QED
    BY <1>2, <2>1 DEF ListSide, OutFile, Headless
<1>9. CASE ListFails \/ FinishList
  <2>1. out' = out /\ created' = created /\ listPhase' = "down"
    BY <1>9 DEF ListFails, FinishList, ListEnds, listFile
  <2> QED
    BY <1>2, <2>1 DEF ListSide, OutFile, Headless
<1>10. CASE UNCHANGED listVars
  BY <1>2, <1>10 DEF ListSide, OutFile, Headless, listVars, listFile
<1> QED
  BY <1>4, <1>5, <1>6, <1>7, <1>8, <1>9, <1>10 DEF ListNext, ListStep

LEMMA ListSideStep ==
  ASSUME ListSide, [ListNext]_listVars
  PROVE  ListSide' /\ OutGrows
<1>1. WInv' /\ OutFile' /\ OutGrows
  BY WInvStep, OutStep DEF ListSide
<1>2. page' \in 0..Max({1, TotalPages})' /\ size' \in 0..PageSize
  BY PageInRange DEF ListSide
<1>3. Typed'
  BY <1>1 DEF WInv
<1>4. /\ UNCHANGED command
      /\ listExit' \in {"none", "ok", "error", "killed"} /\ created' \in BOOLEAN
      /\ runs' \in 0..MaxRuns /\ kills' \in 0..MaxKills
  <2>1. /\ listExit \in {"none", "ok", "error", "killed"} /\ created \in BOOLEAN
        /\ runs \in 0..MaxRuns /\ kills \in 0..MaxKills
    BY DEF ListSide, ListTypeOK
  <2>2. UNCHANGED command /\ listExit' \in {listExit, "none", "ok", "error", "killed"}
    BY DEF ListNext, ListStep, StartList, WriteHeader, FetchPage, ListFails, WriteRow,
           FlushPage, NextPage, FinishList, KillList, ListEnds, listVars, listFile
  <2>3. created' = TRUE \/ created' = created
    BY DEF ListNext, ListStep, StartList, WriteHeader, FetchPage, ListFails, WriteRow,
           FlushPage, NextPage, FinishList, KillList, ListEnds, listVars, listFile
  <2>4. /\ runs' = runs \/ (runs < MaxRuns /\ runs' = runs + 1)
        /\ kills' = kills \/ (kills < MaxKills /\ kills' = kills + 1)
    BY DEF ListNext, ListStep, StartList, WriteHeader, FetchPage, ListFails, WriteRow,
           FlushPage, NextPage, FinishList, KillList, ListEnds, listVars, listFile
  <2>5. runs' \in 0..MaxRuns /\ kills' \in 0..MaxKills
    BY <2>1, <2>4
  <2>6. created' \in BOOLEAN
    BY <2>1, <2>3, Zenon
  <2> QED
    BY <2>1, <2>2, <2>5, <2>6, Zenon
<1>5. ListTypeOK'
  <2>1. /\ tool' \in Tools /\ items' \in Lists /\ maxRecords' \in Caps \cup {0}
    BY <1>4 DEF ListSide, ListTypeOK, command
  <2>2. /\ out' \in Seq(ToSet(items') \cup {Header, Torn, Garbled})
        /\ listPhase' \in {"down", "header", "fetch", "rows", "check"}
        /\ data' \in Seq(ToSet(items')) /\ written' \in Nat
    BY <1>3 DEF Typed, Lines
  <2>3. (page \in 0..Max({1, TotalPages}))' /\ size' \in 0..PageSize
    BY <1>2
  <2> QED
    BY <1>4, <2>1, <2>2, <2>3 DEF ListTypeOK
<1> QED
  BY <1>1, <1>5 DEF ListSide
-----------------------------------------------------------------------------
(* The split side: types, and what a split has read and written. *)

(* A running split has something to divide, and so has one that succeeded. *)
Started ==
  /\ splitPhase # "down" \/ splitExit = "ok" =>
       Len(splitOf) > 1 /\ Readable(splitOf) /\ Headless(splitOf)
  /\ splitPhase # "down" => splitExit = "none"
  /\ splitPhase \in {"chunk", "fill"} => chunkSize > 0 /\ done <= NumChunks
  /\ splitPhase = "fill" => done < NumChunks /\ done + 1 \in DOMAIN parts
  /\ splitPhase \in {"rows", "flush"} => chunkSize = 0 /\ done <= Len(Rows)
  /\ splitPhase = "flush" => done = Len(Rows)

(* No file of a part has a header below its first line. *)
PartsHeadless == \A n \in DOMAIN parts : Headless(parts[n])

SplitSide == /\ SplitTypeOK /\ Started /\ PartsHeadless
             /\ \A g \in DOMAIN opened : opened[g] \in Seq(AnyLine)

LEMMA AllLines == AnyLine = Items \cup {Header, Torn, Garbled}
BY DEF AnyLine, BodyLine

LEMMA SplitSideInit == SplitInit => SplitSide
<1> SUFFICES ASSUME SplitInit
             PROVE  SplitSide
  OBVIOUS
<1>1. DOMAIN parts = {} /\ DOMAIN groups = {} /\ DOMAIN opened = {}
  BY DEF SplitInit
<1>2. splitOf \in Seq(Items \cup {Header, Torn, Garbled}) /\ Len(splitOf) = 0
  BY DEF SplitInit
<1> QED
  BY <1>1, <1>2 DEF SplitInit, SplitSide, SplitTypeOK, Started, PartsHeadless

LEMMA RowFacts ==
  ASSUME SplitTypeOK
  PROVE  /\ splitOf \in Seq(AnyLine) /\ Len(splitOf) \in Nat /\ Rows \in Seq(AnyLine)
         /\ Len(Rows) \in Nat /\ ToSet(Rows) \subseteq ToSet(splitOf)
         /\ Len(splitOf) > 1 => Len(Rows) = Len(splitOf) - 1 /\ Head(splitOf) \in AnyLine
         /\ Len(Rows) <= Len(splitOf) /\ DOMAIN Rows = 1..Len(Rows)
         /\ \A i \in 1..Len(Rows) : Rows[i] \in AnyLine
<1>1. splitOf \in Seq(AnyLine)
  BY AllLines DEF SplitTypeOK
<1>2. Len(splitOf) \in Nat /\ (splitOf = <<>> => Len(splitOf) = 0)
  BY <1>1, LenProperties
<1>3. /\ Rows \in Seq(AnyLine) /\ Len(Rows) \in Nat /\ ToSet(Rows) \subseteq ToSet(splitOf)
      /\ Len(Rows) = IF splitOf = <<>> THEN 0 ELSE Len(splitOf) - 1
  BY <1>1, RowsOfFile DEF Rows
<1>4. splitOf # <<>> => Head(splitOf) \in AnyLine
  BY <1>1, HeadTailProperties
<1>5. DOMAIN Rows = 1..Len(Rows) /\ \A i \in 1..Len(Rows) : Rows[i] \in AnyLine
  BY <1>3, LenProperties, ElementOfSeq
<1> QED
  BY <1>1, <1>2, <1>3, <1>4, <1>5

(* How many parts there are, and what the last one has. *)
LEMMA ChunkCount ==
  ASSUME SplitTypeOK, Len(splitOf) > 1, chunkSize > 0
  PROVE  /\ chunkSize \in Nat \ {0} /\ NumChunks \in 1..Len(Rows)
         /\ (NumChunks - 1) * chunkSize < Len(Rows) /\ Len(Rows) <= NumChunks * chunkSize
<1>1. chunkSize \in Nat \ {0}
  BY DEF SplitTypeOK
<1>2. PICK n \in Nat, q \in Nat \ {0} : n = Len(Rows) /\ n >= 1 /\ q = chunkSize
  <2>1. Len(Rows) \in Nat /\ Len(Rows) >= 1
    BY RowFacts
  <2> QED
    BY <1>1, <2>1
<1>3. PICK d \in Nat : d = (n + q - 1) \div q /\ NumChunks = d
  BY <1>2 DEF NumChunks
<1>4. n <= n * q
  <2>1. PICK e \in Nat : q = e + 1
    BY <1>2
  <2>2. n * (e + 1) = n * e + n /\ n * e \in Nat
    OBVIOUS
  <2> QED
    BY <2>1, <2>2
<1>5. d <= n
  BY <1>2, <1>3, <1>4, RoundedUp
<1>6. n <= d * q
  BY <1>2, <1>3, RoundedUp
<1>7. d # 0
  BY <1>2, <1>6
<1>8. PICK k \in Nat : d = k + 1
  BY <1>7
<1>9. k * q < n
  <2>1. ~(k >= d) /\ k * q \in Nat
    BY <1>2, <1>8
  <2> QED
    BY <1>2, <1>3, <2>1, RoundedUp
<1> QED
  BY <1>1, <1>2, <1>3, <1>5, <1>6, <1>7, <1>8, <1>9

(* What part c gets. *)
LEMMA ChunkFacts ==
  ASSUME SplitTypeOK, Len(splitOf) > 1, Headless(splitOf), chunkSize > 0,
         NEW c \in 1..NumChunks
  PROVE  /\ Chunk(c) \in Seq(AnyLine) /\ Headless(Chunk(c)) /\ Chunk(c) # <<>>
         /\ DataRows(Chunk(c)) =
              SubSeq(Rows, (c - 1) * chunkSize + 1, Min({c * chunkSize, Len(Rows)}))
         /\ Len(DataRows(Chunk(c))) \in 1..chunkSize
         /\ \A i \in 1..Len(DataRows(Chunk(c))) :
              /\ (c - 1) * chunkSize + i \in 1..Len(Rows)
              /\ DataRows(Chunk(c))[i] = Rows[(c - 1) * chunkSize + i]
<1>1. PICK n \in Nat, q \in Nat \ {0}, d \in Nat \ {0} :
        /\ n = Len(Rows) /\ q = chunkSize /\ d = NumChunks
        /\ (d - 1) * q < n /\ n <= d * q /\ Rows \in Seq(AnyLine)
  <2>1. /\ Len(Rows) \in Nat /\ chunkSize \in Nat \ {0} /\ NumChunks \in 1..Len(Rows)
        /\ Rows \in Seq(AnyLine)
    BY ChunkCount, RowFacts
  <2>2. PICK d \in Nat \ {0} : d = NumChunks
    BY <2>1
  <2>3. (NumChunks - 1) * chunkSize < Len(Rows) /\ Len(Rows) <= NumChunks * chunkSize
    BY ChunkCount
  <2>4. (d - 1) * chunkSize < Len(Rows) /\ Len(Rows) <= d * chunkSize
    BY <2>2, <2>3, Zenon
  <2> QED
    BY <2>1, <2>2, <2>4, Zenon
<1>2. PICK k \in Nat, e \in Nat : k = c - 1 /\ d - 1 = k + e /\ c = k + 1
  BY <1>1
<1>3. (k + e) * q = k * q + e * q /\ (k + 1) * q = k * q + q /\ k * q \in Nat /\ e * q \in Nat
  BY <1>1
<1>4. PICK a \in Nat : a = k * q /\ a < n
  BY <1>1, <1>2, <1>3
<1> DEFINE b == IF a + q <= n THEN a + q ELSE n
           t == SubSeq(Rows, a + 1, b)
<1>5. /\ Min({c * chunkSize, Len(Rows)}) = b
      /\ b \in Nat /\ b <= n /\ b - a \in 1..q /\ a <= b
  <2>1. Min({a + q, n}) = b
    <3>1. a + q \in Nat
      BY <1>1, <1>4
    <3> QED
      BY <3>1, MinOfTwo
  <2>2. c * chunkSize = a + q
    <3>1. c * chunkSize = (k + 1) * q
      BY <1>1, <1>2, Zenon
    <3>2. (k + 1) * q = a + q
      BY <1>3, <1>4, Zenon
    <3> QED
      BY <3>1, <3>2, Zenon
  <2>3. b \in Nat /\ b <= n /\ b - a \in 1..q /\ a <= b
    BY <1>1, <1>4
  <2> HIDE DEF b
  <2> QED
    BY <1>1, <2>1, <2>2, <2>3
<1> HIDE DEF b
<1>6. /\ t \in Seq(AnyLine) /\ Len(t) = b - a
      /\ \A i \in 1..b - a : t[i] = Rows[a + i] /\ a + i \in 1..n
  <2>1. b \in 0..Len(Rows) /\ \A i \in 1..b - a : a + i \in 1..n
    BY <1>1, <1>4, <1>5
  <2>2. /\ t \in Seq(AnyLine) /\ Len(t) = IF a <= b THEN b - a ELSE 0
        /\ \A i \in 1..b - a : t[i] = Rows[a + i]
    BY <1>1, <2>1, Piece
  <2> HIDE DEF t
  <2> QED
    BY <1>5, <2>1, <2>2
<1>7. t = SubSeq(Rows, (c - 1) * chunkSize + 1, Min({c * chunkSize, Len(Rows)}))
  BY <1>1, <1>2, <1>4, <1>5
<1> HIDE DEF t
<1>8. Chunk(c) = <<Head(splitOf)>> \o t
  BY <1>7 DEF Chunk
<1>9. Head(splitOf) \in AnyLine
  BY RowFacts
<1>10. Chunk(c) \in Seq(AnyLine) /\ Chunk(c) # <<>> /\ DataRows(Chunk(c)) = t
  BY <1>6, <1>8, <1>9, FileWithFirst
<1>11. Headless(Chunk(c))
  <2>1. \A i \in 1..n : Rows[i] \in ToSet(Rows)
    BY <1>1, RowFacts DEF ToSet
  <2>2. DOMAIN t = 1..b - a
    BY <1>6, LenProperties
  <2>3. ToSet(t) \subseteq ToSet(Rows)
    BY <1>6, <2>1, <2>2 DEF ToSet
  <2> QED
    BY <1>10, <2>3 DEF Headless, Rows
<1>12. (c - 1) * chunkSize = a
  BY <1>1, <1>2, <1>4
<1> QED
  BY <1>1, <1>5, <1>6, <1>7, <1>10, <1>11, <1>12
(* What the commands of the pipeline do to the split. *)
SplitNow == \/ \E n \in ChunkSizes : StartSplit(created, out, n)
            \/ SplitStep \/ UNCHANGED splitVars

LEMMA PipelineSplitStep == [Next /\ Bounded']_vars => SplitNow
BY DEF Next, List, ListRuns, ListKilled, SplitList, SplitRuns, DetailWhole, RunParts,
       DetailRuns, Trouble, SplitNow, vars

(* A split that ends has nothing in its hands. *)
LEMMA EndsKeeps ==
  ASSUME SplitSide, NEW how \in {"ok", "error", "killed"}, SplitEnds(how),
         splitPhase # "down", chunkSize' = chunkSize,
         splits' \in 0..MaxSplits, losses' \in 0..MaxSplitLosses,
         \A n \in DOMAIN parts' :
           n \in Nat \ {0} /\ parts'[n] \in Seq(AnyLine) /\ Headless(parts'[n]),
         \A g \in DOMAIN groups' : groups'[g] \in Seq(AnyLine)
  PROVE  SplitSide'
<1>1. /\ splitPhase' = "down" /\ splitExit' = how /\ done' = 0 /\ opened' = <<>>
      /\ splitOf' = IF how = "ok" THEN splitOf ELSE <<>>
  BY DEF SplitEnds
<1>2. splitOf' \in Seq(AnyLine)
  <2>1. splitOf \in Seq(AnyLine) /\ <<>> \in Seq(AnyLine)
    BY RowFacts, EmptySeq DEF SplitSide
  <2> QED
    BY <1>1, <2>1
<1>3. DOMAIN opened' = {} /\ done' \in 0..Len(splitOf')
  <2>1. Len(splitOf') \in Nat
    BY <1>2, LenProperties
  <2> QED
    BY <1>1, <2>1
<1>4. SplitTypeOK'
  BY <1>1, <1>2, <1>3, AllLines DEF SplitSide, SplitTypeOK
<1>5. Started'
  BY <1>1 DEF SplitSide, Started
<1> QED
  BY <1>3, <1>4, <1>5 DEF SplitSide, PartsHeadless

LEMMA StartSplitKeeps ==
  ASSUME SplitSide, out \in Seq(AnyLine), Headless(out),
         NEW n \in ChunkSizes, StartSplit(created, out, n)
  PROVE  SplitSide'
<1>1. /\ splitPhase = "down" /\ splits < MaxSplits /\ splits' = splits + 1 /\ chunkSize' = n
      /\ done' = 0 /\ opened' = <<>> /\ UNCHANGED <<parts, groups, losses>>
  BY DEF StartSplit
<1>2. n \in Nat /\ DOMAIN opened' = {} /\ splits' \in 0..MaxSplits /\ losses' \in 0..MaxSplitLosses
  <2>1. splits \in 0..MaxSplits /\ losses \in 0..MaxSplitLosses
    BY DEF SplitSide, SplitTypeOK
  <2>2. n \in Nat /\ MaxSplits \in Nat
    BY SplitAssumption
  <2>3. splits' \in 0..MaxSplits
    BY <1>1, <2>1, <2>2
  <2>4. DOMAIN opened' = {} /\ losses' \in 0..MaxSplitLosses
    BY <1>1, <2>1
  <2> QED
    BY <2>2, <2>3, <2>4
<1> DEFINE S == Items \cup {Header, Torn, Garbled}
<1>5. /\ \A k \in DOMAIN parts' : k \in Nat \ {0} /\ parts'[k] \in Seq(S)
      /\ \A g \in DOMAIN groups' : groups'[g] \in Seq(S)
      /\ DOMAIN opened' \subseteq DOMAIN groups' /\ chunkSize' \in ChunkSizes \cup {0}
  BY <1>1, <1>2 DEF SplitSide, SplitTypeOK
<1>6. ASSUME splitOf' \in Seq(S), splitPhase' \in {"down", "chunk", "rows"},
             splitExit' \in {"none", "error"}
      PROVE  SplitTypeOK'
  <2>1. done' \in 0..Len(splitOf')
    BY <1>1, <1>6, LenProperties
  <2> HIDE DEF S
  <2>2. splitPhase' \in {"down", "chunk", "fill", "rows", "flush"}
        /\ splitExit' \in {"none", "ok", "error", "killed"}
    BY <1>6
  <2> QED
    BY <1>2, <1>5, <1>6, <2>1, <2>2 DEF SplitTypeOK, S
<1>3. CASE CannotSplit(created, out, n)
  <2>1. splitPhase' = "down" /\ splitExit' = "error" /\ splitOf' = <<>>
    BY <1>1, <1>3 DEF StartSplit
  <2>2. splitOf' \in Seq(AnyLine) /\ Len(splitOf') = 0
    BY <2>1, EmptySeq
  <2>3. SplitTypeOK'
    BY <1>6, <2>1, <2>2, AllLines
  <2> QED
    BY <1>1, <1>2, <2>1, <2>3 DEF SplitSide, Started, PartsHeadless
<1>4. CASE ~CannotSplit(created, out, n)
  <2>1. /\ splitPhase' = IF n > 0 THEN "chunk" ELSE "rows"
        /\ splitExit' = "none" /\ splitOf' = out
    BY <1>4 DEF StartSplit
  <2>2. Len(out) \in Nat /\ Len(out) > 1 /\ Readable(out)
    BY <1>4, LenProperties DEF CannotSplit
  <2>3. SplitTypeOK'
    <3>1. splitOf' \in Seq(S)
      BY <2>1, AllLines
    <3>2. splitPhase' \in {"chunk", "rows"}
      BY <2>1
    <3> QED
      BY <1>6, <2>1, <3>1, <3>2
  <2>4. Rows' = DataRows(out) /\ Len(Rows') \in Nat
    BY <2>1, RowsOfFile DEF Rows
  <2>5. n > 0 => 0 <= NumChunks'
    BY <1>1, <1>2, <2>4 DEF NumChunks
  <2>6. Started'
    BY <1>1, <1>2, <2>1, <2>2, <2>4, <2>5 DEF Started
  <2> QED
    BY <1>1, <1>2, <2>3, <2>6 DEF SplitSide, PartsHeadless
<1> QED
  BY <1>3, <1>4
(* A first piece of a file: its whole rows are those of the file.           *)
LEMMA FirstPiece ==
  ASSUME NEW file \in Seq(AnyLine), Headless(file), NEW k \in 0..Len(file) - 1,
         NEW lines \in Cut(SubSeq(file, 1, k))
  PROVE  /\ lines \in Seq(AnyLine) /\ Headless(lines)
         /\ \A i \in DOMAIN DataRows(lines) : DataRows(lines)[i] \in Items =>
              i \in DOMAIN DataRows(file) /\ DataRows(lines)[i] = DataRows(file)[i]
<1>1. PICK n \in Nat : n = Len(file) /\ k < n /\ k \in Nat
  <2>1. Len(file) \in Nat
    BY LenProperties
  <2> QED
    BY <2>1
<1> DEFINE g == SubSeq(file, 1, k)
<1>2. g \in Seq(AnyLine) /\ Len(g) = k /\ \A i \in 1..k : g[i] = file[i]
  <2>1. k \in 0..Len(file) /\ 0 \in Nat
    BY <1>1
  <2>2. /\ SubSeq(file, 0 + 1, k) \in Seq(AnyLine)
        /\ Len(SubSeq(file, 0 + 1, k)) = IF 0 <= k THEN k - 0 ELSE 0
        /\ \A i \in 1..k - 0 : SubSeq(file, 0 + 1, k)[i] = file[0 + i]
    BY <2>1, Piece
  <2>3. 0 + 1 = 1 /\ k - 0 = k /\ 0 <= k /\ \A i \in 1..k : 0 + i = i
    BY <1>1
  <2> QED
    BY <2>2, <2>3
<1>3. lines \in Cut(g)
  OBVIOUS
<1> HIDE DEF g
<1>4. Grown(g, lines)
  BY <1>2, <1>3, CutGrows
<1>5. PICK m \in Nat : /\ m = Len(lines) /\ lines \in Seq(AnyLine) /\ k <= m
                       /\ \A i \in 1..k : lines[i] = g[i] \/ (g[i] = Torn /\ lines[i] = Garbled)
                       /\ \A i \in k + 1..m : lines[i] = Torn
  <2>1. lines = g \/ lines = Append(g, Torn)
    BY <1>3 DEF Cut
  <2>2. Torn \in AnyLine
    BY DEF AnyLine, BodyLine
  <2>3. /\ Append(g, Torn) \in Seq(AnyLine) /\ Len(Append(g, Torn)) = k + 1
        /\ \A i \in 1..k : Append(g, Torn)[i] = g[i]
        /\ Append(g, Torn)[k + 1] = Torn
    BY <1>2, <2>2, AppendProperties
  <2>4. CASE lines = g
    BY <1>1, <1>2, <2>4
  <2>5. CASE lines = Append(g, Torn)
    <3>1. \A i \in k + 1..k + 1 : i = k + 1
      BY <1>1
    <3> QED
      BY <1>1, <2>3, <2>5, <3>1
  <2> QED
    BY <2>1, <2>4, <2>5
<1>6. /\ DOMAIN DataRows(lines) = 1..Len(DataRows(lines))
      /\ \A i \in 1..Len(DataRows(lines)) : i + 1 \in 1..m /\ DataRows(lines)[i] = lines[i + 1]
      /\ Len(DataRows(lines)) \in Nat
  BY <1>5, RowsOfFile, LenProperties
<1>7. /\ DOMAIN DataRows(file) = 1..n - 1 /\ file # <<>>
      /\ \A i \in 1..n - 1 : DataRows(file)[i] = file[i + 1]
  <2>1. file # <<>>
    BY <1>1, EmptySeq
  <2>2. /\ DataRows(file) \in Seq(AnyLine) /\ Len(DataRows(file)) = n - 1
        /\ \A i \in 1..Len(DataRows(file)) : DataRows(file)[i] = file[i + 1]
    BY <1>1, <2>1, RowsOfFile
  <2> QED
    BY <2>1, <2>2, LenProperties
<1>8. ASSUME NEW i \in 1..Len(DataRows(lines))
      PROVE  /\ i + 1 \in 1..k => i \in 1..n - 1 /\ g[i + 1] = DataRows(file)[i]
             /\ i + 1 \notin 1..k => DataRows(lines)[i] = Torn
  <2>1. i \in Nat /\ i >= 1 /\ i + 1 \in 1..m /\ DataRows(lines)[i] = lines[i + 1]
    BY <1>6
  <2>2. CASE i + 1 \in 1..k
    <3>1. i \in 1..n - 1
      BY <1>1, <2>1, <2>2
    <3> QED
      BY <1>2, <1>7, <2>2, <3>1
  <2>3. CASE i + 1 \notin 1..k
    <3>1. i + 1 \in k + 1..m
      BY <1>1, <1>5, <2>1, <2>3
    <3> QED
      BY <1>5, <2>1, <2>3, <3>1
  <2> QED
    BY <2>2, <2>3
<1>9. Headless(lines)
  <2>1. \A i \in 1..n - 1 : DataRows(file)[i] \in BodyLine
    BY <1>7 DEF Headless, ToSet
  <2>2. ASSUME NEW i \in 1..Len(DataRows(lines))
        PROVE  DataRows(lines)[i] \in BodyLine
    BY <1>5, <1>6, <1>8, <2>1, <2>2 DEF BodyLine
  <2> QED
    BY <1>6, <2>2 DEF Headless, ToSet
<1>10. ASSUME NEW i \in 1..Len(DataRows(lines)), DataRows(lines)[i] \in Items
       PROVE  i \in 1..n - 1 /\ DataRows(lines)[i] = DataRows(file)[i]
  <2>1. DataRows(lines)[i] # Torn /\ DataRows(lines)[i] # Garbled
    BY <1>10
  <2> QED
    BY <1>5, <1>6, <1>8, <2>1
<1> QED
  BY <1>5, <1>6, <1>7, <1>9, <1>10

LEMMA CreatePartKeeps == SplitSide /\ CreatePart => SplitSide'
<1> SUFFICES ASSUME SplitSide, CreatePart
             PROVE  SplitSide'
  OBVIOUS
<1>1. /\ splitPhase = "chunk" /\ done < NumChunks /\ splitPhase' = "fill"
      /\ parts' = WithFile(parts, done + 1, <<>>)
      /\ UNCHANGED <<groups, splitExit, splitOf, chunkSize, done, opened, splits, losses>>
  BY DEF CreatePart
<1>2. /\ DOMAIN parts' = DOMAIN parts \cup {done + 1} /\ parts'[done + 1] = <<>>
      /\ \A n \in DOMAIN parts : n # done + 1 => parts'[n] = parts[n]
  BY <1>1 DEF WithFile
<1>3. <<>> \in Seq(AnyLine) /\ Headless(<<>>)
  <2>1. DataRows(<<>>) = <<>> /\ ToSet(<<>>) = {}
    BY DEF DataRows, ToSet
  <2> QED
    BY <2>1, EmptySeq DEF Headless
<1>4. done + 1 \in Nat \ {0}
  BY RowFacts DEF SplitSide, SplitTypeOK
<1>5. ASSUME NEW n \in DOMAIN parts'
      PROVE  n \in Nat \ {0} /\ parts'[n] \in Seq(AnyLine) /\ Headless(parts'[n])
  <2>1. CASE n = done + 1
    BY <1>2, <1>3, <1>4, <2>1
  <2>2. CASE n # done + 1
    BY <1>2, <2>2, AllLines DEF SplitSide, SplitTypeOK, PartsHeadless
  <2> QED
    BY <2>1, <2>2
<1>6. SplitTypeOK'
  BY <1>1, <1>5, AllLines DEF SplitSide, SplitTypeOK
<1>7. Started'
  BY <1>1, <1>2 DEF SplitSide, Started, Rows, NumChunks
<1> QED
  BY <1>1, <1>5, <1>6, <1>7 DEF SplitSide, PartsHeadless

LEMMA FlushPartKeeps == SplitSide /\ FlushPart => SplitSide'
<1> SUFFICES ASSUME SplitSide, FlushPart
             PROVE  SplitSide'
  OBVIOUS
<1>1. /\ splitPhase = "fill" /\ splitPhase' = "chunk" /\ done' = done + 1
      /\ parts' = [parts EXCEPT ![done + 1] = Chunk(done + 1)]
      /\ UNCHANGED <<groups, splitExit, splitOf, chunkSize, opened, splits, losses>>
  BY DEF FlushPart
<1>2. /\ SplitTypeOK /\ Len(splitOf) > 1 /\ Headless(splitOf) /\ chunkSize > 0
      /\ done < NumChunks /\ done \in Nat
  BY <1>1, RowFacts DEF SplitSide, SplitTypeOK, Started
<1>3. NumChunks \in Nat /\ NumChunks <= Len(Rows) /\ Len(Rows) <= Len(splitOf) /\ Len(Rows) \in Nat
  BY <1>2, ChunkCount, RowFacts
<1>4. done + 1 \in 1..NumChunks /\ done + 1 \in 0..Len(splitOf)
  BY <1>2, <1>3, RowFacts
<1>5. Chunk(done + 1) \in Seq(AnyLine) /\ Headless(Chunk(done + 1))
  BY <1>2, <1>4, ChunkFacts
<1>6. ASSUME NEW n \in DOMAIN parts'
      PROVE  n \in Nat \ {0} /\ parts'[n] \in Seq(AnyLine) /\ Headless(parts'[n])
  <2>1. n \in DOMAIN parts /\ parts'[n] = IF n = done + 1 THEN Chunk(done + 1) ELSE parts[n]
    BY <1>1
  <2> QED
    BY <1>5, <2>1, AllLines DEF SplitSide, SplitTypeOK, PartsHeadless
<1>7. SplitTypeOK'
  BY <1>1, <1>4, <1>6, AllLines DEF SplitSide, SplitTypeOK
<1>8. Started'
  BY <1>1, <1>4 DEF SplitSide, Started, Rows, NumChunks
<1> QED
  BY <1>1, <1>6, <1>7, <1>8 DEF SplitSide, PartsHeadless
LEMMA ChunksDoneKeeps == SplitSide /\ ChunksDone => SplitSide'
<1> SUFFICES ASSUME SplitSide, ChunksDone
             PROVE  SplitSide'
  OBVIOUS
<1>1. /\ splitPhase = "chunk" /\ SplitEnds("ok")
      /\ UNCHANGED <<parts, groups, chunkSize, splits, losses>>
  BY DEF ChunksDone
<1>2. /\ \A n \in DOMAIN parts' :
           n \in Nat \ {0} /\ parts'[n] \in Seq(AnyLine) /\ Headless(parts'[n])
      /\ \A g \in DOMAIN groups' : groups'[g] \in Seq(AnyLine)
      /\ splits' \in 0..MaxSplits /\ losses' \in 0..MaxSplitLosses
  BY <1>1, AllLines DEF SplitSide, SplitTypeOK, PartsHeadless
<1> QED
  BY <1>1, <1>2, EndsKeeps

(* What a write that fails or a kill leaves of the part that is written.    *)
LEMMA LostPiece ==
  ASSUME SplitSide, PartLost
  PROVE  /\ Len(splitOf) > 1 /\ Headless(splitOf) /\ chunkSize > 0 /\ done + 1 \in 1..NumChunks
         /\ DOMAIN parts' = DOMAIN parts /\ done + 1 \in DOMAIN parts
         /\ \A n \in DOMAIN parts : n # done + 1 => parts'[n] = parts[n]
         /\ parts'[done + 1] \in Seq(AnyLine) /\ Headless(parts'[done + 1])
         /\ \A i \in DOMAIN DataRows(parts'[done + 1]) :
              DataRows(parts'[done + 1])[i] \in Items =>
                /\ i \in DOMAIN DataRows(Chunk(done + 1))
                /\ DataRows(parts'[done + 1])[i] = DataRows(Chunk(done + 1))[i]
<1>1. /\ SplitTypeOK /\ Len(splitOf) > 1 /\ Headless(splitOf) /\ chunkSize > 0
      /\ done < NumChunks /\ done \in Nat /\ done + 1 \in DOMAIN parts
  <2>1. splitPhase = "fill" /\ SplitTypeOK /\ Started
    BY DEF PartLost, SplitSide
  <2>2. Len(splitOf) \in Nat /\ done \in 0..Len(splitOf)
    BY <2>1, RowFacts DEF SplitTypeOK
  <2> QED
    BY <2>1, <2>2 DEF Started
<1>2. done + 1 \in 1..NumChunks
  BY <1>1, ChunkCount, RowFacts
<1>3. Chunk(done + 1) \in Seq(AnyLine) /\ Headless(Chunk(done + 1))
  BY <1>1, <1>2, ChunkFacts
<1>4. PICK k \in 0..Len(Chunk(done + 1)) - 1 :
        \E lines \in Cut(SubSeq(Chunk(done + 1), 1, k)) :
          parts' = [parts EXCEPT ![done + 1] = lines]
  BY DEF PartLost
<1>7. PICK lines \in Cut(SubSeq(Chunk(done + 1), 1, k)) :
        parts' = [parts EXCEPT ![done + 1] = lines]
  BY <1>4
<1>5. /\ lines \in Seq(AnyLine) /\ Headless(lines)
      /\ \A i \in DOMAIN DataRows(lines) : DataRows(lines)[i] \in Items =>
           /\ i \in DOMAIN DataRows(Chunk(done + 1))
           /\ DataRows(lines)[i] = DataRows(Chunk(done + 1))[i]
  BY <1>3, FirstPiece
<1>6. /\ DOMAIN parts' = DOMAIN parts /\ parts'[done + 1] = lines
      /\ \A n \in DOMAIN parts : n # done + 1 => parts'[n] = parts[n]
  BY <1>1, <1>7
<1> QED
  BY <1>1, <1>2, <1>5, <1>6

LEMMA PartLostKeeps == SplitSide /\ PartLost => SplitSide'
<1> SUFFICES ASSUME SplitSide, PartLost
             PROVE  SplitSide'
  OBVIOUS
<1>1. /\ splitPhase = "fill" /\ losses < MaxSplitLosses /\ losses' = losses + 1
      /\ SplitEnds("error") \/ SplitEnds("killed")
      /\ UNCHANGED <<groups, chunkSize, splits>>
  BY DEF PartLost
<1>2. ASSUME NEW n \in DOMAIN parts'
      PROVE  n \in Nat \ {0} /\ parts'[n] \in Seq(AnyLine) /\ Headless(parts'[n])
  <2>1. n \in DOMAIN parts
    BY LostPiece
  <2>2. CASE n = done + 1
    BY <2>1, <2>2, LostPiece DEF SplitSide, SplitTypeOK
  <2>3. CASE n # done + 1
    BY <2>1, <2>3, LostPiece, AllLines DEF SplitSide, SplitTypeOK, PartsHeadless
  <2> QED
    BY <2>2, <2>3
<1>3. /\ \A g \in DOMAIN groups' : groups'[g] \in Seq(AnyLine)
      /\ splits' \in 0..MaxSplits /\ losses' \in 0..MaxSplitLosses
  BY <1>1, AllLines DEF SplitSide, SplitTypeOK
<1> QED
  BY <1>1, <1>2, <1>3, EndsKeeps

LEMMA GroupRowKeeps == SplitSide /\ GroupRow => SplitSide'
<1> SUFFICES ASSUME SplitSide, GroupRow
             PROVE  SplitSide'
  OBVIOUS
<1> DEFINE row == Rows[done + 1]
           g == GroupOf[row]
<1>1. /\ splitPhase = "rows" /\ done < Len(Rows) /\ done' = done + 1
      /\ UNCHANGED <<parts, splitPhase, splitExit, splitOf, chunkSize, splits, losses>>
  BY DEF GroupRow
<1>2. \/ g \in DOMAIN opened /\ opened' = [opened EXCEPT ![g] = Append(@, row)] /\ UNCHANGED groups
      \/ g \notin DOMAIN opened /\ opened' = WithFile(opened, g, <<Header, row>>)
                                /\ groups' = WithFile(groups, g, <<>>)
  BY DEF GroupRow
<1>3. /\ done \in Nat /\ Len(Rows) \in Nat /\ Len(Rows) <= Len(splitOf) /\ Len(splitOf) \in Nat
      /\ \A i \in 1..Len(Rows) : Rows[i] \in AnyLine
  BY RowFacts DEF SplitSide, SplitTypeOK
<1>4. row \in AnyLine /\ done + 1 \in 0..Len(splitOf) /\ done + 1 <= Len(Rows)
  BY <1>1, <1>3
<1> HIDE DEF row, g
<1>5. /\ \A h \in DOMAIN opened' : opened'[h] \in Seq(AnyLine)
      /\ \A h \in DOMAIN groups' : groups'[h] \in Seq(AnyLine)
      /\ DOMAIN opened' \subseteq DOMAIN groups'
  <2>1. /\ \A h \in DOMAIN opened : opened[h] \in Seq(AnyLine)
        /\ \A h \in DOMAIN groups : groups[h] \in Seq(AnyLine)
        /\ DOMAIN opened \subseteq DOMAIN groups
    BY AllLines DEF SplitSide, SplitTypeOK
  <2>2. CASE g \in DOMAIN opened
    <3>1. opened' = [opened EXCEPT ![g] = Append(opened[g], row)] /\ UNCHANGED groups
      BY <1>2, <2>2
    <3>2. Append(opened[g], row) \in Seq(AnyLine)
      BY <1>4, <2>1, <2>2, AppendProperties
    <3> QED
      BY <2>1, <3>1, <3>2
  <2>3. CASE g \notin DOMAIN opened
    <3>1. /\ DOMAIN opened' = DOMAIN opened \cup {g} /\ opened'[g] = <<Header, row>>
          /\ \A h \in DOMAIN opened : h # g => opened'[h] = opened[h]
          /\ DOMAIN groups' = DOMAIN groups \cup {g} /\ groups'[g] = <<>>
          /\ \A h \in DOMAIN groups : h # g => groups'[h] = groups[h]
      BY <1>2, <2>3 DEF WithFile
    <3>2. Header \in AnyLine /\ <<>> \in Seq(AnyLine)
      BY EmptySeq DEF AnyLine
    <3>3. <<Header, row>> \in Seq(AnyLine)
      BY <1>4, <3>2
    <3>4. \A h \in DOMAIN opened' : opened'[h] \in Seq(AnyLine)
      BY <2>1, <3>1, <3>3
    <3>5. \A h \in DOMAIN groups' : groups'[h] \in Seq(AnyLine)
      BY <2>1, <3>1, <3>2
    <3> QED
      BY <2>1, <3>1, <3>4, <3>5
  <2> QED
    BY <2>2, <2>3
<1>6. SplitTypeOK'
  BY <1>1, <1>4, <1>5, AllLines DEF SplitSide, SplitTypeOK
<1>7. Started'
  BY <1>1, <1>4 DEF SplitSide, Started, Rows, NumChunks
<1> QED
  BY <1>1, <1>5, <1>6, <1>7 DEF SplitSide, PartsHeadless

LEMMA FlushGroupKeeps == SplitSide /\ FlushGroup => SplitSide'
<1> SUFFICES ASSUME SplitSide, FlushGroup
             PROVE  SplitSide'
  OBVIOUS
<1>1. /\ splitPhase = "flush"
      /\ UNCHANGED <<parts, splitPhase, splitExit, splitOf, chunkSize, done, splits>>
  BY DEF FlushGroup
<1>2. PICK g \in DOMAIN opened :
        /\ \/ groups' = [groups EXCEPT ![g] = opened[g]] /\ UNCHANGED losses
           \/ losses < MaxSplitLosses /\ losses' = losses + 1 /\ UNCHANGED groups
        /\ opened' = [h \in DOMAIN opened \ {g} |-> opened[h]]
  BY DEF FlushGroup
<1>3. /\ \A h \in DOMAIN opened' : opened'[h] \in Seq(AnyLine)
      /\ DOMAIN opened' \subseteq DOMAIN groups' /\ DOMAIN groups' = DOMAIN groups
      /\ losses' \in 0..MaxSplitLosses
  BY <1>2 DEF SplitSide, SplitTypeOK
<1>4. \A h \in DOMAIN groups' : groups'[h] \in Seq(AnyLine)
  BY <1>2, AllLines DEF SplitSide, SplitTypeOK
<1>5. SplitTypeOK'
  BY <1>1, <1>3, <1>4, AllLines DEF SplitSide, SplitTypeOK
<1>6. Started'
  BY <1>1 DEF SplitSide, Started, Rows, NumChunks
<1> QED
  BY <1>1, <1>3, <1>5, <1>6 DEF SplitSide, PartsHeadless

LEMMA GroupsEndKeeps == SplitSide /\ (GroupsDone \/ CutShort) => SplitSide'
<1> SUFFICES ASSUME SplitSide, GroupsDone \/ CutShort
             PROVE  SplitSide'
  OBVIOUS
<1>1. /\ splitPhase # "down"
      /\ losses' = losses \/ (losses' = losses + 1 /\ losses < MaxSplitLosses)
      /\ SplitEnds("ok") \/ SplitEnds("error") \/ SplitEnds("killed")
      /\ UNCHANGED <<parts, groups, chunkSize, splits>>
  BY DEF GroupsDone, CutShort
<1>2. /\ \A n \in DOMAIN parts' :
           n \in Nat \ {0} /\ parts'[n] \in Seq(AnyLine) /\ Headless(parts'[n])
      /\ \A g \in DOMAIN groups' : groups'[g] \in Seq(AnyLine)
      /\ splits' \in 0..MaxSplits /\ losses' \in 0..MaxSplitLosses
  BY <1>1, AllLines DEF SplitSide, SplitTypeOK, PartsHeadless
<1> QED
  BY <1>1, <1>2, EndsKeeps

LEMMA SplitSideStep ==
  ASSUME SplitSide, SplitNow, out \in Seq(AnyLine), Headless(out)
  PROVE  SplitSide'
<1>1. CASE GroupRowsDone
  <2>1. /\ splitPhase = "rows" /\ done = Len(Rows) /\ splitPhase' = "flush"
        /\ UNCHANGED <<parts, groups, splitExit, splitOf, chunkSize, done, opened, splits, losses>>
    BY <1>1 DEF GroupRowsDone
  <2>2. SplitTypeOK' /\ PartsHeadless'
    BY <2>1 DEF SplitSide, SplitTypeOK, PartsHeadless
  <2>3. Started'
    BY <2>1 DEF SplitSide, Started, Rows, NumChunks
  <2> QED
    BY <2>1, <2>2, <2>3 DEF SplitSide
<1>2. CASE UNCHANGED splitVars
  BY <1>2 DEF SplitSide, SplitTypeOK, Started, PartsHeadless, Rows, NumChunks, splitVars
<1> QED
  BY <1>1, <1>2, StartSplitKeeps, CreatePartKeeps, FlushPartKeeps, ChunksDoneKeeps, PartLostKeeps,
     GroupRowKeeps, FlushGroupKeeps, GroupsEndKeeps DEF SplitNow, SplitStep
-----------------------------------------------------------------------------
(* A split by size. *)

(* The first k parts are what they have to be. *)
InOrder(k) == \A n \in 1..k : n \in DOMAIN parts /\ parts[n] = Chunk(n)

ChunkInv ==
  /\ splitPhase # "down" \/ splitExit = "ok" => splits > 0
  /\ splitPhase \in {"chunk", "fill"} => InOrder(done)
  /\ splitExit = "ok" /\ chunkSize > 0 => InOrder(NumChunks)
  /\ splits = 0 => DOMAIN parts = {}
  /\ splits = 1 /\ splitPhase = "chunk" => DOMAIN parts = 1..done
  /\ splits = 1 /\ splitPhase = "fill" => DOMAIN parts = 1..done + 1
  /\ splits = 1 /\ splitExit = "ok" /\ chunkSize > 0 => DOMAIN parts = 1..NumChunks

LEMMA ChunkInvInit == SplitInit => ChunkInv
<1> SUFFICES ASSUME SplitInit
             PROVE  ChunkInv
  OBVIOUS
<1>1. DOMAIN parts = {} /\ splits = 0 /\ splitPhase = "down" /\ splitExit = "none"
  BY DEF SplitInit
<1> QED
  BY <1>1 DEF ChunkInv

LEMMA ChunkInvStep ==
  ASSUME SplitSide, ChunkInv, SplitNow
  PROVE  ChunkInv'
<1>1. splits \in Nat /\ done \in Nat
  <2>1. Len(splitOf) \in Nat
    BY RowFacts DEF SplitSide
  <2> QED
    BY <2>1 DEF SplitSide, SplitTypeOK
<1>2. ASSUME UNCHANGED <<splitOf, chunkSize>>
      PROVE  Rows' = Rows /\ NumChunks' = NumChunks /\ \A n : Chunk(n)' = Chunk(n)
  BY <1>2 DEF Rows, NumChunks, Chunk
<1>3. CASE CreatePart
  <2>1. /\ splitPhase = "chunk" /\ splitPhase' = "fill" /\ parts' = WithFile(parts, done + 1, <<>>)
        /\ UNCHANGED <<splitExit, splitOf, chunkSize, done, splits>>
    BY <1>3 DEF CreatePart
  <2>2. /\ DOMAIN parts' = DOMAIN parts \cup {done + 1}
        /\ \A n \in DOMAIN parts : n # done + 1 => parts'[n] = parts[n]
    BY <2>1 DEF WithFile
  <2>3. splitExit = "none" /\ InOrder(done)
    BY <2>1 DEF ChunkInv, SplitSide, Started
  <2>4. \A n \in 1..done : n \in DOMAIN parts' /\ parts'[n] = Chunk(n)'
    <3>1. \A n \in 1..done : n # done + 1
      BY <1>1
    <3> QED
      BY <1>2, <2>1, <2>2, <2>3, <3>1 DEF InOrder
  <2>5. splits > 0 /\ (splits = 1 => DOMAIN parts = 1..done)
    BY <2>1 DEF ChunkInv
  <2>6. 1..done \cup {done + 1} = 1..done + 1
    BY <1>1
  <2>7. (splitPhase \in {"chunk", "fill"} => InOrder(done))'
    BY <2>1, <2>4 DEF InOrder
  <2>8. splits' > 0 /\ splits' # 0 /\ splitExit' # "ok" /\ splitPhase' = "fill"
    BY <1>1, <2>1, <2>3, <2>5
  <2>9. (splits = 1 => DOMAIN parts = 1..done + 1)'
    BY <2>1, <2>2, <2>5, <2>6
  <2> QED
    BY <2>7, <2>8, <2>9 DEF ChunkInv
<1>4. CASE FlushPart
  <2>1. /\ splitPhase = "fill" /\ splitPhase' = "chunk" /\ done' = done + 1
        /\ parts' = [parts EXCEPT ![done + 1] = Chunk(done + 1)]
        /\ UNCHANGED <<splitExit, splitOf, chunkSize, splits>>
    BY <1>4 DEF FlushPart
  <2>2. splitExit = "none" /\ InOrder(done) /\ done + 1 \in DOMAIN parts
    BY <2>1 DEF ChunkInv, SplitSide, Started
  <2>3. /\ \A n \in {done + 1} : parts'[n] = Chunk(n)'
        /\ DOMAIN parts' = DOMAIN parts /\ \A n \in 1..done : Chunk(n)' = Chunk(n)
    BY <2>1, <2>2 DEF Chunk, Rows
  <2>6. \A n \in 1..done + 1 : n = done + 1 \/ (n \in 1..done /\ n # done + 1)
    BY <1>1
  <2>4. \A n \in 1..done' : n \in DOMAIN parts' /\ parts'[n] = Chunk(n)'
    BY <2>1, <2>2, <2>3, <2>6 DEF InOrder
  <2>5. splits > 0 /\ (splits = 1 => DOMAIN parts = 1..done + 1)
    BY <2>1 DEF ChunkInv
  <2> QED
    BY <2>1, <2>2, <2>4, <2>5 DEF ChunkInv, InOrder
<1>5. CASE ChunksDone
  <2>1. /\ splitPhase = "chunk" /\ done = NumChunks /\ splitPhase' = "down" /\ splitExit' = "ok"
        /\ splitOf' = splitOf /\ UNCHANGED <<parts, chunkSize, splits>>
    BY <1>5 DEF ChunksDone, SplitEnds
  <2>2. /\ InOrder(NumChunks) /\ splits > 0
        /\ splits = 1 => DOMAIN parts = 1..NumChunks
    BY <2>1 DEF ChunkInv
  <2>3. InOrder(NumChunks)'
    BY <1>2, <2>1, <2>2 DEF InOrder
  <2>4. splits = 1 => DOMAIN parts = 1..NumChunks'
    BY <1>2, <2>1, <2>2
  <2> QED
    BY <1>1, <2>1, <2>2, <2>3, <2>4 DEF ChunkInv
<1>6. CASE PartLost \/ CutShort
  <2>1. splitPhase' = "down" /\ splitExit' # "ok" /\ splits' = splits /\ splits > 0
    BY <1>6 DEF PartLost, CutShort, SplitEnds, ChunkInv
  <2> QED
    BY <2>1 DEF ChunkInv
<1>7. CASE GroupRow \/ GroupRowsDone \/ FlushGroup
  <2>1. /\ splitPhase \in {"rows", "flush"} /\ splitPhase' \in {"rows", "flush"}
        /\ UNCHANGED <<parts, splitExit, splits>>
    BY <1>7 DEF GroupRow, GroupRowsDone, FlushGroup
  <2>2. splitExit = "none" /\ splits > 0
    BY <2>1 DEF SplitSide, Started, ChunkInv
  <2> QED
    BY <2>1, <2>2 DEF ChunkInv
<1>8. CASE GroupsDone
  <2>1. /\ splitPhase \in {"rows", "flush"} /\ splitPhase' = "down"
        /\ UNCHANGED <<parts, chunkSize, splits>>
    BY <1>8 DEF GroupsDone, SplitEnds
  <2>2. chunkSize = 0 /\ splits > 0
    BY <2>1 DEF SplitSide, Started, ChunkInv
  <2> QED
    BY <2>1, <2>2 DEF ChunkInv
<1>9. ASSUME NEW n \in ChunkSizes, StartSplit(created, out, n)
      PROVE  ChunkInv'
  <2>1. /\ splits' = splits + 1 /\ splits' > 0 /\ done' = 0 /\ splitExit' \in {"none", "error"}
        /\ splitPhase' \in {"chunk", "rows", "down"} /\ UNCHANGED parts
    BY <1>1, <1>9 DEF StartSplit
  <2>2. splits' = 1 => DOMAIN parts' = {}
    BY <1>1, <2>1 DEF ChunkInv
  <2>3. 1..0 = {} /\ InOrder(0)'
    BY DEF InOrder
  <2>4. InOrder(done)'
    BY <2>1, <2>3 DEF InOrder
  <2> QED
    BY <1>1, <2>1, <2>2, <2>3, <2>4 DEF ChunkInv
<1>10. CASE UNCHANGED splitVars
  BY <1>10 DEF splitVars, ChunkInv, InOrder, Chunk, Rows, NumChunks
<1> QED
  BY <1>3, <1>4, <1>5, <1>6, <1>7, <1>8, <1>9, <1>10 DEF SplitNow, SplitStep

LEMMA PartsAreRight == SplitSide /\ ChunkInv => PartsCoverList
<1> SUFFICES ASSUME SplitSide, ChunkInv, splitExit = "ok", chunkSize > 0
             PROVE  /\ FlattenSeq([n \in 1..NumChunks |-> DataRows(parts[n])]) = Rows
                    /\ \A n \in 1..NumChunks : Len(DataRows(parts[n])) \in 1..chunkSize
                    /\ splits = 1 => DOMAIN parts = 1..NumChunks
  BY DEF PartsCoverList
<1>1. SplitTypeOK /\ Len(splitOf) > 1 /\ Headless(splitOf) /\ InOrder(NumChunks)
  BY DEF SplitSide, Started, ChunkInv
<1>2. PICK k \in Nat \ {0}, q \in Nat \ {0} :
        /\ k = NumChunks /\ q = chunkSize
        /\ (k - 1) * q <= Len(Rows) /\ Len(Rows) <= k * q
  <2>1. /\ chunkSize \in Nat \ {0} /\ NumChunks \in 1..Len(Rows) /\ Len(Rows) \in Nat
        /\ (NumChunks - 1) * chunkSize < Len(Rows) /\ Len(Rows) <= NumChunks * chunkSize
    BY <1>1, ChunkCount, RowFacts
  <2>2. (NumChunks - 1) * chunkSize \in Int /\ NumChunks \in Nat \ {0}
    BY <2>1
  <2>3. (NumChunks - 1) * chunkSize <= Len(Rows)
    BY <2>1, <2>2
  <2> QED
    BY <2>1, <2>2, <2>3
<1>3. \A n \in 1..k : /\ DataRows(parts[n]) = SubSeq(Rows, (n - 1) * q + 1, Min({n * q, Len(Rows)}))
                      /\ DataRows(parts[n]) \in Seq(AnyLine)
                      /\ Len(DataRows(parts[n])) \in 1..q
  <2>1. SUFFICES ASSUME NEW n \in 1..NumChunks
                 PROVE  /\ DataRows(parts[n]) =
                             SubSeq(Rows, (n - 1) * chunkSize + 1, Min({n * chunkSize, Len(Rows)}))
                        /\ DataRows(parts[n]) \in Seq(AnyLine)
                        /\ Len(DataRows(parts[n])) \in 1..chunkSize
    BY <1>2
  <2>2. parts[n] = Chunk(n)
    BY <1>1 DEF InOrder
  <2>3. DataRows(Chunk(n)) \in Seq(AnyLine)
    BY <1>1, ChunkFacts, RowsOfFile
  <2> QED
    BY <1>1, <2>2, <2>3, ChunkFacts
<1> DEFINE pieces == [n \in 1..NumChunks |-> DataRows(parts[n])]
<1>4. pieces \in Seq(Seq(AnyLine)) /\ Len(pieces) = k
  <2> HIDE DEF pieces
  <2>1. pieces \in [1..k -> Seq(AnyLine)]
    BY <1>2, <1>3 DEF pieces
  <2>2. pieces \in Seq(Seq(AnyLine))
    BY <2>1, SeqDef
  <2> QED
    BY <2>1, <2>2, LenProperties
<1>5. \A n \in 1..k : pieces[n] = SubSeq(Rows, (n - 1) * q + 1, Min({n * q, Len(Rows)}))
  BY <1>2, <1>3
<1>6. Rows \in Seq(AnyLine)
  BY <1>1, RowFacts
<1> HIDE DEF pieces
<1>7. FlattenSeq(pieces) = Rows
  <2>1. PICK s \in Seq(AnyLine) : s = Rows
    BY <1>6
  <2>2. /\ (k - 1) * q <= Len(s) /\ Len(s) <= k * q
        /\ \A n \in 1..k : pieces[n] = SubSeq(s, (n - 1) * q + 1, Min({n * q, Len(s)}))
    BY <1>2, <1>5, <2>1, Zenon
  <2>3. FlattenSeq(pieces) = s
    BY <1>4, <2>2, FlattenPieces
  <2> QED
    BY <2>1, <2>3
<1>8. splits = 1 => DOMAIN parts = 1..NumChunks
  BY DEF ChunkInv
<1> QED
  BY <1>2, <1>3, <1>7, <1>8 DEF pieces
-----------------------------------------------------------------------------
(* A split by a column. *)

GroupWith(row) == {r \in ToSet(Rows) : GroupOf[r] = GroupOf[row]}

(* What the open file of a row's group has to hold after k rows. *)
Taken(row, k) == TakenBy(Rows, GroupWith(row))[k]
Whole(row)    == Select(Rows, GroupWith(row))

GroupInv ==
  /\ splitPhase = "rows" =>
       \A row \in ToSet(Rows) :
         IF GroupOf[row] \in DOMAIN opened
         THEN opened[GroupOf[row]] = <<Header>> \o Taken(row, done)
         ELSE Taken(row, done) = <<>>
  /\ splitPhase = "flush" /\ losses = 0 =>
       \A row \in ToSet(Rows) :
         IF GroupOf[row] \in DOMAIN opened
         THEN opened[GroupOf[row]] = <<Header>> \o Whole(row)
         ELSE groups[GroupOf[row]] = <<Header>> \o Whole(row)
  /\ GroupsCoverList

(* After one row more. *)
LEMMA TakenFacts ==
  ASSUME SplitTypeOK, NEW row
  PROVE  /\ Taken(row, 0) = <<>> /\ Taken(row, Len(Rows)) = Whole(row)
         /\ \A k \in 0..Len(Rows) : Taken(row, k) \in Seq(AnyLine)
         /\ \A k \in 1..Len(Rows) :
              Taken(row, k) = IF GroupOf[Rows[k]] = GroupOf[row]
                              THEN Append(Taken(row, k - 1), Rows[k]) ELSE Taken(row, k - 1)
<1> DEFINE T == GroupWith(row)
<1>1. PICK n \in Nat : /\ n = Len(Rows) /\ Rows \in Seq(AnyLine)
                       /\ \A k \in 1..n : Rows[k] \in AnyLine /\ Rows[k] \in ToSet(Rows)
  <2>1. /\ Rows \in Seq(AnyLine) /\ Len(Rows) \in Nat /\ DOMAIN Rows = 1..Len(Rows)
        /\ \A k \in 1..Len(Rows) : Rows[k] \in AnyLine
    BY RowFacts
  <2> QED
    BY <2>1 DEF ToSet
<1>2. \A k \in 1..n : Rows[k] \in T <=> GroupOf[Rows[k]] = GroupOf[row]
  BY <1>1 DEF GroupWith
<1> HIDE DEF T
<1>3. /\ TakenBy(Rows, T)[0] = <<>> /\ TakenBy(Rows, T)[n] = Select(Rows, T)
      /\ \A k \in 1..n : TakenBy(Rows, T)[k] = IF Rows[k] \in T
                                               THEN Append(TakenBy(Rows, T)[k - 1], Rows[k])
                                               ELSE TakenBy(Rows, T)[k - 1]
  BY <1>1, TakenStepwise
<1> DEFINE Good == {k \in 0..n : TakenBy(Rows, T)[k] \in Seq(AnyLine)}
<1>4. 0 \in Good
  <2>1. <<>> \in Seq(AnyLine) /\ 0 \in 0..n
    BY EmptySeq
  <2>2. TakenBy(Rows, T)[0] \in Seq(AnyLine)
    BY <1>3, <2>1
  <2> QED
    BY <2>1, <2>2
<1>5. ASSUME NEW k \in 0..n, k < n, k \in Good
      PROVE  k + 1 \in Good
  <2>1. k + 1 \in 1..n /\ (k + 1) - 1 = k /\ k + 1 \in 0..n
    BY <1>5
  <2>2. TakenBy(Rows, T)[k + 1] \in {Append(TakenBy(Rows, T)[k], Rows[k + 1]), TakenBy(Rows, T)[k]}
    BY <1>3, <2>1
  <2>3. TakenBy(Rows, T)[k] \in Seq(AnyLine) /\ Rows[k + 1] \in AnyLine
    BY <1>1, <1>5, <2>1
  <2>4. Append(TakenBy(Rows, T)[k], Rows[k + 1]) \in Seq(AnyLine)
    BY <2>3, AppendProperties
  <2> QED
    BY <2>1, <2>2, <2>3, <2>4
<1>6. \A k \in 0..n : TakenBy(Rows, T)[k] \in Seq(AnyLine)
  <2> HIDE DEF Good
  <2>1. \A k \in 0..n : k < n /\ k \in Good => k + 1 \in Good
    BY <1>5
  <2>2. \A k \in 0..n : k \in Good
    BY <1>4, <2>1, CountingUp
  <2> QED
    BY <2>2 DEF Good
<1>7. \A k \in 0..n : Taken(row, k) = TakenBy(Rows, T)[k]
  BY DEF Taken, T
<1>8. Whole(row) = Select(Rows, T)
  BY DEF Whole, T
<1>9. Taken(row, 0) = <<>> /\ Taken(row, n) = Whole(row)
  BY <1>3, <1>7, <1>8
<1>10. ASSUME NEW k \in 1..n
       PROVE  Taken(row, k) = IF GroupOf[Rows[k]] = GroupOf[row]
                              THEN Append(Taken(row, k - 1), Rows[k]) ELSE Taken(row, k - 1)
  <2>1. k \in 0..n /\ k - 1 \in 0..n
    OBVIOUS
  <2>2. Taken(row, k) = TakenBy(Rows, T)[k] /\ Taken(row, k - 1) = TakenBy(Rows, T)[k - 1]
    BY <1>7, <2>1
  <2>3. TakenBy(Rows, T)[k] = IF GroupOf[Rows[k]] = GroupOf[row]
                              THEN Append(TakenBy(Rows, T)[k - 1], Rows[k])
                              ELSE TakenBy(Rows, T)[k - 1]
    BY <1>2, <1>3, SMTT(20)
  <2> QED
    BY <2>2, <2>3, Zenon
<1> QED
  BY <1>1, <1>6, <1>7, <1>9, <1>10

(* Appending to a file is appending to its rows. *)
LEMMA AppendBelow ==
  ASSUME NEW h \in AnyLine, NEW t \in Seq(AnyLine), NEW row \in AnyLine
  PROVE  Append(<<h>> \o t, row) = <<h>> \o Append(t, row)
<1>1. <<h>> \in Seq(AnyLine) /\ <<row>> \in Seq(AnyLine)
  OBVIOUS
<1>2. PICK g \in Seq(AnyLine), e \in Seq(AnyLine) : g = <<h>> /\ e = <<row>>
  BY <1>1
<1>3. g \o t \in Seq(AnyLine)
  BY ConcatProperties
<1>4. Append(g \o t, row) = (g \o t) \o e /\ Append(t, row) = t \o e
  BY <1>2, <1>3, AppendIsConcat
<1>5. (g \o t) \o e = g \o (t \o e)
  BY ConcatAssociative
<1>6. Append(g \o t, row) = g \o Append(t, row)
  BY <1>4, <1>5
<1> QED
  BY <1>2, <1>6
LEMMA GroupStart ==
  ASSUME SplitSide, out \in Seq(AnyLine), NEW n \in ChunkSizes, StartSplit(created, out, n)
  PROVE  GroupInv'
<1>1. /\ done' = 0 /\ opened' = <<>> /\ splitExit' \in {"none", "error"}
      /\ splitPhase' = "rows" => splitOf' = out
      /\ splitPhase' \in {"chunk", "rows", "down"}
  BY DEF StartSplit
<1>2. CASE splitPhase' = "rows"
  <2>1. Rows' = DataRows(out) /\ DataRows(out) \in Seq(AnyLine)
    BY <1>1, <1>2, RowsOfFile DEF Rows
  <2>2. \A T : TakenBy(DataRows(out), T)[0] = <<>>
    BY <2>1, TakenStepwise
  <2>3. \A row \in ToSet(Rows') : TakenBy(Rows', GroupWith(row)')[done'] = <<>>
    BY <1>1, <2>1, <2>2
  <2>4. DOMAIN opened' = {}
    BY <1>1
  <2> QED
    BY <1>1, <1>2, <2>3, <2>4 DEF GroupInv, GroupsCoverList, Taken
<1>3. CASE splitPhase' # "rows"
  BY <1>1, <1>3 DEF GroupInv, GroupsCoverList
<1> QED
  BY <1>2, <1>3

LEMMA GroupRowRight == SplitSide /\ GroupInv /\ GroupRow => GroupInv'
<1> SUFFICES ASSUME SplitSide, GroupInv, GroupRow
             PROVE  GroupInv'
  OBVIOUS
<1> DEFINE new == Rows[done + 1]
           g == GroupOf[new]
<1>1. /\ splitPhase = "rows" /\ done < Len(Rows) /\ done' = done + 1
      /\ UNCHANGED <<splitPhase, splitExit, splitOf, chunkSize, losses>>
  BY DEF GroupRow
<1>2. \/ g \in DOMAIN opened /\ opened' = [opened EXCEPT ![g] = Append(@, new)]
      \/ g \notin DOMAIN opened /\ opened' = WithFile(opened, g, <<Header, new>>)
  BY DEF GroupRow
<1>3. /\ SplitTypeOK /\ done \in Nat /\ Len(Rows) \in Nat
      /\ \A i \in 1..Len(Rows) : Rows[i] \in AnyLine
  <2>1. SplitTypeOK
    BY DEF SplitSide
  <2>2. Len(splitOf) \in Nat /\ Len(Rows) \in Nat /\ \A i \in 1..Len(Rows) : Rows[i] \in AnyLine
    BY <2>1, RowFacts
  <2>3. done \in Nat
    BY <2>1, <2>2 DEF SplitTypeOK
  <2> QED
    BY <2>1, <2>2, <2>3
<1>4. done + 1 \in 1..Len(Rows) /\ (done + 1) - 1 = done /\ done \in 0..Len(Rows) /\ new \in AnyLine
  BY <1>1, <1>3
<1> HIDE DEF new, g
<1>5. ASSUME NEW row \in ToSet(Rows)
      PROVE  IF GroupOf[row] \in DOMAIN opened'
             THEN opened'[GroupOf[row]] = <<Header>> \o Taken(row, done + 1)
             ELSE Taken(row, done + 1) = <<>>
  <2>1. /\ GroupOf[row] \in DOMAIN opened => opened[GroupOf[row]] = <<Header>> \o Taken(row, done)
        /\ GroupOf[row] \notin DOMAIN opened => Taken(row, done) = <<>>
    BY <1>1 DEF GroupInv
  <2>2. /\ Taken(row, done) \in Seq(AnyLine)
        /\ Taken(row, done + 1) = IF g = GroupOf[row] THEN Append(Taken(row, done), new)
                                  ELSE Taken(row, done)
    <3>1. /\ \A k \in 0..Len(Rows) : Taken(row, k) \in Seq(AnyLine)
          /\ \A k \in 1..Len(Rows) :
               Taken(row, k) = IF GroupOf[Rows[k]] = GroupOf[row]
                               THEN Append(Taken(row, k - 1), Rows[k]) ELSE Taken(row, k - 1)
      BY <1>3, TakenFacts
    <3>2. Taken(row, done + 1) = IF GroupOf[Rows[done + 1]] = GroupOf[row]
                                 THEN Append(Taken(row, done), Rows[done + 1]) ELSE Taken(row, done)
      BY <1>4, <3>1
    <3> QED
      BY <1>4, <3>1, <3>2 DEF new, g
  <2>3. CASE GroupOf[row] # g
    <3>1. Taken(row, done + 1) = Taken(row, done)
      BY <2>2, <2>3
    <3>2. /\ GroupOf[row] \in DOMAIN opened' <=> GroupOf[row] \in DOMAIN opened
          /\ GroupOf[row] \in DOMAIN opened => opened'[GroupOf[row]] = opened[GroupOf[row]]
      <4>1. CASE opened' = [opened EXCEPT ![g] = Append(opened[g], new)]
        BY <2>3, <4>1
      <4>2. CASE opened' = WithFile(opened, g, <<Header, new>>)
        BY <2>3, <4>2 DEF WithFile
      <4> QED
        BY <1>2, <4>1, <4>2
    <3> QED
      BY <2>1, <3>1, <3>2
  <2>4. CASE GroupOf[row] = g /\ g \in DOMAIN opened
    <3>1. opened' = [opened EXCEPT ![g] = Append(opened[g], new)]
      BY <1>2, <2>4
    <3>2. g \in DOMAIN opened' /\ opened'[g] = Append(opened[g], new)
      BY <2>4, <3>1
    <3>3. Header \in AnyLine
      BY DEF AnyLine
    <3>4. Append(<<Header>> \o Taken(row, done), new) = <<Header>> \o Append(Taken(row, done), new)
      BY <1>4, <2>2, <3>3, AppendBelow
    <3>5. opened[g] = <<Header>> \o Taken(row, done)
      BY <2>1, <2>4
    <3> QED
      BY <2>2, <2>4, <3>2, <3>4, <3>5
  <2>5. CASE GroupOf[row] = g /\ g \notin DOMAIN opened
    <3>1. opened' = WithFile(opened, g, <<Header, new>>)
      BY <1>2, <2>5
    <3>2. g \in DOMAIN opened' /\ opened'[g] = <<Header, new>>
      BY <3>1 DEF WithFile
    <3>3. Taken(row, done + 1) = Append(<<>>, new)
      BY <2>1, <2>2, <2>5
    <3>4. <<Header, new>> = <<Header>> \o Append(<<>>, new)
      OBVIOUS
    <3> QED
      BY <2>5, <3>2, <3>3, <3>4
  <2> QED
    BY <2>3, <2>4, <2>5
<1>7. Rows' = Rows /\ \A row \in ToSet(Rows) : Taken(row, done)' = Taken(row, done + 1)
  BY <1>1 DEF Rows, GroupWith, Taken
<1>8. splitExit' = "none"
  BY <1>1 DEF SplitSide, Started
<1> QED
  BY <1>1, <1>5, <1>7, <1>8 DEF GroupInv, GroupsCoverList
LEMMA GroupRowsDoneRight == SplitSide /\ GroupInv /\ GroupRowsDone => GroupInv'
<1> SUFFICES ASSUME SplitSide, GroupInv, GroupRowsDone
             PROVE  GroupInv'
  OBVIOUS
<1>1. /\ splitPhase = "rows" /\ done = Len(Rows) /\ splitPhase' = "flush"
      /\ UNCHANGED <<groups, splitExit, splitOf, opened, losses>>
  BY DEF GroupRowsDone
<1>2. SplitTypeOK /\ splitExit = "none"
  BY <1>1 DEF SplitSide, Started
<1>3. ASSUME NEW row \in ToSet(Rows)
      PROVE  /\ GroupOf[row] \in DOMAIN opened
             /\ opened[GroupOf[row]] = <<Header>> \o Whole(row)
  <2>1. Taken(row, done) = Whole(row)
    BY <1>1, <1>2, TakenFacts
  <2>2. Rows \in Seq(AnyLine) /\ row \in GroupWith(row)
    BY <1>2, RowFacts DEF GroupWith
  <2>3. ToSet(Whole(row)) = ToSet(Rows) \cap GroupWith(row)
    BY <2>2, SelectProperties DEF Whole
  <2>4. ToSet(<<>>) = {}
    BY DEF ToSet
  <2>5. Whole(row) # <<>>
    BY <2>2, <2>3, <2>4
  <2> QED
    BY <1>1, <2>1, <2>5 DEF GroupInv
<1>4. Rows' = Rows /\ \A row \in ToSet(Rows) : Whole(row)' = Whole(row)
  BY <1>1 DEF Rows, Whole, GroupWith
<1> QED
  BY <1>1, <1>2, <1>3, <1>4 DEF GroupInv, GroupsCoverList

LEMMA FlushGroupRight == SplitSide /\ GroupInv /\ FlushGroup => GroupInv'
<1> SUFFICES ASSUME SplitSide, GroupInv, FlushGroup
             PROVE  GroupInv'
  OBVIOUS
<1>1. splitPhase = "flush" /\ UNCHANGED <<splitPhase, splitExit, splitOf>>
  BY DEF FlushGroup
<1>2. PICK g \in DOMAIN opened :
        /\ \/ groups' = [groups EXCEPT ![g] = opened[g]] /\ UNCHANGED losses
           \/ losses < MaxSplitLosses /\ losses' = losses + 1 /\ UNCHANGED groups
        /\ opened' = [h \in DOMAIN opened \ {g} |-> opened[h]]
  BY DEF FlushGroup
<1>3. splitExit = "none" /\ losses \in Nat /\ DOMAIN opened \subseteq DOMAIN groups
  BY <1>1 DEF SplitSide, Started, SplitTypeOK
<1>4. Rows' = Rows /\ \A row \in ToSet(Rows) : Whole(row)' = Whole(row)
  BY <1>1 DEF Rows, Whole, GroupWith
<1>5. ASSUME losses' = 0, NEW row \in ToSet(Rows)
      PROVE  IF GroupOf[row] \in DOMAIN opened'
             THEN opened'[GroupOf[row]] = <<Header>> \o Whole(row)
             ELSE groups'[GroupOf[row]] = <<Header>> \o Whole(row)
  <2>1. losses = 0 /\ groups' = [groups EXCEPT ![g] = opened[g]]
    BY <1>2, <1>3, <1>5
  <2>2. /\ GroupOf[row] \in DOMAIN opened => opened[GroupOf[row]] = <<Header>> \o Whole(row)
        /\ GroupOf[row] \notin DOMAIN opened => groups[GroupOf[row]] = <<Header>> \o Whole(row)
    BY <1>1, <2>1 DEF GroupInv
  <2>3. CASE GroupOf[row] = g
    <3>1. g \notin DOMAIN opened' /\ groups'[g] = opened[g]
      BY <1>2, <1>3, <2>1
    <3> QED
      BY <2>2, <2>3, <3>1
  <2>4. CASE GroupOf[row] # g
    <3>1. /\ GroupOf[row] \in DOMAIN opened' <=> GroupOf[row] \in DOMAIN opened
          /\ GroupOf[row] \in DOMAIN opened => opened'[GroupOf[row]] = opened[GroupOf[row]]
          /\ groups'[GroupOf[row]] = groups[GroupOf[row]]
      BY <1>2, <2>1, <2>4
    <3> QED
      BY <2>2, <3>1
  <2> QED
    BY <2>3, <2>4
<1> QED
  BY <1>1, <1>3, <1>4, <1>5 DEF GroupInv, GroupsCoverList

LEMMA GroupsDoneRight == SplitSide /\ GroupInv /\ GroupsDone => GroupInv'
<1> SUFFICES ASSUME SplitSide, GroupInv, GroupsDone
             PROVE  GroupInv'
  OBVIOUS
<1>1. /\ splitPhase = "flush" /\ DOMAIN opened = {} /\ splitPhase' = "down"
      /\ UNCHANGED <<groups, splitOf, losses>>
  BY DEF GroupsDone, SplitEnds
<1>2. Rows' = Rows /\ \A row \in ToSet(Rows) : Whole(row)' = Whole(row)
  BY <1>1 DEF Rows, Whole, GroupWith
<1>3. losses = 0 => \A row \in ToSet(Rows) : groups[GroupOf[row]] = <<Header>> \o Whole(row)
  BY <1>1 DEF GroupInv
<1>4. losses' = 0 => \A row \in ToSet(Rows') : groups'[GroupOf[row]] = <<Header>> \o Whole(row)'
  BY <1>1, <1>2, <1>3
<1>5. GroupsCoverList'
  BY <1>4 DEF GroupsCoverList, Whole, GroupWith
<1> QED
  BY <1>1, <1>5 DEF GroupInv

LEMMA GroupInvStep ==
  ASSUME SplitSide, GroupInv, SplitNow, out \in Seq(AnyLine)
  PROVE  GroupInv'
<1>1. CASE CreatePart \/ FlushPart \/ ChunksDone \/ PartLost \/ CutShort
  <2>1. /\ splitPhase' \in {"down", "chunk", "fill"}
        /\ splitPhase \in {"chunk", "fill"} \/ splitExit' # "ok"
        /\ splitPhase \in {"chunk", "fill"} => chunkSize' = chunkSize /\ chunkSize > 0
    BY <1>1 DEF CreatePart, FlushPart, ChunksDone, PartLost, CutShort, SplitEnds,
                SplitSide, Started
  <2>2. splitExit' # "ok" \/ chunkSize' # 0
    BY <2>1 DEF SplitSide, SplitTypeOK
  <2> QED
    BY <2>1, <2>2 DEF GroupInv, GroupsCoverList
<1>2. CASE UNCHANGED splitVars
  BY <1>2 DEF splitVars, GroupInv, GroupsCoverList, Taken, Whole, GroupWith, Rows
<1> QED
  BY <1>1, <1>2, GroupStart, GroupRowRight, GroupRowsDoneRight, FlushGroupRight, GroupsDoneRight
     DEF SplitNow, SplitStep

-----------------------------------------------------------------------------
(* The list and the split together. *)

FilesInv == ListSide /\ SplitSide /\ ChunkInv /\ GroupInv

LEMMA FilesInvInit == Init => FilesInv
<1> SUFFICES ASSUME Init
             PROVE  FilesInv
  OBVIOUS
<1>1. ListInit /\ SplitInit
  BY DEF Init
<1>2. GroupInv
  BY <1>1 DEF SplitInit, GroupInv, GroupsCoverList
<1> QED
  BY <1>1, <1>2, ListSideInit, SplitSideInit, ChunkInvInit DEF FilesInv

LEMMA FilesInvStep == FilesInv /\ [Next /\ Bounded']_vars => FilesInv'
<1> SUFFICES ASSUME FilesInv, [Next /\ Bounded']_vars
             PROVE  FilesInv'
  OBVIOUS
<1>1. [ListNext]_listVars /\ SplitNow
  BY PipelineStep, PipelineSplitStep
<1>2. out \in Seq(AnyLine) /\ Headless(out)
  BY OutTyped DEF FilesInv, ListSide, OutFile
<1> QED
  BY <1>1, <1>2, ListSideStep, SplitSideStep, ChunkInvStep, GroupInvStep DEF FilesInv

(* runChunkSplit (split.go:130-172): a split by size that reports success   *)
(* has put every row into exactly one part, in order, whatever an earlier   *)
(* or a killed split left in the directory.                                 *)
THEOREM PartsHoldTheList == Spec => []PartsCoverList
<1>1. FilesInv => PartsCoverList
  BY PartsAreRight DEF FilesInv
<1> QED
  BY FilesInvInit, FilesInvStep, <1>1, PTL DEF Spec

(* RunSplit (split.go:60-128): a split by a column that reports success and *)
(* lost no flush has put every row into the file of its value, under a      *)
(* header, in order and once.                                               *)
THEOREM GroupsHoldTheList == Spec => []GroupsCoverList
<1>1. FilesInv => GroupsCoverList
  BY DEF FilesInv, GroupInv
<1> QED
  BY FilesInvInit, FilesInvStep, <1>1, PTL DEF Spec
-----------------------------------------------------------------------------
(* The run side: types, and who runs when. *)

Control ==
  /\ script = "loop" => scriptExit = "none" /\ first <= part /\ part <= last + 1
  /\ alive["child"] => script = "loop" /\ part <= last /\ at["child"] = part
  /\ \A c \in Crawlers : ~alive[c] => todo[c] = <<>> /\ due[c] = NoId

RunSide == RunTypeOK /\ Control

(* The parts of the type, for the steps that change one of them. *)
LogsOK == /\ acks \in [Names -> SUBSET Ids] /\ errs \in [Names -> SUBSET Ids]
          /\ rowsOf \in [Ids -> 0..Many]
LoopOK == /\ script \in {"off", "loop"} /\ first \in Names /\ last \in Names
          /\ part \in 0..MaxParts + 1
          /\ results \in [Names -> {"none", "OK", "SKIPPED", "INTERRUPTED"}]
          /\ scriptExit \in {"none", "0", "1", "killed"}
ProcsOK == /\ alive \in [Crawlers -> BOOLEAN] /\ at \in [Crawlers -> Names]
           /\ todo \in [Crawlers -> Seq(Ids)] /\ due \in [Crawlers -> Ids \cup {NoId}]
BoundsOK == outages \in 0..MaxOutages /\ crashes \in 0..MaxCrashes

LEMMA RunTypeParts == RunTypeOK <=> LogsOK /\ LoopOK /\ ProcsOK /\ BoundsOK
BY DEF RunTypeOK, LogsOK, LoopOK, ProcsOK, BoundsOK

LEMMA RunSideInit == RunInit => RunSide
<1> SUFFICES ASSUME RunInit
             PROVE  RunSide
  OBVIOUS
<1>1. LogsOK
  BY DEF RunInit, LogsOK, Many
<1>2. LoopOK
  BY DEF RunInit, LoopOK, Names
<1>3. ProcsOK
  <2>1. <<>> \in Seq(Ids) /\ 0 \in Names
    BY EmptySeq DEF Names
  <2> QED
    BY <2>1 DEF RunInit, ProcsOK
<1>4. BoundsOK
  BY DEF RunInit, BoundsOK
<1>5. Control
  BY DEF RunInit, Control, Crawlers
<1> QED
  BY <1>1, <1>2, <1>3, <1>4, <1>5, RunTypeParts DEF RunSide

(* Numbers the steps of the loop need. *)
LEMMA LoopFacts ==
  ASSUME RunSide
  PROVE  /\ LogsOK /\ LoopOK /\ ProcsOK /\ BoundsOK
         /\ part \in Nat /\ last \in 0..MaxParts /\ first \in 0..MaxParts
         /\ part <= last => part \in Names
         /\ alive["child"] => part \in Names /\ script = "loop" /\ part <= last
<1>1. LogsOK /\ LoopOK /\ ProcsOK /\ BoundsOK
  BY RunTypeParts DEF RunSide
<1>2. part \in Nat /\ last \in 0..MaxParts /\ first \in 0..MaxParts
  BY <1>1 DEF LoopOK, Names
<1>3. part <= last => part \in Names
  BY <1>2 DEF Names
<1> QED
  BY <1>1, <1>2, <1>3 DEF RunSide, Control

LEMMA GoesOnKeeps ==
  ASSUME RunSide, part <= last, script = "loop",
         NEW r \in {"OK", "SKIPPED", "INTERRUPTED"}, GoesOn(r)
  PROVE  /\ LoopOK' /\ script' = "loop" /\ scriptExit' = "none"
         /\ first' <= part' /\ part' <= last' + 1
<1>1. /\ results' = [results EXCEPT ![part] = r] /\ part' = part + 1
      /\ UNCHANGED <<script, last, first, scriptExit>>
  BY DEF GoesOn
<1>2. LoopOK /\ part \in Names /\ part \in Nat /\ last \in 0..MaxParts /\ first \in 0..MaxParts
      /\ first <= part /\ scriptExit = "none"
  BY LoopFacts DEF RunSide, Control
<1>3. part' \in 0..MaxParts + 1 /\ first' <= part' /\ part' <= last' + 1
  BY <1>1, <1>2
<1>4. results' \in [Names -> {"none", "OK", "SKIPPED", "INTERRUPTED"}]
  BY <1>1, <1>2 DEF LoopOK
<1> QED
  BY <1>1, <1>2, <1>3, <1>4 DEF LoopOK

LEMMA EndsLoop ==
  ASSUME RunSide, NEW code \in {"0", "1", "killed"}, Ends(code)
  PROVE  LoopOK' /\ script' = "off"
<1>1. /\ script' = "off" /\ scriptExit' = code
      /\ results' = [n \in Names |-> "none"] /\ part' = 0
      /\ first' \in {first, 0} /\ last' \in {last, 0}
  BY DEF Ends
<1>2. LoopOK /\ 0 \in Names
  BY LoopFacts DEF Names
<1> QED
  BY <1>1, <1>2 DEF LoopOK

LEMMA GoneKeeps ==
  ASSUME RunSide, NEW c \in Crawlers, Gone(c)
  PROVE  /\ ProcsOK' /\ ~alive'[c]
         /\ \A d \in Crawlers : ~alive'[d] => todo'[d] = <<>> /\ due'[d] = NoId
         /\ \A d \in Crawlers : d # c => /\ alive'[d] = alive[d] /\ at'[d] = at[d]
                                         /\ todo'[d] = todo[d] /\ due'[d] = due[d]
<1>1. /\ alive' = [alive EXCEPT ![c] = FALSE]
      /\ todo' = [todo EXCEPT ![c] = <<>>] /\ due' = [due EXCEPT ![c] = NoId]
      /\ UNCHANGED at
  BY DEF Gone
<1>2. ProcsOK /\ <<>> \in Seq(Ids)
  BY LoopFacts, EmptySeq
<1>3. ProcsOK'
  BY <1>1, <1>2 DEF ProcsOK
<1>4. ~alive'[c] /\ todo'[c] = <<>> /\ due'[c] = NoId
  BY <1>1, <1>2 DEF ProcsOK
<1>5. \A d \in Crawlers : d # c => /\ alive'[d] = alive[d] /\ at'[d] = at[d]
                                   /\ todo'[d] = todo[d] /\ due'[d] = due[d]
  BY <1>1, <1>2 DEF ProcsOK
<1> QED
  BY <1>3, <1>4, <1>5 DEF RunSide, Control
(* What "detail" is given are files of lines with no header below the first *)
(* one; those it can read hold ids only.                                    *)
LEMMA FilesTyped ==
  ASSUME FilesInv, NEW n \in DOMAIN Files
  PROVE  Files[n] \in Seq(AnyLine) /\ Headless(Files[n])
<1>1. out \in Seq(AnyLine) /\ Headless(out)
  BY OutTyped DEF FilesInv, ListSide, OutFile
<1>2. \A m \in DOMAIN parts : parts[m] \in Seq(AnyLine) /\ Headless(parts[m])
  BY AllLines DEF FilesInv, SplitSide, SplitTypeOK, PartsHeadless
<1>3. CASE flow # "whole"
  BY <1>2, <1>3 DEF Files
<1>4. CASE flow = "whole" /\ created
  BY <1>1, <1>4 DEF Files
<1>5. CASE flow = "whole" /\ ~created
  <2>1. Files = <<>>
    BY <1>5 DEF Files
  <2>2. DOMAIN Files = {}
    BY <2>1
  <2> QED
    BY <2>2
<1> QED
  BY <1>3, <1>4, <1>5

LEMMA FileFed ==
  ASSUME FilesInv, NEW n \in DOMAIN Files, Readable(Files[n])
  PROVE  DataRows(Files[n]) \in Seq(Ids) /\ ToSet(DataRows(Files[n])) \subseteq Ids
<1> DEFINE f == Files[n]
<1>1. f \in Seq(AnyLine) /\ Headless(f)
  BY FilesTyped
<1>2. Torn \notin ToSet(f)
  BY DEF Readable
<1> HIDE DEF f
<1>3. DataRows(f) \in Seq(AnyLine) /\ ToSet(DataRows(f)) \subseteq ToSet(f)
  BY <1>1, RowsOfFile
<1>4. ToSet(DataRows(f)) \subseteq Ids
  BY <1>1, <1>2, <1>3 DEF Headless, BodyLine
<1>5. DataRows(f) \in Seq(ToSet(DataRows(f)))
  BY <1>3, OwnRange
<1>6. DataRows(f) \in Seq(Ids)
  BY <1>4, <1>5
<1> QED
  BY <1>4, <1>6 DEF f

LEMMA PendingTyped ==
  ASSUME RunSide, FilesInv, NEW n \in DOMAIN Files \cap Names, Readable(Files[n])
  PROVE  Pending(Files[n], n) \in Seq(Ids)
<1> DEFINE ids == DataRows(Files[n])
           S   == ToSet(ids) \ acks[n]
<1>1. ids \in Seq(Ids)
  BY FileFed
<1>2. Select(ids, S) \in Seq(Ids)
  <2> HIDE DEF ids, S
  <2> QED
    BY <1>1, SelectProperties
<1> QED
  BY <1>2 DEF Pending
(* The parts together; Control of the step's result is given in full.      *)
LEMMA RunSideFromParts ==
  ASSUME LogsOK', LoopOK', ProcsOK', BoundsOK', Control'
  PROVE  RunSide'
BY RunTypeParts, PTL DEF RunSide

LEMMA SkipOrFailKeeps ==
  ASSUME RunSide, FilesInv, SkipPart(Files) \/ DetailFails(Files, tool = "pddikti")
  PROVE  RunSide'
<1>1. PICK r \in {"OK", "SKIPPED", "INTERRUPTED"} : GoesOn(r)
  BY DEF SkipPart, DetailFails
<1>2. InLoop /\ UNCHANGED <<partLogs, procs, runBounds>>
  BY DEF SkipPart, DetailFails
<1>3. script = "loop" /\ part <= last /\ ~alive["child"]
  BY <1>2 DEF InLoop
<1>4. /\ LoopOK' /\ script' = "loop" /\ scriptExit' = "none"
      /\ first' <= part' /\ part' <= last' + 1
  BY <1>1, <1>3, GoesOnKeeps
<1>5. Control'
  BY <1>2, <1>3, <1>4 DEF Control, RunSide, procs
<1>6. LogsOK' /\ ProcsOK' /\ BoundsOK'
  BY <1>2, LoopFacts DEF partLogs, procs, runBounds, LogsOK, ProcsOK, BoundsOK
<1> QED
  BY <1>4, <1>5, <1>6, RunSideFromParts

LEMMA RunPartKeeps ==
  ASSUME RunSide, FilesInv, RunPart(Files, tool = "pddikti")
  PROVE  RunSide'
<1>1. /\ script = "loop" /\ part <= last /\ ~alive["child"]
      /\ part \in DOMAIN Files /\ Readable(Files[part])
      /\ alive' = [alive EXCEPT !["child"] = TRUE]
      /\ at' = [at EXCEPT !["child"] = part]
      /\ todo' = [todo EXCEPT !["child"] = Pending(Files[part], part)]
      /\ due' = [due EXCEPT !["child"] = NoId]
      /\ UNCHANGED <<partLogs, loop, runBounds>>
  BY DEF RunPart, InLoop, Reads
<1>2. LogsOK /\ LoopOK /\ ProcsOK /\ BoundsOK /\ part \in Names /\ Control
  BY <1>1, LoopFacts DEF RunSide
<1>3. Pending(Files[part], part) \in Seq(Ids)
  BY <1>1, <1>2, PendingTyped
<1>4. ProcsOK'
  BY <1>1, <1>2, <1>3 DEF ProcsOK
<1>5. alive'["child"] /\ at'["child"] = part
  BY <1>1, <1>2 DEF ProcsOK, Crawlers
<1>6. \A c \in Crawlers \ {"child"} : alive'[c] = alive[c] /\ todo'[c] = todo[c] /\ due'[c] = due[c]
  BY <1>1, <1>2 DEF ProcsOK
<1>7. Control'
  BY <1>1, <1>2, <1>5, <1>6 DEF Control, loop
<1>8. LogsOK' /\ LoopOK' /\ BoundsOK'
  BY <1>1, <1>2 DEF partLogs, loop, runBounds, LogsOK, LoopOK, BoundsOK
<1> QED
  BY <1>4, <1>7, <1>8, RunSideFromParts

LEMMA FinishScriptKeeps == RunSide /\ FinishScript => RunSide'
<1> SUFFICES ASSUME RunSide, FinishScript
             PROVE  RunSide'
  OBVIOUS
<1>1. PICK code \in {"0", "1", "killed"} : Ends(code)
  BY DEF FinishScript, SummaryCode
<1>2. ~alive["child"] /\ UNCHANGED <<partLogs, procs, runBounds>>
  BY DEF FinishScript
<1>3. LoopOK' /\ script' = "off"
  BY <1>1, EndsLoop
<1>4. LogsOK' /\ ProcsOK' /\ BoundsOK'
  BY <1>2, LoopFacts DEF partLogs, procs, runBounds, LogsOK, ProcsOK, BoundsOK
<1>5. Control'
  BY <1>2, <1>3 DEF RunSide, Control, procs
<1> QED
  BY <1>3, <1>4, <1>5, RunSideFromParts

(* The end of the script's own detail process, by itself or not. *)
LEMMA ChildEndsKeeps ==
  ASSUME RunSide, alive["child"], Gone("child"), LogsOK', BoundsOK',
         NEW r \in {"OK", "SKIPPED", "INTERRUPTED"}, GoesOn(r)
  PROVE  RunSide'
<1>1. "child" \in Crawlers
  BY DEF Crawlers
<1>2. script = "loop" /\ part <= last
  BY DEF RunSide, Control
<1>3. /\ LoopOK' /\ script' = "loop" /\ scriptExit' = "none"
      /\ first' <= part' /\ part' <= last' + 1
  BY <1>2, GoesOnKeeps
<1>4. /\ ProcsOK' /\ ~alive'["child"]
      /\ \A d \in Crawlers : ~alive'[d] => todo'[d] = <<>> /\ due'[d] = NoId
  BY <1>1, GoneKeeps
<1>5. Control'
  BY <1>3, <1>4 DEF Control
<1> QED
  BY <1>3, <1>4, <1>5, RunSideFromParts

LEMMA PartDoneKeeps == RunSide /\ PartDone => RunSide'
<1> SUFFICES ASSUME RunSide, PartDone
             PROVE  RunSide'
  OBVIOUS
<1>1. /\ alive["child"] /\ Gone("child") /\ GoesOn("OK") /\ UNCHANGED <<partLogs, runBounds>>
  BY DEF PartDone
<1>2. LogsOK' /\ BoundsOK'
  BY <1>1, LoopFacts DEF partLogs, runBounds, LogsOK, BoundsOK
<1> QED
  BY <1>1, <1>2, ChildEndsKeeps

LEMMA CrashKeeps == RunSide /\ Crash => BoundsOK'
<1> SUFFICES ASSUME RunSide, Crash
             PROVE  BoundsOK'
  OBVIOUS
<1>1. BoundsOK
  BY LoopFacts
<1> QED
  BY <1>1 DEF Crash, BoundsOK

LEMMA KillChildKeeps == RunSide /\ KillChild => RunSide'
<1> SUFFICES ASSUME RunSide, KillChild
             PROVE  RunSide'
  OBVIOUS
<1>1. /\ alive["child"] /\ Crash /\ Gone("child") /\ GoesOn("INTERRUPTED") /\ UNCHANGED partLogs
  BY DEF KillChild
<1>2. LogsOK' /\ BoundsOK'
  BY <1>1, LoopFacts, CrashKeeps DEF partLogs, LogsOK
<1> QED
  BY <1>1, <1>2, ChildEndsKeeps

LEMMA InterruptedKeeps == RunSide /\ Interrupted => RunSide'
<1> SUFFICES ASSUME RunSide, Interrupted
             PROVE  RunSide'
  OBVIOUS
<1>1. /\ alive["child"] /\ Gone("child") /\ GoesOn("INTERRUPTED")
      /\ outages < MaxOutages /\ outages' = outages + 1 /\ UNCHANGED <<acks, rowsOf, crashes>>
  BY DEF Interrupted, Cancelled
<1>2. PICK ids \in SUBSET ToSet(todo["child"]) : errs' = [errs EXCEPT ![at["child"]] = @ \cup ids]
  BY DEF Interrupted, Cancelled
<1>3. LogsOK /\ ProcsOK /\ BoundsOK
  BY LoopFacts
<1>4. todo["child"] \in Seq(Ids) /\ at["child"] \in Names
  BY <1>3 DEF ProcsOK, Crawlers
<1>5. ids \subseteq Ids
  BY <1>4, ToSetIn
<1>6. LogsOK'
  BY <1>1, <1>2, <1>3, <1>4, <1>5 DEF LogsOK
<1>7. BoundsOK'
  BY <1>1, <1>3 DEF BoundsOK
<1> QED
  BY <1>1, <1>6, <1>7, ChildEndsKeeps

LEMMA OrphanDoneKeeps == RunSide /\ OrphanDone => RunSide'
<1> SUFFICES ASSUME RunSide, OrphanDone
             PROVE  RunSide'
  OBVIOUS
<1>1. Gone("orphan") /\ UNCHANGED <<partLogs, loop, runBounds>>
  BY DEF OrphanDone
<1>2. "child" \in Crawlers /\ "orphan" \in Crawlers /\ "child" # "orphan"
  BY DEF Crawlers
<1>3. /\ ProcsOK' /\ \A d \in Crawlers : ~alive'[d] => todo'[d] = <<>> /\ due'[d] = NoId
      /\ alive'["child"] = alive["child"] /\ at'["child"] = at["child"]
  BY <1>1, <1>2, GoneKeeps
<1>4. LogsOK' /\ LoopOK' /\ BoundsOK'
  BY <1>1, LoopFacts DEF partLogs, loop, runBounds, LogsOK, LoopOK, BoundsOK
<1>5. Control'
  BY <1>1, <1>3 DEF RunSide, Control, loop
<1> QED
  BY <1>3, <1>4, <1>5, RunSideFromParts
(* Steps of a running crawler, which the loop does not see. *)
LEMMA CrawlerKeeps ==
  ASSUME RunSide, NEW c \in Crawlers, alive[c], UNCHANGED <<loop, alive, at>>,
         LogsOK', ProcsOK', BoundsOK',
         \A d \in Crawlers : d # c => todo'[d] = todo[d] /\ due'[d] = due[d]
  PROVE  RunSide'
<1>1. LoopOK'
  BY LoopFacts DEF loop, LoopOK
<1>2. Control'
  BY DEF RunSide, Control, loop
<1> QED
  BY <1>1, <1>2, RunSideFromParts

LEMMA OneLess ==
  ASSUME RunSide, NEW c \in Crawlers, NEW i \in DOMAIN todo[c], Without(c, i)
  PROVE  /\ todo[c] \in Seq(Ids) /\ i \in 1..Len(todo[c])
         /\ todo[c][i] \in Ids /\ todo[c][i] \in ToSet(todo[c])
         /\ todo'[c] = RemoveAt(todo[c], i)
         /\ todo' \in [Crawlers -> Seq(Ids)]
         /\ \A d \in Crawlers : d # c => todo'[d] = todo[d]
<1>1. ProcsOK
  BY LoopFacts
<1>2. todo \in [Crawlers -> Seq(Ids)] /\ todo[c] \in Seq(Ids)
  BY <1>1 DEF ProcsOK
<1>3. i \in 1..Len(todo[c])
  BY <1>2, LenProperties
<1>4. todo[c][i] \in Ids /\ todo[c][i] \in ToSet(todo[c])
  BY <1>2, <1>3, ElementOfSeq DEF ToSet
<1>5. RemoveAt(todo[c], i) \in Seq(Ids)
  BY <1>2, <1>3, RemoveAtProperties
<1>6. todo' = [todo EXCEPT ![c] = RemoveAt(todo[c], i)]
  BY DEF Without
<1> QED
  BY <1>2, <1>3, <1>4, <1>5, <1>6

LEMMA WriteRowOfKeeps ==
  ASSUME RunSide, NEW c \in Crawlers, WriteRowOf(c)
  PROVE  RunSide'
<1>1. PICK i \in DOMAIN todo[c] :
        /\ rowsOf' = [rowsOf EXCEPT ![todo[c][i]] = Min({@ + 1, Many})]
        /\ due' = [due EXCEPT ![c] = todo[c][i]]
        /\ Without(c, i)
  BY DEF WriteRowOf
<1>2. alive[c] /\ UNCHANGED <<acks, errs, loop, alive, at, runBounds>>
  BY DEF WriteRowOf
<1>3. LogsOK /\ ProcsOK /\ BoundsOK
  BY LoopFacts
<1>4. /\ todo[c][i] \in Ids /\ todo' \in [Crawlers -> Seq(Ids)]
      /\ \A d \in Crawlers : d # c => todo'[d] = todo[d]
  BY <1>1, OneLess
<1> DEFINE x == todo[c][i]
<1>5. rowsOf[x] \in 0..Many /\ Many \in Nat
  BY <1>3, <1>4 DEF LogsOK, Many
<1>6. Min({rowsOf[x] + 1, Many}) \in 0..Many
  BY <1>5, MinOfTwo
<1>7. rowsOf' \in [Ids -> 0..Many]
  BY <1>1, <1>3, <1>4, <1>6 DEF LogsOK
<1>8. LogsOK' /\ BoundsOK'
  BY <1>2, <1>3, <1>7 DEF LogsOK, runBounds, BoundsOK
<1>9. ProcsOK' /\ \A d \in Crawlers : d # c => due'[d] = due[d]
  BY <1>1, <1>2, <1>3, <1>4 DEF ProcsOK
<1> QED
  BY <1>2, <1>4, <1>8, <1>9, CrawlerKeeps

LEMMA AckRowKeeps ==
  ASSUME RunSide, NEW c \in Crawlers, AckRow(c)
  PROVE  RunSide'
<1>1. /\ alive[c] /\ due[c] # NoId
      /\ acks' = [acks EXCEPT ![at[c]] = @ \cup {due[c]}]
      /\ due' = [due EXCEPT ![c] = NoId]
      /\ UNCHANGED <<errs, rowsOf, loop, alive, at, todo, runBounds>>
  BY DEF AckRow
<1>2. LogsOK /\ ProcsOK /\ BoundsOK
  BY LoopFacts
<1>3. at[c] \in Names /\ due[c] \in Ids
  BY <1>1, <1>2 DEF ProcsOK
<1>4. LogsOK' /\ BoundsOK'
  BY <1>1, <1>2, <1>3 DEF LogsOK, runBounds, BoundsOK
<1>5. ProcsOK' /\ \A d \in Crawlers : d # c => todo'[d] = todo[d] /\ due'[d] = due[d]
  BY <1>1, <1>2 DEF ProcsOK
<1> QED
  BY <1>1, <1>4, <1>5, CrawlerKeeps

LEMMA GiveUpKeeps ==
  ASSUME RunSide, NEW c \in Crawlers, GiveUp(c)
  PROVE  RunSide'
<1>1. PICK i \in DOMAIN todo[c] :
        /\ outages' = outages \/ (outages < MaxOutages /\ outages' = outages + 1)
        /\ errs' = [errs EXCEPT ![at[c]] = @ \cup {todo[c][i]}]
        /\ Without(c, i)
  BY DEF GiveUp
<1>2. alive[c] /\ UNCHANGED <<acks, rowsOf, loop, alive, at, due, crashes>>
  BY DEF GiveUp
<1>3. LogsOK /\ ProcsOK /\ BoundsOK
  BY LoopFacts
<1>4. /\ todo[c][i] \in Ids /\ todo' \in [Crawlers -> Seq(Ids)]
      /\ \A d \in Crawlers : d # c => todo'[d] = todo[d]
  BY <1>1, OneLess
<1>5. at[c] \in Names
  BY <1>3 DEF ProcsOK
<1>6. LogsOK'
  BY <1>1, <1>2, <1>3, <1>4, <1>5 DEF LogsOK
<1>7. BoundsOK'
  BY <1>1, <1>2, <1>3 DEF BoundsOK
<1>8. ProcsOK'
  BY <1>2, <1>3, <1>4 DEF ProcsOK
<1> QED
  BY <1>2, <1>4, <1>6, <1>7, <1>8, CrawlerKeeps

LEMMA KillScriptKeeps == RunSide /\ KillScript => RunSide'
<1> SUFFICES ASSUME RunSide, KillScript
             PROVE  RunSide'
  OBVIOUS
<1>1. /\ Crash /\ Ends("killed") /\ UNCHANGED partLogs
      /\ alive' = [alive EXCEPT !["child"] = FALSE, !["orphan"] = alive["child"]]
      /\ at' = [at EXCEPT !["orphan"] = at["child"]]
      /\ todo' = [todo EXCEPT !["child"] = <<>>, !["orphan"] = todo["child"]]
      /\ due' = [due EXCEPT !["child"] = NoId, !["orphan"] = due["child"]]
  BY DEF KillScript
<1>2. LogsOK /\ ProcsOK /\ <<>> \in Seq(Ids) /\ Control
  BY LoopFacts, EmptySeq DEF RunSide
<1>3. /\ alive["child"] \in BOOLEAN /\ at["child"] \in Names
      /\ todo["child"] \in Seq(Ids) /\ due["child"] \in Ids \cup {NoId}
      /\ ~alive["child"] => todo["child"] = <<>> /\ due["child"] = NoId
  BY <1>2 DEF ProcsOK, Control, Crawlers
<1>4. alive' \in [Crawlers -> BOOLEAN] /\ at' \in [Crawlers -> Names]
  BY <1>1, <1>2, <1>3 DEF ProcsOK
<1>5. todo' \in [Crawlers -> Seq(Ids)] /\ due' \in [Crawlers -> Ids \cup {NoId}]
  BY <1>1, <1>2, <1>3 DEF ProcsOK
<1>6. /\ ~alive'["child"] /\ todo'["child"] = <<>> /\ due'["child"] = NoId
      /\ alive'["orphan"] = alive["child"] /\ todo'["orphan"] = todo["child"]
      /\ due'["orphan"] = due["child"]
  BY <1>1, <1>2 DEF ProcsOK, Crawlers
<1>7. LoopOK' /\ script' = "off"
  BY <1>1, EndsLoop
<1>8. LogsOK' /\ BoundsOK'
  BY <1>1, <1>2, CrashKeeps DEF partLogs, LogsOK
<1>9. Control'
  BY <1>3, <1>6, <1>7 DEF Control, Crawlers
<1>10. ProcsOK'
  BY <1>4, <1>5 DEF ProcsOK
<1> QED
  BY <1>7, <1>8, <1>9, <1>10, RunSideFromParts

LEMMA KillAllKeeps == RunSide /\ KillAll => RunSide'
<1> SUFFICES ASSUME RunSide, KillAll
             PROVE  RunSide'
  OBVIOUS
<1>1. /\ Crash /\ Ends("killed") /\ UNCHANGED <<partLogs, at>>
      /\ alive' = [c \in Crawlers |-> FALSE]
      /\ todo' = [c \in Crawlers |-> <<>>] /\ due' = [c \in Crawlers |-> NoId]
  BY DEF KillAll
<1>2. LogsOK /\ ProcsOK /\ <<>> \in Seq(Ids)
  BY LoopFacts, EmptySeq
<1>3. LoopOK' /\ script' = "off"
  BY <1>1, EndsLoop
<1>4. LogsOK' /\ BoundsOK'
  BY <1>1, <1>2, CrashKeeps DEF partLogs, LogsOK
<1>5. ProcsOK'
  BY <1>1, <1>2 DEF ProcsOK
<1>6. Control'
  BY <1>1, <1>3 DEF Control, Crawlers
<1> QED
  BY <1>3, <1>4, <1>5, <1>6, RunSideFromParts

(* Starting the script, or not being able to; a list or a split between.    *)
LEMMA StartKeepsRun ==
  ASSUME RunSide, NEW from \in Names, NEW to \in Names, from <= to, StartScript(from, to)
  PROVE  RunSide'
<1>1. /\ script = "off" /\ script' = "loop" /\ first' = from /\ part' = from /\ last' = to
      /\ results' = [n \in Names |-> "none"] /\ scriptExit' = "none"
      /\ UNCHANGED <<partLogs, procs, runBounds>>
  BY DEF StartScript, Idle
<1>2. LogsOK /\ ProcsOK /\ BoundsOK /\ ~alive["child"]
  BY <1>1, LoopFacts
<1>3. from \in 0..MaxParts /\ to \in 0..MaxParts
  BY DEF Names
<1>4. from \in 0..MaxParts + 1 /\ from <= to + 1
  BY <1>3
<1>5. LoopOK'
  BY <1>1, <1>4 DEF LoopOK
<1>6. LogsOK' /\ ProcsOK' /\ BoundsOK'
  BY <1>1, <1>2 DEF partLogs, procs, runBounds, LogsOK, ProcsOK, BoundsOK
<1>7. Control'
  BY <1>1, <1>2, <1>4 DEF RunSide, Control, procs
<1> QED
  BY <1>5, <1>6, <1>7, RunSideFromParts

LEMMA OffKeeps ==
  ASSUME RunSide, Idle, Outdated \/ NoParts
  PROVE  RunSide'
<1>1. /\ script = "off" /\ scriptExit' \in {"none", "1"}
      /\ results' \in {results, [n \in Names |-> "none"]}
      /\ UNCHANGED <<partLogs, script, part, last, first, procs, runBounds>>
  BY DEF Idle, Outdated, NoParts
<1>2. LogsOK /\ LoopOK /\ ProcsOK /\ BoundsOK
  BY LoopFacts
<1>3. LoopOK'
  BY <1>1, <1>2 DEF LoopOK
<1>4. LogsOK' /\ ProcsOK' /\ BoundsOK'
  BY <1>1, <1>2 DEF partLogs, procs, runBounds, LogsOK, ProcsOK, BoundsOK
<1>5. Control'
  BY <1>1 DEF RunSide, Control, procs
<1> QED
  BY <1>3, <1>4, <1>5, RunSideFromParts

LEMMA RunSideStill == RunSide /\ UNCHANGED runVars => RunSide'
BY DEF runVars, partLogs, loop, procs, runBounds, RunSide, RunTypeOK, Control
LEMMA RunStepKeeps ==
  ASSUME RunSide, FilesInv, RunStep(Files, tool = "pddikti") \/ Trouble
  PROVE  RunSide'
<1>1. CASE SkipPart(Files) \/ DetailFails(Files, tool = "pddikti")
  BY <1>1, SkipOrFailKeeps
<1>2. CASE RunPart(Files, tool = "pddikti")
  BY <1>2, RunPartKeeps
<1>3. CASE FinishScript \/ PartDone \/ OrphanDone
  BY <1>3, FinishScriptKeeps, PartDoneKeeps, OrphanDoneKeeps
<1>4. CASE CrawlStep
  <2>1. PICK c \in Crawlers : WriteRowOf(c) \/ AckRow(c) \/ GiveUp(c)
    BY <1>4 DEF CrawlStep
  <2> QED
    BY <2>1, WriteRowOfKeeps, AckRowKeeps, GiveUpKeeps
<1>5. CASE Interrupted \/ KillChild \/ KillAll \/ KillScript
  BY <1>5, InterruptedKeeps, KillChildKeeps, KillAllKeeps, KillScriptKeeps
<1> QED
  BY <1>1, <1>2, <1>3, <1>4, <1>5 DEF RunStep, Trouble

LEMMA RunSideStep ==
  ASSUME RunSide, FilesInv, [Next /\ Bounded']_vars
  PROVE  RunSide'
<1>1. CASE List \/ SplitList
  BY <1>1, OffKeeps DEF List, SplitList, Quiet
<1>2. CASE ListRuns \/ ListKilled \/ SplitRuns \/ UNCHANGED vars
  BY <1>2, RunSideStill DEF ListRuns, ListKilled, SplitRuns, vars
<1>3. CASE DetailWhole
  <2>1. 0 \in Names /\ 0 <= 0
    BY DEF Names
  <2> QED
    BY <1>3, <2>1, StartKeepsRun DEF DetailWhole
<1>4. CASE \E from, to \in 1..MaxParts : from <= to /\ RunParts(from, to)
  <2>1. PICK from \in 1..MaxParts, to \in 1..MaxParts : from <= to /\ RunParts(from, to)
    BY <1>4
  <2>2. from \in Names /\ to \in Names
    BY DEF Names
  <2>3. Idle /\ (NoParts \/ StartScript(from, to))
    BY <2>1 DEF RunParts, Quiet
  <2> QED
    BY <2>1, <2>2, <2>3, StartKeepsRun, OffKeeps
<1>5. CASE DetailRuns \/ Trouble
  BY <1>5, RunStepKeeps DEF DetailRuns
<1> QED
  BY <1>1, <1>2, <1>3, <1>4, <1>5 DEF Next

(* The whole pipeline is well-typed. *)
PipelineTyped == flow \in Flows /\ FilesInv /\ RunSide

LEMMA PipelineTypedInit == Init => PipelineTyped
<1> SUFFICES ASSUME Init
             PROVE  PipelineTyped
  OBVIOUS
<1>1. flow \in Flows /\ RunInit
  BY DEF Init
<1> QED
  BY <1>1, FilesInvInit, RunSideInit DEF PipelineTyped

LEMMA FlowStays == [Next /\ Bounded']_vars => flow' = flow
BY DEF Next, List, ListRuns, ListKilled, SplitList, SplitRuns, DetailWhole, RunParts,
       DetailRuns, Trouble, vars

LEMMA PipelineTypedStep == PipelineTyped /\ [Next /\ Bounded']_vars => PipelineTyped'
<1> SUFFICES ASSUME PipelineTyped, [Next /\ Bounded']_vars
             PROVE  PipelineTyped'
  OBVIOUS
<1>1. FilesInv' /\ RunSide' /\ flow' = flow
  BY FilesInvStep, RunSideStep, FlowStays DEF PipelineTyped
<1> QED
  BY <1>1 DEF PipelineTyped

(* Every variable of the pipeline keeps its type: the list, the files of    *)
(* the split, the script and both detail processes.                         *)
THEOREM PipelineTypeCorrect == Spec => []TypeOK
<1>1. PipelineTyped => TypeOK
  BY DEF PipelineTyped, FilesInv, ListSide, SplitSide, RunSide, TypeOK
<1> QED
  BY PipelineTypedInit, PipelineTypedStep, <1>1, PTL DEF Spec

-----------------------------------------------------------------------------
(* The chain of commands, up to the exit code of the script.                *)

(* Every row that was split is in a part. *)
LEMMA RowsInParts ==
  ASSUME SplitSide, ChunkInv, splitExit = "ok", chunkSize > 0, NEW x \in ToSet(Rows)
  PROVE  \E n \in 1..NumChunks : n \in DOMAIN parts /\ x \in ToSet(DataRows(parts[n]))
<1>1. SplitTypeOK /\ Len(splitOf) > 1 /\ Headless(splitOf) /\ InOrder(NumChunks)
  BY DEF SplitSide, Started, ChunkInv
<1>2. PICK m \in Nat, q \in Nat \ {0}, d \in Nat :
        m = Len(Rows) /\ q = chunkSize /\ d = NumChunks /\ m <= d * q
  <2>1. /\ chunkSize \in Nat \ {0} /\ Len(Rows) \in Nat /\ NumChunks \in 1..Len(Rows)
        /\ Len(Rows) <= NumChunks * chunkSize
    BY <1>1, ChunkCount, RowFacts
  <2>2. NumChunks \in Nat
    BY <2>1
  <2> QED
    BY <2>1, <2>2
<1>3. PICK i \in 1..m : x = Rows[i]
  BY <1>1, <1>2, RowFacts DEF ToSet
<1>4. PICK k \in Nat : k * q <= i - 1 /\ i - 1 < k * q + q
  <2> DEFINE k == (i - 1) \div q
  <2>1. i - 1 \in Nat
    BY <1>3
  <2>2. k \in Nat /\ k * q <= i - 1 /\ i - 1 < k * q + q
    BY <1>2, <2>1
  <2> QED
    BY <2>2
<1>5. PICK n \in Nat : n = k + 1 /\ n - 1 = k
  BY <1>4
<1>6. n * q = k * q + q /\ k * q \in Nat
  BY <1>5
<1>7. n \in 1..d
  <2>1. ASSUME k >= d
        PROVE  FALSE
    <3>1. PICK e \in Nat : k = d + e
      BY <2>1, <1>2, <1>4
    <3>2. k * q = d * q + e * q /\ e * q \in Nat /\ d * q \in Nat
      BY <3>1
    <3> QED
      BY <1>2, <1>3, <1>4, <3>2
  <2> QED
    BY <2>1, <1>2, <1>5
<1>8. PICK top \in Nat : top = Min({n * q, m}) /\ i <= top /\ top <= m
  <2>1. n * q \in Nat /\ i <= n * q
    BY <1>3, <1>4, <1>6
  <2> QED
    BY <1>2, <1>3, <2>1, MinOfTwo
<1>9. parts[n] = Chunk(n) /\ n \in DOMAIN parts
  BY <1>1, <1>2, <1>7 DEF InOrder
<1>10. DataRows(parts[n]) = SubSeq(Rows, k * q + 1, top)
  BY <1>1, <1>2, <1>5, <1>7, <1>8, <1>9, ChunkFacts
<1>11. /\ Len(SubSeq(Rows, k * q + 1, top)) = top - k * q
       /\ \A j \in 1..top - k * q : SubSeq(Rows, k * q + 1, top)[j] = Rows[k * q + j]
       /\ SubSeq(Rows, k * q + 1, top) \in Seq(AnyLine)
  <2>1. PICK o \in Nat : o = k * q /\ o <= top
    BY <1>3, <1>4, <1>6, <1>8
  <2>2. Rows \in Seq(AnyLine) /\ top \in 0..Len(Rows)
    BY <1>1, <1>2, <1>8, RowFacts
  <2>3. /\ SubSeq(Rows, o + 1, top) \in Seq(AnyLine)
        /\ Len(SubSeq(Rows, o + 1, top)) = IF o <= top THEN top - o ELSE 0
        /\ \A j \in 1..top - o : SubSeq(Rows, o + 1, top)[j] = Rows[o + j]
    BY <2>1, <2>2, Piece
  <2> QED
    BY <2>1, <2>3
<1>12. PICK j \in 1..top - k * q : k * q + j = i
  <2>1. i - k * q \in 1..top - k * q /\ k * q + (i - k * q) = i
    BY <1>3, <1>4, <1>6, <1>8
  <2> QED
    BY <2>1
<1>13. /\ j \in DOMAIN SubSeq(Rows, k * q + 1, top)
       /\ SubSeq(Rows, k * q + 1, top)[j] = x
  BY <1>3, <1>11, <1>12, LenProperties
<1>14. x \in ToSet(DataRows(parts[n]))
  BY <1>10, <1>13 DEF ToSet
<1> QED
  BY <1>2, <1>7, <1>9, <1>14
(* A list that reports success over a clean file is among its rows. *)
LEMMA ExpectedInRows ==
  ASSUME ListSide, listPhase = "down", listExit = "ok", Clean(out), NEW x \in ToSet(Expected)
  PROVE  x \in ToSet(DataRows(out))
<1>1. Intact /\ out # <<>> /\ Head(out) = Header
  BY DEF Clean, Intact
<1>2. /\ out \in Seq(Lines) /\ Expected \in Seq(Lines) /\ Len(items) \in Nat
      /\ Len(Expected) <= Len(items) /\ Len(Expected) <= Len(out) /\ Len(Expected) \in Nat
      /\ \A i \in 1..Len(Expected) : /\ Expected[i] = items[i]
                                     /\ out[Len(out) - Len(Expected) + i] = Expected[i]
  BY <1>1, ExactByIndex DEF ListSide
<1>3. PICK m \in Nat : m = Len(out) /\ m > 0 /\ Head(out) = out[1]
  BY <1>1, <1>2, LenProperties, EmptySeq, HeadTailProperties
<1>4. PICK i \in 1..Len(Expected) : x = Expected[i]
  BY <1>2, LenProperties DEF ToSet
<1>5. x \in Items
  <2>1. items \in Seq(ToSet(items)) /\ ToSet(items) \subseteq Items
    BY OutTyped DEF ListSide, ListTypeOK
  <2>2. i \in 1..Len(items)
    BY <1>2, <1>4
  <2>3. items[i] \in ToSet(items)
    BY <2>1, <2>2, ElementOfSeq
  <2> QED
    BY <1>2, <1>4, <2>1, <2>3
<1>6. PICK p \in 1..m : out[p] = x
  <2>1. m - Len(Expected) + i \in 1..m
    BY <1>2, <1>3, <1>4
  <2> QED
    BY <1>2, <1>3, <1>4, <2>1
<1>7. p # 1
  BY <1>1, <1>3, <1>5, <1>6
<1>8. PICK j \in Nat : p = j + 1 /\ j \in 1..m - 1
  <2>1. p - 1 \in Nat /\ p = (p - 1) + 1 /\ p - 1 \in 1..m - 1
    BY <1>3, <1>7
  <2> QED
    BY <2>1
<1>9. /\ DataRows(out) \in Seq(Lines) /\ Len(DataRows(out)) = m - 1
      /\ \A k \in 1..m - 1 : DataRows(out)[k] = out[k + 1]
  <2>1. /\ DataRows(out) \in Seq(Lines)
        /\ Len(DataRows(out)) = IF out = <<>> THEN 0 ELSE Len(out) - 1
        /\ \A k \in 1..Len(DataRows(out)) : DataRows(out)[k] = out[k + 1]
    BY <1>2, RowsOfFile
  <2> QED
    BY <1>1, <1>3, <2>1
<1>10. j \in DOMAIN DataRows(out)
  BY <1>8, <1>9, LenProperties
<1>11. DataRows(out)[j] = x
  BY <1>6, <1>8, <1>9
<1> QED
  BY <1>10, <1>11 DEF ToSet

(* The script and the list or split command do not run at the same time,    *)
(* and since a success neither was launched.                                *)
Chain ==
  /\ script = "loop" \/ scriptExit = "0" => listPhase = "down" /\ splitPhase = "down"
  /\ flow = "whole" => first = 0 /\ last = 0

(* How the script and the detail processes may move; Files is then still.   *)
RunMove ==
  \/ UNCHANGED runVars
  \/ Quiet /\ NoParts
  \/ /\ Quiet
     /\ \E from, to \in Names : /\ from <= to /\ (flow = "whole" => to = 0)
                                /\ StartScript(from, to)
  \/ RunStep(Files, tool = "pddikti")
  \/ Trouble

FilesMove == /\ script' = "off" /\ scriptExit' # "0"
             /\ UNCHANGED <<flow, partLogs, part, last, first, procs, runBounds>>

LEMMA WhoMoves ==
  ASSUME RunSide, Chain, [Next /\ Bounded']_vars
  PROVE  \/ UNCHANGED <<flow, listVars, splitVars>> /\ Files' = Files /\ RunMove
         \/ FilesMove
<1>1. script \in {"off", "loop"}
  BY DEF RunSide, RunTypeOK
<1>2. CASE List \/ SplitList
  BY <1>1, <1>2 DEF List, SplitList, Quiet, Idle, Outdated, FilesMove
<1>3. CASE ListRuns \/ ListKilled \/ SplitRuns
  <2>1. listPhase # "down" \/ splitPhase # "down"
    BY <1>3 DEF ListRuns, ListKilled, SplitRuns, ListStep, KillList, SplitStep, WriteHeader,
                FetchPage, ListFails, WriteRow, FlushPage, NextPage, FinishList,
                CreatePart, FlushPart, ChunksDone, PartLost, GroupRow, GroupRowsDone,
                FlushGroup, GroupsDone, CutShort
  <2>2. UNCHANGED <<flow, runVars>>
    BY <1>3 DEF ListRuns, ListKilled, SplitRuns
  <2> QED
    BY <1>1, <2>1, <2>2 DEF Chain, FilesMove, runVars, loop
<1>4. ASSUME UNCHANGED <<flow, listVars, splitVars>>, RunMove
      PROVE  UNCHANGED <<flow, listVars, splitVars>> /\ Files' = Files /\ RunMove
  BY <1>4 DEF Files, listVars, listFile, splitVars
<1>5. CASE DetailWhole
  <2>1. 0 \in Names /\ 0 <= 0
    BY DEF Names
  <2>2. RunMove /\ UNCHANGED <<flow, listVars, splitVars>>
    BY <1>5, <2>1 DEF DetailWhole, RunMove
  <2> QED
    BY <1>4, <2>2
<1>6. CASE \E from, to \in 1..MaxParts : from <= to /\ RunParts(from, to)
  <2>1. PICK from \in 1..MaxParts, to \in 1..MaxParts : from <= to /\ RunParts(from, to)
    BY <1>6
  <2>2. from \in Names /\ to \in Names
    BY DEF Names
  <2>3. RunMove /\ UNCHANGED <<flow, listVars, splitVars>>
    BY <2>1, <2>2 DEF RunParts, RunMove
  <2> QED
    BY <1>4, <2>3
<1>7. CASE DetailRuns \/ Trouble
  BY <1>4, <1>7 DEF DetailRuns, Trouble, RunMove
<1>8. CASE UNCHANGED vars
  BY <1>4, <1>8 DEF vars, RunMove
<1> QED
  BY <1>2, <1>3, <1>5, <1>6, <1>7, <1>8 DEF Next

(* What a move does to the loop. *)
LoopMove ==
  \/ UNCHANGED loop
  \/ /\ Quiet /\ script' = "off" /\ scriptExit' # "0"
     /\ UNCHANGED <<part, last, first>>
  \/ /\ Quiet /\ script' = "loop" /\ scriptExit' = "none"
     /\ first' \in Names /\ part' = first' /\ (flow = "whole" => first' = 0 /\ last' = 0)
  \/ script = "loop" /\ SkipPart(Files)
  \/ script = "loop" /\ \E r \in {"OK", "INTERRUPTED"} :
       GoesOn(r) /\ (r = "OK" => alive["child"] /\ todo["child"] = <<>> /\ due["child"] = NoId)
  \/ script = "loop" /\ FinishScript
  \/ Ends("killed")

LEMMA LoopMoves == RunSide /\ RunMove => LoopMove
<1> SUFFICES ASSUME RunSide, RunMove
             PROVE  LoopMove
  OBVIOUS
<1>1. CASE UNCHANGED runVars
  BY <1>1 DEF runVars, loop, LoopMove
<1>2. CASE Quiet /\ NoParts
  BY <1>2 DEF Quiet, Idle, NoParts, LoopMove
<1>3. CASE Quiet /\ \E from, to \in Names : /\ from <= to /\ (flow = "whole" => to = 0)
                                            /\ StartScript(from, to)
  <2>1. PICK from \in Names, to \in Names : /\ from <= to /\ (flow = "whole" => to = 0)
                                            /\ StartScript(from, to)
    BY <1>3
  <2>2. flow = "whole" => from = 0 /\ to = 0
    BY <2>1 DEF Names
  <2> QED
    BY <1>3, <2>1, <2>2 DEF StartScript, LoopMove
<1>4. CASE RunStep(Files, tool = "pddikti")
  <2>1. CASE SkipPart(Files)
    BY <2>1 DEF SkipPart, InLoop, LoopMove
  <2>2. CASE DetailFails(Files, tool = "pddikti")
    BY <2>2 DEF DetailFails, InLoop, LoopMove
  <2>3. CASE PartDone
    <3>1. alive["child"] /\ todo["child"] = <<>> /\ due["child"] = NoId /\ GoesOn("OK")
      BY <2>3 DEF PartDone
    <3>2. script = "loop"
      BY <3>1 DEF RunSide, Control
    <3> QED
      BY <3>1, <3>2 DEF LoopMove
  <2>4. CASE FinishScript
    BY <2>4 DEF FinishScript, LoopMove
  <2>5. CASE RunPart(Files, tool = "pddikti") \/ OrphanDone \/ CrawlStep
    BY <2>5 DEF RunPart, OrphanDone, CrawlStep, WriteRowOf, AckRow, GiveUp, LoopMove
  <2> QED
    BY <1>4, <2>1, <2>2, <2>3, <2>4, <2>5 DEF RunStep
<1>5. CASE Trouble
  <2>1. CASE Interrupted \/ KillChild
    <3>1. alive["child"] /\ GoesOn("INTERRUPTED")
      BY <2>1 DEF Interrupted, Cancelled, KillChild
    <3>2. script = "loop"
      BY <3>1 DEF RunSide, Control
    <3> QED
      BY <3>1, <3>2 DEF LoopMove
  <2>2. CASE KillAll \/ KillScript
    BY <2>2 DEF KillAll, KillScript, LoopMove
  <2> QED
    BY <1>5, <2>1, <2>2 DEF Trouble
<1> QED
  BY <1>1, <1>2, <1>3, <1>4, <1>5 DEF RunMove

LEMMA ChainInit == Init => Chain
BY DEF Init, ListInit, SplitInit, RunInit, Chain

LEMMA ChainStep == RunSide /\ Chain /\ [Next /\ Bounded']_vars => Chain'
<1> SUFFICES ASSUME RunSide, Chain, [Next /\ Bounded']_vars
             PROVE  Chain'
  OBVIOUS
<1>1. CASE FilesMove
  BY <1>1 DEF FilesMove, Chain
<1>2. CASE UNCHANGED <<flow, listVars, splitVars>> /\ RunMove
  <2>1. UNCHANGED <<flow, listPhase, splitPhase>>
    BY <1>2 DEF listVars, splitVars
  <2>2. LoopMove
    BY <1>2, LoopMoves
  <2> QED
    BY <2>1, <2>2 DEF LoopMove, Chain, loop, Quiet, SkipPart, GoesOn, FinishScript, Ends
<1> QED
  BY <1>1, <1>2, WhoMoves
(* What the script knows of the parts behind it, what its detail process    *)
(* has still in its hands, and what a success has left.                     *)
Settled(n) == ToSet(DataRows(Files[n])) \subseteq acks[n] \cup errs[n]

Behind(n) == /\ results[n] \in {"OK", "SKIPPED", "INTERRUPTED"}
             /\ results[n] = "OK" => Settled(n)
             /\ results[n] = "SKIPPED" => n \notin DOMAIN Files

InHands == /\ part \in DOMAIN Files /\ Readable(Files[part])
           /\ ToSet(DataRows(Files[part])) \subseteq
                acks[part] \cup errs[part] \cup ToSet(todo["child"]) \cup {due["child"]}

LoopInv == /\ script = "loop" => \A n \in Names : first <= n /\ n < part => Behind(n)
           /\ alive["child"] => InHands
           /\ scriptExit = "0" =>
                \A n \in DOMAIN Files \cap Names : first <= n /\ n <= last => Settled(n)

(* Checkpoints and error logs only grow. *)
LogsGrow == \A n \in Names : acks[n] \subseteq acks'[n] /\ errs[n] \subseteq errs'[n]

LEMMA LogsOnlyGrow == RunSide /\ RunMove => LogsGrow
<1> SUFFICES ASSUME RunSide, RunMove
             PROVE  LogsGrow
  OBVIOUS
<1>1. LogsOK /\ ProcsOK
  BY LoopFacts
<1>2. ASSUME UNCHANGED <<acks, errs>>
      PROVE  LogsGrow
  BY <1>2 DEF LogsGrow
<1>3. ASSUME NEW m \in Names, NEW S, errs' = [errs EXCEPT ![m] = @ \cup S] \/ errs' = errs,
             acks' = [acks EXCEPT ![m] = @ \cup S] \/ acks' = acks
      PROVE  LogsGrow
  BY <1>1, <1>3 DEF LogsGrow, LogsOK
<1>4. CASE CrawlStep
  <2>1. PICK c \in Crawlers : WriteRowOf(c) \/ AckRow(c) \/ GiveUp(c)
    BY <1>4 DEF CrawlStep
  <2>2. at[c] \in Names
    BY <1>1 DEF ProcsOK
  <2>3. CASE WriteRowOf(c)
    BY <1>2, <2>3 DEF WriteRowOf
  <2>4. CASE AckRow(c)
    BY <1>3, <2>2, <2>4 DEF AckRow
  <2>5. CASE GiveUp(c)
    <3>1. PICK i \in DOMAIN todo[c] : errs' = [errs EXCEPT ![at[c]] = @ \cup {todo[c][i]}]
      BY <2>5 DEF GiveUp
    <3>2. acks' = acks
      BY <2>5 DEF GiveUp
    <3> QED
      BY <1>3, <2>2, <3>1, <3>2
  <2> QED
    BY <2>1, <2>3, <2>4, <2>5
<1>5. CASE Interrupted
  <2>1. PICK ids \in SUBSET ToSet(todo["child"]) : errs' = [errs EXCEPT ![at["child"]] = @ \cup ids]
    BY <1>5 DEF Interrupted, Cancelled
  <2>2. acks' = acks /\ at["child"] \in Names
    BY <1>1, <1>5 DEF Interrupted, Cancelled, ProcsOK, Crawlers
  <2> QED
    BY <1>3, <2>1, <2>2
<1>6. CASE KillChild \/ KillAll \/ KillScript
  BY <1>2, <1>6 DEF KillChild, KillAll, KillScript, partLogs
<1>7. CASE UNCHANGED runVars \/ (Quiet /\ NoParts)
  BY <1>2, <1>7 DEF NoParts, runVars, partLogs
<1>8. CASE Quiet /\ \E from, to \in Names : /\ from <= to /\ (flow = "whole" => to = 0)
                                            /\ StartScript(from, to)
  BY <1>2, <1>8 DEF StartScript, partLogs
<1>9. CASE \/ SkipPart(Files) \/ DetailFails(Files, tool = "pddikti")
           \/ RunPart(Files, tool = "pddikti") \/ FinishScript \/ PartDone \/ OrphanDone
  BY <1>2, <1>9 DEF SkipPart, DetailFails, RunPart, FinishScript, PartDone, OrphanDone, partLogs
<1> QED
  BY <1>4, <1>5, <1>6, <1>7, <1>8, <1>9 DEF RunMove, RunStep, Trouble

LEMMA StaysSettled ==
  ASSUME Files' = Files, LogsGrow, NEW n \in Names, Settled(n)
  PROVE  Settled(n)'
BY DEF Settled, LogsGrow

(* The detail process with an empty hand has settled its part. *)
LEMMA DoneIsSettled ==
  ASSUME PipelineTyped, LoopInv, alive["child"], todo["child"] = <<>>, due["child"] = NoId
  PROVE  Settled(part)
<1>1. InHands
  BY DEF LoopInv
<1>2. ToSet(DataRows(Files[part])) \subseteq Ids
  BY <1>1, FileFed DEF InHands, PipelineTyped
<1>3. ToSet(todo["child"]) = {}
  BY DEF ToSet
<1> QED
  BY <1>1, <1>2, <1>3 DEF InHands, Settled

(* The parts behind the script. *)
LEMMA BehindStep ==
  ASSUME PipelineTyped, LoopInv, LoopMove, Files' = Files, LogsGrow, script' = "loop",
         NEW n \in Names, first' <= n, n < part'
  PROVE  Behind(n)'
<1>1. /\ RunSide /\ LoopOK /\ part \in Nat /\ n \in Nat /\ first \in Nat
      /\ script = "loop" => first <= part
  BY LoopFacts DEF PipelineTyped, RunSide, Control, Names
<1>2. CASE UNCHANGED loop
  <2>1. script = "loop" /\ first <= n /\ n < part /\ results' = results
    BY <1>2 DEF loop
  <2>2. Behind(n)
    BY <2>1 DEF LoopInv
  <2>3. Settled(n) => Settled(n)'
    BY StaysSettled
  <2> QED
    BY <2>1, <2>2, <2>3 DEF Behind
<1>3. CASE first' \in Names /\ part' = first'
  <2>1. first' \in Nat /\ n < first'
    BY <1>3 DEF Names
  <2> QED
    BY <1>1, <2>1
<1>4. CASE script = "loop" /\ \E r \in {"OK", "SKIPPED", "INTERRUPTED"} :
             /\ GoesOn(r)
             /\ (r = "OK" => Settled(part))
             /\ (r = "SKIPPED" => part \notin DOMAIN Files)
  <2>1. PICK r \in {"OK", "SKIPPED", "INTERRUPTED"} :
          GoesOn(r) /\ (r = "OK" => Settled(part)) /\ (r = "SKIPPED" => part \notin DOMAIN Files)
    BY <1>4
  <2>2. /\ results' = [results EXCEPT ![part] = r] /\ part' = part + 1 /\ first' = first
        /\ results \in [Names -> {"none", "OK", "SKIPPED", "INTERRUPTED"}]
    BY <1>1, <2>1 DEF GoesOn, LoopOK
  <2>3. CASE n = part
    <3>1. results'[n] = r
      BY <2>2, <2>3
    <3> QED
      BY <2>1, <2>3, <3>1, StaysSettled DEF Behind
  <2>4. CASE n # part
    <3>1. Behind(n) /\ results'[n] = results[n]
      BY <1>1, <1>4, <2>2, <2>4 DEF LoopInv
    <3> QED
      BY <3>1, StaysSettled DEF Behind
  <2> QED
    BY <2>3, <2>4
<1>5. CASE script = "loop" /\ SkipPart(Files)
  BY <1>4, <1>5 DEF SkipPart
<1>6. CASE script = "loop" /\ \E r \in {"OK", "INTERRUPTED"} :
             GoesOn(r) /\ (r = "OK" => alive["child"] /\ todo["child"] = <<>> /\ due["child"] = NoId)
  BY <1>4, <1>6, DoneIsSettled
<1> QED
  BY <1>2, <1>3, <1>5, <1>6 DEF LoopMove, FinishScript, Ends

(* What a success of the script has left. *)
LEMMA AfterStep ==
  ASSUME PipelineTyped, LoopInv, LoopMove, Files' = Files, LogsGrow, scriptExit' = "0",
         NEW n \in DOMAIN Files \cap Names, first' <= n, n <= last'
  PROVE  Settled(n)'
<1>1. /\ RunSide /\ part \in Nat /\ n \in Nat /\ first \in Nat /\ last \in Nat
      /\ script = "loop" => scriptExit = "none"
  BY LoopFacts DEF PipelineTyped, RunSide, Control, Names
<1>2. CASE UNCHANGED loop
  <2>1. Settled(n)
    BY <1>2 DEF loop, LoopInv
  <2> QED
    BY <2>1, StaysSettled
<1>3. CASE script = "loop" /\ FinishScript
  <2>1. /\ script = "loop" /\ part > last /\ scriptExit' = SummaryCode
        /\ UNCHANGED <<first, last>>
    BY <1>3 DEF FinishScript, Ends
  <2>2. results[n] # "INTERRUPTED"
    BY <2>1 DEF SummaryCode
  <2>3. Behind(n)
    BY <1>1, <2>1 DEF LoopInv
  <2>4. Settled(n)
    BY <2>2, <2>3 DEF Behind
  <2> QED
    BY <2>4, StaysSettled
<1>4. CASE script = "loop" /\ (UNCHANGED scriptExit)
  BY <1>1, <1>4
<1> QED
  BY <1>2, <1>3, <1>4 DEF LoopMove, SkipPart, GoesOn, Ends
(* What the detail process of the script has in its hands. *)
LEMMA SameHands ==
  ASSUME PipelineTyped, LoopInv, Files' = Files, LogsGrow, alive["child"],
         part' = part, todo'["child"] = todo["child"], due'["child"] = due["child"]
  PROVE  InHands'
<1>1. InHands /\ part \in Names
  BY LoopFacts DEF LoopInv, PipelineTyped
<1> QED
  BY <1>1 DEF InHands, LogsGrow

LEMMA HandsCrawl ==
  ASSUME PipelineTyped, LoopInv, Files' = Files, LogsGrow, alive["child"],
         NEW c \in Crawlers, WriteRowOf(c) \/ AckRow(c) \/ GiveUp(c)
  PROVE  InHands'
<1>1. RunSide /\ ProcsOK /\ LogsOK
  BY LoopFacts DEF PipelineTyped
<1>2. InHands /\ part \in Names /\ at["child"] = part /\ part' = part
  BY <1>1, LoopFacts DEF LoopInv, RunSide, Control, WriteRowOf, AckRow, GiveUp, loop
<1>3. "child" \in Crawlers
  BY DEF Crawlers
<1>4. ToSet(DataRows(Files[part])) \subseteq Ids
  BY <1>2, FileFed DEF InHands, PipelineTyped
<1>5. CASE c # "child"
  <2>1. todo'["child"] = todo["child"] /\ due'["child"] = due["child"]
    <3>1. todo' = todo \/ \E i \in DOMAIN todo[c] : Without(c, i)
      BY DEF WriteRowOf, AckRow, GiveUp
    <3>2. due' = due \/ \E v : due' = [due EXCEPT ![c] = v]
      BY DEF WriteRowOf, AckRow, GiveUp
    <3>3. todo'["child"] = todo["child"]
      BY <1>1, <1>3, <1>5, <3>1 DEF Without, ProcsOK
    <3>4. due'["child"] = due["child"]
      BY <1>1, <1>3, <1>5, <3>2 DEF ProcsOK
    <3> QED
      BY <3>3, <3>4
  <2> QED
    BY <1>2, <2>1, SameHands
<1>6. CASE c = "child" /\ WriteRowOf(c)
  <2>1. PICK i \in DOMAIN todo[c] : due' = [due EXCEPT ![c] = todo[c][i]] /\ Without(c, i)
    BY <1>6 DEF WriteRowOf
  <2>2. due[c] = NoId /\ due'[c] = todo[c][i]
    BY <1>1, <1>6, <2>1 DEF WriteRowOf, ProcsOK
  <2>3. todo[c] \in Seq(Ids) /\ i \in 1..Len(todo[c]) /\ todo'[c] = RemoveAt(todo[c], i)
    BY <1>1, <2>1, OneLess
  <2>4. ToSet(todo[c]) \subseteq {todo[c][i]} \cup ToSet(todo'[c])
    BY <2>3, RemoveAtKeeps
  <2> QED
    BY <1>2, <1>4, <1>6, <2>2, <2>4 DEF InHands, LogsGrow
<1>7. CASE c = "child" /\ AckRow(c)
  <2>1. /\ acks' = [acks EXCEPT ![at[c]] = @ \cup {due[c]}] /\ todo' = todo
    BY <1>7 DEF AckRow
  <2>2. due[c] \in acks'[part]
    BY <1>1, <1>2, <1>7, <2>1 DEF LogsOK
  <2> QED
    BY <1>2, <1>7, <2>1, <2>2 DEF InHands, LogsGrow
<1>8. CASE c = "child" /\ GiveUp(c)
  <2>1. PICK i \in DOMAIN todo[c] :
          errs' = [errs EXCEPT ![at[c]] = @ \cup {todo[c][i]}] /\ Without(c, i)
    BY <1>8 DEF GiveUp
  <2>2. due' = due
    BY <1>8 DEF GiveUp
  <2>3. todo[c] \in Seq(Ids) /\ i \in 1..Len(todo[c]) /\ todo'[c] = RemoveAt(todo[c], i)
    BY <1>1, <2>1, OneLess
  <2>4. ToSet(todo[c]) \subseteq {todo[c][i]} \cup ToSet(todo'[c])
    BY <2>3, RemoveAtKeeps
  <2>5. todo[c][i] \in errs'[part]
    BY <1>1, <1>2, <1>8, <2>1 DEF LogsOK
  <2> QED
    BY <1>2, <1>8, <2>2, <2>4, <2>5 DEF InHands, LogsGrow
<1> QED
  BY <1>5, <1>6, <1>7, <1>8

LEMMA HandsRunPart ==
  ASSUME PipelineTyped, Files' = Files, LogsGrow, RunPart(Files, tool = "pddikti")
  PROVE  InHands'
<1>1. /\ part \in DOMAIN Files /\ Readable(Files[part]) /\ part' = part /\ part <= last
      /\ todo' = [todo EXCEPT !["child"] = Pending(Files[part], part)]
  BY DEF RunPart, InLoop, Reads, loop
<1>2. ProcsOK /\ part \in Names
  BY <1>1, LoopFacts DEF PipelineTyped
<1> DEFINE ids == DataRows(Files[part])
           S   == ToSet(ids) \ acks[part]
<1>3. todo'["child"] = Select(ids, S)
  BY <1>1, <1>2 DEF Pending, ProcsOK, Crawlers
<1>4. ids \in Seq(Ids)
  BY <1>1, FileFed DEF PipelineTyped
<1>5. ToSet(todo'["child"]) = ToSet(ids) \cap S
  <2> HIDE DEF ids, S
  <2>1. ToSet(Select(ids, S)) = ToSet(ids) \cap S
    BY <1>4, SelectProperties
  <2> QED
    BY <1>3, <2>1
<1>6. ToSet(ids) \subseteq acks[part] \cup ToSet(todo'["child"])
  BY <1>5
<1> QED
  BY <1>1, <1>2, <1>6 DEF InHands, LogsGrow

LEMMA ChildStep ==
  ASSUME PipelineTyped, LoopInv, RunMove, Files' = Files, LogsGrow, alive'["child"]
  PROVE  InHands'
<1>1. /\ RunSide /\ ProcsOK /\ "child" \in Crawlers
      /\ alive["child"] => script = "loop" /\ part <= last
  BY LoopFacts DEF PipelineTyped, Crawlers
<1>2. CASE UNCHANGED runVars
  <2>1. /\ alive["child"] /\ part' = part
        /\ todo'["child"] = todo["child"] /\ due'["child"] = due["child"]
    BY <1>2 DEF runVars, procs, loop
  <2> QED
    BY <2>1, SameHands
<1>3. ASSUME ~alive["child"], UNCHANGED procs
      PROVE  FALSE
  BY <1>3 DEF procs
<1>4. CASE Quiet /\ (NoParts \/ \E from, to \in Names : /\ from <= to /\ (flow = "whole" => to = 0)
                                                       /\ StartScript(from, to))
  BY <1>1, <1>3, <1>4 DEF Quiet, Idle, NoParts, StartScript
<1>5. CASE SkipPart(Files) \/ DetailFails(Files, tool = "pddikti") \/ FinishScript
  BY <1>3, <1>5 DEF SkipPart, DetailFails, FinishScript, InLoop
<1>6. CASE RunPart(Files, tool = "pddikti")
  BY <1>6, HandsRunPart
<1>7. CASE PartDone \/ Interrupted \/ KillChild
  <2>1. Gone("child")
    BY <1>7 DEF PartDone, Interrupted, Cancelled, KillChild
  <2> QED
    BY <1>1, <2>1, GoneKeeps
<1>8. CASE KillScript
  <2>1. alive' = [alive EXCEPT !["child"] = FALSE, !["orphan"] = alive["child"]]
    BY <1>8 DEF KillScript
  <2> QED
    BY <1>1, <2>1 DEF ProcsOK, Crawlers
<1>9. CASE KillAll
  BY <1>1, <1>9 DEF KillAll
<1>10. CASE OrphanDone
  <2>1. Gone("orphan") /\ UNCHANGED loop /\ "orphan" \in Crawlers /\ "child" # "orphan"
    BY <1>10 DEF OrphanDone, Crawlers
  <2>2. /\ alive'["child"] = alive["child"] /\ todo'["child"] = todo["child"]
        /\ due'["child"] = due["child"] /\ part' = part
    BY <1>1, <2>1, GoneKeeps DEF loop
  <2> QED
    BY <2>2, SameHands
<1>11. CASE CrawlStep
  <2>1. PICK c \in Crawlers : WriteRowOf(c) \/ AckRow(c) \/ GiveUp(c)
    BY <1>11 DEF CrawlStep
  <2>2. alive["child"]
    BY <2>1 DEF WriteRowOf, AckRow, GiveUp
  <2> QED
    BY <2>1, <2>2, HandsCrawl
<1> QED
  BY <1>2, <1>4, <1>5, <1>6, <1>7, <1>8, <1>9, <1>10, <1>11 DEF RunMove, RunStep, Trouble
ExitInv == PipelineTyped /\ Chain /\ LoopInv

LEMMA ExitInvInit == Init => ExitInv
<1> SUFFICES ASSUME Init
             PROVE  ExitInv
  OBVIOUS
<1>1. RunInit
  BY DEF Init
<1>2. LoopInv
  BY <1>1 DEF RunInit, LoopInv, Crawlers
<1> QED
  BY <1>2, PipelineTypedInit, ChainInit DEF ExitInv

LEMMA ExitInvStep == ExitInv /\ [Next /\ Bounded']_vars => ExitInv'
<1> SUFFICES ASSUME ExitInv, [Next /\ Bounded']_vars
             PROVE  ExitInv'
  OBVIOUS
<1>1. PipelineTyped /\ Chain /\ LoopInv /\ RunSide
  BY DEF ExitInv, PipelineTyped
<1>2. PipelineTyped' /\ Chain'
  BY <1>1, PipelineTypedStep, ChainStep
<1>3. CASE FilesMove
  <2>1. alive'["child"] => script' = "loop"
    BY <1>2 DEF PipelineTyped, RunSide, Control
  <2> QED
    BY <1>2, <1>3, <2>1 DEF ExitInv, LoopInv, FilesMove
<1>4. CASE Files' = Files /\ RunMove
  <2>1. LoopMove /\ LogsGrow
    BY <1>1, <1>4, LoopMoves, LogsOnlyGrow
  <2>2. script' = "loop" => \A n \in Names : first' <= n /\ n < part' => Behind(n)'
    BY <1>1, <1>4, <2>1, BehindStep
  <2>3. alive'["child"] => InHands'
    BY <1>1, <1>4, <2>1, ChildStep
  <2>4. scriptExit' = "0" =>
          \A n \in DOMAIN Files \cap Names : first' <= n /\ n <= last' => Settled(n)'
    BY <1>1, <1>4, <2>1, AfterStep
  <2>5. LoopInv'
    BY <1>4, <2>2, <2>3, <2>4 DEF LoopInv
  <2> QED
    BY <1>2, <2>5 DEF ExitInv
<1> QED
  BY <1>1, <1>3, <1>4, WhoMoves

LEMMA ExitZeroIsRight == ExitInv => ExitZeroSettlesList
<1> SUFFICES ASSUME ExitInv, scriptExit = "0", FedWithList, NEW x \in ToSet(Expected)
             PROVE  \E n \in Names : x \in acks[n] \cup errs[n]
  BY DEF ExitZeroSettlesList
<1>1. /\ Chain /\ LoopInv /\ RunSide /\ ListSide /\ SplitSide /\ ChunkInv
      /\ \A n \in DOMAIN Files \cap Names : first <= n /\ n <= last => Settled(n)
  BY DEF ExitInv, PipelineTyped, FilesInv, LoopInv
<1>2. x \in ToSet(DataRows(out))
  BY <1>1, ExpectedInRows DEF FedWithList, Chain
<1>3. CASE flow = "whole"
  <2>1. created
    BY <1>1 DEF FedWithList, Clean, ListSide, OutFile
  <2>2. Files[0] = out /\ 0 \in DOMAIN Files
    BY <1>3, <2>1 DEF Files
  <2>3. 0 \in Names /\ first = 0 /\ last = 0
    BY <1>1, <1>3 DEF Chain, Names
  <2>4. Settled(0)
    BY <1>1, <2>2, <2>3
  <2> QED
    BY <1>2, <2>2, <2>3, <2>4 DEF Settled
<1>4. CASE flow # "whole"
  <2>1. splitExit = "ok" /\ splitOf = out /\ chunkSize > 0 /\ first = 1 /\ last >= NumChunks
    BY <1>4 DEF FedWithList
  <2>2. x \in ToSet(Rows)
    BY <1>2, <2>1 DEF Rows
  <2>3. PICK n \in 1..NumChunks : n \in DOMAIN parts /\ x \in ToSet(DataRows(parts[n]))
    BY <1>1, <2>1, <2>2, RowsInParts
  <2>4. SplitTypeOK /\ Len(splitOf) > 1
    BY <1>1, <2>1 DEF SplitSide, Started
  <2>5. NumChunks \in Nat
    <3>1. NumChunks \in 1..Len(Rows) /\ Len(Rows) \in Nat
      BY <2>1, <2>4, ChunkCount, RowFacts
    <3> QED
      BY <3>1
  <2>6. last \in 0..MaxParts
    BY <1>1, LoopFacts
  <2>7. n \in Names /\ first <= n /\ n <= last
    BY <2>1, <2>5, <2>6 DEF Names
  <2>8. Files = parts
    BY <1>4 DEF Files
  <2>9. Settled(n)
    BY <1>1, <2>3, <2>7, <2>8
  <2> QED
    BY <2>3, <2>7, <2>8, <2>9 DEF Settled
<1> QED
  BY <1>3, <1>4

(* run_parts.sh:63-102 over split.go and list.go: exit code 0 down the      *)
(* whole chain means that every item that was to be listed is in the        *)
(* checkpoint or in the error log of a part.                                *)
THEOREM ExitZeroIsHonest == Spec => []ExitZeroSettlesList
BY ExitInvInit, ExitInvStep, ExitZeroIsRight, PTL DEF Spec

-----------------------------------------------------------------------------
(* No item twice: in the file of a list, or in the parts of one split.      *)

(* No item is in two places of the rows of these files. *)
Apart(files) ==
  \A m, n \in DOMAIN files :
    \A i \in DOMAIN DataRows(files[m]), j \in DOMAIN DataRows(files[n]) :
      DataRows(files[m])[i] = DataRows(files[n])[j] /\ DataRows(files[m])[i] \in Items
        => m = n /\ i = j

LEMMA RowsOnce ==
  ASSUME NEW file \in Seq(AnyLine), ItemsOnce(file)
  PROVE  DistinctOn(DataRows(file), Items)
<1>1. /\ DataRows(file) \in Seq(AnyLine) /\ Len(DataRows(file)) \in Nat
      /\ \A i \in 1..Len(DataRows(file)) : i + 1 \in 1..Len(file) /\ DataRows(file)[i] = file[i + 1]
  BY RowsOfFile
<1>2. DOMAIN DataRows(file) = 1..Len(DataRows(file)) /\ DOMAIN file = 1..Len(file)
  BY <1>1, LenProperties
<1>3. SUFFICES ASSUME NEW i \in 1..Len(DataRows(file)), NEW j \in 1..Len(DataRows(file)),
                      file[i + 1] = file[j + 1], file[i + 1] \in Items
               PROVE  i = j
  BY <1>1, <1>2 DEF DistinctOn
<1>4. i + 1 = j + 1
  BY <1>1, <1>2, <1>3 DEF ItemsOnce
<1> QED
  BY <1>1, <1>4

(* A row has one place: part and number in the part tell it.                *)
LEMMA OnePlace ==
  ASSUME NEW q \in Nat \ {0}, NEW a \in Nat, NEW b \in Nat, NEW i \in 1..q, NEW j \in 1..q,
         a * q + i = b * q + j
  PROVE  ~(a < b)
<1>1. SUFFICES ASSUME a < b
               PROVE  FALSE
  OBVIOUS
<1>2. PICK e \in Nat : b = a + 1 + e
  BY <1>1
<1>3. b * q = a * q + q + e * q /\ e * q \in Nat /\ a * q \in Nat
  BY <1>2
<1> QED
  BY <1>3

(* Files that hold the pieces of a list, each in its place, are apart.      *)
InPlaces(files, R, q) ==
  \A n \in DOMAIN files : \A i \in DOMAIN DataRows(files[n]) :
    DataRows(files[n])[i] \in Items =>
      /\ i \in 1..q /\ (n - 1) * q + i \in DOMAIN R
      /\ DataRows(files[n])[i] = R[(n - 1) * q + i]

LEMMA PlacesApart ==
  ASSUME NEW files, DOMAIN files \subseteq Nat \ {0}, NEW R, NEW q \in Nat \ {0},
         DistinctOn(R, Items), InPlaces(files, R, q)
  PROVE  Apart(files)
<1>1. SUFFICES ASSUME NEW m \in DOMAIN files, NEW n \in DOMAIN files,
                      NEW i \in DOMAIN DataRows(files[m]), NEW j \in DOMAIN DataRows(files[n]),
                      DataRows(files[m])[i] = DataRows(files[n])[j],
                      DataRows(files[m])[i] \in Items
               PROVE  m = n /\ i = j
  BY DEF Apart
<1>2. /\ i \in 1..q /\ (m - 1) * q + i \in DOMAIN R
      /\ DataRows(files[m])[i] = R[(m - 1) * q + i]
      /\ j \in 1..q /\ (n - 1) * q + j \in DOMAIN R
      /\ DataRows(files[n])[j] = R[(n - 1) * q + j]
  BY <1>1 DEF InPlaces
<1>3. (m - 1) * q + i = (n - 1) * q + j
  BY <1>1, <1>2 DEF DistinctOn
<1>4. m \in Nat \ {0} /\ n \in Nat \ {0}
  OBVIOUS
<1>5. PICK a \in Nat : a = m - 1
  BY <1>4
<1>6. PICK b \in Nat : b = n - 1
  BY <1>4
<1>7. a * q + i = b * q + j
  BY <1>3, <1>5, <1>6
<1>8. ~(a < b) /\ ~(b < a)
  BY <1>2, <1>7, OnePlace, Zenon
<1>9. a = b
  BY <1>8
<1>10. a * q \in Nat
  OBVIOUS
<1>11. i = j
  BY <1>2, <1>7, <1>9, <1>10
<1> QED
  BY <1>4, <1>5, <1>6, <1>9, <1>11

SplitCalm ==
  /\ splitPhase = "fill" => parts[done + 1] = <<>>
  /\ splits <= 1 /\ ItemsOnce(out) => ItemsOnce(splitOf) /\ Apart(parts)

(* The part that is being written gets the rows of its place. *)
LEMMA FilledApart ==
  ASSUME SplitSide, ChunkInv, splitPhase = "fill", splits <= 1, ItemsOnce(splitOf),
         NEW lines, parts' = [parts EXCEPT ![done + 1] = lines],
         \A i \in DOMAIN DataRows(lines) : DataRows(lines)[i] \in Items =>
           /\ i \in DOMAIN DataRows(Chunk(done + 1))
           /\ DataRows(lines)[i] = DataRows(Chunk(done + 1))[i]
  PROVE  Apart(parts')
<1>1. /\ SplitTypeOK /\ Len(splitOf) > 1 /\ Headless(splitOf) /\ chunkSize > 0
      /\ done < NumChunks /\ InOrder(done) /\ splits > 0
  BY DEF SplitSide, Started, ChunkInv
<1>2. PICK q \in Nat \ {0}, d \in Nat, k \in Nat, m \in Nat :
        q = chunkSize /\ d = done /\ k = NumChunks /\ d < k /\ m = Len(Rows)
  <2>1. chunkSize \in Nat \ {0} /\ NumChunks \in 1..Len(Rows) /\ Len(Rows) \in Nat
    BY <1>1, ChunkCount, RowFacts
  <2>2. done \in Nat
    BY <1>1, RowFacts DEF SplitTypeOK
  <2>3. NumChunks \in Nat
    BY <2>1
  <2> QED
    BY <1>1, <2>1, <2>2, <2>3
<1>3. DOMAIN parts = 1..d + 1
  <2>1. splits = 1
    BY <1>1 DEF SplitTypeOK
  <2> QED
    BY <1>2, <2>1 DEF ChunkInv
<1>4. /\ DOMAIN parts' = 1..d + 1 /\ parts'[d + 1] = lines
      /\ \A n \in 1..d : parts'[n] = Chunk(n)
  BY <1>1, <1>2, <1>3 DEF InOrder
<1>5. DistinctOn(Rows, Items) /\ DOMAIN Rows = 1..m
  BY <1>1, <1>2, RowsOnce, RowFacts DEF Rows
<1>6. ASSUME NEW n \in 1..k, NEW i \in DOMAIN DataRows(Chunk(n))
      PROVE  /\ i \in 1..q /\ (n - 1) * q + i \in DOMAIN Rows
             /\ DataRows(Chunk(n))[i] = Rows[(n - 1) * q + i]
  <2>1. /\ Chunk(n) \in Seq(AnyLine) /\ Len(DataRows(Chunk(n))) \in 1..q
        /\ \A j \in 1..Len(DataRows(Chunk(n))) :
             (n - 1) * q + j \in 1..m /\ DataRows(Chunk(n))[j] = Rows[(n - 1) * q + j]
    BY <1>1, <1>2, ChunkFacts
  <2>2. DOMAIN DataRows(Chunk(n)) = 1..Len(DataRows(Chunk(n)))
    BY <2>1, RowsOfFile, LenProperties
  <2>3. i \in 1..q
    BY <1>6, <2>1, <2>2
  <2> QED
    BY <1>5, <1>6, <2>1, <2>2, <2>3
<1>7. ASSUME NEW n \in DOMAIN parts', NEW i \in DOMAIN DataRows(parts'[n]),
             DataRows(parts'[n])[i] \in Items
      PROVE  /\ i \in 1..q /\ (n - 1) * q + i \in DOMAIN Rows
             /\ DataRows(parts'[n])[i] = Rows[(n - 1) * q + i]
  <2>1. CASE n = d + 1
    <3>1. n \in 1..k /\ parts'[n] = lines /\ n = done + 1
      BY <1>2, <1>4, <2>1
    <3>2. i \in DOMAIN DataRows(Chunk(n)) /\ DataRows(parts'[n])[i] = DataRows(Chunk(n))[i]
      BY <1>7, <3>1
    <3> QED
      BY <1>6, <3>1, <3>2
  <2>2. CASE n # d + 1
    <3>1. n \in 1..d /\ n \in 1..k
      BY <1>2, <1>4, <2>2
    <3>2. parts'[n] = Chunk(n)
      BY <1>4, <3>1
    <3> QED
      BY <1>6, <1>7, <3>1, <3>2
  <2> QED
    BY <2>1, <2>2
<1>8. DOMAIN parts' \subseteq Nat \ {0}
  BY <1>2, <1>4
<1>9. InPlaces(parts', Rows, q)
  BY <1>7 DEF InPlaces
<1> QED
  BY <1>2, <1>5, <1>8, <1>9, PlacesApart
LEMMA SplitCalmInit == Init => SplitCalm
<1> SUFFICES ASSUME Init
             PROVE  SplitCalm
  OBVIOUS
<1>1. splitPhase = "down" /\ splitOf = <<>> /\ DOMAIN parts = {}
  BY DEF Init, SplitInit
<1>2. ItemsOnce(<<>>)
  BY DEF ItemsOnce
<1> QED
  BY <1>1, <1>2 DEF SplitCalm, Apart

LEMMA NewPartApart ==
  ASSUME SplitCalm, SplitSide, ChunkInv, splits <= 1, Apart(parts), CreatePart
  PROVE  Apart(parts') /\ parts'[done' + 1] = <<>>
<1>1. parts' = WithFile(parts, done + 1, <<>>) /\ done' = done /\ splitPhase = "chunk"
  BY DEF CreatePart
<1>2. DataRows(<<>>) = <<>> /\ DOMAIN <<>> = {}
  BY DEF DataRows
<1>3. /\ DOMAIN parts' = DOMAIN parts \cup {done + 1} /\ parts'[done + 1] = <<>>
      /\ \A n \in DOMAIN parts' : n # done + 1 => n \in DOMAIN parts /\ parts'[n] = parts[n]
  BY <1>1 DEF WithFile
<1>4. \A n \in DOMAIN parts' : \A i \in DOMAIN DataRows(parts'[n]) :
        n \in DOMAIN parts /\ parts'[n] = parts[n]
  BY <1>2, <1>3
<1>5. Apart(parts')
  BY <1>4 DEF Apart
<1> QED
  BY <1>1, <1>3, <1>5

LEMMA SplitCalmStep ==
  ASSUME FilesInv, SplitCalm, [Next /\ Bounded']_vars
  PROVE  SplitCalm'
<1>1. /\ SplitNow /\ SplitSide /\ ChunkInv /\ ListSide /\ out \in Seq(AnyLine) /\ Headless(out)
      /\ splits \in Nat
  BY PipelineSplitStep, OutTyped DEF FilesInv, ListSide, OutFile, SplitSide, SplitTypeOK
<1>2. OutGrows
  BY <1>1, PipelineStep, ListSideStep
<1>3. ItemsOnce(out') => ItemsOnce(out)
  <2>1. CASE out = <<>>
    BY <2>1 DEF ItemsOnce
  <2>2. CASE Grown(out, out')
    BY <1>1, <2>2, GrownKeeps
  <2> QED
    BY <1>2, <2>1, <2>2 DEF OutGrows
<1>4. ASSUME parts' = parts, splits' = splits, splitOf' = splitOf \/ splitOf' = <<>>,
             splitPhase' # "fill" \/ UNCHANGED <<splitPhase, done>>
      PROVE  SplitCalm'
  <2>1. ItemsOnce(<<>>)
    BY DEF ItemsOnce
  <2> QED
    BY <1>3, <1>4, <2>1 DEF SplitCalm
<1>5. CASE UNCHANGED splitVars
  BY <1>4, <1>5 DEF splitVars
<1>6. CASE \E n \in ChunkSizes : StartSplit(created, out, n) /\ UNCHANGED out
  <2>1. /\ splits' = splits + 1 /\ parts' = parts /\ splitPhase' # "fill" /\ out' = out
        /\ splitOf' \in {out, <<>>}
    BY <1>6 DEF StartSplit
  <2>2. ItemsOnce(<<>>)
    BY DEF ItemsOnce
  <2>3. splits' <= 1 => splits <= 1
    BY <1>1, <2>1
  <2> QED
    BY <2>1, <2>2, <2>3 DEF SplitCalm
<1>7. CASE SplitStep
  <2>1. CASE CreatePart
    <3>1. UNCHANGED <<splitOf, splits>>
      BY <2>1 DEF CreatePart
    <3>2. parts'[done' + 1] = <<>>
      <4>1. parts' = WithFile(parts, done + 1, <<>>) /\ done' = done
        BY <2>1 DEF CreatePart
      <4> QED
        BY <4>1 DEF WithFile
    <3> QED
      BY <1>1, <1>3, <2>1, <3>1, <3>2, NewPartApart DEF SplitCalm
  <2>2. CASE FlushPart
    <3>1. /\ splitPhase = "fill" /\ splitPhase' = "chunk"
          /\ parts' = [parts EXCEPT ![done + 1] = Chunk(done + 1)]
          /\ UNCHANGED <<splitOf, splits>>
      BY <2>2 DEF FlushPart
    <3>2. splits <= 1 /\ ItemsOnce(splitOf) => Apart(parts')
      BY <1>1, <3>1, FilledApart
    <3> QED
      BY <1>3, <3>1, <3>2 DEF SplitCalm
  <2>3. CASE PartLost
    <3>1. /\ splitPhase = "fill" /\ splitPhase' = "down" /\ splits' = splits
          /\ splitOf' \in {splitOf, <<>>}
      BY <2>3 DEF PartLost, SplitEnds
    <3>2. PICK lines : parts' = [parts EXCEPT ![done + 1] = lines]
      BY <2>3 DEF PartLost
    <3>3. parts'[done + 1] = lines
      BY <1>1, <3>1, <3>2 DEF SplitSide, Started
    <3>4. \A i \in DOMAIN DataRows(lines) : DataRows(lines)[i] \in Items =>
            /\ i \in DOMAIN DataRows(Chunk(done + 1))
            /\ DataRows(lines)[i] = DataRows(Chunk(done + 1))[i]
      BY <1>1, <2>3, <3>3, LostPiece
    <3>5. splits <= 1 /\ ItemsOnce(splitOf) => Apart(parts')
      BY <1>1, <3>1, <3>2, <3>4, FilledApart
    <3>6. ItemsOnce(<<>>)
      BY DEF ItemsOnce
    <3> QED
      BY <1>3, <3>1, <3>5, <3>6 DEF SplitCalm
  <2>4. CASE \/ ChunksDone \/ GroupRow \/ GroupRowsDone \/ FlushGroup \/ GroupsDone \/ CutShort
    BY <1>4, <2>4 DEF ChunksDone, GroupRow, GroupRowsDone, FlushGroup, GroupsDone, CutShort,
                      SplitEnds
  <2> QED
    BY <1>7, <2>1, <2>2, <2>3, <2>4 DEF SplitStep
<1>8. CASE SplitList
  BY <1>6, <1>8 DEF SplitList, listVars, listFile
<1> QED
  BY <1>5, <1>7, <1>8 DEF SplitNow, Next, List, ListRuns, ListKilled, SplitRuns, DetailWhole,
                         RunParts, DetailRuns, Trouble, vars

(* A file that "detail" was given stays, with its items, as long as the     *)
(* list is not split anew.                                                  *)
FilesGrow == \A n \in DOMAIN Files :
               /\ n \in DOMAIN Files'
               /\ ToSet(DataRows(Files[n])) \cap Items \subseteq ToSet(DataRows(Files'[n]))

LEMMA PartsGrow ==
  ASSUME SplitSide, ChunkInv, SplitCalm, SplitNow, splits' <= 1, NEW n \in DOMAIN parts
  PROVE  /\ n \in DOMAIN parts'
         /\ ToSet(DataRows(parts[n])) \subseteq ToSet(DataRows(parts'[n]))
<1>1. CASE parts' = parts
  BY <1>1
<1>2. CASE CreatePart
  <2>1. parts' = WithFile(parts, done + 1, <<>>) /\ splits' = splits /\ splitPhase = "chunk"
    BY <1>2 DEF CreatePart
  <2>2. splits = 1 /\ done \in Nat
    BY <2>1, RowFacts DEF ChunkInv, SplitSide, SplitTypeOK
  <2>3. DOMAIN parts = 1..done
    BY <2>1, <2>2 DEF ChunkInv
  <2>4. n # done + 1
    BY <2>2, <2>3
  <2> QED
    BY <2>1, <2>4 DEF WithFile
<1>3. CASE FlushPart \/ PartLost
  <2>1. /\ DOMAIN parts' = DOMAIN parts
        /\ \A m \in DOMAIN parts : m # done + 1 => parts'[m] = parts[m]
        /\ parts[done + 1] = <<>>
    <3>1. CASE FlushPart
      BY <3>1 DEF FlushPart, SplitCalm
    <3>2. CASE PartLost
      BY <3>2, LostPiece DEF PartLost, SplitCalm
    <3> QED
      BY <1>3, <3>1, <3>2
  <2>2. ToSet(DataRows(<<>>)) = {}
    BY DEF DataRows, ToSet
  <2> QED
    BY <2>1, <2>2
<1> QED
  BY <1>1, <1>2, <1>3 DEF SplitNow, SplitStep, StartSplit, splitVars, ChunksDone, GroupRow,
                         GroupRowsDone, FlushGroup, GroupsDone, CutShort

LEMMA FilesOnlyGrow ==
  ASSUME FilesInv, SplitCalm, [Next /\ Bounded']_vars, splits' <= 1
  PROVE  FilesGrow
<1>1. /\ SplitNow /\ SplitSide /\ ChunkInv /\ ListSide /\ out \in Seq(AnyLine) /\ Headless(out)
      /\ flow' = flow
  BY PipelineSplitStep, OutTyped, FlowStays DEF FilesInv, ListSide, OutFile
<1>2. CASE flow # "whole"
  <2>1. Files = parts /\ Files' = parts'
    BY <1>1, <1>2 DEF Files
  <2> QED
    BY <1>1, <2>1, PartsGrow DEF FilesGrow
<1>3. CASE flow = "whole" /\ ~created
  <2>1. Files = <<>> /\ DOMAIN <<>> = {}
    BY <1>3 DEF Files
  <2> QED
    BY <2>1 DEF FilesGrow
<1>4. CASE flow = "whole" /\ created
  <2>1. [ListNext]_listVars /\ OutGrows
    BY <1>1, PipelineStep, ListSideStep
  <2>2. created'
    BY <1>4, <2>1 DEF ListNext, StartList, ListStep, WriteHeader, FetchPage, ListFails, WriteRow,
                     FlushPage, NextPage, FinishList, KillList, listFile, listVars
  <2>3. Files = [n \in {0} |-> out] /\ Files' = [n \in {0} |-> out']
    BY <1>1, <1>4, <2>2 DEF Files
  <2>4. ToSet(DataRows(out)) \cap Items \subseteq ToSet(DataRows(out'))
    <3>1. CASE out = <<>>
      BY <3>1 DEF DataRows, ToSet
    <3>2. CASE Grown(out, out')
      BY <1>1, <3>2, GrownKeeps
    <3> QED
      BY <2>1, <3>1, <3>2 DEF OutGrows
  <2> QED
    BY <2>3, <2>4 DEF FilesGrow
<1> QED
  BY <1>2, <1>3, <1>4-----------------------------------------------------------------------------
(* No school twice: who has written a row, and what is still to be written. *)

Calm == crashes = 0 /\ splits <= 1 /\ ItemsOnce(out)

(* An item with a row has one, and the part it is in has it in its          *)
(* checkpoint or is about to have.                                          *)
Owned(x, n) == /\ n \in DOMAIN Files \cap Names /\ x \in ToSet(DataRows(Files[n]))
               /\ x \in acks[n] \/ (alive["child"] /\ at["child"] = n /\ due["child"] = x)
RowsOwned == \A x \in Items : /\ rowsOf[x] <= 1
                              /\ rowsOf[x] > 0 => \E n \in Names : Owned(x, n)

(* What the detail process has not written yet is of its part, listed once, *)
(* and without a row.                                                       *)
HandsApart ==
  LET left == todo["child"] IN
  /\ part \in DOMAIN Files
  /\ ToSet(left) \subseteq ToSet(DataRows(Files[part]))
  /\ ToSet(left) \cap Items \cap acks[part] = {} /\ due["child"] \notin ToSet(left)
  /\ due["child"] # NoId => due["child"] \in Items \cap ToSet(DataRows(Files[part]))
  /\ DistinctOn(left, Items)

TwiceInv == Calm => /\ ~alive["orphan"] /\ RowsOwned
                    /\ alive["child"] => HandsApart

(* All that holds before a step. *)
TwiceSide == PipelineTyped /\ Chain /\ SplitCalm

LEMMA TwiceFacts ==
  ASSUME TwiceSide
  PROVE  /\ RunSide /\ LogsOK /\ LoopOK /\ ProcsOK /\ FilesInv /\ "child" \in Crawlers
         /\ Items \subseteq Ids /\ Garbled \notin Items /\ NoId \notin Items
         /\ splits \in Nat /\ crashes \in Nat /\ out \in Seq(AnyLine)
         /\ alive["child"] => part \in Names /\ script = "loop" /\ at["child"] = part
<1>1. RunSide /\ FilesInv /\ LogsOK /\ LoopOK /\ ProcsOK /\ BoundsOK
      /\ (alive["child"] => part \in Names /\ script = "loop" /\ at["child"] = part)
  BY LoopFacts DEF TwiceSide, PipelineTyped, RunSide, Control
<1>2. splits \in Nat /\ crashes \in Nat
  BY <1>1 DEF FilesInv, SplitSide, SplitTypeOK, BoundsOK
<1>3. out \in Seq(AnyLine)
  BY <1>1, OutTyped DEF FilesInv
<1> QED
  BY <1>1, <1>2, <1>3 DEF Crawlers

LEMMA FilesApart ==
  ASSUME TwiceSide, splits <= 1, ItemsOnce(out)
  PROVE  Apart(Files)
<1>1. CASE flow # "whole"
  BY <1>1 DEF Files, TwiceSide, SplitCalm
<1>2. CASE flow = "whole" /\ created
  <2>1. Files = [n \in {0} |-> out]
    BY <1>2 DEF Files
  <2>2. DistinctOn(DataRows(out), Items)
    BY TwiceFacts, RowsOnce
  <2> QED
    BY <2>1, <2>2 DEF Apart, DistinctOn
<1>3. CASE flow = "whole" /\ ~created
  <2>1. Files = <<>> /\ DOMAIN <<>> = {}
    BY <1>3 DEF Files
  <2> QED
    BY <2>1 DEF Apart
<1> QED
  BY <1>1, <1>2, <1>3

(* Steps of the script or the list only: rows, checkpoints and processes    *)
(* stay as they are, and the files keep their items.                        *)
LEMMA RowsStayOwned ==
  ASSUME RowsOwned, FilesGrow, UNCHANGED <<rowsOf, acks, alive, at, due>>
  PROVE  RowsOwned'
<1>1. SUFFICES ASSUME NEW x \in Items, rowsOf[x] > 0
               PROVE  \E n \in Names : Owned(x, n)'
  BY DEF RowsOwned
<1>2. PICK n \in Names : Owned(x, n)
  BY <1>1 DEF RowsOwned
<1>3. Owned(x, n)'
  BY <1>1, <1>2 DEF Owned, FilesGrow
<1> QED
  BY <1>3

(* The detail process of the script ends, and no row waits for its          *)
(* checkpoint line.                                                         *)
LEMMA RowsAfterEnd ==
  ASSUME TwiceSide, RowsOwned, Files' = Files, UNCHANGED <<rowsOf, acks>>,
         alive["child"] => due["child"] = NoId
  PROVE  RowsOwned'
<1>1. SUFFICES ASSUME NEW x \in Items, rowsOf[x] > 0
               PROVE  \E n \in Names : Owned(x, n)'
  BY DEF RowsOwned
<1>2. PICK n \in Names : Owned(x, n)
  BY <1>1 DEF RowsOwned
<1>3. x \in acks[n] /\ n \in DOMAIN Files \cap Names /\ x \in ToSet(DataRows(Files[n]))
  BY <1>1, <1>2, TwiceFacts DEF Owned
<1>4. Owned(x, n)'
  BY <1>3 DEF Owned
<1> QED
  BY <1>4

LEMMA TwiceRunPart ==
  ASSUME TwiceSide, TwiceInv, Calm, Files' = Files, RunPart(Files, tool = "pddikti")
  PROVE  RowsOwned' /\ HandsApart' /\ ~alive'["orphan"]
<1>1. /\ part \in DOMAIN Files /\ Readable(Files[part]) /\ part <= last /\ part' = part
      /\ ~alive["child"]
      /\ alive' = [alive EXCEPT !["child"] = TRUE]
      /\ todo' = [todo EXCEPT !["child"] = Pending(Files[part], part)]
      /\ due' = [due EXCEPT !["child"] = NoId]
      /\ UNCHANGED <<rowsOf, acks>>
  BY DEF RunPart, InLoop, Reads, loop, partLogs
<1>2. /\ RunSide /\ ProcsOK /\ FilesInv /\ "child" \in Crawlers /\ part \in Names
      /\ Items \subseteq Ids /\ NoId \notin Items /\ NoId \notin Ids
  BY <1>1, TwiceFacts, LoopFacts
<1> DEFINE ids == DataRows(Files[part])
           S   == ToSet(ids) \ acks[part]
<1>3. todo'["child"] = Select(ids, S) /\ due'["child"] = NoId
  BY <1>1, <1>2 DEF Pending, ProcsOK
<1>4. ids \in Seq(Ids) /\ ToSet(ids) \subseteq Ids
  BY <1>1, <1>2, FileFed
<1>5. DistinctOn(ids, Items)
  <2>1. Apart(Files)
    BY FilesApart DEF Calm
  <2> QED
    BY <1>1, <2>1 DEF Apart, DistinctOn
<1>6. ToSet(todo'["child"]) = ToSet(ids) \cap S /\ DistinctOn(todo'["child"], Items)
  <2> HIDE DEF ids, S
  <2>1. ToSet(Select(ids, S)) = ToSet(ids) \cap S
    BY <1>4, SelectProperties
  <2>2. DistinctOn(Select(ids, S), Items)
    BY <1>4, <1>5, SelectKeepsDistinct
  <2> QED
    BY <1>3, <2>1, <2>2
<1>7. /\ ToSet(todo'["child"]) \subseteq ToSet(ids)
      /\ ToSet(todo'["child"]) \cap acks[part] = {} /\ NoId \notin ToSet(todo'["child"])
  BY <1>2, <1>4, <1>6
<1>8. HandsApart'
  BY <1>1, <1>2, <1>3, <1>6, <1>7 DEF HandsApart
<1>9. RowsOwned'
  BY <1>1, RowsAfterEnd DEF TwiceInv
<1>10. ~alive'["orphan"]
  BY <1>1, <1>2 DEF TwiceInv, ProcsOK, Crawlers
<1> QED
  BY <1>8, <1>9, <1>10

LEMMA TwiceWriteRow ==
  ASSUME TwiceSide, TwiceInv, Calm, Files' = Files, WriteRowOf("child")
  PROVE  RowsOwned' /\ HandsApart'
<1>1. PICK i \in DOMAIN todo["child"] :
        /\ todo["child"][i] # Garbled
        /\ rowsOf' = [rowsOf EXCEPT ![todo["child"][i]] = Min({@ + 1, Many})]
        /\ due' = [due EXCEPT !["child"] = todo["child"][i]]
        /\ Without("child", i)
  BY DEF WriteRowOf
<1>2. /\ alive["child"] /\ due["child"] = NoId /\ part' = part
      /\ UNCHANGED <<acks, alive, at>>
  BY DEF WriteRowOf, loop
<1>3. /\ RunSide /\ LogsOK /\ ProcsOK /\ "child" \in Crawlers /\ part \in Names
      /\ at["child"] = part /\ Items \subseteq Ids /\ NoId \notin Items
  BY <1>2, TwiceFacts
<1>4. HandsApart /\ RowsOwned
  BY <1>2 DEF TwiceInv
<1> DEFINE x == todo["child"][i]
           left == todo["child"]
<1>5. /\ left \in Seq(Ids) /\ i \in 1..Len(left) /\ x \in Ids /\ x \in ToSet(left)
      /\ todo'["child"] = RemoveAt(left, i)
  BY <1>1, <1>3, OneLess
<1>6. x \in Items /\ due'["child"] = x
  BY <1>1, <1>3, <1>5 DEF ProcsOK
<1>7. /\ ToSet(todo'["child"]) \subseteq ToSet(left)
      /\ DistinctOn(todo'["child"], Items) /\ x \notin ToSet(todo'["child"])
  <2>1. DistinctOn(left, Items)
    BY <1>4 DEF HandsApart
  <2> QED
    BY <1>5, <1>6, <2>1, RemoveAtKeeps
<1>8. /\ part \in DOMAIN Files /\ x \in ToSet(DataRows(Files[part])) /\ x \notin acks[part]
      /\ ToSet(left) \subseteq ToSet(DataRows(Files[part]))
      /\ ToSet(left) \cap Items \cap acks[part] = {}
  BY <1>4, <1>5, <1>6 DEF HandsApart
<1>9. HandsApart'
  BY <1>2, <1>6, <1>7, <1>8 DEF HandsApart
<1>10. rowsOf[x] \in 0..Many /\ ~(rowsOf[x] > 0)
  <2>1. ASSUME rowsOf[x] > 0
        PROVE  FALSE
    <3>1. PICK n \in Names : Owned(x, n)
      BY <1>4, <1>6, <2>1 DEF RowsOwned
    <3>2. n \in DOMAIN Files /\ x \in ToSet(DataRows(Files[n])) /\ x \in acks[n]
      BY <1>2, <1>3, <1>6, <3>1 DEF Owned
    <3>3. Apart(Files)
      BY FilesApart DEF Calm
    <3>4. n = part
      BY <1>6, <1>8, <3>2, <3>3 DEF Apart, ToSet
    <3> QED
      BY <1>8, <3>2, <3>4
  <2> QED
    BY <1>3, <1>5, <2>1 DEF LogsOK
<1>11. rowsOf'[x] = 1
  <2>1. rowsOf[x] = 0
    BY <1>10 DEF Many
  <2>2. Min({1, 2}) = 1
    <3>1. Min({1, 2}) = IF 1 <= 2 THEN 1 ELSE 2
      BY MinOfTwo
    <3> QED
      BY <3>1
  <2>3. rowsOf'[x] = 1
    <3>1. rowsOf' = [rowsOf EXCEPT ![x] = Min({rowsOf[x] + 1, Many})] /\ rowsOf[x] + 1 = 1
      BY <1>1, <2>1
    <3>2. rowsOf'[x] = Min({rowsOf[x] + 1, Many})
      BY <1>3, <1>5, <3>1 DEF LogsOK
    <3> QED
      BY <2>2, <3>1, <3>2 DEF Many
  <2> QED
    BY <2>3
<1>12. RowsOwned'
  <2>1. SUFFICES ASSUME NEW y \in Items
                 PROVE  rowsOf'[y] <= 1 /\ (rowsOf'[y] > 0 => \E n \in Names : Owned(y, n)')
    BY DEF RowsOwned
  <2>2. CASE y = x
    <3>1. PICK n \in Names : n = part
      BY <1>3
    <3>2. Owned(y, n)'
      BY <1>2, <1>3, <1>6, <1>8, <2>2, <3>1 DEF Owned
    <3>3. rowsOf'[y] <= 1
      BY <1>11, <2>2
    <3> QED
      BY <3>2, <3>3
  <2>3. CASE y # x
    <3>1. rowsOf'[y] = rowsOf[y] /\ rowsOf[y] <= 1
      BY <1>1, <1>3, <1>4, <2>3 DEF LogsOK, RowsOwned
    <3>2. ASSUME rowsOf[y] > 0
          PROVE  \E n \in Names : Owned(y, n)'
      <4>1. PICK n \in Names : Owned(y, n)
        BY <1>4, <3>2 DEF RowsOwned
      <4>2. Owned(y, n)'
        BY <1>2, <1>3, <4>1 DEF Owned
      <4> QED
        BY <4>2
    <3> QED
      BY <3>1, <3>2
  <2> QED
    BY <2>2, <2>3
<1> QED
  BY <1>9, <1>12
LEMMA TwiceAckRow ==
  ASSUME TwiceSide, TwiceInv, Calm, Files' = Files, AckRow("child")
  PROVE  RowsOwned' /\ HandsApart'
<1>1. /\ alive["child"] /\ due["child"] # NoId /\ part' = part
      /\ acks' = [acks EXCEPT ![at["child"]] = @ \cup {due["child"]}]
      /\ due' = [due EXCEPT !["child"] = NoId]
      /\ UNCHANGED <<rowsOf, alive, at, todo>>
  BY DEF AckRow, loop
<1>2. /\ RunSide /\ LogsOK /\ ProcsOK /\ "child" \in Crawlers /\ part \in Names
      /\ at["child"] = part /\ Items \subseteq Ids /\ NoId \notin Items
      /\ todo["child"] \in Seq(Ids) /\ NoId \notin Ids
  BY <1>1, TwiceFacts DEF ProcsOK
<1>3. HandsApart /\ RowsOwned
  BY <1>1 DEF TwiceInv
<1>4. /\ acks'[part] = acks[part] \cup {due["child"]} /\ due'["child"] = NoId
      /\ \A n \in Names : acks[n] \subseteq acks'[n]
  BY <1>1, <1>2 DEF LogsOK, ProcsOK
<1>5. NoId \notin ToSet(todo["child"])
  BY <1>2, ToSetIn
<1>6. HandsApart'
  BY <1>1, <1>3, <1>4, <1>5 DEF HandsApart
<1>7. RowsOwned'
  <2>1. SUFFICES ASSUME NEW x \in Items, rowsOf[x] > 0
                 PROVE  \E n \in Names : Owned(x, n)'
    BY <1>1, <1>3 DEF RowsOwned
  <2>2. PICK n \in Names : Owned(x, n)
    BY <1>3, <2>1 DEF RowsOwned
  <2>3. x \in acks'[n]
    BY <1>2, <1>4, <2>2 DEF Owned
  <2>4. Owned(x, n)'
    BY <2>2, <2>3 DEF Owned
  <2> QED
    BY <2>4
<1> QED
  BY <1>6, <1>7

LEMMA TwiceGiveUp ==
  ASSUME TwiceSide, TwiceInv, Calm, Files' = Files, GiveUp("child")
  PROVE  RowsOwned' /\ HandsApart'
<1>1. PICK i \in DOMAIN todo["child"] : Without("child", i)
  BY DEF GiveUp
<1>2. /\ alive["child"] /\ due["child"] = NoId /\ part' = part
      /\ UNCHANGED <<acks, rowsOf, alive, at, due>>
  BY DEF GiveUp, loop
<1>3. RunSide /\ "child" \in Crawlers
  BY TwiceFacts
<1>4. HandsApart /\ RowsOwned
  BY <1>2 DEF TwiceInv
<1>5. /\ todo["child"] \in Seq(Ids) /\ i \in 1..Len(todo["child"])
      /\ todo'["child"] = RemoveAt(todo["child"], i)
  BY <1>1, <1>3, OneLess
<1>6. ToSet(todo'["child"]) \subseteq ToSet(todo["child"]) /\ DistinctOn(todo'["child"], Items)
  <2>1. DistinctOn(todo["child"], Items)
    BY <1>4 DEF HandsApart
  <2> QED
    BY <1>5, <2>1, RemoveAtKeeps
<1>7. HandsApart'
  BY <1>2, <1>4, <1>6 DEF HandsApart
<1>8. RowsOwned'
  BY <1>2, <1>4, RowsAfterEnd
<1> QED
  BY <1>7, <1>8

(* A kill, of whatever process, ends the calm. *)
LEMMA NoCrash ==
  ASSUME TwiceSide, RunMove, crashes' = 0
  PROVE  crashes = 0 /\ ~KillChild /\ ~KillScript /\ ~KillAll
<1>1. crashes \in Nat
  BY TwiceFacts
<1>2. crashes' = crashes \/ crashes' = crashes + 1
  BY DEF RunMove, RunStep, Trouble, SkipPart, DetailFails, RunPart, FinishScript, PartDone,
         OrphanDone, CrawlStep, WriteRowOf, AckRow, GiveUp, Interrupted, Cancelled, KillChild,
         KillScript, KillAll, Crash, NoParts, StartScript, runBounds, runVars
<1>3. KillChild \/ KillScript \/ KillAll => crashes' = crashes + 1
  BY DEF KillChild, KillScript, KillAll, Crash
<1> QED
  BY <1>1, <1>2, <1>3

LEMMA TwiceMove ==
  ASSUME TwiceSide, TwiceInv, Calm, Files' = Files, RunMove, crashes' = 0
  PROVE  /\ ~alive'["orphan"] /\ RowsOwned'
         /\ alive'["child"] => HandsApart'
<1>1. /\ RunSide /\ ProcsOK /\ "child" \in Crawlers /\ ~alive["orphan"] /\ RowsOwned
      /\ alive["child"] => script = "loop" /\ HandsApart
  BY TwiceFacts DEF TwiceInv
<1>2. ASSUME UNCHANGED <<partLogs, procs>>, alive["child"] => part' = part
      PROVE  /\ ~alive'["orphan"] /\ RowsOwned'
             /\ alive'["child"] => HandsApart'
  <2>1. UNCHANGED <<rowsOf, acks, alive, at, todo, due>>
    BY <1>2 DEF partLogs, procs
  <2>2. FilesGrow
    BY DEF FilesGrow
  <2>3. RowsOwned'
    BY <1>1, <2>1, <2>2, RowsStayOwned
  <2>4. alive'["child"] => HandsApart'
    BY <1>1, <1>2, <2>1 DEF HandsApart
  <2> QED
    BY <1>1, <2>1, <2>3, <2>4
<1>3. CASE UNCHANGED runVars
  BY <1>2, <1>3 DEF runVars, loop
<1>4. CASE Quiet /\ (NoParts \/ \E from, to \in Names : /\ from <= to /\ (flow = "whole" => to = 0)
                                                       /\ StartScript(from, to))
  BY <1>1, <1>2, <1>4 DEF Quiet, Idle, NoParts, StartScript
<1>5. CASE SkipPart(Files) \/ DetailFails(Files, tool = "pddikti") \/ FinishScript
  BY <1>2, <1>5 DEF SkipPart, DetailFails, FinishScript, InLoop
<1>6. CASE RunPart(Files, tool = "pddikti")
  BY <1>6, TwiceRunPart
<1>7. CASE PartDone \/ Interrupted
  <2>1. Gone("child") /\ due["child"] = NoId /\ UNCHANGED <<rowsOf, acks>>
    BY <1>7 DEF PartDone, Interrupted, Cancelled, partLogs
  <2>2. ~alive'["child"] /\ ~alive'["orphan"]
    <3>1. alive' = [alive EXCEPT !["child"] = FALSE]
      BY <2>1 DEF Gone
    <3> QED
      BY <1>1, <3>1 DEF ProcsOK, Crawlers
  <2> QED
    BY <1>1, <2>1, <2>2, RowsAfterEnd
<1>8. CASE CrawlStep
  <2>1. PICK c \in Crawlers : WriteRowOf(c) \/ AckRow(c) \/ GiveUp(c)
    BY <1>8 DEF CrawlStep
  <2>2. c = "child" /\ alive' = alive
    BY <1>1, <2>1 DEF Crawlers, WriteRowOf, AckRow, GiveUp
  <2>3. RowsOwned' /\ HandsApart'
    BY <2>1, <2>2, TwiceWriteRow, TwiceAckRow, TwiceGiveUp
  <2> QED
    BY <1>1, <2>2, <2>3
<1>9. ~OrphanDone
  BY <1>1 DEF OrphanDone
<1>10. ~KillChild /\ ~KillScript /\ ~KillAll
  BY NoCrash
<1> QED
  BY <1>3, <1>4, <1>5, <1>6, <1>7, <1>8, <1>9, <1>10 DEF RunMove, RunStep, Trouble

(* The calm before a calm. *)
LEMMA CalmBefore ==
  ASSUME TwiceSide, [Next /\ Bounded']_vars, Calm'
  PROVE  Calm
<1>1. /\ splits \in Nat /\ crashes \in Nat /\ out \in Seq(AnyLine) /\ Headless(out)
      /\ RunSide /\ Chain /\ ListSide
  BY TwiceFacts DEF TwiceSide, FilesInv, ListSide, OutFile
<1>2. splits' = splits \/ splits' = splits + 1
  BY PipelineSplitStep DEF SplitNow, SplitStep, StartSplit, splitVars, CreatePart, FlushPart,
     ChunksDone, PartLost, GroupRow, GroupRowsDone, FlushGroup, GroupsDone, CutShort
<1>3. crashes = 0
  <2>1. CASE FilesMove
    BY <2>1 DEF FilesMove, runBounds, Calm
  <2>2. CASE RunMove
    BY <2>2, NoCrash DEF Calm
  <2> QED
    BY <1>1, <2>1, <2>2, WhoMoves
<1>4. ItemsOnce(out)
  <2>1. OutGrows
    BY <1>1, PipelineStep, ListSideStep
  <2>2. ItemsOnce(out')
    BY DEF Calm
  <2>3. CASE out = <<>>
    BY <2>3 DEF ItemsOnce
  <2>4. CASE Grown(out, out')
    BY <1>1, <2>2, <2>4, GrownKeeps
  <2> QED
    BY <2>1, <2>2, <2>3, <2>4 DEF OutGrows
<1>5. splits <= 1
  BY <1>1, <1>2 DEF Calm
<1> QED
  BY <1>3, <1>4, <1>5 DEF Calm

LEMMA TwiceInvStep ==
  ASSUME TwiceSide, TwiceInv, [Next /\ Bounded']_vars, TwiceSide'
  PROVE  TwiceInv'
<1>1. SUFFICES ASSUME Calm'
               PROVE  /\ ~alive'["orphan"] /\ RowsOwned'
                      /\ alive'["child"] => HandsApart'
  BY DEF TwiceInv
<1>2. Calm /\ crashes' = 0 /\ splits' <= 1
  BY <1>1, CalmBefore DEF Calm
<1>3. RunSide /\ Chain /\ FilesInv /\ SplitCalm
  BY TwiceFacts DEF TwiceSide
<1>4. CASE FilesMove
  <2>1. /\ UNCHANGED <<rowsOf, acks, alive, at, due>> /\ script' = "off"
    BY <1>4 DEF FilesMove, partLogs, procs
  <2>2. alive'["child"] => script' = "loop"
    BY DEF TwiceSide, PipelineTyped, RunSide, Control
  <2>3. RowsOwned'
    BY <1>2, <1>3, <2>1, FilesOnlyGrow, RowsStayOwned DEF TwiceInv
  <2> QED
    BY <1>2, <2>1, <2>2, <2>3 DEF TwiceInv
<1>5. CASE Files' = Files /\ RunMove
  BY <1>2, <1>5, TwiceMove
<1> QED
  BY <1>3, <1>4, <1>5, WhoMoves

(* run_parts.sh:9: the parts do not interfere.  As long as no process is    *)
(* killed between a row and its checkpoint line, and the list is neither    *)
(* repeated nor split anew, no item gets two rows in the outputs of all     *)
(* parts, however often the script is interrupted and run again.            *)
THEOREM PartsDoNotInterfere == Spec => []NoSchoolTwice
<1>1. Init => TwiceSide /\ TwiceInv
  <2> SUFFICES ASSUME Init
               PROVE  TwiceSide /\ TwiceInv
    OBVIOUS
  <2>1. RunInit
    BY DEF Init
  <2>2. TwiceInv
    BY <2>1 DEF RunInit, TwiceInv, RowsOwned, Crawlers
  <2> QED
    BY <2>2, PipelineTypedInit, ChainInit, SplitCalmInit DEF TwiceSide
<1>2. TwiceSide /\ TwiceInv /\ [Next /\ Bounded']_vars => (TwiceSide /\ TwiceInv)'
  <2> SUFFICES ASSUME TwiceSide, TwiceInv, [Next /\ Bounded']_vars
               PROVE  TwiceSide' /\ TwiceInv'
    OBVIOUS
  <2>1. TwiceSide'
    BY TwiceFacts, PipelineTypedStep, ChainStep, SplitCalmStep DEF TwiceSide
  <2> QED
    BY <2>1, TwiceInvStep
<1>3. TwiceSide /\ TwiceInv => NoSchoolTwice
  <2> SUFFICES ASSUME TwiceSide, TwiceInv, Calm, NEW x \in Items
               PROVE  rowsOf[x] < Many
    BY DEF NoSchoolTwice, Calm
  <2>1. rowsOf[x] <= 1 /\ rowsOf[x] \in 0..Many
    BY TwiceFacts DEF TwiceInv, RowsOwned, LogsOK
  <2> QED
    BY <2>1 DEF Many
<1> QED
  BY <1>1, <1>2, <1>3, PTL DEF Spec
=============================================================================
