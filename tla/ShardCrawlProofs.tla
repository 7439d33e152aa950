-------------------------- MODULE ShardCrawlProofs --------------------------
(***************************************************************************)
(* Theorems about ShardCrawl for every index, window, page size and set of *)
(* filters, and any number of kills, outages and failed writes; what needs *)
(* a server that pages in a stable order says so (Steady).                 *)
(***************************************************************************)
EXTENDS ShardCrawl, SeqFacts

-----------------------------------------------------------------------------
(* The shape of queries, pages and children. *)

LEMMA QueryIsShard == TypeOK => \A sh \in Shard : Query(sh) \in Shard
BY BaseAssumption DEF TypeOK, Query, Shard

(* The server answers with schools. *)
LEMMA AnswerTyped == \A q \in Shard : Answer(q) \in Seq(All) /\ Len(Answer(q)) \in Nat
<1>1. Schools \in Seq(All)
  BY IndexAssumption, OwnRange DEF All
<1> QED
  BY <1>1, SelectProperties, LenProperties DEF Answer, Index

(* Sorting loses no name and invents none. *)
LEMMA DiscoveredTyped == TypeOK => Discovered \in Seq(KabNames)
BY IndexAssumption, SelectProperties DEF Discovered, KabNames

LEMMA MatchesTyped ==
  ASSUME TypeOK, NEW sh \in Shard
  PROVE  Matches(sh) \in Seq(All) /\ Total(sh) \in Nat
BY QueryIsShard, AnswerTyped DEF Matches, Total

(* A page asked for within the list is the next piece of it. *)
LEMMA PageFacts ==
  ASSUME TypeOK, Steady, NEW sh \in Shard, NEW p \in Nat, p * PageSize <= Total(sh),
         NEW data \in PagesOf(sh, p)
  PROVE  LET m == Matches(sh)
             e == IF (p + 1) * PageSize <= Len(m) THEN (p + 1) * PageSize ELSE Len(m)
         IN  /\ data \in Seq(All)
             /\ Len(data) = e - p * PageSize
             /\ \A i \in 1..Len(data) : data[i] = m[p * PageSize + i]
<1> DEFINE m == Matches(sh)
<1>1. m \in Seq(All) /\ Len(m) \in Nat
  BY MatchesTyped DEF Total
<1>2. PICK n \in Nat, a \in Nat, b \in Nat :
        n = Len(m) /\ a = p * PageSize /\ b = (p + 1) * PageSize /\ a <= b /\ a <= n
  <2>1. (p + 1) * PageSize = p * PageSize + PageSize /\ p * PageSize \in Nat
    BY SizeAssumption
  <2> QED
    BY <1>1, <2>1, SizeAssumption DEF Total
<1>3. PICK e \in 0..n : e = (IF b <= n THEN b ELSE n) /\ a <= e
  BY <1>2
<1>4. data = SubSeq(m, a + 1, e)
  <2>1. Min({b, n}) = e
    BY <1>3, MinOfTwo
  <2> QED
    BY <1>2, <2>1 DEF PagesOf
<1>5. /\ data \in Seq(All) /\ Len(data) = e - a
      /\ \A i \in 1..e - a : data[i] = m[a + i]
  <2>1. e \in 0..Len(m)
    BY <1>2
  <2>2. /\ SubSeq(m, a + 1, e) \in Seq(All)
        /\ Len(SubSeq(m, a + 1, e)) = IF a <= e THEN e - a ELSE 0
        /\ \A i \in 1..e - a : SubSeq(m, a + 1, e)[i] = m[a + i]
    BY <1>1, <2>1, Piece
  <2> QED
    BY <1>3, <1>4, <2>2
<1> QED
  BY <1>2, <1>3, <1>5

(* In any order, a page holds schools that match. *)
LEMMA DataMatches ==
  ASSUME TypeOK, NEW sh \in Shard, NEW p \in Nat, Steady => p * PageSize <= Total(sh),
         NEW data \in PagesOf(sh, p)
  PROVE  data \in Seq(All) /\ ToSet(data) \subseteq ToSet(Matches(sh))
<1> DEFINE m == Matches(sh)
<1>1. m \in Seq(All) /\ Len(m) \in Nat /\ DOMAIN m = 1..Len(m)
  BY MatchesTyped, LenProperties DEF Total
<1>2. CASE Steady
  <2>1. /\ data \in Seq(All)
        /\ Len(data) = (IF (p + 1) * PageSize <= Len(m) THEN (p + 1) * PageSize ELSE Len(m))
                       - p * PageSize
        /\ \A i \in 1..Len(data) : data[i] = m[p * PageSize + i]
    BY <1>2, PageFacts
  <2>2. PICK a \in Nat, b \in Nat, n \in Nat :
          a = p * PageSize /\ b = (p + 1) * PageSize /\ n = Len(m) /\ a <= n
    <3>1. p * PageSize \in Nat /\ (p + 1) * PageSize \in Nat
      BY SizeAssumption
    <3> QED
      BY <1>1, <1>2, <3>1 DEF Total
  <2>3. ASSUME NEW i \in 1..Len(data)
        PROVE  data[i] \in ToSet(m)
    <3>1. a + i \in 1..n /\ data[i] = m[a + i]
      BY <2>1, <2>2
    <3> QED
      BY <1>1, <2>2, <3>1 DEF ToSet
  <2>4. DOMAIN data = 1..Len(data)
    BY <2>1, LenProperties
  <2> QED
    BY <2>1, <2>3, <2>4 DEF ToSet
<1>3. CASE ~Steady
  <2>1. PICK P \in SUBSET ToSet(m) : data = SetToSeq(P)
    BY <1>3 DEF PagesOf, kSubset
  <2>2. IsFiniteSet(P)
    BY <1>1, RangeFinite, FS_Subset
  <2>3. data \in Seq(P) /\ ToSet(data) \subseteq P
    BY <2>1, <2>2, ListOfSet, ToSetIn
  <2>4. ToSet(m) \subseteq All
    BY <1>1, ToSetIn
  <2> QED
    BY <2>1, <2>3, <2>4
<1> QED
  BY <1>2, <1>3

LEMMA ChildrenTyped ==
  ASSUME NEW sh \in Shard
  PROVE  /\ \A kabs \in Seq(KabNames) : ByKab(sh, kabs) \in Seq(Shard)
         /\ ByStatus(sh) \in Seq(Shard)
         /\ ByBentuk(sh) \in Seq(Shard)
<1>1. ASSUME NEW kabs \in Seq(KabNames)
      PROVE  ByKab(sh, kabs) \in Seq(Shard)
  <2>1. DOMAIN kabs = 1..Len(kabs) /\ Len(kabs) \in Nat /\ \A i \in 1..Len(kabs) : kabs[i] \in KabNames
    BY LenProperties, ElementOfSeq
  <2>2. \A i \in 1..Len(kabs) : [sh EXCEPT !.kb = kabs[i]] \in Shard
    BY <2>1 DEF Shard
  <2> QED
    BY <2>1, <2>2 DEF ByKab
<1>2. ByStatus(sh) \in Seq(Shard)
  <2>1. /\ DOMAIN Statuses = 1..Len(Statuses) /\ Len(Statuses) \in Nat
        /\ \A i \in 1..Len(Statuses) : Statuses[i] \in ToSet(Statuses)
    BY IndexAssumption, LenProperties, ElementOfSeq
  <2>2. \A i \in 1..Len(Statuses) : [sh EXCEPT !.st = Statuses[i]] \in Shard
    BY <2>1 DEF Shard
  <2> QED
    BY <2>1, <2>2 DEF ByStatus
<1>3. ByBentuk(sh) \in Seq(Shard)
  <2>1. /\ DOMAIN Categories = 1..Len(Categories) /\ Len(Categories) \in Nat
        /\ \A i \in 1..Len(Categories) : Categories[i] \in ToSet(Categories)
    BY IndexAssumption, LenProperties, ElementOfSeq
  <2>2. \A i \in 1..Len(Categories) : [sh EXCEPT !.bp = Categories[i]] \in Shard
    BY <2>1 DEF Shard
  <2> QED
    BY <2>1, <2>2 DEF ByBentuk
<1> QED
  BY <1>1, <1>2, <1>3

(* Discovery collects names of the kabupaten list. *)
LEMMA ReachedTyped ==
  ASSUME NEW b \in ToSet(Categories) \cup {NoFilter}
  PROVE  {Kab[s] : s \in Reached(b)} \ {NoKab} \subseteq KabNames
<1> DEFINE m == Answer([Root EXCEPT !.bp = b])
<1>1. m \in Seq(All) /\ Len(m) \in Nat
  <2>1. [Root EXCEPT !.bp = b] \in Shard
    BY DEF Root, Shard
  <2> QED
    BY <2>1, AnswerTyped
<1>2. PICK w \in Nat : w = (Window \div PageSize) * PageSize
  <2>1. PICK k \in Nat : k = Window \div PageSize
    BY SizeAssumption
  <2>2. k * PageSize \in Nat
    BY SizeAssumption
  <2> QED
    BY <2>1, <2>2
<1>3. PICK n \in Nat : n = Len(m)
  BY <1>1
<1>4. PICK e \in 0..n : e = Min({w, n})
  BY MinOfTwo
<1>5. SubSeq(m, 1, e) \in Seq(All)
  <2>1. e \in 0..Len(m)
    BY <1>3
  <2>2. SubSeq(m, 0 + 1, e) \in Seq(All)
    BY <1>1, <2>1, Piece
  <2>3. 0 + 1 = 1
    OBVIOUS
  <2> QED
    BY <2>2, <2>3
<1>6. Reached(b) \subseteq All
  BY <1>2, <1>3, <1>4, <1>5, ToSetIn DEF Reached
<1>7. All \subseteq DOMAIN Kab
  BY IndexAssumption, ToSetIn DEF All
<1> QED
  BY <1>6, <1>7, IndexAssumption DEF KabNames

-----------------------------------------------------------------------------
(* Types. *)

(* A shard is in hand while it is paged, written, marked or split.          *)
OnShard == phase \in {"page", "rows", "mark", "split", "cache", "discover", "save"} => agenda # <<>>

Typed == TypeOK /\ OnShard

LEMMA InitTyped == Init => TypeOK
<1> SUFFICES ASSUME Init
             PROVE  TypeOK
  OBVIOUS
<1>1. /\ out \in Seq(All) /\ cache \in Seq(KabNames) /\ agenda \in Seq(Shard)
      /\ buffer \in Seq(All) /\ scans \in Seq(ToSet(Categories) \cup {NoFilter})
  BY EmptySeq DEF Init
<1>2. halfGone \in BOOLEAN /\ full \in BOOLEAN /\ csvErr \in BOOLEAN
  BY Zenon DEF Init
<1>3. /\ written \in Nat /\ page \in Nat
      /\ kills \in 0..MaxKills /\ outages \in 0..MaxOutages /\ faults \in 0..MaxFaults
  BY SizeAssumption DEF Init
<1> QED
  BY <1>1, <1>2, <1>3 DEF Init, TypeOK, Phases

LEMMA RestartTyped ==
  ASSUME TypeOK, (\E r \in RestartFlags : Launch(r)) \/ RemoveShards \/ RemoveOut \/ Kill
  PROVE  TypeOK'
<1>0. ASSUME FreshMemory
      PROVE  /\ agenda' \in Seq(Shard) /\ doneShards' \subseteq Shard /\ seenIDs' \subseteq All
             /\ written' \in Nat /\ page' \in Nat /\ full' \in BOOLEAN /\ buffer' \in Seq(All)
             /\ scans' \in Seq(ToSet(Categories) \cup {NoFilter}) /\ found' \subseteq KabNames
             /\ csvErr' \in BOOLEAN
  BY <1>0, EmptySeq DEF FreshMemory
<1>1. CASE \E r \in RestartFlags : Launch(r)
  BY <1>0, <1>1 DEF Launch, TypeOK, Phases, disk, bounds, flags
<1>2. CASE RemoveShards
  BY <1>2, SizeAssumption DEF RemoveShards, GoOn, Happens, TypeOK, Phases, walk, pager, finder
<1>3. CASE RemoveOut
  BY <1>3, SizeAssumption DEF RemoveOut, GoOn, Happens, TypeOK, Phases, walk, pager, finder
<1>4. CASE Kill
  BY <1>0, <1>4, SizeAssumption DEF Kill, Ends, TypeOK, Phases, disk, flags
<1> QED
  BY <1>1, <1>2, <1>3, <1>4

LEMMA SetupTyped ==
  ASSUME TypeOK, LoadShardsDone \/ OpenOut \/ WriteHeader \/ StartCrawl
  PROVE  TypeOK'
<1>1. <<Root>> \in Seq(Shard)
  BY DEF Root, Shard
<1>2. CASE LoadShardsDone
  BY <1>2 DEF LoadShardsDone, GoOn, TypeOK, Phases, disk, pager, finder, bounds, flags
<1>3. CASE OpenOut
  BY <1>3 DEF OpenOut, GoOn, TypeOK, Phases, walk, pager, finder, bounds, flags
<1>4. CASE WriteHeader
  BY <1>4, SizeAssumption, SMTT(20)
     DEF WriteHeader, GoOn, Happens, TypeOK, Phases, walk, pager, finder, flags
<1>5. CASE StartCrawl
  BY <1>1, <1>5 DEF StartCrawl, GoOn, TypeOK, Phases, disk, pager, finder, bounds, flags
<1> QED
  BY <1>2, <1>3, <1>4, <1>5

LEMMA EndTyped ==
  ASSUME TypeOK, Fails \/ WriteFails \/ SaveFails \/ FinishCrawl \/ VerifyCoverage \/ VerifyFails
  PROVE  TypeOK'
<1>1. CASE Fails
  BY <1>1, SizeAssumption DEF Fails, Outage, GoOn, Ends, Happens, TypeOK, Phases,
     disk, walk, pager, finder, bounds, flags
<1>2. CASE WriteFails
  BY <1>2, SizeAssumption DEF WriteFails, Outage, GoOn, Ends, Happens, TypeOK, Phases,
     disk, walk, pager, finder, bounds, flags
<1>3. CASE SaveFails
  BY <1>3, SizeAssumption DEF SaveFails, Outage, GoOn, Ends, Happens, TypeOK, Phases,
     disk, walk, pager, finder, bounds, flags
<1>4. CASE FinishCrawl
  BY <1>4, SizeAssumption DEF FinishCrawl, GoOn, Ends, Happens, TypeOK, Phases,
     disk, walk, pager, finder, bounds, flags
<1>5. CASE VerifyCoverage
  BY <1>5, SizeAssumption DEF VerifyCoverage, GoOn, Ends, Happens, TypeOK, Phases,
     disk, walk, pager, finder, bounds, flags
<1>6. CASE VerifyFails
  BY <1>6, SizeAssumption DEF VerifyFails, Outage, GoOn, Ends, Happens, TypeOK, Phases,
     disk, walk, pager, finder, bounds, flags
<1> QED
  BY <1>1, <1>2, <1>3, <1>4, <1>5, <1>6

LEMMA WalkTyped ==
  ASSUME Typed, SkipShard \/ LastPage \/ WriteRow \/ FlushShard \/ MarkDone
  PROVE  TypeOK'
<1>1. /\ TypeOK
      /\ agenda # <<>> => Head(agenda) \in Shard /\ Tail(agenda) \in Seq(Shard)
      /\ buffer # <<>> => Head(buffer) \in All /\ Tail(buffer) \in Seq(All)
  BY HeadOrTail DEF Typed, TypeOK
<1>2. CASE SkipShard \/ LastPage \/ FlushShard
  <2>1. CASE SkipShard
    BY <1>1, <2>1 DEF SkipShard, GoOn, TypeOK, Phases, disk, walk, pager, finder, bounds, flags
  <2>2. CASE LastPage
    BY <1>1, <2>2 DEF LastPage, GoOn, TypeOK, Phases, disk, walk, pager, finder, bounds, flags
  <2>3. CASE FlushShard
    BY <1>1, <2>3 DEF FlushShard, GoOn, TypeOK, Phases, disk, walk, pager, finder, bounds, flags
  <2> QED
    BY <1>2, <2>1, <2>2, <2>3
<1>3. CASE WriteRow
  <2>1. Append(out, Head(buffer)) \in Seq(All)
    BY <1>1, <1>3, AppendProperties DEF WriteRow, TypeOK
  <2>2. buffer' \in Seq(All) /\ out' \in Seq(All) /\ seenIDs' \subseteq All /\ written' \in Nat
    <3>1. CASE Head(buffer) \in seenIDs
      BY <1>1, <1>3, <3>1 DEF WriteRow, TypeOK
    <3>2. CASE Head(buffer) \notin seenIDs
      <4>1. /\ out' = Append(out, Head(buffer)) /\ seenIDs' = seenIDs \cup {Head(buffer)}
            /\ written' = written + 1 /\ buffer' = Tail(buffer) /\ buffer # <<>>
        BY <1>3, <3>2 DEF WriteRow
      <4>2. written \in Nat /\ seenIDs \subseteq All
        BY <1>1 DEF TypeOK
      <4> QED
        BY <1>1, <2>1, <4>1, <4>2
    <3> QED
      BY <3>1, <3>2
  <2> QED
    BY <1>1, <1>3, <2>2 DEF WriteRow, GoOn, TypeOK, Phases, bounds, finder, flags
<1>4. CASE MarkDone
  <2>1. agenda # <<>>
    BY <1>4 DEF Typed, OnShard, MarkDone
  <2> QED
    BY <1>1, <1>4, <2>1, SizeAssumption DEF MarkDone, GoOn, Ends, Happens, TypeOK, Phases,
       pager, finder, flags
<1> QED
  BY <1>2, <1>3, <1>4

LEMMA PageTyped ==
  ASSUME Typed, FirstPage \/ NextPage
  PROVE  TypeOK'
<1>1. TypeOK /\ agenda # <<>> /\ Head(agenda) \in Shard /\ Total(Head(agenda)) \in Nat
  <2>1. TypeOK /\ agenda # <<>>
    BY DEF Typed, OnShard, FirstPage, NextPage, GoOn
  <2>2. Head(agenda) \in Shard
    BY <2>1, HeadOrTail DEF TypeOK
  <2> QED
    BY <2>1, <2>2, MatchesTyped
<1>2. CASE FirstPage
  <2>1. \A data \in PagesOf(Head(agenda), 0) : data \in Seq(All)
    <3>1. 0 * PageSize <= Total(Head(agenda))
      BY <1>1, SizeAssumption
    <3> QED
      BY <1>1, <3>1, DataMatches
  <2>2. /\ phase' \in Phases /\ exit' = exit
        /\ page' \in Nat /\ full' \in BOOLEAN /\ buffer' \in Seq(All)
    <3>1. CASE UNCHANGED pager
      BY <1>1, <1>2, <3>1 DEF FirstPage, GoOn, TypeOK, Phases, pager
    <3>2. CASE ~UNCHANGED pager
      <4>1. PICK data \in PagesOf(Head(agenda), 0) :
              /\ buffer' = data /\ full' = (Len(data) = PageSize) /\ page' = 1
              /\ phase' = "page" /\ exit' = exit
        BY <1>2, <3>2 DEF FirstPage, GoOn
      <4>2. full' \in BOOLEAN
        BY <4>1
      <4> QED
        BY <2>1, <4>1, <4>2 DEF Phases
    <3> QED
      BY <3>1, <3>2
  <2> QED
    BY <1>1, <1>2, <2>2 DEF FirstPage, TypeOK, disk, walk, finder, bounds, flags
<1>3. CASE NextPage
  <2>1. \A data \in PagesOf(Head(agenda), page) : data \in Seq(All)
    <3>1. page \in Nat /\ page * PageSize <= Total(Head(agenda))
      BY <1>1, <1>3, SizeAssumption DEF NextPage, MorePages, TypeOK
    <3> QED
      BY <1>1, <3>1, DataMatches
  <2> QED
    BY <1>1, <1>3, <2>1 DEF NextPage, GoOn, TypeOK, Phases, disk, walk, finder, bounds, flags
<1> QED
  BY <1>2, <1>3

LEMMA SplitTyped ==
  ASSUME Typed, Split \/ UseCache \/ CacheSaved
  PROVE  TypeOK'
<1>1. TypeOK /\ agenda # <<>> /\ Head(agenda) \in Shard /\ Tail(agenda) \in Seq(Shard)
  <2>1. TypeOK /\ agenda # <<>>
    BY DEF Typed, OnShard, Split, UseCache, CacheSaved, GoOn
  <2> QED
    BY <2>1, HeadOrTail DEF TypeOK
<1>2. \A children \in Seq(Shard) : Descend(children) => agenda' \in Seq(Shard)
  BY <1>1 DEF Descend
<1>3. CASE Split
  <2>1. agenda' \in Seq(Shard) /\ phase' \in Phases /\ exit' = exit
    BY <1>1, <1>2, <1>3, ChildrenTyped DEF Split, GoOn, Phases, TypeOK
  <2> QED
    BY <1>1, <1>3, <2>1 DEF Split, TypeOK, disk, pager, finder, bounds, flags
<1>4. CASE UseCache \/ CacheSaved
  <2>1. Discovered \in Seq(KabNames) /\ cache \in Seq(KabNames)
    BY <1>1, DiscoveredTyped DEF TypeOK
  <2>2. agenda' \in Seq(Shard) /\ phase' \in Phases /\ exit' = exit
    BY <1>1, <1>2, <1>4, <2>1, ChildrenTyped DEF UseCache, CacheSaved, GoOn, Phases
  <2> QED
    BY <1>1, <1>4, <2>2 DEF UseCache, CacheSaved, TypeOK, disk, pager, finder, bounds, flags
<1> QED
  BY <1>3, <1>4

LEMMA DiscoveryTyped ==
  ASSUME TypeOK, StartDiscovery \/ ScanCategory \/ CreateCache \/ SaveKabupaten
  PROVE  TypeOK'
<1> DEFINE Scans == ToSet(Categories) \cup {NoFilter}
<1>1. CASE StartDiscovery
  <2>1. Categories \in Seq(Scans) /\ <<NoFilter>> \in Seq(Scans)
    BY IndexAssumption
  <2>2. <<NoFilter>> \o Categories \in Seq(Scans)
    BY <2>1
  <2> QED
    BY <1>1, <2>2 DEF StartDiscovery, GoOn, TypeOK, Phases, disk, walk, pager, bounds, flags
<1>2. CASE ScanCategory
  <2>1. Head(scans) \in Scans /\ Tail(scans) \in Seq(Scans)
    BY <1>2, HeadOrTail DEF ScanCategory, TypeOK
  <2>2. {Kab[s] : s \in Reached(Head(scans))} \ {NoKab} \subseteq KabNames
    BY <2>1, ReachedTyped
  <2> QED
    BY <1>2, <2>1, <2>2 DEF ScanCategory, GoOn, TypeOK, Phases, disk, walk, pager, bounds, flags
<1>3. CASE CreateCache
  BY <1>3 DEF CreateCache, GoOn, TypeOK, Phases, walk, pager, finder, bounds, flags
<1>4. CASE SaveKabupaten
  <2>1. cache \in Seq(KabNames) /\ Discovered \in Seq(KabNames)
    BY DiscoveredTyped, TypeOK DEF TypeOK
  <2>2. Len(cache) + 1 \in 1..Len(Discovered)
    BY <1>4, <2>1, LenProperties DEF SaveKabupaten
  <2>3. Append(cache, Discovered[Len(cache) + 1]) \in Seq(KabNames)
    BY <2>1, <2>2, ElementOfSeq, AppendProperties
  <2> QED
    BY <1>4, <2>3 DEF SaveKabupaten, GoOn, TypeOK, Phases, walk, pager, finder, bounds, flags
<1> QED
  BY <1>1, <1>2, <1>3, <1>4

(* Nothing is in hand at first. *)
LEMMA TypedInit == Init => Typed
BY InitTyped DEF Init, Typed, OnShard

(* Every step keeps the types, and a shard in hand until it is done with. *)
LEMMA TypedStep == Typed /\ [Next]_vars => Typed'
<1> SUFFICES ASSUME Typed, [Next]_vars
             PROVE  TypeOK' /\ OnShard'
  BY DEF Typed
<1>1. CASE (\E r \in RestartFlags : Launch(r)) \/ Kill \/ RemoveShards \/ RemoveOut
  BY <1>1, RestartTyped DEF Typed, Launch, Kill, RemoveShards, RemoveOut, GoOn, Ends, OnShard
<1>2. CASE LoadShardsDone \/ OpenOut \/ WriteHeader \/ StartCrawl
  BY <1>2, SetupTyped DEF Typed, LoadShardsDone, OpenOut, WriteHeader, StartCrawl, GoOn, OnShard
<1>3. CASE WriteFails \/ SaveFails \/ FinishCrawl \/ VerifyCoverage \/ VerifyFails \/ Fails
  BY <1>3, EndTyped DEF Typed, WriteFails, SaveFails, FinishCrawl, VerifyCoverage, VerifyFails,
     Fails, GoOn, Ends, OnShard
<1>4. CASE SkipShard \/ LastPage \/ WriteRow \/ FlushShard \/ MarkDone
  BY <1>4, WalkTyped DEF Typed, SkipShard, LastPage, WriteRow, FlushShard, MarkDone, GoOn, Ends,
     OnShard, walk
<1>5. CASE FirstPage \/ NextPage
  BY <1>5, PageTyped DEF Typed, FirstPage, NextPage, GoOn, OnShard, walk
<1>6. CASE Split \/ UseCache \/ CacheSaved
  BY <1>6, SplitTyped DEF Typed, Split, UseCache, CacheSaved, GoOn, OnShard
<1>7. CASE StartDiscovery \/ ScanCategory \/ CreateCache \/ SaveKabupaten
  BY <1>7, DiscoveryTyped DEF Typed, StartDiscovery, ScanCategory, CreateCache, SaveKabupaten,
     GoOn, OnShard, walk
<1>8. CASE UNCHANGED vars
  BY <1>8 DEF vars, disk, flags, walk, pager, finder, bounds, Typed, TypeOK, OnShard
<1> QED
  BY <1>1, <1>2, <1>3, <1>4, <1>5, <1>6, <1>7, <1>8 DEF Next, RunList, Setup, Crawl

(* The variables of RunList (list.go:89-158) keep their types, whatever     *)
(* order the server pages in: the agenda holds shards only, and the buffer, *)
(* the output and the cache what the index has.                             *)
THEOREM TypeCorrect == Spec => []TypeOK
<1>1. Typed => TypeOK
  BY DEF Typed
<1> QED
  BY <1>1, TypedInit, TypedStep, PTL DEF Spec

-----------------------------------------------------------------------------
(* The invariant of a stable paging order. *)

Covered(sh, rows) == ~Oversize(sh) => ToSet(Matches(sh)) \subseteq rows

(* What the process takes for done is done, as what the checkpoint does,    *)
(* unless a removal of -restart has failed.                                 *)
LoggedComplete == ~halfGone => \A sh \in shardLog \cup doneShards : Covered(sh, ToSet(out))

SeenListed == seenIDs \subseteq ToSet(out)

(* A process that may remove the output remembers nothing yet. *)
Starting ==
  /\ phase \in {"rmShards", "rmOut", "load"} => doneShards = {} /\ seenIDs = {}
  /\ phase = "rmOut" /\ ~halfGone => shardLog = {}

(* The pages fetched are the first rows of the shard; a full last page lies *)
(* within it.                                                               *)
PagesInHand ==
  phase = "page" =>
    LET m == Matches(Head(agenda))
    IN  /\ page \in Nat \ {0}
        /\ Len(buffer) = IF page * PageSize <= Len(m) THEN page * PageSize ELSE Len(m)
        /\ \A i \in 1..Len(buffer) : buffer[i] = m[i]
        /\ full <=> page * PageSize <= Len(m)

(* Before its key is logged a shard has lost no row. *)
RowsInHand ==
  /\ phase = "rows" => ToSet(Matches(Head(agenda))) \subseteq seenIDs \cup ToSet(buffer)
  /\ phase = "split" => Oversize(Head(agenda))
  /\ phase = "mark" => Covered(Head(agenda), ToSet(out))

Files  == LoggedComplete /\ SeenListed /\ Starting
Hands  == OnShard /\ PagesInHand /\ RowsInHand
DInv   == Steady /\ TypeOK /\ Files /\ Hands

-----------------------------------------------------------------------------
(* The files and what the process knows of them. *)

(* A query asks for the same schools as long as the filters stay. *)
LEMMA SameQueries ==
  ASSUME base' = base
  PROVE  \A sh, rows : /\ Matches(sh)' = Matches(sh)
                       /\ Oversize(sh)' <=> Oversize(sh)
                       /\ Covered(sh, rows)' <=> Covered(sh, rows)
BY DEF Matches, Query, Total, Oversize, Covered

(* A step that leaves the rows, the keys and the memory of both alone. *)
LEMMA FilesStay ==
  ASSUME DInv, UNCHANGED <<base, halfGone, out, shardLog, doneShards, seenIDs>>,
         phase' \notin {"rmShards", "rmOut", "load"}
  PROVE  Files'
<1>1. LoggedComplete'
  BY SameQueries DEF DInv, Files, LoggedComplete
<1>2. SeenListed' /\ Starting'
  BY DEF DInv, Files, SeenListed, Starting
<1> QED
  BY <1>1, <1>2 DEF Files

(* A launch, and a kill: what the process knew is gone. *)
LEMMA ForgetKeepsFiles ==
  ASSUME DInv, (\E r \in RestartFlags : Launch(r)) \/ Kill
  PROVE  Files'
<1>1. /\ UNCHANGED <<base, halfGone, out, shardLog>> /\ doneShards' = {} /\ seenIDs' = {}
      /\ phase' # "rmOut"
  BY DEF Launch, Kill, Ends, FreshMemory, disk, flags
<1>2. LoggedComplete'
  <2>1. \A sh \in shardLog' \cup doneShards' : sh \in shardLog \cup doneShards
    BY <1>1
  <2> QED
    BY <1>1, <2>1, SameQueries DEF DInv, Files, LoggedComplete
<1> QED
  BY <1>1, <1>2 DEF Files, SeenListed, Starting

LEMMA RestartKeepsFiles ==
  ASSUME DInv, RemoveShards \/ RemoveOut
  PROVE  Files'
<1>1. CASE RemoveShards
  <2>1. /\ UNCHANGED <<base, out, doneShards, seenIDs>> /\ doneShards = {} /\ seenIDs = {}
        /\ ~halfGone' => shardLog' = {}
        /\ phase' = "rmOut"
    BY <1>1 DEF RemoveShards, GoOn, DInv, Files, Starting, walk
  <2> QED
    BY <2>1 DEF Files, LoggedComplete, SeenListed, Starting
<1>2. CASE RemoveOut
  <2>1. /\ UNCHANGED <<base, shardLog, doneShards, seenIDs>> /\ doneShards = {} /\ seenIDs = {}
        /\ ~halfGone' => ~halfGone
        /\ phase = "rmOut" /\ phase' = "load"
    BY <1>2 DEF RemoveOut, GoOn, DInv, Files, Starting, walk
  <2>2. ~halfGone' => shardLog' = {}
    BY <2>1 DEF DInv, Files, Starting
  <2> QED
    BY <2>1, <2>2 DEF Files, LoggedComplete, SeenListed, Starting
<1> QED
  BY <1>1, <1>2

(* The checkpoint is read. *)
LEMMA LoadKeepsFiles ==
  ASSUME DInv, LoadShardsDone
  PROVE  Files'
<1>1. /\ UNCHANGED <<base, halfGone, out, shardLog, seenIDs>> /\ doneShards' = shardLog
      /\ phase' = "open"
  BY DEF LoadShardsDone, GoOn, disk, flags
<1>2. LoggedComplete'
  BY <1>1, SameQueries DEF DInv, Files, LoggedComplete
<1> QED
  BY <1>1, <1>2 DEF DInv, Files, SeenListed, Starting

(* A row is only added. *)
LEMMA RowKeepsFiles ==
  ASSUME DInv, WriteRow
  PROVE  Files' /\ ToSet(out) \subseteq ToSet(out') /\ seenIDs' = seenIDs \cup {Head(buffer)}
<1>1. out \in Seq(All) /\ Head(buffer) \in All /\ seenIDs \subseteq ToSet(out)
  BY HeadOrTail DEF DInv, TypeOK, WriteRow, Files, SeenListed
<1>2. /\ UNCHANGED <<base, halfGone, shardLog, doneShards>> /\ phase' = "rows"
      /\ IF Head(buffer) \in seenIDs THEN UNCHANGED <<out, seenIDs>>
         ELSE out' = Append(out, Head(buffer)) /\ seenIDs' = seenIDs \cup {Head(buffer)}
  BY DEF WriteRow, GoOn, flags
<1>3. /\ ToSet(out) \subseteq ToSet(out') /\ seenIDs' = seenIDs \cup {Head(buffer)}
      /\ seenIDs' \subseteq ToSet(out')
  <2>1. CASE Head(buffer) \in seenIDs
    BY <1>1, <1>2, <2>1
  <2>2. CASE Head(buffer) \notin seenIDs
    <3>1. ToSet(Append(out, Head(buffer))) = ToSet(out) \cup {Head(buffer)}
      BY <1>1, AppendToSet
    <3>2. out' = Append(out, Head(buffer)) /\ seenIDs' = seenIDs \cup {Head(buffer)}
      BY <1>2, <2>2
    <3> QED
      BY <1>1, <3>1, <3>2
  <2> QED
    BY <2>1, <2>2
<1>4. LoggedComplete'
  <2>1. SUFFICES ASSUME ~halfGone', NEW sh \in shardLog' \cup doneShards'
                 PROVE  Covered(sh, ToSet(out))'
    BY DEF LoggedComplete
  <2>2. Covered(sh, ToSet(out))
    BY <1>2, <2>1 DEF DInv, Files, LoggedComplete
  <2>3. Matches(sh)' = Matches(sh) /\ (Oversize(sh)' <=> Oversize(sh))
    BY <1>2, SameQueries
  <2> QED
    BY <1>3, <2>2, <2>3 DEF Covered
<1> QED
  BY <1>2, <1>3, <1>4 DEF Files, SeenListed, Starting

(* A key is logged when the rows of its shard are out. *)
LEMMA MarkKeepsFiles ==
  ASSUME DInv, MarkDone
  PROVE  Files'
<1>1. /\ UNCHANGED <<base, halfGone, out, seenIDs>> /\ doneShards' = doneShards \cup {Head(agenda)}
      /\ shardLog' \subseteq shardLog \cup {Head(agenda)}
      /\ phase' \in {"down", "crawl"}
  BY DEF MarkDone, GoOn, Ends, flags
<1>2. Covered(Head(agenda), ToSet(out))
  BY DEF DInv, Hands, RowsInHand, MarkDone
<1>3. LoggedComplete'
  <2>1. SUFFICES ASSUME ~halfGone', NEW sh \in shardLog' \cup doneShards'
                 PROVE  Covered(sh, ToSet(out))'
    BY DEF LoggedComplete
  <2>2. Covered(sh, ToSet(out))
    BY <1>1, <1>2, <2>1 DEF DInv, Files, LoggedComplete
  <2>3. Matches(sh)' = Matches(sh) /\ (Oversize(sh)' <=> Oversize(sh))
    BY <1>1, SameQueries
  <2> QED
    BY <1>1, <2>2, <2>3 DEF Covered
<1> QED
  BY <1>1, <1>3 DEF DInv, Files, SeenListed, Starting

-----------------------------------------------------------------------------
(* The shard in hand. *)

OffShard == {"down", "rmShards", "rmOut", "load", "open", "header", "start", "crawl", "verify"}

LEMMA NoShard == phase' \in OffShard => Hands'
BY DEF OffShard, Hands, OnShard, PagesInHand, RowsInHand

LEMMA CurrentShard ==
  ASSUME DInv, agenda # <<>>
  PROVE  /\ Head(agenda) \in Shard /\ Matches(Head(agenda)) \in Seq(All)
         /\ Total(Head(agenda)) = Len(Matches(Head(agenda)))
         /\ Len(Matches(Head(agenda))) \in Nat
<1>1. TypeOK /\ Head(agenda) \in Shard
  BY HeadOrTail DEF DInv, TypeOK
<1> QED
  BY <1>1, MatchesTyped, LenProperties DEF Total

(* The first page, of which the total is read. *)
LEMMA FirstPageHands ==
  ASSUME DInv, FirstPage
  PROVE  Hands'
<1> DEFINE m == Matches(Head(agenda))
<1>1. /\ agenda # <<>> /\ UNCHANGED <<agenda, base, out>>
      /\ TypeOK /\ Steady
  BY DEF FirstPage, walk, disk, flags, DInv
<1>2. /\ m \in Seq(All) /\ Total(Head(agenda)) = Len(m) /\ Len(m) \in Nat
      /\ Head(agenda) \in Shard
  BY <1>1, CurrentShard
<1>3. /\ Matches(Head(agenda))' = m
      /\ Oversize(Head(agenda))' <=> Oversize(Head(agenda))
  BY <1>1 DEF Matches, Query, Total, Oversize
<1>4. CASE Total(Head(agenda)) = 0 /\ GoOn("crawl", "mark")
  <2>1. m = <<>> /\ phase' = "mark"
    BY <1>2, <1>4, EmptySeq DEF GoOn
  <2>2. ToSet(m) = {}
    BY <2>1 DEF ToSet
  <2> QED
    BY <1>1, <1>3, <2>1, <2>2 DEF Hands, OnShard, PagesInHand, RowsInHand, Covered
<1>5. CASE Oversize(Head(agenda)) /\ GoOn("crawl", "split")
  BY <1>1, <1>3, <1>5 DEF Hands, OnShard, PagesInHand, RowsInHand, GoOn
<1>6. CASE /\ GoOn("crawl", "page") /\ page' = 1
           /\ \E data \in PagesOf(Head(agenda), 0) : buffer' = data /\ full' = (Len(data) = PageSize)
  <2>1. PICK data \in PagesOf(Head(agenda), 0) : buffer' = data /\ full' = (Len(data) = PageSize)
    BY <1>6
  <2>2. /\ 0 * PageSize = 0 /\ (0 + 1) * PageSize = PageSize /\ 1 * PageSize = PageSize
        /\ PageSize \in Nat \ {0}
    BY SizeAssumption
  <2>3. /\ Len(data) = (IF PageSize <= Len(m) THEN PageSize ELSE Len(m))
        /\ \A i \in 1..Len(data) : data[i] = m[i]
    <3>1. 0 * PageSize <= Total(Head(agenda))
      BY <1>2, <2>2
    <3>2. /\ Len(data) = (IF (0 + 1) * PageSize <= Len(m) THEN (0 + 1) * PageSize ELSE Len(m))
                         - 0 * PageSize
          /\ \A i \in 1..Len(data) : data[i] = m[0 * PageSize + i]
      BY <1>1, <1>2, <3>1, PageFacts
    <3> QED
      <4>1. PICK z \in Nat, e \in Nat, n \in Nat :
              /\ z = 0 * PageSize /\ z = 0 /\ e = (0 + 1) * PageSize /\ e = PageSize /\ n = Len(m)
        BY <1>2, <2>2
      <4>2. /\ Len(data) = (IF e <= n THEN e ELSE n) - z
            /\ \A i \in 1..Len(data) : data[i] = m[z + i]
        BY <3>2, <4>1
      <4>3. Len(data) \in Nat /\ Len(data) = IF e <= n THEN e ELSE n
        BY <4>1, <4>2
      <4>4. \A i \in 1..Len(data) : z + i = i
        BY <4>1, <4>3
      <4> QED
        BY <4>1, <4>2, <4>3, <4>4
  <2>4. full' <=> PageSize <= Len(m)
    <3>1. full' <=> Len(data) = PageSize
      BY <2>1, Zenon
    <3>2. Len(data) = PageSize <=> PageSize <= Len(m)
      BY <1>2, <2>2, <2>3
    <3> QED
      BY <3>1, <3>2
  <2>5. phase' = "page" /\ page' = 1 /\ agenda' = agenda
    BY <1>1, <1>6 DEF GoOn
  <2>6. PagesInHand'
    BY <1>3, <2>1, <2>2, <2>3, <2>4, <2>5 DEF PagesInHand
  <2> QED
    BY <1>1, <2>5, <2>6 DEF Hands, OnShard, RowsInHand
<1> QED
  BY <1>4, <1>5, <1>6 DEF FirstPage

(* The next page continues the rows in hand. *)
LEMMA NextPageHands ==
  ASSUME DInv, NextPage
  PROVE  Hands'
<1> DEFINE m == Matches(Head(agenda))
<1>1. /\ agenda # <<>> /\ UNCHANGED <<agenda, base>> /\ phase = "page" /\ phase' = "page"
      /\ TypeOK /\ Steady /\ page' = page + 1
  BY DEF NextPage, GoOn, walk, flags, DInv, Hands, OnShard
<1>2. /\ m \in Seq(All) /\ Total(Head(agenda)) = Len(m) /\ Len(m) \in Nat
      /\ Head(agenda) \in Shard
  BY <1>1, CurrentShard
<1>3. Matches(Head(agenda))' = m
  BY <1>1 DEF Matches, Query
<1>4. PICK data \in PagesOf(Head(agenda), page) :
        buffer' = buffer \o data /\ full' = (Len(data) = PageSize)
  BY DEF NextPage
<1>5. PICK a \in Nat, b \in Nat, n \in Nat :
        /\ a = page * PageSize /\ b = (page + 1) * PageSize /\ b = a + PageSize
        /\ n = Len(m) /\ a < n /\ PageSize \in Nat \ {0} /\ page \in Nat \ {0}
  <2>1. page \in Nat \ {0} /\ page * PageSize < Len(m)
    BY <1>1, <1>2 DEF NextPage, MorePages, DInv, Hands, PagesInHand
  <2>2. /\ (page + 1) * PageSize = page * PageSize + PageSize /\ page * PageSize \in Nat
        /\ PageSize \in Nat \ {0}
    BY <2>1, SizeAssumption
  <2>3. PICK a \in Nat, n \in Nat : a = page * PageSize /\ n = Len(m)
    BY <1>2, <2>2
  <2>4. PICK b \in Nat : b = a + PageSize
    BY <2>2
  <2>5. b = (page + 1) * PageSize /\ a < n
    BY <2>1, <2>2, <2>3, <2>4
  <2> QED
    BY <2>1, <2>2, <2>3, <2>4, <2>5
<1>6. /\ data \in Seq(All) /\ Len(data) = (IF b <= n THEN b ELSE n) - a
      /\ \A i \in 1..Len(data) : data[i] = m[a + i]
  <2>1. page \in Nat /\ page * PageSize <= Total(Head(agenda))
    BY <1>2, <1>5
  <2>2. /\ data \in Seq(All)
        /\ Len(data) = (IF (page + 1) * PageSize <= Len(m) THEN (page + 1) * PageSize
                        ELSE Len(m)) - page * PageSize
        /\ \A i \in 1..Len(data) : data[i] = m[page * PageSize + i]
    BY <1>1, <1>2, <2>1, PageFacts
  <2> QED
    BY <1>5, <2>2
<1>7. /\ buffer \in Seq(All) /\ Len(buffer) = a
      /\ \A i \in 1..a : buffer[i] = m[i]
  BY <1>1, <1>5 DEF DInv, TypeOK, Hands, PagesInHand
<1>8. /\ Len(buffer') = (IF b <= n THEN b ELSE n)
      /\ \A i \in 1..Len(buffer') : buffer'[i] = m[i]
  <2>1. /\ Len(buffer \o data) = Len(buffer) + Len(data)
        /\ \A i \in 1..Len(buffer) + Len(data) :
             (buffer \o data)[i] = IF i <= Len(buffer) THEN buffer[i] ELSE data[i - Len(buffer)]
    BY <1>6, <1>7, ConcatProperties
  <2>2. Len(data) \in Nat /\ Len(buffer) + Len(data) = (IF b <= n THEN b ELSE n)
    BY <1>5, <1>6, <1>7
  <2>3. ASSUME NEW i \in 1..Len(buffer) + Len(data)
        PROVE  (buffer \o data)[i] = m[i]
    <3>1. CASE i <= a
      BY <1>7, <2>1, <2>3, <3>1
    <3>2. CASE i > a
      <4>1. i - a \in 1..Len(data) /\ a + (i - a) = i
        BY <1>5, <1>7, <2>2, <3>2
      <4> QED
        BY <1>5, <1>6, <1>7, <2>1, <3>2, <4>1
    <3> QED
      BY <1>5, <3>1, <3>2
  <2> QED
    BY <1>4, <2>1, <2>2, <2>3
<1>9. full' <=> b <= n
  <2>1. full' <=> Len(data) = PageSize
    BY <1>4, Zenon
  <2>2. Len(data) = PageSize <=> b <= n
    BY <1>5, <1>6
  <2> QED
    BY <2>1, <2>2
<1>10. PagesInHand'
  BY <1>1, <1>3, <1>5, <1>8, <1>9 DEF PagesInHand
<1> QED
  BY <1>1, <1>10 DEF Hands, OnShard, RowsInHand

(* After the last page the rows in hand are those of the shard. *)
LEMMA LastPageHands ==
  ASSUME DInv, LastPage
  PROVE  Hands'
<1> DEFINE m == Matches(Head(agenda))
<1>1. /\ agenda # <<>> /\ UNCHANGED <<agenda, base, buffer, seenIDs>> /\ phase = "page"
      /\ phase' = "rows"
  BY DEF LastPage, GoOn, walk, flags, pager, DInv, Hands, OnShard
<1>2. /\ m \in Seq(All) /\ Total(Head(agenda)) = Len(m) /\ Len(m) \in Nat
      /\ DOMAIN m = 1..Len(m) /\ DOMAIN buffer = 1..Len(buffer)
  BY <1>1, CurrentShard, LenProperties DEF DInv, TypeOK
<1>3. Len(buffer) = Len(m) /\ \A i \in 1..Len(buffer) : buffer[i] = m[i]
  <2>1. /\ page \in Nat \ {0}
        /\ Len(buffer) = IF page * PageSize <= Len(m) THEN page * PageSize ELSE Len(m)
        /\ \A i \in 1..Len(buffer) : buffer[i] = m[i]
        /\ full <=> page * PageSize <= Len(m)
    BY <1>1 DEF DInv, Hands, PagesInHand
  <2>2. ~(page * PageSize < Len(m) /\ full)
    BY <1>2 DEF LastPage, MorePages
  <2>3. page * PageSize \in Nat
    BY <2>1, SizeAssumption
  <2> QED
    BY <1>2, <2>1, <2>2, <2>3
<1>4. ToSet(m) \subseteq ToSet(buffer)
  BY <1>2, <1>3 DEF ToSet
<1>5. Matches(Head(agenda))' = m
  BY <1>1 DEF Matches, Query
<1> QED
  BY <1>1, <1>4, <1>5 DEF Hands, OnShard, PagesInHand, RowsInHand

(* A row that leaves the hands is one that was seen. *)
LEMMA RowHands ==
  ASSUME DInv, WriteRow
  PROVE  Hands'
<1>1. /\ agenda # <<>> /\ UNCHANGED <<agenda, base>> /\ phase = "rows" /\ phase' = "rows"
      /\ buffer # <<>> /\ buffer' = Tail(buffer)
  BY DEF WriteRow, GoOn, flags, DInv, Hands, OnShard
<1>2. ToSet(buffer) \subseteq {Head(buffer)} \cup ToSet(buffer')
  BY <1>1, HeadOrTail DEF DInv, TypeOK
<1>3. seenIDs' = seenIDs \cup {Head(buffer)}
  BY RowKeepsFiles
<1>4. ToSet(Matches(Head(agenda))) \subseteq seenIDs \cup ToSet(buffer)
  BY <1>1 DEF DInv, Hands, RowsInHand
<1>5. Matches(Head(agenda))' = Matches(Head(agenda))
  BY <1>1 DEF Matches, Query
<1> QED
  BY <1>1, <1>2, <1>3, <1>4, <1>5 DEF Hands, OnShard, PagesInHand, RowsInHand

(* With none left in hand the shard is complete. *)
LEMMA FlushHands ==
  ASSUME DInv, FlushShard
  PROVE  Hands'
<1>1. /\ agenda # <<>> /\ UNCHANGED <<agenda, base, out>> /\ phase = "rows" /\ phase' = "mark"
  BY DEF FlushShard, GoOn, walk, disk, flags, DInv, Hands, OnShard
<1>2. buffer = <<>>
  BY DEF FlushShard
<1>3. ToSet(Matches(Head(agenda))) \subseteq ToSet(out)
  <2>1. ToSet(buffer) = {}
    BY <1>2 DEF ToSet
  <2> QED
    BY <1>1, <2>1 DEF DInv, Files, SeenListed, Hands, RowsInHand
<1>4. Matches(Head(agenda))' = Matches(Head(agenda))
  BY <1>1 DEF Matches, Query
<1> QED
  BY <1>1, <1>3, <1>4 DEF Hands, OnShard, PagesInHand, RowsInHand, Covered

(* A shard that cannot be split any further is too large to be missed. *)
LEMMA SplitHands ==
  ASSUME DInv, Split
  PROVE  Hands'
<1>1. /\ agenda # <<>> /\ UNCHANGED <<base, out>> /\ Oversize(Head(agenda))
      /\ phase' \in {"cache", "crawl", "mark"}
      /\ phase' # "crawl" => agenda' = agenda
  BY DEF Split, GoOn, disk, flags, DInv, Hands, OnShard, RowsInHand
<1>2. CASE phase' = "crawl"
  BY <1>2, NoShard DEF OffShard
<1>3. CASE phase' # "crawl"
  <2>1. Oversize(Head(agenda))' <=> Oversize(Head(agenda))
    BY <1>1, <1>3 DEF Oversize, Total, Matches, Query
  <2> QED
    BY <1>1, <1>3, <2>1 DEF Hands, OnShard, PagesInHand, RowsInHand, Covered
<1> QED
  BY <1>2, <1>3

LEMMA DiscoveryHands ==
  ASSUME DInv, StartDiscovery \/ ScanCategory \/ CreateCache \/ SaveKabupaten
  PROVE  Hands'
BY DEF StartDiscovery, ScanCategory, CreateCache, SaveKabupaten, GoOn, walk,
   DInv, Hands, OnShard, PagesInHand, RowsInHand

-----------------------------------------------------------------------------
(* All steps. *)

(* These neither touch the files the invariant is about nor hold a shard.   *)
LEMMA QuietStep ==
  ASSUME DInv, \/ OpenOut \/ WriteHeader \/ StartCrawl \/ SkipShard \/ WriteFails
               \/ UseCache \/ SaveFails \/ CacheSaved
               \/ FinishCrawl \/ VerifyCoverage \/ VerifyFails \/ Fails
  PROVE  Files' /\ Hands'
<1>1. /\ UNCHANGED <<base, halfGone, out, shardLog, doneShards, seenIDs>>
      /\ phase' \in OffShard \ {"rmShards", "rmOut", "load"}
  BY DEF OpenOut, WriteHeader, StartCrawl, SkipShard, WriteFails, UseCache, SaveFails,
     CacheSaved, FinishCrawl, VerifyCoverage, VerifyFails, Fails, GoOn, Ends, OffShard,
     disk, walk, flags
<1> QED
  BY <1>1, FilesStay, NoShard

LEMMA DInvInit == Steady /\ Init => DInv
<1> SUFFICES ASSUME Steady, Init
             PROVE  DInv
  OBVIOUS
<1>1. TypeOK
  BY InitTyped
<1>2. Files /\ Hands
  BY DEF Init, Files, LoggedComplete, SeenListed, Starting, Hands, OnShard, PagesInHand, RowsInHand
<1> QED
  BY <1>1, <1>2 DEF DInv

LEMMA DInvStep == DInv /\ [Next]_vars => DInv'
<1> SUFFICES ASSUME DInv, [Next]_vars
             PROVE  Files' /\ Hands'
  BY TypedStep DEF Typed, DInv, Hands
<1>1. CASE (\E r \in RestartFlags : Launch(r)) \/ Kill
  <2>1. phase' \in OffShard
    BY <1>1 DEF Launch, Kill, Ends, OffShard
  <2> QED
    BY <1>1, <2>1, ForgetKeepsFiles, NoShard
<1>2. CASE RemoveShards \/ RemoveOut
  <2>1. phase' \in OffShard
    BY <1>2 DEF RemoveShards, RemoveOut, GoOn, OffShard
  <2> QED
    BY <1>2, <2>1, RestartKeepsFiles, NoShard
<1>3. CASE LoadShardsDone
  <2>1. phase' \in OffShard
    BY <1>3 DEF LoadShardsDone, GoOn, OffShard
  <2> QED
    BY <1>3, <2>1, LoadKeepsFiles, NoShard
<1>4. CASE OpenOut \/ WriteHeader \/ StartCrawl
  BY <1>4, QuietStep
<1>5. CASE WriteFails \/ SaveFails \/ FinishCrawl \/ VerifyCoverage \/ VerifyFails \/ Fails
  BY <1>5, QuietStep
<1>6. CASE SkipShard
  BY <1>6, QuietStep
<1>7. CASE UseCache \/ CacheSaved
  BY <1>7, QuietStep
<1>8. CASE WriteRow
  BY <1>8, RowKeepsFiles, RowHands
<1>9. CASE MarkDone
  <2>1. phase' \in OffShard
    BY <1>9 DEF MarkDone, GoOn, Ends, OffShard
  <2> QED
    BY <1>9, <2>1, MarkKeepsFiles, NoShard
<1>10. CASE FirstPage \/ NextPage \/ LastPage \/ FlushShard \/ Split
            \/ StartDiscovery \/ ScanCategory \/ CreateCache \/ SaveKabupaten
  <2>1. /\ UNCHANGED <<base, halfGone, out, shardLog, doneShards, seenIDs>>
        /\ phase' \notin {"rmShards", "rmOut", "load"}
    BY <1>10 DEF FirstPage, NextPage, LastPage, FlushShard, Split, StartDiscovery, ScanCategory,
       CreateCache, SaveKabupaten, GoOn, disk, walk, flags
  <2>2. Files'
    BY <2>1, FilesStay
  <2>3. Hands'
    BY <1>10, FirstPageHands, NextPageHands, LastPageHands, FlushHands, SplitHands, DiscoveryHands
  <2> QED
    BY <2>2, <2>3
<1>11. CASE UNCHANGED vars
  <2>1. UNCHANGED <<base, halfGone, out, shardLog, doneShards, seenIDs, phase, agenda, page,
                    full, buffer>>
    BY <1>11 DEF vars, disk, flags, walk, pager
  <2>2. Files'
    BY <2>1, SameQueries DEF DInv, Files, LoggedComplete, SeenListed, Starting
  <2>3. Hands'
    BY <2>1 DEF DInv, Hands, OnShard, PagesInHand, RowsInHand, Covered, Oversize, Total,
       Matches, Query
  <2> QED
    BY <2>2, <2>3
<1> QED
  BY <1>1, <1>2, <1>3, <1>4, <1>5, <1>6, <1>7, <1>8, <1>9, <1>10, <1>11
     DEF Next, RunList, Setup, Crawl

-----------------------------------------------------------------------------
(* list.go:84-88 and 262-280: the key of a shard that was paged is in the   *)
(* checkpoint only if all its rows are in the output, so that no later run  *)
(* leaves any out by skipping it.                                           *)
THEOREM SkippingLosesNothing == Steady => (Spec => []DoneShardsComplete)
<1> SUFFICES ASSUME Steady
             PROVE  Spec => []DoneShardsComplete
  OBVIOUS
<1>1. Init => DInv
  BY DInvInit
<1>2. DInv => DoneShardsComplete
  BY DEF DInv, Files, LoggedComplete, Covered, DoneShardsComplete
<1> QED
  BY <1>1, <1>2, DInvStep, PTL DEF Spec
-----------------------------------------------------------------------------
(* The shards that are paged do not overlap. *)

(* A shard crawl comes to: every query it was split from was too large. *)
Proper(sh) ==
  /\ Reachable(sh)
  /\ sh.bp # NoFilter => Oversize([sh EXCEPT !.bp = NoFilter])
  /\ sh.st # NoFilter => Oversize([sh EXCEPT !.bp = NoFilter, !.st = NoFilter])
  /\ sh.kb # NoFilter => Oversize(Root)

(* The shard by which a row is to reach the output. *)
Owns(sh, r) == Proper(sh) /\ ~Oversize(sh) /\ r \in ToSet(Matches(sh))

(* A shard matches the schools that fit its query. *)
LEMMA MatchesFit ==
  ASSUME TypeOK, NEW sh \in Shard
  PROVE  ToSet(Matches(sh)) = {s \in All : Fits(s, Query(sh))}
<1> DEFINE T == {s \in All : Fits(s, Query(sh))}
<1>1. Schools \in Seq(All)
  BY IndexAssumption, OwnRange DEF All
<1>2. Matches(sh) = Select(Schools, T)
  BY QueryIsShard DEF Matches, Answer, Index
<1> HIDE DEF T
<1>3. ToSet(Matches(sh)) = All \cap T
  BY <1>1, <1>2, SelectProperties DEF All
<1> QED
  BY <1>3 DEF T

(* What may be in a shard, filter by filter. *)
LEMMA ShardShape ==
  /\ Root \in Shard
  /\ \A sh \in Shard : /\ sh = [kb |-> sh.kb, st |-> sh.st, bp |-> sh.bp]
                       /\ [sh EXCEPT !.bp = NoFilter] \in Shard
                       /\ [sh EXCEPT !.bp = NoFilter]
                            = [kb |-> sh.kb, st |-> sh.st, bp |-> NoFilter]
                       /\ [sh EXCEPT !.bp = NoFilter, !.st = NoFilter] \in Shard
                       /\ [sh EXCEPT !.bp = NoFilter, !.st = NoFilter]
                            = [kb |-> sh.kb, st |-> NoFilter, bp |-> NoFilter]
<1>1. Root \in Shard
  BY DEF Root, Shard
<1>2. ASSUME NEW sh \in Shard
      PROVE  sh = [kb |-> sh.kb, st |-> sh.st, bp |-> sh.bp]
  BY DEF Shard
<1>3. ASSUME NEW sh \in Shard
      PROVE  [sh EXCEPT !.bp = NoFilter] = [kb |-> sh.kb, st |-> sh.st, bp |-> NoFilter]
  BY <1>2
<1>4. ASSUME NEW sh \in Shard
      PROVE  [sh EXCEPT !.bp = NoFilter, !.st = NoFilter]
               = [kb |-> sh.kb, st |-> NoFilter, bp |-> NoFilter]
  <2> DEFINE t == [sh EXCEPT !.bp = NoFilter]
  <2>1. [sh EXCEPT !.bp = NoFilter, !.st = NoFilter] = [t EXCEPT !.st = NoFilter]
    OBVIOUS
  <2>2. t = [kb |-> sh.kb, st |-> sh.st, bp |-> NoFilter]
    BY <1>3
  <2> HIDE DEF t
  <2> QED
    BY <2>1, <2>2
<1>5. ASSUME NEW sh \in Shard
      PROVE  /\ [kb |-> sh.kb, st |-> sh.st, bp |-> NoFilter] \in Shard
             /\ [kb |-> sh.kb, st |-> NoFilter, bp |-> NoFilter] \in Shard
  BY DEF Shard
<1> QED
  BY <1>1, <1>2, <1>3, <1>4, <1>5

(* A small shard that shares a row with an owner agrees with it on each of  *)
(* the owner's filters: else it would be one the owner was split from.      *)
LEMMA OwnerFilters ==
  ASSUME TypeOK, NEW o \in Shard, NEW sh \in Shard, NEW r, Owns(o, r),
         Reachable(sh), ~Oversize(sh), r \in ToSet(Matches(sh))
  PROVE  /\ o.kb # NoFilter => sh.kb = o.kb
         /\ o.st # NoFilter => sh.st = o.st
         /\ o.bp # NoFilter => sh.bp = o.bp
<1>1. Fits(r, Query(o)) /\ Fits(r, Query(sh))
  BY MatchesFit DEF Owns
<1>2. /\ Query(o).kb = (IF o.kb # NoFilter THEN o.kb ELSE base.kb)
      /\ Query(o).st = (IF o.st # NoFilter THEN o.st ELSE base.st)
      /\ Query(o).bp = (IF o.bp # NoFilter THEN o.bp ELSE base.bp)
      /\ Query(sh).kb = (IF sh.kb # NoFilter THEN sh.kb ELSE base.kb)
      /\ Query(sh).st = (IF sh.st # NoFilter THEN sh.st ELSE base.st)
      /\ Query(sh).bp = (IF sh.bp # NoFilter THEN sh.bp ELSE base.bp)
  BY DEF Query
<1>3. /\ base.kb # NoFilter => o.kb = NoFilter /\ sh.kb = NoFilter
      /\ base.st # NoFilter => o.st = NoFilter /\ sh.st = NoFilter
      /\ base.bp # NoFilter => o.bp = NoFilter /\ sh.bp = NoFilter
      /\ sh.st # NoFilter => Query(sh).kb # NoFilter
      /\ sh.bp # NoFilter => Query(sh).kb # NoFilter /\ Query(sh).st # NoFilter
      /\ o.st # NoFilter => Query(o).kb # NoFilter
      /\ o.bp # NoFilter => Query(o).kb # NoFilter /\ Query(o).st # NoFilter
  <2>1. Reachable(o) /\ Reachable(sh)
    BY DEF Owns, Proper
  <2>2. \A x \in Shard : x["kb"] = x.kb /\ x["st"] = x.st /\ x["bp"] = x.bp
    OBVIOUS
  <2>3. base \in Shard
    BY BaseAssumption DEF TypeOK
  <2> QED
    BY <2>1, <2>2, <2>3 DEF Reachable
<1>4. ASSUME o.kb # NoFilter
      PROVE  sh.kb = o.kb
  <2>1. base.kb = NoFilter
    BY <1>3, <1>4
  <2>2. CASE sh.kb = NoFilter
    <3>1. sh.st = NoFilter /\ sh.bp = NoFilter
      BY <1>2, <1>3, <2>1, <2>2
    <3>2. sh = Root
      BY <2>2, <3>1, ShardShape DEF Root
    <3> QED
      BY <1>4, <3>2 DEF Owns, Proper
  <2>3. CASE sh.kb # NoFilter
    BY <1>1, <1>2, <1>4, <2>3 DEF Fits
  <2> QED
    BY <2>2, <2>3
<1>5. ASSUME o.st # NoFilter
      PROVE  sh.st = o.st /\ sh.kb = o.kb
  <2>1. base.st = NoFilter
    BY <1>3, <1>5
  <2>2. sh.kb = o.kb
    BY <1>2, <1>3, <1>4, <1>5
  <2>3. CASE sh.st = NoFilter
    <3>1. sh.bp = NoFilter
      BY <1>2, <1>3, <2>1, <2>3
    <3>2. sh = [o EXCEPT !.bp = NoFilter, !.st = NoFilter]
      BY <2>2, <2>3, <3>1, ShardShape
    <3> QED
      BY <1>5, <3>2 DEF Owns, Proper
  <2>4. CASE sh.st # NoFilter
    BY <1>1, <1>2, <1>5, <2>2, <2>4 DEF Fits
  <2> QED
    BY <2>2, <2>3, <2>4
<1>6. ASSUME o.bp # NoFilter
      PROVE  sh.bp = o.bp
  <2>1. base.bp = NoFilter
    BY <1>3, <1>6
  <2>2. sh.kb = o.kb
    BY <1>2, <1>3, <1>4, <1>6
  <2>3. sh.st = o.st
    BY <1>2, <1>3, <1>5, <1>6
  <2>4. CASE sh.bp = NoFilter
    <3>1. sh = [o EXCEPT !.bp = NoFilter]
      BY <2>2, <2>3, <2>4, ShardShape
    <3> QED
      BY <1>6, <3>1 DEF Owns, Proper
  <2>5. CASE sh.bp # NoFilter
    BY <1>1, <1>2, <1>6, <2>5 DEF Fits
  <2> QED
    BY <2>4, <2>5
<1> QED
  BY <1>4, <1>5, <1>6

(* So it lies within the owner. *)
LEMMA WithinOwner ==
  ASSUME TypeOK, NEW o \in Shard, NEW sh \in Shard, NEW r, Owns(o, r),
         Reachable(sh), ~Oversize(sh), r \in ToSet(Matches(sh))
  PROVE  ToSet(Matches(sh)) \subseteq ToSet(Matches(o))
<1>1. /\ o.kb # NoFilter => sh.kb = o.kb
      /\ o.st # NoFilter => sh.st = o.st
      /\ o.bp # NoFilter => sh.bp = o.bp
  BY OwnerFilters
<1>2. /\ base.kb # NoFilter => sh.kb = NoFilter
      /\ base.st # NoFilter => sh.st = NoFilter
      /\ base.bp # NoFilter => sh.bp = NoFilter
  <2>1. base["kb"] = base.kb /\ base["st"] = base.st /\ base["bp"] = base.bp
    OBVIOUS
  <2>2. sh["kb"] = sh.kb /\ sh["st"] = sh.st /\ sh["bp"] = sh.bp
    OBVIOUS
  <2> QED
    BY <2>1, <2>2 DEF Reachable
<1>3. ASSUME NEW s \in All, Fits(s, Query(sh))
      PROVE  Fits(s, Query(o))
  BY <1>1, <1>2, <1>3 DEF Fits, Query
<1> QED
  BY <1>3, MatchesFit

(* A row has one owner. *)
LEMMA OneOwner ==
  ASSUME TypeOK, NEW o \in Shard, NEW sh \in Shard, NEW r, Owns(o, r), Owns(sh, r)
  PROVE  o = sh
<1>1. /\ o.kb # NoFilter => sh.kb = o.kb
      /\ o.st # NoFilter => sh.st = o.st
      /\ o.bp # NoFilter => sh.bp = o.bp
  BY OwnerFilters DEF Owns, Proper
<1>2. /\ sh.kb # NoFilter => o.kb = sh.kb
      /\ sh.st # NoFilter => o.st = sh.st
      /\ sh.bp # NoFilter => o.bp = sh.bp
  BY OwnerFilters DEF Owns, Proper
<1>3. o.kb = sh.kb /\ o.st = sh.st /\ o.bp = sh.bp
  BY <1>1, <1>2
<1> QED
  BY <1>3, ShardShape

(* What an owner owns matches the filters given to list. *)
LEMMA OwnedFitsBase ==
  ASSUME TypeOK, NEW o \in Shard, NEW r, Owns(o, r)
  PROVE  r \in ToSet(Matches(Root))
<1>1. Root \in Shard /\ Query(Root) = base
  <2>1. base \in Shard
    BY BaseAssumption DEF TypeOK
  <2> QED
    BY <2>1, ShardShape DEF Query, Root
<1>2. r \in All /\ Fits(r, Query(o))
  BY MatchesFit DEF Owns
<1>3. /\ base.kb # NoFilter => o.kb = NoFilter
      /\ base.st # NoFilter => o.st = NoFilter
      /\ base.bp # NoFilter => o.bp = NoFilter
  <2>1. base["kb"] = base.kb /\ base["st"] = base.st /\ base["bp"] = base.bp
    OBVIOUS
  <2>2. o["kb"] = o.kb /\ o["st"] = o.st /\ o["bp"] = o.bp
    OBVIOUS
  <2> QED
    BY <2>1, <2>2 DEF Owns, Proper, Reachable
<1>4. Fits(r, base)
  BY <1>2, <1>3 DEF Fits, Query
<1> QED
  BY <1>1, <1>2, <1>4, MatchesFit
(* A split shard's children are shards crawl comes to. *)
LEMMA ChildrenProper ==
  ASSUME TypeOK, NEW sh \in Shard, Proper(sh), Oversize(sh)
  PROVE  /\ Query(sh).kb = NoFilter => \A k \in KabNames : Proper([sh EXCEPT !.kb = k])
         /\ Query(sh).kb # NoFilter /\ Query(sh).st = NoFilter
              => \A x \in ToSet(Statuses) : Proper([sh EXCEPT !.st = x])
         /\ NoFilter \notin {Query(sh).kb, Query(sh).st} /\ Query(sh).bp = NoFilter
              => \A x \in ToSet(Categories) : Proper([sh EXCEPT !.bp = x])
<1>0. NoFilter \notin KabNames \cup ToSet(Statuses) \cup ToSet(Categories)
  BY IndexAssumption DEF KabNames
<1>1. base \in Shard /\ base["kb"] = base.kb /\ base["st"] = base.st /\ base["bp"] = base.bp
  BY BaseAssumption DEF TypeOK
<1>2. \A x : /\ Query(x).kb = (IF x.kb # NoFilter THEN x.kb ELSE base.kb)
             /\ Query(x).st = (IF x.st # NoFilter THEN x.st ELSE base.st)
             /\ Query(x).bp = (IF x.bp # NoFilter THEN x.bp ELSE base.bp)
  BY DEF Query
<1>3. \A x : x["kb"] = x.kb /\ x["st"] = x.st /\ x["bp"] = x.bp
  OBVIOUS
<1>4. /\ base.kb # NoFilter => sh.kb = NoFilter
      /\ base.st # NoFilter => sh.st = NoFilter
      /\ base.bp # NoFilter => sh.bp = NoFilter
      /\ sh.st # NoFilter => Query(sh).kb # NoFilter
      /\ sh.bp # NoFilter => Query(sh).kb # NoFilter /\ Query(sh).st # NoFilter
  BY <1>1, <1>3 DEF Proper, Reachable
<1>5. ASSUME Query(sh).kb = NoFilter, NEW k \in KabNames
      PROVE  Proper([sh EXCEPT !.kb = k])
  <2> DEFINE c == [sh EXCEPT !.kb = k]
  <2>1. sh.kb = NoFilter /\ sh.st = NoFilter /\ sh.bp = NoFilter /\ base.kb = NoFilter
    BY <1>2, <1>4, <1>5
  <2>2. c.kb = k /\ c.st = NoFilter /\ c.bp = NoFilter /\ sh = Root
    BY <2>1, ShardShape DEF Root, Shard
  <2> HIDE DEF c
  <2>3. Reachable(c)
    BY <1>1, <1>3, <2>1, <2>2 DEF Reachable
  <2>4. Proper(c)
    BY <2>2, <2>3 DEF Proper
  <2> QED
    BY <2>4 DEF c
<1>6. ASSUME Query(sh).kb # NoFilter, Query(sh).st = NoFilter, NEW x \in ToSet(Statuses)
      PROVE  Proper([sh EXCEPT !.st = x])
  <2> DEFINE c == [sh EXCEPT !.st = x]
  <2>1. sh.st = NoFilter /\ sh.bp = NoFilter /\ base.st = NoFilter
    BY <1>2, <1>4, <1>6
  <2>2. c \in Shard /\ c.kb = sh.kb /\ c.st = x /\ c.bp = NoFilter
    BY <2>1 DEF Shard
  <2> HIDE DEF c
  <2>3. [c EXCEPT !.bp = NoFilter, !.st = NoFilter] = sh
    BY <2>1, <2>2, ShardShape
  <2>4. Query(c).kb # NoFilter
    BY <1>2, <1>6, <2>2
  <2>5. Reachable(c)
    BY <1>1, <1>3, <1>4, <2>1, <2>2, <2>4 DEF Reachable
  <2>6. Proper(c)
    BY <2>2, <2>3, <2>5 DEF Proper
  <2> QED
    BY <2>6 DEF c
<1>7. ASSUME NoFilter \notin {Query(sh).kb, Query(sh).st}, Query(sh).bp = NoFilter,
             NEW x \in ToSet(Categories)
      PROVE  Proper([sh EXCEPT !.bp = x])
  <2> DEFINE c == [sh EXCEPT !.bp = x]
  <2>1. sh.bp = NoFilter /\ base.bp = NoFilter
    BY <1>2, <1>7
  <2>2. c \in Shard /\ c.kb = sh.kb /\ c.st = sh.st /\ c.bp = x
    BY DEF Shard
  <2> HIDE DEF c
  <2>3. /\ [c EXCEPT !.bp = NoFilter] = sh
        /\ [c EXCEPT !.bp = NoFilter, !.st = NoFilter]
             = [sh EXCEPT !.bp = NoFilter, !.st = NoFilter]
    BY <2>1, <2>2, ShardShape
  <2>4. Query(c).kb # NoFilter /\ Query(c).st # NoFilter
    BY <1>2, <1>7, <2>2
  <2>5. Reachable(c)
    BY <1>1, <1>3, <1>4, <2>1, <2>2, <2>4 DEF Reachable
  <2>6. Proper(c)
    BY <2>2, <2>3, <2>5 DEF Proper
  <2> QED
    BY <2>6 DEF c
<1> QED
  BY <1>5, <1>6, <1>7

(* Every step leaves the filters given to list alone, and so what a query   *)
(* matches and which shards are proper.                                     *)
LEMMA SameShards ==
  ASSUME [Next]_vars
  PROVE  /\ base' = base
         /\ \A sh : /\ Matches(sh)' = Matches(sh) /\ (Oversize(sh)' <=> Oversize(sh))
                    /\ (Proper(sh)' <=> Proper(sh)) /\ Query(sh)' = Query(sh)
                    /\ Total(sh)' = Total(sh)
         /\ \A sh, r : Owns(sh, r)' <=> Owns(sh, r)
<1>1. base' = base
  BY DEF Next, RunList, Setup, Crawl, vars, flags, Launch, RemoveShards, RemoveOut, LoadShardsDone,
     OpenOut, WriteHeader, StartCrawl, SkipShard, FirstPage, NextPage, LastPage, WriteRow,
     WriteFails, FlushShard, MarkDone, Split, UseCache, StartDiscovery, ScanCategory, CreateCache,
     SaveKabupaten, SaveFails, CacheSaved, FinishCrawl, VerifyCoverage, VerifyFails, Fails, Kill
<1>2. \A sh : Matches(sh)' = Matches(sh) /\ Query(sh)' = Query(sh)
  BY <1>1 DEF Matches, Query
<1>3. \A sh : Total(sh)' = Total(sh) /\ (Oversize(sh)' <=> Oversize(sh))
  BY <1>2 DEF Total, Oversize
<1>4. \A sh : Reachable(sh)' <=> Reachable(sh)
  BY <1>1, <1>2 DEF Reachable
<1>5. \A sh : Proper(sh)' <=> Proper(sh)
  BY <1>3, <1>4 DEF Proper
<1> QED
  BY <1>1, <1>2, <1>3, <1>5 DEF Owns

-----------------------------------------------------------------------------
(* The walk visits proper shards. *)

ProperAgenda == \A sh \in ToSet(agenda) : Proper(sh)

(* Only a shard that fits the window and is not done is paged, only one     *)
(* that does not fit is split, and discovery is for queries of no kabupaten.*)
HeadInHand ==
  /\ phase \in {"page", "rows"} =>
       /\ ~Oversize(Head(agenda)) /\ Head(agenda) \notin doneShards
       /\ ToSet(buffer) \subseteq ToSet(Matches(Head(agenda)))
  /\ phase \in {"split", "cache", "discover", "save"} => Oversize(Head(agenda))
  /\ phase \in {"cache", "discover", "save"} => Query(Head(agenda)).kb = NoFilter

Shape == Typed /\ ProperAgenda /\ HeadInHand

(* The first shard is proper and none is in hand at first. *)
LEMMA ShapeInit == Init => Shape
<1>1. ToSet(<<>>) = {}
  BY DEF ToSet
<1> QED
  BY <1>1, TypedInit DEF Init, Shape, ProperAgenda, HeadInHand

(* What leaves the agenda, or cuts its head, keeps it proper. *)
LEMMA AgendaShrinks ==
  ASSUME Shape, [Next]_vars,
         \/ agenda' = agenda \/ agenda' = <<>>
         \/ agenda # <<>> /\ agenda' = Tail(agenda)
  PROVE  ProperAgenda'
<1>1. ToSet(<<>>) = {}
  BY DEF ToSet
<1>2. ToSet(agenda') \subseteq ToSet(agenda)
  BY <1>1, WithinSeq DEF Shape, Typed, TypeOK
<1> QED
  BY <1>2, SameShards DEF Shape, ProperAgenda

(* Splitting replaces the head by proper children. *)
LEMMA AgendaGrows ==
  ASSUME Shape, [Next]_vars, agenda # <<>>, NEW children \in Seq(Shard), Descend(children),
         \A sh \in ToSet(children) : Proper(sh)
  PROVE  ProperAgenda'
<1>1. agenda \in Seq(Shard) /\ Tail(agenda) \in Seq(Shard) /\ ToSet(Tail(agenda)) \subseteq ToSet(agenda)
  BY HeadOrTail, WithinSeq DEF Shape, Typed, TypeOK
<1>2. ToSet(agenda') = ToSet(children) \cup ToSet(Tail(agenda))
  BY <1>1, ConcatToSet DEF Descend
<1>3. ProperAgenda
  BY DEF Shape
<1>4. \A sh \in ToSet(agenda') : Proper(sh)
  <2>1. SUFFICES ASSUME NEW sh \in ToSet(agenda')
                 PROVE  Proper(sh)
    OBVIOUS
  <2>2. sh \in ToSet(children) \/ sh \in ToSet(agenda)
    BY <1>1, <1>2, <2>1
  <2>3. sh \in ToSet(agenda) => Proper(sh)
    BY <1>3 DEF ProperAgenda
  <2> QED
    BY <2>2, <2>3
<1> QED
  BY <1>4, SameShards DEF ProperAgenda

(* The children that the three splits list are those of the lemma above. *)
LEMMA ChildrenListed ==
  ASSUME NEW sh \in Shard
  PROVE  /\ \A kabs \in Seq(KabNames) :
              ToSet(ByKab(sh, kabs)) \subseteq {[sh EXCEPT !.kb = k] : k \in KabNames}
         /\ ToSet(ByStatus(sh)) \subseteq {[sh EXCEPT !.st = x] : x \in ToSet(Statuses)}
         /\ ToSet(ByBentuk(sh)) \subseteq {[sh EXCEPT !.bp = x] : x \in ToSet(Categories)}
<1>1. ASSUME NEW kabs \in Seq(KabNames)
      PROVE  ToSet(ByKab(sh, kabs)) \subseteq {[sh EXCEPT !.kb = k] : k \in KabNames}
  <2>1. \A i \in DOMAIN kabs : kabs[i] \in KabNames
    BY LenProperties, ElementOfSeq
  <2>2. ToSet(ByKab(sh, kabs)) = {[sh EXCEPT !.kb = kabs[i]] : i \in DOMAIN kabs}
    BY DEF ToSet, ByKab
  <2> QED
    BY <2>1, <2>2
<1>2. ToSet(ByStatus(sh)) = {[sh EXCEPT !.st = Statuses[i]] : i \in DOMAIN Statuses}
  BY DEF ToSet, ByStatus
<1>3. ToSet(ByBentuk(sh)) = {[sh EXCEPT !.bp = Categories[i]] : i \in DOMAIN Categories}
  BY DEF ToSet, ByBentuk
<1>4. /\ \A i \in DOMAIN Statuses : Statuses[i] \in ToSet(Statuses)
      /\ \A i \in DOMAIN Categories : Categories[i] \in ToSet(Categories)
  BY DEF ToSet
<1> QED
  BY <1>1, <1>2, <1>3, <1>4

(* Every step keeps the walk on proper shards. *)
LEMMA ShapeStep == Shape /\ [Next]_vars => Shape'
<1> SUFFICES ASSUME Shape, [Next]_vars
             PROVE  ProperAgenda' /\ HeadInHand'
  BY TypedStep DEF Shape
<1>0. /\ TypeOK /\ OnShard /\ agenda \in Seq(Shard) /\ ProperAgenda /\ HeadInHand
      /\ agenda # <<>> => Head(agenda) \in Shard /\ Head(agenda) \in ToSet(agenda)
  BY HeadOrTail, WithinSeq DEF Shape, Typed, TypeOK
<1>1. CASE (\E r \in RestartFlags : Launch(r)) \/ Kill
  <2>1. agenda' = <<>> /\ phase' \in OffShard
    BY <1>1 DEF Launch, Kill, FreshMemory, Ends, OffShard
  <2> QED
    BY <2>1, AgendaShrinks DEF HeadInHand, OffShard
<1>2. CASE \/ RemoveShards \/ RemoveOut \/ LoadShardsDone \/ OpenOut \/ WriteHeader
           \/ WriteFails \/ SaveFails \/ FinishCrawl \/ VerifyCoverage \/ VerifyFails \/ Fails
  <2>1. agenda' = agenda /\ phase' \in OffShard
    BY <1>2 DEF RemoveShards, RemoveOut, LoadShardsDone, OpenOut, WriteHeader, WriteFails, SaveFails,
       FinishCrawl, VerifyCoverage, VerifyFails, Fails, GoOn, Ends, OffShard, walk
  <2> QED
    BY <2>1, AgendaShrinks DEF HeadInHand, OffShard
<1>3. CASE SkipShard
  BY <1>3, AgendaShrinks DEF SkipShard, GoOn, HeadInHand
<1>4. CASE MarkDone
  BY <1>0, <1>4, AgendaShrinks DEF MarkDone, GoOn, Ends, HeadInHand, OnShard
<1>5. CASE StartCrawl
  <2>1. agenda' = <<Root>> /\ phase' = "crawl"
    BY <1>5 DEF StartCrawl, GoOn
  <2>2. ToSet(<<Root>>) = {Root}
    BY DEF ToSet
  <2>3. Proper(Root)
    <3>1. Root.kb = NoFilter /\ Root.st = NoFilter /\ Root.bp = NoFilter
      BY DEF Root
    <3>2. Root["kb"] = Root.kb /\ Root["st"] = Root.st /\ Root["bp"] = Root.bp
      OBVIOUS
    <3> QED
      BY <3>1, <3>2 DEF Proper, Reachable
  <2> QED
    BY <2>1, <2>2, <2>3, SameShards DEF ProperAgenda, HeadInHand
<1>6. CASE FirstPage \/ NextPage
  <2>1. /\ agenda # <<>> /\ agenda' = agenda /\ doneShards' = doneShards
        /\ phase' \in {"mark", "split", "page"}
    BY <1>0, <1>6 DEF FirstPage, NextPage, GoOn, OnShard, walk
  <2>2. ProperAgenda'
    BY <2>1, AgendaShrinks
  <2>3. phase' = "split" => Oversize(Head(agenda))
    BY <1>6 DEF FirstPage, NextPage, GoOn
  <2>4. ASSUME phase' = "page"
        PROVE  /\ ~Oversize(Head(agenda)) /\ Head(agenda) \notin doneShards
               /\ ToSet(buffer') \subseteq ToSet(Matches(Head(agenda)))
    <3>1. CASE FirstPage
      <4>1. PICK data \in PagesOf(Head(agenda), 0) : buffer' = data
        BY <2>4, <3>1 DEF FirstPage, GoOn
      <4>2. 0 * PageSize <= Total(Head(agenda))
        BY <1>0, <2>1, MatchesTyped, SizeAssumption
      <4>3. ToSet(data) \subseteq ToSet(Matches(Head(agenda)))
        BY <1>0, <2>1, <4>2, DataMatches
      <4> QED
        BY <2>4, <3>1, <4>1, <4>3 DEF FirstPage, GoOn
    <3>2. CASE NextPage
      <4>1. PICK data \in PagesOf(Head(agenda), page) : buffer' = buffer \o data
        BY <3>2 DEF NextPage
      <4>2. page \in Nat /\ page * PageSize <= Total(Head(agenda))
        BY <1>0, <2>1, <3>2, MatchesTyped, SizeAssumption DEF NextPage, MorePages, TypeOK
      <4>3. data \in Seq(All) /\ ToSet(data) \subseteq ToSet(Matches(Head(agenda)))
        BY <1>0, <2>1, <4>2, DataMatches
      <4>4. ToSet(buffer') = ToSet(buffer) \cup ToSet(data)
        BY <1>0, <4>1, <4>3, ConcatToSet DEF TypeOK
      <4> QED
        BY <1>0, <3>2, <4>3, <4>4 DEF NextPage, GoOn, HeadInHand
    <3> QED
      BY <1>6, <3>1, <3>2
  <2> QED
    BY <2>1, <2>2, <2>3, <2>4, SameShards DEF HeadInHand
<1>7. CASE LastPage \/ WriteRow \/ FlushShard
  <2>1. /\ agenda' = agenda /\ doneShards' = doneShards /\ phase \in {"page", "rows"}
        /\ phase' \in {"rows", "mark"}
    BY <1>7 DEF LastPage, WriteRow, FlushShard, GoOn, walk
  <2>2. ToSet(buffer') \subseteq ToSet(buffer)
    <3>1. buffer' = buffer \/ (buffer # <<>> /\ buffer' = Tail(buffer))
      BY <1>7 DEF LastPage, WriteRow, FlushShard, pager
    <3> QED
      BY <1>0, <3>1, WithinSeq DEF TypeOK
  <2> QED
    BY <1>0, <2>1, <2>2, AgendaShrinks, SameShards DEF HeadInHand
<1>8. CASE Split
  <2>0. /\ agenda # <<>> /\ Head(agenda) \in Shard /\ Oversize(Head(agenda)) /\ Proper(Head(agenda))
        /\ phase = "split"
    BY <1>0, <1>8 DEF Split, OnShard, HeadInHand, ProperAgenda
  <2>1. CASE agenda' = agenda
    BY <1>8, <2>0, <2>1, AgendaShrinks, SameShards DEF Split, GoOn, HeadInHand
  <2>2. CASE /\ Query(Head(agenda)).kb # NoFilter /\ Query(Head(agenda)).st = NoFilter
             /\ GoOn("split", "crawl") /\ Descend(ByStatus(Head(agenda)))
    <3>1. \A sh \in ToSet(ByStatus(Head(agenda))) : Proper(sh)
      BY <1>0, <2>0, <2>2, ChildrenListed, ChildrenProper
    <3>2. ByStatus(Head(agenda)) \in Seq(Shard)
      BY <2>0, ChildrenTyped
    <3> QED
      BY <2>0, <2>2, <3>1, <3>2, AgendaGrows DEF GoOn, HeadInHand
  <2>3. CASE /\ NoFilter \notin {Query(Head(agenda)).kb, Query(Head(agenda)).st}
             /\ Query(Head(agenda)).bp = NoFilter
             /\ GoOn("split", "crawl") /\ Descend(ByBentuk(Head(agenda)))
    <3>1. \A sh \in ToSet(ByBentuk(Head(agenda))) : Proper(sh)
      BY <1>0, <2>0, <2>3, ChildrenListed, ChildrenProper
    <3>2. ByBentuk(Head(agenda)) \in Seq(Shard)
      BY <2>0, ChildrenTyped
    <3> QED
      BY <2>0, <2>3, <3>1, <3>2, AgendaGrows DEF GoOn, HeadInHand
  <2> QED
    BY <1>8, <2>1, <2>2, <2>3 DEF Split
<1>9. CASE UseCache \/ CacheSaved
  <2>0. /\ agenda # <<>> /\ Head(agenda) \in Shard /\ Oversize(Head(agenda)) /\ Proper(Head(agenda))
        /\ Query(Head(agenda)).kb = NoFilter /\ phase' = "crawl"
    BY <1>0, <1>9 DEF UseCache, CacheSaved, GoOn, OnShard, HeadInHand, ProperAgenda
  <2>1. PICK kabs \in Seq(KabNames) : Descend(ByKab(Head(agenda), kabs))
    BY <1>0, <1>9, DiscoveredTyped DEF UseCache, CacheSaved, TypeOK
  <2>2. \A sh \in ToSet(ByKab(Head(agenda), kabs)) : Proper(sh)
    BY <1>0, <2>0, ChildrenListed, ChildrenProper
  <2>3. ByKab(Head(agenda), kabs) \in Seq(Shard)
    BY <2>0, ChildrenTyped
  <2> QED
    BY <2>0, <2>1, <2>2, <2>3, AgendaGrows DEF HeadInHand
<1>10. CASE StartDiscovery \/ ScanCategory \/ CreateCache \/ SaveKabupaten
  <2>1. /\ agenda' = agenda
        /\ phase \in {"cache", "discover", "save"} /\ phase' \in {"cache", "discover", "save"}
    BY <1>10 DEF StartDiscovery, ScanCategory, CreateCache, SaveKabupaten, GoOn, walk
  <2> QED
    BY <1>0, <2>1, AgendaShrinks, SameShards DEF HeadInHand
<1>11. CASE UNCHANGED vars
  BY <1>0, <1>11, AgendaShrinks, SameShards DEF vars, walk, pager, HeadInHand
<1> QED
  BY <1>1, <1>2, <1>3, <1>4, <1>5, <1>6, <1>7, <1>8, <1>9, <1>10, <1>11
     DEF Next, RunList, Setup, Crawl
-----------------------------------------------------------------------------
(* No school is listed twice. *)

Undisturbed == kills = 0 /\ faults = 0

(* The steps that a write error can cut short, when it does not. *)
Unharmed ==
  /\ ~Kill /\ ~SaveFails
  /\ WriteFails => csvErr
  /\ RemoveShards => shardLog' = {}
  /\ RemoveOut => outFile' = "absent" /\ out' = <<>>
  /\ WriteHeader => outFile' = "headed" /\ csvErr' = FALSE
  /\ MarkDone => shardLog' = shardLog \cup {Head(agenda)}

(* Kills and failed writes are counted and not forgotten. *)
LEMMA StaysUndisturbed ==
  ASSUME TypeOK, [Next]_vars, Undisturbed'
  PROVE  Undisturbed /\ Unharmed
<1>0. kills \in Nat /\ faults \in Nat /\ kills' = 0 /\ faults' = 0 /\ csvErr \in BOOLEAN
  BY SizeAssumption DEF TypeOK, Undisturbed
<1>1. \A lost \in BOOLEAN : Happens(lost) => lost = FALSE /\ faults = 0
  BY <1>0 DEF Happens
<1>2. ~Kill
  BY <1>0 DEF Kill
<1>3. /\ RemoveShards => faults = 0 /\ kills' = kills /\ shardLog' = {}
      /\ RemoveOut => faults = 0 /\ kills' = kills /\ outFile' = "absent" /\ out' = <<>>
      /\ WriteHeader => faults = 0 /\ kills' = kills /\ outFile' = "headed" /\ csvErr' = FALSE
      /\ MarkDone => faults = 0 /\ kills' = kills /\ shardLog' = shardLog \cup {Head(agenda)}
  BY <1>1 DEF RemoveShards, RemoveOut, WriteHeader, MarkDone
<1>4. /\ WriteFails => faults = 0 /\ kills' = kills /\ csvErr
      /\ ~SaveFails
  BY <1>0, <1>1 DEF WriteFails, SaveFails
<1>5. Unharmed
  BY <1>2, <1>3, <1>4 DEF Unharmed
<1>6. CASE RemoveShards \/ RemoveOut \/ WriteHeader \/ MarkDone \/ WriteFails
  BY <1>0, <1>3, <1>4, <1>5, <1>6 DEF Undisturbed
<1>7. CASE \/ \E r \in RestartFlags : Launch(r)
           \/ LoadShardsDone \/ OpenOut \/ StartCrawl \/ SkipShard \/ FirstPage \/ NextPage
           \/ LastPage \/ WriteRow \/ FlushShard \/ Split \/ UseCache \/ StartDiscovery
           \/ ScanCategory \/ CreateCache \/ SaveKabupaten \/ CacheSaved \/ FinishCrawl
           \/ VerifyCoverage \/ VerifyFails \/ Fails \/ UNCHANGED vars
  <2>1. kills' = kills /\ faults' = faults
    BY <1>7 DEF Launch, LoadShardsDone, OpenOut, StartCrawl, SkipShard, FirstPage, NextPage, LastPage,
       WriteRow, FlushShard, Split, UseCache, StartDiscovery, ScanCategory, CreateCache,
       SaveKabupaten, CacheSaved, FinishCrawl, VerifyCoverage, VerifyFails, Fails, bounds, vars
  <2> QED
    BY <1>0, <1>5, <2>1 DEF Undisturbed
<1> QED
  BY <1>2, <1>4, <1>6, <1>7 DEF Next, RunList, Setup, Crawl

(* A row of the output is there for a shard in the checkpoint, or for the   *)
(* one in hand, which is not in it yet; -restart drops the checkpoint first.*)
Accounted(r) ==
  \/ phase = "rmOut"
  \/ \E sh \in shardLog : Owns(sh, r)
  \/ phase \in {"rows", "mark"} /\ r \in seenIDs /\ Owns(Head(agenda), r)

Once ==
  /\ csvErr = FALSE
  /\ IsInjective(out)
  /\ phase \notin {"down", "rmShards", "rmOut", "load"} => doneShards = shardLog
  /\ \A r \in ToSet(out) : Accounted(r)

(* Steps that write no row and no key. *)
LEMMA QuietOnce ==
  ASSUME [Next]_vars, Once, UNCHANGED <<out, shardLog>>, csvErr' = FALSE,
         phase \notin {"rmOut", "rows", "mark"},
         \/ phase' \in {"down", "rmShards", "load"}
         \/ UNCHANGED doneShards /\ phase \notin {"down", "rmShards", "rmOut", "load"}
         \/ doneShards' = shardLog
  PROVE  Once'
<1>1. \A r \in ToSet(out) : \E sh \in shardLog : Owns(sh, r)
  BY DEF Once, Accounted
<1>2. \A r \in ToSet(out') : Accounted(r)'
  BY <1>1, SameShards DEF Accounted
<1> QED
  BY <1>2 DEF Once

(* A row is written if no shard before it had it and this one has not yet.  *)
LEMMA WriteRowOnce ==
  ASSUME Shape, [Next]_vars, Once, WriteRow
  PROVE  Once'
<1> DEFINE id == Head(buffer)
           sh == Head(agenda)
<1>1. /\ TypeOK /\ phase = "rows" /\ phase' = "rows" /\ agenda # <<>> /\ agenda' = agenda
      /\ UNCHANGED <<shardLog, doneShards, csvErr>> /\ buffer # <<>> /\ out \in Seq(All)
  BY DEF WriteRow, GoOn, Shape, Typed, TypeOK, OnShard
<1>2. sh \in Shard /\ sh \notin doneShards /\ Owns(sh, id) /\ id \in All
  <2>1. sh \in Shard /\ Proper(sh)
    BY <1>1, HeadOrTail, WithinSeq DEF Shape, Typed, TypeOK, ProperAgenda
  <2>2. id \in ToSet(buffer) /\ id \in All
    BY <1>1, HeadOrTail, WithinSeq DEF TypeOK
  <2>3. ~Oversize(sh) /\ sh \notin doneShards /\ ToSet(buffer) \subseteq ToSet(Matches(sh))
    BY <1>1 DEF Shape, HeadInHand
  <2> QED
    BY <2>1, <2>2, <2>3 DEF Owns
<1>3. shardLog \subseteq Shard /\ shardLog = doneShards
  BY <1>1 DEF Once, TypeOK
<1> HIDE DEF sh
<1>4. Head(agenda) = sh /\ Head(agenda)' = sh
  BY <1>1 DEF sh
<1>5. CASE id \in seenIDs
  <2>1. UNCHANGED <<out, seenIDs>>
    BY <1>5 DEF WriteRow
  <2>2. \A r \in ToSet(out) : Accounted(r)'
    BY <1>1, <1>4, <2>1, SameShards DEF Once, Accounted
  <2> QED
    BY <1>1, <2>1, <2>2 DEF Once
<1>6. CASE id \notin seenIDs
  <2>1. out' = Append(out, id) /\ seenIDs' = seenIDs \cup {id}
    BY <1>6 DEF WriteRow
  <2>2. id \notin ToSet(out)
    <3>1. SUFFICES ASSUME id \in ToSet(out)
                   PROVE  FALSE
      OBVIOUS
    <3>2. Accounted(id)
      BY <3>1 DEF Once
    <3>3. PICK o \in shardLog : Owns(o, id)
      BY <1>1, <1>6, <3>2 DEF Accounted
    <3>4. o = sh
      BY <1>1, <1>2, <1>3, <3>3, OneOwner
    <3> QED
      BY <1>2, <1>3, <3>3, <3>4
  <2>3. IsInjective(out')
    BY <1>1, <1>2, <2>1, <2>2, AppendKeepsInjective DEF Once
  <2>4. ToSet(out') = ToSet(out) \cup {id}
    BY <1>1, <1>2, <2>1, AppendToSet
  <2>5. \A r \in ToSet(out') : Accounted(r)'
    BY <1>1, <1>2, <1>4, <2>1, <2>4, SameShards DEF Once, Accounted
  <2> QED
    BY <1>1, <2>3, <2>5 DEF Once
<1> QED
  BY <1>5, <1>6

LEMMA OnceStep ==
  ASSUME Shape, [Next]_vars, Undisturbed', Once
  PROVE  Once'
<1>0. TypeOK /\ Unharmed
  BY StaysUndisturbed DEF Shape, Typed
<1>1. CASE \E r \in RestartFlags : Launch(r)
  BY <1>1, QuietOnce DEF Launch, FreshMemory, disk
<1>2. CASE RemoveShards
  BY <1>2 DEF RemoveShards, GoOn, Once, Accounted
<1>3. CASE RemoveOut
  <2>1. out' = <<>> /\ phase' = "load" /\ csvErr' = csvErr
    BY <1>0, <1>3 DEF Unharmed, RemoveOut, GoOn
  <2>2. ToSet(<<>>) = {} /\ IsInjective(<<>>)
    BY DEF ToSet, IsInjective
  <2> QED
    BY <2>1, <2>2 DEF Once
<1>4. CASE LoadShardsDone
  BY <1>4, QuietOnce DEF LoadShardsDone, GoOn, disk, Once
<1>5. CASE WriteHeader
  BY <1>0, <1>5, QuietOnce DEF Unharmed, WriteHeader, GoOn, walk
<1>6. CASE OpenOut \/ StartCrawl \/ SkipShard \/ FirstPage \/ NextPage \/ LastPage
  BY <1>6, QuietOnce DEF OpenOut, StartCrawl, SkipShard, FirstPage, NextPage, LastPage, GoOn,
     disk, walk, Once
<1>7. CASE \/ Split \/ UseCache \/ StartDiscovery \/ ScanCategory \/ CreateCache
           \/ SaveKabupaten \/ CacheSaved
  BY <1>7, QuietOnce DEF Split, UseCache, StartDiscovery, ScanCategory, CreateCache, SaveKabupaten,
     CacheSaved, GoOn, disk, walk, Once
<1>8. CASE FinishCrawl \/ VerifyCoverage \/ VerifyFails \/ Fails
  <2>1. /\ UNCHANGED <<out, shardLog, doneShards, csvErr>> /\ phase \notin {"rmOut", "rows", "mark"}
        /\ phase' = "down" \/ phase = "crawl"
    BY <1>8 DEF FinishCrawl, VerifyCoverage, VerifyFails, Fails, CanFail, GoOn, Ends, disk, walk
  <2> QED
    BY <2>1, QuietOnce DEF Once
<1>9. CASE WriteRow
  BY <1>9, WriteRowOnce
<1>10. CASE WriteFails
  BY <1>0, <1>10 DEF Unharmed, Once
<1>11. CASE FlushShard
  <2>1. /\ phase = "rows" /\ phase' = "mark"
        /\ UNCHANGED <<out, shardLog, doneShards, csvErr, agenda, seenIDs>>
    BY <1>11 DEF FlushShard, GoOn, disk, walk
  <2>2. \A r \in ToSet(out) : Accounted(r)'
    BY <2>1, SameShards DEF Once, Accounted
  <2> QED
    BY <2>1, <2>2 DEF Once
<1>12. CASE MarkDone
  <2>1. /\ phase = "mark" /\ phase' \in {"down", "crawl"} /\ UNCHANGED <<out, csvErr>>
        /\ shardLog' = shardLog \cup {Head(agenda)} /\ doneShards' = doneShards \cup {Head(agenda)}
    BY <1>0, <1>12 DEF Unharmed, MarkDone, GoOn, Ends
  <2>2. \A r \in ToSet(out) : Accounted(r)'
    BY <2>1, SameShards DEF Once, Accounted
  <2> QED
    BY <2>1, <2>2 DEF Once
<1>13. CASE UNCHANGED vars
  <2>1. UNCHANGED <<out, shardLog, doneShards, csvErr, agenda, seenIDs, phase>>
    BY <1>13 DEF vars, disk, walk
  <2>2. \A r \in ToSet(out) : Accounted(r)'
    BY <2>1, SameShards DEF Once, Accounted
  <2> QED
    BY <2>1, <2>2 DEF Once
<1> QED
  BY <1>0, <1>1, <1>2, <1>3, <1>4, <1>5, <1>6, <1>7, <1>8, <1>9, <1>10, <1>11, <1>12, <1>13
     DEF Unharmed, Next, RunList, Setup, Crawl

LEMMA OnceInit == Init => Once
<1>1. ToSet(<<>>) = {} /\ IsInjective(<<>>)
  BY DEF ToSet, IsInjective
<1> QED
  BY <1>1 DEF Init, Once

(* list.go:84-88: whatever order the server pages in, however requests fail *)
(* and however often the command is re-run, no school is listed twice: the  *)
(* shards that are paged do not overlap, one in the checkpoint is not paged *)
(* again, and of one that is, rows seen in this run are not written again.  *)
THEOREM ListedOnce == Spec => []NoDuplicateRows
<1> DEFINE OInv == Shape /\ (Undisturbed => Once)
<1>1. Init => OInv
  BY ShapeInit, OnceInit
<1>2. OInv /\ [Next]_vars => OInv'
  <2> SUFFICES ASSUME OInv, [Next]_vars
               PROVE  Shape' /\ (Undisturbed' => Once')
    OBVIOUS
  <2>1. Shape'
    BY ShapeStep
  <2>2. ASSUME Undisturbed'
        PROVE  Once'
    <3>1. Undisturbed
      BY <2>2, StaysUndisturbed DEF Shape, Typed
    <3> QED
      BY <2>2, <3>1, OnceStep
  <2> QED
    BY <2>1, <2>2
<1>3. OInv => NoDuplicateRows
  BY DEF Undisturbed, Once, NoDuplicateRows
<1> HIDE DEF OInv
<1> QED
  BY <1>1, <1>2, <1>3, PTL DEF Spec
-----------------------------------------------------------------------------
(* What is verified is complete. *)

(* The rows that are counted stand under a header. *)
UnderHeader ==
  /\ outFile = "bare" => phase = "header"
  /\ phase \notin {"down", "rmShards", "rmOut", "load", "open", "header"} => outFile = "headed"
  /\ out # <<>> => outFile = "headed"

StillRunning == phase # "down" => exit = "none"

VerifiedHere == exit = "verified" => ToSet(Matches(Root)) \subseteq ToSet(out)

LEMMA UnderHeaderStep ==
  ASSUME TypeOK, [Next]_vars, Undisturbed', UnderHeader
  PROVE  UnderHeader'
<1>0. Unharmed
  BY StaysUndisturbed
<1>1. CASE \E r \in RestartFlags : Launch(r)
  BY <1>1 DEF Launch, disk, UnderHeader
<1>2. CASE RemoveShards \/ LoadShardsDone
  BY <1>2 DEF RemoveShards, LoadShardsDone, GoOn, disk, UnderHeader
<1>3. CASE RemoveOut
  BY <1>0, <1>3 DEF Unharmed, RemoveOut, GoOn, UnderHeader
<1>4. CASE OpenOut
  BY <1>4 DEF OpenOut, GoOn, UnderHeader, TypeOK
<1>5. CASE WriteHeader
  BY <1>0, <1>5 DEF Unharmed, WriteHeader, GoOn, UnderHeader
<1>6. CASE StartCrawl \/ SkipShard \/ FirstPage \/ NextPage \/ LastPage \/ FlushShard
  BY <1>6 DEF StartCrawl, SkipShard, FirstPage, NextPage, LastPage, FlushShard, GoOn, disk,
     UnderHeader
<1>7. CASE \/ Split \/ UseCache \/ StartDiscovery \/ ScanCategory \/ CreateCache
           \/ SaveKabupaten \/ CacheSaved
  BY <1>7 DEF Split, UseCache, StartDiscovery, ScanCategory, CreateCache, SaveKabupaten,
     CacheSaved, GoOn, disk, UnderHeader
<1>8. CASE FinishCrawl \/ VerifyCoverage \/ VerifyFails \/ Fails
  <2>1. UNCHANGED <<out, outFile>> /\ (phase' = "down" \/ phase = "crawl")
    BY <1>8 DEF FinishCrawl, VerifyCoverage, VerifyFails, Fails, GoOn, Ends, disk
  <2>2. outFile # "bare"
    <3>1. phase # "header"
      BY <1>8 DEF FinishCrawl, VerifyCoverage, VerifyFails, Fails, CanFail, GoOn
    <3> QED
      BY <3>1 DEF UnderHeader
  <2> QED
    BY <1>8, <2>1, <2>2 DEF UnderHeader, FinishCrawl, VerifyCoverage, VerifyFails, Fails, GoOn, Ends
<1>9. CASE WriteRow
  BY <1>9 DEF WriteRow, GoOn, UnderHeader
<1>10. CASE WriteFails \/ MarkDone
  BY <1>10 DEF WriteFails, MarkDone, GoOn, Ends, disk, UnderHeader
<1>11. CASE UNCHANGED vars
  BY <1>11 DEF vars, disk, UnderHeader
<1> QED
  BY <1>0, <1>1, <1>2, <1>3, <1>4, <1>5, <1>6, <1>7, <1>8, <1>9, <1>10, <1>11
     DEF Unharmed, Next, RunList, Setup, Crawl

LEMMA StillRunningStep == StillRunning /\ [Next]_vars => StillRunning'
BY DEF StillRunning, Next, RunList, Setup, Crawl, vars, Launch, RemoveShards, RemoveOut,
   LoadShardsDone, OpenOut, WriteHeader, StartCrawl, SkipShard, FirstPage, NextPage, LastPage,
   WriteRow, WriteFails, FlushShard, MarkDone, Split, UseCache, StartDiscovery, ScanCategory,
   CreateCache, SaveKabupaten, SaveFails, CacheSaved, FinishCrawl, VerifyCoverage, VerifyFails,
   Fails, Kill, GoOn, Ends

(* Rows without repeats that all match, as many as match: all that match. *)
LEMMA EqualCountsComplete ==
  ASSUME TypeOK, Once, UnderHeader, phase = "verify", CountCSVDataRows = Total(Root)
  PROVE  ToSet(Matches(Root)) \subseteq ToSet(out)
<1> DEFINE m == Matches(Root)
<1>1. Root \in Shard /\ m \in Seq(All) /\ out \in Seq(All)
  BY ShardShape, MatchesTyped DEF TypeOK
<1>2. IsInjective(m)
  <2>1. Schools \in Seq(All) /\ IsInjective(Schools)
    BY IndexAssumption, OwnRange DEF All
  <2>2. m = Select(Schools, {s \in All : Fits(s, Query(Root))})
    BY <1>1, QueryIsShard DEF Matches, Answer, Index
  <2> QED
    BY <2>1, <2>2, SelectProperties
<1>3. /\ IsFiniteSet(ToSet(m)) /\ Cardinality(ToSet(m)) = Len(m)
      /\ IsFiniteSet(ToSet(out)) /\ Cardinality(ToSet(out)) = Len(out)
  BY <1>1, <1>2, InjectiveCount DEF Once
<1>4. ToSet(out) \subseteq ToSet(m)
  <2>1. SUFFICES ASSUME NEW r \in ToSet(out)
                 PROVE  r \in ToSet(m)
    OBVIOUS
  <2>2. PICK sh \in shardLog : Owns(sh, r)
    BY DEF Once, Accounted
  <2>3. sh \in Shard
    BY DEF TypeOK
  <2> QED
    BY <2>2, <2>3, OwnedFitsBase
<1>5. Len(out) = Len(m)
  BY DEF CountCSVDataRows, UnderHeader, Total
<1> HIDE DEF m
<1>6. ToSet(out) = ToSet(m)
  BY <1>3, <1>4, <1>5, FS_Subset
<1> QED
  BY <1>6 DEF m

(* A run ends with this word only where the counts agree, and no school is  *)
(* taken from the output before the next run starts.                        *)
LEMMA VerifiedStep ==
  ASSUME TypeOK, [Next]_vars, StillRunning, Once, UnderHeader, VerifiedHere
  PROVE  VerifiedHere'
<1> SUFFICES ASSUME exit' = "verified"
             PROVE  ToSet(Matches(Root))' \subseteq ToSet(out)'
  BY DEF VerifiedHere
<1>1. VerifyCoverage \/ UNCHANGED vars
  BY DEF StillRunning, Next, RunList, Setup, Crawl, Launch, RemoveShards, RemoveOut,
     LoadShardsDone, OpenOut, WriteHeader, StartCrawl, SkipShard, FirstPage, NextPage, LastPage,
     WriteRow, WriteFails, FlushShard, MarkDone, Split, UseCache, StartDiscovery, ScanCategory,
     CreateCache, SaveKabupaten, SaveFails, CacheSaved, FinishCrawl, VerifyFails, Fails, Kill,
     GoOn, Ends
<1>2. ToSet(Matches(Root)) \subseteq ToSet(out)
  <2>1. CASE VerifyCoverage
    <3>1. phase = "verify" /\ CountCSVDataRows = Total(Root)
      BY <2>1 DEF VerifyCoverage, Ends
    <3> QED
      BY <3>1, EqualCountsComplete
  <2>2. CASE UNCHANGED vars
    BY <2>2 DEF vars, VerifiedHere
  <2> QED
    BY <1>1, <2>1, <2>2
<1>3. out' = out
  BY <1>1 DEF VerifyCoverage, vars, disk
<1> QED
  BY <1>2, <1>3, SameShards

(* discover.go:20-24: a run that reports its coverage verified has every    *)
(* school that matches in the output, from any number of earlier runs: the  *)
(* count stands for the schools because none is listed twice and none is    *)
(* listed that does not match.                                              *)
THEOREM VerifiedMeansComplete == Spec => []VerifiedIsComplete
<1> DEFINE VInv == /\ Shape /\ StillRunning
                   /\ Undisturbed => Once /\ UnderHeader /\ VerifiedHere
<1>1. Init => VInv
  <2>1. Init => StillRunning /\ UnderHeader /\ VerifiedHere
    BY DEF Init, StillRunning, UnderHeader, VerifiedHere
  <2> QED
    BY <2>1, ShapeInit, OnceInit
<1>2. VInv /\ [Next]_vars => VInv'
  <2> SUFFICES ASSUME VInv, [Next]_vars
               PROVE  /\ Shape' /\ StillRunning'
                      /\ Undisturbed' => Once' /\ UnderHeader' /\ VerifiedHere'
    OBVIOUS
  <2>1. Shape' /\ StillRunning'
    BY ShapeStep, StillRunningStep
  <2>2. ASSUME Undisturbed'
        PROVE  Once' /\ UnderHeader' /\ VerifiedHere'
    <3>1. TypeOK /\ Undisturbed
      BY <2>2, StaysUndisturbed DEF Shape, Typed
    <3> QED
      BY <2>2, <3>1, OnceStep, UnderHeaderStep, VerifiedStep
  <2> QED
    BY <2>1, <2>2
<1>3. VInv => VerifiedIsComplete
  BY DEF Undisturbed, VerifiedHere, VerifiedIsComplete
<1> HIDE DEF VInv
<1> QED
  BY <1>1, <1>2, <1>3, PTL DEF Spec
-----------------------------------------------------------------------------
(* Of a shard all rows are listed, or none. *)

Whole == \A r \in ToSet(out) :
           \E o \in Shard : /\ Owns(o, r)
                            /\ \/ ToSet(Matches(o)) \subseteq ToSet(out)
                               \/ phase = "rows" /\ o = Head(agenda)

(* Steps outside the writing of rows. *)
LEMMA QuietWhole ==
  ASSUME [Next]_vars, Whole, out' = out, phase = "rows" => phase' = "rows" /\ agenda' = agenda
  PROVE  Whole'
BY SameShards DEF Whole

LEMMA WriteRowWhole ==
  ASSUME DInv, Shape, [Next]_vars, Whole, WriteRow
  PROVE  Whole'
<1> DEFINE id == Head(buffer)
           sh == Head(agenda)
<1>1. /\ TypeOK /\ phase = "rows" /\ phase' = "rows" /\ agenda # <<>> /\ agenda' = agenda
      /\ buffer # <<>> /\ out \in Seq(All)
  BY DEF WriteRow, GoOn, Shape, Typed, TypeOK, OnShard
<1>2. sh \in Shard /\ Owns(sh, id) /\ id \in All
  <2>1. sh \in Shard /\ Proper(sh)
    BY <1>1, HeadOrTail, WithinSeq DEF Shape, Typed, TypeOK, ProperAgenda
  <2>2. id \in ToSet(buffer) /\ id \in All
    BY <1>1, HeadOrTail, WithinSeq DEF TypeOK
  <2>3. ~Oversize(sh) /\ ToSet(buffer) \subseteq ToSet(Matches(sh))
    BY <1>1 DEF Shape, HeadInHand
  <2> QED
    BY <2>1, <2>2, <2>3 DEF Owns
<1>3. Head(agenda)' = Head(agenda)
  BY <1>1
<1>4. ToSet(out) \subseteq ToSet(out') /\ ToSet(out') \subseteq ToSet(out) \cup {id}
  <2>1. out' = out \/ out' = Append(out, id)
    BY DEF WriteRow
  <2>2. ToSet(Append(out, id)) = ToSet(out) \cup {id}
    BY <1>1, <1>2, AppendToSet
  <2> QED
    BY <2>1, <2>2
<1> HIDE DEF id, sh
<1>5. SUFFICES ASSUME NEW r \in ToSet(out')
               PROVE  \E o \in Shard : /\ Owns(o, r)
                                       /\ ToSet(Matches(o)) \subseteq ToSet(out') \/ o = Head(agenda)
  BY <1>1, <1>3, SameShards DEF Whole
<1>6. CASE r \in ToSet(out)
  BY <1>4, <1>6 DEF Whole
<1>7. CASE r = id
  BY <1>2, <1>7 DEF sh
<1> QED
  BY <1>4, <1>6, <1>7

(* When the last row has left the buffer, all rows of the shard are out. *)
LEMMA FlushWhole ==
  ASSUME DInv, [Next]_vars, Whole, FlushShard
  PROVE  Whole'
<1>1. phase = "rows" /\ out' = out /\ buffer = <<>>
  BY DEF FlushShard, GoOn, disk
<1>2. ToSet(Matches(Head(agenda))) \subseteq ToSet(out)
  <2>1. ToSet(buffer) = {}
    BY <1>1 DEF ToSet
  <2> QED
    BY <1>1, <2>1 DEF DInv, Files, SeenListed, Hands, RowsInHand
<1> QED
  BY <1>1, <1>2, SameShards DEF Whole

LEMMA WholeStep ==
  ASSUME DInv, Shape, [Next]_vars, Undisturbed', csvErr = FALSE, Whole
  PROVE  Whole'
<1>0. Unharmed
  BY StaysUndisturbed DEF DInv
<1>1. CASE \E r \in RestartFlags : Launch(r)
  BY <1>1, QuietWhole DEF Launch, disk
<1>2. CASE RemoveShards \/ LoadShardsDone \/ OpenOut \/ WriteHeader \/ StartCrawl
  BY <1>2, QuietWhole DEF RemoveShards, LoadShardsDone, OpenOut, WriteHeader, StartCrawl, GoOn, disk
<1>3. CASE RemoveOut
  <2>1. ToSet(out') = {}
    BY <1>0, <1>3 DEF Unharmed, ToSet
  <2> QED
    BY <2>1 DEF Whole
<1>4. CASE SkipShard \/ FirstPage \/ NextPage \/ LastPage \/ MarkDone
  BY <1>4, QuietWhole DEF SkipShard, FirstPage, NextPage, LastPage, MarkDone, GoOn, disk
<1>5. CASE \/ Split \/ UseCache \/ StartDiscovery \/ ScanCategory \/ CreateCache
           \/ SaveKabupaten \/ CacheSaved
  BY <1>5, QuietWhole DEF Split, UseCache, StartDiscovery, ScanCategory, CreateCache, SaveKabupaten,
     CacheSaved, GoOn, disk
<1>6. CASE FinishCrawl \/ VerifyCoverage \/ VerifyFails \/ Fails
  BY <1>6, QuietWhole DEF FinishCrawl, VerifyCoverage, VerifyFails, Fails, CanFail, GoOn, disk
<1>7. CASE UNCHANGED vars
  BY <1>7, QuietWhole DEF vars, disk, walk
<1> QED
  BY <1>0, <1>1, <1>2, <1>3, <1>4, <1>5, <1>6, <1>7, WriteRowWhole, FlushWhole
     DEF Unharmed, Next, RunList, Setup, Crawl

(* list.go:84-88: with a server that pages in a stable order, a run that    *)
(* fails or is interrupted leaves of every shard small enough to page       *)
(* either all rows or none, also of one the crawl would not come to: it     *)
(* lies within the shard that was paged in its place.                       *)
THEOREM ShardsAreWhole == Steady => (Spec => []AllOrNothing)
<1> SUFFICES ASSUME Steady
             PROVE  Spec => []AllOrNothing
  OBVIOUS
<1> DEFINE WInv == DInv /\ Shape /\ (Undisturbed => Once /\ Whole)
<1>1. Init => WInv
  <2>1. Init => Whole
    BY DEF Init, Whole, ToSet
  <2> QED
    BY <2>1, DInvInit, ShapeInit, OnceInit
<1>2. WInv /\ [Next]_vars => WInv'
  <2> SUFFICES ASSUME WInv, [Next]_vars
               PROVE  DInv' /\ Shape' /\ (Undisturbed' => Once' /\ Whole')
    OBVIOUS
  <2>1. DInv' /\ Shape'
    BY DInvStep, ShapeStep
  <2>2. ASSUME Undisturbed'
        PROVE  Once' /\ Whole'
    <3>1. Undisturbed
      BY <2>2, StaysUndisturbed DEF DInv
    <3> QED
      BY <2>2, <3>1, OnceStep, WholeStep DEF Once
  <2> QED
    BY <2>1, <2>2
<1>3. WInv => AllOrNothing
  <2> SUFFICES ASSUME WInv, phase # "rows", Undisturbed,
                      NEW sh \in Shard, Reachable(sh), Len(Matches(sh)) <= Window
               PROVE  ToSet(Matches(sh)) \cap ToSet(out) \in {{}, ToSet(Matches(sh))}
    BY DEF AllOrNothing, Undisturbed
  <2>1. TypeOK /\ ~Oversize(sh)
    <3>1. Total(sh) \in Nat /\ Total(sh) <= Window /\ TypeOK
      BY MatchesTyped DEF DInv, Total
    <3> QED
      BY <3>1, SizeAssumption DEF Oversize
  <2>2. ASSUME NEW r \in ToSet(Matches(sh)) \cap ToSet(out)
        PROVE  ToSet(Matches(sh)) \subseteq ToSet(out)
    <3>1. PICK o \in Shard : Owns(o, r) /\ ToSet(Matches(o)) \subseteq ToSet(out)
      BY <2>2 DEF Whole
    <3>2. ToSet(Matches(sh)) \subseteq ToSet(Matches(o))
      BY <2>1, <3>1, WithinOwner
    <3> QED
      BY <3>1, <3>2
  <2> QED
    BY <2>2
<1> HIDE DEF WInv
<1> QED
  BY <1>1, <1>2, <1>3, PTL DEF Spec
=============================================================================
