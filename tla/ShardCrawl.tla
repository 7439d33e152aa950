---------------------------- MODULE ShardCrawl ----------------------------
(***************************************************************************)
(* The "list" phase of sekolah-crawler with sharding: RunList and the      *)
(* listState methods of src/sekolah-crawler/internal/crawler/list.go and   *)
(* the kabupaten discovery of discover.go.                                 *)
(*                                                                         *)
(* One goroutine walks a tree of queries (shards).  A query whose total    *)
(* fits the server's result window is paged into memory, its rows are      *)
(* written, and its key goes to the shard checkpoint; a larger one is      *)
(* split by kabupaten, then status, then bentuk.  The recursion of crawl   *)
(* is the agenda: the shards still to visit, in depth-first order.         *)
(*                                                                         *)
(* Abstractions: a row is the school it is about and reaches the file      *)
(* whole; every launch is given the same filters; withRetry and Ctrl+C are *)
(* a request that fails for good; what the index holds does not change.    *)
(* The server is external: a page it answers is the right slice of the     *)
(* matching schools (Steady), or, when its order is not stable, any        *)
(* schools that match.                                                     *)
(***************************************************************************)
EXTENDS Selection, FiniteSets, SequencesExt, FiniteSetsExt

CONSTANTS
  Schools,        \* the index, in its order
  Kab,            \* school -> its kabupaten, or NoKab
  Status,         \* school -> its status_sekolah
  Bentuk,         \* school -> its bentuk_pendidikan
  NoFilter,       \* an empty filter
  NoKab,          \* the empty kabupaten of a school that has none
  KabOrder,       \* kabupaten names, sorted
  Statuses,       \* <<"NEGERI", "SWASTA">>
  Categories,     \* what ListBentukPendidikan answers
  Window,         \* api.MaxResultWindow
  PageSize,       \* api.MaxPageSize
  MaxRecords,     \* -max-records, 0 is unlimited
  Bases,          \* -kabupaten-kota, -status-sekolah, -bentuk-pendidikan given to list
  RestartFlags,   \* values of -restart a launch may use
  Steady,         \* the server pages in a stable order
  MaxKills,       \* bound: kills in a behaviour
  MaxOutages,     \* bound: requests that fail for good, files that do not open
  MaxFaults       \* bound: writes and removes that fail

ASSUME IndexAssumption == /\ Schools \in Seq(DOMAIN Kab) /\ IsInjective(Schools)
                          /\ DOMAIN Status = DOMAIN Kab /\ DOMAIN Bentuk = DOMAIN Kab
                          /\ KabOrder \in Seq(ToSet(KabOrder)) /\ NoKab \notin ToSet(KabOrder)
                          /\ \A s \in DOMAIN Kab : Kab[s] \in ToSet(KabOrder) \cup {NoKab}
                          /\ Statuses \in Seq(ToSet(Statuses))
                          /\ Categories \in Seq(ToSet(Categories))
                          /\ NoFilter \notin ToSet(KabOrder) \cup ToSet(Statuses) \cup ToSet(Categories)
ASSUME SizeAssumption  == /\ PageSize \in Nat \ {0} /\ Window \in Nat /\ PageSize <= Window
                          /\ MaxRecords \in Nat /\ (MaxRecords = 0 \/ MaxRecords > Window)
                          /\ MaxKills \in Nat /\ MaxOutages \in Nat /\ MaxFaults \in Nat
ASSUME FlagAssumption  == RestartFlags \subseteq BOOLEAN /\ Steady \in BOOLEAN

VARIABLES
  (* On disk *)
  outFile,    \* OutPath: "absent", "bare" (created, no header) or "headed"
  out,        \* the data rows of OutPath
  shardLog,   \* OutPath.shards, the checkpoint
  cache,      \* KabupatenCachePath
  (* In the process *)
  base,       \* baseFilters, the same in every launch
  phase,      \* where RunList is
  exit,       \* how the last process ended
  agenda,     \* shards to visit, the current one first
  doneShards, \* st.doneShards
  seenIDs,    \* st.seenIDs
  written,    \* st.written
  page,       \* pages of the current shard fetched so far
  full,       \* len(data) = MaxPageSize for the last of them
  buffer,     \* rows of the current shard not yet written
  scans,      \* discovery: categories still to scan
  found,      \* discovery: kabupaten seen
  csvErr,     \* sticky error of the csv writer
  halfGone,   \* a removal of the last -restart failed: files that do not belong together
  (* Bounds *)
  kills, outages, faults

disk   == <<outFile, out, shardLog, cache>>
walk   == <<agenda, doneShards, seenIDs, written>>
pager  == <<page, full, buffer>>
finder == <<scans, found>>
bounds == <<kills, outages, faults>>
flags  == <<base, halfGone>>
vars   == <<disk, flags, phase, exit, walk, pager, finder, csvErr, bounds>>

All      == ToSet(Schools)
KabNames == ToSet(KabOrder)

(* A query; a shard is known by the filters splitting added to the base.   *)
Shard  == [kb : KabNames \cup {NoFilter}, st : ToSet(Statuses) \cup {NoFilter},
           bp : ToSet(Categories) \cup {NoFilter}]
Root   == [kb |-> NoFilter, st |-> NoFilter, bp |-> NoFilter]

ASSUME BaseAssumption == Bases \subseteq Shard /\ Bases # {}

Query(sh) ==
  LET Over(own, given) == IF own # NoFilter THEN own ELSE given
  IN  [kb |-> Over(sh.kb, base.kb), st |-> Over(sh.st, base.st), bp |-> Over(sh.bp, base.bp)]

Fits(s, q) == /\ q.kb \in {NoFilter, Kab[s]}
              /\ q.st \in {NoFilter, Status[s]}
              /\ q.bp \in {NoFilter, Bentuk[s]}

(* The schools a query matches, in the order of the index. *)
Index     == [q \in Shard |-> Select(Schools, {s \in All : Fits(s, q)})]
Answer(q) == Index[q]

(* Nothing rests on this (it is lemma AnswerTyped of ShardCrawlProofs): TLC *)
(* makes a table of the index when it evaluates it.                         *)
ASSUME IndexTabulated == Index \in [Shard -> Seq(All)]

Matches(sh) == Answer(Query(sh))
Total(sh)   == Len(Matches(sh))
Oversize(sh) == Total(sh) > Window

(* Page p of a query, counted from 0.  Out of order, the server may repeat  *)
(* schools of other pages, leave some out, or answer a short page.          *)
PagesOf(sh, p) ==
  LET m == Matches(sh)
  IN  IF Steady THEN {SubSeq(m, p * PageSize + 1, Min({(p + 1) * PageSize, Len(m)}))}
      ELSE {SetToSeq(P) : P \in UNION {kSubset(n, ToSet(m)) : n \in 0..PageSize}}

Phases == {"down", "rmShards", "rmOut", "load", "open", "header", "start", "crawl", "page",
           "rows", "mark", "split", "cache", "discover", "save", "verify"}

TypeOK ==
  /\ outFile \in {"absent", "bare", "headed"}
  /\ out \in Seq(All)
  /\ shardLog \subseteq Shard
  /\ cache \in Seq(KabNames)
  /\ base \in Bases /\ halfGone \in BOOLEAN
  /\ phase \in Phases
  /\ exit \in {"none", "error", "killed", "capped", "verified", "gap", "unverified"}
  /\ agenda \in Seq(Shard)
  /\ doneShards \subseteq Shard
  /\ seenIDs \subseteq All
  /\ written \in Nat
  /\ page \in Nat /\ full \in BOOLEAN /\ buffer \in Seq(All)
  /\ scans \in Seq(ToSet(Categories) \cup {NoFilter})
  /\ found \subseteq KabNames
  /\ csvErr \in BOOLEAN
  /\ kills \in 0..MaxKills
  /\ outages \in 0..MaxOutages
  /\ faults \in 0..MaxFaults

FreshMemory ==
  /\ agenda' = <<>> /\ doneShards' = {} /\ seenIDs' = {} /\ written' = 0
  /\ page' = 0 /\ full' = FALSE /\ buffer' = <<>>
  /\ scans' = <<>> /\ found' = {} /\ csvErr' = FALSE

Init ==
  /\ outFile = "absent" /\ out = <<>> /\ shardLog = {} /\ cache = <<>>
  /\ base \in Bases /\ halfGone = FALSE
  /\ phase = "down" /\ exit = "none"
  /\ agenda = <<>> /\ doneShards = {} /\ seenIDs = {} /\ written = 0
  /\ page = 0 /\ full = FALSE /\ buffer = <<>>
  /\ scans = <<>> /\ found = {} /\ csvErr = FALSE
  /\ kills = 0 /\ outages = 0 /\ faults = 0

Happens(lost) ==
  /\ lost => faults < MaxFaults
  /\ faults' = IF lost THEN faults + 1 ELSE faults

GoOn(from, to) == phase = from /\ phase' = to /\ UNCHANGED exit
Ends(how)      == phase' = "down" /\ exit' = how

-----------------------------------------------------------------------------
Launch(restart) ==
  /\ phase = "down"
  /\ phase' = IF restart THEN "rmShards" ELSE "load"
  /\ exit' = "none"
  /\ FreshMemory
  /\ UNCHANGED <<disk, bounds, flags>>

(* -restart: the checkpoint goes before the output; errors are ignored. *)
RemoveShards ==
  /\ GoOn("rmShards", "rmOut")
  /\ \E lost \in BOOLEAN :
       /\ Happens(lost)
       /\ shardLog' = IF lost THEN shardLog ELSE {}
       /\ halfGone' = lost
  /\ UNCHANGED <<outFile, out, cache, base, walk, pager, finder, csvErr, kills, outages>>

RemoveOut ==
  /\ GoOn("rmOut", "load")
  /\ \E lost \in BOOLEAN :
       /\ Happens(lost)
       /\ outFile' = IF lost THEN outFile ELSE "absent"
       /\ out' = IF lost THEN out ELSE <<>>
       /\ halfGone' = (halfGone \/ lost)
  /\ UNCHANGED <<shardLog, cache, base, walk, pager, finder, csvErr, kills, outages>>

LoadShardsDone ==
  /\ GoOn("load", "open")
  /\ doneShards' = shardLog
  /\ UNCHANGED <<disk, agenda, seenIDs, written, pager, finder, csvErr, bounds, flags>>

OpenOut ==
  /\ GoOn("open", IF outFile = "absent" THEN "header" ELSE "start")
  /\ outFile' = IF outFile = "absent" THEN "bare" ELSE outFile
  /\ UNCHANGED <<out, shardLog, cache, walk, pager, finder, csvErr, bounds, flags>>

(* A failed flush of the header comes out with the rows of the first shard. *)
WriteHeader ==
  /\ GoOn("header", "start")
  /\ \E lost \in BOOLEAN :
       /\ Happens(lost)
       /\ outFile' = IF lost THEN "bare" ELSE "headed"
       /\ csvErr' = lost
  /\ UNCHANGED <<out, shardLog, cache, walk, pager, finder, kills, outages, flags>>

(* The checkpoint is opened and st.crawl(ctx, baseFilters, "root") called. *)
StartCrawl ==
  /\ GoOn("start", "crawl")
  /\ agenda' = <<Root>>
  /\ UNCHANGED <<disk, doneShards, seenIDs, written, pager, finder, csvErr, bounds, flags>>

(* pageShard's loop condition. *)
MorePages == full /\ page * PageSize < Total(Head(agenda))

Outage == outages < MaxOutages /\ outages' = outages + 1

(* What of the current phase can fail: not what is settled without a        *)
(* request, and of splitFurther only the list of categories.                *)
CanFail ==
  /\ phase \in {"load", "open", "start", "crawl", "page", "split", "cache", "discover"}
  /\ phase = "crawl" => agenda # <<>> /\ Head(agenda) \notin doneShards
  /\ phase = "page" => MorePages
  /\ phase = "split" => /\ Query(Head(agenda)).st # NoFilter
                        /\ Query(Head(agenda)).bp = NoFilter
                        /\ Query(Head(agenda)).kb # NoFilter

(* Faulty: a shard whose request failed is marked done as well. *)
FailsMarkingDone ==
  /\ CanFail
  /\ Outage
  /\ Ends("error")
  /\ shardLog' = IF phase \in {"crawl", "page"} THEN shardLog \cup {Head(agenda)} ELSE shardLog
  /\ UNCHANGED <<outFile, out, cache, walk, pager, finder, csvErr, kills, faults, flags>>

(* A file cannot be read or opened, or a request failed for good (also:     *)
(* Ctrl+C); RunList returns the error.                                      *)
Fails ==
  /\ CanFail
  /\ Outage
  /\ Ends("error")
  /\ UNCHANGED <<disk, walk, pager, finder, csvErr, kills, faults, flags>>

-----------------------------------------------------------------------------
(* crawl *)
SkipShard ==
  /\ GoOn("crawl", "crawl")
  /\ agenda # <<>> /\ Head(agenda) \in doneShards
  /\ agenda' = Tail(agenda)
  /\ UNCHANGED <<disk, doneShards, seenIDs, written, pager, finder, csvErr, bounds, flags>>

(* The first page tells the total: nothing to do, split, or page. *)
FirstPage ==
  /\ agenda # <<>> /\ Head(agenda) \notin doneShards
  /\ LET sh == Head(agenda)
     IN \/ /\ Total(sh) = 0
           /\ GoOn("crawl", "mark")
           /\ UNCHANGED pager
        \/ /\ Oversize(sh)
           /\ GoOn("crawl", "split")
           /\ UNCHANGED pager
        \/ /\ Total(sh) # 0 /\ ~Oversize(sh)
           /\ GoOn("crawl", "page")
           /\ \E data \in PagesOf(sh, 0) : buffer' = data /\ full' = (Len(data) = PageSize)
           /\ page' = 1
  /\ UNCHANGED <<disk, walk, finder, csvErr, bounds, flags>>

(* Faulty: every page is written when it arrives. *)
NextPageWrittenThrough ==
  /\ GoOn("page", "page")
  /\ MorePages
  /\ out' = out \o buffer
  /\ \E data \in PagesOf(Head(agenda), page) :
       /\ buffer' = data
       /\ full' = (Len(data) = PageSize)
  /\ page' = page + 1
  /\ UNCHANGED <<outFile, shardLog, cache, walk, finder, csvErr, bounds, flags>>

NextPage ==
  /\ GoOn("page", "page")
  /\ MorePages
  /\ \E data \in PagesOf(Head(agenda), page) :
       /\ buffer' = buffer \o data
       /\ full' = (Len(data) = PageSize)
  /\ page' = page + 1
  /\ UNCHANGED <<disk, walk, finder, csvErr, bounds, flags>>

LastPage ==
  /\ GoOn("page", "rows")
  /\ ~MorePages
  /\ UNCHANGED <<disk, walk, pager, finder, csvErr, bounds, flags>>

(* Faulty: rows are written whether or not they were seen. *)
WriteSeenRow ==
  /\ GoOn("rows", "rows")
  /\ ~csvErr /\ buffer # <<>>
  /\ buffer' = Tail(buffer)
  /\ out' = Append(out, Head(buffer))
  /\ seenIDs' = seenIDs \cup {Head(buffer)}
  /\ written' = written + 1
  /\ UNCHANGED <<outFile, shardLog, cache, agenda, doneShards, page, full, finder, csvErr, bounds, flags>>

(* One row of the loop over the buffer; bufio hands it on at any time up to *)
(* the Flush, so a kill keeps the rows written so far.                      *)
WriteRow ==
  /\ GoOn("rows", "rows")
  /\ ~csvErr /\ buffer # <<>>
  /\ buffer' = Tail(buffer)
  /\ LET id == Head(buffer)
     IN IF id \in seenIDs THEN UNCHANGED <<out, seenIDs, written>>
        ELSE /\ out' = Append(out, id)
             /\ seenIDs' = seenIDs \cup {id}
             /\ written' = written + 1
  /\ UNCHANGED <<outFile, shardLog, cache, agenda, doneShards, page, full, finder, csvErr, bounds, flags>>

(* w.Write or w.Error reports a failed write, now or since the header. *)
WriteFails ==
  /\ phase = "rows"
  /\ Happens(~csvErr)
  /\ Ends("error")
  /\ UNCHANGED <<disk, walk, pager, finder, csvErr, kills, outages, flags>>

(* Faulty: w.Error() is not asked. *)
FlushUnchecked ==
  /\ buffer = <<>> \/ csvErr
  /\ GoOn("rows", "mark")
  /\ UNCHANGED <<disk, walk, pager, finder, csvErr, bounds, flags>>

FlushShard ==
  /\ buffer = <<>> /\ ~csvErr
  /\ GoOn("rows", "mark")
  /\ UNCHANGED <<disk, walk, pager, finder, csvErr, bounds, flags>>

(* markDone, whose write error is dropped; then errMaxReached ends the run. *)
MarkDone ==
  /\ phase = "mark"
  /\ \E lost \in BOOLEAN :
       /\ Happens(lost)
       /\ shardLog' = IF lost THEN shardLog ELSE shardLog \cup {Head(agenda)}
  /\ doneShards' = doneShards \cup {Head(agenda)}
  /\ agenda' = Tail(agenda)
  /\ IF MaxRecords > 0 /\ written >= MaxRecords
       THEN Ends("capped")
       ELSE GoOn("mark", "crawl")
  /\ UNCHANGED <<outFile, out, cache, seenIDs, written, pager, finder, csvErr, kills, outages, flags>>

-----------------------------------------------------------------------------
(* splitFurther: the current shard gives way to its children. *)
Descend(children) == agenda' = children \o Tail(agenda)

ByKab(sh, kabs) == [i \in DOMAIN kabs |-> [sh EXCEPT !.kb = kabs[i]]]
ByStatus(sh)    == [i \in DOMAIN Statuses |-> [sh EXCEPT !.st = Statuses[i]]]
ByBentuk(sh)    == [i \in DOMAIN Categories |-> [sh EXCEPT !.bp = Categories[i]]]

Split ==
  /\ phase = "split"
  /\ LET sh == Head(agenda)
         q  == Query(sh)
     IN \/ q.kb = NoFilter /\ GoOn("split", "cache") /\ UNCHANGED agenda
        \/ /\ q.kb # NoFilter /\ q.st = NoFilter
           /\ GoOn("split", "crawl") /\ Descend(ByStatus(sh))
        \/ /\ q.kb # NoFilter /\ q.st # NoFilter /\ q.bp = NoFilter
           /\ GoOn("split", "crawl") /\ Descend(ByBentuk(sh))
        \/ /\ NoFilter \notin {q.kb, q.st, q.bp}               \* "skipping it"
           /\ GoOn("split", "mark") /\ UNCHANGED agenda
  /\ UNCHANGED <<disk, doneShards, seenIDs, written, pager, finder, csvErr, bounds, flags>>

(* LoadOrDiscoverKabupaten: a cache with any line in it is the whole list. *)
UseCache ==
  /\ cache # <<>>
  /\ GoOn("cache", "crawl")
  /\ Descend(ByKab(Head(agenda), cache))
  /\ UNCHANGED <<disk, doneShards, seenIDs, written, pager, finder, csvErr, bounds, flags>>

StartDiscovery ==
  /\ cache = <<>>
  /\ GoOn("cache", "discover")
  /\ scans' = <<NoFilter>> \o Categories
  /\ found' = {}
  /\ UNCHANGED <<disk, walk, pager, csvErr, bounds, flags>>

(* What one scan can reach: the rows of the pages inside the window,        *)
(* whatever the base filters.                                               *)
Reached(bentuk) ==
  LET m == Answer([Root EXCEPT !.bp = bentuk])
  IN  ToSet(SubSeq(m, 1, Min({(Window \div PageSize) * PageSize, Len(m)})))

(* Faulty: the empty kabupaten is collected too. *)
ScanKeepingEmpty ==
  /\ scans # <<>>
  /\ GoOn("discover", "discover")
  /\ found' = found \cup {Kab[s] : s \in Reached(Head(scans))}
  /\ scans' = Tail(scans)
  /\ UNCHANGED <<disk, walk, pager, csvErr, bounds, flags>>

(* Faulty: the page number is not advanced and the scan starts over. *)
ScanStuck ==
  /\ scans # <<>>
  /\ GoOn("discover", "discover")
  /\ found' = found \cup ({Kab[s] : s \in Reached(Head(scans))} \ {NoKab})
  /\ UNCHANGED <<disk, walk, pager, scans, csvErr, bounds, flags>>

ScanCategory ==
  /\ scans # <<>>
  /\ GoOn("discover", "discover")
  /\ found' = found \cup ({Kab[s] : s \in Reached(Head(scans))} \ {NoKab})
  /\ scans' = Tail(scans)
  /\ UNCHANGED <<disk, walk, pager, csvErr, bounds, flags>>

(* saveKabupatenCache: create or truncate, then write line after line. *)
CreateCache ==
  /\ scans = <<>>
  /\ GoOn("discover", "save")
  /\ cache' = <<>>
  /\ UNCHANGED <<outFile, out, shardLog, walk, pager, finder, csvErr, bounds, flags>>

(* sort.Strings *)
Discovered == Select(KabOrder, found)

SaveKabupaten ==
  /\ Len(cache) < Len(Discovered)
  /\ GoOn("save", "save")
  /\ cache' = Append(cache, Discovered[Len(cache) + 1])
  /\ UNCHANGED <<outFile, out, shardLog, walk, pager, finder, csvErr, bounds, flags>>

(* What was saved stays in the file. *)
SaveFails ==
  /\ phase = "save"
  /\ Happens(TRUE)
  /\ Ends("error")
  /\ UNCHANGED <<disk, walk, pager, finder, csvErr, kills, outages, flags>>

CacheSaved ==
  /\ Len(cache) = Len(Discovered)
  /\ GoOn("save", "crawl")
  /\ Descend(ByKab(Head(agenda), Discovered))
  /\ UNCHANGED <<disk, doneShards, seenIDs, written, pager, finder, csvErr, bounds, flags>>

-----------------------------------------------------------------------------
(* The walk is over: RunList flushes and, with no -max-records, verifies. *)
FinishCrawl ==
  /\ phase = "crawl" /\ agenda = <<>>
  /\ IF csvErr \/ MaxRecords > 0
       THEN Ends(IF csvErr THEN "error" ELSE "capped")
       ELSE GoOn("crawl", "verify")
  /\ UNCHANGED <<disk, walk, pager, finder, csvErr, bounds, flags>>

(* Faulty: the header is counted as a row. *)
CountWithHeader == Len(out) + 1

(* countCSVDataRows takes the first line for the header. *)
CountCSVDataRows == IF outFile = "headed" \/ out = <<>> THEN Len(out) ELSE Len(out) - 1

VerifyCoverage ==
  /\ phase = "verify"
  /\ Ends(IF CountCSVDataRows = Total(Root) THEN "verified" ELSE "gap")
  /\ UNCHANGED <<disk, walk, pager, finder, csvErr, bounds, flags>>

VerifyFails ==
  /\ phase = "verify"
  /\ Outage
  /\ Ends("unverified")
  /\ UNCHANGED <<disk, walk, pager, finder, csvErr, kills, faults, flags>>

(* SIGKILL, the OOM killer: memory is gone, the files stay. *)
Kill ==
  /\ phase # "down"
  /\ kills < MaxKills
  /\ kills' = kills + 1 /\ UNCHANGED <<outages, faults>>
  /\ Ends("killed")
  /\ FreshMemory
  /\ UNCHANGED <<disk, flags>>

Setup == RemoveShards \/ RemoveOut \/ LoadShardsDone \/ OpenOut \/ WriteHeader \/ StartCrawl
Crawl == \/ SkipShard \/ FirstPage \/ NextPage \/ LastPage \/ WriteRow \/ WriteFails
         \/ FlushShard \/ MarkDone \/ Split \/ UseCache \/ StartDiscovery \/ ScanCategory
         \/ CreateCache \/ SaveKabupaten \/ SaveFails
         \/ CacheSaved
RunList == Setup \/ Crawl \/ FinishCrawl \/ VerifyCoverage \/ VerifyFails \/ Fails

Next == (\E restart \in RestartFlags : Launch(restart)) \/ RunList \/ Kill

Spec == Init /\ [][Next]_vars

(* The process is scheduled and its requests end (30 s timeout, 5 attempts).*)
FairSpec == Spec /\ WF_vars(RunList)

(* The operator re-runs the command. *)
RerunSpec == FairSpec /\ WF_vars(Launch(FALSE))

-----------------------------------------------------------------------------
(* The shards crawl can come to: a filter is added where there is none yet. *)
Reachable(sh) == /\ \A f \in {"kb", "st", "bp"} : base[f] # NoFilter => sh[f] = NoFilter
                 /\ sh.st # NoFilter => Query(sh).kb # NoFilter
                 /\ sh.bp # NoFilter => NoFilter \notin {Query(sh).kb, Query(sh).st}

(* A shard in the checkpoint has all its rows in the output, so skipping it *)
(* loses nothing; shards that were too large to page are the documented     *)
(* exception.  Through kills, failed writes and -restart, also one that     *)
(* repairs an earlier -restart that removed one file of the two.            *)
DoneShardsComplete ==
  ~halfGone => \A sh \in shardLog : ~Oversize(sh) => ToSet(Matches(sh)) \subseteq ToSet(out)

(* A run that fails or is interrupted leaves no part of a shard behind      *)
(* (list.go:84-88): of a shard small enough to page, all rows or none.      *)
(* A kill or a failed write while the rows go out may leave some.           *)
AllOrNothing ==
  phase # "rows" /\ kills = 0 /\ faults = 0 =>
    LET listed == ToSet(out)
    IN  \A sh \in {x \in Shard : Reachable(x)} :
          LET rows == Matches(sh)
          IN  Len(rows) <= Window => ToSet(rows) \cap listed \in {{}, ToSet(rows)}

(* No school is listed twice (list.go:84-88), whatever order the server     *)
(* pages in and however often the command is re-run, until a kill or a      *)
(* failed write falls between the rows of a shard and its checkpoint line.  *)
NoDuplicateRows == kills = 0 /\ faults = 0 => IsInjective(out)

(* "reports any gap rather than assuming silent completeness"               *)
(* (discover.go:20-24): a run that prints "coverage verified" has every     *)
(* school of the index in the output.  The counts it compares are fooled    *)
(* by the repeated rows of a kill or a failed write.                        *)
VerifiedIsComplete ==
  kills = 0 /\ faults = 0 /\ exit = "verified" => ToSet(Matches(Root)) \subseteq ToSet(out)

(* Every run ends: splitting makes progress and paging stops. *)
RunTerminates == phase # "down" ~> phase = "down"

(* The schools the sharding can find: they lie in some shard that fits the  *)
(* window, and if that shard is one of a kabupaten, it is discovered.       *)
Discoverable == UNION {{Kab[s] : s \in Reached(c)} : c \in ToSet(Categories) \cup {NoFilter}}
Findable     ==
  LET names == Discoverable \cup {NoFilter}
  IN  UNION {LET rows == Matches(sh) IN IF Len(rows) <= Window THEN ToSet(rows) ELSE {} :
               sh \in {x \in Shard : Reachable(x) /\ x.kb \in names}}

(* Re-running "skips every finished shard and resumes the one that was in   *)
(* progress" (README.md:95-97): every findable school is listed in the end. *)
ResumeCompletes == <>[](Findable \subseteq ToSet(out))

(* It does after outages and Ctrl+C, at any request of any run, and when    *)
(* -restart is not given for ever.                                          *)
ResumeAfterOutages ==
  /\ [](kills = 0 /\ faults = 0)
  /\ ~[]<><<Launch(TRUE)>>_vars
  => ResumeCompletes
=============================================================================
