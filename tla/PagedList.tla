----------------------------- MODULE PagedList -----------------------------
(***************************************************************************)
(* The two list commands that page through one query without a checkpoint: *)
(* runSimpleList of src/sekolah-crawler/internal/crawler/list.go, used     *)
(* when -max-records stays inside the result window, and runList of        *)
(* src/pddikti-crawler/main.go.  They differ in the number of the first    *)
(* page and in how they notice the last one.                               *)
(*                                                                         *)
(* Abstractions: a row is the item it is about; the limiter, withRetry and *)
(* Ctrl+C are a request that fails for good; launches are without -restart *)
(* (sekolah only), which would begin with no file.                         *)
(***************************************************************************)
EXTENDS CsvFile, FiniteSetsExt

CONSTANTS
  Tools,        \* which of the two: a subset of {"sekolah", "pddikti"}
  Lists,        \* what the server may list, in its order
  Caps,         \* values of -max-records (sekolah only)
  PageSize,     \* api.MaxPageSize, maxPageSize
  MaxRuns,      \* bound: launches in a behaviour
  MaxKills      \* bound: kills in a behaviour

ASSUME ListAssumption == /\ Tools \subseteq {"sekolah", "pddikti"}
                         /\ \A list \in Lists : list \in Seq(ToSet(list)) /\ IsInjective(list)
                         /\ Caps \subseteq Nat \ {0} /\ PageSize \in Nat \ {0}
                         /\ MaxRuns \in Nat /\ MaxKills \in Nat

VARIABLES
  tool, items, maxRecords,   \* the command: the same one in every launch
  created,    \* the output exists
  out,        \* its lines, of every run
  listPhase,  \* "down", "header", "fetch", "rows" or "check"
  listExit,   \* how the last list process ended
  page,       \* the page asked for
  data,       \* rows of it not yet written
  size,       \* len of the page
  written,    \* rows written by this run
  runs, kills

command  == <<tool, items, maxRecords>>
listFile == <<created, out>>
listVars == <<command, listFile, listPhase, listExit, page, data, size, written, runs, kills>>

FirstPage  == IF tool = "sekolah" THEN 0 ELSE 1
TotalPages == (Len(items) + PageSize - 1) \div PageSize

(* What the server answers for a page. *)
PageOf(p) ==
  LET first == (p - FirstPage) * PageSize
  IN  SubSeq(items, first + 1, Min({first + PageSize, Len(items)}))

ListTypeOK ==
  /\ tool \in Tools /\ items \in Lists /\ maxRecords \in Caps \cup {0}
  /\ created \in BOOLEAN /\ out \in Seq(ToSet(items) \cup {Header, Torn, Garbled})
  /\ listPhase \in {"down", "header", "fetch", "rows", "check"}
  /\ listExit \in {"none", "ok", "error", "killed"}
  /\ page \in 0..Max({1, TotalPages}) /\ data \in Seq(ToSet(items)) /\ size \in 0..PageSize
  /\ written \in Nat /\ runs \in 0..MaxRuns /\ kills \in 0..MaxKills

ListInit ==
  /\ tool \in Tools /\ items \in Lists
  /\ maxRecords \in IF tool = "sekolah" THEN Caps ELSE {0}
  /\ created = FALSE /\ out = <<>> /\ listPhase = "down" /\ listExit = "none"
  /\ page = 0 /\ data = <<>> /\ size = 0 /\ written = 0
  /\ runs = 0 /\ kills = 0

(* The output is opened for appending; the walk starts at the first page.   *)
StartList ==
  /\ listPhase = "down" /\ runs < MaxRuns
  /\ listPhase' = IF created THEN "fetch" ELSE "header"
  /\ created' = TRUE /\ listExit' = "none" /\ runs' = runs + 1
  /\ page' = FirstPage /\ data' = <<>> /\ size' = 0 /\ written' = 0
  /\ UNCHANGED <<command, out, kills>>

WriteHeader ==
  /\ listPhase = "header" /\ listPhase' = "fetch"
  /\ out' = Append(out, Header)
  /\ UNCHANGED <<command, created, listExit, page, data, size, written, runs, kills>>

FetchPage ==
  /\ listPhase = "fetch" /\ listPhase' = "rows"
  /\ data' = PageOf(page) /\ size' = Len(PageOf(page))
  /\ UNCHANGED <<command, listFile, listExit, page, written, runs, kills>>

(* Faulty: the cap is looked at once a page. *)
NotCapped == TRUE

Capped     == tool = "sekolah" /\ written >= maxRecords
MayWrite   == ~Capped

WriteRow ==
  /\ listPhase = "rows" /\ data # <<>> /\ MayWrite
  /\ out' \in Appended(out, Head(data))
  /\ data' = Tail(data)
  /\ written' = written + 1
  /\ UNCHANGED <<command, created, listPhase, listExit, page, size, runs, kills>>

FlushPage ==
  /\ listPhase = "rows" /\ (data = <<>> \/ ~MayWrite)
  /\ listPhase' = "check"
  /\ UNCHANGED <<command, listFile, listExit, page, data, size, written, runs, kills>>

(* Faulty: the page after the last one is asked for. *)
LastByTotalLate == page > TotalPages \/ size = 0

LastBySize  == Capped \/ size < PageSize                 \* runSimpleList
LastByTotal == page >= TotalPages \/ size = 0            \* runList
IsLastPage  == IF tool = "sekolah" THEN LastBySize ELSE LastByTotal

NextPage ==
  /\ listPhase = "check" /\ ~IsLastPage
  /\ listPhase' = "fetch"
  /\ page' = page + 1
  /\ UNCHANGED <<command, listFile, listExit, data, size, written, runs, kills>>

ListEnds(how) ==
  /\ listPhase' = "down" /\ listExit' = how
  /\ page' = 0 /\ data' = <<>> /\ size' = 0
  /\ written' = IF how = "ok" THEN written ELSE 0

FinishList ==
  /\ listPhase = "check" /\ IsLastPage
  /\ ListEnds("ok")
  /\ UNCHANGED <<command, listFile, runs, kills>>

(* The file does not open, the limiter or the request is cancelled, the     *)
(* request fails for good, a row, the header or the flush fails;            *)
(* runSimpleList also looks at ctx between two pages.                       *)
ListFails ==
  /\ \/ listPhase \in {"header", "fetch", "rows"}
     \/ listPhase = "check" /\ tool = "sekolah" /\ ~IsLastPage
  /\ ListEnds("error")
  /\ UNCHANGED <<command, listFile, runs, kills>>

(* The rows of a page leave the writer in pieces of its buffer's size. *)
KillList ==
  /\ listPhase # "down" /\ kills < MaxKills
  /\ kills' = kills + 1
  /\ out' \in IF listPhase = "rows" /\ data # <<>> THEN Cut(out) ELSE {out}
  /\ ListEnds("killed")
  /\ UNCHANGED <<command, created, runs>>

ListStep == WriteHeader \/ FetchPage \/ ListFails \/ WriteRow \/ FlushPage \/ NextPage \/ FinishList

ListNext == StartList \/ ListStep \/ KillList

ListSpec == ListInit /\ [][ListNext]_listVars

-----------------------------------------------------------------------------
(* What a run that returns nil has appended: the whole list, or its first   *)
(* -max-records items, in order, once, unless a killed run has left a torn  *)
(* line for it to append to.  It never resumes, though pddikti main.go:633  *)
(* and sekolah main.go:12 say so: the rows of earlier runs, those that were *)
(* interrupted too, stay before its own, and the file lists them twice.     *)
Expected == IF tool = "sekolah" THEN SubSeq(items, 1, Min({maxRecords, Len(items)}))
            ELSE items

SuccessIsExact ==
  /\ listPhase = "down" /\ listExit = "ok"
  /\ {Torn, Garbled} \cap ToSet(out) = {}
  => IsSuffix(Expected, out) /\ written = Len(Expected)
=============================================================================
