----------------------------- MODULE JiraImport -----------------------------
(***************************************************************************)
(* src/jiraimport/main.go: the rows of a CSV sheet are given the NPSP and  *)
(* NPYP codes of the school or foundation that their summary matches best  *)
(* in a database, and the sheet is replaced, by a rename.  Meanwhile its   *)
(* user may edit the sheet, and the crm may change the database.           *)
(*                                                                         *)
(* Abstractions: a header cell is its kind; the summary of a row, with its *)
(* city, is one value; hits (the first, coarse ranking of a record for a   *)
(* summary) and score (of scoreCandidate) are given with the database; the *)
(* statistics, the log and the byte order mark are left out.               *)
(***************************************************************************)
EXTENDS Integers, Sequences, SequencesExt, FiniteSetsExt

CONSTANTS
  Sheets,       \* what the user may start from: a header and rows
  Summaries,    \* what a row can be about
  Generic,      \* those without a distinctive word
  YayQueries,   \* those that name a foundation rather than a school
  Databases,    \* [inst, yay: tables; hits, score: summary -> record -> number]
  Empty,        \* ""
  NoRecord,     \* the zero Institution or Yayasan
  Limit,        \* limitInst, limitYay (120 in the code)
  Threshold,    \* 25
  MaxLaunches, MaxEdits, MaxChanges, MaxKills   \* bounds: runs of the program,
                \* edits of the sheet, changes of the database, kills

Absent == <<>>
Kinds  == {"summary", "npyp", "npsp", "other"}

(* A header that is not empty and rows of any length. *)
IsList(s)      == s \in Seq(ToSet(s))
IsSheet(lines) == /\ IsList(lines) /\ lines # <<>> /\ lines[1] \in Seq(Kinds) \ {<<>>}
                  /\ \A r \in DOMAIN lines : IsList(lines[r])

ASSUME ImportAssumption ==
  /\ \A sheet \in Sheets : IsSheet(sheet)
  /\ \A d \in Databases, s \in Summaries : DOMAIN d.inst.hits[s] \subseteq DOMAIN d.inst.npsn
  /\ Empty \notin Summaries /\ Generic \subseteq Summaries /\ YayQueries \subseteq Summaries
  /\ Limit \in Nat \ {0} /\ Threshold \in Int
  /\ {MaxLaunches, MaxEdits, MaxChanges, MaxKills} \subseteq Nat

VARIABLES
  start,          \* the sheet the user began with (history)
  file, tmp,      \* path -> its lines, Absent if there is no such file
  db,             \* the database now
  phase,          \* "down", "read", "insts", "yays", "rows", "write", "tmp", "rename"
  inPlace, dryRun,\* the flags of this run
  input,          \* the lines read
  rows,           \* the lines in memory
  next,           \* the row to be matched
  instDb, yayDb,  \* the databases the two tables were loaded from
  importedWith,   \* what the sheet was last imported with; <<>> after an edit
  launches, edits, changes, kills

disk   == <<start, file, tmp>>
flags  == <<inPlace, dryRun>>
memory == <<input, rows, next, instDb, yayDb>>
bounds == <<launches, edits, changes, kills>>
vars   == <<disk, db, phase, flags, memory, importedWith, bounds>>

Paths  == {"csv", "out"}
Target == IF inPlace THEN "csv" ELSE "out"

TypeOK ==
  /\ start \in Sheets /\ DOMAIN file = Paths /\ DOMAIN tmp = Paths /\ file["csv"] # Absent
  /\ \A p \in Paths : file[p] # Absent => IsSheet(file[p])
  /\ {db, instDb, yayDb} \subseteq Databases
  /\ phase \in {"down", "read", "insts", "yays", "rows", "write", "tmp", "rename"}
  /\ {inPlace, dryRun} \subseteq BOOLEAN
  /\ next \in 0..Len(rows) + 1 /\ Len(rows) = Len(input)
  /\ launches \in 0..MaxLaunches /\ edits \in 0..MaxEdits
  /\ changes \in 0..MaxChanges /\ kills \in 0..MaxKills

Init ==
  /\ start \in Sheets
  /\ file = [p \in Paths |-> IF p = "csv" THEN start ELSE Absent]
  /\ tmp = [p \in Paths |-> Absent]
  /\ db \in Databases /\ instDb = db /\ yayDb = db
  /\ phase = "down" /\ inPlace = TRUE /\ dryRun = FALSE
  /\ input = <<>> /\ rows = <<>> /\ next = 0 /\ importedWith = <<>>
  /\ launches = 0 /\ edits = 0 /\ changes = 0 /\ kills = 0

-----------------------------------------------------------------------------
(* Columns.  The first summary column counts, else the first column; of the *)
(* code columns the last; one that is missing is appended.                  *)
Columns(header, kind) == {c \in DOMAIN header : header[c] = kind}
SummaryCol(header)    == Min(Columns(header, "summary") \cup
                             (IF Columns(header, "summary") = {} THEN {1} ELSE {}))
CodeCol(header, kind) == Max(Columns(header, kind))

(* Faulty: the columns are appended without a look at the header. *)
ExtendedAlways(header) == header \o <<"npyp", "npsp">>

With(header, kind) == IF Columns(header, kind) = {} THEN Append(header, kind) ELSE header
Extended(header)   == With(With(header, "npyp"), "npsp")

(* A row is padded up to the header; longer ones stay as they are. *)
Padded(row, header) ==
  [c \in 1..Max({Len(row), Len(header)}) |-> IF c <= Len(row) THEN row[c] ELSE Empty]

-----------------------------------------------------------------------------
(* Search.  Only the Limit candidates with the most hits are scored; sort   *)
(* and the iteration over a map leave the order of equal hits open, and the *)
(* first candidate of the highest score is kept.                            *)
Shortlists(hits) ==
  LET cands == {x \in DOMAIN hits : hits[x] > 0}
  IN  {top \in SUBSET cands :
         /\ Cardinality(top) = Min({Limit, Cardinality(cands)})
         /\ \A x \in top, y \in cands \ top : hits[x] >= hits[y]}

Ahead(x, y, hits, score) == score[x] > score[y] \/ (score[x] = score[y] /\ hits[x] >= hits[y])

Firsts(top, hits, score) ==
  IF top = {} THEN {NoRecord}
  ELSE {x \in top : \A y \in top : Ahead(x, y, hits, score)}

(* What may come out as bestInst or bestYay. *)
Bests(table, s) ==
  UNION {Firsts(top, table.hits[s], table.score[s]) : top \in Shortlists(table.hits[s])}

Passes(table, s, x) == x # NoRecord /\ table.score[s][x] >= Threshold

Codes(npsp, npyp) == [npsp |-> npsp, npyp |-> npyp]

(* An institution brings the code of its foundation along. *)
Result(insts, yays, s, inst, yay) ==
  LET isInst == Passes(insts, s, inst)
      isYay  == Passes(yays, s, yay)
  IN  IF isYay /\ (s \in YayQueries \/ ~isInst) THEN Codes(Empty, yays.npyp[yay])
      ELSE IF isInst THEN Codes(insts.npsn[inst], insts.npyp[inst])
      ELSE Codes(Empty, Empty)

(* Faulty: the code of the foundation is the best foundation's. *)
SearchBoth(insts, yays, s) ==
  IF s \notin Summaries \ Generic THEN {Codes(Empty, Empty)}
  ELSE {Codes(IF Passes(insts, s, i) THEN insts.npsn[i] ELSE Empty,
              IF Passes(yays, s, y) THEN yays.npyp[y] ELSE Empty) :
          i \in Bests(insts, s), y \in Bests(yays, s)}

Search(insts, yays, s) ==
  IF s \notin Summaries \ Generic THEN {Codes(Empty, Empty)}
  ELSE {Result(insts, yays, s, i, y) : i \in Bests(insts, s), y \in Bests(yays, s)}

(* A code that was found replaces what the cell held; one that was not      *)
(* leaves it.                                                               *)
Filled(row, header, codes) ==
  LET wide == Padded(row, header)
      Gets(c, kind, found) == found # Empty /\ c = CodeCol(header, kind)
  IN  [c \in DOMAIN wide |-> IF Gets(c, "npsp", codes.npsp) THEN codes.npsp
                            ELSE IF Gets(c, "npyp", codes.npyp) THEN codes.npyp
                            ELSE wide[c]]

SummaryOf(row, header) == row[SummaryCol(header)]

-----------------------------------------------------------------------------
Quits == phase' = "down" /\ UNCHANGED <<flags, memory>>

Launch ==
  /\ phase = "down" /\ launches < MaxLaunches
  /\ phase' = "read" /\ launches' = launches + 1
  /\ inPlace' \in BOOLEAN /\ dryRun' \in BOOLEAN
  /\ UNCHANGED <<disk, db, memory, importedWith, edits, changes, kills>>

(* Read whole, and the header extended. *)
ReadSheet ==
  /\ phase = "read" /\ phase' = "insts"
  /\ input' = file["csv"]
  /\ rows' = <<Extended(Head(file["csv"]))>> \o Tail(file["csv"])
  /\ next' = 2
  /\ UNCHANGED <<disk, db, flags, instDb, yayDb, importedWith, bounds>>

(* loadDatabase: two queries, not in one transaction. *)
LoadInstitutions ==
  /\ phase = "insts" /\ phase' = "yays"
  /\ instDb' = db
  /\ UNCHANGED <<disk, db, flags, input, rows, next, yayDb, importedWith, bounds>>

LoadYayasans ==
  /\ phase = "yays" /\ phase' = "rows"
  /\ yayDb' = db
  /\ UNCHANGED <<disk, db, flags, input, rows, next, instDb, importedWith, bounds>>

MatchRow ==
  /\ phase = "rows" /\ next <= Len(rows)
  /\ \E codes \in Search(instDb.inst, yayDb.yay, SummaryOf(Padded(rows[next], rows[1]), rows[1])) :
       rows' = [rows EXCEPT ![next] = Filled(rows[next], rows[1], codes)]
  /\ next' = next + 1
  /\ UNCHANGED <<disk, db, phase, flags, input, instDb, yayDb, importedWith, bounds>>

(* A dry run stops here. *)
RowsDone ==
  /\ phase = "rows" /\ next > Len(rows)
  /\ phase' = IF dryRun THEN "down" ELSE "write"
  /\ UNCHANGED <<disk, db, flags, memory, importedWith, bounds>>

(* Faulty: the file itself is truncated and written. *)
OpenTarget ==
  /\ phase = "write" /\ phase' = "tmp"
  /\ file' = [file EXCEPT ![Target] = Absent]
  /\ UNCHANGED <<start, tmp, db, flags, memory, importedWith, bounds>>

(* os.WriteFile truncates, *)
OpenTmp ==
  /\ phase = "write" /\ phase' = "tmp"
  /\ tmp' = [tmp EXCEPT ![Target] = Absent]
  /\ UNCHANGED <<start, file, db, flags, memory, importedWith, bounds>>

(* then writes. *)
WriteTmp ==
  /\ phase = "tmp" /\ phase' = "rename"
  /\ tmp' = [tmp EXCEPT ![Target] = rows]
  /\ UNCHANGED <<start, file, db, flags, memory, importedWith, bounds>>

Rename ==
  /\ phase = "rename" /\ phase' = "down"
  /\ file' = [file EXCEPT ![Target] = tmp[Target]]
  /\ tmp' = [tmp EXCEPT ![Target] = Absent]
  /\ importedWith' = IF inPlace THEN <<instDb, yayDb>> ELSE importedWith
  /\ UNCHANGED <<start, db, flags, memory, bounds>>

(* log.Fatalf: a file or the database does not open, or a write fails. *)
Fails ==
  /\ phase \in {"read", "insts", "yays", "write", "rename"}
  /\ Quits
  /\ UNCHANGED <<disk, db, importedWith, bounds>>

(* A kill, or a disk that is full, may leave a first piece of the temporary *)
(* file.                                                                    *)
Kill ==
  /\ phase # "down" /\ kills < MaxKills
  /\ kills' = kills + 1
  /\ \/ UNCHANGED tmp
     \/ phase = "tmp" /\ \E k \in 1..Len(rows) : tmp' = [tmp EXCEPT ![Target] = SubSeq(rows, 1, k)]
  /\ Quits
  /\ UNCHANGED <<start, file, db, importedWith, launches, edits, changes>>

-----------------------------------------------------------------------------
(* The user writes another summary into a row and saves. *)
EditSheet ==
  /\ edits < MaxEdits /\ edits' = edits + 1
  /\ \E r \in 2..Len(file["csv"]), s \in Summaries :
       LET col == SummaryCol(file["csv"][1])
           row == [file["csv"][r] EXCEPT ![col] = s]
       IN /\ col \in DOMAIN file["csv"][r] /\ file["csv"][r][col] # s
          /\ file' = [file EXCEPT !["csv"] = [@ EXCEPT ![r] = row]]
  /\ importedWith' = <<>>
  /\ UNCHANGED <<start, tmp, db, phase, flags, memory, launches, changes, kills>>

ChangeDatabase ==
  /\ changes < MaxChanges /\ changes' = changes + 1
  /\ db' \in Databases \ {db}
  /\ UNCHANGED <<disk, phase, flags, memory, importedWith, launches, edits, kills>>

Next ==
  \/ Launch \/ ReadSheet \/ LoadInstitutions \/ LoadYayasans \/ MatchRow \/ RowsDone
  \/ OpenTmp \/ WriteTmp \/ Rename \/ Fails \/ Kill \/ EditSheet \/ ChangeDatabase

Spec == Init /\ [][Next]_vars

-----------------------------------------------------------------------------
CodeCols(header) ==
  {CodeCol(header, kind) : kind \in {k \in {"npyp", "npsp"} : Columns(header, k) # {}}}

(* new is old with its code columns filled in, and no other cell under its  *)
(* header touched, no row missing and none in another place.                *)
SameSheet(new, old) ==
  /\ Len(new) = Len(old)
  /\ IsPrefix(old[1], new[1]) /\ Len(new[1]) <= Len(old[1]) + 2
  /\ \A r \in 2..Len(old) :
       \A c \in DOMAIN old[1] \ CodeCols(old[1]) :
         c \in DOMAIN old[r] => new[r][c] = old[r][c]

(* Whatever fails, is killed or changes in between: a step of the program   *)
(* that changes the sheet replaces it, in one step, by the whole of it with *)
(* codes filled in, unless the user saved an edit during the run, which is  *)
(* overwritten; a dry run, or one with -out, leaves the sheet alone.        *)
ImportKeepsSheet ==
  [][file'["csv"] # file["csv"] /\ edits' = edits =>
       /\ inPlace /\ ~dryRun
       /\ input = file["csv"] => SameSheet(file'["csv"], file["csv"])]_vars

(* No tie anywhere: what Search finds is determined. *)
Determined(insts, yays) ==
  \A s \in Summaries : \A a, b \in Search(insts, yays, s) : a = b

(* No code column is taken for the summaries, as the first column is when   *)
(* no header cell says summary: a code would be what the next run looks for.*)
Apart(header) == SummaryCol(header) \notin CodeCols(header)

(* A sheet that was imported and neither edited nor imported with another   *)
(* database since is left as it is by another import, if there are no ties  *)
(* (between equal scores every run may choose another record) and codes and *)
(* summaries are apart.                                                     *)
RerunChangesNothing ==
  [][phase = "rename" /\ phase' = "down" /\ inPlace /\ kills' = kills
       /\ input = file["csv"] /\ importedWith = <<instDb, yayDb>>
       /\ Determined(instDb.inst, yayDb.yay) /\ Apart(input[1])
     => file'["csv"] = file["csv"]]_vars

(* The two codes of a row belong together: the school with that NPSP has    *)
(* that foundation.  It holds for a sheet that started without codes, over  *)
(* any number of runs, as long as the database is the same, no summary is   *)
(* edited and there are no ties; else a cell that an earlier run filled may *)
(* stay beside a new one.                                                   *)
Belong(npsp, npyp, insts) ==
  npsp = Empty \/ \E x \in DOMAIN insts.npsn : insts.npsn[x] = npsp /\ insts.npyp[x] = npyp

WithoutCodes(sheet) ==
  \A r \in 2..Len(sheet) : /\ Len(sheet[r]) <= Len(sheet[1])
                           /\ \A c \in CodeCols(sheet[1]) \cap DOMAIN sheet[r] : sheet[r][c] = Empty

PairsMatch ==
  LET sheet == file["csv"]
  IN  /\ WithoutCodes(start) /\ importedWith # <<>> /\ changes = 0 /\ edits = 0
      /\ Determined(db.inst, db.yay)
      => \A r \in 2..Len(sheet) :
           Belong(sheet[r][CodeCol(sheet[1], "npsp")], sheet[r][CodeCol(sheet[1], "npyp")], db.inst)
=============================================================================
