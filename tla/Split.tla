------------------------------- MODULE Split -------------------------------
(***************************************************************************)
(* The "split" command: RunSplit and runChunkSplit of                      *)
(* src/sekolah-crawler/internal/crawler/split.go.  A list file is divided  *)
(* into numbered parts of -chunk-size rows, or into one file for each      *)
(* value of a column.  The file is given to StartSplit; the files written  *)
(* are the state that stays.                                               *)
(*                                                                         *)
(* Abstractions: a file of the part directory is known by its number or    *)
(* its group; GroupOf stands for columnIndex, slugify and "unknown": two   *)
(* values with one slug are one group.  split ignores Ctrl+C.              *)
(***************************************************************************)
EXTENDS CsvFile, Selection, FiniteSetsExt

CONSTANTS
  Items,        \* rows a list can hold
  ChunkSizes,   \* values of -chunk-size; 0 groups by a column
  GroupOf,      \* row -> the group of its value in that column
  MaxSplits,    \* bound: split commands in a behaviour
  MaxSplitLosses \* bound: writes of split that fail, and kills

ASSUME SplitAssumption == /\ ChunkSizes \subseteq Nat /\ Items \subseteq DOMAIN GroupOf
                          /\ Items \cap {Header, Torn, Garbled} = {}
                          /\ MaxSplits \in Nat /\ MaxSplitLosses \in Nat

VARIABLES
  parts,       \* part number -> lines of its file, for the files that exist
  groups,      \* group -> lines of its file, for the files that exist
  splitPhase,  \* "down", "chunk", "fill", "rows" or "flush"
  splitExit,   \* how the last split ended
  splitOf,     \* the lines it read
  chunkSize,   \* opt.ChunkSize
  done,        \* chunks or rows dealt with
  opened,      \* group -> lines still in the buffer of its writer
  splits, losses

splitVars == <<parts, groups, splitPhase, splitExit, splitOf, chunkSize, done, opened,
               splits, losses>>

SplitTypeOK ==
  /\ \A n \in DOMAIN parts : n \in Nat \ {0} /\ parts[n] \in Seq(Items \cup {Header, Torn, Garbled})
  /\ \A g \in DOMAIN groups : groups[g] \in Seq(Items \cup {Header, Torn, Garbled})
  /\ splitPhase \in {"down", "chunk", "fill", "rows", "flush"}
  /\ splitExit \in {"none", "ok", "error", "killed"}
  /\ splitOf \in Seq(Items \cup {Header, Torn, Garbled})
  /\ chunkSize \in ChunkSizes \cup {0} /\ done \in 0..Len(splitOf)
  /\ DOMAIN opened \subseteq DOMAIN groups
  /\ splits \in 0..MaxSplits /\ losses \in 0..MaxSplitLosses

SplitInit ==
  /\ parts = <<>> /\ groups = <<>> /\ splitPhase = "down" /\ splitExit = "none"
  /\ splitOf = <<>> /\ chunkSize = 0 /\ done = 0 /\ opened = <<>>
  /\ splits = 0 /\ losses = 0

Rows == DataRows(splitOf)

(* Faulty: the last chunk is only there when it is a full one. *)
NumFullChunks == Len(Rows) \div chunkSize

NumChunks == (Len(Rows) + chunkSize - 1) \div chunkSize

(* No such file, a file ReadAll refuses, one without rows, or, to group by  *)
(* a column, one whose first line does not name it.                         *)
CannotSplit(exists, lines, rowsEach) ==
  \/ ~exists \/ ~Readable(lines) \/ Len(lines) <= 1
  \/ rowsEach = 0 /\ Head(lines) # Header

SplitEnds(how) ==
  /\ splitPhase' = "down" /\ splitExit' = how
  /\ done' = 0 /\ opened' = <<>>
  /\ splitOf' = IF how = "ok" THEN splitOf ELSE <<>>

StartSplit(exists, lines, rowsEach) ==
  /\ splitPhase = "down" /\ splits < MaxSplits
  /\ splits' = splits + 1
  /\ chunkSize' = rowsEach
  /\ IF CannotSplit(exists, lines, rowsEach)
       THEN UNCHANGED splitPhase /\ splitExit' = "error" /\ splitOf' = <<>>
       ELSE /\ splitPhase' = IF rowsEach > 0 THEN "chunk" ELSE "rows"
            /\ splitExit' = "none" /\ splitOf' = lines
  /\ done' = 0 /\ opened' = <<>>
  /\ UNCHANGED <<parts, groups, losses>>

(* os.Create: a new file, or an old one emptied. *)
WithFile(files, name, lines) ==
  [x \in DOMAIN files \cup {name} |-> IF x = name THEN lines ELSE files[x]]

-----------------------------------------------------------------------------
(* runChunkSplit *)

Chunk(c) == <<Head(splitOf)>>
            \o SubSeq(Rows, (c - 1) * chunkSize + 1, Min({c * chunkSize, Len(Rows)}))

CreatePart ==
  /\ splitPhase = "chunk" /\ done < NumChunks
  /\ splitPhase' = "fill"
  /\ parts' = WithFile(parts, done + 1, <<>>)
  /\ UNCHANGED <<groups, splitExit, splitOf, chunkSize, done, opened, splits, losses>>

FlushPart ==
  /\ splitPhase = "fill"
  /\ splitPhase' = "chunk"
  /\ parts' = [parts EXCEPT ![done + 1] = Chunk(done + 1)]
  /\ done' = done + 1
  /\ UNCHANGED <<groups, splitExit, splitOf, chunkSize, opened, splits, losses>>

ChunksDone ==
  /\ splitPhase = "chunk" /\ done = NumChunks
  /\ SplitEnds("ok")
  /\ UNCHANGED <<parts, groups, chunkSize, splits, losses>>

(* A write that fails (the run ends with an error) or a kill leaves a first *)
(* piece of the part, its last line perhaps torn.                           *)
PartLost ==
  /\ splitPhase = "fill" /\ losses < MaxSplitLosses
  /\ losses' = losses + 1
  /\ SplitEnds("error") \/ SplitEnds("killed")
  /\ \E k \in 0..Len(Chunk(done + 1)) - 1 :
       \E lines \in Cut(SubSeq(Chunk(done + 1), 1, k)) : parts' = [parts EXCEPT ![done + 1] = lines]
  /\ UNCHANGED <<groups, chunkSize, splits>>

-----------------------------------------------------------------------------
(* The groups of RunSplit: a file is created when its first row comes. *)

(* Faulty: the group is not entered in the map. *)
GroupRowReopening ==
  /\ splitPhase = "rows" /\ done < Len(Rows)
  /\ LET row == Rows[done + 1]
         g   == GroupOf[row]
     IN /\ opened' = WithFile(opened, g, <<Header, row>>)
        /\ groups' = WithFile(groups, g, <<>>)
  /\ done' = done + 1
  /\ UNCHANGED <<parts, splitPhase, splitExit, splitOf, chunkSize, splits, losses>>

GroupRow ==
  /\ splitPhase = "rows" /\ done < Len(Rows)
  /\ LET row == Rows[done + 1]
         g   == GroupOf[row]
     IN IF g \in DOMAIN opened
          THEN opened' = [opened EXCEPT ![g] = Append(@, row)] /\ UNCHANGED groups
          ELSE /\ opened' = WithFile(opened, g, <<Header, row>>)
               /\ groups' = WithFile(groups, g, <<>>)
  /\ done' = done + 1
  /\ UNCHANGED <<parts, splitPhase, splitExit, splitOf, chunkSize, splits, losses>>

GroupRowsDone ==
  /\ splitPhase = "rows" /\ done = Len(Rows)
  /\ splitPhase' = "flush"
  /\ UNCHANGED <<parts, groups, splitExit, splitOf, chunkSize, done, opened, splits, losses>>

(* Flush and Close of one file, in the order of the map; nobody looks at    *)
(* the error.                                                               *)
FlushGroup ==
  /\ splitPhase = "flush"
  /\ \E g \in DOMAIN opened :
       /\ \/ groups' = [groups EXCEPT ![g] = opened[g]] /\ UNCHANGED losses
          \/ losses < MaxSplitLosses /\ losses' = losses + 1 /\ UNCHANGED groups
       /\ opened' = [h \in DOMAIN opened \ {g} |-> opened[h]]
  /\ UNCHANGED <<parts, splitPhase, splitExit, splitOf, chunkSize, done, splits>>

GroupsDone ==
  /\ splitPhase = "flush" /\ DOMAIN opened = {}
  /\ SplitEnds("ok")
  /\ UNCHANGED <<parts, groups, chunkSize, splits, losses>>

(* A kill between two parts, or while groups are in the making, of which    *)
(* what is not flushed is lost; Create or a write fails (an error).         *)
CutShort ==
  /\ splitPhase \in {"chunk", "rows", "flush"} /\ losses < MaxSplitLosses
  /\ losses' = losses + 1
  /\ \/ SplitEnds("killed")
     \/ /\ splitPhase = "rows" \/ (splitPhase = "chunk" /\ done < NumChunks)
        /\ SplitEnds("error")
  /\ UNCHANGED <<parts, groups, chunkSize, splits>>

SplitStep == \/ CreatePart \/ FlushPart \/ ChunksDone \/ PartLost
             \/ GroupRow \/ GroupRowsDone \/ FlushGroup \/ GroupsDone \/ CutShort

-----------------------------------------------------------------------------
(* A split that reports success has divided the rows into parts of at most  *)
(* -chunk-size, in order, none missing and none twice, whatever an earlier  *)
(* split or a killed one left in the directory; it leaves no other part     *)
(* behind if it was the first (a later one leaves those it has no rows for).*)
PartsCoverList ==
  splitExit = "ok" /\ chunkSize > 0 =>
    /\ FlattenSeq([n \in 1..NumChunks |-> DataRows(parts[n])]) = Rows
    /\ \A n \in 1..NumChunks : Len(DataRows(parts[n])) \in 1..chunkSize
    /\ splits = 1 => DOMAIN parts = 1..NumChunks

(* A split by column that reports success has put every row into the file   *)
(* of its value, under a header, in order and once, as long as no flush     *)
(* failed: its error is dropped (split.go:122).                             *)
GroupsCoverList ==
  splitExit = "ok" /\ chunkSize = 0 /\ losses = 0 =>
    \A row \in ToSet(Rows) :
      LET group == {r \in ToSet(Rows) : GroupOf[r] = GroupOf[row]}
      IN  groups[GroupOf[row]] = <<Header>> \o Select(Rows, group)
=============================================================================
