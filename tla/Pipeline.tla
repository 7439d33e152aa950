------------------------------ MODULE Pipeline ------------------------------
(***************************************************************************)
(* The commands as their user chains them, each reading the file that the  *)
(* one before it left, whatever its end: "list" (module PagedList), then   *)
(* "detail" over its output (the pddikti crawler, or a small list), or     *)
(* "split" (module Split) and run_parts.sh (module PartRunner).  Any of    *)
(* them may be launched again; only one runs at a time, apart from a       *)
(* detail process that has survived its script.                            *)
(***************************************************************************)
EXTENDS PagedList, Split, PartRunner

CONSTANTS
  Flows,        \* a subset of {"whole", "parts", "groups"}
  MaxCommands,  \* bound: list and split commands together
  MaxTroubles   \* bound: kills, failures and interruptions of all commands

ASSUME FlowAssumption == /\ Flows \subseteq {"whole", "parts", "groups"}
                         /\ Items \cup {Garbled} = Ids
                         /\ \A list \in Lists : ToSet(list) \subseteq Items

VARIABLE flow   \* what follows the list: "detail", "split" by size, or by a column

vars == <<flow, listVars, splitVars, runVars>>

TypeOK == flow \in Flows /\ ListTypeOK /\ SplitTypeOK /\ RunTypeOK

Init ==
  /\ flow \in Flows
  /\ ListInit /\ SplitInit /\ RunInit
  /\ flow # "whole" => tool = "sekolah"     \* pddikti has no split

Quiet == listPhase = "down" /\ splitPhase = "down" /\ Idle

(* A new list or split: the script has to be run again. *)
Outdated == /\ scriptExit' = "none"
            /\ UNCHANGED <<partLogs, script, part, last, first, results, procs, runBounds>>

List == Quiet /\ StartList /\ Outdated /\ UNCHANGED <<flow, splitVars>>

ListRuns == ListStep /\ UNCHANGED <<flow, splitVars, runVars>>

ListKilled == KillList /\ UNCHANGED <<flow, splitVars, runVars>>

SplitList ==
  /\ flow # "whole" /\ Quiet
  /\ \E n \in ChunkSizes : /\ (flow = "groups") <=> (n = 0)
                          /\ StartSplit(created, out, n)
  /\ Outdated /\ UNCHANGED <<flow, listVars>>

SplitRuns == SplitStep /\ UNCHANGED <<flow, listVars, runVars>>

(* "detail" over the list. *)
DetailWhole ==
  /\ flow = "whole" /\ Quiet /\ StartScript(0, 0)
  /\ UNCHANGED <<flow, listVars, splitVars>>

(* ./run_parts.sh START-END *)
RunParts(from, to) ==
  /\ flow # "whole" /\ Quiet
  /\ IF parts = <<>> THEN NoParts ELSE StartScript(from, to)
  /\ UNCHANGED <<flow, listVars, splitVars>>

(* What "detail" is given: the list as part 0, or the files of the split;   *)
(* pddikti's panics on a file without any line.                             *)
Files == CASE flow # "whole" -> parts
           [] flow = "whole" /\ created -> [n \in {0} |-> out]
           [] OTHER -> <<>>

DetailRuns == RunStep(Files, tool = "pddikti") /\ UNCHANGED <<flow, listVars, splitVars>>

Trouble ==
  /\ \/ Interrupted \/ KillChild \/ KillAll
     \/ flow # "whole" /\ KillScript
  /\ UNCHANGED <<flow, listVars, splitVars>>

Next ==
  \/ List \/ ListRuns \/ ListKilled \/ SplitList \/ SplitRuns
  \/ DetailWhole \/ (\E from, to \in 1..MaxParts : from <= to /\ RunParts(from, to))
  \/ DetailRuns \/ Trouble

Bounded == /\ runs + splits <= MaxCommands
           /\ kills + losses + outages + crashes <= MaxTroubles

(* The running command goes on; the user launches "detail" for the whole    *)
(* range again and again, and nothing else for ever.                        *)
Fairness ==
  /\ WF_vars(ListRuns) /\ WF_vars(SplitRuns)
  /\ WF_vars(DetailRuns)
  /\ SF_vars(DetailWhole) /\ SF_vars(RunParts(1, MaxParts))

Spec == Init /\ [][Next /\ Bounded']_vars /\ Fairness

-----------------------------------------------------------------------------
Listed(n) == ToSet(DataRows(Files[n])) \ {Header, Torn, Garbled}

(* The files "detail" was given hold the whole list.                        *)
FedWithList ==
  /\ listExit = "ok" /\ Clean(out)
  /\ flow # "whole" => /\ splitExit = "ok" /\ splitOf = out /\ chunkSize > 0
                       /\ first = 1 /\ last >= NumChunks

(* Exit code 0 down the whole chain (list, split, the script over every     *)
(* part) means that every item that was to be listed is settled: it is in   *)
(* the checkpoint or in the error log of a part.  Neither an interrupted    *)
(* part, nor old parts and old checkpoints, nor an orphan can pass for it.  *)
ExitZeroSettlesList ==
  scriptExit = "0" /\ FedWithList =>
    \A x \in ToSet(Expected) : \E n \in Names : x \in acks[n] \cup errs[n]

(* No item is listed twice. *)
ItemsOnce(file) == \A i, j \in DOMAIN file : file[i] = file[j] /\ file[i] \in Items => i = j

(* Parts do not interfere (run_parts.sh:9): as long as no process is killed *)
(* between a row and its checkpoint line and the list is neither repeated   *)
(* nor split anew, no item gets two rows in the outputs of all parts,       *)
(* however often the script is interrupted and run again.                   *)
NoSchoolTwice ==
  crashes = 0 /\ splits <= 1 /\ ItemsOnce(out) =>
    \A x \in Items : rowsOf[x] < Many

(* "just re-run the exact same command" (run_parts.sh:12): in the end every *)
(* item of every part that can be read has its row and its checkpoint line, *)
(* whatever was interrupted, killed or failed before.                       *)
AllFetched ==
  \A n \in DOMAIN Files \cap Names :
    Readable(Files[n]) => \A x \in Listed(n) : rowsOf[x] > 0 /\ x \in acks[n]
RerunsFinish == <>[]AllFetched
=============================================================================
