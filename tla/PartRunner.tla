----------------------------- MODULE PartRunner -----------------------------
(***************************************************************************)
(* src/sekolah-crawler/run_parts.sh: "detail" run over a range of parts,   *)
(* one at a time, and the detail processes it starts, as far as the files  *)
(* of one part can tell.  What a detail process promises is AppendThenAck  *)
(* (DetailCrawl implements it): a row, then its acknowledgement.           *)
(*                                                                         *)
(* Part 0 is the whole list, given to "detail" itself and not to the       *)
(* script: a loop of one.  The lines of a part come from PartFile; a part  *)
(* that has no file is not in its domain.                                  *)
(*                                                                         *)
(* Abstractions: a row is the id it is about, and only whether it is       *)
(* written never, once or more often (Many) is kept; the results are "OK", *)
(* "SKIPPED" and "INTERRUPTED"; the width of part numbers is always the    *)
(* same.                                                                   *)
(***************************************************************************)
EXTENDS CsvFile, Selection, FiniteSetsExt

CONSTANTS
  Ids,          \* ids that may be listed, Garbled among them
  NoId,         \* no row is due
  MaxParts,     \* bound: the highest part number
  MaxOutages,   \* bound: ids that fail after all retries, and Ctrl+C
  MaxCrashes    \* bound: kills of a detail process, of the script, of the machine

ASSUME RunnerAssumption == /\ MaxParts \in Nat /\ MaxOutages \in Nat /\ MaxCrashes \in Nat
                           /\ Garbled \in Ids /\ NoId \notin Ids

Names    == 0..MaxParts
Crawlers == {"child", "orphan"}
Many     == 2

VARIABLES
  (* On disk *)
  acks,        \* part -> its checkpoint
  errs,        \* part -> its error log
  rowsOf,      \* id -> rows about it, in the outputs of all parts: 0, 1 or Many
  (* The script *)
  script,      \* "off" or "loop"
  part, last,  \* the loop variable and END
  first,       \* START
  results,     \* part -> RESULTS
  scriptExit,  \* its exit code: "none", "0", "1", "killed"
  (* Detail processes: the script's, and one whose script was killed *)
  alive,       \* crawler -> it runs
  at,          \* crawler -> its part
  todo,        \* crawler -> pending ids not settled yet
  due,         \* crawler -> the id between row and checkpoint line
  (* Bounds *)
  outages, crashes

partLogs  == <<acks, errs, rowsOf>>
loop      == <<script, part, last, first, results, scriptExit>>
procs     == <<alive, at, todo, due>>
runBounds == <<outages, crashes>>
runVars   == <<partLogs, loop, procs, runBounds>>

RunTypeOK ==
  /\ acks \in [Names -> SUBSET Ids] /\ errs \in [Names -> SUBSET Ids]
  /\ rowsOf \in [Ids -> 0..Many]
  /\ script \in {"off", "loop"} /\ first \in Names /\ last \in Names /\ part \in 0..MaxParts + 1
  /\ results \in [Names -> {"none", "OK", "SKIPPED", "INTERRUPTED"}]
  /\ scriptExit \in {"none", "0", "1", "killed"}
  /\ alive \in [Crawlers -> BOOLEAN] /\ at \in [Crawlers -> Names]
  /\ todo \in [Crawlers -> Seq(Ids)] /\ due \in [Crawlers -> Ids \cup {NoId}]
  /\ outages \in 0..MaxOutages /\ crashes \in 0..MaxCrashes

RunInit ==
  /\ acks = [n \in Names |-> {}] /\ errs = [n \in Names |-> {}]
  /\ rowsOf = [x \in Ids |-> 0]
  /\ script = "off" /\ first = 0 /\ last = 0 /\ part = 0
  /\ results = [n \in Names |-> "none"] /\ scriptExit = "none"
  /\ alive = [c \in Crawlers |-> FALSE] /\ at = [c \in Crawlers |-> 0]
  /\ todo = [c \in Crawlers |-> <<>>] /\ due = [c \in Crawlers |-> NoId]
  /\ outages = 0 /\ crashes = 0

Idle == script = "off"

-----------------------------------------------------------------------------
(* The script *)
StartScript(from, to) ==
  /\ Idle
  /\ script' = "loop" /\ first' = from /\ part' = from /\ last' = to
  /\ results' = [n \in Names |-> "none"] /\ scriptExit' = "none"
  /\ UNCHANGED <<partLogs, procs, runBounds>>

(* Without any part file it stops at once. *)
NoParts ==
  /\ Idle
  /\ scriptExit' = "1" /\ results' = [n \in Names |-> "none"]
  /\ UNCHANGED <<partLogs, script, part, last, first, procs, runBounds>>

GoesOn(result) ==
  /\ results' = [results EXCEPT ![part] = result]
  /\ part' = part + 1
  /\ UNCHANGED <<script, last, first, scriptExit>>

(* Of a script that is gone only START and END of a success are remembered. *)
Ends(code) ==
  /\ script' = "off" /\ scriptExit' = code
  /\ results' = [n \in Names |-> "none"] /\ part' = 0
  /\ IF code = "0" THEN UNCHANGED <<first, last>> ELSE first' = 0 /\ last' = 0

InLoop == script = "loop" /\ part <= last /\ ~alive["child"]

SkipPart(files) ==
  /\ InLoop /\ part > 0 /\ part \notin DOMAIN files
  /\ GoesOn("SKIPPED")
  /\ UNCHANGED <<partLogs, procs, runBounds>>

(* readIDs fails when there is no file (the script has looked for it, but   *)
(* not for the whole list) or on a torn one; pddikti's panics on one        *)
(* without any line.                                                        *)
Reads(files, emptyPanics) ==
  /\ part \in DOMAIN files
  /\ Readable(files[part])
  /\ emptyPanics => files[part] # <<>>

DetailFails(files, emptyPanics) ==
  /\ InLoop
  /\ part > 0 => part \in DOMAIN files
  /\ ~Reads(files, emptyPanics)
  /\ GoesOn("INTERRUPTED")
  /\ UNCHANGED <<partLogs, procs, runBounds>>

(* Faulty: an id in the error log is taken for done. *)
PendingUnlessLogged(lines, n) ==
  LET ids == DataRows(lines) IN Select(ids, ToSet(ids) \ (acks[n] \cup errs[n]))

(* Faulty: the checkpoint is not read. *)
PendingAll(lines, n) == DataRows(lines)

Pending(lines, n) == LET ids == DataRows(lines) IN Select(ids, ToSet(ids) \ acks[n])

RunPart(files, emptyPanics) ==
  /\ InLoop /\ Reads(files, emptyPanics)
  /\ alive' = [alive EXCEPT !["child"] = TRUE]
  /\ at' = [at EXCEPT !["child"] = part]
  /\ todo' = [todo EXCEPT !["child"] = Pending(files[part], part)]
  /\ due' = [due EXCEPT !["child"] = NoId]
  /\ UNCHANGED <<partLogs, loop, runBounds>>

SummaryCode == IF \E n \in Names : results[n] = "INTERRUPTED" THEN "1" ELSE "0"

FinishScript ==
  /\ script = "loop" /\ part > last /\ ~alive["child"]
  /\ Ends(SummaryCode)
  /\ UNCHANGED <<partLogs, procs, runBounds>>

-----------------------------------------------------------------------------
(* Detail processes.  Workers settle the pending ids in any order, each     *)
(* alone between a row and its checkpoint line.                             *)
Without(c, i) == todo' = [todo EXCEPT ![c] = RemoveAt(@, i)]

WriteRowOf(c) ==
  /\ alive[c] /\ due[c] = NoId
  /\ \E i \in DOMAIN todo[c] :
       /\ todo[c][i] # Garbled
       /\ rowsOf' = [rowsOf EXCEPT ![todo[c][i]] = Min({@ + 1, Many})]
       /\ due' = [due EXCEPT ![c] = todo[c][i]]
       /\ Without(c, i)
  /\ UNCHANGED <<acks, errs, loop, alive, at, runBounds>>

AckRow(c) ==
  /\ alive[c] /\ due[c] # NoId
  /\ acks' = [acks EXCEPT ![at[c]] = @ \cup {due[c]}]
  /\ due' = [due EXCEPT ![c] = NoId]
  /\ UNCHANGED <<errs, rowsOf, loop, alive, at, todo, runBounds>>

(* All attempts failed; an id that nobody has always does. *)
GiveUp(c) ==
  /\ alive[c] /\ due[c] = NoId
  /\ \E i \in DOMAIN todo[c] :
       /\ IF todo[c][i] = Garbled THEN UNCHANGED outages
          ELSE outages < MaxOutages /\ outages' = outages + 1
       /\ errs' = [errs EXCEPT ![at[c]] = @ \cup {todo[c][i]}]
       /\ Without(c, i)
  /\ UNCHANGED <<acks, rowsOf, loop, alive, at, due, crashes>>

Gone(c) ==
  /\ alive' = [alive EXCEPT ![c] = FALSE]
  /\ todo' = [todo EXCEPT ![c] = <<>>] /\ due' = [due EXCEPT ![c] = NoId]
  /\ UNCHANGED at

(* Exit code 0, also when ids have failed. *)
PartDone ==
  /\ alive["child"] /\ todo["child"] = <<>> /\ due["child"] = NoId
  /\ Gone("child")
  /\ GoesOn("OK")
  /\ UNCHANGED <<partLogs, runBounds>>

OrphanDone ==
  /\ alive["orphan"] /\ todo["orphan"] = <<>> /\ due["orphan"] = NoId
  /\ Gone("orphan")
  /\ UNCHANGED <<partLogs, loop, runBounds>>

(* Requests under way are cancelled and their ids logged as failed. *)
Cancelled ==
  /\ alive["child"] /\ due["child"] = NoId
  /\ outages < MaxOutages /\ outages' = outages + 1
  /\ \E ids \in SUBSET ToSet(todo["child"]) :
       errs' = [errs EXCEPT ![at["child"]] = @ \cup ids]
  /\ Gone("child")
  /\ UNCHANGED <<acks, rowsOf, crashes>>

(* Faulty: after Ctrl+C the part counts as done. *)
InterruptedOK == Cancelled /\ GoesOn("OK")

(* Ctrl+C reaches the detail process, which exits with 1; bash waits for it *)
(* and, since it was not killed by the signal, goes on with the next part.  *)
Interrupted == Cancelled /\ GoesOn("INTERRUPTED")

Crash == crashes < MaxCrashes /\ crashes' = crashes + 1 /\ UNCHANGED outages

(* The out-of-memory killer takes the detail process: the loop goes on. *)
KillChild ==
  /\ alive["child"] /\ Crash
  /\ Gone("child")
  /\ GoesOn("INTERRUPTED")
  /\ UNCHANGED partLogs

(* The script alone is killed: the detail process it had started goes on.   *)
KillScript ==
  /\ script = "loop" /\ ~alive["orphan"] /\ Crash
  /\ Ends("killed")
  /\ alive' = [alive EXCEPT !["child"] = FALSE, !["orphan"] = alive["child"]]
  /\ at' = [at EXCEPT !["orphan"] = at["child"]]
  /\ todo' = [todo EXCEPT !["child"] = <<>>, !["orphan"] = todo["child"]]
  /\ due' = [due EXCEPT !["child"] = NoId, !["orphan"] = due["child"]]
  /\ UNCHANGED partLogs

(* The machine goes down. *)
KillAll ==
  /\ script = "loop" \/ alive["orphan"]
  /\ Crash
  /\ Ends("killed")
  /\ alive' = [c \in Crawlers |-> FALSE]
  /\ todo' = [c \in Crawlers |-> <<>>] /\ due' = [c \in Crawlers |-> NoId]
  /\ UNCHANGED <<partLogs, at>>

CrawlStep == \E c \in Crawlers : WriteRowOf(c) \/ AckRow(c) \/ GiveUp(c)

RunStep(files, emptyPanics) ==
  \/ SkipPart(files) \/ DetailFails(files, emptyPanics) \/ RunPart(files, emptyPanics)
  \/ FinishScript \/ PartDone \/ OrphanDone \/ CrawlStep

RunTrouble == Interrupted \/ KillChild \/ KillScript \/ KillAll
=============================================================================
