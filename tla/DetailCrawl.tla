---------------------------- MODULE DetailCrawl ----------------------------
(***************************************************************************)
(* The "detail" phase of sekolah-crawler: crawler.RunDetail in             *)
(* src/sekolah-crawler/internal/crawler/detail.go, its withRetry loop      *)
(* (retry.go) and the Ctrl+C context main.go hands to it.                  *)
(*                                                                         *)
(* A run reads the ids of IdsFile that are not in the checkpoint, feeds    *)
(* them over an unbuffered channel to Workers, and each worker appends the *)
(* row of a fetched id to the output, its body to the raw log, and its id  *)
(* to the checkpoint, under one mutex.  Processes are interrupted (Ctrl+C),*)
(* killed or lose power at any step; whatever they appended stays on disk  *)
(* and a later Launch resumes from it.                                     *)
(*                                                                         *)
(* Abstractions: a row, a raw body and a checkpoint line are the id they   *)
(* are about; a write is one append (the raw body and its newline are two, *)
(* as in the code); time is left out, so the rate limiter is a step that   *)
(* may take any time (module RateLimiter has its clock).                   *)
(***************************************************************************)
EXTENDS Naturals, Sequences, FiniteSets, SequencesExt

CONSTANTS
  Ids,            \* sekolah_id values
  IdsFile,        \* the rows of IDsPath, in file order
  Workers,        \* the goroutines running worker()
  NoWorker,       \* writeMu is free
  Newline,        \* the separator of the raw log
  MaxAttempts,    \* maxAttempts of withRetry (5 in the code)
  MaxRecords,     \* -max-records, 0 is unlimited
  RawPath,        \* -raw-jsonl is given
  ErrPath,        \* -error-log is given
  RestartFlags,   \* values of -restart a launch may use
  Replies,        \* kinds of reply the server gives
  MaxKills,       \* bound: kills and power failures in a behaviour
  PowerLoss,      \* the machine may lose power
  MaxFaults       \* bound: opens, writes and removes that fail in a behaviour

ASSUME IdsAssumption     == IdsFile \in Seq(Ids)
ASSUME WorkersAssumption == Workers # {} /\ NoWorker \notin Workers
ASSUME NewlineAssumption == Newline \notin Ids
ASSUME LimitsAssumption  == /\ MaxAttempts \in Nat \ {0}
                            /\ MaxRecords \in Nat
                            /\ MaxKills \in Nat
                            /\ MaxFaults \in Nat
ASSUME FlagsAssumption   == /\ RawPath \in BOOLEAN
                            /\ ErrPath \in BOOLEAN
                            /\ PowerLoss \in BOOLEAN
                            /\ RestartFlags \subseteq BOOLEAN
                            /\ Replies \subseteq {"ok", "retryable", "client"}

VARIABLES
  (* On disk *)
  outFile,    \* OutPath: "absent", "bare" (created, no header) or "headed"
  out,        \* the data rows of OutPath
  raw,        \* RawJSONLPath: bodies and newlines
  doneLog,    \* DoneLogPath, the checkpoint
  errLog,     \* the ids that have a line in ErrorLogPath
  (* In the process *)
  phase,      \* where RunDetail's own goroutine is
  exit,       \* how the last process ended
  ctxDone,    \* ctx.Err() # nil
  queue,      \* positions of the pending records not yet sent on jobs
  total,      \* len(pending)
  job,        \* position of the record a worker holds, 0 for none
  wpc,        \* where a worker is
  attempt,    \* withRetry's attempt
  writeMu,    \* holder of writeMu
  csvErr,     \* sticky error of csvW's bufio.Writer
  processed, failed,  \* the counters of RunDetail
  (* Bounds *)
  kills,      \* kills and power failures so far
  faults      \* failed file operations so far

disk    == <<outFile, out, raw, doneLog, errLog>>
control == <<phase, exit, ctxDone, queue, total>>
workers == <<job, wpc, attempt, writeMu, csvErr, processed, failed>>
bounds  == <<kills, faults>>
vars    == <<disk, control, workers, bounds>>

Positions == DOMAIN IdsFile

Setup == {"rmDone", "rmOut", "rmRaw", "rmErr", "load", "open", "header", "spawn"}
Phases == Setup \cup {"down", "feed", "join"}

(* Worker states.  "write" .. "mark" hold writeMu. *)
Critical     == {"raw", "newline", "mark"}
WorkerStates == {"off", "recv", "got", "wait", "fetch", "backoff", "failed",
                 "fetched", "exited"} \cup Critical

TypeOK ==
  /\ outFile \in {"absent", "bare", "headed"}
  /\ out \in Seq(Ids)
  /\ raw \in Seq(Ids \cup {Newline})
  /\ doneLog \in Seq(Ids)
  /\ errLog \subseteq Ids
  /\ phase \in Phases
  /\ exit \in {"none", "ok", "error", "killed"}
  /\ ctxDone \in BOOLEAN
  /\ queue \subseteq Positions
  /\ total \in Nat
  /\ job \in [Workers -> Positions \cup {0}]
  /\ wpc \in [Workers -> WorkerStates]
  /\ attempt \in [Workers -> 0..MaxAttempts]
  /\ writeMu \in Workers \cup {NoWorker}
  /\ csvErr \in BOOLEAN
  /\ processed \in Nat
  /\ failed \in Nat
  /\ kills \in 0..MaxKills
  /\ faults \in 0..MaxFaults

IdOf(w) == IdsFile[job[w]]
Acked   == ToSet(doneLog)

Idle(n)  == [w \in Workers |-> n]
AllAt(s) == [w \in Workers |-> s]

Init ==
  /\ outFile = "absent" /\ out = <<>> /\ raw = <<>> /\ doneLog = <<>> /\ errLog = {}
  /\ phase = "down" /\ exit = "none" /\ ctxDone = FALSE /\ queue = {} /\ total = 0
  /\ job = Idle(0) /\ wpc = AllAt("off") /\ attempt = Idle(0)
  /\ writeMu = NoWorker /\ csvErr = FALSE /\ processed = 0 /\ failed = 0
  /\ kills = 0 /\ faults = 0

(* The memory of a process that has not started its work. *)
FreshMemory ==
  /\ ctxDone' = FALSE /\ queue' = {} /\ total' = 0
  /\ job' = Idle(0) /\ wpc' = AllAt("off") /\ attempt' = Idle(0)
  /\ writeMu' = NoWorker /\ csvErr' = FALSE /\ processed' = 0 /\ failed' = 0

-----------------------------------------------------------------------------
(* A file operation either happens or is lost to an error. *)
Happens(lost) ==
  /\ lost => faults < MaxFaults
  /\ faults' = IF lost THEN faults + 1 ELSE faults

(* main.go: a new process with a fresh signal context runs "detail". *)
Launch(restart) ==
  /\ phase = "down"
  /\ phase' = IF restart THEN "rmDone" ELSE "load"
  /\ exit' = "none"
  /\ FreshMemory
  /\ UNCHANGED <<disk, bounds>>

(* Ctrl+C or SIGTERM: signal.NotifyContext cancels ctx. *)
Interrupt ==
  /\ phase # "down" /\ ~ctxDone
  /\ ctxDone' = TRUE
  /\ UNCHANGED <<disk, phase, exit, queue, total, workers, bounds>>

(* Faulty: the checkpoint survives -restart. *)
RemoveDoneForgotten ==
  /\ phase = "rmDone"
  /\ phase' = "rmOut"
  /\ UNCHANGED <<disk, exit, ctxDone, queue, total, workers, bounds>>

(* -restart removes the files one by one, ignoring os.Remove's errors. *)
RemoveDone ==
  /\ phase = "rmDone"
  /\ phase' = "rmOut"
  /\ \E lost \in BOOLEAN :
       /\ Happens(lost)
       /\ doneLog' = IF lost THEN doneLog ELSE <<>>
  /\ UNCHANGED <<outFile, out, raw, errLog, exit, ctxDone, queue, total, workers, kills>>

RemoveOut ==
  /\ phase = "rmOut"
  /\ phase' = "rmRaw"
  /\ \E lost \in BOOLEAN :
       /\ Happens(lost)
       /\ outFile' = IF lost THEN outFile ELSE "absent"
       /\ out' = IF lost THEN out ELSE <<>>
  /\ UNCHANGED <<raw, doneLog, errLog, exit, ctxDone, queue, total, workers, kills>>

RemoveRaw ==
  /\ phase = "rmRaw"
  /\ phase' = "rmErr"
  /\ \E lost \in BOOLEAN :
       /\ Happens(lost)
       /\ raw' = IF lost \/ ~RawPath THEN raw ELSE <<>>
  /\ UNCHANGED <<outFile, out, doneLog, errLog, exit, ctxDone, queue, total, workers, kills>>

RemoveErr ==
  /\ phase = "rmErr"
  /\ phase' = "load"
  /\ \E lost \in BOOLEAN :
       /\ Happens(lost)
       /\ errLog' = IF lost \/ ~ErrPath THEN errLog ELSE {}
  /\ UNCHANGED <<outFile, out, raw, doneLog, exit, ctxDone, queue, total, workers, kills>>

(* Faulty: the checkpoint is not consulted; failed ids count as settled. *)
PendingRegardless    == Positions
PendingUnlessFailed  == {i \in Positions : IdsFile[i] \notin Acked \cup errLog}

(* The pending records, cut to the first MaxRecords of them. *)
PendingAll == {i \in Positions : IdsFile[i] \notin Acked}
Pending    == {i \in PendingAll :
                 \/ MaxRecords = 0
                 \/ Cardinality({j \in PendingAll : j < i}) < MaxRecords}

LoadPending ==
  /\ phase = "load"
  /\ queue' = Pending
  /\ total' = Cardinality(Pending)
  /\ \/ /\ Pending = {}                      \* "nothing to do"
        /\ phase' = "down" /\ exit' = "ok"
     \/ /\ Pending # {}
        /\ phase' = "open" /\ exit' = exit
  /\ UNCHANGED <<disk, ctxDone, workers, bounds>>

(* Faulty: a new output file gets no header. *)
OpenOutBare ==
  /\ phase = "open"
  /\ outFile' = IF outFile = "absent" THEN "bare" ELSE outFile
  /\ phase' = "spawn"
  /\ UNCHANGED <<out, raw, doneLog, errLog, exit, ctxDone, queue, total, workers, bounds>>

OpenOut ==
  /\ phase = "open"
  /\ outFile' = IF outFile = "absent" THEN "bare" ELSE outFile
  /\ phase' = IF outFile = "absent" THEN "header" ELSE "spawn"
  /\ UNCHANGED <<out, raw, doneLog, errLog, exit, ctxDone, queue, total, workers, bounds>>

(* csvW.Flush after the header: a write error is never looked at. *)
WriteHeader ==
  /\ phase = "header"
  /\ \E lost \in BOOLEAN :
       /\ Happens(lost)
       /\ outFile' = IF lost THEN "bare" ELSE "headed"
       /\ csvErr' = lost
  /\ phase' = "spawn"
  /\ UNCHANGED <<out, raw, doneLog, errLog, exit, ctxDone, queue, total,
                 job, wpc, attempt, writeMu, processed, failed, kills>>

(* The checkpoint, error log and raw log are opened and the workers start. *)
SpawnWorkers ==
  /\ phase = "spawn"
  /\ phase' = "feed"
  /\ wpc' = AllAt("recv")
  /\ UNCHANGED <<disk, exit, ctxDone, queue, total, job, attempt, writeMu, csvErr,
                 processed, failed, bounds>>

(* readIDs, loadDoneSet or an os.OpenFile fails and RunDetail returns it. *)
SetupFails ==
  /\ phase \in {"load", "open", "spawn"}
  /\ Happens(TRUE)
  /\ phase' = "down" /\ exit' = "error"
  /\ UNCHANGED <<disk, ctxDone, queue, total, workers, kills>>

(* jobs <- rec: the next pending record goes to a worker that is receiving. *)
Feed(w) ==
  /\ phase = "feed" /\ wpc[w] = "recv"
  /\ \E i \in queue :
       /\ \A j \in queue : i <= j
       /\ queue' = queue \ {i}
       /\ job' = [job EXCEPT ![w] = i]
  /\ wpc' = [wpc EXCEPT ![w] = "got"]
  /\ UNCHANGED <<disk, phase, exit, ctxDone, total, attempt, writeMu, csvErr,
                 processed, failed, bounds>>

(* The feed loop ends, or takes <-ctx.Done(); then close(jobs). *)
CloseJobs ==
  /\ phase = "feed"
  /\ queue = {} \/ ctxDone
  /\ phase' = "join"
  /\ UNCHANGED <<disk, exit, ctxDone, queue, total, workers, bounds>>

(* Faulty: an interrupted run returns nil. *)
FinishForgetsCtx ==
  /\ phase = "join"
  /\ \A w \in Workers : wpc[w] = "exited"
  /\ phase' = "down" /\ exit' = "ok"
  /\ UNCHANGED <<disk, ctxDone, queue, total, workers, bounds>>

(* wg.Wait() returns; RunDetail returns ctx.Err(). *)
Finish ==
  /\ phase = "join"
  /\ \A w \in Workers : wpc[w] = "exited"
  /\ phase' = "down"
  /\ exit' = IF ctxDone THEN "error" ELSE "ok"
  /\ UNCHANGED <<disk, ctxDone, queue, total, workers, bounds>>

-----------------------------------------------------------------------------
(* One iteration of worker().  Goto also serves the helpers below. *)
Goto(w, from, to) == wpc[w] = from /\ wpc' = [wpc EXCEPT ![w] = to]

(* range over the closed channel ends. *)
WorkerDrain(w) ==
  /\ phase = "join"
  /\ Goto(w, "recv", "exited")
  /\ UNCHANGED <<disk, control, job, attempt, writeMu, csvErr, processed, failed, bounds>>

CheckCtx(w) ==
  /\ Goto(w, "got", IF ctxDone THEN "exited" ELSE "wait")
  /\ UNCHANGED <<disk, control, job, attempt, writeMu, csvErr, processed, failed, bounds>>

(* limiter.Wait returns nil: its timer may fire even when ctx is done. *)
LimiterPass(w) ==
  /\ Goto(w, "wait", "fetch")
  /\ attempt' = [attempt EXCEPT ![w] = 1]
  /\ UNCHANGED <<disk, control, job, writeMu, csvErr, processed, failed, bounds>>

LimiterCancelled(w) ==
  /\ ctxDone
  /\ Goto(w, "wait", "exited")
  /\ UNCHANGED <<disk, control, job, attempt, writeMu, csvErr, processed, failed, bounds>>

(* client.FullDetail returns inside withRetry. *)
ReplyOk(w) ==
  /\ "ok" \in Replies
  /\ Goto(w, "fetch", "fetched")
  /\ UNCHANGED <<disk, control, job, attempt, writeMu, csvErr, processed, failed, bounds>>

ReplyClientError(w) ==
  /\ "client" \in Replies
  /\ Goto(w, "fetch", "failed")
  /\ UNCHANGED <<disk, control, job, attempt, writeMu, csvErr, processed, failed, bounds>>

(* Faulty: one attempt too many. *)
RetryOffByOne(w) ==
  /\ "retryable" \in Replies
  /\ Goto(w, "fetch", IF ctxDone \/ attempt[w] > MaxAttempts THEN "failed" ELSE "backoff")
  /\ UNCHANGED <<disk, control, job, attempt, writeMu, csvErr, processed, failed, bounds>>

(* A network error, 5xx, 429 or a body that does not parse. *)
ReplyRetryable(w) ==
  /\ "retryable" \in Replies
  /\ Goto(w, "fetch", IF ctxDone \/ attempt[w] = MaxAttempts THEN "failed" ELSE "backoff")
  /\ UNCHANGED <<disk, control, job, attempt, writeMu, csvErr, processed, failed, bounds>>

(* The request carries ctx: cancelling it aborts the request in flight. *)
CancelInFlight(w) ==
  /\ ctxDone
  /\ Goto(w, "fetch", "failed")
  /\ UNCHANGED <<disk, control, job, attempt, writeMu, csvErr, processed, failed, bounds>>

(* Faulty: the attempt is not counted. *)
BackoffUncounted(w) ==
  /\ Goto(w, "backoff", "fetch")
  /\ UNCHANGED <<disk, control, job, attempt, writeMu, csvErr, processed, failed, bounds>>

BackoffElapsed(w) ==
  /\ Goto(w, "backoff", "fetch")
  /\ attempt' = [attempt EXCEPT ![w] = attempt[w] + 1]
  /\ UNCHANGED <<disk, control, job, writeMu, csvErr, processed, failed, bounds>>

BackoffCancelled(w) ==
  /\ ctxDone
  /\ Goto(w, "backoff", "failed")
  /\ UNCHANGED <<disk, control, job, attempt, writeMu, csvErr, processed, failed, bounds>>

(* The loop body's variables go out of scope. *)
Release(w) == /\ job' = [job EXCEPT ![w] = 0]
              /\ attempt' = [attempt EXCEPT ![w] = 0]

(* Faulty: a failed id goes to the checkpoint too. *)
FailureMarkedDone(w) ==
  /\ writeMu = NoWorker
  /\ Goto(w, "failed", "recv")
  /\ doneLog' = Append(doneLog, IdOf(w))
  /\ failed' = failed + 1
  /\ Release(w)
  /\ UNCHANGED <<outFile, out, raw, errLog, control, writeMu, csvErr, processed, bounds>>

(* Lock, error line, failed++, unlock, continue. *)
RecordFailure(w) ==
  /\ writeMu = NoWorker
  /\ Goto(w, "failed", "recv")
  /\ \E lost \in BOOLEAN :
       /\ Happens(lost)
       /\ errLog' = IF lost \/ ~ErrPath THEN errLog ELSE errLog \cup {IdOf(w)}
  /\ failed' = failed + 1
  /\ Release(w)
  /\ UNCHANGED <<outFile, out, raw, doneLog, control, writeMu, csvErr, processed, kills>>

(* Faulty: without the mutex; without the raw log. *)
WriteRowUnlocked(w) ==
  /\ Goto(w, "fetched", IF RawPath THEN "raw" ELSE "mark")
  /\ writeMu' = w
  /\ out' = Append(out, IdOf(w))
  /\ UNCHANGED <<outFile, raw, doneLog, errLog, control, job, attempt, csvErr,
                 processed, failed, bounds>>

WriteRowWithoutRaw(w) ==
  /\ writeMu = NoWorker
  /\ Goto(w, "fetched", "mark")
  /\ writeMu' = w
  /\ out' = Append(out, IdOf(w))
  /\ UNCHANGED <<outFile, raw, doneLog, errLog, control, job, attempt, csvErr,
                 processed, failed, bounds>>

(* Lock; csvW.Write and Flush, whose error is dropped and sticks. *)
WriteRow(w) ==
  /\ writeMu = NoWorker
  /\ Goto(w, "fetched", IF RawPath THEN "raw" ELSE "mark")
  /\ writeMu' = w
  /\ \E lost \in BOOLEAN :
       /\ Happens(lost /\ ~csvErr)
       /\ csvErr' = (csvErr \/ lost)
       /\ out' = IF csvErr' THEN out ELSE Append(out, IdOf(w))
  /\ UNCHANGED <<outFile, raw, doneLog, errLog, control, job, attempt, processed,
                 failed, kills>>

WriteRaw(w) ==
  /\ Goto(w, "raw", "newline")
  /\ \E lost \in BOOLEAN :
       /\ Happens(lost)
       /\ raw' = IF lost THEN raw ELSE Append(raw, IdOf(w))
  /\ UNCHANGED <<outFile, out, doneLog, errLog, control, job, attempt, writeMu, csvErr,
                 processed, failed, kills>>

WriteNewline(w) ==
  /\ Goto(w, "newline", "mark")
  /\ \E lost \in BOOLEAN :
       /\ Happens(lost)
       /\ raw' = IF lost THEN raw ELSE Append(raw, Newline)
  /\ UNCHANGED <<outFile, out, doneLog, errLog, control, job, attempt, writeMu, csvErr,
                 processed, failed, kills>>

(* Faulty: the id stays in a buffer that is never flushed. *)
MarkDoneUnflushed(w) ==
  /\ Goto(w, "mark", "recv")
  /\ processed' = processed + 1
  /\ writeMu' = NoWorker
  /\ Release(w)
  /\ UNCHANGED <<disk, control, csvErr, failed, bounds>>

(* The checkpoint line, processed++, unlock. *)
MarkDone(w) ==
  /\ Goto(w, "mark", "recv")
  /\ \E lost \in BOOLEAN :
       /\ Happens(lost)
       /\ doneLog' = IF lost THEN doneLog ELSE Append(doneLog, IdOf(w))
  /\ processed' = processed + 1
  /\ writeMu' = NoWorker
  /\ Release(w)
  /\ UNCHANGED <<outFile, out, raw, errLog, control, csvErr, failed, kills>>

-----------------------------------------------------------------------------
ProcessDies ==
  /\ phase # "down"
  /\ kills < MaxKills
  /\ kills' = kills + 1 /\ UNCHANGED faults
  /\ phase' = "down" /\ exit' = "killed"
  /\ FreshMemory

(* SIGKILL, the OOM killer: memory is gone, the files stay. *)
Kill == ProcessDies /\ UNCHANGED disk

(* Nothing is fsynced: each file keeps some prefix of what was appended, of *)
(* an output just created perhaps not even that it exists.                  *)
PowerFail ==
  /\ PowerLoss
  /\ ProcessDies
  /\ \E n \in 0..Len(out) : out' = SubSeq(out, 1, n)
  /\ \E n \in 0..Len(raw) : raw' = SubSeq(raw, 1, n)
  /\ \E n \in 0..Len(doneLog) : doneLog' = SubSeq(doneLog, 1, n)
  /\ errLog' \in SUBSET errLog
  /\ LET earlier == IF outFile = "headed" THEN {"absent", "bare"} ELSE {"absent"}
     IN  outFile' \in {outFile} \cup (IF out' = <<>> THEN earlier ELSE {})

MainStep ==
  \/ RemoveDone \/ RemoveOut \/ RemoveRaw \/ RemoveErr
  \/ LoadPending \/ OpenOut \/ WriteHeader \/ SpawnWorkers \/ SetupFails
  \/ CloseJobs \/ Finish

WorkerStep(w) ==
  \/ WorkerDrain(w) \/ CheckCtx(w) \/ LimiterPass(w) \/ LimiterCancelled(w)
  \/ ReplyOk(w) \/ ReplyClientError(w) \/ ReplyRetryable(w) \/ CancelInFlight(w)
  \/ BackoffElapsed(w) \/ BackoffCancelled(w)
  \/ RecordFailure(w) \/ WriteRow(w) \/ WriteRaw(w) \/ WriteNewline(w) \/ MarkDone(w)

Next ==
  \/ \E restart \in RestartFlags : Launch(restart)
  \/ Interrupt
  \/ MainStep
  \/ \E w \in Workers : Feed(w)
  \/ \E w \in Workers : WorkerStep(w)
  \/ Kill
  \/ PowerFail

Spec == Init /\ [][Next]_vars

(* Scheduling: goroutines run, timers fire and every request ends (the      *)
(* client has a timeout of 30 s).  Nobody has to launch, interrupt or kill. *)
Fairness ==
  /\ WF_vars(MainStep)
  /\ WF_vars(\E w \in Workers : Feed(w))
  /\ \A w \in Workers : WF_vars(WorkerStep(w))

FairSpec == Spec /\ Fairness

-----------------------------------------------------------------------------
(* The inductive invariant behind the safety properties, by its parts. *)

(* A worker in the body of its loop holds a record, and one that backs off  *)
(* has an attempt left. *)
Holding ==
  \A w \in Workers :
    /\ wpc[w] \in {"got", "wait", "fetch", "backoff", "failed", "fetched"} \cup Critical
         => job[w] # 0
    /\ wpc[w] = "backoff" => attempt[w] < MaxAttempts

(* The worker between its row and its checkpoint line holds the mutex. *)
Mutex == \A w \in Workers : wpc[w] \in Critical <=> writeMu = w

(* Nothing works while the run is being set up. *)
Quiet == phase \in Setup => \A w \in Workers : wpc[w] = "off" /\ job[w] = 0

(* A record is either queued or in the hands of one worker, and is not in   *)
(* the checkpoint: nobody works on what somebody else has or is done.       *)
Claims ==
  /\ \A i \in queue : IdsFile[i] \notin Acked
  /\ \A w \in Workers : job[w] # 0 =>
       /\ job[w] \notin queue
       /\ IdOf(w) \notin Acked
       /\ \A v \in Workers : v # w => job[v] # job[w]

Consistent == Holding /\ Mutex /\ Quiet /\ Claims

(* An id in the checkpoint has its row in the output: a run that skips it   *)
(* skips nothing (detail.go:75-80).  Holds through kills and restarts while *)
(* writes succeed and the machine stays up.                                 *)
AckedHaveRows == Acked \subseteq ToSet(out)

(* The same for the raw log, when there is one. *)
AckedHaveBodies == RawPath => Acked \subseteq ToSet(raw)

(* A run that returns nil has settled every record it took on: each is in   *)
(* the checkpoint or counted (and, if there is an error log, named) as      *)
(* failed; no worker dropped one on the way out.  Unless -max-records cut   *)
(* the pending list, that is every id of the list.                          *)
CleanExitAccountsForAll ==
  phase = "down" /\ exit = "ok" =>
    /\ processed + failed = total
    /\ ErrPath /\ (MaxRecords = 0 \/ total < MaxRecords)
         => ToSet(IdsFile) \subseteq Acked \cup errLog

(* No process has been killed and no operation on a file has failed yet. *)
Undisturbed == kills = 0 /\ faults = 0

(* The raw log is one object per line (main.go:126); a kill between a body  *)
(* and its newline breaks it, so it is claimed up to the first kill.        *)
OneObjectPerLine ==
  Undisturbed => \A n \in 1 .. Len(raw) - 1 : raw[n] # Newline => raw[n + 1] = Newline

(* A row appended to the output is never that of an id the checkpoint       *)
(* already holds, whatever mix of runs, kills and restarts came before.     *)
NeverRewritesDone ==
  [][Len(out') > Len(out) => out'[Len(out')] \notin Acked]_vars

(* Rows stand under a header, up to the first kill: one between creating    *)
(* the file and writing its header breaks this for good.                    *)
RowsUnderHeader == Undisturbed => (out # <<>> => outFile = "headed")

(* No school has two rows: what "idempotent" and "picks up exactly where it *)
(* left off" (run_parts.sh:9-13) mean for the output.  It holds up to the   *)
(* first kill, however many runs there were, ended by Ctrl+C or not.        *)
NoDuplicateRows == Undisturbed => IsInjective(out)

(* RunDetail implements the append-then-acknowledge log. *)
Log == INSTANCE AppendThenAck WITH
         Items <- Ids, rows <- out, acks <- doneLog,
         open <- IF writeMu = NoWorker THEN {} ELSE {IdOf(writeMu)}

ImplementsLog == Log!LogSpec

(* Every run ends, interrupted or not, with any server and any I/O errors:  *)
(* the feed loop and the workers never wait for each other for ever.        *)
RunTerminates == phase # "down" ~> phase = "down"

(* The operator re-runs the command, stops pressing Ctrl+C at some time,    *)
(* and a server asked for an id again and again answers it once.            *)
FetchSucceeds(i) == \E w \in Workers : job[w] = i /\ ReplyOk(w)

Patience ==
  /\ WF_vars(Launch(FALSE))
  /\ \A i \in Positions : SF_vars(FetchSucceeds(i))
  /\ <>[]~ctxDone

(* With patience, re-running gets every id done: what "safe to re-run the   *)
(* same command to retry them" (detail.go:228) relies on.                   *)
ResumeCompletes == Patience => <>[](ToSet(IdsFile) \subseteq Acked)
=============================================================================
