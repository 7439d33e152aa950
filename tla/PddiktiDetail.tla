--------------------------- MODULE PddiktiDetail ---------------------------
(***************************************************************************)
(* The "detail" command of src/pddikti-crawler/main.go: runDetail with its *)
(* withRetry and fetchFullDetail.  The shape is that of the sekolah        *)
(* crawler (module DetailCrawl); what differs: the limiter is waited for   *)
(* inside withRetry, so once per attempt, and an attempt makes a request   *)
(* for the institution and then one for each of its sub-resources, whose   *)
(* errors are ignored.                                                     *)
(*                                                                         *)
(* Abstractions: a row is the institution it is about and the number of    *)
(* sub-resources missing from it; the header, the counters that are only   *)
(* printed and time are left out.                                          *)
(***************************************************************************)
EXTENDS Selection, FiniteSets, SequencesExt

CONSTANTS
  Ids, IdsFile,   \* institutions; the rows of idsPath in file order
  Workers,        \* the goroutines running worker()
  None,           \* no institution, no worker
  SubRequests,    \* sub-resources of an institution (6 in the code)
  MaxAttempts,    \* attempts of withRetry (5 in the code)
  Replies,        \* what the server may answer
  MayInterrupt,   \* Ctrl+C may be pressed
  MaxKills,       \* bound: kills in a behaviour
  MaxFaults       \* bound: writes that fail

ASSUME PddiktiAssumption ==
  /\ IdsFile \in Seq(Ids)
  /\ Workers # {} /\ None \notin Workers \cup Ids
  /\ SubRequests \in Nat /\ MaxAttempts \in Nat \ {0}
  /\ Replies \subseteq {"ok", "retryable", "client", "subfail"}
  /\ MayInterrupt \in BOOLEAN
  /\ MaxKills \in Nat /\ MaxFaults \in Nat

VARIABLES
  isNew,      \* out does not exist yet
  out,        \* rows of out
  doneLog,    \* checkpoint
  errIds,     \* ids in the error log
  phase, exit, ctxDone,
  queue,      \* pending ids not yet sent on jobs
  job,        \* the id a worker holds
  wpc, attempt,
  left,       \* sub-resources not yet asked for in this attempt
  missing,    \* sub-resources that failed in this attempt
  mu,         \* holder of mu
  csvErr,     \* sticky error of csvW
  kills, faults

disk    == <<isNew, out, doneLog, errIds>>
control == <<phase, exit, ctxDone, queue>>
fetch   == <<attempt, left, missing>>
locked  == <<mu, csvErr>>
bounds  == <<kills, faults>>
vars    == <<disk, control, job, wpc, fetch, locked, bounds>>

Acked == ToSet(doneLog)
Busy  == {"got", "wait", "detail", "subs", "backoff", "failed", "fetched", "mark"}

TypeOK ==
  /\ isNew \in BOOLEAN
  /\ out \in Seq([id : Ids, missing : 0..SubRequests])
  /\ doneLog \in Seq(Ids) /\ errIds \subseteq Ids
  /\ phase \in {"down", "load", "open", "spawn", "feed", "join"}
  /\ exit \in {"none", "ok", "error", "killed"}
  /\ ctxDone \in BOOLEAN /\ queue \in Seq(Ids)
  /\ wpc \in [Workers -> Busy \cup {"off", "recv", "exited"}]
  /\ job \in [Workers -> Ids \cup {None}]
  /\ \A w \in Workers : wpc[w] \in Busy <=> job[w] # None
  /\ attempt \in [Workers -> 0..MaxAttempts]
  /\ left \in [Workers -> 0..SubRequests] /\ missing \in [Workers -> 0..SubRequests]
  /\ mu \in Workers \cup {None} /\ csvErr \in BOOLEAN
  /\ kills \in 0..MaxKills /\ faults \in 0..MaxFaults

ForAll(x) == [w \in Workers |-> x]

FreshMemory ==
  /\ ctxDone' = FALSE /\ queue' = <<>>
  /\ job' = ForAll(None) /\ wpc' = ForAll("off") /\ attempt' = ForAll(0)
  /\ left' = ForAll(0) /\ missing' = ForAll(0)
  /\ mu' = None /\ csvErr' = FALSE

Init ==
  /\ isNew = TRUE /\ out = <<>> /\ doneLog = <<>> /\ errIds = {}
  /\ phase = "down" /\ exit = "none" /\ ctxDone = FALSE /\ queue = <<>>
  /\ job = ForAll(None) /\ wpc = ForAll("off") /\ attempt = ForAll(0)
  /\ left = ForAll(0) /\ missing = ForAll(0)
  /\ mu = None /\ csvErr = FALSE
  /\ kills = 0 /\ faults = 0

Happens(lost) ==
  /\ lost => faults < MaxFaults
  /\ faults' = IF lost THEN faults + 1 ELSE faults

-----------------------------------------------------------------------------
Launch ==
  /\ phase = "down"
  /\ phase' = "load" /\ exit' = "none"
  /\ FreshMemory
  /\ UNCHANGED <<disk, bounds>>

Interrupt ==
  /\ MayInterrupt /\ phase # "down" /\ ~ctxDone
  /\ ctxDone' = TRUE
  /\ UNCHANGED <<disk, phase, exit, queue, job, wpc, fetch, locked, bounds>>

Pending == Select(IdsFile, Ids \ Acked)

LoadPending ==
  /\ phase = "load"
  /\ queue' = Pending
  /\ \/ Pending = <<>> /\ phase' = "down" /\ exit' = "ok"
     \/ Pending # <<>> /\ phase' = "open" /\ UNCHANGED exit
  /\ UNCHANGED <<disk, ctxDone, job, wpc, fetch, locked, bounds>>

(* The output is created, and its header written, when it does not exist. *)
OpenOut ==
  /\ phase = "open" /\ phase' = "spawn"
  /\ isNew' = FALSE
  /\ \E lost \in BOOLEAN : /\ lost => isNew
                           /\ Happens(lost)
                           /\ csvErr' = lost
  /\ UNCHANGED <<out, doneLog, errIds, exit, ctxDone, queue, job, wpc, fetch, mu, kills>>

SpawnWorkers ==
  /\ phase = "spawn" /\ phase' = "feed"
  /\ wpc' = ForAll("recv")
  /\ UNCHANGED <<disk, exit, ctxDone, queue, job, fetch, locked, bounds>>

(* A file does not open or does not parse. *)
SetupFails ==
  /\ phase \in {"load", "open", "spawn"}
  /\ phase' = "down" /\ exit' = "error"
  /\ UNCHANGED <<disk, ctxDone, queue, job, wpc, fetch, locked, bounds>>

Feed(w) ==
  /\ phase = "feed" /\ wpc[w] = "recv" /\ queue # <<>>
  /\ job' = [job EXCEPT ![w] = Head(queue)]
  /\ queue' = Tail(queue)
  /\ wpc' = [wpc EXCEPT ![w] = "got"]
  /\ UNCHANGED <<disk, phase, exit, ctxDone, fetch, locked, bounds>>

CloseJobs ==
  /\ phase = "feed" /\ (queue = <<>> \/ ctxDone)
  /\ phase' = "join"
  /\ UNCHANGED <<disk, exit, ctxDone, queue, job, wpc, fetch, locked, bounds>>

Finish ==
  /\ phase = "join" /\ \A w \in Workers : wpc[w] = "exited"
  /\ phase' = "down" /\ exit' = IF ctxDone THEN "error" ELSE "ok"
  /\ UNCHANGED <<disk, ctxDone, queue, job, wpc, fetch, locked, bounds>>

-----------------------------------------------------------------------------
Goto(w, from, to) == wpc[w] = from /\ wpc' = [wpc EXCEPT ![w] = to]
Drop(w)           == job' = [job EXCEPT ![w] = None]
Forget(w)         == /\ attempt' = [attempt EXCEPT ![w] = 0]
                     /\ left' = [left EXCEPT ![w] = 0]
                     /\ missing' = [missing EXCEPT ![w] = 0]

WorkerDrain(w) ==
  /\ phase = "join"
  /\ Goto(w, "recv", "exited")
  /\ UNCHANGED <<disk, control, job, fetch, locked, bounds>>

(* The id is given up when ctx is done, or withRetry makes attempt 1. *)
CheckCtx(w) ==
  /\ Goto(w, "got", IF ctxDone THEN "exited" ELSE "wait")
  /\ attempt' = [attempt EXCEPT ![w] = IF ctxDone THEN 0 ELSE 1]
  /\ IF ctxDone THEN Drop(w) ELSE UNCHANGED job
  /\ UNCHANGED <<disk, control, left, missing, locked, bounds>>

LimiterPass(w) ==
  /\ Goto(w, "wait", "detail")
  /\ UNCHANGED <<disk, control, job, fetch, locked, bounds>>

(* Faulty: one attempt too many. *)
AttemptFailsLate(w, from, final) ==
  /\ Goto(w, from, IF final \/ ctxDone \/ attempt[w] > MaxAttempts THEN "failed" ELSE "backoff")
  /\ UNCHANGED <<disk, control, job, fetch, locked, bounds>>

(* An attempt that fails: for good, because of ctx, or to be tried again. *)
AttemptFails(w, from, final) ==
  /\ Goto(w, from, IF final \/ ctxDone \/ attempt[w] = MaxAttempts THEN "failed" ELSE "backoff")
  /\ UNCHANGED <<disk, control, job, fetch, locked, bounds>>

LimiterCancelled(w)    == ctxDone /\ AttemptFails(w, "wait", TRUE)
DetailClientError(w)   == "client" \in Replies /\ AttemptFails(w, "detail", TRUE)
DetailRetryable(w)     == "retryable" \in Replies /\ AttemptFails(w, "detail", FALSE)
DetailCancelled(w)     == ctxDone /\ AttemptFails(w, "detail", TRUE)

(* The institution arrived, before any Ctrl+C; its sub-resources are asked  *)
(* for one by one.                                                          *)
DetailOk(w) ==
  /\ "ok" \in Replies /\ ~ctxDone
  /\ Goto(w, "detail", "subs")
  /\ left' = [left EXCEPT ![w] = SubRequests]
  /\ missing' = [missing EXCEPT ![w] = 0]
  /\ UNCHANGED <<disk, control, job, attempt, locked, bounds>>

(* An error of a sub-resource, the cancelled request included, leaves its   *)
(* fields empty and nothing else.                                           *)
SubReply(w) ==
  /\ wpc[w] = "subs" /\ left[w] > 0
  /\ left' = [left EXCEPT ![w] = left[w] - 1]
  /\ \E bad \in {0, 1} :
       /\ bad = 0 => ~ctxDone
       /\ bad = 1 => ctxDone \/ "subfail" \in Replies
       /\ missing' = [missing EXCEPT ![w] = missing[w] + bad]
  /\ UNCHANGED <<disk, control, job, wpc, attempt, locked, bounds>>

Fetched(w) ==
  /\ left[w] = 0
  /\ Goto(w, "subs", "fetched")
  /\ UNCHANGED <<disk, control, job, fetch, locked, bounds>>

(* Faulty: the attempts are not counted. *)
BackoffUncounted(w) ==
  /\ Goto(w, "backoff", "wait")
  /\ UNCHANGED <<disk, control, job, fetch, locked, bounds>>

BackoffElapsed(w) ==
  /\ Goto(w, "backoff", "wait")
  /\ attempt' = [attempt EXCEPT ![w] = attempt[w] + 1]
  /\ UNCHANGED <<disk, control, job, left, missing, locked, bounds>>

BackoffCancelled(w) == ctxDone /\ AttemptFails(w, "backoff", TRUE)

RecordFailure(w) ==
  /\ mu = None
  /\ Goto(w, "failed", "recv")
  /\ \E lost \in BOOLEAN :
       /\ Happens(lost)
       /\ errIds' = IF lost THEN errIds ELSE errIds \cup {job[w]}
  /\ Drop(w) /\ Forget(w)
  /\ UNCHANGED <<isNew, out, doneLog, control, mu, csvErr, kills>>

(* Faulty: the checkpoint line is written before the row. *)
MarkBeforeRow(w) ==
  /\ mu = None
  /\ Goto(w, "fetched", "mark")
  /\ mu' = w
  /\ doneLog' = Append(doneLog, job[w])
  /\ UNCHANGED <<isNew, out, errIds, control, job, fetch, csvErr, bounds>>

(* Lock; the row, whose write error is dropped and sticks. *)
WriteRow(w) ==
  /\ mu = None
  /\ Goto(w, "fetched", "mark")
  /\ mu' = w
  /\ \E lost \in BOOLEAN :
       /\ Happens(lost /\ ~csvErr)
       /\ csvErr' = (csvErr \/ lost)
       /\ out' = IF csvErr' THEN out
                 ELSE Append(out, [id |-> job[w], missing |-> missing[w]])
  /\ UNCHANGED <<isNew, doneLog, errIds, control, job, fetch, kills>>

(* Faulty: only whole rows go to the checkpoint. *)
MarkWholeOnly(w) ==
  /\ Goto(w, "mark", "recv")
  /\ doneLog' = IF missing[w] > 0 THEN doneLog ELSE Append(doneLog, job[w])
  /\ mu' = None
  /\ Drop(w) /\ Forget(w)
  /\ UNCHANGED <<isNew, out, errIds, control, csvErr, bounds>>

MarkDone(w) ==
  /\ Goto(w, "mark", "recv")
  /\ \E lost \in BOOLEAN :
       /\ Happens(lost)
       /\ doneLog' = IF lost THEN doneLog ELSE Append(doneLog, job[w])
  /\ mu' = None
  /\ Drop(w) /\ Forget(w)
  /\ UNCHANGED <<isNew, out, errIds, control, csvErr, kills>>

Kill ==
  /\ phase # "down" /\ kills < MaxKills
  /\ kills' = kills + 1 /\ UNCHANGED faults
  /\ phase' = "down" /\ exit' = "killed"
  /\ FreshMemory
  /\ UNCHANGED disk

MainStep == LoadPending \/ OpenOut \/ SpawnWorkers \/ SetupFails \/ CloseJobs \/ Finish

WorkerStep(w) ==
  \/ WorkerDrain(w) \/ CheckCtx(w) \/ LimiterPass(w) \/ LimiterCancelled(w)
  \/ DetailClientError(w) \/ DetailRetryable(w) \/ DetailCancelled(w) \/ DetailOk(w)
  \/ SubReply(w) \/ Fetched(w) \/ BackoffElapsed(w) \/ BackoffCancelled(w)
  \/ RecordFailure(w) \/ WriteRow(w) \/ MarkDone(w)

Next == \/ Launch \/ Interrupt \/ MainStep \/ Kill
        \/ \E w \in Workers : Feed(w) \/ WorkerStep(w)

Spec == Init /\ [][Next]_vars

(* As in DetailCrawl: goroutines run and requests end (timeout of 90 s). *)
FairSpec == /\ Spec
            /\ WF_vars(MainStep)
            /\ \A w \in Workers : WF_vars(WorkerStep(w)) /\ WF_vars(Feed(w))

-----------------------------------------------------------------------------
(* The output and the checkpoint keep the promise of the sekolah crawler:   *)
(* rows are appended and acknowledged one by one, under mu, and nothing is  *)
(* written again once acknowledged (main.go:455-460, 516-530).              *)
Log == INSTANCE AppendThenAck WITH
         Items <- Ids, rows <- [i \in DOMAIN out |-> out[i].id], acks <- doneLog,
         open <- IF mu = None THEN {} ELSE {job[mu]}

ImplementsLog == Log!LogSpec

(* Until a kill or a failed write, no institution has two rows, however     *)
(* its runs ended and however many there were (if no id is listed twice).   *)
NoDuplicateRows ==
  kills = 0 /\ faults = 0 =>
    \A i, j \in DOMAIN out : out[i].id = out[j].id => i = j

(* Every run ends, interrupted or not: feed loop, limiter, retries and mu.  *)
RunTerminates == phase # "down" ~> phase = "down"

(* "Both commands resume automatically if interrupted: re-run the identical *)
(* command" (main.go:633-634): when the server has every sub-resource, no   *)
(* institution is done with some of them missing.                           *)
DoneRowsWhole ==
  "subfail" \notin Replies => \A i \in DOMAIN out : out[i].id \in Acked => out[i].missing = 0
=============================================================================
