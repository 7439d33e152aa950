------------------------ MODULE PddiktiDetailProofs ------------------------
(***************************************************************************)
(* Theorems about PddiktiDetail for every list of institutions, every set  *)
(* of workers and every bound.                                             *)
(***************************************************************************)
EXTENDS PddiktiDetail, SeqFacts

(* What the types do not say: mu is held from the row to the checkpoint     *)
(* line; workers run only between spawn and join; an attempt asks for its   *)
(* sub-resources once each, and there are no more than MaxAttempts.         *)
Exclusive == \A w \in Workers : wpc[w] = "mark" <=> mu = w

Quiet ==
  /\ phase \in {"load", "open", "spawn"} => \A w \in Workers : wpc[w] = "off"
  /\ phase = "down" => \A w \in Workers : wpc[w] \in {"off", "exited"}

Counted ==
  \A w \in Workers : /\ left[w] + missing[w] <= SubRequests
                     /\ wpc[w] = "backoff" => attempt[w] < MaxAttempts

Sound == TypeOK /\ Exclusive /\ Quiet /\ Counted

(* An institution that waits in the queue or is in a worker's hands is not  *)
(* done, and is at one place only.                                          *)
Claims ==
  /\ IsInjective(queue) /\ ToSet(queue) \cap Acked = {}
  /\ \A w \in Workers : job[w] # None => job[w] \notin ToSet(queue) \cup Acked
  /\ \A v, w \in Workers : job[v] = job[w] /\ job[v] # None => v = w

USE PddiktiAssumption

-----------------------------------------------------------------------------
(* Type correctness. *)

(* A process that has not started is well typed and idle. *)
LEMMA Idle ==
  /\ ForAll(None) \in [Workers -> Ids \cup {None}]
  /\ ForAll("off") \in [Workers -> Busy \cup {"off", "recv", "exited"}]
  /\ ForAll(0) \in [Workers -> 0..MaxAttempts] /\ ForAll(0) \in [Workers -> 0..SubRequests]
  /\ <<>> \in Seq(Ids)
  /\ \A w \in Workers : ForAll(None)[w] = None /\ ForAll("off")[w] = "off" /\ ForAll(0)[w] = 0
BY DEF ForAll, Busy

(* The first state is sound. *)
LEMMA SoundInit == Init => Sound
<1> SUFFICES ASSUME Init PROVE Sound
  OBVIOUS
<1>1. out \in Seq([id : Ids, missing : 0..SubRequests])
  BY DEF Init
<1>2. Exclusive /\ Quiet /\ Counted
  BY Idle DEF Init, Exclusive, Quiet, Counted
<1>3. \A w \in Workers : wpc[w] \in Busy <=> job[w] # None
  BY Idle DEF Init, Busy
<1>4. isNew \in BOOLEAN /\ ctxDone \in BOOLEAN /\ csvErr \in BOOLEAN
  BY DEF Init
<1> QED
  BY <1>1, <1>2, <1>3, <1>4, Idle DEF Init, Sound, TypeOK

(* A new process is sound on whatever the old one left on disk. *)
LEMMA FreshSound ==
  ASSUME Sound, FreshMemory, UNCHANGED disk, phase' \in {"down", "load"},
         exit' \in {"none", "killed"}, kills' \in 0..MaxKills, faults' \in 0..MaxFaults
  PROVE  Sound'
<1>1. Exclusive' /\ Quiet' /\ Counted'
  BY Idle DEF FreshMemory, Exclusive, Quiet, Counted
<1>2. \A w \in Workers : wpc'[w] \in Busy <=> job'[w] # None
  BY Idle DEF FreshMemory, Busy
<1>3. ctxDone' \in BOOLEAN /\ csvErr' \in BOOLEAN
  BY DEF FreshMemory
<1> QED
  BY <1>1, <1>2, <1>3, Idle DEF Sound, TypeOK, FreshMemory, disk

(* The pending ids are ids of the file, none of them done, and listed once  *)
(* if those of the file are.                                                *)
LEMMA PendingFacts ==
  /\ Pending \in Seq(Ids) /\ ToSet(Pending) \cap Acked = {}
  /\ IsInjective(IdsFile) => IsInjective(Pending)
BY SelectProperties DEF Pending

(* Every action keeps soundness; per action. *)
LEMMA SoundStep == Sound /\ [Next]_vars => Sound'
<1> SUFFICES ASSUME Sound, [Next]_vars PROVE Sound'
  OBVIOUS
<1> USE DEF Sound, Busy
<1>1. CASE Launch
  BY <1>1, FreshSound DEF Launch, bounds, TypeOK
<1>2. CASE Kill
  <2>1. /\ FreshMemory /\ UNCHANGED disk /\ phase' = "down" /\ exit' = "killed"
        /\ kills < MaxKills /\ kills' = kills + 1 /\ faults' = faults
    BY <1>2 DEF Kill
  <2>2. kills' \in 0..MaxKills /\ faults' \in 0..MaxFaults
    BY <2>1 DEF TypeOK
  <2> QED
    BY <2>1, <2>2, FreshSound
<1>3. CASE Interrupt
  BY <1>3 DEF Interrupt, TypeOK, Exclusive, Quiet, Counted, disk, fetch, locked, bounds
<1>4. CASE MainStep
  <2>1. CASE LoadPending
    BY <2>1, PendingFacts DEF LoadPending, TypeOK, Exclusive, Quiet, Counted, disk, fetch,
       locked, bounds
  <2>2. CASE OpenOut
    <3>1. isNew' \in BOOLEAN /\ csvErr' \in BOOLEAN /\ faults' \in 0..MaxFaults
      <4>1. PICK lost \in BOOLEAN : Happens(lost) /\ csvErr' = lost
        BY <2>2, Zenon DEF OpenOut
      <4>2. faults' \in 0..MaxFaults
        BY <4>1 DEF Happens, TypeOK
      <4> QED
        BY <2>2, <4>1, <4>2 DEF OpenOut
    <3> QED
      BY <2>2, <3>1 DEF OpenOut, TypeOK, Exclusive, Quiet, Counted, fetch
  <2>3. CASE SpawnWorkers
    BY <2>3 DEF SpawnWorkers, ForAll, TypeOK, Exclusive, Quiet, Counted, disk, fetch,
       locked, bounds
  <2>4. CASE SetupFails
    BY <2>4 DEF SetupFails, TypeOK, Exclusive, Quiet, Counted, disk, fetch, locked, bounds
  <2>5. CASE CloseJobs
    BY <2>5 DEF CloseJobs, TypeOK, Exclusive, Quiet, Counted, disk, fetch, locked, bounds
  <2>6. CASE Finish
    BY <2>6 DEF Finish, TypeOK, Exclusive, Quiet, Counted, disk, fetch, locked, bounds
  <2> QED
    BY <1>4, <2>1, <2>2, <2>3, <2>4, <2>5, <2>6 DEF MainStep
<1>5. ASSUME NEW w \in Workers, Feed(w)
      PROVE  Sound'
  <2>1. Head(queue) \in Ids /\ Tail(queue) \in Seq(Ids) /\ Head(queue) # None
    BY <1>5, HeadOrTail DEF Feed, TypeOK
  <2> QED
    BY <1>5, <2>1 DEF Feed, TypeOK, Exclusive, Quiet, Counted, disk, fetch, locked, bounds
<1>6. ASSUME NEW w \in Workers, WorkerStep(w)
      PROVE  Sound'
  <2> USE DEF Goto, Drop, Forget, disk, control, fetch, locked, bounds
  <2>1. CASE WorkerDrain(w)
    BY <2>1 DEF WorkerDrain, TypeOK, Exclusive, Quiet, Counted
  <2>2. CASE CheckCtx(w)
    <3>1. wpc[w] = "got" /\ UNCHANGED <<disk, control, left, missing, locked, bounds>>
      BY <2>2 DEF CheckCtx
    <3>2. CASE /\ wpc' = [wpc EXCEPT ![w] = "exited"] /\ attempt' = [attempt EXCEPT ![w] = 0]
               /\ job' = [job EXCEPT ![w] = None]
      <4>1. /\ wpc' \in [Workers -> Busy \cup {"off", "recv", "exited"}]
            /\ job' \in [Workers -> Ids \cup {None}] /\ attempt' \in [Workers -> 0..MaxAttempts]
        BY <3>2 DEF TypeOK
      <4>2. \A v \in Workers : wpc'[v] \in Busy <=> job'[v] # None
        BY <3>1, <3>2 DEF TypeOK
      <4>3. Exclusive' /\ Quiet'
        BY <3>1, <3>2 DEF TypeOK, Exclusive, Quiet
      <4>4. Counted'
        BY <3>1, <3>2 DEF TypeOK, Counted
      <4> QED
        BY <3>1, <4>1, <4>2, <4>3, <4>4 DEF TypeOK
    <3>3. CASE /\ wpc' = [wpc EXCEPT ![w] = "wait"] /\ attempt' = [attempt EXCEPT ![w] = 1]
               /\ job' = job
      <4>1. /\ wpc' \in [Workers -> Busy \cup {"off", "recv", "exited"}]
            /\ job' \in [Workers -> Ids \cup {None}] /\ attempt' \in [Workers -> 0..MaxAttempts]
        BY <3>3 DEF TypeOK
      <4>2. \A v \in Workers : wpc'[v] \in Busy <=> job'[v] # None
        BY <3>1, <3>3 DEF TypeOK
      <4>3. Exclusive' /\ Quiet'
        BY <3>1, <3>3 DEF TypeOK, Exclusive, Quiet
      <4>4. Counted'
        BY <3>1, <3>3 DEF TypeOK, Counted
      <4> QED
        BY <3>1, <4>1, <4>2, <4>3, <4>4 DEF TypeOK
    <3>4. CASE ctxDone
      BY <2>2, <3>2, <3>4, Zenon DEF CheckCtx
    <3>5. CASE ~ctxDone
      BY <2>2, <3>3, <3>5, Zenon DEF CheckCtx
    <3> QED
      BY <3>4, <3>5
  <2>3. CASE LimiterPass(w)
    BY <2>3 DEF LimiterPass, TypeOK, Exclusive, Quiet, Counted
  <2>4. ASSUME NEW from \in {"wait", "detail", "backoff"}, NEW final \in BOOLEAN,
               AttemptFails(w, from, final)
        PROVE  Sound'
    <3>1. \/ wpc' = [wpc EXCEPT ![w] = "failed"]
          \/ wpc' = [wpc EXCEPT ![w] = "backoff"] /\ attempt[w] < MaxAttempts
      <4> DEFINE last == final \/ ctxDone \/ attempt[w] = MaxAttempts
      <4>1. wpc' = [wpc EXCEPT ![w] = IF last THEN "failed" ELSE "backoff"]
        BY <2>4 DEF AttemptFails
      <4>2. ~last => attempt[w] < MaxAttempts
        BY DEF TypeOK
      <4> HIDE DEF last
      <4>3. CASE last
        BY <4>1, <4>3
      <4>4. CASE ~last
        BY <4>1, <4>2, <4>4
      <4> QED
        BY <4>3, <4>4
    <3>2. /\ wpc[w] = from
          /\ UNCHANGED <<disk, control, job, fetch, locked, bounds>>
      BY <2>4 DEF AttemptFails
    <3>3. CASE wpc' = [wpc EXCEPT ![w] = "failed"]
      BY <3>2, <3>3 DEF TypeOK, Exclusive, Quiet, Counted
    <3>4. CASE wpc' = [wpc EXCEPT ![w] = "backoff"] /\ attempt[w] < MaxAttempts
      BY <3>2, <3>4 DEF TypeOK, Exclusive, Quiet, Counted
    <3> QED
      BY <3>1, <3>3, <3>4
  <2>5. CASE LimiterCancelled(w) \/ DetailClientError(w) \/ DetailRetryable(w)
             \/ DetailCancelled(w) \/ BackoffCancelled(w)
    BY <2>4, <2>5 DEF LimiterCancelled, DetailClientError, DetailRetryable, DetailCancelled,
       BackoffCancelled
  <2>6. CASE DetailOk(w)
    <3>1. /\ left' \in [Workers -> 0..SubRequests] /\ missing' \in [Workers -> 0..SubRequests]
          /\ \A v \in Workers : left'[v] + missing'[v] <= SubRequests
      BY <2>6 DEF DetailOk, TypeOK, Counted
    <3> QED
      BY <2>6, <3>1 DEF DetailOk, TypeOK, Exclusive, Quiet, Counted
  <2>7. CASE SubReply(w)
    <3>1. PICK bad \in {0, 1} : missing' = [missing EXCEPT ![w] = missing[w] + bad]
      BY <2>7 DEF SubReply
    <3>2. left' = [left EXCEPT ![w] = left[w] - 1] /\ left[w] > 0
      BY <2>7 DEF SubReply
    <3>3. \A v \in Workers : /\ left[v] \in 0..SubRequests /\ missing[v] \in 0..SubRequests
                             /\ left[v] + missing[v] <= SubRequests
      BY DEF TypeOK, Counted
    <3>4. /\ left[w] - 1 \in 0..SubRequests /\ missing[w] + bad \in 0..SubRequests
          /\ (left[w] - 1) + (missing[w] + bad) <= SubRequests
      BY <3>2, <3>3
    <3>5. /\ left' \in [Workers -> 0..SubRequests] /\ missing' \in [Workers -> 0..SubRequests]
          /\ \A v \in Workers : left'[v] + missing'[v] <= SubRequests
      BY <3>1, <3>2, <3>3, <3>4 DEF TypeOK
    <3> QED
      BY <2>7, <3>5 DEF SubReply, TypeOK, Exclusive, Quiet, Counted
  <2>8. CASE Fetched(w)
    BY <2>8 DEF Fetched, TypeOK, Exclusive, Quiet, Counted
  <2>9. CASE BackoffElapsed(w)
    <3>1. wpc[w] = "backoff" /\ wpc' = [wpc EXCEPT ![w] = "wait"]
      BY <2>9 DEF BackoffElapsed
    <3>2. attempt' \in [Workers -> 0..MaxAttempts]
      <4>1. attempt[w] \in 0..MaxAttempts /\ attempt[w] < MaxAttempts /\ MaxAttempts \in Nat
        BY <3>1 DEF TypeOK, Counted
      <4>2. attempt[w] + 1 \in 0..MaxAttempts
        BY <4>1
      <4> QED
        BY <2>9, <4>2 DEF BackoffElapsed, TypeOK
    <3>3. \A v \in Workers : wpc'[v] = "backoff" => attempt'[v] < MaxAttempts
      BY <2>9, <3>1 DEF BackoffElapsed, TypeOK, Counted
    <3> QED
      BY <2>9, <3>1, <3>2, <3>3 DEF BackoffElapsed, TypeOK, Exclusive, Quiet, Counted
  <2>10. CASE RecordFailure(w)
    <3>1. /\ UNCHANGED <<isNew, out, doneLog, control, mu, csvErr, kills>>
          /\ wpc[w] = "failed" /\ wpc' = [wpc EXCEPT ![w] = "recv"]
          /\ job' = [job EXCEPT ![w] = None] /\ attempt' = [attempt EXCEPT ![w] = 0]
          /\ left' = [left EXCEPT ![w] = 0] /\ missing' = [missing EXCEPT ![w] = 0]
      BY <2>10 DEF RecordFailure
    <3>2. job[w] \in Ids
      BY <3>1 DEF TypeOK
    <3>3. errIds' \subseteq Ids /\ faults' \in 0..MaxFaults
      BY <2>10, <3>2 DEF RecordFailure, Happens, TypeOK
    <3>4. Exclusive' /\ Quiet'
      BY <3>1 DEF TypeOK, Exclusive, Quiet
    <3>5. Counted'
      BY <3>1 DEF TypeOK, Counted
    <3>6. \A v \in Workers : wpc'[v] \in Busy <=> job'[v] # None
      BY <3>1 DEF TypeOK
    <3>7. /\ wpc' \in [Workers -> Busy \cup {"off", "recv", "exited"}]
          /\ job' \in [Workers -> Ids \cup {None}]
          /\ attempt' \in [Workers -> 0..MaxAttempts]
          /\ left' \in [Workers -> 0..SubRequests] /\ missing' \in [Workers -> 0..SubRequests]
      <4>1. /\ wpc' \in [Workers -> Busy \cup {"off", "recv", "exited"}]
            /\ job' \in [Workers -> Ids \cup {None}]
        BY <3>1 DEF TypeOK
      <4>2. attempt' \in [Workers -> 0..MaxAttempts]
        BY <3>1 DEF TypeOK
      <4>3. left' \in [Workers -> 0..SubRequests] /\ missing' \in [Workers -> 0..SubRequests]
        BY <3>1 DEF TypeOK
      <4> QED
        BY <4>1, <4>2, <4>3
    <3>8. /\ isNew' \in BOOLEAN /\ out' \in Seq([id : Ids, missing : 0..SubRequests])
          /\ doneLog' \in Seq(Ids) /\ queue' \in Seq(Ids)
          /\ mu' \in Workers \cup {None} /\ csvErr' \in BOOLEAN
      BY <3>1 DEF control, TypeOK
    <3>9. /\ phase' \in {"down", "load", "open", "spawn", "feed", "join"}
          /\ exit' \in {"none", "ok", "error", "killed"} /\ ctxDone' \in BOOLEAN
          /\ kills' \in 0..MaxKills
      BY <3>1 DEF control, TypeOK
    <3> QED
      BY <3>3, <3>4, <3>5, <3>6, <3>7, <3>8, <3>9, Zenon DEF TypeOK
  <2>11. CASE WriteRow(w)
    <3>1. [id |-> job[w], missing |-> missing[w]] \in [id : Ids, missing : 0..SubRequests]
      BY <2>11 DEF WriteRow, TypeOK
    <3>2. out' \in Seq([id : Ids, missing : 0..SubRequests])
      <4>1. Append(out, [id |-> job[w], missing |-> missing[w]])
              \in Seq([id : Ids, missing : 0..SubRequests])
        BY <3>1, AppendProperties DEF TypeOK
      <4> QED
        BY <2>11, <4>1 DEF WriteRow, TypeOK
    <3>3. Exclusive'
      BY <2>11 DEF WriteRow, TypeOK, Exclusive
    <3>4. csvErr' \in BOOLEAN /\ faults' \in 0..MaxFaults
      BY <2>11 DEF WriteRow, Happens, TypeOK
    <3> QED
      BY <2>11, <3>2, <3>3, <3>4 DEF WriteRow, TypeOK, Quiet, Counted
  <2>12. CASE MarkDone(w)
    <3>1. doneLog' \in Seq(Ids) /\ faults' \in 0..MaxFaults
      BY <2>12, AppendProperties DEF MarkDone, Happens, TypeOK
    <3>2. Exclusive'
      BY <2>12 DEF MarkDone, TypeOK, Exclusive
    <3> QED
      <4>1. /\ UNCHANGED <<isNew, out, errIds, control, csvErr, kills>>
            /\ wpc[w] = "mark" /\ wpc' = [wpc EXCEPT ![w] = "recv"] /\ mu' = None
            /\ job' = [job EXCEPT ![w] = None] /\ attempt' = [attempt EXCEPT ![w] = 0]
            /\ left' = [left EXCEPT ![w] = 0] /\ missing' = [missing EXCEPT ![w] = 0]
        BY <2>12 DEF MarkDone
      <4>2. Quiet'
        BY <4>1 DEF TypeOK, Quiet
      <4>3. Counted'
        BY <4>1 DEF TypeOK, Counted
      <4>4. \A v \in Workers : wpc'[v] \in Busy <=> job'[v] # None
        BY <4>1 DEF TypeOK
      <4>5. /\ wpc' \in [Workers -> Busy \cup {"off", "recv", "exited"}]
            /\ job' \in [Workers -> Ids \cup {None}]
            /\ attempt' \in [Workers -> 0..MaxAttempts]
            /\ left' \in [Workers -> 0..SubRequests] /\ missing' \in [Workers -> 0..SubRequests]
        <5>1. /\ wpc' \in [Workers -> Busy \cup {"off", "recv", "exited"}]
              /\ job' \in [Workers -> Ids \cup {None}]
          BY <4>1 DEF TypeOK
        <5>2. attempt' \in [Workers -> 0..MaxAttempts]
          BY <4>1 DEF TypeOK
        <5>3. left' \in [Workers -> 0..SubRequests] /\ missing' \in [Workers -> 0..SubRequests]
          BY <4>1 DEF TypeOK
        <5> QED
          BY <5>1, <5>2, <5>3
      <4>6. /\ isNew' \in BOOLEAN /\ out' \in Seq([id : Ids, missing : 0..SubRequests])
            /\ errIds' \subseteq Ids /\ queue' \in Seq(Ids)
            /\ mu' \in Workers \cup {None} /\ csvErr' \in BOOLEAN
        BY <4>1 DEF control, TypeOK
      <4>7. /\ phase' \in {"down", "load", "open", "spawn", "feed", "join"}
            /\ exit' \in {"none", "ok", "error", "killed"} /\ ctxDone' \in BOOLEAN
            /\ kills' \in 0..MaxKills
        BY <4>1 DEF control, TypeOK
      <4> QED
        BY <3>1, <3>2, <4>2, <4>3, <4>4, <4>5, <4>6, <4>7, Zenon DEF TypeOK
  <2> QED
    BY <1>6, <2>1, <2>2, <2>3, <2>5, <2>6, <2>7, <2>8, <2>9, <2>10, <2>11, <2>12
       DEF WorkerStep
<1>7. CASE UNCHANGED vars
  BY <1>7 DEF vars, disk, control, fetch, locked, bounds, TypeOK, Exclusive, Quiet, Counted
<1> QED
  BY <1>1, <1>2, <1>3, <1>4, <1>5, <1>6, <1>7 DEF Next

(* Every variable keeps its type; no attempt goes beyond MaxAttempts and no *)
(* row misses more sub-resources than there are, with any server.           *)
THEOREM TypeCorrect == Spec => []TypeOK
<1>1. Sound => TypeOK
  BY DEF Sound
<1> QED
  BY <1>1, SoundInit, SoundStep, PTL DEF Spec

-----------------------------------------------------------------------------
(* Every institution is at one place. *)

(* The first state and a new process claim nothing. *)
LEMMA NoClaims ==
  /\ Init => Claims
  /\ FreshMemory => Claims'
<1>1. IsInjective(<<>>) /\ ToSet(<<>>) = {}
  BY DEF IsInjective, ToSet
<1>2. Init => Claims
  BY <1>1, Idle DEF Init, Claims
<1>3. ASSUME FreshMemory
      PROVE  Claims'
  <2>1. queue' = <<>> /\ \A w \in Workers : job'[w] = None
    BY <1>3, Idle DEF FreshMemory
  <2> QED
    BY <1>1, <2>1 DEF Claims
<1> QED
  BY <1>2, <1>3

(* Claims outlive a step that moves no institution and acknowledges none. *)
LEMMA ClaimsStable ==
  ASSUME Claims, UNCHANGED <<queue, job, doneLog>>
  PROVE  Claims'
BY DEF Claims, Acked

(* A worker that puts its institution down leaves the others' alone, and no *)
(* other holds it, so that its own acknowledgement disturbs nobody.         *)
LEMMA ClaimsDropped ==
  ASSUME Sound, Claims, NEW w \in Workers, job[w] # None,
         queue' = queue, Acked' \subseteq Acked \cup {job[w]},
         job' = [job EXCEPT ![w] = None]
  PROVE  Claims'
<1>1. \A v \in Workers : job'[v] # None => v # w /\ job'[v] = job[v] /\ job[v] # job[w]
  BY DEF Sound, TypeOK, Claims
<1>2. IsInjective(queue') /\ ToSet(queue') \cap Acked' = {}
  BY DEF Claims
<1>3. \A v \in Workers : job'[v] # None => job'[v] \notin ToSet(queue') \cup Acked'
  BY <1>1 DEF Claims
<1>4. \A u, v \in Workers : job'[u] = job'[v] /\ job'[u] # None => u = v
  BY <1>1 DEF Claims
<1> QED
  BY <1>2, <1>3, <1>4 DEF Claims

(* Every action keeps the claims apart. *)
LEMMA ClaimsStep ==
  ASSUME IsInjective(IdsFile)
  PROVE  Sound /\ Claims /\ [Next]_vars => Claims'
<1> SUFFICES ASSUME Sound, Claims, [Next]_vars PROVE Claims'
  OBVIOUS
<1>1. CASE Launch \/ Kill
  BY <1>1, NoClaims DEF Launch, Kill
<1>2. CASE LoadPending
  <2>1. \A w \in Workers : job[w] = None
    BY <1>2 DEF LoadPending, Sound, TypeOK, Quiet, Busy
  <2>2. queue' = Pending /\ UNCHANGED <<job, doneLog>>
    BY <1>2 DEF LoadPending, disk
  <2> QED
    BY <2>1, <2>2, PendingFacts DEF Claims, Acked
<1>3. ASSUME NEW w \in Workers, Feed(w)
      PROVE  Claims'
  <2>1. /\ Head(queue) \in ToSet(queue) /\ Head(queue) \notin ToSet(Tail(queue))
        /\ ToSet(Tail(queue)) \subseteq ToSet(queue) /\ IsInjective(Tail(queue))
    BY <1>3, TakeHead DEF Feed, Sound, TypeOK, Claims
  <2>2. /\ queue' = Tail(queue) /\ job' = [job EXCEPT ![w] = Head(queue)]
        /\ Acked' = Acked
    BY <1>3 DEF Feed, disk, Acked
  <2>3. \A v \in Workers : v # w /\ job[v] # None => job[v] # Head(queue)
    BY <2>1 DEF Claims
  <2>4. /\ job'[w] = Head(queue)
        /\ \A v \in Workers : v # w => job'[v] = job[v]
    BY <2>2 DEF Sound, TypeOK
  <2>5. \A v \in Workers : job'[v] # None => job'[v] \notin ToSet(queue') \cup Acked'
    BY <2>1, <2>2, <2>4 DEF Claims
  <2>6. \A u, v \in Workers : job'[u] = job'[v] /\ job'[u] # None => u = v
    BY <2>3, <2>4 DEF Claims
  <2>7. IsInjective(queue') /\ ToSet(queue') \cap Acked' = {}
    BY <2>1, <2>2 DEF Claims
  <2> QED
    BY <2>5, <2>6, <2>7 DEF Claims
<1>4. ASSUME NEW w \in Workers, WorkerStep(w)
      PROVE  Claims'
  <2>1. CASE CheckCtx(w)
    <3>1. job[w] # None /\ queue' = queue /\ Acked' = Acked
      BY <2>1 DEF CheckCtx, Goto, Sound, TypeOK, Busy, control, disk, Acked
    <3>2. job' = [job EXCEPT ![w] = None] \/ UNCHANGED <<queue, job, doneLog>>
      BY <2>1, Zenon DEF CheckCtx, Drop, control, disk
    <3> QED
      BY <3>1, <3>2, ClaimsDropped, ClaimsStable
  <2>2. CASE RecordFailure(w)
    <3>1. job[w] # None /\ queue' = queue /\ Acked' = Acked
      BY <2>2 DEF RecordFailure, Goto, Sound, TypeOK, Busy, control, Acked
    <3> QED
      BY <2>2, <3>1, ClaimsDropped DEF RecordFailure, Drop
  <2>3. CASE MarkDone(w)
    <3>1. job[w] # None /\ job[w] \in Ids /\ queue' = queue
      BY <2>3 DEF MarkDone, Goto, Sound, TypeOK, Busy, control
    <3>2. doneLog' = doneLog \/ doneLog' = Append(doneLog, job[w])
      BY <2>3 DEF MarkDone
    <3>3. Acked' \subseteq Acked \cup {job[w]}
      <4>1. doneLog \in Seq(Ids)
        BY DEF Sound, TypeOK
      <4>2. ToSet(Append(doneLog, job[w])) = ToSet(doneLog) \cup {job[w]}
        BY <3>1, <4>1, AppendToSet
      <4> QED
        BY <3>2, <4>2, Zenon DEF Acked
    <3> QED
      BY <2>3, <3>1, <3>3, ClaimsDropped DEF MarkDone, Drop
  <2>4. CASE ~CheckCtx(w) /\ ~RecordFailure(w) /\ ~MarkDone(w)
    <3>1. UNCHANGED <<queue, job, doneLog>>
      BY <1>4, <2>4 DEF WorkerStep, WorkerDrain, LimiterPass, LimiterCancelled,
         DetailClientError, DetailRetryable, DetailCancelled, DetailOk, SubReply, Fetched,
         BackoffElapsed, BackoffCancelled, AttemptFails, WriteRow, disk, control
    <3> QED
      BY <3>1, ClaimsStable
  <2> QED
    BY <2>1, <2>2, <2>3, <2>4
<1>5. CASE Interrupt \/ (MainStep /\ ~LoadPending) \/ UNCHANGED vars
  <2>1. UNCHANGED <<queue, job, doneLog>>
    BY <1>5 DEF Interrupt, MainStep, OpenOut, SpawnWorkers, SetupFails, CloseJobs, Finish,
       vars, disk, control
  <2> QED
    BY <2>1, ClaimsStable
<1> QED
  BY <1>1, <1>2, <1>3, <1>4, <1>5 DEF Next

(* The two halves of the inductive invariant, always. *)
LEMMA AlwaysClaims ==
  ASSUME IsInjective(IdsFile)
  PROVE  Spec => [](Sound /\ Claims)
BY SoundInit, SoundStep, NoClaims, ClaimsStep, PTL DEF Spec

-----------------------------------------------------------------------------
(* No institution has two rows until a kill or a failed write. *)

UniqueRows == \A i, j \in DOMAIN out : out[i].id = out[j].id => i = j

(* Before the first kill or failed write a row is of an institution that is *)
(* done, or of the one whose checkpoint line the holder of mu is to write.  *)
Settled ==
  /\ csvErr = FALSE /\ UniqueRows
  /\ \A i \in DOMAIN out : out[i].id \in Acked \/ (mu # None /\ out[i].id = job[mu])

(* Settled depends on the output, the checkpoint, mu and its holder's id. *)
LEMMA SettledStable ==
  ASSUME Settled, csvErr' = FALSE, out' = out, doneLog' = doneLog, mu' = mu,
         mu # None => job'[mu] = job[mu]
  PROVE  Settled'
BY DEF Settled, UniqueRows, Acked

(* The row of an institution without one, in the holder's hands. *)
LEMMA RowSettled ==
  ASSUME Sound, Claims, Settled, NEW w \in Workers, WriteRow(w),
         out' = Append(out, [id |-> job[w], missing |-> missing[w]]), csvErr' = FALSE
  PROVE  Settled'
<1> DEFINE row == [id |-> job[w], missing |-> missing[w]]
<1>1. /\ job[w] # None /\ job[w] \notin Acked /\ mu = None /\ mu' = w
      /\ UNCHANGED <<doneLog, job>>
  BY DEF WriteRow, Goto, Sound, TypeOK, Busy, Claims
<1>2. /\ Len(out) \in Nat /\ DOMAIN out = 1..Len(out) /\ DOMAIN out' = 1..Len(out) + 1
      /\ \A i \in DOMAIN out : out'[i] = out[i]
      /\ out'[Len(out) + 1] = row
  <2>1. /\ out \in Seq([id : Ids, missing : 0..SubRequests])
        /\ row \in [id : Ids, missing : 0..SubRequests] /\ out' = Append(out, row)
    BY <1>1 DEF Sound, TypeOK
  <2> HIDE DEF row
  <2>2. Len(out) \in Nat /\ DOMAIN out = 1..Len(out)
    BY <2>1, LenProperties
  <2> QED
    BY <2>1, <2>2
<1>3. \A i \in DOMAIN out : out'[i].id \in Acked /\ out'[i].id # job[w]
  BY <1>1, <1>2 DEF Settled
<1>4. \A i \in DOMAIN out' : i \in DOMAIN out \/ (i = Len(out) + 1 /\ out'[i].id = job[w])
  BY <1>2
<1>5. UniqueRows'
  BY <1>2, <1>3, <1>4 DEF Settled, UniqueRows
<1>6. \A i \in DOMAIN out' : out'[i].id \in Acked \/ out'[i].id = job[w]
  BY <1>3, <1>4
<1> QED
  BY <1>1, <1>5, <1>6, PddiktiAssumption DEF Settled, Acked

(* Up to the first kill or failed write, every action keeps rows settled. *)
LEMMA SettledStep ==
  Sound /\ Claims /\ (kills = 0 /\ faults = 0 => Settled) /\ [Next]_vars
    => (kills' = 0 /\ faults' = 0 => Settled')
<1> SUFFICES ASSUME Sound, Claims, kills = 0 /\ faults = 0 => Settled, [Next]_vars,
                    kills' = 0, faults' = 0
             PROVE  Settled'
  OBVIOUS
<1>1. \A lost : Happens(lost) /\ lost \in BOOLEAN => lost = FALSE /\ faults = 0
  BY DEF Happens, Sound, TypeOK
<1>2. ~Kill
  BY DEF Kill, Sound, TypeOK
<1>3. kills = 0 /\ faults = 0
  <2>1. kills' = kills
    BY <1>2 DEF Next, Launch, Interrupt, MainStep, LoadPending, OpenOut, SpawnWorkers,
       SetupFails, CloseJobs, Finish, Feed, WorkerStep, WorkerDrain, CheckCtx, LimiterPass,
       LimiterCancelled, DetailClientError, DetailRetryable, DetailCancelled, DetailOk,
       SubReply, Fetched, BackoffElapsed, BackoffCancelled, RecordFailure, WriteRow,
       MarkDone, AttemptFails, vars, bounds
  <2>2. faults' = faults \/ faults' = faults + 1
    BY <1>2 DEF Next, Launch, Interrupt, MainStep, LoadPending, OpenOut, SpawnWorkers,
       SetupFails, CloseJobs, Finish, Feed, WorkerStep, WorkerDrain, CheckCtx, LimiterPass,
       LimiterCancelled, DetailClientError, DetailRetryable, DetailCancelled, DetailOk,
       SubReply, Fetched, BackoffElapsed, BackoffCancelled, RecordFailure, WriteRow,
       MarkDone, AttemptFails, Happens, vars, bounds
  <2> QED
    BY <2>1, <2>2 DEF Sound, TypeOK
<1>4. Settled
  BY <1>3
<1>5. CASE Launch
  <2>1. mu = None
    BY <1>5 DEF Launch, Sound, TypeOK, Quiet, Exclusive
  <2>2. mu' = None /\ csvErr' = FALSE /\ UNCHANGED <<out, doneLog>>
    BY <1>5 DEF Launch, FreshMemory, disk
  <2> QED
    BY <1>4, <2>1, <2>2, SettledStable
<1>6. CASE OpenOut
  <2>1. csvErr' = FALSE
    BY <1>1, <1>6 DEF OpenOut
  <2> QED
    BY <1>4, <1>6, <2>1, SettledStable DEF OpenOut
<1>7. CASE Interrupt \/ (MainStep /\ ~OpenOut) \/ UNCHANGED vars
  <2>1. UNCHANGED <<out, doneLog, mu, csvErr, job>>
    BY <1>7 DEF Interrupt, MainStep, LoadPending, SpawnWorkers, SetupFails, CloseJobs, Finish,
       vars, disk, locked
  <2> QED
    BY <1>4, <2>1, SettledStable DEF Settled
<1>8. ASSUME NEW w \in Workers, Feed(w)
      PROVE  Settled'
  <2>1. mu # w /\ UNCHANGED <<out, doneLog, mu, csvErr>>
    BY <1>8 DEF Feed, Sound, Exclusive, disk, locked
  <2>2. mu # None => job'[mu] = job[mu]
    BY <1>8, <2>1 DEF Feed, Sound, TypeOK
  <2> QED
    BY <1>4, <2>1, <2>2, SettledStable DEF Settled
<1>9. ASSUME NEW w \in Workers, WorkerStep(w)
      PROVE  Settled'
  <2>1. CASE WriteRow(w)
    <3>1. PICK lost \in BOOLEAN :
            /\ Happens(lost /\ ~csvErr)
            /\ csvErr' = (csvErr \/ lost)
            /\ out' = IF csvErr' THEN out
                      ELSE Append(out, [id |-> job[w], missing |-> missing[w]])
      BY <2>1, Zenon DEF WriteRow
    <3>2. csvErr = FALSE
      BY <1>4 DEF Settled
    <3>3. (lost /\ ~csvErr) = FALSE
      BY <1>1, <3>1
    <3>4. csvErr' = FALSE /\ out' = Append(out, [id |-> job[w], missing |-> missing[w]])
      BY <3>1, <3>2, <3>3
    <3> QED
      BY <1>4, <2>1, <3>4, RowSettled
  <2>2. CASE MarkDone(w)
    <3>1. /\ mu = w /\ job[w] \in Ids /\ mu' = None /\ UNCHANGED <<out, csvErr>>
      BY <2>2 DEF MarkDone, Goto, Sound, TypeOK, Exclusive, Busy
    <3>2. doneLog' = Append(doneLog, job[w])
      BY <1>1, <2>2 DEF MarkDone
    <3>3. Acked' = Acked \cup {job[w]}
      BY <3>1, <3>2, AppendToSet DEF Acked, Sound, TypeOK
    <3> QED
      BY <1>4, <3>1, <3>3 DEF Settled, UniqueRows
  <2>3. CASE RecordFailure(w) \/ CheckCtx(w)
    <3>1. mu # w /\ UNCHANGED <<out, doneLog, mu, csvErr>>
      BY <2>3 DEF RecordFailure, CheckCtx, Goto, Sound, Exclusive, disk, locked
    <3>2. \A v \in Workers : v # w => job'[v] = job[v]
      BY <2>3 DEF RecordFailure, CheckCtx, Drop, Sound, TypeOK
    <3>3. mu # None => job'[mu] = job[mu]
      BY <3>1, <3>2 DEF Sound, TypeOK
    <3> QED
      BY <1>4, <3>1, <3>3, SettledStable DEF Settled
  <2>4. CASE ~WriteRow(w) /\ ~MarkDone(w) /\ ~RecordFailure(w) /\ ~CheckCtx(w)
    <3>1. UNCHANGED <<out, doneLog, mu, csvErr, job>>
      BY <1>9, <2>4 DEF WorkerStep, WorkerDrain, LimiterPass, LimiterCancelled,
         DetailClientError, DetailRetryable, DetailCancelled, DetailOk, SubReply, Fetched,
         BackoffElapsed, BackoffCancelled, AttemptFails, disk, locked
    <3> QED
      BY <1>4, <3>1, SettledStable DEF Settled
  <2> QED
    BY <2>1, <2>2, <2>3, <2>4
<1> QED
  BY <1>2, <1>5, <1>6, <1>7, <1>8, <1>9 DEF Next

(* However often the command is run again, after Ctrl+C or not, and with    *)
(* any server, no institution gets a second row (main.go:455-460, 516-530), *)
(* up to the first kill or failed write, when no id is listed twice.        *)
THEOREM RowsAreUnique ==
  ASSUME IsInjective(IdsFile)
  PROVE  Spec => []NoDuplicateRows
<1> DEFINE Clean == kills = 0 /\ faults = 0 => Settled
<1>1. Init => Clean
  BY DEF Init, Settled, UniqueRows
<1>2. Sound /\ Claims /\ Clean /\ [Next]_vars => Clean'
  BY SettledStep
<1>3. Clean => NoDuplicateRows
  BY DEF NoDuplicateRows, Settled, UniqueRows
<1> HIDE DEF Clean
<1> QED
  BY <1>1, <1>2, <1>3, AlwaysClaims, PTL DEF Spec

-----------------------------------------------------------------------------
(* PddiktiDetail implements AppendThenAck. *)

(* The refinement mapping: the institutions of the rows, and the one whose  *)
(* row is out and whose checkpoint line is due.                             *)
Rows == [i \in DOMAIN out |-> out[i].id]
Due  == IF mu = None THEN {} ELSE {job[mu]}

(* Appending a row appends its institution. *)
LEMMA RowAppended ==
  ASSUME Sound, NEW row \in [id : Ids, missing : 0..SubRequests], out' = Append(out, row)
  PROVE  Rows' = Append(Rows, row.id)
<1>1. /\ Len(out) \in Nat /\ DOMAIN out = 1..Len(out)
      /\ \A i \in 1..Len(out) : out[i].id \in Ids
  <2>1. out \in Seq([id : Ids, missing : 0..SubRequests])
    BY DEF Sound, TypeOK
  <2>2. \A i \in 1..Len(out) : out[i] \in [id : Ids, missing : 0..SubRequests]
    BY <2>1, ElementOfSeq
  <2> QED
    BY <2>1, <2>2, LenProperties
<1>2. PICK n \in Nat : n = Len(out)
  BY <1>1
<1>3. Rows = [i \in 1..n |-> out[i].id] /\ Rows \in Seq(Ids) /\ Len(Rows) = n
  <2>1. Rows = [i \in 1..n |-> out[i].id] /\ \A i \in 1..n : out[i].id \in Ids
    BY <1>1, <1>2 DEF Rows
  <2> QED
    BY <2>1, IsASeq, LenProperties
<1>4. /\ DOMAIN out' = 1..n + 1 /\ out'[n + 1] = row
      /\ \A i \in 1..n : out'[i] = out[i]
  BY <1>1, <1>2 DEF Sound, TypeOK
<1>5. Rows' = [i \in 1..n + 1 |-> out'[i].id]
  BY <1>4 DEF Rows
<1>6. /\ Append(Rows, row.id) = [i \in 1..n + 1 |-> Append(Rows, row.id)[i]]
      /\ \A i \in 1..n : Append(Rows, row.id)[i] = Rows[i]
      /\ Append(Rows, row.id)[n + 1] = row.id
  BY <1>3
<1>7. \A i \in 1..n + 1 : out'[i].id = Append(Rows, row.id)[i]
  <2>1. \A i \in 1..n + 1 : i \in 1..n \/ i = n + 1
    OBVIOUS
  <2> QED
    BY <1>3, <1>4, <1>6, <2>1
<1> QED
  BY <1>5, <1>6, <1>7

(* A step that leaves rows, acknowledgements and the due institution alone. *)
LEMMA Stutter ==
  ASSUME UNCHANGED <<out, doneLog, mu>>, mu # None => job'[mu] = job[mu]
  PROVE  UNCHANGED Log!logVars
<1>1. Rows' = Rows /\ Due' = Due
  BY DEF Rows, Due
<1> QED
  BY <1>1 DEF Log!logVars, Rows, Due

(* Every action maps to an action of the log or to a stutter. *)
LEMMA LogStep ==
  ASSUME MaxFaults = 0
  PROVE  Sound /\ Claims /\ csvErr = FALSE /\ [Next]_vars
           => [Log!LogNext]_(Log!logVars) /\ csvErr' = FALSE
<1> SUFFICES ASSUME Sound, Claims, csvErr = FALSE, [Next]_vars
             PROVE  (Log!LogNext \/ UNCHANGED Log!logVars) /\ csvErr' = FALSE
  OBVIOUS
<1>1. \A lost : Happens(lost) /\ lost \in BOOLEAN => lost = FALSE
  BY DEF Happens, Sound, TypeOK
<1>2. CASE Launch \/ Kill
  <2>1. FreshMemory /\ UNCHANGED disk
    BY <1>2 DEF Launch, Kill
  <2>2. Rows' = Rows /\ doneLog' = doneLog /\ mu' = None /\ csvErr' = FALSE
    BY <2>1 DEF FreshMemory, disk, Rows
  <2>3. Log!Abandon
    BY <2>2 DEF Log!Abandon, Rows
  <2> QED
    BY <2>2, <2>3 DEF Log!LogNext
<1>3. CASE OpenOut
  <2>1. csvErr' = FALSE
    BY <1>1, <1>3 DEF OpenOut
  <2> QED
    BY <1>3, <2>1, Stutter DEF OpenOut
<1>4. CASE Interrupt \/ (MainStep /\ ~OpenOut) \/ UNCHANGED vars
  <2>1. UNCHANGED <<out, doneLog, mu, csvErr, job>>
    BY <1>4 DEF Interrupt, MainStep, LoadPending, SpawnWorkers, SetupFails, CloseJobs, Finish,
       vars, disk, locked
  <2> QED
    BY <2>1, Stutter
<1>5. ASSUME NEW w \in Workers, Feed(w)
      PROVE  UNCHANGED Log!logVars /\ csvErr' = FALSE
  <2>1. mu # w /\ UNCHANGED <<out, doneLog, mu, csvErr>>
    BY <1>5 DEF Feed, Sound, Exclusive, disk, locked
  <2>2. mu # None => job'[mu] = job[mu]
    BY <1>5, <2>1 DEF Feed, Sound, TypeOK
  <2> QED
    BY <2>1, <2>2, Stutter
<1>6. ASSUME NEW w \in Workers, WorkerStep(w)
      PROVE  (Log!LogNext \/ UNCHANGED Log!logVars) /\ csvErr' = FALSE
  <2>1. CASE WriteRow(w)
    <3> DEFINE row == [id |-> job[w], missing |-> missing[w]]
    <3>1. PICK lost \in BOOLEAN :
            /\ Happens(lost /\ ~csvErr)
            /\ csvErr' = (csvErr \/ lost)
            /\ out' = IF csvErr' THEN out ELSE Append(out, row)
      BY <2>1, Zenon DEF WriteRow
    <3>2. (lost /\ ~csvErr) = FALSE
      BY <1>1, <3>1
    <3>3. csvErr' = FALSE /\ out' = Append(out, row)
      BY <3>1, <3>2
    <3>4. /\ job[w] \in Ids /\ job[w] \notin Acked /\ mu = None /\ mu' = w
          /\ UNCHANGED <<doneLog, job>> /\ w # None
      BY <2>1 DEF WriteRow, Goto, Sound, TypeOK, Busy, Claims
    <3>5. row \in [id : Ids, missing : 0..SubRequests] /\ row.id = job[w]
      BY <3>4 DEF Sound, TypeOK
    <3>6. Rows' = Append(Rows, job[w])
      BY <3>3, <3>5, RowAppended
    <3>7. PICK x \in Ids : x = job[w]
      BY <3>4
    <3>8. Log!Emit(x)
      BY <3>4, <3>6, <3>7 DEF Log!Emit, Log!ToSet, ToSet, Acked, Rows
    <3> QED
      <4>1. Log!LogNext
        BY <3>8, Zenon DEF Log!LogNext
      <4> QED
        BY <3>3, <4>1
  <2>2. CASE MarkDone(w)
    <3>1. /\ mu = w /\ job[w] \in Ids /\ w # None /\ mu' = None /\ UNCHANGED <<out, csvErr>>
      BY <2>2 DEF MarkDone, Goto, Sound, TypeOK, Exclusive, Busy
    <3>2. doneLog' = Append(doneLog, job[w])
      BY <1>1, <2>2 DEF MarkDone
    <3>3. Rows' = Rows
      BY <3>1 DEF Rows
    <3>4. Log!Ack(job[w])
      BY <3>1, <3>2, <3>3 DEF Log!Ack, Rows
    <3> QED
      BY <3>1, <3>4 DEF Log!LogNext
  <2>3. CASE RecordFailure(w) \/ CheckCtx(w)
    <3>1. mu # w /\ UNCHANGED <<out, doneLog, mu, csvErr>>
      BY <2>3 DEF RecordFailure, CheckCtx, Goto, Sound, Exclusive, disk, locked
    <3>2. \A v \in Workers : v # w => job'[v] = job[v]
      BY <2>3 DEF RecordFailure, CheckCtx, Drop, Sound, TypeOK
    <3>3. mu # None => job'[mu] = job[mu]
      BY <3>1, <3>2 DEF Sound, TypeOK
    <3> QED
      BY <3>1, <3>3, Stutter
  <2>4. CASE ~WriteRow(w) /\ ~MarkDone(w) /\ ~RecordFailure(w) /\ ~CheckCtx(w)
    <3>1. UNCHANGED <<out, doneLog, mu, csvErr, job>>
      BY <1>6, <2>4 DEF WorkerStep, WorkerDrain, LimiterPass, LimiterCancelled,
         DetailClientError, DetailRetryable, DetailCancelled, DetailOk, SubReply, Fetched,
         BackoffElapsed, BackoffCancelled, AttemptFails, disk, locked
    <3> QED
      BY <3>1, Stutter
  <2> QED
    BY <2>1, <2>2, <2>3, <2>4
<1> QED
  BY <1>2, <1>3, <1>4, <1>5, <1>6 DEF Next

(* The output and the checkpoint of the PDDIKTI crawler keep the promise of *)
(* the sekolah crawler's: one institution at a time is due, and what is     *)
(* acknowledged was emitted and is emitted no more, when no id is listed    *)
(* twice.                                                                   *)
THEOREM PddiktiImplementsLog ==
  ASSUME IsInjective(IdsFile), MaxFaults = 0
  PROVE  Spec => ImplementsLog
<1> DEFINE NoError == csvErr = FALSE
<1>1. Init => NoError
  BY DEF Init
<1>2. Init => Log!LogInit
  <2>1. Init => Rows = <<>> /\ Due = {}
    BY DEF Init, Rows, Due
  <2> QED
    BY <2>1 DEF Init, Log!LogInit, Rows, Due
<1>3. Sound /\ Claims /\ NoError /\ [Next]_vars
        => [Log!LogNext]_(Log!logVars) /\ NoError'
  BY LogStep
<1> HIDE DEF NoError
<1> QED
  BY <1>1, <1>2, <1>3, AlwaysClaims, PTL DEF Spec, ImplementsLog, Log!LogSpec
=============================================================================
