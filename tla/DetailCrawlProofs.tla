------------------------- MODULE DetailCrawlProofs -------------------------
(***************************************************************************)
(* Theorems about DetailCrawl for every list of ids, every set of workers  *)
(* and every bound.                                                        *)
(***************************************************************************)
EXTENDS DetailCrawl, SeqFacts, FiniteSetTheorems

-----------------------------------------------------------------------------
(* Lemmas on sequences. *)

(* The empty log has no element. *)
LEMMA EmptyToSet == ToSet(<<>>) = {}
BY DEF ToSet

(* What power failure leaves of a log is a log with no new element. *)
LEMMA PrefixToSet ==
  ASSUME NEW S, NEW s \in Seq(S), NEW n \in 0..Len(s)
  PROVE  /\ SubSeq(s, 1, n) \in Seq(S)
         /\ Len(SubSeq(s, 1, n)) = n
         /\ ToSet(SubSeq(s, 1, n)) \subseteq ToSet(s)
<1> DEFINE p == SubSeq(s, 1, n)
<1>1. Len(s) \in Nat /\ DOMAIN s = 1..Len(s) /\ \A i \in 1..n : s[i] \in S
  BY LenProperties, ElementOfSeq
<1>2. p \in Seq(S) /\ Len(p) = n /\ \A i \in 1..n : p[i] = s[i]
  BY <1>1, SubSeqProperties
<1>3. DOMAIN p = 1..n
  BY <1>2, LenProperties
<1>4. ToSet(p) \subseteq ToSet(s)
  BY <1>1, <1>2, <1>3 DEF ToSet
<1> QED
  BY <1>2, <1>4

-----------------------------------------------------------------------------
(* Type correctness. *)

USE IdsAssumption, WorkersAssumption, NewlineAssumption, LimitsAssumption, FlagsAssumption

(* The pending records are finitely many positions of the file. *)
LEMMA PendingFinite ==
  /\ Pending \subseteq Positions
  /\ Cardinality(Pending) \in Nat
<1>1. Positions = 1..Len(IdsFile) /\ Len(IdsFile) \in Nat
  BY LenProperties DEF Positions
<1>2. IsFiniteSet(Positions)
  BY <1>1, FS_Interval
<1>3. Pending \subseteq Positions
  BY DEF Pending, PendingAll
<1> QED
  BY <1>2, <1>3, FS_Subset, FS_CardinalityType

(* A worker in its loop body works on an id of the file. *)
LEMMA HeldId ==
  ASSUME TypeOK, NEW w \in Workers, job[w] # 0
  PROVE  job[w] \in Positions /\ IdOf(w) \in Ids
<1>1. job[w] \in Positions
  BY DEF TypeOK
<1> QED
  BY <1>1, LenProperties, ElementOfSeq DEF IdOf, Positions

(* A process that has not started has well-typed, idle workers. *)
LEMMA IdleWorkers ==
  /\ Idle(0) \in [Workers -> Positions \cup {0}]
  /\ Idle(0) \in [Workers -> 0..MaxAttempts]
  /\ AllAt("off") \in [Workers -> WorkerStates]
  /\ \A w \in Workers : AllAt("off")[w] = "off" /\ Idle(0)[w] = 0
BY DEF Idle, AllAt, WorkerStates

(* The first state is well typed and nobody is at work. *)
LEMMA TypeInit == Init => TypeOK /\ Holding
<1> SUFFICES ASSUME Init PROVE TypeOK /\ Holding
  OBVIOUS
<1>1. <<>> \in Seq(Ids) /\ <<>> \in Seq(Ids \cup {Newline})
  BY EmptySeq
<1>2. Holding
  BY IdleWorkers DEF Init, Holding, Critical
<1>3. /\ job \in [Workers -> Positions \cup {0}]
      /\ wpc \in [Workers -> WorkerStates]
      /\ attempt \in [Workers -> 0..MaxAttempts]
  BY IdleWorkers DEF Init
<1>4. ctxDone \in BOOLEAN /\ csvErr \in BOOLEAN
  BY DEF Init
<1> QED
  BY <1>1, <1>2, <1>3, <1>4 DEF Init, TypeOK, Phases

(* Every action keeps the types and what busy workers hold; per action. *)
LEMMA TypeStep == TypeOK /\ Holding /\ [Next]_vars => TypeOK' /\ Holding'
<1> SUFFICES ASSUME TypeOK, Holding, [Next]_vars
             PROVE  TypeOK' /\ Holding'
  OBVIOUS
<1> USE DEF Phases, Setup, WorkerStates, Critical
<1>0. <<>> \in Seq(Ids) /\ <<>> \in Seq(Ids \cup {Newline})
  BY EmptySeq
<1>1. ASSUME NEW restart \in RestartFlags, Launch(restart)
      PROVE  TypeOK' /\ Holding'
  BY <1>1, IdleWorkers DEF TypeOK, Holding, Launch, FreshMemory, disk, bounds
<1>2. CASE Interrupt
  BY <1>2 DEF TypeOK, Holding, Interrupt, disk, workers, bounds
<1>3. CASE MainStep
  <2>1. CASE RemoveDone
    BY <1>0, <2>1 DEF TypeOK, Holding, RemoveDone, Happens, workers
  <2>2. CASE RemoveOut
    BY <1>0, <2>2 DEF TypeOK, Holding, RemoveOut, Happens, workers
  <2>3. CASE RemoveRaw
    BY <1>0, <2>3 DEF TypeOK, Holding, RemoveRaw, Happens, workers
  <2>4. CASE RemoveErr
    BY <2>4 DEF TypeOK, Holding, RemoveErr, Happens, workers
  <2>5. CASE LoadPending
    BY <2>5, PendingFinite DEF TypeOK, Holding, LoadPending, disk, workers, bounds
  <2>6. CASE OpenOut
    BY <2>6 DEF TypeOK, Holding, OpenOut, workers, bounds
  <2>7. CASE WriteHeader
    BY <2>7 DEF TypeOK, Holding, WriteHeader, Happens
  <2>8. CASE SpawnWorkers
    BY <2>8 DEF TypeOK, Holding, SpawnWorkers, AllAt, disk, bounds
  <2>9. CASE SetupFails
    BY <2>9 DEF TypeOK, Holding, SetupFails, Happens, disk, workers
  <2>10. CASE CloseJobs
    BY <2>10 DEF TypeOK, Holding, CloseJobs, disk, workers, bounds
  <2>11. CASE Finish
    BY <2>11 DEF TypeOK, Holding, Finish, disk, workers, bounds
  <2> QED
    BY <1>3, <2>1, <2>2, <2>3, <2>4, <2>5, <2>6, <2>7, <2>8, <2>9, <2>10, <2>11
       DEF MainStep
<1>4. ASSUME NEW w \in Workers, Feed(w)
      PROVE  TypeOK' /\ Holding'
  <2>1. \A i \in queue : i # 0
    BY LenProperties DEF TypeOK, Positions
  <2> QED
    BY <1>4, <2>1 DEF TypeOK, Holding, Feed, disk, bounds
<1>5. ASSUME NEW w \in Workers, WorkerStep(w)
      PROVE  TypeOK' /\ Holding'
  <2>1. CASE WorkerDrain(w)
    BY <2>1 DEF TypeOK, Holding, WorkerDrain, Goto, disk, control, bounds
  <2>2. CASE CheckCtx(w)
    BY <2>2 DEF TypeOK, Holding, CheckCtx, Goto, disk, control, bounds
  <2>3. CASE LimiterPass(w)
    BY <2>3 DEF TypeOK, Holding, LimiterPass, Goto, disk, control, bounds
  <2>4. CASE LimiterCancelled(w)
    BY <2>4 DEF TypeOK, Holding, LimiterCancelled, Goto, disk, control, bounds
  <2>5. CASE ReplyOk(w)
    BY <2>5 DEF TypeOK, Holding, ReplyOk, Goto, disk, control, bounds
  <2>6. CASE ReplyClientError(w)
    BY <2>6 DEF TypeOK, Holding, ReplyClientError, Goto, disk, control, bounds
  <2>7. CASE ReplyRetryable(w)
    BY <2>7 DEF TypeOK, Holding, ReplyRetryable, Goto, disk, control, bounds
  <2>8. CASE CancelInFlight(w)
    BY <2>8 DEF TypeOK, Holding, CancelInFlight, Goto, disk, control, bounds
  <2>9. CASE BackoffElapsed(w)
    BY <2>9 DEF TypeOK, Holding, BackoffElapsed, Goto, disk, control, bounds
  <2>10. CASE BackoffCancelled(w)
    BY <2>10 DEF TypeOK, Holding, BackoffCancelled, Goto, disk, control, bounds
  <2>11. CASE RecordFailure(w)
    <3>1. IdOf(w) \in Ids
      BY <2>11, HeldId DEF RecordFailure, Goto, Holding
    <3> QED
      BY <2>11, <3>1 DEF TypeOK, Holding, RecordFailure, Release, Happens, Goto, control
  <2>12. CASE WriteRow(w)
    <3>1. Append(out, IdOf(w)) \in Seq(Ids)
      BY <2>12, HeldId, AppendProperties DEF WriteRow, Goto, Holding, TypeOK
    <3> QED
      BY <2>12, <3>1 DEF TypeOK, Holding, WriteRow, Happens, Goto, control
  <2>13. CASE WriteRaw(w)
    <3>1. Append(raw, IdOf(w)) \in Seq(Ids \cup {Newline})
      BY <2>13, HeldId, AppendProperties DEF WriteRaw, Goto, Holding, TypeOK
    <3> QED
      BY <2>13, <3>1 DEF TypeOK, Holding, WriteRaw, Happens, Goto, control
  <2>14. CASE WriteNewline(w)
    <3>1. Append(raw, Newline) \in Seq(Ids \cup {Newline})
      BY AppendProperties DEF TypeOK
    <3> QED
      BY <2>14, <3>1 DEF TypeOK, Holding, WriteNewline, Happens, Goto, control
  <2>15. CASE MarkDone(w)
    <3>1. Append(doneLog, IdOf(w)) \in Seq(Ids)
      BY <2>15, HeldId, AppendProperties DEF MarkDone, Goto, Holding, TypeOK
    <3> QED
      BY <2>15, <3>1 DEF TypeOK, Holding, MarkDone, Release, Happens, Goto, control
  <2> QED
    BY <1>5, <2>1, <2>2, <2>3, <2>4, <2>5, <2>6, <2>7, <2>8, <2>9, <2>10, <2>11,
       <2>12, <2>13, <2>14, <2>15 DEF WorkerStep
<1>6. CASE Kill
  <2>1. Holding'
    BY <1>6, IdleWorkers DEF Kill, ProcessDies, FreshMemory, Holding
  <2>2. /\ job' \in [Workers -> Positions \cup {0}]
        /\ wpc' \in [Workers -> WorkerStates]
        /\ attempt' \in [Workers -> 0..MaxAttempts]
    BY <1>6, IdleWorkers DEF Kill, ProcessDies, FreshMemory
  <2>3. ctxDone' \in BOOLEAN /\ csvErr' \in BOOLEAN
    BY <1>6 DEF Kill, ProcessDies, FreshMemory
  <2> QED
    BY <1>6, <2>1, <2>2, <2>3 DEF TypeOK, Kill, ProcessDies, FreshMemory, disk
<1>7. CASE PowerFail
  <2>1. out' \in Seq(Ids) /\ raw' \in Seq(Ids \cup {Newline}) /\ doneLog' \in Seq(Ids)
    BY <1>7, PrefixToSet DEF TypeOK, PowerFail
  <2>2. Holding'
    BY <1>7, IdleWorkers DEF PowerFail, ProcessDies, FreshMemory, Holding
  <2>3. /\ job' \in [Workers -> Positions \cup {0}]
        /\ wpc' \in [Workers -> WorkerStates]
        /\ attempt' \in [Workers -> 0..MaxAttempts]
    BY <1>7, IdleWorkers DEF PowerFail, ProcessDies, FreshMemory
  <2>4. ctxDone' \in BOOLEAN /\ csvErr' \in BOOLEAN
    BY <1>7 DEF PowerFail, ProcessDies, FreshMemory
  <2>5. outFile' \in {"absent", "bare", "headed"} /\ errLog' \subseteq Ids
    BY <1>7 DEF PowerFail, TypeOK
  <2> QED
    BY <1>7, <2>1, <2>2, <2>3, <2>4, <2>5 DEF TypeOK, PowerFail, ProcessDies, FreshMemory
<1>8. CASE UNCHANGED vars
  BY <1>8 DEF TypeOK, Holding, vars, disk, control, workers, bounds
<1> QED
  BY <1>1, <1>2, <1>3, <1>4, <1>5, <1>6, <1>7, <1>8 DEF Next

(* Every variable keeps its type, and a worker never touches a record it    *)
(* does not hold or backs off with no attempt left, in every run sequence.  *)
THEOREM TypeCorrect == Spec => [](TypeOK /\ Holding)
<1>1. Init => TypeOK /\ Holding
  BY TypeInit
<1>2. TypeOK /\ Holding /\ [Next]_vars => (TypeOK /\ Holding)'
  BY TypeStep
<1> QED
  BY <1>1, <1>2, PTL DEF Spec

-----------------------------------------------------------------------------
(* The mutex and the claims on records. *)

(* A fresh process has no worker under way and no record claimed. *)
LEMMA FreshIsConsistent ==
  ASSUME FreshMemory
  PROVE  Mutex' /\ Quiet' /\ Claims'
<1>1. \A w \in Workers : wpc'[w] = "off" /\ job'[w] = 0
  BY IdleWorkers DEF FreshMemory
<1>2. writeMu' = NoWorker /\ queue' = {}
  BY DEF FreshMemory
<1> QED
  BY <1>1, <1>2 DEF Mutex, Quiet, Claims, Critical

(* Claims outlive every step that moves no record and acknowledges none. *)
LEMMA ClaimsStable ==
  ASSUME Claims, UNCHANGED <<queue, job>>, Acked' \subseteq Acked
  PROVE  Claims'
BY DEF Claims, IdOf

(* Every action keeps the mutex discipline and the quiet of the setup. *)
LEMMA MutexQuietStep ==
  TypeOK /\ Holding /\ Mutex /\ Quiet /\ [Next]_vars => Mutex' /\ Quiet'
<1> SUFFICES ASSUME TypeOK, Holding, Mutex, Quiet, [Next]_vars
             PROVE  Mutex' /\ Quiet'
  OBVIOUS
<1> USE DEF Setup, Critical
<1>1. ASSUME NEW restart \in RestartFlags, Launch(restart)
      PROVE  Mutex' /\ Quiet'
  BY <1>1, FreshIsConsistent DEF Launch
<1>2. CASE Interrupt
  BY <1>2 DEF Mutex, Quiet, Interrupt, workers
<1>3. CASE MainStep
  <2>1. CASE SpawnWorkers
    <3>1. /\ \A w \in Workers : wpc[w] = "off" /\ wpc'[w] = "recv"
          /\ phase' = "feed" /\ UNCHANGED writeMu
      BY <2>1 DEF SpawnWorkers, AllAt, Quiet
    <3> QED
      BY <3>1 DEF Mutex, Quiet
  <2>2. CASE ~SpawnWorkers
    <3>1. UNCHANGED <<wpc, job, writeMu>> /\ (phase' \in Setup => phase \in Setup)
      BY <1>3, <2>2 DEF MainStep, RemoveDone, RemoveOut, RemoveRaw, RemoveErr, LoadPending,
         OpenOut, WriteHeader, SetupFails, CloseJobs, Finish, workers
    <3> QED
      BY <3>1 DEF Mutex, Quiet
  <2> QED
    BY <2>1, <2>2
<1>4. ASSUME NEW w \in Workers, Feed(w)
      PROVE  Mutex' /\ Quiet'
  BY <1>4 DEF Mutex, Quiet, Feed, TypeOK
<1>5. ASSUME NEW w \in Workers, WorkerStep(w)
      PROVE  Mutex' /\ Quiet'
  <2>1. wpc[w] # "off" /\ UNCHANGED phase
    BY <1>5 DEF WorkerStep, WorkerDrain, CheckCtx, LimiterPass, LimiterCancelled, ReplyOk,
       ReplyClientError, ReplyRetryable, CancelInFlight, BackoffElapsed, BackoffCancelled,
       RecordFailure, WriteRow, WriteRaw, WriteNewline, MarkDone, Goto, control
  <2>2. Quiet'
    BY <2>1 DEF Quiet
  <2>3. CASE WriteRow(w)
    <3>1. \A v \in Workers : wpc[v] \notin Critical
      BY <2>3, WorkersAssumption DEF Mutex, WriteRow
    <3>2. wpc'[w] \in {"raw", "mark"} /\ \A v \in Workers \ {w} : wpc'[v] = wpc[v]
      BY <2>3 DEF WriteRow, Goto, TypeOK
    <3>3. writeMu' = w
      BY <2>3 DEF WriteRow
    <3> QED
      BY <2>2, <3>1, <3>2, <3>3 DEF Mutex
  <2>4. CASE MarkDone(w)
    <3>1. wpc'[w] = "recv" /\ \A v \in Workers \ {w} : wpc'[v] = wpc[v]
      BY <2>4 DEF MarkDone, Goto, TypeOK
    <3>2. writeMu = w /\ writeMu' = NoWorker
      BY <2>4 DEF MarkDone, Goto, Mutex
    <3> QED
      BY <2>2, <3>1, <3>2, WorkersAssumption DEF Mutex
  <2>5. CASE ~WriteRow(w) /\ ~MarkDone(w)
    <3>1. /\ UNCHANGED writeMu
          /\ \A v \in Workers \ {w} : wpc'[v] = wpc[v]
          /\ wpc[w] \in Critical <=> wpc'[w] \in Critical
      BY <1>5, <2>5 DEF WorkerStep, WorkerDrain, CheckCtx, LimiterPass, LimiterCancelled,
         ReplyOk, ReplyClientError, ReplyRetryable, CancelInFlight, BackoffElapsed,
         BackoffCancelled, RecordFailure, WriteRaw, WriteNewline, Goto, TypeOK
    <3> QED
      BY <3>1, <2>2 DEF Mutex
  <2> QED
    BY <2>2, <2>3, <2>4, <2>5
<1>6. CASE Kill \/ PowerFail
  BY <1>6, FreshIsConsistent DEF Kill, PowerFail, ProcessDies
<1>7. CASE UNCHANGED vars
  BY <1>7 DEF Mutex, Quiet, vars, control, workers
<1> QED
  BY <1>1, <1>2, <1>3, <1>4, <1>5, <1>6, <1>7 DEF Next

(* With no id listed twice, a record that is claimed is never done. *)
LEMMA ClaimsStep ==
  ASSUME IsInjective(IdsFile)
  PROVE  TypeOK /\ Consistent /\ [Next]_vars => Claims'
<1> SUFFICES ASSUME TypeOK, Consistent, [Next]_vars
             PROVE  Claims'
  OBVIOUS
<1> USE DEF Consistent
<1>1. ASSUME NEW restart \in RestartFlags, Launch(restart)
      PROVE  Claims'
  BY <1>1, FreshIsConsistent DEF Launch
<1>2. CASE Interrupt
  BY <1>2, ClaimsStable DEF Interrupt, workers, disk, Acked
<1>3. CASE MainStep
  <2>1. CASE LoadPending
    <3>1. \A w \in Workers : job'[w] = 0
      BY <2>1 DEF LoadPending, workers, Quiet, Setup
    <3>2. \A i \in queue' : IdsFile[i] \notin Acked'
      BY <2>1 DEF LoadPending, Pending, PendingAll, Acked, disk
    <3> QED
      BY <3>1, <3>2 DEF Claims
  <2>2. CASE RemoveDone
    <3>1. Acked' \subseteq Acked
      BY <2>2, EmptyToSet DEF RemoveDone, Acked
    <3> QED
      BY <2>2, <3>1, ClaimsStable DEF RemoveDone, workers
  <2>3. CASE ~LoadPending /\ ~RemoveDone
    <3>1. UNCHANGED <<queue, job, doneLog>>
      BY <1>3, <2>3 DEF MainStep, RemoveOut, RemoveRaw, RemoveErr, OpenOut, WriteHeader,
         SpawnWorkers, SetupFails, CloseJobs, Finish, workers, disk
    <3> QED
      BY <3>1, ClaimsStable DEF Acked
  <2> QED
    BY <2>1, <2>2, <2>3
<1>4. ASSUME NEW w \in Workers, Feed(w)
      PROVE  Claims'
  <2>1. PICK i \in queue : queue' = queue \ {i} /\ job' = [job EXCEPT ![w] = i]
    BY <1>4 DEF Feed
  <2>2. Acked' = Acked
    BY <1>4 DEF Feed, disk, Acked
  <2> QED
    BY <2>1, <2>2 DEF Claims, IdOf, TypeOK
<1>5. ASSUME NEW w \in Workers, WorkerStep(w)
      PROVE  Claims'
  <2>1. CASE RecordFailure(w)
    <3>1. queue' = queue /\ Acked' = Acked /\ job' = [job EXCEPT ![w] = 0]
      BY <2>1 DEF RecordFailure, Release, control, Acked
    <3> QED
      BY <3>1 DEF Claims, IdOf, TypeOK
  <2>2. CASE MarkDone(w)
    <3>1. job[w] # 0 /\ job[w] \in Positions /\ IdOf(w) \in Ids
      BY <2>2, HeldId DEF MarkDone, Goto, Holding, Critical
    <3>2. queue' = queue /\ job' = [job EXCEPT ![w] = 0]
      BY <2>2 DEF MarkDone, Release, control
    <3>3. Acked' \subseteq Acked \cup {IdOf(w)}
      BY <2>2, <3>1, AppendToSet DEF MarkDone, Acked, TypeOK
    <3>4. \A i \in Positions : i # job[w] => IdsFile[i] # IdOf(w)
      BY <3>1 DEF IsInjective, IdOf, Positions
    <3>5. \A i \in queue' : IdsFile[i] \notin Acked'
      BY <3>1, <3>2, <3>3, <3>4 DEF Claims, TypeOK
    <3>6. ASSUME NEW v \in Workers, job'[v] # 0
          PROVE  /\ job'[v] \notin queue'
                 /\ IdsFile[job'[v]] \notin Acked'
                 /\ \A u \in Workers : u # v => job'[u] # job'[v]
      <4>1. v # w /\ job'[v] = job[v] /\ job[v] # job[w] /\ job[v] \in Positions
        BY <3>1, <3>2, <3>6 DEF Claims, TypeOK
      <4>2. IdsFile[job[v]] \notin Acked'
        BY <4>1, <3>3, <3>4, <3>6 DEF Claims, IdOf
      <4> QED
        BY <3>2, <3>6, <4>1, <4>2 DEF Claims, TypeOK
    <3> QED
      BY <3>5, <3>6 DEF Claims, IdOf
  <2>3. CASE ~RecordFailure(w) /\ ~MarkDone(w)
    <3>1. UNCHANGED <<queue, job, doneLog>>
      BY <1>5, <2>3 DEF WorkerStep, WorkerDrain, CheckCtx, LimiterPass, LimiterCancelled,
         ReplyOk, ReplyClientError, ReplyRetryable, CancelInFlight, BackoffElapsed,
         BackoffCancelled, WriteRow, WriteRaw, WriteNewline, control, disk
    <3> QED
      BY <3>1, ClaimsStable DEF Acked
  <2> QED
    BY <2>1, <2>2, <2>3
<1>6. CASE Kill \/ PowerFail
  BY <1>6, FreshIsConsistent DEF Kill, PowerFail, ProcessDies
<1>7. CASE UNCHANGED vars
  BY <1>7, ClaimsStable DEF vars, control, workers, disk, Acked
<1> QED
  BY <1>1, <1>2, <1>3, <1>4, <1>5, <1>6, <1>7 DEF Next

(* Workers exclude each other while they write, and no record is in two     *)
(* hands, or in one hand and in the checkpoint: under kills, power failures,*)
(* restarts and write errors alike.                                         *)
THEOREM AlwaysConsistent ==
  ASSUME IsInjective(IdsFile)
  PROVE  Spec => [](TypeOK /\ Consistent)
<1>1. Init => TypeOK /\ Consistent
  <2> SUFFICES ASSUME Init PROVE TypeOK /\ Consistent
    OBVIOUS
  <2>1. \A w \in Workers : wpc[w] = "off" /\ job[w] = 0
    BY IdleWorkers DEF Init
  <2> QED
    BY <2>1, TypeInit, WorkersAssumption DEF Init, Consistent, Mutex, Quiet, Claims, Critical
<1>2. TypeOK /\ Consistent /\ [Next]_vars => (TypeOK /\ Consistent)'
  BY TypeStep, MutexQuietStep, ClaimsStep DEF Consistent
<1> QED
  BY <1>1, <1>2, PTL DEF Spec

(* What needs no assumption on the list of ids. *)
Exclusive == TypeOK /\ Holding /\ Mutex /\ Quiet

(* The strengthened invariant holds at first. *)
LEMMA ExclusiveInit == Init => Exclusive
<1> SUFFICES ASSUME Init PROVE Exclusive
  OBVIOUS
<1>1. \A w \in Workers : wpc[w] = "off" /\ job[w] = 0
  BY IdleWorkers DEF Init
<1> QED
  BY <1>1, TypeInit, WorkersAssumption DEF Init, Exclusive, Mutex, Quiet, Critical

(* Every action keeps it, by the three step lemmas above. *)
LEMMA ExclusiveStep == Exclusive /\ [Next]_vars => Exclusive'
BY TypeStep, MutexQuietStep DEF Exclusive

-----------------------------------------------------------------------------
(* A record in the checkpoint is never written again. *)

(* WriteRow is the only action that lengthens the output. *)
LEMMA OnlyWriteRowGrows ==
  ASSUME TypeOK, [Next]_vars, Len(out') > Len(out)
  PROVE  \E w \in Workers : WriteRow(w) /\ out' = Append(out, IdOf(w))
<1>1. ASSUME UNCHANGED out PROVE FALSE
  BY <1>1, LenProperties DEF TypeOK
<1>2. ASSUME NEW w \in Workers, WorkerStep(w), ~WriteRow(w) PROVE UNCHANGED out
  BY <1>2 DEF WorkerStep, WorkerDrain, CheckCtx, LimiterPass, LimiterCancelled, ReplyOk,
     ReplyClientError, ReplyRetryable, CancelInFlight, BackoffElapsed, BackoffCancelled,
     RecordFailure, WriteRaw, WriteNewline, MarkDone, disk
<1>3. CASE MainStep
  <2>1. CASE RemoveOut
    <3>1. out' = out \/ out' = <<>>
      BY <2>1 DEF RemoveOut
    <3> QED
      BY <1>1, <3>1, EmptySeq, LenProperties DEF TypeOK
  <2>2. CASE ~RemoveOut
    BY <1>1, <1>3, <2>2 DEF MainStep, RemoveDone, RemoveRaw, RemoveErr, LoadPending, OpenOut,
       WriteHeader, SpawnWorkers, SetupFails, CloseJobs, Finish, disk
  <2> QED
    BY <2>1, <2>2
<1>4. CASE PowerFail
  <2>1. PICK n \in 0..Len(out) : out' = SubSeq(out, 1, n)
    BY <1>4 DEF PowerFail
  <2>2. Len(out') = n /\ Len(out) \in Nat
    BY <2>1, PrefixToSet, LenProperties DEF TypeOK
  <2> QED
    BY <2>2
<1>5. CASE Kill \/ Interrupt \/ UNCHANGED vars \/ (\E w \in Workers : Feed(w))
           \/ (\E restart \in RestartFlags : Launch(restart))
  BY <1>1, <1>5 DEF Kill, Interrupt, vars, Feed, Launch, disk
<1>6. CASE \E w \in Workers : WorkerStep(w)
  <2>1. PICK w \in Workers : WriteRow(w)
    BY <1>1, <1>2, <1>6
  <2>2. out' = out \/ out' = Append(out, IdOf(w))
    BY <2>1 DEF WriteRow
  <2> QED
    BY <1>1, <2>1, <2>2
<1> QED
  BY <1>3, <1>4, <1>5, <1>6 DEF Next

(* An id in the checkpoint gets no second row, whatever kills, power        *)
(* failures, lost writes and restarts happened before, if no id is listed   *)
(* twice.                                                                   *)
THEOREM DoneIsFinal ==
  ASSUME IsInjective(IdsFile)
  PROVE  Spec => NeverRewritesDone
<1>1. TypeOK /\ Consistent /\ [Next]_vars
        => [Len(out') > Len(out) => out'[Len(out')] \notin Acked]_vars
  <2> SUFFICES ASSUME TypeOK, Consistent, [Next]_vars, Len(out') > Len(out)
               PROVE  out'[Len(out')] \notin Acked
    OBVIOUS
  <2>1. PICK w \in Workers : WriteRow(w) /\ out' = Append(out, IdOf(w))
    BY OnlyWriteRowGrows
  <2>2. job[w] # 0
    BY <2>1 DEF WriteRow, Goto, Consistent, Holding
  <2>3. IdOf(w) \in Ids
    BY <2>2, HeldId
  <2>4. out'[Len(out')] = IdOf(w)
    BY <2>1, <2>3, AppendProperties DEF TypeOK
  <2> QED
    BY <2>2, <2>4 DEF Consistent, Claims
<1> QED
  BY <1>1, AlwaysConsistent, PTL DEF Spec, NeverRewritesDone

-----------------------------------------------------------------------------
(* Rows come before acknowledgements. *)

(* The strengthening of AckedHaveRows: the row of the record being written  *)
(* is out before its checkpoint line, and the checkpoint is empty when      *)
(* -restart removes the output.                                             *)
RowsFirst ==
  /\ csvErr = FALSE
  /\ phase = "rmOut" => doneLog = <<>>
  /\ AckedHaveRows
  /\ \A w \in Workers : writeMu = w => IdOf(w) \in ToSet(out)

(* What moves neither rows, checkpoint nor the writer keeps rows first. *)
LEMMA RowsFirstStable ==
  ASSUME RowsFirst, UNCHANGED <<out, doneLog, job, writeMu, csvErr>>,
         phase' = "rmOut" => phase = "rmOut"
  PROVE  RowsFirst'
BY DEF RowsFirst, AckedHaveRows, Acked, IdOf

(* Every action keeps rows ahead of the checkpoint while writes succeed. *)
LEMMA RowsFirstStep ==
  ASSUME MaxFaults = 0, PowerLoss = FALSE
  PROVE  Exclusive /\ RowsFirst /\ [Next]_vars => RowsFirst'
<1> SUFFICES ASSUME Exclusive, RowsFirst, [Next]_vars
             PROVE  RowsFirst'
  OBVIOUS
<1> USE DEF Exclusive
<1>1. faults = 0
  BY DEF TypeOK
<1>2. \A lost \in BOOLEAN : Happens(lost) => lost = FALSE
  BY <1>1 DEF Happens
<1>3. ASSUME FreshMemory, UNCHANGED <<out, doneLog>>, phase' # "rmOut"
      PROVE  RowsFirst'
  BY <1>3, WorkersAssumption DEF FreshMemory, RowsFirst, AckedHaveRows, Acked
<1>4. ASSUME NEW restart \in RestartFlags, Launch(restart)
      PROVE  RowsFirst'
  BY <1>3, <1>4 DEF Launch, disk
<1>5. CASE Interrupt
  BY <1>5, RowsFirstStable DEF Interrupt, disk, workers
<1>6. CASE MainStep
  <2>1. CASE RemoveDone
    <3>1. doneLog' = <<>> /\ UNCHANGED <<out, workers>>
      BY <1>2, <2>1 DEF RemoveDone
    <3> QED
      BY <3>1, EmptyToSet DEF RowsFirst, AckedHaveRows, Acked, IdOf, workers
  <2>2. CASE RemoveOut
    <3>1. doneLog' = <<>> /\ UNCHANGED workers /\ phase' # "rmOut"
      BY <2>2 DEF RemoveOut, RowsFirst
    <3>2. writeMu \notin Workers
      BY <2>2 DEF RemoveOut, Quiet, Setup, Mutex, Critical
    <3> QED
      BY <3>1, <3>2, EmptyToSet DEF RowsFirst, AckedHaveRows, Acked, workers
  <2>3. CASE WriteHeader
    <3>1. csvErr' = FALSE
      BY <1>2, <2>3 DEF WriteHeader
    <3> QED
      BY <2>3, <3>1, RowsFirstStable DEF WriteHeader, RowsFirst
  <2>4. CASE ~RemoveDone /\ ~RemoveOut /\ ~WriteHeader
    BY <1>6, <2>4, RowsFirstStable DEF MainStep, RemoveRaw, RemoveErr, LoadPending, OpenOut,
       SpawnWorkers, SetupFails, CloseJobs, Finish, disk, workers
  <2> QED
    BY <2>1, <2>2, <2>3, <2>4
<1>7. ASSUME NEW w \in Workers, Feed(w)
      PROVE  RowsFirst'
  <2>1. writeMu # w
    BY <1>7 DEF Feed, Mutex, Critical
  <2>2. \A v \in Workers : v # w => job'[v] = job[v]
    BY <1>7 DEF Feed, TypeOK
  <2> QED
    BY <1>7, <2>1, <2>2 DEF Feed, RowsFirst, AckedHaveRows, Acked, IdOf, disk
<1>8. ASSUME NEW w \in Workers, WorkerStep(w)
      PROVE  RowsFirst'
  <2>1. CASE RecordFailure(w)
    <3>1. writeMu = NoWorker /\ UNCHANGED <<out, doneLog, writeMu, csvErr, phase>>
      BY <2>1 DEF RecordFailure, control
    <3> QED
      BY <3>1, WorkersAssumption DEF RowsFirst, AckedHaveRows, Acked
  <2>2. CASE WriteRow(w)
    <3>1. IdOf(w) \in Ids
      BY <2>2, HeldId DEF WriteRow, Goto, Holding
    <3>2. out' = Append(out, IdOf(w)) /\ csvErr' = FALSE
      BY <1>2, <2>2 DEF WriteRow, RowsFirst
    <3>3. ToSet(out') = ToSet(out) \cup {IdOf(w)}
      BY <3>1, <3>2, AppendToSet DEF TypeOK
    <3>4. writeMu' = w /\ UNCHANGED <<doneLog, job, phase>>
      BY <2>2 DEF WriteRow, control
    <3> QED
      BY <3>2, <3>3, <3>4 DEF RowsFirst, AckedHaveRows, Acked, IdOf
  <2>3. CASE MarkDone(w)
    <3>1. writeMu = w /\ writeMu' = NoWorker
      BY <2>3 DEF MarkDone, Goto, Mutex, Critical
    <3>2. IdOf(w) \in Ids /\ IdOf(w) \in ToSet(out)
      BY <2>3, <3>1, HeldId DEF MarkDone, Goto, Holding, Critical, RowsFirst
    <3>3. doneLog' = Append(doneLog, IdOf(w)) /\ UNCHANGED <<out, csvErr, phase>>
      BY <1>2, <2>3 DEF MarkDone, control
    <3>4. phase # "rmOut"
      BY <2>3 DEF MarkDone, Goto, Quiet, Setup
    <3>5. Acked' = Acked \cup {IdOf(w)}
      BY <3>2, <3>3, AppendToSet DEF Acked, TypeOK
    <3> QED
      BY <3>1, <3>2, <3>3, <3>4, <3>5, WorkersAssumption DEF RowsFirst, AckedHaveRows
  <2>4. CASE ~RecordFailure(w) /\ ~WriteRow(w) /\ ~MarkDone(w)
    <3>1. UNCHANGED <<out, doneLog, job, writeMu, csvErr, phase>>
      BY <1>8, <2>4 DEF WorkerStep, WorkerDrain, CheckCtx, LimiterPass, LimiterCancelled,
         ReplyOk, ReplyClientError, ReplyRetryable, CancelInFlight, BackoffElapsed,
         BackoffCancelled, WriteRaw, WriteNewline, disk, control
    <3> QED
      BY <3>1, RowsFirstStable
  <2> QED
    BY <2>1, <2>2, <2>3, <2>4
<1>9. CASE Kill
  BY <1>3, <1>9 DEF Kill, ProcessDies, disk
<1>10. CASE PowerFail
  BY <1>10 DEF PowerFail
<1>11. CASE UNCHANGED vars
  BY <1>11, RowsFirstStable DEF vars, disk, control, workers
<1> QED
  BY <1>4, <1>5, <1>6, <1>7, <1>8, <1>9, <1>10, <1>11 DEF Next

(* While writes succeed and the machine stays up, an id in the checkpoint   *)
(* has its row, through any kills, interrupts and restarts.                 *)
THEOREM RowsBeforeAcks ==
  ASSUME MaxFaults = 0, PowerLoss = FALSE
  PROVE  Spec => []AckedHaveRows
<1>1. Init => Exclusive /\ RowsFirst
  <2>1. Init => RowsFirst
    BY EmptyToSet, WorkersAssumption DEF Init, RowsFirst, AckedHaveRows, Acked
  <2> QED
    BY <2>1, ExclusiveInit
<1>2. Exclusive /\ RowsFirst /\ [Next]_vars => (Exclusive /\ RowsFirst)'
  BY ExclusiveStep, RowsFirstStep
<1>3. Exclusive /\ RowsFirst => AckedHaveRows
  BY DEF RowsFirst
<1> QED
  BY <1>1, <1>2, <1>3, PTL DEF Spec

-----------------------------------------------------------------------------
(* Without kills, no row is written twice. *)

(* The strengthening of NoDuplicateRows: every row is acknowledged or is    *)
(* being written, but for the time -restart has emptied the checkpoint and  *)
(* not yet the output; and a process that ended has left nothing half done. *)
RowsSettled ==
  /\ csvErr = FALSE
  /\ IsInjective(out)
  /\ \A x \in ToSet(out) :
       \/ phase = "rmOut"
       \/ x \in Acked
       \/ \E w \in Workers : writeMu = w /\ x = IdOf(w)
  /\ phase = "down" => \A w \in Workers : wpc[w] \in {"off", "exited"}

(* A disturbance is counted and never forgotten. *)
LEMMA DisturbanceStays ==
  ASSUME TypeOK, [Next]_vars, Undisturbed'
  PROVE  Undisturbed /\ UNCHANGED <<kills, faults>>
<1>1. kills \in Nat /\ faults \in Nat
  BY DEF TypeOK
<1>2. \A lost \in BOOLEAN : Happens(lost) => faults' = faults \/ faults' = faults + 1
  BY DEF Happens
<1>3. kills' = kills \/ kills' = kills + 1
  BY DEF Next, vars, bounds, disk, workers, Launch, Interrupt, MainStep, RemoveDone, RemoveOut,
     RemoveRaw, RemoveErr, LoadPending, OpenOut, WriteHeader, SpawnWorkers, SetupFails, CloseJobs,
     Finish, Feed, WorkerStep, WorkerDrain, CheckCtx, LimiterPass, LimiterCancelled, ReplyOk,
     ReplyClientError, ReplyRetryable, CancelInFlight, BackoffElapsed, BackoffCancelled,
     RecordFailure, WriteRow, WriteRaw, WriteNewline, MarkDone, Kill, PowerFail, ProcessDies
<1>4. faults' = faults \/ faults' = faults + 1
  BY <1>2 DEF Next, vars, bounds, disk, workers, Launch, Interrupt, MainStep, RemoveDone,
     RemoveOut, RemoveRaw, RemoveErr, LoadPending, OpenOut, WriteHeader, SpawnWorkers, SetupFails,
     CloseJobs, Finish, Feed, WorkerStep, WorkerDrain, CheckCtx, LimiterPass, LimiterCancelled,
     ReplyOk, ReplyClientError, ReplyRetryable, CancelInFlight, BackoffElapsed, BackoffCancelled,
     RecordFailure, WriteRow, WriteRaw, WriteNewline, MarkDone, Kill, PowerFail, ProcessDies
<1> QED
  BY <1>1, <1>3, <1>4 DEF Undisturbed

(* Up to the first kill or failed operation, every action keeps rows        *)
(* unique: a row not yet acknowledged is the one in its writer's hands.     *)
LEMMA RowsSettledStep ==
  TypeOK /\ Consistent /\ (Undisturbed => RowsSettled) /\ [Next]_vars
    => (Undisturbed' => RowsSettled')
<1> SUFFICES ASSUME TypeOK, Consistent, Undisturbed => RowsSettled, [Next]_vars, Undisturbed'
             PROVE  RowsSettled'
  OBVIOUS
<1> USE DEF Consistent
<1>0. RowsSettled
  BY DisturbanceStays
<1>1. faults = 0 /\ kills = 0 /\ faults' = 0 /\ kills' = 0
  BY DisturbanceStays DEF Undisturbed
<1>2. \A lost \in BOOLEAN : Happens(lost) => lost = FALSE
  BY <1>1 DEF Happens
<1>3. ASSUME UNCHANGED <<out, doneLog, writeMu, job, csvErr>>,
             phase = "rmOut" => phase' = "rmOut",
             phase' = "down" => \A w \in Workers : wpc'[w] \in {"off", "exited"}
      PROVE  RowsSettled'
  BY <1>0, <1>3 DEF RowsSettled, Acked, IdOf
<1>4. ASSUME NEW restart \in RestartFlags, Launch(restart)
      PROVE  RowsSettled'
  <2>1. writeMu \notin Workers
    BY <1>0, <1>4 DEF Launch, RowsSettled, Mutex, Critical
  <2>2. UNCHANGED <<out, doneLog>> /\ csvErr' = FALSE /\ phase # "rmOut" /\ phase' # "down"
    BY <1>4 DEF Launch, FreshMemory, disk
  <2> QED
    BY <1>0, <2>1, <2>2 DEF RowsSettled, Acked
<1>5. CASE Interrupt
  BY <1>3, <1>5 DEF Interrupt, disk, workers
<1>6. CASE MainStep
  <2>1. CASE RemoveDone
    BY <1>0, <2>1 DEF RemoveDone, RowsSettled, workers
  <2>2. CASE RemoveOut
    <3>1. out' = <<>> /\ csvErr' = FALSE /\ phase' = "rmRaw"
      BY <1>0, <1>2, <2>2 DEF RemoveOut, RowsSettled, workers
    <3>2. IsInjective(<<>>)
      BY DEF IsInjective
    <3> QED
      BY <1>0, <3>1, <3>2, EmptyToSet DEF RowsSettled
  <2>3. CASE WriteHeader
    <3>1. csvErr' = FALSE
      BY <1>2, <2>3 DEF WriteHeader
    <3> QED
      BY <1>0, <1>3, <2>3, <3>1 DEF WriteHeader, RowsSettled
  <2>4. CASE Finish
    BY <1>3, <2>4 DEF Finish, disk, workers
  <2>5. CASE SpawnWorkers \/ CloseJobs
    BY <1>3, <2>5 DEF SpawnWorkers, CloseJobs, disk, workers
  <2>6. CASE RemoveRaw \/ RemoveErr \/ LoadPending \/ OpenOut \/ SetupFails
    BY <1>3, <2>6 DEF RemoveRaw, RemoveErr, LoadPending, OpenOut, SetupFails, disk, workers,
       Quiet, Setup
  <2> QED
    BY <1>6, <2>1, <2>2, <2>3, <2>4, <2>5, <2>6 DEF MainStep
<1>7. ASSUME NEW w \in Workers, Feed(w)
      PROVE  RowsSettled'
  <2>1. writeMu # w
    BY <1>7 DEF Feed, Mutex, Critical
  <2>2. \A v \in Workers : v # w => job'[v] = job[v]
    BY <1>7 DEF Feed, TypeOK
  <2>3. UNCHANGED <<out, doneLog, writeMu, csvErr, phase>> /\ phase # "down"
    BY <1>7 DEF Feed, disk
  <2> QED
    BY <1>0, <2>1, <2>2, <2>3 DEF RowsSettled, Acked, IdOf
<1>8. ASSUME NEW w \in Workers, WorkerStep(w)
      PROVE  RowsSettled'
  <2>0. phase' = phase /\ phase # "down" /\ phase # "rmOut"
    BY <1>0, <1>8 DEF WorkerStep, WorkerDrain, CheckCtx, LimiterPass, LimiterCancelled, ReplyOk,
       ReplyClientError, ReplyRetryable, CancelInFlight, BackoffElapsed, BackoffCancelled,
       RecordFailure, WriteRow, WriteRaw, WriteNewline, MarkDone, Goto, control,
       RowsSettled, Quiet, Setup
  <2>1. CASE RecordFailure(w)
    <3>1. writeMu = NoWorker /\ UNCHANGED <<out, doneLog, writeMu, csvErr>>
      BY <2>1 DEF RecordFailure
    <3> QED
      BY <1>0, <2>0, <3>1, WorkersAssumption DEF RowsSettled, Acked
  <2>2. CASE WriteRow(w)
    <3>1. job[w] # 0
      BY <2>2 DEF WriteRow, Goto, Holding
    <3>2. IdOf(w) \in Ids /\ IdOf(w) \notin Acked
      BY <3>1, HeldId DEF Claims
    <3>3. /\ out' = Append(out, IdOf(w)) /\ csvErr' = FALSE
          /\ writeMu' = w /\ UNCHANGED <<doneLog, job>>
      BY <1>0, <1>2, <2>2 DEF WriteRow, RowsSettled
    <3>4. writeMu = NoWorker
      BY <2>2 DEF WriteRow
    <3>5. IdOf(w) \notin ToSet(out)
      BY <1>0, <2>0, <3>2, <3>4, WorkersAssumption DEF RowsSettled
    <3>6. IsInjective(out')
      <4>1. out \in Seq(Ids) /\ IsInjective(out)
        BY <1>0 DEF TypeOK, RowsSettled
      <4>2. IsInjective(Append(out, IdOf(w)))
        BY <3>2, <3>5, <4>1, AppendKeepsInjective
      <4> QED
        BY <3>3, <4>2
    <3>7. ToSet(out') = ToSet(out) \cup {IdOf(w)}
      BY <3>2, <3>3, AppendToSet DEF TypeOK
    <3>8. \A x \in ToSet(out) : x \in Acked
      BY <1>0, <2>0, <3>4, WorkersAssumption DEF RowsSettled
    <3> QED
      BY <1>0, <2>0, <3>3, <3>6, <3>7, <3>8 DEF RowsSettled, Acked, IdOf
  <2>3. CASE MarkDone(w)
    <3>1. writeMu = w
      BY <2>3 DEF MarkDone, Goto, Mutex, Critical
    <3>2. IdOf(w) \in Ids
      BY <2>3, HeldId DEF MarkDone, Goto, Holding, Critical
    <3>3. doneLog' = Append(doneLog, IdOf(w)) /\ UNCHANGED <<out, csvErr>>
      BY <1>2, <2>3 DEF MarkDone
    <3>4. Acked' = Acked \cup {IdOf(w)}
      BY <3>2, <3>3, AppendToSet DEF Acked, TypeOK
    <3>5. \A x \in ToSet(out) : x \in Acked \/ x = IdOf(w)
      BY <1>0, <2>0, <3>1 DEF RowsSettled
    <3> QED
      BY <1>0, <2>0, <3>3, <3>4, <3>5 DEF RowsSettled
  <2>4. CASE ~RecordFailure(w) /\ ~WriteRow(w) /\ ~MarkDone(w)
    <3>1. UNCHANGED <<out, doneLog, job, writeMu, csvErr>>
      BY <1>8, <2>4 DEF WorkerStep, WorkerDrain, CheckCtx, LimiterPass, LimiterCancelled,
         ReplyOk, ReplyClientError, ReplyRetryable, CancelInFlight, BackoffElapsed,
         BackoffCancelled, WriteRaw, WriteNewline, disk
    <3> QED
      BY <1>3, <2>0, <3>1
  <2> QED
    BY <2>1, <2>2, <2>3, <2>4
<1>9. ~Kill /\ ~PowerFail
  BY <1>1 DEF Kill, PowerFail, ProcessDies
<1>10. CASE UNCHANGED vars
  BY <1>0, <1>3, <1>10 DEF vars, disk, control, workers, RowsSettled
<1> QED
  BY <1>4, <1>5, <1>6, <1>7, <1>8, <1>9, <1>10 DEF Next

(* Any sequence of runs, ended by Ctrl+C or not, with -restart or without,  *)
(* leaves at most one row per id, up to the first kill or failed operation  *)
(* on a file.                                                               *)
THEOREM RowsAreUnique ==
  ASSUME IsInjective(IdsFile)
  PROVE  Spec => []NoDuplicateRows
<1>1. Init => RowsSettled
  <2>1. IsInjective(<<>>)
    BY DEF IsInjective
  <2> QED
    BY <2>1, EmptyToSet, IdleWorkers DEF Init, RowsSettled
<1> DEFINE Unique == Undisturbed => RowsSettled
<1>2. Init => Unique
  BY <1>1
<1>3. TypeOK /\ Consistent /\ Unique /\ [Next]_vars => Unique'
  BY RowsSettledStep
<1>4. Unique => NoDuplicateRows
  BY DEF RowsSettled, NoDuplicateRows
<1> HIDE DEF Unique
<1> QED
  BY <1>2, <1>3, <1>4, AlwaysConsistent, PTL DEF Spec

-----------------------------------------------------------------------------
(* Bodies come before acknowledgements. *)

(* The strengthening of AckedHaveBodies: the body of a record is in the raw *)
(* log when the newline and the checkpoint line are due, and the checkpoint *)
(* is empty when -restart removes the raw log.                              *)
BodiesFirst ==
  /\ phase \in {"rmOut", "rmRaw"} => doneLog = <<>>
  /\ AckedHaveBodies
  /\ RawPath => \A w \in Workers : wpc[w] \in {"newline", "mark"} => IdOf(w) \in ToSet(raw)

(* What moves neither bodies, checkpoint nor workers keeps bodies first. *)
LEMMA BodiesFirstStable ==
  ASSUME BodiesFirst, UNCHANGED <<raw, doneLog, job, wpc>>,
         phase' \in {"rmOut", "rmRaw"} => phase \in {"rmOut", "rmRaw"}
  PROVE  BodiesFirst'
BY DEF BodiesFirst, AckedHaveBodies, Acked, IdOf

(* Every action keeps bodies ahead of the checkpoint while writes succeed. *)
LEMMA BodiesFirstStep ==
  ASSUME MaxFaults = 0, PowerLoss = FALSE
  PROVE  Exclusive /\ BodiesFirst /\ [Next]_vars => BodiesFirst'
<1> SUFFICES ASSUME Exclusive, BodiesFirst, [Next]_vars
             PROVE  BodiesFirst'
  OBVIOUS
<1> USE DEF Exclusive
<1>1. \A lost \in BOOLEAN : Happens(lost) => lost = FALSE
  BY DEF Happens, TypeOK
<1>2. ASSUME FreshMemory, UNCHANGED <<raw, doneLog>>, phase' \notin {"rmOut", "rmRaw"}
      PROVE  BodiesFirst'
  BY <1>2, IdleWorkers DEF FreshMemory, BodiesFirst, AckedHaveBodies, Acked
<1>3. ASSUME NEW restart \in RestartFlags, Launch(restart)
      PROVE  BodiesFirst'
  BY <1>2, <1>3 DEF Launch, disk
<1>4. CASE Interrupt
  BY <1>4, BodiesFirstStable DEF Interrupt, disk, workers
<1>5. CASE MainStep
  <2>1. CASE RemoveDone
    <3>1. doneLog' = <<>> /\ UNCHANGED <<raw, workers>>
      BY <1>1, <2>1 DEF RemoveDone
    <3> QED
      BY <3>1, EmptyToSet DEF BodiesFirst, AckedHaveBodies, Acked, IdOf, workers
  <2>2. CASE RemoveRaw
    <3>1. doneLog' = <<>> /\ UNCHANGED wpc /\ phase' = "rmErr"
      BY <2>2 DEF RemoveRaw, BodiesFirst, workers
    <3>2. \A w \in Workers : wpc[w] = "off"
      BY <2>2 DEF RemoveRaw, Quiet, Setup
    <3> QED
      BY <3>1, <3>2, EmptyToSet DEF BodiesFirst, AckedHaveBodies, Acked
  <2>3. CASE SpawnWorkers
    <3>1. \A w \in Workers : wpc'[w] = "recv"
      BY <2>3 DEF SpawnWorkers, AllAt
    <3> QED
      BY <2>3, <3>1 DEF SpawnWorkers, BodiesFirst, AckedHaveBodies, Acked, disk
  <2>4. CASE ~RemoveDone /\ ~RemoveRaw /\ ~SpawnWorkers
    <3>1. /\ UNCHANGED <<raw, doneLog, job, wpc>>
          /\ phase' \in {"rmOut", "rmRaw"} => phase \in {"rmOut", "rmRaw"}
      BY <1>5, <2>4 DEF MainStep, RemoveOut, RemoveErr, LoadPending, OpenOut, WriteHeader,
         SetupFails, CloseJobs, Finish, disk, workers
    <3> QED
      BY <3>1, BodiesFirstStable
  <2> QED
    BY <2>1, <2>2, <2>3, <2>4
<1>6. ASSUME NEW w \in Workers, Feed(w)
      PROVE  BodiesFirst'
  <2>1. /\ wpc'[w] = "got" /\ UNCHANGED <<raw, doneLog, phase>>
        /\ \A v \in Workers : v # w => job'[v] = job[v] /\ wpc'[v] = wpc[v]
    BY <1>6 DEF Feed, TypeOK, disk
  <2> QED
    BY <2>1 DEF BodiesFirst, AckedHaveBodies, Acked, IdOf
<1>7. ASSUME NEW w \in Workers, WorkerStep(w)
      PROVE  BodiesFirst'
  <2>0. phase \notin {"rmOut", "rmRaw"} /\ phase' = phase
    BY <1>7 DEF WorkerStep, WorkerDrain, CheckCtx, LimiterPass, LimiterCancelled, ReplyOk,
       ReplyClientError, ReplyRetryable, CancelInFlight, BackoffElapsed, BackoffCancelled,
       RecordFailure, WriteRow, WriteRaw, WriteNewline, MarkDone, Goto, control, Quiet, Setup
  <2>1. CASE WriteRaw(w)
    <3>1. IdOf(w) \in Ids /\ raw \in Seq(Ids \cup {Newline})
      BY <2>1, HeldId DEF WriteRaw, Goto, Holding, Critical, TypeOK
    <3>2. raw' = Append(raw, IdOf(w)) /\ UNCHANGED <<doneLog, job>>
      BY <1>1, <2>1 DEF WriteRaw
    <3>3. ToSet(raw') = ToSet(raw) \cup {IdOf(w)}
      BY <3>1, <3>2, AppendToSet
    <3>4. \A v \in Workers : v # w => wpc'[v] = wpc[v]
      BY <2>1 DEF WriteRaw, Goto, TypeOK
    <3> QED
      BY <2>0, <3>2, <3>3, <3>4 DEF BodiesFirst, AckedHaveBodies, Acked, IdOf
  <2>2. CASE WriteNewline(w)
    <3>1. raw' = Append(raw, Newline) /\ UNCHANGED <<doneLog, job>>
      BY <1>1, <2>2 DEF WriteNewline
    <3>2. ToSet(raw') = ToSet(raw) \cup {Newline}
      <4> DEFINE S == Ids \cup {Newline}
      <4>1. raw \in Seq(S) /\ Newline \in S
        BY DEF TypeOK
      <4> HIDE DEF S
      <4> QED
        BY <3>1, <4>1, AppendToSet
    <3>3. wpc[w] = "newline" /\ \A v \in Workers : v # w => wpc'[v] = wpc[v]
      BY <2>2 DEF WriteNewline, Goto, TypeOK
    <3> QED
      BY <2>0, <3>1, <3>2, <3>3 DEF BodiesFirst, AckedHaveBodies, Acked, IdOf
  <2>3. CASE MarkDone(w)
    <3>1. IdOf(w) \in Ids /\ (RawPath => IdOf(w) \in ToSet(raw))
      BY <2>3, HeldId DEF MarkDone, Goto, Holding, Critical, BodiesFirst
    <3>2. doneLog' = Append(doneLog, IdOf(w)) /\ UNCHANGED raw
      BY <1>1, <2>3 DEF MarkDone
    <3>3. Acked' = Acked \cup {IdOf(w)}
      BY <3>1, <3>2, AppendToSet DEF Acked, TypeOK
    <3>4. /\ wpc'[w] = "recv"
          /\ \A v \in Workers : v # w => wpc'[v] = wpc[v] /\ job'[v] = job[v]
      BY <2>3 DEF MarkDone, Release, Goto, TypeOK
    <3> QED
      BY <2>0, <3>1, <3>2, <3>3, <3>4 DEF BodiesFirst, AckedHaveBodies, IdOf
  <2>4. CASE ~WriteRaw(w) /\ ~WriteNewline(w) /\ ~MarkDone(w)
    <3>1. /\ UNCHANGED <<raw, doneLog>>
          /\ RawPath => wpc'[w] \notin {"newline", "mark"}
          /\ \A v \in Workers : v # w => wpc'[v] = wpc[v] /\ job'[v] = job[v]
      BY <1>7, <2>4 DEF WorkerStep, WorkerDrain, CheckCtx, LimiterPass, LimiterCancelled,
         ReplyOk, ReplyClientError, ReplyRetryable, CancelInFlight, BackoffElapsed,
         BackoffCancelled, RecordFailure, WriteRow, Release, Goto, TypeOK, disk
    <3> QED
      BY <2>0, <3>1 DEF BodiesFirst, AckedHaveBodies, Acked, IdOf
  <2> QED
    BY <2>1, <2>2, <2>3, <2>4
<1>8. CASE Kill
  BY <1>2, <1>8 DEF Kill, ProcessDies, disk
<1>9. CASE PowerFail
  BY <1>9 DEF PowerFail
<1>10. CASE UNCHANGED vars
  BY <1>10, BodiesFirstStable DEF vars, disk, control, workers
<1> QED
  BY <1>3, <1>4, <1>5, <1>6, <1>7, <1>8, <1>9, <1>10 DEF Next

(* While writes succeed and the machine stays up, an id in the checkpoint   *)
(* has its body in the raw log, through any kills, interrupts and restarts. *)
THEOREM BodiesBeforeAcks ==
  ASSUME MaxFaults = 0, PowerLoss = FALSE
  PROVE  Spec => []AckedHaveBodies
<1>1. Init => Exclusive /\ BodiesFirst
  <2>1. Init => BodiesFirst
    BY EmptyToSet, IdleWorkers DEF Init, BodiesFirst, AckedHaveBodies, Acked
  <2> QED
    BY <2>1, ExclusiveInit
<1>2. Exclusive /\ BodiesFirst /\ [Next]_vars => (Exclusive /\ BodiesFirst)'
  BY ExclusiveStep, BodiesFirstStep
<1>3. Exclusive /\ BodiesFirst => AckedHaveBodies
  BY DEF BodiesFirst
<1> QED
  BY <1>1, <1>2, <1>3, PTL DEF Spec

-----------------------------------------------------------------------------
(* A process that ended has left no worker behind. *)

(* A run ends with its workers gone or never started. *)
Rested == phase = "down" => \A w \in Workers : wpc[w] \in {"off", "exited"}

(* Workers only work between the feed loop's start and the join. *)
LEMMA WorkersRun ==
  ASSUME Quiet, Rested, TypeOK, NEW w \in Workers, WorkerStep(w)
  PROVE  phase \in {"feed", "join"} /\ phase' = phase
BY DEF WorkerStep, WorkerDrain, CheckCtx, LimiterPass, LimiterCancelled, ReplyOk,
   ReplyClientError, ReplyRetryable, CancelInFlight, BackoffElapsed, BackoffCancelled,
   RecordFailure, WriteRow, WriteRaw, WriteNewline, MarkDone, Goto, control, Quiet, Rested,
   TypeOK, Phases, Setup

(* Every way out of RunDetail, and every way to die, leaves nobody at work. *)
LEMMA RestedStep == Exclusive /\ Rested /\ [Next]_vars => Rested'
<1> SUFFICES ASSUME Exclusive, Rested, [Next]_vars
             PROVE  Rested'
  OBVIOUS
<1> USE DEF Exclusive
<1>1. CASE \E restart \in RestartFlags : Launch(restart)
  BY <1>1 DEF Launch, Rested
<1>2. CASE Interrupt \/ UNCHANGED vars
  BY <1>2 DEF Interrupt, Rested, workers, control, vars
<1>3. CASE MainStep
  <2>1. CASE LoadPending \/ SetupFails
    BY <2>1 DEF LoadPending, SetupFails, workers, Quiet, Setup, Rested
  <2>2. CASE Finish
    BY <2>2 DEF Finish, workers, Rested
  <2>3. CASE ~LoadPending /\ ~SetupFails /\ ~Finish
    BY <1>3, <2>3 DEF MainStep, RemoveDone, RemoveOut, RemoveRaw, RemoveErr, OpenOut,
       WriteHeader, SpawnWorkers, CloseJobs, Rested
  <2> QED
    BY <2>1, <2>2, <2>3
<1>4. CASE \E w \in Workers : Feed(w)
  BY <1>4 DEF Feed, Rested
<1>5. CASE \E w \in Workers : WorkerStep(w)
  BY <1>5, WorkersRun DEF Rested
<1>6. CASE Kill \/ PowerFail
  BY <1>6, IdleWorkers DEF Kill, PowerFail, ProcessDies, FreshMemory, Rested
<1> QED
  BY <1>1, <1>2, <1>3, <1>4, <1>5, <1>6 DEF Next

(* The invariant that needs no assumption, with the rest of ended runs. *)
Orderly == Exclusive /\ Rested

(* It holds at first. *)
LEMMA OrderlyInit == Init => Orderly
BY ExclusiveInit, IdleWorkers DEF Init, Orderly, Rested

(* Every action keeps it. *)
LEMMA OrderlyStep == Orderly /\ [Next]_vars => Orderly'
BY ExclusiveStep, RestedStep DEF Orderly

-----------------------------------------------------------------------------
(* The raw log is one object per line. *)

(* The strengthening of OneObjectPerLine: the log ends with a newline, but  *)
(* for the time between the two writes of the worker that holds the mutex.  *)
LinesWhole ==
  /\ \A n \in 1 .. Len(raw) - 1 : raw[n] # Newline => raw[n + 1] = Newline
  /\ raw # <<>> => raw[Len(raw)] = Newline \/ \E w \in Workers : wpc[w] = "newline"

(* What leaves the log and a worker between its two writes alone. *)
LEMMA LinesStable ==
  ASSUME LinesWhole, UNCHANGED raw,
         \A w \in Workers : wpc[w] = "newline" => wpc'[w] = "newline"
  PROVE  LinesWhole'
BY DEF LinesWhole

(* Up to the first kill or failed operation, bodies and newlines alternate. *)
LEMMA LinesStep ==
  Orderly /\ (Undisturbed => LinesWhole) /\ [Next]_vars => (Undisturbed' => LinesWhole')
<1> SUFFICES ASSUME Orderly, Undisturbed => LinesWhole, [Next]_vars, Undisturbed'
             PROVE  LinesWhole'
  OBVIOUS
<1> USE DEF Orderly, Exclusive
<1>0. LinesWhole
  BY DisturbanceStays
<1>1. kills' = kills /\ \A lost \in BOOLEAN : Happens(lost) => lost = FALSE
  BY DisturbanceStays DEF Undisturbed, Happens
<1>2. Len(raw) \in Nat /\ raw \in Seq(Ids \cup {Newline})
  BY LenProperties DEF TypeOK
<1>3. ASSUME NEW restart \in RestartFlags, Launch(restart)
      PROVE  LinesWhole'
  <2>1. \A w \in Workers : wpc[w] # "newline"
    BY <1>3 DEF Launch, Rested
  <2> QED
    BY <1>0, <1>3, <2>1, LinesStable DEF Launch, disk
<1>4. CASE Interrupt \/ UNCHANGED vars
  BY <1>0, <1>4, LinesStable DEF Interrupt, vars, disk, workers
<1>5. CASE MainStep
  <2>1. CASE RemoveRaw
    <3>1. raw' = raw \/ raw' = <<>>
      BY <2>1 DEF RemoveRaw
    <3>2. raw' = raw => LinesWhole'
      BY <1>0, <2>1, LinesStable DEF RemoveRaw, workers
    <3>3. CASE raw' = <<>>
      <4>1. Len(raw') = 0 /\ 1 .. Len(raw') - 1 = {}
        BY <3>3
      <4> QED
        BY <3>3, <4>1 DEF LinesWhole
    <3> QED
      BY <3>1, <3>2, <3>3
  <2>2. CASE SpawnWorkers
    <3>1. \A w \in Workers : wpc[w] # "newline"
      BY <2>2 DEF SpawnWorkers, Quiet, Setup
    <3> QED
      BY <1>0, <2>2, <3>1, LinesStable DEF SpawnWorkers, disk
  <2>3. CASE ~RemoveRaw /\ ~SpawnWorkers
    <3>1. UNCHANGED <<raw, wpc>>
      BY <1>5, <2>3 DEF MainStep, RemoveDone, RemoveOut, RemoveErr, LoadPending, OpenOut,
         WriteHeader, SetupFails, CloseJobs, Finish, disk, workers
    <3> QED
      BY <1>0, <3>1, LinesStable
  <2> QED
    BY <2>1, <2>2, <2>3
<1>6. ASSUME NEW w \in Workers, Feed(w)
      PROVE  LinesWhole'
  BY <1>0, <1>6, LinesStable DEF Feed, TypeOK, disk
<1>7. ASSUME NEW w \in Workers, WorkerStep(w)
      PROVE  LinesWhole'
  <2>1. CASE WriteRaw(w)
    <3>1. \A v \in Workers : wpc[v] # "newline"
      BY <2>1 DEF WriteRaw, Goto, Mutex, Critical
    <3>2. raw' = Append(raw, IdOf(w)) /\ wpc'[w] = "newline" /\ IdOf(w) \in Ids
      BY <1>1, <2>1, HeldId DEF WriteRaw, Goto, TypeOK, Holding, Critical
    <3>3. /\ Len(raw') = Len(raw) + 1
          /\ \A n \in 1..Len(raw) : raw'[n] = raw[n]
      BY <1>2, <3>2, AppendProperties
    <3>4. raw # <<>> => raw[Len(raw)] = Newline
      BY <1>0, <3>1 DEF LinesWhole
    <3>5. ASSUME NEW n \in 1 .. Len(raw') - 1, raw'[n] # Newline
          PROVE  raw'[n + 1] = Newline
      <4>1. n \in 1..Len(raw) /\ raw # <<>>
        BY <1>2, <3>3
      <4>2. n # Len(raw)
        BY <3>3, <3>4, <3>5, <4>1
      <4>3. n \in 1..Len(raw) - 1 /\ n + 1 \in 1..Len(raw)
        BY <1>2, <4>1, <4>2
      <4> QED
        BY <1>0, <3>3, <3>5, <4>1, <4>3 DEF LinesWhole
    <3> QED
      BY <3>2, <3>5 DEF LinesWhole
  <2>2. CASE WriteNewline(w)
    <3>1. raw' = Append(raw, Newline)
      BY <1>1, <2>2 DEF WriteNewline
    <3>2. /\ Len(raw') = Len(raw) + 1 /\ raw'[Len(raw) + 1] = Newline
          /\ \A n \in 1..Len(raw) : raw'[n] = raw[n]
      BY <1>2, <3>1, AppendProperties
    <3>3. ASSUME NEW n \in 1 .. Len(raw') - 1, raw'[n] # Newline
          PROVE  raw'[n + 1] = Newline
      <4>1. CASE n = Len(raw)
        BY <3>2, <4>1
      <4>2. CASE n # Len(raw)
        <5>1. n \in 1..Len(raw) /\ n \in 1..Len(raw) - 1 /\ n + 1 \in 1..Len(raw)
          BY <1>2, <3>2, <4>2
        <5> QED
          BY <1>0, <3>2, <3>3, <5>1 DEF LinesWhole
      <4> QED
        BY <4>1, <4>2
    <3> QED
      BY <1>2, <3>2, <3>3 DEF LinesWhole
  <2>3. CASE ~WriteRaw(w) /\ ~WriteNewline(w)
    <3>1. /\ UNCHANGED raw /\ wpc[w] # "newline"
          /\ \A v \in Workers : v # w => wpc'[v] = wpc[v]
      BY <1>7, <2>3 DEF WorkerStep, WorkerDrain, CheckCtx, LimiterPass, LimiterCancelled,
         ReplyOk, ReplyClientError, ReplyRetryable, CancelInFlight, BackoffElapsed,
         BackoffCancelled, RecordFailure, WriteRow, MarkDone, Goto, TypeOK, disk
    <3> QED
      BY <1>0, <3>1, LinesStable
  <2> QED
    BY <2>1, <2>2, <2>3
<1>8. ~Kill /\ ~PowerFail
  BY <1>1 DEF Kill, PowerFail, ProcessDies, TypeOK
<1> QED
  BY <1>3, <1>4, <1>5, <1>6, <1>7, <1>8 DEF Next

(* However the workers interleave, the raw log is one object per line up to *)
(* the first kill or failed operation on a file.                            *)
THEOREM LinesAreWhole == Spec => []OneObjectPerLine
<1>1. Init => (Undisturbed => LinesWhole)
  BY DEF Init, LinesWhole
<1> DEFINE Lines == Undisturbed => LinesWhole
<1>2. Orderly /\ Lines /\ [Next]_vars => Lines'
  BY LinesStep
<1>3. Lines => OneObjectPerLine
  BY DEF LinesWhole, OneObjectPerLine
<1>4. Init => Lines
  BY <1>1
<1> HIDE DEF Lines
<1> QED
  BY <1>2, <1>3, <1>4, OrderlyInit, OrderlyStep, PTL DEF Spec

-----------------------------------------------------------------------------
(* Rows stand under a header. *)

(* The strengthening of RowsUnderHeader: only the writing of the header     *)
(* sees a file without one, and the workers start behind it.                *)
Headed ==
  /\ outFile = "bare" => phase = "header"
  /\ phase \in {"spawn", "feed", "join"} => outFile = "headed"
  /\ out # <<>> => outFile = "headed"

(* Up to the first kill or failed operation, the header comes first. *)
LEMMA HeadedStep ==
  Orderly /\ (Undisturbed => Headed) /\ [Next]_vars => (Undisturbed' => Headed')
<1> SUFFICES ASSUME Orderly, Undisturbed => Headed, [Next]_vars, Undisturbed'
             PROVE  Headed'
  OBVIOUS
<1> USE DEF Orderly, Exclusive
<1>0. Headed
  BY DisturbanceStays
<1>1. kills' = kills /\ \A lost \in BOOLEAN : Happens(lost) => lost = FALSE
  BY DisturbanceStays DEF Undisturbed, Happens
<1>2. outFile \in {"absent", "bare", "headed"} /\ faults' = faults
  BY DisturbanceStays DEF TypeOK
<1>3. CASE \E restart \in RestartFlags : Launch(restart)
  BY <1>0, <1>3 DEF Launch, Headed, disk
<1>4. CASE Interrupt \/ UNCHANGED vars
  BY <1>0, <1>4 DEF Interrupt, vars, Headed, disk, control
<1>5. CASE MainStep
  <2>1. CASE RemoveOut
    BY <1>1, <2>1 DEF RemoveOut, Headed
  <2>2. CASE WriteHeader
    BY <1>1, <2>2 DEF WriteHeader, Headed
  <2>3. CASE OpenOut
    BY <1>0, <1>2, <2>3 DEF OpenOut, Headed
  <2>4. CASE RemoveDone \/ RemoveRaw \/ RemoveErr \/ LoadPending
    BY <1>0, <2>4 DEF RemoveDone, RemoveRaw, RemoveErr, LoadPending, Headed, disk
  <2>5. CASE SpawnWorkers \/ CloseJobs \/ Finish
    BY <1>0, <2>5 DEF SpawnWorkers, CloseJobs, Finish, Headed, disk
  <2>6. CASE SetupFails
    BY <1>1, <2>6 DEF SetupFails
  <2> QED
    BY <1>5, <2>1, <2>2, <2>3, <2>4, <2>5, <2>6 DEF MainStep
<1>6. CASE \E w \in Workers : Feed(w)
  BY <1>0, <1>6 DEF Feed, Headed, disk
<1>7. ASSUME NEW w \in Workers, WorkerStep(w)
      PROVE  Headed'
  <2>1. phase \in {"feed", "join"} /\ phase' = phase
    BY <1>7, WorkersRun
  <2>2. outFile' = outFile
    BY <1>7 DEF WorkerStep, WorkerDrain, CheckCtx, LimiterPass, LimiterCancelled, ReplyOk,
       ReplyClientError, ReplyRetryable, CancelInFlight, BackoffElapsed, BackoffCancelled,
       RecordFailure, WriteRow, WriteRaw, WriteNewline, MarkDone, disk
  <2> QED
    BY <1>0, <2>1, <2>2 DEF Headed
<1>8. ~Kill /\ ~PowerFail
  BY <1>1 DEF Kill, PowerFail, ProcessDies, TypeOK
<1> QED
  BY <1>3, <1>4, <1>5, <1>6, <1>7, <1>8 DEF Next

(* Rows stand under a header, up to the first kill or failed operation on a *)
(* file.                                                                    *)
THEOREM HeaderComesFirst == Spec => []RowsUnderHeader
<1> DEFINE Under == Undisturbed => Headed
<1>1. Init => Under
  BY DEF Init, Headed
<1>2. Orderly /\ Under /\ [Next]_vars => Under'
  BY HeadedStep
<1>3. Under => RowsUnderHeader
  BY DEF Headed, RowsUnderHeader
<1> HIDE DEF Under
<1> QED
  BY <1>1, <1>2, <1>3, OrderlyInit, OrderlyStep, PTL DEF Spec

-----------------------------------------------------------------------------
(* A run that ends well has accounted for every record it took on. *)

(* The records of this run that are neither done nor given up. *)
Unsettled == queue \cup ({job[w] : w \in Workers} \ {0})

(* From the pending list to the join. *)
Running == {"open", "header", "spawn", "feed", "join"}

(* A record is queued or in one hand; a worker that asks for the next       *)
(* record, or that ended because the channel was closed, holds none.        *)
OneHand ==
  \A w \in Workers :
    /\ job[w] # 0 => /\ job[w] \notin queue
                     /\ \A v \in Workers : v # w => job[v] # job[w]
    /\ wpc[w] \in {"off", "recv"} => job[w] = 0
    /\ wpc[w] = "exited" /\ ~ctxDone => job[w] = 0

(* The counters and the unsettled records add up to the pending list, and   *)
(* the channel is closed early only on Ctrl+C.                              *)
Counted ==
  /\ phase \in Setup => processed = 0 /\ failed = 0
  /\ phase \in Running => processed + failed + Cardinality(Unsettled) = total
  /\ phase = "join" /\ ~ctxDone => queue = {}

(* With an error log and no cut, every record of the list is unsettled, in  *)
(* the checkpoint or named in the error log.                                *)
AllTaken == ErrPath /\ (MaxRecords = 0 \/ total < MaxRecords)

Named ==
  phase \in Running /\ AllTaken =>
    \A i \in Positions : i \in Unsettled \/ IdsFile[i] \in Acked \cup errLog

Accounted == OneHand /\ Counted /\ Named /\ CleanExitAccountsForAll

(* A pending list shorter than -max-records was not cut. *)
LEMMA PendingUncut ==
  ASSUME MaxRecords = 0 \/ Cardinality(Pending) < MaxRecords
  PROVE  Pending = PendingAll
<1>1. Positions = 1..Len(IdsFile) /\ Len(IdsFile) \in Nat
  BY LenProperties DEF Positions
<1>2. Pending \subseteq PendingAll /\ PendingAll \subseteq Positions /\ IsFiniteSet(Positions)
  BY <1>1, FS_Interval DEF Pending, PendingAll
<1>3. IsFiniteSet(Pending) /\ Cardinality(Pending) \in Nat
  BY <1>2, PendingFinite, FS_Subset
<1> SUFFICES ASSUME MaxRecords # 0, PendingAll \ Pending # {}
             PROVE  FALSE
  BY <1>2 DEF Pending
<1>4. PICK i \in PendingAll \ Pending : \A j \in PendingAll \ Pending : i <= j
  <2>1. PendingAll \ Pending \in SUBSET Nat
    BY <1>1, <1>2
  <2> QED
    BY <2>1, LeastNumber
<1> DEFINE Before == {j \in PendingAll : j < i}
<1>5. Before \subseteq Pending
  <2> SUFFICES ASSUME NEW j \in PendingAll, j < i, j \notin Pending
               PROVE  FALSE
    OBVIOUS
  <2>1. i \in Nat /\ j \in Nat /\ i <= j
    BY <1>1, <1>2, <1>4
  <2> QED
    BY <2>1
<1>6. Cardinality(Before) <= Cardinality(Pending)
  BY <1>3, <1>5, FS_Subset
<1>7. Cardinality(Before) \in Nat
  BY <1>3, <1>5, FS_Subset, FS_CardinalityType
<1>8. ~(Cardinality(Before) < MaxRecords)
  BY <1>4 DEF Pending
<1> QED
  BY <1>3, <1>6, <1>7, <1>8

(* What is unsettled is a finite set of positions. *)
LEMMA UnsettledFinite ==
  ASSUME TypeOK
  PROVE  Unsettled \subseteq Positions /\ IsFiniteSet(Unsettled) /\ Cardinality(Unsettled) \in Nat
<1>1. Positions = 1..Len(IdsFile) /\ Len(IdsFile) \in Nat
  BY LenProperties DEF Positions
<1>2. Unsettled \subseteq Positions
  BY DEF TypeOK, Unsettled
<1>3. IsFiniteSet(Positions)
  BY <1>1, FS_Interval
<1> QED
  BY <1>2, <1>3, FS_Subset, FS_CardinalityType

(* A worker that lets go of its record takes it from the unsettled ones. *)
LEMMA LetGo ==
  ASSUME TypeOK, OneHand, NEW w \in Workers, job[w] # 0, Release(w), queue' = queue,
         Goto(w, wpc[w], "recv"), ctxDone' = ctxDone
  PROVE  /\ Unsettled' = Unsettled \ {job[w]}
         /\ Cardinality(Unsettled') = Cardinality(Unsettled) - 1
         /\ OneHand'
<1>1. /\ job'[w] = 0 /\ wpc'[w] = "recv"
      /\ \A v \in Workers : v # w => job'[v] = job[v] /\ wpc'[v] = wpc[v]
  BY DEF Release, Goto, TypeOK
<1>2. job[w] \in Unsettled
  BY DEF Unsettled
<1>3. Unsettled' = Unsettled \ {job[w]}
  <2>1. ASSUME NEW i \in Unsettled' PROVE i \in Unsettled \ {job[w]}
    <3>1. CASE i \in queue
      BY <3>1 DEF Unsettled, OneHand
    <3>2. CASE i \notin queue
      <4>1. PICK v \in Workers : i = job'[v] /\ i # 0
        BY <2>1, <3>2 DEF Unsettled
      <4>2. v # w /\ i = job[v]
        BY <1>1, <4>1
      <4> QED
        BY <4>1, <4>2 DEF Unsettled, OneHand
    <3> QED
      BY <3>1, <3>2
  <2>2. ASSUME NEW i \in Unsettled \ {job[w]} PROVE i \in Unsettled'
    <3>1. CASE i \in queue
      BY <3>1 DEF Unsettled
    <3>2. CASE i \notin queue
      <4>1. PICK v \in Workers : i = job[v] /\ i # 0
        BY <2>2, <3>2 DEF Unsettled
      <4>2. v # w /\ i = job'[v]
        BY <1>1, <2>2, <4>1
      <4> QED
        BY <4>1, <4>2 DEF Unsettled
    <3> QED
      BY <3>1, <3>2
  <2> QED
    BY <2>1, <2>2
<1>4. Cardinality(Unsettled') = Cardinality(Unsettled) - 1
  BY <1>2, <1>3, UnsettledFinite, FS_RemoveElement
<1>5. OneHand'
  BY <1>1 DEF OneHand
<1> QED
  BY <1>3, <1>4, <1>5

(* What the account depends on. *)
LEMMA AccountStable ==
  ASSUME Accounted, UNCHANGED <<queue, job, total, processed, failed>>,
         ctxDone => ctxDone',
         \A w \in Workers : \/ wpc'[w] = wpc[w]
                            \/ wpc'[w] \notin {"off", "recv", "exited"}
                            \/ wpc'[w] = "exited" /\ (ctxDone' \/ job[w] = 0),
         phase' \in Setup => phase \in Setup,
         phase' \in Running => phase \in Running,
         phase' = "join" => phase = "join" \/ queue = {} \/ ctxDone',
         phase' = "down" => phase = "down" /\ exit' = exit,
         phase' \in Running \cup {"down"} => Acked \cup errLog \subseteq (Acked \cup errLog)'
  PROVE  Accounted'
<1>1. Unsettled' = Unsettled
  BY DEF Unsettled
<1>2. OneHand'
  BY DEF Accounted, OneHand
<1>3. Counted'
  BY <1>1 DEF Accounted, Counted
<1>4. Named'
  BY <1>1 DEF Accounted, Named, AllTaken
<1>5. CleanExitAccountsForAll'
  BY DEF Accounted, CleanExitAccountsForAll
<1> QED
  BY <1>2, <1>3, <1>4, <1>5 DEF Accounted

(* While a run is set up or under way, its own end is not at stake. *)
LEMMA NotDown ==
  ASSUME phase' # "down"
  PROVE  CleanExitAccountsForAll'
BY DEF CleanExitAccountsForAll

(* A fresh process has nothing to account for until it ends well. *)
LEMMA FreshAccount ==
  ASSUME FreshMemory, phase' \notin Running, phase' = "down" => exit' # "ok"
  PROVE  Accounted'
<1>1. /\ \A w \in Workers : job'[w] = 0
      /\ processed' = 0 /\ failed' = 0
  BY IdleWorkers DEF FreshMemory
<1>2. phase' # "join"
  BY DEF Running
<1> QED
  BY <1>1, <1>2 DEF Accounted, OneHand, Counted, Named, CleanExitAccountsForAll

(* A worker that settles its record keeps the account. *)
LEMMA AccountSettles ==
  ASSUME TypeOK, Accounted, NEW w \in Workers, job[w] # 0, Release(w), queue' = queue,
         Goto(w, wpc[w], "recv"), ctxDone' = ctxDone, total' = total,
         phase' = phase, phase \in {"feed", "join"},
         \/ processed' = processed + 1 /\ failed' = failed
         \/ processed' = processed /\ failed' = failed + 1,
         Acked \cup errLog \subseteq (Acked \cup errLog)',
         ErrPath => IdOf(w) \in (Acked \cup errLog)'
  PROVE  Accounted'
<1>1. /\ Unsettled' = Unsettled \ {job[w]}
      /\ Cardinality(Unsettled') = Cardinality(Unsettled) - 1
      /\ OneHand'
  BY LetGo DEF Accounted
<1>2. Cardinality(Unsettled) \in Nat /\ processed \in Nat /\ failed \in Nat /\ total \in Nat
  BY UnsettledFinite DEF TypeOK
<1>3. processed + failed + Cardinality(Unsettled) = total
  BY DEF Accounted, Counted, Running
<1>4. processed' + failed' + Cardinality(Unsettled') = total'
  BY <1>1, <1>2, <1>3
<1>5. Counted'
  BY <1>4 DEF Accounted, Counted, Setup
<1>6. Named'
  BY <1>1 DEF Accounted, Named, AllTaken, Running, IdOf
<1>7. CleanExitAccountsForAll'
  BY DEF CleanExitAccountsForAll
<1> QED
  BY <1>1, <1>5, <1>6, <1>7 DEF Accounted

(* Every action keeps the account; only kills and Ctrl+C leave it open. *)
LEMMA AccountedStep ==
  ASSUME MaxFaults = 0
  PROVE  Orderly /\ Accounted /\ [Next]_vars => Accounted'
<1> SUFFICES ASSUME Orderly, Accounted, [Next]_vars
             PROVE  Accounted'
  OBVIOUS
<1> USE DEF Orderly, Exclusive
<1>1. \A lost \in BOOLEAN : Happens(lost) => lost = FALSE
  BY DEF Happens, TypeOK
<1>2. ASSUME NEW restart \in RestartFlags, Launch(restart)
      PROVE  Accounted'
  BY <1>2, FreshAccount DEF Launch, Running
<1>3. CASE Interrupt \/ UNCHANGED vars
  BY <1>3, AccountStable DEF Interrupt, vars, disk, control, workers, Acked
<1>4. CASE MainStep
  <2>1. CASE RemoveDone \/ RemoveOut \/ RemoveRaw \/ RemoveErr
    <3>1. /\ UNCHANGED <<queue, job, total, processed, failed, ctxDone, wpc>>
          /\ phase \in Setup /\ phase' \in Setup \ (Running \cup {"down"})
      BY <2>1 DEF RemoveDone, RemoveOut, RemoveRaw, RemoveErr, workers, Setup, Running
    <3>2. phase' # "join"
      BY <3>1 DEF Running
    <3> QED
      BY <3>1, <3>2, AccountStable
  <2>2. CASE LoadPending
    <3>1. \A w \in Workers : job[w] = 0 /\ job'[w] = 0 /\ wpc'[w] = "off"
      BY <2>2 DEF LoadPending, Quiet, Setup, workers
    <3>2. Unsettled' = Pending
      BY <2>2, <3>1 DEF LoadPending, Unsettled
    <3>3. /\ total' = Cardinality(Unsettled') /\ total' \in Nat
          /\ processed' = 0 /\ failed' = 0
      BY <2>2, <3>2, PendingFinite DEF LoadPending, workers, Accounted, Counted, Setup
    <3>4. OneHand'
      BY <3>1 DEF OneHand
    <3>5. Counted'
      BY <2>2, <3>3 DEF Counted, LoadPending
    <3>6. AllTaken' => \A i \in Positions : i \in Unsettled' \/ IdsFile[i] \in (Acked \cup errLog)'
      <4> SUFFICES ASSUME AllTaken', NEW i \in Positions, IdsFile[i] \notin (Acked \cup errLog)'
                   PROVE  i \in Unsettled'
        OBVIOUS
      <4>1. Pending = PendingAll
        BY <2>2, PendingUncut DEF AllTaken, LoadPending
      <4>2. IdsFile[i] \notin Acked
        BY <2>2 DEF LoadPending, disk, Acked
      <4> QED
        BY <3>2, <4>1, <4>2 DEF PendingAll
    <3>7. CleanExitAccountsForAll'
      <4> SUFFICES ASSUME phase' = "down"
                   PROVE  CleanExitAccountsForAll'
        BY NotDown
      <4>1. Unsettled' = {} /\ total' = 0
        BY <2>2, <3>2, <3>3, FS_EmptySet DEF LoadPending
      <4>2. AllTaken' => \A i \in Positions : IdsFile[i] \in (Acked \cup errLog)'
        BY <3>6, <4>1
      <4>3. AllTaken' => ToSet(IdsFile) \subseteq (Acked \cup errLog)'
        BY <4>2 DEF ToSet, Positions
      <4> QED
        BY <3>3, <4>1, <4>3 DEF CleanExitAccountsForAll, AllTaken
    <3> QED
      BY <3>4, <3>5, <3>6, <3>7 DEF Accounted, Named
  <2>3. CASE OpenOut \/ WriteHeader
    <3>1. /\ UNCHANGED <<queue, job, total, processed, failed, ctxDone, wpc, doneLog, errLog>>
          /\ phase \in Setup \cap Running /\ phase' \in Running \ {"join"}
      BY <2>3 DEF OpenOut, WriteHeader, workers, Setup, Running
    <3>2. phase' # "down"
      BY <3>1 DEF Running
    <3> QED
      BY <3>1, <3>2, AccountStable DEF Acked
  <2>4. CASE SpawnWorkers
    <3>1. /\ \A w \in Workers : job'[w] = 0 /\ job[w] = 0
          /\ UNCHANGED <<queue, total, processed, failed, doneLog, errLog>>
          /\ phase = "spawn" /\ phase' = "feed"
      BY <2>4 DEF SpawnWorkers, Quiet, Setup, disk
    <3>2. OneHand'
      BY <3>1 DEF OneHand
    <3>3. Unsettled' = Unsettled
      BY <3>1 DEF Unsettled
    <3> QED
      BY <3>1, <3>2, <3>3, NotDown DEF Accounted, Counted, Named, AllTaken, Running, Setup, Acked
  <2>5. ~SetupFails
    BY <1>1 DEF SetupFails
  <2>6. CASE CloseJobs
    BY <2>6, AccountStable DEF CloseJobs, disk, workers, Setup, Running, Acked
  <2>7. CASE Finish
    <3>1. /\ phase = "join" /\ phase' = "down" /\ \A w \in Workers : wpc[w] = "exited"
          /\ UNCHANGED <<queue, job, wpc, ctxDone, total, processed, failed, doneLog, errLog>>
          /\ exit' = "ok" => ~ctxDone
      BY <2>7 DEF Finish, workers, disk
    <3>2. OneHand' /\ Counted' /\ Named'
      BY <3>1 DEF Accounted, OneHand, Counted, Named, Setup, Running
    <3>3. ASSUME exit' = "ok"
          PROVE  Unsettled = {}
      BY <3>1, <3>3 DEF Accounted, OneHand, Counted, Unsettled
    <3>4. ASSUME exit' = "ok"
          PROVE  processed + failed = total
      <4>1. processed + failed + Cardinality(Unsettled) = total
        BY <3>1 DEF Accounted, Counted, Running
      <4>2. Cardinality(Unsettled) = 0
        BY <3>3, <3>4, FS_EmptySet
      <4> QED
        BY <4>1, <4>2 DEF TypeOK
    <3>5. ASSUME exit' = "ok", AllTaken
          PROVE  ToSet(IdsFile) \subseteq Acked \cup errLog
      <4>1. \A i \in Positions : IdsFile[i] \in Acked \cup errLog
        BY <3>1, <3>3, <3>5 DEF Accounted, Named, Running
      <4> QED
        BY <4>1 DEF ToSet, Positions
    <3>6. CleanExitAccountsForAll'
      BY <3>1, <3>4, <3>5 DEF CleanExitAccountsForAll, AllTaken, Acked
    <3> QED
      BY <3>2, <3>6 DEF Accounted
  <2> QED
    BY <1>4, <2>1, <2>2, <2>3, <2>4, <2>5, <2>6, <2>7 DEF MainStep
<1>5. ASSUME NEW w \in Workers, Feed(w)
      PROVE  Accounted'
  <2>1. PICK i \in queue : queue' = queue \ {i} /\ job' = [job EXCEPT ![w] = i]
    BY <1>5 DEF Feed
  <2>2. /\ wpc[w] = "recv" /\ wpc'[w] = "got" /\ phase = "feed" /\ phase' = "feed"
        /\ \A v \in Workers : v # w => job'[v] = job[v] /\ wpc'[v] = wpc[v]
        /\ UNCHANGED <<ctxDone, total, processed, failed, doneLog, errLog>>
    BY <1>5, <2>1 DEF Feed, TypeOK, disk
  <2>3. job[w] = 0 /\ job'[w] = i /\ i # 0 /\ \A v \in Workers : job[v] # 0 => job[v] # i
    BY <2>1, <2>2, LenProperties DEF Accounted, OneHand, TypeOK, Positions
  <2>4. OneHand'
    BY <2>1, <2>2, <2>3 DEF Accounted, OneHand
  <2>5. Unsettled' = Unsettled
    <3>1. \A x \in Unsettled' : x \in Unsettled
      BY <2>1, <2>2, <2>3 DEF Unsettled
    <3>2. ASSUME NEW x \in Unsettled PROVE x \in Unsettled'
      <4>1. CASE x = i
        BY <2>3, <4>1 DEF Unsettled
      <4>2. CASE x # i /\ x \in queue
        BY <2>1, <4>2 DEF Unsettled
      <4>3. CASE x # i /\ x \notin queue
        <5>1. PICK v \in Workers : x = job[v] /\ x # 0
          BY <3>2, <4>3 DEF Unsettled
        <5>2. v # w
          BY <2>3, <5>1
        <5> QED
          BY <2>2, <5>1, <5>2 DEF Unsettled
      <4> QED
        BY <4>1, <4>2, <4>3
    <3> QED
      BY <3>1, <3>2
  <2> QED
    BY <2>2, <2>4, <2>5, NotDown DEF Accounted, Counted, Named, AllTaken, Running, Setup, Acked
<1>6. ASSUME NEW w \in Workers, WorkerStep(w)
      PROVE  Accounted'
  <2>0. phase \in {"feed", "join"} /\ phase' = phase
    BY <1>6, WorkersRun
  <2>1. CASE RecordFailure(w)
    <3>1. job[w] # 0
      BY <2>1 DEF RecordFailure, Goto, Holding
    <3>2. /\ ErrPath => errLog' = errLog \cup {IdOf(w)}
          /\ errLog \subseteq errLog' /\ doneLog' = doneLog
          /\ failed' = failed + 1 /\ UNCHANGED <<processed, queue, ctxDone, total>>
          /\ Release(w) /\ Goto(w, wpc[w], "recv")
      BY <1>1, <2>1 DEF RecordFailure, control, Goto
    <3> QED
      BY <2>0, <3>1, <3>2, AccountSettles DEF Acked
  <2>2. CASE MarkDone(w)
    <3>1. job[w] # 0 /\ IdOf(w) \in Ids
      BY <2>2, HeldId DEF MarkDone, Goto, Holding, Critical
    <3>2. /\ doneLog' = Append(doneLog, IdOf(w)) /\ errLog' = errLog
          /\ processed' = processed + 1 /\ UNCHANGED <<failed, queue, ctxDone, total>>
          /\ Release(w) /\ Goto(w, wpc[w], "recv")
      BY <1>1, <2>2 DEF MarkDone, control, Goto
    <3>3. Acked' = Acked \cup {IdOf(w)}
      BY <3>1, <3>2, AppendToSet DEF Acked, TypeOK
    <3> QED
      BY <2>0, <3>1, <3>2, <3>3, AccountSettles
  <2>3. CASE ~RecordFailure(w) /\ ~MarkDone(w)
    <3>1. /\ UNCHANGED <<queue, job, total, processed, failed, ctxDone, exit, doneLog, errLog>>
          /\ \A v \in Workers : v # w => wpc'[v] = wpc[v]
          /\ \/ wpc'[w] \notin {"off", "recv", "exited"}
             \/ wpc'[w] = "exited" /\ (ctxDone' \/ wpc[w] = "recv")
      BY <1>6, <2>3 DEF WorkerStep, WorkerDrain, CheckCtx, LimiterPass, LimiterCancelled,
         ReplyOk, ReplyClientError, ReplyRetryable, CancelInFlight, BackoffElapsed,
         BackoffCancelled, WriteRow, WriteRaw, WriteNewline, Goto, TypeOK, control, disk
    <3>2. wpc[w] = "recv" => job[w] = 0
      BY DEF Accounted, OneHand
    <3> QED
      BY <2>0, <3>1, <3>2, AccountStable DEF Acked
  <2> QED
    BY <2>1, <2>2, <2>3
<1>7. CASE Kill \/ PowerFail
  BY <1>7, FreshAccount DEF Kill, PowerFail, ProcessDies, Running
<1> QED
  BY <1>2, <1>3, <1>4, <1>5, <1>6, <1>7 DEF Next

(* A run that returns nil has settled every record of its pending list and, *)
(* with an error log and no cut, every id of the list, after whatever kills *)
(* and power failures came before; only failed file operations are left out.*)
THEOREM CleanExitIsComplete ==
  ASSUME MaxFaults = 0
  PROVE  Spec => []CleanExitAccountsForAll
<1>1. Init => Accounted
  <2> SUFFICES ASSUME Init PROVE Accounted
    OBVIOUS
  <2>1. \A w \in Workers : job[w] = 0
    BY IdleWorkers DEF Init
  <2> QED
    BY <2>1 DEF Init, Accounted, OneHand, Counted, Named, CleanExitAccountsForAll, Setup, Running
<1>2. Orderly /\ Accounted /\ [Next]_vars => Accounted'
  BY AccountedStep
<1>3. Accounted => CleanExitAccountsForAll
  BY DEF Accounted
<1> QED
  BY <1>1, <1>2, <1>3, OrderlyInit, OrderlyStep, PTL DEF Spec

-----------------------------------------------------------------------------
(* RunDetail implements AppendThenAck. *)

(* The refinement mapping's third component: the record whose row is out    *)
(* and whose checkpoint line is due.                                        *)
Due == IF writeMu = NoWorker THEN {} ELSE {IdOf(writeMu)}

(* The open item of the log depends on the mutex and its holder's record. *)
LEMMA DueStable ==
  ASSUME UNCHANGED <<job, writeMu>>
  PROVE  Due' = Due
BY DEF Due, IdOf

(* A step that leaves rows, acknowledgements and the due record alone. *)
LEMMA Stutter ==
  ASSUME UNCHANGED <<out, doneLog>>, Due' = Due
  PROVE  UNCHANGED Log!logVars
BY DEF Log!logVars, Due

(* Every action maps to an action of the log or to a stutter. *)
LEMMA LogStep ==
  ASSUME MaxFaults = 0, PowerLoss = FALSE
  PROVE  TypeOK /\ Consistent /\ RowsFirst /\ [Next]_vars => [Log!LogNext]_(Log!logVars)
<1> SUFFICES ASSUME TypeOK, Consistent, RowsFirst, [Next]_vars
             PROVE  Log!LogNext \/ UNCHANGED Log!logVars
  OBVIOUS
<1> USE DEF Consistent
<1>1. faults = 0
  BY DEF TypeOK
<1>2. \A lost \in BOOLEAN : Happens(lost) => lost = FALSE
  BY <1>1 DEF Happens
<1>3. ASSUME FreshMemory, UNCHANGED disk
      PROVE  Log!LogNext
  BY <1>3 DEF FreshMemory, disk, Log!LogNext, Log!Abandon
<1>4. ASSUME NEW restart \in RestartFlags, Launch(restart)
      PROVE  Log!LogNext
  BY <1>3, <1>4 DEF Launch
<1>5. CASE Interrupt
  BY <1>5, DueStable, Stutter DEF Interrupt, disk, workers
<1>6. CASE MainStep
  <2>1. CASE RemoveDone
    <3>1. doneLog' = <<>> /\ UNCHANGED <<out, writeMu>>
      BY <1>2, <2>1 DEF RemoveDone, workers
    <3>2. writeMu = NoWorker
      BY <2>1 DEF RemoveDone, Quiet, Setup, Mutex, Critical, TypeOK
    <3> QED
      BY <3>1, <3>2 DEF Log!LogNext, Log!ForgetAcks
  <2>2. CASE RemoveOut
    <3>1. doneLog = <<>> /\ out' = <<>> /\ UNCHANGED <<doneLog, writeMu>>
      BY <1>2, <2>2 DEF RemoveOut, RowsFirst, workers
    <3>2. writeMu = NoWorker
      BY <2>2 DEF RemoveOut, Quiet, Setup, Mutex, Critical, TypeOK
    <3> QED
      BY <3>1, <3>2 DEF Log!LogNext, Log!ForgetRows
  <2>3. CASE ~RemoveDone /\ ~RemoveOut
    BY <1>6, <2>3, DueStable, Stutter DEF MainStep, RemoveRaw, RemoveErr, LoadPending,
       OpenOut, WriteHeader, SpawnWorkers, SetupFails, CloseJobs, Finish, disk, workers
  <2> QED
    BY <2>1, <2>2, <2>3
<1>7. ASSUME NEW w \in Workers, Feed(w)
      PROVE  UNCHANGED Log!logVars
  <2>1. writeMu # w
    BY <1>7 DEF Feed, Mutex, Critical
  <2>2. writeMu' = writeMu /\ \A v \in Workers : v # w => job'[v] = job[v]
    BY <1>7 DEF Feed, TypeOK
  <2>3. Due' = Due
    BY <2>1, <2>2 DEF Due, IdOf, TypeOK
  <2> QED
    BY <1>7, <2>3, Stutter DEF Feed, disk
<1>8. ASSUME NEW w \in Workers, WorkerStep(w)
      PROVE  Log!LogNext \/ UNCHANGED Log!logVars
  <2>1. CASE RecordFailure(w)
    <3>1. Due' = Due /\ UNCHANGED <<out, doneLog>>
      BY <2>1 DEF RecordFailure, Due
    <3> QED
      BY <3>1, Stutter
  <2>2. CASE WriteRow(w)
    <3>1. job[w] # 0
      BY <2>2 DEF WriteRow, Goto, Holding
    <3>2. IdOf(w) \in Ids /\ IdOf(w) \notin Acked
      BY <3>1, HeldId DEF Claims
    <3>3. out' = Append(out, IdOf(w)) /\ UNCHANGED <<doneLog, job>>
      BY <1>2, <2>2 DEF WriteRow, RowsFirst
    <3>4. writeMu = NoWorker /\ writeMu' = w /\ w # NoWorker
      BY <2>2, WorkersAssumption DEF WriteRow
    <3>5. Log!Emit(IdOf(w))
      BY <3>2, <3>3, <3>4 DEF Log!Emit, Log!ToSet, ToSet, Acked, IdOf
    <3> QED
      BY <3>2, <3>5 DEF Log!LogNext
  <2>3. CASE MarkDone(w)
    <3>1. IdOf(w) \in Ids
      BY <2>3, HeldId DEF MarkDone, Goto, Holding, Critical
    <3>2. writeMu = w /\ writeMu' = NoWorker /\ w # NoWorker
      BY <2>3, WorkersAssumption DEF MarkDone, Goto, Mutex, Critical
    <3>3. doneLog' = Append(doneLog, IdOf(w)) /\ UNCHANGED out
      BY <1>2, <2>3 DEF MarkDone
    <3>4. Log!Ack(IdOf(w))
      BY <3>2, <3>3 DEF Log!Ack, IdOf
    <3> QED
      BY <3>1, <3>4 DEF Log!LogNext
  <2>4. CASE ~RecordFailure(w) /\ ~WriteRow(w) /\ ~MarkDone(w)
    <3>1. UNCHANGED <<out, doneLog, job, writeMu>>
      BY <1>8, <2>4 DEF WorkerStep, WorkerDrain, CheckCtx, LimiterPass, LimiterCancelled,
         ReplyOk, ReplyClientError, ReplyRetryable, CancelInFlight, BackoffElapsed,
         BackoffCancelled, WriteRaw, WriteNewline, disk, control
    <3> QED
      BY <3>1, DueStable, Stutter
  <2> QED
    BY <2>1, <2>2, <2>3, <2>4
<1>9. CASE Kill
  BY <1>3, <1>9 DEF Kill, ProcessDies
<1>10. CASE PowerFail
  BY <1>10 DEF PowerFail
<1>11. CASE UNCHANGED vars
  BY <1>11, DueStable, Stutter DEF vars, disk, workers
<1> QED
  BY <1>4, <1>5, <1>6, <1>7, <1>8, <1>9, <1>10, <1>11 DEF Next

(* The output and the checkpoint behave as the abstract log: one record at  *)
(* a time is due, what is acknowledged was emitted and is emitted no more,  *)
(* and starting over forgets acknowledgements before rows.                  *)
THEOREM DetailImplementsLog ==
  ASSUME IsInjective(IdsFile), MaxFaults = 0, PowerLoss = FALSE
  PROVE  Spec => ImplementsLog
<1>1. Init => TypeOK /\ Consistent /\ RowsFirst
  <2>1. Init => RowsFirst
    BY EmptyToSet, WorkersAssumption DEF Init, RowsFirst, AckedHaveRows, Acked
  <2>2. Init => Claims
    BY IdleWorkers DEF Init, Claims
  <2> QED
    BY <2>1, <2>2, ExclusiveInit DEF Exclusive, Consistent
<1>2. Init => Log!LogInit
  BY DEF Init, Log!LogInit
<1>3. TypeOK /\ Consistent /\ RowsFirst /\ [Next]_vars
        => (TypeOK /\ Consistent /\ RowsFirst)'
  BY ExclusiveStep, RowsFirstStep, ClaimsStep DEF Exclusive, Consistent
<1>4. TypeOK /\ Consistent /\ RowsFirst /\ [Next]_vars => [Log!LogNext]_(Log!logVars)
  BY LogStep
<1> QED
  BY <1>1, <1>2, <1>3, <1>4, PTL DEF Spec, ImplementsLog, Log!LogSpec
=============================================================================
