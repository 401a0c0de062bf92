--------------------------- MODULE ImportPipeline ---------------------------
(***************************************************************************)
(* The life of an uploaded spreadsheet: the request that stores it, the    *)
(* BullMQ job that carries it, the worker that loads its rows, the         *)
(* callback of a failed attempt, and the requests that retry it.           *)
(*                                                                         *)
(* Every `await` of imports.service.ts and import.worker.ts is one action, *)
(* so that two handlers interleave exactly where the event loop may switch *)
(* between them.  The queue (Redis) and the database survive a crash of    *)
(* the process; program counters do not.                                   *)
(***************************************************************************)
EXTENDS Integers, FiniteSets

CONSTANTS
  Imports,      \* the ids of the imports that may be uploaded
  NoImport,     \* the import of a request that has not arrived
  RetryReqs,    \* the requests POST /imports/:id/retry that may arrive
  MaxRows,      \* bound: the rows of the largest file
  BatchSize,    \* rows between two writes of processedRows
  MaxAttempts,  \* attempts BullMQ gives a job
  MaxStalls,    \* times BullMQ recovers a job whose process died
  Concurrency,  \* jobs the worker runs at a time
  MaxFaults,    \* bound: database or queue calls that fail
  MaxCrashes    \* bound: crashes of the process at an arbitrary point

ASSUME NoImportAssumption == NoImport \notin Imports

ASSUME BoundsAssumption ==
  /\ MaxRows \in Nat
  /\ BatchSize \in Nat \ {0}
  /\ MaxAttempts \in Nat \ {0}
  /\ MaxStalls \in Nat
  /\ Concurrency \in Nat \ {0}
  /\ MaxFaults \in Nat
  /\ MaxCrashes \in Nat

VARIABLES
  kind, rows, named, file,  \* the stored file: what it holds, how many rows,
                          \* which of them have a name, is it on disk?
  status, total, processed, completedAt,  \* the Import row
  saved,                  \* the rows that are in the customer or carrier table
  create,                 \* step of the POST /imports handler
  retry, retryOf,         \* steps of the POST /imports/:id/retry handlers
  job, attempts, stalls,  \* the BullMQ job whose id is the import's id
  step, at, threw,        \* the run of ImportWorker.process for that job
  finding, marking, logging,   \* runs of handleQueueFailure, by their await
  started, completed, failed,  \* IMPORT_* entries of the audit log
  ws,                     \* status of the last import-progress event
  faults, crashes         \* calls that failed, crashes of the process

fileVars == <<kind, rows, named, file>>
rowVars  == <<status, total, processed, completedAt>>
reqVars  == <<create, retry, retryOf>>
jobVars  == <<job, attempts, stalls>>
runVars  == <<step, at, threw>>
failVars == <<finding, marking, logging>>
logVars  == <<started, completed, failed>>
envVars  == <<faults, crashes>>

vars == <<fileVars, rowVars, saved, reqVars, jobVars, runVars, failVars,
          logVars, ws, envVars>>

-----------------------------------------------------------------------------
\* A file of customers or carriers that parses, one that does not, and one
\* of the type the worker refuses.
Kinds == {"TABLE", "MALFORMED", "SIMULATIONS"}

Statuses == {"ABSENT", "PENDING", "PROCESSING", "COMPLETED", "FAILED"}

CreateSteps == {"insert", "audit", "enqueue", "mark"}
RetrySteps  == {"audit", "enqueue", "mark"}
JobStates   == {"none", "wait", "active", "delayed", "failed"}

\* Inside the try block of process; a rejected call there leads to fail().
TrySteps  == {"start", "row", "progress", "complete", "auditCompleted"}
FailSteps == {"markFailed", "auditFailed"}
WorkerSteps ==
  {"find", "parse", "cleanup", "settle"} \union TrySteps \union FailSteps

RowsTypeOK == {named, saved} \subseteq [Imports -> SUBSET (1..MaxRows)]

TypeOK ==
  /\ RowsTypeOK
  /\ kind \in [Imports -> Kinds]
  /\ rows \in [Imports -> 0..MaxRows]
  /\ file \in [Imports -> BOOLEAN]
  /\ status \in [Imports -> Statuses]
  /\ {total, processed, at, attempts, stalls} \subseteq [Imports -> Nat]
  /\ {completedAt, threw} \subseteq [Imports -> BOOLEAN]
  /\ create \in [Imports -> {"none", "ok", "error"} \union CreateSteps]
  /\ retry \in [RetryReqs -> {"none", "done"} \union RetrySteps]
  /\ retryOf \in [RetryReqs -> Imports \union {NoImport}]
  /\ job \in [Imports -> JobStates]
  /\ step \in [Imports -> {"idle"} \union WorkerSteps]
  /\ {finding, marking, logging} \subseteq [Imports -> Nat]
  /\ {started, completed, failed} \subseteq [Imports -> Nat]
  /\ ws \in [Imports -> {"none", "PROCESSING", "COMPLETED", "FAILED"}]
  /\ faults \in 0..MaxFaults
  /\ crashes \in 0..MaxCrashes

-----------------------------------------------------------------------------
Const(v) == [i \in Imports |-> v]

Init ==
  /\ kind \in [Imports -> Kinds]
  /\ rows \in [Imports -> 0..MaxRows]
  /\ \A i \in Imports : kind[i] # "TABLE" => rows[i] = 0
  /\ named \in [Imports -> SUBSET (1..MaxRows)]
  /\ \A i \in Imports : named[i] \subseteq 1..rows[i]
  /\ file = Const(FALSE)
  /\ status = Const("ABSENT")
  /\ total = Const(0) /\ processed = Const(0) /\ completedAt = Const(FALSE)
  /\ saved = Const({})
  /\ create = Const("none")
  /\ retry = [r \in RetryReqs |-> "none"]
  /\ retryOf = [r \in RetryReqs |-> NoImport]
  /\ job = Const("none") /\ attempts = Const(0) /\ stalls = Const(0)
  /\ step = Const("idle") /\ at = Const(0) /\ threw = Const(FALSE)
  /\ finding = Const(0) /\ marking = Const(0) /\ logging = Const(0)
  /\ started = Const(0) /\ completed = Const(0) /\ failed = Const(0)
  /\ ws = Const("none")
  /\ faults = 0 /\ crashes = 0

\* A database or queue call is rejected instead of performed.
Fault ==
  /\ faults < MaxFaults
  /\ faults' = faults + 1
  /\ UNCHANGED crashes

-----------------------------------------------------------------------------
(* POST /imports                                                           *)

beyondRequest ==
  <<kind, rows, named, saved, runVars, failVars, completed, failed, ws>>

\* Seeded defect: the audit log swallows the entry.
LoggedNowhere(f, i) == f

\* One more entry for i in the audit log.
Logged(f, i) == [f EXCEPT ![i] = @ + 1]

\* Multer writes the body to disk before the controller runs.
Upload(i) ==
  /\ create[i] = "none"
  /\ create' = [create EXCEPT ![i] = "insert"]
  /\ file' = [file EXCEPT ![i] = TRUE]
  /\ UNCHANGED <<retry, retryOf, rowVars, jobVars, started, envVars,
                 beyondRequest>>

CreateInsert(i) ==
  /\ create[i] = "insert"
  /\ create' = [create EXCEPT ![i] = "audit"]
  /\ status' = [status EXCEPT ![i] = "PENDING"]
  /\ UNCHANGED <<retry, retryOf, file, total, processed, completedAt, jobVars,
                 started, envVars, beyondRequest>>

CreateAudit(i) ==
  /\ create[i] = "audit"
  /\ create' = [create EXCEPT ![i] = "enqueue"]
  /\ started' = Logged(started, i)
  /\ UNCHANGED <<retry, retryOf, file, rowVars, jobVars, envVars,
                 beyondRequest>>

\* queue.add with jobId = importId: BullMQ ignores it when a job with that
\* id exists in any state, the set of failed jobs included.
AddImportJob(i) ==
  /\ job' = IF job[i] = "none" THEN [job EXCEPT ![i] = "wait"] ELSE job
  /\ UNCHANGED <<attempts, stalls>>

CreateEnqueue(i) ==
  /\ create[i] = "enqueue"
  /\ create' = [create EXCEPT ![i] = "mark"]
  /\ AddImportJob(i)
  /\ UNCHANGED <<retry, retryOf, file, rowVars, started, envVars,
                 beyondRequest>>

\* The handler's last write, which the worker may already have overtaken.
CreateMarkProcessing(i) ==
  /\ create[i] = "mark"
  /\ create' = [create EXCEPT ![i] = "ok"]
  /\ status' = [status EXCEPT ![i] = "PROCESSING"]
  /\ UNCHANGED <<retry, retryOf, file, total, processed, completedAt, jobVars,
                 started, envVars, beyondRequest>>

\* No await of the handler is guarded: a rejected one ends it with a 500.
CreateFails(i) ==
  /\ create[i] \in CreateSteps
  /\ Fault
  /\ create' = [create EXCEPT ![i] = "error"]
  /\ UNCHANGED <<retry, retryOf, file, rowVars, jobVars, started,
                 beyondRequest>>

-----------------------------------------------------------------------------
(* POST /imports/:id/retry                                                 *)

\* Seeded defect: the status of the import is not checked.
RetriableAnyway(i) == status[i] # "ABSENT"

Retriable(i) == status[i] = "FAILED"

RetryRead(r, i) ==
  /\ retry[r] = "none" /\ Retriable(i)
  /\ retry' = [retry EXCEPT ![r] = "audit"]
  /\ retryOf' = [retryOf EXCEPT ![r] = i]
  /\ UNCHANGED <<create, file, rowVars, jobVars, started, envVars,
                 beyondRequest>>

RetryAudit(r, i) ==
  /\ retry[r] = "audit" /\ retryOf[r] = i
  /\ retry' = [retry EXCEPT ![r] = "enqueue"]
  /\ started' = Logged(started, i)
  /\ UNCHANGED <<create, retryOf, file, rowVars, jobVars, envVars,
                 beyondRequest>>

RetryEnqueue(r, i) ==
  /\ retry[r] = "enqueue" /\ retryOf[r] = i
  /\ retry' = [retry EXCEPT ![r] = "mark"]
  /\ AddImportJob(i)
  /\ UNCHANGED <<create, retryOf, file, rowVars, started, envVars,
                 beyondRequest>>

RetryMarkProcessing(r, i) ==
  /\ retry[r] = "mark" /\ retryOf[r] = i
  /\ retry' = [retry EXCEPT ![r] = "done"]
  /\ status' = [status EXCEPT ![i] = "PROCESSING"]
  /\ completedAt' = [completedAt EXCEPT ![i] = FALSE]
  /\ UNCHANGED <<create, retryOf, file, total, processed, jobVars, started,
                 envVars, beyondRequest>>

RetryFails(r) ==
  /\ retry[r] \in RetrySteps
  /\ Fault
  /\ retry' = [retry EXCEPT ![r] = "done"]
  /\ UNCHANGED <<create, retryOf, file, rowVars, jobVars, started,
                 beyondRequest>>

-----------------------------------------------------------------------------
(* The BullMQ worker and ImportWorker.process                              *)

beyondQueue ==
  <<fileVars, rowVars, saved, reqVars, logVars, ws, marking, logging>>

Active == {i \in Imports : job[i] = "active"}

TakeJob(i) ==
  /\ job[i] = "wait"
  /\ Cardinality(Active) < Concurrency
  /\ job' = [job EXCEPT ![i] = "active"]
  /\ step' = [step EXCEPT ![i] = "find"]
  /\ at' = [at EXCEPT ![i] = 0]
  /\ threw' = [threw EXCEPT ![i] = FALSE]
  /\ UNCHANGED <<attempts, stalls, finding, envVars, beyondQueue>>

\* The exponential backoff of a failed attempt has elapsed.
BackoffElapses(i) ==
  /\ job[i] = "delayed"
  /\ job' = [job EXCEPT ![i] = "wait"]
  /\ UNCHANGED <<attempts, stalls, runVars, finding, envVars, beyondQueue>>

beyondRun == <<kind, rows, named, reqVars, jobVars, failVars, started>>

\* The run of i goes on to step s.
Goto(i, s) ==
  /\ step' = [step EXCEPT ![i] = s]
  /\ UNCHANGED <<at, threw>>

\* The row exists whenever its job does, so the early return of a missing
\* row is never taken.  A SIMULATIONS file is refused outside the try.
FindImport(i) ==
  /\ step[i] = "find"
  /\ \/ kind[i] = "SIMULATIONS" /\ Goto(i, "markFailed") /\ UNCHANGED ws
     \/ /\ kind[i] # "SIMULATIONS"
        /\ Goto(i, "parse")
        /\ ws' = [ws EXCEPT ![i] = "PROCESSING"]
  /\ UNCHANGED <<file, rowVars, saved, completed, failed, envVars, beyondRun>>

ParseFile(i) ==
  /\ step[i] = "parse"
  /\ Goto(i, IF file[i] /\ kind[i] = "TABLE" THEN "start" ELSE "markFailed")
  /\ UNCHANGED <<file, rowVars, saved, completed, failed, ws, envVars,
                 beyondRun>>

StartRows(i) ==
  /\ step[i] = "start"
  /\ Goto(i, IF rows[i] = 0 THEN "complete" ELSE "row")
  /\ status' = [status EXCEPT ![i] = "PROCESSING"]
  /\ total' = [total EXCEPT ![i] = rows[i]]
  /\ UNCHANGED <<file, processed, completedAt, saved, completed, failed, ws,
                 envVars, beyondRun>>

\* The row that the inner loop has come to.
RowAt(i) == at[i] + 1

\* What processCustomerRow and processCarrierRow write of row n: a row without
\* a name is skipped.
Written(i, n) == {n} \intersect named[i]

\* Seeded defect: the loop ends at the first row without a name.
StopsAtBlank(i) ==
  LET n == RowAt(i) IN
  /\ step[i] = "row"
  /\ saved' = [saved EXCEPT ![i] = @ \union Written(i, n)]
  /\ at' = [at EXCEPT ![i] = IF n \in named[i] THEN n ELSE rows[i]]
  /\ step' = [step EXCEPT ![i] =
       IF n = rows[i] \/ n % BatchSize = 0 \/ n \notin named[i]
         THEN "progress" ELSE "row"]
  /\ UNCHANGED <<threw, file, rowVars, completed, failed, ws, envVars,
                 beyondRun>>

\* One turn of the inner loop.  A row that is skipped counts like any other;
\* writing a row again changes nothing.
UpsertRow(i) ==
  LET n == RowAt(i) IN
  /\ step[i] = "row"
  /\ saved' = [saved EXCEPT ![i] = @ \union Written(i, n)]
  /\ at' = [at EXCEPT ![i] = n]
  /\ step' = [step EXCEPT ![i] =
       IF n = rows[i] \/ n % BatchSize = 0 THEN "progress" ELSE "row"]
  /\ UNCHANGED <<threw, file, rowVars, completed, failed, ws, envVars,
                 beyondRun>>

RowsLeft(i) == at[i] < rows[i]

\* Seeded defect: the row that comes next is counted as done.
CountedAhead(i) == IF RowsLeft(i) THEN at[i] + 1 ELSE at[i]

\* Math.min(i + BATCH_SIZE, rows.length) at the end of a batch.
Counted(i) == at[i]

SaveProgress(i) ==
  /\ step[i] = "progress"
  /\ processed' = [processed EXCEPT ![i] = Counted(i)]
  /\ ws' = [ws EXCEPT ![i] = "PROCESSING"]
  /\ Goto(i, IF RowsLeft(i) THEN "row" ELSE "complete")
  /\ UNCHANGED <<file, status, total, completedAt, saved, completed, failed,
                 envVars, beyondRun>>

CompleteImport(i) ==
  /\ step[i] = "complete"
  /\ status' = [status EXCEPT ![i] = "COMPLETED"]
  /\ processed' = [processed EXCEPT ![i] = rows[i]]
  /\ completedAt' = [completedAt EXCEPT ![i] = TRUE]
  /\ Goto(i, "auditCompleted")
  /\ UNCHANGED <<file, total, saved, completed, failed, ws, envVars,
                 beyondRun>>

AuditCompleted(i) ==
  /\ step[i] = "auditCompleted"
  /\ completed' = Logged(completed, i)
  /\ ws' = [ws EXCEPT ![i] = "COMPLETED"]
  /\ Goto(i, "cleanup")
  /\ UNCHANGED <<file, rowVars, saved, failed, envVars, beyondRun>>

\* Seeded defect: the catch block forgets fail().
CaughtSilently(i) == "cleanup"

\* The catch block runs fail().
Caught(i) == "markFailed"

\* The database refuses a row: a value its column cannot hold, or a record
\* that was deleted between the two queries of the row.
RowRefused(i) ==
  /\ step[i] = "row" /\ RowAt(i) \in named[i]
  /\ Goto(i, Caught(i))
  /\ UNCHANGED <<file, rowVars, saved, completed, failed, ws, envVars,
                 beyondRun>>

\* Any call of the try block may be rejected, also the audit entry that is
\* written after the row already says COMPLETED; a row that is skipped makes
\* no call.
TryFails(i) ==
  /\ step[i] \in TrySteps
  /\ step[i] = "row" => RowAt(i) \in named[i]
  /\ Fault
  /\ Goto(i, Caught(i))
  /\ UNCHANGED <<file, rowVars, saved, completed, failed, ws, beyondRun>>

\* Seeded defect: only a completed import has its file removed.
AfterFailKeepsFile(i) == "settle"

\* The finally block belongs to the try: a SIMULATIONS file skips it.
AfterFail(i) == IF kind[i] = "SIMULATIONS" THEN "settle" ELSE "cleanup"

MarkFailed(i) ==
  /\ step[i] = "markFailed"
  /\ status' = [status EXCEPT ![i] = "FAILED"]
  /\ completedAt' = [completedAt EXCEPT ![i] = TRUE]
  /\ Goto(i, "auditFailed")
  /\ UNCHANGED <<file, total, processed, saved, completed, failed, ws,
                 envVars, beyondRun>>

AuditFailed(i) ==
  /\ step[i] = "auditFailed"
  /\ failed' = Logged(failed, i)
  /\ ws' = [ws EXCEPT ![i] = "FAILED"]
  /\ Goto(i, AfterFail(i))
  /\ UNCHANGED <<file, rowVars, saved, completed, envVars, beyondRun>>

\* The first query or a call of fail() is rejected: process throws.
ProcessThrows(i) ==
  /\ step[i] \in {"find"} \union FailSteps
  /\ Fault
  /\ threw' = [threw EXCEPT ![i] = TRUE]
  /\ step' = [step EXCEPT ![i] = IF @ = "find" THEN "settle" ELSE AfterFail(i)]
  /\ UNCHANGED <<at, file, rowVars, saved, completed, failed, ws, beyondRun>>

\* The finally block; an error of unlink is swallowed.
CleanupFile(i) ==
  /\ step[i] = "cleanup"
  /\ \/ file' = [file EXCEPT ![i] = FALSE] /\ UNCHANGED envVars
     \/ Fault /\ UNCHANGED file
  /\ Goto(i, "settle")
  /\ UNCHANGED <<rowVars, saved, completed, failed, ws, beyondRun>>

\* process returned: removeOnComplete drops the job.
JobSucceeds(i) ==
  /\ step[i] = "settle" /\ ~threw[i]
  /\ job' = [job EXCEPT ![i] = "none"]
  /\ attempts' = [attempts EXCEPT ![i] = 0]
  /\ stalls' = [stalls EXCEPT ![i] = 0]
  /\ Goto(i, "idle")
  /\ UNCHANGED <<finding, envVars, beyondQueue>>

\* process threw: the attempt is counted, the job waits for its backoff or
\* stays among the failed jobs, and 'failed' fires either way.
JobFails(i) ==
  LET n == attempts[i] + 1 IN
  /\ step[i] = "settle" /\ threw[i]
  /\ attempts' = [attempts EXCEPT ![i] = n]
  /\ job' = [job EXCEPT ![i] = IF n < MaxAttempts THEN "delayed" ELSE "failed"]
  /\ finding' = [finding EXCEPT ![i] = @ + 1]
  /\ Goto(i, "idle")
  /\ UNCHANGED <<stalls, envVars, beyondQueue>>

-----------------------------------------------------------------------------
(* handleQueueFailure, started with `void` by the 'failed' event           *)

beyondCallback ==
  <<fileVars, total, processed, saved, reqVars, jobVars, runVars, started,
    completed, envVars>>

\* An import that is COMPLETED is left alone.
CallbackFind(i) ==
  /\ finding[i] > 0
  /\ finding' = [finding EXCEPT ![i] = @ - 1]
  /\ marking' = [marking EXCEPT
                   ![i] = IF status[i] = "COMPLETED" THEN @ ELSE @ + 1]
  /\ UNCHANGED <<status, completedAt, logging, failed, ws, beyondCallback>>

CallbackMarkFailed(i) ==
  /\ marking[i] > 0
  /\ marking' = [marking EXCEPT ![i] = @ - 1]
  /\ logging' = [logging EXCEPT ![i] = @ + 1]
  /\ status' = [status EXCEPT ![i] = "FAILED"]
  /\ completedAt' = [completedAt EXCEPT ![i] = TRUE]
  /\ UNCHANGED <<finding, failed, ws, beyondCallback>>

\* Seeded defect: the entry is written without waiting for its turn.
CallbackAuditUnawaited(i) ==
  /\ logging' = [logging EXCEPT ![i] = @ - 1]
  /\ failed' = Logged(failed, i)
  /\ ws' = [ws EXCEPT ![i] = "FAILED"]
  /\ UNCHANGED <<status, completedAt, finding, marking, beyondCallback>>

CallbackAudit(i) ==
  /\ logging[i] > 0
  /\ logging' = [logging EXCEPT ![i] = @ - 1]
  /\ failed' = Logged(failed, i)
  /\ ws' = [ws EXCEPT ![i] = "FAILED"]
  /\ UNCHANGED <<status, completedAt, finding, marking, beyondCallback>>

-----------------------------------------------------------------------------
(* The process dies and is restarted                                       *)

GivenUp(i) == job[i] = "active" /\ stalls[i] >= MaxStalls

\* Seeded defect: the lock of a job outlives the process that held it.
StalledKept(i) == job[i]

\* Seeded defect: a job that stalls is dropped from the queue.
StalledDropped(i) == IF job[i] = "active" THEN "none" ELSE job[i]

\* The stalled-job check of the next process puts an active job back in the
\* queue, or fails it when it has stalled too often.
Stalled(i) ==
  IF job[i] # "active" THEN job[i]
  ELSE IF GivenUp(i) THEN "failed" ELSE "wait"

\* Requests in flight and callbacks are lost.
Restart ==
  /\ create' = [i \in Imports |->
       IF create[i] \in CreateSteps THEN "error" ELSE create[i]]
  /\ retry' = [r \in RetryReqs |->
       IF retry[r] \in RetrySteps THEN "done" ELSE retry[r]]
  /\ step' = Const("idle")
  /\ job' = [i \in Imports |-> Stalled(i)]
  /\ stalls' = [i \in Imports |->
       IF job[i] = "active" /\ ~GivenUp(i) THEN stalls[i] + 1 ELSE stalls[i]]
  /\ finding' = [i \in Imports |-> IF GivenUp(i) THEN 1 ELSE 0]
  /\ marking' = Const(0) /\ logging' = Const(0)
  /\ UNCHANGED <<fileVars, rowVars, saved, retryOf, attempts, at, threw,
                 logVars, ws>>

Crash ==
  /\ crashes < MaxCrashes
  /\ crashes' = crashes + 1
  /\ UNCHANGED faults
  /\ Restart

\* Nobody awaits the callback: its rejection is unhandled, which ends a
\* Node process.
CallbackRejects(i) ==
  /\ finding[i] + marking[i] + logging[i] > 0
  /\ Fault
  /\ Restart

-----------------------------------------------------------------------------
Creating(i) ==
  \/ CreateInsert(i) \/ CreateAudit(i) \/ CreateEnqueue(i)
  \/ CreateMarkProcessing(i)

Retrying(r, i) ==
  RetryAudit(r, i) \/ RetryEnqueue(r, i) \/ RetryMarkProcessing(r, i)

Processing(i) ==
  \/ FindImport(i) \/ ParseFile(i) \/ StartRows(i)
  \/ UpsertRow(i) \/ RowRefused(i) \/ SaveProgress(i)
  \/ CompleteImport(i) \/ AuditCompleted(i)
  \/ MarkFailed(i) \/ AuditFailed(i) \/ CleanupFile(i)
  \/ JobSucceeds(i) \/ JobFails(i)

Failing(i) == CallbackFind(i) \/ CallbackMarkFailed(i) \/ CallbackAudit(i)

Faulting(i) ==
  CreateFails(i) \/ TryFails(i) \/ ProcessThrows(i) \/ CallbackRejects(i)

Next ==
  \/ \E i \in Imports :
       \/ Upload(i) \/ Creating(i) \/ TakeJob(i) \/ BackoffElapses(i)
       \/ Processing(i) \/ Failing(i) \/ Faulting(i)
       \/ \E r \in RetryReqs : RetryRead(r, i) \/ Retrying(r, i)
  \/ \E r \in RetryReqs : RetryFails(r)
  \/ Crash

Spec == Init /\ [][Next]_vars

\* The event loop runs every handler that is ready, and BullMQ hands out
\* waiting jobs and promotes delayed ones; users, faults and crashes are
\* under no obligation.
Fairness ==
  /\ \A i \in Imports :
       /\ WF_vars(Creating(i))
       /\ WF_vars(TakeJob(i))
       /\ WF_vars(BackoffElapses(i))
       /\ WF_vars(Processing(i))
       /\ WF_vars(Failing(i))
  /\ \A r \in RetryReqs, i \in Imports : WF_vars(Retrying(r, i))

FairSpec == Spec /\ Fairness

-----------------------------------------------------------------------------
(* Correctness                                                             *)

Undisturbed == faults = 0 /\ crashes = 0

RetriesOf(i) == {r \in RetryReqs : retryOf[r] = i}

\* Nothing is left to run for i.
Quiet(i) ==
  /\ create[i] \notin CreateSteps
  /\ \A r \in RetriesOf(i) : retry[r] \notin RetrySteps
  /\ job[i] \in {"none", "failed"}
  /\ finding[i] = 0 /\ marking[i] = 0 /\ logging[i] = 0

\* The rows of i that have to be in the database when the first n are done.
Due(i, n) == {k \in named[i] : k <= n}

\* The progress of import.worker.ts:92-95 never runs ahead of the database,
\* whatever attempt, crash or rejected call came before: every row it counts
\* has been saved, unless it has no name and is skipped (lines 230 and 271),
\* and none is saved that should have been skipped.
ProgressIsBacked ==
  \A i \in Imports :
    /\ processed[i] <= rows[i]
    /\ Due(i, processed[i]) \subseteq saved[i]
    /\ saved[i] \subseteq named[i]

\* A row that says COMPLETED (import.worker.ts:105-112) is one whose file was
\* a table, all of it counted and every row with a name loaded, and that
\* carries its end date.
CompletedIsWhole ==
  \A i \in Imports : status[i] = "COMPLETED" =>
    /\ kind[i] = "TABLE"
    /\ saved[i] = named[i]
    /\ total[i] = rows[i]
    /\ processed[i] = rows[i]
    /\ completedAt[i]

\* The browser is told of an end (import.worker.ts:124-129, 181, 216) only
\* once the audit log has the entry for it, and of success only once every
\* row with a name is in the database.
EventsAreBacked ==
  \A i \in Imports :
    /\ ws[i] = "COMPLETED" => completed[i] > 0 /\ saved[i] = named[i]
    /\ ws[i] = "FAILED" => failed[i] > 0

\* When no call fails, the job of an upload whose request was answered ends
\* with a verdict that is audited and announced, also if the process dies as
\* often as BullMQ recovers a stalled job.
QuietHasVerdict ==
  \A i \in Imports :
    faults = 0 /\ crashes <= MaxStalls /\ create[i] = "ok" /\ Quiet(i) =>
      /\ completed[i] + failed[i] > 0
      /\ ws[i] \in {"COMPLETED", "FAILED"}

\* Without faults an import is completed at most once, and never both
\* completed and failed: the status check of retry (imports.service.ts:123),
\* the job id and the deletion of the file together see to it, although the
\* late write of create may already have hidden the verdict.
OneVerdict ==
  Undisturbed => \A i \in Imports :
    /\ completed[i] <= 1
    /\ completed[i] = 0 \/ failed[i] = 0

\* The stored file is there for the first run of process and for the run that
\* follows a crash, since cleanup (import.worker.ts:133-135) comes after the
\* verdict is audited; and without faults none stays on disk once nothing is
\* left to run for it, except one of type SIMULATIONS.
FileLifetime ==
  \A i \in Imports :
    /\ faults = 0 /\ step[i] = "parse" /\ completed[i] + failed[i] = 0
       => file[i]
    /\ Undisturbed /\ create[i] = "ok" /\ Quiet(i) /\ kind[i] # "SIMULATIONS"
       => ~file[i]

\* Without faults the late write of create (imports.service.ts:105-108) is
\* the only one that takes an import out of COMPLETED: neither a retry that
\* read FAILED, nor a second run of the job does.
CompletedUndoneOnlyByCreate ==
  [][\A i \in Imports :
       Undisturbed /\ status[i] = "COMPLETED" /\ status'[i] # "COMPLETED"
         => CreateMarkProcessing(i)]_vars

\* Without faults a retried import is never completed: whatever failed, the
\* run that failed removed the file (or refused its type) before the retry
\* could be asked for.
RetriedNeverCompletes ==
  Undisturbed => \A i \in Imports :
    RetriesOf(i) # {} => status[i] # "COMPLETED" /\ completed[i] = 0

-----------------------------------------------------------------------------
(* Liveness, under FairSpec                                                *)

\* A queued job comes to an end, whatever fails on the way: it is done, or
\* its attempts are used up.
QueueDrains ==
  \A i \in Imports :
    job[i] # "none" ~> job[i] \in {"none", "failed"}

\* An import whose job was queued gets its end date, from the worker or from
\* the callback of a failed attempt (import.worker.ts:156-163), however the
\* attempts end, unless it is retried or disturbed so often that the callback
\* of the failed job may be lost too.
QueuedImportsEnd ==
  \A i \in Imports :
    job[i] # "none" ~>
      completedAt[i] \/ RetriesOf(i) # {} \/ faults + crashes > MaxStalls + 1

-----------------------------------------------------------------------------
(* What the documentation says and the code does not do                    *)

\* docs/async-processing.md:107-110: COMPLETED is a final state.
CompletedIsFinal ==
  [][\A i \in Imports : status[i] = "COMPLETED"
                           => status'[i] = "COMPLETED"]_vars

\* imports.service.ts:126: an import that FAILED can be processed again, so
\* a retry that was accepted leaves a job that will run.
AcceptedRetryIsQueued ==
  [][\A i \in Imports, r \in RetryReqs :
       RetryEnqueue(r, i) => job'[i] \in {"wait", "active", "delayed"}]_vars
=============================================================================
