------------------------ MODULE ImportPipelineProofs ------------------------
(***************************************************************************)
(* Theorems about ImportPipeline, for every set of imports and requests    *)
(* and every value of the bounds; and, at the end, about ImportProgress,   *)
(* the page that watches one import.                                       *)
(*                                                                         *)
(* RunInv ties the run of a job to the row it writes; it holds whatever    *)
(* fails.  CleanInv says how far an import can get when nothing fails.     *)
(***************************************************************************)
EXTENDS ImportPipeline, ImportProgress, SequenceTheorems, TLAPS

-----------------------------------------------------------------------------
(* The inductive invariants                                                *)

Early == {"none", "insert", "audit", "enqueue"}

\* Until the handler of the upload queues the job, nobody else knows of the
\* import.
UnseenUntilQueued(i) ==
  create[i] \in Early =>
    /\ status[i] \in {"ABSENT", "PENDING"}
    /\ job[i] = "none"
    /\ finding[i] = 0 /\ marking[i] = 0 /\ logging[i] = 0
    /\ \A r \in RetryReqs : retryOf[r] # i

\* process runs exactly for the active job.
RunsActiveJob(i) == job[i] = "active" <=> step[i] # "idle"

\* All rows that a run is past are in the database, and all that are counted.
RowsCounted(i) ==
  /\ processed[i] <= rows[i] /\ at[i] <= rows[i]
  /\ \A n \in named[i] : n <= processed[i] \/ n <= at[i] => n \in saved[i]
  /\ saved[i] \subseteq named[i] /\ named[i] \subseteq 1..rows[i]
  /\ step[i] \in {"find", "parse", "start"} => at[i] = 0
  /\ step[i] = "row" => at[i] < rows[i]

\* What the run has established by the time it reaches each step.
RunKnows(i) ==
  /\ step[i] \in TrySteps => kind[i] = "TABLE"
  /\ step[i] \in TrySteps \ {"start"} => total[i] = rows[i]
  /\ step[i] \in {"complete", "auditCompleted"} => saved[i] = named[i]
  /\ step[i] \in {"row", "progress", "complete"} => status[i] # "COMPLETED"

WholeIfCompleted(i) ==
  status[i] = "COMPLETED" =>
    /\ kind[i] = "TABLE"
    /\ saved[i] = named[i]
    /\ total[i] = rows[i]
    /\ processed[i] = rows[i]
    /\ completedAt[i]

EventBacked(i) ==
  /\ ws[i] = "COMPLETED" => completed[i] > 0 /\ saved[i] = named[i]
  /\ ws[i] = "FAILED" => failed[i] > 0

RunInvAt(i) ==
  /\ UnseenUntilQueued(i)
  /\ RunsActiveJob(i)
  /\ RowsCounted(i)
  /\ RunKnows(i)
  /\ WholeIfCompleted(i)
  /\ EventBacked(i)

RunInv == \A i \in Imports : RunInvAt(i)

\* As long as no row of a table was refused, its import does not fail and is
\* completed once.
CleanTable(i) ==
  /\ status[i] # "FAILED"
  /\ failed[i] = 0
  /\ completed[i] <= 1
  /\ step[i] \notin FailSteps
  /\ \A r \in RetryReqs : retryOf[r] # i
  /\ create[i] \in Early => completed[i] = 0
  /\ create[i] \in Early \ {"none"} => file[i]
  /\ job[i] # "none" /\ step[i] \notin {"cleanup", "settle"}
       => file[i] /\ completed[i] = 0
  /\ status[i] = "COMPLETED"
       => step[i] = "auditCompleted" \/ completed[i] = 1

\* The run that had a row refused removes the file, so no later one loads it.
Spoiled(i) ==
  /\ status[i] # "COMPLETED"
  /\ completed[i] = 0
  /\ step[i] \notin TrySteps
  /\ step[i] \in FailSteps \union {"cleanup"} \/ ~file[i]
  /\ create[i] \notin Early

\* Any other file is never completed.
CleanRefusal(i) ==
  /\ status[i] # "COMPLETED"
  /\ completed[i] = 0

CleanInvAt(i) ==
  /\ ~threw[i]
  /\ finding[i] = 0 /\ marking[i] = 0 /\ logging[i] = 0
  /\ kind[i] = "TABLE" => CleanTable(i) \/ Spoiled(i)
  /\ kind[i] # "TABLE" => CleanRefusal(i)

CleanInv == Undisturbed => \A i \in Imports : CleanInvAt(i)

-----------------------------------------------------------------------------
(* Type correctness                                                        *)

\* Every variable keeps its type: in particular no counter of callbacks goes
\* below zero, and every handler is at one of its steps.
THEOREM TypeCorrect == Spec => []TypeOK
<1> USE BoundsAssumption
<1>1. Init => TypeOK
  BY DEF Init, TypeOK, RowsTypeOK, Const, Statuses, JobStates
<1>2. TypeOK /\ [Next]_vars => TypeOK'
  <2> SUFFICES ASSUME TypeOK, [Next]_vars
               PROVE  TypeOK'
    OBVIOUS
  <2> USE DEF TypeOK, RowsTypeOK, Statuses, CreateSteps, RetrySteps, JobStates, TrySteps,
          FailSteps, WorkerSteps, fileVars, rowVars, reqVars, jobVars, runVars,
          failVars, logVars, envVars
  <2>1. ASSUME NEW i \in Imports, Upload(i)
       PROVE  TypeOK'
    BY <2>1 DEF Upload, beyondRequest
  <2>2. ASSUME NEW i \in Imports, CreateInsert(i)
       PROVE  TypeOK'
    BY <2>2 DEF CreateInsert, beyondRequest
  <2>3. ASSUME NEW i \in Imports, CreateAudit(i)
       PROVE  TypeOK'
    BY <2>3 DEF CreateAudit, Logged, beyondRequest
  <2>4. ASSUME NEW i \in Imports, CreateEnqueue(i)
       PROVE  TypeOK'
    BY <2>4 DEF CreateEnqueue, AddImportJob, beyondRequest
  <2>5. ASSUME NEW i \in Imports, CreateMarkProcessing(i)
       PROVE  TypeOK'
    BY <2>5 DEF CreateMarkProcessing, beyondRequest
  <2>6. ASSUME NEW i \in Imports, CreateFails(i)
       PROVE  TypeOK'
    BY <2>6 DEF CreateFails, Fault, beyondRequest
  <2>7. ASSUME NEW r \in RetryReqs, NEW i \in Imports, RetryRead(r, i)
       PROVE  TypeOK'
    BY <2>7 DEF RetryRead, Retriable, beyondRequest
  <2>8. ASSUME NEW r \in RetryReqs, NEW i \in Imports, RetryAudit(r, i)
       PROVE  TypeOK'
    BY <2>8 DEF RetryAudit, Logged, beyondRequest
  <2>9. ASSUME NEW r \in RetryReqs, NEW i \in Imports, RetryEnqueue(r, i)
       PROVE  TypeOK'
    BY <2>9 DEF RetryEnqueue, AddImportJob, beyondRequest
  <2>10. ASSUME NEW r \in RetryReqs, NEW i \in Imports, RetryMarkProcessing(r, i)
       PROVE  TypeOK'
    BY <2>10 DEF RetryMarkProcessing, beyondRequest
  <2>11. ASSUME NEW r \in RetryReqs, RetryFails(r)
       PROVE  TypeOK'
    BY <2>11 DEF RetryFails, Fault, beyondRequest
  <2>12. ASSUME NEW i \in Imports, TakeJob(i)
       PROVE  TypeOK'
    BY <2>12 DEF TakeJob, beyondQueue
  <2>13. ASSUME NEW i \in Imports, BackoffElapses(i)
       PROVE  TypeOK'
    BY <2>13 DEF BackoffElapses, beyondQueue
  <2>14. ASSUME NEW i \in Imports, FindImport(i)
       PROVE  TypeOK'
    <3>1. CASE Goto(i, "markFailed") /\ UNCHANGED ws
      BY <2>14, <3>1 DEF FindImport, Goto, beyondRun
    <3>2. CASE Goto(i, "parse") /\ ws' = [ws EXCEPT ![i] = "PROCESSING"]
      BY <2>14, <3>2 DEF FindImport, Goto, beyondRun
    <3>3. QED
      BY <2>14, <3>1, <3>2 DEF FindImport
  <2>15. ASSUME NEW i \in Imports, ParseFile(i)
       PROVE  TypeOK'
    BY <2>15 DEF ParseFile, Goto, beyondRun
  <2>16. ASSUME NEW i \in Imports, StartRows(i)
       PROVE  TypeOK'
    BY <2>16 DEF StartRows, Goto, beyondRun
  <2>17. ASSUME NEW i \in Imports, UpsertRow(i)
       PROVE  TypeOK'
    BY <2>17 DEF UpsertRow, RowAt, Written, beyondRun
  <2>18. ASSUME NEW i \in Imports, RowRefused(i)
       PROVE  TypeOK'
    BY <2>18 DEF RowRefused, Goto, Caught, beyondRun
  <2>19. ASSUME NEW i \in Imports, SaveProgress(i)
       PROVE  TypeOK'
    BY <2>19 DEF SaveProgress, Goto, RowsLeft, Counted, beyondRun
  <2>20. ASSUME NEW i \in Imports, CompleteImport(i)
       PROVE  TypeOK'
    BY <2>20 DEF CompleteImport, Goto, beyondRun
  <2>21. ASSUME NEW i \in Imports, AuditCompleted(i)
       PROVE  TypeOK'
    BY <2>21 DEF AuditCompleted, Goto, Logged, beyondRun
  <2>22. ASSUME NEW i \in Imports, TryFails(i)
       PROVE  TypeOK'
    BY <2>22 DEF TryFails, Fault, Goto, Caught, beyondRun
  <2>23. ASSUME NEW i \in Imports, MarkFailed(i)
       PROVE  TypeOK'
    BY <2>23 DEF MarkFailed, Goto, beyondRun
  <2>24. ASSUME NEW i \in Imports, AuditFailed(i)
       PROVE  TypeOK'
    BY <2>24 DEF AuditFailed, Goto, AfterFail, Logged, beyondRun
  <2>25. ASSUME NEW i \in Imports, ProcessThrows(i)
       PROVE  TypeOK'
    BY <2>25 DEF ProcessThrows, Fault, AfterFail, beyondRun
  <2>26. ASSUME NEW i \in Imports, CleanupFile(i)
       PROVE  TypeOK'
    <3>1. CASE file' = [file EXCEPT ![i] = FALSE] /\ UNCHANGED envVars
      BY <2>26, <3>1 DEF CleanupFile, Goto, beyondRun
    <3>2. CASE Fault /\ UNCHANGED file
      BY <2>26, <3>2 DEF CleanupFile, Goto, Fault, beyondRun
    <3>3. QED
      BY <2>26, <3>1, <3>2 DEF CleanupFile
  <2>27. ASSUME NEW i \in Imports, JobSucceeds(i)
       PROVE  TypeOK'
    BY <2>27 DEF JobSucceeds, Goto, beyondQueue
  <2>28. ASSUME NEW i \in Imports, JobFails(i)
       PROVE  TypeOK'
    BY <2>28 DEF JobFails, Goto, beyondQueue
  <2>29. ASSUME NEW i \in Imports, CallbackFind(i)
       PROVE  TypeOK'
    BY <2>29 DEF CallbackFind, beyondCallback
  <2>30. ASSUME NEW i \in Imports, CallbackMarkFailed(i)
       PROVE  TypeOK'
    BY <2>30 DEF CallbackMarkFailed, beyondCallback
  <2>31. ASSUME NEW i \in Imports, CallbackAudit(i)
       PROVE  TypeOK'
    BY <2>31 DEF CallbackAudit, Logged, beyondCallback
  <2>32. ASSUME NEW i \in Imports, CallbackRejects(i)
       PROVE  TypeOK'
    BY <2>32 DEF CallbackRejects, Fault, Restart, GivenUp, Const, Stalled
  <2>33. ASSUME Crash
       PROVE  TypeOK'
    BY <2>33 DEF Crash, Restart, GivenUp, Const, Stalled
  <2>34. CASE UNCHANGED vars
    BY <2>34 DEF vars
  <2>35. QED
    BY <2>1, <2>2, <2>3, <2>4, <2>5, <2>6, <2>7, <2>8, <2>9, <2>10, <2>11,
       <2>12, <2>13, <2>14, <2>15, <2>16, <2>17, <2>18, <2>19, <2>20, <2>21,
       <2>22, <2>23, <2>24, <2>25, <2>26, <2>27, <2>28, <2>29, <2>30, <2>31,
       <2>32, <2>33, <2>34
    DEF Next, Creating, Retrying, Processing, Failing, Faulting
<1>3. QED
  BY <1>1, <1>2, PTL DEF Spec

-----------------------------------------------------------------------------
(* A run and the row it writes                                             *)

\* The invariant RunInv, one step per action; k is any import, i the one
\* that acts.
THEOREM RunInvariance == Spec => []RunInv
<1> USE BoundsAssumption, NoImportAssumption
<1>1. Init => RunInv
  BY DEF Init, Const, RunInv, RunInvAt, UnseenUntilQueued, RunsActiveJob,
         RowsCounted, RunKnows, WholeIfCompleted, EventBacked, TrySteps
<1>2. TypeOK /\ RunInv /\ [Next]_vars => RunInv'
  <2> SUFFICES ASSUME TypeOK, RunInv, [Next]_vars,
                      NEW k \in Imports
               PROVE  RunInvAt(k)'
    BY DEF RunInv
  <2> USE DEF TypeOK, fileVars, rowVars, reqVars, jobVars, runVars, failVars,
          logVars, envVars, CreateSteps, TrySteps, FailSteps
  <2> USE DEF RunInv, RunInvAt, UnseenUntilQueued, RunsActiveJob, RowsCounted,
          RunKnows, WholeIfCompleted, EventBacked, Early
  <2>1. ASSUME NEW i \in Imports, Upload(i)
       PROVE  RunInvAt(k)'
    BY <2>1 DEF Upload, beyondRequest
  <2>2. ASSUME NEW i \in Imports, CreateInsert(i)
       PROVE  RunInvAt(k)'
    BY <2>2 DEF CreateInsert, beyondRequest
  <2>3. ASSUME NEW i \in Imports, CreateAudit(i)
       PROVE  RunInvAt(k)'
    BY <2>3 DEF CreateAudit, Logged, beyondRequest
  <2>4. ASSUME NEW i \in Imports, CreateEnqueue(i)
       PROVE  RunInvAt(k)'
    BY <2>4 DEF CreateEnqueue, AddImportJob, beyondRequest
  <2>5. ASSUME NEW i \in Imports, CreateMarkProcessing(i)
       PROVE  RunInvAt(k)'
    BY <2>5 DEF CreateMarkProcessing, beyondRequest
  <2>6. ASSUME NEW i \in Imports, CreateFails(i)
       PROVE  RunInvAt(k)'
    BY <2>6 DEF CreateFails, Fault, beyondRequest
  <2>7. ASSUME NEW r \in RetryReqs, NEW i \in Imports, RetryRead(r, i)
       PROVE  RunInvAt(k)'
    BY <2>7 DEF RetryRead, Retriable, beyondRequest
  <2>8. ASSUME NEW r \in RetryReqs, NEW i \in Imports, RetryAudit(r, i)
       PROVE  RunInvAt(k)'
    BY <2>8 DEF RetryAudit, Logged, beyondRequest
  <2>9. ASSUME NEW r \in RetryReqs, NEW i \in Imports, RetryEnqueue(r, i)
       PROVE  RunInvAt(k)'
    BY <2>9 DEF RetryEnqueue, AddImportJob, beyondRequest
  <2>10. ASSUME NEW r \in RetryReqs, NEW i \in Imports, RetryMarkProcessing(r, i)
       PROVE  RunInvAt(k)'
    BY <2>10 DEF RetryMarkProcessing, beyondRequest
  <2>11. ASSUME NEW r \in RetryReqs, RetryFails(r)
       PROVE  RunInvAt(k)'
    BY <2>11 DEF RetryFails, Fault, beyondRequest
  <2>12. ASSUME NEW i \in Imports, TakeJob(i)
       PROVE  RunInvAt(k)'
    BY <2>12 DEF TakeJob, beyondQueue
  <2>13. ASSUME NEW i \in Imports, BackoffElapses(i)
       PROVE  RunInvAt(k)'
    BY <2>13 DEF BackoffElapses, beyondQueue
  <2>14. ASSUME NEW i \in Imports, FindImport(i)
       PROVE  RunInvAt(k)'
    BY <2>14 DEF FindImport, Goto, beyondRun
  <2>15. ASSUME NEW i \in Imports, ParseFile(i)
       PROVE  RunInvAt(k)'
    BY <2>15 DEF ParseFile, Goto, beyondRun
  <2>16. ASSUME NEW i \in Imports, StartRows(i)
       PROVE  RunInvAt(k)'
    <3>1. CASE k = i
      <4>1. rows[i] = 0 => saved[i] = named[i]
        <5>1. named[i] \subseteq 1..rows[i] /\ saved[i] \subseteq named[i]
          OBVIOUS
        <5>2. QED
          BY ONLY <5>1
      <4>2. QED
        BY SMTT(30), <2>16, <3>1, <4>1 DEF StartRows, Goto, beyondRun
    <3>2. CASE k # i
      BY <2>16, <3>2 DEF StartRows, Goto, beyondRun
    <3>3. QED
      BY <3>1, <3>2
  <2>17. ASSUME NEW i \in Imports, UpsertRow(i)
       PROVE  RunInvAt(k)'
    <3>1. CASE k = i
      <4> DEFINE n == at[i] + 1
      <4>1. /\ saved'[i] = saved[i] \union ({n} \intersect named[i])
            /\ at'[i] = n /\ at[i] < rows[i]
            /\ step[i] = "row" /\ step'[i] \in {"progress", "row"}
            /\ n = rows[i] => step'[i] = "progress"
            /\ UNCHANGED <<file, rowVars, completed, failed, ws, beyondRun>>
        BY <2>17 DEF UpsertRow, RowAt, Written, RowsTypeOK
      <4>2. at[i] \in Nat /\ rows[i] \in Nat /\ processed[i] \in Nat
        OBVIOUS
      <4>3. RowsCounted(i)'
        <5>1. /\ processed[i] <= rows[i]
              /\ \A m \in named[i] : m <= processed[i] \/ m <= at[i] => m \in saved[i]
              /\ saved[i] \subseteq named[i] /\ named[i] \subseteq 1..rows[i]
          OBVIOUS
        <5>2. UNCHANGED <<named, rows, processed>>
          BY <4>1 DEF beyondRun
        <5>3. \A m \in named[i] : m \in Nat /\ (m <= n => m <= at[i] \/ m = n)
          BY ONLY <4>2, <5>1
        <5>4. QED
          BY ONLY <4>1, <4>2, <5>1, <5>2, <5>3 DEF RowsCounted
      <4>4. RunKnows(i)' /\ WholeIfCompleted(i)' /\ EventBacked(i)'
        <5>1. /\ saved[i] \subseteq named[i]
              /\ RunKnows(i) /\ WholeIfCompleted(i) /\ EventBacked(i)
          OBVIOUS
        <5>2. QED
          BY ONLY <4>1, <5>1 DEF RunKnows, WholeIfCompleted, EventBacked, beyondRun,
                 TrySteps, rowVars
      <4>5. UnseenUntilQueued(i)' /\ RunsActiveJob(i)'
        BY ONLY <4>1, UnseenUntilQueued(i), RunsActiveJob(i)
        DEF UnseenUntilQueued, RunsActiveJob, beyondRun, Early, rowVars, reqVars, jobVars,
            failVars
      <4>6. QED
        BY ONLY <3>1, <4>3, <4>4, <4>5 DEF RunInvAt
    <3>2. CASE k # i
      BY <2>17, <3>2 DEF UpsertRow, RowAt, Written, beyondRun
    <3>3. QED
      BY <3>1, <3>2
  <2>18. ASSUME NEW i \in Imports, RowRefused(i)
       PROVE  RunInvAt(k)'
    BY <2>18 DEF RowRefused, Goto, Caught, beyondRun
  <2>19. ASSUME NEW i \in Imports, SaveProgress(i)
       PROVE  RunInvAt(k)'
    <3>1. CASE k = i
      <4>1. CASE at[i] < rows[i]
        BY <2>19, <3>1, <4>1 DEF SaveProgress, Goto, RowsLeft, Counted, beyondRun
      <4>2. CASE ~(at[i] < rows[i])
        <5>1. at[i] \in Nat /\ rows[i] \in Nat
          OBVIOUS
        <5>2. /\ at[i] <= rows[i] /\ saved[i] \subseteq named[i]
              /\ named[i] \subseteq 1..rows[i]
              /\ \A n \in named[i] : n <= at[i] => n \in saved[i]
          BY <3>1
        <5>3. saved[i] = named[i] /\ at[i] = rows[i]
          BY ONLY <4>2, <5>1, <5>2
        <5>4. total[i] = rows[i] /\ kind[i] = "TABLE" /\ status[i] # "COMPLETED"
          BY <2>19, <3>1 DEF SaveProgress, beyondRun
        <5>5. QED
          BY <2>19, <3>1, <4>2, <5>3, <5>4 DEF SaveProgress, Goto, RowsLeft, Counted,
                 beyondRun
      <4>3. QED
        BY <4>1, <4>2
    <3>2. CASE k # i
      BY <2>19, <3>2 DEF SaveProgress, Goto, RowsLeft, Counted, beyondRun
    <3>3. QED
      BY <3>1, <3>2
  <2>20. ASSUME NEW i \in Imports, CompleteImport(i)
       PROVE  RunInvAt(k)'
    BY <2>20 DEF CompleteImport, Goto, beyondRun
  <2>21. ASSUME NEW i \in Imports, AuditCompleted(i)
       PROVE  RunInvAt(k)'
    BY <2>21 DEF AuditCompleted, Goto, Logged, beyondRun
  <2>22. ASSUME NEW i \in Imports, TryFails(i)
       PROVE  RunInvAt(k)'
    BY <2>22 DEF TryFails, Fault, Goto, Caught, beyondRun
  <2>23. ASSUME NEW i \in Imports, MarkFailed(i)
       PROVE  RunInvAt(k)'
    BY <2>23 DEF MarkFailed, Goto, beyondRun
  <2>24. ASSUME NEW i \in Imports, AuditFailed(i)
       PROVE  RunInvAt(k)'
    BY <2>24 DEF AuditFailed, Goto, AfterFail, Logged, beyondRun
  <2>25. ASSUME NEW i \in Imports, ProcessThrows(i)
       PROVE  RunInvAt(k)'
    BY <2>25 DEF ProcessThrows, Fault, AfterFail, beyondRun
  <2>26. ASSUME NEW i \in Imports, CleanupFile(i)
       PROVE  RunInvAt(k)'
    <3>1. CASE file' = [file EXCEPT ![i] = FALSE] /\ UNCHANGED envVars
      BY <2>26, <3>1 DEF CleanupFile, Goto, beyondRun
    <3>2. CASE Fault /\ UNCHANGED file
      BY <2>26, <3>2 DEF CleanupFile, Goto, Fault, beyondRun
    <3>3. QED
      BY <2>26, <3>1, <3>2 DEF CleanupFile
  <2>27. ASSUME NEW i \in Imports, JobSucceeds(i)
       PROVE  RunInvAt(k)'
    BY <2>27 DEF JobSucceeds, Goto, beyondQueue
  <2>28. ASSUME NEW i \in Imports, JobFails(i)
       PROVE  RunInvAt(k)'
    BY <2>28 DEF JobFails, Goto, beyondQueue
  <2>29. ASSUME NEW i \in Imports, CallbackFind(i)
       PROVE  RunInvAt(k)'
    BY <2>29 DEF CallbackFind, beyondCallback
  <2>30. ASSUME NEW i \in Imports, CallbackMarkFailed(i)
       PROVE  RunInvAt(k)'
    BY <2>30 DEF CallbackMarkFailed, beyondCallback
  <2>31. ASSUME NEW i \in Imports, CallbackAudit(i)
       PROVE  RunInvAt(k)'
    BY <2>31 DEF CallbackAudit, Logged, beyondCallback
  <2>32. ASSUME NEW i \in Imports, CallbackRejects(i)
       PROVE  RunInvAt(k)'
    BY <2>32 DEF CallbackRejects, Fault, Restart, GivenUp, Const, Stalled
  <2>33. ASSUME Crash
       PROVE  RunInvAt(k)'
    BY <2>33 DEF Crash, Restart, GivenUp, Const, Stalled
  <2>34. CASE UNCHANGED vars
    BY <2>34 DEF vars
  <2>35. QED
    BY <2>1, <2>2, <2>3, <2>4, <2>5, <2>6, <2>7, <2>8, <2>9, <2>10, <2>11,
       <2>12, <2>13, <2>14, <2>15, <2>16, <2>17, <2>18, <2>19, <2>20, <2>21,
       <2>22, <2>23, <2>24, <2>25, <2>26, <2>27, <2>28, <2>29, <2>30, <2>31,
       <2>32, <2>33, <2>34
    DEF Next, Creating, Retrying, Processing, Failing, Faulting
<1>3. QED
  BY <1>1, <1>2, TypeCorrect, PTL DEF Spec

\* import.worker.ts:92-95: the progress that is stored counts no row with a
\* name that is not in the database, for every file and batch size, whatever
\* fails; and the rows without a name (230, 271) leave nothing there.
THEOREM ProgressBacked == Spec => []ProgressIsBacked
<1>1. RunInv => ProgressIsBacked
  BY DEF RunInv, RunInvAt, RowsCounted, ProgressIsBacked, Due
<1>2. QED
  BY <1>1, RunInvariance, PTL

\* import.worker.ts:105-112: COMPLETED means that the whole file was counted
\* and its rows with a name were loaded, those and no others.
THEOREM CompletedWhole == Spec => []CompletedIsWhole
<1>1. RunInv => CompletedIsWhole
  BY DEF RunInv, RunInvAt, WholeIfCompleted, CompletedIsWhole
<1>2. QED
  BY <1>1, RunInvariance, PTL

\* import.worker.ts:114-129: events of an end follow the audit entry, and the
\* event of success finds every row with a name in the database.
THEOREM EventsBacked == Spec => []EventsAreBacked
<1>1. RunInv => EventsAreBacked
  BY DEF RunInv, RunInvAt, EventBacked, EventsAreBacked
<1>2. QED
  BY <1>1, RunInvariance, PTL

-----------------------------------------------------------------------------
(* Behaviours in which nothing fails                                       *)

\* The invariant CleanInv, one step per action.  A step of a fault or of a
\* crash makes its hypothesis false.
THEOREM CleanInvariance == Spec => []CleanInv
<1> USE BoundsAssumption, NoImportAssumption
<1>1. Init => CleanInv
  BY DEF Init, Const, CleanInv, CleanInvAt, CleanTable, Spoiled, CleanRefusal, Early,
         FailSteps
<1>2. TypeOK /\ RunInv /\ CleanInv /\ [Next]_vars => CleanInv'
  <2> SUFFICES ASSUME TypeOK, RunInv, CleanInv, [Next]_vars, Undisturbed',
                      NEW k \in Imports
               PROVE  CleanInvAt(k)'
    BY DEF CleanInv
  <2> USE DEF TypeOK, fileVars, rowVars, reqVars, jobVars, runVars, failVars,
          logVars, envVars, CreateSteps, RetrySteps, TrySteps, FailSteps, Early
  <2> USE DEF RunInv, RunInvAt, UnseenUntilQueued, RunsActiveJob, RunKnows,
          CleanInv, CleanInvAt, CleanTable, Spoiled, CleanRefusal, Undisturbed
  <2>1. ASSUME NEW i \in Imports, Upload(i)
       PROVE  CleanInvAt(k)'
    BY <2>1 DEF Upload, beyondRequest
  <2>2. ASSUME NEW i \in Imports, CreateInsert(i)
       PROVE  CleanInvAt(k)'
    BY <2>2 DEF CreateInsert, beyondRequest
  <2>3. ASSUME NEW i \in Imports, CreateAudit(i)
       PROVE  CleanInvAt(k)'
    BY <2>3 DEF CreateAudit, Logged, beyondRequest
  <2>4. ASSUME NEW i \in Imports, CreateEnqueue(i)
       PROVE  CleanInvAt(k)'
    BY <2>4 DEF CreateEnqueue, AddImportJob, beyondRequest
  <2>5. ASSUME NEW i \in Imports, CreateMarkProcessing(i)
       PROVE  CleanInvAt(k)'
    BY <2>5 DEF CreateMarkProcessing, beyondRequest
  <2>6. ASSUME NEW i \in Imports, CreateFails(i)
       PROVE  CleanInvAt(k)'
    BY <2>6 DEF CreateFails, Fault, beyondRequest
  <2>7. ASSUME NEW r \in RetryReqs, NEW i \in Imports, RetryRead(r, i)
       PROVE  CleanInvAt(k)'
    BY <2>7 DEF RetryRead, Retriable, beyondRequest
  <2>8. ASSUME NEW r \in RetryReqs, NEW i \in Imports, RetryAudit(r, i)
       PROVE  CleanInvAt(k)'
    BY <2>8 DEF RetryAudit, Logged, beyondRequest
  <2>9. ASSUME NEW r \in RetryReqs, NEW i \in Imports, RetryEnqueue(r, i)
       PROVE  CleanInvAt(k)'
    BY <2>9 DEF RetryEnqueue, AddImportJob, beyondRequest
  <2>10. ASSUME NEW r \in RetryReqs, NEW i \in Imports, RetryMarkProcessing(r, i)
       PROVE  CleanInvAt(k)'
    BY <2>10 DEF RetryMarkProcessing, beyondRequest
  <2>11. ASSUME NEW r \in RetryReqs, RetryFails(r)
       PROVE  CleanInvAt(k)'
    BY <2>11 DEF RetryFails, Fault, beyondRequest
  <2>12. ASSUME NEW i \in Imports, TakeJob(i)
       PROVE  CleanInvAt(k)'
    BY <2>12 DEF TakeJob, beyondQueue
  <2>13. ASSUME NEW i \in Imports, BackoffElapses(i)
       PROVE  CleanInvAt(k)'
    BY <2>13 DEF BackoffElapses, beyondQueue
  <2>14. ASSUME NEW i \in Imports, FindImport(i)
       PROVE  CleanInvAt(k)'
    BY <2>14 DEF FindImport, Goto, beyondRun
  <2>15. ASSUME NEW i \in Imports, ParseFile(i)
       PROVE  CleanInvAt(k)'
    BY <2>15 DEF ParseFile, Goto, beyondRun
  <2>16. ASSUME NEW i \in Imports, StartRows(i)
       PROVE  CleanInvAt(k)'
    BY <2>16 DEF StartRows, Goto, beyondRun
  <2>17. ASSUME NEW i \in Imports, UpsertRow(i)
       PROVE  CleanInvAt(k)'
    BY <2>17 DEF UpsertRow, RowAt, Written, beyondRun
  <2>18. ASSUME NEW i \in Imports, RowRefused(i)
       PROVE  CleanInvAt(k)'
    BY <2>18 DEF RowRefused, Goto, Caught, beyondRun
  <2>19. ASSUME NEW i \in Imports, SaveProgress(i)
       PROVE  CleanInvAt(k)'
    BY <2>19 DEF SaveProgress, Goto, RowsLeft, Counted, beyondRun
  <2>20. ASSUME NEW i \in Imports, CompleteImport(i)
       PROVE  CleanInvAt(k)'
    BY <2>20 DEF CompleteImport, Goto, beyondRun
  <2>21. ASSUME NEW i \in Imports, AuditCompleted(i)
       PROVE  CleanInvAt(k)'
    BY SMTT(30), <2>21 DEF AuditCompleted, Goto, Logged, beyondRun
  <2>22. ASSUME NEW i \in Imports, TryFails(i)
       PROVE  CleanInvAt(k)'
    BY <2>22 DEF TryFails, Fault, Goto, Caught, beyondRun
  <2>23. ASSUME NEW i \in Imports, MarkFailed(i)
       PROVE  CleanInvAt(k)'
    BY <2>23 DEF MarkFailed, Goto, beyondRun
  <2>24. ASSUME NEW i \in Imports, AuditFailed(i)
       PROVE  CleanInvAt(k)'
    BY <2>24 DEF AuditFailed, Goto, AfterFail, Logged, beyondRun
  <2>25. ASSUME NEW i \in Imports, ProcessThrows(i)
       PROVE  CleanInvAt(k)'
    BY <2>25 DEF ProcessThrows, Fault, AfterFail, beyondRun
  <2>26. ASSUME NEW i \in Imports, CleanupFile(i)
       PROVE  CleanInvAt(k)'
    <3>1. CASE file' = [file EXCEPT ![i] = FALSE] /\ UNCHANGED envVars
      BY <2>26, <3>1 DEF CleanupFile, Goto, beyondRun
    <3>2. CASE Fault /\ UNCHANGED file
      BY <2>26, <3>2 DEF CleanupFile, Goto, Fault, beyondRun
    <3>3. QED
      BY <2>26, <3>1, <3>2 DEF CleanupFile
  <2>27. ASSUME NEW i \in Imports, JobSucceeds(i)
       PROVE  CleanInvAt(k)'
    BY <2>27 DEF JobSucceeds, Goto, beyondQueue
  <2>28. ASSUME NEW i \in Imports, JobFails(i)
       PROVE  CleanInvAt(k)'
    BY <2>28 DEF JobFails, Goto, beyondQueue
  <2>29. ASSUME NEW i \in Imports, CallbackFind(i)
       PROVE  CleanInvAt(k)'
    BY <2>29 DEF CallbackFind, beyondCallback
  <2>30. ASSUME NEW i \in Imports, CallbackMarkFailed(i)
       PROVE  CleanInvAt(k)'
    BY <2>30 DEF CallbackMarkFailed, beyondCallback
  <2>31. ASSUME NEW i \in Imports, CallbackAudit(i)
       PROVE  CleanInvAt(k)'
    BY <2>31 DEF CallbackAudit, Logged, beyondCallback
  <2>32. ASSUME NEW i \in Imports, CallbackRejects(i)
       PROVE  CleanInvAt(k)'
    BY <2>32 DEF CallbackRejects, Fault, Restart, GivenUp, Const, Stalled
  <2>33. ASSUME Crash
       PROVE  CleanInvAt(k)'
    BY <2>33 DEF Crash, Restart, GivenUp, Const, Stalled
  <2>34. CASE UNCHANGED vars
    BY <2>34 DEF vars
  <2>35. QED
    BY <2>1, <2>2, <2>3, <2>4, <2>5, <2>6, <2>7, <2>8, <2>9, <2>10, <2>11,
       <2>12, <2>13, <2>14, <2>15, <2>16, <2>17, <2>18, <2>19, <2>20, <2>21,
       <2>22, <2>23, <2>24, <2>25, <2>26, <2>27, <2>28, <2>29, <2>30, <2>31,
       <2>32, <2>33, <2>34
    DEF Next, Creating, Retrying, Processing, Failing, Faulting
<1>3. QED
  BY <1>1, <1>2, TypeCorrect, RunInvariance, PTL DEF Spec

\* imports.service.ts:123 and import.processor.ts:71: an undisturbed import
\* has one verdict, in every interleaving of uploads, jobs and retries.
THEOREM SingleVerdict == Spec => []OneVerdict
<1>1. TypeOK /\ CleanInv => OneVerdict
  BY DEF TypeOK, CleanInv, CleanInvAt, CleanTable, Spoiled, CleanRefusal, OneVerdict
<1>2. QED
  BY <1>1, TypeCorrect, CleanInvariance, PTL

\* import.worker.ts:133-135: the file of a run that failed is gone (or its
\* type is refused), so no retry ever completes undisturbed.
THEOREM RetriesNeverComplete == Spec => []RetriedNeverCompletes
<1>1. CleanInv => RetriedNeverCompletes
  BY DEF CleanInv, CleanInvAt, CleanTable, Spoiled, CleanRefusal, RetriedNeverCompletes,
         RetriesOf
<1>2. QED
  BY <1>1, CleanInvariance, PTL

\* imports.service.ts:105-108: undisturbed, nothing but the last write of the
\* upload request takes an import out of COMPLETED.
THEOREM UndoneOnlyByCreate == Spec => CompletedUndoneOnlyByCreate
<1> DEFINE UndoneByCreate(i) ==
      Undisturbed /\ status[i] = "COMPLETED" /\ status'[i] # "COMPLETED"
        => CreateMarkProcessing(i)
<1>1. TypeOK /\ RunInv /\ CleanInv /\ [Next]_vars
        => [\A i \in Imports : UndoneByCreate(i)]_vars
  <2> SUFFICES ASSUME TypeOK, RunInv, CleanInv, [Next]_vars,
                      NEW k \in Imports, Undisturbed,
                      status[k] = "COMPLETED", status'[k] # "COMPLETED"
               PROVE  CreateMarkProcessing(k)
    OBVIOUS
  <2> USE DEF TypeOK, fileVars, rowVars, reqVars, jobVars, runVars, failVars,
          logVars, envVars, CreateSteps, RetrySteps, TrySteps, FailSteps, Early
  <2> USE DEF RunInv, RunInvAt, UnseenUntilQueued, RunsActiveJob, RunKnows,
          CleanInv, CleanInvAt, CleanTable, Spoiled, CleanRefusal, Undisturbed
  <2>1. ASSUME NEW i \in Imports, Upload(i)
       PROVE  CreateMarkProcessing(k)
    BY <2>1 DEF Upload, beyondRequest
  <2>2. ASSUME NEW i \in Imports, CreateInsert(i)
       PROVE  CreateMarkProcessing(k)
    BY <2>2 DEF CreateInsert, beyondRequest
  <2>3. ASSUME NEW i \in Imports, CreateAudit(i)
       PROVE  CreateMarkProcessing(k)
    BY <2>3 DEF CreateAudit, Logged, beyondRequest
  <2>4. ASSUME NEW i \in Imports, CreateEnqueue(i)
       PROVE  CreateMarkProcessing(k)
    BY <2>4 DEF CreateEnqueue, AddImportJob, beyondRequest
  <2>5. ASSUME NEW i \in Imports, CreateMarkProcessing(i)
       PROVE  CreateMarkProcessing(k)
    <3>1. k = i
      BY <2>5 DEF CreateMarkProcessing
    <3>2. QED
      BY ONLY <2>5, <3>1
  <2>6. ASSUME NEW i \in Imports, CreateFails(i)
       PROVE  CreateMarkProcessing(k)
    BY <2>6 DEF CreateFails, Fault, beyondRequest
  <2>7. ASSUME NEW r \in RetryReqs, NEW i \in Imports, RetryRead(r, i)
       PROVE  CreateMarkProcessing(k)
    BY <2>7 DEF RetryRead, Retriable, beyondRequest
  <2>8. ASSUME NEW r \in RetryReqs, NEW i \in Imports, RetryAudit(r, i)
       PROVE  CreateMarkProcessing(k)
    BY <2>8 DEF RetryAudit, Logged, beyondRequest
  <2>9. ASSUME NEW r \in RetryReqs, NEW i \in Imports, RetryEnqueue(r, i)
       PROVE  CreateMarkProcessing(k)
    BY <2>9 DEF RetryEnqueue, AddImportJob, beyondRequest
  <2>10. ASSUME NEW r \in RetryReqs, NEW i \in Imports, RetryMarkProcessing(r, i)
       PROVE  CreateMarkProcessing(k)
    BY <2>10 DEF RetryMarkProcessing, beyondRequest
  <2>11. ASSUME NEW r \in RetryReqs, RetryFails(r)
       PROVE  CreateMarkProcessing(k)
    BY <2>11 DEF RetryFails, Fault, beyondRequest
  <2>12. ASSUME NEW i \in Imports, TakeJob(i)
       PROVE  CreateMarkProcessing(k)
    BY <2>12 DEF TakeJob, beyondQueue
  <2>13. ASSUME NEW i \in Imports, BackoffElapses(i)
       PROVE  CreateMarkProcessing(k)
    BY <2>13 DEF BackoffElapses, beyondQueue
  <2>14. ASSUME NEW i \in Imports, FindImport(i)
       PROVE  CreateMarkProcessing(k)
    BY <2>14 DEF FindImport, Goto, beyondRun
  <2>15. ASSUME NEW i \in Imports, ParseFile(i)
       PROVE  CreateMarkProcessing(k)
    BY <2>15 DEF ParseFile, Goto, beyondRun
  <2>16. ASSUME NEW i \in Imports, StartRows(i)
       PROVE  CreateMarkProcessing(k)
    BY <2>16 DEF StartRows, Goto, beyondRun
  <2>17. ASSUME NEW i \in Imports, UpsertRow(i)
       PROVE  CreateMarkProcessing(k)
    BY <2>17 DEF UpsertRow, RowAt, Written, beyondRun
  <2>18. ASSUME NEW i \in Imports, RowRefused(i)
       PROVE  CreateMarkProcessing(k)
    BY <2>18 DEF RowRefused, Goto, Caught, beyondRun
  <2>19. ASSUME NEW i \in Imports, SaveProgress(i)
       PROVE  CreateMarkProcessing(k)
    BY <2>19 DEF SaveProgress, Goto, RowsLeft, Counted, beyondRun
  <2>20. ASSUME NEW i \in Imports, CompleteImport(i)
       PROVE  CreateMarkProcessing(k)
    BY <2>20 DEF CompleteImport, Goto, beyondRun
  <2>21. ASSUME NEW i \in Imports, AuditCompleted(i)
       PROVE  CreateMarkProcessing(k)
    BY <2>21 DEF AuditCompleted, Goto, Logged, beyondRun
  <2>22. ASSUME NEW i \in Imports, TryFails(i)
       PROVE  CreateMarkProcessing(k)
    BY <2>22 DEF TryFails, Fault, Goto, Caught, beyondRun
  <2>23. ASSUME NEW i \in Imports, MarkFailed(i)
       PROVE  CreateMarkProcessing(k)
    BY <2>23 DEF MarkFailed, Goto, beyondRun
  <2>24. ASSUME NEW i \in Imports, AuditFailed(i)
       PROVE  CreateMarkProcessing(k)
    BY <2>24 DEF AuditFailed, Goto, AfterFail, Logged, beyondRun
  <2>25. ASSUME NEW i \in Imports, ProcessThrows(i)
       PROVE  CreateMarkProcessing(k)
    BY <2>25 DEF ProcessThrows, Fault, AfterFail, beyondRun
  <2>26. ASSUME NEW i \in Imports, CleanupFile(i)
       PROVE  CreateMarkProcessing(k)
    BY <2>26 DEF CleanupFile, Fault, Goto, beyondRun
  <2>27. ASSUME NEW i \in Imports, JobSucceeds(i)
       PROVE  CreateMarkProcessing(k)
    BY <2>27 DEF JobSucceeds, Goto, beyondQueue
  <2>28. ASSUME NEW i \in Imports, JobFails(i)
       PROVE  CreateMarkProcessing(k)
    BY <2>28 DEF JobFails, Goto, beyondQueue
  <2>29. ASSUME NEW i \in Imports, CallbackFind(i)
       PROVE  CreateMarkProcessing(k)
    BY <2>29 DEF CallbackFind, beyondCallback
  <2>30. ASSUME NEW i \in Imports, CallbackMarkFailed(i)
       PROVE  CreateMarkProcessing(k)
    BY <2>30 DEF CallbackMarkFailed, beyondCallback
  <2>31. ASSUME NEW i \in Imports, CallbackAudit(i)
       PROVE  CreateMarkProcessing(k)
    BY <2>31 DEF CallbackAudit, Logged, beyondCallback
  <2>32. ASSUME NEW i \in Imports, CallbackRejects(i)
       PROVE  CreateMarkProcessing(k)
    BY <2>32 DEF CallbackRejects, Fault, Restart, GivenUp, Const, Stalled
  <2>33. ASSUME Crash
       PROVE  CreateMarkProcessing(k)
    BY <2>33 DEF Crash, Restart, GivenUp, Const, Stalled
  <2>34. CASE UNCHANGED vars
    BY <2>34 DEF vars
  <2>35. QED
    BY <2>1, <2>2, <2>3, <2>4, <2>5, <2>6, <2>7, <2>8, <2>9, <2>10, <2>11,
       <2>12, <2>13, <2>14, <2>15, <2>16, <2>17, <2>18, <2>19, <2>20, <2>21,
       <2>22, <2>23, <2>24, <2>25, <2>26, <2>27, <2>28, <2>29, <2>30, <2>31,
       <2>32, <2>33, <2>34
    DEF Next, Creating, Retrying, Processing, Failing, Faulting
<1>2. QED
  BY <1>1, TypeCorrect, RunInvariance, CleanInvariance, PTL
     DEF Spec, CompletedUndoneOnlyByCreate

-----------------------------------------------------------------------------
(* Behaviours in which no call fails, although the process may die         *)

\* The end of the import is in the audit log, and the last event says it.
HasVerdict(i) ==
  /\ completed[i] + failed[i] > 0
  /\ ws[i] \in {"COMPLETED", "FAILED"}

\* A run that nobody disturbs throws no error, so only a crash interrupts a
\* job, and BullMQ gives it up only when it has crashed too often.  The file
\* outlives every run that has not audited its verdict, and a run that ends
\* has audited one.
FaultFreeAt(i) ==
  /\ ~threw[i]
  /\ job[i] # "delayed"
  /\ stalls[i] <= crashes
  /\ crashes <= MaxStalls =>
       /\ job[i] # "failed"
       /\ finding[i] = 0 /\ marking[i] = 0 /\ logging[i] = 0
  /\ step[i] \in {"cleanup", "settle"} => HasVerdict(i)
  /\ create[i] \in {"mark", "ok"} /\ job[i] = "none" => HasVerdict(i)
  /\ create[i] # "none" /\ completed[i] + failed[i] = 0 => file[i]
  /\ crashes = 0 /\ kind[i] # "SIMULATIONS" =>
       /\ step[i] = "settle" => ~file[i]
       /\ create[i] \in {"mark", "ok"} /\ job[i] = "none" => ~file[i]

FaultFreeInv == faults = 0 => \A i \in Imports : FaultFreeAt(i)

\* The invariant FaultFreeInv, one step per action.  A step of a fault makes
\* its hypothesis false; a crash does not.
THEOREM FaultFreeInvariance == Spec => []FaultFreeInv
<1> USE BoundsAssumption, NoImportAssumption
<1>1. Init => FaultFreeInv
  BY DEF Init, Const, FaultFreeInv, FaultFreeAt
<1>2. TypeOK /\ RunInv /\ FaultFreeInv /\ [Next]_vars => FaultFreeInv'
  <2> SUFFICES ASSUME TypeOK, RunInv, FaultFreeInv, [Next]_vars, faults' = 0,
                      NEW k \in Imports
               PROVE  FaultFreeAt(k)'
    BY DEF FaultFreeInv
  <2> USE DEF TypeOK, fileVars, rowVars, reqVars, jobVars, runVars, failVars,
          logVars, envVars, CreateSteps, TrySteps, FailSteps, Early
  <2> USE DEF RunInv, RunInvAt, UnseenUntilQueued, RunsActiveJob, FaultFreeInv,
          FaultFreeAt, HasVerdict
  <2>1. ASSUME NEW i \in Imports, Upload(i)
       PROVE  FaultFreeAt(k)'
    BY <2>1 DEF Upload, beyondRequest
  <2>2. ASSUME NEW i \in Imports, CreateInsert(i)
       PROVE  FaultFreeAt(k)'
    BY <2>2 DEF CreateInsert, beyondRequest
  <2>3. ASSUME NEW i \in Imports, CreateAudit(i)
       PROVE  FaultFreeAt(k)'
    BY <2>3 DEF CreateAudit, Logged, beyondRequest
  <2>4. ASSUME NEW i \in Imports, CreateEnqueue(i)
       PROVE  FaultFreeAt(k)'
    BY <2>4 DEF CreateEnqueue, AddImportJob, beyondRequest
  <2>5. ASSUME NEW i \in Imports, CreateMarkProcessing(i)
       PROVE  FaultFreeAt(k)'
    BY <2>5 DEF CreateMarkProcessing, beyondRequest
  <2>6. ASSUME NEW i \in Imports, CreateFails(i)
       PROVE  FaultFreeAt(k)'
    BY <2>6 DEF CreateFails, Fault, beyondRequest
  <2>7. ASSUME NEW r \in RetryReqs, NEW i \in Imports, RetryRead(r, i)
       PROVE  FaultFreeAt(k)'
    BY <2>7 DEF RetryRead, Retriable, beyondRequest
  <2>8. ASSUME NEW r \in RetryReqs, NEW i \in Imports, RetryAudit(r, i)
       PROVE  FaultFreeAt(k)'
    BY <2>8 DEF RetryAudit, Logged, beyondRequest
  <2>9. ASSUME NEW r \in RetryReqs, NEW i \in Imports, RetryEnqueue(r, i)
       PROVE  FaultFreeAt(k)'
    BY <2>9 DEF RetryEnqueue, AddImportJob, beyondRequest
  <2>10. ASSUME NEW r \in RetryReqs, NEW i \in Imports, RetryMarkProcessing(r, i)
       PROVE  FaultFreeAt(k)'
    BY <2>10 DEF RetryMarkProcessing, beyondRequest
  <2>11. ASSUME NEW r \in RetryReqs, RetryFails(r)
       PROVE  FaultFreeAt(k)'
    BY <2>11 DEF RetryFails, Fault, beyondRequest
  <2>12. ASSUME NEW i \in Imports, TakeJob(i)
       PROVE  FaultFreeAt(k)'
    BY <2>12 DEF TakeJob, beyondQueue
  <2>13. ASSUME NEW i \in Imports, BackoffElapses(i)
       PROVE  FaultFreeAt(k)'
    BY <2>13 DEF BackoffElapses, beyondQueue
  <2>14. ASSUME NEW i \in Imports, FindImport(i)
       PROVE  FaultFreeAt(k)'
    BY <2>14 DEF FindImport, Goto, beyondRun
  <2>15. ASSUME NEW i \in Imports, ParseFile(i)
       PROVE  FaultFreeAt(k)'
    BY <2>15 DEF ParseFile, Goto, beyondRun
  <2>16. ASSUME NEW i \in Imports, StartRows(i)
       PROVE  FaultFreeAt(k)'
    BY <2>16 DEF StartRows, Goto, beyondRun
  <2>17. ASSUME NEW i \in Imports, UpsertRow(i)
       PROVE  FaultFreeAt(k)'
    BY <2>17 DEF UpsertRow, RowAt, Written, beyondRun
  <2>18. ASSUME NEW i \in Imports, RowRefused(i)
       PROVE  FaultFreeAt(k)'
    BY <2>18 DEF RowRefused, Goto, Caught, beyondRun
  <2>19. ASSUME NEW i \in Imports, SaveProgress(i)
       PROVE  FaultFreeAt(k)'
    BY <2>19 DEF SaveProgress, Goto, RowsLeft, Counted, beyondRun
  <2>20. ASSUME NEW i \in Imports, CompleteImport(i)
       PROVE  FaultFreeAt(k)'
    BY <2>20 DEF CompleteImport, Goto, beyondRun
  <2>21. ASSUME NEW i \in Imports, AuditCompleted(i)
       PROVE  FaultFreeAt(k)'
    BY <2>21 DEF AuditCompleted, Goto, Logged, beyondRun
  <2>22. ASSUME NEW i \in Imports, TryFails(i)
       PROVE  FaultFreeAt(k)'
    BY <2>22 DEF TryFails, Fault, Goto, Caught, beyondRun
  <2>23. ASSUME NEW i \in Imports, MarkFailed(i)
       PROVE  FaultFreeAt(k)'
    BY <2>23 DEF MarkFailed, Goto, beyondRun
  <2>24. ASSUME NEW i \in Imports, AuditFailed(i)
       PROVE  FaultFreeAt(k)'
    BY <2>24 DEF AuditFailed, Goto, AfterFail, Logged, beyondRun
  <2>25. ASSUME NEW i \in Imports, ProcessThrows(i)
       PROVE  FaultFreeAt(k)'
    BY <2>25 DEF ProcessThrows, Fault, AfterFail, beyondRun
  <2>26. ASSUME NEW i \in Imports, CleanupFile(i)
       PROVE  FaultFreeAt(k)'
    <3>1. CASE file' = [file EXCEPT ![i] = FALSE] /\ UNCHANGED envVars
      BY <2>26, <3>1 DEF CleanupFile, Goto, beyondRun
    <3>2. CASE Fault /\ UNCHANGED file
      BY <2>26, <3>2 DEF CleanupFile, Goto, Fault, beyondRun
    <3>3. QED
      BY <2>26, <3>1, <3>2 DEF CleanupFile
  <2>27. ASSUME NEW i \in Imports, JobSucceeds(i)
       PROVE  FaultFreeAt(k)'
    BY <2>27 DEF JobSucceeds, Goto, beyondQueue
  <2>28. ASSUME NEW i \in Imports, JobFails(i)
       PROVE  FaultFreeAt(k)'
    BY <2>28 DEF JobFails, Goto, beyondQueue
  <2>29. ASSUME NEW i \in Imports, CallbackFind(i)
       PROVE  FaultFreeAt(k)'
    BY <2>29 DEF CallbackFind, beyondCallback
  <2>30. ASSUME NEW i \in Imports, CallbackMarkFailed(i)
       PROVE  FaultFreeAt(k)'
    BY <2>30 DEF CallbackMarkFailed, beyondCallback
  <2>31. ASSUME NEW i \in Imports, CallbackAudit(i)
       PROVE  FaultFreeAt(k)'
    BY <2>31 DEF CallbackAudit, Logged, beyondCallback
  <2>32. ASSUME NEW i \in Imports, CallbackRejects(i)
       PROVE  FaultFreeAt(k)'
    BY <2>32 DEF CallbackRejects, Fault, Restart, GivenUp, Const, Stalled
  <2>33. ASSUME Crash
       PROVE  FaultFreeAt(k)'
    BY <2>33 DEF Crash, Restart, GivenUp, Const, Stalled
  <2>34. CASE UNCHANGED vars
    BY <2>34 DEF vars
  <2>35. QED
    BY <2>1, <2>2, <2>3, <2>4, <2>5, <2>6, <2>7, <2>8, <2>9, <2>10, <2>11,
       <2>12, <2>13, <2>14, <2>15, <2>16, <2>17, <2>18, <2>19, <2>20, <2>21,
       <2>22, <2>23, <2>24, <2>25, <2>26, <2>27, <2>28, <2>29, <2>30, <2>31,
       <2>32, <2>33, <2>34
    DEF Next, Creating, Retrying, Processing, Failing, Faulting
<1>3. QED
  BY <1>1, <1>2, TypeCorrect, RunInvariance, PTL DEF Spec

\* import.worker.ts:60-136 and 190-224, queue.module.ts:20-22: when no call fails,
\* an upload that was answered never ends without a verdict that
\* is audited and announced, however often the process dies up to the stalls
\* that BullMQ forgives.
THEOREM QuietVerdict == Spec => []QuietHasVerdict
<1>1. FaultFreeInv => QuietHasVerdict
  BY DEF FaultFreeInv, FaultFreeAt, HasVerdict, QuietHasVerdict, Quiet
<1>2. QED
  BY <1>1, FaultFreeInvariance, PTL

\* import.worker.ts:133-135: a run finds its file as long as no verdict is
\* audited, crashes included, and undisturbed no file stays on disk, unless its
\* type was refused.
THEOREM FileOutlivesRuns == Spec => []FileLifetime
<1>1. TypeOK /\ RunInv /\ FaultFreeInv => FileLifetime
  <2> SUFFICES ASSUME TypeOK, RunInv, FaultFreeInv, NEW i \in Imports, faults = 0
               PROVE  /\ step[i] = "parse" /\ completed[i] + failed[i] = 0 => file[i]
                      /\ crashes = 0 /\ create[i] = "ok" /\ Quiet(i)
                           /\ kind[i] # "SIMULATIONS" => ~file[i]
    BY DEF FileLifetime, Undisturbed
  <2>1. FaultFreeAt(i) /\ RunInvAt(i)
    BY DEF FaultFreeInv, RunInv
  <2>2. step[i] = "parse" => create[i] # "none"
    BY <2>1 DEF RunInvAt, RunsActiveJob, UnseenUntilQueued, Early
  <2>3. crashes = 0 => job[i] # "failed"
    BY <2>1, BoundsAssumption DEF FaultFreeAt
  <2>4. QED
    BY <2>1, <2>2, <2>3 DEF FaultFreeAt, Quiet
<1>2. QED
  BY <1>1, TypeCorrect, RunInvariance, FaultFreeInvariance, PTL

-----------------------------------------------------------------------------
(* ImportProgress: type correctness of the page that watches an import     *)

\* A request for the list that is made takes an idle one.
LEMMA AskLoadTyped ==
  ASSUME ProgressTypeOK, AskLoad
  PROVE  load' \in [Loads -> {"idle", "asked"} \union RowStatuses]
<1>1. PICK l \in Loads : load' = [load EXCEPT ![l] = "asked"]
  BY DEF AskLoad
<1>2. QED
  BY <1>1 DEF ProgressTypeOK

LEMMA EmitTyped ==
  ASSUME ProgressTypeOK, NEW event \in RowStatuses, Emit(event)
  PROVE  wire' \in Seq(RowStatuses)
<1>1. Append(wire, event) \in Seq(RowStatuses)
  BY AppendProperties DEF ProgressTypeOK
<1>2. QED
  BY <1>1 DEF Emit, ProgressTypeOK

\* Every variable of the page (page.tsx:45-52), of its sockets and of the
\* writers of the status keeps its type.
THEOREM ProgressTypeCorrect == ProgressSpec => []ProgressTypeOK
<1> USE ProgressAssumption
<1>1. ProgressInit => ProgressTypeOK
  <2>1. << >> \in Seq(RowStatuses)
    BY EmptySeq
  <2>2. QED
    BY <2>1 DEF ProgressInit, ProgressTypeOK, RowStatuses, Unfinished, Verdicts
<1>2. ProgressTypeOK /\ [ProgressNext]_progressVars => ProgressTypeOK'
  <2> SUFFICES ASSUME ProgressTypeOK, [ProgressNext]_progressVars PROVE ProgressTypeOK'
    OBVIOUS
  <2> USE DEF worker, page
  <2>0. /\ << >> \in Seq(RowStatuses)
        /\ "PROCESSING" \in RowStatuses /\ Verdicts \subseteq RowStatuses
        /\ "none" \notin RowStatuses
    BY EmptySeq DEF RowStatuses, Unfinished, Verdicts
  <2>1. CASE Start
    BY <2>0, <2>1 DEF Start, ProgressTypeOK
  <2>2. CASE EmitProgress
    BY <2>0, <2>2, EmitTyped DEF EmitProgress, ProgressTypeOK
  <2>3. CASE Conclude
    BY <2>0, <2>3 DEF Conclude, ProgressTypeOK
  <2>16. CASE MarkProcessing
    <3>1. load' \in [Loads -> {"idle", "asked"} \union RowStatuses]
      BY <2>16, AskLoadTyped DEF MarkProcessing, ProgressTypeOK
    <3>2. QED
      BY <2>0, <2>16, <3>1 DEF MarkProcessing, ProgressTypeOK
  <2>17. CASE CallbackReads \/ CallbackMark
    BY <2>17 DEF CallbackReads, CallbackMark, ProgressTypeOK, RowStatuses,
                 Verdicts
  <2>18. CASE CallbackEmit
    <3>1. "FAILED" \in RowStatuses
      BY DEF RowStatuses, Verdicts
    <3>2. QED
      BY <2>18, <3>1, EmitTyped DEF CallbackEmit, ProgressTypeOK
  <2>4. CASE Announce
    <3>1. wire' \in Seq(RowStatuses)
      BY <2>0, <2>4, EmitTyped DEF Announce
    <3>2. QED
      BY <2>4, <3>1 DEF Announce, ProgressTypeOK
  <2>5. CASE BreakOff
    BY <2>5 DEF BreakOff, ProgressTypeOK
  <2>6. ASSUME NEW l \in Loads, ReadList(l) PROVE ProgressTypeOK'
    BY <2>6 DEF ReadList, ProgressTypeOK
  <2>7. ASSUME NEW l \in Loads, Loaded(l) PROVE ProgressTypeOK'
    BY <2>0, <2>7 DEF Loaded, ProgressTypeOK
  <2>8. ASSUME NEW l \in Loads, LoadFails(l) PROVE ProgressTypeOK'
    BY <2>8 DEF LoadFails, ProgressTypeOK
  <2>9. CASE Poll \/ Refresh
    <3>1. load' \in [Loads -> {"idle", "asked"} \union RowStatuses]
      BY <2>9, AskLoadTyped DEF Poll, Refresh
    <3>2. QED
      BY <2>9, <3>1 DEF Poll, Refresh, ProgressTypeOK
  <2>10. CASE Retry
    BY <2>10 DEF Retry, ProgressTypeOK
  <2>11. CASE Join
    BY <2>11 DEF Join, ProgressTypeOK
  <2>12. CASE NotAdmitted \/ Disconnect
    BY <2>0, <2>12 DEF NotAdmitted, Disconnect, ProgressTypeOK
  <2>13. CASE Receive
    <3>1. Head(wire) \in RowStatuses /\ Tail(wire) \in Seq(RowStatuses)
      BY <2>13, HeadTailProperties DEF Receive, ProgressTypeOK
    <3>2. load' \in [Loads -> {"idle", "asked"} \union RowStatuses]
      BY <2>13, AskLoadTyped DEF Receive, ProgressTypeOK
    <3>3. QED
      BY <2>13, <3>1, <3>2 DEF Receive, ProgressTypeOK
  <2>14. CASE UNCHANGED progressVars
    BY <2>14 DEF progressVars, ProgressTypeOK
  <2>15. QED
    BY <2>1, <2>2, <2>3, <2>4, <2>5, <2>6, <2>7, <2>8, <2>9, <2>10, <2>11, <2>12,
       <2>13, <2>14, <2>16, <2>17, <2>18 DEF ProgressNext
<1>3. QED
  BY <1>1, <1>2, PTL DEF ProgressSpec

-----------------------------------------------------------------------------
(* The page is never ahead of the database                                 *)

\* A verdict that has been written; what is no verdict is as good.
Known(event) == event \in Verdicts => event \in had

\* Wherever a status is on its way to the page, it is known.
AllKnown ==
  /\ Known(row) /\ Known(stage) /\ Known(items) /\ Known(live)
  /\ callback = "emit" => "FAILED" \in had
  /\ \A l \in Loads : Known(load[l])
  /\ \A n \in 1..Len(wire) : Known(wire[n])

LEMMA AskLoadKnown ==
  ASSUME ProgressTypeOK, AllKnown, AskLoad, had' = had
  PROVE  \A l \in Loads : Known(load[l])'
<1>0. PICK k \in Loads : load' = [load EXCEPT ![k] = "asked"]
  BY DEF AskLoad
<1>1. \A l \in Loads : load'[l] = load[l] \/ load'[l] = "asked"
  BY <1>0 DEF ProgressTypeOK
<1>2. "asked" \notin Verdicts
  BY DEF Verdicts
<1>3. QED
  BY <1>1, <1>2 DEF AllKnown, Known

LEMMA EmitKnown ==
  ASSUME ProgressTypeOK, AllKnown, NEW event \in RowStatuses, Emit(event),
         Known(event), had' = had
  PROVE  \A n \in 1..Len(wire') : Known(wire[n])'
<1>1. CASE wire' = wire
  BY <1>1 DEF AllKnown, Known
<1>2. CASE wire' = Append(wire, event)
  <2>1. /\ Len(wire') = Len(wire) + 1 /\ Len(wire) \in Nat
        /\ wire'[Len(wire) + 1] = event
        /\ \A n \in 1..Len(wire) : wire'[n] = wire[n]
    BY <1>2, AppendProperties, LenProperties DEF ProgressTypeOK
  <2>2. QED
    BY <2>1 DEF AllKnown, Known
<1>3. QED
  BY <1>1, <1>2 DEF Emit

LEMMA KnownInvariant == ProgressTypeOK /\ AllKnown /\ [ProgressNext]_progressVars => AllKnown'
<1> SUFFICES ASSUME ProgressTypeOK, AllKnown, [ProgressNext]_progressVars PROVE AllKnown'
  OBVIOUS
<1> USE DEF worker, page
<1>0. /\ "PROCESSING" \in RowStatuses
      /\ "PROCESSING" \notin Verdicts /\ "asked" \notin Verdicts
      /\ {"idle", "queued", "running", "done"} \intersect Verdicts = {}
      /\ Len(<< >>) = 0
  BY DEF RowStatuses, Unfinished, Verdicts
<1>1. CASE Start
  BY <1>0, <1>1 DEF Start, AllKnown, Known
<1>2. CASE EmitProgress
  <2>1. \A n \in 1..Len(wire') : Known(wire[n])'
    BY <1>0, <1>2, EmitKnown DEF EmitProgress, Known
  <2>2. QED
    BY <1>2, <2>1 DEF EmitProgress, AllKnown, Known
<1>3. CASE Conclude
  BY <1>3 DEF Conclude, AllKnown, Known
<1>4. CASE Announce
  <2>1. \A n \in 1..Len(wire') : Known(wire[n])'
    BY <1>4, EmitKnown DEF Announce, AllKnown, RowStatuses
  <2>2. QED
    BY <1>0, <1>4, <2>1 DEF Announce, AllKnown, Known
<1>5. CASE BreakOff \/ CallbackReads \/ Join
  BY <1>0, <1>5 DEF BreakOff, CallbackReads, Join, AllKnown, Known
<1>15. CASE CallbackMark
  BY <1>15 DEF CallbackMark, AllKnown, Known
<1>16. CASE CallbackEmit
  <2>1. \A n \in 1..Len(wire') : Known(wire[n])'
    BY <1>16, EmitKnown
    DEF CallbackEmit, AllKnown, Known, RowStatuses, Verdicts
  <2>2. QED
    BY <1>16, <2>1 DEF CallbackEmit, AllKnown, Known
<1>17. CASE MarkProcessing
  <2>1. \A l \in Loads : Known(load[l])'
    BY <1>17, AskLoadKnown DEF MarkProcessing, AllKnown, Known
  <2>2. QED
    BY <1>0, <1>17, <2>1 DEF MarkProcessing, AllKnown, Known
<1>6. ASSUME NEW l \in Loads, ReadList(l) PROVE AllKnown'
  BY <1>6 DEF ReadList, AllKnown, Known, ProgressTypeOK
<1>7. ASSUME NEW l \in Loads, Loaded(l) PROVE AllKnown'
  BY <1>0, <1>7 DEF Loaded, AllKnown, Known, ProgressTypeOK
<1>8. ASSUME NEW l \in Loads, LoadFails(l) PROVE AllKnown'
  BY <1>0, <1>8 DEF LoadFails, AllKnown, Known, ProgressTypeOK
<1>9. CASE Poll \/ Refresh
  <2>1. \A l \in Loads : Known(load[l])'
    BY <1>9, AskLoadKnown DEF Poll, Refresh
  <2>2. QED
    BY <1>9, <2>1 DEF Poll, Refresh, AllKnown, Known
<1>10. CASE Retry
  BY <1>0, <1>10 DEF Retry, AllKnown, Known
<1>11. CASE NotAdmitted \/ Disconnect
  BY <1>0, <1>11 DEF NotAdmitted, Disconnect, AllKnown, Known
<1>12. CASE Receive
  <2>1. /\ Head(wire) = wire[1] /\ Len(wire) \in Nat \ {0}
        /\ Len(wire') = Len(wire) - 1
        /\ \A n \in 1..(Len(wire) - 1) : wire'[n] = wire[n + 1]
    BY <1>12, HeadTailProperties, LenProperties, EmptySeq DEF Receive, ProgressTypeOK
  <2>2. Known(Head(wire)) /\ had' = had
    BY <1>12, <2>1 DEF Receive, AllKnown
  <2>3. \A n \in 1..Len(wire') : Known(wire[n])'
    <3> SUFFICES ASSUME NEW n \in 1..Len(wire') PROVE Known(wire[n])'
      OBVIOUS
    <3>1. n + 1 \in 1..Len(wire) /\ wire'[n] = wire[n + 1]
      BY <2>1
    <3>2. QED
      BY <2>2, <3>1 DEF AllKnown, Known
  <2>4. \A l \in Loads : Known(load[l])'
    <3>1. CASE load' = load
      BY <2>2, <3>1 DEF AllKnown, Known
    <3>2. CASE AskLoad
      BY <2>2, <3>2, AskLoadKnown
    <3>3. QED
      BY <1>12, <3>1, <3>2 DEF Receive
  <2>5. QED
    BY <1>12, <2>2, <2>3, <2>4 DEF Receive, AllKnown, Known
<1>13. CASE UNCHANGED progressVars
  BY <1>13 DEF progressVars, AllKnown, Known
<1>14. QED
  BY <1>1, <1>2, <1>3, <1>4, <1>5, <1>6, <1>7, <1>8, <1>9, <1>10, <1>11, <1>12, <1>13,
     <1>15, <1>16, <1>17 DEF ProgressNext

\* What the page shows as the verdict of an import has been its verdict in the
\* database, however many loads and subscriptions overlap and whatever of them
\* fails or comes late (import.worker.ts 105-129, page.tsx 129).
THEOREM PageIsNeverAhead == ProgressSpec => []NeverAhead
<1>1. ProgressInit => AllKnown
  BY DEF ProgressInit, AllKnown, Known, Verdicts
<1>2. AllKnown => NeverAhead
  BY DEF AllKnown, Known, NeverAhead, Shown
<1>3. QED
  BY <1>1, <1>2, KnownInvariant, ProgressTypeCorrect, PTL DEF ProgressSpec
=============================================================================
