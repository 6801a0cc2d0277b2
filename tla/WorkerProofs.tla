--------------------------- MODULE WorkerProofs ---------------------------
(***************************************************************************)
(* Proofs about ContaminationWorker for any number of jobs, workers,       *)
(* corpora, retries and failures, and about SubmissionPipeline, which      *)
(* extends it with the handlers that publish the jobs: put together, the   *)
(* two still behave as their own modules say, so what is proved of the     *)
(* worker alone holds of the pipeline.                                     *)
(***************************************************************************)
EXTENDS SubmissionPipeline, TLAPS

\* A busy worker runs a job; what its session has read has left "pending",
\* and the column never goes back there, so a run that need not write the
\* column has not found it "pending".
RunsNameJobs ==
  \A w \in Worker :
    /\ pc[w] # "idle" => job[w] \in Job
    /\ seen[w] # "pending" => pc[w] # "idle" /\ contamination[job[w]] # "pending"

WorkerInv == TypeOK /\ RunsNameJobs

USE ConstantsAssumption
USE DEF data, run, tables, Goto, Stop, Fault, Enqueue, Column

\* The verdict is one of the three classes.
LEMMA WorstIsVerdict == \A f : Worst(f) \in Verdict
  BY DEF Worst, Verdict

\* The result backend's row of one job changes, if at all.
LEMMA StoreTypes ==
  ASSUME result \in [Job -> Result], NEW j \in Job, NEW s \in Result, Store(j, s)
  PROVE  result' \in [Job -> Result]
  BY DEF Store

\* A message of one job and retry count more, or one less where there is one.
LEMMA QueueTypes ==
  ASSUME queue \in [Job -> [0..MaxRetries -> Nat]],
         NEW j \in Job, NEW n \in 0..MaxRetries, NEW k \in Nat,
         queue' = [queue EXCEPT ![j][n] = k]
  PROVE  queue' \in [Job -> [0..MaxRetries -> Nat]]
<1>1. [queue[j] EXCEPT ![n] = k] \in [0..MaxRetries -> Nat]
  OBVIOUS
<1>2. QED
  BY <1>1

LEMMA EnqueueTypes ==
  ASSUME queue \in [Job -> [0..MaxRetries -> Nat]],
         NEW j \in Job, NEW n \in 0..MaxRetries, Enqueue(j, n)
  PROVE  queue' \in [Job -> [0..MaxRetries -> Nat]]
<1>1. queue[j][n] + 1 \in Nat
  OBVIOUS
<1>2. QED
  BY <1>1, QueueTypes

\* A retried run leaves a message and a report behind.
LEMMA RetryTypes ==
  ASSUME TypeOK, NEW w \in Worker, job[w] \in Job, Retry(w)
  PROVE  /\ queue' \in [Job -> [0..MaxRetries -> Nat]]
         /\ result' \in [Job -> Result]
<1>1. retries[w] \in 0..MaxRetries
  BY DEF TypeOK
<1>2. CASE retries[w] < MaxRetries
  <2>1. retries[w] + 1 \in 0..MaxRetries
    BY <1>1, <1>2
  <2>2. Store(job[w], "RETRY") /\ Enqueue(job[w], retries[w] + 1)
    BY <1>1, <1>2 DEF Retry
  <2>3. queue' \in [Job -> [0..MaxRetries -> Nat]]
    BY <2>1, <2>2, EnqueueTypes DEF TypeOK
  <2>4. QED
    BY <2>2, <2>3, StoreTypes DEF TypeOK, Result
<1>3. CASE retries[w] = MaxRetries
  BY <1>3, StoreTypes DEF Retry, FailUnmarked, TypeOK, Result
<1>4. QED
  BY <1>1, <1>2, <1>3 DEF Retry

\* What befalls a job is remembered, and nothing is forgotten.
LEMMA BefallsGrows ==
  ASSUME TypeOK, NEW j \in Job, NEW what \in Fate, Befalls(j, what)
  PROVE  /\ fate' \in [Job -> SUBSET Fate]
         /\ fate'[j] = fate[j] \cup {what}
         /\ \A i \in Job \ {j} : fate'[i] = fate[i]
  BY DEF TypeOK, Befalls

LEMMA RetryFate ==
  ASSUME TypeOK, NEW w \in Worker, job[w] \in Job, Retry(w)
  PROVE  fate' \in [Job -> SUBSET Fate]
  BY BefallsGrows DEF TypeOK, Retry, FailUnmarked, Fate

\* A mark, also one that fails, leaves the column alone or sets it to "error".
LEMMA MarkWrites ==
  ASSUME TypeOK, NEW w \in Worker, job[w] \in Job
  PROVE  \A column \in MarkAttempts(w) \cup {Marked(w)} :
           \/ column = contamination
           \/ column = [contamination EXCEPT ![job[w]] = "error"]
  BY DEF TypeOK, MarkAttempts, Marked

\* The broker's queue after a message has come back.
LEMMA RequeueTypes ==
  ASSUME TypeOK, NEW w \in Worker, job[w] \in Job, Requeue(w)
  PROVE  queue' \in [Job -> [0..MaxRetries -> Nat]]
<1>1. retries[w] \in 0..MaxRetries
  BY DEF TypeOK
<1>2. QED
  BY <1>1, EnqueueTypes DEF TypeOK, Requeue

\* A run that ends frees its worker and leaves the tables alone, or marks
\* its version; the invariant of the other workers is not touched.
LEMMA StopKeeps ==
  ASSUME WorkerInv, NEW w \in Worker, Stop(w), UNCHANGED <<data, published, reports>>,
         \/ UNCHANGED contamination
         \/ job[w] \in Job /\ contamination' = [contamination EXCEPT ![job[w]] = "error"],
         queue' \in [Job -> [0..MaxRetries -> Nat]],
         result' \in [Job -> Result],
         fate' \in [Job -> SUBSET Fate],
         budget' \in 0..MaxFaults
  PROVE  WorkerInv'
<1>0. contamination' \in [Job -> Column]
  BY DEF WorkerInv, TypeOK
<1>1. TypeOK'
  BY <1>0 DEF WorkerInv, TypeOK
<1>2. \A j \in Job : contamination[j] # "pending" => contamination'[j] # "pending"
  BY DEF WorkerInv, TypeOK
<1>3. \A v \in Worker \ {w} : pc'[v] = pc[v] /\ job'[v] = job[v] /\ seen'[v] = seen[v]
  BY DEF WorkerInv, TypeOK
<1>4. pc'[w] = "idle" /\ seen'[w] = "pending"
  BY DEF WorkerInv, TypeOK
<1>5. QED
  BY <1>1, <1>2, <1>3, <1>4 DEF WorkerInv, RunsNameJobs

LEMMA WorkerInit == Init => WorkerInv
<1> SUFFICES ASSUME Init PROVE WorkerInv
  OBVIOUS
<1>1. \A j \in Job : DOMAIN found[j] \subseteq Corpus /\ \A c \in DOMAIN found[j] : found[j][c] \in Verdict
  <2> TAKE j \in Job
  <2>1. PICK C \in SUBSET Corpus : found[j] \in [C -> Verdict]
    BY DEF Init, Findings
  <2>2. QED
    BY <2>1
<1>2. QED
  BY <1>1 DEF Init, WorkerInv, TypeOK, RunsNameJobs, Result

LEMMA FaultTypes ==
  ASSUME budget \in 0..MaxFaults, NEW kind, Fault(kind)
  PROVE  budget' \in 0..MaxFaults
  OBVIOUS

LEMMA WorkerStep == WorkerInv /\ [Next]_vars => WorkerInv'
<1> SUFFICES ASSUME WorkerInv, [Next]_vars PROVE WorkerInv'
  OBVIOUS
<1> USE DEF WorkerInv
<1>1. CASE UNCHANGED vars
  BY <1>1 DEF vars, TypeOK, RunsNameJobs
<1>2. ASSUME NEW j \in Job, Publish(j) PROVE WorkerInv'
  BY <1>2 DEF Publish, TypeOK, RunsNameJobs
<1>3. ASSUME NEW w \in Worker, NEW j \in Job, NEW n \in 0..MaxRetries, Deliver(w, j, n)
      PROVE  WorkerInv'
  <2>1. result' \in [Job -> Result]
    BY <1>3, StoreTypes DEF Deliver, TypeOK, Result
  <2>2. queue' \in [Job -> [0..MaxRetries -> Nat]]
    <3>1. queue[j][n] - 1 \in Nat
      BY <1>3 DEF Deliver, TypeOK
    <3>2. QED
      BY <1>3, <3>1, QueueTypes DEF Deliver, TypeOK
  <2>3. TypeOK'
    BY <1>3, <2>1, <2>2 DEF Deliver, TypeOK
  <2>4. RunsNameJobs'
    BY <1>3 DEF Deliver, TypeOK, RunsNameJobs
  <2>5. QED
    BY <2>3, <2>4
<1>4. ASSUME NEW w \in Worker, LoadInputs(w) PROVE WorkerInv'
  BY <1>4 DEF LoadInputs, TypeOK, RunsNameJobs
<1>5. ASSUME NEW w \in Worker, CommitReports(w) PROVE WorkerInv'
  <2>1. job[w] \in Job /\ Worst(found[job[w]]) \in Verdict
    BY <1>5, WorstIsVerdict DEF CommitReports, RunsNameJobs
  <2>2. reports' \in [Job -> [Corpus -> Nat]]
    BY <1>5, <2>1 DEF CommitReports, TypeOK, Upserted
  <2>3. contamination' \in [Job -> Column]
    BY <1>5, <2>1 DEF CommitReports, TypeOK
  <2>4. \A j \in Job : contamination[j] # "pending" => contamination'[j] # "pending"
    BY <1>5, <2>1 DEF CommitReports, TypeOK, Verdict
  <2>5. TypeOK'
    BY <1>5, <2>2, <2>3 DEF CommitReports, TypeOK
  <2>6. RunsNameJobs'
    BY <1>5, <2>4 DEF CommitReports, TypeOK, RunsNameJobs
  <2>7. QED
    BY <2>5, <2>6
<1>6. ASSUME NEW w \in Worker, FailOnArtifact(w) \/ FailPermanently(w) \/ SoftTimeout(w)
      PROVE  WorkerInv'
  <2>1. /\ pc[w] # "idle" /\ pc' = [pc EXCEPT ![w] = "mark"] /\ budget' \in 0..MaxFaults
        /\ UNCHANGED <<data, published, queue, job, retries, acks, seen, tables, result, fate>>
    BY <1>6 DEF FailOnArtifact, FailPermanently, SoftTimeout, TypeOK
  <2>2. QED
    BY <2>1 DEF TypeOK, RunsNameJobs
<1>7. ASSUME NEW w \in Worker, LoadMark(w) PROVE WorkerInv'
  BY <1>7 DEF LoadMark, TypeOK, RunsNameJobs
<1>8. ASSUME NEW w \in Worker,
             \/ Return(w) \/ MarkError(w) \/ HardTimeout(w) \/ TransientError(w)
             \/ MarkFails(w) \/ RetryRefused(w) \/ WorkerLost(w)
      PROVE  WorkerInv'
  <2>1. job[w] \in Job /\ Stop(w) /\ UNCHANGED <<data, published, reports>>
    BY <1>8 DEF Return, MarkError, HardTimeout, TransientError, MarkFails, RetryRefused,
       WorkerLost, RunsNameJobs
  <2>2. budget' \in 0..MaxFaults
    BY <1>8 DEF Return, MarkError, HardTimeout, TransientError, MarkFails, RetryRefused,
       WorkerLost, TypeOK
  <2>3. \/ UNCHANGED contamination
        \/ contamination' = [contamination EXCEPT ![job[w]] = "error"]
    BY <1>8, <2>1, MarkWrites DEF Return, MarkError, HardTimeout, TransientError, MarkFails,
       RetryRefused, WorkerLost
  <2>4. result' \in [Job -> Result]
    BY <1>8, <2>1, StoreTypes, RetryTypes DEF Return, MarkError, HardTimeout, TransientError,
       MarkFails, FailUnmarked, RetryRefused, WorkerLost, TypeOK, Result
  <2>5. queue' \in [Job -> [0..MaxRetries -> Nat]]
    BY <1>8, <2>1, RetryTypes, RequeueTypes DEF Return, MarkError, HardTimeout, TransientError,
       MarkFails, RetryRefused, WorkerLost, TypeOK
  <2>6. fate' \in [Job -> SUBSET Fate]
    BY <1>8, <2>1, RetryFate, BefallsGrows DEF Return, MarkError, HardTimeout, TransientError,
       MarkFails, FailUnmarked, RetryRefused, WorkerLost, TypeOK, Fate
  <2>7. QED
    BY <2>1, <2>2, <2>3, <2>4, <2>5, <2>6, StopKeeps
<1>9. ASSUME NEW w \in Worker, ConnectionLost(w) PROVE WorkerInv'
  <2>1. job[w] \in Job
    BY <1>9 DEF ConnectionLost, RunsNameJobs
  <2>2. queue' \in [Job -> [0..MaxRetries -> Nat]] /\ budget' \in 0..MaxFaults
    <3>1. Requeue(w) /\ Fault("duplicate")
      BY <1>9 DEF ConnectionLost
    <3>2. QED
      BY <2>1, <3>1, RequeueTypes, FaultTypes DEF TypeOK
  <2>3. fate' \in [Job -> SUBSET Fate]
    BY <1>9, <2>1, BefallsGrows DEF ConnectionLost, Fate
  <2>4. QED
    BY <1>9, <2>2, <2>3 DEF ConnectionLost, TypeOK, RunsNameJobs
<1>10. QED
  BY <1>1, <1>2, <1>3, <1>4, <1>5, <1>6, <1>7, <1>8, <1>9
     DEF Next, DeliverAny, Proceed, Misfortune

LEMMA Typing == Spec => []WorkerInv
  BY WorkerInit, WorkerStep, PTL DEF Spec

\* contamination_tasks.py: the state of the worker's runs, its queue and its
\* tables stays what the declarations say, whatever goes wrong.
THEOREM TypeCorrect == Spec => []TypeOK
<1>1. WorkerInv => TypeOK
  BY DEF WorkerInv
<1>2. QED
  BY <1>1, Typing, PTL
-----------------------------------------------------------------------------
\* contamination_engine.py:168: the upsert leaves one row where there was one
\* or none, and touches only the corpora of the job.
THEOREM ReportsStaySingle == Spec => []OneReportPerCorpus
<1>1. Init => OneReportPerCorpus
  BY DEF Init, OneReportPerCorpus
<1>2. WorkerInv /\ OneReportPerCorpus /\ [Next]_vars => OneReportPerCorpus'
  <2> SUFFICES ASSUME WorkerInv, OneReportPerCorpus, [Next]_vars PROVE OneReportPerCorpus'
    OBVIOUS
  <2>1. ASSUME NEW w \in Worker, CommitReports(w) PROVE OneReportPerCorpus'
    <3>1. \A j \in Job, c \in Corpus :
            reports'[j][c] = reports[j][c] \/ (c \in DOMAIN found[j] /\ reports'[j][c] = 1)
      BY <2>1 DEF CommitReports, WorkerInv, TypeOK, Upserted
    <3>2. QED
      BY <2>1, <3>1 DEF CommitReports, OneReportPerCorpus
  <2>2. CASE UNCHANGED <<data, reports>>
    BY <2>2 DEF OneReportPerCorpus
  <2>3. QED
    BY <2>1, <2>2 DEF Next, vars, Publish, DeliverAny, Deliver, Proceed, Misfortune, LoadInputs,
       Return, FailOnArtifact, LoadMark, MarkError, FailPermanently, SoftTimeout,
       TransientError, MarkFails, RetryRefused, HardTimeout, WorkerLost, ConnectionLost
<1>3. QED
  BY <1>1, <1>2, Typing, PTL DEF Spec

\* contamination_engine.py:287: reports and verdict are one commit.  What the
\* session has read need not be what the column holds by now, so the commit may
\* leave the column as another run wrote it; that run found the same verdict,
\* or marked the version as failed.
THEOREM VerdictsHaveReports == Spec => []VerdictHasReports
<1>1. Init => VerdictHasReports
  <2> SUFFICES ASSUME Init PROVE VerdictHasReports
    OBVIOUS
  <2>1. \A j \in Job : contamination[j] = "pending" /\ \A c \in Corpus : reports[j][c] = 0
    BY DEF Init
  <2>2. QED
    BY <2>1 DEF VerdictHasReports, Verdict
<1>2. WorkerInv /\ VerdictHasReports /\ [Next]_vars => VerdictHasReports'
  <2> SUFFICES ASSUME WorkerInv, VerdictHasReports, [Next]_vars PROVE VerdictHasReports'
    OBVIOUS
  <2>1. ASSUME NEW w \in Worker, CommitReports(w) PROVE VerdictHasReports'
    <3> DEFINE j == job[w]
               verdict == Worst(found[j])
    <3>1. j \in Job /\ verdict \in Verdict /\ UNCHANGED found
      BY <2>1, WorstIsVerdict DEF CommitReports, WorkerInv, RunsNameJobs
    <3>2. \A c \in DOMAIN found[j] : reports'[j][c] = 1
      BY <2>1, <3>1 DEF CommitReports, WorkerInv, TypeOK, Upserted
    <3>3. contamination'[j] # "pending"
      BY <2>1, <3>1 DEF CommitReports, WorkerInv, RunsNameJobs, TypeOK, Verdict
    <3>4. contamination'[j] \in Verdict => contamination'[j] = verdict
      BY <2>1, <3>1 DEF CommitReports, WorkerInv, TypeOK, VerdictHasReports
    <3>5. \A i \in Job \ {j} : contamination'[i] = contamination[i] /\ reports'[i] = reports[i]
      BY <2>1, <3>1 DEF CommitReports, WorkerInv, TypeOK
    <3>6. QED
      BY <3>1, <3>2, <3>3, <3>4, <3>5 DEF VerdictHasReports
  <2>2. ASSUME NEW w \in Worker, MarkError(w) \/ MarkFails(w) \/ RetryRefused(w)
        PROVE  VerdictHasReports'
    <3>1. job[w] \in Job /\ UNCHANGED <<data, reports>>
      BY <2>2 DEF MarkError, MarkFails, RetryRefused, WorkerInv, RunsNameJobs
    <3>2. \/ UNCHANGED contamination
          \/ contamination' = [contamination EXCEPT ![job[w]] = "error"]
      BY <2>2, <3>1, MarkWrites DEF MarkError, MarkFails, RetryRefused, WorkerInv
    <3>3. "error" \notin Verdict /\ contamination \in [Job -> Column]
      BY DEF Verdict, WorkerInv, TypeOK
    <3>4. QED
      BY <3>1, <3>2, <3>3 DEF VerdictHasReports
  <2>3. CASE UNCHANGED <<data, tables>>
    BY <2>3 DEF VerdictHasReports
  <2>4. QED
    BY <2>1, <2>2, <2>3 DEF Next, vars, Publish, DeliverAny, Deliver, Proceed, Misfortune,
       LoadInputs, Return, FailOnArtifact, LoadMark, FailPermanently, SoftTimeout,
       TransientError, HardTimeout, WorkerLost, ConnectionLost
<1>3. QED
  BY <1>1, <1>2, Typing, PTL DEF Spec
-----------------------------------------------------------------------------
\* Storing a state the backend accepts is a report; one it refuses changes nothing.
LEMMA StoreReports ==
  ASSUME WorkerInv, NEW j \in Job, NEW s \in Result \ {"PENDING"}, Store(j, s)
  PROVE  [TaskResults!Next]_result
<1>1. CASE result[j] = "SUCCESS"
  BY <1>1 DEF Store, WorkerInv, TypeOK
<1>2. CASE result[j] # "SUCCESS"
  <2>1. s \in TaskResults!Result \ {"PENDING"} /\ result' = [result EXCEPT ![j] = s]
    BY <1>2 DEF Store, Result, TaskResults!Result
  <2>2. TaskResults!Report(j)
    BY <1>2, <2>1 DEF TaskResults!Report
  <2>3. QED
    BY <2>2 DEF TaskResults!Next
<1>3. QED
  BY <1>1, <1>2

\* contamination.py:123: at most one job is reported on in a step, a job that has
\* been reported on is never PENDING again, and a stored SUCCESS is final.  A
\* FAILURE is not: a later run of the same job may report over it.
THEOREM ReportsRefineTaskResult == Spec => ReportsLikeTaskResult
<1>1. Init => TaskResults!Init
  BY DEF Init, TaskResults!Init
<1>2. WorkerInv /\ [Next]_vars => [TaskResults!Next]_result
  <2> SUFFICES ASSUME WorkerInv, [Next]_vars PROVE [TaskResults!Next]_result
    OBVIOUS
  <2> USE DEF Result
  <2>1. ASSUME NEW w \in Worker, NEW j \in Job, NEW n \in 0..MaxRetries, Deliver(w, j, n)
        PROVE  [TaskResults!Next]_result
    BY <2>1, StoreReports DEF Deliver
  <2>2. ASSUME NEW w \in Worker,
               Return(w) \/ MarkError(w) \/ HardTimeout(w) \/ TransientError(w) \/ MarkFails(w)
        PROVE  [TaskResults!Next]_result
    <3>1. job[w] \in Job
      BY <2>2 DEF WorkerInv, RunsNameJobs, Return, MarkError, HardTimeout, TransientError,
         MarkFails
    <3>2. Store(job[w], "SUCCESS") \/ Store(job[w], "FAILURE") \/ Store(job[w], "RETRY")
      BY <2>2 DEF Return, MarkError, HardTimeout, TransientError, MarkFails, Retry,
         FailUnmarked
    <3>3. QED
      BY <3>1, <3>2, StoreReports
  <2>3. QED
    BY <2>1, <2>2 DEF Next, vars, Publish, DeliverAny, Proceed, Misfortune, LoadInputs,
       CommitReports, FailOnArtifact, LoadMark, FailPermanently, SoftTimeout, RetryRefused,
       WorkerLost, ConnectionLost
<1>3. QED
  BY <1>1, <1>2, Typing, PTL DEF Spec, ReportsLikeTaskResult, TaskResults!Spec
-----------------------------------------------------------------------------
(***************************************************************************)
(* Where a job stands.  A job that has never been run twice at once is in  *)
(* one place: a message, a run, or behind its verdict.  JobInv says so for *)
(* one job at a time, since a step is about one job.                       *)
(***************************************************************************)
Alone(j) == "doubled" \notin fate[j]

\* Only published jobs have messages, runs and results.
Traced(j) ==
  /\ InFlight(j) => j \in published
  /\ j \notin published => result[j] = "PENDING"
  /\ \A w \in Worker : job[w] = j => pc[w] # "idle"

\* A run has committed before it returns.
Checked(j) ==
  result[j] = "SUCCESS" \/ (\E w \in Worker : job[w] = j /\ pc[w] = "return") =>
    /\ contamination[j] # "pending"
    /\ \A c \in DOMAIN found[j] : reports[j][c] > 0

OneMessage(j) ==
  \A n, m \in 0..MaxRetries :
    queue[j][n] > 0 => queue[j][n] = 1 /\ (queue[j][m] > 0 => m = n)

OneRun(j) ==
  \A w \in Worker : job[w] = j =>
    /\ acks[w]
    /\ \A n \in 0..MaxRetries : queue[j][n] = 0
    /\ \A v \in Worker : job[v] = j => v = w

\* What the run of the job has read is still what the column holds.
SeesColumn(j) ==
  \A w \in Worker : job[w] = j =>
    /\ pc[w] \in {"detect", "marking"} => seen[w] = contamination[j]
    /\ pc[w] = "return" => contamination[j] \in Verdict

Settled(j) == result[j] = "SUCCESS" => contamination[j] \in Verdict /\ ~InFlight(j)

Answered(j) ==
  j \in published /\ ~InFlight(j) =>
    result[j] = "SUCCESS" \/ contamination[j] = "error" \/ fate[j] # {}

JobInv(j) ==
  /\ Traced(j)
  /\ Checked(j)
  /\ Alone(j) => OneMessage(j) /\ OneRun(j) /\ SeesColumn(j) /\ Settled(j)
  /\ Answered(j)

EndedInv == WorkerInv /\ \A j \in Job : JobInv(j)

\* A step leaves the jobs that it is not about where they are.
Untouched(i) ==
  /\ queue'[i] = queue[i]
  /\ contamination'[i] = contamination[i]
  /\ reports'[i] = reports[i]
  /\ result'[i] = result[i]
  /\ fate'[i] = fate[i]
  /\ i \in published' <=> i \in published
  /\ \A w \in Worker :
       /\ job'[w] = i <=> job[w] = i
       /\ job[w] = i => pc'[w] = pc[w] /\ acks'[w] = acks[w] /\ seen'[w] = seen[w]

LEMMA Elsewhere ==
  ASSUME NEW i \in Job, JobInv(i), Untouched(i), UNCHANGED data
  PROVE  JobInv(i)'
<1>1. InFlight(i)' <=> InFlight(i)
  BY DEF InFlight, Untouched
<1>2. Traced(i)' /\ Checked(i)' /\ Answered(i)'
  BY <1>1 DEF JobInv, Traced, Checked, Answered, Untouched
<1>3. Alone(i)' => Alone(i)
  BY DEF Alone, Untouched
<1>4. Alone(i) => OneMessage(i)' /\ OneRun(i)'
  BY DEF JobInv, OneMessage, OneRun, Untouched
<1>5. Alone(i) => SeesColumn(i)' /\ Settled(i)'
  BY <1>1 DEF JobInv, SeesColumn, Settled, Untouched
<1>6. QED
  BY <1>2, <1>3, <1>4, <1>5 DEF JobInv

\* What a step of one run leaves alone.
RunStep(w, j) ==
  /\ \A v \in Worker \ {w} :
       pc'[v] = pc[v] /\ job'[v] = job[v] /\ acks'[v] = acks[v] /\ seen'[v] = seen[v]
  /\ \A i \in Job \ {j} :
       /\ queue'[i] = queue[i] /\ contamination'[i] = contamination[i]
       /\ reports'[i] = reports[i] /\ result'[i] = result[i] /\ fate'[i] = fate[i]
  /\ UNCHANGED <<published, data>>

LEMMA OtherJobs ==
  ASSUME EndedInv, NEW w \in Worker, NEW j \in Job, job[w] = j, RunStep(w, j),
         job'[w] \in {j, NoJob}, JobInv(j)'
  PROVE  \A i \in Job : JobInv(i)'
<1>1. ASSUME NEW i \in Job \ {j} PROVE JobInv(i)'
  <2>1. Untouched(i)
    BY DEF RunStep, Untouched
  <2>2. QED
    BY <2>1, Elsewhere DEF EndedInv, RunStep
<1>2. QED
  BY <1>1

\* A message more changes one count.
LEMMA EnqueueValues ==
  ASSUME TypeOK, NEW j \in Job, NEW n \in 0..MaxRetries, Enqueue(j, n)
  PROVE  /\ queue'[j][n] = queue[j][n] + 1
         /\ \A m \in (0..MaxRetries) \ {n} : queue'[j][m] = queue[j][m]
         /\ \A i \in Job \ {j} : queue'[i] = queue[i]
<1>1. queue \in [Job -> [0..MaxRetries -> Nat]]
  BY DEF TypeOK
<1>2. /\ queue'[j] = [queue[j] EXCEPT ![n] = queue[j][n] + 1]
      /\ \A i \in Job \ {j} : queue'[i] = queue[i]
  BY <1>1
<1>3. /\ queue'[j][n] = queue[j][n] + 1
      /\ \A m \in (0..MaxRetries) \ {n} : queue'[j][m] = queue[j][m]
  BY <1>1, <1>2
<1>4. QED
  BY <1>2, <1>3

\* A job with a run that is alone has no message.
LEMMA NoMessage ==
  ASSUME TypeOK, NEW j \in Job, \A n \in 0..MaxRetries : ~(queue[j][n] > 0)
  PROVE  \A n \in 0..MaxRetries : queue[j][n] = 0
<1> TAKE n \in 0..MaxRetries
<1>1. queue[j][n] \in Nat /\ ~(queue[j][n] > 0)
  BY DEF TypeOK
<1>2. QED
  BY <1>1

\* A run that goes on without a commit.
LEMMA RunGoesOn ==
  ASSUME EndedInv, NEW w \in Worker, NEW j \in Job, job[w] = j, pc[w] # "idle",
         UNCHANGED <<published, queue, job, acks, tables, result, fate, data>>,
         \A v \in Worker \ {w} : pc'[v] = pc[v] /\ seen'[v] = seen[v],
         \/ pc'[w] \in {"detect", "marking"} /\ seen'[w] = contamination[j]
         \/ pc'[w] = "mark"
  PROVE  \A i \in Job : JobInv(i)'
<1>1. JobInv(j) /\ (InFlight(j)' <=> InFlight(j))
  BY DEF EndedInv, InFlight
<1>2. Traced(j)' /\ Checked(j)' /\ Answered(j)'
  BY <1>1 DEF JobInv, Traced, Checked, Answered
<1>3. Alone(j)' => OneMessage(j)' /\ OneRun(j)' /\ SeesColumn(j)' /\ Settled(j)'
  BY <1>1 DEF JobInv, Alone, OneMessage, OneRun, SeesColumn, Settled
<1>4. JobInv(j)' /\ RunStep(w, j) /\ job'[w] = j
  BY <1>2, <1>3 DEF JobInv, RunStep
<1>5. QED
  BY <1>4, OtherJobs

\* How a run may leave its job: as it was, as checked, or as failed.
Outcome(w, j) ==
  \/ pc[w] = "return" /\ contamination'[j] = contamination[j] /\ result'[j] = "SUCCESS"
  \/ /\ result'[j] = "SUCCESS" => result[j] = "SUCCESS"
     /\ contamination'[j] \in {contamination[j], "error"}

\* A run that ends without a message.
LEMMA RunEnds ==
  ASSUME EndedInv, NEW w \in Worker, NEW j \in Job, job[w] = j, pc[w] # "idle",
         Stop(w), UNCHANGED <<published, queue, reports, data>>,
         \A i \in Job \ {j} :
           contamination'[i] = contamination[i] /\ result'[i] = result[i] /\ fate'[i] = fate[i],
         Outcome(w, j), fate[j] \subseteq fate'[j],
         result'[j] = "SUCCESS" \/ contamination'[j] = "error" \/ fate'[j] # {}
  PROVE  \A i \in Job : JobInv(i)'
<1>1. /\ \A v \in Worker \ {w} :
           pc'[v] = pc[v] /\ job'[v] = job[v] /\ acks'[v] = acks[v] /\ seen'[v] = seen[v]
      /\ pc'[w] = "idle" /\ job'[w] = NoJob
  BY DEF EndedInv, WorkerInv, TypeOK
<1> HIDE DEF Stop
<1>2. JobInv(j) /\ InFlight(j) /\ j \in published
  BY DEF EndedInv, JobInv, Traced, InFlight
<1>3. Traced(j)' /\ Answered(j)'
  BY <1>1, <1>2 DEF JobInv, Traced, Answered
<1>4. Checked(j)'
  BY <1>1, <1>2 DEF JobInv, Checked, Outcome
<1>5. ASSUME Alone(j)' PROVE OneMessage(j)' /\ OneRun(j)' /\ SeesColumn(j)' /\ Settled(j)'
  <2>1. Alone(j)
    BY <1>5 DEF Alone
  <2>2. \A v \in Worker : job'[v] # j
    BY <1>1, <1>2, <2>1 DEF JobInv, OneRun
  <2>3. \A n \in 0..MaxRetries : queue[j][n] = 0
    BY <1>2, <2>1 DEF JobInv, OneRun
  <2>4. OneMessage(j)' /\ OneRun(j)' /\ SeesColumn(j)'
    BY <2>2, <2>3 DEF OneMessage, OneRun, SeesColumn
  <2>5. ~InFlight(j)'
    BY <2>2, <2>3 DEF InFlight
  <2>6. result[j] # "SUCCESS" /\ (pc[w] = "return" => contamination[j] \in Verdict)
    BY <1>2, <2>1 DEF JobInv, Settled, SeesColumn
  <2>7. QED
    BY <2>4, <2>5, <2>6 DEF Settled, Outcome
<1>6. JobInv(j)' /\ RunStep(w, j)
  BY <1>1, <1>3, <1>4, <1>5 DEF JobInv, RunStep
<1>7. QED
  BY <1>1, <1>6, OtherJobs

\* A run that ends with a message for the next one.
LEMMA RunComesBack ==
  ASSUME EndedInv, NEW w \in Worker, NEW j \in Job, job[w] = j, pc[w] # "idle",
         Stop(w), NEW n \in 0..MaxRetries, Enqueue(j, n),
         UNCHANGED <<published, reports, data, fate>>,
         \A i \in Job \ {j} : contamination'[i] = contamination[i] /\ result'[i] = result[i],
         result'[j] = "SUCCESS" => result[j] = "SUCCESS",
         contamination'[j] \in {contamination[j], "error"}
  PROVE  \A i \in Job : JobInv(i)'
<1>1. /\ \A v \in Worker \ {w} :
           pc'[v] = pc[v] /\ job'[v] = job[v] /\ acks'[v] = acks[v] /\ seen'[v] = seen[v]
      /\ pc'[w] = "idle" /\ job'[w] = NoJob
  BY DEF EndedInv, WorkerInv, TypeOK
<1>q. /\ queue'[j][n] = queue[j][n] + 1 /\ queue[j][n] \in Nat
      /\ \A m \in (0..MaxRetries) \ {n} : queue'[j][m] = queue[j][m]
      /\ \A i \in Job \ {j} : queue'[i] = queue[i]
  <2> HIDE DEF Enqueue, Stop
  <2>1. TypeOK
    BY DEF EndedInv, WorkerInv
  <2>2. queue[j][n] \in Nat
    BY <2>1 DEF TypeOK
  <2>3. QED
    BY <2>1, <2>2, EnqueueValues
<1> HIDE DEF Stop, Enqueue
<1>2. JobInv(j) /\ InFlight(j) /\ j \in published
  BY DEF EndedInv, JobInv, Traced, InFlight
<1>3. InFlight(j)'
  <2>1. queue'[j][n] > 0
    BY <1>q
  <2>2. QED
    BY <2>1 DEF InFlight
<1>4. Traced(j)' /\ Answered(j)'
  BY <1>1, <1>2, <1>3 DEF JobInv, Traced, Answered
<1>5. Checked(j)'
  BY <1>1, <1>2 DEF JobInv, Checked
<1>6. ASSUME Alone(j)' PROVE OneMessage(j)' /\ OneRun(j)' /\ SeesColumn(j)' /\ Settled(j)'
  <2>1. Alone(j)
    BY <1>6 DEF Alone
  <2>2. \A v \in Worker : job'[v] # j
    BY <1>1, <1>2, <2>1 DEF JobInv, OneRun
  <2>3. \A m \in 0..MaxRetries : queue[j][m] = 0
    BY <1>2, <2>1 DEF JobInv, OneRun
  <2>4. queue'[j][n] = 1 /\ \A m \in (0..MaxRetries) \ {n} : queue'[j][m] = 0
    BY <1>q, <2>3
  <2>5. OneMessage(j)' /\ OneRun(j)' /\ SeesColumn(j)'
    BY <2>2, <2>4 DEF OneMessage, OneRun, SeesColumn
  <2>6. Settled(j)'
    BY <1>2, <2>1 DEF JobInv, Settled
  <2>7. QED
    BY <2>5, <2>6
<1>7. JobInv(j)' /\ RunStep(w, j)
  BY <1>1, <1>q, <1>4, <1>5, <1>6 DEF JobInv, RunStep
<1>8. QED
  BY <1>1, <1>7, OtherJobs

\* A state other than SUCCESS is stored for one job.
LEMMA StoreValues ==
  ASSUME TypeOK, NEW j \in Job, NEW s, Store(j, s)
  PROVE  /\ \A i \in Job \ {j} : result'[i] = result[i]
         /\ result'[j] = "SUCCESS" <=> s = "SUCCESS" \/ result[j] = "SUCCESS"
  BY DEF TypeOK, Store

LEMMA PublishKeeps ==
  ASSUME EndedInv, NEW j \in Job, Publish(j)
  PROVE  \A i \in Job : JobInv(i)'
<1> HIDE DEF Enqueue
<1>t. TypeOK /\ JobInv(j)
  BY DEF EndedInv, WorkerInv
<1>1. /\ j \notin published /\ published' = published \cup {j} /\ Enqueue(j, 0)
      /\ UNCHANGED <<data, run, tables, result, fate>>
  BY DEF Publish
<1>2. ~InFlight(j) /\ result[j] = "PENDING"
  BY <1>1, <1>t DEF JobInv, Traced
<1>3. (\A w \in Worker : job[w] # j) /\ \A m \in 0..MaxRetries : queue[j][m] = 0
  BY <1>2, <1>t, NoMessage DEF InFlight
<1>4. 0 \in 0..MaxRetries
  OBVIOUS
<1>5. /\ queue'[j][0] = 1
      /\ \A m \in (0..MaxRetries) \ {0} : queue'[j][m] = 0
      /\ \A i \in Job \ {j} : queue'[i] = queue[i]
  BY <1>1, <1>3, <1>4, <1>t, EnqueueValues
<1>6. Traced(j)' /\ Checked(j)' /\ Settled(j)'
  BY <1>1, <1>2, <1>3 DEF Traced, Checked, Settled
<1>7. OneMessage(j)' /\ OneRun(j)' /\ SeesColumn(j)'
  BY <1>1, <1>3, <1>5 DEF OneMessage, OneRun, SeesColumn
<1>8. Answered(j)'
  <2>1. queue'[j][0] > 0
    BY <1>5
  <2>2. InFlight(j)'
    BY <1>4, <2>1 DEF InFlight
  <2>3. QED
    BY <2>2 DEF Answered
<1>9. \A i \in Job \ {j} : Untouched(i)
  BY <1>1, <1>5 DEF Untouched
<1>10. QED
  BY <1>1, <1>6, <1>7, <1>8, <1>9, Elsewhere DEF JobInv, EndedInv

LEMMA DeliverKeeps ==
  ASSUME EndedInv, NEW w \in Worker, NEW j \in Job, NEW n \in 0..MaxRetries, Deliver(w, j, n)
  PROVE  \A i \in Job : JobInv(i)'
<1>t. TypeOK /\ JobInv(j)
  BY DEF EndedInv, WorkerInv
<1>q. queue \in [Job -> [0..MaxRetries -> Nat]] /\ queue[j][n] \in Nat
  BY <1>t DEF TypeOK
<1>1. /\ pc[w] = "idle" /\ queue[j][n] > 0 /\ Store(j, "STARTED")
      /\ UNCHANGED <<data, published, seen, tables, fate>>
  BY DEF Deliver
<1>2. /\ pc'[w] = "load" /\ job'[w] = j /\ acks'[w] = TRUE
      /\ \A v \in Worker \ {w} : pc'[v] = pc[v] /\ job'[v] = job[v] /\ acks'[v] = acks[v]
  BY <1>t DEF Deliver, TypeOK
<1>3. /\ queue'[j][n] = queue[j][n] - 1
      /\ \A m \in (0..MaxRetries) \ {n} : queue'[j][m] = queue[j][m]
      /\ \A i \in Job \ {j} : queue'[i] = queue[i]
  <2>1. /\ queue'[j] = [queue[j] EXCEPT ![n] = queue[j][n] - 1]
        /\ \A i \in Job \ {j} : queue'[i] = queue[i]
    BY <1>q DEF Deliver
  <2>2. QED
    BY <1>q, <2>1
<1>4. InFlight(j) /\ InFlight(j)' /\ j \in published
  BY <1>1, <1>2, <1>t DEF JobInv, Traced, InFlight
<1>5. \A i \in Job : job[w] # i
  BY <1>1 DEF EndedInv, JobInv, Traced
<1>6. Traced(j)' /\ Answered(j)'
  BY <1>1, <1>2, <1>4, <1>t DEF JobInv, Traced, Answered
<1>7. result'[j] = "SUCCESS" => result[j] = "SUCCESS"
  BY <1>1, <1>t, StoreValues
<1>8. Checked(j)'
  BY <1>1, <1>2, <1>7, <1>t DEF JobInv, Checked
<1>9. ASSUME Alone(j)' PROVE OneMessage(j)' /\ OneRun(j)' /\ SeesColumn(j)' /\ Settled(j)'
  <2>1. Alone(j)
    BY <1>1, <1>9 DEF Alone
  <2>2. \A v \in Worker : job[v] # j
    BY <1>1, <1>t, <2>1 DEF JobInv, OneRun
  <2>3. queue[j][n] = 1 /\ \A m \in (0..MaxRetries) \ {n} : ~(queue[j][m] > 0)
    BY <1>1, <1>t, <2>1 DEF JobInv, OneMessage
  <2>4. \A m \in 0..MaxRetries : queue'[j][m] = 0
    <3>1. \A m \in (0..MaxRetries) \ {n} : queue[j][m] \in Nat
      BY <1>q
    <3>2. \A m \in (0..MaxRetries) \ {n} : queue[j][m] = 0
      BY <2>3, <3>1
    <3>3. QED
      BY <1>3, <2>3, <3>2
  <2>5. OneMessage(j)' /\ OneRun(j)' /\ SeesColumn(j)'
    BY <1>2, <2>2, <2>4 DEF OneMessage, OneRun, SeesColumn
  <2>6. Settled(j)'
    BY <1>4, <1>7, <1>t, <2>1 DEF JobInv, Settled
  <2>7. QED
    BY <2>5, <2>6
<1>10. \A i \in Job \ {j} : Untouched(i)
  BY <1>1, <1>2, <1>3, <1>5, <1>t, StoreValues DEF Untouched
<1>11. QED
  BY <1>1, <1>6, <1>8, <1>9, <1>10, Elsewhere DEF JobInv, EndedInv

\* Reports and verdict in one commit: the run is past "detect" with a column
\* that is not "pending", and the verdict if the job is not run twice.
LEMMA CommitKeeps ==
  ASSUME EndedInv, NEW w \in Worker, CommitReports(w)
  PROVE  \A i \in Job : JobInv(i)'
<1>1. PICK j \in Job, verdict \in Verdict :
        j = job[w] /\ verdict = Worst(found[j]) /\ pc[w] = "detect"
  BY WorstIsVerdict DEF CommitReports, EndedInv, WorkerInv, RunsNameJobs
<1>t. TypeOK /\ RunsNameJobs /\ JobInv(j)
  BY DEF EndedInv, WorkerInv
<1>2. /\ contamination'[j] = IF seen[w] = verdict THEN contamination[j] ELSE verdict
      /\ \A i \in Job \ {j} : contamination'[i] = contamination[i]
  BY <1>1, <1>t DEF CommitReports, TypeOK
<1>3. /\ \A c \in DOMAIN found[j] : reports'[j][c] = 1
      /\ \A i \in Job \ {j} : reports'[i] = reports[i]
  BY <1>1, <1>t DEF CommitReports, TypeOK, Upserted
<1>4. pc'[w] = "return" /\ \A v \in Worker \ {w} : pc'[v] = pc[v]
  BY <1>t DEF CommitReports, TypeOK
<1>5. UNCHANGED <<data, published, queue, job, acks, seen, result, fate>>
  BY DEF CommitReports
<1>6. contamination'[j] # "pending"
  BY <1>1, <1>2, <1>t DEF RunsNameJobs, Verdict
<1>7. InFlight(j) /\ (InFlight(j)' <=> InFlight(j))
  BY <1>1, <1>5 DEF InFlight
<1>8. Traced(j)' /\ Answered(j)'
  BY <1>4, <1>5, <1>7, <1>t DEF JobInv, Traced, Answered
<1>9. Checked(j)'
  BY <1>3, <1>5, <1>6 DEF Checked
<1>10. ASSUME Alone(j)' PROVE OneMessage(j)' /\ OneRun(j)' /\ SeesColumn(j)' /\ Settled(j)'
  <2>1. OneMessage(j) /\ OneRun(j) /\ SeesColumn(j) /\ Settled(j)
    BY <1>5, <1>10, <1>t DEF JobInv, Alone
  <2>2. contamination'[j] = verdict
    BY <1>1, <1>2, <2>1 DEF SeesColumn
  <2>3. SeesColumn(j)'
    BY <1>1, <1>4, <1>5, <2>1, <2>2 DEF SeesColumn, OneRun
  <2>4. QED
    BY <1>5, <1>7, <2>1, <2>3 DEF OneMessage, OneRun, Settled
<1>11. JobInv(j)' /\ RunStep(w, j) /\ job'[w] = j
  BY <1>1, <1>2, <1>3, <1>4, <1>5, <1>8, <1>9, <1>10 DEF JobInv, RunStep
<1>12. QED
  BY <1>1, <1>11, OtherJobs

\* The message of a run is restored while the run goes on: from here on the
\* job may be run twice.
LEMMA ConnectionLostKeeps ==
  ASSUME EndedInv, NEW w \in Worker, ConnectionLost(w)
  PROVE  \A i \in Job : JobInv(i)'
<1>1. PICK j \in Job, n \in 0..MaxRetries :
        j = job[w] /\ n = retries[w] /\ Enqueue(j, n) /\ Befalls(j, "doubled")
  BY DEF ConnectionLost, Requeue, EndedInv, WorkerInv, RunsNameJobs, TypeOK
<1>2. /\ pc[w] # "idle" /\ UNCHANGED <<data, published, pc, job, seen, tables, result>>
      /\ \A v \in Worker \ {w} : acks'[v] = acks[v]
  BY DEF ConnectionLost, EndedInv, WorkerInv, TypeOK
<1> HIDE DEF Enqueue
<1>t. TypeOK /\ JobInv(j)
  BY DEF EndedInv, WorkerInv
<1>3. fate'[j] # {} /\ ~Alone(j)' /\ \A i \in Job \ {j} : fate'[i] = fate[i]
  BY <1>1, <1>t, BefallsGrows DEF Fate, Alone
<1>4. \A i \in Job \ {j} : queue'[i] = queue[i]
  BY <1>1, <1>t, EnqueueValues
<1>5. j \in published
  BY <1>1, <1>t DEF JobInv, Traced, InFlight
<1>6. Traced(j)' /\ Checked(j)' /\ Answered(j)'
  BY <1>2, <1>3, <1>5, <1>t DEF JobInv, Traced, Checked, Answered
<1>7. JobInv(j)' /\ RunStep(w, j) /\ job'[w] = j
  BY <1>1, <1>2, <1>3, <1>4, <1>6 DEF JobInv, RunStep
<1>8. QED
  BY <1>1, <1>7, OtherJobs

\* A retry is the next message, or the end of the job without a mark.
LEMMA RetryEnds ==
  ASSUME EndedInv, NEW w \in Worker, NEW j \in Job, job[w] = j, pc[w] # "idle",
         Retry(w), Stop(w), UNCHANGED <<published, reports, data>>,
         \A i \in Job \ {j} : contamination'[i] = contamination[i],
         contamination'[j] \in {contamination[j], "error"}
  PROVE  \A i \in Job : JobInv(i)'
<1> HIDE DEF Stop, Enqueue
<1>t. TypeOK /\ retries[w] \in 0..MaxRetries
  BY DEF EndedInv, WorkerInv, TypeOK
<1>1. CASE retries[w] < MaxRetries
  <2>1. /\ retries[w] + 1 \in 0..MaxRetries /\ Enqueue(j, retries[w] + 1)
        /\ Store(j, "RETRY") /\ UNCHANGED fate
    BY <1>1, <1>t DEF Retry
  <2>2. /\ \A i \in Job \ {j} : result'[i] = result[i]
        /\ result'[j] = "SUCCESS" => result[j] = "SUCCESS"
    BY <1>t, <2>1, StoreValues
  <2>3. QED
    BY <2>1, <2>2, RunComesBack
<1>2. CASE retries[w] = MaxRetries
  <2>1. Store(j, "FAILURE") /\ Befalls(j, "unmarked") /\ UNCHANGED queue
    BY <1>2, <1>t DEF Retry, FailUnmarked
  <2>2. /\ \A i \in Job \ {j} : result'[i] = result[i] /\ fate'[i] = fate[i]
        /\ result'[j] = "SUCCESS" => result[j] = "SUCCESS"
        /\ fate[j] \subseteq fate'[j] /\ fate'[j] # {}
    BY <1>t, <2>1, StoreValues, BefallsGrows DEF Fate
  <2>3. QED
    BY <2>1, <2>2, RunEnds DEF Outcome
<1>3. QED
  BY <1>1, <1>2, <1>t DEF Retry

LEMMA EndsKeep ==
  ASSUME EndedInv, NEW w \in Worker,
         \/ Return(w) \/ MarkError(w) \/ HardTimeout(w) \/ TransientError(w)
         \/ MarkFails(w) \/ RetryRefused(w) \/ WorkerLost(w)
  PROVE  \A i \in Job : JobInv(i)'
<1>1. /\ pc[w] # "idle" /\ Stop(w) /\ UNCHANGED <<data, published, reports>>
  BY DEF Return, MarkError, HardTimeout, TransientError, MarkFails, RetryRefused, WorkerLost
<1>2. PICK j \in Job : j = job[w]
  BY <1>1 DEF EndedInv, WorkerInv, RunsNameJobs
<1> HIDE DEF Stop, Enqueue
<1>t. TypeOK /\ JobInv(j)
  BY DEF EndedInv, WorkerInv
<1>3. \/ UNCHANGED contamination
      \/ contamination' = [contamination EXCEPT ![j] = "error"]
  BY <1>2, <1>t, MarkWrites DEF Return, MarkError, HardTimeout, TransientError, MarkFails,
     RetryRefused, WorkerLost
<1>4. /\ \A i \in Job \ {j} : contamination'[i] = contamination[i]
      /\ contamination'[j] \in {contamination[j], "error"}
  BY <1>3, <1>t DEF TypeOK
<1>5. CASE Return(w)
  <2>1. Store(j, "SUCCESS") /\ UNCHANGED <<queue, contamination, fate>> /\ pc[w] = "return"
    BY <1>2, <1>5 DEF Return
  <2>2. QED
    BY <1>1, <1>2, <1>t, <2>1, StoreValues, RunEnds DEF Outcome
<1>6. CASE MarkError(w)
  <2>1. /\ Store(j, "FAILURE") /\ UNCHANGED <<queue, fate>> /\ pc[w] = "marking"
        /\ contamination' = Marked(w)
    BY <1>2, <1>6 DEF MarkError
  <2>2. /\ \A i \in Job \ {j} : result'[i] = result[i]
        /\ result'[j] = "SUCCESS" => result[j] = "SUCCESS"
    BY <1>t, <2>1, StoreValues
  <2>3. contamination'[j] = "error" \/ fate'[j] # {}
    <3>1. CASE Alone(j)
      <4>1. seen[w] = contamination[j]
        BY <1>2, <1>t, <2>1, <3>1 DEF JobInv, SeesColumn
      <4>2. QED
        BY <1>2, <1>t, <2>1, <4>1 DEF Marked, TypeOK
    <3>2. CASE ~Alone(j)
      BY <2>1, <3>2 DEF Alone
    <3>3. QED
      BY <3>1, <3>2
  <2>4. QED
    BY <1>1, <1>2, <1>4, <2>1, <2>2, <2>3, RunEnds DEF Outcome
<1>7. CASE FailUnmarked(j) /\ UNCHANGED queue
  <2>1. /\ \A i \in Job \ {j} : result'[i] = result[i] /\ fate'[i] = fate[i]
        /\ result'[j] = "SUCCESS" => result[j] = "SUCCESS"
        /\ fate[j] \subseteq fate'[j] /\ fate'[j] # {}
    BY <1>7, <1>t, StoreValues, BefallsGrows DEF Fate, FailUnmarked
  <2>2. QED
    BY <1>1, <1>2, <1>4, <1>7, <2>1, RunEnds DEF Outcome
<1>8. CASE Retry(w)
  BY <1>1, <1>2, <1>4, <1>8, RetryEnds
<1>9. CASE RetryRefused(w)
  <2>1. Befalls(j, "dropped") /\ UNCHANGED <<queue, result>>
    BY <1>2, <1>9 DEF RetryRefused
  <2>2. /\ \A i \in Job \ {j} : fate'[i] = fate[i]
        /\ fate[j] \subseteq fate'[j] /\ fate'[j] # {}
    BY <1>t, <2>1, BefallsGrows DEF Fate
  <2>3. QED
    BY <1>1, <1>2, <1>4, <2>1, <2>2, RunEnds DEF Outcome
<1>10. CASE WorkerLost(w)
  <2>1. UNCHANGED <<contamination, result, fate>> /\ Requeue(w)
    BY <1>10 DEF WorkerLost
  <2>2. CASE acks[w]
    <3>1. retries[w] \in 0..MaxRetries /\ Enqueue(j, retries[w])
      BY <1>2, <1>t, <2>1, <2>2 DEF Requeue, TypeOK
    <3>2. QED
      BY <1>1, <1>2, <2>1, <3>1, RunComesBack
  <2>3. CASE ~acks[w]
    <3>1. UNCHANGED queue
      BY <2>1, <2>3 DEF Requeue
    <3>2. ~Alone(j)
      BY <1>2, <1>t, <2>3 DEF JobInv, OneRun
    <3>3. fate[j] # {}
      BY <3>2 DEF Alone
    <3>4. QED
      BY <1>1, <1>2, <2>1, <3>1, <3>3, RunEnds DEF Outcome
  <2>4. QED
    BY <2>2, <2>3
<1>11. CASE HardTimeout(w) \/ TransientError(w) \/ MarkFails(w)
  BY <1>2, <1>7, <1>8, <1>11 DEF HardTimeout, TransientError, MarkFails
<1>12. QED
  BY <1>5, <1>6, <1>9, <1>10, <1>11

LEMMA EndedStep == EndedInv /\ [Next]_vars => EndedInv'
<1> SUFFICES ASSUME EndedInv, [Next]_vars PROVE EndedInv'
  OBVIOUS
<1>1. WorkerInv'
  BY WorkerStep DEF EndedInv
<1>2. CASE UNCHANGED vars
  <2>1. \A i \in Job : Untouched(i)
    BY <1>2 DEF vars, Untouched
  <2>2. QED
    BY <1>1, <1>2, <2>1, Elsewhere DEF EndedInv, vars
<1>3. ASSUME NEW w \in Worker,
             \/ LoadInputs(w) \/ LoadMark(w) \/ FailOnArtifact(w)
             \/ FailPermanently(w) \/ SoftTimeout(w)
      PROVE  \A i \in Job : JobInv(i)'
  <2>1. /\ pc[w] # "idle" /\ UNCHANGED <<published, queue, job, acks, tables, result, fate, data>>
        /\ \A v \in Worker \ {w} : pc'[v] = pc[v] /\ seen'[v] = seen[v]
        /\ \/ pc'[w] \in {"detect", "marking"} /\ seen'[w] = contamination[job[w]]
           \/ pc'[w] = "mark"
    BY <1>3 DEF LoadInputs, LoadMark, FailOnArtifact, FailPermanently, SoftTimeout, EndedInv,
       WorkerInv, TypeOK
  <2>2. job[w] \in Job
    BY <2>1 DEF EndedInv, WorkerInv, RunsNameJobs
  <2>3. QED
    BY <2>1, <2>2, RunGoesOn
<1>4. QED
  BY <1>1, <1>2, <1>3, PublishKeeps, DeliverKeeps, CommitKeeps, ConnectionLostKeeps, EndsKeep
     DEF EndedInv, Next, DeliverAny, Proceed, Misfortune

\* contamination.py:123: once a job is no longer in flight, a client that polls
\* it is told of success only if every report is there, and of anything else
\* only if the version shows "error"; what the runs' failures may spoil is what
\* ResultMatchesColumn names and nothing more, for any number of them.
THEOREM PollersAreToldTheVerdict == Spec => []ResultMatchesColumn
<1>1. Init => EndedInv
  <2> SUFFICES ASSUME Init PROVE EndedInv
    OBVIOUS
  <2>1. WorkerInv
    BY WorkerInit
  <2>2. ASSUME NEW j \in Job PROVE JobInv(j)
    <3>1. /\ \A n \in 0..MaxRetries : queue[j][n] = 0
          /\ \A w \in Worker : job[w] # j
          /\ result[j] = "PENDING" /\ j \notin published
      BY DEF Init
    <3>2. ~InFlight(j)
      BY <3>1 DEF InFlight
    <3>3. QED
      BY <3>1, <3>2 DEF JobInv, Traced, Checked, OneMessage, OneRun, SeesColumn, Settled, Answered
  <2>3. QED
    BY <2>1, <2>2 DEF EndedInv
<1>2. EndedInv => ResultMatchesColumn
  <2> SUFFICES ASSUME EndedInv, NEW j \in published, ~InFlight(j)
               PROVE  /\ result[j] = "SUCCESS" =>
                           /\ contamination[j] # "pending"
                           /\ \A c \in DOMAIN found[j] : reports[j][c] > 0
                           /\ contamination[j] \in Verdict \/ "doubled" \in fate[j]
                      /\ result[j] # "SUCCESS" => contamination[j] = "error" \/ fate[j] # {}
    BY DEF ResultMatchesColumn
  <2>1. JobInv(j)
    BY DEF EndedInv, WorkerInv, TypeOK
  <2>2. QED
    BY <2>1 DEF JobInv, Checked, Alone, Settled, Answered
<1>3. QED
  BY <1>1, <1>2, EndedStep, PTL DEF Spec
-----------------------------------------------------------------------------
HIDE DEF Goto, Stop, Fault, Enqueue, Column
USE DEF handlerVars, checkerVars, pipelineVars

\* versions.py:248: all that a handler changes of the worker's state is the
\* message it publishes, and a worker changes nothing of a handler's.
LEMMA StepOfEach ==
  ASSUME [PipelineNext]_pipelineVars
  PROVE  [Submission!Next]_(Submission!vars) /\ [Next]_vars
<1> USE DEF Submission!vars, Submission!handler, Submission!database, vars
<1>1. CASE UNCHANGED pipelineVars
  BY <1>1
<1>2. CASE Submit
  <2>1. Submission!Next
    BY <1>2 DEF Submit
  <2>2. CASE published' = published /\ UNCHANGED checkerVars
    BY <2>1, <2>2
  <2>3. CASE \E j \in Job : Publish(j)
    BY <2>1, <2>3 DEF Next
  <2>4. QED
    BY <1>2, <2>2, <2>3 DEF Submit
<1>3. CASE Check
  <2>1. Next
    BY <1>3 DEF Check, Next
  <2>2. UNCHANGED <<handlerVars, published>>
    BY <1>3 DEF Check
  <2>3. QED
    BY <2>1, <2>2
<1>4. QED
  BY <1>1, <1>2, <1>3 DEF PipelineNext

\* versions.py:248, contamination_engine.py:207: the handlers and the workers
\* meet only in the jobs that are published, so the composition implements
\* create_version as VersionSubmission has it and the task as
\* ContaminationWorker has it.
THEOREM ComponentsAreImplemented == PipelineSpec => Submission!Spec /\ Spec
<1>1. PipelineInit => Submission!Init /\ Init
  BY DEF PipelineInit
<1>2. [PipelineNext]_pipelineVars => [Submission!Next]_(Submission!vars) /\ [Next]_vars
  BY StepOfEach
<1>3. QED
  BY <1>1, <1>2, PTL DEF PipelineSpec, Submission!Spec, Spec

\* contamination.py:123: what the client of a published version is told by the
\* job endpoint agrees with the version's column, in the composition too.
THEOREM PipelineTellsTheVerdict == PipelineSpec => []ResultMatchesColumn
<1>1. Spec => []ResultMatchesColumn
  BY PollersAreToldTheVerdict
<1>2. QED
  BY <1>1, ComponentsAreImplemented, PTL

\* TaskResult is all that JobPolling assumes of the jobs, and the pipeline
\* keeps it, however its handlers and workers fail.
THEOREM ResultsAreAsPolled == PipelineSpec => ReportsLikeTaskResult
  BY ComponentsAreImplemented, ReportsRefineTaskResult, PTL
=============================================================================
