------------------------ MODULE ContaminationWorker ------------------------
(***************************************************************************)
(* The Celery task contamination.check: backend/app/tasks/                 *)
(* contamination_tasks.py and ContaminationEngine.run_detection.           *)
(*                                                                         *)
(* A job checks one version against the corpora named when it was          *)
(* published.  The broker delivers at least once: a message is             *)
(* acknowledged only when its run ends (acks_late), a lost worker's        *)
(* message is requeued (reject_on_worker_lost), and a worker that loses    *)
(* its broker connection keeps running while the message goes back to the  *)
(* queue.  So several workers may run the same job at once.                *)
(*                                                                         *)
(* What a job finds is fixed by the artifact and the corpora: found[j][c]  *)
(* is the class of corpus c, and the artifacts of corrupt jobs cannot be   *)
(* read.  budget bounds how many things go wrong in a behaviour, and fate  *)
(* remembers, for each job, the failures that the code has no answer to.   *)
(***************************************************************************)
EXTENDS Naturals

CONSTANTS
  Job,          (* versions that may be checked                            *)
  Worker,       (* Celery worker slots                                     *)
  Corpus,       (* reference corpora                                       *)
  NoJob,        (* an idle worker                                          *)
  MaxRetries,   (* max_retries of the task                                 *)
  Faults,       (* which kinds of failure may happen                       *)
  MaxFaults     (* how many failures a behaviour may have                  *)

AllFaults == {"transient", "permanent", "soft", "late_soft", "hard", "mark",
              "lost", "duplicate", "broker"}

ASSUME ConstantsAssumption ==
  /\ NoJob \notin Job
  /\ MaxRetries \in Nat
  /\ MaxFaults \in Nat
  /\ Faults \subseteq AllFaults

Verdict == {"clean", "flagged", "contaminated"}
Column  == Verdict \cup {"pending", "error"}
Result  == {"PENDING", "STARTED", "RETRY", "FAILURE", "SUCCESS"}

\* What may befall a job: it runs twice at once, it fails without a mark on its
\* version, its retry never reaches the broker.
Fate == {"doubled", "unmarked", "dropped"}

VARIABLES
  found,          (* class of each corpus a job was published with         *)
  corrupt,        (* jobs whose artifact cannot be parsed                  *)
  published,      (* jobs create_version has published                     *)
  queue,          (* messages ready for delivery, by job and retry count   *)
  pc,             (* where each worker is                                  *)
  job,            (* the job each worker runs                              *)
  retries,        (* self.request.retries of that run                      *)
  acks,           (* whether ending the run still acknowledges its message *)
  seen,           (* contamination_status as the run's session loaded it   *)
  contamination,  (* benchmark_versions.contamination_status               *)
  reports,        (* number of contamination_reports rows per job, corpus  *)
  result,         (* state of the task in the result backend               *)
  fate,           (* history: what has befallen each job                   *)
  budget          (* failures that may still happen                        *)

data   == <<found, corrupt>>
run    == <<pc, job, retries, acks, seen>>
tables == <<contamination, reports>>
vars   == <<data, published, queue, run, tables, result, fate, budget>>

TypeOK ==
  /\ \A j \in Job : DOMAIN found[j] \subseteq Corpus /\ \A c \in DOMAIN found[j] : found[j][c] \in Verdict
  /\ corrupt \subseteq Job
  /\ published \subseteq Job
  /\ queue \in [Job -> [0..MaxRetries -> Nat]]
  /\ pc \in [Worker -> {"idle", "load", "detect", "return", "mark", "marking"}]
  /\ job \in [Worker -> Job \cup {NoJob}]
  /\ retries \in [Worker -> 0..MaxRetries]
  /\ acks \in [Worker -> BOOLEAN]
  /\ seen \in [Worker -> Column]
  /\ contamination \in [Job -> Column]
  /\ reports \in [Job -> [Corpus -> Nat]]
  /\ result \in [Job -> Result]
  /\ fate \in [Job -> SUBSET Fate]
  /\ budget \in 0..MaxFaults

Findings == UNION {[C -> Verdict] : C \in SUBSET Corpus}

Init ==
  /\ found \in [Job -> Findings]
  /\ corrupt \in SUBSET Job
  /\ published = {}
  /\ queue = [j \in Job |-> [n \in 0..MaxRetries |-> 0]]
  /\ pc = [w \in Worker |-> "idle"]
  /\ job = [w \in Worker |-> NoJob]
  /\ retries = [w \in Worker |-> 0]
  /\ acks = [w \in Worker |-> FALSE]
  /\ seen = [w \in Worker |-> "pending"]
  /\ contamination = [j \in Job |-> "pending"]
  /\ reports = [j \in Job |-> [c \in Corpus |-> 0]]
  /\ result = [j \in Job |-> "PENDING"]
  /\ fate = [j \in Job |-> {}]
  /\ budget = MaxFaults
-----------------------------------------------------------------------------
\* The verdict of a run is the worst class over the corpora of its job.
Worst(f) ==
  LET classes == {f[c] : c \in DOMAIN f}
  IN  IF "contaminated" \in classes THEN "contaminated"
      ELSE IF "flagged" \in classes THEN "flagged"
      ELSE "clean"

\* Mutation of Store: the last report wins.
StoreLast(j, state) == result' = [result EXCEPT ![j] = state]

\* The result backend never replaces a stored SUCCESS.
Store(j, state) ==
  result' = [result EXCEPT ![j] = IF @ = "SUCCESS" THEN @ ELSE state]

Enqueue(j, n) == queue' = [queue EXCEPT ![j][n] = @ + 1]

\* Mutation of Upserted: a plain INSERT.
Inserted(n) == n + 1

\* INSERT ... ON CONFLICT (version_id, corpus_id) DO UPDATE.
Upserted(n) == 1

Goto(w, to) == pc' = [pc EXCEPT ![w] = to]

\* The worker is free again.
Stop(w) ==
  /\ Goto(w, "idle")
  /\ job' = [job EXCEPT ![w] = NoJob]
  /\ retries' = [retries EXCEPT ![w] = 0]
  /\ acks' = [acks EXCEPT ![w] = FALSE]
  /\ seen' = [seen EXCEPT ![w] = "pending"]

Befalls(j, what) == fate' = [fate EXCEPT ![j] = @ \cup {what}]

Fault(kind) ==
  /\ kind \in Faults
  /\ budget > 0
  /\ budget' = budget - 1
-----------------------------------------------------------------------------
\* create_version calls run_contamination_check.delay once per version.
Publish(j) ==
  /\ j \notin published
  /\ published' = published \cup {j}
  /\ Enqueue(j, 0)
  /\ UNCHANGED <<data, run, tables, result, fate, budget>>

\* The broker hands a message to a free worker, which reports STARTED.
Deliver(w, j, n) ==
  /\ pc[w] = "idle"
  /\ queue[j][n] > 0
  /\ queue' = [queue EXCEPT ![j][n] = @ - 1]
  /\ Goto(w, "load")
  /\ job' = [job EXCEPT ![w] = j]
  /\ retries' = [retries EXCEPT ![w] = n]
  /\ acks' = [acks EXCEPT ![w] = TRUE]
  /\ Store(j, "STARTED")
  /\ UNCHANGED <<data, published, seen, tables, fate, budget>>

\* read_bytes, the corpora and their bundles, then session.get(version).
LoadInputs(w) ==
  /\ pc[w] = "load"
  /\ seen' = [seen EXCEPT ![w] = contamination[job[w]]]
  /\ Goto(w, "detect")
  /\ UNCHANGED <<data, published, queue, job, retries, acks, tables, result, fate, budget>>

\* The streaming pass, one upsert per corpus and the verdict, in a single
\* commit.  The ORM writes the column only when it differs from the value
\* the session loaded.
CommitReports(w) ==
  LET j == job[w]
      verdict == Worst(found[j])
  IN  /\ pc[w] = "detect"
      /\ j \notin corrupt
      /\ reports' = [reports EXCEPT ![j] =
                       [c \in Corpus |-> IF c \in DOMAIN found[j] THEN Upserted(@[c]) ELSE @[c]]]
      /\ contamination' = [contamination EXCEPT ![j] = IF seen[w] = verdict THEN @ ELSE verdict]
      /\ Goto(w, "return")
      /\ UNCHANGED <<data, published, queue, job, retries, acks, seen, result, fate, budget>>

\* The task returns: SUCCESS is stored and the message acknowledged.
Return(w) ==
  /\ pc[w] = "return"
  /\ Store(job[w], "SUCCESS")
  /\ Stop(w)
  /\ UNCHANGED <<data, published, queue, tables, fate, budget>>

\* The task fails with nothing written on its version.
FailUnmarked(j) == Store(j, "FAILURE") /\ Befalls(j, "unmarked")

\* autoretry_for: a new message with one more retry is published and the
\* old one acknowledged; after the last retry the exception is the result.
Retry(w) ==
  \/ /\ retries[w] < MaxRetries
     /\ Enqueue(job[w], retries[w] + 1)
     /\ Store(job[w], "RETRY")
     /\ UNCHANGED fate
  \/ /\ retries[w] = MaxRetries
     /\ FailUnmarked(job[w])
     /\ UNCHANGED queue

\* extract_examples raises on a corrupt artifact: no transient error.
FailOnArtifact(w) ==
  /\ pc[w] = "detect"
  /\ job[w] \in corrupt
  /\ Goto(w, "mark")
  /\ UNCHANGED <<data, published, queue, job, retries, acks, seen, tables, result, fate, budget>>

\* Any other exception that is not in TRANSIENT_ERRORS, such as a database
\* error: nothing of the run is committed, or the error hides that it was.
FailPermanently(w) ==
  /\ Fault("permanent")
  /\ pc[w] \in {"load", "detect", "return"}
  /\ Goto(w, "mark")
  /\ UNCHANGED <<data, published, queue, job, retries, acks, seen, tables, result, fate>>

\* SoftTimeLimitExceeded, raised wherever the run is; late_soft is the one
\* that strikes after the commit, before the task has returned.
SoftTimeout(w) ==
  /\ \/ Fault("soft") /\ pc[w] \in {"load", "detect"}
     \/ Fault("late_soft") /\ pc[w] = "return"
  /\ Goto(w, "mark")
  /\ UNCHANGED <<data, published, queue, job, retries, acks, seen, tables, result, fate>>

\* _mark_version_error: session.get(version), ...
LoadMark(w) ==
  /\ pc[w] = "mark"
  /\ seen' = [seen EXCEPT ![w] = contamination[job[w]]]
  /\ Goto(w, "marking")
  /\ UNCHANGED <<data, published, queue, job, retries, acks, tables, result, fate, budget>>

\* ... then "error" and the commit, which writes the column only when the
\* session loaded another value.
Marked(w) == [contamination EXCEPT ![job[w]] = IF seen[w] = "error" THEN @ ELSE "error"]

\* Mutation of MarkError: the exception is not raised again.
MarkErrorSwallowed(w) ==
  /\ pc[w] = "marking"
  /\ contamination' = Marked(w)
  /\ Store(job[w], "SUCCESS")
  /\ Stop(w)
  /\ UNCHANGED <<data, published, queue, reports, fate, budget>>

\* The mark is committed; the task fails and its message is acknowledged.
MarkError(w) ==
  /\ pc[w] = "marking"
  /\ contamination' = Marked(w)
  /\ Store(job[w], "FAILURE")
  /\ Stop(w)
  /\ UNCHANGED <<data, published, queue, reports, fate, budget>>

\* Mutation of TransientError: every report is committed on its own.
TransientErrorAfterReport(w) ==
  /\ Fault("transient")
  /\ pc[w] = "detect"
  /\ \E c \in DOMAIN found[job[w]] : reports' = [reports EXCEPT ![job[w]][c] = 1]
  /\ Retry(w)
  /\ Stop(w)
  /\ UNCHANGED <<data, published, contamination>>

\* A transient error, also one that hides the success of the commit.
TransientError(w) ==
  /\ Fault("transient")
  /\ pc[w] \in {"load", "detect", "return"}
  /\ Retry(w)
  /\ Stop(w)
  /\ UNCHANGED <<data, published, tables>>

\* What a marking that fails may have written: an error of its commit may
\* hide that it succeeded.
MarkAttempts(w) == {contamination} \cup (IF pc[w] = "marking" THEN {Marked(w)} ELSE {})

\* _mark_version_error itself fails: with a connection error, which is
\* retried like any other, or with another error, which ends the task.
MarkFails(w) ==
  /\ Fault("mark")
  /\ pc[w] \in {"mark", "marking"}
  /\ contamination' \in MarkAttempts(w)
  /\ \/ Retry(w)
     \/ FailUnmarked(job[w]) /\ UNCHANGED queue
  /\ Stop(w)
  /\ UNCHANGED <<data, published, reports>>

\* A transient error whose retry cannot be published: Celery then rejects the
\* old message without requeueing it and reports nothing.
RetryRefused(w) ==
  /\ Fault("broker")
  /\ pc[w] # "idle"
  /\ retries[w] < MaxRetries
  /\ contamination' \in MarkAttempts(w)
  /\ Befalls(job[w], "dropped")
  /\ Stop(w)
  /\ UNCHANGED <<data, published, queue, reports, result>>

\* The hard time limit kills the process when the soft one has not ended the
\* run in time; Celery acknowledges the message of a timed out task.
HardTimeout(w) ==
  /\ Fault("hard")
  /\ pc[w] # "idle"
  /\ FailUnmarked(job[w])
  /\ Stop(w)
  /\ UNCHANGED <<data, published, queue, tables>>

\* Mutation of Requeue: task_reject_on_worker_lost is off.
DropMessage(w) == UNCHANGED queue

\* The broker takes back a message that was not acknowledged.
Requeue(w) == IF acks[w] THEN Enqueue(job[w], retries[w]) ELSE UNCHANGED queue

\* The worker process dies: its message is requeued.
WorkerLost(w) ==
  /\ Fault("lost")
  /\ pc[w] # "idle"
  /\ Requeue(w)
  /\ Stop(w)
  /\ UNCHANGED <<data, published, tables, result, fate>>

\* The broker connection drops: the unacknowledged message is restored while
\* the run goes on.
ConnectionLost(w) ==
  /\ Fault("duplicate")
  /\ pc[w] # "idle"
  /\ acks[w]
  /\ Requeue(w)
  /\ acks' = [acks EXCEPT ![w] = FALSE]
  /\ Befalls(job[w], "doubled")
  /\ UNCHANGED <<data, published, pc, job, retries, seen, tables, result>>
-----------------------------------------------------------------------------
DeliverAny == \E w \in Worker, j \in Job, n \in 0..MaxRetries : Deliver(w, j, n)

Proceed(w) ==
  \/ LoadInputs(w)
  \/ CommitReports(w)
  \/ Return(w)
  \/ FailOnArtifact(w)
  \/ LoadMark(w)
  \/ MarkError(w)

Misfortune(w) ==
  \/ FailPermanently(w)
  \/ SoftTimeout(w)
  \/ TransientError(w)
  \/ MarkFails(w)
  \/ RetryRefused(w)
  \/ HardTimeout(w)
  \/ WorkerLost(w)
  \/ ConnectionLost(w)

Next ==
  \/ \E j \in Job : Publish(j)
  \/ DeliverAny
  \/ \E w \in Worker : Proceed(w) \/ Misfortune(w)

Spec == Init /\ [][Next]_vars

Fairness == WF_vars(DeliverAny) /\ \A w \in Worker : WF_vars(Proceed(w))

FairSpec == Spec /\ Fairness
-----------------------------------------------------------------------------
\* contamination_engine.py:168: however often a job is delivered, retried or
\* run twice at once, there is at most one report per version and corpus, and
\* only for corpora the job was published with.
OneReportPerCorpus ==
  \A j \in Job, c \in Corpus : reports[j][c] <= IF c \in DOMAIN found[j] THEN 1 ELSE 0

\* contamination_engine.py:287: reports and verdict appear together.  However
\* runs of one job overlap or repeat, a version that shows a verdict has the
\* report of every corpus of its job and shows the worst of them, and a
\* version with a report is past "pending".
VerdictHasReports ==
  \A j \in Job :
    /\ contamination[j] \in Verdict =>
         /\ contamination[j] = Worst(found[j])
         /\ \A c \in DOMAIN found[j] : reports[j][c] > 0
    /\ contamination[j] = "pending" => \A c \in Corpus : reports[j][c] = 0

InFlight(j) ==
  \/ \E n \in 0..MaxRetries : queue[j][n] > 0
  \/ \E w \in Worker : job[w] = j

\* contamination.py:123, contamination_tasks.py:108-124: what a client polling
\* the job is told, against what the version shows, once no message and no run
\* of the job is left.  SUCCESS means that every report is there; and unless
\* the job was run twice at once, which lets a late failure mark what another
\* run has checked, that the version shows the verdict.  Any other answer means
\* that the version shows "error", unless the job was run twice or failed in a
\* way that leaves no mark: the hard time limit, a mark that fails, an error
\* after the last retry, a retry that the broker refuses.
ResultMatchesColumn ==
  \A j \in published : ~InFlight(j) =>
    /\ result[j] = "SUCCESS" =>
         /\ contamination[j] # "pending"
         /\ \A c \in DOMAIN found[j] : reports[j][c] > 0
         /\ contamination[j] \in Verdict \/ "doubled" \in fate[j]
    /\ result[j] # "SUCCESS" => contamination[j] = "error" \/ fate[j] # {}

\* Every published job leaves "pending" behind, or its client is told that it
\* failed, whatever goes wrong with its runs, as long as the broker takes its
\* retries.
EveryJobConcludes ==
  \A j \in Job :
    j \in published ~> \/ contamination[j] # "pending"
                       \/ result[j] = "FAILURE"
                       \/ "dropped" \in fate[j]

\* What the result backend promises the clients that poll it.
TaskResults == INSTANCE TaskResult

\* contamination.py:123 reads the state of a job that may be run twice at once,
\* or again after it failed: whatever the runs do, what they report is what
\* TaskResult promises, which is all that JobPolling assumes of a job.
ReportsLikeTaskResult == TaskResults!Spec
=============================================================================
