------------------------ MODULE SubmissionPipeline ------------------------
(***************************************************************************)
(* create_version and the contamination worker together.  The handler      *)
(* publishes one job per version after its commit (versions.py:248); the   *)
(* job's run reads the version's artifact from the object store and its    *)
(* row from the database (contamination_engine.py:207, 214), and writes    *)
(* the verdict back into the row.                                          *)
(*                                                                         *)
(* The worker is extended and the handlers are instantiated: the two meet  *)
(* in published, which is VersionSubmission's record of published jobs.  A *)
(* request's identity also names its job.                                  *)
(***************************************************************************)
EXTENDS ContaminationWorker, FiniteSets

CONSTANTS
  User, Admin, NoUser, NoRequest, Version, Defect,
  SubmitFaults  (* which parts of the handlers' environment may fail       *)

VARIABLES
  form, hpc, claims, draft, reply, lock, submitter, total, rows, events, blobs, mishap

Submission == INSTANCE VersionSubmission WITH
  Request <- Job, Faults <- SubmitFaults, WorkerEnabled <- TRUE,
  pc <- hpc, jobs <- published

ASSUME SubmissionAssumption ==
  /\ Submission!ConstantsAssumption
  /\ IsFiniteSet(Job)

handlerVars ==
  <<form, hpc, claims, draft, reply, lock, submitter, total, rows, events, blobs, mishap>>
checkerVars == <<data, queue, run, tables, result, fate, budget>>
pipelineVars == <<handlerVars, published, checkerVars>>

PipelineInit == Submission!Init /\ Init

\* A step of a handler; a job it publishes appears in the broker.
Submit ==
  /\ Submission!Next
  /\ \/ published' = published /\ UNCHANGED checkerVars
     \/ \E j \in Job : Publish(j)

Check ==
  /\ \/ DeliverAny
     \/ \E w \in Worker : Proceed(w) \/ Misfortune(w)
  /\ UNCHANGED <<handlerVars, published>>

PipelineNext == Submit \/ Check

PipelineSpec == PipelineInit /\ [][PipelineNext]_pipelineVars

\* A handler's own step, whatever it makes the broker do.
HandlerProceeds(r) == Submission!Proceed(r) /\ Submit

\* The fairness of the two components: handlers are resumed, messages are
\* delivered while a worker is free, runs go on.
FairPipelineSpec ==
  /\ PipelineSpec
  /\ \A r \in Job : WF_pipelineVars(HandlerProceeds(r))
  /\ WF_pipelineVars(DeliverAny /\ UNCHANGED <<handlerVars, published>>)
  /\ \A w \in Worker : WF_pipelineVars(Proceed(w) /\ UNCHANGED <<handlerVars, published>>)
-----------------------------------------------------------------------------
\* database.py: whoever holds the row lock of the benchmark lets go of it:
\* every handler that got past the fetch ends, also when the broker or the
\* database fails under it.
EveryHandlerEnds == Submission!EveryHandlerEnds

\* From the 201 response to the verdict: an acknowledged version is
\* eventually checked or marked as failed.
AcknowledgedIsChecked ==
  \A r \in Job :
    (hpc[r] = "done" /\ reply[r] = 201) ~> contamination[r] # "pending"
=============================================================================
