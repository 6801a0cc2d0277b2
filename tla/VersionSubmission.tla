------------------------- MODULE VersionSubmission -------------------------
(***************************************************************************)
(* Concurrent POST /benchmarks/{slug}/versions requests against one        *)
(* benchmark: backend/app/routers/versions.py create_version.              *)
(*                                                                         *)
(* Each request is a process whose steps are the handler's awaits: the     *)
(* fetch of the benchmark row, the SELECT for an existing version, the     *)
(* upload, the flush (UPDATE benchmarks, INSERT benchmark_versions), the   *)
(* commit, and the publication of the contamination job.  Between two      *)
(* steps every other request may run.                                      *)
(*                                                                         *)
(* Every request builds its own row and uploads under a uuid4 key, so the  *)
(* request's identity also names its row, its artifact and its job.        *)
(* Postgres (READ COMMITTED), the object store and the Celery broker are   *)
(* modelled by what the handler relies on.  lock is the row lock of the    *)
(* benchmark, held from the first UPDATE of a transaction to its end.      *)
(***************************************************************************)
EXTENDS Naturals, FiniteSets

CONSTANTS
  Request,        (* submissions in flight                                 *)
  User,           (* authenticated users                                   *)
  Admin,          (* the users with is_admin                               *)
  NoUser,         (* NULL in benchmarks.submitter_id                       *)
  NoRequest,      (* nobody holds the row lock                             *)
  Version,        (* version strings                                       *)
  Defect,         (* what may be malformed in a form, besides "none"       *)
  Faults,         (* which parts of the environment may fail               *)
  WorkerEnabled   (* settings.worker_enabled                               *)

AllDefects == {"semver", "file", "date", "metadata"}
AllFaults  == {"crash", "upload", "database", "commit_ack", "cleanup", "broker"}

ASSUME ConstantsAssumption ==
  /\ Admin \subseteq User
  /\ NoUser \notin User
  /\ NoRequest \notin Request
  /\ Defect \subseteq AllDefects
  /\ Faults \subseteq AllFaults
  /\ WorkerEnabled \in BOOLEAN

ASSUME FiniteRequests == IsFiniteSet(Request)

Form == [user : User, version : Version, defect : Defect \cup {"none"}]

VARIABLES
  form,       (* the form each client posts                                *)
  pc,         (* where each handler is                                     *)
  claims,     (* handlers that read submitter_id as NULL and set it        *)
  draft,      (* total_versions as each open transaction has written it    *)
  reply,      (* HTTP status raised or returned; 0 is none                 *)
  lock,       (* holder of the row lock on the benchmark                   *)
  submitter,  (* benchmarks.submitter_id                                   *)
  total,      (* benchmarks.total_versions                                 *)
  rows,       (* committed rows of benchmark_versions                      *)
  events,     (* rows with a committed version.created audit event         *)
  blobs,      (* artifacts in the object store                             *)
  jobs,       (* contamination jobs published                              *)
  mishap      (* history: the first failure a handler cannot make good     *)

handler  == <<pc, claims, draft, reply>>
database == <<submitter, total, rows, events>>
vars == <<form, handler, lock, database, blobs, jobs, mishap>>

Where  == {"fetch", "check", "upload", "build", "commit", "cleanup", "enqueue", "done"}
Reply == {0, 201, 400, 403, 409, 500}
Mishap == {"none", "upload", "commit_ack", "cleanup", "crash"}

TypeOK ==
  /\ form \in [Request -> Form]
  /\ pc \in [Request -> Where]
  /\ claims \subseteq Request
  /\ draft \in [Request -> Nat]
  /\ reply \in [Request -> Reply]
  /\ lock \in Request \cup {NoRequest}
  /\ submitter \in User \cup {NoUser}
  /\ total \in Nat
  /\ rows \subseteq Request
  /\ events \subseteq Request
  /\ blobs \subseteq Request
  /\ jobs \subseteq Request
  /\ mishap \in [Request -> Mishap]

\* The column is nullable: a benchmark may have an owner or be unclaimed.
Init ==
  /\ form \in [Request -> Form]
  /\ pc = [r \in Request |-> "fetch"]
  /\ claims = {}
  /\ draft = [r \in Request |-> 0]
  /\ reply = [r \in Request |-> 0]
  /\ lock = NoRequest
  /\ submitter \in User \cup {NoUser}
  /\ total = 0
  /\ rows = {}
  /\ events = {}
  /\ blobs = {}
  /\ jobs = {}
  /\ mishap = [r \in Request |-> "none"]
-----------------------------------------------------------------------------
\* Mutation of Taken: the SELECT forgets the version string.
AnyTaken(r) == rows # {}

\* A committed row of this benchmark already carries r's version string.
Taken(r) == \E s \in rows : form[s].version = form[r].version

\* Mutation of UniqueViolation: the table has no unique constraint.
Unconstrained(r) == FALSE

\* The unique constraint on (benchmark_id, version) refuses the INSERT.
UniqueViolation(r) == Taken(r)

\* Mutation of RowIsFree: the handler adds one to the counter it has read.
ReadModifyWrite(r) == TRUE

\* An UPDATE of the benchmark row waits while another transaction holds it.
RowIsFree(r) == lock \in {NoRequest, r}

\* Mutation of NextTotal: the sign is wrong.
Decremented == total - 1

\* SQL: total_versions + 1.
NextTotal == total + 1

\* Mutation of OwnerAfter: the claim forgets that it is conditional.
LastSubmitter(r) == form[r].user

\* The owner once r's transaction has committed.
OwnerAfter(r) == IF r \in claims THEN form[r].user ELSE submitter

\* Mutation of AuditVersion: no event is added to the session.
Unaudited(r) == UNCHANGED events

\* record_audit_event: part of the handler's own transaction.
AuditVersion(r) == events' = events \cup {r}

\* Mutation of InTry: the try block also covers the publication.
TryCoversPublication(r) == pc[r] \in {"build", "commit", "enqueue"}

\* The statements whose failure leads to the cleanup.
InTry(r) == pc[r] = "commit" \/ (pc[r] = "build" /\ form[r].defect = "none")

Goto(r, to) == pc' = [pc EXCEPT ![r] = to]

\* Mutation of Release: the session is never closed.
KeepLock(r) == UNCHANGED lock

\* The exception or the response leaves the handler: the session closes,
\* which rolls back whatever its transaction still holds.
Release(r) == lock' = IF lock = r THEN NoRequest ELSE lock

Finish(r, code) ==
  /\ Goto(r, "done")
  /\ reply' = [reply EXCEPT ![r] = code]
  /\ Release(r)
  /\ UNCHANGED <<form, claims, draft>>

\* Mutation of Fail: the exception passes without a cleanup.
FailUncleaned(r, code) ==
  /\ Goto(r, "done")
  /\ reply' = [reply EXCEPT ![r] = code]
  /\ UNCHANGED <<form, claims, draft>>

\* An exception inside the try block: the artifact is still to be deleted.
Fail(r, code) ==
  /\ Goto(r, "cleanup")
  /\ reply' = [reply EXCEPT ![r] = code]
  /\ UNCHANGED <<form, claims, draft>>

\* History: what no code of the handler can make good later.
Suffers(r, what) == mishap' = [mishap EXCEPT ![r] = IF @ = "none" THEN what ELSE @]
-----------------------------------------------------------------------------
MaySubmit(u) == submitter = NoUser \/ submitter = u \/ u \in Admin

\* _fetch_benchmark, the ownership rule and validate_semver.  The claim of
\* an unclaimed benchmark is in memory only.
FetchBenchmark(r) ==
  /\ pc[r] = "fetch"
  /\ \/ /\ ~MaySubmit(form[r].user)
        /\ Finish(r, 403)
     \/ /\ MaySubmit(form[r].user)
        /\ form[r].defect = "semver"
        /\ Finish(r, 400)
     \/ /\ MaySubmit(form[r].user)
        /\ form[r].defect # "semver"
        /\ claims' = IF submitter = NoUser THEN claims \cup {r} ELSE claims
        /\ Goto(r, "check")
        /\ UNCHANGED <<form, draft, reply, lock>>
  /\ UNCHANGED <<database, blobs, jobs, mishap>>

\* SELECT of an existing version.  A pending claim is autoflushed before it:
\* the UPDATE waits for the row lock and then holds it.
CheckExisting(r) ==
  /\ pc[r] = "check"
  /\ r \in claims => RowIsFree(r)
  /\ \/ /\ Taken(r)
        /\ Finish(r, 409)
     \/ /\ ~Taken(r)
        /\ Goto(r, "upload")
        /\ lock' = IF r \in claims THEN r ELSE lock
        /\ UNCHANGED <<form, claims, draft, reply>>
  /\ UNCHANGED <<database, blobs, jobs, mishap>>

\* validate_upload_file, then upload_upload_file.
StoreArtifact(r) ==
  /\ pc[r] = "upload"
  /\ \/ /\ form[r].defect = "file"
        /\ Finish(r, 400)
        /\ UNCHANGED blobs
     \/ /\ form[r].defect # "file"
        /\ blobs' = blobs \cup {r}
        /\ Goto(r, "build")
        /\ UNCHANGED <<form, claims, draft, reply, lock>>
  /\ UNCHANGED <<database, jobs, mishap>>

\* The upload raises; a local backend may leave a partial file behind.
UploadFails(r) ==
  /\ "upload" \in Faults
  /\ pc[r] = "upload"
  /\ form[r].defect # "file"
  /\ blobs' \in {blobs, blobs \cup {r}}
  /\ Finish(r, 500)
  /\ Suffers(r, "upload")
  /\ UNCHANGED <<database, jobs>>

\* released_at is parsed after the upload and before the try block, so the
\* 400 leaves the handler without deleting the artifact.
RejectReleaseDate(r) ==
  /\ pc[r] = "build"
  /\ form[r].defect = "date"
  /\ Finish(r, 400)
  /\ UNCHANGED <<database, blobs, jobs, mishap>>

\* The JSON fields are parsed inside the try block.
RejectMetadata(r) ==
  /\ pc[r] = "build"
  /\ form[r].defect = "metadata"
  /\ Fail(r, 400)
  /\ UNCHANGED <<lock, database, blobs, jobs, mishap>>

\* Mutation of FlushVersion: the job is published before the commit.
FlushAndPublish(r) ==
  /\ pc[r] = "build"
  /\ form[r].defect = "none"
  /\ RowIsFree(r)
  /\ ~UniqueViolation(r)
  /\ lock' = r
  /\ draft' = [draft EXCEPT ![r] = NextTotal]
  /\ jobs' = jobs \cup {r}
  /\ Goto(r, "commit")
  /\ UNCHANGED <<form, claims, reply, database, blobs, mishap>>

\* flush: UPDATE benchmarks SET total_versions = total_versions + 1 (taking
\* the row lock), then INSERT, which the unique constraint may refuse.
FlushVersion(r) ==
  /\ pc[r] = "build"
  /\ form[r].defect = "none"
  /\ RowIsFree(r)
  /\ \/ /\ UniqueViolation(r)
        /\ Fail(r, 409)
        /\ lock' = NoRequest
     \/ /\ ~UniqueViolation(r)
        /\ lock' = r
        /\ draft' = [draft EXCEPT ![r] = NextTotal]
        /\ Goto(r, "commit")
        /\ UNCHANGED <<form, claims, reply>>
  /\ UNCHANGED <<database, blobs, jobs, mishap>>

\* The durable effect of COMMIT: the row, the counter, the claim and the
\* audit event become visible together and the row lock is released.
Apply(r) ==
  /\ rows' = rows \cup {r}
  /\ total' = draft[r]
  /\ submitter' = OwnerAfter(r)
  /\ AuditVersion(r)
  /\ lock' = NoRequest

Commit(r) ==
  /\ pc[r] = "commit"
  /\ Apply(r)
  /\ Goto(r, "enqueue")
  /\ UNCHANGED <<form, claims, draft, reply, blobs, jobs, mishap>>

\* The server commits but the connection breaks before the reply, so the
\* handler sees an exception.
CommitAckLost(r) ==
  /\ "commit_ack" \in Faults
  /\ pc[r] = "commit"
  /\ Apply(r)
  /\ Fail(r, 500)
  /\ Suffers(r, "commit_ack")
  /\ UNCHANGED <<blobs, jobs>>

\* storage_service.delete, then the original exception is raised again.
DeleteArtifact(r) ==
  /\ pc[r] = "cleanup"
  /\ blobs' = blobs \ {r}
  /\ Finish(r, reply[r])
  /\ UNCHANGED <<database, jobs, mishap>>

\* A failure of the delete is logged and swallowed.
DeleteFails(r) ==
  /\ "cleanup" \in Faults
  /\ pc[r] = "cleanup"
  /\ Finish(r, reply[r])
  /\ Suffers(r, "cleanup")
  /\ UNCHANGED <<database, blobs, jobs>>

\* refresh, the SELECT of active corpora, run_contamination_check.delay and
\* the 201 response.
PublishJob(r) ==
  /\ pc[r] = "enqueue"
  /\ jobs' = IF WorkerEnabled THEN jobs \cup {r} ELSE jobs
  /\ Finish(r, 201)
  /\ UNCHANGED <<database, blobs, mishap>>

\* Mutation of BrokerFails: the failure is swallowed.
BrokerFailsSilently(r) ==
  /\ "broker" \in Faults
  /\ WorkerEnabled
  /\ pc[r] = "enqueue"
  /\ Finish(r, 201)
  /\ UNCHANGED <<database, blobs, jobs, mishap>>

\* delay raises; the broker may or may not have kept the message.
BrokerFails(r) ==
  /\ "broker" \in Faults
  /\ WorkerEnabled
  /\ pc[r] = "enqueue"
  /\ jobs' \in {jobs, jobs \cup {r}}
  /\ Finish(r, 500)
  /\ UNCHANGED <<database, blobs, mishap>>

\* A statement raises: before the upload nothing is left to undo, inside the
\* try block the transaction is rolled back, after the commit nobody undoes
\* the version.
DatabaseFails(r) ==
  /\ "database" \in Faults
  /\ \/ /\ pc[r] \in {"fetch", "check", "enqueue"}
        /\ Finish(r, 500)
     \/ /\ InTry(r)
        /\ Fail(r, 500)
        /\ Release(r)
  /\ UNCHANGED <<database, blobs, jobs, mishap>>

\* The API process dies; Postgres aborts the open transaction.
Crash(r) ==
  /\ "crash" \in Faults
  /\ pc[r] # "done"
  /\ blobs' \in IF pc[r] = "upload" THEN {blobs, blobs \cup {r}} ELSE {blobs}
  /\ Finish(r, 0)
  /\ Suffers(r, "crash")
  /\ UNCHANGED <<database, jobs>>
-----------------------------------------------------------------------------
\* What the handler does when nothing around it fails.
Proceed(r) ==
  \/ CheckExisting(r)
  \/ StoreArtifact(r)
  \/ RejectReleaseDate(r)
  \/ RejectMetadata(r)
  \/ FlushVersion(r)
  \/ Commit(r)
  \/ DeleteArtifact(r)
  \/ PublishJob(r)

EnvironmentFails(r) ==
  \/ UploadFails(r)
  \/ CommitAckLost(r)
  \/ DeleteFails(r)
  \/ BrokerFails(r)
  \/ DatabaseFails(r)
  \/ Crash(r)

Next == \E r \in Request : FetchBenchmark(r) \/ Proceed(r) \/ EnvironmentFails(r)

Spec == Init /\ [][Next]_vars

\* The event loop resumes every handler whose await has completed; a request
\* need never arrive and nothing has to fail.
FairSpec == Spec /\ \A r \in Request : WF_vars(Proceed(r))
-----------------------------------------------------------------------------
\* versions.py:196: the counter is incremented by the database under the row
\* lock, so however submissions interleave, fail or crash, total_versions is
\* the number of version rows.
CounterExact == total = Cardinality(rows)

\* versions.py:146 only checks before the upload; two racing submissions of
\* one version string still leave at most one row.
OneRowPerVersion ==
  \A r, s \in rows : form[r].version = form[s].version => r = s

\* versions.py:141: a benchmark that somebody found unclaimed stays unclaimed
\* until a claimant's version is committed, and then belongs to such a
\* claimant: a rejected or failed submission takes no ownership.
Claimants == rows \cap claims

ClaimNeedsVersion ==
  claims # {} =>
    IF Claimants = {} THEN submitter = NoUser
                      ELSE submitter \in {form[s].user : s \in Claimants}

\* What the client is told is what happened: 201 means the version is
\* registered and its contamination job published, a 4xx that it is not
\* registered, and a 409 that another submission holds the version string.
VerdictIsTrue ==
  \A r \in Request : pc[r] = "done" =>
    /\ reply[r] = 201 => r \in rows /\ (WorkerEnabled => r \in jobs)
    /\ reply[r] \in {400, 403, 409} => r \notin rows
    /\ reply[r] = 409 => \E s \in rows \ {r} : form[s].version = form[r].version

\* versions.py:248: a job is published only for a version that is committed,
\* so a worker never looks up a row that is not there yet.
JobsHaveRows == jobs \subseteq rows

\* versions.py:212: the cleanup deletes only what has no row.  Whatever else
\* fails, the artifact of a registered version stays, before and after the
\* handler ends, unless the reply to its own COMMIT was lost: then the handler
\* takes the commit for a failure and deletes the artifact of its row.
Unknowing(r) == mishap[r] = "commit_ack"

RowsHaveArtifacts == \A r \in rows : r \in blobs \/ Unknowing(r)

\* versions.py:212: "Roll back the orphaned artifact so storage does not
\* drift from the DB".  However submissions race and statements fail, a
\* handler that has ended leaves an artifact exactly when it leaves a row.
\* The sentence does not hold of every ending, and the exceptions are these:
\* a malformed release date, which is refused after the upload and outside
\* the try block (versions.py:163-171), and what mishap names: an upload that
\* fails midway, a commit whose reply is lost, a delete that fails, a crash.
StorageMatchesDb ==
  \A r \in Request :
    pc[r] = "done" /\ mishap[r] = "none" /\ form[r].defect # "date"
    => (r \in blobs <=> r \in rows)

\* versions.py:144: "Only the benchmark owner can submit new versions".
OnlyOwnerSubmits ==
  \A r \in rows : form[r].user = submitter \/ form[r].user \in Admin

\* Whoever holds the row lock lets go of it: every handler that got past the
\* fetch eventually ends, however many wait for the benchmark row.
EveryHandlerEnds ==
  \A r \in Request : pc[r] # "fetch" ~> pc[r] = "done"

\* The handlers, step by step, implement the indivisible registration.
Registry == INSTANCE VersionRegistry WITH
  Entry   <- Request,
  catalog <- {[id |-> r, version |-> form[r].version] : r \in rows}

ImplementsRegistry == Registry!Spec
=============================================================================
