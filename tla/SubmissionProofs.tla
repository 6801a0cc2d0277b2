-------------------------- MODULE SubmissionProofs --------------------------
(***************************************************************************)
(* Proofs about VersionSubmission, and about ArtifactReconciliation, which *)
(* runs the operations scripts beside it: for any number of submissions,   *)
(* users and versions, and any choice of what may fail.  In this order:    *)
(*   - the catalogue, which the row lock protects;                         *)
(*   - the registry that the handlers implement;                           *)
(*   - the owner that a claim leaves behind;                               *)
(*   - the answer and the job of every submission;                         *)
(*   - the object store beside the database;                               *)
(*   - check_artifacts, the backup and the drill beside the handlers.      *)
(***************************************************************************)
EXTENDS ArtifactReconciliation, TLAPS, FiniteSetTheorems

\* A handler that has not committed has no row.
NoEarlyRow ==
  \A r \in Request :
    pc[r] \in {"fetch", "check", "upload", "build", "commit"} => r \notin rows

\* The one open transaction between flush and commit owns the benchmark row,
\* so the counter it has written is still one ahead and its version is free.
FlushedOwnsLock ==
  \A r \in Request : pc[r] = "commit" =>
    /\ lock = r
    /\ draft[r] = total + 1
    /\ ~Taken(r)

CatalogInv ==
  /\ TypeOK
  /\ NoEarlyRow
  /\ FlushedOwnsLock
  /\ OneRowPerVersion
  /\ CounterExact

USE DEF Where, Reply, Mishap, handler, database, OwnerAfter, AuditVersion, InTry

LEMMA TypeInit == Init => TypeOK
  BY ConstantsAssumption DEF Init, TypeOK

LEMMA TypeStep == TypeOK /\ [Next]_vars => TypeOK'
<1> SUFFICES ASSUME TypeOK, [Next]_vars PROVE TypeOK'
  OBVIOUS
<1> USE ConstantsAssumption DEF TypeOK
<1>1. CASE UNCHANGED vars
  BY <1>1 DEF vars
<1>2. ASSUME NEW r \in Request, FetchBenchmark(r) PROVE TypeOK'
  BY <1>2 DEF FetchBenchmark, Finish, Goto, Release
<1>3. ASSUME NEW r \in Request, CheckExisting(r) PROVE TypeOK'
  BY <1>3 DEF CheckExisting, Finish, Goto, Release
<1>4. ASSUME NEW r \in Request, StoreArtifact(r) PROVE TypeOK'
  BY <1>4 DEF StoreArtifact, Finish, Goto, Release
<1>5. ASSUME NEW r \in Request, RejectReleaseDate(r) PROVE TypeOK'
  BY <1>5 DEF RejectReleaseDate, Finish, Goto, Release
<1>6. ASSUME NEW r \in Request, RejectMetadata(r) PROVE TypeOK'
  BY <1>6 DEF RejectMetadata, Fail, Goto
<1>7. ASSUME NEW r \in Request, FlushVersion(r) PROVE TypeOK'
  BY <1>7 DEF FlushVersion, UniqueViolation, RowIsFree, NextTotal, Fail, Goto
<1>8. ASSUME NEW r \in Request, Commit(r) PROVE TypeOK'
  BY <1>8 DEF Commit, Apply, Goto, Form
<1>9. ASSUME NEW r \in Request, DeleteArtifact(r) PROVE TypeOK'
  BY <1>9 DEF DeleteArtifact, Finish, Goto, Release
<1>10. ASSUME NEW r \in Request, PublishJob(r) PROVE TypeOK'
  BY <1>10 DEF PublishJob, Finish, Goto, Release
<1>11. ASSUME NEW r \in Request, UploadFails(r) PROVE TypeOK'
  BY <1>11 DEF UploadFails, Finish, Goto, Release, Suffers
<1>12. ASSUME NEW r \in Request, CommitAckLost(r) PROVE TypeOK'
  BY <1>12 DEF CommitAckLost, Apply, Fail, Goto, Form, Suffers
<1>13. ASSUME NEW r \in Request, DeleteFails(r) PROVE TypeOK'
  BY <1>13 DEF DeleteFails, Finish, Goto, Release, Suffers
<1>14. ASSUME NEW r \in Request, BrokerFails(r) PROVE TypeOK'
  BY <1>14 DEF BrokerFails, Finish, Goto, Release
<1>15. ASSUME NEW r \in Request, DatabaseFails(r) PROVE TypeOK'
  BY <1>15 DEF DatabaseFails, Finish, Fail, Goto, Release
<1>16. ASSUME NEW r \in Request, Crash(r) PROVE TypeOK'
  BY <1>16 DEF Crash, Finish, Goto, Release, Suffers
<1>17. QED
  BY <1>1, <1>2, <1>3, <1>4, <1>5, <1>6, <1>7, <1>8, <1>9, <1>10, <1>11, <1>12,
     <1>13, <1>14, <1>15, <1>16 DEF Next, Proceed, EnvironmentFails

\* Every variable keeps its type, in every behaviour of the handlers.
THEOREM TypeCorrect == Spec => []TypeOK
  BY TypeInit, TypeStep, PTL DEF Spec

LEMMA CatalogInit == Init => CatalogInv
<1> SUFFICES ASSUME Init PROVE CatalogInv
  OBVIOUS
<1>1. CounterExact
  BY FS_EmptySet DEF Init, CounterExact
<1>2. QED
  BY <1>1, TypeInit DEF Init, CatalogInv, NoEarlyRow, FlushedOwnsLock, OneRowPerVersion

\* A handler that moves on without touching the database, without reaching
\* its commit and without taking the lock from another handler.
LEMMA QuietStep ==
  ASSUME CatalogInv, TypeOK', NEW r \in Request, NEW to \in Where \ {"commit"},
         Goto(r, to),
         to \in {"fetch", "check", "upload", "build"} => r \notin rows,
         \A s \in Request \ {r} : lock = s => lock' = s,
         UNCHANGED <<form, draft, database>>
  PROVE  CatalogInv'
<1> USE DEF CatalogInv, TypeOK, Goto
<1>1. NoEarlyRow'
  BY DEF NoEarlyRow
<1>2. FlushedOwnsLock'
  BY ConstantsAssumption DEF FlushedOwnsLock, Taken
<1>3. OneRowPerVersion' /\ CounterExact'
  BY DEF OneRowPerVersion, CounterExact
<1>4. QED
  BY <1>1, <1>2, <1>3

\* In particular a handler that ends, or that turns to its cleanup.
LEMMA FinishStep ==
  ASSUME CatalogInv, TypeOK', NEW r \in Request, NEW code, Finish(r, code),
         UNCHANGED database
  PROVE  CatalogInv'
<1>1. Goto(r, "done") /\ UNCHANGED <<form, draft, database>>
  BY DEF Finish
<1>2. \A s \in Request \ {r} : lock = s => lock' = s
  BY DEF Finish, Release
<1>3. QED
  BY <1>1, <1>2, QuietStep

LEMMA FailStep ==
  ASSUME CatalogInv, TypeOK', NEW r \in Request, NEW code, Fail(r, code),
         Release(r) \/ UNCHANGED lock,
         UNCHANGED database
  PROVE  CatalogInv'
<1>1. Goto(r, "cleanup") /\ UNCHANGED <<form, draft, database>>
  BY DEF Fail
<1>2. \A s \in Request \ {r} : lock = s => lock' = s
  BY DEF Release
<1>3. QED
  BY <1>1, <1>2, QuietStep

\* The durable effect of a commit keeps the invariant, whether or not the
\* handler learns of it.
LEMMA ApplyStep ==
  ASSUME CatalogInv, TypeOK', NEW r \in Request,
         pc[r] = "commit", Apply(r),
         NEW to \in {"enqueue", "cleanup"}, Goto(r, to),
         UNCHANGED <<form, draft>>
  PROVE  CatalogInv'
<1> USE DEF CatalogInv, TypeOK, Apply
<1>1. lock = r /\ draft[r] = total + 1 /\ ~Taken(r) /\ r \notin rows
  BY DEF FlushedOwnsLock, NoEarlyRow
<1>2. NoEarlyRow'
  BY DEF NoEarlyRow, Goto
<1>3. FlushedOwnsLock'
  BY <1>1 DEF FlushedOwnsLock, Goto
<1>4. OneRowPerVersion'
  BY <1>1 DEF OneRowPerVersion, Taken
<1>5. CounterExact'
  <2>1. IsFiniteSet(rows)
    BY FiniteRequests, FS_Subset
  <2>2. Cardinality(rows \cup {r}) = Cardinality(rows) + 1
    BY <1>1, <2>1, FS_AddElement, ZenonT(30)
  <2>3. QED
    BY <1>1, <2>2 DEF CounterExact
<1>6. QED
  BY <1>2, <1>3, <1>4, <1>5

LEMMA CatalogStep == CatalogInv /\ [Next]_vars => CatalogInv'
<1> SUFFICES ASSUME CatalogInv, [Next]_vars PROVE CatalogInv'
  OBVIOUS
<1>t. TypeOK /\ TypeOK'
  BY TypeStep DEF CatalogInv
<1> USE ConstantsAssumption
<1>1. CASE UNCHANGED vars
  BY <1>1, <1>t DEF vars, CatalogInv, NoEarlyRow, FlushedOwnsLock, Taken, OneRowPerVersion, CounterExact
<1>2. ASSUME NEW r \in Request, FetchBenchmark(r) PROVE CatalogInv'
  <2>1. CASE \E code \in {400, 403} : Finish(r, code)
    BY <1>2, <1>t, <2>1, FinishStep DEF FetchBenchmark
  <2>2. CASE Goto(r, "check") /\ UNCHANGED <<form, draft, lock>>
    <3>1. r \notin rows
      BY <1>2 DEF FetchBenchmark, CatalogInv, NoEarlyRow
    <3>2. QED
      BY <1>2, <1>t, <2>2, <3>1, QuietStep DEF FetchBenchmark
  <2>3. QED
    BY <1>2, <2>1, <2>2 DEF FetchBenchmark
<1>3. ASSUME NEW r \in Request, CheckExisting(r) PROVE CatalogInv'
  <2>1. CASE Finish(r, 409)
    BY <1>3, <1>t, <2>1, FinishStep DEF CheckExisting
  <2>2. CASE Goto(r, "upload") /\ lock' = (IF r \in claims THEN r ELSE lock) /\ UNCHANGED <<form, draft>>
    <3>1. r \notin rows
      BY <1>3 DEF CheckExisting, CatalogInv, NoEarlyRow
    <3>2. \A s \in Request \ {r} : lock = s => lock' = s
      BY <1>3, <2>2 DEF CheckExisting, RowIsFree
    <3>3. QED
      BY <1>3, <1>t, <2>2, <3>1, <3>2, QuietStep DEF CheckExisting
  <2>3. QED
    BY <1>3, <2>1, <2>2 DEF CheckExisting
<1>4. ASSUME NEW r \in Request, StoreArtifact(r) PROVE CatalogInv'
  <2>1. CASE Finish(r, 400)
    BY <1>4, <1>t, <2>1, FinishStep DEF StoreArtifact
  <2>2. CASE Goto(r, "build") /\ UNCHANGED <<form, draft, lock>>
    <3>1. r \notin rows
      BY <1>4 DEF StoreArtifact, CatalogInv, NoEarlyRow
    <3>2. QED
      BY <1>4, <1>t, <2>2, <3>1, QuietStep DEF StoreArtifact
  <2>3. QED
    BY <1>4, <2>1, <2>2 DEF StoreArtifact
<1>5. ASSUME NEW r \in Request, RejectReleaseDate(r) PROVE CatalogInv'
  BY <1>5, <1>t, FinishStep DEF RejectReleaseDate
<1>6. ASSUME NEW r \in Request, RejectMetadata(r) PROVE CatalogInv'
  BY <1>6, <1>t, FailStep DEF RejectMetadata
<1>7. ASSUME NEW r \in Request, FlushVersion(r) PROVE CatalogInv'
  <2>1. CASE Taken(r)
    BY <1>7, <1>t, <2>1 DEF FlushVersion, UniqueViolation, RowIsFree, NextTotal, Fail, Goto, CatalogInv, TypeOK, NoEarlyRow,
       FlushedOwnsLock, Taken, OneRowPerVersion, CounterExact
  <2>2. CASE ~Taken(r)
    BY <1>7, <1>t, <2>2 DEF FlushVersion, UniqueViolation, RowIsFree, NextTotal, Goto, CatalogInv, TypeOK, NoEarlyRow,
       FlushedOwnsLock, Taken, OneRowPerVersion, CounterExact
  <2>3. QED
    BY <2>1, <2>2
<1>8. ASSUME NEW r \in Request, Commit(r) PROVE CatalogInv'
  BY <1>8, <1>t, ApplyStep DEF Commit
<1>9. ASSUME NEW r \in Request, DeleteArtifact(r) PROVE CatalogInv'
  BY <1>9, <1>t, FinishStep DEF DeleteArtifact
<1>10. ASSUME NEW r \in Request, PublishJob(r) PROVE CatalogInv'
  BY <1>10, <1>t, FinishStep DEF PublishJob
<1>11. ASSUME NEW r \in Request, UploadFails(r) PROVE CatalogInv'
  BY <1>11, <1>t, FinishStep DEF UploadFails
<1>12. ASSUME NEW r \in Request, CommitAckLost(r) PROVE CatalogInv'
  BY <1>12, <1>t, ApplyStep DEF CommitAckLost, Fail
<1>13. ASSUME NEW r \in Request, DeleteFails(r) PROVE CatalogInv'
  BY <1>13, <1>t, FinishStep DEF DeleteFails
<1>14. ASSUME NEW r \in Request, BrokerFails(r) PROVE CatalogInv'
  BY <1>14, <1>t, FinishStep DEF BrokerFails
<1>15. ASSUME NEW r \in Request, DatabaseFails(r) PROVE CatalogInv'
  BY <1>15, <1>t, FinishStep, FailStep DEF DatabaseFails
<1>16. ASSUME NEW r \in Request, Crash(r) PROVE CatalogInv'
  BY <1>16, <1>t, FinishStep DEF Crash
<1>17. QED
  BY <1>1, <1>2, <1>3, <1>4, <1>5, <1>6, <1>7, <1>8, <1>9, <1>10, <1>11, <1>12,
     <1>13, <1>14, <1>15, <1>16 DEF Next, Proceed, EnvironmentFails

THEOREM Catalog == Spec => []CatalogInv
  BY CatalogInit, CatalogStep, PTL DEF Spec

\* versions.py:196: total_versions is the number of version rows.
THEOREM CounterIsExact == Spec => []CounterExact
  BY Catalog, PTL DEF CatalogInv

\* models/version.py:23: racing submissions leave one row per version.
THEOREM VersionsAreUnique == Spec => []OneRowPerVersion
  BY Catalog, PTL DEF CatalogInv
-----------------------------------------------------------------------------
(* The registry that the interleaved handlers implement: every step of a   *)
(* handler registers one version or leaves the registry as it was.         *)

\* An empty table is an empty catalogue.
LEMMA RegistryInit == Init => Registry!Init
  BY DEF Init, Registry!Init

\* A step that leaves the database alone leaves the catalogue alone.
LEMMA UnchangedRegistry ==
  ASSUME UNCHANGED <<form, database>>
  PROVE  UNCHANGED Registry!vars
  BY DEF Registry!vars, database

\* A commit is the registration of its own entry.
LEMMA ApplyRegisters ==
  ASSUME CatalogInv, NEW r \in Request,
         pc[r] = "commit", Apply(r), UNCHANGED form
  PROVE  Registry!Next
<1>1. ~Taken(r) /\ r \notin rows /\ draft[r] = total + 1
  BY DEF CatalogInv, FlushedOwnsLock, NoEarlyRow
<1>2. form[r].version \in Version
  BY DEF CatalogInv, TypeOK, Form
<1>3. Registry!Register(r, form[r].version)
  <2> DEFINE Entry(s) == [id |-> s, version |-> form[s].version]
  <2>1. \A s \in rows : Entry(s).id # r /\ Entry(s).version # form[r].version
    BY <1>1 DEF Taken
  <2>2. {Entry(s) : s \in rows \cup {r}} = {Entry(s) : s \in rows} \cup {Entry(r)}
    OBVIOUS
  <2>3. QED
    BY <1>1, <2>1, <2>2 DEF Apply, AuditVersion, Registry!Register
<1>4. QED
  BY <1>2, <1>3 DEF Registry!Next, Registry!Register

\* Every other step of a handler leaves the form and the database alone.
LEMMA StepOfRegistry ==
  ASSUME CatalogInv, [Next]_vars
  PROVE  [Registry!Next]_(Registry!vars)
<1>1. CASE UNCHANGED vars
  BY <1>1, UnchangedRegistry DEF vars
<1>2. CASE \E r \in Request : pc[r] = "commit" /\ Apply(r) /\ UNCHANGED form
  BY <1>2, ApplyRegisters
<1>3. CASE UNCHANGED <<form, database>>
  BY <1>3, UnchangedRegistry
<1>4. ASSUME NEW r \in Request, FetchBenchmark(r) \/ Proceed(r) \/ EnvironmentFails(r)
      PROVE  \/ pc[r] = "commit" /\ Apply(r) /\ UNCHANGED form
             \/ UNCHANGED <<form, database>>
  <2>1. CASE Commit(r) \/ CommitAckLost(r)
    BY <2>1 DEF Commit, CommitAckLost, Fail
  <2>2. CASE \/ FetchBenchmark(r) \/ CheckExisting(r) \/ StoreArtifact(r)
             \/ RejectReleaseDate(r) \/ RejectMetadata(r) \/ FlushVersion(r)
    BY <2>2 DEF FetchBenchmark, CheckExisting, StoreArtifact, RejectReleaseDate,
       RejectMetadata, FlushVersion, Finish, Fail
  <2>3. CASE \/ DeleteArtifact(r) \/ PublishJob(r) \/ UploadFails(r) \/ DeleteFails(r)
             \/ BrokerFails(r) \/ DatabaseFails(r) \/ Crash(r)
    BY <2>3 DEF DeleteArtifact, PublishJob, UploadFails, DeleteFails, BrokerFails,
       DatabaseFails, Crash, Finish, Fail
  <2>4. QED
    BY <1>4, <2>1, <2>2, <2>3 DEF Proceed, EnvironmentFails
<1>5. QED
  BY <1>1, <1>2, <1>3, <1>4 DEF Next

\* versions.py:174-210: one commit publishes the row, the counter and the
\* audit event, so the concurrent handlers implement VersionRegistry.
THEOREM Refinement == Spec => ImplementsRegistry
<1>1. CatalogInv /\ [Next]_vars => [Registry!Next]_(Registry!vars)
  BY StepOfRegistry
<1>2. QED
  BY <1>1, RegistryInit, Catalog, PTL DEF Spec, ImplementsRegistry, Registry!Spec
-----------------------------------------------------------------------------
(* The claim of an unclaimed benchmark.                                    *)

\* A step without a commit adds at most a claim, by a handler that has just
\* read the owner as NULL and has no row.
LEMMA ClaimQuiet ==
  ASSUME TypeOK, NoEarlyRow, ClaimNeedsVersion, UNCHANGED <<form, database>>,
         \/ UNCHANGED claims
         \/ \E r \in Request : pc[r] = "fetch" /\ submitter = NoUser /\ claims' = claims \cup {r}
  PROVE  ClaimNeedsVersion'
<1>1. CASE UNCHANGED claims
  BY <1>1 DEF ClaimNeedsVersion, Claimants
<1>2. CASE \E r \in Request : pc[r] = "fetch" /\ submitter = NoUser /\ claims' = claims \cup {r}
  <2>1. PICK r \in Request : pc[r] = "fetch" /\ submitter = NoUser /\ claims' = claims \cup {r}
    BY <1>2
  <2>2. Claimants' = Claimants
    BY <2>1 DEF NoEarlyRow, Claimants
  <2>3. \A s \in Claimants : form[s].user # NoUser
    BY ConstantsAssumption DEF TypeOK, Form, Claimants
  <2>4. Claimants = {}
    <3>1. SUFFICES ASSUME NEW s \in Claimants PROVE FALSE
      OBVIOUS
    <3>2. submitter \in {form[t].user : t \in Claimants}
      BY <3>1 DEF ClaimNeedsVersion, Claimants
    <3>3. QED
      BY <2>1, <2>3, <3>2
  <2>5. QED
    BY <2>1, <2>2, <2>4 DEF ClaimNeedsVersion
<1>3. QED
  BY <1>1, <1>2

\* A commit by a claimant makes its user the owner, any other leaves both.
LEMMA ClaimApply ==
  ASSUME ClaimNeedsVersion, NEW r \in Request, Apply(r), UNCHANGED <<form, claims>>
  PROVE  ClaimNeedsVersion'
<1>1. CASE r \in claims
  <2>1. submitter' = form[r].user /\ r \in Claimants'
    BY <1>1 DEF Apply, Claimants
  <2>2. QED
    BY <2>1 DEF ClaimNeedsVersion
<1>2. CASE r \notin claims
  <2>1. submitter' = submitter /\ Claimants' = Claimants
    BY <1>2 DEF Apply, Claimants
  <2>2. QED
    BY <2>1 DEF ClaimNeedsVersion
<1>3. QED
  BY <1>1, <1>2

LEMMA ClaimStep ==
  TypeOK /\ NoEarlyRow /\ ClaimNeedsVersion /\ [Next]_vars => ClaimNeedsVersion'
<1> SUFFICES ASSUME TypeOK, NoEarlyRow, ClaimNeedsVersion, [Next]_vars
             PROVE  ClaimNeedsVersion'
  OBVIOUS
<1>1. CASE UNCHANGED vars
  BY <1>1, ClaimQuiet DEF vars
<1>2. ASSUME NEW r \in Request, FetchBenchmark(r) PROVE ClaimNeedsVersion'
  BY <1>2, ClaimQuiet DEF FetchBenchmark, Finish
<1>3. ASSUME NEW r \in Request, Commit(r) \/ CommitAckLost(r) PROVE ClaimNeedsVersion'
  BY <1>3, ClaimApply DEF Commit, CommitAckLost, Fail
<1>4. ASSUME NEW r \in Request,
             \/ CheckExisting(r) \/ StoreArtifact(r) \/ RejectReleaseDate(r)
             \/ RejectMetadata(r) \/ FlushVersion(r) \/ DeleteArtifact(r) \/ PublishJob(r)
      PROVE  ClaimNeedsVersion'
  <2>1. UNCHANGED <<form, database, claims>>
    BY <1>4 DEF CheckExisting, StoreArtifact, RejectReleaseDate, RejectMetadata,
       FlushVersion, DeleteArtifact, PublishJob, Finish, Fail
  <2>2. QED
    BY <2>1, ClaimQuiet
<1>5. ASSUME NEW r \in Request,
             \/ UploadFails(r) \/ DeleteFails(r) \/ BrokerFails(r) \/ DatabaseFails(r)
             \/ Crash(r)
      PROVE  ClaimNeedsVersion'
  <2>1. UNCHANGED <<form, database, claims>>
    BY <1>5 DEF UploadFails, DeleteFails, BrokerFails, DatabaseFails, Crash, Finish, Fail
  <2>2. QED
    BY <2>1, ClaimQuiet
<1>6. QED
  BY <1>1, <1>2, <1>3, <1>4, <1>5 DEF Next, Proceed, EnvironmentFails

\* versions.py:141: a benchmark found unclaimed belongs to nobody until a
\* claimant's version is committed, and then to a claimant with a version,
\* however many submissions claim it at once and whichever of them fail.
THEOREM ClaimsNeedVersions == Spec => []ClaimNeedsVersion
<1>1. Init => ClaimNeedsVersion
  BY DEF Init, ClaimNeedsVersion
<1>2. CatalogInv => TypeOK /\ NoEarlyRow
  BY DEF CatalogInv
<1>3. QED
  BY <1>1, <1>2, ClaimStep, Catalog, PTL DEF Spec
-----------------------------------------------------------------------------
(* The answer a client gets, and the job of its version.                   *)

\* The answer in reply[r] agrees with the database and the broker.
Honest(r) ==
  /\ reply[r] = 201 => r \in rows /\ (WorkerEnabled => r \in jobs)
  /\ reply[r] \in {400, 403, 409} => r \notin rows
  /\ reply[r] = 409 => \E s \in rows \ {r} : form[s].version = form[r].version

\* The answer is already settled when the handler turns to its cleanup, and
\* between its commit and its publication the handler owns a row.
VerdictInv ==
  /\ TypeOK
  /\ NoEarlyRow
  /\ JobsHaveRows
  /\ \A r \in Request : pc[r] = "enqueue" => r \in rows
  /\ \A r \in Request : pc[r] \in {"cleanup", "done"} => Honest(r)

LEMMA VerdictInit == Init => VerdictInv
  BY TypeInit DEF Init, VerdictInv, NoEarlyRow, JobsHaveRows

\* A handler that ends or turns to its cleanup without a commit keeps the
\* invariant if its own answer is honest.
LEMMA VerdictAnswer ==
  ASSUME VerdictInv, TypeOK', NEW r \in Request, NEW to \in {"cleanup", "done"},
         Goto(r, to), \A s \in Request \ {r} : reply'[s] = reply[s],
         UNCHANGED <<form, database>>,
         jobs \subseteq jobs', jobs' \subseteq jobs \cup (rows \cap {r}),
         Honest(r)'
  PROVE  VerdictInv'
<1> USE DEF VerdictInv, TypeOK
<1>1. \A s \in Request \ {r} : pc'[s] = pc[s]
  BY DEF Goto
<1>2. pc'[r] = to
  BY DEF Goto
<1>3. NoEarlyRow' /\ JobsHaveRows'
  BY <1>1, <1>2 DEF NoEarlyRow, JobsHaveRows
<1>4. \A s \in Request : pc'[s] = "enqueue" => s \in rows'
  BY <1>1, <1>2
<1>5. ASSUME NEW s \in Request, pc'[s] \in {"cleanup", "done"} PROVE Honest(s)'
  BY <1>1, <1>5 DEF Honest
<1>6. QED
  BY <1>3, <1>4, <1>5

\* A handler that goes on to a step before its commit.
LEMMA VerdictAdvance ==
  ASSUME VerdictInv, TypeOK', NEW r \in Request,
         pc[r] \in {"fetch", "check", "upload", "build"},
         NEW to \in {"check", "upload", "build", "commit"}, Goto(r, to),
         UNCHANGED <<form, reply, database, jobs>>
  PROVE  VerdictInv'
<1> USE DEF VerdictInv, TypeOK
<1>1. \A s \in Request \ {r} : pc'[s] = pc[s]
  BY DEF Goto
<1>2. pc'[r] = to
  BY DEF Goto
<1>3. NoEarlyRow' /\ JobsHaveRows'
  BY <1>1 DEF NoEarlyRow, JobsHaveRows
<1>4. \A s \in Request : pc'[s] = "enqueue" => s \in rows'
  BY <1>1, <1>2
<1>5. ASSUME NEW s \in Request, pc'[s] \in {"cleanup", "done"} PROVE Honest(s)'
  BY <1>1, <1>2, <1>5 DEF Honest
<1>6. QED
  BY <1>3, <1>4, <1>5

\* The durable effect of a commit makes no answer false: the row that
\* appears belongs to a handler that has not answered.
LEMMA VerdictApply ==
  ASSUME VerdictInv, TypeOK', NEW r \in Request, pc[r] = "commit", Apply(r),
         NEW to \in {"enqueue", "cleanup"}, Goto(r, to),
         \A s \in Request \ {r} : reply'[s] = reply[s],
         to = "cleanup" => reply'[r] = 500,
         UNCHANGED <<form, jobs>>
  PROVE  VerdictInv'
<1> USE DEF VerdictInv, TypeOK, Apply
<1>1. \A s \in Request \ {r} : pc'[s] = pc[s]
  BY DEF Goto
<1>2. pc'[r] = to
  BY DEF Goto
<1>3. NoEarlyRow' /\ JobsHaveRows'
  BY <1>1, <1>2 DEF NoEarlyRow, JobsHaveRows
<1>4. \A s \in Request : pc'[s] = "enqueue" => s \in rows'
  BY <1>1, <1>2
<1>5. ASSUME NEW s \in Request, pc'[s] \in {"cleanup", "done"} PROVE Honest(s)'
  BY <1>1, <1>2, <1>5 DEF Honest
<1>6. QED
  BY <1>3, <1>4, <1>5

LEMMA VerdictFinish ==
  ASSUME VerdictInv, TypeOK', NEW r \in Request, NEW code, Finish(r, code),
         code = 201 => r \in rows /\ (WorkerEnabled => r \in jobs'),
         code \in {400, 403, 409} => r \notin rows,
         code = 409 => \E s \in rows \ {r} : form[s].version = form[r].version,
         UNCHANGED database,
         jobs \subseteq jobs', jobs' \subseteq jobs \cup (rows \cap {r})
  PROVE  VerdictInv'
<1>1. /\ Goto(r, "done")
      /\ reply'[r] = code
      /\ \A s \in Request \ {r} : reply'[s] = reply[s]
      /\ UNCHANGED form
  BY DEF Finish, VerdictInv, TypeOK
<1>2. Honest(r)'
  BY <1>1 DEF Honest
<1>3. QED
  BY <1>1, <1>2, VerdictAnswer

LEMMA VerdictFail ==
  ASSUME VerdictInv, TypeOK', NEW r \in Request, Fail(r, 400) \/ Fail(r, 409) \/ Fail(r, 500),
         Fail(r, 409) => Taken(r),
         pc[r] \in {"build", "commit"},
         UNCHANGED <<database, jobs>>
  PROVE  VerdictInv'
<1>1. r \notin rows
  BY DEF VerdictInv, NoEarlyRow
<1>2. /\ Goto(r, "cleanup")
      /\ \A s \in Request \ {r} : reply'[s] = reply[s]
      /\ UNCHANGED form
  BY DEF Fail, VerdictInv, TypeOK
<1>3. reply'[r] \in {400, 500} \/ (reply'[r] = 409 /\ Taken(r))
  BY DEF Fail, VerdictInv, TypeOK
<1>4. Honest(r)'
  BY <1>1, <1>2, <1>3 DEF Honest, Taken
<1>5. QED
  BY <1>2, <1>4, VerdictAnswer

LEMMA VerdictStep == VerdictInv /\ [Next]_vars => VerdictInv'
<1> SUFFICES ASSUME VerdictInv, [Next]_vars PROVE VerdictInv'
  OBVIOUS
<1>t. TypeOK /\ TypeOK'
  BY TypeStep DEF VerdictInv
<1>1. CASE UNCHANGED vars
  BY <1>1, <1>t DEF vars, VerdictInv, NoEarlyRow, JobsHaveRows, Honest
<1>2. ASSUME NEW r \in Request, FetchBenchmark(r) PROVE VerdictInv'
  <2>1. r \notin rows
    BY <1>2 DEF FetchBenchmark, VerdictInv, NoEarlyRow
  <2>2. CASE Finish(r, 403) \/ Finish(r, 400)
    BY <1>2, <1>t, <2>1, <2>2, VerdictFinish DEF FetchBenchmark
  <2>3. CASE Goto(r, "check") /\ UNCHANGED <<form, reply>>
    BY <1>2, <1>t, <2>3, VerdictAdvance DEF FetchBenchmark
  <2>4. QED
    BY <1>2, <2>2, <2>3 DEF FetchBenchmark
<1>3. ASSUME NEW r \in Request, CheckExisting(r) PROVE VerdictInv'
  <2>1. r \notin rows
    BY <1>3 DEF CheckExisting, VerdictInv, NoEarlyRow
  <2>2. CASE Taken(r) /\ Finish(r, 409)
    <3>1. \E s \in rows \ {r} : form[s].version = form[r].version
      BY <2>1, <2>2 DEF Taken
    <3>2. QED
      BY <1>3, <1>t, <2>1, <2>2, <3>1, VerdictFinish DEF CheckExisting
  <2>3. CASE Goto(r, "upload") /\ UNCHANGED <<form, reply>>
    BY <1>3, <1>t, <2>3, VerdictAdvance DEF CheckExisting
  <2>4. QED
    BY <1>3, <2>2, <2>3 DEF CheckExisting
<1>4. ASSUME NEW r \in Request, StoreArtifact(r) PROVE VerdictInv'
  <2>1. r \notin rows
    BY <1>4 DEF StoreArtifact, VerdictInv, NoEarlyRow
  <2>2. CASE Finish(r, 400)
    BY <1>4, <1>t, <2>1, <2>2, VerdictFinish DEF StoreArtifact
  <2>3. CASE Goto(r, "build") /\ UNCHANGED <<form, reply>>
    BY <1>4, <1>t, <2>3, VerdictAdvance DEF StoreArtifact
  <2>4. QED
    BY <1>4, <2>2, <2>3 DEF StoreArtifact
<1>5. ASSUME NEW r \in Request, RejectReleaseDate(r) PROVE VerdictInv'
  <2>1. r \notin rows
    BY <1>5 DEF RejectReleaseDate, VerdictInv, NoEarlyRow
  <2>2. QED
    BY <1>5, <1>t, <2>1, VerdictFinish DEF RejectReleaseDate
<1>6. ASSUME NEW r \in Request, RejectMetadata(r) PROVE VerdictInv'
  <2>1. ~Fail(r, 409)
    BY <1>6 DEF RejectMetadata, Fail, VerdictInv, TypeOK
  <2>2. QED
    BY <1>6, <1>t, <2>1, VerdictFail DEF RejectMetadata
<1>7. ASSUME NEW r \in Request, FlushVersion(r) PROVE VerdictInv'
  <2>1. CASE Taken(r) /\ Fail(r, 409)
    BY <1>7, <1>t, <2>1, VerdictFail DEF FlushVersion
  <2>2. CASE Goto(r, "commit") /\ UNCHANGED <<form, reply>>
    BY <1>7, <1>t, <2>2, VerdictAdvance DEF FlushVersion
  <2>3. QED
    BY <1>7, <2>1, <2>2 DEF FlushVersion, UniqueViolation
<1>8. ASSUME NEW r \in Request, Commit(r) PROVE VerdictInv'
  BY <1>8, <1>t, VerdictApply DEF Commit
<1>9. ASSUME NEW r \in Request, DeleteArtifact(r) \/ DeleteFails(r) PROVE VerdictInv'
  <2>1. Honest(r) /\ Finish(r, reply[r]) /\ UNCHANGED <<database, jobs>>
    BY <1>9 DEF DeleteArtifact, DeleteFails, VerdictInv
  <2>2. QED
    BY <1>t, <2>1, VerdictFinish DEF Honest
<1>10. ASSUME NEW r \in Request, PublishJob(r) PROVE VerdictInv'
  <2>1. r \in rows
    BY <1>10 DEF PublishJob, VerdictInv
  <2>2. QED
    BY <1>10, <1>t, <2>1, VerdictFinish DEF PublishJob
<1>11. ASSUME NEW r \in Request, UploadFails(r) PROVE VerdictInv'
  BY <1>11, <1>t, VerdictFinish DEF UploadFails
<1>12. ASSUME NEW r \in Request, CommitAckLost(r) PROVE VerdictInv'
  BY <1>12, <1>t, VerdictApply DEF CommitAckLost, Fail, VerdictInv, TypeOK
<1>13. ASSUME NEW r \in Request, BrokerFails(r) PROVE VerdictInv'
  <2>1. r \in rows
    BY <1>13 DEF BrokerFails, VerdictInv
  <2>2. QED
    BY <1>13, <1>t, <2>1, VerdictFinish DEF BrokerFails
<1>14. ASSUME NEW r \in Request, DatabaseFails(r) PROVE VerdictInv'
  <2>1. CASE Finish(r, 500)
    BY <1>14, <1>t, <2>1, VerdictFinish DEF DatabaseFails
  <2>2. CASE pc[r] \in {"build", "commit"} /\ Fail(r, 500)
    <3>1. ~Fail(r, 409)
      BY <2>2 DEF Fail, VerdictInv, TypeOK
    <3>2. QED
      BY <1>14, <1>t, <2>2, <3>1, VerdictFail DEF DatabaseFails
  <2>3. QED
    BY <1>14, <2>1, <2>2 DEF DatabaseFails, InTry
<1>15. ASSUME NEW r \in Request, Crash(r) PROVE VerdictInv'
  BY <1>15, <1>t, VerdictFinish DEF Crash
<1>16. QED
  BY <1>1, <1>2, <1>3, <1>4, <1>5, <1>6, <1>7, <1>8, <1>9, <1>10, <1>11, <1>12,
     <1>13, <1>14, <1>15 DEF Next, Proceed, EnvironmentFails

THEOREM Verdict == Spec => []VerdictInv
  BY VerdictInit, VerdictStep, PTL DEF Spec

\* The 201, 4xx and 409 answers of create_version are true of the database
\* and the broker however requests race and whatever fails.
THEOREM VerdictsAreTrue == Spec => []VerdictIsTrue
<1>1. VerdictInv => VerdictIsTrue
  BY DEF VerdictInv, VerdictIsTrue, Honest
<1>2. QED
  BY <1>1, Verdict, PTL

\* versions.py:248: a published job names a committed version.
THEOREM JobsNameRows == Spec => []JobsHaveRows
  BY Verdict, PTL DEF VerdictInv
-----------------------------------------------------------------------------
(* The object store beside the database, whatever fails: the cleanup takes *)
(* a raised commit for one that did not happen, and mishap remembers it.   *)

\* A handler that suffers what it cannot make good has nothing more to do
\* than its cleanup.
Unharmed == \A r \in Request : pc[r] \notin {"cleanup", "done"} => mishap[r] = "none"

\* A handler that is about to write its row has its artifact, and one that
\* is about to delete its artifact has no row, as far as it can know.
ArtifactInv ==
  /\ TypeOK
  /\ NoEarlyRow
  /\ Unharmed
  /\ RowsHaveArtifacts
  /\ \A r \in Request : pc[r] \in {"build", "commit"} => r \in blobs
  /\ \A r \in Request : pc[r] = "cleanup" => r \notin rows \/ Unknowing(r)

\* Where handlers stand: no artifact before the upload, a row from the
\* commit on, and agreement at the end.
StorageInv ==
  /\ \A r \in Request : pc[r] \in {"fetch", "check", "upload"} => r \notin blobs
  /\ \A r \in Request : pc[r] = "enqueue" => r \in rows
  /\ StorageMatchesDb

LEMMA ArtifactInit == Init => ArtifactInv /\ StorageInv
  BY TypeInit DEF Init, ArtifactInv, StorageInv, NoEarlyRow, Unharmed, RowsHaveArtifacts,
     StorageMatchesDb

\* Steps that leave the database and the artifacts of the others alone.
LEMMA ArtifactQuiet ==
  ASSUME ArtifactInv, TypeOK', NEW r \in Request, NEW to \in Where, Goto(r, to),
         UNCHANGED database,
         UNCHANGED mishap \/ (to = "done" /\ \E what : Suffers(r, what)),
         to # "fetch",
         to \in {"check", "upload", "build", "commit", "cleanup"} => r \notin rows,
         to \notin {"cleanup", "done"} => pc[r] \notin {"cleanup", "done"},
         to \in {"build", "commit"} => r \in blobs',
         \A s \in Request : s # r \/ (s \in rows /\ ~Unknowing(s)) => (s \in blobs => s \in blobs')
  PROVE  ArtifactInv'
<1> USE DEF ArtifactInv, TypeOK
<1>1. \A s \in Request \ {r} : pc'[s] = pc[s]
  BY DEF Goto
<1>2. pc'[r] = to
  BY DEF Goto
<1>3. /\ \A s \in Request : Unknowing(s) => Unknowing(s)'
      /\ \A s \in Request \ {r} : mishap'[s] = mishap[s]
      /\ to # "done" => mishap'[r] = mishap[r]
  BY DEF Suffers, Unknowing
<1>4. Unharmed'
  BY <1>1, <1>2, <1>3 DEF Unharmed
<1>5. NoEarlyRow' /\ RowsHaveArtifacts'
  BY <1>1, <1>2, <1>3 DEF NoEarlyRow, RowsHaveArtifacts
<1>6. \A s \in Request : pc'[s] \in {"build", "commit"} => s \in blobs'
  BY <1>1, <1>2
<1>7. \A s \in Request : pc'[s] = "cleanup" => s \notin rows' \/ Unknowing(s)'
  BY <1>1, <1>2, <1>3
<1>8. QED
  BY <1>4, <1>5, <1>6, <1>7

\* The row appears while its artifact is there; a handler that does not
\* learn of it is on record.
LEMMA ArtifactApply ==
  ASSUME ArtifactInv, TypeOK', NEW r \in Request, pc[r] = "commit", Apply(r),
         \/ Goto(r, "enqueue") /\ UNCHANGED mishap
         \/ Goto(r, "cleanup") /\ Suffers(r, "commit_ack"),
         UNCHANGED blobs
  PROVE  ArtifactInv'
<1> USE DEF ArtifactInv, TypeOK
<1>1. \A s \in Request \ {r} : pc'[s] = pc[s]
  BY DEF Goto
<1>2. pc'[r] = "enqueue" \/ (pc'[r] = "cleanup" /\ Unknowing(r)')
  BY DEF Goto, Suffers, Unharmed, Unknowing
<1>3. \A s \in Request \ {r} : mishap'[s] = mishap[s]
  BY DEF Suffers
<1>4. pc'[r] = "enqueue" => mishap'[r] = mishap[r]
  BY DEF Goto
<1>5. rows' = rows \cup {r} /\ r \in blobs
  BY DEF Apply
<1>6. Unharmed'
  BY <1>1, <1>2, <1>3, <1>4 DEF Unharmed
<1>7. NoEarlyRow'
  BY <1>1, <1>2, <1>5 DEF NoEarlyRow
<1>8. RowsHaveArtifacts'
  BY <1>3, <1>5 DEF RowsHaveArtifacts, Unknowing
<1>9. \A s \in Request : pc'[s] \in {"build", "commit"} => s \in blobs'
  BY <1>1, <1>2
<1>10. \A s \in Request : pc'[s] = "cleanup" => s \notin rows' \/ Unknowing(s)'
  BY <1>1, <1>2, <1>3, <1>5 DEF Unknowing
<1>11. QED
  BY <1>6, <1>7, <1>8, <1>9, <1>10

LEMMA ArtifactStep == ArtifactInv /\ [Next]_vars => ArtifactInv'
<1> SUFFICES ASSUME ArtifactInv, [Next]_vars PROVE ArtifactInv'
  OBVIOUS
<1>t. TypeOK /\ TypeOK'
  BY TypeStep DEF ArtifactInv
<1> USE DEF ArtifactInv, NoEarlyRow
<1>1. CASE UNCHANGED vars
  BY <1>1, <1>t DEF vars, Unharmed, RowsHaveArtifacts, Unknowing
<1>2. ASSUME NEW r \in Request, FetchBenchmark(r) PROVE ArtifactInv'
  BY <1>2, <1>t, ArtifactQuiet DEF FetchBenchmark, Finish
<1>3. ASSUME NEW r \in Request, CheckExisting(r) PROVE ArtifactInv'
  BY <1>3, <1>t, ArtifactQuiet DEF CheckExisting, Finish
<1>4. ASSUME NEW r \in Request, StoreArtifact(r) PROVE ArtifactInv'
  BY <1>4, <1>t, ArtifactQuiet DEF StoreArtifact, Finish
<1>5. ASSUME NEW r \in Request, RejectReleaseDate(r) PROVE ArtifactInv'
  BY <1>5, <1>t, ArtifactQuiet DEF RejectReleaseDate, Finish
<1>6. ASSUME NEW r \in Request, RejectMetadata(r) PROVE ArtifactInv'
  BY <1>6, <1>t, ArtifactQuiet DEF RejectMetadata, Fail
<1>7. ASSUME NEW r \in Request, FlushVersion(r) PROVE ArtifactInv'
  BY <1>7, <1>t, ArtifactQuiet DEF FlushVersion, Fail
<1>8. ASSUME NEW r \in Request, Commit(r) PROVE ArtifactInv'
  BY <1>8, <1>t, ArtifactApply DEF Commit
<1>9. ASSUME NEW r \in Request, DeleteArtifact(r) PROVE ArtifactInv'
  BY <1>9, <1>t, ArtifactQuiet DEF DeleteArtifact, Finish
<1>10. ASSUME NEW r \in Request, PublishJob(r) PROVE ArtifactInv'
  BY <1>10, <1>t, ArtifactQuiet DEF PublishJob, Finish
<1>11. ASSUME NEW r \in Request, UploadFails(r) PROVE ArtifactInv'
  BY <1>11, <1>t, ArtifactQuiet DEF UploadFails, Finish
<1>12. ASSUME NEW r \in Request, DeleteFails(r) PROVE ArtifactInv'
  BY <1>12, <1>t, ArtifactQuiet DEF DeleteFails, Finish
<1>13. ASSUME NEW r \in Request, BrokerFails(r) PROVE ArtifactInv'
  BY <1>13, <1>t, ArtifactQuiet DEF BrokerFails, Finish
<1>14. ASSUME NEW r \in Request, DatabaseFails(r) PROVE ArtifactInv'
  BY <1>14, <1>t, ArtifactQuiet DEF DatabaseFails, InTry, Finish, Fail
<1>15. ASSUME NEW r \in Request, Crash(r) PROVE ArtifactInv'
  BY <1>15, <1>t, ArtifactQuiet DEF Crash, Finish
<1>16. ASSUME NEW r \in Request, CommitAckLost(r) PROVE ArtifactInv'
  BY <1>16, <1>t, ArtifactApply DEF CommitAckLost, Fail
<1>17. QED
  BY <1>1, <1>2, <1>3, <1>4, <1>5, <1>6, <1>7, <1>8, <1>9, <1>10, <1>11, <1>12,
     <1>13, <1>14, <1>15, <1>16 DEF Next, Proceed, EnvironmentFails

THEOREM Artifacts == Spec => []ArtifactInv
  BY ArtifactInit, ArtifactStep, PTL DEF Spec

\* versions.py:212: whatever fails, the artifact of a registered version is
\* deleted only by a handler whose own COMMIT went unanswered.
THEOREM ArtifactsAreKept == Spec => []RowsHaveArtifacts
<1>1. ArtifactInv => RowsHaveArtifacts
  BY DEF ArtifactInv
<1>2. QED
  BY <1>1, Artifacts, PTL

LEMMA StorageQuiet ==
  ASSUME ArtifactInv, StorageInv, TypeOK', NEW r \in Request, NEW to \in Where, Goto(r, to),
         UNCHANGED <<form, rows>>,
         UNCHANGED mishap \/ (\E what \in Mishap \ {"none"} : Suffers(r, what)),
         \A s \in Request \ {r} : s \in blobs' <=> s \in blobs,
         to \in {"fetch", "check", "upload"} => r \notin blobs',
         to = "enqueue" => r \in rows,
         to = "done" /\ UNCHANGED mishap /\ mishap[r] = "none" /\ form[r].defect # "date"
           => (r \in blobs' <=> r \in rows)
  PROVE  StorageInv'
<1> USE DEF StorageInv, TypeOK
<1>1. \A s \in Request \ {r} : pc'[s] = pc[s] /\ mishap'[s] = mishap[s]
  BY DEF Goto, ArtifactInv, Suffers
<1>2. pc'[r] = to
  BY DEF Goto, ArtifactInv
<1>3. mishap'[r] = "none" => UNCHANGED mishap /\ mishap[r] = "none"
  BY DEF ArtifactInv, Suffers
<1>4. \A s \in Request : pc'[s] \in {"fetch", "check", "upload"} => s \notin blobs'
  BY <1>1, <1>2
<1>5. \A s \in Request : pc'[s] = "enqueue" => s \in rows'
  BY <1>1, <1>2
<1>6. StorageMatchesDb'
  <2>1. SUFFICES ASSUME NEW s \in Request, pc'[s] = "done", mishap'[s] = "none",
                        form[s].defect # "date"
                 PROVE  s \in blobs' <=> s \in rows
    BY DEF StorageMatchesDb
  <2>2. CASE s = r
    BY <1>2, <1>3, <2>1, <2>2
  <2>3. CASE s # r
    BY <1>1, <2>1, <2>3 DEF StorageMatchesDb
  <2>4. QED
    BY <2>2, <2>3
<1>7. QED
  BY <1>4, <1>5, <1>6

LEMMA StorageApply ==
  ASSUME ArtifactInv, StorageInv, TypeOK', NEW r \in Request, pc[r] = "commit", Apply(r),
         Goto(r, "enqueue") \/ Goto(r, "cleanup"),
         \A s \in Request \ {r} : mishap'[s] = mishap[s],
         UNCHANGED <<form, blobs>>
  PROVE  StorageInv'
<1> USE DEF StorageInv, TypeOK
<1>1. \A s \in Request \ {r} : pc'[s] = pc[s]
  BY DEF Goto, ArtifactInv
<1>2. pc'[r] \in {"enqueue", "cleanup"}
  BY DEF Goto, ArtifactInv
<1>3. rows' = rows \cup {r}
  BY DEF Apply
<1>4. StorageMatchesDb'
  BY <1>1, <1>2, <1>3 DEF StorageMatchesDb
<1>5. QED
  BY <1>1, <1>2, <1>3, <1>4

LEMMA StorageStep == ArtifactInv /\ StorageInv /\ [Next]_vars => StorageInv'
<1> SUFFICES ASSUME ArtifactInv, StorageInv, [Next]_vars PROVE StorageInv'
  OBVIOUS
<1>t. TypeOK /\ TypeOK'
  BY TypeStep DEF ArtifactInv
<1> USE DEF ArtifactInv, StorageInv, NoEarlyRow
<1>1. CASE UNCHANGED vars
  BY <1>1 DEF vars, StorageMatchesDb
<1>2. ASSUME NEW r \in Request, FetchBenchmark(r) PROVE StorageInv'
  BY <1>2, <1>t, StorageQuiet DEF FetchBenchmark, Finish
<1>3. ASSUME NEW r \in Request, CheckExisting(r) PROVE StorageInv'
  BY <1>3, <1>t, StorageQuiet DEF CheckExisting, Finish
<1>4. ASSUME NEW r \in Request, StoreArtifact(r) PROVE StorageInv'
  BY <1>4, <1>t, StorageQuiet DEF StoreArtifact, Finish
<1>5. ASSUME NEW r \in Request, RejectReleaseDate(r) PROVE StorageInv'
  BY <1>5, <1>t, StorageQuiet DEF RejectReleaseDate, Finish
<1>6. ASSUME NEW r \in Request, RejectMetadata(r) PROVE StorageInv'
  BY <1>6, <1>t, StorageQuiet DEF RejectMetadata, Fail
<1>7. ASSUME NEW r \in Request, FlushVersion(r) PROVE StorageInv'
  BY <1>7, <1>t, StorageQuiet DEF FlushVersion, Fail
<1>8. ASSUME NEW r \in Request, Commit(r) PROVE StorageInv'
  BY <1>8, <1>t, StorageApply DEF Commit
<1>9. ASSUME NEW r \in Request, CommitAckLost(r) PROVE StorageInv'
  BY <1>9, <1>t, StorageApply DEF CommitAckLost, Fail, Suffers, TypeOK
<1>10. ASSUME NEW r \in Request, DeleteArtifact(r) PROVE StorageInv'
  <2>1. mishap[r] = "none" => r \notin rows
    BY <1>10 DEF DeleteArtifact, Unknowing
  <2>2. QED
    BY <1>10, <1>t, <2>1, StorageQuiet DEF DeleteArtifact, Finish
<1>11. ASSUME NEW r \in Request, PublishJob(r) \/ BrokerFails(r) PROVE StorageInv'
  <2>1. r \in rows /\ (mishap[r] = "none" => r \in blobs)
    BY <1>11 DEF PublishJob, BrokerFails, RowsHaveArtifacts, Unknowing
  <2>2. QED
    BY <1>11, <1>t, <2>1, StorageQuiet DEF PublishJob, BrokerFails, Finish
<1>12. ASSUME NEW r \in Request, DatabaseFails(r) PROVE StorageInv'
  <2>1. r \in rows /\ mishap[r] = "none" => r \in blobs
    BY DEF RowsHaveArtifacts, Unknowing
  <2>2. QED
    BY <1>12, <1>t, <2>1, StorageQuiet DEF DatabaseFails, Finish, Fail
<1>13. ASSUME NEW r \in Request, UploadFails(r) \/ DeleteFails(r) \/ Crash(r) PROVE StorageInv'
  <2>1. /\ Goto(r, "done") /\ UNCHANGED <<form, rows>>
        /\ \E what \in Mishap \ {"none"} : Suffers(r, what)
        /\ \A s \in Request \ {r} : s \in blobs' <=> s \in blobs
    BY <1>13 DEF UploadFails, DeleteFails, Crash, Finish
  <2>2. CASE UNCHANGED mishap /\ mishap[r] = "none"
    BY <1>t, <2>1, <2>2 DEF Suffers, TypeOK
  <2>3. CASE ~(UNCHANGED mishap /\ mishap[r] = "none")
    BY <1>t, <2>1, <2>3, StorageQuiet
  <2>4. QED
    BY <2>2, <2>3
<1>14. QED
  BY <1>1, <1>2, <1>3, <1>4, <1>5, <1>6, <1>7, <1>8, <1>9, <1>10, <1>11, <1>12,
     <1>13 DEF Next, Proceed, EnvironmentFails

\* versions.py:212: whatever races and fails, a handler that has ended leaves
\* an artifact exactly when it leaves a row, unless its release date was
\* malformed or it suffered one of the failures that mishap names.
THEOREM StorageDoesNotDrift == Spec => []StorageMatchesDb
<1>1. ArtifactInv /\ StorageInv /\ [Next]_vars => StorageInv'
  BY StorageStep
<1>2. StorageInv => StorageMatchesDb
  BY DEF StorageInv
<1>3. QED
  BY <1>1, <1>2, Artifacts, ArtifactInit, PTL DEF Spec
-----------------------------------------------------------------------------
(* The operations scripts, while any number of handlers run.               *)

USE ScriptsAssumption

\* The scripts read and copy; the handlers run as if there were none.
THEOREM ScriptsKeepHandlers == AllSpec => Spec
<1>1. AllInit => Init
  BY SMTT(30) DEF AllInit
<1>2. [AllNext]_allVars => [Next]_vars
  BY DEF AllNext, allVars, Handlers, Seed, SeedCommit, SeedUpload, Dump, CopyBucket, Drill,
     RestoreDatabase, Migrate, RestoreBucket, Staged, CheckRestore, CheckArtifacts,
     FetchVersions, FetchCorpora, FetchFails, Probe, EndCheck
<1>3. QED
  BY <1>1, <1>2, PTL DEF AllSpec, Spec

\* Rows are never deleted.
LEMMA RowsGrow ==
  ASSUME [Next]_vars
  PROVE  rows \subseteq rows'
<1>1. UNCHANGED rows \/ \E r \in Request : Apply(r)
  BY DEF Next, vars, FetchBenchmark, Proceed, EnvironmentFails, CheckExisting, StoreArtifact,
     RejectReleaseDate, RejectMetadata, FlushVersion, Commit, DeleteArtifact, PublishJob,
     UploadFails, CommitAckLost, DeleteFails, BrokerFails, DatabaseFails, Crash
<1>2. QED
  BY <1>1 DEF Apply

\* A dump refers to what the database had and so still has; seed.py commits
\* once, so a dump has all it registers or nothing of it.
DumpIsOld ==
  /\ dump.refs \subseteq rows \cup corpora
  /\ dump.refs \cap Corpus \in {{}, Corpus}
  /\ corpora \in {{}, Corpus}
  /\ corpora \subseteq indices

\* Staging has what was restored into it, and a passed check_restore is about
\* staging as it is.
StagingIsRestored ==
  /\ staging.refs \subseteq dump.refs
  /\ staging.objects \subseteq copy.objects
  /\ ~copy.taken => copy.objects = {}
  /\ staging.refs # {} => dump.taken
  /\ restored = 0 => dump.taken /\ Sample \in staging.refs

\* What a run of check_artifacts has found so far, of the target it started
\* on; only a run that ended without a complaint has exit status 0.
CheckIsOfTarget ==
  /\ check.at # "ended" => check.exit = NotRun
  /\ check.exit = 0 => check.todo \cup check.missing \cup check.errors = {}
  /\ check.todo \cup check.missing \cup check.gone \subseteq check.refs
  /\ check.on = "production" => check.refs \subseteq rows \cup corpora
  /\ check.on = "staging" =>
       check.refs \ (check.todo \cup check.missing \cup check.errors) \subseteq staging.objects

ScriptInv == AllTypeOK /\ DumpIsOld /\ StagingIsRestored /\ CheckIsOfTarget

CheckType == [on : Target, at : CheckStage, refs : SUBSET Artifact,
              todo : SUBSET Artifact, missing : SUBSET Artifact, errors : SUBSET Artifact,
              gone : SUBSET Artifact, exit : Exit]

LEMMA NoCheckType == NoCheck \in CheckType
  BY DEF NoCheck, CheckType, CheckStage, Target, Exit, NotRun

\* Handlers and seed.py only add references, and the seed stores an index
\* before the row that refers to it.
LEMMA SourcesGrow ==
  ASSUME ScriptInv, TypeOK', UNCHANGED scriptVars, rows \subseteq rows',
         corpora \subseteq corpora', corpora' \in {corpora, Corpus},
         corpora' \subseteq indices', indices' \subseteq Corpus
  PROVE  ScriptInv'
<1>1. UNCHANGED <<dump, copy, staging, restored, check, checks>>
  BY DEF scriptVars
<1>2. AllTypeOK'
  BY <1>1 DEF ScriptInv, AllTypeOK
<1>3. DumpIsOld' /\ StagingIsRestored' /\ CheckIsOfTarget'
  BY <1>1 DEF ScriptInv, DumpIsOld, StagingIsRestored, CheckIsOfTarget
<1>4. QED
  BY <1>2, <1>3 DEF ScriptInv

\* A step of the drill replaces staging and voids what was said of it.
LEMMA StagedKeeps ==
  ASSUME ScriptInv, TypeOK', NEW env, Staged(env),
         env \in [refs : SUBSET Artifact, objects : SUBSET Artifact, current : BOOLEAN],
         env.refs \subseteq dump.refs, env.objects \subseteq copy.objects,
         env.refs # {} => dump.taken
  PROVE  ScriptInv'
<1>1. /\ staging' = env /\ restored' = NotRun
      /\ check' = IF check.on = "staging" THEN NoCheck ELSE check
      /\ UNCHANGED <<corpora, indices, dump, copy, checks, rows>>
  BY DEF Staged, vars
<1>2. AllTypeOK'
  BY <1>1, NoCheckType DEF ScriptInv, AllTypeOK, CheckType, Exit, NotRun
<1>3. DumpIsOld' /\ StagingIsRestored'
  BY <1>1 DEF ScriptInv, DumpIsOld, StagingIsRestored, NotRun
<1>4. CASE check.on = "staging"
  <2>1. check' = NoCheck
    BY <1>1, <1>4
  <2>2. CheckIsOfTarget'
    BY <2>1 DEF CheckIsOfTarget, NoCheck, NotRun
  <2>3. QED
    BY <1>2, <1>3, <2>2 DEF ScriptInv
<1>5. CASE check.on # "staging"
  <2>1. check' = check
    BY <1>1, <1>5
  <2>2. CheckIsOfTarget'
    BY <1>1, <1>5, <2>1 DEF ScriptInv, CheckIsOfTarget
  <2>3. QED
    BY <1>2, <1>3, <2>2 DEF ScriptInv
<1>6. QED
  BY <1>4, <1>5

\* A step of check_artifacts changes nothing but the run.
LEMMA CheckKeeps ==
  ASSUME ScriptInv, TypeOK', UNCHANGED <<vars, corpora, indices, dump, copy, staging, restored>>,
         checks' \in 0..MaxChecks, check' \in CheckType, CheckIsOfTarget'
  PROVE  ScriptInv'
<1>1. AllTypeOK'
  BY DEF ScriptInv, AllTypeOK, CheckType
<1>2. DumpIsOld' /\ StagingIsRestored'
  BY DEF ScriptInv, DumpIsOld, StagingIsRestored, vars
<1>3. QED
  BY <1>1, <1>2 DEF ScriptInv

LEMMA ScriptStep == ScriptInv /\ TypeOK' /\ [AllNext]_allVars => ScriptInv'
<1> SUFFICES ASSUME ScriptInv, TypeOK', [AllNext]_allVars PROVE ScriptInv'
  OBVIOUS
<1>t. /\ AllTypeOK /\ DumpIsOld /\ StagingIsRestored /\ CheckIsOfTarget
      /\ rows \subseteq Request
      /\ checks \in 0..MaxChecks /\ MaxChecks \in Nat
      /\ References("production") \subseteq Artifact
      /\ References("staging") \subseteq Artifact
  BY DEF ScriptInv, AllTypeOK, TypeOK, References, Artifact
<1>1. CASE UNCHANGED allVars \/ Handlers
  <2>1. [Next]_vars /\ UNCHANGED <<corpora, indices, scriptVars>>
    BY <1>1 DEF allVars, Handlers
  <2>2. QED
    BY <1>t, <2>1, RowsGrow, SourcesGrow DEF DumpIsOld, AllTypeOK
<1>2. CASE Seed
  <2>1. /\ UNCHANGED rows /\ UNCHANGED scriptVars
        /\ corpora \subseteq corpora' /\ corpora' \in {corpora, Corpus}
        /\ corpora' \subseteq indices' /\ indices' \subseteq Corpus
    BY <1>2, <1>t DEF Seed, SeedUpload, SeedCommit, vars, DumpIsOld, AllTypeOK
  <2>2. QED
    BY <2>1, SourcesGrow
<1>3. CASE Dump
  <2>1. /\ dump' = [taken |-> TRUE, refs |-> rows \cup corpora] /\ ~dump.taken
        /\ UNCHANGED <<rows, corpora, indices, copy, staging, restored, check, checks>>
    BY <1>3 DEF Dump, References, vars
  <2>2. dump' \in [taken : BOOLEAN, refs : SUBSET Artifact]
    BY <1>t, <2>1 DEF References
  <2>3. dump'.taken /\ dump'.refs = rows \cup corpora
    BY <2>1
  <2>4. staging.refs = {}
    BY <1>t, <2>1 DEF StagingIsRestored
  <2>5. AllTypeOK'
    BY <1>t, <2>1, <2>2 DEF AllTypeOK
  <2>6. dump'.refs \cap Corpus = corpora
    BY <1>t, <2>3 DEF AllTypeOK
  <2>8. DumpIsOld' /\ StagingIsRestored' /\ CheckIsOfTarget'
    BY <1>t, <2>1, <2>3, <2>4, <2>6 DEF DumpIsOld, StagingIsRestored, CheckIsOfTarget
  <2>7. QED
    BY <2>5, <2>8 DEF ScriptInv
<1>4. CASE CopyBucket
  <2>1. /\ copy' = [taken |-> TRUE, objects |-> blobs \cup indices, later |-> dump.taken]
        /\ ~copy.taken
        /\ UNCHANGED <<rows, corpora, indices, dump, staging, restored, check, checks>>
    BY <1>4 DEF CopyBucket, Objects, vars
  <2>2. copy' \in [taken : BOOLEAN, objects : SUBSET Artifact, later : BOOLEAN]
    BY <1>t, <2>1 DEF AllTypeOK, TypeOK, Artifact
  <2>3. copy'.taken /\ staging.objects = {}
    BY <1>t, <2>1 DEF StagingIsRestored
  <2>4. AllTypeOK'
    BY <1>t, <2>1, <2>2 DEF AllTypeOK
  <2>5. DumpIsOld' /\ StagingIsRestored' /\ CheckIsOfTarget'
    BY <1>t, <2>1, <2>3 DEF DumpIsOld, StagingIsRestored, CheckIsOfTarget
  <2>6. QED
    BY <2>4, <2>5 DEF ScriptInv
<1>5. CASE RestoreDatabase \/ Migrate \/ RestoreBucket
  <2>1. /\ staging \in [refs : SUBSET Artifact, objects : SUBSET Artifact, current : BOOLEAN]
        /\ dump.refs \subseteq Artifact /\ copy.objects \subseteq Artifact
        /\ staging.refs \subseteq dump.refs /\ staging.objects \subseteq copy.objects
        /\ staging.refs # {} => dump.taken
    BY <1>t DEF AllTypeOK, StagingIsRestored
  <2>2. CASE RestoreDatabase
    BY <2>1, <2>2, StagedKeeps DEF RestoreDatabase
  <2>3. CASE Migrate
    BY <2>1, <2>3, StagedKeeps DEF Migrate
  <2>4. CASE RestoreBucket
    BY <2>1, <2>4, StagedKeeps DEF RestoreBucket
  <2>5. QED
    BY <1>5, <2>2, <2>3, <2>4
<1>6. CASE CheckRestore
  <2>1. /\ dump.taken /\ restored' \in {0, 1}
        /\ restored' = 0 => Sample \in staging.refs
        /\ UNCHANGED <<rows, corpora, indices, dump, copy, staging, check, checks>>
    BY <1>6 DEF CheckRestore, Healthy, vars
  <2>2. AllTypeOK'
    BY <1>t, <2>1 DEF AllTypeOK, Exit, NotRun
  <2>3. DumpIsOld' /\ StagingIsRestored' /\ CheckIsOfTarget'
    BY <1>t, <2>1 DEF DumpIsOld, StagingIsRestored, CheckIsOfTarget
  <2>4. QED
    BY <2>2, <2>3 DEF ScriptInv
<1>7. ASSUME NEW target \in Target, FetchVersions(target) PROVE ScriptInv'
  <2> DEFINE refs == References(target) \cap Request
  <2>1. /\ UNCHANGED <<vars, corpora, indices, dump, copy, staging, restored, rows>>
        /\ checks' \in 0..MaxChecks
    BY <1>7, <1>t DEF FetchVersions, vars
  <2>2. check' = [on |-> target, at |-> "fetching", refs |-> refs, todo |-> refs,
                  missing |-> {}, errors |-> {}, gone |-> refs \ Objects(target),
                  exit |-> NotRun]
    BY <1>7 DEF FetchVersions, NoCheck
  <2>3. refs \subseteq Artifact
    BY <1>t DEF Target
  <2>4. check' \in CheckType
    BY <2>2, <2>3 DEF CheckType, CheckStage, Exit, NotRun
  <2>5. CheckIsOfTarget'
    BY <2>1, <2>2 DEF CheckIsOfTarget, References, NotRun
  <2>6. QED
    BY <2>1, <2>4, <2>5, CheckKeeps
<1>12. CASE FetchCorpora
  <2> DEFINE refs == References(check.on) \cap Corpus
  <2>1. /\ UNCHANGED <<vars, corpora, indices, dump, copy, staging, restored, rows, checks>>
        /\ check \in CheckType /\ check.at = "fetching"
    BY <1>12, <1>t DEF FetchCorpora, vars, AllTypeOK, CheckType
  <2>2. check' = [check EXCEPT !.at = "probing", !.refs = @ \cup refs, !.todo = @ \cup refs,
                               !.gone = @ \cup (refs \ Objects(check.on))]
    BY <1>12 DEF FetchCorpora
  <2>3. refs \subseteq Artifact
    BY DEF Artifact
  <2>4. check' \in CheckType
    BY <2>1, <2>2, <2>3 DEF CheckType, CheckStage
  <2>5. /\ check'.on = check.on /\ check'.at = "probing" /\ check'.exit = check.exit
        /\ check'.missing = check.missing /\ check'.errors = check.errors
        /\ check'.refs = check.refs \cup refs /\ check'.todo = check.todo \cup refs
        /\ check'.gone \subseteq check.gone \cup refs
    BY <2>1, <2>2 DEF CheckType
  <2>6. check.exit = NotRun /\ check.on \in Target
    BY <1>t, <2>1 DEF CheckIsOfTarget, CheckType
  <2>7. CheckIsOfTarget'
    BY <1>t, <2>1, <2>5, <2>6 DEF CheckIsOfTarget, References, NotRun, Target
  <2>8. QED
    BY <1>t, <2>1, <2>4, <2>7, CheckKeeps
<1>8. ASSUME NEW target \in Target, FetchFails(target) PROVE ScriptInv'
  <2>1. /\ UNCHANGED <<vars, corpora, indices, dump, copy, staging, restored, rows>>
        /\ checks' \in 0..MaxChecks
        /\ check' = [on |-> target, at |-> "ended", refs |-> {}, todo |-> {},
                     missing |-> {}, errors |-> {}, gone |-> {}, exit |-> 2]
    <3>1. /\ UNCHANGED <<vars, corpora, indices, dump, copy, staging, restored, rows>>
          /\ checks' \in 0..MaxChecks
      BY <1>8, <1>t DEF FetchFails, vars
    <3>2. check' = [NoCheck EXCEPT !.on = target, !.at = "ended", !.exit = 2]
      BY <1>8 DEF FetchFails
    <3>3. QED
      BY <3>2, <3>1 DEF NoCheck
  <2>2. check' \in CheckType
    BY <2>1 DEF CheckType, CheckStage, Exit, NotRun
  <2>3. CheckIsOfTarget'
    BY <2>1 DEF CheckIsOfTarget
  <2>4. QED
    BY <2>1, <2>2, <2>3, CheckKeeps
<1>9. ASSUME NEW a \in Artifact, Probe(a) PROVE ScriptInv'
  <2>1. /\ UNCHANGED <<vars, corpora, indices, dump, copy, staging, restored, rows>>
        /\ checks' \in 0..MaxChecks /\ check \in CheckType
        /\ check.at = "probing" /\ a \in check.todo
    BY <1>9, <1>t DEF Probe, vars, AllTypeOK, CheckType
  <2>2. check.exit = NotRun /\ CheckIsOfTarget
    BY <1>t, <2>1 DEF CheckIsOfTarget
  <2>3. \/ a \in Objects(check.on) /\ Found(a)
        \/ Missing(a)
        \/ Inaccessible(a)
    BY <1>9 DEF Probe
  <2>4. check' \in CheckType
    <3>1. /\ check.todo \ {a} \in SUBSET Artifact
          /\ check.missing \cup {a} \in SUBSET Artifact
          /\ check.errors \cup {a} \in SUBSET Artifact
      BY <2>1 DEF CheckType
    <3>2. CASE a \in Objects(check.on) /\ Found(a)
      BY <2>1, <3>1, <3>2 DEF Found, CheckType
    <3>3. CASE Missing(a)
      BY <2>1, <3>1, <3>3 DEF Missing, CheckType
    <3>4. CASE Inaccessible(a)
      BY <2>1, <3>1, <3>4 DEF Inaccessible, CheckType
    <3>5. QED
      BY <2>3, <3>2, <3>3, <3>4
  <2>5. /\ check'.at = check.at /\ check'.on = check.on /\ check'.refs = check.refs
        /\ check'.exit = check.exit /\ check'.todo = check.todo \ {a}
        /\ check'.missing \subseteq check.missing \cup {a}
        /\ \/ a \in Objects(check.on)
           \/ a \in check'.missing \cup check'.errors
        /\ check.missing \subseteq check'.missing /\ check.errors \subseteq check'.errors
        /\ check'.gone = check.gone
    <3>1. CASE a \in Objects(check.on) /\ Found(a)
      BY <2>1, <3>1 DEF Found, CheckType
    <3>2. CASE Missing(a)
      BY <2>1, <3>2 DEF Missing, CheckType
    <3>3. CASE Inaccessible(a)
      BY <2>1, <3>3 DEF Inaccessible, CheckType
    <3>4. QED
      BY <2>3, <3>1, <3>2, <3>3
  <2>6. CheckIsOfTarget'
    BY <2>1, <2>2, <2>5 DEF CheckIsOfTarget, Objects, NotRun
  <2>7. QED
    BY <2>1, <2>4, <2>6, CheckKeeps
<1>10. CASE EndCheck
  <2>1. /\ UNCHANGED <<vars, corpora, indices, dump, copy, staging, restored, rows>>
        /\ checks' \in 0..MaxChecks /\ check \in CheckType /\ check.todo = {}
        /\ check' = [check EXCEPT !.at = "ended",
             !.exit = IF check.missing \cup check.errors = {} THEN 0 ELSE 1]
    BY <1>10, <1>t DEF EndCheck, vars, AllTypeOK, CheckType
  <2>2. check' \in CheckType
    BY <2>1 DEF CheckType, CheckStage, Exit, NotRun
  <2>3. /\ check'.at = "ended" /\ check'.gone = check.gone
        /\ check'.on = check.on /\ check'.refs = check.refs
        /\ check'.todo = {} /\ check'.missing = check.missing /\ check'.errors = check.errors
        /\ check'.exit = 0 => check.missing \cup check.errors = {}
    BY <2>1 DEF CheckType
  <2>4. CheckIsOfTarget'
    BY <1>t, <2>1, <2>3 DEF CheckIsOfTarget
  <2>5. QED
    BY <2>1, <2>2, <2>4, CheckKeeps
<1>11. QED
  BY <1>1, <1>2, <1>3, <1>4, <1>5, <1>6, <1>7, <1>8, <1>9, <1>10, <1>12
  DEF AllNext, Drill, CheckArtifacts

LEMMA ScriptInit == AllInit => ScriptInv
<1> SUFFICES ASSUME AllInit PROVE ScriptInv
  OBVIOUS
<1>1. TypeOK
  BY TypeInit DEF AllInit
<1>2. AllTypeOK
  BY <1>1, NoCheckType
  DEF AllInit, AllTypeOK, CheckType, NoDump, NoCopy, NoStaging, Exit, NotRun
<1>3. DumpIsOld /\ StagingIsRestored /\ CheckIsOfTarget
  BY DEF AllInit, DumpIsOld, StagingIsRestored, CheckIsOfTarget, NoDump, NoCopy, NoStaging,
     NoCheck, NotRun
<1>4. QED
  BY <1>2, <1>3 DEF ScriptInv

\* What the scripts know of the database, of staging and of the run of
\* check_artifacts stays true, whatever fails.
THEOREM ScriptsHold == AllSpec => []ScriptInv
<1>1. Spec => []TypeOK
  BY TypeCorrect
<1>2. AllSpec => []TypeOK
  BY <1>1, ScriptsKeepHandlers, PTL
<1>3. QED
  BY <1>2, ScriptInit, ScriptStep, PTL DEF AllSpec

\* backup-restore.md:67: when check_restore and check_artifacts both pass on
\* staging after the last step of the drill, the dump was restored, it has the
\* seeded benchmarks, and everything it refers to is in the copy of the
\* bucket: whatever failed meanwhile and however the backups were timed.
THEOREM DrillIsProof == AllSpec => []DrillProvesBackup
<1>1. ScriptInv => DrillProvesBackup
  BY DEF ScriptInv, DumpIsOld, StagingIsRestored, CheckIsOfTarget, DrillProvesBackup
<1>2. QED
  BY <1>1, ScriptsHold, PTL

\* What a copy taken after the dump holds: everything the dump refers to,
\* but for artifacts that were already lost.
CopyInv ==
  /\ copy.later => dump.taken /\ dump.refs \subseteq copy.objects \cup Abandoned
  /\ ~copy.taken => ~copy.later

\* A handler on record stays on record.
LEMMA AbandonedGrows ==
  ASSUME TypeOK, [Next]_vars
  PROVE  Abandoned \subseteq Abandoned'
<1>1. UNCHANGED mishap \/ \E r \in Request, what \in Mishap : Suffers(r, what)
  BY DEF Next, vars, FetchBenchmark, Proceed, EnvironmentFails, CheckExisting, StoreArtifact,
     RejectReleaseDate, RejectMetadata, FlushVersion, Commit, DeleteArtifact, PublishJob,
     UploadFails, CommitAckLost, DeleteFails, BrokerFails, DatabaseFails, Crash
<1>2. QED
  BY <1>1 DEF TypeOK, Suffers, Abandoned, Unknowing

LEMMA HandlersOrNone == [AllNext]_allVars => [Next]_vars
  BY DEF AllNext, allVars, Handlers, Seed, SeedCommit, SeedUpload, Dump, CopyBucket, Drill,
     RestoreDatabase, Migrate, RestoreBucket, Staged, CheckRestore, CheckArtifacts,
     FetchVersions, FetchCorpora, FetchFails, Probe, EndCheck

LEMMA CopyStep ==
  ArtifactInv /\ ScriptInv /\ CopyInv /\ [AllNext]_allVars => CopyInv'
<1> SUFFICES ASSUME ArtifactInv, ScriptInv, CopyInv, [AllNext]_allVars PROVE CopyInv'
  OBVIOUS
<1>a. Abandoned \subseteq Abandoned'
  BY HandlersOrNone, AbandonedGrows DEF ArtifactInv
<1>1. CASE Dump
  <2>1. UNCHANGED copy /\ ~dump.taken
    BY <1>1 DEF Dump
  <2>2. ~copy.later
    BY <2>1 DEF CopyInv
  <2>3. QED
    BY <2>1, <2>2 DEF CopyInv
<1>2. CASE CopyBucket
  <2>1. /\ copy' = [taken |-> TRUE, objects |-> blobs \cup indices, later |-> dump.taken]
        /\ UNCHANGED dump
    BY <1>2 DEF CopyBucket, Objects
  <2>2. dump.refs \subseteq blobs \cup indices \cup Abandoned
    BY DEF ArtifactInv, TypeOK, RowsHaveArtifacts, ScriptInv, DumpIsOld, Abandoned
  <2>3. QED
    BY <1>a, <2>1, <2>2 DEF CopyInv
<1>3. CASE ~Dump /\ ~CopyBucket
  <2>1. UNCHANGED <<dump, copy>>
    BY <1>3 DEF AllNext, allVars, scriptVars, Handlers, Seed, SeedCommit, SeedUpload, Drill,
       RestoreDatabase, Migrate, RestoreBucket, Staged, CheckRestore, CheckArtifacts,
       FetchVersions, FetchCorpora, FetchFails, Probe, EndCheck
  <2>2. QED
    BY <1>a, <2>1, SMTT(30) DEF CopyInv
<1>4. QED
  BY <1>1, <1>2, <1>3

LEMMA CopyInit == AllInit => CopyInv
  BY DEF AllInit, CopyInv, NoCopy, NoDump

LEMMA ArtifactsStay == AllSpec => []ArtifactInv
  BY Artifacts, ScriptsKeepHandlers, PTL

\* backup-restore.md:19: dump first and copy the bucket later, and the copy
\* has every artifact of the dump, whatever submissions were under way and
\* whatever failed, but for those lost to an unanswered COMMIT.
THEOREM LaterCopyIsWhole == AllSpec => []LaterCopyRestoresWhole
<1>1. CopyInv => LaterCopyRestoresWhole
  BY DEF CopyInv, LaterCopyRestoresWhole
<1>2. QED
  BY <1>1, ArtifactsStay, ScriptsHold, CopyInit, CopyStep, PTL DEF AllSpec

\* What a check of production has reported missing, or read when it was
\* missing, is missing now; and the latter is not taken for found.
CheckInv ==
  check.on = "production" =>
    /\ (check.missing \cup check.gone) \cap Objects("production") = {}
    /\ check.gone \subseteq check.todo \cup check.missing \cup check.errors

\* An artifact is uploaded before its row is written, and only once.
LEMMA LostStaysLost ==
  ASSUME ArtifactInv, [Next]_vars, NEW r \in rows, r \notin blobs
  PROVE  r \notin blobs'
<1>1. r \in Request /\ pc[r] # "upload"
  BY DEF ArtifactInv, TypeOK, NoEarlyRow
<1>2. CASE \E s \in Request : StoreArtifact(s) \/ UploadFails(s) \/ Crash(s)
  BY <1>1, <1>2 DEF StoreArtifact, UploadFails, Crash
<1>3. CASE ~ \E s \in Request : StoreArtifact(s) \/ UploadFails(s) \/ Crash(s)
  <2>1. blobs' \subseteq blobs
    BY <1>3 DEF Next, vars, FetchBenchmark, Proceed, EnvironmentFails, CheckExisting,
       RejectReleaseDate, RejectMetadata, FlushVersion, Commit, DeleteArtifact, PublishJob,
       CommitAckLost, DeleteFails, BrokerFails, DatabaseFails
  <2>2. QED
    BY <2>1
<1>4. QED
  BY <1>2, <1>3

\* Whoever moves, a reference of production without an artifact never gets
\* one, and a corpus with a row has its index.
LEMMA MissingStaysMissing ==
  ASSUME ArtifactInv, ScriptInv, [AllNext]_allVars,
         NEW a \in rows \cup corpora, a \notin Objects("production")
  PROVE  a \notin Objects("production")'
<1>1. a \in rows /\ a \notin blobs /\ a \in Request
  BY DEF Objects, ScriptInv, DumpIsOld, ArtifactInv, TypeOK
<1>2. a \notin blobs'
  BY <1>1, HandlersOrNone, LostStaysLost, SMTT(30)
<1>3. indices' \subseteq Corpus
  BY DEF ScriptInv, AllTypeOK, AllNext, allVars, Handlers, Seed, SeedCommit, SeedUpload, Dump,
     CopyBucket, Drill, RestoreDatabase, Migrate, RestoreBucket, Staged, CheckRestore,
     CheckArtifacts, FetchVersions, FetchCorpora, FetchFails, Probe, EndCheck
<1>4. QED
  BY <1>1, <1>2, <1>3 DEF Objects

LEMMA CheckStep ==
  ArtifactInv /\ ScriptInv /\ CheckInv /\ [AllNext]_allVars => CheckInv'
<1> SUFFICES ASSUME ArtifactInv, ScriptInv, CheckInv, [AllNext]_allVars PROVE CheckInv'
  OBVIOUS
<1>t. /\ check \in CheckType
      /\ check.todo \cup check.missing \cup check.gone \subseteq check.refs
      /\ check.on = "production" => check.refs \subseteq rows \cup corpora
  BY DEF ScriptInv, AllTypeOK, CheckType, CheckIsOfTarget
<1>m. check.on = "production" =>
        (check.missing \cup check.gone) \cap Objects("production")' = {}
  BY <1>t, MissingStaysMissing DEF CheckInv
<1>1. CASE UNCHANGED check
  BY <1>1, <1>m DEF CheckInv
<1>2. CASE \E env : Staged(env)
  <2>1. check' = check \/ check' = NoCheck
    BY <1>2 DEF Staged
  <2>2. QED
    BY <1>m, <2>1 DEF CheckInv, NoCheck
<1>3. ASSUME NEW target \in Target, FetchVersions(target) PROVE CheckInv'
  <2>1. /\ check'.on = target /\ check'.missing = {} /\ check'.gone \subseteq check'.todo
        /\ check'.gone \cap Objects(target) = {}
    BY <1>3 DEF FetchVersions, NoCheck
  <2>2. Objects("production")' = Objects("production")
    BY <1>3 DEF FetchVersions, Objects, vars
  <2>3. QED
    BY <2>1, <2>2 DEF CheckInv
<1>4. CASE FetchCorpora
  <2> DEFINE refs == References(check.on) \cap Corpus
  <2>1. check' = [check EXCEPT !.at = "probing", !.refs = @ \cup refs, !.todo = @ \cup refs,
                               !.gone = @ \cup (refs \ Objects(check.on))]
    BY <1>4 DEF FetchCorpora
  <2>2. /\ check'.on = check.on /\ check'.missing = check.missing
        /\ check'.todo = check.todo \cup refs /\ check'.errors = check.errors
        /\ check'.gone = check.gone \cup (refs \ Objects(check.on))
    BY <1>t, <2>1 DEF CheckType
  <2>3. Objects("production")' = Objects("production")
    BY <1>4 DEF FetchCorpora, Objects, vars
  <2>4. QED
    BY <2>2, <2>3 DEF CheckInv
<1>5. ASSUME NEW target \in Target, FetchFails(target) PROVE CheckInv'
  <2>1. check'.missing = {} /\ check'.gone = {}
    BY <1>5 DEF FetchFails, NoCheck
  <2>2. QED
    BY <2>1 DEF CheckInv
<1>6. ASSUME NEW a \in Artifact, Probe(a) PROVE CheckInv'
  <2>1. /\ Objects("production")' = Objects("production")
        /\ \/ a \in Objects(check.on) /\ Found(a)
           \/ a \notin Objects(check.on) /\ Missing(a)
           \/ Inaccessible(a)
    BY <1>6 DEF Probe, Objects, vars
  <2>2. CASE a \in Objects(check.on) /\ Found(a)
    <3>1. /\ check'.on = check.on /\ check'.missing = check.missing
          /\ check'.todo = check.todo \ {a} /\ check'.errors = check.errors
          /\ check'.gone = check.gone
      BY <1>t, <2>2 DEF Found, CheckType
    <3>2. QED
      BY <2>1, <2>2, <3>1 DEF CheckInv
  <2>3. CASE a \notin Objects(check.on) /\ Missing(a)
    <3>1. /\ check'.on = check.on /\ check'.missing = check.missing \cup {a}
          /\ check'.todo = check.todo \ {a} /\ check'.errors = check.errors
          /\ check'.gone = check.gone
      BY <1>t, <2>3 DEF Missing, CheckType
    <3>2. QED
      BY <2>1, <2>3, <3>1 DEF CheckInv
  <2>4. CASE Inaccessible(a)
    <3>1. /\ check'.on = check.on /\ check'.missing = check.missing
          /\ check'.todo = check.todo \ {a} /\ check'.errors = check.errors \cup {a}
          /\ check'.gone = check.gone
      BY <1>t, <2>4 DEF Inaccessible, CheckType
    <3>2. QED
      BY <2>1, <3>1 DEF CheckInv
  <2>5. QED
    BY <2>1, <2>2, <2>3, <2>4
<1>7. CASE EndCheck
  <2>1. /\ check'.on = check.on /\ check'.missing = check.missing
        /\ check'.todo = check.todo /\ check'.errors = check.errors
        /\ check'.gone = check.gone
    BY <1>t, <1>7 DEF EndCheck, CheckType
  <2>2. QED
    BY <1>m, <2>1 DEF CheckInv
<1>8. QED
  BY <1>1, <1>2, <1>3, <1>4, <1>5, <1>6, <1>7
  DEF AllNext, allVars, scriptVars, Handlers, Seed, SeedCommit, SeedUpload, Dump, CopyBucket,
      Drill, RestoreDatabase, Migrate, RestoreBucket, CheckRestore, CheckArtifacts

LEMMA CheckInit == AllInit => CheckInv
  BY DEF AllInit, CheckInv, NoCheck

\* check_artifacts.py:27, 185: although handlers upload, commit and clean up
\* between its reads, a check of production tells the truth: what it calls
\* missing is missing, an exit status of 0 overlooks no artifact that was
\* already lost, and what it vouches for stays there unless a handler's COMMIT
\* went unanswered.
THEOREM CheckIsTruthful == AllSpec => []CheckTellsTruth
<1>1. AllSpec => []CheckInv
  BY ArtifactsStay, ScriptsHold, CheckInit, CheckStep, PTL DEF AllSpec
<1>2. ArtifactInv /\ ScriptInv /\ CheckInv => CheckTellsTruth
  BY DEF ArtifactInv, TypeOK, RowsHaveArtifacts, ScriptInv, DumpIsOld, CheckIsOfTarget, CheckInv,
     CheckTellsTruth, Objects, Abandoned
<1>3. QED
  BY <1>1, <1>2, ArtifactsStay, ScriptsHold, PTL
=============================================================================
