----------------------- MODULE ArtifactReconciliation -----------------------
(***************************************************************************)
(* The operations scripts beside running submissions: scripts/db_backup.py *)
(* and a copy of the bucket, the recovery drill of docs/operations/        *)
(* backup-restore.md into a staging environment, scripts/check_restore.py  *)
(* and scripts/check_artifacts.py, against production or staging.          *)
(*                                                                         *)
(* The database and the object store are two systems: nothing reads or     *)
(* copies both at one instant.  A dump is a snapshot of the database, a    *)
(* copy of the bucket is taken before or after it, and check_artifacts     *)
(* reads the versions' references, then those of the corpora, and then     *)
(* probes the objects one by one, while handlers upload, commit and clean  *)
(* up.  One operator runs the scripts, one at a time.  scripts/seed.py     *)
(* stores the corpora: indices first, then all rows in one commit.         *)
(***************************************************************************)
EXTENDS VersionSubmission

CONSTANTS
  Corpus,      (* the corpora and benchmarks that seed.py registers        *)
  Sample,      (* the one of them that check_restore looks for, "mmlu"     *)
  MaxChecks    (* how often check_artifacts is run                         *)

ASSUME ScriptsAssumption ==
  /\ Corpus \cap Request = {}
  /\ Sample \in Corpus
  /\ MaxChecks \in Nat

VARIABLES
  corpora,     (* committed rows of reference_corpora                      *)
  indices,     (* corpus indices in the object store                       *)
  dump,        (* the file that db_backup.py wrote                         *)
  copy,        (* the snapshot of the bucket, and whether the dump is older *)
  staging,     (* the environment of the drill                             *)
  restored,    (* exit status of check_restore against it                  *)
  check,       (* the run of check_artifacts                               *)
  checks       (* how many runs have been started                          *)

scriptVars == <<dump, copy, staging, restored, check, checks>>
allVars == <<vars, corpora, indices, scriptVars>>

Target == {"production", "staging"}
CheckStage == {"idle", "fetching", "probing", "ended"}
NotRun == 3
Exit == {NotRun, 0, 1, 2}
NoDump == [taken |-> FALSE, refs |-> {}]
NoCopy == [taken |-> FALSE, objects |-> {}, later |-> FALSE]
NoStaging == [refs |-> {}, objects |-> {}, current |-> FALSE]
NoCheck == [on |-> "production", at |-> "idle", refs |-> {}, todo |-> {},
            missing |-> {}, errors |-> {}, gone |-> {}, exit |-> NotRun]

\* What a row of the database may refer to, and the bucket may hold.
Artifact == Request \cup Corpus

AllTypeOK ==
  /\ TypeOK
  /\ corpora \subseteq Corpus /\ indices \subseteq Corpus
  /\ dump \in [taken : BOOLEAN, refs : SUBSET Artifact]
  /\ copy \in [taken : BOOLEAN, objects : SUBSET Artifact, later : BOOLEAN]
  /\ staging \in [refs : SUBSET Artifact, objects : SUBSET Artifact, current : BOOLEAN]
  /\ restored \in Exit
  /\ check \in [on : Target, at : CheckStage, refs : SUBSET Artifact,
                todo : SUBSET Artifact, missing : SUBSET Artifact, errors : SUBSET Artifact,
                gone : SUBSET Artifact, exit : Exit]
  /\ checks \in 0..MaxChecks

AllInit ==
  /\ Init
  /\ corpora = {} /\ indices = {}
  /\ dump = NoDump /\ copy = NoCopy /\ staging = NoStaging
  /\ restored = NotRun
  /\ check = NoCheck
  /\ checks = 0

References(target) == IF target = "staging" THEN staging.refs ELSE rows \cup corpora
Objects(target) == IF target = "staging" THEN staging.objects ELSE blobs \cup indices
-----------------------------------------------------------------------------
Handlers ==
  /\ Next
  /\ UNCHANGED <<corpora, indices, scriptVars>>

\* Mutation of SeedCommit: every row is committed with its own index.
SeedCommitEach ==
  /\ \E c \in indices \ corpora : corpora' = corpora \cup {c}
  /\ UNCHANGED <<vars, indices, scriptVars>>

\* Mutation of SeedCommit: the rows are committed before their indices.
SeedCommitEarly ==
  /\ corpora # Corpus
  /\ corpora' = Corpus
  /\ UNCHANGED <<vars, indices, scriptVars>>

\* seed.py uploads the index of a corpus that has no row yet.
SeedUpload(c) ==
  /\ c \notin indices
  /\ indices' = indices \cup {c}
  /\ UNCHANGED <<vars, corpora, scriptVars>>

\* Its only commit: every corpus, benchmark and placeholder version at once.
SeedCommit ==
  /\ corpora # Corpus
  /\ indices = Corpus
  /\ corpora' = Corpus
  /\ UNCHANGED <<vars, indices, scriptVars>>

\* The operator has no script running.
Idle == check.at \notin {"fetching", "probing"}

\* pg_dump reads one snapshot of the database.
Dump ==
  /\ Idle
  /\ ~dump.taken
  /\ dump' = [taken |-> TRUE, refs |-> References("production")]
  /\ UNCHANGED <<vars, corpora, indices, copy, staging, restored, check, checks>>

\* The provider's snapshot of the bucket.
CopyBucket ==
  /\ Idle
  /\ ~copy.taken
  /\ copy' = [taken |-> TRUE, objects |-> Objects("production"), later |-> dump.taken]
  /\ UNCHANGED <<vars, corpora, indices, dump, staging, restored, check, checks>>
-----------------------------------------------------------------------------
(* The drill, which starts with a dump.  Nothing but the runbook makes the *)
(* operator do every step.                                                 *)

\* A step of the drill makes what the scripts said of staging void.
Staged(env) ==
  /\ Idle
  /\ staging' = env
  /\ restored' = NotRun
  /\ check' = IF check.on = "staging" THEN NoCheck ELSE check
  /\ UNCHANGED <<vars, corpora, indices, dump, copy, checks>>

\* The application's schema has moved on since the dump.
RestoreDatabase ==
  /\ dump.taken
  /\ Staged([staging EXCEPT !.refs = dump.refs, !.current = FALSE])

\* make migrate; the container's entry point does it too.
Migrate ==
  /\ dump.taken
  /\ Staged([staging EXCEPT !.current = TRUE])

RestoreBucket ==
  /\ copy.taken
  /\ Staged([staging EXCEPT !.objects = copy.objects])

\* The ten checks: the probes answer, which an empty bucket does not prevent;
\* the read paths work on the schema; and one seeded benchmark is there with
\* its version and its citation.
Healthy == staging.current /\ Sample \in staging.refs

\* check_restore never raises: a request that fails makes its check fail.
CheckRestore ==
  /\ Idle
  /\ dump.taken
  /\ restored' = IF Healthy THEN 0 ELSE 1
  /\ UNCHANGED <<vars, corpora, indices, dump, copy, staging, check, checks>>
-----------------------------------------------------------------------------
\* check_artifacts.main reads all references before any object: first the
\* SELECT of the versions' artifacts, ...  (gone is history: the references
\* whose artifacts were already missing when they were read.)
FetchVersions(target) ==
  LET refs == References(target) \cap Request
  IN  /\ Idle
      /\ checks < MaxChecks
      /\ checks' = checks + 1
      /\ check' = [NoCheck EXCEPT !.on = target, !.at = "fetching", !.refs = refs,
                                  !.todo = refs, !.gone = refs \ Objects(target)]
      /\ UNCHANGED <<vars, corpora, indices, dump, copy, staging, restored>>

\* ... then, in a statement of its own, that of the active corpora's indices.
FetchCorpora ==
  LET refs == References(check.on) \cap Corpus
  IN  /\ check.at = "fetching"
      /\ check' = [check EXCEPT !.at = "probing", !.refs = @ \cup refs, !.todo = @ \cup refs,
                                !.gone = @ \cup (refs \ Objects(check.on))]
      /\ UNCHANGED <<vars, corpora, indices, dump, copy, staging, restored, checks>>

\* The database cannot be reached, or a SELECT fails.
FetchFails(target) ==
  /\ \/ Idle /\ checks < MaxChecks /\ checks' = checks + 1
     \/ check.at = "fetching" /\ check.on = target /\ checks' = checks
  /\ check' = [NoCheck EXCEPT !.on = target, !.at = "ended", !.exit = 2]
  /\ UNCHANGED <<vars, corpora, indices, dump, copy, staging, restored>>

\* ReconciliationReport.add
Found(a) == check' = [check EXCEPT !.todo = @ \ {a}]
Missing(a) == check' = [check EXCEPT !.todo = @ \ {a}, !.missing = @ \cup {a}]

\* Mutation of Inaccessible: an object that may not be read counts as missing.
CountMissing(a) == Missing(a)

Inaccessible(a) == check' = [check EXCEPT !.todo = @ \ {a}, !.errors = @ \cup {a}]

\* head_object, or Path.exists: 404 is a missing object, any other failure
\* an error.
Probe(a) ==
  /\ check.at = "probing"
  /\ a \in check.todo
  /\ \/ a \in Objects(check.on) /\ Found(a)
     \/ a \notin Objects(check.on) /\ Missing(a)
     \/ Inaccessible(a)
  /\ UNCHANGED <<vars, corpora, indices, dump, copy, staging, restored, checks>>

\* report.ok decides the exit status.
EndCheck ==
  /\ check.at = "probing"
  /\ check.todo = {}
  /\ check' = [check EXCEPT !.at = "ended",
                            !.exit = IF check.missing \cup check.errors = {} THEN 0 ELSE 1]
  /\ UNCHANGED <<vars, corpora, indices, dump, copy, staging, restored, checks>>

CheckArtifacts ==
  \/ \E target \in Target : FetchVersions(target) \/ FetchFails(target)
  \/ FetchCorpora
  \/ \E a \in Artifact : Probe(a)
  \/ EndCheck

Drill == RestoreDatabase \/ Migrate \/ RestoreBucket \/ CheckRestore

Seed == SeedCommit \/ \E c \in Corpus : SeedUpload(c)

AllNext == Handlers \/ Seed \/ Dump \/ CopyBucket \/ Drill \/ CheckArtifacts

AllSpec == AllInit /\ [][AllNext]_allVars
-----------------------------------------------------------------------------
\* A handler that takes its commit for a failure deletes the artifact that
\* its row refers to: nothing the scripts do can make up for that.
Abandoned == {r \in Request : Unknowing(r)}

\* check_artifacts.py:27, 185: although handlers upload, commit and clean up
\* between its reads, what a check of production reports as missing is missing
\* and stays so.  An exit status of 0, "all referenced artifacts found", means
\* that no reference it read had lost its artifact by then, and that no handler
\* takes one of those artifacts away later, except one whose COMMIT went
\* unanswered.
CheckTellsTruth ==
  check.on = "production" =>
    /\ check.missing \cap Objects("production") = {}
    /\ check.exit = 0 => /\ check.gone = {}
                        /\ check.refs \subseteq Objects("production") \cup Abandoned

\* backup-restore.md:19: the database and the bucket are backed up at
\* different times.  A copy that is taken after the dump has every artifact
\* the dump refers to, whatever submissions were under way, except those
\* that a handler whose COMMIT went unanswered had deleted.
LaterCopyRestoresWhole ==
  copy.later => dump.refs \subseteq copy.objects \cup Abandoned

\* backup-restore.md:67: when both scripts pass after the last step of the
\* drill, no step of the drill was left out that mattered, and the dump has
\* every seeded row although check_restore looks for one of them only.
DrillProvesBackup ==
  /\ restored = 0
  /\ check.on = "staging" /\ check.exit = 0
  => /\ dump.taken /\ Corpus \subseteq dump.refs
     /\ check.refs \subseteq copy.objects
=============================================================================
