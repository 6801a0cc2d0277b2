----------------------------- MODULE JobPolling -----------------------------
(***************************************************************************)
(* Ad-hoc checks and the clients that wait for a job: routers/             *)
(* contamination.py run_check and get_job_status, the waiting loops of the *)
(* command line (cli commands/check.py, submit.py) and the contamination   *)
(* page of the frontend.                                                   *)
(*                                                                         *)
(* The page starts a poll every second whether or not the last one has     *)
(* been answered, so several may be on their way, each reading the result  *)
(* backend at its own time.  JavaScript runs one callback at a time, but a *)
(* state update takes effect only when React renders: the effect's cleanup *)
(* (cancelled) comes after the callback that ended the job, and before the *)
(* next click.  The job itself is whatever TaskResult allows.              *)
(***************************************************************************)
EXTENDS Naturals

CONSTANTS
  Job,            (* jobs that checks start                                *)
  CliJob,         (* the one of them that the command line waits for       *)
  NoJob,          (* no job yet                                            *)
  Poll,           (* polls that the page may have on their way             *)
  Cli,            (* the one poll of the command line                      *)
  MaxAttempts,    (* MAX_ATTEMPTS of the page                              *)
  MaxOutages      (* how many requests fail on the network                 *)

ASSUME ConstantsAssumption ==
  /\ NoJob \notin Job
  /\ CliJob \in Job
  /\ Cli \notin Poll
  /\ MaxAttempts \in Nat \ {0}
  /\ MaxOutages \in Nat

VARIABLES
  enabled,    (* settings.worker_enabled                                   *)
  started,    (* jobs that run_check has published                         *)
  result,     (* the result backend                                        *)
  poll,       (* the polls on their way                                    *)
  cli,        (* where the command line is, and the job it waits for       *)
  loading,    (* the page shows "Running..." and disables its button       *)
  posting,    (* run_check of the page has not answered yet                *)
  active,     (* the job whose effect is installed                         *)
  ticking,    (* its interval is running                                   *)
  attempts,   (* how often it has fired                                    *)
  cancelled,  (* jobs whose effect has been cleaned up                     *)
  current,    (* the job of the last check started on the page             *)
  reports,    (* the job whose reports the page shows                      *)
  error,      (* the page shows an error                                   *)
  outages     (* network failures that may still happen                    *)

pageVars == <<loading, posting, active, ticking, attempts, cancelled, current, reports, error>>
vars == <<enabled, started, result, poll, cli, pageVars, outages>>

Tasks == INSTANCE TaskResult

Answer == {"completed", "failed", "other", "unavailable", "down"}
NoPoll == [job |-> NoJob, at |-> "none", said |-> "none"]

TypeOK ==
  /\ enabled \in BOOLEAN
  /\ started \subseteq Job
  /\ result \in [Job -> Tasks!Result]
  /\ poll \in [Poll \cup {Cli} ->
       [job : Job \cup {NoJob}, at : {"none", "first", "second", "back"},
        said : Answer \cup {"none"}]]
  /\ cli \in [at : {"idle", "waiting", "ok", "failed"}, job : Job \cup {NoJob}]
  /\ {loading, posting, ticking, error} \subseteq BOOLEAN
  /\ {active, current, reports} \subseteq Job \cup {NoJob}
  /\ attempts \in 0..(MaxAttempts + 1)
  /\ cancelled \subseteq Job
  /\ outages \in 0..MaxOutages

Init ==
  /\ enabled \in BOOLEAN
  /\ started = {}
  /\ Tasks!Init
  /\ poll = [p \in Poll \cup {Cli} |-> NoPoll]
  /\ cli = [at |-> "idle", job |-> NoJob]
  /\ loading = FALSE /\ posting = FALSE /\ ticking = FALSE /\ error = FALSE
  /\ active = NoJob /\ current = NoJob /\ reports = NoJob
  /\ attempts = 0
  /\ cancelled = {}
  /\ outages = MaxOutages
-----------------------------------------------------------------------------
(* The server.                                                             *)

\* Workers report on jobs that have been published.
Work(j) ==
  /\ j \in started
  /\ Tasks!Report(j)
  /\ UNCHANGED <<enabled, started, poll, cli, pageVars, outages>>

\* GET /contamination/jobs/{job_id} for one of the polls.
Ask(p, j) == poll' = [poll EXCEPT ![p] = [job |-> j, at |-> "first", said |-> "none"]]

Say(p, what) == poll' = [poll EXCEPT ![p].at = "back", ![p].said = what]

\* Mutation of Failed: the name that the answer uses.
FailedInAnswer(state) == state = "FAILED"

Failed(state) == state = "FAILURE"

\* Mutation of Successful: any state that is ready.
AnyReady(state) == state \in Tasks!Ready

Successful(state) == state = "SUCCESS"

\* result.failed(): the backend is read; a state that is ready is kept for
\* the rest of the request.
ReadFailed(p) ==
  /\ poll[p].at = "first"
  /\ IF ~enabled THEN Say(p, "unavailable")
     ELSE IF Failed(result[poll[p].job]) THEN Say(p, "failed")
     ELSE IF Successful(result[poll[p].job]) THEN Say(p, "completed")
     ELSE poll' = [poll EXCEPT ![p].at = "second"]
  /\ UNCHANGED <<enabled, started, result, cli, pageVars, outages>>

\* result.successful() reads it again; otherwise the answer is the state in
\* lower case, which is neither "completed" nor "failed", even when the job
\* has failed since the first read.
ReadSuccessful(p) ==
  /\ poll[p].at = "second"
  /\ Say(p, IF Successful(result[poll[p].job]) THEN "completed" ELSE "other")
  /\ UNCHANGED <<enabled, started, result, cli, pageVars, outages>>

\* The request fails on its way, or times out.
GoDown(p) ==
  /\ poll[p].at \in {"first", "second"}
  /\ outages > 0
  /\ outages' = outages - 1
  /\ Say(p, "down")
  /\ UNCHANGED <<enabled, started, result, cli, pageVars>>
-----------------------------------------------------------------------------
(* The command line.                                                       *)

\* client.run_check, or the first job of client.submit_version.  Without a
\* worker the job id is empty, which no route answers.
CliStart ==
  /\ cli.at = "idle"
  /\ IF enabled
     THEN /\ started' = started \cup {CliJob}
          /\ cli' = [at |-> "waiting", job |-> CliJob]
     ELSE /\ cli' = [at |-> "failed", job |-> NoJob]
          /\ UNCHANGED started
  /\ UNCHANGED <<enabled, result, poll, pageVars, outages>>

CliPoll ==
  /\ cli.at = "waiting"
  /\ poll[Cli].at = "none"
  /\ Ask(Cli, cli.job)
  /\ UNCHANGED <<enabled, started, result, cli, pageVars, outages>>

\* completed ends the loop, failed and every client error raise, and any
\* other status sleeps a second and polls again.
CliHear ==
  /\ poll[Cli].at = "back"
  /\ cli' = [cli EXCEPT !.at =
       CASE poll[Cli].said = "completed" -> "ok"
         [] poll[Cli].said \in {"failed", "down"} -> "failed"
         [] OTHER -> "waiting"]
  /\ poll' = [poll EXCEPT ![Cli] = NoPoll]
  /\ UNCHANGED <<enabled, started, result, pageVars, outages>>
-----------------------------------------------------------------------------
(* The page.                                                               *)

\* Jobs that a check of the page may still start: Job is the bound on them.
Unstarted == Job \ (started \cup {CliJob})

\* The click that starts a check; the button is disabled while loading.  A
\* click comes after React has cleaned up behind the last job.
Submit ==
  /\ ~loading
  /\ active = NoJob
  /\ Unstarted # {}
  /\ loading' = TRUE /\ posting' = TRUE
  /\ error' = FALSE /\ reports' = NoJob /\ current' = NoJob
  /\ UNCHANGED <<enabled, started, result, poll, cli, active, ticking, attempts, cancelled, outages>>

\* runAdHocCheck answers with a new job, whose effect is installed.
Accepted ==
  LET j == CHOOSE fresh \in Unstarted : TRUE
  IN  /\ posting
      /\ enabled
      /\ started' = started \cup {j}
      /\ posting' = FALSE
      /\ active' = j /\ current' = j /\ ticking' = TRUE /\ attempts' = 0
      /\ UNCHANGED <<enabled, result, poll, cli, loading, cancelled, reports, error, outages>>

\* It answers without a job, or not at all.
NotAccepted ==
  /\ posting
  /\ \/ ~enabled /\ UNCHANGED outages
     \/ outages > 0 /\ outages' = outages - 1
  /\ posting' = FALSE /\ loading' = FALSE /\ error' = TRUE
  /\ UNCHANGED <<enabled, started, result, poll, cli, active, ticking, attempts, cancelled,
                 current, reports>>

\* The interval fires: a new poll, whatever became of the earlier ones.  (It
\* does not run ahead of the network by more than the polls of the model.)
Fire(p) ==
  /\ ticking
  /\ poll[p].at = "none"
  /\ attempts <= MaxAttempts
  /\ attempts' = attempts + 1
  /\ Ask(p, active)
  /\ UNCHANGED <<enabled, started, result, cli, loading, posting, active, ticking, cancelled,
                 current, reports, error, outages>>

TimedOut == attempts >= MaxAttempts

\* Mutation of Ignored: the callback does not look at cancelled.
NotIgnored(p) == FALSE

Ignored(p) == poll[p].job \in cancelled

\* What an answer makes the callback show; "more" is to wait for the next.
Outcome(said) ==
  CASE said = "completed" -> "reports"
    [] said \in {"failed", "unavailable", "down"} -> "error"
    [] OTHER -> IF TimedOut THEN "error" ELSE "more"

\* The callback of a poll.  An outcome stops the interval at once and asks
\* React to forget the job.
Hear(p) ==
  LET outcome == IF Ignored(p) THEN "more" ELSE Outcome(poll[p].said)
  IN  /\ poll[p].at = "back"
      /\ poll' = [poll EXCEPT ![p] = NoPoll]
      /\ IF outcome = "more"
         THEN UNCHANGED <<loading, ticking, reports, error>>
         ELSE /\ loading' = FALSE
              /\ ticking' = FALSE
              /\ reports' = IF outcome = "reports" THEN poll[p].job ELSE reports
              /\ error' = (outcome = "error" \/ error)
      /\ UNCHANGED <<enabled, started, result, cli, posting, active, attempts, cancelled,
                     current, outages>>

\* React renders and runs the cleanup of the effect.
Cleanup ==
  /\ active # NoJob
  /\ ~loading
  /\ cancelled' = cancelled \cup {active}
  /\ active' = NoJob
  /\ ticking' = FALSE
  /\ attempts' = 0
  /\ UNCHANGED <<enabled, started, result, poll, cli, loading, posting, current, reports, error,
                 outages>>
-----------------------------------------------------------------------------
Serve(p) == ReadFailed(p) \/ ReadSuccessful(p)

CliGoesOn == CliPoll \/ CliHear

PageGoesOn == Accepted \/ NotAccepted \/ Cleanup

Next ==
  \/ \E j \in Job : Work(j)
  \/ CliStart
  \/ \E p \in Poll \cup {Cli} : Serve(p) \/ GoDown(p)
  \/ CliGoesOn
  \/ Submit
  \/ PageGoesOn
  \/ \E p \in Poll : Fire(p) \/ Hear(p)

Spec == Init /\ [][Next]_vars

\* Requests are answered and programs go on; neither people nor workers need
\* do anything.
FairSpec ==
  /\ Spec
  /\ \A p \in Poll \cup {Cli} : WF_vars(Serve(p))
  /\ WF_vars(CliGoesOn)
  /\ WF_vars(PageGoesOn)
  /\ \A p \in Poll : WF_vars(Hear(p))
  /\ WF_vars(\E p \in Poll : Fire(p))
-----------------------------------------------------------------------------
\* contamination.py:123: although get_job_status reads the backend up to
\* three times while the job goes on, the command line exits with success
\* only for a job that has succeeded.
CliTellsTruth == cli.at = "ok" => result[cli.job] = "SUCCESS"

\* page.tsx:42: polls overlap, and the answers of an earlier check may arrive
\* after a later one has started; the page shows reports only of the check
\* that was started last, and only if that has succeeded.
PageShowsItsJob ==
  reports # NoJob => reports = current /\ result[reports] = "SUCCESS"

\* check.py:24 has no limit: the command line ends if its job ends for good,
\* although an answer given while the job ends is neither "completed" nor
\* "failed".
CliEnds ==
  <>[](result[CliJob] \in Tasks!Ready) => (cli.at = "waiting" ~> cli.at # "waiting")
=============================================================================
