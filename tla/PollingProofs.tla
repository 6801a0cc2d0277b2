--------------------------- MODULE PollingProofs ---------------------------
(***************************************************************************)
(* Proofs about JobPolling, the clients that wait for a job, for any       *)
(* number of jobs, overlapping polls, attempts and outages.                *)
(***************************************************************************)
EXTENDS JobPolling, TLAPS

\* A poll on its way asks for a job, and "completed" is said of a job that has
\* succeeded, which no later report takes back.
PollInv ==
  \A p \in Poll \cup {Cli} :
    /\ poll[p].at # "none" => poll[p].job \in Job
    /\ poll[p].at = "back" /\ poll[p].said = "completed" => result[poll[p].job] = "SUCCESS"

\* The command line waits for one job, and while its poll is on its way it
\* does nothing else.
CliInv ==
  /\ cli.at \in {"waiting", "ok"} => cli.job \in Job
  /\ poll[Cli].at # "none" => cli.at = "waiting" /\ poll[Cli].job = cli.job
  /\ cli.at = "ok" => result[cli.job] = "SUCCESS"

\* A poll of the page that is not of the job whose effect is installed is of a
\* job that was cleaned up, so its answer is ignored; while a check is being
\* posted that is every poll.
PageInv ==
  /\ active # NoJob => active = current /\ active \in started \ cancelled
  /\ cancelled \subseteq started
  /\ ticking => active # NoJob
  /\ posting => active = NoJob /\ reports = NoJob /\ Unstarted # {}
  /\ \A p \in Poll : poll[p].at # "none" => poll[p].job \in cancelled \cup ({active} \ {NoJob})
  /\ reports # NoJob => reports = current /\ result[reports] = "SUCCESS"

ClientInv == TypeOK /\ PollInv /\ CliInv /\ PageInv

USE ConstantsAssumption DEF pageVars, Answer, NoPoll

LEMMA ClientInit == Init => ClientInv
<1> SUFFICES ASSUME Init PROVE ClientInv
  OBVIOUS
<1>1. {loading, posting, ticking, error} \subseteq BOOLEAN
  BY DEF Init
<1>2. TypeOK
  BY <1>1 DEF Init, TypeOK, Tasks!Init, Tasks!Result
<1>3. PollInv /\ CliInv /\ PageInv
  BY DEF Init, PollInv, CliInv, PageInv
<1>4. QED
  BY <1>2, <1>3 DEF ClientInv

Slip ==
  [job : Job \cup {NoJob}, at : {"none", "first", "second", "back"},
   said : Answer \cup {"none"}]

\* What Say does to the polls.
LEMMA Said ==
  ASSUME TypeOK, NEW p \in Poll \cup {Cli}, NEW what \in Answer, Say(p, what)
  PROVE  /\ poll' \in [Poll \cup {Cli} -> Slip]
         /\ poll'[p].job = poll[p].job /\ poll'[p].at = "back" /\ poll'[p].said = what
         /\ \A q \in (Poll \cup {Cli}) \ {p} : poll'[q] = poll[q]
<1>1. PICK mid : mid = [poll EXCEPT ![p].at = "back"]
  OBVIOUS
<1>2. poll[p] \in Slip /\ poll \in [Poll \cup {Cli} -> Slip]
  BY DEF TypeOK, Slip
<1>3. mid \in [Poll \cup {Cli} -> Slip] /\ mid[p] = [poll[p] EXCEPT !.at = "back"]
  BY <1>1, <1>2 DEF Slip
<1>4. poll' = [mid EXCEPT ![p].said = what]
  BY <1>1 DEF Say
<1>5. poll'[p] = [mid[p] EXCEPT !.said = what]
  BY <1>3, <1>4
<1>6. poll'[p] \in Slip
  BY <1>2, <1>3, <1>5 DEF Slip
<1>7. \A q \in (Poll \cup {Cli}) \ {p} : poll'[q] = poll[q]
  BY <1>1, <1>2, <1>3, <1>4
<1>8. poll' \in [Poll \cup {Cli} -> Slip]
  BY <1>3, <1>4, <1>6
<1>9. QED
  BY <1>2, <1>3, <1>5, <1>7, <1>8 DEF Slip

\* A poll that is answered truthfully disturbs nobody.
LEMMA AnswerKeeps ==
  ASSUME ClientInv, NEW p \in Poll \cup {Cli}, poll[p].at \in {"first", "second"},
         NEW what \in Answer, Say(p, what),
         what = "completed" => result[poll[p].job] = "SUCCESS",
         outages' \in 0..MaxOutages,
         UNCHANGED <<enabled, started, result, cli, pageVars>>
  PROVE  ClientInv'
<1> USE DEF ClientInv
<1>1. /\ poll' \in [Poll \cup {Cli} -> Slip]
      /\ poll'[p].job = poll[p].job /\ poll'[p].at = "back" /\ poll'[p].said = what
      /\ \A q \in (Poll \cup {Cli}) \ {p} : poll'[q] = poll[q]
  BY Said
<1>2. TypeOK'
  BY <1>1 DEF TypeOK, Slip
<1>3. PollInv'
  BY <1>1 DEF PollInv
<1>4. CliInv'
  <2>1. CASE p = Cli
    BY <1>1, <2>1 DEF CliInv
  <2>2. CASE p # Cli
    BY <1>1, <2>2 DEF CliInv
  <2>3. QED
    BY <2>1, <2>2
<1>5. PageInv'
  BY <1>1 DEF PageInv, Unstarted
<1>6. QED
  BY <1>2, <1>3, <1>4, <1>5

LEMMA ClientStep == ClientInv /\ [Next]_vars => ClientInv'
<1> SUFFICES ASSUME ClientInv, [Next]_vars PROVE ClientInv'
  OBVIOUS
<1> USE DEF ClientInv
<1>1. CASE UNCHANGED vars
  BY <1>1 DEF vars, TypeOK, PollInv, CliInv, PageInv, Unstarted
<1>2. ASSUME NEW j \in Job, Work(j) PROVE ClientInv'
  <2>1. PICK state \in Tasks!Result : result' = [result EXCEPT ![j] = state]
    BY <1>2 DEF Work, Tasks!Report
  <2>2. UNCHANGED <<enabled, started, poll, cli, pageVars, outages>>
    BY <1>2 DEF Work
  <2>3. \A i \in Job : result[i] = "SUCCESS" => result'[i] = "SUCCESS"
    BY <1>2, <2>1 DEF Work, Tasks!Report, TypeOK
  <2>4. TypeOK'
    BY <2>1, <2>2 DEF TypeOK
  <2>5. PollInv' /\ CliInv'
    BY <2>2, <2>3 DEF PollInv, CliInv
  <2>6. PageInv'
    BY <2>2, <2>3 DEF PageInv, TypeOK, Unstarted
  <2>7. QED
    BY <2>4, <2>5, <2>6
<1>3. CASE CliStart
  <2>1. poll[Cli].at = "none"
    BY <1>3 DEF CliStart, CliInv
  <2>2. TypeOK'
    BY <1>3 DEF CliStart, TypeOK
  <2>3. PollInv' /\ CliInv'
    BY <1>3, <2>1 DEF CliStart, PollInv, CliInv, TypeOK
  <2>4. PageInv'
    BY <1>3 DEF CliStart, PageInv, Unstarted
  <2>5. QED
    BY <2>2, <2>3, <2>4
<1>4. ASSUME NEW p \in Poll \cup {Cli}, ReadFailed(p) PROVE ClientInv'
  <2> USE <1>4 DEF ReadFailed
  <2>1. CASE ~enabled
    BY <2>1, AnswerKeeps DEF TypeOK
  <2>2. CASE enabled /\ Failed(result[poll[p].job])
    BY <2>2, AnswerKeeps DEF TypeOK
  <2>3. CASE enabled /\ ~Failed(result[poll[p].job]) /\ Successful(result[poll[p].job])
    BY <2>3, AnswerKeeps DEF TypeOK, Successful
  <2>4. CASE poll' = [poll EXCEPT ![p].at = "second"]
    <3>1. /\ poll'[p].job = poll[p].job /\ poll'[p].at = "second"
          /\ \A q \in (Poll \cup {Cli}) \ {p} : poll'[q] = poll[q]
      BY <2>4 DEF TypeOK
    <3>2. TypeOK'
      BY <2>4 DEF TypeOK
    <3>3. PollInv' /\ CliInv'
      BY <3>1 DEF PollInv, CliInv
    <3>4. PageInv'
      BY <3>1 DEF PageInv, Unstarted
    <3>5. QED
      BY <3>2, <3>3, <3>4
  <2>5. QED
    BY <2>1, <2>2, <2>3, <2>4
<1>5. ASSUME NEW p \in Poll \cup {Cli}, ReadSuccessful(p) PROVE ClientInv'
  <2>1. CASE Successful(result[poll[p].job])
    BY <1>5, <2>1, AnswerKeeps DEF ReadSuccessful, Successful, TypeOK
  <2>2. CASE ~Successful(result[poll[p].job])
    BY <1>5, <2>2, AnswerKeeps DEF ReadSuccessful, TypeOK
  <2>3. QED
    BY <2>1, <2>2
<1>6. ASSUME NEW p \in Poll \cup {Cli}, GoDown(p) PROVE ClientInv'
  BY <1>6, AnswerKeeps DEF GoDown, TypeOK
<1>7. CASE CliPoll
  <2>1. /\ poll'[Cli] = [job |-> cli.job, at |-> "first", said |-> "none"]
        /\ \A q \in Poll : poll'[q] = poll[q]
    BY <1>7 DEF CliPoll, Ask, TypeOK
  <2>2. TypeOK'
    BY <1>7 DEF CliPoll, Ask, TypeOK
  <2>3. PollInv' /\ CliInv'
    BY <1>7, <2>1 DEF CliPoll, PollInv, CliInv
  <2>4. PageInv'
    BY <1>7, <2>1 DEF CliPoll, PageInv, Unstarted
  <2>5. QED
    BY <2>2, <2>3, <2>4
<1>8. CASE CliHear
  <2>1. /\ poll'[Cli] = NoPoll
        /\ \A q \in Poll : poll'[q] = poll[q]
    BY <1>8 DEF CliHear, TypeOK
  <2>2. TypeOK'
    BY <1>8 DEF CliHear, TypeOK
  <2>3. cli'.job = cli.job /\ (cli'.at = "ok" => poll[Cli].said = "completed")
    BY <1>8 DEF CliHear, TypeOK
  <2>4. PollInv' /\ CliInv'
    BY <1>8, <2>1, <2>3 DEF CliHear, PollInv, CliInv
  <2>5. PageInv'
    BY <1>8, <2>1 DEF CliHear, PageInv, Unstarted
  <2>6. QED
    BY <2>2, <2>4, <2>5
<1>9. CASE Submit
  <2>1. TypeOK'
    BY <1>9 DEF Submit, TypeOK
  <2>2. PollInv' /\ CliInv' /\ PageInv'
    BY <1>9 DEF Submit, PollInv, CliInv, PageInv, Unstarted
  <2>3. QED
    BY <2>1, <2>2
<1>10. CASE Accepted
  <2>1. PICK j : j = CHOOSE fresh \in Unstarted : TRUE
    OBVIOUS
  <2>2. j \in Unstarted
    BY <1>10, <2>1 DEF Accepted, PageInv
  <2>3. /\ started' = started \cup {j} /\ posting' = FALSE
        /\ active' = j /\ current' = j /\ ticking' = TRUE /\ attempts' = 0
        /\ UNCHANGED <<enabled, result, poll, cli, loading, cancelled, reports, error, outages>>
    BY <1>10, <2>1 DEF Accepted
  <2>4. TypeOK'
    <3>1. {loading', posting', ticking', error'} \subseteq BOOLEAN
      BY <2>3 DEF TypeOK
    <3>2. QED
      BY <2>2, <2>3, <3>1 DEF TypeOK, Unstarted
  <2>5. PollInv' /\ CliInv'
    BY <2>3 DEF PollInv, CliInv
  <2>6. PageInv'
    BY <1>10, <2>2, <2>3 DEF Accepted, PageInv, Unstarted
  <2>7. QED
    BY <2>4, <2>5, <2>6
<1>11. CASE NotAccepted
  <2>1. TypeOK'
    <3>1. {loading', posting', ticking', error'} \subseteq BOOLEAN
      BY <1>11 DEF NotAccepted, TypeOK
    <3>2. QED
      BY <1>11, <3>1 DEF NotAccepted, TypeOK
  <2>2. PollInv' /\ CliInv' /\ PageInv'
    BY <1>11 DEF NotAccepted, PollInv, CliInv, PageInv, Unstarted
  <2>3. QED
    BY <2>1, <2>2
<1>12. CASE Cleanup
  <2>1. TypeOK'
    <3>1. {loading', posting', ticking', error'} \subseteq BOOLEAN
      BY <1>12 DEF Cleanup, TypeOK
    <3>2. QED
      BY <1>12, <3>1 DEF Cleanup, TypeOK
  <2>2. PollInv' /\ CliInv' /\ PageInv'
    BY <1>12 DEF Cleanup, PollInv, CliInv, PageInv, Unstarted
  <2>3. QED
    BY <2>1, <2>2
<1>13. ASSUME NEW p \in Poll, Fire(p) PROVE ClientInv'
  <2>1. /\ poll'[p] = [job |-> active, at |-> "first", said |-> "none"]
        /\ \A q \in (Poll \cup {Cli}) \ {p} : poll'[q] = poll[q]
    BY <1>13 DEF Fire, Ask, TypeOK
  <2>2. TypeOK'
    <3>1. attempts' \in 0..(MaxAttempts + 1)
      BY <1>13 DEF Fire, TypeOK
    <3>2. poll' \in [Poll \cup {Cli} -> Slip]
      BY <1>13 DEF Fire, Ask, TypeOK, Slip
    <3>3. QED
      BY <1>13, <3>1, <3>2 DEF Fire, TypeOK, Slip
  <2>3. active \in Job
    BY <1>13 DEF Fire, PageInv, TypeOK
  <2>4. PollInv' /\ CliInv'
    BY <1>13, <2>1, <2>3 DEF Fire, PollInv, CliInv
  <2>5. PageInv'
    BY <1>13, <2>1 DEF Fire, PageInv, Unstarted
  <2>6. QED
    BY <2>2, <2>4, <2>5
<1>14. ASSUME NEW p \in Poll, Hear(p) PROVE ClientInv'
  <2> DEFINE outcome == IF Ignored(p) THEN "more" ELSE Outcome(poll[p].said)
  <2>1. /\ poll'[p] = NoPoll
        /\ \A q \in (Poll \cup {Cli}) \ {p} : poll'[q] = poll[q]
    BY <1>14 DEF Hear, TypeOK
  <2>2. TypeOK' /\ CliInv' /\ PollInv'
    <3>1. poll' \in [Poll \cup {Cli} -> Slip]
      BY <1>14 DEF Hear, TypeOK, Slip
    <3>2. {loading', posting', ticking', error'} \subseteq BOOLEAN
      BY <1>14 DEF Hear, TypeOK
    <3>3. reports' \in Job \cup {NoJob}
      BY <1>14 DEF Hear, TypeOK
    <3>4. TypeOK'
      BY <1>14, <3>1, <3>2, <3>3 DEF Hear, TypeOK, Slip
    <3>5. QED
      BY <1>14, <2>1, <3>4 DEF Hear, CliInv, PollInv
  <2>3. PageInv'
    <3>1. CASE outcome = "more"
      BY <1>14, <2>1, <3>1 DEF Hear, PageInv, Unstarted
    <3>2. CASE outcome # "more"
      <4>1. poll[p].at = "back" /\ poll[p].job = active /\ active # NoJob
        BY <1>14, <3>2 DEF Hear, PageInv, Ignored
      <4>2. outcome = "reports" => poll[p].said = "completed"
        BY DEF Outcome
      <4>3. outcome = "reports" => result[active] = "SUCCESS"
        BY <4>1, <4>2 DEF PollInv
      <4>4. /\ ticking' = FALSE
            /\ reports' = IF outcome = "reports" THEN active ELSE reports
            /\ UNCHANGED <<started, result, posting, active, cancelled, current>>
        BY <1>14, <3>2, <4>1 DEF Hear
      <4>5. QED
        BY <2>1, <4>1, <4>3, <4>4 DEF PageInv, Unstarted
    <3>3. QED
      BY <3>1, <3>2
  <2>4. QED
    BY <2>2, <2>3
<1>15. QED
  BY <1>1, <1>2, <1>3, <1>4, <1>5, <1>6, <1>7, <1>8, <1>9, <1>10, <1>11, <1>12, <1>13, <1>14
     DEF Next, Serve, CliGoesOn, PageGoesOn

LEMMA Client == Spec => []ClientInv
  BY ClientInit, ClientStep, PTL DEF Spec

\* contamination.py:123: the command line exits with success only for a job
\* that has succeeded, although the endpoint reads a result that changes
\* meanwhile and requests fail.
THEOREM CliIsTruthful == Spec => []CliTellsTruth
<1>1. ClientInv => CliTellsTruth
  BY DEF ClientInv, CliInv, CliTellsTruth
<1>2. QED
  BY <1>1, Client, PTL

\* page.tsx:42: however many polls overlap, and however late the answers of an
\* earlier check are, the page shows reports of its last check only.
THEOREM PageIsTruthful == Spec => []PageShowsItsJob
<1>1. ClientInv => PageShowsItsJob
  BY DEF ClientInv, PageInv, PageShowsItsJob
<1>2. QED
  BY <1>1, Client, PTL
=============================================================================
