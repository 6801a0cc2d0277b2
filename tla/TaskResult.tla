----------------------------- MODULE TaskResult -----------------------------
(***************************************************************************)
(* What the result backend promises of the contamination jobs, whatever    *)
(* happens to their runs: a job that nobody has picked up is PENDING, a    *)
(* job that was picked up never looks untouched again, and SUCCESS is      *)
(* final.  FAILURE is not: a redelivered message starts the job again.     *)
(* (Results expire after result_expires, a day, which this leaves out.)    *)
(***************************************************************************)
CONSTANT Job

VARIABLE result

Result == {"PENDING", "STARTED", "RETRY", "FAILURE", "SUCCESS"}

Ready == {"FAILURE", "SUCCESS"}

Init == result = [j \in Job |-> "PENDING"]

Report(j) ==
  /\ result[j] # "SUCCESS"
  /\ \E state \in Result \ {"PENDING"} : result' = [result EXCEPT ![j] = state]

Next == \E j \in Job : Report(j)

Spec == Init /\ [][Next]_result
=============================================================================
