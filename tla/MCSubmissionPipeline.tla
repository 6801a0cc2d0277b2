----------------------- MODULE MCSubmissionPipeline -----------------------
(* SubmissionPipeline for TLC: every constant has its value in the cfg.    *)
(* There is no symmetry set, because liveness is checked.                  *)
EXTENDS SubmissionPipeline
=============================================================================
