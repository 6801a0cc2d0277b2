---------------------- MODULE MCContaminationWorker ----------------------
(* ContaminationWorker for TLC.  No symmetry: liveness is checked.         *)
EXTENDS ContaminationWorker
=============================================================================
