---------------------------- MODULE MCJobPolling ----------------------------
(* JobPolling for TLC.  No symmetry: liveness is checked.                  *)
EXTENDS JobPolling
=============================================================================
