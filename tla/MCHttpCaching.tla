--------------------------- MODULE MCHttpCaching ---------------------------
(* HttpCaching for TLC: the attempts are interchangeable.                  *)
EXTENDS HttpCaching, TLC

Interchangeable == Permutations(Attempt)
=============================================================================
