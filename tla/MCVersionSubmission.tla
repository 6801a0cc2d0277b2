----------------------- MODULE MCVersionSubmission -----------------------
(* VersionSubmission for TLC: the submissions are interchangeable, and so  *)
(* are the version strings.                                                *)
EXTENDS VersionSubmission, TLC

Interchangeable == Permutations(Request) \cup Permutations(Version)
=============================================================================
