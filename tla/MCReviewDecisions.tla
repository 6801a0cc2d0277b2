----------------------- MODULE MCReviewDecisions -----------------------
(* ReviewDecisions for TLC: actions, reviewers and notes are each          *)
(* interchangeable.                                                        *)
EXTENDS ReviewDecisions, TLC

Interchangeable ==
  Permutations(Action) \cup Permutations(Reviewer) \cup Permutations(Note)
=============================================================================
