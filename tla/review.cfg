\* Three actions on a benchmark or a report, any of which may overlap, and one
\* page that is loaded meanwhile.
CONSTANTS
  Action = {a1, a2, a3}
  Reviewer = {u1, u2}
  Note = {n1, n2}
  Nothing = Nothing
SYMMETRY Interchangeable
SPECIFICATION Spec
INVARIANTS BadgeSettles LatestReviewShows ResolutionSettles TrailExplainsRow
CHECK_DEADLOCK FALSE
