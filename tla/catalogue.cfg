\* Two creations, one of them by the CLI, a PATCH, two runs of seed.py and a
\* client that reads all pages.
SPECIFICATION Spec
SYMMETRY Interchangeable
CONSTANTS
  Writer = {w1, w2}
  Cli = {w2}
  Patcher = {p1}
  Seeder = {s1, s2}
  User = {u1}
  Registry = Registry
  Slug <- Slugs
  SeedSlug = 2
  Limit = 1
INVARIANTS SlugIsUnique AnswerTellsSlug SeedConverges WalkIsComplete
