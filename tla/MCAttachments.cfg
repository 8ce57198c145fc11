\* Two users, two contents, a quota of one, two uploads and a deletion at a
\* time, two months.
SPECIFICATION Spec
CONSTANTS
  Users = {u1, u2}
  Shas = {x, y}
  Uploaders = {api, mcp}
  Deleters = {d1}
  MaxMonth = 2
  MaxId = 2
  Quota = 1
  None = none
INVARIANTS
  TypeOK
  LossNeedsOverlap
  QuotaOverrunBounded
SYMMETRY Permutable
CHECK_DEADLOCK FALSE
