\* Two users, two requests at a time, two items one after the other on one id,
\* two requests about attachments with one id and one content.
SPECIFICATION MCSpec
CONSTANTS
  Users = {u1, u2}
  Workers = {w1, w2}
  Statements = {s1, s2}
  MaxItems = 2
  MaxId = 1
  Shas = {x}
  Linkers = {l1, l2}
  MaxAtt = 1
  None = none
INVARIANTS
  LinkedTypeOK
  LossNeedsOverlap
  ForeignLinkNeedsCause
  LinksNeverDangle
PROPERTIES
  MeddlingNeedsReuse
  DoneStaysDone
  AttachmentsAreOwn
SYMMETRY Permutable
CHECK_DEADLOCK FALSE
