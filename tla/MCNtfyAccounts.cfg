\* One user, two threads and the operator; a creation and three rotations.
SPECIFICATION Spec
CONSTANTS
  Users = {u1}
  Threads = {t1, t2}
  Operator = operator
  Topics = {a, b, c, d}
  None = none
INVARIANTS
  TypeOK
  StrayNeedsCause
  DisabledNeedsCause
  CredentialsWork
SYMMETRY Permutable
CHECK_DEADLOCK FALSE
