\* Two dashboard requests race with the same refresh token, then it is replayed.
SPECIFICATION Spec
CONSTANTS
  Users = {u1}
  Threads = {th1, th2}
  EventLoop = loop
  Connectors = {}
  Dashboard = dash
  CodeIds = {}
  TokenIds = {t1, t2, t3}
  Legacy = {}
  None = none
  Unopened = unopened
  Over = over
INVARIANT ReuseKillsFamily
SYMMETRY Permutable
CHECK_DEADLOCK FALSE
