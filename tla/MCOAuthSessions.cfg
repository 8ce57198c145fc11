\* Two threads race each other, the event loop and the operator.
SPECIFICATION Spec
CONSTANTS
  Users = {u1, u2}
  Threads = {th1, th2}
  EventLoop = loop
  Connectors = {c1}
  Dashboard = dash
  CodeIds = {k1}
  TokenIds = {t1, t2, t3}
  Legacy = {}
  None = none
  Unopened = unopened
  Over = over
INVARIANTS
  TypeOK
  ConnectorSingleUse
  CodeOpensOneSession
  ConnectorReuseKillsFamily
  FamilyHasOneOwner
PROPERTIES
  SpentTokenStaysSpent
  EndedFamilyStaysEnded
  CutOffUserStaysOut
  RefinesChain
SYMMETRY Permutable
CHECK_DEADLOCK FALSE
