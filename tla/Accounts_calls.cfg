SPECIFICATION Spec
CONSTANTS
  u1 = u1
  h1 = h1
  h2 = h2
  Users = {u1}
  Handlers = {h1, h2}
  None = None
  TokenLife = 1
  AccessLife = 2
  LinkLife = 0
  Day = 1
  MaxTime = 2
  MaxLinks = 3
  MaxSessions = 2
SYMMETRY HandlerSymmetry
INVARIANTS TypeOK LogoutIsFinal OneTokenPerSession NewestLinkWorks
\* Nothing is left to do at the end of time.
CHECK_DEADLOCK FALSE
