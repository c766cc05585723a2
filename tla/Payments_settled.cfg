SPECIFICATION Spec
CONSTANTS
  u1 = u1
  h1 = h1
  h2 = h2
  s1 = s1
  s2 = s2
  Users = {u1}
  Subs = {s1, s2}
  Owner <- OneOwner
  Tiers = {"STARTER", "PRO"}
  Handlers = {h1}
  NoSub = NoSub
  MaxEvents = 7
  MaxDeliveries = 7
  MaxFaults = 0
CONSTRAINT OrderlySoFar
INVARIANTS SettledInSync
\* Nothing is left to do when the last event has been handled.
CHECK_DEADLOCK FALSE
