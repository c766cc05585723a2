SPECIFICATION Spec
CONSTANTS
  u1 = u1
  h1 = h1
  h2 = h2
  s1 = s1
  s2 = s2
  Users = {u1}
  Subs = {s1}
  Owner <- OneOwner
  Tiers = {"STARTER", "PRO"}
  Handlers = {h1, h2}
  NoSub = NoSub
  MaxEvents = 4
  MaxDeliveries = 3
  MaxFaults = 0
PROPERTIES DowngradedStaysFree
\* Nothing is left to do when the last event has been handled.
CHECK_DEADLOCK FALSE
