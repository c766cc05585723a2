SPECIFICATION Spec
CONSTANTS
  pro = pro
  honest = honest
  other = other
  Users = {pro}
  Customers = {pro}
  Jobs = {honest, other}
  None = None
  Owner <- MCOwner
  Timed = {honest, other}
  Declared <- MCDeclared
  Stored <- MCStored
  Measured <- MCMeasured
  Tiers <- MCTiers
  Written <- MCWritten
  Quota <- MCQuota
  InitialTier <- MCInitialTier
  Managed = {other}
  MaxRuns <- MCMaxRuns
  MaxPlanChanges = 1
INVARIANTS TypeOK NoBlindOvershoot
\* Uploads come to an end.
CHECK_DEADLOCK FALSE
