SPECIFICATION Spec
CONSTANTS
  free = free
  pro = pro
  f1 = f1
  p1 = p1
  p2 = p2
  Users = {free, pro}
  Jobs = {f1, p1, p2}
  Owner <- MCOwner
  Plan <- MCPlan
  ProBase = 1
  OtherBase = 3
  MaxRuns = 2
SYMMETRY UploadSymmetry
INVARIANTS TypeOK
PROPERTIES PaidFirst
\* Uploads come to an end.
CHECK_DEADLOCK FALSE
