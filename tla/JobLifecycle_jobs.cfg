SPECIFICATION Spec
CONSTANTS
  u1 = u1
  j1 = j1
  j2 = j2
  Jobs = {j1}
  Users = {u1}
  Owner <- OneOwner
  Minutes <- OneMinute
  Quota <- SmallQuota
  Translated = {j1}
  Managed = {j1}
  MaxAttempts = 1
  MaxPosts = 2
  MaxRuns = 2
  MaxFaults = 2
  Reports = {100}
INVARIANTS TypeOK StatusHasCause FullProgressIsEarned TranscribedWasBilled UsageIsLedger
PROPERTIES NoResurrection LedgerSpec
CONSTRAINT RetryOrRepost
\* Nothing is left to do once the uploads are over.
CHECK_DEADLOCK FALSE
