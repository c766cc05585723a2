SPECIFICATION FairSpec
CONSTANTS
  u1 = u1
  j1 = j1
  j2 = j2
  Jobs = {j1}
  Users = {u1}
  Owner <- OneOwner
  Minutes <- OneMinute
  Quota <- LargeQuota
  Translated = {j1}
  Managed = {j1}
  MaxAttempts = 2
  MaxPosts = 1
  MaxRuns = 2
  MaxFaults = 0
  Reports = {}
PROPERTIES UploadsSettle CompletionIsDelivered
\* Nothing is left to do once the one upload is over.
CHECK_DEADLOCK FALSE
