SPECIFICATION FairSpec
CONSTANTS
  u1 = u1
  j1 = j1
  j2 = j2
  Jobs = {j1}
  Users = {u1}
  Owner <- OneOwner
  Minutes <- OneMinute
  Quota <- LargeQuota
  Translated = {}
  Managed = {j1}
  MaxAttempts = 1
  MaxPosts = 1
  MaxRuns = 1
  MaxFaults = 0
  Reports = {}
PROPERTIES CompletedIsTranscribed
CHECK_DEADLOCK FALSE
