SPECIFICATION FairHistorySpec
CONSTANTS
  r1 = r1
  r2 = r2
  r3 = r3
  MaxRouteAttempts = 2
  OverloadThreshold = 3
  OverloadWindow = 2
  OverloadOpen = 2
  QuotaOpen = {3}
  Requests = {r1, r2}
  Unreported = {"rate_limited"}
PROPERTY AdmitsAgain
