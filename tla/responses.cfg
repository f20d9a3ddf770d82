SPECIFICATION LadderSpec
CONSTANTS
  m1 = m1
  m2 = m2
  g1 = g1
  g2 = g2
  r1 = r1
  r2 = r2
  Groups = {g1, g2}
  Pool <- TwoAccounts
  Models = {m1}
  Tiers <- OneTier
  AllowLowerTier = FALSE
  Requests = {r1, r2}
  Outcomes <- AnyOutcome
  MaxRouteAttempts = 3
  SameRouteRetries = 1
  RetryAfterMax = 2
  Period = 1
  RouteCooldowns <- LadderOrHint
  QuotaOpen = {1}
  KeyStep = 1
  TripGroups = 2
  TripWindow = 1
  ModelOpen = 1
  MissingGroups = 2
  MissingWindow = 1
  MissingCooldown = 1
  OverloadThreshold = 2
  OverloadWindow = 1
  OverloadOpen = 1
  Initial = 1
  LadderMax = 2
  HintMax = 3
  QuotaMax = 2
  MaxWait = 8
  MaxParsed = 9
  MaxShift = 2
  Fallback = 1
  Responses <- SomeResponses
  MaxStreak = 2
INVARIANT CooldownsCapped
PROPERTIES RetryAfterKept
SYMMETRY Interchangeable
