SPECIFICATION FairSpec
CONSTANTS
  m1 = m1
  m2 = m2
  g1 = g1
  g2 = g2
  r1 = r1
  r2 = r2
  Groups = {g1, g2}
  Pool <- BigAccount
  Models = {m1, m2}
  Tiers <- TwoTiers
  AllowLowerTier = FALSE
  Requests = {r1}
  Outcomes = {"answered", "overloaded", "rate_limited", "quota", "rejected", "forbidden", "not_found", "invalid", "unknown", "cancelled"}
  MaxRouteAttempts = 3
  SameRouteRetries = 1
  RetryAfterMax = 1
  Period = 2
  RouteCooldowns = {1, 2}
  QuotaOpen = {2}
  KeyStep = 1
  TripGroups = 2
  TripWindow = 1
  ModelOpen = 1
  MissingGroups = 2
  MissingWindow = 1
  MissingCooldown = 2
  OverloadThreshold = 2
  OverloadWindow = 1
  OverloadOpen = 1
PROPERTY Answers
