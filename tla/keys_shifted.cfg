SPECIFICATION Spec
CONSTANTS
  m1 = m1
  m2 = m2
  g1 = g1
  g2 = g2
  r1 = r1
  r2 = r2
  Groups = {g1, g2}
  Pool <- FirstDisabled
  Models = {m1}
  Tiers <- OneTier
  AllowLowerTier = TRUE
  Requests = {r1}
  Outcomes = {"answered", "rate_limited"}
  MaxRouteAttempts = 2
  SameRouteRetries = 0
  RetryAfterMax = 2
  Period = 1
  RouteCooldowns = {2}
  QuotaOpen = {5}
  KeyStep = 1
  TripGroups = 2
  TripWindow = 1
  ModelOpen = 1
  MissingGroups = 2
  MissingWindow = 1
  MissingCooldown = 2
  OverloadThreshold = 2
  OverloadWindow = 1
  OverloadOpen = 1
PROPERTY DialsOwnAccount
