SPECIFICATION Spec
CONSTANTS
  m1 = m1
  m2 = m2
  g1 = g1
  g2 = g2
  r1 = r1
  r2 = r2
  Groups = {g1, g2}
  Pool <- LastDisabled
  Models = {m1, m2}
  Tiers <- TwoTiers
  AllowLowerTier = TRUE
  Requests = {r1, r2}
  Outcomes = {"answered", "overloaded", "rate_limited", "quota", "rejected", "forbidden", "not_found", "unknown", "cancelled"}
  MaxRouteAttempts = 2
  SameRouteRetries = 0
  RetryAfterMax = 2
  Period = 2
  RouteCooldowns = {2}
  QuotaOpen = {2}
  KeyStep = 1
  TripGroups = 2
  TripWindow = 1
  ModelOpen = 1
  MissingGroups = 2
  MissingWindow = 1
  MissingCooldown = 1
  OverloadThreshold = 2
  OverloadWindow = 1
  OverloadOpen = 1
SYMMETRY Interchangeable
INVARIANTS OneBudget ReservationsHeld
PROPERTIES FailureDomain OneRouteCools RejectedByRaceOnly CooldownsServed DialsOwnAccount BlamedForCause ImplementsGate
