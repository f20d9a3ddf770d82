SPECIFICATION Spec
CONSTANTS
  m1 = m1
  g1 = g1
  g2 = g2
  r1 = r1
  r2 = r2
  r3 = r3
  s1 = s1
  s2 = s2
  Groups = {g1, g2}
  Pool <- TwoAccounts
  Models = {m1}
  Tiers <- OneTier
  AllowLowerTier = TRUE
  Period = 2
  RouteCooldowns = {1}
  KeyStep = 1
  TripGroups = 2
  TripWindow = 1
  ModelOpen = 1
  MissingGroups = 2
  MissingWindow = 1
  MissingCooldown = 2
  Requests = {r1, r2, r3}
  SessionNames = {s1, s2}
  Anonymous = none
  SessionOf <- TwoSessions
  AffinityTTL = 1
  MaxAffinity = 1
  MaxStreak = 1
SYMMETRY Interchangeable
INVARIANTS AffinityBounded PinEarned
PROPERTY PinLostForCause
