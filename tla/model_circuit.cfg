SPECIFICATION FairSpec
CONSTANTS
  a1 = a1
  a2 = a2
  a3 = a3
  g1 = g1
  g2 = g2
  g3 = g3
  Attempts = {a1, a2}
  Groups = {g1, g2, g3}
  Outcomes = {"answered", "failed", "missing", "other", "cancelled"}
  TripGroups = 2
  TripWindow = 1
  ModelOpen = 2
  MissingGroups = 2
  MissingWindow = 1
  MissingCooldown = 2
INVARIANTS ProbeSlotHeld OpenCountedOnce
PROPERTIES OpensOnDistinctGroups MissingOnDistinctGroups SelectableAgain
