SPECIFICATION FairSpec
CONSTANTS
  r1 = r1
  r2 = r2
  Requests = {r1, r2}
  Limit = 1
  KeepAlives = TRUE
  MaxEvents = 2
  MaxChunks = 1
INVARIANTS
  CountedOnce
  PermitsConserved
  VerdictMatchesStream
  DisconnectsAreReal
PROPERTIES PermitComesBack ImplementsSlots
