SPECIFICATION Spec
CONSTANTS
  r1 = r1
  r2 = r2
  r3 = r3
  r4 = r4
  r5 = r5
  r6 = r6
  Requests = {r1, r2, r3, r4, r5, r6}
  Limit = 2
  QueueCapacity = 2
  Workers = 3
SYMMETRY Interchangeable
INVARIANTS
  PermitsConserved
  CounterExact
  NoIdlePermit
  QueueIsWaiters
  OverrunBounded
PROPERTY ImplementsSlots
