SPECIFICATION Spec
CONSTANTS
  r1 = r1
  r2 = r2
  Requests = {r1}
  Limit = 1
  KeepAlives = TRUE
  MaxEvents = 1
  MaxChunks = 1
INVARIANT FramesStandAlone
