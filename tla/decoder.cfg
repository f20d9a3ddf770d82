SPECIFICATION Spec
CONSTANTS
  Limit = 6
  Run = 4
  MaxChunk = 3
  MaxStream = 7
INVARIANTS EventsMatchStream 
PROPERTY GivesUpWhenTooLong
CHECK_DEADLOCK FALSE
