SPECIFICATION Spec
CONSTANTS
  Polls = 1
  MaxSessions = 2
  MaxOpen = 2
INVARIANTS
  WaitsForSomething
  WaitBoxCloses
  PollsBounded
PROPERTIES
  CancelledIsQuiet
  PollingEnds
