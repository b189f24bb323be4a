SPECIFICATION ChainSpec
CONSTANTS
  p1 = p1
  p2 = p2
  Proc <- MCOneProc
  Runs <- MCOneRuns
  Most <- MCMost
  MaxRules = 6
  MaxShared = 6
INVARIANT OldJumpsRemoved
