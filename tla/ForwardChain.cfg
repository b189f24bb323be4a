SPECIFICATION FairSpec
CONSTANTS
  p1 = p1
  p2 = p2
  Proc <- MCProc
  Runs <- MCRuns
  Most <- MCMost
  MaxRules = 5
  MaxShared = 3
INVARIANT EditIsExact
PROPERTY ScriptsEnd
