SPECIFICATION FairSpec
CONSTANTS
  a = a
  j1 = j1
  j2 = j2
  Day = 2
  Section <- MCSection
  Job <- MCJob
  MaxEvents = 3
INVARIANTS
  TypeOK
  BlockedOnSchedule
PROPERTY Heals
