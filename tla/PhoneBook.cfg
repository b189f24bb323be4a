SPECIFICATION Spec
CONSTANTS
  Cap = 3
  SimCap = 1
  PageCap = 2
  MaxMade = 4
  Worlds = {{}, {"lost", "sim"}, {"others", "sim"}}
INVARIANTS
  HitsWhatWasPicked
  DeletedMeansGone
  NoPageBeyondLast
