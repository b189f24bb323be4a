SPECIFICATION Spec
CONSTANTS
  PageCap = 2
  MaxId = 4
  Worlds = {{"narrow"}}
INVARIANTS
  DeletedMeansGone
