SPECIFICATION Spec
CONSTANTS
  PageCap = 2
  MaxId = 4
  Worlds = {{"lost"}, {"others"}}
INVARIANTS
  SendNamesOpenDraft
  DeletedMeansGone
