SPECIFICATION Spec
CONSTANTS
  p1 = p1
  p2 = p2
  Proc <- MCProc
  HasDir = TRUE
  MaxSections = 1
  MaxRuns = 3
SYMMETRY MCSymmetry
INVARIANTS
  EditIsExact
  ForeignLinesKept
  TmpIsTransient
  RebootArmed
PROPERTY EditsSpec
