SPECIFICATION Spec
CONSTANTS
  s1 = s1
  s2 = s2
  r1 = r1
  r2 = r2
  Session <- MCSession
  Content <- MCContent
  Ip = {"i1", "i2"}
  Mac <- MCMac
  Lower <- MCLower
  Pages = {"portmap", "staticroute", "dnfilter", "porttrigger", "ipfilter", "fixedip"}
  Faults <- MCFaults
  Fields <- MCFields
  Limit <- MCLimit
  MaxLen <- MCMaxLen
SYMMETRY MCSymmetry
INVARIANTS
  TypeOK
  NoTwinRoutes
  NoTwinAddresses
  LimitHolds
  ShownIsSaved
PROPERTY HitsWhatWasPicked
