SPECIFICATION FilesSpec
CONSTANTS
  Pages = {"webdav", "shared"}
  Name <- MCName
  Dirs <- MCDirs
  Decoded <- MCDecoded
  Lower <- MCLower
  Size <- MCSize
  Date <- MCDate
  Card <- MCCard
  New = {"g"}
  Folder = {"r", "d"}
  Root = "r"
  Child <- MCChild
  Events = {"lost", "asks", "denied", "pulled", "kept", "other client"}
INVARIANTS RowsAreOfPath ButtonsFit SortKeepsFiles
PROPERTY DeleteHitsMeant
