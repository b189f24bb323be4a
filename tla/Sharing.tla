------------------------------ MODULE Sharing ------------------------------
(***************************************************************************)
(* What the modules about the file sharing pages have in common: the page  *)
(* "Network File" (webdav) and the page of the shared files (shared), the  *)
(* folders of the memory card, and the folder that a page is in.           *)
(***************************************************************************)
CONSTANTS
  Pages,      \* the pages to look at
  Folder,     \* folders of the card ...
  Root        \* ... of which one is the root

ASSUME SharingAssumption == Pages \subseteq {"webdav", "shared"} /\ Root \in Folder

VARIABLES
  page,       \* the page this behaviour is about
  Path_Name   \* the folder that its requests name
=============================================================================
