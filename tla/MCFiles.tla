------------------------------ MODULE MCFiles ------------------------------
(* A card with a folder and two files: g is the name that the shared page    *)
(* hides in its root, gx one with a letter that takes two bytes; as the page *)
(* reads them, the two names differ in case alone.                           *)
EXTENDS Files

MCName == {"D", "gx", "g"}
MCDirs == {"D"}
MCDecoded == [D |-> "D", gx |-> ".GITIGNORE", g |-> ".gitignore"]
MCLower == [D |-> 1, gx |-> 2, g |-> 2]
MCSize == [D |-> 0, gx |-> 2, g |-> 1]
MCDate == [D |-> 2, gx |-> 1, g |-> 2]
MCCard == [r |-> {"D", "gx"}, d |-> {}]
MCChild == [c \in {<<"r", "D">>} |-> "d"]

=============================================================================
