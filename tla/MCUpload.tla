------------------------------ MODULE MCUpload ------------------------------
EXTENDS Upload, TLC

\* Two folders, the root is one of them; two chains are enough for one to move
\* the positions of the other.
MCFolder == {"/", "/a/"}
=============================================================================
