------------------------------ MODULE Transfer ------------------------------
(***************************************************************************)
(* What the upload of a file promises as long as nothing disturbs it: its  *)
(* chunks arrive one by one, it is done when all of them have arrived, and *)
(* after a cancellation the file is gone.  Once it is disturbed (a chunk   *)
(* fails, a second chain of requests is started, ...), everything is open  *)
(* until the next upload.                                                  *)
(***************************************************************************)
EXTENDS Integers

CONSTANT Chunks  \* bound: the length of a file

VARIABLES state, sent, size

vars == <<state, sent, size>>

Init == state = "idle" /\ sent = 0 /\ size = 0

Start ==
  /\ state' = "sending" /\ sent' = 0
  /\ size' \in 1..Chunks

Send ==
  /\ state = "sending" /\ sent < size
  /\ sent' = sent + 1
  /\ UNCHANGED <<state, size>>

End(how) == state' = how /\ sent' = 0 /\ size' = 0

\* All has arrived, with the chunk that arrives now at the latest.
Finish == state = "sending" /\ sent >= size - 1 /\ End("done")

Cancel == state = "sending" /\ End("gone")

Disturb == End("open")

Next == Start \/ Send \/ Finish \/ Cancel \/ Disturb

Spec == Init /\ [][Next]_vars
=============================================================================
