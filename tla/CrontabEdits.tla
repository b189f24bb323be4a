---------------------------- MODULE CrontabEdits ----------------------------
(***************************************************************************)
(* What a script that edits the crontab promises as long as no other one   *)
(* overlaps it: to put as many lines of its kind as it was asked for in    *)
(* the place of those there are, at once and without touching the lines of *)
(* others, or, if the power goes meanwhile, to leave the old crontab, the  *)
(* others' lines with some of its own, or nothing.  While scripts overlap, *)
(* everything is open until the last one has ended.                        *)
(***************************************************************************)
EXTENDS Naturals

CONSTANTS
  Kind,    \* the kinds of lines
  Asked,   \* what a script may be asked for: a kind of lines, and how many
  HasDir   \* is there a place for the crontab?

VARIABLES lines, stage, asked

vars == <<lines, stage, asked>>

Lines == [Kind -> Nat]
NoLines == [k \in Kind |-> 0]

With(n) == IF HasDir THEN [lines EXCEPT ![asked[1]] = n] ELSE lines

Init == lines = NoLines /\ stage = "rest" /\ asked = <<>>

Begin ==
  /\ stage = "rest" /\ stage' = "doing"
  /\ asked' \in Asked /\ lines' = lines

Make ==
  /\ stage = "doing" /\ stage' = "made"
  /\ lines' = With(asked[2]) /\ asked' = asked

Rest == stage' = "rest" /\ asked' = <<>>

End == stage = "made" /\ Rest /\ lines' = lines

\* The power goes in the middle of it.
Cut ==
  /\ stage = "doing" /\ Rest
  /\ lines' \in {lines, NoLines} \cup {With(n) : n \in 0..asked[2]}

Overlap ==
  /\ stage # "rest" /\ stage' = "open"
  /\ asked' = <<>> /\ lines' \in Lines

Settle == stage = "open" /\ Rest /\ lines' \in Lines

Next == Begin \/ Make \/ End \/ Cut \/ Overlap \/ Settle

Spec == Init /\ [][Next]_vars
=============================================================================
