----------------------------- MODULE MCCrontab -----------------------------
(* Two overlapping scripts, three started in all; their instances are      *)
(* interchangeable.                                                        *)
EXTENDS Crontab, TLC

CONSTANTS p1, p2

MCProc == {p1, p2}
MCSymmetry == Permutations(MCProc)
=============================================================================
