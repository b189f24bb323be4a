---------------------------- MODULE MCDnSchedule ----------------------------
(* Short days, one section and two runs of the script.                     *)
EXTENDS DnSchedule

CONSTANTS a, j1, j2

MCSection == {a}
MCJob == {j1, j2}
=============================================================================
