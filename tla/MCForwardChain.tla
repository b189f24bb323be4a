--------------------------- MODULE MCForwardChain ---------------------------
(* Two overlapping scripts.                                                *)
EXTENDS ForwardChain, TLC

CONSTANTS p1, p2

MCProc == {p1, p2}
MCOneProc == {p1}

\* The second script is one that edits the jumps, or gives up the chains.
MCRuns == [p \in MCProc |-> IF p = p1 THEN Command ELSE {"setup", "remove"}]
MCOneRuns == [p \in MCOneProc |-> Command]

\* Two triggers for numbers that shift, two interfaces for a second round.
MCMost == [PORT_TRIGGER_RESET |-> 2, setup |-> 1, remove |-> 0, update_wan |-> 2,
           update_ip |-> 1]
=============================================================================
