---------------------------- MODULE MCRuleTable ----------------------------
(* Two browsers on the same page; browsers and rules are interchangeable.  *)
EXTENDS RuleTable, TLC

CONSTANTS s1, s2, r1, r2

MCSession == {s1, s2}
MCContent == {r1, r2}
MCSymmetry == Permutations(MCSession) \cup Permutations(MCContent)

\* Two MAC addresses, one of which can be spelled in two ways.
MCMac == {"a", "A", "b"}
MCLower == [m \in MCMac |-> IF m = "A" THEN "a" ELSE m]

\* Three rules are one more than a full list and one further session allow; a
\* page with settings has fewer, since every combination of both is reached.
MCLimit == [portmap |-> 1, porttrigger |-> 1, staticroute |-> 1, fixedip |-> 2,
            dnfilter |-> 1, ipfilter |-> 1]
MCMaxLen == [portmap |-> 3, porttrigger |-> 2, staticroute |-> 2, fixedip |-> 2,
             dnfilter |-> 1, ipfilter |-> 1]
MCFields == [portmap |-> {}, porttrigger |-> {}, staticroute |-> {}, fixedip |-> {},
             dnfilter |-> {"off"}, ipfilter |-> {"off"}]

\* Reads fail, or answers are lost, or requests are refused only.  Where the
\* page of the IP filter fails to read the policy, its user need not choose one
\* to have another.
MCFaults == [portmap |-> {}, porttrigger |-> {"lost"}, staticroute |-> {"blind"},
             fixedip |-> {}, dnfilter |-> {"blind"}, ipfilter |-> {"blind"}]
=============================================================================
