---------------------------- MODULE ForwardChain ----------------------------
(***************************************************************************)
(* The scripts that edit iptables' FORWARD chain rule by rule:             *)
(* fw_ui_transfer.sh PORT_TRIGGER_RESET, which replaces the TRIGGER rules, *)
(* and clients_stat.sh setup, remove, update_wan and update_ip, which keep *)
(* two accounting chains and the jumps to them.  Both list the chain with  *)
(* line numbers in one command and delete by number in another, and        *)
(* nothing keeps a second script (a firewall reload runs clients_stat.sh   *)
(* setup) from changing the chain in between.  One step is one iptables    *)
(* command; the two that add a host to an accounting chain are one step.   *)
(*                                                                         *)
(* The specification's own names begin with Chain, so that its proofs can  *)
(* stand beside those of RuleTable, with which it shares module Rows.      *)
(***************************************************************************)
EXTENDS Naturals, Sequences, FiniteSets, Rows

CONSTANTS
  Proc,      \* running instances of the scripts
  Runs,      \* the commands each of them runs: all, or fewer as a bound
  Most,      \* bound: port triggers, hosts or interfaces a command handles
  MaxRules,  \* bound: length that FORWARD may reach by a script that starts ...
  MaxShared  \* ... and by one that starts while another one runs

VARIABLES
  forward, prerouting,  \* the rules of filter FORWARD and nat PREROUTING
  chains, hosts,        \* the accounting chains that exist, those with rules
  pc, op,               \* control point and command of each instance
  numbers,              \* line numbers it has listed
  left,                 \* triggers, hosts or interfaces it still has to handle
  old, want, alone      \* history: the chains and the number of things to
                        \* handle at its start, while no other one has run

locals == <<op, numbers, left>>
remembered == <<old, want, alone>>
chainVars == <<forward, prerouting, chains, hosts, pc, op, numbers, left, old, want,
               alone>>

-----------------------------------------------------------------------------
\* The rules the scripts tell apart: the firewall's own, TRIGGER, the jumps.
Kind == {"firewall", "trigger", "in", "out"}
Jump == {"in", "out"}

\* The accounting chains, by the rules that jump to them: ACCOUNTING_IN, _OUT.
Command == {"PORT_TRIGGER_RESET", "setup", "remove", "update_wan", "update_ip"}

ASSUME ForwardChainAssumption ==
  /\ Runs \in [Proc -> SUBSET Command] /\ Most \in [Command -> Nat]
  /\ MaxRules \in Nat /\ MaxShared \in Nat

\* iptables -L --line-number | grep
Lines(chain, kinds) == {i \in DOMAIN chain : chain[i] \in kinds}

Highest(S) == CHOOSE i \in S : \A k \in S : k <= i
Lowest(S) == CHOOSE i \in S : \A k \in S : i <= k

\* iptables -D chain i
Deleted(chain, i) ==
  [k \in 1..(Len(chain) - 1) |-> chain[IF k < i THEN k ELSE k + 1]]

\* iptables -I chain
Inserted(rule, chain) == <<rule>> \o chain

Running(p) == pc[p] # "idle"

Goto(p, from, to) ==
  /\ pc[p] = from
  /\ pc' = [pc EXCEPT ![p] = to]

-----------------------------------------------------------------------------
Nothing == <<<<>>, <<>>, {}>>

ChainInit ==
  /\ forward = <<"firewall">> /\ prerouting = <<"firewall">>
  /\ chains = {} /\ hosts = {}
  /\ pc = [p \in Proc |-> "idle"]
  /\ op = [p \in Proc |-> "none"]
  /\ numbers = [p \in Proc |-> {}]
  /\ left = [p \in Proc |-> 0]
  /\ old = [p \in Proc |-> Nothing]
  /\ want = [p \in Proc |-> 0]
  /\ alone = [p \in Proc |-> FALSE]

FirstPoint(o, n) ==
  IF o = "PORT_TRIGGER_RESET" THEN "list"
  ELSE IF o = "setup" THEN "new_in"
  ELSE IF o = "remove" THEN "find"
  ELSE IF o = "update_ip" THEN "fill_in"
  ELSE IF n > 0 THEN "jump_in" ELSE "done"

\* Rules that a command may add to FORWARD.
Inserts(o, n) ==
  IF o = "PORT_TRIGGER_RESET" THEN n
  ELSE IF o = "setup" THEN 2 ELSE IF o = "update_wan" THEN 2 * n ELSE 0

Start(p, o, n) ==
  /\ Len(forward) + Inserts(o, n) <=
       IF \E q \in Proc : Running(q) THEN MaxShared ELSE MaxRules
  /\ Goto(p, "idle", FirstPoint(o, n))
  /\ op' = [op EXCEPT ![p] = o]
  /\ left' = [left EXCEPT ![p] = n]
  /\ alone' = [q \in Proc |-> q = p /\ \A r \in Proc \ {p} : ~Running(r)]
  /\ old' = [q \in Proc |-> IF alone'[q] THEN <<forward, prerouting, chains>>
                            ELSE Nothing]
  /\ want' = [q \in Proc |-> IF alone'[q] THEN n ELSE 0]
  /\ UNCHANGED <<forward, prerouting, chains, hosts, numbers>>

-----------------------------------------------------------------------------
(* PORT_TRIGGER_RESET *)

ListTriggers(p) ==
  /\ Goto(p, "list", "delete")
  /\ numbers' = [numbers EXCEPT ![p] = Lines(forward, {"trigger"})]
  /\ UNCHANGED <<forward, prerouting, chains, hosts, op, left, remembered>>

\* Mutant of DeleteTrigger: the rules are deleted in the order listed.
DeleteInListedOrder(p) ==
  /\ numbers[p] # {}
  /\ Goto(p, "delete", "delete")
  /\ LET i == Lowest(numbers[p]) IN
       /\ numbers' = [numbers EXCEPT ![p] = @ \ {i}]
       /\ forward' = IF i \in DOMAIN forward THEN Deleted(forward, i) ELSE forward
  /\ UNCHANGED <<prerouting, chains, hosts, op, left, remembered>>

\* The highest number first, so that the others stay right.
DeleteTrigger(p) ==
  /\ numbers[p] # {}
  /\ Goto(p, "delete", "delete")
  /\ LET i == Highest(numbers[p]) IN
       /\ numbers' = [numbers EXCEPT ![p] = @ \ {i}]
       /\ forward' = IF i \in DOMAIN forward THEN Deleted(forward, i) ELSE forward
  /\ UNCHANGED <<prerouting, chains, hosts, op, left, remembered>>

ListNatTriggers(p) ==
  /\ numbers[p] = {}
  /\ Goto(p, "delete", "nat")
  /\ numbers' = [numbers EXCEPT ![p] = Lines(prerouting, {"trigger"})]
  /\ UNCHANGED <<forward, prerouting, chains, hosts, op, left, remembered>>

DeleteNatTrigger(p) ==
  /\ numbers[p] # {}
  /\ Goto(p, "nat", "nat")
  /\ LET i == Highest(numbers[p]) IN
       /\ numbers' = [numbers EXCEPT ![p] = @ \ {i}]
       /\ prerouting' = IF i \in DOMAIN prerouting THEN Deleted(prerouting, i)
                        ELSE prerouting
  /\ UNCHANGED <<forward, chains, hosts, op, left, remembered>>

InsertTrigger(p) ==
  /\ numbers[p] = {} /\ left[p] > 0
  /\ Goto(p, "nat", "nat")
  /\ left' = [left EXCEPT ![p] = @ - 1]
  /\ forward' = Inserted("trigger", forward)
  /\ UNCHANGED <<prerouting, chains, hosts, op, numbers, remembered>>

\* get_gateway_ip appends the one rule in the nat table.
AppendNatTrigger(p) ==
  /\ numbers[p] = {} /\ left[p] = 0
  /\ Goto(p, "nat", "done")
  /\ prerouting' = Append(prerouting, "trigger")
  /\ UNCHANGED <<forward, chains, hosts, locals, remembered>>

-----------------------------------------------------------------------------
(* clients_stat.sh *)

\* iptables -N, whose failure does not matter.
New(p, c, from, to) ==
  /\ Goto(p, from, to)
  /\ chains' = chains \cup {c}
  /\ UNCHANGED <<forward, prerouting, hosts, locals, remembered>>

NewIn(p) == New(p, "in", "new_in", "new_out")
NewOut(p) == New(p, "out", "new_out", "head")

\* Old jumps are removed only if the first rule of the chain is one.
CheckHead(p) ==
  /\ Goto(p, "head", IF 1 \in Lines(forward, Jump) THEN "find" ELSE "jump_in")
  /\ UNCHANGED <<forward, prerouting, chains, hosts, locals, remembered>>

AfterLoop(p) == IF op[p] = "setup" THEN "jump_in" ELSE "flush_in"

\* Mutant of FindJump: the loop does not look at the outcome.
FindJumpForever(p) ==
  /\ Goto(p, "find", IF Lines(forward, Jump) = {} THEN "find" ELSE "unjump")
  /\ numbers' = [numbers EXCEPT ![p] = IF Lines(forward, Jump) = {} THEN {}
                                       ELSE {Lowest(Lines(forward, Jump))}]
  /\ UNCHANGED <<forward, prerouting, chains, hosts, op, left, remembered>>

\* iptables -L FORWARD --line-numbers | grep ACCOUNTING | grep -m 1
FindJump(p) ==
  /\ Goto(p, "find", IF Lines(forward, Jump) = {} THEN AfterLoop(p) ELSE "unjump")
  /\ numbers' = [numbers EXCEPT ![p] = IF Lines(forward, Jump) = {} THEN {}
                                       ELSE {Lowest(Lines(forward, Jump))}]
  /\ UNCHANGED <<forward, prerouting, chains, hosts, op, left, remembered>>

\* while [ $? -eq 0 ]: another round unless the number is out of range.
DeleteJump(p) ==
  \E i \in numbers[p] :
    /\ Goto(p, "unjump", IF i \in DOMAIN forward THEN "find" ELSE AfterLoop(p))
    /\ forward' = IF i \in DOMAIN forward THEN Deleted(forward, i) ELSE forward
    /\ numbers' = [numbers EXCEPT ![p] = {}]
    /\ UNCHANGED <<prerouting, chains, hosts, op, left, remembered>>

\* iptables -F
Flush(p, c, from, to) ==
  /\ Goto(p, from, to)
  /\ hosts' = hosts \ {c}
  /\ UNCHANGED <<forward, prerouting, chains, locals, remembered>>

FlushIn(p) == Flush(p, "in", "flush_in", "flush_out")
FlushOut(p) == Flush(p, "out", "flush_out", "drop_in")

\* iptables -X: a chain that has rules or is jumped to cannot be removed.
Drop(p, c, from, to) ==
  /\ Goto(p, from, to)
  /\ chains' = IF c \in hosts \/ Lines(forward, {c}) # {} THEN chains
               ELSE chains \ {c}
  /\ UNCHANGED <<forward, prerouting, hosts, locals, remembered>>

DropIn(p) == Drop(p, "in", "drop_in", "drop_out")
DropOut(p) == Drop(p, "out", "drop_out", "done")

\* iptables -I FORWARD -j: there must be a chain to jump to.
WithJump(c) == IF c \in chains THEN Inserted(c, forward) ELSE forward

\* The jumps are inserted without a look at what is there: setup means to,
\* and update_wan looks for the text WAN_IFACE instead of the interface.
InsertIn(p) ==
  /\ Goto(p, "jump_in", "jump_out")
  /\ forward' = WithJump("in")
  /\ UNCHANGED <<prerouting, chains, hosts, locals, remembered>>

\* setup has one interface, update_wan those it was called with.
InsertOut(p) ==
  /\ forward' = WithJump("out")
  /\ \/ /\ op[p] = "setup"
        /\ Goto(p, "jump_out", "fill_in")
        /\ UNCHANGED left
     \/ /\ op[p] = "update_wan"
        /\ Goto(p, "jump_out", IF left[p] > 1 THEN "jump_in" ELSE "done")
        /\ left' = [left EXCEPT ![p] = @ - 1]
  /\ UNCHANGED <<prerouting, chains, hosts, op, numbers, remembered>>

\* iptables -A for a host of the ARP table, in the chains that exist.
FillIn(p) ==
  /\ left[p] > 0
  /\ Goto(p, "fill_in", "fill_out")
  /\ hosts' = hosts \cup (chains \cap {"in"})
  /\ UNCHANGED <<forward, prerouting, chains, locals, remembered>>

FillOut(p) ==
  /\ Goto(p, "fill_out", "fill_in")
  /\ hosts' = hosts \cup (chains \cap {"out"})
  /\ left' = [left EXCEPT ![p] = @ - 1]
  /\ UNCHANGED <<forward, prerouting, chains, op, numbers, remembered>>

\* ACCOUNTING_IN lists the host already.
SkipHost(p) ==
  /\ left[p] > 0 /\ "in" \in hosts
  /\ Goto(p, "fill_in", "fill_in")
  /\ left' = [left EXCEPT ![p] = @ - 1]
  /\ UNCHANGED <<forward, prerouting, chains, hosts, op, numbers, remembered>>

LastHost(p) ==
  /\ left[p] = 0
  /\ Goto(p, "fill_in", "done")
  /\ UNCHANGED <<forward, prerouting, chains, hosts, locals, remembered>>

\* The script ends, and nothing of it is left.
Finish(p) ==
  /\ Goto(p, "done", "idle")
  /\ op' = [op EXCEPT ![p] = "none"]
  /\ numbers' = [numbers EXCEPT ![p] = {}]
  /\ left' = [left EXCEPT ![p] = 0]
  /\ old' = [old EXCEPT ![p] = Nothing]
  /\ want' = [want EXCEPT ![p] = 0]
  /\ alone' = [alone EXCEPT ![p] = FALSE]
  /\ UNCHANGED <<forward, prerouting, chains, hosts>>

Work(p) ==
  \/ ListTriggers(p) \/ DeleteTrigger(p) \/ ListNatTriggers(p)
  \/ DeleteNatTrigger(p) \/ InsertTrigger(p) \/ AppendNatTrigger(p)
  \/ NewIn(p) \/ NewOut(p) \/ CheckHead(p) \/ FindJump(p) \/ DeleteJump(p)
  \/ FlushIn(p) \/ FlushOut(p) \/ DropIn(p) \/ DropOut(p)
  \/ InsertIn(p) \/ InsertOut(p) \/ FillIn(p) \/ FillOut(p) \/ SkipHost(p)
  \/ LastHost(p) \/ Finish(p)

\* Nothing of this is kept: at boot the firewall builds its own chains.
PowerCycle ==
  /\ forward' = <<"firewall">> /\ prerouting' = <<"firewall">>
  /\ chains' = {} /\ hosts' = {}
  /\ pc' = [p \in Proc |-> "idle"]
  /\ op' = [p \in Proc |-> "none"]
  /\ numbers' = [p \in Proc |-> {}]
  /\ left' = [p \in Proc |-> 0]
  /\ old' = [p \in Proc |-> Nothing]
  /\ want' = [p \in Proc |-> 0]
  /\ alone' = [p \in Proc |-> FALSE]

ChainNext ==
  \/ \E p \in Proc :
       \/ \E o \in Runs[p] : \E n \in 0..Most[o] : Start(p, o, n)
       \/ Work(p)
  \/ PowerCycle

ChainSpec == ChainInit /\ [][ChainNext]_chainVars

\* A shell runs its script to the end.
FairSpec == ChainSpec /\ \A p \in Proc : WF_chainVars(Work(p))

-----------------------------------------------------------------------------
Point == {"idle", "list", "delete", "nat", "new_in", "new_out", "head", "find",
          "unjump", "flush_in", "flush_out", "drop_in", "drop_out", "jump_in",
          "jump_out", "fill_in", "fill_out", "done"}

\* Every variable has its type; a script about to delete a jump has found
\* one, and a chain that is jumped to or has rules exists.
ChainTypeOK ==
  /\ forward \in Seq(Kind) /\ prerouting \in Seq({"firewall", "trigger"})
  /\ chains \subseteq Jump /\ hosts \subseteq chains
  /\ \A c \in Jump : Lines(forward, {c}) # {} => c \in chains
  /\ pc \in [Proc -> Point] /\ op \in [Proc -> Command \cup {"none"}]
  /\ \A p \in Proc : numbers[p] \subseteq Nat /\ (pc[p] = "unjump" => Cardinality(numbers[p]) = 1)
  /\ left \in [Proc -> Nat] /\ want \in [Proc -> Nat]
  /\ alone \in [Proc -> BOOLEAN]

Without(chain, kinds) == DropRows(chain, Lines(chain, kinds))

\* n pairs of jumps, the last one first, to the chains there are.
Pairs(n, had) ==
  IF had = Jump THEN [i \in 1..(2 * n) |-> IF i % 2 = 1 THEN "out" ELSE "in"]
  ELSE IF had = {} THEN <<>>
  ELSE [i \in 1..n |-> CHOOSE c \in had : TRUE]

\* The chains that a command is meant to leave behind.
ExpectedForward(o, n, chain, had) ==
  IF o = "PORT_TRIGGER_RESET"
  THEN [i \in 1..n |-> "trigger"] \o Without(chain, {"trigger"})
  ELSE IF o = "remove" THEN Without(chain, Jump)
  ELSE IF o = "setup"
  THEN <<"out", "in">> \o (IF 1 \in Lines(chain, Jump) THEN Without(chain, Jump) ELSE chain)
  ELSE IF o = "update_wan" THEN Pairs(n, had) \o chain ELSE chain

ExpectedPrerouting(o, chain) ==
  IF o = "PORT_TRIGGER_RESET"
  THEN Append(Without(chain, {"trigger"}), "trigger") ELSE chain

ExpectedChains(o, had) ==
  IF o = "setup" THEN Jump ELSE IF o = "remove" THEN {} ELSE had

\* A script that no other one overlapped has made exactly its edit, whatever
\* overlapping scripts have left before it: jumps to one chain only, one chain
\* without the other, chains with rules that nothing jumps to.  Its old rules
\* are gone although their numbers shift with every deletion, the new ones
\* are in place, and every rule of the others is still there, in order, above
\* all the firewall's own.
EditIsExact ==
  \A p \in Proc :
    pc[p] = "done" /\ alone[p] =>
      /\ forward = ExpectedForward(op[p], want[p], old[p][1], old[p][3])
      /\ prerouting = ExpectedPrerouting(op[p], old[p][2])
      /\ chains = ExpectedChains(op[p], old[p][3])

RuleInserted == Len(forward') > Len(forward)

\* The removal loops come to an end and every script finishes, however often
\* scripts start and in whatever way they get into each other's way, unless
\* rules are inserted into FORWARD for ever: jumps, which the loops remove as
\* well, or triggers, which a number listed too early may name.
ScriptsEnd ==
  <>[][~RuleInserted]_chainVars => \A p \in Proc : Running(p) ~> ~Running(p)

\* What the comments in setup say ("remove old jump rules", "insert new jump
\* rules at start of FORWARD chain"): a setup that nothing overlaps leaves
\* one jump in each direction, so that traffic is counted once.
OldJumpsRemoved ==
  \A p \in Proc :
    pc[p] = "done" /\ alone[p] /\ op[p] = "setup" =>
      /\ Cardinality(Lines(forward, {"in"})) = 1
      /\ Cardinality(Lines(forward, {"out"})) = 1
=============================================================================
