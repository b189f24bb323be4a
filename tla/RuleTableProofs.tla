-------------------------- MODULE RuleTableProofs --------------------------
(***************************************************************************)
(* The limit on the length of a rule list, for any number of browsers and  *)
(* any limit.  The list itself is not the measure: a browser whose page    *)
(* still shows fewer rules than the limit may add one more, whatever the   *)
(* router's list has become.  The sum of the rules and of these browsers   *)
(* never grows while it is large enough to matter: to add a rule a browser *)
(* gives up its credit, and gets it back only from a page read while the   *)
(* list was short.                                                         *)
(*                                                                         *)
(* The second invariant says of every such page what its rows are rows of, *)
(* not only of the one whose request is carried out next.                  *)
(*                                                                         *)
(* Rows named by number are also what the scripts on iptables' chains go   *)
(* by.  What the lists have in common is stated once, here, as facts about *)
(* the places of numbers in a set; so the proofs about ForwardChain follow *)
(* those about RuleTable.                                                  *)
(***************************************************************************)
EXTENDS RuleTable, ForwardChain, FiniteSetTheorems, SequenceTheorems, TLAPS

\* A list, whatever its elements are.
IsList(x) == Len(x) \in Nat /\ x = [i \in 1..Len(x) |-> x[i]]

\* The conditions of LimitHolds.
Counted == /\ page # "staticroute" /\ "blind" \notin past
           /\ Rereads \/ "lost" \notin past

\* A page that will be used as it is now.  One that waits for the router, or
\* has had no good answer and does not read the list again after that, still
\* shows what it was read as.
Keeps(s) == \/ mode[s] \in {"idle", "wait"}
            \/ mode[s] = "after" /\ ~reply[s] /\ ~Rereads

Credit == {s \in Session : Keeps(s) /\ NotFull(s)}

Shape ==
  /\ page \in Pages /\ IsList(rules)
  /\ mode \in [Session -> {"closed", "idle", "wait", "after"}]
  /\ reply \in [Session -> BOOLEAN]
  /\ view = [s \in Session |-> view[s]] /\ \A s \in Session : IsList(view[s])
  /\ req = [s \in Session |-> req[s]]

\* What waits for the router to be added got through the page's test.
AddsFit ==
  \A s \in Session :
    mode[s] = "wait" /\ req[s].kind = "add" /\ page # "staticroute" => NotFull(s)

Balance ==
  Counted => Len(rules) + Cardinality(Credit) < Limit[page] + Cardinality(Session)

IInv == Shape /\ AddsFit /\ Balance

-----------------------------------------------------------------------------
\* The page after a read that failed, and after it was left.
LEMMA EmptyIsList == IsList(<<>>) /\ Len(<<>>) = 0
<1>1. <<>> \in Seq({}) /\ Len(<<>>) = 0
  BY EmptySeq
<1>2. <<>> \in [1..Len(<<>>) -> {}]
  BY <1>1, LenProperties
<1> QED BY <1>1, <1>2 DEF IsList

\* A sequence is a list.
LEMMA IsListSeq ==
  ASSUME NEW S, NEW x \in Seq(S)
  PROVE  IsList(x)
<1>1. Len(x) \in Nat /\ x \in [1..Len(x) -> S]
  BY LenProperties
<1> QED BY <1>1 DEF IsList

\* The length of a list that is written as a function.
LEMMA ListLen ==
  ASSUME NEW n \in Nat, NEW f, f = [i \in 1..n |-> f[i]]
  PROVE  IsList(f) /\ Len(f) = n
<1> DEFINE S == {f[i] : i \in 1..n}
<1>1. f \in [1..n -> S]
  OBVIOUS
<1>2. f \in Seq(S)
  BY <1>1
<1>3. Len(f) \in Nat /\ DOMAIN f = 1..Len(f)
  BY <1>2, LenProperties
<1>4. Len(f) = n
  BY <1>1, <1>3
<1> QED BY <1>2, <1>4, IsListSeq

\* Adding a rule to a list.
LEMMA AppendList ==
  ASSUME NEW x, IsList(x), NEW e
  PROVE  IsList(Append(x, e)) /\ Len(Append(x, e)) = Len(x) + 1
<1> DEFINE S == {x[i] : i \in 1..Len(x)} \cup {e}
<1>1. Len(x) \in Nat /\ x \in [1..Len(x) -> S]
  BY DEF IsList
<1>2. x \in Seq(S)
  BY <1>1
<1>3. Append(x, e) \in Seq(S) /\ Len(Append(x, e)) = Len(x) + 1
  BY <1>2, AppendProperties
<1> QED BY <1>3, IsListSeq

\* Deleting and changing rows, known to the router or not, adds none.
LEMMA EffectList ==
  ASSUME NEW list, IsList(list), NEW r
  PROVE  /\ IsList(Effect(list, r))
         /\ r.kind = "add" => Len(Effect(list, r)) = Len(list) + 1
         /\ r.kind # "add" => Len(Effect(list, r)) <= Len(list)
<1>1. CASE r.kind = "add"
  <2>1. Effect(list, r) = Append(list, r.rule)
    BY <1>1 DEF Effect
  <2> QED BY <1>1, <2>1, AppendList
<1>2. CASE r.kind = "delete"
  <2> DEFINE kept == DOMAIN list \ r.rows
  <2> DEFINE f == [i \in 1..Cardinality(kept) |-> list[Nth(kept, i)]]
  <2>1. Effect(list, r) = f
    BY <1>2 DEF Effect, DropRows
  <2>2. Len(list) \in Nat /\ kept \in SUBSET (1..Len(list))
    BY DEF IsList
  <2>3. IsFiniteSet(1..Len(list)) /\ Cardinality(1..Len(list)) = Len(list)
    <3> DEFINE n == Len(list)
    <3>1. n \in Nat
      BY <2>2
    <3> HIDE DEF n
    <3>2. /\ IsFiniteSet(1..n)
          /\ Cardinality(1..n) = IF 1 > n THEN 0 ELSE n - 1 + 1
      BY <3>1, FS_Interval
    <3>3. IsFiniteSet(1..n) /\ Cardinality(1..n) = n
      BY <3>1, <3>2
    <3> QED BY <3>3 DEF n
  <2>4. IsFiniteSet(kept) /\ Cardinality(kept) <= Len(list)
    BY <2>2, <2>3, FS_Subset
  <2>5. Cardinality(kept) \in Nat
    BY <2>4, FS_CardinalityType
  <2>6. f = [i \in 1..Cardinality(kept) |-> f[i]]
    OBVIOUS
  <2> HIDE DEF kept, f
  <2>7. IsList(f) /\ Len(f) = Cardinality(kept)
    BY <2>5, <2>6, ListLen
  <2> QED BY <1>2, <2>1, <2>4, <2>7
<1>3. CASE r.kind # "add" /\ r.kind # "delete"
  <2> DEFINE f == [i \in 1..Len(list) |-> IF i \in r.rows THEN r.rule ELSE list[i]]
  <2>1. Effect(list, r) = f
    BY <1>3 DEF Effect
  <2>2. Len(list) \in Nat
    BY DEF IsList
  <2>3. f = [i \in 1..Len(list) |-> f[i]]
    OBVIOUS
  <2> HIDE DEF f
  <2>4. IsList(f) /\ Len(f) = Len(list)
    BY <2>2, <2>3, ListLen
  <2> QED BY <1>3, <2>1, <2>2, <2>4
<1> QED BY <1>1, <1>2, <1>3

\* What the step proofs use of Credit: it is a finite set of browsers.
LEMMA CreditFacts ==
  /\ IsFiniteSet(Credit) /\ Cardinality(Credit) \in Nat
  /\ Cardinality(Session) \in Nat /\ Cardinality(Session) > 0
  /\ Cardinality(Credit) <= Cardinality(Session)
<1>1. IsFiniteSet(Session) /\ Session # {}
  BY RuleTableAssumption
<1>2. Credit \in SUBSET Session
  BY DEF Credit
<1>3. Cardinality(Session) \in Nat /\ Cardinality(Session) # 0
  BY <1>1, FS_CardinalityType, FS_EmptySet
<1>4. IsFiniteSet(Credit) /\ Cardinality(Credit) <= Cardinality(Session)
  BY <1>1, <1>2, FS_Subset
<1> QED BY <1>1, <1>3, <1>4, FS_CardinalityType

\* The same after a step.
LEMMA CreditFactsPrime ==
  /\ IsFiniteSet(Credit') /\ Cardinality(Credit') \in Nat
  /\ Cardinality(Credit') <= Cardinality(Session)
<1>1. IsFiniteSet(Session)
  BY RuleTableAssumption
<1>2. Credit' \in SUBSET Session
  BY DEF Credit
<1>3. IsFiniteSet(Credit') /\ Cardinality(Credit') <= Cardinality(Session)
  BY <1>1, <1>2, FS_Subset
<1> QED BY <1>3, FS_CardinalityType

LEMMA LimitFacts == Shape => Limit[page] \in Nat /\ Limit[page] > 0
BY RuleTableAssumption DEF Shape

\* The balance is kept by a step that adds no rule and gives no credit ...
LEMMA KeepsBalance ==
  ASSUME Balance, Shape, page' = page, IsList(rules'), Counted' => Counted,
         Counted => Len(rules') <= Len(rules), Credit' \subseteq Credit
  PROVE  Balance'
<1>1. Cardinality(Credit') <= Cardinality(Credit)
  BY CreditFacts, FS_Subset
<1> QED BY <1>1, CreditFacts, CreditFactsPrime, LimitFacts DEF Balance, Shape, IsList

\* ... by one that adds a rule for the credit of a browser ...
LEMMA SpendsCredit ==
  ASSUME Balance, Shape, page' = page, NEW s \in Credit, Counted' => Counted,
         Len(rules') = Len(rules) + 1, Credit' \subseteq Credit \ {s}
  PROVE  Balance'
<1>1. /\ IsFiniteSet(Credit \ {s})
      /\ Cardinality(Credit \ {s}) = Cardinality(Credit) - 1
  BY CreditFacts, FS_RemoveElement
<1>2. Cardinality(Credit') <= Cardinality(Credit) - 1
  BY <1>1, FS_Subset
<1> QED BY <1>2, CreditFacts, CreditFactsPrime, LimitFacts DEF Balance, Shape, IsList

\* ... and by one in which a browser reads the list.
LEMMA ReadsList ==
  ASSUME Balance, Shape, NEW s \in Session, page' = page, rules' = rules,
         Counted' => Counted,
         Counted' => view'[s] = rules,
         Credit' \subseteq Credit \cup {s}
  PROVE  Balance'
<1>1. CASE ~Counted'
  BY <1>1 DEF Balance
<1>2. CASE Counted' /\ Len(rules) < Limit[page]
  BY <1>2, CreditFacts, CreditFactsPrime, LimitFacts DEF Balance, Shape, IsList
<1>3. CASE Counted' /\ ~(Len(rules) < Limit[page])
  <2>1. s \notin Credit'
    BY <1>3 DEF Credit, NotFull
  <2>2. Credit' \subseteq Credit
    BY <2>1
  <2> QED BY <1>3, <2>2, KeepsBalance DEF Shape, IsList
<1> QED BY <1>1, <1>2, <1>3

-----------------------------------------------------------------------------
\* No page is open and the router's list is empty.
THEOREM InitIInv == Init => IInv
<1> SUFFICES ASSUME Init PROVE IInv
  OBVIOUS
<1>1. Shape
  BY EmptyIsList DEF Init, Shape
<1>2. AddsFit
  BY DEF Init, AddsFit
<1>3. Credit = {}
  BY DEF Init, Credit, Keeps
<1>4. Len(rules) = 0 /\ Cardinality(Credit) = 0
  BY <1>3, FS_EmptySet, EmptyIsList DEF Init
<1>5. Balance
  BY <1>1, <1>4, CreditFacts, LimitFacts DEF Balance
<1> QED BY <1>1, <1>2, <1>5 DEF IInv

\* What posting does to the variables: a request is on its way, and a MAC
\* address may have been posted in another spelling.
Posts(s, r) == Send(s, r) /\ past' \in {past, past \cup {"spelled"}}

LEMMA PostPosts ==
  ASSUME NEW s \in Session
  PROVE  /\ \A r : Post(s, r) => Posts(s, r)
         /\ \A kind, rows, a : PostAddress(s, kind, rows, a) =>
              Posts(s, Request(kind, rows, [ip |-> a.ip, mac |-> Lower[a.mac]]))
BY DEF Post, PostAddress, Posts

\* A request that is no addition, or one to a page with room.
LEMMA PostIInv ==
  ASSUME IInv, NEW s \in Session, NEW r, Posts(s, r),
         r.kind = "add" /\ page # "staticroute" => NotFull(s)
  PROVE  IInv'
<1> USE DEF Posts
<1>1. Shape'
  BY DEF IInv, Shape, Send, router
<1>2. AddsFit'
  BY DEF IInv, Shape, AddsFit, Send, router, NotFull
<1>3. Credit' \subseteq Credit
  BY DEF IInv, Shape, Credit, Keeps, NotFull, Rereads, Send, router
<1>4. Counted' => Counted
  BY DEF Counted, Rereads, Send, router
<1>5. page' = page /\ rules' = rules /\ IsList(rules')
  BY DEF IInv, Shape, Send, router
<1>6. Balance'
  BY <1>3, <1>4, <1>5, KeepsBalance DEF IInv, Shape, IsList
<1> QED BY <1>1, <1>2, <1>6 DEF IInv

\* The router's answer: an added rule is paid for with its browser's credit.
LEMMA AnswerIInv ==
  ASSUME IInv, NEW s \in Session, NEW done \in BOOLEAN, NEW answered \in BOOLEAN,
         Answer(s, done, answered)
  PROVE  IInv'
<1>1. IsList(rules')
  BY SMTT(30), EffectList DEF IInv, Shape, Answer, router
<1>2. Shape'
  BY <1>1 DEF IInv, Shape, Answer
<1>3. AddsFit'
  BY DEF IInv, Shape, AddsFit, Answer, NotFull
<1>4. Counted' => Counted
  BY DEF Counted, Rereads, Answer, ghosts
<1>5. Credit' \subseteq Credit
  BY DEF IInv, Shape, Credit, Keeps, NotFull, Rereads, Answer
<1>6. ASSUME Len(rules') <= Len(rules) \/ ~Counted' PROVE Balance'
  BY <1>1, <1>4, <1>5, <1>6, KeepsBalance DEF IInv, Balance, Answer
<1>7. ASSUME ~(Len(rules') <= Len(rules)), Counted' PROVE Balance'
  <2> DEFINE r == req[s]
  <2>1. IsList(rules) /\ Len(rules) \in Nat
    BY DEF IInv, Shape, IsList
  <2>2. /\ r.kind = "add" => Len(Effect(rules, r)) = Len(rules) + 1
        /\ r.kind # "add" => Len(Effect(rules, r)) <= Len(rules)
    BY <2>1, EffectList
  <2>3. done /\ rules' = Effect(rules, r)
    BY <1>7, <2>1 DEF Answer
  <2>4. done /\ req[s].kind = "add" /\ Len(rules') = Len(rules) + 1
    BY <1>7, <2>2, <2>3
  <2>5. Counted /\ mode[s] = "wait"
    BY <1>4, <1>7 DEF Answer
  <2>6. s \in Credit
    BY <2>4, <2>5 DEF IInv, AddsFit, Credit, Keeps, Counted
  <2>7. answered \/ Rereads
    BY <1>7, <2>4 DEF Counted, Answer, Rereads
  <2>8. s \notin Credit'
    BY <2>4, <2>7 DEF IInv, Shape, Credit, Keeps, Rereads, ReadsAfterOK, Answer
  <2> QED BY <1>4, <1>5, <2>4, <2>6, <2>8, SpendsCredit DEF IInv, Answer
<1>8. Balance'
  BY <1>6, <1>7
<1> QED BY <1>2, <1>3, <1>8 DEF IInv

\* A page that reads everything reads the list.
LEMMA PageIsRead ==
  ASSUME NEW s \in Session, ReadPage(s)
  PROVE  ReadList(s) /\ ReadSettings(s)
BY DEF ReadPage, ReadList, ReadSettings

\* A step in which a page that nobody waits for reads the list.
LEMMA ReadIInv ==
  ASSUME IInv, NEW s \in Session, page' = page, rules' = rules, ReadList(s),
         mode' = [mode EXCEPT ![s] = "idle"],
         req' = [req EXCEPT ![s] = NoRequest] \/ req' = req,
         reply' = [reply EXCEPT ![s] = FALSE] \/ reply' = reply
  PROVE  IInv'
<1>1. Shape'
  BY EmptyIsList DEF IInv, Shape, ReadList, ListRead
<1>2. AddsFit'
  BY DEF IInv, Shape, AddsFit, ReadList, ListRead, NotFull
<1>3. Counted' => Counted /\ view'[s] = rules
  BY DEF IInv, Shape, Counted, Rereads, ReadList, ListRead
<1>4. Credit' \subseteq Credit \cup {s}
  BY DEF IInv, Shape, Credit, Keeps, NotFull, Rereads, ReadList, ListRead
<1>5. Balance'
  BY <1>3, <1>4, ReadsList DEF IInv
<1> QED BY <1>1, <1>2, <1>5 DEF IInv

\* A step that leaves lists, pages and requests alone.
LEMMA SameIInv ==
  ASSUME IInv, UNCHANGED <<page, rules, mode, view, req, reply, past>>
  PROVE  IInv'
BY DEF IInv, Shape, AddsFit, Balance, Counted, Credit, Keeps, NotFull, Rereads

\* A page that is left, or has no good answer, and does not read the list.
LEMMA AwayIInv ==
  ASSUME IInv, NEW s \in Session, UNCHANGED <<page, rules, past>>,
         \/ mode' = [mode EXCEPT ![s] = "closed"] /\ view' = [view EXCEPT ![s] = <<>>]
         \/ /\ mode[s] = "after" /\ ~reply[s] /\ ~Rereads
            /\ mode' = [mode EXCEPT ![s] = "idle"] /\ view' = view,
         req' = [req EXCEPT ![s] = NoRequest] \/ req' = req,
         reply' = [reply EXCEPT ![s] = FALSE]
  PROVE  IInv'
<1>1. Shape'
  BY EmptyIsList DEF IInv, Shape
<1>2. AddsFit'
  BY DEF IInv, Shape, AddsFit, NotFull
<1>3. Counted' => Counted
  BY DEF Counted, Rereads
<1>4. Credit' \subseteq Credit
  BY DEF IInv, Shape, Credit, Keeps, NotFull, Rereads
<1>5. Balance'
  BY <1>3, <1>4, KeepsBalance DEF IInv, Shape, IsList
<1> QED BY <1>1, <1>2, <1>5 DEF IInv

-----------------------------------------------------------------------------
\* Every handler of a page keeps the invariant.
THEOREM NextIInv == IInv /\ [Next]_vars => IInv'
<1> SUFFICES ASSUME IInv, [Next]_vars PROVE IInv'
  OBVIOUS
<1>1. CASE UNCHANGED vars
  BY <1>1, SameIInv DEF vars
<1>2. ASSUME NEW s \in Session, Step(s) PROVE IInv'
  <2>1. ASSUME Delete(s) PROVE IInv'
    BY <2>1, PostPosts, PostIInv DEF Delete, Request
  <2>2. ASSUME Add(s), page = "staticroute" \/ NotFull(s) PROVE IInv'
    BY <2>2, PostPosts, PostIInv DEF Add, Request
  <2>3. ASSUME NEW i, NEW r, Post(s, Request("edit", {i}, r)) PROVE IInv'
    BY <2>3, PostPosts, PostIInv DEF Request
  <2>4. CASE Load(s)
    BY <2>4, PageIsRead, ReadIInv DEF Load, router
  <2>5. CASE Leave(s)
    BY <2>5, AwayIInv DEF Leave, router
  <2>6. CASE \E f \in Fields[page] : Select(s, f)
    BY <2>6, SameIInv DEF Select, router, ghosts
  <2>7. CASE \/ DelDnFilterEntry(s) \/ DelPortMapEntry(s) \/ DelPortTriggerEntry(s)
             \/ DelIpFilterEntry(s) \/ DelSREntry(s) \/ DelStaticIpEntry(s)
    BY <2>1, <2>7 DEF DelDnFilterEntry, DelPortMapEntry, DelPortTriggerEntry,
       DelIpFilterEntry, DelSREntry, DelStaticIpEntry
  <2>8. CASE \/ AddDnfilterEntry(s) \/ AddPortMapEntry(s) \/ AddPortTriggerEntry(s)
             \/ AddIpFilterEntry(s)
    BY <2>2, <2>8 DEF AddDnfilterEntry, AddPortMapEntry, AddPortTriggerEntry,
       AddIpFilterEntry
  <2>9. CASE AddSREntry(s)
    BY <2>9, PostPosts, PostIInv DEF AddSREntry, Request
  <2>18. CASE AddStaticIp(s)
    BY <2>18, PostPosts, PostIInv DEF AddStaticIp, Request
  <2>10. CASE \/ ModifyDnfilterEntry(s) \/ ModifyPortMapEntry(s)
              \/ ModifyPortTriggerEntry(s) \/ ModifyIpFilterEntry(s)
    BY <2>3, <2>10 DEF ModifyDnfilterEntry, ModifyPortMapEntry,
       ModifyPortTriggerEntry, ModifyIpFilterEntry, Modify
  <2>11. CASE ModifySREntry(s)
    BY <2>3, <2>11 DEF ModifySREntry
  <2>19. CASE ModifyStaticIpEntry(s)
    BY <2>19, PostPosts, PostIInv DEF ModifyStaticIpEntry, Request
  <2>12. CASE \E done, answered \in BOOLEAN : Answer(s, done, answered)
    BY <2>12, AnswerIInv
  <2>13. CASE updateSaveData(s)
    BY <2>13, ReadIInv DEF updateSaveData, Done
  <2>14. CASE updateIpFilterStatus(s)
    BY <2>14, PageIsRead, ReadIInv DEF updateIpFilterStatus, Done
  <2>15. CASE AfterOther(s) \/ GetDhcpStaticIp(s)
    <3>1. CASE reply[s]
      BY <2>15, <3>1, ReadIInv DEF AfterOther, GetDhcpStaticIp, ReadAfterOK, Done
    <3>2. CASE ~reply[s]
      BY <2>15, <3>2, AwayIInv DEF AfterOther, GetDhcpStaticIp, ReadAfterOK, Done, ghosts, Rereads
    <3> QED BY <3>1, <3>2
  <2>16. CASE SaveDnFilter(s)
    BY <2>16, SameIInv DEF SaveDnFilter
  <2>17. CASE SaveIpFilter(s)
    <3>1. CASE ReadPage(s)
      BY <2>17, <3>1, PageIsRead, ReadIInv DEF SaveIpFilter, IInv, Shape
    <3>2. CASE UNCHANGED <<view, sel, past>>
      BY <2>17, <3>2, SameIInv DEF SaveIpFilter
    <3> QED BY <2>17, <3>1, <3>2 DEF SaveIpFilter
  <2> QED BY <1>2, <2>4, <2>5, <2>6, <2>7, <2>8, <2>9, <2>10, <2>11, <2>12, <2>13,
             <2>14, <2>15, <2>16, <2>17, <2>18, <2>19 DEF Step
<1> QED BY <1>1, <1>2 DEF Next

\* However many browsers edit a list at the same time, each of the pages that
\* limit it lets through no more than the one rule its snapshot has room for:
\* all together they exceed the limit by less than their number.
THEOREM ListIsLimited == Spec => []LimitHolds
<1>1. IInv => LimitHolds
  BY CreditFacts, LimitFacts DEF IInv, Shape, IsList, Balance, Counted, LimitHolds
<1> QED BY <1>1, InitIInv, NextIInv, PTL DEF Spec

-----------------------------------------------------------------------------
(* What the rows of a page are rows of.  A page that will be used as it is   *)
(* shows the router's list, or nothing after a read that failed, unless the  *)
(* history says otherwise.                                                   *)

Fresh(s) == "list" \notin behind[s] /\ (Rereads \/ "list" \notin lost[s])

Snapshot == \A s \in Session : Keeps(s) /\ Fresh(s) => view[s] \in {rules, <<>>}

\* A deletion or change names a row of the page.
PicksShown ==
  \A s \in Session : mode[s] = "wait" /\ req[s].kind # "add" => Len(view[s]) > 0

Ghosts == /\ behind = [s \in Session |-> behind[s]]
          /\ lost = [s \in Session |-> lost[s]]

HInv == Shape /\ Ghosts /\ Snapshot /\ PicksShown

\* The history of the other pages, and of this one, is not forgotten.
Remembers(S) ==
  /\ behind' = [t \in Session |-> behind'[t]] /\ lost' = [t \in Session |-> lost'[t]]
  /\ \A t \in S : /\ "list" \in behind[t] => "list" \in behind'[t]
                  /\ "list" \in lost[t] => "list" \in lost'[t]

\* No page is open, so none shows anything.
LEMMA InitHInv == Init => HInv
<1> SUFFICES ASSUME Init PROVE HInv
  OBVIOUS
<1>1. Shape
  BY EmptyIsList DEF Init, Shape
<1> QED BY <1>1 DEF Init, HInv, Ghosts, Snapshot, PicksShown, Keeps

\* A request leaves; if it is no addition, the page shows a row.
LEMMA PostHInv ==
  ASSUME HInv, NEW s \in Session, NEW r, Posts(s, r),
         r.kind # "add" => Len(view[s]) > 0
  PROVE  HInv'
<1>1. Shape' /\ Ghosts'
  BY DEF HInv, Shape, Ghosts, Posts, Send, router
<1>2. Snapshot'
  BY DEF HInv, Shape, Snapshot, Keeps, Fresh, Rereads, Posts, Send, router
<1>3. PicksShown'
  BY DEF HInv, Shape, PicksShown, Posts, Send
<1> QED BY <1>1, <1>2, <1>3 DEF HInv

\* A request that is carried out outdates every other page, and this one as well if
\* the answer does not make it read the list.
LEMMA AnswerHInv ==
  ASSUME HInv, NEW s \in Session, NEW done \in BOOLEAN, NEW answered \in BOOLEAN,
         Answer(s, done, answered)
  PROVE  HInv'
<1>1. IsList(rules')
  BY SMTT(30), EffectList DEF HInv, Shape, Answer, router
<1>2. Shape'
  BY <1>1 DEF HInv, Shape, Answer
<1>3. Ghosts'
  BY DEF HInv, Ghosts, Answer, Others, ghosts
<1>4. CASE done
  <2>1. ASSUME NEW t \in Session, Keeps(t)', Fresh(t)' PROVE FALSE
    <3>1. CASE t = s
      BY <1>4, <2>1, <3>1 DEF HInv, Shape, Ghosts, Keeps, Fresh, Rereads, ReadsAfterOK, Answer
    <3>2. CASE t # s
      BY <1>4, <2>1, <3>2 DEF HInv, Shape, Ghosts, Keeps, Fresh, Rereads, Answer, Others
    <3> QED BY <3>1, <3>2
  <2> QED BY <1>2, <1>3, <2>1 DEF HInv, Shape, Snapshot, PicksShown, Answer
<1>5. CASE ~done
  <2>1. Snapshot'
    BY <1>5 DEF HInv, Shape, Snapshot, Keeps, Fresh, Rereads, Answer, ghosts
  <2> QED BY <1>2, <1>3, <2>1 DEF HInv, Shape, PicksShown, Answer
<1> QED BY <1>4, <1>5

\* A step in which a page reads the list.
LEMMA ReadHInv ==
  ASSUME HInv, NEW s \in Session, page' = page, rules' = rules, ReadList(s),
         Remembers(Session \ {s}),
         mode' = [mode EXCEPT ![s] = "idle"],
         req' = [req EXCEPT ![s] = NoRequest] \/ req' = req,
         reply' = [reply EXCEPT ![s] = FALSE] \/ reply' = reply
  PROVE  HInv'
<1>1. Shape' /\ Ghosts'
  BY EmptyIsList DEF HInv, Shape, Ghosts, Remembers, ReadList, ListRead
<1>2. Snapshot'
  BY DEF HInv, Shape, Snapshot, Keeps, Fresh, Rereads, Remembers, ReadList, ListRead
<1>3. PicksShown'
  BY DEF HInv, Shape, PicksShown, ReadList, ListRead
<1> QED BY <1>1, <1>2, <1>3 DEF HInv

\* A step that leaves lists, pages and requests alone.
LEMMA SameHInv ==
  ASSUME HInv, UNCHANGED <<page, rules, mode, view, req, reply>>, Remembers(Session)
  PROVE  HInv'
BY DEF HInv, Shape, Ghosts, Snapshot, PicksShown, Keeps, Fresh, Rereads, Remembers

\* A page that is left, or has no good answer, and does not read the list.
LEMMA AwayHInv ==
  ASSUME HInv, NEW s \in Session, UNCHANGED <<page, rules>>,
         Remembers(Session \ {s}),
         \/ mode' = [mode EXCEPT ![s] = "closed"] /\ view' = [view EXCEPT ![s] = <<>>]
         \/ /\ mode[s] = "after" /\ ~reply[s] /\ ~Rereads
            /\ mode' = [mode EXCEPT ![s] = "idle"] /\ UNCHANGED <<view, behind, lost>>,
         req' = [req EXCEPT ![s] = NoRequest] \/ req' = req,
         reply' = [reply EXCEPT ![s] = FALSE]
  PROVE  HInv'
<1>1. Shape' /\ Ghosts'
  BY EmptyIsList DEF HInv, Shape, Ghosts, Remembers
<1>2. Snapshot'
  BY DEF HInv, Shape, Snapshot, Keeps, Fresh, Rereads, Remembers
<1>3. PicksShown'
  BY DEF HInv, Shape, PicksShown
<1> QED BY <1>1, <1>2, <1>3 DEF HInv

\* What reading the list and the settings does to the history.
LEMMA SeenRemembers ==
  ASSUME HInv, NEW s \in Session, NEW aspects, NEW changed, Seen(s, aspects, changed)
  PROVE  Remembers(Session \ {s})
BY DEF HInv, Ghosts, Seen, Remembers

\* Posting a setting is no reason to trust an old list.
LEMMA SettingRemembers ==
  ASSUME HInv, NEW s \in Session, NEW fields, SettingLost(s, fields),
         lost' = lost \/ lost' = [lost EXCEPT ![s] = @ \cup {"setting"}]
  PROVE  Remembers(Session)
BY DEF HInv, Ghosts, SettingLost, Others, Remembers

\* Every handler of a page keeps the second invariant.
THEOREM NextHInv == HInv /\ [Next]_vars => HInv'
<1> SUFFICES ASSUME HInv, [Next]_vars PROVE HInv'
  OBVIOUS
<1>1. CASE UNCHANGED vars
  BY <1>1, SameHInv DEF vars, HInv, Ghosts, Remembers
<1>2. ASSUME NEW s \in Session, Step(s) PROVE HInv'
  <2>1. ASSUME Delete(s) PROVE HInv'
    <3>1. PICK rows \in (SUBSET DOMAIN view[s]) \ {{}} :
            Post(s, Request("delete", rows, SomeRule))
      BY <2>1 DEF Delete
    <3>2. Len(view[s]) > 0
      <4>1. IsList(view[s]) /\ rows \subseteq DOMAIN view[s] /\ rows # {}
        BY <3>1 DEF HInv, Shape
      <4>2. Len(view[s]) \in Nat /\ DOMAIN view[s] = 1..Len(view[s])
        BY <4>1 DEF IsList
      <4> QED BY <4>1, <4>2
    <3> QED BY <3>1, <3>2, PostPosts, PostHInv
  <2>2. ASSUME Add(s) PROVE HInv'
    BY <2>2, PostPosts, PostHInv DEF Add, Request
  <2>3. ASSUME NEW i \in DOMAIN view[s], NEW r, Post(s, Request("edit", {i}, r))
        PROVE HInv'
    <3>1. Len(view[s]) > 0
      BY DEF HInv, Shape, IsList
    <3> QED BY <2>3, <3>1, PostPosts, PostHInv
  <2>4. CASE Load(s)
    BY <2>4, PageIsRead, ReadHInv, SeenRemembers DEF Load, router
  <2>5. CASE Leave(s)
    <3>1. Remembers(Session \ {s})
      BY <2>5 DEF Leave, HInv, Ghosts, Remembers
    <3> QED BY <2>5, <3>1, AwayHInv DEF Leave, router
  <2>6. CASE \E f \in Fields[page] : Select(s, f)
    <3>1. Remembers(Session)
      BY <2>6 DEF Select, HInv, Ghosts, Remembers, ghosts
    <3> QED BY <2>6, <3>1, SameHInv DEF Select, router
  <2>7. CASE \/ DelDnFilterEntry(s) \/ DelPortMapEntry(s) \/ DelPortTriggerEntry(s)
             \/ DelIpFilterEntry(s) \/ DelSREntry(s) \/ DelStaticIpEntry(s)
    BY <2>1, <2>7 DEF DelDnFilterEntry, DelPortMapEntry, DelPortTriggerEntry,
       DelIpFilterEntry, DelSREntry, DelStaticIpEntry
  <2>8. CASE \/ AddDnfilterEntry(s) \/ AddPortMapEntry(s) \/ AddPortTriggerEntry(s)
             \/ AddIpFilterEntry(s)
    BY <2>2, <2>8 DEF AddDnfilterEntry, AddPortMapEntry, AddPortTriggerEntry,
       AddIpFilterEntry
  <2>9. CASE AddSREntry(s)
    BY <2>9, PostPosts, PostHInv DEF AddSREntry, Request
  <2>18. CASE AddStaticIp(s)
    BY <2>18, PostPosts, PostHInv DEF AddStaticIp, Request
  <2>10. CASE \/ ModifyDnfilterEntry(s) \/ ModifyPortMapEntry(s)
              \/ ModifyPortTriggerEntry(s) \/ ModifyIpFilterEntry(s)
    BY <2>3, <2>10 DEF ModifyDnfilterEntry, ModifyPortMapEntry,
       ModifyPortTriggerEntry, ModifyIpFilterEntry, Modify
  <2>11. CASE ModifySREntry(s)
    BY <2>3, <2>11 DEF ModifySREntry
  <2>19. CASE ModifyStaticIpEntry(s)
    <3>1. PICK i \in DOMAIN view[s], a \in Address : PostAddress(s, "edit", {i}, a)
      BY <2>19 DEF ModifyStaticIpEntry
    <3>2. Len(view[s]) > 0
      BY DEF HInv, Shape, IsList
    <3> QED BY <3>1, <3>2, PostPosts, PostHInv
  <2>12. CASE \E done, answered \in BOOLEAN : Answer(s, done, answered)
    BY <2>12, AnswerHInv
  <2>13. CASE updateSaveData(s)
    <3>1. Remembers(Session \ {s})
      BY <2>13, SeenRemembers DEF updateSaveData
    <3> QED BY <2>13, <3>1, ReadHInv DEF updateSaveData, Done
  <2>14. CASE updateIpFilterStatus(s)
    <3>1. Remembers(Session \ {s})
      BY <2>14, SeenRemembers DEF updateIpFilterStatus
    <3> QED BY <2>14, <3>1, PageIsRead, ReadHInv DEF updateIpFilterStatus, Done
  <2>15. CASE AfterOther(s) \/ GetDhcpStaticIp(s)
    <3>1. CASE reply[s]
      BY <2>15, <3>1, ReadHInv, SeenRemembers DEF AfterOther, GetDhcpStaticIp, ReadAfterOK, Done
    <3>2. CASE ~reply[s]
      <4>1. Remembers(Session \ {s})
        BY <2>15, <3>2 DEF AfterOther, GetDhcpStaticIp, ReadAfterOK, HInv, Ghosts, Remembers, ghosts
      <4> QED BY <2>15, <3>2, <4>1, AwayHInv DEF AfterOther, GetDhcpStaticIp, ReadAfterOK, Done, ghosts, Rereads
    <3> QED BY <3>1, <3>2
  <2>16. CASE SaveDnFilter(s)
    <3>1. Remembers(Session)
      BY <2>16, SettingRemembers DEF SaveDnFilter
    <3> QED BY <2>16, <3>1, SameHInv DEF SaveDnFilter
  <2>17. CASE SaveIpFilter(s)
    <3>1. CASE ReadPage(s) /\ Seen(s, {"list", "setting"}, Posted(cached[s], sel[s]))
      <4>1. Remembers(Session \ {s})
        BY <3>1, SeenRemembers
      <4> QED BY <2>17, <3>1, <4>1, PageIsRead, ReadHInv DEF SaveIpFilter, HInv, Shape
    <3>2. CASE UNCHANGED <<view, sel, past>> /\ Remembers(Session)
      BY <2>17, <3>2, SameHInv DEF SaveIpFilter
    <3>3. ASSUME NEW f \in Posted(cached[s], sel[s]), NEW done \in BOOLEAN,
                 LET before == IF f = "off" THEN {} ELSE Posted(cached[s], sel[s]) \ {f}
                 IN  SettingLost(s, before \cup (IF done THEN {f} ELSE {})),
                 lost' = IF done THEN [lost EXCEPT ![s] = @ \cup {"setting"}] ELSE lost
          PROVE  Remembers(Session)
      BY <3>3, SettingRemembers
    <3> QED BY <2>17, <3>1, <3>2, <3>3 DEF SaveIpFilter
  <2> QED BY <1>2, <2>4, <2>5, <2>6, <2>7, <2>8, <2>9, <2>10, <2>11, <2>12, <2>13,
             <2>14, <2>15, <2>16, <2>17, <2>18, <2>19 DEF Step
<1> QED BY <1>1, <1>2 DEF Next

\* Only an answer changes the router's list.
LEMMA OnlyAnswers ==
  ASSUME NEW s \in Session, Step(s), rules' # rules
  PROVE  \E done, answered \in BOOLEAN : Answer(s, done, answered)
BY DEF Step, Load, Leave, Select, DelDnFilterEntry, AddDnfilterEntry, ModifyDnfilterEntry,
   DelPortMapEntry, AddPortMapEntry, ModifyPortMapEntry, DelPortTriggerEntry,
   AddPortTriggerEntry, ModifyPortTriggerEntry, DelIpFilterEntry, AddIpFilterEntry,
   ModifyIpFilterEntry, DelSREntry, AddSREntry, ModifySREntry, DelStaticIpEntry,
   AddStaticIp, ModifyStaticIpEntry, Delete, Add, Modify, Post, Send, PostAddress,
   updateSaveData, updateIpFilterStatus, AfterOther, GetDhcpStaticIp, ReadAfterOK, SaveDnFilter, SaveIpFilter, Done,
   router

\* With any number of browsers, rules and rows, failed reads and lost answers:
\* what the router deletes or replaces is what the user has picked.
THEOREM PicksAreHit == Spec => HitsWhatWasPicked
<1>1. HInv /\ [Next]_vars
        => [\A s \in Session : Picked(s) => rules' = Effect(view[s], req[s])]_vars
  <2> SUFFICES ASSUME HInv, Next, NEW s \in Session, Picked(s)
               PROVE  rules' = Effect(view[s], req[s])
    OBVIOUS
  <2>1. PICK t \in Session : Step(t)
    BY DEF Next
  <2>2. PICK done \in BOOLEAN, answered \in BOOLEAN : Answer(t, done, answered)
    BY <2>1, OnlyAnswers DEF Picked
  <2>3. t = s
    BY <2>2 DEF Answer, Picked, HInv, Shape
  <2>4. rules' = Effect(rules, req[s])
    BY <2>2, <2>3 DEF Answer, Picked
  <2>5. view[s] \in {rules, <<>>} /\ Len(view[s]) > 0
    BY DEF HInv, Snapshot, PicksShown, Picked, Keeps, Fresh
  <2> QED BY <2>4, <2>5, EmptyIsList
<1> QED BY <1>1, InitHInv, NextHInv, PTL DEF Spec, HitsWhatWasPicked

-----------------------------------------------------------------------------
(* What dropping rows leaves of a list: rows of the list, each one once.     *)

\* The place of a number in a finite set of numbers, counted from 1.
Rank(S, n) == Cardinality({k \in S : k <= n})

\* No two numbers have the same place.
LEMMA RankApart ==
  ASSUME NEW S \in SUBSET Nat, IsFiniteSet(S), NEW m \in S, NEW n \in S, m < n
  PROVE  Rank(S, m) < Rank(S, n)
<1> DEFINE T == {k \in S : k <= m}
           U == {k \in S : k <= n}
<1>1. S \subseteq Nat /\ U \in SUBSET S /\ n \in U /\ n \notin T
  OBVIOUS
<1>2. \A k \in T : k \in U
  BY <1>1
<1>3. IsFiniteSet(U) /\ T \in SUBSET U /\ T # U
  BY <1>1, <1>2, FS_Subset
<1>4. IsFiniteSet(T) /\ Cardinality(T) <= Cardinality(U) /\ Cardinality(T) # Cardinality(U)
  BY <1>3, FS_Subset
<1>5. Cardinality(T) \in Nat /\ Cardinality(U) \in Nat
  BY <1>3, <1>4, FS_CardinalityType
<1> QED
  BY <1>4, <1>5 DEF Rank

\* Every place in a finite set of numbers is taken, by one of them.
LEMMA NthRank ==
  ASSUME NEW S \in SUBSET Nat, IsFiniteSet(S), NEW i \in 1..Cardinality(S)
  PROVE  Nth(S, i) \in S /\ Rank(S, Nth(S, i)) = i
<1> DEFINE f == [n \in S |-> Rank(S, n)]
<1>1. \A n \in S : Rank(S, n) \in 1..Cardinality(S)
  <2> TAKE n \in S
  <2> DEFINE T == {k \in S : k <= n}
  <2>1. T \in SUBSET S /\ n \in T
    OBVIOUS
  <2>2. IsFiniteSet(T) /\ Cardinality(T) <= Cardinality(S) /\ Cardinality(T) # 0
    BY <2>1, FS_Subset, FS_EmptySet
  <2>3. Cardinality(T) \in Nat /\ Cardinality(S) \in Nat
    BY <2>2, FS_CardinalityType
  <2> QED
    BY <2>2, <2>3 DEF Rank
<1>2. \A m, n \in S : m < n => Rank(S, m) # Rank(S, n)
  <2> TAKE m, n \in S
  <2>1. ASSUME m < n PROVE Rank(S, m) # Rank(S, n)
    <3>1. Rank(S, m) < Rank(S, n) /\ Rank(S, m) \in Nat /\ Rank(S, n) \in Nat
      BY <1>1, <2>1, RankApart
    <3> QED
      BY <3>1
  <2> QED
    BY <2>1
<1>3. f \in Injection(S, 1..Cardinality(S))
  <2>1. \A m, n \in S : Rank(S, m) = Rank(S, n) => m = n
    BY <1>2
  <2> QED
    BY <1>1, <2>1 DEF Injection, IsInjective
<1>4. f \in Surjection(S, 1..Cardinality(S))
  <2> DEFINE c == Cardinality(S)
  <2>1. c \in Nat
    BY FS_CardinalityType
  <2> HIDE DEF c
  <2>2. IsFiniteSet(1..c) /\ Cardinality(1..c) = c
    BY <2>1, FS_Interval
  <2> QED
    BY <1>3, <2>2, FS_Injection DEF c
<1>5. \E n \in S : Rank(S, n) = i
  BY <1>4 DEF Surjection
<1> QED
  BY <1>5 DEF Nth, Rank

LEMMA DroppedRows ==
  ASSUME NEW list, IsList(list), NEW rows
  PROVE  /\ \A i \in DOMAIN DropRows(list, rows) :
              \E k \in DOMAIN list : DropRows(list, rows)[i] = list[k]
         /\ \A key : Distinct(list, key) => Distinct(DropRows(list, rows), key)
<1> DEFINE kept == DOMAIN list \ rows
           n == Cardinality(kept)
<1>1. Len(list) \in Nat /\ kept \in SUBSET (1..Len(list))
  BY DEF IsList
<1>2. IsFiniteSet(1..Len(list))
  <2> DEFINE m == Len(list)
  <2>1. m \in Nat
    BY <1>1
  <2> HIDE DEF m
  <2>2. IsFiniteSet(1..m)
    BY <2>1, FS_Interval
  <2> QED
    BY <2>2 DEF m
<1>3. IsFiniteSet(kept) /\ kept \in SUBSET Nat
  BY <1>1, <1>2, FS_Subset
<1>4. \A i \in 1..n : Nth(kept, i) \in kept /\ Rank(kept, Nth(kept, i)) = i
  BY <1>3, NthRank
<1>5. DropRows(list, rows) = [i \in 1..n |-> list[Nth(kept, i)]]
  BY DEF DropRows
<1> HIDE DEF n, kept
<1>6. \A i \in DOMAIN DropRows(list, rows) :
        \E k \in DOMAIN list : DropRows(list, rows)[i] = list[k]
  BY <1>4, <1>5 DEF kept
<1>7. ASSUME NEW key, Distinct(list, key) PROVE Distinct(DropRows(list, rows), key)
  <2>1. \A i, j \in 1..n : key[list[Nth(kept, i)]] = key[list[Nth(kept, j)]] => i = j
    <3> TAKE i, j \in 1..n
    <3>1. key[list[Nth(kept, i)]] = key[list[Nth(kept, j)]] => Nth(kept, i) = Nth(kept, j)
      BY <1>4, <1>7 DEF Distinct, kept
    <3> QED
      BY <1>4, <3>1
  <2> QED
    BY <1>5, <2>1 DEF Distinct
<1> QED
  BY <1>6, <1>7

-----------------------------------------------------------------------------
(* Types.  A page is never longer than the router's list may become, and a   *)
(* request names rows of the page it was made on.                            *)

ListTyped ==
  /\ page \in Pages /\ rules \in Seq(Rule) /\ Len(rules) <= MaxLen[page]
  /\ mode \in [Session -> {"closed", "idle", "wait", "after"}]
  /\ view \in [Session -> Seq(Rule)] /\ \A s \in Session : Len(view[s]) <= MaxLen[page]
  /\ req \in [Session -> Requests]
  /\ \A s \in Session : req[s].rows \subseteq DOMAIN view[s] \/ mode[s] \in {"closed", "idle"}

\* What the router can have, what a page can take for that, what it can show.
Stored == [Field -> Option \cup {""}]
Texts == [Field -> Option \cup {"", "none"}]
Choices == [Field -> Option \cup {"none"}]

SettingTyped ==
  /\ setting \in Stored /\ cached \in [Session -> Texts]
  /\ sel \in [Session -> Choices]

GhostTyped ==
  /\ behind \in [Session -> SUBSET {"list", "setting"}]
  /\ lost \in [Session -> SUBSET {"list", "setting"}]
  /\ past \subseteq {"blind", "lost", "shared", "spelled"}

Typed == ListTyped /\ SettingTyped /\ GhostTyped /\ reply \in [Session -> BOOLEAN]

LEMMA NoRequestTyped == NoRequest \in Requests /\ NoRequest.rows = {} /\ SomeRule \in Rule
BY RuleTableAssumption DEF NoRequest, Request, Requests, SomeRule, Rule

\* The router carries out a request: the rules are those of the list and of the request.
LEMMA EffectTyped ==
  ASSUME NEW S, NEW list \in Seq(S), NEW r, r.kind # "delete" => r.rule \in S
  PROVE  Effect(list, r) \in Seq(S)
<1>1. IsList(list) /\ Len(list) \in Nat /\ DOMAIN list = 1..Len(list)
      /\ \A i \in 1..Len(list) : list[i] \in S
  BY IsListSeq, LenProperties
<1>2. CASE r.kind = "add"
  BY <1>2, AppendProperties DEF Effect
<1>3. CASE r.kind = "delete"
  <2> DEFINE d == DropRows(list, r.rows)
  <2>1. Effect(list, r) = d
    BY <1>3 DEF Effect
  <2>2. IsList(d)
    BY <1>1, <2>1, EffectList
  <2>3. \A i \in DOMAIN d : d[i] \in S
    BY <1>1, DroppedRows
  <2> HIDE DEF d
  <2>4. Len(d) \in Nat /\ d = [i \in 1..Len(d) |-> d[i]]
    BY <2>2 DEF IsList
  <2>5. d \in [1..Len(d) -> S]
    BY <2>3, <2>4
  <2> QED
    BY <2>1, <2>4, <2>5
<1>4. CASE r.kind # "add" /\ r.kind # "delete"
  BY <1>1, <1>4 DEF Effect
<1> QED
  BY <1>2, <1>3, <1>4

\* A fixed address is posted in lower case.
LEMMA LowerRule ==
  ASSUME NEW a \in Address
  PROVE  [ip |-> a.ip, mac |-> Lower[a.mac]] \in Rule
BY RuleTableAssumption DEF Address, Rule

LEMMA PostTyped ==
  ASSUME ListTyped, NEW s \in Session, NEW r \in Requests, r.rows \subseteq DOMAIN view[s],
         Posts(s, r)
  PROVE  ListTyped'
BY DEF ListTyped, Posts, Send, router, Requests

LEMMA AnswerTyped ==
  ASSUME ListTyped, NEW s \in Session, NEW done \in BOOLEAN, NEW answered \in BOOLEAN,
         Answer(s, done, answered)
  PROVE  ListTyped'
<1>1. rules' \in Seq(Rule) /\ Len(rules') <= MaxLen[page]
  <2>1. req[s].rule \in Rule
    BY DEF ListTyped, Requests
  <2>2. CASE done
    BY <2>1, <2>2, EffectTyped DEF ListTyped, Answer
  <2>3. CASE ~done
    BY <2>3 DEF ListTyped, Answer
  <2> QED
    BY <2>2, <2>3
<1>2. /\ mode' = [mode EXCEPT ![s] = "after"] /\ UNCHANGED <<page, view>>
      /\ req' = [req EXCEPT ![s] = NoRequest] /\ mode[s] = "wait"
  BY DEF Answer
<1>3. req' \in [Session -> Requests]
  BY <1>2, NoRequestTyped DEF ListTyped
<1>4. \A t \in Session : req'[t].rows \subseteq DOMAIN view'[t] \/ mode'[t] \in {"closed", "idle"}
  BY <1>2, NoRequestTyped DEF ListTyped
<1> QED
  BY <1>1, <1>2, <1>3, <1>4 DEF ListTyped, Requests

\* A step in which a page reads the list, is left, or has no good answer.
LEMMA OverTyped ==
  ASSUME ListTyped, NEW s \in Session, UNCHANGED <<page, rules>>,
         NEW m \in {"closed", "idle"}, mode' = [mode EXCEPT ![s] = m],
         ReadList(s) \/ view' = view \/ view' = [view EXCEPT ![s] = <<>>],
         req' = [req EXCEPT ![s] = NoRequest] \/ req' = req
  PROVE  ListTyped'
<1>1. <<>> \in Seq(Rule) /\ Len(<<>>) = 0 /\ MaxLen[page] \in Nat
  BY EmptySeq, RuleTableAssumption DEF ListTyped
<1>2. PICK v \in {rules, <<>>, view[s]} : view' = [view EXCEPT ![s] = v]
  BY DEF ListTyped, ReadList, ListRead
<1>3. view' \in [Session -> Seq(Rule)] /\ \A t \in Session : Len(view'[t]) <= MaxLen[page]
  <2>1. v \in Seq(Rule) /\ Len(v) <= MaxLen[page]
    <3>1. /\ rules \in Seq(Rule) /\ Len(rules) <= MaxLen[page]
          /\ view[s] \in Seq(Rule) /\ Len(view[s]) <= MaxLen[page]
      BY DEF ListTyped
    <3>2. Len(<<>>) <= MaxLen[page]
      BY <1>1
    <3> QED
      BY <1>1, <3>1, <3>2, Zenon
  <2>2. \A t \in Session : view'[t] \in {v, view[t]}
    BY <1>2 DEF ListTyped
  <2>3. view' \in [Session -> Seq(Rule)]
    BY <1>2, <2>1 DEF ListTyped
  <2> QED
    BY <2>1, <2>2, <2>3 DEF ListTyped
<1>4. req' \in [Session -> Requests]
  BY NoRequestTyped DEF ListTyped
<1>5. \A t \in Session : req'[t].rows \subseteq DOMAIN view'[t] \/ mode'[t] \in {"closed", "idle"}
  BY <1>2, NoRequestTyped DEF ListTyped
<1> QED
  BY <1>3, <1>4, <1>5 DEF ListTyped, Requests

\* The router's settings and the page's, which are read, posted and clicked.
LEMMA PutTyped ==
  ASSUME SettingTyped, NEW chosen, NEW fields, PutSettings(chosen, fields)
  PROVE  setting' \in Stored
<1>1. \A value : Carried(value) \in Option \cup {""}
  BY DEF Carried
<1> QED
  BY <1>1, Zenon DEF SettingTyped, PutSettings, Stored

LEMMA FoundTyped ==
  ASSUME NEW state \in Stored, NEW failed
  PROVE  Found(state, failed) \in Stored /\ Found(state, failed) \in Texts
<1>1. Found(state, failed) \in Stored
  BY DEF Found, Stored
<1> QED
  BY <1>1 DEF Stored, Texts

LEMMA ShownTyped ==
  ASSUME NEW texts
  PROVE  Shown(texts) \in Choices
BY DEF Shown, Selected, Choices

LEMMA ReadTyped ==
  ASSUME SettingTyped, NEW s \in Session, ReadSettings(s), setting' \in Stored
  PROVE  SettingTyped'
<1>1. PICK failed \in SUBSET MayFail : SettingsRead(s, failed)
  BY DEF ReadSettings
<1>2. Found(setting', failed) \in Texts /\ Shown(Found(setting', failed)) \in Choices
  BY FoundTyped, ShownTyped
<1> QED
  BY <1>1, <1>2 DEF SettingTyped, SettingsRead, Stored, Texts, Choices

LEMMA SettingsTyped ==
  ASSUME Typed, NEW s \in Session, Step(s)
  PROVE  SettingTyped'
<1>1. CASE UNCHANGED <<setting, cached, sel>>
  BY <1>1 DEF Typed, SettingTyped
<1>2. CASE Load(s)
  BY <1>2, PageIsRead, ReadTyped DEF Typed, SettingTyped, Load, router
<1>3. CASE Leave(s)
  <2>1. InitSettings \in Texts /\ InitSettings \in Choices
    BY DEF InitSettings, Texts, Choices, Option
  <2> QED
    BY <1>3, <2>1 DEF Typed, SettingTyped, Leave, router, Stored, Texts, Choices
<1>4. CASE \E f \in Fields[page] : Select(s, f)
  <2>1. PICK f \in Fields[page] : Select(s, f)
    BY <1>4
  <2>2. PICK value \in Option : sel' = [sel EXCEPT ![s] = [sel[s] EXCEPT ![f] = value]]
    BY <2>1 DEF Select
  <2>3. [sel[s] EXCEPT ![f] = value] \in Choices
    BY DEF Typed, SettingTyped, Choices
  <2>4. setting' = setting /\ cached' = cached
    BY <2>1 DEF Select, router
  <2> QED
    BY <2>2, <2>3, <2>4, Zenon DEF Typed, SettingTyped
<1>5. CASE updateSaveData(s) \/ updateIpFilterStatus(s)
  <2>1. setting' \in Stored
    BY <1>5, PutTyped DEF updateSaveData, updateIpFilterStatus, Typed
  <2>2. ReadSettings(s) \/ UNCHANGED <<cached, sel>>
    BY <1>5, PageIsRead DEF updateSaveData, updateIpFilterStatus
  <2> QED
    BY <2>1, <2>2, ReadTyped DEF Typed, SettingTyped
<1>6. CASE SaveDnFilter(s)
  <2>1. setting' \in Stored /\ sel' = sel
    BY <1>6, PutTyped DEF SaveDnFilter, SettingLost, Typed
  <2>2. cached' = [cached EXCEPT ![s] = [cached[s] EXCEPT !["off"] = sel[s]["off"]]] \/ cached' = cached
    BY <1>6 DEF SaveDnFilter
  <2>3. [cached[s] EXCEPT !["off"] = sel[s]["off"]] \in Texts
    <3>1. cached[s] \in Texts /\ sel[s] \in Choices
      BY DEF Typed, SettingTyped
    <3>2. sel[s]["off"] \in Option \cup {"", "none"}
      BY <3>1 DEF Choices, Field
    <3> QED
      BY <3>1, <3>2 DEF Texts
  <2> QED
    BY <2>1, <2>2, <2>3 DEF Typed, SettingTyped
<1>7. CASE SaveIpFilter(s)
  <2>1. CASE PutSettings(sel[s], Posted(cached[s], sel[s])) /\ ReadPage(s)
    BY <2>1, PutTyped, PageIsRead, ReadTyped DEF Typed
  <2>2. ASSUME NEW f, NEW done,
               LET before == IF f = "off" THEN {} ELSE Posted(cached[s], sel[s]) \ {f} IN
                 /\ SettingLost(s, before \cup (IF done THEN {f} ELSE {}))
                 /\ cached' = [cached EXCEPT ![s] = [g \in Field |->
                                 IF g \in before THEN sel[s][g] ELSE @[g]]],
               UNCHANGED sel
        PROVE  SettingTyped'
    <3> DEFINE before == IF f = "off" THEN {} ELSE Posted(cached[s], sel[s]) \ {f}
               read == [g \in Field |-> IF g \in before THEN sel[s][g] ELSE cached[s][g]]
    <3>1. setting' \in Stored
      BY <2>2, PutTyped DEF SettingLost, Typed
    <3>2. cached' = [cached EXCEPT ![s] = read]
      BY <2>2
    <3> HIDE DEF before
    <3>3. read \in Texts
      <4>1. cached[s] \in Texts /\ sel[s] \in Choices
        BY DEF Typed, SettingTyped
      <4> QED
        BY <4>1 DEF Texts, Choices
    <3> QED
      BY <2>2, <3>1, <3>2, <3>3 DEF Typed, SettingTyped
  <2> QED
    BY <1>7, <2>1, <2>2 DEF SaveIpFilter
<1> QED
  BY <1>1, <1>2, <1>3, <1>4, <1>5, <1>6, <1>7 DEF Step, DelDnFilterEntry, AddDnfilterEntry, ModifyDnfilterEntry,
   DelPortMapEntry, AddPortMapEntry, ModifyPortMapEntry, DelPortTriggerEntry,
   AddPortTriggerEntry, ModifyPortTriggerEntry, DelIpFilterEntry, AddIpFilterEntry,
   ModifyIpFilterEntry, DelSREntry, AddSREntry, ModifySREntry, DelStaticIpEntry,
   AddStaticIp, ModifyStaticIpEntry, Delete, Add, Modify, Post, Send, PostAddress, Answer,
   AfterOther, GetDhcpStaticIp, ReadAfterOK, router

\* Reading, and what is remembered of changes by others and of lost answers.
LEMMA SeenTyped ==
  ASSUME GhostTyped, NEW s \in Session, NEW aspects, NEW changed, Seen(s, aspects, changed)
  PROVE  /\ behind' \in [Session -> SUBSET {"list", "setting"}]
         /\ lost' \in [Session -> SUBSET {"list", "setting"}]
BY DEF GhostTyped, Seen

LEMMA OthersTyped ==
  ASSUME GhostTyped, NEW s \in Session, NEW aspect \in {"list", "setting"}
  PROVE  Others(s, aspect) \in [Session -> SUBSET {"list", "setting"}]
BY DEF GhostTyped, Others

LEMMA GhostsTyped ==
  ASSUME GhostTyped, NEW s \in Session, Step(s)
  PROVE  GhostTyped'
<1>1. CASE UNCHANGED ghosts
  BY <1>1 DEF GhostTyped, ghosts
<1>2. ASSUME ReadList(s) \/ UNCHANGED past,
             \/ \E aspects, changed : Seen(s, aspects, changed)
             \/ /\ behind' = behind \/ behind' = Others(s, "setting")
                /\ lost' = lost \/ lost' = [lost EXCEPT ![s] = @ \cup {"setting"}]
      PROVE  GhostTyped'
  <2>1. past' \subseteq {"blind", "lost", "shared", "spelled"}
    BY <1>2 DEF GhostTyped, ReadList, ListRead
  <2>2. /\ behind' \in [Session -> SUBSET {"list", "setting"}]
        /\ lost' \in [Session -> SUBSET {"list", "setting"}]
    <3>1. CASE \E aspects, changed : Seen(s, aspects, changed)
      BY <3>1, SeenTyped
    <3>2. CASE /\ behind' = behind \/ behind' = Others(s, "setting")
               /\ lost' = lost \/ lost' = [lost EXCEPT ![s] = @ \cup {"setting"}]
      BY <3>2, OthersTyped DEF GhostTyped
    <3> QED
      BY <1>2, <3>1, <3>2
  <2> QED
    BY <2>1, <2>2 DEF GhostTyped
<1>3. CASE Leave(s)
  BY <1>3 DEF Leave, GhostTyped
<1>4. CASE \E done, answered \in BOOLEAN : Answer(s, done, answered)
  <2>1. PICK done \in BOOLEAN, answered \in BOOLEAN : Answer(s, done, answered)
    BY <1>4
  <2>2. CASE done
    <3>1. behind' \in [Session -> SUBSET {"list", "setting"}]
      BY <2>1, <2>2, OthersTyped DEF Answer
    <3>2. lost' = lost \/ lost' = [lost EXCEPT ![s] = @ \cup {"list"}]
      BY <2>1, <2>2 DEF Answer
    <3>3. lost' \in [Session -> SUBSET {"list", "setting"}]
      BY <3>2 DEF GhostTyped
    <3>4. past' \subseteq past \cup {"lost"} \cup {"shared"}
      BY <2>1, <2>2 DEF Answer
    <3> QED
      BY <3>1, <3>3, <3>4 DEF GhostTyped
  <2>3. CASE ~done
    BY <2>1, <2>3, <1>1 DEF Answer
  <2> QED
    BY <2>2, <2>3
<1>5. CASE Load(s) \/ updateSaveData(s) \/ updateIpFilterStatus(s)
  BY <1>2, <1>5, PageIsRead DEF Load, updateSaveData, updateIpFilterStatus
<1>6. CASE AfterOther(s) \/ GetDhcpStaticIp(s)
  BY <1>1, <1>2, <1>6 DEF AfterOther, GetDhcpStaticIp, ReadAfterOK
<1>7. CASE SaveDnFilter(s)
  BY <1>2, <1>7 DEF SaveDnFilter, SettingLost
<1>8. CASE SaveIpFilter(s)
  BY <1>2, <1>8, PageIsRead DEF SaveIpFilter, SettingLost
<1> QED
  BY <1>1, <1>3, <1>4, <1>5, <1>6, <1>7, <1>8 DEF Step, Select, DelDnFilterEntry,
   AddDnfilterEntry, ModifyDnfilterEntry, DelPortMapEntry, AddPortMapEntry, ModifyPortMapEntry,
   DelPortTriggerEntry, AddPortTriggerEntry, ModifyPortTriggerEntry, DelIpFilterEntry,
   AddIpFilterEntry, ModifyIpFilterEntry, DelSREntry, AddSREntry, ModifySREntry,
   DelStaticIpEntry, AddStaticIp, ModifyStaticIpEntry, Delete, Add, Modify, Post, Send,
   PostAddress, GhostTyped

LEMMA ReplyTyped ==
  ASSUME reply \in [Session -> BOOLEAN], NEW s \in Session, Step(s)
  PROVE  reply' \in [Session -> BOOLEAN]
<1>1. CASE \E done, answered \in BOOLEAN : Answer(s, done, answered)
  <2>1. PICK done \in BOOLEAN, answered \in BOOLEAN : Answer(s, done, answered)
    BY <1>1
  <2>2. (done /\ answered /\ ReadsAfterOK(req[s])) \in BOOLEAN
    BY Zenon
  <2>3. PICK b \in BOOLEAN : reply' = [reply EXCEPT ![s] = b]
    BY <2>1, <2>2, Zenon DEF Answer
  <2> QED
    BY <2>3
<1>2. CASE reply' = [reply EXCEPT ![s] = FALSE] \/ UNCHANGED reply
  BY <1>2
<1> QED
  BY <1>1, <1>2 DEF Step, Load, Leave, Select, DelDnFilterEntry, AddDnfilterEntry, ModifyDnfilterEntry,
   DelPortMapEntry, AddPortMapEntry, ModifyPortMapEntry, DelPortTriggerEntry,
   AddPortTriggerEntry, ModifyPortTriggerEntry, DelIpFilterEntry, AddIpFilterEntry,
   ModifyIpFilterEntry, DelSREntry, AddSREntry, ModifySREntry, DelStaticIpEntry,
   AddStaticIp, ModifyStaticIpEntry, Delete, Add, Modify, Post, Send, PostAddress, updateSaveData,
   updateIpFilterStatus, AfterOther, GetDhcpStaticIp, ReadAfterOK, SaveDnFilter, SaveIpFilter, Done

\* Every handler keeps the types.
THEOREM NextTyped == Typed /\ [Next]_vars => Typed'
<1> SUFFICES ASSUME Typed, [Next]_vars PROVE Typed'
  OBVIOUS
<1>1. CASE UNCHANGED vars
  BY <1>1 DEF vars, Typed, ListTyped, SettingTyped, GhostTyped, Requests
<1>2. ASSUME NEW s \in Session, Step(s) PROVE Typed'
  <2> SUFFICES ListTyped'
    BY <1>2, SettingsTyped, GhostsTyped, ReplyTyped DEF Typed
  <2>1. ASSUME Delete(s) PROVE ListTyped'
    <3>1. PICK rows \in (SUBSET DOMAIN view[s]) \ {{}} :
            Post(s, Request("delete", rows, SomeRule))
      BY <2>1 DEF Delete
    <3> DEFINE r == Request("delete", rows, SomeRule)
    <3>2. rows \subseteq 1..MaxLen[page]
      BY <3>1, RuleTableAssumption DEF Typed, ListTyped
    <3>3. r \in Requests /\ r.rows = rows
      BY <3>2, NoRequestTyped DEF Request, Requests
    <3> HIDE DEF r
    <3>4. Posts(s, r) /\ r.rows \subseteq DOMAIN view[s]
      BY <3>1, <3>3, PostPosts DEF r
    <3> QED
      BY <3>3, <3>4, PostTyped DEF Typed
  <2>2. ASSUME NEW a \in Rule, Posts(s, Request("add", {}, a)) PROVE ListTyped'
    <3> DEFINE r == Request("add", {}, a)
    <3>1. r \in Requests /\ r.rows = {}
      BY DEF Request, Requests
    <3> HIDE DEF r
    <3>2. Posts(s, r)
      BY <2>2 DEF r
    <3> QED
      BY <3>1, <3>2, PostTyped DEF Typed
  <2>3. ASSUME NEW i \in DOMAIN view[s], NEW a \in Rule, Posts(s, Request("edit", {i}, a))
        PROVE  ListTyped'
    <3> DEFINE r == Request("edit", {i}, a)
    <3>1. i \in 1..MaxLen[page]
      BY RuleTableAssumption DEF Typed, ListTyped
    <3>2. r \in Requests /\ r.rows = {i}
      BY <3>1 DEF Request, Requests
    <3> HIDE DEF r
    <3>3. Posts(s, r)
      BY <2>3 DEF r
    <3> QED
      BY <3>2, <3>3, PostTyped DEF Typed
  <2>4. CASE Load(s)
    BY <2>4, PageIsRead, OverTyped DEF Load, Typed, router
  <2>5. CASE Leave(s)
    BY <2>5, OverTyped DEF Leave, Typed, router
  <2>6. CASE (\E f \in Fields[page] : Select(s, f)) \/ SaveDnFilter(s)
    BY <2>6 DEF Select, SaveDnFilter, Typed, ListTyped, Requests, router
  <2>7. CASE \/ DelDnFilterEntry(s) \/ DelPortMapEntry(s) \/ DelPortTriggerEntry(s)
             \/ DelIpFilterEntry(s) \/ DelSREntry(s) \/ DelStaticIpEntry(s)
    BY <2>1, <2>7 DEF DelDnFilterEntry, DelPortMapEntry, DelPortTriggerEntry,
       DelIpFilterEntry, DelSREntry, DelStaticIpEntry
  <2>8. CASE \/ AddDnfilterEntry(s) \/ AddPortMapEntry(s) \/ AddPortTriggerEntry(s)
             \/ AddIpFilterEntry(s)
    BY <2>2, <2>8, PostPosts DEF AddDnfilterEntry, AddPortMapEntry, AddPortTriggerEntry,
       AddIpFilterEntry, Add, Rule
  <2>9. CASE AddSREntry(s)
    BY <2>2, <2>9, PostPosts DEF AddSREntry, Rule
  <2>16. CASE AddStaticIp(s)
    BY <2>2, <2>16, PostPosts, LowerRule DEF AddStaticIp
  <2>10. CASE \/ ModifyDnfilterEntry(s) \/ ModifyPortMapEntry(s)
              \/ ModifyPortTriggerEntry(s) \/ ModifyIpFilterEntry(s)
    BY <2>3, <2>10, PostPosts DEF ModifyDnfilterEntry, ModifyPortMapEntry,
       ModifyPortTriggerEntry, ModifyIpFilterEntry, Modify, Rule
  <2>11. CASE ModifySREntry(s)
    BY <2>3, <2>11, PostPosts DEF ModifySREntry, Rule
  <2>17. CASE ModifyStaticIpEntry(s)
    BY <2>3, <2>17, PostPosts, LowerRule DEF ModifyStaticIpEntry
  <2>12. CASE \E done, answered \in BOOLEAN : Answer(s, done, answered)
    BY <2>12, AnswerTyped DEF Typed
  <2>13. CASE updateSaveData(s) \/ updateIpFilterStatus(s)
    BY <2>13, PageIsRead, OverTyped DEF updateSaveData, updateIpFilterStatus, Done, Typed
  <2>14. CASE AfterOther(s) \/ GetDhcpStaticIp(s)
    BY <2>14, OverTyped DEF AfterOther, GetDhcpStaticIp, ReadAfterOK, Done, Typed
  <2>15. CASE SaveIpFilter(s)
    <3>1. mode' = [mode EXCEPT ![s] = "idle"]
      BY <2>15 DEF SaveIpFilter, Typed, ListTyped
    <3>2. UNCHANGED <<page, rules, req>> /\ (ReadList(s) \/ view' = view)
      BY <2>15, PageIsRead DEF SaveIpFilter
    <3> QED
      BY <3>1, <3>2, OverTyped DEF Typed
  <2> QED
    BY <1>2, <2>4, <2>5, <2>6, <2>7, <2>8, <2>9, <2>10, <2>11, <2>12, <2>13, <2>14,
       <2>15, <2>16, <2>17 DEF Step
<1> QED BY <1>1, <1>2 DEF Next

LEMMA InitTyped == Init => Typed
<1> SUFFICES ASSUME Init PROVE Typed
  OBVIOUS
<1>1. <<>> \in Seq(Rule) /\ Len(<<>>) = 0 /\ MaxLen[page] \in Nat
  BY EmptySeq, RuleTableAssumption DEF Init
<1>2. InitSettings \in Stored /\ InitSettings \in Texts /\ InitSettings \in Choices
  BY DEF InitSettings, Stored, Texts, Choices, Option
<1>3. ListTyped
  BY <1>1, NoRequestTyped DEF Init, ListTyped
<1>4. SettingTyped /\ GhostTyped
  BY <1>2 DEF Init, SettingTyped, GhostTyped
<1> QED BY <1>3, <1>4 DEF Typed, Init

\* Every variable has its type with any number of browsers, rules and rows; a request
\* on its way names rows that the page it was made on shows.
THEOREM TypeCorrect == Spec => []TypeOK
<1>1. Typed => TypeOK
  BY DEF Typed, ListTyped, SettingTyped, GhostTyped, TypeOK, Stored, Texts, Choices
<1> QED BY <1>1, InitTyped, NextTyped, PTL DEF Spec

-----------------------------------------------------------------------------
(* What an open page takes for saved.  The settings of the router change     *)
(* only by a post; the page that posts reads them back, or notes what it     *)
(* posted, and every other open page is remembered to be behind.  A read     *)
(* that fails leaves the text "", which no select shows.                     *)

Agrees(s) == \A f \in OwnFields :
               cached[s][f] = "" \/ Carried(cached[s][f]) = setting[f]

Told(s) == mode[s] # "closed" /\ "setting" \notin behind[s] \cup lost[s]

Saved == \A s \in Session : Told(s) => Agrees(s)

\* A step of one page leaves what the others show, and they are told nothing new, if
\* the router's settings stay.
LEMMA OthersSaved ==
  ASSUME Typed, Saved, NEW s \in Session, NEW t \in Session \ {s}, page' = page,
         cached'[t] = cached[t], mode'[t] = mode[t], lost'[t] = lost[t],
         setting' = setting => ("setting" \in behind[t] => "setting" \in behind'[t]),
         setting' # setting /\ mode[t] # "closed" => "setting" \in behind'[t]
  PROVE  Told(t)' => Agrees(t)'
BY DEF Saved, Told, Agrees, OwnFields

\* What is read of the settings is what is saved, the router having its own texts.
LEMMA FieldsOwned == OwnFields \subseteq Field
BY DEF OwnFields, Field

LEMMA ReadSaved ==
  ASSUME Typed, NEW s \in Session, ReadSettings(s), page' = page, setting' \in Stored
  PROVE  Agrees(s)'
<1>1. PICK failed \in SUBSET MayFail : SettingsRead(s, failed)
  BY DEF ReadSettings
<1>2. cached'[s] = Found(setting', failed)
  BY <1>1 DEF SettingsRead, Typed, SettingTyped
<1>3. OwnFields' \subseteq Field
  BY FieldsOwned DEF OwnFields
<1>4. ASSUME NEW f \in OwnFields' PROVE cached'[s][f] = "" \/ Carried(cached'[s][f]) = setting'[f]
  <2>1. cached'[s][f] = IF f \in failed THEN "" ELSE setting'[f]
    BY <1>2, <1>3 DEF Found
  <2>2. setting'[f] \in Option \cup {""}
    BY <1>3 DEF Stored
  <2> QED
    BY <2>1, <2>2 DEF Carried
<1> QED
  BY <1>4 DEF Agrees

\* A post of no setting changes none.
LEMMA PutNothing ==
  ASSUME Typed, NEW chosen, PutSettings(chosen, {})
  PROVE  setting' = setting
BY DEF Typed, SettingTyped, PutSettings, Stored

\* What a page that reads the settings does to the others.
LEMMA SeenSaved ==
  ASSUME Typed, Saved, NEW s \in Session, NEW chosen, NEW fields,
         PutSettings(chosen, fields), ReadSettings(s), Seen(s, {"list", "setting"}, fields), page' = page,
         mode' = [mode EXCEPT ![s] = "idle"]
  PROVE  Saved'
<1>1. ASSUME NEW t \in Session \ {s} PROVE Told(t)' => Agrees(t)'
  <2>1. setting' # setting => fields # {}
    BY PutNothing
  <2>2. UNCHANGED <<page>> /\ cached'[t] = cached[t] /\ mode'[t] = mode[t]
    BY DEF Typed, ListTyped, SettingTyped, ReadSettings, SettingsRead
  <2>3. lost'[t] = lost[t] /\ ("setting" \in behind[t] => "setting" \in behind'[t])
    BY DEF Typed, GhostTyped, Seen
  <2>4. fields # {} /\ mode[t] # "closed" => "setting" \in behind'[t]
    BY DEF Seen
  <2> QED
    BY <2>1, <2>2, <2>3, <2>4, OthersSaved
<1> QED
  BY <1>1, ReadSaved, PutTyped DEF Saved, Typed

\* A post whose answer is not "OK", or that is not followed by a read.
LEMMA LostSaved ==
  ASSUME Typed, Saved, NEW s \in Session, NEW fields, SettingLost(s, fields),
         UNCHANGED <<page, mode>>,
         cached' = [cached EXCEPT ![s] = cached'[s]],
         lost' = [lost EXCEPT ![s] = lost'[s]],
         Told(s)' => Agrees(s)'
  PROVE  Saved'
<1>1. ASSUME NEW t \in Session \ {s} PROVE Told(t)' => Agrees(t)'
  <2>1. setting' # setting => fields # {}
    BY PutNothing DEF SettingLost
  <2>2. cached'[t] = cached[t] /\ mode'[t] = mode[t] /\ lost'[t] = lost[t]
    BY DEF Typed, SettingTyped, GhostTyped
  <2>3. "setting" \in behind[t] => "setting" \in behind'[t]
    BY DEF Typed, GhostTyped, SettingLost, Others
  <2>4. fields # {} /\ mode[t] # "closed" => "setting" \in behind'[t]
    BY DEF SettingLost, Others
  <2> QED
    BY <2>1, <2>2, <2>3, <2>4, OthersSaved
<1> QED
  BY <1>1 DEF Saved

\* A step that leaves the settings alone, and only outdates lists or closes pages.
LEMMA QuietSaved ==
  ASSUME Typed, Saved, UNCHANGED <<page, setting, cached>>,
         \A t \in Session : Told(t)' => Told(t)
  PROVE  Saved'
BY DEF Saved, Agrees, OwnFields

\* Every handler keeps what the open pages take for as saved true.
LEMMA NextSaved == Typed /\ Saved /\ [Next]_vars => Saved'
<1> SUFFICES ASSUME Typed, Saved, [Next]_vars PROVE Saved'
  OBVIOUS
<1>1. CASE UNCHANGED vars
  BY <1>1 DEF vars, Saved, Told, Agrees, OwnFields
<1>2. ASSUME NEW s \in Session, Step(s) PROVE Saved'
  <2>1. ASSUME NEW r, Posts(s, r) PROVE Saved'
    <3>1. \A t \in Session : Told(t)' => Told(t)
      BY <2>1 DEF Posts, Send, router, Told, Typed, ListTyped
    <3> QED
      BY <2>1, <3>1, QuietSaved DEF Posts, Send, router
  <2>2. CASE Load(s)
    <3>1. PutSettings(setting, {})
      BY <2>2 DEF Load, router, Typed, SettingTyped, PutSettings, Stored
    <3> QED
      BY <2>2, <3>1, PageIsRead, SeenSaved DEF Load, router
  <2>3. CASE Leave(s)
    <3>1. ASSUME NEW t \in Session \ {s} PROVE Told(t)' => Agrees(t)'
      <4>1. cached'[t] = cached[t] /\ mode'[t] = mode[t] /\ lost'[t] = lost[t] /\ behind'[t] = behind[t]
        BY <2>3 DEF Leave, Typed, ListTyped, SettingTyped, GhostTyped
      <4> QED
        BY <2>3, <4>1, OthersSaved DEF Leave, router
    <3>2. ~Told(s)'
      BY <2>3 DEF Leave, Told, Typed, ListTyped
    <3> QED
      BY <3>1, <3>2 DEF Saved
  <2>4. CASE \E f \in Fields[page] : Select(s, f)
    <3>1. \A t \in Session : Told(t)' => Told(t)
      BY <2>4 DEF Select, ghosts, Told
    <3> QED
      BY <2>4, <3>1, QuietSaved DEF Select, router
  <2>5. CASE \E done, answered \in BOOLEAN : Answer(s, done, answered)
    <3>1. PICK done \in BOOLEAN, answered \in BOOLEAN : Answer(s, done, answered)
      BY <2>5
    <3>2. ASSUME NEW t \in Session PROVE Told(t)' => Told(t)
      <4>1. mode[t] = "closed" => mode'[t] = "closed"
        BY <3>1 DEF Answer, Typed, ListTyped
      <4>2. "setting" \in behind[t] => "setting" \in behind'[t]
        BY <3>1 DEF Answer, Others, ghosts, Typed, GhostTyped
      <4>3. "setting" \in lost[t] => "setting" \in lost'[t]
        BY <3>1 DEF Answer, ghosts, Typed, GhostTyped
      <4> QED
        BY <4>1, <4>2, <4>3 DEF Told
    <3> QED
      BY <3>1, <3>2, QuietSaved DEF Answer
  <2>6. CASE updateSaveData(s)
    <3>1. mode' = [mode EXCEPT ![s] = "idle"] /\ page' = page
      BY <2>6 DEF updateSaveData, Done
    <3> DEFINE posted == Posted(cached[s], sel[s])
    <3>2. PICK fields \in SUBSET posted :
            /\ PutSettings(sel[s], fields)
            /\ IF posted = {} THEN UNCHANGED <<cached, sel>> /\ Seen(s, {"list"}, {})
               ELSE ReadSettings(s) /\ Seen(s, {"list", "setting"}, fields)
      BY <2>6 DEF updateSaveData
    <3> HIDE DEF posted
    <3>3. CASE posted = {}
      <4>1. setting' = setting
        BY <3>2, <3>3, PutNothing
      <4>2. ASSUME NEW t \in Session PROVE Told(t)' => Told(t)
        <5>1. mode[t] = "closed" => mode'[t] = "closed"
          BY <2>6, <3>1 DEF updateSaveData, Typed, ListTyped
        <5>2. /\ "setting" \in behind[t] => "setting" \in behind'[t]
              /\ "setting" \in lost[t] => "setting" \in lost'[t]
          BY <3>2, <3>3 DEF Seen, Typed, GhostTyped
        <5> QED
          BY <5>1, <5>2 DEF Told
      <4> QED
        BY <3>1, <3>2, <3>3, <4>1, <4>2, QuietSaved
    <3>4. CASE posted # {}
      BY <3>1, <3>2, <3>4, SeenSaved
    <3> QED
      BY <3>3, <3>4
  <2>7. CASE updateIpFilterStatus(s)
    <3>1. mode' = [mode EXCEPT ![s] = "idle"] /\ page' = page
      BY <2>7 DEF updateIpFilterStatus, Done
    <3>2. PICK had \in HadBefore(s) : \E fields \in SUBSET Posted(had[1], had[2]) :
            PutSettings(had[2], fields) /\ Seen(s, {"list", "setting"}, fields)
      BY <2>7 DEF updateIpFilterStatus
    <3>3. ReadPage(s)
      BY <2>7 DEF updateIpFilterStatus
    <3> QED
      BY <3>1, <3>2, <3>3, PageIsRead, SeenSaved
  <2>8. CASE AfterOther(s) \/ GetDhcpStaticIp(s)
    <3>1. ASSUME NEW t \in Session PROVE Told(t)' => Told(t)
      <4>1. mode[t] = "closed" => mode'[t] = "closed"
        BY <2>8 DEF AfterOther, GetDhcpStaticIp, ReadAfterOK, Done, Typed, ListTyped
      <4>2. Seen(s, {"list"}, {}) \/ UNCHANGED ghosts
        BY <2>8 DEF AfterOther, GetDhcpStaticIp, ReadAfterOK
      <4>3. /\ "setting" \in behind[t] => "setting" \in behind'[t]
            /\ "setting" \in lost[t] => "setting" \in lost'[t]
        BY <4>2 DEF Seen, ghosts, Typed, GhostTyped
      <4> QED
        BY <4>1, <4>3 DEF Told
    <3> QED
      BY <2>8, <3>1, QuietSaved DEF AfterOther, GetDhcpStaticIp, ReadAfterOK, Done
  <2>9. CASE SaveDnFilter(s)
    <3>1. PICK done \in BOOLEAN, answered \in BOOLEAN :
            /\ SettingLost(s, IF done THEN {"off"} ELSE {})
            /\ IF done /\ answered
               THEN cached' = [cached EXCEPT ![s]["off"] = sel[s]["off"]] /\ UNCHANGED lost
               ELSE /\ lost' = IF done THEN [lost EXCEPT ![s] = @ \cup {"setting"}] ELSE lost
                    /\ UNCHANGED cached
      BY <2>9 DEF SaveDnFilter
    <3>2. UNCHANGED <<page, mode>> /\ page = "dnfilter"
      BY <2>9 DEF SaveDnFilter
    <3>3. cached' = [cached EXCEPT ![s] = cached'[s]] /\ lost' = [lost EXCEPT ![s] = lost'[s]]
      BY <3>1 DEF Typed, SettingTyped, GhostTyped
    <3>4. Told(s)' => Agrees(s)'
      <4>1. CASE done /\ answered
        <5>1. SettingLost(s, {"off"}) /\ cached' = [cached EXCEPT ![s]["off"] = sel[s]["off"]]
          BY <3>1, <4>1
        <5>2. setting'["off"] = Carried(sel[s]["off"])
          BY <5>1 DEF SettingLost, PutSettings, Field
        <5>3. cached'[s]["off"] = sel[s]["off"]
          <6>1. cached[s] \in Texts /\ DOMAIN cached[s] = Field
            BY DEF Typed, SettingTyped, Texts
          <6> QED
            BY <5>1, <6>1 DEF Typed, SettingTyped, Field
        <5>4. OwnFields' = {"off"}
          BY <3>2 DEF OwnFields
        <5> QED
          BY <5>2, <5>3, <5>4 DEF Agrees
      <4>2. CASE done /\ ~answered
        BY <3>1, <4>2 DEF Told, Typed, GhostTyped
      <4>3. CASE ~done
        <5>1. SettingLost(s, {}) /\ UNCHANGED <<lost, cached>>
          BY <3>1, <4>3
        <5>2. setting' = setting /\ behind' = behind
          BY <5>1, PutNothing DEF SettingLost
        <5> QED
          BY <3>2, <5>1, <5>2 DEF Saved, Told, Agrees, OwnFields
      <4> QED
        BY <4>1, <4>2, <4>3
    <3> QED
      BY <3>1, <3>2, <3>3, <3>4, LostSaved
  <2>10. CASE SaveIpFilter(s)
    <3>1. UNCHANGED <<page, mode>> /\ page = "ipfilter" /\ mode' = [mode EXCEPT ![s] = "idle"]
      BY <2>10 DEF SaveIpFilter, Typed, ListTyped
    <3> DEFINE posted == Posted(cached[s], sel[s])
    <3>2. CASE /\ PutSettings(sel[s], posted) /\ ReadPage(s)
               /\ Seen(s, {"list", "setting"}, posted)
      BY <3>1, <3>2, PageIsRead, SeenSaved
    <3>3. ASSUME NEW f \in posted, NEW done \in BOOLEAN,
                 LET before == IF f = "off" THEN {} ELSE posted \ {f} IN
                   /\ SettingLost(s, before \cup (IF done THEN {f} ELSE {}))
                   /\ cached' = [cached EXCEPT ![s] = [g \in Field |->
                                   IF g \in before THEN sel[s][g] ELSE @[g]]],
                 lost' = IF done THEN [lost EXCEPT ![s] = @ \cup {"setting"}] ELSE lost
          PROVE  Saved'
      <4> DEFINE before == IF f = "off" THEN {} ELSE posted \ {f}
                 read == [g \in Field |-> IF g \in before THEN sel[s][g] ELSE cached[s][g]]
                 fields == before \cup (IF done THEN {f} ELSE {})
      <4>1. SettingLost(s, fields) /\ cached' = [cached EXCEPT ![s] = read]
        BY <3>3
      <4>2. cached' = [cached EXCEPT ![s] = cached'[s]] /\ lost' = [lost EXCEPT ![s] = lost'[s]]
        <5> HIDE DEF before, read
        <5> QED
          BY <3>3, <4>1 DEF Typed, SettingTyped, GhostTyped
      <4>3. Told(s)' => Agrees(s)'
        <5>1. CASE done
          BY <3>3, <5>1 DEF Told, Typed, GhostTyped
        <5>2. CASE ~done
          <6>1. fields = before /\ lost' = lost
            BY <3>3, <5>2
          <6> HIDE DEF before, fields
          <6>2. setting' = [g \in Field |-> IF g \in before THEN Carried(sel[s][g]) ELSE setting[g]]
                /\ behind'[s] = behind[s]
            BY <4>1, <6>1 DEF SettingLost, PutSettings, Others, Typed, GhostTyped
          <6>3. cached'[s] = read
            BY <4>1 DEF Typed, SettingTyped
          <6>4. Told(s)' => Agrees(s)
            BY <3>1, <6>1, <6>2 DEF Saved, Told
          <6>5. OwnFields' = OwnFields /\ OwnFields \subseteq Field
            BY <3>1, FieldsOwned DEF OwnFields
          <6>6. ASSUME NEW g \in Field, cached[s][g] = "" \/ Carried(cached[s][g]) = setting[g]
                PROVE  cached'[s][g] = "" \/ Carried(cached'[s][g]) = setting'[g]
            BY <6>2, <6>3, <6>6
          <6> QED
            BY <6>4, <6>5, <6>6 DEF Agrees
        <5> QED
          BY <5>1, <5>2
      <4> HIDE DEF fields
      <4> QED
        BY <3>1, <4>1, <4>2, <4>3, LostSaved
    <3> QED
      BY <2>10, <3>1, <3>2, <3>3 DEF SaveIpFilter
  <2> QED
    BY <1>2, <2>1, <2>2, <2>3, <2>4, <2>5, <2>6, <2>7, <2>8, <2>9, <2>10, PostPosts DEF Step,
       DelDnFilterEntry, AddDnfilterEntry, ModifyDnfilterEntry,
       DelPortMapEntry, AddPortMapEntry, ModifyPortMapEntry, DelPortTriggerEntry,
       AddPortTriggerEntry, ModifyPortTriggerEntry, DelIpFilterEntry, AddIpFilterEntry,
       ModifyIpFilterEntry, DelSREntry, AddSREntry, ModifySREntry, DelStaticIpEntry,
       AddStaticIp, ModifyStaticIpEntry, Delete, Add, Modify
<1> QED BY <1>1, <1>2 DEF Next

\* With any number of browsers that save, switch and edit: unless another page has
\* changed a setting since, or the answer to an own post was lost, an idle page that
\* shows a setting as saved shows what the router has, however reads fail.
THEOREM SavedIsShown == Spec => []ShownIsSaved
<1>1. Init => Saved
  BY DEF Init, Saved, Told
<1>2. Typed /\ Saved => ShownIsSaved
  <2> SUFFICES ASSUME Typed, Saved, NEW s \in Session, mode[s] = "idle",
                      "setting" \notin behind[s] \cup lost[s],
                      NEW f \in OwnFields, sel[s][f] = cached[s][f]
               PROVE  Carried(sel[s][f]) = setting[f]
    BY DEF ShownIsSaved
  <2>1. Agrees(s)
    BY DEF Saved, Told
  <2>2. sel[s][f] \in Option \cup {"none"}
    BY FieldsOwned DEF Typed, SettingTyped, Choices
  <2> QED
    BY <2>1, <2>2 DEF Agrees, Option
<1> QED BY <1>1, <1>2, InitTyped, NextTyped, NextSaved, PTL DEF Spec

-----------------------------------------------------------------------------
(* Equal routes and addresses.  As long as every page could read the list    *)
(* and got every answer, and none changed a list it was behind of, a page    *)
(* that nobody has outdated shows the router's list, so what it does not     *)
(* show is new there.  A rule is looked for by one key on the page of routes *)
(* and by two on the page of fixed addresses; by the MAC address only as     *)
(* long as it is posted in the spelling that was looked for.                 *)

Looked == IF page = "staticroute" THEN {"route"}
          ELSE IF page = "fixedip" THEN {"ip", "mac"} ELSE {}

Key(k) == IF k = "route" THEN Itself ELSE IF k = "ip" THEN IpOf ELSE MacOf

Relied(k) == past \subseteq (IF k = "ip" THEN {"spelled"} ELSE {})

NoneLost == \A s \in Session : "list" \notin lost[s]

Current == \A s \in Session : Keeps(s) /\ "list" \notin behind[s] => view[s] = rules

\* A request that adds a rule with a new key, or replaces a row by a rule whose key is
\* new or the one of that row.
IsNew(list, key, r) ==
  /\ r.kind = "add" => \A i \in DOMAIN list : key[list[i]] # key[r.rule]
  /\ r.kind \notin {"add", "delete"} =>
       \E i \in DOMAIN list :
         /\ r.rows = {i}
         /\ \A j \in DOMAIN list : key[list[j]] = key[r.rule] => key[list[j]] = key[list[i]]

PostsNew(key) == \A s \in Session : mode[s] = "wait" => IsNew(view[s], key, req[s])

\* The page of fixed addresses has no other rules.
Addresses ==
  page = "fixedip" =>
    /\ rules \in Seq(Address) /\ \A s \in Session : view[s] \in Seq(Address)
    /\ \A s \in Session : mode[s] = "wait" /\ req[s].kind # "delete" => req[s].rule \in Address

TInv ==
  /\ Addresses
  /\ Compares /\ past \subseteq {"spelled"} => NoneLost /\ Current
  /\ \A k \in Looked : Relied(k) => Distinct(rules, Key(k)) /\ PostsNew(Key(k))

\* Only two pages look for equal rules.
LEMMA LookedFacts ==
  /\ Looked # {} => Compares
  /\ \A k \in Looked : Relied(k) => past \subseteq {"spelled"}
  /\ Compares => ~Rereads
BY DEF Looked, Relied, Compares, Rereads

\* A list without two rules of a key gets none from a request for a new rule.
LEMMA EffectDistinct ==
  ASSUME NEW S, NEW list \in Seq(S), NEW key, Distinct(list, key), NEW r, IsNew(list, key, r)
  PROVE  Distinct(Effect(list, r), key)
<1>1. IsList(list) /\ Len(list) \in Nat /\ DOMAIN list = 1..Len(list)
  BY IsListSeq, LenProperties
<1>2. CASE r.kind = "add"
  <2> DEFINE new == Append(list, r.rule)
  <2>0. IsList(new) /\ Len(new) = Len(list) + 1
    BY <1>1, AppendList
  <2>1. /\ DOMAIN new = 1..(Len(list) + 1) /\ new[Len(list) + 1] = r.rule
        /\ \A i \in 1..Len(list) : new[i] = list[i]
    <3> DEFINE T == S \cup {r.rule}
    <3>1. list \in Seq(T) /\ r.rule \in T
      BY <1>1 DEF IsList
    <3> QED
      BY <1>1, <3>1, AppendProperties
  <2>2. \A i \in 1..Len(list) : key[list[i]] # key[r.rule]
    BY <1>1, <1>2 DEF IsNew
  <2> HIDE DEF new
  <2>3. Distinct(new, key)
    BY <1>1, <2>1, <2>2 DEF Distinct
  <2> QED
    BY <1>2, <2>3 DEF Effect, new
<1>3. CASE r.kind = "delete"
  BY <1>1, <1>3, DroppedRows DEF Effect
<1>4. CASE r.kind \notin {"add", "delete"}
  <2>1. PICK k \in DOMAIN list :
          /\ r.rows = {k}
          /\ \A j \in DOMAIN list : key[list[j]] = key[r.rule] => key[list[j]] = key[list[k]]
    BY <1>4 DEF IsNew
  <2>2. Effect(list, r) = [i \in 1..Len(list) |-> IF i = k THEN r.rule ELSE list[i]]
    BY <1>4, <2>1 DEF Effect
  <2>3. \A j \in 1..Len(list) : key[list[j]] = key[r.rule] => j = k
    BY <1>1, <2>1 DEF Distinct
  <2> QED
    BY <1>1, <2>2, <2>3 DEF Distinct
<1> QED
  BY <1>2, <1>3, <1>4

\* The history only grows.
LEMMA PastGrows ==
  ASSUME NEW s \in Session, Step(s)
  PROVE  past \subseteq past'
<1>1. CASE ReadList(s) \/ UNCHANGED past
  BY <1>1 DEF ReadList, ListRead
<1>2. CASE \E done, answered \in BOOLEAN : Answer(s, done, answered)
  BY <1>2 DEF Answer, ghosts
<1>3. CASE AddStaticIp(s) \/ ModifyStaticIpEntry(s)
  BY <1>3 DEF AddStaticIp, ModifyStaticIpEntry, PostAddress
<1> QED
  BY <1>1, <1>2, <1>3, PageIsRead DEF Step, Load, Leave, Select, DelDnFilterEntry,
   AddDnfilterEntry, ModifyDnfilterEntry,
   DelPortMapEntry, AddPortMapEntry, ModifyPortMapEntry, DelPortTriggerEntry,
   AddPortTriggerEntry, ModifyPortTriggerEntry, DelIpFilterEntry, AddIpFilterEntry,
   ModifyIpFilterEntry, DelSREntry, AddSREntry, ModifySREntry, DelStaticIpEntry,
   Delete, Add, Modify, Post, updateSaveData, ghosts,
   updateIpFilterStatus, AfterOther, GetDhcpStaticIp, ReadAfterOK, SaveDnFilter, SaveIpFilter

LEMMA PastRelied ==
  ASSUME past \subseteq past', NEW k, Relied(k)'
  PROVE  Relied(k)
BY DEF Relied

\* A request for a rule that the page does not show leaves.
LEMMA PostTInv ==
  ASSUME Typed, TInv, NEW s \in Session, NEW r, Posts(s, r),
         page = "fixedip" /\ r.kind # "delete" => r.rule \in Address,
         \A k \in Looked : Relied(k)' => IsNew(view[s], Key(k), r)
  PROVE  TInv'
<1>1. UNCHANGED <<page, rules, view, reply, behind, lost>> /\ mode[s] = "idle"
  BY DEF Posts, Send, router
<1>2. /\ mode' = [mode EXCEPT ![s] = "wait"] /\ req' = [req EXCEPT ![s] = r]
      /\ past \subseteq past' /\ (past' \subseteq {"spelled"} => past \subseteq {"spelled"})
  BY DEF Posts, Send
<1>3. Addresses'
  BY <1>1, <1>2 DEF TInv, Addresses, Typed, ListTyped
<1>4. (Compares /\ past \subseteq {"spelled"} => NoneLost /\ Current)'
  <2>1. \A t \in Session : Keeps(t)' => Keeps(t)
    BY <1>1, <1>2 DEF Keeps, Rereads, Typed, ListTyped
  <2> QED
    BY <1>1, <1>2, <2>1 DEF TInv, Current, NoneLost, Compares
<1>5. ASSUME NEW k \in Looked', Relied(k)' PROVE Distinct(rules, Key(k))' /\ PostsNew(Key(k))'
  <2>1. k \in Looked /\ Relied(k)
    BY <1>1, <1>2, <1>5, PastRelied DEF Looked
  <2>2. Distinct(rules, Key(k)) /\ PostsNew(Key(k)) /\ IsNew(view[s], Key(k), r)
    BY <1>5, <2>1 DEF TInv
  <2>3. ASSUME NEW t \in Session, mode'[t] = "wait" PROVE IsNew(view'[t], Key(k), req'[t])
    <3>1. CASE t = s
      BY <1>1, <1>2, <2>2, <3>1 DEF Typed, ListTyped
    <3>2. CASE t # s
      BY <1>1, <1>2, <2>2, <2>3, <3>2 DEF PostsNew, Typed, ListTyped
    <3> QED
      BY <3>1, <3>2
  <2> QED
    BY <1>1, <2>2, <2>3 DEF PostsNew
<1> QED
  BY <1>3, <1>4, <1>5 DEF TInv

\* The router answers: what it carries out is new to the list that the page shows.
LEMMA AnswerTInv ==
  ASSUME Typed, TInv, NEW s \in Session, NEW done \in BOOLEAN, NEW answered \in BOOLEAN,
         Answer(s, done, answered), past \subseteq past'
  PROVE  TInv'
<1>1. /\ UNCHANGED <<page, view>> /\ mode' = [mode EXCEPT ![s] = "after"] /\ mode[s] = "wait"
      /\ req' = [req EXCEPT ![s] = NoRequest]
  BY DEF Answer
<1>2. mode'[s] = "after" /\ \A t \in Session \ {s} : mode'[t] = mode[t] /\ req'[t] = req[t]
  BY <1>1 DEF Typed, ListTyped
<1>3. Addresses'
  <2>1. ASSUME page = "fixedip" PROVE rules' \in Seq(Address)
    <3>1. rules \in Seq(Address) /\ (req[s].kind # "delete" => req[s].rule \in Address)
      BY <1>1, <2>1 DEF TInv, Addresses
    <3>2. Effect(rules, req[s]) \in Seq(Address)
      BY <3>1, EffectTyped
    <3> QED
      BY <3>1, <3>2 DEF Answer
  <2> QED
    BY <1>1, <1>2, <2>1 DEF TInv, Addresses
<1>4. \A k : PostsNew(Key(k)) => PostsNew(Key(k))'
  <2>1. ASSUME NEW k, PostsNew(Key(k)), NEW t \in Session, mode'[t] = "wait"
        PROVE  IsNew(view'[t], Key(k), req'[t])
    BY <1>1, <1>2, <2>1 DEF PostsNew
  <2> QED
    BY <2>1 DEF PostsNew
<1>5. ASSUME Compares, past' \subseteq {"spelled"}
      PROVE  /\ NoneLost' /\ Current'
             /\ \A k \in Looked : Relied(k) => Distinct(rules', Key(k))
  <2>1. past \subseteq {"spelled"} /\ NoneLost /\ Current
    BY <1>5 DEF TInv
  <2>2. CASE done
    <3>1. ~Rereads
      BY <1>5 DEF Compares, Rereads
    <3>2. answered /\ "list" \notin behind[s]
      BY <1>5, <2>2, <3>1 DEF Answer
    <3>3. view[s] = rules
      BY <1>1, <2>1, <3>2 DEF Current, Keeps
    <3>4. ASSUME NEW k \in Looked, Relied(k) PROVE Distinct(rules', Key(k))
      <4>1. rules \in Seq(Rule)
        BY DEF Typed, ListTyped
      <4>2. Distinct(rules, Key(k)) /\ IsNew(rules, Key(k), req[s])
        BY <1>1, <3>3, <3>4 DEF TInv, PostsNew
      <4> QED
        BY <2>2, <4>1, <4>2, EffectDistinct DEF Answer
    <3>5. NoneLost'
      BY <2>1, <2>2, <3>2 DEF Answer, NoneLost
    <3>6. ASSUME NEW t \in Session, Keeps(t)' PROVE "list" \in behind'[t]
      <4>1. t # s
        BY <1>1, <2>2, <3>1, <3>2, <3>6 DEF Keeps, Answer, Rereads, ReadsAfterOK, Typed, ListTyped
      <4>2. mode[t] # "closed"
        BY <1>1, <3>6, <4>1 DEF Keeps, Typed, ListTyped
      <4> QED
        BY <2>2, <4>1, <4>2 DEF Answer, Others
    <3> QED
      BY <3>4, <3>5, <3>6 DEF Current
  <2>3. CASE ~done
    <3>1. UNCHANGED <<rules, behind, lost>> /\ reply' = [reply EXCEPT ![s] = FALSE]
      BY <2>3 DEF Answer, ghosts
    <3>2. \A t \in Session : Keeps(t)' => Keeps(t)
      BY <1>1, <3>1 DEF Keeps, Rereads, Typed, ListTyped
    <3> QED
      BY <1>1, <2>1, <3>1, <3>2 DEF TInv, NoneLost, Current
  <2> QED
    BY <2>2, <2>3
<1>6. (Compares' <=> Compares) /\ Looked' = Looked
  BY <1>1 DEF Compares, Looked
<1>7. ASSUME NEW k \in Looked, Relied(k)' PROVE Distinct(rules', Key(k)) /\ PostsNew(Key(k))'
  <2>1. Relied(k) /\ Compares /\ past' \subseteq {"spelled"}
    BY <1>7, PastRelied, LookedFacts DEF Relied
  <2> QED
    BY <1>4, <1>5, <2>1 DEF TInv
<1>8. (Compares /\ past \subseteq {"spelled"} => NoneLost /\ Current)'
  BY <1>5, <1>6
<1>9. (\A k \in Looked : Relied(k) => Distinct(rules, Key(k)) /\ PostsNew(Key(k)))'
  BY <1>6, <1>7 DEF Distinct
<1> QED
  BY <1>3, <1>8, <1>9 DEF TInv

\* What a page shows that has read the list.
LEMMA ReadGives ==
  ASSUME Typed, NEW s \in Session, ReadList(s)
  PROVE  /\ view'[s] \in {rules, <<>>}
         /\ past' \subseteq {"spelled"} => view'[s] = rules
<1>1. PICK ok \in BOOLEAN : ListRead(s, ok)
  BY DEF ReadList
<1>2. CASE ok
  BY <1>1, <1>2 DEF ListRead, Typed, ListTyped
<1>3. CASE ~ok
  <2>1. "blind" \in past' /\ view'[s] = <<>>
    BY <1>1, <1>3 DEF ListRead, Typed, ListTyped
  <2> QED
    BY <2>1
<1> QED
  BY <1>2, <1>3

\* A handler after which the page is idle or closed and shows what it read, or is
\* known to be outdated.
LEMMA OverTInv ==
  ASSUME Typed, TInv, NEW s \in Session, UNCHANGED <<page, rules>>, past \subseteq past',
         NEW m \in {"closed", "idle"}, mode' = [mode EXCEPT ![s] = m],
         view'[s] \in {rules, <<>>, view[s]},
         \A t \in Session \ {s} :
           /\ view'[t] = view[t] /\ req'[t] = req[t] /\ reply'[t] = reply[t]
           /\ "list" \in behind[t] => "list" \in behind'[t]
           /\ "list" \in lost'[t] => "list" \in lost[t],
         Compares /\ past' \subseteq {"spelled"} =>
           /\ "list" \notin lost'[s]
           /\ m = "closed" \/ view'[s] = rules \/ "list" \in behind'[s]
  PROVE  TInv'
<1>1. (Compares' <=> Compares) /\ Looked' = Looked
  BY DEF Compares, Looked
<1>2. mode'[s] = m /\ \A t \in Session \ {s} : mode'[t] = mode[t]
  BY DEF Typed, ListTyped
<1>3. ASSUME NEW k \in Looked, Relied(k)' PROVE Distinct(rules', Key(k)) /\ PostsNew(Key(k))'
  <2>1. Distinct(rules, Key(k)) /\ PostsNew(Key(k))
    BY <1>3, PastRelied DEF TInv
  <2> QED
    BY <1>2, <2>1 DEF PostsNew
<1>4. ASSUME Compares, past' \subseteq {"spelled"} PROVE NoneLost' /\ Current'
  <2>1. past \subseteq {"spelled"} /\ NoneLost /\ Current
    BY <1>4 DEF TInv
  <2>2. \A t \in Session \ {s} : Keeps(t)' <=> Keeps(t)
    BY <1>2 DEF Keeps, Rereads
  <2>3. Current'
    BY <1>2, <1>4, <2>1, <2>2 DEF Current, Keeps
  <2> QED
    BY <1>4, <2>1, <2>3 DEF NoneLost
<1>5. Addresses'
  <2>1. <<>> \in Seq(Address)
    BY EmptySeq
  <2> QED
    BY <1>2, <2>1 DEF TInv, Addresses
<1>6. (\A k \in Looked : Relied(k) => Distinct(rules, Key(k)) /\ PostsNew(Key(k)))'
  BY <1>1, <1>3 DEF Distinct
<1>7. (Compares /\ past \subseteq {"spelled"} => NoneLost /\ Current)'
  BY <1>1, <1>4
<1> QED
  BY <1>5, <1>6, <1>7 DEF TInv

\* Every handler keeps the third invariant.
LEMMA NextTInv == Typed /\ TInv /\ [Next]_vars => TInv'
<1> SUFFICES ASSUME Typed, TInv, [Next]_vars PROVE TInv'
  OBVIOUS
<1>1. CASE UNCHANGED vars
  BY <1>1 DEF vars, TInv, Addresses, Looked, Relied, Distinct, PostsNew, NoneLost, Current,
     Keeps, Compares, Rereads
<1>2. ASSUME NEW s \in Session, Step(s) PROVE TInv'
  <2>1. past \subseteq past'
    BY <1>2, PastGrows
  <2>2. ASSUME page' = page, ~Compares PROVE TInv'
    BY <2>2 DEF TInv, Addresses, Looked, Compares
  <2>3. ASSUME Delete(s) PROVE TInv'
    BY <2>3, PostPosts, PostTInv DEF Delete, Request, IsNew
  <2>4. CASE Load(s)
    <3>1. /\ UNCHANGED <<page, rules, req, reply>> /\ mode' = [mode EXCEPT ![s] = "idle"]
          /\ ReadList(s) /\ Seen(s, {"list", "setting"}, {})
      BY <2>4, PageIsRead DEF Load, router
    <3>2. /\ view'[s] \in {rules, <<>>}
          /\ past' \subseteq {"spelled"} => view'[s] = rules
      BY <3>1, ReadGives
    <3>3. "list" \notin lost'[s]
      BY <3>1 DEF Seen, Typed, GhostTyped
    <3>4. \A t \in Session \ {s} :
            /\ view'[t] = view[t] /\ req'[t] = req[t] /\ reply'[t] = reply[t]
            /\ "list" \in behind[t] => "list" \in behind'[t]
            /\ "list" \in lost'[t] => "list" \in lost[t]
      BY <3>1 DEF ReadList, ListRead, Seen, Typed, ListTyped, GhostTyped
    <3> QED
      BY <2>1, <3>1, <3>2, <3>3, <3>4, OverTInv
  <2>5. CASE Leave(s)
    <3>1. \A t \in Session \ {s} :
            /\ view'[t] = view[t] /\ req'[t] = req[t] /\ reply'[t] = reply[t]
            /\ behind'[t] = behind[t] /\ lost'[t] = lost[t]
      BY <2>5 DEF Leave, Typed, ListTyped, GhostTyped
    <3>2. "list" \notin lost'[s] /\ view'[s] = <<>>
      BY <2>5 DEF Leave, Typed, ListTyped, GhostTyped
    <3> QED
      BY <2>1, <2>5, <3>1, <3>2, OverTInv DEF Leave, router
  <2>6. CASE \/ DelDnFilterEntry(s) \/ DelPortMapEntry(s) \/ DelPortTriggerEntry(s)
             \/ DelIpFilterEntry(s) \/ DelSREntry(s) \/ DelStaticIpEntry(s)
    BY <2>3, <2>6 DEF DelDnFilterEntry, DelPortMapEntry, DelPortTriggerEntry,
       DelIpFilterEntry, DelSREntry, DelStaticIpEntry
  <2>7. CASE AddSREntry(s)
    <3>1. PICK a \in Content :
            Post(s, Request("add", {}, a)) /\ \A i \in DOMAIN view[s] : view[s][i] # a
      BY <2>7 DEF AddSREntry, isExixt, Typed, ListTyped
    <3>2. page = "staticroute" /\ view[s] \in Seq(Rule) /\ a \in Rule
      BY <2>7 DEF AddSREntry, Typed, ListTyped, Rule
    <3>3. \A i \in DOMAIN view[s] : Itself[view[s][i]] # Itself[a]
      BY <3>1, <3>2 DEF Itself
    <3> QED
      BY <3>1, <3>2, <3>3, PostPosts, PostTInv DEF Request, IsNew, Looked, Key
  <2>8. CASE ModifySREntry(s)
    <3>1. PICK i \in DOMAIN view[s], a \in Content :
            /\ Post(s, Request("edit", {i}, a)) /\ \A k \in DOMAIN view[s] : view[s][k] # a
      BY <2>8 DEF ModifySREntry, isExixt
    <3>2. page = "staticroute" /\ view[s] \in Seq(Rule) /\ a \in Rule
      BY <2>8 DEF ModifySREntry, Typed, ListTyped, Rule
    <3>3. \A k \in DOMAIN view[s] : Itself[view[s][k]] # Itself[a]
      BY <3>1, <3>2 DEF Itself
    <3> QED
      BY <3>1, <3>2, <3>3, PostPosts, PostTInv DEF Request, IsNew, Looked, Key
  <2>12. ASSUME page = "fixedip", NEW kind \in {"add", "edit"}, NEW rows, NEW a \in Address,
                PostAddress(s, kind, rows, a),
                \A key \in {IpOf, MacOf} : IsNew(view[s], key, Request(kind, rows, a))
         PROVE  TInv'
    <3> DEFINE posted == [ip |-> a.ip, mac |-> Lower[a.mac]]
    <3>1. posted \in Address /\ IpOf[posted] = IpOf[a]
      BY RuleTableAssumption DEF Address, IpOf
    <3>2. Posts(s, Request(kind, rows, posted)) /\ (past' = {} => posted = a)
      BY <2>12, PostPosts DEF PostAddress
    <3> HIDE DEF posted
    <3>3. IsNew(view[s], IpOf, Request(kind, rows, posted))
      BY <2>12, <3>1 DEF IsNew, Request
    <3>4. past' = {} => IsNew(view[s], MacOf, Request(kind, rows, posted))
      BY <2>12, <3>2
    <3>5. \A k \in Looked : Relied(k)' => IsNew(view[s], Key(k), Request(kind, rows, posted))
      BY <2>12, <3>3, <3>4 DEF Looked, Key, Relied
    <3> QED
      BY <3>1, <3>2, <3>5, PostTInv DEF Request
  <2>13. ASSUME page = "fixedip", NEW i \in DOMAIN view[s]
         PROVE  IpOf[view[s][i]] = view[s][i].ip /\ MacOf[view[s][i]] = view[s][i].mac
    <3>1. view[s] \in Seq(Address)
      BY <2>13 DEF TInv, Addresses
    <3>2. view[s][i] \in Address
      BY <2>13, <3>1
    <3> QED
      BY <3>2 DEF IpOf, MacOf
  <2>14. CASE AddStaticIp(s)
    <3>1. PICK a \in Address : ValidateStaticIpIsNotExist(s, a) /\ PostAddress(s, "add", {}, a)
      BY <2>14 DEF AddStaticIp
    <3>2. page = "fixedip" /\ IpOf[a] = a.ip /\ MacOf[a] = a.mac
      BY <2>14 DEF AddStaticIp, IpOf, MacOf
    <3>3. \A key \in {IpOf, MacOf} : IsNew(view[s], key, Request("add", {}, a))
      BY <2>13, <3>1, <3>2 DEF ValidateStaticIpIsNotExist, IsNew, Request
    <3> QED
      BY <2>12, <3>1, <3>2, <3>3
  <2>15. CASE ModifyStaticIpEntry(s)
    <3>1. PICK i \in DOMAIN view[s], a \in Address :
            /\ ValidateStaticIpIsNotExistExclude(s, a, view[s][i])
            /\ PostAddress(s, "edit", {i}, a)
      BY <2>15 DEF ModifyStaticIpEntry
    <3>2. page = "fixedip" /\ IpOf[a] = a.ip /\ MacOf[a] = a.mac
      BY <2>15 DEF ModifyStaticIpEntry, IpOf, MacOf
    <3> DEFINE r == Request("edit", {i}, a)
    <3>3. r.kind = "edit" /\ r.rows = {i} /\ r.rule = a
      BY DEF Request
    <3> HIDE DEF r
    <3>4. ASSUME NEW key \in {IpOf, MacOf}, NEW j \in DOMAIN view[s],
                 key[view[s][j]] = key[a]
          PROVE  key[view[s][j]] = key[view[s][i]]
      BY <2>13, <3>1, <3>2, <3>4 DEF ValidateStaticIpIsNotExistExclude
    <3>5. \A key \in {IpOf, MacOf} : IsNew(view[s], key, r)
      BY <3>3, <3>4 DEF IsNew
    <3> QED
      BY <2>12, <3>1, <3>2, <3>5 DEF r
  <2>9. CASE \E done, answered \in BOOLEAN : Answer(s, done, answered)
    BY <2>1, <2>9, AnswerTInv
  <2>10. CASE AfterOther(s) \/ GetDhcpStaticIp(s)
    <3>1. /\ UNCHANGED <<page, rules>> /\ mode' = [mode EXCEPT ![s] = "idle"]
          /\ req' = req /\ reply' = [reply EXCEPT ![s] = FALSE]
          /\ mode[s] = "after"
          /\ IF reply[s] THEN ReadList(s) /\ Seen(s, {"list"}, {}) ELSE UNCHANGED <<view, ghosts>>
      BY <2>10 DEF AfterOther, GetDhcpStaticIp, ReadAfterOK, Done
    <3>2. CASE reply[s]
      <4>1. /\ view'[s] \in {rules, <<>>}
            /\ past' \subseteq {"spelled"} => view'[s] = rules
        BY <3>1, <3>2, ReadGives
      <4>2. "list" \notin lost'[s]
        BY <3>1, <3>2 DEF Seen, Typed, GhostTyped
      <4>3. \A t \in Session \ {s} :
              /\ view'[t] = view[t] /\ req'[t] = req[t] /\ reply'[t] = reply[t]
              /\ "list" \in behind[t] => "list" \in behind'[t]
              /\ "list" \in lost'[t] => "list" \in lost[t]
        BY <3>1, <3>2 DEF ReadList, ListRead, Seen, Typed, ListTyped, GhostTyped
      <4> QED
        BY <2>1, <3>1, <4>1, <4>2, <4>3, OverTInv
    <3>3. CASE ~reply[s]
      <4>1. Compares => ~Rereads
        BY DEF Compares, Rereads
      <4>2. Compares /\ past' \subseteq {"spelled"} =>
              "list" \notin lost'[s] /\ (view'[s] = rules \/ "list" \in behind'[s])
        BY <3>1, <3>3, <4>1 DEF TInv, Current, Keeps, NoneLost, ghosts
      <4> QED
        BY <2>1, <3>1, <3>3, <4>2, OverTInv DEF ghosts, Typed, ListTyped
    <3> QED
      BY <3>2, <3>3
  <2>11. CASE \/ \E f \in Fields[page] : Select(s, f)
              \/ AddDnfilterEntry(s) \/ AddPortMapEntry(s) \/ AddPortTriggerEntry(s)
              \/ AddIpFilterEntry(s) \/ ModifyDnfilterEntry(s) \/ ModifyPortMapEntry(s)
              \/ ModifyPortTriggerEntry(s) \/ ModifyIpFilterEntry(s)
              \/ updateSaveData(s) \/ updateIpFilterStatus(s) \/ SaveDnFilter(s) \/ SaveIpFilter(s)
    <3>1. OwnFields # {} => ~Compares
      BY DEF OwnFields, Compares
    <3>2. CASE \E f \in Fields[page] : Select(s, f)
      BY <2>2, <3>1, <3>2 DEF Select, router
    <3>3. CASE \/ AddDnfilterEntry(s) \/ AddPortMapEntry(s) \/ AddPortTriggerEntry(s)
               \/ AddIpFilterEntry(s) \/ ModifyDnfilterEntry(s) \/ ModifyPortMapEntry(s)
               \/ ModifyPortTriggerEntry(s) \/ ModifyIpFilterEntry(s)
      BY <2>2, <3>3 DEF AddDnfilterEntry, AddPortMapEntry, AddPortTriggerEntry,
         AddIpFilterEntry, ModifyDnfilterEntry, ModifyPortMapEntry, ModifyPortTriggerEntry,
         ModifyIpFilterEntry, Add, Modify, Post, Send, Compares, router
    <3>4. CASE updateSaveData(s) \/ updateIpFilterStatus(s) \/ SaveDnFilter(s) \/ SaveIpFilter(s)
      BY <2>2, <3>4 DEF updateSaveData, updateIpFilterStatus, Done, SaveDnFilter,
         SaveIpFilter, Compares
    <3> QED
      BY <2>11, <3>2, <3>3, <3>4
  <2> QED
    BY <1>2, <2>4, <2>5, <2>6, <2>7, <2>8, <2>9, <2>10, <2>11, <2>14, <2>15 DEF Step
<1> QED BY <1>1, <1>2 DEF Next

LEMMA InitTInv == Init => TInv
<1> SUFFICES ASSUME Init PROVE TInv
  OBVIOUS
<1>1. rules = <<>> /\ DOMAIN rules = {} /\ <<>> \in Seq(Address)
  BY EmptySeq DEF Init
<1>2. /\ mode = [s \in Session |-> "closed"] /\ lost = [s \in Session |-> {}]
      /\ view = [s \in Session |-> <<>>]
  BY DEF Init
<1> QED
  BY <1>1, <1>2 DEF TInv, Addresses, PostsNew, Distinct, NoneLost, Current, Keeps

\* The router takes equal routes; however many browsers edit at the same time, the look
\* of each page into its own snapshot keeps them out, as long as every page was read,
\* got its answers, and did not change a list it was behind of.
THEOREM TwinsStayOut == Spec => []NoTwinRoutes
<1>1. TInv => NoTwinRoutes
  BY DEF TInv, Looked, Relied, Key, NoTwinRoutes
<1> QED BY <1>1, InitTInv, InitTyped, NextTyped, NextTInv, PTL DEF Spec

\* Under the same conditions no IP address is given to two clients, even though a page
\* lets a rule keep an address on whatever row it is found; and no MAC address has two
\* rules, provided that no request has written one in another spelling than the page had
\* looked for: the router has it in lower case, the page compares it as it was typed.
THEOREM AddressesStayUnique == Spec => []NoTwinAddresses
<1>1. TInv => NoTwinAddresses
  BY DEF TInv, Looked, Relied, Key, NoTwinAddresses
<1> QED BY <1>1, InitTInv, InitTyped, NextTyped, NextTInv, PTL DEF Spec

-----------------------------------------------------------------------------
(* Places in sets of numbers.                                                *)

\* A map that keeps the order keeps the places.
LEMMA NthImage ==
  ASSUME NEW S \in SUBSET Nat, IsFiniteSet(S), NEW T \in SUBSET Nat,
         NEW h \in Surjection(S, T),
         \A m, n \in S : m < n => h[m] < h[n]
  PROVE  /\ IsFiniteSet(T) /\ Cardinality(T) = Cardinality(S)
         /\ \A i \in 1..Cardinality(S) : Nth(T, i) = h[Nth(S, i)]
<1>1. h \in [S -> T] /\ \A t \in T : \E n \in S : h[n] = t
  BY DEF Surjection
<1>0. \A m, n \in S : /\ m \in Nat /\ n \in Nat /\ h[m] \in Nat /\ h[n] \in Nat
                      /\ h[m] = h[n] => m = n
                      /\ m <= n <=> h[m] <= h[n]
  <2> TAKE m, n \in S
  <2>1. m \in Nat /\ n \in Nat /\ h[m] \in Nat /\ h[n] \in Nat
    BY <1>1
  <2>2. (m < n => h[m] < h[n]) /\ (n < m => h[n] < h[m])
    OBVIOUS
  <2> QED
    BY <2>1, <2>2
<1>2. h \in Bijection(S, T)
  <2>1. \A m, n \in S : h[m] = h[n] => m = n
    BY <1>0
  <2> QED
    BY <1>1, <2>1 DEF Bijection, Injection, IsInjective
<1>3. IsFiniteSet(T) /\ Cardinality(T) = Cardinality(S)
  BY <1>2, FS_Bijection DEF ExistsBijection
<1>4. ASSUME NEW n \in S PROVE Rank(T, h[n]) = Rank(S, n)
  <2> DEFINE A == {k \in S : k <= n}
             B == {k \in T : k <= h[n]}
             g == [k \in A |-> h[k]]
  <2>1. \A k \in S : k <= n <=> h[k] <= h[n]
    BY <1>0
  <2>2. g \in Bijection(A, B)
    <3>1. \A k \in A : h[k] \in B
      BY <1>1, <2>1
    <3>2. \A b \in B : \E k \in A : h[k] = b
      BY <1>1, <2>1
    <3>3. \A k, m \in A : h[k] = h[m] => k = m
      BY <1>2 DEF Bijection, Injection, IsInjective
    <3> QED
      BY <3>1, <3>2, <3>3 DEF Bijection, Injection, IsInjective, Surjection
  <2>3. IsFiniteSet(A)
    BY FS_Subset
  <2>4. Cardinality(B) = Cardinality(A)
    BY <2>2, <2>3, FS_Bijection DEF ExistsBijection
  <2> QED
    BY <2>4 DEF Rank
<1>5. ASSUME NEW i \in 1..Cardinality(S) PROVE Nth(T, i) = h[Nth(S, i)]
  <2>1. Nth(S, i) \in S /\ Rank(S, Nth(S, i)) = i
    BY NthRank
  <2>2. Nth(T, i) \in T /\ Rank(T, Nth(T, i)) = i
    BY <1>3, NthRank
  <2>3. h[Nth(S, i)] \in T /\ Rank(T, h[Nth(S, i)]) = i
    BY <1>1, <1>4, <2>1
  <2> QED
    <3> DEFINE a == Nth(T, i)
               b == h[Nth(S, i)]
    <3>1. a \in T /\ b \in T /\ Rank(T, a) = i /\ Rank(T, b) = i /\ a \in Nat /\ b \in Nat
      BY <2>2, <2>3
    <3> HIDE DEF a, b
    <3>2. i \in Nat /\ ~(i < i)
      BY <1>3, FS_CardinalityType
    <3>3. a = b \/ a < b \/ b < a
      BY <3>1
    <3> QED
      BY <1>3, <3>1, <3>2, <3>3, RankApart DEF a, b
<1> QED
  BY <1>3, <1>5

-----------------------------------------------------------------------------
(* Chains that are edited by line number: module ForwardChain.               *)

LEMMA HighestLowest ==
  ASSUME NEW S \in SUBSET Nat, IsFiniteSet(S), S # {}
  PROVE  /\ Highest(S) \in S /\ \A k \in S : k <= Highest(S)
         /\ Lowest(S) \in S /\ \A k \in S : Lowest(S) <= k
<1> DEFINE c == Cardinality(S)
<1>1. c \in Nat \ {0}
  BY FS_CardinalityType, FS_EmptySet
<1>2. \E m \in S : \A k \in S : k <= m
  <2> DEFINE m == Nth(S, c)
  <2>1. m \in S /\ Rank(S, m) = c
    BY <1>1, NthRank
  <2>2. {k \in S : k <= m} = S
    BY <2>1, FS_Subset DEF Rank
  <2> HIDE DEF m
  <2> QED
    BY <2>1, <2>2
<1>3. \E m \in S : \A k \in S : m <= k
  <2> DEFINE m == Nth(S, 1)
  <2>1. m \in S /\ Rank(S, m) = 1
    BY <1>1, NthRank
  <2> HIDE DEF m
  <2>2. ASSUME NEW k \in S, k < m PROVE FALSE
    <3>1. Rank(S, k) < 1
      BY <2>1, <2>2, RankApart
    <3> DEFINE T == {j \in S : j <= k}
    <3>2. IsFiniteSet(T) /\ k \in T
      BY FS_Subset
    <3>3. Cardinality(T) \in Nat /\ Cardinality(T) # 0
      BY <3>2, FS_CardinalityType, FS_EmptySet
    <3> QED
      BY <3>1, <3>3 DEF Rank
  <2> QED
    BY <2>1, <2>2
<1> QED
  BY <1>2, <1>3 DEF Highest, Lowest

Kept(chain, kinds) == DOMAIN chain \ Lines(chain, kinds)

LEMMA ChainFacts ==
  ASSUME NEW R, NEW chain \in Seq(R), NEW kinds
  PROVE  /\ Len(chain) \in Nat /\ DOMAIN chain = 1..Len(chain)
         /\ \A i \in 1..Len(chain) : i \in Nat /\ chain[i] \in R
         /\ Lines(chain, kinds) \in SUBSET (1..Len(chain)) /\ IsFiniteSet(Lines(chain, kinds))
         /\ Kept(chain, kinds) = {i \in 1..Len(chain) : chain[i] \notin kinds}
         /\ Kept(chain, kinds) \in SUBSET Nat /\ IsFiniteSet(Kept(chain, kinds))
         /\ Cardinality(Kept(chain, kinds)) \in Nat
<1> DEFINE n == Len(chain)
<1>1. n \in Nat /\ DOMAIN chain = 1..n /\ \A i \in 1..n : i \in Nat /\ chain[i] \in R
  BY LenProperties
<1> HIDE DEF n
<1>2. IsFiniteSet(1..n)
  BY <1>1, FS_Interval
<1>3. Lines(chain, kinds) \in SUBSET (1..n)
  BY <1>1 DEF Lines
<1>4. Kept(chain, kinds) = {i \in 1..n : chain[i] \notin kinds}
  BY <1>1 DEF Lines, Kept
<1>5. Kept(chain, kinds) \in SUBSET (1..n) /\ 1..n \subseteq Nat
  BY <1>1, <1>4
<1>6. IsFiniteSet(Lines(chain, kinds)) /\ IsFiniteSet(Kept(chain, kinds))
  BY <1>2, <1>3, <1>5, FS_Subset
<1> QED
  BY <1>1, <1>3, <1>4, <1>5, <1>6, FS_CardinalityType DEF n

LEMMA DeletedFacts ==
  ASSUME NEW R, NEW chain \in Seq(R), NEW i \in DOMAIN chain
  PROVE  /\ Deleted(chain, i) \in Seq(R) /\ Len(Deleted(chain, i)) = Len(chain) - 1
         /\ \A k \in 1..(Len(chain) - 1) :
              Deleted(chain, i)[k] = chain[IF k < i THEN k ELSE k + 1]
<1> DEFINE n == Len(chain)
           d == Deleted(chain, i)
<1>1. n \in Nat /\ i \in 1..n /\ \A k \in 1..n : chain[k] \in R
  BY ChainFacts
<1>2. d = [k \in 1..(n - 1) |-> chain[IF k < i THEN k ELSE k + 1]]
  BY DEF Deleted
<1> HIDE DEF d, n
<1>3. n - 1 \in Nat
  BY <1>1
<1>4. d \in [1..(n - 1) -> R]
  <2>1. \A k \in 1..(n - 1) : chain[IF k < i THEN k ELSE k + 1] \in R
    BY <1>1
  <2> QED
    BY <1>2, <2>1
<1>5. d \in Seq(R) /\ Len(d) = n - 1
  BY <1>3, <1>4
<1> QED
  BY <1>2, <1>5 DEF d, n

\* The rules of other kinds stay, in order, when one of these is deleted.
LEMMA WithoutDeleted ==
  ASSUME NEW R, NEW chain \in Seq(R), NEW kinds, NEW i \in Lines(chain, kinds)
  PROVE  Without(Deleted(chain, i), kinds) = Without(chain, kinds)
<1> DEFINE d == Deleted(chain, i)
           n == Len(chain)
           S == Kept(d, kinds)
           T == Kept(chain, kinds)
           h == [k \in S |-> IF k < i THEN k ELSE k + 1]
<1>1. n \in Nat /\ i \in 1..n /\ i \in DOMAIN chain /\ chain[i] \in kinds
  BY ChainFacts DEF Lines
<1>2. /\ d \in Seq(R) /\ Len(d) = n - 1
      /\ \A k \in 1..(n - 1) : d[k] = chain[IF k < i THEN k ELSE k + 1]
  BY <1>1, DeletedFacts
<1>3. /\ S = {k \in 1..(n - 1) : d[k] \notin kinds}
      /\ S \in SUBSET Nat /\ IsFiniteSet(S) /\ Cardinality(S) \in Nat
  <2> HIDE DEF d
  <2> QED
    BY <1>2, ChainFacts
<1>4. T = {k \in 1..n : chain[k] \notin kinds} /\ T \in SUBSET Nat
  BY ChainFacts
<1> HIDE DEF d, n, S, T
<1>5. h \in Surjection(S, T)
  <2>1. \A k \in S : h[k] \in T
    BY <1>1, <1>2, <1>3, <1>4
  <2>2. ASSUME NEW t \in T PROVE \E k \in S : h[k] = t
    <3>1. t \in 1..n /\ t # i /\ chain[t] \notin kinds
      BY <1>1, <1>4
    <3>2. CASE t < i
      <4>1. t \in 1..(n - 1) /\ d[t] = chain[t]
        BY <1>1, <1>2, <3>1, <3>2
      <4> QED
        BY <1>3, <3>1, <3>2, <4>1
    <3>3. CASE i < t
      <4>1. t - 1 \in 1..(n - 1) /\ ~(t - 1 < i) /\ (t - 1) + 1 = t
        BY <1>1, <3>1, <3>3
      <4>2. d[t - 1] = chain[t]
        BY <1>2, <4>1
      <4>3. t - 1 \in S
        BY <1>3, <3>1, <4>1, <4>2
      <4> QED
        BY <4>1, <4>3
    <3> QED
      BY <1>1, <3>1, <3>2, <3>3
  <2> QED
    BY <2>1, <2>2 DEF Surjection
<1>6. \A k, m \in S : k < m => h[k] < h[m]
  BY <1>1, <1>3
<1>7. /\ Cardinality(T) = Cardinality(S)
      /\ \A k \in 1..Cardinality(S) : Nth(T, k) = h[Nth(S, k)]
  <2>1. S \in SUBSET Nat /\ IsFiniteSet(S) /\ T \in SUBSET Nat
    BY <1>3, <1>4
  <2> HIDE DEF h
  <2> QED
    BY <1>5, <1>6, <2>1, NthImage
<1>8. \A k \in 1..Cardinality(S) : d[Nth(S, k)] = chain[Nth(T, k)]
  <2> TAKE k \in 1..Cardinality(S)
  <2>1. Nth(S, k) \in S
    BY <1>3, NthRank
  <2> QED
    BY <1>2, <1>3, <1>7, <2>1
<1>9. /\ Without(d, kinds) = [k \in 1..Cardinality(S) |-> d[Nth(S, k)]]
      /\ Without(chain, kinds) = [k \in 1..Cardinality(T) |-> chain[Nth(T, k)]]
  BY DEF Without, DropRows, Kept, S, T
<1> QED
  BY <1>7, <1>8, <1>9 DEF d

\* A chain without these rules is what is left of it.
LEMMA WithoutNone ==
  ASSUME NEW R, NEW chain \in Seq(R), NEW kinds, Lines(chain, kinds) = {}
  PROVE  Without(chain, kinds) = chain
<1> DEFINE n == Len(chain)
           S == 1..n
<1>1. n \in Nat /\ S \in SUBSET Nat /\ Kept(chain, kinds) = S /\ IsFiniteSet(S)
  BY ChainFacts DEF Kept
<1>2. chain = [i \in 1..n |-> chain[i]]
  BY LenProperties
<1>3. Without(chain, kinds) = [i \in 1..Cardinality(S) |-> chain[Nth(S, i)]]
  BY <1>1 DEF Without, DropRows, Kept
<1> HIDE DEF n
<1>4. Cardinality(S) = n
  BY <1>1, FS_Interval
<1>5. ASSUME NEW i \in S PROVE Rank(S, i) = i
  <2>1. {k \in S : k <= i} = 1..i
    BY <1>1
  <2>2. i \in Nat /\ i # 0
    BY <1>1
  <2>3. Cardinality(1..i) = i
    BY <2>2, FS_Interval
  <2> QED
    BY <2>1, <2>3 DEF Rank
<1>6. ASSUME NEW i \in S PROVE Nth(S, i) = i
  <2>1. Nth(S, i) \in S /\ Rank(S, Nth(S, i)) = i
    BY <1>1, <1>4, NthRank
  <2> QED
    BY <1>5, <2>1
<1> QED
  BY <1>2, <1>3, <1>4, <1>6

LEMMA WithoutTyped ==
  ASSUME NEW R, NEW chain \in Seq(R), NEW kinds
  PROVE  Without(chain, kinds) \in Seq(R)
<1> DEFINE S == Kept(chain, kinds)
           w == Without(chain, kinds)
           c == Cardinality(S)
<1>1. S \in SUBSET Nat /\ IsFiniteSet(S) /\ c \in Nat /\ \A i \in S : chain[i] \in R
  BY ChainFacts
<1>2. w = [i \in 1..c |-> chain[Nth(S, i)]]
  BY DEF Without, DropRows, Kept
<1> HIDE DEF S, w
<1>3. \A i \in 1..c : chain[Nth(S, i)] \in R
  BY <1>1, NthRank
<1> HIDE DEF c
<1>4. w \in [1..c -> R]
  BY <1>2, <1>3
<1> QED
  BY <1>1, <1>4 DEF w

\* When the highest one is deleted, the numbers of the others stay right.
LEMMA LinesDeleted ==
  ASSUME NEW R, NEW chain \in Seq(R), NEW kinds, NEW i \in Lines(chain, kinds),
         \A k \in Lines(chain, kinds) : k <= i
  PROVE  Lines(Deleted(chain, i), kinds) = Lines(chain, kinds) \ {i}
<1> DEFINE d == Deleted(chain, i)
           n == Len(chain)
<1>1. n \in Nat /\ i \in 1..n /\ DOMAIN chain = 1..n
  BY ChainFacts DEF Lines
<1>2. /\ d \in Seq(R) /\ Len(d) = n - 1
      /\ \A k \in 1..(n - 1) : d[k] = chain[IF k < i THEN k ELSE k + 1]
  BY <1>1, DeletedFacts
<1> HIDE DEF d, n
<1>3. DOMAIN d = 1..(n - 1)
  BY <1>2
<1>4. ASSUME NEW k \in Lines(d, kinds) PROVE k \in Lines(chain, kinds) \ {i}
  <2>1. k \in 1..(n - 1) /\ d[k] \in kinds
    BY <1>3, <1>4 DEF Lines
  <2>2. CASE k < i
    BY <1>1, <1>2, <2>1, <2>2 DEF Lines
  <2>3. CASE ~(k < i)
    <3>1. k + 1 \in 1..n /\ chain[k + 1] \in kinds /\ ~(k + 1 <= i)
      BY <1>1, <1>2, <2>1, <2>3
    <3> QED
      BY <1>1, <3>1 DEF Lines
  <2> QED
    BY <2>2, <2>3
<1>5. ASSUME NEW k \in Lines(chain, kinds) \ {i} PROVE k \in Lines(d, kinds)
  <2>1. k \in 1..n /\ chain[k] \in kinds /\ k <= i /\ k # i
    BY <1>1 DEF Lines
  <2>2. k \in 1..(n - 1) /\ k < i
    BY <1>1, <2>1
  <2> QED
    BY <1>2, <1>3, <2>1, <2>2 DEF Lines
<1> QED
  BY <1>4, <1>5 DEF d

\* Rules at the head.
LEMMA InsertedFacts ==
  ASSUME NEW R, NEW chain \in Seq(R), NEW r \in R, NEW kinds
  PROVE  /\ Inserted(r, chain) \in Seq(R)
         /\ r \notin kinds /\ Lines(Inserted(r, chain), kinds) # {} => Lines(chain, kinds) # {}
<1> DEFINE n == Len(chain)
           c == <<r>> \o chain
<1>1. n \in Nat /\ DOMAIN chain = 1..n
  BY ChainFacts
<1>2. c \in Seq(R) /\ Len(c) = n + 1 /\ \A k \in 1..(n + 1) : c[k] = IF k = 1 THEN r ELSE chain[k - 1]
  <2>1. <<r>> \in Seq(R) /\ Len(<<r>>) = 1
    OBVIOUS
  <2> QED
    BY <2>1, ConcatProperties
<1> HIDE DEF c, n
<1>3. DOMAIN c = 1..(n + 1)
  BY <1>2
<1>4. ASSUME r \notin kinds, NEW k \in Lines(c, kinds) PROVE Lines(chain, kinds) # {}
  <2>1. k \in 1..(n + 1) /\ k # 1 /\ chain[k - 1] \in kinds
    BY <1>2, <1>3, <1>4 DEF Lines
  <2>2. k - 1 \in 1..n
    BY <1>1, <2>1
  <2> QED
    BY <1>1, <2>1, <2>2 DEF Lines
<1> QED
  BY <1>2, <1>4 DEF Inserted, c

LEMMA JumpsLeft ==
  ASSUME NEW R, NEW chain \in Seq(R), NEW kinds, NEW i \in DOMAIN chain,
         Lines(Deleted(chain, i), kinds) # {}
  PROVE  Lines(chain, kinds) # {}
<1> DEFINE d == Deleted(chain, i)
           n == Len(chain)
<1>1. n \in Nat /\ DOMAIN chain = 1..n /\ i \in 1..n
  BY ChainFacts
<1>2. /\ d \in Seq(R) /\ Len(d) = n - 1
      /\ \A k \in 1..(n - 1) : d[k] = chain[IF k < i THEN k ELSE k + 1]
  BY DeletedFacts
<1>3. PICK k \in Lines(d, kinds) : TRUE
  OBVIOUS
<1> HIDE DEF d, n
<1>4. k \in 1..(n - 1) /\ chain[IF k < i THEN k ELSE k + 1] \in kinds
  BY <1>2, <1>3 DEF Lines
<1> QED
  BY <1>1, <1>4 DEF Lines

\* The jumps of a setup, and one more trigger rule.
LEMMA HeadFacts ==
  ASSUME NEW R, NEW w \in Seq(R)
  PROVE  /\ Inserted("out", Inserted("in", w)) = <<"out", "in">> \o w
         /\ \A n \in Nat : Inserted("trigger", [i \in 1..n |-> "trigger"] \o w)
                             = [i \in 1..(n + 1) |-> "trigger"] \o w
         /\ [i \in 1..0 |-> "trigger"] \o w = w
<1>1. Inserted("out", Inserted("in", w)) = <<"out", "in">> \o w
  BY DEF Inserted
<1>2. ASSUME NEW n \in Nat
      PROVE  Inserted("trigger", [i \in 1..n |-> "trigger"] \o w)
               = [i \in 1..(n + 1) |-> "trigger"] \o w
  BY DEF Inserted
<1>3. [i \in 1..0 |-> "trigger"] \o w = w
  OBVIOUS
<1> QED
  BY <1>1, <1>2, <1>3

-----------------------------------------------------------------------------
(* Types                                                                     *)

NatRule == {"firewall", "trigger"}

\* The accounting chains that a rule of FORWARD jumps to.
Referred == {c \in Jump : Lines(forward, {c}) # {}}

\* What the scripts work on.
ChainsTyped ==
  /\ forward \in Seq(Kind) /\ prerouting \in Seq(NatRule)
  /\ chains \in SUBSET Jump /\ hosts \in SUBSET chains /\ Referred \in SUBSET chains

\* Which command can be where, and what it still has to handle there.
OpFits(p) ==
  /\ pc[p] \in {"list", "delete", "nat"} => op[p] = "PORT_TRIGGER_RESET"
  /\ pc[p] \in {"new_in", "new_out", "head"} => op[p] = "setup"
  /\ pc[p] \in {"find", "unjump"} => op[p] \in {"setup", "remove"}
  /\ pc[p] \in {"flush_in", "flush_out", "drop_in", "drop_out"} => op[p] = "remove"
  /\ pc[p] \in {"jump_in", "jump_out"} =>
       op[p] = "setup" \/ (op[p] = "update_wan" /\ left[p] > 0)
  /\ pc[p] \in {"fill_in", "fill_out"} => op[p] \in {"setup", "update_ip"}
  /\ pc[p] = "fill_out" => left[p] > 0

\* The variables of one script.
LocalsTyped(p) ==
  /\ pc[p] \in Point /\ op[p] \in Command \cup {"none"}
  /\ numbers[p] \in SUBSET Nat /\ left[p] \in Nat
  /\ pc[p] = "unjump" => Cardinality(numbers[p]) = 1
  /\ OpFits(p)

RememberedTyped ==
  /\ old \in [Proc -> Seq(Kind) \X Seq(NatRule) \X SUBSET Jump]
  /\ want \in [Proc -> Nat] /\ alone \in [Proc -> BOOLEAN]

ScriptTyped ==
  /\ ChainsTyped /\ RememberedTyped
  /\ pc \in [Proc -> Point] /\ op \in [Proc -> Command \cup {"none"}]
  /\ numbers \in [Proc -> SUBSET Nat] /\ left \in [Proc -> Nat]
  /\ \A p \in Proc : LocalsTyped(p)

LEMMA ScriptTypedOK == ScriptTyped => ChainTypeOK
BY DEF ScriptTyped, ChainsTyped, RememberedTyped, LocalsTyped, ChainTypeOK, NatRule, Referred

\* Deleting and inserting keep the types, and jumps only come with their chains.
LEMMA DeleteTyped ==
  ASSUME forward \in Seq(Kind), NEW i,
         forward' = IF i \in DOMAIN forward THEN Deleted(forward, i) ELSE forward
  PROVE  forward' \in Seq(Kind) /\ Referred' \subseteq Referred
<1>1. CASE i \in DOMAIN forward
  <2>1. forward' = Deleted(forward, i)
    BY <1>1
  <2>2. Deleted(forward, i) \in Seq(Kind)
    BY <1>1, DeletedFacts
  <2>3. \A c : Lines(Deleted(forward, i), {c}) # {} => Lines(forward, {c}) # {}
    BY <1>1, JumpsLeft
  <2> QED
    BY <2>1, <2>2, <2>3 DEF Referred
<1>2. CASE i \notin DOMAIN forward
  BY <1>2 DEF Referred
<1> QED
  BY <1>1, <1>2

LEMMA InsertTyped ==
  ASSUME forward \in Seq(Kind), NEW r \in Kind, forward' = Inserted(r, forward)
  PROVE  forward' \in Seq(Kind) /\ Referred' \subseteq Referred \cup {r}
<1>1. /\ Inserted(r, forward) \in Seq(Kind)
      /\ \A c : r # c /\ Lines(Inserted(r, forward), {c}) # {} => Lines(forward, {c}) # {}
  BY InsertedFacts
<1> QED
  BY <1>1 DEF Referred

LEMMA ListedTyped ==
  ASSUME NEW R, NEW chain \in Seq(R), NEW kinds
  PROVE  /\ Lines(chain, kinds) \in SUBSET Nat
         /\ Lines(chain, kinds) # {} =>
              /\ Lowest(Lines(chain, kinds)) \in Lines(chain, kinds)
              /\ Highest(Lines(chain, kinds)) \in Lines(chain, kinds)
              /\ \A k \in Lines(chain, kinds) : k <= Highest(Lines(chain, kinds))
<1>1. Lines(chain, kinds) \in SUBSET (1..Len(chain)) /\ IsFiniteSet(Lines(chain, kinds))
  BY ChainFacts
<1>2. Lines(chain, kinds) \in SUBSET Nat
  BY <1>1
<1> QED
  BY <1>1, <1>2, HighestLowest

\* A script's own step: nobody else's variables change, and only at its end the
\* command and what was remembered.
LEMMA WorkFrame ==
  ASSUME ScriptTyped, NEW p \in Proc, Work(p)
  PROVE  /\ \E to : pc' = [pc EXCEPT ![p] = to]
         /\ \E s : numbers' = [numbers EXCEPT ![p] = s]
         /\ \E n : left' = [left EXCEPT ![p] = n]
         /\ \/ op' = op /\ UNCHANGED remembered /\ ~Finish(p)
            \/ Finish(p)
<1>1. /\ pc = [q \in Proc |-> pc[q]] /\ numbers = [q \in Proc |-> numbers[q]]
      /\ left = [q \in Proc |-> left[q]]
  BY DEF ScriptTyped
<1>2. /\ numbers = [numbers EXCEPT ![p] = numbers[p]] /\ left = [left EXCEPT ![p] = left[p]]
  BY <1>1
<1>3. ~Finish(p) => op' = op /\ UNCHANGED remembered
  BY DEF Work, ListTriggers, DeleteTrigger, ListNatTriggers, DeleteNatTrigger, InsertTrigger,
       AppendNatTrigger, New, NewIn, NewOut, CheckHead, FindJump, DeleteJump, Flush, FlushIn,
       FlushOut, Drop, DropIn, DropOut, InsertIn, InsertOut, FillIn, FillOut, SkipHost,
       LastHost, locals
<1>4. \E to : pc' = [pc EXCEPT ![p] = to]
  BY DEF Work, ListTriggers, DeleteTrigger, ListNatTriggers, DeleteNatTrigger, InsertTrigger,
       AppendNatTrigger, New, NewIn, NewOut, CheckHead, FindJump, DeleteJump, Flush, FlushIn,
       FlushOut, Drop, DropIn, DropOut, InsertIn, InsertOut, FillIn, FillOut, SkipHost,
       LastHost, Finish, Goto
<1>5. \E s : numbers' = [numbers EXCEPT ![p] = s]
  BY <1>2 DEF Work, ListTriggers, DeleteTrigger, ListNatTriggers, DeleteNatTrigger,
       InsertTrigger, AppendNatTrigger, New, NewIn, NewOut, CheckHead, FindJump, DeleteJump,
       Flush, FlushIn, FlushOut, Drop, DropIn, DropOut, InsertIn, InsertOut, FillIn, FillOut,
       SkipHost, LastHost, Finish, locals
<1>6. \E n : left' = [left EXCEPT ![p] = n]
  BY <1>2 DEF Work, ListTriggers, DeleteTrigger, ListNatTriggers, DeleteNatTrigger,
       InsertTrigger, AppendNatTrigger, New, NewIn, NewOut, CheckHead, FindJump, DeleteJump,
       Flush, FlushIn, FlushOut, Drop, DropIn, DropOut, InsertIn, InsertOut, FillIn, FillOut,
       SkipHost, LastHost, Finish, locals
<1> QED
  BY <1>3, <1>4, <1>5, <1>6

\* The scripts' steps on port triggers.
Triggers(p) ==
  \/ ListTriggers(p) \/ DeleteTrigger(p) \/ ListNatTriggers(p)
  \/ DeleteNatTrigger(p) \/ InsertTrigger(p) \/ AppendNatTrigger(p)

\* A step keeps the types of the chains ...
LEMMA WorkChains ==
  ASSUME ScriptTyped, NEW p \in Proc, Work(p)
  PROVE  ChainsTyped'
<1>1. /\ ChainsTyped /\ forward \in Seq(Kind) /\ prerouting \in Seq(NatRule)
  BY DEF ScriptTyped, ChainsTyped
<1>2. ASSUME UNCHANGED <<forward, chains, hosts>>, prerouting' \in Seq(NatRule)
      PROVE  ChainsTyped'
  BY <1>1, <1>2 DEF ChainsTyped, Referred
<1>3. ASSUME UNCHANGED <<prerouting, chains, hosts>>, forward' \in Seq(Kind),
             Referred' \subseteq chains
      PROVE  ChainsTyped'
  BY <1>1, <1>3 DEF ChainsTyped
<1>4. CASE DeleteTrigger(p) \/ DeleteJump(p)
  <2>1. PICK i : /\ forward' = IF i \in DOMAIN forward THEN Deleted(forward, i) ELSE forward
                 /\ UNCHANGED <<prerouting, chains, hosts>>
    BY <1>4 DEF DeleteTrigger, DeleteJump
  <2>2. forward' \in Seq(Kind) /\ Referred' \subseteq Referred
    BY <1>1, <2>1, DeleteTyped
  <2> QED
    BY <1>1, <1>3, <2>1, <2>2 DEF ChainsTyped
<1>5. CASE InsertTrigger(p)
  <2>1. forward' = Inserted("trigger", forward) /\ UNCHANGED <<prerouting, chains, hosts>>
    BY <1>5 DEF InsertTrigger
  <2>2. forward' \in Seq(Kind) /\ Referred' \subseteq Referred \cup {"trigger"}
    BY <1>1, <2>1, InsertTyped DEF Kind
  <2>3. "trigger" \notin Referred'
    BY DEF Referred, Jump
  <2> QED
    BY <1>1, <1>3, <2>1, <2>2, <2>3 DEF ChainsTyped
<1>6. CASE InsertIn(p) \/ InsertOut(p)
  <2>1. PICK c \in Jump : forward' = WithJump(c) /\ UNCHANGED <<prerouting, chains, hosts>>
    BY <1>6 DEF InsertIn, InsertOut, Jump
  <2>2. CASE c \in chains
    <3>1. forward' = Inserted(c, forward)
      BY <2>1, <2>2 DEF WithJump
    <3>2. forward' \in Seq(Kind) /\ Referred' \subseteq Referred \cup {c}
      BY <1>1, <3>1, InsertTyped DEF Kind, Jump
    <3> QED
      BY <1>1, <1>3, <2>1, <2>2, <3>2 DEF ChainsTyped
  <2>3. CASE c \notin chains
    BY <1>1, <1>2, <2>1, <2>3 DEF WithJump
  <2> QED
    BY <2>2, <2>3
<1>7. CASE DeleteNatTrigger(p)
  <2>1. PICK i : /\ prerouting' = IF i \in DOMAIN prerouting THEN Deleted(prerouting, i)
                                  ELSE prerouting
                 /\ UNCHANGED <<forward, chains, hosts>>
    BY <1>7 DEF DeleteNatTrigger
  <2>2. prerouting' \in Seq(NatRule)
    BY <1>1, <2>1, DeletedFacts
  <2> QED
    BY <1>2, <2>1, <2>2
<1>8. CASE AppendNatTrigger(p)
  <2>1. Append(prerouting, "trigger") \in Seq(NatRule)
    BY <1>1, AppendProperties DEF NatRule
  <2> QED
    BY <1>2, <1>8, <2>1 DEF AppendNatTrigger
<1>9. CASE NewIn(p) \/ NewOut(p)
  BY <1>1, <1>9 DEF NewIn, NewOut, New, ChainsTyped, Referred, Jump
<1>10. CASE FlushIn(p) \/ FlushOut(p)
  BY <1>1, <1>10 DEF FlushIn, FlushOut, Flush, ChainsTyped, Referred
<1>11. CASE DropIn(p) \/ DropOut(p)
  <2>1. PICK c \in Jump : /\ chains' = IF c \in hosts \/ Lines(forward, {c}) # {} THEN chains
                                       ELSE chains \ {c}
                          /\ UNCHANGED <<forward, prerouting, hosts>>
    BY <1>11 DEF DropIn, DropOut, Drop, Jump
  <2>2. CASE c \in hosts \/ Lines(forward, {c}) # {}
    BY <1>1, <1>2, <2>1, <2>2
  <2>3. CASE ~(c \in hosts \/ Lines(forward, {c}) # {})
    <3>1. c \notin hosts /\ c \notin Referred /\ chains' = chains \ {c}
      BY <2>1, <2>3 DEF Referred
    <3> QED
      BY <1>1, <2>1, <3>1 DEF ChainsTyped, Referred
  <2> QED
    BY <2>2, <2>3
<1>12. CASE FillIn(p) \/ FillOut(p)
  BY <1>1, <1>12 DEF FillIn, FillOut, ChainsTyped, Referred
<1>13. CASE \/ ListTriggers(p) \/ ListNatTriggers(p) \/ CheckHead(p) \/ FindJump(p)
            \/ SkipHost(p) \/ LastHost(p) \/ Finish(p)
  BY <1>1, <1>2, <1>13 DEF ListTriggers, ListNatTriggers, CheckHead, FindJump, SkipHost,
     LastHost, Finish
<1> QED
  BY <1>4, <1>5, <1>6, <1>7, <1>8, <1>9, <1>10, <1>11, <1>12, <1>13 DEF Work

\* ... and of the script's own variables.
LEMMA WorkLocals ==
  ASSUME ScriptTyped, NEW p \in Proc, Work(p)
  PROVE  LocalsTyped(p)'
<1>1. /\ forward \in Seq(Kind) /\ prerouting \in Seq(NatRule) /\ LocalsTyped(p)
      /\ pc \in [Proc -> Point] /\ op \in [Proc -> Command \cup {"none"}]
      /\ numbers \in [Proc -> SUBSET Nat] /\ left \in [Proc -> Nat]
  BY DEF ScriptTyped, ChainsTyped
<1>2. CASE Triggers(p)
  <2>1. /\ Lines(forward, {"trigger"}) \in SUBSET Nat
        /\ Lines(prerouting, {"trigger"}) \in SUBSET Nat
    BY <1>1, ListedTyped
  <2>2. /\ op'[p] = op[p] /\ pc'[p] \in {"delete", "nat", "done"}
        /\ op[p] = "PORT_TRIGGER_RESET"
    BY <1>1, <1>2 DEF Triggers, ListTriggers, DeleteTrigger, ListNatTriggers,
       DeleteNatTrigger, InsertTrigger, AppendNatTrigger, Goto, LocalsTyped, OpFits, locals
  <2>3. numbers'[p] \in SUBSET Nat
    BY <1>1, <1>2, <2>1 DEF Triggers, ListTriggers, DeleteTrigger, ListNatTriggers,
       DeleteNatTrigger, InsertTrigger, AppendNatTrigger, locals
  <2>4. left'[p] \in Nat
    BY <1>1, <1>2 DEF Triggers, ListTriggers, DeleteTrigger, ListNatTriggers,
       DeleteNatTrigger, InsertTrigger, AppendNatTrigger, locals
  <2> QED
    BY <1>1, <2>2, <2>3, <2>4 DEF LocalsTyped, OpFits, Point
<1>3. ASSUME UNCHANGED locals, NEW to \in Point \ {"unjump"}, pc' = [pc EXCEPT ![p] = to],
             \/ pc[p] \in {"new_in", "new_out"} /\ to \in {"new_out", "head"}
             \/ pc[p] = "head" /\ to \in {"find", "jump_in"}
             \/ pc[p] \in {"flush_in", "flush_out", "drop_in", "drop_out"}
                /\ to \in {"flush_out", "drop_in", "drop_out", "done"}
             \/ pc[p] = "jump_in" /\ to = "jump_out"
      PROVE  LocalsTyped(p)'
  <2>1. /\ pc'[p] = to /\ op'[p] = op[p] /\ numbers'[p] = numbers[p] /\ left'[p] = left[p]
    BY <1>1, <1>3 DEF locals
  <2>2. OpFits(p) /\ op[p] \in Command \cup {"none"} /\ numbers[p] \in SUBSET Nat /\ left[p] \in Nat
    BY <1>1 DEF LocalsTyped
  <2>3. OpFits(p)'
    <3>1. CASE pc[p] \in {"new_in", "new_out"} /\ to \in {"new_out", "head"}
      BY <2>1, <2>2, <3>1 DEF OpFits
    <3>2. CASE pc[p] = "head" /\ to \in {"find", "jump_in"}
      BY <2>1, <2>2, <3>2 DEF OpFits
    <3>3. CASE /\ pc[p] \in {"flush_in", "flush_out", "drop_in", "drop_out"}
               /\ to \in {"flush_out", "drop_in", "drop_out", "done"}
      BY <2>1, <2>2, <3>3 DEF OpFits
    <3>4. CASE pc[p] = "jump_in" /\ to = "jump_out"
      BY <2>1, <2>2, <3>4 DEF OpFits
    <3> QED
      BY <1>3, <3>1, <3>2, <3>3, <3>4
  <2> QED
    BY <2>1, <2>2, <2>3 DEF LocalsTyped
<1>4. /\ {"new_in", "new_out", "head", "find", "jump_in", "jump_out", "flush_in", "flush_out",
          "drop_in", "drop_out", "done"} \subseteq Point \ {"unjump"}
      /\ op[p] = "setup" => AfterLoop(p) = "jump_in"
      /\ op[p] = "remove" => AfterLoop(p) = "flush_in"
  BY DEF Point, AfterLoop
<1>10. CASE NewIn(p) \/ NewOut(p)
  BY <1>3, <1>4, <1>10 DEF NewIn, NewOut, New, Goto
<1>11. CASE CheckHead(p)
  BY <1>3, <1>4, <1>11 DEF CheckHead, Goto
<1>12. CASE FlushIn(p) \/ FlushOut(p)
  BY <1>3, <1>4, <1>12 DEF FlushIn, FlushOut, Flush, Goto
<1>13. CASE DropIn(p) \/ DropOut(p)
  BY <1>3, <1>4, <1>13 DEF DropIn, DropOut, Drop, Goto
<1>14. CASE InsertIn(p)
  BY <1>3, <1>4, <1>14 DEF InsertIn, Goto
<1>15. ASSUME UNCHANGED <<op, left>>, pc[p] \in {"find", "unjump"}, numbers'[p] = {},
              pc'[p] \in {"find", AfterLoop(p)}
       PROVE  LocalsTyped(p)'
  <2>1. OpFits(p) /\ op[p] \in Command \cup {"none"} /\ left[p] \in Nat
    BY <1>1 DEF LocalsTyped
  <2>2. op[p] \in {"setup", "remove"} /\ op'[p] = op[p] /\ left'[p] = left[p]
    BY <1>15, <2>1 DEF OpFits
  <2>3. CASE pc'[p] = "find"
    BY <1>15, <2>1, <2>2, <2>3 DEF LocalsTyped, OpFits, Point
  <2>4. CASE op[p] = "setup" /\ pc'[p] = "jump_in"
    <3>1. OpFits(p)'
      BY <2>2, <2>4 DEF OpFits
    <3> QED
      BY <1>15, <2>1, <2>2, <2>4, <3>1 DEF LocalsTyped, Point
  <2>5. CASE op[p] = "remove" /\ pc'[p] = "flush_in"
    BY <1>15, <2>1, <2>2, <2>5 DEF LocalsTyped, OpFits, Point
  <2> QED
    BY <1>4, <1>15, <2>2, <2>3, <2>4, <2>5
<1>5. CASE FindJump(p)
  <2>1. /\ UNCHANGED <<op, left>> /\ pc[p] = "find"
        /\ pc'[p] = (IF Lines(forward, Jump) = {} THEN AfterLoop(p) ELSE "unjump")
        /\ numbers'[p] = (IF Lines(forward, Jump) = {} THEN {} ELSE {Lowest(Lines(forward, Jump))})
    BY <1>1, <1>5 DEF FindJump, Goto
  <2>2. op[p] \in {"setup", "remove"}
    BY <1>1, <2>1 DEF LocalsTyped, OpFits
  <2>3. CASE Lines(forward, Jump) = {}
    BY <1>15, <2>1, <2>3
  <2>4. CASE Lines(forward, Jump) # {}
    <3> DEFINE i == Lowest(Lines(forward, Jump))
    <3>1. i \in Nat
      BY <1>1, <2>4, ListedTyped
    <3> HIDE DEF i
    <3>2. Cardinality({i}) = 1
      BY FS_Singleton
    <3>3. pc'[p] = "unjump" /\ numbers'[p] = {i}
      BY <2>1, <2>4 DEF i
    <3> QED
      BY <1>1, <2>1, <2>2, <3>1, <3>2, <3>3 DEF LocalsTyped, OpFits, Point
  <2> QED
    BY <2>3, <2>4
<1>6. CASE DeleteJump(p)
  BY <1>1, <1>6, <1>15 DEF DeleteJump, Goto
<1>7. CASE InsertOut(p)
  <2>1. UNCHANGED <<op, numbers>> /\ pc[p] = "jump_out"
    BY <1>7 DEF InsertOut, Goto
  <2>2. CASE op[p] = "setup"
    <3>1. pc'[p] = "fill_in" /\ left' = left
      BY <1>1, <1>7, <2>2 DEF InsertOut, Goto
    <3> QED
      BY <1>1, <2>1, <2>2, <3>1 DEF LocalsTyped, OpFits, Point
  <2>3. CASE op[p] # "setup"
    <3>1. /\ op[p] = "update_wan" /\ left'[p] = left[p] - 1
          /\ pc'[p] = (IF left[p] > 1 THEN "jump_in" ELSE "done")
      BY <1>1, <1>7, <2>3 DEF InsertOut, Goto
    <3>2. left[p] > 0
      BY <1>1, <2>1, <2>3 DEF LocalsTyped, OpFits
    <3> QED
      BY <1>1, <2>1, <3>1, <3>2 DEF LocalsTyped, OpFits, Point
  <2> QED
    BY <2>2, <2>3
<1>8. CASE FillIn(p) \/ FillOut(p) \/ SkipHost(p) \/ LastHost(p)
  <2>1. /\ UNCHANGED <<op, numbers>> /\ pc[p] \in {"fill_in", "fill_out"}
        /\ \/ pc'[p] = "fill_out" /\ left'[p] = left[p] /\ left[p] > 0
           \/ pc'[p] = "fill_in" /\ left'[p] = left[p] - 1 /\ (pc[p] = "fill_out" \/ left[p] > 0)
           \/ pc'[p] = "done" /\ left'[p] = left[p]
    BY <1>1, <1>8 DEF FillIn, FillOut, SkipHost, LastHost, Goto, locals
  <2>2. op[p] \in {"setup", "update_ip"} /\ (pc[p] = "fill_out" => left[p] > 0)
    BY <1>1, <2>1 DEF LocalsTyped, OpFits
  <2> QED
    BY <1>1, <2>1, <2>2 DEF LocalsTyped, OpFits, Point
<1>9. CASE Finish(p)
  BY <1>1, <1>9 DEF Finish, Goto, LocalsTyped, OpFits, Point
<1> QED
  BY <1>2, <1>5, <1>6, <1>7, <1>8, <1>9, <1>10, <1>11, <1>12, <1>13, <1>14 DEF Work, Triggers

\* Nothing is remembered of a script that does not run, or not alone.
LEMMA NothingTyped == Nothing \in Seq(Kind) \X Seq(NatRule) \X SUBSET Jump
<1>1. \A R : <<>> \in Seq(R)
  BY EmptySeq
<1>2. \A a \in Seq(Kind), b \in Seq(NatRule), c \in SUBSET Jump :
        <<a, b, c>> \in Seq(Kind) \X Seq(NatRule) \X SUBSET Jump
  OBVIOUS
<1>3. <<>> \in Seq(Kind) /\ <<>> \in Seq(NatRule) /\ {} \in SUBSET Jump
  BY <1>1
<1> QED
  BY <1>2, <1>3 DEF Nothing

\* The state after boot.
LEMMA BootTyped ==
  ASSUME ChainInit
  PROVE  ScriptTyped
<1>1. <<"firewall">> \in Seq(Kind) /\ <<"firewall">> \in Seq(NatRule)
  BY DEF Kind, NatRule
<1>2. \A c \in Jump : Lines(<<"firewall">>, {c}) = {}
  BY DEF Lines, Jump
<1>3. ChainsTyped
  BY <1>1, <1>2 DEF ChainInit, ChainsTyped, Referred
<1>4. RememberedTyped
  BY NothingTyped DEF ChainInit, RememberedTyped
<1>5. /\ pc \in [Proc -> Point] /\ op \in [Proc -> Command \cup {"none"}]
      /\ numbers \in [Proc -> SUBSET Nat] /\ left \in [Proc -> Nat]
      /\ \A p \in Proc : pc[p] = "idle"
  BY DEF ChainInit, Point
<1> QED
  BY <1>3, <1>4, <1>5 DEF ScriptTyped, LocalsTyped, OpFits

LEMMA NextScriptTyped == ScriptTyped /\ [ChainNext]_chainVars => ScriptTyped'
<1> SUFFICES ASSUME ScriptTyped, [ChainNext]_chainVars PROVE ScriptTyped'
  OBVIOUS
<1>1. CASE UNCHANGED chainVars
  BY <1>1 DEF ScriptTyped, ChainsTyped, RememberedTyped, LocalsTyped, OpFits, Referred, chainVars
<1>2. CASE PowerCycle
  <2>1. <<"firewall">> \in Seq(Kind) /\ <<"firewall">> \in Seq(NatRule)
    BY DEF Kind, NatRule
  <2>2. \A c \in Jump : Lines(<<"firewall">>, {c}) = {}
    BY DEF Lines, Jump
  <2>3. ChainsTyped'
    BY <1>2, <2>1, <2>2 DEF PowerCycle, ChainsTyped, Referred
  <2>4. RememberedTyped'
    BY <1>2, NothingTyped DEF PowerCycle, RememberedTyped
  <2>5. /\ pc' \in [Proc -> Point] /\ op' \in [Proc -> Command \cup {"none"}]
        /\ numbers' \in [Proc -> SUBSET Nat] /\ left' \in [Proc -> Nat]
        /\ \A p \in Proc : pc'[p] = "idle"
    BY <1>2 DEF PowerCycle, Point
  <2> QED
    BY <2>3, <2>4, <2>5 DEF ScriptTyped, LocalsTyped, OpFits
<1>3. ASSUME NEW p \in Proc, NEW o \in Command, NEW n \in Nat, Start(p, o, n)
      PROVE  ScriptTyped'
  <2>1. <<forward, prerouting, chains>> \in Seq(Kind) \X Seq(NatRule) \X SUBSET Jump
    BY DEF ScriptTyped, ChainsTyped
  <2>2. ChainsTyped'
    BY <1>3 DEF Start, ScriptTyped, ChainsTyped, Referred
  <2>3. RememberedTyped'
    BY <1>3, <2>1, NothingTyped DEF Start, RememberedTyped
  <2>4. FirstPoint(o, n) \in Point
    BY DEF FirstPoint, Point
  <2>5. /\ pc' = [pc EXCEPT ![p] = FirstPoint(o, n)] /\ op' = [op EXCEPT ![p] = o]
        /\ left' = [left EXCEPT ![p] = n] /\ numbers' = numbers
    BY <1>3 DEF Start, Goto
  <2>6. /\ pc' \in [Proc -> Point] /\ op' \in [Proc -> Command \cup {"none"}]
        /\ numbers' \in [Proc -> SUBSET Nat] /\ left' \in [Proc -> Nat]
    BY <2>4, <2>5 DEF ScriptTyped
  <2>7. ASSUME NEW q \in Proc \ {p} PROVE LocalsTyped(q)'
    <3>1. pc'[q] = pc[q] /\ op'[q] = op[q] /\ left'[q] = left[q] /\ numbers'[q] = numbers[q]
      BY <2>5 DEF ScriptTyped
    <3> QED
      BY <3>1 DEF ScriptTyped, LocalsTyped, OpFits
  <2>8. LocalsTyped(p)'
    <3>1. /\ pc'[p] = FirstPoint(o, n) /\ op'[p] = o /\ left'[p] = n
          /\ numbers'[p] \in SUBSET Nat
      BY <2>5 DEF ScriptTyped
    <3>2. OpFits(p)'
      BY <3>1 DEF OpFits, FirstPoint, Command
    <3>3. FirstPoint(o, n) # "unjump"
      BY DEF FirstPoint
    <3> QED
      BY <2>4, <3>1, <3>2, <3>3 DEF LocalsTyped
  <2> QED
    BY <2>2, <2>3, <2>6, <2>7, <2>8 DEF ScriptTyped
<1>4. ASSUME NEW p \in Proc, Work(p) PROVE ScriptTyped'
  <2>1. ChainsTyped' /\ LocalsTyped(p)'
    BY <1>4, WorkChains, WorkLocals
  <2>2. /\ \E to : pc' = [pc EXCEPT ![p] = to]
        /\ \E s : numbers' = [numbers EXCEPT ![p] = s]
        /\ \E k : left' = [left EXCEPT ![p] = k]
        /\ \/ op' = op /\ UNCHANGED remembered
           \/ Finish(p)
    BY <1>4, WorkFrame
  <2>3. \E o : op' = [op EXCEPT ![p] = o]
    <3>1. op = [op EXCEPT ![p] = op[p]]
      BY DEF ScriptTyped
    <3> QED
      BY <2>2, <3>1 DEF Finish
  <2>4. RememberedTyped'
    <3>1. CASE UNCHANGED remembered
      BY <3>1 DEF ScriptTyped, RememberedTyped, remembered
    <3>2. CASE Finish(p)
      BY <3>2, NothingTyped DEF ScriptTyped, RememberedTyped, Finish
    <3> QED
      BY <2>2, <3>1, <3>2
  <2>5. /\ pc' \in [Proc -> Point] /\ op' \in [Proc -> Command \cup {"none"}]
        /\ numbers' \in [Proc -> SUBSET Nat] /\ left' \in [Proc -> Nat]
    BY <2>1, <2>2, <2>3 DEF ScriptTyped, LocalsTyped
  <2>6. ASSUME NEW q \in Proc \ {p} PROVE LocalsTyped(q)'
    <3>1. pc'[q] = pc[q] /\ op'[q] = op[q] /\ left'[q] = left[q] /\ numbers'[q] = numbers[q]
      BY <2>2, <2>3 DEF ScriptTyped
    <3> QED
      BY <3>1 DEF ScriptTyped, LocalsTyped, OpFits
  <2> QED
    BY <2>1, <2>4, <2>5, <2>6 DEF ScriptTyped
<1> QED
  BY <1>1, <1>2, <1>3, <1>4, ForwardChainAssumption DEF ChainNext

\* However many scripts change the chains at the same time, they stay chains of rules; a
\* script that deletes a jump has found exactly one; and each accounting chain that a
\* rule jumps to, or that has rules, exists by itself, whatever has become of the other.
THEOREM ChainsTypeCorrect == ChainSpec => []ChainTypeOK
<1> QED
  BY BootTyped, NextScriptTyped, ScriptTypedOK, PTL DEF ChainSpec

-----------------------------------------------------------------------------
(* What a script that nothing overlaps has done at each of its points.       *)

Was(p) == old[p][1]
NatWas(p) == old[p][2]
Had(p) == old[p][3]

\* The chain that setup inserts the jumps into.
Base(p) == IF 1 \in Lines(Was(p), Jump) THEN Without(Was(p), Jump) ELSE Was(p)

\* The chain that the jumps of the next interface come before, and the chains jumped to.
Placed(p) == IF op[p] = "setup" THEN Base(p) ELSE Pairs(want[p] - left[p], Had(p)) \o Was(p)
Meant(p) == IF op[p] = "setup" THEN Jump ELSE Had(p)

Put(c, had, chain) == IF c \in had THEN Inserted(c, chain) ELSE chain

ResetProgress(p) ==
  /\ pc[p] = "list" => forward = Was(p)
  /\ pc[p] = "delete" =>
       /\ Without(forward, {"trigger"}) = Without(Was(p), {"trigger"})
       /\ numbers[p] = Lines(forward, {"trigger"})
  /\ pc[p] \in {"list", "delete"} => prerouting = NatWas(p) /\ left[p] = want[p]
  /\ pc[p] = "nat" =>
       /\ left[p] <= want[p]
       /\ forward = [i \in 1..(want[p] - left[p]) |-> "trigger"] \o Without(Was(p), {"trigger"})
       /\ Without(prerouting, {"trigger"}) = Without(NatWas(p), {"trigger"})
       /\ numbers[p] = Lines(prerouting, {"trigger"})

JumpProgress(p) ==
  /\ pc[p] \in Point \ {"idle", "list", "delete", "nat", "done"} => prerouting = NatWas(p)
  /\ pc[p] \in {"new_in", "new_out", "head"} => forward = Was(p)
  /\ pc[p] \in {"find", "unjump"} =>
       /\ Without(forward, Jump) = Without(Was(p), Jump)
       /\ op[p] = "setup" => 1 \in Lines(Was(p), Jump)
  /\ pc[p] = "unjump" => numbers[p] \subseteq Lines(forward, Jump)
  /\ pc[p] \in {"flush_in", "flush_out", "drop_in", "drop_out"} =>
       forward = Without(Was(p), Jump) /\ Lines(forward, Jump) = {}
  /\ pc[p] \in {"jump_in", "jump_out"} /\ op[p] = "update_wan" => left[p] <= want[p]
  /\ pc[p] = "jump_in" => forward = Placed(p)
  /\ pc[p] = "jump_out" => forward = Put("in", Meant(p), Placed(p))
  /\ pc[p] \in {"fill_in", "fill_out"} =>
       forward = ExpectedForward(op[p], want[p], Was(p), Had(p))

ChainsProgress(p) ==
  /\ op[p] \in {"PORT_TRIGGER_RESET", "update_wan", "update_ip"} => chains = Had(p)
  /\ op[p] = "setup" =>
       /\ pc[p] = "new_out" => "in" \in chains
       /\ pc[p] \notin {"new_in", "new_out"} => chains = Jump
  /\ op[p] = "remove" =>
       /\ pc[p] = "flush_out" => "in" \notin hosts
       /\ pc[p] \in {"drop_in", "drop_out"} => hosts = {}
       /\ pc[p] = "drop_out" => "in" \notin chains
       /\ pc[p] = "done" => chains = {}

Exact(p) ==
  pc[p] = "done" =>
    /\ forward = ExpectedForward(op[p], want[p], Was(p), Had(p))
    /\ prerouting = ExpectedPrerouting(op[p], NatWas(p))
    /\ chains = ExpectedChains(op[p], Had(p))

EditProgress(p) == ResetProgress(p) /\ JumpProgress(p) /\ ChainsProgress(p) /\ Exact(p)

EditInv ==
  \A p \in Proc : alone[p] => (\A q \in Proc \ {p} : ~Running(q)) /\ EditProgress(p)

\* One more pair of jumps, to the chains there are.
LEMMA PairFacts ==
  ASSUME NEW had \in SUBSET Jump, NEW w \in Seq(Kind)
  PROVE  /\ Pairs(0, had) \o w = w
         /\ \A n \in Nat : Put("out", had, Put("in", had, Pairs(n, had) \o w))
                             = Pairs(n + 1, had) \o w
<1>1. had = {} \/ had = {"in"} \/ had = {"out"} \/ had = Jump
  BY DEF Jump
<1>2. CASE had = {}
  BY <1>2 DEF Pairs, Put, Jump
<1>3. ASSUME NEW c \in Jump, had = {c} PROVE /\ Pairs(0, had) \o w = w
                                             /\ \A n \in Nat : Inserted(c, Pairs(n, had) \o w)
                                                                 = Pairs(n + 1, had) \o w
  <2>1. \A n : Pairs(n, had) = [i \in 1..n |-> c]
    <3>1. (CHOOSE x \in had : TRUE) = c
      BY <1>3
    <3>2. had # Jump /\ had # {}
      <4>1. "in" \in Jump /\ "out" \in Jump /\ "in" # "out"
        BY DEF Jump
      <4> QED
        BY <1>3, <4>1
    <3> QED
      BY <3>1, <3>2 DEF Pairs
  <2>2. ASSUME NEW n \in Nat
        PROVE  Inserted(c, [i \in 1..n |-> c] \o w) = [i \in 1..(n + 1) |-> c] \o w
    BY DEF Inserted
  <2>3. [i \in 1..0 |-> c] \o w = w
    OBVIOUS
  <2> QED
    BY <2>1, <2>2, <2>3
<1>4. CASE had = {"in"} \/ had = {"out"}
  BY <1>3, <1>4 DEF Put, Jump
<1>5. CASE had = Jump
  <2> DEFINE P(n) == [i \in 1..(2 * n) |-> IF i % 2 = 1 THEN "out" ELSE "in"]
  <2>1. \A n : Pairs(n, had) = P(n)
    BY <1>5 DEF Pairs
  <2>2. P(0) \o w = w
    OBVIOUS
  <2>3. ASSUME NEW n \in Nat
        PROVE  Inserted("out", Inserted("in", P(n) \o w)) = P(n + 1) \o w
    <3>1. /\ P(n) \in Seq(Kind) /\ Len(P(n)) = 2 * n
          /\ P(n + 1) \in Seq(Kind) /\ Len(P(n + 1)) = 2 * n + 2
      BY DEF Kind
    <3>2. <<"out", "in">> \o P(n) = P(n + 1)
      <4> DEFINE s == <<"out", "in">> \o P(n)
      <4>1. <<"out", "in">> \in Seq(Kind) /\ Len(<<"out", "in">>) = 2
        BY DEF Kind
      <4>2. /\ s \in Seq(Kind) /\ Len(s) = 2 + 2 * n
            /\ \A i \in 1..(2 + 2 * n) : s[i] = IF i <= 2 THEN <<"out", "in">>[i] ELSE P(n)[i - 2]
        BY <3>1, <4>1, ConcatProperties
      <4>3. ASSUME NEW i \in 1..(2 * n + 2) PROVE s[i] = P(n + 1)[i]
        <5>1. P(n + 1)[i] = IF i % 2 = 1 THEN "out" ELSE "in"
          OBVIOUS
        <5>2. CASE i <= 2
          BY <4>2, <5>1, <5>2
        <5>3. CASE i > 2
          <6>1. i - 2 \in 1..(2 * n) /\ (i - 2) % 2 = i % 2
            BY <5>3
          <6>2. P(n)[i - 2] = IF (i - 2) % 2 = 1 THEN "out" ELSE "in"
            BY <6>1
          <6> QED
            BY <4>2, <5>1, <5>3, <6>1, <6>2
        <5> QED
          BY <5>2, <5>3
      <4> QED
        BY <3>1, <4>2, <4>3, SeqEqual
    <3> HIDE DEF P
    <3>3. \A s \in Seq(Kind) : Inserted("out", Inserted("in", s \o w)) = (<<"out", "in">> \o s) \o w
      BY DEF Inserted
    <3> QED
      BY <3>1, <3>2, <3>3
  <2> HIDE DEF P
  <2>4. \A s : Put("out", had, Put("in", had, s)) = Inserted("out", Inserted("in", s))
    BY <1>5 DEF Put, Jump
  <2> QED
    BY <2>1, <2>2, <2>3, <2>4
<1> QED
  BY <1>1, <1>2, <1>4, <1>5

\* What a script remembers of its start does not change under way.
LEMMA WorkRemembers ==
  ASSUME ScriptTyped, NEW p \in Proc, Work(p), ~Finish(p)
  PROVE  /\ Was(p)' = Was(p) /\ NatWas(p)' = NatWas(p) /\ Had(p)' = Had(p)
         /\ Base(p)' = Base(p) /\ Meant(p)' = Meant(p)
         /\ op'[p] = op[p] /\ want'[p] = want[p] /\ alone' = alone
         /\ Was(p) \in Seq(Kind) /\ NatWas(p) \in Seq(NatRule) /\ Had(p) \in SUBSET Jump
         /\ Base(p) \in Seq(Kind) /\ want[p] \in Nat
<1>1. op' = op /\ UNCHANGED remembered
  BY WorkFrame
<1>2. /\ Was(p)' = Was(p) /\ NatWas(p)' = NatWas(p) /\ Had(p)' = Had(p)
      /\ want'[p] = want[p] /\ alone' = alone
  BY <1>1 DEF remembered, Was, NatWas, Had
<1>3. /\ Was(p) \in Seq(Kind) /\ NatWas(p) \in Seq(NatRule) /\ Had(p) \in SUBSET Jump
      /\ want[p] \in Nat
  BY DEF ScriptTyped, RememberedTyped, Was, NatWas, Had
<1>4. Base(p)' = Base(p) /\ Meant(p)' = Meant(p)
  BY <1>1, <1>2 DEF Base, Meant
<1>5. Base(p) \in Seq(Kind)
  BY <1>3, WithoutTyped DEF Base
<1> QED
  BY <1>1, <1>2, <1>3, <1>4, <1>5

\* Port triggers: the rules are deleted from the highest number down, then inserted.
LEMMA ResetEdits ==
  ASSUME ScriptTyped, NEW p \in Proc, EditProgress(p), Triggers(p)
  PROVE  EditProgress(p)'
<1> DEFINE T == {"trigger"}
<1>1. /\ pc \in [Proc -> Point] /\ numbers \in [Proc -> SUBSET Nat]
      /\ left \in [Proc -> Nat] /\ left[p] \in Nat /\ want[p] \in Nat
      /\ forward \in Seq(Kind) /\ prerouting \in Seq(NatRule) /\ OpFits(p)
  BY DEF ScriptTyped, ChainsTyped, RememberedTyped, LocalsTyped
<1>2. Work(p) /\ ~Finish(p) /\ UNCHANGED <<chains, hosts>>
  BY <1>1 DEF Triggers, Work, ListTriggers, DeleteTrigger, ListNatTriggers, DeleteNatTrigger,
     InsertTrigger, AppendNatTrigger, Finish, Goto, OpFits
<1>3. /\ Was(p)' = Was(p) /\ NatWas(p)' = NatWas(p) /\ Had(p)' = Had(p)
      /\ op'[p] = op[p] /\ want'[p] = want[p]
      /\ Was(p) \in Seq(Kind) /\ NatWas(p) \in Seq(NatRule)
  BY <1>2, WorkRemembers
<1>4. CASE ListTriggers(p)
  <2>1. /\ pc[p] = "list" /\ pc'[p] = "delete" /\ numbers'[p] = Lines(forward, T)
        /\ forward' = forward /\ prerouting' = prerouting /\ left'[p] = left[p]
    BY <1>1, <1>4 DEF ListTriggers, Goto
  <2>2. op[p] = "PORT_TRIGGER_RESET" /\ forward = Was(p) /\ prerouting = NatWas(p) /\ left[p] = want[p]
    BY <1>1, <2>1 DEF OpFits, EditProgress, ResetProgress
  <2> QED
    BY <1>2, <1>3, <2>1, <2>2 DEF EditProgress, ResetProgress, JumpProgress, ChainsProgress, Exact
<1>5. CASE DeleteTrigger(p)
  <2> DEFINE i == Highest(numbers[p])
  <2>1. /\ pc[p] = "delete" /\ pc'[p] = "delete" /\ numbers'[p] = numbers[p] \ {i} /\ numbers[p] # {}
        /\ forward' = IF i \in DOMAIN forward THEN Deleted(forward, i) ELSE forward
        /\ prerouting' = prerouting /\ left'[p] = left[p]
    BY <1>1, <1>5 DEF DeleteTrigger, Goto
  <2>2. /\ op[p] = "PORT_TRIGGER_RESET" /\ Without(forward, T) = Without(Was(p), T)
        /\ numbers[p] = Lines(forward, T) /\ prerouting = NatWas(p) /\ left[p] = want[p]
    BY <1>1, <2>1 DEF OpFits, EditProgress, ResetProgress
  <2>3. i \in Lines(forward, T) /\ \A k \in Lines(forward, T) : k <= i
    BY <1>1, <2>1, <2>2, ListedTyped
  <2> HIDE DEF i
  <2>4. forward' = Deleted(forward, i)
    BY <2>1, <2>3 DEF Lines
  <2>5. Lines(forward', T) = Lines(forward, T) \ {i} /\ Without(forward', T) = Without(forward, T)
    <3>1. Lines(Deleted(forward, i), T) = Lines(forward, T) \ {i}
      BY <1>1, <2>3, LinesDeleted
    <3>2. Without(Deleted(forward, i), T) = Without(forward, T)
      BY <1>1, <2>3, WithoutDeleted
    <3> QED
      BY <2>4, <3>1, <3>2
  <2> QED
    BY <1>2, <1>3, <2>1, <2>2, <2>5 DEF EditProgress, ResetProgress, JumpProgress, ChainsProgress, Exact
<1>6. CASE ListNatTriggers(p)
  <2> DEFINE w == Without(Was(p), T)
  <2>1. /\ pc[p] = "delete" /\ pc'[p] = "nat" /\ numbers'[p] = Lines(prerouting, T) /\ numbers[p] = {}
        /\ forward' = forward /\ prerouting' = prerouting /\ left'[p] = left[p]
    BY <1>1, <1>6 DEF ListNatTriggers, Goto
  <2>2. /\ op[p] = "PORT_TRIGGER_RESET" /\ Without(forward, T) = w
        /\ numbers[p] = Lines(forward, T) /\ prerouting = NatWas(p) /\ left[p] = want[p]
    BY <1>1, <2>1 DEF OpFits, EditProgress, ResetProgress
  <2>3. forward = w
    BY <1>1, <2>1, <2>2, WithoutNone
  <2>4. w \in Seq(Kind)
    BY <1>3, WithoutTyped
  <2> HIDE DEF w
  <2>5. [i \in 1..0 |-> "trigger"] \o w = w
    BY <2>4, HeadFacts
  <2>6. want[p] - left[p] = 0 /\ left[p] <= want[p]
    BY <1>1, <2>2
  <2>7. forward' = [i \in 1..(want'[p] - left'[p]) |-> "trigger"] \o w
    BY <1>2, <1>3, <2>1, <2>3, <2>5, <2>6
  <2> QED
    BY <1>2, <1>3, <2>1, <2>2, <2>6, <2>7
    DEF EditProgress, ResetProgress, JumpProgress, ChainsProgress, Exact, w
<1>7. CASE DeleteNatTrigger(p)
  <2> DEFINE i == Highest(numbers[p])
  <2>1. /\ pc[p] = "nat" /\ pc'[p] = "nat" /\ numbers'[p] = numbers[p] \ {i} /\ numbers[p] # {}
        /\ prerouting' = IF i \in DOMAIN prerouting THEN Deleted(prerouting, i) ELSE prerouting
        /\ forward' = forward /\ left'[p] = left[p]
    BY <1>1, <1>7 DEF DeleteNatTrigger, Goto
  <2>2. /\ Without(prerouting, T) = Without(NatWas(p), T) /\ numbers[p] = Lines(prerouting, T)
    BY <2>1 DEF EditProgress, ResetProgress
  <2>3. i \in Lines(prerouting, T) /\ \A k \in Lines(prerouting, T) : k <= i
    BY <1>1, <2>1, <2>2, ListedTyped
  <2> HIDE DEF i
  <2>4. prerouting' = Deleted(prerouting, i)
    BY <2>1, <2>3 DEF Lines
  <2>5. /\ Lines(prerouting', T) = Lines(prerouting, T) \ {i}
        /\ Without(prerouting', T) = Without(prerouting, T)
    <3>1. Lines(Deleted(prerouting, i), T) = Lines(prerouting, T) \ {i}
      BY <1>1, <2>3, LinesDeleted
    <3>2. Without(Deleted(prerouting, i), T) = Without(prerouting, T)
      BY <1>1, <2>3, WithoutDeleted
    <3> QED
      BY <2>4, <3>1, <3>2
  <2> QED
    BY <1>2, <1>3, <2>1, <2>2, <2>5 DEF EditProgress, ResetProgress, JumpProgress, ChainsProgress, Exact
<1>8. CASE InsertTrigger(p)
  <2> DEFINE w == Without(Was(p), T)
  <2>1. /\ pc[p] = "nat" /\ pc'[p] = "nat" /\ numbers'[p] = numbers[p] /\ left[p] > 0
        /\ forward' = Inserted("trigger", forward) /\ prerouting' = prerouting
        /\ left'[p] = left[p] - 1
    BY <1>1, <1>8 DEF InsertTrigger, Goto
  <2>2. /\ left[p] <= want[p] /\ forward = [i \in 1..(want[p] - left[p]) |-> "trigger"] \o w
        /\ Without(prerouting, T) = Without(NatWas(p), T) /\ numbers[p] = Lines(prerouting, T)
    BY <2>1 DEF EditProgress, ResetProgress
  <2>3. w \in Seq(Kind)
    BY <1>3, WithoutTyped
  <2> HIDE DEF w
  <2> DEFINE n == want[p] - left[p]
  <2>4. n \in Nat /\ want'[p] - left'[p] = n + 1 /\ left'[p] <= want'[p]
    BY <1>1, <1>3, <2>1, <2>2
  <2>5. Inserted("trigger", [i \in 1..n |-> "trigger"] \o w) = [i \in 1..(n + 1) |-> "trigger"] \o w
    BY <2>3, <2>4, HeadFacts
  <2>6. forward' = [i \in 1..(want'[p] - left'[p]) |-> "trigger"] \o w
    BY <2>1, <2>2, <2>4, <2>5
  <2> QED
    BY <1>2, <1>3, <2>1, <2>2, <2>4, <2>6
    DEF EditProgress, ResetProgress, JumpProgress, ChainsProgress, Exact, w
<1>9. CASE AppendNatTrigger(p)
  <2>1. /\ pc[p] = "nat" /\ pc'[p] = "done" /\ numbers[p] = {} /\ left[p] = 0
        /\ forward' = forward /\ prerouting' = Append(prerouting, "trigger")
    BY <1>1, <1>9 DEF AppendNatTrigger, Goto
  <2>2. /\ op[p] = "PORT_TRIGGER_RESET"
        /\ forward = [i \in 1..(want[p] - left[p]) |-> "trigger"] \o Without(Was(p), T)
        /\ Without(prerouting, T) = Without(NatWas(p), T) /\ numbers[p] = Lines(prerouting, T)
    BY <1>1, <2>1 DEF OpFits, EditProgress, ResetProgress
  <2>3. prerouting = Without(NatWas(p), T)
    BY <1>1, <2>1, <2>2, WithoutNone
  <2>4. want[p] - left[p] = want[p]
    BY <1>1, <2>1
  <2>5. /\ forward' = [i \in 1..want[p] |-> "trigger"] \o Without(Was(p), T)
        /\ prerouting' = Append(Without(NatWas(p), T), "trigger")
    BY <2>1, <2>2, <2>3, <2>4
  <2>6. chains = Had(p)
    BY <2>2 DEF EditProgress, ChainsProgress
  <2>7. Exact(p)'
    BY <1>2, <1>3, <2>2, <2>5, <2>6
    DEF Exact, ExpectedForward, ExpectedPrerouting, ExpectedChains
  <2> QED
    BY <1>2, <1>3, <2>1, <2>2, <2>6, <2>7
    DEF EditProgress, ResetProgress, JumpProgress, ChainsProgress
<1> QED
  BY <1>4, <1>5, <1>6, <1>7, <1>8, <1>9 DEF Triggers

\* Jumps: found one at a time until there is none, inserted behind the others.
LEMMA JumpEdits ==
  ASSUME ScriptTyped, NEW p \in Proc, EditProgress(p), Work(p), ~Triggers(p), ~Finish(p)
  PROVE  EditProgress(p)'
<1>1. /\ pc \in [Proc -> Point] /\ numbers \in [Proc -> SUBSET Nat] /\ chains \in SUBSET Jump
      /\ left \in [Proc -> Nat] /\ left[p] \in Nat /\ hosts \in SUBSET chains
      /\ forward \in Seq(Kind) /\ prerouting \in Seq(NatRule) /\ OpFits(p)
  BY DEF ScriptTyped, ChainsTyped, LocalsTyped
<1>2. /\ Was(p)' = Was(p) /\ NatWas(p)' = NatWas(p) /\ Had(p)' = Had(p)
      /\ Base(p)' = Base(p) /\ Meant(p)' = Meant(p)
      /\ op'[p] = op[p] /\ want'[p] = want[p] /\ want[p] \in Nat
      /\ Was(p) \in Seq(Kind) /\ Base(p) \in Seq(Kind) /\ Had(p) \in SUBSET Jump
  BY WorkRemembers
<1>3. left'[p] = left[p] => Placed(p)' = Placed(p)
  BY <1>2 DEF Placed
<1>4. CASE NewIn(p) \/ NewOut(p)
  <2>1. /\ \/ pc[p] = "new_in" /\ pc'[p] = "new_out" /\ chains' = chains \cup {"in"}
           \/ pc[p] = "new_out" /\ pc'[p] = "head" /\ chains' = chains \cup {"out"}
        /\ forward' = forward /\ prerouting' = prerouting
    BY <1>1, <1>4 DEF NewIn, NewOut, New, Goto
  <2>2. /\ op[p] = "setup" /\ forward = Was(p) /\ prerouting = NatWas(p)
        /\ pc[p] = "new_out" => "in" \in chains
    BY <1>1, <2>1 DEF OpFits, EditProgress, JumpProgress, ChainsProgress, Point
  <2>3. IF pc'[p] = "new_out" THEN "in" \in chains' ELSE chains' = Jump
    BY <1>1, <2>1, <2>2 DEF Jump
  <2> QED
    BY <1>2, <2>1, <2>2, <2>3 DEF EditProgress, ResetProgress, JumpProgress, ChainsProgress, Exact
<1>5. CASE CheckHead(p)
  <2>1. /\ pc[p] = "head" /\ pc'[p] = (IF 1 \in Lines(forward, Jump) THEN "find" ELSE "jump_in")
        /\ UNCHANGED <<chains, hosts, forward, prerouting>> /\ left'[p] = left[p]
    BY <1>1, <1>5 DEF CheckHead, Goto, locals
  <2>2. op[p] = "setup" /\ forward = Was(p) /\ prerouting = NatWas(p) /\ chains = Jump
    BY <1>1, <2>1 DEF OpFits, EditProgress, JumpProgress, ChainsProgress, Point
  <2>3. CASE 1 \in Lines(forward, Jump)
    BY <1>2, <2>1, <2>2, <2>3 DEF EditProgress, ResetProgress, JumpProgress, ChainsProgress, Exact
  <2>4. CASE 1 \notin Lines(forward, Jump)
    <3>1. Placed(p)' = forward
      BY <1>2, <1>3, <2>1, <2>2, <2>4 DEF Base, Placed
    <3> QED
      BY <1>2, <2>1, <2>2, <2>4, <3>1
      DEF EditProgress, ResetProgress, JumpProgress, ChainsProgress, Exact
  <2> QED
    BY <2>3, <2>4
<1>6. CASE FindJump(p)
  <2>1. /\ pc[p] = "find" /\ UNCHANGED <<chains, hosts, forward, prerouting>>
        /\ left'[p] = left[p]
        /\ pc'[p] = (IF Lines(forward, Jump) = {} THEN AfterLoop(p) ELSE "unjump")
        /\ numbers'[p] = (IF Lines(forward, Jump) = {} THEN {} ELSE {Lowest(Lines(forward, Jump))})
    BY <1>1, <1>6 DEF FindJump, Goto
  <2>2. /\ op[p] \in {"setup", "remove"} /\ prerouting = NatWas(p)
        /\ Without(forward, Jump) = Without(Was(p), Jump)
        /\ op[p] = "setup" => 1 \in Lines(Was(p), Jump) /\ chains = Jump
    BY <1>1, <2>1 DEF OpFits, EditProgress, JumpProgress, ChainsProgress, Point
  <2>3. CASE Lines(forward, Jump) = {}
    <3>1. forward = Without(Was(p), Jump)
      BY <1>1, <2>2, <2>3, WithoutNone
    <3>2. op[p] = "setup" => Placed(p)' = forward
      BY <1>3, <2>1, <2>2, <3>1 DEF Base, Placed
    <3>3. pc'[p] = (IF op[p] = "setup" THEN "jump_in" ELSE "flush_in")
      BY <2>1, <2>3 DEF AfterLoop
    <3> QED
      BY <1>2, <2>1, <2>2, <2>3, <3>1, <3>2, <3>3
      DEF EditProgress, ResetProgress, JumpProgress, ChainsProgress, Exact
  <2>4. CASE Lines(forward, Jump) # {}
    <3>1. pc'[p] = "unjump" /\ numbers'[p] \subseteq Lines(forward, Jump)
      BY <1>1, <2>1, <2>4, ListedTyped
    <3> QED
      BY <1>2, <2>1, <2>2, <3>1
      DEF EditProgress, ResetProgress, JumpProgress, ChainsProgress, Exact
  <2> QED
    BY <2>3, <2>4
<1>7. CASE DeleteJump(p)
  <2>1. PICK i \in numbers[p] :
          /\ pc[p] = "unjump" /\ pc'[p] = (IF i \in DOMAIN forward THEN "find" ELSE AfterLoop(p))
          /\ forward' = IF i \in DOMAIN forward THEN Deleted(forward, i) ELSE forward
          /\ UNCHANGED <<chains, hosts, prerouting>>
    BY <1>1, <1>7 DEF DeleteJump, Goto
  <2>2. /\ op[p] \in {"setup", "remove"} /\ prerouting = NatWas(p)
        /\ Without(forward, Jump) = Without(Was(p), Jump)
        /\ op[p] = "setup" => 1 \in Lines(Was(p), Jump) /\ chains = Jump
        /\ i \in Lines(forward, Jump)
    BY <1>1, <2>1 DEF OpFits, EditProgress, JumpProgress, ChainsProgress, Point
  <2>3. forward' = Deleted(forward, i) /\ pc'[p] = "find"
    BY <2>1, <2>2 DEF Lines
  <2>4. Without(forward', Jump) = Without(forward, Jump)
    BY <1>1, <2>2, <2>3, WithoutDeleted
  <2> QED
    BY <1>2, <2>1, <2>2, <2>3, <2>4
    DEF EditProgress, ResetProgress, JumpProgress, ChainsProgress, Exact
<1>8. CASE FlushIn(p) \/ FlushOut(p)
  <2>1. /\ \/ pc[p] = "flush_in" /\ pc'[p] = "flush_out" /\ hosts' = hosts \ {"in"}
           \/ pc[p] = "flush_out" /\ pc'[p] = "drop_in" /\ hosts' = hosts \ {"out"}
        /\ UNCHANGED <<chains, forward, prerouting>>
    BY <1>1, <1>8 DEF FlushIn, FlushOut, Flush, Goto
  <2>2. /\ op[p] = "remove" /\ prerouting = NatWas(p) /\ forward = Without(Was(p), Jump)
        /\ Lines(forward, Jump) = {} /\ (pc[p] = "flush_out" => "in" \notin hosts)
    BY <1>1, <2>1 DEF OpFits, EditProgress, JumpProgress, ChainsProgress, Point
  <2>3. IF pc'[p] = "flush_out" THEN "in" \notin hosts' ELSE hosts' = {}
    BY <1>1, <2>1, <2>2 DEF Jump
  <2> QED
    BY <1>2, <2>1, <2>2, <2>3 DEF EditProgress, ResetProgress, JumpProgress, ChainsProgress, Exact
<1>9. CASE DropIn(p) \/ DropOut(p)
  <2>1. /\ \/ /\ pc[p] = "drop_in" /\ pc'[p] = "drop_out"
              /\ chains' = IF "in" \in hosts \/ Lines(forward, {"in"}) # {} THEN chains
                           ELSE chains \ {"in"}
           \/ /\ pc[p] = "drop_out" /\ pc'[p] = "done"
              /\ chains' = IF "out" \in hosts \/ Lines(forward, {"out"}) # {} THEN chains
                           ELSE chains \ {"out"}
        /\ UNCHANGED <<hosts, forward, prerouting>>
    BY <1>1, <1>9 DEF DropIn, DropOut, Drop, Goto
  <2>2. /\ op[p] = "remove" /\ prerouting = NatWas(p) /\ forward = Without(Was(p), Jump)
        /\ Lines(forward, Jump) = {} /\ hosts = {} /\ (pc[p] = "drop_out" => "in" \notin chains)
    BY <1>1, <2>1 DEF OpFits, EditProgress, JumpProgress, ChainsProgress, Point
  <2>3. Lines(forward, {"in"}) = {} /\ Lines(forward, {"out"}) = {}
    BY <2>2 DEF Lines, Jump
  <2>4. IF pc'[p] = "drop_out" THEN "in" \notin chains' ELSE chains' = {}
    BY <1>1, <2>1, <2>2, <2>3 DEF Jump
  <2>5. Exact(p)'
    BY <1>2, <2>1, <2>2, <2>4 DEF Exact, ExpectedForward, ExpectedPrerouting, ExpectedChains
  <2> QED
    BY <1>2, <2>1, <2>2, <2>4, <2>5 DEF EditProgress, ResetProgress, JumpProgress, ChainsProgress
<1>10. CASE InsertIn(p)
  <2>1. /\ pc[p] = "jump_in" /\ pc'[p] = "jump_out" /\ UNCHANGED <<chains, hosts, prerouting>>
        /\ left'[p] = left[p] /\ forward' = Put("in", chains, forward)
    BY <1>1, <1>10 DEF InsertIn, WithJump, Put, Goto, locals
  <2>2. /\ op[p] \in {"setup", "update_wan"} /\ prerouting = NatWas(p) /\ forward = Placed(p)
        /\ chains = Meant(p) /\ (op[p] = "update_wan" => left[p] <= want[p])
    BY <1>1, <2>1 DEF OpFits, EditProgress, JumpProgress, ChainsProgress, Point, Meant
  <2>3. forward' = Put("in", Meant(p)', Placed(p)')
    BY <1>2, <1>3, <2>1, <2>2
  <2> QED
    BY <1>2, <2>1, <2>2, <2>3
    DEF EditProgress, ResetProgress, JumpProgress, ChainsProgress, Exact, Meant
<1>11. CASE InsertOut(p)
  <2>1. /\ pc[p] = "jump_out" /\ UNCHANGED <<chains, hosts, prerouting>>
        /\ forward' = Put("out", chains, forward)
    BY <1>1, <1>11 DEF InsertOut, WithJump, Put, Goto
  <2>2. /\ op[p] \in {"setup", "update_wan"} /\ prerouting = NatWas(p)
        /\ forward = Put("in", chains, Placed(p)) /\ chains = Meant(p)
    BY <1>1, <2>1 DEF OpFits, EditProgress, JumpProgress, ChainsProgress, Point, Meant
  <2>3. CASE op[p] = "setup"
    <3>1. pc'[p] = "fill_in" /\ chains = Jump
      BY <1>1, <1>11, <2>2, <2>3 DEF InsertOut, Goto, Meant
    <3>2. forward' = Inserted("out", Inserted("in", Base(p)))
      BY <2>1, <2>2, <2>3, <3>1 DEF Put, Placed, Jump
    <3>3. Inserted("out", Inserted("in", Base(p))) = <<"out", "in">> \o Base(p)
      BY <1>2, HeadFacts
    <3>4. \A n, h : ExpectedForward("setup", n, Was(p), h) = <<"out", "in">> \o Base(p)
      BY DEF ExpectedForward, Base
    <3>5. forward' = ExpectedForward("setup", want[p], Was(p), Had(p))
      BY <3>2, <3>3, <3>4
    <3> QED
      BY <1>2, <2>1, <2>2, <2>3, <3>1, <3>5
      DEF EditProgress, ResetProgress, JumpProgress, ChainsProgress, Exact
  <2>4. CASE op[p] = "update_wan"
    <3> DEFINE n == want[p] - left[p]
    <3>1. /\ left'[p] = left[p] - 1 /\ left[p] > 0 /\ left[p] <= want[p]
          /\ pc'[p] = (IF left[p] > 1 THEN "jump_in" ELSE "done")
      BY <1>1, <1>11, <2>1, <2>4
      DEF InsertOut, Goto, OpFits, EditProgress, JumpProgress
    <3>2. n \in Nat /\ want'[p] - left'[p] = n + 1 /\ left'[p] <= want'[p]
      BY <1>1, <1>2, <3>1
    <3>3. chains = Had(p) /\ Placed(p) = Pairs(n, Had(p)) \o Was(p)
      BY <2>2, <2>4 DEF Placed, Meant
    <3> HIDE DEF n
    <3>4. forward' = Pairs(n + 1, Had(p)) \o Was(p)
      <4>1. Put("out", Had(p), Put("in", Had(p), Pairs(n, Had(p)) \o Was(p)))
              = Pairs(n + 1, Had(p)) \o Was(p)
        BY <1>2, <3>2, PairFacts
      <4> QED
        BY <2>1, <2>2, <3>3, <4>1
    <3>5. Placed(p)' = forward'
      BY <1>2, <2>4, <3>2, <3>4 DEF Placed
    <3>6. CASE left[p] > 1
      BY <1>2, <2>1, <2>2, <2>4, <3>1, <3>2, <3>3, <3>5, <3>6
      DEF EditProgress, ResetProgress, JumpProgress, ChainsProgress, Exact
    <3>7. CASE ~(left[p] > 1)
      <4>1. pc'[p] = "done" /\ n + 1 = want[p]
        BY <1>1, <1>2, <3>1, <3>2, <3>7
      <4>2. Exact(p)'
        BY <1>2, <2>1, <2>2, <2>4, <3>3, <3>4, <4>1
        DEF Exact, ExpectedForward, ExpectedPrerouting, ExpectedChains
      <4> QED
        BY <1>2, <2>1, <2>4, <3>3, <4>1, <4>2
        DEF EditProgress, ResetProgress, JumpProgress, ChainsProgress
    <3> QED
      BY <3>6, <3>7
  <2> QED
    BY <2>2, <2>3, <2>4
<1>12. CASE FillIn(p) \/ FillOut(p) \/ SkipHost(p) \/ LastHost(p)
  <2>1. /\ pc[p] \in {"fill_in", "fill_out"} /\ pc'[p] \in {"fill_in", "fill_out", "done"}
        /\ UNCHANGED <<chains, forward, prerouting>>
    BY <1>1, <1>12 DEF FillIn, FillOut, SkipHost, LastHost, Goto
  <2>2. /\ op[p] \in {"setup", "update_ip"} /\ prerouting = NatWas(p)
        /\ forward = ExpectedForward(op[p], want[p], Was(p), Had(p))
        /\ chains = ExpectedChains(op[p], Had(p))
    BY <1>1, <2>1
    DEF OpFits, EditProgress, JumpProgress, ChainsProgress, Point, ExpectedChains
  <2>3. Exact(p)'
    BY <1>2, <2>1, <2>2 DEF Exact, ExpectedPrerouting
  <2> QED
    BY <1>2, <2>1, <2>2, <2>3
    DEF EditProgress, ResetProgress, JumpProgress, ChainsProgress, ExpectedChains
<1> QED
  BY <1>4, <1>5, <1>6, <1>7, <1>8, <1>9, <1>10, <1>11, <1>12 DEF Work, Triggers

LEMMA NextEditInv == ScriptTyped /\ EditInv /\ [ChainNext]_chainVars => EditInv'
<1> SUFFICES ASSUME ScriptTyped, EditInv, [ChainNext]_chainVars PROVE EditInv'
  OBVIOUS
<1>1. CASE UNCHANGED chainVars
  <2>1. UNCHANGED <<forward, prerouting, chains, hosts, pc, op, numbers, left, old, want, alone>>
    BY <1>1 DEF chainVars
  <2>2. ASSUME NEW p \in Proc PROVE \A q \in Proc : Running(q)' <=> Running(q)
    BY <2>1 DEF Running
  <2>3. ASSUME NEW p \in Proc, alone[p] PROVE EditProgress(p)'
    <3>1. /\ Was(p)' = Was(p) /\ NatWas(p)' = NatWas(p) /\ Had(p)' = Had(p)
          /\ Base(p)' = Base(p) /\ Placed(p)' = Placed(p) /\ Meant(p)' = Meant(p)
      BY <2>1 DEF Was, NatWas, Had, Base, Placed, Meant
    <3>2. ResetProgress(p)'
      BY <2>1, <2>3, <3>1 DEF EditInv, EditProgress, ResetProgress
    <3>3. JumpProgress(p)'
      BY <2>1, <2>3, <3>1 DEF EditInv, EditProgress, JumpProgress
    <3>4. ChainsProgress(p)'
      BY <2>1, <2>3, <3>1 DEF EditInv, EditProgress, ChainsProgress
    <3>5. Exact(p)'
      BY <2>1, <2>3, <3>1 DEF EditInv, EditProgress, Exact
    <3> QED
      BY <3>2, <3>3, <3>4, <3>5 DEF EditProgress
  <2> QED
    BY <2>1, <2>2, <2>3 DEF EditInv
<1>2. CASE PowerCycle
  BY <1>2 DEF PowerCycle, EditInv
<1>3. ASSUME NEW p \in Proc, NEW o \in Command, NEW n \in Nat, Start(p, o, n)
      PROVE  EditInv'
  <2>1. /\ pc'[p] = FirstPoint(o, n) /\ op'[p] = o /\ left'[p] = n
        /\ \A q \in Proc \ {p} : pc'[q] = pc[q] /\ ~alone'[q]
        /\ alone'[p] => /\ \A r \in Proc \ {p} : ~Running(r)
                        /\ old'[p] = <<forward, prerouting, chains>> /\ want'[p] = n
        /\ UNCHANGED <<forward, prerouting, chains, hosts>>
    BY <1>3 DEF Start, Goto, ScriptTyped
  <2>2. ASSUME alone'[p] PROVE EditProgress(p)'
    <3>1. /\ Was(p)' = forward' /\ NatWas(p)' = prerouting' /\ Had(p)' = chains'
          /\ want'[p] = n
      BY <2>1, <2>2 DEF Was, NatWas, Had
    <3>2. Pairs(0, Had(p)') \o forward' = forward'
      BY <2>1, <3>1, PairFacts DEF ScriptTyped, ChainsTyped
    <3>3. CASE o = "PORT_TRIGGER_RESET"
      BY <2>1, <3>1, <3>3
      DEF FirstPoint, EditProgress, ResetProgress, JumpProgress, ChainsProgress, Exact
    <3>4. CASE o = "setup"
      BY <2>1, <3>1, <3>4
      DEF FirstPoint, EditProgress, ResetProgress, JumpProgress, ChainsProgress, Exact
    <3>5. CASE o = "remove"
      BY <2>1, <3>1, <3>5
      DEF FirstPoint, EditProgress, ResetProgress, JumpProgress, ChainsProgress, Exact
    <3>6. CASE o = "update_ip"
      BY <2>1, <3>1, <3>6 DEF FirstPoint, EditProgress, ResetProgress, JumpProgress,
         ChainsProgress, Exact, ExpectedForward
    <3>7. CASE o = "update_wan" /\ n > 0
      <4>1. want'[p] - left'[p] = 0 /\ left'[p] <= want'[p]
        BY <2>1, <3>1
      <4>2. Placed(p)' = forward'
        BY <2>1, <3>1, <3>2, <3>7, <4>1 DEF Placed
      <4> QED
        BY <2>1, <3>1, <3>7, <4>1, <4>2
        DEF FirstPoint, EditProgress, ResetProgress, JumpProgress, ChainsProgress, Exact
    <3>8. CASE o = "update_wan" /\ ~(n > 0)
      <4>1. n = 0
        BY <3>8
      <4>2. Exact(p)'
        BY <2>1, <3>1, <3>2, <3>8, <4>1
        DEF Exact, ExpectedForward, ExpectedPrerouting, ExpectedChains
      <4> QED
        BY <2>1, <3>1, <3>8, <4>1, <4>2
        DEF FirstPoint, EditProgress, ResetProgress, JumpProgress, ChainsProgress
    <3> QED
      BY <3>3, <3>4, <3>5, <3>6, <3>7, <3>8 DEF Command
  <2>3. alone'[p] => \A q \in Proc \ {p} : ~Running(q)'
    BY <2>1 DEF Running
  <2> QED
    BY <2>1, <2>2, <2>3 DEF EditInv
<1>4. ASSUME NEW p \in Proc, Work(p), ~Finish(p) PROVE EditInv'
  <2>1. alone' = alone /\ \A q \in Proc \ {p} : pc'[q] = pc[q]
    BY <1>4, WorkFrame DEF remembered, ScriptTyped
  <2>2. Running(p)
    BY <1>4 DEF Work, ListTriggers, DeleteTrigger, ListNatTriggers, DeleteNatTrigger,
       InsertTrigger, AppendNatTrigger, New, NewIn, NewOut, CheckHead, FindJump, DeleteJump,
       Flush, FlushIn, FlushOut, Drop, DropIn, DropOut, InsertIn, InsertOut, FillIn, FillOut,
       SkipHost, LastHost, Goto, Running
  <2>3. \A q \in Proc \ {p} : ~alone'[q]
    BY <2>1, <2>2 DEF EditInv
  <2>4. alone[p] => EditProgress(p)'
    BY <1>4, ResetEdits, JumpEdits DEF EditInv
  <2>5. alone[p] => \A q \in Proc \ {p} : ~Running(q)'
    BY <2>1 DEF EditInv, Running
  <2> QED
    BY <2>1, <2>3, <2>4, <2>5 DEF EditInv
<1>5. ASSUME NEW p \in Proc, Finish(p) PROVE EditInv'
  <2>1. /\ Running(p) /\ ~alone'[p]
        /\ \A q \in Proc \ {p} : alone'[q] = alone[q]
    BY <1>5 DEF Finish, Goto, Running, ScriptTyped, RememberedTyped
  <2> QED
    BY <2>1 DEF EditInv
<1> QED
  BY <1>1, <1>2, <1>3, <1>4, <1>5, ForwardChainAssumption DEF ChainNext, Work

\* For any number of scripts, triggers, interfaces and hosts, and whatever overlapping
\* scripts have left behind (jumps to one accounting chain, one chain without the other,
\* chains with rules that nothing jumps to): a script that no other one overlapped has
\* made exactly its edit of both chains of rules and of the accounting chains.  Numbers
\* listed before stay right while the rules are deleted from the highest down, and every
\* rule of the others keeps its order.
THEOREM ChainEditsAreExact == ChainSpec => []EditIsExact
<1>1. ChainInit => EditInv
  BY DEF ChainInit, EditInv
<1>2. EditInv => EditIsExact
  BY DEF EditInv, EditProgress, Exact, EditIsExact, Was, NatWas, Had
<1> QED
  BY <1>1, <1>2, BootTyped, NextScriptTyped, NextEditInv, PTL DEF ChainSpec
=============================================================================
