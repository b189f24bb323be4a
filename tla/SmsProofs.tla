----------------------------- MODULE SmsProofs -----------------------------
(***************************************************************************)
(* Proofs about the messages page, for any number of messages and rows and *)
(* whatever interferes.                                                    *)
(***************************************************************************)
EXTENDS Sms, FiniteSetTheorems, TLAPS

\* TypeOK, by what is on the device, in the list and in the room, and by what
\* is true or false.
DeviceTyped ==
  /\ world \in Worlds
  /\ box \in [Id -> Menu \cup {Nowhere}] /\ made \in Id
  /\ contact \in [Id -> Nat]

ListTyped ==
  /\ menu \in Menu
  /\ rows \subseteq Id /\ ticked \subseteq rows /\ (pc = "list" => ticked = {})
  /\ pages \in Nat /\ sel \in Nat \ {0}
  /\ pc \in {"idle", "list"} /\ job \in [page : Nat \ {0}, init : BOOLEAN]
  /\ deleted \subseteq Id /\ draft \in Id \cup {0} /\ open \in Id \cup {0}

Flags ==
  /\ sim \in BOOLEAN /\ bSimPresent \in BOOLEAN /\ buttons \in BOOLEAN
  /\ room \in BOOLEAN /\ recvShown \in BOOLEAN /\ sendShown \in BOOLEAN
  /\ strayed \in BOOLEAN

Typed == DeviceTyped /\ ListTyped /\ Flags

\* The text area keeps an id among the drafts only, and with the button Send it
\* is that of the draft in the room.
SendInv ==
  /\ draft # 0 => menu = "mSmsDrafts"
  /\ room /\ recvShown => menu # "mSmsDrafts" /\ open # 0
  /\ room /\ sendShown /\ draft # 0 => draft = open
  /\ ~strayed

\* Ids are given out once, so that the place of a deleted message stays empty.
MadeInv ==
  /\ \A i \in Id : box[i] # Nowhere => i <= made
  /\ \A i \in rows : i <= made
  /\ \A i \in deleted : i <= made
  /\ draft <= made

\* What was deleted was seen in the list, which the room hides.
GoneInv ==
  /\ room => deleted = {}
  /\ "narrow" \notin world => DeletedMeansGone

IInv == Typed /\ SendInv /\ MadeInv /\ GoneInv

-----------------------------------------------------------------------------
LEMMA ListFinite ==
  ASSUME NEW m
  PROVE  IsFiniteSet(In(m)) /\ Cardinality(In(m)) \in Nat
<1>1. IsFiniteSet(Id)
  BY FS_Interval, SmsAssumption DEF Id
<1>2. In(m) \subseteq Id
  BY DEF In
<1> QED
  BY <1>1, <1>2, FS_Subset, FS_CardinalityType

LEMMA PageCountTyped == PageCount \in Nat
<1> DEFINE c == Cardinality(In(menu))
<1>1. c \in Nat
  BY ListFinite
<1> HIDE DEF c
<1>2. (c + PageCap - 1) \div PageCap \in Nat
  BY <1>1, SmsAssumption
<1> QED
  BY <1>2 DEF PageCount, c

LEMMA PageRows ==
  ASSUME NEW n
  PROVE  Page(n) \subseteq Id /\ \A i \in Page(n) : box[i] = menu
BY DEF Page, In

LEMMA OutcomeCases ==
  ASSUME NEW p \in BOOLEAN, NEW o \in Outcome(p)
  PROVE  /\ o[1] \in BOOLEAN /\ o[2] \in BOOLEAN
         /\ o[1] => p /\ o[2]
         /\ o[2] /\ "lost" \notin world => o[1]
<1>1. \/ o = <<TRUE, TRUE>> /\ p
      \/ o = <<FALSE, FALSE>>
      \/ o = <<FALSE, TRUE>> /\ "lost" \in world
  BY DEF Outcome
<1>2. /\ <<TRUE, TRUE>>[1] = TRUE /\ <<TRUE, TRUE>>[2] = TRUE
      /\ <<FALSE, FALSE>>[1] = FALSE /\ <<FALSE, FALSE>>[2] = FALSE
      /\ <<FALSE, TRUE>>[1] = FALSE /\ <<FALSE, TRUE>>[2] = TRUE
  OBVIOUS
<1> QED
  BY <1>1, <1>2, Zenon

\* Nothing on the device moves.
LEMMA DeviceKept ==
  ASSUME IInv, UNCHANGED device, rows' \subseteq rows \cup {i \in Id : box[i] # Nowhere},
         deleted' \subseteq deleted, room' => deleted' = {}, draft' \in rows \cup {draft, 0}
  PROVE  MadeInv' /\ GoneInv'
<1>1. made \in Nat /\ \A i \in rows : i <= made
  BY DEF IInv, Typed, DeviceTyped, MadeInv, Id
<1>2. MadeInv'
  <2>1. draft' <= made'
    BY <1>1 DEF IInv, MadeInv, device
  <2>2. \A i \in rows' : i <= made'
    BY <1>1 DEF IInv, MadeInv, device
  <2> QED
    BY <2>1, <2>2 DEF IInv, MadeInv, device
<1>3. GoneInv'
  BY DEF IInv, GoneInv, DeletedMeansGone, device
<1> QED
  BY <1>2, <1>3

-----------------------------------------------------------------------------
(* The list.                                                               *)

LEMMA LoadTyped ==
  ASSUME IInv, Load(1, TRUE) \/ UNCHANGED <<pc, job>>
  PROVE  pc' \in {"idle", "list"} /\ job' \in [page : Nat \ {0}, init : BOOLEAN]
<1>1. CASE Load(1, TRUE)
  BY <1>1 DEF Load
<1>2. CASE UNCHANGED <<pc, job>>
  BY <1>2 DEF IInv, Typed, ListTyped
<1> QED
  BY <1>1, <1>2

LEMMA DeviceSame ==
  ASSUME DeviceTyped, UNCHANGED device
  PROVE  DeviceTyped'
BY DEF DeviceTyped, device

LEMMA OpenIInv ==
  ASSUME IInv, NEW m \in Menu, Open(m)
  PROVE  IInv'
<1>1. rows' = {} /\ ticked' = {} /\ pc' = "list"
      /\ job' \in [page : Nat \ {0}, init : BOOLEAN]
  BY DEF Open, Load
<1>2. bSimPresent' \in BOOLEAN
  BY DEF Open, IInv, Typed, Flags
<1>3. MadeInv' /\ GoneInv'
  BY <1>1, DeviceKept DEF Open
<1>4. Typed'
  <2>1. DeviceTyped'
    BY DeviceSame DEF Open, IInv, Typed
  <2>2. ListTyped'
    BY <1>1 DEF Open, ListTyped
  <2>3. Flags'
    BY <1>2, Zenon DEF Open, device, IInv, Typed, Flags
  <2> QED
    BY <2>1, <2>2, <2>3 DEF Typed
<1>5. SendInv'
  BY DEF Open, IInv, SendInv
<1> QED
  BY <1>3, <1>4, <1>5 DEF IInv

LEMMA ListIInv ==
  ASSUME IInv, List
  PROVE  IInv'
<1>1. rows' \subseteq Id /\ rows' \subseteq rows \cup {i \in Id : box[i] # Nowhere}
  <2>1. rows' \in {rows, {}, Page(job.page)}
    BY DEF List
  <2>2. \A i \in Page(job.page) : i \in Id /\ box[i] # Nowhere
    BY PageRows DEF IInv, Typed, ListTyped, Menu, Nowhere
  <2> QED
    BY <2>1, <2>2 DEF IInv, Typed, ListTyped
<1>2. pages' \in Nat /\ sel' \in Nat \ {0}
  <2>1. pages' \in {pages, 0, PageCount} /\ sel' \in {sel, job.page}
    BY DEF List
  <2> QED
    BY <2>1, PageCountTyped DEF IInv, Typed, ListTyped
<1>3. MadeInv' /\ GoneInv'
  <2>1. UNCHANGED <<device, deleted, draft, room>>
    BY DEF List, ghosts, compose
  <2> QED
    BY <1>1, <2>1, DeviceKept DEF IInv, GoneInv
<1>4. ticked' \subseteq rows'
  BY DEF List, IInv, Typed, ListTyped
<1>5. Typed'
  <2>1. DeviceTyped'
    BY DeviceSame DEF List, IInv, Typed
  <2>2. ListTyped'
    BY <1>1, <1>2, <1>4 DEF List, IInv, Typed, ListTyped, compose, ghosts, NoJob
  <2>3. Flags'
    BY Zenon DEF List, device, IInv, Typed, Flags, compose, ghosts
  <2> QED
    BY <2>1, <2>2, <2>3 DEF Typed
<1>6. SendInv'
  BY DEF List, IInv, SendInv, compose, ghosts
<1> QED
  BY <1>3, <1>5, <1>6 DEF IInv

LEMMA PickIInv ==
  ASSUME IInv, (\E n \in 1..pages : SelectPage(n)) \/ (\E set \in SUBSET rows : Tick(set))
  PROVE  IInv'
<1>1. ASSUME NEW n \in 1..pages, SelectPage(n)
      PROVE  IInv'
  <2>1. n \in Nat \ {0}
    BY DEF IInv, Typed, ListTyped
  <2>2. DeviceTyped'
    BY <1>1, DeviceSame DEF SelectPage, IInv, Typed
  <2>3. ListTyped'
    BY <1>1, <2>1 DEF SelectPage, Load, IInv, Typed, ListTyped, compose
  <2>4. Flags'
    BY <1>1, Zenon DEF SelectPage, device, compose, IInv, Typed, Flags
  <2>5. SendInv'
    BY <1>1 DEF SelectPage, IInv, SendInv, compose
  <2>6. MadeInv' /\ GoneInv'
    BY <1>1, DeviceKept DEF SelectPage, Load, compose
  <2> QED
    BY <2>2, <2>3, <2>4, <2>5, <2>6 DEF IInv, Typed
<1>2. ASSUME NEW set \in SUBSET rows, Tick(set)
      PROVE  IInv'
  <2>1. DeviceTyped'
    BY <1>2, DeviceSame DEF Tick, IInv, Typed
  <2>2. ListTyped'
    BY <1>2 DEF Tick, IInv, Typed, ListTyped, compose
  <2>3. Flags'
    BY <1>2, Zenon DEF Tick, device, compose, IInv, Typed, Flags
  <2>4. SendInv'
    BY <1>2 DEF Tick, IInv, SendInv, compose
  <2>5. MadeInv' /\ GoneInv'
    BY <1>2, DeviceKept DEF Tick, compose
  <2> QED
    BY <2>1, <2>2, <2>3, <2>4, <2>5 DEF IInv, Typed
<1> QED
  BY <1>1, <1>2

\* What is reported as gone is gone: without a lost answer the request was
\* carried out, and in the wide table it names the ticked messages.
LEMMA DeleteIInv ==
  ASSUME IInv, Delete
  PROVE  IInv'
<1>1. PICK o \in Outcome(TRUE) :
        /\ box' = IF o[1] THEN [i \in Id |-> IF i \in Selected THEN Nowhere ELSE box[i]]
                  ELSE box
        /\ deleted' = IF o[2] THEN ticked ELSE {}
        /\ IF o[2] THEN Load(1, TRUE) ELSE ticked' = {} /\ UNCHANGED <<rows, pc, job>>
  BY DEF Delete
<1>2. \A i \in Id : box'[i] \in {box[i], Nowhere}
  BY <1>1 DEF IInv, Typed, DeviceTyped
<1>3. rows' \subseteq rows /\ ticked' = {} /\ deleted' \subseteq ticked
  BY <1>1 DEF Load
<1>4. DeviceTyped'
  BY <1>1 DEF Delete, IInv, Typed, DeviceTyped
<1>5. ListTyped'
  <2>1. pc' \in {"idle", "list"} /\ job' \in [page : Nat \ {0}, init : BOOLEAN]
    BY <1>1, LoadTyped
  <2> QED
    BY <1>3, <2>1 DEF Delete, IInv, Typed, ListTyped, compose
<1>6. Flags'
  BY Zenon DEF Delete, compose, IInv, Typed, Flags
<1>7. SendInv'
  BY DEF Delete, compose, IInv, SendInv
<1>8. MadeInv'
  BY <1>2, <1>3 DEF Delete, compose, IInv, Typed, ListTyped, MadeInv
<1>9. GoneInv'
  <2>1. room' => deleted' = {}
    BY DEF Delete, compose
  <2>2. ASSUME "narrow" \notin world, "lost" \notin world, NEW i \in deleted'
        PROVE  box'[i] = Nowhere
    <3>1. o[2] /\ i \in ticked
      BY <1>1, <2>2
    <3>2. o[1]
      BY <2>2, <3>1, OutcomeCases
    <3> QED
      BY <1>1, <2>2, <3>1, <3>2 DEF Selected, IInv, Typed, ListTyped
  <2> QED
    BY <2>1, <2>2 DEF Delete, GoneInv, DeletedMeansGone
<1> QED
  BY <1>4, <1>5, <1>6, <1>7, <1>8, <1>9 DEF IInv, Typed

\* Copies are numbered on.
LEMMA CopiedBoxes ==
  ASSUME IInv, NEW set \in SUBSET Id, Copied(set)
  PROVE  /\ box' \in [Id -> Menu \cup {Nowhere}] /\ made' \in Id /\ made <= made'
         /\ \A i \in Id : box'[i] # Nowhere => i <= made'
<1>1. Cardinality(set) \in Nat
  <2>1. IsFiniteSet(Id)
    BY FS_Interval, SmsAssumption DEF Id
  <2> QED
    BY <2>1, FS_Subset, FS_CardinalityType
<1> DEFINE n == IF Cardinality(set) > MaxId - made THEN MaxId - made ELSE Cardinality(set)
<1>2. n \in Nat /\ made + n \in Id /\ made \in Id
  BY <1>1, SmsAssumption DEF IInv, Typed, DeviceTyped, Id
<1>3. /\ box' = [i \in Id |-> IF i \in made + 1..made + n THEN OtherInbox ELSE box[i]]
      /\ made' = made + n
  BY DEF Copied
<1> HIDE DEF n
<1>4. box \in [Id -> Menu \cup {Nowhere}] /\ \A i \in Id : box[i] # Nowhere => i <= made
  BY DEF IInv, Typed, DeviceTyped, MadeInv
<1>5. OtherInbox \in Menu
  BY DEF OtherInbox, Menu
<1>6. made <= made'
  BY <1>2, <1>3 DEF Id
<1>7. \A i \in Id : box'[i] # Nowhere => i <= made'
  BY <1>2, <1>3, <1>4 DEF Id
<1>8. box' \in [Id -> Menu \cup {Nowhere}]
  BY <1>3, <1>4, <1>5
<1> QED
  BY <1>2, <1>3, <1>6, <1>7, <1>8

LEMMA CopyMoveIInv ==
  ASSUME IInv, NEW moves \in BOOLEAN, CopyMove(moves)
  PROVE  IInv'
<1>1. /\ box' \in [Id -> Menu \cup {Nowhere}] /\ made' \in Id /\ made <= made'
      /\ \A i \in Id : box'[i] # Nowhere => i <= made'
  <2>1. /\ box \in [Id -> Menu \cup {Nowhere}] /\ made \in Id /\ made <= made
        /\ \A i \in Id : box[i] # Nowhere => i <= made
    BY DEF IInv, Typed, DeviceTyped, MadeInv, Id
  <2>2. CASE UNCHANGED <<box, made>>
    BY <2>1, <2>2
  <2>3. CASE /\ box' = [i \in Id |-> IF i \in Selected \cap In(menu) THEN OtherInbox ELSE box[i]]
             /\ made' = made
    <3>1. \A i \in In(menu) : box[i] # Nowhere
      BY DEF In, IInv, Typed, ListTyped, Menu, Nowhere
    <3>2. OtherInbox \in Menu
      BY DEF OtherInbox, Menu
    <3>3. \A i \in Id : box'[i] # Nowhere => i <= made'
      BY <2>1, <2>3, <3>1
    <3>4. box' \in [Id -> Menu \cup {Nowhere}]
      BY <2>1, <2>3, <3>2
    <3> QED
      BY <2>1, <2>3, <3>3, <3>4
  <2>4. CASE Copied(Selected \cap In(menu))
    <3>1. Selected \cap In(menu) \in SUBSET Id
      BY DEF In
    <3> QED
      BY <2>4, <3>1, CopiedBoxes
  <2> QED
    BY <2>2, <2>3, <2>4 DEF CopyMove
<1>2. /\ \/ rows' = rows /\ ticked' = {} /\ UNCHANGED <<pc, job>>
         \/ Load(1, TRUE)
      /\ deleted' = {} /\ UNCHANGED <<world, contact, sim, menu, bSimPresent, pages, sel>>
      /\ UNCHANGED <<compose, strayed>> /\ buttons' = FALSE
  BY DEF CopyMove
<1>3. DeviceTyped'
  BY <1>1, <1>2 DEF IInv, Typed, DeviceTyped
<1>4. ListTyped'
  <2>1. pc' \in {"idle", "list"} /\ job' \in [page : Nat \ {0}, init : BOOLEAN]
    BY <1>2, LoadTyped
  <2>2. rows' \subseteq rows /\ ticked' = {}
    BY <1>2 DEF Load
  <2> QED
    BY <1>2, <2>1, <2>2 DEF IInv, Typed, ListTyped, compose
<1>5. Flags'
  BY <1>2, Zenon DEF compose, IInv, Typed, Flags
<1>6. SendInv'
  BY <1>2 DEF compose, IInv, SendInv
<1>7. MadeInv' /\ GoneInv'
  <2>1. rows' \subseteq rows
    BY <1>2 DEF Load
  <2>2. \A i \in rows' : i <= made'
    BY <1>1, <2>1 DEF IInv, Typed, DeviceTyped, ListTyped, MadeInv, Id
  <2> QED
    <3>1. draft' <= made'
      BY <1>1, <1>2 DEF IInv, Typed, DeviceTyped, ListTyped, MadeInv, compose, Id
    <3> QED
      BY <1>1, <1>2, <2>2, <3>1 DEF MadeInv, GoneInv, DeletedMeansGone
<1> QED
  BY <1>3, <1>4, <1>5, <1>6, <1>7 DEF IInv, Typed

-----------------------------------------------------------------------------
(* The room.                                                               *)

LEMMA ReadIInv ==
  ASSUME IInv, NEW i \in Id, Read(i)
  PROVE  IInv'
<1>1. /\ UNCHANGED <<device, menu, bSimPresent, table, pc, job, strayed>> /\ deleted' = {}
      /\ i \in rows
      /\ \/ /\ room' = TRUE /\ open' = i /\ sendShown' = TRUE
            /\ recvShown' = (menu # "mSmsDrafts")
            /\ draft' = IF menu = "mSmsDrafts" THEN i ELSE draft
         \/ UNCHANGED compose
  BY DEF Read
<1>2. DeviceTyped'
  BY <1>1, DeviceSame DEF IInv, Typed
<1>3. ListTyped'
  BY <1>1 DEF table, compose, IInv, Typed, ListTyped
<1>4. Flags'
  BY <1>1, Zenon DEF device, table, compose, IInv, Typed, Flags
<1>5. SendInv'
  <2>1. i # 0
    BY DEF Id
  <2>2. CASE UNCHANGED compose
    BY <1>1, <2>2, Zenon DEF compose, IInv, SendInv
  <2>3. CASE /\ open' = i /\ recvShown' = (menu # "mSmsDrafts")
             /\ draft' = IF menu = "mSmsDrafts" THEN i ELSE draft
    <3>1. draft' # 0 => menu = "mSmsDrafts" /\ draft' = i
      BY <2>3 DEF IInv, SendInv
    <3> QED
      BY <1>1, <2>1, <2>3, <3>1, Zenon DEF IInv, SendInv
  <2> QED
    BY <1>1, <2>2, <2>3
<1>6. MadeInv' /\ GoneInv'
  BY <1>1, DeviceKept DEF table, compose
<1> QED
  BY <1>2, <1>3, <1>4, <1>5, <1>6 DEF IInv, Typed

LEMMA NewIInv ==
  ASSUME IInv, New \/ Forward
  PROVE  IInv'
<1>1. /\ UNCHANGED <<device, menu, bSimPresent, rows, ticked, pages, sel, draft, pc, job, strayed>>
      /\ open' = 0 /\ recvShown' = FALSE /\ buttons' \in {buttons, FALSE}
      /\ deleted' \in {deleted, {}}
  BY DEF New, Forward, table, ghosts
<1>2. DeviceTyped'
  BY <1>1, DeviceSame DEF IInv, Typed
<1>3. ListTyped'
  BY <1>1 DEF IInv, Typed, ListTyped
<1>4. Flags'
  BY <1>1, Zenon DEF New, Forward, device, table, IInv, Typed, Flags
<1>5. SendInv'
  BY <1>1 DEF New, Forward, IInv, SendInv
<1>6. MadeInv' /\ GoneInv'
  <2>1. room' => deleted' = {}
    BY DEF New, Forward, ghosts, IInv, GoneInv
  <2> QED
    BY <1>1, <2>1, DeviceKept
<1> QED
  BY <1>2, <1>3, <1>4, <1>5, <1>6 DEF IInv, Typed

LEMMA CancelIInv ==
  ASSUME IInv, Cancel
  PROVE  IInv'
<1>1. DeviceTyped'
  BY DeviceSame DEF Cancel, IInv, Typed
<1>2. ListTyped'
  BY DEF Cancel, Load, ghosts, IInv, Typed, ListTyped
<1>3. Flags'
  BY Zenon DEF Cancel, device, ghosts, IInv, Typed, Flags
<1>4. SendInv'
  BY DEF Cancel, ghosts, IInv, SendInv
<1>5. MadeInv' /\ GoneInv'
  BY DeviceKept DEF Cancel, Load, ghosts, compose
<1> QED
  BY <1>1, <1>2, <1>3, <1>4, <1>5 DEF IInv, Typed

\* A message sent or saved is a new one, or the draft in the room; nothing was
\* reported as deleted while the room is open.
LEMMA WriteIInv ==
  ASSUME IInv, Send \/ SaveDraft
  PROVE  IInv'
<1>1. /\ \/ UNCHANGED <<box, made>>
         \/ /\ draft # 0 /\ made' = made /\ draft \in Id
            /\ box' = [box EXCEPT ![draft] = "mSmsOutbox"]
         \/ /\ made < MaxId /\ made' = made + 1
            /\ \E m \in Menu : box' = [box EXCEPT ![made + 1] = m]
      /\ Load(1, TRUE) \/ UNCHANGED <<rows, ticked, pc, job>>
      /\ UNCHANGED <<world, contact, sim, menu, bSimPresent, buttons, pages, sel, draft,
                     recvShown, sendShown, open, deleted>>
      /\ room /\ room' \in {room, FALSE}
  <2>2. draft \in Id \cup {0}
    BY DEF IInv, Typed, ListTyped
  <2>3. "mSmsOutbox" \in Menu /\ "mSmsDrafts" \in Menu
    BY DEF Menu
  <2>4. CASE Send
    <3>1. PICK o \in Outcome(sim /\ (draft # 0 \/ made < MaxId)) :
            /\ IF ~o[1] THEN UNCHANGED <<box, made>>
               ELSE IF draft # 0
               THEN box' = [box EXCEPT ![draft] = "mSmsOutbox"] /\ made' = made
               ELSE box' = [box EXCEPT ![made + 1] = "mSmsOutbox"] /\ made' = made + 1
            /\ IF o[2] THEN room' = FALSE /\ Load(1, TRUE)
               ELSE UNCHANGED <<room, rows, ticked, pc, job>>
      BY <2>4 DEF Send
    <3>2. o[1] => draft # 0 \/ made < MaxId
      <4> DEFINE p == sim /\ (draft # 0 \/ made < MaxId)
      <4>1. o \in Outcome(p) /\ p \in BOOLEAN
        BY <3>1, Zenon
      <4> HIDE DEF p
      <4>2. o[1] => p
        BY <4>1, OutcomeCases
      <4> QED
        BY <4>2 DEF p
    <3> QED
      BY <2>2, <2>3, <2>4, <3>1, <3>2 DEF Send
  <2>5. CASE SaveDraft
    <3>1. PICK o \in Outcome(made < MaxId) :
            IF o[1]
            THEN /\ box' = [box EXCEPT ![made + 1] = "mSmsDrafts"]
                 /\ made' = made + 1
            ELSE UNCHANGED <<box, made>>
      BY <2>5 DEF SaveDraft
    <3>2. o[1] => made < MaxId
      <4> DEFINE p == made < MaxId
      <4>1. o \in Outcome(p) /\ p \in BOOLEAN
        BY <3>1
      <4> HIDE DEF p
      <4>2. o[1] => p
        BY <4>1, OutcomeCases
      <4> QED
        BY <4>2 DEF p
    <3> QED
      BY <2>3, <2>5, <3>1, <3>2 DEF SaveDraft
  <2> QED
    BY <2>4, <2>5
<1>2. /\ box \in [Id -> Menu \cup {Nowhere}] /\ made \in Id /\ rows \subseteq Id
      /\ \A i \in Id : box[i] # Nowhere => i <= made
      /\ draft <= made /\ \A i \in rows : i <= made
  BY DEF IInv, Typed, DeviceTyped, ListTyped, MadeInv
<1>3. /\ box' \in [Id -> Menu \cup {Nowhere}] /\ made' \in Id /\ made <= made'
      /\ \A i \in Id : box'[i] # Nowhere => i <= made'
  <2>1. CASE UNCHANGED <<box, made>>
    BY <1>2, <2>1 DEF Id
  <2>2. CASE draft # 0 /\ made' = made /\ draft \in Id /\ box' = [box EXCEPT ![draft] = "mSmsOutbox"]
    BY <1>2, <2>2 DEF Id, Menu
  <2>3. CASE /\ made < MaxId /\ made' = made + 1
             /\ \E m \in Menu : box' = [box EXCEPT ![made + 1] = m]
    BY <1>2, <2>3, SmsAssumption DEF Id
  <2> QED
    BY <1>1, <2>1, <2>2, <2>3
<1>4. rows' \subseteq rows /\ (ticked' = {} \/ UNCHANGED <<rows, ticked>>)
  BY <1>1 DEF Load
<1>5. DeviceTyped'
  BY <1>1, <1>3 DEF IInv, Typed, DeviceTyped
<1>6. ListTyped'
  <2>1. pc' \in {"idle", "list"} /\ job' \in [page : Nat \ {0}, init : BOOLEAN]
    BY <1>1, LoadTyped
  <2>2. ticked' \subseteq rows' /\ (pc' = "list" => ticked' = {})
    BY <1>1, <1>4 DEF Load, IInv, Typed, ListTyped
  <2> QED
    BY <1>1, <1>4, <2>1, <2>2 DEF IInv, Typed, ListTyped
<1>7. SendInv'
  <2>1. ~strayed'
    BY <1>1 DEF Send, SaveDraft, IInv, SendInv
  <2> QED
    BY <1>1, <2>1, Zenon DEF IInv, SendInv
<1>8. Flags'
  <2>1. strayed' \in BOOLEAN
    BY Zenon DEF Send, SaveDraft, IInv, Typed, Flags
  <2>2. room' \in BOOLEAN
    BY <1>1, Zenon DEF IInv, Typed, Flags
  <2> QED
    BY <1>1, <2>1, <2>2, Zenon DEF IInv, Typed, Flags
<1>9. MadeInv' /\ GoneInv'
  <2>1. deleted' = {}
    BY <1>1 DEF IInv, GoneInv
  <2>2. draft' <= made' /\ \A i \in rows' : i <= made'
    BY <1>1, <1>2, <1>3, <1>4 DEF IInv, Typed, ListTyped, MadeInv, Id
  <2> QED
    BY <1>3, <2>1, <2>2 DEF MadeInv, GoneInv, DeletedMeansGone
<1> QED
  BY <1>5, <1>6, <1>7, <1>8, <1>9 DEF IInv, Typed

-----------------------------------------------------------------------------
(* Everybody else.                                                         *)

\* A message that arrives has a new id; one that vanishes was there before.
LEMMA OthersIInv ==
  ASSUME IInv, (\E m \in Menu : Arrive(m)) \/ (\E i \in Id : OtherDeletes(i)) \/ SimChange
  PROVE  IInv'
<1>1. UNCHANGED <<world, contact, menu, bSimPresent, table, compose, pc, job, ghosts>>
  BY DEF Arrive, OtherDeletes, SimChange
<1>2. /\ box \in [Id -> Menu \cup {Nowhere}] /\ made \in Id /\ rows \subseteq Id
      /\ deleted \subseteq Id /\ draft \in Id \cup {0}
      /\ \A i \in Id : box[i] # Nowhere => i <= made
  BY DEF IInv, Typed, DeviceTyped, ListTyped, MadeInv
<1>3. /\ box' \in [Id -> Menu \cup {Nowhere}] /\ made' \in Id /\ made <= made'
      /\ \A i \in Id : box'[i] # Nowhere => i <= made'
      /\ \A i \in Id : i <= made /\ box[i] = Nowhere => box'[i] = Nowhere
  <2>1. CASE \E m \in Menu : Arrive(m)
    <3>1. made < MaxId /\ made' = made + 1 /\ \E m \in Menu : box' = [box EXCEPT ![made + 1] = m]
      BY <2>1 DEF Arrive
    <3> QED
      BY <1>2, <3>1, SmsAssumption DEF Id
  <2>2. CASE \E i \in Id : OtherDeletes(i)
    <3>1. made' = made /\ \E i \in Id : box' = [box EXCEPT ![i] = Nowhere]
      BY <2>2 DEF OtherDeletes
    <3> QED
      BY <1>2, <3>1 DEF Id
  <2>3. CASE SimChange
    BY <1>2, <2>3 DEF SimChange, Id
  <2> QED
    BY <2>1, <2>2, <2>3
<1>4. DeviceTyped'
  BY <1>1, <1>3 DEF IInv, Typed, DeviceTyped
<1>5. ListTyped'
  BY <1>1 DEF table, compose, ghosts, IInv, Typed, ListTyped
<1>6. Flags'
  BY <1>1, Zenon DEF Arrive, OtherDeletes, SimChange, table, compose, ghosts, IInv, Typed, Flags
<1>7. SendInv'
  BY <1>1 DEF table, compose, ghosts, IInv, SendInv
<1>8. MadeInv'
  BY <1>1, <1>2, <1>3 DEF table, compose, ghosts, IInv, MadeInv, Id
<1>9. GoneInv'
  BY <1>1, <1>2, <1>3 DEF table, compose, ghosts, IInv, MadeInv, GoneInv, DeletedMeansGone
<1> QED
  BY <1>4, <1>5, <1>6, <1>7, <1>8, <1>9 DEF IInv, Typed

-----------------------------------------------------------------------------
(* The whole.                                                              *)

LEMMA InitIInv == Init => IInv
<1> SUFFICES ASSUME Init PROVE IInv
  OBVIOUS
<1>1. box \in [Id -> Menu \cup {Nowhere}] /\ made \in Id /\ contact \in [Id -> Nat]
  BY SmsAssumption DEF Init, Id, Menu
<1>2. DeviceTyped /\ ListTyped
  BY <1>1 DEF Init, DeviceTyped, ListTyped, Menu
<1>3. Flags
  BY Zenon DEF Init, Flags
<1>4. SendInv
  BY DEF Init, SendInv
<1>5. MadeInv /\ GoneInv
  BY DEF Init, MadeInv, GoneInv, DeletedMeansGone, Id
<1> QED
  BY <1>2, <1>3, <1>4, <1>5 DEF IInv, Typed

LEMMA NextIInv == IInv /\ [Next]_vars => IInv'
<1> SUFFICES ASSUME IInv, [Next]_vars PROVE IInv'
  OBVIOUS
<1>1. CASE UNCHANGED vars
  <2>1. DeviceTyped'
    BY <1>1, DeviceSame DEF vars, IInv, Typed
  <2>2. ListTyped' /\ SendInv'
    BY <1>1 DEF vars, table, compose, ghosts, IInv, Typed, ListTyped, SendInv
  <2>3. Flags'
    BY <1>1, Zenon DEF vars, device, table, compose, ghosts, IInv, Typed, Flags
  <2>4. MadeInv' /\ GoneInv'
    <3>1. UNCHANGED <<device, rows, deleted, room, draft>>
      BY <1>1 DEF vars, table, compose, ghosts
    <3> QED
      BY <3>1, DeviceKept DEF IInv, GoneInv
  <2> QED
    BY <2>1, <2>2, <2>3, <2>4 DEF IInv, Typed
<1>2. CASE Next
  BY <1>2, OpenIInv, ListIInv, PickIInv, DeleteIInv, CopyMoveIInv, ReadIInv, NewIInv,
    CancelIInv, WriteIInv, OthersIInv DEF Next
<1> QED
  BY <1>1, <1>2

LEMMA SmsInductive == Spec => []IInv
<1> QED
  BY InitIInv, NextIInv, PTL DEF Spec

\* Every variable has its type, whatever interferes with the page.
THEOREM TypeCorrect == Spec => []TypeOK
<1>1. IInv => TypeOK
  <2> SUFFICES ASSUME IInv PROVE TypeOK
    OBVIOUS
  <2>1. {sim, bSimPresent, buttons, room, recvShown, sendShown, strayed} \subseteq BOOLEAN
    BY Zenon DEF IInv, Typed, Flags
  <2> QED
    BY <2>1 DEF IInv, Typed, DeviceTyped, ListTyped, SendInv, TypeOK
<1> QED
  BY <1>1, SmsInductive, PTL

\* However the rooms of new, forwarded and opened messages follow each other, a
\* message goes out under the id of a draft only from that draft's room.
THEOREM SendsNameTheirDraft == Spec => []SendNamesOpenDraft
<1>1. IInv => SendNamesOpenDraft
  BY DEF IInv, SendInv, SendNamesOpenDraft
<1> QED
  BY <1>1, SmsInductive, PTL

\* In the wide table a delete reported as done has removed what was ticked, while
\* others send, delete and change the SIM card.  (In the narrow table it has not,
\* as the run on that table shows.)
THEOREM DeletesAreReal == Spec => []("narrow" \notin world => DeletedMeansGone)
<1>1. IInv => ("narrow" \notin world => DeletedMeansGone)
  BY DEF IInv, GoneInv
<1> QED
  BY <1>1, SmsInductive, PTL
=============================================================================
