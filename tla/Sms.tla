-------------------------------- MODULE Sms --------------------------------
(***************************************************************************)
(* The messages page (sms.js): one browser's view of an inbox on the       *)
(* device or the SIM card, the outbox or the drafts, and the room in which *)
(* a message is read, forwarded, written, saved or sent.  Handlers run to  *)
(* their next synchronous request; a step is one request, and messages may *)
(* arrive, vanish or lose their SIM card in between.  As in PhoneBook, an  *)
(* answer that never came compares equal to 0 and counts as success.       *)
(***************************************************************************)
EXTENDS Naturals, FiniteSets

CONSTANTS
  PageCap,     \* messages per page (the device's)
  MaxId,       \* bound: messages ever made
  Worlds       \* what may interfere, for each kind of execution: "lost" (requests
               \* and answers), "others" (browsers, senders, the SIM card), and
               \* "narrow" for the table of narrow screens

ASSUME SmsAssumption ==
  /\ PageCap \in Nat \ {0} /\ MaxId \in Nat \ {0, 1, 2}
  /\ Worlds # {} /\ Worlds \subseteq SUBSET {"lost", "others", "narrow"}

VARIABLES
  world,                \* what may interfere in this execution
  box, made, contact,   \* device: where each message is, ids given out, and
                        \* the phone book index of each sender
  sim,                  \* device: is there a SIM card?
  menu, bSimPresent,    \* which list is open; the SIM card when it was opened
  rows, ticked,         \* the table and its ticked rows
  buttons,              \* are Delete (and Copy, Move) visible?
  pages, sel,           \* page links and the selected one
  room,                 \* is the room open instead of the list?
  draft,                \* attribute "name" of txtSmsContent (0: none)
  recvShown, sendShown, \* divRecvSmsContent and btnSend
  pc, job,              \* control point of the running handler, its arguments
  deleted,              \* ticked messages of a delete reported as done
  open, strayed         \* history: the message in the room (0: a new one), was
                        \* a send made under the id of another one?

table == <<rows, ticked, buttons, pages, sel>>
compose == <<room, draft, recvShown, sendShown, open>>
device == <<world, box, made, contact, sim>>
ghosts == <<deleted, strayed>>
vars == <<device, menu, bSimPresent, table, compose, pc, job, ghosts>>

-----------------------------------------------------------------------------
Id == 1..MaxId
Menu == {"mDeviceInbox", "mSmsOutbox", "mSimInbox", "mSmsDrafts"}
Inbox == {"mDeviceInbox", "mSimInbox"}
Nowhere == "nowhere"

In(m) == {i \in Id : box[i] = m}

\* Newest first, by pages.
Page(n) ==
  {i \in In(menu) : Cardinality({j \in In(menu) : j > i}) \div PageCap = n - 1}
PageCount == (Cardinality(In(menu)) + PageCap - 1) \div PageCap

\* Outcomes of a request: was it carried out, and does the page see success?
Outcome(possible) ==
  (IF possible THEN {<<TRUE, TRUE>>} ELSE {})
    \cup {<<FALSE, FALSE>>}
    \cup (IF "lost" \in world THEN {<<FALSE, TRUE>>} ELSE {})

NoJob == [page |-> 1, init |-> FALSE]

\* Mutant of Selected: the last id goes with the comma behind it.
SelectedButLast ==
  {i \in ticked : \E j \in ticked : j > i}

\* GetSelSmsId: the third cell to the left of the tick box.  In the narrow
\* table, which has no date, it is the sender's, whose id is the contact's.
Selected == IF "narrow" \in world THEN {contact[i] : i \in ticked} ELSE ticked

-----------------------------------------------------------------------------
(* The list *)

Load(n, init) ==
  /\ rows' = {} /\ ticked' = {}
  /\ pc' = "list"
  /\ job' = [page |-> n, init |-> init]

\* LoadWebPage makes the page anew; GetSimStatus is its first request.
Open(m) ==
  /\ pc = "idle"
  /\ menu' = m
  /\ \E known \in BOOLEAN :
       (~known => "lost" \in world) /\ bSimPresent' = (sim /\ known)
  /\ Load(1, TRUE)
  /\ buttons' = FALSE /\ pages' = 0 /\ sel' = 1
  /\ room' = FALSE /\ draft' = 0 /\ open' = 0
  /\ recvShown' = TRUE /\ sendShown' = TRUE
  /\ deleted' = {}
  /\ UNCHANGED <<device, strayed>>

\* UpdateSmsList.  The first load leaves when the device reports an error; a
\* lost answer clears the page links.
List ==
  /\ pc = "list"
  /\ pc' = "idle" /\ job' = NoJob
  /\ IF menu = "mSimInbox" /\ ~bSimPresent
     THEN UNCHANGED <<rows, pages, sel>>
     ELSE \E o \in Outcome(menu # "mSimInbox" \/ sim) :
            /\ rows' = IF o[1] THEN Page(job.page) ELSE {}
            /\ IF job.init /\ o[2]
               THEN pages' = (IF o[1] THEN PageCount ELSE 0) /\ sel' = job.page
               ELSE UNCHANGED <<pages, sel>>
  /\ UNCHANGED <<device, menu, bSimPresent, ticked, buttons, compose, ghosts>>

SelectPage(n) ==
  /\ pc = "idle" /\ ~room /\ n \in 1..pages
  /\ sel' = n /\ buttons' = FALSE
  /\ Load(n, FALSE)
  /\ deleted' = {}
  /\ UNCHANGED <<device, menu, bSimPresent, pages, compose, strayed>>

Tick(set) ==
  /\ pc = "idle" /\ ~room
  /\ ticked' = set
  /\ buttons' = (set # {})
  /\ deleted' = {}
  /\ UNCHANGED <<device, menu, bSimPresent, rows, pages, sel, compose, pc, job,
                 strayed>>

\* The buttons are not hidden by everything that empties the table, so
\* ticked may be empty here; the request then names no message.
Delete ==
  /\ pc = "idle" /\ ~room /\ buttons
  /\ buttons' = FALSE
  /\ \E o \in Outcome(TRUE) :
       /\ box' = IF o[1] THEN [i \in Id |-> IF i \in Selected THEN Nowhere ELSE box[i]]
                 ELSE box
       /\ deleted' = IF o[2] THEN ticked ELSE {}
       /\ IF o[2] THEN Load(1, TRUE) ELSE ticked' = {} /\ UNCHANGED <<rows, pc, job>>
  /\ UNCHANGED <<world, made, contact, sim, menu, bSimPresent, pages, sel, compose,
                 strayed>>

OtherInbox == IF menu = "mSimInbox" THEN "mDeviceInbox" ELSE "mSimInbox"

\* Copies get new ids; as many as still fit.
Copied(set) ==
  LET n == IF Cardinality(set) > MaxId - made THEN MaxId - made
           ELSE Cardinality(set) IN
  /\ box' = [i \in Id |-> IF i \in made + 1..made + n THEN OtherInbox ELSE box[i]]
  /\ made' = made + n

\* CopySMS, MoveSMS: the list is read again whatever the answer.
CopyMove(moves) ==
  /\ pc = "idle" /\ ~room /\ buttons /\ menu \in Inbox
  /\ buttons' = FALSE
  /\ IF menu = "mDeviceInbox" /\ ~bSimPresent
     THEN ticked' = {} /\ UNCHANGED <<box, made, rows, pc, job>>
     ELSE /\ \E o \in Outcome(sim) :
               IF ~o[1] THEN UNCHANGED <<box, made>>
               ELSE IF moves
               THEN /\ box' = [i \in Id |-> IF i \in Selected \cap In(menu)
                                            THEN OtherInbox ELSE box[i]]
                    /\ made' = made
               ELSE Copied(Selected \cap In(menu))
          /\ Load(1, TRUE)
  /\ deleted' = {}
  /\ UNCHANGED <<world, contact, sim, menu, bSimPresent, pages, sel, compose, strayed>>

-----------------------------------------------------------------------------
(* The room *)

\* A click on a row; for a draft, its id is kept in the text area.
Read(i) ==
  /\ pc = "idle" /\ ~room /\ i \in rows
  /\ \E o \in Outcome(box[i] = menu) :
       IF o[2]
       THEN /\ room' = TRUE /\ open' = i /\ sendShown' = TRUE
            /\ recvShown' = (menu # "mSmsDrafts")
            /\ draft' = IF menu = "mSmsDrafts" THEN i ELSE draft
       ELSE UNCHANGED compose
  /\ deleted' = {}
  /\ UNCHANGED <<device, menu, bSimPresent, table, pc, job, strayed>>

\* Mutant of New: a draft can be sent as soon as it is begun.
NewKeepsSend ==
  /\ pc = "idle" /\ ~room
  /\ room' = TRUE /\ open' = 0
  /\ recvShown' = FALSE /\ buttons' = FALSE /\ deleted' = {}
  /\ UNCHANGED <<device, menu, bSimPresent, rows, ticked, pages, sel, draft,
                 sendShown, pc, job, strayed>>

\* btnNew: the id kept in the text area stays, but a new draft has no Send.
New ==
  /\ pc = "idle" /\ ~room
  /\ room' = TRUE /\ open' = 0
  /\ recvShown' = FALSE /\ buttons' = FALSE
  /\ sendShown' = (menu # "mSmsDrafts")
  /\ deleted' = {}
  /\ UNCHANGED <<device, menu, bSimPresent, rows, ticked, pages, sel, draft, pc, job,
                 strayed>>

Forward ==
  /\ pc = "idle" /\ room /\ recvShown
  /\ recvShown' = FALSE /\ open' = 0
  /\ UNCHANGED <<device, menu, bSimPresent, table, room, draft, sendShown, pc, job,
                 ghosts>>

\* The list comes back as it was asked for last, the buttons as they were.
Cancel ==
  /\ pc = "idle" /\ room
  /\ room' = FALSE
  /\ Load(sel, FALSE)
  /\ UNCHANGED <<device, menu, bSimPresent, buttons, pages, sel, draft, recvShown,
                 sendShown, open, ghosts>>

\* The device sends the draft of that id, or a new message.
Send ==
  /\ pc = "idle" /\ room /\ sendShown /\ bSimPresent
  /\ \E o \in Outcome(sim /\ (draft # 0 \/ made < MaxId)) :
       /\ IF ~o[1] THEN UNCHANGED <<box, made>>
          ELSE IF draft # 0
          THEN box' = [box EXCEPT ![draft] = "mSmsOutbox"] /\ made' = made
          ELSE box' = [box EXCEPT ![made + 1] = "mSmsOutbox"] /\ made' = made + 1
       /\ IF o[2] THEN room' = FALSE /\ Load(1, TRUE)
          ELSE UNCHANGED <<room, rows, ticked, pc, job>>
  /\ strayed' = (strayed \/ (draft # 0 /\ draft # open))
  /\ UNCHANGED <<world, contact, sim, menu, bSimPresent, buttons, pages, sel, draft,
                 recvShown, sendShown, open, deleted>>

\* divNewSmsContent is visible in every room, so smsId is always -1.
SaveDraft ==
  /\ pc = "idle" /\ room
  /\ room' = FALSE
  /\ Load(1, TRUE)
  /\ \E o \in Outcome(made < MaxId) :
       IF o[1]
       THEN /\ box' = [box EXCEPT ![made + 1] = "mSmsDrafts"]
            /\ made' = made + 1
       ELSE UNCHANGED <<box, made>>
  /\ UNCHANGED <<world, contact, sim, menu, bSimPresent, buttons, pages, sel, draft,
                 recvShown, sendShown, open, deleted, strayed>>

-----------------------------------------------------------------------------
(* Everybody else *)

Arrive(m) ==
  /\ "others" \in world /\ made < MaxId /\ m \in Inbox /\ sim
  /\ box' = [box EXCEPT ![made + 1] = m]
  /\ made' = made + 1
  /\ UNCHANGED <<world, contact, sim, menu, bSimPresent, table, compose, pc, job,
                 ghosts>>

OtherDeletes(i) ==
  /\ "others" \in world /\ box[i] # Nowhere
  /\ box' = [box EXCEPT ![i] = Nowhere]
  /\ UNCHANGED <<world, made, contact, sim, menu, bSimPresent, table, compose, pc, job,
                 ghosts>>

SimChange ==
  /\ "others" \in world
  /\ sim' = ~sim
  /\ UNCHANGED <<world, box, made, contact, menu, bSimPresent, table, compose, pc, job,
                 ghosts>>

Init ==
  /\ world \in Worlds
  /\ box = [i \in Id |-> IF i = 1 THEN "mDeviceInbox"
                         ELSE IF i \in {2, 3} THEN "mSmsDrafts" ELSE Nowhere]
  /\ made = 3 /\ sim = TRUE
  /\ contact \in {[i \in Id |-> c] : c \in IF "narrow" \in world THEN {0, 1} ELSE {0}}
  /\ menu = "mDeviceInbox" /\ bSimPresent = TRUE
  /\ rows = {} /\ ticked = {} /\ buttons = FALSE /\ pages = 0 /\ sel = 1
  /\ room = FALSE /\ draft = 0 /\ recvShown = TRUE /\ sendShown = TRUE
  /\ pc = "list" /\ job = [page |-> 1, init |-> TRUE]
  /\ deleted = {} /\ open = 0 /\ strayed = FALSE

Next ==
  \/ \E m \in Menu : Open(m) \/ Arrive(m)
  \/ List \/ \E n \in 1..pages : SelectPage(n)
  \/ \E set \in SUBSET rows : Tick(set)
  \/ Delete \/ \E moves \in BOOLEAN : CopyMove(moves)
  \/ \E i \in Id : Read(i) \/ OtherDeletes(i)
  \/ New \/ Forward \/ Cancel \/ Send \/ SaveDraft
  \/ SimChange

Spec == Init /\ [][Next]_vars

-----------------------------------------------------------------------------
\* Every variable has its type; the text area keeps an id only among the
\* drafts, and what can be forwarded is a received or sent message.
TypeOK ==
  /\ world \in Worlds
  /\ box \in [Id -> Menu \cup {Nowhere}] /\ made \in Id
  /\ contact \in [Id -> Nat] /\ menu \in Menu
  /\ rows \subseteq Id /\ ticked \subseteq rows
  /\ pages \in Nat /\ sel \in Nat \ {0}
  /\ {sim, bSimPresent, buttons, room, recvShown, sendShown, strayed} \subseteq BOOLEAN
  /\ draft \in Id \cup {0} /\ (draft # 0 => menu = "mSmsDrafts")
  /\ room /\ recvShown => menu # "mSmsDrafts" /\ open # 0
  /\ pc \in {"idle", "list"} /\ job \in [page : Nat \ {0}, init : BOOLEAN]
  /\ deleted \subseteq Id /\ open \in Id \cup {0}

\* A message is sent under the id of a draft only when that draft is the one
\* in the room: a new message never takes an older draft along, although its
\* id outlives Cancel, New and failed sends.
SendNamesOpenDraft == ~strayed

\* A delete reported as done has removed every ticked message, unless an answer
\* was lost.
DeletedMeansGone == "lost" \notin world => \A i \in deleted : box[i] = Nowhere
=============================================================================
