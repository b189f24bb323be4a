----------------------------- MODULE PhoneBook -----------------------------
(***************************************************************************)
(* The contacts page (phonebook.js): one browser's view of the phone book  *)
(* on the device and on the SIM card.  Contacts are addressed by store and *)
(* index, a page of rows is a snapshot, every change is one or more        *)
(* synchronous requests followed by a reload, and one step is one request, *)
(* so that another browser or a SIM card pulled out may come in between.   *)
(*                                                                         *)
(* The pages compare the answer's text with 0, and the empty text of a     *)
(* request that failed equals 0 in JavaScript: a lost request or answer is *)
(* taken for a success.                                                    *)
(***************************************************************************)
EXTENDS Naturals, FiniteSets

CONSTANTS
  Cap,         \* slots on the device
  SimCap,      \* slots on the SIM card
  PageCap,     \* PHONE_NUM_PER_PAGE
  MaxMade,     \* bound: contacts ever made
  Worlds       \* what may interfere, for each kind of execution: "lost" (requests
               \* and answers), "others" (another browser edits the phone book),
               \* "sim" (the SIM card is pulled out or locked)

ASSUME PhoneBookAssumption ==
  /\ Cap \in Nat \ {0} /\ SimCap \in Nat \ {0} /\ PageCap \in Nat \ {0}
  /\ MaxMade \in Nat \ {0, 1}
  /\ Worlds # {} /\ Worlds \subseteq SUBSET {"lost", "others", "sim"}

VARIABLES
  world,                \* what may interfere in this execution
  book, made,           \* device: contact in each slot (0: none); contacts made
  sim,                  \* device: state of the SIM card
  menu,                 \* menuId: which list is open
  rows, ticked, all,    \* the table, its ticked rows, deleteAllPhone
  pages, cur,           \* page links; currentActivePageIdx
  pc, job,              \* control point of the running handler, its arguments
  seen,                 \* results of the delete requests
  msg,                  \* last message about a deletion
  strayed, asked,       \* history: was a contact changed that the user had not
                        \* picked? contacts of the last successful delete
  drift                 \* history: may the table be another than the page
                        \* currentActivePageIdx of what is in the phone book?

view == <<rows, ticked, all>>
device == <<world, book, made, sim>>
ghosts == <<strayed, asked, drift>>
vars == <<device, menu, view, pages, cur, pc, job, seen, msg, ghosts>>

-----------------------------------------------------------------------------
Store == {"device", "sim"}
Slots(s) == IF s = "sim" THEN 1..SimCap ELSE 1..Cap
Index == Slots("device") \cup Slots("sim")
Contact == 1..MaxMade
SimState == {"ready", "absent", "locked"}
Menu == {"all", "device", "sim"}

Row == [store : Store, index : Index, contact : Contact]
Rows == {[store |-> s, index |-> i, contact |-> book[s][i]] :
           s \in {t \in Store : t = "device" \/ sim = "ready"}, i \in Index}

\* getcontactbypage, getcontactbylocation: what is there, in the device's order.
Listed == {r \in Rows : r.contact # 0 /\ menu \in {"all", r.store}}

Precedes(q, r) ==
  \/ q.store = "device" /\ r.store = "sim"
  \/ q.store = r.store /\ q.index < r.index

Page(n) ==
  {r \in Listed : Cardinality({q \in Listed : Precedes(q, r)}) \div PageCap = n - 1}

PageCount == (Cardinality(Listed) + PageCap - 1) \div PageCap

Contacts(set) == {r.contact : r \in set}
InBook == {book[s][i] : s \in Store, i \in Index} \ {0}
Free(s) == {i \in Index \cap Slots(s) : book[s][i] = 0}
Answers(s) == s = "device" \/ sim = "ready"

\* Outcomes of a request: was it carried out, and does the page see success?
Outcome(possible) ==
  (IF possible THEN {<<TRUE, TRUE>>} ELSE {})
    \cup {<<FALSE, FALSE>>}
    \cup (IF "lost" \in world THEN {<<FALSE, TRUE>>} ELSE {})

\* Is the contact in a row's slot still the one the row shows?
Same(r) == book[r.store][r.index] \in {0, r.contact}

NoJob == [page |-> 1, init |-> FALSE]
AllSeen == [s \in Store |-> TRUE]

-----------------------------------------------------------------------------
(* UpdatePhoneBookList *)

Load(n, init) ==
  /\ rows' = {} /\ ticked' = {} /\ all' = FALSE
  /\ pc' = "status"
  /\ job' = [page |-> n, init |-> init]

\* Only the list of the SIM card needs it; an unreadable status means absent.
SimStatus(known) ==
  /\ pc = "status"
  /\ ~known => "lost" \in world
  /\ pc' = IF menu = "sim" /\ ~(known /\ sim = "ready") THEN "idle" ELSE "fetch"
  /\ job' = IF pc' = "idle" THEN NoJob ELSE job
  /\ UNCHANGED <<device, menu, view, pages, cur, seen, msg, ghosts>>

\* Without an answer the table and, if asked for, the page links stay empty.
Fetch(arrived) ==
  /\ pc = "fetch"
  /\ ~arrived => "lost" \in world
  /\ pc' = "idle"
  /\ rows' = IF arrived THEN Page(job.page) ELSE {}
  /\ pages' = IF ~job.init THEN pages ELSE IF arrived THEN PageCount ELSE 0
  /\ job' = NoJob
  /\ UNCHANGED <<device, menu, ticked, all, cur, seen, msg, ghosts>>

Open(m) ==
  /\ pc = "idle"
  /\ menu' = m /\ cur' = 1 /\ pages' = 0
  /\ Load(1, TRUE)
  /\ msg' = "none" /\ asked' = {} /\ drift' = FALSE
  /\ UNCHANGED <<device, seen, strayed>>

SelectPage(n) ==
  /\ pc = "idle" /\ n \in 1..pages
  /\ cur' = n
  /\ Load(n, FALSE)
  /\ msg' = "none" /\ asked' = {} /\ drift' = FALSE
  /\ UNCHANGED <<device, menu, pages, seen, strayed>>

Tick(r) ==
  /\ pc = "idle" /\ r \in rows
  /\ ticked' = IF r \in ticked THEN ticked \ {r} ELSE ticked \cup {r}
  /\ all' = (ticked' = rows)
  /\ UNCHANGED <<device, menu, rows, pages, cur, pc, job, seen, msg, ghosts>>

TickAll ==
  /\ pc = "idle"
  /\ all' = ~all
  /\ ticked' = IF all THEN {} ELSE rows
  /\ UNCHANGED <<device, menu, rows, pages, cur, pc, job, seen, msg, ghosts>>

-----------------------------------------------------------------------------
(* btnDelete: the SIM card's contacts in one request, the device's in another *)

Ticked(s) == {r \in ticked : r.store = s}

Delete ==
  /\ pc = "idle" /\ ticked # {}
  /\ pc' = IF Ticked("sim") # {} THEN "delete_sim" ELSE "delete_device"
  /\ msg' = "none" /\ asked' = {}
  /\ UNCHANGED <<device, menu, view, pages, cur, job, seen, strayed, drift>>

DeletePost(s, o) ==
  LET slots == {r.index : r \in Ticked(s)} IN
  /\ book' = IF o[1] THEN [book EXCEPT ![s] =
                             [i \in Index |-> IF i \in slots THEN 0 ELSE @[i]]]
             ELSE book
  /\ strayed' = (strayed \/ (o[1] /\ \E r \in Ticked(s) : ~Same(r)))
  /\ seen' = [seen EXCEPT ![s] = o[2]]
  /\ UNCHANGED <<world, made, sim, menu, view, pages, cur, job, msg, asked, drift>>

DeleteSim ==
  /\ pc = "delete_sim"
  /\ pc' = IF Ticked("device") # {} THEN "delete_device" ELSE "deleted"
  /\ \E o \in Outcome(sim = "ready") : DeletePost("sim", o)

DeleteDevice ==
  /\ pc = "delete_device"
  /\ pc' = "deleted"
  /\ \E o \in Outcome(TRUE) : DeletePost("device", o)

\* Mutant of DeletedAll: one of the two requests is enough.
DeletedSome == \E s \in Store : Ticked(s) # {} /\ seen[s]

DeletedAll == \A s \in Store : Ticked(s) # {} => seen[s]

\* Mutant of PageAfterDelete: the page that has lost its rows is shown again.
PageUnchanged == cur

PageAfterDelete == IF cur # 1 /\ all THEN cur - 1 ELSE cur

\* The table is read again only if everything succeeded.
Deleted ==
  /\ pc = "deleted"
  /\ \/ /\ DeletedAll
        /\ cur' = PageAfterDelete
        /\ Load(PageAfterDelete, TRUE)
        /\ msg' = "deleted" /\ asked' = Contacts(ticked)
        /\ UNCHANGED drift
     \/ /\ ~DeletedAll
        /\ pc' = "idle"
        /\ msg' = "failed"
        /\ drift' = (drift \/ \E s \in Store : Ticked(s) # {} /\ seen[s])
        /\ UNCHANGED <<view, cur, job, asked>>
  /\ seen' = AllSeen
  /\ UNCHANGED <<device, menu, pages, strayed>>

-----------------------------------------------------------------------------
(* The dialogs: edit, new, copy or move to the other store *)

\* Mutant of AfterSave: the table is not read again.
AfterSaveKeepsRows(success) ==
  /\ success \/ ~success
  /\ UNCHANGED <<view, pc, job, drift>>

\* Both save buttons show page 1 again and leave currentActivePageIdx alone.
AfterSave(success) ==
  \/ /\ success
     /\ Load(1, TRUE)
     /\ drift' = (drift \/ cur # 1)
  \/ /\ ~success
     /\ UNCHANGED <<view, pc, job, drift>>

SaveEdit(r) ==
  /\ pc = "idle" /\ r \in rows
  /\ \E o \in Outcome(Answers(r.store) /\ book[r.store][r.index] # 0) :
       /\ strayed' = (strayed \/ (o[1] /\ ~Same(r)))
       /\ AfterSave(o[2])
  /\ msg' = "none" /\ asked' = {}
  /\ UNCHANGED <<device, menu, pages, cur, seen>>

SaveNew(s) ==
  /\ pc = "idle"
  /\ menu = "sim" => s = "sim"
  /\ \E o \in Outcome(Answers(s) /\ Free(s) # {} /\ made < MaxMade) :
       /\ IF o[1]
          THEN \E i \in Free(s) :
                 book' = [book EXCEPT ![s][i] = made + 1] /\ made' = made + 1
          ELSE UNCHANGED <<book, made>>
       /\ AfterSave(o[2])
  /\ msg' = "none" /\ asked' = {}
  /\ UNCHANGED <<world, sim, menu, pages, cur, seen, strayed>>

OtherStore(s) == IF s = "sim" THEN "device" ELSE "sim"

\* The dialog asks for the SIM status again; then one request for one contact.
CopyMove(r, moves) ==
  LET to == OtherStore(r.store)
      c == book[r.store][r.index] IN
  /\ pc = "idle" /\ r \in rows /\ sim # "absent"
  /\ \E o \in Outcome(sim = "ready" /\ Free(to) # {} /\ c # 0
                        /\ (moves \/ made < MaxMade)) :
       /\ IF o[1]
          THEN \E i \in Free(to) :
                 IF moves
                 THEN /\ book' = [book EXCEPT ![to][i] = c, ![r.store][r.index] = 0]
                      /\ made' = made
                 ELSE /\ book' = [book EXCEPT ![to][i] = made + 1]
                      /\ made' = made + 1
          ELSE UNCHANGED <<book, made>>
       /\ strayed' = (strayed \/ (o[1] /\ ~Same(r)))
       /\ IF o[2] THEN Load(cur, TRUE) ELSE UNCHANGED <<view, pc, job>>
  /\ msg' = "none" /\ asked' = {}
  /\ UNCHANGED <<world, sim, menu, pages, cur, seen, drift>>

-----------------------------------------------------------------------------
(* Everybody else *)

OtherAdds(s, i) ==
  /\ "others" \in world /\ made < MaxMade /\ Answers(s) /\ i \in Free(s)
  /\ book' = [book EXCEPT ![s][i] = made + 1]
  /\ made' = made + 1
  /\ UNCHANGED <<world, sim, menu, view, pages, cur, pc, job, seen, msg, ghosts>>

OtherDeletes(s, i) ==
  /\ "others" \in world /\ Answers(s) /\ book[s][i] # 0
  /\ book' = [book EXCEPT ![s][i] = 0]
  /\ UNCHANGED <<world, made, sim, menu, view, pages, cur, pc, job, seen, msg, ghosts>>

SimChange(state) ==
  /\ "sim" \in world /\ state # sim
  /\ sim' = state
  /\ UNCHANGED <<world, book, made, menu, view, pages, cur, pc, job, seen, msg, ghosts>>

Init ==
  /\ world \in Worlds
  /\ book = [s \in Store |-> [i \in Index |->
               IF i # 1 THEN 0 ELSE IF s = "device" THEN 1 ELSE 2]]
  /\ made = 2 /\ sim = "ready"
  /\ menu = "all" /\ rows = {} /\ ticked = {} /\ all = FALSE
  /\ pages = 0 /\ cur = 1
  /\ pc = "status" /\ job = [page |-> 1, init |-> TRUE]
  /\ seen = AllSeen /\ msg = "none"
  /\ strayed = FALSE /\ asked = {} /\ drift = FALSE

Next ==
  \/ \E answered \in BOOLEAN : SimStatus(answered) \/ Fetch(answered)
  \/ \E m \in Menu : Open(m)
  \/ \E n \in 1..pages : SelectPage(n)
  \/ \E r \in rows :
       Tick(r) \/ SaveEdit(r) \/ \E moves \in BOOLEAN : CopyMove(r, moves)
  \/ TickAll \/ Delete \/ DeleteSim \/ DeleteDevice \/ Deleted
  \/ \E s \in Store :
       SaveNew(s) \/ \E i \in Index : OtherAdds(s, i) \/ OtherDeletes(s, i)
  \/ \E state \in SimState : SimChange(state)

Spec == Init /\ [][Next]_vars

-----------------------------------------------------------------------------
\* Every variable has its type, only rows of the table are ticked, and the
\* tick of deleteAllPhone means all of them.
TypeOK ==
  /\ world \in Worlds
  /\ book \in [Store -> [Index -> Contact \cup {0}]] /\ made \in Contact
  /\ sim \in SimState /\ menu \in Menu
  /\ rows \subseteq Row /\ ticked \subseteq rows /\ (all => ticked = rows)
  /\ pages \in Nat /\ cur \in Nat \ {0}
  /\ pc \in {"idle", "status", "fetch", "delete_sim", "delete_device", "deleted"}
  /\ job \in [page : Nat \ {0}, init : BOOLEAN]
  /\ seen \in [Store -> BOOLEAN] /\ msg \in {"none", "deleted", "failed"}
  /\ asked \subseteq Contact /\ {strayed, drift} \subseteq BOOLEAN

\* Only contacts the user has picked are deleted, moved or overwritten,
\* although the requests name slots that a later contact may take: every
\* change of the page's own that could reuse a slot reads the table again,
\* even after a delete that failed halfway and left rows of deleted contacts.
\* (Another browser can reuse a slot unseen: the request has no other key.)
HitsWhatWasPicked == "others" \notin world => ~strayed

\* The message that the contacts were deleted means that every ticked one is
\* gone, on the SIM card as on the device, unless an answer was lost.
DeletedMeansGone == "lost" \notin world /\ msg = "deleted" => asked \cap InBook = {}

\* After a delete the page shown is never one past the last: with one browser and
\* nothing lost the table is empty only when the list is.  (drift excepts two tables
\* that are no page of it: saving shows page 1 without making it the current page,
\* and a delete that failed halfway leaves rows of contacts that are gone.)
NoPageBeyondLast ==
  world = {} /\ pc = "idle" /\ msg = "deleted" /\ ~drift /\ rows = {} => Listed = {}
=============================================================================
