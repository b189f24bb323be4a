-------------------------- MODULE PhoneBookProofs --------------------------
(***************************************************************************)
(* Proofs about the contacts page, for any number of slots, contacts and   *)
(* rows, and whatever interferes.                                          *)
(***************************************************************************)
EXTENDS PhoneBook, FiniteSetTheorems, TLAPS

\* TypeOK, by what is on the device, on the page and in the running handler, and
\* by what is true or false.
DeviceTyped ==
  /\ world \in Worlds /\ sim \in SimState
  /\ book \in [Store -> [Index -> Contact \cup {0}]] /\ made \in Contact

PageTyped ==
  /\ menu \in Menu /\ rows \subseteq Row /\ ticked \subseteq rows /\ (all => ticked = rows)
  /\ pages \in Nat /\ cur \in Nat \ {0}
  /\ msg \in {"none", "deleted", "failed"} /\ asked \subseteq Contact

JobTyped ==
  /\ pc \in {"idle", "status", "fetch", "delete_sim", "delete_device", "deleted"}
  /\ job \in [page : Nat \ {0}, init : BOOLEAN]
  /\ seen \in [Store -> BOOLEAN]
  /\ pc \in {"status", "fetch"} => ticked = {} /\ ~all

Flags == strayed \in BOOLEAN /\ drift \in BOOLEAN

Typed == DeviceTyped /\ PageTyped /\ JobTyped /\ Flags

\* Contacts are numbered as they are made, and each is in one slot at most.
BookInv ==
  /\ \A s \in Store, i \in Index : book[s][i] <= made
  /\ \A s, t \in Store, i, j \in Index :
       book[s][i] = book[t][j] /\ book[s][i] # 0 => s = t /\ i = j

\* What a row shows is in the row's slot or nowhere, and while nobody else edits
\* the phone book nothing else is in that slot.
RowsInv ==
  /\ \A r \in rows : r.contact <= made
  /\ \A r \in rows, s \in Store, i \in Index :
       book[s][i] = r.contact => s = r.store /\ i = r.index
  /\ "others" \notin world => \A r \in rows : Same(r)

Gone(c) == \A s \in Store, i \in Index : book[s][i] # c

\* What the requests of a delete have removed, as far as they are made.
GoneInv ==
  /\ \A c \in asked : c <= made
  /\ "lost" \notin world =>
       /\ msg = "deleted" => \A c \in asked : Gone(c)
       /\ pc \in {"delete_device", "deleted"} /\ seen["sim"] =>
            \A r \in Ticked("sim") : Gone(r.contact)
       /\ pc = "deleted" /\ seen["device"] => \A r \in Ticked("device") : Gone(r.contact)

IInv == Typed /\ BookInv /\ RowsInv /\ GoneInv /\ HitsWhatWasPicked

-----------------------------------------------------------------------------
LEMMA OutcomeCases ==
  ASSUME NEW p \in BOOLEAN, NEW o \in Outcome(p)
  PROVE  /\ o[1] \in BOOLEAN /\ o[2] \in BOOLEAN
         /\ o[1] => p /\ o[2]
         /\ o[2] /\ "lost" \notin world => o[1]
<1>1. \/ o = <<TRUE, TRUE>> /\ p
      \/ o = <<FALSE, FALSE>>
      \/ o = <<FALSE, TRUE>> /\ "lost" \in world
  BY DEF Outcome
<1>2. /\ <<TRUE, TRUE>>[1] = TRUE /\ <<TRUE, TRUE>>[2] = TRUE
      /\ <<FALSE, FALSE>>[1] = FALSE /\ <<FALSE, FALSE>>[2] = FALSE
      /\ <<FALSE, TRUE>>[1] = FALSE /\ <<FALSE, TRUE>>[2] = TRUE
  OBVIOUS
<1> QED
  BY <1>1, <1>2, Zenon

LEMMA ListedRows ==
  ASSUME DeviceTyped, NEW r \in Listed
  PROVE  r \in Row /\ r.contact = book[r.store][r.index]
BY DEF DeviceTyped, Listed, Rows, Row

LEMMA PageRows ==
  ASSUME DeviceTyped, NEW n, NEW r \in Page(n)
  PROVE  r \in Row /\ r.contact = book[r.store][r.index]
BY ListedRows DEF Page

LEMMA SlotsFinite == IsFiniteSet(Store \X Index)
<1>1. IsFiniteSet({"device"}) /\ IsFiniteSet({"sim"})
  BY FS_Singleton
<1>2. Store = {"device"} \cup {"sim"}
  BY DEF Store
<1>3. IsFiniteSet(Index)
  <2>1. IsFiniteSet(Slots("device")) /\ IsFiniteSet(Slots("sim"))
    BY FS_Interval, PhoneBookAssumption DEF Slots
  <2> QED
    BY <2>1, FS_Union DEF Index
<1>4. IsFiniteSet(Store)
  BY <1>1, <1>2, FS_Union
<1> QED
  BY <1>3, <1>4, FS_Product

\* There are no more rows than slots.
LEMMA RowsFinite ==
  ASSUME NEW L, \A r \in L : r.store \in Store /\ r.index \in Index,
         \A q, r \in L : q.store = r.store /\ q.index = r.index => q = r
  PROVE  IsFiniteSet(L)
<1> DEFINE f == [r \in L |-> <<r.store, r.index>>]
<1>1. f \in Injection(L, Store \X Index)
  BY DEF Injection, IsInjective
<1> QED
  BY <1>1, SlotsFinite, FS_Injection

LEMMA PageCountTyped ==
  ASSUME DeviceTyped
  PROVE  PageCount \in Nat
<1> DEFINE c == Cardinality(Listed)
<1>1. IsFiniteSet(Listed)
  <2>1. \A r \in Listed : r.store \in Store /\ r.index \in Index
    BY ListedRows DEF Row
  <2>2. \A q, r \in Listed : q.store = r.store /\ q.index = r.index => q = r
    BY DEF Listed, Rows
  <2> QED
    BY <2>1, <2>2, RowsFinite
<1>2. c \in Nat
  BY <1>1, FS_CardinalityType
<1> HIDE DEF c
<1>3. (c + PageCap - 1) \div PageCap \in Nat
  BY <1>2, PhoneBookAssumption
<1> QED
  BY <1>3 DEF PageCount, c

LEMMA LoadTyped ==
  ASSUME NEW n \in Nat \ {0}, NEW init \in BOOLEAN, Load(n, init), UNCHANGED seen,
         seen \in [Store -> BOOLEAN]
  PROVE  JobTyped' /\ rows' = {} /\ ticked' = {} /\ ~all'
<1>1. job' = [page |-> n, init |-> init]
  BY DEF Load
<1>2. job' \in [page : Nat \ {0}, init : BOOLEAN]
  BY <1>1
<1> QED
  BY <1>2 DEF Load, JobTyped

\* Where the phone book stays as it is, so do the facts about it.
LEMMA BookKept ==
  ASSUME IInv, UNCHANGED <<world, book, made>>, rows' \subseteq rows
  PROVE  BookInv' /\ RowsInv'
BY DEF IInv, BookInv, RowsInv, Same

\* Slots are emptied.
LEMMA BookShrinks ==
  ASSUME IInv, UNCHANGED <<world, made, rows>>, DeviceTyped',
         \A s \in Store, i \in Index : book'[s][i] \in {book[s][i], 0}
  PROVE  /\ BookInv' /\ RowsInv' /\ \A c : c # 0 /\ Gone(c) => Gone(c)'
<1>1. made \in Nat /\ \A r \in rows : r \in Row /\ r.contact # 0
  BY DEF IInv, Typed, DeviceTyped, PageTyped, Row, Contact
<1>2. BookInv'
  BY <1>1 DEF IInv, BookInv
<1>3. RowsInv'
  <2>1. \A r \in rows, s \in Store, i \in Index :
          book'[s][i] = r.contact => book[s][i] = r.contact
    BY <1>1
  <2>2. \A r \in rows : Same(r) => Same(r)'
    BY <1>1 DEF Same, Row
  <2> QED
    BY <2>1, <2>2 DEF IInv, RowsInv
<1>4. \A c : c # 0 /\ Gone(c) => Gone(c)'
  BY DEF Gone
<1> QED
  BY <1>2, <1>3, <1>4

\* A new contact gets a free slot and a new number.
Grown(s, i) ==
  /\ book' \in [Store -> [Index -> Contact \cup {0}]] /\ made' \in Contact
  /\ BookInv'
  /\ \A t \in Store, j \in Index :
       book'[t][j] = IF t = s /\ j = i THEN made + 1 ELSE book[t][j]

LEMMA BookGrows ==
  ASSUME IInv, NEW s \in Store, NEW i \in Free(s), made < MaxMade, made' = made + 1,
         book' = [book EXCEPT ![s][i] = made + 1]
  PROVE  Grown(s, i)
<1>1. /\ i \in Index /\ book \in [Store -> [Index -> Contact \cup {0}]] /\ made \in Nat
      /\ made + 1 \in Contact
  BY PhoneBookAssumption DEF IInv, Typed, DeviceTyped, Free, Contact
<1>2. \A t \in Store, j \in Index :
        book'[t][j] = IF t = s /\ j = i THEN made + 1 ELSE book[t][j]
  BY <1>1
<1>3. book' \in [Store -> [Index -> Contact \cup {0}]]
  BY <1>1
<1>4. \A t \in Store, j \in Index : book[t][j] <= made /\ book[t][j] \in Nat
  BY <1>1 DEF IInv, BookInv, Contact
<1>5. BookInv'
  <2>1. \A t \in Store, j \in Index : book'[t][j] <= made'
    BY <1>1, <1>2, <1>4
  <2>2. ASSUME NEW t \in Store, NEW u \in Store, NEW j \in Index, NEW k \in Index,
               book'[t][j] = book'[u][k], book'[t][j] # 0
        PROVE  t = u /\ j = k
    <3>1. \A v \in Store, l \in Index : book[v][l] # made + 1
      BY <1>1, <1>4
    <3> QED
      BY <1>2, <2>2, <3>1 DEF IInv, BookInv
  <2> QED
    BY <2>1, <2>2 DEF BookInv
<1> QED
  BY <1>1, <1>2, <1>3, <1>5 DEF Grown

\* Nothing is deleted, and nothing is said of an earlier deletion.
LEMMA NothingDeleted ==
  ASSUME msg' = "none", asked' = {}, pc' \notin {"delete_device", "deleted"}
  PROVE  GoneInv'
BY DEF GoneInv

\* The device and what is said of a deletion stay.
LEMMA SaidStays ==
  ASSUME IInv, UNCHANGED <<world, book, made, msg, asked>>,
         pc' \notin {"delete_device", "deleted"}
  PROVE  GoneInv'
BY DEF IInv, GoneInv, Gone

-----------------------------------------------------------------------------
(* The table.                                                              *)

LEMMA StatusIInv ==
  ASSUME IInv, NEW known, SimStatus(known)
  PROVE  IInv'
<1>1. /\ UNCHANGED <<device, menu, view, pages, cur, seen, msg, ghosts>>
      /\ pc = "status" /\ pc' \in {"idle", "fetch"} /\ job' \in {NoJob, job}
  BY DEF SimStatus
<1>2. DeviceTyped' /\ PageTyped'
  BY <1>1 DEF device, view, ghosts, IInv, Typed, DeviceTyped, PageTyped
<1>3. JobTyped'
  <2>1. NoJob \in [page : Nat \ {0}, init : BOOLEAN]
    BY DEF NoJob
  <2> QED
    BY <1>1, <2>1 DEF view, IInv, Typed, JobTyped
<1>4. Flags' /\ HitsWhatWasPicked'
  BY <1>1 DEF device, ghosts, IInv, Typed, Flags, HitsWhatWasPicked
<1>5. BookInv' /\ RowsInv'
  BY <1>1, BookKept DEF device, view
<1>6. GoneInv'
  BY <1>1, SaidStays DEF device, ghosts
<1> QED
  BY <1>2, <1>3, <1>4, <1>5, <1>6 DEF IInv, Typed

\* Rows just read show what is in their slots.
LEMMA FetchIInv ==
  ASSUME IInv, NEW arrived, Fetch(arrived)
  PROVE  IInv'
<1>1. /\ UNCHANGED <<device, menu, ticked, all, cur, seen, msg, ghosts>>
      /\ pc = "fetch" /\ pc' = "idle" /\ job' = NoJob
      /\ rows' \in {Page(job.page), {}} /\ pages' \in {pages, PageCount, 0}
  BY DEF Fetch
<1>2. \A r \in rows' : r \in Row /\ r.contact = book[r.store][r.index]
  BY <1>1, PageRows DEF IInv, Typed
<1>3. DeviceTyped'
  BY <1>1 DEF device, IInv, Typed, DeviceTyped
<1>4. PageTyped'
  BY <1>1, <1>2, PageCountTyped DEF ghosts, IInv, Typed, PageTyped, JobTyped
<1>5. JobTyped'
  <2>1. NoJob \in [page : Nat \ {0}, init : BOOLEAN]
    BY DEF NoJob
  <2> QED
    BY <1>1, <2>1 DEF IInv, Typed, JobTyped
<1>6. Flags' /\ HitsWhatWasPicked'
  BY <1>1 DEF device, ghosts, IInv, Typed, Flags, HitsWhatWasPicked
<1>7. BookInv'
  BY <1>1 DEF device, IInv, BookInv
<1>8. RowsInv'
  <2>1. \A r \in rows' : /\ r.store \in Store /\ r.index \in Index /\ r.contact # 0
                         /\ r.contact = book'[r.store][r.index]
    BY <1>1, <1>2, PhoneBookAssumption DEF device, Row, Contact
  <2> QED
    BY <1>7, <2>1 DEF RowsInv, BookInv, Same
<1>9. GoneInv'
  BY <1>1, SaidStays DEF device, ghosts
<1> QED
  BY <1>3, <1>4, <1>5, <1>6, <1>7, <1>8, <1>9 DEF IInv, Typed

\* A list is asked for.
LEMMA AskedFor ==
  ASSUME IInv, NEW n \in Nat \ {0}, NEW init \in BOOLEAN, Load(n, init), cur' = n,
         menu' \in Menu, pages' \in {pages, 0}, msg' = "none", asked' = {}, drift' = FALSE,
         UNCHANGED <<device, seen, strayed>>
  PROVE  IInv'
<1>2. JobTyped' /\ rows' = {} /\ ticked' = {} /\ ~all'
  BY LoadTyped DEF IInv, Typed, JobTyped
<1>3. DeviceTyped'
  BY DEF device, IInv, Typed, DeviceTyped
<1>4. PageTyped'
  BY <1>2 DEF IInv, Typed, PageTyped
<1>5. Flags' /\ HitsWhatWasPicked'
  BY Zenon DEF device, IInv, Typed, Flags, HitsWhatWasPicked
<1>6. BookInv' /\ RowsInv'
  BY <1>2, BookKept DEF device
<1>7. GoneInv'
  BY NothingDeleted DEF Load
<1> QED
  BY <1>2, <1>3, <1>4, <1>5, <1>6, <1>7 DEF IInv, Typed

LEMMA OpenIInv ==
  ASSUME IInv, (\E m \in Menu : Open(m)) \/ (\E n \in 1..pages : SelectPage(n))
  PROVE  IInv'
<1>1. ASSUME NEW m \in Menu, Open(m) PROVE IInv'
  <2>1. /\ Load(1, TRUE) /\ cur' = 1 /\ menu' = m /\ pages' = 0 /\ msg' = "none"
        /\ asked' = {} /\ drift' = FALSE /\ UNCHANGED <<device, seen, strayed>>
    BY <1>1 DEF Open
  <2>2. \A n \in Nat \ {0} : n = 1 => Load(n, TRUE) /\ cur' = n
    BY <2>1
  <2>3. \A n \in Nat \ {0} : n = 1 => IInv'
    BY <2>1, <2>2, AskedFor
  <2> QED
    BY <2>3
<1>2. ASSUME NEW n \in 1..pages, SelectPage(n) PROVE IInv'
  <2>1. n \in Nat \ {0} /\ menu \in Menu
    BY DEF IInv, Typed, PageTyped
  <2> QED
    BY <1>2, <2>1, AskedFor DEF SelectPage
<1> QED
  BY <1>1, <1>2

LEMMA TickIInv ==
  ASSUME IInv, TickAll \/ \E r \in rows : Tick(r)
  PROVE  IInv'
<1>1. /\ UNCHANGED <<device, menu, rows, pages, cur, pc, job, seen, msg, ghosts>>
      /\ pc = "idle"
  BY DEF Tick, TickAll
<1>2. ticked' \subseteq rows' /\ (all' => ticked' = rows')
  <2>1. CASE \E r \in rows : Tick(r)
    BY <2>1 DEF Tick, IInv, Typed, PageTyped
  <2>2. CASE TickAll
    BY <2>2 DEF TickAll
  <2> QED
    BY <2>1, <2>2
<1>3. DeviceTyped' /\ PageTyped'
  BY <1>1, <1>2 DEF device, ghosts, IInv, Typed, DeviceTyped, PageTyped
<1>4. JobTyped'
  BY <1>1 DEF IInv, Typed, JobTyped
<1>5. Flags' /\ HitsWhatWasPicked'
  BY <1>1 DEF device, ghosts, IInv, Typed, Flags, HitsWhatWasPicked
<1>6. BookInv' /\ RowsInv'
  BY <1>1, BookKept DEF device
<1>7. GoneInv'
  BY <1>1, SaidStays DEF device, ghosts
<1> QED
  BY <1>3, <1>4, <1>5, <1>6, <1>7 DEF IInv, Typed

-----------------------------------------------------------------------------
(* A delete.                                                               *)

LEMMA DeleteIInv ==
  ASSUME IInv, Delete
  PROVE  IInv'
<1>1. /\ UNCHANGED <<device, menu, view, pages, cur, job, seen, strayed, drift>>
      /\ pc' \in {"delete_sim", "delete_device"} /\ msg' = "none" /\ asked' = {}
      /\ pc' = "delete_device" => Ticked("sim") = {}
  BY DEF Delete
<1>2. DeviceTyped' /\ PageTyped'
  BY <1>1 DEF device, view, IInv, Typed, DeviceTyped, PageTyped
<1>3. JobTyped'
  BY <1>1 DEF IInv, Typed, JobTyped
<1>4. Flags' /\ HitsWhatWasPicked'
  BY <1>1 DEF device, IInv, Typed, Flags, HitsWhatWasPicked
<1>5. BookInv' /\ RowsInv'
  BY <1>1, BookKept DEF device, view
<1>6. GoneInv'
  BY <1>1 DEF view, GoneInv, Ticked
<1> QED
  BY <1>2, <1>3, <1>4, <1>5, <1>6 DEF IInv, Typed

\* One of the two requests: the ticked contacts are in their slots or gone
\* already, and what is in the slots goes.
LEMMA DeletePostStep ==
  ASSUME IInv, NEW s \in Store, NEW o, DeletePost(s, o), o[1] \in BOOLEAN, o[2] \in BOOLEAN,
         o[2] /\ "lost" \notin world => o[1]
  PROVE  /\ DeviceTyped' /\ PageTyped' /\ Flags' /\ HitsWhatWasPicked'
         /\ BookInv' /\ RowsInv' /\ seen' \in [Store -> BOOLEAN]
         /\ seen'[s] = o[2] /\ \A t \in Store : t # s => seen'[t] = seen[t]
         /\ \A c : c # 0 /\ Gone(c) => Gone(c)'
         /\ "lost" \notin world /\ o[2] => \A r \in Ticked(s) : Gone(r.contact)'
<1> DEFINE slots == {r.index : r \in Ticked(s)}
<1>1. /\ UNCHANGED <<world, made, sim, menu, view, pages, cur, job, msg, asked, drift>>
      /\ book' = IF o[1] THEN [book EXCEPT ![s] = [i \in Index |-> IF i \in slots THEN 0
                                                                   ELSE book[s][i]]]
                ELSE book
      /\ seen' = [seen EXCEPT ![s] = o[2]]
  BY DEF DeletePost
<1>2. /\ book \in [Store -> [Index -> Contact \cup {0}]] /\ seen \in [Store -> BOOLEAN]
      /\ ticked \subseteq rows /\ rows \subseteq Row
  BY DEF IInv, Typed, DeviceTyped, PageTyped, JobTyped
<1>3. /\ book' \in [Store -> [Index -> Contact \cup {0}]]
      /\ \A t \in Store, i \in Index :
           book'[t][i] = IF o[1] /\ t = s /\ i \in slots THEN 0 ELSE book[t][i]
  <2> HIDE DEF slots
  <2>1. CASE o[1]
    <3> DEFINE f == [i \in Index |-> IF i \in slots THEN 0 ELSE book[s][i]]
    <3>1. f \in [Index -> Contact \cup {0}]
      BY <1>2
    <3>2. \A i \in Index : f[i] = IF i \in slots THEN 0 ELSE book[s][i]
      OBVIOUS
    <3>3. book' = [book EXCEPT ![s] = f]
      BY <1>1, <2>1
    <3> HIDE DEF f
    <3> QED
      BY <1>2, <2>1, <3>1, <3>2, <3>3
  <2>2. CASE ~o[1]
    BY <1>1, <1>2, <2>2
  <2> QED
    BY <2>1, <2>2
<1>4. DeviceTyped' /\ PageTyped'
  BY <1>1, <1>3 DEF view, IInv, Typed, DeviceTyped, PageTyped
<1>5. BookInv' /\ RowsInv' /\ \A c : c # 0 /\ Gone(c) => Gone(c)'
  BY <1>1, <1>3, <1>4, BookShrinks DEF view
<1>6. Flags' /\ HitsWhatWasPicked'
  <2>1. strayed' \in BOOLEAN /\ drift' \in BOOLEAN
    BY Zenon DEF DeletePost, IInv, Typed, Flags
  <2>2. "others" \notin world => ~strayed'
    <3>1. "others" \notin world => \A r \in Ticked(s) : Same(r)
      BY <1>2 DEF Ticked, IInv, RowsInv
    <3> QED
      BY <3>1, Zenon DEF DeletePost, IInv, HitsWhatWasPicked
  <2> QED
    BY <1>1, <2>1, <2>2 DEF Flags, HitsWhatWasPicked
<1>7. /\ seen' \in [Store -> BOOLEAN]
      /\ seen'[s] = o[2] /\ \A t \in Store : t # s => seen'[t] = seen[t]
  BY <1>1, <1>2
<1>8. ASSUME "lost" \notin world, o[2], NEW r \in Ticked(s)
      PROVE  Gone(r.contact)'
  <2>1. /\ o[1] /\ r \in rows /\ r \in Row /\ r.store = s /\ r.index \in slots
        /\ r.contact # 0
    BY <1>2, <1>8, PhoneBookAssumption DEF Ticked, Row, Contact
  <2> HIDE DEF slots
  <2>2. ASSUME NEW t \in Store, NEW i \in Index
        PROVE  book'[t][i] # r.contact
    BY <1>3, <2>1, <2>2 DEF IInv, RowsInv
  <2> QED
    BY <1>1, <2>2 DEF Gone, view
<1> QED
  BY <1>4, <1>5, <1>6, <1>7, <1>8

LEMMA RequestsIInv ==
  ASSUME IInv, DeleteSim \/ DeleteDevice
  PROVE  IInv'
<1>1. CASE DeleteSim
  <2>1. PICK o \in Outcome(sim = "ready") : DeletePost("sim", o)
    BY <1>1 DEF DeleteSim
  <2>2. o[1] \in BOOLEAN /\ o[2] \in BOOLEAN /\ (o[2] /\ "lost" \notin world => o[1])
    BY <2>1, OutcomeCases
  <2>3. /\ pc' \in {"delete_device", "deleted"} /\ (pc' = "deleted" => Ticked("device") = {})
        /\ UNCHANGED <<world, made, view, job, msg, asked>>
    BY <1>1, <2>1 DEF DeleteSim, DeletePost
  <2>4. "sim" \in Store /\ "device" \in Store
    BY DEF Store
  <2>5. /\ DeviceTyped' /\ PageTyped' /\ Flags' /\ HitsWhatWasPicked' /\ BookInv' /\ RowsInv'
        /\ seen' \in [Store -> BOOLEAN] /\ seen'["sim"] = o[2]
        /\ \A c : c # 0 /\ Gone(c) => Gone(c)'
        /\ "lost" \notin world /\ o[2] => \A r \in Ticked("sim") : Gone(r.contact)'
    BY <2>1, <2>2, <2>4, DeletePostStep
  <2>6. JobTyped'
    BY <2>3, <2>5 DEF IInv, Typed, JobTyped
  <2>7. GoneInv'
    <3>1. \A c \in asked : c # 0
      BY PhoneBookAssumption DEF IInv, Typed, PageTyped, Contact
    <3>2. Ticked("sim")' = Ticked("sim") /\ Ticked("device")' = Ticked("device")
      BY <2>3 DEF Ticked, view
    <3> QED
      BY <2>3, <2>5, <3>1, <3>2 DEF IInv, GoneInv
  <2> QED
    BY <2>5, <2>6, <2>7 DEF IInv, Typed
<1>2. CASE DeleteDevice
  <2>1. PICK o \in Outcome(TRUE) : DeletePost("device", o)
    BY <1>2 DEF DeleteDevice
  <2>2. o[1] \in BOOLEAN /\ o[2] \in BOOLEAN /\ (o[2] /\ "lost" \notin world => o[1])
    BY <2>1, OutcomeCases
  <2>3. /\ pc = "delete_device" /\ pc' = "deleted"
        /\ UNCHANGED <<world, made, view, job, msg, asked>>
    BY <1>2, <2>1 DEF DeleteDevice, DeletePost
  <2>4. "sim" \in Store /\ "device" \in Store
    BY DEF Store
  <2>5. /\ DeviceTyped' /\ PageTyped' /\ Flags' /\ HitsWhatWasPicked' /\ BookInv' /\ RowsInv'
        /\ seen' \in [Store -> BOOLEAN] /\ seen'["device"] = o[2] /\ seen'["sim"] = seen["sim"]
        /\ \A c : c # 0 /\ Gone(c) => Gone(c)'
        /\ "lost" \notin world /\ o[2] => \A r \in Ticked("device") : Gone(r.contact)'
    BY <2>1, <2>2, <2>4, DeletePostStep
  <2>6. JobTyped'
    BY <2>3, <2>5 DEF IInv, Typed, JobTyped
  <2>7. GoneInv'
    <3>1. (\A c \in asked : c # 0) /\ (\A r \in Ticked("sim") : r.contact # 0)
      BY PhoneBookAssumption DEF IInv, Typed, PageTyped, Contact, Row, Ticked
    <3>2. Ticked("sim")' = Ticked("sim") /\ Ticked("device")' = Ticked("device")
      BY <2>3 DEF Ticked, view
    <3> QED
      BY <2>3, <2>5, <3>1, <3>2 DEF IInv, GoneInv
  <2> QED
    BY <2>5, <2>6, <2>7 DEF IInv, Typed
<1> QED
  BY <1>1, <1>2

\* The message is shown when both requests seem to have succeeded.
LEMMA DeletedIInv ==
  ASSUME IInv, Deleted
  PROVE  IInv'
<1>1. /\ UNCHANGED <<device, menu, pages, strayed>> /\ seen' = AllSeen /\ pc = "deleted"
      /\ cur \in Nat \ {0} /\ PageAfterDelete \in Nat \ {0}
  BY DEF Deleted, PageAfterDelete, IInv, Typed, PageTyped
<1>2. seen' \in [Store -> BOOLEAN]
  BY <1>1 DEF AllSeen
<1>3. DeviceTyped'
  BY <1>1 DEF device, IInv, Typed, DeviceTyped
<1>4. Flags' /\ HitsWhatWasPicked'
  <2>1. drift' \in BOOLEAN
    BY Zenon DEF Deleted, IInv, Typed, Flags
  <2> QED
    BY <1>1, <2>1 DEF device, IInv, Typed, Flags, HitsWhatWasPicked
<1>5. CASE /\ DeletedAll /\ cur' = PageAfterDelete /\ Load(PageAfterDelete, TRUE)
           /\ msg' = "deleted" /\ asked' = Contacts(ticked)
  <2>1. /\ rows' = {} /\ ticked' = {} /\ ~all' /\ pc' = "status"
        /\ job' = [page |-> PageAfterDelete, init |-> TRUE]
    BY <1>5 DEF Load
  <2>2. job' \in [page : Nat \ {0}, init : BOOLEAN]
    BY <1>1, <2>1
  <2>3. JobTyped'
    BY <1>2, <2>1, <2>2 DEF JobTyped
  <2>4. ticked \subseteq rows /\ rows \subseteq Row
    BY DEF IInv, Typed, PageTyped
  <2>5. PageTyped'
    <3>1. asked' \subseteq Contact
      BY <1>5, <2>4 DEF Contacts, Row
    <3> QED
      BY <1>1, <1>5, <2>1, <3>1 DEF IInv, Typed, PageTyped
  <2>6. BookInv' /\ RowsInv'
    BY <1>1, <2>1, BookKept DEF device
  <2>7. GoneInv'
    <3>1. \A c \in asked' : c <= made'
      BY <1>1, <1>5, <2>4 DEF Contacts, device, IInv, RowsInv
    <3>2. ASSUME "lost" \notin world, NEW r \in ticked PROVE Gone(r.contact)
      <4>1. r \in Ticked("sim") \/ r \in Ticked("device")
        BY <2>4 DEF Ticked, Row, Store
      <4> QED
        BY <1>1, <1>5, <3>2, <4>1 DEF DeletedAll, Store, IInv, GoneInv
    <3>3. \A c : Gone(c) => Gone(c)'
      BY <1>1 DEF Gone, device
    <3> QED
      BY <1>1, <1>5, <2>1, <3>1, <3>2, <3>3 DEF GoneInv, Contacts, device
  <2> QED
    BY <1>3, <1>4, <2>3, <2>5, <2>6, <2>7 DEF IInv, Typed
<1>6. CASE ~DeletedAll /\ pc' = "idle" /\ msg' = "failed" /\ UNCHANGED <<view, cur, job, asked>>
  <2>1. JobTyped' /\ PageTyped'
    BY <1>1, <1>2, <1>6 DEF view, IInv, Typed, JobTyped, PageTyped
  <2>2. BookInv' /\ RowsInv'
    BY <1>1, <1>6, BookKept DEF device, view
  <2>3. GoneInv'
    BY <1>1, <1>6 DEF device, IInv, GoneInv
  <2> QED
    BY <1>3, <1>4, <2>1, <2>2, <2>3 DEF IInv, Typed
<1> QED
  BY <1>5, <1>6 DEF Deleted

-----------------------------------------------------------------------------
(* The dialogs.                                                            *)

\* A change of the phone book reads the table again; what is not carried out
\* leaves both.
LEMMA SavedStep ==
  ASSUME IInv, pc = "idle", UNCHANGED <<world, menu, pages, cur, seen>>, msg' = "none",
         asked' = {}, DeviceTyped', BookInv', Flags', "others" \notin world => ~strayed',
         \/ Load(1, TRUE) \/ Load(cur, TRUE)
         \/ UNCHANGED <<book, made, view, pc, job>>
  PROVE  IInv'
<1>1. cur \in Nat \ {0} /\ seen \in [Store -> BOOLEAN]
  BY DEF IInv, Typed, PageTyped, JobTyped
<1>2. HitsWhatWasPicked'
  BY DEF HitsWhatWasPicked
<1>3. CASE Load(1, TRUE) \/ Load(cur, TRUE)
  <2>1. JobTyped' /\ rows' = {} /\ ticked' = {} /\ ~all' /\ pc' = "status"
    <3>1. PICK n \in {1, cur} : job' = [page |-> n, init |-> TRUE]
      BY <1>3 DEF Load
    <3>2. job' \in [page : Nat \ {0}, init : BOOLEAN]
      BY <1>1, <3>1
    <3> QED
      BY <1>1, <1>3, <3>2 DEF Load, JobTyped
  <2>2. PageTyped' /\ RowsInv'
    BY <2>1 DEF IInv, Typed, PageTyped, RowsInv
  <2>3. GoneInv'
    BY <2>1, NothingDeleted
  <2> QED
    BY <1>2, <2>1, <2>2, <2>3 DEF IInv, Typed
<1>4. CASE UNCHANGED <<book, made, view, pc, job>>
  <2>1. PageTyped' /\ JobTyped'
    BY <1>4 DEF view, IInv, Typed, PageTyped, JobTyped
  <2>2. RowsInv'
    BY <1>4, BookKept DEF view
  <2>3. GoneInv'
    BY <1>4, NothingDeleted
  <2> QED
    BY <1>2, <2>1, <2>2, <2>3 DEF IInv, Typed
<1> QED
  BY <1>3, <1>4

LEMMA SaveEditIInv ==
  ASSUME IInv, NEW r \in rows, SaveEdit(r)
  PROVE  IInv'
<1>1. PICK o \in Outcome(Answers(r.store) /\ book[r.store][r.index] # 0) :
        strayed' = (strayed \/ (o[1] /\ ~Same(r))) /\ AfterSave(o[2])
  BY DEF SaveEdit
<1>2. /\ pc = "idle" /\ msg' = "none" /\ asked' = {}
      /\ UNCHANGED <<device, menu, pages, cur, seen>>
  BY DEF SaveEdit
<1>3. DeviceTyped' /\ BookInv'
  BY <1>2 DEF device, IInv, Typed, DeviceTyped, BookInv
<1>4. "others" \notin world => ~strayed'
  BY <1>1 DEF IInv, RowsInv, HitsWhatWasPicked
<1>5. Flags'
  BY <1>1, Zenon DEF AfterSave, IInv, Typed, Flags
<1>6. Load(1, TRUE) \/ UNCHANGED <<view, pc, job>>
  BY <1>1 DEF AfterSave
<1> QED
  BY <1>2, <1>3, <1>4, <1>5, <1>6, SavedStep DEF device

LEMMA SaveNewIInv ==
  ASSUME IInv, NEW s \in Store, SaveNew(s)
  PROVE  IInv'
<1> DEFINE p == Answers(s) /\ Free(s) # {} /\ made < MaxMade
<1>1. PICK o \in Outcome(p) :
        /\ IF o[1]
           THEN \E i \in Free(s) : book' = [book EXCEPT ![s][i] = made + 1] /\ made' = made + 1
           ELSE UNCHANGED <<book, made>>
        /\ AfterSave(o[2])
  BY DEF SaveNew
<1>2. /\ pc = "idle" /\ msg' = "none" /\ asked' = {}
      /\ UNCHANGED <<world, sim, menu, pages, cur, seen, strayed>>
  BY DEF SaveNew
<1>3. p \in BOOLEAN
  OBVIOUS
<1> HIDE DEF p
<1>4. o[1] \in BOOLEAN /\ (o[1] => p /\ o[2])
  BY <1>1, <1>3, OutcomeCases
<1>5. DeviceTyped' /\ BookInv'
  <2>1. CASE o[1]
    <3>1. PICK i \in Free(s) : book' = [book EXCEPT ![s][i] = made + 1] /\ made' = made + 1
      BY <1>1, <2>1
    <3>2. made < MaxMade
      BY <1>4, <2>1 DEF p
    <3>3. Grown(s, i)
      BY <3>1, <3>2, BookGrows
    <3> QED
      BY <1>2, <3>1, <3>3 DEF Grown, IInv, Typed, DeviceTyped
  <2>2. CASE ~o[1]
    BY <1>1, <1>2, <2>2 DEF IInv, Typed, DeviceTyped, BookInv
  <2> QED
    BY <2>1, <2>2
<1>6. Flags'
  BY <1>1, <1>2, Zenon DEF AfterSave, IInv, Typed, Flags
<1>7. Load(1, TRUE) \/ UNCHANGED <<book, made, view, pc, job>>
  BY <1>1, <1>4 DEF AfterSave
<1> QED
  BY <1>2, <1>5, <1>6, <1>7, SavedStep DEF IInv, HitsWhatWasPicked

LEMMA CopyMoveIInv ==
  ASSUME IInv, NEW r \in rows, NEW moves \in BOOLEAN, CopyMove(r, moves)
  PROVE  IInv'
<1> DEFINE to == OtherStore(r.store)
           c == book[r.store][r.index]
           p == sim = "ready" /\ Free(to) # {} /\ c # 0 /\ (moves \/ made < MaxMade)
<1>1. PICK o \in Outcome(p) :
        /\ IF o[1]
           THEN \E i \in Free(to) :
                  IF moves
                  THEN /\ book' = [book EXCEPT ![to][i] = c, ![r.store][r.index] = 0]
                       /\ made' = made
                  ELSE /\ book' = [book EXCEPT ![to][i] = made + 1]
                       /\ made' = made + 1
           ELSE UNCHANGED <<book, made>>
        /\ strayed' = (strayed \/ (o[1] /\ ~Same(r)))
        /\ IF o[2] THEN Load(cur, TRUE) ELSE UNCHANGED <<view, pc, job>>
  BY DEF CopyMove
<1>2. /\ pc = "idle" /\ msg' = "none" /\ asked' = {}
      /\ UNCHANGED <<world, sim, menu, pages, cur, seen, drift>>
  BY DEF CopyMove
<1>3. p \in BOOLEAN
  OBVIOUS
<1>4. r.store \in Store /\ r.index \in Index /\ to \in Store /\ to # r.store
  BY DEF IInv, Typed, PageTyped, Row, OtherStore, Store
<1> HIDE DEF p, to
<1>5. o[1] \in BOOLEAN /\ (o[1] => p /\ o[2])
  BY <1>1, <1>3, OutcomeCases
<1>6. DeviceTyped' /\ BookInv'
  <2>1. CASE o[1] /\ moves
    <3>1. PICK i \in Free(to) :
            book' = [book EXCEPT ![to][i] = c, ![r.store][r.index] = 0] /\ made' = made
      BY <1>1, <2>1
    <3>2. i \in Index /\ book \in [Store -> [Index -> Contact \cup {0}]] /\ c \in Contact \cup {0}
      BY <1>4 DEF Free, IInv, Typed, DeviceTyped
    <3>3. \A t \in Store, j \in Index :
            book'[t][j] = IF t = to /\ j = i THEN c
                          ELSE IF t = r.store /\ j = r.index THEN 0 ELSE book[t][j]
      BY <1>4, <3>1, <3>2
    <3>4. book' \in [Store -> [Index -> Contact \cup {0}]]
      BY <1>4, <3>1, <3>2
    <3>5. BookInv'
      <4>1. made \in Nat
        BY DEF IInv, Typed, DeviceTyped, Contact
      <4>2. \A t \in Store, j \in Index : book'[t][j] <= made'
        <5>1. c <= made /\ \A t \in Store, j \in Index : book[t][j] <= made
          BY <1>4 DEF IInv, BookInv
        <5>2. made' = made /\ 0 <= made
          BY <3>1, <4>1
        <5> HIDE DEF c
        <5> TAKE t \in Store, j \in Index
        <5>3. book'[t][j] \in {c, 0, book[t][j]}
          BY <3>3
        <5> QED
          BY <5>1, <5>2, <5>3
      <4>3. ASSUME NEW t \in Store, NEW u \in Store, NEW j \in Index, NEW k \in Index,
                   book'[t][j] = book'[u][k], book'[t][j] # 0
            PROVE  t = u /\ j = k
        BY <1>4, <3>3, <4>3 DEF IInv, BookInv
      <4> QED
        BY <4>2, <4>3 DEF BookInv
    <3> QED
      BY <1>2, <3>1, <3>4, <3>5 DEF IInv, Typed, DeviceTyped
  <2>2. CASE o[1] /\ ~moves
    <3>1. PICK i \in Free(to) : book' = [book EXCEPT ![to][i] = made + 1] /\ made' = made + 1
      BY <1>1, <2>2
    <3>2. made < MaxMade
      BY <1>5, <2>2 DEF p
    <3>3. Grown(to, i)
      BY <1>4, <3>1, <3>2, BookGrows
    <3> QED
      BY <1>2, <3>1, <3>3 DEF Grown, IInv, Typed, DeviceTyped
  <2>3. CASE ~o[1]
    BY <1>1, <1>2, <2>3 DEF IInv, Typed, DeviceTyped, BookInv
  <2> QED
    BY <2>1, <2>2, <2>3
<1>7. Flags'
  BY <1>1, <1>2, Zenon DEF IInv, Typed, Flags
<1>8. "others" \notin world => ~strayed'
  BY <1>1 DEF IInv, RowsInv, HitsWhatWasPicked
<1>9. Load(cur, TRUE) \/ UNCHANGED <<book, made, view, pc, job>>
  BY <1>1, <1>5
<1> QED
  BY <1>2, <1>6, <1>7, <1>8, <1>9, SavedStep

-----------------------------------------------------------------------------
(* Everybody else.                                                         *)

LEMMA OtherAddsIInv ==
  ASSUME IInv, NEW s \in Store, NEW i \in Index, OtherAdds(s, i)
  PROVE  IInv'
<1>1. /\ made < MaxMade /\ i \in Free(s) /\ "others" \in world /\ made' = made + 1
      /\ book' = [book EXCEPT ![s][i] = made + 1]
      /\ UNCHANGED <<world, sim, menu, view, pages, cur, pc, job, seen, msg, ghosts>>
  BY DEF OtherAdds
<1>2. /\ book' \in [Store -> [Index -> Contact \cup {0}]] /\ made' \in Contact /\ BookInv'
      /\ \A t \in Store, j \in Index :
           book'[t][j] = IF t = s /\ j = i THEN made + 1 ELSE book[t][j]
  <2>1. made < MaxMade /\ i \in Free(s) /\ made' = made + 1
    BY <1>1
  <2>2. book' = [book EXCEPT ![s][i] = made + 1]
    BY <1>1
  <2>3. Grown(s, i)
    BY <2>1, <2>2, BookGrows
  <2> QED
    BY <2>1, <2>3 DEF Grown
<1>3. made \in Nat /\ \A q \in rows : q.contact \in Nat /\ q.contact <= made
  BY DEF IInv, Typed, DeviceTyped, PageTyped, RowsInv, Row, Contact
<1>4. DeviceTyped' /\ PageTyped' /\ JobTyped'
  BY <1>1, <1>2 DEF view, ghosts, IInv, Typed, DeviceTyped, PageTyped, JobTyped
<1>5. Flags' /\ HitsWhatWasPicked'
  BY <1>1 DEF ghosts, IInv, Typed, Flags, HitsWhatWasPicked
<1>6. RowsInv'
  BY <1>1, <1>2, <1>3 DEF view, IInv, RowsInv
<1>7. GoneInv'
  <2>1. \A d \in Nat : d <= made /\ Gone(d) => Gone(d)'
    BY <1>2, <1>3 DEF Gone
  <2>2. \A d \in asked : d \in Nat /\ d <= made
    BY DEF IInv, Typed, PageTyped, GoneInv, Contact
  <2>3. /\ Ticked("sim")' = Ticked("sim") /\ Ticked("device")' = Ticked("device")
        /\ Ticked("sim") \subseteq rows /\ Ticked("device") \subseteq rows
    BY <1>1 DEF Ticked, view, IInv, Typed, PageTyped
  <2> QED
    BY <1>1, <1>3, <2>1, <2>2, <2>3 DEF ghosts, IInv, GoneInv
<1> QED
  BY <1>2, <1>4, <1>5, <1>6, <1>7 DEF IInv, Typed

LEMMA OtherDeletesIInv ==
  ASSUME IInv, NEW s \in Store, NEW i \in Index, OtherDeletes(s, i)
  PROVE  IInv'
<1>1. /\ book' = [book EXCEPT ![s][i] = 0]
      /\ UNCHANGED <<world, made, sim, menu, view, pages, cur, pc, job, seen, msg, ghosts>>
  BY DEF OtherDeletes
<1>2. book \in [Store -> [Index -> Contact \cup {0}]]
  BY DEF IInv, Typed, DeviceTyped
<1>3. /\ book' \in [Store -> [Index -> Contact \cup {0}]]
      /\ \A t \in Store, j \in Index : book'[t][j] \in {book[t][j], 0}
  BY <1>1, <1>2
<1>4. DeviceTyped' /\ PageTyped' /\ JobTyped'
  BY <1>1, <1>3 DEF view, ghosts, IInv, Typed, DeviceTyped, PageTyped, JobTyped
<1>5. Flags' /\ HitsWhatWasPicked'
  BY <1>1 DEF ghosts, IInv, Typed, Flags, HitsWhatWasPicked
<1>6. BookInv' /\ RowsInv' /\ \A c : c # 0 /\ Gone(c) => Gone(c)'
  BY <1>1, <1>3, <1>4, BookShrinks DEF view
<1>7. GoneInv'
  <2>1. \A c \in asked : c # 0
    BY PhoneBookAssumption DEF IInv, Typed, PageTyped, Contact
  <2>2. /\ Ticked("sim")' = Ticked("sim") /\ Ticked("device")' = Ticked("device")
        /\ \A r \in Ticked("sim") \cup Ticked("device") : r.contact # 0
    BY <1>1, PhoneBookAssumption DEF Ticked, view, IInv, Typed, PageTyped, Row, Contact
  <2> QED
    BY <1>1, <1>6, <2>1, <2>2 DEF ghosts, IInv, GoneInv
<1> QED
  BY <1>4, <1>5, <1>6, <1>7 DEF IInv, Typed

\* The page, the book and the history stay.
LEMMA SameBook ==
  ASSUME IInv, sim' \in SimState,
         UNCHANGED <<world, book, made, menu, view, pages, cur, pc, job, seen, msg, ghosts>>
  PROVE  IInv'
<1>1. DeviceTyped' /\ PageTyped' /\ JobTyped'
  BY DEF view, ghosts, IInv, Typed, DeviceTyped, PageTyped, JobTyped
<1>2. Flags' /\ HitsWhatWasPicked'
  BY DEF ghosts, IInv, Typed, Flags, HitsWhatWasPicked
<1>3. BookInv' /\ RowsInv'
  BY BookKept DEF view
<1>4. GoneInv'
  BY DEF view, ghosts, IInv, GoneInv, Gone, Ticked
<1> QED
  BY <1>1, <1>2, <1>3, <1>4 DEF IInv, Typed

-----------------------------------------------------------------------------
(* The whole.                                                              *)

LEMMA InitIInv == Init => IInv
<1> SUFFICES ASSUME Init PROVE IInv
  OBVIOUS
<1>1. \A s \in Store, i \in Index :
        book[s][i] = IF i # 1 THEN 0 ELSE IF s = "device" THEN 1 ELSE 2
  BY DEF Init
<1>2. DeviceTyped
  BY PhoneBookAssumption DEF Init, DeviceTyped, Contact, SimState
<1>3. PageTyped
  BY DEF Init, PageTyped, Menu
<1>4. JobTyped
  <2>1. job \in [page : Nat \ {0}, init : BOOLEAN] /\ seen \in [Store -> BOOLEAN]
    BY DEF Init, AllSeen
  <2> QED
    BY <2>1 DEF Init, JobTyped
<1>5. Flags /\ HitsWhatWasPicked
  BY Zenon DEF Init, Flags, HitsWhatWasPicked
<1>6. BookInv
  BY <1>1 DEF Init, BookInv, Store
<1>7. RowsInv /\ GoneInv
  BY DEF Init, RowsInv, GoneInv
<1> QED
  BY <1>2, <1>3, <1>4, <1>5, <1>6, <1>7 DEF IInv, Typed

LEMMA NextIInv == IInv /\ [Next]_vars => IInv'
<1> SUFFICES ASSUME IInv, [Next]_vars PROVE IInv'
  OBVIOUS
<1>1. sim \in SimState
  BY DEF IInv, Typed, DeviceTyped
<1>2. CASE UNCHANGED vars
  BY <1>1, <1>2, SameBook DEF vars, device
<1>3. CASE \E state \in SimState : SimChange(state)
  BY <1>3, SameBook DEF SimChange
<1>4. CASE Next /\ ~\E state \in SimState : SimChange(state)
  BY <1>4, StatusIInv, FetchIInv, OpenIInv, TickIInv, DeleteIInv, RequestsIInv, DeletedIInv,
    SaveEditIInv, SaveNewIInv, CopyMoveIInv, OtherAddsIInv, OtherDeletesIInv DEF Next
<1> QED
  BY <1>2, <1>3, <1>4

LEMMA PhoneBookInductive == Spec => []IInv
<1> QED
  BY InitIInv, NextIInv, PTL DEF Spec

\* Every variable has its type, whatever interferes with the page.
THEOREM TypeCorrect == Spec => []TypeOK
<1>1. IInv => TypeOK
  <2> SUFFICES ASSUME IInv PROVE TypeOK
    OBVIOUS
  <2>1. {strayed, drift} \subseteq BOOLEAN
    BY Zenon DEF IInv, Typed, Flags
  <2> QED
    BY <2>1 DEF IInv, Typed, DeviceTyped, PageTyped, JobTyped, TypeOK
<1> QED
  BY <1>1, PhoneBookInductive, PTL

\* While nobody else edits the phone book, every request names the slot of a
\* contact the user has picked, whatever requests fail or are lost.
THEOREM PicksAreHit == Spec => []HitsWhatWasPicked
<1>1. IInv => HitsWhatWasPicked
  BY DEF IInv
<1> QED
  BY <1>1, PhoneBookInductive, PTL

\* The contacts of a delete that is reported as done are in no slot any more,
\* while others add, delete and pull the SIM card.
THEOREM DeletesAreReal == Spec => []DeletedMeansGone
<1>1. IInv => DeletedMeansGone
  BY DEF IInv, GoneInv, Gone, DeletedMeansGone, InBook
<1> QED
  BY <1>1, PhoneBookInductive, PTL

-----------------------------------------------------------------------------
(* Pages of a list.  The rows of a list are in a total order, so every place *)
(* in it is taken, and what is left of a page that loses some of its rows    *)
(* is on the same page, or else on the page before it.                       *)

PageIn(L, n) == {r \in L : Cardinality({q \in L : Precedes(q, r)}) \div PageCap = n - 1}

Before(L, r) == {q \in L : Precedes(q, r)}
Place(L, r) == Cardinality(Before(L, r))

\* No two rows of a list are of one slot.
Slotted(L) ==
  /\ IsFiniteSet(L) /\ \A r \in L : r.store \in Store /\ r.index \in Index
  /\ \A q, r \in L : q.store = r.store /\ q.index = r.index => q = r

LEMMA RowOrder ==
  ASSUME NEW L, Slotted(L), NEW q \in L, NEW r \in L
  PROVE  /\ ~Precedes(r, r) /\ (q = r \/ Precedes(q, r) \/ Precedes(r, q))
         /\ \A x \in L : Precedes(x, q) /\ Precedes(q, r) => Precedes(x, r)
<1>1. Index \subseteq Nat
  BY PhoneBookAssumption DEF Index, Slots
<1>2. \A x \in L : x.store \in {"device", "sim"} /\ x.index \in Nat
  BY <1>1 DEF Slotted, Store
<1> QED
  BY <1>2 DEF Slotted, Precedes

LEMMA PlaceRange ==
  ASSUME NEW L, Slotted(L), NEW r \in L
  PROVE  /\ IsFiniteSet(Before(L, r)) /\ Place(L, r) \in Nat /\ Cardinality(L) \in Nat
         /\ Place(L, r) < Cardinality(L)
<1>1. Before(L, r) \in SUBSET L /\ r \notin Before(L, r) /\ IsFiniteSet(L)
  BY RowOrder DEF Before, Slotted
<1>2. IsFiniteSet(Before(L, r)) /\ Place(L, r) <= Cardinality(L) /\ Place(L, r) # Cardinality(L)
  BY <1>1, FS_Subset DEF Place
<1>3. Place(L, r) \in Nat /\ Cardinality(L) \in Nat
  BY <1>1, <1>2, FS_CardinalityType DEF Place
<1> QED
  BY <1>2, <1>3

LEMMA PlaceGrows ==
  ASSUME NEW L, Slotted(L), NEW q \in L, NEW r \in L, Precedes(q, r)
  PROVE  Place(L, q) < Place(L, r)
<1>1. Before(L, q) \in SUBSET Before(L, r) /\ q \in Before(L, r) /\ q \notin Before(L, q)
  BY RowOrder DEF Before
<1>2. IsFiniteSet(Before(L, r)) /\ Place(L, q) \in Nat /\ Place(L, r) \in Nat
  BY PlaceRange
<1>3. Place(L, q) <= Place(L, r) /\ Place(L, q) # Place(L, r)
  BY <1>1, <1>2, FS_Subset DEF Place
<1> QED
  BY <1>2, <1>3

\* Every place in a list is taken.
LEMMA PlaceTaken ==
  ASSUME NEW L, Slotted(L), NEW i \in Nat, i < Cardinality(L)
  PROVE  \E r \in L : Place(L, r) = i
<1> DEFINE c == Cardinality(L)
           f == [r \in L |-> Place(L, r)]
<1>1. c \in Nat
  BY FS_CardinalityType DEF Slotted
<1>2. \A r \in L : Place(L, r) \in 0..(c - 1)
  BY PlaceRange
<1> HIDE DEF c
<1>3. IsFiniteSet(0..(c - 1)) /\ Cardinality(0..(c - 1)) = c
  <2>1. 0 \in Int /\ c - 1 \in Int /\ (0 > c - 1 => c = 0) /\ (c - 1) - 0 + 1 = c
    BY <1>1
  <2>2. /\ IsFiniteSet(0..(c - 1))
        /\ Cardinality(0..(c - 1)) = IF 0 > c - 1 THEN 0 ELSE (c - 1) - 0 + 1
    BY <2>1, FS_Interval
  <2> QED
    BY <2>1, <2>2
<1>4. f \in Injection(L, 0..(c - 1))
  <2>1. \A q, r \in L : Place(L, q) = Place(L, r) => q = r
    <3> TAKE q, r \in L
    <3>1. Place(L, q) \in Nat /\ Place(L, r) \in Nat
      BY PlaceRange
    <3>2. Precedes(q, r) => Place(L, q) < Place(L, r)
      BY PlaceGrows
    <3>3. Precedes(r, q) => Place(L, r) < Place(L, q)
      BY PlaceGrows
    <3> QED
      BY <3>1, <3>2, <3>3, RowOrder
  <2> QED
    BY <1>2, <2>1 DEF Injection, IsInjective
<1>5. f \in Surjection(L, 0..(c - 1))
  BY <1>3, <1>4, FS_Injection DEF c
<1>6. i \in 0..(c - 1)
  BY <1>1 DEF c
<1> QED
  BY <1>5, <1>6 DEF Surjection

\* The places of a page.
LEMMA DivPage ==
  ASSUME NEW x \in Nat, NEW n \in Nat \ {0}
  PROVE  x \div PageCap = n - 1 <=> (n - 1) * PageCap <= x /\ x < (n - 1) * PageCap + PageCap
<1> DEFINE d == x \div PageCap
<1>1. PageCap \in Nat \ {0}
  BY PhoneBookAssumption
<1>2. d \in Nat /\ d * PageCap <= x /\ x < d * PageCap + PageCap
  BY <1>1
<1> HIDE DEF d
<1>3. ASSUME NEW a \in Nat, NEW b \in Nat, a < b PROVE a * PageCap + PageCap <= b * PageCap
  <2>1. PICK e \in Nat : b = a + 1 + e
    <3>1. b - a - 1 \in Nat /\ b = a + 1 + (b - a - 1)
      BY <1>3
    <3> QED
      BY <3>1
  <2>2. b * PageCap = a * PageCap + PageCap + e * PageCap
    BY <1>1, <2>1
  <2>3. e * PageCap \in Nat /\ a * PageCap \in Nat
    BY <1>1
  <2> QED
    BY <1>1, <2>2, <2>3
<1>4. n - 1 \in Nat
  OBVIOUS
<1> DEFINE m == n - 1
           A == d * PageCap
           B == m * PageCap
<1>5. m \in Nat /\ A \in Nat /\ B \in Nat
  BY <1>1, <1>2, <1>4
<1>6. (d < m => A + PageCap <= B) /\ (m < d => B + PageCap <= A)
  BY <1>2, <1>3, <1>5
<1>7. d = m => A = B
  OBVIOUS
<1> HIDE DEF m, A, B
<1>8. d = m <=> B <= x /\ x < B + PageCap
  <2>1. A <= x /\ x < A + PageCap
    BY <1>2 DEF A
  <2> QED
    BY <1>1, <1>2, <1>5, <1>6, <1>7, <2>1
<1> QED
  BY <1>8 DEF d, m, B

\* A row is on the page of its place.
LEMMA OnPage ==
  ASSUME NEW L, Slotted(L), NEW n \in Nat \ {0}, NEW r \in L
  PROVE  r \in PageIn(L, n)
           <=> (n - 1) * PageCap <= Place(L, r) /\ Place(L, r) < (n - 1) * PageCap + PageCap
BY PlaceRange, DivPage DEF PageIn, Place, Before

\* Rows of page n go from a list.
LEMMA PageLeft ==
  ASSUME NEW L, Slotted(L), NEW n \in Nat \ {0}, NEW T, T \subseteq PageIn(L, n)
  PROVE  /\ T # PageIn(L, n) => PageIn(L \ T, n) # {}
         /\ T # {} /\ n # 1 => PageIn(L \ T, n - 1) # {}
         /\ L \ T # {} => PageIn(L \ T, 1) # {}
<1> DEFINE M == L \ T
           F == (n - 1) * PageCap
<1>1. PageCap \in Nat \ {0} /\ F \in Nat
  BY PhoneBookAssumption
<1>2. M \in SUBSET L /\ Slotted(M)
  BY FS_Subset DEF Slotted
<1>3. \A q \in L : Place(L, q) < F => q \in M
  BY <1>1, OnPage, PlaceRange
<1> HIDE DEF M
<1>4. \A x \in L : \A q \in Before(L, x) : Place(L, x) <= F => q \in M
  <2> TAKE x \in L
  <2> TAKE q \in Before(L, x)
  <2>1. q \in L /\ Place(L, q) < Place(L, x)
    BY PlaceGrows DEF Before
  <2>2. Place(L, q) \in Nat /\ Place(L, x) \in Nat
    BY <2>1, PlaceRange
  <2> HIDE DEF F
  <2> QED
    BY <1>1, <1>3, <2>1, <2>2
<1>5. ASSUME NEW r \in PageIn(L, n)
      PROVE  r \in L /\ F <= Place(L, r) /\ Place(L, r) < F + PageCap /\ F < Cardinality(L)
             /\ Place(L, r) \in Nat
  <2>1. r \in L
    BY DEF PageIn
  <2>2. F <= Place(L, r) /\ Place(L, r) < F + PageCap
    BY <2>1, OnPage
  <2>3. Place(L, r) \in Nat /\ Cardinality(L) \in Nat /\ Place(L, r) < Cardinality(L)
    BY <2>1, PlaceRange
  <2> HIDE DEF F
  <2> QED
    BY <1>1, <2>1, <2>2, <2>3
<1>6. ASSUME T # PageIn(L, n) PROVE PageIn(M, n) # {}
  <2>1. PICK r \in PageIn(L, n) : r \notin T
    BY <1>6
  <2>2. /\ r \in L /\ F <= Place(L, r) /\ Place(L, r) < F + PageCap /\ F < Cardinality(L)
        /\ Place(L, r) \in Nat
    BY <1>5
  <2>3. PICK x \in L : Place(L, x) = F
    <3> HIDE DEF F
    <3> QED
      BY <1>1, <2>2, PlaceTaken
  <2>4. r \in M
    BY <2>1, <2>2 DEF M
  <2>5. x = r \/ Precedes(x, r)
    <3>1. Precedes(r, x) => Place(L, r) < Place(L, x)
      BY <2>2, PlaceGrows
    <3> HIDE DEF F
    <3>2. ~Precedes(r, x)
      BY <1>1, <2>2, <2>3, <3>1
    <3> QED
      BY <2>2, <3>2, RowOrder
  <2>6. Before(L, x) \subseteq Before(M, r)
    <3> SUFFICES ASSUME NEW q \in Before(L, x) PROVE q \in Before(M, r)
      OBVIOUS
    <3>1. q \in L /\ Precedes(q, x)
      BY DEF Before
    <3>2. Precedes(q, r)
      BY <2>2, <2>5, <3>1, RowOrder
    <3>3. q \in M
      <4>1. Place(L, x) <= F
        BY <1>1, <2>3
      <4> QED
        BY <1>4, <4>1
    <3> QED
      BY <3>2, <3>3 DEF Before
  <2>7. Before(M, r) \subseteq Before(L, r)
    BY <1>2 DEF Before
  <2>8. Place(L, x) <= Place(M, r) /\ Place(M, r) <= Place(L, r) /\ Place(M, r) \in Nat
    <3>1. IsFiniteSet(Before(M, r)) /\ IsFiniteSet(Before(L, r)) /\ Place(M, r) \in Nat
      BY <1>2, <2>2, <2>4, PlaceRange
    <3> QED
      BY <2>6, <2>7, <3>1, FS_Subset DEF Place
  <2>9. F <= Place(M, r) /\ Place(M, r) < F + PageCap
    <3> HIDE DEF F
    <3> QED
      BY <1>1, <2>2, <2>3, <2>8
  <2> QED
    BY <1>2, <2>4, <2>9, OnPage
<1>7. ASSUME T # {}, n # 1 PROVE PageIn(M, n - 1) # {}
  <2>1. PICK r : r \in T
    BY <1>7
  <2>2. F < Cardinality(L)
    BY <1>5, <2>1
  <2>3. n - 1 \in Nat \ {0} /\ F = (n - 2) * PageCap + PageCap /\ (n - 2) * PageCap \in Nat
    <3>1. n - 2 \in Nat /\ n - 1 = (n - 2) + 1
      BY <1>7
    <3> QED
      BY <1>1, <3>1
  <2> DEFINE G == (n - 2) * PageCap
  <2>4. G \in Nat /\ F = G + PageCap
    BY <2>3
  <2> HIDE DEF F, G
  <2>5. F - 1 \in Nat /\ F - 1 < Cardinality(L)
    <3>1. Cardinality(L) \in Nat
      BY FS_CardinalityType DEF Slotted
    <3> QED
      BY <1>1, <2>2, <2>4, <3>1
  <2>6. PICK x \in L : Place(L, x) = F - 1
    BY <2>5, PlaceTaken
  <2>7. x \in M /\ Place(L, x) <= F
    BY <1>1, <1>3, <2>6
  <2>8. Before(M, x) = Before(L, x)
    BY <1>2, <1>4, <2>7 DEF Before
  <2>9. G <= Place(M, x) /\ Place(M, x) < G + PageCap
    BY <1>1, <2>4, <2>6, <2>8 DEF Place
  <2>10. (n - 1) - 1 = n - 2
    OBVIOUS
  <2> QED
    BY <1>2, <2>3, <2>7, <2>9, <2>10, OnPage DEF G
<1>8. ASSUME M # {} PROVE PageIn(M, 1) # {}
  <2>1. Cardinality(M) \in Nat /\ Cardinality(M) # 0
    BY <1>2, <1>8, FS_CardinalityType, FS_EmptySet DEF Slotted
  <2>2. PICK x \in M : Place(M, x) = 0
    BY <1>2, <2>1, PlaceTaken
  <2>3. \A k \in Nat \ {0} : k = 1 => (k - 1) * PageCap <= 0 /\ 0 < (k - 1) * PageCap + PageCap
    BY <1>1
  <2>4. \A k \in Nat \ {0} : k = 1 => x \in PageIn(M, k)
    BY <1>2, <2>2, <2>3, OnPage
  <2> QED
    BY <2>4
<1> QED
  BY <1>6, <1>7, <1>8 DEF M

-----------------------------------------------------------------------------
(* What the table is a page of.  While the browser is alone with the phone   *)
(* book, and neither saved from another page than the first nor had a delete *)
(* fail halfway, the table is the current page of the list, or the page that *)
(* it was before the requests of the running delete.                         *)

Loading == pc \in {"status", "fetch"}
Deleting == pc \in {"delete_sim", "delete_device", "deleted"}

\* No two rows of the table are of one slot.
RowsApart == \A q, r \in rows : q.store = r.store /\ q.index = r.index => q = r

\* A full page is known to be ticked, and a delete is about something.
TicksKnown ==
  /\ all \/ ticked = {} \/ ticked # rows
  /\ Deleting => ticked # {}

\* The ticked contacts of a request that failed, or is still to be made, are there.
Undeleted(s) == Ticked(s) \subseteq Listed
RequestsLeft ==
  /\ pc = "delete_sim" => Undeleted("sim")
  /\ pc \in {"delete_sim", "delete_device"} => Undeleted("device")
  /\ pc \in {"delete_device", "deleted"} /\ ~seen["sim"] => Undeleted("sim")
  /\ pc = "deleted" /\ ~seen["device"] => Undeleted("device")

ShowsCurrent ==
  /\ Loading => job.page = cur
  /\ pc = "idle" => rows = Page(cur)
  /\ Deleting => rows = PageIn(Listed \cup ticked, cur)
  /\ ~Deleting /\ msg = "deleted" /\ Listed # {} => Page(cur) # {}

PInv ==
  /\ RowsApart /\ TicksKnown
  /\ world = {} => sim = "ready"
  /\ world = {} /\ ~drift => ShowsCurrent /\ RequestsLeft

\* The list asked for is that of the current page.
LEMMA LoadPInv ==
  ASSUME PInv, NEW n, NEW init, Load(n, init), UNCHANGED <<world, sim>>,
         world = {} /\ ~drift' => n = cur' /\ (msg' = "deleted" /\ Listed' # {} => Page(cur)' # {})
  PROVE  PInv'
<1>1. rows' = {} /\ ticked' = {} /\ pc' = "status" /\ job' = [page |-> n, init |-> init]
  BY DEF Load
<1>2. RowsApart' /\ TicksKnown'
  BY <1>1 DEF RowsApart, TicksKnown, Deleting
<1>3. RequestsLeft'
  BY <1>1 DEF RequestsLeft
<1>4. world = {} /\ ~drift' => ShowsCurrent'
  BY <1>1 DEF ShowsCurrent, Loading, Deleting
<1> QED
  BY <1>2, <1>3, <1>4 DEF PInv

\* The table and the phone book stay, and no deletion is reported.
LEMMA StillPInv ==
  ASSUME PInv, pc = "idle", pc' = "idle", drift' = drift, msg' # "deleted",
         world = {} => UNCHANGED book,
         UNCHANGED <<world, sim, menu, view, cur>>
  PROVE  PInv'
<1>1. RowsApart' /\ TicksKnown'
  BY DEF PInv, RowsApart, TicksKnown, Deleting, view
<1>2. RequestsLeft'
  BY DEF RequestsLeft
<1>3. ASSUME world = {}, ~drift PROVE ShowsCurrent'
  <2>1. Page(cur)' = Page(cur)
    BY <1>3 DEF Page, Listed, Rows
  <2> QED
    BY <1>3, <2>1 DEF PInv, ShowsCurrent, Loading, Deleting, view
<1> QED
  BY <1>1, <1>2, <1>3 DEF PInv

LEMMA ReadPInv ==
  ASSUME IInv, PInv, NEW known \in BOOLEAN, SimStatus(known) \/ Fetch(known)
  PROVE  PInv'
<1>1. UNCHANGED <<device, menu, cur, seen, msg, ghosts, ticked, all>> /\ Loading /\ ticked = {} /\ ~all
  BY DEF SimStatus, Fetch, view, Loading, IInv, Typed, JobTyped
<1>2. UNCHANGED <<world, book, sim, drift>>
  BY <1>1 DEF device, ghosts
<1>3. Listed' = Listed /\ Page(cur)' = Page(cur)
  BY <1>1, <1>2 DEF Page, Listed, Rows
<1>4. CASE SimStatus(known)
  <2>1. /\ rows' = rows /\ pc' \in {"idle", "fetch"} /\ job' \in {NoJob, job}
        /\ pc' = "fetch" => job' = job
    BY <1>4 DEF SimStatus, view
  <2>2. world = {} => pc' = "fetch"
    BY <1>4 DEF SimStatus, PInv
  <2>3. RowsApart' /\ TicksKnown' /\ RequestsLeft'
    BY <1>1, <2>1 DEF PInv, RowsApart, TicksKnown, RequestsLeft, Deleting
  <2>4. world = {} /\ ~drift => ShowsCurrent'
    BY <1>1, <1>3, <2>1, <2>2 DEF PInv, ShowsCurrent, Loading, Deleting
  <2> QED
    BY <1>2, <2>3, <2>4 DEF PInv
<1>5. CASE Fetch(known)
  <2>1. pc' = "idle" /\ (world = {} => known) /\ rows' = IF known THEN Page(job.page) ELSE {}
    BY <1>5 DEF Fetch
  <2>2. RowsApart'
    <3>1. \A q, r \in Page(job.page) : q.store = r.store /\ q.index = r.index => q = r
      BY DEF Page, Listed, Rows
    <3> QED
      BY <2>1, <3>1 DEF RowsApart
  <2>3. TicksKnown' /\ RequestsLeft'
    BY <1>1, <2>1 DEF TicksKnown, RequestsLeft, Deleting
  <2>4. world = {} /\ ~drift => ShowsCurrent'
    BY <1>1, <1>3, <2>1 DEF PInv, ShowsCurrent, Loading, Deleting
  <2> QED
    BY <1>2, <2>2, <2>3, <2>4 DEF PInv
<1> QED
  BY <1>4, <1>5

LEMMA TickPInv ==
  ASSUME IInv, PInv, TickAll \/ \E r \in rows : Tick(r)
  PROVE  PInv'
<1>1. /\ UNCHANGED <<device, menu, rows, pages, cur, pc, job, seen, msg, ghosts>> /\ pc = "idle"
  BY DEF Tick, TickAll
<1>2. all' \/ ticked' = {} \/ ticked' # rows'
  BY DEF Tick, TickAll
<1>3. UNCHANGED <<world, book, sim, drift>>
  BY <1>1 DEF device, ghosts
<1>4. Listed' = Listed /\ Page(cur)' = Page(cur)
  BY <1>1, <1>3 DEF Page, Listed, Rows
<1>5. RowsApart' /\ TicksKnown' /\ RequestsLeft'
  BY <1>1, <1>2 DEF PInv, RowsApart, TicksKnown, RequestsLeft, Deleting
<1>6. world = {} /\ ~drift => ShowsCurrent'
  BY <1>1, <1>4 DEF PInv, ShowsCurrent, Loading, Deleting
<1> QED
  BY <1>3, <1>5, <1>6 DEF PInv

\* A delete begins: what is ticked is on the page, and so in the list.
LEMMA DeletePInv ==
  ASSUME IInv, PInv, Delete
  PROVE  PInv'
<1>1. /\ UNCHANGED <<device, menu, view, cur, seen, drift>> /\ pc = "idle" /\ ticked # {}
      /\ pc' \in {"delete_sim", "delete_device"}
      /\ pc' = "delete_device" => Ticked("sim") = {}
  BY DEF Delete
<1>2. UNCHANGED <<world, book, sim, rows, ticked, all>>
  BY <1>1 DEF device, view
<1>3. Listed' = Listed
  BY <1>1, <1>2 DEF Listed, Rows
<1>4. RowsApart' /\ TicksKnown'
  BY <1>1, <1>2 DEF PInv, RowsApart, TicksKnown
<1>5. ASSUME world = {}, ~drift PROVE ShowsCurrent' /\ RequestsLeft'
  <2>1. rows = Page(cur) /\ ticked \subseteq rows
    BY <1>1, <1>5 DEF PInv, ShowsCurrent, IInv, Typed, PageTyped
  <2>2. rows = PageIn(Listed, cur) /\ ticked \subseteq Listed
    BY <2>1 DEF Page, PageIn
  <2>3. Listed \cup ticked = Listed
    BY <2>2
  <2>4. ShowsCurrent'
    BY <1>1, <1>2, <1>3, <2>2, <2>3 DEF ShowsCurrent, Loading, Deleting, PageIn, Precedes
  <2>5. RequestsLeft'
    BY <1>1, <1>2, <1>3, <2>2 DEF RequestsLeft, Undeleted, Ticked
  <2> QED
    BY <2>4, <2>5
<1> QED
  BY <1>1, <1>2, <1>4, <1>5 DEF PInv

\* One of the two requests: the list and what is ticked stay the same together.
LEMMA PostPInv ==
  ASSUME IInv, PInv, NEW s \in Store, NEW o, DeletePost(s, o), world = {}, ~drift,
         o[1] \in BOOLEAN, o[2] \in BOOLEAN, o[1] <=> o[2], Undeleted(s)
  PROVE  /\ Listed' \cup ticked' = Listed \cup ticked
         /\ ~seen'[s] => Undeleted(s)'
         /\ \A t \in Store : t # s => seen'[t] = seen[t] /\ (Undeleted(t) => Undeleted(t)')
<1> DEFINE slots == {r.index : r \in Ticked(s)}
<1>1. /\ UNCHANGED <<world, made, sim, menu, view, pages, cur, job, msg, asked, drift>>
      /\ book' = IF o[1] THEN [book EXCEPT ![s] = [i \in Index |-> IF i \in slots THEN 0
                                                                   ELSE book[s][i]]]
                ELSE book
      /\ seen' = [seen EXCEPT ![s] = o[2]]
  BY DEF DeletePost
<1>2. UNCHANGED <<rows, ticked>> /\ \A t \in Store : Ticked(t)' = Ticked(t)
  BY <1>1 DEF view, Ticked
<1>3. /\ book \in [Store -> [Index -> Contact \cup {0}]] /\ seen \in [Store -> BOOLEAN]
      /\ ticked \subseteq rows /\ rows \subseteq Row
  BY DEF IInv, Typed, DeviceTyped, PageTyped, JobTyped
<1>4. \A t \in Store : t # s => seen'[t] = seen[t]
  BY <1>1, <1>3
<1>5. CASE ~o[1]
  <2>1. Listed' = Listed
    BY <1>1, <1>5 DEF Listed, Rows
  <2> QED
    BY <1>2, <1>4, <2>1 DEF Undeleted
<1>6. CASE o[1]
  <2>1. seen'[s]
    BY <1>1, <1>3, <1>6
  <2> HIDE DEF slots
  <2> DEFINE g == [i \in Index |-> IF i \in slots THEN 0 ELSE book[s][i]]
  <2>2. book' = [book EXCEPT ![s] = g]
    BY <1>1, <1>6
  <2>3. \A t \in Store, i \in Index :
          book'[t][i] = IF t = s /\ i \in slots THEN 0 ELSE book[t][i]
    BY <1>3, <2>2
  <2> HIDE DEF g
  <2>4. \A r \in Row : r \in Listed <=> /\ r.store = "device" \/ sim = "ready"
                                        /\ r.contact = book[r.store][r.index]
                                        /\ r.contact # 0 /\ menu \in {"all", r.store}
    BY DEF Listed, Rows, Row
  <2>5. \A r \in Row : r \in Listed' <=> /\ r.store = "device" \/ sim = "ready"
                                         /\ r.contact = book'[r.store][r.index]
                                         /\ r.contact # 0 /\ menu \in {"all", r.store}
    BY <1>1 DEF Listed, Rows, Row
  <2>6. Listed \subseteq Row
    BY ListedRows DEF IInv, Typed
  <2>7. Listed' \subseteq Row
    <3>1. \A r \in Listed' : /\ r \in [store : Store, index : Index, contact : {r.contact}]
                             /\ r.contact = book'[r.store][r.index] /\ r.contact # 0
      BY DEF Listed, Rows
    <3>2. \A t \in Store, i \in Index : book'[t][i] \in Contact \cup {0}
      BY <1>3, <2>3
    <3> QED
      BY <3>1, <3>2 DEF Row
  <2>8. ASSUME NEW r \in Row
        PROVE  r \in Listed' <=> r \in Listed /\ ~(r.store = s /\ r.index \in slots)
    <3>1. r.store \in Store /\ r.index \in Index /\ r.contact # 0
      BY PhoneBookAssumption DEF Row, Contact
    <3> QED
      BY <2>3, <2>4, <2>5, <3>1
  <2>9. ASSUME NEW r \in Listed, r.store = s, r.index \in slots PROVE r \in ticked
    <3>1. PICK q \in Ticked(s) : q.index = r.index
      BY <2>9 DEF slots
    <3>2. q \in Listed /\ q.store = s /\ q \in ticked
      BY <3>1 DEF Undeleted, Ticked
    <3>3. q = r
      BY <2>9, <3>1, <3>2 DEF Listed, Rows
    <3> QED
      BY <3>2, <3>3
  <2>10. Listed' \cup ticked' = Listed \cup ticked
    <3>1. ticked \subseteq Row
      BY <1>3
    <3> QED
      BY <1>2, <2>6, <2>7, <2>8, <2>9, <3>1
  <2>11. ASSUME NEW t \in Store, t # s, Undeleted(t) PROVE Undeleted(t)'
    <3>1. \A r \in Ticked(t) : r \in Row /\ r.store = t /\ r \in Listed
      BY <1>3, <2>11 DEF Ticked, Undeleted
    <3> QED
      BY <1>2, <2>8, <2>11, <3>1 DEF Undeleted
  <2> QED
    BY <1>4, <2>1, <2>10, <2>11
<1> QED
  BY <1>5, <1>6

LEMMA RequestsPInv ==
  ASSUME IInv, PInv, DeleteSim \/ DeleteDevice
  PROVE  PInv'
<1>1. PICK s \in Store, p \in BOOLEAN :
        /\ \E o \in Outcome(p) : DeletePost(s, o)
        /\ IF s = "sim" THEN /\ pc = "delete_sim"
                             /\ pc' = IF Ticked("device") # {} THEN "delete_device" ELSE "deleted"
           ELSE s = "device" /\ pc = "delete_device" /\ pc' = "deleted"
  <2>1. "sim" \in Store /\ "device" \in Store /\ "device" # "sim"
    BY DEF Store
  <2>2. CASE DeleteSim
    <3> DEFINE p == sim = "ready"
    <3>1. p \in BOOLEAN
      OBVIOUS
    <3>2. PICK o \in Outcome(p) : DeletePost("sim", o)
      BY <2>2 DEF DeleteSim
    <3> HIDE DEF p
    <3> QED
      BY <2>1, <2>2, <3>1, <3>2 DEF DeleteSim
  <2>3. CASE DeleteDevice
    <3>1. PICK o \in Outcome(TRUE) : DeletePost("device", o)
      BY <2>3 DEF DeleteDevice
    <3> QED
      BY <2>1, <2>3, <3>1 DEF DeleteDevice
  <2> QED
    BY <2>2, <2>3
<1>2. PICK o \in Outcome(p) : DeletePost(s, o)
  BY <1>1
<1>3. o[1] \in BOOLEAN /\ o[2] \in BOOLEAN /\ (world = {} => (o[1] <=> o[2]))
  BY <1>2, OutcomeCases
<1>4. /\ UNCHANGED <<world, sim, view, menu, cur, drift>>
      /\ Deleting /\ Deleting' /\ pc' \in {"delete_device", "deleted"}
  BY <1>1, <1>2 DEF DeletePost, Deleting
<1>5. RowsApart' /\ TicksKnown'
  BY <1>4 DEF view, PInv, RowsApart, TicksKnown
<1>6. ASSUME world = {}, ~drift PROVE ShowsCurrent' /\ RequestsLeft'
  <2>1. ShowsCurrent /\ RequestsLeft
    BY <1>6 DEF PInv
  <2>2. Undeleted(s)
    BY <1>1, <2>1 DEF RequestsLeft
  <2>3. /\ Listed' \cup ticked' = Listed \cup ticked
        /\ ~seen'[s] => Undeleted(s)'
        /\ \A t \in Store : t # s => seen'[t] = seen[t] /\ (Undeleted(t) => Undeleted(t)')
    BY <1>2, <1>3, <1>6, <2>2, PostPInv
  <2>4. ShowsCurrent'
    BY <1>4, <2>1, <2>3 DEF ShowsCurrent, Loading, Deleting, PageIn, Precedes, view
  <2>5. RequestsLeft'
    <3>1. CASE s = "sim"
      <4>1. Undeleted("device")'
        BY <1>1, <2>1, <2>3, <3>1 DEF RequestsLeft, Store
      <4> QED
        BY <1>1, <2>3, <3>1, <4>1 DEF RequestsLeft
    <3>2. CASE s = "device"
      <4>1. ~seen'["sim"] => Undeleted("sim")'
        BY <1>1, <2>1, <2>3, <3>2 DEF RequestsLeft, Store
      <4> QED
        BY <1>1, <2>3, <3>2, <4>1 DEF RequestsLeft
    <3> QED
      BY <3>1, <3>2 DEF Store
  <2> QED
    BY <2>4, <2>5
<1> QED
  BY <1>4, <1>5, <1>6 DEF PInv

\* The delete is over: either it went through and the page that is asked for has
\* rows if the list has, or nothing was deleted, or the history says so.
LEMMA DeletedPInv ==
  ASSUME IInv, PInv, Deleted
  PROVE  PInv'
<1>1. UNCHANGED <<device, menu>> /\ pc = "deleted" /\ Deleting /\ ticked # {}
  BY DEF Deleted, PInv, TicksKnown, Deleting
<1>2. UNCHANGED <<world, book, sim>> /\ Listed' = Listed
  BY <1>1 DEF device, Listed, Rows
<1>3. ticked \subseteq rows /\ rows \subseteq Row /\ cur \in Nat \ {0} /\ (all => ticked = rows)
  BY DEF IInv, Typed, PageTyped
<1>4. CASE /\ DeletedAll /\ cur' = PageAfterDelete /\ Load(PageAfterDelete, TRUE)
           /\ msg' = "deleted" /\ drift' = drift
  <2>1. ASSUME world = {}, ~drift, Listed # {} PROVE Page(PageAfterDelete) # {}
    <3> DEFINE L == Listed \cup ticked
    <3>1. rows = PageIn(L, cur)
      BY <1>1, <2>1 DEF PInv, ShowsCurrent
    <3>2. \A r \in ticked : Gone(r.contact)
      <4>1. "lost" \notin world
        BY <2>1
      <4>2. \A s \in Store : \A r \in Ticked(s) : Gone(r.contact)
        BY <1>1, <1>4, <4>1 DEF DeletedAll, IInv, GoneInv, Store
      <4>3. \A r \in ticked : r.store \in Store /\ r \in Ticked(r.store)
        BY <1>3 DEF Ticked, Row
      <4> QED
        BY <4>2, <4>3
    <3>3. Listed \cap ticked = {}
      BY <3>2, ListedRows DEF Gone, IInv, Typed, Row
    <3>4. Slotted(L)
      <4>1. \A r \in L : r \in Row
        BY <1>3, ListedRows DEF IInv, Typed
      <4>2. ASSUME NEW q \in L, NEW r \in L, q.store = r.store, q.index = r.index
            PROVE  q = r
        <5>1. \A x, y \in Listed : x.store = y.store /\ x.index = y.index => x = y
          BY DEF Listed, Rows
        <5>2. \A x, y \in ticked : x.store = y.store /\ x.index = y.index => x = y
          BY <1>3 DEF PInv, RowsApart
        <5>3. ASSUME NEW x \in Listed, NEW y \in ticked, x.store = y.store, x.index = y.index
              PROVE  FALSE
          <6>1. book[y.store][y.index] = x.contact /\ x.contact # 0
            BY <5>3, ListedRows DEF IInv, Typed, Listed
          <6>2. Same(y)
            BY <1>3, <2>1 DEF IInv, RowsInv
          <6>3. y.store \in Store /\ y.index \in Index
            BY <1>3 DEF Row
          <6> QED
            BY <3>2, <6>1, <6>2, <6>3 DEF Same, Gone
        <5> QED
          BY <4>2, <5>1, <5>2, <5>3
      <4> HIDE DEF L
      <4>3. \A r \in L : r.store \in Store /\ r.index \in Index
        BY <4>1 DEF Row
      <4>4. IsFiniteSet(L)
        BY <4>2, <4>3, RowsFinite
      <4> QED
        BY <4>2, <4>3, <4>4 DEF Slotted
    <3>5. L \ ticked = Listed
      BY <3>3
    <3>6. ticked \subseteq PageIn(L, cur)
      BY <1>3, <3>1
    <3> HIDE DEF L
    <3>7. /\ ticked # PageIn(L, cur) => PageIn(Listed, cur) # {}
          /\ cur # 1 => PageIn(Listed, cur - 1) # {}
          /\ PageIn(Listed, 1) # {}
      BY <1>1, <1>3, <2>1, <3>4, <3>5, <3>6, PageLeft
    <3>8. all <=> ticked = rows
      BY <1>1, <1>3 DEF PInv, TicksKnown
    <3>9. PageIn(Listed, PageAfterDelete) # {}
      BY <3>1, <3>7, <3>8 DEF PageAfterDelete
    <3> QED
      BY <3>9 DEF Page, PageIn
  <2>2. Page(cur)' = Page(PageAfterDelete)
    BY <1>2, <1>4 DEF Page, Precedes
  <2> QED
    BY <1>2, <1>4, <2>1, <2>2, LoadPInv
<1>5. CASE /\ ~DeletedAll /\ pc' = "idle" /\ msg' = "failed" /\ UNCHANGED <<view, cur, job, asked>>
           /\ drift' = (drift \/ \E s \in Store : Ticked(s) # {} /\ seen[s])
  <2>1. RowsApart' /\ TicksKnown' /\ RequestsLeft'
    BY <1>5 DEF PInv, RowsApart, TicksKnown, RequestsLeft, Deleting, view
  <2>2. ASSUME world = {}, ~drift' PROVE ShowsCurrent'
    <3>1. ~drift /\ \A s \in Store : Ticked(s) = {} \/ ~seen[s]
      BY <1>5, <2>2
    <3>2. rows = PageIn(Listed \cup ticked, cur) /\ RequestsLeft
      BY <1>1, <2>2, <3>1 DEF PInv, ShowsCurrent
    <3>3. \A s \in Store : Ticked(s) \subseteq Listed
      BY <1>1, <3>1, <3>2 DEF RequestsLeft, Undeleted, Store
    <3>4. \A r \in ticked : r.store \in Store /\ r \in Ticked(r.store)
      BY <1>3 DEF Ticked, Row
    <3>5. Listed \cup ticked = Listed
      BY <3>3, <3>4
    <3>6. rows' = rows /\ cur' = cur
      BY <1>5 DEF view
    <3>7. rows = Page(cur)
      BY <3>2, <3>5 DEF Page, PageIn
    <3>8. Page(cur)' = Page(cur)
      BY <1>2, <3>6 DEF Page, Precedes
    <3> QED
      BY <1>5, <3>6, <3>7, <3>8 DEF ShowsCurrent, Loading, Deleting
  <2> QED
    BY <1>2, <2>1, <2>2 DEF PInv
<1> QED
  BY <1>4, <1>5 DEF Deleted

\* The dialogs.
LEMMA SavePInv ==
  ASSUME IInv, PInv, (\E r \in rows : SaveEdit(r)) \/ (\E s \in Store : SaveNew(s))
  PROVE  PInv'
<1>1. UNCHANGED <<world, sim, menu, cur>> /\ msg' = "none" /\ pc = "idle"
  BY DEF SaveEdit, SaveNew, device
<1>2. PICK p \in BOOLEAN : \E o \in Outcome(p) : AfterSave(o[2]) /\ (~o[1] => UNCHANGED book)
  <2>1. CASE \E r \in rows : SaveEdit(r)
    <3>1. PICK r \in rows : SaveEdit(r)
      BY <2>1
    <3> DEFINE p == Answers(r.store) /\ book[r.store][r.index] # 0
    <3>2. p \in BOOLEAN
      BY Zenon DEF Answers
    <3>3. PICK o \in Outcome(p) : AfterSave(o[2])
      BY <3>1 DEF SaveEdit
    <3>4. UNCHANGED book
      BY <3>1 DEF SaveEdit, device
    <3> HIDE DEF p
    <3> QED
      BY <3>2, <3>3, <3>4
  <2>2. CASE \E s \in Store : SaveNew(s)
    <3>1. PICK s \in Store : SaveNew(s)
      BY <2>2
    <3> DEFINE p == Answers(s) /\ Free(s) # {} /\ made < MaxMade
    <3>2. p \in BOOLEAN
      BY Zenon DEF Answers
    <3>3. PICK o \in Outcome(p) : AfterSave(o[2]) /\ (~o[1] => UNCHANGED book)
      BY <3>1 DEF SaveNew
    <3> HIDE DEF p
    <3> QED
      BY <3>2, <3>3
  <2> QED
    BY <2>1, <2>2
<1>3. PICK o \in Outcome(p) : AfterSave(o[2]) /\ (~o[1] => UNCHANGED book)
  BY <1>2
<1>4. o[1] => o[2]
  BY <1>3, OutcomeCases
<1>5. CASE Load(1, TRUE) /\ drift' = (drift \/ cur # 1)
  BY <1>1, <1>5, LoadPInv
<1>6. CASE ~o[2] /\ UNCHANGED <<view, pc, job, drift>>
  BY <1>1, <1>3, <1>4, <1>6, StillPInv
<1> QED
  BY <1>3, <1>5, <1>6 DEF AfterSave

LEMMA CopyPInv ==
  ASSUME IInv, PInv, NEW r \in rows, NEW moves \in BOOLEAN, CopyMove(r, moves)
  PROVE  PInv'
<1> DEFINE p == sim = "ready" /\ Free(OtherStore(r.store)) # {} /\ book[r.store][r.index] # 0
                  /\ (moves \/ made < MaxMade)
<1>1. p \in BOOLEAN
  BY Zenon
<1>2. PICK o \in Outcome(p) : /\ ~o[1] => UNCHANGED book
                              /\ IF o[2] THEN Load(cur, TRUE) ELSE UNCHANGED <<view, pc, job>>
  BY DEF CopyMove
<1>3. UNCHANGED <<world, sim, menu, cur, drift>> /\ msg' = "none" /\ pc = "idle"
  BY DEF CopyMove
<1> HIDE DEF p
<1>4. o[1] => o[2]
  BY <1>1, <1>2, OutcomeCases
<1>5. CASE Load(cur, TRUE)
  BY <1>3, <1>5, LoadPInv
<1>6. CASE ~o[2] /\ UNCHANGED <<view, pc, job>>
  BY <1>2, <1>3, <1>4, <1>6, StillPInv
<1> QED
  BY <1>2, <1>5, <1>6

\* Somebody else: then the browser is not alone.
LEMMA ElsePInv ==
  ASSUME PInv, world # {}, UNCHANGED <<world, view, pc>>
  PROVE  PInv'
BY DEF PInv, RowsApart, TicksKnown, Deleting, view

LEMMA NextPInv == IInv /\ PInv /\ [Next]_vars => PInv'
<1> SUFFICES ASSUME IInv, PInv, [Next]_vars PROVE PInv'
  OBVIOUS
<1>1. CASE UNCHANGED vars
  <2>1. UNCHANGED <<world, book, sim, menu, view, rows, ticked, all, cur, pc, job, seen, msg, drift>>
    BY <1>1 DEF vars, device, view, ghosts
  <2>2. Listed' = Listed /\ Page(cur)' = Page(cur)
    BY <2>1 DEF Page, Listed, Rows
  <2>3. RowsApart' /\ TicksKnown'
    BY <2>1 DEF PInv, RowsApart, TicksKnown, Deleting
  <2>4. ShowsCurrent => ShowsCurrent'
    BY <2>1, <2>2 DEF ShowsCurrent, Loading, Deleting, PageIn, Precedes
  <2>5. RequestsLeft => RequestsLeft'
    BY <2>1, <2>2 DEF RequestsLeft, Undeleted, Ticked
  <2> QED
    BY <2>1, <2>3, <2>4, <2>5 DEF PInv
<1>2. CASE \E known \in BOOLEAN : SimStatus(known) \/ Fetch(known)
  BY <1>2, ReadPInv
<1>3. CASE (\E m \in Menu : Open(m)) \/ (\E n \in 1..pages : SelectPage(n))
  BY <1>3, LoadPInv DEF Open, SelectPage, device
<1>4. CASE TickAll \/ \E r \in rows : Tick(r)
  BY <1>4, TickPInv
<1>5. CASE Delete
  BY <1>5, DeletePInv
<1>6. CASE DeleteSim \/ DeleteDevice
  BY <1>6, RequestsPInv
<1>7. CASE Deleted
  BY <1>7, DeletedPInv
<1>8. CASE (\E r \in rows : SaveEdit(r)) \/ (\E s \in Store : SaveNew(s))
  BY <1>8, SavePInv
<1>9. CASE \E r \in rows, moves \in BOOLEAN : CopyMove(r, moves)
  BY <1>9, CopyPInv
<1>10. CASE \/ \E s \in Store, i \in Index : OtherAdds(s, i) \/ OtherDeletes(s, i)
            \/ \E state \in SimState : SimChange(state)
  BY <1>10, ElsePInv DEF OtherAdds, OtherDeletes, SimChange, view
<1> QED
  BY <1>1, <1>2, <1>3, <1>4, <1>5, <1>6, <1>7, <1>8, <1>9, <1>10 DEF Next

\* For any number of slots, contacts and rows a page: after a delete the table is empty
\* only if the list is, the deletes that took the last row of the last page included.
THEOREM PageAfterDeleteExists == Spec => []NoPageBeyondLast
<1>1. Init => PInv
  <2> SUFFICES ASSUME Init PROVE PInv
    OBVIOUS
  <2> QED
    BY DEF Init, PInv, RowsApart, TicksKnown, ShowsCurrent, RequestsLeft, Loading, Deleting
<1>2. PInv => NoPageBeyondLast
  BY DEF PInv, ShowsCurrent, NoPageBeyondLast, Deleting
<1> QED
  BY <1>1, <1>2, InitIInv, NextIInv, NextPInv, PTL DEF Spec
=============================================================================
