------------------------------- MODULE Files -------------------------------
(***************************************************************************)
(* The list of files on the memory card: the page "Network File" (webdav)  *)
(* and the page of the shared files (shared), which are two copies of the  *)
(* same code with differences.  A listing (WebDav_PROPFIND) rebuilds the   *)
(* list and its rows, the three sortings rebuild the rows from the list,   *)
(* and which buttons are shown follows the ticks of the rows.  All these   *)
(* requests are synchronous; what can happen in between is another client. *)
(*                                                                         *)
(* An entry of the list is the name of the file on the card, of which the  *)
(* page shows another.  The upload itself is in Upload.                    *)
(***************************************************************************)
EXTENDS Integers, FiniteSets, Functions, Sharing

CONSTANTS
  Name,               \* names of files and folders, as on the card
  Dirs,               \* ... of which these are folders
  Decoded,            \* the name that the page makes of a name
  Lower, Size, Date,  \* rank of what it shows in lower case, size, rank of its date
  Card,               \* what the card holds at first, by folder
  New,                \* bound: the names that clients add to the card
  Child,              \* the folders that can be opened: folder and name to folder
  Events              \* what may happen: "lost", "asks", "denied", "pulled", "kept", "other client"

ASSUME FilesAssumption ==
  /\ Dirs \subseteq Name /\ New \subseteq Name /\ Decoded \in [Name -> STRING]
  /\ Lower \in [Name -> Int] /\ Size \in [Name -> Int] /\ Date \in [Name -> Int]
  /\ Card \in [Folder -> SUBSET Name] /\ \A f \in Folder : IsFiniteSet(Card[f])
  /\ DOMAIN Child \subseteq Folder \X Dirs /\ Range(Child) \subseteq Folder
  /\ Events \subseteq {"lost", "asks", "denied", "pulled", "kept", "other client"}

VARIABLES
  disk,       \* what the card holds
  list,       \* WebdavFileListArray
  rows,       \* the rows of the table
  order,      \* what has built them; their handlers differ
  head,       \* rows have been built since the page was opened: the head has a handler
  ticks,      \* the rows that are ticked
  flags,      \* the sortings whose flag is set: the next click sorts upwards
  shown,      \* the buttons shown; "add" is upload and new folder
  dlg,        \* the dialog shown
  share,      \* share_file_name
  of,         \* history: the folder that list is of
  meant,      \* history: what the user has ticked
  resorted,   \* history: the rows were rebuilt by a sorting since the last tick
  unlisted    \* history: the last listing has failed

place == <<Path_Name, list, of, unlisted>>
table == <<rows, order, head, ticks, meant, resorted>>
filesVars == <<page, disk, place, table, flags, shown, dlg, share>>

-----------------------------------------------------------------------------
\* What row i shows, and what requests about it name: the file's name as decoded by
\* WebDav_Utf8_To_Char, which understands codes of one and of three bytes only.
Shown(i) == Decoded[rows[i]]

\* Whether there is a folder f on a card that holds this.
HasFolder(held, f) ==
  f = Root \/ \E c \in DOMAIN Child : Child[c] = f /\ c[2] \in held[c[1]]

\* The folder that a row's name leads to, and the one that Back leads to.
Inside(f, n) == IF <<f, n>> \in DOMAIN Child THEN Child[f, n] ELSE "nowhere"
Above(f) == IF f = Root THEN Root
            ELSE CHOOSE g \in Folder : \E n \in Dirs : Inside(g, n) = f

\* The card after these names were deleted from folder f, with what they contain.
Without(f, names) ==
  [g \in Folder |-> IF g = f THEN disk[g] \ names
                    ELSE IF \E n \in names \cap disk[f] : Inside(f, n) = g
                    THEN {} ELSE disk[g]]

\* The rows of a table just built: none is ticked.
Rebuilt(files, how, headed) ==
  /\ head' = (headed \/ files # <<>>)
  /\ rows' = files /\ order' = how /\ ticks' = {} /\ meant' = {}
  /\ resorted' = (how # "listed")

-----------------------------------------------------------------------------
(* The three sortings.                                                     *)

Precedes(down, a, b) == IF down THEN a > b ELSE a < b

\* Which names come before which by a key; by size, folders stand before the files
\* from the largest down, and behind the files from the smallest up.
ByKey(key, down) == {p \in Name \X Name : Precedes(down, key[p[1]], key[p[2]])}

BySize(down) ==
  {p \in Name \X Name :
     \/ {p[1], p[2]} \cap Dirs = {} /\ Precedes(down, Size[p[1]], Size[p[2]])
     \/ down /\ p[1] \in Dirs /\ p[2] \notin Dirs
     \/ ~down /\ p[1] \notin Dirs /\ p[2] \in Dirs}

\* How many members of a set come before x, and the set in that order.
Ahead(S, before, x) == Cardinality({y \in S : <<y, x>> \in before})

Arranged(S, before) ==
  [k \in 1..Cardinality(S) |-> CHOOSE x \in S : Ahead(S, before, x) = k - 1]

\* The places of a list in an order; files that neither precedes keep their order.
Sooner(files, comes) ==
  {p \in (DOMAIN files) \X (DOMAIN files) :
     \/ <<files[p[1]], files[p[2]]>> \in comes
     \/ p[1] < p[2] /\ <<files[p[2]], files[p[1]]>> \notin comes}

\* For every file in order, every file that is level with it.
EachInOrder(files, comes) ==
  LET again == {p \in (DOMAIN files) \X (DOMAIN files) :
                  {<<files[p[1]], files[p[2]]>>, <<files[p[2]], files[p[1]]>>} \cap comes = {}}
      before == {r \in again \X again :
                   \/ <<r[1][1], r[2][1]>> \in Sooner(files, comes)
                   \/ r[1][1] = r[2][1] /\ r[1][2] < r[2][2]}
      places == Arranged(again, before)
  IN  [k \in DOMAIN places |-> files[places[k][2]]]

\* Mutant of InOrder: a file that was placed is not taken out of the array.
InOrderAgain(files, comes) == EachInOrder(files, comes)

\* Every file in order: one that was placed is taken out of the array.
InOrder(files, comes) ==
  LET places == Arranged(DOMAIN files, Sooner(files, comes))
  IN  [k \in DOMAIN places |-> files[places[k]]]

\* By name without regard to case; nothing is taken out of this array.
NameOrder(files, down) == EachInOrder(files, ByKey(Lower, down))

SizeDown(files) == InOrder(files, BySize(TRUE))
SizeUp(files) == InOrder(files, BySize(FALSE))

DateOrder(files, down) == InOrder(files, ByKey(Date, down))

-----------------------------------------------------------------------------
(* Listing a folder.                                                       *)

AddsAt(f) == IF page = "webdav" \/ f # Root THEN {"add"} ELSE {}

\* The answers to a listing of f: the card may be pulled out, the answer lost, and
\* the webdav page may be asked to log in.
Answers(f) ==
  (IF HasFolder(disk', f) THEN {"listed"} ELSE {"missing"})
    \cup ({"lost"} \cap Events)
    \cup (IF page = "webdav" THEN {"asks", "denied"} \cap Events ELSE {})
    \cup (IF f = Root /\ "pulled" \in Events THEN {"missing"} ELSE {})

Outcome == {"listed", "missing", "asks", "denied", "lost"}

\* The entries of a folder, as the card's server lists them.
Entries(names) == CHOOSE s \in [1..Cardinality(names) -> names] : IsInjective(s)

\* What a listing of f shows: the shared page leaves one name out of its root.
Visible(f) ==
  {n \in disk'[f] : ~(page = "shared" /\ f = Root /\ Decoded[n] = ".gitignore")}

\* Mutant of Listed: the path stays that of the folder left.
ListedOnly(f, headed) ==
  /\ Path_Name' = Path_Name /\ of' = f
  /\ list' = Entries(Visible(f))
  /\ Rebuilt(list', "listed", headed)
  /\ unlisted' = FALSE /\ shown' = AddsAt(f)

\* It is the folder's own entry in the answer that sets the path.
Listed(f, headed) ==
  /\ Path_Name' = f /\ of' = f
  /\ list' = Entries(Visible(f))
  /\ Rebuilt(list', "listed", headed)
  /\ unlisted' = FALSE /\ shown' = AddsAt(f)

\* No entry in the answer: an empty table, and the path of before.
ListedEmpty(headed) ==
  /\ UNCHANGED Path_Name /\ of' = Path_Name
  /\ list' = <<>> /\ Rebuilt(<<>>, "listed", headed)
  /\ unlisted' = TRUE /\ shown' = {"add"}

\* The listing stops before it empties the table, which a page just opened has empty.
NotListed(fresh, buttons) ==
  /\ UNCHANGED <<Path_Name, of, list>>
  /\ IF fresh THEN Rebuilt(<<>>, "listed", FALSE) ELSE UNCHANGED table
  /\ unlisted' = TRUE /\ shown' = buttons

WebDav_PROPFIND(f, o, fresh) ==
  /\ page = "webdav"
  /\ \/ o = "listed" /\ Listed(f, head /\ ~fresh)
     \/ o = "missing" /\ f = Root /\ NotListed(fresh, {})
     \/ o = "missing" /\ f # Root /\ ListedEmpty(head /\ ~fresh)
     \/ o \in {"asks", "denied"} /\ NotListed(fresh, {})
     \/ o = "lost" /\ NotListed(fresh, IF fresh THEN {} ELSE shown)

\* The shared page empties the table first, whatever the answer.
WebDav_Shared_PROPFIND(f, o, fresh) ==
  /\ page = "shared"
  /\ \/ o = "listed" /\ Listed(f, head /\ ~fresh)
     \/ o \in {"missing", "lost"} /\ ListedEmpty(head /\ ~fresh)

PROPFIND(f, o, fresh) ==
  /\ o \in Answers(f)
  /\ WebDav_PROPFIND(f, o, fresh) \/ WebDav_Shared_PROPFIND(f, o, fresh)

\* The dialog that a listing opens.
Dialog(f, o) ==
  IF o = "asks" THEN "login"
  ELSE IF o = "missing" /\ page = "webdav" /\ f = Root THEN "alert" ELSE "none"

ListInto(f, o, fresh) ==
  PROPFIND(f, o, fresh) /\ dlg' = Dialog(f, o) /\ share' = ""

-----------------------------------------------------------------------------
(* What the user does.                                                     *)

Ready == dlg = "none"

\* A page that is opened has an empty table, until the root is listed; list, path
\* and flags are those of the last visit.
Stopped(dialog) == NotListed(TRUE, {}) /\ dlg' = dialog /\ share' = ""

\* The webdav page: there may be no card, and the first request may ask to log in.
WebDav_onLoad(o) ==
  /\ page = "webdav" /\ Ready /\ UNCHANGED <<page, disk, flags>>
  /\ \/ ListInto(Root, o, TRUE)
     \/ o = "missing" /\ "pulled" \in Events /\ Stopped("alert")
     \/ o = "asks" /\ "asks" \in Events /\ Stopped("login")

\* The shared page: there may be no card, and sharing may be switched off.
ShareFileShowInit(o) ==
  /\ page = "shared" /\ Ready /\ UNCHANGED <<page, disk, flags>>
  /\ \/ ListInto(Root, o, TRUE)
     \/ o = "missing" /\ "pulled" \in Events /\ Stopped("alert")
     \/ o = "denied" /\ "denied" \in Events /\ Stopped("exit")

\* WebDav_Login_OK: the dialog is closed and the root listed, or it stays.
Login(o) ==
  /\ dlg = "login" /\ UNCHANGED <<page, disk, flags>>
  /\ ListInto(Root, o, FALSE)

LoginFails ==
  /\ dlg = "login" /\ shown' = {}
  /\ UNCHANGED <<page, disk, place, table, flags, dlg, share>>

\* A message is read, a dialog cancelled, a file that was asked for comes or does not;
\* the message that sharing is off logs out.
CloseBox ==
  /\ dlg \in {"alert", "login", "mkdir", "share", "exit", "wait"}
  /\ dlg' = "none" /\ share' = ""
  /\ UNCHANGED <<page, disk, place, table, flags, shown>>

\* WebDav_GetFileOnClick on a folder.
OpenFolder(i, o) ==
  /\ Ready /\ i \in DOMAIN rows /\ rows[i] \in Dirs
  /\ UNCHANGED <<page, disk, flags>>
  /\ ListInto(Inside(Path_Name, Shown(i)), o, FALSE)

\* WebDav_GetFileOnClick on a file: a new window, and "please wait" until an answer.
OpenFile(i) ==
  /\ Ready /\ i \in DOMAIN rows /\ rows[i] \notin Dirs /\ dlg' = "wait"
  /\ UNCHANGED <<page, disk, place, table, flags, shown, share>>

\* WebDav_BackOnClick.
Back(o) ==
  /\ Ready /\ UNCHANGED <<page, disk, flags>>
  /\ ListInto(Above(Path_Name), o, FALSE)

\* Mutant of Buttons: a row that is unticked brings the buttons back.
ButtonsOfLast(ticked) ==
  IF Cardinality(ticked) < 2 THEN AddsAt(Path_Name) ELSE {"delete"}

\* The buttons after a click that leaves these rows ticked.
Buttons(ticked) ==
  IF ticked = {} THEN AddsAt(Path_Name)
  ELSE {"delete"} \cup
       (IF page = "webdav" /\ Cardinality(ticked) = 1 THEN {"share"} ELSE {})

TickInto(ticked, buttons) ==
  /\ ticks' = ticked /\ shown' = buttons
  /\ meant' = {Shown(i) : i \in ticked} /\ resorted' = FALSE
  /\ UNCHANGED <<page, disk, place, rows, order, head, flags, dlg, share>>

Toggled(i) == IF i \in ticks THEN ticks \ {i} ELSE ticks \cup {i}

\* The click on a row.
WebDav_Tick(i) ==
  /\ page = "webdav" /\ Ready /\ i \in DOMAIN rows
  /\ TickInto(Toggled(i), Buttons(Toggled(i)))

\* On the shared page, the rows of folders that the sorting by size has put behind
\* the files show "add" in the root as well.
WebDav_Shared_Tick(i) ==
  /\ page = "shared" /\ Ready /\ i \in DOMAIN rows
  /\ TickInto(Toggled(i), IF Toggled(i) = {} /\ order = "sizeUp" /\ rows[i] \in Dirs
                          THEN {"add"} ELSE Buttons(Toggled(i)))

\* The box in the table's head; on the webdav page it is the rows that install its
\* handler, which stays there when the table is emptied.
Everything(on) == IF on THEN DOMAIN rows ELSE {}

WebDav_TickAll(on) ==
  /\ page = "webdav" /\ Ready /\ head
  /\ TickInto(Everything(on), Buttons(Everything(on)))

WebDav_Shared_TickAll(on) ==
  /\ page = "shared" /\ Ready
  /\ TickInto(Everything(on), Buttons(Everything(on)))

Flipped(key) == IF key \in flags THEN flags \ {key} ELSE flags \cup {key}

\* Mutant of SortBy: the ticks stay with their places in the table.
SortKeepsTicks(key, files, how) ==
  /\ Ready /\ flags' = Flipped(key)
  /\ rows' = files /\ order' = how /\ resorted' = TRUE
  /\ UNCHANGED <<page, disk, place, head, ticks, meant, shown, dlg, share>>

\* A sorting builds the rows anew, unless there is nothing in the list, and leaves
\* the buttons as they are.
SortBy(key, files, how) ==
  /\ Ready /\ flags' = Flipped(key)
  /\ IF list = <<>> THEN UNCHANGED table ELSE Rebuilt(files, how, head)
  /\ UNCHANGED <<page, disk, place, shown, dlg, share>>

WebDav_NameOrderOnClick ==
  page = "webdav" /\ SortBy("name", NameOrder(list, "name" \notin flags), "name")

WebDav_SizeOrderOnClick ==
  /\ page = "webdav"
  /\ IF "size" \notin flags THEN SortBy("size", SizeDown(list), "size")
                            ELSE SortBy("size", SizeUp(list), "sizeUp")

WebDav_FileDateOrderOnClick ==
  page = "webdav" /\ SortBy("date", DateOrder(list, "date" \notin flags), "date")

WebDav_Shared_NameOrderOnClick ==
  page = "shared" /\ SortBy("name", NameOrder(list, "name" \notin flags), "name")

WebDav_Shared_SizeOrderOnClick ==
  /\ page = "shared"
  /\ IF "size" \notin flags THEN SortBy("size", SizeDown(list), "size")
                            ELSE SortBy("size", SizeUp(list), "sizeUp")

WebDav_Shared_FileDateOrderOnClick ==
  page = "shared" /\ SortBy("date", DateOrder(list, "date" \notin flags), "date")

Ticked == {Shown(i) : i \in ticks}

\* One DELETE for each row ticked, whose result nobody looks at.
DeleteTicked(kept, o) ==
  /\ Ready /\ "delete" \in shown
  /\ kept \subseteq Ticked /\ (kept # {} => "kept" \in Events)
  /\ disk' = Without(Path_Name, Ticked \ kept)
  /\ ListInto(Path_Name, o, FALSE)
  /\ UNCHANGED <<page, flags>>

WebDav_Delete(kept, o) == page = "webdav" /\ DeleteTicked(kept, o)
WebDav_Shared_Delete(kept, o) == page = "shared" /\ DeleteTicked(kept, o)

\* A name that the card takes in a folder, if it has that folder.
With(f, n) == IF HasFolder(disk, f) THEN [disk EXCEPT ![f] = @ \cup {n}] ELSE disk

\* A new folder; the card may refuse it.  When the listing returns, CloseDlg closes
\* whatever is open by now.
MakeFolder(n, o) ==
  /\ Ready /\ "add" \in shown
  /\ n \in Dirs /\ Inside(Path_Name, n) # "nowhere"
  /\ disk' = With(Path_Name, n) \/ ("kept" \in Events /\ disk' = disk)
  /\ PROPFIND(Path_Name, o, FALSE)
  /\ dlg' = (IF o = "lost" THEN "mkdir" ELSE "none") /\ share' = ""
  /\ UNCHANGED <<page, flags>>

\* The webdav page looks for the name in the table first.
WebDav_Mkdir(n, o) ==
  page = "webdav" /\ n \notin {Shown(i) : i \in DOMAIN rows} /\ MakeFolder(n, o)
WebDav_Shared_Mkdir(n, o) == page = "shared" /\ MakeFolder(n, o)

\* An upload that went to its end (module Upload), and the listing after it.
UploadInto(n, o) ==
  /\ Ready /\ "add" \in shown /\ n \in New \ Dirs
  /\ disk' = With(Path_Name, n)
  /\ ListInto(Path_Name, o, FALSE)
  /\ UNCHANGED <<page, flags>>

\* WebDav_Share: the dialog, for the first row ticked, if there is one.
Share ==
  /\ Ready /\ "share" \in shown /\ dlg' = "share"
  /\ share' = IF ticks = {} THEN "" ELSE Shown(CHOOSE i \in ticks : \A j \in ticks : i <= j)
  /\ UNCHANGED <<page, disk, place, table, flags, shown>>

\* WebDav_Share_Setting_OK: the router's answer is shown, as is that webdav is off.
ShareOK(answered) ==
  /\ dlg = "share" /\ (answered \/ "lost" \in Events)
  /\ dlg' = (IF answered THEN "alert" ELSE "none") /\ share' = ""
  /\ UNCHANGED <<page, disk, place, table, flags, shown>>

\* Another client of the card.
Elsewhere(f, n) ==
  /\ "other client" \in Events
  /\ n \in Dirs /\ Decoded[n] = n => Inside(f, n) # "nowhere"
  /\ n \in disk[f] \cup New
  /\ disk' = IF n \in disk[f] THEN Without(f, {n}) ELSE With(f, n)
  /\ UNCHANGED <<page, place, table, flags, shown, dlg, share>>

-----------------------------------------------------------------------------
FilesInit ==
  /\ page \in Pages /\ disk = Card /\ Path_Name = Root /\ of = Root
  /\ list = <<>> /\ rows = <<>> /\ order = "listed" /\ head = FALSE /\ ticks = {}
  /\ flags = {"name", "size", "date"} /\ shown = {} /\ dlg = "none" /\ share = ""
  /\ meant = {} /\ resorted = FALSE /\ unlisted = TRUE

FilesNext ==
  \/ \E o \in Outcome :
       \/ WebDav_onLoad(o) \/ ShareFileShowInit(o) \/ Login(o) \/ Back(o)
       \/ \E i \in DOMAIN rows : OpenFolder(i, o)
       \/ \E kept \in SUBSET Ticked : WebDav_Delete(kept, o) \/ WebDav_Shared_Delete(kept, o)
       \/ \E n \in Name : WebDav_Mkdir(n, o) \/ WebDav_Shared_Mkdir(n, o) \/ UploadInto(n, o)
  \/ LoginFails \/ CloseBox \/ Share
  \/ \E i \in DOMAIN rows : OpenFile(i) \/ WebDav_Tick(i) \/ WebDav_Shared_Tick(i)
  \/ \E on \in BOOLEAN : WebDav_TickAll(on) \/ WebDav_Shared_TickAll(on) \/ ShareOK(on)
  \/ WebDav_NameOrderOnClick \/ WebDav_SizeOrderOnClick \/ WebDav_FileDateOrderOnClick
  \/ WebDav_Shared_NameOrderOnClick \/ WebDav_Shared_SizeOrderOnClick
  \/ WebDav_Shared_FileDateOrderOnClick
  \/ \E f \in Folder, n \in Name : Elsewhere(f, n)

FilesSpec == FilesInit /\ [][FilesNext]_filesVars

-----------------------------------------------------------------------------
Boxes == {"none", "alert", "login", "mkdir", "share", "exit", "wait"}

\* Type correctness of the page (webdavobj.js, webdavobj_shared.js): what it shows is
\* made of the names on the card, and what is ticked and shared of what it shows.
FilesTypeOK ==
  /\ page \in Pages /\ disk \in [Folder -> SUBSET Name] /\ Path_Name \in Folder
  /\ Range(list) \cup Range(rows) \subseteq Name /\ meant \subseteq Range(Decoded)
  /\ order \in {"listed", "name", "size", "sizeUp", "date"} /\ ticks \subseteq DOMAIN rows
  /\ flags \subseteq {"name", "size", "date"} /\ shown \subseteq {"add", "share", "delete"}
  /\ dlg \in Boxes /\ share \in Range(Decoded) \cup {""} /\ of \in Folder
  /\ resorted \in BOOLEAN /\ unlisted \in BOOLEAN /\ head \in BOOLEAN

\* The rows on the page are of the folder that requests about them name: no listing
\* that fails, is refused or finds nothing leaves the one without the other
\* (WebDav_PROPFIND sets Path_Name in the middle of building the rows).
RowsAreOfPath == rows # <<>> => of = Path_Name

\* A step that is not another client's removes from the card only what the user has
\* ticked since the rows were built, in the folder they are of and below
\* (WebDav_Delete reads the ticks and Path_Name when the button is clicked).
DeleteHitsMeant ==
  [][\A f \in Folder, n \in Name :
       n \in disk[f] \ disk'[f] =>
         \/ f = of /\ n \in meant
         \/ \E d \in meant : Inside(of, d) = f
         \/ \E g \in Folder, m \in Name : Elsewhere(g, m)]_filesVars

\* The buttons fit the ticks: nothing is added while something is ticked, what is
\* ticked can be deleted, and the share dialog is of the one file ticked -- or, when
\* the rows were sorted since, of none (the row handlers and the sortings).
ButtonsFit ==
  /\ "add" \in shown => ticks = {}
  /\ ticks # {} /\ ~unlisted => "delete" \in shown
  /\ dlg = "share" => (IF resorted THEN share = "" ELSE meant = {share})

\* The three sortings show every file of the list once, in order; only by name, files
\* that differ in case alone are shown as often as there are of them.
SortKeepsFiles ==
  rows # <<>> =>
    /\ Range(rows) = Range(list)
    /\ \A n \in Range(list) :
         Cardinality({i \in DOMAIN rows : rows[i] = n}) =
           IF order = "name" THEN Cardinality({m \in Range(list) : Lower[m] = Lower[n]}) ELSE 1
    /\ \A i, j \in DOMAIN rows :
         LET a == rows[i]
             b == rows[j]
         IN  i < j =>
             /\ order = "size" /\ b \in Dirs => a \in Dirs
             /\ order = "sizeUp" /\ a \in Dirs => b \in Dirs
             /\ order = "size" /\ a \notin Dirs => Size[a] >= Size[b]
             /\ order = "sizeUp" /\ b \notin Dirs => Size[a] <= Size[b]
             /\ \A by \in {<<"date", Date>>, <<"name", Lower>>} :
                  order = by[1] => (IF order \in flags THEN by[2][a] >= by[2][b]
                                                       ELSE by[2][a] <= by[2][b])
=============================================================================
