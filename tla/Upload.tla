------------------------------- MODULE Upload -------------------------------
(***************************************************************************)
(* The upload of a file to the memory card, on the page "Network File"     *)
(* (webdav) and on the page of the shared files (shared).  The file goes   *)
(* over in chunks: WebDav_Upload slices the next one and reads it, the     *)
(* reader's callback sends it, and the answer's callback, Ondoing, goes on *)
(* with the next.  Slice, positions and flags are global, so that whoever  *)
(* calls WebDav_Upload while a chunk is still under way starts a second    *)
(* chain that moves the positions of the first.                            *)
(*                                                                         *)
(* A chain is a reading or a request under way.  Chunks are numbered; what *)
(* the card holds is the sequence of chunks written, each with the upload  *)
(* it came from.  Every file uploaded has the same name.                   *)
(***************************************************************************)
EXTENDS Integers, Sequences, FiniteSets, Sharing

CONSTANTS
  Chain,      \* bound: readings and requests under way at a time
  Chunks,     \* bound: the length of a file
  MaxUploads, \* bound: uploads
  MaxTimers,  \* bound: timers under way
  MaxTrouble, \* bound: so many disturbances, and the user does nothing more
  Faults      \* what may go wrong: "put", "delete", "lost", "asks"

ASSUME UploadAssumption ==
  /\ Chunks \in Nat \ {0} /\ MaxUploads \in Nat /\ MaxTimers \in Nat \ {0}
  /\ MaxTrouble \in Nat
  /\ IsFiniteSet(Chain) /\ Faults \subseteq {"put", "delete", "lost", "asks"}

VARIABLES
  fromSize, ToSize, \* the slice, counted in chunks
  total_file_size,  \* the size of the file that was sliced last
  Pause_flag, Cancel_flag,
  file,             \* the file chosen: which upload it is, and its size
  chain,            \* what is under way
  card,             \* what each folder holds under the file's name
  box, open,        \* the message box: what was put in it last, is it shown?
  timers,           \* calls of CloseDlg to come
  told,             \* history: what was on the card when this upload said "100%"
  cancelledIn,      \* history: the folder in which it was deleted again
  disturbed         \* history: what has disturbed it

positions == <<fromSize, ToSize, total_file_size>>
dialog == <<box, open>>
history == <<told, cancelledIn, disturbed>>
vars == <<page, Path_Name, fromSize, ToSize, total_file_size, Pause_flag,
          Cancel_flag, file, chain, card, box, open, timers, told, cancelledIn,
          disturbed>>

-----------------------------------------------------------------------------
Idle == [phase |-> "idle", upload |-> 0, data |-> 0, at |-> 0, folder |-> Root]
Hole == <<0, 0>>
Absent == [there |-> FALSE, content |-> <<>>]
Stored(content) == [there |-> TRUE, content |-> content]

Busy == {c \in Chain : chain[c].phase # "idle"}

\* The first n chunks of file f, and all of it, as the card should hold them.
Part(f, n) == [k \in 1..n |-> <<f.upload, k>>]
Whole(f) == Stored(Part(f, f.size))

\* A request writes its chunk at the position in its header.  The first one has
\* no header and makes a new file; an empty slice writes nothing.
Write(old, step) ==
  LET base == IF step.at = 0 THEN <<>> ELSE old.content
      size == IF step.at >= Len(base) THEN step.at + 1 ELSE Len(base)
  IN  Stored(IF step.data = 0 THEN base
             ELSE [k \in 1..size |-> IF k = step.at + 1 THEN <<step.upload, step.data>>
                                     ELSE IF k <= Len(base) THEN base[k]
                                     ELSE Hole])

Smaller(a, b) == IF a < b THEN a ELSE b

\* WebDav_Upload: slice the chunk of file f that follows position to and have
\* chain c read it.  Behind the end the slice is empty.
WebDav_Upload(c, f, to) ==
  /\ total_file_size' = f.size
  /\ fromSize' = to
  /\ ToSize' = Smaller(to + 1, f.size)
  /\ chain' = [chain EXCEPT ![c] =
                 [Idle EXCEPT !.phase = "read", !.upload = f.upload,
                              !.data = IF to < f.size THEN to + 1 ELSE 0]]

\* A chain that begins while another one is under way.
Twice == IF Busy # {} THEN {"twice"} ELSE {}

\* A file is chosen: a new upload.
NewFile(size) ==
  /\ ~open /\ file.upload < MaxUploads
  /\ file' = [upload |-> file.upload + 1, size |-> size]
  /\ Pause_flag' = FALSE /\ Cancel_flag' = FALSE /\ open' = TRUE
  /\ told' = "nothing" /\ cancelledIn' = {}
  /\ UNCHANGED <<page, Path_Name, card, timers>>

\* WebDav_Upload_Change and its twin on the shared page.  Only the first starts
\* from the beginning, and asks before it replaces a file that is shown.
Choose(size, known, c) ==
  /\ NewFile(size) /\ c \notin Busy
  /\ \/ /\ page = "webdav" /\ known
        /\ fromSize' = 0 /\ ToSize' = 0 /\ total_file_size' = 0
        /\ box' = "confirm" /\ chain' = chain
        /\ disturbed' = Twice
     \/ /\ page = "webdav" /\ ~known
        /\ box' = "upload" /\ WebDav_Upload(c, file', 0)
        /\ disturbed' = Twice
     \/ /\ page = "shared"
        /\ box' = "upload" /\ WebDav_Upload(c, file', ToSize)
        /\ disturbed' = Twice \cup (IF ToSize # 0 THEN {"stale"} ELSE {})

\* The file chosen is empty or has too long a name: a message, no more.
ChooseRejected ==
  /\ page = "webdav" /\ ~open
  /\ Pause_flag' = FALSE /\ Cancel_flag' = FALSE
  /\ fromSize' = 0 /\ ToSize' = 0 /\ total_file_size' = 0
  /\ box' = "other" /\ open' = TRUE
  /\ disturbed' = disturbed \cup Twice
  /\ UNCHANGED <<page, Path_Name, file, chain, card, timers, told, cancelledIn>>

\* "OK" to the question whether to replace the file.
Confirm(c) ==
  /\ open /\ box = "confirm" /\ c \notin Busy
  /\ box' = "upload" /\ WebDav_Upload(c, file, ToSize)
  /\ disturbed' = disturbed \cup Twice
  /\ UNCHANGED <<page, Path_Name, Pause_flag, Cancel_flag, file, card, open,
                 timers, told, cancelledIn>>

\* The reader's callback sends what was read, to the folder shown now and with
\* the positions that the globals hold now.
ReadDone(c) ==
  /\ chain[c].phase = "read"
  /\ chain' = [chain EXCEPT ![c] = [@ EXCEPT !.phase = "put", !.at = fromSize,
                                             !.folder = Path_Name]]
  /\ UNCHANGED <<page, Path_Name, positions, Pause_flag, Cancel_flag, file, card,
                 dialog, timers, history>>

EndChain(c) == chain' = [chain EXCEPT ![c] = Idle]

\* A chunk for the middle of a file that is not there is refused.
Possible(c) == chain[c].at = 0 \/ card[chain[c].folder].there

\* The request is answered: the card has the chunk.
Accepted(c) ==
  /\ chain[c].phase = "put" /\ Possible(c)
  /\ card' = [card EXCEPT ![chain[c].folder] = Write(@, chain[c])]

\* It fails, and may have been carried out all the same.  Nothing reacts.
PutFails(c) ==
  /\ chain[c].phase = "put"
  /\ \/ "put" \in Faults /\ (Accepted(c) \/ card' = card)
     \/ ~Possible(c) /\ card' = card
  /\ EndChain(c)
  /\ disturbed' = disturbed \cup {"failed"}
  /\ UNCHANGED <<page, Path_Name, positions, Pause_flag, Cancel_flag, file,
                 dialog, timers, told, cancelledIn>>

\* Mutant of WebDav_DeleteSyncXML: of the file in the root, whatever folder is shown.
DeleteInRoot(held) == [held EXCEPT ![Root] = Absent]

\* The DELETE: of the file in the folder shown.
WebDav_DeleteSyncXML(held) == [held EXCEPT ![Path_Name] = Absent]

\* How reading the folder shown can end: on the webdav page the answer may open
\* a dialog; if there is none the script stops.
Listing == {"listed"} \cup ({"lost"} \cap Faults)
             \cup (IF page = "webdav" THEN {"asks"} \cap Faults ELSE {})

\* Ondoing of a cancelled upload: the file is deleted, while "please wait"
\* replaces the dialog and is closed; the folder is read; the positions are
\* reset, unless the script has stopped.  The file's name comes from the
\* message box, if it is still in it.
PutCancelled(c, o) ==
  /\ Cancel_flag /\ timers < MaxTimers
  /\ chain[c].phase = "put" /\ Possible(c)
  /\ EndChain(c)
  /\ LET written == [card EXCEPT ![chain[c].folder] = Write(@, chain[c])]
     IN  \/ /\ box = "upload"
            /\ card' = WebDav_DeleteSyncXML(written)
            /\ disturbed' = disturbed
         \/ /\ box # "upload" \/ "delete" \in Faults
            /\ card' = written
            /\ disturbed' = disturbed \cup {"undeleted"}
  /\ cancelledIn' = {Path_Name}
  /\ IF o = "lost" THEN UNCHANGED <<fromSize, ToSize, timers>>
                   ELSE fromSize' = 0 /\ ToSize' = 0 /\ timers' = timers + 1
  /\ box' = IF o = "asks" THEN "other" ELSE "wait"
  /\ open' = (o = "asks")
  /\ UNCHANGED <<page, Path_Name, total_file_size, Pause_flag, Cancel_flag, file, told>>

\* Ondoing of a paused upload: the chain ends.
PutPaused(c) ==
  /\ ~Cancel_flag /\ Pause_flag
  /\ Accepted(c) /\ EndChain(c)
  /\ UNCHANGED <<page, Path_Name, positions, Pause_flag, Cancel_flag, file,
                 dialog, timers, history>>

\* Mutant of Complete: the last chunk is taken for sent when it is sliced.
CompleteEarly == ToSize + 1 >= total_file_size

\* Mutant of Complete: the end is never reached.
CompleteNever == ToSize > total_file_size

\* The shared page's bound is an equality.
Complete == IF page = "webdav" THEN ToSize >= total_file_size
                               ELSE ToSize = total_file_size

\* Ondoing after the last chunk: 100%; a timer will close the dialog.
PutCompletes(c, o) ==
  /\ ~Cancel_flag /\ ~Pause_flag /\ Complete /\ timers < MaxTimers
  /\ Accepted(c) /\ EndChain(c)
  /\ fromSize' = 0 /\ ToSize' = 0 /\ timers' = timers + 1
  /\ told' = IF card'[Path_Name] = Whole(file) THEN "whole" ELSE "broken"
  /\ box' = IF o = "asks" THEN "other" ELSE box
  /\ open' = (open \/ o = "asks")
  /\ UNCHANGED <<page, Path_Name, total_file_size, Pause_flag, Cancel_flag, file,
                 cancelledIn, disturbed>>

\* Ondoing after any other chunk: the next one.
PutGoesOn(c) ==
  /\ ~Cancel_flag /\ ~Pause_flag /\ ~Complete
  /\ Accepted(c) /\ WebDav_Upload(c, file, ToSize)
  /\ UNCHANGED <<page, Path_Name, Pause_flag, Cancel_flag, file, dialog, timers,
                 history>>

InUpload == open /\ box = "upload"
Ended == told # "nothing" \/ cancelledIn # {}

\* WebDav_Upload_Pause, first click.
Pause ==
  /\ InUpload /\ ~Pause_flag
  /\ Pause_flag' = TRUE
  /\ UNCHANGED <<page, Path_Name, positions, Cancel_flag, file, chain, card,
                 dialog, timers, history>>

\* WebDav_Upload_Pause, second click: the next chunk, at once, even if the one
\* before is still under way or the upload is over.
Resume(c) ==
  /\ InUpload /\ Pause_flag /\ c \notin Busy
  /\ Pause_flag' = FALSE
  /\ WebDav_Upload(c, file, ToSize)
  /\ disturbed' = disturbed \cup Twice \cup (IF Ended THEN {"again"} ELSE {})
  /\ UNCHANGED <<page, Path_Name, Cancel_flag, file, card, dialog, timers, told,
                 cancelledIn>>

\* WebDav_Upload_Cancel: the answer under way will see to it; a paused upload
\* sends one more chunk for the purpose.
Cancel ==
  /\ InUpload /\ ~Pause_flag
  /\ Cancel_flag' = TRUE
  /\ UNCHANGED <<page, Path_Name, positions, Pause_flag, file, chain, card, dialog,
                 timers, history>>

CancelPaused(c) ==
  /\ InUpload /\ Pause_flag /\ c \notin Busy
  /\ Cancel_flag' = TRUE
  /\ WebDav_Upload(c, file, ToSize)
  /\ disturbed' = disturbed \cup Twice \cup (IF Ended THEN {"again"} ELSE {})
  /\ UNCHANGED <<page, Path_Name, Pause_flag, file, card, dialog, timers, told,
                 cancelledIn>>

\* clear_upload_barview_function closes whatever is shown.
Timer ==
  /\ timers > 0
  /\ timers' = timers - 1 /\ open' = FALSE
  /\ disturbed' = IF InUpload /\ ~Ended THEN disturbed \cup {"closed"} ELSE disturbed
  /\ UNCHANGED <<page, Path_Name, positions, Pause_flag, Cancel_flag, file, chain,
                 card, box, told, cancelledIn>>

\* What else happens on the page when no dialog is shown: other dialogs, other
\* folders, the file deleted from the list.
OtherDialog(shown) ==
  /\ ~open /\ open' = shown
  /\ box' \in {"other", "wait"}
  /\ UNCHANGED <<page, Path_Name, positions, Pause_flag, Cancel_flag, file, chain,
                 card, timers, history>>

CloseDlg ==
  /\ open /\ box # "upload"
  /\ open' = FALSE
  /\ UNCHANGED <<page, Path_Name, positions, Pause_flag, Cancel_flag, file, chain,
                 card, box, timers, history>>

Browse(f) ==
  /\ ~open
  /\ Path_Name' = f
  /\ UNCHANGED <<page, positions, Pause_flag, Cancel_flag, file, chain, card,
                 dialog, timers, history>>

DeleteFile ==
  /\ ~open
  /\ card' = WebDav_DeleteSyncXML(card)
  /\ box' = "wait"
  /\ UNCHANGED <<page, Path_Name, positions, Pause_flag, Cancel_flag, file, chain,
                 open, timers, history>>

-----------------------------------------------------------------------------
Init ==
  /\ page \in Pages /\ Path_Name = Root
  /\ fromSize = 0 /\ ToSize = 0 /\ total_file_size = 0
  /\ Pause_flag = FALSE /\ Cancel_flag = FALSE
  /\ file = [upload |-> 0, size |-> 0]
  /\ chain = [c \in Chain |-> Idle]
  /\ card = [f \in Folder |-> Absent]
  /\ box = "initial" /\ open = FALSE /\ timers = 0
  /\ told = "nothing" /\ cancelledIn = {} /\ disturbed = {}

Answer(c) ==
  \/ PutFails(c) \/ PutPaused(c) \/ PutGoesOn(c)
  \/ \E o \in Listing : PutCancelled(c, o) \/ PutCompletes(c, o)

User ==
  /\ Cardinality(disturbed) < MaxTrouble
  /\ \/ \E c \in Chain :
          \/ \E size \in 1..Chunks, known \in BOOLEAN : Choose(size, known, c)
          \/ Confirm(c) \/ Resume(c) \/ CancelPaused(c)
     \/ ChooseRejected \/ Pause \/ Cancel \/ CloseDlg \/ DeleteFile
     \/ \E shown \in BOOLEAN : OtherDialog(shown)
     \/ \E f \in Folder : Browse(f)

Next == User \/ Timer \/ \E c \in Chain : ReadDone(c) \/ Answer(c)

\* The browser runs its callbacks and timers, every request is answered or fails;
\* the user need not do anything.
Fairness ==
  /\ WF_vars(Timer)
  /\ \A c \in Chain : WF_vars(ReadDone(c)) /\ WF_vars(Answer(c))

Spec == Init /\ [][Next]_vars /\ Fairness

-----------------------------------------------------------------------------
\* Every variable has its type.
TypeOK ==
  /\ page \in Pages /\ Path_Name \in Folder
  /\ fromSize \in 0..Chunks /\ ToSize \in 0..Chunks /\ total_file_size \in 0..Chunks
  /\ Pause_flag \in BOOLEAN /\ Cancel_flag \in BOOLEAN
  /\ file \in [upload : Nat, size : 0..Chunks]
  /\ chain \in [Chain -> [phase : {"idle", "read", "put"}, upload : Nat,
                          data : 0..Chunks, at : 0..Chunks, folder : Folder]]
  /\ card \in [Folder -> [there : BOOLEAN, content : Seq(Nat \X Nat)]]
  /\ box \in {"initial", "upload", "confirm", "other", "wait"} /\ open \in BOOLEAN
  /\ timers \in 0..MaxTimers
  /\ told \in {"nothing", "whole", "broken"} /\ cancelledIn \in SUBSET Folder
  /\ disturbed \in SUBSET {"twice", "stale", "failed", "undeleted", "again", "closed"}

\* When the page says "100%", the card holds the file, every chunk of it once and
\* at its place, whatever was paused and continued on the way: WebDav_Upload and
\* WebDav_Upload_Ondoing keep the globals and the request under way in step,
\* unless a second chain ran, a request failed, the shared page's positions were
\* left over, or the dialog was closed under the upload.
UploadIsWhole == told = "broken" => disturbed # {}

\* A cancelled upload leaves nothing on the card (WebDav_Upload_Cancel: the chunk
\* under way comes before the DELETE, never after it), under the same conditions.
CancelLeavesNothing ==
  Busy = {} /\ disturbed = {} => \A f \in cancelledIn : ~card[f].there

\* An upload that is shown comes to its end, by 100% or by the cancellation, unless
\* it is paused or one of its requests has failed, to which nothing reacts.
UploadEnds == InUpload ~> (~InUpload \/ Pause_flag \/ "failed" \in disturbed)

\* As long as nothing disturbs it, the upload is a transfer: the chunks arrive one
\* by one and in order, it says it is done when all are there, and when it is
\* cancelled the file is gone.
abstract ==
  IF disturbed # {} THEN "open"
  ELSE IF told # "nothing" THEN (IF told = "whole" THEN "done" ELSE "broken")
  ELSE IF cancelledIn # {} THEN "gone"
  ELSE IF file.upload = 0 THEN "idle" ELSE "sending"

\* The card has nothing of this upload yet.
Fresh == Len(card[Path_Name].content) > 0 => card[Path_Name].content[1][1] # file.upload

arrived ==
  IF abstract = "sending" /\ InUpload /\ ~Fresh
  THEN Len(card[Path_Name].content) ELSE 0

T == INSTANCE Transfer WITH state <- abstract, sent <- arrived,
                            size <- IF abstract = "sending" THEN file.size ELSE 0

TransferSpec == T!Spec
=============================================================================
