--------------------------- MODULE SharingProofs ---------------------------
(***************************************************************************)
(* The two modules about the file sharing pages.                           *)
(*                                                                         *)
(* Of Upload: that an undisturbed upload is a transfer.  It arrives whole, *)
(* and a cancelled one leaves nothing, for any number of folders, chunks,  *)
(* uploads and chains.                                                     *)
(*                                                                         *)
(* Of Files: that the rows, ticks, buttons and dialogs of the list go      *)
(* together, and that the sortings show the list, for any card.            *)
(***************************************************************************)
EXTENDS Upload, Files, FiniteSetTheorems, TLAPS

-----------------------------------------------------------------------------
(* Of module Upload.                                                       *)

Request == [phase : {"idle", "read", "put"}, upload : Nat,
            data : 0..Chunks, at : 0..Chunks, folder : Folder]
File == [upload : Nat, size : 0..Chunks]
Held == [there : BOOLEAN, content : Seq(Nat \X Nat)]

-----------------------------------------------------------------------------
(* The inductive invariant.                                                *)

\* Nothing comes from an upload that is still to be.
AllOld ==
  /\ \A c \in Chain : chain[c].upload <= file.upload
  /\ \A f \in Folder : \A k \in 1..Len(card[f].content) : card[f].content[k][1] <= file.upload

\* At most one chain, and only while the upload is shown and not over.
OneChain ==
  /\ \A c, d \in Busy : c = d
  /\ Busy # {} => InUpload /\ ~Ended

\* What an upload that is shown has to start with.
Begun == InUpload \/ (open /\ box = "confirm") => file.size \in 1..Chunks /\ file.upload > 0

Asking == open /\ box = "confirm" => ToSize = 0 /\ Fresh /\ ~Ended

\* The first n chunks have arrived.
Arrived(n) ==
  /\ n \in 0..file.size
  /\ IF n = 0 THEN Fresh ELSE card[Path_Name] = Stored(Part(file, n))

Waiting == InUpload /\ ~Ended /\ Busy = {} => ToSize > 0 /\ Arrived(ToSize)

Working ==
  \A c \in Busy :
    /\ Arrived(fromSize)
    /\ total_file_size = file.size /\ ToSize = Smaller(fromSize + 1, file.size)
    /\ chain[c].upload = file.upload
    /\ chain[c].data = IF fromSize < file.size THEN fromSize + 1 ELSE 0
    /\ chain[c].phase = "put" => chain[c].at = fromSize /\ chain[c].folder = Path_Name

Gone == \A f \in cancelledIn : ~card[f].there

Calm == OneChain /\ Begun /\ Asking /\ Waiting /\ Working /\ Gone /\ told # "broken"

IInv == AllOld /\ (disturbed = {} => Calm)

-----------------------------------------------------------------------------
(* What is written.                                                        *)

LEMMA PartSeq ==
  ASSUME NEW f \in File, NEW n \in Nat
  PROVE  /\ Part(f, n) \in Seq(Nat \X Nat) /\ Len(Part(f, n)) = n
         /\ \A k \in 1..n : Part(f, n)[k] = <<f.upload, k>>
BY DEF Part, File

LEMMA PartLong ==
  ASSUME NEW f, NEW n \in Nat
  PROVE  Len(Part(f, n)) = n /\ (n # 0 => Part(f, n)[1] = <<f.upload, 1>>)
BY DEF Part

LEMMA IdleTyped == Idle \in Request /\ Idle.phase = "idle" /\ Idle.upload = 0
BY UploadAssumption, SharingAssumption DEF Idle, Request

LEMMA AbsentTyped == Absent \in Held /\ ~Absent.there /\ Len(Absent.content) = 0
BY DEF Absent, Held

LEMMA WriteTyped ==
  ASSUME NEW old \in Held, NEW step \in Request, NEW u \in Nat, step.upload <= u,
         \A k \in 1..Len(old.content) : old.content[k][1] <= u
  PROVE  /\ Write(old, step) \in Held
         /\ \A k \in 1..Len(Write(old, step).content) : Write(old, step).content[k][1] <= u
<1> DEFINE base == IF step.at = 0 THEN <<>> ELSE old.content
           size == IF step.at >= Len(base) THEN step.at + 1 ELSE Len(base)
           new == [k \in 1..size |-> IF k = step.at + 1 THEN <<step.upload, step.data>>
                                     ELSE IF k <= Len(base) THEN base[k]
                                     ELSE Hole]
<1>1. base \in Seq(Nat \X Nat) /\ \A k \in 1..Len(base) : base[k] \in Nat \X Nat /\ base[k][1] <= u
  <2>1. CASE step.at = 0
    BY <2>1
  <2>2. CASE step.at # 0
    BY <2>2 DEF Held
  <2> QED
    BY <2>1, <2>2
<1> HIDE DEF base
<1>2. size \in Nat /\ Hole \in Nat \X Nat /\ Hole[1] <= u
      /\ <<step.upload, step.data>> \in Nat \X Nat /\ <<step.upload, step.data>>[1] <= u
  BY <1>1 DEF Request, Hole
<1> HIDE DEF size
<1>3. new \in [1..size -> Nat \X Nat] /\ \A k \in 1..size : new[k][1] <= u
  BY SMTT(30), <1>1, <1>2
<1> HIDE DEF new
<1>4. new \in Seq(Nat \X Nat) /\ Len(new) = size
  BY <1>2, <1>3
<1>5. Write(old, step) = [there |-> TRUE, content |-> IF step.data = 0 THEN base ELSE new]
  BY DEF Write, Stored, base, size, new
<1> QED
  BY <1>1, <1>3, <1>4, <1>5 DEF Held

\* The chunk that follows the first n makes them n + 1.
LEMMA PartGrows ==
  ASSUME NEW f \in File, NEW n \in Nat, NEW old \in Held, NEW step \in Request,
         step.upload = f.upload, step.at = n, step.data = n + 1,
         n > 0 => old = Stored(Part(f, n))
  PROVE  Write(old, step) = Stored(Part(f, n + 1))
<1> DEFINE base == IF step.at = 0 THEN <<>> ELSE old.content
<1>1. Len(base) = n /\ \A k \in 1..n : base[k] = <<f.upload, k>>
  <2>1. CASE n = 0
    BY <2>1
  <2>2. CASE n > 0
    <3>1. base = Part(f, n)
      BY <2>2 DEF Stored
    <3> QED
      BY <3>1, PartSeq
  <2> QED
    BY <2>1, <2>2
<1>2. Write(old, step) =
        LET size == IF step.at >= Len(base) THEN step.at + 1 ELSE Len(base)
        IN  Stored(IF step.data = 0 THEN base
                   ELSE [k \in 1..size |-> IF k = step.at + 1 THEN <<step.upload, step.data>>
                                           ELSE IF k <= Len(base) THEN base[k] ELSE Hole])
  BY DEF Write
<1> HIDE DEF base
<1>3. Write(old, step) =
        Stored([k \in 1..(n + 1) |-> IF k = n + 1 THEN <<f.upload, n + 1>>
                                      ELSE IF k <= n THEN base[k] ELSE Hole])
  BY <1>1, <1>2
<1>4. \A k \in 1..(n + 1) : (IF k = n + 1 THEN <<f.upload, n + 1>>
                             ELSE IF k <= n THEN base[k] ELSE Hole) = <<f.upload, k>>
  BY <1>1
<1> QED
  BY <1>3, <1>4 DEF Part

\* What an undisturbed request has written when it is carried out.
LEMMA Delivered ==
  ASSUME TypeOK, Calm, NEW c \in Chain, chain[c].phase = "put"
  PROVE  /\ c \in Busy /\ chain[c].folder = Path_Name
         /\ ToSize \in 1..file.size /\ total_file_size = file.size
         /\ fromSize \in 0..file.size /\ ToSize = Smaller(fromSize + 1, file.size)
         /\ Write(card[Path_Name], chain[c]) = Stored(Part(file, ToSize))
<1>1. c \in Busy
  BY DEF Busy
<1>2. /\ file.size \in 1..Chunks /\ file \in File /\ Chunks \in Nat
      /\ card[Path_Name] \in Held /\ chain[c] \in Request
  BY <1>1, UploadAssumption, SharingAssumption DEF Calm, OneChain, Begun, TypeOK, File, Held, Request
<1>3. /\ Arrived(fromSize) /\ chain[c].upload = file.upload /\ chain[c].at = fromSize
      /\ chain[c].data = IF fromSize < file.size THEN fromSize + 1 ELSE 0
      /\ ToSize = Smaller(fromSize + 1, file.size) /\ total_file_size = file.size
      /\ chain[c].folder = Path_Name
  BY <1>1 DEF Calm, Working
<1>4. /\ fromSize \in 0..file.size
      /\ fromSize > 0 => card[Path_Name] = Stored(Part(file, fromSize))
  BY <1>2, <1>3 DEF Arrived
<1>5. ToSize \in 1..file.size
  BY <1>2, <1>3, <1>4 DEF Smaller
<1>6. CASE fromSize < file.size
  <2>1. ToSize = fromSize + 1
    BY <1>2, <1>3, <1>4, <1>6 DEF Smaller
  <2>2. Write(card[Path_Name], chain[c]) = Stored(Part(file, fromSize + 1))
    BY <1>2, <1>3, <1>4, <1>6, PartGrows
  <2> QED
    BY <1>1, <1>3, <1>4, <1>5, <2>1, <2>2
<1>7. CASE fromSize = file.size
  <2>1. ToSize = fromSize /\ chain[c].data = 0 /\ chain[c].at # 0
    BY <1>2, <1>3, <1>4, <1>7 DEF Smaller
  <2>2. card[Path_Name].content = Part(file, fromSize)
    BY <1>2, <1>4, <1>7 DEF Stored
  <2>3. Write(card[Path_Name], chain[c]) = Stored(Part(file, fromSize))
    BY <2>1, <2>2 DEF Write
  <2> QED
    BY <1>1, <1>3, <1>4, <1>5, <2>1, <2>3
<1> QED
  BY <1>4, <1>6, <1>7, <1>2

-----------------------------------------------------------------------------
(* Types.                                                                  *)

LEMMA Typed ==
  TypeOK <=>
    /\ page \in Pages /\ Path_Name \in Folder
    /\ fromSize \in 0..Chunks /\ ToSize \in 0..Chunks /\ total_file_size \in 0..Chunks
    /\ Pause_flag \in BOOLEAN /\ Cancel_flag \in BOOLEAN
    /\ file \in File /\ chain \in [Chain -> Request] /\ card \in [Folder -> Held]
    /\ box \in {"initial", "upload", "confirm", "other", "wait"} /\ open \in BOOLEAN
    /\ timers \in 0..MaxTimers
    /\ told \in {"nothing", "whole", "broken"} /\ cancelledIn \in SUBSET Folder
    /\ disturbed \in SUBSET {"twice", "stale", "failed", "undeleted", "again", "closed"}
BY DEF TypeOK, File, Request, Held

LEMMA TypedNext ==
  TypeOK' <=>
    /\ page' \in Pages /\ Path_Name' \in Folder
    /\ fromSize' \in 0..Chunks /\ ToSize' \in 0..Chunks /\ total_file_size' \in 0..Chunks
    /\ Pause_flag' \in BOOLEAN /\ Cancel_flag' \in BOOLEAN
    /\ file' \in File /\ chain' \in [Chain -> Request] /\ card' \in [Folder -> Held]
    /\ box' \in {"initial", "upload", "confirm", "other", "wait"} /\ open' \in BOOLEAN
    /\ timers' \in 0..MaxTimers
    /\ told' \in {"nothing", "whole", "broken"} /\ cancelledIn' \in SUBSET Folder
    /\ disturbed' \in SUBSET {"twice", "stale", "failed", "undeleted", "again", "closed"}
BY DEF TypeOK, File, Request, Held

LEMMA UploadStep ==
  ASSUME NEW c \in Chain, NEW f \in File, NEW to \in 0..Chunks,
         chain \in [Chain -> Request], WebDav_Upload(c, f, to)
  PROVE  /\ fromSize' = to /\ ToSize' = Smaller(to + 1, f.size) /\ total_file_size' = f.size
         /\ fromSize' \in 0..Chunks /\ ToSize' \in 0..Chunks /\ total_file_size' \in 0..Chunks
         /\ chain' \in [Chain -> Request]
         /\ chain'[c].phase = "read" /\ chain'[c].upload = f.upload
         /\ chain'[c].data = IF to < f.size THEN to + 1 ELSE 0
         /\ \A d \in Chain \ {c} : chain'[d] = chain[d]
<1>1. Idle \in Request /\ Chunks \in Nat /\ f.size \in 0..Chunks /\ f.upload \in Nat
  BY IdleTyped, UploadAssumption, SharingAssumption DEF File
<1>2. /\ fromSize' = to /\ ToSize' = Smaller(to + 1, f.size) /\ total_file_size' = f.size
      /\ fromSize' \in 0..Chunks /\ ToSize' \in 0..Chunks /\ total_file_size' \in 0..Chunks
  BY <1>1 DEF WebDav_Upload, Smaller
<1> DEFINE data == IF to < f.size THEN to + 1 ELSE 0
           r == [Idle EXCEPT !.phase = "read", !.upload = f.upload, !.data = data]
<1>3. data \in 0..Chunks
  BY <1>1
<1>4. r \in Request /\ r.phase = "read" /\ r.upload = f.upload /\ r.data = data
  BY <1>1, <1>3 DEF Request
<1>5. chain' = [chain EXCEPT ![c] = r]
  BY DEF WebDav_Upload
<1> HIDE DEF r
<1>6. chain' \in [Chain -> Request] /\ chain'[c] = r /\ \A d \in Chain \ {c} : chain'[d] = chain[d]
  BY <1>4, <1>5
<1> QED
  BY <1>2, <1>4, <1>6

LEMMA EndStep ==
  ASSUME NEW c \in Chain, chain \in [Chain -> Request], EndChain(c)
  PROVE  /\ chain' \in [Chain -> Request] /\ chain'[c].phase = "idle" /\ chain'[c].upload = 0
         /\ \A d \in Chain \ {c} : chain'[d] = chain[d]
BY IdleTyped DEF EndChain

\* A chunk on the card, or the file deleted.
LEMMA CardStep ==
  ASSUME NEW f \in Folder, NEW h \in Held, card \in [Folder -> Held],
         card' = [card EXCEPT ![f] = h]
  PROVE  card' \in [Folder -> Held] /\ card'[f] = h /\ \A g \in Folder \ {f} : card'[g] = card[g]
OBVIOUS

LEMMA AcceptedStep ==
  ASSUME TypeOK, AllOld, NEW c \in Chain, Accepted(c)
  PROVE  /\ card' \in [Folder -> Held]
         /\ card'[chain[c].folder] = Write(card[chain[c].folder], chain[c])
         /\ \A g \in Folder \ {chain[c].folder} : card'[g] = card[g]
         /\ \A f \in Folder : \A k \in 1..Len(card'[f].content) :
               card'[f].content[k][1] <= file.upload
<1> DEFINE f == chain[c].folder
           h == Write(card[f], chain[c])
<1>1. /\ f \in Folder /\ chain[c] \in Request /\ card[f] \in Held /\ card \in [Folder -> Held]
      /\ file.upload \in Nat
  BY Typed DEF Request, File
<1>2. /\ chain[c].upload <= file.upload
      /\ \A g \in Folder : \A k \in 1..Len(card[g].content) : card[g].content[k][1] <= file.upload
  BY DEF AllOld
<1>3. h \in Held /\ \A k \in 1..Len(h.content) : h.content[k][1] <= file.upload
  BY <1>1, <1>2, WriteTyped
<1>4. card' = [card EXCEPT ![f] = h]
  BY DEF Accepted
<1> HIDE DEF f, h
<1>5. card' \in [Folder -> Held] /\ card'[f] = h /\ \A g \in Folder \ {f} : card'[g] = card[g]
  BY <1>1, <1>3, <1>4, CardStep
<1>6. \A g \in Folder : \A k \in 1..Len(card'[g].content) : card'[g].content[k][1] <= file.upload
  BY <1>2, <1>3, <1>5
<1> QED
  BY <1>5, <1>6 DEF f, h

\* The steps, one per action.
LEMMA Steps ==
  ASSUME Next
  PROVE  \/ \E c \in Chain, size \in 1..Chunks, known \in BOOLEAN : Choose(size, known, c)
         \/ \E c \in Chain : \/ Confirm(c) \/ Resume(c) \/ CancelPaused(c)
                           \/ ReadDone(c) \/ PutFails(c) \/ PutPaused(c) \/ PutGoesOn(c)
                           \/ \E o \in Listing : PutCancelled(c, o) \/ PutCompletes(c, o)
         \/ ChooseRejected \/ Pause \/ Cancel \/ CloseDlg \/ DeleteFile \/ Timer
         \/ \E asked \in BOOLEAN : OtherDialog(asked)
         \/ \E f \in Folder : Browse(f)
<1>1. CASE User
  BY <1>1 DEF User
<1>2. CASE Timer
  BY <1>2
<1>3. CASE \E c \in Chain : ReadDone(c) \/ Answer(c)
  BY <1>3 DEF Answer
<1> QED
  BY <1>1, <1>2, <1>3 DEF Next

LEMMA ChooseTypes ==
  ASSUME TypeOK, AllOld, NEW c \in Chain, NEW size \in 1..Chunks, NEW known \in BOOLEAN,
         Choose(size, known, c)
  PROVE  TypeOK' /\ AllOld'
<1>1. /\ file' \in File /\ file'.upload = file.upload + 1 /\ file'.size = size
      /\ file.upload \in Nat
  BY Typed, UploadAssumption, SharingAssumption DEF Choose, NewFile, File
<1>2. /\ UNCHANGED <<page, Path_Name, card, timers>> /\ open' = TRUE
      /\ Pause_flag' = FALSE /\ Cancel_flag' = FALSE
      /\ told' = "nothing" /\ cancelledIn' = {}
  BY DEF Choose, NewFile
<1>3. box' \in {"initial", "upload", "confirm", "other", "wait"}
      /\ disturbed' \in SUBSET {"twice", "stale", "failed", "undeleted", "again", "closed"}
  BY DEF Choose, Twice
<1>4. /\ fromSize' \in 0..Chunks /\ ToSize' \in 0..Chunks /\ total_file_size' \in 0..Chunks
      /\ chain' \in [Chain -> Request] /\ \A d \in Chain : chain'[d].upload <= file'.upload
  <2>1. chain \in [Chain -> Request] /\ ToSize \in 0..Chunks
        /\ \A d \in Chain : chain[d].upload <= file.upload /\ chain[d].upload \in Nat
    BY Typed DEF AllOld, Request
  <2>2. CASE chain' = chain /\ fromSize' = 0 /\ ToSize' = 0 /\ total_file_size' = 0
    BY <1>1, <2>1, <2>2, UploadAssumption, SharingAssumption
  <2>3. CASE \E to \in 0..Chunks : WebDav_Upload(c, file', to)
    <3>1. PICK to \in 0..Chunks : WebDav_Upload(c, file', to)
      BY <2>3
    <3>2. /\ fromSize' \in 0..Chunks /\ ToSize' \in 0..Chunks /\ total_file_size' \in 0..Chunks
          /\ chain' \in [Chain -> Request] /\ chain'[c].upload = file'.upload
          /\ \A d \in Chain \ {c} : chain'[d] = chain[d]
      BY <1>1, <2>1, <3>1, UploadStep
    <3> QED
      BY <1>1, <2>1, <3>2
  <2> QED
    BY <2>1, <2>2, <2>3, UploadAssumption, SharingAssumption DEF Choose
<1>5. TypeOK'
  BY <1>1, <1>2, <1>3, <1>4, Typed, TypedNext
<1>6. AllOld'
  <2>1. ASSUME NEW f \in Folder, NEW k \in 1..Len(card[f].content)
        PROVE  card[f].content[k][1] \in Nat /\ card[f].content[k][1] <= file.upload
    <3>1. card[f].content \in Seq(Nat \X Nat)
      BY Typed DEF Held
    <3> QED
      BY <3>1 DEF AllOld
  <2>2. \A f \in Folder : \A k \in 1..Len(card[f].content) : card[f].content[k][1] <= file'.upload
    BY <1>1, <2>1
  <2> QED
    BY <1>2, <1>4, <2>2 DEF AllOld
<1> QED
  BY <1>5, <1>6

\* Confirm, Resume, CancelPaused and PutGoesOn: the next chunk.
LEMMA NextChunkTypes ==
  ASSUME TypeOK, AllOld, NEW c \in Chain, WebDav_Upload(c, file, ToSize)
  PROVE  /\ fromSize' \in 0..Chunks /\ ToSize' \in 0..Chunks /\ total_file_size' \in 0..Chunks
         /\ chain' \in [Chain -> Request] /\ \A d \in Chain : chain'[d].upload <= file.upload
<1>1. /\ chain \in [Chain -> Request] /\ ToSize \in 0..Chunks /\ file \in File
      /\ file.upload \in Nat /\ \A d \in Chain : chain[d].upload <= file.upload
  BY Typed DEF AllOld, File
<1>2. /\ fromSize' \in 0..Chunks /\ ToSize' \in 0..Chunks /\ total_file_size' \in 0..Chunks
      /\ chain' \in [Chain -> Request] /\ chain'[c].upload = file.upload
      /\ \A d \in Chain \ {c} : chain'[d] = chain[d]
  BY <1>1, UploadStep
<1> QED
  BY <1>1, <1>2

LEMMA TypesStep ==
  ASSUME TypeOK, AllOld, [Next]_vars
  PROVE  TypeOK' /\ AllOld'
<1>0. /\ \A d \in Chain : chain[d].upload <= file.upload /\ chain[d] \in Request
      /\ 0 \in 0..Chunks /\ file.upload \in Nat /\ 0 <= file.upload
      /\ MaxTimers \in Nat
  BY Typed, UploadAssumption, SharingAssumption DEF AllOld, File
<1>1. ASSUME NEW c \in Chain, NEW size \in 1..Chunks, NEW known \in BOOLEAN,
             Choose(size, known, c)
      PROVE  TypeOK' /\ AllOld'
  BY <1>1, ChooseTypes
<1>2. ASSUME NEW c \in Chain, Confirm(c) \/ Resume(c) \/ CancelPaused(c)
      PROVE  TypeOK' /\ AllOld'
  <2>1. WebDav_Upload(c, file, ToSize) /\ UNCHANGED <<file, card, Path_Name, page, timers, told, cancelledIn, open>>
    BY <1>2 DEF Confirm, Resume, CancelPaused, dialog
  <2>2. /\ box' \in {"initial", "upload", "confirm", "other", "wait"}
        /\ Pause_flag' \in BOOLEAN /\ Cancel_flag' \in BOOLEAN
        /\ disturbed' \in SUBSET {"twice", "stale", "failed", "undeleted", "again", "closed"}
    BY <1>2, Typed DEF Confirm, Resume, CancelPaused, Twice, dialog
  <2>3. TypeOK'
    BY <2>1, <2>2, NextChunkTypes, Typed, TypedNext
  <2>4. AllOld'
    BY <2>1, NextChunkTypes DEF AllOld
  <2> QED
    BY <2>3, <2>4
<1>3. ASSUME NEW c \in Chain, ReadDone(c)
      PROVE  TypeOK' /\ AllOld'
  <2> DEFINE r == [chain[c] EXCEPT !.phase = "put", !.at = fromSize, !.folder = Path_Name]
  <2>1. r \in Request /\ r.upload = chain[c].upload
    BY <1>0, Typed DEF Request
  <2>2. chain' = [chain EXCEPT ![c] = r] /\ chain \in [Chain -> Request]
    BY <1>3, Typed DEF ReadDone
  <2> HIDE DEF r
  <2>3. chain' \in [Chain -> Request] /\ \A d \in Chain : chain'[d].upload = chain[d].upload
    BY <2>1, <2>2
  <2>4. TypeOK'
    BY <1>3, <2>3, Typed, TypedNext DEF ReadDone, positions, dialog, history
  <2>5. AllOld'
    BY <1>0, <1>3, <2>3 DEF ReadDone, AllOld
  <2> QED
    BY <2>4, <2>5
<1>4. ASSUME NEW c \in Chain, PutFails(c) \/ PutPaused(c)
      PROVE  TypeOK' /\ AllOld'
  <2>1. EndChain(c) /\ (Accepted(c) \/ card' = card) /\ UNCHANGED file
    BY <1>4 DEF PutFails, PutPaused
  <2>2. chain' \in [Chain -> Request] /\ \A d \in Chain : chain'[d].upload <= file.upload
    BY <1>0, <2>1, EndStep, Typed
  <2>3. card' \in [Folder -> Held] /\ \A f \in Folder : \A k \in 1..Len(card'[f].content) :
               card'[f].content[k][1] <= file.upload
    BY <2>1, AcceptedStep, Typed DEF AllOld
  <2>4. disturbed' \in SUBSET {"twice", "stale", "failed", "undeleted", "again", "closed"}
    BY <1>4, Typed DEF PutFails, PutPaused, history
  <2>5. TypeOK'
    BY <1>4, <2>2, <2>3, <2>4, Typed, TypedNext DEF PutFails, PutPaused, positions, dialog, history
  <2>6. AllOld'
    BY <2>1, <2>2, <2>3 DEF AllOld
  <2> QED
    BY <2>5, <2>6
<1>5. ASSUME NEW c \in Chain, PutGoesOn(c)
      PROVE  TypeOK' /\ AllOld'
  <2>1. WebDav_Upload(c, file, ToSize) /\ Accepted(c)
        /\ UNCHANGED <<page, Path_Name, Pause_flag, Cancel_flag, file, dialog, timers, history>>
    BY <1>5 DEF PutGoesOn
  <2>2. TypeOK'
    BY <2>1, NextChunkTypes, AcceptedStep, Typed, TypedNext DEF dialog, history
  <2>3. AllOld'
    BY <2>1, NextChunkTypes, AcceptedStep DEF AllOld
  <2> QED
    BY <2>2, <2>3
<1>6. ASSUME NEW c \in Chain, NEW o \in Listing, PutCompletes(c, o)
      PROVE  TypeOK' /\ AllOld'
  <2>1. Accepted(c) /\ EndChain(c) /\ UNCHANGED file
    BY <1>6 DEF PutCompletes
  <2>2. chain' \in [Chain -> Request] /\ \A d \in Chain : chain'[d].upload <= file.upload
    BY <1>0, <2>1, EndStep, Typed
  <2>3. open' \in BOOLEAN /\ timers' \in 0..MaxTimers /\ told' \in {"nothing", "whole", "broken"}
        /\ box' \in {"initial", "upload", "confirm", "other", "wait"}
    BY <1>0, <1>6, Typed DEF PutCompletes
  <2>4. TypeOK'
    BY <1>0, <1>6, <2>1, <2>2, <2>3, AcceptedStep, Typed, TypedNext DEF PutCompletes
  <2>5. AllOld'
    BY <2>1, <2>2, AcceptedStep DEF AllOld
  <2> QED
    BY <2>4, <2>5
<1>7. ASSUME NEW c \in Chain, NEW o \in Listing, PutCancelled(c, o)
      PROVE  TypeOK' /\ AllOld'
  <2> DEFINE f == chain[c].folder
             written == [card EXCEPT ![f] = Write(@, chain[c])]
  <2>1. EndChain(c) /\ UNCHANGED file
        /\ (card' = written \/ card' = [written EXCEPT ![Path_Name] = Absent])
    BY <1>7 DEF PutCancelled, WebDav_DeleteSyncXML
  <2>2. chain' \in [Chain -> Request] /\ \A d \in Chain : chain'[d].upload <= file.upload
    BY <1>0, <2>1, EndStep, Typed
  <2>3. f \in Folder /\ card \in [Folder -> Held] /\ card[f] \in Held
        /\ \A g \in Folder : \A k \in 1..Len(card[g].content) : card[g].content[k][1] <= file.upload
    BY <1>0, Typed DEF Request, AllOld
  <2>4. /\ Write(card[f], chain[c]) \in Held
        /\ \A k \in 1..Len(Write(card[f], chain[c]).content) :
             Write(card[f], chain[c]).content[k][1] <= file.upload
    BY <1>0, <2>3, WriteTyped
  <2> HIDE DEF f
  <2>5. written \in [Folder -> Held] /\ \A g \in Folder : \A k \in 1..Len(written[g].content) :
             written[g].content[k][1] <= file.upload
    BY <2>3, <2>4
  <2> HIDE DEF written
  <2>6. card' \in [Folder -> Held] /\ \A g \in Folder : \A k \in 1..Len(card'[g].content) :
             card'[g].content[k][1] <= file.upload
    BY <2>1, <2>5, AbsentTyped
  <2>7. /\ open' \in BOOLEAN /\ timers' \in 0..MaxTimers /\ cancelledIn' \in SUBSET Folder
        /\ box' \in {"initial", "upload", "confirm", "other", "wait"}
        /\ fromSize' \in 0..Chunks /\ ToSize' \in 0..Chunks
    BY <1>0, <1>7, Typed DEF PutCancelled
  <2>8. disturbed' \in SUBSET {"twice", "stale", "failed", "undeleted", "again", "closed"}
    BY <1>7, Typed DEF PutCancelled
  <2>9. TypeOK'
    BY <1>7, <2>2, <2>6, <2>7, <2>8, Typed, TypedNext DEF PutCancelled
  <2>10. AllOld'
    BY <2>1, <2>2, <2>6 DEF AllOld
  <2> QED
    BY <2>9, <2>10
<1>8. CASE DeleteFile
  <2>1. card' = [card EXCEPT ![Path_Name] = Absent] /\ UNCHANGED <<file, chain>>
        /\ Path_Name \in Folder /\ card \in [Folder -> Held]
    BY <1>8, Typed DEF DeleteFile, WebDav_DeleteSyncXML
  <2>2. card' \in [Folder -> Held] /\ card'[Path_Name] = Absent
        /\ \A g \in Folder \ {Path_Name} : card'[g] = card[g]
    BY <2>1, AbsentTyped, CardStep
  <2>3. TypeOK'
    BY <1>8, <2>2, Typed, TypedNext DEF DeleteFile, positions, history
  <2>4. AllOld'
    BY <2>1, <2>2, AbsentTyped DEF AllOld
  <2> QED
    BY <2>3, <2>4
<1>9. CASE ChooseRejected
  <2>1. TypeOK'
    BY <1>0, <1>9, Typed, TypedNext DEF ChooseRejected, Twice
  <2> QED
    BY <1>9, <2>1 DEF ChooseRejected, AllOld
<1>10. CASE Pause \/ Cancel \/ CloseDlg \/ (\E asked \in BOOLEAN : OtherDialog(asked))
            \/ (\E f \in Folder : Browse(f)) \/ UNCHANGED vars
  <2>1. TypeOK'
    BY <1>10, Typed, TypedNext DEF Pause, Cancel, CloseDlg, OtherDialog, Browse, vars, positions, dialog, history
  <2>2. UNCHANGED <<file, chain, card>>
    BY <1>10 DEF Pause, Cancel, CloseDlg, OtherDialog, Browse, vars
  <2> QED
    BY <2>1, <2>2 DEF AllOld
<1>11. CASE Timer
  <2>0. timers > 0 /\ timers' = timers - 1 /\ open' = FALSE
    BY <1>11 DEF Timer
  <2>1. timers \in 0..MaxTimers /\ MaxTimers \in Nat
    BY UploadAssumption, SharingAssumption, Typed
  <2>a. timers' \in 0..MaxTimers
    BY <2>0, <2>1
  <2>c. open' \in BOOLEAN
    BY <1>11 DEF Timer
  <2>b. disturbed' = disturbed \cup {"closed"} \/ disturbed' = disturbed
    BY <1>11 DEF Timer
  <2>2. TypeOK'
    BY <1>11, <2>a, <2>b, <2>c, Typed, TypedNext DEF Timer, positions
  <2> QED
    BY <1>11, <2>2 DEF Timer, AllOld
<1> QED
  BY <1>1, <1>2, <1>3, <1>4, <1>5, <1>6, <1>7, <1>8, <1>9, <1>10, <1>11, Steps

-----------------------------------------------------------------------------
(* Every step that leaves the upload undisturbed keeps it calm.            *)

LEMMA Launched ==
  ASSUME TypeOK, Busy = {}, NEW c \in Chain, NEW f \in File, NEW to \in 0..Chunks,
         WebDav_Upload(c, f, to)
  PROVE  /\ Busy' = {c} /\ fromSize' = to /\ ToSize' = Smaller(to + 1, f.size)
         /\ total_file_size' = f.size
         /\ chain'[c].phase = "read" /\ chain'[c].upload = f.upload
         /\ chain'[c].data = IF to < f.size THEN to + 1 ELSE 0
<1>1. chain \in [Chain -> Request] /\ \A d \in Chain : chain[d].phase = "idle"
  BY Typed DEF Busy
<1>2. /\ fromSize' = to /\ ToSize' = Smaller(to + 1, f.size) /\ total_file_size' = f.size
      /\ chain'[c].phase = "read" /\ chain'[c].upload = f.upload
      /\ chain'[c].data = IF to < f.size THEN to + 1 ELSE 0
      /\ \A d \in Chain \ {c} : chain'[d] = chain[d]
  BY <1>1, UploadStep
<1> QED
  BY <1>1, <1>2 DEF Busy

\* The same for what goes on: one chunk after the other.
LEMMA Relaunched ==
  ASSUME TypeOK, NEW c \in Chain, Busy \subseteq {c}, WebDav_Upload(c, file, ToSize)
  PROVE  /\ Busy' = {c} /\ fromSize' = ToSize /\ ToSize' = Smaller(ToSize + 1, file.size)
         /\ total_file_size' = file.size
         /\ chain'[c].phase = "read" /\ chain'[c].upload = file.upload
         /\ chain'[c].data = IF ToSize < file.size THEN ToSize + 1 ELSE 0
<1>1. chain \in [Chain -> Request] /\ (\A d \in Chain \ {c} : chain[d].phase = "idle")
      /\ file \in File /\ ToSize \in 0..Chunks
  BY Typed DEF Busy
<1>2. /\ fromSize' = ToSize /\ ToSize' = Smaller(ToSize + 1, file.size)
      /\ total_file_size' = file.size
      /\ chain'[c].phase = "read" /\ chain'[c].upload = file.upload
      /\ chain'[c].data = IF ToSize < file.size THEN ToSize + 1 ELSE 0
      /\ \A d \in Chain \ {c} : chain'[d] = chain[d]
  BY <1>1, UploadStep
<1> QED
  BY <1>1, <1>2 DEF Busy

LEMMA ChooseCalm ==
  ASSUME TypeOK, AllOld, NEW c \in Chain, NEW size \in 1..Chunks, NEW known \in BOOLEAN,
         Choose(size, known, c), disturbed' = {}
  PROVE  Calm' /\ Fresh'
<1>1. /\ file' \in File /\ file'.upload = file.upload + 1 /\ file'.size = size
      /\ file.upload \in Nat /\ Chunks \in Nat /\ size \in Nat /\ size > 0
  BY Typed, UploadAssumption, SharingAssumption DEF Choose, NewFile, File
<1>2. /\ UNCHANGED <<page, Path_Name, card>> /\ open' = TRUE
      /\ told' = "nothing" /\ cancelledIn' = {}
  BY DEF Choose, NewFile
<1>3. Busy = {}
  BY DEF Choose, Twice
<1>4. Fresh'
  <2>1. card[Path_Name].content \in Seq(Nat \X Nat)
    BY Typed DEF Held
  <2>2. Len(card[Path_Name].content) > 0 =>
          card[Path_Name].content[1][1] \in Nat /\ card[Path_Name].content[1][1] <= file.upload
    BY <2>1, Typed DEF AllOld
  <2> QED
    BY <1>1, <1>2, <2>2 DEF Fresh
<1>5. Arrived(0)' /\ ~Ended' /\ Gone' /\ Begun' /\ told' # "broken"
  BY <1>1, <1>2, <1>4 DEF Arrived, Ended, Gone, Begun
<1>6. CASE box' = "confirm" /\ chain' = chain /\ ToSize' = 0
  <2>1. Busy' = {}
    BY <1>3, <1>6 DEF Busy
  <2>2. ~InUpload'
    BY <1>6 DEF InUpload
  <2> QED
    BY <1>4, <1>5, <1>6, <2>1, <2>2 DEF Calm, OneChain, Asking, Waiting, Working
<1>7. CASE box' = "upload" /\ WebDav_Upload(c, file', 0)
  <2>1. /\ Busy' = {c} /\ fromSize' = 0 /\ ToSize' = Smaller(0 + 1, file'.size)
        /\ total_file_size' = file'.size /\ chain'[c].phase = "read"
        /\ chain'[c].upload = file'.upload
        /\ chain'[c].data = IF 0 < file'.size THEN 0 + 1 ELSE 0
    BY <1>1, <1>3, <1>7, Launched
  <2>2. InUpload'
    BY <1>2, <1>7 DEF InUpload
  <2>3. Working'
    BY <1>1, <1>5, <2>1 DEF Working
  <2> QED
    BY <1>4, <1>5, <1>7, <2>1, <2>2, <2>3 DEF Calm, OneChain, Asking, Waiting
<1> QED
  BY <1>4, <1>6, <1>7 DEF Choose

\* Confirm, Resume, CancelPaused: the next chunk of an upload that has waited.
LEMMA NextChunkCalm ==
  ASSUME TypeOK, Calm, NEW c \in Chain, Confirm(c) \/ Resume(c) \/ CancelPaused(c),
         disturbed' = {}
  PROVE  /\ Calm' /\ InUpload' /\ ~Ended /\ ~Ended'
         /\ InUpload \/ (Fresh /\ Fresh')
         /\ UNCHANGED <<file, card, Path_Name, told, cancelledIn>>
<1>1. /\ WebDav_Upload(c, file, ToSize) /\ UNCHANGED <<file, card, Path_Name, told, cancelledIn, open>>
      /\ open /\ box' = "upload"
  BY DEF Confirm, Resume, CancelPaused, InUpload, dialog
<1>2. Busy = {} /\ ~Ended /\ ~Ended'
  BY <1>1 DEF Confirm, Resume, CancelPaused, Twice, Ended, Calm, Asking
<1>3. Arrived(ToSize) /\ (InUpload \/ (Fresh /\ Fresh'))
  BY <1>1, <1>2, UploadAssumption, SharingAssumption DEF Confirm, Resume, CancelPaused, Calm, Waiting, Asking, Arrived,
    Begun, InUpload, Fresh
<1>4. /\ Busy' = {c} /\ fromSize' = ToSize /\ ToSize' = Smaller(ToSize + 1, file.size)
      /\ total_file_size' = file.size
      /\ chain'[c].phase = "read" /\ chain'[c].upload = file.upload
      /\ chain'[c].data = IF ToSize < file.size THEN ToSize + 1 ELSE 0
  BY <1>1, <1>2, Relaunched
<1>5. InUpload'
  BY <1>1 DEF InUpload
<1>6. Working'
  BY <1>1, <1>3, <1>4 DEF Working, Arrived, Fresh
<1>7. Begun' /\ Gone' /\ told' # "broken"
  BY <1>1 DEF Confirm, Resume, CancelPaused, Calm, Begun, Gone, InUpload
<1> QED
  BY <1>1, <1>2, <1>3, <1>4, <1>5, <1>6, <1>7 DEF Calm, OneChain, Asking, Waiting

LEMMA ReadDoneCalm ==
  ASSUME TypeOK, Calm, NEW c \in Chain, ReadDone(c)
  PROVE  Calm'
<1> DEFINE r == [chain[c] EXCEPT !.phase = "put", !.at = fromSize, !.folder = Path_Name]
<1>1. /\ chain \in [Chain -> Request] /\ chain' = [chain EXCEPT ![c] = r]
      /\ chain[c].phase = "read" /\ chain[c] \in Request
      /\ UNCHANGED <<page, Path_Name, fromSize, ToSize, total_file_size, file, card, box, open, told, cancelledIn>>
  BY Typed DEF ReadDone, positions, dialog, history
<1>2. r.phase = "put" /\ r.at = fromSize /\ r.folder = Path_Name
      /\ r.upload = chain[c].upload /\ r.data = chain[c].data
  BY <1>1 DEF Request
<1> HIDE DEF r
<1>3. chain'[c] = r /\ \A d \in Chain \ {c} : chain'[d] = chain[d]
  BY <1>1
<1>4. Busy' = Busy /\ c \in Busy
  BY <1>1, <1>2, <1>3 DEF Busy
<1>5. \A d \in Busy : d = c
  BY <1>4 DEF Calm, OneChain
<1>6. Working'
  BY <1>1, <1>2, <1>3, <1>4, <1>5 DEF Calm, Working, Arrived, Fresh
<1> QED
  BY <1>1, <1>4, <1>6 DEF Calm, OneChain, Begun, Asking, Waiting, Gone, Arrived, Fresh, InUpload, Ended

\* The end of the only chain.
LEMMA EndCalm ==
  ASSUME TypeOK, Calm, NEW c \in Chain, chain[c].phase = "put", EndChain(c)
  PROVE  c \in Busy /\ Busy' = {}
<1>1. c \in Busy /\ \A d \in Busy : d = c
  BY DEF Busy, Calm, OneChain
<1>2. chain'[c].phase = "idle" /\ \A d \in Chain \ {c} : chain'[d] = chain[d]
  BY Typed, EndStep
<1> QED
  BY <1>1, <1>2 DEF Busy

LEMMA PutPausedCalm ==
  ASSUME TypeOK, AllOld, Calm, NEW c \in Chain, PutPaused(c)
  PROVE  /\ Calm' /\ InUpload /\ InUpload' /\ ~Ended /\ ~Ended'
         /\ card'[Path_Name] = Stored(Part(file, ToSize))
         /\ UNCHANGED <<file, Path_Name, told, cancelledIn>>
<1>1. /\ chain[c].phase = "put" /\ Accepted(c) /\ EndChain(c)
      /\ UNCHANGED <<Path_Name, fromSize, ToSize, file, box, open, told, cancelledIn>>
  BY DEF PutPaused, Accepted, positions, dialog, history
<1>2. c \in Busy /\ Busy' = {}
  BY <1>1, EndCalm
<1>3. InUpload /\ ~Ended /\ Begun /\ Gone /\ told # "broken"
  BY <1>2 DEF Calm, OneChain
<1>4. chain[c].folder = Path_Name /\ ToSize \in 1..file.size
      /\ Write(card[Path_Name], chain[c]) = Stored(Part(file, ToSize))
  BY <1>1, Delivered
<1>5. card'[Path_Name] = Stored(Part(file, ToSize))
  BY <1>1, <1>4, AcceptedStep
<1>6. InUpload' /\ ~Ended' /\ Begun' /\ cancelledIn = {} /\ ToSize > 0 /\ box # "confirm"
  BY <1>1, <1>3, <1>4 DEF InUpload, Ended, Begun
<1>7. Arrived(ToSize)'
  BY <1>1, <1>4, <1>5 DEF Arrived
<1> QED
  BY <1>1, <1>2, <1>3, <1>5, <1>6, <1>7 DEF Calm, OneChain, Asking, Waiting, Working, Gone

LEMMA PutGoesOnCalm ==
  ASSUME TypeOK, AllOld, Calm, NEW c \in Chain, PutGoesOn(c)
  PROVE  /\ Calm' /\ InUpload /\ InUpload' /\ ~Ended /\ ~Ended'
         /\ card'[Path_Name] = Stored(Part(file, ToSize))
         /\ ToSize \in 1..file.size
         /\ UNCHANGED <<file, Path_Name, told, cancelledIn>>
<1>1. /\ chain[c].phase = "put" /\ Accepted(c) /\ WebDav_Upload(c, file, ToSize)
      /\ UNCHANGED <<Path_Name, file, box, open, told, cancelledIn>>
  BY DEF PutGoesOn, Accepted, dialog, history
<1>2. c \in Busy /\ \A d \in Busy : d = c
  BY <1>1, Delivered DEF Calm, OneChain
<1>3. InUpload /\ ~Ended /\ Begun /\ Gone /\ told # "broken"
  BY <1>2 DEF Calm, OneChain
<1>4. chain[c].folder = Path_Name /\ ToSize \in 1..file.size
      /\ Write(card[Path_Name], chain[c]) = Stored(Part(file, ToSize))
  BY <1>1, Delivered
<1>5. card'[Path_Name] = Stored(Part(file, ToSize))
  BY <1>1, <1>4, AcceptedStep
<1>6. InUpload' /\ ~Ended' /\ Begun' /\ cancelledIn = {} /\ box # "confirm"
  BY <1>1, <1>3 DEF InUpload, Ended, Begun
<1>7. Busy \subseteq {c}
  BY <1>2
<1>8. /\ Busy' = {c} /\ fromSize' = ToSize /\ ToSize' = Smaller(ToSize + 1, file.size)
      /\ total_file_size' = file.size
      /\ chain'[c].phase = "read" /\ chain'[c].upload = file.upload
      /\ chain'[c].data = IF ToSize < file.size THEN ToSize + 1 ELSE 0
  BY <1>1, <1>7, Relaunched
<1>9. Working'
  BY <1>1, <1>4, <1>5, <1>8 DEF Working, Arrived
<1> QED
  BY <1>1, <1>3, <1>4, <1>5, <1>6, <1>8, <1>9 DEF Calm, OneChain, Asking, Waiting, Gone

LEMMA PutCompletesCalm ==
  ASSUME TypeOK, AllOld, Calm, NEW c \in Chain, NEW o \in Listing, PutCompletes(c, o)
  PROVE  /\ Calm' /\ InUpload /\ ~Ended /\ told' = "whole" /\ UNCHANGED cancelledIn
         /\ fromSize >= file.size - 1
<1>1. /\ chain[c].phase = "put" /\ Accepted(c) /\ EndChain(c) /\ Complete
      /\ told' = IF card'[Path_Name] = Whole(file) THEN "whole" ELSE "broken"
      /\ UNCHANGED <<Path_Name, file, cancelledIn>>
      /\ box' \in {box, "other"}
  BY DEF PutCompletes, Accepted
<1>2. c \in Busy /\ Busy' = {}
  BY <1>1, EndCalm
<1>3. InUpload /\ ~Ended /\ Begun /\ Gone /\ told # "broken"
  BY <1>2 DEF Calm, OneChain
<1>4. /\ chain[c].folder = Path_Name /\ ToSize \in 1..file.size /\ total_file_size = file.size
      /\ fromSize \in 0..file.size /\ ToSize = Smaller(fromSize + 1, file.size)
      /\ Write(card[Path_Name], chain[c]) = Stored(Part(file, ToSize))
      /\ file.size \in Nat
  BY <1>1, Delivered, Typed, UploadAssumption, SharingAssumption DEF File
<1>5. ToSize = file.size /\ fromSize >= file.size - 1
  BY <1>1, <1>4 DEF Complete, Smaller
<1>6. card'[Path_Name] = Whole(file)
  BY <1>1, <1>4, <1>5, AcceptedStep DEF Whole
<1>7. told' = "whole" /\ cancelledIn' = {} /\ box' # "confirm" /\ Ended'
  BY <1>1, <1>3, <1>6 DEF Ended, InUpload
<1>8. Begun'
  BY <1>1, <1>3, <1>7 DEF Begun, InUpload
<1> QED
  BY <1>1, <1>2, <1>3, <1>5, <1>7, <1>8 DEF Calm, OneChain, Asking, Waiting, Working, Gone

LEMMA PutCancelledCalm ==
  ASSUME TypeOK, AllOld, Calm, NEW c \in Chain, NEW o \in Listing, PutCancelled(c, o),
         disturbed' = {}
  PROVE  Calm' /\ InUpload /\ ~Ended /\ told' = "nothing" /\ cancelledIn' # {}
<1> DEFINE written == [card EXCEPT ![chain[c].folder] = Write(@, chain[c])]
<1>1. /\ chain[c].phase = "put" /\ EndChain(c)
      /\ card' = [written EXCEPT ![Path_Name] = Absent]
      /\ cancelledIn' = {Path_Name} /\ UNCHANGED <<told, file>>
      /\ box' # "upload" /\ box' # "confirm"
  BY DEF PutCancelled, WebDav_DeleteSyncXML
<1>2. c \in Busy /\ Busy' = {}
  BY <1>1, EndCalm
<1>3. InUpload /\ ~Ended
  BY <1>2 DEF Calm, OneChain
<1>4. DOMAIN written = Folder /\ Path_Name \in Folder
  BY Typed
<1> HIDE DEF written
<1>5. ~card'[Path_Name].there
  BY <1>1, <1>4, AbsentTyped
<1>6. ~InUpload' /\ told' = "nothing" /\ Gone'
  BY <1>1, <1>3, <1>5 DEF InUpload, Ended, Gone
<1> QED
  BY <1>1, <1>2, <1>3, <1>6 DEF Calm, OneChain, Begun, Asking, Waiting, Working

\* What happens beside an upload.
LEMMA BesideCalm ==
  ASSUME TypeOK, Calm, disturbed' = {},
         \/ Pause \/ Cancel \/ CloseDlg \/ DeleteFile \/ Timer \/ ChooseRejected
         \/ (\E asked \in BOOLEAN : OtherDialog(asked)) \/ (\E f \in Folder : Browse(f))
         \/ UNCHANGED vars
  PROVE  /\ Calm' /\ UNCHANGED <<file, told, cancelledIn>>
         /\ \/ ~Ended /\ InUpload /\ InUpload' /\ UNCHANGED <<card, Path_Name>>
            \/ Ended \/ (~InUpload /\ ~InUpload')
<1>1. CASE Pause \/ Cancel
  BY <1>1 DEF Pause, Cancel, Calm, OneChain, Begun, Asking, Waiting, Working, Gone, Arrived, Fresh,
    InUpload, Ended, Busy, dialog, history, positions
<1>2. CASE UNCHANGED vars
  BY <1>2 DEF vars, Calm, OneChain, Begun, Asking, Waiting, Working, Gone, Arrived, Fresh,
    InUpload, Ended, Busy
<1>3. CASE CloseDlg
  <2>1. Busy' = Busy /\ Busy = {} /\ ~InUpload /\ ~InUpload' /\ open' = FALSE
    BY <1>3 DEF CloseDlg, Calm, OneChain, InUpload, Busy
  <2> QED
    BY <1>3, <2>1 DEF CloseDlg, Calm, OneChain, Begun, Asking, Waiting, Working, Gone, InUpload, history
<1>4. CASE DeleteFile
  <2>1. Busy' = Busy /\ Busy = {} /\ ~InUpload /\ ~InUpload' /\ open' = FALSE
    BY <1>4 DEF DeleteFile, Calm, OneChain, InUpload, Busy
  <2>2. UNCHANGED <<file, told, cancelledIn>>
    BY <1>4 DEF DeleteFile, history
  <2>3. Gone'
    <3>1. card' = [card EXCEPT ![Path_Name] = Absent] /\ card \in [Folder -> Held]
          /\ Path_Name \in Folder /\ cancelledIn \in SUBSET Folder
      BY <1>4, Typed DEF DeleteFile, WebDav_DeleteSyncXML
    <3>2. card'[Path_Name] = Absent /\ \A g \in Folder \ {Path_Name} : card'[g] = card[g]
      BY <3>1, AbsentTyped, CardStep
    <3> QED
      BY <2>2, <3>1, <3>2, AbsentTyped DEF Calm, Gone
  <2> QED
    BY <2>1, <2>2, <2>3 DEF Calm, OneChain, Begun, Asking, Waiting, Working, InUpload
<1>5. CASE Timer
  <2>1. Ended \/ ~InUpload
    BY <1>5 DEF Timer
  <2>2. Busy' = Busy /\ Busy = {} /\ ~InUpload' /\ open' = FALSE
    BY <1>5, <2>1 DEF Timer, Calm, OneChain, InUpload, Busy
  <2>3. UNCHANGED <<file, told, cancelledIn, card>>
    BY <1>5 DEF Timer
  <2> QED
    BY <2>1, <2>2, <2>3 DEF Calm, OneChain, Begun, Asking, Waiting, Working, Gone, InUpload
<1>6. CASE ChooseRejected
  <2>1. Busy' = Busy /\ Busy = {} /\ ~InUpload /\ ~InUpload' /\ box' = "other"
    BY <1>6 DEF ChooseRejected, Calm, OneChain, InUpload, Busy
  <2>2. UNCHANGED <<file, told, cancelledIn, card>>
    BY <1>6 DEF ChooseRejected
  <2> QED
    BY <2>1, <2>2 DEF Calm, OneChain, Begun, Asking, Waiting, Working, Gone, InUpload
<1>7. CASE \E asked \in BOOLEAN : OtherDialog(asked)
  <2>1. Busy' = Busy /\ Busy = {} /\ ~InUpload /\ ~InUpload' /\ box' # "confirm"
    BY <1>7 DEF OtherDialog, Calm, OneChain, InUpload, Busy
  <2>2. UNCHANGED <<file, told, cancelledIn, card>>
    BY <1>7 DEF OtherDialog, history
  <2> QED
    BY <2>1, <2>2 DEF Calm, OneChain, Begun, Asking, Waiting, Working, Gone, InUpload
<1>8. CASE \E f \in Folder : Browse(f)
  <2>1. Busy' = Busy /\ Busy = {} /\ ~InUpload /\ ~InUpload' /\ ~open'
    BY <1>8 DEF Browse, Calm, OneChain, InUpload, Busy, dialog
  <2>2. UNCHANGED <<file, told, cancelledIn, card>>
    BY <1>8 DEF Browse, history
  <2> QED
    BY <2>1, <2>2 DEF Calm, OneChain, Begun, Asking, Waiting, Working, Gone, InUpload
<1> QED
  BY <1>1, <1>2, <1>3, <1>4, <1>5, <1>6, <1>7, <1>8

\* Nothing but the choice of a file makes a disturbed upload an undisturbed one.
LEMMA StaysDisturbed ==
  ASSUME Next, disturbed # {}, disturbed' = {}
  PROVE  \E c \in Chain, size \in 1..Chunks, known \in BOOLEAN : Choose(size, known, c)
BY Steps DEF Confirm, Resume, CancelPaused, ReadDone, PutFails, PutPaused, PutGoesOn, PutCancelled,
  PutCompletes, ChooseRejected, Pause, Cancel, CloseDlg, DeleteFile, Timer, OtherDialog, Browse, history

LEMMA FailureDisturbs ==
  ASSUME NEW c \in Chain, PutFails(c)
  PROVE  disturbed' # {}
BY DEF PutFails

LEMMA InitIInv == Init => TypeOK /\ IInv
<1> SUFFICES ASSUME Init PROVE TypeOK /\ IInv
  OBVIOUS
<1>1. /\ page \in Pages /\ Path_Name = Root /\ Root \in Folder
      /\ fromSize = 0 /\ ToSize = 0 /\ total_file_size = 0
      /\ Pause_flag = FALSE /\ Cancel_flag = FALSE
      /\ file = [upload |-> 0, size |-> 0] /\ chain = [c \in Chain |-> Idle]
      /\ card = [f \in Folder |-> Absent] /\ box = "initial" /\ open = FALSE /\ timers = 0
      /\ told = "nothing" /\ cancelledIn = {} /\ disturbed = {}
      /\ 0 \in 0..Chunks /\ 0 \in 0..MaxTimers
  BY UploadAssumption, SharingAssumption DEF Init
<1>2. TypeOK
  <2>1. file \in File
    BY <1>1 DEF File
  <2> QED
    BY <1>1, <2>1, IdleTyped, AbsentTyped, Typed
<1>3. AllOld
  BY <1>1, IdleTyped, AbsentTyped DEF AllOld
<1>4. Busy = {} /\ ~InUpload
  BY <1>1, IdleTyped DEF Busy, InUpload
<1>5. Calm
  BY <1>1, <1>4 DEF Calm, OneChain, Begun, Asking, Waiting, Working, Gone
<1> QED
  BY <1>2, <1>3, <1>5 DEF IInv

LEMMA NextIInv ==
  ASSUME TypeOK, IInv, [Next]_vars
  PROVE  TypeOK' /\ IInv'
<1>1. TypeOK' /\ AllOld'
  BY TypesStep DEF IInv
<1>2. ASSUME disturbed' = {}
      PROVE  Calm'
  <2>0. AllOld
    BY DEF IInv
  <2>1. CASE \E c \in Chain, size \in 1..Chunks, known \in BOOLEAN : Choose(size, known, c)
    BY <1>2, <2>0, <2>1, ChooseCalm
  <2>2. CASE ~\E c \in Chain, size \in 1..Chunks, known \in BOOLEAN : Choose(size, known, c)
    <3>1. disturbed = {} /\ Calm
      <4>1. CASE Next
        BY <1>2, <2>2, <4>1, StaysDisturbed DEF IInv
      <4>2. CASE UNCHANGED vars
        BY <1>2, <4>2 DEF vars, IInv
      <4> QED
        BY <4>1, <4>2
    <3>2. ASSUME NEW c \in Chain, Confirm(c) \/ Resume(c) \/ CancelPaused(c)
          PROVE  Calm'
      BY <1>2, <3>1, <3>2, NextChunkCalm
    <3>3. ASSUME NEW c \in Chain, ReadDone(c)
          PROVE  Calm'
      BY <3>1, <3>3, ReadDoneCalm
    <3>4. ASSUME NEW c \in Chain, PutFails(c)
          PROVE  Calm'
      BY <1>2, <3>4, FailureDisturbs
    <3>5. ASSUME NEW c \in Chain, PutPaused(c)
          PROVE  Calm'
      BY <2>0, <3>1, <3>5, PutPausedCalm
    <3>6. ASSUME NEW c \in Chain, PutGoesOn(c)
          PROVE  Calm'
      BY <2>0, <3>1, <3>6, PutGoesOnCalm
    <3>7. ASSUME NEW c \in Chain, NEW o \in Listing, PutCancelled(c, o)
          PROVE  Calm'
      BY <1>2, <2>0, <3>1, <3>7, PutCancelledCalm
    <3>8. ASSUME NEW c \in Chain, NEW o \in Listing, PutCompletes(c, o)
          PROVE  Calm'
      BY <2>0, <3>1, <3>8, PutCompletesCalm
    <3>9. CASE \/ Pause \/ Cancel \/ CloseDlg \/ DeleteFile \/ Timer \/ ChooseRejected
              \/ (\E asked \in BOOLEAN : OtherDialog(asked)) \/ (\E f \in Folder : Browse(f))
              \/ UNCHANGED vars
      BY <1>2, <3>1, <3>9, BesideCalm
    <3> QED
      BY <2>2, <3>2, <3>3, <3>4, <3>5, <3>6, <3>7, <3>8, <3>9, Steps
  <2> QED
    BY <2>1, <2>2
<1> QED
  BY <1>1, <1>2 DEF IInv

LEMMA Invariance == Spec => [](TypeOK /\ IInv)
<1>1. Init => TypeOK /\ IInv
  BY InitIInv
<1>2. (TypeOK /\ IInv) /\ [Next]_vars => (TypeOK /\ IInv)'
  BY NextIInv
<1> QED
  BY <1>1, <1>2, PTL DEF Spec

-----------------------------------------------------------------------------
(* The refinement.                                                         *)

Sending == disturbed = {} /\ ~Ended /\ file.upload # 0

LEMMA Abstract ==
  /\ Sending => abstract = "sending"
  /\ disturbed # {} => abstract = "open" /\ arrived = 0
  /\ ~InUpload \/ Fresh \/ ~Sending => arrived = 0
  /\ Sending /\ InUpload /\ ~Fresh => arrived = Len(card[Path_Name].content)
BY DEF Sending, abstract, arrived, Ended

LEMMA AbstractNext ==
  /\ Sending' => abstract' = "sending"
  /\ disturbed' # {} => abstract' = "open" /\ arrived' = 0
  /\ ~InUpload' \/ Fresh' \/ ~Sending' => arrived' = 0
  /\ Sending' /\ InUpload' /\ ~Fresh' => arrived' = Len(card'[Path_Name'].content)
BY DEF Sending, abstract, arrived, Ended

\* What has arrived, in terms of the positions.
LEMMA Progress ==
  ASSUME NEW n \in Nat, file \in File, Sending, InUpload,
         IF n = 0 THEN Fresh ELSE card[Path_Name] = Stored(Part(file, n))
  PROVE  arrived = n
<1>1. CASE n = 0
  BY <1>1, Abstract
<1>2. CASE n # 0
  <2>1. card[Path_Name].content = Part(file, n)
    BY <1>2 DEF Stored
  <2>2. Len(Part(file, n)) = n /\ Part(file, n)[1] = <<file.upload, 1>>
    BY <1>2, PartLong
  <2>3. Len(card[Path_Name].content) = n /\ card[Path_Name].content[1] = <<file.upload, 1>>
    BY <2>1, <2>2
  <2> QED
    BY <1>2, <2>3, Abstract DEF Fresh
<1> QED
  BY <1>1, <1>2

LEMMA ProgressNext ==
  ASSUME NEW n \in Nat \ {0}, file' \in File, Sending', InUpload',
         card'[Path_Name'] = Stored(Part(file', n))
  PROVE  arrived' = n
<1>1. card'[Path_Name'].content = Part(file', n)
  BY DEF Stored
<1>2. Len(Part(file', n)) = n /\ Part(file', n)[1] = <<file'.upload, 1>>
  BY PartLong
<1>3. Len(card'[Path_Name'].content) = n /\ card'[Path_Name'].content[1] = <<file'.upload, 1>>
  BY <1>1, <1>2
<1> QED
  BY <1>3, AbstractNext DEF Fresh

LEMMA PutStep ==
  ASSUME TypeOK, AllOld, Calm, disturbed = {}, disturbed' = {}, NEW c \in Chain,
         PutPaused(c) \/ PutGoesOn(c)
  PROVE  [T!Next]_(T!vars)
<1>1. chain[c].phase = "put"
  BY DEF PutPaused, PutGoesOn, Accepted
<1>2. /\ InUpload /\ InUpload' /\ ~Ended /\ ~Ended'
      /\ card'[Path_Name] = Stored(Part(file, ToSize)) /\ UNCHANGED <<file, Path_Name>>
  BY PutPausedCalm, PutGoesOnCalm
<1>3. file.upload > 0 /\ file \in File /\ file.upload \in Nat /\ file.size \in Nat
  BY <1>2, Typed, UploadAssumption, SharingAssumption DEF Calm, Begun, File
<1>4. Sending /\ Sending'
  BY <1>2, <1>3 DEF Sending
<1>5. /\ ToSize \in 1..file.size /\ fromSize \in 0..file.size
      /\ ToSize = Smaller(fromSize + 1, file.size)
  BY <1>1, Delivered
<1>6. Arrived(fromSize)
  BY <1>1 DEF Calm, Working, Busy
<1>7. arrived = fromSize
  BY <1>2, <1>3, <1>4, <1>5, <1>6, Progress DEF Arrived
<1>8. arrived' = ToSize
  BY <1>2, <1>3, <1>4, <1>5, ProgressNext
<1>9. abstract = "sending" /\ abstract' = "sending"
  BY <1>4, Abstract, AbstractNext
<1>10. CASE fromSize = file.size
  BY <1>2, <1>3, <1>5, <1>7, <1>8, <1>9, <1>10 DEF T!vars, Smaller
<1>11. CASE fromSize < file.size
  <2>1. ToSize = fromSize + 1
    BY <1>3, <1>5, <1>11 DEF Smaller
  <2> QED
    BY <1>2, <1>3, <1>5, <1>7, <1>8, <1>9, <1>11, <2>1 DEF T!Next, T!Send
<1> QED
  BY <1>3, <1>5, <1>10, <1>11

LEMMA TransferStep ==
  ASSUME TypeOK, IInv, [Next]_vars
  PROVE  [T!Next]_(T!vars)
<1>0. AllOld /\ file \in File
  BY Typed DEF IInv
<1>1. CASE disturbed' # {}
  BY <1>1, AbstractNext DEF T!Next, T!Disturb, T!End
<1>2. CASE disturbed' = {} /\ \E c \in Chain, size \in 1..Chunks, known \in BOOLEAN : Choose(size, known, c)
  <2>1. PICK c \in Chain, size \in 1..Chunks, known \in BOOLEAN : Choose(size, known, c)
    BY <1>2
  <2>2. Fresh'
    BY <1>0, <1>2, <2>1, ChooseCalm
  <2>3. file'.size = size /\ file'.upload = file.upload + 1 /\ file.upload \in Nat
        /\ told' = "nothing" /\ cancelledIn' = {}
    BY <1>0, <2>1 DEF Choose, NewFile, File
  <2>4. Sending'
    BY <1>2, <2>3 DEF Sending, Ended
  <2> QED
    BY <2>2, <2>3, <2>4, AbstractNext DEF T!Next, T!Start
<1>3. CASE disturbed' = {} /\ ~\E c \in Chain, size \in 1..Chunks, known \in BOOLEAN : Choose(size, known, c)
  <2>1. disturbed = {} /\ Calm
    <3>1. CASE Next
      BY <1>3, <3>1, StaysDisturbed DEF IInv
    <3>2. CASE UNCHANGED vars
      BY <1>3, <3>2 DEF vars, IInv
    <3> QED
      BY <3>1, <3>2
  <2>2. ASSUME NEW c \in Chain, Confirm(c) \/ Resume(c) \/ CancelPaused(c)
        PROVE  [T!Next]_(T!vars)
    <3>1. /\ InUpload' /\ ~Ended /\ ~Ended'
          /\ InUpload \/ (Fresh /\ Fresh')
          /\ UNCHANGED <<file, card, Path_Name, told, cancelledIn>>
      BY <1>3, <2>1, <2>2, NextChunkCalm
    <3>2. arrived' = arrived
      BY <1>3, <2>1, <3>1, Abstract, AbstractNext DEF Sending, Fresh
    <3>3. abstract' = abstract
      BY <1>3, <2>1, <3>1 DEF abstract
    <3> QED
      BY <3>1, <3>2, <3>3 DEF T!vars
  <2>3. ASSUME NEW c \in Chain, ReadDone(c)
        PROVE  [T!Next]_(T!vars)
    BY <2>3 DEF ReadDone, dialog, history, T!vars, abstract, arrived, Fresh, InUpload
  <2>4. ASSUME NEW c \in Chain, PutFails(c)
        PROVE  [T!Next]_(T!vars)
    BY <1>3, <2>4, FailureDisturbs
  <2>5. ASSUME NEW c \in Chain, PutPaused(c) \/ PutGoesOn(c)
        PROVE  [T!Next]_(T!vars)
    BY <1>0, <1>3, <2>1, <2>5, PutStep
  <2>6. ASSUME NEW c \in Chain, NEW o \in Listing, PutCompletes(c, o)
        PROVE  [T!Next]_(T!vars)
    <3>1. /\ chain[c].phase = "put" /\ InUpload /\ ~Ended /\ told' = "whole"
          /\ fromSize >= file.size - 1
      BY <1>0, <2>1, <2>6, PutCompletesCalm DEF PutCompletes, Accepted
    <3>2. Sending
      BY <1>0, <2>1, <3>1 DEF Sending, Calm, Begun, File
    <3>3. fromSize \in Nat /\ Arrived(fromSize)
      BY <2>1, <3>1, Typed, UploadAssumption, SharingAssumption DEF Calm, Working, Busy
    <3>4. arrived = fromSize
      BY <1>0, <3>1, <3>2, <3>3, Progress DEF Arrived
    <3>5. abstract = "sending" /\ abstract' = "done" /\ arrived' = 0
      BY <1>3, <3>1, <3>2, Abstract DEF abstract, arrived
    <3> QED
      BY <3>1, <3>4, <3>5 DEF T!Next, T!Finish, T!End
  <2>7. ASSUME NEW c \in Chain, NEW o \in Listing, PutCancelled(c, o)
        PROVE  [T!Next]_(T!vars)
    <3>1. InUpload /\ ~Ended /\ told' = "nothing" /\ cancelledIn' # {}
      BY <1>0, <1>3, <2>1, <2>7, PutCancelledCalm
    <3>2. Sending
      BY <1>0, <2>1, <3>1 DEF Sending, Calm, Begun, File
    <3>3. abstract = "sending" /\ abstract' = "gone" /\ arrived' = 0
      BY <1>3, <3>1, <3>2, Abstract DEF abstract, arrived
    <3> QED
      BY <3>3 DEF T!Next, T!Cancel, T!End
  <2>8. CASE \/ Pause \/ Cancel \/ CloseDlg \/ DeleteFile \/ Timer \/ ChooseRejected
            \/ (\E asked \in BOOLEAN : OtherDialog(asked)) \/ (\E f \in Folder : Browse(f))
            \/ UNCHANGED vars
    <3>1. /\ UNCHANGED <<file, told, cancelledIn>>
          /\ \/ ~Ended /\ InUpload /\ InUpload' /\ UNCHANGED <<card, Path_Name>>
             \/ Ended \/ (~InUpload /\ ~InUpload')
      BY <1>3, <2>1, <2>8, BesideCalm
    <3>2. abstract' = abstract /\ (Ended' <=> Ended)
      BY <1>3, <2>1, <3>1 DEF abstract, Ended
    <3>3. arrived' = arrived
      BY <1>3, <2>1, <3>1, <3>2, Abstract, AbstractNext DEF Sending, Fresh
    <3> QED
      BY <3>1, <3>2, <3>3 DEF T!vars
  <2> QED
    BY <1>3, <2>2, <2>3, <2>4, <2>5, <2>6, <2>7, <2>8, Steps
<1> QED
  BY <1>1, <1>2, <1>3

LEMMA TransferInit == Init => T!Init
BY IdleTyped, AbsentTyped, UploadAssumption, SharingAssumption DEF Init, T!Init, abstract, arrived, Fresh

-----------------------------------------------------------------------------
(* The theorems.                                                           *)

\* Every variable has its type.
THEOREM TypeCorrect == Spec => []TypeOK
BY Invariance, PTL

\* When the page says "100%" of an undisturbed upload, the card holds the whole file
\* (WebDav_Upload, WebDav_Upload_Ondoing and the pause, webdavobj.js 1554-1764).
THEOREM UploadsAreWhole == Spec => []UploadIsWhole
<1>1. TypeOK /\ IInv => UploadIsWhole
  BY DEF IInv, Calm, UploadIsWhole
<1> QED
  BY <1>1, Invariance, PTL

\* A cancelled upload that nothing disturbs leaves no file (lines 1567-1672).
THEOREM CancelsLeaveNothing == Spec => []CancelLeavesNothing
<1>1. TypeOK /\ IInv => CancelLeavesNothing
  BY DEF IInv, Calm, Gone, CancelLeavesNothing
<1> QED
  BY <1>1, Invariance, PTL

\* An undisturbed upload is a transfer: chunk by chunk, to the end or to nothing.
THEOREM UploadIsTransfer == Spec => TransferSpec
<1>1. Init => T!Init
  BY TransferInit
<1>2. (TypeOK /\ IInv) /\ [Next]_vars => [T!Next]_(T!vars)
  BY TransferStep
<1> QED
  BY <1>1, <1>2, Invariance, PTL DEF Spec, TransferSpec, T!Spec

-----------------------------------------------------------------------------
(* Sorting.                                                                *)

\* The members of a finite set, arranged by an order that is strict and total on it,
\* are all there, each at one place, and stand in that order.
LEMMA ArrangedInOrder ==
  ASSUME NEW S, IsFiniteSet(S), NEW before,
         \A x \in S : <<x, x>> \notin before,
         \A x, y, z \in S : <<x, y>> \in before /\ <<y, z>> \in before => <<x, z>> \in before,
         \A x, y \in S : x = y \/ <<x, y>> \in before \/ <<y, x>> \in before
  PROVE  /\ Arranged(S, before) \in Bijection(1..Cardinality(S), S)
         /\ \A i, j \in 1..Cardinality(S) :
              i < j => <<Arranged(S, before)[i], Arranged(S, before)[j]>> \in before
<1> DEFINE at(x) == Ahead(S, before, x)
           n == Cardinality(S)
           A == Arranged(S, before)
<1>1. n \in Nat
  BY FS_CardinalityType
<1>2. \A x \in S : at(x) \in Nat /\ at(x) < n
  <2> TAKE x \in S
  <2> DEFINE B == {y \in S : <<y, x>> \in before}
  <2>1. B \in SUBSET S /\ B # S
    OBVIOUS
  <2>2. IsFiniteSet(B) /\ Cardinality(B) <= n /\ Cardinality(B) # n
    BY <2>1, FS_Subset
  <2>3. Cardinality(B) \in Nat
    BY <2>2, FS_CardinalityType
  <2>4. at(x) = Cardinality(B)
    BY DEF Ahead
  <2> QED
    BY <1>1, <2>2, <2>3, <2>4
<1>3. \A x, y \in S : <<x, y>> \in before => at(x) < at(y)
  <2> SUFFICES ASSUME NEW x \in S, NEW y \in S, <<x, y>> \in before
               PROVE  at(x) < at(y)
    OBVIOUS
  <2> DEFINE B == {z \in S : <<z, x>> \in before}
             C == {z \in S : <<z, y>> \in before}
  <2>1. B \in SUBSET C /\ B # C /\ C \in SUBSET S
    OBVIOUS
  <2>2. Cardinality(B) <= Cardinality(C) /\ Cardinality(B) # Cardinality(C)
    BY <2>1, FS_Subset
  <2>3. at(x) = Cardinality(B) /\ at(y) = Cardinality(C)
    BY DEF Ahead
  <2> QED
    BY <1>2, <2>2, <2>3
<1> HIDE DEF at, n
<1>4. \A x, y \in S : at(x) = at(y) => x = y
  <2> SUFFICES ASSUME NEW x \in S, NEW y \in S, at(x) = at(y), x # y
               PROVE  FALSE
    OBVIOUS
  <2>1. at(x) < at(y) \/ at(y) < at(x)
    BY <1>3
  <2> QED
    BY <1>2, <2>1
<1>5. \A k \in 1..n : \E x \in S : at(x) = k - 1
  <2> DEFINE f == [x \in S |-> at(x) + 1]
  <2>1. f \in Injection(S, 1..n)
    <3>1. f \in [S -> 1..n]
      BY <1>1, <1>2
    <3>2. \A x, y \in S : f[x] = f[y] => x = y
      BY <1>2, <1>4
    <3> QED
      BY <3>1, <3>2 DEF Injection, IsInjective
  <2>2. IsFiniteSet(1..n) /\ Cardinality(1..n) = n
    BY <1>1, FS_Interval
  <2>3. f \in Surjection(S, 1..n)
    BY <2>1, <2>2, FS_Injection DEF n
  <2>4. \A k \in 1..n : \E x \in S : f[x] = k
    BY <2>3 DEF Surjection
  <2> QED
    BY <1>1, <1>2, <2>4
<1>6. \A k \in 1..n : A[k] \in S /\ at(A[k]) = k - 1
  <2> TAKE k \in 1..n
  <2>1. A[k] = CHOOSE x \in S : at(x) = k - 1
    BY DEF Arranged, at, n
  <2> QED
    BY <1>5, <2>1
<1>7. A \in [1..n -> S]
  BY <1>6 DEF Arranged, n
<1> HIDE DEF A
<1>8. \A i, j \in 1..n : i < j => <<A[i], A[j]>> \in before
  <2> SUFFICES ASSUME NEW i \in 1..n, NEW j \in 1..n, i < j
               PROVE  <<A[i], A[j]>> \in before
    OBVIOUS
  <2>1. A[i] \in S /\ A[j] \in S /\ at(A[i]) < at(A[j])
    BY <1>1, <1>6
  <2>2. A[i] # A[j] /\ ~(at(A[j]) < at(A[i]))
    BY <1>2, <2>1
  <2> QED
    BY <1>3, <2>1, <2>2
<1>9. \A i, j \in 1..n : A[i] = A[j] => i = j
  BY <1>1, <1>6
<1>10. \A x \in S : \E k \in 1..n : A[k] = x
  <2> TAKE x \in S
  <2>1. at(x) + 1 \in 1..n
    BY <1>1, <1>2
  <2>2. A[at(x) + 1] \in S /\ at(A[at(x) + 1]) = at(x)
    BY <1>2, <1>6, <2>1
  <2> QED
    BY <1>4, <2>1, <2>2
<1>11. A \in Bijection(1..n, S)
  BY <1>7, <1>9, <1>10 DEF Bijection, Injection, Surjection, IsInjective
<1> QED
  BY <1>8, <1>11 DEF A, n

\* An order with levels: neither of two names on a level comes before the other.
WeakOrder(comes) ==
  \A a, b, c \in Name :
    <<a, b>> \in comes => <<b, a>> \notin comes /\ (<<a, c>> \in comes \/ <<c, b>> \in comes)

LEMMA ByKeyWeak ==
  ASSUME NEW key \in [Name -> Int], NEW down \in BOOLEAN
  PROVE  WeakOrder(ByKey(key, down))
<1> SUFFICES ASSUME NEW a \in Name, NEW b \in Name, NEW c \in Name,
                    Precedes(down, key[a], key[b])
             PROVE  /\ ~Precedes(down, key[b], key[a])
                    /\ Precedes(down, key[a], key[c]) \/ Precedes(down, key[c], key[b])
  BY DEF WeakOrder, ByKey
<1>1. key[a] \in Int /\ key[b] \in Int /\ key[c] \in Int
  OBVIOUS
<1> QED
  BY <1>1 DEF Precedes

LEMMA BySizeWeak ==
  ASSUME NEW down \in BOOLEAN
  PROVE  WeakOrder(BySize(down))
<1> DEFINE Comes(a, b) ==
      \/ a \notin Dirs /\ b \notin Dirs /\ Precedes(down, Size[a], Size[b])
      \/ down /\ a \in Dirs /\ b \notin Dirs
      \/ ~down /\ a \notin Dirs /\ b \in Dirs
<1>1. \A a, b \in Name : <<a, b>> \in BySize(down) <=> Comes(a, b)
  BY DEF BySize
<1>2. \A a \in Name : Size[a] \in Int
  BY FilesAssumption
<1>3. \A a, b, c \in Name : Comes(a, b) => ~Comes(b, a) /\ (Comes(a, c) \/ Comes(c, b))
  BY <1>2 DEF Precedes
<1> QED
  BY <1>1, <1>3 DEF WeakOrder

LEMMA SoonerStrict ==
  ASSUME NEW n \in Nat, NEW files \in [1..n -> Name], NEW comes, WeakOrder(comes)
  PROVE  /\ \A x \in 1..n : <<x, x>> \notin Sooner(files, comes)
         /\ \A x, y, z \in 1..n :
              <<x, y>> \in Sooner(files, comes) /\ <<y, z>> \in Sooner(files, comes)
                => <<x, z>> \in Sooner(files, comes)
         /\ \A x, y \in 1..n :
              x = y \/ <<x, y>> \in Sooner(files, comes) \/ <<y, x>> \in Sooner(files, comes)
         /\ \A x, y \in 1..n :
              <<x, y>> \in Sooner(files, comes) => <<files[y], files[x]>> \notin comes
<1> DEFINE B(x, y) == <<files[x], files[y]>> \in comes
           Soon(x, y) == B(x, y) \/ (x < y /\ ~B(y, x))
<1>1. \A x, y \in 1..n : <<x, y>> \in Sooner(files, comes) <=> Soon(x, y)
  BY DEF Sooner
<1>2. \A x, y, z \in 1..n : B(x, y) => ~B(y, x) /\ (B(x, z) \/ B(z, y))
  BY DEF WeakOrder
<1> HIDE DEF B
<1>3. /\ \A x \in 1..n : ~Soon(x, x)
      /\ \A x, y, z \in 1..n : Soon(x, y) /\ Soon(y, z) => Soon(x, z)
      /\ \A x, y \in 1..n : x = y \/ Soon(x, y) \/ Soon(y, x)
      /\ \A x, y \in 1..n : Soon(x, y) => ~B(y, x)
  BY <1>2
<1> QED
  BY <1>1, <1>3 DEF B

\* No row comes before one that stands above it.
InSteps(files, comes) ==
  \A i, j \in DOMAIN files : i < j => <<files[j], files[i]>> \notin comes

LEMMA InOrderPlaces ==
  ASSUME NEW n \in Nat, NEW files \in [1..n -> Name], NEW comes, WeakOrder(comes)
  PROVE  /\ InSteps(InOrder(files, comes), comes)
         /\ \E p \in Bijection(1..n, 1..n) : InOrder(files, comes) = [k \in 1..n |-> files[p[k]]]
<1> DEFINE p == Arranged(1..n, Sooner(files, comes))
<1>1. IsFiniteSet(1..n) /\ Cardinality(1..n) = n
  BY FS_Interval
<1>2. /\ p \in Bijection(1..n, 1..n)
      /\ \A i, j \in 1..n : i < j => <<p[i], p[j]>> \in Sooner(files, comes)
  BY <1>1, SoonerStrict, ArrangedInOrder
<1> HIDE DEF p
<1>3. p \in [1..n -> 1..n]
  BY <1>2 DEF Bijection, Injection
<1>4. InOrder(files, comes) = [k \in 1..n |-> files[p[k]]]
  BY <1>3 DEF InOrder, p
<1>5. \A i, j \in 1..n : i < j => <<files[p[j]], files[p[i]]>> \notin comes
  BY <1>2, <1>3, SoonerStrict
<1> QED
  BY <1>2, <1>3, <1>4, <1>5 DEF InSteps

\* The pairs of places of files that are level.
Level(files, comes) ==
  {p \in (DOMAIN files) \X (DOMAIN files) :
     {<<files[p[1]], files[p[2]]>>, <<files[p[2]], files[p[1]]>>} \cap comes = {}}

LEMMA EachInOrderPlaces ==
  ASSUME NEW n \in Nat, NEW files \in [1..n -> Name], NEW comes, WeakOrder(comes)
  PROVE  /\ InSteps(EachInOrder(files, comes), comes)
         /\ \E m \in Nat : \E p \in Bijection(1..m, Level(files, comes)) :
              EachInOrder(files, comes) = [k \in 1..m |-> files[p[k][2]]]
<1> DEFINE L == Level(files, comes)
           B == {r \in L \X L : \/ <<r[1][1], r[2][1]>> \in Sooner(files, comes)
                                \/ r[1][1] = r[2][1] /\ r[1][2] < r[2][2]}
           m == Cardinality(L)
           p == Arranged(L, B)
           Soon(x, y) == <<x, y>> \in Sooner(files, comes)
           Less(r, s) == Soon(r[1], s[1]) \/ (r[1] = s[1] /\ r[2] < s[2])
<1>1. IsFiniteSet(L) /\ m \in Nat
  <2>1. IsFiniteSet(1..n)
    BY FS_Interval
  <2>2. IsFiniteSet((1..n) \X (1..n))
    BY <2>1, FS_Product
  <2>3. L \in SUBSET ((1..n) \X (1..n))
    BY DEF Level
  <2> QED
    BY <2>2, <2>3, FS_Subset, FS_CardinalityType
<1>2. \A r \in L : r = <<r[1], r[2]>> /\ r[1] \in 1..n /\ r[2] \in 1..n
  BY DEF Level
<1>3. /\ \A x \in 1..n : ~Soon(x, x)
      /\ \A x, y, z \in 1..n : Soon(x, y) /\ Soon(y, z) => Soon(x, z)
      /\ \A x, y \in 1..n : x = y \/ Soon(x, y) \/ Soon(y, x)
      /\ \A x, y \in 1..n : Soon(x, y) => <<files[y], files[x]>> \notin comes
  BY SoonerStrict
<1>4. \A r, s \in L : <<r, s>> \in B <=> Less(r, s)
  OBVIOUS
<1>5. /\ \A r \in L : ~Less(r, r)
      /\ \A r, s, t \in L : Less(r, s) /\ Less(s, t) => Less(r, t)
      /\ \A r, s \in L : r = s \/ Less(r, s) \/ Less(s, r)
  <2> HIDE DEF L, Soon
  <2> QED
    BY <1>2, <1>3
<1>6. /\ p \in Bijection(1..m, L)
      /\ \A i, j \in 1..m : i < j => <<p[i], p[j]>> \in B
  <2> HIDE DEF L, B, Less
  <2>1. /\ \A r \in L : <<r, r>> \notin B
        /\ \A r, s, t \in L : <<r, s>> \in B /\ <<s, t>> \in B => <<r, t>> \in B
        /\ \A r, s \in L : r = s \/ <<r, s>> \in B \/ <<s, r>> \in B
    BY <1>4, <1>5
  <2> QED
    BY <1>1, <2>1, ArrangedInOrder
<1>7. p \in [1..m -> L]
  BY <1>6 DEF Bijection, Injection
<1>8. EachInOrder(files, comes) = [k \in 1..m |-> files[p[k][2]]]
  <2>1. EachInOrder(files, comes) = [k \in DOMAIN p |-> files[p[k][2]]]
    BY DEF EachInOrder, Level
  <2> QED
    BY <1>7, <2>1
<1>9. \A r, s \in L : Less(r, s) => <<files[s[2]], files[r[2]]>> \notin comes
  <2> SUFFICES ASSUME NEW r \in L, NEW s \in L, Less(r, s)
               PROVE  <<files[s[2]], files[r[2]]>> \notin comes
    OBVIOUS
  <2> DEFINE a == files[r[1]]
             b == files[r[2]]
             c == files[s[1]]
             d == files[s[2]]
  <2>1. a \in Name /\ b \in Name /\ c \in Name /\ d \in Name
    BY <1>2
  <2>2. <<a, b>> \notin comes /\ <<b, a>> \notin comes /\ <<c, d>> \notin comes /\ <<d, c>> \notin comes
    BY DEF Level
  <2>3. <<c, a>> \notin comes
    <3>1. <<a, a>> \notin comes
      BY <2>1 DEF WeakOrder
    <3> QED
      BY <1>2, <1>3, <3>1
  <2> HIDE DEF a, b, c, d
  <2>4. <<d, b>> \notin comes
    BY <2>1, <2>2, <2>3 DEF WeakOrder
  <2> QED
    BY <2>4 DEF b, d
<1>10. InSteps(EachInOrder(files, comes), comes)
  <2> HIDE DEF p, m, L, B
  <2>1. \A i, j \in 1..m : i < j => <<files[p[j][2]], files[p[i][2]]>> \notin comes
    BY <1>4, <1>6, <1>7, <1>9
  <2> QED
    BY <1>8, <2>1 DEF InSteps
<1> QED
  BY <1>1, <1>6, <1>8, <1>10

\* A list of files, each once.
IsListing(files) == \E n \in Nat : files \in [1..n -> Name] /\ IsInjective(files)

\* How often a file is shown.
Times(files, a) == Cardinality({i \in DOMAIN files : files[i] = a})

LEMMA OnceOnly ==
  ASSUME NEW n \in Nat, NEW files \in [1..n -> Name], IsInjective(files)
  PROVE  \A a \in Range(files) : Times(files, a) = 1
<1> TAKE a \in Range(files)
<1>1. PICK i \in 1..n : files[i] = a
  BY DEF Range
<1>2. {k \in DOMAIN files : files[k] = a} = {i}
  BY <1>1 DEF IsInjective
<1> QED
  BY <1>2, FS_Singleton DEF Times

LEMMA InOrderKeeps ==
  ASSUME NEW files, IsListing(files), NEW comes, WeakOrder(comes)
  PROVE  /\ IsListing(InOrder(files, comes))
         /\ Range(InOrder(files, comes)) = Range(files)
<1> DEFINE r == InOrder(files, comes)
<1>1. PICK n \in Nat : files \in [1..n -> Name] /\ IsInjective(files)
  BY DEF IsListing
<1>2. PICK p \in Bijection(1..n, 1..n) : r = [k \in 1..n |-> files[p[k]]]
  BY <1>1, InOrderPlaces
<1> HIDE DEF r
<1>3. /\ p \in [1..n -> 1..n]
      /\ \A i, j \in 1..n : p[i] = p[j] => i = j
      /\ \A k \in 1..n : \E i \in 1..n : p[i] = k
  BY DEF Bijection, Injection, Surjection, IsInjective
<1>4. DOMAIN r = 1..n /\ DOMAIN files = 1..n /\ \A k \in 1..n : r[k] = files[p[k]]
  BY <1>1, <1>2
<1>5. r \in [1..n -> Name]
  BY <1>1, <1>2, <1>3
<1>6. IsInjective(r)
  <2> SUFFICES ASSUME NEW i \in 1..n, NEW j \in 1..n, r[i] = r[j]
               PROVE  i = j
    BY <1>4 DEF IsInjective
  <2>1. p[i] = p[j]
    BY <1>1, <1>3, <1>4 DEF IsInjective
  <2> QED
    BY <1>3, <2>1
<1>7. \A a \in Range(r) : a \in Range(files)
  BY <1>3, <1>4 DEF Range
<1>8. ASSUME NEW a \in Range(files) PROVE a \in Range(r)
  <2>1. PICK k \in 1..n : files[k] = a
    BY <1>4, <1>8 DEF Range
  <2>2. PICK i \in 1..n : p[i] = k
    BY <1>3
  <2>3. i \in DOMAIN r /\ r[i] = a
    BY <1>4, <2>1, <2>2
  <2> QED
    BY <2>3 DEF Range
<1> QED
  BY <1>5, <1>6, <1>7, <1>8 DEF r, IsListing

LEMMA EachInOrderKeeps ==
  ASSUME NEW files, IsListing(files), NEW comes, WeakOrder(comes)
  PROVE  /\ \E m \in Nat : EachInOrder(files, comes) \in [1..m -> Name]
         /\ Range(EachInOrder(files, comes)) = Range(files)
         /\ \A a \in Range(files) :
              Times(EachInOrder(files, comes), a) =
                Cardinality({b \in Range(files) : {<<a, b>>, <<b, a>>} \cap comes = {}})
<1> DEFINE r == EachInOrder(files, comes)
           L == Level(files, comes)
<1>1. PICK n \in Nat : files \in [1..n -> Name] /\ IsInjective(files)
  BY DEF IsListing
<1>2. PICK m \in Nat : \E p \in Bijection(1..m, L) : r = [k \in 1..m |-> files[p[k][2]]]
  <2> HIDE DEF r, L
  <2>1. /\ InSteps(r, comes)
        /\ \E m \in Nat : \E p \in Bijection(1..m, L) : r = [k \in 1..m |-> files[p[k][2]]]
    BY <1>1, EachInOrderPlaces DEF r, L
  <2> QED
    BY <2>1
<1>3. PICK p \in Bijection(1..m, L) : r = [k \in 1..m |-> files[p[k][2]]]
  BY <1>2
<1>4. \A l \in L : l = <<l[1], l[2]>> /\ l[1] \in 1..n /\ l[2] \in 1..n
  BY <1>1 DEF Level
<1>5. \A i, j \in 1..n :
        <<i, j>> \in L <=> {<<files[i], files[j]>>, <<files[j], files[i]>>} \cap comes = {}
  BY <1>1 DEF Level
<1> HIDE DEF r, L
<1>6. /\ p \in [1..m -> L]
      /\ \A i, j \in 1..m : p[i] = p[j] => i = j
      /\ \A l \in L : \E i \in 1..m : p[i] = l
  BY DEF Bijection, Injection, Surjection, IsInjective
<1>7. r \in [1..m -> Name]
  BY <1>1, <1>3, <1>4, <1>6
<1>8. \A k \in 1..n : <<k, k>> \in L
  <2> TAKE k \in 1..n
  <2>1. <<files[k], files[k]>> \notin comes
    BY <1>1 DEF WeakOrder
  <2> QED
    BY <1>5, <2>1
<1>9. Range(r) = Range(files)
  <2>1. \A a \in Range(r) : a \in Range(files)
    BY <1>1, <1>3, <1>4, <1>6 DEF Range
  <2>2. ASSUME NEW a \in Range(files) PROVE a \in Range(r)
    <3>1. PICK k \in 1..n : files[k] = a
      BY <1>1, <2>2 DEF Range
    <3>2. PICK i \in 1..m : p[i] = <<k, k>>
      BY <1>6, <1>8
    <3>3. r[i] = a /\ i \in DOMAIN r
      BY <1>3, <3>1, <3>2
    <3> QED
      BY <3>3 DEF Range
  <2> QED
    BY <2>1, <2>2
<1>10. ASSUME NEW a \in Range(files)
      PROVE  Times(r, a) = Cardinality({b \in Range(files) : {<<a, b>>, <<b, a>>} \cap comes = {}})
  <2> DEFINE I == {i \in 1..m : r[i] = a}
             U == {b \in Range(files) : {<<a, b>>, <<b, a>>} \cap comes = {}}
             f == [i \in I |-> files[p[i][1]]]
  <2>1. PICK k \in 1..n : files[k] = a
    BY <1>1, <1>10 DEF Range
  <2>2. \A i \in I : p[i] \in L /\ p[i][1] \in 1..n /\ p[i] = <<p[i][1], k>>
    BY <1>1, <1>3, <1>4, <1>6, <2>1 DEF IsInjective
  <2>3. \A i \in I : f[i] \in U
    <3> TAKE i \in I
    <3>1. files[p[i][1]] \in Range(files)
      BY <1>1, <2>2 DEF Range
    <3> QED
      BY <1>5, <2>1, <2>2, <3>1
  <2>4. \A i, j \in I : f[i] = f[j] => i = j
    <3> SUFFICES ASSUME NEW i \in I, NEW j \in I, f[i] = f[j]
                 PROVE  i = j
      OBVIOUS
    <3>1. p[i][1] = p[j][1]
      BY <1>1, <2>2 DEF IsInjective
    <3>2. p[i] = p[j]
      BY <2>2, <3>1
    <3> QED
      BY <1>6, <3>2
  <2>5. ASSUME NEW b \in U PROVE \E i \in I : f[i] = b
    <3>1. PICK j \in 1..n : files[j] = b
      BY <1>1, <2>5 DEF Range
    <3>2. <<j, k>> \in L
      BY <1>5, <2>1, <2>5, <3>1
    <3>3. PICK i \in 1..m : p[i] = <<j, k>>
      BY <1>6, <3>2
    <3>4. r[i] = a
      BY <1>3, <2>1, <3>3
    <3> QED
      BY <3>1, <3>3, <3>4
  <2>6. f \in Bijection(I, U)
    BY <2>3, <2>4, <2>5 DEF Bijection, Injection, Surjection, IsInjective
  <2>7. IsFiniteSet(I)
    BY FS_Interval, FS_Subset
  <2>8. Cardinality(U) = Cardinality(I)
    BY <2>6, <2>7, FS_Bijection DEF ExistsBijection
  <2> QED
    BY <1>7, <2>8 DEF Times
<1> QED
  BY <1>7, <1>9, <1>10 DEF r

LEMMA EntriesListing ==
  ASSUME NEW names \in SUBSET Name, IsFiniteSet(names)
  PROVE  IsListing(Entries(names)) /\ Range(Entries(names)) \subseteq names
<1> DEFINE n == Cardinality(names)
<1>1. n \in Nat /\ ExistsBijection(1..n, names)
  BY FS_CardinalityType
<1>2. \E s \in [1..n -> names] : IsInjective(s)
  BY <1>1 DEF ExistsBijection, Bijection, Injection
<1>3. Entries(names) \in [1..n -> names] /\ IsInjective(Entries(names))
  BY <1>2 DEF Entries
<1> HIDE DEF n
<1> QED
  BY <1>1, <1>3 DEF IsListing, Range

-----------------------------------------------------------------------------
(* The inductive invariant.                                                *)

CardInv ==
  /\ page \in Pages /\ disk \in [Folder -> SUBSET Name]
  /\ \A f \in Folder : IsFiniteSet(disk[f])

PathInv == Path_Name \in Folder /\ of = Path_Name

ListInv ==
  /\ IsListing(list) /\ \E m \in Nat : rows \in [1..m -> Name]
  /\ order \in {"listed", "name", "size", "sizeUp", "date"}
  /\ flags \subseteq {"name", "size", "date"}
  /\ SortKeepsFiles

\* The ticks are of the rows shown and what the user has meant, and the buttons are
\* those of the ticks, or of ticks that a sorting has taken away.
TickInv ==
  /\ ticks \subseteq DOMAIN rows /\ meant = Ticked
  /\ shown \subseteq {"add", "share", "delete"} /\ resorted \in BOOLEAN /\ unlisted \in BOOLEAN
  /\ "add" \in shown => ticks = {}
  /\ ticks # {} /\ ~unlisted => "delete" \in shown
  /\ resorted => ticks = {}
  /\ "share" \in shown /\ ~resorted => \E i \in DOMAIN rows : ticks = {i}

DlgInv ==
  /\ dlg \in Boxes /\ share \in Range(Decoded) \cup {""}
  /\ dlg = "share" => (IF resorted THEN share = "" ELSE meant = {share})
  /\ dlg = "login" => unlisted

FilesInv == CardInv /\ PathInv /\ ListInv /\ TickInv /\ DlgInv /\ head \in BOOLEAN

-----------------------------------------------------------------------------
(* What a step does to the page.                                           *)

ListingStep ==
  \E o \in Outcome, fresh \in BOOLEAN : \E f :
    /\ PROPFIND(f, o, fresh) /\ UNCHANGED <<page, flags>>
    /\ dlg' \in {"login", "alert", "none", "mkdir"} /\ share' = ""
    /\ dlg' = "login" => o = "asks"

StopStep ==
  /\ NotListed(TRUE, {}) /\ UNCHANGED <<page, disk, flags>>
  /\ dlg' \in {"alert", "login", "exit"} /\ share' = ""

TickStep ==
  \E ticked \in SUBSET DOMAIN rows : \E buttons \in SUBSET {"add", "share", "delete"} :
    /\ Ready /\ TickInto(ticked, buttons)
    /\ "add" \in buttons => ticked = {}
    /\ ticked # {} => "delete" \in buttons
    /\ "share" \in buttons => Cardinality(ticked) = 1

SortStep ==
  \/ SortBy("name", NameOrder(list, "name" \notin flags), "name")
  \/ "size" \notin flags /\ SortBy("size", SizeDown(list), "size")
  \/ "size" \in flags /\ SortBy("size", SizeUp(list), "sizeUp")
  \/ SortBy("date", DateOrder(list, "date" \notin flags), "date")

BoxStep ==
  /\ UNCHANGED <<page, place, table, flags>>
  /\ shown' = shown \/ (dlg = "login" /\ shown' = {})
  /\ \/ Share
     \/ dlg' \in Boxes \ {"share", "login"} /\ share' \in {share, ""}
     \/ UNCHANGED <<dlg, share>>

PageStep == ListingStep \/ StopStep \/ TickStep \/ SortStep \/ BoxStep

LEMMA ButtonsOfTicks ==
  ASSUME NEW ticked, NEW buttons \in {Buttons(ticked), {"add"}}, buttons = {"add"} => ticked = {}
  PROVE  /\ buttons \subseteq {"add", "share", "delete"}
         /\ "add" \in buttons => ticked = {}
         /\ ticked # {} => "delete" \in buttons
         /\ "share" \in buttons => Cardinality(ticked) = 1
BY DEF Buttons, AddsAt

LEMMA DialogBoxes ==
  \A f, o : /\ Dialog(f, o) \in {"login", "alert", "none", "mkdir"}
            /\ Dialog(f, o) = "login" => o = "asks"
BY DEF Dialog

LEMMA StepKinds == TickInv /\ [FilesNext]_filesVars => PageStep
<1> SUFFICES ASSUME TickInv, [FilesNext]_filesVars PROVE PageStep
  OBVIOUS
<1>1. ASSUME NEW f, NEW o \in Outcome, NEW fresh \in BOOLEAN, ListInto(f, o, fresh),
             UNCHANGED <<page, flags>>
      PROVE  ListingStep
  BY <1>1, DialogBoxes DEF ListInto, ListingStep
<1>2. ASSUME NEW o \in Outcome, WebDav_onLoad(o) \/ ShareFileShowInit(o)
      PROVE  PageStep
  <2>1. CASE ListInto(Root, o, TRUE)
    BY <1>1, <1>2, <2>1 DEF WebDav_onLoad, ShareFileShowInit, PageStep
  <2>2. CASE ~ListInto(Root, o, TRUE)
    BY <1>2, <2>2 DEF WebDav_onLoad, ShareFileShowInit, Stopped, StopStep, PageStep
  <2> QED
    BY <2>1, <2>2
<1>3. ASSUME NEW o \in Outcome, Login(o) \/ Back(o) PROVE PageStep
  BY <1>1, <1>3 DEF Login, Back, PageStep
<1>4. ASSUME NEW o \in Outcome, NEW i \in DOMAIN rows, OpenFolder(i, o) PROVE PageStep
  BY <1>1, <1>4 DEF OpenFolder, PageStep
<1>5. ASSUME NEW o \in Outcome, NEW kept, DeleteTicked(kept, o) PROVE PageStep
  BY <1>1, <1>5 DEF DeleteTicked, PageStep
<1>6. ASSUME NEW o \in Outcome, NEW n, MakeFolder(n, o) PROVE PageStep
  BY <1>6 DEF MakeFolder, ListingStep, PageStep
<1>7. ASSUME NEW o \in Outcome, NEW n, UploadInto(n, o) PROVE PageStep
  BY <1>1, <1>7 DEF UploadInto, PageStep
<1>8. CASE LoginFails \/ CloseBox
  BY <1>8 DEF LoginFails, CloseBox, Boxes, BoxStep, PageStep, place, table
<1>9. CASE Share
  BY <1>9 DEF Share, BoxStep, PageStep
<1>10. ASSUME NEW i \in DOMAIN rows, OpenFile(i) PROVE PageStep
  BY <1>10 DEF OpenFile, Boxes, BoxStep, PageStep
<1>11. ASSUME NEW ticked \in SUBSET DOMAIN rows,
              NEW buttons \in {Buttons(ticked), {"add"}}, buttons = {"add"} => ticked = {},
              Ready, TickInto(ticked, buttons)
       PROVE  PageStep
  BY <1>11, ButtonsOfTicks DEF TickStep, PageStep
<1>12. \A ticked : Buttons(ticked) = {"add"} => ticked = {}
  BY DEF Buttons
<1>13. ASSUME NEW i \in DOMAIN rows, WebDav_Tick(i) PROVE PageStep
  <2>1. Toggled(i) \in SUBSET DOMAIN rows
    BY DEF Toggled, TickInv
  <2> QED
    BY <1>11, <1>12, <1>13, <2>1 DEF WebDav_Tick
<1>14. ASSUME NEW i \in DOMAIN rows, WebDav_Shared_Tick(i) PROVE PageStep
  <2>1. Toggled(i) \in SUBSET DOMAIN rows
    BY DEF Toggled, TickInv
  <2> DEFINE buttons == IF Toggled(i) = {} /\ order = "sizeUp" /\ rows[i] \in Dirs
                        THEN {"add"} ELSE Buttons(Toggled(i))
  <2>2. buttons \in {Buttons(Toggled(i)), {"add"}} /\ (buttons = {"add"} => Toggled(i) = {})
    BY <1>12
  <2>3. Ready /\ TickInto(Toggled(i), buttons)
    BY <1>14 DEF WebDav_Shared_Tick
  <2> QED
    BY <1>11, <2>1, <2>2, <2>3
<1>15. ASSUME NEW on \in BOOLEAN, WebDav_TickAll(on) \/ WebDav_Shared_TickAll(on)
       PROVE  PageStep
  <2>1. Everything(on) \in SUBSET DOMAIN rows
    BY DEF Everything
  <2>2. Ready /\ TickInto(Everything(on), Buttons(Everything(on)))
    BY <1>15 DEF WebDav_TickAll, WebDav_Shared_TickAll
  <2> QED
    BY <1>11, <1>12, <2>1, <2>2
<1>16. ASSUME NEW on \in BOOLEAN, ShareOK(on) PROVE PageStep
  BY <1>16 DEF ShareOK, Boxes, BoxStep, PageStep
<1>17. CASE WebDav_NameOrderOnClick \/ WebDav_Shared_NameOrderOnClick
  BY <1>17 DEF WebDav_NameOrderOnClick, WebDav_Shared_NameOrderOnClick, SortStep, PageStep
<1>18. CASE WebDav_SizeOrderOnClick \/ WebDav_Shared_SizeOrderOnClick
  BY <1>18 DEF WebDav_SizeOrderOnClick, WebDav_Shared_SizeOrderOnClick, SortStep, PageStep
<1>19. CASE WebDav_FileDateOrderOnClick \/ WebDav_Shared_FileDateOrderOnClick
  BY <1>19 DEF WebDav_FileDateOrderOnClick, WebDav_Shared_FileDateOrderOnClick, SortStep, PageStep
<1>20. ASSUME NEW f \in Folder, NEW n \in Name, Elsewhere(f, n) PROVE PageStep
  BY <1>20 DEF Elsewhere, BoxStep, PageStep
<1>21. CASE UNCHANGED filesVars
  BY <1>21 DEF filesVars, BoxStep, PageStep
<1>22. ASSUME NEW o \in Outcome, NEW kept, WebDav_Delete(kept, o) \/ WebDav_Shared_Delete(kept, o)
       PROVE  PageStep
  BY <1>5, <1>22 DEF WebDav_Delete, WebDav_Shared_Delete
<1>23. ASSUME NEW o \in Outcome, NEW n, WebDav_Mkdir(n, o) \/ WebDav_Shared_Mkdir(n, o)
       PROVE  PageStep
  BY <1>6, <1>23 DEF WebDav_Mkdir, WebDav_Shared_Mkdir
<1> QED
  BY <1>2, <1>3, <1>4, <1>7, <1>8, <1>9, <1>10, <1>13, <1>14, <1>15, <1>16, <1>17, <1>18, <1>19,
     <1>20, <1>21, <1>22, <1>23 DEF FilesNext

-----------------------------------------------------------------------------
(* The card and the path.                                                  *)

LEMMA DiskChanges ==
  [FilesNext]_filesVars =>
    \/ disk' = disk
    \/ \E n \in Name : disk' = With(Path_Name, n)
    \/ \E names \in SUBSET Ticked : disk' = Without(Path_Name, names)
    \/ \E f \in Folder, n \in Name : Elsewhere(f, n)
<1> SUFFICES ASSUME [FilesNext]_filesVars,
                    ~\E names \in SUBSET Ticked : disk' = Without(Path_Name, names),
                    ~\E n \in Name : disk' = With(Path_Name, n),
                    ~\E f \in Folder, n \in Name : Elsewhere(f, n)
             PROVE  disk' = disk
  OBVIOUS
<1>1. ASSUME NEW o \in Outcome, NEW kept, DeleteTicked(kept, o) PROVE FALSE
  BY <1>1 DEF DeleteTicked
<1>2. ASSUME NEW o \in Outcome, NEW n \in Name, MakeFolder(n, o) PROVE disk' = disk
  BY <1>2 DEF MakeFolder
<1>3. ASSUME NEW o \in Outcome, NEW n \in Name, UploadInto(n, o) PROVE FALSE
  BY <1>3 DEF UploadInto
<1>4. ASSUME NEW o \in Outcome,
             \/ WebDav_onLoad(o) \/ ShareFileShowInit(o) \/ Login(o) \/ Back(o)
             \/ \E i \in DOMAIN rows : OpenFolder(i, o)
      PROVE  disk' = disk
  BY <1>4 DEF WebDav_onLoad, ShareFileShowInit, Login, Back, OpenFolder
<1>5. CASE \/ LoginFails \/ CloseBox \/ Share
           \/ \E i \in DOMAIN rows : OpenFile(i) \/ WebDav_Tick(i) \/ WebDav_Shared_Tick(i)
           \/ \E on \in BOOLEAN : WebDav_TickAll(on) \/ WebDav_Shared_TickAll(on) \/ ShareOK(on)
  BY <1>5 DEF LoginFails, CloseBox, Share, OpenFile, WebDav_Tick, WebDav_Shared_Tick, WebDav_TickAll,
              WebDav_Shared_TickAll, ShareOK, TickInto
<1>6. CASE \/ WebDav_NameOrderOnClick \/ WebDav_SizeOrderOnClick \/ WebDav_FileDateOrderOnClick
           \/ WebDav_Shared_NameOrderOnClick \/ WebDav_Shared_SizeOrderOnClick
           \/ WebDav_Shared_FileDateOrderOnClick
  BY <1>6 DEF WebDav_NameOrderOnClick, WebDav_SizeOrderOnClick, WebDav_FileDateOrderOnClick,
              WebDav_Shared_NameOrderOnClick, WebDav_Shared_SizeOrderOnClick,
              WebDav_Shared_FileDateOrderOnClick, SortBy
<1>7. CASE UNCHANGED filesVars
  BY <1>7 DEF filesVars
<1> QED
  BY <1>1, <1>2, <1>3, <1>4, <1>5, <1>6, <1>7
  DEF FilesNext, WebDav_Delete, WebDav_Shared_Delete, WebDav_Mkdir, WebDav_Shared_Mkdir

\* A card that has lost or gained names holds finitely many still.
LEMMA CardAfter ==
  ASSUME CardInv
  PROVE  /\ \A f, names :
              /\ Without(f, names) \in [Folder -> SUBSET Name]
              /\ \A g \in Folder : IsFiniteSet(Without(f, names)[g])
         /\ \A f : \A n \in Name :
              /\ With(f, n) \in [Folder -> SUBSET Name]
              /\ \A g \in Folder : disk[g] \subseteq With(f, n)[g] /\ IsFiniteSet(With(f, n)[g])
<1>1. disk \in [Folder -> SUBSET Name] /\ \A g \in Folder : IsFiniteSet(disk[g])
  BY DEF CardInv
<1>2. ASSUME NEW f, NEW names
      PROVE  /\ Without(f, names) \in [Folder -> SUBSET Name]
             /\ \A g \in Folder : IsFiniteSet(Without(f, names)[g])
  <2>1. \A g \in Folder : Without(f, names)[g] \in SUBSET disk[g]
    BY DEF Without
  <2>2. Without(f, names) = [g \in Folder |-> Without(f, names)[g]]
    BY DEF Without
  <2>3. \A g \in Folder : Without(f, names)[g] \in SUBSET Name
    BY <1>1, <2>1
  <2> QED
    BY <1>1, <2>1, <2>2, <2>3, FS_Subset
<1>3. ASSUME NEW f, NEW n \in Name
      PROVE  /\ With(f, n) \in [Folder -> SUBSET Name]
             /\ \A g \in Folder : disk[g] \subseteq With(f, n)[g] /\ IsFiniteSet(With(f, n)[g])
  <2>1. \A g \in Folder : IsFiniteSet(disk[g] \cup {n})
    BY <1>1, FS_AddElement
  <2>2. \A g \in Folder : With(f, n)[g] \in {disk[g], disk[g] \cup {n}}
    BY <1>1 DEF With
  <2>3. With(f, n) \in [Folder -> SUBSET Name]
    BY <1>1 DEF With
  <2> QED
    BY <1>1, <2>1, <2>2, <2>3
<1> QED
  BY <1>2, <1>3

LEMMA NextCard == CardInv /\ TickInv /\ [FilesNext]_filesVars => CardInv'
<1> SUFFICES ASSUME CardInv, TickInv, [FilesNext]_filesVars PROVE CardInv'
  OBVIOUS
<1>1. page' = page
  BY StepKinds DEF PageStep, ListingStep, StopStep, TickStep, TickInto, SortStep, SortBy, BoxStep
<1>2. \/ disk' = disk
      \/ \E f : \E n \in Name : disk' = With(f, n)
      \/ \E f, names : disk' = Without(f, names)
  BY DiskChanges DEF Elsewhere
<1>3. disk' \in [Folder -> SUBSET Name] /\ \A f \in Folder : IsFiniteSet(disk'[f])
  BY <1>2, CardAfter DEF CardInv
<1> QED
  BY <1>1, <1>3 DEF CardInv

\* Only a folder that is there is listed.
LEMMA FolderListed ==
  ASSUME NEW f, NEW o, PROPFIND(f, o, TRUE) \/ PROPFIND(f, o, FALSE), o = "listed"
  PROVE  f \in Folder
<1>1. HasFolder(disk', f)
  BY DEF PROPFIND, Answers
<1> QED
  BY <1>1, SharingAssumption, FilesAssumption DEF HasFolder, Range

LEMMA NextPath == PathInv /\ TickInv /\ [FilesNext]_filesVars => PathInv'
<1> SUFFICES ASSUME PathInv, TickInv, [FilesNext]_filesVars PROVE PathInv'
  OBVIOUS
<1>1. CASE ListingStep
  <2>1. PICK o \in Outcome, fresh \in BOOLEAN : \E f : PROPFIND(f, o, fresh)
    BY <1>1 DEF ListingStep
  <2>2. PICK f : PROPFIND(f, o, fresh)
    BY <2>1
  <2>3. CASE o = "listed"
    BY <2>2, <2>3, FolderListed DEF PROPFIND, WebDav_PROPFIND, WebDav_Shared_PROPFIND, Listed, PathInv
  <2>4. CASE o # "listed"
    BY <2>2, <2>4 DEF PROPFIND, WebDav_PROPFIND, WebDav_Shared_PROPFIND, ListedEmpty, NotListed, PathInv
  <2> QED
    BY <2>3, <2>4
<1>2. CASE StopStep
  BY <1>2 DEF StopStep, NotListed, PathInv
<1>3. CASE TickStep \/ SortStep \/ BoxStep
  BY <1>3 DEF TickStep, TickInto, SortStep, SortBy, BoxStep, place, PathInv
<1> QED
  BY <1>1, <1>2, <1>3, StepKinds DEF PageStep

-----------------------------------------------------------------------------
(* The list and its rows.                                                  *)

\* What SortKeepsFiles says of the rows that a sorting makes of a list.
Kept(files, shownFiles, how, set) ==
  /\ Range(shownFiles) = Range(files)
  /\ \A n \in Range(files) :
       Times(shownFiles, n) =
         IF how = "name" THEN Cardinality({m \in Range(files) : Lower[m] = Lower[n]}) ELSE 1
  /\ \A i, j \in DOMAIN shownFiles :
       LET a == shownFiles[i]
           b == shownFiles[j]
       IN  i < j =>
           /\ how = "size" /\ b \in Dirs => a \in Dirs
           /\ how = "sizeUp" /\ a \in Dirs => b \in Dirs
           /\ how = "size" /\ a \notin Dirs => Size[a] >= Size[b]
           /\ how = "sizeUp" /\ b \notin Dirs => Size[a] <= Size[b]
           /\ \A by \in {<<"date", Date>>, <<"name", Lower>>} :
                how = by[1] => (IF how \in set THEN by[2][a] >= by[2][b]
                                               ELSE by[2][a] <= by[2][b])

LEMMA KeptListed ==
  ASSUME NEW files, IsListing(files), NEW set
  PROVE  Kept(files, files, "listed", set) /\ \E m \in Nat : files \in [1..m -> Name]
<1>1. \E n \in Nat : files \in [1..n -> Name] /\ IsInjective(files)
  BY DEF IsListing
<1>2. \A a \in Range(files) : Times(files, a) = 1
  BY <1>1, OnceOnly
<1> QED
  BY <1>1, <1>2 DEF Kept

\* Rows in steps by a key are sorted by it, the way that was asked for.
LEMMA KeySteps ==
  ASSUME NEW key \in [Name -> Int], NEW down \in BOOLEAN, NEW m \in Nat,
         NEW r \in [1..m -> Name], InSteps(r, ByKey(key, down)), NEW i \in 1..m, NEW j \in 1..m, i < j
  PROVE  IF down THEN key[r[i]] >= key[r[j]] ELSE key[r[i]] <= key[r[j]]
<1>1. ~Precedes(down, key[r[j]], key[r[i]])
  BY DEF InSteps, ByKey
<1>2. key[r[i]] \in Int /\ key[r[j]] \in Int
  OBVIOUS
<1> QED
  BY <1>1, <1>2 DEF Precedes

LEMMA KeptByName ==
  ASSUME NEW files, IsListing(files), NEW down \in BOOLEAN, NEW set, "name" \in set <=> down
  PROVE  /\ Kept(files, NameOrder(files, down), "name", set)
         /\ \E m \in Nat : NameOrder(files, down) \in [1..m -> Name]
<1> DEFINE r == NameOrder(files, down)
           comes == ByKey(Lower, down)
<1>1. Lower \in [Name -> Int]
  BY FilesAssumption
<1>2. WeakOrder(comes)
  BY <1>1, ByKeyWeak
<1>3. PICK n \in Nat : files \in [1..n -> Name]
  BY DEF IsListing
<1>4. InSteps(r, comes)
  <2> HIDE DEF comes
  <2> QED
    BY <1>2, <1>3, EachInOrderPlaces DEF NameOrder, comes
<1>5. PICK m \in Nat : r \in [1..m -> Name]
  BY <1>2, EachInOrderKeeps DEF NameOrder
<1>6. Range(r) = Range(files)
  BY <1>2, EachInOrderKeeps DEF NameOrder
<1>7. ASSUME NEW a \in Range(files)
      PROVE  Times(r, a) = Cardinality({b \in Range(files) : Lower[b] = Lower[a]})
  <2>1. Times(r, a) = Cardinality({b \in Range(files) : {<<a, b>>, <<b, a>>} \cap comes = {}})
    BY <1>2, <1>7, EachInOrderKeeps DEF NameOrder
  <2>2. Range(files) \subseteq Name
    BY <1>3 DEF Range
  <2>3. \A b \in Range(files) : {<<a, b>>, <<b, a>>} \cap comes = {} <=> Lower[b] = Lower[a]
    <3> TAKE b \in Range(files)
    <3>1. a \in Name /\ b \in Name /\ Lower[a] \in Int /\ Lower[b] \in Int
      BY <1>1, <1>7, <2>2
    <3>2. /\ <<a, b>> \in comes <=> Precedes(down, Lower[a], Lower[b])
          /\ <<b, a>> \in comes <=> Precedes(down, Lower[b], Lower[a])
      BY <3>1 DEF ByKey
    <3> QED
      BY <3>1, <3>2 DEF Precedes
  <2>4. {b \in Range(files) : {<<a, b>>, <<b, a>>} \cap comes = {}} =
        {b \in Range(files) : Lower[b] = Lower[a]}
    BY <2>3
  <2> QED
    BY <2>1, <2>4
<1>8. \A i, j \in 1..m : i < j => (IF down THEN Lower[r[i]] >= Lower[r[j]] ELSE Lower[r[i]] <= Lower[r[j]])
  BY <1>1, <1>4, <1>5, KeySteps
<1> HIDE DEF r
<1> QED
  BY <1>5, <1>6, <1>7, <1>8 DEF Kept, r

LEMMA KeptByDate ==
  ASSUME NEW files, IsListing(files), NEW down \in BOOLEAN, NEW set, "date" \in set <=> down
  PROVE  /\ Kept(files, DateOrder(files, down), "date", set)
         /\ \E m \in Nat : DateOrder(files, down) \in [1..m -> Name]
<1> DEFINE r == DateOrder(files, down)
           comes == ByKey(Date, down)
<1>1. Date \in [Name -> Int]
  BY FilesAssumption
<1>2. WeakOrder(comes)
  BY <1>1, ByKeyWeak
<1>3. PICK n \in Nat : files \in [1..n -> Name]
  BY DEF IsListing
<1>4. InSteps(r, comes)
  <2> HIDE DEF comes
  <2> QED
    BY <1>2, <1>3, InOrderPlaces DEF DateOrder, comes
<1>5. IsListing(r) /\ Range(r) = Range(files)
  BY <1>2, InOrderKeeps DEF DateOrder
<1> HIDE DEF r
<1>6. PICK m \in Nat : r \in [1..m -> Name] /\ IsInjective(r)
  BY <1>5 DEF IsListing
<1>7. \A a \in Range(files) : Times(r, a) = 1
  BY <1>5, <1>6, OnceOnly
<1>8. \A i, j \in 1..m : i < j => (IF down THEN Date[r[i]] >= Date[r[j]] ELSE Date[r[i]] <= Date[r[j]])
  BY <1>1, <1>4, <1>6, KeySteps
<1> QED
  BY <1>5, <1>6, <1>7, <1>8 DEF Kept, r

LEMMA KeptBySize ==
  ASSUME NEW files, IsListing(files), NEW down \in BOOLEAN, NEW set
  PROVE  LET r == InOrder(files, BySize(down))
         IN  /\ Kept(files, r, IF down THEN "size" ELSE "sizeUp", set)
             /\ \E m \in Nat : r \in [1..m -> Name]
<1> DEFINE r == InOrder(files, BySize(down))
           comes == BySize(down)
<1>1. \A a \in Name : Size[a] \in Int
  BY FilesAssumption
<1>2. WeakOrder(comes)
  BY BySizeWeak
<1>3. PICK n \in Nat : files \in [1..n -> Name]
  BY DEF IsListing
<1>4. InSteps(r, comes)
  <2> HIDE DEF comes
  <2> QED
    BY <1>2, <1>3, InOrderPlaces DEF comes
<1>5. IsListing(r) /\ Range(r) = Range(files)
  BY <1>2, InOrderKeeps
<1> HIDE DEF r
<1>6. PICK m \in Nat : r \in [1..m -> Name] /\ IsInjective(r)
  BY <1>5 DEF IsListing
<1>7. \A a \in Range(files) : Times(r, a) = 1
  BY <1>5, <1>6, OnceOnly
<1>8. ASSUME NEW i \in 1..m, NEW j \in 1..m, i < j
      PROVE  IF down
             THEN (r[j] \in Dirs => r[i] \in Dirs) /\ (r[i] \notin Dirs => Size[r[i]] >= Size[r[j]])
             ELSE (r[i] \in Dirs => r[j] \in Dirs) /\ (r[j] \notin Dirs => Size[r[i]] <= Size[r[j]])
  <2> DEFINE a == r[i]
             b == r[j]
  <2>1. a \in Name /\ b \in Name /\ Size[a] \in Int /\ Size[b] \in Int
    BY <1>1, <1>6
  <2>2. <<b, a>> \notin comes
    BY <1>4, <1>6, <1>8 DEF InSteps
  <2> HIDE DEF a, b
  <2>3. /\ ~(a \notin Dirs /\ b \notin Dirs /\ Precedes(down, Size[b], Size[a]))
        /\ ~(down /\ b \in Dirs /\ a \notin Dirs)
        /\ ~(~down /\ b \notin Dirs /\ a \in Dirs)
    BY <2>1, <2>2 DEF BySize
  <2>4. IF down THEN (b \in Dirs => a \in Dirs) /\ (a \notin Dirs => Size[a] >= Size[b])
                ELSE (a \in Dirs => b \in Dirs) /\ (b \notin Dirs => Size[a] <= Size[b])
    BY <2>1, <2>3 DEF Precedes
  <2> QED
    BY <2>4 DEF a, b
<1> QED
  BY <1>5, <1>6, <1>7, <1>8 DEF Kept, r

LEMMA KeptIsIt ==
  SortKeepsFiles' <=> (rows' # <<>> => Kept(list', rows', order', flags'))
BY DEF SortKeepsFiles, Kept, Times

\* Rows are shown only if there is something in the list.
LEMMA NoRows == ListInv /\ list = <<>> => rows = <<>>
<1> SUFFICES ASSUME ListInv, list = <<>>, rows # <<>> PROVE FALSE
  OBVIOUS
<1>1. Range(rows) = {}
  BY DEF ListInv, SortKeepsFiles, Range
<1>2. PICK m \in Nat : rows \in [1..m -> Name]
  BY DEF ListInv
<1>3. m = 0
  BY <1>1, <1>2 DEF Range
<1> QED
  BY <1>2, <1>3

LEMMA SortedList ==
  ASSUME ListInv, NEW key \in {"name", "size", "date"}, NEW files, NEW how,
         SortBy(key, files, how), how \in {"name", "size", "sizeUp", "date"},
         \E m \in Nat : files \in [1..m -> Name], Kept(list, files, how, flags')
  PROVE  ListInv'
<1>1. flags' \subseteq {"name", "size", "date"} /\ list' = list
  BY DEF SortBy, Flipped, place, ListInv
<1>2. CASE list = <<>>
  <2>1. rows = <<>> /\ rows' = rows /\ order' = order
    BY <1>2, NoRows DEF SortBy, table
  <2>2. SortKeepsFiles'
    BY <2>1 DEF SortKeepsFiles
  <2> QED
    BY <1>1, <2>1, <2>2 DEF ListInv
<1>3. CASE list # <<>>
  <2>1. rows' = files /\ order' = how
    BY <1>3 DEF SortBy, Rebuilt
  <2>2. SortKeepsFiles'
    BY <1>1, <2>1, KeptIsIt
  <2> QED
    BY <1>1, <2>1, <2>2 DEF ListInv
<1> QED
  BY <1>2, <1>3

LEMMA NextList == ListInv /\ CardInv' /\ TickInv /\ [FilesNext]_filesVars => ListInv'
<1> SUFFICES ASSUME ListInv, CardInv', TickInv, [FilesNext]_filesVars PROVE ListInv'
  OBVIOUS
<1>1. /\ IsListing(list) /\ \E m \in Nat : rows \in [1..m -> Name]
      /\ order \in {"listed", "name", "size", "sizeUp", "date"}
      /\ flags \subseteq {"name", "size", "date"}
      /\ SortKeepsFiles
  BY DEF ListInv
<1>2. ASSUME IsListing(list'), rows' = <<>> \/ rows' = list', order' = "listed", flags' = flags
      PROVE  ListInv'
  <2>1. <<>> \in [1..0 -> Name]
    OBVIOUS
  <2>2. Kept(list', list', "listed", flags') /\ \E m \in Nat : list' \in [1..m -> Name]
    BY <1>2, KeptListed
  <2>3. SortKeepsFiles'
    BY <1>2, <2>2, KeptIsIt
  <2> QED
    BY <1>1, <1>2, <2>1, <2>2, <2>3 DEF ListInv
<1>3. ASSUME UNCHANGED <<list, rows, order, flags>> PROVE ListInv'
  <2>1. SortKeepsFiles' <=> SortKeepsFiles
    BY <1>3 DEF SortKeepsFiles
  <2> QED
    BY <1>1, <1>3, <2>1 DEF ListInv
<1>4. IsListing(<<>>)
  BY DEF IsListing, IsInjective
<1>5. CASE ListingStep
  <2>1. PICK o \in Outcome, fresh \in BOOLEAN : \E f : PROPFIND(f, o, fresh) /\ flags' = flags
    BY <1>5 DEF ListingStep
  <2>2. PICK f : PROPFIND(f, o, fresh) /\ flags' = flags
    BY <2>1
  <2>3. CASE o = "listed"
    <3>1. f \in Folder
      BY <2>2, <2>3, FolderListed
    <3>2. IsListing(Entries(Visible(f)))
      <4>1. disk'[f] \subseteq Name /\ IsFiniteSet(disk'[f])
        BY <3>1 DEF CardInv
      <4>2. Visible(f) \subseteq Name /\ IsFiniteSet(Visible(f))
        <5>1. Visible(f) \subseteq disk'[f]
          BY DEF Visible
        <5> QED
          BY <4>1, <5>1, FS_Subset
      <4> QED
        BY <4>2, EntriesListing
    <3>3. list' = Entries(Visible(f)) /\ rows' = list' /\ order' = "listed"
      BY <2>2, <2>3 DEF PROPFIND, WebDav_PROPFIND, WebDav_Shared_PROPFIND, Listed, Rebuilt
    <3> QED
      BY <1>2, <2>2, <3>2, <3>3
  <2>4. CASE o # "listed"
    <3>1. ListedEmpty(head /\ ~fresh) \/ \E b : NotListed(fresh, b)
      BY <2>2, <2>4 DEF PROPFIND, WebDav_PROPFIND, WebDav_Shared_PROPFIND
    <3>2. CASE ListedEmpty(head /\ ~fresh)
      BY <1>2, <1>4, <2>2, <3>2 DEF ListedEmpty, Rebuilt
    <3>3. ASSUME NEW b, NotListed(fresh, b) PROVE ListInv'
      BY <1>1, <1>2, <1>3, <2>2, <3>3 DEF NotListed, Rebuilt, table
    <3> QED
      BY <3>1, <3>2, <3>3
  <2> QED
    BY <2>3, <2>4
<1>6. CASE StopStep
  BY <1>1, <1>2, <1>6 DEF StopStep, NotListed, Rebuilt
<1>7. CASE TickStep \/ BoxStep
  BY <1>3, <1>7 DEF TickStep, TickInto, BoxStep, place, table
<1>8. CASE SortBy("name", NameOrder(list, "name" \notin flags), "name")
  <2>1. "name" \in flags' <=> "name" \notin flags
    BY <1>8 DEF SortBy, Flipped
  <2> QED
    BY <1>1, <1>8, <2>1, KeptByName, SortedList
<1>9. CASE SortBy("date", DateOrder(list, "date" \notin flags), "date")
  <2>1. "date" \in flags' <=> "date" \notin flags
    BY <1>9 DEF SortBy, Flipped
  <2> QED
    BY <1>1, <1>9, <2>1, KeptByDate, SortedList
<1>10. CASE SortBy("size", SizeDown(list), "size")
  BY <1>1, <1>10, KeptBySize, SortedList DEF SizeDown
<1>11. CASE SortBy("size", SizeUp(list), "sizeUp")
  BY <1>1, <1>11, KeptBySize, SortedList DEF SizeUp
<1> QED
  BY <1>5, <1>6, <1>7, <1>8, <1>9, <1>10, <1>11, StepKinds DEF PageStep, SortStep

-----------------------------------------------------------------------------
(* The ticks, the buttons and the dialogs.                                 *)

\* Rows just built are not ticked, and what was to be shared is forgotten.
LEMMA TickRebuilt ==
  ASSUME NEW files, NEW how, NEW headed, Rebuilt(files, how, headed), NEW late \in BOOLEAN, unlisted' = late,
         shown' \subseteq {"add", "share", "delete"},
         how = "listed" => "share" \notin shown'
  PROVE  TickInv'
BY DEF Rebuilt, TickInv, Ticked

LEMMA NextTick == ListInv /\ TickInv /\ DlgInv /\ [FilesNext]_filesVars => TickInv'
<1> SUFFICES ASSUME ListInv, TickInv, DlgInv, [FilesNext]_filesVars PROVE TickInv'
  OBVIOUS
<1>1. ASSUME UNCHANGED <<rows, ticks, meant, resorted>>, shown' \in {shown, {}},
             unlisted' \in {TRUE, unlisted}, shown' = shown \/ unlisted'
      PROVE  TickInv'
  <2>1. Ticked' = Ticked
    BY <1>1 DEF Ticked, Shown
  <2>2. CASE shown' = shown
    <3>1. ~unlisted' => ~unlisted
      BY <1>1 DEF TickInv
    <3>2. unlisted' \in BOOLEAN
      BY <1>1 DEF TickInv
    <3> QED
      BY <1>1, <2>1, <2>2, <3>1, <3>2 DEF TickInv
  <2>3. CASE shown' = {} /\ unlisted'
    <3>1. unlisted' = TRUE
      BY <1>1, <2>3 DEF TickInv
    <3> QED
      BY <1>1, <2>1, <2>3, <3>1 DEF TickInv
  <2> QED
    BY <1>1, <2>2, <2>3
<1>2. CASE ListingStep
  <2>1. PICK o \in Outcome, fresh \in BOOLEAN : \E f : PROPFIND(f, o, fresh)
    BY <1>2 DEF ListingStep
  <2>2. PICK f : PROPFIND(f, o, fresh)
    BY <2>1
  <2>3. CASE o = "listed"
    BY <2>2, <2>3, TickRebuilt DEF PROPFIND, WebDav_PROPFIND, WebDav_Shared_PROPFIND, Listed, AddsAt
  <2>4. CASE o # "listed"
    <3>1. \/ ListedEmpty(head /\ ~fresh)
          \/ NotListed(fresh, {}) \/ NotListed(fresh, IF fresh THEN {} ELSE shown)
      BY <2>2, <2>4 DEF PROPFIND, WebDav_PROPFIND, WebDav_Shared_PROPFIND
    <3>2. CASE ListedEmpty(head /\ ~fresh)
      BY <3>2, TickRebuilt DEF ListedEmpty
    <3>3. ASSUME NEW b, NotListed(fresh, b), b = {} \/ (~fresh /\ b = shown) PROVE TickInv'
      <4>1. CASE fresh
        BY <3>3, <4>1, TickRebuilt DEF NotListed
      <4>2. CASE ~fresh
        BY <1>1, <3>3, <4>2 DEF NotListed, table
      <4> QED
        BY <4>1, <4>2
    <3> QED
      BY <3>1, <3>2, <3>3
  <2> QED
    BY <2>3, <2>4
<1>3. CASE StopStep
  BY <1>3, TickRebuilt DEF StopStep, NotListed
<1>4. CASE TickStep
  <2>1. PICK ticked \in SUBSET DOMAIN rows, buttons \in SUBSET {"add", "share", "delete"} :
          /\ TickInto(ticked, buttons)
          /\ "add" \in buttons => ticked = {}
          /\ ticked # {} => "delete" \in buttons
          /\ "share" \in buttons => Cardinality(ticked) = 1
    BY <1>4 DEF TickStep
  <2>2. ASSUME Cardinality(ticked) = 1 PROVE \E i \in DOMAIN rows : ticked = {i}
    <3>1. PICK m \in Nat : rows \in [1..m -> Name]
      BY DEF ListInv
    <3>2. IsFiniteSet(ticked)
      <4>1. IsFiniteSet(1..m) /\ ticked \in SUBSET (1..m)
        BY <3>1, FS_Interval
      <4> QED
        BY <4>1, FS_Subset
    <3> QED
      BY <2>2, <3>2, FS_Singleton
  <2>3. /\ ticks' = ticked /\ shown' = buttons /\ rows' = rows /\ resorted' = FALSE
        /\ unlisted' = unlisted /\ meant' = {Shown(i) : i \in ticked}
    BY <2>1 DEF TickInto, place
  <2> QED
    BY <2>1, <2>2, <2>3 DEF TickInv, Ticked, Shown
<1>5. CASE SortStep
  <2>1. PICK key, files, how : SortBy(key, files, how) /\ how # "listed"
    BY <1>5 DEF SortStep
  <2>2. shown' = shown /\ unlisted' = unlisted
    BY <2>1 DEF SortBy, place
  <2>3. CASE list = <<>>
    BY <1>1, <2>1, <2>2, <2>3 DEF SortBy, table, TickInv
  <2>4. CASE list # <<>>
    BY <2>1, <2>2, <2>4, TickRebuilt DEF SortBy, TickInv
  <2> QED
    BY <2>3, <2>4
<1>6. CASE BoxStep
  <2>1. UNCHANGED <<rows, ticks, meant, resorted, unlisted>>
    BY <1>6 DEF BoxStep, place, table
  <2>2. shown' = shown \/ (unlisted /\ shown' = {})
    BY <1>6 DEF BoxStep, DlgInv
  <2> QED
    BY <1>1, <2>1, <2>2 DEF TickInv
<1> QED
  BY <1>2, <1>3, <1>4, <1>5, <1>6, StepKinds DEF PageStep

LEMMA NextDlg == ListInv /\ TickInv /\ DlgInv /\ [FilesNext]_filesVars => DlgInv'
<1> SUFFICES ASSUME ListInv, TickInv, DlgInv, [FilesNext]_filesVars PROVE DlgInv'
  OBVIOUS
<1>1. CASE ListingStep
  <2>1. PICK o \in Outcome, fresh \in BOOLEAN : \E f :
          /\ PROPFIND(f, o, fresh) /\ dlg' \in {"login", "alert", "none", "mkdir"} /\ share' = ""
          /\ dlg' = "login" => o = "asks"
    BY <1>1 DEF ListingStep
  <2>2. o = "asks" => unlisted'
    BY <2>1 DEF PROPFIND, WebDav_PROPFIND, WebDav_Shared_PROPFIND, NotListed
  <2> QED
    BY <2>1, <2>2 DEF DlgInv, Boxes
<1>2. CASE StopStep
  BY <1>2 DEF StopStep, NotListed, DlgInv, Boxes
<1>3. CASE TickStep \/ SortStep
  BY <1>3 DEF TickStep, TickInto, SortStep, SortBy, Ready, DlgInv
<1>4. CASE BoxStep
  <2>1. UNCHANGED <<meant, resorted, unlisted>>
    BY <1>4 DEF BoxStep, place, table
  <2>2. CASE Share
    <3>1. dlg' = "share" /\ "share" \in shown
      BY <2>2 DEF Share
    <3>2. CASE resorted
      <4>1. share' = ""
        BY <2>2, <3>2 DEF Share, TickInv
      <4> QED
        BY <2>1, <3>1, <3>2, <4>1 DEF DlgInv, Boxes
    <3>3. CASE ~resorted
      <4>1. PICK i \in DOMAIN rows : ticks = {i}
        BY <3>1, <3>3 DEF TickInv
      <4>2. PICK m \in Nat : rows \in [1..m -> Name]
        BY DEF ListInv
      <4>3. share' = Shown(i)
        <5>1. (CHOOSE k \in ticks : \A j \in ticks : k <= j) = i
          <6>1. i \in 1..m
            BY <4>2
          <6> QED
            BY <4>1, <6>1
        <5> QED
          BY <2>2, <4>1, <5>1 DEF Share
      <4>4. meant = {Shown(i)}
        BY <4>1 DEF TickInv, Ticked
      <4>5. Shown(i) \in Range(Decoded)
        BY <4>1, <4>2, FilesAssumption DEF Shown, Range
      <4> QED
        BY <2>1, <3>1, <3>3, <4>3, <4>4, <4>5 DEF DlgInv, Boxes
    <3> QED
      BY <3>2, <3>3
  <2>3. CASE ~Share
    <3>1. \/ dlg' \in Boxes \ {"share", "login"} /\ share' \in {share, ""}
          \/ UNCHANGED <<dlg, share>>
      BY <1>4, <2>3 DEF BoxStep
    <3> QED
      BY <2>1, <3>1 DEF DlgInv
  <2> QED
    BY <2>2, <2>3
<1> QED
  BY <1>1, <1>2, <1>3, <1>4, StepKinds DEF PageStep

\* Whether the table's head has its handler.
LEMMA NextHead == TickInv /\ head \in BOOLEAN /\ [FilesNext]_filesVars => head' \in BOOLEAN
<1> SUFFICES ASSUME TickInv, head \in BOOLEAN, [FilesNext]_filesVars PROVE head' \in BOOLEAN
  OBVIOUS
<1>1. ASSUME NEW files, NEW how, NEW headed, Rebuilt(files, how, headed)
      PROVE  head' \in BOOLEAN
  BY <1>1 DEF Rebuilt
<1>2. ASSUME NEW fresh, NEW b, NotListed(fresh, b) PROVE head' \in BOOLEAN
  BY <1>1, <1>2 DEF NotListed, table
<1>3. CASE ListingStep
  BY <1>1, <1>2, <1>3 DEF ListingStep, PROPFIND, WebDav_PROPFIND, WebDav_Shared_PROPFIND,
    Listed, ListedEmpty
<1>4. CASE StopStep
  BY <1>2, <1>4 DEF StopStep
<1>5. CASE TickStep \/ BoxStep
  BY <1>5 DEF TickStep, TickInto, BoxStep, table
<1>6. CASE SortStep
  BY <1>1, <1>6 DEF SortStep, SortBy, table
<1> QED
  BY <1>3, <1>4, <1>5, <1>6, StepKinds DEF PageStep

-----------------------------------------------------------------------------
(* The theorems.                                                           *)

LEMMA InitFilesInv == FilesInit => FilesInv
<1> SUFFICES ASSUME FilesInit PROVE FilesInv
  OBVIOUS
<1>1. CardInv /\ PathInv
  BY SharingAssumption, FilesAssumption DEF FilesInit, CardInv, PathInv
<1>2. ListInv
  <2>1. IsListing(<<>>) /\ <<>> \in [1..0 -> Name]
    BY DEF IsListing, IsInjective
  <2> QED
    BY <2>1 DEF FilesInit, ListInv, SortKeepsFiles
<1>3. TickInv /\ DlgInv
  BY DEF FilesInit, TickInv, DlgInv, Ticked, Boxes
<1> QED
  BY <1>1, <1>2, <1>3 DEF FilesInv, FilesInit

LEMMA FilesInvHolds == FilesSpec => []FilesInv
<1>1. FilesInv /\ [FilesNext]_filesVars => FilesInv'
  BY NextCard, NextPath, NextList, NextTick, NextDlg, NextHead DEF FilesInv
<1> QED
  BY <1>1, InitFilesInv, PTL DEF FilesSpec

\* Type correctness of the file pages: what they show is made of names on the card,
\* and what is ticked and shared of what they show (webdavobj.js, webdavobj_shared.js).
THEOREM FilesTypeCorrect == FilesSpec => []FilesTypeOK
<1>1. FilesInv => FilesTypeOK
  <2> SUFFICES ASSUME FilesInv PROVE FilesTypeOK
    OBVIOUS
  <2>1. Range(rows) \subseteq Name /\ Range(list) \subseteq Name
    BY DEF FilesInv, ListInv, IsListing, Range
  <2>2. meant \subseteq Range(Decoded)
    <3>1. ticks \subseteq DOMAIN rows /\ \A i \in DOMAIN rows : rows[i] \in Name
      BY DEF FilesInv, ListInv, TickInv
    <3> QED
      BY <3>1, FilesAssumption DEF FilesInv, TickInv, Ticked, Shown, Range
  <2> QED
    BY <2>1, <2>2 DEF FilesInv, CardInv, PathInv, ListInv, TickInv, DlgInv, FilesTypeOK
<1> QED
  BY <1>1, FilesInvHolds, PTL

\* The rows shown are of the folder that the next request names, whatever the listings
\* before have come to (WebDav_PROPFIND sets Path_Name while it builds the rows).
THEOREM RowsOfPath == FilesSpec => []RowsAreOfPath
<1>1. FilesInv => RowsAreOfPath
  BY DEF FilesInv, PathInv, RowsAreOfPath
<1> QED
  BY <1>1, FilesInvHolds, PTL

\* The buttons fit the ticks, and the share dialog is of the one file ticked, or of
\* none (the handlers of the rows, of the table's head and of the sortings).
THEOREM ButtonsFitTicks == FilesSpec => []ButtonsFit
<1>1. FilesInv => ButtonsFit
  BY DEF FilesInv, TickInv, DlgInv, ButtonsFit
<1> QED
  BY <1>1, FilesInvHolds, PTL

\* However many files there are, the sortings show each of them, in order; only the one
\* by name shows again what differs in case alone (the three ...OrderOnClick).
THEOREM SortingsKeepFiles == FilesSpec => []SortKeepsFiles
<1>1. FilesInv => SortKeepsFiles
  BY DEF FilesInv, ListInv
<1> QED
  BY <1>1, FilesInvHolds, PTL

\* What a step of the page removes from the card is what the user has ticked since the
\* rows were built, or in a folder that is (WebDav_Delete, WebDav_Shared_Delete).
THEOREM DeletesHitMeant == FilesSpec => DeleteHitsMeant
<1> DEFINE Hits ==
      \A f \in Folder, n \in Name :
        n \in disk[f] \ disk'[f] =>
          \/ f = of /\ n \in meant
          \/ \E d \in meant : Inside(of, d) = f
          \/ \E g \in Folder, m \in Name : Elsewhere(g, m)
<1>1. FilesInv /\ [FilesNext]_filesVars => Hits
  <2> SUFFICES ASSUME FilesInv, [FilesNext]_filesVars, NEW f \in Folder, NEW n \in Name,
                      n \in disk[f], n \notin disk'[f],
                      ~\E g \in Folder, m \in Name : Elsewhere(g, m)
               PROVE  (f = of /\ n \in meant) \/ \E d \in meant : Inside(of, d) = f
    OBVIOUS
  <2>1. \A m \in Name : disk' # With(Path_Name, m)
    BY CardAfter DEF FilesInv
  <2>2. PICK names \in SUBSET Ticked : disk' = Without(Path_Name, names)
    BY <2>1, DiskChanges
  <2>3. names \subseteq meant /\ of = Path_Name
    BY <2>2 DEF FilesInv, PathInv, TickInv
  <2> QED
    BY <2>2, <2>3 DEF Without
<1> QED
  BY <1>1, FilesInvHolds, PTL DEF FilesSpec, DeleteHitsMeant
=============================================================================
