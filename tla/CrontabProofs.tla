--------------------------- MODULE CrontabProofs ---------------------------
(***************************************************************************)
(* Proofs about Crontab, for any number of scripts, dnsblacklist sections  *)
(* and runs, with or without the crontab directory.                        *)
(***************************************************************************)
EXTENDS Crontab, TLAPS

(***************************************************************************)
(* Which command can be where, and how much it still has to append.        *)
(***************************************************************************)
AtPoint(p) ==
  /\ Running(p) => want[p] \in Adds(op[p])
  /\ pc[p] \in {"blank", "filter", "cpopen", "cpwrite", "rmtmp", "ensure",
                "sedread", "sedrename", "ps"} => left[p] = want[p]
  /\ pc[p] \in {"sedread", "sedrename"} => op[p] \in InPlace
  /\ pc[p] \in {"ensure", "ps", "append", "restart"} => op[p] \notin Removals
  /\ pc[p] \in {"blank", "filter", "cpopen", "cpwrite", "rmtmp"}
       => op[p] \notin InPlace
  /\ pc[p] = "ps" => op[p] = "DN_RESET"
  /\ pc[p] \in {"ensure", "sedread", "sedrename"} /\ op[p] # "DN_RESET"
       => left[p] = 1
  /\ pc[p] = "append" => left[p] \in 1..want[p]
  /\ pc[p] \in {"restart", "done"} => left[p] = 0
  /\ pc[p] \in {"sedread", "sedrename", "ps", "append", "restart"} /\ HasDir
       => hasCrontab
  /\ pc[p] \in {"cpopen", "cpwrite", "sedrename"} => hasCrontab
  /\ pc[p] = "done" /\ op[p] = "RESET_TIMER_REBOOT" => (crond <=> HasDir)

\* How far a script that runs alone has got with its edit.
Progress(p) ==
  LET kept == Without(old[p], Own(op[p])) IN
  /\ pc[p] \in {"blank", "filter"} => crontab = old[p]
  /\ pc[p] = "cpopen" => hasTmp /\ tmp = kept /\ crontab = old[p]
  /\ pc[p] \in {"cpwrite", "sedrename"} => buf[p] = kept
  /\ pc[p] = "cpwrite" => crontab = NoLines
  /\ pc[p] = "rmtmp" => crontab = kept
  /\ pc[p] \in {"ensure", "sedread"}
       => crontab = IF op[p] \in InPlace THEN old[p] ELSE kept
  /\ pc[p] = "sedrename" => crontab = old[p]
  /\ pc[p] = "ps" => crontab = kept
  /\ pc[p] \in {"append", "restart", "done"} =>
       crontab = Edited(old[p], op[p], want[p] - left[p])
  /\ ~HasDir => old[p] = NoLines

IInv ==
  /\ TypeOK
  /\ crond => hasCrontab
  /\ TmpIsTransient
  /\ \A p \in Proc : AtPoint(p)
  /\ \A p, q \in Proc : p # q /\ alone[p] /\ Running(p) => ~Running(q)
  /\ \A p \in Proc : alone[p] /\ Running(p) => Progress(p)

-----------------------------------------------------------------------------
(***************************************************************************)
(* Bags of lines.                                                          *)
(***************************************************************************)
\* Removing a pattern, and writing back n of its lines, gives a bag of lines;
\* an empty crontab stays empty.
LEMMA LinesFacts ==
  ASSUME NEW lines \in Lines, NEW t \in Tag, NEW n \in Nat
  PROVE  /\ Without(lines, t) \in Lines
         /\ [lines EXCEPT ![t] = n] \in Lines
         /\ [Without(lines, t) EXCEPT ![t] = n] = [lines EXCEPT ![t] = n]
         /\ [[lines EXCEPT ![t] = n] EXCEPT ![t] = @ + 1]
              = [lines EXCEPT ![t] = n + 1]
         /\ NoLines \in Lines
         /\ Without(NoLines, t) = NoLines
BY DEF Lines, Without, NoLines

\* A command has one kind of lines and appends a natural number of them.
LEMMA OpFacts ==
  ASSUME NEW o \in Op
  PROVE  /\ Own(o) \in Tag
         /\ Adds(o) \subseteq Nat
         /\ o \in Removals => Adds(o) = {0}
         /\ o \in InPlace \cup {"RESET_AUTO_OFF", "RESET_TIMER_REBOOT"}
              => Adds(o) = {1}
         /\ o = "INIT_TIMER_REBOOT" => Adds(o) = {0, 1}
BY CrontabAssumption, SMTT(30)
   DEF Op, Own, Adds, Removals, InPlace, Reboots, Tag

-----------------------------------------------------------------------------
(***************************************************************************)
(* Type correctness.                                                       *)
(***************************************************************************)
\* Every step of a script keeps the types.
LEMMA StepTypeOK ==
  ASSUME TypeOK, NEW p \in Proc, Step(p), AtPoint(p)
  PROVE  TypeOK'
<1> op[p] \in Op /\ Own(op[p]) \in Tag
  BY OpFacts DEF TypeOK
<1>1. ASSUME NEW o \in Op, NEW n \in Adds(o), Start(p, o, n) PROVE TypeOK'
  BY <1>1, OpFacts DEF Start, Goto, TypeOK, files, Point
<1>2. CASE BlankTmp(p)
  BY <1>2 DEF BlankTmp, Goto, TypeOK, ghosts, Point, Lines, NoLines
<1>3. CASE FilterToTmp(p)
  BY <1>3, LinesFacts DEF FilterToTmp, Goto, TypeOK, ghosts, Point
<1>4. CASE NothingToFilter(p)
  BY <1>4 DEF NothingToFilter, Goto, TypeOK, ghosts, files, Point
<1>5. CASE CopyOpen(p)
  BY <1>5 DEF CopyOpen, Goto, TypeOK, ghosts, Point, Lines, NoLines
<1>6. CASE CopyFails(p)
  BY <1>6 DEF CopyFails, Goto, TypeOK, ghosts, files, Point
<1>7. CASE CopyWrite(p)
  BY <1>7 DEF CopyWrite, Goto, TypeOK, ghosts, Point, AtPoint
<1>8. CASE RemoveTmp(p)
  BY <1>8 DEF RemoveTmp, Goto, TypeOK, ghosts, Point, Lines, NoLines
<1>9. CASE EnsureCrontab(p)
  BY <1>9, CrontabAssumption DEF EnsureCrontab, Goto, TypeOK, ghosts, Point
<1>10. CASE SedRead(p)
  BY <1>10, LinesFacts DEF SedRead, Goto, TypeOK, ghosts, files, Point
<1>11. CASE SedRename(p)
  BY <1>11 DEF SedRename, Goto, TypeOK, ghosts, Point, AtPoint
<1>12. CASE CheckCrond(p)
  BY <1>12 DEF CheckCrond, Goto, TypeOK, ghosts, files, Point
<1>13. CASE AppendLine(p)
  <2>1. [crontab EXCEPT ![Own(op[p])] = @ + 1] \in Lines
    BY DEF TypeOK, Lines
  <2>2. left[p] - 1 \in Nat
    BY <1>13 DEF AppendLine, Goto, AtPoint, TypeOK
  <2>3. QED
    BY <1>13, <2>1, <2>2, CrontabAssumption
       DEF AppendLine, Goto, TypeOK, ghosts, Point
<1>14. CASE RestartCrond(p)
  BY <1>14 DEF RestartCrond, Goto, TypeOK, ghosts, files, Point
<1>15. CASE Finish(p)
  BY <1>15 DEF Finish, Goto, TypeOK, ghosts, files, Point
<1>16. QED
  BY <1>1, <1>2, <1>3, <1>4, <1>5, <1>6, <1>7, <1>8, <1>9, <1>10, <1>11,
     <1>12, <1>13, <1>14, <1>15 DEF Step
-----------------------------------------------------------------------------
(***************************************************************************)
(* The control facts AtPoint.                                              *)
(***************************************************************************)
\* They survive a step of another script: its files only appear, and crond,
\* once it runs over a crontab, is not stopped.
LEMMA AtPointFrame ==
  ASSUME NEW q \in Proc, AtPoint(q),
         pc'[q] = pc[q], op'[q] = op[q], left'[q] = left[q],
         want'[q] = want[q],
         hasCrontab => hasCrontab',
         (crond <=> HasDir) => (crond' <=> HasDir)
  PROVE  AtPoint(q)'
BY DEF AtPoint, Running

\* They hold of a script after each of its own steps.
LEMMA AtPointOwn ==
  ASSUME IInv, NEW p \in Proc, Step(p), TypeOK'
  PROVE  AtPoint(p)'
<1> USE DEF Goto
<1> op[p] \in Op /\ Own(op[p]) \in Tag /\ want[p] \in Nat /\ left[p] \in Nat
  BY OpFacts DEF IInv, TypeOK
<1> AtPoint(p) /\ TypeOK
  BY DEF IInv
<1>0. Running(p) => op[p] \in Op /\ want[p] \in Adds(op[p])
  BY DEF AtPoint
<1>1. ASSUME NEW o \in Op, NEW n \in Adds(o), Start(p, o, n)
      PROVE  AtPoint(p)'
  <2>1. pc'[p] = (IF o \in InPlace THEN "ensure" ELSE "blank")
        /\ op'[p] = o /\ left'[p] = n /\ want'[p] = n
    BY <1>1 DEF Start, TypeOK
  <2>2. o \in InPlace => n = 1 /\ o \notin Removals
    BY OpFacts DEF InPlace, Removals
  <2>3. QED
    BY <2>1, <2>2 DEF AtPoint, Running
<1>2. CASE BlankTmp(p)
  BY <1>2 DEF BlankTmp, AtPoint, TypeOK, ghosts, Running
<1>3. CASE FilterToTmp(p)
  BY <1>3 DEF FilterToTmp, AtPoint, TypeOK, ghosts, Running
<1>4. CASE NothingToFilter(p)
  BY <1>4 DEF NothingToFilter, AtPoint, TypeOK, ghosts, files, Running
<1>5. CASE CopyOpen(p)
  BY <1>5 DEF CopyOpen, AtPoint, TypeOK, ghosts, Running
<1>6. CASE CopyFails(p)
  BY <1>6 DEF CopyFails, AtPoint, TypeOK, ghosts, files, Running
<1>7. CASE CopyWrite(p)
  BY <1>7 DEF CopyWrite, AtPoint, TypeOK, ghosts, Running
<1>8. CASE RemoveTmp(p)
  <2>1. /\ pc[p] = "rmtmp" /\ left[p] = want[p] /\ want[p] \in Adds(op[p])
        /\ op'[p] = op[p] /\ left'[p] = left[p] /\ want'[p] = want[p]
    BY <1>8, <1>0 DEF RemoveTmp, AtPoint, ghosts, Running
  <2>2. CASE op[p] \in Removals \/ (op[p] = "INIT_TIMER_REBOOT" /\ left[p] = 0)
    <3>1. pc'[p] = "done" /\ left[p] = 0 /\ op[p] # "RESET_TIMER_REBOOT"
      BY <1>8, <2>1, <2>2, OpFacts DEF RemoveTmp, TypeOK, Removals
    <3>2. QED
      BY <2>1, <3>1 DEF AtPoint, Running
  <2>3. CASE ~(op[p] \in Removals \/ (op[p] = "INIT_TIMER_REBOOT" /\ left[p] = 0))
    <3>1. pc'[p] = "ensure"
      BY <1>8, <2>3 DEF RemoveTmp, TypeOK
    <3>2. op[p] # "DN_RESET" => left[p] = 1
      BY <2>1, <2>3, OpFacts DEF Op, Removals, InPlace, Reboots
    <3>3. QED
      BY <2>1, <2>3, <3>1, <3>2 DEF AtPoint, Running
  <2>4. QED
    BY <2>2, <2>3
<1>9. CASE EnsureCrontab(p)
  <2>1. HasDir => hasCrontab'
    BY <1>9 DEF EnsureCrontab
  <2>2. op[p] \in InPlace => op[p] # "DN_RESET"
    BY DEF InPlace
  <2>3. QED
    BY <1>9, <2>1, <2>2 DEF EnsureCrontab, AtPoint, TypeOK, ghosts, Running
<1>10. CASE SedRead(p)
  BY <1>10 DEF SedRead, AtPoint, TypeOK, ghosts, files, Running, InPlace,
        Removals
<1>11. CASE SedRename(p)
  BY <1>11 DEF SedRename, AtPoint, TypeOK, ghosts, Running, InPlace, Removals
<1>12. CASE CheckCrond(p)
  BY <1>12 DEF CheckCrond, AtPoint, TypeOK, ghosts, files, Running
<1>13. CASE AppendLine(p)
  <2>1. pc[p] = "append" /\ left[p] \in 1..want[p] /\ left'[p] = left[p] - 1
        /\ op'[p] = op[p] /\ want'[p] = want[p]
        /\ op[p] \notin Removals /\ want[p] \in Adds(op[p])
        /\ pc'[p] \in {"append", "restart", "done"}
    BY <1>13, <1>0 DEF AppendLine, AtPoint, TypeOK, ghosts, Running
  <2>2. HasDir => hasCrontab'
    BY <1>13 DEF AppendLine
  <2>3. pc'[p] = "append" => left'[p] \in 1..want[p]
    BY <1>13, <2>1 DEF AppendLine, TypeOK
  <2>4. pc'[p] \in {"restart", "done"} => left'[p] = 0
    BY <1>13, <2>1 DEF AppendLine, TypeOK
  <2>5. pc'[p] = "done" => op[p] # "RESET_TIMER_REBOOT"
    BY <1>13, <2>1 DEF AppendLine, TypeOK, Reboots
  <2>6. QED
    BY <2>1, <2>2, <2>3, <2>4, <2>5 DEF AtPoint, Running
<1>14. CASE RestartCrond(p)
  <2>1. crond' <=> HasDir
    BY <1>14 DEF RestartCrond, AtPoint, TypeOK
  <2>2. QED
    BY <1>14, <2>1 DEF RestartCrond, AtPoint, TypeOK, ghosts, files, Running
<1>15. CASE Finish(p)
  BY <1>15 DEF Finish, AtPoint, TypeOK, ghosts, files, Running
<1>16. QED
  BY <1>1, <1>2, <1>3, <1>4, <1>5, <1>6, <1>7, <1>8, <1>9, <1>10, <1>11,
     <1>12, <1>13, <1>14, <1>15 DEF Step
-----------------------------------------------------------------------------
(***************************************************************************)
(* The edit of a script that runs alone.                                   *)
(***************************************************************************)
\* With nothing appended yet, the edit is the removal.
LEMMA EditedZero ==
  ASSUME NEW lines \in Lines, NEW o, Own(o) \in Tag,
         ~HasDir => lines = NoLines
  PROVE  Without(lines, Own(o)) = Edited(lines, o, 0)
<1>1. CASE HasDir
  BY <1>1 DEF Edited, Without
<1>2. CASE ~HasDir
  <2>1. lines = NoLines /\ Edited(lines, o, 0) = NoLines
    BY <1>2 DEF Edited
  <2>2. Without(NoLines, Own(o)) = NoLines
    BY LinesFacts
  <2>3. QED
    BY <2>1, <2>2
<1>3. QED
  BY <1>1, <1>2, CrontabAssumption

\* Its own steps keep Progress.
LEMMA ProgressOwn ==
  ASSUME IInv, NEW p \in Proc, Step(p), TypeOK',
         alone'[p], Running(p)'
  PROVE  Progress(p)'
<1> USE DEF Goto
<1> op[p] \in Op /\ Own(op[p]) \in Tag /\ want[p] \in Nat /\ left[p] \in Nat
    /\ old[p] \in Lines /\ crontab \in Lines
  BY OpFacts DEF IInv, TypeOK
<1> AtPoint(p) /\ TypeOK
  BY DEF IInv
<1>0. ASSUME pc[p] # "idle", alone[p] PROVE Progress(p)
  BY <1>0 DEF IInv, Running
<1>1. ASSUME NEW o \in Op, NEW n \in Adds(o), Start(p, o, n)
      PROVE  Progress(p)'
  <2>1. pc'[p] = (IF o \in InPlace THEN "ensure" ELSE "blank")
        /\ op'[p] = o /\ old'[p] = crontab /\ crontab' = crontab
        /\ hasCrontab' = hasCrontab
    BY <1>1 DEF Start, TypeOK, files
  <2>2. QED
    BY <2>1 DEF Progress, TypeOK
<1>2. CASE BlankTmp(p)
  BY <1>2, <1>0 DEF BlankTmp, Progress, TypeOK, ghosts
<1>3. CASE FilterToTmp(p)
  BY <1>3, <1>0 DEF FilterToTmp, Progress, TypeOK, ghosts
<1>4. CASE NothingToFilter(p)
  <2>1. /\ pc[p] = "filter" /\ pc'[p] = "rmtmp" /\ alone[p] /\ ~hasCrontab
        /\ crontab' = crontab /\ op'[p] = op[p] /\ old'[p] = old[p]
    BY <1>4 DEF NothingToFilter, TypeOK, ghosts, files
  <2>2. crontab = NoLines /\ old[p] = NoLines /\ Progress(p)
    BY <1>0, <2>1 DEF Progress, TypeOK
  <2>3. Without(NoLines, Own(op[p])) = NoLines
    BY LinesFacts
  <2>4. QED
    BY <2>1, <2>2, <2>3 DEF Progress
<1>5. CASE CopyOpen(p)
  BY <1>5, <1>0 DEF CopyOpen, Progress, TypeOK, ghosts
<1>6. CASE CopyFails(p)
  BY <1>6, <1>0 DEF CopyFails, Progress, TypeOK, ghosts, files
<1>7. CASE CopyWrite(p)
  BY <1>7, <1>0 DEF CopyWrite, Progress, TypeOK, ghosts
<1>8. CASE RemoveTmp(p)
  <2>1. /\ pc[p] = "rmtmp" /\ pc'[p] \in {"done", "ensure"}
        /\ crontab' = crontab /\ op'[p] = op[p] /\ left'[p] = left[p]
        /\ old'[p] = old[p] /\ want'[p] = want[p] /\ hasCrontab' = hasCrontab
        /\ left[p] = want[p] /\ op[p] \notin InPlace
    BY <1>8 DEF RemoveTmp, AtPoint, TypeOK, ghosts
  <2>2. Progress(p) /\ crontab = Without(old[p], Own(op[p]))
    BY <1>0, <1>8, <2>1 DEF Progress, RemoveTmp, ghosts
  <2>3. crontab = Edited(old[p], op[p], 0)
    BY <2>2, EditedZero DEF Progress
  <2>4. want[p] - left[p] = 0
    BY <2>1
  <2>5. QED
    BY <2>1, <2>2, <2>3, <2>4 DEF Progress, Edited
<1>9. CASE EnsureCrontab(p)
  <2>1. /\ pc[p] = "ensure" /\ pc'[p] \in {"sedread", "ps", "append"}
        /\ pc'[p] = "sedread" <=> op[p] \in InPlace
        /\ crontab' = crontab /\ op'[p] = op[p] /\ left'[p] = left[p]
        /\ old'[p] = old[p] /\ want'[p] = want[p] /\ left[p] = want[p]
        /\ alone[p]
    BY <1>9 DEF EnsureCrontab, AtPoint, TypeOK, ghosts
  <2>2. Progress(p)
    BY <1>0, <2>1
  <2>3. op[p] \notin InPlace => crontab = Edited(old[p], op[p], 0)
    BY <2>1, <2>2, EditedZero DEF Progress
  <2>4. want[p] - left[p] = 0
    BY <2>1
  <2>5. QED
    BY <2>1, <2>2, <2>3, <2>4 DEF Progress, Edited
<1>10. CASE SedRead(p)
  <2>1. /\ pc[p] = "sedread" /\ alone[p]
        /\ pc'[p] = (IF hasCrontab THEN "sedrename" ELSE "append")
        /\ buf'[p] = Without(crontab, Own(op[p])) /\ op[p] \in InPlace
        /\ crontab' = crontab /\ op'[p] = op[p] /\ left'[p] = left[p]
        /\ old'[p] = old[p] /\ want'[p] = want[p] /\ left[p] = want[p]
    BY <1>10 DEF SedRead, AtPoint, TypeOK, ghosts, files
  <2>2. Progress(p) /\ crontab = old[p]
    BY <1>0, <2>1 DEF Progress
  <2>3. ~hasCrontab => ~HasDir /\ crontab = NoLines
    BY <2>1 DEF AtPoint, TypeOK
  <2>4. QED
    BY <2>1, <2>2, <2>3 DEF Progress, Edited
<1>11. CASE SedRename(p)
  <2>1. /\ pc[p] = "sedrename" /\ alone[p] /\ pc'[p] = "append"
        /\ crontab' = buf[p] /\ op'[p] = op[p] /\ left'[p] = left[p]
        /\ old'[p] = old[p] /\ want'[p] = want[p] /\ left[p] = want[p]
    BY <1>11 DEF SedRename, AtPoint, TypeOK, ghosts
  <2>2. Progress(p) /\ buf[p] = Without(old[p], Own(op[p]))
    BY <1>0, <2>1 DEF Progress
  <2>3. crontab' = Edited(old[p], op[p], 0)
    BY <2>1, <2>2, EditedZero DEF Progress
  <2>4. want[p] - left[p] = 0
    BY <2>1
  <2>5. QED
    BY <2>1, <2>2, <2>3, <2>4 DEF Progress, Edited
<1>12. CASE CheckCrond(p)
  <2>1. /\ pc[p] = "ps" /\ alone[p] /\ pc'[p] \in {"done", "append"}
        /\ crontab' = crontab /\ op'[p] = op[p] /\ left'[p] = left[p]
        /\ old'[p] = old[p] /\ want'[p] = want[p] /\ left[p] = want[p]
    BY <1>12 DEF CheckCrond, AtPoint, TypeOK, ghosts, files
  <2>2. Progress(p) /\ crontab = Without(old[p], Own(op[p]))
    BY <1>0, <2>1 DEF Progress
  <2>3. crontab' = Edited(old[p], op[p], 0)
    BY <2>1, <2>2, EditedZero DEF Progress
  <2>4. want[p] - left[p] = 0
    BY <2>1
  <2>5. QED
    BY <2>1, <2>2, <2>3, <2>4 DEF Progress, Edited
<1>13. CASE AppendLine(p)
  <2> DEFINE k == want[p] - left[p]
  <2>1. /\ pc[p] = "append" /\ alone[p]
        /\ pc'[p] \in {"append", "restart", "done"}
        /\ op'[p] = op[p] /\ left'[p] = left[p] - 1 /\ left[p] \in 1..want[p]
        /\ old'[p] = old[p] /\ want'[p] = want[p]
    BY <1>13 DEF AppendLine, AtPoint, TypeOK, ghosts
  <2>2. crontab' = IF HasDir THEN [crontab EXCEPT ![Own(op[p])] = @ + 1]
                             ELSE crontab
    BY <1>13 DEF AppendLine
  <2>3. Progress(p) /\ crontab = Edited(old[p], op[p], k)
    BY <1>0, <2>1 DEF Progress
  <2>4. k \in Nat /\ want'[p] - left'[p] = k + 1
    BY <2>1
  <2>5. crontab' = Edited(old[p], op[p], k + 1)
    BY <2>2, <2>3, <2>4, LinesFacts DEF Edited
  <2>6. QED
    BY <2>1, <2>3, <2>4, <2>5 DEF Progress, Edited
<1>14. CASE RestartCrond(p)
  BY <1>14, <1>0 DEF RestartCrond, Progress, Edited, TypeOK, ghosts, files
<1>15. CASE Finish(p)
  BY <1>15 DEF Finish, TypeOK, Running
<1>16. QED
  BY <1>1, <1>2, <1>3, <1>4, <1>5, <1>6, <1>7, <1>8, <1>9, <1>10, <1>11,
     <1>12, <1>13, <1>14, <1>15 DEF Step
-----------------------------------------------------------------------------
(***************************************************************************)
(* The inductive invariant.                                                *)
(***************************************************************************)
\* It holds before any script has run.
LEMMA InitIInv == Init => IInv
<1> SUFFICES ASSUME Init PROVE IInv
  OBVIOUS
<1>1. TypeOK
  BY CrontabAssumption
     DEF Init, TypeOK, Lines, NoLines, Op, Reboots, InPlace, Removals, Point
<1>2. QED
  BY <1>1 DEF Init, IInv, TmpIsTransient, AtPoint, Running

\* A step of a script leaves the control state of the others alone and
\* creates files; it runs alone afterwards only if all others are idle.
LEMMA StepFrame ==
  ASSUME IInv, NEW p \in Proc, Step(p)
  PROVE  /\ \A q \in Proc \ {p} :
              /\ pc'[q] = pc[q] /\ op'[q] = op[q] /\ left'[q] = left[q]
              /\ want'[q] = want[q]
              /\ ~(alone'[q] /\ Running(q)')
         /\ alone'[p] => \A q \in Proc \ {p} : ~Running(q)'
         /\ hasCrontab => hasCrontab'
         /\ (crond <=> HasDir) => (crond' <=> HasDir)
         /\ crond' => hasCrontab'
<1> TypeOK /\ (crond => hasCrontab) /\ (~HasDir => ~hasCrontab)
  BY DEF IInv, TypeOK
<1> DEFINE
      Others == \A q \in Proc \ {p} :
                  /\ pc'[q] = pc[q] /\ op'[q] = op[q] /\ left'[q] = left[q]
                  /\ want'[q] = want[q]
                  /\ ~(alone'[q] /\ Running(q)')
      Mine == alone'[p] => \A q \in Proc \ {p} : ~Running(q)'
      Files == /\ hasCrontab => hasCrontab'
               /\ (crond <=> HasDir) => (crond' <=> HasDir)
               /\ crond' => hasCrontab'
<1>1. ASSUME Running(p), alone' = alone, want' = want,
             \A q \in Proc \ {p} :
               pc'[q] = pc[q] /\ op'[q] = op[q] /\ left'[q] = left[q]
      PROVE  Others /\ Mine
  BY <1>1 DEF IInv, Running
<1>2. ASSUME NEW o \in Op, NEW n \in Adds(o), Start(p, o, n)
      PROVE  Others /\ Mine /\ Files
  BY <1>2 DEF Start, Goto, TypeOK, files, Running
<1>3. ASSUME BlankTmp(p) PROVE Others /\ Mine /\ Files
  <2>1. Files
    BY <1>3 DEF BlankTmp, TypeOK, files
  <2>2. QED
    BY <1>3, <1>1, <2>1 DEF BlankTmp, Goto, TypeOK, ghosts, files, Running
<1>4. ASSUME FilterToTmp(p) PROVE Others /\ Mine /\ Files
  <2>1. Files
    BY <1>4 DEF FilterToTmp, TypeOK, files
  <2>2. QED
    BY <1>4, <1>1, <2>1 DEF FilterToTmp, Goto, TypeOK, ghosts, files, Running
<1>5. ASSUME NothingToFilter(p) PROVE Others /\ Mine /\ Files
  <2>1. Files
    BY <1>5 DEF NothingToFilter, TypeOK, files
  <2>2. QED
    BY <1>5, <1>1, <2>1 DEF NothingToFilter, Goto, TypeOK, ghosts, files, Running
<1>6. ASSUME CopyOpen(p) PROVE Others /\ Mine /\ Files
  <2>1. Files
    BY <1>6 DEF CopyOpen, TypeOK, files
  <2>2. QED
    BY <1>6, <1>1, <2>1 DEF CopyOpen, Goto, TypeOK, ghosts, files, Running
<1>7. ASSUME CopyFails(p) PROVE Others /\ Mine /\ Files
  <2>1. Files
    BY <1>7 DEF CopyFails, TypeOK, files
  <2>2. QED
    BY <1>7, <1>1, <2>1 DEF CopyFails, Goto, TypeOK, ghosts, files, Running
<1>8. ASSUME CopyWrite(p) PROVE Others /\ Mine /\ Files
  <2>1. Files
    BY <1>8 DEF CopyWrite, TypeOK, files
  <2>2. QED
    BY <1>8, <1>1, <2>1 DEF CopyWrite, Goto, TypeOK, ghosts, files, Running
<1>9. ASSUME RemoveTmp(p) PROVE Others /\ Mine /\ Files
  <2>1. Files
    BY <1>9 DEF RemoveTmp, TypeOK, files
  <2>2. QED
    BY <1>9, <1>1, <2>1 DEF RemoveTmp, Goto, TypeOK, ghosts, files, Running
<1>10. ASSUME EnsureCrontab(p) PROVE Others /\ Mine /\ Files
  <2>1. Files
    BY <1>10, CrontabAssumption DEF EnsureCrontab, TypeOK, files
  <2>2. QED
    BY <1>10, <1>1, <2>1 DEF EnsureCrontab, Goto, TypeOK, ghosts, files, Running
<1>11. ASSUME SedRead(p) PROVE Others /\ Mine /\ Files
  <2>1. Files
    BY <1>11 DEF SedRead, TypeOK, files
  <2>2. QED
    BY <1>11, <1>1, <2>1 DEF SedRead, Goto, TypeOK, ghosts, files, Running
<1>12. ASSUME SedRename(p) PROVE Others /\ Mine /\ Files
  <2>1. Files
    BY <1>12 DEF SedRename, TypeOK, files
  <2>2. QED
    BY <1>12, <1>1, <2>1 DEF SedRename, Goto, TypeOK, ghosts, files, Running
<1>13. ASSUME CheckCrond(p) PROVE Others /\ Mine /\ Files
  <2>1. Files
    BY <1>13 DEF CheckCrond, TypeOK, files
  <2>2. QED
    BY <1>13, <1>1, <2>1 DEF CheckCrond, Goto, TypeOK, ghosts, files, Running
<1>14. ASSUME AppendLine(p) PROVE Others /\ Mine /\ Files
  <2>1. Files
    BY <1>14, CrontabAssumption DEF AppendLine, TypeOK, files
  <2>2. QED
    BY <1>14, <1>1, <2>1 DEF AppendLine, Goto, TypeOK, ghosts, files, Running
<1>15. ASSUME RestartCrond(p) PROVE Others /\ Mine /\ Files
  <2>1. Files
    BY <1>15 DEF RestartCrond, TypeOK, files
  <2>2. QED
    BY <1>15, <1>1, <2>1 DEF RestartCrond, Goto, TypeOK, ghosts, files, Running
<1>16. ASSUME Finish(p) PROVE Others /\ Mine /\ Files
  <2>1. Files
    BY <1>16 DEF Finish, TypeOK, files
  <2>2. QED
    BY <1>16, <1>1, <2>1 DEF Finish, Goto, TypeOK, ghosts, files, Running
<1>17. QED
  BY <1>2, <1>3, <1>4, <1>5, <1>6, <1>7, <1>8, <1>9,
     <1>10, <1>11, <1>12, <1>13, <1>14, <1>15, <1>16 DEF Step
\* The temporary file has an owner after every step: whoever writes it is on
\* its way to the rm, and every other script's rm takes the file with it.
LEMMA StepTmp ==
  ASSUME TypeOK, TmpIsTransient, NEW p \in Proc, Step(p)
  PROVE  TmpIsTransient'
<1> DEFINE Holding == {"filter", "cpopen", "cpwrite", "rmtmp"}
<1> USE DEF Goto, TypeOK, TmpIsTransient
<1>1. ASSUME hasTmp', pc'[p] \in Holding PROVE TmpIsTransient'
  BY <1>1
<1>2. ASSUME hasTmp' = hasTmp, pc[p] \notin Holding,
             \A q \in Proc \ {p} : pc'[q] = pc[q]
      PROVE  TmpIsTransient'
  BY <1>2
<1>3. ASSUME ~hasTmp' PROVE TmpIsTransient'
  BY <1>3
<1>4. ASSUME NEW o \in Op, NEW n \in Adds(o), Start(p, o, n)
      PROVE  TmpIsTransient'
  BY <1>4, <1>2 DEF Start, files
<1>5. CASE BlankTmp(p)
  BY <1>5, <1>1 DEF BlankTmp
<1>6. CASE FilterToTmp(p) \/ NothingToFilter(p) \/ CopyOpen(p) \/ CopyFails(p)
           \/ CopyWrite(p)
  BY <1>6, <1>1, <1>3
     DEF FilterToTmp, NothingToFilter, CopyOpen, CopyFails, CopyWrite
<1>7. CASE RemoveTmp(p)
  BY <1>7, <1>3 DEF RemoveTmp
<1>8. CASE EnsureCrontab(p) \/ SedRead(p) \/ SedRename(p) \/ CheckCrond(p)
  BY <1>8, <1>2 DEF EnsureCrontab, SedRead, SedRename, CheckCrond, files
<1>9. CASE AppendLine(p) \/ RestartCrond(p) \/ Finish(p)
  BY <1>9, <1>2 DEF AppendLine, RestartCrond, Finish, files
<1>10. QED
  BY <1>4, <1>5, <1>6, <1>7, <1>8, <1>9 DEF Step

\* IInv is inductive.
LEMMA NextIInv == IInv /\ [Next]_vars => IInv'
<1> SUFFICES ASSUME IInv, [Next]_vars PROVE IInv'
  OBVIOUS
<1>1. ASSUME NEW p \in Proc, Step(p) PROVE IInv'
  <2>1. TypeOK'
    BY <1>1, StepTypeOK DEF IInv
  <2>2. (crond => hasCrontab)'
    BY <1>1, StepFrame
  <2>3. TmpIsTransient'
    BY <1>1, StepTmp DEF IInv
  <2>4. ASSUME NEW q \in Proc PROVE AtPoint(q)'
    <3>1. CASE q = p
      BY <1>1, <2>1, <3>1, AtPointOwn
    <3>2. CASE q # p
      BY <1>1, <3>2, StepFrame, AtPointFrame DEF IInv
    <3>3. QED
      BY <3>1, <3>2
  <2>5. ASSUME NEW r \in Proc, NEW q \in Proc, r # q, alone'[r], Running(r)'
        PROVE  ~Running(q)'
    BY <1>1, <2>5, StepFrame
  <2>6. ASSUME NEW q \in Proc, alone'[q], Running(q)' PROVE Progress(q)'
    <3>1. q = p
      BY <1>1, <2>6, StepFrame
    <3>2. QED
      BY <1>1, <2>1, <2>6, <3>1, ProgressOwn
  <2>7. QED
    BY <2>1, <2>2, <2>3, <2>4, <2>5, <2>6 DEF IInv
<1>2. CASE PowerCycle
  <2>1. TypeOK'
    BY <1>2 DEF PowerCycle, IInv, TypeOK, ghosts, Point, Lines, NoLines
  <2>2. QED
    BY <1>2, <2>1
       DEF PowerCycle, IInv, TmpIsTransient, AtPoint, Running
<1>3. CASE UNCHANGED vars
  BY <1>3 DEF vars, IInv, TypeOK, TmpIsTransient, AtPoint, Progress, Running
<1>4. QED
  BY <1>1, <1>2, <1>3 DEF Next

LEMMA SpecIInv == Spec => []IInv
BY InitIInv, NextIInv, PTL DEF Spec

-----------------------------------------------------------------------------
(***************************************************************************)
(* The refinement.                                                         *)
(***************************************************************************)
\* A script that runs alone is the only one, and the edit is its own.
LEMMA LoneStage ==
  ASSUME IInv, NEW p \in Proc, Running(p), alone[p]
  PROVE  /\ Alone = {p} /\ asked = <<Own(op[p]), want[p]>>
         /\ stage = IF pc[p] = "done" THEN "made" ELSE "doing"
         /\ meant = IF pc[p] = "done" THEN crontab ELSE old[p]
<1>1. Alone = {p}
  BY DEF IInv, Alone
<1>2. Only = p
  BY <1>1 DEF Alone, Only
<1>3. stage = IF pc[p] = "done" THEN "made" ELSE "doing"
  BY <1>1, <1>2 DEF stage
<1>4. QED
  BY <1>1, <1>2, <1>3 DEF asked, meant

LEMMA LoneStageNext ==
  ASSUME IInv', NEW p \in Proc, Running(p)', alone'[p]
  PROVE  /\ Alone' = {p} /\ asked' = <<Own(op'[p]), want'[p]>>
         /\ stage' = IF pc'[p] = "done" THEN "made" ELSE "doing"
         /\ meant' = IF pc'[p] = "done" THEN crontab' ELSE old'[p]
<1>1. Alone' = {p}
  BY DEF IInv, Alone
<1>2. Only' = p
  BY <1>1 DEF Alone, Only
<1>3. stage' = IF pc'[p] = "done" THEN "made" ELSE "doing"
  BY <1>1, <1>2 DEF stage
<1>4. QED
  BY <1>1, <1>2, <1>3 DEF asked, meant

\* If none runs alone, no edit is under way, or several are.
LEMMA OtherStage ==
  ASSUME \A p \in Proc : ~(Running(p) /\ alone[p])
  PROVE  /\ asked = <<>> /\ meant = crontab
         /\ stage = IF \A p \in Proc : ~Running(p) THEN "rest" ELSE "open"
BY DEF Alone, asked, meant, stage

LEMMA OtherStageNext ==
  ASSUME \A p \in Proc : ~(Running(p) /\ alone[p])'
  PROVE  /\ asked' = <<>> /\ meant' = crontab'
         /\ stage' = IF \A p \in Proc : ~Running(p)' THEN "rest" ELSE "open"
BY DEF Alone, asked, meant, stage

\* A step of a script is its start, its end, or neither.
LEMMA StepKind ==
  ASSUME TypeOK, NEW p \in Proc, Step(p)
  PROVE  \/ \E o \in Op : \E n \in Adds(o) : Start(p, o, n)
         \/ /\ Running(p) /\ UNCHANGED <<op, old, want, alone>>
            /\ pc[p] = "done" <=> pc'[p] = "idle"
            /\ pc[p] = "done" => crontab' = crontab
<1> USE DEF Goto, TypeOK, Running, ghosts
<1>1. CASE BlankTmp(p) \/ FilterToTmp(p) \/ NothingToFilter(p)
  BY <1>1 DEF BlankTmp, FilterToTmp, NothingToFilter
<1>2. CASE CopyOpen(p) \/ CopyFails(p) \/ CopyWrite(p) \/ RemoveTmp(p)
  BY <1>2 DEF CopyOpen, CopyFails, CopyWrite, RemoveTmp
<1>3. CASE EnsureCrontab(p) \/ SedRead(p) \/ SedRename(p) \/ CheckCrond(p)
  BY <1>3 DEF EnsureCrontab, SedRead, SedRename, CheckCrond
<1>4. CASE AppendLine(p) \/ RestartCrond(p) \/ Finish(p)
  BY <1>4 DEF AppendLine, RestartCrond, Finish, files
<1>5. QED
  BY <1>1, <1>2, <1>3, <1>4 DEF Step

\* A start begins an edit, or an overlap.
LEMMA StartEdits ==
  ASSUME IInv, IInv', NEW p \in Proc, NEW o \in Op, NEW n \in Adds(o), Start(p, o, n), Step(p)
  PROVE  E!Next
<1>1. /\ Running(p)' /\ ~Running(p) /\ crontab' = crontab
      /\ op'[p] = o /\ want'[p] = n /\ old'[p] = crontab
      /\ alone' = [q \in Proc |-> q = p /\ \A r \in Proc \ {p} : ~Running(r)]
      /\ pc'[p] # "done"
  BY DEF Start, Goto, IInv, TypeOK, files, Running
<1>2. \A q \in Proc \ {p} : Running(q)' <=> Running(q)
  BY StepFrame DEF Running
<1>3. CASE \A q \in Proc : ~Running(q)
  <2>1. alone'[p]
    BY <1>1, <1>3
  <2>2. stage' = "doing" /\ meant' = crontab /\ asked' = <<Own(o), n>>
    BY <1>1, <2>1, LoneStageNext
  <2>3. stage = "rest" /\ meant = crontab
    BY <1>3, OtherStage
  <2>4. <<Own(o), n>> \in UNION {{<<Own(c), k>> : k \in Adds(c)} : c \in Op}
    OBVIOUS
  <2>5. QED
    BY <2>2, <2>3, <2>4 DEF E!Next, E!Begin
<1>4. CASE \E q \in Proc : Running(q)
  <2>1. stage' = "open" /\ asked' = <<>> /\ meant' = crontab
    BY <1>1, <1>4, OtherStageNext
  <2>2. stage # "rest"
    BY <1>4 DEF stage
  <2>3. crontab \in E!Lines
    BY DEF IInv, TypeOK, Lines, E!Lines
  <2>4. QED
    BY <2>1, <2>2, <2>3 DEF E!Next, E!Overlap
<1>5. QED
  BY <1>3, <1>4

\* What a script that runs alone does in the end is what it was asked for.
LEMMA LoneEdits ==
  ASSUME IInv, IInv', NEW p \in Proc, Step(p), Running(p), alone[p],
         UNCHANGED <<op, old, want, alone>>,
         pc[p] = "done" <=> pc'[p] = "idle", pc[p] = "done" => crontab' = crontab
  PROVE  [E!Next]_(E!vars)
<1>1. \A q \in Proc \ {p} : ~Running(q) /\ ~Running(q)'
  BY StepFrame DEF IInv, Running
<1>2. CASE pc[p] = "done"
  <2>1. stage' = "rest" /\ asked' = <<>> /\ meant' = crontab
    BY <1>1, <1>2, OtherStageNext DEF Running
  <2>2. stage = "made" /\ meant = crontab
    BY <1>2, LoneStage
  <2>3. QED
    BY <2>1, <2>2 DEF E!Next, E!End, E!Rest
<1>3. CASE pc'[p] = "done"
  <2>1. Running(p)'
    BY <1>3 DEF Running
  <2>2. stage' = "made" /\ meant' = crontab' /\ asked' = asked
    BY <1>3, <2>1, LoneStage, LoneStageNext
  <2>3. stage = "doing" /\ meant = old[p] /\ asked = <<Own(op[p]), want[p]>>
    BY <1>3, LoneStage DEF Running
  <2>4. crontab' = Edited(old[p], op[p], want[p])
    <3>1. Progress(p)' /\ left'[p] = 0 /\ want[p] \in Nat
      BY <1>3, <2>1 DEF IInv, AtPoint, TypeOK
    <3>2. want'[p] - left'[p] = want[p]
      BY <3>1
    <3>3. QED
      BY <1>3, <3>1, <3>2 DEF Progress
  <2>5. ~HasDir => old[p] = NoLines
    BY DEF IInv, Progress
  <2>6. QED
    BY <2>2, <2>3, <2>4, <2>5 DEF E!Next, E!Make, E!With, Edited
<1>4. CASE pc[p] # "done" /\ pc'[p] # "done"
  <2>1. Running(p)'
    BY <1>4 DEF Running
  <2>2. QED
    BY <1>4, <2>1, LoneStage, LoneStageNext DEF E!vars
<1>5. QED
  BY <1>2, <1>3, <1>4

\* Scripts that overlap leave the crontab open until the last one has ended.
LEMMA OverlapEdits ==
  ASSUME IInv, IInv', NEW p \in Proc, Step(p), Running(p), ~alone[p], UNCHANGED alone
  PROVE  E!Next
<1>1. \A q \in Proc : ~(Running(q) /\ alone[q])
  BY DEF IInv
<1>2. \A q \in Proc : ~(Running(q) /\ alone[q])'
  BY <1>1, StepFrame DEF Running
<1>3. stage = "open"
  BY <1>1, OtherStage
<1>4. asked' = <<>> /\ meant' = crontab' /\ stage' \in {"rest", "open"}
  BY <1>2, OtherStageNext
<1>5. crontab' \in E!Lines
  BY DEF IInv, TypeOK, Lines, E!Lines
<1>6. QED
  BY <1>3, <1>4, <1>5 DEF E!Next, E!Overlap, E!Settle, E!Rest

\* If the power goes, an edit has not begun, is half made, or is made.
LEMMA PowerEdits ==
  ASSUME IInv, IInv', PowerCycle
  PROVE  [E!Next]_(E!vars)
<1>1. stage' = "rest" /\ asked' = <<>> /\ meant' = crontab
  BY OtherStageNext DEF PowerCycle, Running
<1>2. crontab \in E!Lines
  BY DEF IInv, TypeOK, Lines, E!Lines
<1>3. CASE \A p \in Proc : ~(Running(p) /\ alone[p])
  BY <1>1, <1>2, <1>3, OtherStage DEF E!Next, E!Settle, E!Rest, E!vars
<1>4. ASSUME NEW p \in Proc, Running(p), alone[p], pc[p] = "done" PROVE E!Next
  BY <1>1, <1>4, LoneStage DEF E!Next, E!End, E!Rest
<1>5. ASSUME NEW p \in Proc, Running(p), alone[p], pc[p] # "done" PROVE E!Next
  <2>1. stage = "doing" /\ meant = old[p] /\ asked = <<Own(op[p]), want[p]>>
    BY <1>5, LoneStage
  <2>2. /\ Progress(p) /\ AtPoint(p) /\ pc[p] \in Point /\ pc[p] # "idle"
        /\ want[p] \in Nat /\ left[p] \in Nat /\ old[p] \in Lines /\ op[p] \in Op
    BY <1>5 DEF IInv, TypeOK, Running
  <2>3. ~HasDir => crontab = NoLines /\ old[p] = NoLines
    BY <2>2 DEF IInv, TypeOK, Progress
  <2>4. \/ crontab \in {old[p], NoLines}
        \/ \E k \in 0..want[p] : crontab = [old[p] EXCEPT ![Own(op[p])] = k]
    <3>1. CASE pc[p] \in {"blank", "filter", "cpopen", "cpwrite", "sedrename"}
      BY <2>2, <3>1 DEF Progress
    <3>2. CASE pc[p] \in {"rmtmp", "ensure", "sedread", "ps"}
      BY <2>2, <3>2 DEF Progress, Without
    <3>3. CASE pc[p] \in {"append", "restart"}
      <4>1. want[p] - left[p] \in 0..want[p]
        BY <2>2, <3>3 DEF AtPoint
      <4>2. crontab = Edited(old[p], op[p], want[p] - left[p])
        BY <2>2, <3>3 DEF Progress
      <4>3. QED
        BY <4>1, <4>2 DEF Edited
    <3>4. QED
      BY <1>5, <2>2, <3>1, <3>2, <3>3 DEF Point
  <2>5. \/ crontab \in {meant, E!NoLines}
        \/ \E k \in 0..asked[2] : crontab = E!With(k)
    BY <2>1, <2>3, <2>4 DEF E!With, E!NoLines, NoLines
  <2>6. QED
    BY <1>1, <2>1, <2>5 DEF E!Next, E!Cut, E!Rest
<1>6. QED
  BY <1>3, <1>4, <1>5

LEMMA EditsStep == IInv /\ IInv' /\ [Next]_vars => [E!Next]_(E!vars)
<1> SUFFICES ASSUME IInv, IInv', [Next]_vars PROVE [E!Next]_(E!vars)
  OBVIOUS
<1>1. ASSUME NEW p \in Proc, Step(p) PROVE [E!Next]_(E!vars)
  <2>1. CASE \E o \in Op : \E n \in Adds(o) : Start(p, o, n)
    BY <1>1, <2>1, StartEdits
  <2>2. CASE /\ Running(p) /\ UNCHANGED <<op, old, want, alone>>
             /\ pc[p] = "done" <=> pc'[p] = "idle"
             /\ pc[p] = "done" => crontab' = crontab
    BY <1>1, <2>2, LoneEdits, OverlapEdits
  <2>3. QED
    BY <1>1, <2>1, <2>2, StepKind DEF IInv
<1>2. CASE PowerCycle
  BY <1>2, PowerEdits
<1>3. CASE UNCHANGED vars
  BY <1>3 DEF vars, E!vars, meant, stage, asked, Alone, Only, Running
<1>4. QED
  BY <1>1, <1>2, <1>3 DEF Next

-----------------------------------------------------------------------------
(***************************************************************************)
(* The theorems.                                                           *)
(***************************************************************************)
\* Every variable keeps its type, an absent crontab has no lines.
THEOREM TypeCorrect == Spec => []TypeOK
<1>1. IInv => TypeOK
  BY DEF IInv
<1>2. QED
  BY <1>1, SpecIInv, PTL

\* A script that nothing overlaps makes exactly its edit of the crontab, for
\* any leftovers of overlapping and interrupted scripts before it.
THEOREM EditsAreExact == Spec => []EditIsExact
<1>1. IInv => EditIsExact
  <2> SUFFICES ASSUME IInv, NEW p \in Proc, pc[p] = "done", alone[p]
               PROVE  crontab = Edited(old[p], op[p], want[p])
    BY DEF EditIsExact
  <2>1. Progress(p) /\ left[p] = 0 /\ want[p] \in Nat
    BY DEF IInv, AtPoint, Running, TypeOK
  <2>2. want[p] - left[p] = want[p]
    BY <2>1
  <2>3. QED
    BY <2>1, <2>2 DEF Progress
<1>2. QED
  BY <1>1, SpecIInv, PTL

\* Such a script hides the lines of the others only inside its cp.
THEOREM ForeignLinesAreKept == Spec => []ForeignLinesKept
<1>1. IInv => ForeignLinesKept
  <2> SUFFICES ASSUME IInv, NEW p \in Proc, Running(p), alone[p],
                      pc[p] # "cpwrite", NEW t \in Tag \ {Own(op[p])}
               PROVE  crontab[t] = old[p][t]
    BY DEF ForeignLinesKept
  <2>1. Progress(p) /\ pc[p] \in Point /\ pc[p] # "idle" /\ old[p] \in Lines
    BY DEF IInv, TypeOK, Running
  <2>2. Without(old[p], Own(op[p]))[t] = old[p][t]
    BY <2>1 DEF Without, Lines
  <2>3. \A n : Edited(old[p], op[p], n)[t] = old[p][t]
    BY <2>1 DEF Edited, Lines, Progress
  <2>4. QED
    BY <2>1, <2>2, <2>3 DEF Progress, Point
<1>2. QED
  BY <1>1, SpecIInv, PTL

\* The shared temporary file never outlives the scripts that use it.
THEOREM TmpFileIsTransient == Spec => []TmpIsTransient
<1>1. IInv => TmpIsTransient
  BY DEF IInv
<1>2. QED
  BY <1>1, SpecIInv, PTL

\* After RESET_TIMER_REBOOT crond runs if it can run at all.
THEOREM TimerRebootArmed == Spec => []RebootArmed
<1>1. IInv => RebootArmed
  BY DEF IInv, AtPoint, RebootArmed
<1>2. QED
  BY <1>1, SpecIInv, PTL

\* Scripts that nothing overlaps edit the crontab as if each did it at once, and a power
\* loss costs such a script its own lines or the whole crontab, not some foreign lines
\* (fw_ui_transfer.sh:263-402, wifi_auto_off.sh:8-96, clients_stat.sh:72-82).
THEOREM EditsAreAtomic == Spec => EditsSpec
<1>1. Init => E!Init
  BY DEF Init, E!Init, stage, asked, meant, Alone, Running, NoLines, E!NoLines
<1>2. IInv /\ IInv' /\ [Next]_vars => [E!Next]_(E!vars)
  BY EditsStep
<1>3. QED
  BY <1>1, <1>2, SpecIInv, PTL DEF Spec, EditsSpec, E!Spec
=============================================================================
