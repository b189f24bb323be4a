------------------------------ MODULE Crontab ------------------------------
(***************************************************************************)
(* The scripts that edit /etc/crontabs/root: fw_ui_transfer.sh (domain     *)
(* filter), wifi_auto_off.sh (Wi-Fi auto-off, timer reboot),               *)
(* clients_stat.sh setup (day change) and services.init (FOTA check).      *)
(* They are started by cron, by firewall reloads and by several daemons,   *)
(* so any number may run at once.  None takes a lock, and the first two    *)
(* go through the same temporary file /var/crontmp.                        *)
(*                                                                         *)
(* One step is one shell command; cp is two, because it truncates the      *)
(* crontab before it writes it, and so is sed -i, which writes a file of   *)
(* its own and renames it.  A file is a bag of lines, a line is known by   *)
(* the pattern that the scripts' sed commands tell it by.                  *)
(***************************************************************************)
EXTENDS Naturals

CONSTANTS
  Proc,         \* running instances of the scripts
  HasDir,       \* does /etc/crontabs exist?  The scripts never create it
  MaxSections,  \* bound: dnsblacklist sections in the firewall config
  MaxRuns       \* bound: how many scripts are started

ASSUME CrontabAssumption ==
  /\ HasDir \in BOOLEAN
  /\ MaxSections \in Nat
  /\ MaxRuns \in Nat

VARIABLES
  hasCrontab, crontab,  \* /etc/crontabs/root: does it exist, its lines
  hasTmp, tmp,          \* /var/crontmp, shared by the scripts
  crond,                \* is crond running?
  pc, op,               \* control point and command of each instance
  left,                 \* lines it still has to append
  buf,                  \* what its cp or sed -i has read
  runs,                 \* scripts started so far (bounds the model)
  old, want, alone      \* history: the crontab and the number of lines to
                        \* append at its start, has no other one run since?

files == <<hasCrontab, crontab, hasTmp, tmp>>
ghosts == <<runs, old, want, alone>>
vars == <<hasCrontab, crontab, hasTmp, tmp, crond, pc, op, left, buf,
          runs, old, want, alone>>

-----------------------------------------------------------------------------
Tag == {"dns", "wifi", "reboot", "day", "fota"}

Lines == [Tag -> Nat]
NoLines == [t \in Tag |-> 0]

\* sed "/pattern/d"
Without(lines, t) == [lines EXCEPT ![t] = 0]

Removals == {"DN_DISABLE", "REMOVE_AUTO_OFF", "REMOVE_TIMER_REBOOT"}
InPlace == {"day_change", "fota_task"}
Reboots == {"INIT_TIMER_REBOOT", "RESET_TIMER_REBOOT", "REMOVE_TIMER_REBOOT"}
Op == Removals \cup InPlace \cup Reboots \cup {"DN_RESET", "RESET_AUTO_OFF"}

\* The lines a command removes and writes.
Own(o) ==
  IF o \in {"DN_RESET", "DN_DISABLE"} THEN "dns"
  ELSE IF o \in {"RESET_AUTO_OFF", "REMOVE_AUTO_OFF"} THEN "wifi"
  ELSE IF o \in Reboots THEN "reboot"
  ELSE IF o = "day_change" THEN "day" ELSE "fota"

\* How many lines it appends: two for each dnsblacklist section, enabled or
\* not; one at boot if timer_reboot.settings.enable is 1.
Adds(o) ==
  IF o = "DN_RESET" THEN {2 * n : n \in 0..MaxSections}
  ELSE IF o = "INIT_TIMER_REBOOT" THEN {0, 1}
  ELSE IF o \in Removals THEN {0} ELSE {1}

Running(p) == pc[p] # "idle"

Goto(p, from, to) ==
  /\ pc[p] = from
  /\ pc' = [pc EXCEPT ![p] = to]

-----------------------------------------------------------------------------
Init ==
  /\ hasCrontab = FALSE /\ crontab = NoLines
  /\ hasTmp = FALSE /\ tmp = NoLines
  /\ crond = FALSE
  /\ pc = [p \in Proc |-> "idle"]
  /\ op = [p \in Proc |-> "DN_RESET"]
  /\ left = [p \in Proc |-> 0]
  /\ buf = [p \in Proc |-> NoLines]
  /\ runs = 0
  /\ old = [p \in Proc |-> NoLines]
  /\ want = [p \in Proc |-> 0]
  /\ alone = [p \in Proc |-> FALSE]

Start(p, o, n) ==
  /\ runs < MaxRuns
  /\ n \in Adds(o)
  /\ Goto(p, "idle", IF o \in InPlace THEN "ensure" ELSE "blank")
  /\ op' = [op EXCEPT ![p] = o]
  /\ left' = [left EXCEPT ![p] = n]
  /\ runs' = runs + 1
  /\ old' = [old EXCEPT ![p] = crontab]
  /\ want' = [want EXCEPT ![p] = n]
  /\ alone' = [q \in Proc |-> q = p /\ \A r \in Proc \ {p} : ~Running(r)]
  /\ UNCHANGED <<files, crond, buf>>

\* [ ! -f $CRONTABS_TMP ] && touch; echo "" > $CRONTABS_TMP
BlankTmp(p) ==
  /\ Goto(p, "blank", "filter")
  /\ hasTmp' = TRUE
  /\ tmp' = NoLines
  /\ UNCHANGED <<hasCrontab, crontab, crond, op, left, buf, ghosts>>

\* Mutant of FilterToTmp: the pattern misses the script's own lines.
FilterMissesOwn(p) ==
  /\ hasCrontab
  /\ Goto(p, "filter", "cpopen")
  /\ hasTmp' = TRUE
  /\ tmp' = crontab
  /\ UNCHANGED <<hasCrontab, crontab, crond, op, left, buf, ghosts>>

\* [ -f $CRONTABS_CONFIG_FILE ] && sed "/pattern/d" crontab > tmp
FilterToTmp(p) ==
  /\ hasCrontab
  /\ Goto(p, "filter", "cpopen")
  /\ hasTmp' = TRUE
  /\ tmp' = Without(crontab, Own(op[p]))
  /\ UNCHANGED <<hasCrontab, crontab, crond, op, left, buf, ghosts>>

\* Mutant of NothingToFilter: an early return that skips the rm.
ReturnWithoutCrontab(p) ==
  /\ ~hasCrontab
  /\ Goto(p, "filter", "done")
  /\ UNCHANGED <<files, crond, op, left, buf, ghosts>>

NothingToFilter(p) ==
  /\ ~hasCrontab
  /\ Goto(p, "filter", "rmtmp")
  /\ UNCHANGED <<files, crond, op, left, buf, ghosts>>

\* cp: opens and reads the source, truncates the target ...
CopyOpen(p) ==
  /\ hasTmp
  /\ Goto(p, "cpopen", "cpwrite")
  /\ buf' = [buf EXCEPT ![p] = tmp]
  /\ crontab' = NoLines
  /\ UNCHANGED <<hasCrontab, hasTmp, tmp, crond, op, left, ghosts>>

\* ... unless another script has removed the temporary file ...
CopyFails(p) ==
  /\ ~hasTmp
  /\ Goto(p, "cpopen", "rmtmp")
  /\ UNCHANGED <<files, crond, op, left, buf, ghosts>>

\* ... and writes what it has read.
CopyWrite(p) ==
  /\ Goto(p, "cpwrite", "rmtmp")
  /\ crontab' = buf[p]
  /\ UNCHANGED <<hasCrontab, hasTmp, tmp, crond, op, left, buf, ghosts>>

\* Mutant of RemoveTmp: INIT_TIMER_REBOOT does not look at the enable option.
RemoveTmpUnchecked(p) ==
  /\ Goto(p, "rmtmp", IF op[p] \in Removals THEN "done" ELSE "ensure")
  /\ hasTmp' = FALSE
  /\ tmp' = NoLines
  /\ UNCHANGED <<hasCrontab, crontab, crond, op, left, buf, ghosts>>

\* rm $CRONTABS_TMP ends the removal; INIT_TIMER_REBOOT goes on only if the
\* timer is enabled, that is if it has a line to append.
RemoveTmp(p) ==
  /\ Goto(p, "rmtmp",
          IF op[p] \in Removals \/ (op[p] = "INIT_TIMER_REBOOT" /\ left[p] = 0)
          THEN "done" ELSE "ensure")
  /\ hasTmp' = FALSE
  /\ tmp' = NoLines
  /\ UNCHANGED <<hasCrontab, crontab, crond, op, left, buf, ghosts>>

\* Mutant of EnsureCrontab: an unconditional ": > crontab" for the touch.
TruncateCrontab(p) ==
  /\ Goto(p, "ensure", IF op[p] \in InPlace THEN "sedread"
                       ELSE IF op[p] = "DN_RESET" THEN "ps" ELSE "append")
  /\ hasCrontab' = (hasCrontab \/ HasDir)
  /\ crontab' = NoLines
  /\ UNCHANGED <<hasTmp, tmp, crond, op, left, buf, ghosts>>

\* The mkdir before the touch names an unset variable and creates nothing.
EnsureCrontab(p) ==
  /\ Goto(p, "ensure", IF op[p] \in InPlace THEN "sedread"
                       ELSE IF op[p] = "DN_RESET" THEN "ps" ELSE "append")
  /\ hasCrontab' = (hasCrontab \/ HasDir)
  /\ UNCHANGED <<crontab, hasTmp, tmp, crond, op, left, buf, ghosts>>

\* sed -i reads the crontab into a file of its own ...
SedRead(p) ==
  /\ Goto(p, "sedread", IF hasCrontab THEN "sedrename" ELSE "append")
  /\ buf' = [buf EXCEPT ![p] = Without(crontab, Own(op[p]))]
  /\ UNCHANGED <<files, crond, op, left, ghosts>>

\* ... and renames it over the crontab.
SedRename(p) ==
  /\ Goto(p, "sedrename", "append")
  /\ crontab' = buf[p]
  /\ UNCHANGED <<hasCrontab, hasTmp, tmp, crond, op, left, buf, ghosts>>

\* count=`ps | grep -c cron`: the grep may or may not be in the list that ps
\* prints.  The init script starts crond only if /etc/crontabs is not empty.
CheckCrond(p) ==
  /\ Goto(p, "ps", IF left[p] = 0 THEN "done" ELSE "append")
  /\ \E grepSeen \in {0, 1} :
       LET count == (IF crond THEN 1 ELSE 0) + grepSeen IN
       crond' = IF count = 1 THEN hasCrontab ELSE crond
  /\ UNCHANGED <<files, op, left, buf, ghosts>>

\* Mutant of AppendLine: no restart of cron after the reboot line.
AppendLineOnly(p) ==
  /\ Goto(p, "append", IF left[p] > 1 THEN "append" ELSE "done")
  /\ left' = [left EXCEPT ![p] = @ - 1]
  /\ hasCrontab' = (hasCrontab \/ HasDir)
  /\ crontab' = IF HasDir THEN [crontab EXCEPT ![Own(op[p])] = @ + 1]
                          ELSE crontab
  /\ UNCHANGED <<hasTmp, tmp, crond, op, buf, ghosts>>

\* echo "..." >> $CRONTABS_CONFIG_FILE
AppendLine(p) ==
  /\ Goto(p, "append", IF left[p] > 1 THEN "append"
                       ELSE IF op[p] \in Reboots THEN "restart" ELSE "done")
  /\ left' = [left EXCEPT ![p] = @ - 1]
  /\ hasCrontab' = (hasCrontab \/ HasDir)
  /\ crontab' = IF HasDir THEN [crontab EXCEPT ![Own(op[p])] = @ + 1]
                          ELSE crontab
  /\ UNCHANGED <<hasTmp, tmp, crond, op, buf, ghosts>>

\* /etc/init.d/cron restart
RestartCrond(p) ==
  /\ Goto(p, "restart", "done")
  /\ crond' = hasCrontab
  /\ UNCHANGED <<files, op, left, buf, ghosts>>

Finish(p) ==
  /\ Goto(p, "done", "idle")
  /\ UNCHANGED <<files, crond, op, left, buf, ghosts>>

\* Power loss and the next boot: /var is a RAM disk, /etc is flash, and the
\* init script of cron runs before any of the scripts.
PowerCycle ==
  /\ pc' = [p \in Proc |-> "idle"]
  /\ hasTmp' = FALSE
  /\ tmp' = NoLines
  /\ crond' = hasCrontab
  /\ UNCHANGED <<hasCrontab, crontab, op, left, buf, ghosts>>

Step(p) ==
  \/ \E o \in Op : \E n \in Adds(o) : Start(p, o, n)
  \/ BlankTmp(p) \/ FilterToTmp(p) \/ NothingToFilter(p)
  \/ CopyOpen(p) \/ CopyFails(p) \/ CopyWrite(p) \/ RemoveTmp(p)
  \/ EnsureCrontab(p) \/ SedRead(p) \/ SedRename(p)
  \/ CheckCrond(p) \/ AppendLine(p) \/ RestartCrond(p) \/ Finish(p)

Next == (\E p \in Proc : Step(p)) \/ PowerCycle

Spec == Init /\ [][Next]_vars

-----------------------------------------------------------------------------
Point == {"idle", "blank", "filter", "cpopen", "cpwrite", "rmtmp", "ensure",
          "sedread", "sedrename", "ps", "append", "restart", "done"}

\* Every variable has its type; an absent file has no lines, and without its
\* directory the crontab stays absent.
TypeOK ==
  /\ hasCrontab \in BOOLEAN /\ crontab \in Lines
  /\ hasTmp \in BOOLEAN /\ tmp \in Lines
  /\ crond \in BOOLEAN
  /\ pc \in [Proc -> Point] /\ op \in [Proc -> Op]
  /\ left \in [Proc -> Nat] /\ buf \in [Proc -> Lines]
  /\ runs \in Nat
  /\ old \in [Proc -> Lines] /\ want \in [Proc -> Nat]
  /\ alone \in [Proc -> BOOLEAN]
  /\ ~hasCrontab => crontab = NoLines
  /\ ~HasDir => ~hasCrontab

\* The crontab that command o is meant to leave behind when it finds lines.
Edited(lines, o, n) ==
  IF HasDir THEN [lines EXCEPT ![Own(o)] = n] ELSE NoLines

\* A script that no other script overlapped has made exactly its edit: its
\* own lines are replaced by as many as it was asked for, whatever mess or
\* leftover it found, and every line of the other scripts is still there.
\* (fw_ui_transfer.sh:263-276,339-402, wifi_auto_off.sh:8-96,
\* clients_stat.sh:72-82, services.init:41-51.)
EditIsExact ==
  \A p \in Proc :
    pc[p] = "done" /\ alone[p] => crontab = Edited(old[p], op[p], want[p])

\* While such a script runs, the lines of the other scripts are in the
\* crontab at every moment but one, between the truncation and the write of
\* its cp: only there can a power loss, or crond reading the file, cost
\* lines that are not the script's own.
ForeignLinesKept ==
  \A p \in Proc :
    Running(p) /\ alone[p] /\ pc[p] # "cpwrite" =>
      \A t \in Tag \ {Own(op[p])} : crontab[t] = old[p][t]

\* However the scripts overlap, the shared temporary file is never left
\* behind for a later script to mistake for its own.
TmpIsTransient ==
  hasTmp => \E p \in Proc : pc[p] \in {"filter", "cpopen", "cpwrite", "rmtmp"}

\* A timer reboot that was set is armed: crond runs once the script is done,
\* whatever else ran meanwhile (wifi_auto_off.sh:84).
RebootArmed ==
  \A p \in Proc :
    pc[p] = "done" /\ op[p] = "RESET_TIMER_REBOOT" => (crond <=> HasDir)

-----------------------------------------------------------------------------
(* What the scripts promise each by itself, and when they do.              *)

Alone == {p \in Proc : Running(p) /\ alone[p]}
Only == CHOOSE p \in Proc : Running(p) /\ alone[p]

stage ==
  IF \A p \in Proc : ~Running(p) THEN "rest"
  ELSE IF Alone = {} THEN "open"
  ELSE IF pc[Only] = "done" THEN "made" ELSE "doing"

\* The crontab that an edit starts from, until it is made.
meant == IF stage = "doing" THEN old[Only] ELSE crontab

asked == IF Alone = {} THEN <<>> ELSE <<Own(op[Only]), want[Only]>>

E == INSTANCE CrontabEdits WITH
       Kind <- Tag, Asked <- UNION {{<<Own(o), n>> : n \in Adds(o)} : o \in Op},
       lines <- meant

\* A script that no other one overlaps edits the crontab at once, whatever the scripts
\* before it have left: each of its commands but the last can be forgotten.  The power
\* may cost it the edit, or the crontab, but never single lines of other scripts.
EditsSpec == E!Spec
=============================================================================
