------------------------- MODULE DnScheduleProofs -------------------------
(***************************************************************************)
(* The domain filter's schedule, for days of any length and any number of  *)
(* sections and runs.  The inductive invariant follows a run that nothing  *)
(* has disturbed from its start to its end: unless another run is asked    *)
(* for, the crontab already holds its lines and the list what the present  *)
(* minute asks for, up to the sections that are still to be looked at.     *)
(***************************************************************************)
EXTENDS DnSchedule, TLAPS

ExpectedLines == IF on THEN CronLines(cfg) ELSE {}

\* What an undisturbed run has achieved, unless an edit or, as far as the
\* clock is concerned, cron has asked for another one.
RunInv(j) ==
  /\ ~Idle(j) /\ \A i \in Job : ~Idle(i) => i = j
  /\ "edit" \notin due =>
       /\ snap[j] = cfg
       /\ pc[j] \in {"cron", "list"} => on
       /\ pc[j] = "uncron" => ~on
       /\ pc[j] \in {"list", "restart", "register"} => lines = ExpectedLines
  /\ due = {} =>
       /\ pc[j] = "list" => hosts = Active(cfg, now) \ todo[j]
       /\ pc[j] \in {"restart", "register"} => hosts = Wanted
  /\ pc[j] = "register" => registered /\ blocked = hosts

\* Without a disturbance and without a run.
RestInv ==
  /\ "edit" \notin due => lines = ExpectedLines
  /\ due = {} => hosts = Wanted
  /\ blocked = hosts /\ (registered \/ hosts = {})

IInv ==
  /\ TypeOK
  /\ \A j \in Job : alone[j] => RunInv(j)
  /\ ~missed => \A j \in Job : ~Idle(j) => alone[j]
  /\ ~missed /\ Busy = {} => RestInv

-----------------------------------------------------------------------------
LEMMA ConfigFacts ==
  ASSUME NEW c \in Config
  PROVE  /\ DOMAIN c \subseteq Section
         /\ \A s \in DOMAIN c : /\ c[s].start \in Minute /\ c[s].stop \in Minute
                                /\ c[s].start < c[s].stop /\ c[s].enabled \in BOOLEAN
         /\ \A t : Active(c, t) \subseteq Section
         /\ CronLines(c) \subseteq Minute
<1>1. PICK S \in SUBSET Section : c \in [S -> Window]
  BY DEF Config
<1>2. DOMAIN c = S /\ \A s \in S : c[s] \in Window
  BY <1>1
<1>3. \A s \in S : /\ c[s].start \in Minute /\ c[s].stop \in Minute
                   /\ c[s].start < c[s].stop /\ c[s].enabled \in BOOLEAN
  BY <1>2 DEF Window
<1> QED BY <1>2, <1>3 DEF Active, CronLines

LEMMA NoSectionsFacts == NoSections \in Config /\ DOMAIN NoSections = {}
<1>1. NoSections \in [{} -> Window]
  BY DEF NoSections
<1> QED BY <1>1 DEF NoSections, Config

\* Between two lines of the crontab the set of domains to block is the same,
\* midnight included.
LEMMA ActiveBetweenLines ==
  ASSUME NEW c \in Config, NEW t \in Minute, NEW u \in Minute,
         u = IF t + 1 = Day THEN 0 ELSE t + 1,
         u \notin CronLines(c)
  PROVE  Active(c, u) = Active(c, t)
<1> USE DnScheduleAssumption DEF Minute
<1>1. ASSUME NEW s \in DOMAIN c
      PROVE  InWindow(c[s], u) <=> InWindow(c[s], t)
  <2>1. u # c[s].start /\ u # c[s].stop
    BY DEF CronLines
  <2>2. /\ c[s].start \in Nat /\ c[s].stop \in Nat /\ c[s].stop < Day
        /\ c[s].start < c[s].stop /\ c[s].enabled \in BOOLEAN
    BY ConfigFacts
  <2>3. (c[s].start <= u /\ u < c[s].stop) <=> (c[s].start <= t /\ t < c[s].stop)
    <3>1. CASE t + 1 = Day
      BY <3>1, <2>1, <2>2
    <3>2. CASE t + 1 # Day
      BY <3>2, <2>1, <2>2
    <3> QED BY <3>1, <3>2
  <2> QED BY <2>3 DEF InWindow
<1> QED BY <1>1 DEF Active

LEMMA TypeInit == Init => TypeOK
<1> SUFFICES ASSUME Init PROVE TypeOK
  OBVIOUS
<1>1. /\ snap \in [Job -> Config] /\ cfg \in Config
  BY NoSectionsFacts DEF Init
<1>2. events \in 0..MaxEvents
  BY DnScheduleAssumption DEF Init
<1> QED BY <1>1, <1>2 DEF Init, TypeOK

LEMMA TypeStep == TypeOK /\ [Next]_vars => TypeOK'
<1> SUFFICES ASSUME TypeOK, [Next]_vars PROVE TypeOK'
  OBVIOUS
<1> USE DEF TypeOK
<1>1. ASSUME NEW o \in BOOLEAN, NEW c \in Config, Configure(o, c) PROVE TypeOK'
  BY <1>1, DnScheduleAssumption DEF Configure, Event, files, crons, runs
<1>2. ASSUME NEW j \in Job, NEW why \in due, Begin(j, why) PROVE TypeOK'
  <2>1. todo[j] = {}
    BY <1>2 DEF Begin, Idle
  <2> QED BY <1>2, <2>1 DEF Begin, Idle, Disturb, crons
<1>3. ASSUME NEW j \in Job, AddCron(j) PROVE TypeOK'
  <2>1. /\ snap[j] \in Config /\ DOMAIN snap[j] \subseteq Section
        /\ CronLines(snap[j]) \subseteq Minute
    BY ConfigFacts
  <2>2. table' \in {{}, lines', table} /\ lines' \subseteq Minute
    BY <1>3, <2>1 DEF AddCron
  <2>3. table' \subseteq Minute
    BY <2>2
  <2>4. crond' \in BOOLEAN
    BY <1>3 DEF AddCron
  <2> QED BY <1>3, <2>1, <2>2, <2>3, <2>4 DEF AddCron, ghosts
<1>4. ASSUME NEW j \in Job, NEW s \in todo[j], AddHost(j, s) PROVE TypeOK'
  BY <1>4 DEF AddHost, ghosts, crons
<1>5. ASSUME NEW j \in Job, ListDone(j) PROVE TypeOK'
  BY <1>5 DEF ListDone, files, ghosts, crons
<1>6. ASSUME NEW j \in Job, RemoveCron(j) PROVE TypeOK'
  <2>1. table' \subseteq Minute
    BY <1>6 DEF RemoveCron
  <2>2. todo[j] = {}
    BY <1>6 DEF RemoveCron
  <2> QED BY <1>6, <2>1, <2>2 DEF RemoveCron, ghosts
<1>7. ASSUME NEW j \in Job, RestartDns(j) PROVE TypeOK'
  BY <1>7 DEF RestartDns, ReadHosts, Disturb, files, crons
<1>8. ASSUME NEW j \in Job, Register(j) PROVE TypeOK'
  BY <1>8, NoSectionsFacts DEF Register, crons
<1>9. CASE Tick
  <2>1. now' \in Minute
    BY <1>9, DnScheduleAssumption DEF Tick, Minute
  <2>2. due' \subseteq {"edit", "cron"}
    BY <1>9 DEF Tick
  <2>3. missed' \in BOOLEAN /\ alone' \in [Job -> BOOLEAN]
    BY <1>9 DEF Tick, Disturb
  <2> QED BY <1>9, <2>1, <2>2, <2>3 DEF Tick, files, crons, runs
<1>10. CASE Reread
  BY <1>10 DEF Reread, files, runs, ghosts
<1>11. CASE HotplugDns
  BY <1>11 DEF HotplugDns, ReadHosts, files, crons, runs, ghosts
<1>12. CASE PowerCycle
  <2>1. crond' \in BOOLEAN
    BY <1>12 DEF PowerCycle
  <2> QED BY <1>12, <2>1, NoSectionsFacts, DnScheduleAssumption
          DEF PowerCycle, ReadHosts, Disturb, Event, files
<1>13. ASSUME NEW t \in Minute, SetClock(t) PROVE TypeOK'
  BY <1>13, DnScheduleAssumption DEF SetClock, Disturb, Event, files, crons, runs
<1>14. CASE UNCHANGED vars
  BY <1>14 DEF vars
<1> QED BY <1>1, <1>2, <1>3, <1>4, <1>5, <1>6, <1>7, <1>8, <1>9, <1>10, <1>11,
           <1>12, <1>13, <1>14 DEF Next, JobStep

\* Every variable of the schedule keeps its type, however many sections and
\* runs there are.
THEOREM TypeCorrect == Spec => []TypeOK
BY TypeInit, TypeStep, PTL DEF Spec

-----------------------------------------------------------------------------
LEMMA InvInit == Init => IInv
<1> SUFFICES ASSUME Init PROVE IInv
  OBVIOUS
<1>1. TypeOK
  BY TypeInit
<1>2. RestInv
  BY DEF Init, RestInv, ExpectedLines, Wanted
<1>3. \A j \in Job : Idle(j) /\ ~alone[j]
  BY DEF Init, Idle
<1> QED BY <1>1, <1>2, <1>3 DEF IInv

\* A disturbance leaves nothing to show.
LEMMA InvDisturb == TypeOK' /\ Disturb => IInv'
BY DEF IInv, Disturb

LEMMA InvStep == IInv /\ [Next]_vars => IInv'
<1> SUFFICES ASSUME IInv, [Next]_vars PROVE IInv'
  OBVIOUS
<1>0. TypeOK /\ TypeOK'
  BY TypeStep DEF IInv
<1> USE <1>0
<1>1. ASSUME NEW o \in BOOLEAN, NEW c \in Config, Configure(o, c) PROVE IInv'
  <2>1. "edit" \in due' /\ UNCHANGED <<pc, snap, blocked, hosts, registered, alone, missed>>
    BY <1>1 DEF Configure, files, runs
  <2>2. \A j \in Job : RunInv(j) => RunInv(j)'
    BY <2>1 DEF RunInv, Idle
  <2>3. RestInv => RestInv'
    BY <2>1 DEF RestInv
  <2> QED BY <2>1, <2>2, <2>3 DEF IInv, Idle, Busy
<1>2. ASSUME NEW j \in Job, NEW why \in due, Begin(j, why) PROVE IInv'
  <2>1. CASE Disturb
    BY <2>1, InvDisturb
  <2>2. CASE ~Disturb
    <3>1. /\ Busy = {} /\ alone' = [alone EXCEPT ![j] = TRUE] /\ UNCHANGED missed
          /\ why = "cron" => on
      BY <1>2, <2>2 DEF Begin
    <3>2. /\ \A i \in Job : Idle(i) /\ ~alone[i]
      BY <3>1 DEF IInv, Busy, RunInv
    <3>3. /\ pc'[j] = (IF why = "cron" \/ on THEN "cron" ELSE "uncron")
          /\ \A i \in Job : i # j => pc'[i] = pc[i]
          /\ snap'[j] = cfg /\ UNCHANGED <<cfg, on>>
      BY <1>2 DEF Begin, TypeOK
    <3>4. RunInv(j)'
      BY <3>1, <3>2, <3>3 DEF RunInv, Idle
    <3>5. \A i \in Job : alone'[i] <=> i = j
      BY <3>1, <3>2 DEF TypeOK
    <3>6. \A i \in Job : ~Idle(i)' <=> i = j
      BY <3>2, <3>3 DEF Idle
    <3> QED BY <3>4, <3>5, <3>6 DEF IInv, Busy
  <2> QED BY <2>1, <2>2
\* The other steps of a run: an undisturbed run is the only one.
<1>a. ASSUME NEW j \in Job, ~Idle(j), UNCHANGED <<missed, alone>>,
             ~Idle(j)', \A i \in Job : i # j => pc'[i] = pc[i],
             RunInv(j) => RunInv(j)'
      PROVE  IInv'
  <2>1. \A i \in Job : alone'[i] => RunInv(i)'
    <3> SUFFICES ASSUME NEW i \in Job, alone'[i] PROVE RunInv(i)'
      OBVIOUS
    <3>1. alone[i] /\ RunInv(i)
      BY <1>a DEF IInv
    <3>2. i = j
      BY <3>1, <1>a DEF RunInv
    <3> QED BY <3>1, <3>2, <1>a
  <2>2. ~missed' => \A i \in Job : ~Idle(i)' => alone'[i]
    BY <1>a DEF IInv, Idle
  <2>3. Busy' # {}
    BY <1>a DEF Busy
  <2> QED BY <2>1, <2>2, <2>3 DEF IInv
<1>3. ASSUME NEW j \in Job, AddCron(j) PROVE IInv'
  <2>1. /\ pc[j] = "cron" /\ pc'[j] = "list" /\ lines' = CronLines(snap[j])
        /\ todo'[j] = DOMAIN snap[j] /\ hosts' = {}
        /\ UNCHANGED <<on, cfg, now, due, snap, missed, alone>>
        /\ \A i \in Job : i # j => pc'[i] = pc[i]
    BY <1>3 DEF AddCron, ghosts, TypeOK
  <2>2. Active(cfg, now) \ DOMAIN cfg = {}
    BY DEF Active
  <2>3. RunInv(j) => RunInv(j)'
    BY <2>1, <2>2 DEF RunInv, Idle, ExpectedLines, Active
  <2> QED BY <2>1, <2>3, <1>a DEF Idle
<1>4. ASSUME NEW j \in Job, NEW s \in todo[j], AddHost(j, s) PROVE IInv'
  <2>1. /\ pc[j] = "list" /\ todo'[j] = todo[j] \ {s} /\ todo[j] \subseteq DOMAIN snap[j]
        /\ hosts' = IF InWindow(snap[j][s], now) THEN hosts \cup {s} ELSE hosts
        /\ UNCHANGED <<pc, on, cfg, now, due, snap, missed, alone, lines>>
    BY <1>4 DEF AddHost, ghosts, TypeOK
  <2>2. snap[j] = cfg /\ hosts = Active(cfg, now) \ todo[j] =>
          hosts' = Active(cfg, now) \ todo'[j]
    BY <2>1 DEF Active
  <2>3. RunInv(j) => RunInv(j)'
    BY <2>1, <2>2 DEF RunInv, Idle, ExpectedLines, Active, CronLines
  <2> QED BY <2>1, <2>3, <1>a DEF Idle
<1>5. ASSUME NEW j \in Job, ListDone(j) PROVE IInv'
  <2>1. /\ pc[j] = "list" /\ pc'[j] = "restart" /\ todo[j] = {}
        /\ UNCHANGED <<on, cfg, now, due, snap, missed, alone, lines, hosts>>
        /\ \A i \in Job : i # j => pc'[i] = pc[i]
    BY <1>5 DEF ListDone, ghosts, files, TypeOK
  <2>2. RunInv(j) => RunInv(j)'
    BY <2>1 DEF RunInv, Idle, ExpectedLines, Wanted, Active, CronLines
  <2> QED BY <2>1, <2>2, <1>a DEF Idle
<1>6. ASSUME NEW j \in Job, RemoveCron(j) PROVE IInv'
  <2>1. /\ pc[j] = "uncron" /\ pc'[j] = "restart" /\ lines' = {} /\ hosts' = {}
        /\ UNCHANGED <<on, cfg, now, due, snap, missed, alone>>
        /\ \A i \in Job : i # j => pc'[i] = pc[i]
    BY <1>6 DEF RemoveCron, ghosts, TypeOK
  <2>2. RunInv(j) => RunInv(j)'
    BY <2>1 DEF RunInv, Idle, ExpectedLines, Wanted
  <2> QED BY <2>1, <2>2, <1>a DEF Idle
<1>7. ASSUME NEW j \in Job, RestartDns(j) PROVE IInv'
  <2>1. CASE ~registered
    BY <2>1, <1>7, InvDisturb DEF RestartDns
  <2>2. CASE registered
    <3>1. /\ pc[j] = "restart" /\ pc'[j] = "register" /\ blocked' = hosts
          /\ UNCHANGED <<on, cfg, now, due, snap, missed, alone, lines, hosts, registered>>
          /\ \A i \in Job : i # j => pc'[i] = pc[i]
      BY <2>2, <1>7 DEF RestartDns, ReadHosts, files, TypeOK
    <3>2. RunInv(j) => RunInv(j)'
      BY <3>1, <2>2 DEF RunInv, Idle, ExpectedLines, Wanted, Active, CronLines
    <3> QED BY <3>1, <3>2, <1>a DEF Idle
  <2> QED BY <2>1, <2>2
<1>8. ASSUME NEW j \in Job, Register(j) PROVE IInv'
  <2>1. /\ pc[j] = "register" /\ pc'[j] = "idle" /\ registered'
        /\ UNCHANGED <<on, cfg, now, due, lines, hosts, blocked>>
        /\ \A i \in Job : i # j => pc'[i] = pc[i]
        /\ missed' = (missed /\ ~alone[j])
        /\ \A i \in Job : alone'[i] <=> i # j /\ alone[i]
    BY <1>8 DEF Register, TypeOK
  <2>2. CASE alone[j]
    <3>1. RunInv(j)
      BY <2>2 DEF IInv
    <3>2. \A i \in Job : i # j => ~alone[i]
      BY <2>1, <3>1 DEF IInv, RunInv, Idle
    <3>3. \A i \in Job : Idle(i)'
      BY <2>1, <3>1 DEF RunInv, Idle
    <3>4. RestInv'
      BY <2>1, <3>1 DEF RunInv, RestInv, ExpectedLines, Wanted, Active, CronLines
    <3> QED BY <2>1, <3>2, <3>3, <3>4 DEF IInv
  <2>3. CASE ~alone[j]
    <3>1. missed /\ missed'
      BY <2>1, <2>3 DEF IInv, Idle
    <3>2. \A i \in Job : ~alone[i]
      BY <2>1, <2>3 DEF IInv, RunInv, Idle
    <3> QED BY <2>1, <3>1, <3>2 DEF IInv
  <2> QED BY <2>2, <2>3
<1>9. CASE Tick
  <2>1. CASE Fires # lines
    BY <2>1, <1>9, InvDisturb DEF Tick
  <2>2. CASE Fires = lines
    <3>1. /\ UNCHANGED <<missed, alone, on, cfg, lines, hosts, registered, blocked, pc, snap, todo>>
          /\ now' = IF now + 1 = Day THEN 0 ELSE now + 1
          /\ due \subseteq due' /\ ("edit" \in due' <=> "edit" \in due)
          /\ now' \notin lines \/ due' # {}
      BY <2>2, <1>9 DEF Tick, files, runs
    <3>2. ASSUME due' = {}, lines = ExpectedLines, on
          PROVE  Active(cfg, now') = Active(cfg, now)
      BY <3>1, <3>2, ActiveBetweenLines DEF TypeOK, ExpectedLines
    <3>3. due' = {} /\ lines = ExpectedLines => Wanted' = Wanted
      BY <3>1, <3>2 DEF Wanted, Active
    <3>4. ASSUME NEW j \in Job, RunInv(j) PROVE RunInv(j)'
      <4>1. ExpectedLines' = ExpectedLines /\ Idle(j)' = Idle(j)
            /\ \A i \in Job : Idle(i)' <=> Idle(i)
        BY <3>1 DEF ExpectedLines, Idle, CronLines
      <4>2. due' = {} /\ pc'[j] = "list" => hosts' = Active(cfg', now') \ todo'[j]
        BY <3>1, <3>2, <3>4 DEF RunInv
      <4>3. due' = {} /\ pc'[j] \in {"restart", "register"} => hosts' = Wanted'
        BY <3>1, <3>3, <3>4 DEF RunInv
      <4> QED BY <3>1, <3>4, <4>1, <4>2, <4>3 DEF RunInv, Active
    <3>5. RestInv => RestInv'
      BY <3>1, <3>3 DEF RestInv, ExpectedLines, CronLines
    <3> QED BY <3>1, <3>4, <3>5 DEF IInv, Idle, Busy
  <2> QED BY <2>1, <2>2
<1>10. CASE Reread
  <2>1. UNCHANGED <<missed, alone, now, due, on, cfg, lines, hosts, registered, blocked, pc, snap, todo>>
    BY <1>10 DEF Reread, files, runs, ghosts
  <2> QED BY <2>1 DEF IInv, RunInv, RestInv, ExpectedLines, Wanted, Idle, Busy, Active, CronLines
<1>11. CASE HotplugDns
  <2>1. /\ blocked' = (IF registered THEN hosts ELSE {})
        /\ UNCHANGED <<missed, alone, now, due, on, cfg, lines, hosts, registered, pc, snap, todo>>
    BY <1>11 DEF HotplugDns, ReadHosts, files, runs, ghosts
  <2>2. \A j \in Job : RunInv(j) => RunInv(j)'
    BY <2>1 DEF RunInv, ExpectedLines, Wanted, Idle, Active, CronLines
  <2>3. RestInv => RestInv'
    BY <2>1 DEF RestInv, ExpectedLines, Wanted, Active, CronLines
  <2> QED BY <2>1, <2>2, <2>3 DEF IInv, Idle, Busy
<1>12. CASE PowerCycle
  BY <1>12, InvDisturb DEF PowerCycle
<1>13. ASSUME NEW t \in Minute, SetClock(t) PROVE IInv'
  BY <1>13, InvDisturb DEF SetClock
<1>14. CASE UNCHANGED vars
  BY <1>14 DEF vars, IInv, RunInv, RestInv, ExpectedLines, Wanted, Idle, Busy, Active, CronLines
<1> QED BY <1>1, <1>2, <1>3, <1>4, <1>5, <1>6, <1>7, <1>8, <1>9, <1>10, <1>11,
           <1>12, <1>13, <1>14 DEF Next, JobStep

LEMMA InvImplies == IInv => BlockedOnSchedule
BY DEF IInv, RestInv, BlockedOnSchedule, Settled

\* At every minute dnsmasq blocks exactly the domains whose window it is, for
\* days of any length, any sections and any number of runs.
THEOREM DomainsBlockedOnSchedule == Spec => []BlockedOnSchedule
BY InvInit, InvStep, InvImplies, PTL DEF Spec
=============================================================================
