---------------------------- MODULE DnSchedule ----------------------------
(***************************************************************************)
(* The schedule of the domain filter.  A dnsblacklist section blocks a     *)
(* domain from its start to its stop time every day.  fw_ui_transfer.sh    *)
(* DN_RESET rebuilds /etc/dns_blacklist for the present minute and puts    *)
(* two lines for each section into the crontab, which run DN_RESET again   *)
(* at the start and at the stop; DN_DISABLE empties both.  The script      *)
(* reads the configuration when it starts, looks at the clock once for     *)
(* every section, restarts dnsmasq, and only then adds the list to the     *)
(* files that dnsmasq reads.                                               *)
(*                                                                         *)
(* How the crontab is edited command by command is the subject of module   *)
(* Crontab; here an edit is one step.  crond (external) works from what it *)
(* has read of the crontab, which may be older than the file: the script   *)
(* restarts it only if it seems not to run, and before it adds its lines.  *)
(***************************************************************************)
EXTENDS Naturals, FiniteSets

CONSTANTS
  Day,          \* minutes in a day
  Section,      \* names for dnsblacklist sections
  Job,          \* running instances of the script
  MaxEvents     \* bound: changes of the configuration, clock settings, boots

ASSUME DnScheduleAssumption ==
  /\ Day \in Nat \ {0} /\ MaxEvents \in Nat
  /\ IsFiniteSet(Section)

VARIABLES
  now,            \* the clock, in minutes of the day
  on, cfg,        \* the configuration: is the filter on, its sections
  lines,          \* the minutes at which the crontab runs DN_RESET
  crond, table,   \* crond: does it run, the minutes it has read
  hosts,          \* /etc/dns_blacklist
  registered,     \* is that file among dnsmasq's addnhosts?
  blocked,        \* what dnsmasq has read of it
  due,            \* runs asked for: "edit" by the firewall daemon, "cron"
  pc, snap, todo, \* the runs: control point, configuration, sections left
  events,         \* bounds the model
  missed, alone   \* history, see Disturb

files == <<lines, hosts, registered>>
crons == <<crond, table>>
runs == <<pc, snap, todo>>
ghosts == <<events, missed, alone>>
vars == <<now, on, cfg, lines, crond, table, hosts, registered, blocked, due,
          pc, snap, todo, events, missed, alone>>

-----------------------------------------------------------------------------
Minute == 0..(Day - 1)

\* The page lets a section be saved only if it starts before it stops.
Window == {w \in [enabled : BOOLEAN, start : Minute, stop : Minute] :
             w.start < w.stop}

\* A configuration gives some of the sections a window.
Config == UNION {[S -> Window] : S \in SUBSET Section}
NoSections == [s \in {} |-> s]

InWindow(w, t) == w.enabled /\ w.start <= t /\ t < w.stop

\* The domains that should be blocked at minute t.
Active(c, t) == {s \in DOMAIN c : InWindow(c[s], t)}

\* Mutant of CronLines: no line for the stop.
CronStarts(c) == {c[s].start : s \in DOMAIN c}

\* foreach_addinto_cron: a disabled section gets its lines as well.
CronLines(c) ==
  {c[s].start : s \in DOMAIN c} \cup {c[s].stop : s \in DOMAIN c}

Idle(j) == pc[j] = "idle"
Busy == {j \in Job : ~Idle(j)}

\* Something happened that no run in progress makes up for.
Disturb ==
  /\ missed' = TRUE
  /\ alone' = [j \in Job |-> FALSE]

Event == events < MaxEvents /\ events' = events + 1

-----------------------------------------------------------------------------
Init ==
  /\ now \in Minute
  /\ on = FALSE /\ cfg = NoSections
  /\ lines = {} /\ crond = FALSE /\ table = {}
  /\ hosts = {} /\ registered = FALSE /\ blocked = {}
  /\ due = {}
  /\ pc = [j \in Job |-> "idle"]
  /\ snap = [j \in Job |-> NoSections]
  /\ todo = [j \in Job |-> {}]
  /\ events = 0 /\ missed = FALSE /\ alone = [j \in Job |-> FALSE]

\* The firewall daemon stores a changed section or switch and asks for a run.
Configure(o, c) ==
  /\ Event
  /\ <<o, c>> # <<on, cfg>>
  /\ on' = o /\ cfg' = c
  /\ due' = due \cup {"edit"}
  /\ UNCHANGED <<now, files, crons, blocked, runs, missed, alone>>

\* The daemon runs DN_RESET if the filter is on and DN_DISABLE if not, cron
\* always DN_RESET, which does not look at the switch.  A run that is not the
\* only one, or that cron starts for a filter that is off, disturbs.
Begin(j, why) ==
  /\ Idle(j) /\ why \in due
  /\ due' = due \ {why}
  /\ snap' = [snap EXCEPT ![j] = cfg]
  /\ IF why = "cron" \/ on
     THEN /\ pc' = [pc EXCEPT ![j] = "cron"]
          /\ hosts' = {}
     ELSE /\ pc' = [pc EXCEPT ![j] = "uncron"]
          /\ UNCHANGED hosts
  /\ IF Busy # {} \/ (why = "cron" /\ ~on) THEN Disturb
     ELSE /\ alone' = [alone EXCEPT ![j] = TRUE]
          /\ UNCHANGED missed
  /\ UNCHANGED <<now, on, cfg, lines, registered, crons, blocked, todo, events>>

\* check_addinto_cron.  "ps | grep -c cron" counts the grep itself or not; the
\* restart comes before the lines, and whatever reads the crontab during the
\* edit may see it without them.
AddCron(j) ==
  /\ pc[j] = "cron"
  /\ pc' = [pc EXCEPT ![j] = "list"]
  /\ lines' = CronLines(snap[j])
  /\ \E grepSeen \in BOOLEAN :
       LET restart == grepSeen # crond IN
       /\ crond' = (crond \/ restart)
       /\ table' \in IF restart THEN {{}, lines'} ELSE {table, {}, lines'}
  /\ todo' = [todo EXCEPT ![j] = DOMAIN snap[j]]
  /\ hosts' = {}
  /\ UNCHANGED <<now, on, cfg, registered, blocked, due, snap, ghosts>>

\* Mutant of AddHost: the end of the window is included.
AddHostInclusive(j, s) ==
  /\ pc[j] = "list" /\ s \in todo[j]
  /\ todo' = [todo EXCEPT ![j] = @ \ {s}]
  /\ hosts' = IF InWindow(snap[j][s], now) \/ now = snap[j][s].stop THEN hosts \cup {s} ELSE hosts
  /\ UNCHANGED <<now, on, cfg, lines, registered, crons, blocked, due, pc, snap, ghosts>>

\* foreach_addinto_addnhost: each section looks at the clock by itself.
AddHost(j, s) ==
  /\ pc[j] = "list" /\ s \in todo[j]
  /\ todo' = [todo EXCEPT ![j] = @ \ {s}]
  /\ hosts' = IF InWindow(snap[j][s], now) THEN hosts \cup {s} ELSE hosts
  /\ UNCHANGED <<now, on, cfg, lines, registered, crons, blocked, due, pc, snap, ghosts>>

\* Mutant of ListDone: the loop ends with a section left.
ListCutShort(j) ==
  /\ pc[j] = "list" /\ Cardinality(todo[j]) < 2
  /\ pc' = [pc EXCEPT ![j] = "restart"]
  /\ UNCHANGED <<now, on, cfg, files, crons, blocked, due, snap, todo, ghosts>>

ListDone(j) ==
  /\ pc[j] = "list" /\ todo[j] = {}
  /\ pc' = [pc EXCEPT ![j] = "restart"]
  /\ UNCHANGED <<now, on, cfg, files, crons, blocked, due, snap, todo, ghosts>>

\* set_dn_filter_disable: the lines are removed, the list is blanked.
RemoveCron(j) ==
  /\ pc[j] = "uncron"
  /\ pc' = [pc EXCEPT ![j] = "restart"]
  /\ lines' = {} /\ hosts' = {}
  /\ table' \in {table, {}}
  /\ UNCHANGED <<now, on, cfg, registered, crond, blocked, due, snap, todo, ghosts>>

ReadHosts == blocked' = IF registered THEN hosts ELSE {}

\* restart_dns.  Before the list was registered it is not read.
RestartDns(j) ==
  /\ pc[j] = "restart"
  /\ pc' = [pc EXCEPT ![j] = "register"]
  /\ ReadHosts
  /\ IF registered THEN UNCHANGED <<missed, alone>> ELSE Disturb
  /\ UNCHANGED <<now, on, cfg, files, crons, due, snap, todo, events>>

\* check_addn_path ends the script.  A run that nothing disturbed has put
\* everything right.
Register(j) ==
  /\ pc[j] = "register"
  /\ pc' = [pc EXCEPT ![j] = "idle"]
  /\ snap' = [snap EXCEPT ![j] = NoSections]
  /\ registered' = TRUE
  /\ missed' = (missed /\ ~alone[j])
  /\ alone' = [alone EXCEPT ![j] = FALSE]
  /\ UNCHANGED <<now, on, cfg, lines, hosts, crons, blocked, due, todo, events>>

-----------------------------------------------------------------------------
\* What crond will run; it disturbs if that is not what the crontab says.
Fires == IF crond THEN table ELSE {}

\* The next minute: crond starts what is due in it.
Tick ==
  /\ now' = IF now + 1 = Day THEN 0 ELSE now + 1
  /\ due' = IF now' \in Fires THEN due \cup {"cron"} ELSE due
  /\ IF Fires = lines THEN UNCHANGED <<missed, alone>> ELSE Disturb
  /\ UNCHANGED <<on, cfg, files, crons, blocked, runs, events>>

\* crond looks at the crontab again.
Reread ==
  /\ crond /\ table # lines
  /\ table' = lines
  /\ UNCHANGED <<now, on, cfg, files, crond, blocked, due, runs, ghosts>>

\* dnsmasq is restarted whenever an interface comes up, and reads whatever a
\* run has written so far.
HotplugDns ==
  /\ ReadHosts
  /\ UNCHANGED <<now, on, cfg, files, crons, due, runs, ghosts>>

\* NTP or the user sets the clock.
SetClock(t) ==
  /\ Event /\ t # now
  /\ now' = t
  /\ Disturb
  /\ UNCHANGED <<on, cfg, files, crons, blocked, due, runs>>

\* Power loss and boot: the files are in flash, the clock starts anywhere;
\* cron's init script starts crond if there is a crontab, and the firewall
\* daemon applies the configuration again.
PowerCycle ==
  /\ Event
  /\ now' \in Minute
  /\ crond' \in IF lines = {} THEN BOOLEAN ELSE {TRUE}
  /\ table' = lines
  /\ ReadHosts
  /\ due' = {"edit"}
  /\ pc' = [j \in Job |-> "idle"]
  /\ snap' = [j \in Job |-> NoSections]
  /\ todo' = [j \in Job |-> {}]
  /\ Disturb
  /\ UNCHANGED <<on, cfg, files>>

JobStep(j) ==
  \/ \E why \in due : Begin(j, why)
  \/ AddCron(j) \/ (\E s \in todo[j] : AddHost(j, s)) \/ ListDone(j)
  \/ RemoveCron(j) \/ RestartDns(j) \/ Register(j)

Next ==
  \/ \E o \in BOOLEAN, c \in Config : Configure(o, c)
  \/ \E j \in Job : JobStep(j)
  \/ Tick \/ Reread \/ HotplugDns \/ PowerCycle
  \/ \E t \in Minute : SetClock(t)

Spec == Init /\ [][Next]_vars

\* Time passes, scripts run to their end, and crond looks at the crontab
\* again in the end.
FairSpec ==
  /\ Spec
  /\ WF_vars(Tick) /\ WF_vars(Reread)
  /\ \A j \in Job : WF_vars(JobStep(j))

-----------------------------------------------------------------------------
\* Every variable has its type; a section is left to do only while the list
\* is built.
TypeOK ==
  /\ now \in Minute /\ on \in BOOLEAN /\ cfg \in Config
  /\ lines \subseteq Minute /\ crond \in BOOLEAN /\ table \subseteq Minute
  /\ hosts \subseteq Section /\ registered \in BOOLEAN
  /\ blocked \subseteq Section /\ due \subseteq {"edit", "cron"}
  /\ pc \in [Job -> {"idle", "cron", "list", "uncron", "restart", "register"}]
  /\ snap \in [Job -> Config] /\ todo \in [Job -> SUBSET Section]
  /\ events \in 0..MaxEvents
  /\ missed \in BOOLEAN /\ alone \in [Job -> BOOLEAN]
  /\ \A j \in Job : todo[j] # {} => pc[j] = "list" /\ todo[j] \subseteq DOMAIN snap[j]

\* No run is going on or asked for.
Settled == Busy = {} /\ due = {}

Wanted == IF on THEN Active(cfg, now) ELSE {}

\* At every minute of the day dnsmasq blocks exactly the domains whose window
\* the minute is in, and none while the filter is off: the runs at the starts
\* and the stops are enough, although each section is looked at separately
\* and the minute may change in between.  What disturbs is named where it
\* happens: crond working from an old crontab, the clock set, two runs at
\* once, a list dnsmasq does not read yet, cron's DN_RESET of a filter
\* that has been switched off.
BlockedOnSchedule == Settled /\ ~missed => blocked = Wanted

\* Whatever happened, a filter that is on finds back to its schedule by itself, as
\* long as the crontab has one line left, crond runs, and both crond and the runs are
\* prompt from some time on: a run that is cut short by the next one, or a crontab
\* that crond always reads in the middle of an edit, could go wrong every day.
\* Without a line nothing runs again: DN_DISABLE next to DN_RESET can leave it so.
Punctual == Busy = {} /\ due = {} /\ table = lines

Heals ==
  /\ <>[](on /\ crond /\ lines # {})
  /\ <>[][Tick => Punctual]_vars
  => <>[](Settled => blocked = Wanted)
=============================================================================
