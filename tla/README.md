# Verification of the Ergo R0516 firmware: scripts and web interface

The repository is the unpacked root file system of a 4G router (OpenWrt 3.10 with vendor
services) and a helper to flash it. Most services are binaries; what can be read and verified is
the shell that edits the crontab, the firewall and the packet filter, and the web interface, a
JavaScript program in the browser that talks to the router by synchronous XML requests. This
project models the parts of both that carry state over several steps, checks the models with TLC
and proves the central results with TLAPS.

Paths below are relative to `src/extracted_fs/`.

## 1. The system

### Components

| Component | State it keeps | Operations | Talks to | Module |
|---|---|---|---|---|
| Crontab scripts (`lib/router_fw/fw_ui_transfer.sh`, `lib/wifi_ctrl/wifi_auto_off.sh`, `lib/stat/clients_stat.sh`, `etc/init.d/services.init`, `etc/init.d/cron`) | `/etc/crontabs/root`, `/var/crontmp`, crond | filter lines out, append lines, restart crond | each other through the two files, no lock | `Crontab`, `CrontabEdits` |
| Domain filter schedule (`fw_ui_transfer.sh`, `etc/init.d/dnsmasq`, `etc/hotplug.d/iface/25-dnsmasq`) | `/etc/config/firewall`, crontab, `/etc/dns_blacklist`, dnsmasq's files | `DN_RESET`, `DN_ENABLE`, `DN_DISABLE` | started by the firewall daemon and by crond; restarts dnsmasq | `DnSchedule` |
| FORWARD chain scripts (`fw_ui_transfer.sh`, `clients_stat.sh`) | iptables chains FORWARD, PREROUTING, ACCOUNTING_* | `PORT_TRIGGER_RESET`; `setup`, `remove`, `update_wan`, `update_ip` | each other through the chains, no lock | `ForwardChain` |
| Rule pages (`www/js/panel/wifi/wifi{Dnfilter,PortMap,PortTrigger,IpFilter}.js`, `router/StaticRoute.js`, fixed addresses in `homeNetwork/dhcp_settings.js`) | a snapshot of the router's list, selected and saved settings | add, modify, delete, save, reload | router services by `PostXml`; other browsers through the router | `RuleTable` |
| Contacts page (`panel/phonebook/phonebook.js`) | page of rows, ticks, current page | list, delete, edit, new, copy, move | phone book on the device and SIM card | `PhoneBook` |
| Messages page (`panel/sms/sms.js`) | page of rows, ticks, room, id kept in the text area | list, read, new, forward, save, send, delete, copy, move | SMS service, SIM card | `Sms` |
| WPS page (`panel/wifi/WPSSettings.js`) | flags and counters that outlive the page, a timer per page | push, PIN, poll, cancel, WPS switch | wireless service | `Wps` |
| UI session, menu and dialogs (`base/utils.js`, `base/layout_manager.js`, `base/ajax_calls.js`, `library/all.js`) | page shown, refresh timers, one message box and its timer, end of the session | login, logout, open a page, F5, show and close a dialog | every page | `Session` |
| Pages that wait: dashboard with its USSD box, VPN, DNS, DHCP, internet, Wi-Fi, connected devices and their traffic, restart, upgrade, configuration file, log, quick setup | what they have begun, counters and timers of their polls | save, restart, upgrade, block, clear, poll | the one box, the session | `Session` |
| File sharing (`panel/router/webdavobj.js`, `panel/webdavobj_shared.js`) | path, list, rows, ticks, buttons | list, sort, tick, delete, new folder, share, log in | the memory card by WebDAV; other clients through it | `Files`, `Sharing` |
| Upload of a file (the same two, `base/ajax_calls.js`) | slice, positions, flags, message box | choose, slice, send, pause, continue, cancel | the memory card | `Upload`, `Sharing`, `Transfer` |
| Everything else | see `PROJECT.json`, with the reason | | | section 6 |

### How they interact

A user's change on a page is posted by `PostXml` (`www/js/base/ajax_calls.js`) to `xml_action.cgi`
and from there to a service (binaries). The firewall service writes `/etc/config/firewall` and
starts `fw_ui_transfer.sh` with the name of what changed; that script edits the crontab, the files
dnsmasq reads, and the packet filter. crond starts the same script again at the times it has put
there. `wifi_auto_off.sh`, `clients_stat.sh` and `services.init` edit the same crontab, and
`clients_stat.sh` the same FORWARD chain. No script takes a lock for any of it.

In the browser all pages share one document: one message box, one timer for messages that close by
themselves, one set of refresh timers, one timer that ends the session. Handlers run one at a time;
timers and the answers to asynchronous requests come in between, and synchronous requests freeze the
interface.

### What is hard about it

* Read-modify-write without locks: crontab and chains are edited by several programs, in several
  commands each, and rules are deleted by numbers that were listed earlier.
* Loss of power at any command, in the middle of a `cp` onto a file in flash in particular.
* Time: the schedule's script compares with the clock once per section while the minute changes;
  crond works from what it has read earlier.
* Snapshots: pages address rules by row, contacts by slot, messages by id and files by path long
  after they read them; several browsers may be open.
* Requests that fail: `PostXml` returns nothing then, `$(undefined).text()` is the empty string,
  and in JavaScript `"" == 0`, so that pages that compare with 0 take a failure for success.
* Handlers of several requests in a row, each of which may fail.
* State that outlives its page or its purpose: globals, timers, attributes of elements, the upload's
  positions, the contents of the box.
* Polls: who ends them, what a late answer does, and what keeps a session alive.

`PROJECT.json` lists every such hazard at its line, with the properties that cover it.

### What makes each part correct

* An edit of crontab or chain replaces the editor's own lines or rules and nothing else, from any
  state that overlapping or interrupted editors have left.
* At every minute exactly the scheduled domains are blocked, and a disturbed schedule is restored.
* What a request changes on the router or the card is what the user picked on the page; what a page
  reports as done is done; what it shows as saved is saved; limits hold whoever else is adding.
* A page is covered while something it began is under way; a timer closes its own message; a refresh
  belongs to the page that is shown.
* An upload that says 100% is whole, a cancelled one is gone.
* Loops and polls end, no page waits for ever, a session that is left ends.

## 2. The modules

A variable is what a file, a chain, a browser's variable or an element of the page holds; an action
is one command of a script, or one handler of a page up to its next request. `PROJECT.json` maps
every definition to its lines. Names follow the source.

### Crontab

`crontab` and `tmp` count lines by owner (five scripts own lines; `fw_ui_transfer.sh` adds two per
section). Each running script (`Proc`) has a control point `pc`, its command `op`, the lines left to
append and the buffer its `cp` or `sed -i` has read. `cp` is three steps: open with truncation,
write, or failure when the source is missing; `sed -i` reads, then renames. `PowerCycle` stops every
script, empties `/var`, and starts crond only if there is a crontab directory with content. Ghosts:
`alone[p]`, nothing has overlapped the run; `old`, `want`, the crontab it found and what it was
asked for.

`EditIsExact`: an edit that nothing overlaps is exact over any leftovers. `ForeignLinesKept`: the
only moment at which it exposes other scripts' lines is inside `cp`. `TmpIsTransient` and
`RebootArmed` hold under every overlap. With overlap `EditIsExact` is false, as the code takes no
lock: that is a hazard of the design and stated as such, not as an error.

`CrontabEdits` is the promise of a script by itself: it is asked for a number of its lines and puts
them in the place of those there are, in one step (`Make`) that touches nothing else. The power may
cut it short (`Cut`), which leaves the old crontab, an empty one, or the edit with some of its lines.
From the moment a second script starts everything is open (`Overlap`) until the last one has ended
(`Settle`). `EditsSpec` says that `Crontab` implements it. The mapping shows the crontab the edit
began with until the edit is made, so that the truncation, the filtering and the appending of single
lines are stutters; what they leave when the power goes is not hidden.

### DnSchedule

The clock `now` in minutes of a short day, the configuration (`on`, `cfg`: section to window), the
minutes `lines` in the crontab, crond with the minutes `table` it has read, the list `hosts` being
built, whether dnsmasq has it `registered`, and what dnsmasq has `blocked`. A run copies the
configuration when it starts (`snap`), puts its lines, looks at the clock once per section
(`AddHost`), restarts dnsmasq, and only then registers the list, so that the very first run
blocks nothing. `due` is what the firewall daemon and crond have asked for. Crontab edits are one
step here; `Crontab` has the commands.

`BlockedOnSchedule` says that outside the named disturbances (`missed`) exactly the domains whose
window it is are blocked whenever nothing is running. The disturbances are in the code: crond with
an old table, a clock that is set, two runs at once, a list not registered, and the cron line of a
filter that was switched off meanwhile (`DN_RESET` ignores the switch). `Heals` says that an enabled
filter returns to its schedule by its own cron lines after the last disturbance, as long as one line
is left. That premise is needed: `DN_DISABLE` next to `DN_RESET` can leave a filter that is on
without a line, and then nothing runs again until the next edit.

### ForwardChain

FORWARD as a sequence of kinds of rules, PREROUTING likewise, which of the two accounting chains exist
(`chains`) and which of them have rules for hosts (`hosts`). One step is one `iptables` command: each
`-N`, `-F` and `-X` by itself, so that of two chains one may be there without the other, and `-I` of a
jump to a chain that is not there fails, as `-X` of a chain does that is jumped to or has rules. Only
the two `-A` for a host are one step by chain. `PORT_TRIGGER_RESET` lists the numbers of its rules and
deletes from the highest down; `setup`, `remove`, `update_wan` (a loop over interfaces) and `update_ip`
keep the chains, the jumps to them and the hosts in them. `PowerCycle` rebuilds the firewall's own
chains. Scripts start as often as they like, over one another too.

Module `Rows` has what this module and `RuleTable` share: the n-th of a set of line numbers, and a
list without some of its rows. `Without`, the chain without the rules of some kinds, is defined with
it. `EditIsExact` as for the crontab, for the accounting chains as well and from every state that
overlapping scripts leave: jumps to one chain only, a chain that nothing jumps to, one that kept its
hosts. `ScriptsEnd` is the termination of the loops that delete until nothing is found. Its premise is
that rules are not inserted into FORWARD for ever: each overlapping `setup` or `update_wan` can feed
the loop of another script a new pair of jumps as fast as it removes them, and so can port triggers,
which a number listed before the insertion then names. `OldJumpsRemoved` is what two comments of
`setup` say; it is false, see section 5.

### RuleTable

One behaviour is about one of six pages, any number of browsers, and the router's list. A page goes
"closed", "idle", "wait" (the request is on its way, mostly behind a delay of 200 ms), "after". The
router (external) may refuse, or carry out a request whose answer is lost; a read may fail and show
an empty list. Ghosts say which pages another session has outdated (`behind`), which own changes
they do not know of (`lost`), and what has gone wrong in the behaviour so far (`past`).

Rules are values that two browsers may both have chosen; on the page of fixed addresses they are
records of an IP and a MAC address, since the page looks for each of them separately. It looks for
the MAC address as it was typed and posts it in lower case: `Lower` is any function from addresses to
addresses, and `past` notes when it has changed one ("spelled"). The settings of the filter pages are
the texts that were read: `""` after a failed read, and "none" for what a select without a selection
gives, which JavaScript does not find equal to `""`. On the IP filter page list and policy come in one
answer and fail together (`ReadPage`), on the domain filter page they are read one by one.

`HitsWhatWasPicked` is the one that matters: the rows deleted or replaced hold the rules that were
shown, although the request names row numbers. It holds unless another session has changed the list,
which nothing in the protocol could detect. The domain and IP filter pages read the list after every
answer and survive a lost one; port mapping, port trigger, static routes and fixed addresses read
it after "OK" only and do not: delete, lose the answer, delete again, and the wrong rule is gone.
`LimitHolds` bounds what snapshots make of the limit of 16. `NoTwinRoutes` is what `isExixt` is for,
`NoTwinAddresses` what the two tests of the fixed addresses are for: no IP address is given out twice,
and no MAC address gets two as long as nobody types upper case, which makes it false (section 5).

`ShownIsSaved` follows the settings that every rule operation posts along: what an idle page takes for
saved is what the router has, failed reads included. After such a read the page takes its empty
selection for a change and posts it as an empty value, with the next rule operation or with Save; then
both sides have the empty value, and the user can still select and save another.

### PhoneBook and Sms

One browser, a device, and a world around it: `world` is chosen initially and says whether requests
are lost, others edit, the SIM card comes and goes, the narrow table is in use. A handler is split
where it sends a request. Every property names the worlds it is about.

`PhoneBook`: a delete is two requests, SIM card first, and reloads only if both succeed, so rows of
deleted contacts may remain; `HitsWhatWasPicked` says that no own change can reuse a slot before the
table is read again. `DeletedMeansGone` is about the message to the user, `NoPageBeyondLast` about
the arithmetic of `currentActivePageIdx`. Two weaknesses met on the way are excepted by `drift` and
named in the module: saving shows page 1 without making it current, and a half-failed delete keeps
rows of contacts, and links to pages, that are gone.

`Sms`: the id of an opened draft stays in the text area through Cancel, New and failed sends.
`SendNamesOpenDraft` says that no message is sent under it all the same, because a new draft hides
Send until it is saved. `DeletedMeansGone` holds for the wide table.

### Wps

The browser's event loop on the WPS page: clicks, timers and answers in any order. Globals and
requests live as long as the browser's page (`Reload` clears them, nothing else does), `wpsTimer`
and the handlers belong to one opening of the WPS page and go on after it is left. Requests are
records with the state an `XMLHttpRequest` has; `late` counts requests whose variable a newer one
has taken, since every handler looks at the variable and not at its own request. `abort()` runs the
handler of an open request inside `CancelTimer`. The router's answers are arbitrary. Time is left
out: timers fire in any order, which includes orders their lengths make unlikely.

`WaitsForSomething` says what can leave the page "pushing" for nothing: a refused request, whose
handler ends nothing, or `CancelTimerThrows`, the cancel before any poll, which calls `abort()` on
an undefined variable. `WaitBoxCloses` has the same exception. `CancelledIsQuiet` holds whatever
timers and answers of a cancelled session are outstanding; a click on Connect ends it, even with a
PIN that is rejected. The bound of 120 polls is shared by all openings and looked at when an answer
comes: `PollsBounded` says that each opening can pass it by one poll, `PollingEnds` that polling ends
all the same.

### Session

The page shown, the refresh timers that run (`running`), the box with the timer of the message in it
and the timers nobody can cancel any more (`dlg`), the operations begun and not finished (`work`),
the poll for a USSD answer, the requests of the baseband check box (`cp`), and the VPN page's poll
with what the page says (`vpn`). `ShowDlg`, `CloseDlg`, `showMsgBox` and `showMsgBoxAutoClose` are
operators on `dlg`, since a handler calls several of them; `PostXml` is one too, because a request
with parameters shows "please wait" and closes the box whoever it belongs to. There is no clock: a
timer that is set may run out at any time. The interface can be used only while no box covers it,
and on the box's own buttons; F5, timers and answers come at any time. `stray` is history: somebody
has put something into a box that was not his, which only F5 and the baseband's answer can begin.
An answer to the automatic upgrade that is not XML runs both handlers of the request (`Garbled`): the
one for errors sets the end of the session for 50 seconds later, the one for the end asks again or
shows a message. That end of the session is "leftover" in `work`, like the one after a refused firmware
file; `BoxCoversWork` excepts it, since nothing covers the page while it is pending.

`BoxCoversWork` and `AutoCloseIsOwn` say that every handler of twelve pages and the quick setup uses the one box in
the right order: while something is under way the page is covered, and a message's timer closes that
message, as long as F5 and the baseband's answer have not interfered. `RefreshFitsPage` ties the
refresh timers to the page, `PollGoesOn` the text "connecting" to the poll that will correct it,
across late answers, F5, saves and other openings of the page, all of which write the same globals.
`WaitEnds` and `LeftSessionEnds` say that "please wait" and the session of a user who has gone end,
and name what does not: the automatic upgrade's poll and the dashboard's traffic figures.

### Files

The two file sharing pages, which are two copies of the same code with differences; the actions with
`Shared` in their name are where they differ. What is common to the page's two halves, the files and
the upload, is in `Sharing`. A listing rebuilds list and rows and, in the middle of that, sets the
path that every later request names; the three sortings rebuild the rows from the list, each with its
own handlers; which buttons are shown follows the ticks. Listings fail in every way the code
distinguishes (lost, asked for a password and given one or not, card pulled out), other clients add
and remove files, and a delete may leave some of the files (`kept`). An entry of the list is the name
on the card; `Shown` is what the page's decoder makes of it (`WebDav_Utf8_To_Char` knows codes of one
and of three bytes), and requests name what is shown. The shared page leaves out what it reads as
`.gitignore` in its root (`Visible`). The tick of all is in the table's head, whose handler is installed
with the first rows and stays when a later listing has none (`head`).

A sorting puts the folders first and each part in the order of a key, ties as the card lists them or
the other way round (`ByKey`, `BySize`): `Arranged` puts each file at the place given by the number of
files ahead of it. By name, the page sorts the names in lower case and then shows, for each of them,
every entry that has it.

`RowsAreOfPath` and `DeleteHitsMeant` relate what is shown to what is requested, `ButtonsFit` the
buttons and the share dialog to the ticks, which includes that Share after a sorting names no file.
`SortKeepsFiles` says that the hand-written sortings neither lose nor invent files and do order
them; by name, files that differ in case alone are shown as often as there are of them.

### Upload and Transfer

A file goes over in chunks. A chain is a reading or a request under way; the slice, the positions and
the flags are global, so that Continue, or choosing another file, while a chunk is under way starts a
second chain that moves the positions of the first. `card` is the sequence of chunks written, each
with the upload it came from and its place, so that a hole or a foreign chunk shows. `disturbed`
names what has gone wrong: two chains ("twice"), positions the shared page leaves over ("stale"), a
request that failed ("failed"), a file that was not deleted ("undeleted"), an upload continued after
its end ("again"), a dialog closed under the upload ("closed").

`UploadIsWhole`: when the page says 100% every chunk is on the card once and at its place.
`CancelLeavesNothing`: the DELETE comes after the chunk under way, never before. `UploadEnds` under
fairness. `Transfer` is the abstract specification: chunks arrive one by one, the end is "done" with
all of them or "gone" with none, and after a disturbance everything is open. `TransferSpec` says that
`Upload` implements it, with the mapping `abstract`, `arrived` and the file's size; the reading,
slicing, pausing and asking of the detailed module are stutters.

## 3. Runs

| Run | Instance | Shows | Why the bounds are enough |
|---|---|---|---|
| `crontab` | 2 scripts at a time, 3 runs, 1 section, power cycles | four invariants, `EditsSpec` | an overlap needs two, a leftover found by an undisturbed run three |
| `dn_schedule` | a day of 2 minutes, 1 section, 2 runs at once, 3 events, fair | types, `BlockedOnSchedule`, `Heals` | two minutes give a start and a stop with nothing else in between; three events are an edit, a boot or clock setting during its effects, and one more. A day of 3 minutes with 2 events (1.2 million states) shows the same |
| `forward_chain` | 2 scripts at a time, started without end, up to 2 triggers, 2 interfaces, 1 host; FORWARD of up to 5 rules, 3 by overlapping starts; fair | `EditIsExact`, `ScriptsEnd` | two triggers are needed for numbers that shift, two interfaces for a second round; the second script is `setup` or `remove`, which edit what every other one reads; three rules let a `setup` start over one that has half done its work |
| `forward_chain_jumps` | 1 script at a time, FORWARD of up to 6 rules | violates `OldJumpsRemoved` | two setups and a trigger between them |
| `rule_table` | 2 browsers, 6 pages, 2 rules, 2 IP and 2 MAC addresses, one of these in two spellings; faults, limit and longest list by page | types, `NoTwinRoutes`, `NoTwinAddresses`, `LimitHolds`, `ShownIsSaved`, `HitsWhatWasPicked` | three rules are one more than the limit allows two browsers (port mapping); two rules make twins |
| `phonebook` | 3 slots on the device, 1 on the card, 2 rows a page, 4 contacts, 3 worlds | three invariants | two pages of two rows, the second with rows of both stores, so that a delete of two requests can take a last page |
| `sms` | 2 rows a page, 4 messages, 2 worlds | two invariants | a message and two drafts, one to come |
| `sms_narrow` | the same, narrow table | violates `DeletedMeansGone` | |
| `wps` | 2 sessions, 2 openings, bound 1, any reloads, fair | `WaitsForSomething`, `WaitBoxCloses`, `PollsBounded`, `CancelledIsQuiet`, `PollingEnds` | two openings give two timers and replaced requests; three sessions (7 million states) show nothing else |
| `session` | 12 pages, quick setup, one operation at a time, 2 VPN polls, fair | four invariants, `WaitEnds`, `LeftSessionEnds` | the box is one, so two operations meet only through what the first leaves; two polls are a first and a last one |
| `files` | both pages, a folder and two files whose names differ in case as shown, one of them misread, the other the hidden one; every fault | three invariants, `DeleteHitsMeant` | two folders give a wrong path, two files a wrong row and an order |
| `upload` | both pages, 2 folders, files of up to 3 chunks, 2 uploads, 2 chains, every fault, fair | `UploadIsWhole`, `CancelLeavesNothing`, `UploadEnds`, `TransferSpec` | three chunks are a first, a middle and a last one; two chains for one to move the other's positions; two uploads for leftovers |

Deadlock is checked in every run but `upload`, where the model stops because uploads are bounded and
a disturbed user goes away. Scripts, browsers and rules are symmetric where a run has no liveness
property. In `rule_table` reads fail on some pages (static routes and the two filters) and answers are
lost on another; both at once multiply the states, and are in the proofs. Lists of three rules are
looked at on one page, and of the settings the switch; the policy is read with the rest and fails, and
its being changed by users is in the proofs too.

The bounds are constants. `MaxRuns`, `MaxEvents`, `MaxLen` (by page), `MaxMade`,
`MaxId`, `MaxSections`, `MaxSessions`, `MaxOpen`, `MaxUploads`, `Chunks`, `Chain`, `MaxTimers` limit
what is counted up. In `ForwardChain` starts are not counted: `Runs` gives each script the commands it
may be started with, `Most` how many triggers, hosts or interfaces they handle, and a script starts
only while what it inserts leaves FORWARD within `MaxRules`, or within `MaxShared` beside another one.
The proofs have no such bound. `MaxTrouble` (`Upload`): after so many disturbances the user does nothing more.
`New` (`Files`): the names clients add. In `Session`, `MaxCp` requests of the baseband check box and
`MaxAsked` questions for the VPN's state may be under way, `MaxOrphans` timers out of reach,
`MaxWork` operations; behind a disturbed box the user opens only the pages in `Roaming` and begins
nothing, since the properties about the box promise nothing there. `UssdPolls` is 0: an answer is
asked for once.

`TypeOK` of `Crontab`, `Wps`, `PhoneBook`, `Sms`, `Session` and `Upload` `FilesTypeOK` and `ChainTypeOK`
hold in the same instances; each is stated in its module, left out of the runs and proved (section 4).

### Fairness

`FairSpec` of `ForwardChain`: a shell runs its script to the end (`WF` of a script's steps). `ScriptsEnd`
moreover has the premise that rules are inserted finitely often, in steps of whatever script; scripts
that insert nothing (`remove`, `update_ip`) may start for ever.
`Spec` of `Wps`: the browser fires timers and ends every request, with an answer or without.
`Spec` of `Upload`: the same, by chain, and for the timer that closes the box.
`Spec` of `Session`: `Background`, which is every timer, answer and end of a request, goes on; nothing
is assumed of the user. `WaitEnds` and `LeftSessionEnds` have the premise `Calm` instead, that from
some time on the user does nothing: F5 sets the timers anew as often as it is pressed.

`FairSpec` of `DnSchedule`: time passes (`Tick`), scripts run to their end, crond looks at the
crontab again in the end; nothing is assumed of users, clock settings or boots. `Heals` moreover
has the premise that from some time on, whenever the minute changes, no run is under way or due and
crond has read the crontab (`Punctual`). Without it a run that the next one cuts short every day, or
a crontab that crond always reads in the middle of an edit, is a counterexample; the scripts take
seconds, so the assumption is mild, but it is an assumption.

## 4. Proofs

| Theorem | Says | For |
|---|---|---|
| `CrontabProofs!TypeCorrect`, `EditsAreExact`, `ForeignLinesAreKept`, `TmpFileIsTransient`, `TimerRebootArmed` | types and every invariant of the run | any number of scripts, runs and sections |
| `CrontabProofs!EditsAreAtomic` | `EditsSpec`: `Crontab` implements `CrontabEdits` | the same |
| `DnScheduleProofs!TypeCorrect`, `DomainsBlockedOnSchedule` | both invariants of the run | any day, sections, runs, events |
| `RuleTableProofs!ListIsLimited` | `LimitHolds` | any number of browsers and any limit |
| `RuleTableProofs!PicksAreHit` | `HitsWhatWasPicked` | any number of browsers, rules and rows |
| `RuleTableProofs!TypeCorrect`, `SavedIsShown` | `TypeOK`, `ShownIsSaved` | the same, failed reads in any combination |
| `RuleTableProofs!TwinsStayOut`, `AddressesStayUnique` | `NoTwinRoutes`, `NoTwinAddresses` | the same, any function for `toLowerCase` |
| `RuleTableProofs!ChainsTypeCorrect`, `ChainEditsAreExact` | `ChainTypeOK`, `EditIsExact` | any number of scripts, triggers, hosts and interfaces |
| `WpsProofs!TypeCorrect`, `SessionsWaitForSomething`, `WaitBoxIsClosed`, `PollsAreBounded`, `CancelledSessionsAreQuiet` | types and all of the run's properties but `PollingEnds` | any number of sessions, openings and polls |
| `SharingProofs!TypeCorrect`, `UploadsAreWhole`, `CancelsLeaveNothing` | types and the invariants of the run | files of any length, any number of chains, uploads, timers and folders |
| `SharingProofs!UploadIsTransfer` | `TransferSpec`: `Upload` implements `Transfer` | the same |
| `SharingProofs!FilesTypeCorrect`, `RowsOfPath`, `ButtonsFitTicks`, `SortingsKeepFiles` | types and the three invariants of the run | any folders, names, sizes and dates, whatever interferes |
| `SharingProofs!DeletesHitMeant` | `DeleteHitsMeant` | the same |
| `SessionProofs!TypeCorrect`, `RefreshTimersFit`, `OperationsAreCovered`, `TimersCloseTheirOwn`, `ConnectingIsPolled` | types and the four invariants of the run | any pages, polls, operations at a time, requests under way |
| `PhoneBookProofs!TypeCorrect`, `PicksAreHit`, `DeletesAreReal` | types, `HitsWhatWasPicked`, `DeletedMeansGone` | any number of slots, contacts and rows, whatever interferes |
| `PhoneBookProofs!PageAfterDeleteExists` | `NoPageBeyondLast` | the same, any number of rows a page |
| `SmsProofs!TypeCorrect`, `SendsNameTheirDraft` | types, `SendNamesOpenDraft` | any number of messages and rows, both layouts |
| `SmsProofs!DeletesAreReal` | `DeletedMeansGone` outside the narrow table | the same |

Assumptions are those on the constants (`CrontabAssumption`, `DnScheduleAssumption`,
`ForwardChainAssumption`, `RuleTableAssumption`, `WpsAssumption`, `SharingAssumption`,
`UploadAssumption`, `FilesAssumption`, `SessionAssumption`, `PhoneBookAssumption`,
`SmsAssumption`), which TLC evaluates in the runs, and nothing else. Those that the proofs need beyond
types say that there is a rule, a slot in each store and room for a row on a page, and that at least
one poll is allowed.

*Crontab.* `EditIsExact` speaks of the end of a run; its inductive form says at each control point
how far a run that is alone has got (`Progress`), and which command can be where (`AtPoint`). That
two runs are never both alone and running makes the steps of others harmless. `EditsAreAtomic` follows
from the same invariant: a command of a run that is alone leaves the mapped crontab as it was until
the last one, which is `Make`; a start beside it ends its being alone and is `Overlap`; and
what a power loss leaves at each control point is one of the outcomes of `Cut`.

*DnSchedule.* The invariant follows an undisturbed run: unless an edit is pending, the crontab holds
its lines; unless anything is pending, the list is what the present minute wants, up to the sections
still to be looked at (`RunInv`). The step of `Tick` is the heart: if the minute is no start and no
stop of a section, the set of active sections does not change; if it is one, a run is due.

*RuleTable, limit.* The length of the list is not inductive. The sum of the length and of the
browsers whose page still has room (`Credit`) is: adding costs the browser its credit, which only
comes back from reading a list that is short, and then the bound holds by itself.

*RuleTable, rows.* Every page that will be used as it is now shows the router's list or nothing,
unless it is `behind` or has `lost` an answer (`Snapshot`), and a pending deletion or change has a
row to name (`PicksShown`).

*RuleTable, types and order.* A deletion posts a set of rows, and the router's list becomes its other
rows in their order. `Nth(S, k)` is the k-th of a set of numbers by rank; `NthRank` says that every
rank up to the set's size has its number, from bijections of the library's theorems instead of an
induction, and `DroppedRows` that what is left are the kept rows, each once. Types follow, and so
does that no deletion makes twins.

*RuleTable, settings.* `Saved` says that every open page that is told of all changes (`Told`: none is
noted in `behind` or `lost`) has as saved either what the router has or the empty text of a failed
read, in every mode and not only when idle, and that each post of a setting tells the other pages. An empty text never equals a
selection, so that a page that has read nothing takes nothing for saved until it has posted.

*RuleTable, twins.* As long as nothing is in `past`, the router's list has no twins, no list change was
lost, and every page that will be used as it is and is not `behind` shows that list (`Single`). In
any case, what is on its way was looked up in the snapshot of its page (`PostsNew`). A post therefore
either meets the list it was looked up in, or marks the `past`. The addresses go the same way with
`IpOf` and `MacOf` in the place of the rule itself; for the latter a post that is spelled differently
from what was looked for marks the `past` when it is sent.

*ForwardChain.* Its proofs are in `RuleTableProofs`, which extends both modules, since they rest on the
same facts about places in a set of numbers; hence the prefix in the names of its specification.
Types say which command can be where (`OpFits`), and that each accounting chain by itself is there
while a rule jumps to it or is in it. Deleting a rule of a kind leaves the chain without that kind as
it was (`WithoutDeleted`: the numbers that are kept are mapped in order, so their places stay,
`NthImage`); deleting the highest number listed leaves the lower ones right (`LinesDeleted`); a chain
without such rules is what is left of it (`WithoutNone`). `EditProgress` says at each control point of
a script that nothing has overlapped how far its edit has got, relative to what it found: the triggers
(`ResetProgress`), the jumps, with the pairs that `update_wan` has inserted for the interfaces it has
handled (`JumpProgress`, `PairFacts`), and the two chains, each at its own command (`ChainsProgress`);
`remove` can drop them because by then nothing jumps to either and both are flushed. That no other
script runs beside it makes the steps of others harmless, as for the crontab (`EditInv`).

*Wps.* The three properties need each other and three facts more: a cancelled session is over, has
no request under way, and its poll request is cut (`CancelInv`), so that late answers find nothing
to process; every session has made a request, and an open registration is not marked cancelled
(`RequestInv`); a poll that is due follows one that was sent (`TimerInv`). What a handler does is
stated once (`QueryStep`, `PushStep`, `ResultStep`) and used for its own and for late answers. For
`PollsBounded` a poll that is due counts as sent: the sum of the count and of the timers set is at most
the bound and the number of openings (`CountInv`), since a timer is set only within the bound, and one
that fires moves from one to the other.

*Upload.* The inductive invariant is `AllOld /\ (disturbed = {} => Calm)`: nothing under way or on the
card is of an upload to come, and an undisturbed upload has one chain at most, which is where the
positions say, with exactly the chunks before it on the card; when it waits (paused, or asking), the
same without a chain; after a cancellation the folder is empty. `TypeOK` alone cannot exclude that
the two globals and the request under way disagree, which is what a second chain does; the history
`disturbed` marks exactly the steps that begin one. The refinement follows from it: the initial state
maps to an initial state, and every step to a step of `Transfer` or a stutter, one lemma per action.

*Session.* The box is one for everything, so its properties need each other (`BoxInv`). As long as
nothing has disturbed the box, at most one operation is under way and it has the page covered; a
timer that closes a message is that message's; and a Wi-Fi step stays until it is saved (`Mine`).
Beside that, the quick setup's question is asked at its Wi-Fi step only (`PageInv`), no page but the
VPN's says that it is connecting (`VpnInv`), and nothing of a session is left at the login (`Clean`).
Types and bounds need none of this (`Bounded`): without a box no timer is set, so that all handlers but
the baseband's answer, whose guard is the bound, find the variable `timeout` free when they set it; and
whoever sets the VPN page's timer has counted one question less than its bound. A left-over end of the
session is not counted among the operations (`Counted`).

*PhoneBook.* Contacts are numbered as they are made, and each is in one slot at most (`BookInv`); a
row's contact is in the row's slot or nowhere, and without another browser nothing else is in that
slot (`RowsInv`), since whatever of the page's own could fill a slot reads the table again. For a
deletion of two requests the invariant says at each control point what the first one has removed
(`GoneInv`), which no later step of this page or of another can bring back.

*PhoneBook, pages.* The place of a row is the number of rows before it (`Place`), and its page follows
from the place by division. Places are distinct, every place up to the number of rows is taken
(`PlaceTaken`), and those before the deleted rows do not change (`PlaceGrows`). The invariant `PInv`
says that outside `drift` the table is the current page of the list (during a deletion, of the list
with the ticked rows), and at each control point of a deletion which ticked contacts are still there.
So, if anything is left in the list, the page shown after a deletion has a row: the page before is
full, or a row that was not ticked is still on this one.

*Sms.* Ids are given once, so that the place of a deleted message stays empty (`MadeInv`); the text
area keeps an id among the drafts only and, while Send shows, it is that of the draft in the room
(`SendInv`); what was deleted is spoken of only with the room closed (`GoneInv`).

*Files.* Its proofs are in `SharingProofs`, beside those of the upload, since the two modules share
`Sharing`; hence the prefix of `FilesTypeCorrect`. A sorting puts each file at the place that is the
number of files ahead of it. In a strict order of a finite set these numbers are different for
different members and fill an interval, so that `Arranged` has every member once and in order; no
induction is needed. Each key gives an order in which "level" is transitive (`WeakOrder`), and ties
broken by position make it strict (`Sooner`). The array that the name sorting does not take files out
of is the same with pairs of places (`EachInOrder`). The invariant (`FilesInv`) says that the rows are
of the folder that requests name (`PathInv`), that no listing names a file twice and that the rows are
the list in its order (`ListInv`), what the buttons shown, or left over from before a sorting, say of
the ticks (`TickInv`), and that a share dialog is of the row ticked and a box that asks for a password
means that nothing is listed (`DlgInv`).

Only model-checked: liveness (`Heals`, `ScriptsEnd`, `PollingEnds`, `UploadEnds`, `WaitEnds`,
`LeftSessionEnds`), since fairness and ENABLED are out of the prover's reach.

## 5. Findings

* `clients_stat.sh:134`: `setup` looks for old jumps only if the first rule is one; after a
  port-trigger rule was put before them it inserts a second pair, and traffic is counted twice
  (`forward_chain_jumps`).
* `sms.js:722`: in the narrow table `GetSelSmsId` takes the ids from the sender's cell; Delete, Copy
  and Move name phone book indices instead of messages (`sms_narrow`).

Observations without a run of their own. The models have these behaviours, and the properties name
them as exceptions where they bear on one.

Pages that wait:

* Saving DNS or VPN settings that the router refuses closes "please wait" and says nothing
  (`dns_settings.js:57`, `vpn.js:229`).
* Saving VPN settings cancels the poll before it checks them (`vpn.js:222`): a save that changes
  nothing leaves "connecting" on the page. An answer to a question of before the save still counts
  for the new settings.
* The internet page reports success if any of its requests succeeded, and the later ones close the
  message of an earlier failure.
* The quick setup compares an empty answer with `false`, which JavaScript finds equal: a failed Wi-Fi
  setting is reported as a wrong number of clients.
* The restart and the factory reset log out whatever the answer was (`router_management.js:107-133`),
  a firmware upload 100 seconds later even if the file was refused.
* The automatic upgrade asks once a second for ever on any answer but 0 and 2
  (`software_upgrade.js:213`), an empty one included.
* Blocking clients reloads whatever page is shown when its timer runs out, and takes a lost answer for
  success.
* The dashboard's traffic figures set the session's timer back (`dashboard.js:847`): its user is never
  logged out.

Pages with lists:

* The page of fixed addresses looks for the MAC address as typed (`dhcp_settings.js:710,747`) and posts
  it in lower case (575, 614): typed in upper case an address that is in the list is not found, and the
  router gets it twice, although there is a message for that (`lt_MacAddrIsExist`).
  `NoTwinAddresses` excepts it ("spelled").
* After a failed read of the switch or the policy the filter pages have an empty text read and nothing
  selected, take that for a change, and post an empty value with the next rule operation
  (`wifiDnfilter.js:118,297`, `wifiIpFilter.js:147`).
* A list page that does not read after a failure (port mapping, port trigger, static routes, fixed
  addresses) deletes the wrong rule after a lost answer.
* Lost answers count as success where a page compares with 0 (`phonebook.js:779`); a contact list stays
  as it was behind a half-failed delete. The next delete may then show an empty page although
  contacts remain (763-783): the proof of `NoPageBeyondLast` did not go through without excepting it.
* Saving an opened draft always makes a second one (`sms.js:660`).
* The WPS page's cancel before any poll throws and leaves the wait box open (`WPSSettings.js:289`); a
  registration cut by its own cancel shows an error, since `registCanclePush` is set after the abort
  (156, 288, 293).
* On the shared page the handlers of rows differ after a sorting (`webdavobj_shared.js:1176`), and the
  upload's positions are not reset (1735).
* Nothing reacts to a chunk that fails; Pause and Continue then send the one after it, and the page
  says 100% over a hole.

Scripts:

* `fw_ui_transfer.sh:157` defines `set_dmz_enable` a second time, for port mappings: DMZ redirects are
  not enabled again with the firewall.
* `clients_stat.sh:93` and 137 delete jumps until a deletion fails, looking for the number in one command
  and using it in another: another script's insertion in between makes it the number of a rule that is
  not a jump, and scripts that go on inserting keep the loop going (the premise of `ScriptsEnd`).
* `clients_stat.sh:19` tests and creates its lock in two steps.
* `fw_ui_transfer.sh:514` deletes by numbers while a reload may insert at the head of the chain: with an
  overlap the wrong rule goes (`EditIsExact` is for runs that nothing overlaps).
* `DN_DISABLE` next to `DN_RESET` can leave a filter that is on without a cron line (`DnSchedule`).

## 6. Limits

* Services, crond, dnsmasq, the card's WebDAV server and the kernel's packet filter are external:
  modelled from how the code here uses them, nondeterministic where that leaves it open.
* Contents are abstract: a rule is a value, a domain is its section, a message is its id, a file its
  name, size and date by rank, a chunk its number. Validation of forms is taken as "rules that pass
  it".
* In `RuleTable` the delay before posting is part of "wait": the overlay of "please wait" covers the
  menus, so that only F5 or closing the window can leave a page then, which ends the delay as well.
* In `ForwardChain` the hosts of an accounting chain are none or some; which ones is left out.
* `HitsWhatWasPicked` of `PhoneBook` is for one browser. With two, a slot can be reused unseen.
* The SMS page's report polling and contact dialog, and the contacts page's message dialog, are not
  in the models.
* `Session` has one operation under way at a time and no clock, so that nothing is said of how long a
  wait lasts. The digest header and its nonce, the advice about a weak password and the page a reload
  returns to are left out.
* `Files` leaves out the shared page's read-only mode, which hides buttons, and the download handler,
  which nothing calls.

Not modelled:

* Pages that `ui_mifi.xml` has commented out, so that they cannot be reached: the USSD and SIM toolkit
  pages, 5 GHz Wi-Fi, the portal, QoS, TR-069, OpenVPN. Their code is present.
* Pages that post one form and keep nothing between requests: time, users, SSH tunnel, diagnostics,
  message settings, SIM PIN, work mode, profiles, dynamic DNS, access control, DMZ. What could go
  wrong in them is the answer's check, which reading shows better than a model.
* MAC filter: a list posted whole, without rows that could be mistaken.
* Validation and XML helpers: pure functions on strings, the matter of unit tests.
* The passes over the firewall configuration that enable and disable groups of rules
  (`fw_ui_transfer.sh` 28-208, 447-498), the counters of `clients_stat.sh`, `qos.sh` and the switching
  of the radios: single scripts that compute options and commands; their shared files and chains are
  in `Crontab` and `ForwardChain`.
* `etc/init.d`, `lib/netifd`, `lib/preinit`, `sysupgrade`, the dynamic DNS updater: as OpenWrt
  distributes them, called by binaries whose order of calls the repository does not show.
* Binaries, images, vendored libraries and data.

## 7. What is left

* `DnSchedule` takes a crontab edit as one step. `CrontabEdits` says when that is so; the composition
  of the two, in which the schedule would meet the crontab that overlapping scripts leave, is not
  written.
* `Session` together with the pages that have a module of their own (rules, contacts, messages, WPS,
  files): these are opened there as pages with nothing under way, or not at all, so that a page left
  in the middle of one of their handlers is covered only by the module of that page.
