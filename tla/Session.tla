------------------------------ MODULE Session ------------------------------
(***************************************************************************)
(* A session of the web interface: which page is shown, which timers run   *)
(* behind it, who opens and closes the one dialog box, and when the        *)
(* session ends.                                                           *)
(*                                                                         *)
(* The interface has one box (ShowDlg puts a dialog into it and covers the *)
(* page, CloseDlg takes it away), one variable for the timer of a message  *)
(* that closes by itself, one set of refresh timers and one timer for the  *)
(* poll of the VPN.  Nothing says whose box it is: an operation that runs  *)
(* behind "please wait" trusts that nobody else touches the box.  The user *)
(* can act on the page only while there is no box, or on the box's own     *)
(* buttons; F5, which loads the page's content again, works at any time,   *)
(* and so do answers and timers.                                           *)
(*                                                                         *)
(* Requests made with PostXml freeze the interface until they are          *)
(* answered, so that a handler that makes several of them is one step.     *)
(* There is no clock: a timer that is set may run out at any time.         *)
(***************************************************************************)
EXTENDS Naturals, FiniteSets

CONSTANTS
  Pages,     \* the pages of the menu to look at
  Options,   \* what config.js switches on: "poweroff", "cp_local", "fota_ap"
  VpnPolls,  \* the VPN page asks so many times (15 in the code)
  UssdPolls, \* a USSD answer is asked for so often and once (15 in the code)
  MaxCp,     \* bound: clicks on the baseband check box not answered yet
  MaxAsked,  \* bound: questions for the VPN's state not answered yet
  MaxOrphans,\* bound: timers of messages that nobody can cancel any more
  MaxWork,   \* bound: operations under way at a time
  Roaming    \* bound: what the user may open behind a disturbed box

Refreshing == {"dashboard", "devices", "activity", "statistics", "log"}
Forms == {"vpn", "manage", "dns", "dhcp", "internet", "wifi", "traffic",
          "upgrade", "config"}
Setup == {"account", "qs internet", "qs wifi", "guide"}
Queries == {"logout", "dns", "dhcp", "poweroff", "reboot", "reset", "fota",
            "qs wifi"}

ASSUME SessionAssumption ==
  /\ Pages \subseteq Refreshing \cup Forms /\ "dashboard" \in Pages
  /\ Options \subseteq {"poweroff", "cp_local", "fota_ap"}
  /\ VpnPolls \in Nat \ {0} /\ UssdPolls \in Nat
  /\ MaxCp \in Nat /\ MaxAsked \in Nat \ {0} /\ MaxOrphans \in Nat
  /\ MaxWork \in Nat \ {0} /\ Roaming \subseteq Pages \cup {"account"}

VARIABLES
  page,     \* the page shown, or "login"
  running,  \* the pages whose refresh timer runs
  dlg,      \* the box, the timer of the message in it, timers out of reach
  work,     \* what has been begun and not yet finished
  ussd,     \* how often the poll for a USSD answer has asked, if there is one
  cp,       \* requests of the baseband check box under way
  vpn,      \* the VPN page's poll and what it shows
  stray     \* history: somebody has put something into a box that was not his
vars == <<page, running, dlg, work, ussd, cp, vpn, stray>>

NoPoll == UssdPolls + 2
NoBox == [box |-> "none", timeout |-> "off", orphans |-> 0]
NoVpn == [timer |-> FALSE, asked |-> 0, older |-> 0, n |-> 0, shown |-> "none",
          up |-> FALSE, gaveUp |-> FALSE]

\* The history is forgotten once nothing is left that it could explain.
Tidy == dlg = NoBox /\ work \subseteq {"leftover"} /\ ussd = NoPoll
Kept == stray' = (stray /\ ~Tidy')

Init ==
  /\ page = "login" /\ running = {} /\ dlg = NoBox /\ work = {}
  /\ ussd = NoPoll /\ cp = 0 /\ vpn = NoVpn /\ stray = FALSE

-----------------------------------------------------------------------------
(* The box.  A message's timer is "own" while the box shows that message,  *)
(* "other" when something else has been put into the box since.            *)

ShowDlg(d, what) ==
  [d EXCEPT !.box = what, !.timeout = IF @ = "own" THEN "other" ELSE @]
Wait(d) == ShowDlg(d, "wait")
showMsgBox(d) == ShowDlg(d, "message")

\* The variable timeout forgets the timer it held.
showMsgBoxAutoClose(d) ==
  [box |-> "message", timeout |-> "own",
   orphans |-> IF d.timeout = "off" THEN d.orphans ELSE d.orphans + 1]

CloseDlgKeepsTimer(d) == [d EXCEPT !.box = "none"]
CloseDlg(d) == [d EXCEPT !.box = "none", !.timeout = "off"]

\* A request with parameters shows "please wait" itself and takes it away.
PostXml(d) == CloseDlg(Wait(d))

Told(d, ok) == IF ok THEN showMsgBoxAutoClose(d) ELSE showMsgBox(d)

CloseBox ==
  /\ dlg.box \in {"message"} \cup Queries
  /\ dlg' = CloseDlg(dlg)
  /\ page' = IF dlg.box = "qs wifi" THEN "guide" ELSE page
  /\ UNCHANGED <<running, work, ussd, cp, vpn>> /\ Kept

MessageTimer ==
  /\ dlg.timeout # "off"
  /\ dlg' = CloseDlg(dlg)
  /\ UNCHANGED <<page, running, work, ussd, cp, vpn>> /\ Kept

OrphanedTimer ==
  /\ dlg.orphans > 0
  /\ dlg' = [CloseDlg(dlg) EXCEPT !.orphans = @ - 1]
  /\ UNCHANGED <<page, running, work, ussd, cp, vpn>> /\ Kept

-----------------------------------------------------------------------------
(* Beginning and end of a session.  The page of the login is a new         *)
(* document: every timer and every request of the old one is gone.         *)

clearAuthheader ==
  /\ page' = "login" /\ running' = {} /\ dlg' = NoBox /\ work' = {}
  /\ ussd' = NoPoll /\ cp' = 0 /\ vpn' = NoVpn /\ stray' = FALSE

Asked(v) == v.asked + v.older

\* What sends requests again and again that set the session's timer back.
\* The refreshes ask not to ("clearInterval"), but for the traffic figures of
\* the dashboard.
Quiet == {"devices", "activity", "statistics", "log"}
ExtendingByAll == Refreshing
Extending == Refreshing \ Quiet
resetInterval ==
  \/ running \cap Extending # {}
  \/ vpn.timer \/ Asked(vpn) > 0
  \/ ussd # NoPoll
  \/ "fota status" \in work

SessionExpires == page # "login" /\ ~resetInterval /\ clearAuthheader

\* A request is answered with error_cause 5.
Refused == page # "login" /\ clearAuthheader

logOut ==
  /\ page # "login" /\ dlg.box = "none" /\ dlg' = ShowDlg(dlg, "logout")
  /\ UNCHANGED <<page, running, work, ussd, cp, vpn>> /\ Kept

logOutYes == dlg.box = "logout" /\ clearAuthheader

-----------------------------------------------------------------------------
(* The VPN page's poll.                                                    *)

getVPNInfo(v, proto) ==
  IF proto = "none"
  THEN [v EXCEPT !.shown = "none"]
  ELSE [v EXCEPT !.shown = "connecting", !.timer = TRUE, !.n = 0, !.up = FALSE,
                 !.gaveUp = FALSE]

getVPNStatu ==
  /\ vpn.timer /\ Asked(vpn) < MaxAsked
  /\ vpn' = [vpn EXCEPT !.timer = FALSE, !.n = @ + 1, !.asked = @ + 1]
  /\ UNCHANGED <<page, running, dlg, work, ussd, cp>> /\ Kept

\* Without a timer or a question under way the count means nothing.
Rest(v) == IF v.timer \/ Asked(v) > 0 THEN v ELSE [v EXCEPT !.n = 0]

\* An answer, to a question of this opening of the page or of an earlier one.
Answered(v, mine) ==
  IF mine THEN [v EXCEPT !.asked = @ - 1] ELSE [v EXCEPT !.older = @ - 1]
Arrives(mine) == IF mine THEN vpn.asked > 0 ELSE vpn.older > 0
Show(text) == IF page = "vpn" THEN text ELSE vpn.shown

\* While the state is not UP it is asked for again, two seconds later.
AgainOnce == vpn.n = 1 /\ vpn.n < VpnPolls
Again == vpn.n < VpnPolls
VpnAnswer(up, mine) ==
  /\ Arrives(mine)
  /\ vpn' = Rest([Answered(vpn, mine) EXCEPT
       !.timer = ~up /\ Again,
       !.up = @ \/ (up /\ mine /\ page = "vpn"),
       !.shown = IF up THEN Show("connected")
                 ELSE IF vpn.n < VpnPolls THEN @ ELSE Show("disconnected")])
  /\ UNCHANGED <<page, running, dlg, work, ussd, cp>> /\ Kept

\* The callback is called for an answer with status 200 only.
VpnNoAnswer(mine) ==
  /\ Arrives(mine)
  /\ vpn' = Rest([Answered(vpn, mine) EXCEPT
       !.gaveUp = @ \/ (page = "vpn" /\ ~vpn.timer /\ Asked(vpn) = 1)])
  /\ UNCHANGED <<page, running, dlg, work, ussd, cp>> /\ Kept

\* The state shown follows the protocol chosen, not the poll.
SelectProtocol(proto) ==
  /\ page = "vpn" /\ dlg.box = "none"
  /\ vpn' = [vpn EXCEPT !.shown = CASE proto = "none" -> "none"
               [] proto = "saved" /\ vpn.up -> "connected"
               [] OTHER -> "disconnected"]
  /\ UNCHANGED <<page, running, dlg, work, ussd, cp>> /\ Kept

-----------------------------------------------------------------------------
(* Pages.  The menu is behind the box while there is one.                  *)

\* What onLoad(true) does to the box: the internet page reads its settings
\* with a request that has parameters, the dashboard reports new messages.
GetWanConfig(d) == PostXml(d)
ShowsSettings(p) == p \in {"internet", "qs internet"}
onLoad(d, p, sms) ==
  IF ShowsSettings(p) THEN GetWanConfig(d)
  ELSE IF p = "dashboard" /\ sms THEN showMsgBox(d) ELSE d

clearRefreshTimers == {}
Left ==
  Rest([vpn EXCEPT !.timer = FALSE, !.shown = "none", !.up = FALSE,
                   !.gaveUp = FALSE, !.asked = 0, !.older = @ + vpn.asked])

\* The constructor sets the page's refresh timer, then the page is loaded.
Load(p, sms, proto, kept) ==
  /\ page' = p
  /\ running' = kept \cup ({p} \cap Refreshing)
  /\ dlg' = onLoad(dlg, p, sms)
  /\ vpn' = IF p = "vpn" THEN getVPNInfo(Left, proto) ELSE Left
  /\ UNCHANGED <<work, ussd, cp>> /\ Kept

Login(sms) == page = "login" /\ Load("dashboard", sms, "none", {})

Menu == page \notin Setup \cup {"login"} /\ dlg.box = "none"

createMenu(sms) ==
  /\ Menu /\ Load("dashboard", sms, "none", clearRefreshTimers)

displayForm(p, proto) ==
  /\ Menu /\ p \in Pages \ {"dashboard"} /\ (stray => p \in Roaming)
  /\ Load(p, FALSE, proto, clearRefreshTimers)

FirstOfThirdLevel == {"devices", "activity"}
displaySubFormKeeps(p) ==
  Menu /\ p \in Pages \cap FirstOfThirdLevel /\ Load(p, FALSE, "none", running)
displaySubForm(p) ==
  /\ Menu /\ p \in Pages \cap FirstOfThirdLevel /\ (stray => p \in Roaming)
  /\ Load(p, FALSE, "none", clearRefreshTimers)

\* F5 loads the content of the page shown again.  The quick setup's first and
\* last step have none.
F5(sms, proto) ==
  /\ page \notin {"login", "account", "guide"}
  /\ UNCHANGED <<page, running, work, ussd, cp>>
  /\ dlg' = onLoad(dlg, page, sms)
  /\ vpn' = IF page = "vpn" THEN getVPNInfo(vpn, proto) ELSE vpn
  /\ stray' = (~Tidy' /\ (stray \/ (dlg' # dlg /\ dlg.box # "none")))

QuickSetup ==
  /\ Menu /\ (stray => "account" \in Roaming)
  /\ page' = "account" /\ running' = clearRefreshTimers /\ vpn' = Left
  /\ UNCHANGED <<dlg, work, ussd, cp>> /\ Kept

showDiv(p) ==
  /\ page \in Setup /\ dlg.box = "none"
  /\ page' = p /\ dlg' = onLoad(dlg, p, FALSE)
  /\ UNCHANGED <<running, work, ussd, cp, vpn>> /\ Kept

ExitQuickSetup(sms) ==
  /\ page \in Setup /\ dlg.box = "none"
  /\ Load("dashboard", sms, "none", clearRefreshTimers)

SaveQsAccountSet(changed) ==
  /\ page = "account" /\ dlg.box = "none"
  /\ page' = "qs internet"
  /\ dlg' = IF changed
            THEN showMsgBoxAutoClose(onLoad(PostXml(dlg), page', FALSE))
            ELSE onLoad(dlg, page', FALSE)
  /\ UNCHANGED <<running, work, ussd, cp, vpn>> /\ Kept

-----------------------------------------------------------------------------
(* Operations.  Most put up "please wait" and begin a tenth of a second    *)
(* later; in between the interface is not frozen.                          *)

Free(p) == page = p /\ dlg.box = "none"
Begin(w) ==
  /\ ~stray \* bound
  /\ Cardinality(work) < MaxWork
  /\ work' = (work \cup {w}) /\ work' # work
Done(w, next) == w \in work /\ work' = (work \ {w}) \cup next

\* Behind a question: the page that asks, and what it begins when confirmed.
PageOf == [dns |-> {"dns"}, dhcp |-> {"dhcp"}, reboot |-> {"manage"},
           reset |-> {"manage"}, poweroff |-> {"manage"}, fota |-> {"upgrade"}]
Ask(w) ==
  /\ \E p \in PageOf[w] : Free(p)
  /\ w = "poweroff" => "poweroff" \in Options
  /\ w = "fota" => "fota_ap" \in Options
  /\ dlg' = ShowDlg(dlg, w)
  /\ UNCHANGED <<page, running, work, ussd, cp, vpn>> /\ Kept

Confirm(w) ==
  /\ dlg.box = w /\ dlg' = Wait(dlg) /\ Begin(w)
  /\ UNCHANGED <<page, running, ussd, cp, vpn>> /\ Kept

Others == UNCHANGED <<page, running, ussd, cp, vpn>> /\ Kept

SetDnsOnce(ok) ==
  /\ Done("dns", IF ok THEN {"logout"} ELSE {})
  /\ dlg' = PostXml(dlg) /\ Others
SetDns(ok) ==
  /\ Done("dns", IF ok THEN {"logout"} ELSE {})
  /\ dlg' = IF ok THEN Wait(PostXml(dlg)) ELSE PostXml(dlg)
  /\ Others

SetDhcp(ok) ==
  /\ Done("dhcp", IF ok THEN {"logout"} ELSE {})
  /\ dlg' = IF ok THEN dlg ELSE showMsgBox(dlg)
  /\ Others

\* Without a new address there is nothing to ask.
SaveDhcp(ok) ==
  /\ Free("dhcp") /\ dlg' = Told(dlg, ok)
  /\ UNCHANGED <<page, running, work, ussd, cp, vpn>> /\ Kept

\* Whatever the router answers, 45 seconds later the session is over.
Restart(w) ==
  /\ w \in {"reboot", "reset"} /\ Done(w, {"logout"})
  /\ UNCHANGED <<dlg, page, running, ussd, cp, vpn>> /\ Kept

PowerOff ==
  /\ Done("poweroff", {})
  /\ UNCHANGED <<dlg, page, running, ussd, cp, vpn>> /\ Kept

LogoutTimer == work \cap {"logout", "leftover"} # {} /\ clearAuthheader

\* The poll is stopped before anything is checked.
SaveVpn(valid) ==
  /\ Free("vpn")
  /\ vpn' = Rest([vpn EXCEPT !.timer = FALSE,
                             !.gaveUp = @ \/ (vpn.timer /\ Asked(vpn) = 0)])
  /\ IF valid THEN dlg' = Wait(dlg) /\ Begin("vpn") ELSE UNCHANGED <<dlg, work>>
  /\ UNCHANGED <<page, running, ussd, cp>> /\ Kept

SetVpn(ok, proto) ==
  /\ Done("vpn", {})
  /\ dlg' = IF ok THEN showMsgBoxAutoClose(PostXml(dlg)) ELSE PostXml(dlg)
  /\ LET v == getVPNInfo(vpn, proto) IN
       vpn' = IF ~ok THEN vpn
              ELSE IF page = "vpn" THEN v ELSE [v EXCEPT !.shown = vpn.shown]
  /\ UNCHANGED <<page, running, ussd, cp>> /\ Kept

SaveInternet ==
  /\ Free("internet") /\ dlg' = Wait(dlg) /\ Begin("internet")
  /\ Others

\* The next step is shown while the settings of this one wait to be sent.
SaveQsInternetConnSet ==
  /\ Free("qs internet") /\ page' = "qs wifi"
  /\ dlg' = onLoad(Wait(dlg), page', FALSE) /\ Begin("internet")
  /\ UNCHANGED <<running, ussd, cp, vpn>> /\ Kept

\* Only two of the five requests look at their answer.
Settings == {"wan", "mode", "roam"}
Reported(changed, bad) ==
  {c \in changed : c \in {"wan", "mode"} => c \notin bad}
SetInternet(changed, bad) ==
  /\ Done("internet", {})
  /\ dlg' = IF Reported(changed, bad) # {}
            THEN showMsgBoxAutoClose(CloseDlg(dlg)) ELSE CloseDlg(dlg)
  /\ Others

SaveWifi ==
  /\ Free("wifi") /\ dlg' = Wait(dlg) /\ Begin("wifi") /\ Others

\* Switching it off tells a failure.  Changing it tells one too soon: the box
\* is closed behind the message.
CloseWifi(ok) ==
  /\ Done("wifi", {}) /\ dlg' = Told(CloseDlg(dlg), ok) /\ Others

ModifyWifiConfig(ok) ==
  /\ Done("wifi", {})
  /\ dlg' = IF ok THEN showMsgBoxAutoClose(CloseDlg(dlg)) ELSE CloseDlg(dlg)
  /\ Others

SaveQsWifiSet ==
  /\ Free("qs wifi") /\ dlg' = ShowDlg(dlg, "qs wifi")
  /\ UNCHANGED <<page, running, work, ussd, cp, vpn>> /\ Kept

\* The content shown now is asked to save, and the next step's page is shown,
\* if this is still the quick setup.  Most contents have no such operation: the
\* handler ends there.  The internet page has one, but returns nothing.
Guide == IF page \in Setup THEN "guide" ELSE page
SetQsWifi(what) ==
  /\ \/ /\ page \in {"qs wifi", "wifi"} /\ what = "switch off"
        /\ Done("qs wifi", {"wifi"}) /\ dlg' = Wait(dlg) /\ page' = Guide
     \/ /\ page \in {"qs wifi", "wifi"} /\ what \in {"invalid", "same"}
        /\ Done("qs wifi", {}) /\ dlg' = CloseDlg(dlg)
        /\ page' = IF what = "same" THEN Guide ELSE page
     \/ /\ page \in {"qs wifi", "wifi"} /\ what \in {"set", "failed"}
        /\ Done("qs wifi", {}) /\ dlg' = Told(CloseDlg(dlg), what = "set")
        /\ page' = Guide
     \/ /\ page = "qs internet" /\ what = "switch off"
        /\ Done("qs wifi", {"internet"}) /\ dlg' = CloseDlg(dlg)
        /\ page' = Guide
     \/ /\ page \notin {"qs wifi", "wifi"}
        /\ page = "qs internet" => what # "switch off"
        /\ Done("qs wifi", {}) /\ UNCHANGED <<dlg, page>>
  /\ UNCHANGED <<running, ussd, cp, vpn>> /\ Kept

\* A client is blocked: the router gets 15 seconds, then the page shown is
\* loaded again, whichever it is, if it has a content at all.
SetBlockStatus ==
  /\ Free("traffic") /\ dlg' = Wait(dlg) /\ Begin("block") /\ Others

BlockClients(ok) ==
  /\ Done("block", {IF ok THEN "blocked" ELSE "not blocked"})
  /\ UNCHANGED <<dlg, page, running, ussd, cp, vpn>> /\ Kept

BlockTimer(sms, proto) ==
  /\ \/ /\ Done("not blocked", {})
        /\ dlg' = showMsgBox(CloseDlg(dlg)) /\ vpn' = vpn
     \/ /\ Done("blocked", {})
        /\ dlg' = IF page \in {"account", "guide"} THEN CloseDlg(dlg)
                  ELSE showMsgBoxAutoClose(onLoad(CloseDlg(dlg), page, sms))
        /\ vpn' = IF page = "vpn" THEN getVPNInfo(vpn, proto) ELSE vpn
  /\ UNCHANGED <<page, running, ussd, cp>> /\ Kept

ResetClients(ok) ==
  /\ Free("traffic") /\ dlg' = Told(PostXml(dlg), ok)
  /\ UNCHANGED <<page, running, work, ussd, cp, vpn>> /\ Kept

-----------------------------------------------------------------------------
(* Pages with a refresh timer.                                             *)

ShowDetail ==
  /\ page \in {"devices", "activity", "log"} /\ dlg.box = "none"
  /\ dlg' = showMsgBox(dlg)
  /\ UNCHANGED <<page, running, work, ussd, cp, vpn>> /\ Kept

ClearAllPdpLog(ok) ==
  /\ Free("activity") /\ dlg' = Told(PostXml(dlg), ok)
  /\ UNCHANGED <<page, running, work, ussd, cp, vpn>> /\ Kept

\* One request and one message for each of the entries ticked.
DeletePdpLog(first, second) ==
  /\ Free("activity")
  /\ dlg' = Told(PostXml(Told(PostXml(dlg), first)), second)
  /\ UNCHANGED <<page, running, work, ussd, cp, vpn>> /\ Kept

ClearCommDataFails ==
  /\ Free("statistics") /\ dlg' = showMsgBox(PostXml(dlg))
  /\ UNCHANGED <<page, running, work, ussd, cp, vpn>> /\ Kept

\* Bound: no second command before the poll for the first one has ended.
UssdDialUp ==
  /\ Free("dashboard") /\ ussd = NoPoll
  /\ dlg' = Wait(PostXml(dlg)) /\ ussd' = 0
  /\ UNCHANGED <<page, running, work, cp, vpn>> /\ Kept

QueryUssdQuiet(empty) ==
  /\ ussd # NoPoll
  /\ IF empty /\ ussd <= UssdPolls
     THEN ussd' = ussd + 1 /\ dlg' = dlg
     ELSE /\ ussd' = NoPoll
          /\ dlg' = IF ussd > UssdPolls THEN dlg ELSE CloseDlg(dlg)
  /\ UNCHANGED <<page, running, work, cp, vpn>> /\ Kept
QueryUssdNetworkStatus(empty) ==
  /\ ussd # NoPoll
  /\ IF empty /\ ussd <= UssdPolls
     THEN ussd' = ussd + 1 /\ dlg' = dlg
     ELSE ussd' = NoPoll /\ dlg' = CloseDlg(dlg)
  /\ UNCHANGED <<page, running, work, cp, vpn>> /\ Kept

-----------------------------------------------------------------------------
(* The upgrade page and the page of the settings' file.                    *)

\* The check box of the baseband does not wait for its answer.
ToggleCp ==
  /\ Free("upgrade") /\ cp < MaxCp /\ cp' = cp + 1
  /\ UNCHANGED <<page, running, dlg, work, ussd, vpn>> /\ Kept

CpAnswer ==
  /\ cp > 0 /\ (dlg.timeout # "off" => dlg.orphans < MaxOrphans)
  /\ cp' = cp - 1 /\ dlg' = showMsgBoxAutoClose(dlg)
  /\ stray' = (stray \/ dlg.box # "none")
  /\ UNCHANGED <<page, running, work, ussd, vpn>>

CpNoAnswer ==
  /\ cp > 0 /\ cp' = cp - 1
  /\ UNCHANGED <<page, running, dlg, work, ussd, vpn>> /\ Kept

\* The session ends 100 seconds later even when the file was refused.
upgradeRouterSoftWare(what) ==
  /\ Free("upgrade")
  /\ \/ what = "no file" /\ dlg' = showMsgBox(dlg) /\ UNCHANGED work
     \/ what = "sent" /\ dlg' = Wait(dlg) /\ Begin("logout")
     \/ /\ what = "refused"
        /\ dlg' = showMsgBox(CloseDlg(Wait(dlg))) /\ Begin("leftover")
  /\ Others

upgradeCP ==
  /\ Free("upgrade") /\ "cp_local" \in Options
  /\ dlg' = Wait(dlg) /\ Begin("cp_local") /\ Others

upgradeCPRouterSoftWare_1802(file) ==
  /\ Done("cp_local", IF file THEN {"logout"} ELSE {})
  /\ dlg' = IF file THEN dlg ELSE showMsgBox(dlg)
  /\ Others

\* Is an address of a new version known?
checkVersionUpdate == BOOLEAN
autoUpgradeVersion(known) ==
  /\ dlg.box = "fota"
  /\ IF known THEN dlg' = Wait(CloseDlg(dlg)) /\ Begin("fota")
     ELSE dlg' = showMsgBox(CloseDlg(dlg)) /\ UNCHANGED work
  /\ Others

SendUpgradeUrl ==
  /\ Done("fota", {"fota asked"})
  /\ UNCHANGED <<dlg, page, running, ussd, cp, vpn>> /\ Kept

UpgradeUrlAnswer(begun) ==
  /\ Done("fota asked", IF begun THEN {"fota status"} ELSE {})
  /\ dlg' = IF begun THEN dlg ELSE showMsgBox(dlg)
  /\ Others

\* Without an answer the session ends 50 seconds later.
PostXmlAsyncForUpdate ==
  /\ \E w \in {"fota asked", "fota status"} : Done(w, {"logout"})
  /\ UNCHANGED <<dlg, page, running, ussd, cp, vpn>> /\ Kept

\* An answer that is not XML is an error and an answer: the session ends 50 seconds
\* later, and what is read from the answer is neither a beginning nor an end.
Garbled ==
  \/ /\ Done("fota asked", {"leftover"})
     /\ dlg' = showMsgBox(dlg) /\ Others
  \/ /\ Done("fota status", {"fota status", "leftover"})
     /\ UNCHANGED dlg /\ Others

\* Any other answer changes nothing: the poll asks again, without end.
QueryAutoProgradeStatus(answer) ==
  /\ Done("fota status", IF answer = "failed" THEN {} ELSE {"logout"})
  /\ dlg' = IF answer = "failed" THEN showMsgBox(CloseDlg(dlg)) ELSE dlg
  /\ Others

UpdateCfgFile ==
  /\ Free("config") /\ dlg' = Wait(dlg) /\ Begin("config") /\ Others

RestoreStatus(ok) ==
  /\ Done("config", IF ok THEN {"logout"} ELSE {})
  /\ dlg' = IF ok THEN ShowDlg(dlg, "rebooting") ELSE showMsgBox(dlg)
  /\ Others

-----------------------------------------------------------------------------
\* What loading a page can meet: a protocol set for the VPN, new messages.
Protocol(p) == IF p = "vpn" THEN {"none", "saved"} ELSE {"none"}
NewSms(p) == IF p = "dashboard" THEN BOOLEAN ELSE {FALSE}

ByUser ==
  \/ CloseBox \/ logOut \/ logOutYes \/ QuickSetup
  \/ SaveInternet \/ SaveQsInternetConnSet \/ SaveWifi \/ SaveQsWifiSet
  \/ SetBlockStatus \/ ShowDetail \/ ClearCommDataFails \/ UssdDialUp
  \/ ToggleCp \/ upgradeCP \/ UpdateCfgFile
  \/ \E sms \in BOOLEAN :
       Login(sms) \/ createMenu(sms) \/ ExitQuickSetup(sms)
  \/ \E sms \in NewSms(page), proto \in Protocol(page) : F5(sms, proto)
  \/ \E p \in Pages :
       displaySubForm(p) \/ \E proto \in Protocol(p) : displayForm(p, proto)
  \/ \E p \in Setup : showDiv(p)
  \/ \E proto \in {"none", "saved", "other"} : SelectProtocol(proto)
  \/ \E w \in DOMAIN PageOf : Ask(w) \/ (w # "fota" /\ Confirm(w))
  \/ Confirm("qs wifi")
  \/ \E known \in checkVersionUpdate : autoUpgradeVersion(known)
  \/ \E yes \in BOOLEAN :
       \/ SaveQsAccountSet(yes) \/ SaveDhcp(yes) \/ SaveVpn(yes)
       \/ ResetClients(yes) \/ ClearAllPdpLog(yes)
       \/ \E second \in BOOLEAN : DeletePdpLog(yes, second)
  \/ \E what \in {"no file", "sent", "refused"} : upgradeRouterSoftWare(what)

Operation ==
  \/ PowerOff \/ SendUpgradeUrl \/ PostXmlAsyncForUpdate \/ Garbled
  \/ \E w \in {"reboot", "reset"} : Restart(w)
  \/ \E ok \in BOOLEAN :
       \/ SetDns(ok) \/ SetDhcp(ok) \/ BlockClients(ok) \/ RestoreStatus(ok)
       \/ upgradeCPRouterSoftWare_1802(ok) \/ QueryUssdNetworkStatus(ok)
       \/ CloseWifi(ok) \/ ModifyWifiConfig(ok)
       \/ \E proto \in Protocol("vpn") : SetVpn(ok, proto)
  \/ \E sms \in NewSms(page), proto \in Protocol(page) : BlockTimer(sms, proto)
  \/ \E changed \in SUBSET Settings :
       \E bad \in SUBSET changed : SetInternet(changed, bad)
  \/ \E what \in {"switch off", "invalid", "same", "set", "failed"} :
       SetQsWifi(what)
  \/ \E begun \in BOOLEAN : UpgradeUrlAnswer(begun)
  \/ \E answer \in {"failed", "done"} : QueryAutoProgradeStatus(answer)

Background ==
  \/ MessageTimer \/ OrphanedTimer \/ SessionExpires \/ LogoutTimer
  \/ getVPNStatu \/ CpAnswer \/ CpNoAnswer
  \/ \E mine \in BOOLEAN :
       VpnNoAnswer(mine) \/ \E up \in BOOLEAN : VpnAnswer(up, mine)
  \/ Operation

Next == ByUser \/ Background \/ Refused

\* Timers run out and requests end; the session's timer does so too once
\* nothing sets it back.  Nothing is assumed of the user.
Spec == Init /\ [][Next]_vars /\ WF_vars(Background)

-----------------------------------------------------------------------------
TypeOK ==
  /\ page \in Pages \cup Setup \cup {"login"} /\ running \subseteq Refreshing
  /\ dlg.box \in {"none", "wait", "message", "rebooting"} \cup Queries
  /\ dlg.timeout \in {"off", "own", "other"} /\ dlg.orphans \in 0..MaxOrphans
  /\ Cardinality(work) <= MaxWork + 1
  /\ ussd \in 0..NoPoll /\ cp \in 0..MaxCp
  /\ vpn.timer \in BOOLEAN /\ Asked(vpn) \in 0..MaxAsked
  /\ vpn.n \in 0..VpnPolls
  /\ vpn.shown \in {"none", "connecting", "connected", "disconnected"}
  /\ stray \in BOOLEAN

\* The refresh timer that runs is the one of the page shown, and it does run:
\* its handler loads whatever page is the current one, so that a timer left
\* over would load a page that has no refresh, again and again.
RefreshFitsPage == running = {page} \cap Refreshing

\* While an operation is under way the page is covered, so that no second one
\* can be begun: unless F5 or the answer for the baseband's check box have
\* come in between, nothing opens or closes the box under an operation.  The
\* end of the session after a refused firmware file, or after an answer to the
\* automatic upgrade that is not XML, is the one exception.
BoxCoversWork ==
  ~stray /\ (work \ {"leftover"} # {} \/ ussd # NoPoll)
    => dlg.box \in {"wait", "rebooting"}

\* A message's timer closes that message and nothing else, with the same two
\* reservations.
AutoCloseIsOwn == ~stray => dlg.timeout # "other" /\ dlg.orphans = 0

\* While the VPN page says "connecting" the poll that will correct this is
\* under way, across F5, leaving the page and late answers; only a question
\* without an answer and a save that changes nothing end it.
PollGoesOn ==
  vpn.shown = "connecting" /\ ~vpn.gaveUp => vpn.timer \/ Asked(vpn) > 0

\* From some time on nobody touches the interface.
Calm == <>[][~ByUser]_vars

\* "Please wait" does not stay: the operation takes it away, or the session's
\* end.  The poll for the automatic upgrade is the exception, it has no bound.
WaitEnds ==
  Calm => ((dlg.box = "wait")
             ~> (dlg.box # "wait" \/ "fota status" \in work))

\* A session that is left alone ends, unless the dashboard is shown, which
\* sets the timer back itself, or that poll goes on.
LeftSessionEnds ==
  Calm =>
    []<>(page = "login" \/ "dashboard" \in running \/ "fota status" \in work)

=============================================================================
