----------------------------- MODULE RuleTable -----------------------------
(***************************************************************************)
(* The pages of the web interface that edit a list of rules kept by the    *)
(* router: domain filter, port mapping, port trigger, IP filter, static    *)
(* routes and fixed IP addresses. Several browsers may show the same page. *)
(* A page is a snapshot of the router's list; it names a rule by its row,  *)
(* and posts the request some time after the row was picked (most handlers *)
(* show "please wait" and post 200 ms later). A request can be refused,    *)
(* and it can be carried out while its answer is lost; a read that fails   *)
(* leaves an empty page.                                                   *)
(*                                                                         *)
(* One action per handler; it ends when the request leaves the browser.    *)
(* Answer is the router (external), the After* actions are the rest of the *)
(* handler: the reload, and on two pages the posting of the settings the   *)
(* user has changed on the page without saving them.                       *)
(*                                                                         *)
(* The filter pages keep the settings as the texts they have read: "0" and *)
(* "1" are what can be selected (for the policy, its two values), "" is    *)
(* the text of a read that failed, "none" the null of a select without a   *)
(* selection.  JavaScript finds "" and null different.                     *)
(***************************************************************************)
EXTENDS Naturals, Sequences, FiniteSets, Rows

CONSTANTS
  Session,   \* browsers
  Content,   \* contents of a rule of the pages but the last
  Ip, Mac,   \* addresses: a rule of the page of fixed addresses has both
  Lower,     \* toLowerCase
  Pages,     \* the pages to look at
  Faults,    \* the failures to look at, by page: reads ("blind"), answers ("lost")
  Fields,    \* the settings that users change, by page
  Limit,     \* a full list, by page: 16 in the code
  MaxLen     \* bounds: length of the router's list, by page

ASSUME RuleTableAssumption ==
  /\ IsFiniteSet(Session) /\ Session # {} /\ Content # {}
  /\ Lower \in [Mac -> Mac]
  /\ Pages \subseteq {"dnfilter", "portmap", "porttrigger", "ipfilter",
                      "staticroute", "fixedip"}
  /\ Faults \in [Pages -> SUBSET {"blind", "lost"}]
  /\ Fields \in [Pages -> SUBSET {"off", "policy"}]
  /\ Limit \in [Pages -> Nat \ {0}] /\ MaxLen \in [Pages -> Nat]

VARIABLES
  page,            \* the page this behaviour is about
  rules, setting,  \* the router: the list, the switch and the policy
  mode,            \* "closed", "idle", "wait" (for the router), "after"
  view, cached,    \* what the browser has read ...
  sel,             \* ... and the settings as the user has set them
  req,             \* the request on its way
  reply,           \* was the answer "OK", and does the handler look at that
                   \* for more than a message?
  behind, lost,    \* history: what another session has changed since it was
                   \* read, own changes whose answer was lost;
  past             \* history: has a page ever shown an empty list for a read
                   \* that failed ("blind"), missed an answer ("lost"),
                   \* changed a list it was behind of ("shared"), or posted
                   \* a MAC address in another spelling than it had looked
                   \* for ("spelled")?  Only where it matters

router == <<page, rules, setting>>
browser == <<mode, view, cached, sel, req, reply>>
ghosts == <<behind, lost, past>>
vars == <<page, rules, setting, mode, view, cached, sel, req, reply,
          behind, lost, past>>

-----------------------------------------------------------------------------
\* The pages that read the list after every answer, and the others, which do
\* so after "OK" only; the pages that look for equal rules.
Rereads == page \in {"dnfilter", "ipfilter"}
Compares == page \in {"staticroute", "fixedip"}

\* Does "OK" make a handler read more than it reads anyway?
ReadsAfterOK(r) == ~Rereads \/ (page = "ipfilter" /\ r.kind = "delete")

Address == [ip : Ip, mac : Mac]
Rule == Content \cup Address

Field == {"off", "policy"}
OwnFields == IF page = "ipfilter" THEN Field
             ELSE IF page = "dnfilter" THEN {"off"} ELSE {}

Option == {"0", "1"}
InitSettings == [f \in Field |-> "0"]

\* What select.val(text) leaves selected, and what a post of it carries.
Selected(text) == IF text \in Option THEN text ELSE "none"
Carried(value) == IF value \in Option THEN value ELSE ""

\* What a request makes of a list; rows that are not there are ignored.
Effect(list, r) ==
  IF r.kind = "add" THEN Append(list, r.rule)
  ELSE IF r.kind = "delete" THEN DropRows(list, r.rows)
  ELSE [i \in 1..Len(list) |-> IF i \in r.rows THEN r.rule ELSE list[i]]

Request(kind, rows, rule) == [kind |-> kind, rows |-> rows, rule |-> rule]

SomeRule == CHOOSE r \in Content : TRUE
NoRequest == Request("add", {}, SomeRule)

\* The browser posts a request: from here to the answer nothing else can be
\* clicked on the page.
Send(s, r) ==
  /\ mode[s] = "idle"
  /\ mode' = [mode EXCEPT ![s] = "wait"]
  /\ req' = [req EXCEPT ![s] = r]
  /\ UNCHANGED <<router, view, cached, sel, reply, behind, lost>>

Post(s, r) == Send(s, r) /\ UNCHANGED past

\* Mutant of Delete: the rows are counted from 0.
DeleteFromZero(s) == \E rows \in (SUBSET DOMAIN view[s]) \ {{}} :
                       Post(s, Request("delete", {i - 1 : i \in rows}, SomeRule))

Delete(s) == \E rows \in (SUBSET DOMAIN view[s]) \ {{}} :
               Post(s, Request("delete", rows, SomeRule))

Add(s) == \E r \in Content : Post(s, Request("add", {}, r))

\* Saving a rule without a change closes the dialog and posts nothing.
Modify(s) == \E i \in DOMAIN view[s] : \E r \in Content \ {view[s][i]} :
               Post(s, Request("edit", {i}, r))

NotFull(s) == Len(view[s]) < Limit[page]

\* While the switch shows "off", a filter page hides its list and buttons.
ListShown(s) == sel[s]["off"] # "1"

DelDnFilterEntry(s) == page = "dnfilter" /\ ListShown(s) /\ Delete(s)
AddDnfilterEntry(s) == page = "dnfilter" /\ ListShown(s) /\ NotFull(s) /\ Add(s)

\* The test for an unchanged rule compares the wrong fields: a rule saved
\* unchanged is posted as well.
ModifyDnfilterEntry(s) ==
  /\ page = "dnfilter" /\ ListShown(s)
  /\ \E i \in DOMAIN view[s] : \E r \in Content : Post(s, Request("edit", {i}, r))

DelPortMapEntry(s) == page = "portmap" /\ Delete(s)
\* Mutant of AddPortMapEntry: no look at the length of the list.
AddWithoutLimit(s) == page = "portmap" /\ Add(s)
AddPortMapEntry(s) == page = "portmap" /\ NotFull(s) /\ Add(s)
ModifyPortMapEntry(s) == page = "portmap" /\ Modify(s)

DelPortTriggerEntry(s) == page = "porttrigger" /\ Delete(s)
AddPortTriggerEntry(s) == page = "porttrigger" /\ NotFull(s) /\ Add(s)
ModifyPortTriggerEntry(s) == page = "porttrigger" /\ Modify(s)

DelIpFilterEntry(s) == page = "ipfilter" /\ ListShown(s) /\ Delete(s)
AddIpFilterEntry(s) == page = "ipfilter" /\ ListShown(s) /\ NotFull(s) /\ Add(s)
ModifyIpFilterEntry(s) == page = "ipfilter" /\ ListShown(s) /\ Modify(s)

\* Mutant of isExixt: a changed rule is not compared with the others.
IgnoresOthers(s, r, index) ==
  index = 0 /\ \E i \in DOMAIN view[s] : view[s][i] = r

\* Does the page show r already (on another row than index)?
isExixt(s, r, index) ==
  \E i \in DOMAIN view[s] : i # index /\ view[s][i] = r

DelSREntry(s) == page = "staticroute" /\ Delete(s)

AddSREntry(s) ==
  /\ page = "staticroute"
  /\ \E r \in Content : ~isExixt(s, r, 0) /\ Post(s, Request("add", {}, r))

ModifySREntry(s) ==
  /\ page = "staticroute"
  /\ \E i \in DOMAIN view[s] : \E r \in Content \ {view[s][i]} :
       ~isExixt(s, r, i) /\ Post(s, Request("edit", {i}, r))

DelStaticIpEntry(s) == page = "fixedip" /\ Delete(s)

\* An IP address is given to one client only, and a MAC address gets one IP
\* address only; a changed rule may keep what it had, on whatever row that is
\* found.  The MAC address is compared as typed.
ValidateStaticIpIsNotExist(s, a) ==
  \A i \in DOMAIN view[s] : view[s][i].ip # a.ip /\ view[s][i].mac # a.mac

\* Mutant of ValidateStaticIpIsNotExistExclude: only the IP address is looked for.
ExcludesIpOnly(s, a, old) ==
  \A i \in DOMAIN view[s] : view[s][i].ip = a.ip => a.ip = old.ip

ValidateStaticIpIsNotExistExclude(s, a, old) ==
  \A i \in DOMAIN view[s] :
    /\ view[s][i].ip = a.ip => a.ip = old.ip
    /\ view[s][i].mac = a.mac => a.mac = old.mac

\* The MAC address is posted in lower case.
PostAddress(s, kind, rows, a) ==
  LET posted == [ip |-> a.ip, mac |-> Lower[a.mac]] IN
    /\ Send(s, Request(kind, rows, posted))
    /\ past' = IF posted = a THEN past ELSE past \cup {"spelled"}

AddStaticIp(s) ==
  /\ page = "fixedip" /\ NotFull(s)
  /\ \E a \in Address :
       ValidateStaticIpIsNotExist(s, a) /\ PostAddress(s, "add", {}, a)

\* A rule also has a name: the addresses may be left as they are.
ModifyStaticIpEntry(s) ==
  /\ page = "fixedip"
  /\ \E i \in DOMAIN view[s], a \in Address :
       /\ ValidateStaticIpIsNotExistExclude(s, a, view[s][i])
       /\ PostAddress(s, "edit", {i}, a)

-----------------------------------------------------------------------------
Others(s, aspect) ==
  [t \in Session |-> IF t = s \/ mode[t] = "closed" THEN behind[t]
                     ELSE behind[t] \cup {aspect}]

\* The router's part: the request is carried out or refused; the answer to
\* one that is carried out may be lost, which the page takes for a refusal.
Answer(s, done, answered) ==
  /\ mode[s] = "wait"
  /\ done => Len(Effect(rules, req[s])) <= MaxLen[page]
  /\ (done /\ ~answered) => "lost" \in Faults[page]
  /\ mode' = [mode EXCEPT ![s] = "after"]
  /\ reply' = [reply EXCEPT ![s] = done /\ answered /\ ReadsAfterOK(req[s])]
  /\ IF done
     THEN /\ rules' = Effect(rules, req[s])
          /\ behind' = Others(s, "list")
          /\ lost' = IF answered THEN lost
                     ELSE [lost EXCEPT ![s] = @ \cup {"list"}]
          /\ past' = past
               \cup (IF answered \/ Rereads THEN {} ELSE {"lost"})
               \cup (IF Compares /\ "list" \in behind[s] THEN {"shared"} ELSE {})
     ELSE UNCHANGED <<rules, ghosts>>
  /\ req' = [req EXCEPT ![s] = NoRequest]
  /\ UNCHANGED <<page, setting, view, cached, sel>>

\* The page reads the list again; a read that fails shows an empty one.
ListRead(s, ok) ==
  /\ ok \/ "blind" \in Faults[page]
  /\ view' = [view EXCEPT ![s] = IF ok THEN rules ELSE <<>>]
  /\ past' = IF ok THEN past ELSE past \cup {"blind"}

ReadList(s) == \E ok \in BOOLEAN : ListRead(s, ok)

\* The texts a page finds when the reads of some fields fail.
Found(state, failed) == [f \in Field |-> IF f \in failed THEN "" ELSE state[f]]
Shown(texts) == [f \in Field |-> Selected(texts[f])]

MayFail == IF "blind" \in Faults[page] THEN OwnFields ELSE {}

SettingsRead(s, failed) ==
  /\ cached' = [cached EXCEPT ![s] = Found(setting', failed)]
  /\ sel' = [sel EXCEPT ![s] = Shown(Found(setting', failed))]

ReadSettings(s) == \E failed \in SUBSET MayFail : SettingsRead(s, failed)

\* Everything is read: on the page of the IP filter, list and policy come in
\* the same answer.
ReadPage(s) ==
  \E ok \in BOOLEAN, failed \in SUBSET MayFail :
    /\ page = "ipfilter" => (ok <=> "policy" \notin failed)
    /\ ListRead(s, ok) /\ SettingsRead(s, failed)

\* The settings that differ from what the page has read are posted.  The
\* policy is posted only while the filter is on.
Posted(had, chosen) ==
  {f \in OwnFields : /\ chosen[f] # had[f]
                     /\ f = "policy" => chosen["off"] = "0"}

PutSettings(chosen, fields) ==
  setting' = [f \in Field |-> IF f \in fields THEN Carried(chosen[f])
                              ELSE setting[f]]

Seen(s, aspects, changed) ==
  /\ behind' = [t \in Session |->
                  IF t = s THEN behind[t] \ aspects
                  ELSE IF changed = {} \/ mode[t] = "closed" THEN behind[t]
                  ELSE behind[t] \cup {"setting"}]
  /\ lost' = [lost EXCEPT ![s] = @ \ aspects]

Done(s) ==
  /\ mode' = [mode EXCEPT ![s] = "idle"]
  /\ reply' = [reply EXCEPT ![s] = FALSE]
  /\ UNCHANGED <<page, rules, req>>

\* The domain filter page reads the list after every answer, and its switch
\* only if it has just posted it.
updateSaveData(s) ==
  /\ page = "dnfilter" /\ mode[s] = "after"
  /\ ReadList(s)
  /\ LET posted == Posted(cached[s], sel[s]) IN
     \E fields \in SUBSET posted :
       /\ PutSettings(sel[s], fields)
       /\ IF posted = {} THEN UNCHANGED <<cached, sel>> /\ Seen(s, {"list"}, {})
          ELSE ReadSettings(s) /\ Seen(s, {"list", "setting"}, fields)
  /\ Done(s)

\* Mutant of updateIpFilterStatus: the settings are not read back.
PostWithoutReading(s) ==
  /\ page = "ipfilter" /\ mode[s] = "after"
  /\ ReadList(s)
  /\ \E fields \in SUBSET Posted(cached[s], sel[s]) :
       /\ PutSettings(sel[s], fields)
       /\ UNCHANGED <<cached, sel>> /\ Seen(s, {"list"}, fields)
  /\ Done(s)

\* What the IP filter page compares after an answer: after a successful
\* deletion it has read everything once more before.
HadBefore(s) ==
  IF reply[s]
  THEN {<<Found(setting, failed), Shown(Found(setting, failed))>> :
          failed \in SUBSET MayFail}
  ELSE {<<cached[s], sel[s]>>}

\* The IP filter page posts the settings that differ, and reads everything.
updateIpFilterStatus(s) ==
  /\ page = "ipfilter" /\ mode[s] = "after"
  /\ \E had \in HadBefore(s) :
     \E fields \in SUBSET Posted(had[1], had[2]) :
       /\ PutSettings(had[2], fields)
       /\ Seen(s, {"list", "setting"}, fields)
  /\ ReadPage(s)
  /\ Done(s)

ReadAfterOK(s) ==
  /\ mode[s] = "after"
  /\ IF reply[s] THEN ReadList(s) /\ Seen(s, {"list"}, {})
                 ELSE UNCHANGED <<view, ghosts>>
  /\ UNCHANGED <<setting, cached, sel>>
  /\ Done(s)

\* Mutant of AfterOther: the list is not read again.
AfterOtherUnread(s) ==
  /\ page \in {"portmap", "porttrigger", "staticroute"} /\ mode[s] = "after"
  /\ UNCHANGED <<setting, view, cached, sel, ghosts>>
  /\ Done(s)

\* The other pages read the list after an answer "OK" only.
AfterOther(s) ==
  page \in {"portmap", "porttrigger", "staticroute"} /\ ReadAfterOK(s)
GetDhcpStaticIp(s) == page = "fixedip" /\ ReadAfterOK(s)

-----------------------------------------------------------------------------
Init ==
  /\ page \in Pages
  /\ rules = <<>> /\ setting = InitSettings
  /\ mode = [s \in Session |-> "closed"]
  /\ view = [s \in Session |-> <<>>]
  /\ cached = [s \in Session |-> InitSettings]
  /\ sel = [s \in Session |-> InitSettings]
  /\ req = [s \in Session |-> NoRequest]
  /\ reply = [s \in Session |-> FALSE]
  /\ behind = [s \in Session |-> {}]
  /\ lost = [s \in Session |-> {}]
  /\ past = {}

\* onLoad: the page is opened.
Load(s) ==
  /\ mode[s] = "closed"
  /\ mode' = [mode EXCEPT ![s] = "idle"]
  /\ UNCHANGED <<router, req, reply>>
  /\ ReadPage(s)
  /\ Seen(s, {"list", "setting"}, {})

\* The page is left by its menus, which are covered while it waits, or by F5
\* or closing the window, which ends a timer that has not posted yet.
Leave(s) ==
  /\ mode[s] \in {"idle", "wait"}
  /\ mode' = [mode EXCEPT ![s] = "closed"]
  /\ view' = [view EXCEPT ![s] = <<>>]
  /\ cached' = [cached EXCEPT ![s] = InitSettings]
  /\ sel' = [sel EXCEPT ![s] = InitSettings]
  /\ behind' = [behind EXCEPT ![s] = {}]
  /\ lost' = [lost EXCEPT ![s] = {}]
  /\ req' = [req EXCEPT ![s] = NoRequest]
  /\ reply' = [reply EXCEPT ![s] = FALSE]
  /\ UNCHANGED <<router, past>>

\* The user changes the switch or the policy on the page; the policy is hidden
\* while the switch shows "off".
Select(s, f) ==
  /\ mode[s] = "idle"
  /\ f \in OwnFields
  /\ f = "policy" => sel[s]["off"] # "1"
  /\ \E value \in Option \ {sel[s][f]} : sel' = [sel EXCEPT ![s][f] = value]
  /\ UNCHANGED <<router, mode, view, cached, req, reply, ghosts>>

\* A post of settings whose answer is not "OK": it may have been carried out.
SettingLost(s, fields) ==
  /\ PutSettings(sel[s], fields)
  /\ behind' = IF fields = {} THEN behind ELSE Others(s, "setting")

SaveDnFilter(s) ==
  /\ page = "dnfilter" /\ mode[s] = "idle"
  /\ sel[s]["off"] # cached[s]["off"]
  /\ \E done, answered \in BOOLEAN :
       /\ (done /\ ~answered) => "lost" \in Faults[page]
       /\ SettingLost(s, IF done THEN {"off"} ELSE {})
       /\ IF done /\ answered
          THEN cached' = [cached EXCEPT ![s]["off"] = sel[s]["off"]] /\ UNCHANGED lost
          ELSE /\ lost' = IF done THEN [lost EXCEPT ![s] = @ \cup {"setting"}] ELSE lost
               /\ UNCHANGED cached
  /\ UNCHANGED <<page, rules, mode, view, sel, req, reply, past>>

\* First the switch, then the policy; after a failure the page gives up, and
\* otherwise it reads everything again.
SaveIpFilter(s) ==
  /\ page = "ipfilter" /\ mode[s] = "idle"
  /\ sel[s] # cached[s]
  /\ LET posted == Posted(cached[s], sel[s]) IN
     \/ /\ PutSettings(sel[s], posted)
        /\ ReadPage(s)
        /\ Seen(s, {"list", "setting"}, posted)
     \/ \E f \in posted, done \in BOOLEAN :
          /\ done => "lost" \in Faults[page]
          /\ LET before == IF f = "off" THEN {} ELSE posted \ {f} IN
             /\ SettingLost(s, before \cup (IF done THEN {f} ELSE {}))
             /\ cached' = [cached EXCEPT ![s] = [g \in Field |->
                             IF g \in before THEN sel[s][g] ELSE @[g]]]
          /\ lost' = IF done THEN [lost EXCEPT ![s] = @ \cup {"setting"}] ELSE lost
          /\ UNCHANGED <<view, sel, past>>
  /\ UNCHANGED <<page, rules, mode, req, reply>>

Step(s) ==
  \/ Load(s) \/ Leave(s) \/ (\E f \in Fields[page] : Select(s, f))
  \/ DelDnFilterEntry(s) \/ AddDnfilterEntry(s) \/ ModifyDnfilterEntry(s)
  \/ DelPortMapEntry(s) \/ AddPortMapEntry(s) \/ ModifyPortMapEntry(s)
  \/ DelPortTriggerEntry(s) \/ AddPortTriggerEntry(s) \/ ModifyPortTriggerEntry(s)
  \/ DelIpFilterEntry(s) \/ AddIpFilterEntry(s) \/ ModifyIpFilterEntry(s)
  \/ DelSREntry(s) \/ AddSREntry(s) \/ ModifySREntry(s)
  \/ DelStaticIpEntry(s) \/ AddStaticIp(s) \/ ModifyStaticIpEntry(s)
  \/ (\E done, answered \in BOOLEAN : Answer(s, done, answered))
  \/ updateSaveData(s) \/ updateIpFilterStatus(s) \/ AfterOther(s) \/ GetDhcpStaticIp(s)
  \/ SaveDnFilter(s) \/ SaveIpFilter(s)

Next == \E s \in Session : Step(s)

Spec == Init /\ [][Next]_vars

-----------------------------------------------------------------------------
Requests == [kind : {"add", "delete", "edit"}, rows : SUBSET (1..MaxLen[page]),
             rule : Rule]

\* Every variable has its type; only a page that waits has a request whose
\* rows it may not show.
TypeOK ==
  /\ page \in Pages
  /\ rules \in Seq(Rule) /\ Len(rules) <= MaxLen[page]
  /\ setting \in [Field -> Option \cup {""}]
  /\ mode \in [Session -> {"closed", "idle", "wait", "after"}]
  /\ view \in [Session -> Seq(Rule)]
  /\ cached \in [Session -> [Field -> Option \cup {"", "none"}]]
  /\ sel \in [Session -> [Field -> Option \cup {"none"}]]
  /\ req \in [Session -> Requests] /\ reply \in [Session -> BOOLEAN]
  /\ behind \in [Session -> SUBSET {"list", "setting"}]
  /\ lost \in [Session -> SUBSET {"list", "setting"}]
  /\ past \subseteq {"blind", "lost", "shared", "spelled"}
  /\ \A s \in Session : req[s].rows \subseteq DOMAIN view[s] \/ mode[s] \in {"closed", "idle"}

\* The router carries out a deletion or change of a page that no other session
\* has outdated and, where the list is read after "OK" only, no lost answer.
Picked(s) ==
  /\ mode[s] = "wait" /\ mode'[s] = "after" /\ req[s].kind # "add"
  /\ rules' # rules
  /\ "list" \notin behind[s] /\ behind'[s] = behind[s]
  /\ Rereads \/ "list" \notin lost[s]

\* A request does to the router's list what the user was shown on the page:
\* the rows that are deleted or replaced hold the rules that the user picked,
\* unless another session has changed the list since the page was read.  On
\* the pages that read the list only after "OK", an answer that is lost makes
\* it false as well: the row picked next is a row of the old list.
HitsWhatWasPicked ==
  [][\A s \in Session : Picked(s) => rules' = Effect(view[s], req[s])]_vars

\* A setting that an idle page takes for saved, so that Save posts nothing, is
\* what the router has, but for changes by other sessions and answers that
\* were lost: otherwise the user could not repair it.  That includes a page
\* whose read of the settings has failed, and an empty value posted from it.
ShownIsSaved ==
  \A s \in Session :
    mode[s] = "idle" /\ "setting" \notin behind[s] \cup lost[s] =>
      \A f \in OwnFields :
        sel[s][f] = cached[s][f] => Carried(sel[s][f]) = setting[f]

\* The list is only limited by the pages, each of which counts the rules of
\* its own snapshot: still no more than one rule for every further session
\* gets in beyond the limit, as long as every page could read the list and,
\* on the pages that do not read it after a failure, got every answer.
LimitHolds ==
  /\ page # "staticroute" /\ "blind" \notin past
  /\ Rereads \/ "lost" \notin past
  => Len(rules) < Limit[page] + Cardinality(Session)

Distinct(list, key) ==
  \A i, j \in DOMAIN list : key[list[i]] = key[list[j]] => i = j

Itself == [r \in Rule |-> r]
IpOf == [a \in Address |-> a.ip]
MacOf == [a \in Address |-> a.mac]

\* The router does not look for equal routes, the page does, in its snapshot:
\* that is enough unless a page has read nothing, missed an answer, or changed
\* a list that another session had changed.
NoTwinRoutes == page = "staticroute" /\ past = {} => Distinct(rules, Itself)

\* The same for fixed addresses, where two tests on every row look for the IP
\* and for the MAC address.  The MAC address is looked for as typed and posted
\* in lower case: no two rules have the same one as long as nobody types upper
\* case, and no two rules have the same IP address anyway.
NoTwinAddresses ==
  page = "fixedip" =>
    /\ past \subseteq {"spelled"} => Distinct(rules, IpOf)
    /\ past = {} => Distinct(rules, MacOf)
=============================================================================
