--------------------------- MODULE SessionProofs ---------------------------
(***************************************************************************)
(* Proofs about Session, for any pages, polls and bounds.  They rest on    *)
(* what the operators of the box make of it (first part) and on three      *)
(* invariants: where the page, the refresh timers and the question of the  *)
(* quick setup belong together, what the VPN page says, and whose box it   *)
(* is.  The last part is about types and bounds, which need none of these. *)
(***************************************************************************)
EXTENDS Session, FiniteSetTheorems, TLAPS

Boxes == {"none", "wait", "message", "rebooting"} \cup Queries

Box == [box : Boxes, timeout : {"off", "own", "other"}, orphans : Nat]

Vpn == [timer : BOOLEAN, asked : Nat, older : Nat, n : Nat,
        shown : {"none", "connecting", "connected", "disconnected"},
        up : BOOLEAN, gaveUp : BOOLEAN]

Shape == dlg \in Box /\ vpn \in Vpn

\* The login is a new document: nothing is left of the session before it.
Clean ==
  page = "login" =>
    running = {} /\ dlg = NoBox /\ work = {} /\ ussd = NoPoll /\ cp = 0 /\ vpn = NoVpn

\* The question of the quick setup's Wi-Fi step is asked there.
PageInv ==
  /\ page \in Pages \cup Setup \cup {"login"}
  /\ RefreshFitsPage
  /\ dlg.box = "qs wifi" => page = "qs wifi"

VpnInv == PollGoesOn /\ (page # "vpn" => vpn.shown = "none")

\* The timer of a message is that message's, and can be cancelled.
Own(d) ==
  /\ d.orphans = 0 /\ d.timeout \in {"off", "own"}
  /\ d.timeout = "own" => d.box = "message"

Covered(d) == d.box \in {"wait", "rebooting"}
UnderWay == work \ {"leftover"} # {} \/ ussd # NoPoll

\* One operation at a time, behind a box that covers the page, so that the quick
\* setup waits for its Wi-Fi settings where they were entered.
Mine ==
  /\ Own(dlg) /\ (UnderWay => Covered(dlg))
  /\ \A v, w \in work \ {"leftover"} : v = w
  /\ ussd # NoPoll => work \subseteq {"leftover"}
  /\ "qs wifi" \in work => page = "qs wifi"

BoxInv == ~stray => Mine

IInv == Shape /\ Clean /\ PageInv /\ VpnInv /\ BoxInv

-----------------------------------------------------------------------------
(* The operators of the box.                                               *)

LEMMA ShowDlgBox ==
  ASSUME NEW d \in Box, NEW w \in Boxes
  PROVE  /\ ShowDlg(d, w) \in Box /\ ShowDlg(d, w).box = w
         /\ ShowDlg(d, w).orphans = d.orphans
         /\ ShowDlg(d, w).timeout = IF d.timeout = "own" THEN "other" ELSE d.timeout
BY DEF ShowDlg, Box

LEMMA WaitBox ==
  ASSUME NEW d \in Box
  PROVE  /\ Wait(d) \in Box /\ Wait(d).box = "wait" /\ Covered(Wait(d))
         /\ Own(d) /\ d.box # "message" => Own(Wait(d))
BY ShowDlgBox DEF Wait, Boxes, Covered, Own

LEMMA MessageBox ==
  ASSUME NEW d \in Box
  PROVE  /\ showMsgBox(d) \in Box /\ showMsgBox(d).box = "message"
         /\ Own(d) /\ d.box # "message" => Own(showMsgBox(d))
BY ShowDlgBox DEF showMsgBox, Boxes, Own

LEMMA AutoCloseBox ==
  ASSUME NEW d \in Box
  PROVE  /\ showMsgBoxAutoClose(d) \in Box /\ showMsgBoxAutoClose(d).box = "message"
         /\ Own(d) /\ d.box # "message" => Own(showMsgBoxAutoClose(d))
         /\ d.timeout = "off" /\ d.orphans = 0 => Own(showMsgBoxAutoClose(d))
BY DEF showMsgBoxAutoClose, Box, Boxes, Own

LEMMA CloseDlgBox ==
  ASSUME NEW d \in Box
  PROVE  /\ CloseDlg(d) \in Box /\ CloseDlg(d).box = "none" /\ CloseDlg(d).timeout = "off"
         /\ CloseDlg(d).orphans = d.orphans
         /\ Own(d) => Own(CloseDlg(d))
BY DEF CloseDlg, Box, Boxes, Own

LEMMA PostXmlBox ==
  ASSUME NEW d \in Box
  PROVE  /\ PostXml(d) \in Box /\ PostXml(d).box = "none" /\ PostXml(d).timeout = "off"
         /\ PostXml(d).orphans = d.orphans
         /\ Own(d) => Own(PostXml(d))
BY WaitBox, ShowDlgBox, CloseDlgBox DEF PostXml, Wait, Boxes, Own

LEMMA ToldBox ==
  ASSUME NEW d \in Box, NEW ok \in BOOLEAN
  PROVE  /\ Told(d, ok) \in Box /\ Told(d, ok).box = "message"
         /\ Own(d) /\ d.box # "message" => Own(Told(d, ok))
BY MessageBox, AutoCloseBox DEF Told

\* Loading a page leaves the box, empties it, or puts a message into it.
LEMMA OnLoadBox ==
  ASSUME NEW d \in Box, NEW p, NEW sms \in BOOLEAN
  PROVE  /\ onLoad(d, p, sms) \in Box
         /\ onLoad(d, p, sms).box \in {d.box, "none", "message"}
         /\ Own(d) /\ d.box # "message" => Own(onLoad(d, p, sms))
         /\ p \notin {"internet", "qs internet", "dashboard"} => onLoad(d, p, sms) = d
BY PostXmlBox, MessageBox DEF onLoad, ShowsSettings, GetWanConfig

LEMMA OnLoadOff ==
  ASSUME NEW d \in Box, NEW p, NEW sms \in BOOLEAN, d.timeout = "off"
  PROVE  onLoad(d, p, sms).timeout = "off" /\ onLoad(d, p, sms).orphans = d.orphans
<1>1. /\ showMsgBox(d).timeout = "off" /\ showMsgBox(d).orphans = d.orphans
      /\ PostXml(d).timeout = "off" /\ PostXml(d).orphans = d.orphans
  BY PostXmlBox, ShowDlgBox DEF showMsgBox, Boxes
<1> QED
  BY <1>1 DEF onLoad, GetWanConfig

LEMMA NoBoxOwn == NoBox \in Box /\ Own(NoBox) /\ NoBox.box = "none"
BY DEF NoBox, Box, Boxes, Own

-----------------------------------------------------------------------------
(* The operators of the VPN's poll.                                        *)

LEMMA RestVpn ==
  ASSUME NEW v \in Vpn
  PROVE  /\ Rest(v) \in Vpn
         /\ Rest(v).timer = v.timer /\ Rest(v).asked = v.asked /\ Rest(v).older = v.older
         /\ Rest(v).shown = v.shown /\ Rest(v).gaveUp = v.gaveUp
BY DEF Rest, Vpn

LEMMA LeftVpn ==
  ASSUME vpn \in Vpn
  PROVE  Left \in Vpn /\ Left.shown = "none"
<1>1. vpn.asked \in Nat /\ vpn.older \in Nat /\ vpn.older + vpn.asked \in Nat
  BY DEF Vpn
<1>2. [[[[[[vpn EXCEPT !.timer = FALSE] EXCEPT !.shown = "none"] EXCEPT !.up = FALSE]
          EXCEPT !.gaveUp = FALSE] EXCEPT !.asked = 0] EXCEPT !.older = vpn.older + vpn.asked]
        \in Vpn
  BY <1>1 DEF Vpn
<1> QED
  BY <1>2, RestVpn DEF Left, Vpn

LEMMA InfoVpn ==
  ASSUME NEW v \in Vpn, NEW proto
  PROVE  /\ getVPNInfo(v, proto) \in Vpn
         /\ getVPNInfo(v, proto).shown = "none" \/ getVPNInfo(v, proto).timer
BY DEF getVPNInfo, Vpn

LEMMA NoVpnTyped == NoVpn \in Vpn /\ NoVpn.shown = "none"
BY DEF NoVpn, Vpn

-----------------------------------------------------------------------------
(* Kinds of steps, as far as the box is concerned.                         *)

\* The history is forgotten only when nothing is left.
LEMMA KeptBox ==
  ASSUME Kept, stray \/ Mine'
  PROVE  BoxInv'
<1>1. CASE Tidy'
  BY <1>1, NoBoxOwn DEF Tidy, BoxInv, Mine, UnderWay
<1>2. CASE ~Tidy'
  BY <1>2 DEF Kept, BoxInv
<1> QED
  BY <1>1, <1>2

\* Nothing begins or ends, and the page was not covered.
LEMMA FreeStep ==
  ASSUME BoxInv, UNCHANGED <<work, ussd>>, Kept, stray \/ ~Covered(dlg), ~stray => Own(dlg')
  PROVE  BoxInv'
<1>1. stray \/ Mine'
  BY DEF BoxInv, Mine, UnderWay
<1> QED
  BY <1>1, KeptBox

LEMMA SameStep ==
  ASSUME BoxInv, UNCHANGED <<page, dlg, work, ussd>>, Kept
  PROVE  BoxInv'
<1>1. stray \/ Mine'
  BY DEF BoxInv, Mine, UnderWay, Own, Covered
<1> QED
  BY <1>1, KeptBox

\* An operation begins on a page that was not covered.
LEMMA BeginStep ==
  ASSUME BoxInv, NEW w, Begin(w), UNCHANGED ussd, Kept, ~Covered(dlg),
         Own(dlg'), w = "leftover" \/ Covered(dlg'), w = "qs wifi" => page' = "qs wifi"
  PROVE  BoxInv'
<1>1. stray \/ Mine'
  BY DEF BoxInv, Mine, UnderWay, Begin
<1> QED
  BY <1>1, KeptBox

\* An operation ends, or becomes another.
LEMMA DoneStep ==
  ASSUME BoxInv, NEW w, NEW next, Done(w, next), w # "leftover", "qs wifi" \notin next,
         \A u, v \in next : u = v, UNCHANGED ussd, Kept,
         ~stray => Own(dlg') /\ (next = {} \/ Covered(dlg'))
  PROVE  BoxInv'
<1>1. stray \/ Mine'
  <2>1. CASE ~stray
    <3>1. ussd = NoPoll /\ work' \ {"leftover"} \subseteq next
      BY <2>1 DEF BoxInv, Mine, Done
    <3>2. UnderWay' => Covered(dlg')
      BY <2>1, <3>1 DEF UnderWay
    <3> QED
      BY <2>1, <3>1, <3>2 DEF Mine
  <2> QED
    BY <2>1
<1> QED
  BY <1>1, KeptBox

\* What is under way covers the page, so that its box is no message.
LEMMA DoneCovered ==
  ASSUME BoxInv, ~stray, NEW w \in work, w # "leftover"
  PROVE  Own(dlg) /\ Covered(dlg) /\ dlg.box # "message"
BY DEF BoxInv, Mine, UnderWay, Covered

-----------------------------------------------------------------------------
(* Kinds of steps, as far as page and VPN are concerned.                   *)

LEMMA StayStep ==
  ASSUME IInv, UNCHANGED <<page, running, vpn>>, page # "login", dlg' \in Box,
         dlg'.box = "qs wifi" => dlg.box = "qs wifi" \/ page = "qs wifi"
  PROVE  Shape' /\ Clean' /\ PageInv' /\ VpnInv'
BY DEF IInv, Shape, Clean, PageInv, VpnInv, RefreshFitsPage, PollGoesOn, Asked

\* From a step of the quick setup to another.
LEMMA SetupStep ==
  ASSUME IInv, UNCHANGED <<running, vpn>>, page \in Setup, page' \in Setup, dlg' \in Box,
         dlg'.box # "qs wifi"
  PROVE  Shape' /\ Clean' /\ PageInv' /\ VpnInv'
BY SessionAssumption DEF IInv, Shape, Clean, PageInv, VpnInv, RefreshFitsPage, PollGoesOn,
  Asked, Setup, Refreshing, Forms

\* The page stays, and the VPN's poll moves.
LEMMA VpnStep ==
  ASSUME IInv, UNCHANGED <<page, running>>, page # "login", dlg' \in Box,
         dlg'.box = "qs wifi" => dlg.box = "qs wifi" \/ page = "qs wifi",
         vpn' \in Vpn, VpnInv'
  PROVE  Shape' /\ Clean' /\ PageInv' /\ VpnInv'
BY DEF IInv, Shape, Clean, PageInv, RefreshFitsPage

LEMMA LoginStep ==
  ASSUME clearAuthheader
  PROVE  IInv'
BY NoBoxOwn, NoVpnTyped DEF clearAuthheader, IInv, Shape, Clean, PageInv, RefreshFitsPage,
  VpnInv, PollGoesOn, BoxInv, Mine, UnderWay, Refreshing, NoBox, NoVpn

LEMMA LoadStep ==
  ASSUME IInv, NEW p \in Pages, NEW sms \in BOOLEAN, NEW proto, Load(p, sms, proto, {}),
         dlg.box = "none"
  PROVE  IInv'
<1>1. dlg' \in Box /\ dlg'.box # "qs wifi" /\ (Own(dlg) => Own(dlg'))
  <2>1. dlg \in Box /\ dlg' = onLoad(dlg, p, sms)
    BY DEF Load, IInv, Shape
  <2>2. /\ onLoad(dlg, p, sms) \in Box /\ onLoad(dlg, p, sms).box \in {dlg.box, "none", "message"}
        /\ Own(dlg) => Own(onLoad(dlg, p, sms))
    BY <2>1, OnLoadBox
  <2> QED
    BY <2>1, <2>2
<1>2. vpn' \in Vpn /\ VpnInv'
  <2>1. CASE p = "vpn"
    BY <2>1, LeftVpn, InfoVpn DEF Load, IInv, Shape, VpnInv, PollGoesOn
  <2>2. CASE p # "vpn"
    BY <2>2, LeftVpn DEF Load, IInv, Shape, VpnInv, PollGoesOn
  <2> QED
    BY <2>1, <2>2
<1>3. Clean' /\ PageInv'
  BY <1>1, SessionAssumption DEF Load, Clean, PageInv, RefreshFitsPage, Refreshing, Forms
<1>4. BoxInv'
  BY <1>1, FreeStep DEF Load, IInv, BoxInv, Mine, Covered
<1> QED
  BY <1>1, <1>2, <1>3, <1>4 DEF IInv, Shape

-----------------------------------------------------------------------------
(* Steps that stay on the page.                                            *)

LEMMA AtLogin ==
  ASSUME IInv, page = "login"
  PROVE  /\ dlg.box = "none" /\ dlg.timeout = "off" /\ dlg.orphans = 0
         /\ work = {} /\ ussd = NoPoll /\ cp = 0
         /\ ~vpn.timer /\ vpn.asked = 0 /\ vpn.older = 0
BY DEF IInv, Clean, NoBox, NoVpn

\* The box changes while it belongs to no operation.
LEMMA FreeStay ==
  ASSUME IInv, page # "login", stray \/ ~Covered(dlg), dlg' \in Box,
         dlg'.box = "qs wifi" => dlg.box = "qs wifi" \/ page = "qs wifi",
         ~stray /\ Own(dlg) => Own(dlg'),
         UNCHANGED <<page, running, work, ussd, vpn>>, Kept
  PROVE  IInv'
<1>1. BoxInv'
  BY FreeStep DEF IInv, BoxInv, Mine
<1> QED
  BY <1>1, StayStep DEF IInv

\* Only the VPN's poll moves.
LEMMA SameStay ==
  ASSUME IInv, page # "login", vpn' \in Vpn, VpnInv',
         UNCHANGED <<page, running, dlg, work, ussd>>, Kept
  PROVE  IInv'
<1>1. BoxInv'
  BY SameStep DEF IInv
<1> QED
  BY <1>1, VpnStep DEF IInv, Shape

LEMMA BeginStay ==
  ASSUME IInv, page # "login", NEW w, Begin(w), ~Covered(dlg), dlg' \in Box,
         dlg'.box # "qs wifi", w = "leftover" \/ Covered(dlg'), Own(dlg) => Own(dlg'),
         w = "qs wifi" => page = "qs wifi",
         UNCHANGED <<page, running, ussd, vpn>>, Kept
  PROVE  IInv'
<1>1. BoxInv'
  BY BeginStep DEF IInv, BoxInv, Mine, Begin
<1> QED
  BY <1>1, StayStep DEF IInv

LEMMA DoneBox ==
  ASSUME IInv, NEW w, NEW next, Done(w, next), w # "leftover", "qs wifi" \notin next,
         \A u, v \in next : u = v,
         ~stray /\ Own(dlg) /\ Covered(dlg) => Own(dlg') /\ (next = {} \/ Covered(dlg')),
         UNCHANGED ussd, Kept
  PROVE  page # "login" /\ BoxInv'
<1>1. ~stray => Own(dlg) /\ Covered(dlg)
  BY DoneCovered DEF IInv, Done
<1> QED
  BY <1>1, AtLogin, DoneStep DEF IInv, Done

LEMMA EndBox ==
  ASSUME IInv, NEW w, Done(w, {}), w # "leftover",
         ~stray /\ Own(dlg) /\ Covered(dlg) => Own(dlg'), UNCHANGED ussd, Kept
  PROVE  page # "login" /\ BoxInv'
<1>1. ASSUME NEW next, next = {} PROVE page # "login" /\ BoxInv'
  <2>1. Done(w, next) /\ "qs wifi" \notin next /\ \A u, v \in next : u = v
    BY <1>1
  <2> QED
    BY <1>1, <2>1, DoneBox
<1> QED
  BY <1>1

LEMMA DoneStay ==
  ASSUME IInv, NEW w, NEW next, Done(w, next), w # "leftover", "qs wifi" \notin next,
         \A u, v \in next : u = v, dlg' \in Box, dlg'.box # "qs wifi" \/ dlg' = dlg,
         ~stray /\ Own(dlg) /\ Covered(dlg) => Own(dlg') /\ (next = {} \/ Covered(dlg')),
         UNCHANGED <<page, running, ussd, vpn>>, Kept
  PROVE  IInv'
<1>1. page # "login" /\ BoxInv'
  BY DoneBox
<1> QED
  BY <1>1, StayStep DEF IInv

LEMMA FreeBox ==
  ASSUME IInv, dlg.box \notin {"wait", "rebooting"}
  PROVE  dlg \in Box /\ ~Covered(dlg)
BY DEF IInv, Shape, Covered

-----------------------------------------------------------------------------
(* What the user does.                                                     *)

LEMMA DialogIInv ==
  ASSUME IInv, CloseBox \/ logOut \/ logOutYes
  PROVE  IInv'
<1>1. CASE CloseBox
  <2>1. dlg.box \notin {"none", "wait", "rebooting"} /\ page # "login"
    BY <1>1, AtLogin DEF CloseBox, Queries
  <2>2. dlg' \in Box /\ dlg'.box = "none" /\ (Own(dlg) => Own(dlg'))
    BY <1>1, <2>1, FreeBox, CloseDlgBox DEF CloseBox
  <2>3. BoxInv'
    BY <1>1, <2>1, <2>2, FreeBox, FreeStep DEF CloseBox, IInv, BoxInv, Mine
  <2>4. CASE dlg.box = "qs wifi"
    BY <1>1, <2>2, <2>3, <2>4, SetupStep DEF CloseBox, IInv, PageInv, Setup
  <2>5. CASE dlg.box # "qs wifi"
    BY <1>1, <2>1, <2>2, <2>3, <2>5, StayStep DEF CloseBox, IInv
  <2> QED
    BY <2>4, <2>5
<1>2. CASE logOut
  <2>1. dlg' \in Box /\ dlg'.box = "logout" /\ dlg.box = "none" /\ dlg \in Box
    BY <1>2, FreeBox, ShowDlgBox DEF logOut, Boxes, Queries
  <2>2. Own(dlg) => Own(dlg')
    BY <1>2, <2>1, ShowDlgBox DEF logOut, Own, Boxes, Queries
  <2> QED
    BY <1>2, <2>1, <2>2, FreeStay, FreeBox DEF logOut
<1>3. CASE logOutYes
  BY <1>3, LoginStep DEF logOutYes
<1> QED
  BY <1>1, <1>2, <1>3

\* Messages on a page that nothing covers.
LEMMA MessageIInv ==
  ASSUME IInv, NEW ok \in BOOLEAN, NEW second \in BOOLEAN,
         \/ SaveDhcp(ok) \/ ResetClients(ok) \/ ClearAllPdpLog(ok)
         \/ DeletePdpLog(ok, second) \/ ShowDetail \/ ClearCommDataFails
  PROVE  IInv'
<1>1. /\ dlg.box = "none" /\ page # "login" /\ dlg \in Box /\ ~Covered(dlg)
      /\ UNCHANGED <<page, running, work, ussd, cp, vpn>> /\ Kept
  BY FreeBox DEF SaveDhcp, ResetClients, ClearAllPdpLog, DeletePdpLog, ShowDetail,
    ClearCommDataFails, Free
<1>2. PostXml(dlg) \in Box /\ PostXml(dlg).box = "none" /\ (Own(dlg) => Own(PostXml(dlg)))
  BY <1>1, PostXmlBox
<1>3. dlg' \in Box /\ dlg'.box = "message" /\ (Own(dlg) => Own(dlg'))
  <2>1. CASE SaveDhcp(ok)
    BY <1>1, <2>1, ToldBox DEF SaveDhcp
  <2>2. CASE ResetClients(ok) \/ ClearAllPdpLog(ok)
    BY <1>2, <2>2, ToldBox DEF ResetClients, ClearAllPdpLog
  <2>3. CASE DeletePdpLog(ok, second)
    <3>1. Told(PostXml(dlg), ok) \in Box /\ (Own(dlg) => Own(Told(PostXml(dlg), ok)))
      BY <1>2, ToldBox
    <3>2. /\ PostXml(Told(PostXml(dlg), ok)) \in Box
          /\ PostXml(Told(PostXml(dlg), ok)).box = "none"
          /\ Own(dlg) => Own(PostXml(Told(PostXml(dlg), ok)))
      BY <3>1, PostXmlBox
    <3> QED
      BY <2>3, <3>2, ToldBox DEF DeletePdpLog
  <2>4. CASE ShowDetail
    BY <1>1, <2>4, MessageBox DEF ShowDetail
  <2>5. CASE ClearCommDataFails
    BY <1>2, <2>5, MessageBox DEF ClearCommDataFails
  <2> QED
    BY <2>1, <2>2, <2>3, <2>4, <2>5
<1> QED
  BY <1>1, <1>3, FreeStay

LEMMA QuestionIInv ==
  ASSUME IInv, SaveQsWifiSet \/ \E w \in DOMAIN PageOf : Ask(w)
  PROVE  IInv'
<1>1. PICK q \in Queries : /\ dlg' = ShowDlg(dlg, q) /\ dlg.box = "none"
                          /\ page # "login" /\ (q = "qs wifi" => page = "qs wifi")
                          /\ UNCHANGED <<page, running, work, ussd, cp, vpn>> /\ Kept
  <2>1. CASE SaveQsWifiSet
    BY <2>1 DEF SaveQsWifiSet, Free, Queries, Setup
  <2>2. ASSUME NEW w \in DOMAIN PageOf, Ask(w)
        PROVE  /\ dlg' = ShowDlg(dlg, w) /\ dlg.box = "none" /\ page # "login"
               /\ w \in Queries /\ w # "qs wifi"
               /\ UNCHANGED <<page, running, work, ussd, cp, vpn>> /\ Kept
    <3>1. /\ w \in {"dns", "dhcp", "reboot", "reset", "poweroff", "fota"}
          /\ "login" \notin PageOf[w]
      BY DEF PageOf
    <3> QED
      BY <2>2, <3>1 DEF Ask, Free, Queries
  <2> QED
    BY <2>1, <2>2
<1>2. dlg \in Box /\ ~Covered(dlg)
  BY <1>1, FreeBox
<1>3. dlg' \in Box /\ dlg'.box = q /\ (Own(dlg) => Own(dlg'))
  BY <1>1, <1>2, ShowDlgBox DEF Own, Boxes
<1> QED
  BY <1>1, <1>2, <1>3, FreeStay

\* "Please wait" is shown and an operation begins.
LEMMA WaitIInv ==
  ASSUME IInv, NEW w, Begin(w), page # "login", dlg' = Wait(dlg),
         dlg.box \notin {"message", "wait", "rebooting"}, w = "qs wifi" => page = "qs wifi",
         UNCHANGED <<page, running, ussd, vpn>>, Kept
  PROVE  IInv'
<1>1. dlg \in Box /\ ~Covered(dlg)
  BY FreeBox
<1> QED
  BY <1>1, WaitBox, BeginStay

LEMMA BeginIInv ==
  ASSUME IInv,
         \/ SaveInternet \/ SaveWifi \/ SetBlockStatus \/ upgradeCP \/ UpdateCfgFile
         \/ Confirm("qs wifi") \/ \E w \in DOMAIN PageOf : Confirm(w)
  PROVE  IInv'
<1>1. CASE SaveInternet \/ SaveWifi \/ SetBlockStatus \/ upgradeCP \/ UpdateCfgFile
  BY <1>1, WaitIInv DEF SaveInternet, SaveWifi, SetBlockStatus, upgradeCP, UpdateCfgFile,
    Free, Others
<1>2. ASSUME NEW w \in Queries, Confirm(w) PROVE IInv'
  <2>1. dlg.box = w /\ dlg.box \notin {"none", "message", "wait", "rebooting"}
    BY <1>2 DEF Confirm, Queries
  <2>2. w = "qs wifi" => page = "qs wifi"
    BY <2>1 DEF IInv, PageInv
  <2> QED
    BY <1>2, <2>1, <2>2, WaitIInv, AtLogin DEF Confirm
<1>3. DOMAIN PageOf \subseteq Queries /\ "qs wifi" \in Queries
  BY DEF PageOf, Queries
<1> QED
  BY <1>1, <1>2, <1>3

LEMMA UpgradeIInv ==
  ASSUME IInv,
         \/ \E what \in {"no file", "sent", "refused"} : upgradeRouterSoftWare(what)
         \/ \E known \in BOOLEAN : autoUpgradeVersion(known)
  PROVE  IInv'
<1>1. ASSUME NEW what \in {"no file", "sent", "refused"}, upgradeRouterSoftWare(what)
      PROVE  IInv'
  <2>1. /\ page # "login" /\ dlg.box = "none" /\ dlg \in Box /\ ~Covered(dlg)
        /\ UNCHANGED <<page, running, ussd, vpn>> /\ Kept
    BY <1>1, FreeBox DEF upgradeRouterSoftWare, Free, Others
  <2>2. CASE what = "no file"
    BY <1>1, <2>1, <2>2, MessageBox, FreeStay DEF upgradeRouterSoftWare
  <2>3. CASE what = "sent"
    BY <1>1, <2>1, <2>3, WaitIInv DEF upgradeRouterSoftWare
  <2>4. CASE what = "refused"
    <3>1. /\ CloseDlg(Wait(dlg)) \in Box /\ CloseDlg(Wait(dlg)).box = "none"
          /\ Own(dlg) => Own(CloseDlg(Wait(dlg)))
      BY <2>1, WaitBox, CloseDlgBox
    <3>2. dlg' = showMsgBox(CloseDlg(Wait(dlg))) /\ Begin("leftover")
      BY <1>1, <2>4 DEF upgradeRouterSoftWare
    <3>3. dlg' \in Box /\ dlg'.box = "message" /\ (Own(dlg) => Own(dlg'))
      BY <3>1, <3>2, MessageBox
    <3> QED
      BY <2>1, <3>2, <3>3, BeginStay
  <2> QED
    BY <2>2, <2>3, <2>4
<1>2. ASSUME NEW known \in BOOLEAN, autoUpgradeVersion(known)
      PROVE  IInv'
  <2>1. /\ page # "login" /\ dlg.box = "fota" /\ dlg \in Box /\ ~Covered(dlg)
        /\ UNCHANGED <<page, running, ussd, vpn>> /\ Kept
    BY <1>2, FreeBox, AtLogin DEF autoUpgradeVersion, Others
  <2>2. /\ CloseDlg(dlg) \in Box /\ CloseDlg(dlg).box = "none"
        /\ Own(dlg) => Own(CloseDlg(dlg))
    BY <2>1, CloseDlgBox
  <2>3. CASE known
    <3>1. dlg' = Wait(CloseDlg(dlg)) /\ Begin("fota")
      BY <1>2, <2>3 DEF autoUpgradeVersion
    <3>2. /\ dlg' \in Box /\ dlg'.box = "wait" /\ Covered(dlg')
          /\ Own(dlg) => Own(dlg')
      BY <2>2, <3>1, WaitBox
    <3> QED
      BY <2>1, <3>1, <3>2, BeginStay
  <2>4. CASE ~known
    <3>1. dlg' = showMsgBox(CloseDlg(dlg)) /\ UNCHANGED work
      BY <1>2, <2>4 DEF autoUpgradeVersion
    <3>2. dlg' \in Box /\ dlg'.box = "message" /\ (Own(dlg) => Own(dlg'))
      BY <2>2, <3>1, MessageBox
    <3> QED
      BY <2>1, <3>1, <3>2, FreeStay
  <2> QED
    BY <2>3, <2>4
<1> QED
  BY <1>1, <1>2

-----------------------------------------------------------------------------
(* Pages.                                                                  *)

LEMMA MenuIInv ==
  ASSUME IInv,
         \/ \E sms \in BOOLEAN : Login(sms) \/ createMenu(sms) \/ ExitQuickSetup(sms)
         \/ \E p \in Pages :
              displaySubForm(p) \/ \E proto \in Protocol(p) : displayForm(p, proto)
  PROVE  IInv'
<1>1. PICK p \in Pages, sms \in BOOLEAN, proto \in {"none", "saved"} :
        Load(p, sms, proto, {}) /\ dlg.box = "none"
  BY AtLogin, SessionAssumption DEF Login, createMenu, ExitQuickSetup, displaySubForm,
    displayForm, Menu, clearRefreshTimers, Protocol
<1> QED
  BY <1>1, LoadStep

LEMMA QuickSetupIInv ==
  ASSUME IInv, QuickSetup
  PROVE  IInv'
<1>1. vpn' \in Vpn /\ VpnInv'
  BY LeftVpn DEF QuickSetup, IInv, Shape, VpnInv, PollGoesOn
<1>2. BoxInv'
  BY FreeBox, FreeStep DEF QuickSetup, Menu, IInv, BoxInv, Mine
<1>3. Clean' /\ PageInv' /\ dlg' \in Box
  BY DEF QuickSetup, Menu, clearRefreshTimers, IInv, Shape, Clean, PageInv, RefreshFitsPage,
    Setup, Refreshing
<1> QED
  BY <1>1, <1>2, <1>3 DEF IInv, Shape

LEMMA SetupIInv ==
  ASSUME IInv,
         \/ \E p \in Setup : showDiv(p)
         \/ \E yes \in BOOLEAN : SaveQsAccountSet(yes)
         \/ SaveQsInternetConnSet
  PROVE  IInv'
<1>1. dlg.box = "none" /\ dlg \in Box /\ ~Covered(dlg)
  BY FreeBox DEF showDiv, SaveQsAccountSet, SaveQsInternetConnSet, Free
<1>2. ASSUME NEW p \in Setup, showDiv(p) PROVE IInv'
  <2>1. dlg' \in Box /\ dlg'.box # "qs wifi" /\ (Own(dlg) => Own(dlg'))
    BY <1>1, <1>2, OnLoadBox DEF showDiv
  <2>2. BoxInv'
    BY <1>1, <1>2, <2>1, FreeStep DEF showDiv, IInv, BoxInv, Mine
  <2> QED
    BY <1>2, <2>1, <2>2, SetupStep DEF showDiv, IInv
<1>3. ASSUME NEW yes \in BOOLEAN, SaveQsAccountSet(yes) PROVE IInv'
  <2>1. PostXml(dlg) \in Box /\ PostXml(dlg).box = "none" /\ (Own(dlg) => Own(PostXml(dlg)))
    BY <1>1, PostXmlBox
  <2>2. dlg' \in Box /\ dlg'.box # "qs wifi" /\ (Own(dlg) => Own(dlg'))
    <3>1. CASE yes
      <4> DEFINE d == onLoad(PostXml(dlg), page', FALSE)
      <4>1. d \in Box /\ d.box # "message" /\ (Own(dlg) => Own(d))
        <5>1. d = PostXml(PostXml(dlg))
          BY <1>3 DEF SaveQsAccountSet, onLoad, ShowsSettings, GetWanConfig
        <5> QED
          BY <2>1, <5>1, PostXmlBox
      <4>2. dlg' = showMsgBoxAutoClose(d)
        BY <1>3, <3>1 DEF SaveQsAccountSet
      <4> QED
        BY <4>1, <4>2, AutoCloseBox
    <3>2. CASE ~yes
      BY <1>1, <1>3, <3>2, OnLoadBox DEF SaveQsAccountSet
    <3> QED
      BY <3>1, <3>2
  <2>3. BoxInv'
    BY <1>1, <1>3, <2>2, FreeStep DEF SaveQsAccountSet, IInv, BoxInv, Mine
  <2> QED
    BY <1>3, <2>2, <2>3, SetupStep DEF SaveQsAccountSet, IInv, Setup
<1>4. CASE SaveQsInternetConnSet
  <2>1. dlg' = Wait(dlg)
    BY <1>1, <1>4, WaitBox, OnLoadBox DEF SaveQsInternetConnSet
  <2>2. dlg' \in Box /\ dlg'.box = "wait" /\ Covered(dlg') /\ (Own(dlg) => Own(dlg'))
    BY <1>1, <2>1, WaitBox
  <2>3. BoxInv'
    BY <1>1, <1>4, <2>2, BeginStep DEF SaveQsInternetConnSet, IInv, BoxInv, Mine, Begin
  <2> QED
    BY <1>4, <2>2, <2>3, SetupStep DEF SaveQsInternetConnSet, IInv, Free, Setup
<1> QED
  BY <1>2, <1>3, <1>4

\* F5 reads the page again, whatever the box shows.
LEMMA F5IInv ==
  ASSUME IInv, NEW sms \in BOOLEAN, NEW proto, F5(sms, proto)
  PROVE  IInv'
<1>1. page # "login" /\ UNCHANGED <<page, running, work, ussd, cp>> /\ dlg \in Box
  BY DEF F5, IInv, Shape
<1>2. /\ dlg' \in Box /\ dlg'.box \in {dlg.box, "none", "message"}
      /\ dlg.box = "none" /\ Own(dlg) => Own(dlg')
  BY <1>1, OnLoadBox DEF F5
<1>3. vpn' \in Vpn /\ VpnInv'
  <2>1. CASE page = "vpn"
    BY <1>1, <2>1, InfoVpn DEF F5, IInv, Shape, VpnInv, PollGoesOn
  <2>2. CASE page # "vpn"
    BY <1>1, <2>2 DEF F5, IInv, Shape, VpnInv, PollGoesOn
  <2> QED
    BY <2>1, <2>2
<1>4. BoxInv'
  <2>1. CASE Tidy'
    BY <2>1, NoBoxOwn DEF Tidy, BoxInv, Mine, UnderWay
  <2>2. CASE ~Tidy' /\ ~stray'
    <3>1. ~stray /\ (dlg' = dlg \/ dlg.box = "none")
      BY <2>2 DEF F5
    <3>2. CASE dlg' = dlg
      BY <1>1, <3>1, <3>2 DEF IInv, BoxInv, Mine, UnderWay, Own, Covered
    <3>3. CASE dlg.box = "none"
      BY <1>1, <1>2, <3>1, <3>3 DEF IInv, BoxInv, Mine, UnderWay, Covered
    <3> QED
      BY <3>1, <3>2, <3>3
  <2> QED
    BY <2>1, <2>2 DEF BoxInv
<1> QED
  BY <1>1, <1>2, <1>3, <1>4, VpnStep DEF IInv

-----------------------------------------------------------------------------
(* The VPN's poll, and the check box of the baseband.                      *)

LEMMA PollIInv ==
  ASSUME IInv,
         \/ getVPNStatu \/ CpNoAnswer \/ ToggleCp
         \/ \E mine \in BOOLEAN :
              VpnNoAnswer(mine) \/ \E up \in BOOLEAN : VpnAnswer(up, mine)
         \/ \E proto \in {"none", "saved", "other"} : SelectProtocol(proto)
  PROVE  IInv'
<1>1. /\ UNCHANGED <<page, running, dlg, work, ussd>> /\ Kept
      /\ vpn \in Vpn /\ VpnInv
  BY DEF getVPNStatu, CpNoAnswer, ToggleCp, VpnNoAnswer, VpnAnswer, SelectProtocol, IInv, Shape
<1>2. ASSUME getVPNStatu
      PROVE  page # "login" /\ vpn' \in Vpn /\ VpnInv'
  <2>1. page # "login"
    BY <1>2, AtLogin DEF getVPNStatu
  <2>2. /\ vpn' = [vpn EXCEPT !.timer = FALSE, !.n = vpn.n + 1, !.asked = vpn.asked + 1]
        /\ vpn.n + 1 \in Nat /\ vpn.asked + 1 \in Nat
    BY <1>1, <1>2 DEF getVPNStatu, Vpn
  <2>3. /\ vpn' \in Vpn /\ vpn'.shown = vpn.shown /\ vpn'.asked = vpn.asked + 1
        /\ vpn'.older = vpn.older
    BY <1>1, <2>2 DEF Vpn
  <2>4. Asked(vpn') > 0
    BY <1>1, <2>3 DEF Asked, Vpn
  <2>5. VpnInv'
    BY <1>1, <2>3, <2>4 DEF VpnInv, PollGoesOn
  <2> QED
    BY <2>1, <2>3, <2>5
<1>3. ASSUME CpNoAnswer \/ ToggleCp
      PROVE  page # "login" /\ vpn' \in Vpn /\ VpnInv'
  BY <1>1, <1>3, AtLogin DEF CpNoAnswer, ToggleCp, Free, VpnInv, PollGoesOn, Asked
<1>4. ASSUME NEW mine \in BOOLEAN, VpnNoAnswer(mine)
      PROVE  page # "login" /\ vpn' \in Vpn /\ VpnInv'
  <2> DEFINE v == Answered(vpn, mine)
             w == [v EXCEPT !.gaveUp =
                     @ \/ (page = "vpn" /\ ~vpn.timer /\ Asked(vpn) = 1)]
  <2>1. /\ v \in Vpn /\ v.timer = vpn.timer /\ v.shown = vpn.shown
        /\ v.gaveUp = vpn.gaveUp /\ Asked(v) = Asked(vpn) - 1 /\ Asked(vpn) \in Nat
    BY <1>1, <1>4 DEF VpnNoAnswer, Arrives, Answered, Vpn, Asked
  <2>2. /\ w \in Vpn /\ w.timer = v.timer /\ w.shown = v.shown /\ Asked(w) = Asked(v)
        /\ w.gaveUp = (v.gaveUp \/ (page = "vpn" /\ ~vpn.timer /\ Asked(vpn) = 1))
    <3> HIDE DEF v
    <3> QED
      BY <2>1 DEF Vpn, Asked
  <2>3. vpn' = Rest(w)
    BY <1>4 DEF VpnNoAnswer
  <2> HIDE DEF v, w
  <2>4. /\ vpn' \in Vpn /\ vpn'.timer = w.timer /\ vpn'.shown = w.shown
        /\ Asked(vpn') = Asked(w) /\ vpn'.gaveUp = w.gaveUp
    BY <2>2, <2>3, RestVpn DEF Asked
  <2>5. VpnInv'
    <3>1. page' # "vpn" => vpn'.shown = "none"
      BY <1>1, <2>1, <2>2, <2>4 DEF VpnInv
    <3>2. ASSUME vpn'.shown = "connecting", ~vpn'.gaveUp, ~vpn'.timer
          PROVE  Asked(vpn') > 0
      <4>1. vpn.shown = "connecting" /\ page = "vpn"
        BY <1>1, <2>1, <2>2, <2>4, <3>2 DEF VpnInv
      <4>2. ~vpn.gaveUp /\ ~vpn.timer /\ Asked(vpn) # 1
        BY <2>1, <2>2, <2>4, <3>2, <4>1, Zenon
      <4>3. Asked(vpn) > 0
        BY <1>1, <4>1, <4>2 DEF VpnInv, PollGoesOn
      <4> QED
        BY <2>1, <2>2, <2>4, <4>2, <4>3
    <3> QED
      BY <3>1, <3>2 DEF VpnInv, PollGoesOn
  <2>6. page # "login"
    BY <1>4, AtLogin DEF VpnNoAnswer, Arrives
  <2> QED
    BY <2>4, <2>5, <2>6
<1>5. ASSUME NEW mine \in BOOLEAN, NEW up \in BOOLEAN, VpnAnswer(up, mine)
      PROVE  page # "login" /\ vpn' \in Vpn /\ VpnInv'
  <2> DEFINE v == Answered(vpn, mine)
             shown == IF up THEN Show("connected")
                      ELSE IF vpn.n < VpnPolls THEN v.shown ELSE Show("disconnected")
             w == [v EXCEPT !.timer = ~up /\ Again,
                            !.up = @ \/ (up /\ mine /\ page = "vpn"),
                            !.shown = shown]
  <2>0. Arrives(mine)
    BY <1>5 DEF VpnAnswer
  <2>1. v \in Vpn /\ v.shown = vpn.shown
    <3>1. CASE mine
      BY <1>1, <2>0, <3>1 DEF Arrives, Answered, Vpn
    <3>2. CASE ~mine
      BY <1>1, <2>0, <3>2 DEF Arrives, Answered, Vpn
    <3> QED
      BY <3>1, <3>2
  <2>2. /\ shown \in {"none", "connecting", "connected", "disconnected"}
        /\ page # "vpn" => shown = "none"
        /\ shown = "connecting" => (~up /\ Again)
    BY <1>1, <2>1 DEF Show, VpnInv, Again, Vpn
  <2>3. w \in Vpn /\ w.timer = (~up /\ Again) /\ w.shown = shown
    <3> HIDE DEF v, shown
    <3> QED
      BY <2>1, <2>2 DEF Vpn
  <2>4. vpn' = Rest(w)
    BY <1>5 DEF VpnAnswer, Again
  <2> HIDE DEF v, w, shown
  <2>5. vpn' \in Vpn /\ vpn'.timer = w.timer /\ vpn'.shown = shown
    BY <2>3, <2>4, RestVpn
  <2>6. VpnInv'
    BY <1>1, <2>2, <2>3, <2>5 DEF VpnInv, PollGoesOn
  <2>7. page # "login"
    BY <2>0, AtLogin DEF Arrives
  <2> QED
    BY <2>5, <2>6, <2>7
<1>6. ASSUME NEW proto \in {"none", "saved", "other"}, SelectProtocol(proto)
      PROVE  page # "login" /\ vpn' \in Vpn /\ VpnInv'
  <2>1. PICK t \in {"none", "connected", "disconnected"} : vpn' = [vpn EXCEPT !.shown = t]
    BY <1>6, Zenon DEF SelectProtocol
  <2> QED
    BY <1>1, <1>6, <2>1 DEF SelectProtocol, Vpn, VpnInv, PollGoesOn
<1> QED
  BY <1>1, <1>2, <1>3, <1>4, <1>5, <1>6, SameStay

LEMMA SaveVpnIInv ==
  ASSUME IInv, NEW valid \in BOOLEAN, SaveVpn(valid)
  PROVE  IInv'
<1>1. /\ page = "vpn" /\ dlg.box = "none" /\ dlg \in Box /\ ~Covered(dlg)
      /\ UNCHANGED <<page, running, ussd, cp>> /\ Kept /\ vpn \in Vpn /\ VpnInv
  BY FreeBox DEF SaveVpn, Free, IInv, Shape
<1>2. vpn' \in Vpn /\ VpnInv'
  <2> DEFINE w == [vpn EXCEPT !.timer = FALSE,
                              !.gaveUp = @ \/ (vpn.timer /\ Asked(vpn) = 0)]
  <2>1. /\ w \in Vpn /\ w.shown = vpn.shown /\ w.asked = vpn.asked /\ w.older = vpn.older
        /\ w.gaveUp = (vpn.gaveUp \/ (vpn.timer /\ Asked(vpn) = 0))
    BY <1>1 DEF Vpn
  <2>2. vpn' = Rest(w)
    BY DEF SaveVpn
  <2> HIDE DEF w
  <2>3. /\ vpn' \in Vpn /\ vpn'.shown = vpn.shown /\ vpn'.gaveUp = w.gaveUp
        /\ Asked(vpn') = Asked(vpn) /\ Asked(vpn) \in Nat
    BY <1>1, <2>1, <2>2, RestVpn DEF Asked, Vpn
  <2>4. ASSUME vpn'.shown = "connecting", ~vpn'.gaveUp
        PROVE  Asked(vpn') > 0
    <3>1. ~vpn.gaveUp /\ ~(vpn.timer /\ Asked(vpn) = 0)
      BY <2>1, <2>3, <2>4, Zenon
    <3>2. vpn.timer \/ Asked(vpn) > 0
      BY <1>1, <2>3, <2>4, <3>1 DEF VpnInv, PollGoesOn
    <3> QED
      BY <2>3, <3>1, <3>2
  <2> QED
    BY <1>1, <2>3, <2>4 DEF VpnInv, PollGoesOn
<1>3. /\ dlg' \in Box /\ dlg'.box # "qs wifi"
      /\ BoxInv'
  <2>1. CASE valid
    <3>1. dlg' = Wait(dlg) /\ Begin("vpn")
      BY <2>1 DEF SaveVpn
    <3>2. dlg' \in Box /\ dlg'.box = "wait" /\ Covered(dlg') /\ (Own(dlg) => Own(dlg'))
      BY <1>1, <3>1, WaitBox
    <3> QED
      BY <1>1, <3>1, <3>2, BeginStep DEF IInv, BoxInv, Mine, Begin
  <2>2. CASE ~valid
    BY <1>1, <2>2, SameStep DEF SaveVpn, IInv
  <2> QED
    BY <2>1, <2>2
<1> QED
  BY <1>1, <1>2, <1>3, VpnStep DEF IInv

LEMMA SetVpnIInv ==
  ASSUME IInv, NEW ok \in BOOLEAN, NEW proto, SetVpn(ok, proto)
  PROVE  IInv'
<1>1. /\ Done("vpn", {}) /\ UNCHANGED <<page, running, ussd, cp>> /\ Kept
      /\ dlg \in Box /\ vpn \in Vpn /\ VpnInv
  BY DEF SetVpn, IInv, Shape
<1>2. dlg' \in Box /\ dlg'.box # "qs wifi" /\ (Own(dlg) => Own(dlg'))
  <2>1. PostXml(dlg) \in Box /\ PostXml(dlg).box = "none" /\ (Own(dlg) => Own(PostXml(dlg)))
    BY <1>1, PostXmlBox
  <2> QED
    BY <2>1, AutoCloseBox DEF SetVpn
<1>3. vpn' \in Vpn /\ VpnInv'
  <2> DEFINE v == getVPNInfo(vpn, proto)
  <2>1. v \in Vpn /\ (v.shown = "none" \/ v.timer)
    BY <1>1, InfoVpn
  <2>2. vpn' \in {vpn, v} \/ (page # "vpn" /\ vpn' = [v EXCEPT !.shown = vpn.shown])
    BY DEF SetVpn
  <2>4. page # "vpn" => vpn'.shown = "none"
    <3>1. page # "vpn" => vpn' = vpn \/ vpn' = [v EXCEPT !.shown = vpn.shown]
      BY DEF SetVpn
    <3> QED
      BY <1>1, <2>1, <3>1 DEF VpnInv, Vpn
  <2> HIDE DEF v
  <2>5. CASE vpn' = vpn
    BY <1>1, <2>5 DEF VpnInv, PollGoesOn, Asked
  <2>6. CASE vpn' = v
    BY <1>1, <2>1, <2>4, <2>6 DEF VpnInv, PollGoesOn
  <2>7. CASE page # "vpn" /\ vpn' = [v EXCEPT !.shown = vpn.shown]
    BY <1>1, <2>1, <2>4, <2>7 DEF VpnInv, PollGoesOn, Vpn
  <2> QED
    BY <2>2, <2>5, <2>6, <2>7
<1>4. page # "login" /\ BoxInv'
  BY <1>1, <1>2, EndBox
<1> QED
  BY <1>1, <1>2, <1>3, <1>4, VpnStep DEF IInv

-----------------------------------------------------------------------------
(* Timers and answers that nobody asked for.                               *)

LEMMA TimerIInv ==
  ASSUME IInv, MessageTimer \/ OrphanedTimer \/ CpAnswer
  PROVE  IInv'
<1>1. dlg \in Box /\ page # "login" /\ UNCHANGED <<page, running, work, ussd, vpn>>
  BY AtLogin DEF MessageTimer, OrphanedTimer, CpAnswer, IInv, Shape
<1>2. CloseDlg(dlg) \in Box /\ CloseDlg(dlg).box = "none" /\ (Own(dlg) => Own(CloseDlg(dlg)))
  BY <1>1, CloseDlgBox
<1>3. CASE MessageTimer
  <2>1. stray \/ ~Covered(dlg)
    BY <1>3 DEF MessageTimer, IInv, BoxInv, Mine, Own, Covered
  <2> QED
    BY <1>1, <1>2, <1>3, <2>1, FreeStay DEF MessageTimer
<1>4. CASE OrphanedTimer
  <2>1. stray
    <3>1. stray \/ dlg.orphans = 0
      BY DEF IInv, BoxInv, Mine, Own
    <3> QED
      BY <1>4, <3>1 DEF OrphanedTimer
  <2>2. /\ dlg' = [CloseDlg(dlg) EXCEPT !.orphans = dlg.orphans - 1]
        /\ dlg.orphans - 1 \in Nat
    BY <1>1, <1>4, CloseDlgBox DEF OrphanedTimer, Box
  <2>3. dlg' \in Box /\ dlg'.box = "none"
    BY <1>2, <2>2 DEF Box
  <2> QED
    BY <1>1, <1>4, <2>1, <2>3, FreeStay DEF OrphanedTimer
<1>5. CASE CpAnswer
  <2>1. /\ dlg' \in Box /\ dlg'.box = "message"
        /\ Own(dlg) /\ dlg.box = "none" => Own(dlg')
    BY <1>1, <1>5, AutoCloseBox DEF CpAnswer
  <2>2. BoxInv'
    BY <1>1, <1>5, <2>1 DEF CpAnswer, IInv, BoxInv, Mine, UnderWay, Covered
  <2> QED
    BY <1>1, <2>1, <2>2, StayStep DEF IInv
<1> QED
  BY <1>3, <1>4, <1>5

LEMMA SessionEndIInv ==
  ASSUME IInv, SessionExpires \/ Refused \/ LogoutTimer
  PROVE  IInv'
BY LoginStep DEF SessionExpires, Refused, LogoutTimer

LEMMA UssdIInv ==
  ASSUME IInv, UssdDialUp \/ \E empty \in BOOLEAN : QueryUssdNetworkStatus(empty)
  PROVE  IInv'
<1>1. /\ dlg \in Box /\ page # "login" /\ UNCHANGED <<page, running, work, cp, vpn>>
      /\ Kept
  BY AtLogin DEF UssdDialUp, QueryUssdNetworkStatus, Free, IInv, Shape
<1>2. CASE UssdDialUp
  <2>1. PostXml(dlg) \in Box /\ PostXml(dlg).box = "none" /\ (Own(dlg) => Own(PostXml(dlg)))
    BY <1>1, PostXmlBox
  <2>2. dlg' \in Box /\ dlg'.box = "wait" /\ Covered(dlg') /\ (Own(dlg) => Own(dlg'))
    BY <1>2, <2>1, WaitBox DEF UssdDialUp
  <2>3. stray \/ Mine'
    BY <1>1, <1>2, <2>2 DEF UssdDialUp, Free, IInv, BoxInv, Mine, UnderWay, Covered
  <2> QED
    BY <1>1, <2>2, <2>3, KeptBox, StayStep DEF IInv
<1>3. ASSUME NEW empty \in BOOLEAN, QueryUssdNetworkStatus(empty)
      PROVE  IInv'
  <2>1. CloseDlg(dlg) \in Box /\ CloseDlg(dlg).box = "none" /\ (Own(dlg) => Own(CloseDlg(dlg)))
    BY <1>1, CloseDlgBox
  <2>2. ussd # NoPoll /\ (dlg' = dlg \/ (dlg' = CloseDlg(dlg) /\ ussd' = NoPoll))
    BY <1>3 DEF QueryUssdNetworkStatus
  <2>3. dlg' \in Box /\ (dlg'.box = "qs wifi" => dlg.box = "qs wifi")
    BY <1>1, <2>1, <2>2
  <2>4. stray \/ Mine'
    BY <1>1, <2>1, <2>2 DEF IInv, BoxInv, Mine, UnderWay, Covered, Own
  <2> QED
    BY <1>1, <2>3, <2>4, KeptBox, StayStep DEF IInv
<1> QED
  BY <1>2, <1>3

-----------------------------------------------------------------------------
(* Operations behind "please wait".                                        *)

\* What follows an operation: nothing, or one other that needs the box as well.
Following == {{}, {"logout"}, {"blocked"}, {"not blocked"}, {"fota asked"}, {"fota status"},
              {"wifi"}, {"internet"}}

LEMMA FollowingOne ==
  ASSUME NEW next \in Following
  PROVE  "qs wifi" \notin next /\ \A u, v \in next : u = v
BY DEF Following

\* The box of an operation that goes on stays as it is.
LEMMA GoesOnIInv ==
  ASSUME IInv,
         \/ PowerOff \/ SendUpgradeUrl \/ PostXmlAsyncForUpdate
         \/ \E w \in {"reboot", "reset"} : Restart(w)
         \/ \E ok \in BOOLEAN : BlockClients(ok)
  PROVE  IInv'
<1>1. PICK w \in {"poweroff", "fota", "fota asked", "fota status", "reboot", "reset", "block"},
           next \in Following : Done(w, next)
  <2>1. {} \in Following /\ {"logout"} \in Following /\ {"fota asked"} \in Following
    BY DEF Following
  <2>2. \A ok \in BOOLEAN : {IF ok THEN "blocked" ELSE "not blocked"} \in Following
    BY DEF Following
  <2> QED
    BY <2>1, <2>2 DEF PowerOff, SendUpgradeUrl, PostXmlAsyncForUpdate, Restart, BlockClients
<1>2. UNCHANGED <<dlg, page, running, ussd, vpn>> /\ Kept /\ dlg \in Box
  BY DEF PowerOff, SendUpgradeUrl, PostXmlAsyncForUpdate, Restart, BlockClients, IInv, Shape
<1> QED
  BY <1>1, <1>2, FollowingOne, DoneStay

\* The page's settings are sent with a request that has parameters.
LEMMA SetDnsIInv ==
  ASSUME IInv, NEW ok \in BOOLEAN, SetDns(ok)
  PROVE  IInv'
<1>1. PICK next \in Following : Done("dns", next) /\ (next = {} \/ ok)
  BY DEF SetDns, Following
<1>2. UNCHANGED <<page, running, ussd, vpn>> /\ Kept /\ dlg \in Box
  BY DEF SetDns, Others, IInv, Shape
<1>3. PostXml(dlg) \in Box /\ PostXml(dlg).box = "none" /\ (Own(dlg) => Own(PostXml(dlg)))
  BY <1>2, PostXmlBox
<1>4. dlg' \in Box /\ dlg'.box # "qs wifi" /\ (Own(dlg) => Own(dlg')) /\ (ok => Covered(dlg'))
  BY <1>3, WaitBox DEF SetDns
<1> QED
  BY <1>1, <1>2, <1>4, FollowingOne, DoneStay

\* What fails puts a message into the box, what does not goes on.
LEMMA ReportIInv ==
  ASSUME IInv, NEW ok \in BOOLEAN,
         \/ SetDhcp(ok) \/ upgradeCPRouterSoftWare_1802(ok) \/ UpgradeUrlAnswer(ok)
         \/ RestoreStatus(ok)
  PROVE  IInv'
<1>1. /\ UNCHANGED <<page, running, ussd, vpn>> /\ Kept /\ dlg \in Box
      /\ dlg' = IF ok THEN IF RestoreStatus(ok) THEN ShowDlg(dlg, "rebooting") ELSE dlg
                ELSE showMsgBox(dlg)
  BY DEF SetDhcp, upgradeCPRouterSoftWare_1802, UpgradeUrlAnswer, RestoreStatus, Others,
    IInv, Shape
<1>2. PICK w \in {"dhcp", "cp_local", "fota asked", "config"}, next \in Following :
        Done(w, next) /\ (next = {} \/ ok)
  <2>1. {} \in Following /\ {"logout"} \in Following /\ {"fota status"} \in Following
    BY DEF Following
  <2> QED
    BY <2>1 DEF SetDhcp, upgradeCPRouterSoftWare_1802, UpgradeUrlAnswer, RestoreStatus
<1>3. /\ ShowDlg(dlg, "rebooting") \in Box /\ ShowDlg(dlg, "rebooting").box = "rebooting"
      /\ Own(dlg) /\ Covered(dlg) => Own(ShowDlg(dlg, "rebooting"))
  BY <1>1, ShowDlgBox DEF Boxes, Own, Covered
<1>4. /\ showMsgBox(dlg) \in Box /\ showMsgBox(dlg).box = "message"
      /\ Own(dlg) /\ Covered(dlg) => Own(showMsgBox(dlg))
  BY <1>1, MessageBox DEF Covered
<1>5. /\ dlg' \in Box /\ (dlg'.box # "qs wifi" \/ dlg' = dlg)
      /\ Own(dlg) /\ Covered(dlg) => Own(dlg') /\ (ok => Covered(dlg'))
  BY <1>1, <1>3, <1>4 DEF Covered
<1> QED
  BY <1>1, <1>2, <1>5, FollowingOne, DoneStay

\* The box is taken away, and perhaps a message shown.
LEMMA TellIInv ==
  ASSUME IInv, NEW ok \in BOOLEAN, NEW changed \in SUBSET Settings, NEW bad,
         \/ CloseWifi(ok) \/ ModifyWifiConfig(ok) \/ SetInternet(changed, bad)
  PROVE  IInv'
<1>1. /\ UNCHANGED <<page, running, ussd, vpn>> /\ Kept /\ dlg \in Box
      /\ \E w \in {"wifi", "internet"} : Done(w, {})
  BY DEF CloseWifi, ModifyWifiConfig, SetInternet, Others, IInv, Shape
<1>2. CloseDlg(dlg) \in Box /\ CloseDlg(dlg).box = "none" /\ (Own(dlg) => Own(CloseDlg(dlg)))
  BY <1>1, CloseDlgBox
<1>3. dlg' \in Box /\ dlg'.box # "qs wifi" /\ (Own(dlg) => Own(dlg'))
  BY <1>2, ToldBox, AutoCloseBox DEF CloseWifi, ModifyWifiConfig, SetInternet
<1>4. page # "login" /\ BoxInv'
  BY <1>1, <1>3, EndBox
<1> QED
  BY <1>1, <1>3, <1>4, StayStep DEF IInv

LEMMA ProgradeIInv ==
  ASSUME IInv, NEW answer \in {"failed", "done"}, QueryAutoProgradeStatus(answer)
  PROVE  IInv'
<1>1. PICK next \in Following : Done("fota status", next) /\ (next = {} \/ answer # "failed")
  BY DEF QueryAutoProgradeStatus, Following
<1>2. UNCHANGED <<page, running, ussd, vpn>> /\ Kept /\ dlg \in Box
  BY DEF QueryAutoProgradeStatus, Others, IInv, Shape
<1>3. CloseDlg(dlg) \in Box /\ CloseDlg(dlg).box = "none" /\ (Own(dlg) => Own(CloseDlg(dlg)))
  BY <1>2, CloseDlgBox
<1>4. /\ dlg' \in Box /\ (dlg'.box # "qs wifi" \/ dlg' = dlg) /\ (Own(dlg) => Own(dlg'))
      /\ answer # "failed" => dlg' = dlg
  BY <1>2, <1>3, MessageBox DEF QueryAutoProgradeStatus
<1> QED
  BY <1>1, <1>2, <1>4, FollowingOne, DoneStay DEF Covered

\* An answer that is not XML leaves the end of the session behind; what is still asked
\* for is covered as before, and after the first question nothing is.
LEMMA GarbledIInv ==
  ASSUME IInv, Garbled
  PROVE  IInv'
<1>1. PICK w \in work \ {"leftover"} :
        /\ work' = (work \ {w}) \cup IF w = "fota asked" THEN {"leftover"}
                                     ELSE {w, "leftover"}
        /\ dlg' = IF w = "fota asked" THEN showMsgBox(dlg) ELSE dlg
        /\ w # "qs wifi"
  <2>1. CASE Done("fota asked", {"leftover"}) /\ dlg' = showMsgBox(dlg)
    <3>1. /\ "fota asked" \in work \ {"leftover"}
          /\ work' = (work \ {"fota asked"}) \cup {"leftover"}
      BY <2>1 DEF Done
    <3> QED
      BY <2>1, <3>1
  <2>2. CASE Done("fota status", {"fota status", "leftover"}) /\ dlg' = dlg
    <3>1. /\ "fota status" \in work \ {"leftover"}
          /\ work' = (work \ {"fota status"}) \cup {"fota status", "leftover"}
      BY <2>2 DEF Done
    <3> QED
      BY <2>2, <3>1
  <2> QED
    BY <2>1, <2>2 DEF Garbled
<1>2. UNCHANGED <<page, running, ussd, vpn>> /\ Kept /\ dlg \in Box
  BY DEF Garbled, Others, IInv, Shape
<1>3. page # "login"
  BY <1>1, AtLogin
<1>4. /\ showMsgBox(dlg) \in Box /\ showMsgBox(dlg).box = "message"
      /\ Own(dlg) /\ dlg.box # "message" => Own(showMsgBox(dlg))
  BY <1>2, MessageBox
<1>5. dlg' \in Box /\ (dlg'.box = "qs wifi" => dlg' = dlg)
  BY <1>1, <1>2, <1>4
<1>6. ASSUME ~stray PROVE Mine'
  <2>1. Own(dlg) /\ Covered(dlg) /\ dlg.box # "message" /\ Mine
    BY <1>1, <1>6, DoneCovered DEF IInv, BoxInv
  <2>2. CASE w = "fota asked"
    BY <1>1, <1>2, <1>4, <2>1, <2>2 DEF Mine, UnderWay
  <2>3. CASE w # "fota asked"
    BY <1>1, <1>2, <2>1, <2>3 DEF Mine, UnderWay
  <2> QED
    BY <2>2, <2>3
<1>7. BoxInv'
  BY <1>2, <1>6, KeptBox
<1> QED
  BY <1>2, <1>3, <1>5, <1>7, StayStep DEF IInv

\* The quick setup's Wi-Fi settings: with its step shown, as long as nobody has
\* touched the box, and with any other content otherwise.
LEMMA SetQsWifiIInv ==
  ASSUME IInv, NEW what, SetQsWifi(what)
  PROVE  IInv'
<1>1. UNCHANGED <<running, ussd, cp, vpn>> /\ Kept /\ dlg \in Box /\ "qs wifi" \in work
  BY DEF SetQsWifi, Done, IInv, Shape
<1>2. stray \/ page = "qs wifi"
  BY <1>1 DEF IInv, BoxInv, Mine
<1>3. CloseDlg(dlg) \in Box /\ CloseDlg(dlg).box = "none" /\ (Own(dlg) => Own(CloseDlg(dlg)))
  BY <1>1, CloseDlgBox
<1>4. PICK next \in Following :
        /\ Done("qs wifi", next) /\ dlg' \in Box
        /\ page' = page \/ (page \in Setup /\ page' = "guide" /\ dlg'.box # "qs wifi")
        /\ dlg' = dlg \/ dlg'.box # "qs wifi"
        /\ Own(dlg) /\ Covered(dlg) => Own(dlg')
        /\ next = {} \/ Covered(dlg') \/ page = "qs internet"
  <2>1. /\ {} \in Following /\ {"wifi"} \in Following /\ {"internet"} \in Following
        /\ Guide = page \/ (page \in Setup /\ Guide = "guide")
    BY DEF Following, Guide
  <2>2. CASE Done("qs wifi", {"wifi"}) /\ dlg' = Wait(dlg) /\ page' = Guide
    <3>1. /\ dlg' \in Box /\ dlg'.box = "wait" /\ Covered(dlg')
          /\ Own(dlg) /\ Covered(dlg) => Own(dlg')
      BY <1>1, <2>2, WaitBox DEF Covered
    <3> QED
      BY <2>1, <2>2, <3>1
  <2>3. CASE Done("qs wifi", {}) /\ dlg' = CloseDlg(dlg) /\ page' \in {page, Guide}
    BY <1>3, <2>1, <2>3
  <2>4. CASE Done("qs wifi", {}) /\ dlg' = Told(CloseDlg(dlg), what = "set") /\ page' = Guide
    <3>1. dlg' \in Box /\ dlg'.box = "message" /\ (Own(dlg) => Own(dlg'))
      BY <1>3, <2>4, ToldBox
    <3> QED
      BY <2>1, <2>4, <3>1
  <2>5. CASE /\ page = "qs internet" /\ Done("qs wifi", {"internet"})
             /\ dlg' = CloseDlg(dlg) /\ page' = Guide
    BY <1>3, <2>1, <2>5
  <2>6. CASE Done("qs wifi", {}) /\ UNCHANGED <<dlg, page>>
    BY <1>1, <2>1, <2>6
  <2> QED
    BY <2>2, <2>3, <2>4, <2>5, <2>6 DEF SetQsWifi
<1>5. page # "login" /\ BoxInv'
  BY <1>1, <1>2, <1>4, FollowingOne, DoneBox
<1>6. CASE page' = page
  BY <1>1, <1>4, <1>5, <1>6, StayStep DEF IInv
<1>7. CASE page \in Setup /\ page' = "guide" /\ dlg'.box # "qs wifi"
  BY <1>1, <1>4, <1>5, <1>7, SetupStep DEF IInv, Setup
<1> QED
  BY <1>4, <1>6, <1>7

\* The page is loaded again, and then the message shown.
LEMMA BlockTimerIInv ==
  ASSUME IInv, NEW sms \in BOOLEAN, NEW proto, BlockTimer(sms, proto)
  PROVE  IInv'
<1>1. /\ UNCHANGED <<page, running, ussd, cp>> /\ Kept /\ dlg \in Box
      /\ \E w \in {"blocked", "not blocked"} : Done(w, {})
  BY DEF BlockTimer, IInv, Shape
<1>2. /\ CloseDlg(dlg) \in Box /\ CloseDlg(dlg).box = "none" /\ CloseDlg(dlg).timeout = "off"
      /\ CloseDlg(dlg).orphans = dlg.orphans
      /\ Own(dlg) => Own(CloseDlg(dlg))
  BY <1>1, CloseDlgBox
<1>3. dlg' \in Box /\ dlg'.box # "qs wifi" /\ (Own(dlg) => Own(dlg'))
  <2> DEFINE d == onLoad(CloseDlg(dlg), page, sms)
  <2>1. d \in Box /\ d.timeout = "off" /\ d.orphans = dlg.orphans
    <3>1. ASSUME NEW c \in Box, c.timeout = "off"
          PROVE  /\ onLoad(c, page, sms) \in Box
                 /\ onLoad(c, page, sms).timeout = "off"
                 /\ onLoad(c, page, sms).orphans = c.orphans
      BY <3>1, OnLoadBox, OnLoadOff
    <3> QED
      BY <1>2, <3>1
  <2>2. dlg' \in {showMsgBox(CloseDlg(dlg)), CloseDlg(dlg), showMsgBoxAutoClose(d)}
    BY DEF BlockTimer
  <2> HIDE DEF d
  <2>3. /\ showMsgBoxAutoClose(d) \in Box /\ showMsgBoxAutoClose(d).box = "message"
        /\ Own(dlg) => Own(showMsgBoxAutoClose(d))
    BY <2>1, AutoCloseBox DEF Own
  <2>4. /\ showMsgBox(CloseDlg(dlg)) \in Box /\ showMsgBox(CloseDlg(dlg)).box = "message"
        /\ Own(dlg) => Own(showMsgBox(CloseDlg(dlg)))
    BY <1>2, MessageBox
  <2> QED
    BY <1>2, <2>2, <2>3, <2>4
<1>4. vpn' \in Vpn /\ VpnInv'
  <2>1. vpn' = vpn \/ (page = "vpn" /\ vpn' = getVPNInfo(vpn, proto))
    BY DEF BlockTimer
  <2>2. CASE vpn' = vpn
    BY <1>1, <2>2 DEF IInv, Shape, VpnInv, PollGoesOn
  <2>3. CASE page = "vpn" /\ vpn' = getVPNInfo(vpn, proto)
    BY <1>1, <2>3, InfoVpn DEF IInv, Shape, VpnInv, PollGoesOn
  <2> QED
    BY <2>1, <2>2, <2>3
<1>5. page # "login" /\ BoxInv'
  BY <1>1, <1>3, EndBox
<1> QED
  BY <1>1, <1>3, <1>4, <1>5, VpnStep DEF IInv

-----------------------------------------------------------------------------
(* The whole.                                                              *)

LEMMA InitIInv == Init => IInv
BY NoBoxOwn, NoVpnTyped DEF Init, IInv, Shape, Clean, PageInv, RefreshFitsPage, VpnInv,
  PollGoesOn, BoxInv, Mine, UnderWay, Refreshing

LEMMA UserIInv ==
  ASSUME IInv, ByUser
  PROVE  IInv'
<1>1. ASSUME NEW sms \in NewSms(page), NEW proto \in Protocol(page), F5(sms, proto) PROVE IInv'
  BY <1>1, F5IInv DEF NewSms
<1>2. checkVersionUpdate = BOOLEAN
  BY DEF checkVersionUpdate
<1> QED
  BY <1>1, <1>2, DialogIInv, MessageIInv, QuestionIInv, BeginIInv, UpgradeIInv, MenuIInv,
    QuickSetupIInv, SetupIInv, PollIInv, SaveVpnIInv, UssdIInv DEF ByUser

LEMMA BackgroundIInv ==
  ASSUME IInv, Background
  PROVE  IInv'
<1>1. CASE Operation
  <2>1. ASSUME NEW sms \in NewSms(page), NEW proto \in Protocol(page), BlockTimer(sms, proto)
        PROVE  IInv'
    BY <2>1, BlockTimerIInv DEF NewSms
  <2>2. ASSUME NEW changed \in SUBSET Settings, NEW bad \in SUBSET changed,
               SetInternet(changed, bad)
        PROVE  IInv'
    BY <2>2, TellIInv
  <2>3. ASSUME NEW ok \in BOOLEAN, CloseWifi(ok) \/ ModifyWifiConfig(ok)
        PROVE  IInv'
    BY <2>3, TellIInv
  <2> QED
    BY <1>1, <2>1, <2>2, <2>3, GoesOnIInv, SetDnsIInv, ReportIInv, ProgradeIInv,
      GarbledIInv, SetQsWifiIInv, SetVpnIInv, UssdIInv DEF Operation
<1> QED
  BY <1>1, TimerIInv, SessionEndIInv, PollIInv DEF Background

LEMMA NextIInv == IInv /\ [Next]_vars => IInv'
<1> SUFFICES ASSUME IInv, [Next]_vars PROVE IInv'
  OBVIOUS
<1>1. CASE UNCHANGED vars
  BY <1>1 DEF vars, IInv, Shape, Clean, PageInv, RefreshFitsPage, VpnInv, PollGoesOn, Asked,
    BoxInv, Mine, UnderWay, Own, Covered
<1>2. CASE Next
  BY <1>2, UserIInv, BackgroundIInv, SessionEndIInv DEF Next
<1> QED
  BY <1>1, <1>2

LEMMA SessionInductive == Spec => []IInv
<1> QED
  BY InitIInv, NextIInv, PTL DEF Spec

\* The refresh timer that runs is always that of the page shown.
THEOREM RefreshTimersFit == Spec => []RefreshFitsPage
<1>1. IInv => RefreshFitsPage
  BY DEF IInv, PageInv
<1> QED
  BY <1>1, SessionInductive, PTL

\* Nothing but F5 and the answers for the baseband's check box uncovers the page
\* under an operation, however many there are and in whatever order they end.
THEOREM OperationsAreCovered == Spec => []BoxCoversWork
<1>1. IInv => BoxCoversWork
  BY DEF IInv, BoxInv, Mine, UnderWay, Covered, BoxCoversWork
<1> QED
  BY <1>1, SessionInductive, PTL

\* Nor does anything else let the timer of a message close another box.
THEOREM TimersCloseTheirOwn == Spec => []AutoCloseIsOwn
<1>1. IInv => AutoCloseIsOwn
  BY DEF IInv, BoxInv, Mine, Own, AutoCloseIsOwn
<1> QED
  BY <1>1, SessionInductive, PTL

\* Whatever is pressed meanwhile, a VPN page that says "connecting" is polling.
THEOREM ConnectingIsPolled == Spec => []PollGoesOn
<1>1. IInv => PollGoesOn
  BY DEF IInv, VpnInv
<1> QED
  BY <1>1, SessionInductive, PTL

-----------------------------------------------------------------------------
(* Types and bounds.                                                       *)

\* A message's timer is out of reach only where the bound allows one more, and without
\* a box there is no timer.
Few(d) ==
  d \in Box /\ d.orphans <= MaxOrphans /\ (d.box = "none" => d.timeout = "off")

LEMMA ShowFew ==
  ASSUME NEW d, Few(d), NEW w \in Boxes \ {"none"}
  PROVE  /\ Few(ShowDlg(d, w))
         /\ d.timeout = "off" => ShowDlg(d, w).timeout = "off"
BY ShowDlgBox DEF Few

LEMMA WaitFew ==
  ASSUME NEW d, Few(d)
  PROVE  Few(Wait(d)) /\ (d.timeout = "off" => Wait(d).timeout = "off")
BY ShowFew DEF Wait, Boxes

LEMMA MessageFew ==
  ASSUME NEW d, Few(d)
  PROVE  Few(showMsgBox(d)) /\ (d.timeout = "off" => showMsgBox(d).timeout = "off")
BY ShowFew DEF showMsgBox, Boxes

LEMMA CloseFew ==
  ASSUME NEW d, Few(d)
  PROVE  Few(CloseDlg(d)) /\ CloseDlg(d).timeout = "off"
BY CloseDlgBox DEF Few

LEMMA PostFew ==
  ASSUME NEW d, Few(d)
  PROVE  Few(PostXml(d)) /\ PostXml(d).timeout = "off"
BY PostXmlBox DEF Few

LEMMA AutoFew ==
  ASSUME NEW d, Few(d), d.timeout = "off"
  PROVE  Few(showMsgBoxAutoClose(d))
<1>1. showMsgBoxAutoClose(d).orphans = d.orphans /\ showMsgBoxAutoClose(d).box = "message"
  BY DEF showMsgBoxAutoClose
<1> QED
  BY <1>1, AutoCloseBox DEF Few

LEMMA ToldFew ==
  ASSUME NEW d, Few(d), d.timeout = "off", NEW ok \in BOOLEAN
  PROVE  Few(Told(d, ok))
BY MessageFew, AutoFew DEF Told

LEMMA LoadFew ==
  ASSUME NEW d, Few(d), NEW p, NEW sms \in BOOLEAN
  PROVE  /\ Few(onLoad(d, p, sms))
         /\ d.timeout = "off" => onLoad(d, p, sms).timeout = "off"
BY PostFew, MessageFew DEF onLoad, GetWanConfig

LEMMA NoBoxFew == Few(NoBox)
BY SessionAssumption DEF Few, NoBox, Box, Boxes

\* The box after the handlers that the user starts.
LEMMA UserFew ==
  ASSUME Few(dlg), ByUser
  PROVE  Few(dlg')
<1>0. dlg.box = "none" => dlg.timeout = "off"
  BY DEF Few
<1>1. CASE \/ QuickSetup \/ ToggleCp \/ \E proto \in {"none", "saved", "other"} : SelectProtocol(proto)
  BY <1>1 DEF QuickSetup, ToggleCp, SelectProtocol
<1>2. CASE CloseBox \/ logOutYes
  BY <1>2, CloseFew, NoBoxFew DEF CloseBox, logOutYes, clearAuthheader
<1>3. CASE \/ logOut \/ SaveQsWifiSet \/ (\E w \in DOMAIN PageOf : Ask(w))
  <2>1. /\ {"logout", "qs wifi"} \subseteq Boxes \ {"none"}
        /\ DOMAIN PageOf \subseteq Boxes \ {"none"}
    BY DEF Boxes, Queries, PageOf
  <2> QED
    BY <1>3, <2>1, ShowFew DEF logOut, SaveQsWifiSet, Ask
<1>4. CASE \/ SaveInternet \/ SaveWifi \/ SetBlockStatus \/ upgradeCP \/ UpdateCfgFile
           \/ (\E w \in DOMAIN PageOf : Confirm(w)) \/ Confirm("qs wifi")
           \/ (\E yes \in BOOLEAN : SaveVpn(yes))
  BY <1>4, WaitFew DEF SaveInternet, SaveWifi, SetBlockStatus, upgradeCP, UpdateCfgFile,
    Confirm, SaveVpn
<1>5. CASE SaveQsInternetConnSet
  BY <1>5, WaitFew, LoadFew DEF SaveQsInternetConnSet
<1>6. CASE ShowDetail \/ ClearCommDataFails \/ UssdDialUp
  BY <1>6, MessageFew, PostFew, WaitFew DEF ShowDetail, ClearCommDataFails, UssdDialUp
<1>7. CASE \/ (\E sms \in BOOLEAN : Login(sms) \/ createMenu(sms) \/ ExitQuickSetup(sms))
           \/ (\E p \in Pages :
                 displaySubForm(p) \/ \E proto \in Protocol(p) : displayForm(p, proto))
  BY <1>7, LoadFew DEF Login, createMenu, ExitQuickSetup, displaySubForm, displayForm, Load
<1>8. CASE \/ (\E sms \in NewSms(page), proto \in Protocol(page) : F5(sms, proto))
           \/ (\E p \in Setup : showDiv(p))
  BY <1>8, LoadFew DEF F5, showDiv, NewSms
<1>9. CASE \E known \in checkVersionUpdate : autoUpgradeVersion(known)
  BY <1>9, CloseFew, WaitFew, MessageFew DEF autoUpgradeVersion
<1>10. ASSUME NEW yes \in BOOLEAN, SaveQsAccountSet(yes) PROVE Few(dlg')
  <2>1. Few(PostXml(dlg)) /\ PostXml(dlg).timeout = "off"
    BY PostFew
  <2>2. /\ Few(onLoad(PostXml(dlg), page', FALSE))
        /\ onLoad(PostXml(dlg), page', FALSE).timeout = "off"
        /\ Few(onLoad(dlg, page', FALSE))
    BY <2>1, LoadFew
  <2> QED
    BY <1>10, <2>2, AutoFew DEF SaveQsAccountSet
<1>11. ASSUME NEW yes \in BOOLEAN, SaveDhcp(yes) PROVE Few(dlg')
  BY <1>0, <1>11, ToldFew DEF SaveDhcp, Free
<1>12. ASSUME NEW yes \in BOOLEAN, ResetClients(yes) \/ ClearAllPdpLog(yes) PROVE Few(dlg')
  BY <1>12, PostFew, ToldFew DEF ResetClients, ClearAllPdpLog
<1>13. ASSUME NEW yes \in BOOLEAN, NEW second \in BOOLEAN, DeletePdpLog(yes, second)
       PROVE  Few(dlg')
  <2>1. Few(Told(PostXml(dlg), yes))
    BY PostFew, ToldFew
  <2> QED
    BY <1>13, <2>1, PostFew, ToldFew DEF DeletePdpLog
<1>14. ASSUME NEW what, upgradeRouterSoftWare(what) PROVE Few(dlg')
  BY <1>14, MessageFew, WaitFew, CloseFew DEF upgradeRouterSoftWare
<1> QED
  BY <1>1, <1>2, <1>3, <1>4, <1>5, <1>6, <1>7, <1>8, <1>9, <1>10, <1>11, <1>12, <1>13,
    <1>14 DEF ByUser

\* The box after timers and answers: the baseband's answer alone puts a timer out of reach.
LEMMA OperationFew ==
  ASSUME Few(dlg), Operation
  PROVE  Few(dlg')
<1>1. CASE \/ PowerOff \/ SendUpgradeUrl \/ PostXmlAsyncForUpdate
           \/ (\E w \in {"reboot", "reset"} : Restart(w))
           \/ (\E ok \in BOOLEAN : BlockClients(ok))
  BY <1>1 DEF PowerOff, SendUpgradeUrl, PostXmlAsyncForUpdate, Restart, BlockClients
<1>2. ASSUME NEW ok \in BOOLEAN,
             \/ SetDns(ok) \/ SetDhcp(ok) \/ upgradeCPRouterSoftWare_1802(ok)
             \/ QueryUssdNetworkStatus(ok) \/ UpgradeUrlAnswer(ok)
      PROVE  Few(dlg')
  BY <1>2, PostFew, WaitFew, MessageFew, CloseFew
  DEF SetDns, SetDhcp, upgradeCPRouterSoftWare_1802, QueryUssdNetworkStatus, UpgradeUrlAnswer
<1>3. ASSUME NEW ok \in BOOLEAN, RestoreStatus(ok) PROVE Few(dlg')
  <2>1. "rebooting" \in Boxes \ {"none"}
    BY DEF Boxes
  <2> QED
    BY <1>3, <2>1, ShowFew, MessageFew DEF RestoreStatus
<1>4. ASSUME NEW ok \in BOOLEAN, CloseWifi(ok) \/ ModifyWifiConfig(ok) PROVE Few(dlg')
  BY <1>4, CloseFew, ToldFew, AutoFew DEF CloseWifi, ModifyWifiConfig
<1>5. ASSUME NEW ok \in BOOLEAN, NEW proto, SetVpn(ok, proto) PROVE Few(dlg')
  BY <1>5, PostFew, AutoFew DEF SetVpn
<1>6. ASSUME NEW sms \in BOOLEAN, NEW proto, BlockTimer(sms, proto) PROVE Few(dlg')
  <2>1. Few(CloseDlg(dlg)) /\ CloseDlg(dlg).timeout = "off"
    BY CloseFew
  <2>2. Few(onLoad(CloseDlg(dlg), page, sms)) /\ onLoad(CloseDlg(dlg), page, sms).timeout = "off"
    BY <2>1, LoadFew
  <2> QED
    BY <1>6, <2>1, <2>2, MessageFew, AutoFew DEF BlockTimer
<1>7. ASSUME NEW changed, NEW bad, SetInternet(changed, bad) PROVE Few(dlg')
  BY <1>7, CloseFew, AutoFew DEF SetInternet
<1>8. ASSUME NEW what, SetQsWifi(what) PROVE Few(dlg')
  <2>1. (what = "set") \in BOOLEAN
    OBVIOUS
  <2>2. Few(Told(CloseDlg(dlg), what = "set"))
    BY <2>1, CloseFew, ToldFew
  <2> QED
    BY <1>8, <2>2, WaitFew, CloseFew DEF SetQsWifi
<1>9. ASSUME NEW answer, QueryAutoProgradeStatus(answer) PROVE Few(dlg')
  BY <1>9, CloseFew, MessageFew DEF QueryAutoProgradeStatus
<1>10. NewSms(page) \subseteq BOOLEAN
  BY DEF NewSms
<1>11. CASE Garbled
  BY <1>11, MessageFew DEF Garbled
<1> QED
  BY <1>1, <1>2, <1>3, <1>4, <1>5, <1>6, <1>7, <1>8, <1>9, <1>10, <1>11 DEF Operation

LEMMA BackgroundFew ==
  ASSUME Few(dlg), Background
  PROVE  Few(dlg')
<1>1. CASE MessageTimer
  BY <1>1, CloseFew DEF MessageTimer
<1>2. CASE OrphanedTimer
  <2>1. /\ CloseDlg(dlg) \in Box /\ CloseDlg(dlg).box = "none" /\ CloseDlg(dlg).timeout = "off"
        /\ CloseDlg(dlg).orphans = dlg.orphans /\ dlg.orphans \in Nat
        /\ dlg.orphans > 0 /\ dlg.orphans <= MaxOrphans
    BY <1>2, CloseDlgBox DEF OrphanedTimer, Few, Box
  <2>2. dlg' = [CloseDlg(dlg) EXCEPT !.orphans = @ - 1]
    BY <1>2 DEF OrphanedTimer
  <2>3. /\ dlg.orphans - 1 \in Nat /\ dlg.orphans - 1 <= MaxOrphans
    BY <2>1, SessionAssumption
  <2>4. /\ dlg' \in Box /\ dlg'.orphans = dlg.orphans - 1 /\ dlg'.timeout = "off"
    BY <2>1, <2>2, <2>3 DEF Box
  <2> QED
    BY <2>3, <2>4 DEF Few
<1>3. CASE SessionExpires \/ LogoutTimer
  BY <1>3, NoBoxFew DEF SessionExpires, LogoutTimer, clearAuthheader
<1>4. CASE CpAnswer
  <2>1. dlg' = showMsgBoxAutoClose(dlg) /\ (dlg.timeout # "off" => dlg.orphans < MaxOrphans)
    BY <1>4 DEF CpAnswer
  <2>2. dlg' \in Box /\ dlg'.box = "message"
    BY <2>1, AutoCloseBox DEF Few
  <2>3. dlg'.orphans = IF dlg.timeout = "off" THEN dlg.orphans ELSE dlg.orphans + 1
    BY <2>1 DEF showMsgBoxAutoClose
  <2>4. dlg.orphans \in Nat /\ dlg.orphans <= MaxOrphans
    BY DEF Few, Box
  <2>5. dlg'.orphans <= MaxOrphans
    BY <2>1, <2>3, <2>4, SessionAssumption
  <2> QED
    BY <2>2, <2>5 DEF Few
<1>5. CASE \/ getVPNStatu \/ CpNoAnswer
           \/ \E mine \in BOOLEAN :
                VpnNoAnswer(mine) \/ \E up \in BOOLEAN : VpnAnswer(up, mine)
  BY <1>5 DEF getVPNStatu, CpNoAnswer, VpnNoAnswer, VpnAnswer
<1> QED
  BY <1>1, <1>2, <1>3, <1>4, <1>5, OperationFew DEF Background

\* A question that is due is within the bound.
FewAsked(v) ==
  /\ v \in Vpn /\ Asked(v) <= MaxAsked
  /\ v.n <= VpnPolls /\ (v.timer => v.n < VpnPolls)

LEMMA NoVpnFew == FewAsked(NoVpn)
<1>1. Asked(NoVpn) = 0 /\ NoVpn.n = 0 /\ ~NoVpn.timer
  BY DEF NoVpn, Asked
<1> QED
  BY <1>1, NoVpnTyped, SessionAssumption DEF FewAsked

LEMMA RestFew ==
  ASSUME NEW v, FewAsked(v)
  PROVE  FewAsked(Rest(v))
<1>1. /\ Rest(v).n \in {v.n, 0} /\ Asked(Rest(v)) = Asked(v)
  BY RestVpn DEF FewAsked, Rest, Asked, Vpn
<1>2. Rest(v).timer => Rest(v).n = v.n
  BY RestVpn DEF FewAsked, Rest, Vpn
<1> QED
  BY <1>1, <1>2, RestVpn, SessionAssumption DEF FewAsked

LEMMA InfoFew ==
  ASSUME NEW v, FewAsked(v), NEW proto
  PROVE  FewAsked(getVPNInfo(v, proto))
<1> DEFINE w == getVPNInfo(v, proto)
<1>1. w \in Vpn
  BY InfoVpn DEF FewAsked
<1>2. CASE proto = "none"
  <2>1. w.n = v.n /\ w.timer = v.timer /\ w.asked = v.asked /\ w.older = v.older
    BY <1>2 DEF getVPNInfo, FewAsked, Vpn
  <2> QED
    BY <1>1, <2>1 DEF FewAsked, Asked
<1>3. CASE proto # "none"
  <2>1. w.n = 0 /\ w.asked = v.asked /\ w.older = v.older
    BY <1>3 DEF getVPNInfo, FewAsked, Vpn
  <2>2. 0 <= VpnPolls /\ 0 < VpnPolls
    BY SessionAssumption
  <2> QED
    BY <1>1, <2>1, <2>2 DEF FewAsked, Asked
<1> QED
  BY <1>2, <1>3

LEMMA ShownFew ==
  ASSUME NEW v, FewAsked(v), NEW text \in {"none", "connecting", "connected", "disconnected"}
  PROVE  FewAsked([v EXCEPT !.shown = text])
<1> DEFINE w == [v EXCEPT !.shown = text]
<1>1. /\ w \in Vpn /\ w.n = v.n /\ w.timer = v.timer /\ w.asked = v.asked
      /\ w.older = v.older
  BY DEF FewAsked, Vpn
<1> QED
  BY <1>1 DEF FewAsked, Asked

LEMMA LeftFew ==
  ASSUME FewAsked(vpn)
  PROVE  FewAsked(Left)
<1> DEFINE v == [vpn EXCEPT !.timer = FALSE, !.shown = "none", !.up = FALSE,
                            !.gaveUp = FALSE, !.asked = 0, !.older = @ + vpn.asked]
<1>1. vpn.asked \in Nat /\ vpn.older \in Nat /\ vpn.older + vpn.asked \in Nat
  BY DEF FewAsked, Vpn
<1>2. /\ v \in Vpn /\ v.n = vpn.n /\ ~v.timer /\ v.asked = 0
      /\ v.older = vpn.older + vpn.asked
  BY <1>1 DEF FewAsked, Vpn
<1>3. Asked(v) = Asked(vpn)
  BY <1>1, <1>2 DEF Asked
<1>4. FewAsked(v)
  BY <1>2, <1>3 DEF FewAsked
<1> HIDE DEF v
<1>5. FewAsked(Rest(v))
  BY <1>4, RestFew
<1> QED
  BY <1>5 DEF Left, v

\* An answer takes a question away, and at the bound sets no timer.
LEMMA AnswerFew ==
  ASSUME FewAsked(vpn), NEW mine \in BOOLEAN, NEW up \in BOOLEAN,
         VpnAnswer(up, mine) \/ VpnNoAnswer(mine)
  PROVE  FewAsked(vpn')
<1> DEFINE a == Answered(vpn, mine)
<1>1. /\ a \in Vpn /\ Asked(a) <= MaxAsked /\ a.n = vpn.n /\ a.timer = vpn.timer
  <2>1. Arrives(mine)
    BY DEF VpnAnswer, VpnNoAnswer
  <2>2. vpn \in Vpn /\ vpn.asked \in Nat /\ vpn.older \in Nat /\ Asked(vpn) <= MaxAsked
    BY DEF FewAsked, Vpn
  <2>3. CASE mine
    <3>1. vpn.asked > 0 /\ vpn.asked - 1 \in Nat
      BY <2>1, <2>2, <2>3 DEF Arrives
    <3>2. a = [vpn EXCEPT !.asked = @ - 1]
      BY <2>3 DEF Answered
    <3>3. /\ a \in Vpn /\ a.asked = vpn.asked - 1 /\ a.older = vpn.older /\ a.n = vpn.n
          /\ a.timer = vpn.timer
      BY <2>2, <3>1, <3>2 DEF Vpn
    <3> QED
      BY <2>2, <3>1, <3>3, SessionAssumption DEF Asked
  <2>4. CASE ~mine
    <3>1. vpn.older > 0 /\ vpn.older - 1 \in Nat
      BY <2>1, <2>2, <2>4 DEF Arrives
    <3>2. a = [vpn EXCEPT !.older = @ - 1]
      BY <2>4 DEF Answered
    <3>3. /\ a \in Vpn /\ a.older = vpn.older - 1 /\ a.asked = vpn.asked /\ a.n = vpn.n
          /\ a.timer = vpn.timer
      BY <2>2, <3>1, <3>2 DEF Vpn
    <3> QED
      BY <2>2, <3>1, <3>3, SessionAssumption DEF Asked
  <2> QED
    BY <2>3, <2>4
<1> HIDE DEF a
<1>2. CASE VpnAnswer(up, mine)
  <2> DEFINE t == IF up THEN Show("connected")
                  ELSE IF vpn.n < VpnPolls THEN a.shown ELSE Show("disconnected")
             u == a.up \/ (up /\ mine /\ page = "vpn")
             g == ~up /\ vpn.n < VpnPolls
             v == [a EXCEPT !.timer = g, !.up = u, !.shown = t]
  <2>1. vpn' = Rest(v)
    BY <1>2 DEF VpnAnswer, Again, a
  <2>2. t \in {"none", "connecting", "connected", "disconnected"}
    BY <1>1 DEF Show, FewAsked, Vpn
  <2>3. u \in BOOLEAN /\ g \in BOOLEAN
    BY <1>1 DEF Vpn
  <2> HIDE DEF t, u
  <2>4. v \in Vpn /\ v.n = vpn.n /\ v.asked = a.asked /\ v.older = a.older /\ v.timer = g
    BY <1>1, <2>2, <2>3 DEF Vpn
  <2>5. FewAsked(v)
    BY <1>1, <2>4 DEF FewAsked, Asked
  <2> HIDE DEF v
  <2> QED
    BY <2>1, <2>5, RestFew
<1>3. CASE VpnNoAnswer(mine)
  <2> DEFINE g == a.gaveUp \/ (page = "vpn" /\ ~vpn.timer /\ Asked(vpn) = 1)
             v == [a EXCEPT !.gaveUp = g]
  <2>1. vpn' = Rest(v)
    BY <1>3 DEF VpnNoAnswer, a
  <2>2. g \in BOOLEAN
    BY <1>1 DEF Vpn
  <2> HIDE DEF g
  <2>3. /\ v \in Vpn /\ v.n = vpn.n /\ v.asked = a.asked /\ v.older = a.older
        /\ v.timer = vpn.timer
    BY <1>1, <2>2 DEF Vpn
  <2>4. FewAsked(v)
    BY <1>1, <2>3 DEF FewAsked, Asked
  <2> HIDE DEF v
  <2> QED
    BY <2>1, <2>4, RestFew
<1> QED
  BY <1>2, <1>3

LEMMA QuestionFew ==
  ASSUME FewAsked(vpn), getVPNStatu
  PROVE  FewAsked(vpn')
<1>1. /\ vpn \in Vpn /\ vpn.asked \in Nat /\ vpn.older \in Nat /\ vpn.n \in Nat
      /\ vpn.timer /\ vpn.n < VpnPolls /\ Asked(vpn) < MaxAsked
  BY DEF getVPNStatu, FewAsked, Vpn
<1> DEFINE n == vpn.n + 1
           k == vpn.asked + 1
<1>2. n \in Nat /\ k \in Nat /\ vpn' = [vpn EXCEPT !.timer = FALSE, !.n = n, !.asked = k]
  BY <1>1 DEF getVPNStatu
<1> HIDE DEF n, k
<1>a. /\ vpn' \in Vpn /\ ~vpn'.timer /\ vpn'.n = n /\ vpn'.asked = k
      /\ vpn'.older = vpn.older
  BY <1>1, <1>2 DEF Vpn
<1>3. /\ vpn' \in Vpn /\ ~vpn'.timer /\ vpn'.n = vpn.n + 1 /\ vpn'.asked = vpn.asked + 1
      /\ vpn'.older = vpn.older
  BY <1>a DEF n, k
<1>4. vpn'.n <= VpnPolls /\ Asked(vpn') <= MaxAsked
  BY <1>1, <1>3, SessionAssumption DEF Asked
<1> QED
  BY <1>3, <1>4 DEF FewAsked

LEMMA SavedFew ==
  ASSUME FewAsked(vpn), NEW valid, SaveVpn(valid)
  PROVE  FewAsked(vpn')
<1> DEFINE g == vpn.gaveUp \/ (vpn.timer /\ Asked(vpn) = 0)
           v == [vpn EXCEPT !.timer = FALSE, !.gaveUp = g]
<1>1. vpn' = Rest(v)
  BY DEF SaveVpn
<1>2. g \in BOOLEAN
  BY DEF FewAsked, Vpn
<1> HIDE DEF g
<1>3. /\ v \in Vpn /\ v.n = vpn.n /\ v.asked = vpn.asked /\ v.older = vpn.older /\ ~v.timer
  BY <1>2 DEF FewAsked, Vpn
<1>4. FewAsked(v)
  BY <1>3 DEF FewAsked, Asked
<1> HIDE DEF v
<1> QED
  BY <1>1, <1>4, RestFew

\* The poll after each step of the user and of the page.
LEMMA UserAsked ==
  ASSUME FewAsked(vpn), ByUser
  PROVE  FewAsked(vpn')
<1>1. ASSUME NEW p, NEW sms, NEW proto, NEW kept, Load(p, sms, proto, kept)
      PROVE  FewAsked(vpn')
  BY <1>1, LeftFew, InfoFew DEF Load
<1>2. CASE \/ (\E sms \in BOOLEAN : Login(sms) \/ createMenu(sms) \/ ExitQuickSetup(sms))
           \/ (\E p \in Pages :
                 displaySubForm(p) \/ \E proto \in Protocol(p) : displayForm(p, proto))
  BY <1>1, <1>2 DEF Login, createMenu, ExitQuickSetup, displaySubForm, displayForm
<1>3. ASSUME NEW sms, NEW proto, F5(sms, proto) PROVE FewAsked(vpn')
  BY <1>3, InfoFew DEF F5
<1>4. CASE QuickSetup
  BY <1>4, LeftFew DEF QuickSetup
<1>5. ASSUME NEW yes \in BOOLEAN, SaveVpn(yes) PROVE FewAsked(vpn')
  BY <1>5, SavedFew
<1>6. ASSUME NEW proto, SelectProtocol(proto) PROVE FewAsked(vpn')
  <2> DEFINE t == CASE proto = "none" -> "none"
                    [] proto = "saved" /\ vpn.up -> "connected"
                    [] OTHER -> "disconnected"
  <2>1. vpn' = [vpn EXCEPT !.shown = t]
    BY <1>6 DEF SelectProtocol
  <2>2. t \in {"none", "connecting", "connected", "disconnected"}
    OBVIOUS
  <2> HIDE DEF t
  <2> QED
    BY <2>1, <2>2, ShownFew
<1>7. CASE logOutYes
  BY <1>7, NoVpnFew DEF logOutYes, clearAuthheader
<1>8. CASE \/ CloseBox \/ logOut \/ SaveInternet \/ SaveQsInternetConnSet \/ SaveWifi
           \/ SaveQsWifiSet \/ SetBlockStatus \/ ShowDetail \/ ClearCommDataFails
           \/ UssdDialUp \/ ToggleCp \/ upgradeCP \/ UpdateCfgFile
           \/ (\E p \in Setup : showDiv(p)) \/ (\E w \in DOMAIN PageOf : Ask(w) \/ Confirm(w))
           \/ Confirm("qs wifi")
  BY <1>8 DEF CloseBox, logOut, SaveInternet, SaveQsInternetConnSet, SaveWifi, SaveQsWifiSet,
    SetBlockStatus, ShowDetail, ClearCommDataFails, UssdDialUp, ToggleCp, upgradeCP,
    UpdateCfgFile, showDiv, Ask, Confirm, Others
<1>9. CASE \/ (\E known \in checkVersionUpdate : autoUpgradeVersion(known))
           \/ (\E yes \in BOOLEAN :
                 \/ SaveQsAccountSet(yes) \/ SaveDhcp(yes) \/ ResetClients(yes)
                 \/ ClearAllPdpLog(yes) \/ \E second \in BOOLEAN : DeletePdpLog(yes, second))
           \/ (\E what \in {"no file", "sent", "refused"} : upgradeRouterSoftWare(what))
  BY <1>9 DEF autoUpgradeVersion, SaveQsAccountSet, SaveDhcp, ResetClients, ClearAllPdpLog,
    DeletePdpLog, upgradeRouterSoftWare, Others
<1> QED
  BY <1>2, <1>3, <1>4, <1>5, <1>6, <1>7, <1>8, <1>9 DEF ByUser

LEMMA BackgroundAsked ==
  ASSUME FewAsked(vpn), Background
  PROVE  FewAsked(vpn')
<1>1. CASE getVPNStatu
  BY <1>1, QuestionFew
<1>2. ASSUME NEW mine \in BOOLEAN, VpnNoAnswer(mine) \/ \E up \in BOOLEAN : VpnAnswer(up, mine)
      PROVE  FewAsked(vpn')
  BY <1>2, AnswerFew
<1>3. CASE SessionExpires \/ LogoutTimer
  BY <1>3, NoVpnFew DEF SessionExpires, LogoutTimer, clearAuthheader
<1>4. CASE MessageTimer \/ OrphanedTimer \/ CpAnswer \/ CpNoAnswer
  BY <1>4 DEF MessageTimer, OrphanedTimer, CpAnswer, CpNoAnswer
<1>5. CASE Operation
  <2>1. ASSUME NEW ok \in BOOLEAN, NEW proto, SetVpn(ok, proto) PROVE FewAsked(vpn')
    <3>1. vpn.shown \in {"none", "connecting", "connected", "disconnected"}
      BY DEF FewAsked, Vpn
    <3>2. /\ FewAsked(getVPNInfo(vpn, proto))
          /\ FewAsked([getVPNInfo(vpn, proto) EXCEPT !.shown = vpn.shown])
      BY <3>1, InfoFew, ShownFew
    <3> QED
      BY <2>1, <3>2 DEF SetVpn
  <2>2. ASSUME NEW sms, NEW proto, BlockTimer(sms, proto) PROVE FewAsked(vpn')
    BY <2>2, InfoFew DEF BlockTimer
  <2>3. CASE \/ PowerOff \/ SendUpgradeUrl \/ PostXmlAsyncForUpdate
             \/ (\E w \in {"reboot", "reset"} : Restart(w))
             \/ (\E ok \in BOOLEAN :
                   \/ SetDns(ok) \/ SetDhcp(ok) \/ BlockClients(ok) \/ RestoreStatus(ok)
                   \/ upgradeCPRouterSoftWare_1802(ok) \/ QueryUssdNetworkStatus(ok)
                   \/ CloseWifi(ok) \/ ModifyWifiConfig(ok) \/ UpgradeUrlAnswer(ok))
    BY <2>3 DEF PowerOff, SendUpgradeUrl, PostXmlAsyncForUpdate, Restart, SetDns, SetDhcp,
      BlockClients, RestoreStatus, upgradeCPRouterSoftWare_1802, QueryUssdNetworkStatus,
      CloseWifi, ModifyWifiConfig, UpgradeUrlAnswer, Others
  <2>4. ASSUME NEW changed, NEW bad, SetInternet(changed, bad) PROVE FewAsked(vpn')
    BY <2>4 DEF SetInternet, Others
  <2>5. ASSUME NEW what, SetQsWifi(what) PROVE FewAsked(vpn')
    BY <2>5 DEF SetQsWifi
  <2>6. ASSUME NEW answer, QueryAutoProgradeStatus(answer) PROVE FewAsked(vpn')
    BY <2>6 DEF QueryAutoProgradeStatus, Others
  <2>7. CASE Garbled
    BY <2>7 DEF Garbled, Others
  <2> QED
    BY <1>5, <2>1, <2>2, <2>3, <2>4, <2>5, <2>6, <2>7 DEF Operation
<1> QED
  BY <1>1, <1>2, <1>3, <1>4, <1>5 DEF Background

\* The operations under way, apart from the end of the session left behind.
Counted == work \ {"leftover"}
FewWork == IsFiniteSet(Counted) /\ Cardinality(Counted) <= MaxWork

LEMMA FewerWork ==
  ASSUME FewWork, Counted' \subseteq Counted
  PROVE  FewWork'
<1>1. /\ IsFiniteSet(Counted') /\ Cardinality(Counted') <= Cardinality(Counted)
      /\ Cardinality(Counted) \in Nat /\ Cardinality(Counted') \in Nat
  BY FS_Subset, FS_CardinalityType DEF FewWork
<1> QED
  BY <1>1, SessionAssumption DEF FewWork

LEMMA BeginFew ==
  ASSUME FewWork, NEW w, Begin(w)
  PROVE  FewWork'
<1>1. /\ IsFiniteSet(Counted) /\ Cardinality(Counted) <= MaxWork
      /\ Cardinality(work) < MaxWork /\ work' = work \cup {w} /\ IsFiniteSet(work)
  <2>1. IsFiniteSet({"leftover"}) /\ work \subseteq Counted \cup {"leftover"}
    BY FS_Singleton DEF Counted
  <2>2. IsFiniteSet(Counted \cup {"leftover"})
    BY <2>1, FS_Union DEF FewWork
  <2>3. IsFiniteSet(work)
    BY <2>1, <2>2, FS_Subset
  <2> QED
    BY <2>3 DEF FewWork, Begin
<1>2. Cardinality(work) \in Nat
  BY <1>1, FS_CardinalityType
<1>3. IsFiniteSet(work') /\ Cardinality(work') \in {Cardinality(work), Cardinality(work) + 1}
  BY <1>1, FS_AddElement
<1>4. Cardinality(work') \in Nat /\ Cardinality(work') <= MaxWork
  BY <1>1, <1>2, <1>3, SessionAssumption
<1>5. /\ IsFiniteSet(Counted') /\ Cardinality(Counted') <= Cardinality(work')
      /\ Cardinality(Counted') \in Nat
  <2>1. Counted' \subseteq work'
    BY DEF Counted
  <2> QED
    BY <1>3, <2>1, FS_Subset, FS_CardinalityType
<1> QED
  BY <1>4, <1>5, SessionAssumption DEF FewWork

LEMMA DoneFew ==
  ASSUME FewWork, NEW w, w # "leftover", NEW x, Done(w, {}) \/ Done(w, {x})
  PROVE  FewWork'
<1> DEFINE rest == Counted \ {w}
<1>1. /\ IsFiniteSet(Counted) /\ Cardinality(Counted) <= MaxWork /\ w \in Counted
      /\ Cardinality(Counted) \in Nat
  BY FS_CardinalityType DEF FewWork, Counted, Done
<1>2. IsFiniteSet(rest) /\ Cardinality(rest) = Cardinality(Counted) - 1
  BY <1>1, FS_RemoveElement
<1>3. CASE Counted' = rest
  BY <1>1, <1>2, <1>3, SessionAssumption DEF FewWork
<1>4. CASE Counted' = rest \cup {x}
  <2>1. /\ IsFiniteSet(rest \cup {x})
        /\ Cardinality(rest \cup {x}) \in {Cardinality(rest), Cardinality(rest) + 1}
    BY <1>2, FS_AddElement
  <2> QED
    BY <1>1, <1>2, <1>4, <2>1, SessionAssumption DEF FewWork
<1>5. Counted' = rest \/ Counted' = rest \cup {x}
  BY DEF Done, Counted
<1> QED
  BY <1>3, <1>4, <1>5

LEMMA NoWork == work' = {} => FewWork'
<1>1. IsFiniteSet({}) /\ Cardinality({}) = 0
  BY FS_EmptySet
<1>2. work' = {} => Counted' = {}
  BY DEF Counted
<1> QED
  BY <1>1, <1>2, SessionAssumption DEF FewWork

LEMMA SameWork == FewWork /\ UNCHANGED work => FewWork'
BY DEF FewWork, Counted

LEMMA UserWork ==
  ASSUME FewWork, ByUser
  PROVE  FewWork'
<1>1. CASE \/ CloseBox \/ logOut \/ QuickSetup \/ SaveQsWifiSet \/ ShowDetail
           \/ ClearCommDataFails \/ UssdDialUp \/ ToggleCp
           \/ (\E p \in Setup : showDiv(p)) \/ (\E w \in DOMAIN PageOf : Ask(w))
           \/ (\E proto \in {"none", "saved", "other"} : SelectProtocol(proto))
           \/ (\E sms \in NewSms(page), proto \in Protocol(page) : F5(sms, proto))
  BY <1>1, SameWork DEF CloseBox, logOut, QuickSetup, SaveQsWifiSet, ShowDetail,
    ClearCommDataFails, UssdDialUp, ToggleCp, showDiv, Ask, SelectProtocol, F5
<1>2. CASE \/ (\E sms \in BOOLEAN : Login(sms) \/ createMenu(sms) \/ ExitQuickSetup(sms))
           \/ (\E p \in Pages :
                 displaySubForm(p) \/ \E proto \in Protocol(p) : displayForm(p, proto))
  BY <1>2, SameWork DEF Login, createMenu, ExitQuickSetup, displaySubForm, displayForm, Load
<1>3. CASE \E yes \in BOOLEAN :
             \/ SaveQsAccountSet(yes) \/ SaveDhcp(yes) \/ ResetClients(yes)
             \/ ClearAllPdpLog(yes) \/ \E second \in BOOLEAN : DeletePdpLog(yes, second)
  BY <1>3, SameWork DEF SaveQsAccountSet, SaveDhcp, ResetClients, ClearAllPdpLog, DeletePdpLog
<1>4. CASE \/ SaveInternet \/ SaveQsInternetConnSet \/ SaveWifi \/ SetBlockStatus \/ upgradeCP
           \/ UpdateCfgFile \/ (\E w \in DOMAIN PageOf : Confirm(w)) \/ Confirm("qs wifi")
  BY <1>4, BeginFew DEF SaveInternet, SaveQsInternetConnSet, SaveWifi, SetBlockStatus,
    upgradeCP, UpdateCfgFile, Confirm
<1>5. ASSUME NEW yes, SaveVpn(yes) \/ autoUpgradeVersion(yes) \/ upgradeRouterSoftWare(yes)
      PROVE  FewWork'
  BY <1>5, BeginFew, SameWork DEF SaveVpn, autoUpgradeVersion, upgradeRouterSoftWare
<1>6. CASE logOutYes
  BY <1>6, NoWork DEF logOutYes, clearAuthheader
<1> QED
  BY <1>1, <1>2, <1>3, <1>4, <1>5, <1>6 DEF ByUser

LEMMA BackgroundWork ==
  ASSUME FewWork, Background
  PROVE  FewWork'
<1>1. CASE \/ MessageTimer \/ OrphanedTimer \/ getVPNStatu \/ CpAnswer \/ CpNoAnswer
           \/ \E mine \in BOOLEAN :
                VpnNoAnswer(mine) \/ \E up \in BOOLEAN : VpnAnswer(up, mine)
  BY <1>1, SameWork DEF MessageTimer, OrphanedTimer, getVPNStatu, CpAnswer, CpNoAnswer,
    VpnNoAnswer, VpnAnswer
<1>2. CASE SessionExpires \/ LogoutTimer
  BY <1>2, NoWork DEF SessionExpires, LogoutTimer, clearAuthheader
<1>3. CASE Operation
  <2>1. CASE PowerOff \/ SendUpgradeUrl \/ PostXmlAsyncForUpdate \/ \E w \in {"reboot", "reset"} : Restart(w)
    BY <2>1, DoneFew DEF PowerOff, SendUpgradeUrl, PostXmlAsyncForUpdate, Restart
  <2>2. ASSUME NEW ok \in BOOLEAN,
               \/ SetDns(ok) \/ SetDhcp(ok) \/ BlockClients(ok) \/ RestoreStatus(ok)
               \/ upgradeCPRouterSoftWare_1802(ok) \/ UpgradeUrlAnswer(ok)
        PROVE  FewWork'
    BY <2>2, DoneFew DEF SetDns, SetDhcp, BlockClients, RestoreStatus,
      upgradeCPRouterSoftWare_1802, UpgradeUrlAnswer
  <2>3. ASSUME NEW ok \in BOOLEAN, CloseWifi(ok) \/ ModifyWifiConfig(ok) PROVE FewWork'
    BY <2>3, DoneFew DEF CloseWifi, ModifyWifiConfig
  <2>4. ASSUME NEW ok, QueryUssdNetworkStatus(ok) PROVE FewWork'
    BY <2>4, SameWork DEF QueryUssdNetworkStatus
  <2>5. ASSUME NEW ok, NEW proto, SetVpn(ok, proto) PROVE FewWork'
    BY <2>5, DoneFew DEF SetVpn
  <2>6. ASSUME NEW sms, NEW proto, BlockTimer(sms, proto) PROVE FewWork'
    BY <2>6, DoneFew DEF BlockTimer
  <2>7. ASSUME NEW changed, NEW bad, SetInternet(changed, bad) PROVE FewWork'
    BY <2>7, DoneFew DEF SetInternet
  <2>8. ASSUME NEW what, SetQsWifi(what) PROVE FewWork'
    BY <2>8, DoneFew DEF SetQsWifi
  <2>9. ASSUME NEW answer, QueryAutoProgradeStatus(answer) PROVE FewWork'
    BY <2>9, DoneFew DEF QueryAutoProgradeStatus
  <2>10. CASE Garbled
    <3>1. Counted' \subseteq Counted
      BY <2>10 DEF Garbled, Done, Counted
    <3> QED
      BY <3>1, FewerWork
  <2> QED
    BY <1>3, <2>1, <2>2, <2>3, <2>4, <2>5, <2>6, <2>7, <2>8, <2>9, <2>10 DEF Operation
<1> QED
  BY <1>1, <1>2, <1>3 DEF Background

\* The polls for a USSD answer, the requests of the check box, the history.
Counts == ussd \in 0..NoPoll /\ cp \in 0..MaxCp /\ stray \in BOOLEAN

LEMMA Cleared == clearAuthheader => Counts'
<1>1. NoPoll \in 0..NoPoll /\ 0 \in 0..MaxCp
  BY SessionAssumption DEF NoPoll
<1>2. NoPoll' = NoPoll
  BY DEF NoPoll
<1> QED
  BY <1>1, <1>2 DEF clearAuthheader, Counts

LEMMA SameCounts ==
  ASSUME Counts, UNCHANGED <<ussd, cp>>, Kept
  PROVE  Counts'
<1>1. stray' \in BOOLEAN
  BY DEF Kept, Counts
<1>2. NoPoll' = NoPoll
  BY DEF NoPoll
<1> QED
  BY <1>1, <1>2 DEF Counts

LEMMA UserCounts ==
  ASSUME Counts, ByUser
  PROVE  Counts'
<1>1. CASE \/ CloseBox \/ logOut \/ QuickSetup \/ SaveQsWifiSet \/ ShowDetail
           \/ ClearCommDataFails \/ SaveInternet \/ SaveQsInternetConnSet \/ SaveWifi
           \/ SetBlockStatus \/ upgradeCP \/ UpdateCfgFile
           \/ (\E w \in DOMAIN PageOf : Ask(w) \/ Confirm(w)) \/ Confirm("qs wifi")
           \/ (\E p \in Setup : showDiv(p))
           \/ (\E proto \in {"none", "saved", "other"} : SelectProtocol(proto))
  BY <1>1, SameCounts DEF CloseBox, logOut, QuickSetup, SaveQsWifiSet, ShowDetail,
    ClearCommDataFails, SaveInternet, SaveQsInternetConnSet, SaveWifi, SetBlockStatus,
    upgradeCP, UpdateCfgFile, Ask, Confirm, showDiv, SelectProtocol, Others
<1>2. CASE \/ (\E sms \in BOOLEAN : Login(sms) \/ createMenu(sms) \/ ExitQuickSetup(sms))
           \/ (\E p \in Pages :
                 displaySubForm(p) \/ \E proto \in Protocol(p) : displayForm(p, proto))
  BY <1>2, SameCounts DEF Login, createMenu, ExitQuickSetup, displaySubForm, displayForm, Load
<1>3. CASE \E yes \in BOOLEAN :
             \/ SaveQsAccountSet(yes) \/ SaveDhcp(yes) \/ ResetClients(yes) \/ SaveVpn(yes)
             \/ ClearAllPdpLog(yes) \/ \E second \in BOOLEAN : DeletePdpLog(yes, second)
  BY <1>3, SameCounts DEF SaveQsAccountSet, SaveDhcp, ResetClients, SaveVpn, ClearAllPdpLog,
    DeletePdpLog
<1>4. ASSUME NEW what, autoUpgradeVersion(what) \/ upgradeRouterSoftWare(what) PROVE Counts'
  BY <1>4, SameCounts DEF autoUpgradeVersion, upgradeRouterSoftWare, Others
<1>5. ASSUME NEW sms, NEW proto, F5(sms, proto) PROVE Counts'
  <2>1. stray' \in BOOLEAN /\ UNCHANGED <<ussd, cp>>
    BY <1>5 DEF F5
  <2> QED
    BY <2>1 DEF Counts, NoPoll
<1>6. CASE UssdDialUp
  <2>1. ussd' = 0 /\ cp' = cp /\ stray' \in BOOLEAN
    BY <1>6 DEF UssdDialUp, Kept, Counts
  <2> QED
    BY <2>1, SessionAssumption DEF Counts, NoPoll
<1>7. CASE ToggleCp
  <2>1. ussd' = ussd /\ cp < MaxCp /\ cp' = cp + 1 /\ stray' \in BOOLEAN
    BY <1>7 DEF ToggleCp, Kept, Counts
  <2> QED
    BY <2>1, SessionAssumption DEF Counts, NoPoll
<1>8. CASE logOutYes
  BY <1>8, Cleared DEF logOutYes
<1> QED
  BY <1>1, <1>2, <1>3, <1>4, <1>5, <1>6, <1>7, <1>8 DEF ByUser

LEMMA BackgroundCounts ==
  ASSUME Counts, Background
  PROVE  Counts'
<1>1. CASE \/ MessageTimer \/ OrphanedTimer \/ getVPNStatu
           \/ \E mine \in BOOLEAN :
                VpnNoAnswer(mine) \/ \E up \in BOOLEAN : VpnAnswer(up, mine)
  BY <1>1, SameCounts DEF MessageTimer, OrphanedTimer, getVPNStatu, VpnNoAnswer, VpnAnswer
<1>2. CASE SessionExpires \/ LogoutTimer
  BY <1>2, Cleared DEF SessionExpires, LogoutTimer
<1>3. CASE CpAnswer \/ CpNoAnswer
  <2>1. ussd' = ussd /\ cp > 0 /\ cp' = cp - 1 /\ stray' \in BOOLEAN
    BY <1>3 DEF CpAnswer, CpNoAnswer, Kept, Counts
  <2> QED
    BY <2>1, SessionAssumption DEF Counts, NoPoll
<1>4. CASE Operation
  <2>1. ASSUME NEW ok, QueryUssdNetworkStatus(ok) PROVE Counts'
    <3>1. cp' = cp /\ stray' \in BOOLEAN
      BY <2>1 DEF QueryUssdNetworkStatus, Kept, Counts
    <3>2. ussd' = NoPoll \/ (ussd <= UssdPolls /\ ussd' = ussd + 1)
      BY <2>1 DEF QueryUssdNetworkStatus
    <3> QED
      BY <3>1, <3>2, SessionAssumption DEF Counts, NoPoll
  <2>2. CASE \/ PowerOff \/ SendUpgradeUrl \/ PostXmlAsyncForUpdate
             \/ (\E w \in {"reboot", "reset"} : Restart(w))
             \/ (\E ok \in BOOLEAN :
                   \/ SetDns(ok) \/ SetDhcp(ok) \/ BlockClients(ok) \/ RestoreStatus(ok)
                   \/ upgradeCPRouterSoftWare_1802(ok)
                   \/ CloseWifi(ok) \/ ModifyWifiConfig(ok) \/ UpgradeUrlAnswer(ok))
    BY <2>2, SameCounts DEF PowerOff, SendUpgradeUrl, PostXmlAsyncForUpdate, Restart, SetDns,
      SetDhcp, BlockClients, RestoreStatus, upgradeCPRouterSoftWare_1802, CloseWifi,
      ModifyWifiConfig, UpgradeUrlAnswer, Others
  <2>3. ASSUME NEW ok, NEW proto, SetVpn(ok, proto) PROVE Counts'
    BY <2>3, SameCounts DEF SetVpn
  <2>4. ASSUME NEW sms, NEW proto, BlockTimer(sms, proto) PROVE Counts'
    BY <2>4, SameCounts DEF BlockTimer
  <2>5. ASSUME NEW changed, NEW bad, SetInternet(changed, bad) PROVE Counts'
    BY <2>5, SameCounts DEF SetInternet, Others
  <2>6. ASSUME NEW what, SetQsWifi(what) PROVE Counts'
    BY <2>6, SameCounts DEF SetQsWifi
  <2>7. ASSUME NEW answer, QueryAutoProgradeStatus(answer) PROVE Counts'
    BY <2>7, SameCounts DEF QueryAutoProgradeStatus, Others
  <2>8. CASE Garbled
    BY <2>8, SameCounts DEF Garbled, Others
  <2> QED
    BY <1>4, <2>1, <2>2, <2>3, <2>4, <2>5, <2>6, <2>7, <2>8 DEF Operation
<1> QED
  BY <1>1, <1>2, <1>3, <1>4 DEF Background

Bounded == Few(dlg) /\ FewAsked(vpn) /\ FewWork /\ Counts

LEMMA InitBounded == Init => Bounded
<1>1. NoPoll \in 0..NoPoll /\ 0 \in 0..MaxCp
  BY SessionAssumption DEF NoPoll
<1>2. IsFiniteSet({}) /\ Cardinality({}) = 0 /\ 0 <= MaxWork
  BY FS_EmptySet, SessionAssumption
<1>3. Init => Counted = {}
  BY DEF Init, Counted
<1> QED
  BY <1>1, <1>2, <1>3, NoBoxFew, NoVpnFew DEF Init, Bounded, FewWork, Counts

LEMMA NextBounded == Bounded /\ [Next]_vars => Bounded'
<1> SUFFICES ASSUME Bounded, [Next]_vars PROVE Bounded'
  OBVIOUS
<1>0. Few(dlg) /\ FewAsked(vpn) /\ FewWork /\ Counts
  BY DEF Bounded
<1>1. CASE ByUser
  <2>1. Few(dlg') /\ FewAsked(vpn') /\ FewWork' /\ Counts'
    BY <1>0, <1>1, UserFew, UserAsked, UserWork, UserCounts
  <2> QED
    BY <2>1 DEF Bounded, Few, FewAsked, Asked, Box, Boxes, Queries, Vpn
<1>2. CASE Background
  <2>1. Few(dlg') /\ FewAsked(vpn') /\ FewWork' /\ Counts'
    BY <1>0, <1>2, BackgroundFew, BackgroundAsked, BackgroundWork, BackgroundCounts
  <2> QED
    BY <2>1 DEF Bounded, Few, FewAsked, Asked, Box, Boxes, Queries, Vpn
<1>3. CASE Refused
  <2>1. Few(dlg') /\ FewAsked(vpn')
    BY <1>3, NoBoxFew, NoVpnFew DEF Refused, clearAuthheader
  <2>2. FewWork' /\ Counts'
    BY <1>3, NoWork, Cleared DEF Refused, clearAuthheader
  <2> QED
    BY <2>1, <2>2 DEF Bounded, Few, FewAsked, Asked, Box, Boxes, Queries, Vpn
<1>4. CASE UNCHANGED vars
  BY <1>0, <1>4 DEF vars, Bounded, Few, FewAsked, Asked, FewWork, Counted, Counts, NoPoll, Box,
    Boxes, Queries, Vpn
<1> QED
  BY <1>1, <1>2, <1>3, <1>4 DEF Next

\* Every variable keeps its type and its bound.  A series of the VPN page's questions is
\* as long as its bound says, although answers of earlier openings and saves set the same
\* timer (vpn.js:78-96,135); and no message's timer gets out of reach in another way than
\* by the baseband's answer, the only step whose guard looks at MaxOrphans.
THEOREM TypeCorrect == Spec => []TypeOK
<1>1. Init => Bounded
  BY InitBounded
<1>2. Bounded /\ [Next]_vars => Bounded'
  BY NextBounded
<1>3. IInv /\ Bounded => TypeOK
  <2> SUFFICES ASSUME IInv, Bounded PROVE TypeOK
    OBVIOUS
  <2>1. page \in Pages \cup Setup \cup {"login"} /\ running \subseteq Refreshing
    BY DEF IInv, PageInv, RefreshFitsPage
  <2>2. /\ dlg.box \in Boxes /\ dlg.timeout \in {"off", "own", "other"}
        /\ dlg.orphans \in 0..MaxOrphans
    <3>1. dlg \in Box /\ dlg.orphans \in Nat /\ dlg.orphans <= MaxOrphans
      BY DEF Bounded, Few, Box
    <3> QED
      BY <3>1, SessionAssumption DEF Box
  <2>3. Cardinality(work) <= MaxWork + 1
    <3>1. /\ IsFiniteSet(Counted) /\ Cardinality(Counted) \in Nat
          /\ Cardinality(Counted) <= MaxWork
      BY FS_CardinalityType DEF Bounded, FewWork
    <3>2. /\ IsFiniteSet(Counted \cup {"leftover"})
          /\ Cardinality(Counted \cup {"leftover"}) \in
               {Cardinality(Counted), Cardinality(Counted) + 1}
      BY <3>1, FS_AddElement
    <3>3. work \subseteq Counted \cup {"leftover"}
      BY DEF Counted
    <3>4. /\ Cardinality(work) <= Cardinality(Counted \cup {"leftover"})
          /\ Cardinality(work) \in Nat
      BY <3>2, <3>3, FS_Subset, FS_CardinalityType
    <3> QED
      BY <3>1, <3>2, <3>4, SessionAssumption
  <2>4. /\ vpn.timer \in BOOLEAN /\ Asked(vpn) \in 0..MaxAsked /\ vpn.n \in 0..VpnPolls
        /\ vpn.shown \in {"none", "connecting", "connected", "disconnected"}
    <3>1. /\ vpn \in Vpn /\ vpn.asked \in Nat /\ vpn.older \in Nat /\ vpn.n \in Nat
          /\ Asked(vpn) <= MaxAsked /\ vpn.n <= VpnPolls
      BY DEF Bounded, FewAsked, Vpn
    <3>2. Asked(vpn) \in Nat
      BY <3>1 DEF Asked
    <3> QED
      BY <3>1, <3>2, SessionAssumption DEF Vpn
  <2> QED
    BY <2>1, <2>2, <2>3, <2>4 DEF TypeOK, Bounded, Counts, Boxes
<1> QED
  BY <1>1, <1>2, <1>3, SessionInductive, PTL DEF Spec
=============================================================================
