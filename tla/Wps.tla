-------------------------------- MODULE Wps --------------------------------
(***************************************************************************)
(* The WPS page (WPSSettings.js): a session is begun by push button or PIN,*)
(* the router is asked once a second for its result, and it can be         *)
(* cancelled.  Flags, counter and the two requests are globals; the timer  *)
(* belongs to one opening of the page, whose handlers go on after the user *)
(* has left it.  A step is one event of the browser's loop: a click, a     *)
(* timer, an answer.  Handlers look at the newest request, whichever was   *)
(* answered.                                                               *)
(***************************************************************************)
EXTENDS Naturals

CONSTANTS
  Polls,       \* 120: after this many a session has timed out
  MaxSessions, \* bound: sessions begun
  MaxOpen      \* bound: openings of the page in one life of the browser's page

ASSUME WpsAssumption == Polls \in Nat \ {0} /\ MaxSessions \in Nat /\ MaxOpen \in Nat \ {0}

VARIABLES
  isPushing, isRegistering, WpsCancelPush, registCanclePush,
  queryWpsResultCount,
  pushOrRegisterXhr, pushOrRegisterResultXhr,
  wpsTimer,            \* of each opening: is a poll due?
  late,                \* requests that newer ones have replaced, by kind and
                       \* opening: how many are still to be answered
  opened, shown,       \* openings so far; is the last one shown?
  connect, radios,     \* are the Connect button and the WPS switch enabled?
  cancelLink,          \* is "cancel session" shown?
  dlg,                 \* the message box
  cancels, switches,   \* timers set by the cancel link and by the WPS switch
  gWPSswitch,          \* the switch as each opening knows it
  wps_enable,          \* router: is WPS switched on?
  sessions             \* sessions begun

flags == <<isPushing, isRegistering, WpsCancelPush, registCanclePush>>
requests == <<pushOrRegisterXhr, pushOrRegisterResultXhr, late>>
inputs == <<connect, radios, cancelLink>>
place == <<opened, shown>>
switching == <<switches, gWPSswitch, wps_enable>>
vars == <<flags, queryWpsResultCount, requests, wpsTimer, place, inputs, dlg,
          cancels, switching, sessions>>

-----------------------------------------------------------------------------
Opening == 1..MaxOpen
Kinds == {"pbc", "pin", "result"}
Switch == {"0", "1"}
NoXhr == [state |-> "undefined"]
Failure == [pbc |-> "lt_wifi_wps_push_error", pin |-> "lt_wifi_wps_pin_error"]
Verdicts == {"lWpsMatchSuccess", "lWpsMatchTimeout", "lWpsMatchFailed"}
Messages ==
  Verdicts \cup {"lt_wifi_wps_push_error", "lt_wifi_wps_pin_error",
                 "lt_wifi_wps_cancel_error", "lt_wifi_wps_cancel_success"}
NoLate == [x \in Kinds \X Opening |-> 0]

Init ==
  /\ isPushing = FALSE /\ isRegistering = FALSE
  /\ WpsCancelPush = FALSE /\ registCanclePush = FALSE
  /\ queryWpsResultCount = 0
  /\ pushOrRegisterXhr = NoXhr /\ pushOrRegisterResultXhr = NoXhr /\ late = NoLate
  /\ wpsTimer = [o \in Opening |-> FALSE]
  /\ opened = 0 /\ shown = FALSE
  /\ connect = TRUE /\ radios = TRUE /\ cancelLink = FALSE
  /\ dlg = "none"
  /\ cancels = 0 /\ switches = {} /\ gWPSswitch = [o \in Opening |-> ""]
  /\ wps_enable \in Switch
  /\ sessions = 0

InSession == isPushing \/ isRegistering
Pending(xhr) == xhr.state = "pending"
Done(xhr, t) == [xhr EXCEPT !.state = "done", !.text = t]
Aborted(xhr) == [xhr EXCEPT !.state = "unsent", !.text = ""]
Xhr(k, o) == [kind |-> k, opening |-> o, state |-> "pending", text |-> ""]

\* jQuery sets the elements of the page that is shown, if they are there.
Elements(c, r, l) ==
  IF shown THEN connect' = c /\ radios' = r /\ cancelLink' = l ELSE UNCHANGED inputs

\* A new request takes the global; the answer to an older one is still to come.
LateWith(xhr) ==
  IF Pending(xhr) THEN [late EXCEPT ![<<xhr.kind, xhr.opening>>] = @ + 1] ELSE late

\* Mutant of QueryWpsStatusEx: a cancelled session is not noticed.
QueryThoughCancelled(c, o, older) ==
  /\ queryWpsResultCount' = c + 1
  /\ late' = IF Pending(pushOrRegisterResultXhr)
             THEN [older EXCEPT ![<<"result", pushOrRegisterResultXhr.opening>>] = @ + 1]
             ELSE older
  /\ pushOrRegisterResultXhr' = Xhr("result", o)

\* Mutant of QueryWpsStatusEx: polls are not counted.
QueryUncounted(c, o, older) ==
  /\ queryWpsResultCount' = c
  /\ IF WpsCancelPush
     THEN late' = older /\ UNCHANGED pushOrRegisterResultXhr
     ELSE /\ late' = IF Pending(pushOrRegisterResultXhr)
                     THEN [older EXCEPT ![<<"result", pushOrRegisterResultXhr.opening>>] = @ + 1]
                     ELSE older
          /\ pushOrRegisterResultXhr' = Xhr("result", o)

\* QueryWpsStatusEx, with the count c it starts from, in opening o.
QueryWpsStatusEx(c, o, older) ==
  IF WpsCancelPush
  THEN /\ queryWpsResultCount' = c
       /\ late' = older /\ UNCHANGED pushOrRegisterResultXhr
  ELSE /\ queryWpsResultCount' = c + 1
       /\ late' = IF Pending(pushOrRegisterResultXhr)
                  THEN [older EXCEPT ![<<"result", pushOrRegisterResultXhr.opening>>] = @ + 1]
                  ELSE older
       /\ pushOrRegisterResultXhr' = Xhr("result", o)

-----------------------------------------------------------------------------
(* The user.  A message box covers the page.                               *)

Free == shown /\ dlg = "none"

\* onLoad(true): a page loaded anew, then the switch is read; when that fails
\* the selector without a value throws, and the rest does not run.
Open ==
  /\ dlg = "none" /\ opened < MaxOpen
  /\ opened' = opened + 1 /\ shown' = TRUE
  /\ \/ /\ gWPSswitch' = [gWPSswitch EXCEPT ![opened + 1] = wps_enable]
        /\ connect' = (wps_enable = "1" /\ ~InSession)
        /\ radios' = ~InSession /\ cancelLink' = InSession
     \/ /\ connect' = TRUE /\ radios' = TRUE /\ cancelLink' = FALSE
        /\ UNCHANGED gWPSswitch
  /\ UNCHANGED <<flags, queryWpsResultCount, requests, wpsTimer, dlg, cancels, switches,
                 wps_enable, sessions>>

Leave ==
  /\ Free
  /\ shown' = FALSE /\ connect' = TRUE /\ radios' = TRUE /\ cancelLink' = FALSE
  /\ UNCHANGED <<flags, queryWpsResultCount, requests, wpsTimer, opened, dlg, cancels,
                 switching, sessions>>

\* The browser loads index.html again, as after a logout.
Reload ==
  /\ isPushing' = FALSE /\ isRegistering' = FALSE
  /\ WpsCancelPush' = FALSE /\ registCanclePush' = FALSE
  /\ queryWpsResultCount' = 0
  /\ pushOrRegisterXhr' = NoXhr /\ pushOrRegisterResultXhr' = NoXhr /\ late' = NoLate
  /\ wpsTimer' = [o \in Opening |-> FALSE]
  /\ opened' = 0 /\ shown' = FALSE
  /\ connect' = TRUE /\ radios' = TRUE /\ cancelLink' = FALSE
  /\ dlg' = "none"
  /\ cancels' = 0 /\ switches' = {} /\ gWPSswitch' = [o \in Opening |-> ""]
  /\ UNCHANGED <<wps_enable, sessions>>

Begin(k) ==
  /\ Free /\ connect /\ sessions < MaxSessions
  /\ sessions' = sessions + 1
  /\ WpsCancelPush' = FALSE
  /\ late' = LateWith(pushOrRegisterXhr)
  /\ pushOrRegisterXhr' = Xhr(k, opened)
  /\ connect' = FALSE /\ radios' = FALSE /\ cancelLink' = TRUE
  /\ UNCHANGED <<queryWpsResultCount, pushOrRegisterResultXhr, wpsTimer, place, dlg,
                 cancels, switching>>

pbcOperator ==
  /\ Begin("pbc")
  /\ isPushing' = TRUE
  /\ UNCHANGED <<isRegistering, registCanclePush>>

pinOperator ==
  /\ Begin("pin")
  /\ isRegistering' = TRUE /\ registCanclePush' = FALSE
  /\ UNCHANGED isPushing

\* A PIN that is not of 4 or 8 digits ends after the first assignment.
pinOperatorBadPin ==
  /\ Free /\ connect
  /\ WpsCancelPush' = FALSE
  /\ UNCHANGED <<isPushing, isRegistering, registCanclePush, queryWpsResultCount, requests,
                 wpsTimer, place, inputs, dlg, cancels, switching, sessions>>

SwitchClicked ==
  /\ Free /\ radios
  /\ \E val \in Switch :
       /\ val # gWPSswitch[opened]
       /\ [opening |-> opened, val |-> val] \notin switches
       /\ switches' = switches \cup {[opening |-> opened, val |-> val]}
  /\ dlg' = "PleaseWait"
  /\ UNCHANGED <<flags, queryWpsResultCount, requests, wpsTimer, place, inputs, cancels,
                 gWPSswitch, wps_enable, sessions>>

cancelSessionClicked ==
  /\ Free /\ cancelLink
  /\ dlg' = "PleaseWait" /\ cancels' = cancels + 1
  /\ UNCHANGED <<flags, queryWpsResultCount, requests, wpsTimer, place, inputs, switching,
                 sessions>>

Ok ==
  /\ dlg \in Messages
  /\ dlg' = "none"
  /\ UNCHANGED <<flags, queryWpsResultCount, requests, wpsTimer, place, inputs, cancels,
                 switching, sessions>>

-----------------------------------------------------------------------------
(* Timers.                                                                 *)

\* Mutant of SwitchTimer: a refusal leaves the box open.
SwitchRefusedSilently ==
  \E s \in switches :
    /\ switches' = switches \ {s}
    /\ \/ /\ dlg' = "none" /\ wps_enable' = s.val
          /\ gWPSswitch' = [gWPSswitch EXCEPT ![s.opening] = s.val]
          /\ Elements(s.val = "1", radios, cancelLink)
       \/ /\ wps_enable' \in {wps_enable, s.val}
          /\ UNCHANGED <<gWPSswitch, inputs, dlg>>
    /\ UNCHANGED <<flags, queryWpsResultCount, requests, wpsTimer, place, cancels, sessions>>

SwitchTimer ==
  \E s \in switches :
    /\ switches' = switches \ {s}
    /\ dlg' = "none"
    /\ \/ /\ wps_enable' = s.val
          /\ gWPSswitch' = [gWPSswitch EXCEPT ![s.opening] = s.val]
          /\ Elements(s.val = "1", radios, cancelLink)
       \/ /\ wps_enable' \in {wps_enable, s.val}
          /\ UNCHANGED <<gWPSswitch, inputs>>
    /\ UNCHANGED <<flags, queryWpsResultCount, requests, wpsTimer, place, cancels, sessions>>

\* abort() of a request under way runs its handler, with an empty answer.
AbortPush ==
  IF Pending(pushOrRegisterXhr) /\ ~(pushOrRegisterXhr.kind = "pin" /\ registCanclePush)
  THEN Failure[pushOrRegisterXhr.kind] ELSE dlg

\* Before the first poll there is no request to abort: the handler throws.
CancelTimerThrows ==
  /\ cancels > 0 /\ pushOrRegisterResultXhr = NoXhr
  /\ cancels' = cancels - 1
  /\ dlg' = AbortPush
  /\ pushOrRegisterXhr' = Aborted(pushOrRegisterXhr)
  /\ UNCHANGED <<flags, queryWpsResultCount, pushOrRegisterResultXhr, late, wpsTimer, place,
                 inputs, switching, sessions>>

CancelTimer ==
  /\ cancels > 0 /\ pushOrRegisterResultXhr # NoXhr
  /\ cancels' = cancels - 1
  /\ pushOrRegisterXhr' = Aborted(pushOrRegisterXhr)
  /\ pushOrRegisterResultXhr' = Aborted(pushOrRegisterResultXhr)
  /\ isPushing' = FALSE /\ isRegistering' = FALSE
  /\ WpsCancelPush' = TRUE /\ registCanclePush' = TRUE
  /\ \/ dlg' = "lt_wifi_wps_cancel_success" /\ Elements(TRUE, TRUE, FALSE)
     \/ /\ dlg' = "lt_wifi_wps_cancel_error"
        /\ IF Pending(pushOrRegisterResultXhr) THEN Elements(TRUE, TRUE, FALSE)
           ELSE UNCHANGED inputs
  /\ UNCHANGED <<queryWpsResultCount, late, wpsTimer, place, switching, sessions>>

PollTimer(o) ==
  /\ wpsTimer[o]
  /\ wpsTimer' = [wpsTimer EXCEPT ![o] = FALSE]
  /\ QueryWpsStatusEx(queryWpsResultCount, o, late)
  /\ UNCHANGED <<flags, pushOrRegisterXhr, place, inputs, dlg, cancels, switching, sessions>>

-----------------------------------------------------------------------------
(* Answers.                                                                *)

\* onreadystatechange of a push or registration made in opening o, with xhr
\* the request that the global names now.
PushHandler(k, o, xhr, older) ==
  /\ \/ /\ xhr.state # "done" \/ (k = "pin" /\ registCanclePush)
        /\ late' = older
        /\ UNCHANGED <<queryWpsResultCount, pushOrRegisterResultXhr, dlg>>
     \/ /\ xhr.state = "done" /\ ~(k = "pin" /\ registCanclePush)
        /\ xhr.kind = k /\ xhr.text = "OK"
        /\ dlg' = "none"
        /\ QueryWpsStatusEx(0, o, older)
     \/ /\ xhr.state = "done" /\ ~(k = "pin" /\ registCanclePush)
        /\ ~(xhr.kind = k /\ xhr.text = "OK")
        /\ dlg' = Failure[k]
        /\ late' = older
        /\ UNCHANGED <<queryWpsResultCount, pushOrRegisterResultXhr>>
  /\ UNCHANGED <<flags, wpsTimer, place, inputs, cancels, switching, sessions>>

PushAnswer ==
  /\ Pending(pushOrRegisterXhr)
  /\ \E t \in {"OK", ""} :
       pushOrRegisterXhr' = Done(pushOrRegisterXhr, t)
  /\ PushHandler(pushOrRegisterXhr.kind, pushOrRegisterXhr.opening, pushOrRegisterXhr', late)

LatePushAnswer ==
  \E k \in {"pbc", "pin"}, o \in Opening :
    /\ late[<<k, o>>] > 0
    /\ PushHandler(k, o, pushOrRegisterXhr, [late EXCEPT ![<<k, o>>] = @ - 1])
    /\ UNCHANGED pushOrRegisterXhr

\* Mutant of EndSession: the flag of a registration is left set.
EndPushOnly(message) ==
  /\ isPushing' = FALSE /\ UNCHANGED isRegistering
  /\ Elements(TRUE, TRUE, FALSE)
  /\ dlg' = message
  /\ UNCHANGED wpsTimer

EndSession(message) ==
  /\ isPushing' = FALSE /\ isRegistering' = FALSE
  /\ Elements(TRUE, TRUE, FALSE)
  /\ dlg' = message
  /\ UNCHANGED wpsTimer

\* Mutant of Waits: the bound is passed before it is noticed.
WaitsOnceMore(xhr) == xhr.text = "WAIT" /\ queryWpsResultCount <= Polls + 1

\* Is there to be another poll?
Waits(xhr) == xhr.text = "WAIT" /\ queryWpsResultCount <= Polls

\* onreadystatechange of a poll made in opening o.
ResultHandler(o, xhr) ==
  /\ \/ /\ xhr.state # "done"
        /\ UNCHANGED <<isPushing, isRegistering, inputs, dlg, wpsTimer>>
     \/ xhr.state = "done" /\ xhr.text = "OK" /\ EndSession("lWpsMatchSuccess")
     \/ /\ xhr.state = "done" /\ Waits(xhr)
        /\ wpsTimer' = [wpsTimer EXCEPT ![o] = TRUE]
        /\ UNCHANGED <<isPushing, isRegistering, inputs, dlg>>
     \/ /\ xhr.state = "done" /\ xhr.text # "OK" /\ ~Waits(xhr)
        /\ EndSession(IF queryWpsResultCount > Polls THEN "lWpsMatchTimeout"
                      ELSE "lWpsMatchFailed")
  /\ UNCHANGED <<WpsCancelPush, registCanclePush, queryWpsResultCount, pushOrRegisterXhr,
                 place, cancels, switching, sessions>>

ResultAnswer ==
  /\ Pending(pushOrRegisterResultXhr)
  /\ \E t \in {"OK", "WAIT", ""} :
       pushOrRegisterResultXhr' = Done(pushOrRegisterResultXhr, t)
  /\ ResultHandler(pushOrRegisterResultXhr.opening, pushOrRegisterResultXhr')
  /\ UNCHANGED late

LateResultAnswer ==
  \E o \in Opening :
    /\ late[<<"result", o>>] > 0
    /\ late' = [late EXCEPT ![<<"result", o>>] = @ - 1]
    /\ ResultHandler(o, pushOrRegisterResultXhr)
    /\ UNCHANGED pushOrRegisterResultXhr

-----------------------------------------------------------------------------
Next ==
  \/ Open \/ Leave \/ Reload
  \/ pbcOperator \/ pinOperator \/ pinOperatorBadPin
  \/ SwitchClicked \/ cancelSessionClicked \/ Ok
  \/ SwitchTimer \/ CancelTimer \/ CancelTimerThrows
  \/ \E o \in Opening : PollTimer(o)
  \/ PushAnswer \/ LatePushAnswer \/ ResultAnswer \/ LateResultAnswer

\* Timers fire, and the browser ends every request, with an answer or without.
Spec ==
  /\ Init /\ [][Next]_vars
  /\ WF_vars(PushAnswer) /\ WF_vars(LatePushAnswer)
  /\ WF_vars(ResultAnswer) /\ WF_vars(LateResultAnswer)
  /\ WF_vars(SwitchTimer) /\ WF_vars(CancelTimer) /\ WF_vars(CancelTimerThrows)
  /\ \A o \in Opening : WF_vars(PollTimer(o))
-----------------------------------------------------------------------------
(* Properties.                                                             *)

XhrType(kinds) ==
  [kind : kinds, opening : Opening, state : {"pending", "done", "unsent"},
   text : {"OK", "WAIT", ""}] \cup {NoXhr}

\* Every variable has its type.
TypeOK ==
  /\ {isPushing, isRegistering, WpsCancelPush, registCanclePush, shown} \subseteq BOOLEAN
  /\ {connect, radios, cancelLink} \subseteq BOOLEAN
  /\ queryWpsResultCount \in Nat
  /\ pushOrRegisterXhr \in XhrType({"pbc", "pin"})
  /\ pushOrRegisterResultXhr \in XhrType({"result"})
  /\ wpsTimer \in [Opening -> BOOLEAN]
  /\ late \in [Kinds \X Opening -> Nat]
  /\ opened \in 0..MaxOpen
  /\ dlg \in Messages \cup {"none", "PleaseWait"}
  /\ cancels \in Nat /\ switches \subseteq [opening : Opening, val : Switch]
  /\ gWPSswitch \in [Opening -> Switch \cup {""}] /\ wps_enable \in Switch
  /\ sessions \in 0..MaxSessions

Polling ==
  \/ Pending(pushOrRegisterResultXhr)
  \/ \E o \in Opening : wpsTimer[o]
Asking == Pending(pushOrRegisterXhr)

\* A page that says "pushing" or "registering" has a request under way or a
\* poll due, unless the router refused the last request, whose handler (lines
\* 115-126, 155-169) shows an error and ends nothing, or a cancel threw.
WaitsForSomething ==
  InSession => \/ Asking \/ Polling
               \/ pushOrRegisterXhr.state = "unsent"
               \/ pushOrRegisterXhr.text # "OK"

\* The box that asks to wait is closed by a timer (lines 51-70, 288-308), except
\* that of a cancel before the first poll since the browser loaded the pages.
WaitBoxCloses ==
  dlg = "PleaseWait" =>
    cancels > 0 \/ switches # {} \/ pushOrRegisterResultXhr = NoXhr

\* From a cancel to the next click on Connect no poll is sent and no verdict is
\* shown, whatever timers and answers are still to come.
CancelledIsQuiet ==
  [][WpsCancelPush /\ WpsCancelPush' =>
       /\ ~Pending(pushOrRegisterResultXhr')
       /\ dlg' \in Verdicts => dlg' = dlg]_vars

\* The count is compared with the bound when an answer comes, not when a timer fires: of
\* the timers that openings of the page have left, each may send one poll beyond the
\* bound, and none more, although pushes and answers of all of them share the count.
PollsBounded == queryWpsResultCount <= Polls + MaxOpen

\* No page polls for ever: the bound, which several sessions may share, ends it.
PollingEnds == <>[]~Polling
=============================================================================
