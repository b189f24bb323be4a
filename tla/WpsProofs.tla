----------------------------- MODULE WpsProofs -----------------------------
(***************************************************************************)
(* That a session of the WPS page never waits for nothing, that its wait   *)
(* box is closed, and that a cancelled session is silent, for any number   *)
(* of sessions, openings of the page and polls.                            *)
(***************************************************************************)
EXTENDS Wps, FiniteSetTheorems, TLAPS

PushXhr == XhrType({"pbc", "pin"})
ResultXhr == XhrType({"result"})

\* What the arguments need of the types.
Types ==
  /\ isPushing \in BOOLEAN /\ isRegistering \in BOOLEAN
  /\ WpsCancelPush \in BOOLEAN /\ registCanclePush \in BOOLEAN
  /\ pushOrRegisterXhr \in PushXhr
  /\ pushOrRegisterResultXhr \in ResultXhr
  /\ wpsTimer \in [Opening -> BOOLEAN]
  /\ opened \in 0..MaxOpen /\ (shown => opened \in Opening)
  /\ cancels \in Nat

\* After a cancel no session goes on and no request is open.
CancelInv ==
  WpsCancelPush => /\ ~InSession
                   /\ pushOrRegisterXhr.state # "pending"
                   /\ pushOrRegisterResultXhr.state = "unsent"

\* A session has made a request, and the answer to a registration under way
\* will not be taken for that of a cancelled one.
RequestInv ==
  /\ InSession => pushOrRegisterXhr # NoXhr
  /\ cancels > 0 => pushOrRegisterXhr # NoXhr
  /\ cancelLink => pushOrRegisterXhr # NoXhr
  /\ Asking /\ pushOrRegisterXhr.kind = "pin" => ~registCanclePush

\* A poll that is due follows one that was sent.
TimerInv == \A o \in Opening : wpsTimer[o] => pushOrRegisterResultXhr # NoXhr

IInv ==
  /\ Types /\ CancelInv /\ RequestInv /\ TimerInv
  /\ WaitsForSomething /\ WaitBoxCloses
-----------------------------------------------------------------------------
LEMMA Undefined == NoXhr.state = "undefined" /\ NoXhr \in PushXhr /\ NoXhr \in ResultXhr
BY DEF NoXhr, PushXhr, ResultXhr, XhrType

LEMMA Fields ==
  ASSUME NEW K, NEW x \in XhrType(K), x # NoXhr
  PROVE  /\ x.state \in {"pending", "done", "unsent"}
         /\ x.kind \in K /\ x.opening \in Opening /\ x.text \in {"OK", "WAIT", ""}
         /\ x \in [kind : K, opening : Opening, state : {"pending", "done", "unsent"},
                   text : {"OK", "WAIT", ""}]
BY DEF XhrType

LEMMA Sent ==
  ASSUME NEW K, NEW k \in K, NEW o \in Opening
  PROVE  /\ Xhr(k, o) \in XhrType(K) /\ Xhr(k, o) # NoXhr
         /\ Xhr(k, o).state = "pending" /\ Xhr(k, o).kind = k
<1>1. Xhr(k, o) \in XhrType(K) /\ Xhr(k, o).state = "pending" /\ Xhr(k, o).kind = k
  BY DEF Xhr, XhrType
<1> QED
  BY <1>1, Undefined

LEMMA Answered ==
  ASSUME NEW K, NEW x \in XhrType(K), x # NoXhr, NEW t \in {"OK", "WAIT", ""}
  PROVE  /\ Done(x, t) \in XhrType(K) /\ Done(x, t) # NoXhr
         /\ Done(x, t).state = "done" /\ Done(x, t).text = t /\ Done(x, t).kind = x.kind
<1>1. /\ Done(x, t) \in XhrType(K)
      /\ Done(x, t).state = "done" /\ Done(x, t).text = t /\ Done(x, t).kind = x.kind
  BY Fields DEF Done, XhrType
<1> QED
  BY <1>1, Undefined

LEMMA Cut ==
  ASSUME NEW K, NEW x \in XhrType(K), x # NoXhr
  PROVE  /\ Aborted(x) \in XhrType(K) /\ Aborted(x) # NoXhr
         /\ Aborted(x).state = "unsent" /\ Aborted(x).kind = x.kind
<1>1. /\ Aborted(x) \in XhrType(K)
      /\ Aborted(x).state = "unsent" /\ Aborted(x).kind = x.kind
  BY Fields DEF Aborted, XhrType
<1> QED
  BY <1>1, Undefined

-----------------------------------------------------------------------------
\* What the handlers do, as far as the invariant is concerned.

LEMMA QueryStep ==
  ASSUME Types, NEW c, NEW o \in Opening, NEW older, QueryWpsStatusEx(c, o, older)
  PROVE  /\ pushOrRegisterResultXhr' \in ResultXhr
         /\ \/ WpsCancelPush /\ UNCHANGED pushOrRegisterResultXhr
            \/ /\ ~WpsCancelPush
               /\ pushOrRegisterResultXhr' # NoXhr
               /\ pushOrRegisterResultXhr'.state = "pending"
<1>1. CASE WpsCancelPush
  BY <1>1 DEF QueryWpsStatusEx, Types
<1>2. CASE ~WpsCancelPush
  <2>1. pushOrRegisterResultXhr' = Xhr("result", o)
    BY <1>2 DEF QueryWpsStatusEx
  <2> QED
    BY <1>2, <2>1, Sent DEF ResultXhr
<1> QED
  BY <1>1, <1>2

LEMMA PushStep ==
  ASSUME Types, NEW k \in {"pbc", "pin"}, NEW o \in Opening, NEW xhr, NEW older,
         PushHandler(k, o, xhr, older)
  PROVE  /\ UNCHANGED <<isPushing, isRegistering, WpsCancelPush, registCanclePush, wpsTimer,
                        opened, shown, cancelLink, cancels, switches>>
         /\ pushOrRegisterResultXhr' \in ResultXhr
         /\ \/ /\ xhr.state # "done" \/ (k = "pin" /\ registCanclePush)
               /\ UNCHANGED <<pushOrRegisterResultXhr, dlg>>
            \/ /\ dlg' = "none"
               /\ \/ WpsCancelPush /\ UNCHANGED pushOrRegisterResultXhr
                  \/ /\ ~WpsCancelPush
                     /\ pushOrRegisterResultXhr' # NoXhr
                     /\ pushOrRegisterResultXhr'.state = "pending"
            \/ /\ ~(xhr.kind = k /\ xhr.text = "OK")
               /\ dlg' # "PleaseWait" /\ dlg' \notin Verdicts
               /\ UNCHANGED pushOrRegisterResultXhr
<1>1. UNCHANGED <<isPushing, isRegistering, WpsCancelPush, registCanclePush, wpsTimer,
                  opened, shown, cancelLink, cancels, switches>>
  BY DEF PushHandler, flags, place, inputs, switching
<1>2. CASE /\ xhr.state # "done" \/ (k = "pin" /\ registCanclePush)
           /\ UNCHANGED <<pushOrRegisterResultXhr, dlg>>
  BY <1>1, <1>2 DEF Types
<1>3. CASE dlg' = "none" /\ QueryWpsStatusEx(0, o, older)
  BY <1>1, <1>3, QueryStep
<1>4. CASE /\ ~(xhr.kind = k /\ xhr.text = "OK") /\ dlg' = Failure[k]
           /\ UNCHANGED pushOrRegisterResultXhr
  <2>1. dlg' # "PleaseWait" /\ dlg' \notin Verdicts
    BY <1>4 DEF Failure, Verdicts
  <2> QED
    BY <1>1, <1>4, <2>1 DEF Types
<1> QED
  BY <1>2, <1>3, <1>4 DEF PushHandler

LEMMA ResultStep ==
  ASSUME Types, NEW o \in Opening, NEW xhr, ResultHandler(o, xhr)
  PROVE  /\ UNCHANGED <<WpsCancelPush, registCanclePush, pushOrRegisterXhr, opened, shown,
                        cancels, switches>>
         /\ isPushing' \in BOOLEAN /\ isRegistering' \in BOOLEAN
         /\ InSession' => InSession
         /\ cancelLink' => cancelLink
         /\ wpsTimer' \in [Opening -> BOOLEAN]
         /\ \/ /\ xhr.state # "done"
               /\ UNCHANGED <<isPushing, isRegistering, dlg, wpsTimer>>
            \/ /\ xhr.state = "done" /\ wpsTimer' = [wpsTimer EXCEPT ![o] = TRUE]
               /\ UNCHANGED <<isPushing, isRegistering, dlg>>
            \/ /\ xhr.state = "done" /\ ~InSession' /\ dlg' # "PleaseWait"
               /\ UNCHANGED wpsTimer
<1>1. UNCHANGED <<WpsCancelPush, registCanclePush, pushOrRegisterXhr, opened, shown,
                  cancels, switches>>
  BY DEF ResultHandler, place, switching
<1>2. CASE /\ xhr.state # "done"
           /\ UNCHANGED <<isPushing, isRegistering, inputs, dlg, wpsTimer>>
  BY <1>1, <1>2 DEF Types, InSession, inputs
<1>3. CASE /\ xhr.state = "done" /\ wpsTimer' = [wpsTimer EXCEPT ![o] = TRUE]
           /\ UNCHANGED <<isPushing, isRegistering, inputs, dlg>>
  BY <1>1, <1>3 DEF Types, InSession, inputs
<1>4. ASSUME xhr.state = "done", NEW message \in Verdicts, EndSession(message)
      PROVE  /\ xhr.state = "done" /\ ~InSession' /\ dlg' # "PleaseWait"
             /\ isPushing' \in BOOLEAN /\ isRegistering' \in BOOLEAN
             /\ cancelLink' => cancelLink
             /\ UNCHANGED wpsTimer
  BY <1>4 DEF EndSession, Elements, InSession, inputs, Verdicts
<1> QED
  BY <1>1, <1>2, <1>3, <1>4 DEF ResultHandler, Verdicts, Types
-----------------------------------------------------------------------------
\* The invariant holds initially and is preserved.

LEMMA InitIInv == Init => IInv
<1> SUFFICES ASSUME Init PROVE IInv
  OBVIOUS
<1>a. opened = 0 /\ cancels = 0 /\ ~shown /\ wpsTimer \in [Opening -> BOOLEAN]
  BY DEF Init
<1>b. opened \in 0..MaxOpen /\ cancels \in Nat /\ ~(cancels > 0)
  BY <1>a, WpsAssumption
<1>1. Types
  BY <1>a, <1>b, Undefined DEF Init, Types
<1>2. CancelInv /\ TimerInv /\ WaitsForSomething /\ WaitBoxCloses
  BY DEF Init, CancelInv, TimerInv, WaitsForSomething, WaitBoxCloses, InSession
<1>3. ~Asking /\ ~InSession /\ ~cancelLink
  BY Undefined DEF Init, InSession, Asking, Pending
<1>4. RequestInv
  BY <1>b, <1>3 DEF RequestInv
<1> QED
  BY <1>1, <1>2, <1>4 DEF IInv

LEMMA NextIInv == IInv /\ [Next]_vars => IInv'
<1> SUFFICES ASSUME IInv, [Next]_vars PROVE IInv'
  OBVIOUS
<1>0. Types /\ CancelInv /\ RequestInv /\ TimerInv /\ WaitsForSomething /\ WaitBoxCloses
  BY DEF IInv
<1>1. CASE Open
  <2>1. Types'
    BY WpsAssumption, <1>0, <1>1 DEF Types, Open, flags, requests, place, inputs,
      switching, Opening
  <2>2. CancelInv'
    BY <1>0, <1>1 DEF CancelInv, InSession, Open, flags, requests, place, inputs, switching
  <2>3. RequestInv'
    BY <1>0, <1>1 DEF Types, RequestInv, CancelInv, InSession, Asking, Pending, Open,
      flags, requests, place, inputs, switching
  <2>4. TimerInv'
    BY <1>0, <1>1 DEF TimerInv, Open, flags, requests, place, inputs, switching
  <2>5. WaitsForSomething'
    BY <1>0, <1>1 DEF WaitsForSomething, InSession, Asking, Pending, Polling, Open,
      flags, requests, place, inputs, switching
  <2>6. WaitBoxCloses'
    BY <1>0, <1>1 DEF WaitBoxCloses, Types, Open, flags, requests, place, inputs, switching
  <2> QED
    BY <2>1, <2>2, <2>3, <2>4, <2>5, <2>6 DEF IInv
<1>2. CASE Leave
  <2>1. Types'
    BY <1>0, <1>2 DEF Types, Leave, Free, flags, requests, place, inputs, switching
  <2>2. CancelInv'
    BY <1>0, <1>2 DEF CancelInv, InSession, Leave, Free, flags, requests, place,
      inputs, switching
  <2>3. RequestInv'
    BY <1>0, <1>2 DEF Types, RequestInv, CancelInv, InSession, Asking, Pending, Leave,
      Free, flags, requests, place, inputs, switching
  <2>4. TimerInv'
    BY <1>0, <1>2 DEF TimerInv, Leave, Free, flags, requests, place, inputs, switching
  <2>5. WaitsForSomething'
    BY <1>0, <1>2 DEF WaitsForSomething, InSession, Asking, Pending, Polling, Leave,
      Free, flags, requests, place, inputs, switching
  <2>6. WaitBoxCloses'
    BY <1>0, <1>2 DEF WaitBoxCloses, Types, Leave, Free, flags, requests, place,
      inputs, switching
  <2> QED
    BY <2>1, <2>2, <2>3, <2>4, <2>5, <2>6 DEF IInv
<1>3. CASE pinOperatorBadPin
  <2>1. Types'
    BY <1>0, <1>3 DEF Types, pinOperatorBadPin, flags, requests, place, inputs, switching
  <2>2. CancelInv'
    BY <1>0, <1>3 DEF CancelInv, InSession, pinOperatorBadPin, flags, requests, place,
      inputs, switching
  <2>3. RequestInv'
    BY <1>0, <1>3 DEF Types, RequestInv, CancelInv, InSession, Asking, Pending,
      pinOperatorBadPin, flags, requests, place, inputs, switching
  <2>4. TimerInv'
    BY <1>0, <1>3 DEF TimerInv, pinOperatorBadPin, flags, requests, place, inputs, switching
  <2>5. WaitsForSomething'
    BY <1>0, <1>3 DEF WaitsForSomething, InSession, Asking, Pending, Polling,
      pinOperatorBadPin, flags, requests, place, inputs, switching
  <2>6. WaitBoxCloses'
    BY <1>0, <1>3 DEF WaitBoxCloses, Types, pinOperatorBadPin, flags, requests, place,
      inputs, switching
  <2> QED
    BY <2>1, <2>2, <2>3, <2>4, <2>5, <2>6 DEF IInv
<1>4. CASE SwitchClicked
  <2>1. Types'
    BY <1>0, <1>4 DEF Types, SwitchClicked, Free, flags, requests, place, inputs, switching
  <2>2. CancelInv'
    BY <1>0, <1>4 DEF CancelInv, InSession, SwitchClicked, Free, flags, requests,
      place, inputs, switching
  <2>3. RequestInv'
    BY <1>0, <1>4 DEF Types, RequestInv, CancelInv, InSession, Asking, Pending,
      SwitchClicked, Free, flags, requests, place, inputs, switching
  <2>4. TimerInv'
    BY <1>0, <1>4 DEF TimerInv, SwitchClicked, Free, flags, requests, place, inputs,
      switching
  <2>5. WaitsForSomething'
    BY <1>0, <1>4 DEF WaitsForSomething, InSession, Asking, Pending, Polling,
      SwitchClicked, Free, flags, requests, place, inputs, switching
  <2>6. WaitBoxCloses'
    BY <1>0, <1>4 DEF WaitBoxCloses, Types, SwitchClicked, Free, flags, requests,
      place, inputs, switching
  <2> QED
    BY <2>1, <2>2, <2>3, <2>4, <2>5, <2>6 DEF IInv
<1>5. CASE cancelSessionClicked
  <2>1. Types'
    BY <1>0, <1>5 DEF Types, cancelSessionClicked, Free, flags, requests, place,
      inputs, switching
  <2>2. CancelInv'
    BY <1>0, <1>5 DEF CancelInv, InSession, cancelSessionClicked, Free, flags,
      requests, place, inputs, switching
  <2>3. RequestInv'
    BY <1>0, <1>5 DEF Types, RequestInv, CancelInv, InSession, Asking, Pending,
      cancelSessionClicked, Free, flags, requests, place, inputs, switching
  <2>4. TimerInv'
    BY <1>0, <1>5 DEF TimerInv, cancelSessionClicked, Free, flags, requests, place,
      inputs, switching
  <2>5. WaitsForSomething'
    BY <1>0, <1>5 DEF WaitsForSomething, InSession, Asking, Pending, Polling,
      cancelSessionClicked, Free, flags, requests, place, inputs, switching
  <2>6. WaitBoxCloses'
    BY <1>0, <1>5 DEF WaitBoxCloses, Types, cancelSessionClicked, Free, flags,
      requests, place, inputs, switching
  <2> QED
    BY <2>1, <2>2, <2>3, <2>4, <2>5, <2>6 DEF IInv
<1>6. CASE Ok
  <2>1. Types'
    BY <1>0, <1>6 DEF Types, Ok, Messages, Verdicts, flags, requests, place, inputs,
      switching
  <2>2. CancelInv'
    BY <1>0, <1>6 DEF CancelInv, InSession, Ok, Messages, Verdicts, flags, requests,
      place, inputs, switching
  <2>3. RequestInv'
    BY <1>0, <1>6 DEF Types, RequestInv, CancelInv, InSession, Asking, Pending, Ok,
      Messages, Verdicts, flags, requests, place, inputs, switching
  <2>4. TimerInv'
    BY <1>0, <1>6 DEF TimerInv, Ok, Messages, Verdicts, flags, requests, place,
      inputs, switching
  <2>5. WaitsForSomething'
    BY <1>0, <1>6 DEF WaitsForSomething, InSession, Asking, Pending, Polling, Ok,
      Messages, Verdicts, flags, requests, place, inputs, switching
  <2>6. WaitBoxCloses'
    BY <1>0, <1>6 DEF WaitBoxCloses, Types, Ok, Messages, Verdicts, flags, requests,
      place, inputs, switching
  <2> QED
    BY <2>1, <2>2, <2>3, <2>4, <2>5, <2>6 DEF IInv
<1>7. CASE SwitchTimer
  <2>1. Types'
    BY <1>0, <1>7 DEF Types, SwitchTimer, Elements, flags, requests, place, inputs,
      switching
  <2>2. CancelInv'
    BY <1>0, <1>7 DEF CancelInv, InSession, SwitchTimer, Elements, flags, requests,
      place, inputs, switching
  <2>3. RequestInv'
    BY <1>0, <1>7 DEF Types, RequestInv, CancelInv, InSession, Asking, Pending,
      SwitchTimer, Elements, flags, requests, place, inputs, switching
  <2>4. TimerInv'
    BY <1>0, <1>7 DEF TimerInv, SwitchTimer, Elements, flags, requests, place, inputs,
      switching
  <2>5. WaitsForSomething'
    BY <1>0, <1>7 DEF WaitsForSomething, InSession, Asking, Pending, Polling,
      SwitchTimer, Elements, flags, requests, place, inputs, switching
  <2>6. WaitBoxCloses'
    BY <1>0, <1>7 DEF WaitBoxCloses, Types, SwitchTimer, Elements, flags, requests,
      place, inputs, switching
  <2> QED
    BY <2>1, <2>2, <2>3, <2>4, <2>5, <2>6 DEF IInv
<1>8. CASE UNCHANGED vars
  <2>1. Types'
    BY <1>0, <1>8 DEF Types, vars, flags, requests, place, inputs, switching
  <2>2. CancelInv'
    BY <1>0, <1>8 DEF CancelInv, InSession, vars, flags, requests, place, inputs, switching
  <2>3. RequestInv'
    BY <1>0, <1>8 DEF Types, RequestInv, CancelInv, InSession, Asking, Pending, vars,
      flags, requests, place, inputs, switching
  <2>4. TimerInv'
    BY <1>0, <1>8 DEF TimerInv, vars, flags, requests, place, inputs, switching
  <2>5. WaitsForSomething'
    BY <1>0, <1>8 DEF WaitsForSomething, InSession, Asking, Pending, Polling, vars,
      flags, requests, place, inputs, switching
  <2>6. WaitBoxCloses'
    BY <1>0, <1>8 DEF WaitBoxCloses, Types, vars, flags, requests, place, inputs, switching
  <2> QED
    BY <2>1, <2>2, <2>3, <2>4, <2>5, <2>6 DEF IInv
<1>9. CASE Reload
  <2>a. opened' = 0 /\ cancels' = 0 /\ ~shown' /\ wpsTimer' \in [Opening -> BOOLEAN]
    BY <1>9 DEF Reload
  <2>b. opened' \in 0..MaxOpen /\ cancels' \in Nat /\ ~(cancels' > 0)
    BY <2>a, WpsAssumption
  <2>0. ~Asking' /\ ~InSession' /\ ~cancelLink'
    BY <1>9, Undefined DEF Reload, InSession, Asking, Pending
  <2>1. Types'
    BY <1>9, <2>a, <2>b, Undefined DEF Types, Reload
  <2>2. CancelInv' /\ TimerInv' /\ WaitsForSomething' /\ WaitBoxCloses'
    BY <1>9 DEF Reload, CancelInv, TimerInv, WaitsForSomething, WaitBoxCloses, InSession
  <2>3. RequestInv'
    BY <2>0, <2>b DEF RequestInv
  <2> QED
    BY <2>1, <2>2, <2>3 DEF IInv
<1>10. CASE pbcOperator
  <2>0. /\ pushOrRegisterXhr' \in PushXhr /\ pushOrRegisterXhr' # NoXhr
        /\ pushOrRegisterXhr'.state = "pending" /\ pushOrRegisterXhr'.kind = "pbc"
    BY <1>0, <1>10, Sent DEF Types, pbcOperator, Begin, Free, PushXhr
  <2>1. Types'
    BY <1>0, <1>10, <2>0 DEF Types, pbcOperator, Begin, Free, flags, requests, place,
      inputs, switching
  <2>2. CancelInv'
    BY <1>10 DEF CancelInv, pbcOperator, Begin, Free, flags, requests, place, inputs,
      switching
  <2>3. RequestInv'
    BY <1>10, <2>0 DEF RequestInv, pbcOperator, Begin, Free, flags, requests, place,
      inputs, switching
  <2>4. TimerInv'
    BY <1>0, <1>10 DEF TimerInv, pbcOperator, Begin, Free, flags, requests, place,
      inputs, switching
  <2>5. WaitsForSomething'
    BY <2>0 DEF WaitsForSomething, Asking, Pending
  <2>6. WaitBoxCloses'
    BY <1>0, <1>10 DEF WaitBoxCloses, pbcOperator, Begin, Free, flags, requests,
      place, inputs, switching
  <2> QED
    BY <2>1, <2>2, <2>3, <2>4, <2>5, <2>6 DEF IInv
<1>11. CASE pinOperator
  <2>0. /\ pushOrRegisterXhr' \in PushXhr /\ pushOrRegisterXhr' # NoXhr
        /\ pushOrRegisterXhr'.state = "pending" /\ pushOrRegisterXhr'.kind = "pin"
    BY <1>0, <1>11, Sent DEF Types, pinOperator, Begin, Free, PushXhr
  <2>1. Types'
    BY <1>0, <1>11, <2>0 DEF Types, pinOperator, Begin, Free, flags, requests, place,
      inputs, switching
  <2>2. CancelInv'
    BY <1>11 DEF CancelInv, pinOperator, Begin, Free, flags, requests, place, inputs,
      switching
  <2>3. RequestInv'
    BY <1>11, <2>0 DEF RequestInv, pinOperator, Begin, Free, flags, requests, place,
      inputs, switching
  <2>4. TimerInv'
    BY <1>0, <1>11 DEF TimerInv, pinOperator, Begin, Free, flags, requests, place,
      inputs, switching
  <2>5. WaitsForSomething'
    BY <2>0 DEF WaitsForSomething, Asking, Pending
  <2>6. WaitBoxCloses'
    BY <1>0, <1>11 DEF WaitBoxCloses, pinOperator, Begin, Free, flags, requests,
      place, inputs, switching
  <2> QED
    BY <2>1, <2>2, <2>3, <2>4, <2>5, <2>6 DEF IInv
<1>12. CASE CancelTimer
  <2>0. /\ pushOrRegisterXhr' \in PushXhr /\ pushOrRegisterXhr' # NoXhr
        /\ pushOrRegisterXhr'.state = "unsent"
        /\ pushOrRegisterResultXhr' \in ResultXhr /\ pushOrRegisterResultXhr' # NoXhr
        /\ pushOrRegisterResultXhr'.state = "unsent"
    BY <1>0, <1>12, Cut DEF Types, RequestInv, CancelTimer, PushXhr, ResultXhr
  <2>a. cancels' \in Nat
    BY <1>0, <1>12 DEF Types, CancelTimer
  <2>1. Types'
    BY <1>0, <1>12, <2>0, <2>a DEF Types, CancelTimer, place
  <2>2. CancelInv'
    BY <1>12, <2>0 DEF CancelInv, CancelTimer, InSession
  <2>3. RequestInv'
    BY <1>12, <2>0 DEF RequestInv, CancelTimer, Asking, Pending
  <2>4. TimerInv'
    BY <1>0, <1>12, <2>0 DEF TimerInv, CancelTimer
  <2>5. WaitsForSomething'
    BY <1>12 DEF WaitsForSomething, CancelTimer, InSession
  <2>6. WaitBoxCloses'
    BY <1>12 DEF WaitBoxCloses, CancelTimer
  <2> QED
    BY <2>1, <2>2, <2>3, <2>4, <2>5, <2>6 DEF IInv
<1>13. CASE CancelTimerThrows
  <2>0. /\ pushOrRegisterXhr' \in PushXhr /\ pushOrRegisterXhr' # NoXhr
        /\ pushOrRegisterXhr'.state = "unsent"
    BY <1>0, <1>13, Cut DEF Types, RequestInv, CancelTimerThrows, PushXhr
  <2>1. Types'
    BY <1>0, <1>13, <2>0 DEF Types, CancelTimerThrows, flags, place
  <2>2. CancelInv'
    BY <1>0, <1>13, <2>0 DEF CancelInv, CancelTimerThrows, InSession, flags
  <2>3. RequestInv'
    BY <1>13, <2>0 DEF RequestInv, CancelTimerThrows, Asking, Pending
  <2>4. TimerInv'
    BY <1>0, <1>13 DEF TimerInv, CancelTimerThrows
  <2>5. WaitsForSomething'
    BY <2>0 DEF WaitsForSomething
  <2>6. WaitBoxCloses'
    BY <1>13 DEF WaitBoxCloses, CancelTimerThrows
  <2> QED
    BY <2>1, <2>2, <2>3, <2>4, <2>5, <2>6 DEF IInv
<1>14. ASSUME NEW o \in Opening, PollTimer(o) PROVE IInv'
  <2>0. /\ pushOrRegisterResultXhr' \in ResultXhr
        /\ \/ WpsCancelPush /\ UNCHANGED pushOrRegisterResultXhr
           \/ /\ ~WpsCancelPush /\ pushOrRegisterResultXhr' # NoXhr
              /\ pushOrRegisterResultXhr'.state = "pending"
        /\ UNCHANGED <<flags, pushOrRegisterXhr, place, inputs, dlg, cancels, switching>>
        /\ wpsTimer' = [wpsTimer EXCEPT ![o] = FALSE] /\ wpsTimer[o]
    BY <1>0, <1>14, QueryStep DEF PollTimer
  <2>1. Types'
    BY <1>0, <2>0 DEF Types, flags, place
  <2>2. CancelInv'
    BY <1>0, <2>0 DEF CancelInv, InSession, flags
  <2>3. RequestInv'
    BY <1>0, <2>0 DEF RequestInv, InSession, Asking, Pending, flags, inputs
  <2>4. TimerInv'
    BY <1>0, <2>0 DEF TimerInv, Types
  <2>5. WaitsForSomething'
    BY <1>0, <2>0 DEF CancelInv, flags, WaitsForSomething, InSession, Asking, Pending,
      Polling
  <2>6. WaitBoxCloses'
    BY <1>0, <2>0 DEF WaitBoxCloses, TimerInv, switching
  <2> QED
    BY <2>1, <2>2, <2>3, <2>4, <2>5, <2>6 DEF IInv
<1>15. CASE PushAnswer
  <2> DEFINE k == pushOrRegisterXhr.kind
             o == pushOrRegisterXhr.opening
  <2>a. pushOrRegisterXhr # NoXhr /\ Asking /\ ~WpsCancelPush
    BY <1>0, <1>15, Undefined DEF PushAnswer, CancelInv, Asking, Pending
  <2>b. k \in {"pbc", "pin"} /\ o \in Opening
    BY <1>0, <2>a, Fields DEF Types, PushXhr
  <2>c. /\ pushOrRegisterXhr' \in PushXhr /\ pushOrRegisterXhr' # NoXhr
        /\ pushOrRegisterXhr'.state = "done" /\ pushOrRegisterXhr'.kind = k
    <3>1. PICK t \in {"OK", "WAIT", ""} : pushOrRegisterXhr' = Done(pushOrRegisterXhr, t)
      BY <1>15 DEF PushAnswer
    <3>2. pushOrRegisterXhr \in XhrType({"pbc", "pin"})
      BY <1>0 DEF Types, PushXhr
    <3>3. ASSUME NEW K, pushOrRegisterXhr \in XhrType(K)
          PROVE  /\ Done(pushOrRegisterXhr, t) \in XhrType(K)
                 /\ Done(pushOrRegisterXhr, t) # NoXhr
                 /\ Done(pushOrRegisterXhr, t).state = "done"
                 /\ Done(pushOrRegisterXhr, t).kind = pushOrRegisterXhr.kind
      BY <2>a, <3>3, Answered
    <3> QED
      BY <3>1, <3>2, <3>3 DEF PushXhr, k
  <2>d. PushHandler(k, o, pushOrRegisterXhr', late)
    BY <1>15 DEF PushAnswer
  <2> HIDE DEF k, o
  <2>e. /\ UNCHANGED <<isPushing, isRegistering, WpsCancelPush, registCanclePush, wpsTimer,
                       opened, shown, cancelLink, cancels, switches>>
        /\ pushOrRegisterResultXhr' \in ResultXhr
        /\ \/ k = "pin" /\ registCanclePush
           \/ /\ dlg' = "none"
              /\ pushOrRegisterResultXhr' # NoXhr
              /\ pushOrRegisterResultXhr'.state = "pending"
           \/ /\ pushOrRegisterXhr'.text # "OK" /\ dlg' # "PleaseWait"
              /\ UNCHANGED pushOrRegisterResultXhr
    BY <1>0, <2>a, <2>b, <2>c, <2>d, PushStep
  <2>f. ~(k = "pin" /\ registCanclePush)
    BY <1>0, <2>a DEF RequestInv, k
  <2>1. Types'
    BY <1>0, <2>c, <2>e DEF Types
  <2>2. CancelInv'
    BY <2>a, <2>e DEF CancelInv
  <2>3. RequestInv'
    BY <2>c DEF RequestInv, Asking, Pending
  <2>4. TimerInv'
    BY <1>0, <2>e, <2>f DEF TimerInv
  <2>5. WaitsForSomething'
    BY <1>0, <2>a, <2>c, <2>e, <2>f DEF WaitsForSomething, InSession, Asking, Pending,
      Polling
  <2>6. WaitBoxCloses'
    BY <2>e, <2>f DEF WaitBoxCloses
  <2> QED
    BY <2>1, <2>2, <2>3, <2>4, <2>5, <2>6 DEF IInv
<1>16. CASE LatePushAnswer
  <2>e. /\ UNCHANGED <<isPushing, isRegistering, WpsCancelPush, registCanclePush, wpsTimer,
                       opened, shown, cancelLink, cancels, switches, pushOrRegisterXhr>>
        /\ pushOrRegisterResultXhr' \in ResultXhr
        /\ \/ UNCHANGED <<pushOrRegisterResultXhr, dlg>>
           \/ /\ dlg' = "none"
              /\ \/ WpsCancelPush /\ UNCHANGED pushOrRegisterResultXhr
                 \/ /\ ~WpsCancelPush
                    /\ pushOrRegisterResultXhr' # NoXhr
                    /\ pushOrRegisterResultXhr'.state = "pending"
           \/ dlg' # "PleaseWait" /\ UNCHANGED pushOrRegisterResultXhr
    BY <1>0, <1>16, PushStep DEF LatePushAnswer
  <2>1. Types'
    BY <1>0, <2>e DEF Types
  <2>2. CancelInv'
    BY <1>0, <2>e DEF CancelInv, InSession
  <2>3. RequestInv'
    BY <1>0, <2>e DEF RequestInv, InSession, Asking, Pending
  <2>4. TimerInv'
    BY <1>0, <2>e DEF TimerInv
  <2>5. WaitsForSomething'
    BY <1>0, <2>e DEF WaitsForSomething, InSession, Asking, Pending, Polling
  <2>6. WaitBoxCloses'
    BY <1>0, <2>e DEF WaitBoxCloses
  <2> QED
    BY <2>1, <2>2, <2>3, <2>4, <2>5, <2>6 DEF IInv
<1>17. CASE ResultAnswer
  <2> DEFINE o == pushOrRegisterResultXhr.opening
  <2>a. pushOrRegisterResultXhr # NoXhr /\ ~WpsCancelPush
    BY <1>0, <1>17, Undefined DEF ResultAnswer, CancelInv, Pending
  <2>b. o \in Opening
    BY <1>0, <2>a, Fields DEF Types, ResultXhr
  <2>c. /\ pushOrRegisterResultXhr' \in ResultXhr /\ pushOrRegisterResultXhr' # NoXhr
        /\ pushOrRegisterResultXhr'.state = "done"
    <3>1. PICK t \in {"OK", "WAIT", ""} :
            pushOrRegisterResultXhr' = Done(pushOrRegisterResultXhr, t)
      BY <1>17 DEF ResultAnswer
    <3>2. pushOrRegisterResultXhr \in XhrType({"result"})
      BY <1>0 DEF Types, ResultXhr
    <3>3. /\ Done(pushOrRegisterResultXhr, t) \in XhrType({"result"})
          /\ Done(pushOrRegisterResultXhr, t) # NoXhr
          /\ Done(pushOrRegisterResultXhr, t).state = "done"
      BY <2>a, <3>2, Answered
    <3> QED
      BY <3>1, <3>3 DEF ResultXhr
  <2>d. ResultHandler(o, pushOrRegisterResultXhr')
    BY <1>17 DEF ResultAnswer
  <2> HIDE DEF o
  <2>e. /\ UNCHANGED <<WpsCancelPush, registCanclePush, pushOrRegisterXhr, opened, shown,
                       cancels, switches>>
        /\ isPushing' \in BOOLEAN /\ isRegistering' \in BOOLEAN
        /\ (InSession' => InSession) /\ (cancelLink' => cancelLink)
        /\ wpsTimer' \in [Opening -> BOOLEAN]
        /\ \/ wpsTimer' = [wpsTimer EXCEPT ![o] = TRUE] /\ UNCHANGED dlg
           \/ ~InSession' /\ dlg' # "PleaseWait"
    BY <1>0, <2>b, <2>c, <2>d, ResultStep
  <2>1. Types'
    BY <1>0, <2>c, <2>e DEF Types
  <2>2. CancelInv'
    BY <2>a, <2>e DEF CancelInv
  <2>3. RequestInv'
    BY <1>0, <2>e DEF RequestInv, Asking, Pending
  <2>4. TimerInv'
    BY <2>c DEF TimerInv
  <2>5. WaitsForSomething'
    BY <1>0, <2>b, <2>e DEF Types, WaitsForSomething, Polling
  <2>6. WaitBoxCloses'
    BY <1>0, <2>a, <2>e DEF WaitBoxCloses
  <2> QED
    BY <2>1, <2>2, <2>3, <2>4, <2>5, <2>6 DEF IInv
<1>18. CASE LateResultAnswer
  <2>p. PICK o \in Opening : /\ ResultHandler(o, pushOrRegisterResultXhr)
                             /\ UNCHANGED pushOrRegisterResultXhr
    BY <1>18 DEF LateResultAnswer
  <2>e. /\ UNCHANGED <<WpsCancelPush, registCanclePush, pushOrRegisterXhr, opened, shown,
                       cancels, switches, pushOrRegisterResultXhr>>
        /\ isPushing' \in BOOLEAN /\ isRegistering' \in BOOLEAN
        /\ (InSession' => InSession) /\ (cancelLink' => cancelLink)
        /\ wpsTimer' \in [Opening -> BOOLEAN]
        /\ \/ UNCHANGED <<dlg, wpsTimer>>
           \/ /\ pushOrRegisterResultXhr # NoXhr
              /\ wpsTimer' = [wpsTimer EXCEPT ![o] = TRUE] /\ UNCHANGED dlg
           \/ ~InSession' /\ dlg' # "PleaseWait" /\ UNCHANGED wpsTimer
    BY <1>0, <2>p, ResultStep, Undefined
  <2>1. Types'
    BY <1>0, <2>e DEF Types
  <2>2. CancelInv'
    BY <1>0, <2>e DEF CancelInv
  <2>3. RequestInv'
    BY <1>0, <2>e DEF RequestInv, Asking, Pending
  <2>4. TimerInv'
    BY <1>0, <2>e DEF TimerInv, Types
  <2>5. WaitsForSomething'
    BY <1>0, <2>e DEF Types, WaitsForSomething, Asking, Pending, Polling
  <2>6. WaitBoxCloses'
    BY <1>0, <2>e DEF WaitBoxCloses
  <2> QED
    BY <2>1, <2>2, <2>3, <2>4, <2>5, <2>6 DEF IInv
<1> QED
  BY <1>1, <1>2, <1>3, <1>4, <1>5, <1>6, <1>7, <1>8, <1>9, <1>10, <1>11, <1>12, <1>13,
    <1>14, <1>15, <1>16, <1>17, <1>18 DEF Next

LEMMA Invariance == Spec => []IInv
<1>1. Init => IInv
  BY InitIInv
<1>2. IInv /\ [Next]_vars => IInv'
  BY NextIInv
<1> QED
  BY <1>1, <1>2, PTL DEF Spec

-----------------------------------------------------------------------------
(* The theorems.                                                           *)

\* A session that the page shows waits for an answer or a poll, unless its
\* request was refused or cut (the handlers of WPSSettings.js, lines 115-218).
THEOREM SessionsWaitForSomething == Spec => []WaitsForSomething
<1>1. IInv => WaitsForSomething
  BY DEF IInv
<1> QED
  BY <1>1, Invariance, PTL

\* The wait box has a timer that will close it, once a poll has been sent
\* (lines 51-67 and 287-309).
THEOREM WaitBoxIsClosed == Spec => []WaitBoxCloses
<1>1. IInv => WaitBoxCloses
  BY DEF IInv
<1> QED
  BY <1>1, Invariance, PTL

\* A step that finds the session cancelled and leaves it so sends no poll and
\* shows no verdict (lines 178-180 and 288-293).
LEMMA QuietStep ==
  ASSUME IInv, [Next]_vars, WpsCancelPush, WpsCancelPush'
  PROVE  ~Pending(pushOrRegisterResultXhr') /\ (dlg' \in Verdicts => dlg' = dlg)
<1>0. Types /\ CancelInv /\ IInv'
  BY NextIInv DEF IInv
<1>1. ~Pending(pushOrRegisterResultXhr')
  BY <1>0 DEF IInv, CancelInv, Pending
<1>2. pushOrRegisterResultXhr.state = "unsent" /\ pushOrRegisterXhr.state # "pending"
  BY <1>0 DEF CancelInv
<1>3. dlg' \in Verdicts => dlg' = dlg
  <2>1. CASE \/ Open \/ Leave \/ Reload \/ pbcOperator \/ pinOperator \/ pinOperatorBadPin
             \/ SwitchClicked \/ cancelSessionClicked \/ Ok \/ SwitchTimer \/ CancelTimer
             \/ (\E o \in Opening : PollTimer(o)) \/ UNCHANGED vars
    BY <2>1 DEF Open, Leave, Reload, pbcOperator, pinOperator, Begin, pinOperatorBadPin,
      SwitchClicked, cancelSessionClicked, Ok, SwitchTimer, CancelTimer, PollTimer, Verdicts, vars
  <2>2. CASE CancelTimerThrows
    BY <1>2, <2>2, Undefined DEF CancelTimerThrows
  <2>3. CASE PushAnswer
    BY <1>2, <2>3 DEF PushAnswer, Pending
  <2>4. CASE LatePushAnswer
    BY <1>0, <2>4, PushStep DEF LatePushAnswer, Verdicts
  <2>5. CASE ResultAnswer
    BY <1>2, <2>5 DEF ResultAnswer, Pending
  <2>6. CASE LateResultAnswer
    BY <1>0, <1>2, <2>6, ResultStep DEF LateResultAnswer
  <2> QED
    BY <2>1, <2>2, <2>3, <2>4, <2>5, <2>6 DEF Next
<1> QED
  BY <1>1, <1>3

\* Polls, answers and timers left of a cancelled session ask and report nothing more
\* (lines 178-180 and 288-293).
THEOREM CancelledSessionsAreQuiet == Spec => CancelledIsQuiet
<1>1. IInv /\ [Next]_vars =>
        [WpsCancelPush /\ WpsCancelPush' =>
           /\ ~Pending(pushOrRegisterResultXhr')
           /\ dlg' \in Verdicts => dlg' = dlg]_vars
  BY QuietStep
<1> QED
  BY <1>1, Invariance, PTL DEF Spec, CancelledIsQuiet
-----------------------------------------------------------------------------
(* Types.                                                                  *)

Late == [Kinds \X Opening -> Nat]
Switching == [opening : Opening, val : Switch]
Inputs == connect \in BOOLEAN /\ radios \in BOOLEAN /\ cancelLink \in BOOLEAN

\* What Types leaves out.
OtherTypes ==
  /\ Inputs /\ queryWpsResultCount \in Nat /\ late \in Late
  /\ dlg \in Messages \cup {"none", "PleaseWait"}
  /\ switches \subseteq Switching
  /\ gWPSswitch \in [Opening -> Switch \cup {""}] /\ wps_enable \in Switch
  /\ sessions \in 0..MaxSessions /\ shown \in BOOLEAN

LEMMA LateTyped ==
  ASSUME NEW f \in Late, NEW x \in XhrType(Kinds)
  PROVE  IF Pending(x) THEN [f EXCEPT ![<<x.kind, x.opening>>] = @ + 1] \in Late
         ELSE TRUE
<1> SUFFICES ASSUME Pending(x) PROVE [f EXCEPT ![<<x.kind, x.opening>>] = @ + 1] \in Late
  OBVIOUS
<1>1. x # NoXhr
  BY Undefined DEF Pending
<1>2. x.kind \in Kinds /\ x.opening \in Opening
  BY <1>1, Fields
<1> DEFINE i == <<x.kind, x.opening>>
<1>3. i \in Kinds \X Opening
  BY <1>2
<1> HIDE DEF i
<1> QED
  BY <1>3 DEF Late, i

LEMMA Answering ==
  ASSUME NEW f \in Late, NEW k \in Kinds, NEW o \in Opening, f[<<k, o>>] > 0
  PROVE  [f EXCEPT ![<<k, o>>] = @ - 1] \in Late
<1>1. <<k, o>> \in Kinds \X Opening
  OBVIOUS
<1>2. f[<<k, o>>] \in Nat
  BY <1>1 DEF Late
<1>3. f[<<k, o>>] - 1 \in Nat
  BY <1>2
<1> QED
  BY <1>1, <1>3 DEF Late

LEMMA NoneLate == NoLate \in Late
BY DEF NoLate, Late

LEMMA ElementsTyped ==
  ASSUME Inputs, NEW c \in BOOLEAN, NEW r \in BOOLEAN, NEW l \in BOOLEAN, Elements(c, r, l)
  PROVE  Inputs'
BY DEF Inputs, Elements, inputs

LEMMA QueryTyped ==
  ASSUME Types, NEW c \in Nat, NEW o \in Opening, NEW older \in Late,
         QueryWpsStatusEx(c, o, older)
  PROVE  queryWpsResultCount' \in Nat /\ late' \in Late
<1>1. pushOrRegisterResultXhr \in XhrType(Kinds)
  BY DEF Types, ResultXhr, XhrType, Kinds
<1>2. CASE WpsCancelPush
  BY <1>2 DEF QueryWpsStatusEx
<1>3. CASE ~WpsCancelPush /\ ~Pending(pushOrRegisterResultXhr)
  BY <1>3 DEF QueryWpsStatusEx
<1>4. CASE ~WpsCancelPush /\ Pending(pushOrRegisterResultXhr)
  <2>1. pushOrRegisterResultXhr.kind = "result"
    <3>1. pushOrRegisterResultXhr \in XhrType({"result"}) /\ pushOrRegisterResultXhr # NoXhr
      BY <1>4, Undefined DEF Types, ResultXhr, Pending
    <3>2. pushOrRegisterResultXhr.kind \in {"result"}
      BY <3>1, Fields
    <3> QED
      BY <3>2
  <2> QED
    BY <1>1, <1>4, <2>1, LateTyped DEF QueryWpsStatusEx
<1> QED
  BY <1>2, <1>3, <1>4

LEMMA PushTyped ==
  ASSUME Types, OtherTypes, NEW k \in {"pbc", "pin"}, NEW o \in Opening, NEW xhr,
         NEW older \in Late, PushHandler(k, o, xhr, older)
  PROVE  OtherTypes'
<1>1. UNCHANGED <<connect, radios, cancelLink, switches, gWPSswitch, wps_enable, sessions, shown>>
  BY DEF PushHandler, inputs, switching, place
<1>2. /\ queryWpsResultCount' \in Nat /\ late' \in Late
      /\ dlg' \in Messages \cup {"none", "PleaseWait"}
  <2>1. CASE late' = older /\ UNCHANGED <<queryWpsResultCount, pushOrRegisterResultXhr, dlg>>
    BY <2>1 DEF OtherTypes
  <2>2. CASE dlg' = "none" /\ QueryWpsStatusEx(0, o, older)
    <3>1. 0 \in Nat
      OBVIOUS
    <3>2. queryWpsResultCount' \in Nat /\ late' \in Late
      BY <2>2, <3>1, QueryTyped
    <3> QED
      BY <2>2, <3>2
  <2>3. CASE dlg' = Failure[k] /\ late' = older /\ UNCHANGED queryWpsResultCount
    <3>1. Failure[k] \in Messages
      BY DEF Failure, Messages
    <3> QED
      BY <2>3, <3>1 DEF OtherTypes
  <2> QED
    BY <2>1, <2>2, <2>3 DEF PushHandler
<1> QED
  BY <1>1, <1>2 DEF OtherTypes, Inputs

LEMMA ResultTyped ==
  ASSUME OtherTypes, NEW o \in Opening, NEW xhr, ResultHandler(o, xhr), late' \in Late
  PROVE  OtherTypes'
<1>1. UNCHANGED <<queryWpsResultCount, switches, gWPSswitch, wps_enable, sessions, shown>>
  BY DEF ResultHandler, switching, place
<1>2. Inputs' /\ dlg' \in Messages \cup {"none", "PleaseWait"}
  <2>1. CASE UNCHANGED <<inputs, dlg>>
    BY <2>1 DEF OtherTypes, Inputs, inputs
  <2>2. ASSUME NEW message \in Verdicts, EndSession(message)
        PROVE  Inputs' /\ dlg' \in Messages \cup {"none", "PleaseWait"}
    <3>1. Inputs /\ Elements(TRUE, TRUE, FALSE) /\ dlg' = message
      BY <2>2 DEF EndSession, OtherTypes
    <3>2. Inputs'
      BY <3>1, ElementsTyped
    <3>3. message \in Messages
      BY <2>2 DEF Messages
    <3> QED
      BY <3>1, <3>2, <3>3
  <2> QED
    BY <2>1, <2>2 DEF ResultHandler, Verdicts
<1> QED
  BY <1>1, <1>2 DEF OtherTypes

LEMMA InitTyped == Init => OtherTypes
<1> SUFFICES ASSUME Init PROVE OtherTypes
  OBVIOUS
<1>1. 0 \in 0..MaxSessions
  BY WpsAssumption
<1> QED
  BY <1>1, NoneLate DEF Init, OtherTypes, Inputs

LEMMA UserTyped ==
  ASSUME Types, OtherTypes,
         \/ Open \/ Leave \/ Reload \/ pbcOperator \/ pinOperator \/ pinOperatorBadPin
         \/ SwitchClicked \/ cancelSessionClicked \/ Ok
  PROVE  OtherTypes'
<1>1. CASE Open
  <2>1. gWPSswitch' \in [Opening -> Switch \cup {""}]
    BY <1>1 DEF Open, OtherTypes
  <2>2. Inputs'
    BY <1>1 DEF Open, Types, Inputs, InSession
  <2> QED
    BY <1>1, <2>1, <2>2 DEF Open, OtherTypes, requests
<1>2. CASE Leave
  BY <1>2 DEF Leave, OtherTypes, Inputs, requests, switching
<1>3. CASE Reload
  BY <1>3, NoneLate DEF Reload, OtherTypes, Inputs
<1>4. ASSUME NEW k \in {"pbc", "pin"}, Begin(k) PROVE OtherTypes'
  <2>1. pushOrRegisterXhr \in XhrType(Kinds)
    BY DEF Types, PushXhr, XhrType, Kinds
  <2>2. late' \in Late
    BY <1>4, <2>1, LateTyped DEF Begin, LateWith, OtherTypes
  <2>3. sessions' \in 0..MaxSessions
    <3>1. sessions \in 0..MaxSessions /\ sessions < MaxSessions /\ sessions' = sessions + 1
      BY <1>4 DEF Begin, OtherTypes
    <3> QED
      BY <3>1, WpsAssumption
  <2> QED
    BY <1>4, <2>2, <2>3 DEF Begin, OtherTypes, Inputs, switching, place
<1>5. CASE pinOperatorBadPin
  BY <1>5 DEF pinOperatorBadPin, OtherTypes, Inputs, inputs, place, requests, switching
<1>6. CASE SwitchClicked
  <2>1. opened \in Opening
    BY <1>6 DEF SwitchClicked, Free, Types
  <2>2. switches' \subseteq Switching
    <3>1. PICK val \in Switch : switches' = switches \cup {[opening |-> opened, val |-> val]}
      BY <1>6 DEF SwitchClicked
    <3>2. [opening |-> opened, val |-> val] \in Switching
      BY <2>1 DEF Switching
    <3> QED
      BY <3>1, <3>2 DEF OtherTypes
  <2> QED
    BY <1>6, <2>2 DEF SwitchClicked, OtherTypes, Inputs, inputs, place, requests
<1>7. CASE cancelSessionClicked \/ Ok
  BY <1>7 DEF cancelSessionClicked, Ok, OtherTypes, Inputs, inputs, place, requests, switching
<1> QED
  BY <1>1, <1>2, <1>3, <1>4, <1>5, <1>6, <1>7 DEF pbcOperator, pinOperator

LEMMA TimerTyped ==
  ASSUME Types, OtherTypes,
         SwitchTimer \/ CancelTimer \/ CancelTimerThrows \/ \E o \in Opening : PollTimer(o)
  PROVE  OtherTypes'
<1>1. CASE SwitchTimer
  <2>1. PICK s \in switches : SwitchTimer!(s)
    BY <1>1 DEF SwitchTimer
  <2>2. s.opening \in Opening /\ s.val \in Switch
    BY <2>1 DEF OtherTypes, Switching
  <2>3. gWPSswitch' \in [Opening -> Switch \cup {""}] /\ wps_enable' \in Switch
    BY <2>1, <2>2 DEF OtherTypes
  <2>4. Inputs'
    BY <2>1, ElementsTyped DEF OtherTypes, Inputs, inputs
  <2> QED
    BY <2>1, <2>3, <2>4 DEF OtherTypes, requests, place
<1>2. CASE CancelTimer
  <2>1. Inputs'
    BY <1>2, ElementsTyped DEF CancelTimer, OtherTypes, Inputs, inputs
  <2> QED
    BY <1>2, <2>1 DEF CancelTimer, OtherTypes, Messages, switching, place
<1>3. CASE CancelTimerThrows
  <2>1. dlg' \in Messages \cup {"none", "PleaseWait"}
    <3>1. CASE dlg' = dlg
      BY <3>1 DEF OtherTypes
    <3>2. CASE Pending(pushOrRegisterXhr) /\ dlg' = Failure[pushOrRegisterXhr.kind]
      <4>1. pushOrRegisterXhr.kind \in {"pbc", "pin"}
        BY <3>2, Undefined, Fields DEF Types, PushXhr, Pending
      <4> QED
        BY <3>2, <4>1 DEF Failure, Messages
    <3> QED
      BY <1>3, <3>1, <3>2 DEF CancelTimerThrows, AbortPush
  <2> QED
    BY <1>3, <2>1 DEF CancelTimerThrows, OtherTypes, Inputs, inputs, place, switching
<1>4. ASSUME NEW o \in Opening, PollTimer(o) PROVE OtherTypes'
  <2>1. queryWpsResultCount' \in Nat /\ late' \in Late
    BY <1>4, QueryTyped DEF PollTimer, OtherTypes
  <2> QED
    BY <1>4, <2>1 DEF PollTimer, OtherTypes, Inputs, inputs, place, switching
<1> QED
  BY <1>1, <1>2, <1>3, <1>4

LEMMA AnswerTyped ==
  ASSUME Types, OtherTypes,
         PushAnswer \/ LatePushAnswer \/ ResultAnswer \/ LateResultAnswer
  PROVE  OtherTypes'
<1>0. late \in Late
  BY DEF OtherTypes
<1>1. CASE PushAnswer
  <2>1. pushOrRegisterXhr.kind \in {"pbc", "pin"} /\ pushOrRegisterXhr.opening \in Opening
    BY <1>1, Undefined, Fields DEF PushAnswer, Types, PushXhr, Pending
  <2> QED
    BY <1>0, <1>1, <2>1, PushTyped DEF PushAnswer
<1>2. CASE LatePushAnswer
  <2>1. PICK k \in {"pbc", "pin"}, o \in Opening :
          /\ late[<<k, o>>] > 0
          /\ PushHandler(k, o, pushOrRegisterXhr, [late EXCEPT ![<<k, o>>] = @ - 1])
    BY <1>2 DEF LatePushAnswer
  <2>2. k \in Kinds
    BY DEF Kinds
  <2>3. [late EXCEPT ![<<k, o>>] = @ - 1] \in Late
    BY <1>0, <2>1, <2>2, Answering
  <2> QED
    BY <2>1, <2>3, PushTyped
<1>3. CASE ResultAnswer
  <2>1. pushOrRegisterResultXhr.opening \in Opening
    BY <1>3, Undefined, Fields DEF ResultAnswer, Types, ResultXhr, Pending
  <2> QED
    BY <1>0, <1>3, <2>1, ResultTyped DEF ResultAnswer
<1>4. CASE LateResultAnswer
  <2>1. PICK o \in Opening :
          /\ late[<<"result", o>>] > 0
          /\ late' = [late EXCEPT ![<<"result", o>>] = @ - 1]
          /\ ResultHandler(o, pushOrRegisterResultXhr)
    BY <1>4 DEF LateResultAnswer
  <2>2. late' \in Late
    BY <1>0, <2>1, Answering DEF Kinds
  <2> QED
    BY <2>1, <2>2, ResultTyped
<1> QED
  BY <1>1, <1>2, <1>3, <1>4

LEMMA NextTyped == IInv /\ OtherTypes /\ [Next]_vars => OtherTypes'
<1> SUFFICES ASSUME IInv, OtherTypes, [Next]_vars PROVE OtherTypes'
  OBVIOUS
<1>0. Types
  BY DEF IInv
<1>1. CASE UNCHANGED vars
  BY <1>1 DEF vars, OtherTypes, Inputs, inputs, place, requests, switching
<1>2. CASE Next
  BY <1>0, <1>2, UserTyped, TimerTyped, AnswerTyped DEF Next
<1> QED
  BY <1>1, <1>2

\* The variables of the page, its requests and its timers keep their types: in
\* particular every request under way, the replaced ones too, is of an opening, and no
\* more answers come in than requests went out (lines 48-67, 100-218, 287-309).
THEOREM TypeCorrect == Spec => []TypeOK
<1>1. Init => OtherTypes
  BY InitTyped
<1>2. IInv /\ OtherTypes /\ [Next]_vars => OtherTypes'
  BY NextTyped
<1>3. IInv /\ OtherTypes => TypeOK
  BY DEF IInv, Types, OtherTypes, Inputs, Late, Switching, PushXhr, ResultXhr, TypeOK
<1> QED
  BY <1>1, <1>2, <1>3, Invariance, PTL DEF Spec

-----------------------------------------------------------------------------
(* How often the page asks: a poll that is due counts as one that was sent. *)

Due == {o \in Opening : wpsTimer[o]}

CountInv == OtherTypes /\ queryWpsResultCount + Cardinality(Due) <= Polls + MaxOpen

LEMMA DueFew == IsFiniteSet(Due) /\ Cardinality(Due) \in 0..MaxOpen
<1>1. IsFiniteSet(Opening) /\ Cardinality(Opening) = MaxOpen
  BY WpsAssumption, FS_Interval DEF Opening
<1>2. Due \subseteq Opening
  BY DEF Due
<1>3. IsFiniteSet(Due) /\ Cardinality(Due) <= MaxOpen /\ Cardinality(Due) \in Nat
  BY <1>1, <1>2, FS_Subset, FS_CardinalityType
<1> QED
  BY <1>3, WpsAssumption

LEMMA DueFewNext == Cardinality(Due') \in 0..MaxOpen
<1>1. IsFiniteSet(Opening) /\ Cardinality(Opening) = MaxOpen
  BY WpsAssumption, FS_Interval DEF Opening
<1>2. Due' \subseteq Opening
  BY DEF Due
<1>3. Cardinality(Due') <= MaxOpen /\ Cardinality(Due') \in Nat
  BY <1>1, <1>2, FS_Subset, FS_CardinalityType
<1> QED
  BY <1>3, WpsAssumption

LEMMA CountParts ==
  ASSUME CountInv
  PROVE  /\ queryWpsResultCount \in Nat /\ Cardinality(Due) \in Nat
         /\ queryWpsResultCount + Cardinality(Due) <= Polls + MaxOpen
<1>1. Cardinality(Due) \in Nat
  BY DueFew, FS_CardinalityType
<1>2. queryWpsResultCount \in Nat
  BY DEF CountInv, OtherTypes
<1>3. queryWpsResultCount + Cardinality(Due) <= Polls + MaxOpen
  BY DEF CountInv
<1> QED
  BY <1>1, <1>2, <1>3

\* Where no timer is set the sum is kept or the count begins anew.
LEMMA CountKept ==
  ASSUME CountInv, Due' = Due, queryWpsResultCount' \in {queryWpsResultCount, 0, 1}
  PROVE  queryWpsResultCount' + Cardinality(Due') <= Polls + MaxOpen
<1>1. Cardinality(Due') = Cardinality(Due) /\ Cardinality(Due) \in 0..MaxOpen
  BY DueFew
<1> QED
  BY <1>1, CountParts, WpsAssumption

LEMMA PushCount ==
  ASSUME CountInv, NEW k \in {"pbc", "pin"}, NEW o \in Opening, NEW xhr, NEW older,
         PushHandler(k, o, xhr, older)
  PROVE  queryWpsResultCount' + Cardinality(Due') <= Polls + MaxOpen
<1>1. Due' = Due
  BY DEF PushHandler, Due
<1>2. queryWpsResultCount' \in {queryWpsResultCount, 0, 1}
  <2>1. CASE UNCHANGED queryWpsResultCount
    BY <2>1
  <2>2. CASE QueryWpsStatusEx(0, o, older)
    BY <2>2 DEF QueryWpsStatusEx
  <2> QED
    BY <2>1, <2>2 DEF PushHandler
<1> QED
  BY <1>1, <1>2, CountKept

\* A timer is set only while the count is within the bound.
LEMMA ResultCount ==
  ASSUME CountInv, NEW o \in Opening, NEW xhr, ResultHandler(o, xhr)
  PROVE  queryWpsResultCount' + Cardinality(Due') <= Polls + MaxOpen
<1>1. queryWpsResultCount' = queryWpsResultCount
  BY DEF ResultHandler
<1>2. CASE UNCHANGED wpsTimer
  <2>1. Due' = Due
    BY <1>2 DEF Due
  <2> QED
    BY <1>1, <2>1, CountKept
<1>3. CASE Waits(xhr)
  <2>1. queryWpsResultCount <= Polls /\ queryWpsResultCount \in Nat
    BY <1>3 DEF Waits, CountInv, OtherTypes
  <2> QED
    BY <1>1, <2>1, DueFewNext, WpsAssumption
<1> QED
  BY <1>2, <1>3 DEF ResultHandler, EndSession

\* A timer that fires moves one from those due to those sent.
LEMMA PollCount ==
  ASSUME Types, CountInv, NEW o \in Opening, PollTimer(o)
  PROVE  queryWpsResultCount' + Cardinality(Due') <= Polls + MaxOpen
<1>1. o \in Due /\ Due' = Due \ {o}
  BY DEF PollTimer, Due, Types
<1>2. Cardinality(Due') = Cardinality(Due) - 1
  BY <1>1, DueFew, FS_RemoveElement
<1>3. queryWpsResultCount' \in {queryWpsResultCount, queryWpsResultCount + 1}
  BY DEF PollTimer, QueryWpsStatusEx
<1> QED
  BY <1>2, <1>3, CountParts, WpsAssumption

LEMMA InitCount == Init => CountInv
<1> SUFFICES ASSUME Init PROVE CountInv
  OBVIOUS
<1>1. queryWpsResultCount = 0 /\ OtherTypes
  BY InitTyped DEF Init
<1> QED
  BY <1>1, DueFew, WpsAssumption DEF CountInv

LEMMA NextCount == IInv /\ CountInv /\ [Next]_vars => CountInv'
<1> SUFFICES ASSUME IInv, CountInv, [Next]_vars PROVE CountInv'
  OBVIOUS
<1>1. OtherTypes'
  BY NextTyped DEF CountInv
<1>2. queryWpsResultCount' + Cardinality(Due') <= Polls + MaxOpen
  <2>1. CASE UNCHANGED <<queryWpsResultCount, wpsTimer>>
    <3>1. Due' = Due
      BY <2>1 DEF Due
    <3> QED
      BY <2>1, <3>1, CountKept
  <2>2. CASE Reload
    <3>1. queryWpsResultCount' = 0
      BY <2>2 DEF Reload
    <3> QED
      BY <3>1, DueFewNext, WpsAssumption
  <2>3. ASSUME NEW o \in Opening, PollTimer(o)
        PROVE  queryWpsResultCount' + Cardinality(Due') <= Polls + MaxOpen
    BY <2>3, PollCount DEF IInv
  <2>4. CASE PushAnswer
    <3>1. pushOrRegisterXhr.kind \in {"pbc", "pin"} /\ pushOrRegisterXhr.opening \in Opening
      BY <2>4, Undefined, Fields DEF PushAnswer, IInv, Types, PushXhr, Pending
    <3> QED
      BY <2>4, <3>1, PushCount DEF PushAnswer
  <2>5. CASE LatePushAnswer
    BY <2>5, PushCount DEF LatePushAnswer
  <2>6. CASE ResultAnswer
    <3>1. pushOrRegisterResultXhr.opening \in Opening
      BY <2>6, Undefined, Fields DEF ResultAnswer, IInv, Types, ResultXhr, Pending
    <3> QED
      BY <2>6, <3>1, ResultCount DEF ResultAnswer
  <2>7. CASE LateResultAnswer
    BY <2>7, ResultCount DEF LateResultAnswer
  <2>8. CASE \/ Open \/ Leave \/ pbcOperator \/ pinOperator \/ pinOperatorBadPin
             \/ SwitchClicked \/ cancelSessionClicked \/ Ok
             \/ SwitchTimer \/ CancelTimer \/ CancelTimerThrows \/ UNCHANGED vars
    BY <2>1, <2>8 DEF Open, Leave, pbcOperator, pinOperator, Begin, pinOperatorBadPin,
      SwitchClicked, cancelSessionClicked, Ok, SwitchTimer, CancelTimer, CancelTimerThrows, vars
  <2> QED
    BY <2>2, <2>3, <2>4, <2>5, <2>6, <2>7, <2>8 DEF Next
<1> QED
  BY <1>1, <1>2 DEF CountInv

\* The page asks at most as often as the bound of 120 allows, and once more for each
\* time it was opened, whichever openings, sessions and late answers share the count
\* (lines 120, 162, 181 and 195-200).
THEOREM PollsAreBounded == Spec => []PollsBounded
<1>1. Init => CountInv
  BY InitCount
<1>2. IInv /\ CountInv /\ [Next]_vars => CountInv'
  BY NextCount
<1>3. CountInv => PollsBounded
  <2> SUFFICES ASSUME CountInv PROVE PollsBounded
    OBVIOUS
  <2> QED
    BY CountParts, WpsAssumption DEF PollsBounded
<1> QED
  BY <1>1, <1>2, <1>3, Invariance, PTL DEF Spec
=============================================================================
