------------------------------- MODULE WebApp --------------------------------
(***************************************************************************)
(* The React page, the HTTP requests it makes and the threads that serve   *)
(* them, on a box that the console uses as well.  The page asks for the    *)
(* status every two seconds, whether the last answer has come or not, and  *)
(* once more after each button; every request has a connection and a       *)
(* thread of its own, so that answers come in any order, or not at all.    *)
(* A call of the controller is one step here (WallboxThreads has the       *)
(* steps); the status is put together from members read one after another. *)
(***************************************************************************)
EXTENDS WallboxController

CONSTANTS
  Timer,      \* the requests of the timer that may be under way at a time
  own         \* the request a button makes once it is answered

ASSUME WebAssumption == own \notin Timer

VARIABLES
  page,       \* what App keeps: connected, status, loading, error
  poll,       \* the status requests: where each is and what it has read
  deed,       \* the request of a button: its call and where it is
  started,    \* history: somebody started a session since the last deed
  calm        \* whether the console and the failures have come to an end

controllerVars == <<box, last, sent, cp, process>>
webVars == <<controllerVars, page, poll, deed, started, calm>>

Requests == Timer \cup {own}

Nothing == [state |-> "none", enabled |-> FALSE, relay |-> FALSE, charging |-> FALSE]

\* What getStatusJson tells of the box, without the time.
Truth == [ state |-> box.state, enabled |-> box.enabled, relay |-> box.relay,
           charging |-> box.state = "CHARGING" ]

Free == [at |-> "free", got |-> Nothing]

WebInit ==
  /\ Init
  /\ page = [connected |-> FALSE, status |-> Nothing,
             loading |-> FALSE, error |-> FALSE]
  /\ poll = [r \in Requests |-> Free]
  /\ deed = [call |-> "none", at |-> "none"]
  /\ started = FALSE
  /\ calm = FALSE

-----------------------------------------------------------------------------
(***************************************************************************)
(* loadStatus: on mount and then every two seconds (Timer), or after a     *)
(* button (own).                                                           *)
(***************************************************************************)
Asks(r) == poll' = [poll EXCEPT ![r] = [at |-> "sent", got |-> Nothing]]

Tick(r) ==
  /\ poll[r].at = "free"
  /\ Asks(r)
  /\ UNCHANGED <<controllerVars, page, deed, started, calm>>

\* handleClient and getStatusJson: first the state, then the flags.
ReadState(r) ==
  /\ poll[r].at = "sent"
  /\ poll' = [poll EXCEPT ![r].at = "read", ![r].got.state = box.state]
  /\ UNCHANGED <<controllerVars, page, deed, started, calm>>

ReadFlags(r) ==
  /\ poll[r].at = "read"
  /\ poll' = [poll EXCEPT ![r] =
                [at |-> "answered", got |-> [Truth EXCEPT !.state = poll[r].got.state]]]
  /\ UNCHANGED <<controllerVars, page, deed, started, calm>>

\* The page after a status request of r: the one a button waits for makes the
\* buttons work again.
Loaded(r, p) ==
  IF r = own THEN [p EXCEPT !.loading = FALSE] ELSE p

Ended(r) == IF r = own THEN deed' = [call |-> "none", at |-> "none"] ELSE UNCHANGED deed

\* Variant: the page keeps its status when the state is the same.
StatusArrivesIfNew(r) ==
  /\ poll[r].at = "answered"
  /\ page' = Loaded(r, IF poll[r].got.state = page.status.state /\ page.connected THEN page
                       ELSE [page EXCEPT !.connected = TRUE, !.status = poll[r].got,
                                         !.error = FALSE])
  /\ poll' = [poll EXCEPT ![r] = Free]
  /\ Ended(r)
  /\ UNCHANGED <<controllerVars, started, calm>>

StatusArrives(r) ==
  /\ poll[r].at = "answered"
  /\ page' = Loaded(r, [page EXCEPT !.connected = TRUE, !.status = poll[r].got,
                                !.error = FALSE])
  /\ poll' = [poll EXCEPT ![r] = Free]
  /\ Ended(r)
  /\ UNCHANGED <<controllerVars, started, calm>>

\* loadStatus catches the error itself.
StatusFails(r) ==
  /\ ~calm
  /\ poll[r].at # "free"
  /\ page' = Loaded(r, [page EXCEPT !.connected = FALSE, !.error = TRUE])
  /\ poll' = [poll EXCEPT ![r] = Free]
  /\ Ended(r)
  /\ UNCHANGED <<controllerVars, started, calm>>

-----------------------------------------------------------------------------
(***************************************************************************)
(* The buttons.  The page knows a state PAUSED, which no answer names: a   *)
(* paused session is READY, and Continue is never offered for it.          *)
(***************************************************************************)
Offered(c) ==
  CASE c = "pause"  -> page.status.state = "CHARGING"
    [] c = "resume" -> page.status.state = "PAUSED"
    [] c = "stop"   -> page.status.charging

handleAction ==
  /\ page.connected
  /\ ~page.loading
  /\ \E c \in {"pause", "resume", "stop"} :
       /\ Offered(c)
       /\ deed' = [call |-> c, at |-> "sent"]
  /\ page' = [page EXCEPT !.loading = TRUE, !.error = FALSE]
  /\ UNCHANGED <<controllerVars, poll, started, calm>>

Done(c, b) ==
  CASE c = "pause"  -> pauseCharging(b)
    [] c = "resume" -> resumeCharging(b)
    [] c = "stop"   -> stopCharging(b)

\* The endpoint answers 200 when the call returned true: with lines that can be
\* written, when it found the session it asks for.
Succeeds(c, b) ==
  /\ b.enabled
  /\ b.state \in CASE c = "pause"  -> {"CHARGING"}
                   [] c = "resume" -> {"READY"}
                   [] c = "stop"   -> {"CHARGING", "READY"}

chargingEndpoint ==
  /\ deed.at = "sent"
  /\ box' = Done(deed.call, box)
  /\ deed' = [deed EXCEPT !.at = IF Succeeds(deed.call, box) THEN "done" ELSE "refused"]
  /\ started' = FALSE
  /\ UNCHANGED <<last, sent, cp, process, page, poll, calm>>

\* Variant: the status is not waited for.
ActionAnsweredNoWait ==
  /\ deed.at = "done"
  /\ page' = [page EXCEPT !.loading = FALSE]
  /\ deed' = [deed EXCEPT !.at = "reload"]
  /\ Asks(own)
  /\ UNCHANGED <<controllerVars, started, calm>>

ActionAnswered ==
  /\ deed.at = "done"
  /\ deed' = [deed EXCEPT !.at = "reload"]
  /\ Asks(own)
  /\ UNCHANGED <<controllerVars, page, started, calm>>

\* An answer of 400, or none: an error is shown, the status is not asked for.
\* The call may have been made all the same.
ActionFails ==
  /\ deed.at = "refused" \/ (deed.at \in {"sent", "done"} /\ ~calm)
  /\ page' = [page EXCEPT !.loading = FALSE, !.error = TRUE]
  /\ deed' = [call |-> "none", at |-> "none"]
  /\ UNCHANGED <<controllerVars, poll, started, calm>>

-----------------------------------------------------------------------------
\* The console, until it is left alone.
Console ==
  /\ ~calm
  /\ \/ Start /\ started' = (started \/ box'.state = "CHARGING")
     \/ (Pause \/ Enable \/ Disable) /\ UNCHANGED started
     \/ Resume /\ started' = (started \/ box'.state = "CHARGING")
  /\ UNCHANGED <<page, poll, deed, calm>>

Calm ==
  /\ ~calm
  /\ calm' = TRUE
  /\ UNCHANGED <<controllerVars, page, poll, deed, started>>

Serving(r) == ReadState(r) \/ ReadFlags(r) \/ StatusArrives(r)

Button == chargingEndpoint \/ ActionAnswered \/ ActionFails

WebNext ==
  \/ \E r \in Timer : Tick(r)
  \/ \E r \in Requests : ReadState(r)
  \/ \E r \in Requests : ReadFlags(r)
  \/ \E r \in Requests : StatusArrives(r)
  \/ \E r \in Requests : StatusFails(r)
  \/ handleAction
  \/ chargingEndpoint
  \/ ActionAnswered
  \/ ActionFails
  \/ Console
  \/ Calm

WebSpec == WebInit /\ [][WebNext]_webVars

(***************************************************************************)
(* The timer goes on, a thread that serves a request ends, and an answer   *)
(* that is on its way arrives or fails; nothing is promised of the user.   *)
(***************************************************************************)
FairWeb ==
  /\ WebSpec
  /\ \A r \in Timer : WF_webVars(Tick(r))
  /\ \A r \in Requests : WF_webVars(Serving(r))
  /\ WF_webVars(Button)

-----------------------------------------------------------------------------
(***************************************************************************)
(* A user who has pressed Pause or STOP, and whose page works again        *)
(* without an error, sees a box that does not charge, unless somebody      *)
(* started it since: whatever older answers are still on their way, the    *)
(* status the page waited for was read after the call.                     *)
(***************************************************************************)
DeedIsSeen ==
  [][/\ page.loading /\ ~page'.loading /\ ~page'.error
     /\ deed.call \in {"pause", "stop"}
     /\ ~started
     => ~page'.status.charging /\ page'.status.state # "CHARGING"]_webVars

(***************************************************************************)
(* Once the box is left alone and answers arrive, the page comes to show   *)
(* the box and goes on showing it: answers overtaken by later ones, torn   *)
(* ones and earlier failures are made up for.                              *)
(***************************************************************************)
ShowsBox == page.connected /\ page.status = Truth

PageCatchesUp == calm ~> []ShowsBox
=============================================================================
