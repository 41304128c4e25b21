----------------------------- MODULE RemoteProofs -----------------------------
(***************************************************************************)
(* The box with the simulator (SimulatorLink) or the page (WebApp) at the  *)
(* other end.  It is the controller of WallboxController either way, with  *)
(* a peer that never disables it, or with users who see it late, so that   *)
(* module's lemmas and theorems are about it.                              *)
(***************************************************************************)
EXTENDS SimulatorLink, WebApp, WallboxControllerProofs, FiniteSetTheorems

-----------------------------------------------------------------------------
(***************************************************************************)
(* What the box does whatever the network does to the simulator's          *)
(* datagrams.                                                              *)
(***************************************************************************)
Words == {"idle", "ready", "charging", "stop"}

\* What the simulator may have sent, at any time of any of its lives.
Posts == [state : Words, contactor : BOOLEAN, enable : {TRUE}]

LinkInv ==
  /\ g \in [state : Words, contactor : BOOLEAN]
  /\ toBox \subseteq Posts
  /\ last \in Posts

(***************************************************************************)
(* The network adds nothing of its own.                                    *)
(***************************************************************************)
LEMMA PostedIsSent ==
  ASSUME NEW wire, NEW max, NEW d
  PROVE  Posted(wire, max, d) \subseteq wire \cup {d}
  BY DEF Posted

\* What the simulator offers is one of its datagrams.
LEMMA OfferIsPost ==
  ASSUME LinkInv
  PROVE  Offer \in Posts
  BY DEF LinkInv, Offer, Posts

\* What is done at the box is the controller's step and leaves the link alone.
LEMMA UserCallLeaves ==
  ASSUME AtBox
  PROVE  /\ [Next]_vars
         /\ last' = last \/ last' = FirstLast
         /\ UNCHANGED linkVars
<1>1. ASSUME NEW call \in UserCalls, UserCall(call)
      PROVE  Next /\ last' = last
  <2>1. call \in {"start", "stop", "pause", "resume", "enable", "disable"}
    BY LinkAssumption
  <2>2. Start \/ Stop \/ Pause \/ Resume \/ Enable \/ Disable
    BY <1>1, <2>1 DEF UserCall
  <2>3. QED
    BY <2>2 DEF Next, Start, Stop, Pause, Resume, Enable, Disable, Handle
<1>2. Crash => Next /\ last' = last
  BY DEF Crash, Next
<1>3. Restart => Next /\ last' = FirstLast
  BY DEF Restart, Next
<1>4. QED
  BY <1>1, <1>2, <1>3 DEF AtBox

\* Every step keeps to datagrams the simulator makes.
LEMMA LinkInvStep ==
  ASSUME LinkInv, [LinkNext]_allVars
  PROVE  LinkInv'
<1>1. FirstLast \in Posts
  BY DEF FirstLast, Posts, Words
<1>2. CASE Lose
  BY <1>2 DEF Lose, LinkInv, boxVars
<1>3. CASE send_state
  <2>1. toBox' \subseteq toBox \cup {Offer}
    BY <1>3, PostedIsSent DEF send_state
  <2>2. QED
    BY <1>3, <2>1, OfferIsPost DEF send_state, LinkInv, boxVars
<1>4. CASE process_command
  <2>1. g' \in [state : Words, contactor : BOOLEAN]
    <3>1. PICK cmd \in Commands :
            \/ g' = [g EXCEPT !.contactor = (cmd = "on")]
            \/ cmd \in DOMAIN StateOf /\ g' = [g EXCEPT !.state = StateOf[cmd]]
            \/ g' = FirstG
      BY <1>4 DEF process_command
    <3>2. CASE g' = [g EXCEPT !.contactor = (cmd = "on")]
      <4>1. (cmd = "on") \in BOOLEAN
        OBVIOUS
      <4>2. QED
        BY <3>2, <4>1 DEF LinkInv
    <3>3. CASE cmd \in DOMAIN StateOf /\ g' = [g EXCEPT !.state = StateOf[cmd]]
      <4>1. StateOf[cmd] \in Words
        BY <3>3 DEF StateOf, Words
      <4>2. QED
        BY <3>3, <4>1 DEF LinkInv
    <3>4. CASE g' = FirstG
      BY <3>4 DEF FirstG, Words
    <3>5. QED
      BY <3>1, <3>2, <3>3, <3>4
  <2>2. QED
    BY <1>4, <2>1 DEF process_command, LinkInv, boxVars
<1>5. CASE Rerun \/ Told
  BY <1>5 DEF Rerun, Told, recv_cmd, LinkInv, boxVars
<1>6. CASE AtBox
  BY <1>1, <1>6, UserCallLeaves DEF LinkInv, linkVars
<1>7. ASSUME NEW d \in toBox, HearOnce(d) \/ HearTwin(d)
      PROVE  LinkInv'
  BY <1>7 DEF HearOnce, HearTwin, Hear, LinkInv
<1>8. CASE UNCHANGED allVars
  BY <1>8 DEF allVars, boxVars, linkVars, LinkInv
<1>9. QED
  BY <1>2, <1>3, <1>4, <1>5, <1>6, <1>7, <1>8 DEF LinkNext

\* All that is under way to the box, and all it has heard, is what the
\* simulator's send_state makes: a word of its commands, and enable TRUE.
THEOREM LinkInvHolds == LinkSpec => []LinkInv
<1>1. LinkInit => LinkInv
  BY DEF LinkInit, Init, LinkInv, FirstG, FirstLast, Posts, Words
<1>2. QED
  BY <1>1, LinkInvStep, PTL DEF LinkSpec

-----------------------------------------------------------------------------
(***************************************************************************)
(* A step of the link is a step of the controller or leaves it alone.      *)
(***************************************************************************)
LEMMA LinkStep ==
  ASSUME LinkInv, [LinkNext]_allVars
  PROVE  [Next]_vars
<1>1. ASSUME NEW d \in toBox, Hear(d)
      PROVE  [Next]_vars
  <2>1. d \in [ state : IsoStates, contactor : BOOLEAN, enable : EnableCmds ]
    BY LinkAssumption DEF LinkInv, Posts, Words
  <2>2. processNetworkMessage(d) => Receive
    BY <2>1 DEF Receive
  <2>3. QED
    BY <1>1, <2>2 DEF Hear, Next, vars, boxVars
<1>2. CASE Lose \/ send_state \/ process_command \/ Rerun \/ Told
  BY <1>2 DEF Lose, send_state, process_command, Rerun, Told, recv_cmd, vars, boxVars
<1>3. CASE AtBox
  BY <1>3, UserCallLeaves
<1>4. CASE UNCHANGED allVars
  BY <1>4 DEF allVars, vars, boxVars
<1>5. QED
  BY <1>1, <1>2, <1>3, <1>4 DEF LinkNext, HearOnce, HearTwin

(***************************************************************************)
(* The box at the end of the link is the controller of WallboxController:  *)
(* every theorem about Spec holds of it, whatever the network does.        *)
(***************************************************************************)
THEOREM LinkImplementsController == LinkSpec => Spec
<1>1. LinkInit => Init
  BY DEF LinkInit
<1>2. QED
  BY <1>1, LinkStep, LinkInvHolds, PTL DEF LinkSpec, Spec

-----------------------------------------------------------------------------
(***************************************************************************)
(* The state and the contactor edge leave the enable flag alone; `idle'    *)
(* ends what session there is, and any other word leads to IDLE, READY or  *)
(* CHARGING from there.                                                    *)
(***************************************************************************)
Sessions == {"IDLE", "READY", "CHARGING"}

\* A state edge keeps to sessions, and `idle' ends the one there is.
LEMMA StateEdge ==
  ASSUME NEW b \in Box, NEW m
  PROVE  /\ applyState(b, m) \in Box
         /\ applyState(b, m).enabled = b.enabled
         /\ b.state \in Sessions => applyState(b, m).state \in Sessions
         /\ m.state = "idle" /\ b.state \in Sessions /\ (last.state = "idle" => b.state = "IDLE")
              => applyState(b, m).state = "IDLE"
<1>1. \/ applyState(b, m) = b /\ (m.state = "idle" => last.state = "idle")
      \/ applyState(b, m) = smStop(b)
      \/ applyState(b, m) = smStart(b) /\ m.state # "idle"
  BY DEF applyState
<1>2. CASE applyState(b, m) = b /\ (m.state = "idle" => last.state = "idle")
  BY <1>2
<1>3. CASE applyState(b, m) = smStop(b)
  BY <1>3, SmStop DEF Keeps, Sessions
<1>4. CASE applyState(b, m) = smStart(b) /\ m.state # "idle"
  BY <1>4, SmStart DEF Keeps, Sessions
<1>5. QED
  BY <1>1, <1>2, <1>3, <1>4

\* A contactor edge moves the relay only.
LEMMA ContactorEdge ==
  ASSUME NEW b \in Box, NEW m, m.contactor \in BOOLEAN
  PROVE  /\ applyContactor(b, m).enabled = b.enabled
         /\ applyContactor(b, m).state = b.state
<1>1. applyContactor(b, m) = b \/ applyContactor(b, m) = setRelayState(b, m.contactor)
  BY DEF applyContactor
<1>2. QED
  BY <1>1, SetRelay DEF SameControl

(***************************************************************************)
(* The simulator's datagrams carry no enable edge.                         *)
(***************************************************************************)
LEMMA PostHeard ==
  ASSUME LinkInv, box \in Box, NEW d \in toBox, processNetworkMessage(d)
  PROVE  /\ box'.enabled = box.enabled
         /\ box.state \in Sessions => box'.state \in Sessions
         /\ d.state = "idle" /\ box.state \in Sessions /\ (last.state = "idle" => box.state = "IDLE")
              => box'.state = "IDLE"
<1>1. d.enable = TRUE /\ last.enable = TRUE /\ d.contactor \in BOOLEAN
  BY DEF LinkInv, Posts
<1>2. applyEnable(box, d) = box
  BY <1>1 DEF applyEnable
<1>3. box' = applyContactor(applyState(box, d), d)
  BY <1>2 DEF processNetworkMessage
<1> DEFINE c == applyState(box, d)
<1>4. /\ c \in Box /\ c.enabled = box.enabled
      /\ box.state \in Sessions => c.state \in Sessions
      /\ d.state = "idle" /\ box.state \in Sessions /\ (last.state = "idle" => box.state = "IDLE")
           => c.state = "IDLE"
  BY StateEdge
<1> HIDE DEF c
<1>5. applyContactor(c, d).enabled = c.enabled /\ applyContactor(c, d).state = c.state
  BY <1>1, <1>4, ContactorEdge
<1>6. QED
  BY <1>3, <1>4, <1>5 DEF c

(***************************************************************************)
(* A box somebody disabled is not enabled by the simulator, whose source   *)
(* is always enabled: what it sends, resends or sends late has no enable   *)
(* edge to it.                                                             *)
(***************************************************************************)
THEOREM LocalDisable == LinkSpec => LocalDisableStands
<1>1. Inv /\ LinkInv /\ [LinkNext]_allVars
        => [Up /\ process' = "up" /\ ~box.enabled /\ box'.enabled => last' = last]_allVars
  <2> SUFFICES ASSUME Inv, LinkInv, LinkNext, Up, process' = "up", ~box.enabled, box'.enabled
               PROVE  last' = last
    OBVIOUS
  <2>1. box \in Box
    BY DEF Inv, TypeOK
  <2>2. ASSUME NEW d \in toBox, Hear(d)
        PROVE  last' = last
    BY <2>1, <2>2, PostHeard DEF Hear, boxVars
  <2>3. CASE AtBox
    <3>1. ~Restart
      BY DEF Restart, Up
    <3>2. ASSUME NEW call \in UserCalls, UserCall(call)
          PROVE  last' = last
      <4>1. call \in {"start", "stop", "pause", "resume", "enable", "disable"}
        BY LinkAssumption
      <4>2. QED
        BY <3>2, <4>1 DEF UserCall, Start, Stop, Pause, Resume, Enable, Disable, Handle
    <3>3. QED
      BY <2>3, <3>1, <3>2 DEF AtBox, Crash
  <2>4. CASE Lose \/ send_state \/ process_command \/ Rerun \/ Told
    BY <2>4 DEF Lose, send_state, process_command, Rerun, Told, recv_cmd, boxVars
  <2>5. QED
    BY <2>2, <2>3, <2>4 DEF LinkNext, HearOnce, HearTwin
<1>2. QED
  BY <1>1, LinkImplementsController, InvHolds, LinkInvHolds, PTL
  DEF LinkSpec, LocalDisableStands

-----------------------------------------------------------------------------
(***************************************************************************)
(* The invariant of the sessions a peer alone starts.                      *)
(***************************************************************************)
SessionInv ==
  /\ box.state \in Sessions
  /\ last.state = "idle" => box.state = "IDLE"

\* No call at the box but start begins a session from IDLE.
LEMMA NoCallBegins ==
  ASSUME "start" \notin UserCalls, Inv, SessionInv, NEW call \in UserCalls, UserCall(call)
  PROVE  SessionInv'
<1>1. call \in {"stop", "pause", "resume", "enable", "disable"}
  BY LinkAssumption
<1>2. box \in Box /\ Guarded(box)
  BY DEF Inv, TypeOK
<1>3. /\ stopCharging(box).state \in {box.state, "IDLE"}
      /\ pauseCharging(box).state \in Sessions
      /\ box.state = "IDLE" => pauseCharging(box).state = "IDLE"
      /\ resumeCharging(box).state \in Sessions
      /\ box.state = "IDLE" => resumeCharging(box).state = "IDLE"
      /\ enableWallbox(box).state = box.state
      /\ disableWallbox(box).state \in {box.state, "IDLE"}
  BY <1>2, StopServes, PauseServes, ResumeServes, EnableServes, DisableServes
  DEF SessionInv, Sessions
<1>4. /\ last' = last
      /\ box' \in {stopCharging(box), pauseCharging(box), resumeCharging(box),
                   enableWallbox(box), disableWallbox(box)}
  BY <1>1 DEF UserCall, Stop, Pause, Resume, Enable, Disable, Handle
<1>5. QED
  BY <1>3, <1>4 DEF SessionInv, Sessions

\* After `idle' the box is in IDLE until another word is heard.
LEMMA SessionStep ==
  ASSUME "start" \notin UserCalls, Inv, LinkInv, SessionInv, [LinkNext]_allVars
  PROVE  SessionInv'
<1>1. ASSUME NEW d \in toBox, Hear(d)
      PROVE  SessionInv'
  <2>1. CASE processNetworkMessage(d)
    <3>1. box \in Box /\ last' = d
      BY <2>1 DEF Inv, TypeOK, processNetworkMessage
    <3>2. QED
      BY <2>1, <3>1, PostHeard DEF SessionInv
  <2>2. CASE UNCHANGED boxVars
    BY <2>2 DEF boxVars, SessionInv
  <2>3. QED
    BY <1>1, <2>1, <2>2 DEF Hear
<1>2. CASE AtBox
  <2>1. CASE Crash
    BY <2>1 DEF Crash, SessionInv
  <2>2. CASE Restart
    BY <2>2, RestartIsIdle DEF SessionInv, Sessions
  <2>3. QED
    BY <1>2, <2>1, <2>2, NoCallBegins DEF AtBox
<1>3. CASE Lose \/ send_state \/ process_command \/ Rerun \/ Told
  BY <1>3 DEF Lose, send_state, process_command, Rerun, Told, recv_cmd, boxVars, SessionInv
<1>4. CASE UNCHANGED allVars
  BY <1>4 DEF allVars, boxVars, SessionInv
<1>5. QED
  BY <1>1, <1>2, <1>3, <1>4 DEF LinkNext, HearOnce, HearTwin

(***************************************************************************)
(* A box whose sessions only the peer starts is in no session when the     *)
(* last it heard is `idle', whatever was lost, copied, overtaken, paused   *)
(* or resumed before.                                                      *)
(***************************************************************************)
THEOREM IdleEnds ==
  ASSUME "start" \notin UserCalls
  PROVE  LinkSpec => []IdleEndsSession
<1>1. LinkInit => SessionInv
  BY Started DEF LinkInit, SessionInv, Sessions
<1>2. SessionInv => IdleEndsSession
  BY DEF SessionInv, IdleEndsSession
<1>3. Inv /\ LinkInv /\ SessionInv /\ [LinkNext]_allVars => SessionInv'
  BY SessionStep
<1>4. QED
  BY <1>1, <1>2, <1>3, LinkImplementsController, InvHolds, LinkInvHolds, PTL DEF LinkSpec

-----------------------------------------------------------------------------
(***************************************************************************)
(* The bounds on the wires are kept by what is posted and what is taken.   *)
(***************************************************************************)
Fits(wire, max) == IsFiniteSet(wire) /\ Cardinality(wire) <= max

\* A wire that is full takes nothing more.
LEMMA WiresFit ==
  ASSUME NEW wire, NEW max \in Nat, Fits(wire, max), NEW d
  PROVE  Fits(Posted(wire, max, d), max) /\ Fits(wire \ {d}, max)
<1>1. IsFiniteSet(wire \cup {d}) /\ IsFiniteSet(wire \ {d})
  BY FS_AddElement, FS_RemoveElement DEF Fits
<1>2. Cardinality(wire \ {d}) <= max
  BY FS_RemoveElement, FS_CardinalityType DEF Fits
<1>3. QED
  BY <1>1, <1>2 DEF Fits, Posted

LinkBounds ==
  /\ run \in BOOLEAN
  /\ shown \in BOOLEAN
  /\ Fits(toBox, MaxToBox)
  /\ toSim \subseteq BOOLEAN /\ Fits(toSim, MaxToSim)

\* Loss, copies and new datagrams keep the wires to their bounds.
LEMMA LinkBoundsStep ==
  ASSUME TypeOK', LinkBounds, [LinkNext]_allVars
  PROVE  LinkBounds'
<1> USE LinkAssumption
<1>1. CASE Lose
  <2>1. UNCHANGED <<run, shown>> /\ toSim' \subseteq toSim
    BY <1>1 DEF Lose
  <2>2. \/ toBox' = toBox
        \/ \E d \in toBox : toBox' = toBox \ {d}
    BY <1>1 DEF Lose
  <2>3. \/ toSim' = toSim
        \/ \E d \in toSim : toSim' = toSim \ {d}
    BY <1>1 DEF Lose
  <2>4. Fits(toBox', MaxToBox) /\ Fits(toSim', MaxToSim)
    BY <2>2, <2>3, WiresFit DEF LinkBounds
  <2>5. QED
    BY <2>1, <2>4 DEF LinkBounds
<1>2. CASE send_state
  BY <1>2, WiresFit DEF send_state, LinkBounds
<1>3. CASE process_command
  <2>1. run' \in BOOLEAN /\ shown' \in BOOLEAN
    BY <1>3 DEF process_command, LinkBounds, FirstShown
  <2>2. QED
    BY <1>3, <2>1 DEF process_command, LinkBounds
<1>4. CASE Rerun
  BY <1>4 DEF Rerun, LinkBounds
<1>5. CASE Told
  <2>1. PICK d \in toSim : recv_cmd(d)
    BY <1>5 DEF Told
  <2>2. QED
    BY <2>1, WiresFit DEF recv_cmd, LinkBounds
<1>6. CASE AtBox \/ UNCHANGED allVars
  BY <1>6 DEF AtBox, linkVars, allVars, LinkBounds
<1>7. ASSUME NEW d \in toBox, HearOnce(d) \/ HearTwin(d)
      PROVE  LinkBounds'
  <2>1. Fits(toBox', MaxToBox) /\ UNCHANGED <<run, shown>>
    BY <1>7, WiresFit DEF HearOnce, HearTwin, Hear, LinkBounds
  <2>2. sent'.enable \in BOOLEAN
    BY DEF TypeOK
  <2>3. toSim' = toSim \/ toSim' = Posted(toSim, MaxToSim, sent'.enable)
    BY <1>7 DEF HearOnce, HearTwin, Hear
  <2>4. toSim' \subseteq BOOLEAN
    BY <2>2, <2>3, PostedIsSent DEF LinkBounds
  <2>5. Fits(toSim', MaxToSim)
    BY <2>3, WiresFit DEF LinkBounds
  <2>6. QED
    BY <2>1, <2>4, <2>5 DEF LinkBounds
<1>8. QED
  BY <1>1, <1>2, <1>3, <1>4, <1>5, <1>6, <1>7 DEF LinkNext

(***************************************************************************)
(* The link keeps its types: the simulator's state is always one of the    *)
(* four words the box knows, and so is every datagram.                     *)
(***************************************************************************)
THEOREM LinkTypeCorrect == LinkSpec => []LinkTypeOK
<1>1. LinkInit => LinkBounds
  BY FS_EmptySet, LinkAssumption DEF LinkInit, LinkBounds, Fits, FirstShown
<1>2. LinkInv /\ TypeOK /\ LinkBounds => LinkTypeOK
  BY LinkAssumption DEF LinkInv, LinkBounds, LinkTypeOK, Fits, Words, Posts, Offers
<1>3. TypeOK' /\ LinkBounds /\ [LinkNext]_allVars => LinkBounds'
  BY LinkBoundsStep
<1>4. QED
  BY <1>1, <1>2, <1>3, LinkImplementsController, TypeCorrect, LinkInvHolds, PTL DEF LinkSpec

-----------------------------------------------------------------------------
(***************************************************************************)
(* What the page of WebApp shows.                                          *)
(***************************************************************************)
Answers == [ state : ChargingState \cup {"none"}, enabled : BOOLEAN, relay : BOOLEAN,
             charging : BOOLEAN ]

(***************************************************************************)
(* A button is waited for exactly while its request is under way, and the  *)
(* status is asked for on its behalf only once it is answered.             *)
(***************************************************************************)
PageInv ==
  /\ process = "up"
  /\ page \in [connected : BOOLEAN, status : Answers, loading : BOOLEAN, error : BOOLEAN]
  /\ poll \in [Requests -> [at : {"free", "sent", "read", "answered"}, got : Answers]]
  /\ deed \in [call : {"none", "pause", "resume", "stop"},
               at : {"none", "sent", "done", "refused", "reload"}]
  /\ started \in BOOLEAN
  /\ (deed.at = "none") <=> ~page.loading
  /\ (deed.call = "none") <=> (deed.at = "none")
  /\ poll[own].at # "free" => deed.at = "reload"

\* A pause or a stop was granted, and nobody has started a session since.
Granted == deed.call \in {"pause", "stop"} /\ deed.at \in {"done", "reload"} /\ ~started

(***************************************************************************)
(* From a granted pause or stop on the box does not charge, and what is    *)
(* read on the button's behalf is read from then on.                       *)
(***************************************************************************)
GrantedInv ==
  Granted => /\ box.state # "CHARGING"
             /\ poll[own].at \in {"read", "answered"} => poll[own].got.state # "CHARGING"
             /\ poll[own].at = "answered" => ~poll[own].got.charging

(***************************************************************************)
(* On the box the page does what a user at the console does.               *)
(***************************************************************************)
LEMMA WebStep ==
  ASSUME PageInv, [WebNext]_webVars
  PROVE  [Next]_vars /\ process' = "up"
<1> USE DEF PageInv
<1>1. CASE chargingEndpoint
  <2>1. /\ box' = Done(deed.call, box)
        /\ UNCHANGED <<last, sent, cp, process>>
    BY <1>1 DEF chargingEndpoint
  <2>2. deed.call \in {"pause", "resume", "stop"}
    BY <1>1 DEF chargingEndpoint
  <2>3. \/ deed.call = "pause" /\ box' = pauseCharging(box)
        \/ deed.call = "resume" /\ box' = resumeCharging(box)
        \/ deed.call = "stop" /\ box' = stopCharging(box)
    BY <2>1, <2>2 DEF Done
  <2>4. QED
    BY <2>1, <2>3 DEF Next, Pause, Resume, Stop, Handle, Done
<1>2. CASE Console
  BY <1>2 DEF Console, Next, Start, Pause, Enable, Disable, Resume, Handle
<1>3. CASE UNCHANGED controllerVars
  BY <1>3 DEF controllerVars, vars
<1>4. QED
  BY <1>1, <1>2, <1>3 DEF WebNext, webVars, Tick, ReadState, ReadFlags, StatusArrives,
    StatusFails, handleAction, ActionAnswered, ActionFails, Calm

\* A page that has just been opened.
LEMMA PageInvInit == WebInit => PageInv /\ GrantedInv
<1> SUFFICES ASSUME WebInit
             PROVE  PageInv /\ GrantedInv
  OBVIOUS
<1>1. own \in Requests /\ Nothing \in Answers
  BY DEF Requests, Nothing, Answers
<1>2. poll \in [Requests -> [at : {"free", "sent", "read", "answered"}, got : Answers]]
      /\ poll[own].at = "free"
  BY <1>1 DEF WebInit, Free
<1>3. page \in [connected : BOOLEAN, status : Answers, loading : BOOLEAN, error : BOOLEAN]
      /\ page.loading = FALSE
  BY <1>1 DEF WebInit
<1>4. PageInv
  BY <1>2, <1>3 DEF WebInit, Init, PageInv
<1>5. ~Granted
  BY DEF WebInit, Granted
<1>6. QED
  BY <1>4, <1>5 DEF GrantedInv

\* Every step of page, server and console keeps it.
LEMMA PageInvStep ==
  ASSUME TypeOK, PageInv, [WebNext]_webVars
  PROVE  PageInv'
<1> USE DEF PageInv
<1>1. process' = "up"
  BY WebStep
<1>2. own \in Requests /\ Nothing \in Answers /\ Free \in [at : {"free"}, got : Answers]
  BY DEF Requests, Nothing, Answers, Free
<1>3. ASSUME NEW r \in Requests, Tick(r), r # own
      PROVE  PageInv'
  <2>1. poll' \in [Requests -> [at : {"free", "sent", "read", "answered"}, got : Answers]]
    BY <1>2, <1>3 DEF Tick, Asks
  <2>2. poll'[own] = poll[own]
    BY <1>2, <1>3 DEF Tick, Asks
  <2>3. QED
    BY <1>1, <1>3, <2>1, <2>2 DEF Tick
<1>4. ASSUME NEW r \in Requests, ReadState(r)
      PROVE  PageInv'
  <2>1. box.state \in ChargingState
    BY DEF TypeOK, Box
  <2> DEFINE p == [poll[r] EXCEPT !.at = "read", !.got.state = box.state]
  <2>2. p.got = [poll[r].got EXCEPT !.state = box.state] /\ p.at = "read"
        /\ p \in [at : {"read"}, got : {[poll[r].got EXCEPT !.state = box.state]}]
    OBVIOUS
  <2>3. [poll[r].got EXCEPT !.state = box.state] \in Answers
    BY <2>1 DEF Answers
  <2>4. p \in [at : {"free", "sent", "read", "answered"}, got : Answers]
    BY <2>2, <2>3
  <2>5. poll' = [poll EXCEPT ![r] = p]
    BY <1>4 DEF ReadState
  <2> HIDE DEF p
  <2>6. poll' \in [Requests -> [at : {"free", "sent", "read", "answered"}, got : Answers]]
    BY <2>4, <2>5
  <2>7. poll'[own].at = "free" <=> poll[own].at = "free"
    BY <1>2, <1>4 DEF ReadState
  <2>8. QED
    BY <1>1, <1>4, <2>6, <2>7 DEF ReadState
<1>5. ASSUME NEW r \in Requests, ReadFlags(r)
      PROVE  PageInv'
  <2>1. [Truth EXCEPT !.state = poll[r].got.state] \in Answers
    BY DEF TypeOK, Box, Truth, Answers
  <2>2. poll' \in [Requests -> [at : {"free", "sent", "read", "answered"}, got : Answers]]
    BY <1>5, <2>1 DEF ReadFlags
  <2>3. poll'[own].at = "free" <=> poll[own].at = "free"
    BY <1>2, <1>5 DEF ReadFlags
  <2>4. QED
    BY <1>1, <1>5, <2>2, <2>3 DEF ReadFlags
<1>6. ASSUME NEW r \in Requests, StatusArrives(r) \/ StatusFails(r)
      PROVE  PageInv'
  <2>1. poll' = [poll EXCEPT ![r] = Free]
    BY <1>6 DEF StatusArrives, StatusFails
  <2>2. poll' \in [Requests -> [at : {"free", "sent", "read", "answered"}, got : Answers]]
    BY <1>2, <2>1
  <2>3. page' \in [connected : BOOLEAN, status : Answers, loading : BOOLEAN, error : BOOLEAN]
    BY <1>6 DEF StatusArrives, StatusFails, Loaded
  <2>4. CASE r = own
    <3>1. page'.loading = FALSE
      BY <1>6, <2>4 DEF StatusArrives, StatusFails, Loaded
    <3>2. deed' = [call |-> "none", at |-> "none"] /\ UNCHANGED started
      BY <1>6, <2>4 DEF StatusArrives, StatusFails, Ended
    <3>3. poll'[own].at = "free"
      BY <1>2, <2>1, <2>4 DEF Free
    <3>4. QED
      BY <1>1, <2>2, <2>3, <3>1, <3>2, <3>3
  <2>5. CASE r # own
    <3>1. page'.loading = page.loading
      BY <1>6, <2>5 DEF StatusArrives, StatusFails, Loaded
    <3>2. deed' = deed /\ UNCHANGED started
      BY <1>6, <2>5 DEF StatusArrives, StatusFails, Ended
    <3>3. poll'[own] = poll[own]
      BY <1>2, <2>1, <2>5
    <3>4. QED
      BY <1>1, <2>2, <2>3, <3>1, <3>2, <3>3
  <2>6. QED
    BY <2>4, <2>5
<1>7. CASE handleAction
  <2>1. deed.at = "none" /\ poll[own].at = "free"
    BY <1>7 DEF handleAction
  <2>2. deed' \in [call : {"pause", "resume", "stop"}, at : {"sent"}]
    BY <1>7 DEF handleAction
  <2>3. page' = [page EXCEPT !.loading = TRUE, !.error = FALSE] /\ UNCHANGED <<poll, started>>
    BY <1>7 DEF handleAction
  <2>4. page' \in [connected : BOOLEAN, status : Answers, loading : BOOLEAN, error : BOOLEAN]
        /\ page'.loading = TRUE
    BY <2>3
  <2>5. QED
    BY <1>1, <2>1, <2>2, <2>3, <2>4
<1>8. CASE chargingEndpoint
  BY <1>1, <1>8 DEF chargingEndpoint
<1>9. CASE ActionAnswered
  <2>1. poll' \in [Requests -> [at : {"free", "sent", "read", "answered"}, got : Answers]]
    BY <1>2, <1>9 DEF ActionAnswered, Asks
  <2>2. QED
    BY <1>1, <1>9, <2>1 DEF ActionAnswered
<1>10. CASE ActionFails
  BY <1>1, <1>10 DEF ActionFails
<1>11. CASE Console \/ Calm \/ UNCHANGED webVars
  <2>1. started' \in BOOLEAN /\ UNCHANGED <<page, poll, deed>>
    BY <1>11 DEF Console, Calm, webVars
  <2>2. QED
    BY <1>1, <2>1
<1>12. QED
  BY <1>3, <1>4, <1>5, <1>6, <1>7, <1>8, <1>9, <1>10, <1>11, WebAssumption
    DEF WebNext, Requests

\* What a pause or a stop that is granted makes of the box.
LEMMA DeedEnds ==
  ASSUME TypeOK, deed.call \in {"pause", "stop"}, Succeeds(deed.call, box)
  PROVE  Done(deed.call, box).state # "CHARGING"
<1>1. box \in Box
  BY DEF TypeOK
<1>2. CASE deed.call = "pause"
  BY <1>1, <1>2, PauseServes DEF Succeeds, Done
<1>3. CASE deed.call = "stop"
  BY <1>1, <1>3, StopServes DEF Succeeds, Done
<1>4. QED
  BY <1>2, <1>3

\* The console starts no session unnoticed.
LEMMA ConsoleNotices ==
  ASSUME Inv, Console, ~started', box.state # "CHARGING"
  PROVE  box'.state # "CHARGING" /\ ~started
<1>1. box \in Box /\ Guarded(box)
  BY DEF Inv, TypeOK
<1>2. ~started
  BY DEF Console
<1>3. \/ started' = (started \/ box'.state = "CHARGING")
      \/ Pause \/ Enable \/ Disable
  BY DEF Console
<1>4. CASE started' = (started \/ box'.state = "CHARGING")
  BY <1>2, <1>4
<1>5. CASE Pause
  BY <1>1, <1>2, <1>5, PauseServes DEF Pause, Handle
<1>6. CASE Enable
  BY <1>1, <1>2, <1>6, EnableServes DEF Enable, Handle
<1>7. CASE Disable
  BY <1>1, <1>2, <1>7, DisableServes DEF Disable, Handle
<1>8. QED
  BY <1>3, <1>4, <1>5, <1>6, <1>7

\* What is read while the box does not charge says so.
LEMMA GrantedInvStep ==
  ASSUME Inv, PageInv, GrantedInv, [WebNext]_webVars
  PROVE  GrantedInv'
<1> SUFFICES ASSUME Granted'
             PROVE  /\ box'.state # "CHARGING"
                    /\ poll'[own].at \in {"read", "answered"} => poll'[own].got.state # "CHARGING"
                    /\ poll'[own].at = "answered" => ~poll'[own].got.charging
  BY DEF GrantedInv, Granted
<1>1. own \in Requests /\ poll \in [Requests -> [at : {"free", "sent", "read", "answered"}, got : Answers]]
  BY DEF Requests, PageInv
<1>2. CASE chargingEndpoint
  <2>1. deed.call = deed'.call /\ deed.at = "sent" /\ poll' = poll /\ box' = Done(deed.call, box)
    BY <1>2 DEF chargingEndpoint, PageInv
  <2>2. Succeeds(deed.call, box)
    BY <1>2 DEF chargingEndpoint, Granted, PageInv
  <2>3. box'.state # "CHARGING"
    BY <2>1, <2>2, DeedEnds DEF Granted, Inv
  <2>4. poll'[own].at = "free"
    BY <1>1, <2>1 DEF PageInv
  <2>5. QED
    BY <2>3, <2>4
<1>3. CASE ActionAnswered
  <2>1. Granted /\ box' = box
    BY <1>3 DEF ActionAnswered, Granted, controllerVars, PageInv
  <2>2. poll'[own].at = "sent"
    BY <1>1, <1>3 DEF ActionAnswered, Asks
  <2>3. QED
    BY <2>1, <2>2 DEF GrantedInv
<1>4. CASE Console
  <2>1. UNCHANGED <<poll, deed>>
    BY <1>4 DEF Console
  <2>2. ~started
    <3>1. ~started' /\ (started' = (started \/ box'.state = "CHARGING") \/ UNCHANGED started)
      BY <1>4 DEF Console, Granted
    <3>2. QED
      BY <3>1
  <2>3. Granted
    BY <2>1, <2>2 DEF Granted
  <2>4. box'.state # "CHARGING"
    BY <1>4, <2>3, ConsoleNotices DEF Granted, GrantedInv
  <2>5. QED
    BY <2>1, <2>3, <2>4 DEF GrantedInv
<1>5. CASE Calm \/ UNCHANGED webVars
  BY <1>5 DEF Calm, webVars, controllerVars, Granted, GrantedInv
<1>6. CASE handleAction \/ ActionFails
  BY <1>6 DEF handleAction, ActionFails, Granted
<1>7. ASSUME NEW r \in Requests, Tick(r), r # own
      PROVE  Granted /\ box' = box /\ poll'[own] = poll[own]
  BY <1>1, <1>7 DEF Tick, Asks, controllerVars, Granted
<1>8. ASSUME NEW r \in Requests, ReadState(r) \/ ReadFlags(r)
      PROVE  Granted /\ box' = box /\ (r # own => poll'[own] = poll[own])
  BY <1>1, <1>8 DEF ReadState, ReadFlags, controllerVars, Granted
<1>9. CASE ReadState(own)
  <2>1. poll'[own].got.state = box.state /\ poll'[own].at = "read"
    BY <1>1, <1>9 DEF ReadState, Answers
  <2>2. QED
    BY <1>1, <1>8, <1>9, <2>1 DEF GrantedInv
<1>10. CASE ReadFlags(own)
  <2>1. poll'[own].got = [Truth EXCEPT !.state = poll[own].got.state] /\ poll[own].at = "read"
    BY <1>1, <1>10 DEF ReadFlags
  <2>2. poll'[own].got.state = poll[own].got.state
        /\ poll'[own].got.charging = (box.state = "CHARGING")
    BY <2>1 DEF Truth
  <2>3. QED
    BY <1>1, <1>8, <1>10, <2>1, <2>2 DEF GrantedInv
<1>11. ASSUME NEW r \in Requests, StatusArrives(r) \/ StatusFails(r)
       PROVE  r # own /\ Granted /\ box' = box /\ poll'[own] = poll[own]
  <2>1. r # own
    BY <1>11 DEF StatusArrives, StatusFails, Ended, Granted
  <2>2. poll' = [poll EXCEPT ![r] = Free] /\ UNCHANGED <<box, deed, started>>
    BY <1>11, <2>1 DEF StatusArrives, StatusFails, Ended, controllerVars
  <2>3. QED
    BY <1>1, <2>1, <2>2 DEF Granted
<1>12. ASSUME Granted, box' = box, poll'[own] = poll[own]
       PROVE  /\ box'.state # "CHARGING"
              /\ poll'[own].at \in {"read", "answered"} => poll'[own].got.state # "CHARGING"
              /\ poll'[own].at = "answered" => ~poll'[own].got.charging
  BY <1>12 DEF GrantedInv
<1>13. \/ \E r \in Timer : Tick(r)
       \/ \E r \in Requests : ReadState(r) \/ ReadFlags(r) \/ StatusArrives(r) \/ StatusFails(r)
       \/ handleAction \/ chargingEndpoint \/ ActionAnswered \/ ActionFails \/ Console \/ Calm
       \/ UNCHANGED webVars
  BY DEF WebNext
<1>14. \A r \in Timer : r \in Requests /\ r # own
  BY WebAssumption DEF Requests
<1>15. QED
  BY <1>2, <1>3, <1>4, <1>5, <1>6, <1>7, <1>8, <1>9, <1>10, <1>11, <1>12, <1>13, <1>14

(***************************************************************************)
(* The page is one more user of the controller: all that is proved of the  *)
(* controller holds under it.                                              *)
(***************************************************************************)
THEOREM WebImplementsController == WebSpec => Spec
<1>1. WebInit => Init
  BY DEF WebInit
<1>2. Inv => TypeOK
  BY DEF Inv
<1>3. Init => Inv
  BY Started
<1>4. Inv /\ [Next]_vars => Inv'
  BY InvStep
<1>5. PageInv /\ [WebNext]_webVars => [Next]_vars
  BY WebStep
<1>6. TypeOK /\ PageInv /\ [WebNext]_webVars => PageInv'
  BY PageInvStep
<1>7. WebInit => PageInv
  BY PageInvInit
<1>8. QED
  BY <1>1, <1>2, <1>3, <1>4, <1>5, <1>6, <1>7, PTL DEF WebSpec, Spec

(***************************************************************************)
(* A page whose button works again without an error shows that the box     *)
(* does not charge, after a pause or a stop: answers may overtake each     *)
(* other, but the one the button waits for was read after the call.        *)
(***************************************************************************)
THEOREM DeedSeen == WebSpec => DeedIsSeen
<1>1. WebInit => PageInv /\ GrantedInv
  BY PageInvInit
<1>2. Inv /\ PageInv /\ GrantedInv /\ [WebNext]_webVars => PageInv' /\ GrantedInv'
  BY PageInvStep, GrantedInvStep DEF Inv
<1> DEFINE A == /\ page.loading /\ ~page'.loading /\ ~page'.error
                /\ deed.call \in {"pause", "stop"}
                /\ ~started
           B == ~page'.status.charging /\ page'.status.state # "CHARGING"
<1>3. ASSUME PageInv, GrantedInv, [WebNext]_webVars
      PROVE  [A => B]_webVars
  <2> SUFFICES ASSUME WebNext, A
               PROVE  B
    BY <1>3
  <2>1. StatusArrives(own)
    <3>1. page.loading = TRUE /\ page'.loading = FALSE /\ page'.error = FALSE
      BY <1>3 DEF PageInv
    <3>2. page' # page
      BY <3>1
    <3>3. \/ \E r \in Requests : StatusArrives(r)
          \/ \E r \in Requests : StatusFails(r)
          \/ handleAction \/ ActionFails
      BY <3>2 DEF WebNext, Tick, ReadState, ReadFlags, chargingEndpoint, ActionAnswered,
        Console, Calm
    <3>4. ~handleAction /\ ~ActionFails
      BY <1>3, <3>1 DEF handleAction, ActionFails, PageInv
    <3>5. ASSUME NEW r \in Requests, StatusFails(r)
          PROVE  FALSE
      <4>1. page' = Loaded(r, [page EXCEPT !.connected = FALSE, !.error = TRUE])
        BY <3>5 DEF StatusFails
      <4>2. page'.error = TRUE
        BY <1>3, <4>1 DEF Loaded, PageInv
      <4>3. QED
        BY <3>1, <4>2
    <3>6. ASSUME NEW r \in Requests, StatusArrives(r)
          PROVE  r = own
      <4>1. r # own => page' = [page EXCEPT !.connected = TRUE, !.status = poll[r].got,
                                            !.error = FALSE]
        BY <3>6 DEF StatusArrives, Loaded
      <4>2. r # own => page'.loading = page.loading
        BY <1>3, <4>1 DEF PageInv
      <4>3. QED
        BY <3>1, <4>2
    <3>7. QED
      BY <3>3, <3>4, <3>5, <3>6
  <2>2. poll[own].at = "answered" /\ deed.at = "reload"
    BY <1>3, <2>1 DEF StatusArrives, PageInv
  <2>3. page'.status = poll[own].got
    BY <1>3, <2>1 DEF StatusArrives, Loaded, PageInv
  <2>4. QED
    BY <1>3, <2>2, <2>3 DEF GrantedInv, Granted
<1>4. QED
  BY <1>1, <1>2, <1>3, WebImplementsController, InvHolds, PTL DEF WebSpec, DeedIsSeen
=============================================================================
