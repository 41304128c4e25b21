-------------------------- MODULE WallboxController --------------------------
(***************************************************************************)
(* Class WallboxController with its state machine, relay, LEDs and the     *)
(* network and CP callbacks, one handler at a time: an action is a whole   *)
(* handler with every call it makes, the LED refresh of each transition    *)
(* included.  A handler maps the controller's record to a new one; how     *)
(* handlers of different threads interleave is WallboxThreads.             *)
(***************************************************************************)
EXTENDS Integers, ChargingStates

CONSTANTS
  Pin,             \* the GPIO lines
  RelayPin, GreenPin, YellowPin, RedPin,  \* the lines the configuration names
  SettablePins,    \* the lines a setrelay command may name
  WritablePins,    \* the lines a write succeeds on: all of them with the stub,
                   \* those setupGpio has exported with sysfs
  IsoStates,       \* the values of enIsoChargingState a peer sends
  EnableCmds,      \* the values of sourceEnable a peer sends
  CpInputs         \* the CP levels the reader reports

ASSUME PinsAssumption ==
  /\ {RelayPin, GreenPin, YellowPin, RedPin} \subseteq Pin
  /\ RelayPin \notin {GreenPin, YellowPin, RedPin}
  /\ GreenPin # YellowPin /\ GreenPin # RedPin /\ YellowPin # RedPin
  /\ SettablePins \subseteq Pin
  /\ WritablePins \subseteq Pin

CpState == {"STATE_A", "STATE_B", "STATE_C", "STATE_D", "STATE_E", "STATE_F",
            "UNKNOWN"}

ASSUME InputsAssumption == EnableCmds \subseteq BOOLEAN /\ CpInputs \subseteq CpState

VARIABLES
  box,      \* the controller, its state machine and the levels of the lines
  last,     \* the statics lastState, lastContactor, lastEnableCmd
  sent,     \* the status of the last sendStatusToSimulator
  cp,       \* m_currentCpState
  process   \* whether the program runs, was shut down or has crashed

vars == <<box, last, sent, cp, process>>

Level == {"LOW", "HIGH"}

\* blink is what the next refresh finds in the static of a blinking LED.
Box == [ state : ChargingState, enabled : BOOLEAN, relay : BOOLEAN,
         relayPin : Pin, pin : [Pin -> Level], blink : BOOLEAN ]

Message == [ state : IsoStates, contactor : BOOLEAN, enable : BOOLEAN ]

\* Variant: 16 A entered in hundredths.
DemandTooHigh ==
  [ OFF |-> 0, IDLE |-> 10, CONNECTED |-> 20, IDENTIFICATION |-> 30,
    READY |-> 100, CHARGING |-> 1600, STOP |-> 5, FINISHED |-> 1, ERROR |-> 0 ]

\* The current demand a status asks for, in tenths of an ampere.
Demand == [ OFF |-> 0, IDLE |-> 10, CONNECTED |-> 20, IDENTIFICATION |-> 30,
            READY |-> 100, CHARGING |-> 160, STOP |-> 5, FINISHED |-> 1,
            ERROR |-> 0 ]

-----------------------------------------------------------------------------
(***************************************************************************)
(* GPIO: the relay and the LEDs.                                           *)
(***************************************************************************)
RelayLevel(on) == IF on THEN "HIGH" ELSE "LOW"

\* Variant: the flag is set whether the write succeeds or not.
setRelayStateUnchecked(b, on) ==
  [b EXCEPT !.relay = on,
            !.pin[b.relayPin] = IF b.relayPin \in WritablePins THEN RelayLevel(on) ELSE @]

\* A failed write leaves m_relayEnabled alone.
setRelayState(b, on) ==
  IF b.relayPin \in WritablePins
  THEN [b EXCEPT !.pin[b.relayPin] = RelayLevel(on), !.relay = on]
  ELSE b

\* The level of a line that was written: a write that fails is only logged.
written(p, old, level) == IF p \in WritablePins THEN level ELSE old

setLeds(b, green, yellow, red) ==
  [b EXCEPT !.pin[GreenPin] = written(GreenPin, @, green),
            !.pin[YellowPin] = written(YellowPin, @, yellow),
            !.pin[RedPin] = written(RedPin, @, red)]

\* Yellow says that the box is enabled.
lightEnabled(b) ==
  [b EXCEPT !.pin[YellowPin] = written(YellowPin, @, "HIGH"),
            !.pin[RedPin] = written(RedPin, @, "LOW")]

\* The level written for a blinking LED.  Nothing toggles it between refreshes.
blinkLevel(b) == IF b.blink THEN "HIGH" ELSE "LOW"

\* The show...Leds procedures, by the state they are called for.
showLeds(b) ==
  CASE b.state \in {"IDLE", "STOP", "FINISHED"} -> setLeds(b, "LOW", blinkLevel(b), "LOW")
    [] b.state \in {"CONNECTED", "IDENTIFICATION", "READY"} ->
         setLeds(b, blinkLevel(b), "HIGH", "LOW")
    [] b.state = "CHARGING" -> setLeds(b, "HIGH", "HIGH", "LOW")
    [] b.state \in {"OFF", "ERROR"} -> setLeds(b, "LOW", "LOW", "HIGH")

\* Variant: the refresh writes the relay's line past setRelayState.
updateLedsRawWrite(b) ==
  IF ~b.enabled THEN setRelayState(setLeds(b, "LOW", "LOW", "HIGH"), FALSE)
  ELSE showLeds([lightEnabled(b) EXCEPT !.pin[b.relayPin] = written(b.relayPin, @, "HIGH")])

updateLeds(b) ==
  IF ~b.enabled THEN setRelayState(setLeds(b, "LOW", "LOW", "HIGH"), FALSE)
  ELSE LET lit == lightEnabled(b)
       IN  showLeds(IF lit.relay THEN lit ELSE setRelayState(lit, TRUE))

-----------------------------------------------------------------------------
(***************************************************************************)
(* The state machine, with onStateChange as its listener.  Called one at a *)
(* time, each transition of a chain is legal from the one before, so &&    *)
(* never cuts a chain short (ChargingThreads has the rest).                *)
(***************************************************************************)
transitionTo(b, s) ==
  IF b.state = s \/ ~isValidTransition(b.state, s) THEN b
  ELSE updateLeds([b EXCEPT !.state = s])

smStart(b) ==
  CASE b.state = "IDLE" ->
         transitionTo(transitionTo(transitionTo(transitionTo(b,
           "CONNECTED"), "IDENTIFICATION"), "READY"), "CHARGING")
    [] b.state = "CONNECTED" ->
         transitionTo(transitionTo(transitionTo(b, "IDENTIFICATION"), "READY"), "CHARGING")
    [] b.state = "IDENTIFICATION" -> transitionTo(transitionTo(b, "READY"), "CHARGING")
    [] b.state = "READY" -> transitionTo(b, "CHARGING")
    [] OTHER -> b

smStop(b) ==
  IF b.state \in {"CHARGING", "READY"}
  THEN transitionTo(transitionTo(transitionTo(b, "STOP"), "FINISHED"), "IDLE")
  ELSE b

-----------------------------------------------------------------------------
(***************************************************************************)
(* The public calls, made by the console and by the HTTP handlers.         *)
(***************************************************************************)
startCharging(b) ==
  IF b.enabled /\ b.state \in {"IDLE", "CONNECTED", "IDENTIFICATION", "READY"}
  THEN setRelayState(smStart(b), TRUE) ELSE b

stopCharging(b) ==
  IF b.enabled /\ b.state \in {"CHARGING", "READY"}
  THEN setRelayState(smStop(b), FALSE) ELSE b

\* Variant: pause winds the session down instead of keeping it.
pauseChargingStops(b) ==
  IF b.enabled /\ b.state = "CHARGING" THEN transitionTo(b, "STOP") ELSE b

pauseCharging(b) ==
  IF b.enabled /\ b.state = "CHARGING" THEN transitionTo(b, "READY") ELSE b

\* Variant: resume does not look whether the box is enabled.
resumeChargingUnguarded(b) ==
  IF b.state = "READY" THEN transitionTo(b, "CHARGING") ELSE b

resumeCharging(b) ==
  IF b.enabled /\ b.state = "READY" THEN transitionTo(b, "CHARGING") ELSE b

stopIfCharging(b) == IF b.state = "CHARGING" THEN stopCharging(b) ELSE b

enableWallbox(b) ==
  updateLeds(setRelayState([b EXCEPT !.enabled = TRUE], TRUE))

\* Variant: the flag is cleared first, and the stop that follows finds the box
\* disabled.
disableWallboxFlagFirst(b) ==
  updateLeds(setRelayState(stopIfCharging([b EXCEPT !.enabled = FALSE]), FALSE))

\* Variant: the LEDs are not refreshed.
disableWallboxNoRefresh(b) ==
  setRelayState([stopIfCharging(b) EXCEPT !.enabled = FALSE], FALSE)

disableWallbox(b) ==
  LET stopped == stopIfCharging(b)
  IN  updateLeds(setRelayState([stopped EXCEPT !.enabled = FALSE], FALSE))

\* setrelay only changes the configuration: no line is written, the new one is
\* not set up.
setRelayPin(b, p) == [b EXCEPT !.relayPin = p]

-----------------------------------------------------------------------------
(***************************************************************************)
(* processNetworkMessage: the edges of a message against the last one, in  *)
(* the order enable, state, contactor.                                     *)
(***************************************************************************)
applyEnable(b, m) ==
  IF m.enable = last.enable \/ m.enable = b.enabled THEN b
  ELSE IF m.enable THEN enableWallbox(b) ELSE disableWallbox(b)

\* Variant: `charging' also goes on with a paused session.
applyStateResumes(b, m) ==
  IF m.state = last.state THEN b
  ELSE CASE m.state = "idle"     -> smStop(b)
         [] m.state = "charging" -> IF b.state \in {"IDLE", "READY"} /\ b.enabled
                                    THEN smStart(b) ELSE b
         [] m.state = "stop"     -> IF b.state = "CHARGING" THEN smStop(b) ELSE b
         [] OTHER                -> b

\* Variant: `idle', like `stop', ends a session only while it charges.
applyStateIdleCharging(b, m) ==
  IF m.state = last.state THEN b
  ELSE CASE m.state = "charging" -> IF b.state = "IDLE" /\ last.state = "ready" /\ b.enabled
                                    THEN smStart(b) ELSE b
         [] m.state \in {"idle", "stop"} -> IF b.state = "CHARGING" THEN smStop(b) ELSE b
         [] OTHER                -> b

\* `ready' is only acknowledged; states the switch does not name do nothing.
applyState(b, m) ==
  IF m.state = last.state THEN b
  ELSE CASE m.state = "idle"     -> smStop(b)
         [] m.state = "charging" -> IF /\ b.relay
                                       /\ b.state = "IDLE"
                                       /\ last.state = "ready"
                                       /\ b.enabled
                                    THEN smStart(b) ELSE b
         [] m.state = "stop"     -> IF b.state = "CHARGING" THEN smStop(b) ELSE b
         [] OTHER                -> b

applyContactor(b, m) ==
  IF \/ m.contactor = last.contactor
     \/ m.contactor /\ ~b.enabled
     \/ m.contactor = b.relay
  THEN b ELSE setRelayState(b, m.contactor)

status(b) == [ demand |-> Demand[b.state], enable |-> b.enabled, contactor |-> b.relay ]

(***************************************************************************)
(* onCpStateChange: B and C, and levels that find the machine elsewhere,   *)
(* have no effect.  F stops the session when the box is enabled and enters *)
(* the error state either way.                                             *)
(***************************************************************************)
mapCpState(b, s) ==
  CASE s \in {"STATE_A", "STATE_E"} -> stopIfCharging(b)
    [] s = "STATE_D" -> IF b.state = "READY" THEN startCharging(b) ELSE b
    [] s = "STATE_F" -> IF b.state # "ERROR"
                        THEN transitionTo(stopCharging(b), "ERROR") ELSE b
    [] OTHER -> b

-----------------------------------------------------------------------------
(***************************************************************************)
(* A process starts with fresh members on lines that keep their levels.    *)
(***************************************************************************)
setupGpio(pin) ==
  LET new == [ state |-> "IDLE", enabled |-> TRUE, relay |-> TRUE,
               relayPin |-> RelayPin, pin |-> pin, blink |-> FALSE ]
  IN  [setLeds(new, "LOW", "LOW", "LOW") EXCEPT
         !.pin[RelayPin] = written(RelayPin, @, "HIGH")]

\* Variant: shutdown trusts the stop to open the relay.
turnOffStopsOnly(b) == stopIfCharging(b)

turnOff(b) == setRelayState(stopIfCharging(b), FALSE)

FirstLast == [state |-> "idle", contactor |-> FALSE, enable |-> TRUE]

NothingSent == [demand |-> 0, enable |-> FALSE, contactor |-> FALSE]

Init ==
  /\ box = updateLeds(setupGpio([p \in Pin |-> "LOW"]))
  /\ last = FirstLast
  /\ sent = NothingSent
  /\ cp = "UNKNOWN"
  /\ process = "up"

\* A call of the console or of an HTTP handler.
Handle(b) ==
  /\ process = "up"
  /\ box' = b
  /\ UNCHANGED <<last, sent, cp, process>>

Start == Handle(startCharging(box))
Stop == Handle(stopCharging(box))
Pause == Handle(pauseCharging(box))
Resume == Handle(resumeCharging(box))
Enable == Handle(enableWallbox(box))
Disable == Handle(disableWallbox(box))
SetRelayPin == \E p \in SettablePins : Handle(setRelayPin(box, p))

\* Enough time passes since the last toggle for the next refresh to toggle.
Elapse ==
  /\ process = "up"
  /\ box' = [box EXCEPT !.blink = ~@]
  /\ UNCHANGED <<last, sent, cp, process>>

\* Variant: the contactor edge is applied first.
hearContactorFirst(m) ==
  /\ process = "up"
  /\ m # last
  /\ box' = applyState(applyEnable(applyContactor(box, m), m), m)
  /\ last' = m
  /\ sent' = status(box')
  /\ UNCHANGED <<cp, process>>

\* Variant: the status is sent before the message is applied.
hearAnswersFirst(m) ==
  /\ process = "up"
  /\ m # last
  /\ box' = applyContactor(applyState(applyEnable(box, m), m), m)
  /\ last' = m
  /\ sent' = status(box)
  /\ UNCHANGED <<cp, process>>

\* A message with no edge changes nothing and is not answered.
processNetworkMessage(m) ==
  /\ process = "up"
  /\ m # last
  /\ box' = applyContactor(applyState(applyEnable(box, m), m), m)
  /\ last' = m
  /\ sent' = status(box')
  /\ UNCHANGED <<cp, process>>

Receive ==
  \E m \in [ state : IsoStates, contactor : BOOLEAN, enable : EnableCmds ] :
    processNetworkMessage(m)

CpChange ==
  /\ process = "up"
  /\ \E s \in CpInputs \ {cp} :
       /\ cp' = s
       /\ box' = mapCpState(box, s)
  /\ UNCHANGED <<last, sent, process>>

Shutdown ==
  /\ process = "up"
  /\ box' = turnOff(box)
  /\ process' = "stopped"
  /\ UNCHANGED <<last, sent, cp>>

\* The process dies without running its destructors.
Crash ==
  /\ process = "up"
  /\ process' = "crashed"
  /\ UNCHANGED <<box, last, sent, cp>>

Restart ==
  /\ process # "up"
  /\ \/ /\ box' = updateLeds(setupGpio(box.pin))
        /\ process' = "up"
     \* The network or the CP reader cannot be opened: initialize fails after
     \* setupGpio and the destructor shuts the controller down.
     \/ /\ box' = turnOff(setupGpio(box.pin))
        /\ process' = "stopped"
  /\ last' = FirstLast
  /\ sent' = NothingSent
  /\ cp' = "UNKNOWN"

Next ==
  \/ Start
  \/ Stop
  \/ Pause
  \/ Resume
  \/ Enable
  \/ Disable
  \/ SetRelayPin
  \/ Elapse
  \/ Receive
  \/ CpChange
  \/ Shutdown
  \/ Crash
  \/ Restart

Spec == Init /\ [][Next]_vars

-----------------------------------------------------------------------------
TypeOK ==
  /\ box \in Box
  /\ last \in [state : IsoStates \cup {"idle"}, contactor : BOOLEAN, enable : BOOLEAN]
  /\ sent \in [demand : 0..160, enable : BOOLEAN, contactor : BOOLEAN]
  /\ cp \in CpState
  /\ process \in {"up", "stopped", "crashed"}

Up == process = "up"

(***************************************************************************)
(* A disabled box carries no power and no session that draws it: whatever  *)
(* console, network and CP do, the line of the relay is low, the flag says *)
(* so, and the machine is not in CHARGING.                                 *)
(***************************************************************************)
DisabledIsDead ==
  Up /\ ~box.enabled => /\ box.pin[box.relayPin] = "LOW"
                        /\ ~box.relay
                        /\ box.state # "CHARGING"

(***************************************************************************)
(* A disabled box never charges, also after its relay line was renamed.    *)
(***************************************************************************)
DisabledNeverCharges == Up /\ ~box.enabled => box.state # "CHARGING"

(***************************************************************************)
(* m_relayEnabled, which status and guards read, is the level of the line. *)
(***************************************************************************)
RelayFlagIsLevel == Up => (box.relay <=> box.pin[box.relayPin] = "HIGH")

(***************************************************************************)
(* What the LEDs tell, blinking or not: red exactly, and then red alone,   *)
(* when the box is disabled or in error; otherwise yellow is on from the   *)
(* vehicle's arrival on, green never without a vehicle, and both while     *)
(* charging.  The two that blink stay as the last refresh left them: an    *)
(* idle box may be dark and a paused session look like a charging one.     *)
(***************************************************************************)
LedsTellState ==
  Up => LET fault  == ~box.enabled \/ box.state = "ERROR"
            absent == box.state \in {"IDLE", "STOP", "FINISHED"}
            on(p)  == box.pin[p] = "HIGH"
        IN  /\ on(RedPin) <=> fault
            /\ fault => ~on(YellowPin) /\ ~on(GreenPin)
            /\ ~fault /\ ~absent => on(YellowPin)
            /\ on(GreenPin) => ~absent
            /\ ~fault /\ box.state = "CHARGING" => on(GreenPin)

(***************************************************************************)
(* An orderly end of the program, a failed start included, leaves the      *)
(* relay off.  Shutdown is one step here; taken in its real steps, with    *)
(* the receive thread between them, it does not always (module Lifecycle). *)
(***************************************************************************)
StoppedIsOff == process = "stopped" => box.pin[RelayPin] = "LOW"

(***************************************************************************)
(* A message that withdraws the contactor leaves the relay open, whatever  *)
(* enable or state edge it carries along: those edges refresh the LEDs,    *)
(* and a refresh closes the relay of an enabled box.                       *)
(***************************************************************************)
WithdrawnContactorOpens ==
  [][Up /\ process' = "up" /\ last.contactor /\ ~last'.contactor => ~box'.relay]_vars

(***************************************************************************)
(* A paused session goes on by a call of the user, never by a message:     *)
(* `charging' from the peer starts a session only out of IDLE.             *)
(***************************************************************************)
MessagesNeverResume ==
  [][box.state = "READY" /\ box'.state = "CHARGING" => last' = last]_vars

(***************************************************************************)
(* The status a message is answered with is the one after the whole        *)
(* message: the contactor it reports is the level of the line and the      *)
(* demand says whether the box charges.                                    *)
(***************************************************************************)
AnswersAreCurrent ==
  [][Up /\ last' # last
       => /\ sent'.contactor = (box'.pin[box'.relayPin] = "HIGH")
          /\ sent'.enable = box'.enabled
          /\ (sent'.demand = 160) <=> (box'.state = "CHARGING")]_vars

(***************************************************************************)
(* The state machine inside the controller keeps the promise of its class. *)
(***************************************************************************)
Machine == INSTANCE ChargingStateMachine WITH currentState <- box.state

ImplementsStateMachine == Machine!Spec

-----------------------------------------------------------------------------
(* What the repository's documents say and the code does not do. *)

(***************************************************************************)
(* Disconnecting the plug, the CP level A, resets the error.               *)
(***************************************************************************)
UnplugResets ==
  [][Up /\ box.state = "ERROR" /\ cp # "STATE_A" /\ cp' = "STATE_A"
       => box'.state # "ERROR"]_vars
=============================================================================
