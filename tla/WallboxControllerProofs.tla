----------------------- MODULE WallboxControllerProofs -----------------------
(***************************************************************************)
(* What the handlers of WallboxController keep for every set of lines,     *)
(* peers and CP levels.  Each procedure gets a lemma that says what it     *)
(* does to the record; the handlers follow by composition.                 *)
(***************************************************************************)
EXTENDS WallboxController, TLAPS

\* The relay's flag and its line, on the line the configuration names.
Wired(b) == b.relayPin = RelayPin /\ b.pin[RelayPin] = RelayLevel(b.relay)

\* A charging machine belongs to an enabled box.
Guarded(b) == b.state = "CHARGING" => b.enabled

\* What no refresh and no write to the relay changes.
SameControl(b, c) ==
  c \in Box /\ c.state = b.state /\ c.enabled = b.enabled /\ c.relayPin = b.relayPin

-----------------------------------------------------------------------------
(***************************************************************************)
(* setRelayState touches the named line and the flag, nothing else.        *)
(***************************************************************************)
LEMMA SetRelay ==
  ASSUME NEW b \in Box, NEW on \in BOOLEAN
  PROVE  /\ SameControl(b, setRelayState(b, on))
         /\ b.relayPin = RelayPin /\ RelayPin \in WritablePins
              => Wired(setRelayState(b, on)) /\ setRelayState(b, on).relay = on
<1>1. CASE b.relayPin \in WritablePins
  <2> DEFINE c == [b EXCEPT !.pin[b.relayPin] = RelayLevel(on), !.relay = on]
  <2>1. setRelayState(b, on) = c
    BY <1>1 DEF setRelayState
  <2>2. /\ c \in Box /\ c.state = b.state /\ c.enabled = b.enabled
        /\ c.relayPin = b.relayPin /\ c.relay = on
        /\ c.pin[b.relayPin] = RelayLevel(on)
    BY DEF Box, RelayLevel, Level
  <2>3. QED
    BY <2>1, <2>2 DEF SameControl, Wired
<1>2. CASE b.relayPin \notin WritablePins
  BY <1>2 DEF setRelayState, SameControl
<1>3. QED
  BY <1>1, <1>2

(***************************************************************************)
(* The LEDs are on lines of their own.                                     *)
(***************************************************************************)
LEMMA SetLeds ==
  ASSUME NEW b \in Box, NEW g \in Level, NEW y \in Level, NEW r \in Level
  PROVE  /\ SameControl(b, setLeds(b, g, y, r))
         /\ setLeds(b, g, y, r).relay = b.relay
         /\ setLeds(b, g, y, r).pin[RelayPin] = b.pin[RelayPin]
<1> DEFINE c == setLeds(b, g, y, r)
           dark == [b.pin EXCEPT ![GreenPin] = written(GreenPin, @, g),
                                 ![YellowPin] = written(YellowPin, @, y),
                                 ![RedPin] = written(RedPin, @, r)]
<1>1. b.pin \in [Pin -> Level]
  BY DEF Box
<1>2. dark \in [Pin -> Level] /\ dark[RelayPin] = b.pin[RelayPin]
  BY <1>1, PinsAssumption DEF written
<1> HIDE DEF dark
<1>3. c = [b EXCEPT !.pin = dark]
  BY DEF setLeds, dark, Box
<1>4. QED
  BY <1>2, <1>3 DEF Box, SameControl

(***************************************************************************)
(* The first writes of a refresh are to LEDs as well.                      *)
(***************************************************************************)
LEMMA LightEnabled ==
  ASSUME NEW b \in Box
  PROVE  /\ SameControl(b, lightEnabled(b))
         /\ lightEnabled(b).relay = b.relay
         /\ lightEnabled(b).pin[RelayPin] = b.pin[RelayPin]
<1> DEFINE lit == [b.pin EXCEPT ![YellowPin] = written(YellowPin, @, "HIGH"),
                                ![RedPin] = written(RedPin, @, "LOW")]
<1>1. b.pin \in [Pin -> Level]
  BY DEF Box
<1>2. lit \in [Pin -> Level] /\ lit[RelayPin] = b.pin[RelayPin]
  BY <1>1, PinsAssumption DEF written, Level
<1> HIDE DEF lit
<1>3. lightEnabled(b) = [b EXCEPT !.pin = lit]
  BY DEF lightEnabled, lit, Box
<1>4. QED
  BY <1>2, <1>3 DEF Box, SameControl

(***************************************************************************)
(* The show...Leds procedures write LEDs only: whatever the state, the     *)
(* relay and its line stay.                                                *)
(***************************************************************************)
LEMMA ShowLeds ==
  ASSUME NEW b \in Box
  PROVE  /\ SameControl(b, showLeds(b))
         /\ showLeds(b).relay = b.relay
         /\ showLeds(b).pin[RelayPin] = b.pin[RelayPin]
<1>1. PICK g \in Level, y \in Level, r \in Level : showLeds(b) = setLeds(b, g, y, r)
  <2>1. b.state \in ChargingState
    BY DEF Box
  <2>2. \/ showLeds(b) = setLeds(b, "LOW", blinkLevel(b), "LOW")
        \/ showLeds(b) = setLeds(b, blinkLevel(b), "HIGH", "LOW")
        \/ showLeds(b) = setLeds(b, "HIGH", "HIGH", "LOW")
        \/ showLeds(b) = setLeds(b, "LOW", "LOW", "HIGH")
    BY <2>1 DEF showLeds, ChargingState
  <2>3. blinkLevel(b) \in Level
    BY DEF blinkLevel, Level
  <2>4. QED
    BY <2>2, <2>3 DEF Level
<1>2. QED
  BY <1>1, SetLeds

(***************************************************************************)
(* A refresh keeps the control and, on a relay line that can be written,   *)
(* leaves the relay on exactly when the box is enabled.                    *)
(***************************************************************************)
LEMMA UpdateLeds ==
  ASSUME NEW b \in Box
  PROVE  /\ SameControl(b, updateLeds(b))
         /\ Wired(b) /\ RelayPin \in WritablePins
              => Wired(updateLeds(b)) /\ updateLeds(b).relay = b.enabled
<1>1. CASE ~b.enabled
  <2> DEFINE c == setLeds(b, "LOW", "LOW", "HIGH")
  <2>1. /\ SameControl(b, c) /\ c.relay = b.relay
        /\ c.pin[RelayPin] = b.pin[RelayPin]
    BY SetLeds DEF Level
  <2>2. updateLeds(b) = setRelayState(c, FALSE)
    BY <1>1 DEF updateLeds
  <2>3. SameControl(c, setRelayState(c, FALSE))
    BY <2>1, SetRelay DEF SameControl
  <2>4. ASSUME Wired(b), RelayPin \in WritablePins
        PROVE  Wired(updateLeds(b)) /\ updateLeds(b).relay = FALSE
    BY <2>1, <2>2, <2>4, SetRelay DEF SameControl, Wired
  <2> HIDE DEF c
  <2>5. b.enabled = FALSE
    BY <1>1 DEF Box
  <2>6. SameControl(b, updateLeds(b))
    BY <2>1, <2>2, <2>3 DEF SameControl
  <2>7. QED
    BY <2>4, <2>5, <2>6
<1>2. CASE b.enabled
  <2> DEFINE lit == lightEnabled(b)
             powered == IF lit.relay THEN lit ELSE setRelayState(lit, TRUE)
  <2>1. /\ SameControl(b, lit) /\ lit.relay = b.relay
        /\ lit.pin[RelayPin] = b.pin[RelayPin]
    BY LightEnabled
  <2>2. /\ SameControl(lit, powered)
        /\ Wired(b) /\ RelayPin \in WritablePins => Wired(powered) /\ powered.relay
    <3>1. CASE lit.relay
      <4>1. powered = lit
        BY <3>1
      <4>2. QED
        BY <2>1, <3>1, <4>1 DEF SameControl, Wired
    <3>2. CASE ~lit.relay
      <4>1. powered = setRelayState(lit, TRUE)
        BY <3>2
      <4>2. lit \in Box /\ (Wired(b) => lit.relayPin = RelayPin)
        BY <2>1 DEF SameControl, Wired
      <4>3. QED
        BY <4>1, <4>2, SetRelay
    <3>3. QED
      BY <3>1, <3>2
  <2>3. powered \in Box
    BY <2>2 DEF SameControl
  <2>4. updateLeds(b) = showLeds(powered)
    BY <1>2 DEF updateLeds
  <2> HIDE DEF lit, powered
  <2>5. /\ SameControl(powered, showLeds(powered))
        /\ showLeds(powered).relay = powered.relay
        /\ showLeds(powered).pin[RelayPin] = powered.pin[RelayPin]
    BY <2>3, ShowLeds
  <2>6. SameControl(b, updateLeds(b))
    BY <2>1, <2>2, <2>4, <2>5 DEF SameControl
  <2>7. ASSUME Wired(b), RelayPin \in WritablePins
        PROVE  Wired(updateLeds(b)) /\ updateLeds(b).relay = b.enabled
    <3>1. Wired(powered) /\ powered.relay
      BY <2>2, <2>7
    <3>2. powered.relay \in BOOLEAN /\ b.enabled \in BOOLEAN
      BY <2>3 DEF Box
    <3>3. updateLeds(b).relay = powered.relay /\ Wired(updateLeds(b))
      BY <2>4, <2>5, <3>1 DEF Wired, SameControl
    <3>4. QED
      BY <1>2, <3>1, <3>2, <3>3
  <2>8. QED
    BY <2>6, <2>7
<1>3. QED
  BY <1>1, <1>2

-----------------------------------------------------------------------------
\* The relay is on its line, and off when the box is disabled.
Sound(b) == Wired(b) /\ (b.relay => b.enabled)

\* What the state machine's calls keep of the box.
Keeps(b, c) ==
  /\ c \in Box
  /\ c.enabled = b.enabled
  /\ c.relayPin = b.relayPin
  /\ RelayPin \in WritablePins /\ Sound(b) => Sound(c)

(***************************************************************************)
(* A transition moves the state when it is legal and refreshes the LEDs.   *)
(***************************************************************************)
LEMMA Transition ==
  ASSUME NEW b \in Box, NEW s \in ChargingState
  PROVE  /\ Keeps(b, transitionTo(b, s))
         /\ transitionTo(b, s).state =
              IF isValidTransition(b.state, s) THEN s ELSE b.state
<1>1. CASE b.state = s \/ ~isValidTransition(b.state, s)
  <2>1. transitionTo(b, s) = b
    BY <1>1 DEF transitionTo
  <2>2. QED
    BY <1>1, <2>1 DEF Keeps
<1>2. CASE b.state # s /\ isValidTransition(b.state, s)
  <2> DEFINE c == [b EXCEPT !.state = s]
  <2>1. /\ c \in Box /\ c.state = s /\ c.enabled = b.enabled
        /\ c.relayPin = b.relayPin /\ c.relay = b.relay /\ c.pin = b.pin
    BY DEF Box
  <2>2. transitionTo(b, s) = updateLeds(c)
    BY <1>2 DEF transitionTo
  <2> HIDE DEF c
  <2>3. /\ SameControl(c, updateLeds(c))
        /\ Wired(c) /\ RelayPin \in WritablePins
             => Wired(updateLeds(c)) /\ updateLeds(c).relay = c.enabled
    BY <2>1, UpdateLeds
  <2>4. Sound(b) => Wired(c)
    BY <2>1 DEF Sound, Wired
  <2>5. QED
    BY <1>2, <2>1, <2>2, <2>3, <2>4 DEF Keeps, Sound, SameControl
<1>3. QED
  BY <1>1, <1>2

(***************************************************************************)
(* What two calls of a chain keep, the chain keeps.                        *)
(***************************************************************************)
LEMMA KeepsTransitive ==
  ASSUME NEW b, NEW c, NEW d, Keeps(b, c), Keeps(c, d)
  PROVE  Keeps(b, d)
  BY DEF Keeps

(***************************************************************************)
(* A call that returns at its first test keeps everything.                 *)
(***************************************************************************)
LEMMA KeepsReflexive ==
  ASSUME NEW b \in Box
  PROVE  Keeps(b, b)
  BY DEF Keeps

(***************************************************************************)
(* stopCharging of the state machine ends a session in IDLE and leaves any *)
(* other state alone.                                                      *)
(***************************************************************************)
LEMMA SmStop ==
  ASSUME NEW b \in Box
  PROVE  /\ Keeps(b, smStop(b))
         /\ smStop(b).state = IF b.state \in {"CHARGING", "READY"} THEN "IDLE" ELSE b.state
<1>1. CASE b.state \in {"CHARGING", "READY"}
  <2> DEFINE c == transitionTo(b, "STOP")
             d == transitionTo(c, "FINISHED")
             e == transitionTo(d, "IDLE")
  <2>1. smStop(b) = e
    BY <1>1 DEF smStop
  <2>2. Keeps(b, c) /\ c.state = "STOP" /\ c \in Box
    BY <1>1, Transition DEF Keeps, ChargingState, isValidTransition, Successors
  <2> HIDE DEF c
  <2>3. Keeps(c, d) /\ d.state = "FINISHED" /\ d \in Box
    BY <2>2, Transition DEF Keeps, ChargingState, isValidTransition, Successors
  <2> HIDE DEF d
  <2>4. Keeps(d, e) /\ e.state = "IDLE" /\ e \in Box
    BY <2>3, Transition DEF Keeps, ChargingState, isValidTransition, Successors
  <2> HIDE DEF e
  <2>5. Keeps(b, e)
    BY <2>2, <2>3, <2>4, KeepsTransitive
  <2>6. QED
    BY <1>1, <2>1, <2>4, <2>5
<1>2. CASE b.state \notin {"CHARGING", "READY"}
  BY <1>2, KeepsReflexive DEF smStop
<1>3. QED
  BY <1>1, <1>2

(***************************************************************************)
(* startCharging of the state machine charges or changes nothing.          *)
(***************************************************************************)
LEMMA SmStart ==
  ASSUME NEW b \in Box
  PROVE  /\ Keeps(b, smStart(b))
         /\ smStart(b).state =
              IF b.state \in {"IDLE", "CONNECTED", "IDENTIFICATION", "READY"}
              THEN "CHARGING" ELSE b.state
<1>1. ASSUME NEW c \in Box, c.state = "READY"
      PROVE  /\ Keeps(c, transitionTo(c, "CHARGING"))
             /\ transitionTo(c, "CHARGING").state = "CHARGING"
  BY <1>1, Transition DEF ChargingState, isValidTransition, Successors
<1>2. ASSUME NEW c \in Box, c.state = "IDENTIFICATION"
      PROVE  /\ Keeps(c, transitionTo(transitionTo(c, "READY"), "CHARGING"))
             /\ transitionTo(transitionTo(c, "READY"), "CHARGING").state = "CHARGING"
  <2> DEFINE d == transitionTo(c, "READY")
  <2>1. Keeps(c, d) /\ d.state = "READY" /\ d \in Box
    BY <1>2, Transition DEF Keeps, ChargingState, isValidTransition, Successors
  <2> HIDE DEF d
  <2>2. Keeps(d, transitionTo(d, "CHARGING")) /\ transitionTo(d, "CHARGING").state = "CHARGING"
    BY <1>1, <2>1
  <2>3. Keeps(c, transitionTo(d, "CHARGING"))
    BY <2>1, <2>2, KeepsTransitive
  <2>4. QED
    BY <2>2, <2>3 DEF d
<1>3. ASSUME NEW c \in Box, c.state = "CONNECTED"
      PROVE  LET d == transitionTo(transitionTo(transitionTo(c,
                        "IDENTIFICATION"), "READY"), "CHARGING")
             IN  Keeps(c, d) /\ d.state = "CHARGING"
  <2> DEFINE d == transitionTo(c, "IDENTIFICATION")
             e == transitionTo(transitionTo(d, "READY"), "CHARGING")
  <2>1. Keeps(c, d) /\ d.state = "IDENTIFICATION" /\ d \in Box
    BY <1>3, Transition DEF Keeps, ChargingState, isValidTransition, Successors
  <2> HIDE DEF d
  <2>2. Keeps(d, e) /\ e.state = "CHARGING"
    BY <1>2, <2>1
  <2> HIDE DEF e
  <2>3. Keeps(c, e)
    BY <2>1, <2>2, KeepsTransitive
  <2>4. QED
    BY <2>2, <2>3 DEF d, e
<1>4. CASE b.state = "IDLE"
  <2> DEFINE d == transitionTo(b, "CONNECTED")
             e == transitionTo(transitionTo(transitionTo(d,
                    "IDENTIFICATION"), "READY"), "CHARGING")
  <2>1. Keeps(b, d) /\ d.state = "CONNECTED" /\ d \in Box
    BY <1>4, Transition DEF Keeps, ChargingState, isValidTransition, Successors
  <2>2. smStart(b) = e
    BY <1>4 DEF smStart
  <2> HIDE DEF d
  <2>3. Keeps(d, e) /\ e.state = "CHARGING"
    BY <1>3, <2>1
  <2> HIDE DEF e
  <2>4. Keeps(b, e)
    BY <2>1, <2>3, KeepsTransitive
  <2>5. QED
    BY <1>4, <2>2, <2>3, <2>4
<1>5. CASE b.state = "CONNECTED"
  BY <1>3, <1>5 DEF smStart
<1>6. CASE b.state = "IDENTIFICATION"
  BY <1>2, <1>6 DEF smStart
<1>7. CASE b.state = "READY"
  BY <1>1, <1>7 DEF smStart
<1>8. CASE b.state \notin {"IDLE", "CONNECTED", "IDENTIFICATION", "READY"}
  BY <1>8, KeepsReflexive DEF smStart
<1>9. QED
  BY <1>4, <1>5, <1>6, <1>7, <1>8

-----------------------------------------------------------------------------
\* What a handler keeps of the box: a charging box stays enabled, and with a
\* relay line that can be written the relay stays sound.
Serves(b, c) ==
  /\ c \in Box
  /\ c.relayPin = b.relayPin
  /\ Guarded(b) => Guarded(c)
  /\ RelayPin \in WritablePins /\ Sound(b) => Sound(c)

(***************************************************************************)
(* What two calls of a handler serve, the handler serves.                  *)
(***************************************************************************)
LEMMA ServesTransitive ==
  ASSUME NEW b, NEW c, NEW d, Serves(b, c), Serves(c, d)
  PROVE  Serves(b, d)
  BY DEF Serves

(***************************************************************************)
(* A handler that returns at its guard serves.                             *)
(***************************************************************************)
LEMMA ServesReflexive ==
  ASSUME NEW b \in Box
  PROVE  Serves(b, b)
  BY DEF Serves

(***************************************************************************)
(* The relay may be switched off any time, and on when the box is enabled. *)
(***************************************************************************)
LEMMA SetRelayServes ==
  ASSUME NEW b \in Box, NEW on \in BOOLEAN, on => b.enabled
  PROVE  /\ Serves(b, setRelayState(b, on))
         /\ setRelayState(b, on).state = b.state
         /\ setRelayState(b, on).enabled = b.enabled
  BY SetRelay DEF Serves, SameControl, Guarded, Sound, Wired

(***************************************************************************)
(* A call of the state machine serves when it charges only an enabled box. *)
(***************************************************************************)
LEMMA KeepsServes ==
  ASSUME NEW b \in Box, NEW c, Keeps(b, c),
         c.state = "CHARGING" => b.enabled \/ b.state = "CHARGING"
  PROVE  Serves(b, c)
  BY DEF Keeps, Serves, Guarded

(***************************************************************************)
(* startCharging charges an enabled box that can be started, and changes   *)
(* the state of no other.                                                  *)
(***************************************************************************)
LEMMA StartServes ==
  ASSUME NEW b \in Box
  PROVE  /\ Serves(b, startCharging(b))
         /\ startCharging(b).enabled = b.enabled
         /\ startCharging(b).state =
              IF b.enabled /\ b.state \in {"IDLE", "CONNECTED", "IDENTIFICATION", "READY"}
              THEN "CHARGING" ELSE b.state
<1>1. CASE b.enabled /\ b.state \in {"IDLE", "CONNECTED", "IDENTIFICATION", "READY"}
  <2> DEFINE c == smStart(b)
  <2>1. Keeps(b, c) /\ c.state = "CHARGING" /\ c \in Box
    BY <1>1, SmStart DEF Keeps
  <2>2. startCharging(b) = setRelayState(c, TRUE)
    BY <1>1 DEF startCharging
  <2>3. Serves(b, c)
    BY <1>1, <2>1, KeepsServes
  <2> HIDE DEF c
  <2>4. c.enabled = b.enabled /\ c.enabled
    BY <1>1, <2>1 DEF Keeps
  <2>5. /\ Serves(c, setRelayState(c, TRUE))
        /\ setRelayState(c, TRUE).state = c.state
        /\ setRelayState(c, TRUE).enabled = c.enabled
    BY <2>1, <2>4, SetRelayServes
  <2>6. QED
    BY <1>1, <2>1, <2>2, <2>3, <2>4, <2>5, ServesTransitive
<1>2. CASE ~(b.enabled /\ b.state \in {"IDLE", "CONNECTED", "IDENTIFICATION", "READY"})
  BY <1>2, ServesReflexive DEF startCharging
<1>3. QED
  BY <1>1, <1>2

(***************************************************************************)
(* stopCharging takes an enabled box out of its session, and changes the   *)
(* state of no other.                                                      *)
(***************************************************************************)
LEMMA StopServes ==
  ASSUME NEW b \in Box
  PROVE  /\ Serves(b, stopCharging(b))
         /\ stopCharging(b).enabled = b.enabled
         /\ stopCharging(b).state =
              IF b.enabled /\ b.state \in {"CHARGING", "READY"} THEN "IDLE" ELSE b.state
<1>1. CASE b.enabled /\ b.state \in {"CHARGING", "READY"}
  <2> DEFINE c == smStop(b)
  <2>1. Keeps(b, c) /\ c.state = "IDLE" /\ c \in Box
    BY <1>1, SmStop DEF Keeps
  <2>2. stopCharging(b) = setRelayState(c, FALSE)
    BY <1>1 DEF stopCharging
  <2>3. Serves(b, c)
    BY <1>1, <2>1, KeepsServes
  <2> HIDE DEF c
  <2>4. c.enabled = b.enabled
    BY <2>1 DEF Keeps
  <2>5. /\ Serves(c, setRelayState(c, FALSE))
        /\ setRelayState(c, FALSE).state = c.state
        /\ setRelayState(c, FALSE).enabled = c.enabled
    BY <2>1, SetRelayServes
  <2>6. QED
    BY <1>1, <2>1, <2>2, <2>3, <2>4, <2>5, ServesTransitive
<1>2. CASE ~(b.enabled /\ b.state \in {"CHARGING", "READY"})
  BY <1>2, ServesReflexive DEF stopCharging
<1>3. QED
  BY <1>1, <1>2

(***************************************************************************)
(* Stopping a charging box, as disable, shutdown and CP levels A and E do. *)
(***************************************************************************)
LEMMA StopIfChargingServes ==
  ASSUME NEW b \in Box
  PROVE  /\ Serves(b, stopIfCharging(b))
         /\ stopIfCharging(b).enabled = b.enabled
         /\ stopIfCharging(b).state =
              IF b.enabled /\ b.state = "CHARGING" THEN "IDLE" ELSE b.state
<1>1. CASE b.state = "CHARGING"
  BY <1>1, StopServes DEF stopIfCharging
<1>2. CASE b.state # "CHARGING"
  BY <1>2, ServesReflexive DEF stopIfCharging
<1>3. QED
  BY <1>1, <1>2

(***************************************************************************)
(* pauseCharging leaves CHARGING for READY.                                *)
(***************************************************************************)
LEMMA PauseServes ==
  ASSUME NEW b \in Box
  PROVE  /\ Serves(b, pauseCharging(b))
         /\ pauseCharging(b).state =
              IF b.enabled /\ b.state = "CHARGING" THEN "READY" ELSE b.state
<1>1. CASE b.enabled /\ b.state = "CHARGING"
  <2>1. /\ Keeps(b, transitionTo(b, "READY"))
        /\ transitionTo(b, "READY").state = "READY"
    BY <1>1, Transition DEF ChargingState, isValidTransition, Successors
  <2>2. QED
    BY <1>1, <2>1, KeepsServes DEF pauseCharging
<1>2. CASE ~(b.enabled /\ b.state = "CHARGING")
  BY <1>2, ServesReflexive DEF pauseCharging
<1>3. QED
  BY <1>1, <1>2

(***************************************************************************)
(* resumeCharging goes back to CHARGING, of an enabled box only.           *)
(***************************************************************************)
LEMMA ResumeServes ==
  ASSUME NEW b \in Box
  PROVE  /\ Serves(b, resumeCharging(b))
         /\ resumeCharging(b).state =
              IF b.enabled /\ b.state = "READY" THEN "CHARGING" ELSE b.state
<1>1. CASE b.enabled /\ b.state = "READY"
  <2>1. /\ Keeps(b, transitionTo(b, "CHARGING"))
        /\ transitionTo(b, "CHARGING").state = "CHARGING"
    BY <1>1, Transition DEF ChargingState, isValidTransition, Successors
  <2>2. QED
    BY <1>1, <2>1, KeepsServes DEF resumeCharging
<1>2. CASE ~(b.enabled /\ b.state = "READY")
  BY <1>2, ServesReflexive DEF resumeCharging
<1>3. QED
  BY <1>1, <1>2

-----------------------------------------------------------------------------
(***************************************************************************)
(* Enabling and disabling: the refresh after the relay was set agrees with *)
(* it, and the session of a charging box ends before the box is disabled.  *)
(***************************************************************************)
LEMMA EnableServes ==
  ASSUME NEW b \in Box
  PROVE  /\ Serves(b, enableWallbox(b))
         /\ enableWallbox(b).enabled
         /\ enableWallbox(b).state = b.state
<1> DEFINE c == [b EXCEPT !.enabled = TRUE]
           d == setRelayState(c, TRUE)
<1>1. /\ c \in Box /\ c.enabled /\ c.state = b.state /\ c.relayPin = b.relayPin
      /\ c.relay = b.relay /\ c.pin = b.pin
  BY DEF Box
<1>2. enableWallbox(b) = updateLeds(d)
  BY DEF enableWallbox
<1>3. Serves(b, c)
  BY <1>1 DEF Serves, Guarded, Sound, Wired
<1> HIDE DEF c
<1>4. Serves(c, d) /\ d.state = c.state /\ d.enabled = c.enabled /\ d \in Box
  BY <1>1, SetRelayServes DEF Serves
<1> HIDE DEF d
<1>5. Serves(d, updateLeds(d)) /\ SameControl(d, updateLeds(d))
  BY <1>4, UpdateLeds DEF Serves, SameControl, Guarded, Sound
<1>6. QED
  BY <1>1, <1>2, <1>3, <1>4, <1>5, ServesTransitive DEF SameControl

(***************************************************************************)
(* A box whose charging implies it was enabled is disabled out of the      *)
(* charging state, whatever it was doing.                                  *)
(***************************************************************************)
LEMMA DisableServes ==
  ASSUME NEW b \in Box, Guarded(b)
  PROVE  /\ Serves(b, disableWallbox(b))
         /\ ~disableWallbox(b).enabled
         /\ disableWallbox(b).state = IF b.state = "CHARGING" THEN "IDLE" ELSE b.state
<1> DEFINE c == stopIfCharging(b)
           d == [c EXCEPT !.enabled = FALSE]
           e == setRelayState(d, FALSE)
<1>1. disableWallbox(b) = updateLeds(e)
  BY DEF disableWallbox
<1>2. /\ Serves(b, c) /\ c \in Box
      /\ c.state = IF b.state = "CHARGING" THEN "IDLE" ELSE b.state
  BY StopIfChargingServes DEF Serves, Guarded
<1> HIDE DEF c
<1>3. /\ d \in Box /\ ~d.enabled /\ d.state = c.state /\ d.relayPin = c.relayPin
      /\ d.relay = c.relay /\ d.pin = c.pin /\ d.state # "CHARGING"
  BY <1>2 DEF Box
<1> HIDE DEF d
<1>4. /\ SameControl(d, e) /\ e \in Box
      /\ d.relayPin = RelayPin /\ RelayPin \in WritablePins => Wired(e) /\ e.relay = FALSE
  BY <1>3, SetRelay DEF SameControl
<1> HIDE DEF e
<1>5. /\ SameControl(e, updateLeds(e))
      /\ Wired(e) /\ RelayPin \in WritablePins
           => Wired(updateLeds(e)) /\ updateLeds(e).relay = e.enabled
  BY <1>4, UpdateLeds
<1>6. Serves(c, updateLeds(e))
  BY <1>3, <1>4, <1>5 DEF Serves, SameControl, Guarded, Sound, Wired
<1>7. QED
  BY <1>1, <1>2, <1>3, <1>4, <1>5, <1>6, ServesTransitive DEF SameControl

-----------------------------------------------------------------------------
(***************************************************************************)
(* The three edges of a message.                                           *)
(***************************************************************************)
LEMMA ApplyEnableServes ==
  ASSUME NEW b \in Box, Guarded(b), NEW m
  PROVE  Serves(b, applyEnable(b, m))
<1>1. applyEnable(b, m) \in {b, enableWallbox(b), disableWallbox(b)}
  BY DEF applyEnable
<1>2. QED
  BY <1>1, ServesReflexive, EnableServes, DisableServes

(***************************************************************************)
(* A state edge starts a session of an enabled box, or ends one.           *)
(***************************************************************************)
LEMMA ApplyStateServes ==
  ASSUME NEW b \in Box, NEW m
  PROVE  Serves(b, applyState(b, m))
<1>1. \/ applyState(b, m) = b
      \/ applyState(b, m) = smStop(b)
      \/ applyState(b, m) = smStart(b) /\ b.enabled
  BY DEF applyState
<1>2. Serves(b, smStop(b))
  BY SmStop, KeepsServes
<1>3. ASSUME b.enabled
      PROVE  Serves(b, smStart(b))
  BY <1>3, SmStart, KeepsServes
<1>4. QED
  BY <1>1, <1>2, <1>3, ServesReflexive

(***************************************************************************)
(* A contactor edge closes the relay of an enabled box only.               *)
(***************************************************************************)
LEMMA ApplyContactorServes ==
  ASSUME NEW b \in Box, NEW m, m.contactor \in BOOLEAN
  PROVE  Serves(b, applyContactor(b, m))
<1>1. \/ applyContactor(b, m) = b
      \/ /\ applyContactor(b, m) = setRelayState(b, m.contactor)
         /\ m.contactor => b.enabled
  BY DEF applyContactor
<1>2. QED
  BY <1>1, ServesReflexive, SetRelayServes

(***************************************************************************)
(* A whole message serves: its edges are applied one after the other.      *)
(***************************************************************************)
LEMMA MessageServes ==
  ASSUME NEW b \in Box, Guarded(b), NEW m, m.contactor \in BOOLEAN
  PROVE  Serves(b, applyContactor(applyState(applyEnable(b, m), m), m))
<1> DEFINE c == applyEnable(b, m)
           d == applyState(c, m)
<1>1. Serves(b, c) /\ c \in Box
  BY ApplyEnableServes DEF Serves
<1> HIDE DEF c
<1>2. Serves(c, d) /\ d \in Box
  BY <1>1, ApplyStateServes DEF Serves
<1> HIDE DEF d
<1>3. Serves(d, applyContactor(d, m))
  BY <1>2, ApplyContactorServes
<1>4. Serves(b, applyContactor(d, m))
  BY <1>1, <1>2, <1>3, ServesTransitive
<1>5. QED
  BY <1>4 DEF c, d

(***************************************************************************)
(* A CP level stops, starts or fails the session.                          *)
(***************************************************************************)
LEMMA MapCpStateServes ==
  ASSUME NEW b \in Box, NEW s
  PROVE  Serves(b, mapCpState(b, s))
<1> DEFINE c == stopCharging(b)
<1>1. mapCpState(b, s) \in {b, stopIfCharging(b), startCharging(b), transitionTo(c, "ERROR")}
  BY DEF mapCpState
<1>2. Serves(b, c) /\ c \in Box
  BY StopServes DEF Serves
<1> HIDE DEF c
<1>3. /\ Keeps(c, transitionTo(c, "ERROR"))
      /\ transitionTo(c, "ERROR").state = "CHARGING" => c.state = "CHARGING"
  BY <1>2, Transition DEF ChargingState
<1>4. Serves(c, transitionTo(c, "ERROR"))
  BY <1>2, <1>3, KeepsServes
<1>5. Serves(b, transitionTo(c, "ERROR"))
  BY <1>2, <1>4, ServesTransitive
<1>6. QED
  BY <1>1, <1>5, ServesReflexive, StopIfChargingServes, StartServes

(***************************************************************************)
(* turnOff opens the relay, and the line with it.                          *)
(***************************************************************************)
LEMMA TurnOffServes ==
  ASSUME NEW b \in Box
  PROVE  /\ Serves(b, turnOff(b))
         /\ turnOff(b).state =
              IF b.enabled /\ b.state = "CHARGING" THEN "IDLE" ELSE b.state
         /\ b.relayPin = RelayPin /\ RelayPin \in WritablePins
              => turnOff(b).pin[RelayPin] = "LOW"
<1> DEFINE c == stopIfCharging(b)
<1>1. /\ Serves(b, c) /\ c \in Box /\ c.relayPin = b.relayPin
      /\ c.state = IF b.enabled /\ b.state = "CHARGING" THEN "IDLE" ELSE b.state
  BY StopIfChargingServes DEF Serves
<1>2. turnOff(b) = setRelayState(c, FALSE)
  BY DEF turnOff
<1> HIDE DEF c
<1>3. Serves(c, setRelayState(c, FALSE)) /\ setRelayState(c, FALSE).state = c.state
  BY <1>1, SetRelayServes
<1>4. c.relayPin = RelayPin /\ RelayPin \in WritablePins
        => setRelayState(c, FALSE).pin[RelayPin] = "LOW"
  BY <1>1, SetRelay DEF Wired, RelayLevel
<1>5. QED
  BY <1>1, <1>2, <1>3, <1>4, ServesTransitive

(***************************************************************************)
(* Set-up of a fresh process makes an enabled box in IDLE whose relay is   *)
(* on, whatever the levels the lines were left with.                       *)
(***************************************************************************)
LEMMA SetupGpio ==
  ASSUME NEW pin \in [Pin -> Level]
  PROVE  /\ setupGpio(pin) \in Box
         /\ Guarded(setupGpio(pin))
         /\ setupGpio(pin).state = "IDLE" /\ setupGpio(pin).enabled
         /\ setupGpio(pin).relayPin = RelayPin
         /\ RelayPin \in WritablePins => Sound(setupGpio(pin))
<1> DEFINE new == [ state |-> "IDLE", enabled |-> TRUE, relay |-> TRUE,
                    relayPin |-> RelayPin, pin |-> pin, blink |-> FALSE ]
           dark == setLeds(new, "LOW", "LOW", "LOW")
           lit == [dark EXCEPT !.pin[RelayPin] = written(RelayPin, @, "HIGH")]
<1>1. new \in Box /\ new.state = "IDLE" /\ new.enabled /\ new.relay /\ new.relayPin = RelayPin
  BY PinsAssumption DEF Box, ChargingState
<1> HIDE DEF new
<1>2. SameControl(new, dark) /\ dark.relay = new.relay
  BY <1>1, SetLeds DEF Level
<1>3. setupGpio(pin) = lit
  BY DEF setupGpio, new
<1> HIDE DEF dark
<1>4. /\ lit \in Box /\ lit.state = "IDLE" /\ lit.enabled /\ lit.relay /\ lit.relayPin = RelayPin
      /\ RelayPin \in WritablePins => lit.pin[RelayPin] = "HIGH"
  BY <1>1, <1>2, PinsAssumption DEF SameControl, Box, written, Level
<1> HIDE DEF lit
<1>5. QED
  BY <1>3, <1>4 DEF Guarded, Sound, Wired, RelayLevel

-----------------------------------------------------------------------------
\* The inductive invariant for every choice of lines.
Inv == TypeOK /\ Guarded(box)

\* What a step does to the record: a handler serves, setrelay renames the line.
Handled == Serves(box, box') \/ (\E p \in SettablePins : box' = setRelayPin(box, p))

(***************************************************************************)
(* A fresh process starts from a served set-up.                            *)
(***************************************************************************)
LEMMA RestartServes ==
  ASSUME NEW pin \in [Pin -> Level]
  PROVE  /\ updateLeds(setupGpio(pin)) \in Box
         /\ Guarded(updateLeds(setupGpio(pin)))
         /\ updateLeds(setupGpio(pin)).state = "IDLE"
         /\ updateLeds(setupGpio(pin)).relayPin = RelayPin
         /\ RelayPin \in WritablePins => Sound(updateLeds(setupGpio(pin)))
<1> DEFINE b == setupGpio(pin)
<1>1. b \in Box /\ b.state = "IDLE" /\ b.enabled
  BY SetupGpio
<1>2. b.relayPin = RelayPin /\ (RelayPin \in WritablePins => Sound(b))
  BY SetupGpio
<1> HIDE DEF b
<1>3. SameControl(b, updateLeds(b)) /\ Guarded(updateLeds(b))
  BY <1>1, UpdateLeds DEF SameControl, Guarded
<1>4. RelayPin \in WritablePins => Sound(updateLeds(b))
  BY <1>1, <1>2, UpdateLeds DEF SameControl, Sound
<1>5. QED
  BY <1>1, <1>2, <1>3, <1>4 DEF SameControl, b

(***************************************************************************)
(* Time writes no line.                                                    *)
(***************************************************************************)
LEMMA ElapseServes ==
  ASSUME NEW b \in Box
  PROVE  Serves(b, [b EXCEPT !.blink = ~@])
<1> DEFINE c == [b EXCEPT !.blink = ~@]
<1>1. /\ c \in Box /\ c.state = b.state /\ c.enabled = b.enabled
      /\ c.relayPin = b.relayPin /\ c.relay = b.relay /\ c.pin = b.pin
  BY DEF Box
<1> HIDE DEF c
<1>2. Serves(b, c)
  BY <1>1 DEF Serves, Guarded, Sound, Wired
<1>3. QED
  BY <1>2 DEF c

(***************************************************************************)
(* Every step of a running process serves the box.                         *)
(***************************************************************************)
LEMMA StepServes ==
  ASSUME Inv, Next, process = "up"
  PROVE  Handled
<1>1. box \in Box /\ Guarded(box)
  BY DEF Inv, TypeOK
<1>2. CASE Start
  BY <1>1, <1>2, StartServes DEF Start, Handle, Handled
<1>3. CASE Stop
  BY <1>1, <1>3, StopServes DEF Stop, Handle, Handled
<1>4. CASE Pause
  BY <1>1, <1>4, PauseServes DEF Pause, Handle, Handled
<1>5. CASE Resume
  BY <1>1, <1>5, ResumeServes DEF Resume, Handle, Handled
<1>6. CASE Enable
  BY <1>1, <1>6, EnableServes DEF Enable, Handle, Handled
<1>7. CASE Disable
  BY <1>1, <1>7, DisableServes DEF Disable, Handle, Handled
<1>8. CASE SetRelayPin
  BY <1>8 DEF SetRelayPin, Handle, Handled
<1>9. CASE Receive
  BY <1>1, <1>9, MessageServes DEF Receive, processNetworkMessage, Handled
<1>10. CASE CpChange
  BY <1>1, <1>10, MapCpStateServes DEF CpChange, Handled
<1>11. CASE Shutdown
  BY <1>1, <1>11, TurnOffServes DEF Shutdown, Handled
<1>12. CASE Crash
  BY <1>1, <1>12, ServesReflexive DEF Crash, Handled
<1>13. CASE Restart
  BY <1>13 DEF Restart
<1>14. CASE Elapse
  BY <1>1, <1>14, ElapseServes DEF Elapse, Handled
<1>15. QED
  BY <1>2, <1>3, <1>4, <1>5, <1>6, <1>7, <1>8, <1>9, <1>10, <1>11, <1>12, <1>13, <1>14 DEF Next

(***************************************************************************)
(* A start, the first or after an end, makes a box as set-up and shutdown  *)
(* leave it.                                                               *)
(***************************************************************************)
LEMMA Restarted ==
  ASSUME Inv, Restart
  PROVE  /\ box' \in Box
         /\ Guarded(box')
         /\ box'.relayPin = RelayPin
         /\ RelayPin \in WritablePins => Sound(box')
         /\ RelayPin \in WritablePins /\ process' = "stopped" => box'.pin[RelayPin] = "LOW"
<1>1. box.pin \in [Pin -> Level]
  BY DEF Inv, TypeOK, Box
<1>2. CASE box' = updateLeds(setupGpio(box.pin)) /\ process' = "up"
  BY <1>1, <1>2, RestartServes
<1>3. CASE box' = turnOff(setupGpio(box.pin))
  <2> DEFINE b == setupGpio(box.pin)
  <2>1. /\ b \in Box /\ Guarded(b) /\ b.relayPin = RelayPin
        /\ RelayPin \in WritablePins => Sound(b)
    BY <1>1, SetupGpio
  <2> HIDE DEF b
  <2>2. /\ Serves(b, turnOff(b))
        /\ RelayPin \in WritablePins => turnOff(b).pin[RelayPin] = "LOW"
    BY <2>1, TurnOffServes
  <2>3. box' = turnOff(b)
    BY <1>3 DEF b
  <2>4. QED
    BY <2>1, <2>2, <2>3 DEF Serves
<1>4. QED
  BY <1>2, <1>3 DEF Restart

(***************************************************************************)
(* The initial box is the one a start makes on lines that are all low.     *)
(***************************************************************************)
LEMMA Started ==
  ASSUME Init
  PROVE  Inv /\ box.state = "IDLE" /\ process = "up"
         /\ (RelayPin \in WritablePins => Sound(box))
<1>1. [p \in Pin |-> "LOW"] \in [Pin -> Level]
  BY DEF Level
<1>2. QED
  BY <1>1, RestartServes DEF Init, Inv, TypeOK, FirstLast, NothingSent, CpState

(***************************************************************************)
(* The guards of start and resume, the stop inside disable and the order   *)
(* enable, state, contactor keep the invariant for every peer.             *)
(***************************************************************************)
LEMMA InvStep == Inv /\ [Next]_vars => Inv'
<1> SUFFICES ASSUME Inv, [Next]_vars
             PROVE  Inv'
  OBVIOUS
<1>1. CASE UNCHANGED vars
  BY <1>1 DEF vars, Inv, TypeOK
<1>2. CASE Next
  <2>1. box' \in Box /\ Guarded(box')
    <3>1. CASE process = "up"
      <4>1. Handled
        BY <1>2, <3>1, StepServes
      <4>2. CASE Serves(box, box')
        BY <4>2 DEF Serves, Inv
      <4>3. ASSUME NEW p \in SettablePins, box' = setRelayPin(box, p)
            PROVE  box' \in Box /\ Guarded(box')
        <5>1. p \in Pin
          BY PinsAssumption
        <5>2. QED
          BY <4>3, <5>1 DEF setRelayPin, Inv, TypeOK, Box, Guarded
      <4>4. QED
        BY <4>1, <4>2, <4>3 DEF Handled
    <3>2. CASE process # "up"
      <4>1. Restart
        BY <1>2, <3>2 DEF Next, Start, Stop, Pause, Resume, Enable, Disable, SetRelayPin,
          Handle, Elapse, Receive, processNetworkMessage, CpChange, Shutdown, Crash
      <4>2. QED
        BY <4>1, Restarted
    <3>3. QED
      BY <3>1, <3>2
  <2>2. process' \in {"up", "stopped", "crashed"} /\ cp' \in CpState
    BY <1>2, InputsAssumption DEF Inv, TypeOK, Next, Start, Stop, Pause, Resume, Enable,
      Disable, SetRelayPin, Handle, Elapse, Receive, processNetworkMessage, CpChange, Shutdown, Crash, Restart, CpState
  <2>3. last' \in [state : IsoStates \cup {"idle"}, contactor : BOOLEAN, enable : BOOLEAN]
    <3>1. CASE Receive
      BY <3>1, InputsAssumption DEF Receive, processNetworkMessage
    <3>2. CASE Restart
      BY <3>2 DEF Restart, FirstLast
    <3>3. CASE UNCHANGED last
      BY <3>3 DEF Inv, TypeOK
    <3>4. QED
      BY <1>2, <3>1, <3>2, <3>3 DEF Next, Start, Stop, Pause, Resume, Enable,
        Disable, SetRelayPin, Handle, Elapse, CpChange, Shutdown, Crash
  <2>4. sent' \in [demand : 0..160, enable : BOOLEAN, contactor : BOOLEAN]
    <3>1. CASE Receive
      <4>1. box'.state \in ChargingState /\ box'.enabled \in BOOLEAN /\ box'.relay \in BOOLEAN
        BY <2>1 DEF Box
      <4>2. Demand[box'.state] \in 0..160
        BY <4>1 DEF Demand, ChargingState
      <4>3. QED
        BY <3>1, <4>1, <4>2 DEF Receive, processNetworkMessage, status
    <3>2. CASE Restart
      BY <3>2 DEF Restart, NothingSent
    <3>3. CASE UNCHANGED sent
      BY <3>3 DEF Inv, TypeOK
    <3>4. QED
      BY <1>2, <3>1, <3>2, <3>3 DEF Next, Start, Stop, Pause, Resume, Enable,
        Disable, SetRelayPin, Handle, Elapse, CpChange, Shutdown, Crash
  <2>5. QED
    BY <2>1, <2>2, <2>3, <2>4 DEF Inv, TypeOK
<1>3. QED
  BY <1>1, <1>2

\* So the invariant holds of every behaviour.
LEMMA InvHolds == Spec => []Inv
  BY Started, InvStep, PTL DEF Spec

(***************************************************************************)
(* Every handler leaves the controller's state well-formed.                *)
(***************************************************************************)
THEOREM TypeCorrect == Spec => []TypeOK
<1>1. Inv => TypeOK
  BY DEF Inv
<1>2. QED
  BY <1>1, InvHolds, PTL

(***************************************************************************)
(* A disabled box never charges, whatever lines setrelay names, whatever   *)
(* writes fail and whatever peers and CP levels there are.                 *)
(***************************************************************************)
THEOREM NoChargeWhileDisabled == Spec => []DisabledNeverCharges
<1>1. Inv => DisabledNeverCharges
  BY DEF Inv, Guarded, DisabledNeverCharges
<1>2. QED
  BY <1>1, InvHolds, PTL

-----------------------------------------------------------------------------
(***************************************************************************)
(* With the relay's line fixed and writable, the relay is part of the      *)
(* invariant: its flag is its line, and it is on in an enabled box only.   *)
(***************************************************************************)
FixedRelay == SettablePins \subseteq {RelayPin} /\ RelayPin \in WritablePins

RelayInv ==
  /\ Sound(box)
  /\ process = "stopped" => box.pin[RelayPin] = "LOW"

(***************************************************************************)
(* RelayInv, given Inv, is inductive.                                      *)
(***************************************************************************)
LEMMA RelayStep ==
  ASSUME FixedRelay, Inv, RelayInv, [Next]_vars
  PROVE  RelayInv'
<1>1. CASE UNCHANGED vars
  BY <1>1 DEF vars, RelayInv, Sound, Wired
<1>2. CASE Next /\ process = "up"
  <2>1. Serves(box, box')
    <3>1. CASE Serves(box, box')
      BY <3>1
    <3>2. ASSUME NEW p \in SettablePins, box' = setRelayPin(box, p)
          PROVE  Serves(box, box')
      <4>1. p = RelayPin /\ box.relayPin = RelayPin
        BY <3>2 DEF FixedRelay, RelayInv, Sound, Wired
      <4>2. box' = box
        BY <3>2, <4>1 DEF setRelayPin, Inv, TypeOK, Box
      <4>3. QED
        BY <4>2, ServesReflexive DEF Inv, TypeOK
    <3>3. QED
      BY <1>2, <3>1, <3>2, StepServes DEF Handled
  <2>2. Sound(box')
    BY <2>1 DEF Serves, RelayInv, FixedRelay
  <2>3. process' = "stopped" => box'.pin[RelayPin] = "LOW"
    <3>1. CASE Shutdown
      BY <3>1, TurnOffServes DEF Shutdown, Inv, TypeOK, RelayInv, Sound, Wired, FixedRelay
    <3>2. CASE process' # "stopped"
      BY <3>2
    <3>3. QED
      BY <1>2, <3>1, <3>2 DEF Next, Start, Stop, Pause, Resume, Enable, Disable,
        SetRelayPin, Handle, Elapse, Receive, processNetworkMessage, CpChange, Crash, Restart
  <2>4. QED
    BY <2>2, <2>3 DEF RelayInv
<1>3. CASE Restart
  BY <1>3, Restarted DEF RelayInv, FixedRelay
<1>4. CASE Next /\ process # "up" /\ ~Restart
  BY <1>4 DEF Next, Start, Stop, Pause, Resume, Enable, Disable, SetRelayPin,
    Handle, Elapse, Receive, processNetworkMessage, CpChange, Shutdown, Crash
<1>5. QED
  BY <1>1, <1>2, <1>3, <1>4

(***************************************************************************)
(* The relay invariant holds of a box whose relay's line is fixed.         *)
(***************************************************************************)
LEMMA RelayInvHolds ==
  ASSUME FixedRelay
  PROVE  Spec => []RelayInv
<1>1. Init => RelayInv
  BY Started DEF RelayInv, FixedRelay
<1>2. Inv /\ RelayInv /\ [Next]_vars => RelayInv'
  BY RelayStep
<1>3. QED
  BY <1>1, <1>2, InvHolds, PTL DEF Spec

(***************************************************************************)
(* A disabled box is dead: its relay's line is low, the flag says so, and  *)
(* it is not charging, after any sequence of calls, messages, CP levels,   *)
(* crashes and restarts.                                                   *)
(***************************************************************************)
THEOREM NoPowerWhileDisabled ==
  ASSUME FixedRelay
  PROVE  Spec => []DisabledIsDead
<1>1. Inv /\ RelayInv => DisabledIsDead
  BY DEF Inv, TypeOK, Box, RelayInv, Guarded, Sound, Wired, RelayLevel, DisabledIsDead
<1>2. QED
  BY <1>1, InvHolds, RelayInvHolds, PTL

(***************************************************************************)
(* The flag status messages and guards read is the level of the line.      *)
(***************************************************************************)
THEOREM FlagIsLevel ==
  ASSUME FixedRelay
  PROVE  Spec => []RelayFlagIsLevel
<1>1. Inv /\ RelayInv => RelayFlagIsLevel
  BY DEF Inv, TypeOK, Box, RelayInv, Sound, Wired, RelayLevel, RelayFlagIsLevel
<1>2. QED
  BY <1>1, InvHolds, RelayInvHolds, PTL

(***************************************************************************)
(* A program that ended in order, or failed to start, left the relay off:  *)
(* with shutdown as one step, no handler running beside it.                *)
(***************************************************************************)
THEOREM OffAfterShutdown ==
  ASSUME FixedRelay
  PROVE  Spec => []StoppedIsOff
<1>1. RelayInv => StoppedIsOff
  BY DEF RelayInv, StoppedIsOff
<1>2. QED
  BY <1>1, RelayInvHolds, PTL

(***************************************************************************)
(* A withdrawn contactor is applied last, so no refresh of the same        *)
(* message closes the relay again.                                         *)
(***************************************************************************)
THEOREM WithdrawalOpens ==
  ASSUME FixedRelay
  PROVE  Spec => WithdrawnContactorOpens
<1>1. ASSUME NEW b \in Box, b.relayPin = RelayPin, NEW m, m.contactor = FALSE, last.contactor
      PROVE  ~applyContactor(b, m).relay
  BY <1>1, SetRelay DEF applyContactor, FixedRelay, Box
<1>2. Inv /\ RelayInv /\ [Next]_vars
        => [Up /\ process' = "up" /\ last.contactor /\ ~last'.contactor => ~box'.relay]_vars
  <2> SUFFICES ASSUME Inv, RelayInv, Next, Up, last.contactor, ~last'.contactor
               PROVE  ~box'.relay
    BY DEF Up
  <2>1. Receive
    BY DEF Next, Start, Stop, Pause, Resume, Enable, Disable, SetRelayPin, Handle, Elapse,
      CpChange, Shutdown, Crash, Restart, Up
  <2>2. PICK m \in [ state : IsoStates, contactor : BOOLEAN, enable : EnableCmds ] :
          /\ box' = applyContactor(applyState(applyEnable(box, m), m), m)
          /\ last' = m
    BY <2>1 DEF Receive, processNetworkMessage
  <2> DEFINE c == applyEnable(box, m)
             d == applyState(c, m)
  <2>3. box \in Box /\ Guarded(box) /\ box.relayPin = RelayPin /\ m.contactor = FALSE
    BY <2>2 DEF Inv, TypeOK, RelayInv, Sound, Wired
  <2>4. Serves(box, c) /\ c \in Box
    BY <2>3, ApplyEnableServes DEF Serves
  <2> HIDE DEF c
  <2>5. Serves(c, d) /\ d \in Box
    BY <2>4, ApplyStateServes DEF Serves
  <2> HIDE DEF d
  <2>6. d.relayPin = RelayPin
    BY <2>3, <2>4, <2>5 DEF Serves
  <2>7. box' = applyContactor(d, m)
    BY <2>2 DEF c, d
  <2>8. QED
    BY <1>1, <2>3, <2>5, <2>6, <2>7
<1>3. QED
  BY <1>2, InvHolds, RelayInvHolds, PTL DEF Spec, WithdrawnContactorOpens

-----------------------------------------------------------------------------
(***************************************************************************)
(* The moves of the machine.  A handler makes at most one of the moves of  *)
(* ChargingStateMachine, and none out of ERROR.                            *)
(***************************************************************************)
Moves(s, t) ==
  \/ t = s
  \/ s \in {"IDLE", "READY"} /\ t = "CHARGING"
  \/ s \in {"CHARGING", "READY"} /\ t = "IDLE"
  \/ s = "CHARGING" /\ t = "READY"
  \/ t = "ERROR"

MachineInv == box.state \in Resting

(***************************************************************************)
(* A message makes one move: an enable edge that ends a session leaves a   *)
(* disabled box in IDLE, where the state edge finds nothing to do.  Out of *)
(* READY no message charges.                                               *)
(***************************************************************************)
LEMMA MessageMoves ==
  ASSUME NEW b \in Box, Guarded(b), NEW m, m.contactor \in BOOLEAN
  PROVE  LET c == applyContactor(applyState(applyEnable(b, m), m), m)
         IN  /\ Moves(b.state, c.state)
             /\ b.state = "READY" => c.state # "CHARGING"
             /\ b.state = "ERROR" => c.state = "ERROR"
<1> DEFINE c == applyEnable(b, m)
           d == applyState(c, m)
           e == applyContactor(d, m)
<1>1. /\ c \in Box
      /\ \/ c.state = b.state
         \/ b.state = "CHARGING" /\ c.state = "IDLE" /\ ~c.enabled
  <2>1. c \in {b, enableWallbox(b), disableWallbox(b)}
    BY DEF applyEnable
  <2>2. QED
    BY <2>1, EnableServes, DisableServes DEF Serves
<1> HIDE DEF c
<1>2. /\ d \in Box
      /\ \/ d.state = c.state
         \/ c.state \in {"CHARGING", "READY"} /\ d.state = "IDLE"
         \/ c.state = "IDLE" /\ c.enabled /\ d.state = "CHARGING"
  <2>1. \/ d = c
        \/ d = smStop(c)
        \/ d = smStart(c) /\ c.enabled /\ c.state = "IDLE"
    BY DEF applyState
  <2>2. QED
    BY <1>1, <2>1, SmStop, SmStart DEF Keeps
<1> HIDE DEF d
<1>3. e.state = d.state
  <2>1. e = d \/ e = setRelayState(d, m.contactor)
    BY DEF applyContactor
  <2>2. QED
    BY <1>2, <2>1, SetRelay DEF SameControl
<1> HIDE DEF e
<1>4. /\ Moves(b.state, e.state)
      /\ b.state = "READY" => e.state # "CHARGING"
      /\ b.state = "ERROR" => e.state = "ERROR"
  BY <1>1, <1>2, <1>3 DEF Moves
<1>5. QED
  BY <1>4 DEF c, d, e

(***************************************************************************)
(* A CP level makes one move, and none out of ERROR.                       *)
(***************************************************************************)
LEMMA CpMoves ==
  ASSUME NEW b \in Box, NEW s
  PROVE  /\ Moves(b.state, mapCpState(b, s).state)
         /\ b.state = "ERROR" => mapCpState(b, s).state = "ERROR"
<1> DEFINE c == stopCharging(b)
<1>1. \/ mapCpState(b, s) \in {b, stopIfCharging(b)}
      \/ mapCpState(b, s) = startCharging(b) /\ b.state = "READY"
      \/ mapCpState(b, s) = transitionTo(c, "ERROR")
  BY DEF mapCpState
<1>2. c \in Box /\ c.state \in ChargingState
  BY StopServes DEF Serves, Box
<1> HIDE DEF c
<1>3. transitionTo(c, "ERROR").state = "ERROR"
  BY <1>2, Transition DEF isValidTransition, Successors, ChargingState
<1>4. QED
  BY <1>1, <1>3, StopIfChargingServes, StartServes DEF Moves

(***************************************************************************)
(* Steps of a running process make the machine's moves.                    *)
(***************************************************************************)
LEMMA StepMoves ==
  ASSUME Inv, MachineInv, Next, process = "up"
  PROVE  /\ Moves(box.state, box'.state)
         /\ box.state = "ERROR" => box'.state = "ERROR"
<1>1. box \in Box /\ Guarded(box) /\ box.state \in Resting
  BY DEF Inv, TypeOK, MachineInv
<1>2. CASE Start
  BY <1>1, <1>2, StartServes DEF Start, Handle, Moves, Resting
<1>3. CASE Stop
  BY <1>1, <1>3, StopServes DEF Stop, Handle, Moves
<1>4. CASE Pause
  BY <1>1, <1>4, PauseServes DEF Pause, Handle, Moves
<1>5. CASE Resume
  BY <1>1, <1>5, ResumeServes DEF Resume, Handle, Moves
<1>6. CASE Enable
  BY <1>1, <1>6, EnableServes DEF Enable, Handle, Moves
<1>7. CASE Disable
  BY <1>1, <1>7, DisableServes DEF Disable, Handle, Moves
<1>8. CASE SetRelayPin
  BY <1>1, <1>8 DEF SetRelayPin, Handle, setRelayPin, Box, Moves
<1>9. CASE Receive
  BY <1>1, <1>9, MessageMoves DEF Receive, processNetworkMessage
<1>10. CASE CpChange
  BY <1>1, <1>10, CpMoves DEF CpChange
<1>11. CASE Shutdown
  BY <1>1, <1>11, TurnOffServes DEF Shutdown, Moves
<1>12. CASE Crash
  BY <1>12 DEF Crash, Moves
<1>13. CASE Restart
  BY <1>13 DEF Restart
<1>14. CASE Elapse
  BY <1>1, <1>14 DEF Elapse, Box, Moves
<1>15. QED
  BY <1>2, <1>3, <1>4, <1>5, <1>6, <1>7, <1>8, <1>9, <1>10, <1>11, <1>12, <1>13, <1>14 DEF Next

(***************************************************************************)
(* A new process is in IDLE.                                               *)
(***************************************************************************)
LEMMA RestartIsIdle ==
  ASSUME Inv, Restart
  PROVE  box'.state = "IDLE"
<1>1. box.pin \in [Pin -> Level]
  BY DEF Inv, TypeOK, Box
<1> DEFINE b == setupGpio(box.pin)
<1>2. b \in Box /\ b.state = "IDLE"
  BY <1>1, SetupGpio
<1>3. box' = updateLeds(b) \/ box' = turnOff(b)
  BY DEF Restart
<1> HIDE DEF b
<1>4. updateLeds(b).state = "IDLE"
  BY <1>2, UpdateLeds DEF SameControl
<1>5. turnOff(b).state = "IDLE"
  BY <1>2, TurnOffServes
<1>6. QED
  BY <1>3, <1>4, <1>5

(***************************************************************************)
(* Between handlers the machine is in IDLE, READY, CHARGING or ERROR.      *)
(***************************************************************************)
LEMMA MachineInvHolds == Spec => []MachineInv
<1>1. Init => MachineInv
  BY Started DEF MachineInv, Resting
<1>2. Inv /\ MachineInv /\ [Next]_vars => MachineInv'
  <2>1. ASSUME Inv, MachineInv, Next, process = "up"
        PROVE  MachineInv'
    BY <2>1, StepMoves DEF Moves, MachineInv, Resting
  <2>2. ASSUME Inv, Restart
        PROVE  MachineInv'
    BY <2>2, RestartIsIdle DEF MachineInv, Resting
  <2>3. ASSUME Next, process # "up"
        PROVE  Restart
    BY <2>3 DEF Next, Start, Stop, Pause, Resume, Enable, Disable, SetRelayPin,
      Handle, Elapse, Receive, processNetworkMessage, CpChange, Shutdown, Crash
  <2>4. ASSUME UNCHANGED vars, MachineInv
        PROVE  MachineInv'
    BY <2>4 DEF vars, MachineInv
  <2>5. QED
    BY <2>1, <2>2, <2>3, <2>4
<1>3. QED
  BY <1>1, <1>2, InvHolds, PTL DEF Spec

(***************************************************************************)
(* Nothing the running program does leaves the error state.  The other     *)
(* side of UnplugResets, which the documents promise and a run refutes:    *)
(* the machine's reset has no caller, so only a restart ends an error.     *)
(***************************************************************************)
ErrorIsFinal ==
  [][Up /\ process' = "up" /\ box.state = "ERROR" => box'.state = "ERROR"]_vars

(***************************************************************************)
(* An error outlives every call, message and CP level: ErrorIsFinal.       *)
(***************************************************************************)
THEOREM NothingLeavesError == Spec => ErrorIsFinal
<1>1. Inv /\ MachineInv /\ [Next]_vars
        => [Up /\ process' = "up" /\ box.state = "ERROR" => box'.state = "ERROR"]_vars
  BY StepMoves DEF Up
<1>2. QED
  BY <1>1, InvHolds, MachineInvHolds, PTL DEF Spec, ErrorIsFinal

(***************************************************************************)
(* No message resumes a paused session.                                    *)
(***************************************************************************)
THEOREM NoMessageResumes == Spec => MessagesNeverResume
<1>1. Inv /\ [Next]_vars
        => [box.state = "READY" /\ box'.state = "CHARGING" => last' = last]_vars
  <2> SUFFICES ASSUME Inv, Next, box.state = "READY", box'.state = "CHARGING"
               PROVE  last' = last
    OBVIOUS
  <2>1. ~Receive
    BY MessageMoves DEF Receive, processNetworkMessage, Inv, TypeOK
  <2>2. ~Restart
    BY RestartIsIdle
  <2>3. QED
    BY <2>1, <2>2 DEF Next, Start, Stop, Pause, Resume, Enable, Disable, SetRelayPin,
      Handle, Elapse, CpChange, Shutdown, Crash
<1>2. QED
  BY <1>1, InvHolds, PTL DEF Spec, MessagesNeverResume

(***************************************************************************)
(* The state machine inside the controller keeps the promise of its class: *)
(* each handler, restart included, is one call of ChargingStateMachine or  *)
(* none.                                                                   *)
(***************************************************************************)
THEOREM MachineKeepsPromise == Spec => ImplementsStateMachine
<1>1. Init => Machine!Init
  BY Started DEF Machine!Init
<1>2. Inv /\ MachineInv /\ [Next]_vars => [Machine!Next]_(box.state)
  <2>1. ASSUME Inv, MachineInv, Next, process = "up"
        PROVE  [Machine!Next]_(box.state)
    BY <2>1, StepMoves DEF Moves, Machine!Next, Machine!startCharging, Machine!stopCharging,
      Machine!pauseCharging, Machine!resumeCharging, Machine!enterErrorState, Machine!reset
  <2>2. ASSUME Inv, MachineInv, Restart
        PROVE  [Machine!Next]_(box.state)
    BY <2>2, RestartIsIdle DEF MachineInv, Resting, Machine!Next, Machine!stopCharging,
      Machine!reset
  <2>3. ASSUME Next, process # "up"
        PROVE  Restart
    BY <2>3 DEF Next, Start, Stop, Pause, Resume, Enable, Disable, SetRelayPin,
      Handle, Elapse, Receive, processNetworkMessage, CpChange, Shutdown, Crash
  <2>4. ASSUME UNCHANGED vars
        PROVE  [Machine!Next]_(box.state)
    BY <2>4 DEF vars
  <2>5. QED
    BY <2>1, <2>2, <2>3, <2>4
<1>3. QED
  BY <1>1, <1>2, InvHolds, MachineInvHolds, PTL DEF Spec, ImplementsStateMachine, Machine!Spec

-----------------------------------------------------------------------------
(***************************************************************************)
(* The LEDs.  A refresh sets all three for the state and the enable flag   *)
(* it finds, and nothing changes these without a refresh after it.         *)
(***************************************************************************)
FixedLines == FixedRelay /\ {GreenPin, YellowPin, RedPin} \subseteq WritablePins

\* What LedsTellState says of a running box.
Tells(b) ==
  LET fault  == ~b.enabled \/ b.state = "ERROR"
      absent == b.state \in {"IDLE", "STOP", "FINISHED"}
      on(p)  == b.pin[p] = "HIGH"
  IN  /\ on(RedPin) <=> fault
      /\ fault => ~on(YellowPin) /\ ~on(GreenPin)
      /\ ~fault /\ ~absent => on(YellowPin)
      /\ on(GreenPin) => ~absent
      /\ ~fault /\ b.state = "CHARGING" => on(GreenPin)

\* The boxes whose LEDs are right; OFF, which no call leads to, looks like ERROR.
Telling == {b \in Box : b.relayPin = RelayPin /\ b.state # "OFF" /\ Tells(b)}

Plain == {b \in Box : b.relayPin = RelayPin /\ b.state # "OFF"}

(***************************************************************************)
(* Writes to the LEDs that succeed leave the levels they are called with.  *)
(***************************************************************************)
LEMMA SetLedsShows ==
  ASSUME FixedLines, NEW b \in Box, NEW gr \in Level, NEW y \in Level, NEW r \in Level
  PROVE  /\ setLeds(b, gr, y, r).pin[GreenPin] = gr
         /\ setLeds(b, gr, y, r).pin[YellowPin] = y
         /\ setLeds(b, gr, y, r).pin[RedPin] = r
<1> DEFINE lit == [b.pin EXCEPT ![GreenPin] = gr, ![YellowPin] = y, ![RedPin] = r]
<1>1. setLeds(b, gr, y, r).pin = lit
  BY DEF setLeds, written, FixedLines, Box
<1>2. lit[GreenPin] = gr /\ lit[YellowPin] = y /\ lit[RedPin] = r
  BY PinsAssumption DEF Box
<1>3. QED
  BY <1>1, <1>2

(***************************************************************************)
(* The relay is not a LED: its writes leave what the LEDs tell alone.      *)
(***************************************************************************)
LEMMA SetRelayTells ==
  ASSUME NEW b \in Box, NEW on \in BOOLEAN, b.relayPin = RelayPin
  PROVE  \A p \in {GreenPin, YellowPin, RedPin} : setRelayState(b, on).pin[p] = b.pin[p]
<1> DEFINE c == [b EXCEPT !.pin[b.relayPin] = RelayLevel(on), !.relay = on]
<1>1. c.pin = [b.pin EXCEPT ![RelayPin] = RelayLevel(on)]
  BY DEF Box
<1>2. \A p \in {GreenPin, YellowPin, RedPin} : c.pin[p] = b.pin[p]
  BY <1>1, PinsAssumption DEF Box
<1>3. setRelayState(b, on) = b \/ setRelayState(b, on) = c
  BY DEF setRelayState
<1>4. QED
  BY <1>2, <1>3

(***************************************************************************)
(* The pattern for a state is the one LedsTellState asks for.              *)
(***************************************************************************)
LEMMA ShowLedsTells ==
  ASSUME FixedLines, NEW b \in Plain, b.enabled
  PROVE  showLeds(b) \in Telling
<1> DEFINE c == showLeds(b)
<1>1. SameControl(b, c)
  BY ShowLeds DEF Plain
<1>2. \/ /\ b.state \in {"IDLE", "STOP", "FINISHED"}
         /\ c = setLeds(b, "LOW", blinkLevel(b), "LOW")
      \/ /\ b.state \in {"CONNECTED", "IDENTIFICATION", "READY"}
         /\ c = setLeds(b, blinkLevel(b), "HIGH", "LOW")
      \/ b.state = "CHARGING" /\ c = setLeds(b, "HIGH", "HIGH", "LOW")
      \/ b.state = "ERROR" /\ c = setLeds(b, "LOW", "LOW", "HIGH")
  BY DEF showLeds, Plain, Box, ChargingState
<1>3. blinkLevel(b) \in Level
  BY DEF blinkLevel, Level
<1>4. /\ (c.pin[RedPin] = "HIGH") <=> b.state = "ERROR"
      /\ b.state = "ERROR" => c.pin[YellowPin] = "LOW" /\ c.pin[GreenPin] = "LOW"
      /\ b.state \in {"CONNECTED", "IDENTIFICATION", "READY", "CHARGING"}
           => c.pin[YellowPin] = "HIGH"
      /\ b.state \in {"IDLE", "STOP", "FINISHED"} => c.pin[GreenPin] = "LOW"
      /\ b.state = "CHARGING" => c.pin[GreenPin] = "HIGH"
  BY <1>2, <1>3, SetLedsShows DEF Level, Plain
<1> HIDE DEF c
<1>5. b.state \in ChargingState \ {"OFF"}
  BY DEF Plain, Box
<1>6. c \in Telling
  BY <1>1, <1>4, <1>5 DEF SameControl, Telling, Tells, Plain, ChargingState
<1>7. QED
  BY <1>6 DEF c

(***************************************************************************)
(* After a refresh the LEDs tell the state, whatever they showed before.   *)
(***************************************************************************)
LEMMA UpdateLedsTells ==
  ASSUME FixedLines, NEW b \in Plain
  PROVE  updateLeds(b) \in Telling
<1>1. b \in Box /\ b.relayPin = RelayPin /\ b.state # "OFF"
  BY DEF Plain
<1>2. CASE ~b.enabled
  <2> DEFINE c == setLeds(b, "LOW", "LOW", "HIGH")
             d == setRelayState(c, FALSE)
  <2>1. updateLeds(b) = d
    BY <1>2 DEF updateLeds
  <2>2. /\ SameControl(b, c)
        /\ c.pin[GreenPin] = "LOW" /\ c.pin[YellowPin] = "LOW" /\ c.pin[RedPin] = "HIGH"
    BY <1>1, SetLeds, SetLedsShows DEF Level
  <2> HIDE DEF c
  <2>3. c \in Box /\ c.relayPin = RelayPin
    BY <1>1, <2>2 DEF SameControl
  <2>4. /\ SameControl(c, d)
        /\ \A p \in {GreenPin, YellowPin, RedPin} : d.pin[p] = c.pin[p]
    BY <2>3, SetRelay, SetRelayTells
  <2> HIDE DEF d
  <2>5. QED
    BY <1>1, <1>2, <2>1, <2>2, <2>4 DEF SameControl, Telling, Tells
<1>3. CASE b.enabled
  <2> DEFINE lit == lightEnabled(b)
             powered == IF lit.relay THEN lit ELSE setRelayState(lit, TRUE)
  <2>1. updateLeds(b) = showLeds(powered)
    BY <1>3 DEF updateLeds
  <2>2. SameControl(b, lit) /\ lit \in Box
    BY <1>1, LightEnabled DEF SameControl
  <2> HIDE DEF lit
  <2>3. SameControl(lit, powered)
    BY <2>2, SetRelay DEF SameControl
  <2> HIDE DEF powered
  <2>4. powered \in Plain /\ powered.enabled
    BY <1>1, <1>3, <2>2, <2>3 DEF SameControl, Plain
  <2>5. QED
    BY <2>1, <2>4, ShowLedsTells
<1>4. QED
  BY <1>2, <1>3

(***************************************************************************)
(* Writing the relay leaves telling boxes telling.                         *)
(***************************************************************************)
LEMMA RelayKeepsTelling ==
  ASSUME NEW b \in Telling, NEW on \in BOOLEAN
  PROVE  setRelayState(b, on) \in Telling
<1>1. b \in Box /\ b.relayPin = RelayPin
  BY DEF Telling
<1>2. QED
  BY <1>1, SetRelay, SetRelayTells DEF Telling, Tells, SameControl

(***************************************************************************)
(* Transitions refresh; they leave a telling box telling.                  *)
(***************************************************************************)
LEMMA TransitionTells ==
  ASSUME FixedLines, NEW b \in Telling, NEW s \in ChargingState \ {"OFF"}
  PROVE  transitionTo(b, s) \in Telling
<1> DEFINE c == [b EXCEPT !.state = s]
<1>1. c \in Plain
  BY DEF Telling, Plain, Box
<1>2. transitionTo(b, s) = b \/ transitionTo(b, s) = updateLeds(c)
  BY DEF transitionTo
<1>3. QED
  BY <1>1, <1>2, UpdateLedsTells

(***************************************************************************)
(* So do the chains of the state machine.                                  *)
(***************************************************************************)
LEMMA MachineTells ==
  ASSUME FixedLines, NEW b \in Telling
  PROVE  smStart(b) \in Telling /\ smStop(b) \in Telling
<1>1. \A c \in Telling : /\ transitionTo(c, "CONNECTED") \in Telling
                         /\ transitionTo(c, "IDENTIFICATION") \in Telling
                         /\ transitionTo(c, "READY") \in Telling
                         /\ transitionTo(c, "CHARGING") \in Telling
                         /\ transitionTo(c, "STOP") \in Telling
                         /\ transitionTo(c, "FINISHED") \in Telling
                         /\ transitionTo(c, "IDLE") \in Telling
  BY TransitionTells DEF ChargingState
<1>2. QED
  BY <1>1 DEF smStart, smStop

(***************************************************************************)
(* The calls: each change of the enable flag is followed by a refresh.     *)
(***************************************************************************)
LEMMA CallsTell ==
  ASSUME FixedLines, NEW b \in Telling
  PROVE  /\ startCharging(b) \in Telling /\ stopCharging(b) \in Telling
         /\ pauseCharging(b) \in Telling /\ resumeCharging(b) \in Telling
         /\ stopIfCharging(b) \in Telling
         /\ enableWallbox(b) \in Telling /\ disableWallbox(b) \in Telling
<1>1. ASSUME NEW c \in Plain, NEW on \in BOOLEAN
      PROVE  updateLeds(setRelayState([c EXCEPT !.enabled = on], on)) \in Telling
  <2> DEFINE d == [c EXCEPT !.enabled = on]
  <2>1. d \in Box /\ d.relayPin = RelayPin /\ d.state # "OFF"
    BY DEF Plain, Box
  <2> HIDE DEF d
  <2>2. setRelayState(d, on) \in Plain
    BY <2>1, SetRelay DEF Plain, SameControl
  <2>3. QED
    BY <2>2, UpdateLedsTells DEF d
<1>2. Telling \subseteq Plain
  BY DEF Telling, Plain
<1>3. startCharging(b) \in Telling /\ stopCharging(b) \in Telling
  BY MachineTells, RelayKeepsTelling DEF startCharging, stopCharging
<1>4. stopIfCharging(b) \in Telling
  BY <1>3 DEF stopIfCharging
<1>5. pauseCharging(b) \in Telling /\ resumeCharging(b) \in Telling
  BY TransitionTells DEF pauseCharging, resumeCharging, ChargingState
<1>6. enableWallbox(b) \in Telling /\ disableWallbox(b) \in Telling
  BY <1>1, <1>2, <1>4 DEF enableWallbox, disableWallbox
<1>7. QED
  BY <1>3, <1>4, <1>5, <1>6

(***************************************************************************)
(* Messages and CP levels make calls and transitions only.                 *)
(***************************************************************************)
LEMMA InputsTell ==
  ASSUME FixedLines, NEW b \in Telling
  PROVE  /\ \A m : m.contactor \in BOOLEAN
               => applyContactor(applyState(applyEnable(b, m), m), m) \in Telling
         /\ \A s : mapCpState(b, s) \in Telling
<1>1. ASSUME NEW m, m.contactor \in BOOLEAN
      PROVE  applyContactor(applyState(applyEnable(b, m), m), m) \in Telling
  <2> DEFINE c == applyEnable(b, m)
             d == applyState(c, m)
  <2>1. c \in Telling
    BY CallsTell DEF applyEnable
  <2> HIDE DEF c
  <2>2. d \in Telling
    BY <2>1, MachineTells DEF applyState
  <2> HIDE DEF d
  <2>3. applyContactor(d, m) \in Telling
    BY <1>1, <2>2, RelayKeepsTelling DEF applyContactor
  <2>4. QED
    BY <2>3 DEF c, d
<1>2. ASSUME NEW s
      PROVE  mapCpState(b, s) \in Telling
  <2>1. /\ stopIfCharging(b) \in Telling /\ startCharging(b) \in Telling
        /\ transitionTo(stopCharging(b), "ERROR") \in Telling
    BY CallsTell, TransitionTells DEF ChargingState
  <2>2. QED
    BY <2>1 DEF mapCpState
<1>3. QED
  BY <1>1, <1>2

(***************************************************************************)
(* The LEDs tell the state of every box that runs, however it got there:   *)
(* every path that changes the state or the enable flag refreshes them     *)
(* afterwards.                                                             *)
(***************************************************************************)
THEOREM LedsTell ==
  ASSUME FixedLines
  PROVE  Spec => []LedsTellState
<1> DEFINE LedInv == process = "up" => box \in Telling
<1>1. Init => LedInv
  <2>1. [p \in Pin |-> "LOW"] \in [Pin -> Level]
    BY DEF Level
  <2>2. setupGpio([p \in Pin |-> "LOW"]) \in Plain
    BY <2>1, SetupGpio DEF Plain
  <2>3. QED
    BY <2>2, UpdateLedsTells DEF Init
<1>2. Inv /\ LedInv /\ [Next]_vars => LedInv'
  <2> SUFFICES ASSUME Inv, LedInv, [Next]_vars, process' = "up"
               PROVE  box' \in Telling
    OBVIOUS
  <2>1. CASE UNCHANGED vars
    BY <2>1 DEF vars
  <2>2. CASE Restart
    <3>1. box.pin \in [Pin -> Level]
      BY DEF Inv, TypeOK, Box
    <3>2. setupGpio(box.pin) \in Plain
      BY <3>1, SetupGpio DEF Plain
    <3>3. QED
      BY <2>2, <3>2, UpdateLedsTells DEF Restart
  <2>3. CASE Start \/ Stop \/ Pause \/ Resume \/ Enable \/ Disable
    BY <2>3, CallsTell DEF Start, Stop, Pause, Resume, Enable, Disable, Handle
  <2>4. CASE SetRelayPin
    <3>1. PICK p \in SettablePins : process = "up" /\ box' = setRelayPin(box, p)
      BY <2>4 DEF SetRelayPin, Handle
    <3>2. p = RelayPin /\ box \in Telling
      BY <3>1 DEF FixedLines, FixedRelay
    <3>3. box' = box
      BY <3>1, <3>2 DEF setRelayPin, Telling, Box
    <3>4. QED
      BY <3>2, <3>3
  <2>5. CASE Receive
    BY <2>5, InputsTell DEF Receive, processNetworkMessage
  <2>6. CASE CpChange
    BY <2>6, InputsTell DEF CpChange
  <2>7. ~Shutdown /\ ~Crash
    BY DEF Shutdown, Crash
  <2>8. CASE Elapse
    <3>1. box \in Telling /\ box' = [box EXCEPT !.blink = ~@]
      BY <2>8 DEF Elapse
    <3>2. /\ box' \in Box /\ box'.state = box.state /\ box'.enabled = box.enabled
          /\ box'.relayPin = box.relayPin /\ box'.pin = box.pin
      BY <3>1 DEF Telling, Box
    <3>3. QED
      BY <3>1, <3>2 DEF Telling, Tells
  <2>9. QED
    BY <2>1, <2>2, <2>3, <2>4, <2>5, <2>6, <2>7, <2>8 DEF Next
<1>3. LedInv => LedsTellState
  BY DEF Telling, Tells, LedsTellState, Up
<1>4. QED
  BY <1>1, <1>2, <1>3, InvHolds, PTL DEF Spec

(***************************************************************************)
(* An answer tells the whole message: it is made after the last of its     *)
(* edges, its contactor is the relay's line, and 16 A stand for charging   *)
(* and for nothing else.                                                   *)
(***************************************************************************)
THEOREM AnswersTell ==
  ASSUME FixedRelay
  PROVE  Spec => AnswersAreCurrent
<1>1. Inv /\ RelayInv /\ Inv' /\ RelayInv' /\ [Next]_vars
        => [Up /\ last' # last
              => /\ sent'.contactor = (box'.pin[box'.relayPin] = "HIGH")
                 /\ sent'.enable = box'.enabled
                 /\ (sent'.demand = 160) <=> (box'.state = "CHARGING")]_vars
  <2> SUFFICES ASSUME Inv, RelayInv, Inv', RelayInv', Next, Up, last' # last
               PROVE  /\ sent'.contactor = (box'.pin[box'.relayPin] = "HIGH")
                      /\ sent'.enable = box'.enabled
                      /\ (sent'.demand = 160) <=> (box'.state = "CHARGING")
    OBVIOUS
  <2>1. Receive
    BY DEF Next, Start, Stop, Pause, Resume, Enable, Disable, SetRelayPin, Handle, Elapse,
      CpChange, Shutdown, Crash, Restart, Up
  <2>2. sent' = status(box')
    BY <2>1 DEF Receive, processNetworkMessage
  <2>3. /\ box'.relay \in BOOLEAN /\ box'.state \in ChargingState
        /\ box'.relayPin = RelayPin /\ box'.pin[RelayPin] = RelayLevel(box'.relay)
    BY DEF Inv, TypeOK, Box, RelayInv, Sound, Wired
  <2>4. sent'.contactor = (box'.pin[box'.relayPin] = "HIGH")
    BY <2>2, <2>3 DEF status, RelayLevel
  <2>5. (sent'.demand = 160) <=> (box'.state = "CHARGING")
    BY <2>2, <2>3 DEF status, Demand, ChargingState
  <2>6. QED
    BY <2>2, <2>4, <2>5 DEF status
<1>2. QED
  BY <1>1, InvHolds, RelayInvHolds, PTL DEF Spec, AnswersAreCurrent
=============================================================================
