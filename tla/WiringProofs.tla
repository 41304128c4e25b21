----------------------------- MODULE WiringProofs -----------------------------
(***************************************************************************)
(* What the programs of Wiring do to the lines they share, for any board,  *)
(* any two wirings and any lines that are refused.  The handlers run on    *)
(* lines w of which those in o are open: each procedure of the controller  *)
(* gets a lemma that says which lines it may have touched.                 *)
(***************************************************************************)
EXTENDS Wiring, TLAPS

\* A charging machine belongs to an enabled box.
Guarded(b) == b.state = "CHARGING" => b.enabled

\* Power on the relay's line is reported.
Reported(b) == b.pin[b.relayPin] = "HIGH" => b.relay

\* Only LEDs and, where it is open, the line of the relay have been written.
Spared(w, o, b, c) ==
  \A p \in Pin : p \notin Leds(w) /\ (p # b.relayPin \/ p \notin o) => c.pin[p] = b.pin[p]

\* What refreshes and writes to the relay do on the lines w.
Writes(w, o, b, c) ==
  /\ c \in Box
  /\ c.relayPin = b.relayPin /\ c.state = b.state /\ c.enabled = b.enabled
  /\ Spared(w, o, b, c)
  /\ b.relayPin \notin Leds(w) /\ Reported(b) => Reported(c)

(***************************************************************************)
(* What two procedures spare, the one after the other spares.              *)
(***************************************************************************)
LEMMA WritesTransitive ==
  ASSUME NEW w, NEW o, NEW b, NEW c, NEW d, Writes(w, o, b, c), Writes(w, o, c, d)
  PROVE  Writes(w, o, b, d)
  BY DEF Writes, Spared

(***************************************************************************)
(* setRelayState writes line and flag, or neither when the line is not     *)
(* open.                                                                   *)
(***************************************************************************)
LEMMA SetRelay ==
  ASSUME NEW w, NEW o, NEW b \in Box, NEW on \in BOOLEAN
  PROVE  /\ Writes(w, o, b, On(w, o)!setRelayState(b, on))
         /\ b.relayPin \in o => On(w, o)!setRelayState(b, on).pin[b.relayPin] = RelayLevel(on)
<1> DEFINE c == [b EXCEPT !.pin[b.relayPin] = RelayLevel(on), !.relay = on]
<1>1. CASE b.relayPin \in o
  <2>1. On(w, o)!setRelayState(b, on) = c
    BY <1>1 DEF On!setRelayState, On!RelayLevel, RelayLevel
  <2>2. /\ c \in Box /\ c.state = b.state /\ c.enabled = b.enabled
        /\ c.relayPin = b.relayPin /\ c.relay = on
        /\ c.pin[b.relayPin] = RelayLevel(on)
        /\ \A p \in Pin : p # b.relayPin => c.pin[p] = b.pin[p]
    BY DEF Box, RelayLevel, Level
  <2>3. QED
    BY <1>1, <2>1, <2>2 DEF Writes, Spared, Reported, RelayLevel
<1>2. CASE b.relayPin \notin o
  BY <1>2 DEF On!setRelayState, Writes, Spared
<1>3. QED
  BY <1>1, <1>2

\* The lines of a wiring are lines.
LEMMA WiringLines ==
  ASSUME NEW w \in Wirings
  PROVE  w.relay \in Pin /\ w.green \in Pin /\ w.yellow \in Pin /\ w.red \in Pin
  BY PinsAssumption, WiringAssumption DEF Wirings, Shipped

(***************************************************************************)
(* LEDs are on lines of their own.                                         *)
(***************************************************************************)
LEMMA SetLeds ==
  ASSUME NEW w \in Wirings, NEW o, NEW b \in Box,
         NEW gr \in Level, NEW y \in Level, NEW r \in Level
  PROVE  /\ Writes(w, o, b, On(w, o)!setLeds(b, gr, y, r))
         /\ On(w, o)!setLeds(b, gr, y, r).relay = b.relay
<1> DEFINE lit == [b.pin EXCEPT ![w.green] = On(w, o)!written(w.green, @, gr),
                                ![w.yellow] = On(w, o)!written(w.yellow, @, y),
                                ![w.red] = On(w, o)!written(w.red, @, r)]
<1>1. b.pin \in [Pin -> Level] /\ b.relayPin \in Pin
  BY DEF Box
<1>2. lit \in [Pin -> Level] /\ \A p \in Pin : p \notin Leds(w) => lit[p] = b.pin[p]
  BY <1>1, WiringLines DEF On!written, Leds
<1> HIDE DEF lit
<1>3. On(w, o)!setLeds(b, gr, y, r) = [b EXCEPT !.pin = lit]
  BY DEF On!setLeds, lit, Box
<1>4. QED
  BY <1>1, <1>2, <1>3 DEF Box, Writes, Spared, Reported

(***************************************************************************)
(* The same of the first writes of a refresh, and of showLeds.             *)
(***************************************************************************)
LEMMA LightEnabled ==
  ASSUME NEW w \in Wirings, NEW o, NEW b \in Box
  PROVE  Writes(w, o, b, On(w, o)!lightEnabled(b))
<1> DEFINE lit == [b.pin EXCEPT ![w.yellow] = On(w, o)!written(w.yellow, @, "HIGH"),
                                ![w.red] = On(w, o)!written(w.red, @, "LOW")]
<1>1. b.pin \in [Pin -> Level] /\ b.relayPin \in Pin
  BY DEF Box
<1>2. lit \in [Pin -> Level] /\ \A p \in Pin : p \notin Leds(w) => lit[p] = b.pin[p]
  BY <1>1, WiringLines DEF On!written, Leds, Level
<1> HIDE DEF lit
<1>3. On(w, o)!lightEnabled(b) = [b EXCEPT !.pin = lit]
  BY DEF On!lightEnabled, lit, Box
<1>4. QED
  BY <1>1, <1>2, <1>3 DEF Box, Writes, Spared, Reported

\* Whatever the state shows is written to LEDs.
LEMMA ShowLeds ==
  ASSUME NEW w \in Wirings, NEW o, NEW b \in Box
  PROVE  Writes(w, o, b, On(w, o)!showLeds(b))
<1>1. b.state \in ChargingState
  BY DEF Box
<1>2. \/ On(w, o)!showLeds(b) = On(w, o)!setLeds(b, "LOW", On(w, o)!blinkLevel(b), "LOW")
      \/ On(w, o)!showLeds(b) = On(w, o)!setLeds(b, On(w, o)!blinkLevel(b), "HIGH", "LOW")
      \/ On(w, o)!showLeds(b) = On(w, o)!setLeds(b, "HIGH", "HIGH", "LOW")
      \/ On(w, o)!showLeds(b) = On(w, o)!setLeds(b, "LOW", "LOW", "HIGH")
  BY <1>1 DEF On!showLeds, ChargingState
<1>3. On(w, o)!blinkLevel(b) \in Level
  BY DEF On!blinkLevel, Level
<1>4. QED
  BY <1>2, <1>3, SetLeds DEF Level

(***************************************************************************)
(* A refresh writes LEDs and the relay's line and keeps the control.       *)
(***************************************************************************)
LEMMA UpdateLeds ==
  ASSUME NEW w \in Wirings, NEW o, NEW b \in Box
  PROVE  Writes(w, o, b, On(w, o)!updateLeds(b))
<1>1. CASE ~b.enabled
  <2> DEFINE c == On(w, o)!setLeds(b, "LOW", "LOW", "HIGH")
  <2>1. Writes(w, o, b, c) /\ c \in Box
    BY SetLeds DEF Level, Writes
  <2>2. On(w, o)!updateLeds(b) = On(w, o)!setRelayState(c, FALSE)
    BY <1>1 DEF On!updateLeds
  <2> HIDE DEF c
  <2>3. QED
    BY <2>1, <2>2, SetRelay, WritesTransitive
<1>2. CASE b.enabled
  <2> DEFINE lit == On(w, o)!lightEnabled(b)
             powered == IF lit.relay THEN lit ELSE On(w, o)!setRelayState(lit, TRUE)
  <2>1. On(w, o)!updateLeds(b) = On(w, o)!showLeds(powered)
    BY <1>2 DEF On!updateLeds
  <2>2. Writes(w, o, b, lit) /\ lit \in Box
    BY LightEnabled DEF Writes
  <2> HIDE DEF lit
  <2>3. powered = lit \/ Writes(w, o, lit, powered)
    BY <2>2, SetRelay
  <2> HIDE DEF powered
  <2>4. Writes(w, o, b, powered) /\ powered \in Box
    BY <2>2, <2>3, WritesTransitive DEF Writes
  <2>5. QED
    BY <2>1, <2>4, ShowLeds, WritesTransitive
<1>3. QED
  BY <1>1, <1>2

-----------------------------------------------------------------------------
\* What the machine and the calls do on the lines w.
Serves(w, o, b, c) ==
  /\ c \in Box
  /\ c.relayPin = b.relayPin
  /\ Spared(w, o, b, c)
  /\ b.relayPin \notin Leds(w) /\ Reported(b) => Reported(c)

(***************************************************************************)
(* What two calls serve, the one after the other serves.                   *)
(***************************************************************************)
LEMMA ServesTransitive ==
  ASSUME NEW w, NEW o, NEW b, NEW c, NEW d, Serves(w, o, b, c), Serves(w, o, c, d)
  PROVE  Serves(w, o, b, d)
  BY DEF Serves, Spared

\* A procedure that does nothing serves.
LEMMA ServesReflexive ==
  ASSUME NEW w, NEW o, NEW b \in Box
  PROVE  Serves(w, o, b, b)
  BY DEF Serves, Spared

(***************************************************************************)
(* A transition moves the state when it is legal and refreshes.            *)
(***************************************************************************)
LEMMA Transition ==
  ASSUME NEW w \in Wirings, NEW o, NEW b \in Box, NEW s \in ChargingState
  PROVE  LET c == On(w, o)!transitionTo(b, s)
         IN  /\ Serves(w, o, b, c)
             /\ c.enabled = b.enabled
             /\ c.state = IF isValidTransition(b.state, s) THEN s ELSE b.state
<1>1. On(w, o)!isValidTransition(b.state, s) = isValidTransition(b.state, s)
  BY DEF On!isValidTransition, On!Successors, isValidTransition, Successors
<1>2. CASE b.state = s \/ ~isValidTransition(b.state, s)
  <2>1. On(w, o)!transitionTo(b, s) = b
    BY <1>1, <1>2 DEF On!transitionTo
  <2>2. QED
    BY <1>2, <2>1, ServesReflexive
<1>3. CASE b.state # s /\ isValidTransition(b.state, s)
  <2> DEFINE c == [b EXCEPT !.state = s]
  <2>1. /\ c \in Box /\ c.state = s /\ c.enabled = b.enabled
        /\ c.relayPin = b.relayPin /\ c.relay = b.relay /\ c.pin = b.pin
    BY DEF Box
  <2>2. On(w, o)!transitionTo(b, s) = On(w, o)!updateLeds(c)
    BY <1>1, <1>3 DEF On!transitionTo
  <2> HIDE DEF c
  <2>3. Writes(w, o, c, On(w, o)!updateLeds(c))
    BY <2>1, UpdateLeds
  <2>4. QED
    BY <1>3, <2>1, <2>2, <2>3 DEF Writes, Serves, Spared, Reported
<1>4. QED
  BY <1>2, <1>3

\* The machine has gone from b to state s.
Goes(w, o, b, c, s) == Serves(w, o, b, c) /\ c.enabled = b.enabled /\ c.state = s

(***************************************************************************)
(* A chain goes on from where its last transition went.                    *)
(***************************************************************************)
LEMMA GoesOn ==
  ASSUME NEW w \in Wirings, NEW o, NEW a, NEW b \in Box, NEW q, Goes(w, o, a, b, q),
         NEW s \in ChargingState, isValidTransition(q, s)
  PROVE  /\ On(w, o)!transitionTo(b, s) \in Box
         /\ Goes(w, o, a, On(w, o)!transitionTo(b, s), s)
<1>1. b.state = q
  BY DEF Goes
<1>2. Serves(w, o, b, On(w, o)!transitionTo(b, s)) /\ Goes(w, o, b, On(w, o)!transitionTo(b, s), s)
  BY <1>1, Transition DEF Goes
<1>3. QED
  BY <1>2, ServesTransitive DEF Goes, Serves

(***************************************************************************)
(* The machine's stop ends a session in IDLE, its start charges, and       *)
(* neither touches any other state.                                        *)
(***************************************************************************)
LEMMA SmStop ==
  ASSUME NEW w \in Wirings, NEW o, NEW b \in Box
  PROVE  Goes(w, o, b, On(w, o)!smStop(b),
              IF b.state \in {"CHARGING", "READY"} THEN "IDLE" ELSE b.state)
<1>1. CASE b.state \in {"CHARGING", "READY"}
  <2> DEFINE c == On(w, o)!transitionTo(b, "STOP")
             d == On(w, o)!transitionTo(c, "FINISHED")
             e == On(w, o)!transitionTo(d, "IDLE")
  <2>1. On(w, o)!smStop(b) = e
    BY <1>1 DEF On!smStop
  <2>2. Goes(w, o, b, b, b.state)
    BY ServesReflexive DEF Goes
  <2>3. c \in Box /\ Goes(w, o, b, c, "STOP")
    BY <1>1, <2>2, GoesOn DEF isValidTransition, Successors, ChargingState
  <2> HIDE DEF c
  <2>4. d \in Box /\ Goes(w, o, b, d, "FINISHED")
    BY <2>3, GoesOn DEF isValidTransition, Successors, ChargingState
  <2> HIDE DEF d
  <2>5. Goes(w, o, b, e, "IDLE")
    BY <2>4, GoesOn DEF isValidTransition, Successors, ChargingState
  <2>6. QED
    BY <1>1, <2>1, <2>5
<1>2. CASE b.state \notin {"CHARGING", "READY"}
  BY <1>2, ServesReflexive DEF On!smStop, Goes
<1>3. QED
  BY <1>1, <1>2

\* The machine's start goes to CHARGING from the states it takes, else nowhere.
LEMMA SmStart ==
  ASSUME NEW w \in Wirings, NEW o, NEW b \in Box
  PROVE  Goes(w, o, b, On(w, o)!smStart(b),
              IF b.state \in {"IDLE", "CONNECTED", "IDENTIFICATION", "READY"}
              THEN "CHARGING" ELSE b.state)
<1>1. Goes(w, o, b, b, b.state)
  BY ServesReflexive DEF Goes
<1>2. ASSUME NEW c \in Box, Goes(w, o, b, c, "READY")
      PROVE  Goes(w, o, b, On(w, o)!transitionTo(c, "CHARGING"), "CHARGING")
  BY <1>2, GoesOn DEF isValidTransition, Successors, ChargingState
<1>3. ASSUME NEW c \in Box, Goes(w, o, b, c, "IDENTIFICATION")
      PROVE  Goes(w, o, b,
               On(w, o)!transitionTo(On(w, o)!transitionTo(c, "READY"), "CHARGING"), "CHARGING")
  <2>1. /\ On(w, o)!transitionTo(c, "READY") \in Box
        /\ Goes(w, o, b, On(w, o)!transitionTo(c, "READY"), "READY")
    BY <1>3, GoesOn DEF isValidTransition, Successors, ChargingState
  <2>2. QED
    BY <1>2, <2>1
<1>4. ASSUME NEW c \in Box, Goes(w, o, b, c, "CONNECTED")
      PROVE  Goes(w, o, b, On(w, o)!transitionTo(On(w, o)!transitionTo(
               On(w, o)!transitionTo(c, "IDENTIFICATION"), "READY"), "CHARGING"), "CHARGING")
  <2>1. /\ On(w, o)!transitionTo(c, "IDENTIFICATION") \in Box
        /\ Goes(w, o, b, On(w, o)!transitionTo(c, "IDENTIFICATION"), "IDENTIFICATION")
    BY <1>4, GoesOn DEF isValidTransition, Successors, ChargingState
  <2>2. QED
    BY <1>3, <2>1
<1>5. CASE b.state = "IDLE"
  <2>1. /\ On(w, o)!transitionTo(b, "CONNECTED") \in Box
        /\ Goes(w, o, b, On(w, o)!transitionTo(b, "CONNECTED"), "CONNECTED")
    BY <1>1, <1>5, GoesOn DEF isValidTransition, Successors, ChargingState
  <2>2. QED
    BY <1>4, <1>5, <2>1 DEF On!smStart
<1>6. CASE b.state = "CONNECTED"
  BY <1>1, <1>4, <1>6 DEF On!smStart
<1>7. CASE b.state = "IDENTIFICATION"
  BY <1>1, <1>3, <1>7 DEF On!smStart
<1>8. CASE b.state = "READY"
  BY <1>1, <1>2, <1>8 DEF On!smStart
<1>9. CASE b.state \notin {"IDLE", "CONNECTED", "IDENTIFICATION", "READY"}
  BY <1>1, <1>9 DEF On!smStart
<1>10. QED
  BY <1>5, <1>6, <1>7, <1>8, <1>9

-----------------------------------------------------------------------------
(***************************************************************************)
(* The calls.  A charging box stays enabled.                               *)
(***************************************************************************)
LEMMA RelayServes ==
  ASSUME NEW w \in Wirings, NEW o, NEW b, NEW c \in Box, Serves(w, o, b, c),
         NEW on \in BOOLEAN
  PROVE  /\ Serves(w, o, b, On(w, o)!setRelayState(c, on))
         /\ On(w, o)!setRelayState(c, on).state = c.state
         /\ On(w, o)!setRelayState(c, on).enabled = c.enabled
<1>1. Writes(w, o, c, On(w, o)!setRelayState(c, on))
  BY SetRelay
<1>2. QED
  BY <1>1, ServesTransitive DEF Writes, Serves

\* Start and stop serve; stop comes to IDLE from a session of an enabled box.
LEMMA StartStop ==
  ASSUME NEW w \in Wirings, NEW o, NEW b \in Box
  PROVE  /\ Serves(w, o, b, On(w, o)!startCharging(b))
         /\ Guarded(b) => Guarded(On(w, o)!startCharging(b))
         /\ Serves(w, o, b, On(w, o)!stopCharging(b))
         /\ On(w, o)!stopCharging(b).enabled = b.enabled
         /\ On(w, o)!stopCharging(b).state =
              IF b.enabled /\ b.state \in {"CHARGING", "READY"} THEN "IDLE" ELSE b.state
<1>1. /\ Serves(w, o, b, On(w, o)!startCharging(b))
      /\ Guarded(b) => Guarded(On(w, o)!startCharging(b))
  <2>1. CASE b.enabled /\ b.state \in {"IDLE", "CONNECTED", "IDENTIFICATION", "READY"}
    <3>1. On(w, o)!startCharging(b) = On(w, o)!setRelayState(On(w, o)!smStart(b), TRUE)
      BY <2>1 DEF On!startCharging
    <3>2. /\ Serves(w, o, b, On(w, o)!smStart(b)) /\ On(w, o)!smStart(b) \in Box
          /\ On(w, o)!smStart(b).enabled = b.enabled
      BY SmStart DEF Goes, Serves
    <3>3. QED
      BY <2>1, <3>1, <3>2, RelayServes DEF Guarded
  <2>2. CASE ~(b.enabled /\ b.state \in {"IDLE", "CONNECTED", "IDENTIFICATION", "READY"})
    BY <2>2, ServesReflexive DEF On!startCharging
  <2>3. QED
    BY <2>1, <2>2
<1>2. /\ Serves(w, o, b, On(w, o)!stopCharging(b))
      /\ On(w, o)!stopCharging(b).enabled = b.enabled
      /\ On(w, o)!stopCharging(b).state =
           IF b.enabled /\ b.state \in {"CHARGING", "READY"} THEN "IDLE" ELSE b.state
  <2>1. CASE b.enabled /\ b.state \in {"CHARGING", "READY"}
    <3>1. On(w, o)!stopCharging(b) = On(w, o)!setRelayState(On(w, o)!smStop(b), FALSE)
      BY <2>1 DEF On!stopCharging
    <3>2. /\ Serves(w, o, b, On(w, o)!smStop(b)) /\ On(w, o)!smStop(b) \in Box
          /\ On(w, o)!smStop(b).enabled = b.enabled /\ On(w, o)!smStop(b).state = "IDLE"
      BY <2>1, SmStop DEF Goes, Serves
    <3> DEFINE c == On(w, o)!smStop(b)
               d == On(w, o)!setRelayState(c, FALSE)
    <3> HIDE DEF c
    <3>3. Serves(w, o, b, d) /\ d.state = c.state /\ d.enabled = c.enabled
      BY <3>2, RelayServes DEF c
    <3> HIDE DEF d
    <3>4. QED
      BY <2>1, <3>1, <3>2, <3>3 DEF c, d
  <2>2. CASE ~(b.enabled /\ b.state \in {"CHARGING", "READY"})
    BY <2>2, ServesReflexive DEF On!stopCharging
  <2>3. QED
    BY <2>1, <2>2
<1>3. QED
  BY <1>1, <1>2

\* So does the stop that disable and shutdown make.
LEMMA StopIfCharging ==
  ASSUME NEW w \in Wirings, NEW o, NEW b \in Box
  PROVE  /\ Serves(w, o, b, On(w, o)!stopIfCharging(b))
         /\ On(w, o)!stopIfCharging(b).enabled = b.enabled
         /\ On(w, o)!stopIfCharging(b).state =
              IF b.enabled /\ b.state = "CHARGING" THEN "IDLE" ELSE b.state
<1>1. CASE b.state = "CHARGING"
  BY <1>1, StartStop DEF On!stopIfCharging
<1>2. CASE b.state # "CHARGING"
  BY <1>2, ServesReflexive DEF On!stopIfCharging
<1>3. QED
  BY <1>1, <1>2

\* Pause and resume serve and refuse on a disabled box.
LEMMA PauseResume ==
  ASSUME NEW w \in Wirings, NEW o, NEW b \in Box
  PROVE  /\ Serves(w, o, b, On(w, o)!pauseCharging(b))
         /\ Guarded(b) => Guarded(On(w, o)!pauseCharging(b))
         /\ Serves(w, o, b, On(w, o)!resumeCharging(b))
         /\ Guarded(b) => Guarded(On(w, o)!resumeCharging(b))
<1>1. ASSUME NEW s \in {"READY", "CHARGING"}, b.enabled
      PROVE  /\ Serves(w, o, b, On(w, o)!transitionTo(b, s))
             /\ Guarded(On(w, o)!transitionTo(b, s))
  BY <1>1, Transition DEF Guarded, ChargingState
<1>2. QED
  BY <1>1, ServesReflexive DEF On!pauseCharging, On!resumeCharging

\* The flag, the relay and the LEDs of a box that is enabled or disabled.
Flagged(w, o, b, on) ==
  On(w, o)!updateLeds(On(w, o)!setRelayState([b EXCEPT !.enabled = on], on))

(***************************************************************************)
(* Enabling and disabling: the flag changes, a write to the relay and a    *)
(* refresh follow.                                                         *)
(***************************************************************************)
LEMMA EnableDisable ==
  ASSUME NEW w \in Wirings, NEW o, NEW b \in Box
  PROVE  /\ Serves(w, o, b, On(w, o)!enableWallbox(b))
         /\ Guarded(On(w, o)!enableWallbox(b))
         /\ Serves(w, o, b, On(w, o)!disableWallbox(b))
         /\ Guarded(b) => Guarded(On(w, o)!disableWallbox(b))
<1>1. ASSUME NEW c \in Box, NEW on \in BOOLEAN
      PROVE  /\ Serves(w, o, c, Flagged(w, o, c, on))
             /\ Flagged(w, o, c, on).enabled = on
             /\ Flagged(w, o, c, on).state = c.state
  <2> DEFINE e == [c EXCEPT !.enabled = on]
             f == On(w, o)!setRelayState(e, on)
  <2>1. /\ e \in Box /\ e.enabled = on /\ e.state = c.state /\ e.relayPin = c.relayPin
        /\ e.relay = c.relay /\ e.pin = c.pin
    BY DEF Box
  <2> HIDE DEF e
  <2>2. Writes(w, o, e, f)
    BY <2>1, SetRelay
  <2> HIDE DEF f
  <2>3. f \in Box
    BY <2>2 DEF Writes
  <2>4. Writes(w, o, e, On(w, o)!updateLeds(f))
    BY <2>2, <2>3, UpdateLeds, WritesTransitive
  <2>5. /\ Serves(w, o, c, On(w, o)!updateLeds(f))
        /\ On(w, o)!updateLeds(f).enabled = on /\ On(w, o)!updateLeds(f).state = c.state
    BY <2>1, <2>4 DEF Writes, Serves, Spared, Reported
  <2>6. QED
    BY <2>5 DEF e, f, Flagged
<1>2. /\ Serves(w, o, b, On(w, o)!enableWallbox(b))
      /\ Guarded(On(w, o)!enableWallbox(b))
  <2>1. On(w, o)!enableWallbox(b) = Flagged(w, o, b, TRUE)
    BY DEF On!enableWallbox, Flagged
  <2>2. QED
    BY <1>1, <2>1 DEF Guarded
<1>3. /\ Serves(w, o, b, On(w, o)!disableWallbox(b))
      /\ Guarded(b) => Guarded(On(w, o)!disableWallbox(b))
  <2> DEFINE c == On(w, o)!stopIfCharging(b)
  <2>1. /\ Serves(w, o, b, c) /\ c \in Box
        /\ c.state = IF b.enabled /\ b.state = "CHARGING" THEN "IDLE" ELSE b.state
    BY StopIfCharging DEF Serves
  <2>2. On(w, o)!disableWallbox(b) = Flagged(w, o, c, FALSE)
    BY DEF On!disableWallbox, Flagged
  <2> HIDE DEF c
  <2> DEFINE d == Flagged(w, o, c, FALSE)
  <2>3. Serves(w, o, c, d) /\ d.state = c.state
    BY <1>1, <2>1
  <2> HIDE DEF d
  <2>4. Guarded(b) => c.state # "CHARGING"
    BY <2>1 DEF Guarded
  <2>5. QED
    BY <2>1, <2>2, <2>3, <2>4, ServesTransitive DEF Guarded, d
<1>4. QED
  BY <1>2, <1>3

\* The box after the three edges of a message.
Edges(w, o, b, m) ==
  On(w, o)!applyContactor(On(w, o)!applyState(On(w, o)!applyEnable(b, m), m), m)

(***************************************************************************)
(* A message: its three edges one after the other.                         *)
(***************************************************************************)
LEMMA MessageServes ==
  ASSUME NEW w \in Wirings, NEW o, NEW b \in Box, Guarded(b), NEW m, m.contactor \in BOOLEAN
  PROVE  Serves(w, o, b, Edges(w, o, b, m)) /\ Guarded(Edges(w, o, b, m))
<1> DEFINE c == On(w, o)!applyEnable(b, m)
           d == On(w, o)!applyState(c, m)
           e == On(w, o)!applyContactor(d, m)
<1>1. Serves(w, o, b, c) /\ Guarded(c) /\ c \in Box
  <2>1. c \in {b, On(w, o)!enableWallbox(b), On(w, o)!disableWallbox(b)}
    BY DEF On!applyEnable
  <2>2. Serves(w, o, b, c) /\ Guarded(c)
    BY <2>1, EnableDisable, ServesReflexive
  <2>3. QED
    BY <2>2 DEF Serves
<1> HIDE DEF c
<1>2. Serves(w, o, b, d) /\ Guarded(d) /\ d \in Box
  <2>1. \/ d = c
        \/ d = On(w, o)!smStop(c)
        \/ d = On(w, o)!smStart(c) /\ c.enabled
    BY DEF On!applyState
  <2>2. Serves(w, o, c, d) /\ Guarded(d)
    BY <1>1, <2>1, SmStop, SmStart, ServesReflexive DEF Goes, Guarded
  <2>3. QED
    BY <1>1, <2>2, ServesTransitive DEF Serves
<1> HIDE DEF d
<1>3. Serves(w, o, b, e) /\ Guarded(e)
  <2>1. e = d \/ e = On(w, o)!setRelayState(d, m.contactor)
    BY DEF On!applyContactor
  <2>2. QED
    BY <1>2, <2>1, RelayServes DEF Guarded
<1> HIDE DEF e
<1>4. Edges(w, o, b, m) = e
  BY DEF c, d, e, Edges
<1>5. QED
  BY <1>3, <1>4

(***************************************************************************)
(* The end of the controller: an open relay line is low.                   *)
(***************************************************************************)
LEMMA TurnOff ==
  ASSUME NEW w \in Wirings, NEW o, NEW b \in Box
  PROVE  /\ Serves(w, o, b, On(w, o)!turnOff(b))
         /\ b.relayPin \in o => On(w, o)!turnOff(b).pin[b.relayPin] = "LOW"
<1> DEFINE c == On(w, o)!stopIfCharging(b)
<1>1. Serves(w, o, b, c) /\ c \in Box /\ c.relayPin = b.relayPin
  BY StopIfCharging DEF Serves
<1>2. On(w, o)!turnOff(b) = On(w, o)!setRelayState(c, FALSE)
  BY DEF On!turnOff
<1> HIDE DEF c
<1> DEFINE d == On(w, o)!setRelayState(c, FALSE)
<1>3. Serves(w, o, b, d)
  BY <1>1, RelayServes
<1>4. c.relayPin \in o => d.pin[c.relayPin] = RelayLevel(FALSE)
  BY <1>1, SetRelay
<1> HIDE DEF d
<1>5. QED
  BY <1>1, <1>2, <1>3, <1>4 DEF RelayLevel, d

\* b is a controller that has just set up the lines w, levels pin.
SetUp(w, o, pin, b) ==
  /\ b \in Box /\ b.relayPin = w.relay /\ b.relay = TRUE
  /\ b.state = "IDLE" /\ b.enabled = TRUE
  /\ \A p \in Pin : p \notin Leds(w) /\ (p # w.relay \/ p \notin o) => b.pin[p] = pin[p]

(***************************************************************************)
(* The start of the controller: its relay's flag is set, and of the lines  *)
(* that are no LED only the relay's may have been written.                 *)
(***************************************************************************)
LEMMA SetupGpio ==
  ASSUME NEW w \in Wirings, NEW o, NEW pin \in [Pin -> Level]
  PROVE  SetUp(w, o, pin, On(w, o)!setupGpio(pin))
<1> DEFINE new == [ state |-> "IDLE", enabled |-> TRUE, relay |-> TRUE,
                    relayPin |-> w.relay, pin |-> pin, blink |-> FALSE ]
           dark == On(w, o)!setLeds(new, "LOW", "LOW", "LOW")
           lit == [dark EXCEPT !.pin[w.relay] = On(w, o)!written(w.relay, @, "HIGH")]
<1>1. /\ new \in Box /\ new.state = "IDLE" /\ new.enabled = TRUE /\ new.relay = TRUE
      /\ new.relayPin = w.relay /\ new.pin = pin
  BY WiringLines DEF Box, ChargingState
<1>2. On(w, o)!setupGpio(pin) = lit
  BY DEF On!setupGpio
<1> HIDE DEF new
<1>3. Writes(w, o, new, dark) /\ dark.relay = new.relay /\ dark \in Box
  BY <1>1, SetLeds DEF Level, Writes
<1> HIDE DEF dark
<1>4. /\ lit \in Box /\ lit.state = dark.state /\ lit.enabled = dark.enabled
      /\ lit.relay = dark.relay /\ lit.relayPin = dark.relayPin
      /\ \A p \in Pin : p # w.relay \/ p \notin o => lit.pin[p] = dark.pin[p]
  BY <1>3, WiringLines DEF Box, On!written, Level
<1> HIDE DEF lit
<1>5. QED
  BY <1>1, <1>2, <1>3, <1>4 DEF SetUp, Writes, Spared

-----------------------------------------------------------------------------
(***************************************************************************)
(* The inductive invariant: a program that runs knows of the power on its  *)
(* line, and every other relay line that is on was left on by a program    *)
(* that is gone or has moved on.                                           *)
(***************************************************************************)
BoardOK ==
  /\ box \in Box
  /\ wiring \in Wirings
  /\ simple \in {"down", "off", "on"}

ControllerKnows ==
  Up => /\ simple = "down"
        /\ Guarded(box)
        /\ ~renamed => box.relayPin = wiring.relay /\ Reported(box)

SimpleKnows ==
  simple # "down" /\ Default.relay \in open
    => (box.pin[Default.relay] = "HIGH" <=> simple = "on")

Driven(p) ==
  \/ Up /\ p = box.relayPin /\ p \in open
  \/ simple # "down" /\ p = Default.relay /\ p \in open

Accounted ==
  \A p \in RelayLines : box.pin[p] = "HIGH" => p \in abandoned \/ Driven(p)

WInv == BoardOK /\ ControllerKnows /\ SimpleKnows /\ Accounted

\* Every relay line is a line, and no LED's in any wiring.
LEMMA RelayLineFacts ==
  /\ RelayLines \subseteq Pin
  /\ \A w \in Wirings : w.relay \in RelayLines
  /\ Default.relay \in RelayLines /\ RelayPin \in RelayLines
  /\ \A p \in RelayLines, w \in Wirings : p \notin Leds(w)
<1>1. Default \in Wirings /\ Shipped \in Wirings /\ Shipped.relay = RelayPin
  BY DEF Wirings, Shipped
<1>2. QED
  BY <1>1, WiringLines, WiringAssumption DEF RelayLines

(***************************************************************************)
(* Anything a running controller does that serves, and keeps a charging    *)
(* box enabled, keeps the invariant.                                       *)
(***************************************************************************)
LEMMA ServingKeeps ==
  ASSUME WInv, Up, Serves(wiring, open, box, box'), Guarded(box'), Abandons({}),
         UNCHANGED <<process, wiring, open, simple, renamed>>
  PROVE  WInv'
<1>1. BoardOK'
  BY DEF WInv, BoardOK, Serves
<1>2. ControllerKnows'
  <2>1. box'.relayPin = box.relayPin
    BY DEF Serves
  <2>2. ~renamed => Reported(box')
    BY RelayLineFacts DEF Serves, WInv, ControllerKnows, BoardOK
  <2>3. QED
    BY <2>1, <2>2 DEF WInv, ControllerKnows, Up, Guarded, Reported
<1>3. SimpleKnows'
  BY DEF WInv, ControllerKnows, SimpleKnows
<1>4. Accounted'
  <2> SUFFICES ASSUME NEW p \in RelayLines, box'.pin[p] = "HIGH"
               PROVE  p \in abandoned' \/ Driven(p)'
    BY DEF Accounted, RelayLines, Wirings, Shipped
  <2>1. p \in Pin /\ p \notin Leds(wiring)
    BY RelayLineFacts DEF WInv, BoardOK
  <2>2. CASE p = box.relayPin /\ p \in open
    BY <2>2 DEF Driven, Up, Serves
  <2>3. CASE p # box.relayPin \/ p \notin open
    <3>1. box.pin[p] = "HIGH"
      BY <2>1, <2>3 DEF Serves, Spared
    <3>2. p \in abandoned
      BY <2>3, <3>1 DEF WInv, Accounted, ControllerKnows, Driven
    <3>3. QED
      BY <3>2 DEF Abandons
  <2>4. QED
    BY <2>2, <2>3
<1>5. QED
  BY <1>1, <1>2, <1>3, <1>4 DEF WInv

\* A handler writes its own lines only and keeps flag and line together.
LEMMA ServeKeeps ==
  ASSUME WInv, Serve
  PROVE  WInv'
<1>1. PICK w \in {wiring}, o \in {open} :
        \/ On(w, o)!Start \/ On(w, o)!Stop \/ On(w, o)!Pause \/ On(w, o)!Resume
        \/ On(w, o)!Enable \/ On(w, o)!Disable \/ On(w, o)!Elapse \/ On(w, o)!Receive
  BY DEF Serve
<1>2. Up /\ process' = process
  BY <1>1 DEF Up, On!Start, On!Stop, On!Pause, On!Resume, On!Enable, On!Disable, On!Elapse,
    On!Receive, On!Handle, On!processNetworkMessage
<1>3. box \in Box /\ Guarded(box) /\ w \in Wirings
  BY <1>2 DEF WInv, BoardOK, ControllerKnows
<1>4. Serves(w, o, box, box') /\ Guarded(box')
  <2>1. CASE On(w, o)!Start \/ On(w, o)!Stop
    BY <1>3, <2>1, StartStop DEF On!Start, On!Stop, On!Handle, Guarded
  <2>2. CASE On(w, o)!Pause \/ On(w, o)!Resume
    BY <1>3, <2>2, PauseResume DEF On!Pause, On!Resume, On!Handle
  <2>3. CASE On(w, o)!Enable \/ On(w, o)!Disable
    BY <1>3, <2>3, EnableDisable DEF On!Enable, On!Disable, On!Handle
  <2>4. CASE On(w, o)!Receive
    <3>1. PICK m \in [ state : IsoStates, contactor : BOOLEAN, enable : EnableCmds ] :
            box' = Edges(w, o, box, m)
      BY <2>4 DEF On!Receive, On!processNetworkMessage, Edges
    <3>2. QED
      BY <1>3, <3>1, MessageServes
  <2>5. CASE On(w, o)!Elapse
    <3>1. box' = [box EXCEPT !.blink = ~@]
      BY <2>5 DEF On!Elapse
    <3>2. /\ box' \in Box /\ box'.state = box.state /\ box'.enabled = box.enabled
          /\ box'.relayPin = box.relayPin /\ box'.relay = box.relay /\ box'.pin = box.pin
      BY <1>3, <3>1 DEF Box
    <3>3. QED
      BY <1>3, <3>2 DEF Serves, Guarded, Spared, Reported
  <2>6. QED
    BY <1>1, <2>1, <2>2, <2>3, <2>4, <2>5
<1>5. Serves(wiring, open, box, box')
  BY <1>4
<1>6. Abandons({}) /\ UNCHANGED <<wiring, open, simple, renamed>>
  BY DEF Serve
<1>7. QED
  BY <1>2, <1>4, <1>5, <1>6, ServingKeeps

-----------------------------------------------------------------------------
(***************************************************************************)
(* The starts and ends of the controller.  One that starts has its relay's *)
(* flag set, so it reports what the line already carries; one that ends    *)
(* lowers the line if it may.                                              *)
(***************************************************************************)
LEMMA ControllerStarts ==
  ASSUME WInv, StartController
  PROVE  WInv'
<1>0. PICK w \in {wiring'}, o \in {open'} : On(w, o)!Restart
  BY DEF StartController
<1> DEFINE new == On(w, o)!setupGpio(box.pin)
<1>1. /\ Quiet /\ ~Driven(RelayPin) /\ \A p \in RelayLines : ~Driven(p)
      /\ simple' = "down" /\ renamed' = FALSE /\ wiring' \in Wirings /\ Abandons({})
  BY DEF StartController, Quiet, Driven, Up
<1>2. /\ new \in Box /\ new.relayPin = wiring'.relay /\ new.relay = TRUE
      /\ new.state = "IDLE" /\ new.enabled = TRUE
      /\ \A p \in Pin : p \notin Leds(wiring') /\ (p # wiring'.relay \/ p \notin open')
                          => new.pin[p] = box.pin[p]
  <2>1. box.pin \in [Pin -> Level] /\ w \in Wirings
    BY <1>1 DEF WInv, BoardOK, Box
  <2>2. SetUp(w, o, box.pin, new)
    BY <2>1, SetupGpio
  <2> HIDE DEF new
  <2>3. QED
    BY <2>2 DEF SetUp
<1> HIDE DEF new
<1>3. \/ box' = On(w, o)!updateLeds(new) /\ process' = "up"
      \/ box' = On(w, o)!turnOff(new) /\ process' = "stopped"
  BY <1>0 DEF On!Restart, new
<1>4. \/ process' = "up" /\ Serves(w, o, new, box') /\ Guarded(box')
      \/ /\ process' = "stopped" /\ Serves(w, o, new, box')
         /\ new.relayPin \in o => box'.pin[new.relayPin] = "LOW"
  <2>1. CASE box' = On(w, o)!updateLeds(new) /\ process' = "up"
    <3>1. Writes(w, o, new, box')
      BY <1>1, <1>2, <2>1, UpdateLeds
    <3>2. QED
      BY <1>2, <2>1, <3>1 DEF Writes, Serves, Guarded
  <2>2. CASE box' = On(w, o)!turnOff(new) /\ process' = "stopped"
    BY <1>1, <1>2, <2>2, TurnOff
  <2>3. QED
    BY <1>3, <2>1, <2>2
<1>5. Serves(wiring', open', new, box')
  BY <1>4
<1>6. BoardOK'
  BY <1>1, <1>5 DEF BoardOK, Serves
<1>7. ControllerKnows'
  <2> SUFFICES ASSUME Up'
               PROVE  /\ Guarded(box') /\ box'.relayPin = wiring'.relay /\ Reported(box')
    BY <1>1 DEF ControllerKnows, Guarded, Reported
  <2>1. Guarded(box')
    BY <1>4 DEF Up
  <2>2. new.relayPin \notin Leds(wiring') /\ Reported(new)
    BY <1>1, <1>2, RelayLineFacts DEF Reported
  <2>3. QED
    BY <1>2, <1>5, <2>1, <2>2 DEF Serves
<1>8. SimpleKnows'
  BY <1>1 DEF SimpleKnows
<1>9. Accounted'
  <2> SUFFICES ASSUME NEW p \in RelayLines, box'.pin[p] = "HIGH"
               PROVE  p \in abandoned' \/ Driven(p)'
    BY DEF Accounted, RelayLines, Wirings, Shipped
  <2>1. p \in Pin /\ p \notin Leds(wiring')
    BY <1>1, RelayLineFacts
  <2>2. CASE p = wiring'.relay /\ p \in open'
    BY <1>2, <1>4, <1>5, <2>2 DEF Driven, Up, Serves
  <2>3. CASE p # wiring'.relay \/ p \notin open'
    <3>1. box.pin[p] = "HIGH"
      BY <1>2, <1>5, <2>1, <2>3 DEF Serves, Spared
    <3>2. p \in abandoned
      BY <1>1, <3>1 DEF WInv, Accounted
    <3>3. QED
      BY <1>1, <3>2 DEF Abandons
  <2>4. QED
    BY <2>2, <2>3
<1>10. QED
  BY <1>6, <1>7, <1>8, <1>9 DEF WInv

\* After setrelay the old line is one that was left on.
LEMMA RenameKeeps ==
  ASSUME WInv, Rename
  PROVE  WInv'
<1>1. PICK q \in SettablePins : box' = [box EXCEPT !.relayPin = q]
  BY DEF Rename, SetRelayPin, Handle, setRelayPin
<1>2. /\ Up /\ process' = process /\ renamed' = TRUE /\ Abandons({box.relayPin})
      /\ UNCHANGED <<wiring, open, simple>>
  BY DEF Rename, SetRelayPin, Handle, Up
<1>3. /\ box' \in Box /\ box'.pin = box.pin /\ box'.state = box.state
      /\ box'.enabled = box.enabled
  BY <1>1, PinsAssumption DEF WInv, BoardOK, Box
<1>4. BoardOK' /\ ControllerKnows' /\ SimpleKnows'
  BY <1>2, <1>3 DEF WInv, BoardOK, ControllerKnows, SimpleKnows, Guarded, Up
<1>5. Accounted'
  <2> SUFFICES ASSUME NEW p \in RelayLines, box'.pin[p] = "HIGH"
               PROVE  p \in abandoned'
    BY DEF Accounted, RelayLines, Wirings, Shipped
  <2>1. p \in abandoned \/ p = box.relayPin
    BY <1>2, <1>3 DEF WInv, Accounted, ControllerKnows, Driven
  <2>2. QED
    BY <1>2, <2>1 DEF Abandons
<1>6. QED
  BY <1>4, <1>5 DEF WInv

(***************************************************************************)
(* What a program that is gone leaves counts as abandoned.                 *)
(***************************************************************************)
LEMMA GoneKeeps ==
  ASSUME WInv, Up, NEW pin \in [Pin -> Level], NEW how \in {"stopped", "crashed"},
         Gone(pin, how), NEW left, Abandons(left),
         \A p \in RelayLines : pin[p] = "HIGH" => p \in abandoned \cup left
  PROVE  WInv'
<1>1. /\ ~Up' /\ simple' = "down" /\ wiring' \in Wirings
      /\ box' = Remains(pin) /\ box'.pin = pin
  BY DEF Gone, Up, WInv, ControllerKnows, Wirings, Remains
<1>2. Remains(pin) \in Box
  BY PinsAssumption DEF Remains, Box, ChargingState
<1>3. BoardOK' /\ ControllerKnows' /\ SimpleKnows'
  BY <1>1, <1>2 DEF BoardOK, ControllerKnows, SimpleKnows
<1>4. Accounted'
  BY <1>1 DEF Accounted, Abandons, RelayLines, Wirings, Shipped
<1>5. QED
  BY <1>3, <1>4 DEF WInv

\* An orderly end writes LOW to its relay line, or never could write HIGH there.
LEMMA ShutKeeps ==
  ASSUME WInv, ShutController
  PROVE  WInv'
<1>0. PICK w \in {wiring}, o \in {open} : Gone(On(w, o)!turnOff(box).pin, "stopped")
  BY DEF ShutController
<1> DEFINE off == On(w, o)!turnOff(box)
<1>1. Up /\ Gone(off.pin, "stopped") /\ Abandons({})
  BY <1>0 DEF ShutController, Up
<1>2. /\ Serves(wiring, open, box, off)
      /\ box.relayPin \in open => off.pin[box.relayPin] = "LOW"
  <2>1. w \in Wirings /\ box \in Box
    BY DEF WInv, BoardOK
  <2>2. Serves(w, o, box, off) /\ (box.relayPin \in o => off.pin[box.relayPin] = "LOW")
    BY <2>1, TurnOff
  <2>3. QED
    BY <2>2
<1> HIDE DEF off
<1>3. off.pin \in [Pin -> Level]
  BY <1>2 DEF Serves, Box
<1>4. ASSUME NEW p \in RelayLines, off.pin[p] = "HIGH"
      PROVE  p \in abandoned
  <2>1. p \in Pin /\ p \notin Leds(wiring)
    BY RelayLineFacts DEF WInv, BoardOK
  <2>2. p # box.relayPin \/ p \notin open
    BY <1>2, <1>4
  <2>3. box.pin[p] = "HIGH"
    BY <1>2, <1>4, <2>1, <2>2 DEF Serves, Spared
  <2>4. QED
    BY <1>1, <2>2, <2>3 DEF WInv, Accounted, ControllerKnows, Driven
<1>5. QED
  BY <1>1, <1>3, <1>4, GoneKeeps

\* What a kill leaves on counts as left on.
LEMMA KillKeeps ==
  ASSUME WInv, KillController
  PROVE  WInv'
<1>1. /\ Up /\ Gone(box.pin, "crashed") /\ Abandons({box.relayPin})
      /\ box.pin \in [Pin -> Level]
  BY DEF KillController, Up, WInv, BoardOK, Box
<1>2. \A p \in RelayLines : box.pin[p] = "HIGH" => p \in abandoned \cup {box.relayPin}
  BY <1>1 DEF WInv, Accounted, ControllerKnows, Driven
<1>3. QED
  BY <1>1, <1>2, GoneKeeps

-----------------------------------------------------------------------------
(***************************************************************************)
(* The simple program: its flag follows its line where it may write it.    *)
(***************************************************************************)
LEMMA WriteRelay ==
  ASSUME WInv, NEW level \in Level, NEW ok, writeRelay(level, ok)
  PROVE  /\ box' \in Box
         /\ \A p \in Pin : p # Default.relay \/ p \notin ok => box'.pin[p] = box.pin[p]
         /\ Default.relay \in ok => box'.pin[Default.relay] = level
<1>1. Default.relay \in Pin /\ box \in Box
  BY RelayLineFacts DEF WInv, BoardOK
<1>2. QED
  BY <1>1 DEF writeRelay, Box

\* The simple program starts with its line off.
LEMMA SimpleStarts ==
  ASSUME WInv, StartSimple
  PROVE  WInv'
<1>1. /\ Quiet /\ \A p \in RelayLines : ~Driven(p)
      /\ writeRelay("LOW", open') /\ simple' = "off" /\ Abandons({})
      /\ ~Up' /\ UNCHANGED <<wiring, renamed>>
  BY DEF StartSimple, Quiet, Driven, Up
<1>2. /\ box' \in Box
      /\ \A p \in Pin : p # Default.relay \/ p \notin open' => box'.pin[p] = box.pin[p]
      /\ Default.relay \in open' => box'.pin[Default.relay] = "LOW"
  BY <1>1, WriteRelay DEF Level
<1>3. BoardOK' /\ ControllerKnows' /\ SimpleKnows'
  BY <1>1, <1>2 DEF WInv, BoardOK, ControllerKnows, SimpleKnows
<1>4. Accounted'
  <2> SUFFICES ASSUME NEW p \in RelayLines, box'.pin[p] = "HIGH"
               PROVE  p \in abandoned'
    BY DEF Accounted, RelayLines, Wirings, Shipped
  <2>1. box.pin[p] = "HIGH"
    BY <1>2, RelayLineFacts
  <2>2. QED
    BY <1>1, <2>1 DEF WInv, Accounted, Abandons
<1>5. QED
  BY <1>3, <1>4 DEF WInv

(***************************************************************************)
(* Relay on, relay off and the end, which lowers the line if it may.       *)
(***************************************************************************)
LEMMA SimpleWrites ==
  ASSUME WInv, NEW level \in {"LOW", "HIGH"}, simple # "down", writeRelay(level, open),
         Abandons({}), UNCHANGED <<process, wiring, open, renamed>>,
         \/ level = "HIGH" /\ simple' = "on"
         \/ level = "LOW" /\ simple' \in {"off", "down"}
  PROVE  WInv'
<1>1. ~Up /\ ~Up'
  BY DEF Up, WInv, ControllerKnows
<1>2. /\ box' \in Box
      /\ \A p \in Pin : p # Default.relay \/ p \notin open => box'.pin[p] = box.pin[p]
      /\ Default.relay \in open => box'.pin[Default.relay] = level
  BY WriteRelay DEF Level
<1>3. BoardOK' /\ ControllerKnows' /\ SimpleKnows'
  BY <1>1, <1>2 DEF WInv, BoardOK, ControllerKnows, SimpleKnows
<1>4. Accounted'
  <2> SUFFICES ASSUME NEW p \in RelayLines, box'.pin[p] = "HIGH"
               PROVE  p \in abandoned' \/ Driven(p)'
    BY DEF Accounted, RelayLines, Wirings, Shipped
  <2>1. CASE p = Default.relay /\ p \in open
    BY <1>2, <2>1 DEF Driven
  <2>2. CASE p # Default.relay \/ p \notin open
    <3>1. box.pin[p] = "HIGH"
      BY <1>2, <2>2, RelayLineFacts
    <3>2. QED
      BY <1>1, <2>2, <3>1 DEF WInv, Accounted, Abandons, Driven
  <2>3. QED
    BY <2>1, <2>2
<1>5. QED
  BY <1>3, <1>4 DEF WInv

\* A kill of the simple program leaves one line on at most, its own.
LEMMA SimpleKilled ==
  ASSUME WInv, KillSimple
  PROVE  WInv'
<1>1. /\ ~Up /\ ~Up' /\ simple' = "down" /\ Abandons({Default.relay})
      /\ UNCHANGED <<box, process, wiring>>
  BY DEF KillSimple, WInv, ControllerKnows, Up, controllerVars
<1>2. BoardOK' /\ ControllerKnows' /\ SimpleKnows'
  BY <1>1 DEF WInv, BoardOK, ControllerKnows, SimpleKnows
<1>3. Accounted'
  BY <1>1 DEF WInv, Accounted, Abandons, Driven, RelayLines, Wirings, Shipped
<1>4. QED
  BY <1>2, <1>3 DEF WInv

\* A reboot clears all lines.
LEMMA BoardRestarts ==
  ASSUME WInv, Reboot
  PROVE  WInv'
<1>1. /\ Quiet /\ box' = [box EXCEPT !.pin = Dark]
      /\ UNCHANGED <<process, wiring, simple>>
  BY DEF Reboot
<1>2. box' \in Box /\ \A p \in Pin : box'.pin[p] = "LOW"
  BY <1>1 DEF WInv, BoardOK, Box, Dark, Level
<1>3. BoardOK' /\ ControllerKnows' /\ SimpleKnows'
  BY <1>1, <1>2 DEF WInv, BoardOK, ControllerKnows, SimpleKnows, Quiet, Up
<1>4. Accounted'
  BY <1>2, RelayLineFacts DEF Accounted, RelayLines, Wirings, Shipped
<1>5. QED
  BY <1>3, <1>4 DEF WInv

-----------------------------------------------------------------------------
(***************************************************************************)
(* The invariant holds of every series of programs on the board.           *)
(***************************************************************************)
THEOREM WInvHolds == WiringSpec => []WInv
<1>1. WiringInit => WInv
  <2> SUFFICES ASSUME WiringInit
               PROVE  WInv
    OBVIOUS
  <2>1. /\ Dark \in [Pin -> Level] /\ \A p \in Pin : Dark[p] = "LOW"
        /\ box = Remains(Dark) /\ box.pin = Dark /\ ~Up /\ simple = "down"
        /\ wiring \in Wirings
    BY DEF WiringInit, Dark, Level, Up, Wirings, Remains
  <2>2. Remains(Dark) \in Box
    BY <2>1, PinsAssumption DEF Remains, Box, ChargingState
  <2>3. QED
    BY <2>1, <2>2, RelayLineFacts DEF WInv, BoardOK, ControllerKnows, SimpleKnows, Accounted
<1>2. WInv /\ [WiringNext]_wiringVars => WInv'
  <2> SUFFICES ASSUME WInv, [WiringNext]_wiringVars
               PROVE  WInv'
    OBVIOUS
  <2>1. CASE StartController
    BY <2>1, ControllerStarts
  <2>2. CASE Serve
    BY <2>2, ServeKeeps
  <2>3. CASE Rename
    BY <2>3, RenameKeeps
  <2>4. CASE ShutController
    BY <2>4, ShutKeeps
  <2>5. CASE KillController
    BY <2>5, KillKeeps
  <2>6. CASE StartSimple
    BY <2>6, SimpleStarts
  <2>7. CASE enableRelay
    BY <2>7, SimpleWrites DEF enableRelay
  <2>8. CASE disableRelay
    BY <2>8, SimpleWrites DEF disableRelay
  <2>9. CASE EndSimple
    BY <2>9, SimpleWrites DEF EndSimple
  <2>10. CASE KillSimple
    BY <2>10, SimpleKilled
  <2>11. CASE Reboot
    BY <2>11, BoardRestarts
  <2>12. CASE UNCHANGED wiringVars
    BY <2>12 DEF WInv, BoardOK, ControllerKnows, SimpleKnows, Accounted, Driven, Up, Guarded,
      Reported, wiringVars, controllerVars, boardVars, RelayLines, Wirings, Shipped
  <2>13. QED
    BY <2>1, <2>2, <2>3, <2>4, <2>5, <2>6, <2>7, <2>8, <2>9, <2>10, <2>11, <2>12
    DEF WiringNext
<1>3. QED
  BY <1>1, <1>2, PTL DEF WiringSpec

(***************************************************************************)
(* A running controller whose line was not renamed reports the power on    *)
(* its line, and the simple program that of a line it may write, whatever  *)
(* program ran before and whatever lines are refused.                      *)
(***************************************************************************)
THEOREM PowerReported == WiringSpec => []PowerIsReported
<1>1. WInv => PowerIsReported
  BY DEF WInv, ControllerKnows, SimpleKnows, PowerIsReported, Reported
<1>2. QED
  BY <1>1, WInvHolds, PTL

(***************************************************************************)
(* A relay line that is on while no program runs was left on by a program  *)
(* that was killed or told to use another line: no orderly end, taken as   *)
(* one step, and no start that fails leaves one.                           *)
(***************************************************************************)
THEOREM OnlyAbandoned == WiringSpec => []OnlyAbandonedStayOn
<1>1. WInv => OnlyAbandonedStayOn
  BY DEF WInv, Accounted, Driven, Quiet, Up, OnlyAbandonedStayOn
<1>2. QED
  BY <1>1, WInvHolds, PTL

(***************************************************************************)
(* A disabled box never charges, on any lines, also on ones that may not   *)
(* be written and after a renaming.                                        *)
(***************************************************************************)
THEOREM NeverCharges == WiringSpec => []DisabledNeverCharges
<1>1. WInv => DisabledNeverCharges
  BY DEF WInv, ControllerKnows, Guarded, DisabledNeverCharges
<1>2. QED
  BY <1>1, WInvHolds, PTL
=============================================================================
