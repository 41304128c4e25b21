----------------------------- MODULE ControlPilot -----------------------------
(***************************************************************************)
(* How HardwareCpSignalReader makes a level of the Control Pilot out of    *)
(* its line.  The line is digital: it stands for 12 V or 6 V, and of the   *)
(* bands of voltageToState only two are ever met.  Voltages are in mV.     *)
(***************************************************************************)
EXTENDS Integers

\* What the line may give: a value, or none when its file cannot be opened.
PinValue == {"LOW", "HIGH", "none"}

digitalRead(value) == IF value = "HIGH" THEN "HIGH" ELSE "LOW"

readVoltage(value) == IF digitalRead(value) = "HIGH" THEN 12000 ELSE 6000

voltageToState(mV) ==
  IF      mV > 11000  THEN "STATE_A"
  ELSE IF mV > 8000   THEN "STATE_B"
  ELSE IF mV > 5000   THEN "STATE_C"
  ELSE IF mV > 2000   THEN "STATE_D"
  ELSE IF mV > 500    THEN "STATE_E"
  ELSE IF mV < -10000 THEN "STATE_F"
  ELSE "UNKNOWN"

readCpState(value) == voltageToState(readVoltage(value))

\* What the reader can report at all.
Reported == {readCpState(value) : value \in PinValue}
=============================================================================
