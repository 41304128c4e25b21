------------------------- MODULE ChargingStateMachine -------------------------
(***************************************************************************)
(* What class ChargingStateMachine promises: every public call takes       *)
(* effect at once or not at all, and moves the machine between resting     *)
(* states only.  ChargingThreads implements this while its calls do not    *)
(* overlap; the controller's handlers implement it one handler at a time.  *)
(***************************************************************************)
EXTENDS ChargingStates

VARIABLE currentState

TypeOK == currentState \in Resting

Init == currentState = "IDLE"

startCharging == currentState \in {"IDLE", "READY"} /\ currentState' = "CHARGING"

stopCharging == currentState \in {"CHARGING", "READY"} /\ currentState' = "IDLE"

pauseCharging == currentState = "CHARGING" /\ currentState' = "READY"

resumeCharging == currentState = "READY" /\ currentState' = "CHARGING"

enterErrorState == currentState' = "ERROR"

reset == currentState = "ERROR" /\ currentState' = "IDLE"

Next ==
  \/ startCharging
  \/ stopCharging
  \/ pauseCharging
  \/ resumeCharging
  \/ enterErrorState
  \/ reset

Spec == Init /\ [][Next]_currentState
=============================================================================
