-------------------------- MODULE MCChargingThreads --------------------------
(* ChargingThreads for TLC. *)
EXTENDS ChargingThreads

CONSTANTS t1, t2

TwoThreads == {t1, t2}

\* The calls the built program makes: reset is called by the tests only, and
\* enterErrorState only for a CP level the pin reader cannot report.
ProgramCalls == {"start", "stop", "pause", "resume"}
=============================================================================
