--------------------------- MODULE MCSimulatorLink ---------------------------
(* SimulatorLink for TLC: the stub's lines, the commands of a session. *)
EXTENDS SimulatorLink

AllPins == {"relay", "green", "yellow", "red"}
NoPins == {}
NoLevels == {}
SimulatorStates == {"idle", "ready", "charging", "stop"}

\* A session of states; the contactor stays off.
SessionCommands == {"off", "idle", "ready", "charge", "stop", "quit"}

\* Every call but start: sessions are the peer's.
NotStart == {"pause", "resume", "enable", "disable"}
=============================================================================
