------------------------- MODULE MCWallboxController -------------------------
(* WallboxController for TLC: five lines, the peer's states as strings. *)
EXTENDS WallboxController

AllPins == {"relay", "green", "yellow", "red", "spare"}
OnlyRelay == {"relay"}

\* The states processNetworkMessage has a case for, and one it has not.
PeerStates == {"idle", "ready", "charging", "stop", "connected"}

\* Every level a reader can notify.
AllLevels == CpState \ {"UNKNOWN"}
=============================================================================
