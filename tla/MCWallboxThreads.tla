--------------------------- MODULE MCWallboxThreads ---------------------------
(* WallboxThreads for TLC: a console, an HTTP request, a receiver. *)
EXTENDS WallboxThreads

CONSTANTS console, request, udp

Users == {console, request}
OneUser == {console}
Udp == {udp}
Nobody == {}

AllMessages == [state : {"idle", "ready", "charging", "stop"},
                contactor : BOOLEAN, enable : BOOLEAN]

\* Messages that do not enable the box.
Disabling == {m \in AllMessages : ~m.enable}

\* The console starts the session that the HTTP request forbids.
StartAndDisable == {"start", "disable"}

\* The handlers of one user, those that leave a disabled box so.
NotEnable == Handlers \ {"enable"}
=============================================================================
