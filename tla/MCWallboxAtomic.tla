---------------------------- MODULE MCWallboxAtomic ----------------------------
(* WallboxAtomic for TLC: a console, a receiver, a monitor, every message. *)
EXTENDS WallboxAtomic

CONSTANTS console, udp, monitor

OneUser == {console}
Udp == {udp}
Cp == {monitor}

AllMessages == [state : {"idle", "ready", "charging", "stop"},
                contactor : BOOLEAN, enable : BOOLEAN]
=============================================================================
