------------------------------ MODULE MCWebApp ------------------------------
(* WebApp for TLC: the stub's lines, one request of the timer under way    *)
(* besides the one a button waits for.                                     *)
EXTENDS WebApp

CONSTANT t1

AllPins == {"relay", "green", "yellow", "red"}
NoPins == {}
NoInputs == {}
OneTimer == {t1}
=============================================================================
