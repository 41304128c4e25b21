------------------------------ MODULE MCWiring ------------------------------
(* Wiring for TLC: the lines of config.json and those of Configuration, a  *)
(* peer that moves the contactor only.                                     *)
EXTENDS Wiring

AllPins == {"relay", "green", "yellow", "red",
            "d_relay", "d_green", "d_yellow", "d_red"}
DefaultLines == [ relay |-> "d_relay", green |-> "d_green",
                  yellow |-> "d_yellow", red |-> "d_red" ]

\* setrelay takes 0 to 27: never the line the shipped file names.
LowPins == {"d_relay", "d_green"}

\* Root, a relay's line another driver has claimed, an ordinary user.
ThreeRefusals == {{}, {"relay", "d_relay"}, AllPins}

PeerStates == {"idle"}
NoLevels == {}
=============================================================================
