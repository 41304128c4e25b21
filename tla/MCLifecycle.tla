---------------------------- MODULE MCLifecycle ----------------------------
(* Lifecycle for TLC: the stub's lines, one request at a time, a peer that *)
(* starts sessions or takes the box's enable flag along.                   *)
EXTENDS Lifecycle, ControlPilot, Settings

CONSTANT r1

AllPins == {"relay", "green", "yellow", "red"}
NoPins == {}
PeerStates == {"idle", "ready", "charging"}

\* What HardwareCpSignalReader can report.
PinLevels == Reported

\* Each program and mode, with the reader a word of the environment gives it.
Setup(mode, word) == [mode |-> mode, reader |-> Reader(word)]

AllSetups == { Setup("api", "prod"), Setup("interactive", "hw"), Setup("v2", "production"),
               Setup("v2api", "dev"), Setup("dual", "unset") }
DualHardware == {Setup("dual", "prod")}
OneRequest == {r1}

\* A session with the contactor, and a peer that disables.
FewMessages ==
  { [state |-> "idle",     contactor |-> FALSE, enable |-> TRUE],
    [state |-> "ready",    contactor |-> FALSE, enable |-> TRUE],
    [state |-> "charging", contactor |-> TRUE,  enable |-> TRUE],
    [state |-> "idle",     contactor |-> FALSE, enable |-> FALSE] }

StartDisable == {"start", "disable"}
=============================================================================
