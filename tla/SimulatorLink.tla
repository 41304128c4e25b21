---------------------------- MODULE SimulatorLink ----------------------------
(***************************************************************************)
(* The simulator at one end of two UDP sockets and WallboxController at    *)
(* the other.  The simulator sends its whole state every 100 ms; the       *)
(* controller acts on the differences between the messages it hears and    *)
(* answers only those.  Datagrams are lost, duplicated and overtake one    *)
(* another.                                                                *)
(***************************************************************************)
EXTENDS WallboxController, FiniteSets

CONSTANTS
  UserCalls,  \* the calls made at the box, by its console or its HTTP clients
  Commands,   \* the commands typed at the simulator
  MaxToBox,   \* bound: different datagrams on their way to the box
  MaxToSim    \* bound: different datagrams on their way to the simulator

\* The words the simulator's commands stand for are words the box may hear.
ASSUME LinkAssumption ==
  /\ MaxToBox \in Nat /\ MaxToSim \in Nat
  /\ {"idle", "ready", "charging", "stop"} \subseteq IsoStates /\ TRUE \in EnableCmds
  /\ UserCalls \subseteq {"start", "stop", "pause", "resume", "enable", "disable"}

VARIABLES
  run,      \* g_run
  g,        \* g_chargingState and g_mainContactorCmd
  shown,    \* prevEnableState: the last the simulator told its user of the box;
            \* prevRelayState, which is treated alike, is left out
  toBox,    \* datagrams on their way to the box
  toSim     \* datagrams on their way to the simulator

boxVars == <<box, last, sent, cp, process>>
linkVars == <<run, g, shown, toBox, toSim>>
allVars == <<boxVars, linkVars>>

FirstG == [state |-> "idle", contactor |-> FALSE]
FirstShown == TRUE

LinkInit ==
  /\ Init
  /\ run = TRUE
  /\ g = FirstG
  /\ shown = FirstShown
  /\ toBox = {}
  /\ toSim = {}

-----------------------------------------------------------------------------
(***************************************************************************)
(* The network.  A set of datagrams stands for every number of copies of   *)
(* each: a datagram is received and gone, or received and still on its     *)
(* way once more.  sendto never fails where the program could tell.        *)
(***************************************************************************)
Posted(wire, max, d) ==
  IF Cardinality(wire \cup {d}) <= max THEN wire \cup {d} ELSE wire

Lose ==
  /\ \/ \E d \in toBox : toBox' = toBox \ {d} /\ UNCHANGED toSim
     \/ \E d \in toSim : toSim' = toSim \ {d} /\ UNCHANGED toBox
  /\ UNCHANGED <<boxVars, run, g, shown>>

-----------------------------------------------------------------------------
(***************************************************************************)
(* The simulator: one loop that receives, sends when 100 ms have passed,   *)
(* and reads one command.  A round takes at most 60 ms, so some commands   *)
(* are never sent.                                                         *)
(***************************************************************************)
\* Variant: the source is enabled for a session only.
OfferEnables == [state |-> g.state, contactor |-> g.contactor, enable |-> g.state # "idle"]

\* The state send_state sends; sourceEnable is always 1.
Offer == [state |-> g.state, contactor |-> g.contactor, enable |-> TRUE]

\* Variant: nothing is sent while there is no vehicle.
send_stateActiveOnly ==
  /\ run
  /\ g # FirstG
  /\ toBox' = Posted(toBox, MaxToBox, Offer)
  /\ UNCHANGED <<boxVars, run, g, shown, toSim>>

send_state ==
  /\ run
  /\ toBox' = Posted(toBox, MaxToBox, Offer)
  /\ UNCHANGED <<boxVars, run, g, shown, toSim>>

\* Variant: the command's own word is sent.
StateOfWord == [idle |-> "idle", ready |-> "ready", charge |-> "charge", stop |-> "stop"]

\* The states the commands set; `on' and `off' set the contactor, `quit' ends
\* the process and its globals with it.
StateOf == [idle |-> "idle", ready |-> "ready", charge |-> "charging", stop |-> "stop"]

process_command ==
  /\ run
  /\ \E cmd \in Commands :
       \/ /\ cmd \in {"on", "off"}
          /\ g' = [g EXCEPT !.contactor = (cmd = "on")]
          /\ UNCHANGED <<run, shown>>
       \/ /\ cmd \in DOMAIN StateOf
          /\ g' = [g EXCEPT !.state = StateOf[cmd]]
          /\ UNCHANGED <<run, shown>>
       \/ /\ cmd = "quit"
          /\ run' = FALSE
          /\ g' = FirstG
          /\ shown' = FirstShown
  /\ UNCHANGED <<boxVars, toBox, toSim>>

\* The simulator is started again, on its initial state.
Rerun ==
  /\ ~run
  /\ run' = TRUE
  /\ UNCHANGED <<boxVars, g, shown, toBox, toSim>>

\* Variant: the flag is kept only when the box is enabled.
recv_cmdEnabledOnly(d) ==
  /\ run
  /\ d \in toSim
  /\ shown' = (d \/ shown)
  /\ toSim' = toSim \ {d}
  /\ UNCHANGED <<boxVars, run, g, toBox>>

\* What the box answers is shown and nothing else.
recv_cmd(d) ==
  /\ run
  /\ d \in toSim
  /\ shown' = d
  /\ toSim' = toSim \ {d}
  /\ UNCHANGED <<boxVars, run, g, toBox>>

Told == \E d \in toSim : recv_cmd(d)

-----------------------------------------------------------------------------
(***************************************************************************)
(* The box: its handlers as in WallboxController, with the datagrams for   *)
(* messages and the status of an edge sent back.                           *)
(***************************************************************************)
UserCall(call) ==
  CASE call = "start"   -> Start
    [] call = "stop"    -> Stop
    [] call = "pause"   -> Pause
    [] call = "resume"  -> Resume
    [] call = "enable"  -> Enable
    [] call = "disable" -> Disable

\* What the CP line adds, and an orderly end, is left to WallboxController.
AtBox ==
  /\ \/ \E call \in UserCalls : UserCall(call)
     \/ Crash
     \/ Restart
  /\ UNCHANGED linkVars

\* Datagrams that find no socket are gone: Lose.
Hear(d) ==
  /\ Up
  /\ d \in toBox
  /\ last' = d
  /\ \/ processNetworkMessage(d) /\ toSim' = Posted(toSim, MaxToSim, sent'.enable)
     \/ d = last /\ UNCHANGED <<boxVars, toSim>>
  /\ UNCHANGED <<run, g, shown>>

HearOnce(d) == toBox' = toBox \ {d} /\ Hear(d)

HearTwin(d) == toBox' = toBox /\ Hear(d)

Offers == [state : IsoStates, contactor : BOOLEAN, enable : BOOLEAN]

LinkNext ==
  \/ Lose
  \/ send_state
  \/ process_command
  \/ Rerun
  \/ Told
  \/ AtBox
  \/ \E d \in toBox : HearOnce(d)
  \/ \E d \in toBox : HearTwin(d)

LinkSpec == LinkInit /\ [][LinkNext]_allVars

(***************************************************************************)
(* The loops of both programs go on.  The network is fair enough to let    *)
(* through at some time what is sent time and again, and not to go on for  *)
(* ever copying what is no longer sent.                                    *)
(***************************************************************************)
HearCurrent == HearOnce(Offer)

HearStale == \E d \in toBox \ {Offer} : HearOnce(d)

FairLink ==
  /\ LinkSpec
  /\ WF_allVars(send_state)
  /\ SF_allVars(HearCurrent)
  /\ WF_allVars(HearStale)
  /\ SF_allVars(Told)

-----------------------------------------------------------------------------
LinkTypeOK ==
  /\ TypeOK
  /\ run \in BOOLEAN
  /\ g \in [state : IsoStates, contactor : BOOLEAN]
  /\ shown \in BOOLEAN
  /\ toBox \subseteq Offers /\ Cardinality(toBox) <= MaxToBox
  /\ toSim \subseteq BOOLEAN /\ Cardinality(toSim) <= MaxToSim

(***************************************************************************)
(* A box somebody has disabled is enabled by somebody at the box, or by a  *)
(* new process, and by nothing the simulator sends, resends or sends late  *)
(* ("wallbox manages its own enable state", simulator.cpp:304).            *)
(***************************************************************************)
LocalDisableStands ==
  [][Up /\ process' = "up" /\ ~box.enabled /\ box'.enabled => last' = last]_allVars

(***************************************************************************)
(* A box that has heard `idle' last is in no session, when sessions are    *)
(* started by the peer alone: whatever was overtaken, copied or lost, and  *)
(* whatever was paused or resumed before, `idle' ends it.                  *)
(***************************************************************************)
IdleEndsSession == Up /\ last.state = "idle" => box.state = "IDLE"

(***************************************************************************)
(* A command the simulator's user leaves standing is heard: however many   *)
(* datagrams are lost or late, the box ends up with the simulator's state  *)
(* as the last it knows.                                                   *)
(***************************************************************************)
PeerIsHeard ==
  <>[](Up /\ run) /\ <>[][g' = g]_allVars => <>[](last = Offer)

(***************************************************************************)
(* The simulator shows a disabled box as disabled sooner or later if its   *)
(* user goes on giving commands the box hears: each is an edge, and each   *)
(* edge is answered.                                                       *)
(***************************************************************************)
EdgesTellStatus ==
  /\ <>[](Up /\ run /\ ~box.enabled)
  /\ []<>(last.state = "ready")
  /\ []<>(last.state # "ready")
  => <>[](~shown)
=============================================================================
