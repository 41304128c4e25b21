---------------------------- MODULE WallboxAtomic ----------------------------
(***************************************************************************)
(* WallboxThreads while handlers do not overlap, against WallboxController: *)
(* a handler run to its end, step by step, does what WallboxController     *)
(* does at once.  settled is a history variable, the box at the last       *)
(* moment no handler ran; sent is the status of the last answer.           *)
(***************************************************************************)
EXTENDS WallboxThreads

VARIABLES settled, sent

Pins == {"relay", "green", "yellow", "red"}

Box == [state |-> state, enabled |-> enabled, relay |-> flag, line |-> line]

History == [box |-> Box, last |-> last, sent |-> sent]

(***************************************************************************)
(* The box of WallboxController.  The threads leave out the lines of the   *)
(* LEDs: they are those the refresh for this state writes as long as no    *)
(* toggle falls due.                                                       *)
(***************************************************************************)
shown(b) ==
  IF ~b.enabled \/ b.state \in {"OFF", "ERROR"} THEN <<"LOW", "LOW", "HIGH">>
  ELSE CASE b.state \in {"IDLE", "STOP", "FINISHED"} -> <<"LOW", "LOW", "LOW">>
         [] b.state = "CHARGING" -> <<"HIGH", "HIGH", "LOW">>
         [] OTHER -> <<"LOW", "HIGH", "LOW">>

AsBox(b) ==
  [ state |-> b.state, enabled |-> b.enabled, relay |-> b.relay, relayPin |-> "relay",
    blink |-> FALSE,
    pin |-> [ relay |-> IF b.line THEN "HIGH" ELSE "LOW",
              green |-> shown(b)[1], yellow |-> shown(b)[2], red |-> shown(b)[3] ] ]

Controller == INSTANCE WallboxController
  WITH Pin <- Pins, RelayPin <- "relay", GreenPin <- "green", YellowPin <- "yellow",
       RedPin <- "red", SettablePins <- {}, WritablePins <- Pins,
       IsoStates <- {"idle", "ready", "charging", "stop"},
       EnableCmds <- BOOLEAN, CpInputs <- {},
       box <- AsBox(settled.box), last <- settled.last, sent <- settled.sent,
       cp <- "UNKNOWN", process <- "up"

AtomicInit ==
  /\ Init
  /\ sent = Controller!NothingSent
  /\ settled = [box |-> Box, last |-> last, sent |-> sent]

\* sendStatusToSimulator, called once the statics are saved.
AtomicNext ==
  /\ Next
  /\ sent' = IF last' # last THEN Controller!status(AsBox(Box)) ELSE sent
  /\ settled' = IF Quiet' THEN History' ELSE settled

AtomicSpec == AtomicInit /\ [][AtomicNext]_<<vars, settled, sent>>

(***************************************************************************)
(* Handlers that do not overlap are atomic: what the controller is seen to *)
(* do between them is what WallboxController does.                         *)
(***************************************************************************)
ImplementsController == Controller!Spec

(***************************************************************************)
(* A box that has been disabled is dead as soon as the handler returns.    *)
(***************************************************************************)
SerialDisabledRests == DisabledRests /\ FlagRests
=============================================================================
