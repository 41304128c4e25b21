---------------------------- MODULE ChargingStates ----------------------------
(***************************************************************************)
(* The constant part of class ChargingStateMachine: the nine states, the   *)
(* matrix of legal transitions, and the path each public call walks.       *)
(* ChargingThreads walks the paths one memory access at a time,            *)
(* ChargingStateMachine and WallboxController in one step.                 *)
(***************************************************************************)

ChargingState == {"OFF", "IDLE", "CONNECTED", "IDENTIFICATION", "READY",
                  "CHARGING", "STOP", "FINISHED", "ERROR"}

\* The states a call passes through and is meant never to stop in.
Transient == {"CONNECTED", "IDENTIFICATION", "STOP", "FINISHED"}

\* The states the program rests in between calls.  OFF is not among them: no
\* call of the class leads there.
Resting == {"IDLE", "READY", "CHARGING", "ERROR"}

\* Variant: a finished session has no way back to IDLE.
SuccessorsNoWayBack ==
  [ OFF            |-> {"IDLE", "ERROR"},
    IDLE           |-> {"CONNECTED", "OFF", "ERROR"},
    CONNECTED      |-> {"IDENTIFICATION", "IDLE", "ERROR"},
    IDENTIFICATION |-> {"READY", "IDLE", "ERROR"},
    READY          |-> {"CHARGING", "STOP", "IDLE", "ERROR"},
    CHARGING       |-> {"READY", "STOP", "ERROR"},
    STOP           |-> {"FINISHED", "ERROR"},
    FINISHED       |-> {"ERROR"},
    ERROR          |-> {"IDLE", "OFF"} ]

Successors ==
  [ OFF            |-> {"IDLE", "ERROR"},
    IDLE           |-> {"CONNECTED", "OFF", "ERROR"},
    CONNECTED      |-> {"IDENTIFICATION", "IDLE", "ERROR"},
    IDENTIFICATION |-> {"READY", "IDLE", "ERROR"},
    READY          |-> {"CHARGING", "STOP", "IDLE", "ERROR"},
    CHARGING       |-> {"READY", "STOP", "ERROR"},
    STOP           |-> {"FINISHED", "ERROR"},
    FINISHED       |-> {"IDLE", "ERROR"},
    ERROR          |-> {"IDLE", "OFF"} ]

isValidTransition(from, to) == to \in Successors[from]

-----------------------------------------------------------------------------
(***************************************************************************)
(* The public calls: startCharging, stopCharging, pauseCharging,           *)
(* resumeCharging, enterErrorState and reset.                              *)
(***************************************************************************)
AllCalls == {"start", "stop", "pause", "resume", "error", "reset"}

NoState == [s \in {} |-> s]

\* The state the first `if' of a call compares with; enterErrorState has none.
FirstTest == [ start  |-> "IDLE",  stop  |-> "CHARGING", pause |-> "CHARGING",
               resume |-> "READY", reset |-> "ERROR" ]

\* Variant: stop looks for a finished session instead of a ready one.
TestAfterFinished ==
  [ start  |-> [ IDLE           |-> "CONNECTED",
                 CONNECTED      |-> "IDENTIFICATION",
                 IDENTIFICATION |-> "READY" ],
    stop   |-> [ CHARGING |-> "FINISHED" ],
    pause  |-> NoState, resume |-> NoState, reset |-> NoState ]

\* The state the next comparison of the same call tests when one has failed.
TestAfter == [ start  |-> [ IDLE           |-> "CONNECTED",
                            CONNECTED      |-> "IDENTIFICATION",
                            IDENTIFICATION |-> "READY" ],
               stop   |-> [ CHARGING |-> "READY" ],
               pause  |-> NoState, resume |-> NoState, reset |-> NoState ]

\* Variant: reset switches the machine off.
FirstTargetResetToOff ==
  [ start  |-> [ IDLE           |-> "CONNECTED",
                 CONNECTED      |-> "IDENTIFICATION",
                 IDENTIFICATION |-> "READY",
                 READY          |-> "CHARGING" ],
    stop   |-> [ CHARGING |-> "STOP", READY |-> "STOP" ],
    pause  |-> [ CHARGING |-> "READY" ],
    resume |-> [ READY |-> "CHARGING" ],
    reset  |-> [ ERROR |-> "OFF" ] ]

\* The target of the first transition a call asks for once the test for s held.
FirstTarget == [ start  |-> [ IDLE           |-> "CONNECTED",
                              CONNECTED      |-> "IDENTIFICATION",
                              IDENTIFICATION |-> "READY",
                              READY          |-> "CHARGING" ],
                 stop   |-> [ CHARGING |-> "STOP", READY |-> "STOP" ],
                 pause  |-> [ CHARGING |-> "READY" ],
                 resume |-> [ READY |-> "CHARGING" ],
                 reset  |-> [ ERROR |-> "IDLE" ] ]

\* Variant: stop forgets the way back to IDLE.
PathEndsFinished ==
  [ start  |-> [ CONNECTED      |-> "IDENTIFICATION",
                 IDENTIFICATION |-> "READY",
                 READY          |-> "CHARGING" ],
    stop   |-> [ STOP |-> "FINISHED" ],
    pause  |-> NoState, resume |-> NoState, error |-> NoState,
    reset  |-> NoState ]

\* The target that follows a target in the && chain of a call; the chain ends
\* at a state outside the domain.
Path == [ start  |-> [ CONNECTED      |-> "IDENTIFICATION",
                       IDENTIFICATION |-> "READY",
                       READY          |-> "CHARGING" ],
          stop   |-> [ STOP |-> "FINISHED", FINISHED |-> "IDLE" ],
          pause  |-> NoState, resume |-> NoState, error |-> NoState,
          reset  |-> NoState ]

\* The states a call compares with, and the targets it can ask for.
Tested == [ start  |-> {"IDLE", "CONNECTED", "IDENTIFICATION", "READY"},
            stop   |-> {"CHARGING", "READY"},
            pause  |-> {"CHARGING"}, resume |-> {"READY"}, error |-> {},
            reset  |-> {"ERROR"} ]

Targets == [ start  |-> {"CONNECTED", "IDENTIFICATION", "READY", "CHARGING"},
             stop   |-> {"STOP", "FINISHED", "IDLE"},
             pause  |-> {"READY"}, resume |-> {"CHARGING"}, error |-> {"ERROR"},
             reset  |-> {"IDLE"} ]
=============================================================================
