---------------------------- MODULE WallboxThreads ----------------------------
(***************************************************************************)
(* The handlers of WallboxController as the threads of the program run     *)
(* them: the console and every HTTP request call start .. disable, the UDP *)
(* thread applies messages, the CP monitor stops a session when the        *)
(* vehicle leaves.  None of the members is protected, so every read and    *)
(* every write of one is a step.  A thread keeps a stack of frames; a      *)
(* frame is what is left to do of one procedure, and a procedure that      *)
(* returns false drops its frame.  The lines of the LEDs are in            *)
(* WallboxController, together with failing writes and renamed lines.      *)
(***************************************************************************)
EXTENDS Integers, Sequences, ChargingStates

CONSTANTS
  User,      \* the threads that make user calls: console, HTTP requests
  Receiver,  \* the thread that receives, if any
  Monitor,   \* the thread that watches the CP line, if any
  UserCalls, \* the calls the users make
  Messages,  \* the messages of the peer
  Overlap    \* whether a handler may begin while another is in progress

Handlers == {"start", "stop", "pause", "resume", "enable", "disable"}

ASSUME JobsAssumption ==
  /\ UserCalls \subseteq Handlers
  /\ Messages \subseteq [state : {"idle", "ready", "charging", "stop"},
                         contactor : BOOLEAN, enable : BOOLEAN]
  /\ Overlap \in BOOLEAN

Thread == User \cup Receiver \cup Monitor

VARIABLES
  state,    \* m_currentState of the state machine
  enabled,  \* m_wallboxEnabled
  flag,     \* m_relayEnabled
  line,     \* the level of the relay's line
  last,     \* the statics lastState, lastContactor, lastEnableCmd
  message,  \* the message the receiver is processing
  stack     \* for every thread the frames it is in, the innermost first

members == <<state, enabled, flag, line>>
vars == <<state, enabled, flag, line, last, message, stack>>

-----------------------------------------------------------------------------
(***************************************************************************)
(* What a frame is made of, and the procedures as frames.                  *)
(***************************************************************************)
op(at) == [at |-> at, call |-> "none", focus |-> "none", on |-> FALSE]
switch(at, on) == [op(at) EXCEPT !.on = on]
machine(at, c, s) == [op(at) EXCEPT !.call = c, !.focus = s]

setRelayState(on) == << switch("line", on), switch("flag", on) >>

\* The guard of the user calls, then the call of the state machine.
guarded(c) == << op("guard"), machine("enter", c, "none") >>

\* Variant: disable clears the flag first, and the guard of the stop it calls
\* finds the box disabled.
frameFlagFirst(h) ==
  CASE h = "start"   -> guarded("start") \o setRelayState(TRUE)
    [] h = "stop"    -> guarded("stop") \o setRelayState(FALSE)
    [] h = "pause"   -> guarded("pause")
    [] h = "resume"  -> guarded("resume")
    [] h = "enable"  -> << switch("able", TRUE) >> \o setRelayState(TRUE) \o << op("leds") >>
    [] h = "disable" -> << switch("able", FALSE), op("stopIfCharging") >>
                          \o setRelayState(FALSE) \o << op("leds") >>

frame(h) ==
  CASE h = "start"   -> guarded("start") \o setRelayState(TRUE)
    [] h = "stop"    -> guarded("stop") \o setRelayState(FALSE)
    [] h = "pause"   -> guarded("pause")
    [] h = "resume"  -> guarded("resume")
    [] h = "enable"  -> << switch("able", TRUE) >> \o setRelayState(TRUE) \o << op("leds") >>
    [] h = "disable" -> << op("stopIfCharging"), switch("able", FALSE) >>
                          \o setRelayState(FALSE) \o << op("leds") >>

processNetworkMessage ==
  << op("enableEdge"), op("stateEdge"), op("contactorEdge"), op("save") >>

\* A thread's stack after its next operation: it goes on, goes on after some
\* more operations, calls a procedure, or returns false.
Top(t) == stack[t][1][1]
Past(t) == IF Len(stack[t][1]) = 1 THEN Tail(stack[t])
           ELSE << Tail(stack[t][1]) >> \o Tail(stack[t])
Instead(t, ops) == << ops \o Tail(stack[t][1]) >> \o Tail(stack[t])
Into(t, f) == << f >> \o Past(t)
Failed(t) == Tail(stack[t])

Moves(t, st) == stack' = [stack EXCEPT ![t] = st]

Is(t, at) == stack[t] # <<>> /\ Top(t).at = at

Quiet == \A t \in Thread : stack[t] = <<>>

FirstLast == [state |-> "idle", contactor |-> FALSE, enable |-> TRUE]

\* initialize has run: setupGpio and the first refresh.
Init ==
  /\ state = "IDLE"
  /\ enabled = TRUE
  /\ flag = TRUE
  /\ line = TRUE
  /\ last = FirstLast
  /\ message = FirstLast
  /\ stack = [t \in Thread |-> <<>>]

-----------------------------------------------------------------------------
(***************************************************************************)
(* Handlers begin.                                                         *)
(***************************************************************************)
Begins(t, f) ==
  /\ stack[t] = <<>>
  /\ Overlap \/ Quiet
  /\ Moves(t, << f >>)

Call(t, h) ==
  /\ Begins(t, frame(h))
  /\ UNCHANGED <<members, last, message>>

\* A message without an edge is dropped.
Receive(t) ==
  /\ \E m \in Messages \ {last} : message' = m
  /\ Begins(t, processNetworkMessage)
  /\ UNCHANGED <<members, last>>

\* The CP level rises to A: no vehicle.
Unplug(t) ==
  /\ Begins(t, << op("stopIfCharging") >>)
  /\ UNCHANGED <<members, last, message>>

-----------------------------------------------------------------------------
(***************************************************************************)
(* The operations of the controller.                                       *)
(***************************************************************************)
Guard(t) ==
  /\ Is(t, "guard")
  /\ Moves(t, IF enabled THEN Past(t) ELSE Failed(t))
  /\ UNCHANGED <<members, last, message>>

StopIfCharging(t) ==
  /\ Is(t, "stopIfCharging")
  /\ Moves(t, IF state = "CHARGING" THEN Into(t, frame("stop")) ELSE Past(t))
  /\ UNCHANGED <<members, last, message>>

Able(t) ==
  /\ Is(t, "able")
  /\ enabled' = Top(t).on
  /\ Moves(t, Past(t))
  /\ UNCHANGED <<state, flag, line, last, message>>

Line(t) ==
  /\ Is(t, "line")
  /\ line' = Top(t).on
  /\ Moves(t, Past(t))
  /\ UNCHANGED <<state, enabled, flag, last, message>>

Flag(t) ==
  /\ Is(t, "flag")
  /\ flag' = Top(t).on
  /\ Moves(t, Past(t))
  /\ UNCHANGED <<state, enabled, line, last, message>>

\* updateLeds switches the relay off when the box is disabled ...
Leds(t) ==
  /\ Is(t, "leds")
  /\ Moves(t, Instead(t, IF enabled THEN << op("lit") >> ELSE setRelayState(FALSE)))
  /\ UNCHANGED <<members, last, message>>

\* ... and on when it is enabled and the relay is not.
Lit(t) ==
  /\ Is(t, "lit")
  /\ Moves(t, IF flag THEN Past(t) ELSE Instead(t, setRelayState(TRUE)))
  /\ UNCHANGED <<members, last, message>>

-----------------------------------------------------------------------------
(***************************************************************************)
(* The operations of the state machine, as in ChargingThreads, with        *)
(* updateLeds as the listener.                                             *)
(***************************************************************************)
Advance(t) ==
  LET o == Top(t)
  IN  IF o.focus \in DOMAIN Path[o.call]
      THEN Instead(t, << machine("same", o.call, Path[o.call][o.focus]) >>)
      ELSE Past(t)

Enter(t) ==
  /\ Is(t, "enter")
  /\ Moves(t, Instead(t, << machine("test", Top(t).call, FirstTest[Top(t).call]) >>))
  /\ UNCHANGED <<members, last, message>>

Test(t) ==
  /\ Is(t, "test")
  /\ LET o == Top(t)
     IN  Moves(t, IF state = o.focus
                  THEN Instead(t, << machine("same", o.call, FirstTarget[o.call][o.focus]) >>)
                  ELSE IF o.focus \in DOMAIN TestAfter[o.call]
                  THEN Instead(t, << machine("test", o.call, TestAfter[o.call][o.focus]) >>)
                  ELSE Failed(t))
  /\ UNCHANGED <<members, last, message>>

CheckSame(t) ==
  /\ Is(t, "same")
  /\ Moves(t, IF state = Top(t).focus THEN Advance(t)
              ELSE Instead(t, << [Top(t) EXCEPT !.at = "valid"] >>))
  /\ UNCHANGED <<members, last, message>>

\* Variant: every transition is taken for legal.
CheckValidNot(t) ==
  /\ Is(t, "valid")
  /\ Moves(t, Instead(t, << [Top(t) EXCEPT !.at = "write"] >>))
  /\ UNCHANGED <<members, last, message>>

CheckValid(t) ==
  /\ Is(t, "valid")
  /\ Moves(t, IF isValidTransition(state, Top(t).focus)
              THEN Instead(t, << [Top(t) EXCEPT !.at = "write"] >>)
              ELSE Failed(t))
  /\ UNCHANGED <<members, last, message>>

Write(t) ==
  /\ Is(t, "write")
  /\ state' = Top(t).focus
  /\ Moves(t, Instead(t, << op("leds"), [Top(t) EXCEPT !.at = "notify"] >>))
  /\ UNCHANGED <<enabled, flag, line, last, message>>

Notified(t) ==
  /\ Is(t, "notify")
  /\ Moves(t, Advance(t))
  /\ UNCHANGED <<members, last, message>>

-----------------------------------------------------------------------------
(***************************************************************************)
(* processNetworkMessage, edge by edge.                                    *)
(***************************************************************************)
EnableEdge(t) ==
  /\ Is(t, "enableEdge")
  /\ Moves(t, IF message.enable = last.enable \/ message.enable = enabled THEN Past(t)
              ELSE Into(t, frame(IF message.enable THEN "enable" ELSE "disable")))
  /\ UNCHANGED <<members, last, message>>

\* Variant: the peer's stop also ends a paused session.
StateEdgeStopsPaused(t) ==
  /\ Is(t, "stateEdge")
  /\ Moves(t,
       IF message.state = last.state THEN Past(t)
       ELSE CASE message.state \in {"idle", "stop"} /\ state # "IDLE" ->
                   Into(t, << machine("enter", "stop", "none") >>)
              [] message.state = "charging" /\ state = "IDLE" /\ last.state = "ready" ->
                   Into(t, << switch("ifRelay", TRUE) >> \o guarded("start"))
              [] OTHER -> Past(t))
  /\ UNCHANGED <<members, last, message>>

\* The state is read here, the relay and the enable flag a `charging' also
\* depends on after it.
StateEdge(t) ==
  /\ Is(t, "stateEdge")
  /\ Moves(t,
       IF message.state = last.state THEN Past(t)
       ELSE CASE \/ message.state = "idle" /\ state # "IDLE"
                 \/ message.state = "stop" /\ state = "CHARGING" ->
                   Into(t, << machine("enter", "stop", "none") >>)
              [] message.state = "charging" /\ state = "IDLE" /\ last.state = "ready" ->
                   Into(t, << switch("ifRelay", TRUE) >> \o guarded("start"))
              [] OTHER -> Past(t))
  /\ UNCHANGED <<members, last, message>>

\* Variant: the contactor is applied whether the box is enabled or not.
ContactorEdgeAlways(t) ==
  /\ Is(t, "contactorEdge")
  /\ Moves(t,
       IF message.contactor = last.contactor THEN Past(t)
       ELSE Into(t, << switch("ifRelay", ~message.contactor) >>
                      \o setRelayState(message.contactor)))
  /\ UNCHANGED <<members, last, message>>

ContactorEdge(t) ==
  /\ Is(t, "contactorEdge")
  /\ Moves(t,
       IF message.contactor = last.contactor THEN Past(t)
       ELSE Into(t, (IF message.contactor THEN << op("guard") >> ELSE <<>>)
                      \o << switch("ifRelay", ~message.contactor) >>
                      \o setRelayState(message.contactor)))
  /\ UNCHANGED <<members, last, message>>

IfRelay(t) ==
  /\ Is(t, "ifRelay")
  /\ Moves(t, IF flag = Top(t).on THEN Past(t) ELSE Failed(t))
  /\ UNCHANGED <<members, last, message>>

Save(t) ==
  /\ Is(t, "save")
  /\ last' = message
  /\ Moves(t, Past(t))
  /\ UNCHANGED <<members, message>>

Step(t) ==
  \/ Guard(t)
  \/ StopIfCharging(t)
  \/ Able(t)
  \/ Line(t)
  \/ Flag(t)
  \/ Leds(t)
  \/ Lit(t)
  \/ Enter(t)
  \/ Test(t)
  \/ CheckSame(t)
  \/ CheckValid(t)
  \/ Write(t)
  \/ Notified(t)
  \/ EnableEdge(t)
  \/ StateEdge(t)
  \/ ContactorEdge(t)
  \/ IfRelay(t)
  \/ Save(t)

Next ==
  \/ \E t \in User, h \in UserCalls : Call(t, h)
  \/ \E t \in Receiver : Receive(t)
  \/ \E t \in Monitor : Unplug(t)
  \/ \E t \in Thread : Step(t)

Spec == Init /\ [][Next]_vars

-----------------------------------------------------------------------------
Label == {"guard", "stopIfCharging", "able", "line", "flag", "leds", "lit", "enter",
          "test", "same", "valid", "write", "notify", "enableEdge", "stateEdge",
          "contactorEdge", "ifRelay", "save"}

\* An operation of the state machine is one of its call's path.
Op == { o \in [ at : Label, call : AllCalls \cup {"none"},
               focus : ChargingState \cup {"none"}, on : BOOLEAN ] :
          /\ o.at = "test" => o.focus \in Tested[o.call]
          /\ o.at \in {"same", "valid", "write", "notify"} => o.focus \in Targets[o.call] }

Image(f) == {f[i] : i \in DOMAIN f}

\* The operations a thread still has before it.
Pending(t) == UNION {Image(f) : f \in Image(stack[t])}

TypeOK ==
  /\ state \in ChargingState
  /\ enabled \in BOOLEAN
  /\ flag \in BOOLEAN
  /\ line \in BOOLEAN
  /\ last \in Messages \cup {FirstLast}
  /\ \A t \in Thread : \A f \in Image(stack[t]) : f # <<>> /\ Image(f) \subseteq Op

(***************************************************************************)
(* The controller uses its state machine the way ChargingThreads says: the *)
(* listeners run inside the call, no call nests in another, and nothing    *)
(* but the calls moves the state.  What ChargingThreads guarantees under   *)
(* every interleaving, NeverStranded and RestsWhenQuiet, so holds of the   *)
(* controller's threads.                                                   *)
(***************************************************************************)
Working(t) == {o \in Pending(t) : o.at \in {"test", "same", "valid", "write", "notify"}}

Work(t) == IF Working(t) = {} THEN machine("idle", "none", "none")
           ELSE CHOOSE o \in Working(t) : TRUE

Class == INSTANCE ChargingThreads
           WITH currentState <- state,
                pc <- [t \in Thread |-> Work(t).at],
                call <- [t \in Thread |-> Work(t).call],
                focus <- [t \in Thread |-> Work(t).focus],
                Calls <- {"start", "stop", "pause", "resume"},
                overlap <- TRUE

ImplementsClass == Class!Spec

\* No power and no charging session, as the lines and the members have it.
Dead == ~line /\ ~flag /\ state # "CHARGING"

\* A disabled box between two handlers.
Rested == Quiet /\ ~enabled /\ Dead

(***************************************************************************)
(* Once a box is disabled, dead and between two handlers, it stays without *)
(* power and without a charging session, whatever overlapping calls and    *)
(* messages follow, as long as nobody enables it: every way to the relay,  *)
(* the refreshes included, looks at the enable flag before.                *)
(***************************************************************************)
DeadStaysDead == [](Rested => []Dead)

(***************************************************************************)
(* A box at rest that is disabled carries no power and no session.  Held   *)
(* by handlers that do not overlap (module WallboxAtomic), not by others.  *)
(***************************************************************************)
DisabledRests == Quiet /\ ~enabled => ~line /\ state # "CHARGING"

-----------------------------------------------------------------------------
(* What the repository's documents say and overlapping handlers do not do. *)

(***************************************************************************)
(* Disabling a box stops its charging: once no handler runs any more, a    *)
(* disabled box is not one that charges with its relay closed.             *)
(***************************************************************************)
DisablingStopsCharging == Quiet /\ ~enabled => ~(line /\ state = "CHARGING")

(***************************************************************************)
(* The status the box reports tells the relay, once no handler runs.       *)
(***************************************************************************)
FlagRests == Quiet => flag = line
=============================================================================
