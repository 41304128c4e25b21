--------------------------- MODULE ManualController ---------------------------
(***************************************************************************)
(* The first controller, main.cpp, a single loop: read one datagram of the *)
(* stack, look at the watchdog, switch the relay, report, read one line    *)
(* typed by the user.  Time passes where the loop waits, for the end of a  *)
(* line without limit.  It is counted since the last message of the stack, *)
(* in units of the constants.                                              *)
(***************************************************************************)
EXTENDS Integers

CONSTANTS
  Watchdog,   \* WATCHDOG_TMO, 2 s
  RecvWait,   \* the longest wait for a datagram, 200 ms
  InputWait   \* the longest wait for input, 10 ms

ASSUME WaitsAssumption ==
  /\ Watchdog \in Nat
  /\ RecvWait \in Nat
  /\ InputWait \in Nat

VARIABLES
  run,      \* g_run
  enable,   \* g_enable
  mainReq,  \* g_mainReq
  relay,    \* g_relayState, and the line, which is written when it changes
  age,      \* the time since g_lastRx
  told,     \* the last report to the stack
  pc,       \* where the loop is
  stalled   \* history: getline has waited since the last look at the watchdog

vars == <<run, enable, mainReq, relay, age, told, pc, stalled>>

\* How long the relay may outlive the last message: the watchdog's time, and
\* one round of the loop between two looks at it.
Grace == Watchdog + InputWait + RecvWait

MaxAge == Grace + 1 \* bound: what is older is all the same

Later(d) == IF age + d <= MaxAge THEN age + d ELSE MaxAge

Init ==
  /\ run = TRUE
  /\ enable = TRUE
  /\ mainReq = FALSE
  /\ relay = FALSE
  /\ age = 0
  /\ told = [enable |-> TRUE, contactor |-> FALSE]
  /\ pc = "while"
  /\ stalled = FALSE

-----------------------------------------------------------------------------
At(p, q) == pc = p /\ pc' = q

\* Variant: the loop's condition is not looked at.
whileForever ==
  /\ At("while", "recv")
  /\ UNCHANGED <<run, enable, mainReq, relay, age, told, stalled>>

while ==
  /\ \/ run /\ At("while", "recv")
     \/ ~run /\ At("while", "cleanup")
  /\ UNCHANGED <<run, enable, mainReq, relay, age, told, stalled>>

\* Variant: g_lastRx is set to the time the wait would have ended.
recv_stateAhead ==
  /\ At("recv", "decide")
  /\ \/ mainReq' \in BOOLEAN /\ age' = -RecvWait
     \/ \E d \in 0..RecvWait : age' = Later(d) /\ UNCHANGED mainReq
  /\ UNCHANGED <<run, enable, relay, told, stalled>>

\* A datagram that is too small or of another type is no message; a signal may
\* cut the wait short.
recv_state ==
  /\ At("recv", "decide")
  /\ \/ mainReq' \in BOOLEAN /\ age' = 0
     \/ \E d \in 0..RecvWait : age' = Later(d) /\ UNCHANGED mainReq
  /\ UNCHANGED <<run, enable, relay, told, stalled>>

\* Variant: a silent stack's last request stands.
decideNoWatchdog ==
  /\ At("decide", "send")
  /\ relay' = (enable /\ mainReq)
  /\ stalled' = FALSE
  /\ UNCHANGED <<run, enable, mainReq, age, told>>

\* setElectricity(wantOn).
decide ==
  /\ At("decide", "send")
  /\ relay' = (age <= Watchdog /\ enable /\ mainReq)
  /\ stalled' = FALSE
  /\ UNCHANGED <<run, enable, mainReq, age, told>>

\* Variant: the request is reported for the relay.
send_cmdRequest ==
  /\ At("send", "input")
  /\ told' = [enable |-> enable, contactor |-> mainReq]
  /\ UNCHANGED <<run, enable, mainReq, relay, age, stalled>>

send_cmd ==
  /\ At("send", "input")
  /\ told' = [enable |-> enable, contactor |-> relay]
  /\ UNCHANGED <<run, enable, mainReq, relay, age, stalled>>

\* Variant: disable leaves the relay to the next round.
process_commandLazy ==
  \/ enable' = TRUE /\ UNCHANGED <<run, relay>>
  \/ enable' = FALSE /\ UNCHANGED <<run, relay>>
  \/ run' = FALSE /\ UNCHANGED <<enable, relay>>
  \/ UNCHANGED <<run, enable, relay>>

\* The commands enable, disable and quit; the others change nothing.
process_command ==
  \/ enable' = TRUE /\ UNCHANGED <<run, relay>>
  \/ enable' = FALSE /\ relay' = FALSE /\ UNCHANGED run
  \/ run' = FALSE /\ UNCHANGED <<enable, relay>>
  \/ UNCHANGED <<run, enable, relay>>

\* select waits for input; there is input as soon as a line has begun.
input ==
  /\ \/ At("input", "while")
     \/ At("input", "getline")
  /\ \E d \in 0..InputWait : age' = Later(d)
  /\ UNCHANGED <<run, enable, mainReq, relay, told, stalled>>

\* The line goes on.  A signal does not end the wait: it restarts the read.
Typing ==
  /\ pc = "getline"
  /\ age' = Later(1)
  /\ stalled' = TRUE
  /\ UNCHANGED <<run, enable, mainReq, relay, told, pc>>

\* The line ends.
getline ==
  /\ At("getline", "while")
  /\ process_command
  /\ UNCHANGED <<mainReq, age, told, stalled>>

cleanup ==
  /\ At("cleanup", "ended")
  /\ relay' = FALSE
  /\ UNCHANGED <<run, enable, mainReq, age, told, stalled>>

on_sigint ==
  /\ pc # "ended"
  /\ run' = FALSE
  /\ UNCHANGED <<enable, mainReq, relay, age, told, pc, stalled>>

\* What the loop does by itself.
Loop ==
  \/ while
  \/ recv_state
  \/ decide
  \/ send_cmd
  \/ input
  \/ cleanup

Next ==
  \/ Loop
  \/ Typing
  \/ getline
  \/ on_sigint

Spec == Init /\ [][Next]_vars

\* Nobody has to end a line, and the loop cannot leave getline without.
FairSpec == Spec /\ WF_vars(Loop)

-----------------------------------------------------------------------------
TypeOK ==
  /\ run \in BOOLEAN
  /\ enable \in BOOLEAN
  /\ mainReq \in BOOLEAN
  /\ relay \in BOOLEAN
  /\ age \in 0..MaxAge
  /\ told \in [enable : BOOLEAN, contactor : BOOLEAN]
  /\ pc \in {"while", "recv", "decide", "send", "input", "getline", "cleanup", "ended"}
  /\ stalled \in BOOLEAN

(***************************************************************************)
(* The relay outlives the last message of the stack by more than the       *)
(* watchdog's time and one round of the loop only while getline waits for  *)
(* the rest of a line, and until the next look at the watchdog, which is   *)
(* looked at once a round, not by a timer.                                 *)
(***************************************************************************)
FreshOrOpen == relay /\ age > Grace => stalled

(***************************************************************************)
(* A disabled box has its relay open at every moment, from the command on: *)
(* no round that is under way closes it again.                             *)
(***************************************************************************)
DisabledIsOpen == ~enable => ~relay

(***************************************************************************)
(* What the stack has been told of the relay is wrong only between a       *)
(* decision and its report, in the round in which a user disabled the box, *)
(* and after the end.                                                      *)
(***************************************************************************)
ReportIsCurrent ==
  pc \notin {"send", "ended"} /\ told.contactor # relay => ~enable /\ told.enable

(***************************************************************************)
(* Told to end, by `quit' or by SIGINT at any place of the loop, the       *)
(* program ends, unless it waits for ever for the end of a line, the one   *)
(* wait of the loop that has no limit.                                     *)
(***************************************************************************)
QuitEnds == ~run ~> (pc = "ended" \/ [](pc = "getline"))
=============================================================================
