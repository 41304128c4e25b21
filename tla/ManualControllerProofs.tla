------------------------ MODULE ManualControllerProofs ------------------------
(***************************************************************************)
(* The safety of the first controller, for every length of its waits.      *)
(***************************************************************************)
EXTENDS ManualController, TLAPS

(***************************************************************************)
(* Adding a wait to an age gives an age, and at most the sum.              *)
(***************************************************************************)
LEMMA LaterAdds ==
  ASSUME NEW a \in 0..MaxAge, NEW d \in Nat, age = a
  PROVE  Later(d) \in 0..MaxAge /\ Later(d) <= a + d
BY WaitsAssumption DEF Later, MaxAge, Grace

(***************************************************************************)
(* Every step of main.cpp's loop keeps its globals well-formed.            *)
(***************************************************************************)
THEOREM TypeCorrect == Spec => []TypeOK
<1>1. Init => TypeOK
  <2>1. 0 \in 0..MaxAge
    BY WaitsAssumption DEF MaxAge, Grace
  <2>2. [enable |-> TRUE, contactor |-> FALSE] \in [enable : BOOLEAN, contactor : BOOLEAN]
    OBVIOUS
  <2> QED
    BY <2>1, <2>2 DEF Init, TypeOK
<1>2. TypeOK /\ [Next]_vars => TypeOK'
  <2> SUFFICES ASSUME TypeOK, [Next]_vars
               PROVE  TypeOK'
    OBVIOUS
  <2> USE DEF TypeOK
  <2>1. CASE while
    BY <2>1 DEF while, At
  <2>2. CASE recv_state
    <3>1. age' \in 0..MaxAge
      <4>1. CASE age' = 0
        BY <4>1, WaitsAssumption DEF MaxAge, Grace
      <4>2. CASE \E d \in 0..RecvWait : age' = Later(d)
        BY <4>2, LaterAdds, WaitsAssumption
      <4> QED
        BY <2>2, <4>1, <4>2 DEF recv_state
    <3> QED
      BY <2>2, <3>1 DEF recv_state, At
  <2>3. CASE decide
    BY <2>3 DEF decide, At
  <2>4. CASE send_cmd
    BY <2>4 DEF send_cmd, At
  <2>5. CASE input
    <3>1. age' \in 0..MaxAge
      <4>1. \E d \in Nat : age' = Later(d)
        BY <2>5, WaitsAssumption DEF input
      <4> QED
        BY <4>1, LaterAdds
    <3> QED
      BY <2>5, <3>1 DEF input, At
  <2>6. CASE cleanup
    BY <2>6 DEF cleanup, At
  <2>7. CASE on_sigint
    BY <2>7 DEF on_sigint
  <2>8. CASE UNCHANGED vars
    BY <2>8 DEF vars
  <2>9. CASE Typing
    <3>1. age' \in 0..MaxAge
      BY <2>9, LaterAdds DEF Typing
    <3> QED
      BY <2>9, <3>1 DEF Typing
  <2>10. CASE getline
    BY <2>10 DEF getline, At, process_command
  <2> QED
    BY <2>1, <2>2, <2>3, <2>4, <2>5, <2>6, <2>7, <2>8, <2>9, <2>10 DEF Next, Loop
<1> QED
  BY <1>1, <1>2, PTL DEF Spec

-----------------------------------------------------------------------------
(***************************************************************************)
(* How old the last message can be while the relay is on and no line holds *)
(* up the round, by the place of the loop: the watchdog's time when it has *)
(* just been looked at, and then one wait more for each wait that has      *)
(* passed.  A line that holds up is over before the next look.             *)
(***************************************************************************)
FreshAtPlace ==
  /\ pc \in {"send", "input"} => ~stalled
  /\ relay => pc # "ended"
  /\ relay /\ ~stalled
       => /\ pc \in {"send", "input"} => age <= Watchdog
          /\ pc \in {"getline", "while", "recv", "cleanup"} => age <= Watchdog + InputWait
          /\ pc = "decide" => age <= Grace

(***************************************************************************)
(* The watchdog is looked at often enough: unless a line that has begun    *)
(* holds up the loop, the relay of main.cpp never outlives the last        *)
(* message by more than Grace, for any waits.                              *)
(***************************************************************************)
THEOREM RelayIsFresh == Spec => []FreshOrOpen
<1>1. Init => FreshAtPlace
  BY DEF Init, FreshAtPlace
<1>2. TypeOK /\ FreshAtPlace /\ [Next]_vars => FreshAtPlace'
  <2> SUFFICES ASSUME TypeOK, FreshAtPlace, [Next]_vars
               PROVE  FreshAtPlace'
    OBVIOUS
  <2> USE DEF FreshAtPlace, TypeOK
  <2>1. CASE while
    BY <2>1 DEF while, At
  <2>2. CASE recv_state
    <3> SUFFICES ASSUME relay', ~stalled'
                 PROVE  age' <= Grace
      BY <2>2 DEF recv_state, At
    <3>1. age <= Watchdog + InputWait
      BY <2>2 DEF recv_state, At
    <3>2. CASE age' = 0
      BY <3>2, WaitsAssumption DEF Grace
    <3>3. CASE \E d \in 0..RecvWait : age' = Later(d)
      <4>1. PICK d \in 0..RecvWait : age' = Later(d)
        BY <3>3
      <4>2. d \in Nat /\ age \in Nat /\ age' \in Nat /\ age' <= age + d
        BY <4>1, LaterAdds, WaitsAssumption DEF MaxAge, Grace
      <4> QED
        BY <3>1, <4>2, WaitsAssumption DEF Grace
    <3> QED
      BY <2>2, <3>2, <3>3 DEF recv_state
  <2>3. CASE decide
    BY <2>3 DEF decide, At
  <2>4. CASE send_cmd
    BY <2>4 DEF send_cmd, At
  <2>5. CASE input
    <3>0. pc = "input" /\ pc' \in {"while", "getline"} /\ relay' = relay
      BY <2>5 DEF input, At
    <3> SUFFICES ASSUME relay'
                 PROVE  age' <= Watchdog + InputWait
      BY <3>0
    <3>1. relay /\ age <= Watchdog
      BY <3>0
    <3>2. PICK d \in 0..InputWait : age' = Later(d)
      BY <2>5, Zenon DEF input
    <3>3. d \in Nat /\ age \in Nat /\ age' \in Nat /\ age' <= age + d
      BY <3>2, LaterAdds, WaitsAssumption DEF MaxAge, Grace
    <3> QED
      BY <3>1, <3>3, WaitsAssumption
  <2>6. CASE cleanup
    BY <2>6 DEF cleanup, At
  <2>7. CASE on_sigint
    BY <2>7 DEF on_sigint
  <2>8. CASE UNCHANGED vars
    BY <2>8 DEF vars
  <2>9. CASE Typing
    BY <2>9 DEF Typing
  <2>10. CASE getline
    BY <2>10 DEF getline, At, process_command
  <2> QED
    BY <2>1, <2>2, <2>3, <2>4, <2>5, <2>6, <2>7, <2>8, <2>9, <2>10 DEF Next, Loop
<1>3. TypeOK /\ FreshAtPlace => FreshOrOpen
  BY WaitsAssumption DEF TypeOK, FreshAtPlace, FreshOrOpen, Grace, MaxAge
<1> QED
  BY <1>1, <1>2, <1>3, TypeCorrect, PTL DEF Spec

-----------------------------------------------------------------------------
(***************************************************************************)
(* What ReportIsCurrent rests on: a report is made of the flags as they    *)
(* are, and those of a disabled box say that the relay is open.            *)
(***************************************************************************)
Reported ==
  /\ DisabledIsOpen
  /\ pc \in {"input", "getline"} => told = [enable |-> enable, contactor |-> relay]
  /\ ReportIsCurrent

(***************************************************************************)
(* The flags of main.cpp and its report move together.                     *)
(***************************************************************************)
LEMMA ReportsFollow == Spec => []Reported
<1>1. Init => Reported
  <2> SUFFICES ASSUME Init
               PROVE  Reported
    OBVIOUS
  <2>1. told.contactor = relay
    BY DEF Init
  <2> QED
    BY <2>1 DEF Init, Reported, DisabledIsOpen, ReportIsCurrent
<1>2. TypeOK /\ Reported /\ [Next]_vars => Reported'
  <2> SUFFICES ASSUME TypeOK, Reported, [Next]_vars
               PROVE  Reported'
    OBVIOUS
  <2> USE DEF TypeOK, Reported, DisabledIsOpen, ReportIsCurrent
  <2>1. CASE while
    BY <2>1 DEF while, At
  <2>2. CASE recv_state
    BY <2>2 DEF recv_state, At
  <2>3. CASE decide
    BY <2>3 DEF decide, At
  <2>4. CASE send_cmd
    BY <2>4 DEF send_cmd, At
  <2>5. CASE input
    BY <2>5 DEF input, At
  <2>9. CASE Typing
    BY <2>9 DEF Typing
  <2>10. CASE getline
    <3>1. pc = "getline" /\ pc' = "while" /\ told' = told
      BY <2>10 DEF getline, At
    <3>2. told.enable = enable /\ told.contactor = relay
      BY <3>1
    <3>3. CASE relay' = relay /\ (enable' = enable \/ enable' = TRUE)
      <4>1. ~enable' => ~relay'
        BY <3>3
      <4> QED
        BY <3>1, <3>2, <3>3, <4>1
    <3>4. CASE ~enable' /\ ~relay'
      <4>1. CASE relay
        <5>1. enable
          BY <4>1
        <5> QED
          BY <3>1, <3>2, <3>4, <5>1
      <4>2. CASE ~relay
        <5>1. relay = FALSE /\ relay' = FALSE
          BY <4>2, <2>10, <3>4 DEF getline, process_command
        <5>2. told'.contactor = relay'
          BY <3>1, <3>2, <5>1
        <5> QED
          BY <3>1, <3>4, <5>2
      <4> QED
        BY <4>1, <4>2
    <3> QED
      BY <2>10, <3>3, <3>4 DEF getline, process_command
  <2>6. CASE cleanup
    BY <2>6 DEF cleanup, At
  <2>7. CASE on_sigint
    BY <2>7 DEF on_sigint
  <2>8. CASE UNCHANGED vars
    BY <2>8 DEF vars
  <2> QED
    BY <2>1, <2>2, <2>3, <2>4, <2>5, <2>6, <2>7, <2>8, <2>9, <2>10 DEF Next, Loop
<1> QED
  BY <1>1, <1>2, TypeCorrect, PTL DEF Spec

(***************************************************************************)
(* `disable' opens the relay, and nothing closes it before `enable'.       *)
(***************************************************************************)
THEOREM NoPowerWhileDisabled == Spec => []DisabledIsOpen
BY ReportsFollow, PTL DEF Reported

(***************************************************************************)
(* The stack's picture of the relay lags behind a `disable' only.          *)
(***************************************************************************)
THEOREM StackIsTold == Spec => []ReportIsCurrent
BY ReportsFollow, PTL DEF Reported
=============================================================================
