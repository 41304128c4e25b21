------------------------ MODULE ChargingThreadsProofs ------------------------
(***************************************************************************)
(* What ChargingThreads keeps for every set of threads and of calls: the   *)
(* positions of the threads (TypeOK), that a transient state always has a  *)
(* thread that carries the machine out of it (NeverStranded), and so that  *)
(* the machine rests in a resting state when nobody calls it.  Without     *)
(* overlapping calls every change is legal.                                *)
(***************************************************************************)
EXTENDS ChargingThreads, TLAPS

\* The tables, expanded by the leaves that compute with states and calls.
USE DEF ChargingState, Transient, Resting, AllCalls, Label, NoState

-----------------------------------------------------------------------------
(***************************************************************************)
(* The chain of a call goes from target to target: what follows a target   *)
(* is again a target of the call and a legal move from it.                 *)
(***************************************************************************)
LEMMA PathIsLegal ==
  ASSUME NEW c \in AllCalls, NEW s \in Targets[c], s \in DOMAIN Path[c]
  PROVE  /\ Path[c][s] \in Targets[c]
         /\ Path[c][s] \in ChargingState
         /\ isValidTransition(s, Path[c][s])
  BY DEF Targets, Path, isValidTransition, Successors

(***************************************************************************)
(* No call ends in a transient state: each transient target has a          *)
(* successor in its chain.                                                 *)
(***************************************************************************)
LEMMA TransientGoesOn ==
  ASSUME NEW c \in AllCalls, NEW s \in Targets[c], s \in Transient
  PROVE  s \in DOMAIN Path[c]
  BY DEF Targets, Path

(***************************************************************************)
(* The first target after a comparison that held is a target of the call.  *)
(***************************************************************************)
LEMMA FirstTargetIsTarget ==
  ASSUME NEW c \in AllCalls \ {"error"}, NEW s \in Tested[c]
  PROVE  FirstTarget[c][s] \in Targets[c] /\ FirstTarget[c][s] \in ChargingState
  BY DEF Tested, Targets, FirstTarget

(***************************************************************************)
(* A comparison follows only comparisons of the same call; no comparison   *)
(* belongs to enterErrorState.                                             *)
(***************************************************************************)
LEMMA TestAfterIsTest ==
  ASSUME NEW c \in AllCalls \ {"error"}, NEW s \in Tested[c], s \in DOMAIN TestAfter[c]
  PROVE  TestAfter[c][s] \in Tested[c] /\ TestAfter[c][s] \in ChargingState
  BY DEF Tested, TestAfter

(***************************************************************************)
(* The comparison a call begins with is one of its comparisons.            *)
(***************************************************************************)
LEMMA FirstTestIsTest ==
  ASSUME NEW c \in AllCalls \ {"error"}
  PROVE  FirstTest[c] \in Tested[c] /\ FirstTest[c] \in ChargingState
  BY DEF Tested, FirstTest

-----------------------------------------------------------------------------
(***************************************************************************)
(* A thread past its comparisons is in a call and moves to a target of it. *)
(***************************************************************************)
LEMMA MovingHasTarget ==
  ASSUME TypeOK, NEW t \in Thread, pc[t] \notin {"idle", "test"}
  PROVE  /\ call[t] \in AllCalls
         /\ focus[t] \in Targets[call[t]]
         /\ focus[t] \in ChargingState
<1>1. call[t] \in AllCalls /\ focus[t] \in Targets[call[t]]
  BY DEF TypeOK
<1>2. QED
  BY <1>1 DEF Targets

(***************************************************************************)
(* Moving one thread to a label with a fitting state keeps the positions   *)
(* of all threads.                                                         *)
(***************************************************************************)
LEMMA GotoKeepsType ==
  ASSUME TypeOK, UNCHANGED overlap,
         NEW t \in Thread, NEW label \in Label, NEW s \in ChargingState,
         Goto(t, label, s), currentState' \in ChargingState,
         call[t] \in AllCalls, label # "idle",
         label = "test" => s \in Tested[call[t]],
         label # "test" => s \in Targets[call[t]]
  PROVE  TypeOK'
  BY DEF TypeOK, Goto

(***************************************************************************)
(* A call that returns leaves the other threads where they are.            *)
(***************************************************************************)
LEMMA ReturnKeepsType ==
  ASSUME TypeOK, UNCHANGED overlap, NEW t \in Thread, Return(t),
         currentState' \in ChargingState
  PROVE  TypeOK'
  BY DEF TypeOK, Return

(***************************************************************************)
(* So does a chain that goes on, or ends, after a transition.              *)
(***************************************************************************)
LEMMA AdvanceKeepsType ==
  ASSUME TypeOK, UNCHANGED overlap,
         NEW t \in Thread, Advance(t), currentState' \in ChargingState,
         pc[t] \notin {"idle", "test"}
  PROVE  TypeOK'
<1>1. call[t] \in AllCalls /\ focus[t] \in Targets[call[t]]
  BY MovingHasTarget
<1>2. CASE focus[t] \in DOMAIN Path[call[t]]
  <2>1. Goto(t, "same", Path[call[t]][focus[t]])
    BY <1>2 DEF Advance
  <2>2. /\ Path[call[t]][focus[t]] \in Targets[call[t]]
        /\ Path[call[t]][focus[t]] \in ChargingState
    BY <1>1, <1>2, PathIsLegal
  <2>3. QED
    BY <1>1, <2>1, <2>2, GotoKeepsType DEF Label
<1>3. CASE focus[t] \notin DOMAIN Path[call[t]]
  BY <1>3, ReturnKeepsType DEF Advance
<1>4. QED
  BY <1>2, <1>3

(***************************************************************************)
(* Every step of a thread keeps the positions.                             *)
(***************************************************************************)
LEMMA StepKeepsType ==
  ASSUME TypeOK, UNCHANGED overlap, NEW t \in Thread, Step(t)
  PROVE  TypeOK'
<1>1. CASE Test(t)
  <2>1. call[t] \in AllCalls \ {"error"} /\ focus[t] \in Tested[call[t]]
    BY <1>1 DEF Test, TypeOK, Tested
  <2>2. CASE currentState = focus[t]
    <3>1. Goto(t, "same", FirstTarget[call[t]][focus[t]])
      BY <1>1, <2>2 DEF Test
    <3>2. QED
      BY <1>1, <2>1, <3>1, FirstTargetIsTarget, GotoKeepsType DEF Test, TypeOK
  <2>3. CASE currentState # focus[t] /\ focus[t] \in DOMAIN TestAfter[call[t]]
    <3>1. Goto(t, "test", TestAfter[call[t]][focus[t]])
      BY <1>1, <2>3 DEF Test
    <3>2. QED
      BY <1>1, <2>1, <2>3, <3>1, TestAfterIsTest, GotoKeepsType DEF Test, TypeOK
  <2>4. CASE currentState # focus[t] /\ focus[t] \notin DOMAIN TestAfter[call[t]]
    BY <1>1, <2>4, ReturnKeepsType DEF Test, TypeOK
  <2>5. QED
    BY <2>2, <2>3, <2>4
<1>2. CASE CheckSame(t)
  <2>1. CASE currentState = focus[t]
    BY <1>2, <2>1, AdvanceKeepsType DEF CheckSame, TypeOK
  <2>2. CASE currentState # focus[t]
    BY <1>2, <2>2, MovingHasTarget, GotoKeepsType DEF CheckSame, TypeOK
  <2>3. QED
    BY <2>1, <2>2
<1>3. CASE CheckValid(t)
  <2>1. CASE isValidTransition(currentState, focus[t])
    <3>1. Goto(t, "write", focus[t]) /\ pc[t] = "valid" /\ UNCHANGED currentState
      BY <1>3, <2>1 DEF CheckValid
    <3>2. QED
      BY <3>1, MovingHasTarget, GotoKeepsType DEF TypeOK
  <2>2. CASE ~isValidTransition(currentState, focus[t])
    BY <1>3, <2>2, ReturnKeepsType DEF CheckValid, TypeOK
  <2>3. QED
    BY <2>1, <2>2
<1>4. CASE Write(t)
  <2>1. /\ pc[t] = "write"
        /\ currentState' = focus[t]
        /\ Goto(t, "notify", focus[t])
    BY <1>4 DEF Write
  <2>2. QED
    BY <2>1, MovingHasTarget, GotoKeepsType
<1>5. CASE Notify(t)
  BY <1>5, AdvanceKeepsType DEF Notify, TypeOK
<1>6. QED
  BY <1>1, <1>2, <1>3, <1>4, <1>5 DEF Step

(***************************************************************************)
(* Every thread is always at a position its call has, testing or moving to *)
(* a state of that call.                                                   *)
(***************************************************************************)
THEOREM TypeCorrect == Spec => []TypeOK
<1>1. Init => TypeOK
  BY DEF Init, TypeOK
<1>2. TypeOK /\ [Next]_vars => TypeOK'
  <2> SUFFICES ASSUME TypeOK, [Next]_vars
               PROVE  TypeOK'
    OBVIOUS
  <2>1. ASSUME NEW t \in Thread, Step(t), UNCHANGED overlap
        PROVE  TypeOK'
    BY <2>1, StepKeepsType
  <2>2. ASSUME NEW t \in Thread, NEW c \in Calls, Invoke(t, c), UNCHANGED overlap
        PROVE  TypeOK'
    <3>1. c \in AllCalls
      BY CallsAssumption
    <3>2. CASE c = "error"
      BY <2>2, <3>1, <3>2 DEF Invoke, TypeOK, Targets
    <3>3. CASE c # "error"
      BY <2>2, <3>1, <3>3, FirstTestIsTest DEF Invoke, TypeOK
    <3>4. QED
      BY <3>2, <3>3
  <2>3. CASE UNCHANGED vars
    BY <2>3 DEF vars, places, TypeOK
  <2>4. QED
    BY <2>1, <2>2, <2>3 DEF Next
<1>3. QED
  BY <1>1, <1>2, PTL DEF Spec

-----------------------------------------------------------------------------
(***************************************************************************)
(* A step of one thread, or a call it enters, leaves the position of every *)
(* other thread alone.                                                     *)
(***************************************************************************)
LEMMA OthersKeepTheirPlace ==
  ASSUME TypeOK, NEW t \in Thread, NEW u \in Thread, u # t,
         Step(t) \/ \E c \in Calls : Invoke(t, c)
  PROVE  pc'[u] = pc[u] /\ call'[u] = call[u] /\ focus'[u] = focus[u]
<1>1. ASSUME NEW label, NEW s, Goto(t, label, s)
      PROVE  pc'[u] = pc[u] /\ call'[u] = call[u] /\ focus'[u] = focus[u]
  BY <1>1 DEF Goto, TypeOK
<1>2. ASSUME Return(t)
      PROVE  pc'[u] = pc[u] /\ call'[u] = call[u] /\ focus'[u] = focus[u]
  BY <1>2 DEF Return, TypeOK
<1>3. CASE Step(t)
  BY <1>1, <1>2, <1>3
     DEF Step, Test, CheckSame, CheckValid, Write, Notify, Advance
<1>4. CASE \E c \in Calls : Invoke(t, c)
  BY <1>4 DEF Invoke, TypeOK
<1>5. QED
  BY <1>3, <1>4

(***************************************************************************)
(* A thread that carries the machine out of a transient state still does   *)
(* after its own step, unless that step moves the machine.                 *)
(***************************************************************************)
LEMMA CarrierGoesOn ==
  ASSUME TypeOK, NEW t \in Thread, Carries(t), Step(t), ~Write(t)
  PROVE  Carries(t)' /\ UNCHANGED currentState
<1>1. pc[t] \notin {"idle", "test"}
  BY DEF Carries
<1>2. /\ call[t] \in AllCalls
      /\ focus[t] \in Targets[call[t]]
      /\ focus[t] \in ChargingState
  BY <1>1, MovingHasTarget
<1>3. CASE CheckSame(t)
  <2>1. isValidTransition(currentState, focus[t])
    BY <1>3 DEF CheckSame, Carries
  <2>2. currentState # focus[t]
    BY <2>1 DEF isValidTransition, Successors, TypeOK
  <2>3. Goto(t, "valid", focus[t]) /\ UNCHANGED currentState
    BY <1>3, <2>2 DEF CheckSame
  <2>4. QED
    BY <2>1, <2>3 DEF Goto, Carries, TypeOK, isValidTransition
<1>4. CASE CheckValid(t)
  <2>1. isValidTransition(currentState, focus[t])
    BY <1>4 DEF CheckValid, Carries
  <2>2. Goto(t, "write", focus[t]) /\ UNCHANGED currentState
    BY <1>4, <2>1 DEF CheckValid
  <2>3. QED
    BY <2>1, <2>2 DEF Goto, Carries, TypeOK, isValidTransition
<1>5. CASE Notify(t)
  <2>1. focus[t] = currentState /\ focus[t] \in DOMAIN Path[call[t]]
    BY <1>5 DEF Notify, Carries
  <2>2. Goto(t, "same", Path[call[t]][focus[t]]) /\ UNCHANGED currentState
    BY <1>5, <2>1 DEF Notify, Advance
  <2>3. isValidTransition(currentState, Path[call[t]][focus[t]])
    BY <1>2, <2>1, PathIsLegal
  <2>4. QED
    BY <2>2, <2>3 DEF Goto, Carries, TypeOK, isValidTransition
<1>6. QED
  BY <1>1, <1>3, <1>4, <1>5 DEF Step, Test

(***************************************************************************)
(* A thread that has just written a transient state carries it.            *)
(***************************************************************************)
LEMMA WriterCarries ==
  ASSUME TypeOK, NEW t \in Thread, Write(t), currentState' \in Transient
  PROVE  Carries(t)'
<1>1. /\ pc[t] = "write"
      /\ currentState' = focus[t]
      /\ Goto(t, "notify", focus[t])
  BY DEF Write
<1>2. call[t] \in AllCalls /\ focus[t] \in Targets[call[t]]
  BY <1>1, MovingHasTarget
<1>3. focus[t] \in DOMAIN Path[call[t]]
  BY <1>1, <1>2, TransientGoesOn
<1>4. QED
  BY <1>1, <1>3 DEF Goto, Carries, TypeOK

(***************************************************************************)
(* Whatever the threads do to one another, a state in the middle of a call *)
(* always has a thread that moves the machine on.                          *)
(***************************************************************************)
THEOREM NoCallIsStranded == Spec => []NeverStranded
<1>1. Init => NeverStranded
  BY DEF Init, NeverStranded
<1>2. TypeOK /\ NeverStranded /\ [Next]_vars => NeverStranded'
  <2> SUFFICES ASSUME TypeOK, NeverStranded, [Next]_vars,
                      currentState' \in Transient
               PROVE  \E u \in Thread : Carries(u)'
    BY DEF NeverStranded
  <2>1. ASSUME NEW t \in Thread, Write(t)
        PROVE  \E u \in Thread : Carries(u)'
    BY <2>1, WriterCarries
  <2>2. ASSUME NEW t \in Thread, ~Write(t),
               Step(t) \/ \E c \in Calls : Invoke(t, c)
        PROVE  \E u \in Thread : Carries(u)'
    <3>1. UNCHANGED currentState
      BY <2>2 DEF Step, Test, CheckSame, CheckValid, Notify, Invoke
    <3>2. PICK u \in Thread : Carries(u)
      BY <3>1 DEF NeverStranded
    <3>3. CASE u # t
      <4>1. pc'[u] = pc[u] /\ call'[u] = call[u] /\ focus'[u] = focus[u]
        BY <2>2, <3>3, OthersKeepTheirPlace
      <4>2. Carries(u)'
        BY <3>1, <3>2, <4>1 DEF Carries, isValidTransition
      <4>3. QED
        BY <4>2
    <3>4. CASE u = t
      <4>1. Step(t)
        BY <2>2, <3>2, <3>4 DEF Invoke, Carries
      <4>2. QED
        BY <2>2, <3>2, <3>4, <4>1, CarrierGoesOn
    <3>5. QED
      BY <3>3, <3>4
  <2>3. CASE UNCHANGED vars
    <3>1. PICK u \in Thread : Carries(u)
      BY <2>3 DEF NeverStranded, vars, places
    <3>2. Carries(u)'
      BY <2>3, <3>1 DEF vars, places, Carries, isValidTransition
    <3>3. QED
      BY <3>2
  <2>4. QED
    BY <2>1, <2>2, <2>3 DEF Next
<1>3. QED
  BY <1>1, <1>2, TypeCorrect, PTL DEF Spec

-----------------------------------------------------------------------------
NeverOff == currentState # "OFF"

(***************************************************************************)
(* No call writes OFF.                                                     *)
(***************************************************************************)
LEMMA OffIsNeverReached == Spec => []NeverOff
<1>1. Init => NeverOff
  BY DEF Init, NeverOff
<1>2. TypeOK /\ NeverOff /\ [Next]_vars => NeverOff'
  <2> SUFFICES ASSUME TypeOK, NeverOff, [Next]_vars
               PROVE  NeverOff'
    OBVIOUS
  <2>1. ASSUME NEW t \in Thread, Write(t)
        PROVE  NeverOff'
    <3>1. call[t] \in AllCalls /\ focus[t] \in Targets[call[t]]
      BY <2>1, MovingHasTarget DEF Write
    <3>2. QED
      BY <2>1, <3>1 DEF Write, NeverOff, Targets
  <2>2. ASSUME NEW t \in Thread, ~Write(t),
               Step(t) \/ \E c \in Calls : Invoke(t, c)
        PROVE  NeverOff'
    BY <2>2 DEF Step, Test, CheckSame, CheckValid, Notify, Invoke, NeverOff
  <2>3. CASE UNCHANGED vars
    BY <2>3 DEF vars, places, NeverOff
  <2>4. QED
    BY <2>1, <2>2, <2>3 DEF Next
<1>3. QED
  BY <1>1, <1>2, TypeCorrect, PTL DEF Spec

(***************************************************************************)
(* When every call has returned the machine is in IDLE, READY, CHARGING or *)
(* ERROR, for any number of threads and any interleaving.                  *)
(***************************************************************************)
THEOREM RestsBetweenCalls == Spec => []RestsWhenQuiet
<1>1. TypeOK /\ NeverStranded /\ NeverOff => RestsWhenQuiet
  <2> SUFFICES ASSUME TypeOK, NeverStranded, NeverOff, Quiet
               PROVE  currentState \in Resting
    BY DEF RestsWhenQuiet
  <2>1. \A t \in Thread : ~Carries(t)
    BY DEF Quiet, Carries
  <2>2. currentState \notin Transient
    BY <2>1 DEF NeverStranded
  <2>3. QED
    BY <2>2 DEF TypeOK, NeverOff
<1>2. QED
  BY <1>1, TypeCorrect, NoCallIsStranded, OffIsNeverReached, PTL

-----------------------------------------------------------------------------
(***************************************************************************)
(* Calls that do not overlap.  At most one thread is inside a call, so the *)
(* state a transition was checked against is the state it is written over. *)
(***************************************************************************)
Exclusive ==
  ~overlap => \A t, u \in Thread : t # u => pc[t] = "idle" \/ pc[u] = "idle"

CheckedIsCurrent ==
  ~overlap =>
    \A t \in Thread : pc[t] = "write" => isValidTransition(currentState, focus[t])

(***************************************************************************)
(* Without overlap at most one thread is inside a call.                    *)
(***************************************************************************)
LEMMA CallsExclude == Spec => []Exclusive
<1>1. Init => Exclusive
  BY DEF Init, Exclusive
<1>2. TypeOK /\ Exclusive /\ [Next]_vars => Exclusive'
  <2> SUFFICES ASSUME TypeOK, Exclusive, [Next]_vars, ~overlap, UNCHANGED overlap
               PROVE  Exclusive'
    BY DEF Next, vars, Exclusive
  <2>1. ASSUME NEW t \in Thread, Step(t)
        PROVE  Exclusive'
    <3>1. pc[t] # "idle"
      BY <2>1 DEF Step, Test, CheckSame, CheckValid, Write, Notify
    <3>2. \A u \in Thread : u # t => pc[u] = "idle" /\ pc'[u] = "idle"
      BY <2>1, <3>1, OthersKeepTheirPlace DEF Exclusive
    <3>3. QED
      BY <3>2 DEF Exclusive
  <2>2. ASSUME NEW t \in Thread, NEW c \in Calls, Invoke(t, c)
        PROVE  Exclusive'
    <3>1. Quiet
      BY <2>2 DEF Invoke
    <3>2. \A u \in Thread : u # t => pc'[u] = "idle"
      BY <2>2, <3>1, OthersKeepTheirPlace DEF Quiet
    <3>3. QED
      BY <3>2 DEF Exclusive
  <2>3. CASE UNCHANGED vars
    BY <2>3 DEF vars, places, Exclusive
  <2>4. QED
    BY <2>1, <2>2, <2>3 DEF Next
<1>3. QED
  BY <1>1, <1>2, TypeCorrect, PTL DEF Spec

(***************************************************************************)
(* Without overlap a transition found legal is still legal when it is      *)
(* written: the two sides of the race in transitionTo are one thread's.    *)
(***************************************************************************)
LEMMA CheckStaysValid == Spec => []CheckedIsCurrent
<1>1. Init => CheckedIsCurrent
  BY DEF Init, CheckedIsCurrent
<1>2. TypeOK /\ Exclusive /\ CheckedIsCurrent /\ [Next]_vars => CheckedIsCurrent'
  <2> SUFFICES ASSUME TypeOK, Exclusive, CheckedIsCurrent, [Next]_vars,
                      ~overlap, NEW u \in Thread, pc'[u] = "write"
               PROVE  isValidTransition(currentState', focus'[u])
    BY DEF Next, vars, CheckedIsCurrent, isValidTransition
  <2>1. ASSUME NEW t \in Thread, Step(t)
        PROVE  isValidTransition(currentState', focus'[u])
    <3>1. pc[t] # "idle"
      BY <2>1 DEF Step, Test, CheckSame, CheckValid, Write, Notify
    <3>2. CASE u # t
      BY <2>1, <3>1, <3>2, OthersKeepTheirPlace DEF Exclusive
    <3>3. CASE u = t
      <4>1. CheckValid(t)
        BY <2>1, <3>3
           DEF Step, Test, CheckSame, Write, Notify, Advance, Goto, Return, TypeOK
      <4>2. QED
        BY <3>3, <4>1 DEF CheckValid, Goto, Return, TypeOK
    <3>4. QED
      BY <3>2, <3>3
  <2>2. ASSUME NEW t \in Thread, NEW c \in Calls, Invoke(t, c)
        PROVE  isValidTransition(currentState', focus'[u])
    <3>1. u # t
      BY <2>2 DEF Invoke, TypeOK
    <3>2. QED
      BY <2>2, <3>1, OthersKeepTheirPlace DEF Invoke, Quiet
  <2>3. CASE UNCHANGED vars
    BY <2>3 DEF vars, places, CheckedIsCurrent
  <2>4. QED
    BY <2>1, <2>2, <2>3 DEF Next
<1>3. QED
  BY <1>1, <1>2, TypeCorrect, CallsExclude, PTL DEF Spec

(***************************************************************************)
(* Every change of the state is in the matrix of isValidTransition when    *)
(* calls do not overlap: the two reads and the write of transitionTo need  *)
(* nothing more than that.                                                 *)
(***************************************************************************)
THEOREM SerialChangesAreLegal == Spec => LegalChanges
<1>1. CheckedIsCurrent /\ [Next]_vars
        => [~overlap => isValidTransition(currentState, currentState')]_currentState
  <2> SUFFICES ASSUME CheckedIsCurrent, [Next]_vars, currentState' # currentState,
                      ~overlap
               PROVE  isValidTransition(currentState, currentState')
    OBVIOUS
  <2>1. PICK t \in Thread : Write(t)
    BY DEF Next, Step, Test, CheckSame, CheckValid, Notify, Invoke, vars, places
  <2>2. QED
    BY <2>1 DEF Write, CheckedIsCurrent
<1>2. QED
  BY <1>1, CheckStaysValid, PTL DEF Spec, LegalChanges

-----------------------------------------------------------------------------
(***************************************************************************)
(* The promise of the class.  Leg lists what a call that runs alone can be *)
(* about to do: the call, the state it has found, the state it moves to.   *)
(***************************************************************************)
Leg ==
  { <<"start", "IDLE", "CONNECTED">>, <<"start", "CONNECTED", "IDENTIFICATION">>,
    <<"start", "IDENTIFICATION", "READY">>, <<"start", "READY", "CHARGING">>,
    <<"stop", "CHARGING", "STOP">>, <<"stop", "READY", "STOP">>,
    <<"stop", "STOP", "FINISHED">>, <<"stop", "FINISHED", "IDLE">>,
    <<"pause", "CHARGING", "READY">>, <<"resume", "READY", "CHARGING">>,
    <<"reset", "ERROR", "IDLE">>, <<"error", "IDLE", "ERROR">>,
    <<"error", "READY", "ERROR">>, <<"error", "CHARGING", "ERROR">>,
    <<"error", "ERROR", "ERROR">> }

\* A call that runs alone is on one of its legs; between calls, and while a
\* call compares, the machine rests.
Alone ==
  ~overlap =>
    /\ Quiet => currentState \in Resting
    /\ \A t \in Thread :
         /\ pc[t] = "test" => currentState \in Resting /\ call[t] # "error"
         /\ pc[t] = "notify" => currentState = focus[t]
         /\ pc[t] \in {"same", "valid", "write"}
              => <<call[t], currentState, focus[t]>> \in Leg

\* A thread outside the calls is in none of them.
IdleIsOut == \A t \in Thread : pc[t] = "idle" => call[t] = "none"

(***************************************************************************)
(* The call of a thread ends with the thread.                              *)
(***************************************************************************)
LEMMA CallEnds == Spec => []IdleIsOut
<1>1. Init => IdleIsOut
  BY DEF Init, IdleIsOut
<1>2. TypeOK /\ IdleIsOut /\ [Next]_vars => IdleIsOut'
  <2> SUFFICES ASSUME TypeOK, IdleIsOut, [Next]_vars,
                      NEW u \in Thread, pc'[u] = "idle"
               PROVE  call'[u] = "none"
    BY DEF IdleIsOut
  <2>1. ASSUME NEW t \in Thread, Step(t) \/ \E c \in Calls : Invoke(t, c)
        PROVE  call'[u] = "none"
    <3>1. CASE u # t
      BY <2>1, <3>1, OthersKeepTheirPlace DEF IdleIsOut
    <3>2. CASE u = t
      BY <2>1, <3>2
         DEF Step, Test, CheckSame, CheckValid, Write, Notify, Invoke, Advance,
             Goto, Return, TypeOK
    <3>3. QED
      BY <3>1, <3>2
  <2>2. CASE UNCHANGED vars
    BY <2>2 DEF vars, places, IdleIsOut
  <2>3. QED
    BY <2>1, <2>2 DEF Next
<1>3. QED
  BY <1>1, <1>2, TypeCorrect, PTL DEF Spec

(***************************************************************************)
(* Where the next target leads: what a comparison that holds asks for, and *)
(* what follows a target in its chain, is a leg.                           *)
(***************************************************************************)
LEMMA LegsOfACall ==
  ASSUME NEW c \in AllCalls
  PROVE  /\ \A s \in Tested[c] \cap Resting : <<c, s, FirstTarget[c][s]>> \in Leg
         /\ \A s \in Targets[c] \cap DOMAIN Path[c] : <<c, s, Path[c][s]>> \in Leg
         /\ \A s \in Targets[c] : s \notin DOMAIN Path[c] => s \in Resting
<1>1. CASE c = "start"
  BY <1>1 DEF Tested, Targets, Path, FirstTarget, Leg
<1>2. CASE c = "stop"
  BY <1>2 DEF Tested, Targets, Path, FirstTarget, Leg
<1>3. CASE c \in {"pause", "resume", "reset", "error"}
  BY <1>3 DEF Tested, Targets, Path, FirstTarget, Leg
<1>4. QED
  BY <1>1, <1>2, <1>3

(***************************************************************************)
(* A leg between different states is legal, and only a repeated            *)
(* enterErrorState has one that goes nowhere.                              *)
(***************************************************************************)
LEMMA LegsAreLegal ==
  ASSUME NEW c, NEW s, NEW n, <<c, s, n>> \in Leg
  PROVE  /\ isValidTransition(s, n) \/ (c = "error" /\ s = "ERROR")
         /\ c \in AllCalls /\ s \in ChargingState /\ n \in Targets[c]
         /\ s = n => c = "error" /\ s = "ERROR"
  BY DEF Leg, isValidTransition, Successors, Targets

(***************************************************************************)
(* While calls do not overlap, a call stays on its legs.                   *)
(***************************************************************************)
LEMMA CallsKeepToTheirLegs == Spec => []Alone
<1>1. Init => Alone
  BY DEF Init, Alone
<1>2. TypeOK /\ Exclusive /\ Alone /\ [Next]_vars => Alone'
  <2> SUFFICES ASSUME TypeOK, Exclusive, Alone, [Next]_vars, ~overlap, UNCHANGED overlap
               PROVE  Alone'
    BY DEF Next, vars, Alone
  <2>1. ASSUME NEW t \in Thread, Step(t)
        PROVE  Alone'
    <3>1. pc[t] # "idle" /\ ~Quiet
      BY <2>1 DEF Step, Test, CheckSame, CheckValid, Write, Notify, Quiet
    <3>2. \A u \in Thread : u # t => pc[u] = "idle" /\ pc'[u] = "idle"
      BY <2>1, <3>1, OthersKeepTheirPlace DEF Exclusive
    <3>3. ASSUME /\ pc'[t] = "idle" => currentState' \in Resting
                 /\ pc'[t] = "test" => currentState' \in Resting /\ call'[t] # "error"
                 /\ pc'[t] = "notify" => currentState' = focus'[t]
                 /\ pc'[t] \in {"same", "valid", "write"}
                      => <<call'[t], currentState', focus'[t]>> \in Leg
          PROVE  Alone'
      BY <3>2, <3>3 DEF Alone, Quiet
    <3>4. CASE Test(t)
      <4>1. /\ call[t] \in AllCalls \ {"error"} /\ focus[t] \in Tested[call[t]]
            /\ currentState \in Resting /\ UNCHANGED currentState
        BY <3>4 DEF Test, TypeOK, Tested, Alone
      <4>2. CASE currentState = focus[t]
        <5>1. Goto(t, "same", FirstTarget[call[t]][focus[t]])
          BY <3>4, <4>2 DEF Test
        <5>2. /\ pc'[t] = "same" /\ call'[t] = call[t]
              /\ focus'[t] = FirstTarget[call[t]][currentState]
          BY <4>2, <5>1 DEF Goto, TypeOK
        <5>3. QED
          BY <3>3, <4>1, <4>2, <5>2, LegsOfACall
      <4>3. CASE currentState # focus[t]
        <5>1. pc'[t] \in {"test", "idle"} /\ (pc'[t] = "test" => call'[t] = call[t])
          BY <3>4, <4>3 DEF Test, Goto, Return, TypeOK
        <5>2. QED
          BY <3>3, <4>1, <5>1
      <4>4. QED
        BY <4>2, <4>3
    <3>5. CASE CheckSame(t)
      <4>1. <<call[t], currentState, focus[t]>> \in Leg /\ UNCHANGED currentState
        BY <3>5 DEF CheckSame, Alone
      <4>2. CASE currentState = focus[t]
        <5>1. call[t] = "error" /\ currentState = "ERROR"
          BY <4>1, <4>2, LegsAreLegal
        <5>2. Return(t)
          BY <3>5, <4>2, <5>1 DEF CheckSame, Advance, Path
        <5>3. pc'[t] = "idle"
          BY <5>2 DEF Return, TypeOK
        <5>4. QED
          BY <3>3, <4>1, <5>1, <5>3
      <4>3. CASE currentState # focus[t]
        <5>1. pc'[t] = "valid" /\ call'[t] = call[t] /\ focus'[t] = focus[t]
          BY <3>5, <4>3 DEF CheckSame, Goto, TypeOK
        <5>2. QED
          BY <3>3, <4>1, <5>1
      <4>4. QED
        BY <4>2, <4>3
    <3>6. CASE CheckValid(t)
      <4>1. <<call[t], currentState, focus[t]>> \in Leg /\ UNCHANGED currentState
        BY <3>6 DEF CheckValid, Alone
      <4>2. CASE isValidTransition(currentState, focus[t])
        <5>1. pc'[t] = "write" /\ call'[t] = call[t] /\ focus'[t] = focus[t]
          BY <3>6, <4>2 DEF CheckValid, Goto, TypeOK
        <5>2. QED
          BY <3>3, <4>1, <5>1
      <4>3. CASE ~isValidTransition(currentState, focus[t])
        <5>1. currentState = "ERROR"
          BY <4>1, <4>3, LegsAreLegal
        <5>2. pc'[t] = "idle"
          BY <3>6, <4>3 DEF CheckValid, Return, TypeOK
        <5>3. QED
          BY <3>3, <4>1, <5>1, <5>2
      <4>4. QED
        BY <4>2, <4>3
    <3>7. CASE Write(t)
      <4>1. pc'[t] = "notify" /\ currentState' = focus[t] /\ focus'[t] = focus[t]
        BY <3>7 DEF Write, Goto, TypeOK
      <4>2. QED
        BY <3>3, <4>1
    <3>8. CASE Notify(t)
      <4>1. /\ call[t] \in AllCalls /\ focus[t] \in Targets[call[t]]
            /\ currentState = focus[t] /\ UNCHANGED currentState
        BY <3>8, MovingHasTarget DEF Notify, Alone
      <4>2. CASE focus[t] \in DOMAIN Path[call[t]]
        <5>1. Goto(t, "same", Path[call[t]][focus[t]])
          BY <3>8, <4>2 DEF Notify, Advance
        <5>2. /\ pc'[t] = "same" /\ call'[t] = call[t]
              /\ focus'[t] = Path[call[t]][currentState]
          BY <4>1, <5>1 DEF Goto, TypeOK
        <5>3. QED
          BY <3>3, <4>1, <4>2, <5>2, LegsOfACall
      <4>3. CASE focus[t] \notin DOMAIN Path[call[t]]
        <5>1. pc'[t] = "idle"
          BY <3>8, <4>3 DEF Notify, Advance, Return, TypeOK
        <5>2. QED
          BY <3>3, <4>1, <4>3, <5>1, LegsOfACall
      <4>4. QED
        BY <4>2, <4>3
    <3>9. QED
      BY <2>1, <3>4, <3>5, <3>6, <3>7, <3>8 DEF Step
  <2>2. ASSUME NEW t \in Thread, NEW c \in Calls, Invoke(t, c)
        PROVE  Alone'
    <3>1. Quiet /\ currentState \in Resting /\ UNCHANGED currentState
      BY <2>2 DEF Invoke, Alone
    <3>2. \A u \in Thread : u # t => pc'[u] = "idle"
      BY <2>2, <3>1, OthersKeepTheirPlace DEF Quiet
    <3>3. CASE c = "error"
      <4>1. pc'[t] = "same" /\ call'[t] = "error" /\ focus'[t] = "ERROR"
        BY <2>2, <3>3 DEF Invoke, TypeOK
      <4>2. <<call'[t], currentState', focus'[t]>> \in Leg
        BY <3>1, <4>1 DEF Leg
      <4>3. QED
        BY <3>2, <4>1, <4>2 DEF Alone, Quiet
    <3>4. CASE c # "error"
      <4>1. pc'[t] = "test" /\ call'[t] = c
        BY <2>2, <3>4 DEF Invoke, TypeOK
      <4>2. QED
        BY <3>1, <3>2, <3>4, <4>1 DEF Alone, Quiet
    <3>5. QED
      BY <3>3, <3>4
  <2>3. CASE UNCHANGED vars
    BY <2>3 DEF vars, places, Alone, Quiet
  <2>4. QED
    BY <2>1, <2>2, <2>3 DEF Next
<1>3. QED
  BY <1>1, <1>2, TypeCorrect, CallsExclude, PTL DEF Spec

(***************************************************************************)
(* What the promise sees when at most thread t is inside a call.           *)
(***************************************************************************)
LEMMA SettledAlone ==
  ASSUME IdleIsOut, NEW t \in Thread, \A u \in Thread : u # t => pc[u] = "idle"
  PROVE  settled =
           CASE currentState \in {"CONNECTED", "IDENTIFICATION"} -> "CHARGING"
             [] currentState = "READY" /\ call[t] = "start" /\ pc[t] # "test" -> "CHARGING"
             [] currentState \in {"STOP", "FINISHED"} -> "IDLE"
             [] OTHER -> currentState
<1>1. Committed("start") <=> call[t] = "start" /\ pc[t] # "test"
  BY DEF Committed, IdleIsOut
<1>2. QED
  BY <1>1, Zenon DEF settled

(***************************************************************************)
(* Calls that do not overlap implement what the class promises: each takes *)
(* effect in one step, the one in which the machine leaves the state it    *)
(* found, or for a start out of READY the comparison that settles it.      *)
(***************************************************************************)
THEOREM SerialCallsKeepPromise == Spec => ImplementsPromise
<1>1. Init => Promise!Init
  BY DEF Init, Promise!Init, settled, Committed
<1>2. /\ TypeOK /\ Exclusive /\ Alone /\ IdleIsOut /\ IdleIsOut'
      /\ [Next]_vars
      => [~overlap => Promise!Next]_settled
  <2> SUFFICES ASSUME TypeOK, Exclusive, Alone, IdleIsOut, IdleIsOut', [Next]_vars,
                      ~overlap
               PROVE  Promise!Next \/ settled' = settled
    OBVIOUS
  <2>1. ASSUME NEW t \in Thread, Step(t)
        PROVE  Promise!Next \/ settled' = settled
    <3>1. \A u \in Thread : u # t => pc[u] = "idle" /\ pc'[u] = "idle"
      <4>1. pc[t] # "idle"
        BY <2>1 DEF Step, Test, CheckSame, CheckValid, Write, Notify
      <4>2. QED
        BY <2>1, <4>1, OthersKeepTheirPlace DEF Exclusive
    <3>2. settled =
            CASE currentState \in {"CONNECTED", "IDENTIFICATION"} -> "CHARGING"
              [] currentState = "READY" /\ call[t] = "start" /\ pc[t] # "test" -> "CHARGING"
              [] currentState \in {"STOP", "FINISHED"} -> "IDLE"
              [] OTHER -> currentState
      BY <3>1, SettledAlone
    <3>3. settled' =
            CASE currentState' \in {"CONNECTED", "IDENTIFICATION"} -> "CHARGING"
              [] currentState' = "READY" /\ call'[t] = "start" /\ pc'[t] # "test" -> "CHARGING"
              [] currentState' \in {"STOP", "FINISHED"} -> "IDLE"
              [] OTHER -> currentState'
      <4>1. Committed("start")' <=> call'[t] = "start" /\ pc'[t] # "test"
        BY <3>1 DEF Committed, IdleIsOut
      <4>2. QED
        BY <4>1, Zenon DEF settled
    <3>4. CASE Test(t)
      <4>1. /\ pc[t] = "test" /\ currentState \in Resting /\ UNCHANGED currentState
            /\ focus[t] \in Tested[call[t]] /\ call[t] \in AllCalls \ {"error"}
        BY <3>4 DEF Test, Alone, TypeOK
      <4>2. settled = currentState
        BY <3>2, <4>1
      <4>3. CASE currentState = focus[t]
        <5>1. Goto(t, "same", FirstTarget[call[t]][focus[t]])
          BY <3>4, <4>3 DEF Test
        <5>2. pc'[t] = "same" /\ call'[t] = call[t]
          BY <5>1 DEF Goto, TypeOK
        <5>3. CASE currentState = "READY" /\ call[t] = "start"
          BY <3>3, <4>1, <4>2, <5>2, <5>3 DEF Promise!Next, Promise!startCharging
        <5>4. CASE ~(currentState = "READY" /\ call[t] = "start")
          BY <3>3, <4>1, <4>2, <5>2, <5>4
        <5>5. QED
          BY <5>3, <5>4
      <4>4. CASE currentState # focus[t]
        <5>1. pc'[t] = "test" \/ call'[t] = "none"
          BY <3>4, <4>4 DEF Test, Goto, Return, TypeOK
        <5>2. QED
          BY <3>3, <4>1, <4>2, <5>1
      <4>5. QED
        BY <4>3, <4>4
    <3>5. CASE CheckSame(t) \/ CheckValid(t)
      <4>1. /\ <<call[t], currentState, focus[t]>> \in Leg /\ UNCHANGED currentState
            /\ pc[t] \in {"same", "valid"}
        BY <3>5 DEF CheckSame, CheckValid, Alone
      <4>2. CASE currentState = "ERROR"
        BY <3>2, <3>3, <4>1, <4>2
      <4>3. CASE currentState # "ERROR"
        <5>1. currentState # focus[t] /\ isValidTransition(currentState, focus[t])
          BY <4>1, <4>3, LegsAreLegal
        <5>2. pc'[t] \in {"valid", "write"} /\ call'[t] = call[t]
          BY <3>5, <5>1 DEF CheckSame, CheckValid, Goto, TypeOK
        <5>3. QED
          BY <3>2, <3>3, <4>1, <5>2
      <4>4. QED
        BY <4>2, <4>3
    <3>6. CASE Write(t)
      <4>1. /\ <<call[t], currentState, focus[t]>> \in Leg
            /\ currentState' = focus[t] /\ pc[t] = "write"
            /\ pc'[t] = "notify" /\ call'[t] = call[t]
        BY <3>6 DEF Write, Alone, Goto, TypeOK
      <4>2. CASE call[t] = "start"
        BY <3>2, <3>3, <4>1, <4>2 DEF Leg, Promise!Next, Promise!startCharging
      <4>3. CASE call[t] = "stop"
        BY <3>2, <3>3, <4>1, <4>3 DEF Leg, Promise!Next, Promise!stopCharging
      <4>4. CASE call[t] \in {"pause", "resume", "reset"}
        BY <3>2, <3>3, <4>1, <4>4
           DEF Leg, Promise!Next, Promise!pauseCharging, Promise!resumeCharging,
               Promise!reset
      <4>5. CASE call[t] = "error"
        BY <3>2, <3>3, <4>1, <4>5 DEF Leg, Promise!Next, Promise!enterErrorState
      <4>6. QED
        BY <4>1, <4>2, <4>3, <4>4, <4>5, LegsAreLegal
    <3>7. CASE Notify(t)
      <4>1. /\ call[t] \in AllCalls /\ focus[t] \in Targets[call[t]]
            /\ currentState = focus[t] /\ UNCHANGED currentState /\ pc[t] = "notify"
        BY <3>7, MovingHasTarget DEF Notify, Alone
      <4>2. CASE focus[t] \in DOMAIN Path[call[t]]
        <5>1. Goto(t, "same", Path[call[t]][focus[t]])
          BY <3>7, <4>2 DEF Notify, Advance
        <5>2. pc'[t] = "same" /\ call'[t] = call[t]
          BY <5>1 DEF Goto, TypeOK
        <5>3. QED
          BY <3>2, <3>3, <4>1, <5>2
      <4>3. CASE focus[t] \notin DOMAIN Path[call[t]]
        <5>1. call'[t] = "none"
          BY <3>7, <4>3 DEF Notify, Advance, Return, TypeOK
        <5>2. ~(currentState = "READY" /\ call[t] = "start")
          BY <4>1, <4>3 DEF Path
        <5>3. QED
          BY <3>2, <3>3, <4>1, <5>1, <5>2
      <4>4. QED
        BY <4>2, <4>3
    <3>8. QED
      BY <2>1, <3>4, <3>5, <3>6, <3>7 DEF Step
  <2>2. ASSUME NEW t \in Thread, NEW c \in Calls, Invoke(t, c)
        PROVE  Promise!Next \/ settled' = settled
    <3>1. Quiet /\ currentState \in Resting /\ UNCHANGED currentState
      BY <2>2 DEF Invoke, Alone
    <3>2. ~Committed("start")
      BY <3>1 DEF Committed, Quiet, IdleIsOut
    <3>3. ~Committed("start")'
      <4>1. ASSUME NEW u \in Thread
            PROVE  call'[u] # "start" \/ pc'[u] = "test"
        <5>1. CASE u = t
          BY <2>2, <5>1 DEF Invoke, TypeOK
        <5>2. CASE u # t
          BY <2>2, <3>1, <5>2, OthersKeepTheirPlace DEF Quiet, IdleIsOut
        <5>3. QED
          BY <5>1, <5>2
      <4>2. QED
        BY <4>1 DEF Committed
    <3>4. QED
      BY <3>1, <3>2, <3>3 DEF settled
  <2>3. CASE UNCHANGED vars
    BY <2>3 DEF vars, places, settled, Committed
  <2>4. QED
    BY <2>1, <2>2, <2>3 DEF Next
<1>3. QED
  BY <1>1, <1>2, TypeCorrect, CallsExclude, CallsKeepToTheirLegs, CallEnds, PTL
     DEF Spec, ImplementsPromise
=============================================================================
