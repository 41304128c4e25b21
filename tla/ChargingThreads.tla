--------------------------- MODULE ChargingThreads ---------------------------
(***************************************************************************)
(* Class ChargingStateMachine as several threads use it: the console       *)
(* thread, the UDP receive thread, the CP monitor thread and one detached  *)
(* thread per HTTP request.  m_currentState is a plain member without a    *)
(* lock, so every comparison, every check and every assignment of a call   *)
(* is a step of its own, and calls of different threads interleave.  A     *)
(* compiler that keeps the member in a register across adjacent reads      *)
(* produces a subset of these behaviours.                                  *)
(***************************************************************************)
EXTENDS ChargingStates

CONSTANTS
  Thread,   \* the threads that call the object
  Calls     \* the calls they make

ASSUME CallsAssumption == Calls \subseteq AllCalls

VARIABLES
  overlap,       \* whether calls overlap in this use of the object: they may
                 \* in the program, they do not in its unit tests
  currentState,  \* m_currentState
  pc,            \* what each thread is about to do
  call,          \* the call each thread is in
  focus          \* the state that call tests, or the target it moves to

places == <<currentState, pc, call, focus>>
vars == <<overlap, places>>

Label == {"idle", "test", "same", "valid", "write", "notify"}

TypeOK ==
  /\ overlap \in BOOLEAN
  /\ currentState \in ChargingState
  /\ pc \in [Thread -> Label]
  /\ call \in [Thread -> AllCalls \cup {"none"}]
  /\ focus \in [Thread -> ChargingState \cup {"none"}]
  /\ \A t \in Thread :
       /\ pc[t] = "test" => call[t] \in AllCalls /\ focus[t] \in Tested[call[t]]
       /\ pc[t] \notin {"idle", "test"}
            => call[t] \in AllCalls /\ focus[t] \in Targets[call[t]]

Init ==
  /\ overlap \in BOOLEAN
  /\ currentState = "IDLE"
  /\ pc = [t \in Thread |-> "idle"]
  /\ call = [t \in Thread |-> "none"]
  /\ focus = [t \in Thread |-> "none"]

-----------------------------------------------------------------------------
Goto(t, label, s) ==
  /\ pc' = [pc EXCEPT ![t] = label]
  /\ focus' = [focus EXCEPT ![t] = s]
  /\ UNCHANGED call

Return(t) ==
  /\ pc' = [pc EXCEPT ![t] = "idle"]
  /\ call' = [call EXCEPT ![t] = "none"]
  /\ focus' = [focus EXCEPT ![t] = "none"]

\* Variant: the chain of a call is cut after its first transition.
AdvanceOnce(t) == Return(t)

\* transitionTo returned true: the && chain asks for its next target, or the
\* call returns.
Advance(t) ==
  IF focus[t] \in DOMAIN Path[call[t]]
  THEN Goto(t, "same", Path[call[t]][focus[t]])
  ELSE Return(t)

Quiet == \A t \in Thread : pc[t] = "idle"

\* Variant: calls are not kept apart even where they should be.
InvokeAnyTime(t, c) ==
  /\ pc[t] = "idle"
  /\ call' = [call EXCEPT ![t] = c]
  /\ IF c = "error" THEN pc' = [pc EXCEPT ![t] = "same"]
                    ELSE pc' = [pc EXCEPT ![t] = "test"]
  /\ focus' = [focus EXCEPT ![t] = IF c = "error" THEN "ERROR" ELSE FirstTest[c]]
  /\ UNCHANGED currentState

\* A thread enters one of the public calls.  Nothing in the program keeps the
\* calls apart; the unit tests make one at a time.
Invoke(t, c) ==
  /\ pc[t] = "idle"
  /\ overlap \/ Quiet
  /\ call' = [call EXCEPT ![t] = c]
  /\ IF c = "error"
     THEN /\ pc' = [pc EXCEPT ![t] = "same"]
          /\ focus' = [focus EXCEPT ![t] = "ERROR"]
     ELSE /\ pc' = [pc EXCEPT ![t] = "test"]
          /\ focus' = [focus EXCEPT ![t] = FirstTest[c]]
  /\ UNCHANGED currentState

\* One comparison of the call's if-else chain.
Test(t) ==
  /\ pc[t] = "test"
  /\ IF currentState = focus[t]
     THEN Goto(t, "same", FirstTarget[call[t]][focus[t]])
     ELSE IF focus[t] \in DOMAIN TestAfter[call[t]]
     THEN Goto(t, "test", TestAfter[call[t]][focus[t]])
     ELSE Return(t)
  /\ UNCHANGED currentState

\* transitionTo: already in the target state?
CheckSame(t) ==
  /\ pc[t] = "same"
  /\ IF currentState = focus[t] THEN Advance(t) ELSE Goto(t, "valid", focus[t])
  /\ UNCHANGED currentState

\* transitionTo: is the move legal from the state read now?
CheckValid(t) ==
  /\ pc[t] = "valid"
  /\ IF isValidTransition(currentState, focus[t])
     THEN Goto(t, "write", focus[t])
     ELSE Return(t)
  /\ UNCHANGED currentState

\* transitionTo: the assignment, whatever the state has become by now.
Write(t) ==
  /\ pc[t] = "write"
  /\ currentState' = focus[t]
  /\ Goto(t, "notify", focus[t])

\* The listeners run in the calling thread; none of them moves the machine.
Notify(t) ==
  /\ pc[t] = "notify"
  /\ Advance(t)
  /\ UNCHANGED currentState

Step(t) == Test(t) \/ CheckSame(t) \/ CheckValid(t) \/ Write(t) \/ Notify(t)

Next ==
  /\ \E t \in Thread : Step(t) \/ \E c \in Calls : Invoke(t, c)
  /\ UNCHANGED overlap

Spec == Init /\ [][Next]_vars

\* The scheduler keeps running every thread that is inside a call; nothing
\* obliges a thread to make one.
FairSpec == Spec /\ \A t \in Thread : WF_places(Step(t))

-----------------------------------------------------------------------------
\* Thread t will move the machine on from where it is now, unless another
\* thread moves it first: it has just written the state and the chain goes on,
\* or its next target is legal from here.
Carries(t) ==
  \/ /\ pc[t] = "notify"
     /\ focus[t] = currentState
     /\ focus[t] \in DOMAIN Path[call[t]]
  \/ /\ pc[t] \in {"same", "valid", "write"}
     /\ isValidTransition(currentState, focus[t])

(***************************************************************************)
(* However the calls interleave, a state no call is meant to stop in is    *)
(* never left behind: some thread still carries the machine out of it.     *)
(***************************************************************************)
NeverStranded ==
  currentState \in Transient => \E t \in Thread : Carries(t)

(***************************************************************************)
(* When no call is in progress the machine rests in IDLE, READY, CHARGING  *)
(* or ERROR, whatever the calls did to one another.                        *)
(***************************************************************************)
RestsWhenQuiet == Quiet => currentState \in Resting

(***************************************************************************)
(* Every change of m_currentState is one isValidTransition allows.  The    *)
(* check and the assignment of transitionTo are apart, so this needs calls *)
(* that do not overlap.                                                    *)
(***************************************************************************)
LegalChanges ==
  [][~overlap => isValidTransition(currentState, currentState')]_currentState

(***************************************************************************)
(* A session passes on: the states in the middle of a call are left again. *)
(***************************************************************************)
TransientIsLeft == currentState \in Transient ~> currentState \in Resting

-----------------------------------------------------------------------------
(***************************************************************************)
(* The state the promise of the class sees while a single call runs: once  *)
(* a start or a stop has chosen its path, the state that path ends in.     *)
(***************************************************************************)
Committed(c) == \E t \in Thread : call[t] = c /\ pc[t] # "test"

settled ==
  CASE currentState \in {"CONNECTED", "IDENTIFICATION"} -> "CHARGING"
    [] currentState = "READY" /\ Committed("start") -> "CHARGING"
    [] currentState \in {"STOP", "FINISHED"} -> "IDLE"
    [] OTHER -> currentState

Promise == INSTANCE ChargingStateMachine WITH currentState <- settled

(***************************************************************************)
(* Calls that do not overlap keep the promise of the class: each of them   *)
(* takes effect at once or not at all.                                     *)
(***************************************************************************)
ImplementsPromise == Promise!Init /\ [][~overlap => Promise!Next]_settled
=============================================================================
