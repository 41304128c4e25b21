------------------------- MODULE WallboxThreadsProofs -------------------------
(***************************************************************************)
(* What holds of the controller's handlers however many threads run them   *)
(* and however their accesses interleave; at the end, what holds as long   *)
(* as they run one after another.                                          *)
(***************************************************************************)
EXTENDS WallboxAtomic, SequenceTheorems, TLAPS

-----------------------------------------------------------------------------
(***************************************************************************)
(* Frames and stacks of operations of a set S.                             *)
(***************************************************************************)
Frames(S) == Seq(S) \ {<<>>}

Stacks(S) == Seq(Frames(S))

\* What there is on top of a stack that is not empty.
LEMMA OnTop ==
  ASSUME NEW S, NEW st \in Stacks(S), st # <<>>
  PROVE  /\ st[1] \in Frames(S) /\ st[1][1] \in S
         /\ Tail(st[1]) \in Seq(S) /\ (Len(st[1]) # 1 => Tail(st[1]) # <<>>)
         /\ Tail(st) \in Stacks(S)
<1>1. Len(st) \in Nat \ {0} /\ st[1] \in Frames(S) /\ Tail(st) \in Stacks(S)
  BY EmptySeq, ElementOfSeq, HeadTailProperties DEF Stacks
<1>2. st[1] \in Seq(S) /\ Len(st[1]) \in Nat \ {0}
  BY <1>1, EmptySeq DEF Frames
<1>3. Tail(st[1]) \in Seq(S) /\ Len(Tail(st[1])) = Len(st[1]) - 1
  BY <1>1, <1>2, HeadTailProperties DEF Frames
<1>4. st[1][1] \in S
  BY <1>2, ElementOfSeq
<1>5. Len(st[1]) # 1 => Tail(st[1]) # <<>>
  <2> DEFINE r == Tail(st[1])
  <2>1. Len(st[1]) # 1 => Len(r) # 0
    BY <1>2, <1>3
  <2> HIDE DEF r
  <2>2. r = <<>> => Len(r) = 0
    OBVIOUS
  <2>3. Len(st[1]) # 1 => r # <<>>
    BY <2>1, <2>2
  <2>4. QED
    BY <2>3 DEF r
<1>6. QED
  BY <1>1, <1>3, <1>4, <1>5

\* Frames are put together from operations and frames ...
LEMMA Singles ==
  ASSUME NEW S, NEW a \in S
  PROVE  <<a>> \in Frames(S)
  BY DEF Frames

\* Two operations make a frame.
LEMMA Pairs ==
  ASSUME NEW S, NEW a \in S, NEW b \in S
  PROVE  <<a, b>> \in Frames(S)
  BY DEF Frames

\* Two sequences that are not both empty make a frame.
LEMMA Joined ==
  ASSUME NEW S, NEW f \in Seq(S), NEW g \in Seq(S), f # <<>> \/ g # <<>>
  PROVE  f \o g \in Frames(S)
  BY ConcatProperties, ConcatEqualIffEmpty, ConcatSimplifications DEF Frames

\* ... and stacks of frames and stacks.
LEMMA Pushed ==
  ASSUME NEW S, NEW f \in Frames(S), NEW st \in Stacks(S)
  PROVE  << f >> \o st \in Stacks(S)
<1>1. << f >> \in Seq(Frames(S))
  OBVIOUS
<1>2. QED
  BY <1>1, ConcatProperties DEF Stacks

(***************************************************************************)
(* Whatever a thread does next, its stack stays one of operations of S.    *)
(***************************************************************************)
LEMMA StackStays ==
  ASSUME NEW S, NEW t, stack[t] \in Stacks(S), stack[t] # <<>>
  PROVE  /\ Top(t) \in S /\ Past(t) \in Stacks(S) /\ Failed(t) \in Stacks(S)
         /\ \A ops \in Frames(S) : Instead(t, ops) \in Stacks(S) /\ Into(t, ops) \in Stacks(S)
<1> DEFINE st == stack[t]
<1>1. /\ st[1] \in Frames(S) /\ st[1][1] \in S
      /\ Tail(st[1]) \in Seq(S) /\ (Len(st[1]) # 1 => Tail(st[1]) # <<>>)
      /\ Tail(st) \in Stacks(S)
  BY OnTop
<1>2. Past(t) \in Stacks(S)
  <2>1. CASE Len(st[1]) = 1
    BY <1>1, <2>1 DEF Past
  <2>2. CASE Len(st[1]) # 1
    <3>1. Tail(st[1]) \in Frames(S)
      BY <1>1, <2>2 DEF Frames
    <3>2. QED
      BY <1>1, <2>2, <3>1, Pushed DEF Past
  <2>3. QED
    BY <2>1, <2>2
<1>3. ASSUME NEW ops \in Frames(S)
      PROVE  Instead(t, ops) \in Stacks(S) /\ Into(t, ops) \in Stacks(S)
  <2>1. ops \o Tail(st[1]) \in Frames(S)
    BY <1>1, Joined DEF Frames
  <2>2. QED
    BY <1>1, <1>2, <2>1, Pushed DEF Instead, Into
<1>4. QED
  BY <1>1, <1>2, <1>3 DEF Top, Failed

-----------------------------------------------------------------------------
(***************************************************************************)
(* The operations of a state machine's call under way, those that are none *)
(* of them, and those of a refresh.                                        *)
(***************************************************************************)
MachineCalls == {"start", "stop", "pause", "resume"}

WorkLabels == {"test", "same", "valid", "write", "notify"}

Good == {o \in Op : o.at \in WorkLabels \cup {"enter"} => o.call \in MachineCalls}

Plain == {o \in Good : o.at \notin WorkLabels}

Refreshing == {o \in Good : o.at \in {"leds", "lit", "line", "flag"}}

\* The operations the handlers are written with.
LEMMA PlainOps ==
  /\ \A at \in Label \ (WorkLabels \cup {"enter"}) :
       op(at) \in Plain /\ \A on \in BOOLEAN : switch(at, on) \in Plain
  /\ \A c \in MachineCalls : machine("enter", c, "none") \in Plain
<1>1. ASSUME NEW at \in Label \ (WorkLabels \cup {"enter"})
      PROVE  op(at) \in Plain
  BY DEF op, Plain, Good, Op, WorkLabels
<1>2. ASSUME NEW at \in Label \ (WorkLabels \cup {"enter"}), NEW on \in BOOLEAN
      PROVE  switch(at, on) \in Plain
  BY DEF switch, op, Plain, Good, Op, WorkLabels
<1>3. ASSUME NEW c \in MachineCalls
      PROVE  machine("enter", c, "none") \in Plain
  BY DEF machine, op, Plain, Good, Op, WorkLabels, MachineCalls, Label, AllCalls
<1>4. QED
  BY <1>1, <1>2, <1>3

\* The frames a refresh is made of.
LEMMA RefreshFrames ==
  /\ \A on \in BOOLEAN : setRelayState(on) \in Frames(Refreshing)
  /\ << op("lit") >> \in Frames(Refreshing) /\ << op("leds") >> \in Frames(Refreshing)
<1>1. ASSUME NEW on \in BOOLEAN
      PROVE  setRelayState(on) \in Frames(Refreshing)
  <2>1. switch("line", on) \in Refreshing /\ switch("flag", on) \in Refreshing
    BY PlainOps DEF Refreshing, Plain, switch, op, Label, WorkLabels
  <2>2. QED
    BY <2>1 DEF setRelayState, Frames
<1>2. op("lit") \in Refreshing /\ op("leds") \in Refreshing
  BY PlainOps DEF Refreshing, Plain, op, Label, WorkLabels
<1>3. QED
  BY <1>1, <1>2, Singles

\* A frame of operations of S is one of a larger set.
LEMMA FramesGrow ==
  ASSUME NEW S, NEW T, S \subseteq T
  PROVE  Frames(S) \subseteq Frames(T) /\ Stacks(S) \subseteq Stacks(T)
<1>1. Frames(S) \subseteq Frames(T)
  BY SeqMonotonic DEF Frames
<1>2. QED
  BY <1>1, SeqMonotonic DEF Stacks

\* The guard of a user call and the call it guards.
LEMMA Guarding ==
  ASSUME NEW c \in MachineCalls
  PROVE  guarded(c) \in Frames(Plain)
<1>1. op("guard") \in Plain /\ machine("enter", c, "none") \in Plain
  BY PlainOps DEF Label, WorkLabels
<1>2. QED
  BY <1>1 DEF guarded, Frames

\* The frames handlers are put together from.
LEMMA SmallFrames ==
  /\ \A on \in BOOLEAN : setRelayState(on) \in Frames(Plain)
  /\ \A at \in Label \ (WorkLabels \cup {"enter"}) :
       << op(at) >> \in Frames(Plain) /\ \A on \in BOOLEAN : << switch(at, on) >> \in Frames(Plain)
<1>1. Refreshing \subseteq Plain
  BY DEF Refreshing, Plain, WorkLabels
<1>2. QED
  BY <1>1, FramesGrow, RefreshFrames, PlainOps, Singles

(***************************************************************************)
(* What handlers are made of holds no operation of a call under way.       *)
(***************************************************************************)
LEMMA HandlerFrames ==
  /\ \A h \in Handlers : frame(h) \in Frames(Plain)
  /\ processNetworkMessage \in Frames(Plain)
<1>1. \A f \in Frames(Plain), g \in Frames(Plain) : f \o g \in Frames(Plain)
  BY Joined DEF Frames
<1>2. /\ guarded("start") \in Frames(Plain) /\ guarded("stop") \in Frames(Plain)
      /\ guarded("pause") \in Frames(Plain) /\ guarded("resume") \in Frames(Plain)
  BY Guarding DEF MachineCalls
<1>3. /\ setRelayState(TRUE) \in Frames(Plain) /\ setRelayState(FALSE) \in Frames(Plain)
      /\ << op("leds") >> \in Frames(Plain)
      /\ << switch("able", TRUE) >> \in Frames(Plain)
  BY SmallFrames DEF Label, WorkLabels
<1>4. << op("stopIfCharging"), switch("able", FALSE) >> \in Frames(Plain)
  <2>1. op("stopIfCharging") \in Plain /\ switch("able", FALSE) \in Plain
    BY PlainOps DEF Label, WorkLabels
  <2>2. QED
    BY <2>1, Pairs
<1>5. processNetworkMessage \in Frames(Plain)
  <2>1. /\ op("enableEdge") \in Plain /\ op("stateEdge") \in Plain
        /\ op("contactorEdge") \in Plain /\ op("save") \in Plain
    BY PlainOps DEF Label, WorkLabels
  <2>2. QED
    BY <2>1 DEF processNetworkMessage, Frames
<1>6. frame("enable") \in Frames(Plain)
  <2>1. << switch("able", TRUE) >> \o setRelayState(TRUE) \in Frames(Plain)
    BY <1>1, <1>3
  <2>2. QED
    BY <1>1, <1>3, <2>1 DEF frame
<1>7. frame("disable") \in Frames(Plain)
  <2>1. << op("stopIfCharging"), switch("able", FALSE) >> \o setRelayState(FALSE) \in Frames(Plain)
    BY <1>1, <1>3, <1>4
  <2>2. QED
    BY <1>1, <1>3, <2>1 DEF frame
<1>8. /\ frame("start") \in Frames(Plain) /\ frame("stop") \in Frames(Plain)
      /\ frame("pause") \in Frames(Plain) /\ frame("resume") \in Frames(Plain)
  BY <1>1, <1>2, <1>3 DEF frame
<1>9. QED
  BY <1>5, <1>6, <1>7, <1>8 DEF Handlers

-----------------------------------------------------------------------------
(***************************************************************************)
(* A frame that holds the operation o of a call of the state machine: all  *)
(* else in it belongs to no such call, and what comes before o is the      *)
(* refresh that o waits for.                                               *)
(***************************************************************************)
Called == {o \in Good : o.at \in WorkLabels}

HoldsAt(f, o, k) ==
  /\ k \in 1..Len(f) /\ f[k] = o
  /\ \A j \in 1..Len(f) : j # k => f[j] \in Plain
  /\ \A j \in 1..Len(f) : j < k => f[j] \in Refreshing
  /\ k # 1 => o.at = "notify"

Holds(f, o) == f \in Seq(Good) /\ \E k \in 1..Len(f) : HoldsAt(f, o, k)

\* What follows an operation of a call changes nothing of this ...
LEMMA HoldsBefore ==
  ASSUME NEW f \in Seq(Good), NEW o, Holds(f, o), NEW g \in Seq(Plain)
  PROVE  Holds(f \o g, o)
<1>1. g \in Seq(Good) /\ Len(f) \in Nat /\ Len(g) \in Nat
  BY SeqMonotonic, LenProperties DEF Plain
<1>2. /\ f \o g \in Seq(Good) /\ Len(f \o g) = Len(f) + Len(g)
      /\ \A i \in 1..Len(f) + Len(g) :
           (f \o g)[i] = IF i <= Len(f) THEN f[i] ELSE g[i - Len(f)]
  BY <1>1, ConcatProperties
<1>3. \A i \in 1..Len(g) : g[i] \in Plain
  BY ElementOfSeq
<1>4. PICK k \in 1..Len(f) : HoldsAt(f, o, k)
  BY DEF Holds
<1> DEFINE h == f \o g
<1>5. \A i \in 1..Len(f) : h[i] = f[i]
  BY <1>1, <1>2
<1>6. \A i \in 1..Len(h) : i > Len(f) => h[i] \in Plain
  BY <1>1, <1>2, <1>3
<1>7. h \in Seq(Good) /\ Len(h) = Len(f) + Len(g)
  BY <1>2
<1> HIDE DEF h
<1>8. k \in 1..Len(h) /\ h[k] = o
  BY <1>1, <1>4, <1>5, <1>7 DEF HoldsAt
<1>9. ASSUME NEW j \in 1..Len(h)
      PROVE  (j # k => h[j] \in Plain) /\ (j < k => h[j] \in Refreshing)
  <2>1. CASE j \in 1..Len(f)
    BY <1>4, <1>5, <2>1 DEF HoldsAt
  <2>2. CASE j > Len(f)
    BY <1>1, <1>4, <1>6, <2>2
  <2>3. QED
    BY <1>1, <2>1, <2>2
<1>10. HoldsAt(h, o, k)
  BY <1>4, <1>8, <1>9 DEF HoldsAt
<1>11. QED
  BY <1>7, <1>8, <1>10 DEF Holds, h

\* ... and neither does a refresh before one that waits for it.
LEMMA HoldsAfter ==
  ASSUME NEW f \in Seq(Refreshing), NEW g \in Seq(Good), NEW o, Holds(g, o), o.at = "notify"
  PROVE  Holds(f \o g, o)
<1>1. Refreshing \subseteq Plain /\ Plain \subseteq Good
  BY DEF Plain, Refreshing, WorkLabels
<1>2. f \in Seq(Good) /\ Len(f) \in Nat /\ Len(g) \in Nat
  BY <1>1, SeqMonotonic, LenProperties
<1>3. /\ f \o g \in Seq(Good) /\ Len(f \o g) = Len(f) + Len(g)
      /\ \A i \in 1..Len(f) + Len(g) :
           (f \o g)[i] = IF i <= Len(f) THEN f[i] ELSE g[i - Len(f)]
  BY <1>2, ConcatProperties
<1>4. \A i \in 1..Len(f) : f[i] \in Refreshing
  BY ElementOfSeq
<1>5. PICK k \in 1..Len(g) : HoldsAt(g, o, k)
  BY DEF Holds
<1> DEFINE h == f \o g
<1>6. \A i \in 1..Len(f) : h[i] \in Refreshing
  BY <1>2, <1>3, <1>4
<1>7. \A i \in 1..Len(g) : h[Len(f) + i] = g[i]
  <2> TAKE i \in 1..Len(g)
  <2>1. /\ Len(f) + i \in 1..Len(f) + Len(g) /\ ~(Len(f) + i <= Len(f))
        /\ (Len(f) + i) - Len(f) = i
    BY <1>2
  <2>2. QED
    BY <1>3, <2>1
<1>8. h \in Seq(Good) /\ Len(h) = Len(f) + Len(g)
  BY <1>3
<1> HIDE DEF h
<1> DEFINE l == Len(f) + k
<1>9. l \in 1..Len(h) /\ h[l] = o
  BY <1>2, <1>5, <1>7, <1>8 DEF HoldsAt
<1>10. ASSUME NEW j \in 1..Len(h), j > Len(f)
       PROVE  /\ j # l => h[j] \in Plain
              /\ j < l => h[j] \in Refreshing
  <2>1. j - Len(f) \in 1..Len(g) /\ j = Len(f) + (j - Len(f))
    BY <1>2, <1>8, <1>10
  <2>2. h[j] = g[j - Len(f)]
    BY <1>7, <2>1
  <2>3. /\ j # l => j - Len(f) # k
        /\ j < l => j - Len(f) < k
    BY <1>2, <1>5, <2>1
  <2>4. QED
    BY <1>5, <2>1, <2>2, <2>3 DEF HoldsAt
<1>11. ASSUME NEW j \in 1..Len(h), ~(j > Len(f))
       PROVE  h[j] \in Plain /\ h[j] \in Refreshing
  <2>1. j \in 1..Len(f)
    BY <1>2, <1>8, <1>11
  <2>2. QED
    BY <1>1, <1>6, <2>1
<1>12. HoldsAt(h, o, l)
  BY <1>9, <1>10, <1>11 DEF HoldsAt
<1>13. QED
  BY <1>8, <1>9, <1>12 DEF Holds, h

\* The operation is the first, or it waits for a refresh, and goes on waiting.
LEMMA HoldsFirst ==
  ASSUME NEW f \in Frames(Good), NEW o \in Called, Holds(f, o)
  PROVE  \/ f[1] = o /\ Tail(f) \in Seq(Plain)
         \/ /\ f[1] \in Refreshing /\ o.at = "notify" /\ Len(f) # 1
            /\ Tail(f) \in Seq(Good) /\ Holds(Tail(f), o)
<1>1. f \in Seq(Good) /\ f # <<>> /\ Len(f) \in Nat \ {0}
  BY EmptySeq DEF Frames
<1>2. /\ Tail(f) \in Seq(Good) /\ Len(Tail(f)) = Len(f) - 1
      /\ \A i \in 1..Len(Tail(f)) : Tail(f)[i] = f[i + 1]
  BY <1>1, HeadTailProperties
<1>3. PICK k \in 1..Len(f) : HoldsAt(f, o, k)
  BY DEF Holds
<1> DEFINE r == Tail(f)
<1>4. r \in Seq(Good) /\ Len(r) = Len(f) - 1 /\ \A i \in 1..Len(r) : r[i] = f[i + 1]
  BY <1>2
<1> HIDE DEF r
<1>5. CASE k = 1
  <2>1. \A i \in 1..Len(r) : r[i] \in Plain
    BY <1>1, <1>3, <1>4, <1>5 DEF HoldsAt
  <2>2. r \in [1..Len(r) -> Good] /\ Len(r) \in Nat
    BY <1>4, LenProperties
  <2>3. r \in [1..Len(r) -> Plain]
    BY <2>1, <2>2
  <2>4. r \in Seq(Plain)
    BY <2>2, <2>3, SeqDef
  <2>5. QED
    BY <1>3, <1>5, <2>4 DEF HoldsAt, r
<1>6. CASE k # 1
  <2>1. 1 \in 1..Len(f) /\ 1 < k /\ k - 1 \in 1..Len(r) /\ Len(f) # 1
    BY <1>1, <1>3, <1>4, <1>6
  <2>2. f[1] \in Refreshing /\ o.at = "notify"
    BY <1>3, <1>6, <2>1 DEF HoldsAt
  <2>3. r[k - 1] = o
    BY <1>3, <1>4, <2>1 DEF HoldsAt
  <2>4. ASSUME NEW j \in 1..Len(r)
        PROVE  /\ j # k - 1 => r[j] \in Plain
               /\ j < k - 1 => r[j] \in Refreshing
    <3>1. j + 1 \in 1..Len(f) /\ r[j] = f[j + 1]
      BY <1>1, <1>4
    <3>2. (j # k - 1 => j + 1 # k) /\ (j < k - 1 => j + 1 < k)
      BY <1>3
    <3>3. QED
      BY <1>3, <3>1, <3>2 DEF HoldsAt
  <2>5. HoldsAt(r, o, k - 1)
    BY <2>1, <2>2, <2>3, <2>4 DEF HoldsAt
  <2>6. Holds(r, o)
    BY <1>4, <2>1, <2>5 DEF Holds
  <2>7. QED
    BY <1>4, <2>1, <2>2, <2>6 DEF r
<1>7. QED
  BY <1>5, <1>6

-----------------------------------------------------------------------------
(***************************************************************************)
(* A thread is in no call of the state machine, or in one, which its       *)
(* topmost frame holds: calls do not nest.                                 *)
(***************************************************************************)
Idle(st) == st \in Stacks(Plain)

Busy(st, o) ==
  /\ st \in Stacks(Good) /\ st # <<>>
  /\ o \in Called /\ Holds(st[1], o)
  /\ Tail(st) \in Stacks(Plain)

\* What Working and Work say of a stack.
Held(st) == {o \in UNION {Image(f) : f \in Image(st)} : o.at \in WorkLabels}

WorkIn(st) == IF Held(st) = {} THEN machine("idle", "none", "none")
              ELSE CHOOSE o \in Held(st) : TRUE

\* The place ChargingThreads sees a thread at is a matter of its stack.
LEMMA HeldWorks == \A t : Work(t) = WorkIn(stack[t])
  BY DEF Work, Working, Pending, WorkIn, Held, WorkLabels

\* The operations of a stack of frames of S are in S.
LEMMA Imaged ==
  ASSUME NEW S, NEW st \in Stacks(S)
  PROVE  \A f \in Image(st) : f \in Frames(S) /\ Image(f) \subseteq S
<1> SUFFICES ASSUME NEW f \in Image(st)
             PROVE  f \in Frames(S) /\ Image(f) \subseteq S
  OBVIOUS
<1>1. st \in [1..Len(st) -> Frames(S)]
  BY LenProperties DEF Stacks
<1>2. f \in Frames(S)
  BY <1>1 DEF Image
<1>3. f \in [1..Len(f) -> S]
  BY <1>2, LenProperties DEF Frames
<1>4. QED
  BY <1>2, <1>3 DEF Image

\* Outside a call it is the idle one ...
LEMMA IdleHoldsNone ==
  ASSUME NEW st, Idle(st)
  PROVE  Held(st) = {} /\ WorkIn(st) = machine("idle", "none", "none")
<1>1. \A f \in Image(st) : Image(f) \subseteq Plain
  BY Imaged DEF Idle
<1>2. Held(st) = {}
  BY <1>1 DEF Held, Plain
<1>3. QED
  BY <1>2 DEF WorkIn

\* ... inside it is the one operation of the call.
LEMMA BusyHoldsOne ==
  ASSUME NEW st, NEW o, Busy(st, o)
  PROVE  Held(st) = {o} /\ WorkIn(st) = o
<1>1. /\ st[1] \in Seq(Good) /\ o \in Called /\ Tail(st) \in Stacks(Plain)
      /\ Len(st) \in Nat \ {0} /\ st \in Seq(Frames(Good))
  BY EmptySeq DEF Busy, Stacks, Holds
<1>2. PICK k \in 1..Len(st[1]) : HoldsAt(st[1], o, k)
  BY DEF Busy, Holds
<1>3. DOMAIN st = 1..Len(st) /\ DOMAIN st[1] = 1..Len(st[1])
  BY <1>1, LenProperties
<1>4. \A i \in 1..Len(Tail(st)) : Tail(st)[i] = st[i + 1] /\ Len(Tail(st)) = Len(st) - 1
  BY <1>1, HeadTailProperties DEF Busy
<1>5. ASSUME NEW i \in 1..Len(st), i # 1
      PROVE  Image(st[i]) \subseteq Plain
  <2>1. Len(Tail(st)) = Len(st) - 1
    BY <1>1, HeadTailProperties DEF Busy
  <2>2. i - 1 \in 1..Len(Tail(st)) /\ (i - 1) + 1 = i
    BY <1>1, <1>5, <2>1
  <2>3. st[i] = Tail(st)[i - 1]
    BY <1>4, <2>2
  <2>4. DOMAIN Tail(st) = 1..Len(Tail(st))
    BY <1>1, LenProperties DEF Stacks
  <2>5. st[i] \in Image(Tail(st))
    BY <2>2, <2>3, <2>4 DEF Image
  <2>6. QED
    BY <1>1, <2>5, Imaged
<1>6. o \in Image(st[1]) /\ st[1] \in Image(st)
  BY <1>1, <1>2, <1>3 DEF Image, HoldsAt
<1>7. \A p \in Image(st[1]) : p = o \/ p \in Plain
  BY <1>2, <1>3 DEF Image, HoldsAt
<1>8. ASSUME NEW p \in Held(st)
      PROVE  p = o
  <2>1. PICK f \in Image(st) : p \in Image(f)
    BY DEF Held
  <2>2. PICK i \in 1..Len(st) : f = st[i]
    BY <1>3 DEF Image
  <2>3. p \notin Plain
    BY DEF Held, Plain
  <2>4. QED
    BY <1>5, <1>7, <2>1, <2>2, <2>3
<1>9. o \in Held(st)
  BY <1>1, <1>6 DEF Held, Called
<1>10. Held(st) = {o}
  BY <1>8, <1>9
<1>11. QED
  BY <1>10 DEF WorkIn

\* What is pushed on a stack is on top of it.
LEMMA Topped ==
  ASSUME NEW S, NEW f \in Frames(S), NEW st \in Stacks(S)
  PROVE  LET up == << f >> \o st
         IN  up \in Stacks(S) /\ up # <<>> /\ up[1] = f /\ Tail(up) = st
<1>1. st \in Seq(Frames(S)) /\ << f >> \in Seq(Frames(S))
  BY DEF Stacks
<1> DEFINE up == << f >> \o st
<1>2. /\ up \in Seq(Frames(S)) /\ Len(up) = 1 + Len(st) /\ Len(st) \in Nat
      /\ \A i \in 1..1 + Len(st) : up[i] = IF i <= 1 THEN << f >>[i] ELSE st[i - 1]
  BY <1>1, ConcatProperties, LenProperties
<1> HIDE DEF up
<1>3. up # <<>> /\ up[1] = f
  BY <1>2
<1>4. /\ Tail(up) \in Seq(Frames(S)) /\ Len(Tail(up)) = Len(st)
      /\ \A i \in 1..Len(Tail(up)) : Tail(up)[i] = up[i + 1]
  BY <1>2, <1>3, HeadTailProperties
<1>5. \A i \in 1..Len(st) : Tail(up)[i] = st[i]
  BY <1>2, <1>4
<1>6. Tail(up) = st
  BY <1>1, <1>4, <1>5, SeqEqual
<1>7. QED
  BY <1>2, <1>3, <1>6 DEF up, Stacks

\* So of a frame a call is in, on frames that are in none.
LEMMA PushedTop ==
  ASSUME NEW f \in Frames(Good), NEW st \in Stacks(Plain)
  PROVE  LET up == << f >> \o st
         IN  up \in Stacks(Good) /\ up # <<>> /\ up[1] = f /\ Tail(up) = st
<1>1. st \in Stacks(Good)
  BY FramesGrow DEF Plain
<1>2. QED
  BY <1>1, Topped

-----------------------------------------------------------------------------
(***************************************************************************)
(* What the moves of a thread make of its stack.                           *)
(***************************************************************************)
LEMMA IdleMoves ==
  ASSUME NEW t, Idle(stack[t]), stack[t] # <<>>
  PROVE  /\ Top(t) \in Plain /\ Idle(Past(t)) /\ Idle(Failed(t))
         /\ \A ops \in Frames(Plain) : Idle(Instead(t, ops)) /\ Idle(Into(t, ops))
  BY StackStays DEF Idle

\* A stack in a call: its topmost operation is the call's or a refresh.
LEMMA BusyTop ==
  ASSUME NEW t, NEW o, Busy(stack[t], o)
  PROVE  /\ stack[t][1] \in Frames(Good)
         /\ \/ Top(t) = o /\ Tail(stack[t][1]) \in Seq(Plain)
            \/ /\ Top(t) \in Refreshing /\ o.at = "notify" /\ Len(stack[t][1]) # 1
               /\ Tail(stack[t][1]) \in Seq(Good) /\ Holds(Tail(stack[t][1]), o)
<1>1. stack[t][1] \in Frames(Good)
  BY OnTop DEF Busy
<1>2. QED
  BY <1>1, HoldsFirst DEF Busy, Top

\* A call goes on with the operations of a frame that holds the next one.
LEMMA CallGoesOn ==
  ASSUME NEW t, NEW o, Busy(stack[t], o), Top(t) = o,
         NEW p \in Called, NEW ops \in Frames(Good), Holds(ops, p)
  PROVE  Busy(Instead(t, ops), p)
<1> DEFINE r == Tail(stack[t][1])
<1>1. r \in Seq(Plain)
  BY BusyTop DEF Refreshing, Called, Busy, WorkLabels
<1>2. Holds(ops \o r, p) /\ ops \o r \in Frames(Good)
  <2>1. r \in Seq(Good) /\ ops \in Seq(Good) /\ ops # <<>>
    BY <1>1, SeqMonotonic DEF Plain, Frames
  <2>2. QED
    BY <1>1, <2>1, HoldsBefore, Joined
<1>3. Tail(stack[t]) \in Stacks(Plain)
  BY DEF Busy
<1>4. QED
  BY <1>2, <1>3, PushedTop DEF Busy, Instead

\* A call that returns leaves the thread outside.
LEMMA CallEnds ==
  ASSUME NEW t, NEW o, Busy(stack[t], o), Top(t) = o
  PROVE  Idle(Past(t)) /\ Idle(Failed(t))
<1> DEFINE r == Tail(stack[t][1])
<1>1. r \in Seq(Plain) /\ Tail(stack[t]) \in Stacks(Plain)
  BY BusyTop DEF Refreshing, Called, Busy, WorkLabels
<1>2. Idle(Failed(t))
  BY <1>1 DEF Failed, Idle
<1>3. CASE Len(stack[t][1]) = 1
  BY <1>1, <1>2, <1>3 DEF Past, Idle
<1>4. CASE Len(stack[t][1]) # 1
  <2>1. r # <<>>
    BY <1>4, OnTop DEF Busy
  <2>2. r \in Frames(Plain)
    BY <1>1, <2>1 DEF Frames
  <2>3. QED
    BY <1>1, <1>2, <1>4, <2>2, Pushed DEF Past, Idle
<1>5. QED
  BY <1>2, <1>3, <1>4

\* The refresh runs while the operation waits below it.
LEMMA RefreshGoesOn ==
  ASSUME NEW t, NEW o, Busy(stack[t], o), Top(t) # o
  PROVE  /\ Top(t) \in Refreshing /\ Busy(Past(t), o)
         /\ \A ops \in Frames(Refreshing) : Busy(Instead(t, ops), o)
<1> DEFINE r == Tail(stack[t][1])
<1>1. /\ Top(t) \in Refreshing /\ o.at = "notify" /\ Len(stack[t][1]) # 1
      /\ r \in Seq(Good) /\ Holds(r, o)
  BY BusyTop
<1>2. Tail(stack[t]) \in Stacks(Plain) /\ o \in Called
  BY DEF Busy
<1>3. Busy(Past(t), o)
  <2>1. r # <<>>
    BY <1>1, OnTop DEF Busy
  <2>2. r \in Frames(Good)
    BY <1>1, <2>1 DEF Frames
  <2>3. QED
    BY <1>1, <1>2, <2>2, PushedTop DEF Past, Busy
<1>4. ASSUME NEW ops \in Frames(Refreshing)
      PROVE  Busy(Instead(t, ops), o)
  <2>1. Holds(ops \o r, o)
    BY <1>1, HoldsAfter DEF Frames
  <2>2. ops \o r \in Frames(Good)
    <3>1. ops \in Seq(Good) /\ ops # <<>>
      BY SeqMonotonic DEF Frames, Refreshing
    <3>2. QED
      BY <1>1, <3>1, Joined
  <2>3. QED
    BY <1>2, <2>1, <2>2, PushedTop DEF Instead, Busy
<1>5. QED
  BY <1>1, <1>3, <1>4

\* The frames a call goes on with.
LEMMA NextOfCall ==
  ASSUME NEW p \in Called
  PROVE  /\ << p >> \in Frames(Good) /\ Holds(<< p >>, p)
         /\ p.at = "notify" => << op("leds"), p >> \in Frames(Good) /\ Holds(<< op("leds"), p >>, p)
<1>1. p \in Good /\ op("leds") \in Refreshing /\ op("leds") \in Good
  BY PlainOps DEF Called, Refreshing, Plain, op, Label, WorkLabels
<1>2. << p >> \in Frames(Good) /\ << op("leds"), p >> \in Frames(Good)
  BY <1>1, Singles, Pairs
<1>3. << p >> \in Seq(Good) /\ << op("leds") >> \in Seq(Refreshing)
  BY <1>1
<1>4. HoldsAt(<< p >>, p, 1) /\ 1 \in 1..Len(<< p >>)
  BY DEF HoldsAt
<1>5. Holds(<< p >>, p)
  BY <1>3, <1>4 DEF Holds
<1>6. << op("leds") >> \o << p >> = << op("leds"), p >>
  <2> DEFINE a == << op("leds") >>
             b == << p >>
             c == << op("leds"), p >>
  <2>1. a \in Seq(Good) /\ b \in Seq(Good) /\ c \in Seq(Good)
    BY <1>1
  <2>2. Len(a) = 1 /\ Len(b) = 1 /\ Len(c) = 2 /\ a[1] = c[1] /\ b[1] = c[2]
    OBVIOUS
  <2> HIDE DEF a, b, c
  <2>3. /\ a \o b \in Seq(Good) /\ Len(a \o b) = Len(a) + Len(b)
        /\ \A i \in 1..Len(a) + Len(b) :
             (a \o b)[i] = IF i <= Len(a) THEN a[i] ELSE b[i - Len(a)]
    BY <2>1, ConcatProperties
  <2>4. (a \o b)[1] = a[1] /\ (a \o b)[2] = b[1]
    BY <2>2, <2>3
  <2>5. \A i \in 1..Len(c) : (a \o b)[i] = c[i]
    <3>1. 1..Len(c) = {1, 2}
      BY <2>2
    <3>2. QED
      BY <2>2, <2>4, <3>1
  <2>6. a \o b = c
    BY <2>1, <2>2, <2>3, <2>5, SeqEqual
  <2>7. QED
    BY <2>6 DEF a, b, c
<1>7. p.at = "notify" => Holds(<< op("leds"), p >>, p)
  BY <1>3, <1>5, <1>6, HoldsAfter
<1>8. QED
  BY <1>2, <1>5, <1>7

-----------------------------------------------------------------------------
(***************************************************************************)
(* The places ChargingThreads sees the threads at.                         *)
(***************************************************************************)
pcOf == [t \in Thread |-> Work(t).at]
callOf == [t \in Thread |-> Work(t).call]
focusOf == [t \in Thread |-> Work(t).focus]

Idling == machine("idle", "none", "none")

(***************************************************************************)
(* A thread that moves changes its own place and no other.                 *)
(***************************************************************************)
LEMMA Places ==
  ASSUME NEW t \in Thread, stack \in [Thread -> Stacks(Good)],
         NEW st, stack' = [stack EXCEPT ![t] = st]
  PROVE  /\ pcOf[t] = WorkIn(stack[t]).at /\ callOf[t] = WorkIn(stack[t]).call
         /\ focusOf[t] = WorkIn(stack[t]).focus
         /\ pcOf' = [pcOf EXCEPT ![t] = WorkIn(st).at]
         /\ callOf' = [callOf EXCEPT ![t] = WorkIn(st).call]
         /\ focusOf' = [focusOf EXCEPT ![t] = WorkIn(st).focus]
<1>1. \A u : Work(u) = WorkIn(stack[u])
  BY HeldWorks
<1>2. \A u : Work(u)' = WorkIn(stack'[u])
  BY DEF Work, Working, Pending, WorkIn, Held, WorkLabels
<1>3. \A u \in Thread : stack'[u] = IF u = t THEN st ELSE stack[u]
  OBVIOUS
<1>4. \A u \in Thread : Work(u)' = IF u = t THEN WorkIn(st) ELSE Work(u)
  BY <1>1, <1>2, <1>3
<1>5. pcOf[t] = WorkIn(stack[t]).at /\ callOf[t] = WorkIn(stack[t]).call
      /\ focusOf[t] = WorkIn(stack[t]).focus
  BY <1>1 DEF pcOf, callOf, focusOf
<1>6. pcOf' = [pcOf EXCEPT ![t] = WorkIn(st).at]
  BY <1>4 DEF pcOf
<1>7. callOf' = [callOf EXCEPT ![t] = WorkIn(st).call]
  BY <1>4 DEF callOf
<1>8. focusOf' = [focusOf EXCEPT ![t] = WorkIn(st).focus]
  BY <1>4 DEF focusOf
<1>9. QED
  BY <1>5, <1>6, <1>7, <1>8

\* ChargingThreads has the tables this module has.
LEMMA SameTables ==
  /\ Class!FirstTest = FirstTest /\ Class!FirstTarget = FirstTarget
  /\ Class!TestAfter = TestAfter /\ Class!Path = Path
  /\ \A r, s : Class!isValidTransition(r, s) = isValidTransition(r, s)
<1>1. Class!FirstTest = FirstTest
  BY DEF Class!FirstTest, FirstTest
<1>2. Class!FirstTarget = FirstTarget
  BY DEF Class!FirstTarget, FirstTarget
<1>3. Class!TestAfter = TestAfter
  BY DEF Class!TestAfter, TestAfter, Class!NoState, NoState
<1>4. Class!Path = Path
  BY DEF Class!Path, Path, Class!NoState, NoState
<1>5. \A r, s : Class!isValidTransition(r, s) = isValidTransition(r, s)
  BY DEF Class!isValidTransition, isValidTransition, Class!Successors, Successors
<1>6. QED
  BY <1>1, <1>2, <1>3, <1>4, <1>5

(***************************************************************************)
(* Such a move, in the words of ChargingThreads.                           *)
(***************************************************************************)
LEMMA ClassMoves ==
  ASSUME NEW t \in Thread, stack \in [Thread -> Stacks(Good)],
         NEW st, stack' = [stack EXCEPT ![t] = st]
  PROVE  /\ WorkIn(st).call = WorkIn(stack[t]).call
              => Class!Goto(t, WorkIn(st).at, WorkIn(st).focus)
         /\ WorkIn(st) = Idling => Class!Return(t)
         /\ WorkIn(st) = WorkIn(stack[t])
              => UNCHANGED <<pcOf, callOf, focusOf>>
         /\ \A c \in MachineCalls :
              /\ WorkIn(stack[t]) = Idling /\ state' = state
              /\ WorkIn(st) = machine("test", c, FirstTest[c])
              => Class!Invoke(t, c)
<1> DEFINE a == WorkIn(stack[t])
           b == WorkIn(st)
<1>1. /\ pcOf[t] = a.at /\ callOf[t] = a.call /\ focusOf[t] = a.focus
      /\ pcOf' = [pcOf EXCEPT ![t] = b.at]
      /\ callOf' = [callOf EXCEPT ![t] = b.call]
      /\ focusOf' = [focusOf EXCEPT ![t] = b.focus]
  BY Places
<1> HIDE DEF a, b
<1>2. b.call = a.call => callOf' = callOf
  BY <1>1 DEF callOf
<1>3. b.call = a.call => Class!Goto(t, b.at, b.focus)
  BY <1>1, <1>2 DEF Class!Goto, pcOf, callOf, focusOf
<1>4. b = Idling => Class!Return(t)
  BY <1>1 DEF Class!Return, pcOf, callOf, focusOf, Idling, machine, op
<1>5. ASSUME b = a
      PROVE  UNCHANGED <<pcOf, callOf, focusOf>>
  <2>1. pcOf' = pcOf
    BY <1>1, <1>5 DEF pcOf
  <2>2. callOf' = callOf
    BY <1>1, <1>5 DEF callOf
  <2>3. focusOf' = focusOf
    BY <1>1, <1>5 DEF focusOf
  <2>4. QED
    BY <2>1, <2>2, <2>3
<1>6. ASSUME NEW c \in MachineCalls, a = Idling, b = machine("test", c, FirstTest[c]),
             state' = state
      PROVE  Class!Invoke(t, c)
  <2>1. pcOf[t] = "idle" /\ b.at = "test" /\ b.call = c /\ b.focus = FirstTest[c]
    BY <1>1, <1>6 DEF Idling, machine, op
  <2>2. c # "error"
    BY DEF MachineCalls
  <2>3. /\ callOf' = [callOf EXCEPT ![t] = c] /\ pcOf' = [pcOf EXCEPT ![t] = "test"]
        /\ focusOf' = [focusOf EXCEPT ![t] = FirstTest[c]]
    BY <1>1, <2>1
  <2>4. QED
    BY <1>6, <2>1, <2>2, <2>3, SameTables DEF Class!Invoke, pcOf, callOf, focusOf
<1>7. QED
  BY <1>3, <1>4, <1>5, <1>6 DEF a, b

-----------------------------------------------------------------------------
(***************************************************************************)
(* A call goes on to operations of the same call.                          *)
(***************************************************************************)
LEMMA FirstOp ==
  ASSUME NEW c \in MachineCalls
  PROVE  machine("test", c, FirstTest[c]) \in Called
<1>1. FirstTest[c] \in Tested[c] /\ FirstTest[c] \in ChargingState
  BY DEF MachineCalls, FirstTest, Tested, ChargingState
<1>2. QED
  BY <1>1 DEF machine, op, Called, Good, Op, WorkLabels, MachineCalls, Label, AllCalls

\* What an operation of a call says.
LEMMA CalledFields ==
  ASSUME NEW o \in Called
  PROVE  /\ o.call \in MachineCalls /\ o.at \in WorkLabels /\ o \in Op
         /\ o.at = "test" => o.focus \in Tested[o.call] /\ o.focus \in ChargingState
         /\ o.at # "test" => o.focus \in Targets[o.call] /\ o.focus \in ChargingState
<1>1. o.call \in MachineCalls /\ o.at \in WorkLabels /\ o \in Op
  BY DEF Called, Good
<1>2. o.at = "test" => o.focus \in Tested[o.call]
  BY DEF Called, Good, Op
<1>3. o.at # "test" => o.focus \in Targets[o.call]
  BY <1>1 DEF Op, WorkLabels
<1>4. \A c \in MachineCalls : Tested[c] \subseteq ChargingState /\ Targets[c] \subseteq ChargingState
  BY DEF MachineCalls, Tested, Targets, ChargingState
<1>5. QED
  BY <1>1, <1>2, <1>3, <1>4

\* An operation of one of the calls the controller makes.
LEMMA MachineOp ==
  ASSUME NEW c \in MachineCalls, NEW at \in WorkLabels, NEW s \in ChargingState,
         at = "test" => s \in Tested[c], at # "test" => s \in Targets[c]
  PROVE  machine(at, c, s) \in Called
  BY DEF machine, op, Called, Good, Op, WorkLabels, MachineCalls, Label, AllCalls

\* What follows one on its path.
LEMMA NextOps ==
  ASSUME NEW o \in Called
  PROVE  /\ o.at = "test" =>
              /\ machine("same", o.call, FirstTarget[o.call][o.focus]) \in Called
              /\ o.focus \in DOMAIN TestAfter[o.call]
                   => machine("test", o.call, TestAfter[o.call][o.focus]) \in Called
         /\ o.at # "test" =>
              /\ o.focus \in DOMAIN Path[o.call]
                   => machine("same", o.call, Path[o.call][o.focus]) \in Called
              /\ \A l \in {"valid", "write", "notify"} : [o EXCEPT !.at = l] \in Called
<1>1. /\ o.call \in MachineCalls /\ o.at \in WorkLabels /\ o \in Op
      /\ o.at = "test" => o.focus \in Tested[o.call]
      /\ o.at # "test" => o.focus \in Targets[o.call]
  BY CalledFields
<1>2. \A c \in MachineCalls : \A s \in Tested[c] :
        /\ FirstTarget[c][s] \in Targets[c] /\ FirstTarget[c][s] \in ChargingState
        /\ s \in DOMAIN TestAfter[c]
             => TestAfter[c][s] \in Tested[c] /\ TestAfter[c][s] \in ChargingState
  BY DEF MachineCalls, Tested, Targets, FirstTarget, TestAfter, NoState, ChargingState
<1>3. \A c \in MachineCalls : \A s \in Targets[c] :
        s \in DOMAIN Path[c] => Path[c][s] \in Targets[c] /\ Path[c][s] \in ChargingState
  BY DEF MachineCalls, Targets, Path, NoState, ChargingState
<1>4. CASE o.at = "test"
  BY <1>1, <1>2, <1>4, MachineOp DEF WorkLabels
<1>5. CASE o.at # "test"
  <2>1. o.focus \in DOMAIN Path[o.call]
          => machine("same", o.call, Path[o.call][o.focus]) \in Called
    BY <1>1, <1>3, <1>5, MachineOp DEF WorkLabels
  <2>2. ASSUME NEW l \in {"valid", "write", "notify"}
        PROVE  [o EXCEPT !.at = l] \in Called
    BY <1>1, <1>5 DEF Called, Good, Op, WorkLabels, Label
  <2>3. QED
    BY <1>5, <2>1, <2>2
<1>6. QED
  BY <1>4, <1>5

-----------------------------------------------------------------------------
(***************************************************************************)
(* The inductive invariant: every stack is one of a thread outside or      *)
(* inside a call of the state machine, and the members have their types.   *)
(***************************************************************************)
Said == Messages \cup {FirstLast}

Members ==
  /\ state \in ChargingState /\ enabled \in BOOLEAN /\ flag \in BOOLEAN /\ line \in BOOLEAN
  /\ last \in Said /\ message \in Said

\* Every message says whether the contactor is to be on.
LEMMA SaidFields ==
  \A m \in Said : m.contactor \in BOOLEAN
<1>1. \A m \in Messages : m.contactor \in BOOLEAN
  BY JobsAssumption
<1>2. FirstLast.contactor \in BOOLEAN
  BY DEF FirstLast
<1>3. QED
  BY <1>1, <1>2 DEF Said

Shaped(st) == Idle(st) \/ \E o \in Called : Busy(st, o)

ThreadInv ==
  /\ Members
  /\ stack \in [Thread -> Stacks(Good)]
  /\ \A t \in Thread : Shaped(stack[t])

(***************************************************************************)
(* A thread outside a call: it stays outside, and leaves the state alone.  *)
(***************************************************************************)
LEMMA PlainStep ==
  ASSUME Members, stack \in [Thread -> Stacks(Good)], NEW t \in Thread,
         Idle(stack[t]), Step(t), ~Is(t, "enter")
  PROVE  /\ state' = state
         /\ \E st : stack' = [stack EXCEPT ![t] = st] /\ Idle(st)
<1>1. stack[t] # <<>>
  BY DEF Step, Is, Guard, StopIfCharging, Able, Line, Flag, Leds, Lit, Enter, Test, CheckSame,
    CheckValid, Write, Notified, EnableEdge, StateEdge, ContactorEdge, IfRelay, Save
<1>2. /\ Top(t) \in Plain /\ Idle(Past(t)) /\ Idle(Failed(t))
      /\ \A ops \in Frames(Plain) : Idle(Instead(t, ops)) /\ Idle(Into(t, ops))
  BY <1>1, IdleMoves
<1>3. Top(t).at \in Label \ WorkLabels
  BY <1>2 DEF Plain, Good, Op
<1>4. SUFFICES /\ state' = state
               /\ \E st : Moves(t, st) /\ Idle(st)
  BY DEF Moves
<1>5. CASE Guard(t) \/ Able(t) \/ Line(t) \/ Flag(t) \/ IfRelay(t) \/ Save(t)
  BY <1>2, <1>5 DEF Guard, Able, Line, Flag, IfRelay, Save, members
<1>6. CASE StopIfCharging(t)
  <2>1. frame("stop") \in Frames(Plain)
    BY HandlerFrames DEF Handlers
  <2>2. QED
    BY <1>2, <1>6, <2>1 DEF StopIfCharging, members
<1>7. CASE Leds(t) \/ Lit(t)
  <2>1. << op("lit") >> \in Frames(Plain)
    BY SmallFrames DEF Label, WorkLabels
  <2>2. setRelayState(TRUE) \in Frames(Plain) /\ setRelayState(FALSE) \in Frames(Plain)
    BY SmallFrames
  <2>3. QED
    BY <1>2, <1>7, <2>1, <2>2 DEF Leds, Lit, members
<1>8. CASE EnableEdge(t)
  <2>1. frame("enable") \in Frames(Plain) /\ frame("disable") \in Frames(Plain)
    BY HandlerFrames DEF Handlers
  <2>2. QED
    BY <1>2, <1>8, <2>1 DEF EnableEdge, members
<1>9. CASE StateEdge(t)
  <2>1. << machine("enter", "stop", "none") >> \in Frames(Plain)
    BY PlainOps, Singles DEF MachineCalls
  <2>2. << switch("ifRelay", TRUE) >> \o guarded("start") \in Frames(Plain)
    <3>1. << switch("ifRelay", TRUE) >> \in Frames(Plain)
      BY SmallFrames DEF Label, WorkLabels
    <3>2. guarded("start") \in Frames(Plain)
      BY Guarding DEF MachineCalls
    <3>3. QED
      BY <3>1, <3>2, Joined DEF Frames
  <2>3. QED
    BY <1>2, <1>9, <2>1, <2>2 DEF StateEdge, members
<1>10. CASE ContactorEdge(t)
  <2> DEFINE check == IF message.contactor THEN << op("guard") >> ELSE <<>>
             ops == check \o << switch("ifRelay", ~message.contactor) >>
                          \o setRelayState(message.contactor)
  <2>1. message.contactor \in BOOLEAN
    BY SaidFields DEF Members
  <2>2. check \in Seq(Plain)
    BY SmallFrames DEF Label, WorkLabels, Frames
  <2>3. << switch("ifRelay", ~message.contactor) >> \in Frames(Plain)
    <3>1. (~message.contactor) \in BOOLEAN
      OBVIOUS
    <3>2. QED
      BY <3>1, SmallFrames DEF Label, WorkLabels
  <2>4. setRelayState(message.contactor) \in Frames(Plain)
    BY <2>1, SmallFrames
  <2>5. ops \in Frames(Plain)
    BY <2>2, <2>3, <2>4, Joined DEF Frames
  <2> HIDE DEF check, ops
  <2>6. \/ Moves(t, Past(t))
        \/ Moves(t, Into(t, ops))
    BY <1>10 DEF ContactorEdge, check, ops
  <2>7. QED
    BY <1>2, <1>10, <2>5, <2>6 DEF ContactorEdge, members
<1>11. CASE Enter(t) \/ Test(t) \/ CheckSame(t) \/ CheckValid(t) \/ Write(t) \/ Notified(t)
  BY <1>3, <1>11 DEF Enter, Test, CheckSame, CheckValid, Write, Notified, Is, WorkLabels
<1>12. QED
  BY <1>5, <1>6, <1>7, <1>8, <1>9, <1>10, <1>11 DEF Step

(***************************************************************************)
(* A thread enters a call.                                                 *)
(***************************************************************************)
LEMMA EnterStep ==
  ASSUME NEW t \in Thread, Idle(stack[t]), Enter(t)
  PROVE  /\ state' = state
         /\ \E st : \E c \in MachineCalls :
              stack' = [stack EXCEPT ![t] = st] /\ Busy(st, machine("test", c, FirstTest[c]))
<1> DEFINE c == Top(t).call
           p == machine("test", c, FirstTest[c])
           r == Tail(stack[t][1])
<1>1. stack[t] # <<>> /\ Top(t).at = "enter"
  BY DEF Enter, Is
<1>2. /\ Top(t) \in Plain /\ r \in Seq(Plain) /\ Tail(stack[t]) \in Stacks(Plain)
  BY <1>1, OnTop DEF Idle, Top
<1>3. c \in MachineCalls
  BY <1>1, <1>2 DEF Plain, Good
<1>4. p \in Called /\ << p >> \in Frames(Good) /\ Holds(<< p >>, p)
  BY <1>3, FirstOp, NextOfCall
<1>5. stack' = [stack EXCEPT ![t] = Instead(t, << p >>)] /\ state' = state
  BY DEF Enter, Moves, members
<1> HIDE DEF p, c
<1>6. Holds(<< p >> \o r, p) /\ << p >> \o r \in Frames(Good)
  <2>1. r \in Seq(Good) /\ << p >> \in Seq(Good) /\ << p >> # <<>>
    BY <1>2, <1>4, SeqMonotonic DEF Plain, Frames
  <2>2. QED
    BY <1>2, <1>4, <2>1, HoldsBefore, Joined
<1>7. Busy(Instead(t, << p >>), p)
  BY <1>2, <1>4, <1>6, PushedTop DEF Busy, Instead
<1>8. QED
  BY <1>3, <1>5, <1>7 DEF p

(***************************************************************************)
(* The refresh inside a call touches neither the call nor the state.       *)
(***************************************************************************)
LEMMA RefreshStep ==
  ASSUME NEW t \in Thread, NEW o, Busy(stack[t], o), Top(t) # o, Step(t)
  PROVE  /\ state' = state
         /\ \E st : stack' = [stack EXCEPT ![t] = st] /\ Busy(st, o)
<1>1. /\ Top(t) \in Refreshing /\ Busy(Past(t), o)
      /\ \A ops \in Frames(Refreshing) : Busy(Instead(t, ops), o)
  BY RefreshGoesOn
<1>2. Top(t).at \in {"leds", "lit", "line", "flag"}
  BY <1>1 DEF Refreshing
<1>3. Leds(t) \/ Lit(t) \/ Line(t) \/ Flag(t)
  BY <1>2 DEF Step, Is, Guard, StopIfCharging, Able, Line, Flag, Leds, Lit, Enter, Test,
    CheckSame, CheckValid, Write, Notified, EnableEdge, StateEdge, ContactorEdge, IfRelay, Save
<1>4. /\ << op("lit") >> \in Frames(Refreshing)
      /\ setRelayState(TRUE) \in Frames(Refreshing) /\ setRelayState(FALSE) \in Frames(Refreshing)
  BY RefreshFrames
<1>5. CASE Leds(t) \/ Lit(t)
  BY <1>1, <1>4, <1>5 DEF Leds, Lit, Moves, members
<1>6. CASE Line(t) \/ Flag(t)
  BY <1>1, <1>6 DEF Line, Flag, Moves
<1>7. QED
  BY <1>3, <1>5, <1>6

(***************************************************************************)
(* How a call moves on, in the words of ChargingThreads: to the next       *)
(* operation of the same call, or out of it.                               *)
(***************************************************************************)
LEMMA CallMoves ==
  ASSUME stack \in [Thread -> Stacks(Good)],
         NEW t \in Thread, NEW o, Busy(stack[t], o), Top(t) = o
  PROVE  /\ pcOf[t] = o.at /\ callOf[t] = o.call /\ focusOf[t] = o.focus
         /\ \A p \in Called : p.call = o.call =>
              /\ Moves(t, Instead(t, << p >>)) =>
                   Busy(Instead(t, << p >>), p) /\ Class!Goto(t, p.at, p.focus)
              /\ (p.at = "notify" /\ Moves(t, Instead(t, << op("leds"), p >>))) =>
                   /\ Busy(Instead(t, << op("leds"), p >>), p)
                   /\ Class!Goto(t, p.at, p.focus)
         /\ Moves(t, Past(t)) => Idle(Past(t)) /\ Class!Return(t)
         /\ Moves(t, Failed(t)) => Idle(Failed(t)) /\ Class!Return(t)
<1>1. WorkIn(stack[t]) = o /\ Work(t) = o
  BY BusyHoldsOne, HeldWorks
<1>2. pcOf[t] = o.at /\ callOf[t] = o.call /\ focusOf[t] = o.focus
  BY <1>1 DEF pcOf, callOf, focusOf
<1>3. ASSUME NEW p \in Called, p.call = o.call, NEW ops, ops \in Frames(Good), Holds(ops, p),
             Moves(t, Instead(t, ops))
      PROVE  Busy(Instead(t, ops), p) /\ Class!Goto(t, p.at, p.focus)
  <2>1. Busy(Instead(t, ops), p)
    BY <1>3, CallGoesOn
  <2>2. WorkIn(Instead(t, ops)) = p
    BY <2>1, BusyHoldsOne
  <2>3. QED
    BY <1>1, <1>3, <2>1, <2>2, ClassMoves DEF Moves
<1>4. ASSUME NEW p \in Called
      PROVE  /\ << p >> \in Frames(Good) /\ Holds(<< p >>, p)
             /\ p.at = "notify" => /\ << op("leds"), p >> \in Frames(Good)
                                   /\ Holds(<< op("leds"), p >>, p)
  BY NextOfCall
<1>5. ASSUME NEW st, Idle(st), Moves(t, st)
      PROVE  Class!Return(t)
  <2>1. WorkIn(st) = Idling
    BY <1>5, IdleHoldsNone DEF Idling
  <2>2. QED
    BY <1>5, <2>1, ClassMoves DEF Moves
<1>6. Idle(Past(t)) /\ Idle(Failed(t))
  BY CallEnds
<1>7. QED
  BY <1>2, <1>3, <1>4, <1>5, <1>6

\* A transition is done: the chain goes on, or the call returns.
LEMMA CallAdvances ==
  ASSUME stack \in [Thread -> Stacks(Good)],
         NEW t \in Thread, NEW o, Busy(stack[t], o), Top(t) = o, o.at # "test",
         Moves(t, Advance(t))
  PROVE  Class!Advance(t) /\ Shaped(Advance(t))
<1>1. /\ pcOf[t] = o.at /\ callOf[t] = o.call /\ focusOf[t] = o.focus /\ o \in Called
  BY CallMoves DEF Busy
<1>2. CASE o.focus \in DOMAIN Path[o.call]
  <2> DEFINE p == machine("same", o.call, Path[o.call][o.focus])
  <2>1. Advance(t) = Instead(t, << p >>)
    BY <1>2 DEF Advance
  <2>2. p \in Called /\ p.call = o.call /\ p.at = "same" /\ p.focus = Path[o.call][o.focus]
    BY <1>1, <1>2, NextOps DEF machine, op
  <2> HIDE DEF p
  <2>3. Busy(Advance(t), p) /\ Class!Goto(t, "same", Path[o.call][o.focus])
    BY <2>1, <2>2, CallMoves
  <2>4. QED
    BY <1>1, <1>2, <2>2, <2>3, SameTables DEF Class!Advance, Shaped, callOf, focusOf
<1>3. CASE o.focus \notin DOMAIN Path[o.call]
  <2>1. Advance(t) = Past(t)
    BY <1>3 DEF Advance
  <2>2. Idle(Advance(t)) /\ Class!Return(t)
    BY <2>1, CallMoves
  <2>3. QED
    BY <1>1, <1>3, <2>2, SameTables DEF Class!Advance, Shaped, callOf, focusOf
<1>4. QED
  BY <1>2, <1>3

(***************************************************************************)
(* A step of a thread in a call, on an operation of the call, is a step of *)
(* ChargingThreads, and it leaves the thread in the call or out of it.     *)
(***************************************************************************)
LEMMA CallStep ==
  ASSUME stack \in [Thread -> Stacks(Good)],
         NEW t \in Thread, NEW o, Busy(stack[t], o), Top(t) = o, Step(t)
  PROVE  /\ Class!Step(t)
         /\ \E st : stack' = [stack EXCEPT ![t] = st] /\ Shaped(st)
         /\ state' = state \/ (state' = o.focus /\ o.at # "test")
<1>1. /\ pcOf[t] = o.at /\ callOf[t] = o.call /\ focusOf[t] = o.focus
      /\ o \in Called
  BY CallMoves DEF Busy
<1>2. o.at \in WorkLabels
  BY <1>1 DEF Called
<1>3. Test(t) \/ CheckSame(t) \/ CheckValid(t) \/ Write(t) \/ Notified(t)
  BY <1>2 DEF WorkLabels, Step, Is, Guard, StopIfCharging, Able, Line, Flag, Leds, Lit, Enter,
    EnableEdge, StateEdge, ContactorEdge, IfRelay, Save
<1>4. \A p \in Called : p.call = o.call =>
        /\ Moves(t, Instead(t, << p >>)) =>
             /\ Class!Goto(t, p.at, p.focus)
             /\ \E st : Moves(t, st) /\ Shaped(st)
        /\ (p.at = "notify" /\ Moves(t, Instead(t, << op("leds"), p >>))) =>
             /\ Class!Goto(t, p.at, p.focus)
             /\ \E st : Moves(t, st) /\ Shaped(st)
  BY CallMoves DEF Shaped
<1>5. \A st : (st = Past(t) \/ st = Failed(t)) /\ Moves(t, st) =>
        Class!Return(t) /\ \E s : Moves(t, s) /\ Shaped(s)
  BY CallMoves DEF Shaped
<1>6. (o.at # "test" /\ Moves(t, Advance(t))) =>
        Class!Advance(t) /\ \E st : Moves(t, st) /\ Shaped(st)
  BY CallAdvances
<1>7. CASE Test(t)
  <2>1. o.at = "test" /\ state' = state
    BY <1>7 DEF Test, Is, members
  <2>2. CASE state = o.focus
    <3> DEFINE p == machine("same", o.call, FirstTarget[o.call][o.focus])
    <3>1. Moves(t, Instead(t, << p >>))
      BY <1>7, <2>2 DEF Test
    <3>2. /\ p \in Called /\ p.call = o.call /\ p.at = "same"
          /\ p.focus = FirstTarget[o.call][o.focus]
      BY <1>1, <2>1, NextOps DEF machine, op
    <3> HIDE DEF p
    <3>3. /\ Class!Goto(t, "same", FirstTarget[o.call][o.focus])
          /\ \E st : Moves(t, st) /\ Shaped(st)
      BY <1>4, <3>1, <3>2
    <3>4. Class!Test(t)
      BY <1>1, <2>1, <2>2, <3>3, SameTables DEF Class!Test, pcOf, callOf, focusOf
    <3>5. QED
      BY <2>1, <3>3, <3>4 DEF Class!Step, Moves
  <2>3. CASE state # o.focus /\ o.focus \in DOMAIN TestAfter[o.call]
    <3> DEFINE p == machine("test", o.call, TestAfter[o.call][o.focus])
    <3>1. Moves(t, Instead(t, << p >>))
      BY <1>7, <2>3 DEF Test
    <3>2. /\ p \in Called /\ p.call = o.call /\ p.at = "test"
          /\ p.focus = TestAfter[o.call][o.focus]
      BY <1>1, <2>1, <2>3, NextOps DEF machine, op
    <3> HIDE DEF p
    <3>3. /\ Class!Goto(t, "test", TestAfter[o.call][o.focus])
          /\ \E st : Moves(t, st) /\ Shaped(st)
      BY <1>4, <3>1, <3>2
    <3>4. Class!Test(t)
      BY <1>1, <2>1, <2>3, <3>3, SameTables DEF Class!Test, pcOf, callOf, focusOf
    <3>5. QED
      BY <2>1, <3>3, <3>4 DEF Class!Step, Moves
  <2>4. CASE state # o.focus /\ o.focus \notin DOMAIN TestAfter[o.call]
    <3>1. Moves(t, Failed(t))
      BY <1>7, <2>4 DEF Test
    <3>2. Class!Return(t) /\ \E st : Moves(t, st) /\ Shaped(st)
      BY <1>5, <3>1
    <3>3. Class!Test(t)
      BY <1>1, <2>1, <2>4, <3>2, SameTables DEF Class!Test, pcOf, callOf, focusOf
    <3>4. QED
      BY <2>1, <3>2, <3>3 DEF Class!Step, Moves
  <2>5. QED
    BY <2>2, <2>3, <2>4
<1>8. CASE CheckSame(t)
  <2>1. o.at = "same" /\ state' = state
    BY <1>8 DEF CheckSame, Is, members
  <2>2. CASE state = o.focus
    <3>1. Class!Advance(t) /\ \E st : Moves(t, st) /\ Shaped(st)
      BY <1>6, <1>8, <2>1, <2>2 DEF CheckSame
    <3>2. Class!CheckSame(t)
      BY <1>1, <2>1, <2>2, <3>1 DEF Class!CheckSame, pcOf, focusOf
    <3>3. QED
      BY <2>1, <3>1, <3>2 DEF Class!Step, Moves
  <2>3. CASE state # o.focus
    <3> DEFINE p == [o EXCEPT !.at = "valid"]
    <3>1. Moves(t, Instead(t, << p >>))
      BY <1>8, <2>3 DEF CheckSame
    <3>2. p \in Called /\ p.call = o.call /\ p.at = "valid" /\ p.focus = o.focus
      BY <1>1, <2>1, NextOps DEF Called, Good, Op
    <3> HIDE DEF p
    <3>3. Class!Goto(t, "valid", o.focus) /\ \E st : Moves(t, st) /\ Shaped(st)
      BY <1>4, <3>1, <3>2
    <3>4. Class!CheckSame(t)
      BY <1>1, <2>1, <2>3, <3>3 DEF Class!CheckSame, pcOf, focusOf
    <3>5. QED
      BY <2>1, <3>3, <3>4 DEF Class!Step, Moves
  <2>4. QED
    BY <2>2, <2>3
<1>9. CASE CheckValid(t)
  <2>1. o.at = "valid" /\ state' = state
    BY <1>9 DEF CheckValid, Is, members
  <2>2. CASE isValidTransition(state, o.focus)
    <3> DEFINE p == [o EXCEPT !.at = "write"]
    <3>1. Moves(t, Instead(t, << p >>))
      BY <1>9, <2>2 DEF CheckValid
    <3>2. p \in Called /\ p.call = o.call /\ p.at = "write" /\ p.focus = o.focus
      BY <1>1, <2>1, NextOps DEF Called, Good, Op
    <3> HIDE DEF p
    <3>3. Class!Goto(t, "write", o.focus) /\ \E st : Moves(t, st) /\ Shaped(st)
      BY <1>4, <3>1, <3>2
    <3>4. Class!CheckValid(t)
      BY <1>1, <2>1, <2>2, <3>3, SameTables DEF Class!CheckValid, pcOf, focusOf
    <3>5. QED
      BY <2>1, <3>3, <3>4 DEF Class!Step, Moves
  <2>3. CASE ~isValidTransition(state, o.focus)
    <3>1. Moves(t, Failed(t))
      BY <1>9, <2>3 DEF CheckValid
    <3>2. Class!Return(t) /\ \E st : Moves(t, st) /\ Shaped(st)
      BY <1>5, <3>1
    <3>3. Class!CheckValid(t)
      BY <1>1, <2>1, <2>3, <3>2, SameTables DEF Class!CheckValid, pcOf, focusOf
    <3>4. QED
      BY <2>1, <3>2, <3>3 DEF Class!Step, Moves
  <2>4. QED
    BY <2>2, <2>3
<1>10. CASE Write(t)
  <2>1. o.at = "write" /\ state' = o.focus
    BY <1>10 DEF Write, Is
  <2> DEFINE p == [o EXCEPT !.at = "notify"]
  <2>2. Moves(t, Instead(t, << op("leds"), p >>))
    BY <1>10 DEF Write
  <2>3. p \in Called /\ p.call = o.call /\ p.at = "notify" /\ p.focus = o.focus
    BY <1>1, <2>1, NextOps DEF Called, Good, Op
  <2> HIDE DEF p
  <2>4. Class!Goto(t, "notify", o.focus) /\ \E st : Moves(t, st) /\ Shaped(st)
    BY <1>4, <2>2, <2>3
  <2>5. Class!Write(t)
    BY <1>1, <2>1, <2>4 DEF Class!Write, pcOf, focusOf
  <2>6. QED
    BY <2>1, <2>4, <2>5 DEF Class!Step, Moves
<1>11. CASE Notified(t)
  <2>1. o.at = "notify" /\ state' = state
    BY <1>11 DEF Notified, Is, members
  <2>2. Class!Advance(t) /\ \E st : Moves(t, st) /\ Shaped(st)
    BY <1>6, <1>11, <2>1 DEF Notified
  <2>3. Class!Notify(t)
    BY <1>1, <2>1, <2>2 DEF Class!Notify, pcOf
  <2>4. QED
    BY <2>1, <2>2, <2>3 DEF Class!Step, Moves
<1>12. QED
  BY <1>3, <1>7, <1>8, <1>9, <1>10, <1>11

-----------------------------------------------------------------------------
(***************************************************************************)
(* A handler begins outside every call.                                    *)
(***************************************************************************)
Beginning ==
  \/ \E t \in User, h \in UserCalls : Call(t, h)
  \/ \E t \in Receiver : Receive(t)
  \/ \E t \in Monitor : Unplug(t)

\* The thread was outside before, and what it begins with is of no call.
LEMMA BeginsOutside ==
  ASSUME Members, Beginning
  PROVE  /\ UNCHANGED members
         /\ \E t \in Thread : \E st : stack' = [stack EXCEPT ![t] = st] /\ Idle(st) /\ Idle(stack[t])
<1>1. ASSUME NEW t, NEW f \in Frames(Plain), Begins(t, f)
      PROVE  /\ stack' = [stack EXCEPT ![t] = << f >>]
             /\ Idle(<< f >>) /\ Idle(stack[t])
  BY <1>1 DEF Begins, Moves, Idle, Stacks
<1>2. ASSUME NEW t \in User, NEW h \in UserCalls, Call(t, h)
      PROVE  frame(h) \in Frames(Plain) /\ Begins(t, frame(h)) /\ UNCHANGED members
  BY <1>2, HandlerFrames, JobsAssumption DEF Call
<1>3. ASSUME NEW t \in Receiver, Receive(t)
      PROVE  /\ processNetworkMessage \in Frames(Plain) /\ Begins(t, processNetworkMessage)
             /\ UNCHANGED members
  BY <1>3, HandlerFrames DEF Receive
<1>4. ASSUME NEW t \in Monitor, Unplug(t)
      PROVE  /\ << op("stopIfCharging") >> \in Frames(Plain)
             /\ Begins(t, << op("stopIfCharging") >>) /\ UNCHANGED members
  BY <1>4, SmallFrames DEF Unplug, Label, WorkLabels
<1>5. QED
  BY <1>1, <1>2, <1>3, <1>4 DEF Beginning, Thread

(***************************************************************************)
(* The members keep their types.                                           *)
(***************************************************************************)
LEMMA MembersStay ==
  ASSUME ThreadInv, [Next]_vars
  PROVE  Members'
<1> USE DEF Members
<1>1. CASE Beginning
  <2>1. UNCHANGED members /\ last' = last /\ message' \in Said
    BY <1>1 DEF Beginning, Call, Receive, Unplug, Said, ThreadInv
  <2>2. QED
    BY <2>1 DEF members, ThreadInv
<1>2. ASSUME NEW t \in Thread, Step(t)
      PROVE  Members'
  <2>1. stack[t] # <<>> /\ stack[t] \in Stacks(Good)
    BY <1>2 DEF ThreadInv, Step, Is, Guard, StopIfCharging, Able, Line, Flag, Leds, Lit, Enter,
      Test, CheckSame, CheckValid, Write, Notified, EnableEdge, StateEdge, ContactorEdge,
      IfRelay, Save
  <2>2. Top(t) \in Op
    BY <2>1, OnTop DEF Good, Top
  <2>3. Top(t).on \in BOOLEAN
    BY <2>2 DEF Op
  <2>4. CASE Able(t) \/ Line(t) \/ Flag(t)
    BY <2>3, <2>4 DEF Able, Line, Flag, ThreadInv
  <2>5. CASE Write(t)
    <3>1. Top(t).at = "write" /\ state' = Top(t).focus
          /\ UNCHANGED <<enabled, flag, line, last, message>>
      BY <2>5 DEF Write, Is
    <3>2. Top(t) \in Called
      BY <2>1, <3>1, OnTop DEF Called, WorkLabels, Top
    <3>3. Top(t).focus \in ChargingState
      BY <3>2, CalledFields
    <3>4. QED
      BY <3>1, <3>3 DEF ThreadInv
  <2>6. CASE Save(t)
    BY <2>6 DEF Save, members, ThreadInv
  <2>7. CASE UNCHANGED <<members, last, message>>
    BY <2>7 DEF members, ThreadInv
  <2>8. QED
    BY <1>2, <2>4, <2>5, <2>6, <2>7 DEF Step, Guard, StopIfCharging, Leds, Lit, Enter, Test,
      CheckSame, CheckValid, Notified, EnableEdge, StateEdge, ContactorEdge, IfRelay
<1>3. CASE UNCHANGED vars
  BY <1>3 DEF vars, members, ThreadInv
<1>4. QED
  BY <1>1, <1>2, <1>3 DEF Next, Beginning

(***************************************************************************)
(* Every step keeps the stacks in shape, and is to the state machine a     *)
(* step of one of its calls, the beginning of one, or none.                *)
(***************************************************************************)
LEMMA ShapeOfStep ==
  ASSUME ThreadInv, NEW t \in Thread, Step(t)
  PROVE  /\ \E st : stack' = [stack EXCEPT ![t] = st] /\ Shaped(st)
         /\ Class!Next \/ UNCHANGED <<state, pcOf, callOf, focusOf>>
<1>1. Members /\ stack \in [Thread -> Stacks(Good)] /\ Shaped(stack[t])
  BY DEF ThreadInv
<1>2. CASE Idle(stack[t]) /\ ~Is(t, "enter")
  <2>1. PICK st : state' = state /\ stack' = [stack EXCEPT ![t] = st] /\ Idle(st)
    BY <1>1, <1>2, PlainStep
  <2>2. WorkIn(st) = WorkIn(stack[t])
    BY <1>2, <2>1, IdleHoldsNone
  <2>3. QED
    BY <1>1, <2>1, <2>2, ClassMoves DEF Shaped
<1>3. CASE Idle(stack[t]) /\ Is(t, "enter")
  <2>1. Enter(t)
    BY <1>3 DEF Step, Is, Guard, StopIfCharging, Able, Line, Flag, Leds, Lit, Test, CheckSame,
      CheckValid, Write, Notified, EnableEdge, StateEdge, ContactorEdge, IfRelay, Save
  <2>2. PICK st : \E c \in MachineCalls :
          /\ state' = state /\ stack' = [stack EXCEPT ![t] = st]
          /\ Busy(st, machine("test", c, FirstTest[c]))
    BY <1>3, <2>1, EnterStep
  <2>3. PICK c \in MachineCalls : /\ state' = state /\ stack' = [stack EXCEPT ![t] = st]
                                  /\ Busy(st, machine("test", c, FirstTest[c]))
    BY <2>2
  <2>4. Shaped(st)
    BY <2>3, FirstOp DEF Shaped
  <2>5. WorkIn(stack[t]) = Idling /\ WorkIn(st) = machine("test", c, FirstTest[c])
    BY <1>3, <2>3, IdleHoldsNone, BusyHoldsOne DEF Idling
  <2>6. Class!Invoke(t, c)
    BY <1>1, <2>3, <2>5, ClassMoves
  <2>7. Class!Next
    BY <2>6 DEF Class!Next, MachineCalls
  <2>8. QED
    BY <2>3, <2>4, <2>7
<1>4. ASSUME NEW o \in Called, Busy(stack[t], o), Top(t) # o
      PROVE  /\ \E st : stack' = [stack EXCEPT ![t] = st] /\ Shaped(st)
             /\ UNCHANGED <<state, pcOf, callOf, focusOf>>
  <2>1. PICK st : state' = state /\ stack' = [stack EXCEPT ![t] = st] /\ Busy(st, o)
    BY <1>4, RefreshStep
  <2>2. WorkIn(st) = WorkIn(stack[t])
    BY <1>4, <2>1, BusyHoldsOne
  <2>3. QED
    BY <1>1, <2>1, <2>2, ClassMoves DEF Shaped
<1>5. ASSUME NEW o \in Called, Busy(stack[t], o), Top(t) = o
      PROVE  /\ \E st : stack' = [stack EXCEPT ![t] = st] /\ Shaped(st)
             /\ Class!Next
  <2>1. Class!Step(t) /\ \E st : stack' = [stack EXCEPT ![t] = st] /\ Shaped(st)
    BY <1>1, <1>5, CallStep
  <2>2. QED
    BY <2>1 DEF Class!Next
<1>6. QED
  BY <1>1, <1>2, <1>3, <1>4, <1>5 DEF Shaped

\* No thread runs at first.
LEMMA ThreadInvInit == Init => ThreadInv
<1> SUFFICES ASSUME Init
             PROVE  ThreadInv
  OBVIOUS
<1>1. Members
  BY DEF Init, Members, Said, ChargingState
<1>2. stack = [t \in Thread |-> <<>>]
  BY DEF Init
<1>3. Idle(<<>>) /\ <<>> \in Stacks(Good)
  BY DEF Idle, Stacks
<1>4. QED
  BY <1>1, <1>2, <1>3 DEF ThreadInv, Shaped

\* Every step of every thread keeps the invariant.
LEMMA ThreadInvStep == ThreadInv /\ [Next]_vars => ThreadInv'
<1> SUFFICES ASSUME ThreadInv, [Next]_vars
             PROVE  ThreadInv'
  OBVIOUS
<1>1. Members'
  BY MembersStay
<1>2. CASE UNCHANGED vars
  BY <1>1, <1>2 DEF vars, ThreadInv
<1>3. CASE Beginning \/ \E t \in Thread : Step(t)
  <2>0. PICK t \in Thread : \E st : stack' = [stack EXCEPT ![t] = st] /\ Shaped(st)
    BY <1>3, BeginsOutside, ShapeOfStep DEF ThreadInv, Shaped
  <2>1. PICK st : stack' = [stack EXCEPT ![t] = st] /\ Shaped(st)
    BY <2>0
  <2>2. Plain \subseteq Good
    BY DEF Plain
  <2>3. st \in Stacks(Good)
    BY <2>1, <2>2, FramesGrow DEF Shaped, Idle, Busy
  <2>4. stack' \in [Thread -> Stacks(Good)] /\ \A u \in Thread : Shaped(stack'[u])
    BY <2>1, <2>3 DEF ThreadInv
  <2>5. QED
    BY <1>1, <2>4 DEF ThreadInv, Shaped, Idle, Busy
<1>4. QED
  BY <1>2, <1>3 DEF Next, Beginning

\* What the invariant says of the types.
LEMMA TypesFollow == ThreadInv => TypeOK
<1> SUFFICES ASSUME ThreadInv
             PROVE  TypeOK
  OBVIOUS
<1>1. ASSUME NEW t \in Thread, NEW f \in Image(stack[t])
      PROVE  f # <<>> /\ Image(f) \subseteq Op
  <2>1. stack[t] \in Stacks(Good)
    BY DEF ThreadInv
  <2>2. f \in Frames(Good) /\ Image(f) \subseteq Good
    BY <1>1, <2>1, Imaged
  <2>3. QED
    BY <2>2 DEF Frames, Good
<1>2. QED
  BY <1>1 DEF ThreadInv, Members, Said, TypeOK

(***************************************************************************)
(* The members and the frames of every thread keep their types, and a      *)
(* thread is never in two calls of the state machine.                      *)
(***************************************************************************)
THEOREM TypeCorrect == Spec => []TypeOK
<1>1. Spec => []ThreadInv
  BY ThreadInvInit, ThreadInvStep, PTL DEF Spec
<1>2. QED
  BY <1>1, TypesFollow, PTL

\* At first no thread is in a call.
LEMMA ClassInit == Init => Class!Init
<1> SUFFICES ASSUME Init
             PROVE  Class!Init
  OBVIOUS
<1>1. Idle(<<>>)
  BY DEF Idle, Stacks
<1>2. \A t \in Thread : Work(t) = Idling
  BY <1>1, IdleHoldsNone, HeldWorks DEF Init, Idling
<1>3. QED
  BY <1>2 DEF Init, Class!Init, Idling, machine, op

\* Every step of the controller is one of ChargingThreads or none.
LEMMA ClassStep == ThreadInv /\ [Next]_vars => [Class!Next]_Class!vars
<1> SUFFICES ASSUME ThreadInv, [Next]_vars
             PROVE  Class!Next \/ UNCHANGED <<state, pcOf, callOf, focusOf>>
  BY DEF Class!vars, Class!places, pcOf, callOf, focusOf
<1>1. CASE UNCHANGED vars
  BY <1>1 DEF vars, pcOf, callOf, focusOf, Work, Working, Pending
<1>2. CASE Beginning
  <2>0. PICK t \in Thread : \E st : /\ stack' = [stack EXCEPT ![t] = st]
                                    /\ Idle(st) /\ Idle(stack[t]) /\ state' = state
    BY <1>2, BeginsOutside DEF ThreadInv, members
  <2>1. PICK st : /\ stack' = [stack EXCEPT ![t] = st]
                  /\ Idle(st) /\ Idle(stack[t]) /\ state' = state
    BY <2>0
  <2>2. WorkIn(st) = WorkIn(stack[t])
    BY <2>1, IdleHoldsNone
  <2>3. QED
    BY <2>1, <2>2, ClassMoves DEF ThreadInv
<1>3. QED
  BY <1>1, <1>2, ShapeOfStep DEF Next, Beginning

(***************************************************************************)
(* The controller's threads use the state machine the way ChargingThreads  *)
(* says, so whatever is proved there of overlapping calls holds here.      *)
(***************************************************************************)
THEOREM ThreadsImplementClass == Spec => ImplementsClass
<1>1. Spec => []ThreadInv
  BY ThreadInvInit, ThreadInvStep, PTL DEF Spec
<1>2. QED
  BY <1>1, ClassInit, ClassStep, PTL DEF Spec, ImplementsClass, Class!Spec

-----------------------------------------------------------------------------
(***************************************************************************)
(* A disabled box.  Every operation that could give it power or a session  *)
(* is in a frame whose next operation fails there; the others, Safe, are   *)
(* harmless.  enable is what the message in hand says.                     *)
(***************************************************************************)
Safe(enable) ==
  { o \in Good :
      \/ o.at \in {"able", "line", "flag"} /\ o.on = FALSE
      \/ o.at \in {"leds", "stopIfCharging", "stateEdge", "contactorEdge", "save"}
      \/ o.at \in WorkLabels \cup {"enter"} /\ o.call = "stop"
      \/ o.at = "enableEdge" /\ enable = FALSE }

Fails(o) == o.at = "guard" \/ (o.at = "ifRelay" /\ o.on = TRUE)

Harmless(st, enable) ==
  \/ st \in Stacks(Safe(enable))
  \/ st # <<>> /\ Fails(st[1][1]) /\ Tail(st) \in Stacks(Safe(enable))

DeadInv ==
  /\ enabled = FALSE /\ flag = FALSE /\ line = FALSE /\ state # "CHARGING"
  /\ \A t \in Thread : Harmless(stack[t], message.enable)

\* The first operation of a frame put together from two.
LEMMA FirstOf ==
  ASSUME NEW S, NEW f \in Frames(S), NEW g \in Seq(S)
  PROVE  (f \o g)[1] = f[1]
<1>1. Len(f) \in Nat \ {0} /\ f \in Seq(S) /\ Len(g) \in Nat
  BY EmptySeq DEF Frames
<1>2. 1 \in 1..Len(f) + Len(g) /\ 1 <= Len(f)
  BY <1>1
<1>3. QED
  BY <1>1, <1>2, ConcatProperties

\* A frame that is harmless on a disabled box.
Tame(f, enable) == f \in Frames(Safe(enable)) \/ (f \in Frames(Good) /\ Fails(f[1]))

\* The harmless operations; the more so the message does not enable.
LEMMA SafeOps ==
  ASSUME NEW e
  PROVE  /\ \A at \in {"leds", "stopIfCharging", "stateEdge", "contactorEdge", "save"} :
              op(at) \in Safe(e)
         /\ \A at \in {"able", "line", "flag"} : switch(at, FALSE) \in Safe(e)
         /\ machine("enter", "stop", "none") \in Safe(e)
         /\ Safe(e) \subseteq Good /\ Safe(e) \subseteq Safe(FALSE)
<1>1. ASSUME NEW at \in {"leds", "stopIfCharging", "stateEdge", "contactorEdge", "save"}
      PROVE  op(at) \in Safe(e)
  <2>1. op(at) \in Good /\ op(at).at = at
    BY PlainOps DEF Plain, op, Label, WorkLabels
  <2>2. QED
    BY <2>1 DEF Safe
<1>2. ASSUME NEW at \in {"able", "line", "flag"}
      PROVE  switch(at, FALSE) \in Safe(e)
  <2>1. switch(at, FALSE) \in Good
    BY PlainOps DEF Plain, Label, WorkLabels
  <2>2. switch(at, FALSE).at = at /\ switch(at, FALSE).on = FALSE
    BY DEF switch, op
  <2>3. QED
    BY <2>1, <2>2 DEF Safe
<1>3. machine("enter", "stop", "none") \in Safe(e)
  <2>1. machine("enter", "stop", "none") \in Good
    BY PlainOps DEF Plain, MachineCalls
  <2>2. QED
    BY <2>1 DEF Safe, machine, op
<1>4. Safe(e) \subseteq Good /\ Safe(e) \subseteq Safe(FALSE)
  BY DEF Safe
<1>5. QED
  BY <1>1, <1>2, <1>3, <1>4

\* A guarded call, whatever follows it.
LEMMA GuardedTame ==
  ASSUME NEW e, NEW c \in MachineCalls, NEW g \in Seq(Good)
  PROVE  Tame(guarded(c) \o g, e) /\ Tame(guarded(c), e)
<1>1. guarded(c) \in Frames(Good)
  BY Guarding, FramesGrow DEF Plain
<1>2. guarded(c)[1] = op("guard") /\ Fails(op("guard"))
  BY DEF guarded, Fails, op
<1>3. guarded(c) \o g \in Frames(Good) /\ (guarded(c) \o g)[1] = guarded(c)[1]
  BY <1>1, FirstOf, Joined DEF Frames
<1>4. QED
  BY <1>1, <1>2, <1>3 DEF Tame

\* Switching the relay off.
LEMMA SwitchOff ==
  ASSUME NEW e
  PROVE  /\ setRelayState(FALSE) \in Frames(Safe(e))
         /\ setRelayState(FALSE) \in Seq(Good) /\ setRelayState(TRUE) \in Seq(Good)
<1>1. setRelayState(FALSE) \in Frames(Safe(e))
  BY SafeOps, Pairs DEF setRelayState
<1>2. setRelayState(FALSE) \in Frames(Good) /\ setRelayState(TRUE) \in Frames(Good)
  BY SmallFrames, FramesGrow DEF Plain
<1>3. QED
  BY <1>1, <1>2 DEF Frames

(***************************************************************************)
(* No handler but enable brings a disabled box back.                       *)
(***************************************************************************)
LEMMA HandlersTame ==
  ASSUME NEW e, NEW h \in Handlers \ {"enable"}
  PROVE  Tame(frame(h), e)
<1>1. CASE h \in {"start", "stop"}
  <2>1. frame(h) = guarded(h) \o setRelayState(TRUE) \/ frame(h) = guarded(h) \o setRelayState(FALSE)
    BY <1>1 DEF frame
  <2>2. h \in MachineCalls
    BY <1>1 DEF MachineCalls
  <2>3. QED
    BY <2>1, <2>2, SwitchOff, GuardedTame
<1>2. CASE h \in {"pause", "resume"}
  <2>1. frame(h) = guarded(h) /\ h \in MachineCalls
    BY <1>2 DEF frame, MachineCalls
  <2>2. <<>> \in Seq(Good)
    OBVIOUS
  <2>3. QED
    BY <2>1, <2>2, GuardedTame
<1>3. CASE h = "disable"
  <2>1. << op("stopIfCharging"), switch("able", FALSE) >> \in Frames(Safe(e))
    BY SafeOps, Pairs
  <2>2. << op("leds") >> \in Frames(Safe(e)) /\ setRelayState(FALSE) \in Frames(Safe(e))
    BY SafeOps, Singles, SwitchOff
  <2>3. << op("stopIfCharging"), switch("able", FALSE) >> \o setRelayState(FALSE) \in Frames(Safe(e))
    BY <2>1, <2>2, Joined DEF Frames
  <2>4. frame(h) \in Frames(Safe(e))
    BY <1>3, <2>2, <2>3, Joined DEF Frames, frame
  <2>5. QED
    BY <2>4 DEF Tame
<1>4. QED
  BY <1>1, <1>2, <1>3 DEF Handlers

\* What the moves of a thread make of a harmless stack.
LEMMA HarmlessMoves ==
  ASSUME NEW e, NEW t, stack[t] \in Stacks(Safe(e)), stack[t] # <<>>
  PROVE  /\ Top(t) \in Safe(e) /\ Harmless(Past(t), e) /\ Harmless(Failed(t), e)
         /\ \A ops \in Frames(Safe(e)) : Harmless(Instead(t, ops), e)
         /\ \A f : Tame(f, e) => Harmless(Into(t, f), e)
<1>1. /\ Top(t) \in Safe(e) /\ Past(t) \in Stacks(Safe(e)) /\ Failed(t) \in Stacks(Safe(e))
      /\ \A ops \in Frames(Safe(e)) :
           Instead(t, ops) \in Stacks(Safe(e)) /\ Into(t, ops) \in Stacks(Safe(e))
  BY StackStays
<1>2. ASSUME NEW f \in Frames(Good), Fails(f[1])
      PROVE  Harmless(Into(t, f), e)
  <2>1. Past(t) \in Stacks(Good)
    BY <1>1, SafeOps, FramesGrow
  <2>2. Into(t, f) # <<>> /\ Into(t, f)[1] = f /\ Tail(Into(t, f)) = Past(t)
    BY <2>1, Topped DEF Into
  <2>3. QED
    BY <1>1, <1>2, <2>2 DEF Harmless
<1>3. QED
  BY <1>1, <1>2 DEF Harmless, Tame

(***************************************************************************)
(* A thread of a disabled box whose next operation fails.                  *)
(***************************************************************************)
LEMMA FailingStep ==
  ASSUME DeadInv, NEW e, NEW t \in Thread, Step(t),
         stack[t] # <<>>, Fails(stack[t][1][1]), Tail(stack[t]) \in Stacks(Safe(e))
  PROVE  /\ UNCHANGED <<members, last, message>>
         /\ \E st : stack' = [stack EXCEPT ![t] = st] /\ Harmless(st, e)
<1>1. Top(t).at = "guard" \/ (Top(t).at = "ifRelay" /\ Top(t).on = TRUE)
  BY DEF Fails, Top
<1>2. Guard(t) \/ IfRelay(t)
  BY <1>1 DEF Step, Is, StopIfCharging, Able, Line, Flag, Leds, Lit, Enter, Test, CheckSame,
    CheckValid, Write, Notified, EnableEdge, StateEdge, ContactorEdge, Save
<1>3. Moves(t, Failed(t)) /\ UNCHANGED <<members, last, message>>
  BY <1>1, <1>2 DEF DeadInv, Guard, IfRelay, Is
<1>4. QED
  BY <1>3 DEF Moves, Failed, Harmless

(***************************************************************************)
(* The operations of a stop: none of them leads to CHARGING.               *)
(***************************************************************************)
LEMMA StopStep ==
  ASSUME DeadInv, NEW e, NEW t \in Thread, stack[t] \in Stacks(Safe(e)),
         Enter(t) \/ Test(t) \/ CheckSame(t) \/ CheckValid(t) \/ Write(t) \/ Notified(t)
  PROVE  /\ UNCHANGED <<enabled, flag, line, last, message>> /\ state' # "CHARGING"
         /\ \E st : stack' = [stack EXCEPT ![t] = st] /\ Harmless(st, e)
<1> DEFINE o == Top(t)
<1>1. stack[t] # <<>> /\ o.at \in WorkLabels \cup {"enter"}
  BY DEF Enter, Test, CheckSame, CheckValid, Write, Notified, Is, WorkLabels
<1>2. /\ o \in Safe(e) /\ Harmless(Past(t), e) /\ Harmless(Failed(t), e)
      /\ \A ops \in Frames(Safe(e)) : Harmless(Instead(t, ops), e)
  BY <1>1, HarmlessMoves
<1>3. o.call = "stop" /\ o \in Good
  BY <1>1, <1>2 DEF Safe, WorkLabels
<1>4. \A p \in Called : p.call = "stop" => << p >> \in Frames(Safe(e))
  <2>1. \A p \in Called : p.call = "stop" => p \in Safe(e)
    BY DEF Called, Safe
  <2>2. QED
    BY <2>1, Singles
<1>5. o.at # "enter" => o \in Called
  BY <1>1, <1>3 DEF Called
<1>6. o.at \notin {"enter", "test"} => o.focus # "CHARGING"
  <2>1. o.at \notin {"enter", "test"} => o.focus \in Targets["stop"]
    BY <1>3, <1>5, CalledFields
  <2>2. QED
    BY <2>1 DEF Targets
<1>7. \A p \in Called : p.call = "stop" /\ Moves(t, Instead(t, << p >>))
        => \E st : Moves(t, st) /\ Harmless(st, e)
  BY <1>2, <1>4
<1>8. CASE Enter(t)
  <2>1. machine("test", "stop", FirstTest["stop"]) \in Called
    BY FirstOp DEF MachineCalls
  <2>2. machine("test", "stop", FirstTest["stop"]).call = "stop"
    BY DEF machine, op
  <2>3. Moves(t, Instead(t, << machine("test", "stop", FirstTest["stop"]) >>))
    BY <1>3, <1>8 DEF Enter
  <2>4. \E st : Moves(t, st) /\ Harmless(st, e)
    BY <1>7, <2>1, <2>2, <2>3
  <2>5. QED
    BY <1>8, <2>4 DEF Enter, Moves, members, DeadInv
<1>9. Moves(t, Advance(t)) /\ o.at \notin {"enter", "test"}
        => \E st : Moves(t, st) /\ Harmless(st, e)
  <2> SUFFICES ASSUME Moves(t, Advance(t)), o.at \notin {"enter", "test"}
               PROVE  \E st : Moves(t, st) /\ Harmless(st, e)
    OBVIOUS
  <2> DEFINE p == machine("same", o.call, Path[o.call][o.focus])
  <2>1. CASE o.focus \in DOMAIN Path[o.call]
    <3>1. Moves(t, Instead(t, << p >>))
      BY <2>1 DEF Advance
    <3>2. p \in Called /\ p.call = "stop"
      BY <1>3, <1>5, <2>1, NextOps DEF machine, op
    <3> HIDE DEF p
    <3>3. QED
      BY <1>7, <3>1, <3>2
  <2>2. CASE o.focus \notin DOMAIN Path[o.call]
    BY <1>2, <2>2 DEF Advance
  <2>3. QED
    BY <2>1, <2>2
<1>10. CASE Test(t)
  <2> DEFINE p == machine("same", o.call, FirstTarget[o.call][o.focus])
             q == machine("test", o.call, TestAfter[o.call][o.focus])
  <2>1. o.at = "test"
    BY <1>10 DEF Test, Is
  <2>2. p \in Called /\ p.call = "stop" /\ q.call = "stop"
        /\ (o.focus \in DOMAIN TestAfter[o.call] => q \in Called)
    BY <1>3, <1>5, <2>1, NextOps DEF machine, op
  <2>3. \/ Moves(t, Instead(t, << p >>)) \/ Moves(t, Failed(t))
        \/ o.focus \in DOMAIN TestAfter[o.call] /\ Moves(t, Instead(t, << q >>))
    BY <1>10 DEF Test
  <2> HIDE DEF p, q
  <2>4. \E st : Moves(t, st) /\ Harmless(st, e)
    BY <1>2, <1>7, <2>2, <2>3
  <2>5. QED
    BY <1>10, <2>4 DEF Test, Moves, members, DeadInv
<1>11. CASE CheckSame(t) \/ CheckValid(t)
  <2>1. o.at \in {"same", "valid"}
    BY <1>11 DEF CheckSame, CheckValid, Is
  <2>2. \A l \in {"valid", "write"} : [o EXCEPT !.at = l] \in Called
    BY <1>5, <2>1, NextOps
  <2>3. \A l \in {"valid", "write"} : [o EXCEPT !.at = l].call = "stop"
    BY <1>3 DEF Good, Op
  <2>4. \/ Moves(t, Advance(t)) \/ Moves(t, Failed(t))
        \/ Moves(t, Instead(t, << [o EXCEPT !.at = "valid"] >>))
        \/ Moves(t, Instead(t, << [o EXCEPT !.at = "write"] >>))
    BY <1>11 DEF CheckSame, CheckValid
  <2>5. \E st : Moves(t, st) /\ Harmless(st, e)
    BY <1>2, <1>7, <1>9, <2>1, <2>2, <2>3, <2>4
  <2>6. QED
    BY <1>11, <2>5 DEF CheckSame, CheckValid, Moves, members, DeadInv
<1>12. CASE Write(t)
  <2>1. o.at = "write"
    BY <1>12 DEF Write, Is
  <2> DEFINE p == [o EXCEPT !.at = "notify"]
  <2>2. p \in Called
    BY <1>5, <2>1, NextOps
  <2>3. p.call = "stop"
    BY <1>3 DEF Good, Op
  <2>4. Moves(t, Instead(t, << op("leds"), p >>)) /\ state' = o.focus
        /\ UNCHANGED <<enabled, flag, line, last, message>>
    BY <1>12 DEF Write
  <2> HIDE DEF p
  <2>5. p \in Safe(e) /\ op("leds") \in Safe(e)
    BY <2>2, <2>3, SafeOps DEF Safe, Called
  <2>6. << op("leds"), p >> \in Frames(Safe(e))
    BY <2>5, Pairs
  <2>7. QED
    BY <1>2, <1>6, <2>1, <2>4, <2>6 DEF Moves
<1>13. CASE Notified(t)
  <2>1. o.at = "notify"
    BY <1>13 DEF Notified, Is
  <2>2. QED
    BY <1>9, <1>13, <2>1 DEF Notified, Moves, members, DeadInv
<1>14. QED
  BY <1>8, <1>10, <1>11, <1>12, <1>13

(***************************************************************************)
(* The harmless operations of the controller itself.                       *)
(***************************************************************************)
LEMMA SafeStep ==
  ASSUME DeadInv, message.contactor \in BOOLEAN, NEW t \in Thread,
         stack[t] \in Stacks(Safe(message.enable)), Step(t)
  PROVE  /\ enabled' = FALSE /\ flag' = FALSE /\ line' = FALSE /\ state' # "CHARGING"
         /\ message' = message
         /\ \E st : stack' = [stack EXCEPT ![t] = st] /\ Harmless(st, message.enable)
<1> DEFINE e == message.enable
<1> USE DEF DeadInv
<1>1. stack[t] # <<>>
  BY DEF Step, Is, Guard, StopIfCharging, Able, Line, Flag, Leds, Lit, Enter, Test, CheckSame,
    CheckValid, Write, Notified, EnableEdge, StateEdge, ContactorEdge, IfRelay, Save
<1>2. /\ Top(t) \in Safe(e) /\ Harmless(Past(t), e) /\ Harmless(Failed(t), e)
      /\ \A ops \in Frames(Safe(e)) : Harmless(Instead(t, ops), e)
      /\ \A f : Tame(f, e) => Harmless(Into(t, f), e)
  BY <1>1, HarmlessMoves
<1> HIDE DEF e
<1>3. Top(t).at \notin {"lit", "guard", "ifRelay"}
  BY <1>2 DEF Safe, WorkLabels
<1>4. CASE Able(t) \/ Line(t) \/ Flag(t)
  <2>1. Top(t).on = FALSE
    BY <1>2, <1>4 DEF Safe, Able, Line, Flag, Is, WorkLabels
  <2>2. QED
    BY <1>2, <1>4, <2>1 DEF Able, Line, Flag, Moves, e
<1>5. CASE StopIfCharging(t) \/ Save(t)
  BY <1>2, <1>5 DEF StopIfCharging, Save, Moves, members, e
<1>6. CASE Leds(t)
  <2>1. setRelayState(FALSE) \in Frames(Safe(e))
    BY SwitchOff
  <2>2. Moves(t, Instead(t, setRelayState(FALSE))) /\ UNCHANGED <<members, last, message>>
    BY <1>6 DEF Leds
  <2>3. QED
    BY <1>2, <2>1, <2>2 DEF Moves, members, e
<1>7. CASE EnableEdge(t)
  <2>1. message.enable = FALSE
    BY <1>2, <1>7 DEF Safe, EnableEdge, Is, WorkLabels, e
  <2>2. Moves(t, Past(t)) /\ UNCHANGED <<members, last, message>>
    BY <1>7, <2>1 DEF EnableEdge
  <2>3. QED
    BY <1>2, <2>2 DEF Moves, members, e
<1>8. CASE StateEdge(t)
  <2> DEFINE up == << machine("enter", "stop", "none") >>
             go == << switch("ifRelay", TRUE) >> \o guarded("start")
  <2>1. Tame(up, e)
    BY SafeOps, Singles DEF Tame
  <2>2. Tame(go, e)
    <3>1. << switch("ifRelay", TRUE) >> \in Frames(Good) /\ guarded("start") \in Frames(Good)
      <4>1. guarded("start") \in Frames(Plain) /\ << switch("ifRelay", TRUE) >> \in Frames(Plain)
        BY Guarding, SmallFrames DEF MachineCalls, Label, WorkLabels
      <4>2. QED
        BY <4>1, FramesGrow DEF Plain
    <3>2. go \in Frames(Good) /\ go[1] = switch("ifRelay", TRUE)
      BY <3>1, FirstOf, Joined DEF Frames
    <3>3. Fails(switch("ifRelay", TRUE))
      BY DEF Fails, switch, op
    <3>4. QED
      BY <3>2, <3>3 DEF Tame
  <2> HIDE DEF up, go
  <2>3. /\ Moves(t, Past(t)) \/ Moves(t, Into(t, up)) \/ Moves(t, Into(t, go))
        /\ UNCHANGED <<members, last, message>>
    BY <1>8 DEF StateEdge, up, go
  <2>4. QED
    BY <1>2, <2>1, <2>2, <2>3 DEF Moves, members, e
<1>9. CASE ContactorEdge(t)
  <2> DEFINE c == message.contactor
             on == (<< op("guard") >> \o << switch("ifRelay", ~c) >>) \o setRelayState(c)
             off == (<<>> \o << switch("ifRelay", ~c) >>) \o setRelayState(c)
  <2>1. /\ c => \/ Moves(t, Past(t)) \/ Moves(t, Into(t, on))
        /\ ~c => \/ Moves(t, Past(t)) \/ Moves(t, Into(t, off))
        /\ UNCHANGED <<members, last, message>>
    BY <1>9 DEF ContactorEdge
  <2>2. /\ << op("guard") >> \in Frames(Good) /\ << switch("ifRelay", ~c) >> \in Frames(Good)
        /\ setRelayState(c) \in Frames(Good)
    <3>1. c \in BOOLEAN /\ (~c) \in BOOLEAN
      OBVIOUS
    <3>2. /\ << op("guard") >> \in Frames(Plain) /\ << switch("ifRelay", ~c) >> \in Frames(Plain)
          /\ setRelayState(c) \in Frames(Plain)
      BY <3>1, SmallFrames DEF Label, WorkLabels
    <3>3. QED
      BY <3>2, FramesGrow DEF Plain
  <2>3. Tame(on, e)
    <3>1. << op("guard") >> \o << switch("ifRelay", ~c) >> \in Frames(Good)
      BY <2>2, Joined DEF Frames
    <3>2. on \in Frames(Good)
          /\ on[1] = (<< op("guard") >> \o << switch("ifRelay", ~c) >>)[1]
      BY <2>2, <3>1, FirstOf, Joined DEF Frames
    <3>3. (<< op("guard") >> \o << switch("ifRelay", ~c) >>)[1] = op("guard")
      BY <2>2, FirstOf DEF Frames
    <3>4. Fails(op("guard"))
      BY DEF Fails, op
    <3>5. QED
      BY <3>2, <3>3, <3>4 DEF Tame
  <2>4. ~c => Tame(off, e)
    <3>1. <<>> \o << switch("ifRelay", ~c) >> = << switch("ifRelay", ~c) >>
      BY <2>2, ConcatSimplifications DEF Frames
    <3>2. off \in Frames(Good) /\ off[1] = switch("ifRelay", ~c)
      BY <2>2, <3>1, FirstOf, Joined DEF Frames
    <3>3. ~c => Fails(switch("ifRelay", ~c))
      BY DEF Fails, switch, op
    <3>4. QED
      BY <3>2, <3>3 DEF Tame
  <2> HIDE DEF c, on, off
  <2>5. \E st : Moves(t, st) /\ Harmless(st, e)
    BY <1>2, <2>1, <2>3, <2>4
  <2>6. QED
    BY <2>1, <2>5 DEF Moves, members, e
<1>10. CASE Enter(t) \/ Test(t) \/ CheckSame(t) \/ CheckValid(t) \/ Write(t) \/ Notified(t)
  BY <1>10, StopStep
<1>11. CASE Guard(t) \/ Lit(t) \/ IfRelay(t)
  BY <1>3, <1>11 DEF Guard, Lit, IfRelay, Is
<1>12. QED
  BY <1>4, <1>5, <1>6, <1>7, <1>8, <1>9, <1>10, <1>11 DEF Step

\* A disabled box at rest.
LEMMA DeadInvBegins == ThreadInv /\ Rested => DeadInv
  BY DEF ThreadInv, Members, Rested, Quiet, Dead, DeadInv, Harmless, Stacks

\* Every step leaves it dead, as long as nobody enables it.
LEMMA DeadInvStep ==
  ASSUME "enable" \notin UserCalls, \A m \in Messages : m.enable = FALSE,
         ThreadInv, DeadInv, [Next]_vars
  PROVE  DeadInv'
<1>1. ASSUME NEW t \in Thread, NEW st, stack' = [stack EXCEPT ![t] = st],
             Harmless(st, message'.enable),
             message' = message \/ message'.enable = FALSE
      PROVE  \A u \in Thread : Harmless(stack'[u], message'.enable)
  <2>1. \A u \in Thread : Harmless(stack[u], message.enable)
    BY DEF DeadInv
  <2>2. \A e, s : Harmless(s, e) => Harmless(s, FALSE)
    BY SafeOps, FramesGrow DEF Harmless
  <2>3. \A u \in Thread : Harmless(stack[u], message'.enable)
    BY <1>1, <2>1, <2>2
  <2>4. stack \in [Thread -> Stacks(Good)]
    BY DEF ThreadInv
  <2>5. QED
    BY <1>1, <2>3, <2>4
<1>2. ASSUME NEW t \in Thread, NEW f, NEW e, Begins(t, f), Tame(f, e)
      PROVE  /\ stack' = [stack EXCEPT ![t] = << f >>] /\ Harmless(<< f >>, e)
  <2>1. << f >>[1] = f /\ Tail(<< f >>) = <<>> /\ << f >> # <<>>
    OBVIOUS
  <2>2. << f >> \in Stacks(Safe(e)) \/ Fails(f[1])
    BY <1>2 DEF Tame, Stacks
  <2>3. QED
    BY <1>2, <2>1, <2>2 DEF Begins, Moves, Harmless, Stacks
<1>3. CASE Beginning
  <2>1. ASSUME NEW t \in User, NEW h \in UserCalls, Call(t, h)
        PROVE  DeadInv'
    <3>1. Tame(frame(h), message.enable) /\ t \in Thread
      BY HandlersTame, JobsAssumption DEF Thread
    <3>2. Begins(t, frame(h)) /\ UNCHANGED <<members, last, message>>
      BY <2>1 DEF Call
    <3>3. \A u \in Thread : Harmless(stack'[u], message'.enable)
      BY <1>1, <1>2, <3>1, <3>2
    <3>4. QED
      BY <3>2, <3>3 DEF DeadInv, members
  <2>2. ASSUME NEW t \in Receiver, Receive(t)
        PROVE  DeadInv'
    <3>1. message'.enable = FALSE /\ Begins(t, processNetworkMessage) /\ UNCHANGED members
      BY <2>2 DEF Receive
    <3>2. Tame(processNetworkMessage, FALSE)
      <4>1. op("enableEdge") \in Safe(FALSE)
        BY PlainOps DEF Safe, Plain, op, Label, WorkLabels
      <4>2. /\ op("stateEdge") \in Safe(FALSE) /\ op("contactorEdge") \in Safe(FALSE)
            /\ op("save") \in Safe(FALSE)
        BY SafeOps
      <4> DEFINE S == Safe(FALSE)
      <4>3. /\ op("enableEdge") \in S /\ op("stateEdge") \in S
            /\ op("contactorEdge") \in S /\ op("save") \in S
        BY <4>1, <4>2
      <4> HIDE DEF S
      <4>4. processNetworkMessage \in Frames(S)
        BY <4>3 DEF processNetworkMessage, Frames
      <4>5. QED
        BY <4>4 DEF S, Tame
    <3>3. Harmless(<< processNetworkMessage >>, message'.enable)
          /\ stack' = [stack EXCEPT ![t] = << processNetworkMessage >>]
      BY <1>2, <3>1, <3>2 DEF Thread
    <3>4. \A u \in Thread : Harmless(stack'[u], message'.enable)
      BY <1>1, <3>1, <3>3 DEF Thread
    <3>5. QED
      BY <3>1, <3>4 DEF DeadInv, members
  <2>3. ASSUME NEW t \in Monitor, Unplug(t)
        PROVE  DeadInv'
    <3>1. Begins(t, << op("stopIfCharging") >>) /\ UNCHANGED <<members, last, message>>
      BY <2>3 DEF Unplug
    <3>2. Tame(<< op("stopIfCharging") >>, message.enable)
      BY SafeOps, Singles DEF Tame
    <3>3. \A u \in Thread : Harmless(stack'[u], message'.enable)
      BY <1>1, <1>2, <3>1, <3>2 DEF Thread
    <3>4. QED
      BY <3>1, <3>3 DEF DeadInv, members
  <2>4. QED
    BY <1>3, <2>1, <2>2, <2>3 DEF Beginning
<1>4. ASSUME NEW t \in Thread, Step(t)
      PROVE  DeadInv'
  <2>1. Harmless(stack[t], message.enable)
    BY DEF DeadInv
  <2>2. message.contactor \in BOOLEAN
    BY SaidFields DEF ThreadInv, Members
  <2>3. /\ enabled' = FALSE /\ flag' = FALSE /\ line' = FALSE /\ state' # "CHARGING"
        /\ message' = message
        /\ \E st : stack' = [stack EXCEPT ![t] = st] /\ Harmless(st, message.enable)
    <3>1. CASE stack[t] \in Stacks(Safe(message.enable))
      BY <1>4, <2>2, <3>1, SafeStep
    <3>2. CASE stack[t] \notin Stacks(Safe(message.enable))
      <4>1. /\ stack[t] # <<>> /\ Fails(stack[t][1][1])
            /\ Tail(stack[t]) \in Stacks(Safe(message.enable))
        BY <2>1, <3>2 DEF Harmless
      <4>2. UNCHANGED <<members, last, message>>
        BY <1>4, <4>1, FailingStep
      <4>3. \E st : stack' = [stack EXCEPT ![t] = st] /\ Harmless(st, message.enable)
        BY <1>4, <4>1, FailingStep
      <4>4. QED
        BY <4>2, <4>3 DEF DeadInv, members
    <3>3. QED
      BY <3>1, <3>2
  <2>4. \A u \in Thread : Harmless(stack'[u], message'.enable)
    BY <1>1, <2>3
  <2>5. QED
    BY <2>3, <2>4 DEF DeadInv
<1>5. CASE UNCHANGED vars
  BY <1>5 DEF DeadInv, vars
<1>6. QED
  BY <1>3, <1>4, <1>5 DEF Next, Beginning

(***************************************************************************)
(* However it came to be disabled, dead and at rest, such a box stays      *)
(* without power and without a session whatever its threads do, as long as *)
(* nobody enables it.                                                      *)
(***************************************************************************)
THEOREM DisabledBoxStaysDead ==
  ASSUME "enable" \notin UserCalls, \A m \in Messages : m.enable = FALSE
  PROVE  Spec => DeadStaysDead
<1>1. ThreadInv /\ DeadInv /\ [Next]_vars => DeadInv'
  BY DeadInvStep
<1>2. DeadInv => Dead
  BY DEF DeadInv, Dead
<1>3. Spec => []ThreadInv
  BY ThreadInvInit, ThreadInvStep, PTL DEF Spec
<1>4. QED
  BY <1>1, <1>2, <1>3, DeadInvBegins, PTL DEF Spec, DeadStaysDead

-----------------------------------------------------------------------------
(***************************************************************************)
(* Handlers that do not overlap.  A frame in which every write to the line *)
(* is followed by that to the flag which goes with it.                     *)
(***************************************************************************)
Linked(f) ==
  /\ \A i \in 1..Len(f) : f[i].at = "line" =>
       i + 1 \in 1..Len(f) /\ f[i + 1].at = "flag" /\ f[i + 1].on = f[i].on
  /\ \A i \in 1..Len(f) : i # 1 /\ f[i].at = "flag" => f[i - 1].at = "line"

\* The line is written and the flag is not yet.
Open(f) == f # <<>> /\ f[1].at = "flag"

\* How flag and line stand to each other before the frame f.
Agree(f, fl, li) == IF Open(f) THEN li = f[1].on ELSE fl = li

\* Frames of linked frames are linked.
LEMMA LinkedJoin ==
  ASSUME NEW S, NEW f \in Seq(S), NEW g \in Seq(S), Linked(f), Linked(g), f = <<>> \/ ~Open(g)
  PROVE  Linked(f \o g)
<1>1. Len(f) \in Nat /\ Len(g) \in Nat
  BY LenProperties
<1> DEFINE h == f \o g
<1>2. /\ h \in Seq(S) /\ Len(h) = Len(f) + Len(g)
      /\ \A i \in 1..Len(f) + Len(g) : h[i] = IF i <= Len(f) THEN f[i] ELSE g[i - Len(f)]
  BY ConcatProperties
<1> HIDE DEF h
<1>3. \A i \in 1..Len(f) : h[i] = f[i]
  BY <1>1, <1>2
<1>4. \A i \in 1..Len(h) : i > Len(f) => i - Len(f) \in 1..Len(g) /\ h[i] = g[i - Len(f)]
  BY <1>1, <1>2
<1>5. ASSUME NEW i \in 1..Len(h), h[i].at = "line"
      PROVE  i + 1 \in 1..Len(h) /\ h[i + 1].at = "flag" /\ h[i + 1].on = h[i].on
  <2>1. CASE i \in 1..Len(f)
    <3>1. i + 1 \in 1..Len(f) /\ f[i + 1].at = "flag" /\ f[i + 1].on = f[i].on
      BY <1>3, <1>5, <2>1 DEF Linked
    <3>2. QED
      BY <1>1, <1>2, <1>3, <2>1, <3>1
  <2>2. CASE i > Len(f)
    <3> DEFINE j == i - Len(f)
    <3>1. j \in 1..Len(g) /\ h[i] = g[j]
      BY <1>4, <2>2
    <3>2. j + 1 \in 1..Len(g) /\ g[j + 1].at = "flag" /\ g[j + 1].on = g[j].on
      BY <1>5, <3>1 DEF Linked
    <3>3. i + 1 \in 1..Len(h) /\ i + 1 > Len(f) /\ (i + 1) - Len(f) = j + 1
      BY <1>1, <1>2, <2>2, <3>2
    <3>4. h[i + 1] = g[j + 1]
      BY <1>4, <3>3
    <3>5. QED
      BY <3>1, <3>2, <3>3, <3>4
  <2>3. QED
    BY <1>1, <1>2, <2>1, <2>2
<1>6. ASSUME NEW i \in 1..Len(h), i # 1, h[i].at = "flag"
      PROVE  h[i - 1].at = "line"
  <2>1. CASE i \in 1..Len(f)
    <3>1. f[i - 1].at = "line" /\ i - 1 \in 1..Len(f)
      BY <1>1, <1>3, <1>6, <2>1 DEF Linked
    <3>2. QED
      BY <1>3, <3>1
  <2>2. CASE i > Len(f)
    <3> DEFINE j == i - Len(f)
    <3>1. j \in 1..Len(g) /\ h[i] = g[j]
      BY <1>4, <2>2
    <3>2. CASE j = 1
      <4>1. Open(g)
        <5>1. g # <<>>
          BY <1>1, <3>1, EmptySeq
        <5>2. QED
          BY <1>6, <3>1, <3>2, <5>1 DEF Open
      <4>2. i = 1
        <5>1. Len(f) = 0
          BY <4>1, EmptySeq
        <5>2. QED
          BY <3>2, <5>1
      <4>3. QED
        BY <1>6, <4>2
    <3>3. CASE j # 1
      <4>1. g[j - 1].at = "line"
        BY <1>6, <3>1, <3>3 DEF Linked
      <4>2. i - 1 \in 1..Len(h) /\ i - 1 > Len(f) /\ (i - 1) - Len(f) = j - 1
        BY <1>1, <1>2, <2>2, <3>1, <3>3
      <4>3. h[i - 1] = g[j - 1]
        BY <1>4, <4>2
      <4>4. QED
        BY <4>1, <4>3
    <3>4. QED
      BY <3>2, <3>3
  <2>3. QED
    BY <1>1, <1>2, <2>1, <2>2
<1>7. QED
  BY <1>5, <1>6 DEF Linked, h

\* What is left of a linked frame.
LEMMA LinkedTail ==
  ASSUME NEW S, NEW f \in Frames(S), Linked(f)
  PROVE  /\ Tail(f) \in Seq(S) /\ Linked(Tail(f))
         /\ f[1].at = "line" => /\ Tail(f) # <<>> /\ Open(Tail(f))
                                /\ Tail(f)[1].on = f[1].on
         /\ f[1].at # "line" => ~Open(Tail(f))
<1>1. f \in Seq(S) /\ f # <<>> /\ Len(f) \in Nat \ {0}
  BY EmptySeq DEF Frames
<1> DEFINE r == Tail(f)
<1>2. /\ r \in Seq(S) /\ Len(r) = Len(f) - 1
      /\ \A i \in 1..Len(r) : r[i] = f[i + 1] /\ i + 1 \in 1..Len(f)
  BY <1>1, HeadTailProperties
<1> HIDE DEF r
<1>3. r # <<>> <=> Len(f) # 1
  BY <1>1, <1>2, EmptySeq
<1>4. Linked(r)
  <2>1. ASSUME NEW i \in 1..Len(r), r[i].at = "line"
        PROVE  i + 1 \in 1..Len(r) /\ r[i + 1].at = "flag" /\ r[i + 1].on = r[i].on
    <3>1. (i + 1) + 1 \in 1..Len(f) /\ f[(i + 1) + 1].at = "flag" /\ f[(i + 1) + 1].on = f[i + 1].on
      BY <1>2, <2>1 DEF Linked
    <3>2. i + 1 \in 1..Len(r)
      BY <1>1, <1>2, <3>1
    <3>3. QED
      BY <1>2, <3>1, <3>2
  <2>2. ASSUME NEW i \in 1..Len(r), i # 1, r[i].at = "flag"
        PROVE  r[i - 1].at = "line"
    <3>1. i + 1 # 1 /\ (i + 1) - 1 = i /\ i - 1 \in 1..Len(r) /\ (i - 1) + 1 = i
      BY <1>1, <1>2, <2>2
    <3>2. f[i].at = "line"
      BY <1>2, <2>2, <3>1 DEF Linked
    <3>3. QED
      BY <1>2, <3>1, <3>2
  <2>3. QED
    BY <2>1, <2>2 DEF Linked
<1>5. ASSUME f[1].at = "line"
      PROVE  r # <<>> /\ Open(r) /\ r[1].on = f[1].on
  <2>1. 1 \in 1..Len(f) /\ 1 + 1 = 2
    BY <1>1
  <2>2. 2 \in 1..Len(f) /\ f[2].at = "flag" /\ f[2].on = f[1].on
    BY <1>5, <2>1 DEF Linked
  <2>3. 1 \in 1..Len(r) /\ r # <<>>
    BY <1>1, <1>2, <1>3, <2>2
  <2>4. QED
    BY <1>2, <2>1, <2>2, <2>3 DEF Open
<1>6. ASSUME f[1].at # "line", Open(r)
      PROVE  FALSE
  <2>1. 1 \in 1..Len(r)
    BY <1>1, <1>2, <1>3, <1>6 DEF Open
  <2>2. 2 \in 1..Len(f) /\ f[2].at = "flag" /\ 2 - 1 = 1 /\ 1 + 1 = 2
    BY <1>2, <1>6, <2>1 DEF Open
  <2>3. f[1].at = "line"
    BY <2>2 DEF Linked
  <2>4. QED
    BY <1>6, <2>3
<1>7. QED
  BY <1>2, <1>4, <1>5, <1>6 DEF r

\* A frame of one operation, and one of two that are no write to the line.
LEMMA ShortLinked ==
  /\ Linked(<<>>)
  /\ \A p : p.at # "line" => Linked(<< p >>)
  /\ \A p, q : p.at # "line" /\ q.at \notin {"line", "flag"} => Linked(<< p, q >>)
<1>1. Linked(<<>>)
  BY DEF Linked
<1>2. ASSUME NEW p, p.at # "line"
      PROVE  Linked(<< p >>)
  BY <1>2 DEF Linked
<1>3. ASSUME NEW p, NEW q, p.at # "line", q.at \notin {"line", "flag"}
      PROVE  Linked(<< p, q >>)
  <2> DEFINE f == << p, q >>
  <2>1. Len(f) = 2 /\ f[1] = p /\ f[2] = q
    OBVIOUS
  <2> HIDE DEF f
  <2>2. 1..Len(f) = {1, 2}
    BY <2>1
  <2>3. QED
    BY <1>3, <2>1, <2>2 DEF Linked, f
<1>4. QED
  BY <1>1, <1>2, <1>3

\* So is setRelayState, which writes the line first.
LEMMA RelayLinked ==
  ASSUME NEW on \in BOOLEAN
  PROVE  Linked(setRelayState(on)) /\ setRelayState(on) \in Frames(Good) /\ ~Open(setRelayState(on))
<1> DEFINE f == setRelayState(on)
<1>1. Len(f) = 2 /\ f[1] = switch("line", on) /\ f[2] = switch("flag", on) /\ f # <<>>
  BY DEF setRelayState
<1>2. /\ f[1].at = "line" /\ f[1].on = on /\ f[2].at = "flag" /\ f[2].on = on
  BY <1>1 DEF switch, op
<1>3. f \in Frames(Refreshing) /\ Refreshing \subseteq Good
  BY RefreshFrames DEF Refreshing
<1>4. f \in Frames(Good)
  BY <1>3, FramesGrow
<1> HIDE DEF f
<1>5. 1..Len(f) = {1, 2}
  BY <1>1
<1>6. Linked(f) /\ ~Open(f)
  BY <1>1, <1>2, <1>5 DEF Linked, Open
<1>7. QED
  BY <1>4, <1>6 DEF f

\* A frame that the line and the flag agree before, and stacks of such frames.
Even == {f \in Frames(Good) : Linked(f) /\ ~Open(f)}

Paired(st, fl, li) ==
  IF st = <<>> THEN fl = li
  ELSE Linked(st[1]) /\ Tail(st) \in Seq(Even) /\ Agree(st[1], fl, li)

\* A stack of them goes with a flag that tells the line.
LEMMA EvenStack ==
  ASSUME NEW st \in Seq(Even), NEW fl
  PROVE  Paired(st, fl, fl)
<1>1. CASE st = <<>>
  BY <1>1 DEF Paired
<1>2. CASE st # <<>>
  <2>1. st[1] \in Even /\ Tail(st) \in Seq(Even)
    BY <1>2, EmptySeq, ElementOfSeq, HeadTailProperties
  <2>2. QED
    BY <1>2, <2>1 DEF Paired, Agree, Even
<1>3. QED
  BY <1>1, <1>2

\* Such frames go before what begins with no flag, and onto each other.
LEMMA EvenJoin ==
  ASSUME NEW f \in Even, NEW g \in Seq(Good), Linked(g), ~Open(g)
  PROVE  f \o g \in Even
<1>1. f \in Frames(Good) /\ f \in Seq(Good) /\ f # <<>> /\ Linked(f) /\ ~Open(f)
  BY DEF Even, Frames
<1> DEFINE h == f \o g
<1>2. h \in Frames(Good) /\ Linked(h) /\ h[1] = f[1]
  BY <1>1, Joined, LinkedJoin, FirstOf
<1> HIDE DEF h
<1>3. ~Open(h)
  BY <1>1, <1>2 DEF Open
<1>4. QED
  BY <1>2, <1>3 DEF Even, h

\* A frame on top of a stack of them.
LEMMA EvenPushed ==
  ASSUME NEW f \in Even, NEW st \in Seq(Even)
  PROVE  << f >> \o st \in Seq(Even) /\ << f >> \in Seq(Even)
<1>1. << f >> \in Seq(Even)
  OBVIOUS
<1>2. QED
  BY <1>1, ConcatProperties

(***************************************************************************)
(* Whatever a thread does next but write the line, its stack goes with a   *)
(* flag that tells the line.                                               *)
(***************************************************************************)
LEMMA EvenMoves ==
  ASSUME NEW t, stack[t] \in Stacks(Good), stack[t] # <<>>,
         Paired(stack[t], flag, line), Top(t).at # "line"
  PROVE  /\ Past(t) \in Seq(Even) /\ Failed(t) \in Seq(Even)
         /\ \A ops \in Even : Instead(t, ops) \in Seq(Even) /\ Into(t, ops) \in Seq(Even)
         /\ Top(t).at # "flag" => flag = line
         /\ Top(t).at = "flag" => line = Top(t).on
<1> DEFINE f == stack[t][1]
           r == Tail(f)
           below == Tail(stack[t])
<1>1. f \in Frames(Good) /\ Linked(f) /\ below \in Seq(Even) /\ Agree(f, flag, line)
  BY OnTop DEF Paired
<1>2. r \in Seq(Good) /\ Linked(r) /\ ~Open(r)
  BY <1>1, LinkedTail DEF Top
<1>3. Len(f) # 1 => r # <<>>
  BY OnTop
<1>4. Past(t) \in Seq(Even)
  <2>1. CASE Len(f) = 1
    BY <1>1, <2>1 DEF Past
  <2>2. CASE Len(f) # 1
    <3>1. r \in Even
      BY <1>2, <1>3, <2>2 DEF Even, Frames
    <3>2. << r >> \o below \in Seq(Even)
      BY <1>1, <3>1, EvenPushed
    <3>3. QED
      BY <2>2, <3>2 DEF Past
  <2>3. QED
    BY <2>1, <2>2
<1>5. ASSUME NEW ops \in Even
      PROVE  Instead(t, ops) \in Seq(Even) /\ Into(t, ops) \in Seq(Even)
  <2>1. ops \o r \in Even
    BY <1>2, EvenJoin
  <2>2. << ops \o r >> \o below \in Seq(Even)
    BY <1>1, <2>1, EvenPushed
  <2>3. << ops >> \o Past(t) \in Seq(Even)
    BY <1>4, EvenPushed
  <2>4. QED
    BY <2>2, <2>3 DEF Instead, Into
<1>6. /\ Top(t).at # "flag" => flag = line
      /\ Top(t).at = "flag" => line = Top(t).on
  <2>1. f # <<>> /\ Top(t) = f[1]
    BY <1>1 DEF Frames, Top
  <2> HIDE DEF f
  <2>2. QED
    BY <1>1, <2>1 DEF Agree, Open
<1>7. QED
  BY <1>1, <1>4, <1>5, <1>6 DEF Failed

\* A write to the line leaves its flag to be written next.
LEMMA LineMoves ==
  ASSUME NEW t, stack[t] \in Stacks(Good), stack[t] # <<>>,
         Paired(stack[t], flag, line), Top(t).at = "line"
  PROVE  Paired(Past(t), flag, Top(t).on)
<1> DEFINE f == stack[t][1]
           r == Tail(f)
           below == Tail(stack[t])
<1>1. f \in Frames(Good) /\ Linked(f) /\ below \in Seq(Even)
  BY OnTop DEF Paired
<1>2. /\ r \in Frames(Good) /\ Linked(r) /\ Open(r) /\ r[1].on = Top(t).on
  BY <1>1, LinkedTail DEF Top, Frames
<1>3. Len(f) # 1
  <2>1. f \in Seq(Good) /\ f # <<>>
    BY <1>1 DEF Frames
  <2>2. Len(r) = Len(f) - 1 /\ Len(f) \in Nat
    BY <2>1, HeadTailProperties, LenProperties
  <2> HIDE DEF r
  <2>3. Len(r) # 0
    BY <1>2, EmptySeq DEF Frames
  <2>4. QED
    BY <2>2, <2>3
<1>4. Past(t) = << r >> \o below
  BY <1>3 DEF Past
<1>5. below \in Stacks(Good)
  BY OnTop
<1> HIDE DEF r, below
<1>6. Past(t) # <<>> /\ Past(t)[1] = r /\ Tail(Past(t)) = below
  BY <1>2, <1>4, <1>5, Topped
<1>7. QED
  BY <1>1, <1>2, <1>6 DEF Paired, Agree

-----------------------------------------------------------------------------
\* A frame of one operation that writes neither.
LEMMA EvenSingle ==
  ASSUME NEW o \in Good, o.at \notin {"line", "flag"}
  PROVE  << o >> \in Even
<1>1. << o >> \in Frames(Good) /\ Linked(<< o >>)
  BY Singles, ShortLinked
<1>2. ~Open(<< o >>)
  BY DEF Open
<1>3. QED
  BY <1>1, <1>2 DEF Even

\* Two of them.
LEMMA EvenPair ==
  ASSUME NEW o \in Good, NEW p \in Good, o.at \notin {"line", "flag"}, p.at \notin {"line", "flag"}
  PROVE  << o, p >> \in Even
<1>1. << o, p >> \in Frames(Good) /\ Linked(<< o, p >>)
  BY Pairs, ShortLinked
<1>2. ~Open(<< o, p >>)
  BY DEF Open
<1>3. QED
  BY <1>1, <1>2 DEF Even

(***************************************************************************)
(* What handlers are put together from writes the line and the flag in     *)
(* pairs.                                                                  *)
(***************************************************************************)
LEMMA EvenParts ==
  /\ \A on \in BOOLEAN : setRelayState(on) \in Even
  /\ \A at \in Label \ (WorkLabels \cup {"enter", "line", "flag"}) :
       << op(at) >> \in Even /\ \A on \in BOOLEAN : << switch(at, on) >> \in Even
  /\ \A c \in MachineCalls : guarded(c) \in Even /\ << machine("enter", c, "none") >> \in Even
  /\ \A f \in Even, g \in Even : f \o g \in Even
<1>1. ASSUME NEW on \in BOOLEAN
      PROVE  setRelayState(on) \in Even
  BY RelayLinked DEF Even
<1>2. ASSUME NEW at \in Label \ (WorkLabels \cup {"enter", "line", "flag"})
      PROVE  << op(at) >> \in Even /\ \A on \in BOOLEAN : << switch(at, on) >> \in Even
  <2>1. op(at) \in Good /\ op(at).at \notin {"line", "flag"}
    BY PlainOps DEF Plain, op
  <2>2. \A on \in BOOLEAN : switch(at, on) \in Good /\ switch(at, on).at \notin {"line", "flag"}
    BY PlainOps DEF Plain, switch, op
  <2>3. QED
    BY <2>1, <2>2, EvenSingle
<1>3. ASSUME NEW c \in MachineCalls
      PROVE  guarded(c) \in Even /\ << machine("enter", c, "none") >> \in Even
  <2>1. op("guard") \in Good /\ machine("enter", c, "none") \in Good
    BY PlainOps DEF Plain, Label, WorkLabels
  <2>2. op("guard").at = "guard" /\ machine("enter", c, "none").at = "enter"
    BY DEF machine, op
  <2>3. QED
    BY <2>1, <2>2, EvenSingle, EvenPair DEF guarded
<1>4. ASSUME NEW f \in Even, NEW g \in Even
      PROVE  f \o g \in Even
  <2>1. g \in Seq(Good) /\ Linked(g) /\ ~Open(g)
    BY DEF Even, Frames
  <2>2. QED
    BY <2>1, EvenJoin
<1>5. QED
  BY <1>1, <1>2, <1>3, <1>4

\* So do the handlers, ...
LEMMA EvenHandlers ==
  (\A h \in Handlers : frame(h) \in Even) /\ processNetworkMessage \in Even
<1>1. \A f \in Even, g \in Even : f \o g \in Even
  BY EvenParts
<1>2. /\ guarded("start") \in Even /\ guarded("stop") \in Even
      /\ guarded("pause") \in Even /\ guarded("resume") \in Even
  BY EvenParts DEF MachineCalls
<1>3. setRelayState(TRUE) \in Even /\ setRelayState(FALSE) \in Even
  BY EvenParts
<1>4. << op("leds") >> \in Even /\ << switch("able", TRUE) >> \in Even
  BY EvenParts DEF Label, WorkLabels
<1>5. << op("stopIfCharging"), switch("able", FALSE) >> \in Even
  <2>1. op("stopIfCharging") \in Good /\ switch("able", FALSE) \in Good
    BY PlainOps DEF Plain, Label, WorkLabels
  <2>2. op("stopIfCharging").at = "stopIfCharging" /\ switch("able", FALSE).at = "able"
    BY DEF switch, op
  <2>3. QED
    BY <2>1, <2>2, EvenPair
<1>6. processNetworkMessage \in Even
  <2> DEFINE f == processNetworkMessage
  <2>1. f \in Frames(Good)
    BY HandlerFrames, FramesGrow DEF Plain
  <2>2. Len(f) = 4 /\ \A i \in 1..4 : f[i].at \in {"enableEdge", "stateEdge", "contactorEdge", "save"}
    BY DEF processNetworkMessage, op
  <2> HIDE DEF f
  <2>3. Linked(f) /\ ~Open(f)
    BY <2>2 DEF Linked, Open
  <2>4. QED
    BY <2>1, <2>3 DEF Even, f
<1>7. frame("enable") \in Even
  <2>1. << switch("able", TRUE) >> \o setRelayState(TRUE) \in Even
    BY <1>1, <1>3, <1>4
  <2>2. QED
    BY <1>1, <1>4, <2>1 DEF frame
<1>8. frame("disable") \in Even
  <2>1. << op("stopIfCharging"), switch("able", FALSE) >> \o setRelayState(FALSE) \in Even
    BY <1>1, <1>3, <1>5
  <2>2. QED
    BY <1>1, <1>4, <2>1 DEF frame
<1>9. /\ frame("start") \in Even /\ frame("stop") \in Even
      /\ frame("pause") \in Even /\ frame("resume") \in Even
  BY <1>1, <1>2, <1>3 DEF frame
<1>10. QED
  BY <1>6, <1>7, <1>8, <1>9 DEF Handlers

(***************************************************************************)
(* ... and so what an operation of a call is replaced with.                *)
(***************************************************************************)
LEMMA EvenCalls ==
  ASSUME NEW o \in Called
  PROVE  << o >> \in Even /\ << op("leds"), o >> \in Even
<1>1. o \in Good /\ o.at \notin {"line", "flag"}
  BY DEF Called, WorkLabels
<1>2. op("leds") \in Good /\ op("leds").at = "leds"
  BY PlainOps DEF Plain, Label, WorkLabels, op
<1>3. QED
  BY <1>1, <1>2, EvenSingle, EvenPair

(***************************************************************************)
(* A step of a call leaves such a stack.                                   *)
(***************************************************************************)
LEMMA EvenCallStep ==
  ASSUME NEW t, stack[t] \in Stacks(Good), stack[t] # <<>>,
         Past(t) \in Seq(Even), Failed(t) \in Seq(Even),
         \A ops \in Even : Instead(t, ops) \in Seq(Even),
         Enter(t) \/ Test(t) \/ CheckSame(t) \/ CheckValid(t) \/ Write(t) \/ Notified(t)
  PROVE  \E st \in Seq(Even) : Moves(t, st)
<1> DEFINE o == Top(t)
<1>1. o \in Good
  BY OnTop DEF Top
<1>2. CASE Enter(t)
  <2>1. o.at = "enter" /\ o.call \in MachineCalls
    BY <1>1, <1>2 DEF Enter, Is, Good
  <2>2. << machine("test", o.call, FirstTest[o.call]) >> \in Even
    BY <2>1, FirstOp, EvenCalls
  <2>3. QED
    BY <1>2, <2>2 DEF Enter
<1>3. CASE ~Enter(t)
  <2>1. o.at \in WorkLabels
    BY <1>3 DEF Enter, Test, CheckSame, CheckValid, Write, Notified, Is, WorkLabels
  <2>2. o \in Called
    BY <1>1, <2>1 DEF Called
  <2>3. Moves(t, Advance(t)) /\ o.at # "test" => \E st \in Seq(Even) : Moves(t, st)
    <3>1. CASE o.focus \in DOMAIN Path[o.call]
      <4> DEFINE p == machine("same", o.call, Path[o.call][o.focus])
      <4>1. Advance(t) = Instead(t, << p >>)
        BY <3>1 DEF Advance
      <4>2. o.at # "test" => << p >> \in Even
        BY <2>2, <3>1, NextOps, EvenCalls
      <4>3. QED
        BY <4>1, <4>2
    <3>2. CASE o.focus \notin DOMAIN Path[o.call]
      BY <3>2 DEF Advance
    <3>3. QED
      BY <3>1, <3>2
  <2>4. CASE Test(t)
    <3> DEFINE p == machine("same", o.call, FirstTarget[o.call][o.focus])
               q == machine("test", o.call, TestAfter[o.call][o.focus])
    <3>1. o.at = "test"
      BY <2>4 DEF Test, Is
    <3>2. << p >> \in Even /\ (o.focus \in DOMAIN TestAfter[o.call] => << q >> \in Even)
      BY <2>2, <3>1, NextOps, EvenCalls
    <3>3. \/ Moves(t, Instead(t, << p >>)) \/ Moves(t, Failed(t))
          \/ o.focus \in DOMAIN TestAfter[o.call] /\ Moves(t, Instead(t, << q >>))
      BY <2>4 DEF Test
    <3> HIDE DEF p, q
    <3>4. QED
      BY <3>2, <3>3
  <2>5. CASE CheckSame(t) \/ CheckValid(t)
    <3>1. o.at \in {"same", "valid"}
      BY <2>5 DEF CheckSame, CheckValid, Is
    <3>2. \A l \in {"valid", "write"} : << [o EXCEPT !.at = l] >> \in Even
      BY <2>2, <3>1, NextOps, EvenCalls
    <3>3. \/ Moves(t, Advance(t)) \/ Moves(t, Failed(t))
          \/ Moves(t, Instead(t, << [o EXCEPT !.at = "valid"] >>))
          \/ Moves(t, Instead(t, << [o EXCEPT !.at = "write"] >>))
      BY <2>5 DEF CheckSame, CheckValid
    <3>4. QED
      BY <2>3, <3>1, <3>2, <3>3
  <2>6. CASE Write(t)
    <3>1. o.at = "write"
      BY <2>6 DEF Write, Is
    <3>2. << op("leds"), [o EXCEPT !.at = "notify"] >> \in Even
      BY <2>2, <3>1, NextOps, EvenCalls
    <3>3. QED
      BY <2>6, <3>2 DEF Write
  <2>7. CASE Notified(t)
    BY <2>3, <2>7 DEF Notified, Is
  <2>8. QED
    BY <1>3, <2>4, <2>5, <2>6, <2>7
<1>4. QED
  BY <1>2, <1>3

(***************************************************************************)
(* Every step keeps the line and the flag in pairs.                        *)
(***************************************************************************)
LEMMA PairedStep ==
  ASSUME ThreadInv, NEW t \in Thread, Step(t), Paired(stack[t], flag, line)
  PROVE  Paired(stack'[t], flag', line')
<1>1. stack[t] # <<>> /\ stack[t] \in Stacks(Good) /\ message.contactor \in BOOLEAN
      /\ \A st : Moves(t, st) => stack'[t] = st
  <2>1. stack[t] # <<>>
    BY DEF Step, Is, Guard, StopIfCharging, Able, Line, Flag, Leds, Lit, Enter, Test, CheckSame,
      CheckValid, Write, Notified, EnableEdge, StateEdge, ContactorEdge, IfRelay, Save
  <2>2. stack \in [Thread -> Stacks(Good)] /\ message.contactor \in BOOLEAN
    BY SaidFields DEF ThreadInv, Members
  <2>3. QED
    BY <2>1, <2>2 DEF Moves
<1>2. CASE Line(t)
  <2>1. Top(t).at = "line" /\ line' = Top(t).on /\ flag' = flag /\ stack'[t] = Past(t)
    BY <1>1, <1>2 DEF Line, Is
  <2>2. QED
    BY <1>1, <2>1, LineMoves
<1>3. CASE ~Line(t)
  <2>1. Top(t).at # "line"
    BY <1>1, <1>3 DEF Step, Is, Guard, StopIfCharging, Able, Line, Flag, Leds, Lit, Enter, Test,
      CheckSame, CheckValid, Write, Notified, EnableEdge, StateEdge, ContactorEdge, IfRelay, Save
  <2>2. /\ Past(t) \in Seq(Even) /\ Failed(t) \in Seq(Even)
        /\ \A ops \in Even : Instead(t, ops) \in Seq(Even) /\ Into(t, ops) \in Seq(Even)
        /\ Top(t).at # "flag" => flag = line
        /\ Top(t).at = "flag" => line = Top(t).on
    BY <1>1, <2>1, EvenMoves
  <2>3. SUFFICES flag' = line' /\ \E st \in Seq(Even) : Moves(t, st)
    BY <1>1, EvenStack
  <2>4. CASE Flag(t)
    BY <2>2, <2>4 DEF Flag, Is
  <2>5. CASE Guard(t) \/ Able(t) \/ IfRelay(t) \/ Save(t)
    BY <2>2, <2>5 DEF Guard, Able, IfRelay, Save, Is, members
  <2>6. CASE StopIfCharging(t)
    <3>1. frame("stop") \in Even
      BY EvenHandlers DEF Handlers
    <3>2. QED
      BY <2>2, <2>6, <3>1 DEF StopIfCharging, Is, members
  <2>7. CASE Leds(t) \/ Lit(t)
    <3>1. << op("lit") >> \in Even /\ setRelayState(TRUE) \in Even /\ setRelayState(FALSE) \in Even
      BY EvenParts DEF Label, WorkLabels
    <3>2. QED
      BY <2>2, <2>7, <3>1 DEF Leds, Lit, Is, members
  <2>8. CASE EnableEdge(t)
    <3>1. frame("enable") \in Even /\ frame("disable") \in Even
      BY EvenHandlers DEF Handlers
    <3>2. QED
      BY <2>2, <2>8, <3>1 DEF EnableEdge, Is, members
  <2>9. CASE StateEdge(t)
    <3> DEFINE up == << machine("enter", "stop", "none") >>
               go == << switch("ifRelay", TRUE) >> \o guarded("start")
    <3>1. up \in Even
      BY EvenParts DEF MachineCalls
    <3>2. go \in Even
      <4>1. << switch("ifRelay", TRUE) >> \in Even /\ guarded("start") \in Even
        BY EvenParts DEF Label, WorkLabels, MachineCalls
      <4>2. QED
        BY <4>1, EvenParts
    <3> HIDE DEF up, go
    <3>3. /\ Moves(t, Past(t)) \/ Moves(t, Into(t, up)) \/ Moves(t, Into(t, go))
          /\ UNCHANGED <<members, last, message>>
      BY <2>9 DEF StateEdge, up, go
    <3>4. Top(t).at = "stateEdge"
      BY <2>9 DEF StateEdge, Is
    <3>5. QED
      BY <2>2, <3>1, <3>2, <3>3, <3>4 DEF members
  <2>10. CASE ContactorEdge(t)
    <3> DEFINE c == message.contactor
               on == (<< op("guard") >> \o << switch("ifRelay", ~c) >>) \o setRelayState(c)
               off == (<<>> \o << switch("ifRelay", ~c) >>) \o setRelayState(c)
    <3>1. /\ c => \/ Moves(t, Past(t)) \/ Moves(t, Into(t, on))
          /\ ~c => \/ Moves(t, Past(t)) \/ Moves(t, Into(t, off))
          /\ UNCHANGED <<members, last, message>> /\ Top(t).at = "contactorEdge"
      BY <2>10 DEF ContactorEdge, Is
    <3>2. << op("guard") >> \in Even /\ << switch("ifRelay", ~c) >> \in Even
          /\ setRelayState(c) \in Even
      <4>1. c \in BOOLEAN /\ (~c) \in BOOLEAN
        BY <1>1
      <4>2. QED
        BY <4>1, EvenParts DEF Label, WorkLabels
    <3>3. on \in Even
      BY <3>2, EvenParts
    <3>4. off \in Even
      <4>1. <<>> \o << switch("ifRelay", ~c) >> = << switch("ifRelay", ~c) >>
        BY <3>2, ConcatSimplifications DEF Even, Frames
      <4>2. QED
        BY <3>2, <4>1, EvenParts
    <3> HIDE DEF c, on, off
    <3>5. QED
      BY <2>2, <3>1, <3>3, <3>4 DEF members
  <2>11. CASE Enter(t) \/ Test(t) \/ CheckSame(t) \/ CheckValid(t) \/ Write(t) \/ Notified(t)
    <3>1. \E st \in Seq(Even) : Moves(t, st)
      BY <1>1, <2>2, <2>11, EvenCallStep
    <3>2. flag' = flag /\ line' = line /\ Top(t).at # "flag"
      BY <2>11 DEF Enter, Test, CheckSame, CheckValid, Write, Notified, Is, members
    <3>3. QED
      BY <2>2, <3>1, <3>2
  <2>12. QED
    BY <1>3, <2>4, <2>5, <2>6, <2>7, <2>8, <2>9, <2>10, <2>11 DEF Step
<1>4. QED
  BY <1>2, <1>3

-----------------------------------------------------------------------------
(***************************************************************************)
(* Procedures of an enabled box.  The operations of those that make the    *)
(* calls C of the state machine, none of which disables the box; and those *)
(* of the handlers that procedures return to.                              *)
(***************************************************************************)
WorkOps(C) ==
  { o \in Good :
      \/ o.at \in {"guard", "ifRelay", "line", "flag", "leds", "lit"}
      \/ o.at = "able" /\ o.on = TRUE
      \/ o.at \in WorkLabels \cup {"enter"} /\ o.call \in C }

Edges == {o \in Good : o.at \in {"stopIfCharging", "stateEdge", "contactorEdge", "save"}}

\* A stack that goes on with a frame of S on what is below, or has left it.
GoesOn(st, S, below) ==
  \/ st = below
  \/ st # <<>> /\ st[1] \in Frames(S) /\ Tail(st) = below

(***************************************************************************)
(* What the moves of a thread make of its topmost frame.                   *)
(***************************************************************************)
LEMMA FrameMoves ==
  ASSUME NEW S, S \subseteq Good, NEW t, stack[t] \in Stacks(Good), stack[t] # <<>>,
         stack[t][1] \in Frames(S)
  PROVE  /\ Top(t) \in S
         /\ GoesOn(Failed(t), S, Tail(stack[t]))
         /\ GoesOn(Past(t), S, Tail(stack[t]))
         /\ \A ops \in Frames(S) : GoesOn(Instead(t, ops), S, Tail(stack[t]))
<1> DEFINE f == stack[t][1]
           r == Tail(f)
           below == Tail(stack[t])
<1>1. below \in Stacks(Good) /\ (Len(f) # 1 => r # <<>>)
  BY OnTop
<1>2. f \in Seq(S) /\ f # <<>>
  BY DEF Frames
<1>3. r \in Seq(S) /\ Len(f) \in Nat \ {0} /\ f[1] \in S
  BY <1>2, HeadTailProperties, EmptySeq, ElementOfSeq
<1>4. \A g \in Frames(S) : GoesOn(<< g >> \o below, S, below)
  <2> TAKE g \in Frames(S)
  <2>1. g \in Frames(Good)
    BY FramesGrow
  <2> HIDE DEF below
  <2>2. << g >> \o below # <<>> /\ (<< g >> \o below)[1] = g /\ Tail(<< g >> \o below) = below
    BY <1>1, <2>1, Topped
  <2>3. QED
    BY <2>2 DEF GoesOn
<1>5. GoesOn(Past(t), S, below)
  <2>1. CASE Len(f) = 1
    BY <2>1 DEF Past, GoesOn
  <2>2. CASE Len(f) # 1
    <3>1. r \in Frames(S) /\ Past(t) = << r >> \o below
      BY <1>1, <1>3, <2>2 DEF Frames, Past
    <3>2. QED
      BY <1>4, <3>1
  <2>3. QED
    BY <2>1, <2>2
<1>6. ASSUME NEW ops \in Frames(S)
      PROVE  GoesOn(Instead(t, ops), S, below)
  <2>1. ops \o r \in Frames(S) /\ Instead(t, ops) = << ops \o r >> \o below
    BY <1>3, Joined DEF Frames, Instead
  <2>2. QED
    BY <1>4, <2>1
<1>7. QED
  BY <1>3, <1>5, <1>6 DEF Top, Failed, GoesOn

\* The operations that replace one are again of the procedures.
LEMMA WorkParts ==
  ASSUME NEW C \in SUBSET MachineCalls
  PROVE  /\ << op("lit") >> \in Frames(WorkOps(C)) /\ << op("guard") >> \in Frames(WorkOps(C))
         /\ \A on \in BOOLEAN : /\ setRelayState(on) \in Frames(WorkOps(C))
                                /\ << switch("ifRelay", on) >> \in Frames(WorkOps(C))
         /\ << op("leds") >> \in Frames(WorkOps(C))
         /\ << switch("able", TRUE) >> \in Frames(WorkOps(C))
         /\ \A c \in C : /\ << machine("enter", c, "none") >> \in Frames(WorkOps(C))
                         /\ guarded(c) \in Frames(WorkOps(C))
         /\ \A o \in Called : o.call \in C =>
              << o >> \in Frames(WorkOps(C)) /\ << op("leds"), o >> \in Frames(WorkOps(C))
<1>1. \A at \in {"guard", "leds", "lit"} : op(at) \in WorkOps(C)
  <2> TAKE at \in {"guard", "leds", "lit"}
  <2>1. op(at) \in Good /\ op(at).at = at
    BY PlainOps DEF Plain, Label, WorkLabels, op
  <2>2. QED
    BY <2>1 DEF WorkOps
<1>2. \A at \in {"ifRelay", "line", "flag"} : \A on \in BOOLEAN : switch(at, on) \in WorkOps(C)
  <2> TAKE at \in {"ifRelay", "line", "flag"}
  <2> TAKE on \in BOOLEAN
  <2>1. switch(at, on) \in Good /\ switch(at, on).at = at
    BY PlainOps DEF Plain, Label, WorkLabels, switch, op
  <2>2. QED
    BY <2>1 DEF WorkOps
<1>3. switch("able", TRUE) \in WorkOps(C)
  <2>1. switch("able", TRUE) \in Good
    BY PlainOps DEF Plain, Label, WorkLabels
  <2>2. switch("able", TRUE).at = "able" /\ switch("able", TRUE).on = TRUE
    BY DEF switch, op
  <2>3. QED
    BY <2>1, <2>2 DEF WorkOps
<1>4. ASSUME NEW c \in C
      PROVE  machine("enter", c, "none") \in WorkOps(C)
  <2>1. machine("enter", c, "none") \in Good
    BY PlainOps DEF Plain
  <2>2. machine("enter", c, "none").at = "enter" /\ machine("enter", c, "none").call = c
    BY DEF machine, op
  <2>3. QED
    BY <2>1, <2>2 DEF WorkOps
<1>5. ASSUME NEW o \in Called, o.call \in C
      PROVE  << o >> \in Frames(WorkOps(C)) /\ << op("leds"), o >> \in Frames(WorkOps(C))
  <2>1. o \in WorkOps(C)
    BY <1>5 DEF Called, WorkOps
  <2>2. QED
    BY <1>1, <2>1, Singles, Pairs
<1>6. \A on \in BOOLEAN : /\ setRelayState(on) \in Frames(WorkOps(C))
                          /\ << switch("ifRelay", on) >> \in Frames(WorkOps(C))
  BY <1>2, Singles, Pairs DEF setRelayState
<1>7. \A c \in C : /\ << machine("enter", c, "none") >> \in Frames(WorkOps(C))
                   /\ guarded(c) \in Frames(WorkOps(C))
  BY <1>1, <1>4, Singles, Pairs DEF guarded
<1>8. QED
  BY <1>1, <1>3, <1>5, <1>6, <1>7, Singles

(***************************************************************************)
(* A procedure of an enabled box goes on, or returns, and the box stays    *)
(* enabled.                                                                *)
(***************************************************************************)
LEMMA WorkStep ==
  ASSUME NEW C \in SUBSET MachineCalls, stack \in [Thread -> Stacks(Good)], NEW t \in Thread,
         Step(t), stack[t][1] \in Frames(WorkOps(C)),
         enabled = TRUE \/ Top(t).at = "able"
  PROVE  /\ enabled' = TRUE /\ GoesOn(stack'[t], WorkOps(C), Tail(stack[t]))
         /\ message' = message
<1> DEFINE o == Top(t)
           S == WorkOps(C)
           below == Tail(stack[t])
<1>1. stack[t] # <<>>
  BY DEF Step, Is, Guard, StopIfCharging, Able, Line, Flag, Leds, Lit, Enter, Test, CheckSame,
    CheckValid, Write, Notified, EnableEdge, StateEdge, ContactorEdge, IfRelay, Save
<1>2. /\ o \in S /\ GoesOn(Failed(t), S, below) /\ GoesOn(Past(t), S, below)
      /\ \A ops \in Frames(S) : GoesOn(Instead(t, ops), S, below)
  <2>1. S \subseteq Good /\ stack[t] \in Stacks(Good)
    BY DEF WorkOps
  <2>2. QED
    BY <1>1, <2>1, FrameMoves
<1>3. o.at \in WorkLabels \cup {"enter"} => o.call \in C
  BY <1>2 DEF WorkOps, WorkLabels
<1>4. o.at \in WorkLabels => o \in Called
  BY <1>2 DEF WorkOps, Called
<1>5. o.at \notin {"stopIfCharging", "enableEdge", "stateEdge", "contactorEdge", "save"}
      /\ (o.at = "able" => o.on = TRUE)
  BY <1>2 DEF WorkOps, WorkLabels
<1>6. /\ << op("lit") >> \in Frames(S)
      /\ setRelayState(TRUE) \in Frames(S) /\ setRelayState(FALSE) \in Frames(S)
      /\ \A p \in Called : p.call \in C => << p >> \in Frames(S) /\ << op("leds"), p >> \in Frames(S)
  BY WorkParts
<1>7. SUFFICES enabled' = TRUE /\ message' = message /\ \E st : Moves(t, st) /\ GoesOn(st, S, below)
  BY DEF Moves
<1> HIDE DEF S, below
<1>8. CASE Guard(t) \/ Able(t) \/ Line(t) \/ Flag(t) \/ IfRelay(t)
  BY <1>2, <1>5, <1>8 DEF Guard, Able, Line, Flag, IfRelay, Is, members
<1>9. CASE Leds(t) \/ Lit(t)
  BY <1>2, <1>6, <1>9 DEF Leds, Lit, Is, members
<1>10. CASE Enter(t)
  <2>1. o.at = "enter" /\ o.call \in MachineCalls /\ o.call \in C
    BY <1>3, <1>10 DEF Enter, Is, WorkLabels
  <2>2. /\ machine("test", o.call, FirstTest[o.call]) \in Called
        /\ machine("test", o.call, FirstTest[o.call]).call = o.call
    BY <2>1, FirstOp DEF machine, op
  <2>3. << machine("test", o.call, FirstTest[o.call]) >> \in Frames(S)
    BY <1>6, <2>1, <2>2
  <2>4. QED
    BY <1>2, <1>10, <2>1, <2>3 DEF Enter, members
<1>11. Moves(t, Advance(t)) /\ o.at \in WorkLabels \ {"test"} => \E st : Moves(t, st) /\ GoesOn(st, S, below)
  <2>1. CASE o.focus \in DOMAIN Path[o.call]
    <3> DEFINE p == machine("same", o.call, Path[o.call][o.focus])
    <3>1. Advance(t) = Instead(t, << p >>)
      BY <2>1 DEF Advance
    <3>2. p.call = o.call
      BY DEF machine, op
    <3>3. o.at \in WorkLabels \ {"test"} => p \in Called
      BY <1>4, <2>1, NextOps
    <3> HIDE DEF p
    <3>4. o.at \in WorkLabels \ {"test"} => << p >> \in Frames(S)
      BY <1>3, <1>6, <3>2, <3>3
    <3>5. QED
      BY <1>2, <3>1, <3>4
  <2>2. CASE o.focus \notin DOMAIN Path[o.call]
    BY <1>2, <2>2 DEF Advance
  <2>3. QED
    BY <2>1, <2>2
<1>12. CASE Test(t)
  <2> DEFINE p == machine("same", o.call, FirstTarget[o.call][o.focus])
             q == machine("test", o.call, TestAfter[o.call][o.focus])
  <2>1. o.at = "test" /\ enabled' = enabled /\ message' = message
    BY <1>12 DEF Test, Is, members
  <2>2. p \in Called /\ p.call = o.call /\ q.call = o.call
        /\ (o.focus \in DOMAIN TestAfter[o.call] => q \in Called)
    BY <1>4, <2>1, NextOps DEF machine, op, WorkLabels
  <2>3. \/ Moves(t, Instead(t, << p >>)) \/ Moves(t, Failed(t))
        \/ o.focus \in DOMAIN TestAfter[o.call] /\ Moves(t, Instead(t, << q >>))
    BY <1>12 DEF Test
  <2> HIDE DEF p, q
  <2>4. o.call \in C
    BY <1>3, <2>1 DEF WorkLabels
  <2>5. << p >> \in Frames(S) /\ (o.focus \in DOMAIN TestAfter[o.call] => << q >> \in Frames(S))
    BY <1>6, <2>2, <2>4
  <2>6. QED
    BY <1>2, <2>1, <2>3, <2>5
<1>13. CASE CheckSame(t) \/ CheckValid(t)
  <2>1. o.at \in {"same", "valid"} /\ enabled' = enabled /\ message' = message
    BY <1>13 DEF CheckSame, CheckValid, Is, members
  <2>2. \A l \in {"valid", "write"} : [o EXCEPT !.at = l] \in Called /\ [o EXCEPT !.at = l].call = o.call
    <3>1. o \in Called
      BY <1>4, <2>1 DEF WorkLabels
    <3>2. \A l : [o EXCEPT !.at = l].call = o.call
      BY <3>1 DEF Called, Good, Op
    <3>3. QED
      BY <2>1, <3>1, <3>2, NextOps
  <2>3. \/ Moves(t, Advance(t)) \/ Moves(t, Failed(t))
        \/ Moves(t, Instead(t, << [o EXCEPT !.at = "valid"] >>))
        \/ Moves(t, Instead(t, << [o EXCEPT !.at = "write"] >>))
    BY <1>13 DEF CheckSame, CheckValid
  <2>4. o.call \in C
    BY <1>3, <2>1 DEF WorkLabels
  <2>5. \A l \in {"valid", "write"} : << [o EXCEPT !.at = l] >> \in Frames(S)
    BY <1>6, <2>2, <2>4
  <2>6. o.at \in WorkLabels \ {"test"}
    BY <2>1 DEF WorkLabels
  <2>7. QED
    BY <1>2, <1>11, <2>1, <2>3, <2>5, <2>6
<1>14. CASE Write(t)
  <2>1. o.at = "write" /\ enabled' = enabled /\ message' = message
    BY <1>14 DEF Write, Is
  <2>2. [o EXCEPT !.at = "notify"] \in Called /\ [o EXCEPT !.at = "notify"].call = o.call
    <3>1. o \in Called
      BY <1>4, <2>1 DEF WorkLabels
    <3>2. [o EXCEPT !.at = "notify"].call = o.call
      BY <3>1 DEF Called, Good, Op
    <3>3. QED
      BY <2>1, <3>1, <3>2, NextOps
  <2>3. o.call \in C
    BY <1>3, <2>1 DEF WorkLabels
  <2>4. << op("leds"), [o EXCEPT !.at = "notify"] >> \in Frames(S)
    BY <1>6, <2>2, <2>3
  <2>5. QED
    BY <1>2, <1>14, <2>1, <2>4 DEF Write
<1>15. CASE Notified(t)
  <2>1. o.at = "notify" /\ enabled' = enabled /\ message' = message
    BY <1>15 DEF Notified, Is, members
  <2>2. QED
    BY <1>11, <1>15, <2>1 DEF Notified, WorkLabels
<1>16. CASE StopIfCharging(t) \/ EnableEdge(t) \/ StateEdge(t) \/ ContactorEdge(t) \/ Save(t)
  BY <1>5, <1>16 DEF StopIfCharging, EnableEdge, StateEdge, ContactorEdge, Save, Is
<1>17. QED
  BY <1>8, <1>9, <1>10, <1>12, <1>13, <1>14, <1>15, <1>16 DEF Step

\* A stack is not what is below its topmost frame.
LEMMA Above ==
  ASSUME NEW S, NEW st \in Seq(S), st # <<>>
  PROVE  Tail(st) # st
<1>1. Len(Tail(st)) = Len(st) - 1 /\ Len(st) \in Nat
  BY HeadTailProperties, LenProperties
<1> DEFINE r == Tail(st)
           n == Len(st)
<1>0. Len(r) = n - 1 /\ n \in Nat
  BY <1>1
<1> HIDE DEF r
<1>2. Len(r) # n
  <2> HIDE DEF n
  <2>1. QED
    BY <1>0
<1>3. r # st
  BY <1>2 DEF n
<1>4. QED
  BY <1>3 DEF r

-----------------------------------------------------------------------------
(***************************************************************************)
(* disable, operation by operation: f is what is left of it from the k-th. *)
(***************************************************************************)
Remains(f, k) ==
  /\ f \in Seq(Good) /\ Len(f) = 6 - k
  /\ \A i \in 1..6 - k : f[i] = frame("disable")[i + k - 1]

\* Its five operations.
LEMMA DisableOps ==
  LET d == frame("disable")
  IN  /\ d \in Seq(Good) /\ Len(d) = 5
      /\ d[1] = op("stopIfCharging") /\ d[2] = switch("able", FALSE)
      /\ d[3] = switch("line", FALSE) /\ d[4] = switch("flag", FALSE) /\ d[5] = op("leds")
<1> DEFINE a == << op("stopIfCharging"), switch("able", FALSE) >>
           b == setRelayState(FALSE)
           c == << op("leds") >>
           ab == a \o b
           d == ab \o c
<1>1. a \in Seq(Good) /\ b \in Seq(Good) /\ c \in Seq(Good)
  <2>1. op("stopIfCharging") \in Good /\ switch("able", FALSE) \in Good /\ op("leds") \in Good
    BY PlainOps DEF Plain, Label, WorkLabels
  <2>2. a \in Frames(Good) /\ c \in Frames(Good)
    BY <2>1, Pairs, Singles
  <2>3. b \in Seq(Good)
    BY SwitchOff
  <2>4. QED
    BY <2>2, <2>3 DEF Frames
<1>2. /\ Len(a) = 2 /\ a[1] = op("stopIfCharging") /\ a[2] = switch("able", FALSE)
      /\ Len(b) = 2 /\ b[1] = switch("line", FALSE) /\ b[2] = switch("flag", FALSE)
      /\ Len(c) = 1 /\ c[1] = op("leds")
  BY DEF setRelayState
<1> HIDE DEF a, b, c
<1>3. /\ ab \in Seq(Good) /\ Len(ab) = 4
      /\ \A i \in 1..4 : ab[i] = IF i <= 2 THEN a[i] ELSE b[i - 2]
  <2>1. /\ ab \in Seq(Good) /\ Len(ab) = Len(a) + Len(b)
        /\ \A i \in 1..Len(a) + Len(b) : ab[i] = IF i <= Len(a) THEN a[i] ELSE b[i - Len(a)]
    BY <1>1, ConcatProperties
  <2>2. QED
    BY <1>2, <2>1
<1>4. ab[1] = a[1] /\ ab[2] = a[2] /\ ab[3] = b[1] /\ ab[4] = b[2]
  BY <1>3
<1> HIDE DEF ab
<1>5. /\ d \in Seq(Good) /\ Len(d) = 5
      /\ \A i \in 1..5 : d[i] = IF i <= 4 THEN ab[i] ELSE c[i - 4]
  <2>1. /\ d \in Seq(Good) /\ Len(d) = Len(ab) + Len(c)
        /\ \A i \in 1..Len(ab) + Len(c) : d[i] = IF i <= Len(ab) THEN ab[i] ELSE c[i - Len(ab)]
    BY <1>1, <1>3, ConcatProperties
  <2>2. QED
    BY <1>2, <1>3, <2>1
<1>6. d[1] = ab[1] /\ d[2] = ab[2] /\ d[3] = ab[3] /\ d[4] = ab[4] /\ d[5] = c[1]
  BY <1>5
<1>7. frame("disable") = d
  BY DEF frame, a, b, c, ab
<1>8. QED
  BY <1>2, <1>4, <1>5, <1>6, <1>7

\* The whole of it remains at first.
LEMMA DisableBegins == Remains(frame("disable"), 1)
<1> DEFINE d == frame("disable")
<1>1. d \in Seq(Good) /\ Len(d) = 5
  BY DisableOps
<1>2. \A i \in 1..6 - 1 : d[i] = d[i + 1 - 1]
  OBVIOUS
<1>3. QED
  BY <1>1, <1>2 DEF Remains

\* What is next of it, and what remains after that.
LEMMA DisableGoesOn ==
  ASSUME NEW t, stack[t] \in Stacks(Good), stack[t] # <<>>,
         NEW k \in 1..4, Remains(stack[t][1], k)
  PROVE  /\ Top(t) = frame("disable")[k]
         /\ Past(t) # <<>> /\ Remains(Past(t)[1], k + 1) /\ Tail(Past(t)) = Tail(stack[t])
<1> DEFINE f == stack[t][1]
           r == Tail(f)
           below == Tail(stack[t])
           d == frame("disable")
<1>1. f \in Seq(Good) /\ Len(f) = 6 - k /\ \A i \in 1..6 - k : f[i] = d[i + k - 1]
  BY DEF Remains
<1>2. f # <<>> /\ Len(f) # 1 /\ 1 \in 1..6 - k /\ 1 + k - 1 = k
  BY <1>1, EmptySeq
<1>3. below \in Stacks(Good) /\ r \in Frames(Good)
  BY <1>2, OnTop DEF Frames
<1>4. Len(r) = Len(f) - 1 /\ \A i \in 1..Len(r) : r[i] = f[i + 1]
  BY <1>1, <1>2, HeadTailProperties
<1>5. Top(t) = d[k]
  BY <1>1, <1>2 DEF Top
<1>6. Past(t) = << r >> \o below
  BY <1>2 DEF Past
<1> HIDE DEF below, r
<1>7. Past(t) # <<>> /\ Past(t)[1] = r /\ Tail(Past(t)) = below
  BY <1>3, <1>6, Topped
<1>8. Remains(r, k + 1)
  <2>1. Len(r) = 6 - (k + 1)
    BY <1>1, <1>4
  <2>2. ASSUME NEW i \in 1..6 - (k + 1)
        PROVE  r[i] = d[i + (k + 1) - 1]
    <3>1. i \in 1..Len(r) /\ i + 1 \in 1..6 - k /\ (i + 1) + k - 1 = i + (k + 1) - 1
      BY <2>1
    <3>2. QED
      BY <1>1, <1>4, <3>1
  <2>3. QED
    BY <1>3, <2>1, <2>2 DEF Remains, Frames
<1>9. QED
  BY <1>5, <1>7, <1>8 DEF below

\* The refresh at its end is harmless.
LEMMA DisableEnds ==
  ASSUME NEW f, NEW e, Remains(f, 5)
  PROVE  f \in Frames(Safe(e))
<1>1. f \in Seq(Good) /\ Len(f) = 1 /\ f[1] = frame("disable")[5]
  <2>1. 6 - 5 = 1 /\ 1 \in 1..1 /\ 1 + 5 - 1 = 5
    OBVIOUS
  <2>2. QED
    BY <2>1 DEF Remains
<1>2. f[1] \in Safe(e)
  BY <1>1, DisableOps, SafeOps
<1>3. f \in [1..1 -> Good]
  BY <1>1, LenProperties
<1>4. f \in [1..1 -> Safe(e)]
  BY <1>2, <1>3
<1>5. f \in Seq(Safe(e))
  BY <1>1, <1>4, SeqDef
<1>6. f # <<>>
  BY <1>1, EmptySeq
<1>7. QED
  BY <1>5, <1>6 DEF Frames

-----------------------------------------------------------------------------
(***************************************************************************)
(* The frame of a stop that finds the box enabled and the session in       *)
(* CHARGING: it will not fail.                                             *)
(***************************************************************************)
Closing(f) ==
  \/ /\ f[1].at = "guard" /\ Len(f) > 1
     /\ f[2].at = "enter" /\ f[2].call = "stop"
  \/ f[1].at = "enter" /\ f[1].call = "stop"
  \/ f[1].at = "test" /\ f[1].call = "stop" /\ f[1].focus = "CHARGING"
  \/ f[1].at \in {"same", "valid", "write"} /\ f[1].call = "stop" /\ f[1].focus = "STOP"

\* What an operation is replaced with comes first.
LEMMA ReplacedFirst ==
  ASSUME NEW t, stack[t] \in Stacks(Good), stack[t] # <<>>, NEW o \in Good
  PROVE  LET st == Instead(t, << o >>)
         IN  st # <<>> /\ st[1][1] = o /\ Tail(st) = Tail(stack[t])
<1> DEFINE r == Tail(stack[t][1])
           below == Tail(stack[t])
           g == << o >> \o r
<1>1. r \in Seq(Good) /\ below \in Stacks(Good) /\ << o >> \in Frames(Good)
  BY OnTop, Singles
<1>2. g \in Frames(Good) /\ g[1] = << o >>[1]
  BY <1>1, FirstOf, Joined DEF Frames
<1>3. Instead(t, << o >>) = << g >> \o below
  BY DEF Instead
<1> HIDE DEF g, below
<1>4. << g >> \o below # <<>> /\ (<< g >> \o below)[1] = g /\ Tail(<< g >> \o below) = below
  BY <1>1, <1>2, Topped
<1>5. QED
  BY <1>2, <1>3, <1>4 DEF below

(***************************************************************************)
(* The session leaves CHARGING, or the stop is on its way to that.         *)
(***************************************************************************)
LEMMA ClosingStep ==
  ASSUME stack \in [Thread -> Stacks(Good)], NEW t \in Thread, Step(t), stack[t] # <<>>,
         enabled = TRUE, state = "CHARGING", Closing(stack[t][1])
  PROVE  \/ state' # "CHARGING"
         \/ stack'[t] # <<>> /\ Closing(stack'[t][1]) /\ Tail(stack'[t]) = Tail(stack[t])
<1> DEFINE o == Top(t)
           f == stack[t][1]
<1>1. /\ stack[t] \in Stacks(Good) /\ o \in Good /\ o = f[1]
      /\ \A st : Moves(t, st) => stack'[t] = st
  BY OnTop DEF Top, Moves
<1>2. ASSUME NEW p \in Good, Moves(t, Instead(t, << p >>)), p.call = "stop",
             \/ p.at = "test" /\ p.focus = "CHARGING"
             \/ p.at \in {"same", "valid", "write"} /\ p.focus = "STOP"
      PROVE  stack'[t] # <<>> /\ Closing(stack'[t][1]) /\ Tail(stack'[t]) = Tail(stack[t])
  <2>1. stack'[t] # <<>> /\ stack'[t][1][1] = p /\ Tail(stack'[t]) = Tail(stack[t])
    BY <1>1, <1>2, ReplacedFirst
  <2>2. QED
    BY <1>2, <2>1 DEF Closing
<1>3. CASE o.at = "guard" /\ Len(f) > 1 /\ f[2].at = "enter" /\ f[2].call = "stop"
  <2>1. Guard(t)
    BY <1>3 DEF Step, Is, StopIfCharging, Able, Line, Flag, Leds, Lit, Enter, Test, CheckSame,
      CheckValid, Write, Notified, EnableEdge, StateEdge, ContactorEdge, IfRelay, Save
  <2>2. stack'[t] = Past(t)
    BY <1>1, <2>1 DEF Guard
  <2> DEFINE r == Tail(f)
             below == Tail(stack[t])
  <2>3. f \in Seq(Good) /\ f # <<>> /\ Len(f) \in Nat /\ r \in Seq(Good) /\ below \in Stacks(Good)
        /\ (Len(f) # 1 => r # <<>>)
    BY <1>1, OnTop, LenProperties DEF Frames
  <2>4. r # <<>> /\ Len(f) # 1
    BY <1>3, <2>3
  <2>5. r[1] = f[2]
    <3>1. Len(r) = Len(f) - 1 /\ \A i \in 1..Len(r) : r[i] = f[i + 1]
      BY <2>3, HeadTailProperties
    <3>2. 1 \in 1..Len(r) /\ 1 + 1 = 2
      BY <1>3, <2>3, <3>1
    <3>3. QED
      BY <3>1, <3>2
  <2>6. Past(t) = << r >> \o below /\ r \in Frames(Good)
    BY <2>3, <2>4 DEF Past, Frames
  <2> HIDE DEF r, below
  <2>7. Past(t) # <<>> /\ Past(t)[1] = r /\ Tail(Past(t)) = below
    BY <2>3, <2>6, Topped
  <2>8. Closing(r)
    BY <1>3, <2>5 DEF Closing
  <2>9. QED
    BY <2>2, <2>7, <2>8 DEF below
<1>4. CASE o.at = "enter" /\ o.call = "stop"
  <2>1. Enter(t)
    BY <1>4 DEF Step, Is, Guard, StopIfCharging, Able, Line, Flag, Leds, Lit, Test, CheckSame,
      CheckValid, Write, Notified, EnableEdge, StateEdge, ContactorEdge, IfRelay, Save
  <2> DEFINE p == machine("test", "stop", "CHARGING")
  <2>2. Moves(t, Instead(t, << p >>))
    BY <1>4, <2>1 DEF Enter, FirstTest
  <2>3. p \in Good
    BY MachineOp DEF MachineCalls, WorkLabels, ChargingState, Tested, Called
  <2>4. p.call = "stop" /\ p.at = "test" /\ p.focus = "CHARGING"
    BY DEF machine, op
  <2> HIDE DEF p
  <2>5. QED
    BY <1>2, <2>2, <2>3, <2>4
<1>5. CASE o.at = "test" /\ o.call = "stop" /\ o.focus = "CHARGING"
  <2>1. Test(t)
    BY <1>5 DEF Step, Is, Guard, StopIfCharging, Able, Line, Flag, Leds, Lit, Enter, CheckSame,
      CheckValid, Write, Notified, EnableEdge, StateEdge, ContactorEdge, IfRelay, Save
  <2> DEFINE p == machine("same", "stop", "STOP")
  <2>2. Moves(t, Instead(t, << p >>))
    BY <1>5, <2>1 DEF Test, FirstTarget
  <2>3. p \in Good
    BY MachineOp DEF MachineCalls, WorkLabels, ChargingState, Targets, Called
  <2>4. p.call = "stop" /\ p.at = "same" /\ p.focus = "STOP"
    BY DEF machine, op
  <2> HIDE DEF p
  <2>5. QED
    BY <1>2, <2>2, <2>3, <2>4
<1>6. CASE o.at = "same" /\ o.call = "stop" /\ o.focus = "STOP"
  <2>1. CheckSame(t)
    BY <1>6 DEF Step, Is, Guard, StopIfCharging, Able, Line, Flag, Leds, Lit, Enter, Test,
      CheckValid, Write, Notified, EnableEdge, StateEdge, ContactorEdge, IfRelay, Save
  <2> DEFINE p == [o EXCEPT !.at = "valid"]
  <2>2. Moves(t, Instead(t, << p >>))
    BY <1>6, <2>1 DEF CheckSame
  <2>3. p \in Good /\ p.call = "stop" /\ p.at = "valid" /\ p.focus = "STOP"
    BY <1>1, <1>6 DEF Good, Op, WorkLabels, Label
  <2> HIDE DEF p
  <2>4. QED
    BY <1>2, <2>2, <2>3
<1>7. CASE o.at = "valid" /\ o.call = "stop" /\ o.focus = "STOP"
  <2>1. CheckValid(t)
    BY <1>7 DEF Step, Is, Guard, StopIfCharging, Able, Line, Flag, Leds, Lit, Enter, Test,
      CheckSame, Write, Notified, EnableEdge, StateEdge, ContactorEdge, IfRelay, Save
  <2> DEFINE p == [o EXCEPT !.at = "write"]
  <2>2. isValidTransition("CHARGING", "STOP")
    BY DEF isValidTransition, Successors
  <2>3. Moves(t, Instead(t, << p >>))
    BY <1>7, <2>1, <2>2 DEF CheckValid
  <2>4. p \in Good /\ p.call = "stop" /\ p.at = "write" /\ p.focus = "STOP"
    BY <1>1, <1>7 DEF Good, Op, WorkLabels, Label
  <2> HIDE DEF p
  <2>5. QED
    BY <1>2, <2>3, <2>4
<1>8. CASE o.at = "write" /\ o.call = "stop" /\ o.focus = "STOP"
  <2>1. Write(t)
    BY <1>8 DEF Step, Is, Guard, StopIfCharging, Able, Line, Flag, Leds, Lit, Enter, Test,
      CheckSame, CheckValid, Notified, EnableEdge, StateEdge, ContactorEdge, IfRelay, Save
  <2>2. QED
    BY <1>8, <2>1 DEF Write
<1>9. QED
  BY <1>1, <1>3, <1>4, <1>5, <1>6, <1>7, <1>8 DEF Closing

\* No operation of a stop leads to CHARGING.
LEMMA StopWrites ==
  ASSUME NEW t, Step(t), stack[t] \in Stacks(Good), stack[t] # <<>>,
         stack[t][1] \in Frames(WorkOps({"stop"})), state # "CHARGING"
  PROVE  state' # "CHARGING"
<1>1. CASE Write(t)
  <2>1. Top(t) \in WorkOps({"stop"})
    <3>1. stack[t][1] \in Seq(WorkOps({"stop"})) /\ stack[t][1] # <<>>
      BY DEF Frames
    <3>2. QED
      BY <3>1, EmptySeq, ElementOfSeq DEF Top
  <2>2. Top(t).at = "write" /\ state' = Top(t).focus
    BY <1>1 DEF Write, Is
  <2>3. Top(t) \in Called /\ Top(t).call = "stop"
    BY <2>1, <2>2 DEF WorkOps, Called, WorkLabels
  <2>4. state' \in Targets["stop"]
    BY <2>2, <2>3, CalledFields
  <2>5. QED
    BY <2>4 DEF Targets
<1>2. CASE ~Write(t)
  BY <1>2 DEF Step, Guard, StopIfCharging, Able, Line, Flag, Leds, Lit, Enter, Test, CheckSame,
    CheckValid, Notified, EnableEdge, StateEdge, ContactorEdge, IfRelay, Save, members
<1>3. QED
  BY <1>1, <1>2

-----------------------------------------------------------------------------
(***************************************************************************)
(* The phases of a box one handler at a time works on, st being the stack  *)
(* of its thread: an enabled box nobody disables, ...                      *)
(***************************************************************************)
OnDuty(st) ==
  /\ enabled = TRUE
  /\ \/ st \in Stacks(Edges)
     \/ st = << processNetworkMessage >>
     \/ st # <<>> /\ st[1] \in Frames(WorkOps(MachineCalls)) /\ Tail(st) \in Stacks(Edges)

\* ... one that is being disabled, its session still to be stopped or not, ...
Leaving(st) ==
  /\ enabled = TRUE /\ st # <<>>
  /\ \/ Remains(st[1], 1) /\ Tail(st) \in Stacks(Edges)
     \/ Remains(st[1], 2) /\ Tail(st) \in Stacks(Edges) /\ state # "CHARGING"
     \/ /\ st[1] \in Frames(WorkOps({"stop"})) /\ (state = "CHARGING" => Closing(st[1]))
        /\ Tail(st) # <<>> /\ Remains(Tail(st)[1], 2) /\ Tail(Tail(st)) \in Stacks(Edges)

\* ... one that is disabled and has its relay still to be switched off, ...
Darkens(st) ==
  /\ enabled = FALSE /\ state # "CHARGING" /\ st # <<>> /\ Tail(st) \in Stacks(Edges)
  /\ Remains(st[1], 3) \/ (Remains(st[1], 4) /\ line = FALSE)

\* ... and one that is dead, until a handler enables it.
DeadBox == enabled = FALSE /\ flag = FALSE /\ line = FALSE /\ state # "CHARGING"

OffDuty(st) ==
  /\ DeadBox
  /\ \/ Harmless(st, message.enable)
     \/ st = << processNetworkMessage >>
     \/ /\ st # <<>> /\ st[1] \in Frames(WorkOps(MachineCalls)) /\ st[1][1].at = "able"
        /\ Tail(st) \in Stacks(Edges)

Phase(st) == OnDuty(st) \/ Leaving(st) \/ Darkens(st) \/ OffDuty(st)

\* No handler starts while another runs.
Alone == \A t, u \in Thread : stack[t] # <<>> /\ stack[u] # <<>> => t = u

SerialInv ==
  /\ Alone
  /\ \A t \in Thread : stack[t] # <<>> => Paired(stack[t], flag, line) /\ Phase(stack[t])
  /\ Quiet => Paired(<<>>, flag, line) /\ Phase(<<>>)

\* What procedures return to is harmless on a disabled box.
LEMMA EdgesSafe ==
  ASSUME NEW e
  PROVE  Stacks(Edges) \subseteq Stacks(Safe(e)) /\ Stacks(Edges) \subseteq Stacks(Good)
<1>1. Edges \subseteq Safe(e) /\ Edges \subseteq Good
  BY DEF Edges, Safe
<1>2. QED
  BY <1>1, FramesGrow

\* The procedures of an enabled box as frames.
LEMMA WorkFrames ==
  /\ \A h \in Handlers \ {"disable"} : frame(h) \in Frames(WorkOps(MachineCalls))
  /\ frame("stop") \in Frames(WorkOps({"stop"}))
  /\ frame("enable")[1].at = "able"
<1>1. \A C \in SUBSET MachineCalls : \A f \in Frames(WorkOps(C)) : \A g \in Frames(WorkOps(C)) :
        f \o g \in Frames(WorkOps(C))
  BY Joined DEF Frames
<1> DEFINE M == Frames(WorkOps(MachineCalls))
           T == Frames(WorkOps({"stop"}))
<1>2. MachineCalls \in SUBSET MachineCalls /\ {"stop"} \in SUBSET MachineCalls
  BY DEF MachineCalls
<1>3. /\ guarded("start") \in M /\ guarded("stop") \in M /\ guarded("pause") \in M
      /\ guarded("resume") \in M /\ setRelayState(TRUE) \in M /\ setRelayState(FALSE) \in M
      /\ << op("leds") >> \in M /\ << switch("able", TRUE) >> \in M
  BY <1>2, WorkParts DEF MachineCalls
<1>4. guarded("stop") \in T /\ setRelayState(FALSE) \in T
  BY <1>2, WorkParts
<1>5. \A f \in M : \A g \in M : f \o g \in M
  BY <1>1, <1>2
<1>6. \A f \in T : \A g \in T : f \o g \in T
  BY <1>1, <1>2
<1> HIDE DEF M, T
<1>7. frame("stop") \in T
  BY <1>4, <1>6 DEF frame
<1>8. /\ frame("start") \in M /\ frame("stop") \in M
      /\ frame("pause") \in M /\ frame("resume") \in M
  BY <1>3, <1>5 DEF frame
<1>9. << switch("able", TRUE) >> \o setRelayState(TRUE) \in M
  BY <1>3, <1>5
<1>10. frame("enable") \in M
  BY <1>3, <1>5, <1>9 DEF frame
<1>11. frame("enable")[1].at = "able"
  <2> DEFINE W == WorkOps(MachineCalls)
             a == << switch("able", TRUE) >>
             r == setRelayState(TRUE)
             c == << op("leds") >>
             b == a \o r
  <2>1. a \in Frames(W) /\ b \in Frames(W) /\ r \in Seq(W) /\ c \in Seq(W)
    BY <1>3, <1>9 DEF M, Frames
  <2>2. a[1].at = "able"
    BY DEF switch, op
  <2>3. frame("enable") = b \o c
    BY DEF frame
  <2> HIDE DEF a, r, c, W
  <2>4. ASSUME NEW f \in Frames(W), NEW g \in Seq(W)
        PROVE  (f \o g)[1] = f[1]
    BY FirstOf DEF Frames
  <2>5. b[1] = a[1]
    BY <2>1, <2>4
  <2> HIDE DEF b
  <2>6. (b \o c)[1] = b[1]
    BY <2>1, <2>4
  <2>7. QED
    BY <2>2, <2>3, <2>5, <2>6
<1>12. QED
  BY <1>7, <1>8, <1>10, <1>11 DEF M, T, Handlers

\* A stop that is called in a session will end it.
LEMMA StopCloses == Closing(frame("stop"))
<1> DEFINE a == guarded("stop")
           b == setRelayState(FALSE)
           f == a \o b
<1>1. a \in Seq(Good) /\ b \in Seq(Good)
  <2>1. a \in Frames(Good)
    BY Guarding, FramesGrow DEF MachineCalls, Plain
  <2>2. QED
    BY <2>1, SwitchOff DEF Frames
<1>2. /\ Len(a) = 2 /\ Len(b) = 2 /\ a[1].at = "guard" /\ a[2].at = "enter" /\ a[2].call = "stop"
  BY DEF guarded, setRelayState, machine, op
<1>3. frame("stop") = f
  BY DEF frame
<1> HIDE DEF a, b
<1>4. /\ Len(f) = Len(a) + Len(b)
      /\ \A i \in 1..Len(a) + Len(b) : f[i] = IF i <= Len(a) THEN a[i] ELSE b[i - Len(a)]
  BY <1>1, ConcatProperties
<1> HIDE DEF f
<1>5. Len(f) = 4 /\ f[1] = a[1] /\ f[2] = a[2]
  BY <1>2, <1>4
<1>6. QED
  BY <1>2, <1>3, <1>5 DEF Closing

\* A procedure is entered on top of what it returns to.
LEMMA Entered ==
  ASSUME NEW t, Past(t) \in Stacks(Edges), NEW g \in Frames(Good)
  PROVE  Into(t, g) # <<>> /\ Into(t, g)[1] = g /\ Tail(Into(t, g)) = Past(t)
<1>1. Past(t) \in Stacks(Good)
  BY EdgesSafe
<1>2. QED
  BY <1>1, Topped DEF Into

\* What is left of a message after its first edge.
LEMMA MessageOn ==
  ASSUME NEW t, stack[t] = << processNetworkMessage >>
  PROVE  /\ Top(t).at = "enableEdge" /\ Past(t) \in Stacks(Edges)
         /\ stack[t] \in Stacks(Good)
<1> DEFINE f == processNetworkMessage
           r == Tail(f)
<1>1. Len(f) = 4 /\ f # <<>> /\ f[1].at = "enableEdge"
      /\ \A i \in 2..4 : f[i].at \in {"stateEdge", "contactorEdge", "save"}
  BY DEF processNetworkMessage, op
<1>2. f \in Seq(Good) /\ f \in Frames(Good)
  <2>1. f \in Frames(Good)
    BY HandlerFrames, FramesGrow DEF Plain
  <2>2. QED
    BY <2>1 DEF Frames
<1> HIDE DEF f
<1>3. r \in Seq(Good) /\ Len(r) = 3 /\ \A i \in 1..3 : r[i] = f[i + 1]
  BY <1>1, <1>2, HeadTailProperties
<1>4. \A i \in 1..3 : r[i] \in Good /\ r[i].at \in {"stateEdge", "contactorEdge", "save"}
  <2> TAKE i \in 1..3
  <2>1. r[i] \in Good
    BY <1>3, ElementOfSeq
  <2>2. i + 1 \in 2..4
    OBVIOUS
  <2>3. QED
    BY <1>1, <1>3, <2>1, <2>2
<1> HIDE DEF r
<1>5. r \in Frames(Edges)
  <2>1. r \in [1..Len(r) -> Good] /\ Len(r) \in Nat
    BY <1>3, LenProperties
  <2>2. r \in [1..Len(r) -> Edges]
    BY <1>3, <1>4, <2>1 DEF Edges
  <2>3. r \in Seq(Edges)
    BY <2>1, <2>2, SeqDef
  <2>4. r # <<>>
    BY <1>3, EmptySeq
  <2>5. QED
    BY <2>3, <2>4 DEF Frames
<1>6. stack[t][1] = f /\ Tail(stack[t]) = <<>>
  BY DEF f
<1>7. Past(t) = << r >> \o <<>>
  <2>1. Len(stack[t][1]) # 1
    BY <1>1, <1>6
  <2>2. Past(t) = << Tail(stack[t][1]) >> \o Tail(stack[t])
    BY <2>1 DEF Past
  <2>3. QED
    BY <1>6, <2>2 DEF r
<1>8. <<>> \in Stacks(Edges)
  BY DEF Stacks
<1>9. Past(t) \in Stacks(Edges)
  BY <1>5, <1>7, <1>8, Pushed
<1>10. stack[t] \in Stacks(Good)
  BY <1>2 DEF Stacks, f
<1>11. QED
  BY <1>1, <1>6, <1>9, <1>10 DEF Top

-----------------------------------------------------------------------------
(***************************************************************************)
(* A handler of an enabled box goes on, or begins to disable it.           *)
(***************************************************************************)
LEMMA EdgesStep ==
  ASSUME stack \in [Thread -> Stacks(Good)], message.contactor \in BOOLEAN, NEW t \in Thread,
         Step(t), stack[t] \in Stacks(Edges), enabled = TRUE
  PROVE  OnDuty(stack[t])'
<1> DEFINE W == WorkOps(MachineCalls)
<1>1. stack[t] # <<>> /\ \A st : Moves(t, st) => stack'[t] = st
  BY DEF Step, Is, Guard, StopIfCharging, Able, Line, Flag, Leds, Lit, Enter, Test, CheckSame,
    CheckValid, Write, Notified, EnableEdge, StateEdge, ContactorEdge, IfRelay, Save, Moves
<1>2. Top(t).at \in {"stopIfCharging", "stateEdge", "contactorEdge", "save"}
      /\ Past(t) \in Stacks(Edges)
  BY <1>1, StackStays DEF Edges
<1>3. W \subseteq Good
  BY DEF WorkOps
<1>4. ASSUME NEW g \in Frames(W), Moves(t, Into(t, g))
      PROVE  stack'[t] # <<>> /\ stack'[t][1] \in Frames(W) /\ Tail(stack'[t]) \in Stacks(Edges)
  <2>1. g \in Frames(Good)
    BY <1>3, FramesGrow
  <2>2. Into(t, g) # <<>> /\ Into(t, g)[1] = g /\ Tail(Into(t, g)) = Past(t)
    BY <1>2, <2>1, Entered
  <2>3. stack'[t] = Into(t, g)
    BY <1>1, <1>4
  <2>4. QED
    BY <1>2, <2>2, <2>3
<1>5. Moves(t, Past(t)) => stack'[t] \in Stacks(Edges)
  BY <1>1, <1>2
<1>6. MachineCalls \in SUBSET MachineCalls
  OBVIOUS
<1>7. \A f \in Frames(W) : \A g \in Frames(W) : f \o g \in Frames(W)
  BY Joined DEF Frames
<1> SUFFICES /\ enabled' = enabled
             /\ \/ Moves(t, Past(t))
                \/ \E g \in Frames(W) : Moves(t, Into(t, g))
  BY <1>4, <1>5 DEF OnDuty
<1>8. CASE StopIfCharging(t)
  <2>1. frame("stop") \in Frames(W)
    BY WorkFrames DEF Handlers
  <2>2. QED
    BY <1>8, <2>1 DEF StopIfCharging, members
<1>9. CASE StateEdge(t)
  <2> DEFINE up == << machine("enter", "stop", "none") >>
             go == << switch("ifRelay", TRUE) >> \o guarded("start")
  <2>1. up \in Frames(W)
    BY <1>6, WorkParts DEF MachineCalls
  <2>2. go \in Frames(W)
    <3>1. << switch("ifRelay", TRUE) >> \in Frames(W) /\ guarded("start") \in Frames(W)
      BY <1>6, WorkParts DEF MachineCalls
    <3>2. QED
      BY <1>7, <3>1
  <2> HIDE DEF up, go
  <2>3. /\ Moves(t, Past(t)) \/ Moves(t, Into(t, up)) \/ Moves(t, Into(t, go))
        /\ UNCHANGED <<members, last, message>>
    BY <1>9 DEF StateEdge, up, go
  <2>4. QED
    BY <2>1, <2>2, <2>3 DEF members
<1>10. CASE ContactorEdge(t)
  <2> DEFINE c == message.contactor
             on == (<< op("guard") >> \o << switch("ifRelay", ~c) >>) \o setRelayState(c)
             off == (<<>> \o << switch("ifRelay", ~c) >>) \o setRelayState(c)
  <2>1. /\ c => \/ Moves(t, Past(t)) \/ Moves(t, Into(t, on))
        /\ ~c => \/ Moves(t, Past(t)) \/ Moves(t, Into(t, off))
        /\ UNCHANGED <<members, last, message>>
    BY <1>10 DEF ContactorEdge
  <2>2. << op("guard") >> \in Frames(W) /\ << switch("ifRelay", ~c) >> \in Frames(W)
        /\ setRelayState(c) \in Frames(W)
    <3>1. c \in BOOLEAN /\ (~c) \in BOOLEAN
      OBVIOUS
    <3>2. QED
      BY <1>6, <3>1, WorkParts
  <2>3. on \in Frames(W)
    BY <1>7, <2>2
  <2>4. off \in Frames(W)
    <3>1. <<>> \o << switch("ifRelay", ~c) >> = << switch("ifRelay", ~c) >>
      BY <2>2, ConcatSimplifications DEF Frames
    <3>2. QED
      BY <1>7, <2>2, <3>1
  <2> HIDE DEF c, on, off
  <2>5. QED
    BY <2>1, <2>3, <2>4 DEF members
<1>11. CASE Save(t)
  BY <1>11 DEF Save, members
<1>12. StopIfCharging(t) \/ StateEdge(t) \/ ContactorEdge(t) \/ Save(t)
  BY <1>2 DEF Step, Is, Guard, Able, Line, Flag, Leds, Lit, Enter, Test, CheckSame,
    CheckValid, Write, Notified, EnableEdge, IfRelay
<1>13. QED
  BY <1>8, <1>9, <1>10, <1>11, <1>12

\* The first edge of a message: the box is enabled, disabled, or neither.
LEMMA FirstEdge ==
  ASSUME stack \in [Thread -> Stacks(Good)], NEW t \in Thread, Step(t),
         stack[t] = << processNetworkMessage >>
  PROVE  /\ UNCHANGED <<members, last, message>>
         /\ \/ stack'[t] \in Stacks(Edges)
            \/ /\ stack'[t] # <<>> /\ Tail(stack'[t]) \in Stacks(Edges)
               /\ \/ stack'[t][1] = frame("enable")
                  \/ stack'[t][1] = frame("disable") /\ message.enable # enabled
                     /\ ~message.enable
<1>1. Top(t).at = "enableEdge" /\ Past(t) \in Stacks(Edges)
  BY MessageOn
<1>2. \A st : Moves(t, st) => stack'[t] = st
  BY DEF Moves
<1>3. EnableEdge(t)
  BY <1>1 DEF Step, Is, Guard, StopIfCharging, Able, Line, Flag, Leds, Lit, Enter, Test, CheckSame,
    CheckValid, Write, Notified, StateEdge, ContactorEdge, IfRelay, Save
<1>4. frame("enable") \in Frames(Good) /\ frame("disable") \in Frames(Good)
  <2>1. frame("enable") \in Frames(Plain) /\ frame("disable") \in Frames(Plain)
    BY HandlerFrames DEF Handlers
  <2>2. QED
    BY <2>1, FramesGrow DEF Plain
<1> DEFINE a == frame("enable")
           b == frame("disable")
<1>5. \/ Moves(t, Past(t))
      \/ message.enable /\ Moves(t, Into(t, a))
      \/ ~message.enable /\ message.enable # enabled /\ Moves(t, Into(t, b))
  BY <1>3 DEF EnableEdge
<1> HIDE DEF a, b
<1>6. \A g \in Frames(Good) : Into(t, g) # <<>> /\ Into(t, g)[1] = g /\ Tail(Into(t, g)) = Past(t)
  BY <1>1, Entered
<1>7. CASE Moves(t, Past(t))
  BY <1>1, <1>2, <1>3, <1>7 DEF EnableEdge
<1>8. CASE message.enable /\ Moves(t, Into(t, a))
  BY <1>1, <1>2, <1>3, <1>4, <1>6, <1>8 DEF EnableEdge, a
<1>9. CASE ~message.enable /\ message.enable # enabled /\ Moves(t, Into(t, b))
  BY <1>1, <1>2, <1>3, <1>4, <1>6, <1>9 DEF EnableEdge, b
<1>10. QED
  BY <1>5, <1>7, <1>8, <1>9

\* An enabled box that nobody disables.
LEMMA OnDutyStep ==
  ASSUME ThreadInv, NEW t \in Thread, Step(t), OnDuty(stack[t])
  PROVE  OnDuty(stack[t])' \/ Leaving(stack[t])'
<1>1. stack \in [Thread -> Stacks(Good)] /\ message.contactor \in BOOLEAN /\ enabled = TRUE
  BY SaidFields DEF ThreadInv, Members, OnDuty
<1>2. CASE stack[t] \in Stacks(Edges)
  BY <1>1, <1>2, EdgesStep
<1>3. CASE stack[t] = << processNetworkMessage >>
  <2>1. /\ UNCHANGED <<members, last, message>>
        /\ \/ stack'[t] \in Stacks(Edges)
           \/ /\ stack'[t] # <<>> /\ Tail(stack'[t]) \in Stacks(Edges)
              /\ stack'[t][1] = frame("enable") \/ stack'[t][1] = frame("disable")
    BY <1>1, <1>3, FirstEdge
  <2>2. frame("enable") \in Frames(WorkOps(MachineCalls)) /\ Remains(frame("disable"), 1)
    BY WorkFrames, DisableBegins DEF Handlers
  <2>3. enabled' = TRUE
    BY <1>1, <2>1 DEF members
  <2>4. QED
    BY <2>1, <2>2, <2>3 DEF OnDuty, Leaving
<1>4. CASE /\ stack[t] # <<>> /\ stack[t][1] \in Frames(WorkOps(MachineCalls))
           /\ Tail(stack[t]) \in Stacks(Edges)
  <2>1. enabled' = TRUE /\ GoesOn(stack'[t], WorkOps(MachineCalls), Tail(stack[t]))
    BY <1>1, <1>4, WorkStep
  <2>2. QED
    BY <1>4, <2>1 DEF OnDuty, GoesOn
<1>5. QED
  BY <1>2, <1>3, <1>4 DEF OnDuty

(***************************************************************************)
(* The box is disabled only once its session has been stopped.             *)
(***************************************************************************)
LEMMA LeavingStep ==
  ASSUME ThreadInv, NEW t \in Thread, Step(t), Leaving(stack[t])
  PROVE  Leaving(stack[t])' \/ Darkens(stack[t])'
<1>1. /\ stack \in [Thread -> Stacks(Good)] /\ stack[t] \in Stacks(Good) /\ stack[t] # <<>>
      /\ enabled = TRUE /\ \A st : Moves(t, st) => stack'[t] = st
  BY DEF ThreadInv, Leaving, Moves
<1>2. CASE Remains(stack[t][1], 1) /\ Tail(stack[t]) \in Stacks(Edges)
  <2>1. /\ Top(t) = op("stopIfCharging") /\ Past(t) # <<>> /\ Remains(Past(t)[1], 2)
        /\ Tail(Past(t)) = Tail(stack[t])
    <3>1. 1 \in 1..4 /\ 1 + 1 = 2
      OBVIOUS
    <3>2. QED
      BY <1>1, <1>2, <3>1, DisableGoesOn, DisableOps
  <2>2. StopIfCharging(t)
    BY <2>1 DEF op, Step, Is, Guard, Able, Line, Flag, Leds, Lit, Enter, Test, CheckSame,
      CheckValid, Write, Notified, EnableEdge, StateEdge, ContactorEdge, IfRelay, Save
  <2>3. enabled' = TRUE /\ state' = state
    BY <1>1, <2>2 DEF StopIfCharging, members
  <2>4. CASE state = "CHARGING"
    <3> DEFINE g == frame("stop")
    <3>1. g \in Frames(WorkOps({"stop"})) /\ g \in Frames(Good) /\ Closing(g)
      <4>1. WorkOps({"stop"}) \subseteq Good
        BY DEF WorkOps
      <4>2. QED
        BY <4>1, WorkFrames, FramesGrow, StopCloses
    <3>2. stack'[t] = Into(t, g)
      BY <1>1, <2>2, <2>4 DEF StopIfCharging
    <3> HIDE DEF g
    <3>3. Past(t) \in Stacks(Good)
      BY <1>1, StackStays
    <3>4. Into(t, g) # <<>> /\ Into(t, g)[1] = g /\ Tail(Into(t, g)) = Past(t)
      BY <3>1, <3>3, Topped DEF Into
    <3>5. QED
      BY <1>2, <2>1, <2>3, <3>1, <3>2, <3>4 DEF Leaving
  <2>5. CASE state # "CHARGING"
    <3>1. stack'[t] = Past(t)
      BY <1>1, <2>2, <2>5 DEF StopIfCharging
    <3>2. QED
      BY <1>2, <2>1, <2>3, <2>5, <3>1 DEF Leaving
  <2>6. QED
    BY <2>4, <2>5
<1>3. CASE Remains(stack[t][1], 2) /\ Tail(stack[t]) \in Stacks(Edges) /\ state # "CHARGING"
  <2>1. /\ Top(t) = switch("able", FALSE) /\ Past(t) # <<>> /\ Remains(Past(t)[1], 3)
        /\ Tail(Past(t)) = Tail(stack[t])
    <3>1. 2 \in 1..4 /\ 2 + 1 = 3
      OBVIOUS
    <3>2. QED
      BY <1>1, <1>3, <3>1, DisableGoesOn, DisableOps
  <2>2. Top(t).at = "able" /\ Top(t).on = FALSE
    BY <2>1 DEF switch, op
  <2>3. Able(t)
    BY <2>2 DEF Step, Is, Guard, StopIfCharging, Line, Flag, Leds, Lit, Enter, Test, CheckSame,
      CheckValid, Write, Notified, EnableEdge, StateEdge, ContactorEdge, IfRelay, Save
  <2>4. enabled' = FALSE /\ state' = state /\ stack'[t] = Past(t)
    BY <1>1, <2>2, <2>3 DEF Able
  <2>5. QED
    BY <1>3, <2>1, <2>4 DEF Darkens
<1>4. CASE /\ stack[t][1] \in Frames(WorkOps({"stop"}))
           /\ (state = "CHARGING" => Closing(stack[t][1]))
           /\ Tail(stack[t]) # <<>> /\ Remains(Tail(stack[t])[1], 2)
           /\ Tail(Tail(stack[t])) \in Stacks(Edges)
  <2> DEFINE below == Tail(stack[t])
  <2>1. enabled' = TRUE /\ GoesOn(stack'[t], WorkOps({"stop"}), below)
    <3>1. {"stop"} \in SUBSET MachineCalls
      BY DEF MachineCalls
    <3>2. QED
      BY <1>1, <1>4, <3>1, WorkStep
  <2>2. \/ state' # "CHARGING"
        \/ stack'[t] # <<>> /\ Closing(stack'[t][1]) /\ Tail(stack'[t]) = below
    BY <1>1, <1>4, ClosingStep, StopWrites
  <2>3. below \in Seq(Frames(Good))
    BY <1>1, OnTop DEF Stacks
  <2> HIDE DEF below
  <2>4. CASE stack'[t] = below
    <3>1. state' # "CHARGING"
      BY <2>2, <2>3, <2>4, Above
    <3>2. QED
      BY <1>4, <2>1, <2>4, <3>1 DEF Leaving, below
  <2>5. CASE /\ stack'[t] # <<>> /\ stack'[t][1] \in Frames(WorkOps({"stop"}))
             /\ Tail(stack'[t]) = below
    BY <1>4, <2>1, <2>2, <2>5 DEF Leaving, below
  <2>6. QED
    BY <2>1, <2>4, <2>5 DEF GoesOn
<1>5. QED
  BY <1>2, <1>3, <1>4 DEF Leaving

(***************************************************************************)
(* Once it is disabled its relay is switched off, and the box is dead.     *)
(***************************************************************************)
LEMMA DarkensStep ==
  ASSUME ThreadInv, NEW t \in Thread, Step(t), Darkens(stack[t])
  PROVE  Darkens(stack[t])' \/ OffDuty(stack[t])'
<1>1. /\ stack[t] \in Stacks(Good) /\ stack[t] # <<>> /\ Tail(stack[t]) \in Stacks(Edges)
      /\ enabled = FALSE /\ state # "CHARGING" /\ \A st : Moves(t, st) => stack'[t] = st
  BY DEF ThreadInv, Darkens, Moves
<1>2. CASE Remains(stack[t][1], 3)
  <2>1. /\ Top(t) = switch("line", FALSE) /\ Past(t) # <<>> /\ Remains(Past(t)[1], 4)
        /\ Tail(Past(t)) = Tail(stack[t])
    <3>1. 3 \in 1..4 /\ 3 + 1 = 4
      OBVIOUS
    <3>2. QED
      BY <1>1, <1>2, <3>1, DisableGoesOn, DisableOps
  <2>2. Top(t).at = "line" /\ Top(t).on = FALSE
    BY <2>1 DEF switch, op
  <2>3. Line(t)
    BY <2>2 DEF Step, Is, Guard, StopIfCharging, Able, Flag, Leds, Lit, Enter, Test, CheckSame,
      CheckValid, Write, Notified, EnableEdge, StateEdge, ContactorEdge, IfRelay, Save
  <2>4. line' = FALSE /\ enabled' = FALSE /\ state' = state /\ stack'[t] = Past(t)
    BY <1>1, <2>2, <2>3 DEF Line
  <2>5. QED
    BY <1>1, <2>1, <2>4 DEF Darkens
<1>3. CASE Remains(stack[t][1], 4) /\ line = FALSE
  <2>1. /\ Top(t) = switch("flag", FALSE) /\ Past(t) # <<>> /\ Remains(Past(t)[1], 5)
        /\ Tail(Past(t)) = Tail(stack[t])
    <3>1. 4 \in 1..4 /\ 4 + 1 = 5
      OBVIOUS
    <3>2. QED
      BY <1>1, <1>3, <3>1, DisableGoesOn, DisableOps
  <2>2. Top(t).at = "flag" /\ Top(t).on = FALSE
    BY <2>1 DEF switch, op
  <2>3. Flag(t)
    BY <2>2 DEF Step, Is, Guard, StopIfCharging, Able, Line, Leds, Lit, Enter, Test, CheckSame,
      CheckValid, Write, Notified, EnableEdge, StateEdge, ContactorEdge, IfRelay, Save
  <2>4. /\ flag' = FALSE /\ line' = FALSE /\ enabled' = FALSE /\ state' = state
        /\ message' = message /\ stack'[t] = Past(t)
    BY <1>1, <1>3, <2>2, <2>3 DEF Flag
  <2> DEFINE e == message.enable
             S == Safe(e)
  <2>5. Past(t)[1] \in Frames(S)
    BY <2>1, DisableEnds
  <2>6. Tail(stack[t]) \in Stacks(S)
    BY <1>1, EdgesSafe
  <2>7. Past(t) \in Stacks(S)
    <3>1. Past(t) \in Seq(Frames(Good))
      BY <1>1, StackStays DEF Stacks
    <3> DEFINE p == Past(t)
    <3>2. p \in Seq(Frames(Good)) /\ p # <<>> /\ p[1] \in Frames(S) /\ Tail(p) \in Stacks(S)
      BY <2>1, <2>5, <2>6, <3>1
    <3> HIDE DEF p, S
    <3>3. p = << Head(p) >> \o Tail(p) /\ Head(p) = p[1]
      BY <3>2, HeadTailProperties
    <3>4. p \in Stacks(S)
      BY <3>2, <3>3, Pushed
    <3>5. QED
      BY <3>4 DEF p
  <2>8. Harmless(Past(t), e)
    BY <2>7 DEF Harmless
  <2>9. QED
    BY <1>1, <2>4, <2>8 DEF OffDuty, DeadBox
<1>4. QED
  BY <1>1, <1>2, <1>3 DEF Darkens

(***************************************************************************)
(* A dead box stays dead, or it is enabled.                                *)
(***************************************************************************)
LEMMA OffDutyStep ==
  ASSUME ThreadInv, Alone, NEW t \in Thread, Step(t), OffDuty(stack[t])
  PROVE  OffDuty(stack[t])' \/ OnDuty(stack[t])'
<1>1. /\ stack \in [Thread -> Stacks(Good)] /\ message.contactor \in BOOLEAN
      /\ enabled = FALSE /\ flag = FALSE /\ line = FALSE /\ state # "CHARGING"
      /\ stack[t] # <<>>
  <2>1. stack[t] # <<>>
    BY DEF Step, Is, Guard, StopIfCharging, Able, Line, Flag, Leds, Lit, Enter, Test, CheckSame,
      CheckValid, Write, Notified, EnableEdge, StateEdge, ContactorEdge, IfRelay, Save
  <2>2. QED
    BY <2>1, SaidFields DEF ThreadInv, Members, OffDuty, DeadBox
<1>2. CASE Harmless(stack[t], message.enable)
  <2> DEFINE e == message.enable
  <2>1. DeadInv
    <3>1. <<>> \in Stacks(Safe(e))
      BY DEF Stacks
    <3>2. \A u \in Thread : u # t => stack[u] = <<>>
      BY <1>1 DEF Alone
    <3>3. \A u \in Thread : Harmless(stack[u], e)
      BY <1>2, <3>1, <3>2 DEF Harmless
    <3>4. QED
      BY <1>1, <3>3 DEF DeadInv
  <2>2. /\ enabled' = FALSE /\ flag' = FALSE /\ line' = FALSE /\ state' # "CHARGING"
        /\ message' = message
        /\ \E st : stack' = [stack EXCEPT ![t] = st] /\ Harmless(st, message.enable)
    <3>1. CASE stack[t] \in Stacks(Safe(message.enable))
      BY <1>1, <2>1, <3>1, SafeStep
    <3>2. CASE stack[t] \notin Stacks(Safe(message.enable))
      <4>1. /\ stack[t] # <<>> /\ Fails(stack[t][1][1])
            /\ Tail(stack[t]) \in Stacks(Safe(message.enable))
        BY <1>2, <3>2 DEF Harmless
      <4>2. UNCHANGED <<members, last, message>>
        BY <2>1, <4>1, FailingStep
      <4>3. \E st : stack' = [stack EXCEPT ![t] = st] /\ Harmless(st, message.enable)
        BY <2>1, <4>1, FailingStep
      <4>4. QED
        BY <1>1, <4>2, <4>3 DEF members
    <3>3. QED
      BY <3>1, <3>2
  <2>3. Harmless(stack'[t], message'.enable)
    BY <1>1, <2>2
  <2>4. QED
    BY <2>2, <2>3 DEF OffDuty, DeadBox
<1>3. CASE stack[t] = << processNetworkMessage >>
  <2>1. /\ UNCHANGED <<members, last, message>>
        /\ \/ stack'[t] \in Stacks(Edges)
           \/ /\ stack'[t] # <<>> /\ Tail(stack'[t]) \in Stacks(Edges)
              /\ stack'[t][1] = frame("enable")
    <3>1. ~message.enable /\ message.enable # enabled => FALSE
      <4>1. message.enable \in BOOLEAN
        <5>1. \A m \in Messages : m.enable \in BOOLEAN
          BY JobsAssumption
        <5>2. FirstLast.enable \in BOOLEAN
          BY DEF FirstLast
        <5>3. \A m \in [state : {"idle", "ready", "stop"}, contactor : BOOLEAN, enable : BOOLEAN] :
                m.enable \in BOOLEAN
          OBVIOUS
        <5>4. QED
          BY <5>1, <5>2, <5>3 DEF ThreadInv, Members, Said
      <4>2. QED
        BY <1>1, <4>1
    <3>2. QED
      BY <1>1, <1>3, <3>1, FirstEdge
  <2>2. DeadBox'
    BY <1>1, <2>1 DEF members, DeadBox
  <2>3. CASE stack'[t] \in Stacks(Edges)
    <3>1. stack'[t] \in Stacks(Safe(message'.enable))
      BY <2>3, EdgesSafe
    <3>2. QED
      BY <2>2, <3>1 DEF OffDuty, Harmless
  <2>4. CASE /\ stack'[t] # <<>> /\ Tail(stack'[t]) \in Stacks(Edges)
             /\ stack'[t][1] = frame("enable")
    <3>1. frame("enable") \in Frames(WorkOps(MachineCalls)) /\ frame("enable")[1].at = "able"
      BY WorkFrames DEF Handlers
    <3>2. QED
      BY <2>2, <2>4, <3>1 DEF OffDuty
  <2>5. QED
    BY <2>1, <2>3, <2>4
<1>4. CASE /\ stack[t][1] \in Frames(WorkOps(MachineCalls)) /\ stack[t][1][1].at = "able"
           /\ Tail(stack[t]) \in Stacks(Edges)
  <2>1. enabled' = TRUE /\ GoesOn(stack'[t], WorkOps(MachineCalls), Tail(stack[t]))
    BY <1>1, <1>4, WorkStep DEF Top
  <2>2. QED
    BY <1>4, <2>1 DEF OnDuty, GoesOn
<1>5. QED
  BY <1>2, <1>3, <1>4 DEF OffDuty

(***************************************************************************)
(* A handler begins on a box at rest.                                      *)
(***************************************************************************)
LEMMA PhaseBegins ==
  ASSUME Overlap = FALSE, ThreadInv, SerialInv, Beginning
  PROVE  /\ Quiet /\ UNCHANGED members
         /\ \E t \in Thread : \E f \in Even :
              /\ stack' = [stack EXCEPT ![t] = << f >>]
              /\ OnDuty(<< f >>)' \/ Leaving(<< f >>)' \/ OffDuty(<< f >>)'
<1>1. \A t \in Thread : \A f : Begins(t, f) => Quiet /\ stack' = [stack EXCEPT ![t] = << f >>]
  BY DEF Begins, Moves
<1>2. Quiet => enabled = TRUE \/ DeadBox
  BY DEF SerialInv, Phase, OnDuty, Leaving, Darkens, OffDuty
<1>3. UNCHANGED members => (DeadBox' <=> DeadBox)
  BY DEF members, DeadBox
<1>4. <<>> \in Stacks(Edges) /\ \A e : <<>> \in Stacks(Safe(e))
  BY DEF Stacks
<1>5. \A f : << f >> # <<>> /\ << f >>[1] = f /\ Tail(<< f >>) = <<>>
  OBVIOUS
<1>6. ASSUME NEW t \in User, NEW h \in UserCalls, Call(t, h)
      PROVE  /\ Quiet /\ UNCHANGED members
             /\ stack' = [stack EXCEPT ![t] = << frame(h) >>]
             /\ frame(h) \in Even
             /\ OnDuty(<< frame(h) >>)' \/ Leaving(<< frame(h) >>)' \/ OffDuty(<< frame(h) >>)'
  <2>1. h \in Handlers /\ t \in Thread
    BY JobsAssumption DEF Thread
  <2>2. frame(h) \in Even /\ Begins(t, frame(h)) /\ UNCHANGED <<members, last, message>>
    BY <1>6, <2>1, EvenHandlers DEF Call
  <2>3. Quiet /\ stack' = [stack EXCEPT ![t] = << frame(h) >>]
    BY <1>1, <2>1, <2>2
  <2> DEFINE f == frame(h)
  <2>4. h # "disable" => f \in Frames(WorkOps(MachineCalls))
    BY <2>1, WorkFrames
  <2>5. h = "disable" => Remains(f, 1)
    BY DisableBegins
  <2>6. h = "enable" => f[1].at = "able"
    BY WorkFrames
  <2>7. h # "enable" => Tame(f, message'.enable)
    BY <2>1, HandlersTame
  <2> HIDE DEF f
  <2>8. CASE enabled = TRUE
    <3>1. enabled' = TRUE
      BY <2>2, <2>8 DEF members
    <3>2. OnDuty(<< f >>)' \/ Leaving(<< f >>)'
      BY <1>4, <1>5, <2>4, <2>5, <3>1 DEF OnDuty, Leaving
    <3>3. QED
      BY <2>2, <2>3, <3>2 DEF f
  <2>9. CASE DeadBox
    <3>1. DeadBox'
      BY <1>3, <2>2, <2>9
    <3>2. CASE h = "enable"
      <4>1. OffDuty(<< f >>)'
        BY <1>4, <1>5, <2>4, <2>6, <3>1, <3>2 DEF OffDuty
      <4>2. QED
        BY <2>2, <2>3, <4>1 DEF f
    <3>3. CASE h # "enable"
      <4>1. Harmless(<< f >>, message'.enable)
        BY <1>4, <1>5, <2>7, <3>3 DEF Tame, Harmless, Stacks
      <4>2. OffDuty(<< f >>)'
        BY <3>1, <4>1 DEF OffDuty
      <4>3. QED
        BY <2>2, <2>3, <4>2 DEF f
    <3>4. QED
      BY <3>2, <3>3
  <2>10. QED
    BY <1>2, <2>3, <2>8, <2>9
<1>7. ASSUME NEW t \in Receiver, Receive(t)
      PROVE  /\ Quiet /\ UNCHANGED members
             /\ stack' = [stack EXCEPT ![t] = << processNetworkMessage >>]
             /\ processNetworkMessage \in Even
             /\ OnDuty(<< processNetworkMessage >>)' \/ OffDuty(<< processNetworkMessage >>)'
  <2>1. /\ processNetworkMessage \in Even /\ Begins(t, processNetworkMessage)
        /\ UNCHANGED members /\ t \in Thread
    BY <1>7, EvenHandlers DEF Receive, Thread
  <2>2. Quiet /\ stack' = [stack EXCEPT ![t] = << processNetworkMessage >>]
    BY <1>1, <2>1
  <2>3. enabled' = TRUE \/ DeadBox'
    BY <1>2, <1>3, <2>1, <2>2 DEF members
  <2>4. QED
    BY <2>1, <2>2, <2>3 DEF OnDuty, OffDuty
<1>8. ASSUME NEW t \in Monitor, Unplug(t)
      PROVE  /\ Quiet /\ UNCHANGED members
             /\ stack' = [stack EXCEPT ![t] = << << op("stopIfCharging") >> >>]
             /\ << op("stopIfCharging") >> \in Even
             /\ OnDuty(<< << op("stopIfCharging") >> >>)' \/ OffDuty(<< << op("stopIfCharging") >> >>)'
  <2> DEFINE f == << op("stopIfCharging") >>
  <2>1. Begins(t, f) /\ UNCHANGED members /\ t \in Thread
    BY <1>8 DEF Unplug, Thread
  <2>2. f \in Even
    BY EvenParts DEF Label, WorkLabels
  <2>3. op("stopIfCharging") \in Edges
    BY PlainOps DEF Edges, Plain, Label, WorkLabels, op
  <2>4. f \in Frames(Edges)
    BY <2>3, Singles
  <2> HIDE DEF f
  <2>5. << f >> \in Stacks(Edges)
    BY <2>4 DEF Stacks
  <2>6. << f >> \in Stacks(Safe(message'.enable))
    BY <2>5, EdgesSafe
  <2>7. Quiet /\ stack' = [stack EXCEPT ![t] = << f >>]
    BY <1>1, <2>1
  <2>8. enabled' = TRUE \/ DeadBox'
    BY <1>2, <1>3, <2>1, <2>7 DEF members
  <2>9. OnDuty(<< f >>)' \/ OffDuty(<< f >>)'
    BY <2>5, <2>6, <2>8 DEF OnDuty, OffDuty, Harmless
  <2>10. QED
    BY <2>1, <2>2, <2>7, <2>9 DEF f
<1> DEFINE Starts(t, f) ==
             /\ Quiet /\ UNCHANGED members /\ stack' = [stack EXCEPT ![t] = << f >>]
             /\ f \in Even /\ (OnDuty(<< f >>)' \/ Leaving(<< f >>)' \/ OffDuty(<< f >>)')
<1>9. \A t \in User : \A h \in UserCalls : Call(t, h) => Starts(t, frame(h))
  BY <1>6
<1>10. \A t \in Receiver : Receive(t) => Starts(t, processNetworkMessage)
  BY <1>7
<1>11. \A t \in Monitor : Unplug(t) => Starts(t, << op("stopIfCharging") >>)
  BY <1>8
<1>12. ASSUME NEW t \in Thread, NEW f, Starts(t, f)
       PROVE  /\ Quiet /\ UNCHANGED members
              /\ \E u \in Thread : \E g \in Even :
                   /\ stack' = [stack EXCEPT ![u] = << g >>]
                   /\ OnDuty(<< g >>)' \/ Leaving(<< g >>)' \/ OffDuty(<< g >>)'
  BY <1>12
<1> HIDE DEF Starts
<1>13. \E t \in Thread : \E f : Starts(t, f)
  BY <1>9, <1>10, <1>11 DEF Beginning, Thread
<1>14. QED
  BY <1>12, <1>13

-----------------------------------------------------------------------------
\* What one thread does leaves the others where they were.
LEMMA OneThread ==
  ASSUME ThreadInv, Alone, NEW t \in Thread, NEW st, stack' = [stack EXCEPT ![t] = st],
         stack[t] # <<>> \/ Quiet, Paired(st, flag', line'), Phase(stack[t])', stack'[t] = st
  PROVE  SerialInv'
<1>1. stack \in [Thread -> Stacks(Good)]
  BY DEF ThreadInv
<1>2. \A u \in Thread : u # t => stack'[u] = <<>>
  BY <1>1 DEF Alone, Quiet
<1>3. Alone'
  BY <1>2 DEF Alone
<1>4. \A u \in Thread : stack'[u] # <<>> => Paired(stack'[u], flag', line') /\ Phase(stack[u])'
  BY <1>2
<1>5. Quiet' => Paired(<<>>, flag', line') /\ Phase(<<>>)'
  <2>1. Quiet' => st = <<>>
    BY DEF Quiet
  <2>2. st = <<>> /\ Phase(stack[t])' => Phase(<<>>)'
    BY DEF Phase, OnDuty, Leaving, Darkens, OffDuty
  <2>3. QED
    BY <2>1, <2>2
<1>6. QED
  BY <1>3, <1>4, <1>5 DEF SerialInv

\* The box at first: enabled, at rest.
LEMMA SerialInvInit == Init => SerialInv
<1> SUFFICES ASSUME Init
             PROVE  SerialInv
  OBVIOUS
<1>1. enabled = TRUE /\ flag = line /\ \A t \in Thread : stack[t] = <<>>
  BY DEF Init
<1>2. <<>> \in Stacks(Edges)
  BY DEF Stacks
<1>3. OnDuty(<<>>) /\ Paired(<<>>, flag, line)
  BY <1>1, <1>2 DEF OnDuty, Paired
<1>4. QED
  BY <1>1, <1>3 DEF SerialInv, Alone, Phase

\* Every step of a handler, and every beginning of one, keeps the invariant.
LEMMA SerialInvStep ==
  ASSUME Overlap = FALSE, ThreadInv, SerialInv, [Next]_vars
  PROVE  SerialInv'
<1>1. CASE Beginning
  <2>1. PICK t \in Thread : \E f \in Even :
              /\ stack' = [stack EXCEPT ![t] = << f >>]
              /\ OnDuty(<< f >>)' \/ Leaving(<< f >>)' \/ OffDuty(<< f >>)'
    BY <1>1, PhaseBegins
  <2>2. PICK f \in Even :
              /\ stack' = [stack EXCEPT ![t] = << f >>]
              /\ OnDuty(<< f >>)' \/ Leaving(<< f >>)' \/ OffDuty(<< f >>)'
    BY <2>1
  <2>3. Quiet /\ UNCHANGED members
    BY <1>1, PhaseBegins
  <2>4. flag' = line'
    BY <2>3 DEF SerialInv, Paired, members
  <2>5. << f >> \in Seq(Even)
    OBVIOUS
  <2>6. Paired(<< f >>, flag', line')
    BY <2>4, <2>5, EvenStack
  <2>7. stack'[t] = << f >>
    BY <2>2 DEF ThreadInv
  <2>8. Phase(stack[t])'
    BY <2>2, <2>7 DEF Phase, OnDuty, Leaving, OffDuty
  <2>9. QED
    BY <2>2, <2>3, <2>6, <2>7, <2>8, OneThread DEF SerialInv
<1>2. ASSUME NEW t \in Thread, Step(t)
      PROVE  SerialInv'
  <2>1. stack[t] # <<>>
    BY <1>2 DEF Step, Is, Guard, StopIfCharging, Able, Line, Flag, Leds, Lit, Enter, Test,
      CheckSame, CheckValid, Write, Notified, EnableEdge, StateEdge, ContactorEdge, IfRelay, Save
  <2>2. Paired(stack[t], flag, line) /\ Phase(stack[t]) /\ Alone
    BY <2>1 DEF SerialInv
  <2>3. Paired(stack'[t], flag', line')
    BY <1>2, <2>2, PairedStep
  <2>4. Phase(stack[t])'
    <3>1. CASE OnDuty(stack[t])
      BY <1>2, <3>1, OnDutyStep DEF Phase
    <3>2. CASE Leaving(stack[t])
      BY <1>2, <3>2, LeavingStep DEF Phase
    <3>3. CASE Darkens(stack[t])
      BY <1>2, <3>3, DarkensStep DEF Phase
    <3>4. CASE OffDuty(stack[t])
      BY <1>2, <2>2, <3>4, OffDutyStep DEF Phase
    <3>5. QED
      BY <2>2, <3>1, <3>2, <3>3, <3>4 DEF Phase
  <2>5. stack' = [stack EXCEPT ![t] = stack'[t]]
    <3>1. \E st : stack' = [stack EXCEPT ![t] = st]
      BY <1>2, ShapeOfStep
    <3>2. QED
      BY <3>1 DEF ThreadInv
  <2>6. QED
    BY <2>1, <2>2, <2>3, <2>4, <2>5, OneThread
<1>3. CASE UNCHANGED vars
  BY <1>3 DEF vars, SerialInv, Alone, Quiet, Phase, OnDuty, Leaving, Darkens, OffDuty, DeadBox
<1>4. QED
  BY <1>1, <1>2, <1>3 DEF Next, Beginning

(***************************************************************************)
(* As long as handlers do not overlap, a box that has been disabled has no *)
(* power and no session as soon as no handler runs, and the relay it       *)
(* reports is the one it has switched.                                     *)
(***************************************************************************)
THEOREM DisabledBoxRests ==
  ASSUME Overlap = FALSE
  PROVE  AtomicSpec => []SerialDisabledRests
<1>1. Init => ThreadInv /\ SerialInv
  BY ThreadInvInit, SerialInvInit
<1>2. ThreadInv /\ [Next]_vars => ThreadInv'
  BY ThreadInvStep
<1>3. ThreadInv /\ SerialInv /\ [Next]_vars => SerialInv'
  BY SerialInvStep
<1>4. SerialInv => SerialDisabledRests
  <2> SUFFICES ASSUME SerialInv, Quiet
               PROVE  flag = line /\ (~enabled => ~line /\ state # "CHARGING")
    BY DEF SerialDisabledRests, DisabledRests, FlagRests
  <2>1. Paired(<<>>, flag, line) /\ Phase(<<>>)
    BY DEF SerialInv
  <2>2. QED
    BY <2>1 DEF Paired, Phase, OnDuty, Leaving, Darkens, OffDuty, DeadBox
<1>5. AtomicInit => Init
  BY DEF AtomicInit
<1>6. [AtomicNext]_<<vars, settled, sent>> => [Next]_vars
  BY DEF AtomicNext
<1>7. QED
  BY <1>1, <1>2, <1>3, <1>4, <1>5, <1>6, PTL DEF AtomicSpec
=============================================================================
