--------------------------- MODULE LifecycleProofs ---------------------------
(***************************************************************************)
(* What holds of every life of the program, from any set-up, with any      *)
(* messages, levels, calls and clients: the handlers are those             *)
(* WallboxControllerProofs has lemmas about, run here by threads that the  *)
(* main thread starts and takes down.                                      *)
(***************************************************************************)
EXTENDS Lifecycle, WallboxControllerProofs

Listens == udp.at \in {"test", "handle"}

Monitors == mon \in {"test", "notify"}

Accepts == acceptor \in {"test", "accept", "blocked"}

\* The places of the main thread from one of shutdown's steps on.
FromNetStop == {"netStop", "netJoin", "closeNet"}
FromReaderOff == {"readerOff", "stopCharging", "relayOff"} \cup FromNetStop
FromMonStop == {"monStop", "monJoin"} \cup FromReaderOff

(***************************************************************************)
(* Which threads may be there at which place of the main thread, and what  *)
(* they need: a join that is skipped finds its flag cleared, and then the  *)
(* thread is gone.                                                         *)
(***************************************************************************)
ThreadsInv ==
  /\ main \in {"gpio", "connect", "receive"} => udp.at = "none"
  /\ Listens \/ main = "receive" => net.open
  /\ main = "closeNet" => ~Listens
  /\ main \in {"gpio", "connect", "receive", "reader", "monitor"} => mon = "none"
  /\ Monitors \/ main = "monitor" => reader.initialized
  /\ Monitors => reader.monitoring \/ main = "monJoin"
  /\ main \in FromReaderOff => ~Monitors
  /\ main \in Starting \ {"ready"} => acceptor = "none"
  /\ Accepts => server \/ main = "httpJoin"
  /\ main \in FromMonStop => ~Accepts
  /\ process = "stopped" => ~Listens /\ ~Monitors /\ ~Accepts

\* A program without a server.
Consoles == setup.mode \in {"interactive", "v2"}

(***************************************************************************)
(* The controller's second shutdown finds no thread left, and no detached  *)
(* one where there is no server.                                           *)
(***************************************************************************)
TwiceInv ==
  /\ final => main \in Stopping \cup {"ended"}
  /\ shut => main \in Stopping \cup {"stopped", "destroy", "ended"}
  /\ shut /\ (final \/ main \in {"closeNet", "stopped", "destroy"}) => ~Listens /\ ~Monitors
  /\ Consoles => /\ main # "http"
                 /\ acceptor = "none"
                 /\ \A r \in Request : request[r] = "none"
  /\ process = "stopped" => main = "ended"
  /\ main = "ended" => final \/ ~shut

OffInv ==
  Consoles /\ shut /\ final /\ main \in FromNetStop \cup {"ended"} => box.pin[RelayPin] = "LOW"

-----------------------------------------------------------------------------
(***************************************************************************)
(* The call of a console or a request serves, whichever it is.             *)
(***************************************************************************)
LEMMA ServedServes ==
  ASSUME NEW b \in Box, Guarded(b), NEW c \in Calls
  PROVE  Serves(b, Served(c, b))
<1>1. c \in {"start", "stop", "pause", "resume", "enable", "disable"}
  BY LifecycleAssumption
<1>2. QED
  BY <1>1, StartServes, StopServes, PauseServes, ResumeServes, EnableServes, DisableServes
  DEF Served

(***************************************************************************)
(* The refresh that ends the set-up serves.                                *)
(***************************************************************************)
LEMMA RefreshServes ==
  ASSUME NEW b \in Box
  PROVE  Serves(b, updateLeds(b))
  BY UpdateLeds DEF Serves, SameControl, Guarded, Sound

(***************************************************************************)
(* A step of any thread is a handler of the controller, a part of one, or  *)
(* the set-up of its lines; most leave the controller alone.               *)
(***************************************************************************)
LEMMA LifeStepServes ==
  ASSUME LifeTypeOK, Guarded(box), LifeNext
  PROVE  Serves(box, box') \/ box' = setupGpio(box.pin)
<1>1. box \in Box
  BY DEF LifeTypeOK
<1>2. CASE InitGpio
  BY <1>2 DEF InitGpio
<1>3. CASE FirstRefresh
  BY <1>1, <1>3, RefreshServes DEF FirstRefresh
<1>4. CASE StopCharging
  BY <1>1, <1>4, StopIfChargingServes DEF StopCharging
<1>5. CASE RelayOff
  BY <1>1, <1>5, SetRelayServes DEF RelayOff
<1>6. CASE processCommand
  BY <1>1, <1>6, ServedServes DEF processCommand
<1>7. CASE Heard
  <2>1. udp.message \in Messages \cup {FirstLast}
    BY DEF LifeTypeOK
  <2>2. FirstLast.contactor \in BOOLEAN
    BY DEF FirstLast
  <2>3. \A m \in Messages : m.contactor \in BOOLEAN
    BY LifecycleAssumption
  <2>4. udp.message.contactor \in BOOLEAN
    BY <2>1, <2>2, <2>3
  <2> DEFINE m == udp.message
  <2>5. box' = applyContactor(applyState(applyEnable(box, m), m), m)
    BY <1>7 DEF Heard
  <2>6. Serves(box, applyContactor(applyState(applyEnable(box, m), m), m))
    BY <1>1, <2>4, MessageServes
  <2>7. QED
    BY <2>5, <2>6
<1>8. CASE onCpStateChange
  BY <1>1, <1>8, MapCpStateServes DEF onCpStateChange
<1>9. ASSUME NEW r \in Request, handleClient(r)
      PROVE  Serves(box, box')
  <2>1. CASE UNCHANGED box
    BY <1>1, <2>1, ServesReflexive
  <2>2. CASE box' = Served(request[r], box)
    BY <1>1, <1>9, <2>2, ServedServes DEF handleClient, LifeTypeOK
  <2>3. QED
    BY <1>9, <2>1, <2>2 DEF handleClient
<1>10. CASE UNCHANGED box
  BY <1>1, <1>10, ServesReflexive
<1>11. QED
  BY <1>2, <1>3, <1>4, <1>5, <1>6, <1>7, <1>8, <1>9, <1>10
  DEF LifeNext, Start_, End_, Input, Monitor, boxVars, GpioFails, InitFails, Connect,
    startReceiving, InitReader, startMonitoring, StartServer, Ready, Loop, EndOfInput, Quit,
    signalHandler, Shut, Stopped, Destroy, HttpStop, HttpJoin, stopMonitoring, MonJoin,
    ReaderOff, stopReceiving, NetJoin, disconnect, Hear, ReceiverEnds, LineChanged,
    MonitorEnds, serverLoop, Client

BoxInv == Guarded(box) /\ (RelayPin \in WritablePins => Sound(box))

(***************************************************************************)
(* So the controller's invariant survives each step of each thread.        *)
(***************************************************************************)
LEMMA BoxStep ==
  ASSUME LifeTypeOK, BoxInv, [LifeNext]_lifeVars
  PROVE  box' \in Box /\ BoxInv'
<1>1. box \in Box /\ box.pin \in [Pin -> Level]
  BY DEF LifeTypeOK, Box
<1>2. CASE Serves(box, box')
  BY <1>2 DEF BoxInv, Serves
<1>3. CASE box' = setupGpio(box.pin)
  BY <1>1, <1>3, SetupGpio DEF BoxInv
<1>4. CASE UNCHANGED lifeVars
  BY <1>1, <1>4 DEF BoxInv, Guarded, Sound, Wired, lifeVars, boxVars
<1>5. QED
  BY <1>2, <1>3, <1>4, LifeStepServes DEF BoxInv

-----------------------------------------------------------------------------
(***************************************************************************)
(* Every step keeps the types.                                             *)
(***************************************************************************)
LEMMA LifeTypeStep ==
  ASSUME LifeTypeOK, box' \in Box, [LifeNext]_lifeVars
  PROVE  LifeTypeOK'
<1>1. CASE GpioFails
  BY <1>1 DEF GpioFails, Go, udpVars, cpVars, httpVars, appVars, LifeTypeOK, Places,
    Starting, Stopping
<1>2. CASE InitGpio
  BY <1>2 DEF InitGpio, Go, udpVars, cpVars, httpVars, appVars, LifeTypeOK, Places, Starting,
    Stopping
<1>3. CASE InitFails
  BY <1>3 DEF InitFails, Go, boxVars, udpVars, cpVars, httpVars, appVars, LifeTypeOK, Places,
    Starting, Stopping
<1>4. CASE Connect
  <2>1. net' \in [open : BOOLEAN, running : BOOLEAN]
    BY <1>4 DEF Connect, Go, LifeTypeOK
  <2>2. main' \in Places
    BY <1>4 DEF Connect, Go, Places, Starting, Stopping
  <2>3. UNCHANGED <<last, cp, process, setup, running, asked, shut, final, udp, mon, reader,
    acceptor, server, request>>
    BY <1>4 DEF Connect, Go, boxVars, cpVars, httpVars, appVars
  <2>4. QED
    BY <2>1, <2>2, <2>3 DEF LifeTypeOK
<1>5. CASE startReceiving
  <2>1. net' \in [open : BOOLEAN, running : BOOLEAN]
    BY <1>5 DEF startReceiving, Go, LifeTypeOK
  <2>2. udp' \in [at : {"none", "test", "handle", "done"}, message : Messages \cup {FirstLast}]
    BY <1>5 DEF startReceiving, Go, LifeTypeOK
  <2>3. main' \in Places
    BY <1>5 DEF startReceiving, Go, Places, Starting, Stopping
  <2>4. UNCHANGED <<last, cp, process, setup, running, asked, shut, final, mon, reader,
    acceptor, server, request>>
    BY <1>5 DEF startReceiving, Go, boxVars, cpVars, httpVars, appVars
  <2>5. QED
    BY <2>1, <2>2, <2>3, <2>4 DEF LifeTypeOK
<1>6. CASE InitReader
  <2>1. reader' \in [initialized : BOOLEAN, monitoring : BOOLEAN, level : CpState]
    BY <1>6, InputsAssumption DEF InitReader, Go, LifeTypeOK, CpState
  <2>2. main' \in Places
    BY <1>6 DEF InitReader, Go, Places, Starting, Stopping
  <2>3. UNCHANGED <<last, cp, process, setup, running, asked, shut, final, udp, net, mon,
    acceptor, server, request>>
    BY <1>6 DEF InitReader, Go, boxVars, udpVars, httpVars, appVars
  <2>4. QED
    BY <2>1, <2>2, <2>3 DEF LifeTypeOK
<1>7. CASE startMonitoring
  <2>1. reader' \in [initialized : BOOLEAN, monitoring : BOOLEAN, level : CpState]
    BY <1>7 DEF startMonitoring, Go, boxVars, udpVars, cpVars, httpVars, appVars, LifeTypeOK,
      CpState
  <2>2. mon' \in {"none", "test", "notify", "done"}
    BY <1>7 DEF startMonitoring, Go, boxVars, udpVars, cpVars, httpVars, appVars, LifeTypeOK
  <2>3. main' \in Places
    BY <1>7 DEF startMonitoring, Go, Places, Starting, Stopping
  <2>4. UNCHANGED <<last, cp, process, setup, running, asked, shut, final, udp, net,
    acceptor, server, request>>
    BY <1>7 DEF startMonitoring, Go, boxVars, udpVars, cpVars, httpVars, appVars
  <2>5. mon' # "none" => setup.reader = "hardware"
    BY <1>7 DEF startMonitoring, Go, boxVars, udpVars, cpVars, httpVars, appVars, LifeTypeOK
  <2>6. QED
    BY <2>1, <2>2, <2>3, <2>4, <2>5 DEF LifeTypeOK
<1>8. CASE FirstRefresh
  BY <1>8 DEF FirstRefresh, Go, udpVars, cpVars, httpVars, appVars, LifeTypeOK, Places,
    Starting, Stopping
<1>9. CASE StartServer
  BY <1>9 DEF StartServer, Go, boxVars, udpVars, cpVars, appVars, LifeTypeOK, Places,
    Starting, Stopping
<1>10. CASE Ready
  BY <1>10 DEF Ready, Go, boxVars, udpVars, cpVars, httpVars, LifeTypeOK, Places, Starting,
    Stopping
<1>11. CASE Loop
  BY <1>11 DEF Loop, Go, boxVars, udpVars, cpVars, httpVars, appVars, LifeTypeOK, Places,
    Starting, Stopping
<1>12. CASE EndOfInput
  BY <1>12 DEF EndOfInput, Go, boxVars, udpVars, cpVars, httpVars, appVars, LifeTypeOK,
    Places, Starting, Stopping
<1>13. CASE Quit
  <2>1. running' \in BOOLEAN
    BY <1>13 DEF Quit, Go, LifeTypeOK
  <2>2. asked' \in {"no", "early", "yes"}
    BY <1>13 DEF Quit, Go, LifeTypeOK
  <2>3. main' \in Places
    BY <1>13 DEF Quit, Go, Places, Starting, Stopping
  <2>4. UNCHANGED <<last, cp, process, setup, shut, final, udp, net, mon, reader, acceptor,
    server, request>>
    BY <1>13 DEF Quit, Go, boxVars, udpVars, cpVars, httpVars
  <2>5. QED
    BY <2>1, <2>2, <2>3, <2>4 DEF LifeTypeOK
<1>14. CASE processCommand
  BY <1>14 DEF processCommand, Go, udpVars, cpVars, httpVars, appVars, LifeTypeOK, Places,
    Starting, Stopping
<1>15. CASE signalHandler
  <2>1. running' \in BOOLEAN
    BY <1>15 DEF signalHandler, LifeTypeOK
  <2>2. asked' \in {"no", "early", "yes"}
    BY <1>15 DEF signalHandler, LifeTypeOK
  <2>3. UNCHANGED <<last, cp, process, setup, main, shut, final, udp, net, mon, reader,
    acceptor, server, request>>
    BY <1>15 DEF signalHandler, boxVars, udpVars, cpVars, httpVars
  <2>4. QED
    BY <2>1, <2>2, <2>3 DEF LifeTypeOK
<1>16. CASE Shut
  <2>1. shut' \in BOOLEAN
    BY <1>16 DEF Shut, Go, LifeTypeOK
  <2>2. main' \in Places
    BY <1>16 DEF Shut, Go, Places, Starting, Stopping
  <2>3. UNCHANGED <<last, cp, process, setup, running, asked, final, udp, net, mon, reader,
    acceptor, server, request>>
    BY <1>16 DEF Shut, Go, boxVars, udpVars, cpVars, httpVars
  <2>4. QED
    BY <2>1, <2>2, <2>3 DEF LifeTypeOK
<1>17. CASE Stopped
  BY <1>17 DEF Stopped, Go, boxVars, udpVars, cpVars, httpVars, LifeTypeOK, Places, Starting,
    Stopping
<1>18. CASE Destroy
  BY <1>18 DEF Destroy, Go, boxVars, udpVars, cpVars, httpVars, LifeTypeOK, Places, Starting,
    Stopping
<1>19. CASE HttpStop
  <2>1. server' \in BOOLEAN
    BY <1>19 DEF HttpStop, Go, LifeTypeOK
  <2>2. main' \in Places
    BY <1>19 DEF HttpStop, Go, Places, Starting, Stopping
  <2>3. UNCHANGED <<last, cp, process, setup, running, asked, shut, final, udp, net, mon,
    reader, acceptor, request>>
    BY <1>19 DEF HttpStop, Go, boxVars, udpVars, cpVars, appVars
  <2>4. QED
    BY <2>1, <2>2, <2>3 DEF LifeTypeOK
<1>20. CASE HttpJoin
  BY <1>20 DEF HttpJoin, Go, boxVars, udpVars, cpVars, httpVars, appVars, LifeTypeOK, Places,
    Starting, Stopping
<1>21. CASE stopMonitoring
  <2>1. reader' \in [initialized : BOOLEAN, monitoring : BOOLEAN, level : CpState]
    BY <1>21 DEF stopMonitoring, Go, LifeTypeOK, CpState
  <2>2. main' \in Places
    BY <1>21 DEF stopMonitoring, Go, Places, Starting, Stopping
  <2>3. UNCHANGED <<last, cp, process, setup, running, asked, shut, final, udp, net, mon,
    acceptor, server, request>>
    BY <1>21 DEF stopMonitoring, Go, boxVars, udpVars, httpVars, appVars
  <2>4. QED
    BY <2>1, <2>2, <2>3 DEF LifeTypeOK
<1>22. CASE MonJoin
  BY <1>22 DEF MonJoin, Go, boxVars, udpVars, cpVars, httpVars, appVars, LifeTypeOK, Places,
    Starting, Stopping
<1>23. CASE ReaderOff
  <2>1. reader' \in [initialized : BOOLEAN, monitoring : BOOLEAN, level : CpState]
    BY <1>23 DEF ReaderOff, Go, LifeTypeOK, CpState
  <2>2. main' \in Places
    BY <1>23 DEF ReaderOff, Go, Places, Starting, Stopping
  <2>3. UNCHANGED <<last, cp, process, setup, running, asked, shut, final, udp, net, mon,
    acceptor, server, request>>
    BY <1>23 DEF ReaderOff, Go, boxVars, udpVars, httpVars, appVars
  <2>4. QED
    BY <2>1, <2>2, <2>3 DEF LifeTypeOK
<1>24. CASE StopCharging
  BY <1>24 DEF StopCharging, Go, udpVars, cpVars, httpVars, appVars, LifeTypeOK, Places,
    Starting, Stopping
<1>25. CASE RelayOff
  <2>1. main' \in Places
    BY <1>25 DEF RelayOff, Go, Places, Starting, Stopping
  <2>2. UNCHANGED <<last, cp, process, setup, running, asked, shut, final, udp, net, mon, reader,
    acceptor, server, request>>
    BY <1>25 DEF RelayOff, Go, udpVars, cpVars, httpVars, appVars
  <2>3. QED
    BY <2>1, <2>2 DEF LifeTypeOK
<1>26. CASE stopReceiving
  <2>1. net' \in [open : BOOLEAN, running : BOOLEAN]
    BY <1>26 DEF stopReceiving, Go, LifeTypeOK
  <2>2. main' \in Places
    BY <1>26 DEF stopReceiving, Go, Places, Starting, Stopping
  <2>3. UNCHANGED <<last, cp, process, setup, running, asked, shut, final, udp, mon, reader,
    acceptor, server, request>>
    BY <1>26 DEF stopReceiving, Go, boxVars, cpVars, httpVars, appVars
  <2>4. QED
    BY <2>1, <2>2, <2>3 DEF LifeTypeOK
<1>27. CASE NetJoin
  BY <1>27 DEF NetJoin, Go, boxVars, udpVars, cpVars, httpVars, appVars, LifeTypeOK, Places,
    Starting, Stopping
<1>28. CASE disconnect
  <2>1. net' \in [open : BOOLEAN, running : BOOLEAN]
    BY <1>28 DEF disconnect, Go, LifeTypeOK
  <2>2. process' \in {"up", "stopped", "crashed"}
    BY <1>28 DEF disconnect, Go, LifeTypeOK
  <2>3. main' \in Places
    BY <1>28 DEF disconnect, Go, Places, Starting, Stopping
  <2>4. UNCHANGED <<last, cp, setup, running, asked, shut, final, udp, mon, reader, acceptor,
    server, request>>
    BY <1>28 DEF disconnect, Go, cpVars, httpVars, appVars
  <2>5. QED
    BY <2>1, <2>2, <2>3, <2>4 DEF LifeTypeOK
<1>29. CASE Hear
  BY <1>29, LifecycleAssumption DEF Hear, boxVars, cpVars, httpVars, appVars, LifeTypeOK,
    Places, Starting, Stopping
<1>30. CASE Heard
  <2>1. udp' \in [at : {"none", "test", "handle", "done"}, message : Messages \cup {FirstLast}]
    BY <1>30, LifecycleAssumption DEF Heard, Returns, LifeTypeOK
  <2> DEFINE Msg == [state : IsoStates \cup {"idle"}, contactor : BOOLEAN, enable : BOOLEAN]
  <2>2. FirstLast \in Msg
    BY DEF FirstLast
  <2>3. last' \in Msg
    BY <1>30, <2>2, LifecycleAssumption DEF Heard, LifeTypeOK
  <2>4. UNCHANGED <<cp, process, setup, main, running, asked, shut, final, net, mon, reader,
    acceptor, server, request>>
    BY <1>30 DEF Heard, Returns, cpVars, httpVars, appVars
  <2>5. QED
    BY <2>1, <2>3, <2>4 DEF LifeTypeOK
<1>31. CASE ReceiverEnds
  BY <1>31 DEF ReceiverEnds, Ends, boxVars, cpVars, httpVars, appVars, LifeTypeOK, Places,
    Starting, Stopping
<1>32. CASE LineChanged
  BY <1>32, InputsAssumption DEF LineChanged, boxVars, udpVars, httpVars, appVars,
    LifeTypeOK, Places, Starting, Stopping, CpState
<1>33. CASE MonitorEnds
  BY <1>33 DEF MonitorEnds, boxVars, udpVars, httpVars, appVars, LifeTypeOK, Places,
    Starting, Stopping
<1>34. CASE onCpStateChange
  BY <1>34 DEF onCpStateChange, udpVars, httpVars, appVars, LifeTypeOK, Places, Starting,
    Stopping, CpState
<1>35. CASE serverLoop
  BY <1>35 DEF serverLoop, boxVars, udpVars, cpVars, appVars, LifeTypeOK, Places, Starting,
    Stopping
<1>36. CASE Client
  BY <1>36 DEF Client, boxVars, udpVars, cpVars, appVars, LifeTypeOK, Places, Starting, Stopping
<1>37. CASE \E r \in Request : handleClient(r)
  BY <1>37 DEF handleClient, udpVars, cpVars, appVars, LifeTypeOK, Places, Starting, Stopping
<1>38. CASE UNCHANGED lifeVars
  BY <1>38 DEF lifeVars, boxVars, udpVars, cpVars, httpVars, appVars, LifeTypeOK, Places,
    Starting, Stopping
<1>39. QED
  BY <1>1, <1>2, <1>3, <1>4, <1>5, <1>6, <1>7, <1>8, <1>9, <1>10, <1>11, <1>12, <1>13, <1>14,
    <1>15, <1>16, <1>17, <1>18, <1>19, <1>20, <1>21, <1>22, <1>23, <1>24, <1>25, <1>26,
    <1>27, <1>28, <1>29, <1>30, <1>31, <1>32, <1>33, <1>34, <1>35, <1>36, <1>37, <1>38 DEF
    LifeNext, Start_, End_, Input, Monitor

(***************************************************************************)
(* Every step keeps the threads within the life of what they work on.      *)
(***************************************************************************)
LEMMA ThreadsStep ==
  ASSUME LifeTypeOK, ThreadsInv, [LifeNext]_lifeVars
  PROVE  ThreadsInv'
<1> USE DEF ThreadsInv, Listens, Monitors, Accepts, Starting, FromMonStop, FromReaderOff,
  FromNetStop
<1>1. CASE GpioFails
  BY <1>1 DEF GpioFails, Go, udpVars, cpVars, httpVars, appVars
<1>2. CASE InitGpio
  BY <1>2 DEF InitGpio, Go, udpVars, cpVars, httpVars, appVars
<1>3. CASE InitFails
  BY <1>3 DEF InitFails, Go, boxVars, udpVars, cpVars, httpVars, appVars
<1>4. CASE Connect
  BY <1>4 DEF Connect, Go, boxVars, cpVars, httpVars, appVars
<1>5. CASE startReceiving
  BY <1>5 DEF startReceiving, Go, boxVars, cpVars, httpVars, appVars
<1>6. CASE InitReader
  BY <1>6 DEF InitReader, Go, boxVars, udpVars, httpVars, appVars
<1>7. CASE startMonitoring
  BY <1>7 DEF startMonitoring, Go, boxVars, udpVars, cpVars, httpVars, appVars, LifeTypeOK
<1>8. CASE FirstRefresh
  BY <1>8 DEF FirstRefresh, Go, udpVars, cpVars, httpVars, appVars
<1>9. CASE StartServer
  BY <1>9 DEF StartServer, Go, boxVars, udpVars, cpVars, appVars
<1>10. CASE Ready
  BY <1>10 DEF Ready, Go, boxVars, udpVars, cpVars, httpVars
<1>11. CASE Loop
  BY <1>11 DEF Loop, Go, boxVars, udpVars, cpVars, httpVars, appVars
<1>12. CASE EndOfInput
  BY <1>12 DEF EndOfInput, Go, boxVars, udpVars, cpVars, httpVars, appVars
<1>13. CASE Quit
  BY <1>13 DEF Quit, Go, boxVars, udpVars, cpVars, httpVars
<1>14. CASE processCommand
  BY <1>14 DEF processCommand, Go, udpVars, cpVars, httpVars, appVars
<1>15. CASE signalHandler
  BY <1>15 DEF signalHandler, boxVars, udpVars, cpVars, httpVars
<1>16. CASE Shut
  BY <1>16 DEF Shut, Go, boxVars, udpVars, cpVars, httpVars
<1>17. CASE Stopped
  BY <1>17 DEF Stopped, Go, boxVars, udpVars, cpVars, httpVars
<1>18. CASE Destroy
  BY <1>18 DEF Destroy, Go, boxVars, udpVars, cpVars, httpVars
<1>19. CASE HttpStop
  BY <1>19 DEF HttpStop, Go, boxVars, udpVars, cpVars, appVars
<1>20. CASE HttpJoin
  BY <1>20 DEF HttpJoin, Go, boxVars, udpVars, cpVars, httpVars, appVars
<1>21. CASE stopMonitoring
  BY <1>21 DEF stopMonitoring, Go, boxVars, udpVars, httpVars, appVars
<1>22. CASE MonJoin
  BY <1>22 DEF MonJoin, Go, boxVars, udpVars, cpVars, httpVars, appVars
<1>23. CASE ReaderOff
  BY <1>23 DEF ReaderOff, Go, boxVars, udpVars, httpVars, appVars
<1>24. CASE StopCharging
  BY <1>24 DEF StopCharging, Go, udpVars, cpVars, httpVars, appVars
<1>25. CASE RelayOff
  BY <1>25 DEF RelayOff, Go, udpVars, cpVars, httpVars, appVars
<1>26. CASE stopReceiving
  BY <1>26 DEF stopReceiving, Go, boxVars, cpVars, httpVars, appVars
<1>27. CASE NetJoin
  BY <1>27 DEF NetJoin, Go, boxVars, udpVars, cpVars, httpVars, appVars
<1>28. CASE disconnect
  BY <1>28 DEF disconnect, Go, cpVars, httpVars, appVars
<1>29. CASE Hear
  BY <1>29 DEF Hear, boxVars, cpVars, httpVars, appVars
<1>30. CASE Heard
  BY <1>30 DEF Heard, Returns, cpVars, httpVars, appVars
<1>31. CASE ReceiverEnds
  BY <1>31 DEF ReceiverEnds, Ends, boxVars, cpVars, httpVars, appVars
<1>32. CASE LineChanged
  BY <1>32 DEF LineChanged, boxVars, udpVars, httpVars, appVars
<1>33. CASE MonitorEnds
  BY <1>33 DEF MonitorEnds, boxVars, udpVars, httpVars, appVars
<1>34. CASE onCpStateChange
  BY <1>34 DEF onCpStateChange, udpVars, httpVars, appVars
<1>35. CASE serverLoop
  BY <1>35 DEF serverLoop, boxVars, udpVars, cpVars, appVars
<1>36. CASE Client
  BY <1>36 DEF Client, boxVars, udpVars, cpVars, appVars
<1>37. CASE \E r \in Request : handleClient(r)
  BY <1>37 DEF handleClient, udpVars, cpVars, appVars
<1>38. CASE UNCHANGED lifeVars
  BY <1>38 DEF lifeVars, boxVars, udpVars, cpVars, httpVars, appVars
<1>39. QED
  BY <1>1, <1>2, <1>3, <1>4, <1>5, <1>6, <1>7, <1>8, <1>9, <1>10, <1>11, <1>12, <1>13, <1>14,
    <1>15, <1>16, <1>17, <1>18, <1>19, <1>20, <1>21, <1>22, <1>23, <1>24, <1>25, <1>26,
    <1>27, <1>28, <1>29, <1>30, <1>31, <1>32, <1>33, <1>34, <1>35, <1>36, <1>37, <1>38 DEF
    LifeNext, Start_, End_, Input, Monitor

(***************************************************************************)
(* Every step keeps what the second shutdown relies on.                    *)
(***************************************************************************)
LEMMA TwiceStep ==
  ASSUME LifeTypeOK, ThreadsInv, TwiceInv, [LifeNext]_lifeVars
  PROVE  TwiceInv'
<1> USE DEF TwiceInv, Listens, Monitors, Stopping, Consoles
<1>1. CASE GpioFails
  BY <1>1 DEF GpioFails, Go, udpVars, cpVars, httpVars, appVars, ThreadsInv, FromReaderOff,
    FromNetStop
<1>2. CASE InitGpio
  BY <1>2 DEF InitGpio, Go, udpVars, cpVars, httpVars, appVars
<1>3. CASE InitFails
  BY <1>3 DEF InitFails, Go, boxVars, udpVars, cpVars, httpVars, appVars
<1>4. CASE Connect
  BY <1>4 DEF Connect, Go, boxVars, cpVars, httpVars, appVars
<1>5. CASE startReceiving
  BY <1>5 DEF startReceiving, Go, boxVars, cpVars, httpVars, appVars, ThreadsInv, FromReaderOff,
    FromNetStop
<1>6. CASE InitReader
  BY <1>6 DEF InitReader, Go, boxVars, udpVars, httpVars, appVars
<1>7. CASE startMonitoring
  BY <1>7 DEF startMonitoring, Go, boxVars, udpVars, cpVars, httpVars, appVars, LifeTypeOK
<1>8. CASE FirstRefresh
  BY <1>8 DEF FirstRefresh, Go, udpVars, cpVars, httpVars, appVars, LifeTypeOK
<1>9. CASE StartServer
  BY <1>9 DEF StartServer, Go, boxVars, udpVars, cpVars, appVars, ThreadsInv, Starting
<1>10. CASE Ready
  BY <1>10 DEF Ready, Go, boxVars, udpVars, cpVars, httpVars
<1>11. CASE Loop
  BY <1>11 DEF Loop, Go, boxVars, udpVars, cpVars, httpVars, appVars
<1>12. CASE EndOfInput
  BY <1>12 DEF EndOfInput, Go, boxVars, udpVars, cpVars, httpVars, appVars
<1>13. CASE Quit
  BY <1>13 DEF Quit, Go, boxVars, udpVars, cpVars, httpVars
<1>14. CASE processCommand
  BY <1>14 DEF processCommand, Go, udpVars, cpVars, httpVars, appVars
<1>15. CASE signalHandler
  BY <1>15 DEF signalHandler, boxVars, udpVars, cpVars, httpVars
<1>16. CASE Shut
  BY <1>16 DEF Shut, Go, boxVars, udpVars, cpVars, httpVars
<1>17. CASE Stopped
  BY <1>17 DEF Stopped, Go, boxVars, udpVars, cpVars, httpVars
<1>18. CASE Destroy
  BY <1>18 DEF Destroy, Go, boxVars, udpVars, cpVars, httpVars
<1>19. CASE HttpStop
  BY <1>19 DEF HttpStop, Go, boxVars, udpVars, cpVars, appVars
<1>20. CASE HttpJoin
  BY <1>20 DEF HttpJoin, Go, boxVars, udpVars, cpVars, httpVars, appVars
<1>21. CASE stopMonitoring
  BY <1>21 DEF stopMonitoring, Go, boxVars, udpVars, httpVars, appVars
<1>22. CASE MonJoin
  BY <1>22 DEF MonJoin, Go, boxVars, udpVars, cpVars, httpVars, appVars
<1>23. CASE ReaderOff
  BY <1>23 DEF ReaderOff, Go, boxVars, udpVars, httpVars, appVars, ThreadsInv, FromReaderOff,
    FromNetStop
<1>24. CASE StopCharging
  BY <1>24 DEF StopCharging, Go, udpVars, cpVars, httpVars, appVars
<1>25. CASE RelayOff
  BY <1>25 DEF RelayOff, Go, udpVars, cpVars, httpVars, appVars
<1>26. CASE stopReceiving
  BY <1>26 DEF stopReceiving, Go, boxVars, cpVars, httpVars, appVars
<1>27. CASE NetJoin
  BY <1>27 DEF NetJoin, Go, boxVars, udpVars, cpVars, httpVars, appVars, ThreadsInv, FromReaderOff,
    FromNetStop
<1>28. CASE disconnect
  BY <1>28 DEF disconnect, Go, cpVars, httpVars, appVars, ThreadsInv, FromReaderOff,
    FromNetStop
<1>29. CASE Hear
  BY <1>29 DEF Hear, boxVars, cpVars, httpVars, appVars
<1>30. CASE Heard
  BY <1>30 DEF Heard, Returns, cpVars, httpVars, appVars
<1>31. CASE ReceiverEnds
  BY <1>31 DEF ReceiverEnds, Ends, boxVars, cpVars, httpVars, appVars
<1>32. CASE LineChanged
  BY <1>32 DEF LineChanged, boxVars, udpVars, httpVars, appVars
<1>33. CASE MonitorEnds
  BY <1>33 DEF MonitorEnds, boxVars, udpVars, httpVars, appVars
<1>34. CASE onCpStateChange
  BY <1>34 DEF onCpStateChange, udpVars, httpVars, appVars
<1>35. CASE serverLoop
  BY <1>35 DEF serverLoop, boxVars, udpVars, cpVars, appVars, LifeTypeOK
<1>36. CASE Client
  BY <1>36 DEF Client, boxVars, udpVars, cpVars, appVars, LifeTypeOK
<1>37. CASE \E r \in Request : handleClient(r)
  BY <1>37 DEF handleClient, udpVars, cpVars, appVars, LifeTypeOK
<1>38. CASE UNCHANGED lifeVars
  BY <1>38 DEF lifeVars, boxVars, udpVars, cpVars, httpVars, appVars
<1>39. QED
  BY <1>1, <1>2, <1>3, <1>4, <1>5, <1>6, <1>7, <1>8, <1>9, <1>10, <1>11, <1>12, <1>13, <1>14,
    <1>15, <1>16, <1>17, <1>18, <1>19, <1>20, <1>21, <1>22, <1>23, <1>24, <1>25, <1>26,
    <1>27, <1>28, <1>29, <1>30, <1>31, <1>32, <1>33, <1>34, <1>35, <1>36, <1>37, <1>38 DEF
    LifeNext, Start_, End_, Input, Monitor

(***************************************************************************)
(* Every step keeps the relay open once the second shutdown has opened it. *)
(***************************************************************************)
LEMMA OffStep ==
  ASSUME RelayPin \in WritablePins, LifeTypeOK, BoxInv, TwiceInv, OffInv, [LifeNext]_lifeVars
  PROVE  OffInv'
<1> USE DEF OffInv, TwiceInv, Listens, Monitors, Stopping, Consoles, FromNetStop
<1>1. CASE GpioFails
  BY <1>1 DEF GpioFails, Go, udpVars, cpVars, httpVars, appVars
<1>2. CASE InitGpio
  BY <1>2 DEF InitGpio, Go, udpVars, cpVars, httpVars, appVars
<1>3. CASE InitFails
  BY <1>3 DEF InitFails, Go, boxVars, udpVars, cpVars, httpVars, appVars
<1>4. CASE Connect
  BY <1>4 DEF Connect, Go, boxVars, cpVars, httpVars, appVars
<1>5. CASE startReceiving
  BY <1>5 DEF startReceiving, Go, boxVars, cpVars, httpVars, appVars
<1>6. CASE InitReader
  BY <1>6 DEF InitReader, Go, boxVars, udpVars, httpVars, appVars
<1>7. CASE startMonitoring
  BY <1>7 DEF startMonitoring, Go, boxVars, udpVars, cpVars, httpVars, appVars
<1>8. CASE FirstRefresh
  BY <1>8 DEF FirstRefresh, Go, udpVars, cpVars, httpVars, appVars
<1>9. CASE StartServer
  BY <1>9 DEF StartServer, Go, boxVars, udpVars, cpVars, appVars
<1>10. CASE Ready
  BY <1>10 DEF Ready, Go, boxVars, udpVars, cpVars, httpVars
<1>11. CASE Loop
  BY <1>11 DEF Loop, Go, boxVars, udpVars, cpVars, httpVars, appVars
<1>12. CASE EndOfInput
  BY <1>12 DEF EndOfInput, Go, boxVars, udpVars, cpVars, httpVars, appVars
<1>13. CASE Quit
  BY <1>13 DEF Quit, Go, boxVars, udpVars, cpVars, httpVars
<1>14. CASE processCommand
  BY <1>14 DEF processCommand, Go, udpVars, cpVars, httpVars, appVars
<1>15. CASE signalHandler
  BY <1>15 DEF signalHandler, boxVars, udpVars, cpVars, httpVars
<1>16. CASE Shut
  BY <1>16 DEF Shut, Go, boxVars, udpVars, cpVars, httpVars
<1>17. CASE Stopped
  BY <1>17 DEF Stopped, Go, boxVars, udpVars, cpVars, httpVars
<1>18. CASE Destroy
  BY <1>18 DEF Destroy, Go, boxVars, udpVars, cpVars, httpVars
<1>19. CASE HttpStop
  BY <1>19 DEF HttpStop, Go, boxVars, udpVars, cpVars, appVars
<1>20. CASE HttpJoin
  BY <1>20 DEF HttpJoin, Go, boxVars, udpVars, cpVars, httpVars, appVars
<1>21. CASE stopMonitoring
  BY <1>21 DEF stopMonitoring, Go, boxVars, udpVars, httpVars, appVars
<1>22. CASE MonJoin
  BY <1>22 DEF MonJoin, Go, boxVars, udpVars, cpVars, httpVars, appVars
<1>23. CASE ReaderOff
  BY <1>23 DEF ReaderOff, Go, boxVars, udpVars, httpVars, appVars
<1>24. CASE StopCharging
  BY <1>24 DEF StopCharging, Go, udpVars, cpVars, httpVars, appVars
<1>25. CASE RelayOff
  <2>1. box.relayPin = RelayPin
    BY DEF BoxInv, Sound, Wired
  <2>2. Wired(setRelayState(box, FALSE)) /\ ~setRelayState(box, FALSE).relay
    BY <2>1, SetRelay DEF LifeTypeOK
  <2>3. setRelayState(box, FALSE).pin[RelayPin] = "LOW"
    BY <2>2 DEF Wired, RelayLevel
  <2>4. QED
    BY <1>25, <2>3 DEF RelayOff
<1>26. CASE stopReceiving
  BY <1>26 DEF stopReceiving, Go, boxVars, cpVars, httpVars, appVars
<1>27. CASE NetJoin
  BY <1>27 DEF NetJoin, Go, boxVars, udpVars, cpVars, httpVars, appVars
<1>28. CASE disconnect
  BY <1>28 DEF disconnect, Go, cpVars, httpVars, appVars
<1>29. CASE Hear
  BY <1>29 DEF Hear, boxVars, cpVars, httpVars, appVars
<1>30. CASE Heard
  BY <1>30 DEF Heard, Returns, cpVars, httpVars, appVars
<1>31. CASE ReceiverEnds
  BY <1>31 DEF ReceiverEnds, Ends, boxVars, cpVars, httpVars, appVars
<1>32. CASE LineChanged
  BY <1>32 DEF LineChanged, boxVars, udpVars, httpVars, appVars
<1>33. CASE MonitorEnds
  BY <1>33 DEF MonitorEnds, boxVars, udpVars, httpVars, appVars
<1>34. CASE onCpStateChange
  BY <1>34 DEF onCpStateChange, udpVars, httpVars, appVars
<1>35. CASE serverLoop
  BY <1>35 DEF serverLoop, boxVars, udpVars, cpVars, appVars
<1>36. CASE Client
  BY <1>36 DEF Client, boxVars, udpVars, cpVars, appVars
<1>37. CASE \E r \in Request : handleClient(r)
  BY <1>37 DEF handleClient, udpVars, cpVars, appVars
<1>38. CASE UNCHANGED lifeVars
  BY <1>38 DEF lifeVars, boxVars, udpVars, cpVars, httpVars, appVars
<1>39. QED
  BY <1>1, <1>2, <1>3, <1>4, <1>5, <1>6, <1>7, <1>8, <1>9, <1>10, <1>11, <1>12, <1>13, <1>14,
    <1>15, <1>16, <1>17, <1>18, <1>19, <1>20, <1>21, <1>22, <1>23, <1>24, <1>25, <1>26,
    <1>27, <1>28, <1>29, <1>30, <1>31, <1>32, <1>33, <1>34, <1>35, <1>36, <1>37, <1>38 DEF
    LifeNext, Start_, End_, Input, Monitor

-----------------------------------------------------------------------------
LifeInv == LifeTypeOK /\ BoxInv /\ ThreadsInv

(***************************************************************************)
(* A controller that has not been set up is switched off, on dark lines.   *)
(***************************************************************************)
LEMMA FreshBox ==
  ASSUME NEW pin \in [Pin -> Level], pin[RelayPin] = "LOW"
  PROVE  /\ fresh(pin) \in Box /\ Guarded(fresh(pin)) /\ Sound(fresh(pin))
<1> DEFINE new == setupGpio(pin)
<1>1. new \in Box /\ new.relayPin = RelayPin /\ new.state = "IDLE"
  BY SetupGpio
<1> HIDE DEF new
<1>2. fresh(pin) = [new EXCEPT !.relay = FALSE, !.pin = pin]
  BY DEF fresh, new
<1>3. QED
  BY <1>1, <1>2 DEF Box, Guarded, Sound, Wired, RelayLevel

\* The first states satisfy the three invariants.
LEMMA LifeStarts ==
  ASSUME LifeInit
  PROVE  LifeInv /\ TwiceInv /\ OffInv
<1> DEFINE dark == [p \in Pin |-> "LOW"]
<1>1. dark \in [Pin -> Level] /\ dark[RelayPin] = "LOW"
  BY PinsAssumption DEF Level
<1> HIDE DEF dark
<1>2. box = fresh(dark)
  BY DEF LifeInit, dark
<1>3. box \in Box /\ Guarded(box) /\ Sound(box)
  BY <1>1, <1>2, FreshBox
<1>4. last \in [state : IsoStates \cup {"idle"}, contactor : BOOLEAN, enable : BOOLEAN]
  BY DEF LifeInit, FirstLast
<1>5. /\ udp \in [at : {"none", "test", "handle", "done"}, message : Messages \cup {FirstLast}]
      /\ net \in [open : BOOLEAN, running : BOOLEAN]
      /\ reader \in [initialized : BOOLEAN, monitoring : BOOLEAN, level : CpState]
  BY DEF LifeInit, CpState
<1>6. request \in [Request -> Calls \cup {"none"}] /\ \A r \in Request : request[r] = "none"
  BY DEF LifeInit
<1>7. running \in BOOLEAN
  <2>1. Older \in BOOLEAN
    BY DEF Older
  <2>2. QED
    BY <2>1 DEF LifeInit
<1>8. shut \in BOOLEAN /\ final \in BOOLEAN /\ server \in BOOLEAN
  BY DEF LifeInit
<1>9. LifeTypeOK
  BY <1>3, <1>4, <1>5, <1>6, <1>7, <1>8 DEF LifeInit, LifeTypeOK, Places, Starting, CpState
<1>10. ThreadsInv
  BY DEF LifeInit, ThreadsInv, Listens, Monitors, Accepts, FromMonStop, FromReaderOff,
    FromNetStop
<1>11. TwiceInv /\ OffInv
  BY <1>6 DEF LifeInit, TwiceInv, OffInv, Listens, Monitors, FromNetStop
<1>12. QED
  BY <1>3, <1>9, <1>10, <1>11 DEF LifeInv, BoxInv

(***************************************************************************)
(* The joins, the flags and the places of the main thread together are     *)
(* inductive.                                                              *)
(***************************************************************************)
LEMMA LifeInvHolds == LifeSpec => []LifeInv
<1>1. LifeInit => LifeInv
  BY LifeStarts
<1>2. LifeInv /\ [LifeNext]_lifeVars => LifeInv'
  BY BoxStep, LifeTypeStep, ThreadsStep DEF LifeInv
<1>3. QED
  BY <1>1, <1>2, PTL DEF LifeSpec

(***************************************************************************)
(* Every variable of the program keeps its type, and only the hardware's   *)
(* reader ever gets a monitor thread.                                      *)
(***************************************************************************)
THEOREM LifeTypeCorrect == LifeSpec => []LifeTypeOK
<1>1. LifeInv => LifeTypeOK
  BY DEF LifeInv
<1>2. QED
  BY <1>1, LifeInvHolds, PTL

(***************************************************************************)
(* No thread outlives the socket, the reader or the controller it works    *)
(* on, in every mode, with initialize failing at any step and a signal at  *)
(* any time: initialize starts a thread after what it uses, and shutdown,  *)
(* which may run twice, joins it before.                                   *)
(***************************************************************************)
THEOREM NoThreadOutlives == LifeSpec => []UsesWhatLives
<1>1. LifeInv => UsesWhatLives
  BY DEF LifeInv, LifeTypeOK, ThreadsInv, UsesWhatLives, Listens, Monitors, Accepts, Stopping,
    FromMonStop, FromReaderOff, FromNetStop
<1>2. QED
  BY <1>1, LifeInvHolds, PTL

EndInv == TwiceInv /\ OffInv

(***************************************************************************)
(* With a writable line, what the second shutdown does is part of it.      *)
(***************************************************************************)
LEMMA EndInvHolds ==
  ASSUME RelayPin \in WritablePins
  PROVE  LifeSpec => []EndInv
<1>1. LifeInit => EndInv
  BY LifeStarts DEF EndInv
<1>2. LifeInv /\ EndInv /\ [LifeNext]_lifeVars => EndInv'
  BY TwiceStep, OffStep DEF LifeInv, EndInv
<1>3. QED
  BY <1>1, <1>2, LifeInvHolds, PTL DEF LifeSpec

(***************************************************************************)
(* A box that is disabled, by any thread at any point of the program's     *)
(* life, carries no power and does not charge: also while initialize and   *)
(* shutdown are under way.                                                 *)
(***************************************************************************)
THEOREM LifeDisabledIsDead ==
  ASSUME RelayPin \in WritablePins
  PROVE  LifeSpec => []DisabledIsDead
<1>1. LifeInv => DisabledIsDead
  BY DEF LifeInv, LifeTypeOK, BoxInv, DisabledIsDead, Box, Sound, Wired, RelayLevel,
    Guarded
<1>2. QED
  BY <1>1, LifeInvHolds, PTL

(***************************************************************************)
(* The program ends with the relay open when the box is disabled, and when *)
(* a program without a server has come to its orderly end: the second      *)
(* shutdown, in the destructor, opens it after every thread is gone.       *)
(***************************************************************************)
THEOREM OffAtTheEnd ==
  ASSUME RelayPin \in WritablePins
  PROVE  LifeSpec => []EndIsOff
<1>1. LifeInv /\ EndInv => EndIsOff
  <2> SUFFICES ASSUME LifeInv, EndInv, process = "stopped",
                      ~box.enabled \/ (Consoles /\ shut)
               PROVE  box.pin[RelayPin] = "LOW"
    BY DEF EndIsOff, Consoles
  <2>1. CASE ~box.enabled
    BY <2>1 DEF LifeInv, LifeTypeOK, BoxInv, Sound, Wired, RelayLevel, Box
  <2>2. CASE Consoles /\ shut
    BY <2>2 DEF EndInv, TwiceInv, OffInv, FromNetStop
  <2>3. QED
    BY <2>1, <2>2
<1>2. QED
  BY <1>1, LifeInvHolds, EndInvHolds, PTL
=============================================================================
