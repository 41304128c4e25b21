------------------------------ MODULE Lifecycle ------------------------------
(***************************************************************************)
(* A life of wallbox_control_v4, or of one of the two programs before it,  *)
(* wallbox_control_v2 without and wallbox_control_api with a server, whose *)
(* main has its own flag: the main thread builds the application,          *)
(* serves until it is asked to end and takes everything down, while the    *)
(* receive thread, the CP monitor, the accept thread and the detached      *)
(* threads of the HTTP requests come and go.  A step of the main thread is *)
(* a step of initialize or shutdown; a handler has two steps, entered and  *)
(* done, so that it can be under way across steps of the main thread.      *)
(* What a handler does is WallboxController's; what handlers do to each    *)
(* other is WallboxThreads.  The answers to messages are left out.         *)
(***************************************************************************)
EXTENDS WallboxController

CONSTANTS
  Setups,     \* how the program may be started, and its CP reader
  Messages,   \* the messages the peer sends
  Calls,      \* the calls of the console and of HTTP requests
  Request     \* the detached threads that may be alive at a time

ASSUME LifecycleAssumption ==
  /\ Setups \subseteq [ mode : {"api", "interactive", "dual", "v2", "v2api"},
                        reader : {"simulator", "hardware"} ]
  /\ Messages \subseteq [state : IsoStates, contactor : BOOLEAN, enable : BOOLEAN]
  /\ Calls \subseteq {"start", "stop", "pause", "resume", "enable", "disable"}

VARIABLES
  setup,      \* how this life was started
  main,       \* where the main thread is
  running,    \* Application::m_running; in the older mains, no g_shutdownRequested
  asked,      \* history: whether the user has asked for the end, and when
  shut,       \* history: the orderly shutdown has got past its test
  final,      \* the destructors have begun
  udp,        \* the receive thread: its place, and the message it handles
  net,        \* whether the socket is open, and UdpCommunicator::m_running
  mon,        \* the place of the monitor thread
  reader,     \* the CP reader: m_initialized, m_monitoring, m_currentState
  acceptor,   \* the place of the accept thread
  server,     \* HttpApiServer::m_running, and with it the listening socket
  request     \* the call each detached thread has been asked for

boxVars == <<box, last, sent, cp, process>>
udpVars == <<udp, net>>
cpVars == <<mon, reader>>
httpVars == <<acceptor, server, request>>
appVars == <<setup, running, asked, shut, final>>
lifeVars == <<boxVars, udpVars, cpVars, httpVars, appVars, main>>

Starting == {"gpio", "connect", "receive", "reader", "monitor", "leds", "http", "ready"}

Stopping == {"httpStop", "httpJoin", "monStop", "monJoin", "readerOff",
             "stopCharging", "relayOff", "netStop", "netJoin", "closeNet"}

\* The mains that keep the flag themselves, raised from the start.
Older == setup.mode \in {"v2", "v2api"}

Places == Starting \cup Stopping
            \cup {"loop", "getline", "shutdown", "stopped", "destroy", "ended"}

\* The members of a new controller, on the lines as they are.
fresh(pin) == [setupGpio(pin) EXCEPT !.relay = FALSE, !.pin = pin]

LifeInit ==
  /\ setup \in Setups
  /\ box = fresh([p \in Pin |-> "LOW"])
  /\ last = FirstLast
  /\ sent = NothingSent
  /\ cp = "UNKNOWN"
  /\ process = "up"
  /\ main = "gpio"
  /\ running = Older
  /\ asked = "no"
  /\ shut = FALSE
  /\ final = FALSE
  /\ udp = [at |-> "none", message |-> FirstLast]
  /\ net = [open |-> FALSE, running |-> FALSE]
  /\ mon = "none"
  /\ reader = [initialized |-> FALSE, monitoring |-> FALSE, level |-> "UNKNOWN"]
  /\ acceptor = "none"
  /\ server = FALSE
  /\ request = [r \in Request |-> "none"]

\* The main thread goes on from one place to the next.
Go(from, to) == process = "up" /\ main = from /\ main' = to

-----------------------------------------------------------------------------
(***************************************************************************)
(* Application::initialize.  A part that fails to start makes main return  *)
(* 1, and the destructors take down what there is.                         *)
(***************************************************************************)
\* Without the sysfs directory no line can be written, then or later.
GpioFails ==
  /\ Go("gpio", "ended")
  /\ process' = "stopped"
  /\ UNCHANGED <<box, last, sent, cp, udpVars, cpVars, httpVars, appVars>>

InitGpio ==
  /\ Go("gpio", "connect")
  /\ box' = setupGpio(box.pin)
  /\ UNCHANGED <<last, sent, cp, process, udpVars, cpVars, httpVars, appVars>>

InitFails ==
  /\ \E from \in {"connect", "reader", "http"} : Go(from, "destroy")
  /\ UNCHANGED <<boxVars, udpVars, cpVars, httpVars, appVars>>

Connect ==
  /\ Go("connect", "receive")
  /\ net' = [net EXCEPT !.open = TRUE]
  /\ UNCHANGED <<boxVars, udp, cpVars, httpVars, appVars>>

startReceiving ==
  /\ Go("receive", "reader")
  /\ net' = [net EXCEPT !.running = TRUE]
  /\ udp' = [udp EXCEPT !.at = "test"]
  /\ UNCHANGED <<boxVars, cpVars, httpVars, appVars>>

\* The hardware reader reads the line, high or low; the simulator's begins with A.
\* Nobody is told of the first level.
InitReader ==
  /\ Go("reader", "monitor")
  /\ \E s \in IF setup.reader = "hardware" THEN CpInputs ELSE {"STATE_A"} :
       reader' = [reader EXCEPT !.initialized = TRUE, !.level = s]
  /\ UNCHANGED <<boxVars, udpVars, mon, httpVars, appVars>>

\* Variant: a thread for the simulator's reader as well.
startMonitoringAnyReader ==
  /\ Go("monitor", "leds")
  /\ reader' = [reader EXCEPT !.monitoring = TRUE]
  /\ mon' = "test"
  /\ UNCHANGED <<boxVars, udpVars, httpVars, appVars>>

startMonitoring ==
  /\ Go("monitor", "leds")
  /\ IF setup.reader = "hardware"
     THEN reader' = [reader EXCEPT !.monitoring = TRUE] /\ mon' = "test"
     ELSE UNCHANGED cpVars
  /\ UNCHANGED <<boxVars, udpVars, httpVars, appVars>>

\* Variant: the relay is switched on with the first refresh.
FirstRefreshPowers ==
  /\ Go("leds", IF setup.mode \in {"interactive", "v2"} THEN "ready" ELSE "http")
  /\ box' = setRelayState(updateLeds(box), TRUE)
  /\ UNCHANGED <<last, sent, cp, process, udpVars, cpVars, httpVars, appVars>>

FirstRefresh ==
  /\ Go("leds", IF setup.mode \in {"interactive", "v2"} THEN "ready" ELSE "http")
  /\ box' = updateLeds(box)
  /\ UNCHANGED <<last, sent, cp, process, udpVars, cpVars, httpVars, appVars>>

StartServer ==
  /\ Go("http", "ready")
  /\ server' = TRUE
  /\ acceptor' = "test"
  /\ UNCHANGED <<boxVars, udpVars, cpVars, request, appVars>>

\* m_running is set whatever a signal has made of it before.
Ready ==
  /\ Go("ready", "loop")
  /\ running' = (running \/ ~Older)
  /\ UNCHANGED <<boxVars, udpVars, cpVars, httpVars, setup, asked, shut, final>>

-----------------------------------------------------------------------------
(***************************************************************************)
(* The service: run waits for m_running to be cleared, runInteractive and  *)
(* runDual for a line.  std::signal restarts a read that was interrupted,  *)
(* so that a signal does not end the wait for a line.  main_v2 waits while *)
(* the controller is running, which it never is: only the controller's     *)
(* run, which nobody calls, would say so.                                  *)
(***************************************************************************)
Loop ==
  /\ \/ (~running \/ setup.mode = "v2") /\ Go("loop", "shutdown")
     \/ running /\ setup.mode \in {"interactive", "dual"} /\ Go("loop", "getline")
  /\ UNCHANGED <<boxVars, udpVars, cpVars, httpVars, appVars>>

EndOfInput ==
  /\ Go("getline", "shutdown")
  /\ UNCHANGED <<boxVars, udpVars, cpVars, httpVars, appVars>>

Quit ==
  /\ Go("getline", "loop")
  /\ running' = FALSE
  /\ asked' = "yes"
  /\ UNCHANGED <<boxVars, udpVars, cpVars, httpVars, setup, shut, final>>

Served(call, b) ==
  CASE call = "start"   -> startCharging(b)
    [] call = "stop"    -> stopCharging(b)
    [] call = "pause"   -> pauseCharging(b)
    [] call = "resume"  -> resumeCharging(b)
    [] call = "enable"  -> enableWallbox(b)
    [] call = "disable" -> disableWallbox(b)

processCommand ==
  /\ Go("getline", "loop")
  /\ \E c \in Calls : box' = Served(c, box)
  /\ UNCHANGED <<last, sent, cp, process, udpVars, cpVars, httpVars, appVars>>

\* SIGINT or SIGTERM, at any time.
signalHandler ==
  /\ process = "up"
  /\ running' = FALSE
  /\ asked' = IF main \in Starting /\ ~Older THEN "early" ELSE "yes"
  /\ UNCHANGED <<boxVars, udpVars, cpVars, httpVars, setup, shut, final, main>>

-----------------------------------------------------------------------------
(***************************************************************************)
(* The end: Application::shutdown, which does nothing once m_running is    *)
(* cleared, or the calls of the older mains; then main returns and the     *)
(* destructors take down the API controller, the server and the controller,*)
(* which is shut down again.                                               *)
(***************************************************************************)
Shut ==
  /\ \/ (running \/ Older) /\ Go("shutdown", "httpStop") /\ shut' = TRUE
     \/ ~running /\ ~Older /\ Go("shutdown", "destroy") /\ UNCHANGED shut
  /\ UNCHANGED <<boxVars, udpVars, cpVars, httpVars, setup, running, asked, final>>

Stopped ==
  /\ Go("stopped", "destroy")
  /\ running' = (running /\ Older)
  /\ UNCHANGED <<boxVars, udpVars, cpVars, httpVars, setup, asked, shut, final>>

Destroy ==
  /\ Go("destroy", "httpStop")
  /\ final' = TRUE
  /\ UNCHANGED <<boxVars, udpVars, cpVars, httpVars, setup, running, asked, shut>>

\* HttpApiServer::stop clears its flag, closes the listening socket and joins.
HttpStop ==
  /\ Go("httpStop", IF server THEN "httpJoin" ELSE "monStop")
  /\ server' = FALSE
  /\ UNCHANGED <<boxVars, udpVars, cpVars, acceptor, request, appVars>>

HttpJoin ==
  /\ Go("httpJoin", "monStop")
  /\ acceptor = "done"
  /\ UNCHANGED <<boxVars, udpVars, cpVars, httpVars, appVars>>

\* Variant: the flag is not cleared before the join.
stopMonitoringNoFlag ==
  /\ Go("monStop", IF reader.monitoring THEN "monJoin" ELSE "readerOff")
  /\ UNCHANGED <<boxVars, udpVars, cpVars, httpVars, appVars>>

stopMonitoring ==
  /\ Go("monStop", IF reader.monitoring THEN "monJoin" ELSE "readerOff")
  /\ reader' = [reader EXCEPT !.monitoring = FALSE]
  /\ UNCHANGED <<boxVars, udpVars, mon, httpVars, appVars>>

MonJoin ==
  /\ Go("monJoin", "readerOff")
  /\ mon = "done"
  /\ UNCHANGED <<boxVars, udpVars, cpVars, httpVars, appVars>>

\* The simulator's reader also forgets its level.
ReaderOff ==
  /\ Go("readerOff", "stopCharging")
  /\ reader' = [reader EXCEPT !.initialized = FALSE,
                  !.level = IF setup.reader = "hardware" THEN reader.level ELSE "UNKNOWN"]
  /\ UNCHANGED <<boxVars, udpVars, mon, httpVars, appVars>>

StopCharging ==
  /\ Go("stopCharging", "relayOff")
  /\ box' = stopIfCharging(box)
  /\ UNCHANGED <<last, sent, cp, process, udpVars, cpVars, httpVars, appVars>>

\* Variant: the relay is left to the stop.
RelayOffIfCharging ==
  /\ Go("relayOff", "netStop")
  /\ box' = IF box.state = "CHARGING" THEN setRelayState(box, FALSE) ELSE box
  /\ UNCHANGED <<last, sent, cp, process, udpVars, cpVars, httpVars, appVars>>

RelayOff ==
  /\ Go("relayOff", "netStop")
  /\ box' = setRelayState(box, FALSE)
  /\ UNCHANGED <<last, sent, cp, process, udpVars, cpVars, httpVars, appVars>>

stopReceiving ==
  /\ Go("netStop", "netJoin")
  /\ net' = [net EXCEPT !.running = FALSE]
  /\ UNCHANGED <<boxVars, udp, cpVars, httpVars, appVars>>

\* Variant: nobody waits for the receive thread.
NetJoinDetached ==
  /\ Go("netJoin", "closeNet")
  /\ UNCHANGED <<boxVars, udpVars, cpVars, httpVars, appVars>>

NetJoin ==
  /\ Go("netJoin", "closeNet")
  /\ udp.at \in {"none", "done"}
  /\ UNCHANGED <<boxVars, udpVars, cpVars, httpVars, appVars>>

\* The GPIO's shutdown leaves the lines alone.
disconnect ==
  /\ Go("closeNet", IF final THEN "ended" ELSE "stopped")
  /\ net' = [net EXCEPT !.open = FALSE]
  /\ process' = IF final THEN "stopped" ELSE "up"
  /\ UNCHANGED <<box, last, sent, cp, udp, cpVars, httpVars, appVars>>

-----------------------------------------------------------------------------
(***************************************************************************)
(* The other threads.                                                      *)
(***************************************************************************)
\* receiveLoop: a datagram has come; recvfrom does not wait for one.
Hear ==
  /\ process = "up"
  /\ udp.at = "test"
  /\ net.running
  /\ \E m \in Messages : udp' = [at |-> "handle", message |-> m]
  /\ UNCHANGED <<boxVars, net, cpVars, httpVars, appVars, main>>

Returns ==
  /\ process = "up"
  /\ udp.at = "handle"
  /\ udp' = [at |-> "test", message |-> FirstLast]

Ends ==
  /\ process = "up"
  /\ udp.at = "test"
  /\ ~net.running
  /\ udp' = [udp EXCEPT !.at = "done"]

Heard ==
  /\ Returns
  /\ LET m == udp.message
     IN  /\ box' = applyContactor(applyState(applyEnable(box, m), m), m)
         /\ last' = m
  /\ UNCHANGED <<sent, cp, process, net, cpVars, httpVars, appVars, main>>

ReceiverEnds == Ends /\ UNCHANGED <<boxVars, net, cpVars, httpVars, appVars, main>>

\* monitorLoop: the line has changed since the last round.
LineChanged ==
  /\ process = "up"
  /\ mon = "test"
  /\ reader.monitoring
  /\ \E s \in CpInputs \ {reader.level} : reader' = [reader EXCEPT !.level = s]
  /\ mon' = "notify"
  /\ UNCHANGED <<boxVars, udpVars, httpVars, appVars, main>>

MonitorEnds ==
  /\ process = "up"
  /\ mon = "test"
  /\ ~reader.monitoring
  /\ mon' = "done"
  /\ UNCHANGED <<boxVars, udpVars, reader, httpVars, appVars, main>>

onCpStateChange ==
  /\ process = "up"
  /\ mon = "notify"
  /\ cp' = reader.level
  /\ box' = mapCpState(box, reader.level)
  /\ mon' = "test"
  /\ UNCHANGED <<last, sent, process, udpVars, reader, httpVars, appVars, main>>

\* serverLoop: a thread that has gone into accept is not woken by the close of
\* the socket, and takes one more client; one that comes to it later finds it
\* closed.
serverLoop ==
  /\ process = "up"
  /\ acceptor \in {"test", "accept"}
  /\ acceptor' = CASE acceptor = "test" /\ server   -> "accept"
                   [] acceptor = "test" /\ ~server  -> "done"
                   [] acceptor = "accept" /\ server -> "blocked"
                   [] OTHER                         -> "test"
  /\ UNCHANGED <<boxVars, udpVars, cpVars, server, request, appVars, main>>

Client ==
  /\ process = "up"
  /\ acceptor = "blocked"
  /\ acceptor' = "test"
  /\ \E r \in Request, c \in Calls :
       /\ request[r] = "none"
       /\ request' = [request EXCEPT ![r] = c]
  /\ UNCHANGED <<boxVars, udpVars, cpVars, server, appVars, main>>

(***************************************************************************)
(* handleClient in a detached thread.  When the destructors have begun it  *)
(* works on objects that are gone: it may find them as they were, or crash *)
(* the process.                                                            *)
(***************************************************************************)
handleClient(r) ==
  /\ process = "up"
  /\ request[r] # "none"
  /\ request' = [request EXCEPT ![r] = "none"]
  /\ \/ box' = Served(request[r], box) /\ UNCHANGED process
     \/ final /\ process' = "crashed" /\ UNCHANGED box
  /\ UNCHANGED <<last, sent, cp, udpVars, cpVars, acceptor, server, appVars, main>>

-----------------------------------------------------------------------------
Start_ ==
  \/ GpioFails
  \/ InitGpio
  \/ InitFails
  \/ Connect
  \/ startReceiving
  \/ InitReader
  \/ startMonitoring
  \/ FirstRefresh
  \/ StartServer
  \/ Ready

End_ ==
  \/ Shut
  \/ Stopped
  \/ Destroy
  \/ HttpStop
  \/ HttpJoin
  \/ stopMonitoring
  \/ MonJoin
  \/ ReaderOff
  \/ StopCharging
  \/ RelayOff
  \/ stopReceiving
  \/ NetJoin
  \/ disconnect

Input == EndOfInput \/ Quit \/ processCommand

Monitor == MonitorEnds \/ onCpStateChange

LifeNext ==
  \/ Start_
  \/ Loop
  \/ Input
  \/ signalHandler
  \/ End_
  \/ Hear
  \/ Heard
  \/ ReceiverEnds
  \/ LineChanged
  \/ Monitor
  \/ serverLoop
  \/ Client
  \/ \E r \in Request : handleClient(r)

LifeSpec == LifeInit /\ [][LifeNext]_lifeVars

(***************************************************************************)
(* Every thread that can go on does: the scheduler's promise, needed of    *)
(* all but the detached threads.  Nothing is promised of the user, the     *)
(* peer, the line and the clients.                                         *)
(***************************************************************************)
FairLife ==
  /\ LifeSpec
  /\ WF_lifeVars(Start_ \/ Loop \/ End_)
  /\ WF_udp(Returns \/ Ends)
  /\ WF_lifeVars(Monitor)
  /\ WF_lifeVars(serverLoop)

-----------------------------------------------------------------------------
\* Only the hardware's reader has a thread; the rest says what each variable is.
LifeTypeOK ==
  /\ mon # "none" => setup.reader = "hardware"
  /\ box \in Box
  /\ last \in [state : IsoStates \cup {"idle"}, contactor : BOOLEAN, enable : BOOLEAN]
  /\ cp \in CpState
  /\ process \in {"up", "stopped", "crashed"}
  /\ setup \in Setups
  /\ main \in Places
  /\ running \in BOOLEAN
  /\ asked \in {"no", "early", "yes"}
  /\ shut \in BOOLEAN
  /\ final \in BOOLEAN
  /\ udp \in [at : {"none", "test", "handle", "done"}, message : Messages \cup {FirstLast}]
  /\ net \in [open : BOOLEAN, running : BOOLEAN]
  /\ mon \in {"none", "test", "notify", "done"}
  /\ reader \in [initialized : BOOLEAN, monitoring : BOOLEAN, level : CpState]
  /\ acceptor \in {"none", "test", "accept", "blocked", "done"}
  /\ server \in BOOLEAN
  /\ request \in [Request -> Calls \cup {"none"}]

(***************************************************************************)
(* No thread outlives what it works on: the receive thread has its socket  *)
(* and a controller whose lines are set up, the monitor a reader that is   *)
(* initialised, and when the controller is gone all three threads that can *)
(* be joined are gone.                                                     *)
(***************************************************************************)
UsesWhatLives ==
  /\ udp.at \in {"test", "handle"} => net.open /\ main \notin {"gpio", "connect"}
  /\ mon \in {"test", "notify"} => reader.initialized
  /\ acceptor \in {"test", "accept", "blocked"} => main \notin Stopping \ {"httpStop", "httpJoin"}
  /\ process = "stopped" => /\ udp.at \in {"none", "done"}
                            /\ mon \in {"none", "done"}
                            /\ acceptor \in {"none", "done"}

(***************************************************************************)
(* The program ends with the relay open when the box was disabled, and     *)
(* when the console's input or main_v2 has ended: the controller is then   *)
(* shut down twice, the second time with no thread left that could close   *)
(* the relay.                                                              *)
(***************************************************************************)
EndIsOff ==
  /\ process = "stopped"
  /\ ~box.enabled \/ (setup.mode \in {"interactive", "v2"} /\ shut)
  => box.pin[RelayPin] = "LOW"

(***************************************************************************)
(* A program that is asked to end comes to its end, or in the end waits    *)
(* for one of two things: a line of input, or a client for its accept      *)
(* thread.  No join, no lost message and no level of the line holds it up. *)
(***************************************************************************)
AwaitsLine == main = "getline"

AwaitsClient == main = "httpJoin" /\ acceptor = "blocked"

EndsOrWaits == asked = "yes" ~> [](process # "up" \/ AwaitsLine \/ AwaitsClient)

=============================================================================
