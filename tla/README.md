# Wallbox: a verification development

TLA+ models, TLC runs and TLAPS proofs for the wallbox controller in this
repository: the program that switches the relay of a charging station, drives
its three LEDs, follows the control pilot (CP) line of the vehicle, talks UDP to
a charging simulator and takes commands from a console and an HTTP API.
`PROJECT.json` lists the runs, the theorems, and for every definition the lines
of source it stands for.

## 1. The system

| Part | Source | State | Operations | Interacts with |
|---|---|---|---|---|
| ChargingStateMachine | `src/core/ChargingStateMachine.cpp` | `m_currentState` (9 states), listeners | startCharging, stopCharging, pauseCharging, resumeCharging, enterErrorState, reset | called by the controller on any thread; calls its listeners in that thread |
| WallboxController | `src/core/WallboxController.cpp` | `m_wallboxEnabled`, `m_relayEnabled`, `m_currentCpState`, the statics of `processNetworkMessage` | initialize, shutdown, start .. resume, enable, disable, setRelayState, updateLeds, sendStatusToSimulator, the callbacks for messages, state changes and CP changes | owns state machine, GPIO, network, CP reader |
| Application, mains | `include/wallbox/Application.h`, `src/core/main_v4.cpp`, `main_v2*.cpp` | `m_running` | initialize, run, runInteractive, runDual, processCommand, requestShutdown, shutdown | console thread, SIGINT handler |
| HttpApiServer, ApiController | `src/api/HttpApiServer.cpp`, `include/wallbox/ApiController.h` | socket, accept thread, one detached thread per request | start, stop, serverLoop, handleClient | calls the controller |
| UdpCommunicator | `src/network/UdpCommunicator.cpp` | sockets, receive thread | connect, send, startReceiving, stopReceiving | calls `processNetworkMessage` |
| CP signal readers | `src/signal/` | current level, monitor thread, listeners | read, setCpState, startMonitoring, monitorLoop | call `onCpStateChange` |
| GPIO controllers | `src/gpio/` | the lines | initialize, setPinMode, digitalWrite | called by the controller on any thread |
| Configuration, factories | `include/wallbox/` | a singleton of settings | loadFromFile, loadFromEnvironment, setRelayPin | read everywhere |
| Simulator | `src/simulator/simulator.cpp` | the peer's state and contactor | console commands, recv_cmd, send_state | UDP |
| Manual controller (v1) | `src/core/main.cpp` | globals, watchdog counters | process_command, recv_state, send_cmd, the loop | UDP, console |
| SimpleWallboxController (v3) | `src/core/SimpleWallboxController.cpp`, `main_v3.cpp` | `m_relayEnabled` | on, off, end | writes the relay's line that other programs use too |
| Web application | `web/react-app/src` | the last status, loading, error, connected | the status timer, the buttons | asks the HTTP API |

`src/WallboxCtrl` and `src/wallbox-portable-deploy` hold copies of the same
sources, `scripts` and `docs` deployment and documents (section 6).

### What is hard

* **No locks.** The console, every HTTP request, the UDP receive thread and the
  CP monitor run the controller's handlers at the same time. `m_currentState`,
  `m_wallboxEnabled` and `m_relayEnabled` are plain members.
* **A refresh is a command.** `updateLeds` runs on every state change and closes
  the relay of an enabled box, so the order of a handler's calls matters.
* **Edges.** A message acts by its difference from the last one, and the answer
  is sent on edges only.
* **Restarts.** The lines keep their levels when the process dies; a new process
  begins enabled with the relay on.
* **A line that can be renamed.** `setrelay` changes the configuration under the
  running controller.
* **Lines that outlive their program.** Every program leaves its lines exported and
  at their levels; the next one may name other lines, with or without its file, and
  may be refused some of them, which is only logged.
* **Answers in any order.** The page asks for the status on a timer without waiting
  for the last answer, while its buttons and the console change the box.

## 2. The modules

| Module | What it is |
|---|---|
| `ChargingStates` | the constants of the state machine: states, matrix, the path every call walks |
| `ChargingStateMachine` | abstract: what the class promises, one call at a time |
| `ChargingThreads` | the class as several threads use it, one memory access per step |
| `ChargingThreadsProofs` | theorems about it, for any set of threads |
| `WallboxController` | the controller, one handler per step, with relay, LEDs, lines, messages, CP levels, crash and restart |
| `WallboxControllerProofs` | theorems about it, for any lines and inputs |
| `WallboxThreads` | the controller's handlers as interleaving threads, one memory access per step |
| `WallboxAtomic` | WallboxThreads without overlap, against WallboxController |
| `WallboxThreadsProofs` | theorems about both, for any threads, calls and messages |
| `SimulatorLink` | the simulator and WallboxController at the two ends of UDP |
| `ManualController` | the first controller, `main.cpp`: one loop, a watchdog, discrete time |
| `ManualControllerProofs` | theorems about it, for any lengths of its waits |
| `Lifecycle` | WallboxController in its program: start, service and end of the main thread against the other threads |
| `LifecycleProofs` | theorems about it, in every mode, for any inputs |
| `Wiring` | WallboxController and the simple relay program in turn on one board, whose lines keep their levels |
| `WiringProofs` | theorems about it, for any lines and refusals |
| `WebApp` | the React page and its requests, on WallboxController |
| `RemoteProofs` | theorems about SimulatorLink and WebApp, for any bounds on what is under way |
| `ControlPilot` | the hardware reader's way from a line to a level |
| `Settings` | which lines and which CP reader a program gets |
| `ConfigFile` | the configuration file as box and simulator read it |
| `InputsProofs` | theorems about these three, for every input |
| `MC...` | the instances TLC checks |

`ChargingThreads` refines `ChargingStateMachine` when calls do not overlap.
`WallboxThreads` refines `ChargingThreads` (overlapping or not): the controller
uses its state machine as that module says. `WallboxThreads` without overlap
refines `WallboxController` (`WallboxAtomic`), and `WallboxController` refines
`ChargingStateMachine`. So each sequential model is the concurrent one with the
overlap taken away, and what is true of the threads can be told from what is
true only of threads that wait for one another.

### ChargingThreads

A thread is at one of five places of a call: comparing (`test`), in `transitionTo`
before the equality (`same`), before `isValidTransition` (`valid`), before the
assignment (`write`), or in the listeners (`notify`). `focus` is the state the
comparison is with, or the target. A test that fails goes to the next one of the
if-else chain (`TestAfter`) or returns; a transition that succeeds goes to the next
of the `&&` chain (`Path`), one that fails returns. The variable `overlap`, free in
the first state and never changed, says whether a call may begin while another is in
progress: one specification stands for both ways of using the class.

### WallboxController

`box` is the controller's record: state, enabled flag, relay flag, the name of the
relay's line, and the levels of all lines. Every procedure of the class is an
operator from box to box under its own name, and an action applies one. `last` holds
the statics of `processNetworkMessage`, `sent` the last answer, `cp` the CP level.
A blinking LED gets, at a refresh, what the static behind it says, and the static
toggles only when a refresh finds enough time gone: `blink` is the value the next refresh
will find, `Elapse` the time that toggles it (one bit for the three statics: of
the patterns a handler goes through, only the last one stays). Between refreshes the line stays as it is. Modules that look
at no LED leave `Elapse` out or the bit at FALSE.
`WritablePins` are the lines a write succeeds on: all of them with the stub, the
exported ones with sysfs. `Crash` ends the process as a kill does; `Restart` runs
constructor and `initialize`, or its failing half followed by the destructor.
`onStateChange` is inside `transitionTo`.

### WallboxThreads

A thread has a stack of frames, a frame is the sequence of reads and writes that a
procedure still has to do. `Guard`, `StopIfCharging`, `IfRelay` and the edges are
reads, `Able`, `Line`, `Flag`, `Write` and `Save` writes. A procedure that returns
false drops its frame (`Failed`), as `if (!m_stateMachine->startCharging()) return
false` does. The LED lines, failing writes and renamed lines are left to
WallboxController.

### SimulatorLink

It extends `WallboxController` with the simulator's globals (`run`, `g`), what it
shows of the box (`shown`) and a set of datagrams in each direction. A set stands for
any number of copies of each datagram: `HearOnce` takes one away, `HearTwin` leaves a
copy, `Lose` loses one, and the order of receipt is free. `Hear` is one round of the
receive loop: `processNetworkMessage` of WallboxController, and the answer on its way
when the message had an edge. The simulator's loop sends every 100 ms and reads a
command every 60 ms or less, so any number of commands may come between two sends. A
process that quits loses its globals; one that is run again starts on the initial
ones. CP levels and the orderly end are left to `WallboxController`.

### ManualController

One action per stage of the loop, in its order: `while`, `recv_state`, `decide` (the
watchdog and `setElectricity`), `send_cmd`, `input` (the `select` for a line), `getline`
with the command of the line, and `cleanup` at the end; `on_sigint` at any place. `age`
is the time since the last message in units the constants choose; it grows in the waits
only, the rest of a round being short against them. The wait of `getline` for the end of a
line that `select` has reported has no limit, and SIGINT does not end it, because
`std::signal` restarts the read: `Typing` is time that passes there, any number of times.
`stalled` is a history: that has happened since the watchdog was last looked at. Only
SIGINT is handled; SIGTERM ends the process like a kill, with the line as it is, and is left out.

### Lifecycle

It extends `WallboxController` with the main thread of `main_v4.cpp`. `main` is the
place of that thread: one place per call of `initialize` and `shutdown`, the wait for
a line, and the destructors, which take the same way as `shutdown` a second time
(`final`). The receive thread (`udp`), the monitor of the hardware's CP reader (`mon`),
the accept thread (`acceptor`) and the detached threads (`request`) each have a place
of their own; a handler is entered in one step and done in another, so that it can be
under way while the main thread goes on. `setup.mode` also takes in the older
programs, which have no Application: `main_v2_with_api.cpp` waits for a signal and
stops server and controller itself; `main_v2.cpp` waits while the controller is running, which only
the controller's `run` would say, so that it shuts down as soon as it has started. The levels
the reader reports are `ControlPilot`'s, the reader of a mode is `Settings`'. `Hear` and `Heard` are the two halves of a
message, `LineChanged` and `onCpStateChange` of a level, `Client` and `handleClient` of
a request. A detached thread that runs once the destructors have begun works on objects
that may be gone: it finds them as they were, or the process crashes. What two handlers
do to each other when they overlap is `WallboxThreads`' subject: here what a handler
does is done in its second step. The answers to messages are left out.

### Wiring

It extends `WallboxController` and instantiates it once more for every choice of lines
(`On(w, o)`): the lines `w` of the configuration file or of `Configuration`'s
constructor, and the set `o` of lines the program's writes succeed on. `Restart` and the
handlers of the running controller are that instance's; the lines themselves are
`box.pin`, which is all that a program leaves behind (`Remains`). `exported` is what
sysfs has files for: `setPinModes` adds the lines the board has (`WritablePins`) and the
program may write, and a line an earlier program exported is open to a later one unless
it is refused. The simple program takes the default relay line and nothing else.
`abandoned` is a history: the lines left on by a program that was killed or that
`setrelay` moved to another line.

### WebApp

It extends `WallboxController` with what `App` keeps (`page`), the status requests
under way (`poll`), each with what it has read so far, and the request of a button
(`deed`). An answer reads the state first and the flags later, as `getStatusJson` does,
and calls may come in between. Answers of different requests arrive in any order;
a request fails at any time until `calm`, and its call may have been made all the same.
`started` is a history: somebody else has started a session since the button's call.

### ControlPilot, Settings and ConfigFile

Operators without state (their theorems are in `InputsProofs`); `MCLifecycle` takes its
levels and readers from the first two. `ConfigFile` has two readers of one text, which is
a sequence of words, numbers, colons and other marks: neither parses JSON, both look for
the first place of a key's name, the box for what stands right after the next colon, the
simulator for the next digits, wherever they are.

## 3. What the runs show

| Run | Shows |
|---|---|
| `charging_threads` | two threads make all calls, overlapping: `NeverStranded`, `RestsWhenQuiet`, and with fairness `TransientIsLeft`; not overlapping: `LegalChanges`, and the refinement of the abstract class (`ImplementsPromise`) |
| `wallbox_handlers` | all handlers, messages, CP levels, crashes: the nine properties below |
| `wallbox_doc_reset` | disconnecting the plug does not reset an error (`UnplugResets`, which the documents promise) |
| `wiring` | series of programs on one board: power on the controller's own relay line is reported although writes fail (`PowerIsReported`); with no program running, and every orderly end taken as one step, a relay is on only after a kill or a `setrelay` (`OnlyAbandonedStayOn`); a disabled box never charges, on whatever lines (`DisabledNeverCharges`) |
| `web_app` | a button's effect is on the page when it works again (`DeedIsSeen`); a box that is left alone is shown as it is in the end, and stays so (`PageCatchesUp`) |
| `threads` | overlapping handlers use the state machine as ChargingThreads says (`ImplementsClass`); a box that has been disabled and rests stays dead under them until somebody enables it (`DeadStaysDead`) |
| `threads_doc_disable` | a start that overlaps a disable can leave the box disabled and charging, its relay closed (`DisablingStopsCharging`) |
| `wallbox_atomic` | handlers that do not overlap are atomic |
| `simulator_link` | what the simulator leaves standing is heard (`PeerIsHeard`); its `idle` ends every session it started (`IdleEndsSession`); nothing it sends enables a disabled box (`LocalDisableStands`); answers to edges tell it of a disabled box in the end (`EdgesTellStatus`) |
| `manual_controller` | the first controller: no request of a stack that went silent keeps the relay closed longer than a round past the watchdog, unless a line is waited for (`FreshOrOpen`); `disable` opens it and no round under way closes it (`DisabledIsOpen`); the report tells it (`ReportIsCurrent`); quit and SIGINT end the program, or it waits for a line (`QuitEnds`) |
| `lifecycle` | every mode from start to end: no thread outlives what it works on (`UsesWhatLives`), a disabled box is dead at every step of start and end (`DisabledIsDead`), and ends dead (`EndIsOff`); a program asked to end does so, or waits for a line or a client (`EndsOrWaits`) |
| `lifecycle_doc_relay` | shutdown switches the relay off before it stops the receive thread, and a message in between leaves the program ended with the relay on |

Two limits of `PowerIsReported` are the code's own. Reported power need not be there:
`setupGpio` sets the flag whatever becomes of the write. And after `setrelay` the
controller reports the line it names, not the one that is on. The controls of the page
are fewer than its text says: no answer names a state `PAUSED` (a paused session is
`READY`), so that Continue is never offered (`App.js:161`) and STOP not for a paused
session (`App.js:171`); the console resumes and stops it.

`web_app`'s `DeedIsSeen` speaks of Pause and STOP; it says nothing of a status that
arrives afterwards from an older request, which may show the box as it was until the
next answer of the timer. `PageCatchesUp` says that this ends.

Other places where the documents and the code differ, plain from the definitions: after `setrelay`
the old relay line keeps its level, also when the box is disabled
(`docs/GPIO_HARDWARE_TEST_REPORT.md` says "Relay OFF"); a paused session keeps its
relay on (`docs/architecture/CLASS_ARCHITECTURE.md` says "Relay OFF");
`ChargingStateMachine` has no mutex (`docs/diagrams/CLASS_DIAGRAM.md` says it has);
the peer's stop ends a session in CHARGING only, a paused one survives it (the comment
at `WallboxController.cpp:602` says "can be called from any state (always allowed)");
the yellow LED of an idle box that is left alone stays dark (the comments at
`WallboxController.cpp:348` and `:815` say "Yellow always ON" and "Yellow BLINK",
`docs/GPIO_HARDWARE_TEST_REPORT.md:67` says "**ON**"), since the static behind it starts
as false, only a refresh toggles it, and handlers alone refresh, as no program calls `run`;
the box answers edges and does not send its status every 100 ms, because no program
calls `WallboxController::run` (`docs/api/API_REFERENCE.md` says "100ms | Both
directions"), so a simulator without a user shows a box disabled at its own console as
enabled; `quit` and signals do not always end the program
(`docs/guides/DUAL_MODE_GUIDE.md` says they do): a signal does not end a wait for a
line, the close of the listening socket does not end `accept`, and a signal before
`m_running = true` (`Application.h:120`) is lost. `EndsOrWaits` says that these are the
only ways not to end.

`StoppedIsOff` holds in `wallbox_handlers`, where shutdown is one step, and is proved
there; `lifecycle_doc_relay` shows that it is the order of shutdown's own steps that
breaks it: a message between the relay's opening and the end of the receive thread closes
the relay again (the shortest trace may be the shutdown after a start that failed; the
same happens after `quit`). `OnlyAbandonedStayOn` takes ends as one step too, and has the
same limit. `EndIsOff` says what is left: the box that was disabled, and the console
mode's end of input, where shutdown runs twice.

The properties of `wallbox_handlers`: a disabled box is dead (`DisabledIsDead`); the
relay's flag is the level of its line (`RelayFlagIsLevel`); the LEDs fit the state
as the last refresh left them (`LedsTellState`): what blinks may be dark or lit, so that
an idle box can be all dark, and a paused session can look like a charging one; an orderly
end, in one step, leaves the relay off (`StoppedIsOff`); a message
that withdraws the contactor opens the relay whatever else it carries
(`WithdrawnContactorOpens`); no message resumes a paused session
(`MessagesNeverResume`); the
answer to a message is the status after it (`AnswersAreCurrent`); the state machine
inside keeps the promise of its class (`ImplementsStateMachine`).

On the same module `wallbox_doc_reset` is refuted: level F puts the machine in ERROR, and
level A, the plug disconnected, leaves it there, since `reset` has no caller; only a
restart ends the error, which `NothingLeavesError` proves for all inputs. In
`threads_doc_disable` a start has passed its guard and reached READY; a disable finds
nothing to stop; start moves on to CHARGING; the disable clears the flag and opens the
relay; start closes it.

### Bounds, and why they are enough

* Threads. Two overlap in `charging_threads`: a race needs two, and the safety
  properties are proved for any number. `threads` has one user and the receiver, with
  every call and message that does not enable: those that do would end what
  `DeadStaysDead` speaks of, and run in `wallbox_atomic`, as does the CP monitor, whose
  only call, the stop of a session, the user makes too. `threads_doc_disable` has two
  users who start and disable.
* Lines: the four the controller drives; in `wiring` the four of the file and the four
  of `Configuration`, all different. `setrelay` takes numbers up to 27, so it names the
  relay or the green line of `Configuration` there, a line in use and a LED's. A
  program may write everything, or all but the relay lines, or nothing. The peer moves
  the contactor only, which closes and opens the relay past the session; sessions come
  from the console. One program runs at a time, and the board restarts only when none
  does: power that fails under a program is `KillController` with `Reboot` after it.
* The page: one request of the timer besides the one a button waits for. Two are
  enough for an answer that is overtaken and for one that is torn; more differ in how
  often, not in what they can show. The console does everything but stop, which is a button here.
* Messages: every case of the switch and a state it has no case for, with every
  combination of contactor and enable.
* Datagrams: two different ones on the way to the box, so that one can overtake
  another, each in any number of copies; one on the way back. The simulator's user
  sends every state and leaves the contactor off, whose edges `wallbox_handlers` has
  with every other edge.
* Calls in `simulator_link`: all but `start` and `stop`; a session the user starts at
  a box that has heard `idle` already is not the peer's to end.
* `lifecycle`: each of the three modes and both older programs, both readers, one detached thread, the calls
  `start` and `disable`, the two levels the hardware reports, four messages: a session
  with its contactor, and one that disables. One thread of each kind is all the program
  has but for the detached ones, and these meet the other threads only in `box`.
* Time: units of 100 ms, a watchdog of 20, a wait of 2 for a datagram, 1 for input, and
  any number of units for the rest of a line. `age` is capped one above the bound `FreshOrOpen` states.
* No other counters: all state is finite, so the runs exhaust it.

### Fairness

`TransientIsLeft` assumes weak fairness of every thread's steps inside a call: an
operating system thread that can run is run again. Nothing obliges a thread to make
a call, and there are no locks to wait for.

`PeerIsHeard` and `EdgesTellStatus` assume that the simulator's loop goes on sending
(weak fairness of `send_state`), that a datagram sent time and again is received at
some time (strong fairness of `HearCurrent` and `Told`), and that the network does not
copy for ever what is no longer sent (weak fairness of `HearStale`). Processes need
not be restarted: the properties speak of processes that stay up. `PageCatchesUp`
assumes weak fairness of the timer, which the browser keeps while the page is open, of
each thread that serves a request with the arrival of its answer, and of a button's
request; it speaks of a console and a network that are quiet from some time on (`calm`). `QuitEnds` assumes
that the loop's next stage is run, whose two `select`s have timeouts; nobody has to end
the line `getline` waits for, so the loop may stay there for ever, and the property says
so. `EndsOrWaits` assumes weak
fairness of the main thread outside `getline`, of the receive thread's return and end,
of the monitor, and of the accept thread outside a blocked `accept`: threads that can run
are run. Nothing is assumed of the user, the peer, the line, the clients and the detached
threads.

### Undefined behaviour

Unsynchronised accesses to plain members are data races. The models take each
access as atomic, with the interleaving left open: the accesses are of single
bytes or words, which the compilers of the supported targets neither tear nor
invent; a compiler that keeps a value in a register over adjacent reads produces a
subset of these behaviours.

## 4. What is proved

For every set of threads and calls (`ChargingThreadsProofs`): type correctness,
`NeverStranded`, `RestsWhenQuiet`, and, when calls do not overlap, `LegalChanges` and
the refinement `ImplementsPromise` (`SerialCallsKeepPromise`): a call that is under way
alone has left the state as it found it or has taken the first steps of its path, so
the state it began from and the test it passed determine what the class promises. The
argument for `NeverStranded`: whoever wrote a transient state is in the listeners
with a chain to go on with, or has passed on to a target that is legal from here;
another thread that moves the state to a transient one takes the duty over, and a
thread only gives up at a check that finds its target illegal, which means the state
had moved and the mover has the duty. OFF is never written, so the state is
transient or resting.

For every set of lines, peers' states and CP levels (`WallboxControllerProofs`):

* with any `SettablePins` and `WritablePins`: `TypeOK`, `DisabledNeverCharges`,
  `MessagesNeverResume`, `ErrorIsFinal` (nothing leaves ERROR but a restart: what
  `wallbox_doc_reset` finds in one case, for all inputs), and the refinement of
  `ChargingStateMachine`. The inductive invariant is `Guarded`: charging implies
  enabled. `disableWallbox` needs it, because its stop is refused on a disabled box:
  were the box already disabled and charging, disabling it again would not stop it.
* with `FixedRelay` (setrelay names the relay's own line only, and writes to it
  succeed): `DisabledIsDead`, `RelayFlagIsLevel`, `StoppedIsOff` (of shutdown as one step),
  `WithdrawnContactorOpens`. The invariant is `Sound`: the flag is the line, and the
  relay is on in an enabled box only. Each procedure has a lemma `...Serves` that says
  it keeps `Guarded` and `Sound`; handlers compose them. `AnswersAreCurrent` needs
  `Sound` too (`AnswersTell`): an answer copies the flag, and is meant to tell the line.
* with `FixedLines` (the same, and writes to the LEDs succeed):
  `LedsTellState` (`LedsTell`), whatever the statics of the blinking LEDs say. Every
  procedure that moves the state ends in a refresh, and those that do not, leave state
  and LEDs alone, as time does.

For any set of threads whose handlers overlap, in any order of their accesses
(`WallboxThreadsProofs`): `TypeOK` (`TypeCorrect`), the refinement of `ChargingThreads`
(`ThreadsImplementClass`), and `DeadStaysDead` on a box that nobody enables
(`DisabledBoxStaysDead`). `ThreadInv` says of every stack that it is outside every call
of the state machine, or that its topmost frame holds exactly one operation of a call,
first in the frame or behind the refresh it waits for: calls do not nest, so what
`ChargingThreads` sees is a matter of the stack alone, and a step on the operation is
its step. `DeadInv` says where the operations are that could give a disabled box power
or a session: behind a guard, or behind a condition on the relay's flag, that is the
next operation of its thread and fails. While handlers do not overlap, `SerialDisabledRests`
(`DisabledBoxRests`), which handlers that overlap do not keep (`threads_doc_disable`). `SerialInv` has two parts.
`Paired`: in every frame a write to the line is followed by that to the flag, so the two
differ only where the flag comes next. `Phase`: an enabled box nobody disables
(`OnDuty`); one being disabled, enabled still, whose stop cannot fail while the session is
in CHARGING (`Leaving`, `Closing`), which is what stopping before the flag is cleared is
for; one that is disabled and whose relay comes next (`Darkens`); a dead one (`OffDuty`),
for which `DeadInv` is used again until `enable` begins.

For any watchdog and any waits (`ManualControllerProofs`): type correctness,
`FreshOrOpen`, `DisabledIsOpen`, `ReportIsCurrent`. `FreshAtPlace` says
how old the message can be at each place of the loop while the relay is on and no line
was waited for: at most the watchdog's time after a decision, and one wait more after
each wait. `Reported`
says that a report copies the flags, and that those of a disabled box have the relay
open, which is why only a `disable` can make a report wrong.

For every board, any two wirings and any refusals (`WiringProofs`): `PowerIsReported`,
`OnlyAbandonedStayOn`, `DisabledNeverCharges`. The invariant `WInv` says that a running
controller whose line has not been renamed reports the power on it, that the simple
program knows its line where it may write it, and that every relay line that is on is
the running program's or an abandoned one. Its last part needs the first two: at an
orderly end the program switches off the line it knows of, and nobody else would. tlapm cannot cite
a lemma through an instance with parameters, so the procedures of the controller have
lemmas of their own here (`...Writes`, `...Serves` on the lines `w` open in `o`): what they
write is LEDs and, where it is open, the relay. `WiringAssumption` says that no wiring's relay is
another's LED, as the numbers of `Configuration.h` (21, 17, 27, 22 and 586, 587, 590,
579) have it: were it so, one program's LED would be power that no program reports.

For every mode, any inputs and any number of detached threads (`LifecycleProofs`):
`LifeTypeOK`, `UsesWhatLives`; with a writable relay line `DisabledIsDead` between any
two steps of start and end, and `EndIsOff`. `ThreadsInv` says which thread may be
there at which place of the main thread. A join that is skipped is what makes it
inductive: `stopMonitoring` and `stopReceiving` do nothing when their flag is cleared,
and `shutdown` runs twice; the flag is cleared by the stop alone, which joined. `TwiceInv` says
that the second shutdown finds no thread of the first and that a console has none
but these; from there `OffInv` gives the relay off.

For any bounds on what is under way (`RemoteProofs`): every step of peer,
network and box is a step of `WallboxController` or leaves the box alone
(`LinkImplementsController`), so that every theorem about the controller holds with the simulator at
the other end; `LocalDisableStands`, `LinkTypeOK`, and, where only the peer starts sessions,
`IdleEndsSession`. `LinkInv` says that everything heard or under way is one of the
simulator's own datagrams, which all carry enable TRUE: there is no enable edge.
`SessionInv` adds what `idle` needs: the box is in a state its stop accepts, IDLE if
`idle` was heard last. The calls at the box other than start leave IDLE
alone, so a peer's word is behind every session, a paused one (READY) included.

For any number of the timer's requests (`RemoteProofs`): the page is one more user of
`WallboxController` (`WebImplementsController`), and `DeedIsSeen` (`DeedSeen`). `PageInv` says that a
button is waited for exactly while its request is under way, and that the status on
its behalf is asked for only once the call is answered; `GrantedInv` that from a
granted pause or stop on, until somebody starts, the box does not charge and nothing read on that behalf
says so.

For every line and every voltage (`ControlPilot`; the theorems about inputs are in `InputsProofs`): the reader reports A or C and
nothing else, C when the line cannot be read (`TwoLevelsReported`), so that the faults E
and F are beyond this hardware; the bands leave out -10 V to 0.5 V (`BandsLeaveOut`),
0 V among it, which `ICpSignalReader.h` calls level E. For every word of
`WALLBOX_MODE` and every file (`Settings`): the words `dev`, `development`, `prod`, `production` give lines
and a CP reader that belong together in every program (`CommonWordsAgree`); a production
file without the word gives real lines and the simulator's reader, which no program feeds
(`FileAloneSplits`). Words only one of the readers knows split them too: `hardware` gives
the stub's lines and the hardware's reader. For every file (`ConfigFile`): where the ports
are unsigned numbers or absent, the two ends of UDP meet (`PortsMeet`), and both take the
same address (`OneAddressForBoth`). That the file is the same is a hypothesis: the simulator
reads `config.json` of its directory, `main_v4` `config/development.json`; and so is that
the environment leaves the port alone, since only the box reads
`WALLBOX_UDP_LISTEN_PORT`. Where a port is not an unsigned number they differ: the simulator takes digits from the next
value when a key has no number, and drops a sign; a number no int holds ends it, where the box takes
its default.

The constants' assumptions are `WaitsAssumption`, `WiringAssumption`, `WebAssumption`, `LinkAssumption`, `LifecycleAssumption`, `PinsAssumption` (the lines are distinct) and
`InputsAssumption`; TLC evaluates all of them.

Only model-checked: the refinement of `WallboxController` by WallboxAtomic, and liveness
(fairness and ENABLED are beyond the prover).

Two proofs failed for a reason and corrected the model. CASE chooses freely among arms
that hold together, where TLC takes the first, and an `else if` excludes the ones before it: the edges
of a message are told apart by disjoint guards now. And what a relay line may carry
was false on a board where one wiring's relay is another's LED, which TLC's instance has
not: hence `WiringAssumption`.

## 5. Plan

Written so far: the modules above. What is left is proof, most important first:

1. The refinement of `WallboxController` by WallboxAtomic (`ImplementsController`): what is
   left on a stack, run to its end, is the rest of one handler of `WallboxController`;
   `SerialInv` and the phases of section 4 are its first half.

## 6. Not modelled

* `WallboxController::run` and the simulator CP reader's `setCpState` and `handleMessage`:
  no program calls them (`WallboxController.cpp:487` drops the messages they are for).
* The copies in `WallboxCtrl` and `wallbox-portable-deploy`. Two thirds of the
  repository's C++ lines are theirs, and the map covers none of them: 26 of the 34 source files of
  WallboxCtrl are the same text as those modelled here. The others differ in prompts,
  includes and comments; in LEDs that toggle with each refresh instead of with time
  (`blink` would toggle in `showLeds`, and `Elapse` be gone) and an idle box's yellow LED, steady instead of blinking;
  and in a Configuration whose mode is the environment's alone: a file that says
  production gives the stub's lines there unless the word is set. In
  `wallbox-portable-deploy` main_v3 and main_v4 have changed names. None of it touches
  session, messages or threads; but nothing here has been checked on these files.
* Text: console output, logs, JSON, HTTP parsing, routing, CORS, the configuration file
  letter by letter (its search for the log file's key never matches,
  `Configuration.h:213`), the API's port and the limits it reads; sysfs beyond exports, refusals and levels (`setValue`
  reports success once the value's file is open).
* The signal handler's use of streams for its log (`main_v4.cpp:56`), which a handler must not use: it is one step.
* The ISO 15118 stack, an external library, and `IsoStackCtrlProtocol_impl.cpp`: field
  defaults, byte swaps and names for a header that is not in the repository.
* The socket's queue in the first controller: `age` counts from the moment a datagram is
  read, as the program does.
* Scripts, documents, configuration files.
