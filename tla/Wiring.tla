------------------------------- MODULE Wiring --------------------------------
(***************************************************************************)
(* The lines of the board under the programs that use them, one program at *)
(* a time: the controller, on the lines its configuration file names or,   *)
(* without the file, on those Configuration starts with, and the simple    *)
(* relay program of version 3.  Lines keep their levels, and sysfs keeps   *)
(* them exported, when a program ends or is killed; the next one may name  *)
(* other lines and may not be allowed to write all of them.  What the      *)
(* handlers of the controller do is WallboxController's, once for every    *)
(* choice of lines.                                                        *)
(***************************************************************************)
EXTENDS WallboxController

CONSTANTS
  Default,    \* the lines of a Configuration without a file
  Refusals    \* the sets of lines a program may find it cannot write

\* The lines the configuration file names.
Shipped == [ relay |-> RelayPin, green |-> GreenPin, yellow |-> YellowPin, red |-> RedPin ]

Wirings == {Shipped, Default}

Used(w) == {w.relay, w.green, w.yellow, w.red}

Leds(w) == {w.green, w.yellow, w.red}

\* No line is a relay's in one wiring and a LED's in another.
ASSUME WiringAssumption ==
  /\ Default \in [ relay : Pin, green : Pin, yellow : Pin, red : Pin ]
  /\ \A v, w \in Wirings : v.relay \notin Leds(w)
  /\ Refusals \subseteq SUBSET Pin

VARIABLES
  wiring,     \* the lines the controller was started with
  open,       \* the lines a write of the running program succeeds on
  exported,   \* the lines sysfs has files for
  simple,     \* whether the simple program is down, and its m_relayEnabled
  renamed,    \* history: setrelay was used in this life of the controller
  abandoned   \* history: the lines left on by a program killed or moved on

controllerVars == <<box, last, sent, cp, process>>
boardVars == <<wiring, open, exported, simple, renamed, abandoned>>
wiringVars == <<controllerVars, boardVars>>

\* The controller on the lines w, with the lines in o open to it.
On(w, o) == INSTANCE WallboxController WITH
              RelayPin <- w.relay, GreenPin <- w.green, YellowPin <- w.yellow,
              RedPin <- w.red, WritablePins <- o

Quiet == process # "up" /\ simple = "down"

\* The levels and exports of a board that has just been switched on.
Dark == [p \in Pin |-> "LOW"]

\* A program that is gone leaves the levels of the lines and nothing else.
Remains(pin) ==
  [ state |-> "IDLE", enabled |-> TRUE, relay |-> FALSE, relayPin |-> RelayPin, pin |-> pin,
    blink |-> FALSE ]

WiringInit ==
  /\ box = Remains(Dark)
  /\ last = FirstLast
  /\ sent = NothingSent
  /\ cp = "UNKNOWN"
  /\ process = "stopped"
  /\ wiring = Shipped
  /\ open = {}
  /\ exported = {}
  /\ simple = "down"
  /\ renamed = FALSE
  /\ abandoned = {}

-----------------------------------------------------------------------------
(***************************************************************************)
(* setPinMode exports a line unless an earlier program has, and that       *)
(* works on the lines the board has and the program may write.  Its result *)
(* is ignored.  A line is open when it is exported, by whomever, and not   *)
(* refused.                                                                *)
(***************************************************************************)
setPinModes(lines) ==
  \E refused \in Refusals :
    /\ exported' = exported \cup ((lines \cap WritablePins) \ refused)
    /\ open' = exported' \ refused

\* The lines among left that are still on count as abandoned.
Abandons(left) == abandoned' = {p \in abandoned \cup left : box'.pin[p] = "HIGH"}

\* The controller starts, with or without its configuration file.
StartController ==
  /\ Quiet
  /\ wiring' \in Wirings
  /\ setPinModes(Used(wiring'))
  /\ \E w \in {wiring'}, o \in {open'} : On(w, o)!Restart
  /\ renamed' = FALSE
  /\ Abandons({})
  /\ UNCHANGED simple

\* A call or a message of the running controller, on the lines it was started
\* with, and the time that passes.  CP levels only make calls that are here.
Serve ==
  /\ \E w \in {wiring}, o \in {open} :
       \/ On(w, o)!Start
       \/ On(w, o)!Stop
       \/ On(w, o)!Pause
       \/ On(w, o)!Resume
       \/ On(w, o)!Enable
       \/ On(w, o)!Disable
       \/ On(w, o)!Elapse
       \/ On(w, o)!Receive
  /\ Abandons({})
  /\ UNCHANGED <<wiring, open, exported, simple, renamed>>

Rename ==
  /\ SetRelayPin
  /\ renamed' = TRUE
  /\ Abandons({box.relayPin})
  /\ UNCHANGED <<wiring, open, exported, simple>>

Gone(pin, how) ==
  /\ process' = how
  /\ box' = Remains(pin)
  /\ last' = FirstLast
  /\ sent' = NothingSent
  /\ cp' = "UNKNOWN"
  /\ wiring' = Shipped
  /\ open' = {}
  /\ renamed' = FALSE
  /\ UNCHANGED <<exported, simple>>

ShutController ==
  /\ process = "up"
  /\ \E w \in {wiring}, o \in {open} : Gone(On(w, o)!turnOff(box).pin, "stopped")
  /\ Abandons({})

KillController ==
  /\ process = "up"
  /\ Gone(box.pin, "crashed")
  /\ Abandons({box.relayPin})

-----------------------------------------------------------------------------
(***************************************************************************)
(* SimpleWallboxController and its console.  It never reads the file: its  *)
(* line is the default one.  Its flag is set whatever becomes of the write.*)
(***************************************************************************)
writeRelay(level, ok) ==
  box' = IF Default.relay \in ok THEN [box EXCEPT !.pin[Default.relay] = level] ELSE box

StartSimple ==
  /\ Quiet
  /\ setPinModes({Default.relay})
  /\ writeRelay("LOW", open')
  /\ simple' = "off"
  /\ Abandons({})
  /\ UNCHANGED <<last, sent, cp, process, wiring, renamed>>

enableRelay ==
  /\ simple # "down"
  /\ writeRelay("HIGH", open)
  /\ simple' = "on"
  /\ Abandons({})
  /\ UNCHANGED <<last, sent, cp, process, wiring, open, exported, renamed>>

\* Variant: off clears the flag only.
disableRelayFlagOnly ==
  /\ simple # "down"
  /\ simple' = "off"
  /\ UNCHANGED <<controllerVars, wiring, open, exported, renamed>>
  /\ Abandons({})

disableRelay ==
  /\ simple # "down"
  /\ writeRelay("LOW", open)
  /\ simple' = "off"
  /\ Abandons({})
  /\ UNCHANGED <<last, sent, cp, process, wiring, open, exported, renamed>>

\* quit, the end of the input, or a signal and one line more.
EndSimple ==
  /\ simple # "down"
  /\ writeRelay("LOW", open)
  /\ simple' = "down"
  /\ Abandons({})
  /\ UNCHANGED <<last, sent, cp, process, wiring, open, exported, renamed>>

KillSimple ==
  /\ simple # "down"
  /\ simple' = "down"
  /\ UNCHANGED <<controllerVars, wiring, open, exported, renamed>>
  /\ Abandons({Default.relay})

\* The board restarts: nothing is exported and nothing is driven.
Reboot ==
  /\ Quiet
  /\ box' = [box EXCEPT !.pin = Dark]
  /\ exported' = {}
  /\ abandoned' = {}
  /\ UNCHANGED <<last, sent, cp, process, wiring, open, simple, renamed>>

WiringNext ==
  \/ StartController
  \/ Serve
  \/ Rename
  \/ ShutController
  \/ KillController
  \/ StartSimple
  \/ enableRelay
  \/ disableRelay
  \/ EndSimple
  \/ KillSimple
  \/ Reboot

WiringSpec == WiringInit /\ [][WiringNext]_wiringVars

-----------------------------------------------------------------------------
RelayLines == {w.relay : w \in Wirings}

(***************************************************************************)
(* Power that the controller's own relay line carries is reported, in the  *)
(* status and to its own guards, also on a line that an earlier program    *)
(* left on and that this one may not write; the simple program reports     *)
(* what its line carries when it may write it.  (Reported power need not   *)
(* be there: set-up sets the flag whatever becomes of the write.)          *)
(***************************************************************************)
PowerIsReported ==
  /\ Up /\ ~renamed /\ box.pin[box.relayPin] = "HIGH" => box.relay
  /\ simple # "down" /\ Default.relay \in open
       => (box.pin[Default.relay] = "HIGH" <=> simple = "on")

(***************************************************************************)
(* While no program runs, a relay line is on only because a program was    *)
(* killed or told to use another line while it was on: an orderly end, or  *)
(* a start that fails, leaves none, over any series of programs, wirings   *)
(* and refused lines.  An orderly end is one step here; in its real steps  *)
(* a message in between can leave the relay on (module Lifecycle).         *)
(***************************************************************************)
OnlyAbandonedStayOn ==
  Quiet => \A p \in RelayLines : box.pin[p] = "HIGH" => p \in abandoned
=============================================================================
