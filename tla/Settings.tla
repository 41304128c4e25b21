------------------------------- MODULE Settings -------------------------------
(***************************************************************************)
(* Which GPIO controller and which CP reader a program gets.  The word in  *)
(* WALLBOX_MODE is read twice, by the program's main and by the            *)
(* controller, and the two do not know the same words; the file's mode     *)
(* counts for the GPIO controller of wallbox_control_v4 only.              *)
(***************************************************************************)
\* The words either reads, one neither knows, and no word at all.
Word == {"development", "dev", "production", "prod", "simulator", "sim",
         "hardware", "hw", "other", "unset"}

\* What the file's "mode" says: production, anything else, or nothing.
FileMode == {"production", "other", "none"}

-----------------------------------------------------------------------------
\* Configuration, after loadFromFile and loadFromEnvironment.
Mode(word, file) ==
  IF word = "unset"
  THEN IF file = "production" THEN "PRODUCTION" ELSE "DEVELOPMENT"
  ELSE IF word \in {"prod", "production"} THEN "PRODUCTION" ELSE "DEVELOPMENT"

getGpioType(word, file) ==
  IF Mode(word, file) = "DEVELOPMENT" THEN "stub" ELSE "bananapi"

\* main_v2_with_api: what is not development is production.
gpioType(word) ==
  IF word \in {"unset", "dev", "development"} THEN "stub" ELSE "bananapi"

\* The reader the factory makes for the controller; "none" when it throws and
\* the start fails.
Reader(word) ==
  IF word \in {"unset", "simulator", "sim", "development", "dev"} THEN "simulator"
  ELSE IF word \in {"hardware", "hw", "production", "prod"} THEN "hardware"
  ELSE "none"

-----------------------------------------------------------------------------
\* All that read a word make of it real lines with the line's CP reader, or no
\* real line at all with the simulator's, whatever the file says.
Together(word) ==
  \A file \in FileMode :
    /\ getGpioType(word, file) = gpioType(word)
    /\ (gpioType(word) = "bananapi" /\ Reader(word) = "hardware")
         \/ (gpioType(word) = "stub" /\ Reader(word) = "simulator")
=============================================================================
