----------------------------- MODULE InputsProofs -----------------------------
(***************************************************************************)
(* What the program makes of what it is given at its start and reads from  *)
(* outside: the Control Pilot's line (ControlPilot), the word that chooses *)
(* the hardware (Settings) and the configuration file (ConfigFile).  These *)
(* are functions, not behaviours, and the theorems are about every input.  *)
(***************************************************************************)
EXTENDS ControlPilot, Settings, ConfigFile, TLAPS

-----------------------------------------------------------------------------
(***************************************************************************)
(* The Control Pilot's line.                                               *)
(***************************************************************************)

(***************************************************************************)
(* The reader reports A or C, whatever its line does: the sessions that D  *)
(* starts and the faults of E and F never come from this hardware, and a   *)
(* line that cannot be read counts as a vehicle that is ready.             *)
(***************************************************************************)
THEOREM TwoLevelsReported ==
  /\ Reported = {"STATE_A", "STATE_C"}
  /\ readCpState("none") = "STATE_C"
<1>1. readCpState("HIGH") = "STATE_A"
  BY DEF readCpState, voltageToState, readVoltage, digitalRead
<1>2. readCpState("LOW") = "STATE_C"
  BY DEF readCpState, voltageToState, readVoltage, digitalRead
<1>3. readCpState("none") = "STATE_C"
  BY DEF readCpState, voltageToState, readVoltage, digitalRead
<1> QED BY <1>1, <1>2, <1>3 DEF Reported, PinValue

(***************************************************************************)
(* The bands leave out what lies between E and F, 0 V among it, which      *)
(* ICpSignalReader.h calls STATE_E, and nothing else.                      *)
(***************************************************************************)
THEOREM BandsLeaveOut ==
  ASSUME NEW mV \in Int
  PROVE  voltageToState(mV) = "UNKNOWN" <=> (-10000 <= mV /\ mV <= 500)
<1>1. CASE -10000 <= mV /\ mV <= 500
  BY <1>1 DEF voltageToState
<1>2. CASE mV > 500
  BY <1>2 DEF voltageToState
<1>3. CASE mV < -10000
  BY <1>3 DEF voltageToState
<1> QED BY <1>1, <1>2, <1>3

-----------------------------------------------------------------------------
(***************************************************************************)
(* The word that chooses the hardware.                                     *)
(***************************************************************************)

(***************************************************************************)
(* The words of the deployment scripts mean the same to all that read      *)
(* them, whatever the file says: real lines with the line's CP reader, or  *)
(* no real line at all with the simulator's.                               *)
(***************************************************************************)
THEOREM CommonWordsAgree ==
  \A word \in {"development", "dev", "production", "prod"} : Together(word)
BY DEF Together, FileMode, getGpioType, gpioType, Mode, Reader

(***************************************************************************)
(* Without a word a production file gives real lines and a CP reader that  *)
(* nobody feeds: the vehicle is never seen to leave.                       *)
(***************************************************************************)
THEOREM FileAloneSplits ==
  getGpioType("unset", "production") = "bananapi" /\ Reader("unset") = "simulator"
BY DEF getGpioType, Mode, Reader

-----------------------------------------------------------------------------
(***************************************************************************)
(* The configuration file.                                                 *)
(***************************************************************************)

\* A set's least element is its first.
LEMMA FirstIs ==
  ASSUME NEW S \in SUBSET Int, NEW i \in S, \A j \in S : i <= j
  PROVE  first(S) = i
<1>1. \A k \in S : (\A j \in S : k <= j) => k = i
  OBVIOUS
<1> QED BY <1>1 DEF first

\* Places in a file are numbers from 1 on.
LEMMA PlacesAreNumbers ==
  ASSUME NEW f, IsFile(f), NEW key, NEW i, NEW kind
  PROVE  /\ Places(f, key) \in SUBSET Int
         /\ After(f, i, kind) \in SUBSET Int
         /\ \A k \in DOMAIN f : k \in Int /\ k >= 1
BY DEF IsFile, Places, After

(***************************************************************************)
(* The colon that follows the first place of a key is the one both readers *)
(* go on from; without the key there is none.                              *)
(***************************************************************************)
LEMMA ColonFollows ==
  ASSUME NEW f, IsFile(f), NEW key, NEW i \in Places(f, key),
         \A j \in Places(f, key) : i <= j,
         i + 1 \in DOMAIN f, f[i + 1].is = "colon"
  PROVE  Colon(f, key) = i + 1 /\ first(Places(f, key)) = i /\ i >= 1 /\ i \in Int
<1>1. i \in Int /\ i >= 1
  BY PlacesAreNumbers DEF Places
<1>2. first(Places(f, key)) = i
  BY FirstIs, PlacesAreNumbers
<1>3. i + 1 \in After(f, i, "colon")
  BY <1>1 DEF After
<1>4. \A j \in After(f, i, "colon") : i + 1 <= j
  BY <1>1, PlacesAreNumbers DEF After
<1>5. first(After(f, i, "colon")) = i + 1
  BY <1>3, <1>4, FirstIs, PlacesAreNumbers
<1> QED BY <1>1, <1>2, <1>3, <1>5 DEF Colon

\* A key that is not in the file has no colon.
LEMMA NoColon ==
  ASSUME NEW f, NEW key, Places(f, key) = {}
  PROVE  Colon(f, key) = 0
BY DEF Colon

(***************************************************************************)
(* Of a key whose first place is followed by a number both readers take    *)
(* that number, and of a key that is absent their defaults.                *)
(***************************************************************************)
LEMMA SameNumber ==
  ASSUME NEW f, IsFile(f), NEW key, NEW default, HasNumber(f, key)
  PROVE  portOf(f, key, default) = extractJsonInt(f, key, default)
<1>1. CASE Places(f, key) = {}
  BY <1>1, NoColon DEF portOf, extractJsonInt
<1>2. CASE Places(f, key) # {}
  <2>1. PICK i \in Places(f, key) :
          /\ \A j \in Places(f, key) : i <= j
          /\ {i + 1, i + 2} \subseteq DOMAIN f
          /\ f[i + 1].is = "colon" /\ f[i + 1].digits = None
          /\ f[i + 2].is = "number" /\ f[i + 2].value \in Int32
          /\ f[i + 2].digits = f[i + 2].value /\ f[i + 2].value # None
    BY <1>2 DEF HasNumber
  <2>2. Colon(f, key) = i + 1 /\ i >= 1 /\ i \in Int
    BY <2>1, ColonFollows
  <2>3. extractJsonInt(f, key, default) = f[i + 2].value
    BY <2>1, <2>2 DEF extractJsonInt
  <2> DEFINE D == {j \in DOMAIN f : j > Colon(f, key) /\ f[j].digits # None}
  <2>4. D \in SUBSET Int /\ i + 2 \in D /\ \A j \in D : i + 2 <= j
    BY <2>1, <2>2, PlacesAreNumbers
  <2>5. first(D) = i + 2
    BY <2>4, FirstIs
  <2>6. portOf(f, key, default) = f[i + 2].digits
    BY <2>2, <2>4, <2>5 DEF portOf
  <2> QED BY <2>1, <2>3, <2>6
<1> QED BY <1>1, <1>2

(***************************************************************************)
(* The two ends of UDP meet: with one file for both, or none, the          *)
(* simulator sends to the port the box listens on and listens on the port  *)
(* the box sends to, as long as the environment leaves the box's port      *)
(* alone and the file's ports are numbers.                                 *)
(***************************************************************************)
THEOREM PortsMeet ==
  ASSUME NEW f, IsFile(f),
         HasNumber(f, "udp_listen_port"), HasNumber(f, "udp_send_port")
  PROVE  /\ UDP_OUT_PORT(f) = udpListenPort(f, None)
         /\ UDP_IN_PORT(f) = udpSendPort(f)
BY SameNumber DEF UDP_OUT_PORT, UDP_IN_PORT, udpListenPort, udpSendPort

(***************************************************************************)
(* After a key or its colon the word that follows the colon comes first.   *)
(***************************************************************************)
LEMMA WordFollows ==
  ASSUME NEW f, IsFile(f), NEW i \in Int, NEW k \in Int, k = i \/ k = i + 1,
         {i + 1, i + 2} \subseteq DOMAIN f,
         f[i + 1].is = "colon", f[i + 2].is = "word"
  PROVE  After(f, k, "word") # {} /\ first(After(f, k, "word")) = i + 2
<1>1. i + 2 \in After(f, k, "word")
  BY DEF After
<1>2. \A j \in After(f, k, "word") : j \in Int /\ j > k /\ j # i + 1
  BY PlacesAreNumbers DEF After
<1>3. \A j \in After(f, k, "word") : i + 2 <= j
  BY <1>2
<1>4. After(f, k, "word") \in SUBSET Int
  BY <1>2
<1>5. first(After(f, k, "word")) = i + 2
  BY <1>1, <1>3, <1>4, FirstIs
<1> QED BY <1>1, <1>5

(***************************************************************************)
(* Both ends send to the address the file names: on two machines the file  *)
(* cannot be the same.                                                     *)
(***************************************************************************)
THEOREM OneAddressForBoth ==
  ASSUME NEW f, IsFile(f), HasWord(f, "udp_send_address")
  PROVE  WALLBOX_IP(f) = udpSendAddress(f)
<1>1. CASE Places(f, "udp_send_address") = {}
  BY <1>1, NoColon DEF WALLBOX_IP, udpSendAddress, extractJsonValue
<1>2. CASE Places(f, "udp_send_address") # {}
  <2>1. PICK i \in Places(f, "udp_send_address") :
          /\ \A j \in Places(f, "udp_send_address") : i <= j
          /\ {i + 1, i + 2} \subseteq DOMAIN f
          /\ f[i + 1].is = "colon"
          /\ f[i + 2].is = "word" /\ f[i + 2].text # ""
    BY <1>2 DEF HasWord
  <2>2. /\ Colon(f, "udp_send_address") = i + 1
        /\ first(Places(f, "udp_send_address")) = i
        /\ i >= 1 /\ i \in Int
    BY <2>1, ColonFollows
  <2>3. After(f, i, "word") # {} /\ first(After(f, i, "word")) = i + 2
    BY <2>1, <2>2, WordFollows
  <2>4. After(f, i + 1, "word") # {} /\ first(After(f, i + 1, "word")) = i + 2
    <3>1. i + 1 \in Int
      BY <2>2
    <3> QED BY <2>1, <2>2, <3>1, WordFollows
  <2>5. extractJsonValue(f, "udp_send_address") = f[i + 2].text
    <3>1. Colon(f, "udp_send_address") # 0
      BY <2>2
    <3>2. After(f, Colon(f, "udp_send_address"), "word") # {}
      BY <2>2, <2>4
    <3>3. first(After(f, Colon(f, "udp_send_address"), "word")) = i + 2
      BY <2>2, <2>4
    <3> QED BY <3>1, <3>2, <3>3 DEF extractJsonValue
  <2>6. WALLBOX_IP(f) = f[i + 2].text
    BY <1>2, <2>2, <2>3 DEF WALLBOX_IP
  <2> QED BY <2>1, <2>5, <2>6 DEF udpSendAddress
<1> QED BY <1>1, <1>2
=============================================================================
