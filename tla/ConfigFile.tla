------------------------------ MODULE ConfigFile ------------------------------
(***************************************************************************)
(* The configuration file as its two readers take it: Configuration, in    *)
(* the box, and load_config, in the simulator.  Neither parses JSON: both  *)
(* look for the first place of a key's name and take what comes next, each *)
(* in its own way, and each has defaults of its own.  A file is a sequence *)
(* of tokens:                                                              *)
(*   [is : "word",   text, digits]     what stands between two quotes      *)
(*   [is : "number", value, digits]    digits and signs, and stoi's result *)
(*   [is : "colon",  digits]                                               *)
(*   [is : "mark",   digits]           braces, commas, true, false         *)
(* where digits is the number a token's first digits form, None without    *)
(* any.  Words hold no colon and no escaped quote.                         *)
(***************************************************************************)
EXTENDS Integers

None == -1

\* What an int holds.
Int32 == (-2147483647 - 1) .. 2147483647

first(S) == CHOOSE i \in S : \A j \in S : i <= j

\* Where a key's name stands, be it as a key or as a value.
Places(f, key) == {i \in DOMAIN f : f[i].is = "word" /\ f[i].text = key}

After(f, i, kind) == {j \in DOMAIN f : j > i /\ f[j].is = kind}

\* The first colon after the key; 0 when there is none.
Colon(f, key) ==
  IF Places(f, key) # {} /\ After(f, first(Places(f, key)), "colon") # {}
  THEN first(After(f, first(Places(f, key)), "colon")) ELSE 0

-----------------------------------------------------------------------------
(***************************************************************************)
(* The box.                                                                *)
(***************************************************************************)
extractJsonInt(f, key, default) ==
  LET i == Colon(f, key) + 1
  IN  IF i > 1 /\ i \in DOMAIN f /\ f[i].is = "number" /\ f[i].value \in Int32
      THEN f[i].value ELSE default

extractJsonValue(f, key) ==
  LET words == After(f, Colon(f, key), "word")
  IN  IF Colon(f, key) # 0 /\ words # {} THEN f[first(words)].text ELSE ""

\* The environment's port is None when the variable is not set.
udpListenPort(f, env) ==
  IF env # None THEN env ELSE extractJsonInt(f, "udp_listen_port", 50010)

udpSendPort(f) == extractJsonInt(f, "udp_send_port", 50011)

udpSendAddress(f) ==
  LET addr == extractJsonValue(f, "udp_send_address")
  IN  IF addr # "" THEN addr ELSE "127.0.0.1"

-----------------------------------------------------------------------------
(***************************************************************************)
(* The simulator: the first digits after the colon, in whatever token, and *)
(* the first word after the key.  (A number that no int holds ends it.)    *)
(***************************************************************************)
portOf(f, key, default) ==
  LET digits == {j \in DOMAIN f : j > Colon(f, key) /\ f[j].digits # None}
  IN  IF Colon(f, key) # 0 /\ digits # {} THEN f[first(digits)].digits ELSE default

UDP_OUT_PORT(f) == portOf(f, "udp_listen_port", 50010)

UDP_IN_PORT(f) == portOf(f, "udp_send_port", 50011)

WALLBOX_IP(f) ==
  LET keys  == Places(f, "udp_send_address")
      words == After(f, first(keys), "word")
  IN  IF keys # {} /\ words # {} THEN f[first(words)].text ELSE "127.0.0.1"

-----------------------------------------------------------------------------
IsFile(f) == \E n \in Nat : DOMAIN f = 1..n

\* The key's name is not in the file, or the first place of it is that of a key
\* with a number an int holds, written without a sign.
HasNumber(f, key) ==
  \/ Places(f, key) = {}
  \/ \E i \in Places(f, key) :
       /\ \A j \in Places(f, key) : i <= j
       /\ {i + 1, i + 2} \subseteq DOMAIN f
       /\ f[i + 1].is = "colon" /\ f[i + 1].digits = None
       /\ f[i + 2].is = "number" /\ f[i + 2].value \in Int32
       /\ f[i + 2].digits = f[i + 2].value /\ f[i + 2].value # None

\* The same of a word that is not empty.
HasWord(f, key) ==
  \/ Places(f, key) = {}
  \/ \E i \in Places(f, key) :
       /\ \A j \in Places(f, key) : i <= j
       /\ {i + 1, i + 2} \subseteq DOMAIN f
       /\ f[i + 1].is = "colon"
       /\ f[i + 2].is = "word" /\ f[i + 2].text # ""
=============================================================================
