--------------------------- MODULE LibraryConfig ---------------------------
(***************************************************************************)
(* The configuration of the injected library (Config.hpp): one object that *)
(* my_connect and my_getaddrinfo each load in their first call, under a    *)
(* static of their own, so that two threads may be in Load at once.  Load  *)
(* writes the fields as it reads them and judges them afterwards; a key of *)
(* the wrong type throws and leaves what was written so far.  The launcher *)
(* may rewrite the file at any time: every load finds its own contents.    *)
(***************************************************************************)
EXTENDS Integers

CONSTANTS
  Hooks,        \* the hooks with a static of their own
  Files,        \* what the file may hold: NoFile or a record of sections
  NoFile,       \* no file, or one that throws before the proxy is read
  Absent,       \* a section or a key that is not there
  IllTyped      \* a value of the wrong JSON type

ASSUME ConfigAssumption == \A f \in Files \ {NoFile} :
  f.timeout = Absent \/ f.timeout.connect \in Int \cup {Absent, IllTyped}

VARIABLES
  config,  \* Config::Instance()
  load,    \* where the Load of each hook is
  read     \* the content it parsed, NoFile before and after

cfgVars == <<config, load, read>>

DefaultPort == 7897
DefaultTimeout == 5000
Types == {"socks5", "http", "https"}

ConfigInit ==
  /\ config = [host |-> "address", port |-> DefaultPort, type |-> "socks5",
               mitm |-> FALSE, connect |-> DefaultTimeout]
  /\ load = [h \in Hooks |-> "idle"]
  /\ read = [h \in Hooks |-> NoFile]

-----------------------------------------------------------------------------
(* j.value(key, default)                                                   *)
Value(v, default) == IF v = Absent THEN default ELSE v

(* Load goes on with the part s of the file, or returns.                   *)
LoadAt(h, s) ==
  /\ load' = [load EXCEPT ![h] = s]
  /\ read' = IF s \in {"done", "threw"} THEN [read EXCEPT ![h] = NoFile] ELSE read

(* The first call of a hook opens and parses the file, which holds f; it   *)
(* may be written at that moment, and not parse.                           *)
Open(h, f) ==
  /\ load[h] = "idle"
  /\ IF f = NoFile
       THEN LoadAt(h, "done")
       ELSE load' = [load EXCEPT ![h] = "proxy"] /\ read' = [read EXCEPT ![h] = f]
  /\ UNCHANGED config

(* Reading a key of the wrong type throws.                                 *)
HostThrows(p)    == p.host = IllTyped
PortThrows(p)    == HostThrows(p) \/ p.port = IllTyped
ProxyThrows(p)   == PortThrows(p) \/ p.type = IllTyped
TimeoutThrows(t) == t.connect = IllTyped \/ t.others = IllTyped

(* host, port and type are written one by one, until one of them throws.   *)
ReadProxy(h) ==
  LET p == read[h].proxy IN
  /\ load[h] = "proxy"
  /\ IF p = Absent
       THEN LoadAt(h, "mitm") /\ UNCHANGED config
       ELSE /\ config' = [config EXCEPT
                 !.host = IF HostThrows(p) THEN @ ELSE Value(p.host, "address"),
                 !.port = IF PortThrows(p) THEN @ ELSE Value(p.port, DefaultPort),
                 !.type = IF ProxyThrows(p) THEN @ ELSE Value(p.type, "socks5")]
            /\ LoadAt(h, IF ProxyThrows(p) THEN "threw" ELSE "validate")

PortInRange(p) == p \in 1 .. 65535

(* Mutant: the upper end of the range is forgotten.                        *)
ValidPortLow(p) == IF p >= 1 THEN p ELSE DefaultPort

ValidPort(p) == IF PortInRange(p) THEN p ELSE DefaultPort

(* What is validated is the object, not the value this load wrote.         *)
Validate(h) ==
  /\ load[h] = "validate"
  /\ config' = [config EXCEPT !.port = ValidPort(@),
                              !.type = IF @ \in Types THEN @ ELSE "socks5"]
  /\ LoadAt(h, "mitm")

(* A mitm section without the key switches routing on; an ill-typed        *)
(* fake_ip section in front of it ends the load in the same place.         *)
ReadMitm(h) ==
  LET m == read[h].mitm IN
  /\ load[h] = "mitm"
  /\ IF m # Absent /\ m.enabled = IllTyped
       THEN LoadAt(h, "threw") /\ UNCHANGED config
       ELSE /\ config' = [config EXCEPT !.mitm = IF m = Absent THEN @ ELSE Value(m.enabled, TRUE)]
            /\ LoadAt(h, IF read[h].timeout = Absent THEN "done" ELSE "timeout")

(* connect is written before send and recv are read.                       *)
ReadTimeout(h) ==
  LET t == read[h].timeout IN
  /\ load[h] = "timeout"
  /\ config' = [config EXCEPT
       !.connect = IF t.connect = IllTyped THEN @ ELSE Value(t.connect, DefaultTimeout)]
  /\ LoadAt(h, IF TimeoutThrows(t) THEN "threw" ELSE "clamp")

MinTimeout == 100
MaxTimeout == 60000
TimeoutInRange(v) == v \in MinTimeout .. MaxTimeout

Clamp(v) == IF v < MinTimeout THEN MinTimeout ELSE IF v > MaxTimeout THEN MaxTimeout ELSE v

ClampTimeout(h) ==
  /\ load[h] = "clamp"
  /\ config' = [config EXCEPT !.connect = Clamp(@)]
  /\ LoadAt(h, "done")

LoadStep(h) ==
  \/ \E f \in Files : Open(h, f)
  \/ ReadProxy(h) \/ Validate(h) \/ ReadMitm(h) \/ ReadTimeout(h) \/ ClampTimeout(h)

-----------------------------------------------------------------------------
NoLoadInFlight == \A h \in Hooks : load[h] \in {"idle", "done", "threw"}

(* Whatever the file holds while no value of it throws, and however two    *)
(* loads of different contents interleave on the one object, the port and  *)
(* the timeout that are left are in their ranges: the last write of a      *)
(* field is always followed by a judgement of it.                          *)
SettledConfigInRange ==
  (\A h \in Hooks : load[h] \in {"idle", "done"})
    => PortInRange(config.port) /\ TimeoutInRange(config.connect)
=============================================================================
