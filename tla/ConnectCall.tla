---------------------------- MODULE ConnectCall ----------------------------
(***************************************************************************)
(* One intercepted my_connect (AntigravityTun.cpp), from the first call of *)
(* the hook to its return: the configuration is loaded, the proxy chosen   *)
(* and dialled, and the tunnel asked for, with Socks5 or with an HTTP      *)
(* CONNECT to the local MITM proxy.  The first my_getaddrinfo of another   *)
(* thread loads the same configuration meanwhile.  Time is counted where   *)
(* the call waits with a timeout; the recv of the MITM answer has none.    *)
(***************************************************************************)
EXTENDS Socks5, LibraryConfig

CONSTANTS
  DialTicks,  \* bound: ticks of the poll for a connect in progress (2000 ms)
  Signals     \* bound: signals that interrupt this poll

ASSUME ConnectAssumption ==
  /\ DialTicks \in Nat \ {0} /\ Signals \in Nat
  /\ "connect" \in Hooks

VARIABLES
  phase,     \* where my_connect is
  via,       \* the protocol of the chosen proxy
  wait,      \* timeoutMs of the poll, 0 outside of it
  signals    \* signals that may still interrupt the poll

callVars == <<phase, via, wait, signals>>
vars == <<socksVars, cfgVars, callVars>>

Returned == {"open", "failed", "plain"}

Init ==
  /\ SocksInit /\ ConfigInit
  /\ phase = "init" /\ via = "none"
  /\ wait = 0 /\ signals = Signals

At(p) == phase' = p /\ wait' = 0 /\ UNCHANGED <<via, signals>>

-----------------------------------------------------------------------------
(* The static of the hook is initialized, whatever Load answers.  Without  *)
(* a valid license, or for an address that is not a known FakeIP, the      *)
(* system's connect is called.                                             *)
Initialized ==
  /\ phase = "init" /\ load["connect"] \in {"done", "threw"}
  /\ At("plain") \/ At("route")
  /\ UNCHANGED <<socksVars, cfgVars>>

(* isMitmDomain, for a name that is routed or not.                         *)
Via(routed) == IF config.mitm /\ routed THEN "mitm" ELSE "socks"

(* targetHost must be an address: inet_pton resolves no name.              *)
Route(routed) ==
  /\ phase = "route"
  /\ via' = Via(routed)
  /\ phase' = IF Via(routed) = "mitm" \/ config.host = "address" THEN "dial" ELSE "failed"
  /\ UNCHANGED <<wait, signals, socksVars, cfgVars>>

(* The tunnel is asked for.  Nothing reads the configuration from here on: *)
(* a load of the other thread is over first.                               *)
Tunnel == NoLoadInFlight /\ At(IF via = "mitm" THEN "ask" ELSE "socks")

(* connect() to the proxy succeeds or fails at once ...                    *)
Dial ==
  /\ phase = "dial"
  /\ Tunnel \/ At("failed")
  /\ UNCHANGED <<socksVars, cfgVars>>

(* std::min(config.timeout.connect_ms, 2000)                               *)
DialWait(ms) == IF ms < 2000 THEN ms ELSE 2000

(* ... or, on a non-blocking descriptor, is in progress.                   *)
InProgress ==
  /\ phase = "dial"
  /\ phase' = "poll" /\ wait' = DialWait(config.connect)
  /\ UNCHANGED <<via, signals, socksVars, cfgVars>>

Polled ==
  /\ phase = "poll"
  /\ Tunnel \/ At("failed")
  /\ elapsed' = 0
  /\ UNCHANGED <<pc, buf, len, total, inbox, server, closed, granted, replied, cfgVars>>

(* A signal starts the poll anew, with the whole time.                     *)
Interrupted ==
  /\ phase = "poll" /\ signals > 0
  /\ signals' = signals - 1 /\ elapsed' = 0
  /\ UNCHANGED <<phase, via, wait>>
  /\ UNCHANGED <<pc, buf, len, total, inbox, server, closed, granted, replied, cfgVars>>

PollTick ==
  /\ phase = "poll" /\ wait >= 0 /\ elapsed < DialTicks
  /\ elapsed' = elapsed + 1 /\ total' = total + 1
  /\ UNCHANGED <<pc, buf, len, inbox, server, closed, granted, replied, cfgVars, callVars>>

PollExpired ==
  /\ phase = "poll" /\ wait >= 0 /\ elapsed = DialTicks
  /\ At("failed")
  /\ UNCHANGED <<socksVars, cfgVars>>

-----------------------------------------------------------------------------
Handshake ==
  /\ phase = "socks" /\ SocksNext
  /\ UNCHANGED <<cfgVars, callVars>>

HandshakeEnds ==
  /\ phase = "socks" /\ pc \in Ended
  /\ At(pc)
  /\ UNCHANGED <<socksVars, cfgVars>>

(* The CONNECT request is sent; what send answers is not looked at.        *)
MitmAsk ==
  /\ phase = "ask" /\ At("mitm")
  /\ UNCHANGED <<socksVars, cfgVars>>

(* What the one recv may return of the local proxy's answer: a status      *)
(* line, only the beginning of one, an error with the words of a success   *)
(* somewhere behind it, or nothing, from a proxy that closed; it may also  *)
(* be silent.                                                              *)
MitmReplies == {"200", "20", "502", "502 .. HTTP/1.1 200", "closed"}

(* strstr looks for the words of a success anywhere in these bytes.        *)
Established(reply) == reply \in {"200", "502 .. HTTP/1.1 200"}

(* One recv, without a timeout.                                            *)
MitmRecv(reply) ==
  /\ phase = "mitm"
  /\ At(IF Established(reply) THEN "open" ELSE "failed")
  /\ UNCHANGED <<socksVars, cfgVars>>

-----------------------------------------------------------------------------
OwnLoad ==
  /\ phase = "init" /\ LoadStep("connect")
  /\ UNCHANGED <<socksVars, callVars>>

(* Another thread, in its first my_getaddrinfo.                            *)
OtherLoad ==
  /\ phase \in {"init", "route", "dial", "poll"}
  /\ \E h \in Hooks \ {"connect"} : LoadStep(h)
  /\ UNCHANGED <<socksVars, callVars>>

Next ==
  \/ OwnLoad \/ OtherLoad
  \/ Initialized \/ (\E r \in BOOLEAN : Route(r)) \/ Dial \/ InProgress
  \/ Polled \/ Interrupted \/ PollTick \/ PollExpired
  \/ Handshake \/ HandshakeEnds
  \/ MitmAsk \/ \E r \in MitmReplies : MitmRecv(r)

Spec == Init /\ [][Next]_vars

(* The threads run, time passes, and a poll returns when its time is up;   *)
(* nothing is assumed of the proxies.                                      *)
FairSpec ==
  /\ Spec
  /\ WF_vars(OwnLoad) /\ WF_vars(OtherLoad)
  /\ WF_vars(Initialized \/ (\E r \in BOOLEAN : Route(r)) \/ Dial \/ HandshakeEnds \/ MitmAsk)
  /\ WF_vars(PollTick) /\ WF_vars(PollExpired)
  /\ WF_vars(Tick /\ Handshake) /\ WF_vars(TimesOut /\ Handshake)

-----------------------------------------------------------------------------
(* Through the SOCKS5 proxy my_connect returns 0 only behind a method the  *)
(* server accepted and a whole reply whose second byte is 0, whatever      *)
(* server it is, however its bytes are fragmented and whatever it pushes   *)
(* behind them.  This byte is all that is asked: the version of the reply  *)
(* is not looked at (Socks5.hpp:203).                                      *)
OpenOnlyIfAccepted == phase = "open" /\ via = "socks" => granted

(* However its pieces arrive, a call that waits with timeouts is blocked   *)
(* for at most one dial per signal and seven timed calls of the handshake, *)
(* also by a server that feeds one byte at a time.                         *)
CallBounded == total <= (Signals + 1) * DialTicks + 7 * Timeout

(* my_connect returns, with two exceptions: the answer of the local proxy  *)
(* is waited for without a timeout (AntigravityTun.cpp:260), and a connect *)
(* timeout below zero, which Load lets through when a later key throws,    *)
(* makes the poll endless.                                                 *)
ConnectEnds ==
  \/ <>(phase \in Returned)
  \/ <>[](phase = "mitm")
  \/ <>[](phase = "poll" /\ wait < 0)

(* "For an HTTP proxy choose http, not socks5"                             *)
(* (docs/troubleshooting_ineligible_region.md:162): the protocol spoken to *)
(* the configured proxy is the one its type names.                         *)
SpeaksConfiguredType == phase = "socks" /\ NoLoadInFlight => config.type = "socks5"
=============================================================================
