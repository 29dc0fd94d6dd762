------------------------------- MODULE Socks5 -------------------------------
(***************************************************************************)
(* The SOCKS5 client of the injected library (Socks5.hpp): one handshake   *)
(* over a descriptor that is blocking by then.  Every read waits for an    *)
(* exact number of bytes that arrive in fragments of any size, and gives   *)
(* up Timeout after it began; the server may answer late, answer in        *)
(* another protocol, push application data right behind its reply, or      *)
(* close.  What matters is that the tunnel is reported open only behind    *)
(* the answer Handshake asks for, and that the descriptor is then          *)
(* positioned on the first byte of the application's stream.               *)
(***************************************************************************)
EXTENDS Integers, Sequences

CONSTANTS
  Greetings,  \* byte strings a server answers the method request with
  Replies,    \* replies to the connect request: records of ver, code, atyp, addr
  Payloads,   \* application data a server may send behind its reply
  Timeout     \* bound: ticks of one SendAll or ReadExact (5000 ms)

Bytes == 0 .. 255

(* A server that accepts the method says no more than that before it is    *)
(* asked (RFC 1928); one of another protocol says what it likes.  A reply  *)
(* may be of any protocol and begin with any version: its bytes are named  *)
(* as Handshake takes them, an address as long as its type tells, none     *)
(* behind a type Handshake does not know, and a port.  The byte 9 stands   *)
(* for whatever comes behind.                                              *)
ASSUME Socks5Assumption ==
  /\ Timeout \in Nat \ {0}
  /\ \A g \in Greetings : g \in Seq(Bytes) /\ (Len(g) > 2 => <<g[1], g[2]>> # <<5, 0>>)
  /\ \A r \in Replies :
       /\ r.ver \in Bytes /\ r.code \in Bytes /\ r.atyp \in Bytes /\ r.addr \in Seq(Bytes)
       /\ \/ r.atyp = 1 /\ Len(r.addr) = 4
          \/ r.atyp = 3 /\ Len(r.addr) < 256
          \/ r.atyp = 4 /\ Len(r.addr) = 16
          \/ r.atyp \notin {1, 3, 4} /\ r.addr = <<>>
  /\ \A d \in Payloads : d \in Seq({9})

VARIABLES
  pc,       \* the call Handshake is in
  buf,      \* bytes read by the ReadExact in progress
  len,      \* the length of the bound address to skip
  elapsed,  \* ticks since that call began
  total,    \* ticks since the handshake began
  inbox,    \* bytes received and not yet read
  server,   \* what the server waits for
  closed,   \* the server closed its side
  granted,  \* history: the second byte of the server's reply is 0
  replied   \* history: bytes of the server's greeting and reply not yet read

socksVars == <<pc, buf, len, elapsed, total, inbox, server, closed, granted, replied>>

SocksInit ==
  /\ pc = "sendAuth" /\ buf = <<>> /\ len = 0
  /\ elapsed = 0 /\ total = 0
  /\ inbox = <<>> /\ server = "auth" /\ closed = FALSE
  /\ granted = FALSE /\ replied = 0

-----------------------------------------------------------------------------
Sends == {"sendAuth", "sendRequest"}
Reads == {"readAuth", "readHeader", "readLength", "readAddress", "readPort"}
Ended == {"open", "failed"}

(* How many bytes the ReadExact of a state wants.                          *)
Wanted ==
  CASE pc = "readAuth"    -> 2
    [] pc = "readHeader"  -> 4
    [] pc = "readLength"  -> 1
    [] pc = "readAddress" -> len
    [] pc = "readPort"    -> 2

(* Mutant: the length byte of a domain is taken for part of the domain.    *)
AddressLengthFixed(atyp) == CASE atyp = 1 -> 4 [] atyp = 4 -> 16 [] OTHER -> 4

(* The length of the address behind the header, as far as atyp tells.      *)
AddressLength(atyp) == CASE atyp = 1 -> 4 [] atyp = 4 -> 16 [] OTHER -> 0

(* Mutant: any answer to the connect request is taken for success.         *)
AcceptedUnread(code) == TRUE

(* header[1] is the only field of the reply that is judged.                *)
Accepted(code) == code = 0

(* Where Handshake goes with the bytes b a ReadExact returned.             *)
AfterHeader(b) ==
  IF ~Accepted(b[2]) THEN "failed"
  ELSE IF AddressLength(b[4]) > 0 THEN "readAddress"
  ELSE IF b[4] = 3 THEN "readLength" ELSE "readPort"

After(b) ==
  CASE pc = "readAuth"    -> IF b = <<5, 0>> THEN "sendRequest" ELSE "failed"
    [] pc = "readHeader"  -> AfterHeader(b)
    [] pc = "readLength"  -> IF b[1] > 0 THEN "readAddress" ELSE "readPort"
    [] pc = "readAddress" -> "readPort"
    [] pc = "readPort"    -> "open"

LengthAfterShort(b) ==   \* mutant: the length counts its own byte
  CASE pc = "readHeader" -> AddressLength(b[4])
    [] pc = "readLength" -> b[1] - 1
    [] OTHER -> len

LengthAfter(b) ==
  CASE pc = "readHeader" -> AddressLength(b[4])
    [] pc = "readLength" -> b[1]
    [] OTHER -> len

(* A call returns and the next one starts its own clock.                   *)
Goto(p) == pc' = p /\ elapsed' = 0 /\ buf' = <<>>

(* SendAll: the whole request is handed to the kernel.                     *)
Send ==
  /\ pc \in Sends
  /\ Goto(IF pc = "sendAuth" THEN "readAuth" ELSE "readHeader")
  /\ server' = IF pc = "sendAuth" THEN "greeting" ELSE "reply"
  /\ UNCHANGED <<len, total, inbox, closed, granted, replied>>

(* Mutant: every fragment gets the whole time again.                       *)
ClockRestarted == 0

(* startTime is taken once per call, not once per fragment.                *)
ClockAfterFragment == elapsed

(* recv returns n of the bytes that wait, never more than ReadExact wants. *)
Receive(n) ==
  LET b == buf \o SubSeq(inbox, 1, n) IN
  /\ pc \in Reads
  /\ n <= Len(inbox) /\ n <= Wanted - Len(buf)
  /\ inbox' = SubSeq(inbox, n + 1, Len(inbox))
  /\ replied' = IF replied < n THEN 0 ELSE replied - n
  /\ IF Len(b) < Wanted
       THEN buf' = b /\ elapsed' = ClockAfterFragment /\ UNCHANGED <<pc, len>>
       ELSE Goto(After(b)) /\ len' = LengthAfter(b)
  /\ UNCHANGED <<total, server, closed, granted>>

(* poll or recv fails: the peer closed, the socket has an error, or poll   *)
(* was interrupted by a signal.                                            *)
CallFails ==
  /\ pc \in Sends \cup Reads
  /\ Goto("failed")
  /\ UNCHANGED <<len, total, inbox, server, closed, granted, replied>>

PeerClosed ==
  /\ pc \in Reads /\ closed /\ inbox = <<>>
  /\ Goto("failed")
  /\ UNCHANGED <<len, total, inbox, server, closed, granted, replied>>

(* Mutant: the deadline is looked at before the first byte only.           *)
ExpiredUnread == elapsed >= Timeout /\ buf = <<>>

(* remaining <= 0, computed from the start of the call, not of the wait.   *)
Expired == elapsed >= Timeout

TimesOut ==
  /\ pc \in Sends \cup Reads /\ Expired
  /\ Goto("failed")
  /\ UNCHANGED <<len, total, inbox, server, closed, granted, replied>>

Tick ==
  /\ pc \in Sends \cup Reads /\ elapsed < Timeout
  /\ elapsed' = elapsed + 1 /\ total' = total + 1
  /\ UNCHANGED <<pc, buf, len, inbox, server, closed, granted, replied>>

-----------------------------------------------------------------------------
(* The server, seen through the bytes it sends.                            *)
ReplyBytes(r) ==
  <<r.ver, r.code, 0, r.atyp>>
    \o (IF r.atyp = 3 THEN <<Len(r.addr)>> ELSE <<>>) \o r.addr \o <<0, 80>>

ServerGreets(g) ==
  /\ server = "greeting" /\ ~closed
  /\ server' = "request"
  /\ inbox' = inbox \o g /\ replied' = replied + Len(g)
  /\ UNCHANGED <<pc, buf, len, elapsed, total, closed, granted>>

ServerReplies(r, data) ==
  /\ server = "reply" /\ ~closed
  /\ server' = "done"
  /\ granted' = (r.code = 0)
  /\ inbox' = inbox \o ReplyBytes(r) \o (IF r.code = 0 THEN data ELSE <<>>)
  /\ replied' = replied + Len(ReplyBytes(r))
  /\ UNCHANGED <<pc, buf, len, elapsed, total, closed>>

ServerCloses ==
  /\ ~closed /\ closed' = TRUE
  /\ UNCHANGED <<pc, buf, len, elapsed, total, inbox, server, granted, replied>>

Server ==
  \/ \E g \in Greetings : ServerGreets(g)
  \/ \E r \in Replies, d \in Payloads : ServerReplies(r, d)
  \/ ServerCloses

Client ==
  \/ Send \/ CallFails \/ PeerClosed \/ TimesOut
  \/ \E n \in 1 .. 16 : Receive(n)

SocksNext == Tick \/ Client \/ Server

-----------------------------------------------------------------------------
(* The lengths are bytes and the pieces read are sequences of bytes.       *)
SocksTypeOK ==
  /\ pc \in Sends \cup Reads \cup Ended
  /\ buf \in Seq(Bytes) /\ inbox \in Seq(Bytes)
  /\ len \in Bytes /\ elapsed \in Nat /\ total \in Nat
  /\ server \in {"auth", "greeting", "request", "reply", "done"}
  /\ closed \in BOOLEAN /\ granted \in BOOLEAN /\ replied \in Nat

(* When Handshake returns true it has read the greeting and the reply to   *)
(* the last byte and nothing behind them, however they were fragmented and *)
(* whatever kind of address the reply carries: from a SOCKS5 server, the   *)
(* first byte the application reads is the first byte of its own stream.   *)
StreamAligned == pc = "open" => replied = 0 /\ \A i \in 1 .. Len(inbox) : inbox[i] = 9
=============================================================================
