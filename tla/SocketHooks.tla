---------------------------- MODULE SocketHooks ----------------------------
(***************************************************************************)
(* The hooks of the injected library (AntigravityTun.cpp) in one process:  *)
(* getaddrinfo hands out addresses of the FakeIP block, connect to such an *)
(* address opens a tunnel through the SOCKS5 proxy or, for routed domains, *)
(* the local MITM proxy, getpeername answers from g_sockfd_map, and close  *)
(* clears it.  Threads run concurrently; a thread uses only descriptors it *)
(* opened itself, but the kernel gives a number away again as soon as it   *)
(* is closed.                                                              *)
(*                                                                         *)
(* The FakeIP pool appears here as what it promises, NameDirectory, which  *)
(* FakeIP implements; the handshake appears as granted or not, which       *)
(* Socks5 details.  The kernel and the proxies are environment.            *)
(***************************************************************************)
EXTENDS Integers, FiniteSets

CONSTANTS
  Threads, Fds,
  Names,        \* domain names the application resolves
  Routed,       \* the names whose isMitmDomain is true
  Fakes,        \* addresses of the FakeIP block
  Real,         \* the address a name really has
  Metadata,     \* states patch_metadata.json may be in
  ProxyFails,   \* the proxies may refuse, fail or stay silent
  Self, None

ASSUME HooksAssumption ==
  /\ Routed \subseteq Names /\ Real \notin Fakes
  /\ None \notin Names \cup Fakes \cup Fds \cup {Real}
  /\ {"proxy", "mitm"} \cap Fakes = {} /\ None \notin {"proxy", "mitm", "valid", "invalid"}
  /\ ProxyFails \in BOOLEAN

VARIABLES
  bound, known, tainted,  \* the directory (FakeIP)
  metadata,   \* patch_metadata.json
  license,    \* the static licenseValid of my_connect, None before its first call
  sock,       \* the kernel's socket behind every descriptor
  map,        \* g_sockfd_map: the address my_connect recorded
  pc,         \* what the call of the thread does next
  own,        \* the descriptor the thread works on, None while it has none
  held,       \* the address the thread got from getaddrinfo, None before
  domain,     \* the domain GetDomain answered in the my_connect in flight
  result,     \* how the last my_connect of the thread ended
  asked       \* history: the address a successful my_connect was called with

dirVars  == <<bound, known, tainted>>
callVars == <<pc, own, held, domain, result>>
vars == <<dirVars, metadata, license, sock, map, callVars, asked>>

Directory == INSTANCE NameDirectory WITH
  Procs <- {Self}, Addrs <- Fakes, Values <- Names

NoSocket == [open |-> FALSE, peer |-> None, dest |-> None,
             nonblock |-> FALSE, flags |-> FALSE, dup |-> FALSE]

Init ==
  /\ Directory!DirInit
  /\ metadata \in Metadata /\ license = None
  /\ sock = [f \in Fds |-> NoSocket]
  /\ map = [f \in Fds |-> None]
  /\ pc = [t \in Threads |-> "idle"]
  /\ own = [t \in Threads |-> None] /\ held = [t \in Threads |-> None]
  /\ domain = [t \in Threads |-> None]
  /\ result = [t \in Threads |-> "none"]
  /\ asked = [f \in Fds |-> None]

-----------------------------------------------------------------------------
(* CheckLicense: metadata without license fields is no restriction.        *)
CheckLicense == metadata \in {"missing", "old", "valid"}

(* The license runs out, or the patcher writes the metadata anew.          *)
MetadataChanges ==
  /\ \E m \in Metadata \ {metadata} : metadata' = m
  /\ UNCHANGED <<dirVars, license, sock, map, callVars, asked>>

(* my_getaddrinfo: the domain keeps the address it has, or gets any one    *)
(* that Alloc may recycle.                                                 *)
Resolve(t, n) ==
  /\ pc[t] = "idle"
  /\ \/ /\ \E a \in Fakes : bound[Self][a] = n /\ held' = [held EXCEPT ![t] = a]
        /\ UNCHANGED dirVars
     \/ /\ \A a \in Fakes : bound[Self][a] # n
        /\ \E a \in Fakes :
             Directory!HandOut(Self, a, n) /\ held' = [held EXCEPT ![t] = a]
  /\ UNCHANGED <<metadata, license, sock, map, pc, own, domain, result, asked>>

(* getaddrinfo with AI_NUMERICHOST, of a literal, or of a name that        *)
(* ShouldMapAsDomain rejects: the answer of the system.  A literal may be  *)
(* of the FakeIP block, whether the directory knows it or not.             *)
ResolveReal(t) ==
  /\ pc[t] = "idle" /\ \E a \in Fakes \cup {Real} : held' = [held EXCEPT ![t] = a]
  /\ UNCHANGED <<dirVars, metadata, license, sock, map, pc, own, domain, result, asked>>

(* socket(): any number that is free, blocking or not.                     *)
Socket(t, f) ==
  /\ pc[t] = "idle" /\ own[t] = None /\ ~sock[f].open
  /\ own' = [own EXCEPT ![t] = f]
  /\ \E nb \in BOOLEAN :
       sock' = [sock EXCEPT ![f] = [NoSocket EXCEPT !.open = TRUE,
                                      !.nonblock = nb, !.flags = nb]]
  /\ asked' = [asked EXCEPT ![f] = None]
  /\ UNCHANGED <<dirVars, metadata, license, map, pc, held, domain, result>>

-----------------------------------------------------------------------------
(* The end of a my_connect of thread t.                                    *)
Return(t, r) ==
  /\ pc' = [pc EXCEPT ![t] = "idle"]
  /\ result' = [result EXCEPT ![t] = r]

LicenseEveryTime == CheckLicense   \* mutant: licenseValid is not static

(* licenseValid is evaluated by the first my_connect and kept.             *)
LicenseValid == IF license = None THEN CheckLicense ELSE license = "valid"
LicenseKept  == license' = IF LicenseValid THEN "valid" ELSE "invalid"

(* The address is one the hook intercepts: of the FakeIP block, and        *)
(* GetDomain knows it.                                                     *)
Intercepted(t) ==
  LicenseValid /\ held[t] \in Fakes /\ bound[Self][held[t]] # None

Connecting(t) ==
  pc[t] = "idle" /\ own[t] # None /\ held[t] # None /\ sock[own[t]].peer = None

(* Everything else goes to the system's connect with the address as it is, *)
(* one of the block that GetDomain does not know included.                 *)
ConnectPlain(t) ==
  /\ Connecting(t) /\ ~Intercepted(t)
  /\ LicenseKept
  /\ \/ /\ sock' = [sock EXCEPT ![own[t]].peer = held[t]]
        /\ Return(t, "ok")
     \/ Return(t, "failed") /\ UNCHANGED sock
  /\ UNCHANGED <<dirVars, metadata, map, own, held, domain, asked>>

ConnectBegin(t) ==
  /\ Connecting(t) /\ Intercepted(t)
  /\ LicenseKept
  /\ domain' = [domain EXCEPT ![t] = bound[Self][held[t]]]
  /\ pc' = [pc EXCEPT ![t] = "connect"]
  /\ UNCHANGED <<dirVars, metadata, sock, map, own, held, result, asked>>

ViaProxyAlways(n) == "proxy"   \* mutant: the routed domains are forgotten

(* isMitmDomain chooses the proxy.                                         *)
Via(n) == IF n \in Routed THEN "mitm" ELSE "proxy"

(* connect() to the proxy succeeds at once, or the poll of a non-blocking  *)
(* socket reports it; the descriptor is then made blocking.                *)
ProxyConnected(t) ==
  /\ pc[t] = "connect"
  /\ sock' = [sock EXCEPT ![own[t]] =
       [@ EXCEPT !.peer = Via(domain[t]), !.flags = FALSE]]
  /\ pc' = [pc EXCEPT ![t] = "handshake"]
  /\ UNCHANGED <<dirVars, metadata, license, map, own, held, domain, result, asked>>

(* It is refused, or the poll reports an error or takes 2 s.               *)
ProxyUnreachable(t) ==
  /\ pc[t] = "connect" /\ ProxyFails
  /\ Return(t, "failed")
  /\ UNCHANGED <<dirVars, metadata, license, sock, map, own, held, domain, asked>>

FlagsKept(f) == sock[f].flags   \* mutant: the failing path forgets the flags

(* The flags of the descriptor after a handshake.                          *)
FlagsRestored(f) == sock[f].nonblock

(* The proxy opens the tunnel to the domain; the flags are put back.       *)
Granted(t) ==
  /\ pc[t] = "handshake"
  /\ sock' = [sock EXCEPT ![own[t]] =
       [@ EXCEPT !.dest = domain[t], !.flags = FlagsRestored(own[t])]]
  /\ pc' = [pc EXCEPT ![t] = "record"]
  /\ UNCHANGED <<dirVars, metadata, license, map, own, held, domain, result, asked>>

(* The handshake fails; my_connect returns ECONNREFUSED.                   *)
Refused(t) ==
  /\ pc[t] = "handshake"
  /\ ProxyFails
  /\ sock' = [sock EXCEPT ![own[t]].flags = FlagsRestored(own[t])]
  /\ Return(t, "refused")
  /\ UNCHANGED <<dirVars, metadata, license, map, own, held, domain, asked>>

(* Mutant: what the kernel calls the peer is recorded.                     *)
RecordedPeer(f, a) == [map EXCEPT ![f] = sock[f].peer]

(* g_sockfd_map after my_connect recorded the address.                     *)
Recorded(f, a) == [map EXCEPT ![f] = a]

Record(t) ==
  /\ pc[t] = "record"
  /\ map' = Recorded(own[t], held[t])
  /\ asked' = [asked EXCEPT ![own[t]] = held[t]]
  /\ Return(t, "ok")
  /\ UNCHANGED <<dirVars, metadata, license, sock, own, held, domain>>

-----------------------------------------------------------------------------
Erase(f)   == map' = [map EXCEPT ![f] = None] /\ UNCHANGED <<sock, asked>>
Release(f) ==
  /\ sock' = [sock EXCEPT ![f] = NoSocket]
  /\ asked' = [asked EXCEPT ![f] = None]
  /\ UNCHANGED map

CloseStepSwapped(i, f) == IF i = 1 THEN Release(f) ELSE Erase(f)   \* mutant

(* my_close: the entries are erased under the lock, then the system closes *)
(* the descriptor, whose number is free from then on.                      *)
CloseStep(i, f) == IF i = 1 THEN Erase(f) ELSE Release(f)

CloseBegin(t) ==
  /\ pc[t] = "idle" /\ own[t] # None
  /\ CloseStep(1, own[t])
  /\ pc' = [pc EXCEPT ![t] = "close"]
  /\ UNCHANGED <<dirVars, metadata, license, own, held, domain, result>>

CloseEnd(t) ==
  /\ pc[t] = "close"
  /\ CloseStep(2, own[t])
  /\ own' = [own EXCEPT ![t] = None]
  /\ pc' = [pc EXCEPT ![t] = "idle"]
  /\ result' = [result EXCEPT ![t] = "none"]
  /\ UNCHANGED <<dirVars, metadata, license, held, domain>>

(* dup2 closes the descriptor and puts another, new socket under its       *)
(* number; no hook is called.                                              *)
Dup2(t) ==
  /\ pc[t] = "idle" /\ own[t] # None
  /\ sock' = [sock EXCEPT ![own[t]] = [NoSocket EXCEPT !.open = TRUE, !.dup = TRUE]]
  /\ asked' = [asked EXCEPT ![own[t]] = None]
  /\ UNCHANGED <<dirVars, metadata, license, map, callVars>>

(* my_getpeername: the entry when there is one, else the system's answer.  *)
PeerName(f) == IF map[f] # None THEN map[f] ELSE sock[f].peer

-----------------------------------------------------------------------------
Connect(t) ==
  \/ ConnectPlain(t) \/ ConnectBegin(t) \/ ProxyConnected(t) \/ ProxyUnreachable(t)
  \/ Granted(t) \/ Refused(t) \/ Record(t)

Next ==
  \/ MetadataChanges
  \/ \E t \in Threads :
       \/ \E n \in Names : Resolve(t, n)
       \/ \E f \in Fds : Socket(t, f)
       \/ ResolveReal(t) \/ Connect(t) \/ CloseBegin(t) \/ CloseEnd(t) \/ Dup2(t)

Spec == Init /\ [][Next]_vars

-----------------------------------------------------------------------------
Socks == [open : BOOLEAN, peer : Fakes \cup {Real, None, "proxy", "mitm"},
          dest : Names \cup {None}, nonblock : BOOLEAN, flags : BOOLEAN, dup : BOOLEAN]

TypeOK ==
  /\ bound \in [{Self} -> [Fakes -> Names \cup {None}]]
  /\ known \subseteq Fakes \X Names /\ tainted \in BOOLEAN
  /\ metadata \in Metadata /\ license \in {None, "valid", "invalid"}
  /\ sock \in [Fds -> Socks]
  /\ map \in [Fds -> Fakes \cup {None}] /\ asked \in [Fds -> Fakes \cup {None}]
  /\ pc \in [Threads -> {"idle", "connect", "handshake", "record", "close"}]
  /\ own \in [Threads -> Fds \cup {None}]
  /\ held \in [Threads -> Fakes \cup {Real, None}]
  /\ domain \in [Threads -> Names \cup {None}]
  /\ result \in [Threads -> {"none", "ok", "failed", "refused"}]

Closing(f) == \E t \in Threads : own[t] = f /\ pc[t] = "close"

(* A tunnelled descriptor reports the address the application connected to *)
(* for as long as it is open: no close of another thread, whose number the *)
(* kernel gave away again, takes the entry with it.                        *)
PeerAddressKept ==
  \A f \in Fds : asked[f] # None /\ ~Closing(f) => PeerName(f) = asked[f]

(* A socket that is not tunnelled reports what the system says: no entry   *)
(* of an earlier socket with the same number is left over.  (Only dup2,    *)
(* which no hook sees, puts a socket where an entry may be.)               *)
FallbackForNonTunneled ==
  \A f \in Fds :
    sock[f].open /\ ~sock[f].dup /\ sock[f].peer # None /\ sock[f].dest = None
      => PeerName(f) = sock[f].peer

(* The routed domains, and only they, go to the MITM proxy, and an entry   *)
(* is recorded only for a tunnel that leads to the domain the address      *)
(* stood for when connect was called.                                      *)
TunnelledWhereRouted ==
  \A f \in Fds :
    /\ sock[f].dest # None => (sock[f].peer = "mitm") = (sock[f].dest \in Routed)
    /\ map[f] # None /\ ~sock[f].dup => sock[f].dest # None /\ <<map[f], sock[f].dest>> \in known

(* The temporary blocking mode never outlives the my_connect that set it.  *)
FlagsAsTheApplicationLeft ==
  \A t \in Threads :
    pc[t] = "idle" /\ own[t] # None => sock[own[t]].flags = sock[own[t]].nonblock

(* One license for the whole process, whatever becomes of the metadata: no *)
(* my_connect passes an address that getaddrinfo made up on to the system  *)
(* while a descriptor is tunnelled because the license was valid.          *)
DialsMadeUp ==
  \E f \in Fds :
    /\ sock'[f].peer \in Fakes /\ sock'[f].peer # sock[f].peer
    /\ bound[Self][sock'[f].peer] # None
OneLicense == [][DialsMadeUp => \A g \in Fds : sock[g].dest = None]_vars
=============================================================================
