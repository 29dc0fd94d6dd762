------------------------- MODULE SocketHooksProofs -------------------------
(***************************************************************************)
(* Theorems about SocketHooks for any number of threads, descriptors,      *)
(* names and addresses.  The argument rests on one fact the hooks never    *)
(* check: while a descriptor is open at most one thread works on it, and a *)
(* closed one has no entry (OwnInv).  Behind it a call in flight finds the *)
(* descriptor as it left it (CallInv), and what g_sockfd_map and the       *)
(* kernel say of a descriptor agree (EntryInv).                            *)
(***************************************************************************)
EXTENDS SocketHooks, TLAPS

OwnInv ==
  /\ \A t, u \in Threads : own[t] # None /\ own[t] = own[u] => t = u
  /\ \A t \in Threads : own[t] # None => sock[own[t]].open
  /\ \A t \in Threads : pc[t] # "idle" => own[t] # None
  /\ \A f \in Fds : ~sock[f].open => sock[f] = NoSocket /\ map[f] = None /\ asked[f] = None

(* What the my_connect or my_close of t in flight finds at its descriptor. *)
CallOf(t) ==
  /\ pc[t] = "connect" => sock[own[t]].peer = None
  /\ pc[t] \in {"connect", "handshake"} => sock[own[t]].dest = None
  /\ pc[t] \in {"connect", "handshake", "record"} =>
       held[t] \in Fakes /\ domain[t] \in Names /\ <<held[t], domain[t]>> \in known
  /\ pc[t] \in {"handshake", "record"} => sock[own[t]].peer = Via(domain[t])
  /\ pc[t] = "record" => sock[own[t]].dest = domain[t]
  /\ pc[t] = "close" => map[own[t]] = None
  /\ pc[t] \in {"idle", "connect", "record"} /\ own[t] # None =>
       sock[own[t]].flags = sock[own[t]].nonblock

CallInv == \A t \in Threads : CallOf(t)

(* TunnelledWhereRouted, of one descriptor.                                *)
TunnelOf(f) ==
  /\ sock[f].dest # None => (sock[f].peer = "mitm") = (sock[f].dest \in Routed)
  /\ map[f] # None /\ ~sock[f].dup => sock[f].dest # None /\ <<map[f], sock[f].dest>> \in known

EntryInv ==
  /\ TunnelledWhereRouted
  /\ \A f \in Fds : sock[f].peer = None => sock[f].dest = None
  /\ \A f \in Fds : asked[f] # None => map[f] = asked[f] \/ Closing(f)

(* What this process binds was handed out.                                 *)
DirInv == \A a \in Fakes : bound[Self][a] # None => <<a, bound[Self][a]>> \in known

(* Every tunnel, open or on its way, was begun under the one license.      *)
LicenseInv ==
  /\ \A t \in Threads : pc[t] \in {"connect", "handshake", "record"} => license = "valid"
  /\ \A f \in Fds : sock[f].dest # None => license = "valid"

HooksInv == TypeOK /\ OwnInv /\ CallInv /\ EntryInv /\ DirInv /\ LicenseInv

-----------------------------------------------------------------------------
(* The socket a descriptor starts with, and a step that changes one field. *)
LEMMA SockFacts ==
  /\ NoSocket \in Socks /\ ~NoSocket.open /\ NoSocket.peer = None /\ NoSocket.dest = None
  /\ NoSocket.flags = NoSocket.nonblock
  /\ None \notin Fakes /\ None \notin Names /\ None \notin Fds /\ Real \notin Fakes
  /\ "proxy" \notin Fakes /\ "mitm" \notin Fakes /\ Real # None
  /\ None # "proxy" /\ None # "mitm" /\ None # "valid"
BY HooksAssumption DEF NoSocket, Socks

LEMMA InitInv == Init => HooksInv
<1> SUFFICES ASSUME Init PROVE HooksInv
  OBVIOUS
<1> USE SockFacts DEF Init, Directory!DirInit
<1>1. TypeOK
  BY DEF TypeOK
<1>2. OwnInv
  BY DEF OwnInv
<1>3. CallInv
  BY DEF CallInv, CallOf
<1>4. EntryInv
  BY DEF EntryInv, TunnelledWhereRouted
<1>5. DirInv
  BY DEF DirInv
<1>6. LicenseInv
  BY DEF LicenseInv, NoSocket
<1> QED
  BY <1>1, <1>2, <1>3, <1>4, <1>5, <1>6 DEF HooksInv

LEMMA ResolveInv ==
  ASSUME HooksInv, NEW t \in Threads, NEW n \in Names, Resolve(t, n)
  PROVE  HooksInv'
<1> USE SockFacts DEF HooksInv, dirVars, callVars, Resolve, Directory!HandOut
<1>1. TypeOK'
  BY DEF TypeOK
<1>2. OwnInv'
  BY DEF OwnInv, TypeOK
<1>3. CallInv'
  BY DEF CallInv, CallOf, OwnInv, TypeOK
<1>4. EntryInv'
  <2>1. TunnelledWhereRouted'
    BY DEF EntryInv, TunnelledWhereRouted, Via, OwnInv, CallInv, CallOf, TypeOK
  <2>2. (\A g \in Fds : sock[g].peer = None => sock[g].dest = None)'
    BY DEF EntryInv, OwnInv, CallInv, CallOf, TypeOK, Via
  <2>3. ASSUME NEW g \in Fds, asked'[g] # None PROVE map'[g] = asked'[g] \/ Closing(g)'
    BY <2>3 DEF EntryInv, Closing, OwnInv, CallInv, CallOf, TypeOK
  <2> QED
    BY <2>1, <2>2, <2>3 DEF EntryInv
<1>5. DirInv'
  BY DEF DirInv, TypeOK
<1>6. LicenseInv'
  BY DEF LicenseInv, OwnInv, TypeOK
<1> QED
  BY <1>1, <1>2, <1>3, <1>4, <1>5, <1>6

LEMMA ResolveRealInv ==
  ASSUME HooksInv, NEW t \in Threads, ResolveReal(t)
  PROVE  HooksInv'
<1> USE SockFacts DEF HooksInv, dirVars, callVars, ResolveReal
<1>1. TypeOK'
  BY DEF TypeOK
<1>2. OwnInv'
  BY DEF OwnInv, TypeOK
<1>3. CallInv'
  BY DEF CallInv, CallOf, OwnInv, TypeOK
<1>4. EntryInv'
  <2>1. TunnelledWhereRouted'
    BY DEF EntryInv, TunnelledWhereRouted, Via, OwnInv, CallInv, CallOf, TypeOK
  <2>2. (\A g \in Fds : sock[g].peer = None => sock[g].dest = None)'
    BY DEF EntryInv, OwnInv, CallInv, CallOf, TypeOK, Via
  <2>3. ASSUME NEW g \in Fds, asked'[g] # None PROVE map'[g] = asked'[g] \/ Closing(g)'
    BY <2>3 DEF EntryInv, Closing, OwnInv, CallInv, CallOf, TypeOK
  <2> QED
    BY <2>1, <2>2, <2>3 DEF EntryInv
<1>5. DirInv'
  BY DEF DirInv, TypeOK
<1>6. LicenseInv'
  BY DEF LicenseInv, OwnInv, TypeOK
<1> QED
  BY <1>1, <1>2, <1>3, <1>4, <1>5, <1>6

LEMMA MetadataInv ==
  ASSUME HooksInv, MetadataChanges
  PROVE  HooksInv'
<1> USE DEF HooksInv, dirVars, callVars, MetadataChanges
<1>1. TypeOK'
  BY DEF TypeOK
<1>2. OwnInv' /\ DirInv' /\ LicenseInv'
  BY DEF OwnInv, DirInv, LicenseInv
<1>3. CallInv'
  BY DEF CallInv, CallOf
<1>4. EntryInv'
  BY DEF EntryInv, TunnelledWhereRouted, Closing
<1> QED
  BY <1>1, <1>2, <1>3, <1>4

LEMMA SocketInv ==
  ASSUME HooksInv, NEW t \in Threads, NEW f \in Fds, Socket(t, f)
  PROVE  HooksInv'
<1> USE SockFacts DEF HooksInv, dirVars, callVars, Socket, NoSocket
<1>a. PICK nb \in BOOLEAN : sock' = [sock EXCEPT ![f] = [NoSocket EXCEPT !.open = TRUE, !.nonblock = nb, !.flags = nb]]
  OBVIOUS
<1> DEFINE S == [NoSocket EXCEPT !.open = TRUE, !.nonblock = nb, !.flags = nb]
<1>b. S \in Socks /\ S.peer = None /\ S.dest = None /\ S.flags = S.nonblock /\ S.open /\ ~S.dup
  BY DEF Socks
<1>c. sock' = [sock EXCEPT ![f] = S]
  BY <1>a
<1> HIDE DEF S
<1>1. TypeOK'
  BY <1>b, <1>c DEF TypeOK
<1>2. OwnInv'
  BY <1>b, <1>c DEF OwnInv, TypeOK
<1>3. CallInv'
  BY <1>b, <1>c DEF CallInv, CallOf, OwnInv, TypeOK
<1>4. EntryInv'
  <2>1. TunnelledWhereRouted'
    BY <1>b, <1>c DEF EntryInv, TunnelledWhereRouted, Via, OwnInv, CallInv, CallOf, TypeOK
  <2>2. (\A g \in Fds : sock[g].peer = None => sock[g].dest = None)'
    BY <1>b, <1>c DEF EntryInv, OwnInv, CallInv, CallOf, TypeOK, Via
  <2>3. ASSUME NEW g \in Fds, asked'[g] # None PROVE map'[g] = asked'[g] \/ Closing(g)'
    BY <2>3, <1>b, <1>c DEF EntryInv, Closing, OwnInv, CallInv, CallOf, TypeOK
  <2> QED
    BY <2>1, <2>2, <2>3 DEF EntryInv
<1>5. DirInv'
  BY <1>b, <1>c DEF DirInv, TypeOK
<1>6. LicenseInv'
  BY <1>b, <1>c DEF LicenseInv, OwnInv, TypeOK
<1> QED
  BY <1>1, <1>2, <1>3, <1>4, <1>5, <1>6

LEMMA ConnectPlainInv ==
  ASSUME HooksInv, NEW t \in Threads, ConnectPlain(t)
  PROVE  HooksInv'
<1> USE SockFacts DEF HooksInv, dirVars, callVars, ConnectPlain, Connecting, Intercepted, LicenseKept, LicenseValid, CheckLicense, Return
<1>a. own[t] \in Fds /\ sock[own[t]] \in Socks /\ sock[own[t]].open
  BY DEF TypeOK, OwnInv, Connecting
<1> DEFINE S == [sock[own[t]] EXCEPT !.peer = held[t]]
<1>b. /\ S \in Socks /\ S.open /\ S.peer = held[t] /\ S.dest = None
      /\ S.flags = sock[own[t]].flags /\ S.nonblock = sock[own[t]].nonblock /\ S.dup = sock[own[t]].dup
      /\ held[t] # None /\ held[t] \in Fakes \cup {Real}
  BY <1>a DEF Socks, TypeOK, EntryInv
<1>c. sock' = sock \/ sock' = [sock EXCEPT ![own[t]] = S]
  BY <1>a
<1> HIDE DEF S
<1>1. TypeOK'
  BY <1>a, <1>b, <1>c DEF TypeOK
<1>2. OwnInv'
  BY <1>a, <1>b, <1>c DEF OwnInv, TypeOK
<1>3. CallInv'
  BY <1>a, <1>b, <1>c DEF CallInv, CallOf, OwnInv, TypeOK
<1>4. EntryInv'
  <2>1. TunnelledWhereRouted'
    BY <1>a, <1>b, <1>c DEF EntryInv, TunnelledWhereRouted, Via, OwnInv, CallInv, CallOf, TypeOK
  <2>2. (\A g \in Fds : sock[g].peer = None => sock[g].dest = None)'
    BY <1>a, <1>b, <1>c DEF EntryInv, OwnInv, CallInv, CallOf, TypeOK, Via
  <2>3. ASSUME NEW g \in Fds, asked'[g] # None PROVE map'[g] = asked'[g] \/ Closing(g)'
    BY <2>3, <1>a, <1>b, <1>c DEF EntryInv, Closing, OwnInv, CallInv, CallOf, TypeOK
  <2> QED
    BY <2>1, <2>2, <2>3 DEF EntryInv
<1>5. DirInv'
  BY <1>a, <1>b, <1>c DEF DirInv, TypeOK
<1>6. LicenseInv'
  <2>1. license = "valid" => license' = "valid"
    OBVIOUS
  <2>2. \A g \in Fds : sock'[g].dest # None => sock[g].dest # None
    BY <1>a, <1>b, <1>c DEF TypeOK
  <2>3. \A u \in Threads : pc'[u] = pc[u] \/ pc'[u] = "idle"
    BY DEF TypeOK
  <2> QED
    BY <2>1, <2>2, <2>3 DEF LicenseInv
<1> QED
  BY <1>1, <1>2, <1>3, <1>4, <1>5, <1>6

LEMMA ConnectBeginInv ==
  ASSUME HooksInv, NEW t \in Threads, ConnectBegin(t)
  PROVE  HooksInv'
<1> USE SockFacts DEF HooksInv, dirVars, callVars, ConnectBegin, Connecting, Intercepted, LicenseKept, LicenseValid, CheckLicense
<1>a. own[t] \in Fds /\ sock[own[t]] \in Socks /\ sock[own[t]].open
  BY DEF TypeOK, OwnInv, Connecting
<1>1. TypeOK'
  BY <1>a DEF TypeOK
<1>2. OwnInv'
  BY <1>a DEF OwnInv, TypeOK
<1>3. CallInv'
  <2>1. CallOf(t)'
    BY <1>a DEF CallInv, CallOf, OwnInv, EntryInv, DirInv, TypeOK
  <2>2. ASSUME NEW u \in Threads, u # t PROVE CallOf(u)'
    <3>1. own'[u] = own[u] /\ pc'[u] = pc[u] /\ (own[u] # None => own[u] # own[t] /\ own[u] \in Fds)
      BY <2>2, <1>a DEF OwnInv, TypeOK
    <3>2. own[u] # None => sock'[own[u]] = sock[own[u]] /\ map'[own[u]] = map[own[u]]
      BY <3>1, <1>a DEF TypeOK
    <3> QED
      BY <2>2, <3>1, <3>2 DEF CallInv, CallOf, OwnInv, TypeOK
  <2> QED
    BY <2>1, <2>2 DEF CallInv
<1>4. EntryInv'
  <2>1. TunnelledWhereRouted'
    BY <1>a DEF EntryInv, TunnelledWhereRouted, Via, OwnInv, CallInv, CallOf, TypeOK
  <2>2. (\A g \in Fds : sock[g].peer = None => sock[g].dest = None)'
    BY <1>a DEF EntryInv, OwnInv, CallInv, CallOf, TypeOK, Via
  <2>3. ASSUME NEW g \in Fds, asked'[g] # None PROVE map'[g] = asked'[g] \/ Closing(g)'
    BY <2>3, <1>a DEF EntryInv, Closing, OwnInv, CallInv, CallOf, TypeOK
  <2> QED
    BY <2>1, <2>2, <2>3 DEF EntryInv
<1>5. DirInv'
  BY <1>a DEF DirInv, TypeOK
<1>6. LicenseInv'
  BY <1>a DEF LicenseInv, OwnInv, TypeOK
<1> QED
  BY <1>1, <1>2, <1>3, <1>4, <1>5, <1>6

LEMMA ProxyConnectedInv ==
  ASSUME HooksInv, NEW t \in Threads, ProxyConnected(t)
  PROVE  HooksInv'
<1> USE SockFacts DEF HooksInv, dirVars, callVars, ProxyConnected, Via
<1>a. own[t] \in Fds /\ sock[own[t]] \in Socks /\ sock[own[t]].open
  BY DEF TypeOK, OwnInv, Connecting
<1> DEFINE S == [sock[own[t]] EXCEPT !.peer = Via(domain[t]), !.flags = FALSE]
<1>b. S \in Socks /\ S.peer = Via(domain[t]) /\ S.dest = sock[own[t]].dest /\ S.open /\ S.dup = sock[own[t]].dup
  BY <1>a DEF Socks, Via, CallInv, CallOf, TypeOK
<1>c. sock' = [sock EXCEPT ![own[t]] = S]
  BY <1>a
<1> HIDE DEF S
<1>1. TypeOK'
  BY <1>a, <1>b, <1>c DEF TypeOK
<1>2. OwnInv'
  BY <1>a, <1>b, <1>c DEF OwnInv, TypeOK
<1>3. CallInv'
  <2>1. CallOf(t)'
    BY <1>a, <1>b, <1>c DEF CallInv, CallOf, OwnInv, EntryInv, TypeOK
  <2>2. ASSUME NEW u \in Threads, u # t PROVE CallOf(u)'
    <3>1. own'[u] = own[u] /\ pc'[u] = pc[u] /\ (own[u] # None => own[u] # own[t] /\ own[u] \in Fds)
      BY <2>2, <1>a DEF OwnInv, TypeOK
    <3>2. own[u] # None => sock'[own[u]] = sock[own[u]] /\ map'[own[u]] = map[own[u]]
      BY <3>1, <1>a, <1>b, <1>c DEF TypeOK
    <3> QED
      BY <2>2, <3>1, <3>2 DEF CallInv, CallOf, OwnInv, TypeOK
  <2> QED
    BY <2>1, <2>2 DEF CallInv
<1>4. EntryInv'
  <2>1. TunnelledWhereRouted'
    <3>1. TunnelOf(own[t])'
      BY <1>a, <1>b, <1>c DEF TunnelOf, EntryInv, TunnelledWhereRouted, Via, OwnInv, CallInv, CallOf, TypeOK
    <3>2. ASSUME NEW g \in Fds, g # own[t] PROVE TunnelOf(g)'
      <4>1. sock'[g] = sock[g] /\ map'[g] = map[g]
        BY <3>2, <1>a, <1>b, <1>c DEF TypeOK
      <4>2. TunnelOf(g) /\ known' = known
        BY DEF TunnelOf, EntryInv, TunnelledWhereRouted
      <4> QED
        BY <4>1, <4>2 DEF TunnelOf
    <3> QED
      BY <3>1, <3>2 DEF TunnelledWhereRouted, TunnelOf
  <2>2. (\A g \in Fds : sock[g].peer = None => sock[g].dest = None)'
    BY <1>a, <1>b, <1>c DEF EntryInv, OwnInv, CallInv, CallOf, TypeOK, Via
  <2>3. ASSUME NEW g \in Fds, asked'[g] # None PROVE map'[g] = asked'[g] \/ Closing(g)'
    BY <2>3, <1>a, <1>b, <1>c DEF EntryInv, Closing, OwnInv, CallInv, CallOf, TypeOK
  <2> QED
    BY <2>1, <2>2, <2>3 DEF EntryInv
<1>5. DirInv'
  BY <1>a, <1>b, <1>c DEF DirInv, TypeOK
<1>6. LicenseInv'
  BY <1>a, <1>b, <1>c DEF LicenseInv, OwnInv, TypeOK
<1> QED
  BY <1>1, <1>2, <1>3, <1>4, <1>5, <1>6

LEMMA ProxyUnreachableInv ==
  ASSUME HooksInv, NEW t \in Threads, ProxyUnreachable(t)
  PROVE  HooksInv'
<1> USE SockFacts DEF HooksInv, dirVars, callVars, ProxyUnreachable, Return
<1>a. own[t] \in Fds /\ sock[own[t]] \in Socks /\ sock[own[t]].open
  BY DEF TypeOK, OwnInv, Connecting
<1>1. TypeOK'
  BY <1>a DEF TypeOK
<1>2. OwnInv'
  BY <1>a DEF OwnInv, TypeOK
<1>3. CallInv'
  BY <1>a DEF CallInv, CallOf, OwnInv, TypeOK
<1>4. EntryInv'
  <2>1. TunnelledWhereRouted'
    BY <1>a DEF EntryInv, TunnelledWhereRouted, Via, OwnInv, CallInv, CallOf, TypeOK
  <2>2. (\A g \in Fds : sock[g].peer = None => sock[g].dest = None)'
    BY <1>a DEF EntryInv, OwnInv, CallInv, CallOf, TypeOK, Via
  <2>3. ASSUME NEW g \in Fds, asked'[g] # None PROVE map'[g] = asked'[g] \/ Closing(g)'
    BY <2>3, <1>a DEF EntryInv, Closing, OwnInv, CallInv, CallOf, TypeOK
  <2> QED
    BY <2>1, <2>2, <2>3 DEF EntryInv
<1>5. DirInv'
  BY <1>a DEF DirInv, TypeOK
<1>6. LicenseInv'
  BY <1>a DEF LicenseInv, OwnInv, TypeOK
<1> QED
  BY <1>1, <1>2, <1>3, <1>4, <1>5, <1>6

LEMMA GrantedInv ==
  ASSUME HooksInv, NEW t \in Threads, Granted(t)
  PROVE  HooksInv'
<1> USE SockFacts DEF HooksInv, dirVars, callVars, Granted, FlagsRestored
<1>a. own[t] \in Fds /\ sock[own[t]] \in Socks /\ sock[own[t]].open
  BY DEF TypeOK, OwnInv, Connecting
<1> DEFINE S == [sock[own[t]] EXCEPT !.dest = domain[t], !.flags = sock[own[t]].nonblock]
<1>b. S \in Socks /\ S.dest = domain[t] /\ S.flags = S.nonblock /\ S.peer = sock[own[t]].peer /\ S.open /\ S.dup = sock[own[t]].dup
  BY <1>a DEF Socks, Via, CallInv, CallOf, TypeOK
<1>c. sock' = [sock EXCEPT ![own[t]] = S]
  BY <1>a
<1> HIDE DEF S
<1>1. TypeOK'
  BY <1>a, <1>b, <1>c DEF TypeOK
<1>2. OwnInv'
  BY <1>a, <1>b, <1>c DEF OwnInv, TypeOK
<1>3. CallInv'
  BY <1>a, <1>b, <1>c DEF CallInv, CallOf, OwnInv, TypeOK
<1>4. EntryInv'
  <2>1. TunnelledWhereRouted'
    <3>1. TunnelOf(own[t])'
      <4>1. sock'[own[t]] = S /\ map' = map /\ known' = known /\ own' = own
        BY <1>a, <1>b, <1>c DEF TypeOK
      <4>2. map[own[t]] = None \/ sock[own[t]].dup
        BY <1>a DEF EntryInv, TunnelledWhereRouted, CallInv, CallOf
      <4>3. S.peer = Via(domain[t]) /\ S.dest = domain[t] /\ (S.dup = sock[own[t]].dup)
        BY <1>b DEF CallInv, CallOf
      <4>4. (Via(domain[t]) = "mitm") = (domain[t] \in Routed)
        BY DEF Via
      <4> QED
        BY <4>1, <4>2, <4>3, <4>4 DEF TunnelOf
    <3>2. ASSUME NEW g \in Fds, g # own[t] PROVE TunnelOf(g)'
      <4>1. sock'[g] = sock[g] /\ map'[g] = map[g]
        BY <3>2, <1>a, <1>b, <1>c DEF TypeOK
      <4>2. TunnelOf(g) /\ known' = known
        BY DEF TunnelOf, EntryInv, TunnelledWhereRouted
      <4> QED
        BY <4>1, <4>2 DEF TunnelOf
    <3> QED
      BY <3>1, <3>2 DEF TunnelledWhereRouted, TunnelOf
  <2>2. (\A g \in Fds : sock[g].peer = None => sock[g].dest = None)'
    <3>1. S.peer # None
      BY <1>b DEF CallInv, CallOf, Via
    <3> QED
      BY <1>a, <1>c, <3>1 DEF EntryInv, TypeOK
  <2>3. ASSUME NEW g \in Fds, asked'[g] # None PROVE map'[g] = asked'[g] \/ Closing(g)'
    BY <2>3, <1>a, <1>b, <1>c DEF EntryInv, Closing, OwnInv, CallInv, CallOf, TypeOK
  <2> QED
    BY <2>1, <2>2, <2>3 DEF EntryInv
<1>5. DirInv'
  BY <1>a, <1>b, <1>c DEF DirInv, TypeOK
<1>6. LicenseInv'
  BY <1>a, <1>b, <1>c DEF LicenseInv, OwnInv, TypeOK
<1> QED
  BY <1>1, <1>2, <1>3, <1>4, <1>5, <1>6

LEMMA RefusedInv ==
  ASSUME HooksInv, NEW t \in Threads, Refused(t)
  PROVE  HooksInv'
<1> USE SockFacts DEF HooksInv, dirVars, callVars, Refused, FlagsRestored, Return
<1>a. own[t] \in Fds /\ sock[own[t]] \in Socks /\ sock[own[t]].open
  BY DEF TypeOK, OwnInv, Connecting
<1> DEFINE S == [sock[own[t]] EXCEPT !.flags = sock[own[t]].nonblock]
<1>b. S \in Socks /\ S.dest = sock[own[t]].dest /\ S.flags = S.nonblock /\ S.peer = sock[own[t]].peer /\ S.open /\ S.dup = sock[own[t]].dup
  BY <1>a DEF Socks, Via, CallInv, CallOf, TypeOK
<1>c. sock' = [sock EXCEPT ![own[t]] = S]
  BY <1>a
<1> HIDE DEF S
<1>1. TypeOK'
  BY <1>a, <1>b, <1>c DEF TypeOK
<1>2. OwnInv'
  BY <1>a, <1>b, <1>c DEF OwnInv, TypeOK
<1>3. CallInv'
  BY <1>a, <1>b, <1>c DEF CallInv, CallOf, OwnInv, TypeOK
<1>4. EntryInv'
  <2>1. TunnelledWhereRouted'
    BY <1>a, <1>b, <1>c DEF EntryInv, TunnelledWhereRouted, Via, OwnInv, CallInv, CallOf, TypeOK
  <2>2. (\A g \in Fds : sock[g].peer = None => sock[g].dest = None)'
    BY <1>a, <1>b, <1>c DEF EntryInv, OwnInv, CallInv, CallOf, TypeOK, Via
  <2>3. ASSUME NEW g \in Fds, asked'[g] # None PROVE map'[g] = asked'[g] \/ Closing(g)'
    BY <2>3, <1>a, <1>b, <1>c DEF EntryInv, Closing, OwnInv, CallInv, CallOf, TypeOK
  <2> QED
    BY <2>1, <2>2, <2>3 DEF EntryInv
<1>5. DirInv'
  BY <1>a, <1>b, <1>c DEF DirInv, TypeOK
<1>6. LicenseInv'
  BY <1>a, <1>b, <1>c DEF LicenseInv, OwnInv, TypeOK
<1> QED
  BY <1>1, <1>2, <1>3, <1>4, <1>5, <1>6

LEMMA RecordInv ==
  ASSUME HooksInv, NEW t \in Threads, Record(t)
  PROVE  HooksInv'
<1> USE SockFacts DEF HooksInv, dirVars, callVars, Record, Recorded, Return
<1>a. own[t] \in Fds /\ sock[own[t]] \in Socks /\ sock[own[t]].open
  BY DEF TypeOK, OwnInv, Connecting
<1>1. TypeOK'
  BY <1>a DEF TypeOK, CallInv, CallOf
<1>2. OwnInv'
  BY <1>a DEF OwnInv, TypeOK
<1>3. CallInv'
  BY <1>a DEF CallInv, CallOf, OwnInv, TypeOK
<1>4. EntryInv'
  <2>1. TunnelledWhereRouted'
    <3>1. TunnelOf(own[t])'
      <4>1. TunnelOf(own[t]) /\ known' = known /\ sock' = sock /\ own' = own
        BY <1>a DEF TunnelOf, EntryInv, TunnelledWhereRouted
      <4>2. map'[own[t]] = held[t] /\ sock[own[t]].dest = domain[t]
        BY <1>a DEF TypeOK, CallInv, CallOf
      <4>3. domain[t] # None /\ <<held[t], domain[t]>> \in known
        BY DEF CallInv, CallOf
      <4> QED
        BY <4>1, <4>2, <4>3 DEF TunnelOf
    <3>2. ASSUME NEW g \in Fds, g # own[t] PROVE TunnelOf(g)'
      <4>1. sock'[g] = sock[g] /\ map'[g] = map[g]
        BY <3>2, <1>a DEF TypeOK
      <4>2. TunnelOf(g) /\ known' = known
        BY DEF TunnelOf, EntryInv, TunnelledWhereRouted
      <4> QED
        BY <4>1, <4>2 DEF TunnelOf
    <3> QED
      BY <3>1, <3>2 DEF TunnelledWhereRouted, TunnelOf
  <2>2. (\A g \in Fds : sock[g].peer = None => sock[g].dest = None)'
    BY <1>a DEF EntryInv, OwnInv, CallInv, CallOf, TypeOK, Via
  <2>3. ASSUME NEW g \in Fds, asked'[g] # None PROVE map'[g] = asked'[g] \/ Closing(g)'
    BY <2>3, <1>a DEF EntryInv, Closing, OwnInv, CallInv, CallOf, TypeOK
  <2> QED
    BY <2>1, <2>2, <2>3 DEF EntryInv
<1>5. DirInv'
  BY <1>a DEF DirInv, TypeOK
<1>6. LicenseInv'
  BY <1>a DEF LicenseInv, OwnInv, TypeOK
<1> QED
  BY <1>1, <1>2, <1>3, <1>4, <1>5, <1>6

LEMMA CloseBeginInv ==
  ASSUME HooksInv, NEW t \in Threads, CloseBegin(t)
  PROVE  HooksInv'
<1> USE SockFacts DEF HooksInv, dirVars, callVars, CloseBegin, CloseStep, Erase
<1>a. own[t] \in Fds /\ sock[own[t]] \in Socks /\ sock[own[t]].open
  BY DEF TypeOK, OwnInv, Connecting
<1>1. TypeOK'
  BY <1>a DEF TypeOK
<1>2. OwnInv'
  BY <1>a DEF OwnInv, TypeOK
<1>3. CallInv'
  BY <1>a DEF CallInv, CallOf, OwnInv, TypeOK
<1>4. EntryInv'
  <2>1. TunnelledWhereRouted'
    BY <1>a DEF EntryInv, TunnelledWhereRouted, Via, OwnInv, CallInv, CallOf, TypeOK
  <2>2. (\A g \in Fds : sock[g].peer = None => sock[g].dest = None)'
    BY <1>a DEF EntryInv, OwnInv, CallInv, CallOf, TypeOK, Via
  <2>3. ASSUME NEW g \in Fds, asked'[g] # None PROVE map'[g] = asked'[g] \/ Closing(g)'
    BY <2>3, <1>a DEF EntryInv, Closing, OwnInv, CallInv, CallOf, TypeOK
  <2> QED
    BY <2>1, <2>2, <2>3 DEF EntryInv
<1>5. DirInv'
  BY <1>a DEF DirInv, TypeOK
<1>6. LicenseInv'
  BY <1>a DEF LicenseInv, OwnInv, TypeOK
<1> QED
  BY <1>1, <1>2, <1>3, <1>4, <1>5, <1>6

LEMMA CloseEndInv ==
  ASSUME HooksInv, NEW t \in Threads, CloseEnd(t)
  PROVE  HooksInv'
<1> USE SockFacts DEF HooksInv, dirVars, callVars, CloseEnd, CloseStep, Release
<1>a. own[t] \in Fds /\ sock[own[t]] \in Socks /\ sock[own[t]].open
  BY DEF TypeOK, OwnInv, Connecting
<1>f. PICK f \in Fds : f = own[t]
  BY <1>a
<1>g. /\ sock' = [sock EXCEPT ![f] = NoSocket] /\ asked' = [asked EXCEPT ![f] = None]
      /\ map' = map /\ map[f] = None /\ own' = [own EXCEPT ![t] = None]
  <2>1. pc[t] = "close" => map[own[t]] = None
    BY DEF CallInv, CallOf
  <2> QED
    BY <1>f, <2>1
<1>1. TypeOK'
  BY <1>a DEF TypeOK
<1>2. OwnInv'
  BY <1>f, <1>g DEF OwnInv, TypeOK
<1>3. CallInv'
  BY <1>a DEF CallInv, CallOf, OwnInv, TypeOK
<1>4. EntryInv'
  <2>1. TunnelledWhereRouted'
    <3>1. TunnelOf(f)'
      BY <1>g DEF TunnelOf, TypeOK
    <3>2. ASSUME NEW g \in Fds, g # f PROVE TunnelOf(g)'
      <4>1. sock'[g] = sock[g] /\ map'[g] = map[g]
        BY <3>2, <1>g DEF TypeOK
      <4>2. TunnelOf(g) /\ known' = known
        BY DEF TunnelOf, EntryInv, TunnelledWhereRouted
      <4> QED
        BY <4>1, <4>2 DEF TunnelOf
    <3> QED
      BY <3>1, <3>2 DEF TunnelledWhereRouted, TunnelOf
  <2>2. (\A g \in Fds : sock[g].peer = None => sock[g].dest = None)'
    BY <1>a DEF EntryInv, OwnInv, CallInv, CallOf, TypeOK, Via
  <2>3. ASSUME NEW g \in Fds, asked'[g] # None PROVE map'[g] = asked'[g] \/ Closing(g)'
    BY <2>3, <1>a DEF EntryInv, Closing, OwnInv, CallInv, CallOf, TypeOK
  <2> QED
    BY <2>1, <2>2, <2>3 DEF EntryInv
<1>5. DirInv'
  BY <1>a DEF DirInv, TypeOK
<1>6. LicenseInv'
  BY <1>a DEF LicenseInv, OwnInv, TypeOK
<1> QED
  BY <1>1, <1>2, <1>3, <1>4, <1>5, <1>6

LEMMA Dup2Inv ==
  ASSUME HooksInv, NEW t \in Threads, Dup2(t)
  PROVE  HooksInv'
<1> USE SockFacts DEF HooksInv, dirVars, callVars, Dup2, NoSocket
<1>a. own[t] \in Fds /\ sock[own[t]] \in Socks /\ sock[own[t]].open
  BY DEF TypeOK, OwnInv, Connecting
<1> DEFINE S == [NoSocket EXCEPT !.open = TRUE, !.dup = TRUE]
<1>b. S \in Socks /\ S.peer = None /\ S.dest = None /\ S.flags = S.nonblock /\ S.open /\ S.dup
  BY <1>a DEF Socks, Via, CallInv, CallOf, TypeOK
<1>c. sock' = [sock EXCEPT ![own[t]] = S]
  BY <1>a
<1> HIDE DEF S
<1>1. TypeOK'
  BY <1>a, <1>b, <1>c DEF TypeOK
<1>2. OwnInv'
  BY <1>a, <1>b, <1>c DEF OwnInv, TypeOK
<1>3. CallInv'
  <2>1. CallOf(t)'
    BY <1>a, <1>b, <1>c DEF CallInv, CallOf, OwnInv, EntryInv, TypeOK
  <2>2. ASSUME NEW u \in Threads, u # t PROVE CallOf(u)'
    <3>1. own'[u] = own[u] /\ pc'[u] = pc[u] /\ (own[u] # None => own[u] # own[t] /\ own[u] \in Fds)
      BY <2>2, <1>a DEF OwnInv, TypeOK
    <3>2. own[u] # None => sock'[own[u]] = sock[own[u]] /\ map'[own[u]] = map[own[u]]
      BY <3>1, <1>a, <1>b, <1>c DEF TypeOK
    <3> QED
      BY <2>2, <3>1, <3>2 DEF CallInv, CallOf, OwnInv, TypeOK
  <2> QED
    BY <2>1, <2>2 DEF CallInv
<1>4. EntryInv'
  <2>1. TunnelledWhereRouted'
    BY <1>a, <1>b, <1>c DEF EntryInv, TunnelledWhereRouted, Via, OwnInv, CallInv, CallOf, TypeOK
  <2>2. (\A g \in Fds : sock[g].peer = None => sock[g].dest = None)'
    BY <1>a, <1>b, <1>c DEF EntryInv, OwnInv, CallInv, CallOf, TypeOK, Via
  <2>3. ASSUME NEW g \in Fds, asked'[g] # None PROVE map'[g] = asked'[g] \/ Closing(g)'
    BY <2>3, <1>a, <1>b, <1>c DEF EntryInv, Closing, OwnInv, CallInv, CallOf, TypeOK
  <2> QED
    BY <2>1, <2>2, <2>3 DEF EntryInv
<1>5. DirInv'
  BY <1>a, <1>b, <1>c DEF DirInv, TypeOK
<1>6. LicenseInv'
  BY <1>a, <1>b, <1>c DEF LicenseInv, OwnInv, TypeOK
<1> QED
  BY <1>1, <1>2, <1>3, <1>4, <1>5, <1>6

LEMMA NextInv == HooksInv /\ [Next]_vars => HooksInv'
<1> SUFFICES ASSUME HooksInv, [Next]_vars PROVE HooksInv'
  OBVIOUS
<1>1. ASSUME NEW t \in Threads, NEW n \in Names, Resolve(t, n) PROVE HooksInv'
  BY <1>1, ResolveInv
<1>2. ASSUME NEW t \in Threads, NEW f \in Fds, Socket(t, f) PROVE HooksInv'
  BY <1>2, SocketInv
<1>3. ASSUME NEW t \in Threads, ResolveReal(t) PROVE HooksInv'
  BY <1>3, ResolveRealInv
<1>4. ASSUME NEW t \in Threads, Connect(t) PROVE HooksInv'
  BY <1>4, ConnectPlainInv, ConnectBeginInv, ProxyConnectedInv, ProxyUnreachableInv, GrantedInv,
     RefusedInv, RecordInv DEF Connect
<1>5. ASSUME NEW t \in Threads, CloseBegin(t) PROVE HooksInv'
  BY <1>5, CloseBeginInv
<1>6. ASSUME NEW t \in Threads, CloseEnd(t) PROVE HooksInv'
  BY <1>6, CloseEndInv
<1>7. ASSUME NEW t \in Threads, Dup2(t) PROVE HooksInv'
  BY <1>7, Dup2Inv
<1>9. CASE MetadataChanges
  BY <1>9, MetadataInv
<1>8. CASE UNCHANGED vars
  <2> USE <1>8 DEF vars, dirVars, callVars, HooksInv
  <2>1. TypeOK' /\ OwnInv' /\ DirInv' /\ LicenseInv'
    BY DEF TypeOK, OwnInv, DirInv, LicenseInv
  <2>2. CallInv'
    BY DEF CallInv, CallOf
  <2>3. EntryInv'
    BY DEF EntryInv, TunnelledWhereRouted, Closing
  <2> QED
    BY <2>1, <2>2, <2>3
<1> QED
  BY <1>1, <1>2, <1>3, <1>4, <1>5, <1>6, <1>7, <1>8, <1>9 DEF Next

LEMMA SpecInv == Spec => []HooksInv
BY InitInv, NextInv, PTL DEF Spec

-----------------------------------------------------------------------------
(* The types of SocketHooks.                                               *)
THEOREM TypeCorrect == Spec => []TypeOK
<1>1. HooksInv => TypeOK
  BY DEF HooksInv
<1> QED
  BY SpecInv, <1>1, PTL

(* my_getpeername answers, for a tunnelled descriptor, the address its     *)
(* my_connect was called with, however the threads close and reopen the    *)
(* numbers: my_close erases the entry before the number is free.           *)
THEOREM PeerAddressKeptCorrect == Spec => []PeerAddressKept
<1>1. HooksInv => PeerAddressKept
  BY HooksAssumption DEF HooksInv, EntryInv, PeerAddressKept, PeerName, TypeOK
<1> QED
  BY SpecInv, <1>1, PTL

(* my_getpeername of a socket that is not tunnelled: no entry of an        *)
(* earlier socket with its number is left in g_sockfd_map.                 *)
THEOREM FallbackCorrect == Spec => []FallbackForNonTunneled
<1>1. HooksInv => FallbackForNonTunneled
  BY DEF HooksInv, EntryInv, TunnelledWhereRouted, FallbackForNonTunneled, PeerName
<1> QED
  BY SpecInv, <1>1, PTL

(* my_connect: isMitmDomain chooses the proxy, and an entry is made for a  *)
(* tunnel to the domain the address stood for, for any number of threads   *)
(* that resolve and connect at once.                                       *)
THEOREM TunnelledCorrect == Spec => []TunnelledWhereRouted
<1>1. HooksInv => TunnelledWhereRouted
  BY DEF HooksInv, EntryInv
<1> QED
  BY SpecInv, <1>1, PTL

(* my_connect leaves the blocking mode of a descriptor as it found it, on  *)
(* each of its returns.                                                    *)
THEOREM FlagsCorrect == Spec => []FlagsAsTheApplicationLeft
<1>1. HooksInv => FlagsAsTheApplicationLeft
  BY DEF HooksInv, CallInv, CallOf, FlagsAsTheApplicationLeft
<1> QED
  BY SpecInv, <1>1, PTL

(* Whatever becomes of the metadata and in whichever threads: while a      *)
(* descriptor is tunnelled no my_connect passes an address that            *)
(* getaddrinfo made up on to the system.                                   *)
THEOREM OneLicenseCorrect == Spec => OneLicense
<1>1. HooksInv /\ [Next]_vars => [DialsMadeUp => \A g \in Fds : sock[g].dest = None]_vars
  <2> SUFFICES ASSUME HooksInv, Next, NEW f \in Fds, sock'[f].peer \in Fakes, sock'[f].peer # sock[f].peer,
                      bound[Self][sock'[f].peer] # None, NEW g \in Fds
               PROVE  sock[g].dest = None
    BY DEF DialsMadeUp
  <2> USE SockFacts DEF HooksInv, dirVars, callVars
  <2>1. ASSUME NEW t \in Threads, ConnectPlain(t) PROVE sock[g].dest = None
    <3>1. sock' = [sock EXCEPT ![own[t]].peer = held[t]]
      BY <2>1 DEF ConnectPlain
    <3>2. f = own[t] /\ sock'[f].peer = held[t]
      BY <3>1 DEF TypeOK
    <3>3. ~LicenseValid
      BY <2>1, <3>2 DEF ConnectPlain, Intercepted
    <3>4. license # "valid"
      BY <3>3 DEF LicenseValid
    <3> QED
      BY <3>4 DEF LicenseInv
  <2>2. ASSUME NEW t \in Threads, ProxyConnected(t) PROVE FALSE
    <3>1. sock'[f].peer = sock[f].peer \/ sock'[f].peer = Via(domain[t])
      BY <2>2 DEF ProxyConnected, TypeOK
    <3> QED
      BY <3>1 DEF Via
  <2>3. ASSUME NEW t \in Threads, NEW n \in Fds, Socket(t, n) PROVE FALSE
    <3>1. sock'[f] = sock[f] \/ sock'[f].peer = None
      BY <2>3 DEF Socket, NoSocket, TypeOK
    <3> QED
      BY <3>1
  <2>4. ASSUME NEW t \in Threads, CloseEnd(t) \/ Dup2(t) PROVE FALSE
    <3>1. CASE CloseEnd(t)
      <4>1. sock' = [sock EXCEPT ![own[t]] = NoSocket]
        BY <3>1 DEF CloseEnd, CloseStep, Release
      <4>2. sock'[f] = sock[f] \/ sock'[f] = NoSocket
        BY <4>1 DEF TypeOK
      <4> QED
        BY <4>2
    <3>2. CASE Dup2(t)
      <4> DEFINE S == [NoSocket EXCEPT !.open = TRUE, !.dup = TRUE]
      <4>1. S.peer = None
        BY DEF NoSocket
      <4>2. sock' = [sock EXCEPT ![own[t]] = S]
        BY <3>2 DEF Dup2
      <4> HIDE DEF S
      <4>3. sock'[f] = sock[f] \/ sock'[f] = S
        BY <4>2 DEF TypeOK
      <4> QED
        BY <4>1, <4>3
    <3> QED
      BY <2>4, <3>1, <3>2
  <2>5. ASSUME NEW t \in Threads, Granted(t) \/ Refused(t) PROVE FALSE
    <3>1. own[t] \in Fds /\ sock[own[t]] \in Socks
      BY <2>5 DEF Granted, Refused, OwnInv, TypeOK
    <3> DEFINE G == [sock[own[t]] EXCEPT !.dest = domain[t], !.flags = FlagsRestored(own[t])]
               R == [sock[own[t]] EXCEPT !.flags = FlagsRestored(own[t])]
    <3>2. G.peer = sock[own[t]].peer /\ R.peer = sock[own[t]].peer
      BY <3>1 DEF Socks
    <3>3. sock' = [sock EXCEPT ![own[t]] = G] \/ sock' = [sock EXCEPT ![own[t]] = R]
      BY <2>5, <3>1 DEF Granted, Refused, TypeOK
    <3> HIDE DEF G, R
    <3>4. sock'[f].peer = sock[f].peer
      BY <3>1, <3>2, <3>3 DEF TypeOK
    <3> QED
      BY <3>4
  <2>6. sock' # sock
    OBVIOUS
  <2> QED
    BY <2>1, <2>2, <2>3, <2>4, <2>5, <2>6
       DEF Next, Connect, MetadataChanges, Resolve, ResolveReal, ConnectBegin, ProxyUnreachable,
           Record, CloseBegin, CloseStep, Erase
<1> QED
  BY <1>1, SpecInv, PTL DEF Spec, OneLicense
=============================================================================
