---------------------------- MODULE FakeIPProofs ----------------------------
(***************************************************************************)
(* Theorems about FakeIP for any number of processes, domains and stores,  *)
(* any block and ring size.  The argument has layers: where addresses can  *)
(* be (PoolInv), how the two maps of a process and its operation in flight *)
(* agree (MapInv), what the ring can hold while one process at a time      *)
(* writes it (RingInv), in which order its entries were put (OrderInv),    *)
(* and how old the addresses of a process are (AgeInv).                    *)
(***************************************************************************)
EXTENDS FakeIP, WellFoundedInduction, FiniteSetTheorems, TLAPS

-----------------------------------------------------------------------------
(* Sets of naturals have a least element, bounded ones a greatest.         *)
LEMMA NatMinimum ==
  ASSUME NEW S \in SUBSET Nat, S # {}
  PROVE  \E m \in S : \A n \in S : m <= n
<1>1. \E m \in S : \A n \in S : <<n, m>> \notin OpToRel(<, Nat)
  BY WFMin, NatLessThanWellFounded
<1>2. \A m, n \in S : <<n, m>> \notin OpToRel(<, Nat) => m <= n
  BY DEF OpToRel
<1> QED
  BY <1>1, <1>2

LEMMA NatMaximum ==
  ASSUME NEW S \in SUBSET Nat, S # {}, NEW b \in Nat, \A n \in S : n <= b
  PROVE  \E m \in S : \A n \in S : n <= m
<1> DEFINE D == {b - n : n \in S}
<1>0. \A n \in S : b - n \in Nat
  OBVIOUS
<1>1. D \in SUBSET Nat /\ D # {}
  BY <1>0
<1>2. PICK d \in D : \A e \in D : d <= e
  BY <1>1, NatMinimum
<1>3. PICK m \in S : d = b - m
  OBVIOUS
<1>4. ASSUME NEW n \in S PROVE n <= m
  <2>1. d <= b - n
    BY <1>2
  <2> QED
    BY <2>1, <1>3
<1> QED
  BY <1>4

-----------------------------------------------------------------------------
(* Every address in flight, in the ring or in a reverse map is of the      *)
(* pool, and no entry is younger than the clock.                           *)
PoolInv ==
  /\ NetworkSize > 2 => \A p \in Procs : cursor[p] \in Pool
  /\ \A p \in Procs : pc[p] \in {"put", "copy"} =>
       /\ job[p].ip \in Pool /\ job[p].domain \in Domains
       /\ <<job[p].ip, job[p].domain>> \in issued
  /\ \A p \in Procs : pc[p] = "get" => job[p].ip \in Addrs
  /\ \A p \in Procs : pc[p] = "copy" =>
       table[p] \in Tables /\ entries[table[p]][job[p].slot].ip \in Pool
  /\ \A t \in Tables, i \in Slots :
       /\ entries[t][i].domain # None => entries[t][i].ip \in Pool
       /\ entries[t][i].tick <= clock
  /\ \A p \in Procs, d \in Domains : domainToIp[p][d] # None => domainToIp[p][d] \in Pool
  /\ \A p \in Procs, ip \in Addrs : given[p][ip] # None => ip \in Pool

TypeInv == TypeOK /\ PoolInv

LEMMA PoolFacts == /\ Pool \subseteq Addrs /\ Pool \subseteq Nat /\ None \notin Pool
                   /\ Addrs \subseteq Nat /\ None \notin Addrs
                   /\ Slots \subseteq Nat /\ 0 \in Slots
BY ConstantsAssumption DEF Pool, Addrs, Slots

LEMMA CursorInPool == ASSUME NetworkSize > 2, NEW c \in Pool
                      PROVE  NextCursor(c) \in Pool
BY ConstantsAssumption DEF Pool, NextCursor

(* SharedGet's scan settles on one of the entries it considers.            *)
LEMMA BestExists ==
  ASSUME TypeInv, NEW t \in Tables, NEW ip, Published(t, ip) # {}
  PROVE  /\ Best(t, ip) \in Published(t, ip)
         /\ \A j \in Published(t, ip) :
              \/ entries[t][j].tick < entries[t][Best(t, ip)].tick
              \/ entries[t][j].tick = entries[t][Best(t, ip)].tick /\ j <= Best(t, ip)
<1> DEFINE P == Published(t, ip)
           Ticks == {entries[t][i].tick : i \in P}
<1>0. /\ P \subseteq Slots /\ P # {}
      /\ \A i \in P : entries[t][i].tick \in Nat /\ entries[t][i].tick <= clock
      /\ clock \in Nat /\ \A i \in Slots : i \in Nat /\ i <= Capacity
      /\ Capacity \in Nat
  BY ConstantsAssumption DEF TypeInv, TypeOK, PoolInv, Entry, Published, Slots
<1> HIDE DEF P
<1>1. Ticks \in SUBSET Nat /\ Ticks # {} /\ \A n \in Ticks : n <= clock
  BY <1>0
<1>2. PICK m \in Ticks : \A n \in Ticks : n <= m
  BY <1>0, <1>1, NatMaximum
<1> DEFINE L == {i \in P : entries[t][i].tick = m}
<1>3. L \in SUBSET Nat /\ L # {} /\ \A i \in L : i <= Capacity
  BY <1>0
<1>4. PICK k \in L : \A i \in L : i <= k
  BY <1>0, <1>3, NatMaximum
<1>5. \A j \in P : \/ entries[t][j].tick < entries[t][k].tick
                   \/ entries[t][j].tick = entries[t][k].tick /\ j <= k
  <2> TAKE j \in P
  <2>1. entries[t][j].tick \in Ticks /\ entries[t][k].tick = m /\ m \in Nat
    BY <1>1
  <2>2. entries[t][j].tick <= m /\ entries[t][j].tick \in Nat
    BY <2>1, <1>1, <1>2
  <2>3. CASE entries[t][j].tick = m
    BY <2>1, <2>3, <1>4
  <2>4. CASE entries[t][j].tick < m
    BY <2>1, <2>4
  <2> QED
    BY <2>1, <2>2, <2>3, <2>4
<1> QED
  BY <1>5, k \in P DEF Best, P

LEMMA SharedGetAnswer ==
  ASSUME TypeInv, NEW t \in Tables, NEW ip \in Addrs, SharedGet(t, ip) # None
  PROVE  /\ ip \in Pool
         /\ SharedGet(t, ip) \in Domains \cup {Garbled}
         /\ \E i \in Slots : /\ entries[t][i].ip = ip
                             /\ entries[t][i].domain = SharedGet(t, ip)
<1>1. Published(t, ip) # {} /\ SharedGet(t, ip) = entries[t][Best(t, ip)].domain
  BY DEF SharedGet
<1>2. Best(t, ip) \in Published(t, ip)
  BY <1>1, BestExists
<1>3. /\ Best(t, ip) \in Slots
      /\ entries[t][Best(t, ip)].ip = ip
      /\ entries[t][Best(t, ip)].domain # None
  BY <1>2 DEF Published
<1>4. entries[t][Best(t, ip)] \in Entry
  BY <1>3 DEF TypeInv, TypeOK
<1> QED
  BY <1>1, <1>3, <1>4 DEF TypeInv, PoolInv, Entry

(* Writing a domain into the slot of p keeps the ring well formed.         *)
LEMMA DomainWrittenSound ==
  ASSUME TypeInv, NEW p \in Procs, pc[p] = "copy",
         NEW d \in Domains \cup {Garbled}, entries' = DomainWritten(p, d)
  PROVE  /\ entries' \in [Tables -> [Slots -> Entry]]
         /\ \A t \in Tables, i \in Slots :
              /\ entries'[t][i].ip = entries[t][i].ip
              /\ entries'[t][i].domain # None => entries'[t][i].ip \in Pool
              /\ entries'[t][i].tick <= clock
              /\ ~(t = table[p] /\ i = job[p].slot) => entries'[t][i] = entries[t][i]
         /\ entries'[table[p]][job[p].slot].domain = d
<1> DEFINE t == table[p]
           i == job[p].slot
           e == entries[t][i]
           f == [ip |-> e.ip, tick |-> e.tick, domain |-> d, seq |-> e.seq]
<1>1. t \in Tables /\ i \in Slots /\ e.ip \in Pool
  BY DEF TypeInv, TypeOK, PoolInv
<1>2. e \in Entry /\ e.tick <= clock
  BY <1>1 DEF TypeInv, TypeOK, PoolInv
<1>3. f \in Entry
  BY <1>2 DEF Entry
<1>4. entries' = [entries EXCEPT ![t][i] = f]
  BY DEF DomainWritten
<1>5. f.ip = e.ip /\ f.tick = e.tick /\ f.domain = d
  OBVIOUS
<1>6. entries \in [Tables -> [Slots -> Entry]]
  BY DEF TypeInv, TypeOK
<1>7. \A u \in Tables, j \in Slots :
        /\ entries[u][j].domain # None => entries[u][j].ip \in Pool
        /\ entries[u][j].tick <= clock
  BY DEF TypeInv, PoolInv
<1> HIDE DEF t, i, e, f
<1>8. \A u \in Tables, j \in Slots :
        entries'[u][j] = IF u = t /\ j = i THEN f ELSE entries[u][j]
  BY <1>1, <1>4, <1>6
<1>9. entries' \in [Tables -> [Slots -> Entry]]
  BY <1>1, <1>3, <1>4, <1>6
<1> QED
  BY <1>1, <1>2, <1>5, <1>7, <1>8, <1>9 DEF t, i, e

(* Types, and addresses in the pool: one step per action.                  *)
LEMMA InitTypeInv == Init => TypeInv
<1> SUFFICES ASSUME Init PROVE TypeInv
  OBVIOUS
<1>1. 1 \in Nat \ {0} /\ (NetworkSize > 2 => 1 \in Pool)
  BY ConstantsAssumption DEF Pool
<1> QED
  <2>1. EmptyEntry \in Entry /\ NoJob \in [ip : Addrs \cup {0}, domain : Domains \cup {None}, slot : Slots]
    BY PoolFacts DEF EmptyEntry, Entry, NoJob
  <2>2. TypeOK
    BY <1>1, <2>1, PoolFacts DEF Init, TypeOK
  <2>3. PoolInv
    BY <1>1, PoolFacts DEF Init, PoolInv, EmptyEntry
  <2> QED
    BY <2>2, <2>3 DEF TypeInv

LEMMA NextTypeInv == TypeInv /\ [Next]_vars => TypeInv'
<1> SUFFICES ASSUME TypeInv, [Next]_vars PROVE TypeInv'
  OBVIOUS
<1> USE PoolFacts, ConstantsAssumption DEF procVars, ringVars
<1>1. CASE UNCHANGED vars
  BY <1>1 DEF vars, TypeInv, TypeOK, PoolInv
<1>2. CASE Tick
  <2>1. clock' \in Nat /\ clock <= clock'
    BY <1>2 DEF Tick, TypeInv, TypeOK
  <2>2. TypeOK'
    BY <1>2, <2>1 DEF Tick, TypeInv, TypeOK
  <2>3. \A t \in Tables, i \in Slots : entries'[t][i].tick <= clock'
    <3> SUFFICES ASSUME NEW t \in Tables, NEW i \in Slots
                 PROVE  entries[t][i].tick <= clock'
      BY <1>2 DEF Tick
    <3>1. entries[t][i].tick \in Nat /\ entries[t][i].tick <= clock /\ clock \in Nat
      BY DEF TypeInv, TypeOK, PoolInv, Entry
    <3> QED
      BY <3>1, <2>1
  <2> QED
    BY <1>2, <2>2, <2>3 DEF Tick, TypeInv, PoolInv
<1>3. ASSUME NEW p \in Procs, NEW d \in Domains, AllocKnown(p, d) PROVE TypeInv'
  BY <1>3 DEF AllocKnown, TypeInv, TypeOK, PoolInv
<1>4. ASSUME NEW p \in Procs, NEW d \in Domains, AllocFresh(p, d) PROVE TypeInv'
  <2>1. cursor[p] \in Pool /\ NextCursor(cursor[p]) \in Pool /\ allocs[p] + 1 \in Nat
    BY <1>4, CursorInPool DEF AllocFresh, TypeInv, TypeOK, PoolInv
  <2>2. domainToIp' \in [Procs -> [Domains -> Addrs \cup {None}]]
    <3>1. ForgetOldDomain(p, cursor[p]) \in [Domains -> Addrs \cup {None}]
      BY DEF ForgetOldDomain, TypeInv, TypeOK
    <3> QED
      BY <1>4, <2>1, <3>1 DEF AllocFresh, TypeInv, TypeOK
  <2>3. TypeOK'
    <3>1. issued' \subseteq Pool \X Domains
      BY <1>4, <2>1 DEF AllocFresh, TypeInv, TypeOK
    <3>2. job' \in [Procs -> [ip : Addrs \cup {0}, domain : Domains \cup {None}, slot : Slots]]
      BY <1>4, <2>1 DEF AllocFresh, TypeInv, TypeOK
    <3>3. /\ ipToDomain' \in [Procs -> [Addrs -> Domains \cup {None, Garbled}]]
          /\ given' \in [Procs -> [Addrs -> Domains \cup {None}]]
      BY <1>4, <2>1 DEF AllocFresh, TypeInv, TypeOK
    <3>4. /\ born' \in [Procs -> [Addrs -> Nat \cup {None}]]
          /\ allocs' \in [Procs -> Nat] /\ cursor' \in [Procs -> Nat \ {0}]
      BY <1>4, <2>1 DEF AllocFresh, TypeInv, TypeOK, Pool
    <3> QED
      BY <1>4, <2>2, <3>1, <3>2, <3>3, <3>4 DEF AllocFresh, TypeInv, TypeOK
  <2>4. PoolInv'
    BY <1>4, <2>1 DEF AllocFresh, TypeInv, TypeOK, PoolInv, ForgetOldDomain
  <2> QED
    BY <2>3, <2>4 DEF TypeInv
<1>5. ASSUME NEW p \in Procs, NEW ip \in Addrs, GetBegin(p, ip) PROVE TypeInv'
  BY <1>5 DEF GetBegin, TypeInv, TypeOK, PoolInv
<1>6. ASSUME NEW p \in Procs, Attach(p) PROVE TypeInv'
  BY <1>6 DEF Attach, TypeInv, TypeOK, PoolInv
<1>7. ASSUME NEW p \in Procs, PutBegin(p) PROVE TypeInv'
  <2> DEFINE t == table[p]
             i == ringCursor[t] % Capacity
  <2>1. t \in Tables /\ i \in Slots /\ ringCursor[t] + 1 \in Nat
        /\ job[p].ip \in Pool
    <3>1. t \in Tables /\ job[p].ip \in Pool
      BY <1>7 DEF PutBegin, TypeInv, TypeOK, PoolInv
    <3>2. ringCursor[t] \in Nat
      BY <3>1 DEF TypeInv, TypeOK
    <3>3. i \in Slots
      BY <3>2 DEF Slots
    <3> QED
      BY <3>1, <3>2, <3>3
  <2>2. entries' = [entries EXCEPT ![t][i] =
                      [ip |-> job[p].ip, tick |-> clock, domain |-> entries[t][i].domain,
                       seq |-> ringCursor[t] + 1]]
    BY <1>7, <2>1 DEF PutBegin, TypeInv, TypeOK, Entry
  <2>3. entries'[t][i] \in Entry
    BY <2>1, <2>2 DEF TypeInv, TypeOK, Entry
  <2> HIDE DEF t, i
  <2>4. entries' \in [Tables -> [Slots -> Entry]]
    BY <2>1, <2>2, <2>3 DEF TypeInv, TypeOK
  <2>5. TypeOK'
    BY <1>7, <2>1, <2>4 DEF PutBegin, TypeInv, TypeOK, t, i
  <2>6. \A u \in Tables, j \in Slots :
          /\ entries'[u][j].domain # None => entries'[u][j].ip \in Pool
          /\ entries'[u][j].tick <= clock
    BY <2>1, <2>2 DEF TypeInv, TypeOK, PoolInv
  <2>7. \A q \in Procs : pc'[q] = "copy" =>
          table'[q] \in Tables /\ entries'[table'[q]][job'[q].slot].ip \in Pool
    <3> SUFFICES ASSUME NEW q \in Procs, pc'[q] = "copy"
                 PROVE  table[q] \in Tables /\ entries'[table[q]][job'[q].slot].ip \in Pool
      BY <1>7 DEF PutBegin
    <3>1. CASE q = p
      <4>1. job'[p].slot = i
        BY <1>7 DEF PutBegin, TypeInv, TypeOK, i, t
      <4> QED
        BY <3>1, <4>1, <2>1, <2>2 DEF TypeInv, TypeOK, t
    <3>2. CASE q # p
      <4>1. /\ pc[q] = "copy" /\ job'[q] = job[q] /\ job[q].slot \in Slots
            /\ table[q] \in Tables /\ entries[table[q]][job[q].slot].ip \in Pool
        BY <1>7, <3>2 DEF PutBegin, TypeInv, TypeOK, PoolInv
      <4> QED
        BY <4>1, <2>1, <2>2 DEF TypeInv, TypeOK
    <3> QED
      BY <3>1, <3>2
  <2>8. \A q \in Procs :
          /\ pc'[q] \in {"put", "copy"} => pc[q] \in {"put", "copy"}
          /\ pc'[q] = "get" => pc[q] = "get"
          /\ job'[q].ip = job[q].ip /\ job'[q].domain = job[q].domain
    BY <1>7 DEF PutBegin, TypeInv, TypeOK
  <2>9. PoolInv'
    BY <1>7, <2>6, <2>7, <2>8 DEF PutBegin, TypeInv, PoolInv
  <2> QED
    BY <2>5, <2>9 DEF TypeInv
<1>8. ASSUME NEW p \in Procs, PutEnd(p) PROVE TypeInv'
  <2>1. pc[p] = "copy" /\ entries' = DomainWritten(p, job[p].domain)
        /\ job[p].domain \in Domains
    BY <1>8 DEF PutEnd, TypeInv, PoolInv
  <2>2. /\ entries' \in [Tables -> [Slots -> Entry]]
        /\ \A t \in Tables, i \in Slots :
             /\ entries'[t][i].ip = entries[t][i].ip
             /\ entries'[t][i].domain # None => entries'[t][i].ip \in Pool
             /\ entries'[t][i].tick <= clock
    BY <2>1, DomainWrittenSound
  <2>3. TypeOK'
    BY <1>8, <2>2 DEF PutEnd, TypeInv, TypeOK, NoJob
  <2>4. PoolInv'
    BY <1>8, <2>2 DEF PutEnd, TypeInv, TypeOK, PoolInv, NoJob
  <2> QED
    BY <2>3, <2>4 DEF TypeInv
<1>9. ASSUME NEW p \in Procs, PutSkipped(p) PROVE TypeInv'
  BY <1>9 DEF PutSkipped, TypeInv, TypeOK, PoolInv, NoJob
<1>10. ASSUME NEW p \in Procs, GetEnd(p) PROVE TypeInv'
  <2> DEFINE ip == job[p].ip
             d == SharedGet(table[p], ip)
  <2>1. table[p] \in Tables /\ ip \in Addrs
    BY <1>10 DEF GetEnd, TypeInv, TypeOK, PoolInv
  <2>2. d \in Domains \cup {None, Garbled} /\ (d # None => ip \in Pool)
    BY <2>1, SharedGetAnswer
  <2> HIDE DEF ip, d
  <2>3. /\ ipToDomain' = [ipToDomain EXCEPT ![p][ip] = d]
        /\ domainToIp' = [domainToIp EXCEPT ![p] =
                             [e \in Domains |-> IF e = d THEN ip ELSE @[e]]]
    BY <1>10 DEF GetEnd, ip, d
  <2>4. TypeOK'
    <3>1. domainToIp' \in [Procs -> [Domains -> Addrs \cup {None}]]
      BY <2>1, <2>3 DEF TypeInv, TypeOK
    <3>2. ipToDomain' \in [Procs -> [Addrs -> Domains \cup {None, Garbled}]]
      BY <2>1, <2>2, <2>3 DEF TypeInv, TypeOK
    <3> QED
      BY <1>10, <3>1, <3>2 DEF GetEnd, TypeInv, TypeOK, NoJob
  <2>5. \A q \in Procs, e \in Domains :
          domainToIp'[q][e] # None => domainToIp'[q][e] \in Pool
    BY <2>2, <2>3 DEF TypeInv, TypeOK, PoolInv
  <2> QED
    BY <1>10, <2>4, <2>5 DEF GetEnd, TypeInv, TypeOK, PoolInv, NoJob
<1>11. ASSUME NEW p \in Procs, GetFailed(p) PROVE TypeInv'
  BY <1>11 DEF GetFailed, TypeInv, TypeOK, PoolInv, NoJob
<1>12. ASSUME NEW p \in Procs, Crash(p) PROVE TypeInv'
  <2>1. entries' \in [Tables -> [Slots -> Entry]]
        /\ \A t \in Tables, i \in Slots :
             /\ entries'[t][i].ip = entries[t][i].ip
             /\ entries'[t][i].domain # None => entries'[t][i].ip \in Pool
             /\ entries'[t][i].tick <= clock
    <3>1. CASE UNCHANGED entries
      BY <3>1 DEF TypeInv, TypeOK, PoolInv
    <3>2. CASE pc[p] = "copy" /\ entries' = DomainWritten(p, Garbled)
      BY <3>2, DomainWrittenSound
    <3> QED
      BY <1>12, <3>1, <3>2 DEF Crash
  <2>2. lock' \in Procs \cup {None} /\ torn' \in BOOLEAN /\ crashes' \in Nat
    <3>1. lock' \in Procs \cup {None} /\ crashes' \in Nat
      BY <1>12 DEF Crash, LockAfterDeath, TypeInv, TypeOK
    <3>2. torn' \in BOOLEAN
      BY <1>12, Zenon DEF Crash, TypeInv, TypeOK
    <3> QED
      BY <3>1, <3>2
  <2>3. TypeOK'
    BY <1>12, <2>1, <2>2 DEF Crash, TypeInv, TypeOK, NoJob
  <2>4. PoolInv'
    <3>1. \A q \in Procs : pc'[q] = "copy" =>
            table'[q] \in Tables /\ entries'[table'[q]][job'[q].slot].ip \in Pool
      BY <1>12, <2>1 DEF Crash, TypeInv, TypeOK, PoolInv
    <3>2. NetworkSize > 2 => \A q \in Procs : cursor'[q] \in Pool
      BY <1>12 DEF Crash, TypeInv, TypeOK, PoolInv, Pool
    <3> QED
      BY <1>12, <2>1, <3>1, <3>2 DEF Crash, TypeInv, TypeOK, PoolInv, NoJob
  <2> QED
    BY <2>3, <2>4 DEF TypeInv
<1> QED
  BY <1>1, <1>2, <1>3, <1>4, <1>5, <1>6, <1>7, <1>8, <1>9, <1>10, <1>11, <1>12
  DEF Next, Operation

(* The state is well typed: in particular issued addresses are in the pool.*)
THEOREM TypeCorrect == Spec => []TypeOK
<1>1. TypeInv => TypeOK
  BY DEF TypeInv
<1> QED
  BY <1>1, InitTypeInv, NextTypeInv, PTL DEF Spec

(* Alloc hands out addresses of the pool only, whatever the block size.    *)
THEOREM PoolCorrect == Spec => []OnlyPoolAddresses
<1>1. TypeInv => OnlyPoolAddresses
  BY DEF TypeInv, PoolInv, OnlyPoolAddresses
<1> QED
  BY <1>1, InitTypeInv, NextTypeInv, PTL DEF Spec

-----------------------------------------------------------------------------
(* How the maps of a process agree.  MapsAgree and OwnAddressResolves are  *)
(* not inductive alone: GetEnd writes the map of an address that was       *)
(* unknown when GetDomain began, and m_mtx keeps it unknown.               *)
MapInv ==
  /\ MapsAgree
  /\ OwnAddressResolves
  /\ \A p \in Procs : pc[p] = "get" => ipToDomain[p][job[p].ip] = None

LEMMA InitMapInv == Init => MapInv
BY PoolFacts, ConstantsAssumption DEF Init, MapInv, MapsAgree, OwnAddressResolves

LEMMA NextMapInv == TypeInv /\ MapInv /\ [Next]_vars => MapInv'
<1> SUFFICES ASSUME TypeInv, MapInv, [Next]_vars PROVE MapInv'
  OBVIOUS
<1> USE PoolFacts, ConstantsAssumption DEF procVars, ringVars, MapInv, MapsAgree, OwnAddressResolves
<1>1. CASE UNCHANGED <<ipToDomain, domainToIp, given, pc, job>>
  BY <1>1
<1>2. ASSUME NEW p \in Procs, UNCHANGED <<ipToDomain, domainToIp, given>>,
             \A q \in Procs : pc'[q] = "get" => pc[q] = "get" /\ job'[q].ip = job[q].ip
      PROVE  MapInv'
  BY <1>2
<1>3. ASSUME NEW p \in Procs, NEW d \in Domains, AllocKnown(p, d) PROVE MapInv'
  BY <1>3 DEF AllocKnown, TypeInv, TypeOK, PoolInv
<1>4. ASSUME NEW p \in Procs, NEW d \in Domains, AllocFresh(p, d) PROVE MapInv'
  <2> DEFINE ip == cursor[p]
  <2>1. ip \in Pool /\ ip \in Addrs
    BY <1>4 DEF AllocFresh, TypeInv, PoolInv
  <2>2. /\ ipToDomain' = [ipToDomain EXCEPT ![p][ip] = d]
        /\ given' = [given EXCEPT ![p][ip] = d]
        /\ \A e \in Domains : domainToIp'[p][e] =
             IF e = d THEN ip ELSE IF ipToDomain[p][ip] = e THEN None ELSE domainToIp[p][e]
        /\ \A q \in Procs : q # p => domainToIp'[q] = domainToIp[q]
        /\ \A q \in Procs : pc'[q] = "get" => q # p /\ pc[q] = "get" /\ job'[q].ip = job[q].ip
    BY <1>4 DEF AllocFresh, ForgetOldDomain, TypeInv, TypeOK
  <2> HIDE DEF ip
  <2>3. MapsAgree'
    <3> SUFFICES ASSUME NEW q \in Procs, NEW e \in Domains, domainToIp'[q][e] # None
                 PROVE  ipToDomain'[q][domainToIp'[q][e]] = e
      OBVIOUS
    <3>1. CASE q # p
      BY <2>2, <3>1 DEF TypeInv, TypeOK
    <3>2. CASE q = p /\ e = d
      BY <2>1, <2>2, <3>2 DEF TypeInv, TypeOK
    <3>3. CASE q = p /\ e # d
      <4>1. ipToDomain[p][ip] # e /\ domainToIp'[p][e] = domainToIp[p][e]
        BY <2>2, <3>3
      <4>2. domainToIp[p][e] \in Addrs /\ ipToDomain[p][domainToIp[p][e]] = e
        BY <4>1, <3>3 DEF TypeInv, TypeOK
      <4> QED
        BY <4>1, <4>2, <2>1, <2>2, <3>3 DEF TypeInv, TypeOK
    <3> QED
      BY <3>1, <3>2, <3>3
  <2>4. OwnAddressResolves'
    BY <2>1, <2>2 DEF TypeInv, TypeOK
  <2>5. \A q \in Procs : pc'[q] = "get" => ipToDomain'[q][job'[q].ip] = None
    BY <2>2 DEF TypeInv, TypeOK
  <2> QED
    BY <2>3, <2>4, <2>5
<1>5. ASSUME NEW p \in Procs, NEW ip \in Addrs, GetBegin(p, ip) PROVE MapInv'
  BY <1>5 DEF GetBegin, TypeInv, TypeOK
<1>6. ASSUME NEW p \in Procs, GetEnd(p) PROVE MapInv'
  <2> DEFINE ip == job[p].ip
             d == SharedGet(table[p], ip)
  <2>1. /\ ip \in Addrs /\ ipToDomain[p][ip] = None /\ given[p][ip] = None
    BY <1>6 DEF GetEnd, TypeInv, TypeOK, PoolInv
  <2> HIDE DEF ip, d
  <2>2. /\ ipToDomain' = [ipToDomain EXCEPT ![p][ip] = d]
        /\ \A e \in Domains : domainToIp'[p][e] = IF e = d THEN ip ELSE domainToIp[p][e]
        /\ \A q \in Procs : q # p => domainToIp'[q] = domainToIp[q]
        /\ \A q \in Procs : pc'[q] = "get" => q # p /\ pc[q] = "get" /\ job'[q] = job[q]
        /\ given' = given
    BY <1>6 DEF GetEnd, TypeInv, TypeOK, ip, d
  <2>3. MapsAgree'
    <3> SUFFICES ASSUME NEW q \in Procs, NEW e \in Domains, domainToIp'[q][e] # None
                 PROVE  ipToDomain'[q][domainToIp'[q][e]] = e
      OBVIOUS
    <3>1. CASE q # p
      BY <2>2, <3>1 DEF TypeInv, TypeOK
    <3>2. CASE q = p /\ e = d
      BY <2>1, <2>2, <3>2 DEF TypeInv, TypeOK
    <3>3. CASE q = p /\ e # d
      <4>1. domainToIp'[p][e] = domainToIp[p][e] /\ domainToIp[p][e] \in Addrs
            /\ ipToDomain[p][domainToIp[p][e]] = e
        BY <2>2, <3>3 DEF TypeInv, TypeOK
      <4> QED
        BY <4>1, <2>1, <2>2, <3>3 DEF TypeInv, TypeOK
    <3> QED
      BY <3>1, <3>2, <3>3
  <2>4. OwnAddressResolves'
    BY <2>1, <2>2 DEF TypeInv, TypeOK
  <2>5. \A q \in Procs : pc'[q] = "get" => ipToDomain'[q][job'[q].ip] = None
    BY <2>2 DEF TypeInv, TypeOK
  <2> QED
    BY <2>3, <2>4, <2>5
<1>7. ASSUME NEW p \in Procs, Crash(p) PROVE MapInv'
  BY <1>7 DEF Crash, TypeInv, TypeOK, PoolInv
<1>8. ASSUME NEW p \in Procs, Attach(p) PROVE MapInv'
  BY <1>8, <1>1 DEF Attach
<1>9. ASSUME NEW p \in Procs,
             PutBegin(p) \/ PutEnd(p) \/ PutSkipped(p) \/ GetFailed(p)
      PROVE  MapInv'
  <2>1. \A q \in Procs : pc'[q] = "get" => pc[q] = "get" /\ job'[q].ip = job[q].ip
    BY <1>9 DEF PutBegin, PutEnd, PutSkipped, GetFailed, TypeInv, TypeOK
  <2> QED
    BY <1>2, <1>9, <2>1 DEF PutBegin, PutEnd, PutSkipped, GetFailed
<1>10. CASE Tick
  BY <1>1, <1>10 DEF Tick
<1>11. CASE UNCHANGED vars
  BY <1>1, <1>11 DEF vars
<1> QED
  BY <1>3, <1>4, <1>5, <1>6, <1>7, <1>8, <1>9, <1>10, <1>11 DEF Next, Operation

(* The reverse map of a process never names an address that stands for     *)
(* another domain, whatever is recycled or imported.                       *)
THEOREM MapsCorrect == Spec => []MapsAgree
<1>1. MapInv => MapsAgree
  BY DEF MapInv
<1> QED
  BY <1>1, InitTypeInv, NextTypeInv, InitMapInv, NextMapInv, PTL DEF Spec

(* An address the process handed out resolves to its domain until the      *)
(* process hands it out again.                                             *)
THEOREM OwnAddressCorrect == Spec => []OwnAddressResolves
<1>1. MapInv => OwnAddressResolves
  BY DEF MapInv
<1> QED
  BY <1>1, InitTypeInv, NextTypeInv, InitMapInv, NextMapInv, PTL DEF Spec

-----------------------------------------------------------------------------
(* What the ring holds.  One process at a time is between the ip and the   *)
(* domain of a slot and it holds the lock; every other slot holds a pair   *)
(* that was allocated, unless a process died there (torn).                 *)
BeingWritten(t, i) == \E p \in Procs : pc[p] = "copy" /\ table[p] = t /\ job[p].slot = i

RingInv ==
  /\ \A p \in Procs : pc[p] = "copy" => /\ lock = p
                                       /\ entries[table[p]][job[p].slot].ip = job[p].ip
  /\ ~torn => \A t \in Tables, i \in Slots :
       entries[t][i].domain # None /\ ~BeingWritten(t, i)
         => <<entries[t][i].ip, entries[t][i].domain>> \in issued
  /\ NothingInvented

LEMMA InitRingInv == Init => RingInv
BY PoolFacts, ConstantsAssumption
DEF Init, RingInv, NothingInvented, BeingWritten, EmptyEntry

(* While the lock is free no slot is being written, and SharedGet answers  *)
(* with a pair that was allocated.                                         *)
LEMMA SharedGetIssued ==
  ASSUME TypeInv, RingInv, lock = None, ~torn,
         NEW t \in Tables, NEW ip \in Addrs, SharedGet(t, ip) # None
  PROVE  <<ip, SharedGet(t, ip)>> \in issued
<1>1. PICK i \in Slots : entries[t][i].ip = ip /\ entries[t][i].domain = SharedGet(t, ip)
  BY SharedGetAnswer
<1>2. ~BeingWritten(t, i)
  BY ConstantsAssumption DEF RingInv, BeingWritten
<1> QED
  BY <1>1, <1>2 DEF RingInv

LEMMA NextRingInv == TypeInv /\ MapInv /\ RingInv /\ [Next]_vars => RingInv'
<1> SUFFICES ASSUME TypeInv, MapInv, RingInv, [Next]_vars PROVE RingInv'
  OBVIOUS
<1> USE PoolFacts, ConstantsAssumption DEF procVars, ringVars
<1>1. CASE UNCHANGED <<ipToDomain, entries, issued, torn, table, pc, job, lock>>
  BY <1>1 DEF RingInv, NothingInvented, BeingWritten
<1> DEFINE SameWriter(q) == \/ pc[q] = pc'[q] /\ job[q] = job'[q] /\ table[q] = table'[q]
                            \/ pc[q] # "copy" /\ pc'[q] # "copy"
<1>2. /\ UNCHANGED <<entries, lock, torn>> /\ issued \subseteq issued'
      /\ \A q \in Procs : SameWriter(q)
      /\ NothingInvented'
      => RingInv'
  <2> SUFFICES ASSUME UNCHANGED <<entries, lock, torn>>, issued \subseteq issued',
                      \A q \in Procs : SameWriter(q), NothingInvented'
               PROVE  RingInv'
    OBVIOUS
  <2>1. \A t \in Tables, i \in Slots : BeingWritten(t, i)' = BeingWritten(t, i)
    BY DEF BeingWritten
  <2> QED
    BY <2>1 DEF RingInv
<1>3. ASSUME NEW p \in Procs, NEW d \in Domains, AllocKnown(p, d) PROVE RingInv'
  BY <1>1, <1>3 DEF AllocKnown
<1>4. ASSUME NEW p \in Procs, NEW d \in Domains, AllocFresh(p, d) PROVE RingInv'
  <2>1. NothingInvented'
    BY <1>4 DEF AllocFresh, RingInv, NothingInvented, TypeInv, TypeOK, PoolInv
  <2>2. \A q \in Procs : SameWriter(q)
    BY <1>4 DEF AllocFresh, TypeInv, TypeOK
  <2>3. UNCHANGED <<entries, lock, torn>> /\ issued \subseteq issued'
    BY <1>4 DEF AllocFresh
  <2> QED
    BY <1>2, <2>1, <2>2, <2>3
<1>5. ASSUME NEW p \in Procs, NEW ip \in Addrs, GetBegin(p, ip) PROVE RingInv'
  <2>1. NothingInvented'
    BY <1>5 DEF GetBegin, RingInv, NothingInvented
  <2>2. \A q \in Procs : SameWriter(q)
    BY <1>5 DEF GetBegin, TypeInv, TypeOK
  <2>3. UNCHANGED <<entries, lock, torn>> /\ issued \subseteq issued'
    BY <1>5 DEF GetBegin
  <2> QED
    BY <1>2, <2>1, <2>2, <2>3
<1>6. ASSUME NEW p \in Procs, Attach(p) \/ PutSkipped(p) \/ GetFailed(p) PROVE RingInv'
  <2>1. NothingInvented'
    BY <1>6 DEF Attach, PutSkipped, GetFailed, RingInv, NothingInvented
  <2>2. \A q \in Procs : SameWriter(q)
    BY <1>6 DEF Attach, PutSkipped, GetFailed, TypeInv, TypeOK
  <2>3. UNCHANGED <<entries, lock, torn>> /\ issued \subseteq issued'
    BY <1>6 DEF Attach, PutSkipped, GetFailed
  <2> QED
    BY <1>2, <2>1, <2>2, <2>3
<1>7. ASSUME NEW p \in Procs, PutBegin(p) PROVE RingInv'
  <2> DEFINE t == table[p]
             i == ringCursor[t] % Capacity
             e == [ip |-> job[p].ip, tick |-> clock,
                   domain |-> entries[t][i].domain, seq |-> ringCursor[t] + 1]
  <2>1. t \in Tables /\ i \in Slots /\ lock = None
    <3>1. t \in Tables /\ ringCursor[t] \in Nat /\ lock = None
      BY <1>7 DEF PutBegin, LockFree, TypeInv, TypeOK
    <3> QED
      BY <3>1 DEF Slots
  <2>2. entries' = [entries EXCEPT ![t][i] = e] /\ e.ip = job[p].ip
    BY <1>7 DEF PutBegin
  <2>3. /\ pc' = [pc EXCEPT ![p] = "copy"] /\ lock' = p
        /\ job'[p].slot = i /\ job'[p].ip = job[p].ip
        /\ UNCHANGED <<table, issued, torn, ipToDomain>>
    BY <1>7 DEF PutBegin, TypeInv, TypeOK
  <2> HIDE DEF t, i, e
  <2>4. \A q \in Procs : pc'[q] = "copy" => q = p
    BY <2>1, <2>3 DEF RingInv, TypeInv, TypeOK
  <2>5. \A u \in Tables, j \in Slots : ~(u = t /\ j = i) => entries'[u][j] = entries[u][j]
    BY <2>1, <2>2 DEF TypeInv, TypeOK
  <2>6. entries'[t][i].ip = job[p].ip
    BY <2>1, <2>2 DEF TypeInv, TypeOK
  <2>7. \A u \in Tables, j \in Slots : ~BeingWritten(u, j)' => ~(u = t /\ j = i)
    BY <2>3 DEF BeingWritten, TypeInv, TypeOK, t
  <2>8. \A u \in Tables, j \in Slots : ~BeingWritten(u, j)
    BY <2>1 DEF BeingWritten, RingInv
  <2>9. NothingInvented'
    BY <2>3 DEF NothingInvented, RingInv
  <2> QED
    BY <2>3, <2>4, <2>5, <2>6, <2>7, <2>8, <2>9 DEF RingInv, t
<1>8. ASSUME NEW p \in Procs, PutEnd(p) PROVE RingInv'
  <2> DEFINE t == table[p]
             i == job[p].slot
  <2>1. /\ pc[p] = "copy" /\ lock = p /\ entries[t][i].ip = job[p].ip
        /\ <<job[p].ip, job[p].domain>> \in issued /\ job[p].domain \in Domains
    BY <1>8 DEF PutEnd, RingInv, TypeInv, PoolInv
  <2>2. /\ entries' = DomainWritten(p, job[p].domain)
        /\ pc' = [pc EXCEPT ![p] = "idle"]
        /\ UNCHANGED <<table, issued, torn, ipToDomain>>
    BY <1>8 DEF PutEnd
  <2>3. /\ \A u \in Tables, j \in Slots :
             /\ entries'[u][j].ip = entries[u][j].ip
             /\ ~(u = t /\ j = i) => entries'[u][j] = entries[u][j]
        /\ entries'[t][i].domain = job[p].domain
        /\ t \in Tables /\ i \in Slots
    BY <2>1, <2>2, DomainWrittenSound DEF TypeInv, TypeOK, PoolInv
  <2> HIDE DEF t, i
  <2>4. \A q \in Procs : pc'[q] # "copy"
    BY <2>1, <2>2 DEF RingInv, TypeInv, TypeOK
  <2>5. \A u \in Tables, j \in Slots : ~(u = t /\ j = i) => ~BeingWritten(u, j)
    BY <2>1 DEF RingInv, BeingWritten, t, i
  <2>6. NothingInvented'
    BY <2>2 DEF NothingInvented, RingInv
  <2>7. ~torn' => \A u \in Tables, j \in Slots : entries'[u][j].domain # None
          => <<entries'[u][j].ip, entries'[u][j].domain>> \in issued'
    BY <2>1, <2>2, <2>3, <2>5 DEF RingInv
  <2> QED
    BY <2>4, <2>6, <2>7 DEF RingInv
<1>9. ASSUME NEW p \in Procs, GetEnd(p) PROVE RingInv'
  <2> DEFINE ip == job[p].ip
             d == SharedGet(table[p], ip)
  <2>1. /\ lock = None /\ table[p] \in Tables /\ ip \in Addrs
        /\ ipToDomain' = [ipToDomain EXCEPT ![p][ip] = d]
        /\ UNCHANGED <<issued, torn>>
    BY <1>9 DEF GetEnd, LockFree, TypeInv, TypeOK, PoolInv
  <2>2. ~torn /\ d # None => <<ip, d>> \in issued
    BY <2>1, SharedGetIssued
  <2> HIDE DEF ip, d
  <2>3. NothingInvented'
    BY <2>1, <2>2 DEF NothingInvented, RingInv, TypeInv, TypeOK
  <2>4. \A q \in Procs : SameWriter(q)
    BY <1>9 DEF GetEnd, TypeInv, TypeOK
  <2>5. UNCHANGED <<entries, lock, torn>> /\ issued \subseteq issued'
    BY <1>9 DEF GetEnd
  <2> QED
    BY <1>2, <2>3, <2>4, <2>5
<1>10. ASSUME NEW p \in Procs, Crash(p) PROVE RingInv'
  <2>1. NothingInvented'
    BY <1>10 DEF Crash, NothingInvented, RingInv, TypeInv, TypeOK
  <2>2. CASE pc[p] # "copy"
    <3>1. \A q \in Procs : \/ pc[q] = pc'[q] /\ job[q] = job'[q] /\ table[q] = table'[q]
                           \/ pc[q] # "copy" /\ pc'[q] # "copy"
      BY <1>10, <2>2 DEF Crash, TypeInv, TypeOK
    <3>2. \A t \in Tables, i \in Slots : BeingWritten(t, i)' = BeingWritten(t, i)
      BY <3>1 DEF BeingWritten
    <3>3. \A q \in Procs : pc'[q] = "copy" => lock' = q
      BY <1>10, <2>2, <3>1 DEF Crash, LockAfterDeath, RingInv, TypeInv, TypeOK
    <3> QED
      BY <1>10, <2>1, <2>2, <3>1, <3>2, <3>3 DEF Crash, RingInv
  <2>3. CASE pc[p] = "copy"
    <3>1. torn' = TRUE
      BY <1>10, <2>3 DEF Crash
    <3>2. \A q \in Procs : pc'[q] # "copy"
      BY <1>10, <2>3 DEF Crash, RingInv, TypeInv, TypeOK
    <3> QED
      BY <2>1, <3>1, <3>2 DEF RingInv
  <2> QED
    BY <2>2, <2>3
<1>11. CASE Tick \/ UNCHANGED vars
  BY <1>1, <1>11 DEF Tick, vars
<1> QED
  BY <1>3, <1>4, <1>5, <1>6, <1>7, <1>8, <1>9, <1>10, <1>11 DEF Next, Operation

(* Unless a process died between the ip and the domain of an entry, what   *)
(* a process answers for an address was allocated for that address.        *)
THEOREM NothingInventedCorrect == Spec => []NothingInvented
<1>1. RingInv => NothingInvented
  BY DEF RingInv
<1> QED
  BY <1>1, InitTypeInv, NextTypeInv, InitMapInv, NextMapInv, InitRingInv,
     NextRingInv, PTL DEF Spec

-----------------------------------------------------------------------------
(* The pool implements NameDirectory: an address bound in a process keeps  *)
(* its domain until the process hands it out again or dies, and a process  *)
(* learns only what some process handed out (or what a death left behind). *)
THEOREM RefinesDirectory == Spec => ImplementsDirectory
<1>1. Init => Directory!DirInit
  BY DEF Init, Directory!DirInit
<1>2. TypeInv /\ MapInv /\ RingInv /\ [Next]_vars
        => [Directory!DirNext]_(Directory!dirVars)
  <2> SUFFICES ASSUME TypeInv, MapInv, RingInv, [Next]_vars
               PROVE  [Directory!DirNext]_(Directory!dirVars)
    OBVIOUS
  <2> USE DEF Directory!dirVars
  <2>1. ASSUME NEW p \in Procs, NEW d \in Domains, AllocFresh(p, d)
        PROVE  Directory!DirNext
    <3>1. Directory!HandOut(p, cursor[p], d) /\ cursor[p] \in Addrs
      BY <2>1, PoolFacts DEF AllocFresh, Directory!HandOut, TypeInv, PoolInv
    <3> QED
      BY <3>1 DEF Directory!DirNext
  <2>2. ASSUME NEW p \in Procs, GetEnd(p)
        PROVE  [Directory!DirNext]_(Directory!dirVars)
    <3> DEFINE ip == job[p].ip
               d == SharedGet(table[p], ip)
    <3>1. /\ lock = None /\ table[p] \in Tables /\ ip \in Addrs
          /\ ipToDomain[p][ip] = None
          /\ ipToDomain' = [ipToDomain EXCEPT ![p][ip] = d]
          /\ UNCHANGED <<issued, torn>>
      BY <2>2 DEF GetEnd, LockFree, MapInv, TypeInv, TypeOK, PoolInv
    <3>2. d # None => d \in Domains \cup {Garbled} /\ (~torn => <<ip, d>> \in issued)
      BY <3>1, SharedGetAnswer, SharedGetIssued
    <3> HIDE DEF ip, d
    <3>3. CASE d = None
      <4>1. ipToDomain' = ipToDomain
        BY <3>1, <3>3 DEF TypeInv, TypeOK
      <4> QED
        BY <3>1, <4>1
    <3>4. CASE d # None
      <4>1. Directory!Learn(p, ip, d)
        BY <3>1, <3>2, <3>4 DEF Directory!Learn, TypeInv, TypeOK
      <4> QED
        BY <3>1, <3>2, <3>4, <4>1 DEF Directory!DirNext
    <3> QED
      BY <3>3, <3>4
  <2>3. ASSUME NEW p \in Procs, Crash(p) PROVE Directory!DirNext
    <3>1. torn' \in {torn, TRUE}
      BY <2>3, Zenon DEF Crash
    <3>2. Directory!Restart(p)
      BY <2>3, <3>1 DEF Crash, Directory!Restart
    <3> QED
      BY <3>2 DEF Directory!DirNext
  <2>4. CASE UNCHANGED <<ipToDomain, issued, torn>>
    BY <2>4
  <2>5. ASSUME NEW p \in Procs,
               \/ \E d \in Domains : AllocKnown(p, d)
               \/ \E ip \in Addrs : GetBegin(p, ip)
               \/ Attach(p) \/ PutBegin(p) \/ PutEnd(p) \/ PutSkipped(p) \/ GetFailed(p)
        PROVE  UNCHANGED <<ipToDomain, issued, torn>>
    BY <2>5 DEF AllocKnown, GetBegin, Attach, PutBegin, PutEnd, PutSkipped, GetFailed, procVars
  <2>6. CASE Tick \/ UNCHANGED vars
    BY <2>4, <2>6 DEF Tick, vars, procVars
  <2> QED
    BY <2>1, <2>2, <2>3, <2>4, <2>5, <2>6 DEF Next, Operation
<1> QED
  BY <1>1, <1>2, InitTypeInv, NextTypeInv, InitMapInv, NextMapInv, InitRingInv,
     NextRingInv, PTL DEF Spec, ImplementsDirectory, Directory!DirSpec

-----------------------------------------------------------------------------
(* The order of the puts: a later put is of no earlier tick, and until the *)
(* ring wraps the puts fill the slots from the first one on.               *)
SlotInv(t, i) ==
  /\ entries[t][i].seq <= ringCursor[t]
  /\ entries[t][i].domain # None => entries[t][i].seq > 0
  /\ ringCursor[t] <= Capacity /\ entries[t][i].seq > 0 => entries[t][i].seq = i + 1

OrderInv ==
  /\ \A t \in Tables, i \in Slots : SlotInv(t, i)
  /\ \A t \in Tables, i, j \in Slots :
       entries[t][i].seq < entries[t][j].seq => entries[t][i].tick <= entries[t][j].tick
  /\ \A p \in Procs : pc[p] = "copy" => entries[table[p]][job[p].slot].seq > 0

LEMMA EntryFields ==
  ASSUME TypeInv
  PROVE  \A t \in Tables, i \in Slots :
           entries[t][i].seq \in Nat /\ entries[t][i].tick \in Nat /\ ringCursor[t] \in Nat
BY DEF TypeInv, TypeOK, Entry

LEMMA InitOrderInv == Init => OrderInv
<1> SUFFICES ASSUME Init PROVE OrderInv
  OBVIOUS
<1>1. \A t \in Tables, i \in Slots :
        entries[t][i].seq = 0 /\ entries[t][i].domain = None /\ ringCursor[t] = 0
  BY DEF Init, EmptyEntry
<1>2. \A p \in Procs : pc[p] # "copy"
  BY DEF Init
<1> QED
  BY <1>1, <1>2 DEF OrderInv, SlotInv

(* A step that leaves the order of the ring alone.                         *)
LEMMA OrderKept ==
  ASSUME TypeInv, OrderInv, ringCursor' = ringCursor,
         \A t \in Tables, i \in Slots :
           /\ entries'[t][i].seq = entries[t][i].seq /\ entries'[t][i].tick = entries[t][i].tick
           /\ entries'[t][i].domain # None => entries[t][i].seq > 0,
         \A p \in Procs : pc'[p] = "copy" => pc[p] = "copy" /\ table'[p] = table[p] /\ job'[p] = job[p]
  PROVE  OrderInv'
<1>1. \A t \in Tables, i \in Slots : SlotInv(t, i)'
  BY DEF OrderInv, SlotInv
<1>2. \A p \in Procs : pc'[p] = "copy" => entries'[table'[p]][job'[p].slot].seq > 0
  <2> SUFFICES ASSUME NEW p \in Procs, pc'[p] = "copy"
               PROVE  entries'[table[p]][job[p].slot].seq > 0
    OBVIOUS
  <2>1. pc[p] = "copy" /\ entries[table[p]][job[p].slot].seq > 0
    BY DEF OrderInv
  <2>2. table[p] \in Tables /\ job[p].slot \in Slots
    BY <2>1 DEF TypeInv, TypeOK, PoolInv
  <2> QED
    BY <2>1, <2>2
<1> QED
  BY <1>1, <1>2 DEF OrderInv

LEMMA NextOrderInv == TypeInv /\ OrderInv /\ [Next]_vars => OrderInv'
<1> SUFFICES ASSUME TypeInv, OrderInv, [Next]_vars PROVE OrderInv'
  OBVIOUS
<1>1. \A t \in Tables, i \in Slots : entries[t][i].domain # None => entries[t][i].seq > 0
  BY DEF OrderInv, SlotInv
<1>2. ASSUME NEW p \in Procs, pc[p] = "copy", NEW d \in Domains \cup {Garbled}, entries' = DomainWritten(p, d)
      PROVE  \A t \in Tables, i \in Slots :
               /\ entries'[t][i].seq = entries[t][i].seq /\ entries'[t][i].tick = entries[t][i].tick
               /\ entries'[t][i].domain # None => entries[t][i].seq > 0
  <2> DEFINE u == table[p]
             k == job[p].slot
             f == [ip |-> entries[u][k].ip, tick |-> entries[u][k].tick, domain |-> d, seq |-> entries[u][k].seq]
  <2>1. u \in Tables /\ k \in Slots /\ entries[u][k].seq > 0
    BY <1>2 DEF TypeInv, TypeOK, PoolInv, OrderInv
  <2>2. entries' = [entries EXCEPT ![u][k] = f] /\ entries \in [Tables -> [Slots -> Entry]]
    BY <1>2 DEF DomainWritten, TypeInv, TypeOK
  <2>3. f.seq = entries[u][k].seq /\ f.tick = entries[u][k].tick
    OBVIOUS
  <2> HIDE DEF u, k, f
  <2>4. \A t \in Tables, i \in Slots : entries'[t][i] = IF t = u /\ i = k THEN f ELSE entries[t][i]
    BY <2>1, <2>2
  <2> QED
    BY <1>1, <2>1, <2>3, <2>4
<1>3. ASSUME NEW p \in Procs, PutBegin(p) PROVE OrderInv'
  <2> DEFINE u == table[p]
             k == ringCursor[u] % Capacity
             f == [ip |-> job[p].ip, tick |-> clock, domain |-> entries[u][k].domain, seq |-> ringCursor[u] + 1]
  <2>1. u \in Tables /\ ringCursor[u] \in Nat /\ ringCursor \in [Tables -> Nat] /\ clock \in Nat
    BY <1>3 DEF PutBegin, TypeInv, TypeOK
  <2>2. k \in Slots /\ (ringCursor[u] < Capacity => k = ringCursor[u])
    BY <2>1, ConstantsAssumption DEF Slots
  <2>3. /\ entries' = [entries EXCEPT ![u][k] = f] /\ ringCursor' = [ringCursor EXCEPT ![u] = @ + 1]
        /\ pc' = [pc EXCEPT ![p] = "copy"] /\ table' = table
        /\ job' = [job EXCEPT ![p] = [ip |-> job[p].ip, domain |-> job[p].domain, slot |-> k]]
    BY <1>3 DEF PutBegin
  <2>4. f.seq = ringCursor[u] + 1 /\ f.tick = clock
    OBVIOUS
  <2>5. job'[p].slot = k /\ \A q \in Procs : q # p => pc'[q] = pc[q] /\ job'[q] = job[q]
    BY <2>3 DEF TypeInv, TypeOK
  <2> HIDE DEF k, f
  <2>6. \A t \in Tables, i \in Slots : entries'[t][i] = IF t = u /\ i = k THEN f ELSE entries[t][i]
    BY <2>1, <2>2, <2>3 DEF TypeInv, TypeOK
  <2>7. \A t \in Tables : ringCursor'[t] = IF t = u THEN ringCursor[u] + 1 ELSE ringCursor[t]
    BY <2>1, <2>3
  <2>8. ASSUME NEW t \in Tables, NEW i \in Slots PROVE SlotInv(t, i)'
    <3>1. SlotInv(t, i) /\ entries[t][i].seq \in Nat /\ ringCursor[t] \in Nat /\ Capacity \in Nat
      BY EntryFields, ConstantsAssumption DEF OrderInv
    <3>2. CASE t = u /\ i = k
      <4>1. entries'[t][i].seq = ringCursor[u] + 1 /\ ringCursor'[t] = ringCursor[u] + 1
        BY <2>4, <2>6, <2>7, <3>2
      <4>2. ringCursor[u] + 1 <= Capacity => i = ringCursor[u]
        BY <2>1, <2>2, <3>1, <3>2
      <4> QED
        BY <2>1, <4>1, <4>2 DEF SlotInv
    <3>3. CASE ~(t = u /\ i = k)
      <4>1. entries'[t][i] = entries[t][i] /\ ringCursor'[t] \in {ringCursor[t], ringCursor[t] + 1}
        BY <2>6, <2>7, <3>3
      <4> QED
        BY <3>1, <4>1 DEF SlotInv
    <3> QED
      BY <3>2, <3>3
  <2>9. ASSUME NEW t \in Tables, NEW i \in Slots, NEW j \in Slots, entries'[t][i].seq < entries'[t][j].seq
        PROVE  entries'[t][i].tick <= entries'[t][j].tick
    <3>1. /\ entries[t][i].seq \in Nat /\ entries[t][j].seq \in Nat /\ entries[t][i].tick \in Nat
          /\ entries[t][j].tick \in Nat /\ entries[t][i].tick <= clock
          /\ entries[t][j].seq <= ringCursor[t]
          /\ entries[t][i].seq < entries[t][j].seq => entries[t][i].tick <= entries[t][j].tick
      BY EntryFields DEF OrderInv, SlotInv, TypeInv, PoolInv
    <3>2. CASE t = u /\ i = k
      <4>1. entries'[t][i].seq = ringCursor[t] + 1
        BY <2>4, <2>6, <3>2
      <4>2. j = k \/ entries'[t][j].seq = entries[t][j].seq
        BY <2>6
      <4> QED
        BY <2>1, <2>9, <3>1, <3>2, <4>1, <4>2
    <3>3. CASE ~(t = u /\ i = k) /\ t = u /\ j = k
      BY <2>1, <2>4, <2>6, <3>1, <3>3
    <3>4. CASE ~(t = u /\ i = k) /\ ~(t = u /\ j = k)
      BY <2>6, <2>9, <3>1, <3>4
    <3> QED
      BY <3>2, <3>3, <3>4
  <2>10. ASSUME NEW q \in Procs, pc'[q] = "copy" PROVE entries'[table'[q]][job'[q].slot].seq > 0
    <3>1. CASE q = p
      BY <2>1, <2>2, <2>3, <2>4, <2>5, <2>6, <3>1
    <3>2. CASE q # p
      <4>1. /\ table[q] \in Tables /\ job[q].slot \in Slots /\ entries[table[q]][job[q].slot].seq > 0
            /\ job'[q] = job[q] /\ table'[q] = table[q]
        BY <2>3, <2>5, <2>10, <3>2 DEF TypeInv, TypeOK, PoolInv, OrderInv
      <4> QED
        BY <2>1, <2>4, <2>6, <4>1
    <3> QED
      BY <3>1, <3>2
  <2> QED
    BY <2>8, <2>9, <2>10 DEF OrderInv
<1>4. ASSUME NEW p \in Procs, PutEnd(p) PROVE OrderInv'
  <2>1. /\ pc[p] = "copy" /\ entries' = DomainWritten(p, job[p].domain) /\ job[p].domain \in Domains
        /\ ringCursor' = ringCursor
        /\ \A q \in Procs : pc'[q] = "copy" => pc[q] = "copy" /\ table'[q] = table[q] /\ job'[q] = job[q]
    BY <1>4 DEF PutEnd, TypeInv, TypeOK, PoolInv
  <2> QED
    BY <1>2, <2>1, OrderKept
<1>5. ASSUME NEW p \in Procs, Crash(p) PROVE OrderInv'
  <2>1. /\ ringCursor' = ringCursor
        /\ \A q \in Procs : pc'[q] = "copy" => pc[q] = "copy" /\ table'[q] = table[q] /\ job'[q] = job[q]
    BY <1>5 DEF Crash, TypeInv, TypeOK
  <2>2. CASE UNCHANGED entries
    BY <1>1, <2>1, <2>2, OrderKept
  <2>3. CASE pc[p] = "copy" /\ entries' = DomainWritten(p, Garbled)
    BY <1>2, <2>1, <2>3, OrderKept
  <2> QED
    BY <1>5, <2>2, <2>3 DEF Crash
<1>6. CASE /\ UNCHANGED <<entries, ringCursor>>
           /\ \A q \in Procs : pc'[q] = "copy" => pc[q] = "copy" /\ table'[q] = table[q] /\ job'[q] = job[q]
  BY <1>1, <1>6, OrderKept
<1>7. ASSUME NEW p \in Procs,
             \/ \E d \in Domains : AllocKnown(p, d) \/ AllocFresh(p, d)
             \/ \E ip \in Addrs : GetBegin(p, ip)
             \/ Attach(p) \/ PutSkipped(p) \/ GetEnd(p) \/ GetFailed(p)
      PROVE  OrderInv'
  <2>1. UNCHANGED <<entries, ringCursor>>
    BY <1>7 DEF AllocKnown, AllocFresh, GetBegin, Attach, PutSkipped, GetEnd, GetFailed, ringVars
  <2>2. \A q \in Procs : pc'[q] = "copy" => pc[q] = "copy" /\ table'[q] = table[q] /\ job'[q] = job[q]
    BY <1>7 DEF AllocKnown, AllocFresh, GetBegin, Attach, PutSkipped, GetEnd, GetFailed, TypeInv, TypeOK
  <2> QED
    BY <1>6, <2>1, <2>2
<1>8. CASE Tick \/ UNCHANGED vars
  BY <1>6, <1>8 DEF Tick, vars, ringVars
<1> QED
  BY <1>3, <1>4, <1>5, <1>7, <1>8 DEF Next, Operation

(* The scan of SharedGet takes the largest tick and, among equal ones, the *)
(* largest slot: an entry put later has no smaller tick, and has a larger  *)
(* slot as long as the ring has not wrapped.                               *)
THEOREM NewestPutCorrect == Spec => []NewestPutWins
<1>1. TypeInv /\ OrderInv => NewestPutWins
  <2> SUFFICES ASSUME TypeInv, OrderInv, NEW t \in Tables, NEW ip \in Pool, Published(t, ip) # {},
                      NEW i \in Published(t, ip), entries[t][i].seq > entries[t][Best(t, ip)].seq
               PROVE  entries[t][i].tick = entries[t][Best(t, ip)].tick /\ ringCursor[t] > Capacity
    BY DEF NewestPutWins
  <2> DEFINE b == Best(t, ip)
  <2>1. /\ b \in Published(t, ip)
        /\ \/ entries[t][i].tick < entries[t][b].tick
           \/ entries[t][i].tick = entries[t][b].tick /\ i <= b
    BY BestExists
  <2> HIDE DEF b
  <2>2. /\ i \in Slots /\ b \in Slots /\ i \in Nat /\ b \in Nat
        /\ entries[t][i].domain # None /\ entries[t][b].domain # None
    BY <2>1, PoolFacts DEF Published
  <2>3. /\ entries[t][i].tick \in Nat /\ entries[t][b].tick \in Nat
        /\ entries[t][i].seq \in Nat /\ entries[t][b].seq \in Nat /\ ringCursor[t] \in Nat
    BY <2>2, EntryFields
  <2>4. entries[t][b].seq < entries[t][i].seq
    BY <2>3 DEF b
  <2>5. entries[t][b].tick <= entries[t][i].tick
    BY <2>2, <2>4 DEF OrderInv
  <2>6. entries[t][i].tick = entries[t][b].tick /\ i <= b
    BY <2>1, <2>3, <2>5
  <2>7. ringCursor[t] <= Capacity => entries[t][i].seq = i + 1 /\ entries[t][b].seq = b + 1
    BY <2>2 DEF OrderInv, SlotInv
  <2>8. ringCursor[t] > Capacity
    BY <2>2, <2>3, <2>4, <2>6, <2>7, ConstantsAssumption
  <2> QED
    BY <2>6, <2>8 DEF b
<1> QED
  BY <1>1, InitTypeInv, NextTypeInv, InitOrderInv, NextOrderInv, PTL DEF Spec

-----------------------------------------------------------------------------
(* The age of an address: how far the cursor has moved on since.           *)
AgeOf(p, ip) ==
  born[p][ip] # None =>
    /\ ip \in Pool /\ given[p][ip] # None
    /\ allocs[p] - born[p][ip] + 1 =
         IF ip < cursor[p] THEN cursor[p] - ip ELSE cursor[p] + (NetworkSize - 2) - ip

AgeInv == \A p \in Procs, ip \in Addrs : AgeOf(p, ip)

LEMMA NextAgeInv == TypeInv /\ AgeInv /\ [Next]_vars => AgeInv'
<1> SUFFICES ASSUME TypeInv, [Next]_vars, AgeInv, NEW q \in Procs, NEW a \in Addrs PROVE AgeOf(q, a)'
  BY DEF AgeInv
<1>1. /\ AgeOf(q, a) /\ a \in Nat /\ NetworkSize \in Nat
      /\ allocs[q] \in Nat /\ cursor[q] \in Nat /\ born[q][a] \in Nat \cup {None}
  BY PoolFacts, ConstantsAssumption DEF AgeInv, TypeInv, TypeOK
<1>2. CASE /\ born'[q][a] = born[q][a] /\ allocs'[q] = allocs[q] /\ cursor'[q] = cursor[q]
           /\ given[q][a] # None => given'[q][a] # None
  BY <1>1, <1>2 DEF AgeOf
<1>3. ASSUME NEW p \in Procs, NEW d \in Domains, AllocKnown(p, d) PROVE AgeOf(q, a)'
  <2>1. d # None /\ given' = [given EXCEPT ![p][domainToIp[p][d]] = d]
        /\ UNCHANGED <<born, allocs, cursor>>
    BY <1>3, ConstantsAssumption DEF AllocKnown
  <2>2. given[q][a] # None => given'[q][a] # None
    BY <2>1 DEF TypeInv, TypeOK
  <2> QED
    BY <1>2, <2>1, <2>2
<1>4. ASSUME NEW p \in Procs, NEW d \in Domains, AllocFresh(p, d) PROVE AgeOf(q, a)'
  <2> DEFINE ip == cursor[p]
  <2>1. /\ ip \in Pool /\ ip \in Addrs /\ d # None /\ NetworkSize > 2
        /\ cursor' = [cursor EXCEPT ![p] = NextCursor(ip)]
        /\ given' = [given EXCEPT ![p][ip] = d] /\ allocs' = [allocs EXCEPT ![p] = @ + 1]
        /\ born' = [born EXCEPT ![p][ip] = allocs[p] + 1]
    BY <1>4, PoolFacts, ConstantsAssumption DEF AllocFresh, TypeInv, PoolInv
  <2>2. CASE q # p
    <3>1. born'[q] = born[q] /\ allocs'[q] = allocs[q] /\ cursor'[q] = cursor[q] /\ given'[q] = given[q]
      BY <2>1, <2>2 DEF TypeInv, TypeOK
    <3> QED
      BY <1>2, <3>1
  <2>3. CASE q = p
    <3>1. /\ cursor'[q] = NextCursor(cursor[q]) /\ allocs'[q] = allocs[q] + 1
          /\ born'[q][a] = (IF a = cursor[q] THEN allocs[q] + 1 ELSE born[q][a])
          /\ given'[q][a] = (IF a = cursor[q] THEN d ELSE given[q][a])
      BY <2>1, <2>3 DEF TypeInv, TypeOK
    <3>2. /\ cursor[q] >= 1 /\ cursor[q] <= NetworkSize - 2
          /\ NextCursor(cursor[q]) = IF cursor[q] = NetworkSize - 2 THEN 1 ELSE cursor[q] + 1
      BY <1>1, <2>1, <2>3 DEF NextCursor, Pool
    <3>3. CASE a = cursor[q]
      <4>1. born'[q][a] = allocs[q] + 1 /\ given'[q][a] # None /\ a \in Pool
        BY <2>1, <2>3, <3>1, <3>3
      <4>2. allocs'[q] - born'[q][a] + 1 = 1
        BY <1>1, <3>1, <4>1
      <4>3. (IF a < cursor'[q] THEN cursor'[q] - a ELSE cursor'[q] + (NetworkSize - 2) - a) = 1
        BY <1>1, <3>1, <3>2, <3>3
      <4> QED
        BY <4>1, <4>2, <4>3 DEF AgeOf
    <3>4. CASE a # cursor[q]
      <4> SUFFICES ASSUME born[q][a] # None
                   PROVE  /\ a \in Pool /\ given[q][a] # None
                          /\ allocs'[q] - born[q][a] + 1 =
                               IF a < cursor'[q] THEN cursor'[q] - a ELSE cursor'[q] + (NetworkSize - 2) - a
        BY <3>1, <3>4 DEF AgeOf
      <4>1. /\ a \in Pool /\ given[q][a] # None /\ born[q][a] \in Nat
            /\ allocs[q] - born[q][a] + 1 =
                 IF a < cursor[q] THEN cursor[q] - a ELSE cursor[q] + (NetworkSize - 2) - a
        BY <1>1 DEF AgeOf
      <4>2. a >= 1 /\ a <= NetworkSize - 2
        BY <1>1, <4>1 DEF Pool
      <4>3. CASE cursor[q] = NetworkSize - 2
        BY <1>1, <3>1, <3>2, <3>4, <4>1, <4>2, <4>3
      <4>4. CASE cursor[q] # NetworkSize - 2
        BY <1>1, <3>1, <3>2, <3>4, <4>1, <4>2, <4>4
      <4> QED
        BY <4>3, <4>4
    <3> QED
      BY <3>3, <3>4
  <2> QED
    BY <2>2, <2>3
<1>5. ASSUME NEW p \in Procs, Crash(p) PROVE AgeOf(q, a)'
  <2>1. CASE q = p
    <3>1. born'[q][a] = None
      BY <1>5, <2>1 DEF Crash, TypeInv, TypeOK
    <3> QED
      BY <3>1 DEF AgeOf
  <2>2. CASE q # p
    <3>1. born'[q] = born[q] /\ allocs'[q] = allocs[q] /\ cursor'[q] = cursor[q] /\ given'[q] = given[q]
      BY <1>5, <2>2 DEF Crash, TypeInv, TypeOK
    <3> QED
      BY <1>2, <3>1
  <2> QED
    BY <2>1, <2>2
<1>6. CASE UNCHANGED <<born, allocs, cursor, given>>
  BY <1>2, <1>6
<1>7. ASSUME NEW p \in Procs,
             \/ \E ip \in Addrs : GetBegin(p, ip)
             \/ Attach(p) \/ PutBegin(p) \/ PutEnd(p) \/ PutSkipped(p) \/ GetEnd(p) \/ GetFailed(p)
      PROVE  UNCHANGED <<born, allocs, cursor, given>>
  BY <1>7 DEF GetBegin, Attach, PutBegin, PutEnd, PutSkipped, GetEnd, GetFailed, procVars
<1>8. CASE Tick \/ UNCHANGED vars
  BY <1>6, <1>8 DEF Tick, vars, procVars
<1> QED
  BY <1>3, <1>4, <1>5, <1>6, <1>7, <1>8 DEF Next, Operation

(* The cursor returns to an address of the process after the whole pool,   *)
(* and nothing else rebinds one: an import finds the address unbound.      *)
THEOREM OldestRecycledCorrect == Spec => OldestRecycled
<1> DEFINE Recycles(p, ip) ==
      (/\ born[p][ip] # None /\ born'[p][ip] # None
       /\ ipToDomain'[p][ip] # ipToDomain[p][ip])
      => allocs'[p] - born[p][ip] = Cardinality(Pool)
<1>1. Init => AgeInv
  BY DEF Init, AgeInv, AgeOf
<1>2. TypeInv /\ MapInv /\ AgeInv /\ [Next]_vars => [\A p \in Procs, ip \in Addrs : Recycles(p, ip)]_vars
  <2> SUFFICES ASSUME TypeInv, MapInv, AgeInv, Next, NEW q \in Procs, NEW a \in Addrs,
                      born[q][a] # None, born'[q][a] # None, ipToDomain'[q][a] # ipToDomain[q][a]
               PROVE  allocs'[q] - born[q][a] = Cardinality(Pool)
    OBVIOUS
  <2>1. /\ a \in Pool /\ given[q][a] # None /\ AgeOf(q, a)
        /\ a \in Nat /\ NetworkSize \in Nat /\ allocs[q] \in Nat /\ born[q][a] \in Nat
    BY PoolFacts, ConstantsAssumption DEF AgeInv, AgeOf, TypeInv, TypeOK
  <2>2. ipToDomain[q][a] # None
    BY <2>1 DEF MapInv, OwnAddressResolves
  <2>3. ASSUME NEW p \in Procs, NEW d \in Domains, AllocFresh(p, d)
        PROVE  allocs'[q] - born[q][a] = Cardinality(Pool)
    <3>1. p = q /\ cursor[p] = a
      BY <2>3 DEF AllocFresh, TypeInv, TypeOK
    <3>2. allocs'[q] = allocs[q] + 1
      BY <2>3, <3>1 DEF AllocFresh, TypeInv, TypeOK
    <3>3. allocs[q] - born[q][a] + 1 = NetworkSize - 2
      BY <2>1, <3>1 DEF AgeOf
    <3>4. Cardinality(Pool) = NetworkSize - 2
      <4>1. 1 \in Int /\ NetworkSize - 2 \in Int /\ 1 <= NetworkSize - 2
        BY <2>1 DEF Pool
      <4>2. Cardinality(1 .. NetworkSize - 2) = (NetworkSize - 2) - 1 + 1
        BY <4>1, FS_Interval
      <4> QED
        BY <2>1, <4>2 DEF Pool
    <3> QED
      BY <2>1, <3>2, <3>3, <3>4
  <2>4. ASSUME NEW p \in Procs, GetEnd(p) PROVE FALSE
    <3>1. ipToDomain[p][job[p].ip] = None /\ job[p].ip \in Addrs
      BY <2>4 DEF GetEnd, MapInv, TypeInv, PoolInv
    <3>2. p = q /\ job[p].ip = a
      BY <2>4, <3>1 DEF GetEnd, TypeInv, TypeOK
    <3> QED
      BY <2>2, <3>1, <3>2
  <2>5. ASSUME NEW p \in Procs, Crash(p) PROVE FALSE
    BY <2>5 DEF Crash, TypeInv, TypeOK
  <2>6. ASSUME NEW p \in Procs,
               \/ \E d \in Domains : AllocKnown(p, d)
               \/ \E ip \in Addrs : GetBegin(p, ip)
               \/ Attach(p) \/ PutBegin(p) \/ PutEnd(p) \/ PutSkipped(p) \/ GetFailed(p)
        PROVE  UNCHANGED ipToDomain
    BY <2>6 DEF AllocKnown, GetBegin, Attach, PutBegin, PutEnd, PutSkipped, GetFailed, procVars
  <2>7. ~ Tick
    BY DEF Tick, procVars
  <2> QED
    BY <2>3, <2>4, <2>5, <2>6, <2>7 DEF Next, Operation
<1> QED
  BY <1>1, <1>2, InitTypeInv, NextTypeInv, InitMapInv, NextMapInv, NextAgeInv, PTL DEF Spec, OldestRecycled
=============================================================================
