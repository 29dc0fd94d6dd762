------------------------------- MODULE FakeIP -------------------------------
(***************************************************************************)
(* The FakeIP pool of the injected library (FakeIP.hpp).  Every patched    *)
(* process keeps two private maps, address to domain and domain to         *)
(* address, and allocates addresses from a cursor of its own.  It also     *)
(* publishes each allocation in a ring of kSharedCapacity entries that all *)
(* processes map (shm, or a file when shm is refused) and that is guarded  *)
(* by an fcntl lock, so that a process can resolve an address that another *)
(* process obtained.                                                       *)
(*                                                                         *)
(* An address is written as its offset in the CIDR block: m_baseIp is      *)
(* aligned, so m_baseIp | offset is injective.  m_mtx is held for a whole  *)
(* Alloc or GetDomain, so a process has at most one operation in flight;   *)
(* the file lock is taken inside it.                                       *)
(***************************************************************************)
EXTENDS Integers, FiniteSets

CONSTANTS
  Procs,        \* processes the library is injected into
  Domains,      \* domain names the processes look up
  Tables,       \* backing stores of the ring: the shm object, the fallback file
  NetworkSize,  \* number of addresses of the CIDR block (m_networkSize)
  Capacity,     \* entries of the ring (kSharedCapacity)
  Garbled,      \* what a domain copied only in part reads as
  None,         \* an absent map entry, the empty domain
  MaxAllocs,    \* bound: allocations of one process between two restarts
  MaxTick,      \* bound: the clock
  MaxCrashes    \* bound: process deaths

ASSUME ConstantsAssumption ==
  /\ NetworkSize \in Nat
  /\ Capacity \in Nat \ {0}
  /\ None \notin Domains /\ Garbled \notin Domains /\ None # Garbled
  /\ None \notin 0 .. NetworkSize - 1
  /\ None \notin Procs /\ None \notin Tables
  /\ MaxAllocs \in Nat /\ MaxTick \in Nat /\ MaxCrashes \in Nat

Addrs == 0 .. NetworkSize - 1      \* every address IsFakeIP accepts
Pool  == 1 .. NetworkSize - 2      \* without the network and broadcast address
Slots == 0 .. Capacity - 1

VARIABLES
  ipToDomain,   \* m_ipToDomain of every process, None where the key is absent
  domainToIp,   \* m_domainToIp of every process, None where the key is absent
  cursor,       \* m_cursor of every process
  table,        \* the store the process mapped, None while it has none
  pc,           \* what the operation in flight of the process does next
  job,          \* the address, the domain and the ring slot of that operation
  entries,      \* the ring of every store
  ringCursor,   \* SharedTable.cursor of every store
  lock,         \* the process that holds the fcntl lock
  clock,        \* CLOCK_MONOTONIC in milliseconds
  crashes,      \* process deaths so far
  given,        \* history: the domain Alloc last returned the address for
  allocs,       \* history: fresh allocations of the process
  born,         \* history: value of allocs when the address was allocated
  issued,       \* history: pairs some process allocated
  torn          \* history: a process died while it copied a domain

procVars  == <<ipToDomain, domainToIp, cursor, given, allocs, born>>
ringVars  == <<entries, ringCursor>>
vars == <<procVars, ringVars, table, pc, job, lock, clock, crashes, issued, torn>>

NoJob == [ip |-> 0, domain |-> None, slot |-> 0]
EmptyEntry == [ip |-> 0, tick |-> 0, domain |-> None, seq |-> 0]

Init ==
  /\ ipToDomain = [p \in Procs |-> [ip \in Addrs |-> None]]
  /\ domainToIp = [p \in Procs |-> [d \in Domains |-> None]]
  /\ cursor = [p \in Procs |-> 1]
  /\ table = [p \in Procs |-> None]
  /\ pc = [p \in Procs |-> "idle"]
  /\ job = [p \in Procs |-> NoJob]
  /\ entries = [t \in Tables |-> [i \in Slots |-> EmptyEntry]]
  /\ ringCursor = [t \in Tables |-> 0]
  /\ lock = None
  /\ clock = 1
  /\ crashes = 0
  /\ given = [p \in Procs |-> [ip \in Addrs |-> None]]
  /\ allocs = [p \in Procs |-> 0]
  /\ born = [p \in Procs |-> [ip \in Addrs |-> None]]
  /\ issued = {}
  /\ torn = FALSE

-----------------------------------------------------------------------------
(* Mutants of NextCursor: the wrap one address late, and one early.        *)
NextCursorLate(c)  == IF c + 1 > NetworkSize - 1 THEN 1 ELSE c + 1
NextCursorEarly(c) == IF c + 1 >= NetworkSize - 2 THEN 1 ELSE c + 1

(* The cursor after an allocation: it skips the network address and wraps  *)
(* before the broadcast address.                                           *)
NextCursor(c) == IF c + 1 >= NetworkSize - 1 THEN 1 ELSE c + 1

(* Mutant: the recycled address keeps its old domain in the reverse map.   *)
ForgetNothing(p, ip) == domainToIp[p]

(* m_domainToIp after the address ip is rebound: the domain the address    *)
(* stood for is forgotten.                                                 *)
ForgetOldDomain(p, ip) ==
  [d \in Domains |-> IF ipToDomain[p][ip] = d THEN None ELSE domainToIp[p][d]]

(* Alloc finds the domain in m_domainToIp and returns the address again.   *)
AllocKnown(p, d) ==
  /\ pc[p] = "idle" /\ domainToIp[p][d] # None
  /\ given' = [given EXCEPT ![p][domainToIp[p][d]] = d]
  /\ UNCHANGED <<ipToDomain, domainToIp, cursor, allocs, born, ringVars, table,
                 pc, job, lock, clock, crashes, issued, torn>>

(* Alloc takes the address under the cursor, drops what it stood for, and  *)
(* goes on to publish it; a block of two addresses or fewer has none.      *)
AllocFresh(p, d) ==
  LET ip == cursor[p] IN
  /\ pc[p] = "idle" /\ domainToIp[p][d] = None
  /\ NetworkSize > 2
  /\ allocs[p] < MaxAllocs
  /\ cursor' = [cursor EXCEPT ![p] = NextCursor(ip)]
  /\ ipToDomain' = [ipToDomain EXCEPT ![p][ip] = d]
  /\ domainToIp' = [domainToIp EXCEPT ![p] = [ForgetOldDomain(p, ip) EXCEPT ![d] = ip]]
  /\ given' = [given EXCEPT ![p][ip] = d]
  /\ allocs' = [allocs EXCEPT ![p] = @ + 1]
  /\ born' = [born EXCEPT ![p][ip] = allocs[p] + 1]
  /\ issued' = issued \cup {<<ip, d>>}
  /\ pc' = [pc EXCEPT ![p] = "put"]
  /\ job' = [job EXCEPT ![p] = [ip |-> ip, domain |-> d, slot |-> 0]]
  /\ UNCHANGED <<ringVars, table, lock, clock, crashes, torn>>

-----------------------------------------------------------------------------
(* Mutant: the lock is not waited for.                                     *)
LockIgnored == TRUE

(* fcntl(F_SETLKW) of the ring lock returns.                               *)
LockFree == lock = None

(* EnsureSharedInitialized, once per process: shm, else the fallback file, *)
(* else none (the process then stays without a table, see PutSkipped).     *)
Attach(p) ==
  /\ pc[p] \in {"put", "get"} /\ table[p] = None /\ LockFree
  /\ \E t \in Tables : table' = [table EXCEPT ![p] = t]
  /\ UNCHANGED <<procVars, ringVars, pc, job, lock, clock, crashes, issued, torn>>

(* SharedPut up to the domain: the lock, the next slot, its ip and tick.   *)
PutBegin(p) ==
  LET t == table[p]
      i == ringCursor[t] % Capacity
  IN
  /\ pc[p] = "put" /\ t # None /\ LockFree
  /\ lock' = p
  /\ ringCursor' = [ringCursor EXCEPT ![t] = @ + 1]
  /\ entries' = [entries EXCEPT ![t][i] =
                   [ip |-> job[p].ip, tick |-> clock,
                    domain |-> entries[t][i].domain, seq |-> ringCursor[t] + 1]]
  /\ pc' = [pc EXCEPT ![p] = "copy"]
  /\ job' = [job EXCEPT ![p] = [ip |-> job[p].ip, domain |-> job[p].domain, slot |-> i]]
  /\ UNCHANGED <<procVars, table, clock, crashes, issued, torn>>

(* The ring after p wrote a domain in its slot.                            *)
DomainWritten(p, d) ==
  LET e == entries[table[p]][job[p].slot] IN
  [entries EXCEPT ![table[p]][job[p].slot] =
     [ip |-> e.ip, tick |-> e.tick, domain |-> d, seq |-> e.seq]]

(* SharedPut copies the domain and unlocks; Alloc returns.                 *)
PutEnd(p) ==
  /\ pc[p] = "copy"
  /\ entries' = DomainWritten(p, job[p].domain)
  /\ lock' = None
  /\ pc' = [pc EXCEPT ![p] = "idle"]
  /\ job' = [job EXCEPT ![p] = NoJob]
  /\ UNCHANGED <<procVars, ringCursor, table, clock, crashes, issued, torn>>

(* No table could be mapped, or fcntl was interrupted by a signal: the     *)
(* allocation stays private to the process.                                *)
PutSkipped(p) ==
  /\ pc[p] = "put"
  /\ pc' = [pc EXCEPT ![p] = "idle"]
  /\ job' = [job EXCEPT ![p] = NoJob]
  /\ UNCHANGED <<procVars, ringVars, table, lock, clock, crashes, issued, torn>>

-----------------------------------------------------------------------------
(* The slots SharedGet considers for an address.                           *)
Published(t, ip) ==
  {i \in Slots : entries[t][i].ip = ip /\ entries[t][i].domain # None}

BestOnTieFirst(t, ip) ==   \* mutant: tick > bestTick
  CHOOSE i \in Published(t, ip) : \A j \in Published(t, ip) :
    \/ entries[t][j].tick < entries[t][i].tick
    \/ entries[t][j].tick = entries[t][i].tick /\ i <= j

(* The entry SharedGet settles on: the largest tick, the last index on a   *)
(* tie, among those of the address that have a domain.                     *)
Best(t, ip) ==
  CHOOSE i \in Published(t, ip) : \A j \in Published(t, ip) :
    \/ entries[t][j].tick < entries[t][i].tick
    \/ entries[t][j].tick = entries[t][i].tick /\ j <= i

SharedGet(t, ip) ==
  IF Published(t, ip) = {} THEN None ELSE entries[t][Best(t, ip)].domain

(* GetDomain of an address the process does not know.  (A known address is *)
(* answered from m_ipToDomain and changes nothing.)                        *)
GetBegin(p, ip) ==
  /\ pc[p] = "idle" /\ ipToDomain[p][ip] = None
  /\ pc' = [pc EXCEPT ![p] = "get"]
  /\ job' = [job EXCEPT ![p] = [ip |-> ip, domain |-> None, slot |-> 0]]
  /\ UNCHANGED <<procVars, ringVars, table, lock, clock, crashes, issued, torn>>

(* SharedGet scans the ring under the lock, which no writer holds then; a  *)
(* hit is cached in both maps, without evicting what they held.            *)
GetEnd(p) ==
  LET ip == job[p].ip
      d  == SharedGet(table[p], ip)
  IN
  /\ pc[p] = "get" /\ table[p] # None /\ LockFree
  /\ pc' = [pc EXCEPT ![p] = "idle"]
  /\ job' = [job EXCEPT ![p] = NoJob]
  /\ ipToDomain' = [ipToDomain EXCEPT ![p][ip] = d]
  /\ domainToIp' = [domainToIp EXCEPT ![p] =
                      [e \in Domains |-> IF e = d THEN ip ELSE @[e]]]
  /\ UNCHANGED <<cursor, given, allocs, born, ringVars, table, lock, clock,
                 crashes, issued, torn>>

GetFailed(p) ==
  /\ pc[p] = "get"
  /\ pc' = [pc EXCEPT ![p] = "idle"]
  /\ job' = [job EXCEPT ![p] = NoJob]
  /\ UNCHANGED <<procVars, ringVars, table, lock, clock, crashes, issued, torn>>

-----------------------------------------------------------------------------
(* Mutant: the lock outlives its holder, as a lock word in the table would.*)
LockKept(p) == lock

(* The kernel drops the fcntl lock of a process that dies.                 *)
LockAfterDeath(p) == IF lock = p THEN None ELSE lock

(* A process dies and is started again: its maps are empty, its cursor is  *)
(* 1, the kernel drops its lock, and a slot it was writing keeps the new   *)
(* ip and tick with the domain it held before, or with part of the new one.*)
Crash(p) ==
  /\ crashes < MaxCrashes
  /\ crashes' = crashes + 1
  /\ ipToDomain' = [ipToDomain EXCEPT ![p] = [ip \in Addrs |-> None]]
  /\ domainToIp' = [domainToIp EXCEPT ![p] = [d \in Domains |-> None]]
  /\ cursor' = [cursor EXCEPT ![p] = 1]
  /\ given' = [given EXCEPT ![p] = [ip \in Addrs |-> None]]
  /\ allocs' = [allocs EXCEPT ![p] = 0]
  /\ born' = [born EXCEPT ![p] = [ip \in Addrs |-> None]]
  /\ table' = [table EXCEPT ![p] = None]
  /\ pc' = [pc EXCEPT ![p] = "idle"]
  /\ job' = [job EXCEPT ![p] = NoJob]
  /\ lock' = LockAfterDeath(p)
  /\ \/ pc[p] # "copy" /\ UNCHANGED <<entries, torn>>
     \/ pc[p] = "copy" /\ torn' = TRUE /\ UNCHANGED entries
     \/ /\ pc[p] = "copy" /\ torn' = TRUE
        /\ entries' = DomainWritten(p, Garbled)
  /\ UNCHANGED <<ringCursor, clock, issued>>

Tick ==
  /\ clock < MaxTick
  /\ clock' = clock + 1
  /\ UNCHANGED <<procVars, ringVars, table, pc, job, lock, crashes, issued, torn>>

Operation(p) ==
  \/ \E d \in Domains : AllocKnown(p, d) \/ AllocFresh(p, d)
  \/ \E ip \in Addrs : GetBegin(p, ip)
  \/ Attach(p) \/ PutBegin(p) \/ PutEnd(p) \/ PutSkipped(p)
  \/ GetEnd(p) \/ GetFailed(p)

Next == Tick \/ \E p \in Procs : Operation(p) \/ Crash(p)

Spec == Init /\ [][Next]_vars

(* A thread inside Alloc or GetDomain is scheduled again, and fcntl wakes  *)
(* a waiter once the lock is free.                                         *)
Finish(p) == Attach(p) \/ PutBegin(p) \/ PutEnd(p) \/ GetEnd(p)

FairSpec == Spec /\ \A p \in Procs : WF_vars(Finish(p))

-----------------------------------------------------------------------------
Entry == [ip : Addrs \cup {0}, tick : Nat, domain : Domains \cup {None, Garbled}, seq : Nat]

TypeOK ==
  /\ ipToDomain \in [Procs -> [Addrs -> Domains \cup {None, Garbled}]]
  /\ domainToIp \in [Procs -> [Domains -> Addrs \cup {None}]]
  /\ cursor \in [Procs -> Nat \ {0}]
  /\ table \in [Procs -> Tables \cup {None}]
  /\ pc \in [Procs -> {"idle", "put", "copy", "get"}]
  /\ job \in [Procs -> [ip : Addrs \cup {0}, domain : Domains \cup {None}, slot : Slots]]
  /\ entries \in [Tables -> [Slots -> Entry]]
  /\ ringCursor \in [Tables -> Nat]
  /\ lock \in Procs \cup {None}
  /\ clock \in Nat /\ crashes \in Nat
  /\ given \in [Procs -> [Addrs -> Domains \cup {None}]]
  /\ allocs \in [Procs -> Nat]
  /\ born \in [Procs -> [Addrs -> Nat \cup {None}]]
  /\ issued \subseteq Pool \X Domains
  /\ torn \in BOOLEAN

(* The two maps of a process agree: an address found under a domain stands *)
(* for that domain.  Alloc relies on it when it erases the domain of a     *)
(* recycled address, GetDomain when it imports an entry without evicting.  *)
MapsAgree ==
  \A p \in Procs, d \in Domains :
    domainToIp[p][d] # None => ipToDomain[p][domainToIp[p][d]] = d

(* An address that getaddrinfo handed to the application for a domain      *)
(* resolves to that domain in my_connect of the same process, whatever was *)
(* imported or recycled in between, until Alloc hands the address out for  *)
(* another domain.                                                         *)
OwnAddressResolves ==
  \A p \in Procs, ip \in Addrs :
    given[p][ip] # None => ipToDomain[p][ip] = given[p][ip]

(* Alloc never hands out the network or the broadcast address of the       *)
(* block, and the cursor never leaves the pool, also when it wraps.        *)
OnlyPoolAddresses ==
  /\ \A p \in Procs, ip \in Addrs : given[p][ip] # None => ip \in Pool
  /\ NetworkSize > 2 => \A p \in Procs : cursor[p] \in Pool

(* An address a process allocated is rebound only after the whole pool has *)
(* been allocated once more: the oldest address is the one recycled.       *)
OldestRecycled ==
  [][\A p \in Procs, ip \in Addrs :
       (/\ born[p][ip] # None /\ born'[p][ip] # None
        /\ ipToDomain'[p][ip] # ipToDomain[p][ip])
       => allocs'[p] - born[p][ip] = Cardinality(Pool)]_vars

(* What a process answers for an address is a domain that some process     *)
(* allocated that address for: no interleaving of puts, gets and ring      *)
(* overwrites pairs an address with the domain of another entry.  Only a   *)
(* death between the ip and the domain of an entry can (torn).             *)
NothingInvented ==
  ~torn => \A p \in Procs, ip \in Addrs :
             ipToDomain[p][ip] # None => <<ip, ipToDomain[p][ip]>> \in issued

(* While no slot is half written, the ring answers with the newest put of  *)
(* the address that is still in it; after the ring has wrapped it may      *)
(* answer with an older put of the same millisecond, never of an earlier   *)
(* one.                                                                    *)
NewestPutWins ==
  lock = None /\ ~torn =>
    \A t \in Tables, ip \in Pool :
      Published(t, ip) # {} =>
        LET best == entries[t][Best(t, ip)] IN
        \A i \in Published(t, ip) :
          entries[t][i].seq > best.seq =>
            entries[t][i].tick = best.tick /\ ringCursor[t] > Capacity

(* The lock is held only by a process that is writing a slot, so the death *)
(* of its holder leaves nobody waiting: an operation in flight ends.       *)
OperationsEnd == \A p \in Procs : pc[p] # "idle" ~> pc[p] = "idle"

(* The pool implements the directory: the private map of a process is what *)
(* it has bound, and the ring is invisible.                                *)
Directory == INSTANCE NameDirectory WITH
  Values <- Domains \cup {Garbled},
  bound <- ipToDomain, known <- issued, tainted <- torn

ImplementsDirectory == Directory!DirSpec
=============================================================================
