----------------------------- MODULE ModelsCache -----------------------------
(***************************************************************************)
(* The cache of fetchAvailableModels (gemini_handler.go): every request    *)
(* runs on a goroutine of its own, reads the cache under a read lock, lets *)
(* go of it while it queries the upstream, and stores what it got under    *)
(* the write lock.  A fetch takes any time: it has no deadline, the model  *)
(* bounds it by MaxFetch.                                                  *)
(***************************************************************************)
EXTENDS Integers, FiniteSets

CONSTANTS
  Requests,  \* the requests, one goroutine each
  TTL,       \* defaultModelsCacheTTL, in ticks
  MaxFetch,  \* bound: ticks a fetch lasts
  MaxTime,   \* bound: the clock
  MaxModels, \* bound: versions of the model list the upstream publishes
  Kinds      \* what the upstream's body is: "list", "error", "partial", "empty"

ASSUME CacheAssumption ==
  TTL \in Nat \ {0} /\ {MaxFetch, MaxTime, MaxModels} \subseteq Nat

VARIABLES
  now,        \* the clock
  published,  \* history: for every version, the tick it appeared at
  cache,      \* body and header (the response each is of), updatedAt
  pc,         \* where each request stands
  asked,      \* history: the tick the request went upstream
  got,        \* the upstream response each request holds
  given       \* what its client got, and when

cacheVars == <<now, published, cache, pc, asked, got, given>>

Nothing  == [version |-> 0, kind |-> "none"]
Current  == Cardinality(DOMAIN published)
NotGiven == [kind |-> "none", body |-> Nothing, header |-> Nothing, at |-> 0]

CacheInit ==
  /\ now = 0 /\ published = [v \in {1} |-> 0]
  /\ cache = [body |-> Nothing, header |-> Nothing, at |-> 0]
  /\ pc = [r \in Requests |-> "check"]
  /\ asked = [r \in Requests |-> 0]
  /\ got = [r \in Requests |-> Nothing]
  /\ given = [r \in Requests |-> NotGiven]

-----------------------------------------------------------------------------
(* len(body) > 0 *)
Cached == cache.body.kind \notin {"none", "empty"}

FreshForever  == Cached                       \* mutant: the age is not looked at

(* The cache may answer: there is a body, and it is younger than the TTL.  *)
Fresh == Cached /\ now - cache.at < TTL

Give(r, kind, body, header) ==
  /\ given' = [given EXCEPT ![r] =
       [kind |-> kind, body |-> body, header |-> header, at |-> now]]
  /\ pc' = [pc EXCEPT ![r] = "done"]

(* Step 1, under the read lock.                                            *)
CheckCache(r) ==
  /\ pc[r] = "check"
  /\ \/ /\ Fresh /\ Give(r, "cached", cache.body, cache.header)
        /\ UNCHANGED asked
     \/ /\ ~Fresh
        /\ pc' = [pc EXCEPT ![r] = "fetching"] /\ asked' = [asked EXCEPT ![r] = now]
        /\ UNCHANGED given
  /\ UNCHANGED <<now, published, cache, got>>

(* The upstream answers with the list of this moment.                      *)
Fetched(r, kind) ==
  /\ pc[r] = "fetching" /\ pc' = [pc EXCEPT ![r] = "store"]
  /\ got' = [got EXCEPT ![r] = [version |-> Current, kind |-> kind]]
  /\ UNCHANGED <<now, published, cache, asked, given>>

(* A nil response: nothing is stored.                                      *)
FetchedNothing(r) ==
  /\ pc[r] = "fetching" /\ Give(r, "502", Nothing, Nothing)
  /\ UNCHANGED <<now, published, cache, asked, got>>

FetchFails(r) ==
  /\ pc[r] = "fetching" /\ pc' = [pc EXCEPT ![r] = "failed"]
  /\ UNCHANGED <<now, published, cache, asked, got, given>>

(* After a transport error: whatever the cache holds by now, else 502.     *)
ServeStale(r) ==
  /\ pc[r] = "failed"
  /\ IF Cached THEN Give(r, "stale", cache.body, cache.header)
               ELSE Give(r, "502", Nothing, Nothing)
  /\ UNCHANGED <<now, published, cache, asked, got>>

HeaderKept(r) == IF Cached THEN cache.header ELSE got[r]   \* mutant: set once

(* The header stored with a body: the response's own.                      *)
HeaderOf(r) == got[r]

(* Step 3, under the write lock, whatever the status is and whether or not *)
(* ReadAll reported an error.                                              *)
Store(r) ==
  /\ pc[r] = "store"
  /\ cache' = [body |-> got[r], header |-> HeaderOf(r), at |-> now]
  /\ Give(r, "upstream", got[r], got[r])
  /\ UNCHANGED <<now, published, asked, got>>

-----------------------------------------------------------------------------
InFlight == {r \in Requests : pc[r] \in {"fetching", "store", "failed"}}

Tick ==
  /\ now < MaxTime /\ now' = now + 1
  /\ \A r \in InFlight : now - asked[r] < MaxFetch
  /\ UNCHANGED <<published, cache, pc, asked, got, given>>

(* The upstream publishes another list of models.                          *)
Publish ==
  /\ Current < MaxModels
  /\ published' = [v \in 1 .. Current + 1 |-> IF v <= Current THEN published[v] ELSE now]
  /\ UNCHANGED <<now, cache, pc, asked, got, given>>

CacheNext ==
  \/ Tick \/ Publish
  \/ \E r \in Requests :
       \/ CheckCache(r) \/ FetchedNothing(r) \/ FetchFails(r) \/ ServeStale(r) \/ Store(r)
       \/ \E k \in Kinds : Fetched(r, k)

-----------------------------------------------------------------------------
(* Header and body a client gets are of one response, however many fetches *)
(* stored theirs between the check and the answer.                        *)
OneResponse == \A r \in Requests : given[r].header = given[r].body

(* A list older than the cache lets it be reaches a client only when that  *)
(* client's own fetch failed: what it got from the cache was the           *)
(* upstream's list at most TTL + MaxFetch ticks ago.                       *)
Superseded(v, t) == v + 1 \in DOMAIN published /\ published[v + 1] < t
BoundedStaleness ==
  \A r \in Requests : given[r].kind = "cached"
    => ~Superseded(given[r].body.version, given[r].at - (TTL + MaxFetch))
=============================================================================
