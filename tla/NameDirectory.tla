--------------------------- MODULE NameDirectory ---------------------------
(***************************************************************************)
(* What the FakeIP pool promises to the processes that use it, without     *)
(* rings, locks or cursors: a process binds addresses to domains, an       *)
(* address it has bound keeps its domain until the process itself hands    *)
(* the address out again, and a process learns only pairs that some        *)
(* process handed out.  The last promise is lost (tainted) once a process  *)
(* died in the middle of a publication.                                    *)
(***************************************************************************)
CONSTANTS Procs, Addrs, Values, None

VARIABLES
  bound,    \* what every process answers for every address
  known,    \* the pairs that were handed out
  tainted   \* a publication was cut short

dirVars == <<bound, known, tainted>>

DirInit ==
  /\ bound = [p \in Procs |-> [ip \in Addrs |-> None]]
  /\ known = {}
  /\ tainted = FALSE

(* A process hands out ip for the domain d. *)
HandOut(p, ip, d) ==
  /\ bound' = [bound EXCEPT ![p][ip] = d]
  /\ known' = known \cup {<<ip, d>>}
  /\ UNCHANGED tainted

(* A process that does not know ip learns what another one handed out. *)
Learn(p, ip, d) ==
  /\ bound[p][ip] = None
  /\ tainted \/ <<ip, d>> \in known
  /\ bound' = [bound EXCEPT ![p][ip] = d]
  /\ UNCHANGED <<known, tainted>>

(* A process dies and starts with nothing bound. *)
Restart(p) ==
  /\ bound' = [bound EXCEPT ![p] = [ip \in Addrs |-> None]]
  /\ tainted' \in {tainted, TRUE}
  /\ UNCHANGED known

DirNext ==
  \E p \in Procs :
    \/ \E ip \in Addrs, d \in Values : HandOut(p, ip, d) \/ Learn(p, ip, d)
    \/ Restart(p)

DirSpec == DirInit /\ [][DirNext]_dirVars
=============================================================================
