---------------------------- MODULE EventStream ----------------------------
(***************************************************************************)
(* What the proxy promises a client of a translated stream, without        *)
(* goroutines, channels or pipes: the client receives the events of the    *)
(* chunks the provider sent, every one, once and in order; it receives the *)
(* terminal event only behind all of them and only when the provider ended *)
(* its stream; and it receives nothing behind the terminal event.          *)
(***************************************************************************)
EXTENDS Naturals

CONSTANTS Silent   \* chunks that translate to no event

VARIABLES
  sent,       \* chunks the provider sent
  ended,      \* the provider ended its stream
  delivered,  \* the last chunk whose event the client received
  complete    \* the client received the terminal event

streamVars == <<sent, ended, delivered, complete>>

StreamInit == sent = 0 /\ ended = FALSE /\ delivered = 0 /\ complete = FALSE

Audible(n, m) == {i \in n + 1 .. m : i \notin Silent}

Produce == ~ended /\ sent' = sent + 1 /\ UNCHANGED <<ended, delivered, complete>>
End == ended' = TRUE /\ UNCHANGED <<sent, delivered, complete>>

Deliver ==
  /\ ~complete
  /\ \E i \in Audible(delivered, sent) :
       Audible(delivered, i - 1) = {} /\ delivered' = i
  /\ UNCHANGED <<sent, ended, complete>>

Complete ==
  /\ ended /\ Audible(delivered, sent) = {}
  /\ complete' = TRUE
  /\ UNCHANGED <<sent, ended, delivered>>

StreamNext == Produce \/ End \/ Deliver \/ Complete

StreamSpec == StreamInit /\ [][StreamNext]_streamVars
=============================================================================
