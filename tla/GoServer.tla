------------------------------ MODULE GoServer ------------------------------
(***************************************************************************)
(* The process of the Go proxy (main.go): it serves exchanges, each on     *)
(* goroutines of its own, until a signal makes Shutdown close the          *)
(* listener.  Serve returns at that moment, main returns behind it, and    *)
(* the process is gone with whatever was in flight.                        *)
(*                                                                         *)
(* An exchange is a translated stream (StreamPipeline), a request that is  *)
(* passed on (PassthroughRetry), or concurrent requests for the list of    *)
(* models (ModelsCache), which alone share state.  One kind of exchange is *)
(* followed in a behaviour: the kinds have no variable in common.          *)
(***************************************************************************)
EXTENDS StreamPipeline, PassthroughRetry, ModelsCache

VARIABLES
  server,    \* serving, closing (Shutdown closed the listener), or exited
  exchange   \* the kind of exchange that is followed

vars == <<server, exchange, pipelineVars, retryVars, cacheVars>>

Init ==
  /\ server = "serving" /\ exchange = "none"
  /\ PipelineInit /\ RetryInit /\ CacheInit

-----------------------------------------------------------------------------
(* A connection is accepted, and a handler takes its request.              *)
Accept(kind) ==
  /\ server = "serving" /\ exchange = "none"
  /\ exchange' = kind
  /\ UNCHANGED <<server, pipelineVars, retryVars, cacheVars>>

(* SIGTERM or SIGINT: the goroutine calls Shutdown.                        *)
Signal ==
  /\ server = "serving" /\ server' = "closing"
  /\ UNCHANGED <<exchange, pipelineVars, retryVars, cacheVars>>

(* Serve returns ErrServerClosed, and so does main: nothing waits for      *)
(* Shutdown, which would wait for the exchanges in flight.                 *)
Exit ==
  /\ server = "closing" /\ server' = "exited"
  /\ UNCHANGED <<exchange, pipelineVars, retryVars, cacheVars>>

Alive(kind) == server # "exited" /\ exchange = kind

(* A step of the exchange.                                                 *)
Streams(Step) ==
  /\ Alive("stream") /\ Step
  /\ UNCHANGED <<server, exchange, retryVars, cacheVars>>

Passes(Step) ==
  /\ Alive("passthrough") /\ Step
  /\ UNCHANGED <<server, exchange, pipelineVars, cacheVars>>

(* No request arrives once the listener is closed.                         *)
Lists ==
  /\ Alive("models") /\ CacheNext
  /\ server = "closing" => \A r \in Requests : pc[r] = "check" => pc'[r] = "check"
  /\ UNCHANGED <<server, exchange, pipelineVars, retryVars>>

Next ==
  \/ \E kind \in {"stream", "passthrough", "models"} : Accept(kind)
  \/ Signal \/ Exit
  \/ Streams(PipelineNext) \/ Passes(RetryNext) \/ Lists

Spec == Init /\ [][Next]_vars

(* Goroutines that can run do run, and time passes.  A read of a stream's  *)
(* body returns once the context is over; nothing is assumed of an         *)
(* upstream that is asked to pass something on.                            *)
FairSpec ==
  /\ Spec
  /\ WF_vars(Streams(Reader)) /\ WF_vars(Streams(Expire))
  /\ WF_vars(Streams(expired /\ ScanError))
  /\ WF_vars(Passes(Proxy))

(* The client's connection makes progress: the handler is scheduled, and   *)
(* the copy is not blocked for ever by a client that neither reads nor     *)
(* leaves.                                                                 *)
ClientFairness == WF_vars(Streams(Handler)) /\ WF_vars(Streams(Copy))

-----------------------------------------------------------------------------
(* processStream closes the body and the channel in the end, also when the *)
(* consumer is stuck and the channel is full: no goroutine is left behind. *)
ReaderEnds ==
  exchange = "stream" ~> reader = "exit" \/ server = "exited"

(* Both goroutines end, whatever the provider does, also when r.Context()  *)
(* is never cancelled, unless the client's connection is stuck for ever.   *)
PipelineEnds ==
  ClientFairness =>
    (exchange = "stream" ~> (reader = "exit" /\ handler = "exit") \/ server = "exited")

(* A request is answered, also after retries, unless the process exits or  *)
(* the upstream keeps the handler waiting for ever: for the headers, for   *)
(* the end of a body, or for as much of a server error as is read before   *)
(* the next attempt.  Nothing else holds it up.                            *)
Answered ==
  exchange = "passthrough"
    ~> (stage = "answered" \/ server = "exited" \/ []WaitsForUpstream)
=============================================================================
