-------------------------- MODULE PassthroughRetry --------------------------
(***************************************************************************)
(* The raw passthrough of the Go handlers (passthrough_retry.go): the      *)
(* client's body is read once and replayed on at most MaxRetries + 1       *)
(* attempts; a transport error, an empty response, a 5xx and a body that   *)
(* breaks off are retried, everything else is answered; a stream is        *)
(* forwarded live as soon as its headers are there.                        *)
(***************************************************************************)
EXTENDS Integers, Sequences

CONSTANTS
  MaxRetries,  \* passthroughMaxRetries
  MaxBody,     \* maxRequestBodySize
  Sizes,       \* sizes of the client's body
  Statuses,    \* status codes of the upstream
  Types,       \* its Content-Type: "json", "sse", or "sse;charset"
  Codings,     \* how its body is coded: "identity", "gzip", "corrupt" (gzip that
               \* does not decode), "br"
  Ends         \* how its body ends: "whole", "truncated", "never"

ASSUME RetryAssumption ==
  /\ MaxRetries \in Nat /\ MaxBody \in Nat /\ Sizes \subseteq Nat /\ Statuses \subseteq Nat
  /\ Ends \subseteq {"whole", "truncated", "never"}

VARIABLES
  stage,     \* where geminiPassthrough stands
  streamRpc, \* the path contains streamGenerateContent
  size,      \* the client's body
  attempt,   \* loop variable of roundTripWithRetry
  seen,      \* history: the body of every request the upstream received
  resp,      \* the upstream's response to the attempt in progress
  answer     \* what the client is given

retryVars == <<stage, streamRpc, size, attempt, seen, resp, answer>>

Responses == [status : Statuses, type : Types, coding : Codings, ends : Ends]
NoResponse == [status |-> 0, type |-> "none", coding |-> "none", ends |-> "none"]
NoAnswer   == [kind |-> "none", coding |-> "none", label |-> "none"]
BadGateway == [kind |-> "502", coding |-> "identity", label |-> "identity"]

RetryInit ==
  /\ stage = "read" /\ streamRpc = FALSE /\ size = 0
  /\ attempt = 0 /\ seen = <<>> /\ resp = NoResponse /\ answer = NoAnswer

-----------------------------------------------------------------------------
(* What readRequestBody returns: at most MaxBody bytes.                    *)
Buffered == IF size > MaxBody THEN MaxBody ELSE size

Answer(a) == answer' = a /\ stage' = "answered"

ReadBody ==
  /\ stage = "read" /\ stage' = "send"
  /\ streamRpc' \in BOOLEAN /\ size' \in Sizes
  /\ UNCHANGED <<attempt, seen, resp, answer>>

ReadBodyFails ==
  /\ stage = "read" /\ Answer(BadGateway)
  /\ UNCHANGED <<streamRpc, size, attempt, seen, resp>>

(* The body of an attempt, rebuilt from the buffer.                        *)
BodySent == Buffered

(* ctx.RoundTrip puts the request on the wire.                             *)
Send ==
  /\ stage = "send" /\ stage' = "wait"
  /\ seen' = Append(seen, BodySent)
  /\ UNCHANGED <<streamRpc, size, attempt, resp, answer>>

AttemptsShort == attempt + 1 < MaxRetries   \* mutant: one attempt less

(* Another attempt is left.                                                *)
AttemptsLeft == attempt < MaxRetries

(* mutant: nothing is answered when the attempts are exhausted *)
RetrySilent == AttemptsLeft /\ attempt' = attempt + 1 /\ stage' = "backoff" /\ UNCHANGED answer

(* continue: sleep and try again, or give up with lastErr.                 *)
Retry ==
  IF AttemptsLeft
    THEN attempt' = attempt + 1 /\ stage' = "backoff" /\ UNCHANGED answer
    ELSE Answer(BadGateway) /\ UNCHANGED attempt

Backoff ==
  /\ stage = "backoff" /\ stage' = "send"
  /\ resp' = NoResponse
  /\ UNCHANGED <<streamRpc, size, attempt, seen, answer>>

(* A transport error, or no response or body at all.                       *)
RoundTripFails ==
  /\ stage = "wait" /\ Retry
  /\ UNCHANGED <<streamRpc, size, seen, resp>>

RoundTripReturns(r) ==
  /\ stage = "wait" /\ stage' = "headers" /\ resp' = r
  /\ UNCHANGED <<streamRpc, size, attempt, seen, answer>>

(* The response is live: the exact header value, or the streaming RPC.     *)
IsLive == streamRpc \/ resp.type = "sse"

Label(coding) == IF coding = "corrupt" THEN "gzip" ELSE coding

Headers ==
  /\ stage = "headers"
  /\ \/ /\ IsLive
        /\ Answer([kind |-> "live", coding |-> resp.coding, label |-> Label(resp.coding)])
        /\ UNCHANGED attempt
     \/ /\ ~IsLive /\ stage' = IF resp.status >= 500 THEN "discard" ELSE "body"
        /\ UNCHANGED <<attempt, answer>>
  /\ UNCHANGED <<streamRpc, size, seen, resp>>

(* The first 4096 bytes of a server error are read and dropped; a body     *)
(* that does not end may have as many, or may not.                         *)
Discard ==
  /\ stage = "discard" /\ Retry
  /\ UNCHANGED <<streamRpc, size, seen, resp>>

TruncationUnread == FALSE   \* mutant: the error of ReadAll is dropped

(* ReadAll reports that the body broke off.                                *)
BrokeOff == resp.ends = "truncated"

(* gzip is undone where it decodes; the label is dropped in any case.      *)
Decoded(coding) == IF coding = "gzip" THEN "identity" ELSE coding

ReadAll ==
  /\ stage = "body" /\ resp.ends # "never"
  /\ \/ BrokeOff /\ Retry
     \/ /\ ~BrokeOff
        /\ Answer([kind |-> "buffered", coding |-> Decoded(resp.coding), label |-> "identity"])
        /\ UNCHANGED attempt
  /\ UNCHANGED <<streamRpc, size, seen, resp>>

RetryNext ==
  \/ ReadBody \/ ReadBodyFails \/ Send \/ Backoff \/ RoundTripFails
  \/ \E r \in Responses : RoundTripReturns(r)
  \/ Headers \/ Discard \/ ReadAll

(* What needs nothing of the upstream any more.                            *)
Proxy ==
  \/ ReadBody \/ Send \/ Backoff \/ Headers \/ ReadAll
  \/ resp.ends # "never" /\ Discard

(* The round trip has no timeout, nor has the read of a body.              *)
WaitsForUpstream ==
  stage = "wait" \/ (stage \in {"discard", "body"} /\ resp.ends = "never")

-----------------------------------------------------------------------------
(* A buffered answer is whole and no server error: what broke off or       *)
(* failed never reaches the client as if it were the response.             *)
BufferedAnswerIsWhole ==
  answer.kind = "buffered" => resp.ends = "whole" /\ resp.status < 500

(* The client is told 502 only when every attempt was made.                *)
GivesUpOnlyAtLast ==
  answer.kind = "502" => seen = <<>> \/ Len(seen) = MaxRetries + 1
=============================================================================
