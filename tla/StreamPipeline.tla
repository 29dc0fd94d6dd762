--------------------------- MODULE StreamPipeline ---------------------------
(***************************************************************************)
(* A translated stream of the Go proxy.  processStream (provider) scans    *)
(* the provider's event stream and sends chunks into a buffered channel; a *)
(* goroutine of the handler takes them out, translates them and writes     *)
(* them into an io.Pipe; streamCopyWithFlush reads the pipe and writes to  *)
(* the client's connection.  The two goroutines share a context that the   *)
(* handler cancels when it returns and that expires after 30 minutes.      *)
(*                                                                         *)
(* A chunk is its number.  Lines that are no data line, do not parse or    *)
(* have no choices are skipped by the scan and are not modelled.           *)
(***************************************************************************)
EXTENDS Integers, Sequences

CONSTANTS
  MaxChunks,   \* bound: chunks the provider sends
  Capacity,    \* room of the channel (100)
  Silent,      \* chunks TranslateStreamChunk turns into no event
  Preamble,    \* TRUE where the handler writes message_start first (Anthropic)
  Done, Error, \* the items that are no chunk: Done: true, Error # nil
  Start,       \* the event message_start
  None

ASSUME PipelineAssumption ==
  /\ MaxChunks \in Nat /\ Capacity \in Nat \ {0}
  /\ Silent \subseteq 1 .. MaxChunks /\ Preamble \subseteq BOOLEAN
  /\ Done \notin Nat /\ Error \notin Nat \cup {Done}
  /\ Start \notin Nat \cup {Done, Error} /\ None \notin Nat \cup {Done, Error, Start}

VARIABLES
  sent,       \* chunks the provider put on the wire
  wire,       \* how the provider's stream stands: open, over or broken
  expired,    \* the context is cancelled or its 30 minutes are over
  reader,     \* what processStream does next
  outgoing,   \* the item processStream wants to send
  last,       \* processStream returns behind that item
  chan,       \* the channel
  closed,     \* the channel is closed
  handler,    \* what the handler's goroutine does next
  writing,    \* the item it writes into the pipe
  client,     \* the client still reads
  reqDone,    \* r.Context() is done
  pipe,       \* the pipe: open, closed by its writer, closed by its reader
  delivered,  \* history: the last chunk the client received the event of
  complete    \* history: the client received the terminal event

readerVars  == <<reader, outgoing, last>>
handlerVars == <<handler, writing>>
clientVars  == <<client, reqDone>>
history     == <<delivered, complete>>
pipelineVars == <<sent, wire, expired, readerVars, chan, closed, handlerVars, clientVars, pipe, history>>

Chunks == 1 .. MaxChunks

PipelineInit ==
  /\ sent = 0 /\ wire = "open" /\ expired = FALSE
  /\ reader = "scan" /\ outgoing = None /\ last = FALSE
  /\ chan = <<>> /\ closed = FALSE
  /\ handler = "start" /\ writing = None
  /\ client = "reading" /\ reqDone = FALSE
  /\ pipe = "open"
  /\ delivered = 0 /\ complete = FALSE

-----------------------------------------------------------------------------
(* processStream.  Scan returns a line; the context is looked at before    *)
(* the line is.                                                            *)
Offer(item, final) ==
  /\ reader' = "send" /\ outgoing' = item /\ last' = final

ClosedNever == FALSE   \* mutant: the channel is left open

(* The deferred close(chunks), whatever way processStream returns.         *)
ClosedAtExit == TRUE

ReaderExit ==
  /\ reader' = "exit" /\ outgoing' = None /\ last' = FALSE
  /\ closed' = ClosedAtExit

Scanned == reader = "scan" /\ wire = "open"

ScanChunk ==
  /\ Scanned /\ ~expired /\ sent < MaxChunks
  /\ sent' = sent + 1
  /\ Offer(sent + 1, FALSE)
  /\ UNCHANGED <<wire, expired, chan, closed, handlerVars, clientVars, pipe, history>>

(* [DONE], or the end of the body without it.                              *)
ScanEnd ==
  /\ Scanned /\ ~expired
  /\ wire' = "over"
  /\ Offer(Done, TRUE)
  /\ UNCHANGED <<sent, expired, chan, closed, handlerVars, clientVars, pipe, history>>

FailureAsEnd == Done   \* mutant: a broken stream is reported as an ended one

(* What the consumer is told when scanner.Err() is not nil.                *)
FailureItem == Error

(* The connection breaks, a line is longer than the buffer, or the         *)
(* cancelled context makes the read fail: Scan returns false with an error.*)
ScanError ==
  /\ Scanned
  /\ wire' = "broken"
  /\ Offer(FailureItem, TRUE)
  /\ UNCHANGED <<sent, expired, chan, closed, handlerVars, clientVars, pipe, history>>

ScanCancelled ==
  /\ Scanned /\ expired
  /\ ReaderExit
  /\ UNCHANGED <<sent, wire, expired, chan, handlerVars, clientVars, pipe, history>>

CancelledNever == FALSE   \* mutant: send waits for the consumer only

(* The branch ctx.Done() of the select in send.                            *)
SendCancelled == expired

Room == Len(chan) < Capacity

(* send: select takes either branch when both are ready.                   *)
SendChunk ==
  /\ reader = "send" /\ Room
  /\ chan' = Append(chan, outgoing)
  /\ IF last THEN ReaderExit
             ELSE reader' = "scan" /\ outgoing' = None /\ UNCHANGED <<last, closed>>
  /\ UNCHANGED <<sent, wire, expired, handlerVars, clientVars, pipe, history>>

SendGivesUp ==
  /\ reader = "send" /\ SendCancelled
  /\ ReaderExit
  /\ UNCHANGED <<sent, wire, expired, chan, handlerVars, clientVars, pipe, history>>

-----------------------------------------------------------------------------
(* The goroutine of the handler starts, with or without a first event.     *)
Begin ==
  /\ handler = "start"
  /\ \E pre \in Preamble :
       IF pre THEN handler' = "write" /\ writing' = Start
              ELSE handler' = "select" /\ UNCHANGED writing
  /\ UNCHANGED <<sent, wire, expired, readerVars, chan, closed, clientVars, pipe, history>>

(* The goroutine returns: cancel, then pw.Close.                           *)
HandlerExit ==
  /\ handler' = "exit" /\ writing' = None
  /\ expired' = TRUE
  /\ pipe' = IF pipe = "open" THEN "closedByWriter" ELSE pipe

(* A stream error ends the goroutine, the terminal event does not: it      *)
(* waits for the channel to be closed.                                     *)
Take ==
  /\ handler = "select" /\ chan # <<>>
  /\ chan' = Tail(chan)
  /\ LET item == Head(chan) IN
     \/ item = Error /\ HandlerExit
     \/ item \in Silent /\ UNCHANGED <<handlerVars, expired, pipe>>
     \/ /\ item \in (Chunks \ Silent) \cup {Done}
        /\ handler' = "write" /\ writing' = item
        /\ UNCHANGED <<expired, pipe>>
  /\ UNCHANGED <<sent, wire, readerVars, closed, clientVars, history>>

(* The channel is closed and empty, or r.Context() is done.                *)
Leave ==
  /\ handler = "select"
  /\ reqDone \/ (closed /\ chan = <<>>)
  /\ HandlerExit
  /\ UNCHANGED <<sent, wire, readerVars, chan, closed, clientVars, history>>

(* pw.Write fails once the reading side is closed.                         *)
WriteFails ==
  /\ handler = "write" /\ pipe = "closedByReader"
  /\ HandlerExit
  /\ UNCHANGED <<sent, wire, readerVars, chan, closed, clientVars, history>>

-----------------------------------------------------------------------------
(* streamCopyWithFlush reads the pipe, which completes the Write; writing  *)
(* to a client that left fails, and the pipe is closed.                    *)
Copy ==
  /\ handler = "write" /\ pipe = "open"
  /\ handler' = "select" /\ writing' = None
  /\ IF client = "reading"
       THEN /\ delivered' = IF writing \in Chunks THEN writing ELSE delivered
            /\ complete' = (complete \/ writing = Done)
            /\ UNCHANGED pipe
       ELSE pipe' = "closedByReader" /\ UNCHANGED history
  /\ UNCHANGED <<sent, wire, expired, readerVars, chan, closed, clientVars>>

(* The client disconnects; the server may notice it and cancel r.Context().*)
ClientLeaves ==
  /\ client = "reading"
  /\ client' = "gone" /\ reqDone' \in BOOLEAN
  /\ UNCHANGED <<sent, wire, expired, readerVars, chan, closed, handlerVars, pipe, history>>

(* The 30 minutes of the context are over.                                 *)
Expire ==
  /\ ~expired
  /\ expired' = TRUE
  /\ UNCHANGED <<sent, wire, readerVars, chan, closed, handlerVars, clientVars, pipe, history>>

-----------------------------------------------------------------------------
Reader  == ScanCancelled \/ SendChunk \/ SendGivesUp
Handler == Begin \/ Take \/ Leave \/ WriteFails

PipelineNext ==
  \/ ScanChunk \/ ScanEnd \/ ScanError
  \/ Reader \/ Handler \/ Copy \/ ClientLeaves \/ Expire

-----------------------------------------------------------------------------
(* The pipeline implements EventStream: what the client receives is the    *)
(* provider's chunks without loss, repetition or reordering, and the       *)
(* terminal event comes last and only when the provider ended its stream,  *)
(* whichever branch the selects take and whenever the context is cut.      *)
Promise == INSTANCE EventStream WITH ended <- (wire = "over")

ImplementsEventStream == Promise!StreamSpec

=============================================================================
