--------------------------- MODULE GoServerProofs ---------------------------
(***************************************************************************)
(* Theorems about GoServer for any number of chunks, any channel, any      *)
(* choice of chunks that translate to nothing, any number of requests,     *)
(* attempts and ticks.  The three kinds of exchange share no variable:     *)
(* each has an inductive invariant of its own, and a step of the server is *)
(* a step of one of them or changes none.                                  *)
(***************************************************************************)
EXTENDS GoServer, SequenceTheorems, FiniteSetTheorems, TLAPS

-----------------------------------------------------------------------------
(* The pipeline of a translated stream implements EventStream.  A chunk on *)
(* its way is with the reader, in the channel or with the handler's        *)
(* goroutine, which may also write message_start.  The argument: what is   *)
(* on its way is consecutive up to the newest (OrderInv), its first item   *)
(* is what the client is to get next (FrontInv), and nothing is behind the *)
(* terminal event (CompleteInv).                                           *)

Items   == Chunks \cup {Done, Error}
Carried == writing \notin {None, Start}

PipelineType ==
  /\ sent \in 0 .. MaxChunks /\ delivered \in 0 .. sent /\ complete \in BOOLEAN
  /\ wire \in {"open", "over", "broken"} /\ pipe \in {"open", "closedByWriter", "closedByReader"}
  /\ reader \in {"scan", "send", "exit"} /\ last \in BOOLEAN
  /\ outgoing \in Items \cup {None} /\ (reader = "send" <=> outgoing # None)
  /\ chan \in Seq(Items)
  /\ handler \in {"start", "select", "write", "exit"}
  /\ writing \in (Chunks \ Silent) \cup {Done, Start, None}
  /\ handler = "write" <=> writing # None

(* The item y may be the one behind x.                                     *)
Follows(x, y) ==
  /\ x \in Chunks
  /\ y \in Chunks => y = x + 1
  /\ y = Done => x = sent

(* The items on their way are consecutive, also across the places they are *)
(* in, and the newest is the last one sent unless the reader gave it up.   *)
OrderInv ==
  /\ \A i \in 1 .. Len(chan) - 1 : Follows(chan[i], chan[i + 1])
  /\ chan # <<>> /\ Carried => Follows(writing, chan[1])
  /\ reader = "send" /\ chan # <<>> => Follows(chan[Len(chan)], outgoing)
  /\ reader = "send" /\ chan = <<>> /\ Carried => Follows(writing, outgoing)
  /\ reader = "scan" /\ chan # <<>> => chan[Len(chan)] = sent
  /\ reader = "scan" /\ chan = <<>> /\ Carried => writing = sent
  /\ reader = "scan" \/ outgoing \in Chunks => wire = "open"
  /\ outgoing \in Chunks => outgoing = sent /\ ~last
  /\ outgoing \in {Done, Error} => last
  /\ writing \in Chunks => writing <= sent
  /\ \A i \in 1 .. Len(chan) : chan[i] \in Chunks => chan[i] <= sent
  /\ outgoing = Done \/ writing = Done \/ (\E i \in 1 .. Len(chan) : chan[i] = Done)
       => wire = "over"

(* The client may get x next: it has every event of the chunks before x.   *)
Due(x) ==
  /\ x \in Chunks => delivered < x /\ Promise!Audible(delivered, x - 1) = {}
  /\ x = Done => Promise!Audible(delivered, sent) = {}

(* While the pipe is open, the first item on its way is due.               *)
FrontInv ==
  pipe = "open" =>
    IF Carried THEN Due(writing)
    ELSE IF chan # <<>> THEN Due(chan[1])
    ELSE IF reader = "send" THEN Due(outgoing)
    ELSE reader = "scan" => Promise!Audible(delivered, sent) = {}

(* Nothing is on its way behind the terminal event.                        *)
CompleteInv == complete => reader = "exit" /\ chan = <<>> /\ ~Carried

PipelineInv == PipelineType /\ OrderInv /\ FrontInv /\ CompleteInv

LEMMA AudibleFacts ==
  ASSUME NEW n \in Nat, NEW m \in Nat
  PROVE  /\ m <= n => Promise!Audible(n, m) = {}
         /\ m + 1 \in Silent /\ Promise!Audible(n, m) = {} => Promise!Audible(n, m + 1) = {}
BY DEF Promise!Audible

LEMMA ItemFacts ==
  /\ Chunks \subseteq Nat /\ Silent \subseteq Chunks
  /\ Done \notin Chunks /\ Error \notin Chunks /\ Start \notin Items /\ None \notin Items
  /\ Done # Error /\ Done # None /\ Start # None
BY PipelineAssumption DEF Chunks, Items

LEMMA PipelineInitInv == PipelineInit => PipelineInv
<1> SUFFICES ASSUME PipelineInit PROVE PipelineInv
  OBVIOUS
<1> USE ItemFacts, PipelineAssumption DEF PipelineInit, Carried
<1>1. PipelineType
  <2>1. 0 \in 0 .. MaxChunks /\ 0 \in 0 .. 0 /\ <<>> \in Seq(Items)
    OBVIOUS
  <2> QED
    BY <2>1 DEF PipelineType
<1>2. OrderInv
  BY DEF OrderInv, Items
<1>3. FrontInv
  BY DEF FrontInv, Promise!Audible
<1>4. CompleteInv
  BY DEF CompleteInv
<1> QED
  BY <1>1, <1>2, <1>3, <1>4 DEF PipelineInv

(* The context and the client's side of the connection play no part.       *)
LEMMA PipelineUnchanged ==
  ASSUME PipelineInv,
         UNCHANGED <<sent, wire, readerVars, chan, handlerVars, pipe, history>>
  PROVE  PipelineInv'
<1> USE DEF readerVars, handlerVars, history
<1>1. PipelineType'
  BY DEF PipelineInv, PipelineType, Chunks, Items
<1>2. OrderInv'
  BY DEF PipelineInv, OrderInv, Follows, Carried, Chunks
<1>3. FrontInv' /\ CompleteInv'
  BY DEF PipelineInv, FrontInv, CompleteInv, Due, Carried, Chunks, Promise!Audible
<1> QED
  BY <1>1, <1>2, <1>3 DEF PipelineInv

(* The reader scans: the item behind all others is the next, or the last.  *)
LEMMA ReaderScans ==
  ASSUME PipelineInv, ScanChunk \/ ScanEnd \/ ScanError
  PROVE  PipelineInv'
<1> USE ItemFacts, PipelineAssumption DEF PipelineInv, handlerVars, clientVars, history,
        ScanChunk, ScanEnd, ScanError, FailureItem, Scanned, Offer
<1>0. /\ reader = "scan" /\ reader' = "send" /\ wire = "open"
      /\ UNCHANGED <<chan, handler, writing, pipe, delivered, complete>>
      /\ \/ sent' = sent + 1 /\ sent < MaxChunks /\ outgoing' = sent' /\ ~last' /\ wire' = "open"
         \/ sent' = sent /\ outgoing' = Done /\ last' /\ wire' = "over"
         \/ sent' = sent /\ outgoing' = Error /\ last' /\ wire' = "broken"
      /\ last' \in BOOLEAN
  OBVIOUS
<1>1. sent \in Nat /\ chan \in Seq(Items) /\ Len(chan) \in Nat /\ delivered \in 0 .. sent
  BY DEF PipelineType
<1>2. PipelineType'
  BY <1>0, <1>1 DEF PipelineType, Items, Chunks
<1>3. outgoing' \in Items /\ sent' \in {sent, sent + 1}
  BY <1>0, <1>1 DEF Items, Chunks
<1>4. /\ outgoing # Done /\ writing # Done
      /\ \A i \in 1 .. Len(chan) : chan[i] # Done
  BY <1>0 DEF OrderInv
<1>5. OrderInv'
  <2>1. sent \in Chunks \/ sent = 0
    BY <1>1 DEF PipelineType, Chunks
  <2>2. \A i \in 1 .. Len(chan) : chan[i] \in Items
    BY <1>1
  <2>3. /\ chan # <<>> => chan[Len(chan)] = sent /\ Len(chan) \in 1 .. Len(chan)
        /\ chan = <<>> /\ Carried => writing = sent
    BY <1>0, <1>1 DEF OrderInv
  <2>4. \A i \in 1 .. Len(chan) - 1 : Follows(chan[i], chan[i + 1])'
    BY <1>0, <1>1, <1>4 DEF OrderInv, Follows
  <2>5. chan # <<>> /\ Carried => Follows(writing, chan[1])'
    BY <1>0, <1>1, <1>4 DEF OrderInv, Follows
  <2>6. /\ chan # <<>> => Follows(chan[Len(chan)], outgoing)'
        /\ chan = <<>> /\ Carried => Follows(writing, outgoing)'
    <3>1. /\ chan # <<>> => sent \in Chunks
          /\ chan = <<>> /\ Carried => sent \in Chunks
      <4>1. chan # <<>> => chan[Len(chan)] \in Items
        BY <2>2, <2>3
      <4>2. Carried => writing \in Items
        BY DEF PipelineType, Carried, Items
      <4> QED
        BY <1>1, <2>3, <4>1, <4>2 DEF Items
    <3>2. (outgoing' \in Chunks => outgoing' = sent + 1) /\ (outgoing' = Done => sent' = sent)
      BY <1>0, <1>1 DEF Chunks
    <3> QED
      BY <1>0, <2>3, <3>1, <3>2 DEF Follows
  <2>7. /\ writing \in Chunks => writing <= sent'
        /\ \A i \in 1 .. Len(chan) : chan[i] \in Chunks => chan[i] <= sent'
    BY <1>0, <1>1 DEF OrderInv, Chunks
  <2> QED
    BY <1>0, <1>1, <1>4, <2>4, <2>5, <2>6, <2>7 DEF OrderInv, Carried, Chunks
<1>6. FrontInv'
  BY <1>0, <1>1, <1>4 DEF FrontInv, Due, Carried, Items, Chunks, Promise!Audible
<1>7. CompleteInv'
  BY <1>0 DEF CompleteInv
<1> QED
  BY <1>2, <1>5, <1>6, <1>7

(* The reader leaves with an item in hand or without: the items in the     *)
(* channel stay as they are.                                               *)
LEMMA ReaderLeaves ==
  ASSUME PipelineInv, ScanCancelled \/ SendGivesUp
  PROVE  PipelineInv'
<1> USE ItemFacts DEF PipelineInv, handlerVars, clientVars, history
<1>0. /\ reader' = "exit" /\ outgoing' = None /\ last' = FALSE
      /\ UNCHANGED <<sent, wire, chan, handler, writing, pipe, delivered, complete>>
  BY DEF ScanCancelled, SendGivesUp, ReaderExit
<1>1. PipelineType'
  BY <1>0 DEF PipelineType, Items, Chunks
<1>2. OrderInv'
  BY <1>0 DEF OrderInv, Follows, Carried, Items, Chunks
<1>3. FrontInv'
  BY <1>0 DEF FrontInv, Due, Carried, Chunks, Promise!Audible
<1>4. CompleteInv'
  BY <1>0 DEF CompleteInv, Carried
<1> QED
  BY <1>1, <1>2, <1>3, <1>4

(* The item in the reader's hand becomes the last of the channel.          *)
LEMMA ReaderSends ==
  ASSUME PipelineInv, SendChunk
  PROVE  PipelineInv'
<1> USE ItemFacts DEF PipelineInv, handlerVars, clientVars, history
<1>0. /\ reader = "send" /\ chan' = Append(chan, outgoing)
      /\ reader' = (IF last THEN "exit" ELSE "scan")
      /\ outgoing' = None /\ last' \in BOOLEAN
      /\ UNCHANGED <<sent, wire, handler, writing, pipe, delivered, complete>>
  BY DEF SendChunk, ReaderExit, PipelineType
<1>1. /\ chan \in Seq(Items) /\ Len(chan) \in Nat /\ outgoing \in Items
      /\ chan' \in Seq(Items) /\ Len(chan') = Len(chan) + 1
      /\ \A i \in 1 .. Len(chan) : chan'[i] = chan[i]
      /\ chan'[Len(chan')] = outgoing /\ chan' # <<>>
      /\ chan = <<>> => chan'[1] = outgoing
      /\ chan # <<>> => chan'[1] = chan[1] /\ Len(chan) \in 1 .. Len(chan)
  BY <1>0 DEF PipelineType
<1>2. PipelineType'
  BY <1>0, <1>1 DEF PipelineType, Items, Chunks
<1>3. OrderInv'
  <2>1. ASSUME NEW i \in 1 .. Len(chan') - 1 PROVE Follows(chan[i], chan[i + 1])'
    <3>1. CASE i < Len(chan)
      BY <1>0, <1>1, <3>1 DEF OrderInv, Follows
    <3>2. CASE i = Len(chan)
      BY <1>0, <1>1, <3>2 DEF OrderInv, Follows
    <3> QED
      BY <1>1, <3>1, <3>2
  <2>2. Carried' => Follows(writing, chan[1])'
    BY <1>0, <1>1 DEF OrderInv, Follows, Carried
  <2>3. reader' = "scan" => chan'[Len(chan')] = sent' /\ wire' = "open"
    <3>1. reader' = "scan" => outgoing \in Chunks
      BY <1>0, <1>1 DEF OrderInv, Items
    <3>2. reader' = "scan" => wire = "open"
      BY <3>1 DEF OrderInv
    <3> QED
      BY <1>0, <1>1, <3>1, <3>2 DEF OrderInv
  <2>4. \A i \in 1 .. Len(chan') : chan'[i] \in Chunks => chan'[i] <= sent'
    BY <1>0, <1>1 DEF OrderInv, PipelineType, Chunks
  <2>5. (\E i \in 1 .. Len(chan') : chan'[i] = Done) \/ writing' = Done => wire' = "over"
    BY <1>0, <1>1 DEF OrderInv
  <2> QED
    BY <1>0, <1>1, <2>1, <2>2, <2>3, <2>4, <2>5 DEF OrderInv, Items, Chunks
<1>4. FrontInv'
  BY <1>0, <1>1 DEF FrontInv, Due, Carried, Chunks, Promise!Audible
<1>5. CompleteInv'
  BY <1>0 DEF CompleteInv
<1> QED
  BY <1>2, <1>3, <1>4, <1>5

(* The handler's goroutine starts: with message_start, or with nothing.    *)
LEMMA HandlerBegins ==
  ASSUME PipelineInv, Begin
  PROVE  PipelineInv'
<1> USE ItemFacts DEF PipelineInv, readerVars, clientVars, history
<1>0. /\ handler = "start" /\ ~Carried /\ ~Carried'
      /\ \/ handler' = "write" /\ writing' = Start
         \/ handler' = "select" /\ writing' = None
      /\ UNCHANGED <<sent, wire, reader, outgoing, last, chan, pipe, delivered, complete>>
  BY DEF Begin, PipelineType, Carried
<1>1. PipelineType'
  BY <1>0 DEF PipelineType, Items, Chunks
<1>2. OrderInv'
  BY <1>0 DEF OrderInv, Follows, Items, Chunks
<1>3. FrontInv' /\ CompleteInv'
  BY <1>0 DEF FrontInv, CompleteInv, Due, Chunks, Promise!Audible
<1> QED
  BY <1>1, <1>2, <1>3

(* It returns, and the pipe is open no longer.                             *)
LEMMA HandlerLeaves ==
  ASSUME PipelineInv, Leave \/ WriteFails
  PROVE  PipelineInv'
<1> USE ItemFacts DEF PipelineInv, readerVars, clientVars, history
<1>0. /\ handler' = "exit" /\ writing' = None /\ pipe' # "open" /\ ~Carried'
      /\ pipe' \in {pipe, "closedByWriter"}
      /\ UNCHANGED <<sent, wire, reader, outgoing, last, chan, delivered, complete>>
  BY DEF Leave, WriteFails, HandlerExit, Carried
<1>1. PipelineType'
  BY <1>0 DEF PipelineType, Items, Chunks
<1>2. OrderInv'
  BY <1>0 DEF OrderInv, Follows, Items, Chunks
<1>3. FrontInv' /\ CompleteInv'
  BY <1>0 DEF FrontInv, CompleteInv
<1> QED
  BY <1>1, <1>2, <1>3

(* It takes the first item of the channel.                                 *)
LEMMA HandlerTakes ==
  ASSUME PipelineInv, Take
  PROVE  PipelineInv'
<1> USE ItemFacts DEF PipelineInv, readerVars, handlerVars, clientVars, history
<1> DEFINE item == Head(chan)
<1>0. /\ handler = "select" /\ chan # <<>> /\ chan' = Tail(chan) /\ writing = None
      /\ UNCHANGED <<sent, wire, reader, outgoing, last, delivered, complete>>
      /\ \/ handler' = "exit" /\ writing' = None /\ pipe' # "open" /\ pipe' \in {pipe, "closedByWriter"}
         \/ item \in Silent /\ handler' = handler /\ writing' = None /\ pipe' = pipe
         \/ item \in (Chunks \ Silent) \cup {Done} /\ handler' = "write" /\ writing' = item /\ pipe' = pipe
  BY DEF Take, HandlerExit, PipelineType
<1>1. /\ chan \in Seq(Items) /\ Len(chan) \in Nat \ {0} /\ item = chan[1] /\ item \in Items
      /\ chan' \in Seq(Items) /\ Len(chan') = Len(chan) - 1
      /\ \A i \in 1 .. Len(chan') : chan'[i] = chan[i + 1]
      /\ chan' # <<>> => chan'[1] = chan[2] /\ chan'[Len(chan')] = chan[Len(chan)] /\ Len(chan) >= 2
      /\ chan' = <<>> => Len(chan) = 1
  <2>1. chan \in Seq(Items) /\ Len(chan) \in Nat \ {0} /\ item = chan[1]
    BY <1>0, EmptySeq DEF PipelineType
  <2>2. /\ item \in Items /\ chan' \in Seq(Items) /\ Len(chan') = Len(chan) - 1
        /\ \A i \in 1 .. Len(chan') : chan'[i] = chan[i + 1]
    BY <1>0, <2>1, HeadTailProperties
  <2>3. chan' # <<>> => Len(chan') \in Nat \ {0}
    BY <2>2, EmptySeq
  <2> QED
    BY <2>1, <2>2, <2>3
<1> HIDE DEF item
<1>2. PipelineType'
  BY <1>0, <1>1 DEF PipelineType, Items, Chunks
<1>3. OrderInv'
  BY <1>0, <1>1 DEF OrderInv, Follows, Carried, Items, Chunks
<1>4. FrontInv'
  <2>1. CASE item \notin Silent
    BY <1>0, <1>1, <2>1 DEF FrontInv, Due, Carried, Items, Chunks, Promise!Audible
  <2>2. CASE item \in Silent /\ pipe = "open"
    <3>1. item \in Chunks /\ delivered < item /\ Promise!Audible(delivered, item - 1) = {}
      BY <1>0, <1>1, <2>2 DEF FrontInv, Due, Carried
    <3>2. Promise!Audible(delivered, item) = {}
      BY <2>2, <3>1 DEF Promise!Audible, Chunks, PipelineType
    <3>3. \A y : Follows(item, y) => Due(y)
      BY <3>1, <3>2 DEF Follows, Due, Chunks, PipelineType
    <3>4. CASE chan' # <<>>
      <4>1. Follows(item, chan'[1])
        BY <1>1, <3>4 DEF OrderInv
      <4> QED
        BY <1>0, <2>2, <3>3, <3>4, <4>1 DEF FrontInv, Carried, Due, Promise!Audible
    <3>5. CASE chan' = <<>> /\ reader = "send"
      <4>1. Follows(item, outgoing)
        BY <1>0, <1>1, <3>5 DEF OrderInv
      <4> QED
        BY <1>0, <2>2, <3>3, <3>5, <4>1 DEF FrontInv, Carried, Due, Promise!Audible
    <3>6. CASE chan' = <<>> /\ reader = "scan"
      <4>1. item = sent
        BY <1>0, <1>1, <3>6 DEF OrderInv
      <4> QED
        BY <1>0, <2>2, <3>2, <3>6, <4>1 DEF FrontInv, Carried, Promise!Audible
    <3> QED
      BY <1>0, <2>2, <3>4, <3>5, <3>6 DEF FrontInv, Carried, PipelineType
  <2>3. CASE pipe # "open"
    BY <1>0, <2>3 DEF FrontInv
  <2> QED
    BY <2>1, <2>2, <2>3
<1>5. CompleteInv'
  BY <1>0 DEF CompleteInv
<1> QED
  BY <1>2, <1>3, <1>4, <1>5

(* What is written reaches the client, or the pipe is closed.              *)
LEMMA Copies ==
  ASSUME PipelineInv, Copy
  PROVE  PipelineInv'
<1> USE ItemFacts DEF PipelineInv, readerVars, clientVars, history
<1>0. /\ handler = "write" /\ pipe = "open" /\ writing # None
      /\ handler' = "select" /\ writing' = None /\ ~Carried'
      /\ UNCHANGED <<sent, wire, reader, outgoing, last, chan>>
      /\ \/ /\ delivered' = (IF writing \in Chunks THEN writing ELSE delivered)
            /\ complete' = (complete \/ writing = Done) /\ pipe' = pipe
         \/ pipe' = "closedByReader" /\ delivered' = delivered /\ complete' = complete
  BY DEF Copy, Carried, PipelineType
<1>1. PipelineType'
  <2>1. sent' \in 0 .. MaxChunks /\ delivered' \in 0 .. sent' /\ complete' \in BOOLEAN
    <3>1. writing \in Chunks => writing \in 0 .. sent
      BY DEF OrderInv, PipelineType, Chunks
    <3> QED
      BY <1>0, <3>1 DEF PipelineType
  <2> QED
    BY <1>0, <2>1 DEF PipelineType, Items, Chunks
<1>2. OrderInv'
  BY <1>0 DEF OrderInv, Follows, Items, Chunks
<1>3. FrontInv'
  BY <1>0 DEF FrontInv, OrderInv, PipelineType, Follows, Due, Carried, Items, Chunks, Promise!Audible
<1>4. CompleteInv'
  <2>1. sent # Done /\ Done \notin {None, Start}
    BY PipelineAssumption DEF PipelineType
  <2>2. writing = Done => reader = "exit" /\ chan = <<>>
    BY <2>1 DEF OrderInv, PipelineType, Follows, Carried
  <2> QED
    BY <1>0, <2>2 DEF CompleteInv, Carried
<1> QED
  BY <1>1, <1>2, <1>3, <1>4

(* Every step of the pipeline keeps the invariant.                         *)
LEMMA PipelineNextInv ==
  ASSUME PipelineInv, PipelineNext \/ UNCHANGED pipelineVars
  PROVE  PipelineInv'
<1>1. CASE ClientLeaves \/ Expire \/ UNCHANGED pipelineVars
  BY <1>1, PipelineUnchanged DEF ClientLeaves, Expire, pipelineVars
<1>2. CASE ScanChunk \/ ScanEnd \/ ScanError
  BY <1>2, ReaderScans
<1>3. CASE ScanCancelled \/ SendGivesUp
  BY <1>3, ReaderLeaves
<1>4. CASE Leave \/ WriteFails
  BY <1>4, HandlerLeaves
<1> QED
  BY <1>1, <1>2, <1>3, <1>4, ReaderSends, HandlerBegins, HandlerTakes, Copies
  DEF PipelineNext, Reader, Handler

-----------------------------------------------------------------------------
(* A step of the pipeline is a step of EventStream, or none.  Only the     *)
(* reader produces and ends the stream, only the copy delivers.            *)
LEMMA PipelineStepImplements ==
  ASSUME PipelineInv, PipelineNext \/ UNCHANGED pipelineVars
  PROVE  [Promise!StreamNext]_(Promise!streamVars)
<1> USE ItemFacts DEF PipelineInv, readerVars, handlerVars, clientVars, history, Promise!streamVars
<1>1. CASE ScanChunk
  BY <1>1 DEF ScanChunk, Scanned, Promise!StreamNext, Promise!Produce
<1>2. CASE ScanEnd
  BY <1>2 DEF ScanEnd, Scanned, Promise!StreamNext, Promise!End
<1>3. CASE ScanError
  BY <1>3 DEF ScanError, Scanned
<1>4. CASE Copy
  <2>1. CASE delivered' # delivered
    <3>1. writing \in Chunks \ Silent /\ delivered' = writing /\ pipe = "open" /\ Carried
      BY <1>4, <2>1 DEF Copy, PipelineType, Carried, Items
    <3>2. delivered < writing /\ writing <= sent /\ Promise!Audible(delivered, writing - 1) = {}
      BY <3>1 DEF FrontInv, OrderInv, Due
    <3>3. writing \in Promise!Audible(delivered, sent)
      BY <3>1, <3>2 DEF Promise!Audible, Chunks, PipelineType
    <3>4. ~complete /\ UNCHANGED <<sent, wire, complete>>
      <4>1. ~complete /\ writing # Done
        BY <3>1 DEF CompleteInv
      <4>2. complete' = (complete \/ writing = Done) /\ UNCHANGED <<sent, wire>>
        BY <1>4, <2>1 DEF Copy
      <4> QED
        BY <4>1, <4>2 DEF PipelineType
    <3> QED
      BY <3>1, <3>2, <3>3, <3>4 DEF Promise!StreamNext, Promise!Deliver
  <2>2. CASE delivered' = delivered /\ complete' # complete
    <3>1. writing = Done /\ complete' = TRUE /\ pipe = "open" /\ UNCHANGED <<sent, wire>>
      BY <1>4, <2>2 DEF Copy, PipelineType
    <3>2. wire = "over" /\ Promise!Audible(delivered, sent) = {}
      BY <3>1 DEF FrontInv, OrderInv, Due, Carried, Items
    <3> QED
      BY <2>2, <3>1, <3>2 DEF Promise!StreamNext, Promise!Complete
  <2>3. CASE UNCHANGED <<delivered, complete>>
    BY <1>4, <2>3 DEF Copy
  <2> QED
    BY <2>1, <2>2, <2>3
<1>5. CASE ScanCancelled \/ SendChunk \/ SendGivesUp
  BY <1>5 DEF ScanCancelled, SendChunk, SendGivesUp
<1>6. CASE Begin \/ Take \/ Leave \/ WriteFails
  BY <1>6 DEF Begin, Take, Leave, WriteFails
<1>7. CASE ClientLeaves \/ Expire \/ UNCHANGED pipelineVars
  BY <1>7 DEF ClientLeaves, Expire, pipelineVars
<1> QED
  BY <1>1, <1>2, <1>3, <1>4, <1>5, <1>6, <1>7 DEF PipelineNext, Reader, Handler

LEMMA PipelineInitImplements == PipelineInit => Promise!StreamInit
BY DEF PipelineInit, Promise!StreamInit

-----------------------------------------------------------------------------
(* What a step of the server may do to each kind of exchange.              *)
LEMMA StepOfServer ==
  ASSUME [Next]_vars
  PROVE  /\ PipelineNext \/ UNCHANGED pipelineVars
         /\ RetryNext \/ UNCHANGED retryVars
         /\ CacheNext \/ UNCHANGED cacheVars
<1>1. CASE Next
  BY <1>1 DEF Next, Accept, Signal, Exit, Streams, Passes, Lists
<1>2. CASE UNCHANGED vars
  BY <1>2 DEF vars
<1> QED
  BY <1>1, <1>2


(* The stream of an exchange is delivered as EventStream promises, also in *)
(* a server that a signal may stop at any moment.                          *)
THEOREM ImplementsEventStreamCorrect == Spec => ImplementsEventStream
<1>1. Init => PipelineInv /\ Promise!StreamInit
  BY PipelineInitInv, PipelineInitImplements DEF Init
<1>2. PipelineInv /\ [Next]_vars
        => PipelineInv' /\ [Promise!StreamNext]_(Promise!streamVars)
  BY StepOfServer, PipelineNextInv, PipelineStepImplements
<1> QED
  BY <1>1, <1>2, PTL DEF Spec, ImplementsEventStream, Promise!StreamSpec

-----------------------------------------------------------------------------
(* A request that is passed on.  The requests the upstream received are    *)
(* counted by the loop variable and by where the loop is.                  *)
RetryType ==
  /\ stage \in {"read", "send", "wait", "headers", "discard", "body", "backoff", "answered"}
  /\ size \in Nat /\ attempt \in 0 .. MaxRetries /\ seen \in Seq(Nat)
  /\ stage \in {"headers", "discard", "body"} => resp \in Responses

CountInv ==
  /\ stage = "read" => seen = <<>> /\ attempt = 0
  /\ stage \in {"send", "backoff"} => Len(seen) = attempt
  /\ stage \in {"wait", "headers", "discard", "body"} => Len(seen) = attempt + 1

RetryInv ==
  /\ RetryType /\ CountInv
  /\ answer # NoAnswer => stage = "answered"
  /\ stage = "body" => resp.status < 500
  /\ BufferedAnswerIsWhole /\ GivesUpOnlyAtLast

LEMMA RetryInitInv == RetryInit => RetryInv
BY RetryAssumption DEF RetryInit, RetryInv, RetryType, CountInv, NoAnswer,
   BufferedAnswerIsWhole, GivesUpOnlyAtLast

LEMMA RetryNextInv ==
  ASSUME RetryInv, RetryNext \/ UNCHANGED retryVars
  PROVE  RetryInv'
<1> USE RetryAssumption
<1>0. /\ stage # "answered" => answer = NoAnswer
      /\ NoAnswer.kind = "none" /\ BadGateway.kind = "502"
  BY DEF RetryInv, NoAnswer, BadGateway
<1>1. CASE ReadBody
  <2>1. size' \in Nat /\ Len(seen) = attempt
    BY <1>1 DEF ReadBody, RetryInv, CountInv
  <2> QED
    BY <1>0, <1>1, <2>1 DEF ReadBody, RetryInv, RetryType, CountInv, BufferedAnswerIsWhole, GivesUpOnlyAtLast
<1>10. CASE Backoff
  BY <1>0, <1>10 DEF Backoff, RetryInv, RetryType, CountInv, BufferedAnswerIsWhole, GivesUpOnlyAtLast
<1>2. CASE ReadBodyFails
  BY <1>0, <1>2 DEF ReadBodyFails, Answer, RetryInv, RetryType, CountInv, BufferedAnswerIsWhole, GivesUpOnlyAtLast
<1>3. CASE Send
  BY <1>0, <1>3 DEF Send, BodySent, Buffered, RetryInv, RetryType, CountInv, BufferedAnswerIsWhole, GivesUpOnlyAtLast
<1>4. ASSUME Retry, stage \in {"wait", "discard", "body"}, UNCHANGED <<streamRpc, size, seen, resp>>
      PROVE  RetryInv'
  BY <1>0, <1>4 DEF Retry, AttemptsLeft, Answer, RetryInv, RetryType, CountInv, BufferedAnswerIsWhole, GivesUpOnlyAtLast
<1>5. ASSUME NEW r \in Responses, RoundTripReturns(r) PROVE RetryInv'
  BY <1>0, <1>5 DEF RoundTripReturns, RetryInv, RetryType, CountInv, BufferedAnswerIsWhole, GivesUpOnlyAtLast
<1>6. CASE Headers
  <2>1. CASE IsLive
    BY <1>0, <1>6, <2>1 DEF Headers, Answer, RetryInv, RetryType, CountInv, BufferedAnswerIsWhole, GivesUpOnlyAtLast
  <2>2. CASE ~IsLive
    <3>1. resp.status \in Nat
      <4>1. resp \in Responses
        BY <1>6 DEF Headers, RetryInv, RetryType
      <4> QED
        BY <4>1 DEF Responses
    <3>2. stage' = "body" => resp.status < 500
      BY <1>6, <2>2, <3>1 DEF Headers
    <3> QED
      BY <1>0, <1>6, <2>2, <3>2 DEF Headers, RetryInv, RetryType, CountInv, BufferedAnswerIsWhole, GivesUpOnlyAtLast
  <2> QED
    BY <2>1, <2>2
<1>11. CASE Discard
  BY <1>4, <1>11 DEF Discard
<1>7. CASE ReadAll
  <2>1. CASE ~BrokeOff
    <3>1. resp.ends = "whole" /\ resp.status < 500
      BY <1>7, <2>1 DEF ReadAll, BrokeOff, RetryInv, RetryType, Responses
    <3> QED
      BY <1>0, <1>7, <2>1, <3>1
      DEF ReadAll, Answer, RetryInv, RetryType, CountInv, BufferedAnswerIsWhole, GivesUpOnlyAtLast
  <2> QED
    BY <1>4, <1>7, <2>1 DEF ReadAll
<1>8. CASE RoundTripFails
  BY <1>4, <1>8 DEF RoundTripFails
<1>9. CASE UNCHANGED retryVars
  BY <1>9 DEF retryVars, RetryInv, RetryType, CountInv, BufferedAnswerIsWhole, GivesUpOnlyAtLast
<1> QED
  BY <1>1, <1>2, <1>3, <1>5, <1>6, <1>7, <1>8, <1>9, <1>10, <1>11 DEF RetryNext

(* No answer that broke off or failed is passed on as a whole one ...      *)
THEOREM BufferedCorrect == Spec => []BufferedAnswerIsWhole
<1>1. Init => RetryInv
  BY RetryInitInv DEF Init
<1>2. RetryInv /\ [Next]_vars => RetryInv'
  BY StepOfServer, RetryNextInv
<1>3. RetryInv => BufferedAnswerIsWhole
  BY DEF RetryInv
<1> QED
  BY <1>1, <1>2, <1>3, PTL DEF Spec

(* ... and the client is told 502 behind the last attempt only, however    *)
(* many there are.                                                         *)
THEOREM GivesUpCorrect == Spec => []GivesUpOnlyAtLast
<1>1. Init => RetryInv
  BY RetryInitInv DEF Init
<1>2. RetryInv /\ [Next]_vars => RetryInv'
  BY StepOfServer, RetryNextInv
<1>3. RetryInv => GivesUpOnlyAtLast
  BY DEF RetryInv
<1> QED
  BY <1>1, <1>2, <1>3, PTL DEF Spec

-----------------------------------------------------------------------------
(* The model list.  What is fetched, cached or given is a list with a      *)
(* version, and no moment that is noted lies in the future.                *)
ModelLists == [version : Nat, kind : Kinds \cup {"none"}]

CacheType ==
  /\ now \in Nat /\ \E n \in Nat \ {0} : published \in [1 .. n -> Nat]
  /\ cache \in [body : ModelLists, header : ModelLists, at : Nat] /\ cache.at <= now
  /\ pc \in [Requests -> {"check", "fetching", "store", "failed", "done"}]
  /\ asked \in [Requests -> Nat] /\ got \in [Requests -> ModelLists]
  /\ given \in [Requests -> [kind : {"none", "cached", "502", "stale", "upstream"},
                             body : ModelLists, header : ModelLists, at : Nat]]
  /\ \A r \in Requests : asked[r] <= now /\ given[r].at <= now

(* A list that waits to be stored was not superseded when its request was  *)
(* sent, which is MaxFetch ticks ago at most; the cached one was not       *)
(* superseded MaxFetch ticks before it was stored.                         *)
AgeInv ==
  /\ \A r \in InFlight : now - asked[r] <= MaxFetch
  /\ \A r \in Requests : pc[r] = "store" => ~Superseded(got[r].version, asked[r])
  /\ cache.body # Nothing => ~Superseded(cache.body.version, cache.at - MaxFetch)
  /\ BoundedStaleness

CacheInv == CacheType /\ cache.header = cache.body /\ OneResponse /\ AgeInv

(* What was superseded before t was so before any later moment.            *)
LEMMA SupersededLater ==
  ASSUME CacheType, NEW v \in Nat, NEW t \in Int, NEW u \in Int, t <= u, Superseded(v, t)
  PROVE  Superseded(v, u)
BY DEF Superseded, CacheType

LEMMA CurrentIsLast ==
  ASSUME NEW n \in Nat \ {0}, published \in [1 .. n -> Nat]
  PROVE  Current = n
<1>1. DOMAIN published = 1 .. n
  OBVIOUS
<1> QED
  BY <1>1, FS_Interval DEF Current

LEMMA CacheInitInv == CacheInit => CacheInv
<1> SUFFICES ASSUME CacheInit PROVE CacheInv
  OBVIOUS
<1> USE CacheAssumption
<1>1. Nothing \in ModelLists /\ published \in [1 .. 1 -> Nat]
  BY DEF CacheInit, Nothing, ModelLists
<1>2. CacheType
  BY <1>1 DEF CacheInit, CacheType, NotGiven
<1>3. cache.header = cache.body /\ OneResponse
  BY DEF CacheInit, OneResponse, NotGiven
<1>4. AgeInv
  BY DEF CacheInit, AgeInv, InFlight, BoundedStaleness, NotGiven
<1> QED
  BY <1>2, <1>3, <1>4 DEF CacheInv

(* A client gets a body with its own header.                               *)
LEMMA GiftSound ==
  ASSUME CacheInv, NEW r \in Requests, NEW list \in ModelLists,
         NEW kind \in {"cached", "502", "stale", "upstream"}, Give(r, kind, list, list),
         kind = "cached" => ~Superseded(list.version, now - (TTL + MaxFetch)),
         UNCHANGED <<now, published, asked, got>>
  PROVE  /\ OneResponse' /\ BoundedStaleness'
         /\ given' \in [Requests -> [kind : {"none", "cached", "502", "stale", "upstream"},
                                     body : ModelLists, header : ModelLists, at : Nat]]
         /\ \A q \in Requests : given'[q].at <= now'
         /\ pc' \in [Requests -> {"check", "fetching", "store", "failed", "done"}]
         /\ \A q \in Requests : pc'[q] \in {pc[q], "done"}
<1> DEFINE g == [kind |-> kind, body |-> list, header |-> list, at |-> now]
<1>0. /\ given' = [given EXCEPT ![r] = g] /\ pc' = [pc EXCEPT ![r] = "done"]
      /\ now \in Nat /\ g.at = now /\ g.header = g.body /\ g.body = list /\ g.kind = kind
  BY DEF Give, CacheInv, CacheType
<1>1. \A q \in Requests : given'[q] = (IF q = r THEN g ELSE given[q])
  BY <1>0 DEF CacheInv, CacheType
<1>2. OneResponse'
  BY <1>0, <1>1 DEF CacheInv, OneResponse
<1>3. BoundedStaleness'
  BY <1>0, <1>1 DEF CacheInv, AgeInv, BoundedStaleness, Superseded
<1>4. \A q \in Requests : given'[q].at <= now'
  BY <1>0, <1>1 DEF CacheInv, CacheType
<1> QED
  BY <1>0, <1>2, <1>3, <1>4 DEF CacheInv, CacheType

(* An answer that leaves the cache as it is.                               *)
LEMMA GivesInv ==
  ASSUME CacheInv, NEW r \in Requests, NEW list \in ModelLists,
         NEW kind \in {"cached", "502", "stale", "upstream"}, Give(r, kind, list, list),
         kind = "cached" => ~Superseded(list.version, now - (TTL + MaxFetch)),
         UNCHANGED <<now, published, asked, got, cache>>
  PROVE  CacheInv'
<1>1. CacheType' /\ OneResponse' /\ BoundedStaleness'
  BY GiftSound DEF CacheInv, CacheType
<1>2. AgeInv'
  BY <1>1, GiftSound DEF CacheInv, AgeInv, InFlight, Superseded
<1> QED
  BY <1>1, <1>2 DEF CacheInv

LEMMA CacheNextInv ==
  ASSUME CacheInv, CacheNext \/ UNCHANGED cacheVars
  PROVE  CacheInv'
<1> USE CacheAssumption DEF CacheInv
<1>0. /\ MaxFetch \in Nat /\ TTL \in Nat /\ now \in Nat
      /\ cache.body \in ModelLists /\ cache.at \in Nat /\ cache.at <= now
      /\ Nothing \in ModelLists
  BY DEF CacheType, Nothing, ModelLists
<1>1. CASE Tick
  <2>1. CacheType'
    <3>1. /\ now' \in Nat /\ now <= now' /\ cache'.at <= now'
          /\ \A r \in Requests : asked[r] <= now' /\ given[r].at <= now'
      BY <1>0, <1>1 DEF Tick, CacheType
    <3>2. \E n \in Nat \ {0} : published' \in [1 .. n -> Nat]
      BY <1>1 DEF Tick, CacheType
    <3> QED
      BY <1>1, <3>1, <3>2 DEF Tick, CacheType
  <2>2. OneResponse' /\ cache'.header = cache'.body
    BY <1>1 DEF Tick, OneResponse
  <2>3. AgeInv'
    BY <1>0, <1>1 DEF Tick, CacheType, AgeInv, InFlight, Superseded, BoundedStaleness
  <2> QED
    BY <2>1, <2>2, <2>3
<1>2. CASE Publish
  <2>1. PICK n \in Nat \ {0} : published \in [1 .. n -> Nat]
    BY DEF CacheType
  <2>2. Current = n
    BY <2>1, CurrentIsLast
  <2>3. /\ n + 1 \in Nat \ {0} /\ published' \in [1 .. n + 1 -> Nat]
        /\ \A v \in 1 .. n : published'[v] = published[v]
        /\ published'[n + 1] = now
    BY <1>0, <1>2, <2>1, <2>2 DEF Publish
  <2>4. \A v \in Nat, t \in Int : t <= now /\ Superseded(v, t)' => Superseded(v, t)
    BY <1>0, <2>1, <2>3 DEF Superseded
  <2>5. CacheType'
    BY <1>2, <2>3 DEF Publish, CacheType
  <2>6. AgeInv'
    <3>1. \A r \in Requests : got[r].version \in Nat /\ asked[r] \in Int /\ asked[r] <= now
      BY DEF CacheType, ModelLists
    <3>2. cache.body.version \in Nat /\ cache.at - MaxFetch \in Int /\ cache.at - MaxFetch <= now
      BY <1>0 DEF ModelLists
    <3>3. \A r \in Requests : LET t == given[r].at - (TTL + MaxFetch) IN
            given[r].body.version \in Nat /\ t \in Int /\ t <= now
      BY <1>0 DEF CacheType, ModelLists
    <3>4. BoundedStaleness'
      BY <1>2, <2>4, <3>3 DEF Publish, AgeInv, BoundedStaleness
    <3> QED
      BY <1>2, <2>4, <3>1, <3>2, <3>4 DEF Publish, AgeInv, InFlight
  <2> QED
    BY <1>2, <2>5, <2>6 DEF Publish, OneResponse
<1>3. ASSUME NEW r \in Requests, CheckCache(r) PROVE CacheInv'
  <2>1. CASE Fresh
    <3>1. Give(r, "cached", cache.body, cache.body) /\ UNCHANGED <<now, published, asked, got, cache>>
      BY <1>3, <2>1 DEF CheckCache
    <3>2. ~Superseded(cache.body.version, now - (TTL + MaxFetch))
      <4>1. cache.body # Nothing /\ now - cache.at < TTL
        BY <2>1 DEF Fresh, Cached, Nothing
      <4>2. /\ now - (TTL + MaxFetch) <= cache.at - MaxFetch
            /\ now - (TTL + MaxFetch) \in Int /\ cache.at - MaxFetch \in Int
            /\ cache.body.version \in Nat
        BY <1>0, <4>1 DEF ModelLists
      <4> QED
        BY <4>1, <4>2, SupersededLater DEF AgeInv
    <3> QED
      BY <1>0, <3>1, <3>2, GivesInv
  <2>2. CASE ~Fresh
    <3>1. /\ pc' = [pc EXCEPT ![r] = "fetching"] /\ asked' = [asked EXCEPT ![r] = now]
          /\ UNCHANGED <<given, now, published, cache, got>>
      BY <1>3, <2>2 DEF CheckCache
    <3>2. CacheType'
      <4>1. asked' \in [Requests -> Nat] /\ \A q \in Requests : asked'[q] <= now'
        BY <1>0, <3>1 DEF CacheType
      <4>2. \E n \in Nat \ {0} : published' \in [1 .. n -> Nat]
        BY <3>1 DEF CacheType
      <4> QED
        BY <3>1, <4>1, <4>2 DEF CacheType
    <3>3. AgeInv'
      BY <1>0, <3>1 DEF CacheType, AgeInv, InFlight, Superseded, BoundedStaleness
    <3> QED
      BY <3>1, <3>2, <3>3 DEF OneResponse
  <2> QED
    BY <2>1, <2>2
<1>4. ASSUME NEW r \in Requests, NEW k \in Kinds, Fetched(r, k) PROVE CacheInv'
  <2>1. PICK n \in Nat \ {0} : published \in [1 .. n -> Nat]
    BY DEF CacheType
  <2>2. Current = n
    BY <2>1, CurrentIsLast
  <2> DEFINE l == [version |-> n, kind |-> k]
  <2>3. /\ pc[r] = "fetching" /\ pc' = [pc EXCEPT ![r] = "store"] /\ got' = [got EXCEPT ![r] = l]
        /\ l \in ModelLists /\ l.version = n
        /\ UNCHANGED <<now, published, cache, asked, given>>
    BY <1>4, <2>1, <2>2 DEF Fetched, ModelLists
  <2> HIDE DEF l
  <2>4. CacheType'
    BY <2>3 DEF CacheType
  <2>5. \A t : ~Superseded(n, t)'
    BY <2>1, <2>3 DEF Superseded
  <2>6. \A q \in Requests : got'[q] = (IF q = r THEN l ELSE got[q]) /\ pc'[q] = (IF q = r THEN "store" ELSE pc[q])
    BY <2>3 DEF CacheType
  <2>7. AgeInv'
    BY <2>3, <2>5, <2>6 DEF AgeInv, InFlight, Superseded, BoundedStaleness
  <2> QED
    BY <2>3, <2>4, <2>7 DEF OneResponse
<1>5. ASSUME NEW r \in Requests, FetchedNothing(r) PROVE CacheInv'
  BY <1>0, <1>5, GivesInv DEF FetchedNothing
<1>6. ASSUME NEW r \in Requests, FetchFails(r) PROVE CacheInv'
  <2>1. CacheType'
    BY <1>6 DEF FetchFails, CacheType
  <2>2. AgeInv'
    BY <1>6 DEF FetchFails, CacheType, AgeInv, InFlight, Superseded, BoundedStaleness
  <2> QED
    BY <1>6, <2>1, <2>2 DEF FetchFails, OneResponse
<1>7. ASSUME NEW r \in Requests, ServeStale(r) PROVE CacheInv'
  BY <1>0, <1>7, GivesInv DEF ServeStale
<1>8. ASSUME NEW r \in Requests, Store(r) PROVE CacheInv'
  <2>1. /\ cache' = [body |-> got[r], header |-> got[r], at |-> now] /\ got[r] \in ModelLists
        /\ Give(r, "upstream", got[r], got[r]) /\ UNCHANGED <<now, published, asked, got>>
    BY <1>8 DEF Store, HeaderOf, CacheType
  <2>2. CacheType' /\ OneResponse' /\ BoundedStaleness' /\ cache'.header = cache'.body
    <3>1. /\ cache' \in [body : ModelLists, header : ModelLists, at : Nat]
          /\ cache'.at <= now' /\ cache'.header = cache'.body
      BY <1>0, <2>1
    <3>2. \E n \in Nat \ {0} : published' \in [1 .. n -> Nat]
      BY <2>1 DEF CacheType
    <3> QED
      BY <2>1, <3>1, <3>2, GiftSound DEF CacheType
  <2>3. ~Superseded(got[r].version, now - MaxFetch)
    <3>1. ~Superseded(got[r].version, asked[r]) /\ now - asked[r] <= MaxFetch
      BY <1>8 DEF Store, AgeInv, InFlight
    <3>2. now - MaxFetch <= asked[r] /\ asked[r] \in Int /\ now - MaxFetch \in Int /\ got[r].version \in Nat
      BY <1>0, <3>1 DEF CacheType, ModelLists
    <3> QED
      BY <3>1, <3>2, SupersededLater
  <2>4. AgeInv'
    BY <2>1, <2>2, <2>3, GiftSound DEF AgeInv, InFlight, Superseded
  <2> QED
    BY <2>2, <2>4
<1>9. CASE UNCHANGED cacheVars
  BY <1>9 DEF cacheVars, CacheType, OneResponse, AgeInv, InFlight, Superseded, BoundedStaleness
<1> QED
  BY <1>1, <1>2, <1>3, <1>4, <1>5, <1>6, <1>7, <1>8, <1>9 DEF CacheNext

(* However many fetches overlap, header and body a client gets are of one  *)
(* response of the upstream ...                                            *)
THEOREM OneResponseCorrect == Spec => []OneResponse
<1>1. Init => CacheInv
  BY CacheInitInv DEF Init
<1>2. CacheInv /\ [Next]_vars => CacheInv'
  BY StepOfServer, CacheNextInv
<1>3. CacheInv => OneResponse
  BY DEF CacheInv
<1> QED
  BY <1>1, <1>2, <1>3, PTL DEF Spec

(* ... and what the cache answers was the upstream's list TTL + MaxFetch   *)
(* ticks ago at most, for every TTL and every bound on a fetch.            *)
THEOREM StalenessCorrect == Spec => []BoundedStaleness
<1>1. Init => CacheInv
  BY CacheInitInv DEF Init
<1>2. CacheInv /\ [Next]_vars => CacheInv'
  BY StepOfServer, CacheNextInv
<1>3. CacheInv => BoundedStaleness
  BY DEF CacheInv, AgeInv
<1> QED
  BY <1>1, <1>2, <1>3, PTL DEF Spec
=============================================================================
