--------------------------- MODULE StreamTranslate ---------------------------
(***************************************************************************)
(* A stream of an OpenAI-style provider on its way to the client: the      *)
(* lines of the upstream, the chunks processStream makes of them, the      *)
(* StreamState of the request and the events TranslateStreamChunk emits in *)
(* the client's format.  Who waits for whom is the matter of               *)
(* StreamPipeline; this module is about what the client can put together.  *)
(*                                                                         *)
(* A piece of text or of a call's arguments is named by the number of the  *)
(* line that brought it.                                                   *)
(***************************************************************************)
EXTENDS Integers, Sequences, FiniteSets, SequencesExt

CONSTANTS
  Formats,   \* the clients': "openai", "anthropic", "gemini"
  MaxLines,  \* bound: lines of the upstream
  MaxCalls,  \* bound: tool calls in one answer
  Finishes   \* the finish_reason values of the upstream

ASSUME TranslateAssumption ==
  /\ Formats \subseteq {"openai", "anthropic", "gemini"}
  /\ MaxLines \in Nat /\ MaxCalls \in Nat

VARIABLES
  format, \* the client's format
  sent,   \* history: the upstream's lines
  state,  \* translator.StreamState
  out,    \* the events written to the client
  ended   \* "no", "done" ([DONE] or the end of the body), "broken"

vars == <<format, sent, state, out, ended>>

(* A fragment of tool_calls: the first of its call carries id and name.    *)
Fragments == [index : 0 .. MaxCalls - 1, first : BOOLEAN, args : BOOLEAN]

NewStreamState ==
  [toolCallID |-> -1, toolCallIndex |-> 0, textBlockStarted |-> FALSE,
   functionCall |-> -1, functionCallArgs |-> <<>>]

Init ==
  /\ format \in Formats
  /\ sent = <<>> /\ state = NewStreamState /\ out = <<>> /\ ended = "no"

-----------------------------------------------------------------------------
(* What the upstream says.                                                 *)
Carries(tools, k) == \E i \in DOMAIN tools : tools[i].index = k /\ tools[i].args
SaidText    == {n \in DOMAIN sent : sent[n].text}
SaidArgs(k) == {n \in DOMAIN sent : Carries(sent[n].tools, k)}
Started     == {k \in 0 .. MaxCalls - 1 :
                  \E n \in 1 .. Len(sent) : \E i \in 1 .. Len(sent[n].tools) :
                    sent[n].tools[i].index = k}

(* A call starts before its arguments go on; calls may interleave.         *)
Legal(f, started) ==
  IF f.first THEN f.index \notin started /\ \A k \in 0 .. f.index - 1 : k \in started
             ELSE f.index \in started /\ f.args

ToolLists ==
  {<<>>} \cup {<<f>> : f \in {x \in Fragments : Legal(x, Started)}}
  \cup {<<p[1], p[2]>> : p \in {q \in Fragments \X Fragments :
          /\ q[1].index # q[2].index /\ Legal(q[1], Started)
          /\ Legal(q[2], Started \cup {q[1].index})}}

NextLines ==
  {l \in [text : BOOLEAN, tools : ToolLists, finish : Finishes \cup {""}] :
     l.finish # "" => ~l.text /\ l.tools = <<>>}

-----------------------------------------------------------------------------
(* The translators: a chunk and the state give the events and the state.   *)
Result(st, events) == [state |-> st, events |-> events]

(* openai_to_openai.go                                                     *)
OpenAIChunk(c, n) ==
  Result(state, <<[type |-> "chunk", text |-> c.text, tools |-> c.tools, line |-> n]>>)

(* The Done chunk of processStream carries no FinishReason.                *)
DoneFinishReason == ""
OpenAIDone ==
  Result(state, <<[type |-> "final", finish |-> IF DoneFinishReason = "" THEN "stop" ELSE DoneFinishReason],
                  [type |-> "[DONE]"]>>)

(* anthropic_to_openai.go                                                  *)
Start(i, kind)    == [type |-> "content_block_start", index |-> i, kind |-> kind]
Delta(i, kind, n) == [type |-> "content_block_delta", index |-> i, kind |-> kind, line |-> n]
Stop(i)           == [type |-> "content_block_stop", index |-> i]

AnthropicFragment(acc, f, n) ==
  LET idx == acc.state.toolCallIndex
      st  == IF f.first THEN [acc.state EXCEPT !.toolCallID = f.index, !.toolCallIndex = idx + 1]
                        ELSE acc.state
  IN  Result(st, acc.events \o (IF f.first THEN <<Start(idx, "tool")>> ELSE <<>>)
                            \o (IF f.args THEN <<Delta(idx, "tool", n)>> ELSE <<>>))

AnthropicTools(c, n) ==
  LET close == IF state.textBlockStarted /\ state.toolCallID = -1 THEN <<Stop(0)>> ELSE <<>>
  IN  FoldLeft(LAMBDA acc, f : AnthropicFragment(acc, f, n), Result(state, close), c.tools)

AnthropicTextUnopened(n) ==   \* mutant: the block of the text is not started
  Result([state EXCEPT !.textBlockStarted = TRUE], <<Delta(0, "text", n)>>)

AnthropicText(n) ==
  Result([state EXCEPT !.textBlockStarted = TRUE],
         (IF state.textBlockStarted THEN <<>> ELSE <<Start(0, "text")>>) \o <<Delta(0, "text", n)>>)

AnthropicChunk(c, n) ==
  IF c.tools # <<>> THEN AnthropicTools(c, n)
  ELSE IF c.text THEN AnthropicText(n) ELSE Result(state, <<>>)

AnthropicDone ==
  Result(state, (IF state.toolCallID # -1 \/ state.textBlockStarted THEN <<Stop(0)>> ELSE <<>>)
                \o <<[type |-> "message_delta"], [type |-> "message_stop"]>>)

(* gemini_to_openai.go                                                     *)
GeminiText(n) == <<[type |-> "text", line |-> n]>>

GeminiReplace(st, f, n) ==   \* mutant: a later fragment replaces the arguments
  [st EXCEPT !.functionCall = IF f.first THEN f.index ELSE @,
             !.functionCallArgs = IF f.args THEN <<n>> ELSE @]

GeminiFragment(st, f, n) ==
  LET args == IF f.args THEN <<n>> ELSE <<>>
  IN  IF f.first
        THEN [st EXCEPT !.functionCall = f.index, !.functionCallArgs = args]
        ELSE [st EXCEPT !.functionCallArgs = @ \o args]

GeminiChunk(c, n) ==
  IF c.tools # <<>>
    THEN Result(FoldLeft(LAMBDA st, f : GeminiFragment(st, f, n), state, c.tools), <<>>)
  ELSE Result(state, IF c.text THEN GeminiText(n) ELSE <<>>)

GeminiDone ==
  Result(state, <<[type |-> "STOP", call |-> state.functionCall, args |-> state.functionCallArgs]>>)

TranslateStreamChunk(c, n) ==
  CASE format = "openai"    -> OpenAIChunk(c, n)
    [] format = "anthropic" -> AnthropicChunk(c, n)
    [] format = "gemini"    -> GeminiChunk(c, n)

TranslateDone ==
  CASE format = "openai"    -> OpenAIDone
    [] format = "anthropic" -> AnthropicDone
    [] format = "gemini"    -> GeminiDone

-----------------------------------------------------------------------------
Emit(result) == state' = result.state /\ out' = out \o result.events

(* processStream parses a line with a choice; the handler translates it.   *)
Line(c) ==
  /\ ended = "no" /\ Len(sent) < MaxLines
  /\ sent' = Append(sent, c) /\ Emit(TranslateStreamChunk(c, Len(sent) + 1))
  /\ UNCHANGED <<format, ended>>

(* [DONE], or the end of the body without it.                              *)
Done == ended = "no" /\ ended' = "done" /\ Emit(TranslateDone) /\ UNCHANGED <<format, sent>>

BreakAsDone == Emit(TranslateDone)   \* mutant: a broken stream ends like a whole one

(* On chunk.Error the handler writes nothing more.                         *)
AfterError == UNCHANGED <<state, out>>

(* The scanner reports an error.                                           *)
Break == ended = "no" /\ ended' = "broken" /\ AfterError /\ UNCHANGED <<format, sent>>

Next == (\E c \in NextLines : Line(c)) \/ Done \/ Break
Spec == Init /\ [][Next]_vars

-----------------------------------------------------------------------------
(* What the client puts together.                                          *)
IsText(e) == CASE e.type = "chunk" -> e.text
               [] e.type = "content_block_delta" -> e.kind = "text"
               [] OTHER -> e.type = "text"

(* The text block the i-th event speaks of is open at that event.          *)
InTextBlock(i) ==
  \E s \in 1 .. i - 1 :
    /\ out[s] = Start(out[i].index, "text")
    /\ \A t \in s + 1 .. i - 1 :
         out[t].type \in {"content_block_start", "content_block_stop"} => out[t].index # out[i].index

(* The text the client has: a delta counts inside its block only.          *)
TextEvents ==
  {i \in DOMAIN out : IsText(out[i]) /\ (out[i].type = "content_block_delta" => InTextBlock(i))}
ArgsEvents(k) == {i \in DOMAIN out : out[i].type = "chunk" /\ Carries(out[i].tools, k)}

(* The events at these places bring the given lines, in order, each once;  *)
(* a sequence lists them so.                                               *)
Brings(places, lines) ==
  /\ {out[i].line : i \in places} = lines
  /\ \A i, j \in places : i < j => out[i].line < out[j].line
InOrder(args, lines) ==
  /\ Range(args) = lines
  /\ \A i, j \in DOMAIN args : i < j => args[i] < args[j]

IsFinal(e) == e.type \in {"[DONE]", "message_stop", "STOP"}

(* The client has the text of the upstream, in order, each piece once, and *)
(* an Anthropic client has it in an open block of text.  The Gemini        *)
(* translator keeps it when no line brings text and a call at once, the    *)
(* Anthropic one when all text comes before the first call: behind a call  *)
(* it writes to block 0, stopped or the call's own.                        *)
Unmixed == \A n \in 1 .. Len(sent) : ~(sent[n].text /\ sent[n].tools # <<>>)
TextBeforeCalls == \A n, m \in 1 .. Len(sent) : sent[n].text /\ sent[m].tools # <<>> => n < m
TextKept ==
  CASE format = "openai"    -> TRUE
    [] format = "gemini"    -> Unmixed
    [] format = "anthropic" -> TextBeforeCalls
TextPreserved == TextKept => Brings(TextEvents, SaidText)

(* A finished answer has every call of the upstream, each with its own     *)
(* arguments.                                                              *)
GotCall(k) ==
  IF format = "openai" THEN Brings(ArgsEvents(k), SaidArgs(k))
  ELSE \E i \in DOMAIN out :
         out[i].type = "STOP" /\ out[i].call = k /\ InOrder(out[i].args, SaidArgs(k))

(* An OpenAI client gets all calls, interleaved or not; a Gemini client    *)
(* the one of an answer with a single call, assembled from its fragments.  *)
CallsPreserved ==
  ended = "done" /\ (format = "openai" \/ (format = "gemini" /\ Cardinality(Started) = 1))
    => \A k \in Started : GotCall(k)

(* Parallel calls do not merge (the comment of provider.ToolCall).         *)
ParallelCallsPreserved ==
  ended = "done" /\ format = "gemini" => \A k \in Started : GotCall(k)

(* The client is told that the answer is complete exactly when the         *)
(* upstream's ended, and it is the last thing it is told.                  *)
CompleteOnlyAtEnd ==
  \A i \in 1 .. Len(out) : IsFinal(out[i]) => i = Len(out) /\ ended = "done"
EndIsTold == ended = "done" => out # <<>> /\ IsFinal(out[Len(out)])
CompletionTold == CompleteOnlyAtEnd /\ EndIsTold
=============================================================================
