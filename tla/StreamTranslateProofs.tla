----------------------- MODULE StreamTranslateProofs -----------------------
(***************************************************************************)
(* Theorems about StreamTranslate for streams of any length with any       *)
(* number of calls.  A chunk is translated to events that are final only   *)
(* at the end (LineEvents, DoneEvents) and that bring the chunk's text     *)
(* once, so a client's list of lines grows by the newest line, or not at   *)
(* all (BringsMore, BringsSame).                                           *)
(***************************************************************************)
EXTENDS StreamTranslate, FiniteSetTheorems, SequenceTheorems, TLAPS

Lines == [text : BOOLEAN, tools : Seq(Fragments), finish : Finishes \cup {""}]

IsSeq(s) == \E S : s \in Seq(S)

LEMMA SeqFacts ==
  ASSUME NEW s, IsSeq(s)
  PROVE  Len(s) \in Nat /\ DOMAIN s = 1 .. Len(s)
BY DEF IsSeq

LEMMA ConcatFacts ==
  ASSUME NEW s, NEW t, IsSeq(s), IsSeq(t)
  PROVE  /\ IsSeq(s \o t) /\ Len(s \o t) = Len(s) + Len(t)
         /\ \A i \in 1 .. Len(s) : (s \o t)[i] = s[i]
         /\ \A i \in 1 .. Len(t) : (s \o t)[Len(s) + i] = t[i]
         /\ \A i \in 1 .. Len(s \o t) :
              i \in 1 .. Len(s) \/ \E j \in 1 .. Len(t) : i = Len(s) + j
<1>1. PICK S, T : s \in Seq(S) /\ t \in Seq(T)
  BY DEF IsSeq
<1>2. s \in Seq(S \cup T) /\ t \in Seq(S \cup T)
  <2>1. s \in [1 .. Len(s) -> S] /\ t \in [1 .. Len(t) -> T] /\ Len(s) \in Nat /\ Len(t) \in Nat
    BY <1>1, LenProperties
  <2>2. s \in [1 .. Len(s) -> S \cup T] /\ t \in [1 .. Len(t) -> S \cup T]
    BY <2>1
  <2> QED
    BY <2>1, <2>2, SeqDef
<1>3. /\ s \o t \in Seq(S \cup T) /\ Len(s \o t) = Len(s) + Len(t)
      /\ \A i \in 1 .. Len(s) + Len(t) : (s \o t)[i] = IF i <= Len(s) THEN s[i] ELSE t[i - Len(s)]
  BY <1>2, ConcatProperties
<1>4. Len(s) \in Nat /\ Len(t) \in Nat
  BY <1>2, LenProperties
<1>5. \A i \in 1 .. Len(t) : Len(s) + i \in 1 .. Len(s) + Len(t) /\ ~(Len(s) + i <= Len(s))
                             /\ Len(s) + i - Len(s) = i
  BY <1>4
<1>6. \A i \in 1 .. Len(s) + Len(t) : i \in 1 .. Len(s) \/ (i - Len(s) \in 1 .. Len(t) /\ i = Len(s) + (i - Len(s)))
  BY <1>4
<1> QED
  BY <1>3, <1>4, <1>5, <1>6 DEF IsSeq

LEMMA SmallSeqs ==
  /\ IsSeq(<<>>) /\ Len(<<>>) = 0
  /\ \A x : IsSeq(<<x>>) /\ Len(<<x>>) = 1 /\ <<x>>[1] = x
<1>1. \A x : <<x>> \in Seq({x}) /\ Len(<<x>>) = 1 /\ <<x>>[1] = x
  OBVIOUS
<1>2. <<>> \in Seq({}) /\ Len(<<>>) = 0
  BY EmptySeq
<1>3. IsSeq(<<>>) /\ \A x : IsSeq(<<x>>)
  BY <1>1, <1>2 DEF IsSeq
<1> QED
  BY <1>1, <1>2, <1>3

-----------------------------------------------------------------------------
(* The lines at the places of s are the given ones, in order.              *)
Lists(s, places, lines) ==
  /\ {s[i].line : i \in places} = lines
  /\ \A i, j \in places : i < j => s[i].line < s[j].line

LEMMA BringsSame ==
  ASSUME NEW s, NEW e, IsSeq(s), IsSeq(e), NEW places, places \subseteq DOMAIN s, NEW lines,
         Lists(s, places, lines)
  PROVE  Lists(s \o e, places, lines)
<1>1. \A i \in places : (s \o e)[i] = s[i]
  BY SeqFacts, ConcatFacts
<1> QED
  BY <1>1 DEF Lists

LEMMA BringsMore ==
  ASSUME NEW s, NEW e, IsSeq(s), IsSeq(e), NEW places, places \subseteq DOMAIN s, NEW lines,
         Lists(s, places, lines), NEW n \in Nat, \A m \in lines : m < n,
         NEW j \in 1 .. Len(e), e[j].line = n
  PROVE  Lists(s \o e, places \cup {Len(s) + j}, lines \cup {n})
<1> DEFINE t == s \o e
<1>1. \A i \in places : t[i] = s[i] /\ i \in Int /\ i < Len(s) + j
  BY SeqFacts, ConcatFacts
<1>2. t[Len(s) + j].line = n
  BY ConcatFacts
<1> HIDE DEF t
<1>3. \A i \in places : s[i].line \in lines /\ s[i].line < n
  BY DEF Lists
<1>4. {t[i].line : i \in places \cup {Len(s) + j}} = lines \cup {n}
  <2>1. {t[i].line : i \in places} = lines
    BY <1>1 DEF Lists
  <2> QED
    BY <1>2, <2>1
<1>5. ASSUME NEW i \in places \cup {Len(s) + j}, NEW k \in places \cup {Len(s) + j}, i < k
      PROVE  t[i].line < t[k].line
  <2>1. Len(s) + j \in Int
    BY SeqFacts
  <2>2. i \in places
    BY <1>1, <1>5, <2>1
  <2>3. CASE k \in places
    BY <1>1, <1>5, <2>2, <2>3 DEF Lists
  <2>4. CASE k = Len(s) + j
    BY <1>1, <1>2, <1>3, <2>2, <2>4
  <2> QED
    BY <2>3, <2>4
<1> QED
  BY <1>4, <1>5 DEF Lists, t


-----------------------------------------------------------------------------
(* Events that neither end the answer nor bring text.                      *)
Quiet(e) == IsSeq(e) /\ \A i \in 1 .. Len(e) : ~IsFinal(e[i]) /\ ~IsText(e[i])

LEMMA QuietConcat ==
  ASSUME NEW s, NEW t, Quiet(s), Quiet(t)
  PROVE  Quiet(s \o t)
BY ConcatFacts DEF Quiet

LEMMA QuietSmall ==
  /\ Quiet(<<>>)
  /\ \A x : ~IsFinal(x) /\ ~IsText(x) => Quiet(<<x>>)
<1>1. \A i \in 1 .. 1 : i = 1
  OBVIOUS
<1> QED
  BY <1>1, SmallSeqs DEF Quiet

LEMMA QuietBlocks ==
  \A i, n :
    /\ ~IsFinal(Start(i, "tool")) /\ ~IsText(Start(i, "tool"))
    /\ ~IsFinal(Start(i, "text")) /\ ~IsText(Start(i, "text"))
    /\ ~IsFinal(Stop(i)) /\ ~IsText(Stop(i))
    /\ ~IsFinal(Delta(i, "tool", n)) /\ ~IsText(Delta(i, "tool", n))
    /\ ~IsFinal(Delta(i, "text", n)) /\ IsText(Delta(i, "text", n)) /\ Delta(i, "text", n).line = n
BY DEF IsFinal, IsText, Start, Stop, Delta

LEMMA QuietFragment ==
  ASSUME NEW acc, Quiet(acc.events), NEW f, NEW n
  PROVE  Quiet(AnthropicFragment(acc, f, n).events)
<1> DEFINE idx   == acc.state.toolCallIndex
           start == IF f.first THEN <<Start(idx, "tool")>> ELSE <<>>
           delta == IF f.args THEN <<Delta(idx, "tool", n)>> ELSE <<>>
<1>1. Quiet(start) /\ Quiet(delta)
  BY QuietSmall, QuietBlocks
<1>2. AnthropicFragment(acc, f, n).events = acc.events \o start \o delta
  BY DEF AnthropicFragment, Result
<1> HIDE DEF start, delta
<1> QED
  BY <1>1, <1>2, QuietConcat

LEMMA MaxFacts == Max({1}) = 1 /\ Max({1, 2}) = 2
<1>1. Max({1}) = 1
  BY DEF Max
<1>2. \E x \in {1, 2} : \A y \in {1, 2} : x >= y
  OBVIOUS
<1>3. Max({1, 2}) = 2
  BY <1>2 DEF Max
<1> QED
  BY <1>1, <1>3

(* The fold over the fragments of a line, unrolled.                        *)
LEMMA QuietTools ==
  ASSUME NEW c, NEW n, NEW N, N = DOMAIN c.tools, N = {1} \/ N = {1, 2}
  PROVE  Quiet(AnthropicTools(c, n).events)
<1> DEFINE close == IF state.textBlockStarted /\ state.toolCallID = -1 THEN <<Stop(0)>> ELSE <<>>
           base == Result(state, close)
           step(acc, i) == AnthropicFragment(acc, c.tools[i], n)
           body(it, s) == IF s = {} THEN base ELSE step(it[s \ {Max(s)}], Max(s))
           fold == CHOOSE it : it = [s \in SUBSET N |-> body(it, s)]
           all == AnthropicTools(c, n)
<1>1. all = fold[N]
  BY DEF AnthropicTools, FoldLeft, MapThenFoldSet
<1>2. Quiet(base.events)
  BY QuietSmall, QuietBlocks DEF Result
<1>3. \A acc, i : Quiet(acc.events) => Quiet(step(acc, i).events)
  BY QuietFragment
<1> HIDE DEF all, base, step
<1>4. \E it : it = [s \in SUBSET N |-> body(it, s)]
  <2> DEFINE w == [s \in SUBSET N |->
                     IF s = {} THEN base
                     ELSE IF s = {1} THEN step(base, 1)
                     ELSE IF s = {2} THEN step(base, 2) ELSE step(step(base, 1), 2)]
  <2>1. \A s \in SUBSET N :
          s = {} \/ s = {1} \/ s = {2} \/ (s = {1, 2} /\ N = {1, 2})
    <3>1. \A s \in SUBSET {1} : s = {} \/ s = {1}
      OBVIOUS
    <3>2. \A s \in SUBSET {1, 2} : s = {} \/ s = {1} \/ s = {2} \/ s = {1, 2}
      OBVIOUS
    <3>3. CASE N = {1}
      BY <3>1, <3>3
    <3>4. CASE N = {1, 2}
      BY <3>2, <3>4
    <3> QED
      BY <3>3, <3>4
  <2>2. {1} # {} /\ {2} # {} /\ {1, 2} # {} /\ {1} # {2} /\ {1, 2} # {1} /\ {1, 2} # {2}
        /\ {1} \ {1} = {} /\ {2} \ {2} = {} /\ {1, 2} \ {2} = {1} /\ Max({2}) = 2
    BY DEF Max
  <2>3. /\ w[{}] = base /\ w[{1}] = step(base, 1)
        /\ {2} \in SUBSET N => w[{2}] = step(base, 2)
        /\ N = {1, 2} => w[{1, 2}] = step(step(base, 1), 2)
    BY <2>2
  <2>4. DOMAIN w = SUBSET N /\ w = [s \in SUBSET N |-> w[s]]
    OBVIOUS
  <2> HIDE DEF w
  <2>5. \A s \in SUBSET N : w[s] = body(w, s)
    <3>1. w[{}] = body(w, {}) /\ w[{1}] = body(w, {1})
      BY <2>2, <2>3, MaxFacts
    <3>2. {2} \in SUBSET N => w[{2}] = body(w, {2})
      BY <2>2, <2>3
    <3>3. N = {1, 2} => w[{1, 2}] = body(w, {1, 2})
      BY <2>2, <2>3, MaxFacts
    <3> HIDE DEF body
    <3> QED
      BY <2>1, <3>1, <3>2, <3>3
  <2>6. w = [s \in SUBSET N |-> body(w, s)]
    BY <2>4, <2>5
  <2> HIDE DEF body
  <2> QED
    BY <2>6
<1>5. fold = [s \in SUBSET N |-> body(fold, s)]
  BY <1>4
<1> HIDE DEF fold
<1>6. /\ fold[{}] = base /\ fold[{1}] = step(fold[{}], 1)
      /\ N = {1, 2} => fold[{1, 2}] = step(fold[{1}], 2)
  <2>1. {1} # {} /\ {1, 2} # {} /\ {1} \ {1} = {} /\ {1, 2} \ {2} = {1}
    OBVIOUS
  <2>2. /\ fold[{}] = body(fold, {}) /\ fold[{1}] = body(fold, {1})
        /\ N = {1, 2} => fold[{1, 2}] = body(fold, {1, 2})
    BY <1>5
  <2> QED
    BY <2>1, <2>2, MaxFacts
<1>7. Quiet(all.events)
  BY <1>1, <1>2, <1>3, <1>6
<1> QED
  BY <1>7 DEF all


(* The events of a line end nothing and bring its text, if any, once.      *)
BringsText(e, n) ==
  \E j \in 1 .. Len(e) : /\ IsText(e[j]) /\ e[j].line = n
                         /\ \A i \in 1 .. Len(e) : IsText(e[i]) => i = j
BringsNoText(e) == \A i \in 1 .. Len(e) : ~IsText(e[i])

LineEvents(e, c, n) ==
  /\ IsSeq(e) /\ \A i \in 1 .. Len(e) : ~IsFinal(e[i])
  /\ format = "openai" \/ ~(c.text /\ c.tools # <<>>) =>
       IF c.text THEN BringsText(e, n) ELSE BringsNoText(e)

LEMMA OpenAILine ==
  ASSUME NEW c \in Lines, NEW n
  PROVE  LineEvents(OpenAIChunk(c, n).events, c, n)
<1> DEFINE x == [type |-> "chunk", text |-> c.text, tools |-> c.tools, line |-> n]
<1>1. OpenAIChunk(c, n).events = <<x>>
  BY DEF OpenAIChunk, Result
<1>2. ~IsFinal(x) /\ (IsText(x) <=> c.text) /\ x.line = n
  BY DEF IsFinal, IsText, Lines
<1> HIDE DEF x
<1>3. \A i \in 1 .. 1 : i = 1
  OBVIOUS
<1> QED
  BY <1>1, <1>2, <1>3, SmallSeqs DEF LineEvents, BringsText, BringsNoText

LEMMA AnthropicLine ==
  ASSUME NEW c \in Lines, NEW n, format # "openai", Len(c.tools) <= 2
  PROVE  LineEvents(AnthropicChunk(c, n).events, c, n)
<1>1. CASE c.tools # <<>>
  <2>1. DOMAIN c.tools = {1} \/ DOMAIN c.tools = {1, 2}
    <3>1. Len(c.tools) \in Nat \ {0} /\ DOMAIN c.tools = 1 .. Len(c.tools)
      BY <1>1, EmptySeq, LenProperties DEF Lines
    <3>2. Len(c.tools) = 1 \/ Len(c.tools) = 2
      <4>1. \A k \in Nat \ {0} : k <= 2 => k = 1 \/ k = 2
        OBVIOUS
      <4> QED
        BY <3>1, <4>1
    <3>3. 1 .. 1 = {1} /\ 1 .. 2 = {1, 2}
      OBVIOUS
    <3> QED
      BY <3>1, <3>2, <3>3
  <2>2. Quiet(AnthropicTools(c, n).events)
    BY <2>1, QuietTools
  <2>3. AnthropicChunk(c, n) = AnthropicTools(c, n)
    BY <1>1 DEF AnthropicChunk
  <2> QED
    BY <1>1, <2>2, <2>3 DEF Quiet, LineEvents, BringsNoText
<1>2. CASE c.tools = <<>> /\ c.text
  <2> DEFINE open == IF state.textBlockStarted THEN <<>> ELSE <<Start(0, "text")>>
             x == Delta(0, "text", n)
  <2>1. Quiet(open)
    BY QuietSmall, QuietBlocks
  <2>2. AnthropicChunk(c, n).events = open \o <<x>>
    BY <1>2 DEF AnthropicChunk, AnthropicText, Result
  <2>3. ~IsFinal(x) /\ IsText(x) /\ x.line = n
    BY QuietBlocks
  <2> HIDE DEF open, x
  <2>4. /\ IsSeq(open) /\ IsSeq(<<x>>) /\ Len(open) \in Nat /\ Len(<<x>>) = 1
        /\ \A i \in 1 .. Len(open) : ~IsFinal(open[i]) /\ ~IsText(open[i])
    BY <2>1, SmallSeqs, SeqFacts DEF Quiet
  <2> DEFINE e == open \o <<x>>
  <2>5. /\ IsSeq(e) /\ Len(e) = Len(open) + 1 /\ e[Len(open) + 1] = x
        /\ \A i \in 1 .. Len(open) : e[i] = open[i]
        /\ \A i \in 1 .. Len(e) : i \in 1 .. Len(open) \/ i = Len(open) + 1
    <3>1. \A i \in 1 .. 1 : i = 1
      OBVIOUS
    <3> QED
      BY <2>4, <3>1, ConcatFacts, SmallSeqs
  <2> HIDE DEF e
  <2>6. Len(open) + 1 \in 1 .. Len(e)
    BY <2>4, <2>5
  <2>7. LineEvents(e, c, n)
    BY <1>2, <2>3, <2>4, <2>5, <2>6 DEF LineEvents, BringsText
  <2> QED
    BY <2>2, <2>7 DEF e
<1>3. CASE c.tools = <<>> /\ ~c.text
  BY <1>3, QuietSmall DEF AnthropicChunk, Result, Quiet, LineEvents, BringsNoText
<1> QED
  BY <1>1, <1>2, <1>3

LEMMA GeminiLine ==
  ASSUME NEW c \in Lines, NEW n, format # "openai"
  PROVE  LineEvents(GeminiChunk(c, n).events, c, n)
<1> DEFINE x == [type |-> "text", line |-> n]
<1>1. ~IsFinal(x) /\ IsText(x) /\ x.line = n
  BY DEF IsFinal, IsText
<1>2. GeminiText(n) = <<x>>
  BY DEF GeminiText
<1> HIDE DEF x
<1>3. CASE c.tools # <<>>
  <2>1. GeminiChunk(c, n).events = <<>>
    BY <1>3 DEF GeminiChunk, Result
  <2> QED
    BY <1>3, <2>1, QuietSmall DEF Quiet, LineEvents, BringsNoText
<1>4. CASE c.tools = <<>> /\ c.text
  <2>1. GeminiChunk(c, n).events = <<x>>
    BY <1>2, <1>4 DEF GeminiChunk, Result
  <2>2. \A i \in 1 .. 1 : i = 1
    OBVIOUS
  <2> QED
    BY <1>1, <1>4, <2>1, <2>2, SmallSeqs DEF LineEvents, BringsText
<1>5. CASE c.tools = <<>> /\ ~c.text
  BY <1>5, QuietSmall DEF GeminiChunk, Result, Quiet, LineEvents, BringsNoText
<1> QED
  BY <1>3, <1>4, <1>5

(* The events of the end bring no text, and the last of them ends it.      *)
DoneEvents(e) ==
  /\ IsSeq(e) /\ Len(e) \in Nat \ {0} /\ BringsNoText(e)
  /\ \A i \in 1 .. Len(e) : IsFinal(e[i]) <=> i = Len(e)
  /\ \A i \in 1 .. Len(e) : e[i].type \notin {"chunk", "content_block_delta"}

LEMMA DoneEnds ==
  ASSUME format \in {"openai", "anthropic", "gemini"}
  PROVE  DoneEvents(TranslateDone.events)
<1>1. CASE format = "openai"
  <2> DEFINE x == [type |-> "final", finish |-> IF DoneFinishReason = "" THEN "stop" ELSE DoneFinishReason]
             y == [type |-> "[DONE]"]
  <2>1. TranslateDone.events = <<x, y>>
    BY <1>1 DEF TranslateDone, OpenAIDone, Result
  <2>2. /\ ~IsFinal(x) /\ IsFinal(y) /\ ~IsText(x) /\ ~IsText(y)
        /\ x.type \notin {"chunk", "content_block_delta"}
        /\ y.type \notin {"chunk", "content_block_delta"}
    BY DEF IsFinal, IsText
  <2> HIDE DEF x, y
  <2>3. <<x, y>> \in Seq({x, y}) /\ Len(<<x, y>>) = 2 /\ <<x, y>>[1] = x /\ <<x, y>>[2] = y
    OBVIOUS
  <2>4. \A i \in 1 .. 2 : i = 1 \/ i = 2
    OBVIOUS
  <2>5. IsSeq(<<x, y>>)
    BY <2>3 DEF IsSeq
  <2> QED
    BY <2>1, <2>2, <2>3, <2>4, <2>5 DEF DoneEvents, BringsNoText
<1>2. CASE format = "anthropic"
  <2> DEFINE close == IF state.toolCallID # -1 \/ state.textBlockStarted THEN <<Stop(0)>> ELSE <<>>
             x == [type |-> "message_delta"]
             y == [type |-> "message_stop"]
             e == close \o <<x, y>>
  <2>1. TranslateDone.events = e
    BY <1>2 DEF TranslateDone, AnthropicDone, Result
  <2>2. /\ ~IsFinal(x) /\ IsFinal(y) /\ ~IsText(x) /\ ~IsText(y)
        /\ x.type \notin {"chunk", "content_block_delta"}
        /\ y.type \notin {"chunk", "content_block_delta"}
    BY DEF IsFinal, IsText
  <2>3. Quiet(close) /\ \A i \in 1 .. Len(close) : close[i].type \notin {"chunk", "content_block_delta"}
    <3>1. Stop(0).type \notin {"chunk", "content_block_delta"}
      BY DEF Stop
    <3>2. \A i \in 1 .. 1 : i = 1
      OBVIOUS
    <3> QED
      BY <3>1, <3>2, QuietSmall, QuietBlocks, SmallSeqs
  <2> HIDE DEF close, x, y
  <2>4. /\ IsSeq(<<x, y>>) /\ Len(<<x, y>>) = 2 /\ <<x, y>>[1] = x /\ <<x, y>>[2] = y
        /\ \A i \in 1 .. 2 : i = 1 \/ i = 2
    <3>1. <<x, y>> \in Seq({x, y}) /\ Len(<<x, y>>) = 2 /\ <<x, y>>[1] = x /\ <<x, y>>[2] = y
      OBVIOUS
    <3>2. \A i \in 1 .. 2 : i = 1 \/ i = 2
      OBVIOUS
    <3> QED
      BY <3>1, <3>2 DEF IsSeq
  <2>5. IsSeq(close) /\ Len(close) \in Nat /\ \A i \in 1 .. Len(close) : ~IsFinal(close[i]) /\ ~IsText(close[i])
    BY <2>3, SeqFacts DEF Quiet
  <2>6. /\ IsSeq(e) /\ Len(e) = Len(close) + 2
        /\ \A i \in 1 .. Len(close) : e[i] = close[i]
        /\ e[Len(close) + 1] = x /\ e[Len(close) + 2] = y
        /\ \A i \in 1 .. Len(e) : i \in 1 .. Len(close) \/ i = Len(close) + 1 \/ i = Len(close) + 2
    BY <2>4, <2>5, ConcatFacts
  <2> HIDE DEF e
  <2>7. \A i \in 1 .. Len(close) : i # Len(e)
    BY <2>5, <2>6
  <2>8. Len(close) + 1 # Len(e) /\ Len(close) + 2 = Len(e) /\ Len(e) \in Nat \ {0}
    BY <2>5, <2>6
  <2>9. DoneEvents(e)
    BY <2>2, <2>3, <2>5, <2>6, <2>7, <2>8 DEF DoneEvents, BringsNoText
  <2> QED
    BY <2>1, <2>9
<1>3. CASE format = "gemini"
  <2> DEFINE x == [type |-> "STOP", call |-> state.functionCall, args |-> state.functionCallArgs]
  <2>1. TranslateDone.events = <<x>>
    BY <1>3 DEF TranslateDone, GeminiDone, Result
  <2>2. IsFinal(x) /\ ~IsText(x) /\ x.type \notin {"chunk", "content_block_delta"}
    BY DEF IsFinal, IsText
  <2> HIDE DEF x
  <2>3. \A i \in 1 .. 1 : i = 1
    OBVIOUS
  <2> QED
    BY <2>1, <2>2, <2>3, SmallSeqs DEF DoneEvents, BringsNoText
<1> QED
  BY <1>1, <1>2, <1>3


-----------------------------------------------------------------------------
(* One more line of the upstream.                                          *)
LEMMA OneMoreLine ==
  ASSUME sent \in Seq(Lines), NEW c \in Lines, sent' = Append(sent, c)
  PROVE  /\ Len(sent) + 1 \in Nat /\ sent' \in Seq(Lines)
         /\ SaidText' = IF c.text THEN SaidText \cup {Len(sent) + 1} ELSE SaidText
         /\ \A m \in SaidText : m < Len(sent) + 1
         /\ \A k : /\ SaidArgs(k)' = IF Carries(c.tools, k) THEN SaidArgs(k) \cup {Len(sent) + 1} ELSE SaidArgs(k)
                   /\ \A m \in SaidArgs(k) : m < Len(sent) + 1
         /\ Unmixed' => Unmixed /\ ~(c.text /\ c.tools # <<>>)
<1>1. /\ Len(sent) \in Nat /\ DOMAIN sent = 1 .. Len(sent)
      /\ sent' \in Seq(Lines) /\ Len(sent') = Len(sent) + 1 /\ DOMAIN sent' = 1 .. Len(sent')
      /\ \A n \in 1 .. Len(sent) : sent'[n] = sent[n]
      /\ sent'[Len(sent) + 1] = c
  BY AppendProperties, LenProperties
<1>2. /\ DOMAIN sent' = DOMAIN sent \cup {Len(sent) + 1}
      /\ \A n \in DOMAIN sent : n < Len(sent) + 1 /\ sent'[n] = sent[n]
      /\ 1 .. Len(sent') = DOMAIN sent'
  BY <1>1
<1>3. SaidText' = IF c.text THEN SaidText \cup {Len(sent) + 1} ELSE SaidText
  BY <1>1, <1>2 DEF SaidText
<1>4. ASSUME NEW k
      PROVE SaidArgs(k)' = IF Carries(c.tools, k) THEN SaidArgs(k) \cup {Len(sent) + 1} ELSE SaidArgs(k)
  BY <1>1, <1>2 DEF SaidArgs
<1>5. Unmixed' => Unmixed /\ ~(c.text /\ c.tools # <<>>)
  BY <1>1, <1>2 DEF Unmixed
<1> QED
  BY <1>1, <1>2, <1>3, <1>4, <1>5 DEF SaidText, SaidArgs

(* The calls that have started, behind it.                                 *)
LEMMA OneMoreStarted ==
  ASSUME sent \in Seq(Lines), NEW c \in Lines, sent' = Append(sent, c)
  PROVE  /\ Started' = Started \cup {c.tools[i].index : i \in DOMAIN c.tools}
         /\ \A k : SaidArgs(k) # {} => k \in Started
<1>1. /\ Len(sent) \in Nat /\ DOMAIN sent = 1 .. Len(sent)
      /\ sent' \in Seq(Lines) /\ Len(sent') = Len(sent) + 1
      /\ \A n \in 1 .. Len(sent) : sent'[n] = sent[n] /\ sent[n] \in Lines
      /\ sent'[Len(sent) + 1] = c
  BY AppendProperties, LenProperties, ElementOfSeq
<1>2. \A n \in 1 .. Len(sent') : n \in 1 .. Len(sent) \/ n = Len(sent) + 1
  BY <1>1
<1>3. \A n \in 1 .. Len(sent) : n \in 1 .. Len(sent')
  BY <1>1
<1>4. Len(sent) + 1 \in 1 .. Len(sent')
  BY <1>1
<1>5. \A l \in Lines : /\ DOMAIN l.tools = 1 .. Len(l.tools)
                       /\ \A i \in DOMAIN l.tools : l.tools[i].index \in 0 .. MaxCalls - 1
  <2> SUFFICES ASSUME NEW l \in Lines
               PROVE  /\ DOMAIN l.tools = 1 .. Len(l.tools)
                      /\ \A i \in DOMAIN l.tools : l.tools[i].index \in 0 .. MaxCalls - 1
    OBVIOUS
  <2>1. l.tools \in Seq(Fragments)
    BY DEF Lines
  <2>2. DOMAIN l.tools = 1 .. Len(l.tools) /\ \A i \in 1 .. Len(l.tools) : l.tools[i] \in Fragments
    BY <2>1, LenProperties, ElementOfSeq
  <2> QED
    BY <2>2 DEF Fragments
<1> DEFINE new == {c.tools[i].index : i \in DOMAIN c.tools}
<1>6. ASSUME NEW k \in Started' PROVE k \in Started \cup new
  <2>1. PICK n \in 1 .. Len(sent') : \E i \in 1 .. Len(sent'[n].tools) : sent'[n].tools[i].index = k
    BY <1>6 DEF Started
  <2>2. k \in 0 .. MaxCalls - 1
    BY <1>6 DEF Started
  <2>3. CASE n \in 1 .. Len(sent)
    BY <1>1, <2>1, <2>2, <2>3 DEF Started
  <2>4. CASE n = Len(sent) + 1
    BY <1>1, <1>5, <2>1, <2>4
  <2> QED
    BY <1>2, <2>3, <2>4
<1>7. ASSUME NEW k \in Started PROVE k \in Started'
  BY <1>1, <1>3 DEF Started
<1>8. ASSUME NEW k \in new PROVE k \in Started'
  <2>1. PICK i \in DOMAIN c.tools : c.tools[i].index = k
    OBVIOUS
  <2>2. k \in 0 .. MaxCalls - 1 /\ i \in 1 .. Len(c.tools)
    BY <1>5, <2>1
  <2> QED
    BY <1>1, <1>4, <2>1, <2>2 DEF Started
<1>9. ASSUME NEW k, SaidArgs(k) # {} PROVE k \in Started
  <2>1. PICK n \in DOMAIN sent : Carries(sent[n].tools, k)
    BY <1>9 DEF SaidArgs
  <2>2. PICK i \in DOMAIN sent[n].tools : sent[n].tools[i].index = k
    BY <2>1 DEF Carries
  <2> QED
    BY <1>1, <1>5, <2>1, <2>2 DEF Started
<1> HIDE DEF new
<1>10. Started' = Started \cup new
  BY <1>6, <1>7, <1>8
<1> QED
  BY <1>9, <1>10 DEF new


-----------------------------------------------------------------------------
TypeInv ==
  /\ format \in {"openai", "anthropic", "gemini"} /\ ended \in {"no", "done", "broken"}
  /\ sent \in Seq(Lines) /\ IsSeq(out)

(* The fragments one line may bring.                                       *)
LEMMA NextTools ==
  ASSUME NEW c \in NextLines
  PROVE  \/ c.tools = <<>>
         \/ \E f \in Fragments : c.tools = <<f>> /\ Legal(f, Started)
         \/ \E f, g \in Fragments : c.tools = <<f, g>> /\ f.index # g.index
<1>1. c.tools \in ToolLists
  BY DEF NextLines
<1>2. \A p \in Fragments \X Fragments : p[1] \in Fragments /\ p[2] \in Fragments
  OBVIOUS
<1> QED
  BY <1>1, <1>2 DEF ToolLists

LEMMA NextLineFacts ==
  ASSUME NEW c \in NextLines
  PROVE  c \in Lines /\ Len(c.tools) <= 2
<1>1. c.text \in BOOLEAN /\ c.finish \in Finishes \cup {""}
      /\ c = [text |-> c.text, tools |-> c.tools, finish |-> c.finish]
  BY DEF NextLines
<1>2. c.tools \in Seq(Fragments) /\ Len(c.tools) <= 2
  <2>1. CASE c.tools = <<>>
    BY <2>1, EmptySeq
  <2>2. ASSUME NEW f \in Fragments, c.tools = <<f>> PROVE c.tools \in Seq(Fragments) /\ Len(c.tools) <= 2
    BY <2>2
  <2>3. ASSUME NEW f \in Fragments, NEW g \in Fragments, c.tools = <<f, g>>
        PROVE  c.tools \in Seq(Fragments) /\ Len(c.tools) <= 2
    BY <2>3
  <2> QED
    BY <2>1, <2>2, <2>3, NextTools
<1> QED
  BY <1>1, <1>2 DEF Lines

(* Events appended to those the client has.                                *)
LEMMA OutGrows ==
  ASSUME IsSeq(out), NEW e, IsSeq(e), out' = out \o e
  PROVE  /\ IsSeq(out') /\ Len(out) \in Nat /\ Len(e) \in Nat /\ Len(out') = Len(out) + Len(e)
         /\ DOMAIN out = 1 .. Len(out) /\ DOMAIN out' = 1 .. Len(out')
         /\ \A i \in 1 .. Len(out) : out'[i] = out[i] /\ i \in 1 .. Len(out')
         /\ \A i \in 1 .. Len(e) : out'[Len(out) + i] = e[i] /\ Len(out) + i \in 1 .. Len(out')
         /\ \A i \in 1 .. Len(out') : i \in 1 .. Len(out) \/ \E j \in 1 .. Len(e) : i = Len(out) + j
<1>1. /\ IsSeq(out') /\ Len(out) \in Nat /\ Len(e) \in Nat /\ Len(out') = Len(out) + Len(e)
      /\ DOMAIN out = 1 .. Len(out) /\ DOMAIN out' = 1 .. Len(out')
  BY SeqFacts, ConcatFacts
<1>2. /\ \A i \in 1 .. Len(out) : i \in 1 .. Len(out')
      /\ \A i \in 1 .. Len(e) : Len(out) + i \in 1 .. Len(out')
  BY <1>1
<1>3. /\ \A i \in 1 .. Len(out) : out'[i] = out[i]
      /\ \A i \in 1 .. Len(e) : out'[Len(out) + i] = e[i]
      /\ \A i \in 1 .. Len(out') : i \in 1 .. Len(out) \/ \E j \in 1 .. Len(e) : i = Len(out) + j
  BY ConcatFacts
<1> QED
  BY <1>1, <1>2, <1>3

(* The text among the events, whatever block it speaks of.                 *)
TextPlaces == {i \in DOMAIN out : IsText(out[i])}

TextInv == format = "openai" \/ Unmixed => Lists(out, TextPlaces, SaidText)

LEMMA LineText ==
  ASSUME TypeInv, TextInv, NEW c \in Lines, NEW e, LineEvents(e, c, Len(sent) + 1),
         out' = out \o e, sent' = Append(sent, c), format' = format
  PROVE  TextInv'
<1> SUFFICES ASSUME format = "openai" \/ Unmixed'
             PROVE  Lists(out', TextPlaces', SaidText')
  BY DEF TextInv
<1> DEFINE n == Len(sent) + 1
<1>1. /\ n \in Nat /\ \A m \in SaidText : m < n
      /\ SaidText' = IF c.text THEN SaidText \cup {n} ELSE SaidText
  BY OneMoreLine DEF TypeInv
<1>2. /\ Lists(out, TextPlaces, SaidText) /\ TextPlaces \subseteq DOMAIN out
      /\ IF c.text THEN BringsText(e, n) ELSE BringsNoText(e)
  BY OneMoreLine DEF TypeInv, TextInv, TextPlaces, LineEvents
<1>3. IsSeq(out) /\ IsSeq(e)
  BY DEF TypeInv, LineEvents
<1>4. ASSUME NEW P \in SUBSET DOMAIN e, \A i \in 1 .. Len(e) : IsText(e[i]) <=> i \in P
      PROVE  TextPlaces' = TextPlaces \cup {Len(out) + i : i \in P}
  <2>1. DOMAIN e = 1 .. Len(e)
    BY <1>3, SeqFacts
  <2> QED
    BY <1>3, <1>4, <2>1, OutGrows DEF TextPlaces
<1>5. CASE c.text
  <2>1. PICK j \in 1 .. Len(e) : IsText(e[j]) /\ e[j].line = n /\ \A i \in 1 .. Len(e) : IsText(e[i]) => i = j
    BY <1>2, <1>5 DEF BringsText
  <2>2. TextPlaces' = TextPlaces \cup {Len(out) + i : i \in {j}}
    BY <1>3, <1>4, <2>1, SeqFacts
  <2>3. TextPlaces' = TextPlaces \cup {Len(out) + j}
    BY <2>2
  <2> HIDE DEF n
  <2> QED
    BY <1>1, <1>2, <1>3, <1>5, <2>1, <2>3, BringsMore
<1>6. CASE ~c.text
  <2>1. TextPlaces' = TextPlaces \cup {Len(out) + i : i \in {}}
    BY <1>2, <1>4, <1>6 DEF BringsNoText
  <2>2. TextPlaces' = TextPlaces
    BY <2>1
  <2> QED
    BY <1>1, <1>2, <1>3, <1>6, <2>2, BringsSame
<1> QED
  BY <1>5, <1>6

LEMMA DoneText ==
  ASSUME TypeInv, TextInv, NEW e, DoneEvents(e), out' = out \o e, UNCHANGED <<format, sent>>
  PROVE  TextInv'
<1>1. IsSeq(out) /\ IsSeq(e)
  BY DEF TypeInv, DoneEvents
<1>2. TextPlaces' = TextPlaces /\ TextPlaces \subseteq DOMAIN out
  BY <1>1, OutGrows DEF TextPlaces, DoneEvents, BringsNoText
<1>3. SaidText' = SaidText /\ Unmixed' = Unmixed
  BY DEF SaidText, Unmixed
<1> QED
  BY <1>1, <1>2, <1>3, BringsSame DEF TextInv

-----------------------------------------------------------------------------
(* The blocks of an Anthropic client.  As long as no call has come, a text *)
(* block once started is open: only deltas follow its start.               *)
NoCalls == \A n \in 1 .. Len(sent) : sent[n].tools = <<>>

OpenText(s) ==
  /\ s \in 1 .. Len(out) /\ out[s] = Start(0, "text")
  /\ \A t \in s + 1 .. Len(out) : out[t].type = "content_block_delta"

OpenInv ==
  format = "anthropic" /\ ended = "no" /\ NoCalls =>
    "textBlockStarted" \in DOMAIN state /\ (state.textBlockStarted => \E s : OpenText(s))

BlockInv ==
  IF format = "anthropic"
    THEN TextBeforeCalls => \A i \in 1 .. Len(out) : IsText(out[i]) => InTextBlock(i)
    ELSE \A i \in 1 .. Len(out) : out[i].type # "content_block_delta"

LEMMA OneMoreCall ==
  ASSUME sent \in Seq(Lines), NEW c \in Lines, sent' = Append(sent, c)
  PROVE  /\ NoCalls' => NoCalls /\ c.tools = <<>>
         /\ TextBeforeCalls' => TextBeforeCalls /\ (c.text => NoCalls /\ c.tools = <<>>)
<1>1. /\ Len(sent) \in Nat /\ Len(sent') = Len(sent) + 1
      /\ \A n \in 1 .. Len(sent) : sent'[n] = sent[n]
      /\ sent'[Len(sent) + 1] = c
  BY AppendProperties, LenProperties
<1>2. /\ \A n \in 1 .. Len(sent) : n \in 1 .. Len(sent') /\ ~(Len(sent) + 1 < n)
      /\ Len(sent) + 1 \in 1 .. Len(sent') /\ ~(Len(sent) + 1 < Len(sent) + 1)
  BY <1>1
<1>3. NoCalls' => NoCalls /\ c.tools = <<>>
  BY <1>1, <1>2 DEF NoCalls
<1>4. TextBeforeCalls' => TextBeforeCalls
  BY <1>1, <1>2 DEF TextBeforeCalls
<1>5. TextBeforeCalls' /\ c.text => NoCalls /\ c.tools = <<>>
  BY <1>1, <1>2 DEF TextBeforeCalls, NoCalls
<1> QED
  BY <1>3, <1>4, <1>5

(* What follows an event does not change its block.                        *)
LEMMA BlockStays ==
  ASSUME IsSeq(out), NEW e, IsSeq(e), out' = out \o e, NEW i \in 1 .. Len(out), InTextBlock(i)
  PROVE  InTextBlock(i)'
<1>1. /\ \A t \in 1 .. Len(out) : out'[t] = out[t]
      /\ \A t \in 1 .. i - 1 : t \in 1 .. Len(out)
      /\ \A s \in 1 .. i - 1 : \A t \in s + 1 .. i - 1 : t \in 1 .. Len(out)
  BY OutGrows
<1> QED
  BY <1>1 DEF InTextBlock

(* Events that bring no text leave the text in its blocks.                 *)
LEMMA NoTextBlocks ==
  ASSUME IsSeq(out), BlockInv, NEW e, IsSeq(e), out' = out \o e, format' = format,
         TextBeforeCalls' => TextBeforeCalls,
         IF format = "anthropic" THEN TextBeforeCalls' => BringsNoText(e)
         ELSE \A i \in 1 .. Len(e) : e[i].type # "content_block_delta"
  PROVE  BlockInv'
<1>1. CASE format # "anthropic"
  BY <1>1, OutGrows DEF BlockInv
<1>2. CASE format = "anthropic"
  <2> SUFFICES ASSUME TextBeforeCalls', NEW i \in 1 .. Len(out'), IsText(out'[i])
               PROVE  InTextBlock(i)'
    BY <1>2 DEF BlockInv
  <2>1. i \in 1 .. Len(out) /\ IsText(out[i])
    BY <1>2, OutGrows DEF BringsNoText
  <2> QED
    BY <1>2, <2>1, BlockStays DEF BlockInv
<1> QED
  BY <1>1, <1>2

(* Text before any call goes to the open block, or opens it.               *)
LEMMA TextOpens ==
  ASSUME IsSeq(out), BlockInv, OpenInv, format = "anthropic", format' = format, ended = "no", NEW n,
         TextBeforeCalls' => TextBeforeCalls /\ NoCalls, NoCalls' => NoCalls,
         state' = AnthropicText(n).state, out' = out \o AnthropicText(n).events
  PROVE  BlockInv' /\ OpenInv'
<1> DEFINE x == Delta(0, "text", n)
           b == Start(0, "text")
<1>1. /\ state' = [state EXCEPT !.textBlockStarted = TRUE]
      /\ AnthropicText(n).events = (IF state.textBlockStarted THEN <<>> ELSE <<b>>) \o <<x>>
  BY DEF AnthropicText, Result
<1>2. x.type = "content_block_delta" /\ x.index = 0
  BY DEF Delta
<1> HIDE DEF x
<1> SUFFICES ASSUME NoCalls \/ TextBeforeCalls' PROVE BlockInv' /\ OpenInv'
  BY DEF BlockInv, OpenInv
<1>3. NoCalls /\ "textBlockStarted" \in DOMAIN state /\ (state.textBlockStarted => \E s : OpenText(s))
  BY DEF OpenInv
<1>4. "textBlockStarted" \in DOMAIN state' /\ state'.textBlockStarted
  BY <1>1, <1>3
<1>5. PICK s : /\ s \in 1 .. Len(out') - 1 /\ out'[s] = b /\ out'[Len(out')] = x
               /\ \A t \in s + 1 .. Len(out') : out'[t].type = "content_block_delta"
               /\ Len(out') \in Nat /\ \A i \in 1 .. Len(out') : i \in 1 .. Len(out) \/ i = Len(out') \/ out'[i] = b
  <2>1. CASE state.textBlockStarted
    <3>1. PICK s : OpenText(s)
      BY <1>3, <2>1
    <3>2. out' = out \o <<x>>
      <4>1. (<<>>) \o <<x>> = <<x>>
        OBVIOUS
      <4> QED
        BY <1>1, <2>1, <4>1
    <3>3. /\ Len(out) \in Nat /\ Len(out') = Len(out) + 1 /\ out'[Len(out) + 1] = x
          /\ \A i \in 1 .. Len(out) : out'[i] = out[i]
      BY <3>2, SmallSeqs, ConcatFacts, SeqFacts
    <3>4. s \in 1 .. Len(out') - 1 /\ out'[s] = b /\ out'[Len(out')] = x
      BY <3>1, <3>3 DEF OpenText
    <3>5. ASSUME NEW t \in s + 1 .. Len(out') PROVE out'[t].type = "content_block_delta"
      <4>1. CASE t = Len(out) + 1
        BY <1>2, <3>3, <4>1
      <4>2. CASE t # Len(out) + 1
        <5>1. s \in Int /\ s >= 1 /\ Len(out) \in Int /\ t \in s + 1 .. Len(out) + 1
          BY <3>1, <3>3 DEF OpenText
        <5>2. t \in s + 1 .. Len(out) /\ t \in 1 .. Len(out)
          BY <4>2, <5>1
        <5> QED
          BY <3>1, <3>3, <5>2 DEF OpenText
      <4> QED
        BY <4>1, <4>2
    <3>6. \A i \in 1 .. Len(out') : i \in 1 .. Len(out) \/ i = Len(out')
      BY <3>3
    <3> QED
      BY <3>3, <3>4, <3>5, <3>6
  <2>2. CASE ~state.textBlockStarted
    <3> DEFINE e == <<b>> \o <<x>>
    <3>1. out' = out \o e
      BY <1>1, <2>2
    <3> HIDE DEF b
    <3>2. IsSeq(e) /\ Len(e) = 2 /\ e[1] = b /\ e[2] = x /\ 1 \in 1 .. Len(e) /\ 2 \in 1 .. Len(e)
      <4>1. 1 \in 1 .. 1 /\ 1 \in 1 .. 2 /\ 2 \in 1 .. 2
        OBVIOUS
      <4>2. /\ IsSeq(<<b>>) /\ Len(<<b>>) = 1 /\ <<b>>[1] = b
            /\ IsSeq(<<x>>) /\ Len(<<x>>) = 1 /\ <<x>>[1] = x
        BY SmallSeqs
      <4>3. e[1] = <<b>>[1] /\ e[1 + 1] = <<x>>[1] /\ Len(e) = 1 + 1 /\ IsSeq(e)
        BY <4>1, <4>2, ConcatFacts
      <4> HIDE DEF e
      <4> QED
        BY <4>1, <4>2, <4>3
    <3> HIDE DEF e
    <3>3. /\ Len(out) \in Nat /\ Len(out') = Len(out) + 2
          /\ out'[Len(out) + 1] = b /\ out'[Len(out) + 2] = x
      BY <3>1, <3>2, OutGrows
    <3>4. /\ Len(out) + 1 \in 1 .. Len(out') - 1
          /\ \A t \in Len(out) + 1 + 1 .. Len(out') : t = Len(out) + 2
          /\ \A i \in 1 .. Len(out') : i \in 1 .. Len(out) \/ i = Len(out') \/ i = Len(out) + 1
      BY <3>3
    <3> QED
      BY <1>2, <3>3, <3>4
  <2> QED
    BY <2>1, <2>2
<1>6. OpenText(s)'
  BY <1>5 DEF OpenText
<1>7. ASSUME TextBeforeCalls', NEW i \in 1 .. Len(out'), IsText(out'[i])
      PROVE  InTextBlock(i)'
  <2>1. CASE i \in 1 .. Len(out)
    <3>1. IsSeq(AnthropicText(n).events)
      <4>1. IsSeq(<<>>) /\ IsSeq(<<b>>) /\ IsSeq(<<x>>)
        BY SmallSeqs
      <4>2. IsSeq(IF state.textBlockStarted THEN <<>> ELSE <<b>>)
        BY <4>1
      <4> QED
        BY <1>1, <4>1, <4>2, ConcatFacts
    <3>2. out'[i] = out[i]
      BY <2>1, <3>1, OutGrows
    <3>3. InTextBlock(i)
      BY <1>7, <2>1, <3>2 DEF BlockInv
    <3> QED
      BY <2>1, <3>1, <3>3, BlockStays
  <2>2. CASE i = Len(out')
    <3>1. out'[i].index = 0 /\ s \in 1 .. i - 1 /\ out'[s] = Start(out'[i].index, "text")
      BY <1>2, <1>5, <2>2
    <3>2. \A t \in s + 1 .. i - 1 : out'[t].type = "content_block_delta"
      BY <1>5, <2>2
    <3>3. "content_block_delta" \notin {"content_block_start", "content_block_stop"}
      OBVIOUS
    <3> QED
      BY <3>1, <3>2, <3>3 DEF InTextBlock
  <2>3. CASE out'[i] = b
    BY <1>7, <2>3, QuietBlocks
  <2> QED
    BY <1>5, <2>1, <2>2, <2>3
<1> QED
  BY <1>4, <1>6, <1>7 DEF BlockInv, OpenInv

LEMMA LineBlocks ==
  ASSUME TypeInv, BlockInv, OpenInv, NEW c \in Lines, ended = "no", ended' = ended, format' = format,
         LineEvents(TranslateStreamChunk(c, Len(sent) + 1).events, c, Len(sent) + 1),
         sent' = Append(sent, c), Emit(TranslateStreamChunk(c, Len(sent) + 1))
  PROVE  BlockInv' /\ OpenInv'
<1> DEFINE n == Len(sent) + 1
           q == TranslateStreamChunk(c, n)
<1>1. state' = q.state /\ out' = out \o q.events /\ IsSeq(out) /\ IsSeq(q.events) /\ LineEvents(q.events, c, n)
  BY DEF Emit, TypeInv, LineEvents
<1>2. /\ NoCalls' => NoCalls /\ c.tools = <<>>
      /\ TextBeforeCalls' => TextBeforeCalls /\ (c.text => NoCalls /\ c.tools = <<>>)
  BY OneMoreCall DEF TypeInv
<1> HIDE DEF n
<1>3. CASE format = "openai"
  <2>1. q.events = <<[type |-> "chunk", text |-> c.text, tools |-> c.tools, line |-> n]>>
    BY <1>3 DEF TranslateStreamChunk, OpenAIChunk, Result
  <2>2. \A i \in 1 .. 1 : i = 1
    OBVIOUS
  <2>3. \A i \in 1 .. Len(q.events) : q.events[i].type # "content_block_delta"
    BY <2>1, <2>2, SmallSeqs
  <2> HIDE DEF q
  <2> QED
    BY <1>1, <1>2, <1>3, <2>3, NoTextBlocks DEF OpenInv
<1>4. CASE format = "gemini"
  <2>1. q.events = <<>> \/ q.events = <<[type |-> "text", line |-> n]>>
    BY <1>4 DEF TranslateStreamChunk, GeminiChunk, GeminiText, Result
  <2>2. (\A i \in 1 .. 1 : i = 1) /\ 1 .. 0 = {}
    OBVIOUS
  <2>3. \A i \in 1 .. Len(q.events) : q.events[i].type # "content_block_delta"
    BY <2>1, <2>2, SmallSeqs
  <2> HIDE DEF q
  <2> QED
    BY <1>1, <1>2, <1>4, <2>3, NoTextBlocks DEF OpenInv
<1>5. CASE format = "anthropic"
  <2>1. q = AnthropicChunk(c, n)
    BY <1>5 DEF TranslateStreamChunk
  <2>2. CASE c.tools = <<>> /\ c.text
    <3>1. q = AnthropicText(n)
      BY <2>1, <2>2 DEF AnthropicChunk
    <3> HIDE DEF q
    <3>2. state' = AnthropicText(n).state /\ out' = out \o AnthropicText(n).events
      BY <1>1, <3>1
    <3> QED
      BY <1>1, <1>2, <1>5, <2>2, <3>2, TextOpens
  <2>3. CASE c.tools # <<>> \/ ~c.text
    <3>1. TextBeforeCalls' => BringsNoText(q.events)
      BY <1>1, <1>2, <1>5, <2>3 DEF LineEvents
    <3>2. BlockInv'
      <4> HIDE DEF q
      <4> QED
        BY <1>1, <1>2, <1>5, <3>1, NoTextBlocks
    <3>3. OpenInv'
      <4> SUFFICES ASSUME NoCalls' PROVE OpenInv'
        BY DEF OpenInv
      <4>1. c.tools = <<>> /\ ~c.text /\ NoCalls
        BY <1>2, <2>3
      <4>2. q.state = state /\ q.events = <<>>
        BY <2>1, <4>1 DEF AnthropicChunk, Result
      <4> HIDE DEF q
      <4>3. out' = out
        <5>1. PICK S : out \in Seq(S)
          BY <1>1 DEF IsSeq
        <5>2. out \o <<>> = out
          BY <5>1
        <5> QED
          BY <1>1, <4>2, <5>2
      <4> QED
        BY <1>1, <1>5, <4>1, <4>2, <4>3 DEF OpenInv, OpenText
    <3> QED
      BY <3>2, <3>3
  <2> QED
    BY <2>2, <2>3
<1> QED
  BY <1>3, <1>4, <1>5 DEF TypeInv

LEMMA DoneBlocks ==
  ASSUME TypeInv, BlockInv, ended' = "done", NEW e, DoneEvents(e), out' = out \o e,
         UNCHANGED <<format, sent>>
  PROVE  BlockInv' /\ OpenInv'
<1>1. BlockInv'
  BY NoTextBlocks DEF TypeInv, DoneEvents, TextBeforeCalls
<1>2. OpenInv'
  BY DEF OpenInv
<1> QED
  BY <1>1, <1>2

-----------------------------------------------------------------------------
(* An OpenAI client has the arguments of every call so far.                *)
ArgsInv == format = "openai" => \A k : Lists(out, ArgsEvents(k), SaidArgs(k))

LEMMA LineArgs ==
  ASSUME TypeInv, ArgsInv, NEW c \in Lines, format = "openai", format' = format,
         out' = out \o OpenAIChunk(c, Len(sent) + 1).events, sent' = Append(sent, c)
  PROVE  ArgsInv'
<1> DEFINE n == Len(sent) + 1
           x == [type |-> "chunk", text |-> c.text, tools |-> c.tools, line |-> n]
           e == OpenAIChunk(c, n).events
<1>1. e = <<x>>
  BY DEF OpenAIChunk, Result
<1>2. x.type = "chunk" /\ x.tools = c.tools /\ x.line = n
  OBVIOUS
<1> HIDE DEF x
<1>3. IsSeq(out) /\ IsSeq(e) /\ Len(e) = 1 /\ e[1] = x /\ 1 \in 1 .. Len(e) /\ \A i \in 1 .. Len(e) : i = 1
  <2>1. 1 \in 1 .. 1 /\ \A i \in 1 .. 1 : i = 1
    OBVIOUS
  <2> HIDE DEF e
  <2> QED
    BY <1>1, <2>1, SmallSeqs DEF TypeInv
<1> SUFFICES ASSUME NEW k PROVE Lists(out', ArgsEvents(k)', SaidArgs(k)')
  BY DEF ArgsInv
<1>4. /\ n \in Nat /\ \A m \in SaidArgs(k) : m < n
      /\ SaidArgs(k)' = IF Carries(c.tools, k) THEN SaidArgs(k) \cup {n} ELSE SaidArgs(k)
  BY OneMoreLine DEF TypeInv
<1>5. Lists(out, ArgsEvents(k), SaidArgs(k)) /\ ArgsEvents(k) \subseteq DOMAIN out
  BY DEF ArgsInv, ArgsEvents
<1>6. out' = out \o e
  OBVIOUS
<1> HIDE DEF e, n
<1>7. CASE Carries(c.tools, k)
  <2>1. /\ DOMAIN out' = DOMAIN out \cup {Len(out) + 1} /\ out'[Len(out) + 1] = x
        /\ \A i \in DOMAIN out : out'[i] = out[i]
    <3>1. /\ Len(out) \in Nat /\ DOMAIN out = 1 .. Len(out) /\ DOMAIN out' = 1 .. Len(out')
          /\ Len(out') = Len(out) + 1 /\ out'[Len(out) + 1] = x
          /\ \A i \in DOMAIN out : out'[i] = out[i]
      BY <1>3, <1>6, OutGrows
    <3> QED
      BY <3>1
  <2>2. ArgsEvents(k)' = ArgsEvents(k) \cup {Len(out) + 1}
    BY <1>2, <1>7, <2>1 DEF ArgsEvents
  <2>3. 1 \in 1 .. Len(e) /\ e[1].line = n
    BY <1>2, <1>3
  <2>4. Lists(out \o e, ArgsEvents(k) \cup {Len(out) + 1}, SaidArgs(k) \cup {n})
    BY <1>3, <1>4, <1>5, <2>3, BringsMore
  <2> QED
    BY <1>4, <1>6, <1>7, <2>2, <2>4
<1>8. CASE ~Carries(c.tools, k)
  <2>1. ArgsEvents(k)' = ArgsEvents(k)
    BY <1>2, <1>3, <1>6, <1>8, OutGrows DEF ArgsEvents
  <2> QED
    BY <1>3, <1>4, <1>5, <1>6, <1>8, <2>1, BringsSame
<1> QED
  BY <1>7, <1>8

LEMMA DoneArgs ==
  ASSUME TypeInv, ArgsInv, NEW e, DoneEvents(e), out' = out \o e, UNCHANGED <<format, sent>>
  PROVE  ArgsInv'
<1>1. IsSeq(out) /\ IsSeq(e)
  BY DEF TypeInv, DoneEvents
<1> SUFFICES ASSUME format = "openai", NEW k PROVE Lists(out', ArgsEvents(k)', SaidArgs(k)')
  BY DEF ArgsInv
<1>2. ArgsEvents(k)' = ArgsEvents(k) /\ ArgsEvents(k) \subseteq DOMAIN out
  BY <1>1, OutGrows DEF ArgsEvents, DoneEvents
<1>3. SaidArgs(k)' = SaidArgs(k)
  BY DEF SaidArgs
<1> QED
  BY <1>1, <1>2, <1>3, BringsSame DEF ArgsInv

-----------------------------------------------------------------------------
(* The one call of an answer to a Gemini client, as it is put together and *)
(* as it is delivered.                                                     *)
Pending(k) ==
  /\ state.functionCall = k /\ IsSeq(state.functionCallArgs)
  /\ InOrder(state.functionCallArgs, SaidArgs(k))

CallInv ==
  format = "gemini" =>
    \A k : Started \subseteq {k} =>
      /\ {"functionCall", "functionCallArgs"} \subseteq DOMAIN state
      /\ Started = {k} => IF ended = "no" THEN Pending(k) ELSE ended = "done" => GotCall(k)

LEMMA OneFragment ==
  ASSUME NEW c, NEW f, NEW n, c.tools = <<f>>
  PROVE  GeminiChunk(c, n).state = GeminiFragment(state, f, n)
<1> DEFINE step(st, i) == GeminiFragment(st, c.tools[i], n)
           body(it, s) == IF s = {} THEN state ELSE step(it[s \ {Max(s)}], Max(s))
           fold == CHOOSE it : it = [s \in SUBSET {1} |-> body(it, s)]
           all == GeminiChunk(c, n).state
<1>1. DOMAIN c.tools = {1} /\ c.tools # <<>> /\ c.tools[1] = f
  OBVIOUS
<1>2. all = fold[DOMAIN c.tools]
  BY <1>1 DEF GeminiChunk, FoldLeft, MapThenFoldSet, Result
<1> HIDE DEF all, step
<1>3. {1} # {} /\ {1} \ {1} = {} /\ \A s \in SUBSET {1} : s = {} \/ s = {1}
  OBVIOUS
<1>4. \E it : it = [s \in SUBSET {1} |-> body(it, s)]
  <2> DEFINE w == [s \in SUBSET {1} |-> IF s = {} THEN state ELSE step(state, 1)]
  <2>1. w[{}] = state /\ w[{1}] = step(state, 1)
    BY <1>3
  <2>2. w = [s \in SUBSET {1} |-> w[s]]
    OBVIOUS
  <2> HIDE DEF w
  <2>3. w[{}] = body(w, {}) /\ w[{1}] = body(w, {1})
    BY <1>3, <2>1, MaxFacts
  <2>4. w = [s \in SUBSET {1} |-> body(w, s)]
    <3> HIDE DEF body
    <3>1. \A s \in SUBSET {1} : w[s] = body(w, s)
      BY <1>3, <2>3
    <3> QED
      BY <2>2, <3>1
  <2> HIDE DEF body
  <2> QED
    BY <2>4
<1>5. fold = [s \in SUBSET {1} |-> body(fold, s)]
  BY <1>4
<1> HIDE DEF fold
<1>6. fold[{}] = body(fold, {}) /\ fold[{1}] = body(fold, {1})
  BY <1>5
<1>7. all = step(state, 1)
  BY <1>1, <1>2, <1>3, <1>6, MaxFacts
<1> QED
  BY <1>1, <1>7 DEF all, step

(* One fragment more, or none.                                             *)
LEMMA InOrderMore ==
  ASSUME NEW s, IsSeq(s), NEW lines, InOrder(s, lines), NEW n \in Nat, \A m \in lines : m < n
  PROVE  InOrder(s \o <<n>>, lines \cup {n})
<1> DEFINE t == s \o <<n>>
<1>1. /\ Len(s) \in Nat /\ DOMAIN s = 1 .. Len(s) /\ DOMAIN t = 1 .. Len(t) /\ Len(t) = Len(s) + 1
      /\ \A i \in 1 .. Len(s) : t[i] = s[i]
      /\ IsSeq(<<n>>) /\ Len(<<n>>) = 1 /\ <<n>>[1] = n /\ 1 \in 1 .. 1
  BY SmallSeqs, SeqFacts, ConcatFacts
<1>2. t[Len(s) + 1] = n
  BY <1>1, ConcatFacts
<1> HIDE DEF t
<1>3. /\ DOMAIN t = DOMAIN s \cup {Len(s) + 1}
      /\ \A i \in DOMAIN s : i \in Int /\ i < Len(s) + 1 /\ t[i] = s[i] /\ s[i] \in lines
  BY <1>1 DEF InOrder, Range
<1>4. Range(t) = lines \cup {n}
  BY <1>2, <1>3 DEF InOrder, Range
<1>5. ASSUME NEW i \in DOMAIN t, NEW j \in DOMAIN t, i < j PROVE t[i] < t[j]
  <2>1. i \in DOMAIN s
    BY <1>1, <1>3, <1>5
  <2>2. CASE j \in DOMAIN s
    BY <1>3, <1>5, <2>1, <2>2 DEF InOrder
  <2>3. CASE j = Len(s) + 1
    BY <1>2, <1>3, <2>1, <2>3
  <2> QED
    BY <1>3, <2>2, <2>3
<1> QED
  BY <1>4, <1>5 DEF InOrder, t

LEMMA InOrderSmall ==
  /\ InOrder(<<>>, {})
  /\ \A n : InOrder(<<n>>, {n})
<1>1. DOMAIN <<>> = {} /\ \A n : DOMAIN <<n>> = {1} /\ <<n>>[1] = n
  OBVIOUS
<1> QED
  BY <1>1 DEF InOrder, Range


LEMMA LineCall ==
  ASSUME TypeInv, CallInv, NEW c \in NextLines, format = "gemini", ended = "no",
         state' = GeminiChunk(c, Len(sent) + 1).state, sent' = Append(sent, c),
         UNCHANGED <<format, ended>>
  PROVE  CallInv'
<1> DEFINE n == Len(sent) + 1
<1> DEFINE fields == {"functionCall", "functionCallArgs"}
<1> SUFFICES ASSUME NEW k, Started' \subseteq {k}
             PROVE  /\ fields \subseteq DOMAIN state'
                    /\ Started' = {k} => Pending(k)'
  BY DEF CallInv
<1>1. /\ n \in Nat /\ \A m \in SaidArgs(k) : m < n
      /\ SaidArgs(k)' = IF Carries(c.tools, k) THEN SaidArgs(k) \cup {n} ELSE SaidArgs(k)
      /\ Started' = Started \cup {c.tools[i].index : i \in DOMAIN c.tools}
      /\ SaidArgs(k) # {} => k \in Started
  BY NextLineFacts, OneMoreLine, OneMoreStarted DEF TypeInv
<1>2. fields \subseteq DOMAIN state /\ (Started = {k} => Pending(k))
  BY <1>1 DEF CallInv
<1> HIDE DEF n
<1>3. CASE c.tools = <<>>
  <2>1. DOMAIN c.tools = {}
    BY <1>3
  <2>2. Started' = Started /\ SaidArgs(k)' = SaidArgs(k)
    BY <1>1, <2>1 DEF Carries
  <2>3. state' = state
    BY <1>3 DEF GeminiChunk, Result
  <2> QED
    BY <1>2, <2>2, <2>3 DEF Pending
<1>4. ASSUME NEW f \in Fragments, c.tools = <<f>>, Legal(f, Started)
      PROVE  fields \subseteq DOMAIN state' /\ Pending(k)'
  <2>1. DOMAIN c.tools = {1} /\ c.tools[1] = f
    BY <1>4
  <2>2. Started' = Started \cup {f.index} /\ (Carries(c.tools, k) <=> f.index = k /\ f.args)
    BY <1>1, <2>1 DEF Carries
  <2>3. f.index = k
    BY <2>2
  <2>4. state' = GeminiFragment(state, f, n)
    BY <1>4, OneFragment DEF n
  <2>5. CASE f.first
    <3>1. Started = {} /\ SaidArgs(k) = {}
      BY <1>1, <1>4, <2>2, <2>3, <2>5 DEF Legal
    <3>2. SaidArgs(k)' = IF f.args THEN {n} ELSE {}
      BY <1>1, <2>2, <2>3, <3>1
    <3>3. /\ state'.functionCall = k /\ state'.functionCallArgs = IF f.args THEN <<n>> ELSE <<>>
          /\ fields \subseteq DOMAIN state'
      BY <1>2, <2>3, <2>4, <2>5 DEF GeminiFragment
    <3> QED
      BY <3>2, <3>3, InOrderSmall, SmallSeqs DEF Pending
  <2>6. CASE ~f.first
    <3>1. Started = {k} /\ f.args
      BY <1>4, <2>2, <2>3, <2>6 DEF Legal
    <3>2. SaidArgs(k)' = SaidArgs(k) \cup {n}
      BY <1>1, <2>2, <2>3, <3>1
    <3>3. /\ state'.functionCall = k /\ state'.functionCallArgs = state.functionCallArgs \o <<n>>
          /\ fields \subseteq DOMAIN state'
      BY <1>2, <2>4, <2>6, <3>1 DEF GeminiFragment, Pending
    <3>4. IsSeq(state.functionCallArgs) /\ InOrder(state.functionCallArgs, SaidArgs(k))
      BY <1>2, <3>1 DEF Pending
    <3>5. IsSeq(state.functionCallArgs \o <<n>>)
      BY <3>4, SmallSeqs, ConcatFacts
    <3>6. InOrder(state.functionCallArgs \o <<n>>, SaidArgs(k) \cup {n})
      BY <1>1, <3>4, InOrderMore
    <3> QED
      BY <3>2, <3>3, <3>5, <3>6 DEF Pending
  <2> QED
    BY <2>5, <2>6
<1>5. ASSUME NEW f \in Fragments, NEW g \in Fragments, c.tools = <<f, g>>, f.index # g.index
      PROVE  FALSE
  <2>1. DOMAIN c.tools = {1, 2} /\ c.tools[1] = f /\ c.tools[2] = g
    BY <1>5
  <2>2. f.index \in Started' /\ g.index \in Started'
    BY <1>1, <2>1
  <2> QED
    BY <1>5, <2>2
<1> QED
  BY <1>3, <1>4, <1>5, NextTools

LEMMA DoneCall ==
  ASSUME TypeInv, CallInv, format = "gemini", ended = "no", ended' = "done",
         out' = out \o GeminiDone.events, UNCHANGED <<format, sent, state>>
  PROVE  CallInv'
<1>0. Started' = Started
  BY DEF Started
<1> SUFFICES ASSUME NEW k, Started = {k} PROVE GotCall(k)'
  BY <1>0 DEF CallInv
<1> DEFINE x == [type |-> "STOP", call |-> state.functionCall, args |-> state.functionCallArgs]
<1>1. out' = out \o <<x>>
  BY DEF GeminiDone, Result
<1>2. Pending(k)
  BY DEF CallInv
<1>3. x.type = "STOP" /\ x.call = k /\ InOrder(x.args, SaidArgs(k))
  BY <1>2 DEF Pending
<1> HIDE DEF x
<1>4. IsSeq(out) /\ IsSeq(<<x>>) /\ Len(<<x>>) = 1 /\ <<x>>[1] = x /\ 1 \in 1 .. 1
  BY SmallSeqs DEF TypeInv
<1>5. Len(out) + 1 \in DOMAIN out' /\ out'[Len(out) + 1] = x
  BY <1>1, <1>4, OutGrows
<1>6. SaidArgs(k)' = SaidArgs(k)
  BY DEF SaidArgs
<1> QED
  BY <1>3, <1>5, <1>6 DEF GotCall

-----------------------------------------------------------------------------
TranslateInv == TypeInv /\ TextInv /\ BlockInv /\ OpenInv /\ ArgsInv /\ CallInv /\ CompletionTold

LEMMA InitInv == Init => TranslateInv
<1> SUFFICES ASSUME Init PROVE TranslateInv
  OBVIOUS
<1>1. /\ sent = <<>> /\ out = <<>> /\ ended = "no" /\ DOMAIN sent = {} /\ DOMAIN out = {}
      /\ 1 .. Len(out) = {} /\ 1 .. Len(sent) = {}
  BY DEF Init
<1>2. TypeInv
  BY <1>1, TranslateAssumption, SmallSeqs, EmptySeq DEF Init, TypeInv
<1>3. Lists(out, {}, {})
  BY DEF Lists
<1>4. TextPlaces = {} /\ SaidText = {}
  BY <1>1 DEF TextPlaces, SaidText
<1>5. ASSUME NEW k PROVE ArgsEvents(k) = {} /\ SaidArgs(k) = {} /\ Started = {}
  BY <1>1 DEF ArgsEvents, SaidArgs, Started
<1>6. CompletionTold
  BY <1>1 DEF CompletionTold, CompleteOnlyAtEnd, EndIsTold
<1>7. TextInv /\ ArgsInv /\ CallInv
  BY <1>3, <1>4, <1>5 DEF TextInv, ArgsInv, CallInv, Init, NewStreamState
<1>8. BlockInv /\ OpenInv
  BY <1>1 DEF BlockInv, OpenInv, Init, NewStreamState
<1> QED
  BY <1>2, <1>6, <1>7, <1>8 DEF TranslateInv

LEMMA NextInv == TranslateInv /\ [Next]_vars => TranslateInv'
<1> SUFFICES ASSUME TranslateInv, [Next]_vars PROVE TranslateInv'
  OBVIOUS
<1>0. TypeInv /\ TextInv /\ BlockInv /\ OpenInv /\ ArgsInv /\ CallInv /\ CompletionTold
  BY DEF TranslateInv
<1>1. ASSUME NEW c \in NextLines, Line(c) PROVE TranslateInv'
  <2> DEFINE r == TranslateStreamChunk(c, Len(sent) + 1)
             e == r.events
  <2>1. /\ ended = "no" /\ sent' = Append(sent, c) /\ state' = r.state /\ out' = out \o e
        /\ format' = format /\ ended' = ended /\ c \in Lines /\ Len(c.tools) <= 2
    BY <1>1, NextLineFacts DEF Line, Emit
  <2>2. /\ format = "openai" => r = OpenAIChunk(c, Len(sent) + 1)
        /\ format = "anthropic" => r = AnthropicChunk(c, Len(sent) + 1)
        /\ format = "gemini" => r = GeminiChunk(c, Len(sent) + 1)
    BY DEF TranslateStreamChunk
  <2>3. format = "openai" \/ format = "anthropic" \/ format = "gemini"
    BY <1>0 DEF TypeInv
  <2>11. Emit(r)
    BY <1>1 DEF Line
  <2> HIDE DEF r
  <2>4. LineEvents(e, c, Len(sent) + 1)
    BY <2>1, <2>2, <2>3, OpenAILine, AnthropicLine, GeminiLine
  <2>5. IsSeq(out) /\ IsSeq(e)
    BY <1>0, <2>4 DEF TypeInv, LineEvents
  <2>6. TypeInv'
    BY <1>0, <2>1, <2>5, OutGrows, OneMoreLine DEF TypeInv
  <2>7. TextInv'
    BY <1>0, <2>1, <2>4, LineText
  <2>12. BlockInv' /\ OpenInv'
    BY <1>0, <2>1, <2>4, <2>11, LineBlocks DEF r
  <2>8. ArgsInv'
    BY <1>0, <2>1, <2>2, LineArgs DEF ArgsInv
  <2>9. CallInv'
    BY <1>0, <2>1, <2>2, LineCall DEF CallInv
  <2>10. CompletionTold'
    <3>1. \A i \in 1 .. Len(out) : ~IsFinal(out[i])
      BY <1>0, <2>1 DEF CompletionTold, CompleteOnlyAtEnd
    <3>2. \A i \in 1 .. Len(out') : ~IsFinal(out'[i])
      BY <2>1, <2>4, <2>5, <3>1, OutGrows DEF LineEvents
    <3> QED
      BY <2>1, <3>2 DEF CompletionTold, CompleteOnlyAtEnd, EndIsTold
  <2> QED
    BY <2>6, <2>7, <2>8, <2>9, <2>10, <2>12 DEF TranslateInv
<1>2. CASE Done
  <2> DEFINE e == TranslateDone.events
  <2>1. /\ ended = "no" /\ ended' = "done" /\ out' = out \o e /\ UNCHANGED <<format, sent>>
    BY <1>2 DEF Done, Emit
  <2>2. DoneEvents(e)
    BY <1>0, DoneEnds DEF TypeInv
  <2>3. format = "gemini" => e = GeminiDone.events /\ UNCHANGED state
    BY <1>2 DEF TranslateDone, GeminiDone, Result, Done, Emit
  <2> HIDE DEF e
  <2>4. IsSeq(out) /\ IsSeq(e)
    BY <1>0, <2>2 DEF TypeInv, DoneEvents
  <2>5. TypeInv'
    BY <1>0, <2>1, <2>4, OutGrows DEF TypeInv
  <2>6. TextInv' /\ ArgsInv'
    BY <1>0, <2>1, <2>2, DoneText, DoneArgs
  <2>9. BlockInv' /\ OpenInv'
    BY <1>0, <2>1, <2>2, DoneBlocks
  <2>7. CallInv'
    BY <1>0, <2>1, <2>3, DoneCall DEF CallInv
  <2>8. CompletionTold'
    <3>1. \A i \in 1 .. Len(out) : ~IsFinal(out[i])
      BY <1>0, <2>1 DEF CompletionTold, CompleteOnlyAtEnd
    <3>2. /\ Len(out) \in Nat /\ Len(e) \in Nat \ {0} /\ Len(out') = Len(out) + Len(e) /\ IsSeq(out')
      BY <2>1, <2>2, <2>4, OutGrows DEF DoneEvents
    <3>3. \A i \in 1 .. Len(out') : IsFinal(out'[i]) => i = Len(out')
      BY <2>1, <2>2, <2>4, <3>1, <3>2, OutGrows DEF DoneEvents
    <3>4. Len(e) \in 1 .. Len(e) /\ IsFinal(out'[Len(out')])
      BY <2>1, <2>2, <2>4, <3>2, OutGrows DEF DoneEvents
    <3>5. out' # <<>>
      BY <3>2, SmallSeqs
    <3> QED
      BY <2>1, <3>3, <3>4, <3>5 DEF CompletionTold, CompleteOnlyAtEnd, EndIsTold
  <2> QED
    BY <2>5, <2>6, <2>7, <2>8, <2>9 DEF TranslateInv
<1>3. CASE Break
  <2>1. ended = "no" /\ ended' = "broken" /\ UNCHANGED <<format, sent, state, out>>
    BY <1>3 DEF Break, AfterError
  <2>2. TypeInv' /\ TextInv' /\ ArgsInv'
    BY <1>0, <2>1 DEF TypeInv, TextInv, ArgsInv, TextPlaces, SaidText, Unmixed, ArgsEvents, SaidArgs
  <2>3. Started' = Started
    BY <2>1 DEF Started
  <2>5. BlockInv' /\ OpenInv'
    BY <1>0, <2>1 DEF BlockInv, OpenInv, InTextBlock, TextBeforeCalls
  <2>4. CallInv' /\ CompletionTold'
    BY <1>0, <2>1, <2>3 DEF CallInv, CompletionTold, CompleteOnlyAtEnd, EndIsTold
  <2> QED
    BY <2>2, <2>4, <2>5 DEF TranslateInv
<1>4. CASE UNCHANGED vars
  <2>1. UNCHANGED <<format, sent, state, out, ended>>
    BY <1>4 DEF vars
  <2>2. TypeInv' /\ TextInv' /\ ArgsInv'
    BY <1>0, <2>1 DEF TypeInv, TextInv, ArgsInv, TextPlaces, SaidText, Unmixed, ArgsEvents, SaidArgs
  <2>5. BlockInv' /\ OpenInv'
    BY <1>0, <2>1 DEF BlockInv, OpenInv, OpenText, NoCalls, InTextBlock, TextBeforeCalls
  <2>3. CompletionTold'
    BY <1>0, <2>1 DEF CompletionTold, CompleteOnlyAtEnd, EndIsTold
  <2>4. CallInv'
    <3>1. Started' = Started /\ \A k : SaidArgs(k)' = SaidArgs(k)
      BY <2>1 DEF Started, SaidArgs
    <3>2. \A k : format = "gemini" => (GotCall(k)' <=> GotCall(k))
      BY <2>1, <3>1 DEF GotCall
    <3>3. \A k : Pending(k)' <=> Pending(k)
      BY <2>1, <3>1 DEF Pending
    <3> QED
      BY <1>0, <2>1, <3>1, <3>2, <3>3 DEF CallInv
  <2> QED
    BY <2>2, <2>3, <2>4, <2>5 DEF TranslateInv
<1> QED
  BY <1>1, <1>2, <1>3, <1>4 DEF Next

LEMMA Invariance == Spec => []TranslateInv
BY InitInv, NextInv, PTL DEF Spec

-----------------------------------------------------------------------------
(* The client has the text of the upstream, in order, each piece once, of  *)
(* an answer of any length, and an Anthropic client has all of it in an    *)
(* open text block: of answers whose text comes before their calls         *)
(* (Anthropic), that mix no text and calls in a line (Gemini), or of any   *)
(* answer (OpenAI).                                                        *)
THEOREM TextCorrect == Spec => []TextPreserved
<1>1. TranslateInv => TextPreserved
  <2> SUFFICES ASSUME TranslateInv, TextKept PROVE Brings(TextEvents, SaidText)
    BY DEF TextPreserved
  <2>1. TypeInv /\ TextInv /\ BlockInv
    BY DEF TranslateInv
  <2>2. DOMAIN out = 1 .. Len(out)
    BY <2>1, SeqFacts DEF TypeInv
  <2>3. (format = "anthropic" => TextBeforeCalls) /\ (format = "openai" \/ Unmixed)
    <3>1. TextBeforeCalls => Unmixed
      <4>1. ASSUME NEW n \in 1 .. Len(sent) PROVE ~(n < n)
        OBVIOUS
      <4> QED
        BY <4>1 DEF TextBeforeCalls, Unmixed
    <3> QED
      BY <2>1, <3>1 DEF TextKept, TypeInv
  <2>4. TextEvents = TextPlaces
    BY <2>1, <2>2, <2>3 DEF TextEvents, TextPlaces, BlockInv
  <2> QED
    BY <2>1, <2>3, <2>4 DEF TextInv, Brings, Lists
<1> QED
  BY <1>1, Invariance, PTL

(* A finished answer has every call with its own arguments: for an OpenAI  *)
(* client however many calls interleave, for a Gemini client when there is *)
(* one, put together from any number of fragments.                         *)
THEOREM CallsCorrect == Spec => []CallsPreserved
<1>1. TranslateInv => CallsPreserved
  <2> SUFFICES ASSUME TranslateInv, ended = "done", NEW k \in Started,
                      format = "openai" \/ (format = "gemini" /\ Cardinality(Started) = 1)
               PROVE  GotCall(k)
    BY DEF CallsPreserved
  <2>1. CASE format = "openai"
    BY <2>1 DEF TranslateInv, ArgsInv, GotCall, Brings, Lists
  <2>2. CASE format = "gemini" /\ Cardinality(Started) = 1
    <3>1. IsFiniteSet(Started)
      <4>1. Started \subseteq 0 .. MaxCalls - 1 /\ MaxCalls - 1 \in Int
        BY TranslateAssumption DEF Started
      <4>2. IsFiniteSet(0 .. MaxCalls - 1)
        BY <4>1, FS_Interval
      <4> QED
        BY <4>1, <4>2, FS_Subset
    <3>2. Started = {k}
      BY <2>2, <3>1, FS_Singleton
    <3> QED
      BY <2>2, <3>2 DEF TranslateInv, CallInv
  <2> QED
    BY <2>1, <2>2
<1> QED
  BY <1>1, Invariance, PTL

(* The client is told once, and last, that the answer is complete, and     *)
(* only if the upstream's is: not by a stream that broke off.              *)
THEOREM CompletionCorrect == Spec => []CompletionTold
<1>1. TranslateInv => CompletionTold
  BY DEF TranslateInv
<1> QED
  BY <1>1, Invariance, PTL
=============================================================================
