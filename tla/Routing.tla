------------------------------ MODULE Routing ------------------------------
(***************************************************************************)
(* Where the Go proxy sends a request: the handler that takes it, the      *)
(* routing rule its model matches, the keyword router that reads the       *)
(* conversation, the provider entry and the instance loaded at startup.    *)
(* Every request carries the whole conversation so far, so a turn goes on  *)
(* taking part in the routing of later requests.                           *)
(*                                                                         *)
(* A text is the set of keywords it contains; a name is a value, and       *)
(* NameContains says which patterns are part of which model's name.  The   *)
(* models of a provider are those its entry has at the end of the startup, *)
(* fetched ones included.  Hosts and paths are the kinds the code tells    *)
(* apart.  A rule or a default with no target model counts as one with no  *)
(* target, "".                                                             *)
(***************************************************************************)
EXTENDS Integers, Sequences, FiniteSets, SequencesExt, FiniteSetsExt

CONSTANTS
  Configs,    \* contents of model_routing.json: rules, providers, router
  Requests,   \* what a client may send: via, host, path, post, model
  Turns,      \* what the user may say: tag, words, blank
  NameContains,   \* pairs of a pattern and a model whose name contains it
  MitmHosts,  \* the hosts of shouldMitm
  MaxTurns    \* bound: turns of the conversation

ASSUME RoutingAssumption ==
  /\ MaxTurns \in Nat \ {0}
  /\ \A c \in Configs :
       /\ Len(c.rules) \in Nat /\ DOMAIN c.rules = 1 .. Len(c.rules)
       /\ Len(c.providers) \in Nat \ {0} /\ DOMAIN c.providers = 1 .. Len(c.providers)

VARIABLES
  config,   \* the configuration read at startup
  history,  \* the user's turns in the conversation, blank ones are tool results
  request,  \* the last request
  outcome   \* where it went

vars == <<config, history, request, outcome>>

NoRequest == [via |-> "none"]
To(kind, id, entry) == [kind |-> kind, id |-> id, entry |-> entry]
Unsent == To("none", "", 0)

Init ==
  /\ config \in Configs
  /\ history = <<>> /\ request = NoRequest /\ outcome = Unsent

-----------------------------------------------------------------------------
(* ExtractLatestUserContent.                                               *)
Tagged(h)  == {i \in DOMAIN h : h[i].tag}
Written(h) == {i \in DOMAIN h : ~h[i].blank}

FirstTaggedWords(h) ==   \* mutant: the search for the tag runs forwards
  IF Tagged(h) # {} THEN h[Min(Tagged(h))].words
  ELSE IF Written(h) # {} THEN h[Max(Written(h))].words ELSE {}

(* The latest turn with a <USER_REQUEST> tag, else the latest that is not  *)
(* blank.                                                                  *)
LatestWords(h) ==
  IF Tagged(h) # {} THEN h[Max(Tagged(h))].words
  ELSE IF Written(h) # {} THEN h[Max(Written(h))].words ELSE {}

-----------------------------------------------------------------------------
FirstIndex(s, Test(_)) ==
  LET hits == {i \in DOMAIN s : Test(s[i])} IN IF hits = {} THEN 0 ELSE Min(hits)

Considered(rule, source) ==
  rule.enabled /\ (source = "" \/ rule.source \in {"", source})

(* FindMatchingRule: an exact match, else a pattern within the name.       *)
FindMatchingRule(model, source) ==
  LET exact  == FirstIndex(config.rules, LAMBDA r : Considered(r, source) /\ r.pattern = model)
      within == FirstIndex(config.rules,
                  LAMBDA r : Considered(r, source) /\ <<r.pattern, model>> \in NameContains)
  IN  IF exact # 0 THEN exact ELSE within

SourceType(format) == IF format = "gemini" THEN "google" ELSE format

MatchedAnySource(format, model) == FindMatchingRule(model, "")   \* mutant: one search

(* The rule a handler uses: one of its own source type, else any.          *)
MatchedRule(format, model) ==
  LET own == FindMatchingRule(model, SourceType(format))
  IN  IF own # 0 THEN own ELSE FindMatchingRule(model, "")

(* matchKeywords.                                                          *)
MatchKeywords(rule, words) ==
  IF rule.mode = "all" THEN rule.keywords \subseteq words ELSE rule.keywords \cap words # {}

(* FindLLMRouterMatch; text without a word of it matches nothing.          *)
FindLLMRouterMatch(words) ==
  FirstIndex(config.router.rules,
    LAMBDA r : r.enabled /\ r.keywords # {} /\ MatchKeywords(r, words))

(* ResolveLLMRouterTarget.                                                 *)
ResolveLLMRouterTarget(rule, format, h) ==
  LET hit == FindLLMRouterMatch(LatestWords(h))
  IN  IF rule.provider # "llm_router" THEN rule.provider
      ELSE IF hit # 0 /\ (config.router.rules[hit].provider # "gemini_builtin" \/ format = "gemini")
        THEN config.router.rules[hit].provider
      ELSE config.router.default

(* The provider that lists the model, when no rule matches.                *)
DirectMatch(model) ==
  LET hit == FirstIndex(config.providers, LAMBDA p : p.enabled /\ model \in p.models)
  IN  IF hit = 0 THEN "" ELSE config.providers[hit].id

Target(format, model, h) ==
  LET rule == MatchedRule(format, model)
  IN  IF rule # 0 THEN ResolveLLMRouterTarget(config.rules[rule], format, h)
                  ELSE DirectMatch(model)

-----------------------------------------------------------------------------
(* GetProvider of the configuration: among enabled entries with the id the *)
(* first with a key, else the first.                                       *)
GetProvider(id) ==
  LET keyed == FirstIndex(config.providers, LAMBDA p : p.enabled /\ p.id = id /\ p.key)
      any   == FirstIndex(config.providers, LAMBDA p : p.enabled /\ p.id = id)
  IN  IF keyed # 0 THEN keyed ELSE any

LoadedUnchecked(p) == p.enabled   \* mutant: a type without a factory is loaded

(* LoadProvidersFromConfig makes an instance of the entry: its type has a  *)
(* factory, which asks for an endpoint.                                    *)
Loads(p) == p.enabled /\ p.type = "openai" /\ p.endpoint

(* GetProvider of the registry: of entries with one id the last replaced   *)
(* the others at startup.                                                  *)
Instance(id) ==
  LET hits == {i \in DOMAIN config.providers : config.providers[i].id = id /\ Loads(config.providers[i])}
  IN  IF hits = {} THEN 0 ELSE Max(hits)

(* FindTranslator: every format has one, to the openai type.               *)
FindTranslator(entry) == config.providers[entry].type = "openai"

-----------------------------------------------------------------------------
(* ServeHTTP of a direct call: the host by the path.                       *)
HostOfPath(path) ==
  CASE path = "messages" -> "anthropic"
    [] path = "generateContent" -> "google"
    [] OTHER -> "openai"

(* FindHandler: Anthropic, Gemini, OpenAI, in the order main registers.    *)
FindHandler(host, path) ==
  CASE host = "anthropic" /\ path = "messages" -> "anthropic"
    [] host = "google" -> "gemini"
    [] host = "openai" \/ path = "chat" -> "openai"
    [] OTHER -> "none"

(* A nil response: goproxy forwards the request, ServeHTTP answers 502.    *)
Nil(q) == To(IF q.via = "connect" THEN "upstream" ELSE "502", "", 0)

(* geminiPassthrough; a direct call has a ProxyCtx without a proxy, whose  *)
(* RoundTrip panics, and net/http drops the connection.                    *)
Passthrough(q, id) ==
  IF q.via = "connect" THEN To("upstream", id, 0) ELSE To("aborted", id, 0)

(* What a handler does when it routes the request nowhere.                 *)
Back(q, format) == IF format = "gemini" THEN Passthrough(q, "") ELSE Nil(q)

(* The part common to the handlers, from the model on.                     *)
Dispatch(q, format, h, translates) ==
  LET id    == Target(format, q.model, h)
      entry == GetProvider(id)
  IN  IF id = "" THEN Back(q, format)
      ELSE IF id = "gemini_builtin" /\ format = "gemini" THEN Passthrough(q, id)
      ELSE IF entry = 0 THEN Back(q, format)
      ELSE IF ~FindTranslator(entry) \/ Instance(id) = 0 \/ ~translates THEN Back(q, format)
      ELSE To("routed", id, entry)

GeminiHandle(q, h, translates) ==
  CASE ~q.post /\ q.path # "fetchAvailableModels" -> Nil(q)
    [] q.path = "nonModelRpc" -> Passthrough(q, "")
    [] q.path = "fetchAvailableModels" -> To("models", "", 0)
    [] q.model = "" -> Passthrough(q, "")
    [] OTHER -> Dispatch(q, "gemini", h, translates)

(* Handle of the OpenAI and the Anthropic handler.                         *)
OtherHandle(q, format, h, translates) ==
  IF q.model = "" THEN Nil(q) ELSE Dispatch(q, format, h, translates)

Handle(q, format, h, translates) ==
  CASE format = "none" -> To(IF q.via = "connect" THEN "upstream" ELSE "404", "", 0)
    [] format = "gemini" -> GeminiHandle(q, h, translates)
    [] OTHER -> OtherHandle(q, format, h, translates)

Host(q) == IF q.via = "connect" THEN q.host ELSE HostOfPath(q.path)
Format(q) == FindHandler(Host(q), q.path)

(* A request with the conversation h: tunnelled unread, or handled.        *)
Serve(q, h) ==
  /\ request' = q
  /\ \E translates \in BOOLEAN :
       outcome' = IF q.via = "connect" /\ q.host \notin MitmHosts
                    THEN To("tunnel", "", 0) ELSE Handle(q, Format(q), h, translates)
  /\ UNCHANGED config

(* The user says something, and a request goes out with it.                *)
Say(t, q) ==
  /\ Len(history) < MaxTurns
  /\ history' = Append(history, t)
  /\ Serve(q, history')

(* The client sends the conversation again, or sends something without it. *)
Again(q) == Serve(q, history) /\ UNCHANGED history

Next == \E q \in Requests : Again(q) \/ \E t \in Turns : Say(t, q)

Spec == Init /\ [][Next]_vars

-----------------------------------------------------------------------------
(* What was said before a prompt has no say in the routing of the prompt   *)
(* or of anything behind it: wherever the conversation has a turn with the *)
(* tag, or, while none has it, one that is not blank, the target is that   *)
(* of a conversation that begins there.                                    *)
Prompt(i) == history[i].tag \/ (Tagged(history) = {} /\ ~history[i].blank)

EarlierTurnsIgnored ==
  \A q \in Requests, i \in DOMAIN history : Prompt(i) /\ Format(q) # "none" =>
    Target(Format(q), q.model, history) =
      Target(Format(q), q.model, SubSeq(history, i, Len(history)))

(* A rule for another client's format takes a request only when no rule    *)
(* for its own, nor one for all, matches the model.                        *)
OwnFormatFirst ==
  \A q \in Requests :
    LET rule == MatchedRule(Format(q), q.model) IN
    Format(q) # "none" /\ rule # 0
      /\ config.rules[rule].source \notin {"", SourceType(Format(q))}
    => \A i \in DOMAIN config.rules :
         LET r == config.rules[i] IN
         r.enabled /\ (r.pattern = q.model \/ <<r.pattern, q.model>> \in NameContains)
           => r.source \notin {"", SourceType(Format(q))}

(* One entry of an id chooses the translator, the instance of another may  *)
(* send the request: they are of one type all the same, and both enabled.  *)
TranslatorFitsInstance ==
  outcome.kind = "routed" =>
    LET chosen == config.providers[outcome.entry]
        sender == config.providers[Instance(outcome.id)]
    IN  chosen.type = sender.type /\ chosen.enabled /\ sender.enabled
=============================================================================
