----------------------------- MODULE MCRouting -----------------------------
(* A model-checking instance of Routing.                                   *)
EXTENDS Routing

Rule(pattern, source, enabled, provider) ==
  [pattern |-> pattern, source |-> source, enabled |-> enabled, provider |-> provider]

Rules ==
  {Rule("pro", "", TRUE, "p"), Rule("pro", "google", TRUE, "gemini_builtin"),
   Rule("pro-high", "openai", TRUE, "llm_router"), Rule("pro", "anthropic", TRUE, "llm_router"),
   Rule("pro", "google", FALSE, "p")}

Entry(id, enabled, key, type, models) ==
  [id |-> id, enabled |-> enabled, key |-> key, type |-> type, models |-> models,
   endpoint |-> TRUE]
NoEndpoint(entry) == [entry EXCEPT !.endpoint = FALSE]

ProviderLists ==
  {<<Entry("p", TRUE, TRUE, "openai", {"pro"}), Entry("q", FALSE, TRUE, "openai", {})>>,
   <<Entry("p", TRUE, FALSE, "openai", {}), Entry("p", TRUE, FALSE, "gemini", {}),
     NoEndpoint(Entry("q", TRUE, FALSE, "openai", {"pro"}))>>,
   <<Entry("p", TRUE, FALSE, "openai", {}), NoEndpoint(Entry("p", TRUE, TRUE, "openai", {}))>>}

Keyword(keywords, mode, provider) ==
  [keywords |-> keywords, mode |-> mode, enabled |-> TRUE, provider |-> provider]

Routers ==
  {[rules |-> <<>>, default |-> ""],
   [rules |-> <<Keyword({"css", "api"}, "all", "q"), Keyword({"css"}, "any", "gemini_builtin")>>,
    default |-> "p"]}

MCConfigs ==
  [rules : SeqOf(Rules, 2), providers : ProviderLists, router : Routers]

Connect(host, path, model) ==
  [via |-> "connect", host |-> host, path |-> path, post |-> TRUE, model |-> model]
Direct(path, model) ==
  [via |-> "direct", host |-> "", path |-> path, post |-> TRUE, model |-> model]

MCRequests ==
  {Connect("google", "generateContent", m) : m \in {"pro-high", "pro", ""}}
  \cup {Connect("anthropic", "messages", "pro-high"), Connect("openai", "chat", "pro-high"),
        Connect("google", "nonModelRpc", ""), Connect("google", "fetchAvailableModels", ""),
        Connect("other", "chat", "pro"),
        [Connect("google", "generateContent", "pro") EXCEPT !.post = FALSE]}
  \cup {Direct("generateContent", "pro-high"), Direct("messages", "pro"),
        Direct("chat", "pro-high"), Direct("nonModelRpc", "")}

Turn(tag, words) == [tag |-> tag, words |-> words, blank |-> FALSE]

MCTurns ==
  {Turn(TRUE, {"css"}), Turn(TRUE, {"css", "api"}), Turn(FALSE, {}), Turn(FALSE, {"css", "api"}),
   [tag |-> FALSE, words |-> {}, blank |-> TRUE]}

MCContains == {<<"pro", "pro">>, <<"pro-high", "pro-high">>, <<"pro", "pro-high">>}
=============================================================================
