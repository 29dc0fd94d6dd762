--------------------------- MODULE RoutingProofs ---------------------------
(***************************************************************************)
(* Theorems about Routing for any configuration, any requests and any      *)
(* conversation: which words route a request, which rule, and which entry  *)
(* of a provider.  They rest on three lemmas on the first index of a list  *)
(* that passes a test, and on the last one.                                *)
(***************************************************************************)
EXTENDS Routing, WellFoundedInduction, TLAPS

LEMMA LeastNatural ==
  ASSUME NEW T, T \subseteq Nat, T # {}
  PROVE  \E x \in T : \A y \in T : x <= y
<1> DEFINE R == OpToRel(<, Nat)
<1>1. PICK x \in T : \A y \in T : ~ (<<y, x>> \in R)
  <2>1. IsWellFoundedOn(R, Nat)
    BY NatLessThanWellFounded
  <2> HIDE DEF R
  <2> QED
    BY <2>1, WFMin
<1>2. \A y \in Nat : y < x => <<y, x>> \in R
  BY DEF OpToRel
<1> HIDE DEF R
<1>3. \A y \in T : ~ (y < x)
  BY <1>1, <1>2
<1> QED
  BY <1>3

LEMMA MinMember ==
  ASSUME NEW T, T \subseteq Nat, T # {}
  PROVE  Min(T) \in T
BY LeastNatural DEF Min

LEMMA MaxExists ==
  ASSUME NEW n \in Nat, NEW T, T \subseteq 1 .. n, T # {}
  PROVE  \E x \in T : \A y \in T : x >= y
<1> DEFINE U == {n - x : x \in T}
<1>1. \A x \in T : x \in Int /\ n - x \in Nat
  OBVIOUS
<1>2. \A x \in T : n - x \in U
  BY <1>1
<1>3. \A u \in U : \E x \in T : u = n - x
  OBVIOUS
<1> HIDE DEF U
<1>4. U \subseteq Nat /\ U # {}
  BY <1>1, <1>2, <1>3
<1>5. PICK u \in U : \A y \in U : u <= y
  BY <1>4, LeastNatural
<1>6. PICK x \in T : u = n - x
  BY <1>3
<1>7. \A y \in T : x >= y
  BY <1>1, <1>2, <1>5, <1>6
<1> QED
  BY <1>7

LEMMA MaxMember ==
  ASSUME NEW n \in Nat, NEW T, T \subseteq 1 .. n, T # {}
  PROVE  Max(T) \in T
BY MaxExists DEF Max

LEMMA MaxLargest ==
  ASSUME NEW n \in Nat, NEW T, T \subseteq 1 .. n, T # {}, NEW y \in T
  PROVE  Max(T) >= y
BY MaxExists DEF Max

(* The end of a range is its greatest member.                              *)
LEMMA MaxLast ==
  ASSUME NEW n \in Nat, NEW T, T \subseteq 1 .. n, n \in T
  PROVE  Max(T) = n
<1>1. \A y \in T : n >= y
  OBVIOUS
<1>2. Max(T) \in T /\ \A y \in T : Max(T) >= y
  BY <1>1 DEF Max
<1>3. ASSUME NEW m \in T, \A y \in T : m >= y PROVE m = n
  <2>1. m >= n /\ n >= m /\ m \in Int
    BY <1>1, <1>3
  <2> QED
    BY <2>1
<1> QED
  BY <1>2, <1>3

-----------------------------------------------------------------------------
ReadInv == config \in Configs /\ history \in Seq(Turns)

LEMMA Lists ==
  ASSUME ReadInv
  PROVE  /\ DOMAIN config.rules \subseteq Nat \ {0}
         /\ Len(config.providers) \in Nat /\ DOMAIN config.providers = 1 .. Len(config.providers)
BY RoutingAssumption DEF ReadInv

(* FindMatchingRule finds a rule it considers, and finds none only where   *)
(* there is none to find.                                                  *)
Matches(r, model) == r.pattern = model \/ <<r.pattern, model>> \in NameContains

LEMMA RuleFound ==
  ASSUME ReadInv, NEW model, NEW source
  PROVE  LET rule == FindMatchingRule(model, source) IN
         /\ rule # 0 => rule \in DOMAIN config.rules /\ Considered(config.rules[rule], source)
         /\ rule = 0 => \A i \in DOMAIN config.rules :
                          Considered(config.rules[i], source) => ~ Matches(config.rules[i], model)
<1> DEFINE E == {i \in DOMAIN config.rules :
                   Considered(config.rules[i], source) /\ config.rules[i].pattern = model}
<1> DEFINE W == {i \in DOMAIN config.rules :
                   Considered(config.rules[i], source) /\ <<config.rules[i].pattern, model>> \in NameContains}
<1> DEFINE e == IF E = {} THEN 0 ELSE Min(E)
<1> DEFINE w == IF W = {} THEN 0 ELSE Min(W)
<1>1. FindMatchingRule(model, source) = IF e # 0 THEN e ELSE w
  BY DEF FindMatchingRule, FirstIndex
<1>2. E \subseteq Nat \ {0} /\ W \subseteq Nat \ {0}
  BY Lists
<1>3. /\ \A i \in E \cup W : i \in DOMAIN config.rules /\ Considered(config.rules[i], source)
      /\ \A i \in DOMAIN config.rules :
           Considered(config.rules[i], source) /\ Matches(config.rules[i], model) => i \in E \cup W
  BY DEF Matches
<1> HIDE DEF E, W
<1>4. (E # {} => e \in E /\ e # 0) /\ (E = {} => e = 0)
  BY <1>2, MinMember
<1>5. (W # {} => w \in W /\ w # 0) /\ (W = {} => w = 0)
  BY <1>2, MinMember
<1> HIDE DEF e, w
<1> QED
  BY <1>1, <1>3, <1>4, <1>5

LEMMA OwnFirst == ReadInv => OwnFormatFirst
<1> SUFFICES ASSUME ReadInv, NEW q \in Requests, Format(q) # "none", MatchedRule(Format(q), q.model) # 0,
                    config.rules[MatchedRule(Format(q), q.model)].source \notin {"", SourceType(Format(q))},
                    NEW i \in DOMAIN config.rules, config.rules[i].enabled, Matches(config.rules[i], q.model)
             PROVE  config.rules[i].source \notin {"", SourceType(Format(q))}
  BY DEF OwnFormatFirst, Matches
<1> DEFINE own == FindMatchingRule(q.model, SourceType(Format(q)))
<1>1. SourceType(Format(q)) # ""
  BY DEF Format, FindHandler, SourceType
<1>2. own = 0
  <2> SUFFICES ASSUME own # 0 PROVE FALSE
    OBVIOUS
  <2>1. MatchedRule(Format(q), q.model) = own
    BY DEF MatchedRule
  <2>2. Considered(config.rules[own], SourceType(Format(q)))
    BY RuleFound
  <2> QED
    BY <1>1, <2>1, <2>2 DEF Considered
<1>3. ~ Considered(config.rules[i], SourceType(Format(q)))
  BY <1>2, RuleFound
<1> QED
  BY <1>3 DEF Considered

-----------------------------------------------------------------------------
(* The greatest member of a range is kept when the range loses its first   *)
(* members and every index is counted from there.                          *)
LEMMA MaxShifted ==
  ASSUME NEW n \in Nat, NEW T, T \subseteq 1 .. n, NEW i \in T,
         NEW S, \A x : x \in S <=> x \in 1 .. n - i + 1 /\ x + i - 1 \in T
  PROVE  S # {} /\ Max(S) \in S /\ Max(T) \in T /\ Max(S) + i - 1 = Max(T)
<1>1. 1 \in S /\ S \subseteq 1 .. n - i + 1 /\ n - i + 1 \in Nat
  OBVIOUS
<1>2. PICK m \in T : m = Max(T)
  BY MaxMember
<1>3. \A y \in T : m >= y
  BY <1>2, MaxLargest
<1>4. m - i + 1 \in S /\ \A x \in S : m - i + 1 >= x
  BY <1>3
<1>5. S \subseteq 1 .. m - i + 1 /\ m - i + 1 \in Nat
  BY <1>3, <1>4
<1>6. Max(S) = m - i + 1
  BY <1>4, <1>5, MaxLast
<1> QED
  BY <1>1, <1>2, <1>4, <1>6

(* The words the router reads are those of a conversation that begins at   *)
(* any prompt.                                                             *)
LEMMA WordsFromPrompt ==
  ASSUME ReadInv, NEW i \in DOMAIN history, Prompt(i)
  PROVE  LatestWords(history) = LatestWords(SubSeq(history, i, Len(history)))
<1> DEFINE n == Len(history)
<1> DEFINE rest == SubSeq(history, i, n)
<1>1. n \in Nat /\ DOMAIN history = 1 .. n /\ i \in 1 .. n
  BY DEF ReadInv
<1>2. DOMAIN rest = 1 .. n - i + 1 /\ \A x \in DOMAIN rest : rest[x] = history[x + i - 1]
  BY <1>1 DEF ReadInv
<1> HIDE DEF n, rest
<1>3. /\ Tagged(history) \subseteq 1 .. n
      /\ \A x : x \in Tagged(rest) <=> x \in 1 .. n - i + 1 /\ x + i - 1 \in Tagged(history)
  BY <1>1, <1>2 DEF Tagged
<1>4. /\ Written(history) \subseteq 1 .. n
      /\ \A x : x \in Written(rest) <=> x \in 1 .. n - i + 1 /\ x + i - 1 \in Written(history)
  BY <1>1, <1>2 DEF Written
<1>5. CASE i \in Tagged(history)
  <2>1. /\ Tagged(rest) # {} /\ Max(Tagged(rest)) \in Tagged(rest)
        /\ Max(Tagged(rest)) + i - 1 = Max(Tagged(history))
    BY <1>1, <1>3, <1>5, MaxShifted
  <2>2. Max(Tagged(rest)) \in DOMAIN rest
    BY <2>1 DEF Tagged
  <2>3. rest[Max(Tagged(rest))] = history[Max(Tagged(history))]
    BY <1>2, <2>1, <2>2
  <2> QED
    BY <1>5, <2>1, <2>3 DEF LatestWords, rest, n
<1>6. CASE Tagged(history) = {} /\ i \in Written(history)
  <2>1. /\ Written(rest) # {} /\ Max(Written(rest)) \in Written(rest)
        /\ Max(Written(rest)) + i - 1 = Max(Written(history))
    BY <1>1, <1>4, <1>6, MaxShifted
  <2>2. Max(Written(rest)) \in DOMAIN rest
    BY <2>1 DEF Written
  <2>3. rest[Max(Written(rest))] = history[Max(Written(history))]
    BY <1>2, <2>1, <2>2
  <2>4. Tagged(rest) = {}
    BY <1>3, <1>6
  <2> QED
    BY <1>6, <2>1, <2>3, <2>4 DEF LatestWords, rest, n
<1> QED
  BY <1>5, <1>6 DEF Prompt, Tagged, Written

LEMMA EarlierIgnored == ReadInv => EarlierTurnsIgnored
BY WordsFromPrompt DEF EarlierTurnsIgnored, Target, ResolveLLMRouterTarget

-----------------------------------------------------------------------------
(* Both lookups of a provider find enabled entries, the second only those  *)
(* an instance was made of.                                                *)
LEMMA EntryFound ==
  ASSUME ReadInv, NEW id
  PROVE  GetProvider(id) # 0 => config.providers[GetProvider(id)].enabled
<1> DEFINE K == {i \in DOMAIN config.providers :
                   config.providers[i].enabled /\ config.providers[i].id = id /\ config.providers[i].key}
<1> DEFINE A == {i \in DOMAIN config.providers : config.providers[i].enabled /\ config.providers[i].id = id}
<1>1. GetProvider(id) =
        LET k == IF K = {} THEN 0 ELSE Min(K) a == IF A = {} THEN 0 ELSE Min(A) IN IF k # 0 THEN k ELSE a
  BY DEF GetProvider, FirstIndex
<1>2. K \subseteq Nat /\ A \subseteq Nat /\ \A i \in K \cup A : config.providers[i].enabled
  BY Lists
<1> HIDE DEF K, A
<1>3. (K # {} => Min(K) \in K) /\ (A # {} => Min(A) \in A)
  BY <1>2, MinMember
<1> QED
  BY <1>1, <1>2, <1>3

LEMMA InstanceFound ==
  ASSUME ReadInv, NEW id
  PROVE  Instance(id) # 0 => Loads(config.providers[Instance(id)])
<1> DEFINE H == {i \in DOMAIN config.providers : config.providers[i].id = id /\ Loads(config.providers[i])}
<1>1. Instance(id) = IF H = {} THEN 0 ELSE Max(H)
  BY DEF Instance
<1>2. H \subseteq 1 .. Len(config.providers) /\ \A i \in H : Loads(config.providers[i])
  BY Lists
<1> HIDE DEF H
<1>3. H # {} => Max(H) \in H
  BY <1>2, Lists, MaxMember
<1> QED
  BY <1>1, <1>2, <1>3

(* A request is routed only by Dispatch, after both lookups.               *)
Fits(o) == o.kind = "routed" =>
  o.entry = GetProvider(o.id) /\ o.entry # 0 /\ FindTranslator(o.entry) /\ Instance(o.id) # 0

LEMMA FitsBack == \A q, id : Fits(Nil(q)) /\ Fits(Passthrough(q, id)) /\ \A f : Fits(Back(q, f))
BY DEF Fits, Nil, Passthrough, Back, To

LEMMA FitsHandle ==
  ASSUME NEW q, NEW format, NEW h, NEW translates
  PROVE  Fits(Handle(q, format, h, translates))
<1>1. ASSUME NEW f PROVE Fits(Dispatch(q, f, h, translates))
  <2> DEFINE id == Target(f, q.model, h)
  <2> DEFINE entry == GetProvider(id)
  <2>1. CASE Dispatch(q, f, h, translates) \in {Back(q, f), Passthrough(q, id)}
    BY <2>1, FitsBack
  <2>2. CASE /\ Dispatch(q, f, h, translates) = To("routed", id, entry)
             /\ entry # 0 /\ FindTranslator(entry) /\ Instance(id) # 0
    BY <2>2 DEF Fits, To
  <2>3. \/ Dispatch(q, f, h, translates) \in {Back(q, f), Passthrough(q, id)}
        \/ /\ Dispatch(q, f, h, translates) = To("routed", id, entry)
           /\ entry # 0 /\ FindTranslator(entry) /\ Instance(id) # 0
    BY DEF Dispatch
  <2> QED
    BY <2>1, <2>2, <2>3
<1>2. Fits(GeminiHandle(q, h, translates))
  <2>1. Fits(To("models", "", 0))
    BY DEF Fits, To
  <2>2. GeminiHandle(q, h, translates) \in
          {Nil(q), Passthrough(q, ""), To("models", "", 0), Dispatch(q, "gemini", h, translates)}
    BY DEF GeminiHandle
  <2> QED
    BY <1>1, <2>1, <2>2, FitsBack
<1>3. Fits(OtherHandle(q, format, h, translates))
  BY <1>1, FitsBack DEF OtherHandle
<1> QED
  BY <1>2, <1>3 DEF Handle, Fits, To

LEMMA FittingTypes == ReadInv /\ Fits(outcome) => TranslatorFitsInstance
BY EntryFound, InstanceFound DEF Fits, FindTranslator, Loads, TranslatorFitsInstance

-----------------------------------------------------------------------------
RouteInv == ReadInv /\ Fits(outcome)

LEMMA RouteNext == RouteInv /\ [Next]_vars => RouteInv'
<1> SUFFICES ASSUME RouteInv, [Next]_vars PROVE RouteInv'
  OBVIOUS
<1>1. ASSUME NEW q \in Requests, NEW h, Serve(q, h) PROVE Fits(outcome)'
  <2>1. config' = config
    BY <1>1 DEF Serve
  <2>2. Fits(outcome')
    <3>1. PICK translates \in BOOLEAN :
            outcome' = IF q.via = "connect" /\ q.host \notin MitmHosts
                         THEN To("tunnel", "", 0) ELSE Handle(q, Format(q), h, translates)
      BY <1>1 DEF Serve
    <3>2. Fits(To("tunnel", "", 0))
      BY DEF Fits, To
    <3> QED
      BY <3>1, <3>2, FitsHandle
  <2> QED
    BY <2>1, <2>2 DEF Fits, GetProvider, FirstIndex, FindTranslator, Instance
<1>2. ASSUME NEW q \in Requests, Again(q) PROVE RouteInv'
  BY <1>1, <1>2 DEF Again, Serve, RouteInv, ReadInv
<1>3. ASSUME NEW q \in Requests, NEW t \in Turns, Say(t, q) PROVE RouteInv'
  <2>1. history' = Append(history, t) /\ config' = config
    BY <1>3 DEF Say, Serve
  <2>2. history' \in Seq(Turns)
    BY <2>1 DEF RouteInv, ReadInv
  <2> QED
    BY <1>1, <1>3, <2>1, <2>2 DEF Say, RouteInv, ReadInv
<1>4. CASE UNCHANGED vars
  BY <1>4 DEF vars, RouteInv, ReadInv, Fits, GetProvider, FirstIndex, FindTranslator, Instance
<1> QED
  BY <1>2, <1>3, <1>4 DEF Next

LEMMA SpecInv == Spec => []RouteInv
<1>1. Init => RouteInv
  <2> SUFFICES ASSUME Init PROVE RouteInv
    OBVIOUS
  <2>1. ReadInv
    BY DEF Init, ReadInv
  <2>2. outcome.kind = "none"
    BY DEF Init, Unsent, To
  <2> QED
    BY <2>1, <2>2 DEF RouteInv, Fits
<1> QED
  BY <1>1, RouteNext, PTL DEF Spec

(* Whatever rules and routers and however long the conversation: what was  *)
(* said before a prompt has no say in where resolveLLMRouterTarget sends   *)
(* it, or anything behind it.                                              *)
THEOREM EarlierTurnsCorrect == Spec => []EarlierTurnsIgnored
<1>1. RouteInv => EarlierTurnsIgnored
  BY EarlierIgnored DEF RouteInv
<1> QED
  BY <1>1, SpecInv, PTL

(* For every list of rules, a rule for another client's format takes a     *)
(* request only when no rule for its own matches the model.                *)
THEOREM OwnFormatCorrect == Spec => []OwnFormatFirst
<1>1. RouteInv => OwnFormatFirst
  BY OwnFirst DEF RouteInv
<1> QED
  BY <1>1, SpecInv, PTL

(* However many entries share an id, the entry that chooses the translator *)
(* and the instance that sends are enabled and of one type.                *)
THEOREM TranslatorCorrect == Spec => []TranslatorFitsInstance
<1>1. RouteInv => TranslatorFitsInstance
  BY FittingTypes DEF RouteInv
<1> QED
  BY <1>1, SpecInv, PTL
=============================================================================
