\* Configurations of up to two rules, doubled provider ids, conversations of three turns.
CONSTANTS
  Configs <- MCConfigs
  Requests <- MCRequests
  Turns <- MCTurns
  NameContains <- MCContains
  MitmHosts = {"google", "anthropic", "openai"}
  MaxTurns = 3
SPECIFICATION Spec
INVARIANTS
  EarlierTurnsIgnored
  OwnFormatFirst
  TranslatorFitsInstance
