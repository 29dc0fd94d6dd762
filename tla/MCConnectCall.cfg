\* Every greeting and reply, fragmented in every way, late or missing, behind
\* two loads of the configuration.
CONSTANTS
  Greetings <- MCGreetings
  Replies <- MCReplies
  Payloads <- MCPayloads
  Timeout = 2
  DialTicks = 1
  Signals = 1
  Hooks = {"connect", "getaddrinfo"}
  Files <- MCFiles
  NoFile = NoFile
  Absent = Absent
  IllTyped = IllTyped
SPECIFICATION FairSpec
CHECK_DEADLOCK FALSE
INVARIANTS
  SocksTypeOK
  OpenOnlyIfAccepted
  StreamAligned
  CallBounded
  SettledConfigInRange
PROPERTY ConnectEnds
