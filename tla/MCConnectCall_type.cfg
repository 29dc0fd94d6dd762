\* The protocol spoken to a proxy that is configured as an HTTP proxy.
CONSTANTS
  Greetings <- MCGreetings
  Replies <- MCReplies
  Payloads <- MCPayloads
  Timeout = 2
  DialTicks = 1
  Signals = 1
  Hooks = {"connect", "getaddrinfo"}
  Files <- MCFiles
  NoFile = NoFile
  Absent = Absent
  IllTyped = IllTyped
SPECIFICATION Spec
CHECK_DEADLOCK FALSE
INVARIANT SpeaksConfiguredType
