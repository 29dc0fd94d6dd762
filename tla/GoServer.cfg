\* A stream with and without a first event, a chunk that translates to nothing and a
\* client that may stall; every behaviour of an upstream; three concurrent requests
\* for lists that change; a signal at any time.
CONSTANTS
  MaxChunks = 5
  Capacity = 2
  Silent = {2}
  Preamble = {TRUE, FALSE}
  Done = Done
  Error = Error
  Start = Start
  None = None
  MaxRetries = 2
  MaxBody = 2
  Sizes = {0, 2, 3}
  Statuses = {200, 404, 503}
  Types = {"json", "sse", "sse;charset"}
  Codings = {"identity", "gzip", "corrupt"}
  Ends = {"whole", "truncated", "never"}
  Requests = {r1, r2, r3}
  TTL = 1
  MaxFetch = 1
  MaxTime = 3
  MaxModels = 2
  Kinds = {"list", "empty"}
SPECIFICATION FairSpec
CHECK_DEADLOCK FALSE
INVARIANTS
  BufferedAnswerIsWhole
  GivesUpOnlyAtLast
  OneResponse
  BoundedStaleness
PROPERTIES
  ImplementsEventStream
  ReaderEnds
  PipelineEnds
  Answered
