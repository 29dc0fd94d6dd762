\* Two calls to a Gemini client.
CONSTANTS
  Formats = {"gemini"}
  MaxLines = 3
  MaxCalls = 2
  Finishes = {"stop", "tool_calls"}
SPECIFICATION Spec
CHECK_DEADLOCK FALSE
INVARIANTS ParallelCallsPreserved
