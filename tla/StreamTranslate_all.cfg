\* Every stream of four lines with two calls, to every kind of client.
CONSTANTS
  Formats = {"openai", "anthropic", "gemini"}
  MaxLines = 4
  MaxCalls = 2
  Finishes = {"stop", "tool_calls"}
SPECIFICATION Spec
CHECK_DEADLOCK FALSE
INVARIANTS TextPreserved CallsPreserved CompletionTold
