CONSTANTS
  Providers = {"anthropic", "ollama", "callback"}
  Alphabet <- OneByte
  Answers <- MCAnswers
  Wide = "e"
SPECIFICATION Spec
CHECK_DEADLOCK FALSE
INVARIANTS
  StreamFaithful
  BufferedAgrees
  SpanOnce
