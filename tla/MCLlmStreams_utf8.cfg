CONSTANTS
  Providers = {"anthropic", "ollama", "callback"}
  Alphabet <- TwoBytes
  Answers <- MCAnswers
  Wide = "e"
SPECIFICATION Spec
CHECK_DEADLOCK FALSE
INVARIANT StreamFaithful
