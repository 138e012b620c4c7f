CONSTANTS
  elsewhere = elsewhere
  onA = onA
  onB = onB
  a = a
  b = b
  junk = junk
  None = None
  Contexts <- MCContexts
  DefaultContext = elsewhere
  Route <- MCRoute
  Resolve <- MCResolve
  ParamNames = {"record", "note"}
  Values = {a, b, junk}
  Mistyped = {junk}
  Actions = {"archive", "find"}
  Def <- MCDef
  ActionIds = {"archive", "find", "ghost"}
  ToolCalls <- MCToolCalls
  MaxRetries = 2
  MaxTurns = 1
  MaxChunks = 2
  MaxProposals = 2
SPECIFICATION FairSpec
INVARIANTS
  TypeOK
  AtMostOnce
  StateTellsEffect
  FirstDecisionWins
  ExecutesWhatHolds
  ClientInformed
  TranscriptComplete
  RetryInformed
  SignalsExact
PROPERTIES
  ImplementsLifecycle
  HandlersReturn
  ConfirmSettles
