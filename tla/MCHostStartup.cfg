CONSTANTS
  None = None
  Hosts = {"rust", "node", "python", "serve"}
  Inputs <- MCInputs
  Ids = {"open", "save", "ghost"}
  Bindings <- MCBindings
  Extras <- MCExtras
  Contexts <- MCContexts
  Values <- MCValues
  Keys = {"undeclared"}
  MaxCalls = 4
SPECIFICATION Spec
CHECK_DEADLOCK FALSE
INVARIANTS
  AcceptedComplete
  ToolsTellValidation
  HostsAgree
  ServiceReady
