SPECIFICATION Spec
CONSTANTS
  MaxRequests = 2
  Desktops = {"alert"}
  Clients = {}
CHECK_DEADLOCK FALSE
INVARIANT OwnPromptDecides
