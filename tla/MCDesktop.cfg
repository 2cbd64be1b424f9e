SPECIFICATION Spec
CONSTANTS
  MaxRequests = 2
  Desktops = {"notify", "alert"}
  Clients = {k1}
  k1 = k1
CHECK_DEADLOCK FALSE
INVARIANTS TypeOK AllowAnswersOwnPrompt OnePromptAtATime NothingLeftBehind
PROPERTIES ConfirmReturns ControlThreadFree ShutdownCompletes MenuNotStuck
