SPECIFICATION Spec
CONSTANTS
  Workers = {w1}
  Clients = {c1}
  NSteps = 1
  Writes <- NoSteps
  Reconcilable <- NoSteps
  StartAuthorized <- NoSteps
  Optional <- NoSteps
  Conditional <- NoSteps
  Deps <- Alone
  Actions = {plan}
  PlannedAction = plan
  ReadBudget = 2
  MaxAttempts = 4
  LockMayDrop = FALSE
  NoWorker = NoWorker
  NoRequest = NoRequest
INVARIANTS  CancelBoundsCalls
CHECK_DEADLOCK FALSE
