SPECIFICATION Spec
CONSTANTS
  Workers = {w1, w2}
  Clients = {}
  NSteps = 1
  Writes <- First1
  Reconcilable <- NoSteps
  StartAuthorized <- First1
  Optional <- NoSteps
  Conditional <- NoSteps
  Deps <- Alone
  Actions = {plan}
  PlannedAction = plan
  ReadBudget = 1
  MaxAttempts = 3
  LockMayDrop = TRUE
  NoWorker = NoWorker
  NoRequest = NoRequest
INVARIANTS RepeatsBoundedByOverlap
SYMMETRY Symmetric
CHECK_DEADLOCK FALSE
