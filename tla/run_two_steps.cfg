SPECIFICATION Spec
CONSTANTS
  Workers = {w1}
  Clients = {c1}
  NSteps = 2
  Writes <- Second
  Reconcilable <- NoSteps
  StartAuthorized <- NoSteps
  Optional <- NoSteps
  Conditional <- First1
  Deps <- Chain
  Actions = {plan}
  PlannedAction = plan
  ReadBudget = 1
  MaxAttempts = 2
  LockMayDrop = FALSE
  NoWorker = NoWorker
  NoRequest = NoRequest
INVARIANTS StepsInOrder CompletedIsComplete
 
CHECK_DEADLOCK FALSE
