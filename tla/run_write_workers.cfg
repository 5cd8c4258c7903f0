SPECIFICATION Spec
CONSTANTS
  Workers = {w1, w2}
  Clients = {c1}
  NSteps = 1
  Writes <- First1
  Reconcilable <- First1
  StartAuthorized <- NoSteps
  Optional <- First1
  Conditional <- First1
  Deps <- Alone
  Actions = {plan, edit}
  PlannedAction = plan
  ReadBudget = 1
  MaxAttempts = 2
  LockMayDrop = FALSE
  NoWorker = NoWorker
  NoRequest = NoRequest
INVARIANTS WriteAtMostOnce
PROPERTIES KeepsPromise StandingApproval
SYMMETRY Symmetric
CHECK_DEADLOCK FALSE
