SPECIFICATION FairSpec
CONSTANTS
  Clients = {c1}
  Kinds = {"pause", "resume", "stop", "event"}
  NStages = 3
  NextStage <- Chain
  AwaitsEvent <- Both
  Waits <- Third
  Retries = TRUE
  MaxAttempts = 2
  Keys = {"a", "b", "c"}
  EventOf <- Events
  MaxRecoveries = 1
  NoRequest = NoRequest
INVARIANTS StagesInOrder EventBeforeStage
PROPERTIES OutputHandedOver  CaseMovesOn
CHECK_DEADLOCK FALSE
