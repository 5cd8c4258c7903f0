SPECIFICATION FairSpec
CONSTANTS
  Workers = {w1, w2}
  Dispatchers = {d1}
  Outcomes = {"awaiting_approval", "waiting_for_action", "completed"}
  MaxRestarts = 1
  MaxRetries = 1
  MaxResumes = 1
  MaxFaults = 1
  NoWorker = NoWorker
INVARIANTS OutboxConsistent
PROPERTIES DeliveryGoesOn
CHECK_DEADLOCK FALSE
