SPECIFICATION Spec
CONSTANTS
  N = 2
  Args = {a, b}
  Consequential <- Both
  Grouped <- Both
  Tool <- TwoTools
  Clients = {c1}
  MaxVersions = 3
  MaxFaults = 1
  NoArgs = NoArgs
  NoRequest = NoRequest
SYMMETRY Symmetry
INVARIANTS SentUnderSnapshot SomethingToDecide
PROPERTIES ReviewedBeforeNextTool DecisionsHold
CHECK_DEADLOCK FALSE
