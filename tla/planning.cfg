SPECIFICATION FairSpec
CONSTANTS
  a1 = a1
  a2 = a2
  Catalog <- SmallCatalog
  Family <- Families
  Scope <- Scopes
  NamedScope <- NamedScopes
  Kinds <- Effect
  Provides <- Evidence
  Plugins = {}
  Builtin = {"aura", "canva", "anthropic", "google-sheets"}
  MaxSteps = 4
  Planners = {p1, p2}
  Clients = {c1}
  Prompts <- AllPrompts
  Drafts <- AllDrafts
  Recipes <- AllRecipes
  Accounts = {a1, a2}
  Serves <- TwoAccounts
  Managed = {a1}
  MaxRounds = 1
  MaxRestarts = 1
  MaxFaults = 1
  MaxLosses = 1
  NoPlanner = NoPlanner
  NoRequest = NoRequest
  NoPlan = NoPlan
INVARIANTS PlanIsFit ServesRequest 
PROPERTIES NoNeedlessConnection 
CHECK_DEADLOCK FALSE
