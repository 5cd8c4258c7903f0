SPECIFICATION FairReleases
CONSTANTS
  Configurations = {{"nango"}, {"pipedream"}}
  Replicas = {r1, r2}
  Defs = {d1, d2, d3}
  Apps = {p1, p2}
  Contracts = {k1, k2}
  Threshold = 2
  MaxBatch = 1
  MaxIncidents = 1
  MaxDeploys = 2
  NoDef = NoDef
  NoReplica = NoReplica
INVARIANTS CatalogInOrder
PROPERTIES LastGoodStays RequestedIsCertified
