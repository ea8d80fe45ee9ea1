SPECIFICATION Spec
CONSTANTS
  c1 = c1
  c2 = c2
  o1 = o1
  s1 = s1
  s2 = s2
  Containers <- MCContainers
  Operators <- MCOperators
  Seeders <- MCSeeders
  MaxCommands = 1
  MaxFaults = 2
INVARIANTS
  TypeOK
  VersionDescribesSchema
  ServesTheHead
  PlansDoubledOnlyByOverlap
PROPERTIES
  CommitsFollowOn
  EveryContainerServes
CHECK_DEADLOCK FALSE
