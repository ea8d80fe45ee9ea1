SPECIFICATION PipelineSpec
CONSTANTS
  r1 = r1
  r2 = r2
  r3 = r3
  kilimo = kilimo
  jamii = jamii
  NoTenant = NoTenant
  NoAnswer = NoAnswer
  Requests <- MCRequests
  Tenants <- MCTenants
  ForceHTTPS = TRUE
INVARIANTS
  PipelineTypeOK
  SerialOutcomesAccurate
  OutcomesExactInTotal
  OutcomesAgree
SYMMETRY Interchangeable
CHECK_DEADLOCK FALSE
