SPECIFICATION TasksSpec
CONSTANTS
  kilimo = kilimo
  samaki = samaki
  r1 = r1
  r2 = r2
  w1 = w1
  Public = Public
  NoTenant = NoTenant
  NoTask = NoTask
  Chamas <- MCChamas
  Requests <- MCRequests
  Workers <- MCWorkers
INVARIANT
  NewChamasCanContribute
SYMMETRY Interchangeable
CHECK_DEADLOCK FALSE
