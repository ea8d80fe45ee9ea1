SPECIFICATION Spec
CONSTANTS
  asha = asha
  beko = beko
  kilimo = kilimo
  r1 = r1
  r2 = r2
  r3 = r3
  r4 = r4
  Nobody = Nobody
  NoRequest = NoRequest
  NoRow = NoRow
  Users <- MCUsers
  Chamas <- MCChamas
  Requests <- MCRequests
  Registered <- MCRegistered
  EnforcesForeignKeys = TRUE
INVARIANTS
  TypeOK
  DuplicatesOnlyFromRaces
  AuthorityFromOwner
  CommittedBeforeTold
SYMMETRY Interchangeable
