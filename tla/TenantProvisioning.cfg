SPECIFICATION FairSpec
CONSTANTS
  kilimo = kilimo
  jamii = jamii
  t1 = t1
  t2 = t2
  mig = mig
  NoChama = NoChama
  Chamas <- MCChamas
  Creators <- MCCreators
  Migrators <- MCMigrators
  Droppable <- MCDroppable
  PoolSize = 2
  Faults = TRUE
INVARIANTS
  TypeOK
  OneInitialiser
  
PROPERTIES
  NeverRepaired
  RequestsEnd
  ImplementsLifecycle
