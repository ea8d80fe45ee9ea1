SPECIFICATION FairSpec
CONSTANTS
  s1 = s1
  s2 = s2
  s3 = s3
  kilimo = kilimo
  b1 = b1
  b2 = b2
  memberAdded = memberAdded
  contributionCreated = contributionCreated
  NoChama = NoChama
  NoMessage = NoMessage
  NoSocket = NoSocket
  Sockets <- MCSockets
  Chamas <- MCChamas
  Broadcasts <- MCBroadcasts
  Messages <- MCMessages
  Unserialisable <- MCUnserialisable
INVARIANTS
  TypeOK
  ListsAreExact
  MissedAtMostDepartures
PROPERTIES
  NoRepeatedSend
  ImplementsRegistry
  GoneAreUnlisted
