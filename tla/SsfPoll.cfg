CONSTANTS
  a = a
  j1 = j1
  j2 = j2
  Streams = {a}
  Jtis = {j1, j2}
  StreamOf <- MCOneStream
  Calls = {k1, k2}
  MaxEvents = 2
  Limit = 2
  Rooms = {0, 1, 3}
SPECIFICATION FairSpec
INVARIANTS
  TypeOK
  AckedWasStored
PROPERTIES
  TakenIsAcknowledged
