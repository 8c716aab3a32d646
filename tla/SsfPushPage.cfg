CONSTANTS
  Ids = {i1, i2}
  MaxInboxes = 1
  MaxEvents = 2
  TTL = 1
  MaxPushes = 3
  Calls = {k1, k2}
  NoInbox = NoInbox
SPECIFICATION FairSpec
INVARIANTS
  TypeOK
  RingHoldsNewest
  InboxesBounded
  CursorSound
PROPERTIES
  EveryCallSweeps
  NextPollCatchesUp
