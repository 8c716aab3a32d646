CONSTANTS
  o1 = o1
  o2 = o2
  c1 = c1
  c2 = c2
  s1 = s1
  s2 = s2
  NoOrigin = NoOrigin
  NoCeremony = NoCeremony
  Origins = {o1}
  Ceremonies = {}
  OriginOf <- MCOriginOfNone
  Slots = {s1, s2}
  TTL = 1
  MaxCaptures = 1
SPECIFICATION FairSpec
INVARIANTS
  QuietAgreement
PROPERTIES
  WindowCloses
