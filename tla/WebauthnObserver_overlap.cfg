CONSTANTS
  o1 = o1
  o2 = o2
  c1 = c1
  c2 = c2
  s1 = s1
  s2 = s2
  Origins = {o1}
  Ceremonies = {c1, c2}
  OriginOf <- MCOriginOfOne
  Slots = {s1, s2}
  TTL = 1
  MaxCaptures = 1
  NoOrigin = NoOrigin
  NoCeremony = NoCeremony
SPECIFICATION Spec
INVARIANTS
  TypeOK
  CapturesInv
PROPERTIES
  ImplementsWindow
SYMMETRY SlotSymmetry
