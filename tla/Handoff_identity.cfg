CONSTANTS
  g1 = g1
  g2 = g2
  ann = ann
  bob = bob
  None = None
  Bare = Bare
  Answers = {g1, g2}
  User <- MCUser
  MaxAsks = 1
SPECIFICATION Spec
INVARIANTS
  TokenSaysWhoYouAre
