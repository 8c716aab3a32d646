CONSTANTS
  Aspects = {"risk"}
  MaxPresses = 3
  MaxTurns = 1
SPECIFICATION Spec
INVARIANTS
  TypeOK
  CountsAddUp
  EachSaysWhatWasHeld
  NothingContradicted
  SilenceAnnounced
