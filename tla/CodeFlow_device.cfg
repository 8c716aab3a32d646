CONSTANTS
  SpentCap = 2
  NoTxn = NoTxn
  s1 = s1
  s2 = s2
  Slots = {s1, s2}
  MaxPairs = 2
  MaxCodes = 1
  MaxTokens = 2
SPECIFICATION Spec
PROPERTIES
  DeviceTokensKept
