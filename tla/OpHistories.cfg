CONSTANTS
  Limit = 2
  Operations = {a, b}
  Pages = {p, q}
  Lines = {x, y}
  Quiet = {x}
  Early = {y}
  Chained = {y}
  Described = {x}
  SignIn = a
  MaxRows = 3
SPECIFICATION Spec
INVARIANTS
  TypeOK
  SentIsWatched
  WatchedIsSent
PROPERTIES
  ImplementsCallLog
