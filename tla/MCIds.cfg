CONSTANTS
  Space = {decisions}
  Taker = {a, b}
  Reader = {r}
  MaxId = 5
  Unseeded = Unseeded
SPECIFICATION IdsSpec
INVARIANTS
  IdsAreFinal
PROPERTIES
  Promise
