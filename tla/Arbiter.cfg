CONSTANTS
  Clients = {a, b, c}
  Ports = {p, q}
  Sizes = {1, 2}
  FramesPerMinute = 3
  BytesPerMinute = 4
  MaxQueue = 2
  MaxAge = 1
  Minute = 2
  NoPort = NoPort
  MaxOffers = 4
  MaxNow = 3
SPECIFICATION Spec
SYMMETRY Symmetry
INVARIANTS BudgetKept BytesKept DropsCounted RotationOK BusyClientWaits
