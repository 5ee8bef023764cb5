\* Two handlers on a pool of one connection; stores fail, main restarts.
SPECIFICATION Spec
CONSTANTS
  Requests = {r1, r2}
  MaxConns = 1
INVARIANTS
  TypeOK
  StoresOutliveHandlers
  HealthIsTrue
PROPERTIES
  SignalStops
