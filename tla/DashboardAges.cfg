\* Heartbeats, alerts and dashboard requests with broken connections.
SPECIFICATION Spec
CONSTANTS
  d1 = d1
  d2 = d2
  r1 = r1
  r2 = r2
  v1 = v1
  v2 = v2
  w1 = w1
  Devices = {d1, d2}
  Requests = {r1, r2}
  Viewers = {v1, v2}
  Traffics <- Mixes
  OnlineTTL = 2
  SetTTL = 3
  CountTTL = 2
  TotalTTL = 2
  DashboardTTL = 1
  Faults = {"connection"}
  MaxAlerts = 2
  MaxQuiet = 4
  Positions = {1, 2, 3, 4}
  Walkers = {w1}
  Limits = {0, 1, 2}
  DefaultLimit = 3
SYMMETRY Symmetry
INVARIANTS
  TypeOK
  OnlineIsCounted
  NoLooseKeys
  GlobalCoversDevices
  ChangeShows
  SilenceShows
  WalkIsComplete
  NoneTwice
