SPECIFICATION Spec
CONSTANTS
  tab1 = tab1
  tab2 = tab2
  tab3 = tab3
  home = home
  away = away
  None = None
  Client = {tab1, tab2}
  Browser = {home, away}
  BrowserOf <- Homes
  User = {op, pilot}
  CanControl = {op, pilot}
  Robot = {r1}
  Trusted = {r1}
  Session = {s1, s2}
  LockTimeout = 1
  PendingTtl = 3
  OrphanTtl = 2
  BroadcastBound = 1
PROPERTIES RevocationIsImmediate
