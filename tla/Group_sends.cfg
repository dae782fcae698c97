CONSTANTS
  u1 = u1
  u2 = u2
  t1 = t1
  d1 = d1
  d2 = d2
  Users = {u1, u2}
  Admin = u2
  Tokens = {t1}
  Author <- Authors
  Devices = {d1, d2}
  Owner <- Owners
  Choosers = {u1}
  Handlers = {h1, h2}
  MaxStored = 2
  Null = Null
SPECIFICATION FairSpec
INVARIANTS TypeOK StoredOnce OnlyAllowedStore
PROPERTY PushEnds
