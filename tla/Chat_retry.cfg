CONSTANTS
  u1 = u1
  u2 = u2
  k1 = k1
  k2 = k2
  k3 = k3
  t1 = t1
  t2 = t2
  Users = {u1, u2}
  Sockets = {k1, k3}
  SocketUser <- TwoDevices
  Returning = {k3}
  Tokens = {t1}
  Author <- FromU1
  Receiver <- ToU2
  Handlers = {h1, h2}
  Chats = {c1, c2}
  Messages = {m1, m2}
  DbFaults = TRUE
  MaxDeletes = 0
  Null = Null
SPECIFICATION Spec
SYMMETRY Symmetry
INVARIANTS TypeOK StoredOnce OpenIsRegistered
PROPERTIES StoresAtMostOnce
