CONSTANTS
  u1 = u1
  u2 = u2
  k1 = k1
  k2 = k2
  k3 = k3
  t1 = t1
  t2 = t2
  Users = {u1, u2}
  Sockets = {k1, k2}
  SocketUser <- OneDeviceEach
  Returning = {}
  Tokens = {t1, t2}
  Author <- EachAuthor
  Receiver <- EachReceiver
  Handlers = {h1, h2}
  Chats = {c1, c2, c3}
  Messages = {m1, m2}
  DbFaults = FALSE
  MaxDeletes = 1
  Null = Null
SPECIFICATION Spec
INVARIANT ChatTakesMessages
