CONSTANTS
  u1 = u1
  u2 = u2
  k1 = k1
  k2 = k2
  Users = {u1, u2}
  Sockets = {k1, k2}
  SocketUser <- OneDeviceEach
  Calls = {c1}
  Handlers = {h1, h2}
  Dials <- u1CallsU2
  DbFaults = TRUE
  Null = Null
SPECIFICATION FairSpec
INVARIANTS TypeOK AcceptedOnce RingsFirst
PROPERTIES NoTimeoutOnceAccepted ImplementsLifecycle CallerLearns KeepsPromises
