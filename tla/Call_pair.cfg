CONSTANTS
  u1 = u1
  u2 = u2
  k1 = k1
  k2 = k2
  Users = {u1, u2}
  Sockets = {k1, k2}
  SocketUser <- OneDeviceEach
  Calls = {c1, c2}
  Handlers = {h1}
  Dials <- u1CallsU2
  DbFaults = FALSE
  Null = Null
SPECIFICATION Spec
SYMMETRY Symmetry
INVARIANTS EndedRowIsEnding
PROPERTIES NoSilentEnd EndedForGood
