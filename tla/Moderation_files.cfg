CONSTANTS
  u1 = u1
  u2 = u2
  m1 = m1
  m2 = m2
  Users = {u1, u2}
  Reports = {r1}
  Messages = {m1}
  Pairs <- OnePair
  Involves <- OneMessage
  Media <- OnePicture
  Devices = {d1}
  Admins = {a1}
  MaxEvidence = 1
  MaxTime = 1
  Null = Null
SPECIFICATION Spec
INVARIANT ShownMediaHasFile
CHECK_DEADLOCK FALSE
