CONSTANTS
  u0 = u0
  u1 = u1
  u2 = u2
  u3 = u3
  u4 = u4
  Users = {u0, u1, u2, u3, u4}
  Creator = u0
  Founders = {u1}
  Requests = {r1}
  Messages = {m1, m2}
  Handlers = {h1, h2}
  MaxTotal = 2
  MaxAtOnce = 2
  MaxPins = 1
  OtherGroups = TRUE
  Null = Null
SPECIFICATION Spec
SYMMETRY Symmetry
INVARIANTS TypeOK MembersBounded PinsBounded 
PROPERTY AdminGoesByRemoval
\* The ids of join requests run out.
CHECK_DEADLOCK FALSE
