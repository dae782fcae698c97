CONSTANTS
  u1 = u1
  u2 = u2
  m1 = m1
  m2 = m2
  Users = {u1, u2}
  Reports = {r1, r2}
  Messages = {m1}
  Pairs <- OnePair
  Involves <- OneMessage
  Media <- OnePicture
  Devices = {d1}
  Admins = {a1, a2}
  MaxEvidence = 1
  MaxTime = 1
  Null = Null
SPECIFICATION Spec
SYMMETRY Symmetry
INVARIANTS TypeOK ActedOnce EvidenceStands 
PROPERTIES BansHold HiddenWithAct
\* The ids of reports run out.
CHECK_DEADLOCK FALSE
