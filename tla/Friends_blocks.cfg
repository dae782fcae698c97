CONSTANTS
  Users = {u1, u2}
  Requests = {r1, r2, r3}
  Handlers = {h1, h2}
  Removed = Removed
  Null = Null
SPECIFICATION Spec
SYMMETRY Symmetry
INVARIANTS TypeOK RequestsBounded BlockedIsRefused
PROPERTY OnlyBlockerUnblocks
