CONSTANTS
  k1 = k1
  Messages = {m1}
  Jobs = {j1, j2}
  Keys = {k1, k2}
  MaxRetries = 1
  MaxFaults = 1
  MaxLosses = 1
  Stored <- OneStored
  Null = Null
SPECIFICATION FairSpec
INVARIANTS TypeOK RecalledNotShown
PROPERTIES OneKey StoredIsIndexed
