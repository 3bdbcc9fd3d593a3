SPECIFICATION FairSpec
CONSTANTS
  User = {u1, u2}
  Admin = {u2}
  Rma = {r1}
  Key = {k1}
  Slot = {q1, q2}
  MaxCrashes = 1
INVARIANTS
  SucceedsOncePerKey
  OneHandlerPerKey
PROPERTIES
  LeaseIsKept
  KeysSettle
