SPECIFICATION Spec
CONSTANTS
  Rma = {r1, r2}
  Sn = {s1}
  Photo = {f1}
  Part = {p1}
  MaxQty = 1
  MaxCalls = 1
INVARIANT SnBoundOnce
