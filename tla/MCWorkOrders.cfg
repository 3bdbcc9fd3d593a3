SPECIFICATION Spec
CONSTANTS
  Rma = {r1}
  Sn = {s1, s2}
  Photo = {f1}
  Part = {p1}
  MaxQty = 1
  MaxCalls = 2
INVARIANTS
  BenchNeedsReceipt
  FinishNeedsEvidence
SYMMETRY Symmetry
PROPERTIES
  EvidenceIsAppendOnly
  SubmissionIsFrozen
