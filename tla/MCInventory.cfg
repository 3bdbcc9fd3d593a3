SPECIFICATION Spec
CONSTANTS
  Part = {p1}
  Tech = {t1, t2}
  Rma = {r1}
  Sn = {s1, s2}
  Slot = {c1, c2}
  InitialStock <- MCInitialStock
  MaxQty = 2
  MaxReturns = 1
INVARIANTS
  TypeOK
  StockIsConserved
  LedgerExplainsStock
SYMMETRY Symmetry
