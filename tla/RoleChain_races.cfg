SPECIFICATION Spec
CONSTANTS
  Proc = {p1, p2}
  Handoffs <- FewHandoffs
  Contents = {c1, c2}
  MaxRecords = 2
  MaxLosses = 1
SYMMETRY Symmetry
INVARIANTS
  TypeOK
  ChainVerifies
  ReportedIsStored
PROPERTIES
  ImplementsLedger
CHECK_DEADLOCK FALSE
