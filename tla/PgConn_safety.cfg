SPECIFICATION Spec
CONSTANTS
  Conns = {c1, c2}
  Batches <- AllBatches
  Extended = TRUE
  MaxSess = 2
SYMMETRY Symmetry
INVARIANTS
  TypeOK
  OwnSession
  AsAcknowledged
  PlainQueryReady
CHECK_DEADLOCK FALSE
