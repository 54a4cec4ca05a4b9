SPECIFICATION Spec
CONSTANTS
  Addr = {a1}
  Req = {r1, r2}
  MaxTx = 2
  MaxSess = 1
  MaxGtx = 2
  MaxRestarts = 0
  MaxSyncs = 1
  MaxReaps = 1
  LostAnswers = FALSE
  Overlap = "statements"
SYMMETRY Symmetry
INVARIANT NoSharedLocalTx
PROPERTY RollbackIsFinal
