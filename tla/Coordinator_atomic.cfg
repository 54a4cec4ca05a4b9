SPECIFICATION Spec
CONSTANTS
  Addr = {a1, a2}
  Req = {r1}
  MaxTx = 1
  MaxSess = 1
  MaxGtx = 1
  MaxRestarts = 0
  MaxSyncs = 0
  MaxReaps = 0
  LostAnswers = FALSE
  Overlap = "none"
INVARIANT CommitAtomic
