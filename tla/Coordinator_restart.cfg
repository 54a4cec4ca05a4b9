SPECIFICATION Spec
CONSTANTS
  Addr = {a1}
  Req = {r1, r2}
  MaxTx = 2
  MaxSess = 2
  MaxGtx = 2
  MaxRestarts = 1
  MaxSyncs = 0
  MaxReaps = 0
  LostAnswers = FALSE
  Overlap = "none"
INVARIANT CommitPersists
