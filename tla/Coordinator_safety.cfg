SPECIFICATION FairSpec
CONSTANTS
  Addr = {a1, a2}
  Req = {r1}
  MaxTx = 2
  MaxSess = 1
  MaxGtx = 1
  MaxRestarts = 1
  MaxSyncs = 0
  MaxReaps = 0
  LostAnswers = TRUE
  Overlap = "none"
INVARIANTS
  TypeOK
  CommitPersists
PROPERTIES
  PoisonedNeverCommits
  RollbackIsFinal
  RequestsAnswered
