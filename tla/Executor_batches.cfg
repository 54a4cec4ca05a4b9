SPECIFICATION ExecFairSpec
CONSTANTS
  Thread = {t1}
  Reaper = reaper
  Conn = {c1, c2}
  MaxTx = 2
  None = none
  Batches <- MCBatches
INVARIANTS
  TypeOK
  ConnExclusive
  NoConnLeak
  NoUseAfterRelease
  NoZombie
  OneOutcome
PROPERTIES
  ImplementsLocalTx
  NothingForgotten
  AbandonedReaped
  BeginServed
