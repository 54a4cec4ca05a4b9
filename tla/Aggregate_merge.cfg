SPECIFICATION Spec
CONSTANTS
  Shard <- MCShard
  Cases <- MCCases
  ExpFrom <- MCExpFrom
  FloatExact <- MCFloatExact
INVARIANT MergeCorrect
CHECK_DEADLOCK FALSE
