SPECIFICATION Spec
CONSTANTS
  r1 = r1 r2 = r2 r3 = r3 r4 = r4 a = a b = b
  None = None
  Ignored = Ignored
  Replicas <- Four
  F = 1
  Correct <- CorrectPrimary
  Primary = r1
  Claims <- FaultyBackup
  Digests <- TwoBatches
  Batches <- OneBatch
  max_out = 4
  checkpoint_interval = 2
  MaxSeqno = 2
  MaxKeys = 0
SYMMETRY PairSymmetry
ACTION_CONSTRAINT Uninterrupted
INVARIANTS StableIsBacked
