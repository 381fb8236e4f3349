SPECIFICATION Spec
CONSTANTS
  r1 = r1 r2 = r2 r3 = r3 r4 = r4 a = a b = b
  None = None
  Ignored = Ignored
  Replicas <- Four
  F = 1
  Correct <- Backups
  Primary = r1
  Claims <- FaultyPrimary
  Digests <- TwoBatches
  Batches <- AnyBatch
  max_out = 4
  checkpoint_interval = 2
  MaxSeqno = 1
  MaxKeys = 1
SYMMETRY BackupSymmetry
ACTION_CONSTRAINT Uninterrupted
INVARIANTS Agreement
