SPECIFICATION Spec
CONSTANTS
  r1 = r1 r2 = r2 r3 = r3 r4 = r4 r5 = r5 r6 = r6 r7 = r7 a = a b = b
  None = None
  Ignored = Ignored
  Replicas <- Seven
  F = 2
  Correct <- Two
  Primary = r1
  Claims <- TwoFaulty
  Digests = {a, b}
  Batches <- AnyBatch
  max_out = 4
  checkpoint_interval = 2
  MaxSeqno = 1
  MaxKeys = 1
INVARIANT Agreement
