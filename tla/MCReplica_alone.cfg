SPECIFICATION FairSpec
CONSTANTS
  r1 = r1 r2 = r2 r3 = r3 r4 = r4 a = a b = b
  None = None
  Ignored = Ignored
  Replicas <- Four
  F = 1
  Correct <- Alone
  Primary = r2
  Claims <- Behind
  Digests <- TwoBatches
  Batches <- AnyBatch
  max_out = 4
  checkpoint_interval = 2
  MaxSeqno = 6
  MaxKeys = 1
INVARIANTS TypeOK NoTentativeWhileFetching StateMatchesCounters LogsOwnMessageOnce WithinWindow
PROPERTIES CatchesUp
