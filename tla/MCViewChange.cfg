SPECIFICATION Spec
CONSTANTS
  F = 1
  None = None
  NullBatch = NullBatch
  a = a b = b
  max_out = 2
  checkpoint_interval = 2
  IntBits = 32
  WordBits = 64
  Seqnos <- MCSeqnos
  FirstSeqno = 1
  LastSeqno = 2
  Starts <- MCStarts
  MaxView = 2
  LaterStable = {2}
  MaxKeys = 1
CHECK_DEADLOCK FALSE
INVARIANTS CommittedSurvives EntersCurrentView  CompletionCount   
