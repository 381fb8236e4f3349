SPECIFICATION Spec
CONSTANTS
  nb = 3
  PChildren = 2
  MAX_PARTITION_LEVELS = 4
  max_out = 4
  checkpoint_interval = 2
  Replicas = {0, 1, 2, 3}
  f = 1
  me = 0
  Faulty = {3}
  MaxSeqno = 6
  Writes <- MCWrites
  Repliers = {1}
  Tentative = {1, 4}
  AltSeqnos = {1}
  CheckAt = {3}
  Corrupted = {}
INVARIANTS SumsConsistent TreeMatchesMemory    OtherAssertionsHold
CHECK_DEADLOCK FALSE
