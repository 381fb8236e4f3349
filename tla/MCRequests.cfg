SPECIFICATION Spec
CONSTANTS
  a = a
  b = b
  Clients = {a, b}
  Kinds <- MCKinds
  max_out = 2
  congestion_window = 1
  MaxBatch = 1
  MyViews = {1}
  MaxView = 2
  SLOTS = 3
INVARIANTS    IdleReplicaNotTimed 
CHECK_DEADLOCK FALSE
