SPECIFICATION Spec
CONSTANTS
  max_out = 4
  checkpoint_interval = 2
  MaxSeqno = 18
INVARIANTS PointersIntact
PROPERTIES ElogIsWindow
