SPECIFICATION Spec
CONSTANTS
  max_out = 4
  checkpoint_interval = 2
  MaxSeqno = 9
  IntBits = 5
INVARIANTS IntactWhereIndexed
PROPERTIES RingIsWindow StaysAligned
