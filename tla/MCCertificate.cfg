SPECIFICATION Spec
CONSTANTS
  r1 = r1 r2 = r2 r3 = r3 r4 = r4 r5 = r5 r6 = r6 r7 = r7
  va = va vb = vb vc = vc vd = vd
  None = None
  Ignored = Ignored
  Self = r1
  Replicas <- Seven
  F = 2
  Values <- FourValues
  Opinions <- Considered
  Complete = 4
INVARIANTS TypeOK CompleteIsQuorum CountersExact HeardAllIsComplete CorrectValueIsSound
PROPERTIES OnlyClearDropsMine ImplementsVotes
