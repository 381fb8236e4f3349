--------------------------- MODULE MCReplicaSeven ---------------------------
(* An instance of Replica with seven replicas, of which f = 2 are faulty. *)
EXTENDS Replica

CONSTANTS r1, r2, r3, r4, r5, r6, r7, a, b

Seven == {r1, r2, r3, r4, r5, r6, r7}
Two == {r2, r3}

AnyBatch == [n \in Seqnos |-> Digests]

(* The faulty ones are the primary r1, which proposes both batches, and r7,  *)
(* which prepares both.  r4, r5 and r6 are correct: r4 got the pre-prepare   *)
(* of a, as r3 may, and the others that of b.                                *)
TwoFaulty ==
  LET says(pps, ps) == [pp |-> {1} \X pps, p |-> {1} \X ps, c |-> {}, k |-> {}, md |-> {}]
  IN  [i \in Seven \ Two |->
         CASE i = r1       -> says({a, b}, {})
           [] i = r4       -> says({}, {a})
           [] i \in {r5, r6} -> says({}, {b})
           [] i = r7       -> says({}, {a, b})]
=============================================================================
