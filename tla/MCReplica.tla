----------------------------- MODULE MCReplica -----------------------------
(* Instances of Replica for TLC. *)
EXTENDS Replica, TLC

CONSTANTS r1, r2, r3, r4, a, b

Four == {r1, r2, r3, r4}
Backups == {r2, r3, r4}
TwoBatches == {a, b}

(* Any batch may be ordered anywhere. *)
AnyBatch == [n \in Seqnos |-> Digests]

(* Nothing at all. *)
Silence == [pp |-> {}, p |-> {}, c |-> {}, k |-> {}, md |-> {}]

(* A faulty primary proposes every batch to everyone and commits to all. *)
FaultyPrimary ==
  [i \in {r1} |-> [Silence EXCEPT !.pp = Seqnos \X Digests, !.c = Seqnos]]

(* One replica, r1, among three that all follow the history a, b, a, ... and *)
(* may be ahead of it by any amount.  Of their messages enough are kept for  *)
(* every certificate: batches 1 and 2 can still be committed and 3 be        *)
(* prepared; checkpoints above 3 are stable elsewhere.                       *)
Alone == {r1}
History(n) == [k \in 1..n |-> IF k % 2 = 1 THEN a ELSE b]
Ordered == {<<n, History(n)[n]>> : n \in 1..3}
Taken == {<<n, History(n)>> : n \in Checkpoints}
Stable(S) == {<<k[1], k[2], k[1] > 3>> : k \in S}
Ahead ==
  [i \in {r2, r3, r4} |->
     CASE i = r2 -> [Silence EXCEPT !.pp = Ordered, !.c = 1..2]
       [] i = r3 -> [Silence EXCEPT !.p = Ordered, !.c = 1..2, !.k = Stable(Taken), !.md = Taken]
       [] i = r4 -> [Silence EXCEPT !.k = Stable(Taken), !.md = Taken]]

(* r3 and r4 are at the stable checkpoint 6 and answer for that one only;    *)
(* the earlier messages of r3 are still on the way, those of r4 are lost.    *)
(* r2 lets batches 1 and 2 happen and then falls silent.                     *)
Behind ==
  LET taken(n, s) == <<n, History(n), s>>
      batches == {<<1, a>>, <<2, b>>}
      now == {<<6, History(6)>>}
  IN  [i \in {r2, r3, r4} |->
         CASE i = r2 -> [Silence EXCEPT !.pp = batches, !.c = 1..2]
           [] i = r3 -> [Silence EXCEPT !.p = batches, !.c = 1..2, !.md = now,
                           !.k = {taken(2, FALSE), taken(4, TRUE), taken(6, TRUE)}]
           [] i = r4 -> [Silence EXCEPT !.md = now, !.k = {taken(6, TRUE)}]]

(* The same when r2 stopped at the stable checkpoint 2 and keeps vouching    *)
(* for it.                                                                   *)
StaleVoucher == [Behind EXCEPT ![r2].md = {<<2, History(2)>>}]

(* With three batches between checkpoints: the others are at the stable      *)
(* checkpoint 9.  Of checkpoint 6 the messages of r2 and r3 are those from   *)
(* before it was stable and that of r4 is a later one.  Batches 1 to 4 can   *)
(* be committed, 5 prepared.                                                 *)
Overtaken ==
  [i \in {r2, r3, r4} |->
     LET taken(n, s) == <<n, History(n), s>>
         batches == {<<n, History(n)[n]>> : n \in 1..5}
     IN  CASE i = r2 -> [Silence EXCEPT !.pp = batches, !.c = 1..4, !.k = {taken(6, FALSE)}]
           [] i = r3 -> [Silence EXCEPT !.p = batches, !.c = 1..4,
                           !.k = {taken(3, FALSE), taken(6, FALSE), taken(9, TRUE)}]
           [] i = r4 -> [Silence EXCEPT
                           !.k = {taken(3, FALSE), taken(6, TRUE), taken(9, TRUE)}]]

(* Messages about a batch arrive when the one before it is executed, and     *)
(* checkpoint messages after the last commit.                                *)
InOrder ==
  LET x == rep[r1]
  IN  /\ \A n \in Seqnos : x.plog[n] # EmptyPrepared \/ x.clog[n] # EmptyCert =>
                            x.last_executed >= n - 1
      /\ (\E i \in {r2, r3, r4}, n \in Checkpoints : x.elog[n].votes[i] # None \/ x.sset[i] # None)
           => x.last_executed >= 4 \/ x.stopped

(* A correct primary r1 with two correct backups; the faulty r4 takes no     *)
(* part but reports a stable checkpoint early, so that one of the others     *)
(* can be left behind and has to fetch the state.                            *)
CorrectPrimary == {r1, r2, r3}
OneBatch == [n \in Seqnos |-> {History(n)[n]}]
FaultyBackup ==
  [i \in {r4} |->
     [Silence EXCEPT !.k = {<<n, History(n), TRUE>> : n \in Checkpoints}]]
PairSymmetry == Permutations({r2, r3})

BackupSymmetry == Permutations(Backups) \cup Permutations(Digests)

(* A handler runs to its end before another replica takes a step.  Its calls *)
(* read and write the state of its own replica only, and messages sent in    *)
(* between can be delivered later as well, so nothing is lost.               *)
Busy == {q \in Correct : rep[q].calls # << >>}
Uninterrupted == Busy # {} => \E q \in Busy : rep'[q] # rep[q]
=============================================================================
