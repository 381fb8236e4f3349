---------------------------- MODULE MCViewChange ----------------------------
(***************************************************************************)
(* Instances of ViewChange for TLC: one sequence number, four replicas of  *)
(* which one is faulty, and every history of views 0 and 1 that correct    *)
(* replicas can have; the timers are about to move them to view 2.         *)
(***************************************************************************)
EXTENDS ViewChange, TLC

CONSTANTS a, b, FirstSeqno, LastSeqno

MCSeqnos == 1..LastSeqno

None_sent == [d |-> None, prepared |-> FALSE]
Sent_one(d) == [d |-> d, prepared |-> FALSE]
Prepared_one(d) == [d |-> d, prepared |-> TRUE]

After(ri, v, h) ==
  IF h.prepared THEN add_complete(ri, v, h.d)
  ELSE IF h.d # None THEN add_incomplete(ri, v, h.d) ELSE ri

(* h[i] is what the correct replica i did in a view with primary p.  A       *)
(* batch prepares only when 2f+1 replicas sent it, at most f of them faulty, *)
(* and a correct primary proposes only one.                                  *)
Supporters(h, d) == {i \in DOMAIN h : h[i].d = d}
Preparers(h, d) == {i \in DOMAIN h : h[i].d = d /\ h[i].prepared}
Consistent(h, p) ==
  /\ \A i \in DOMAIN h : h[i].prepared => Cardinality(Supporters(h, h[i].d)) >= F + 1
  /\ p \in DOMAIN h => \A i \in DOMAIN h : h[i].d # None => h[i].d = h[p].d

(* Some replicas prepared, and the others all sent d or are all silent. *)
Histories(Correct, ds, p) ==
  {h \in {[i \in Correct |-> IF i \in P THEN Prepared_one(d) ELSE rest] :
            P \in SUBSET Correct, d \in ds, rest \in {None_sent} \cup {Sent_one(d) : d \in ds}} :
     Consistent(h, p)}

View0(Correct) == Histories(Correct, {a}, 0)

(* What the new view 1 may have started with, after h in view 0. *)
Propagated(h) ==
  LET silent == {i \in DOMAIN h : h[i].d = None}
      fresh == Cardinality(silent) >= F + 1
      unprepared == Cardinality(Preparers(h, a)) <= F
  IN  (IF Supporters(h, a) # {} \/ fresh THEN {a} ELSE {})
      \cup (IF unprepared /\ (Supporters(h, b) # {} \/ fresh) THEN {b} ELSE {})
      \cup (IF unprepared THEN {NullBatch} ELSE {})

View1(h0) == UNION {Histories(DOMAIN h0, {d}, 1) : d \in Propagated(h0)}

Oplog0(h0, i) == [n \in Seqnos |-> IF n = 1 THEN After(OReq_info, 0, h0[i]) ELSE OReq_info]
Oplog1(h0, h1, i) == [Oplog0(h0, i) EXCEPT ![1] = After(@, 1, h1[i])]
Ckpt0 == [n \in {0} |-> 0]
HonestVC(h0, h1, i) == View_change(i, 2, 0, Ckpt0, Oplog1(h0, h1, i))

(* A faulty replica says that b prepared in view 1, or that nothing did.    *)
Lie == [OReq_info EXCEPT !.v = 1, !.lv = 1, !.d = b, !.m = TRUE]
FaultyVC(i, ri) == View_change(i, 2, 0, Ckpt0, [n \in Seqnos |-> ri])

(* One acknowledgement per View_change is enough: 2f-1 are needed. *)
Acks(vcs, i) == {View_change_ack(2, i, j, vcs[j]) : j \in {k \in Replicas \ {2} : <<i, k>> \in {<<0, 1>>, <<1, 3>>, <<3, 0>>}}}

(* The New_views of a faulty primary 2. *)
FaultyNVs(vcs) ==
  {[v |-> 2, min |-> 0, max |-> max, vcs |-> [i \in Replicas |-> IF i \in Q THEN vcs[i] ELSE None],
    picked |-> [n \in 0..(max - 1) |-> IF n = 0 THEN 0 ELSE k]] :
   max \in {1, 2}, k \in {0, 1, 3}, Q \in {{0, 1, 3}, {0, 1, 2}}}

Prep(h0, h1, i) ==
  {<<0, 1, h0[i].d>> : k \in {j \in {1} : h0[i].prepared}} \cup
  {<<1, 1, h1[i].d>> : k \in {j \in {1} : h1[i].prepared}}

StartOf(active, h0, h1, faulty, lie) ==
  LET vcs == [i \in Replicas |-> IF i = faulty THEN FaultyVC(i, lie) ELSE HonestVC(h0, h1, i)]
      prep(i) == IF i = faulty THEN {} ELSE Prep(h0, h1, i)
      old(i) == Oplog1(h0, h1, i)[1]
  IN  <<[r \in active |-> Started(r, 1, Oplog0(h0, r), [EmptyPlog EXCEPT ![1] = h1[r]], {0}, 0, 0)],
        [i \in Replicas |->
           IF i \in active THEN Silent(prep(i))
           ELSE [vc |-> {vcs[i]}, ack |-> Acks(vcs, i), prep |-> prep(i),
                 nv |-> IF i = faulty /\ i = 2 THEN FaultyNVs(vcs) ELSE {},
                 pp |-> IF i = faulty THEN {1} \X {a, b}
                        ELSE {<<1, old(i).d>> : k \in {j \in {1} : old(i).m}},
                 p |-> IF i = faulty THEN {1} \X {a, b, NullBatch}
                       ELSE {1} \X send_proofs(old(i), 0)]],
        MaxKeys>>

Pairs(faulty) == UNION {{h0} \X View1(h0) : h0 \in View0(Replicas \ {faulty})}

(* View 0 ends with these logs: per replica the stable checkpoint, the      *)
(* checkpoints it has, and what it did for two sequence numbers.  The quiet *)
(* replicas have crashed.                                                   *)
Log(ls, ckpts, first, second) ==
  [ls |-> ls, ckpts |-> ckpts,
   plog |-> [n \in Seqnos |-> IF n = Max(Seqnos) THEN second ELSE IF n = FirstSeqno THEN first ELSE None_sent]]

NoOplog == [n \in Seqnos |-> OReq_info]

FromLogs(active, quiet, logs, used) ==
  LET oplog(i) == [n \in Seqnos |-> After(OReq_info, 0, logs[i].plog[n])]
      vcs == [i \in Replicas |->
                View_change(i, 1, logs[i].ls, [n \in logs[i].ckpts |-> n], oplog(i))]
      prepared(i) == {n \in Seqnos : logs[i].plog[n].prepared}
      prep(i) == {<<0, n, logs[i].plog[n].d>> : n \in prepared(i)}
  IN  <<[r \in active |->
           Started(r, 0, NoOplog, logs[r].plog, logs[r].ckpts, logs[r].ls, Max(logs[r].ckpts))],
        [i \in Replicas |->
           IF i \in active \cup quiet THEN Silent(prep(i))
           ELSE [vc |-> {vcs[i]}, prep |-> prep(i), nv |-> {},
                 ack |-> {View_change_ack(1, i, j, vcs[j]) : j \in Replicas \ (quiet \cup {i, 1})},
                 pp |-> {<<n, logs[i].plog[n].d>> : n \in prepared(i)},
                 p |-> UNION {{n} \X send_proofs(oplog(i)[n], 0) : n \in Seqnos}]],
        used>>

(* What a replica may have at the end of view 0: both batches executed; the *)
(* same, and their checkpoint stable; one batch prepared; pre-prepared only.*)
Executed == Log(0, {0, 2}, Prepared_one(a), Prepared_one(b))
Collected == Log(2, {2}, None_sent, None_sent)
Prepared_first == Log(0, {0}, Prepared_one(a), None_sent)
Behind == Log(0, {0}, Prepared_one(a), Sent_one(b))
Fresh == Log(0, {0}, None_sent, None_sent)
Waiting == Log(0, {0}, Sent_one(a), None_sent)

Logs(l0, l1, l2, l3) ==
  [i \in Replicas |-> CASE i = 0 -> l0 [] i = 1 -> l1 [] i = 2 -> l2 [] i = 3 -> l3]

(* All are correct, three have executed both batches, and one of them knows *)
(* that the checkpoint is stable.                                           *)
TwiceStarts == {FromLogs({1}, {}, Logs(Executed, Executed, Executed, Collected), MaxKeys)}

(* Replica 3 crashed, and only replica 2 prepared the batch. *)
StuckStarts == {FromLogs({1}, {3}, Logs(Waiting, Waiting, Prepared_first, Waiting), MaxKeys)}

(* Two sequence numbers that are 32 apart: all prepared the first batch and *)
(* only pre-prepared the second.                                            *)
BitmapStarts ==
  LET log == Log(0, {0}, Prepared_one(a), Sent_one(b))
  IN  {FromLogs({1}, {}, Logs(log, log, log, log), MaxKeys)}

(* The old primary 0 is faulty and 2 makes the new view; or the new primary *)
(* 2 is faulty and 3 checks what it made; or all are correct, and 1 and 2   *)
(* make the new view together.                                              *)
SmallWindow == max_out = 2
MCStarts ==
  IF ~SmallWindow THEN {} ELSE
  {StartOf({2}, h[1], h[2], 0, Lie) : h \in Pairs(0)} \cup
  {StartOf({3}, h[1], h[2], 2, OReq_info) : h \in Pairs(2)} \cup
  {FromLogs({1}, {}, Logs(Executed, Behind, Executed, Collected), MaxKeys),
   FromLogs({1, 2}, {0}, Logs(Executed, Executed, Collected, Collected), MaxKeys),
   FromLogs({1, 2}, {0}, Logs(Executed, Collected, Executed, Executed), MaxKeys),
   FromLogs({1, 2}, {0}, Logs(Waiting, Waiting, Fresh, Waiting), 0)}
=============================================================================
