-------------------------------- MODULE State --------------------------------
(***************************************************************************)
(* class State (State.cc) in the build with NO_STATE_TRANSLATION and       *)
(* ALTERNATIVE_CHECKPOINT_RECORDS: the memory of the service, the          *)
(* partition tree over it, copy-on-write, checkpoints, rollback, and the   *)
(* fetching and checking of state.                                         *)
(*                                                                         *)
(* A State object is a record:                                             *)
(*   mem, cowb          the blocks, and those copied since checkpoint lc   *)
(*   ptree, stree       last modification and digest of every partition,   *)
(*                      and the sums of the digests of their children      *)
(*   clog, lc           checkpoint records and the last checkpoint         *)
(*   fetching, flevel, stalep, cert, lreplier, asked                       *)
(*                      the fetch: level, stale partitions of each level,  *)
(*                      certificate, replier, the last Fetch sent          *)
(*   checking, check_start, to_check, refetch_level                        *)
(*                      the check of the state during recovery             *)
(*   failed             names of the assertions that have failed           *)
(* A digest is the record of what it hashes (index, last modification and  *)
(* content), so digests are equal only for equal arguments; a DSum is the  *)
(* set of the digests added to it.  keep_ckpts is false whenever it is     *)
(* read (start_fetch() sets it so and nothing sets it to true).            *)
(***************************************************************************)
EXTENDS Partition, MetaDataCert

-----------------------------------------------------------------------------
(* Digests and the partition tree                                          *)

Digest(i, lm, content) == [i |-> i, lm |-> lm, c |-> content]

DigestOf(s, k) ==
  Digest(k[2], s.ptree[k].lm, IF k[1] = Leaf THEN s.mem[k[2]] ELSE s.stree[k])

Asserted(s, holds, name) ==
  IF holds THEN s ELSE [s EXCEPT !.failed = @ \cup {name}]

RecordAt(s, n) == fetch(s.clog, n)

(* The assertions of CheckpointRecordLog::fetch().                         *)
AssertRecord(s, n) ==
  Asserted(Asserted(s, log_within_range(s.clog, n), "within_range"),
           is_fetchable(s.clog, n), "fetch_seqno")

(* Mutant: the old digests stay in the sums.                               *)
SetParts_adding(s, M, part) ==
  [s EXCEPT
     !.ptree = [k \in Nodes |-> IF k \in M THEN part[k] ELSE @[k]],
     !.stree = [p \in Inner |-> @[p] \cup
                  {part[k].d : k \in {k \in M : k[1] > 0 /\ ParentOf(k) = p}}]]

(* Replaces the parts of the nodes in M, all of one level, and moves their *)
(* digests in the sums of their parents: psum.sub(), assignment, psum.add().*)
SetParts(s, M, part) ==
  [s EXCEPT
     !.ptree = [k \in Nodes |-> IF k \in M THEN part[k] ELSE @[k]],
     !.stree = [p \in Inner |->
        LET kids == {k \in M : k[1] > 0 /\ ParentOf(k) = p}
        IN  (@[p] \ {s.ptree[k].d : k \in kids}) \cup {part[k].d : k \in kids}]]

(* append() of the parts of M to the record of lc; copies of blocks were   *)
(* made by cow_single().                                                   *)
AppendParts(s, M) ==
  LET r == RecordAt(s, s.lc)
  IN  [Asserted(s, \A k \in M : ~has(r, k), "append") EXCEPT
         !.clog = store(@, s.lc, append(r, [k \in M |-> s.ptree[k]]))]

UpdateLevel(s, M, n) ==
  LET saved == IF M # {} /\ \A k \in M : k[1] < Leaf THEN AppendParts(s, M) ELSE s
  IN  SetParts(saved, M,
        [k \in M |-> [lm |-> n,
                      d |-> Digest(k[2], n, IF k[1] = Leaf THEN s.mem[k[2]]
                                            ELSE s.stree[k])]])

(* update_ptree(): from the written blocks up to the root.                 *)
UpdateStep(n, acc, l) ==
  [s |-> UpdateLevel(acc.s, acc.mods, n),
   mods |-> IF l = 0 THEN {} ELSE {ParentOf(k) : k \in acc.mods}]

Upwards == [j \in 1..PLevels |-> PLevels - j]

update_ptree(s, n) ==
  FoldLeft(LAMBDA acc, l : UpdateStep(n, acc, l),
           [s |-> AssertRecord(s, s.lc), mods |-> {<<Leaf, i>> : i \in s.cowb}], Upwards).s

set_digest(s, n) ==
  [s EXCEPT !.clog = store(@, n, [fetch(@, n) EXCEPT !.sd = s.ptree[<<0, 0>>].d])]

(* Mutant: the copy-on-write bits survive the checkpoint.                  *)
checkpoint_keeping_cow(s, n) ==
  set_digest(AssertRecord([update_ptree(s, n) EXCEPT !.lc = n], n), n)

checkpoint(s, n) ==
  [set_digest(AssertRecord([update_ptree(s, n) EXCEPT !.lc = n], n), n) EXCEPT !.cowb = {}]

NoFetch == [level |-> -1]

(* One level of compute_full_digest(): np is the number of its partitions  *)
(* that have blocks.                                                       *)
DigestLevel(acc, l) ==
  LET M == {<<l, i>> : i \in 0..(acc.np - 1)}
  IN  [s |-> SetParts(acc.s, M, [k \in M |-> [lm |-> 0, d |-> DigestOf(acc.s, k)]]),
       np |-> (acc.np + PSize[l] - 1) \div PSize[l]]

(* The constructor and compute_full_digest(), which ends in checkpoint(0). *)
NewState ==
  LET empty == [mem |-> [i \in Blocks |-> 0], cowb |-> {},
                ptree |-> [k \in Nodes |-> [lm |-> 0, d |-> NoDigest]],
                stree |-> [k \in Inner |-> {}],
                clog |-> NewLog(0), lc |-> 0,
                fetching |-> FALSE, flevel |-> 0, stalep |-> [l \in Levels |-> <<>>],
                cert |-> NewCert, lreplier |-> 0, asked |-> NoFetch,
                checking |-> FALSE, check_start |-> 0, to_check |-> <<>>,
                refetch_level |-> 0, failed |-> {}]
  IN  checkpoint(FoldLeft(DigestLevel, [s |-> empty, np |-> nb], Upwards).s, 0)

-----------------------------------------------------------------------------
(* Copy-on-write, rollback and discarding                                  *)

(* cow_single() for the blocks in B, one after the other.                  *)
cow_single(s, B) ==
  LET r == RecordAt(s, s.lc)
      M == {<<Leaf, i>> : i \in B}
      copy(k) == [lm |-> s.ptree[k].lm, d |-> s.ptree[k].d, data |-> s.mem[k[2]]]
  IN  [Asserted(AssertRecord(s, s.lc), \A k \in M : ~has(r, k), "append") EXCEPT
         !.clog = store(@, s.lc, append(r, [k \in M |-> copy(k)])),
         !.cowb = @ \cup B]

(* cow() over the blocks a batch writes, and the writes of the service.    *)
Write(s, B, value) ==
  LET copied == IF B \subseteq s.cowb THEN s ELSE cow_single(s, B \ s.cowb)
  IN  [copied EXCEPT !.mem = [i \in Blocks |-> IF i \in B THEN value ELSE @[i]]]

(* Mutants: the memory is not restored; the record is not cleared.         *)
rollback_keeping_memory(s) ==
  [s EXCEPT !.clog = store(@, s.lc, [clear_record(RecordAt(s, s.lc)) EXCEPT
                                       !.sd = s.ptree[<<0, 0>>].d]),
            !.cowb = {}]
rollback_keeping_record(s) ==
  LET r == RecordAt(s, s.lc)
  IN  [s EXCEPT !.mem = [i \in Blocks |-> IF i \in s.cowb THEN r.copies[<<Leaf, i>>].data
                                          ELSE @[i]],
                !.cowb = {}]

rollback(s) ==
  LET a == Asserted(s, s.lc >= 0 /\ ~s.fetching, "rollback")
      r == RecordAt(s, s.lc)
      kept == {i \in s.cowb : has(r, <<Leaf, i>>)}
  IN  [Asserted(AssertRecord(a, s.lc), kept = s.cowb, "rollback_copy") EXCEPT
         !.mem = [i \in Blocks |-> IF i \in kept THEN r.copies[<<Leaf, i>>].data ELSE @[i]],
         !.clog = store(@, s.lc, [clear_record(r) EXCEPT !.sd = s.ptree[<<0, 0>>].d]),
         !.cowb = {}]

(* digest(n, d): whether there is a checkpoint n, and its digest.          *)
has_digest(s, n) == log_within_range(s.clog, n) /\ ~is_cleared(RecordAt(s, n))
digest(s, n) == RecordAt(s, n).sd

discard_checkpoint(s, n, le) ==
  LET saved == IF n > s.lc /\ le > s.lc /\ s.lc >= 0
               THEN [checkpoint(s, le) EXCEPT !.lc = -1] ELSE s
  IN  [saved EXCEPT !.clog = truncate_log(@, n)]

(* Mutant: the record of checkpoint c itself is passed over.               *)
RecordsWith_after(s, c, k) ==
  {n \in (c + 1)..s.lc : /\ (n - c) % checkpoint_interval = 0
                         /\ ~is_cleared(RecordAt(s, n))
                         /\ has(RecordAt(s, n), k)}

(* The first record from checkpoint c on that has the value node k had.    *)
RecordsWith(s, c, k) ==
  {n \in c..s.lc : /\ (n - c) % checkpoint_interval = 0
                   /\ ~is_cleared(RecordAt(s, n))
                   /\ has(RecordAt(s, n), k)}

(* get_data() and get_meta_data(), and when they find what they look for   *)
(* rather than reach th_assert(0).                                         *)
data_in_memory(s, c, i) == s.ptree[<<Leaf, i>>].lm <= c /\ i \notin s.cowb
has_data(s, c, i) == data_in_memory(s, c, i) \/ RecordsWith(s, c, <<Leaf, i>>) # {}
get_data(s, c, i) ==
  IF data_in_memory(s, c, i) \/ ~has_data(s, c, i) THEN s.mem[i]
  ELSE RecordAt(s, Min(RecordsWith(s, c, <<Leaf, i>>))).copies[<<Leaf, i>>].data

has_meta_data(s, c, k) == s.ptree[k].lm <= c \/ RecordsWith(s, c, k) # {}
get_meta_data(s, c, k) ==
  IF s.ptree[k].lm <= c \/ ~has_meta_data(s, c, k) THEN s.ptree[k]
  ELSE LET p == RecordAt(s, Min(RecordsWith(s, c, k))).copies[k]
       IN  [lm |-> p.lm, d |-> p.d]

-----------------------------------------------------------------------------
(* Fetching                                                                *)

High(q) == Last(q)

(* The messages.                                                           *)
Fetch(lu, level, index, c, replier) ==
  [lu |-> lu, level |-> level, index |-> index, c |-> c, replier |-> replier]
Data(i, lm, data) == [tag |-> "Data", index |-> i, lm |-> lm, data |-> data]
Meta_data(l, i, lu, lm, d, parts) ==
  [tag |-> "Meta_data", level |-> l, index |-> i, lu |-> lu, lm |-> lm, d |-> d,
   parts |-> parts]
Meta_data_d(l, i, id, ls, digests) ==
  [tag |-> "Meta_data_d", level |-> l, index |-> i, id |-> id, ls |-> ls,
   digests |-> digests]

(* The digests of node k that a replica puts in a Meta_data_d: those of    *)
(* its checkpoints from c on.                                              *)
DigestsFrom(s, c, k) ==
  LET cs == {n \in c..s.lc : (n - c) % checkpoint_interval = 0}
  IN  [n \in cs |-> get_meta_data(s, n, k).d]

(* The answer the replica gives itself.                                    *)
own_answer(s, k) ==
  LET cs == {n \in DOMAIN DigestsFrom(s, s.clog.head, k) : ~is_cleared(RecordAt(s, n))}
  IN  [id |-> me, ls |-> s.clog.head, digests |-> [n \in cs |-> get_meta_data(s, n, k).d]]

add_own(s, k, m) ==
  [Asserted(s, \A n \in DOMAIN m.digests : has_meta_data(s, n, k), "own_meta_data") EXCEPT
     !.cert = add(@, m, TRUE).cert]

send_fetch(s, change_replier) ==
  LET p == High(s.stalep[s.flevel])
      k == <<s.flevel, p.index>>
      next == LET r == (s.lreplier + 1) % Cardinality(Replicas)
              IN  IF r = me THEN (r + 1) % Cardinality(Replicas) ELSE r
      lreplier == IF p.c >= 0 /\ change_replier THEN next ELSE s.lreplier
      asked == [Asserted(s, s.stalep[s.flevel] # <<>>, "send_fetch") EXCEPT
                  !.lreplier = lreplier,
                  !.asked = Fetch(p.lu, s.flevel, p.index, p.c,
                                  IF p.c >= 0 THEN lreplier ELSE -1)]
      answered == has_mine(s.cert) \/ is_cleared(RecordAt(s, s.clog.head)) \/ p.c > s.lc
  IN  IF answered THEN asked ELSE add_own(asked, k, own_answer(s, k))

(* start_fetch(le, c, cd): c is -1 when any newer checkpoint will do.      *)
(* replier is the random initial value of lreplier.                        *)
fetch_root(s, c, cd, replier) ==
  LET root == [index |-> 0, lu |-> IF s.refetch_level = PLevels THEN -1 ELSE s.lc,
               lm |-> s.ptree[<<0, 0>>].lm, c |-> c, d |-> cd]
  IN  send_fetch([s EXCEPT
        !.fetching = TRUE, !.lreplier = replier, !.cert = NewCert, !.flevel = 0,
        !.stalep = [l \in Levels |-> IF l = 0 THEN <<root>> ELSE <<>>]], TRUE)

start_fetch(s, le, c, cd, replier) ==
  IF s.fetching THEN s
  ELSE fetch_root(IF s.lc >= 0 /\ s.lc < le
                  THEN checkpoint([s EXCEPT !.clog = set_fetch_seqno(@, le)], le) ELSE s,
                  c, cd, replier)

(* handle(Fetch): what a replica with state s and last stable checkpoint   *)
(* ls answers to the fetch fe.                                             *)
handle_Fetch(s, ls, id, fe) ==
  LET k == <<fe.level, fe.index>>
      chosen == IF fe.c < 0 \/ fe.replier # id THEN -1
                ELSE IF log_within_range(s.clog, fe.c) /\ ~is_cleared(RecordAt(s, fe.c))
                     THEN fe.c
                ELSE IF s.lc >= fe.c /\ s.ptree[k].lm <= fe.c THEN s.lc ELSE -1
      p == get_meta_data(s, chosen, k)
      kids == {c \in Nodes : c[1] = fe.level + 1 /\ ParentOf(c) = k}
      changed == {c[2] : c \in {c \in kids : get_meta_data(s, chosen, c).lm > fe.lu}}
      from == IF is_cleared(RecordAt(s, ls)) THEN ls + checkpoint_interval ELSE ls
      ds == DigestsFrom(s, from, k)
  IN  IF chosen >= 0 /\ fe.level = Leaf
      THEN {Data(fe.index, p.lm, get_data(s, chosen, fe.index))}
      ELSE IF chosen >= 0
      THEN {Meta_data(fe.level, fe.index, chosen, p.lm, p.d,
              [i \in changed |-> get_meta_data(s, chosen, <<fe.level + 1, i>>).d])}
      ELSE IF ls > fe.c /\ ls >= fe.lu /\ s.ptree[k].lm > fe.c /\ ds # <<>>
      THEN {Meta_data_d(fe.level, fe.index, id, ls, ds)}
      ELSE {}

Raise(q, lm) == [q EXCEPT ![Len(q)].lm = IF lm > @ THEN lm ELSE @]

(* Replica::new_state() comes after the completion of the root.            *)
Completed(s, wp) ==
  LET a == Asserted(s, s.lc <= wp.lu, "lc_after_fetch")
      g == IF log_within_range(s.clog, wp.lu) THEN s.clog
           ELSE truncate_log(s.clog, wp.lu - max_out)
  IN  [a EXCEPT
         !.fetching = FALSE,
         !.checking = @ /\ s.to_check # <<>>,
         !.lc = wp.lu,
         !.clog = store(g, wp.lu, [fetch(g, wp.lu) EXCEPT !.sd = s.ptree[<<0, 0>>].d]),
         !.cowb = {}, !.stalep[0] = <<>>, !.cert = NewCert, !.asked = NoFetch,
         !.refetch_level = 0]

(* Mutant: a partition with children newer than the checkpoint fetched for *)
(* it is taken as it is.                                                   *)
LevelDone_without_refetch(acc, l) ==
  LET s == acc.s
      wp == [High(s.stalep[l]) EXCEPT !.lu = High(s.stalep[l]).c]
      at == [s EXCEPT !.flevel = l, !.stalep[l][Len(s.stalep[l])] = wp]
      k == <<l, wp.index>>
      kept == SetParts(at, {k}, [x \in {k} |-> [lm |-> wp.lm, d |-> wp.d]])
      popped == [kept EXCEPT !.stalep[l] = Front(@), !.stalep[l - 1] = Raise(@, wp.lm)]
  IN  IF ~acc.go THEN acc
      ELSE IF l = 0 THEN [go |-> FALSE, s |-> Completed(kept, wp)]
      ELSE [go |-> popped.stalep[l] = <<>>, s |-> popped]

(* One call of done_with_level(), for level l = flevel - 1; go says that   *)
(* it calls itself for the level above.                                    *)
LevelDone(acc, l) ==
  LET s == acc.s
      wp == [High(s.stalep[l]) EXCEPT !.lu = High(s.stalep[l]).c]
      at == [Asserted(s, s.stalep[l + 1] = <<>> /\ wp.c # -1, "done_with_level")
               EXCEPT !.flevel = l, !.stalep[l][Len(s.stalep[l])] = wp]
      k == <<l, wp.index>>
      kept == SetParts(at, {k}, [x \in {k} |-> [lm |-> wp.lm, d |-> wp.d]])
      popped == [Asserted(kept, High(s.stalep[l - 1]).index = ParentOf(k)[2], "parent")
                   EXCEPT !.stalep[l] = Front(@), !.stalep[l - 1] = Raise(@, wp.lm)]
  IN  IF ~acc.go THEN acc
      ELSE IF wp.lu < wp.lm
      THEN [go |-> FALSE, s |-> [at EXCEPT !.refetch_level = IF l < @ THEN l ELSE @]]
      ELSE IF l = 0 THEN [go |-> FALSE, s |-> Completed(kept, wp)]
      ELSE IF popped.stalep[l] = <<>> THEN [go |-> TRUE, s |-> popped]
      ELSE [go |-> FALSE,
            s |-> [popped EXCEPT !.refetch_level = IF l <= @ THEN PLevels ELSE @]]

fetch_on(s) == IF s.fetching THEN send_fetch(s, FALSE) ELSE s

done_with_level(s) ==
  fetch_on(FoldLeft(LevelDone, [go |-> TRUE, s |-> s],
                    [j \in 1..s.flevel |-> s.flevel - j]).s)

(* The next stale partition of the level, or the level above.              *)
proceed(s) ==
  IF s.stalep[s.flevel] = <<>> THEN done_with_level(s) ELSE send_fetch(s, FALSE)

handle_Data(s, m) ==
  LET wp == High(s.stalep[Leaf])
      k == <<Leaf, wp.index>>
      put == SetParts(s, {k}, [x \in {k} |-> [lm |-> m.lm, d |-> wp.d]])
      up == Asserted(put, High(s.stalep[Leaf - 1]).index = ParentOf(k)[2], "parent")
      next == [up EXCEPT !.cowb = @ \cup {wp.index}, !.mem[wp.index] = m.data,
                         !.stalep[Leaf] = Front(@), !.stalep[Leaf - 1] = Raise(@, m.lm),
                         !.cert = NewCert]
  IN  IF ~(s.fetching /\ s.flevel = Leaf) THEN s
      ELSE IF m.index # wp.index THEN s
      ELSE IF wp.c < 0 \/ wp.d # Digest(wp.index, m.lm, m.data) THEN send_fetch(s, FALSE)
      ELSE proceed(next)

(* check_digest(): the own sum with the digests of the answer put in.      *)
check_digest(s, d, m) ==
  LET l == m.level + 1
      changed == {i \in DOMAIN m.parts : m.parts[i] # NoDigest}
      own_d == {s.ptree[<<l, i>>].d : i \in changed}
      new_d == {m.parts[i] : i \in changed}
  IN  d = Digest(m.index, m.lm, (s.stree[<<m.level, m.index>>] \ own_d) \cup new_d)

(* Parts put on to_check when their digest turns out to be right.          *)
ToCheck(s, k) ==
  IF s.refetch_level = PLevels /\ s.ptree[k].lm <= s.check_start
  THEN [s EXCEPT !.to_check = Append(@, k)] ELSE s

(* One round of the loop over the sub-parts of an answer.                  *)
SubPart(s, wp, m, i) ==
  LET k == <<m.level + 1, i>>
  IN  IF i \notin DOMAIN m.parts \/ m.parts[i] \in {NoDigest, s.ptree[k].d} THEN ToCheck(s, k)
      ELSE [s EXCEPT !.stalep[k[1]] = Append(@,
              [index |-> i, lu |-> wp.lu, lm |-> s.ptree[k].lm, c |-> wp.c,
               d |-> m.parts[i]])]

(* The sub-parts that Sub_parts_iter goes through.                         *)
SubParts(m) ==
  LET n == PSize[m.level + 1]
      first == m.index * n
      size == LevelSize(m.level + 1) - first
  IN  [j \in 1..(IF size < n THEN size ELSE n) |-> first + j - 1]

handle_Meta_data(s, m) ==
  LET wp == High(s.stalep[m.level])
      top == [s EXCEPT !.stalep[m.level] = [@ EXCEPT ![Len(@)].lm = m.lm],
                       !.flevel = m.level + 1]
      a == Asserted(top, s.stalep[m.level + 1] = <<>>, "handle_Meta_data")
      all == [FoldLeft(LAMBDA t, i : SubPart(t, wp, m, i), a, SubParts(m))
                EXCEPT !.cert = NewCert]
  IN  IF ~(s.fetching /\ s.flevel < Leaf /\ s.flevel = m.level) THEN s
      ELSE IF ~(wp.index = m.index /\ wp.c >= 0 /\ m.d = wp.d) THEN s
      ELSE IF ~(m.lm <= m.lu /\ check_digest(s, wp.d, m)) THEN s
      ELSE proceed(all)

(* The value of the certificate is the partition's own digest: nothing     *)
(* below it has to be fetched.                                             *)
UpToDate(s) ==
  LET l == s.flevel
      t == ToCheck(s, <<l, High(s.stalep[l]).index>>)
      next == IF l = 0 THEN [t EXCEPT !.flevel = 1] ELSE [t EXCEPT !.stalep[l] = Front(@)]
  IN  IF l = 0 \/ Len(s.stalep[l]) = 1 THEN done_with_level(next) ELSE next

(* The certificate has a value v for the partition.                        *)
with_value(s, v) ==
  LET q == s.stalep[s.flevel]
      p == [High(q) EXCEPT !.c = v.c, !.d = v.d]
  IN  [s EXCEPT !.cert = NewCert, !.stalep[s.flevel] = [q EXCEPT ![Len(q)] = p]]

after_answer(s, r) ==
  LET v == cvalue(r.cert)
      l == s.flevel
  IN  IF ~r.added \/ v = NoValue THEN [s EXCEPT !.cert = r.cert]
      ELSE IF v.d = s.ptree[<<l, High(s.stalep[l]).index>>].d THEN UpToDate(with_value(s, v))
      ELSE send_fetch(with_value(s, v), TRUE)

handle_Meta_data_d(s, m) ==
  LET wp == High(s.stalep[s.flevel])
  IN  IF ~(s.fetching /\ s.flevel = m.level) THEN s
      ELSE IF ~(wp.index = m.index /\ m.ls >= s.lc /\ m.ls >= wp.lu) THEN s
      ELSE after_answer(s, add(s.cert, [id |-> m.id, ls |-> m.ls, digests |-> m.digests], FALSE))

(* A message from another replica about the outstanding fetch.             *)
handle(s, m) ==
  CASE m.tag = "Data" -> handle_Data(s, m)
    [] m.tag = "Meta_data" -> handle_Meta_data(s, m)
    [] m.tag = "Meta_data_d" -> handle_Meta_data_d(s, m)

mark_stale(s) == [s EXCEPT !.cert = NewCert]

-----------------------------------------------------------------------------
(* Checking                                                                *)

start_check(s, le, replier) ==
  start_fetch([s EXCEPT !.checking = TRUE, !.refetch_level = PLevels,
                        !.check_start = s.lc], le, -1, NoDigest, replier)

check_data(s, i) == DigestOf(s, <<Leaf, i>>) = s.ptree[<<Leaf, i>>].d

(* check_state(): the blocks of every partition on to_check.  The bound    *)
(* poll_cnt on the blocks checked in one call is above nb here.            *)
check_state(s) ==
  LET Of(k) == {i \in Blocks : /\ k[2] * blocks(k[1]) <= i
                               /\ i < (k[2] + 1) * blocks(k[1])}
      seen == UNION {Of(s.to_check[j]) : j \in DOMAIN s.to_check}
      bad == {i \in seen : s.ptree[<<Leaf, i>>].lm <= s.check_start /\ ~check_data(s, i)}
  IN  [Asserted(s, bad = {}, "corrupt") EXCEPT
         !.to_check = <<>>,
         !.checking = s.fetching,
         !.refetch_level = IF s.fetching THEN @ ELSE 0]
=============================================================================
