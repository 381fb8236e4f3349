------------------------------ MODULE NewView ------------------------------
(***************************************************************************)
(* NV_info (src/src/NV_info.cc): how the primary of a new view chooses,    *)
(* from the View_change messages it collects, the checkpoint and the       *)
(* requests that the new view starts from, and how a backup checks its     *)
(* choice.  The operators take and return the record x of a replica, with  *)
(*   id      its number;                                                   *)
(*   nv      the NV_info, with the field names of the class;               *)
(*   slot    slot[i] is the View_change in the static block of replica i   *)
(*           (special_region): NV_info keeps a pointer to the block, so    *)
(*           that vcs[i].vc only says that there is one;                   *)
(*   oplog   the requests of earlier views.                                *)
(* A call of Replica::process_new_view() is recorded in nv.calls and made  *)
(* when the handler is done with the NV_info, which process_new_view()     *)
(* only reads.  nv.broken names the assertion that failed: the process     *)
(* ends there.                                                             *)
(***************************************************************************)
EXTENDS ViewChangeMsg

CONSTANT Seqnos    \* the sequence numbers considered

Empty_VC_info == [vc |-> FALSE, acks |-> {}, req_sum |-> FALSE]

Empty_NV_info ==
  [v |-> 0, msg |-> None, vcs |-> [i \in Replicas |-> Empty_VC_info],
   ckpts |-> << >>, chosen |-> 0, min |-> -1, max |-> -1, base |-> -1,
   reqs |-> [n \in Seqnos |-> << >>], comp |-> [n \in Seqnos |-> 0],
   n_complete |-> 0, complete |-> FALSE, sent |-> FALSE, faulty |-> FALSE,
   calls |-> << >>, broken |-> None]

make_complete(v) == [Empty_NV_info EXCEPT !.v = v, !.complete = TRUE]

leads(x) == primary(x.nv.v) = x.id

Break(x, what) == [x EXCEPT !.nv.broken = what]

Stopped(x) == x.nv.broken # None

(* The numbers from lo to hi, in order. *)
UpTo(lo, hi) == [k \in 1..(hi - lo + 1) |-> lo + k - 1]
-----------------------------------------------------------------------------
(* known_stable(): what f+1 replicas say is stable, or 2f+1 have a          *)
(* checkpoint of.                                                           *)
known_stable_by_one(x) ==  \* mutant
  Max({0} \cup {x.slot[i].ls : i \in {j \in Replicas : x.nv.vcs[j].vc}})
known_stable(x) ==
  LET stable1 == K_max(F + 1, [i \in Replicas |-> IF x.nv.vcs[i].vc THEN x.slot[i].ls ELSE 0])
      held == K_max(n_f, [i \in Replicas |-> IF x.nv.vcs[i].vc THEN last_ckpt(x.slot[i]) ELSE 0])
      stable2 == IF held > x.nv.min THEN x.nv.min ELSE held
  IN  IF stable1 > stable2 THEN stable1 ELSE stable2

process_new_view(min, d, max, ms) == [min |-> min, d |-> d, max |-> max, ms |-> ms]

Process(x, min, d, max) ==
  LET ks == known_stable(x)
  IN  IF ks > min THEN Break(x, "known_stable")
      ELSE [x EXCEPT !.nv.calls = Append(@, process_new_view(min, d, max, ks))]

(* make_new_view(): the primary fills in its New_view and enters the view.  *)
make_new_view(x) ==
  LET nv == x.nv
      chosen == nv.ckpts[nv.chosen]
      picked == [n \in nv.min..(nv.max - 1) |->
                   IF n = nv.min THEN chosen.id ELSE nv.reqs[n][nv.comp[n]].id]
      y == [x EXCEPT !.nv.sent = TRUE, !.nv.msg.min = nv.min, !.nv.msg.max = nv.max,
                     !.nv.msg.picked = picked]
  IN  IF nv.sent THEN Break(x, "make_new_view")
      ELSE IF \E n \in (nv.min + 1)..(nv.max - 1) : nv.comp[n] = 0 THEN Break(x, "pick")
      ELSE Process(y, nv.min, chosen.d, nv.max)

(* If all requests are complete, so is the new view. *)
finish(x) ==
  LET y == [x EXCEPT !.nv.complete = TRUE]
      vc == x.slot[x.nv.msg.picked[x.nv.msg.min]]
  IN  IF x.nv.n_complete # x.nv.max - x.nv.min - 1 THEN x
      ELSE IF leads(x) THEN make_new_view(y)
      ELSE Process(y, vc.ls, ckpt(vc, vc.ls), x.nv.msg.max)

proven(cur) == cur.n_proofs >= F + 1 /\ cur.n_le >= n_f

(* check_comp(): is everything known that is needed to propagate entry j of *)
(* sequence number n?  This replica looks for it in its own log, too.       *)
recognise(cur, ri) ==
  LET found == ~cur.pi /\ logs_pre_prepare(ri, cur.d)
  IN  [cur EXCEPT !.pi = @ \/ found,
                  !.pproofs = IF found \/ logs_prepare(ri, cur.d) THEN Replicas ELSE @]

(* It returns early only with an entry that is proven but not known.        *)
complete_entry(x, n, j) ==
  LET cur == x.nv.reqs[n][j]
      open == x.nv.comp[n] = 0 /\ proven(cur)
      known == cur.v < 0 \/ (cur.pi /\ Cardinality(cur.pproofs) > F)
  IN  IF open /\ ~known THEN x
      ELSE finish(IF open THEN [x EXCEPT !.nv.comp[n] = j, !.nv.n_complete = @ + 1] ELSE x)

check_comp(x, n, j) ==
  IF x.nv.complete THEN Break(x, "check_comp")
  ELSE complete_entry(
         [x EXCEPT !.nv.reqs[n][j] = IF x.nv.comp[n] = 0 /\ proven(@) THEN recognise(@, x.oplog[n])
                                     ELSE @], n, j)

(* get_proofs(): a View_change speaks for entry cur of sequence number n    *)
(* when it allows no other request to have prepared since cur.v.            *)
get_proofs(cur, vc, n) ==
  LET r == vc.reqs[n]
      same == r.d = cur.d /\ (IF test(vc, n) THEN r.lv >= cur.v ELSE r.v >= cur.v)
      other == ~test(vc, n) /\ cur.v <= r.lv
  IN  IF n \notin DOMAIN vc.reqs
      THEN IF n > vc.ls /\ cur.v < 0 THEN [cur EXCEPT !.n_proofs = @ + 1] ELSE cur
      ELSE IF same THEN [cur EXCEPT !.n_proofs = @ + 1, !.pproofs = @ \cup {vc.id}]
      ELSE IF other THEN [cur EXCEPT !.n_proofs = @ + 1]
      ELSE cur

Req_sum(rv, id, n_le) ==
  [v |-> rv.v, d |-> rv.d, n_proofs |-> 0, pproofs |-> {}, pi |-> FALSE, n_le |-> n_le, id |-> id]

(* What View_change vc says about an entry that exists already. *)
count_in(cur, vc, n) ==
  LET rv == req(vc, n)
  IN  IF cur.v = rv.v /\ cur.d = rv.d
      THEN [cur EXCEPT !.n_proofs = @ + 1, !.pproofs = @ \cup {vc.id}, !.n_le = @ + 1]
      ELSE [get_proofs(cur, vc, n) EXCEPT !.n_le = IF cur.v > rv.v THEN @ + 1 ELSE @]

(* One sequence number of summarize_reqs(i).  The result says whether the   *)
(* code returned: in the loop over the entries it does when the new view    *)
(* became complete.                                                         *)
Result(x, return) == [x |-> x, return |-> return \/ Stopped(x)]
in_loop(x) == Result(x, x.nv.complete)

count_entries(acc, vc, n) ==
  FoldLeftDomain(
    LAMBDA a, j : IF a.return THEN a
                  ELSE in_loop(check_comp([a.x EXCEPT !.nv.reqs[n][j] = count_in(@, vc, n)], n, j)),
    acc, acc.x.nv.reqs[n])

has_entry(reqs, rv) == \E j \in DOMAIN reqs : reqs[j].v = rv.v /\ reqs[j].d = rv.d

new_entry(x, i, n) ==
  LET rv == req(x.slot[i], n)
      lower == {j \in DOMAIN x.nv.reqs[n] : x.nv.reqs[n][j].v < rv.v}
  IN  FoldLeft(LAMBDA cur, k : IF x.nv.vcs[k].req_sum THEN get_proofs(cur, x.slot[k], n) ELSE cur,
               Req_sum(rv, i, Cardinality(lower) + 1), UpTo(0, 3 * F))

add_entry(x, cur, n) ==
  check_comp([x EXCEPT !.nv.reqs[n] = Append(@, cur)], n, Len(x.nv.reqs[n]) + 1)

summarize_req(acc, i, n) ==
  LET x == acc.x
      after(old) ==
        IF old.return \/ has_entry(x.nv.reqs[n], req(x.slot[i], n)) THEN old
        ELSE Result(add_entry(old.x, new_entry(x, i, n), n), FALSE)
  IN  IF acc.return \/ n \notin Seqnos THEN acc ELSE after(count_entries(acc, x.slot[i], n))

summarize_reqs(x, i) ==
  LET from == IF x.nv.min > x.slot[i].ls THEN x.nv.min ELSE x.slot[i].ls
      start == [x |-> [x EXCEPT !.nv.vcs[i].req_sum = TRUE], return |-> FALSE]
  IN  FoldLeft(LAMBDA acc, n : summarize_req(acc, i, n),
               start, UpTo(from + 1, x.nv.max - 1)).x
-----------------------------------------------------------------------------
(* choose_ckpt(k): checkpoint k of ckpts is held by f+1 replicas, and 2f+1  *)
(* have none above it that is stable.                                       *)
first_choice(x, k) ==
  LET cur == x.nv.ckpts[k]
      y == [x EXCEPT !.nv.chosen = k, !.nv.min = cur.n, !.nv.base = cur.n + 1,
                     !.nv.max = cur.max_seqno + 1]
      sum(z, i) == IF has_vc(x.nv.msg, i) /\ ~z.nv.complete /\ ~Stopped(z)
                   THEN summarize_reqs(z, i) ELSE z
  IN  FoldLeft(sum, y, UpTo(0, 3 * F))

higher_choice_keeping_count(x, k) ==  \* mutant
  LET cur == x.nv.ckpts[k]
  IN  [x EXCEPT !.nv.chosen = k, !.nv.min = cur.n,
                !.nv.max = IF cur.max_seqno + 1 < @ THEN cur.max_seqno + 1 ELSE @]
higher_choice(x, k) ==
  LET cur == x.nv.ckpts[k]
      covered == {n \in (x.nv.min + 1)..cur.n : n \in Seqnos /\ x.nv.comp[n] > 0}
  IN  [x EXCEPT !.nv.chosen = k, !.nv.min = cur.n,
                !.nv.n_complete = @ - Cardinality(covered),
                !.nv.max = IF cur.max_seqno + 1 < @ THEN cur.max_seqno + 1 ELSE @]

(* If nothing is left to complete, the new view is made; the first choice   *)
(* may have made it already.                                                *)
after_choice(x, first) ==
  IF Stopped(x) \/ (first /\ x.nv.complete) \/ x.nv.n_complete # x.nv.max - x.nv.min - 1 THEN x
  ELSE make_new_view([x EXCEPT !.nv.complete = TRUE])

choose_ckpt(x, k) ==
  after_choice(IF x.nv.chosen = 0 THEN first_choice(x, k)
               ELSE IF x.nv.ckpts[x.nv.chosen].n < x.nv.ckpts[k].n THEN higher_choice(x, k)
               ELSE x,
               x.nv.chosen = 0)

eligible_by_proofs(c) == c.n_proofs >= F + 1  \* mutant
eligible(c) == c.n_proofs >= F + 1 /\ c.n_le >= n_f

greater(a, b) == IF a > b THEN a ELSE b

(* What View_change vc says about an entry of ckpts. *)
count_ckpt(c, vc) ==
  LET same == c.n = vc.ls /\ c.d = ckpt(vc, vc.ls)
      proof == same \/ (ckpt(vc, c.n) # None /\ ckpt(vc, c.n) = c.d)
      le == same \/ c.n > vc.ls
  IN  [c EXCEPT !.n_proofs = IF proof THEN @ + 1 ELSE @,
                !.n_le = IF le THEN @ + 1 ELSE @,
                !.max_seqno = IF le THEN greater(@, max_seqno(vc)) ELSE @]

(* The entry for a checkpoint that has none yet. *)
new_ckpt(x, i) ==
  LET vc == x.slot[i]
      d == ckpt(vc, vc.ls)
      lower == {k \in DOMAIN x.nv.ckpts : x.nv.ckpts[k].n < vc.ls}
      holders == {j \in Replicas : has_vc(x.nv.msg, j) /\ ckpt(x.slot[j], vc.ls) = d}
  IN  [n |-> vc.ls, d |-> d, id |-> i, n_le |-> Cardinality(lower) + 1,
       n_proofs |-> Cardinality(holders),
       max_seqno |-> Max({max_seqno(vc)} \cup {x.nv.ckpts[k].max_seqno : k \in lower})]

choose_eligible(x, k) ==
  IF ~Stopped(x) /\ eligible(x.nv.ckpts[k]) THEN choose_ckpt(x, k) ELSE x

count_ckpts(x, vc) ==
  FoldLeftDomain(LAMBDA y, k : choose_eligible([y EXCEPT !.nv.ckpts[k] = count_ckpt(@, vc)], k),
                 x, x.nv.ckpts)

add_ckpt(x, c) ==
  IF Stopped(x) \/ c.d = None THEN x
  ELSE choose_eligible([x EXCEPT !.nv.ckpts = Append(@, c)], Len(x.nv.ckpts) + 1)

(* summarize(): the View_change of replica i, which the New_view now        *)
(* refers to, is taken into account.                                        *)
summarize(x, i) ==
  LET vc == x.slot[i]
      match == \E k \in DOMAIN x.nv.ckpts :
                 x.nv.ckpts[k].n = vc.ls /\ x.nv.ckpts[k].d = ckpt(vc, vc.ls)
      requests(y) ==
        IF x.nv.chosen > 0 /\ ~y.nv.complete /\ ~Stopped(y) THEN summarize_reqs(y, i) ELSE y
      checkpoint(y) == IF match THEN y ELSE add_ckpt(y, new_ckpt(x, i))
  IN  requests(checkpoint(count_ckpts(x, vc)))
-----------------------------------------------------------------------------
(* check_new_view(): a backup that has all the View_changes its New_view    *)
(* refers to checks the choices of the primary.                             *)
Held(x) == {i \in Replicas : x.nv.vcs[i].vc}

checkpoint_is_correct(x) ==
  LET cid == x.nv.msg.picked[x.nv.msg.min]
      vc == x.slot[cid]
      proofs == {i \in Held(x) : i = cid \/ ckpt(x.slot[i], vc.ls) = ckpt(vc, vc.ls)}
      le == {i \in Held(x) : i = cid \/ x.slot[i].ls <= vc.ls}
  IN  /\ vc.ls = x.nv.msg.min /\ ckpt(vc, vc.ls) # None
      /\ Cardinality(proofs) >= F + 1 /\ Cardinality(le) >= n_f

max_is_unchecked(x) == TRUE  \* mutant
max_is_correct(x) ==
  Cardinality({i \in Held(x) : max_seqno(x.slot[i]) < x.nv.msg.max}) >= n_f

(* The request picked for n: req() requires a sequence number above the     *)
(* stable checkpoint of every View_change it is asked of.                   *)
check_request(acc, n) ==
  LET x == acc.x
      vc == x.slot[x.nv.msg.picked[n]]
      others == SetToSortSeq(Held(x), <)
      le == {j \in Held(x) : req(x.slot[j], n).v <= req(vc, n).v}
      cur == FoldLeft(LAMBDA c, j : get_proofs(c, x.slot[j], n),
                      Req_sum(req(vc, n), vc.id, Cardinality(le)), others)
  IN  IF acc.return THEN acc
      ELSE IF n <= vc.ls THEN [acc EXCEPT !.return = TRUE, !.x.nv.faulty = TRUE]
      ELSE IF \E j \in Held(x) : n <= x.slot[j].ls
      THEN [acc EXCEPT !.return = TRUE, !.x = Break(x, "req")]
      ELSE IF ~proven(cur) THEN [acc EXCEPT !.return = TRUE, !.x.nv.faulty = TRUE]
      ELSE Result(check_comp([x EXCEPT !.nv.reqs[n] = Append(@, cur)], n, 1), FALSE)

check_new_view(x) ==
  LET msg == x.nv.msg
      y == [x EXCEPT !.nv.min = msg.min, !.nv.base = msg.min + 1, !.nv.chosen = 1,
                     !.nv.max = msg.max]
  IN  IF msg.min >= msg.max THEN Break(x, "which_picked")
      ELSE IF ~(checkpoint_is_correct(x) /\ max_is_correct(x))
      THEN [x EXCEPT !.nv.faulty = TRUE]
      ELSE IF msg.min + 1 = msg.max
      THEN Process([y EXCEPT !.nv.complete = TRUE], msg.min,
                   ckpt(x.slot[msg.picked[msg.min]], msg.min), msg.max)
      ELSE FoldLeft(check_request, [x |-> y, return |-> FALSE], UpTo(msg.min + 1, msg.max - 1)).x
-----------------------------------------------------------------------------
(* add(New_view): only one of a later view than the one that is known. *)
nv_add_nv(x, m) ==
  IF m.v <= x.nv.v THEN x ELSE [x EXCEPT !.nv = [Empty_NV_info EXCEPT !.v = m.v, !.msg = m]]

(* add(View_change, verified): is it taken?  Messages are authentic here    *)
(* unless "verified" says that this replica cannot tell.                    *)
nv_takes_vc(x, vc, verified) ==
  /\ ~x.nv.vcs[vc.id].vc /\ ~x.nv.complete
  /\ leads(x) \/ x.nv.msg.vcs[vc.id] = vc
  /\ verified \/ (~leads(x) /\ Cardinality(x.nv.vcs[vc.id].acks) >= F)

nv_add_vc(x, vc) ==
  LET i == vc.id
      y == [x EXCEPT !.slot[i] = vc, !.nv.vcs[i].vc = TRUE]
      all == Held(y) = {j \in Replicas : has_vc(y.nv.msg, j)}
  IN  IF leads(x)
      THEN IF i = x.id THEN summarize([y EXCEPT !.nv.msg.vcs[i] = vc], i) ELSE y
      ELSE IF all THEN check_new_view(y) ELSE y

(* add(View_change_ack): is it consumed, and what it changes. *)
nv_takes_ack(x, a) ==
  /\ ~x.nv.complete
  /\ IF leads(x) THEN x.nv.vcs[a.vcid].vc ELSE has_vc(x.nv.msg, a.vcid)

ack_matches(x, a) == leads(x) /\ a.vcd = x.slot[a.vcid]

nv_add_ack(x, a) ==
  LET i == a.vcid
      y == [x EXCEPT !.nv.vcs[i].acks = @ \cup {a.id}]
  IN  IF has_vc(x.nv.msg, i) \/ ~ack_matches(x, a) \/ a.id \in x.nv.vcs[i].acks THEN x
      ELSE IF Cardinality(y.nv.vcs[i].acks) = 2 * F - 1 /\ leads(x)
      THEN summarize([y EXCEPT !.nv.msg.vcs[i] = x.slot[i]], i)
      ELSE y

(* fetch_request(n): the digest proposed for n in the new view. *)
fetch_request_own(x, n) ==  \* mutant
  IF x.oplog[n].d # None THEN x.oplog[n].d ELSE NullBatch
fetch_request(x, n) ==
  LET rv == req(x.slot[x.nv.msg.picked[n]], n)
  IN  IF rv.v >= 0 /\ rv.d # None THEN rv.d ELSE NullBatch

(* set_received_vcs(): the View_changes that need not be sent again. *)
nv_received_vcs(x) ==
  {i \in Replicas : IF leads(x) THEN x.nv.vcs[i].vc /\ has_vc(x.nv.msg, i)
                    ELSE x.nv.vcs[i].vc \/ ~has_vc(x.nv.msg, i)}

(* set_missing_pps(): per sequence number the first view from which on a    *)
(* pre-prepare is asked for, and whether prepares are asked for as proof.   *)
nv_missing_pps(x) ==
  LET lacking(n) == {j \in DOMAIN x.nv.reqs[n] :
                       x.nv.reqs[n][j].v >= 0 /\ proven(x.nv.reqs[n][j])}
      wanted == {n \in Seqnos : /\ x.nv.base <= n /\ n < x.nv.max
                                /\ x.nv.comp[n] = 0 /\ lacking(n) # {}}
  IN  {[n |-> n, v |-> Min({x.nv.reqs[n][j].v : j \in lacking(n)}),
        proofs |-> \E j \in lacking(n) : Cardinality(x.nv.reqs[n][j].pproofs) <= F] : n \in wanted}

(* add_missing(): a pre-prepare, or replica i's prepare, for digest d. *)
nv_wants(x, n) ==
  x.nv.chosen > 0 /\ n > x.nv.min /\ n < x.nv.max /\ x.nv.comp[n] = 0

nv_entry(x, n, d) == SelectInSeq(x.nv.reqs[n], LAMBDA c : c.d = d)

nv_add_missing_pp(x, n, d) ==
  LET j == nv_entry(x, n, d)
  IN  IF ~nv_wants(x, n) \/ j = 0 THEN x
      ELSE IF x.nv.reqs[n][j].pi THEN x
      ELSE check_comp([x EXCEPT !.nv.reqs[n][j].pi = TRUE], n, j)

nv_add_missing_p(x, i, n, d) ==
  LET j == nv_entry(x, n, d)
  IN  IF ~nv_wants(x, n) \/ j = 0 THEN x
      ELSE IF Cardinality(x.nv.reqs[n][j].pproofs) > F \/ i \in x.nv.reqs[n][j].pproofs THEN x
      ELSE check_comp([x EXCEPT !.nv.reqs[n][j].pproofs = @ \cup {i}], n, j)

(* mark_stable(ls): a checkpoint beyond the new view makes it complete. *)
nv_mark_stable(x, ls) ==
  IF x.nv.v > 0 /\ ~x.nv.complete /\ x.nv.chosen > 0 /\ ls >= x.nv.max /\ ~leads(x)
  THEN [x EXCEPT !.nv.complete = TRUE,
                 !.nv.calls = Append(@, process_new_view(ls, None, ls, ls))]
  ELSE x
=============================================================================
