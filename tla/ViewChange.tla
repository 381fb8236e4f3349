----------------------------- MODULE ViewChange -----------------------------
(***************************************************************************)
(* The view-change protocol: View_info (src/src/View_info.cc) and the      *)
(* handlers of Replica.cc that use it.  rep[r] is the state of the         *)
(* modelled replica r:                                                     *)
(*   v, limbo, vtimer (is it running?), last_stable, last_executed,        *)
(*   tentative (last_tentative_execute > last_executed), lc, low_bound,    *)
(*   seqno, has_nv_state, rqueue as in class Replica;                      *)
(*   ckpts   the checkpoints its State has; the digest of checkpoint n is  *)
(*           n, the same at all correct replicas;                          *)
(*   plog    per sequence number the digest of the pre-prepare or prepare  *)
(*           this replica sent in view v, and whether it prepared;         *)
(*   oplog, last_views, last_vcs, vacks, nvs (last_nvs) as in View_info;   *)
(*   slot, nv   see NewView; nv holds the NV_info that is being used;      *)
(*   sent    the messages it sent; they may arrive at any time, again and  *)
(*           in any order: Status messages cause them to be sent again.    *)
(* The other replicas sent claim[i], chosen initially: faulty ones what    *)
(* they like, correct ones what the code makes of their history.           *)
(* claim[i].prep is the history itself: the <<v, n, d>> such that the      *)
(* correct replica i prepared d as number n in view v.                     *)
(* Normal operation in the new view is the subject of module Replica.      *)
(***************************************************************************)
EXTENDS NewView

CONSTANTS
  Starts,         \* the initial values of <<rep, claim, keys>>
  MaxView,        \* bound: the highest view replicas move to
  LaterStable,    \* checkpoints that may become stable in the new view
  MaxKeys         \* bound: how often keys are changed

VARIABLES rep, claim, keys

vars == <<rep, claim, keys>>

Active == DOMAIN rep

Nothing == [vc |-> {}, ack |-> {}, nv |-> {}, pp |-> {}, p |-> {}]

Silent(prep) == [vc |-> {}, ack |-> {}, nv |-> {}, pp |-> {}, p |-> {}, prep |-> prep]

Sent(i) == IF i \in Active THEN rep[i].sent ELSE claim[i]

EmptyPlog == [n \in Seqnos |-> [d |-> None, prepared |-> FALSE]]

EmptyVacks == [v |-> 0, vacks |-> [j \in Replicas |-> None]]

(* A replica that is in view v with log oplog of earlier views and plog of  *)
(* this one, which waits for a request.                                     *)
Started(r, v, oplog, plog, ckpts, ls, le) ==
  [id |-> r, v |-> v, limbo |-> FALSE, vtimer |-> TRUE, rqueue |-> TRUE,
   last_stable |-> ls, last_executed |-> le, tentative |-> FALSE, lc |-> le, low_bound |-> ls,
   seqno |-> 0, has_nv_state |-> TRUE, ckpts |-> ckpts, plog |-> plog, oplog |-> oplog,
   last_views |-> [i \in Replicas |-> v], last_vcs |-> [i \in Replicas |-> FALSE],
   vacks |-> [i \in Replicas |-> EmptyVacks],
   nvs |-> [i \in Replicas |-> IF v > 0 /\ i = primary(v) THEN make_complete(v) ELSE Empty_NV_info],
   nv |-> Empty_NV_info, slot |-> [i \in Replicas |-> None], sent |-> Nothing]

(* The messages that replica i may have sent: they are well formed and      *)
(* authentic, and the sender of a New_view is the primary of its view.      *)
AuthenticFrom(c, i) ==
  /\ \A m \in c.vc :
       /\ m.id = i /\ m.v \in Nat /\ m.ls \in Int
       /\ IsFiniteSet(DOMAIN m.ckpts) /\ DOMAIN m.ckpts \subseteq Int
       /\ IsFiniteSet(DOMAIN m.reqs) /\ DOMAIN m.reqs \subseteq Int
  /\ \A m \in c.nv :
       /\ m = [f \in {"v", "min", "max", "vcs", "picked"} |-> m[f]]
       /\ m.v \in Nat /\ primary(m.v) = i /\ m.min \in Int /\ m.max \in Int
  /\ \A m \in c.ack : m.v \in Nat

(* Replicas start in some view, with some log. *)
StartsIn(x, r) ==
  /\ x = Started(r, x.v, x.oplog, x.plog, x.ckpts, x.last_stable, x.last_executed)
  /\ x.v \in Nat /\ x.last_stable \in Int
  /\ IsFiniteSet(x.ckpts) /\ x.ckpts \subseteq Int

ASSUME StartsAssumption ==
  /\ LaterStable \subseteq Int
  /\ \A s \in Starts :
       /\ s[1] = [r \in DOMAIN s[1] |-> s[1][r]] /\ DOMAIN s[1] \subseteq Replicas
       /\ \A r \in DOMAIN s[1] : StartsIn(s[1][r], r)
       /\ \A i \in Replicas \ DOMAIN s[1] : AuthenticFrom(s[2][i], i)

Init == \E s \in Starts : rep = s[1] /\ claim = s[2] /\ keys = s[3]
-----------------------------------------------------------------------------
(* Use of the NV_info last_nvs[p]. *)
Load(x, p) == [x EXCEPT !.nv = x.nvs[p]]
Store(x, p) == [x EXCEPT !.nvs[p] = x.nv, !.nv = Empty_NV_info]

ReplicaSeq == UpTo(0, 3 * F)

(* Move the View_changes for view v that wait in last_vcs to the NV_info,   *)
(* and then the buffered acknowledgements; x.nv is the NV_info.             *)
move_vcs(x, v) ==
  FoldLeft(LAMBDA y, i : IF y.last_vcs[i] /\ y.slot[i].v = v /\ nv_takes_vc(y, y.slot[i], TRUE)
                         THEN [nv_add_vc(y, y.slot[i]) EXCEPT !.last_vcs[i] = FALSE] ELSE y,
           x, ReplicaSeq)

move_ack(x, i, j) ==
  LET ack == x.vacks[i].vacks[j]
  IN  IF x.vacks[i].v = x.v /\ ack # None /\ nv_takes_ack(x, ack)
      THEN [nv_add_ack(x, ack) EXCEPT !.vacks[i].vacks[j] = None] ELSE x

move_acks_for(x, j) == FoldLeft(LAMBDA y, i : move_ack(y, i, j), x, ReplicaSeq)

move_acks(x) ==
  FoldLeft(LAMBDA y, i : FoldLeft(LAMBDA z, j : move_ack(z, i, j), y, ReplicaSeq), x, ReplicaSeq)

discard_old(x) ==
  [x EXCEPT
     !.last_vcs = [i \in Replicas |-> @[i] /\ x.slot[i].v >= x.v],
     !.vacks = [i \in Replicas |-> IF @[i].v < x.v THEN [EmptyVacks EXCEPT !.v = x.v] ELSE @[i]],
     !.nvs = [i \in Replicas |-> IF @[i].v < x.v THEN Empty_NV_info ELSE @[i]]]

(* The checkpoints the View_change reports. *)
reported(x) ==
  {n \in x.ckpts : /\ x.last_stable <= n /\ n <= x.last_executed
                   /\ (n - x.last_stable) % checkpoint_interval = 0}

(* View_info::view_change(): in the static build the acknowledgements of    *)
(* View_changes that came early are made with the digest of the replica's   *)
(* own View_change.                                                         *)
view_change(x) ==
  LET y == discard_old(x)
      vc == View_change(x.id, x.v, x.last_stable, [n \in reported(x) |-> n], x.oplog)
      early == {i \in Replicas \ {x.id, primary(x.v)} : y.last_vcs[i] /\ y.slot[i].v = x.v}
      acks == {View_change_ack(x.v, x.id, i, vc) : i \in early}
      z == [y EXCEPT !.slot[x.id] = vc, !.last_vcs[x.id] = TRUE, !.last_views[x.id] = x.v,
                     !.sent.vc = @ \cup {vc}]
      n == nv_add_nv(Load(z, x.id), New_view(x.v))
  IN  IF primary(x.v) # x.id THEN [z EXCEPT !.sent.ack = @ \cup acks]
      ELSE Store(move_acks(move_vcs(n, x.v)), x.id)

(* Replica::send_view_change(): what was sent or prepared in the old view   *)
(* is moved to oplog.                                                       *)
move_to_oplog(x, n) ==
  LET p == x.plog[n]
  IN  IF p.prepared THEN add_complete(x.oplog[n], x.v, p.d)
      ELSE IF p.d # None THEN add_incomplete(x.oplog[n], x.v, p.d)
      ELSE x.oplog[n]

in_window(x, n) == x.last_stable < n /\ n <= x.last_stable + max_out

send_view_change(x) ==
  view_change(
    [x EXCEPT !.v = @ + 1, !.limbo = TRUE, !.vtimer = FALSE,
              !.last_executed = IF x.tentative THEN x.lc ELSE @,
              !.tentative = FALSE,
              !.oplog = [n \in Seqnos |-> IF in_window(x, n) THEN move_to_oplog(x, n) ELSE @[n]],
              !.plog = [n \in Seqnos |-> IF in_window(x, n) THEN EmptyPlog[n] ELSE @[n]]])
-----------------------------------------------------------------------------
(* Checkpoint n becomes stable: Replica::mark_stable() as far as it         *)
(* concerns the view change.                                                *)
set_stable(x, n) ==
  [x EXCEPT !.last_stable = n, !.low_bound = greater(@, n),
            !.seqno = greater(@, n),
            !.oplog = [m \in Seqnos |-> IF m <= n THEN OReq_clear(@[m]) ELSE @[m]],
            !.plog = [m \in Seqnos |-> IF m <= n THEN EmptyPlog[m] ELSE @[m]],
            !.ckpts = {c \in @ : c >= n}]

(* Replica::process_new_view(), x.nv being the NV_info of view x.v. *)
enter_view(x, c) ==
  LET low == greater(c.min, x.last_stable)
      y == [x EXCEPT !.vtimer = FALSE, !.limbo = FALSE, !.seqno = c.max - 1, !.low_bound = low,
                     !.sent.nv = IF leads(x) THEN @ \cup {x.nv.msg} ELSE @]
      s == IF c.ms > x.last_stable THEN set_stable(y, c.ms) ELSE y
      proposed == {n \in Seqnos : low < n /\ n < c.max}
      logged == [n \in Seqnos |-> IF n \in proposed
                                  THEN [d |-> fetch_request(x, n), prepared |-> FALSE]
                                  ELSE s.plog[n]]
  IN  IF c.max - s.last_stable - 1 > max_out THEN Break(x, "process_new_view")
      ELSE [s EXCEPT !.plog = logged,
                     !.sent.p = IF leads(x) THEN @ ELSE @ \cup {<<x.v, n, logged[n].d>> : n \in proposed},
                     !.has_nv_state = x.last_executed >= low,
                     !.vtimer = x.rqueue /\ ~leads(x)]

(* The calls of process_new_view() that a handler made. *)
run_calls(x) ==
  LET p == primary(x.v)
      y == Load(x, p)
      z == enter_view(y, Head(y.nv.calls))
  IN  IF y.nv.calls = << >> \/ Stopped(y) THEN x
      ELSE Store([z EXCEPT !.nv.calls = << >>], p)
-----------------------------------------------------------------------------
(* View_info::add(View_change): the new state and whether vc was stored. *)
vi_add_vc_to_nv(x, vc) ==
  LET p == primary(vc.v)
      took == nv_takes_vc(Load(x, p), vc, TRUE)
      acks(y) == IF x.id = primary(x.v) /\ vc.v = x.v THEN move_acks_for(y, vc.id) ELSE y
      y == IF took THEN Store(acks(nv_add_vc(Load(x, p), vc)), p) ELSE x
  IN  [x |-> [y EXCEPT !.last_views[vc.id] = greater(@, vc.v)], stored |-> took]

vi_add_vc_to_last(x, vc) ==
  LET acked == x.id # primary(x.v) /\ vc.id # primary(x.v) /\ vc.v = x.v
      y == [x EXCEPT !.slot[vc.id] = vc, !.last_vcs[vc.id] = TRUE, !.last_views[vc.id] = vc.v,
                     !.sent.ack = IF acked THEN @ \cup {View_change_ack(x.v, x.id, vc.id, vc)}
                                  ELSE @]
  IN  IF vc.v > x.last_views[vc.id] THEN [x |-> y, stored |-> TRUE] ELSE [x |-> x, stored |-> FALSE]

vi_add_vc(x, vc) ==
  IF vc.v < x.v \/ ~View_change_verify(vc) THEN [x |-> x, stored |-> FALSE]
  ELSE IF x.nvs[primary(vc.v)].v = vc.v THEN vi_add_vc_to_nv(x, vc)
  ELSE vi_add_vc_to_last(x, vc)

vi_add_nv(x, m) ==
  LET p == primary(m.v)
  IN  IF m.v < x.v \/ ~New_view_verify(m) \/ m.v <= x.nvs[p].v THEN x
      ELSE Store(move_vcs(nv_add_nv(Load(x, p), m), m.v), p)

(* An acknowledgement without its View_change is buffered, under the        *)
(* current view of this replica.                                            *)
vi_add_ack(x, a) ==
  LET p == primary(a.v)
      y == Load(x, p)
      old == x.vacks[a.id]
      kept == IF old.v < a.v THEN EmptyVacks.vacks ELSE old.vacks
  IN  IF ~View_change_ack_verify(a, x.id) THEN x
      ELSE IF x.nvs[p].v = a.v /\ nv_takes_ack(y, a) THEN Store(nv_add_ack(y, a), p)
      ELSE IF x.id = p /\ old.v <= a.v
      THEN [x EXCEPT !.vacks[a.id] = [v |-> x.v, vacks |-> [kept EXCEPT ![a.vcid] = a]]]
      ELSE x

max_view(x) == K_max(F + 1, x.last_views)
max_maj_view(x) == K_max(n_f, x.last_views)

vi_mark_stable(x, n) ==
  LET p == primary(x.v)
  IN  Store(nv_mark_stable(Load(set_stable(x, n), p), n), p)

(* NV_info::mark_stale() and View_info::mark_stale(): messages that were    *)
(* authenticated with old keys are dropped.                                 *)
nv_mark_stale(x, p) ==
  LET y == Load(x, p)
      own == y.nv.vcs[x.id].vc
      cleared == [y EXCEPT !.nv = Empty_NV_info]
      again == nv_add_vc(nv_add_nv(cleared, New_view(y.nv.v)), x.slot[x.id])
  IN  IF y.nv.complete THEN x
      ELSE IF y.nv.v > 0 /\ primary(y.nv.v) = x.id
      THEN Store(IF own THEN again ELSE Break(y, "mark_stale"), p)
      ELSE Store([cleared EXCEPT !.last_vcs[x.id] = @ \/ (own /\ x.slot[x.id].v = x.v)], p)

vi_mark_stale(x) ==
  FoldLeft(nv_mark_stale,
           [x EXCEPT !.last_vcs = [i \in Replicas |-> i = x.id /\ @[i]],
                     !.last_views = [i \in Replicas |-> IF i # x.id /\ @[i] >= x.v THEN x.v ELSE @[i]],
                     !.vacks = [i \in Replicas |-> EmptyVacks]],
           ReplicaSeq)
-----------------------------------------------------------------------------
(* Handlers. *)
(* A View_change of the primary is reason enough to leave its view.         *)
leave_with_primary(x, m) ==
  IF m.id = primary(x.v) /\ m.v > x.v /\ View_change_verify(m) THEN send_view_change(x) ELSE x

(* So are those of f+1 replicas; those of 2f+1 start the timer.             *)
follow(x) ==
  IF max_view(x) > x.v THEN send_view_change([x EXCEPT !.v = max_view(x) - 1])
  ELSE IF x.limbo /\ primary(x.v) # x.id /\ max_maj_view(x) = x.v
  THEN [x EXCEPT !.vtimer = TRUE, !.limbo = FALSE]
  ELSE x

after_add(added) == IF added.stored THEN follow(added.x) ELSE added.x

handle_View_change_staying(x, m) == vi_add_vc(x, m).x  \* mutant
handle_View_change(x, m) == after_add(vi_add_vc(leave_with_primary(x, m), m))

has_new_view(x) == x.v = 0 \/ (x.has_nv_state /\ x.nvs[primary(x.v)].complete)

(* What replica x asks for in its Status, and what replica i sends it.      *)
missing_pps(x) ==
  IF has_new_view(x) \/ x.nvs[primary(x.v)].msg = None THEN {}
  ELSE nv_missing_pps(Load(x, primary(x.v)))

resends_pp(y, x, m, d) ==
  IF x.id = primary(x.v)
  THEN logs_pre_prepare_since(y.oplog[m.n], m.v) /\ y.oplog[m.n].d = d
  ELSE y.id = primary(x.v) /\ y.plog[m.n].d = d

Broken(x) == \E p \in Replicas : x.nvs[p].broken # None

Step(r, x) ==
  /\ ~Broken(rep[r])
  /\ x # rep[r]
  /\ rep' = [rep EXCEPT ![r] = run_calls(x)]
  /\ UNCHANGED <<claim, keys>>

VTimer(r) ==
  /\ rep[r].vtimer /\ rep[r].v < MaxView
  /\ Step(r, send_view_change(rep[r]))

ReceiveViewChange(r, i) ==
  \E m \in Sent(i).vc : m.v <= MaxView /\ Step(r, handle_View_change(rep[r], m))

ReceiveNewView(r, i) == \E m \in Sent(i).nv : Step(r, vi_add_nv(rep[r], m))

ReceiveAck(r, i) == \E a \in Sent(i).ack : Step(r, vi_add_ack(rep[r], a))

(* Replica i answers the Status of r with an old pre-prepare, or with its   *)
(* old prepares as a proof that the request is authentic.                   *)
AddMissing(r, p) ==
  Step(r, Store(p, primary(rep[r].v)))

ReceiveMissing(r, i) ==
  \E m \in missing_pps(rep[r]) :
    LET x == Load(rep[r], primary(rep[r].v))
    IN  \/ \E d \in {c.d : c \in ToSet(x.nv.reqs[m.n])} :
             /\ IF i \in Active THEN rep[i].v = rep[r].v /\ resends_pp(rep[i], rep[r], m, d)
                ELSE <<m.n, d>> \in claim[i].pp
             /\ AddMissing(r, nv_add_missing_pp(x, m.n, d))
        \/ /\ m.proofs
           /\ \E d \in IF i \in Active THEN send_proofs(rep[i].oplog[m.n], m.v)
                       ELSE {q[2] : q \in {k \in claim[i].p : k[1] = m.n}} :
                AddMissing(r, nv_add_missing_p(x, i, m.n, d))

(* The others went on in the view of r and have a stable checkpoint. *)
MarkStable(r, n) ==
  /\ n > rep[r].last_stable
  /\ \E i \in Replicas : \E m \in Sent(i).nv : m.v = rep[r].v
  /\ Step(r, vi_mark_stable(rep[r], n))

NewKey(r) ==
  /\ keys < MaxKeys /\ ~Broken(rep[r])
  /\ keys' = keys + 1
  /\ rep' = [rep EXCEPT ![r] = run_calls(vi_mark_stale(rep[r]))]
  /\ UNCHANGED claim

Receive(r) ==
  \E i \in Replicas \ {r} :
    ReceiveViewChange(r, i) \/ ReceiveNewView(r, i) \/ ReceiveAck(r, i) \/ ReceiveMissing(r, i)

Next ==
  \E r \in Active : VTimer(r) \/ Receive(r) \/ NewKey(r) \/ \E n \in LaterStable : MarkStable(r, n)

Spec == Init /\ [][Next]_vars
-----------------------------------------------------------------------------
(* The state of a replica holds only what the code can put there.           *)
TypeOK ==
  /\ keys \in 0..MaxKeys
  /\ \A r \in Active :
       LET x == rep[r]
       IN  /\ x.id = r /\ x.v \in 0..MaxView
           /\ x.limbo \in BOOLEAN /\ x.vtimer \in BOOLEAN /\ x.has_nv_state \in BOOLEAN
           /\ \A i \in Replicas :
                /\ x.last_views[i] \in 0..MaxView
                /\ x.last_vcs[i] \/ x.nvs[i].vcs[i].vc => x.slot[i] # None
                /\ x.nvs[i].calls = << >> \/ Broken(x)
           /\ \A n \in Seqnos : x.oplog[n].v \in -1..MaxView /\ x.oplog[n].lv \in -1..MaxView

(* Quorum intersection across views: when f+1 correct replicas prepared a   *)
(* batch, so that a client may have been answered on 2f+1 commits, every    *)
(* later view that a correct replica enters proposes that batch again or    *)
(* starts above it.  (NV_info's choice and check_new_view(), oplog.)        *)
Committed(n, d) ==
  \E v \in 0..MaxView : Cardinality({i \in Replicas : <<v, n, d>> \in claim[i].prep}) >= F + 1

Entered(x) ==
  LET nv == x.nvs[primary(x.v)] IN nv.v = x.v /\ nv.complete /\ nv.msg # None /\ nv.broken = None

CommittedSurvives ==
  \A r \in Active : Entered(rep[r]) =>
    \A n \in Seqnos, d \in {t[3] : t \in UNION {claim[i].prep : i \in Replicas}} :
      Committed(n, d) /\ n > rep[r].low_bound => rep[r].plog[n].d = d

(* process_new_view() runs in the view of the New_view: the View_changes    *)
(* that complete it have moved this replica to that view before.            *)
EntersCurrentView ==
  \A r \in Active : \A p \in Replicas : rep[r].nvs[p].complete => rep[r].nvs[p].v <= rep[r].v

(* A backup only judges the New_view of a faulty primary to be faulty.      *)
CorrectPrimaryNotBlamed ==
  \A r \in Active : \A p \in Active : ~rep[r].nvs[p].faulty

(* n_complete counts the sequence numbers between the chosen checkpoint and *)
(* max whose request is complete, although choose_ckpt() moves both.        *)
CompletionCount ==
  \A r \in Active : \A p \in Replicas :
    LET nv == rep[r].nvs[p]
    IN  nv.chosen > 0 /\ ~nv.complete /\ nv.broken = None =>
          nv.n_complete = Cardinality({n \in Seqnos : nv.min < n /\ n < nv.max /\ nv.comp[n] > 0})

(* Replicas that enter the same view start it alike: where both propose     *)
(* something for a sequence number, it is the same batch.                   *)
NewViewsAgree ==
  \A r, q \in Active :
    Entered(rep[r]) /\ Entered(rep[q]) /\ rep[r].v = rep[q].v =>
      \A n \in Seqnos : \/ n <= greater(rep[r].low_bound, rep[q].low_bound)
                        \/ rep[r].plog[n].d = rep[q].plog[n].d

(* A View_change reports a request as prepared if and only if it is.        *)
ReportsPrepared ==
  \A r \in Active : \A m \in rep[r].sent.vc :
    m.v = rep[r].v /\ m.ls = rep[r].last_stable =>
      \A n \in DOMAIN m.reqs : test(m, n) <=> rep[r].oplog[n].m

(* The primary makes its New_view of complete requests, and no replica      *)
(* enters a view below what is known to be stable or beyond its window: the *)
(* assertions of NV_info, View_info and process_new_view() on the way there *)
(* hold, except the two that summarize() breaks by going on after the new   *)
(* view is complete (NewViewMadeOnce, and the one of check_comp()).         *)
NewViewAssertions ==
  \A r \in Active : \A p \in Replicas :
    rep[r].nvs[p].broken \notin {"pick", "known_stable", "process_new_view", "mark_stale",
                                 "req", "which_picked"}

(* make_new_view() is called once per view. *)
NewViewMadeOnce ==
  \A r \in Active : \A p \in Replicas : rep[r].nvs[p].broken # "make_new_view"

(* A primary whose New_view refers to 2f+1 View_changes and that lacks no   *)
(* pre-prepare has sent it.                                                 *)
HasQuorum(x) ==
  LET nv == x.nvs[primary(x.v)]
  IN  primary(x.v) = x.id /\ nv.msg # None /\ Cardinality({i \in Replicas : has_vc(nv.msg, i)}) >= n_f

QuorumMakesNewView ==
  \A r \in Active :
    HasQuorum(rep[r]) /\ missing_pps(rep[r]) = {} => Entered(rep[r]) \/ Broken(rep[r])
=============================================================================
