--------------------------- MODULE ViewChangeMsg ---------------------------
(***************************************************************************)
(* What replicas tell each other when the view changes, and what they      *)
(* remember of earlier views to tell it:                                   *)
(*   - the log oplog of requests that prepared or pre-prepared in earlier  *)
(*     views (View_info::OReq_info);                                       *)
(*   - View_change messages, built from it, with the bitmap of prepared    *)
(*     requests as View_change::mark() and test() compute it;              *)
(*   - New_view messages.                                                  *)
(* The digest of a View_change stands for its content, so a message that   *)
(* holds a digest holds the View_change itself here.                       *)
(***************************************************************************)
EXTENDS Integers, Sequences, FiniteSets, FiniteSetsExt, SequencesExt

CONSTANTS
  F,                    \* node->f(): the number of faulty replicas tolerated
  None,                 \* a null pointer; the zero digest
  NullBatch,            \* the digest of a pre-prepare without requests
  max_out, checkpoint_interval,
  IntBits, WordBits     \* the bits of an int and of a uint64_t

ASSUME ViewChangeAssumption ==
  /\ F \in Nat \ {0}
  /\ max_out \in Nat \ {0} /\ checkpoint_interval \in Nat \ {0}
  /\ IntBits \in Nat \ {0} /\ WordBits \in Nat /\ IntBits <= WordBits
  /\ None # NullBatch

Replicas == 0..(3 * F)
n_f == 2 * F + 1
primary(v) == v % (3 * F + 1)

(* K_max(k, values): the greatest value that k of the values reach. *)
K_max(k, f) ==
  Max({f[i] : i \in {j \in DOMAIN f : Cardinality({l \in DOMAIN f : f[l] >= f[j]}) >= k}})
-----------------------------------------------------------------------------
(* OReq_info: m says that the pre-prepare of d is kept, because d prepared. *)
(* ods are the digests this replica also sent prepares for.                 *)
OReq_info ==
  [v |-> -1, lv |-> -1, d |-> None, m |-> FALSE,
   ods |-> [i \in 1..(F + 2) |-> [d |-> None, v |-> -1]]]

OReq_clear(ri) ==
  [OReq_info EXCEPT !.ods = [i \in DOMAIN ri.ods |-> [ri.ods[i] EXCEPT !.v = -1]]]

(* Batch d prepared in view v. *)
add_complete(ri, v, d) ==
  [OReq_clear(ri) EXCEPT !.v = v, !.lv = v, !.d = d, !.m = TRUE]

(* The place of a digest in ods: its own, or that of the oldest one. *)
ods_index(ri) ==
  LET own == {i \in DOMAIN ri.ods : ri.ods[i].d = ri.d}
      oldest == {i \in DOMAIN ri.ods : \A j \in DOMAIN ri.ods : ri.ods[i].v <= ri.ods[j].v}
  IN  IF own # {} THEN Min(own) ELSE Min(oldest)

(* A pre-prepare or prepare for d was sent in view v, d did not prepare. *)
add_incomplete(ri, v, d) ==
  LET lv == IF ri.m THEN ri.lv ELSE ri.v
  IN  IF ri.d = d
      THEN IF ri.m THEN [ri EXCEPT !.lv = v] ELSE [ri EXCEPT !.v = v]
      ELSE [ri EXCEPT !.m = FALSE, !.lv = lv, !.d = d, !.v = v,
                      !.ods[ods_index(ri)] = [d |-> ri.d, v |-> lv]]

(* pre_prepare(n, d), pre_prepare(n, v) and prepare(n, d): is the message   *)
(* in the log?                                                              *)
logs_pre_prepare(ri, d) == ri.m /\ ri.d = d
logs_pre_prepare_since(ri, v) == ri.m /\ ri.v >= v
logs_prepare(ri, d) == d \in {ri.d} \cup {ri.ods[i].d : i \in DOMAIN ri.ods}

(* send_proofs(n, v): the digests of the prepares that are sent. *)
send_proofs(ri, v) == {ri.ods[i].d : i \in {j \in DOMAIN ri.ods : ri.ods[j].v >= v}}
-----------------------------------------------------------------------------
(* The bits of the bitmap that "1 << (index % BITS(uint64_t))" touches: the *)
(* 1 is an int, so that the processor shifts by index modulo IntBits and    *)
(* the sign is extended to the width of the word.                           *)
mask(index) ==
  LET word == index \div WordBits
      bit == (index % WordBits) % IntBits
  IN  {word * WordBits + b : b \in IF bit = IntBits - 1 THEN bit..(WordBits - 1) ELSE {bit}}

(* The View_change of replica id for view v: ckpts maps the sequence        *)
(* numbers of the checkpoints it holds to digests, requests are those of    *)
(* the window that the log knows.                                           *)
View_change_marking_all(id, v, ls, ckpts, oplog) ==  \* mutant
  LET known == {n \in (ls + 1)..(ls + max_out) : n \in DOMAIN oplog /\ oplog[n].v >= 0}
  IN  [id |-> id, v |-> v, ls |-> ls, ckpts |-> ckpts,
       reqs |-> [n \in known |-> [v |-> oplog[n].v, lv |-> oplog[n].lv, d |-> oplog[n].d]],
       bits |-> UNION {mask(n - ls - 1) : n \in known}]
View_change(id, v, ls, ckpts, oplog) ==
  LET known == {n \in (ls + 1)..(ls + max_out) : n \in DOMAIN oplog /\ oplog[n].v >= 0}
  IN  [id |-> id, v |-> v, ls |-> ls, ckpts |-> ckpts,
       reqs |-> [n \in known |-> [v |-> oplog[n].v, lv |-> oplog[n].lv, d |-> oplog[n].d]],
       bits |-> UNION {mask(n - ls - 1) : n \in {k \in known : oplog[k].m}}]

test(vc, n) == mask(n - vc.ls - 1) \cap vc.bits # {}

max_seqno(vc) == IF DOMAIN vc.reqs = {} THEN vc.ls ELSE Max(DOMAIN vc.reqs)

ckpt(vc, n) == IF n \in DOMAIN vc.ckpts THEN vc.ckpts[n] ELSE None

last_ckpt(vc) == IF DOMAIN vc.ckpts = {} THEN 0 ELSE Max(DOMAIN vc.ckpts)

(* req(n): the view and digest of the request that prepared as n, -1 and    *)
(* the zero digest if there is none.                                        *)
req(vc, n) ==
  IF n \in DOMAIN vc.reqs /\ test(vc, n)
  THEN [v |-> vc.reqs[n].v, d |-> vc.reqs[n].d] ELSE [v |-> -1, d |-> None]

(* verify() of a View_change, its sizes apart: it reports views below its   *)
(* own and a checkpoint as its stable one.                                  *)
View_change_verify(vc) ==
  /\ vc.v > 0
  /\ vc.ls >= 0 /\ vc.ls % checkpoint_interval = 0
  /\ \A n \in DOMAIN vc.reqs : vc.reqs[n].v < vc.v /\ vc.reqs[n].lv < vc.v
-----------------------------------------------------------------------------
(* An empty New_view for view v. *)
New_view(v) ==
  [v |-> v, min |-> -1, max |-> -1, vcs |-> [i \in Replicas |-> None], picked |-> << >>]

has_vc(nv, i) == nv.vcs[i] # None

New_view_verify(nv) ==
  /\ nv.v > 0 /\ 0 <= nv.min /\ nv.min <= nv.max /\ nv.max - nv.min <= max_out + 1
  /\ \A n \in nv.min..(nv.max - 1) : has_vc(nv, nv.picked[n])

View_change_ack(v, id, vcid, vc) == [v |-> v, id |-> id, vcid |-> vcid, vcd |-> vc]

(* verify() of an acknowledgement that arrives at replica me. *)
View_change_ack_verify(a, me) ==
  a.v > 0 /\ a.vcid \in Replicas /\ a.id \in Replicas \ {me, a.vcid, primary(a.v)}
=============================================================================
