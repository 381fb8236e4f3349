------------------------------ MODULE Replica ------------------------------
(***************************************************************************)
(* The replicas of TinyBFT (src/src/Replica.cc) ordering, executing and    *)
(* checkpointing batches of requests in one view.                          *)
(*                                                                         *)
(* rep[r] is the state of the correct replica r, with the field names of   *)
(* class Replica; lc, fetching and state stand for its State object, state *)
(* being the sequence of batches executed so far (a state digest is that   *)
(* sequence).  Besides:                                                    *)
(*   sent    everything r sent, by kind; Status messages make it resend    *)
(*           what others miss, so any of it may be delivered at any time,  *)
(*           repeatedly, in any order, or never (md: the checkpoints whose *)
(*           digests r answers a Fetch with, which it may discard);        *)
(*   calls   what remains of the handler that is running: the calls that   *)
(*           execute_committed(), mark_stable() and new_state() make of    *)
(*           each other.  r takes the next message when calls is empty;    *)
(*   fetched, relogged   history: the last checkpoint installed by a state *)
(*           transfer, and whether add_mine() ever met a certificate that  *)
(*           already had r's message;                                      *)
(*   stopped whether an assertion failed, after which r does nothing.      *)
(* The other replicas are not modelled: replica i sends what Claims[i]     *)
(* holds.  When they are the faulty ones Claims[i] is everything.          *)
(*                                                                         *)
(* The view stays 0, so has_new_view() holds, limbo is false and low_bound *)
(* is last_stable.  The rings plog, clog and elog are tables indexed by    *)
(* sequence number, which AgreementStore and CheckpointStore show them to  *)
(* be.                                                                     *)
(***************************************************************************)
EXTENDS VoteSet, Integers, Sequences

CONSTANTS
  Correct,              \* the modelled replicas
  Primary,              \* primary() of view 0
  Claims,               \* what the other replicas may send
  Digests,              \* the batches that exist
  Batches,              \* Batches[n]: those a correct primary may order as n
  max_out, checkpoint_interval,
  MaxSeqno,             \* bound: the highest sequence number used
  MaxKeys               \* bound: how often the replicas, together, change keys

VARIABLES rep, keys   \* keys counts the key changes so far

vars == <<rep, keys>>

Seqnos == 1..MaxSeqno
Checkpoints == {n \in Seqnos : n % checkpoint_interval = 0}

ASSUME ReplicaAssumption ==
  /\ Correct \subseteq Replicas
  /\ Primary \in Replicas
  /\ max_out \in Nat \ {0}
  /\ checkpoint_interval \in Nat \ {0}
  /\ MaxSeqno \in Nat
  /\ MaxKeys \in Nat
  /\ {None, Ignored} \cap Digests = {}
  /\ {None, Ignored} \cap Seq(Digests) = {}
  /\ Batches \in [Seqnos -> SUBSET Digests]

Messages ==
  [pp: SUBSET (Seqnos \X Digests),               \* Pre_prepare
   p:  SUBSET (Seqnos \X Digests),               \* Prepare
   c:  SUBSET Seqnos,                            \* Commit
   k:  SUBSET (Seqnos \X Seq(Digests) \X BOOLEAN),  \* Checkpoint, stable()
   md: SUBSET (Seqnos \X Seq(Digests))]          \* Meta_data_d, while it is kept

ASSUME ClaimsAssumption == Claims \in [Replicas \ Correct -> Messages]

Sent(i) == IF i \in Correct THEN rep[i].sent ELSE Claims[i]
-----------------------------------------------------------------------------
(* The certificates.  A commit message has no content: its value is OK.     *)
OK == TRUE

prepares    == 2 * F        \* completes a Certificate<Prepare> of a Prepared_cert
commits     == 2 * F + 1
checkpoints_of_a_majority == F + 1  \* mutant
checkpoints == 2 * F + 1

EmptyPrepared == [pp |-> None, pc |-> EmptyCert]

prepared_complete_unmatched(p) == p.pp # None /\ IsComplete(p.pc, prepares)  \* mutant
prepared_complete(p) == p.pp # None /\ IsComplete(p.pc, prepares) /\ p.pp = p.pc.c

(* Prepared_cert::add(Pre_prepare): only the first one, and after a prepare *)
(* of mine only a matching one.  A pre-prepare whose requests this replica  *)
(* cannot authenticate may be refused; that is a step without effect.       *)
accepts(p, me, d) == p.pp = None /\ Mine(p.pc, me) \in {None, d}

prepared_mark_stale(p, me) ==
  IF prepared_complete(p) THEN p
  ELSE [pp |-> IF me = Primary THEN p.pp ELSE None, pc |-> MarkStale(p.pc, prepares, me)]

Fresh(r) ==
  [id |-> r, seqno |-> 0, last_stable |-> 0, last_executed |-> 0,
   last_tentative_execute |-> 0,
   plog |-> [n \in Seqnos |-> EmptyPrepared],
   clog |-> [n \in Seqnos |-> EmptyCert],
   elog |-> [n \in Checkpoints |-> EmptyCert],
   sset |-> [i \in Replicas |-> None],
   rqueue |-> FALSE,                       \* rqueue.size() > 0
   lc |-> 0, fetching |-> FALSE, state |-> << >>,
   calls |-> << >>,
   sent |-> [pp |-> {}, p |-> {}, c |-> {}, k |-> {}, md |-> {}],
   fetched |-> 0, relogged |-> FALSE, stopped |-> FALSE]

Init == rep = [r \in Correct |-> Fresh(r)] /\ keys = 0
-----------------------------------------------------------------------------
(* State *)
prefix(x, n) == SubSeq(x.state, 1, n)

checkpoint(x, n) ==
  [x EXCEPT !.lc = n,
            !.sent.md = IF n \in Checkpoints THEN @ \cup {<<n, x.state>>} ELSE @]

discard_checkpoint(x) ==
  IF x.last_stable > x.lc /\ x.last_executed > x.lc /\ x.lc >= 0
  THEN [checkpoint(x, x.last_executed) EXCEPT !.lc = -1] ELSE x

(* state.rollback() and what its callers do with the result.  Its assertion *)
(* ends the process when there is nothing to go back to.                    *)
rollback_to_committed(x) ==  \* mutant
  [x EXCEPT !.state = prefix(x, x.lc), !.last_tentative_execute = x.last_executed]
rollback_one_less(x) ==  \* mutant
  [x EXCEPT !.state = prefix(x, x.lc - 1),
            !.last_executed = x.lc - 1,
            !.last_tentative_execute = x.lc - 1]
rollback(x) ==
  IF x.lc < 0 \/ x.fetching THEN [x EXCEPT !.stopped = TRUE]
  ELSE [x EXCEPT !.state = prefix(x, x.lc),
                 !.last_executed = x.lc,
                 !.last_tentative_execute = x.lc]

start_fetch(x) ==
  IF x.fetching \/ x.stopped THEN x
  ELSE IF 0 <= x.lc /\ x.lc < x.last_executed
  THEN [checkpoint(x, x.last_executed) EXCEPT !.fetching = TRUE]
  ELSE [x EXCEPT !.fetching = TRUE]
-----------------------------------------------------------------------------
(* The calls of a handler that are still to be made. *)
Frame(op, n, flag) == [op |-> op, n |-> n, flag |-> flag]

execute_committed == Frame("execute_committed", 0, FALSE)
mark_stable(n, have_state) == Frame("mark_stable", n, have_state)
transfer_sset(new_ls) == Frame("transfer_sset", new_ls, FALSE)
new_state(c, behind) == Frame("new_state", c, behind)
new_state_end(c) == Frame("new_state_end", c, FALSE)
try_send_pre_prepare == Frame("send_pre_prepare", 0, FALSE)

Call(x, frames) == [x EXCEPT !.calls = frames \o @]

Return(x) == [x EXCEPT !.calls = Tail(@)]
-----------------------------------------------------------------------------
in_w(x, n) == x.last_stable < n /\ n <= x.last_stable + max_out

prepared(x, n) == n \in Seqnos /\ prepared_complete(x.plog[n])

committed(x, n) == prepared(x, n) /\ IsComplete(x.clog[n], commits)

(* The primary orders batch d under the next sequence number. *)
propose(x, d) ==
  LET n == x.seqno + 1
  IN  [x EXCEPT !.seqno = n, !.rqueue = FALSE,
                !.plog[n].pp = d, !.sent.pp = @ \cup {<<n, d>>}]

(* send_pre_prepare(), congestion_window being 1: the possible outcomes. *)
send_pre_prepare(x) ==
  IF /\ x.id = Primary /\ x.rqueue
     /\ x.seqno + 1 <= x.last_executed + 1
     /\ x.seqno + 1 <= x.last_stable + max_out
     /\ x.seqno + 1 \in Seqnos
  THEN {propose(x, d) : d \in Batches[x.seqno + 1]}
  ELSE {x}

executes_while_fetching(x, n) ==  \* mutant
  /\ x.last_tentative_execute < n
  /\ x.last_executed < x.last_stable + max_out
  /\ prepared(x, n)
executes(x, n) ==
  /\ x.last_tentative_execute < n
  /\ x.last_executed < x.last_stable + max_out
  /\ ~x.fetching
  /\ prepared(x, n)

(* execute_prepared(): tentative execution of last_executed + 1. *)
execute_prepared(x) ==
  LET n == x.last_executed + 1
      y == [x EXCEPT !.last_tentative_execute = n,
                     !.state = Append(@, x.plog[n].pp)]
  IN  IF executes(x, n)
      THEN IF n % checkpoint_interval = 0 THEN checkpoint(y, n) ELSE y
      ELSE x

(* The prepare is sent before it is logged, and logged only if it agrees    *)
(* with the correct value, if that is known.                                *)
send_prepare(x, n) ==
  LET p == x.plog[n]
  IN  IF Mine(p.pc, x.id) # None THEN x
      ELSE [x EXCEPT !.sent.p = @ \cup {<<n, p.pp>>},
                     !.plog[n].pc = AddMyVote(@, x.id, p.pp)]

send_commit(x, n) ==
  LET y == IF n = x.last_executed + 1 THEN execute_prepared(x) ELSE x
      z == [y EXCEPT !.sent.c = @ \cup {n},
                     !.relogged = @ \/ Mine(y.clog[n], x.id) # None,
                     !.clog[n] = AddMyVote(@, x.id, OK)]
  IN  IF IsComplete(z.clog[n], commits) THEN Call(z, <<execute_committed>>) ELSE z

(* My checkpoint message for n is logged and sent. *)
send_checkpoint(x, n) ==
  [x EXCEPT !.relogged = @ \/ Mine(x.elog[n], x.id) # None,
            !.elog[n] = AddMyVote(@, x.id, prefix(x, n)),
            !.sent.k = @ \cup {<<n, prefix(x, n), FALSE>>}]
-----------------------------------------------------------------------------
(* Handlers: the state of the replica after the message. *)
handle_Pre_prepare(x, n, d) ==
  IF ~(in_w(x, n) /\ x.id # Primary /\ accepts(x.plog[n], x.id, d)) THEN x
  ELSE LET y == send_prepare([x EXCEPT !.plog[n].pp = d], n)
       IN  IF prepared_complete(y.plog[n]) THEN send_commit(y, n) ELSE y

handle_Prepare(x, i, n, d) ==
  IF ~(in_w(x, n) /\ i # Primary) THEN x
  ELSE LET pc == x.plog[n].pc
           y  == [x EXCEPT !.plog[n].pc = AddVote(pc, prepares, i, d)]
       IN  IF Added(pc, prepares, i, d) /\ prepared_complete(y.plog[n])
           THEN send_commit(y, n) ELSE y

handle_Commit(x, i, n) ==
  IF ~in_w(x, n) THEN x
  ELSE LET y == [x EXCEPT !.clog[n] = AddVote(@, commits, i, OK)]
       IN  IF Added(x.clog[n], commits, i, OK) /\ IsComplete(y.clog[n], commits)
           THEN Call(y, <<execute_committed>>) ELSE y

(* A stable checkpoint above last_executed may mean that what I miss was    *)
(* garbage collected; not while my last commit is less than 200 ms old.     *)
late(x, n, stable, slow) ==
  /\ stable /\ x.last_executed < n
  /\ (in_w(x, x.last_executed) /\ Mine(x.clog[x.last_executed], x.id) # None) => slow

log_checkpoint(x, i, n, h) ==
  LET y == [x EXCEPT !.elog[n] = AddVote(@, checkpoints, i, h)]
  IN  IF /\ Added(x.elog[n], checkpoints, i, h)
         /\ Mine(y.elog[n], x.id) # None
         /\ IsComplete(y.elog[n], checkpoints)
      THEN Call(y, <<mark_stable(n, TRUE)>>) ELSE y

(* f+1 replicas have a stable checkpoint above mine: fetch the state. *)
sset_size(x) == Cardinality({j \in Replicas : x.sset[j] # None})

sset_quorum_of_commits(x) == sset_size(x) >= commits  \* mutant
sset_quorum(x) == sset_size(x) > F

store(sset, i, n, h) == [sset EXCEPT ![i] = <<n, h>>]
remove(sset, i) == [sset EXCEPT ![i] = None]

store_stable(x, i, n, h) ==
  LET y == [x EXCEPT !.sset = store(remove(@, i), i, n, h)]
      z == IF y.last_tentative_execute > y.last_executed THEN rollback(y) ELSE y
  IN  IF x.sset[i] # None /\ x.sset[i][1] >= n THEN x
      ELSE IF sset_quorum(y) THEN start_fetch(z)
      ELSE y

handle_Checkpoint(x, i, n, h, stable, slow) ==
  IF n <= x.last_stable THEN x
  ELSE IF n <= x.last_stable + max_out /\ ~late(x, n, stable, slow)
  THEN log_checkpoint(x, i, n, h)
  ELSE IF stable THEN store_stable(x, i, n, h) ELSE x

(* send_new_key(): messages authenticated with the old keys are dropped     *)
(* from the certificates that are not complete.                             *)
send_new_key(x) ==
  LET min == IF x.last_executed > x.last_stable THEN x.last_executed ELSE x.last_stable
      stale(n) == in_w(x, n) /\ n > min
  IN  [x EXCEPT
         !.elog = [n \in Checkpoints |->
                     IF in_w(x, n) THEN MarkStale(@[n], checkpoints, x.id) ELSE @[n]],
         !.plog = [n \in Seqnos |->
                     IF stale(n) THEN prepared_mark_stale(@[n], x.id) ELSE @[n]],
         !.clog = [n \in Seqnos |->
                     IF stale(n) THEN MarkStale(@[n], commits, x.id) ELSE @[n]]]
-----------------------------------------------------------------------------
(* The calls handlers make of each other, one frame at a time: the states   *)
(* the replica may be in after the first one in x.calls.                    *)

(* One round of the loop of execute_committed(). *)
execute_next(x) ==
  LET y == execute_prepared(x)
      n == x.last_executed + 1
      z == [y EXCEPT !.last_executed = n]
      k == send_checkpoint(z, n)
  IN  IF n % checkpoint_interval # 0 THEN z
      ELSE IF IsComplete(k.elog[n], checkpoints) THEN Call(k, <<mark_stable(n, TRUE)>>)
      ELSE k

after_execute_committed(x) ==
  IF \/ x.fetching
     \/ x.last_executed >= x.last_stable + max_out
     \/ x.last_executed < x.last_stable
  THEN {Return(x)}
  ELSE IF committed(x, x.last_executed + 1) THEN {execute_next(x)}
  ELSE send_pre_prepare(Return(x))

(* My own checkpoint message becomes a stable one; without one the          *)
(* certificate is completed with a new one.                                 *)
own_stable(x, n) ==
  LET y == IF Mine(x.elog[n], x.id) # None THEN x
           ELSE [x EXCEPT !.elog[n] = MakeComplete(AddMyVote(@, x.id, prefix(x, n)))]
  IN  IF Mine(y.elog[n], x.id) = None THEN y
      ELSE [y EXCEPT !.sent.k = @ \cup {<<n, Mine(y.elog[n], x.id), TRUE>>}]

truncate(x, n) ==
  [x EXCEPT !.last_stable = n,
            !.seqno = IF n > @ THEN n ELSE @,
            !.plog = [m \in Seqnos |-> IF m <= n THEN EmptyPrepared ELSE @[m]],
            !.clog = [m \in Seqnos |-> IF m <= n THEN EmptyCert ELSE @[m]],
            !.elog = [m \in Checkpoints |-> IF m < n THEN EmptyCert ELSE @[m]],
            !.sent.md = {v \in @ : v[1] >= n}]

(* replies.new_state(&rqueue) removes the requests the new state covers. *)
replies_new_state(x) == {x, [x EXCEPT !.rqueue = FALSE]}

after_mark_stable(x, n, have_state) ==
  LET t == truncate(Return(x), n)
      jump == have_state /\ n > t.last_executed
      s == IF jump THEN [t EXCEPT !.last_executed = n, !.last_tentative_execute = n] ELSE t
      d == discard_checkpoint(s)
      o == Call(IF have_state THEN own_stable(d, n) ELSE d, <<transfer_sset(n)>>)
  IN  IF n <= x.last_stable THEN {Return(x)}
      ELSE IF jump THEN replies_new_state(o) ELSE {o}

(* Checkpoints kept in sset that are now in the window move to elog, one at *)
(* a time and in any order (the code goes by replica number).               *)
in_sset(x) ==
  {i \in Replicas : x.sset[i] # None /\ x.sset[i][1] <= x.last_stable + max_out}

transfer(x, i, new_ls) ==
  LET n == x.sset[i][1]
      y == [x EXCEPT !.sset = remove(@, i)]
      e == AddVote(x.elog[n], checkpoints, i, x.sset[i][2])
  IN  IF n < x.last_stable THEN y
      ELSE [y EXCEPT !.elog[n] = e,
                     !.calls[1].n = IF IsComplete(e, checkpoints) /\ n > new_ls
                                    THEN n ELSE new_ls]

after_transfer_sset(x, new_ls) ==
  IF in_sset(x) # {} THEN {transfer(x, i, new_ls) : i \in in_sset(x)}
  ELSE IF new_ls > x.last_stable
  THEN {Call(Return(x), <<mark_stable(new_ls, Mine(x.elog[new_ls], x.id) # None)>>)}
  ELSE send_pre_prepare(Return(x))

(* new_state(c), from the checkpoint message on. *)
after_new_state(x, c, behind) ==
  LET y == IF behind THEN send_checkpoint(Return(x), c) ELSE Return(x)
      known == {i \in Replicas : x.sset[i] # None /\ x.sset[i][1] >= c}
  IN  {Call(y, (IF Cardinality(known) > F THEN <<mark_stable(c, TRUE)>> ELSE << >>)
                 \o <<new_state_end(c), execute_committed, try_send_pre_prepare>>)}

after_call(x) ==
  LET f == Head(x.calls)
  IN  CASE f.op = "execute_committed" -> after_execute_committed(x)
        [] f.op = "mark_stable"       -> after_mark_stable(x, f.n, f.flag)
        [] f.op = "transfer_sset"     -> after_transfer_sset(x, f.n)
        [] f.op = "new_state"         -> after_new_state(x, f.n, f.flag)
        [] f.op = "new_state_end"     ->
             {[Return(x) EXCEPT !.seqno = IF f.n > @ THEN f.n ELSE @]}
        [] f.op = "send_pre_prepare"  -> send_pre_prepare(Return(x))

(* new_state(c) first makes room for c in the window. *)
make_room_never(x, c) == << >>  \* mutant
make_room(x, c) ==
  LET low == c - max_out
  IN  IF c > x.last_executed /\ low > x.last_stable
      THEN <<mark_stable(low, low \in Checkpoints /\ Mine(x.elog[low], x.id) # None)>>
      ELSE << >>

(* The state of checkpoint c arrived: State installs it and calls           *)
(* new_state().                                                             *)
fetch_done(x, c, h) ==
  LET behind == c > x.last_executed
      y == [x EXCEPT !.fetching = FALSE, !.state = h, !.lc = c, !.fetched = c,
                     !.sent.md = @ \cup {<<c, h>>},
                     !.last_executed = IF behind THEN c ELSE @,
                     !.last_tentative_execute = IF behind THEN c ELSE @]
      z == Call(y, make_room(x, c) \o <<new_state(c, behind)>>)
  IN  IF behind THEN replies_new_state(z) ELSE {z}
-----------------------------------------------------------------------------
Becomes(r, x) == rep' = [rep EXCEPT ![r] = x] /\ UNCHANGED keys

Idle(r) == rep[r].calls = << >> /\ ~rep[r].stopped

(* A client's request reaches the primary. *)
Request(r) ==
  /\ Idle(r) /\ r = Primary
  /\ \E x \in send_pre_prepare([rep[r] EXCEPT !.rqueue = TRUE]) : Becomes(r, x)

Pre_prepare(r) ==
  /\ Idle(r) /\ r # Primary
  /\ \E m \in Sent(Primary).pp : Becomes(r, handle_Pre_prepare(rep[r], m[1], m[2]))

Prepare(r, i) ==
  /\ Idle(r) /\ r # i
  /\ \E m \in Sent(i).p : Becomes(r, handle_Prepare(rep[r], i, m[1], m[2]))

Commit(r, i) ==
  /\ Idle(r) /\ r # i
  /\ \E n \in Sent(i).c : Becomes(r, handle_Commit(rep[r], i, n))

Checkpoint(r, i) ==
  /\ Idle(r) /\ r # i
  /\ \E m \in Sent(i).k, slow \in BOOLEAN :
       m[1] \in Checkpoints /\ Becomes(r, handle_Checkpoint(rep[r], i, m[1], m[2], m[3], slow))

NewKey(r) ==
  /\ Idle(r) /\ keys < MaxKeys
  /\ keys' = keys + 1
  /\ rep' = [rep EXCEPT ![r] = send_new_key(rep[r])]

(* State transfer ends with a checkpoint that f+1 replicas vouch for, r     *)
(* itself included.  A Meta_data_d of another one counts only when that one *)
(* has a stable checkpoint not older than r's last.                         *)
Vouch(r, c, h) ==
  {i \in Replicas : /\ <<c, h>> \in Sent(i).md
                    /\ i \in Correct \ {r} => rep[i].last_stable >= rep[r].lc}

FetchDone(r) ==
  /\ Idle(r) /\ rep[r].fetching
  /\ \E v \in UNION {Sent(i).md : i \in Replicas} :
       /\ v[1] \in Checkpoints
       /\ v[1] >= rep[r].lc /\ v[1] >= rep[r].last_executed
       /\ Cardinality(Vouch(r, v[1], v[2])) > F
       /\ \E x \in fetch_done(rep[r], v[1], v[2]) : Becomes(r, x)

Continue(r) ==
  /\ rep[r].calls # << >>
  /\ \E x \in after_call(rep[r]) : Becomes(r, x)

Receive(r) ==
  \/ Pre_prepare(r)
  \/ \E i \in Replicas : Prepare(r, i) \/ Commit(r, i) \/ Checkpoint(r, i)

Next ==
  \E r \in Correct : Request(r) \/ Receive(r) \/ NewKey(r) \/ FetchDone(r) \/ Continue(r)

Spec == Init /\ [][Next]_vars

(* Lost messages are sent again until they arrive: every stimer period a    *)
(* replica multicasts a Status message, and the others resend what it       *)
(* misses; State asks again for what it fetches.  A running handler ends.   *)
Fairness ==
  \A r \in Correct : WF_vars(Receive(r)) /\ WF_vars(FetchDone(r)) /\ WF_vars(Continue(r))

FairSpec == Spec /\ Fairness
-----------------------------------------------------------------------------
(* Every field of every replica has its type, and the frames in calls name  *)
(* sequence numbers that the tables have.                                   *)
Frames ==
  [op: {"execute_committed", "mark_stable", "transfer_sset", "new_state",
        "new_state_end", "send_pre_prepare"}, n: Nat, flag: BOOLEAN]

TypeOK ==
  /\ keys \in 0..MaxKeys
  /\ \A r \in Correct :
      LET x == rep[r]
      IN  /\ x.id = r
          /\ x.seqno \in 0..MaxSeqno /\ x.last_stable \in 0..MaxSeqno
          /\ x.last_executed \in 0..MaxSeqno /\ x.last_tentative_execute \in 0..MaxSeqno
          /\ \A n \in Seqnos : /\ x.plog[n].pp \in Digests \cup {None}
                               /\ x.plog[n].pc \in Certificates(Digests)
                               /\ x.clog[n] \in Certificates({OK})
          /\ x.lc \in -1..MaxSeqno
          /\ x.rqueue \in BOOLEAN /\ x.fetching \in BOOLEAN /\ x.stopped \in BOOLEAN
          /\ \A k \in DOMAIN x.calls : x.calls[k] \in Frames

(* Two correct replicas never execute different batches under the same      *)
(* sequence number, tentatively or not, whatever the other replicas send    *)
(* and however certificates are emptied by key changes and truncation.      *)
Agreement ==
  \A r, q \in Correct :
    \A n \in DOMAIN rep[r].state \cap DOMAIN rep[q].state :
      rep[r].state[n] = rep[q].state[n]

(* Replica.cc comments handle(Pre_prepare): "Only accept message if we      *)
(* never accepted another pre-prepare for the same view and sequence number *)
(* and the message is valid."  So a replica prepares one batch per number.  *)
PreparesOnce ==
  \A r \in Correct : \A m1, m2 \in rep[r].sent.p : m1[1] = m2[1] => m1 = m2

(* While a state transfer is going on nothing is tentatively executed:      *)
(* handle(Checkpoint) and send_view_change() assert it before they roll     *)
(* back, and a rollback would undo blocks that were just fetched.           *)
NoTentativeWhileFetching ==
  \A r \in Correct :
    rep[r].fetching => rep[r].last_tentative_execute = rep[r].last_executed

(* State::rollback() asserts th_assert(lc >= 0 && !fetching): whenever a     *)
(* tentative execution is undone there is a checkpoint to go back to,       *)
(* although discard_checkpoint() leaves lc at -1.                           *)
RollbackHasCheckpoint == \A r \in Correct : ~rep[r].stopped

(* The execution counters tell the truth about the state: through tentative *)
(* execution, rollback, state transfer and stable checkpoints that overtake *)
(* the replica, exactly last_tentative_execute batches are in the state.    *)
StateMatchesCounters ==
  \A r \in Correct :
    LET x == rep[r]
    IN  /\ Len(x.state) = x.last_tentative_execute
        /\ x.last_tentative_execute \in x.last_executed..(x.last_executed + 1)

(* add_mine() requires that the certificate has no message of the replica   *)
(* yet: a second one would be counted twice towards the quorum.             *)
LogsOwnMessageOnce == \A r \in Correct : ~rep[r].relogged

(* Between two messages a replica is never further than max_out ahead of    *)
(* its stable checkpoint, with what it executed or with what it proposed.   *)
WithinWindow ==
  \A r \in Correct : Idle(r) =>
    /\ rep[r].last_executed <= rep[r].last_stable + max_out
    /\ rep[r].seqno <= rep[r].last_stable + max_out

(* A replica discards its log below n only when f+1 correct replicas have   *)
(* a checkpoint at n or above to bring the others up to date, also when it  *)
(* learned of n by state transfer or from checkpoints above its window.     *)
HasCheckpointFrom(q, n) == \E m \in rep[q].sent.k : m[1] >= n

StableIsBacked ==
  \A r \in Correct : rep[r].last_stable > 0 =>
    Cardinality({q \in Correct : HasCheckpointFrom(q, rep[r].last_stable)}) > F

(* ARCHITECTURE.md says "When a replica falls behind or detects corruption, *)
(* it fetches missing state": once f+1 replicas have a stable checkpoint n, *)
(* every correct replica reaches n, by executing the batches or by fetching *)
(* the state, however far it was left behind and whatever it had executed   *)
(* tentatively.                                                             *)
StableAt(i, n) == \E m \in Sent(i).k : m[1] = n /\ m[3]

UpToDate ==
  \A r \in Correct, n \in Checkpoints :
    Cardinality({i \in Replicas : StableAt(i, n)}) > F => rep[r].last_executed >= n

CatchesUp == []<>UpToDate

(* ARCHITECTURE.md describes last_executed as "Highest committed+executed   *)
(* seqno": above the last state transfer everything up to it is committed.  *)
ExecutedIsCommitted ==
  \A r \in Correct :
    \A n \in (rep[r].last_stable + 1)..rep[r].last_executed :
      n <= rep[r].fetched \/ committed(rep[r], n)

(* handle(Status) asserts of its stable checkpoint message, when a replica  *)
(* more than max_out behind asks (here: one that just started), that        *)
(* th_assert(c != 0 && c->stable(), "Invalid state").                       *)
StatusFindsCheckpoint ==
  \A r \in Correct :
    LET x == rep[r]
    IN  Idle(r) /\ x.last_stable > max_out => Mine(x.elog[x.last_stable], r) # None
=============================================================================
