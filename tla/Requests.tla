------------------------------ MODULE Requests ------------------------------
(***************************************************************************)
(* The path of a client's request through one correct replica: the queues, *)
(* the proposal, the execution with its reply, the reply cache             *)
(* (src/src/Rep_info.cc) and the view-change timer (src/src/ITimer.cc).    *)
(*                                                                         *)
(* rp is the replica, with the field names of the code: v, nv              *)
(* (has_new_view()), limbo, seqno, le, lte (last_executed,                 *)
(* last_tentative_execute), fetching, rqueue, ro (ro_rqueue), slot (see    *)
(* ReqQueue), out (out_rid and out_v of the nodes), vt (vtimer), plog (the *)
(* batches it logged a pre-prepare for in this view, by number), mem (the  *)
(* service state with the replies kept in it), tent (Rinfo::tentative),    *)
(* lost (slots of scratch memory that are not given back).                 *)
(*                                                                         *)
(* The other replicas are reduced to what they agree on: order is the      *)
(* sequence of the batches committed so far, by anybody.  The module       *)
(* covers the numbers 1..max_out after stable checkpoint 0; checkpoints    *)
(* and the moving window are in module Replica.  A command changes a       *)
(* counter and returns it, so that a result tells where it was executed.   *)
(***************************************************************************)
EXTENDS ReqQueue, FiniteSets

CONSTANTS
  Clients,            \* clients that are not replicas
  Kinds,              \* Kinds[c]: the requests of c in order, "rw" or "ro"
  max_out,            \* size of the window
  congestion_window,  \* proposals not executed yet
  MaxBatch,           \* requests that fit a pre-prepare
  MyViews,            \* views in which this replica is the primary
  MaxView,            \* bound: the last view
  SLOTS               \* scratch slots

VARIABLES rp, sent, order, answers

vars == <<rp, sent, order, answers>>

ASSUME ClientsAssumption ==
  IsFiniteSet(Clients) /\ Kinds \in [Clients -> Seq({"rw", "ro"}) \ {<<>>}]
ASSUME SizesAssumption ==
  /\ {max_out, congestion_window, MaxBatch, SLOTS} \subseteq Nat \ {0}
  /\ MaxView \in Nat /\ MyViews \subseteq 0..MaxView

Request(c, rid) == [c |-> c, rid |-> rid]
is_read_only(q) == Kinds[q.c][q.rid] = "ro"
is_primary(r) == r.v \in MyViews

Sent == UNION {{Request(c, i) : i \in 1..sent[c]} : c \in Clients}

(* What others may propose: verified requests of different clients.        *)
Batches ==
  {<<q>> : q \in Sent}
    \cup {b \in Sent \X Sent : b[1].c # b[2].c /\ MaxBatch > 1}

-----------------------------------------------------------------------------
(* ITimer *)

start(vt) == IF vt = "stopped" THEN "running" ELSE vt
restart(vt) == IF vt \in {"stopped", "expired"} THEN "running" ELSE vt
stop(vt) == IF vt = "running" THEN "stopped" ELSE vt
restop(vt) == "stopped"

-----------------------------------------------------------------------------
(* Rep_info: mem.rep[c] is the reply kept for c. *)

NewMem == [count |-> 0, rep |-> [c \in Clients |-> [rid |-> 0, val |-> 0]]]

req_id(r, c) == r.mem.rep[c].rid

(* exec_command() between new_reply() and end_reply(). *)
execute(mem, q) ==
  [count |-> mem.count + 1,
   rep |-> [mem.rep EXCEPT ![q.c] = [rid |-> q.rid, val |-> mem.count + 1]]]
new_reply_committed(r, c) == r                              \* mutant
new_reply(r, c) == [r EXCEPT !.tent[c] = TRUE]

(* send_reply(): r and what was sent as committed, in r.said. *)
send_reply(r, c, tentative) ==
  LET t == r.tent[c] /\ tentative
  IN  [r EXCEPT !.tent[c] = t,
                !.said = IF t THEN @ ELSE @ \cup {[c |-> c, rep |-> r.mem.rep[c]]}]

commit_reply(r, c) == [r EXCEPT !.tent[c] = FALSE]

-----------------------------------------------------------------------------
(* Proposing: the pre-prepare takes the requests at the head of the queue  *)
(* out of it as long as they fit.                                          *)
fill(r) ==
  LET n == IF Len(r.rqueue) < MaxBatch THEN Len(r.rqueue) ELSE MaxBatch
  IN  SubSeq(requests(r.rqueue, r.slot), 1, n)

send_pre_prepare(r) ==
  IF /\ r.rqueue # <<>> /\ r.nv
     /\ r.seqno + 1 <= r.le + congestion_window /\ r.seqno + 1 <= max_out
  THEN [r EXCEPT !.seqno = @ + 1,
                 !.plog[r.seqno + 1] = fill(r),
                 !.rqueue = SubSeq(@, Len(fill(r)) + 1, Len(@))]
  ELSE r

in_progress(r, q) == q.rid <= r.out[q.c].rid /\ r.v <= r.out[q.c].v

-----------------------------------------------------------------------------
(* Executing *)

(* execute_read_only() does not change the state; whether it can run:      *)
can_read(r) == r.lte = r.le /\ ~r.fetching

(* The buffered read-only requests are removed, executed or not.           *)
drain_ro(r) == [r EXCEPT !.ro = <<>>]

execute_request_again(r, q, committed) ==                   \* mutant
  send_reply([new_reply(r, q.c) EXCEPT !.mem = execute(@, q)], q.c, ~committed)
execute_request(r, q, committed) ==
  IF req_id(r, q.c) >= q.rid THEN send_reply(r, q.c, TRUE)
  ELSE send_reply([new_reply(r, q.c) EXCEPT !.mem = execute(@, q)], q.c, ~committed)

(* execute_prepared(committed), for the batch b of last_executed + 1.      *)
can_execute(r) == r.le < max_out /\ ~r.fetching /\ r.nv
execute_prepared(r, b, committed) ==
  IF r.lte > r.le \/ ~can_execute(r) THEN r
  ELSE FoldLeft(LAMBDA x, q : execute_request(x, q, committed),
                [r EXCEPT !.lte = r.le + 1, !.plog[r.le + 1] = b], b)

(* The end of execute_committed()'s loop for one request: the reply is     *)
(* committed, the request leaves the queue.                                *)
commit_request_timed(r, q) ==                               \* mutant
  [commit_reply(r, q.c) EXCEPT !.rqueue = remove(@, r.slot, q.c, q.rid)]
commit_request(r, q) ==
  LET x == commit_reply(r, q.c)
  IN  [x EXCEPT !.rqueue = remove(@, x.slot, q.c, q.rid),
                !.vt = IF removes_first(x.rqueue, x.slot, q.c, q.rid) THEN stop(@) ELSE @]

(* Rep_info::new_state(): every reply is committed, stale requests leave   *)
(* the queue, and the timer stops if the first one did.                    *)
replies_new_state(r) ==
  FoldLeft(LAMBDA x, c : commit_request(x, Request(c, req_id(x, c))),
           [r EXCEPT !.tent = [c \in Clients |-> FALSE]], r.rqueue)

commit_batch(r, b) ==
  LET x == execute_prepared(r, b, TRUE)
  IN  FoldLeft(commit_request, drain_ro([x EXCEPT !.le = @ + 1]), b)

(* execute_committed() with the batches bs committed from last_executed+1  *)
(* on.  At the end of the window it returns inside the loop.               *)
execute_committed_only(r, bs) ==  FoldLeft(commit_batch, r, bs)   \* mutant
execute_committed(r, bs) ==
  LET x == FoldLeft(commit_batch, r, bs)
  IN  IF ~can_execute(x) \/ x.rqueue = <<>> THEN x
      ELSE IF is_primary(x) THEN send_pre_prepare(x)
      ELSE [x EXCEPT !.vt = start(@)]

rollback(r) ==
  IF r.lte > r.le THEN [r EXCEPT !.mem = NewMem, !.le = 0, !.lte = 0] ELSE r

-----------------------------------------------------------------------------
Init ==
  /\ rp = [v |-> 0, nv |-> TRUE, limbo |-> FALSE, seqno |-> 0, le |-> 0, lte |-> 0,
           fetching |-> FALSE, rqueue |-> <<>>, ro |-> <<>>,
           slot |-> [c \in Clients |-> Request(c, 0)],
           out |-> [c \in Clients |-> [rid |-> 0, v |-> 0]],
           vt |-> "stopped", plog |-> [n \in 1..max_out |-> <<>>],
           mem |-> NewMem, tent |-> [c \in Clients |-> TRUE], said |-> {}, lost |-> 0]
  /\ sent = [c \in Clients |-> 0]
  /\ order = <<>>
  /\ answers = {}

(* A handler leaves r; what it said is kept apart.                         *)
Becomes(r) ==
  /\ rp' = [r EXCEPT !.said = {}]
  /\ answers' = answers \cup r.said

(* The order of the group, executed.  Every replica must follow it.        *)
Result(bs) ==
  FoldLeft(LAMBDA m, q : IF m.rep[q.c].rid >= q.rid THEN m ELSE execute(m, q),
           NewMem, FoldLeft(LAMBDA s, b : s \o b, <<>>, bs))

(* A client has one request outstanding: it sends the next one when the    *)
(* group has answered the last.                                            *)
answered(c) ==
  Result(order).rep[c].rid < sent[c] => is_read_only(Request(c, sent[c]))
send_request ==
  \E c \in Clients :
    /\ sent[c] < Len(Kinds[c]) /\ answered(c)
    /\ sent' = [sent EXCEPT ![c] = @ + 1]
    /\ UNCHANGED <<rp, order, answers>>

Up == rp.lost < SLOTS

-----------------------------------------------------------------------------
(* handle(Request) *)

handle_read_only(r, q) ==
  IF can_read(r) \/ ~appends(r.ro, r.slot, q) THEN r
  ELSE [r EXCEPT !.ro = append(@, r.slot, q), !.slot = persist(@, q), !.lost = @ + 1]

enqueue(r, q) ==
  [r EXCEPT !.rqueue = append(@, r.slot, q), !.slot = persist(@, q)]

handle_new(r, q) ==
  IF is_primary(r)
  THEN IF in_progress(r, q) THEN r
       ELSE LET x == [r EXCEPT !.out[q.c] = [rid |-> q.rid, v |-> r.v]]
            IN  IF appends(x.rqueue, x.slot, q) THEN send_pre_prepare(enqueue(x, q)) ELSE x
  ELSE IF ~appends(r.rqueue, r.slot, q) THEN r
       ELSE [enqueue(r, q) EXCEPT !.vt = IF r.limbo THEN @ ELSE start(@)]

handle_executed(r, q) ==
  LET x == send_reply(r, q.c, TRUE)
  IN  IF ~is_primary(x) /\ x.tent[q.c] /\ appends(x.rqueue, x.slot, q)
      THEN [enqueue(x, q) EXCEPT !.vt = start(@)]
      ELSE x

handle_Request(r, q) ==
  IF ~r.nv THEN r
  ELSE IF is_read_only(q) THEN handle_read_only(r, q)
  ELSE IF req_id(r, q.c) < q.rid THEN handle_new(r, q)
  ELSE IF req_id(r, q.c) = q.rid THEN handle_executed(r, q)
  ELSE r

(* A request arrives, any number of times and at any time after it was     *)
(* sent: from its client, or forwarded by a backup.                        *)
ReceiveRequest ==
  \E q \in Sent :
    /\ Up /\ Becomes(handle_Request(rp, q))
    /\ UNCHANGED <<sent, order>>

-----------------------------------------------------------------------------
(* The batch of number n in the replica's view: the one it logged, or for a*)
(* backup that has logged none any batch; always the committed one, if the *)
(* group has committed n.                                                  *)
Proposals(r, n) ==
  {b \in Batches \cup {r.plog[n]} :
     /\ b # <<>>
     /\ r.plog[n] \in {<<>>, b}
     /\ is_primary(r) => r.plog[n] = b
     /\ n <= Len(order) => order[n] = b}

(* The certificate of the next number is complete: tentative execution.    *)
Prepared ==
  /\ Up /\ can_execute(rp) /\ rp.lte = rp.le
  /\ \E b \in Proposals(rp, rp.le + 1) : Becomes(execute_prepared(rp, b, FALSE))
  /\ UNCHANGED <<sent, order>>

(* One or two numbers commit; the commit may be the first the group has.   *)
Commit(bs) ==
  /\ Becomes(execute_committed(rp, bs))
  /\ order' = IF rp.le + Len(bs) <= Len(order) THEN order
              ELSE SubSeq(order, 1, rp.le) \o bs
  /\ UNCHANGED sent

Committed ==
  /\ Up /\ can_execute(rp) /\ rp.le <= Len(order)
  /\ \/ \E b \in Proposals(rp, rp.le + 1) : Commit(<<b>>)
     \/ /\ rp.le + 2 <= max_out
        /\ \E b \in Proposals(rp, rp.le + 1), d \in Proposals(rp, rp.le + 2) : Commit(<<b, d>>)

(* The others commit a batch without this replica. *)
GroupCommits ==
  /\ Len(order) < max_out
  /\ \E b \in Batches : order' = Append(order, b)
  /\ UNCHANGED <<rp, sent, answers>>

-----------------------------------------------------------------------------
(* send_view_change(): the timer expired, or f+1 others left the view.     *)
send_view_change(r) ==
  [rollback(r) EXCEPT !.v = @ + 1, !.nv = FALSE, !.limbo = TRUE, !.vt = stop(@),
                      !.plog = [n \in 1..max_out |-> <<>>]]

(* vtimer_handler(), with delay_vc() while the state is fetched.           *)
VTimer ==
  /\ Up /\ rp.vt = "running" /\ (rp.fetching \/ rp.v < MaxView)
  /\ LET x == [rp EXCEPT !.vt = "expired"]
     IN  Becomes(IF x.fetching THEN [x EXCEPT !.vt = restart(@)] ELSE send_view_change(x))
  /\ UNCHANGED <<sent, order>>

(* handle(View_change): f+1 replicas are in a later view. *)
FollowViewChange ==
  /\ Up /\ rp.v < MaxView
  /\ Becomes(send_view_change(rp))
  /\ UNCHANGED <<sent, order>>

(* handle(View_change): 2f+1 replicas are in this view. *)
QuorumInView ==
  /\ Up /\ rp.limbo /\ ~is_primary(rp)
  /\ Becomes([rp EXCEPT !.vt = restart(@), !.limbo = FALSE])
  /\ UNCHANGED <<sent, order>>

(* process_new_view(): the new view starts with the batches bs, which      *)
(* extend what is committed; the replica logs those it has not executed.   *)
process_new_view_unwatched(r, bs) ==                        \* mutant
  [r EXCEPT !.vt = restop(@), !.limbo = FALSE, !.nv = TRUE, !.seqno = Len(bs),
            !.plog = [n \in 1..max_out |-> IF n <= Len(bs) THEN bs[n] ELSE <<>>]]
process_new_view(r, bs) ==
  LET x == [r EXCEPT !.vt = restop(@), !.limbo = FALSE, !.nv = TRUE, !.seqno = Len(bs),
                     !.plog = [n \in 1..max_out |-> IF n <= Len(bs) THEN bs[n] ELSE <<>>]]
      y == drain_ro(IF is_primary(x) THEN send_pre_prepare(x) ELSE x)
  IN  [y EXCEPT !.vt = IF ~is_primary(y) /\ y.rqueue # <<>> THEN restart(@) ELSE @]

ProcessNewView ==
  /\ Up /\ rp.v > 0 /\ ~rp.nv
  /\ \E bs \in {order} \cup {Append(order, b) : b \in Batches} :
       /\ Len(bs) <= max_out
       /\ Becomes(process_new_view(rp, bs))
  /\ UNCHANGED <<sent, order>>

-----------------------------------------------------------------------------
(* handle(Checkpoint): the others are ahead, the state is fetched. *)
StartFetch ==
  /\ Up /\ ~rp.fetching /\ Len(order) > rp.le
  /\ Becomes([rollback(rp) EXCEPT !.vt = stop(@), !.fetching = TRUE])
  /\ UNCHANGED <<sent, order>>

(* new_state(c): the fetch ends with the state of the order up to c, and   *)
(* the batches bs after c are already committed here.                      *)
installed(r, c) ==
  LET s == [r EXCEPT !.fetching = FALSE, !.seqno = IF c > @ THEN c ELSE @]
  IN  IF c <= s.le THEN s
      ELSE replies_new_state([s EXCEPT !.le = c, !.lte = c,
                                       !.mem = Result(SubSeq(order, 1, c))])
new_state(r, c, bs) ==
  LET y == drain_ro(execute_committed(installed(r, c), bs))
  IN  IF y.rqueue = <<>> THEN y
      ELSE IF is_primary(y) THEN send_pre_prepare(y)
      ELSE [y EXCEPT !.vt = restart(@)]

NewState ==
  /\ Up /\ rp.fetching
  /\ \E c \in rp.le..Len(order) :
       \/ Becomes(new_state(rp, c, <<>>))
       \/ /\ c < Len(order) /\ rp.nv
          /\ \E b \in Proposals(rp, c + 1) : Becomes(new_state(rp, c, <<b>>))
  /\ UNCHANGED <<sent, order>>

Next ==
  \/ send_request \/ ReceiveRequest \/ Prepared \/ Committed \/ GroupCommits
  \/ VTimer \/ FollowViewChange \/ QuorumInView \/ ProcessNewView
  \/ StartFetch \/ NewState

Spec == Init /\ [][Next]_vars

-----------------------------------------------------------------------------
(* Properties *)

(* The fields have their types, and a queue links a client once.           *)
TypeOK ==
  /\ rp.le \in 0..Len(order) /\ rp.lte \in rp.le..rp.le + 1 /\ rp.seqno \in 0..max_out
  /\ rp.vt \in {"stopped", "running", "expired"} /\ rp.v \in 0..MaxView
  /\ \A queue \in {rp.rqueue, rp.ro} : IsInjective(queue) /\ ToSet(queue) \subseteq Clients
  /\ rp.lost \in 0..SLOTS /\ rp.said = {}

(* The state and the replies kept in it are those of the common order, plus*)
(* at most the one batch executed tentatively: a request that is ordered   *)
(* twice, sent again, rolled back or covered by a transfer is executed     *)
(* exactly once in every replica (execute_prepared(), "to ensure           *)
(* idempotence").                                                          *)
StateFollowsOrder ==
  ~rp.fetching =>
    rp.mem = Result(SubSeq(order, 1, rp.le)
                      \o (IF rp.lte > rp.le THEN <<rp.plog[rp.lte]>> ELSE <<>>))

(* A reply that is not marked tentative is never taken back: it is what the*)
(* common order gives, whatever view changes and rollbacks follow.  f+1    *)
(* such replies are enough for a client.                                   *)
CommittedReplyIsFinal ==
  \A a \in answers : \E n \in 0..Len(order) : Result(SubSeq(order, 1, n)).rep[a.c] = a.rep

(* A backup with a request in its queue watches the primary: the timer runs*)
(* while the view is active, nothing is fetched and the window has room    *)
(* (execute_committed(): "If I am not the primary and have pending         *)
(* requests restart the timer").                                           *)
PendingRequestTimed ==
  (rp.rqueue # <<>> /\ can_execute(rp) /\ ~is_primary(rp)) => rp.vt = "running"

(* Without a request in its queue a replica does not suspect the primary   *)
(* of the view it is in.                                                   *)
IdleReplicaNotTimed ==
  (rp.rqueue = <<>> /\ rp.nv) => rp.vt = "stopped"

(* The primary keeps a request in its queue only while it may not propose: *)
(* every way to get a request, to execute or to receive a state is followed*)
(* by the proposal it makes possible.                                      *)
BufferedIsProposed ==
  (is_primary(rp) /\ rp.nv /\ ~rp.fetching /\ rp.rqueue # <<>>) =>
    rp.seqno + 1 > rp.le + congestion_window \/ rp.seqno + 1 > max_out

(* There is a free slot for the next message to be received, as malloc()   *)
(* of scratch_allocator requires.                                          *)
ScratchSuffices == rp.lost < SLOTS

(* A request in rqueue is one to be ordered, as handle(Request) put it in. *)
QueuedIsOrdered == \A c \in ToSet(rp.rqueue) : ~is_read_only(rp.slot[c])
=============================================================================
