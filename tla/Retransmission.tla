--------------------------- MODULE Retransmission ---------------------------
(***************************************************************************)
(* What replicas send each other again (src/src/Replica.cc, send_status()  *)
(* and handle(Status); src/src/Status.h, src/src/Status.cc).               *)
(*                                                                         *)
(* Module Replica lets everything that was ever sent arrive at any time    *)
(* and its FairSpec lets it arrive eventually.  Here the network may lose  *)
(* every message the first time; what a replica can count on is only what  *)
(* the others select when they handle its Status message.                  *)
(*                                                                         *)
(* The handlers are those of Replica.  The view is 0, so has_nv_info()     *)
(* holds; no replica is recovering, so qs and rr are 0 and                 *)
(* in_check_state() is false.                                              *)
(***************************************************************************)
EXTENDS Replica

(* Status messages.  A bitmap has a bit per number of the window that is    *)
(* not executed.  Counted from 1, the bit of the last one may lie just past *)
(* the bitmap of committed numbers, where the authenticator is: whether it  *)
(* reads as set then differs from message to message, and it is read as     *)
(* clear again and again, which asks for no less than it should.            *)
Status(x, prep, comm) ==
  [ls |-> x.last_stable, le |-> x.last_executed, prepared |-> prep, committed |-> comm]

send_status(x) ==
  LET prep == {n \in Seqnos : /\ x.last_executed < n /\ n <= x.last_stable + max_out
                               /\ prepared_complete(x.plog[n])}
  IN  Status(x, prep, {n \in prep : IsComplete(x.clog[n], commits)})

is_prepared(s, n) == n \in s.prepared
is_committed(s, n) == n \in s.committed

(* The part of Status::verify() that is not about the authenticator. *)
verify(s) == s.le >= s.ls /\ s.le - s.ls <= max_out
-----------------------------------------------------------------------------
(* handle(Status): the messages y sends to the sender of s. *)
lower(p, q) == IF p < q THEN p ELSE q
upper(p, q) == IF p > q THEN p ELSE q

Message(kind, n, d, stable) == [kind |-> kind, n |-> n, d |-> d, stable |-> stable]

(* mine() of elog.fetch(n), which is marked stable by mark_stable(). *)
my_checkpoint(y, n) ==
  {Message("k", n, h, <<n, h, TRUE>> \in y.sent.k) : h \in {Mine(y.elog[n], y.id)} \ {None}}

my_commit(y, n) == {Message("c", n, OK, FALSE) : d \in {Mine(y.clog[n], y.id)} \ {None}}

my_pre_prepare(y, n) == {Message("pp", n, d, FALSE) : d \in {y.plog[n].pp} \ {None}}

my_prepare(y, n) == {Message("p", n, d, FALSE) : d \in {Mine(y.plog[n].pc, y.id)} \ {None}}

missed_checkpoints(y, s) ==
  LET min == upper(y.last_stable, s.ls + 1)
      max == lower(y.last_stable, s.ls) + max_out
  IN  UNION {my_checkpoint(y, n) : n \in Checkpoints \cap min..max}

(* The window both have, above what either has stable or executed. *)
missed(y, s) ==
  LET min == upper(y.last_stable + 1, s.le + 1)
      max == lower(y.last_stable, s.ls) + max_out
  IN  {n \in Seqnos \cap min..max : ~is_committed(s, n)}

proposal(y, n) == IF y.id = Primary THEN my_pre_prepare(y, n) ELSE my_prepare(y, n)

unprepared(y, s) == {n \in missed(y, s) : ~is_prepared(s, n)}

missed_messages_unprepared(y, s) ==  \* mutant
  UNION {my_commit(y, n) \cup proposal(y, n) : n \in unprepared(y, s)}
missed_messages(y, s) ==
  UNION {my_commit(y, n) : n \in missed(y, s)}
    \cup UNION {proposal(y, n) : n \in unprepared(y, s)}

handle_Status(y, s) ==
  IF ~verify(s) THEN {}
  ELSE IF y.last_stable > s.ls + max_out THEN my_checkpoint(y, y.last_stable)
  ELSE missed_checkpoints(y, s) \cup missed_messages(y, s)
-----------------------------------------------------------------------------
(* r receives a message i sent. *)
deliver(x, i, m, slow) ==
  CASE m.kind = "pp" -> handle_Pre_prepare(x, m.n, m.d)
    [] m.kind = "p"  -> handle_Prepare(x, i, m.n, m.d)
    [] m.kind = "c"  -> handle_Commit(x, i, m.n)
    [] m.kind = "k"  -> handle_Checkpoint(x, i, m.n, m.d, m.stable, slow)

(* r's Status message reaches i and one of the messages i sends for it,     *)
(* one that is new to r, reaches r: the states r may then be in.  While it  *)
(* fetches r sends a Fetch message instead.                                 *)
Answered(r, i) ==
  IF rep[r].fetching \/ r = i THEN {}
  ELSE {deliver(rep[r], i, m, slow) :
          m \in handle_Status(rep[i], send_status(rep[r])), slow \in BOOLEAN}
       \ {rep[r]}

Retransmit(r, i) ==
  /\ \A q \in Correct : Idle(q)
  /\ \E x \in Answered(r, i) : Becomes(r, x)

(* A handler runs to its end before another replica takes a step: its calls *)
(* read and write the state of its own replica only.  The replicas that are *)
(* not modelled are silent, so that every quorum has to have every other    *)
(* one in it and none is left behind; one that started to fetch the state   *)
(* (module StateTransfer) would stop here.                                  *)
StatusNext ==
  \/ \E r \in Correct : Continue(r)
  \/ /\ \A r \in Correct : Idle(r)
     /\ \E r \in Correct : Request(r) \/ NewKey(r)
  \/ \E r, i \in Correct : Retransmit(r, i)

(* Every stimer period a replica multicasts a Status message, and of        *)
(* messages sent again and again some arrive: as long as an answer would    *)
(* bring some replica something new, some replica gets one.  No pair of     *)
(* replicas is promised to be served in turn.                               *)
Helps ==
  \E r \in Correct :
    rep'[r] # rep[r] /\ (Continue(r) \/ \E i \in Correct : Retransmit(r, i))

(* WF_vars(Helps), with ENABLED <<Helps>>_vars written out as Helpable. *)
Helpable ==
  \/ \E r \in Correct : rep[r].calls # << >>
  \/ \E r, i \in Correct : Answered(r, i) # {}

StatusFairness == []<>~Helpable \/ []<><<Helps>>_vars

StatusSpec == Init /\ [][StatusNext]_vars /\ StatusFairness
-----------------------------------------------------------------------------
(* Whatever is lost the first time, and although a change of keys empties   *)
(* certificates that were being filled, every batch a correct primary       *)
(* orders is executed by every correct replica: what handle(Status) leaves  *)
(* out the other one never needs.  (Status.h: is_prepared() and             *)
(* is_committed() stop the retransmission of all that precedes them.)       *)
EveryoneExecutes ==
  \A n \in Seqnos :
    rep[Primary].seqno >= n ~> \A r \in Correct : rep[r].last_executed >= n
=============================================================================
