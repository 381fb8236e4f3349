------------------------------ MODULE ReqQueue ------------------------------
(***************************************************************************)
(* The request queues of a replica (src/src/Req_queue.cc, Req_queue.h) and *)
(* the memory their requests live in.                                      *)
(*                                                                         *)
(* A queue holds at most one request per client.  The doubly linked list   *)
(* of PNodes is the sequence of the clients it links, in order.  A node    *)
(* does not hold the request but a pointer, and in the static build        *)
(* persist() copies every request of a client to the same block,           *)
(* special_region::requests[cid]: slot[c] is what that block holds, for    *)
(* rqueue and ro_rqueue alike.                                             *)
(***************************************************************************)
EXTENDS Naturals, Sequences, SequencesExt

(* Request::persist(), store_request() and load_request(). *)
persist(slot, q) == [slot EXCEPT ![q.c] = q]

(* first_client(cid) # 0: the node of c has a request. *)
holds(queue, c) == Contains(queue, c)

(* Unlinking the node of a client. *)
unlink(queue, c) == RemoveFirst(queue, c)

(* remove(cid, rid) changes the queue only if the request of c is not newer*)
(* than rid ...                                                            *)
removes(queue, slot, c, rid) == holds(queue, c) /\ slot[c].rid <= rid
remove(queue, slot, c, rid) ==
  IF removes(queue, slot, c, rid) THEN unlink(queue, c) ELSE queue

(* ... and returns true iff the first request was removed. *)
removes_first(queue, slot, c, rid) ==
  removes(queue, slot, c, rid) /\ Head(queue) = c

(* append(r) returns false if the queue has a request of the client that is*)
(* as new as r; an older one makes way.                                    *)
appends(queue, slot, q) == holds(queue, q.c) => slot[q.c].rid < q.rid
append(queue, slot, q) == Append(remove(queue, slot, q.c, q.rid), q.c)

(* The requests in the order of the queue, read through the pointers.      *)
requests(queue, slot) == [i \in DOMAIN queue |-> slot[queue[i]]]
=============================================================================
