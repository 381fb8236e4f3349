-------------------------- MODULE CheckpointRecords --------------------------
(***************************************************************************)
(* CheckpointRecord and CheckpointRecordLog: what a replica keeps to undo  *)
(* the writes made since each retained checkpoint.  A record maps the      *)
(* nodes that changed after the checkpoint to the values they had at it,   *)
(* and has the digest sd of the whole state at the checkpoint.             *)
(***************************************************************************)
EXTENDS Integers, TLC

CONSTANTS max_out, checkpoint_interval

ASSUME RecordsAssumption ==
  /\ checkpoint_interval \in Nat \ {0}
  /\ max_out \in Nat \ {0}
  /\ max_out % checkpoint_interval = 0

(* Digest::zero(), which is the digest of nothing.                         *)
NoDigest == [zero |-> TRUE]

(* num_entries_ is the number of nodes in copies.                          *)
NewRecord == [copies |-> <<>>, sd |-> NoDigest]

is_cleared(r) == r.sd = NoDigest

(* clear() returns at once when the record has no entries, and then keeps  *)
(* its digest.                                                             *)
clear_record(r) == IF r.copies = <<>> THEN r ELSE NewRecord

(* append() for the nodes of C, a function: it asserts that a node is not  *)
(* in the record and overwrites it.                                        *)
append(r, C) == [r EXCEPT !.copies = C @@ @]

has(r, k) == k \in DOMAIN r.copies

-----------------------------------------------------------------------------
(* The log: a ring of the records of the window, and one more record for   *)
(* the checkpoint taken when a fetch starts, whose sequence number need    *)
(* not be a multiple of the checkpoint interval.                           *)
MAX_SIZE == max_out \div checkpoint_interval + 2

NewLog(h) == [head |-> h, fetch_seqno |-> -1, head_index |-> 0,
              records |-> [i \in 0..(MAX_SIZE - 1) |-> NewRecord]]

log_within_range(g, n) == g.head <= n /\ n <= g.head + max_out

record_index(g, n) ==
  IF n % checkpoint_interval # 0 THEN MAX_SIZE - 1
  ELSE (g.head_index + (n - g.head) \div checkpoint_interval) % (MAX_SIZE - 1)

(* What fetch() asserts, besides within_range().                           *)
is_fetchable(g, n) == n % checkpoint_interval # 0 => g.fetch_seqno = n

fetch(g, n) == g.records[record_index(g, n)]

store(g, n, r) == [g EXCEPT !.records[record_index(g, n)] = r]

clear_log(g, h) ==
  [g EXCEPT !.records = [i \in DOMAIN @ |-> clear_record(@[i])],
            !.head = h, !.head_index = 0]

truncate_log(g, n) ==
  LET dropped == {record_index(g, c) : c \in {c \in g.head..(n - 1) :
                                              (c - g.head) % checkpoint_interval = 0}}
                 \cup (IF g.fetch_seqno < n THEN {MAX_SIZE - 1} ELSE {})
  IN  IF n <= g.head THEN g
      ELSE IF ~log_within_range(g, n) THEN clear_log(g, n)
      ELSE [g EXCEPT !.records = [i \in DOMAIN @ |->
                       IF i \in dropped THEN clear_record(@[i]) ELSE @[i]],
                     !.head = n,
                     !.head_index = record_index(g, n)]

set_fetch_seqno(g, n) ==
  [g EXCEPT !.fetch_seqno = n,
            !.records[MAX_SIZE - 1] = IF g.fetch_seqno # -1 THEN clear_record(@) ELSE @]
=============================================================================
