-------------------------- MODULE CheckpointStore --------------------------
(***************************************************************************)
(* elog (class CheckpointLog, src/src/checkpoint_log.cc) composed with     *)
(* checkpoint_region (src/src/checkpoint_region.cc), which holds the       *)
(* messages that the certificates of elog point to.  Each is a ring of     *)
(* max_out / checkpoint_interval + 1 elements with a head and an index of  *)
(* its own; mark_stable() truncates both.                                  *)
(*                                                                         *)
(* A certificate is reduced to the sequence number of its messages (0 when *)
(* empty) and the region element they were copied to; a region element to  *)
(* the sequence number copied into it last.  (A recovering replica starts  *)
(* elog over with clear(), which leaves the region behind; recovery is not *)
(* modelled.)                                                              *)
(***************************************************************************)
EXTENDS Integers

CONSTANTS
  max_out,
  checkpoint_interval,
  MaxSeqno              \* bound: the highest sequence number considered

VARIABLES
  head_, head_index_, certs_,          \* elog
  head, head_index, checkpoint_certs   \* checkpoint_region

elog   == <<head_, head_index_, certs_>>
region == <<head, head_index, checkpoint_certs>>
vars   == <<elog, region>>

ASSUME CheckpointStoreAssumption ==
  /\ checkpoint_interval \in Nat \ {0}
  /\ max_out \in Nat \ {0}
  /\ max_out % checkpoint_interval = 0
  /\ MaxSeqno \in Nat

Checkpoints == {n \in 0..MaxSeqno : n % checkpoint_interval = 0}

NUM_CERTS_one_short == max_out \div checkpoint_interval  \* mutant
NUM_CERTS == max_out \div checkpoint_interval + 1

Empty == [n |-> 0, at |-> 0]
-----------------------------------------------------------------------------
(* CheckpointLog *)
log_within_range(n) == head_ <= n /\ n <= head_ + max_out

log_index(n) == (head_index_ + (n - head_) \div checkpoint_interval) % NUM_CERTS

AllEmpty == [k \in 0..(NUM_CERTS - 1) |-> Empty]

(* The elements the loop of CheckpointLog::truncate() clears. *)
cleared_one_more(new_head) ==  \* mutant
  {log_index(n) : n \in {n \in Checkpoints : head_ <= n /\ n <= new_head}}
cleared(new_head) ==
  {log_index(n) : n \in {n \in Checkpoints : head_ <= n /\ n < new_head}}

(* CheckpointLog::truncate(); outside the window it is clear(new_head),     *)
(* which leaves head_index_ as it was.                                      *)
log_truncate(new_head) ==
  IF new_head <= head_ THEN UNCHANGED elog
  ELSE /\ head_' = new_head
       /\ IF ~log_within_range(new_head)
          THEN certs_' = AllEmpty /\ UNCHANGED head_index_
          ELSE /\ certs_' = [k \in DOMAIN certs_ |->
                               IF k \in cleared(new_head) THEN Empty ELSE certs_[k]]
               /\ head_index_' = log_index(new_head)
-----------------------------------------------------------------------------
(* checkpoint_region *)
within_range(n) == head <= n /\ n <= head + max_out

certificate_index(n) == (head_index + (n - head) \div checkpoint_interval) % NUM_CERTS

(* The guard compares the new head with head_index. *)
region_skips(new_head) == new_head <= head_index

region_truncate(new_head) ==
  /\ UNCHANGED checkpoint_certs
  /\ IF region_skips(new_head) THEN UNCHANGED <<head, head_index>>
     ELSE /\ head_index' = IF within_range(new_head) THEN certificate_index(new_head) ELSE 0
          /\ head' = new_head
-----------------------------------------------------------------------------
Init ==
  /\ head_ = 0 /\ head_index_ = 0 /\ certs_ = AllEmpty
  /\ head = 0 /\ head_index = 0
  /\ checkpoint_certs = [k \in 0..(NUM_CERTS - 1) |-> 0]

(* A checkpoint message is added to its certificate: elog.fetch(n) returns  *)
(* the certificate and Checkpoint::persist() copies the message.            *)
store(n) ==
  /\ log_within_range(n)
  /\ checkpoint_certs' = [checkpoint_certs EXCEPT ![certificate_index(n)] = n]
  /\ certs_' = [certs_ EXCEPT ![log_index(n)] = [n |-> n, at |-> certificate_index(n)]]
  /\ UNCHANGED <<head_, head_index_, head, head_index>>

(* mark_stable(n) *)
truncate(n) ==
  /\ n > head_
  /\ log_truncate(n)
  /\ region_truncate(n)

Next ==
  \/ \E n \in Checkpoints \ {0} : store(n) \/ truncate(n)

Spec == Init /\ [][Next]_vars
-----------------------------------------------------------------------------
(* A certificate in the window holds messages of its own sequence number,   *)
(* and its pointer leads to a message of that sequence number: no later     *)
(* checkpoint was copied over it, whatever was truncated in between.        *)
PointersIntact ==
  \A n \in Checkpoints :
    LET cert == certs_[log_index(n)]
    IN  log_within_range(n) /\ cert # Empty => cert.n = n /\ checkpoint_certs[cert.at] = n

W == INSTANCE WindowLog WITH
       Seqnos <- Checkpoints,
       Heads  <- Checkpoints,
       First  <- 0,
       Span   <- max_out,
       whead  <- head_,
       filled <- {n \in Checkpoints : log_within_range(n) /\ certs_[log_index(n)] # Empty}

(* elog is a window onto a table indexed by sequence number: the ring, with *)
(* an index that clear() does not reset, loses and revives nothing.         *)
ElogIsWindow == W!WSpec
=============================================================================
