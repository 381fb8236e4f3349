--------------------------- MODULE AgreementStore ---------------------------
(***************************************************************************)
(* plog (class Log<T>, src/src/Log.t) composed with agreement_region       *)
(* (src/src/agreement_region.cc), the array of max_out slices that holds   *)
(* the messages the certificates of plog and clog point to.  persist()     *)
(* copies a message into its slice and the certificate keeps a pointer to  *)
(* it.  clog is a second ring that is indexed and truncated as plog is.    *)
(*                                                                         *)
(* A certificate is reduced to the sequence number of its messages (0 when *)
(* empty) and the slice they were copied to; a slice to the sequence       *)
(* number copied into it last.  mark_stable() truncates both, to           *)
(* last_stable + 1 with last_stable a multiple of checkpoint_interval.     *)
(*                                                                         *)
(* Log::truncate() walks the ring with loop variables of type int although *)
(* sequence numbers have 64 bits, so int keeps its width: IntBits is the   *)
(* width of an int (32 in the build, a few bits in the model).             *)
(***************************************************************************)
EXTENDS Integers

CONSTANTS
  max_out,              \* the size of both arrays, a power of two
  checkpoint_interval,
  MaxSeqno,             \* bound: the highest sequence number considered
  IntBits

VARIABLES
  log_head, elems,           \* plog
  head, head_index, slices   \* agreement_region

plog   == <<log_head, elems>>
region == <<head, head_index, slices>>
vars   == <<plog, region>>

ASSUME AgreementStoreAssumption ==
  /\ max_out \in Nat \ {0}
  /\ \E k \in 0..IntBits : max_out = 2^k
  /\ checkpoint_interval \in Nat \ {0}
  /\ MaxSeqno \in Nat
  /\ IntBits \in Nat \ {0}

Seqnos == 1..MaxSeqno
Indices == 0..(max_out - 1)

Empty == [n |-> 0, at |-> 0]
-----------------------------------------------------------------------------
(* Log *)
int(s) ==
  LET u == s % 2^IntBits
  IN  IF u < 2^(IntBits - 1) THEN u ELSE u - 2^IntBits

mod(s) == s % max_out

log_within_range(s) == log_head <= s /\ s < log_head + max_out

(* The loop of truncate(): the values its int variable takes. *)
walked_one_more(new_head) == int(log_head)..int(new_head)  \* mutant
walked(new_head) ==
  IF new_head - log_head >= max_out THEN Indices
  ELSE int(log_head)..(int(new_head) - 1)

log_truncate(new_head) ==
  /\ elems' = [k \in Indices |->
                 IF \E j \in walked(new_head) : mod(j) = k THEN Empty ELSE elems[k]]
  /\ log_head' = new_head
-----------------------------------------------------------------------------
(* agreement_region *)
within_range(n) == head <= n /\ n <= head + max_out - 1

cert_index_from_head(n) == (n - head) % max_out  \* mutant
cert_index_one_short(n) == (head_index + (n - head)) % (max_out - 1)  \* mutant
cert_index(n) == (head_index + (n - head)) % max_out

(* Outside the window the array is started over. *)
region_truncate(new_head) ==
  IF new_head <= head THEN UNCHANGED region
  ELSE /\ head_index' = IF within_range(new_head) THEN new_head % max_out ELSE 0
       /\ head' = new_head
       /\ UNCHANGED slices
-----------------------------------------------------------------------------
Init ==
  /\ log_head = 1 /\ elems = [k \in Indices |-> Empty]
  /\ head = 1 /\ head_index = 0 /\ slices = [k \in Indices |-> 0]

(* A message is added to the certificate of n: fetch() returns the          *)
(* certificate, persist() copies the message and returns the pointer.       *)
(* The region asserts that n is in its window.                              *)
store(n) ==
  /\ log_within_range(n)
  /\ within_range(n)
  /\ slices' = [slices EXCEPT ![cert_index(n)] = n]
  /\ elems' = [elems EXCEPT ![mod(n)] = [n |-> n, at |-> cert_index(n)]]
  /\ UNCHANGED <<log_head, head, head_index>>

(* A change of keys, or of the view, empties the certificate of n. *)
drop(n) ==
  /\ log_within_range(n) /\ elems[mod(n)] # Empty
  /\ elems' = [elems EXCEPT ![mod(n)] = Empty]
  /\ UNCHANGED <<log_head, region>>

(* mark_stable() *)
truncate(new_head) ==
  /\ new_head > log_head
  /\ log_truncate(new_head)
  /\ region_truncate(new_head)

(* restart() and enforce_bound() start the log over at any head and leave   *)
(* the region alone.                                                        *)
clear(h) ==
  /\ elems' = [k \in Indices |-> Empty]
  /\ log_head' = h
  /\ UNCHANGED region

Heads == {n \in Seqnos : n % checkpoint_interval = 1 % checkpoint_interval}

Next ==
  \/ \E n \in Seqnos : store(n) \/ drop(n)
  \/ \E h \in Heads : truncate(h) \/ clear(h)

Spec == Init /\ [][Next]_vars
-----------------------------------------------------------------------------
W == INSTANCE WindowLog WITH
       First  <- 1,
       Span   <- max_out - 1,
       whead  <- log_head,
       filled <- {s \in Seqnos : log_within_range(s) /\ elems[mod(s)] # Empty}

(* The ring is a window onto a table indexed by sequence number: truncating *)
(* and wrapping around loses no certificate still in the window and brings  *)
(* none back.                                                               *)
RingIsWindow == W!WSpec

Live(n) == log_within_range(n) /\ elems[mod(n)].n = n

(* A message whose pointer is the slice the region would look it up in is   *)
(* intact: within one way of indexing no other message of the window is     *)
(* ever copied over it, however the window slides and whenever the log was  *)
(* started over.                                                            *)
IntactWhereIndexed ==
  \A n \in Seqnos :
    Live(n) /\ within_range(n) /\ elems[mod(n)].at = cert_index(n) => slices[cert_index(n)] = n

(* Once a truncation inside the window aligned head_index with head, later  *)
(* ones inside the window keep it so, and messages stay where they are.     *)
Aligned == head_index = head % max_out

StaysAligned ==
  [][Aligned /\ within_range(head') =>
       Aligned' /\ \A n \in Seqnos : within_range(n) /\ within_range(n)' =>
                                       cert_index(n)' = cert_index(n)]_vars

(* execute_prepared() and execute_committed() read the batch through the    *)
(* pointer in the certificate of n and assert that it is the batch of n:    *)
(* th_assert(pp->seqno() == last_executed, "Invalid execution").            *)
PersistedIntact == \A n \in Seqnos : Live(n) => slices[elems[mod(n)].at] = n
=============================================================================
