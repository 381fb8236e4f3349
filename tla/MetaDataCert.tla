---------------------------- MODULE MetaDataCert ----------------------------
(***************************************************************************)
(* Meta_data_cert: the certificate a fetching replica builds from the      *)
(* Meta_data_d answers for one partition.  An answer                       *)
(* [id, ls, digests] gives, for checkpoints from ls on, the digest its     *)
(* sender has for the partition.                                           *)
(***************************************************************************)
EXTENDS CheckpointRecords, Sequences, FiniteSets, FiniteSetsExt, SequencesExt

CONSTANTS Replicas, f, me

ASSUME CertAssumption ==
  f \in Nat /\ Cardinality(Replicas) = 3 * f + 1 /\ me \in Replicas

NoMessage == [id |-> -1]
NoValue == [c |-> -1]

NewCert == [last_mdds |-> [r \in Replicas |-> NoMessage],
            vals |-> <<>>, value |-> NoValue, mine |-> FALSE]

(* clear() also forgets the value found.                                   *)
clear_cert(cert) == NewCert

has_mine(cert) == cert.mine
cvalue(cert) == cert.value

(* Meta_data_d::last_checkpoint(), ls - checkpoint_interval when empty.    *)
last_checkpoint(m) ==
  Max(DOMAIN m.digests \cup {m.ls - checkpoint_interval})

num_digests(m) == (last_checkpoint(m) - m.ls) \div checkpoint_interval + 1

(* Meta_data_d::verify(): an answer that covers the whole window has       *)
(* max_out / checkpoint_interval + 1 digests and is refused.               *)
verify_mdd(m) ==
  /\ m.id # me /\ m.ls >= 0
  /\ num_digests(m) >= 1
  /\ num_digests(m) < max_out \div checkpoint_interval + 1

Supports(m, val) ==
  m # NoMessage /\ val.c \in DOMAIN m.digests /\ m.digests[val.c] = val.d

(* One round of the loop over vals.  A value nobody supports is replaced   *)
(* by the last one, which this round then passes over; when it is itself   *)
(* the last one, its cleared entry compares below ls (never above 0) and   *)
(* the loop clears the remaining values too.                               *)
CountValue(acc, i, om, m) ==
  IF i > Len(acc.vals) THEN acc
  ELSE LET val == acc.vals[i]
           now == [val EXCEPT !.count = @ - (IF Supports(om, val) THEN 1 ELSE 0)
                                          + (IF Supports(m, val) THEN 1 ELSE 0)]
           seen == IF Supports(m, val) THEN acc.matched \cup {val.c} ELSE acc.matched
       IN  [acc EXCEPT
              !.matched = seen,
              !.vals = IF now.count > 0 THEN [@ EXCEPT ![i] = now]
                       ELSE IF i < Len(@) THEN Front([@ EXCEPT ![i] = Last(acc.vals)])
                       ELSE <<>>,
              !.value = IF now.count >= f + 1 /\ val.c > @.c
                        THEN [c |-> val.c, d |-> val.d] ELSE @]

Counted(cert, m) ==
  FoldLeft(LAMBDA acc, i : CountValue(acc, i, cert.last_mdds[m.id], m),
           [vals |-> cert.vals, value |-> cert.value, matched |-> {}],
           [i \in 1..Len(cert.vals) |-> i])

(* Checkpoints that matched no value get one of their own.                 *)
NewValues(m, matched) ==
  LET fresh == SetToSortSeq(DOMAIN m.digests \ matched, <)
  IN  [j \in DOMAIN fresh |-> [c |-> fresh[j], d |-> m.digests[fresh[j]], count |-> 1]]

Recorded(cert, m, counted) ==
  [cert EXCEPT !.last_mdds[m.id] = m, !.value = counted.value,
               !.vals = counted.vals \o NewValues(m, counted.matched)]

(* add(): FALSE in added when the answer is refused.                       *)
add(cert, m, mine) ==
  LET om == cert.last_mdds[m.id]
      asked == [cert EXCEPT !.mine = @ \/ mine]
  IN  IF \/ ~mine /\ ~verify_mdd(m)
         \/ om # NoMessage /\ last_checkpoint(om) >= last_checkpoint(m)
      THEN [added |-> FALSE, cert |-> asked]
      ELSE [added |-> TRUE, cert |-> Recorded(asked, m, Counted(cert, m))]
=============================================================================
