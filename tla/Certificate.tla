---------------------------- MODULE Certificate ----------------------------
(***************************************************************************)
(* Certificate<T> (src/src/Certificate.t, Certificate.h) as it is coded:   *)
(* a bitmap of the replicas heard from, at most f+1 slots with a value and *)
(* a counter each, the index of the correct value and my own message.      *)
(*                                                                         *)
(* The messages are reduced to their sender and the value match() compares *)
(* (full() is TRUE for every message but Reply).  A message that fails     *)
(* verify() changes nothing, and verify() fails for messages from self, so *)
(* only verified messages of the other replicas are inputs.                *)
(*                                                                         *)
(* opinion[i] is the set of values replica i sends messages with: one for  *)
(* a correct replica, any number for a faulty one.  acc and forced are     *)
(* history: which message each replica contributed since the last reset    *)
(* and whether make_complete() overwrote the counter since then.           *)
(***************************************************************************)
EXTENDS Naturals, Sequences, FiniteSets

CONSTANTS Replicas, F, None, Ignored, Self, Values, Complete,
          Opinions   \* the distributions of opinions considered

VARIABLES cert, acc, forced, opinion

vars == <<cert, acc, forced, opinion>>

ASSUME CertificateAssumption ==
  /\ IsFiniteSet(Replicas)
  /\ F \in Nat
  /\ Self \in Replicas
  /\ Complete \in Nat \ {0}
  /\ None \notin Values /\ Ignored \notin Values /\ None # Ignored
  /\ Opinions \subseteq [Replicas -> SUBSET Values]

-----------------------------------------------------------------------------
(* The data structure; c = 0 stands for the null pointer.                   *)
max_size == F + 1

correct_one_short == F  \* mutant
correct == F + 1

EmptyCertificate == [bmap |-> {}, vals |-> << >>, c |-> 0, mym |-> None]

cvalue(x) == IF x.c = 0 THEN None ELSE x.vals[x.c].m

num_correct(x) == IF x.c = 0 THEN 0 ELSE x.vals[x.c].count

is_complete_one_late(x) == num_correct(x) > Complete  \* mutant
is_complete(x) == num_correct(x) >= Complete

(* The slot whose value matches v, or 0. *)
slot_not_last(x, v) ==  \* mutant
  IF \E k \in 1..(Len(x.vals) - 1) : x.vals[k].m = v
  THEN CHOOSE k \in 1..(Len(x.vals) - 1) : x.vals[k].m = v
  ELSE 0
slot(x, v) ==
  IF \E k \in 1..Len(x.vals) : x.vals[k].m = v
  THEN CHOOSE k \in 1..Len(x.vals) : x.vals[k].m = v
  ELSE 0

(* Every slot is taken. *)
full_one_late(x) == Len(x.vals) > max_size  \* mutant
full(x) == Len(x.vals) >= max_size

clear(x) == EmptyCertificate

(* add() on a message of replica i with value v: the new certificate. *)
add(x, i, v) ==
  LET heard == [x EXCEPT !.bmap = @ \cup {i}]
      k     == IF x.c # 0 THEN x.c ELSE slot(x, v)
  IN  IF i \in x.bmap THEN x
      ELSE IF x.c # 0 /\ ~(x.vals[x.c].count < Complete /\ x.vals[x.c].m = v)
      THEN heard
      ELSE IF k # 0
      THEN [heard EXCEPT !.vals[k].count = @ + 1,
                         !.c = IF x.c # 0 \/ x.vals[k].count + 1 >= correct
                               THEN k ELSE 0]
      ELSE IF ~full(x)
      THEN [heard EXCEPT !.vals = Append(@, [m |-> v, count |-> 1])]
      ELSE clear(x)

(* add() ran out of slots and cleared the certificate. *)
overflows(x, i, v) ==
  i \notin x.bmap /\ x.c = 0 /\ slot(x, v) = 0 /\ full(x)

(* add()'s result. *)
added(x, i, v) ==
  /\ i \notin x.bmap
  /\ x.c = 0 \/ (x.vals[x.c].count < Complete /\ x.vals[x.c].m = v)
  /\ ~overflows(x, i, v)

(* add_mine(): my value becomes the correct one.  Without a matching slot   *)
(* it takes the first one over, whatever that held.                         *)
add_mine(x, v) ==
  IF x.c # 0 /\ x.vals[x.c].m # v THEN x
  ELSE LET k == IF x.c # 0 THEN x.c
                ELSE IF slot(x, v) # 0 THEN slot(x, v) ELSE 1
           old == IF x.c = 0 /\ slot(x, v) = 0 THEN 0 ELSE x.vals[k].count
           mine == [m |-> v, count |-> old + 1]
       IN  [bmap |-> x.bmap \cup {Self},
            vals |-> IF x.vals = << >> THEN <<mine>> ELSE [x.vals EXCEPT ![k] = mine],
            c    |-> k,
            mym  |-> v]

mark_stale_keeps_counts(x) == IF is_complete(x) THEN x ELSE [x EXCEPT !.bmap = {}]  \* mutant
mark_stale_keeps_heard(x) ==  \* mutant
  IF is_complete(x) THEN x
  ELSE IF x.mym = None THEN EmptyCertificate
  ELSE [x EXCEPT !.vals = <<[m |-> x.mym, count |-> 1]>>, !.c = 1]
mark_stale_drops_mine(x) == IF is_complete(x) THEN x ELSE EmptyCertificate  \* mutant

(* mark_stale(): an incomplete certificate keeps my message only, and       *)
(* forgets whom it heard from.                                              *)
mark_stale(x) ==
  IF is_complete(x) THEN x
  ELSE IF x.mym = None THEN EmptyCertificate
  ELSE [bmap |-> {}, vals |-> <<[m |-> x.mym, count |-> 1]>>, c |-> 1, mym |-> x.mym]

make_complete(x) ==
  IF x.c = 0 THEN x ELSE [x EXCEPT !.vals[x.c].count = Complete]
-----------------------------------------------------------------------------
NoVotes == [i \in Replicas |-> None]

Init ==
  /\ cert = EmptyCertificate
  /\ acc = NoVotes
  /\ forced = FALSE
  /\ opinion \in Opinions

(* A handler passes a verified message of another replica to add(). *)
Add(i, v) ==
  /\ i # Self
  /\ cert' = add(cert, i, v)
  /\ acc' = IF i \in cert.bmap THEN acc
            ELSE IF overflows(cert, i, v) THEN NoVotes
            ELSE [acc EXCEPT ![i] = IF added(cert, i, v) THEN v ELSE Ignored]
  /\ UNCHANGED <<forced, opinion>>

(* The owner logs its own message; add_mine() requires mine() = 0. *)
AddMine(v) ==
  /\ cert.mym = None
  /\ cert' = add_mine(cert, v)
  /\ acc' = IF cert'.mym = None THEN acc ELSE [acc EXCEPT ![Self] = v]
  /\ UNCHANGED <<forced, opinion>>

(* send_new_key() discards what was authenticated with the old keys. *)
MarkStale ==
  /\ cert' = mark_stale(cert)
  /\ acc' = IF is_complete(cert) THEN acc
            ELSE [NoVotes EXCEPT ![Self] = acc[Self]]
  /\ forced' = (forced /\ is_complete(cert))
  /\ UNCHANGED opinion

(* A truncated log, or a view change, clears it. *)
Clear ==
  /\ cert' = clear(cert)
  /\ acc' = NoVotes
  /\ forced' = FALSE
  /\ UNCHANGED opinion

(* mark_stable() completes the certificate of a checkpoint it just logged. *)
MakeComplete ==
  /\ cert.mym # None
  /\ cert' = make_complete(cert)
  /\ forced' = TRUE
  /\ UNCHANGED <<acc, opinion>>

Next ==
  \/ \E i \in Replicas : \E v \in opinion[i] : Add(i, v)
  \/ \E v \in opinion[Self] : AddMine(v)
  \/ MarkStale
  \/ Clear
  \/ MakeComplete

Spec == Init /\ [][Next]_vars
-----------------------------------------------------------------------------
Backers(votes, v) == {i \in Replicas : votes[i] = v}

Supporters(v) == Backers(acc, v)

CertOK ==
  /\ cert \in [bmap: SUBSET Replicas, vals: Seq([m: Values, count: Nat]),
              c: Nat, mym: Values \cup {None}]
  /\ Len(cert.vals) <= max_size
  /\ cert.c <= Len(cert.vals)
  /\ acc \in [Replicas -> Values \cup {None, Ignored}]

(* The certificate stays within its slots, its counters and its index.      *)
TypeOK == CertOK /\ forced \in BOOLEAN /\ opinion \in [Replicas -> SUBSET Values]

(* is_complete() is never reported on fewer than Complete matching messages *)
(* of different replicas: no reset, no overwritten slot and no repeated     *)
(* message may leave a counter above the senders that back it.  Only        *)
(* make_complete() may complete a certificate without them.                 *)
CompleteIsQuorum ==
  is_complete(cert) => forced \/ Cardinality(Supporters(cvalue(cert))) >= Complete

(* While the correct value is still open every counter is exact: none of    *)
(* the messages taken is lost and two slots never hold the same value.      *)
CountersExact ==
  cert.c = 0 =>
    /\ \A k \in 1..Len(cert.vals) :
         cert.vals[k].count = Cardinality(Supporters(cert.vals[k].m))
    /\ \A j, k \in 1..Len(cert.vals) : cert.vals[j].m = cert.vals[k].m => j = k

(* Only clear() drops my own message.  In particular the overflow of the    *)
(* slots inside add(), which clears everything, never costs a replica the   *)
(* record of what it sent, so it cannot send a second, different message.   *)
OnlyClearDropsMine ==
  [][cert.mym # None /\ cert'.mym # cert.mym => Clear]_vars

(* The replicas that may send something else than v. *)
Dissenters(v) == {i \in Replicas : opinion[i] # {v}}

(* When the correct replicas are of one opinion (as they are of the state   *)
(* at a checkpoint), f faulty ones cannot block the certificate: once every *)
(* correct replica was heard and I logged my own message it is complete,    *)
(* whatever arrived first, was overwritten by add_mine() or marked stale.   *)
HeardAllIsComplete ==
  \A v \in Values :
    /\ Cardinality(Dissenters(v)) <= F
    /\ cert.mym # None
    /\ Replicas \ Dissenters(v) \subseteq cert.bmap \cup {Self}
    => is_complete(cert)

(* In the same situation the correct value, once known, is theirs: the f    *)
(* faulty replicas never get their own value taken for the correct one.     *)
CorrectValueIsSound ==
  \A v \in Values :
    Cardinality(Dissenters(v)) <= F /\ opinion[Self] = {v} /\ cert.c # 0 => cvalue(cert) = v

(* The abstract certificate this one implements. *)
V == INSTANCE VoteCert WITH
       vs <- [votes |-> acc, c |-> cvalue(cert), forced |-> forced]

(* Every step of the coded certificate is a step of the abstract one: the   *)
(* slots, counters and bitmap behave as a plain record of votes.            *)
ImplementsVotes == V!VSpec
=============================================================================
