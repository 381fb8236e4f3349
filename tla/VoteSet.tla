------------------------------ MODULE VoteSet ------------------------------
(***************************************************************************)
(* What a quorum certificate of TinyBFT promises, as operators on values.  *)
(*                                                                         *)
(* Certificate<T> (src/src/Certificate.t) collects at most one message per *)
(* replica.  Its slots, counters and bitmap are implementation: module     *)
(* Certificate models them and is shown to implement module VoteCert,      *)
(* whose steps are the operators below.  Replica, which composes many      *)
(* certificates, uses these operators directly.                            *)
(*                                                                         *)
(* A certificate is a record                                               *)
(*   votes  for each replica the value its message carried, None when      *)
(*          nothing of it was taken (its bit in bmap is off), or Ignored   *)
(*          when a verified message was seen but not counted;              *)
(*   c      the correct value ("c" in the code), or None while unknown;    *)
(*   forced TRUE once make_complete() overwrote the counter.               *)
(***************************************************************************)
EXTENDS Naturals, FiniteSets

CONSTANTS
  Replicas,  \* the n = 3f+1 replicas
  F,         \* node->f(), the number of faulty replicas tolerated
  None,      \* nullptr: no value, no vote
  Ignored    \* the bitmap bit of a replica whose message was not counted

ASSUME ReplicasAssumption ==
  /\ IsFiniteSet(Replicas)
  /\ F \in Nat \ {0}
  /\ Cardinality(Replicas) = 3 * F + 1

ASSUME MarksAssumption == None # Ignored

Certificates(V) ==
  [votes: [Replicas -> V \cup {None, Ignored}], c: V \cup {None}, forced: BOOLEAN]

EmptyCert ==
  [votes |-> [i \in Replicas |-> None], c |-> None, forced |-> FALSE]

(* The replicas whose counted message carried v. *)
Voters(cert, v) == {i \in Replicas : cert.votes[i] = v}

(* The distinct values held, i.e. the contents of vals while c is unknown. *)
Held(cert) == {cert.votes[i] : i \in Replicas} \ {None, Ignored}

(* is_complete(): the correct value has at least k messages. *)
IsComplete(cert, k) ==
  /\ cert.c # None
  /\ cert.forced \/ Cardinality(Voters(cert, cert.c)) >= k

(* add() takes a verified message of i with value v: i has no message yet   *)
(* and v agrees with the correct value, if that is known and not complete.  *)
Admits(cert, k, i, v) ==
  /\ cert.votes[i] = None
  /\ cert.c = None \/ (cert.c = v /\ ~IsComplete(cert, k))

(* ... but vals has only f+1 slots, for f+1 distinct values. *)
Overflows(cert, v) ==
  /\ cert.c = None
  /\ v \notin Held(cert)
  /\ Cardinality(Held(cert)) > F

(* add() returned true. *)
Added_always(cert, k, i, v) == TRUE  \* mutant
Added(cert, k, i, v) == Admits(cert, k, i, v) /\ ~Overflows(cert, v)

AddVote(cert, k, i, v) ==
  CASE cert.votes[i] # None      -> cert
    [] cert.votes[i] = None /\ ~Admits(cert, k, i, v) ->
         [cert EXCEPT !.votes[i] = Ignored]
    [] Admits(cert, k, i, v) /\ Overflows(cert, v)    -> EmptyCert
    [] Added(cert, k, i, v)      ->
         [cert EXCEPT !.votes[i] = v,
                      !.c = IF @ = None /\ Cardinality(Voters(cert, v)) < F
                            THEN None ELSE v]

(* add_mine() is refused only when another value is known to be correct. *)
MineFits(cert, v) == cert.c \in {None, v}

AddMyVote(cert, me, v) ==
  IF MineFits(cert, v) THEN [cert EXCEPT !.votes[me] = v, !.c = v] ELSE cert

(* mine() *)
Mine(cert, me) == cert.votes[me]

(* mark_stale(): an incomplete certificate keeps only my own message. *)
MarkStale(cert, k, me) ==
  IF IsComplete(cert, k) THEN cert
  ELSE [EmptyCert EXCEPT !.votes[me] = cert.votes[me], !.c = cert.votes[me]]

(* make_complete() *)
MakeComplete(cert) == IF cert.c = None THEN cert ELSE [cert EXCEPT !.forced = TRUE]
=============================================================================
