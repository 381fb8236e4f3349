--------------------------- MODULE Replica_proofs ---------------------------
(***************************************************************************)
(* What a correct replica keeps true of itself, whatever the others send:  *)
(* its counters tell the truth about its state, it logs each of its own    *)
(* messages once and stays within its window.  For any number of replicas, *)
(* any window, checkpoint interval and bounds.                             *)
(*                                                                         *)
(* Every operation of Replica has a lemma about the fields it changes; the *)
(* parts of the invariant are then followed through the handlers and       *)
(* through the calls that a handler leaves to be made.  The second half    *)
(* is about several replicas: that the correct ones agree.                 *)
(***************************************************************************)
EXTENDS Replica, FiniteSetTheorems, SequenceTheorems, TLAPS

-----------------------------------------------------------------------------
(* Certificates: what the operations of VoteSet keep, for any values and any *)
(* number k of messages that completes one.  me is the owner; its own vote   *)
(* is a value or missing, never Ignored.                                     *)

OwnedBy(me, V) == {cert \in Certificates(V) : cert.votes[me] \in V \cup {None}}

(* The fields of a certificate. *)
LEMMA CertFields ==
  ASSUME NEW V, NEW cert \in Certificates(V)
  PROVE  /\ cert.votes \in [Replicas -> V \cup {None, Ignored}]
         /\ cert.c \in V \cup {None}
         /\ cert.forced \in BOOLEAN
BY DEF Certificates

(* A new certificate has no message of anyone. *)
LEMMA EmptyCertType ==
  ASSUME NEW V, NEW me \in Replicas
  PROVE  /\ EmptyCert \in OwnedBy(me, V)
         /\ EmptyCert.c = None /\ ~EmptyCert.forced
         /\ \A i \in Replicas : EmptyCert.votes[i] = None
         /\ Mine(EmptyCert, me) = None
BY DEF EmptyCert, OwnedBy, Certificates, Mine

(* What add() may do with the message of i: nothing, clear the certificate, *)
(* ignore the message, or count it.                                         *)
AddVoteOutcome(V, cert, k, i, v, new) ==
  \/ cert.votes[i] # None /\ new = cert
  \/ Admits(cert, k, i, v) /\ new = EmptyCert
  \/ /\ cert.votes[i] = None /\ ~Admits(cert, k, i, v)
     /\ new \in Certificates(V) /\ new.c = cert.c /\ new.forced = cert.forced
     /\ \A j \in Replicas : new.votes[j] = IF j = i THEN Ignored ELSE cert.votes[j]
  \/ /\ Added(cert, k, i, v)
     /\ new \in Certificates(V) /\ new.c \in {None, v} /\ new.forced = cert.forced
     /\ \A j \in Replicas : new.votes[j] = IF j = i THEN v ELSE cert.votes[j]

(* add() does one of these. *)
LEMMA AddVoteCases ==
  ASSUME NEW V, NEW cert \in Certificates(V), NEW k, NEW i \in Replicas, NEW v \in V
  PROVE  AddVoteOutcome(V, cert, k, i, v, AddVote(cert, k, i, v))
<1> DEFINE new == AddVote(cert, k, i, v)
<1> USE DEF AddVoteOutcome
<1>1. CASE cert.votes[i] # None
  BY <1>1 DEF AddVote, Admits, Added
<1>2. CASE cert.votes[i] = None /\ ~Admits(cert, k, i, v)
  <2>1. new = [cert EXCEPT !.votes[i] = Ignored]
    BY <1>2 DEF AddVote, Added
  <2> QED BY <1>2, <2>1 DEF Certificates
<1>3. CASE Admits(cert, k, i, v) /\ Overflows(cert, v)
  BY <1>3 DEF AddVote, Admits, Added
<1>4. CASE Added(cert, k, i, v)
  <2>1. new = [cert EXCEPT !.votes[i] = v,
                           !.c = IF @ = None /\ Cardinality(Voters(cert, v)) < F
                                 THEN None ELSE v]
    BY <1>4 DEF AddVote, Admits, Added
  <2>2. \E c \in {None, v} : new = [cert EXCEPT !.votes[i] = v, !.c = c]
    BY <2>1
  <2>3. /\ new \in Certificates(V) /\ new.c \in {None, v} /\ new.forced = cert.forced
        /\ \A j \in Replicas : new.votes[j] = IF j = i THEN v ELSE cert.votes[j]
    BY <2>2 DEF Certificates
  <2> QED BY <1>4, <2>3
<1> QED BY <1>1, <1>2, <1>3, <1>4 DEF Added

(* add() of another replica's message: my message stays or goes, it does    *)
(* not change; every other vote was there before or is the one added.       *)
AddedTo(V, me, cert, i, v, new) ==
  /\ new \in OwnedBy(me, V)
  /\ new.votes[me] \in {None, cert.votes[me]}
  /\ new.forced => cert.forced
  /\ \A j \in Replicas : new.votes[j] \notin {None, cert.votes[j]} =>
                           j = i /\ new.votes[j] \in {v, Ignored}

(* AddVote() keeps the type, the own vote and what the others voted. *)
LEMMA AddVoteType ==
  ASSUME NEW V, NEW me \in Replicas, NEW cert \in OwnedBy(me, V), NEW k,
         NEW i \in Replicas \ {me}, NEW v \in V
  PROVE  AddedTo(V, me, cert, i, v, AddVote(cert, k, i, v))
<1> USE DEF AddedTo
<1> DEFINE new == AddVote(cert, k, i, v)
<1>0. /\ cert \in Certificates(V) /\ cert.votes[me] \in V \cup {None}
      /\ cert.votes \in [Replicas -> V \cup {None, Ignored}]
  BY CertFields DEF OwnedBy
<1>1. CASE new = cert
  BY <1>1
<1>2. CASE new = EmptyCert
  BY <1>2, EmptyCertType
<1>3. CASE /\ new \in Certificates(V) /\ new.forced = cert.forced
           /\ \E w \in {v, Ignored} :
                \A j \in Replicas : new.votes[j] = IF j = i THEN w ELSE cert.votes[j]
  BY <1>0, <1>3 DEF OwnedBy
<1>4. AddVoteOutcome(V, cert, k, i, v, new)
  BY <1>0, AddVoteCases
<1> HIDE DEF new
<1> QED BY <1>0, <1>1, <1>2, <1>3, <1>4 DEF AddVoteOutcome, new

(* A complete certificate stays complete, with the same correct value, and  *)
(* add() returns false.                                                     *)
LEMMA AddVoteComplete ==
  ASSUME NEW V, NEW cert \in Certificates(V), NEW k, NEW i \in Replicas, NEW v \in V,
         Ignored \notin V, IsComplete(cert, k), NEW new, new = AddVote(cert, k, i, v)
  PROVE  /\ ~Added(cert, k, i, v)
         /\ IsComplete(new, k)
         /\ new.c = cert.c
<1>1. ~Admits(cert, k, i, v) /\ ~Added(cert, k, i, v)
  BY DEF Admits, Added, IsComplete
<1>2. CASE new = cert
  BY <1>1, <1>2
<1>3. CASE /\ new.c = cert.c /\ new.forced = cert.forced
           /\ cert.votes[i] = None
           /\ \A j \in Replicas : new.votes[j] = IF j = i THEN Ignored ELSE cert.votes[j]
  <2>1. cert.c # None /\ cert.c # Ignored
    BY MarksAssumption DEF IsComplete, Certificates
  <2>2. Voters(new, new.c) = Voters(cert, cert.c)
    BY <1>3, <2>1, CertFields DEF Voters
  <2> QED BY <1>1, <1>3, <2>2 DEF IsComplete
<1>4. AddVoteOutcome(V, cert, k, i, v, new)
  BY AddVoteCases
<1> QED BY <1>1, <1>2, <1>3, <1>4 DEF AddVoteOutcome

(* add_mine(): refused when another value is known to be correct.           *)
LEMMA AddMyVoteType ==
  ASSUME NEW V, NEW me \in Replicas, NEW cert \in OwnedBy(me, V), NEW v \in V
  PROVE  LET new == AddMyVote(cert, me, v)
         IN  /\ new \in OwnedBy(me, V)
             /\ new.votes[me] \in {v, cert.votes[me]}
             /\ new.forced = cert.forced
             /\ \A j \in Replicas \ {me} : new.votes[j] = cert.votes[j]
BY DEF AddMyVote, OwnedBy, Certificates

(* mark_stale() keeps my message and no other vote that was not there.      *)
LEMMA MarkStaleType ==
  ASSUME NEW V, NEW me \in Replicas, NEW cert \in OwnedBy(me, V), NEW k
  PROVE  LET new == MarkStale(cert, k, me)
         IN  /\ new \in OwnedBy(me, V)
             /\ new.votes[me] = cert.votes[me]
             /\ new.forced => cert.forced
             /\ \A j \in Replicas : new.votes[j] \in {None, cert.votes[j]}
<1>1. CASE IsComplete(cert, k)
  BY <1>1 DEF MarkStale
<1>2. CASE ~IsComplete(cert, k)
  BY <1>2, EmptyCertType DEF MarkStale, OwnedBy, Certificates, EmptyCert
<1> QED BY <1>1, <1>2

(* make_complete() touches no vote.                                         *)
LEMMA MakeCompleteType ==
  ASSUME NEW V, NEW me \in Replicas, NEW cert \in OwnedBy(me, V)
  PROVE  /\ MakeComplete(cert) \in OwnedBy(me, V)
         /\ MakeComplete(cert).votes = cert.votes
BY DEF MakeComplete, OwnedBy, Certificates

-----------------------------------------------------------------------------
(* The replica. *)

(* What replicas that are not modelled claim about the state is not         *)
(* believed unless more than f of them say so; then it has as many batches  *)
(* as its number says.  This holds whenever at most f replicas are faulty   *)
(* and all the correct ones are modelled.                                   *)
ClaimsPlausible ==
  \A c \in Seqnos, h \in Seq(Digests) :
    Cardinality({i \in Replicas \ Correct : <<c, h>> \in Claims[i].md}) > F => Len(h) = c
-----------------------------------------------------------------------------
(* The invariant of the state x of one correct replica r. *)
Prepareds(r) == [pp: Digests \cup {None}, pc: OwnedBy(r, Digests)]

Fields ==
  {"id", "seqno", "last_stable", "last_executed", "last_tentative_execute", "plog", "clog",
   "elog", "sset", "rqueue", "lc", "fetching", "state", "calls", "sent", "fetched",
   "relogged", "stopped"}

Shape(x) == x = [f \in Fields |-> x[f]]

NumbersOK(x) ==
  /\ x.seqno \in 0..MaxSeqno /\ x.last_stable \in 0..MaxSeqno
  /\ x.last_executed \in 0..MaxSeqno /\ x.last_tentative_execute \in 0..MaxSeqno
  /\ x.lc \in -1..MaxSeqno

FlagsOK(x) ==
  x.rqueue \in BOOLEAN /\ x.fetching \in BOOLEAN /\ x.relogged \in BOOLEAN /\ x.stopped \in BOOLEAN

LogsOK(x) ==
  /\ x.plog \in [Seqnos -> Prepareds(x.id)]
  /\ x.clog \in [Seqnos -> OwnedBy(x.id, {OK})]
  /\ x.elog \in [Checkpoints -> OwnedBy(x.id, Seq(Digests))]
  /\ x.sset \in [Replicas -> {None} \cup (Checkpoints \X Seq(Digests))]

DataOK(x) == x.state \in Seq(Digests) /\ x.calls \in Seq(Frames) /\ x.sent \in Messages

Typed(x) ==
  x.id \in Replicas /\ Shape(x) /\ NumbersOK(x) /\ FlagsOK(x) /\ LogsOK(x) /\ DataOK(x)

(* The state holds what was executed, and lc is the last checkpoint passed. *)
CountersOK(x) ==
  /\ Len(x.state) = x.last_tentative_execute
  /\ x.last_executed <= x.last_tentative_execute
  /\ x.last_tentative_execute <= x.last_executed + 1
  /\ x.lc <= x.last_tentative_execute
  /\ x.lc >= 0 => \A c \in Checkpoints : c <= x.lc \/ c > x.last_tentative_execute
  /\ x.fetching => x.last_tentative_execute = x.last_executed

(* A checkpoint holds as many batches as its number says. *)
TakenOK(x) == \A v \in x.sent.md : Len(v[2]) = v[1]

(* I commit what I prepared, propose each number once, and have checkpoint  *)
(* messages of what I executed only.                                        *)
OwnOK(x) ==
  /\ \A n \in Seqnos : Mine(x.clog[n], x.id) # None => prepared_complete(x.plog[n])
  /\ x.id = Primary => \A n \in Seqnos : n > x.seqno => x.plog[n].pp = None
  /\ \A n \in Checkpoints : Mine(x.elog[n], x.id) # None => n <= x.last_executed
  /\ x.sset[x.id] = None
  /\ ~x.relogged

(* I am within my window, or about to move it. *)
RoomOK(x) ==
  /\ x.seqno <= x.last_stable + max_out
  /\ \/ x.last_tentative_execute <= x.last_stable + max_out
     \/ /\ x.calls # << >> /\ x.calls[1].op = "mark_stable"
        /\ x.last_tentative_execute <= x.calls[1].n + max_out

(* The calls to be made: mark_stable() and its walk over sset are only ever *)
(* the first, and new_state() the last one.                                 *)
Walks == {"mark_stable", "transfer_sset"}

CallsOK(x) ==
  \A k \in 1..Len(x.calls) :
    LET f == x.calls[k]
    IN  /\ f.op \in Walks => k = 1 /\ f.n \in Seqnos
        /\ f.op = "mark_stable" /\ f.flag => f.n \in Checkpoints /\ f.n <= x.last_executed
        /\ f.op = "transfer_sset" /\ f.n > x.last_stable => f.n \in Checkpoints
        /\ f.op \in {"new_state", "new_state_end"} =>
             f.n \in Checkpoints /\ f.n <= x.last_executed
        /\ f.op = "new_state" => k = Len(x.calls) /\ \A j \in 1..(k - 1) : x.calls[j].op \in Walks

(* new_state() will log a checkpoint message that is not there yet. *)
PendingOK(x) ==
  \A k \in 1..Len(x.calls) : x.calls[k].op = "new_state" =>
    /\ x.calls[k].flag => Mine(x.elog[x.calls[k].n], x.id) = None
    /\ x.calls[1].op = "mark_stable" /\ x.calls[1].flag =>
         Mine(x.elog[x.calls[1].n], x.id) # None

LocalInv(x) ==
  CountersOK(x) /\ TakenOK(x) /\ OwnOK(x) /\ RoomOK(x) /\ CallsOK(x) /\ PendingOK(x)

LInv == /\ keys \in 0..MaxKeys
        /\ rep = [r \in Correct |-> rep[r]]
        /\ \A r \in Correct : rep[r].id = r /\ Typed(rep[r]) /\ LocalInv(rep[r])
-----------------------------------------------------------------------------
(* All fields but those in S are the same in y as in x. *)
Same(x, y, S) == \A f \in Fields \ S : y[f] = x[f]

MessageKinds == {"pp", "p", "c", "k", "md"}
SentSame(x, y, S) == \A f \in MessageKinds \ S : y.sent[f] = x.sent[f]

(* Sequence numbers are numbers, and checkpoints have sequence numbers. *)
LEMMA SeqnosAreNumbers ==
  /\ MaxSeqno \in Nat /\ max_out \in Nat /\ max_out > 0 /\ checkpoint_interval \in Nat \ {0}
  /\ Seqnos \subseteq Nat /\ \A n \in Seqnos : n > 0 /\ n <= MaxSeqno
  /\ Checkpoints \subseteq Seqnos /\ Checkpoints \subseteq Nat
  /\ \A n \in Nat : n > 0 /\ n <= MaxSeqno => n \in Seqnos
  /\ \A n \in Seqnos : n \in Checkpoints <=> n % checkpoint_interval = 0
BY ReplicaAssumption DEF Seqnos, Checkpoints

(* checkpoint() changes lc and the checkpoints kept. *)
LEMMA CheckpointFields ==
  ASSUME NEW x, Typed(x), NEW n \in 0..MaxSeqno, NEW y, y = checkpoint(x, n)
  PROVE  /\ Shape(y) /\ Same(x, y, {"lc", "sent"}) /\ y.lc = n
         /\ y.sent \in Messages /\ SentSame(x, y, {"md"})
         /\ y.sent.md = IF n \in Checkpoints THEN x.sent.md \cup {<<n, x.state>>} ELSE x.sent.md
<1> DEFINE md == IF n \in Checkpoints THEN x.sent.md \cup {<<n, x.state>>} ELSE x.sent.md
<1>0. Checkpoints \subseteq Seqnos
  BY DEF Checkpoints
<1>1. x.sent \in Messages /\ x.state \in Seq(Digests) /\ Shape(x)
  BY DEF Typed, DataOK
<1>2. md \in SUBSET (Seqnos \X Seq(Digests))
  BY <1>0, <1>1 DEF Messages
<1>3. y = [x EXCEPT !.lc = n, !.sent.md = md]
  BY DEF checkpoint
<1> HIDE DEF md
<1>4. y = [x EXCEPT !.lc = n, !.sent = [x.sent EXCEPT !.md = md]]
  BY <1>3
<1>5. /\ Shape(y) /\ Same(x, y, {"lc", "sent"}) /\ y.lc = n
      /\ y.sent = [x.sent EXCEPT !.md = md]
  BY <1>1, <1>4 DEF Shape, Same, Fields
<1>6. y.sent \in Messages /\ SentSame(x, y, {"md"}) /\ y.sent.md = md
  BY <1>1, <1>2, <1>5 DEF Messages, SentSame, MessageKinds
<1> QED BY <1>5, <1>6 DEF md

(* discard_checkpoint() may forget the last checkpoint. *)
LEMMA DiscardFields ==
  ASSUME NEW x, Typed(x), NEW y, y = discard_checkpoint(x), y # x
  PROVE  /\ x.last_stable > x.lc /\ x.last_executed > x.lc /\ x.lc >= 0
         /\ Shape(y) /\ Same(x, y, {"lc", "sent"}) /\ y.lc = -1
         /\ y.sent \in Messages /\ SentSame(x, y, {"md"})
         /\ \A v \in y.sent.md : v \in x.sent.md \/ (x.last_executed \in Checkpoints /\ v = <<x.last_executed, x.state>>)
<1>1. /\ x.last_stable > x.lc /\ x.last_executed > x.lc /\ x.lc >= 0
      /\ y = [checkpoint(x, x.last_executed) EXCEPT !.lc = -1]
  BY DEF discard_checkpoint
<1>2. PICK z : z = checkpoint(x, x.last_executed)
  OBVIOUS
<1>3. /\ Shape(z) /\ Same(x, z, {"lc", "sent"}) /\ z.sent \in Messages /\ SentSame(x, z, {"md"})
      /\ z.sent.md = IF x.last_executed \in Checkpoints
                     THEN x.sent.md \cup {<<x.last_executed, x.state>>} ELSE x.sent.md
  BY <1>2, CheckpointFields DEF Typed, NumbersOK
<1>4. Shape(y) /\ Same(z, y, {"lc"}) /\ y.lc = -1
  BY <1>1, <1>2, <1>3 DEF Shape, Same, Fields
<1>5. y.sent = z.sent /\ Same(x, y, {"lc", "sent"})
  BY <1>3, <1>4 DEF Same, Fields
<1> QED BY <1>1, <1>3, <1>4, <1>5 DEF SentSame, MessageKinds

(* rollback() returns to the last checkpoint, or fails. *)
LEMMA RollbackFields ==
  ASSUME NEW x, Typed(x), NEW y, y = rollback(x)
  PROVE  \/ Shape(y) /\ Same(x, y, {"stopped"}) /\ y.stopped = TRUE
         \/ /\ x.lc >= 0 /\ ~x.fetching
            /\ Shape(y) /\ Same(x, y, {"state", "last_executed", "last_tentative_execute"})
            /\ y.state = prefix(x, x.lc)
            /\ y.last_executed = x.lc /\ y.last_tentative_execute = x.lc
<1>1. CASE x.lc < 0 \/ x.fetching
  BY <1>1 DEF rollback, Typed, Shape, Same, Fields
<1>2. CASE ~(x.lc < 0 \/ x.fetching)
  <2>1. y = [x EXCEPT !.state = prefix(x, x.lc), !.last_executed = x.lc,
                      !.last_tentative_execute = x.lc]
    BY <1>2 DEF rollback
  <2>2. /\ Shape(y) /\ Same(x, y, {"state", "last_executed", "last_tentative_execute"})
        /\ y.state = prefix(x, x.lc)
        /\ y.last_executed = x.lc /\ y.last_tentative_execute = x.lc
    BY <2>1 DEF Typed, Shape, Same, Fields
  <2>3. x.lc >= 0 /\ ~x.fetching
    BY <1>2, ReplicaAssumption DEF Typed, NumbersOK
  <2> QED BY <2>2, <2>3
<1> QED BY <1>1, <1>2

(* start_fetch() takes a checkpoint of what was executed since the last. *)
LEMMA StartFetchFields ==
  ASSUME NEW x, Typed(x), NEW y, y = start_fetch(x)
  PROVE  \/ (x.fetching \/ x.stopped) /\ y = x
         \/ /\ Shape(y) /\ Same(x, y, {"lc", "sent", "fetching"}) /\ y.fetching = TRUE
            /\ y.lc \in {x.lc, x.last_executed}
            /\ x.lc < 0 => y.lc = x.lc
            /\ y.sent \in Messages /\ SentSame(x, y, {"md"})
            /\ \A v \in y.sent.md : v \in x.sent.md \/ (x.last_executed \in Checkpoints /\ v = <<x.last_executed, x.state>>)
<1>1. CASE x.fetching \/ x.stopped
  BY <1>1 DEF start_fetch
<1>2. CASE ~(x.fetching \/ x.stopped) /\ 0 <= x.lc /\ x.lc < x.last_executed
  <2>1. y = [checkpoint(x, x.last_executed) EXCEPT !.fetching = TRUE]
    BY <1>2 DEF start_fetch
  <2>2. PICK z : z = checkpoint(x, x.last_executed)
    OBVIOUS
  <2>3. /\ Shape(z) /\ Same(x, z, {"lc", "sent"}) /\ z.sent \in Messages /\ SentSame(x, z, {"md"})
        /\ z.lc = x.last_executed
        /\ z.sent.md = IF x.last_executed \in Checkpoints
                       THEN x.sent.md \cup {<<x.last_executed, x.state>>} ELSE x.sent.md
    BY <2>2, CheckpointFields DEF Typed, NumbersOK
  <2>4. Shape(y) /\ Same(z, y, {"fetching"}) /\ y.fetching = TRUE
    BY <2>1, <2>2, <2>3 DEF Shape, Same, Fields
  <2>5. y.sent = z.sent /\ y.lc = z.lc /\ Same(x, y, {"lc", "sent", "fetching"})
    BY <2>3, <2>4 DEF Same, Fields
  <2> QED BY <1>2, <2>3, <2>4, <2>5 DEF SentSame, MessageKinds, Typed, NumbersOK
<1>3. CASE ~(x.fetching \/ x.stopped) /\ ~(0 <= x.lc /\ x.lc < x.last_executed)
  <2>1. y = [x EXCEPT !.fetching = TRUE]
    BY <1>3 DEF start_fetch
  <2>2. Shape(y) /\ Same(x, y, {"fetching"}) /\ y.fetching = TRUE
    BY <2>1 DEF Typed, Shape, Same, Fields
  <2>3. y.lc = x.lc /\ y.sent = x.sent /\ Same(x, y, {"lc", "sent", "fetching"})
    BY <2>2 DEF Same, Fields
  <2> QED BY <2>2, <2>3 DEF SentSame, MessageKinds, Typed, DataOK
<1> QED BY <1>1, <1>2, <1>3

(* Return() takes the first call away, and Call() puts calls before the     *)
(* others.                                                                  *)
LEMMA ReturnFields ==
  ASSUME NEW x, Typed(x), x.calls # << >>, NEW y, y = Return(x)
  PROVE  /\ Shape(y) /\ Same(x, y, {"calls"}) /\ y.calls \in Seq(Frames)
         /\ Len(y.calls) = Len(x.calls) - 1 /\ Len(x.calls) \in Nat \ {0}
         /\ \A k \in 1..Len(y.calls) : y.calls[k] = x.calls[k + 1]
<1>1. x.calls \in Seq(Frames) /\ Shape(x)
  BY DEF Typed, DataOK
<1>2. Shape(y) /\ Same(x, y, {"calls"}) /\ y.calls = Tail(x.calls)
  BY <1>1 DEF Return, Shape, Same, Fields
<1>3. /\ Tail(x.calls) \in Seq(Frames) /\ Len(Tail(x.calls)) = Len(x.calls) - 1
      /\ \A k \in 1..Len(Tail(x.calls)) : Tail(x.calls)[k] = x.calls[k + 1]
      /\ Len(x.calls) \in Nat \ {0}
  BY <1>1, HeadTailProperties, EmptySeq, LenProperties
<1> QED BY <1>2, <1>3

(* One call before the others. *)
LEMMA CallFields ==
  ASSUME NEW x, Typed(x), NEW f \in Frames, NEW y, y = Call(x, <<f>>)
  PROVE  /\ Shape(y) /\ Same(x, y, {"calls"}) /\ y.calls \in Seq(Frames)
         /\ Len(y.calls) = Len(x.calls) + 1 /\ y.calls[1] = f
         /\ \A k \in 2..Len(y.calls) : y.calls[k] = x.calls[k - 1]
<1>1. x.calls \in Seq(Frames) /\ Shape(x) /\ <<f>> \in Seq(Frames) /\ Len(<<f>>) = 1 /\ <<f>>[1] = f
  BY DEF Typed, DataOK
<1>2. Shape(y) /\ Same(x, y, {"calls"}) /\ y.calls = <<f>> \o x.calls
  BY <1>1 DEF Call, Shape, Same, Fields
<1>3. /\ <<f>> \o x.calls \in Seq(Frames) /\ Len(<<f>> \o x.calls) = 1 + Len(x.calls)
      /\ \A k \in 1..Len(<<f>> \o x.calls) :
           (<<f>> \o x.calls)[k] = IF k <= 1 THEN <<f>>[k] ELSE x.calls[k - 1]
      /\ Len(x.calls) \in Nat
  BY <1>1, ConcatProperties, LenProperties
<1>4. Len(y.calls) = Len(x.calls) + 1 /\ y.calls[1] = f
  BY <1>1, <1>2, <1>3
<1>5. \A k \in 2..Len(y.calls) : y.calls[k] = x.calls[k - 1]
  BY <1>2, <1>3
<1> QED BY <1>2, <1>3, <1>4, <1>5

(* Some calls and then others. *)
LEMMA ConcatFrames ==
  ASSUME NEW p \in Seq(Frames), NEW r \in Seq(Frames), NEW q, q = p \o r
  PROVE  /\ q \in Seq(Frames) /\ Len(q) = Len(p) + Len(r)
         /\ \A k \in 1..Len(q) : q[k] = IF k <= Len(p) THEN p[k] ELSE r[k - Len(p)]
         /\ q \o << >> = q
<1>1. /\ p \o r \in Seq(Frames) /\ Len(p \o r) = Len(p) + Len(r)
      /\ \A k \in 1..Len(p) + Len(r) : (p \o r)[k] = IF k <= Len(p) THEN p[k] ELSE r[k - Len(p)]
  BY ConcatProperties, Zenon
<1>2. q \in Seq(Frames)
  BY <1>1
<1>3. q \o << >> = q
  BY <1>2, ConcatEmptySeq
<1> QED BY <1>1, <1>3

(* The frames are calls. *)
LEMMA FrameTypes ==
  ASSUME NEW n \in Nat, NEW b \in BOOLEAN
  PROVE  /\ execute_committed \in Frames /\ try_send_pre_prepare \in Frames
         /\ mark_stable(n, b) \in Frames /\ transfer_sset(n) \in Frames
         /\ new_state(n, b) \in Frames /\ new_state_end(n) \in Frames
BY DEF Frames, Frame, execute_committed, try_send_pre_prepare, mark_stable, transfer_sset,
       new_state, new_state_end

(* execute_prepared() executes the next batch tentatively, or nothing. *)
LEMMA ExecutePreparedFields ==
  ASSUME NEW x, Typed(x), NEW y, y = execute_prepared(x), NEW n, n = x.last_executed + 1
  PROVE  \/ ~executes(x, n) /\ y = x
         \/ /\ executes(x, n) /\ n \in Seqnos /\ x.plog[n].pp \in Digests
            /\ Shape(y) /\ Same(x, y, {"last_tentative_execute", "state", "lc", "sent"})
            /\ y.last_tentative_execute = n
            /\ y.state = Append(x.state, x.plog[n].pp)
            /\ y.sent \in Messages /\ SentSame(x, y, {"md"})
            /\ \/ n \in Checkpoints /\ y.lc = n /\ y.sent.md = x.sent.md \cup {<<n, y.state>>}
               \/ n \notin Checkpoints /\ y.lc = x.lc /\ y.sent.md = x.sent.md
<1>1. CASE ~executes(x, n)
  BY <1>1 DEF execute_prepared
<1>2. CASE executes(x, n)
  <2> DEFINE z == [x EXCEPT !.last_tentative_execute = n, !.state = Append(@, x.plog[n].pp)]
  <2>0. n \in Seqnos /\ prepared_complete(x.plog[n]) /\ x.plog[n].pp # None
    BY <1>2 DEF executes, prepared, prepared_complete
  <2>1. x.plog[n].pp \in Digests
    BY <2>0 DEF Typed, LogsOK, Prepareds
  <2>2. y = IF n % checkpoint_interval = 0 THEN checkpoint(z, n) ELSE z
    BY <1>2 DEF execute_prepared
  <2>3. /\ Shape(z) /\ Same(x, z, {"last_tentative_execute", "state"})
        /\ z.last_tentative_execute = n /\ z.state = Append(x.state, x.plog[n].pp)
    BY DEF Typed, Shape, Same, Fields
  <2> HIDE DEF z
  <2>4. n % checkpoint_interval = 0 <=> n \in Checkpoints
    BY <2>0 DEF Checkpoints
  <2>5. n \in 0..MaxSeqno
    BY <2>0, ReplicaAssumption DEF Seqnos
  <2>6. Typed(z) /\ z.sent = x.sent /\ z.lc = x.lc
    <3>1. z.state \in Seq(Digests)
      BY <2>1, <2>3 DEF Typed, DataOK
    <3>2. z.id = x.id /\ z.calls = x.calls /\ z.sent = x.sent /\ z.lc = x.lc
      BY <2>3 DEF Same, Fields
    <3>3. NumbersOK(z)
      BY <2>3, <2>5 DEF Typed, NumbersOK, Same, Fields
    <3>4. FlagsOK(z)
      BY <2>3 DEF Typed, FlagsOK, Same, Fields
    <3>5. LogsOK(z)
      BY <2>3 DEF Typed, LogsOK, Same, Fields
    <3> QED BY <2>3, <3>1, <3>2, <3>3, <3>4, <3>5 DEF Typed, DataOK
  <2>7. CASE n \in Checkpoints
    <3>1. y = checkpoint(z, n)
      BY <2>2, <2>4, <2>7
    <3>2. /\ Shape(y) /\ Same(z, y, {"lc", "sent"}) /\ y.lc = n
          /\ y.sent \in Messages /\ SentSame(z, y, {"md"})
          /\ y.sent.md = z.sent.md \cup {<<n, z.state>>}
      <4>1. /\ Shape(y) /\ Same(z, y, {"lc", "sent"}) /\ y.lc = n
            /\ y.sent \in Messages /\ SentSame(z, y, {"md"})
            /\ y.sent.md = IF n \in Checkpoints THEN z.sent.md \cup {<<n, z.state>>} ELSE z.sent.md
        BY <2>5, <2>6, <3>1, CheckpointFields
      <4> QED BY <2>7, <4>1
    <3>3. /\ Same(x, y, {"last_tentative_execute", "state", "lc", "sent"})
          /\ y.state = z.state /\ y.last_tentative_execute = n
      BY <2>3, <3>2 DEF Same, Fields
    <3>4. SentSame(x, y, {"md"})
      BY <2>6, <3>2 DEF SentSame, MessageKinds
    <3> QED BY <1>2, <2>0, <2>1, <2>3, <2>6, <2>7, <3>2, <3>3, <3>4
  <2>8. CASE n \notin Checkpoints
    <3>1. y = z
      BY <2>2, <2>4, <2>8
    <3>2. Same(x, y, {"last_tentative_execute", "state", "lc", "sent"})
      BY <2>3, <3>1 DEF Same, Fields
    <3>3. y.sent \in Messages /\ SentSame(x, y, {"md"})
      BY <2>6, <3>1 DEF SentSame, MessageKinds, Typed, DataOK
    <3> QED BY <1>2, <2>0, <2>1, <2>3, <2>6, <2>8, <3>1, <3>2, <3>3
  <2> QED BY <2>7, <2>8
<1> QED BY <1>1, <1>2

(* A part of the invariant is about some of the fields only. *)
Avoids(S, T) == \A f \in T : f \notin S

(* Fields that are not touched keep their types. *)
LEMMA KeepTypes ==
  ASSUME NEW x, NEW y, NEW S, Typed(x), Same(x, y, S), "id" \notin S
  PROVE  /\ y.id = x.id
         /\ Avoids(S, {"seqno", "last_stable", "last_executed", "last_tentative_execute", "lc"})
              => NumbersOK(y)
         /\ Avoids(S, {"rqueue", "fetching", "relogged", "stopped"}) => FlagsOK(y)
         /\ Avoids(S, {"plog", "clog", "elog", "sset"}) => LogsOK(y)
         /\ Avoids(S, {"state", "calls", "sent"}) => DataOK(y)
<1>1. y.id = x.id
  BY DEF Same, Fields
<1>2. ASSUME Avoids(S, {"seqno", "last_stable", "last_executed", "last_tentative_execute", "lc"})
      PROVE  NumbersOK(y)
  BY <1>2 DEF Same, Fields, Avoids, Typed, NumbersOK
<1>3. ASSUME Avoids(S, {"rqueue", "fetching", "relogged", "stopped"})
      PROVE  FlagsOK(y)
  BY <1>3 DEF Same, Fields, Avoids, Typed, FlagsOK
<1>4. ASSUME Avoids(S, {"plog", "clog", "elog", "sset"})
      PROVE  LogsOK(y)
  BY <1>1, <1>4 DEF Same, Fields, Avoids, Typed, LogsOK
<1>5. ASSUME Avoids(S, {"state", "calls", "sent"})
      PROVE  DataOK(y)
  BY <1>5 DEF Same, Fields, Avoids, Typed, DataOK
<1> QED BY <1>1, <1>2, <1>3, <1>4, <1>5

(* So do the parts of the invariant that are about other fields. *)
LEMMA KeepInvariant ==
  ASSUME NEW x, NEW y, NEW S, LocalInv(x), Same(x, y, S), "id" \notin S
  PROVE  /\ Avoids(S, {"state", "last_executed", "last_tentative_execute", "lc", "fetching"})
              => CountersOK(y)
         /\ Avoids(S, {"sent"}) => TakenOK(y)
         /\ Avoids(S, {"clog", "plog", "elog", "seqno", "last_executed", "sset", "relogged"})
              => OwnOK(y)
         /\ Avoids(S, {"seqno", "last_stable", "last_tentative_execute", "calls"}) => RoomOK(y)
         /\ Avoids(S, {"calls", "last_executed", "last_stable"}) => CallsOK(y)
         /\ Avoids(S, {"calls", "elog"}) => PendingOK(y)
<1>0. y.id = x.id
  BY DEF Same, Fields
<1>1. ASSUME Avoids(S, {"state", "last_executed", "last_tentative_execute", "lc", "fetching"})
      PROVE  CountersOK(y)
  BY <1>1 DEF Same, Fields, Avoids, LocalInv, CountersOK
<1>2. ASSUME Avoids(S, {"sent"}) PROVE TakenOK(y)
  BY <1>2 DEF Same, Fields, Avoids, LocalInv, TakenOK
<1>3. ASSUME Avoids(S, {"clog", "plog", "elog", "seqno", "last_executed", "sset", "relogged"})
      PROVE  OwnOK(y)
  BY <1>0, <1>3 DEF Same, Fields, Avoids, LocalInv, OwnOK
<1>4. ASSUME Avoids(S, {"seqno", "last_stable", "last_tentative_execute", "calls"})
      PROVE  RoomOK(y)
  BY <1>4 DEF Same, Fields, Avoids, LocalInv, RoomOK
<1>5. ASSUME Avoids(S, {"calls", "last_executed", "last_stable"}) PROVE CallsOK(y)
  BY <1>5 DEF Same, Fields, Avoids, LocalInv, CallsOK
<1>6. ASSUME Avoids(S, {"calls", "elog"}) PROVE PendingOK(y)
  BY <1>0, <1>6 DEF Same, Fields, Avoids, LocalInv, PendingOK
<1> QED BY <1>1, <1>2, <1>3, <1>4, <1>5, <1>6

Good(x) == Typed(x) /\ LocalInv(x)

(* Tentative execution keeps the invariant. *)
LEMMA ExecutePreparedGood ==
  ASSUME NEW x, Good(x), NEW y, y = execute_prepared(x)
  PROVE  /\ Good(y)
         /\ Same(x, y, {"last_tentative_execute", "state", "lc", "sent"})
         /\ y.last_tentative_execute >= x.last_tentative_execute
         /\ executes(x, x.last_executed + 1) => y.last_tentative_execute = x.last_executed + 1
<1> DEFINE n == x.last_executed + 1
           S == {"last_tentative_execute", "state", "lc", "sent"}
<1>0. Typed(x) /\ LocalInv(x)
  BY DEF Good
<1>1. CASE ~executes(x, n) /\ y = x
  BY <1>1, <1>0 DEF Same, Typed, NumbersOK
<1>2. CASE /\ executes(x, n) /\ n \in Seqnos /\ x.plog[n].pp \in Digests
           /\ Shape(y) /\ Same(x, y, S)
           /\ y.last_tentative_execute = n
           /\ y.state = Append(x.state, x.plog[n].pp)
           /\ y.sent \in Messages /\ SentSame(x, y, {"md"})
           /\ \/ n \in Checkpoints /\ y.lc = n /\ y.sent.md = x.sent.md \cup {<<n, y.state>>}
              \/ n \notin Checkpoints /\ y.lc = x.lc /\ y.sent.md = x.sent.md
  <2>0. /\ CountersOK(x) /\ x.state \in Seq(Digests) /\ x.last_executed \in 0..MaxSeqno
        /\ x.last_tentative_execute \in 0..MaxSeqno /\ x.last_stable \in 0..MaxSeqno
        /\ x.lc \in -1..MaxSeqno
    BY <1>0 DEF Typed, NumbersOK, DataOK, LocalInv
  <2>1. /\ y.last_executed = x.last_executed /\ y.last_stable = x.last_stable
        /\ y.fetching = x.fetching /\ y.seqno = x.seqno
    BY <1>2 DEF Same, Fields
  <2>2. x.last_tentative_execute < n /\ x.last_executed < x.last_stable + max_out /\ ~x.fetching
    BY <1>2 DEF executes
  <2>3. y.state \in Seq(Digests) /\ Len(y.state) = Len(x.state) + 1
    BY <1>2, <2>0
  <2>4. x.last_tentative_execute = x.last_executed /\ Len(y.state) = n
    BY <2>0, <2>2, <2>3, ReplicaAssumption DEF CountersOK
  <2>5. NumbersOK(y)
    BY <1>2, <1>0, <2>0, <2>1, ReplicaAssumption DEF Seqnos, NumbersOK, Typed
  <2>6. y.calls = x.calls /\ y.sent \in Messages
    BY <1>2 DEF Same, Fields
  <2>7. Typed(y)
    <3>1. y.id = x.id /\ FlagsOK(y) /\ LogsOK(y)
      BY <1>0, <1>2, KeepTypes DEF Avoids
    <3> QED BY <1>0, <1>2, <2>3, <2>5, <2>6, <3>1 DEF Typed, DataOK
  <2>8. CountersOK(y)
    BY <1>2, <2>0, <2>1, <2>2, <2>4, SeqnosAreNumbers DEF CountersOK
  <2>9. TakenOK(y)
    <3>1. \A v \in y.sent.md : v \in x.sent.md \/ v = <<n, y.state>>
      BY <1>2
    <3>2. Len(<<n, y.state>>[2]) = <<n, y.state>>[1]
      BY <2>4
    <3> QED BY <1>0, <3>1, <3>2 DEF TakenOK, LocalInv
  <2>10. OwnOK(y) /\ CallsOK(y) /\ PendingOK(y)
    BY <1>0, <1>2, KeepInvariant DEF Avoids
  <2>11. RoomOK(y)
    BY <1>0, <1>2, <2>0, <2>1, <2>2, ReplicaAssumption DEF RoomOK, LocalInv
  <2> QED BY <1>2, <2>0, <2>4, <2>7, <2>8, <2>9, <2>10, <2>11 DEF Good, LocalInv
<1>3. <1>1!1 \/ <1>2!1
  BY <1>0, ExecutePreparedFields
<1> QED BY <1>1, <1>2, <1>3

(* A handler, or a call it made, leaves a call to be made first:            *)
(* execute_committed(), or mark_stable() of a checkpoint that was executed. *)
LEMMA FirstCallGood ==
  ASSUME NEW x, Good(x), x.calls = << >> \/ x.calls[1].op \notin Walks \cup {"new_state"},
         NEW f \in Frames,
         \/ f.op = "execute_committed"
         \/ f.op = "mark_stable" /\ f.n \in Checkpoints /\ f.n <= x.last_executed,
         NEW y, y = Call(x, <<f>>)
  PROVE  Good(y) /\ Same(x, y, {"calls"})
<1>0. Typed(x) /\ LocalInv(x) /\ Len(x.calls) \in Nat /\ (x.calls = << >> => Len(x.calls) = 0)
  BY LenProperties DEF Good, Typed, DataOK
<1>1. /\ Shape(y) /\ Same(x, y, {"calls"}) /\ y.calls \in Seq(Frames)
      /\ Len(y.calls) = Len(x.calls) + 1 /\ y.calls[1] = f
      /\ \A k \in 2..Len(y.calls) : y.calls[k] = x.calls[k - 1]
  BY <1>0, CallFields
<1>2. /\ y.last_executed = x.last_executed /\ y.last_stable = x.last_stable /\ y.seqno = x.seqno
      /\ y.last_tentative_execute = x.last_tentative_execute /\ y.state = x.state /\ y.sent = x.sent
  BY <1>1 DEF Same, Fields
<1>3. Typed(y)
  <2>1. y.id = x.id /\ NumbersOK(y) /\ FlagsOK(y) /\ LogsOK(y)
    BY <1>0, <1>1, KeepTypes DEF Avoids
  <2> QED BY <1>0, <1>1, <1>2, <2>1 DEF Typed, DataOK
<1>4. CountersOK(y) /\ TakenOK(y) /\ OwnOK(y)
  BY <1>0, <1>1, KeepInvariant DEF Avoids
<1>5. RoomOK(y)
  BY <1>0, <1>2 DEF RoomOK, LocalInv, Walks
<1>6. \A k \in 1..Len(x.calls) : x.calls[k].op \notin Walks \cup {"new_state"}
  <2> SUFFICES ASSUME NEW k \in 1..Len(x.calls), x.calls # << >>,
                      x.calls[1].op \notin Walks \cup {"new_state"}
               PROVE  x.calls[k].op \notin Walks \cup {"new_state"}
    BY <1>0
  <2>1. CallsOK(x) /\ (k # 1 => 1 \in 1..(k - 1))
    BY <1>0 DEF LocalInv
  <2> QED BY <2>1 DEF CallsOK
<1>7. \A k \in 1..Len(y.calls) :
        \/ k = 1 /\ y.calls[k] = f
        \/ /\ y.calls[k] = x.calls[k - 1] /\ k - 1 \in 1..Len(x.calls)
           /\ y.calls[k].op \notin Walks \cup {"new_state"}
  BY <1>0, <1>1, <1>6
<1>8. CallsOK(y)
  <2>1. ASSUME NEW k \in 1..Len(y.calls)
        PROVE  LET g == y.calls[k]
               IN  /\ g.op \in Walks => k = 1 /\ g.n \in Seqnos
                   /\ g.op = "mark_stable" /\ g.flag => g.n \in Checkpoints /\ g.n <= y.last_executed
                   /\ g.op # "new_state"
                   /\ g.op = "transfer_sset" /\ g.n > y.last_stable => g.n \in Checkpoints
                   /\ g.op = "new_state_end" => g.n \in Checkpoints /\ g.n <= y.last_executed
    <3>1. CASE k = 1 /\ y.calls[k] = f
      BY <1>2, <3>1, SeqnosAreNumbers DEF Walks
    <3>2. CASE /\ y.calls[k] = x.calls[k - 1] /\ k - 1 \in 1..Len(x.calls)
               /\ y.calls[k].op \notin Walks \cup {"new_state"}
      BY <1>0, <1>2, <3>2 DEF Walks, CallsOK, LocalInv
    <3> QED BY <1>7, <3>1, <3>2
  <2> QED BY <2>1 DEF CallsOK, Walks
<1>9. PendingOK(y)
  BY <1>1, <1>7 DEF PendingOK
<1> QED BY <1>1, <1>3, <1>4, <1>5, <1>8, <1>9 DEF Good, LocalInv

(* send_commit() logs a commit message that was not there. *)
LEMMA SendCommitGood ==
  ASSUME NEW x, Good(x), x.calls = << >>, NEW n \in Seqnos,
         prepared_complete(x.plog[n]), Mine(x.clog[n], x.id) = None,
         NEW y, y = send_commit(x, n)
  PROVE  Good(y) /\ y.id = x.id
<1>0. Typed(x) /\ LocalInv(x)
  BY DEF Good
<1>1. PICK e : e = IF n = x.last_executed + 1 THEN execute_prepared(x) ELSE x
  OBVIOUS
<1>2. Good(e) /\ Same(x, e, {"last_tentative_execute", "state", "lc", "sent"})
  <2>1. CASE n = x.last_executed + 1
    BY <1>1, <2>1, ExecutePreparedGood
  <2>2. CASE n # x.last_executed + 1
    BY <1>1, <2>2 DEF Same
  <2> QED BY <2>1, <2>2
<1>3. /\ e.id = x.id /\ e.plog = x.plog /\ e.clog = x.clog /\ e.calls = << >>
      /\ Typed(e) /\ LocalInv(e)
  BY <1>2 DEF Same, Fields, Good
<1>4. PICK c : c = AddMyVote(e.clog[n], x.id, OK)
  OBVIOUS
<1>5. PICK z : z = [e EXCEPT !.sent.c = @ \cup {n},
                             !.relogged = @ \/ Mine(e.clog[n], x.id) # None,
                             !.clog[n] = AddMyVote(@, x.id, OK)]
  OBVIOUS
<1>6. y = IF IsComplete(z.clog[n], commits) THEN Call(z, <<execute_committed>>) ELSE z
  BY <1>1, <1>5 DEF send_commit
<1>7. ~e.relogged /\ Mine(e.clog[n], x.id) = None
  BY <1>3 DEF LocalInv, OwnOK
<1>8. z = [e EXCEPT !.sent = [e.sent EXCEPT !.c = @ \cup {n}], !.relogged = FALSE,
                    !.clog = [e.clog EXCEPT ![n] = c]]
  BY <1>4, <1>5, <1>7
<1>9. /\ Shape(z) /\ Same(e, z, {"sent", "relogged", "clog"}) /\ z.relogged = FALSE
      /\ z.sent = [e.sent EXCEPT !.c = @ \cup {n}] /\ z.clog = [e.clog EXCEPT ![n] = c]
  BY <1>3, <1>8 DEF Typed, Shape, Same, Fields
<1>10. z.sent \in Messages /\ z.sent.md = e.sent.md
  <2>1. e.sent \in Messages /\ e.sent.c \cup {n} \in SUBSET Seqnos
    BY <1>3 DEF Typed, DataOK, Messages
  <2> QED BY <1>9, <2>1 DEF Messages
<1>11. c \in OwnedBy(x.id, {OK})
  BY <1>3, <1>4, AddMyVoteType DEF Typed, LogsOK
<1>12. /\ z.id = x.id /\ z.plog = x.plog /\ z.elog = e.elog /\ z.sset = e.sset /\ z.seqno = e.seqno
       /\ z.last_executed = e.last_executed /\ z.calls = << >> /\ z.state = e.state
       /\ z.rqueue = e.rqueue /\ z.fetching = e.fetching /\ z.stopped = e.stopped
  BY <1>3, <1>9 DEF Same, Fields
<1>13. Typed(z)
  <2>1. NumbersOK(z)
    BY <1>3, <1>9, KeepTypes DEF Avoids
  <2>2. FlagsOK(z)
    BY <1>3, <1>9, <1>12 DEF FlagsOK, Typed
  <2>3. LogsOK(z)
    BY <1>3, <1>9, <1>11, <1>12 DEF Typed, LogsOK
  <2> QED BY <1>3, <1>9, <1>10, <1>12, <2>1, <2>2, <2>3 DEF Typed, DataOK
<1>14. LocalInv(z)
  <2>1. CountersOK(z) /\ RoomOK(z) /\ CallsOK(z) /\ PendingOK(z)
    BY <1>3, <1>9, KeepInvariant DEF Avoids
  <2>2. TakenOK(z)
    BY <1>3, <1>10 DEF TakenOK, LocalInv
  <2>3. OwnOK(z)
    <3>1. \A m \in Seqnos : m # n => z.clog[m] = e.clog[m]
      BY <1>3, <1>9 DEF Typed, LogsOK
    <3> QED BY <1>3, <1>9, <1>12, <3>1 DEF OwnOK, LocalInv
  <2> QED BY <2>1, <2>2, <2>3 DEF LocalInv
<1>15. Good(z)
  BY <1>13, <1>14 DEF Good
<1>16. CASE y = Call(z, <<execute_committed>>)
  <2>1. execute_committed \in Frames /\ execute_committed.op = "execute_committed"
    BY FrameTypes DEF execute_committed, Frame
  <2>2. Good(y) /\ Same(z, y, {"calls"})
    BY <1>12, <1>15, <1>16, <2>1, FirstCallGood
  <2> QED BY <1>12, <2>2 DEF Same, Fields
<1> QED BY <1>6, <1>12, <1>15, <1>16

(* An entry of plog changes and something may be sent: what was prepared    *)
(* stays so, and the primary's proposals stay below seqno.                  *)
LEMMA PlogUpdateGood ==
  ASSUME NEW x, Good(x), NEW n \in Seqnos, NEW p \in Prepareds(x.id),
         prepared_complete(x.plog[n]) => prepared_complete(p),
         x.id = Primary => p.pp = x.plog[n].pp,
         NEW y, Shape(y), Same(x, y, {"plog", "sent"}), y.plog = [x.plog EXCEPT ![n] = p],
         y.sent \in Messages, y.sent.md = x.sent.md
  PROVE  Good(y)
<1>0. Typed(x) /\ LocalInv(x)
  BY DEF Good
<1>1. /\ y.id = x.id /\ y.clog = x.clog /\ y.elog = x.elog /\ y.sset = x.sset /\ y.calls = x.calls
      /\ y.state = x.state /\ y.seqno = x.seqno /\ y.last_executed = x.last_executed
      /\ y.relogged = x.relogged
  BY DEF Same, Fields
<1>2. Typed(y)
  <2>1. NumbersOK(y) /\ FlagsOK(y)
    BY <1>0, KeepTypes DEF Avoids
  <2>2. LogsOK(y)
    BY <1>0, <1>1 DEF Typed, LogsOK
  <2> QED BY <1>0, <1>1, <2>1, <2>2 DEF Typed, DataOK
<1>3. CountersOK(y) /\ RoomOK(y) /\ CallsOK(y) /\ PendingOK(y)
  BY <1>0, KeepInvariant DEF Avoids
<1>4. TakenOK(y)
  BY <1>0 DEF TakenOK, LocalInv
<1>5. OwnOK(y)
  <2>1. \A m \in Seqnos : y.plog[m] = IF m = n THEN p ELSE x.plog[m]
    BY <1>0 DEF Typed, LogsOK
  <2> QED BY <1>0, <1>1, <2>1 DEF OwnOK, LocalInv
<1> QED BY <1>2, <1>3, <1>4, <1>5 DEF Good, LocalInv

(* An entry of clog changes, but not by a message of mine. *)
LEMMA ClogUpdateGood ==
  ASSUME NEW x, Good(x), NEW n \in Seqnos, NEW c \in OwnedBy(x.id, {OK}),
         Mine(c, x.id) \in {None, Mine(x.clog[n], x.id)},
         NEW y, Shape(y), Same(x, y, {"clog"}), y.clog = [x.clog EXCEPT ![n] = c]
  PROVE  Good(y)
<1>0. Typed(x) /\ LocalInv(x)
  BY DEF Good
<1>1. /\ y.id = x.id /\ y.plog = x.plog /\ y.elog = x.elog /\ y.sset = x.sset
      /\ y.seqno = x.seqno /\ y.last_executed = x.last_executed /\ y.relogged = x.relogged
  BY DEF Same, Fields
<1>2. Typed(y)
  <2>1. NumbersOK(y) /\ FlagsOK(y) /\ DataOK(y)
    BY <1>0, KeepTypes DEF Avoids
  <2>2. LogsOK(y)
    BY <1>0, <1>1 DEF Typed, LogsOK
  <2> QED BY <1>0, <1>1, <2>1, <2>2 DEF Typed
<1>3. CountersOK(y) /\ TakenOK(y) /\ RoomOK(y) /\ CallsOK(y) /\ PendingOK(y)
  BY <1>0, KeepInvariant DEF Avoids
<1>4. OwnOK(y)
  <2>1. \A m \in Seqnos : y.clog[m] = IF m = n THEN c ELSE x.clog[m]
    BY <1>0 DEF Typed, LogsOK
  <2> QED BY <1>0, <1>1, <2>1 DEF OwnOK, LocalInv
<1> QED BY <1>2, <1>3, <1>4 DEF Good, LocalInv

(* The entry of a number in plog. *)
LEMMA PlogEntry ==
  ASSUME NEW x, Typed(x), NEW n \in Seqnos
  PROVE  /\ x.plog[n] \in Prepareds(x.id) /\ x.plog[n].pp \in Digests \cup {None}
         /\ x.plog[n].pc \in OwnedBy(x.id, Digests) /\ x.plog[n].pc \in Certificates(Digests)
BY DEF Typed, LogsOK, Prepareds, OwnedBy

(* A pre-prepare is accepted when there was none, so nothing was prepared   *)
(* before.                                                                  *)
LEMMA PrePrepareGood ==
  ASSUME NEW x, Good(x), x.calls = << >>, NEW n \in Seqnos, NEW d \in Digests,
         NEW y, y = handle_Pre_prepare(x, n, d)
  PROVE  Good(y) /\ y.id = x.id
<1>0. Typed(x) /\ LocalInv(x) /\ x.id \in Replicas
  BY DEF Good, Typed
<1>1. CASE ~(in_w(x, n) /\ x.id # Primary /\ accepts(x.plog[n], x.id, d))
  BY <1>1 DEF handle_Pre_prepare
<1>2. CASE in_w(x, n) /\ x.id # Primary /\ accepts(x.plog[n], x.id, d)
  <2>1. PICK u : u = [x EXCEPT !.plog[n].pp = d]
    OBVIOUS
  <2>2. PICK z : z = send_prepare(u, n)
    OBVIOUS
  <2>3. y = IF prepared_complete(z.plog[n]) THEN send_commit(z, n) ELSE z
    BY <1>2, <2>1, <2>2 DEF handle_Pre_prepare
  <2>4. PICK q : q = [x.plog[n] EXCEPT !.pp = d]
    OBVIOUS
  <2>5. u = [x EXCEPT !.plog = [x.plog EXCEPT ![n] = q]]
    BY <2>1, <2>4
  <2>6. Shape(u) /\ Same(x, u, {"plog"}) /\ u.plog = [x.plog EXCEPT ![n] = q]
    BY <1>0, <2>5 DEF Typed, Shape, Same, Fields
  <2>7. q.pp = d /\ q.pc = x.plog[n].pc /\ q \in Prepareds(x.id)
    BY <1>0, <2>4, PlogEntry DEF Prepareds
  <2>8. ~prepared_complete(x.plog[n]) /\ Mine(x.clog[n], x.id) = None
    BY <1>0, <1>2 DEF prepared_complete, accepts, LocalInv, OwnOK
  <2>9. u.plog[n] = q /\ u.id = x.id /\ u.sent = x.sent
    BY <1>0, <2>6 DEF Same, Fields, Typed, LogsOK
  <2>10. Good(z) /\ Same(x, z, {"plog", "sent"})
    <3>1. CASE Mine(q.pc, x.id) # None
      <4>1. z = u
        BY <2>2, <2>9, <3>1 DEF send_prepare
      <4>2. Same(x, z, {"plog", "sent"}) /\ z.sent = x.sent /\ x.sent \in Messages
        BY <1>0, <2>6, <2>9, <4>1 DEF Same, Fields, Typed, DataOK
      <4> QED BY <1>2, <2>6, <2>7, <2>8, <4>1, <4>2, PlogUpdateGood
    <3>2. CASE Mine(q.pc, x.id) = None
      <4>1. PICK c : c = AddMyVote(q.pc, x.id, d)
        OBVIOUS
      <4>2. z = [u EXCEPT !.sent.p = @ \cup {<<n, d>>}, !.plog[n].pc = AddMyVote(@, x.id, d)]
        BY <2>2, <2>7, <2>9, <3>2 DEF send_prepare
      <4>3. PICK p : p = [q EXCEPT !.pc = c]
        OBVIOUS
      <4>4. z = [u EXCEPT !.sent = [x.sent EXCEPT !.p = @ \cup {<<n, d>>}],
                          !.plog = [u.plog EXCEPT ![n] = p]]
        BY <2>9, <4>1, <4>2, <4>3
      <4>5. /\ Shape(z) /\ Same(u, z, {"plog", "sent"})
            /\ z.sent = [x.sent EXCEPT !.p = @ \cup {<<n, d>>}]
            /\ z.plog = [u.plog EXCEPT ![n] = p]
        BY <2>6, <4>4 DEF Shape, Same, Fields
      <4>6. z.plog = [x.plog EXCEPT ![n] = p]
        BY <1>0, <2>6, <4>5 DEF Typed, LogsOK
      <4>7. z.sent \in Messages /\ z.sent.md = x.sent.md
        <5>1. x.sent \in Messages /\ x.sent.p \cup {<<n, d>>} \in SUBSET (Seqnos \X Digests)
          BY <1>0 DEF Typed, DataOK, Messages
        <5> QED BY <4>5, <5>1 DEF Messages
      <4>8. c \in OwnedBy(x.id, Digests)
        BY <1>0, <2>7, <4>1, AddMyVoteType DEF Prepareds
      <4>9. p \in Prepareds(x.id) /\ p.pp = d
        BY <2>7, <4>3, <4>8 DEF Prepareds
      <4>10. Same(x, z, {"plog", "sent"})
        BY <2>6, <4>5 DEF Same, Fields
      <4> QED BY <1>2, <2>8, <4>5, <4>6, <4>7, <4>9, <4>10, PlogUpdateGood
    <3> QED BY <3>1, <3>2
  <2>11. z.id = x.id /\ z.calls = << >> /\ Mine(z.clog[n], z.id) = None
    BY <2>8, <2>10 DEF Same, Fields
  <2>12. CASE prepared_complete(z.plog[n])
    BY <2>3, <2>10, <2>11, <2>12, SendCommitGood
  <2> QED BY <2>3, <2>10, <2>11, <2>12
<1> QED BY <1>1, <1>2

(* A prepare that is added completes a certificate that was not complete.   *)
LEMMA PrepareGood ==
  ASSUME NEW x, Good(x), x.calls = << >>, NEW i \in Replicas \ {x.id},
         NEW n \in Seqnos, NEW d \in Digests, NEW y, y = handle_Prepare(x, i, n, d)
  PROVE  Good(y) /\ y.id = x.id
<1>0. Typed(x) /\ LocalInv(x) /\ x.id \in Replicas
  BY DEF Good, Typed
<1>1. CASE ~(in_w(x, n) /\ i # Primary)
  BY <1>1 DEF handle_Prepare
<1>2. CASE in_w(x, n) /\ i # Primary
  <2>1. PICK c : c = AddVote(x.plog[n].pc, prepares, i, d)
    OBVIOUS
  <2>2. PICK z : z = [x EXCEPT !.plog[n].pc = c]
    OBVIOUS
  <2>3. y = IF Added(x.plog[n].pc, prepares, i, d) /\ prepared_complete(z.plog[n])
            THEN send_commit(z, n) ELSE z
    BY <1>2, <2>1, <2>2 DEF handle_Prepare
  <2>4. PICK p : p = [x.plog[n] EXCEPT !.pc = c]
    OBVIOUS
  <2>5. z = [x EXCEPT !.plog = [x.plog EXCEPT ![n] = p]]
    BY <2>2, <2>4
  <2>6. Shape(z) /\ Same(x, z, {"plog"}) /\ z.plog = [x.plog EXCEPT ![n] = p]
    BY <1>0, <2>5 DEF Typed, Shape, Same, Fields
  <2>7. c \in OwnedBy(x.id, Digests)
    <3>1. AddedTo(Digests, x.id, x.plog[n].pc, i, d, c)
      BY <1>0, <2>1, PlogEntry, AddVoteType
    <3> QED BY <3>1 DEF AddedTo
  <2>8. p \in Prepareds(x.id) /\ p.pp = x.plog[n].pp /\ p.pc = c
    BY <1>0, <2>4, <2>7, PlogEntry DEF Prepareds
  <2>9. ASSUME prepared_complete(x.plog[n])
        PROVE  prepared_complete(p) /\ ~Added(x.plog[n].pc, prepares, i, d)
    <3>1. Ignored \notin Digests
      BY ReplicaAssumption
    <3>2. x.plog[n].pc \in Certificates(Digests) /\ IsComplete(x.plog[n].pc, prepares)
      BY <1>0, <2>9, PlogEntry DEF prepared_complete
    <3>3. /\ ~Added(x.plog[n].pc, prepares, i, d)
          /\ IsComplete(c, prepares) /\ c.c = x.plog[n].pc.c
      BY <2>1, <3>1, <3>2, AddVoteComplete
    <3> QED BY <2>8, <2>9, <3>3 DEF prepared_complete
  <2>10. Good(z) /\ z.id = x.id /\ z.calls = << >> /\ z.clog = x.clog /\ z.plog[n] = p
    <3>1. Same(x, z, {"plog", "sent"}) /\ z.sent = x.sent /\ x.sent \in Messages
      BY <1>0, <2>6 DEF Same, Fields, Typed, DataOK
    <3>2. Good(z)
      BY <2>6, <2>8, <2>9, <3>1, PlogUpdateGood
    <3> QED BY <1>0, <2>6, <3>2 DEF Same, Fields, Typed, LogsOK
  <2>11. CASE Added(x.plog[n].pc, prepares, i, d) /\ prepared_complete(z.plog[n])
    <3>1. Mine(z.clog[n], z.id) = None
      BY <1>0, <2>9, <2>10, <2>11 DEF LocalInv, OwnOK
    <3>2. y = send_commit(z, n)
      BY <2>3, <2>11
    <3> QED BY <2>10, <2>11, <3>1, <3>2, SendCommitGood
  <2> QED BY <2>3, <2>10, <2>11
<1> QED BY <1>1, <1>2

(* A commit. *)
LEMMA CommitGood ==
  ASSUME NEW x, Good(x), x.calls = << >>, NEW i \in Replicas \ {x.id},
         NEW n \in Seqnos, NEW y, y = handle_Commit(x, i, n)
  PROVE  Good(y) /\ y.id = x.id
<1>0. Typed(x) /\ LocalInv(x) /\ x.id \in Replicas
  BY DEF Good, Typed
<1>1. CASE ~in_w(x, n)
  BY <1>1 DEF handle_Commit
<1>2. CASE in_w(x, n)
  <2>1. PICK c : c = AddVote(x.clog[n], commits, i, OK)
    OBVIOUS
  <2>2. PICK z : z = [x EXCEPT !.clog[n] = c]
    OBVIOUS
  <2>3. y = IF Added(x.clog[n], commits, i, OK) /\ IsComplete(z.clog[n], commits)
            THEN Call(z, <<execute_committed>>) ELSE z
    BY <1>2, <2>1, <2>2 DEF handle_Commit
  <2>4. Shape(z) /\ Same(x, z, {"clog"}) /\ z.clog = [x.clog EXCEPT ![n] = c]
    BY <1>0, <2>2 DEF Typed, Shape, Same, Fields
  <2>5. c \in OwnedBy(x.id, {OK}) /\ c.votes[x.id] \in {None, x.clog[n].votes[x.id]}
    <3>1. AddedTo({OK}, x.id, x.clog[n], i, OK, c)
      BY <1>0, <2>1, AddVoteType DEF Typed, LogsOK
    <3> QED BY <3>1 DEF AddedTo
  <2>6. Good(z) /\ z.id = x.id /\ z.calls = << >>
    <3>1. Mine(c, x.id) \in {None, Mine(x.clog[n], x.id)}
      BY <2>5 DEF Mine
    <3>2. Good(z)
      BY <2>4, <2>5, <3>1, ClogUpdateGood
    <3>3. z.id = x.id /\ z.calls = x.calls
      BY <2>4 DEF Same, Fields
    <3> QED BY <3>2, <3>3
  <2>7. CASE y = Call(z, <<execute_committed>>)
    <3>1. execute_committed \in Frames /\ execute_committed.op = "execute_committed"
      BY FrameTypes DEF execute_committed, Frame
    <3>2. Good(y) /\ Same(z, y, {"calls"})
      BY <2>6, <2>7, <3>1, FirstCallGood
    <3> QED BY <2>6, <3>2 DEF Same, Fields
  <2> QED BY <2>3, <2>6, <2>7
<1> QED BY <1>1, <1>2

(* Entries of elog and sset change, but not by a message of mine. *)
LEMMA ElogUpdateGood ==
  ASSUME NEW x, Good(x), NEW n \in Checkpoints, NEW c \in OwnedBy(x.id, Seq(Digests)),
         Mine(c, x.id) \in {None, Mine(x.elog[n], x.id)},
         x.calls = << >> \/ x.calls[1].op # "mark_stable",
         NEW y, Shape(y), Same(x, y, {"elog"}), y.elog = [x.elog EXCEPT ![n] = c]
  PROVE  Good(y)
<1>0. Typed(x) /\ LocalInv(x)
  BY DEF Good
<1>1. /\ y.id = x.id /\ y.plog = x.plog /\ y.clog = x.clog /\ y.sset = x.sset /\ y.calls = x.calls
      /\ y.seqno = x.seqno /\ y.last_executed = x.last_executed /\ y.relogged = x.relogged
  BY DEF Same, Fields
<1>2. Typed(y)
  <2>1. NumbersOK(y) /\ FlagsOK(y) /\ DataOK(y)
    BY <1>0, KeepTypes DEF Avoids
  <2>2. LogsOK(y)
    BY <1>0, <1>1 DEF Typed, LogsOK
  <2> QED BY <1>0, <1>1, <2>1, <2>2 DEF Typed
<1>3. CountersOK(y) /\ TakenOK(y) /\ RoomOK(y) /\ CallsOK(y)
  BY <1>0, KeepInvariant DEF Avoids
<1>4. \A m \in Checkpoints : y.elog[m] = IF m = n THEN c ELSE x.elog[m]
  BY <1>0 DEF Typed, LogsOK
<1>5. OwnOK(y)
  BY <1>0, <1>1, <1>4 DEF OwnOK, LocalInv
<1>6. PendingOK(y)
  <2>1. CASE x.calls = << >>
    BY <1>1, <2>1 DEF PendingOK
  <2>2. CASE x.calls[1].op # "mark_stable"
    <3>1. \A m \in Checkpoints : Mine(x.elog[m], x.id) = None => Mine(y.elog[m], y.id) = None
      BY <1>1, <1>4
    <3>2. \A k \in 1..Len(x.calls) : x.calls[k].op = "new_state" => x.calls[k].n \in Checkpoints
      BY <1>0 DEF LocalInv, CallsOK
    <3> QED BY <1>0, <1>1, <2>2, <3>1, <3>2 DEF PendingOK, LocalInv
  <2> QED BY <2>1, <2>2
<1> QED BY <1>2, <1>3, <1>5, <1>6 DEF Good, LocalInv

(* A checkpoint message that completes a certificate with mine marks it     *)
(* stable.                                                                  *)
LEMMA LogCheckpointGood ==
  ASSUME NEW x, Good(x), x.calls = << >>, NEW i \in Replicas \ {x.id},
         NEW n \in Checkpoints, NEW h \in Seq(Digests), NEW y, y = log_checkpoint(x, i, n, h)
  PROVE  Good(y) /\ y.id = x.id
<1>0. Typed(x) /\ LocalInv(x) /\ x.id \in Replicas
  BY DEF Good, Typed
<1>1. PICK c : c = AddVote(x.elog[n], checkpoints, i, h)
  OBVIOUS
<1>2. PICK z : z = [x EXCEPT !.elog[n] = c]
  OBVIOUS
<1>3. y = IF /\ Added(x.elog[n], checkpoints, i, h)
             /\ Mine(z.elog[n], x.id) # None
             /\ IsComplete(z.elog[n], checkpoints)
          THEN Call(z, <<mark_stable(n, TRUE)>>) ELSE z
  BY <1>1, <1>2 DEF log_checkpoint
<1>4. Shape(z) /\ Same(x, z, {"elog"}) /\ z.elog = [x.elog EXCEPT ![n] = c]
  BY <1>0, <1>2 DEF Typed, Shape, Same, Fields
<1>5. c \in OwnedBy(x.id, Seq(Digests)) /\ c.votes[x.id] \in {None, x.elog[n].votes[x.id]}
  <2>1. AddedTo(Seq(Digests), x.id, x.elog[n], i, h, c)
    BY <1>0, <1>1, AddVoteType DEF Typed, LogsOK
  <2> QED BY <2>1 DEF AddedTo
<1>6. Good(z) /\ z.id = x.id /\ z.calls = << >> /\ z.last_executed = x.last_executed
  BY <1>4, <1>5, ElogUpdateGood DEF Same, Fields, Mine
<1>7. CASE y = Call(z, <<mark_stable(n, TRUE)>>) /\ Mine(z.elog[n], x.id) # None
  <2>1. n <= z.last_executed
    BY <1>6, <1>7 DEF Good, LocalInv, OwnOK
  <2>2. /\ mark_stable(n, TRUE) \in Frames /\ mark_stable(n, TRUE).op = "mark_stable"
        /\ mark_stable(n, TRUE).n = n
    BY FrameTypes, SeqnosAreNumbers DEF mark_stable, Frame
  <2>3. Good(y) /\ Same(z, y, {"calls"})
    BY <1>6, <1>7, <2>1, <2>2, FirstCallGood
  <2> QED BY <1>6, <2>3 DEF Same, Fields
<1> QED BY <1>3, <1>6, <1>7

(* rollback() leaves only what the last checkpoint holds. *)
LEMMA RollbackGood ==
  ASSUME NEW x, Good(x), x.calls = << >>, NEW y, y = rollback(x)
  PROVE  /\ Good(y) /\ y.id = x.id /\ y.calls = << >> 
         /\ ~y.stopped => y.last_tentative_execute = y.last_executed
<1>0. Typed(x) /\ LocalInv(x)
  BY DEF Good
<1>1. CASE Shape(y) /\ Same(x, y, {"stopped"}) /\ y.stopped = TRUE
  <2>1. NumbersOK(y) /\ LogsOK(y) /\ DataOK(y) /\ y.id = x.id
    BY <1>0, <1>1, KeepTypes DEF Avoids
  <2>2. FlagsOK(y) /\ y.calls = x.calls
    BY <1>0, <1>1 DEF Typed, FlagsOK, Same, Fields
  <2>3. LocalInv(y)
    BY <1>0, <1>1, KeepInvariant DEF Avoids, LocalInv
  <2> QED BY <1>0, <1>1, <2>1, <2>2, <2>3 DEF Good, Typed
<1>2. CASE /\ x.lc >= 0 /\ ~x.fetching
           /\ Shape(y) /\ Same(x, y, {"state", "last_executed", "last_tentative_execute"})
           /\ y.state = prefix(x, x.lc)
           /\ y.last_executed = x.lc /\ y.last_tentative_execute = x.lc
  <2>1. /\ CountersOK(x) /\ x.state \in Seq(Digests) /\ x.last_executed \in 0..MaxSeqno
        /\ x.last_tentative_execute \in 0..MaxSeqno /\ x.last_stable \in 0..MaxSeqno
        /\ x.lc \in -1..MaxSeqno
    BY <1>0 DEF Typed, NumbersOK, DataOK, LocalInv
  <2>2. y.state \in Seq(Digests) /\ Len(y.state) = x.lc
    BY <1>2, <2>1, SeqnosAreNumbers, SubSeqProperties DEF prefix, CountersOK
  <2>3. /\ y.id = x.id /\ y.calls = << >> /\ y.sent = x.sent /\ y.lc = x.lc /\ y.elog = x.elog
        /\ y.plog = x.plog /\ y.clog = x.clog /\ y.seqno = x.seqno /\ y.last_stable = x.last_stable
        /\ y.sset = x.sset /\ y.relogged = x.relogged /\ y.fetching = x.fetching
    BY <1>2 DEF Same, Fields
  <2>4. Typed(y)
    <3>1. LogsOK(y) /\ FlagsOK(y)
      BY <1>0, <1>2, KeepTypes DEF Avoids
    <3>2. NumbersOK(y)
      BY <1>0, <1>2, <2>1, <2>3, SeqnosAreNumbers DEF NumbersOK, Typed
    <3> QED BY <1>0, <1>2, <2>2, <2>3, <3>1, <3>2 DEF Typed, DataOK
  <2>5. CountersOK(y)
    BY <1>2, <2>1, <2>2, <2>3, SeqnosAreNumbers DEF CountersOK
  <2>6. TakenOK(y) /\ PendingOK(y)
    BY <1>0, <1>2, KeepInvariant DEF Avoids
  <2>7. CallsOK(y)
    BY <2>3 DEF CallsOK
  <2>8. OwnOK(y)
    <3>1. \A n \in Checkpoints : n <= x.last_executed => n <= x.lc
      BY <1>2, <2>1, SeqnosAreNumbers DEF CountersOK
    <3> QED BY <1>0, <1>2, <2>3, <3>1 DEF OwnOK, LocalInv
  <2>9. RoomOK(y)
    <3>1. RoomOK(x) /\ x.lc <= x.last_tentative_execute /\ x.seqno \in 0..MaxSeqno
      BY <1>0, <2>1 DEF LocalInv, CountersOK, Typed, NumbersOK
    <3> QED BY <1>2, <2>1, <2>3, <3>1, SeqnosAreNumbers DEF RoomOK
  <2> QED BY <1>2, <2>3, <2>4, <2>5, <2>6, <2>7, <2>8, <2>9 DEF Good, LocalInv
<1> QED BY <1>0, <1>1, <1>2, RollbackFields

(* start_fetch(), when nothing is tentatively executed. *)
LEMMA StartFetchGood ==
  ASSUME NEW x, Good(x), ~x.stopped => x.last_tentative_execute = x.last_executed,
         NEW y, y = start_fetch(x)
  PROVE  Good(y) /\ y.id = x.id
<1>0. Typed(x) /\ LocalInv(x)
  BY DEF Good
<1>1. CASE y = x
  BY <1>1
<1>2. CASE /\ y # x
           /\ Shape(y) /\ Same(x, y, {"lc", "sent", "fetching"}) /\ y.fetching = TRUE
           /\ y.lc \in {x.lc, x.last_executed}
           /\ x.lc < 0 => y.lc = x.lc
           /\ y.sent \in Messages /\ SentSame(x, y, {"md"})
           /\ \A v \in y.sent.md :
                v \in x.sent.md \/ (x.last_executed \in Checkpoints /\ v = <<x.last_executed, x.state>>)
  <2>1. /\ CountersOK(x) /\ x.state \in Seq(Digests) /\ x.last_executed \in 0..MaxSeqno
        /\ x.last_tentative_execute \in 0..MaxSeqno /\ x.lc \in -1..MaxSeqno
    BY <1>0 DEF Typed, NumbersOK, DataOK, LocalInv
  <2>2. /\ y.id = x.id /\ y.calls = x.calls /\ y.state = x.state /\ y.last_executed = x.last_executed
        /\ y.last_tentative_execute = x.last_tentative_execute /\ y.seqno = x.seqno
        /\ y.last_stable = x.last_stable /\ y.rqueue = x.rqueue /\ y.relogged = x.relogged
        /\ y.stopped = x.stopped
    BY <1>2 DEF Same, Fields
  <2>3. x.last_tentative_execute = x.last_executed
    BY <1>2 DEF start_fetch
  <2>4. Typed(y)
    <3>1. LogsOK(y)
      BY <1>0, <1>2, KeepTypes DEF Avoids
    <3>2. NumbersOK(y)
      BY <1>0, <1>2, <2>1, <2>2, SeqnosAreNumbers DEF NumbersOK, Typed
    <3>3. FlagsOK(y)
      BY <1>0, <1>2, <2>2 DEF FlagsOK, Typed
    <3> QED BY <1>0, <1>2, <2>2, <3>1, <3>2, <3>3 DEF Typed, DataOK
  <2>5. CountersOK(y)
    BY <1>2, <2>1, <2>2, <2>3, SeqnosAreNumbers DEF CountersOK
  <2>6. TakenOK(y)
    <3>1. Len(x.state) = x.last_executed
      BY <2>1, <2>3 DEF CountersOK
    <3> QED BY <1>0, <1>2, <3>1 DEF TakenOK, LocalInv
  <2>7. OwnOK(y) /\ RoomOK(y) /\ CallsOK(y) /\ PendingOK(y)
    BY <1>0, <1>2, KeepInvariant DEF Avoids
  <2> QED BY <2>2, <2>4, <2>5, <2>6, <2>7 DEF Good, LocalInv
<1> QED BY <1>0, <1>1, <1>2, StartFetchFields

(* A change of sset keeps the invariant, as long as my entry stays empty. *)
LEMMA SsetUpdateGood ==
  ASSUME NEW x, Good(x), NEW s \in [Replicas -> {None} \cup (Checkpoints \X Seq(Digests))],
         s[x.id] = None, NEW y, y = [x EXCEPT !.sset = s]
  PROVE  Good(y) /\ Same(x, y, {"sset"}) /\ y.sset = s
<1>0. Typed(x) /\ LocalInv(x)
  BY DEF Good
<1>1. Shape(y) /\ Same(x, y, {"sset"}) /\ y.sset = s
  BY <1>0 DEF Typed, Shape, Same, Fields
<1>2. /\ y.id = x.id /\ y.plog = x.plog /\ y.clog = x.clog /\ y.elog = x.elog /\ y.seqno = x.seqno
      /\ y.last_executed = x.last_executed /\ y.relogged = x.relogged
  BY <1>1 DEF Same, Fields
<1>3. Typed(y)
  <2>1. NumbersOK(y) /\ FlagsOK(y) /\ DataOK(y)
    BY <1>0, <1>1, KeepTypes DEF Avoids
  <2>2. LogsOK(y)
    BY <1>0, <1>1, <1>2 DEF Typed, LogsOK
  <2> QED BY <1>0, <1>1, <1>2, <2>1, <2>2 DEF Typed
<1>4. CountersOK(y) /\ TakenOK(y) /\ RoomOK(y) /\ CallsOK(y) /\ PendingOK(y)
  BY <1>0, <1>1, KeepInvariant DEF Avoids
<1>5. OwnOK(y)
  BY <1>0, <1>1, <1>2 DEF OwnOK, LocalInv
<1> QED BY <1>1, <1>3, <1>4, <1>5 DEF Good, LocalInv

(* A stable checkpoint above the window, or above what I executed: it may   *)
(* start a state transfer, after a rollback of what is tentative.           *)
LEMMA StoreStableGood ==
  ASSUME NEW x, Good(x), x.calls = << >>, NEW i \in Replicas \ {x.id},
         NEW n \in Checkpoints, NEW h \in Seq(Digests), NEW y, y = store_stable(x, i, n, h)
  PROVE  Good(y) /\ y.id = x.id
<1>0. Typed(x) /\ LocalInv(x) /\ x.id \in Replicas
  BY DEF Good, Typed
<1>1. PICK s : s = store(remove(x.sset, i), i, n, h)
  OBVIOUS
<1>2. PICK u : u = [x EXCEPT !.sset = s]
  OBVIOUS
<1>3. s \in [Replicas -> {None} \cup (Checkpoints \X Seq(Digests))] /\ s[x.id] = None
  BY <1>0, <1>1 DEF store, remove, Typed, LogsOK, LocalInv, OwnOK
<1>4. Good(u) /\ u.id = x.id /\ u.calls = << >>
  BY <1>2, <1>3, SsetUpdateGood DEF Same, Fields
<1>5. PICK z : z = IF u.last_tentative_execute > u.last_executed THEN rollback(u) ELSE u
  OBVIOUS
<1>6. y = IF x.sset[i] # None /\ x.sset[i][1] >= n THEN x
          ELSE IF sset_quorum(u) THEN start_fetch(z) ELSE u
  BY <1>1, <1>2, <1>5 DEF store_stable
<1>7. Good(z) /\ z.id = x.id /\ (~z.stopped => z.last_tentative_execute = z.last_executed)
  <2>1. CASE u.last_tentative_execute > u.last_executed
    BY <1>4, <1>5, <2>1, RollbackGood
  <2>2. CASE ~(u.last_tentative_execute > u.last_executed)
    <3>1. u.last_tentative_execute = u.last_executed
      BY <1>4, <2>2, SeqnosAreNumbers DEF Good, Typed, NumbersOK, LocalInv, CountersOK
    <3> QED BY <1>4, <1>5, <2>2, <3>1
  <2> QED BY <2>1, <2>2
<1>8. CASE y = start_fetch(z)
  BY <1>7, <1>8, StartFetchGood
<1> QED BY <1>4, <1>6, <1>8

(* A checkpoint message. *)
LEMMA CheckpointGood ==
  ASSUME NEW x, Good(x), x.calls = << >>, NEW i \in Replicas \ {x.id},
         NEW n \in Checkpoints, NEW h \in Seq(Digests), NEW stable, NEW slow,
         NEW y, y = handle_Checkpoint(x, i, n, h, stable, slow)
  PROVE  Good(y) /\ y.id = x.id
<1>1. y = x \/ y = log_checkpoint(x, i, n, h) \/ y = store_stable(x, i, n, h)
  BY DEF handle_Checkpoint
<1> QED BY <1>1, LogCheckpointGood, StoreStableGood

(* The logs lose messages, but what I committed stays prepared. *)
LEMMA LogsShrinkGood ==
  ASSUME NEW x, Good(x), x.calls = << >>,
         NEW y, Shape(y), Same(x, y, {"plog", "clog", "elog"}),
         y.plog \in [Seqnos -> Prepareds(x.id)],
         y.clog \in [Seqnos -> OwnedBy(x.id, {OK})],
         y.elog \in [Checkpoints -> OwnedBy(x.id, Seq(Digests))],
         \A n \in Seqnos : prepared_complete(x.plog[n]) => prepared_complete(y.plog[n]),
         \A n \in Seqnos : y.plog[n].pp \in {None, x.plog[n].pp},
         \A n \in Seqnos : Mine(y.clog[n], x.id) \in {None, Mine(x.clog[n], x.id)},
         \A n \in Checkpoints : Mine(y.elog[n], x.id) \in {None, Mine(x.elog[n], x.id)}
  PROVE  Good(y)
<1>0. Typed(x) /\ LocalInv(x)
  BY DEF Good
<1>1. /\ y.id = x.id /\ y.sset = x.sset /\ y.calls = << >> /\ y.seqno = x.seqno
      /\ y.last_executed = x.last_executed /\ y.relogged = x.relogged
  BY DEF Same, Fields
<1>2. Typed(y)
  <2>1. NumbersOK(y) /\ FlagsOK(y) /\ DataOK(y)
    BY <1>0, KeepTypes DEF Avoids
  <2>2. LogsOK(y)
    BY <1>0, <1>1 DEF Typed, LogsOK
  <2> QED BY <1>0, <1>1, <2>1, <2>2 DEF Typed
<1>3. CountersOK(y) /\ TakenOK(y) /\ RoomOK(y) /\ CallsOK(y)
  BY <1>0, KeepInvariant DEF Avoids
<1>4. OwnOK(y)
  BY <1>0, <1>1 DEF OwnOK, LocalInv
<1>5. PendingOK(y)
  BY <1>1 DEF PendingOK
<1> QED BY <1>2, <1>3, <1>4, <1>5 DEF Good, LocalInv

(* A prepared certificate that loses the others' messages. *)
LEMMA PreparedMarkStaleType ==
  ASSUME NEW me \in Replicas, NEW p \in Prepareds(me), NEW q, q = prepared_mark_stale(p, me)
  PROVE  /\ q \in Prepareds(me) /\ q.pp \in {None, p.pp}
         /\ prepared_complete(p) => q = p
<1>1. CASE prepared_complete(p)
  BY <1>1 DEF prepared_mark_stale
<1>2. CASE ~prepared_complete(p)
  <2>1. MarkStale(p.pc, prepares, me) \in OwnedBy(me, Digests)
    BY MarkStaleType DEF Prepareds
  <2> QED BY <1>2, <2>1 DEF prepared_mark_stale, Prepareds
<1> QED BY <1>1, <1>2

(* A change of keys. *)
LEMMA NewKeyGood ==
  ASSUME NEW x, Good(x), x.calls = << >>, NEW y, y = send_new_key(x)
  PROVE  Good(y) /\ y.id = x.id
<1>0. Typed(x) /\ LocalInv(x) /\ x.id \in Replicas /\ LogsOK(x)
  BY DEF Good, Typed
<1> DEFINE min == IF x.last_executed > x.last_stable THEN x.last_executed ELSE x.last_stable
           stale(n) == in_w(x, n) /\ n > min
<1>1. PICK e : e = [n \in Checkpoints |->
                      IF in_w(x, n) THEN MarkStale(x.elog[n], checkpoints, x.id) ELSE x.elog[n]]
  OBVIOUS
<1>2. PICK p : p = [n \in Seqnos |->
                      IF stale(n) THEN prepared_mark_stale(x.plog[n], x.id) ELSE x.plog[n]]
  OBVIOUS
<1>3. PICK c : c = [n \in Seqnos |->
                      IF stale(n) THEN MarkStale(x.clog[n], commits, x.id) ELSE x.clog[n]]
  OBVIOUS
<1>4. y = [x EXCEPT !.elog = e, !.plog = p, !.clog = c]
  BY <1>1, <1>2, <1>3 DEF send_new_key
<1>5. /\ Shape(y) /\ Same(x, y, {"plog", "clog", "elog"})
      /\ y.elog = e /\ y.plog = p /\ y.clog = c
  BY <1>0, <1>4 DEF Typed, Shape, Same, Fields
<1>6. ASSUME NEW n \in Checkpoints
      PROVE  e[n] \in OwnedBy(x.id, Seq(Digests)) /\ Mine(e[n], x.id) = Mine(x.elog[n], x.id)
  <2>1. x.elog[n] \in OwnedBy(x.id, Seq(Digests))
    BY <1>0 DEF LogsOK
  <2>2. PICK s : s = MarkStale(x.elog[n], checkpoints, x.id)
    OBVIOUS
  <2>3. s \in OwnedBy(x.id, Seq(Digests)) /\ s.votes[x.id] = x.elog[n].votes[x.id]
    BY <1>0, <2>1, <2>2, MarkStaleType
  <2> QED BY <1>1, <2>1, <2>2, <2>3 DEF Mine
<1>7. ASSUME NEW n \in Seqnos
      PROVE  c[n] \in OwnedBy(x.id, {OK}) /\ Mine(c[n], x.id) = Mine(x.clog[n], x.id)
  <2>1. x.clog[n] \in OwnedBy(x.id, {OK})
    BY <1>0 DEF LogsOK
  <2>2. PICK s : s = MarkStale(x.clog[n], commits, x.id)
    OBVIOUS
  <2>3. s \in OwnedBy(x.id, {OK}) /\ s.votes[x.id] = x.clog[n].votes[x.id]
    BY <1>0, <2>1, <2>2, MarkStaleType
  <2> HIDE DEF stale
  <2> QED BY <1>3, <2>1, <2>2, <2>3 DEF Mine
<1>8. ASSUME NEW n \in Seqnos
      PROVE  /\ p[n] \in Prepareds(x.id) /\ p[n].pp \in {None, x.plog[n].pp}
             /\ prepared_complete(x.plog[n]) => prepared_complete(p[n])
  <2>1. x.plog[n] \in Prepareds(x.id)
    BY <1>0 DEF LogsOK
  <2>2. PICK s : s = prepared_mark_stale(x.plog[n], x.id)
    OBVIOUS
  <2>3. /\ s \in Prepareds(x.id) /\ s.pp \in {None, x.plog[n].pp}
        /\ prepared_complete(x.plog[n]) => s = x.plog[n]
    BY <1>0, <2>1, <2>2, PreparedMarkStaleType
  <2> HIDE DEF stale
  <2> QED BY <1>2, <2>1, <2>2, <2>3
<1>9. /\ e \in [Checkpoints -> OwnedBy(x.id, Seq(Digests))]
      /\ p \in [Seqnos -> Prepareds(x.id)] /\ c \in [Seqnos -> OwnedBy(x.id, {OK})]
  BY <1>1, <1>2, <1>3, <1>6, <1>7, <1>8
<1>10. Good(y)
  BY <1>5, <1>6, <1>7, <1>8, <1>9, LogsShrinkGood
<1> QED BY <1>5, <1>10 DEF Same, Fields

(* send_pre_prepare(): the primary proposes under a number it did not use,  *)
(* within its window.                                                       *)
LEMMA SendPrePrepareGood ==
  ASSUME NEW x, Good(x), NEW y \in send_pre_prepare(x)
  PROVE  Good(y) /\ Same(x, y, {"seqno", "rqueue", "plog", "sent"})
<1>0. Typed(x) /\ LocalInv(x) /\ x.id \in Replicas /\ x.seqno \in 0..MaxSeqno /\ x.sent \in Messages
  BY DEF Good, Typed, NumbersOK, DataOK
<1>1. CASE y = x
  BY <1>1 DEF Same
<1>2. CASE y # x
  <2>1. /\ x.id = Primary /\ x.seqno + 1 <= x.last_stable + max_out /\ x.seqno + 1 \in Seqnos
        /\ \E d \in Batches[x.seqno + 1] : y = propose(x, d)
    BY <1>2 DEF send_pre_prepare
  <2>2. PICK n : n = x.seqno + 1
    OBVIOUS
  <2>3. n \in Seqnos /\ n \in 0..MaxSeqno /\ n > x.seqno
    BY <1>0, <2>1, <2>2, SeqnosAreNumbers
  <2>4. PICK d \in Digests : y = propose(x, d)
    BY <2>1, <2>2, <2>3, ReplicaAssumption
  <2>5. PICK p : p = [x.plog[n] EXCEPT !.pp = d]
    OBVIOUS
  <2>6. y = [x EXCEPT !.seqno = n, !.rqueue = FALSE,
                      !.plog[n].pp = d, !.sent.pp = @ \cup {<<n, d>>}]
    BY <2>2, <2>4 DEF propose
  <2>7. y = [x EXCEPT !.seqno = n, !.rqueue = FALSE, !.plog = [x.plog EXCEPT ![n] = p],
                      !.sent = [x.sent EXCEPT !.pp = @ \cup {<<n, d>>}]]
    BY <2>5, <2>6
  <2>8. /\ Shape(y) /\ Same(x, y, {"seqno", "rqueue", "plog", "sent"})
        /\ y.seqno = n /\ y.rqueue = FALSE /\ y.plog = [x.plog EXCEPT ![n] = p]
        /\ y.sent = [x.sent EXCEPT !.pp = @ \cup {<<n, d>>}]
    BY <1>0, <2>7 DEF Typed, Shape, Same, Fields
  <2>9. y.sent \in Messages /\ y.sent.md = x.sent.md
    <3>1. x.sent.pp \cup {<<n, d>>} \in SUBSET (Seqnos \X Digests)
      BY <1>0, <2>3 DEF Messages
    <3> QED BY <1>0, <2>8, <3>1 DEF Messages
  <2>10. p \in Prepareds(x.id)
    BY <1>0, <2>3, <2>5, PlogEntry DEF Prepareds
  <2>11. /\ y.id = x.id /\ y.clog = x.clog /\ y.elog = x.elog /\ y.sset = x.sset /\ y.calls = x.calls
         /\ y.state = x.state /\ y.last_executed = x.last_executed /\ y.last_stable = x.last_stable
         /\ y.relogged = x.relogged /\ y.fetching = x.fetching /\ y.stopped = x.stopped
         /\ y.lc = x.lc /\ y.last_tentative_execute = x.last_tentative_execute
    BY <2>8 DEF Same, Fields
  <2>12. Typed(y)
    <3>1. NumbersOK(y)
      BY <1>0, <2>3, <2>8, <2>11 DEF NumbersOK, Typed
    <3>2. FlagsOK(y)
      BY <1>0, <2>8, <2>11 DEF FlagsOK, Typed
    <3>3. LogsOK(y)
      BY <1>0, <2>8, <2>10, <2>11 DEF Typed, LogsOK
    <3> QED BY <1>0, <2>8, <2>9, <2>11, <3>1, <3>2, <3>3 DEF Typed, DataOK
  <2>13. CountersOK(y) /\ CallsOK(y) /\ PendingOK(y)
    BY <1>0, <2>8, KeepInvariant DEF Avoids
  <2>14. TakenOK(y)
    BY <1>0, <2>9 DEF TakenOK, LocalInv
  <2>15. RoomOK(y)
    BY <1>0, <2>1, <2>2, <2>8, <2>11 DEF RoomOK, LocalInv
  <2>16. OwnOK(y)
    <3>1. \A m \in Seqnos : y.plog[m] = IF m = n THEN p ELSE x.plog[m]
      BY <1>0, <2>8 DEF Typed, LogsOK
    <3>2. x.plog[n].pp = None
      BY <1>0, <2>1, <2>3 DEF LocalInv, OwnOK
    <3>3. Mine(x.clog[n], x.id) = None
      BY <1>0, <2>3, <3>2 DEF LocalInv, OwnOK, prepared_complete
    <3>4. \A m \in Seqnos : m > n => m > x.seqno /\ m # n
      BY <1>0, <2>2, SeqnosAreNumbers
    <3> QED BY <1>0, <2>8, <2>11, <3>1, <3>3, <3>4 DEF OwnOK, LocalInv
  <2> QED BY <2>8, <2>12, <2>13, <2>14, <2>15, <2>16 DEF Good, LocalInv
<1> QED BY <1>1, <1>2

(* The first call returns: what remains is still in order, but the window   *)
(* may be too far behind until mark_stable() moved it.                      *)
NoWalks(x) == \A k \in 1..Len(x.calls) : x.calls[k].op \notin Walks

(* When a call returns, what is left to do is what was left before. *)
LEMMA ReturnKeeps ==
  ASSUME NEW x, Good(x), x.calls # << >>, NEW y, y = Return(x)
  PROVE  /\ Typed(y) /\ Same(x, y, {"calls"}) /\ NoWalks(y)
         /\ CountersOK(y) /\ TakenOK(y) /\ OwnOK(y) /\ CallsOK(y) /\ PendingOK(y)
         /\ \A k \in 1..Len(y.calls) : k + 1 \in 1..Len(x.calls) /\ y.calls[k] = x.calls[k + 1]
<1>0. Typed(x) /\ LocalInv(x)
  BY DEF Good
<1>1. /\ Shape(y) /\ Same(x, y, {"calls"}) /\ y.calls \in Seq(Frames)
      /\ Len(y.calls) = Len(x.calls) - 1 /\ Len(x.calls) \in Nat \ {0}
      /\ \A k \in 1..Len(y.calls) : y.calls[k] = x.calls[k + 1]
  BY <1>0, ReturnFields
<1>2. /\ y.id = x.id /\ y.last_executed = x.last_executed /\ y.last_stable = x.last_stable
      /\ y.seqno = x.seqno /\ y.last_tentative_execute = x.last_tentative_execute
      /\ y.state = x.state /\ y.sent = x.sent /\ y.elog = x.elog
  BY <1>1 DEF Same, Fields
<1>3. Typed(y)
  <2>1. NumbersOK(y) /\ FlagsOK(y) /\ LogsOK(y)
    BY <1>0, <1>1, KeepTypes DEF Avoids
  <2> QED BY <1>0, <1>1, <1>2, <2>1 DEF Typed, DataOK
<1>4. CountersOK(y) /\ TakenOK(y) /\ OwnOK(y)
  BY <1>0, <1>1, KeepInvariant DEF Avoids
<1>6. \A k \in 1..Len(y.calls) : y.calls[k] = x.calls[k + 1] /\ k + 1 \in 1..Len(x.calls) /\ k + 1 # 1
  BY <1>1
<1>7. CallsOK(y)
  <2> SUFFICES ASSUME NEW k \in 1..Len(y.calls)
               PROVE  LET f == y.calls[k]
                      IN  /\ f.op \in Walks => k = 1 /\ f.n \in Seqnos
                          /\ f.op = "mark_stable" /\ f.flag => f.n \in Checkpoints /\ f.n <= y.last_executed
                          /\ f.op = "transfer_sset" /\ f.n > y.last_stable => f.n \in Checkpoints
                          /\ f.op \in {"new_state", "new_state_end"} =>
                               f.n \in Checkpoints /\ f.n <= y.last_executed
                          /\ f.op = "new_state" =>
                               k = Len(y.calls) /\ \A j \in 1..(k - 1) : y.calls[j].op \in Walks
    BY DEF CallsOK
  <2>1. CallsOK(x) /\ y.calls[k] = x.calls[k + 1] /\ k + 1 \in 1..Len(x.calls) /\ k + 1 # 1
    BY <1>0, <1>6 DEF LocalInv
  <2>2. y.calls[k].op \notin Walks
    BY <2>1 DEF CallsOK
  <2>3. y.calls[k].op = "new_state" =>
          k = Len(y.calls) /\ \A j \in 1..(k - 1) : y.calls[j].op \in Walks
    <3> SUFFICES ASSUME y.calls[k].op = "new_state"
                 PROVE  k = Len(y.calls) /\ \A j \in 1..(k - 1) : y.calls[j].op \in Walks
      OBVIOUS
    <3>1. k + 1 = Len(x.calls) /\ \A j \in 1..k : x.calls[j].op \in Walks
      BY <2>1 DEF CallsOK
    <3>2. k = Len(y.calls)
      BY <1>1, <3>1
    <3>3. \A j \in 1..(k - 1) : j \in 1..Len(y.calls) /\ j + 1 \in 1..k
      BY <1>1
    <3> QED BY <1>6, <3>1, <3>2, <3>3
  <2> QED BY <1>2, <2>1, <2>2, <2>3 DEF CallsOK, Walks
<1>8. PendingOK(y)
  <2> SUFFICES ASSUME NEW k \in 1..Len(y.calls), y.calls[k].op = "new_state"
               PROVE  /\ y.calls[k].flag => Mine(y.elog[y.calls[k].n], y.id) = None
                      /\ y.calls[1].op # "mark_stable"
    BY DEF PendingOK
  <2>1. /\ y.calls[k] = x.calls[k + 1] /\ k + 1 \in 1..Len(x.calls)
        /\ y.calls[1] = x.calls[2] /\ 2 \in 1..Len(x.calls)
    BY <1>1, <1>6
  <2>2. x.calls[2].op \notin Walks
    BY <1>0, <2>1 DEF LocalInv, CallsOK
  <2> QED BY <1>0, <1>2, <2>1, <2>2 DEF PendingOK, LocalInv, Walks
<1>9. NoWalks(y)
  BY <1>0, <1>6 DEF NoWalks, LocalInv, CallsOK
<1> QED BY <1>1, <1>3, <1>4, <1>6, <1>7, <1>8, <1>9

(* A call may return unless it still has to move the window. *)
LEMMA ReturnGood ==
  ASSUME NEW x, Good(x), x.calls # << >>,
         x.calls[1].op = "mark_stable" => x.calls[1].n <= x.last_stable, NEW y, y = Return(x)
  PROVE  Good(y) /\ Same(x, y, {"calls"})
<1>1. /\ Typed(y) /\ Same(x, y, {"calls"})
      /\ CountersOK(y) /\ TakenOK(y) /\ OwnOK(y) /\ CallsOK(y) /\ PendingOK(y)
  BY ReturnKeeps
<1>2. /\ y.last_stable = x.last_stable /\ y.seqno = x.seqno
      /\ y.last_tentative_execute = x.last_tentative_execute
  BY <1>1 DEF Same, Fields
<1>3. /\ RoomOK(x) /\ x.last_stable \in Nat /\ x.last_tentative_execute \in Nat /\ max_out \in Nat
      /\ x.calls[1].n \in Nat
  <2>1. x.calls[1] \in Frames
    BY DEF Good, Typed, DataOK
  <2>2. x.calls[1].n \in Nat
    BY <2>1 DEF Frames
  <2> QED BY <2>2, SeqnosAreNumbers DEF Good, LocalInv, Typed, NumbersOK
<1>4. RoomOK(y)
  BY <1>2, <1>3 DEF RoomOK
<1> QED BY <1>1, <1>4 DEF Good, LocalInv


(* A checkpoint message of mine is logged once, for a checkpoint that I     *)
(* executed.                                                                *)
LEMMA SendCheckpointGood ==
  ASSUME NEW x, Good(x), NEW n \in Checkpoints, n <= x.last_executed, Mine(x.elog[n], x.id) = None,
         \A k \in 1..Len(x.calls) : x.calls[k].op # "new_state",
         NEW y, y = send_checkpoint(x, n)
  PROVE  Good(y) /\ Same(x, y, {"relogged", "elog", "sent"})
<1>0. Typed(x) /\ LocalInv(x) /\ x.id \in Replicas /\ x.sent \in Messages
  BY DEF Good, Typed, DataOK
<1>1. PICK h : h = prefix(x, n)
  OBVIOUS
<1>2. PICK c : c = AddMyVote(x.elog[n], x.id, h)
  OBVIOUS
<1>3. y = [x EXCEPT !.relogged = FALSE, !.elog = [x.elog EXCEPT ![n] = c],
                    !.sent = [x.sent EXCEPT !.k = @ \cup {<<n, h, FALSE>>}]]
  BY <1>0, <1>1, <1>2 DEF send_checkpoint, LocalInv, OwnOK
<1>4. /\ Shape(y) /\ Same(x, y, {"relogged", "elog", "sent"}) /\ y.relogged = FALSE
      /\ y.elog = [x.elog EXCEPT ![n] = c] /\ y.sent = [x.sent EXCEPT !.k = @ \cup {<<n, h, FALSE>>}]
  BY <1>0, <1>3 DEF Typed, Shape, Same, Fields
<1>5. h \in Seq(Digests)
  <2>1. /\ x.state \in Seq(Digests) /\ n \in Nat /\ n > 0 /\ n <= Len(x.state)
    BY <1>0, SeqnosAreNumbers DEF Typed, NumbersOK, DataOK, LocalInv, CountersOK
  <2> QED BY <1>1, <2>1, SubSeqProperties DEF prefix
<1>6. c \in OwnedBy(x.id, Seq(Digests))
  BY <1>0, <1>2, <1>5, AddMyVoteType DEF Typed, LogsOK
<1>7. y.sent \in Messages /\ y.sent.md = x.sent.md
  <2>1. x.sent.k \cup {<<n, h, FALSE>>} \in SUBSET (Seqnos \X Seq(Digests) \X BOOLEAN)
    <3>1. n \in Seqnos /\ FALSE \in BOOLEAN
      BY SeqnosAreNumbers
    <3>2. <<n, h, FALSE>> \in Seqnos \X Seq(Digests) \X BOOLEAN
      BY <1>5, <3>1
    <3>3. x.sent.k \in SUBSET (Seqnos \X Seq(Digests) \X BOOLEAN)
      BY <1>0 DEF Messages
    <3> QED BY <3>2, <3>3
  <2> QED BY <1>0, <1>4, <2>1 DEF Messages
<1>8. /\ y.id = x.id /\ y.plog = x.plog /\ y.clog = x.clog /\ y.sset = x.sset /\ y.calls = x.calls
      /\ y.seqno = x.seqno /\ y.last_executed = x.last_executed /\ y.state = x.state
      /\ y.rqueue = x.rqueue /\ y.fetching = x.fetching /\ y.stopped = x.stopped
  BY <1>4 DEF Same, Fields
<1>9. Typed(y)
  <2>1. NumbersOK(y)
    BY <1>0, <1>4, KeepTypes DEF Avoids
  <2>2. FlagsOK(y)
    BY <1>0, <1>4, <1>8 DEF FlagsOK, Typed
  <2>3. LogsOK(y)
    BY <1>0, <1>4, <1>6, <1>8 DEF LogsOK, Typed
  <2> QED BY <1>0, <1>4, <1>7, <1>8, <2>1, <2>2, <2>3 DEF Typed, DataOK
<1>10. CountersOK(y) /\ RoomOK(y) /\ CallsOK(y)
  BY <1>0, <1>4, KeepInvariant DEF Avoids
<1>11. TakenOK(y)
  BY <1>0, <1>7 DEF TakenOK, LocalInv
<1>12. OwnOK(y)
  <2>1. \A m \in Checkpoints : y.elog[m] = IF m = n THEN c ELSE x.elog[m]
    BY <1>0, <1>4 DEF Typed, LogsOK
  <2> QED BY <1>0, <1>4, <1>8, <2>1 DEF OwnOK, LocalInv
<1>13. PendingOK(y)
  BY <1>8 DEF PendingOK
<1> QED BY <1>4, <1>9, <1>10, <1>11, <1>12, <1>13 DEF Good, LocalInv

(* The next committed batch counts as executed, and at a checkpoint I say   *)
(* so.                                                                      *)
LEMMA ExecuteNextGood ==
  ASSUME NEW x, Good(x), x.calls # << >>, x.calls[1].op = "execute_committed",
         ~x.fetching, x.last_executed < x.last_stable + max_out,
         committed(x, x.last_executed + 1), NEW y, y = execute_next(x)
  PROVE  Good(y) /\ y.id = x.id
<1>0. Typed(x) /\ LocalInv(x) /\ x.last_executed \in 0..MaxSeqno
  BY DEF Good, Typed, NumbersOK
<1>1. PICK n : n = x.last_executed + 1
  OBVIOUS
<1>2. PICK e : e = execute_prepared(x)
  OBVIOUS
<1>3. PICK z : z = [e EXCEPT !.last_executed = n]
  OBVIOUS
<1>4. PICK k : k = send_checkpoint(z, n)
  OBVIOUS
<1>5. y = IF n % checkpoint_interval # 0 THEN z
          ELSE IF IsComplete(k.elog[n], checkpoints) THEN Call(k, <<mark_stable(n, TRUE)>>) ELSE k
  BY <1>1, <1>2, <1>3, <1>4 DEF execute_next
<1>6. n \in Seqnos /\ n \in 0..MaxSeqno /\ prepared(x, n)
  BY <1>1, SeqnosAreNumbers DEF committed, prepared, Seqnos
<1>7. /\ Good(e) /\ Same(x, e, {"last_tentative_execute", "state", "lc", "sent"})
      /\ e.last_tentative_execute >= x.last_tentative_execute
      /\ executes(x, n) => e.last_tentative_execute = n
  BY <1>1, <1>2, ExecutePreparedGood
<1>8. /\ e.id = x.id /\ e.last_executed = x.last_executed /\ e.calls = x.calls /\ e.elog = x.elog
      /\ e.last_stable = x.last_stable /\ Typed(e) /\ LocalInv(e) /\ CountersOK(e) /\ NumbersOK(e)
  BY <1>7 DEF Same, Fields, Good, LocalInv, Typed
<1>9. e.last_tentative_execute = n
  <2>1. CASE executes(x, n)
    BY <1>7, <2>1
  <2>2. CASE ~executes(x, n)
    <3>1. ~(x.last_tentative_execute < n)
      BY <1>6, <2>2 DEF executes
    <3> QED BY <1>0, <1>1, <1>7, <1>8, <3>1 DEF CountersOK, NumbersOK, Typed
  <2> QED BY <2>1, <2>2
<1>10. Shape(z) /\ Same(e, z, {"last_executed"}) /\ z.last_executed = n
  BY <1>3, <1>8 DEF Typed, Shape, Same, Fields
<1>11. /\ z.id = x.id /\ z.calls = x.calls /\ z.elog = x.elog /\ z.seqno = e.seqno
       /\ z.last_tentative_execute = n /\ z.last_stable = e.last_stable /\ z.lc = e.lc
       /\ z.state = e.state /\ z.sset = e.sset /\ z.plog = e.plog /\ z.clog = e.clog
       /\ z.relogged = e.relogged /\ z.fetching = e.fetching
  BY <1>8, <1>9, <1>10 DEF Same, Fields
<1>12. Good(z)
  <2>1. FlagsOK(z) /\ LogsOK(z) /\ DataOK(z)
    BY <1>8, <1>10, KeepTypes DEF Avoids
  <2>2. NumbersOK(z)
    BY <1>6, <1>8, <1>10, <1>11 DEF NumbersOK
  <2>3. CountersOK(z)
    BY <1>6, <1>8, <1>9, <1>10, <1>11 DEF CountersOK
  <2>4. TakenOK(z) /\ RoomOK(z) /\ PendingOK(z)
    BY <1>8, <1>10, KeepInvariant DEF Avoids
  <2>5. \A m \in Nat : m <= x.last_executed => m <= n
    BY <1>0, <1>1
  <2>6. OwnOK(z)
    BY <1>8, <1>10, <1>11, <2>5, SeqnosAreNumbers DEF OwnOK, LocalInv
  <2>7. CallsOK(z)
    <3>1. CallsOK(e) /\ Checkpoints \subseteq Nat /\ e.calls = z.calls
      BY <1>8, <1>11, SeqnosAreNumbers DEF LocalInv
    <3>2. \A m \in Checkpoints : m <= e.last_executed => m <= z.last_executed
      BY <1>8, <1>10, <2>5, <3>1
    <3> QED BY <1>11, <3>1, <3>2 DEF CallsOK
  <2> QED BY <1>8, <1>10, <1>11, <2>1, <2>2, <2>3, <2>4, <2>6, <2>7 DEF Good, Typed, LocalInv
<1>13. CASE n % checkpoint_interval # 0
  BY <1>5, <1>11, <1>12, <1>13
<1>14. CASE n % checkpoint_interval = 0
  <2>1. n \in Checkpoints
    BY <1>6, <1>14 DEF Checkpoints
  <2>2. Mine(z.elog[n], z.id) = None
    <3>1. ~(n <= x.last_executed)
      BY <1>0, <1>1
    <3> QED BY <1>0, <1>11, <2>1, <3>1 DEF LocalInv, OwnOK
  <2>3. \A j \in 1..Len(z.calls) : z.calls[j].op # "new_state"
    <3> SUFFICES ASSUME NEW j \in 1..Len(x.calls), x.calls[j].op = "new_state"
                 PROVE  FALSE
      BY <1>11
    <3>1. CallsOK(x) /\ (j # 1 => 1 \in 1..(j - 1))
      BY <1>0 DEF LocalInv
    <3> QED BY <3>1 DEF CallsOK, Walks
  <2>4. n <= z.last_executed
    BY <1>6, <1>10
  <2>5. Good(k) /\ Same(z, k, {"relogged", "elog", "sent"})
    BY <1>4, <1>12, <2>1, <2>2, <2>3, <2>4, SendCheckpointGood
  <2>6. k.id = x.id /\ k.calls = x.calls /\ k.last_executed = n
    BY <1>10, <1>11, <2>5 DEF Same, Fields
  <2>7. CASE y = Call(k, <<mark_stable(n, TRUE)>>)
    <3>1. /\ mark_stable(n, TRUE) \in Frames /\ mark_stable(n, TRUE).op = "mark_stable"
          /\ mark_stable(n, TRUE).n = n
      BY <1>6, FrameTypes, SeqnosAreNumbers DEF mark_stable, Frame
    <3>2. k.calls[1].op \notin Walks \cup {"new_state"} /\ n <= k.last_executed
      BY <1>6, <2>6 DEF Walks
    <3>3. Good(y) /\ Same(k, y, {"calls"})
      BY <2>1, <2>5, <2>6, <2>7, <3>1, <3>2, FirstCallGood
    <3> QED BY <2>6, <3>3 DEF Same, Fields
  <2> QED BY <1>5, <1>14, <2>5, <2>6, <2>7
<1> QED BY <1>13, <1>14

(* A round of execute_committed(), or its end. *)
LEMMA ExecuteCommittedGood ==
  ASSUME NEW x, Good(x), x.calls # << >>, x.calls[1].op = "execute_committed",
         NEW y \in after_execute_committed(x)
  PROVE  Good(y) /\ y.id = x.id
<1>1. PICK z : z = Return(x)
  OBVIOUS
<1>2. Good(z) /\ z.id = x.id
  BY <1>1, ReturnGood DEF Same, Fields
<1>3. \/ y = z
      \/ /\ ~x.fetching /\ ~(x.last_executed >= x.last_stable + max_out)
         /\ committed(x, x.last_executed + 1) /\ y = execute_next(x)
      \/ y \in send_pre_prepare(z)
  BY <1>1 DEF after_execute_committed
<1>4. x.last_executed \in Nat /\ x.last_stable \in Nat /\ max_out \in Nat
  BY SeqnosAreNumbers DEF Good, Typed, NumbersOK
<1>5. CASE /\ ~x.fetching /\ ~(x.last_executed >= x.last_stable + max_out)
           /\ committed(x, x.last_executed + 1) /\ y = execute_next(x)
  BY <1>4, <1>5, ExecuteNextGood
<1>6. CASE y \in send_pre_prepare(z)
  BY <1>2, <1>6, SendPrePrepareGood DEF Same, Fields
<1> QED BY <1>2, <1>3, <1>5, <1>6

(* truncate() moves the window to n: what is below n goes, and with it my   *)
(* commits of what is no longer prepared.                                   *)
LEMMA TruncateGood ==
  ASSUME NEW x, Typed(x), NoWalks(x), NEW n \in Seqnos, n > x.last_stable,
         x.last_tentative_execute <= n + max_out, x.seqno <= n + max_out,
         CountersOK(x), TakenOK(x), OwnOK(x), CallsOK(x), PendingOK(x),
         NEW y, y = truncate(x, n)
  PROVE  /\ Good(y)
         /\ Same(x, y, {"last_stable", "seqno", "plog", "clog", "elog", "sent"})
         /\ y.last_stable = n /\ y.seqno >= n /\ (n \in Checkpoints => y.elog[n] = x.elog[n])
<1>0. /\ x.id \in Replicas /\ x.sent \in Messages /\ LogsOK(x)
      /\ x.last_stable \in Nat /\ x.last_tentative_execute \in Nat /\ x.seqno \in Nat
      /\ n \in Nat /\ max_out \in Nat /\ n <= MaxSeqno /\ MaxSeqno \in Nat /\ x.seqno <= MaxSeqno
  BY SeqnosAreNumbers DEF Typed, NumbersOK, DataOK
<1>1. PICK p : p = [m \in Seqnos |-> IF m <= n THEN EmptyPrepared ELSE x.plog[m]]
  OBVIOUS
<1>2. PICK c : c = [m \in Seqnos |-> IF m <= n THEN EmptyCert ELSE x.clog[m]]
  OBVIOUS
<1>3. PICK e : e = [m \in Checkpoints |-> IF m < n THEN EmptyCert ELSE x.elog[m]]
  OBVIOUS
<1>4. PICK s : s = IF n > x.seqno THEN n ELSE x.seqno
  OBVIOUS
<1>5. PICK md : md = {v \in x.sent.md : v[1] >= n}
  OBVIOUS
<1>6. y = [x EXCEPT !.last_stable = n, !.seqno = s, !.plog = p, !.clog = c, !.elog = e,
                    !.sent = [x.sent EXCEPT !.md = md]]
  BY <1>1, <1>2, <1>3, <1>4, <1>5 DEF truncate
<1>7. /\ Shape(y) /\ Same(x, y, {"last_stable", "seqno", "plog", "clog", "elog", "sent"})
      /\ y.last_stable = n /\ y.seqno = s /\ y.plog = p /\ y.clog = c /\ y.elog = e
      /\ y.sent = [x.sent EXCEPT !.md = md]
  BY <1>6 DEF Typed, Shape, Same, Fields
<1>8. y.sent \in Messages /\ y.sent.md \subseteq x.sent.md
  <2>1. md \in SUBSET (Seqnos \X Seq(Digests)) /\ md \subseteq x.sent.md
    BY <1>0, <1>5 DEF Messages
  <2> QED BY <1>0, <1>7, <2>1 DEF Messages
<1>9. /\ EmptyPrepared \in Prepareds(x.id) /\ EmptyPrepared.pp = None
      /\ EmptyCert \in OwnedBy(x.id, {OK}) /\ EmptyCert \in OwnedBy(x.id, Seq(Digests))
      /\ Mine(EmptyCert, x.id) = None
  <2>1. \A V : EmptyCert \in OwnedBy(x.id, V) /\ Mine(EmptyCert, x.id) = None
    BY <1>0, EmptyCertType
  <2> QED BY <2>1 DEF EmptyPrepared, Prepareds
<1>10. /\ p \in [Seqnos -> Prepareds(x.id)] /\ c \in [Seqnos -> OwnedBy(x.id, {OK})]
       /\ e \in [Checkpoints -> OwnedBy(x.id, Seq(Digests))]
  BY <1>0, <1>1, <1>2, <1>3, <1>9 DEF LogsOK
<1>11. s >= n /\ s >= x.seqno /\ s \in 0..MaxSeqno /\ s <= n + max_out
  BY <1>0, <1>4
<1>12. /\ y.id = x.id /\ y.sset = x.sset /\ y.calls = x.calls /\ y.state = x.state
       /\ y.last_executed = x.last_executed /\ y.relogged = x.relogged /\ y.lc = x.lc
       /\ y.last_tentative_execute = x.last_tentative_execute /\ y.fetching = x.fetching
  BY <1>7 DEF Same, Fields
<1>13. Typed(y)
  <2>1. FlagsOK(y)
    BY <1>7, KeepTypes DEF Avoids
  <2>2. NumbersOK(y)
    BY <1>0, <1>7, <1>11, <1>12 DEF Typed, NumbersOK
  <2>3. LogsOK(y)
    BY <1>0, <1>7, <1>10, <1>12 DEF LogsOK
  <2> QED BY <1>0, <1>7, <1>8, <1>12, <2>1, <2>2, <2>3 DEF Typed, DataOK
<1>14. CountersOK(y)
  BY <1>12 DEF CountersOK
<1>15. TakenOK(y)
  BY <1>8 DEF TakenOK
<1>16. RoomOK(y)
  BY <1>7, <1>11, <1>12 DEF RoomOK
<1>17. OwnOK(y)
  <2>1. \A m \in Seqnos : Mine(y.clog[m], x.id) # None =>
          Mine(x.clog[m], x.id) # None /\ y.plog[m] = x.plog[m]
    BY <1>1, <1>2, <1>7, <1>9
  <2>2. \A m \in Seqnos : m > y.seqno => m > x.seqno
    BY <1>0, <1>7, <1>11, SeqnosAreNumbers
  <2>3. \A m \in Seqnos : y.plog[m].pp \in {None, x.plog[m].pp}
    BY <1>1, <1>7, <1>9
  <2>4. \A m \in Checkpoints : Mine(y.elog[m], x.id) \in {None, Mine(x.elog[m], x.id)}
    BY <1>3, <1>7, <1>9
  <2> QED BY <1>12, <2>1, <2>2, <2>3, <2>4 DEF OwnOK
<1>18. CallsOK(y)
  BY <1>12 DEF CallsOK, NoWalks, Walks
<1>19. PendingOK(y)
  <2> SUFFICES ASSUME NEW k \in 1..Len(x.calls), x.calls[k].op = "new_state"
               PROVE  /\ x.calls[k].flag => Mine(y.elog[x.calls[k].n], x.id) = None
                      /\ x.calls[1].op # "mark_stable"
    BY <1>12 DEF PendingOK
  <2>1. x.calls[k].n \in Checkpoints /\ 1 \in 1..Len(x.calls)
    BY DEF CallsOK
  <2>2. \A m \in Checkpoints : Mine(y.elog[m], x.id) \in {None, Mine(x.elog[m], x.id)}
    BY <1>3, <1>7, <1>9
  <2> QED BY <2>1, <2>2 DEF PendingOK, NoWalks, Walks
<1>20. n \in Checkpoints => y.elog[n] = x.elog[n]
  BY <1>0, <1>3, <1>7
<1> QED BY <1>7, <1>11, <1>13, <1>14, <1>15, <1>16, <1>17, <1>18, <1>19, <1>20 DEF Good, LocalInv

(* discard_checkpoint(): the checkpoint it takes is of no checkpoint        *)
(* number, for there is none above lc.                                      *)
LEMMA DiscardGood ==
  ASSUME NEW x, Good(x), NEW y, y = discard_checkpoint(x)
  PROVE  Good(y) /\ Same(x, y, {"lc", "sent"})
<1>0. Typed(x) /\ LocalInv(x)
  BY DEF Good
<1>1. CASE y = x
  BY <1>1 DEF Same
<1>2. CASE y # x
  <2>1. /\ x.last_stable > x.lc /\ x.last_executed > x.lc /\ x.lc >= 0
        /\ Shape(y) /\ Same(x, y, {"lc", "sent"}) /\ y.lc = -1
        /\ y.sent \in Messages /\ SentSame(x, y, {"md"})
        /\ \A v \in y.sent.md :
             v \in x.sent.md \/ (x.last_executed \in Checkpoints /\ v = <<x.last_executed, x.state>>)
    BY <1>0, <1>2, DiscardFields
  <2>2. /\ CountersOK(x) /\ x.last_executed \in 0..MaxSeqno /\ x.last_tentative_execute \in 0..MaxSeqno
        /\ x.lc \in -1..MaxSeqno /\ MaxSeqno \in Nat
    BY <1>0, SeqnosAreNumbers DEF Typed, NumbersOK, LocalInv
  <2>3. x.last_executed \notin Checkpoints
    BY <2>1, <2>2 DEF CountersOK
  <2>4. /\ y.id = x.id /\ y.calls = x.calls /\ y.state = x.state /\ y.last_executed = x.last_executed
        /\ y.last_tentative_execute = x.last_tentative_execute /\ y.fetching = x.fetching
        /\ y.seqno = x.seqno /\ y.last_stable = x.last_stable
    BY <2>1 DEF Same, Fields
  <2>5. Typed(y)
    <3>1. FlagsOK(y) /\ LogsOK(y)
      BY <1>0, <2>1, KeepTypes DEF Avoids
    <3>2. NumbersOK(y)
      BY <1>0, <2>1, <2>2, <2>4 DEF Typed, NumbersOK
    <3> QED BY <1>0, <2>1, <2>4, <3>1, <3>2 DEF Typed, DataOK
  <2>6. CountersOK(y)
    BY <2>1, <2>2, <2>4 DEF CountersOK
  <2>7. TakenOK(y)
    BY <1>0, <2>1, <2>3 DEF TakenOK, LocalInv
  <2>8. OwnOK(y) /\ RoomOK(y) /\ CallsOK(y) /\ PendingOK(y)
    BY <1>0, <2>1, KeepInvariant DEF Avoids
  <2> QED BY <2>1, <2>5, <2>6, <2>7, <2>8 DEF Good, LocalInv
<1> QED BY <1>1, <1>2

(* A stable checkpoint message of mine; without one in elog the certificate *)
(* gets it now.                                                             *)
LEMMA OwnStableGood ==
  ASSUME NEW x, Good(x), NEW n \in Checkpoints, n <= x.last_executed,
         (\E k \in 1..Len(x.calls) : x.calls[k].op = "new_state") => Mine(x.elog[n], x.id) # None,
         NEW y, y = own_stable(x, n)
  PROVE  Good(y) /\ Same(x, y, {"elog", "sent"})
<1>0. Typed(x) /\ LocalInv(x) /\ x.id \in Replicas /\ x.sent \in Messages /\ LogsOK(x)
  BY DEF Good, Typed, DataOK
<1>1. PICK h : h = prefix(x, n)
  OBVIOUS
<1>2. PICK a : a = AddMyVote(x.elog[n], x.id, h)
  OBVIOUS
<1>3. PICK c : c = IF Mine(x.elog[n], x.id) # None THEN x.elog[n] ELSE MakeComplete(a)
  OBVIOUS
<1>4. PICK e : e = [x.elog EXCEPT ![n] = c]
  OBVIOUS
<1>5. h \in Seq(Digests)
  <2>1. /\ x.state \in Seq(Digests) /\ n \in Nat /\ n > 0 /\ n <= Len(x.state)
    BY <1>0, SeqnosAreNumbers DEF Typed, NumbersOK, DataOK, LocalInv, CountersOK
  <2> QED BY <1>1, <2>1, SubSeqProperties DEF prefix
<1>6. c \in OwnedBy(x.id, Seq(Digests))
  <2>1. x.elog[n] \in OwnedBy(x.id, Seq(Digests))
    BY <1>0 DEF LogsOK
  <2>2. a \in OwnedBy(x.id, Seq(Digests))
    BY <1>0, <1>2, <1>5, <2>1, AddMyVoteType
  <2>3. MakeComplete(a) \in OwnedBy(x.id, Seq(Digests))
    BY <1>0, <2>2, MakeCompleteType
  <2> QED BY <1>3, <2>1, <2>3
<1>7. PICK u : u = IF Mine(x.elog[n], x.id) # None THEN x
                   ELSE [x EXCEPT !.elog[n] = MakeComplete(AddMyVote(@, x.id, prefix(x, n)))]
  OBVIOUS
<1>8. u = [x EXCEPT !.elog = e]
  <2>1. CASE Mine(x.elog[n], x.id) # None
    <3>1. e = x.elog
      BY <1>0, <1>3, <1>4, <2>1 DEF LogsOK
    <3> QED BY <1>0, <1>7, <2>1, <3>1 DEF Typed, Shape, Fields
  <2>2. CASE Mine(x.elog[n], x.id) = None
    BY <1>1, <1>2, <1>3, <1>4, <1>7, <2>2
  <2> QED BY <2>1, <2>2
<1>9. Shape(u) /\ Same(x, u, {"elog"}) /\ u.elog = e
  BY <1>0, <1>8 DEF Typed, Shape, Same, Fields
<1>10. u.elog[n] = c /\ u.sent = x.sent
  BY <1>0, <1>4, <1>9 DEF LogsOK, Same, Fields
<1>11. y = IF Mine(u.elog[n], x.id) = None THEN u
           ELSE [u EXCEPT !.sent.k = @ \cup {<<n, Mine(u.elog[n], x.id), TRUE>>}]
  BY <1>7 DEF own_stable
<1>12. /\ Shape(y) /\ Same(x, y, {"elog", "sent"}) /\ y.elog = e
       /\ y.sent \in Messages /\ y.sent.md = x.sent.md
  <2>1. CASE Mine(c, x.id) = None
    BY <1>0, <1>9, <1>10, <1>11, <2>1 DEF Same, Fields
  <2>2. CASE Mine(c, x.id) # None
    <3>1. PICK s : s = [x.sent EXCEPT !.k = @ \cup {<<n, Mine(c, x.id), TRUE>>}]
      OBVIOUS
    <3>2. y = [u EXCEPT !.sent = s]
      BY <1>10, <1>11, <2>2, <3>1
    <3>3. Shape(y) /\ Same(u, y, {"sent"}) /\ y.sent = s
      BY <1>9, <3>2 DEF Shape, Same, Fields
    <3>4. Same(x, y, {"elog", "sent"}) /\ y.elog = e
      BY <1>9, <3>3 DEF Same, Fields
    <3>5. s \in Messages /\ s.md = x.sent.md
      <4>1. n \in Seqnos /\ TRUE \in BOOLEAN
        BY SeqnosAreNumbers
      <4>2. Mine(c, x.id) \in Seq(Digests)
        BY <1>6, <2>2 DEF OwnedBy, Mine
      <4>3. <<n, Mine(c, x.id), TRUE>> \in Seqnos \X Seq(Digests) \X BOOLEAN
        BY <4>1, <4>2
      <4>4. x.sent.k \in SUBSET (Seqnos \X Seq(Digests) \X BOOLEAN)
        BY <1>0 DEF Messages
      <4>5. x.sent.k \cup {<<n, Mine(c, x.id), TRUE>>}
              \in SUBSET (Seqnos \X Seq(Digests) \X BOOLEAN)
        BY <4>3, <4>4
      <4> HIDE DEF Mine
      <4> QED BY <1>0, <3>1, <4>5 DEF Messages
    <3> QED BY <3>3, <3>4, <3>5
  <2> QED BY <2>1, <2>2
<1>13. /\ y.id = x.id /\ y.plog = x.plog /\ y.clog = x.clog /\ y.sset = x.sset /\ y.calls = x.calls
       /\ y.seqno = x.seqno /\ y.last_executed = x.last_executed /\ y.state = x.state
       /\ y.relogged = x.relogged
  BY <1>12 DEF Same, Fields
<1>14. Typed(y)
  <2>1. NumbersOK(y) /\ FlagsOK(y)
    BY <1>0, <1>12, KeepTypes DEF Avoids
  <2>2. LogsOK(y)
    <3>1. e \in [Checkpoints -> OwnedBy(x.id, Seq(Digests))]
      BY <1>0, <1>4, <1>6 DEF LogsOK
    <3> QED BY <1>0, <1>12, <1>13, <3>1 DEF LogsOK
  <2> QED BY <1>0, <1>12, <1>13, <2>1, <2>2 DEF Typed, DataOK
<1>15. CountersOK(y) /\ RoomOK(y) /\ CallsOK(y)
  BY <1>0, <1>12, KeepInvariant DEF Avoids
<1>16. TakenOK(y)
  BY <1>0, <1>12 DEF TakenOK, LocalInv
<1>17. \A m \in Checkpoints : y.elog[m] = IF m = n THEN c ELSE x.elog[m]
  BY <1>0, <1>4, <1>12 DEF LogsOK
<1>18. OwnOK(y)
  BY <1>0, <1>13, <1>17 DEF OwnOK, LocalInv
<1>19. PendingOK(y)
  <2>1. CASE \A k \in 1..Len(x.calls) : x.calls[k].op # "new_state"
    BY <1>13, <2>1 DEF PendingOK
  <2>2. CASE Mine(x.elog[n], x.id) # None
    <3>1. \A m \in Checkpoints : y.elog[m] = x.elog[m]
      BY <1>3, <1>17, <2>2
    <3>2. y.elog = x.elog
      BY <1>0, <1>3, <1>4, <1>12, <2>2 DEF LogsOK
    <3> QED BY <1>0, <1>13, <3>2 DEF PendingOK, LocalInv
  <2> QED BY <2>1, <2>2
<1> QED BY <1>12, <1>14, <1>15, <1>16, <1>18, <1>19 DEF Good, LocalInv

(* mark_stable() or the walk over sset is put first. *)
LEMMA WalkCallGood ==
  ASSUME NEW x, Good(x), NoWalks(x), NEW f \in Frames, f.op \in Walks, f.n \in Seqnos,
         f.op = "mark_stable" /\ f.flag =>
           f.n \in Checkpoints /\ f.n <= x.last_executed /\ Mine(x.elog[f.n], x.id) # None,
         f.op = "transfer_sset" /\ f.n > x.last_stable => f.n \in Checkpoints,
         NEW y, y = Call(x, <<f>>)
  PROVE  Good(y) /\ Same(x, y, {"calls"})
<1>0. Typed(x) /\ LocalInv(x) /\ Len(x.calls) \in Nat
  BY LenProperties DEF Good, Typed, DataOK
<1>1. /\ Shape(y) /\ Same(x, y, {"calls"}) /\ y.calls \in Seq(Frames)
      /\ Len(y.calls) = Len(x.calls) + 1 /\ y.calls[1] = f
      /\ \A k \in 2..Len(y.calls) : y.calls[k] = x.calls[k - 1]
  BY <1>0, CallFields
<1>2. /\ y.last_executed = x.last_executed /\ y.last_stable = x.last_stable /\ y.seqno = x.seqno
      /\ y.last_tentative_execute = x.last_tentative_execute /\ y.state = x.state /\ y.sent = x.sent
      /\ y.elog = x.elog /\ y.id = x.id
  BY <1>1 DEF Same, Fields
<1>3. Typed(y)
  <2>1. NumbersOK(y) /\ FlagsOK(y) /\ LogsOK(y)
    BY <1>0, <1>1, KeepTypes DEF Avoids
  <2> QED BY <1>0, <1>1, <1>2, <2>1 DEF Typed, DataOK
<1>4. CountersOK(y) /\ TakenOK(y) /\ OwnOK(y)
  BY <1>0, <1>1, KeepInvariant DEF Avoids
<1>5. RoomOK(y)
  <2>1. x.calls # << >> => x.calls[1].op \notin Walks
    <3>1. x.calls # << >> => 1 \in 1..Len(x.calls)
      BY <1>0, EmptySeq DEF Typed, DataOK
    <3> QED BY <3>1 DEF NoWalks
  <2> QED BY <1>0, <1>2, <2>1 DEF RoomOK, LocalInv, Walks
<1>6. \A k \in 1..Len(y.calls) :
        \/ k = 1 /\ y.calls[k] = f
        \/ /\ k \in 2..Len(y.calls) /\ y.calls[k] = x.calls[k - 1] /\ k - 1 \in 1..Len(x.calls)
           /\ y.calls[k].op \notin Walks
  BY <1>0, <1>1 DEF NoWalks
<1>7. ASSUME NEW k \in 1..Len(y.calls), y.calls[k].op = "new_state"
      PROVE  k = 2 /\ Len(x.calls) = 1 /\ y.calls[2] = x.calls[1]
  <2>1. k \in 2..Len(y.calls) /\ y.calls[k] = x.calls[k - 1] /\ k - 1 \in 1..Len(x.calls)
    BY <1>6, <1>7 DEF Walks
  <2>2. k - 1 = Len(x.calls) /\ \A j \in 1..(k - 2) : x.calls[j].op \in Walks
    <3>1. CallsOK(x)
      BY <1>0 DEF LocalInv
    <3>2. PICK j \in 1..Len(x.calls) : j = k - 1
      BY <2>1
    <3>3. x.calls[j].op = "new_state"
      BY <1>7, <2>1, <3>2
    <3>4. j = Len(x.calls) /\ \A q \in 1..(j - 1) : x.calls[q].op \in Walks
      BY <3>1, <3>3 DEF CallsOK
    <3>5. 1..(j - 1) = 1..(k - 2)
      BY <2>1, <3>2
    <3> QED BY <3>2, <3>4, <3>5
  <2>3. k # 2 => 1 \in 1..(k - 2) /\ 1 \in 1..Len(x.calls)
    BY <2>1
  <2>4. k = 2
    BY <2>2, <2>3 DEF NoWalks
  <2> QED BY <1>0, <2>1, <2>2, <2>4
<1>8. CallsOK(y)
  <2>1. ASSUME NEW k \in 1..Len(y.calls)
        PROVE  LET g == y.calls[k]
               IN  /\ g.op \in Walks => k = 1 /\ g.n \in Seqnos
                   /\ g.op = "mark_stable" /\ g.flag => g.n \in Checkpoints /\ g.n <= y.last_executed
                   /\ g.op = "transfer_sset" /\ g.n > y.last_stable => g.n \in Checkpoints
                   /\ g.op \in {"new_state", "new_state_end"} =>
                        g.n \in Checkpoints /\ g.n <= y.last_executed
    <3>1. CASE k = 1 /\ y.calls[k] = f
      BY <1>2, <3>1 DEF Walks
    <3>2. CASE /\ y.calls[k] = x.calls[k - 1] /\ k - 1 \in 1..Len(x.calls)
               /\ y.calls[k].op \notin Walks
      BY <1>0, <1>2, <3>2 DEF Walks, CallsOK, LocalInv
    <3> QED BY <1>6, <3>1, <3>2
  <2>2. ASSUME NEW k \in 1..Len(y.calls), y.calls[k].op = "new_state"
        PROVE  k = Len(y.calls) /\ \A j \in 1..(k - 1) : y.calls[j].op \in Walks
    <3>1. k = 2 /\ Len(x.calls) = 1
      BY <1>7, <2>2
    <3>2. \A j \in 1..(k - 1) : j = 1
      BY <3>1
    <3> QED BY <1>1, <3>1, <3>2
  <2> QED BY <2>1, <2>2 DEF CallsOK
<1>9. PendingOK(y)
  <2> SUFFICES ASSUME NEW k \in 1..Len(y.calls), y.calls[k].op = "new_state"
               PROVE  /\ y.calls[k].flag => Mine(x.elog[y.calls[k].n], x.id) = None
                      /\ f.op = "mark_stable" /\ f.flag => Mine(x.elog[f.n], x.id) # None
    BY <1>1, <1>2 DEF PendingOK
  <2>1. y.calls[k] = x.calls[1] /\ 1 \in 1..Len(x.calls)
    BY <1>7
  <2> QED BY <1>0, <2>1 DEF PendingOK, LocalInv
<1> QED BY <1>1, <1>3, <1>4, <1>5, <1>8, <1>9 DEF Good, LocalInv

(* mark_stable(): what it is called for was executed, so it does not jump   *)
(* ahead.                                                                   *)
LEMMA MarkStableGood ==
  ASSUME NEW x, Good(x), x.calls # << >>, NEW n, NEW b, x.calls[1] = mark_stable(n, b),
         NEW y \in after_mark_stable(x, n, b)
  PROVE  Good(y) /\ y.id = x.id
<1>0. /\ Typed(x) /\ LocalInv(x) /\ CallsOK(x) /\ RoomOK(x) /\ PendingOK(x)
      /\ x.calls \in Seq(Frames) /\ Len(x.calls) \in Nat /\ 1 \in 1..Len(x.calls)
  BY LenProperties, EmptySeq DEF Good, Typed, DataOK, LocalInv
<1>1. /\ x.calls[1].op = "mark_stable" /\ x.calls[1].n = n /\ x.calls[1].flag = b /\ b \in BOOLEAN
  <2>1. x.calls[1] \in Frames
    BY <1>0
  <2> QED BY <2>1 DEF mark_stable, Frame, Frames
<1>2. /\ n \in Seqnos
      /\ b => n \in Checkpoints /\ n <= x.last_executed
  BY <1>0, <1>1 DEF CallsOK, Walks
<1>3. PICK w : w = Return(x)
  OBVIOUS
<1>4. /\ n \in Nat /\ x.last_stable \in Nat /\ x.last_tentative_execute \in Nat /\ x.seqno \in Nat
      /\ x.last_executed \in Nat /\ max_out \in Nat
  BY <1>0, <1>2, SeqnosAreNumbers DEF Typed, NumbersOK
<1>5. CASE n <= x.last_stable
  <2>1. y = w
    BY <1>3, <1>5 DEF after_mark_stable
  <2>2. Good(y) /\ Same(x, y, {"calls"})
    BY <1>1, <1>3, <1>5, <2>1, ReturnGood
  <2> QED BY <2>2 DEF Same, Fields
<1>6. CASE ~(n <= x.last_stable)
  <2>1. PICK t : t = truncate(w, n)
    OBVIOUS
  <2>2. PICK d : d = discard_checkpoint(t)
    OBVIOUS
  <2>3. PICK o : o = IF b THEN own_stable(d, n) ELSE d
    OBVIOUS
  <2>4. /\ Typed(w) /\ Same(x, w, {"calls"}) /\ NoWalks(w)
        /\ CountersOK(w) /\ TakenOK(w) /\ OwnOK(w) /\ CallsOK(w) /\ PendingOK(w)
        /\ \A k \in 1..Len(w.calls) : k + 1 \in 1..Len(x.calls) /\ w.calls[k] = x.calls[k + 1]
    BY <1>3, ReturnKeeps
  <2>5. /\ w.last_stable = x.last_stable /\ w.last_tentative_execute = x.last_tentative_execute
        /\ w.seqno = x.seqno /\ w.id = x.id /\ w.last_executed = x.last_executed /\ w.elog = x.elog
    BY <2>4 DEF Same, Fields
  <2>6. n > w.last_stable /\ w.last_tentative_execute <= n + max_out /\ w.seqno <= n + max_out
    BY <1>0, <1>1, <1>4, <1>6, <2>5 DEF RoomOK
  <2>7. /\ Good(t) /\ Same(w, t, {"last_stable", "seqno", "plog", "clog", "elog", "sent"})
        /\ t.last_stable = n /\ (n \in Checkpoints => t.elog[n] = w.elog[n])
    BY <1>2, <2>1, <2>4, <2>6, TruncateGood
  <2>8. Good(d) /\ Same(t, d, {"lc", "sent"})
    BY <2>2, <2>7, DiscardGood
  <2>9. /\ d.id = x.id /\ d.last_executed = x.last_executed /\ d.calls = w.calls
        /\ d.last_stable = n /\ (n \in Checkpoints => d.elog[n] = x.elog[n])
        /\ t.last_executed = x.last_executed
    BY <2>5, <2>7, <2>8 DEF Same, Fields
  <2>10. ~(b /\ n > t.last_executed)
    BY <1>2, <1>4, <2>9
  <2>11. y = Call(o, <<transfer_sset(n)>>)
    BY <1>3, <1>6, <2>1, <2>2, <2>3, <2>10 DEF after_mark_stable
  <2>12. Good(o) /\ Same(d, o, {"elog", "sent"})
    <3>1. CASE b
      <4>1. ASSUME NEW k \in 1..Len(d.calls), d.calls[k].op = "new_state"
            PROVE  Mine(d.elog[n], d.id) # None
        <5>1. x.calls[k + 1].op = "new_state" /\ k + 1 \in 1..Len(x.calls)
          BY <2>4, <2>9, <4>1
        <5> QED BY <1>0, <1>1, <1>2, <2>9, <3>1, <5>1 DEF PendingOK
      <4>2. n <= d.last_executed /\ n \in Checkpoints
        BY <1>2, <2>9, <3>1
      <4> QED BY <2>3, <2>8, <3>1, <4>1, <4>2, OwnStableGood
    <3>2. CASE ~b
      BY <2>3, <2>8, <3>2 DEF Same
    <3> QED BY <3>1, <3>2
  <2>13. o.id = x.id /\ o.calls = w.calls /\ o.last_stable = n /\ NoWalks(o)
    BY <2>4, <2>9, <2>12 DEF Same, Fields, NoWalks
  <2>14. /\ transfer_sset(n) \in Frames /\ transfer_sset(n).op = "transfer_sset"
         /\ transfer_sset(n).n = n /\ transfer_sset(n).op \in Walks
    BY <1>4, FrameTypes DEF transfer_sset, Frame, Walks
  <2>15. ~(n > o.last_stable)
    BY <1>4, <2>13
  <2>16. Good(y) /\ Same(o, y, {"calls"})
    BY <1>2, <2>11, <2>12, <2>13, <2>14, <2>15, WalkCallGood
  <2> QED BY <2>13, <2>16 DEF Same, Fields
<1> QED BY <1>5, <1>6

(* The walk over sset moves a checkpoint message to elog. *)
LEMMA TransferGood ==
  ASSUME NEW x, Good(x), x.calls # << >>, x.calls[1].op = "transfer_sset",
         NEW m, m = x.calls[1].n,
         NEW i \in in_sset(x), NEW y, y = transfer(x, i, m)
  PROVE  Good(y) /\ y.id = x.id
<1>0. /\ Typed(x) /\ LocalInv(x) /\ CallsOK(x) /\ LogsOK(x) /\ x.id \in Replicas
      /\ x.calls \in Seq(Frames) /\ Len(x.calls) \in Nat /\ 1 \in 1..Len(x.calls)
  BY LenProperties, EmptySeq DEF Good, Typed, DataOK, LocalInv
<1>1. /\ x.calls[1].op = "transfer_sset" /\ x.calls[1].n = m
      /\ m \in Seqnos /\ (m > x.last_stable => m \in Checkpoints)
  BY <1>0 DEF CallsOK, Walks
<1>2. PICK n : n = x.sset[i][1]
  OBVIOUS
<1>3. PICK h : h = x.sset[i][2]
  OBVIOUS
<1>4. i \in Replicas \ {x.id} /\ n \in Checkpoints /\ h \in Seq(Digests)
  <2>1. i \in Replicas /\ x.sset[i] # None /\ x.sset[x.id] = None
    BY <1>0 DEF in_sset, LocalInv, OwnOK
  <2>2. x.sset[i] \in Checkpoints \X Seq(Digests)
    BY <1>0, <2>1 DEF LogsOK
  <2> QED BY <1>2, <1>3, <2>1, <2>2
<1>5. PICK s : s = remove(x.sset, i)
  OBVIOUS
<1>6. PICK u : u = [x EXCEPT !.sset = s]
  OBVIOUS
<1>7. s \in [Replicas -> {None} \cup (Checkpoints \X Seq(Digests))] /\ s[x.id] = None
  BY <1>0, <1>4, <1>5 DEF remove, LogsOK, LocalInv, OwnOK
<1>8. Good(u) /\ Same(x, u, {"sset"})
  BY <1>6, <1>7, SsetUpdateGood
<1>9. /\ u.id = x.id /\ u.calls = x.calls /\ u.elog = x.elog /\ u.last_stable = x.last_stable
      /\ Shape(u)
  BY <1>8 DEF Same, Fields, Good, Typed
<1>10. CASE n < x.last_stable
  <2>1. y = u
    BY <1>2, <1>5, <1>6, <1>10 DEF transfer
  <2> QED BY <1>8, <1>9, <2>1
<1>11. CASE ~(n < x.last_stable)
  <2>1. PICK e : e = AddVote(x.elog[n], checkpoints, i, h)
    OBVIOUS
  <2>2. PICK l : l = IF IsComplete(e, checkpoints) /\ n > m THEN n ELSE m
    OBVIOUS
  <2>3. y = [u EXCEPT !.elog[n] = e, !.calls[1].n = l]
    BY <1>2, <1>3, <1>5, <1>6, <1>11, <2>1, <2>2 DEF transfer
  <2>4. PICK v : v = [u EXCEPT !.elog = [x.elog EXCEPT ![n] = e]]
    OBVIOUS
  <2>5. PICK f : f = [x.calls[1] EXCEPT !.n = l]
    OBVIOUS
  <2>6. PICK c : c = [x.calls EXCEPT ![1] = f] /\ y = [v EXCEPT !.calls = c]
    <3>1. PICK c : c = [x.calls EXCEPT ![1] = f]
      OBVIOUS
    <3>2. y = [u EXCEPT !.elog = [x.elog EXCEPT ![n] = e], !.calls = c]
      BY <1>9, <2>3, <2>5, <3>1
    <3>3. y = [v EXCEPT !.calls = c]
      BY <1>9, <2>4, <3>2 DEF Shape, Fields
    <3> QED BY <3>1, <3>3
  <2>7. Shape(v) /\ Same(u, v, {"elog"}) /\ v.elog = [u.elog EXCEPT ![n] = e]
    BY <1>9, <2>4 DEF Shape, Same, Fields
  <2>8. e \in OwnedBy(x.id, Seq(Digests)) /\ Mine(e, x.id) \in {None, Mine(x.elog[n], x.id)}
    <3>1. AddedTo(Seq(Digests), x.id, x.elog[n], i, h, e)
      BY <1>0, <1>4, <2>1, AddVoteType DEF LogsOK
    <3> QED BY <3>1 DEF AddedTo, Mine
  <2>9. Good(v)
    BY <1>1, <1>4, <1>8, <1>9, <2>7, <2>8, ElogUpdateGood
  <2>10. /\ Typed(v) /\ LocalInv(v) /\ v.calls = x.calls /\ v.id = x.id
         /\ v.last_stable = x.last_stable
    BY <1>9, <2>7, <2>9 DEF Good, Same, Fields
  <2>11. Shape(y) /\ Same(v, y, {"calls"}) /\ y.calls = c
    BY <2>6, <2>10 DEF Typed, Shape, Same, Fields
  <2>12. /\ l \in Seqnos /\ (l > x.last_stable => l \in Checkpoints) /\ l \in Nat
    BY <1>1, <1>4, <2>2, SeqnosAreNumbers
  <2>13. f \in Frames /\ f.op = "transfer_sset" /\ f.n = l
    <3>1. x.calls[1] \in Frames
      BY <1>0
    <3> QED BY <1>1, <2>5, <2>12, <3>1 DEF Frames
  <2>14. /\ c \in Seq(Frames) /\ Len(c) = Len(x.calls) /\ c[1] = f
         /\ \A k \in 1..Len(c) : k # 1 => c[k] = x.calls[k]
    BY <1>0, <2>6, <2>13
  <2>15. /\ y.last_executed = v.last_executed /\ y.last_stable = v.last_stable /\ y.seqno = v.seqno
         /\ y.last_tentative_execute = v.last_tentative_execute /\ y.state = v.state /\ y.sent = v.sent
         /\ y.elog = v.elog /\ y.id = v.id
    BY <2>11 DEF Same, Fields
  <2>16. Typed(y)
    <3>1. NumbersOK(y) /\ FlagsOK(y) /\ LogsOK(y)
      BY <2>10, <2>11, KeepTypes DEF Avoids
    <3> QED BY <2>10, <2>11, <2>14, <2>15, <3>1 DEF Typed, DataOK
  <2>17. CountersOK(y) /\ TakenOK(y) /\ OwnOK(y)
    BY <2>10, <2>11, KeepInvariant DEF Avoids
  <2>18. RoomOK(y)
    BY <1>1, <2>10, <2>15 DEF RoomOK, LocalInv
  <2>19. CallsOK(y)
    <3>1. CallsOK(v) /\ v.calls[1].op \in Walks
      BY <1>1, <2>10 DEF LocalInv, Walks
    <3>2. \A k \in 1..Len(y.calls) : k \in 1..Len(v.calls) /\ y.calls[k].op = v.calls[k].op
      BY <1>1, <2>10, <2>11, <2>13, <2>14
    <3>3. \A k \in 1..Len(y.calls) : k # 1 => y.calls[k] = v.calls[k]
      BY <2>10, <2>11, <2>14
    <3>4. ASSUME NEW k \in 1..Len(y.calls)
          PROVE  LET g == y.calls[k]
                 IN  /\ g.op \in Walks => k = 1 /\ g.n \in Seqnos
                     /\ g.op = "mark_stable" /\ g.flag => g.n \in Checkpoints /\ g.n <= y.last_executed
                     /\ g.op = "transfer_sset" /\ g.n > y.last_stable => g.n \in Checkpoints
                     /\ g.op \in {"new_state", "new_state_end"} =>
                          g.n \in Checkpoints /\ g.n <= y.last_executed
      <4>1. CASE k = 1
        BY <2>10, <2>11, <2>12, <2>13, <2>14, <2>15, <4>1 DEF Walks
      <4>2. CASE k # 1
        BY <2>15, <3>1, <3>2, <3>3, <4>2 DEF CallsOK
      <4> QED BY <4>1, <4>2
    <3>5. ASSUME NEW k \in 1..Len(y.calls), y.calls[k].op = "new_state"
          PROVE  k = Len(y.calls) /\ \A j \in 1..(k - 1) : y.calls[j].op \in Walks
      <4>1. k = Len(v.calls) /\ \A j \in 1..(k - 1) : v.calls[j].op \in Walks
        BY <3>1, <3>2, <3>5 DEF CallsOK
      <4>2. \A j \in 1..(k - 1) : j \in 1..Len(y.calls)
        OBVIOUS
      <4> QED BY <2>10, <2>11, <2>14, <3>2, <4>1, <4>2
    <3> QED BY <3>4, <3>5 DEF CallsOK
  <2>20. PendingOK(y)
    <3>1. \A k \in 1..Len(y.calls) : y.calls[k].op = "new_state" =>
            k \in 1..Len(v.calls) /\ y.calls[k] = v.calls[k]
      BY <2>10, <2>11, <2>13, <2>14
    <3> QED BY <2>10, <2>11, <2>13, <2>14, <2>15, <3>1 DEF PendingOK, LocalInv
  <2> QED BY <2>10, <2>15, <2>16, <2>17, <2>18, <2>19, <2>20 DEF Good, LocalInv
<1> QED BY <1>10, <1>11

(* The walk over sset goes on, or ends with a checkpoint that became stable *)
(* or with the primary proposing.                                           *)
LEMMA TransferSsetGood ==
  ASSUME NEW x, Good(x), x.calls # << >>, x.calls[1].op = "transfer_sset",
         NEW m, m = x.calls[1].n,
         NEW y \in after_transfer_sset(x, m)
  PROVE  Good(y) /\ y.id = x.id
<1>0. /\ Typed(x) /\ LocalInv(x) /\ CallsOK(x)
      /\ x.calls \in Seq(Frames) /\ Len(x.calls) \in Nat /\ 1 \in 1..Len(x.calls)
  BY LenProperties, EmptySeq DEF Good, Typed, DataOK, LocalInv
<1>1. /\ x.calls[1].op = "transfer_sset" /\ x.calls[1].n = m
      /\ m \in Seqnos /\ (m > x.last_stable => m \in Checkpoints)
  BY <1>0 DEF CallsOK, Walks
<1>2. PICK w : w = Return(x)
  OBVIOUS
<1>3. Good(w) /\ Same(x, w, {"calls"}) /\ NoWalks(w)
  BY <1>1, <1>2, ReturnGood, ReturnKeeps
<1>4. w.id = x.id /\ w.elog = x.elog /\ w.last_executed = x.last_executed
  BY <1>3 DEF Same, Fields
<1>5. PICK b : b = (Mine(x.elog[m], x.id) # None) /\ b \in BOOLEAN
  OBVIOUS
<1>6. \/ \E i \in in_sset(x) : y = transfer(x, i, m)
      \/ m > x.last_stable /\ y = Call(w, <<mark_stable(m, b)>>)
      \/ y \in send_pre_prepare(w)
  BY <1>2, <1>5 DEF after_transfer_sset
<1>7. CASE \E i \in in_sset(x) : y = transfer(x, i, m)
  BY <1>7, TransferGood
<1>8. CASE m > x.last_stable /\ y = Call(w, <<mark_stable(m, b)>>)
  <2>1. PICK f : f = mark_stable(m, b)
    OBVIOUS
  <2>2. f \in Frames /\ f.op = "mark_stable" /\ f.n = m /\ f.flag = b /\ f.op \in Walks
    BY <1>1, <1>5, <2>1, FrameTypes, SeqnosAreNumbers DEF mark_stable, Frame, Walks
  <2>3. b => m \in Checkpoints /\ m <= w.last_executed /\ Mine(w.elog[m], w.id) # None
    BY <1>0, <1>1, <1>4, <1>5, <1>8 DEF LocalInv, OwnOK
  <2>4. Good(y) /\ Same(w, y, {"calls"})
    BY <1>1, <1>3, <1>8, <2>1, <2>2, <2>3, WalkCallGood
  <2> QED BY <1>4, <2>4 DEF Same, Fields
<1>9. CASE y \in send_pre_prepare(w)
  BY <1>3, <1>4, <1>9, SendPrePrepareGood DEF Same, Fields
<1> QED BY <1>6, <1>7, <1>8, <1>9

(* new_state(): my checkpoint message for the state fetched, if I was       *)
(* behind, and the calls that end it.                                       *)
LEMMA NewStateGood ==
  ASSUME NEW x, Good(x), x.calls # << >>, NEW c, NEW b, x.calls[1] = new_state(c, b),
         NEW y \in after_new_state(x, c, b)
  PROVE  Good(y) /\ y.id = x.id
<1>0. /\ Typed(x) /\ LocalInv(x) /\ CallsOK(x)
      /\ x.calls \in Seq(Frames) /\ Len(x.calls) \in Nat /\ 1 \in 1..Len(x.calls)
  BY LenProperties, EmptySeq DEF Good, Typed, DataOK, LocalInv
<1>1. x.calls[1].op = "new_state" /\ x.calls[1].n = c /\ x.calls[1].flag = b
  BY DEF new_state, Frame
<1>2. c \in Checkpoints /\ c <= x.last_executed /\ Len(x.calls) = 1
  BY <1>0, <1>1 DEF CallsOK
<1>3. b => Mine(x.elog[c], x.id) = None
  BY <1>0, <1>1 DEF LocalInv, PendingOK
<1>4. PICK w : w = Return(x)
  OBVIOUS
<1>5. Good(w) /\ Same(x, w, {"calls"}) /\ w.calls = << >>
  <2>1. Good(w) /\ Same(x, w, {"calls"})
    BY <1>1, <1>4, ReturnGood
  <2>2. Len(w.calls) = 0 /\ w.calls \in Seq(Frames)
    BY <1>0, <1>2, <1>4, ReturnFields
  <2> QED BY <2>1, <2>2, EmptySeq
<1>6. PICK u : u = IF b THEN send_checkpoint(w, c) ELSE w
  OBVIOUS
<1>7. w.id = x.id /\ w.elog = x.elog /\ w.last_executed = x.last_executed
  BY <1>5 DEF Same, Fields
<1>8. Good(u) /\ Same(w, u, {"relogged", "elog", "sent"})
  <2>1. CASE b
    <3>1. \A k \in 1..Len(w.calls) : w.calls[k].op # "new_state"
      BY <1>5
    <3>2. u = send_checkpoint(w, c) /\ c <= w.last_executed /\ Mine(w.elog[c], w.id) = None
      BY <1>2, <1>3, <1>6, <1>7, <2>1
    <3> QED BY <1>2, <1>5, <3>1, <3>2, SendCheckpointGood
  <2>2. CASE ~b
    BY <1>5, <1>6, <2>2 DEF Same
  <2> QED BY <2>1, <2>2
<1>9. /\ u.id = x.id /\ u.calls = << >> /\ u.last_executed = x.last_executed
      /\ Typed(u) /\ LocalInv(u) /\ Shape(u)
  BY <1>5, <1>7, <1>8 DEF Same, Fields, Good, Typed
<1>10. PICK f : f = mark_stable(c, TRUE)
  OBVIOUS
<1>11. PICK g : g = new_state_end(c)
  OBVIOUS
<1>12. PICK e : e = execute_committed
  OBVIOUS
<1>13. PICK t : t = try_send_pre_prepare
  OBVIOUS
<1>14. /\ f \in Frames /\ f.op = "mark_stable" /\ f.n = c /\ f.flag = TRUE
       /\ g \in Frames /\ g.op = "new_state_end" /\ g.n = c
       /\ e \in Frames /\ e.op = "execute_committed"
       /\ t \in Frames /\ t.op = "send_pre_prepare"
       /\ c \in Seqnos
  BY <1>2, <1>10, <1>11, <1>12, <1>13, FrameTypes, SeqnosAreNumbers
     DEF mark_stable, new_state_end, execute_committed, try_send_pre_prepare, Frame
<1>15. PICK q : /\ q \in Seq(Frames)
                /\ \A k \in 1..Len(q) : (k = 1 /\ q[k] = f) \/ q[k] \in {g, e, t}
                /\ y = [u EXCEPT !.calls = q]
  <2>1. PICK p : (p = << >> \/ p = <<f>>) /\ y = Call(u, p \o <<g, e, t>>)
    BY <1>4, <1>6, <1>10, <1>11, <1>12, <1>13 DEF after_new_state
  <2>2. PICK r : r = <<g, e, t>>
    OBVIOUS
  <2>3. r \in Seq(Frames) /\ Len(r) = 3 /\ \A k \in 1..Len(r) : r[k] \in {g, e, t}
    BY <1>14, <2>2
  <2>4. p \in Seq(Frames) /\ Len(p) \in Nat /\ \A k \in 1..Len(p) : k = 1 /\ p[k] = f
    <3>1. CASE p = << >>
      BY <3>1
    <3>2. CASE p = <<f>>
      <4>1. <<f>> \in Seq(Frames) /\ Len(<<f>>) = 1 /\ <<f>>[1] = f
        BY <1>14
      <4> QED BY <3>2, <4>1
    <3> QED BY <2>1, <3>1, <3>2
  <2>5. PICK q : q = p \o r
    OBVIOUS
  <2>6. /\ q \in Seq(Frames) /\ Len(q) = Len(p) + Len(r)
        /\ \A k \in 1..Len(q) : q[k] = IF k <= Len(p) THEN p[k] ELSE r[k - Len(p)]
    <3>1. p \in Seq(Frames) /\ r \in Seq(Frames)
      BY <2>3, <2>4
    <3> QED BY <2>5, <3>1, ConcatFrames
  <2>7. \A k \in 1..Len(q) : (k = 1 /\ q[k] = f) \/ q[k] \in {g, e, t}
    BY <2>3, <2>4, <2>6
  <2>8. y = [u EXCEPT !.calls = q]
    <3>1. q \o << >> = q
      BY <2>6, ConcatEmptySeq
    <3>2. y = [u EXCEPT !.calls = q \o << >>]
      BY <1>9, <2>1, <2>2, <2>5 DEF Call
    <3> QED BY <3>1, <3>2
  <2> QED BY <2>6, <2>7, <2>8
<1>16. Shape(y) /\ Same(u, y, {"calls"}) /\ y.calls = q
  BY <1>9, <1>15 DEF Shape, Same, Fields
<1>17. /\ y.id = x.id /\ y.last_executed = x.last_executed /\ y.state = u.state /\ y.sent = u.sent
       /\ y.last_stable = u.last_stable /\ y.seqno = u.seqno
       /\ y.last_tentative_execute = u.last_tentative_execute
  BY <1>9, <1>16 DEF Same, Fields
<1>18. Typed(y)
  <2>1. NumbersOK(y) /\ FlagsOK(y) /\ LogsOK(y)
    BY <1>9, <1>16, KeepTypes DEF Avoids
  <2> QED BY <1>0, <1>9, <1>15, <1>16, <1>17, <2>1 DEF Typed, DataOK
<1>19. CountersOK(y) /\ TakenOK(y) /\ OwnOK(y)
  BY <1>9, <1>16, KeepInvariant DEF Avoids
<1>20. RoomOK(y)
  BY <1>9, <1>17 DEF RoomOK, LocalInv
<1>21. CallsOK(y)
  <2>1. ASSUME NEW k \in 1..Len(q)
        PROVE  /\ q[k].op \in Walks => k = 1 /\ q[k].n \in Seqnos
               /\ q[k].op = "mark_stable" /\ q[k].flag => q[k].n \in Checkpoints /\ q[k].n <= y.last_executed
               /\ q[k].op # "transfer_sset"
               /\ q[k].op = "new_state_end" => q[k].n \in Checkpoints /\ q[k].n <= y.last_executed
               /\ q[k].op # "new_state"
    <3>1. CASE k = 1 /\ q[k] = f
      BY <1>2, <1>14, <1>17, <3>1 DEF Walks
    <3>2. CASE q[k] \in {g, e, t}
      BY <1>2, <1>14, <1>17, <3>2 DEF Walks
    <3> QED BY <1>15, <3>1, <3>2
  <2> QED BY <1>16, <2>1 DEF CallsOK
<1>22. PendingOK(y)
  <2>1. \A k \in 1..Len(q) : q[k].op # "new_state"
    BY <1>14, <1>15
  <2> QED BY <1>16, <2>1 DEF PendingOK
<1> QED BY <1>17, <1>18, <1>19, <1>20, <1>21, <1>22 DEF Good, LocalInv

(* The end of new_state(): proposals start above the state fetched. *)
LEMMA NewStateEndGood ==
  ASSUME NEW x, Good(x), x.calls # << >>, x.calls[1].op = "new_state_end",
         NEW m, m = x.calls[1].n,
         NEW y, y = [Return(x) EXCEPT !.seqno = IF m > @ THEN m ELSE @]
  PROVE  Good(y) /\ y.id = x.id
<1>0. /\ Typed(x) /\ LocalInv(x) /\ CallsOK(x)
      /\ x.calls \in Seq(Frames) /\ Len(x.calls) \in Nat /\ 1 \in 1..Len(x.calls)
  BY LenProperties, EmptySeq DEF Good, Typed, DataOK, LocalInv
<1>1. m \in Checkpoints /\ m <= x.last_executed
  BY <1>0 DEF CallsOK
<1>2. PICK w : w = Return(x)
  OBVIOUS
<1>3. Good(w) /\ Same(x, w, {"calls"})
  BY <1>2, ReturnGood
<1>4. PICK s : s = IF m > w.seqno THEN m ELSE w.seqno
  OBVIOUS
<1>5. y = [w EXCEPT !.seqno = s]
  BY <1>2, <1>4
<1>6. /\ Typed(w) /\ LocalInv(w) /\ w.last_executed = x.last_executed /\ w.id = x.id
      /\ w.last_stable = x.last_stable /\ w.last_tentative_execute = x.last_tentative_execute
  BY <1>3 DEF Good, Same, Fields
<1>7. Shape(y) /\ Same(w, y, {"seqno"}) /\ y.seqno = s
  BY <1>5, <1>6 DEF Typed, Shape, Same, Fields
<1>8. /\ m \in Nat /\ m <= MaxSeqno /\ MaxSeqno \in Nat /\ max_out \in Nat
      /\ w.seqno \in 0..MaxSeqno /\ w.last_stable \in Nat /\ w.last_executed \in Nat
      /\ w.last_tentative_execute \in Nat /\ Seqnos \subseteq Nat
  BY <1>1, <1>6, SeqnosAreNumbers DEF Typed, NumbersOK
<1>9. s \in 0..MaxSeqno /\ s >= w.seqno /\ s <= w.last_stable + max_out
  <2>1. m <= w.last_stable + max_out
    <3>1. RoomOK(x) /\ x.last_executed <= x.last_tentative_execute
      BY <1>0 DEF LocalInv, CountersOK
    <3>2. x.last_tentative_execute <= x.last_stable + max_out
      BY <3>1 DEF RoomOK
    <3> QED BY <1>1, <1>6, <1>8, <3>1, <3>2
  <2>2. w.seqno <= w.last_stable + max_out
    BY <1>6 DEF LocalInv, RoomOK
  <2> QED BY <1>4, <1>8, <2>1, <2>2
<1>10. /\ y.id = x.id /\ y.plog = w.plog /\ y.clog = w.clog /\ y.elog = w.elog /\ y.sset = w.sset
       /\ y.last_executed = w.last_executed /\ y.relogged = w.relogged /\ y.calls = w.calls
       /\ y.last_stable = w.last_stable /\ y.last_tentative_execute = w.last_tentative_execute
       /\ y.lc = w.lc
  BY <1>6, <1>7 DEF Same, Fields
<1>11. Typed(y)
  <2>1. FlagsOK(y) /\ LogsOK(y) /\ DataOK(y)
    BY <1>6, <1>7, KeepTypes DEF Avoids
  <2>2. NumbersOK(y)
    BY <1>6, <1>7, <1>9, <1>10 DEF Typed, NumbersOK
  <2> QED BY <1>0, <1>7, <1>10, <2>1, <2>2 DEF Typed
<1>12. CountersOK(y) /\ TakenOK(y) /\ CallsOK(y) /\ PendingOK(y)
  BY <1>6, <1>7, KeepInvariant DEF Avoids
<1>13. OwnOK(y)
  <2>1. \A n \in Seqnos : n > y.seqno => n > w.seqno
    BY <1>7, <1>8, <1>9
  <2> QED BY <1>6, <1>10, <2>1 DEF OwnOK, LocalInv
<1>14. RoomOK(y)
  BY <1>6, <1>7, <1>9, <1>10 DEF RoomOK, LocalInv
<1> QED BY <1>10, <1>11, <1>12, <1>13, <1>14 DEF Good, LocalInv

(* Any of the calls. *)
LEMMA AfterCallGood ==
  ASSUME NEW x, Good(x), x.calls # << >>, NEW y \in after_call(x)
  PROVE  Good(y) /\ y.id = x.id
<1>1. PICK f : f = x.calls[1]
  OBVIOUS
<1>2. f \in Frames /\ Head(x.calls) = f
  BY <1>1, HeadTailProperties, LenProperties, EmptySeq DEF Good, Typed, DataOK
<1>3. f.op \in {"execute_committed", "mark_stable", "transfer_sset", "new_state",
                "new_state_end", "send_pre_prepare"} /\ f.flag \in BOOLEAN
  BY <1>2 DEF Frames
<1>4. f = [a \in {"op", "n", "flag"} |-> f[a]]
  BY <1>2 DEF Frames
<1>5. CASE f.op = "execute_committed"
  <2>1. y \in after_execute_committed(x)
    BY <1>2, <1>5 DEF after_call
  <2> QED BY <1>1, <1>5, <2>1, ExecuteCommittedGood
<1>6. CASE f.op = "mark_stable"
  <2>1. y \in after_mark_stable(x, f.n, f.flag)
    BY <1>2, <1>6 DEF after_call
  <2>2. f = mark_stable(f.n, f.flag)
    BY <1>4, <1>6 DEF mark_stable, Frame
  <2> QED BY <1>1, <2>1, <2>2, MarkStableGood
<1>7. CASE f.op = "transfer_sset"
  <2>1. y \in after_transfer_sset(x, f.n)
    BY <1>2, <1>7 DEF after_call
  <2> QED BY <1>1, <1>7, <2>1, TransferSsetGood
<1>8. CASE f.op = "new_state"
  <2>1. y \in after_new_state(x, f.n, f.flag)
    BY <1>2, <1>8 DEF after_call
  <2>2. f = new_state(f.n, f.flag)
    BY <1>4, <1>8 DEF new_state, Frame
  <2> QED BY <1>1, <2>1, <2>2, NewStateGood
<1>9. CASE f.op = "new_state_end"
  <2>1. y \in {[Return(x) EXCEPT !.seqno = IF f.n > @ THEN f.n ELSE @]}
    BY <1>2, <1>9 DEF after_call
  <2>2. PICK m : m = f.n
    OBVIOUS
  <2>3. y = [Return(x) EXCEPT !.seqno = IF m > @ THEN m ELSE @]
    BY <2>1, <2>2
  <2> QED BY <1>1, <1>9, <2>2, <2>3, NewStateEndGood
<1>10. CASE f.op = "send_pre_prepare"
  <2>1. y \in send_pre_prepare(Return(x))
    BY <1>2, <1>10 DEF after_call
  <2>2. PICK w : w = Return(x)
    OBVIOUS
  <2>3. Good(w) /\ w.id = x.id
    BY <1>1, <1>10, <2>2, ReturnGood DEF Same, Fields
  <2> QED BY <2>1, <2>2, <2>3, SendPrePrepareGood DEF Same, Fields
<1> QED BY <1>3, <1>5, <1>6, <1>7, <1>8, <1>9, <1>10

(* new_state(c) makes room for c: the window moves far enough, to a number  *)
(* that is not said to be a checkpoint of mine unless I executed it.        *)
LEMMA MakeRoomCalls ==
  ASSUME NEW x, Good(x), NEW c \in Checkpoints, NEW p, p = make_room(x, c)
  PROVE  /\ p \in Seq(Frames) /\ Len(p) \in {0, 1}
         /\ Len(p) = 0 => ~(c > x.last_executed) \/ c <= x.last_stable + max_out
         /\ Len(p) = 1 =>
              /\ p[1].op = "mark_stable" /\ p[1].n \in Seqnos /\ c <= p[1].n + max_out
              /\ p[1].n > x.last_stable /\ p[1].n < c
              /\ p[1].flag => /\ p[1].n \in Checkpoints /\ Mine(x.elog[p[1].n], x.id) # None
                              /\ p[1].n <= x.last_executed
<1>1. PICK low : low = c - max_out
  OBVIOUS
<1>2. PICK b : b = (low \in Checkpoints /\ Mine(x.elog[low], x.id) # None) /\ b \in BOOLEAN
  OBVIOUS
<1>3. p = IF c > x.last_executed /\ low > x.last_stable THEN <<mark_stable(low, b)>> ELSE << >>
  BY <1>1, <1>2 DEF make_room
<1>4. /\ c \in Nat /\ c <= MaxSeqno /\ MaxSeqno \in Nat /\ max_out \in Nat /\ max_out > 0
      /\ x.last_stable \in Nat /\ x.last_executed \in Nat
  BY SeqnosAreNumbers DEF Good, Typed, NumbersOK
<1>5. CASE c > x.last_executed /\ low > x.last_stable
  <2>1. PICK f : f = mark_stable(low, b)
    OBVIOUS
  <2>2. low \in Nat /\ low > 0 /\ low <= MaxSeqno /\ c <= low + max_out /\ low < c
    BY <1>1, <1>4, <1>5
  <2>3. low \in Seqnos
    BY <2>2 DEF Seqnos
  <2>4. f \in Frames /\ f.op = "mark_stable" /\ f.n = low /\ f.flag = b
    BY <1>2, <2>1, <2>2, FrameTypes DEF mark_stable, Frame
  <2>5. b => low \in Checkpoints /\ Mine(x.elog[low], x.id) # None
    BY <1>2, Zenon
  <2>7. b => low <= x.last_executed
    BY <2>5 DEF Good, LocalInv, OwnOK
  <2>6. p \in Seq(Frames) /\ Len(p) = 1 /\ p[1] = f
    <3>1. p = <<f>>
      BY <1>3, <1>5, <2>1
    <3>2. <<f>> \in Seq(Frames) /\ Len(<<f>>) = 1 /\ <<f>>[1] = f
      BY <2>4
    <3> QED BY <3>1, <3>2
  <2> QED BY <1>5, <2>2, <2>3, <2>4, <2>5, <2>6, <2>7
<1>6. CASE ~(c > x.last_executed /\ low > x.last_stable)
  <2>1. p = << >>
    BY <1>3, <1>6
  <2>2. ~(c > x.last_executed) \/ c <= x.last_stable + max_out
    BY <1>1, <1>4, <1>6
  <2> QED BY <2>1, <2>2
<1> QED BY <1>5, <1>6

(* A state transfer ends with a checkpoint that is what its number says. *)
LEMMA FetchDoneGood ==
  ASSUME NEW x, Good(x), x.calls = << >>, x.fetching,
         NEW c \in Checkpoints, NEW h \in Seq(Digests), Len(h) = c, c >= x.last_executed,
         NEW y \in fetch_done(x, c, h)
  PROVE  Good(y) /\ y.id = x.id
<1>0. /\ Typed(x) /\ LocalInv(x) /\ x.sent \in Messages /\ CountersOK(x) /\ RoomOK(x) /\ OwnOK(x)
      /\ c \in Nat /\ c <= MaxSeqno /\ MaxSeqno \in Nat /\ max_out \in Nat /\ Checkpoints \subseteq Nat
      /\ x.last_executed \in Nat /\ x.last_tentative_execute \in Nat /\ x.last_stable \in Nat
      /\ x.seqno \in Nat /\ c \in Seqnos
  BY SeqnosAreNumbers DEF Good, Typed, DataOK, NumbersOK, LocalInv
<1>1. PICK b : b = (c > x.last_executed) /\ b \in BOOLEAN
  <2>1. CASE c > x.last_executed
    <3>1. TRUE = (c > x.last_executed)
      BY <2>1
    <3> QED BY <3>1
  <2>2. CASE ~(c > x.last_executed)
    <3>1. FALSE = (c > x.last_executed)
      BY <2>2
    <3> QED BY <3>1
  <2> QED BY <2>1, <2>2
<1>30. (b => c > x.last_executed) /\ (~b => ~(c > x.last_executed))
  BY <1>1, Zenon
<1>2. PICK p : p = make_room(x, c)
  OBVIOUS
<1>3. PICK g : g = new_state(c, b)
  OBVIOUS
<1>4. PICK q : q = p \o <<g>>
  OBVIOUS
<1>5. PICK s : s = [x.sent EXCEPT !.md = @ \cup {<<c, h>>}]
  OBVIOUS
<1>6. x.last_tentative_execute = x.last_executed /\ (~b => c = x.last_executed)
  <2>1. x.last_tentative_execute = x.last_executed
    BY <1>0 DEF CountersOK
  <2>2. ~b => c = x.last_executed
    BY <1>0, <1>30
  <2> QED BY <2>1, <2>2
<1>7. PICK a : a = [x EXCEPT !.fetching = FALSE, !.state = h, !.lc = c, !.fetched = c,
                             !.sent.md = @ \cup {<<c, h>>},
                             !.last_executed = IF b THEN c ELSE @,
                             !.last_tentative_execute = IF b THEN c ELSE @]
  OBVIOUS
<1>8. a = [x EXCEPT !.fetching = FALSE, !.state = h, !.lc = c, !.fetched = c, !.sent = s,
                    !.last_executed = c, !.last_tentative_execute = c]
  <2>1. (IF b THEN c ELSE x.last_executed) = c /\ (IF b THEN c ELSE x.last_tentative_execute) = c
    BY <1>6
  <2> QED BY <1>5, <1>7, <2>1
<1> DEFINE S == {"fetching", "state", "lc", "fetched", "sent", "last_executed",
                 "last_tentative_execute"}
<1>9. /\ Shape(a) /\ Same(x, a, S)
      /\ a.fetching = FALSE /\ a.state = h /\ a.lc = c /\ a.sent = s
      /\ a.last_executed = c /\ a.last_tentative_execute = c
  BY <1>0, <1>8 DEF Typed, Shape, Same, Fields
<1>10. g \in Frames /\ g.op = "new_state" /\ g.n = c /\ g.flag = b
  BY <1>0, <1>1, <1>3, FrameTypes DEF new_state, Frame
<1>11. /\ p \in Seq(Frames) /\ Len(p) \in {0, 1}
       /\ Len(p) = 0 => ~(c > x.last_executed) \/ c <= x.last_stable + max_out
       /\ Len(p) = 1 =>
            /\ p[1].op = "mark_stable" /\ p[1].n \in Seqnos /\ c <= p[1].n + max_out
            /\ p[1].n > x.last_stable /\ p[1].n < c
            /\ p[1].flag => /\ p[1].n \in Checkpoints /\ Mine(x.elog[p[1].n], x.id) # None
                            /\ p[1].n <= x.last_executed
  BY <1>2, MakeRoomCalls
<1>12. /\ q \in Seq(Frames) /\ Len(q) = Len(p) + 1 /\ q \o << >> = q
       /\ \A k \in 1..Len(q) : q[k] = IF k <= Len(p) THEN p[k] ELSE g
       /\ q # << >> /\ q[1] = IF Len(p) = 1 THEN p[1] ELSE g
  <2>1. PICK r : r = <<g>>
    OBVIOUS
  <2>2. r \in Seq(Frames) /\ Len(r) = 1 /\ r[1] = g
    BY <1>10, <2>1
  <2>3. /\ q \in Seq(Frames) /\ Len(q) = Len(p) + Len(r) /\ q \o << >> = q
        /\ \A k \in 1..Len(q) : q[k] = IF k <= Len(p) THEN p[k] ELSE r[k - Len(p)]
    BY <1>4, <1>11, <2>1, <2>2, ConcatFrames
  <2>4. \A k \in 1..Len(q) : q[k] = IF k <= Len(p) THEN p[k] ELSE g
    BY <1>11, <2>2, <2>3
  <2>5. 1 \in 1..Len(q) /\ q # << >>
    BY <1>11, <2>2, <2>3
  <2> QED BY <1>11, <2>2, <2>3, <2>4, <2>5
<1>13. PICK z : z = [a EXCEPT !.calls = q]
  OBVIOUS
<1>14. y = z \/ y = [z EXCEPT !.rqueue = FALSE]
  <2>1. a.calls = << >>
    BY <1>9 DEF Same, Fields
  <2>2. Call(a, q) = [a EXCEPT !.calls = q \o << >>]
    BY <2>1 DEF Call
  <2>3. Call(a, q) = z
    BY <1>12, <1>13, <2>2
  <2> QED BY <1>1, <1>2, <1>3, <1>4, <1>7, <2>3 DEF fetch_done, replies_new_state
<1>15. Shape(z) /\ Same(a, z, {"calls"}) /\ z.calls = q
  BY <1>9, <1>13 DEF Shape, Same, Fields
<1>16. /\ Shape(y) /\ Same(z, y, {"rqueue"}) /\ y.rqueue \in {FALSE, x.rqueue}
  <2>1. z.rqueue = x.rqueue
    BY <1>9, <1>15 DEF Same, Fields
  <2> QED BY <1>14, <1>15, <2>1 DEF Shape, Same, Fields
<1>17. /\ y.id = x.id /\ y.plog = x.plog /\ y.clog = x.clog /\ y.elog = x.elog /\ y.sset = x.sset
       /\ y.seqno = x.seqno /\ y.last_stable = x.last_stable /\ y.relogged = x.relogged
       /\ y.stopped = x.stopped
       /\ y.fetching = FALSE /\ y.state = h /\ y.lc = c /\ y.sent = s /\ y.calls = q
       /\ y.last_executed = c /\ y.last_tentative_execute = c
  BY <1>9, <1>15, <1>16 DEF Same, Fields
<1>18. s \in Messages /\ s.md = x.sent.md \cup {<<c, h>>}
  <2>1. x.sent.md \cup {<<c, h>>} \in SUBSET (Seqnos \X Seq(Digests))
    BY <1>0 DEF Messages
  <2> QED BY <1>0, <1>5, <2>1 DEF Messages
<1>19. Typed(y)
  <2>1. NumbersOK(y)
    BY <1>0, <1>17 DEF Typed, NumbersOK
  <2>2. FlagsOK(y)
    BY <1>0, <1>16, <1>17 DEF Typed, FlagsOK
  <2>3. LogsOK(y)
    BY <1>0, <1>17 DEF Typed, LogsOK
  <2> QED BY <1>0, <1>12, <1>16, <1>17, <1>18, <2>1, <2>2, <2>3 DEF Typed, DataOK
<1>20. CountersOK(y)
  BY <1>0, <1>17 DEF CountersOK
<1>21. TakenOK(y)
  BY <1>0, <1>17, <1>18 DEF TakenOK, LocalInv
<1>22. OwnOK(y)
  <2>1. \A n \in Checkpoints : n <= x.last_executed => n <= c
    BY <1>0
  <2> QED BY <1>0, <1>17, <2>1 DEF OwnOK
<1>23. RoomOK(y)
  <2>1. c <= x.last_stable + max_out \/ (Len(p) = 1 /\ c <= p[1].n + max_out)
    <3>1. CASE b
      BY <1>1, <1>11, <3>1
    <3>2. CASE ~b
      BY <1>0, <1>6, <3>2 DEF RoomOK
    <3> QED BY <1>1, <3>1, <3>2
  <2> QED BY <1>0, <1>11, <1>12, <1>17, <2>1 DEF RoomOK
<1>24. CallsOK(y)
  <2>1. ASSUME NEW k \in 1..Len(q)
        PROVE  /\ q[k].op \in Walks => k = 1 /\ q[k].n \in Seqnos
               /\ q[k].op = "mark_stable" /\ q[k].flag => q[k].n \in Checkpoints /\ q[k].n <= c
               /\ q[k].op # "transfer_sset" /\ q[k].op # "new_state_end"
               /\ q[k].op = "new_state" =>
                    /\ q[k].n \in Checkpoints /\ q[k].n <= c
                    /\ k = Len(q) /\ \A j \in 1..(k - 1) : q[j].op \in Walks
    <3>1. CASE k <= Len(p)
      <4>1. k = 1 /\ q[k] = p[1] /\ Len(p) = 1
        BY <1>11, <1>12, <3>1
      <4>2. p[1].flag => p[1].n <= c
        BY <1>0, <1>11, <4>1
      <4> QED BY <1>11, <4>1, <4>2 DEF Walks
    <3>2. CASE ~(k <= Len(p))
      <4>1. q[k] = g /\ k = Len(q)
        BY <1>11, <1>12, <3>2
      <4>2. \A j \in 1..(k - 1) : j = 1 /\ Len(p) = 1 /\ q[j] = p[1]
        BY <1>11, <1>12, <4>1
      <4>3. \A j \in 1..(k - 1) : q[j].op \in Walks
        BY <1>11, <4>2 DEF Walks
      <4>4. q[k].op = "new_state" /\ q[k].n \in Checkpoints /\ q[k].n <= c
        BY <1>0, <1>10, <4>1
      <4> QED BY <4>1, <4>3, <4>4 DEF Walks
    <3> QED BY <3>1, <3>2
  <2> QED BY <1>17, <2>1 DEF CallsOK
<1>25. PendingOK(y)
  <2>1. b => Mine(x.elog[c], x.id) = None
    <3>1. b => ~(c <= x.last_executed)
      BY <1>0, <1>30
    <3> QED BY <1>0, <3>1 DEF OwnOK
  <2>2. ASSUME NEW k \in 1..Len(q), q[k].op = "new_state"
        PROVE  q[k] = g
    BY <1>11, <1>12, <2>2
  <2>3. q[1].op = "mark_stable" /\ q[1].flag => Mine(x.elog[q[1].n], x.id) # None
    BY <1>10, <1>11, <1>12
  <2> QED BY <1>10, <1>17, <2>1, <2>2, <2>3 DEF PendingOK
<1> QED BY <1>17, <1>19, <1>20, <1>21, <1>22, <1>23, <1>24, <1>25 DEF Good, LocalInv

-----------------------------------------------------------------------------
(* A replica starts well. *)
LEMMA FreshGood ==
  ASSUME NEW r \in Correct, NEW x, x = Fresh(r)
  PROVE  Good(x) /\ x.id = r
<1>0. r \in Replicas /\ MaxSeqno \in Nat /\ max_out \in Nat /\ Checkpoints \subseteq Nat
  BY ReplicaAssumption, SeqnosAreNumbers
<1>1. Shape(x)
  BY DEF Fresh, Shape, Fields
<1>2. /\ x.id = r /\ x.seqno = 0 /\ x.last_stable = 0 /\ x.last_executed = 0
      /\ x.last_tentative_execute = 0 /\ x.lc = 0 /\ x.fetching = FALSE /\ x.state = << >>
      /\ x.rqueue = FALSE /\ x.relogged = FALSE /\ x.stopped = FALSE /\ x.calls = << >>
  BY DEF Fresh
<1>3. /\ x.plog = [n \in Seqnos |-> EmptyPrepared] /\ x.clog = [n \in Seqnos |-> EmptyCert]
      /\ x.elog = [n \in Checkpoints |-> EmptyCert] /\ x.sset = [i \in Replicas |-> None]
      /\ x.sent = [pp |-> {}, p |-> {}, c |-> {}, k |-> {}, md |-> {}]
  BY DEF Fresh
<1>4. /\ EmptyPrepared \in Prepareds(r) /\ EmptyPrepared.pp = None
      /\ EmptyCert \in OwnedBy(r, {OK}) /\ EmptyCert \in OwnedBy(r, Seq(Digests))
      /\ Mine(EmptyCert, r) = None
  <2>1. \A V : EmptyCert \in OwnedBy(r, V) /\ Mine(EmptyCert, r) = None
    BY <1>0, EmptyCertType
  <2> QED BY <2>1 DEF EmptyPrepared, Prepareds
<1>5. NumbersOK(x)
  BY <1>0, <1>2 DEF NumbersOK
<1>6. FlagsOK(x)
  BY <1>2 DEF FlagsOK
<1>7. LogsOK(x)
  BY <1>2, <1>3, <1>4 DEF LogsOK
<1>8. x.sent \in Messages /\ x.sent.md = {}
  BY <1>3 DEF Messages
<1>9. DataOK(x)
  BY <1>2, <1>8 DEF DataOK
<1>10. Typed(x)
  BY <1>0, <1>1, <1>2, <1>5, <1>6, <1>7, <1>9 DEF Typed
<1>11. CountersOK(x)
  BY <1>0, <1>2, SeqnosAreNumbers DEF CountersOK
<1>12. TakenOK(x)
  BY <1>8 DEF TakenOK
<1>13. OwnOK(x)
  BY <1>0, <1>2, <1>3, <1>4 DEF OwnOK
<1>14. RoomOK(x) /\ CallsOK(x) /\ PendingOK(x)
  BY <1>0, <1>2 DEF RoomOK, CallsOK, PendingOK
<1> QED BY <1>2, <1>10, <1>11, <1>12, <1>13, <1>14 DEF Good, LocalInv

(* A fresh replica satisfies the invariant. *)
LEMMA InitLocal == Init => LInv
<1> SUFFICES ASSUME Init PROVE LInv
  OBVIOUS
<1>1. rep = [r \in Correct |-> Fresh(r)] /\ keys = 0 /\ MaxKeys \in Nat
  BY ReplicaAssumption DEF Init
<1>2. ASSUME NEW r \in Correct PROVE rep[r].id = r /\ Good(rep[r])
  <2>1. rep[r] = Fresh(r)
    BY <1>1
  <2> QED BY <2>1, FreshGood
<1>3. rep = [r \in Correct |-> rep[r]] /\ keys \in 0..MaxKeys
  BY <1>1
<1> QED BY <1>2, <1>3 DEF LInv, Good

(* A client's request keeps the invariant. *)
LEMMA RequestGood ==
  ASSUME NEW x, Good(x), NEW y \in send_pre_prepare([x EXCEPT !.rqueue = TRUE])
  PROVE  Good(y) /\ y.id = x.id
<1>0. Typed(x) /\ LocalInv(x)
  BY DEF Good
<1>1. PICK z : z = [x EXCEPT !.rqueue = TRUE]
  OBVIOUS
<1>2. Shape(z) /\ Same(x, z, {"rqueue"}) /\ z.rqueue = TRUE
  BY <1>0, <1>1 DEF Typed, Shape, Same, Fields
<1>3. NumbersOK(z) /\ LogsOK(z) /\ DataOK(z) /\ z.id = x.id
  BY <1>0, <1>2, KeepTypes DEF Avoids
<1>4. FlagsOK(z)
  BY <1>0, <1>2 DEF Typed, FlagsOK, Same, Fields
<1>5. LocalInv(z)
  BY <1>0, <1>2, KeepInvariant DEF Avoids, LocalInv
<1>6. Good(z)
  BY <1>0, <1>2, <1>3, <1>4, <1>5 DEF Good, Typed
<1> QED BY <1>1, <1>3, <1>6, SendPrePrepareGood DEF Same, Fields

(* What is sent has the types of messages. *)
LEMMA SentMessages ==
  ASSUME LInv, NEW i \in Replicas, NEW s, s = Sent(i)
  PROVE  /\ s \in Messages
         /\ \A m \in s.pp : m[1] \in Seqnos /\ m[2] \in Digests
         /\ \A m \in s.p : m[1] \in Seqnos /\ m[2] \in Digests
         /\ \A n \in s.c : n \in Seqnos
         /\ \A m \in s.k : m[1] \in Seqnos /\ m[2] \in Seq(Digests) /\ m[3] \in BOOLEAN
         /\ \A v \in s.md : v[1] \in Seqnos /\ v[2] \in Seq(Digests) /\ v = <<v[1], v[2]>>
<1>1. s \in Messages
  <2>1. CASE i \in Correct
    BY <2>1 DEF Sent, LInv, Typed, DataOK
  <2>2. CASE i \notin Correct
    BY <2>2, ClaimsAssumption DEF Sent
  <2> QED BY <2>1, <2>2
<1>2. /\ s.pp \in SUBSET (Seqnos \X Digests) /\ s.p \in SUBSET (Seqnos \X Digests)
      /\ s.c \in SUBSET Seqnos /\ s.k \in SUBSET (Seqnos \X Seq(Digests) \X BOOLEAN)
      /\ s.md \in SUBSET (Seqnos \X Seq(Digests))
  BY <1>1 DEF Messages
<1> QED BY <1>1, <1>2

(* One replica takes a step. *)
LEMMA OneStep ==
  ASSUME LInv, NEW r \in Correct, NEW x, Good(x), x.id = r, rep' = [rep EXCEPT ![r] = x],
         keys' \in 0..MaxKeys
  PROVE  LInv'
<1>1. rep' = [q \in Correct |-> rep'[q]] /\ \A q \in Correct : rep'[q] = IF q = r THEN x ELSE rep[q]
  BY DEF LInv
<1>2. \A q \in Correct : rep'[q].id = q /\ Typed(rep'[q]) /\ LocalInv(rep'[q])
  BY <1>1 DEF LInv, Good
<1> QED BY <1>1, <1>2 DEF LInv

(* What more than f replicas vouch for has as many batches as its number    *)
(* says: a correct one took it, or it is plausible.                         *)
LEMMA VouchedLength ==
  ASSUME LInv, ClaimsPlausible, NEW r \in Correct, NEW c \in Seqnos, NEW h \in Seq(Digests),
         Cardinality(Vouch(r, c, h)) > F
  PROVE  Len(h) = c
<1>1. CASE \E i \in Vouch(r, c, h) : i \in Correct
  <2>1. PICK i \in Correct : <<c, h>> \in rep[i].sent.md
    BY <1>1 DEF Vouch, Sent
  <2> QED BY <2>1 DEF LInv, LocalInv, TakenOK
<1>2. CASE \A i \in Vouch(r, c, h) : i \notin Correct
  <2> DEFINE W == {i \in Replicas \ Correct : <<c, h>> \in Claims[i].md}
  <2>1. Vouch(r, c, h) \subseteq W /\ IsFiniteSet(W)
    <3>1. Vouch(r, c, h) \subseteq W
      BY <1>2 DEF Vouch, Sent
    <3>2. W \subseteq Replicas
      OBVIOUS
    <3> QED BY <3>1, <3>2, ReplicasAssumption, FS_Subset
  <2>2. /\ Cardinality(Vouch(r, c, h)) <= Cardinality(W) /\ Cardinality(W) \in Nat
        /\ Cardinality(Vouch(r, c, h)) \in Nat
    BY <2>1, FS_Subset, FS_CardinalityType
  <2>3. Cardinality(W) > F
    <3>1. F \in Nat
      BY ReplicasAssumption
    <3> HIDE DEF W
    <3> QED BY <2>2, <3>1
  <2> QED BY <2>3 DEF ClaimsPlausible
<1> QED BY <1>1, <1>2

(* Every step of a correct replica keeps its invariant. *)
LEMMA StepLocal ==
  ASSUME LInv, ClaimsPlausible, Next
  PROVE  LInv'
<1>0. PICK r \in Correct : Request(r) \/ Receive(r) \/ NewKey(r) \/ FetchDone(r) \/ Continue(r)
  BY DEF Next
<1>1. PICK x : x = rep[r]
  OBVIOUS
<1>2. Good(x) /\ x.id = r /\ r \in Replicas /\ keys \in 0..MaxKeys
  BY <1>1, ReplicaAssumption DEF LInv, Good
<1>3. ASSUME NEW y, Good(y) /\ y.id = r, Becomes(r, y)
      PROVE  LInv'
  BY <1>2, <1>3, OneStep DEF Becomes
<1>4. CASE Request(r)
  <2>1. PICK y \in send_pre_prepare([x EXCEPT !.rqueue = TRUE]) : Becomes(r, y)
    BY <1>1, <1>4 DEF Request
  <2>2. Good(y) /\ y.id = r
    BY <1>2, <2>1, RequestGood
  <2> QED BY <1>3, <2>1, <2>2
<1>5. CASE Pre_prepare(r)
  <2>1. PICK m \in Sent(Primary).pp : Becomes(r, handle_Pre_prepare(x, m[1], m[2]))
    BY <1>1, <1>5 DEF Pre_prepare
  <2>2. x.calls = << >> /\ m[1] \in Seqnos /\ m[2] \in Digests
    BY <1>1, <1>5, <2>1, ReplicaAssumption, SentMessages DEF Pre_prepare, Idle
  <2>3. PICK y : y = handle_Pre_prepare(x, m[1], m[2])
    OBVIOUS
  <2>4. Good(y) /\ y.id = r
    BY <1>2, <2>2, <2>3, PrePrepareGood
  <2> QED BY <1>3, <2>1, <2>3, <2>4
<1>6. ASSUME NEW i \in Replicas, Prepare(r, i)
      PROVE  LInv'
  <2>1. PICK m \in Sent(i).p : Becomes(r, handle_Prepare(x, i, m[1], m[2]))
    BY <1>1, <1>6 DEF Prepare
  <2>2. x.calls = << >> /\ i \in Replicas \ {x.id} /\ m[1] \in Seqnos /\ m[2] \in Digests
    BY <1>1, <1>2, <1>6, <2>1, SentMessages DEF Prepare, Idle
  <2>3. PICK y : y = handle_Prepare(x, i, m[1], m[2])
    OBVIOUS
  <2>4. Good(y) /\ y.id = r
    BY <1>2, <2>2, <2>3, PrepareGood
  <2> QED BY <1>3, <2>1, <2>3, <2>4
<1>7. ASSUME NEW i \in Replicas, Commit(r, i)
      PROVE  LInv'
  <2>1. PICK n \in Sent(i).c : Becomes(r, handle_Commit(x, i, n))
    BY <1>1, <1>7 DEF Commit
  <2>2. x.calls = << >> /\ i \in Replicas \ {x.id} /\ n \in Seqnos
    BY <1>1, <1>2, <1>7, <2>1, SentMessages DEF Commit, Idle
  <2>3. PICK y : y = handle_Commit(x, i, n)
    OBVIOUS
  <2>4. Good(y) /\ y.id = r
    BY <1>2, <2>2, <2>3, CommitGood
  <2> QED BY <1>3, <2>1, <2>3, <2>4
<1>8. ASSUME NEW i \in Replicas, Checkpoint(r, i)
      PROVE  LInv'
  <2>1. PICK m \in Sent(i).k, slow \in BOOLEAN :
          m[1] \in Checkpoints /\ Becomes(r, handle_Checkpoint(x, i, m[1], m[2], m[3], slow))
    BY <1>1, <1>8 DEF Checkpoint
  <2>2. x.calls = << >> /\ i \in Replicas \ {x.id} /\ m[2] \in Seq(Digests)
    BY <1>1, <1>2, <1>8, <2>1, SentMessages DEF Checkpoint, Idle
  <2>3. PICK y : y = handle_Checkpoint(x, i, m[1], m[2], m[3], slow)
    OBVIOUS
  <2>4. Good(y) /\ y.id = r
    BY <1>2, <2>1, <2>2, <2>3, CheckpointGood
  <2> QED BY <1>3, <2>1, <2>3, <2>4
<1>9. CASE NewKey(r)
  <2>1. PICK y : y = send_new_key(x)
    OBVIOUS
  <2>2. x.calls = << >> /\ keys < MaxKeys /\ keys' = keys + 1 /\ rep' = [rep EXCEPT ![r] = y]
    BY <1>1, <1>9, <2>1 DEF NewKey, Idle
  <2>3. keys' \in 0..MaxKeys
    BY <1>2, <2>2, ReplicaAssumption
  <2>4. Good(y) /\ y.id = r
    BY <1>2, <2>1, <2>2, NewKeyGood
  <2> QED BY <2>2, <2>3, <2>4, OneStep
<1>10. CASE FetchDone(r)
  <2>1. x.calls = << >> /\ x.fetching
    BY <1>1, <1>10 DEF FetchDone, Idle
  <2>2. PICK v \in UNION {Sent(i).md : i \in Replicas} :
          /\ v[1] \in Checkpoints /\ v[1] >= x.last_executed
          /\ Cardinality(Vouch(r, v[1], v[2])) > F
          /\ \E y \in fetch_done(x, v[1], v[2]) : Becomes(r, y)
    BY <1>1, <1>10 DEF FetchDone
  <2>3. v[1] \in Seqnos /\ v[2] \in Seq(Digests)
    BY <2>2, SentMessages
  <2>4. Len(v[2]) = v[1]
    BY <2>2, <2>3, VouchedLength
  <2>5. PICK y \in fetch_done(x, v[1], v[2]) : Becomes(r, y)
    BY <2>2
  <2>6. Good(y) /\ y.id = r
    BY <1>2, <2>1, <2>2, <2>3, <2>4, <2>5, FetchDoneGood
  <2> QED BY <1>3, <2>5, <2>6
<1>11. CASE Continue(r)
  <2>1. x.calls # << >>
    BY <1>1, <1>11 DEF Continue
  <2>2. PICK y \in after_call(x) : Becomes(r, y)
    BY <1>1, <1>11 DEF Continue
  <2>3. Good(y) /\ y.id = r
    BY <1>2, <2>1, <2>2, AfterCallGood
  <2> QED BY <1>3, <2>2, <2>3
<1> QED BY <1>0, <1>4, <1>5, <1>6, <1>7, <1>8, <1>9, <1>10, <1>11 DEF Receive

(* The invariant holds in every state the replicas reach. *)
THEOREM LocalInvariant ==
  ASSUME ClaimsPlausible
  PROVE  Spec => []LInv
<1>1. LInv /\ [Next]_vars => LInv'
  <2>1. ASSUME LInv, UNCHANGED vars PROVE LInv'
    BY <2>1 DEF LInv, vars
  <2> QED BY <2>1, StepLocal
<1> QED BY <1>1, InitLocal, PTL DEF Spec

(* Every field of every replica has its type, and the calls that remain     *)
(* name sequence numbers that the tables have.                              *)
THEOREM ReplicaTypeOK ==
  ASSUME ClaimsPlausible
  PROVE  Spec => []TypeOK
<1>1. LInv => TypeOK
  <2> SUFFICES ASSUME LInv PROVE TypeOK
    OBVIOUS
  <2>1. keys \in 0..MaxKeys
    BY DEF LInv
  <2>2. ASSUME NEW r \in Correct, NEW x, x = rep[r]
        PROVE  /\ x.id = r
               /\ x.seqno \in 0..MaxSeqno /\ x.last_stable \in 0..MaxSeqno
               /\ x.last_executed \in 0..MaxSeqno /\ x.last_tentative_execute \in 0..MaxSeqno
               /\ \A n \in Seqnos : /\ x.plog[n].pp \in Digests \cup {None}
                                    /\ x.plog[n].pc \in Certificates(Digests)
                                    /\ x.clog[n] \in Certificates({OK})
               /\ x.lc \in -1..MaxSeqno
               /\ x.rqueue \in BOOLEAN /\ x.fetching \in BOOLEAN /\ x.stopped \in BOOLEAN
               /\ \A k \in DOMAIN x.calls : x.calls[k] \in Frames
    <3>1. Typed(x) /\ x.id = r
      BY <2>2 DEF LInv
    <3>2. ASSUME NEW n \in Seqnos
          PROVE  /\ x.plog[n].pp \in Digests \cup {None}
                 /\ x.plog[n].pc \in Certificates(Digests)
                 /\ x.clog[n] \in Certificates({OK})
      BY <3>1, PlogEntry DEF Typed, LogsOK, OwnedBy
    <3>3. \A k \in DOMAIN x.calls : x.calls[k] \in Frames
      BY <3>1, LenProperties DEF Typed, DataOK
    <3> QED BY <3>1, <3>2, <3>3 DEF Typed, NumbersOK, FlagsOK
  <2> QED BY <2>1, <2>2 DEF TypeOK
<1> QED BY <1>1, LocalInvariant, PTL

(* Nothing is tentatively executed while a state transfer is going on, so   *)
(* that no rollback undoes blocks that were just fetched.                   *)
THEOREM FetchingIsNotTentative ==
  ASSUME ClaimsPlausible
  PROVE  Spec => []NoTentativeWhileFetching
<1>1. LInv => NoTentativeWhileFetching
  BY DEF LInv, NoTentativeWhileFetching, LocalInv, CountersOK
<1> QED BY <1>1, LocalInvariant, PTL

(* The execution counters tell the truth about the state, through tentative *)
(* execution, rollback, state transfer and stable checkpoints.              *)
THEOREM CountersMatchState ==
  ASSUME ClaimsPlausible
  PROVE  Spec => []StateMatchesCounters
<1>1. LInv => StateMatchesCounters
  <2> SUFFICES ASSUME LInv, NEW r \in Correct, NEW x, x = rep[r]
               PROVE  /\ Len(x.state) = x.last_tentative_execute
                      /\ x.last_tentative_execute \in x.last_executed..(x.last_executed + 1)
    BY DEF StateMatchesCounters
  <2>1. CountersOK(x) /\ x.last_executed \in 0..MaxSeqno /\ x.last_tentative_execute \in 0..MaxSeqno
    BY DEF LInv, LocalInv, Typed, NumbersOK
  <2> QED BY <2>1, SeqnosAreNumbers DEF CountersOK
<1> QED BY <1>1, LocalInvariant, PTL

(* add_mine() never meets a certificate that already has my message: a      *)
(* second one would be counted twice towards the quorum.                    *)
THEOREM OwnMessageOnce ==
  ASSUME ClaimsPlausible
  PROVE  Spec => []LogsOwnMessageOnce
<1>1. LInv => LogsOwnMessageOnce
  BY DEF LInv, LogsOwnMessageOnce, LocalInv, OwnOK
<1> QED BY <1>1, LocalInvariant, PTL

(* Between two messages a replica is never further than max_out ahead of    *)
(* its stable checkpoint, with what it executed or with what it proposed.   *)
THEOREM StaysWithinWindow ==
  ASSUME ClaimsPlausible
  PROVE  Spec => []WithinWindow
<1>1. LInv => WithinWindow
  <2> SUFFICES ASSUME LInv, NEW r \in Correct, Idle(r), NEW x, x = rep[r]
               PROVE  /\ x.last_executed <= x.last_stable + max_out
                      /\ x.seqno <= x.last_stable + max_out
    BY DEF WithinWindow
  <2>1. /\ RoomOK(x) /\ x.last_executed <= x.last_tentative_execute /\ x.calls = << >>
        /\ x.last_executed \in 0..MaxSeqno /\ x.last_tentative_execute \in 0..MaxSeqno
        /\ x.last_stable \in 0..MaxSeqno
    BY DEF LInv, LocalInv, CountersOK, Typed, NumbersOK, Idle
  <2> QED BY <2>1, SeqnosAreNumbers DEF RoomOK
<1> QED BY <1>1, LocalInvariant, PTL

-----------------------------------------------------------------------------
(* Agreement: correct replicas never execute different batches under the   *)
(* same number.                                                            *)
(*                                                                         *)
(* What is executed was prepared: the primary proposed it and 2f others    *)
(* sent prepares for it.  Two such sets have f replicas in common, so the  *)
(* batches are the same when a correct one of these prepared only one.     *)
(* The code does not promise that (PreparesOnce is violated), but when the *)
(* primary is the only faulty replica, which is always so for f = 1 unless *)
(* it is correct, it needs less: the first to prepare twice does so        *)
(* against f+1 others that never will.                                     *)


(* At most f replicas are faulty, and all the correct ones are modelled. *)
FewFaulty == Cardinality(Replicas \ Correct) <= F

(* Who sent a prepare for batch d as number n, S[i] being what i sent, and  *)
(* whether that makes it a prepared one.                                    *)
PreparedBy(S, n, d) == {i \in Replicas \ {Primary} : <<n, d>> \in S[i].p}

PreparedIn(S, n, d) ==
  <<n, d>> \in S[Primary].pp /\ Cardinality(PreparedBy(S, n, d)) >= prepares

(* The correct value of a certificate is mine, or f+1 replicas sent it. *)
CertOK(me, cert) ==
  /\ ~cert.forced
  /\ cert.votes[me] # None => cert.c = cert.votes[me]
  /\ cert.c # None /\ cert.c # cert.votes[me] => Cardinality(Voters(cert, cert.c)) > F

(* What is in plog was sent. *)
EntryBacked(S, me, n, p) ==
  /\ p.pp # None => <<n, p.pp>> \in S[Primary].pp
  /\ CertOK(me, p.pc)
  /\ \A i \in Replicas : p.pc.votes[i] \notin {None, Ignored} =>
       i # Primary /\ <<n, p.pc.votes[i]>> \in S[i].p

LogBacked(S, x) == \A n \in Seqnos : EntryBacked(S, x.id, n, x.plog[n])

(* d is batch n of the state or of a checkpoint that is kept. *)
Has(x, n, d) ==
  \/ n \in 1..Len(x.state) /\ x.state[n] = d
  \/ \E v \in x.sent.md : n \in 1..Len(v[2]) /\ v[2][n] = d

HistoryBacked(S, x) == \A n \in Seqnos, d \in Digests : Has(x, n, d) => PreparedIn(S, n, d)

(* A correct primary proposes one batch for each number. *)
ProposedOnce(x) ==
  x.id = Primary =>
    /\ \A m \in x.sent.pp : m[1] <= x.seqno
    /\ \A m1, m2 \in x.sent.pp : m1[1] = m2[1] => m1 = m2

AgreeOK(S, x) == LogBacked(S, x) /\ HistoryBacked(S, x) /\ ProposedOnce(x)

Said == [i \in Replicas |-> Sent(i)]

AInv == \A r \in Correct : AgreeOK(Said, rep[r])

(* A replica prepared at most one batch for n, and while n is above its     *)
(* stable checkpoint its certificate says so.                               *)
Settled(x, n) ==
  /\ \A m1, m2 \in x.sent.p : m1[1] = n /\ m2[1] = n => m1 = m2
  /\ n > x.last_stable => \A m \in x.sent.p : m[1] = n => Mine(x.plog[n].pc, x.id) = m[2]

(* All replicas are settled on n, or more than f of them on the same batch. *)
SettledOn(n, e) ==
  {q \in Correct \ {Primary} : Settled(rep[q], n) /\ <<n, e>> \in rep[q].sent.p}

SInv ==
  \A n \in Seqnos :
    \/ \A q \in Correct : Settled(rep[q], n)
    \/ \E e \in Digests : Cardinality(SettledOn(n, e)) > F

-----------------------------------------------------------------------------
(* T[i] is at least what S[i] is. *)
Grows(S, T) == S[Primary].pp \subseteq T[Primary].pp /\ \A i \in Replicas : S[i].p \subseteq T[i].p

(* What more than f replicas claim is claimed by a correct one. *)
LEMMA FewFaultyPlausible ==
  ASSUME FewFaulty
  PROVE  /\ ClaimsPlausible
         /\ \A W \in SUBSET Replicas : Cardinality(W) > F => \E i \in W : i \in Correct
<1>0. /\ IsFiniteSet(Replicas) /\ F \in Nat /\ IsFiniteSet(Replicas \ Correct)
      /\ Cardinality(Replicas \ Correct) \in Nat /\ Cardinality(Replicas \ Correct) <= F
  BY ReplicasAssumption, FS_Subset, FS_CardinalityType DEF FewFaulty
<1>1. ASSUME NEW W, W \subseteq Replicas \ Correct PROVE ~(Cardinality(W) > F)
  <2>1. Cardinality(W) <= Cardinality(Replicas \ Correct) /\ Cardinality(W) \in Nat
    BY <1>0, <1>1, FS_Subset, FS_CardinalityType
  <2> QED BY <1>0, <2>1
<1>2. ClaimsPlausible
  <2> SUFFICES ASSUME NEW c \in Seqnos, NEW h \in Seq(Digests)
               PROVE  ~(Cardinality({i \in Replicas \ Correct : <<c, h>> \in Claims[i].md}) > F)
    BY DEF ClaimsPlausible
  <2>1. {i \in Replicas \ Correct : <<c, h>> \in Claims[i].md} \subseteq Replicas \ Correct
    OBVIOUS
  <2> QED BY <1>1, <2>1
<1>3. ASSUME NEW W \in SUBSET Replicas, Cardinality(W) > F PROVE \E i \in W : i \in Correct
  BY <1>1, <1>3
<1> QED BY <1>2, <1>3

(* What was prepared stays so when more is sent. *)
LEMMA PreparedGrows ==
  ASSUME NEW S, NEW T, Grows(S, T), NEW n, NEW d, PreparedIn(S, n, d)
  PROVE  PreparedIn(T, n, d)
<1>1. PreparedBy(S, n, d) \subseteq PreparedBy(T, n, d) /\ PreparedBy(T, n, d) \subseteq Replicas
  BY DEF Grows, PreparedBy
<1>2. /\ Cardinality(PreparedBy(S, n, d)) <= Cardinality(PreparedBy(T, n, d))
      /\ Cardinality(PreparedBy(S, n, d)) \in Nat /\ Cardinality(PreparedBy(T, n, d)) \in Nat
  BY <1>1, ReplicasAssumption, FS_Subset, FS_CardinalityType
<1>3. prepares \in Nat
  BY ReplicasAssumption DEF prepares
<1> QED BY <1>2, <1>3 DEF PreparedIn, Grows

(* So does what the invariant says of a replica. *)
LEMMA AgreeGrows ==
  ASSUME NEW S, NEW T, Grows(S, T), NEW x, AgreeOK(S, x)
  PROVE  AgreeOK(T, x)
<1>1. HistoryBacked(T, x)
  BY PreparedGrows DEF AgreeOK, HistoryBacked
<1>2. ASSUME NEW n \in Seqnos PROVE EntryBacked(T, x.id, n, x.plog[n])
  <2>1. EntryBacked(S, x.id, n, x.plog[n])
    BY DEF AgreeOK, LogBacked
  <2> QED BY <2>1 DEF EntryBacked, Grows
<1> QED BY <1>1, <1>2 DEF AgreeOK, LogBacked

(* A prepared entry of plog is a batch that was prepared. *)
LEMMA PreparedEntry ==
  ASSUME NEW S, NEW me \in Replicas, NEW n \in Seqnos, NEW p \in Prepareds(me),
         EntryBacked(S, me, n, p), prepared_complete(p)
  PROVE  PreparedIn(S, n, p.pp)
<1>1. /\ p.pp # None /\ p.pp = p.pc.c /\ p.pp \in Digests /\ IsComplete(p.pc, prepares)
      /\ <<n, p.pp>> \in S[Primary].pp
  BY DEF prepared_complete, EntryBacked, Prepareds
<1>2. Voters(p.pc, p.pp) \subseteq PreparedBy(S, n, p.pp)
  <2>1. p.pp \notin {None, Ignored}
    BY <1>1, ReplicaAssumption
  <2> QED BY <2>1 DEF Voters, PreparedBy, EntryBacked
<1>3. Cardinality(Voters(p.pc, p.pp)) >= prepares
  BY <1>1 DEF IsComplete, EntryBacked, CertOK
<1>4. PreparedBy(S, n, p.pp) \subseteq Replicas
  BY DEF PreparedBy
<1>5. /\ Cardinality(Voters(p.pc, p.pp)) <= Cardinality(PreparedBy(S, n, p.pp))
      /\ Cardinality(Voters(p.pc, p.pp)) \in Nat /\ Cardinality(PreparedBy(S, n, p.pp)) \in Nat
  BY <1>2, <1>4, ReplicasAssumption, FS_Subset, FS_CardinalityType
<1>6. prepares \in Nat
  BY ReplicasAssumption DEF prepares
<1> QED BY <1>1, <1>3, <1>5, <1>6 DEF PreparedIn

-----------------------------------------------------------------------------
(* What x, becoming y, adds to what it sent: it sends no less, S holding    *)
(* what it sends then, and keeps the invariant.                             *)
Covers(S, y) == (y.id = Primary => y.sent.pp \subseteq S[Primary].pp) /\ y.sent.p \subseteq S[y.id].p

Moves(S, x, y) ==
  /\ y.id = x.id /\ x.sent.pp \subseteq y.sent.pp /\ x.sent.p \subseteq y.sent.p
  /\ Covers(S, y) /\ AgreeOK(S, x) => AgreeOK(S, y)

(* No prepare is sent and none of mine forgotten. *)
Steady(x, y) ==
  /\ y.id = x.id /\ y.sent.p = x.sent.p
  /\ \A n \in Seqnos : n > y.last_stable =>
       n > x.last_stable /\ Mine(y.plog[n].pc, x.id) = Mine(x.plog[n].pc, x.id)

(* Two such steps make one. *)
LEMMA MovesTrans ==
  ASSUME NEW S, NEW x, NEW y, NEW z, Moves(S, x, y), Moves(S, y, z)
  PROVE  Moves(S, x, z)
BY DEF Moves, Covers

(* See MovesTrans. *)
LEMMA SteadyTrans ==
  ASSUME NEW x, NEW y, NEW z, Steady(x, y), Steady(y, z)
  PROVE  Steady(x, z)
BY DEF Steady

Keeps(S, x, y) == Moves(S, x, y) /\ Steady(x, y)

(* No change is one of these steps, and two of them make one. *)
LEMMA KeepsNothing ==
  ASSUME NEW S, NEW x
  PROVE  Keeps(S, x, x)
BY DEF Keeps, Moves, Steady

(* See KeepsNothing. *)
LEMMA KeepsTrans ==
  ASSUME NEW S, NEW x, NEW y, NEW z, Keeps(S, x, y), Keeps(S, y, z)
  PROVE  Keeps(S, x, z)
BY MovesTrans, SteadyTrans DEF Keeps

(* Nothing about the order of batches changes, except that batches may go   *)
(* or be added that were prepared.                                          *)
LEMMA KeepsHistory ==
  ASSUME NEW S, NEW x, Typed(x), NEW y, Typed(y), y.id = x.id, y.plog = x.plog,
         y.last_stable = x.last_stable, y.seqno >= x.seqno,
         y.sent.pp = x.sent.pp, y.sent.p = x.sent.p,
         AgreeOK(S, x) => \A n \in Seqnos, d \in Digests :
                            Has(y, n, d) => Has(x, n, d) \/ PreparedIn(S, n, d)
  PROVE  Keeps(S, x, y)
<1>1. ASSUME AgreeOK(S, x) PROVE AgreeOK(S, y)
  <2>1. LogBacked(S, y)
    BY <1>1 DEF AgreeOK, LogBacked
  <2>2. HistoryBacked(S, y)
    BY <1>1 DEF AgreeOK, HistoryBacked
  <2>3. ProposedOnce(y)
    <3>1. \A m \in x.sent.pp : m[1] \in Nat
      BY SeqnosAreNumbers DEF Typed, DataOK, Messages
    <3>2. x.seqno \in Nat /\ y.seqno \in Nat
      BY SeqnosAreNumbers DEF Typed, NumbersOK
    <3>3. \A m \in x.sent.pp : m[1] <= x.seqno => m[1] <= y.seqno
      BY <3>1, <3>2
    <3> QED BY <1>1, <3>3 DEF AgreeOK, ProposedOnce
  <2> QED BY <2>1, <2>2, <2>3 DEF AgreeOK
<1>2. Moves(S, x, y)
  BY <1>1 DEF Moves
<1>3. Steady(x, y)
  BY DEF Steady
<1> QED BY <1>2, <1>3 DEF Keeps

(* Neither the logs of batches nor the state nor what was sent change. *)
LEMMA KeepsSame ==
  ASSUME NEW S, NEW x, Typed(x), NEW y, Typed(y), NEW C, Same(x, y, C),
         Avoids(C, {"id", "plog", "last_stable", "seqno", "state"}),
         y.sent = x.sent \/ SentSame(x, y, {"c", "k"})
  PROVE  Keeps(S, x, y)
<1>1. /\ y.id = x.id /\ y.plog = x.plog /\ y.last_stable = x.last_stable /\ y.seqno = x.seqno
      /\ y.state = x.state
  BY DEF Same, Fields, Avoids
<1>2. y.sent.pp = x.sent.pp /\ y.sent.p = x.sent.p /\ y.sent.md = x.sent.md
  BY DEF SentSame, MessageKinds
<1>3. y.seqno >= x.seqno
  BY <1>1, SeqnosAreNumbers DEF Typed, NumbersOK
<1>4. \A n \in Seqnos, d \in Digests : Has(y, n, d) => Has(x, n, d)
  BY <1>1, <1>2 DEF Has
<1> QED BY <1>1, <1>2, <1>3, <1>4, KeepsHistory

(* A tentative execution adds a batch that is prepared. *)
LEMMA ExecutePreparedAgrees ==
  ASSUME NEW S, NEW x, Good(x), NEW y, y = execute_prepared(x)
  PROVE  Keeps(S, x, y)
<1>0. Typed(x) /\ CountersOK(x) /\ Good(y) /\ Typed(y) /\ x.id \in Replicas
  BY ExecutePreparedGood DEF Good, LocalInv, Typed
<1>1. PICK n : n = x.last_executed + 1
  OBVIOUS
<1>2. CASE ~executes(x, n) /\ y = x
  BY <1>0, <1>2, KeepsSame DEF Same, Avoids
<1>3. CASE /\ executes(x, n) /\ n \in Seqnos /\ x.plog[n].pp \in Digests
           /\ Same(x, y, {"last_tentative_execute", "state", "lc", "sent"})
           /\ y.state = Append(x.state, x.plog[n].pp)
           /\ SentSame(x, y, {"md"})
           /\ \/ y.sent.md = x.sent.md \cup {<<n, y.state>>}
              \/ y.sent.md = x.sent.md
  <2>1. /\ y.id = x.id /\ y.plog = x.plog /\ y.last_stable = x.last_stable /\ y.seqno = x.seqno
        /\ y.sent.pp = x.sent.pp /\ y.sent.p = x.sent.p
    BY <1>3 DEF Same, Fields, SentSame, MessageKinds
  <2>2. y.seqno >= x.seqno
    BY <1>0, <2>1, SeqnosAreNumbers DEF Typed, NumbersOK
  <2>3. ASSUME AgreeOK(S, x) PROVE PreparedIn(S, n, x.plog[n].pp)
    <3>1. prepared_complete(x.plog[n])
      BY <1>3 DEF executes, prepared
    <3> QED BY <1>0, <1>3, <2>3, <3>1, PlogEntry, PreparedEntry DEF AgreeOK, LogBacked
  <2>4. Len(x.state) = n - 1 /\ x.state \in Seq(Digests)
    <3>1. /\ x.last_tentative_execute < n /\ x.last_executed \in Nat
          /\ x.last_tentative_execute \in Nat
      BY <1>0, <1>3, SeqnosAreNumbers DEF executes, Typed, NumbersOK
    <3> QED BY <1>0, <1>1, <3>1 DEF CountersOK, Typed, DataOK
  <2>5. ASSUME NEW k \in 1..Len(y.state) PROVE
          (k \in 1..Len(x.state) /\ y.state[k] = x.state[k]) \/ (k = n /\ y.state[k] = x.plog[n].pp)
    BY <1>3, <2>4, SeqnosAreNumbers
  <2>6. ASSUME NEW k \in Seqnos, NEW d \in Digests, Has(y, k, d)
        PROVE  Has(x, k, d) \/ (k = n /\ d = x.plog[n].pp)
    <3>1. CASE k \in 1..Len(y.state) /\ y.state[k] = d
      BY <2>5, <3>1 DEF Has
    <3>2. CASE \E v \in y.sent.md : k \in 1..Len(v[2]) /\ v[2][k] = d
      <4>1. PICK v \in y.sent.md : k \in 1..Len(v[2]) /\ v[2][k] = d
        BY <3>2
      <4>2. v \in x.sent.md \/ v[2] = y.state
        BY <1>3, <4>1
      <4> QED BY <2>5, <4>1, <4>2 DEF Has
    <3> QED BY <2>6, <3>1, <3>2 DEF Has
  <2> QED BY <1>0, <2>1, <2>2, <2>3, <2>6, KeepsHistory
<1> QED BY <1>0, <1>1, <1>2, <1>3, ExecutePreparedFields

(* The checkpoints taken on the way hold the state as it is. *)
LEMMA KeepsTaken ==
  ASSUME NEW S, NEW x, Typed(x), NEW y, Typed(y), NEW C, Same(x, y, C),
         Avoids(C, {"id", "plog", "last_stable", "seqno", "state"}),
         SentSame(x, y, {"md"}), \A v \in y.sent.md : v \in x.sent.md \/ v[2] = x.state
  PROVE  Keeps(S, x, y)
<1>1. /\ y.id = x.id /\ y.plog = x.plog /\ y.last_stable = x.last_stable /\ y.seqno = x.seqno
      /\ y.state = x.state
  BY DEF Same, Fields, Avoids
<1>2. y.sent.pp = x.sent.pp /\ y.sent.p = x.sent.p
  BY DEF SentSame, MessageKinds
<1>3. y.seqno >= x.seqno
  BY <1>1, SeqnosAreNumbers DEF Typed, NumbersOK
<1>4. \A n \in Seqnos, d \in Digests : Has(y, n, d) => Has(x, n, d)
  BY <1>1 DEF Has
<1> QED BY <1>1, <1>2, <1>3, <1>4, KeepsHistory

(* discard_checkpoint() may take a checkpoint of the batches executed so far. *)
LEMMA DiscardAgrees ==
  ASSUME NEW S, NEW x, Good(x), NEW y, y = discard_checkpoint(x)
  PROVE  Keeps(S, x, y)
<1>0. Typed(x) /\ Typed(y)
  BY DiscardGood DEF Good
<1>1. CASE y = x
  BY <1>0, <1>1, KeepsSame DEF Same, Avoids
<1>2. CASE y # x
  <2>1. /\ Same(x, y, {"lc", "sent"}) /\ SentSame(x, y, {"md"})
        /\ \A v \in y.sent.md : v \in x.sent.md \/ v = <<x.last_executed, x.state>>
    BY <1>0, <1>2, DiscardFields
  <2> QED BY <1>0, <2>1, KeepsTaken DEF Avoids
<1> QED BY <1>1, <1>2

(* rollback() leaves a prefix of the batches. *)
LEMMA RollbackAgrees ==
  ASSUME NEW S, NEW x, Good(x), x.calls = << >>, NEW y, y = rollback(x)
  PROVE  Keeps(S, x, y)
<1>0. Typed(x) /\ Typed(y) /\ CountersOK(x)
  BY RollbackGood DEF Good, LocalInv
<1>1. CASE Same(x, y, {"stopped"})
  <2>1. y.sent = x.sent
    BY <1>1 DEF Same, Fields
  <2> QED BY <1>0, <1>1, <2>1, KeepsSame DEF Avoids
<1>2. CASE /\ x.lc >= 0
           /\ Same(x, y, {"state", "last_executed", "last_tentative_execute"})
           /\ y.state = prefix(x, x.lc)
  <2>1. /\ y.id = x.id /\ y.plog = x.plog /\ y.last_stable = x.last_stable /\ y.seqno = x.seqno
        /\ y.sent = x.sent
    BY <1>2 DEF Same, Fields
  <2>2. y.seqno >= x.seqno
    BY <1>0, <2>1, SeqnosAreNumbers DEF Typed, NumbersOK
  <2>3. /\ x.lc \in Nat /\ x.lc <= Len(x.state) /\ x.state \in Seq(Digests)
        /\ y.state = SubSeq(x.state, 1, x.lc)
    BY <1>0, <1>2 DEF CountersOK, Typed, NumbersOK, DataOK, prefix
  <2>4. \A k \in 1..Len(y.state) : k \in 1..Len(x.state) /\ y.state[k] = x.state[k]
    BY <2>3
  <2>5. \A n \in Seqnos, d \in Digests : Has(y, n, d) => Has(x, n, d)
    BY <2>1, <2>4 DEF Has
  <2> QED BY <1>0, <2>1, <2>2, <2>5, KeepsHistory
<1> QED BY <1>0, <1>1, <1>2, RollbackFields

(* start_fetch() executes and sends nothing that counts here. *)
LEMMA StartFetchAgrees ==
  ASSUME NEW S, NEW x, Good(x), ~x.stopped => x.last_tentative_execute = x.last_executed,
         NEW y, y = start_fetch(x)
  PROVE  Keeps(S, x, y)
<1>0. Typed(x) /\ Typed(y)
  BY StartFetchGood DEF Good
<1>1. CASE y = x
  BY <1>0, <1>1, KeepsSame DEF Same, Avoids
<1>2. CASE /\ Same(x, y, {"lc", "sent", "fetching"}) /\ SentSame(x, y, {"md"})
           /\ \A v \in y.sent.md : v \in x.sent.md \/ v = <<x.last_executed, x.state>>
  BY <1>0, <1>2, KeepsTaken DEF Avoids
<1> QED BY <1>0, <1>1, <1>2, StartFetchFields

(* Only the calls change. *)
LEMMA CallsAgree ==
  ASSUME NEW S, NEW x, Typed(x), NEW y, Typed(y), Same(x, y, {"calls"})
  PROVE  Keeps(S, x, y)
<1>1. y.sent = x.sent
  BY DEF Same, Fields
<1> QED BY <1>1, KeepsSame DEF Avoids

(* send_commit() may execute the batch tentatively: it is prepared. *)
LEMMA SendCommitAgrees ==
  ASSUME NEW S, NEW x, Good(x), x.calls = << >>, NEW n \in Seqnos,
         prepared_complete(x.plog[n]), Mine(x.clog[n], x.id) = None,
         NEW y, y = send_commit(x, n)
  PROVE  Keeps(S, x, y)
<1>1. PICK e : e = IF n = x.last_executed + 1 THEN execute_prepared(x) ELSE x
  OBVIOUS
<1>2. Keeps(S, x, e) /\ Good(e) /\ e.id = x.id
  <2>1. CASE n = x.last_executed + 1
    BY <1>1, <2>1, ExecutePreparedGood, ExecutePreparedAgrees DEF Same, Fields
  <2>2. CASE n # x.last_executed + 1
    BY <1>1, <2>2, KeepsNothing
  <2> QED BY <2>1, <2>2
<1>3. PICK z : z = [e EXCEPT !.sent.c = @ \cup {n},
                             !.relogged = @ \/ Mine(e.clog[n], x.id) # None,
                             !.clog[n] = AddMyVote(@, x.id, OK)]
  OBVIOUS
<1>4. y \in {z, Call(z, <<execute_committed>>)}
  BY <1>1, <1>3 DEF send_commit
<1>5. PICK c : c = [e.clog EXCEPT ![n] = AddMyVote(@, x.id, OK)]
  OBVIOUS
<1>6. PICK b : b = (e.relogged \/ Mine(e.clog[n], x.id) # None)
  OBVIOUS
<1>7. PICK s : s = [e.sent EXCEPT !.c = @ \cup {n}]
  OBVIOUS
<1>8. z = [e EXCEPT !.sent = s, !.relogged = b, !.clog = c]
  BY <1>3, <1>5, <1>6, <1>7
<1>9. Shape(z) /\ Same(e, z, {"sent", "relogged", "clog"}) /\ z.sent = s
  BY <1>2, <1>8 DEF Good, Typed, Shape, Same, Fields
<1>10. Same(z, y, {"calls"})
  BY <1>4, <1>9 DEF Call, Shape, Same, Fields
<1>11. Same(e, y, {"sent", "relogged", "clog", "calls"}) /\ y.sent = s
  BY <1>9, <1>10 DEF Same, Fields
<1>12. SentSame(e, y, {"c", "k"})
  BY <1>2, <1>7, <1>11 DEF SentSame, MessageKinds, Good, Typed, DataOK, Messages
<1>13. Typed(y) /\ Typed(e)
  BY <1>2, SendCommitGood DEF Good
<1>14. Keeps(S, e, y)
  BY <1>11, <1>12, <1>13, KeepsSame DEF Avoids
<1> QED BY <1>2, <1>14, KeepsTrans

(* A commit message is only logged. *)
LEMMA CommitAgrees ==
  ASSUME NEW S, NEW x, Good(x), x.calls = << >>, NEW i \in Replicas \ {x.id},
         NEW n \in Seqnos, NEW y, y = handle_Commit(x, i, n)
  PROVE  Keeps(S, x, y)
<1>1. PICK z : z = [x EXCEPT !.clog[n] = AddVote(@, commits, i, OK)]
  OBVIOUS
<1>2. y \in {x, z, Call(z, <<execute_committed>>)}
  BY <1>1 DEF handle_Commit
<1>3. Shape(z) /\ Same(x, z, {"clog"})
  BY <1>1 DEF Good, Typed, Shape, Same, Fields
<1>4. Same(x, y, {"clog", "calls"})
  BY <1>2, <1>3 DEF Call, Shape, Same, Fields
<1>5. y.sent = x.sent
  BY <1>4 DEF Same, Fields
<1>6. Typed(x) /\ Typed(y)
  BY CommitGood DEF Good
<1> QED BY <1>4, <1>5, <1>6, KeepsSame DEF Avoids

(* A checkpoint message inside the window is only logged. *)
LEMMA LogCheckpointAgrees ==
  ASSUME NEW S, NEW x, Good(x), x.calls = << >>, NEW i \in Replicas \ {x.id},
         NEW n \in Checkpoints, NEW h \in Seq(Digests), NEW y, y = log_checkpoint(x, i, n, h)
  PROVE  Keeps(S, x, y)
<1>1. PICK z : z = [x EXCEPT !.elog[n] = AddVote(@, checkpoints, i, h)]
  OBVIOUS
<1>2. y \in {z, Call(z, <<mark_stable(n, TRUE)>>)}
  BY <1>1 DEF log_checkpoint
<1>3. Shape(z) /\ Same(x, z, {"elog"})
  BY <1>1 DEF Good, Typed, Shape, Same, Fields
<1>4. Same(x, y, {"elog", "calls"})
  BY <1>2, <1>3 DEF Call, Shape, Same, Fields
<1>5. y.sent = x.sent
  BY <1>4 DEF Same, Fields
<1>6. Typed(x) /\ Typed(y)
  BY LogCheckpointGood DEF Good
<1> QED BY <1>4, <1>5, <1>6, KeepsSame DEF Avoids

(* One above the window may start a rollback and a state transfer. *)
LEMMA StoreStableAgrees ==
  ASSUME NEW S, NEW x, Good(x), x.calls = << >>, NEW i \in Replicas \ {x.id},
         NEW n \in Checkpoints, NEW h \in Seq(Digests), NEW y, y = store_stable(x, i, n, h)
  PROVE  Keeps(S, x, y)
<1>0. Typed(x) /\ LocalInv(x) /\ x.id \in Replicas
  BY DEF Good, Typed
<1>1. PICK s : s = store(remove(x.sset, i), i, n, h)
  OBVIOUS
<1>2. PICK u : u = [x EXCEPT !.sset = s]
  OBVIOUS
<1>3. PICK z : z = IF u.last_tentative_execute > u.last_executed THEN rollback(u) ELSE u
  OBVIOUS
<1>4. y \in {x, u, start_fetch(z)}
  BY <1>1, <1>2, <1>3 DEF store_stable
<1>5. s \in [Replicas -> {None} \cup (Checkpoints \X Seq(Digests))] /\ s[x.id] = None
  BY <1>0, <1>1 DEF store, remove, Typed, LogsOK, LocalInv, OwnOK
<1>6. Good(u) /\ Same(x, u, {"sset"})
  BY <1>2, <1>5, SsetUpdateGood
<1>7. u.calls = << >> /\ u.sent = x.sent
  BY <1>6 DEF Same, Fields
<1>8. Keeps(S, x, u)
  BY <1>0, <1>6, <1>7, KeepsSame DEF Good, Avoids
<1>9. Good(z) /\ Keeps(S, u, z) /\ (~z.stopped => z.last_tentative_execute = z.last_executed)
  <2>1. CASE u.last_tentative_execute > u.last_executed
    BY <1>3, <1>6, <1>7, <2>1, RollbackGood, RollbackAgrees
  <2>2. CASE ~(u.last_tentative_execute > u.last_executed)
    <3>1. z = u /\ Keeps(S, u, z)
      BY <1>3, <2>2, KeepsNothing
    <3>2. u.last_tentative_execute = u.last_executed
      BY <1>6, <2>2, SeqnosAreNumbers DEF Good, LocalInv, CountersOK, Typed, NumbersOK
    <3> QED BY <1>6, <3>1, <3>2
  <2> QED BY <2>1, <2>2
<1>10. y = start_fetch(z) => Keeps(S, z, y)
  BY <1>9, StartFetchAgrees
<1> QED BY <1>4, <1>8, <1>9, <1>10, KeepsNothing, KeepsTrans

(* Either way handle(Checkpoint) executes nothing. *)
LEMMA CheckpointAgrees ==
  ASSUME NEW S, NEW x, Good(x), x.calls = << >>, NEW i \in Replicas \ {x.id},
         NEW n \in Checkpoints, NEW h \in Seq(Digests), NEW stable, NEW slow,
         NEW y, y = handle_Checkpoint(x, i, n, h, stable, slow)
  PROVE  Keeps(S, x, y)
BY LogCheckpointAgrees, StoreStableAgrees, KeepsNothing DEF handle_Checkpoint

(* send_checkpoint() sends a checkpoint message and nothing else. *)
LEMMA SendCheckpointFields ==
  ASSUME NEW x, Typed(x), NEW n \in Checkpoints, NEW y, y = send_checkpoint(x, n)
  PROVE  Same(x, y, {"relogged", "elog", "sent"}) /\ SentSame(x, y, {"c", "k"})
<1>1. PICK b : b = (x.relogged \/ Mine(x.elog[n], x.id) # None)
  OBVIOUS
<1>2. PICK e : e = [x.elog EXCEPT ![n] = AddMyVote(@, x.id, prefix(x, n))]
  OBVIOUS
<1>3. PICK s : s = [x.sent EXCEPT !.k = @ \cup {<<n, prefix(x, n), FALSE>>}]
  OBVIOUS
<1>4. y = [x EXCEPT !.relogged = b, !.elog = e, !.sent = s]
  BY <1>1, <1>2, <1>3 DEF send_checkpoint
<1>5. Same(x, y, {"relogged", "elog", "sent"}) /\ y.sent = s
  BY <1>4 DEF Typed, Shape, Same, Fields
<1> QED BY <1>3, <1>5 DEF SentSame, MessageKinds, Typed, DataOK, Messages

(* The next committed batch is executed, unless it is already. *)
LEMMA ExecuteNextAgrees ==
  ASSUME NEW S, NEW x, Good(x), x.calls # << >>, x.calls[1].op = "execute_committed",
         ~x.fetching, x.last_executed < x.last_stable + max_out,
         committed(x, x.last_executed + 1), NEW y, y = execute_next(x)
  PROVE  Keeps(S, x, y)
<1>1. PICK n : n = x.last_executed + 1
  OBVIOUS
<1>2. PICK e : e = execute_prepared(x)
  OBVIOUS
<1>3. PICK z : z = [e EXCEPT !.last_executed = n]
  OBVIOUS
<1>4. PICK k : k = send_checkpoint(z, n)
  OBVIOUS
<1>5. \/ y = z
      \/ n % checkpoint_interval = 0 /\ y \in {k, Call(k, <<mark_stable(n, TRUE)>>)}
  BY <1>1, <1>2, <1>3, <1>4 DEF execute_next
<1>6. n \in Seqnos /\ n \in 0..MaxSeqno
  BY <1>1, SeqnosAreNumbers DEF committed, prepared, Seqnos
<1>7. Good(e) /\ Typed(e) /\ Keeps(S, x, e)
  BY <1>2, ExecutePreparedGood, ExecutePreparedAgrees DEF Good
<1>8. Shape(z) /\ Same(e, z, {"last_executed"}) /\ z.last_executed = n
  BY <1>3, <1>7 DEF Typed, Shape, Same, Fields
<1>9. Typed(z)
  <2>1. z.id = e.id /\ FlagsOK(z) /\ LogsOK(z) /\ DataOK(z)
    BY <1>7, <1>8, KeepTypes DEF Avoids
  <2>2. NumbersOK(z)
    BY <1>6, <1>7, <1>8 DEF Typed, NumbersOK, Same, Fields
  <2> QED BY <1>7, <1>8, <2>1, <2>2 DEF Typed
<1>10. n % checkpoint_interval = 0 =>
         Same(z, k, {"relogged", "elog", "sent"}) /\ SentSame(z, k, {"c", "k"}) /\ Shape(k)
  <2>1. SUFFICES ASSUME n % checkpoint_interval = 0
                 PROVE  Same(z, k, {"relogged", "elog", "sent"}) /\ SentSame(z, k, {"c", "k"}) /\ Shape(k)
    OBVIOUS
  <2>2. n \in Checkpoints
    BY <1>6, <2>1 DEF Checkpoints
  <2>3. Shape(k)
    BY <1>4, <1>8 DEF send_checkpoint, Shape, Fields
  <2> QED BY <1>4, <1>9, <2>2, <2>3, SendCheckpointFields
<1>11. /\ Same(e, y, {"last_executed", "relogged", "elog", "sent", "calls"})
       /\ SentSame(e, y, {"c", "k"})
  <2>1. CASE y = z
    BY <1>8, <2>1 DEF Same, Fields, SentSame
  <2>2. CASE n % checkpoint_interval = 0 /\ y \in {k, Call(k, <<mark_stable(n, TRUE)>>)}
    <3>1. Same(k, y, {"calls"})
      BY <1>10, <2>2 DEF Call, Shape, Same, Fields
    <3>2. y.sent = k.sent /\ z.sent = e.sent
      BY <1>8, <3>1 DEF Same, Fields
    <3>3. SentSame(e, y, {"c", "k"})
      BY <1>10, <2>2, <3>2 DEF SentSame, MessageKinds
    <3>4. Same(e, y, {"last_executed", "relogged", "elog", "sent", "calls"})
      BY <1>8, <1>10, <2>2, <3>1 DEF Same, Fields
    <3> QED BY <3>3, <3>4
  <2> QED BY <1>5, <2>1, <2>2
<1>12. Typed(y)
  BY ExecuteNextGood DEF Good
<1>13. Keeps(S, e, y)
  BY <1>7, <1>11, <1>12, KeepsSame DEF Avoids
<1> QED BY <1>7, <1>13, KeepsTrans

(* A correct primary proposes under a number above all earlier ones. *)
LEMMA SendPrePrepareAgrees ==
  ASSUME NEW S, NEW x, Good(x), NEW y \in send_pre_prepare(x)
  PROVE  Keeps(S, x, y)
<1>0. Typed(x) /\ x.seqno \in 0..MaxSeqno /\ x.sent \in Messages
  BY DEF Good, Typed, NumbersOK, DataOK
<1>1. CASE y = x
  BY <1>1, KeepsNothing
<1>2. CASE y # x
  <2>1. /\ x.id = Primary /\ x.seqno + 1 \in Seqnos
        /\ \E d \in Batches[x.seqno + 1] : y = propose(x, d)
    BY <1>2 DEF send_pre_prepare
  <2>2. PICK n : n = x.seqno + 1
    OBVIOUS
  <2>3. n \in Seqnos /\ n \in Nat /\ n > x.seqno
    BY <1>0, <2>1, <2>2, SeqnosAreNumbers
  <2>4. PICK d \in Digests : y = propose(x, d)
    BY <2>1, <2>2, <2>3, ReplicaAssumption
  <2>5. PICK p : p = [x.plog[n] EXCEPT !.pp = d]
    OBVIOUS
  <2>6. y = [x EXCEPT !.seqno = n, !.rqueue = FALSE,
                      !.plog[n].pp = d, !.sent.pp = @ \cup {<<n, d>>}]
    BY <2>2, <2>4 DEF propose
  <2>7. y = [x EXCEPT !.seqno = n, !.rqueue = FALSE, !.plog = [x.plog EXCEPT ![n] = p],
                      !.sent = [x.sent EXCEPT !.pp = @ \cup {<<n, d>>}]]
    BY <2>5, <2>6
  <2>8. /\ Same(x, y, {"seqno", "rqueue", "plog", "sent"})
        /\ y.seqno = n /\ y.plog = [x.plog EXCEPT ![n] = p]
        /\ y.sent = [x.sent EXCEPT !.pp = @ \cup {<<n, d>>}]
    BY <1>0, <2>7 DEF Typed, Shape, Same, Fields
  <2>9. y.sent.pp = x.sent.pp \cup {<<n, d>>} /\ y.sent.p = x.sent.p /\ y.sent.md = x.sent.md
    BY <1>0, <2>8 DEF Messages
  <2>10. y.id = x.id /\ y.state = x.state /\ y.last_stable = x.last_stable
    BY <2>8 DEF Same, Fields
  <2>11. p.pp = d /\ p.pc = x.plog[n].pc
    BY <1>0, <2>3, <2>5, PlogEntry DEF Prepareds
  <2>12. \A m \in Seqnos : y.plog[m] = IF m = n THEN p ELSE x.plog[m]
    BY <1>0, <2>8 DEF Typed, LogsOK
  <2>13. ASSUME Covers(S, y), AgreeOK(S, x) PROVE AgreeOK(S, y)
    <3>1. ASSUME NEW m \in Seqnos PROVE EntryBacked(S, y.id, m, y.plog[m])
      <4>1. EntryBacked(S, x.id, m, x.plog[m])
        BY <2>13 DEF AgreeOK, LogBacked
      <4>2. CASE m = n
        <5>1. <<n, d>> \in S[Primary].pp
          BY <2>1, <2>9, <2>10, <2>13 DEF Covers
        <5> QED BY <2>10, <2>11, <2>12, <4>1, <4>2, <5>1 DEF EntryBacked
      <4>3. CASE m # n
        BY <2>10, <2>12, <4>1, <4>3
      <4> QED BY <4>2, <4>3
    <3>2. HistoryBacked(S, y)
      BY <2>9, <2>10, <2>13 DEF AgreeOK, HistoryBacked, Has
    <3>3. ProposedOnce(y)
      <4>1. ProposedOnce(x)
        BY <2>13 DEF AgreeOK
      <4>2. \A m \in x.sent.pp : m[1] \in Nat /\ m[1] <= x.seqno
        BY <1>0, <2>1, <4>1, SeqnosAreNumbers DEF ProposedOnce, Messages
      <4>3. \A m \in x.sent.pp : m[1] < n
        BY <1>0, <2>2, <4>2
      <4>4. \A m \in y.sent.pp : m \in x.sent.pp \/ m = <<n, d>>
        BY <2>9
      <4>5. \A m \in y.sent.pp : m[1] <= n /\ (m[1] = n => m = <<n, d>>)
        BY <2>3, <4>2, <4>3, <4>4
      <4>6. \A m1, m2 \in y.sent.pp : m1[1] = m2[1] => m1 = m2
        BY <2>1, <4>1, <4>4, <4>5 DEF ProposedOnce
      <4> QED BY <2>8, <4>5, <4>6 DEF ProposedOnce
    <3> QED BY <3>1, <3>2, <3>3 DEF AgreeOK, LogBacked
  <2>14. Moves(S, x, y)
    BY <2>9, <2>10, <2>13 DEF Moves
  <2>15. Steady(x, y)
    BY <2>9, <2>10, <2>11, <2>12 DEF Steady
  <2> QED BY <2>14, <2>15 DEF Keeps
<1> QED BY <1>1, <1>2

(* truncate() forgets batches below the new stable checkpoint. *)
LEMMA TruncateAgrees ==
  ASSUME NEW S, NEW x, Typed(x), NEW n \in Seqnos, n > x.last_stable, NEW y, y = truncate(x, n)
  PROVE  Keeps(S, x, y)
<1>0. /\ x.id \in Replicas /\ x.sent \in Messages /\ x.last_stable \in Nat /\ x.seqno \in Nat
      /\ n \in Nat /\ Seqnos \subseteq Nat
  BY SeqnosAreNumbers DEF Typed, NumbersOK, DataOK
<1>1. PICK p : p = [m \in Seqnos |-> IF m <= n THEN EmptyPrepared ELSE x.plog[m]]
  OBVIOUS
<1>2. PICK c : c = [m \in Seqnos |-> IF m <= n THEN EmptyCert ELSE x.clog[m]]
  OBVIOUS
<1>3. PICK e : e = [m \in Checkpoints |-> IF m < n THEN EmptyCert ELSE x.elog[m]]
  OBVIOUS
<1>4. PICK s : s = IF n > x.seqno THEN n ELSE x.seqno
  OBVIOUS
<1>5. PICK md : md = {v \in x.sent.md : v[1] >= n}
  OBVIOUS
<1>6. y = [x EXCEPT !.last_stable = n, !.seqno = s, !.plog = p, !.clog = c, !.elog = e,
                    !.sent = [x.sent EXCEPT !.md = md]]
  BY <1>1, <1>2, <1>3, <1>4, <1>5 DEF truncate
<1>7. /\ Same(x, y, {"last_stable", "seqno", "plog", "clog", "elog", "sent"})
      /\ y.last_stable = n /\ y.seqno = s /\ y.plog = p
      /\ y.sent = [x.sent EXCEPT !.md = md]
  BY <1>6 DEF Typed, Shape, Same, Fields
<1>8. y.sent.pp = x.sent.pp /\ y.sent.p = x.sent.p /\ y.sent.md \subseteq x.sent.md
  <2>1. md \subseteq x.sent.md
    BY <1>5
  <2> QED BY <1>0, <1>7, <2>1 DEF Messages
<1>9. y.id = x.id /\ y.state = x.state
  BY <1>7 DEF Same, Fields
<1>10. s \in Nat /\ s >= x.seqno
  BY <1>0, <1>4
<1>11. ASSUME AgreeOK(S, x) PROVE AgreeOK(S, y)
  <2>1. ASSUME NEW m \in Seqnos PROVE EntryBacked(S, y.id, m, y.plog[m])
    <3>1. CASE m <= n
      <4>1. y.plog[m] = EmptyPrepared
        BY <1>1, <1>7, <3>1
      <4>2. /\ EmptyPrepared.pp = None /\ EmptyPrepared.pc.c = None /\ ~EmptyPrepared.pc.forced
            /\ \A i \in Replicas : EmptyPrepared.pc.votes[i] = None
        BY <1>0, EmptyCertType DEF EmptyPrepared
      <4> QED BY <1>0, <1>9, <4>1, <4>2 DEF EntryBacked, CertOK
    <3>2. CASE ~(m <= n)
      <4>1. y.plog[m] = x.plog[m]
        BY <1>1, <1>7, <3>2
      <4> QED BY <1>9, <1>11, <4>1 DEF AgreeOK, LogBacked
    <3> QED BY <3>1, <3>2
  <2>2. HistoryBacked(S, y)
    BY <1>8, <1>9, <1>11 DEF AgreeOK, HistoryBacked, Has
  <2>3. ProposedOnce(y)
    <3>1. \A m \in x.sent.pp : m[1] \in Nat
      BY <1>0 DEF Messages
    <3>2. \A m \in x.sent.pp : m[1] <= x.seqno => m[1] <= s
      BY <1>0, <1>10, <3>1
    <3> QED BY <1>7, <1>8, <1>9, <1>11, <3>2 DEF AgreeOK, ProposedOnce
  <2> QED BY <2>1, <2>2, <2>3 DEF AgreeOK, LogBacked
<1>12. Moves(S, x, y)
  BY <1>8, <1>9, <1>11 DEF Moves
<1>13. Steady(x, y)
  <2>1. ASSUME NEW m \in Seqnos, m > n PROVE m > x.last_stable /\ y.plog[m] = x.plog[m]
    BY <1>0, <1>1, <1>7, <2>1
  <2> QED BY <1>7, <1>8, <1>9, <2>1 DEF Steady
<1> QED BY <1>12, <1>13 DEF Keeps

(* own_stable() sends a checkpoint message, if anything. *)
LEMMA OwnStableFields ==
  ASSUME NEW x, Typed(x), NEW n, NEW y, y = own_stable(x, n)
  PROVE  Shape(y) /\ Same(x, y, {"elog", "sent"}) /\ SentSame(x, y, {"c", "k"})
<1>1. PICK u : u = IF Mine(x.elog[n], x.id) # None THEN x
                   ELSE [x EXCEPT !.elog[n] = MakeComplete(AddMyVote(@, x.id, prefix(x, n)))]
  OBVIOUS
<1>2. Shape(u) /\ Same(x, u, {"elog"})
  BY <1>1 DEF Typed, Shape, Same, Fields
<1>3. PICK s : s = [x.sent EXCEPT !.k = @ \cup {<<n, Mine(u.elog[n], x.id), TRUE>>}]
  OBVIOUS
<1>4. u.sent = x.sent
  BY <1>2 DEF Same, Fields
<1>5. y = u \/ y = [u EXCEPT !.sent = s]
  BY <1>1, <1>3, <1>4 DEF own_stable
<1>6. Shape(y) /\ Same(u, y, {"sent"}) /\ y.sent \in {x.sent, s}
  BY <1>2, <1>4, <1>5 DEF Shape, Same, Fields
<1>7. Same(x, y, {"elog", "sent"})
  BY <1>2, <1>6 DEF Same, Fields
<1> QED BY <1>3, <1>6, <1>7 DEF SentSame, MessageKinds, Typed, DataOK, Messages

(* execute_committed() executes it or returns. *)
LEMMA ExecuteCommittedAgrees ==
  ASSUME NEW S, NEW x, Good(x), x.calls # << >>, x.calls[1].op = "execute_committed",
         NEW y \in after_execute_committed(x)
  PROVE  Keeps(S, x, y)
<1>1. PICK z : z = Return(x)
  OBVIOUS
<1>2. Good(z) /\ Same(x, z, {"calls"})
  BY <1>1, ReturnGood
<1>3. Keeps(S, x, z)
  BY <1>2, CallsAgree DEF Good
<1>4. \/ y = z
      \/ /\ ~x.fetching /\ ~(x.last_executed >= x.last_stable + max_out)
         /\ committed(x, x.last_executed + 1) /\ y = execute_next(x)
      \/ y \in send_pre_prepare(z)
  BY <1>1 DEF after_execute_committed
<1>5. x.last_executed \in Nat /\ x.last_stable \in Nat /\ max_out \in Nat
  BY SeqnosAreNumbers DEF Good, Typed, NumbersOK
<1>6. CASE /\ ~x.fetching /\ ~(x.last_executed >= x.last_stable + max_out)
           /\ committed(x, x.last_executed + 1) /\ y = execute_next(x)
  BY <1>5, <1>6, ExecuteNextAgrees
<1>7. CASE y \in send_pre_prepare(z)
  BY <1>2, <1>3, <1>7, SendPrePrepareAgrees, KeepsTrans
<1> QED BY <1>3, <1>4, <1>6, <1>7

(* mark_stable() empties certificates below the stable checkpoint. *)
LEMMA MarkStableAgrees ==
  ASSUME NEW S, NEW x, Good(x), x.calls # << >>, NEW n, NEW b, x.calls[1] = mark_stable(n, b),
         NEW y \in after_mark_stable(x, n, b)
  PROVE  Keeps(S, x, y)
<1>0. /\ Typed(x) /\ LocalInv(x) /\ CallsOK(x) /\ RoomOK(x)
      /\ x.calls \in Seq(Frames) /\ Len(x.calls) \in Nat /\ 1 \in 1..Len(x.calls)
  BY LenProperties, EmptySeq DEF Good, Typed, DataOK, LocalInv
<1>1. /\ x.calls[1].op = "mark_stable" /\ x.calls[1].n = n /\ x.calls[1].flag = b /\ b \in BOOLEAN
  <2>1. x.calls[1] \in Frames
    BY <1>0
  <2> QED BY <2>1 DEF mark_stable, Frame, Frames
<1>2. /\ n \in Seqnos
      /\ b => n \in Checkpoints /\ n <= x.last_executed
  BY <1>0, <1>1 DEF CallsOK, Walks
<1>3. PICK w : w = Return(x)
  OBVIOUS
<1>4. /\ n \in Nat /\ x.last_stable \in Nat /\ x.last_tentative_execute \in Nat /\ x.seqno \in Nat
      /\ x.last_executed \in Nat /\ max_out \in Nat
  BY <1>0, <1>2, SeqnosAreNumbers DEF Typed, NumbersOK
<1>5. /\ Typed(w) /\ Same(x, w, {"calls"}) /\ NoWalks(w)
      /\ CountersOK(w) /\ TakenOK(w) /\ OwnOK(w) /\ CallsOK(w) /\ PendingOK(w)
  BY <1>3, ReturnKeeps
<1>6. Keeps(S, x, w)
  BY <1>0, <1>5, CallsAgree
<1>7. CASE n <= x.last_stable
  <2>1. y = w
    BY <1>3, <1>7 DEF after_mark_stable
  <2> QED BY <1>6, <2>1
<1>8. CASE ~(n <= x.last_stable)
  <2>1. PICK t : t = truncate(w, n)
    OBVIOUS
  <2>2. PICK d : d = discard_checkpoint(t)
    OBVIOUS
  <2>3. PICK o : o = IF b THEN own_stable(d, n) ELSE d
    OBVIOUS
  <2>4. /\ w.last_stable = x.last_stable /\ w.last_tentative_execute = x.last_tentative_execute
        /\ w.seqno = x.seqno /\ w.id = x.id /\ w.last_executed = x.last_executed
    BY <1>5 DEF Same, Fields
  <2>5. n > w.last_stable /\ w.last_tentative_execute <= n + max_out /\ w.seqno <= n + max_out
    BY <1>0, <1>1, <1>4, <1>8, <2>4 DEF RoomOK
  <2>6. Good(t) /\ Same(w, t, {"last_stable", "seqno", "plog", "clog", "elog", "sent"})
    BY <1>2, <1>5, <2>1, <2>5, TruncateGood
  <2>7. Keeps(S, w, t)
    BY <1>2, <1>5, <2>1, <2>5, TruncateAgrees
  <2>8. Keeps(S, t, d) /\ Typed(d)
    BY <2>2, <2>6, DiscardAgrees, DiscardGood DEF Good
  <2>9. t.last_executed = x.last_executed
    BY <2>4, <2>6 DEF Same, Fields
  <2>10. ~(b /\ n > t.last_executed)
    BY <1>2, <1>4, <2>9
  <2>11. y = Call(o, <<transfer_sset(n)>>)
    BY <1>3, <1>8, <2>1, <2>2, <2>3, <2>10 DEF after_mark_stable
  <2>12. Same(d, o, {"elog", "sent"}) /\ SentSame(d, o, {"c", "k"}) /\ Shape(o)
    <3>1. CASE b
      BY <2>3, <2>8, <3>1, OwnStableFields
    <3>2. CASE ~b
      BY <2>3, <2>8, <3>2 DEF Same, SentSame, Typed
    <3> QED BY <3>1, <3>2
  <2>13. Same(o, y, {"calls"})
    BY <2>11, <2>12 DEF Call, Shape, Same, Fields
  <2>14. Same(d, y, {"elog", "sent", "calls"}) /\ y.sent = o.sent
    BY <2>12, <2>13 DEF Same, Fields
  <2>15. SentSame(d, y, {"c", "k"})
    BY <2>12, <2>14 DEF SentSame
  <2>16. Typed(y)
    BY MarkStableGood DEF Good
  <2>17. Keeps(S, d, y)
    BY <2>8, <2>14, <2>15, <2>16, KeepsSame DEF Avoids
  <2> QED BY <1>6, <2>7, <2>8, <2>17, KeepsTrans
<1> QED BY <1>7, <1>8

(* A checkpoint message moves from sset to elog. *)
LEMMA TransferAgrees ==
  ASSUME NEW S, NEW x, Good(x), x.calls # << >>, x.calls[1].op = "transfer_sset",
         NEW m, m = x.calls[1].n, NEW i \in in_sset(x), NEW y, y = transfer(x, i, m)
  PROVE  Keeps(S, x, y)
<1>1. Typed(x) /\ Typed(y)
  BY TransferGood DEF Good
<1>2. Same(x, y, {"sset", "elog", "calls"})
  BY <1>1 DEF transfer, Typed, Shape, Same, Fields
<1>3. y.sent = x.sent
  BY <1>2 DEF Same, Fields
<1> QED BY <1>1, <1>2, <1>3, KeepsSame DEF Avoids

(* The walk over sset executes nothing. *)
LEMMA TransferSsetAgrees ==
  ASSUME NEW S, NEW x, Good(x), x.calls # << >>, x.calls[1].op = "transfer_sset",
         NEW m, m = x.calls[1].n, NEW y \in after_transfer_sset(x, m)
  PROVE  Keeps(S, x, y)
<1>1. PICK w : w = Return(x)
  OBVIOUS
<1>2. Good(w) /\ Same(x, w, {"calls"})
  BY <1>1, ReturnGood
<1>3. Keeps(S, x, w)
  BY <1>2, CallsAgree DEF Good
<1>4. PICK b : b = (Mine(x.elog[m], x.id) # None)
  OBVIOUS
<1>5. \/ \E i \in in_sset(x) : y = transfer(x, i, m)
      \/ y = Call(w, <<mark_stable(m, b)>>)
      \/ y \in send_pre_prepare(w)
  BY <1>1, <1>4 DEF after_transfer_sset
<1>6. CASE \E i \in in_sset(x) : y = transfer(x, i, m)
  BY <1>6, TransferAgrees
<1>7. CASE y = Call(w, <<mark_stable(m, b)>>)
  <2>1. Typed(x) /\ Typed(y) /\ Shape(w)
    BY <1>2, TransferSsetGood DEF Good, Typed
  <2>2. Same(w, y, {"calls"})
    BY <1>7, <2>1 DEF Call, Shape, Same, Fields
  <2> QED BY <1>2, <1>3, <2>1, <2>2, CallsAgree, KeepsTrans DEF Good
<1>8. CASE y \in send_pre_prepare(w)
  BY <1>2, <1>3, <1>8, SendPrePrepareAgrees, KeepsTrans
<1> QED BY <1>5, <1>6, <1>7, <1>8

(* new_state() sends a checkpoint message and leaves calls to be made. *)
LEMMA NewStateAgrees ==
  ASSUME NEW S, NEW x, Good(x), x.calls # << >>, NEW c, NEW b, x.calls[1] = new_state(c, b),
         NEW y \in after_new_state(x, c, b)
  PROVE  Keeps(S, x, y)
<1>0. /\ Typed(x) /\ LocalInv(x) /\ CallsOK(x)
      /\ x.calls \in Seq(Frames) /\ Len(x.calls) \in Nat /\ 1 \in 1..Len(x.calls)
  BY LenProperties, EmptySeq DEF Good, Typed, DataOK, LocalInv
<1>1. x.calls[1].op = "new_state" /\ x.calls[1].n = c
  BY DEF new_state, Frame
<1>2. c \in Checkpoints
  BY <1>0, <1>1 DEF CallsOK
<1>3. PICK w : w = Return(x)
  OBVIOUS
<1>4. Good(w) /\ Same(x, w, {"calls"}) /\ Typed(w) /\ Shape(w)
  BY <1>1, <1>3, ReturnGood DEF Good, Typed
<1>5. Keeps(S, x, w)
  BY <1>0, <1>4, CallsAgree
<1>6. PICK u : u = IF b THEN send_checkpoint(w, c) ELSE w
  OBVIOUS
<1>7. Shape(u) /\ Same(w, u, {"relogged", "elog", "sent"}) /\ SentSame(w, u, {"c", "k"})
  <2>1. CASE b
    <3>1. u = send_checkpoint(w, c)
      BY <1>6, <2>1
    <3>2. Shape(u)
      BY <1>4, <3>1 DEF send_checkpoint, Shape, Fields
    <3> QED BY <1>2, <1>4, <3>1, <3>2, SendCheckpointFields
  <2>2. CASE ~b
    BY <1>4, <1>6, <2>2 DEF Same, SentSame
  <2> QED BY <2>1, <2>2
<1>8. \E q : y = Call(u, q)
  BY <1>3, <1>6 DEF after_new_state
<1>9. Same(u, y, {"calls"})
  BY <1>7, <1>8 DEF Call, Shape, Same, Fields
<1>10. Same(w, y, {"relogged", "elog", "sent", "calls"}) /\ y.sent = u.sent
  BY <1>7, <1>9 DEF Same, Fields
<1>11. SentSame(w, y, {"c", "k"})
  BY <1>7, <1>10 DEF SentSame
<1>12. Typed(y)
  BY NewStateGood DEF Good
<1>13. Keeps(S, w, y)
  BY <1>4, <1>10, <1>11, <1>12, KeepsSame DEF Avoids
<1> QED BY <1>5, <1>13, KeepsTrans

(* At its end it moves the number of the last proposal forward. *)
LEMMA NewStateEndAgrees ==
  ASSUME NEW S, NEW x, Good(x), x.calls # << >>, x.calls[1].op = "new_state_end",
         NEW m, m = x.calls[1].n,
         NEW y, y = [Return(x) EXCEPT !.seqno = IF m > @ THEN m ELSE @]
  PROVE  Keeps(S, x, y)
<1>1. PICK w : w = Return(x)
  OBVIOUS
<1>2. Good(w) /\ Same(x, w, {"calls"}) /\ Typed(w) /\ Shape(w)
  BY <1>1, ReturnGood DEF Good, Typed
<1>3. Keeps(S, x, w)
  BY <1>2, CallsAgree DEF Good
<1>4. PICK s : s = IF m > w.seqno THEN m ELSE w.seqno
  OBVIOUS
<1>5. y = [w EXCEPT !.seqno = s]
  BY <1>1, <1>4
<1>6. Same(w, y, {"seqno"}) /\ y.seqno = s
  BY <1>2, <1>5 DEF Shape, Same, Fields
<1>7. m \in Nat /\ w.seqno \in Nat
  <2>1. x.calls[1] \in Frames
    BY DEF Good, Typed, DataOK
  <2> QED BY <1>2, <2>1, SeqnosAreNumbers DEF Frames, Typed, NumbersOK
<1>8. y.seqno >= w.seqno
  BY <1>4, <1>6, <1>7
<1>9. /\ y.id = w.id /\ y.plog = w.plog /\ y.last_stable = w.last_stable /\ y.state = w.state
      /\ y.sent = w.sent
  BY <1>6 DEF Same, Fields
<1>10. \A n \in Seqnos, d \in Digests : Has(y, n, d) => Has(w, n, d)
  BY <1>9 DEF Has
<1>11. Typed(y)
  BY NewStateEndGood DEF Good
<1>12. Keeps(S, w, y)
  BY <1>2, <1>8, <1>9, <1>10, <1>11, KeepsHistory
<1> QED BY <1>3, <1>12, KeepsTrans

(* Any of the calls a handler leaves to be made. *)
LEMMA AfterCallAgrees ==
  ASSUME NEW S, NEW x, Good(x), x.calls # << >>, NEW y \in after_call(x)
  PROVE  Keeps(S, x, y)
<1>1. PICK f : f = x.calls[1]
  OBVIOUS
<1>2. f \in Frames /\ Head(x.calls) = f
  BY <1>1, HeadTailProperties, LenProperties, EmptySeq DEF Good, Typed, DataOK
<1>3. f.op \in {"execute_committed", "mark_stable", "transfer_sset", "new_state",
                "new_state_end", "send_pre_prepare"} /\ f.flag \in BOOLEAN
  BY <1>2 DEF Frames
<1>4. f = [a \in {"op", "n", "flag"} |-> f[a]]
  BY <1>2 DEF Frames
<1>5. CASE f.op = "execute_committed"
  <2>1. y \in after_execute_committed(x)
    BY <1>2, <1>5 DEF after_call
  <2> QED BY <1>1, <1>5, <2>1, ExecuteCommittedAgrees
<1>6. CASE f.op = "mark_stable"
  <2>1. y \in after_mark_stable(x, f.n, f.flag)
    BY <1>2, <1>6 DEF after_call
  <2>2. f = mark_stable(f.n, f.flag)
    BY <1>4, <1>6 DEF mark_stable, Frame
  <2> QED BY <1>1, <2>1, <2>2, MarkStableAgrees
<1>7. CASE f.op = "transfer_sset"
  <2>1. y \in after_transfer_sset(x, f.n)
    BY <1>2, <1>7 DEF after_call
  <2> QED BY <1>1, <1>7, <2>1, TransferSsetAgrees
<1>8. CASE f.op = "new_state"
  <2>1. y \in after_new_state(x, f.n, f.flag)
    BY <1>2, <1>8 DEF after_call
  <2>2. f = new_state(f.n, f.flag)
    BY <1>4, <1>8 DEF new_state, Frame
  <2> QED BY <1>1, <2>1, <2>2, NewStateAgrees
<1>9. CASE f.op = "new_state_end"
  <2>1. y \in {[Return(x) EXCEPT !.seqno = IF f.n > @ THEN f.n ELSE @]}
    BY <1>2, <1>9 DEF after_call
  <2>2. PICK m : m = f.n
    OBVIOUS
  <2>3. y = [Return(x) EXCEPT !.seqno = IF m > @ THEN m ELSE @]
    BY <2>1, <2>2
  <2> QED BY <1>1, <1>9, <2>2, <2>3, NewStateEndAgrees
<1>10. CASE f.op = "send_pre_prepare"
  <2>1. y \in send_pre_prepare(Return(x))
    BY <1>2, <1>10 DEF after_call
  <2>2. PICK w : w = Return(x)
    OBVIOUS
  <2>3. Good(w) /\ Same(x, w, {"calls"})
    BY <1>1, <1>10, <2>2, ReturnGood
  <2>4. Keeps(S, x, w)
    BY <2>3, CallsAgree DEF Good
  <2> QED BY <2>1, <2>2, <2>3, <2>4, SendPrePrepareAgrees, KeepsTrans
<1> QED BY <1>3, <1>5, <1>6, <1>7, <1>8, <1>9, <1>10

(* A client's request. *)
LEMMA RequestAgrees ==
  ASSUME NEW S, NEW x, Good(x), NEW y \in send_pre_prepare([x EXCEPT !.rqueue = TRUE])
  PROVE  Keeps(S, x, y)
<1>0. Typed(x) /\ LocalInv(x)
  BY DEF Good
<1>1. PICK z : z = [x EXCEPT !.rqueue = TRUE]
  OBVIOUS
<1>2. Shape(z) /\ Same(x, z, {"rqueue"}) /\ z.rqueue = TRUE
  BY <1>0, <1>1 DEF Typed, Shape, Same, Fields
<1>3. NumbersOK(z) /\ LogsOK(z) /\ DataOK(z) /\ z.id = x.id
  BY <1>0, <1>2, KeepTypes DEF Avoids
<1>4. FlagsOK(z) /\ z.sent = x.sent
  BY <1>0, <1>2 DEF Typed, FlagsOK, Same, Fields
<1>5. LocalInv(z)
  BY <1>0, <1>2, KeepInvariant DEF Avoids, LocalInv
<1>6. Good(z) /\ Typed(z)
  BY <1>0, <1>2, <1>3, <1>4, <1>5 DEF Good, Typed
<1>7. Keeps(S, x, z)
  BY <1>0, <1>2, <1>4, <1>6, KeepsSame DEF Avoids
<1> QED BY <1>1, <1>6, <1>7, SendPrePrepareAgrees, KeepsTrans

-----------------------------------------------------------------------------
(* add() of another replica's message keeps the certificate right, and      *)
(* never loses my own: the values are only given up while none is known to  *)
(* be correct.                                                              *)
LEMMA AddVoteCertOK ==
  ASSUME NEW V, Ignored \notin V, None \notin V, NEW me \in Replicas, NEW cert \in OwnedBy(me, V),
         NEW k, NEW i \in Replicas \ {me}, NEW v \in V, CertOK(me, cert),
         NEW new, new = AddVote(cert, k, i, v)
  PROVE  CertOK(me, new) /\ new.votes[me] = cert.votes[me]
<1>0. /\ cert \in Certificates(V) /\ cert.votes \in [Replicas -> V \cup {None, Ignored}]
      /\ cert.c \in V \cup {None} /\ F \in Nat
  BY CertFields, ReplicasAssumption DEF OwnedBy
<1>1. CASE new = cert
  BY <1>1
<1>2. CASE Admits(cert, k, i, v) /\ Overflows(cert, v)
  <2>1. new = EmptyCert
    BY <1>2 DEF AddVote, Admits, Added
  <2>2. cert.c = None /\ cert.votes[me] = None
    BY <1>2 DEF Overflows, CertOK
  <2>3. EmptyCert.votes[me] = None /\ EmptyCert.c = None /\ ~EmptyCert.forced
    BY DEF EmptyCert
  <2> QED BY <2>1, <2>2, <2>3 DEF CertOK
<1>3. CASE cert.votes[i] = None /\ ~Admits(cert, k, i, v)
  <2>1. new = [cert EXCEPT !.votes[i] = Ignored]
    BY <1>3 DEF AddVote, Added
  <2>2. /\ new.c = cert.c /\ new.forced = cert.forced
        /\ \A j \in Replicas : new.votes[j] = IF j = i THEN Ignored ELSE cert.votes[j]
    BY <1>0, <2>1 DEF Certificates
  <2>3. cert.c # None => Voters(new, new.c) = Voters(cert, cert.c)
    BY <1>0, <1>3, <2>2 DEF Voters
  <2> QED BY <2>2, <2>3 DEF CertOK
<1>4. CASE Added(cert, k, i, v)
  <2>1. new = [cert EXCEPT !.votes[i] = v,
                           !.c = IF @ = None /\ Cardinality(Voters(cert, v)) < F
                                 THEN None ELSE v]
    BY <1>4 DEF AddVote, Admits, Added
  <2>2. /\ new.c = IF cert.c = None /\ Cardinality(Voters(cert, v)) < F THEN None ELSE v
        /\ new.forced = cert.forced
        /\ \A j \in Replicas : new.votes[j] = IF j = i THEN v ELSE cert.votes[j]
    BY <1>0, <2>1 DEF Certificates
  <2>3. cert.votes[i] = None /\ (cert.c = None \/ cert.c = v)
    BY <1>4 DEF Added, Admits
  <2>4. Voters(new, v) = Voters(cert, v) \cup {i} /\ i \notin Voters(cert, v)
    BY <2>2, <2>3 DEF Voters
  <2>5. /\ IsFiniteSet(Voters(cert, v)) /\ Cardinality(Voters(cert, v)) \in Nat
        /\ Cardinality(Voters(new, v)) = Cardinality(Voters(cert, v)) + 1
    <3>1. IsFiniteSet(Voters(cert, v))
      BY ReplicasAssumption, FS_Subset DEF Voters
    <3> QED BY <2>4, <3>1, FS_AddElement, FS_CardinalityType
  <2>6. CASE cert.c = None
    BY <1>0, <2>2, <2>5, <2>6 DEF CertOK
  <2>7. CASE cert.c = v
    BY <1>0, <2>2, <2>5, <2>7 DEF CertOK
  <2> QED BY <2>3, <2>6, <2>7
<1>5. new = cert \/ cert.votes[i] = None
  BY DEF AddVote, Admits, Added
<1> QED BY <1>1, <1>2, <1>3, <1>4, <1>5 DEF Added

(* mark_stale() leaves my message alone, which is then the correct one. *)
LEMMA MarkStaleCertOK ==
  ASSUME NEW me \in Replicas, NEW cert, CertOK(me, cert), NEW k,
         NEW new, new = MarkStale(cert, k, me)
  PROVE  CertOK(me, new) /\ new.votes[me] = cert.votes[me]
<1>1. CASE IsComplete(cert, k)
  BY <1>1 DEF MarkStale
<1>2. CASE ~IsComplete(cert, k)
  <2>1. new = [EmptyCert EXCEPT !.votes[me] = cert.votes[me], !.c = cert.votes[me]]
    BY <1>2 DEF MarkStale
  <2>2. new.votes[me] = cert.votes[me] /\ new.c = cert.votes[me] /\ ~new.forced
    BY <2>1 DEF EmptyCert
  <2> QED BY <2>2 DEF CertOK
<1> QED BY <1>1, <1>2

(* One entry of plog changes and nothing is sent. *)
LEMMA EntryAgrees ==
  ASSUME NEW S, NEW x, Typed(x), NEW n \in Seqnos, NEW p, NEW y, Same(x, y, {"plog"}),
         y.plog = [x.plog EXCEPT ![n] = p], AgreeOK(S, x), EntryBacked(S, x.id, n, p),
         p.pc.votes[x.id] = x.plog[n].pc.votes[x.id]
  PROVE  Keeps(S, x, y)
<1>1. /\ y.id = x.id /\ y.state = x.state /\ y.last_stable = x.last_stable /\ y.seqno = x.seqno
      /\ y.sent = x.sent
  BY DEF Same, Fields
<1>2. \A m \in Seqnos : y.plog[m] = IF m = n THEN p ELSE x.plog[m]
  BY DEF Typed, LogsOK
<1>3. LogBacked(S, y)
  BY <1>1, <1>2 DEF AgreeOK, LogBacked
<1>4. HistoryBacked(S, y) /\ ProposedOnce(y)
  BY <1>1 DEF AgreeOK, HistoryBacked, Has, ProposedOnce
<1>5. AgreeOK(S, y)
  BY <1>3, <1>4 DEF AgreeOK
<1>6. Steady(x, y)
  BY <1>1, <1>2 DEF Steady, Mine
<1> QED BY <1>1, <1>5, <1>6 DEF Keeps, Moves

(* A prepare that i sent. *)
LEMMA PrepareAgrees ==
  ASSUME NEW S, NEW x, Good(x), x.calls = << >>, NEW i \in Replicas \ {x.id},
         NEW n \in Seqnos, NEW d \in Digests, <<n, d>> \in S[i].p, AgreeOK(S, x),
         NEW y, y = handle_Prepare(x, i, n, d)
  PROVE  Keeps(S, x, y)
<1>0. Typed(x) /\ LocalInv(x) /\ x.id \in Replicas /\ {None, Ignored} \cap Digests = {}
  BY ReplicaAssumption DEF Good, Typed
<1>1. CASE ~(in_w(x, n) /\ i # Primary)
  BY <1>1, KeepsNothing DEF handle_Prepare
<1>2. CASE in_w(x, n) /\ i # Primary
  <2>1. PICK c : c = AddVote(x.plog[n].pc, prepares, i, d)
    OBVIOUS
  <2>2. PICK z : z = [x EXCEPT !.plog[n].pc = c]
    OBVIOUS
  <2>3. y = IF Added(x.plog[n].pc, prepares, i, d) /\ prepared_complete(z.plog[n])
            THEN send_commit(z, n) ELSE z
    BY <1>2, <2>1, <2>2 DEF handle_Prepare
  <2>4. PICK p : p = [x.plog[n] EXCEPT !.pc = c]
    OBVIOUS
  <2>5. z = [x EXCEPT !.plog = [x.plog EXCEPT ![n] = p]]
    BY <2>2, <2>4
  <2>6. Shape(z) /\ Same(x, z, {"plog"}) /\ z.plog = [x.plog EXCEPT ![n] = p]
    BY <1>0, <2>5 DEF Typed, Shape, Same, Fields
  <2>7. AddedTo(Digests, x.id, x.plog[n].pc, i, d, c)
    BY <1>0, <2>1, PlogEntry, AddVoteType
  <2>8. EntryBacked(S, x.id, n, x.plog[n])
    BY DEF AgreeOK, LogBacked
  <2>9. CertOK(x.id, c) /\ c.votes[x.id] = x.plog[n].pc.votes[x.id]
    <3>1. CertOK(x.id, x.plog[n].pc)
      BY <2>8 DEF EntryBacked
    <3> QED BY <1>0, <2>1, <3>1, PlogEntry, AddVoteCertOK
  <2>10. p \in Prepareds(x.id) /\ p.pp = x.plog[n].pp /\ p.pc = c
    BY <1>0, <2>4, <2>7, PlogEntry DEF Prepareds, AddedTo
  <2>11. EntryBacked(S, x.id, n, p)
    <3>1. ASSUME NEW j \in Replicas, c.votes[j] \notin {None, Ignored}
          PROVE  j # Primary /\ <<n, c.votes[j]>> \in S[j].p
      <4>1. CASE c.votes[j] = x.plog[n].pc.votes[j]
        BY <2>8, <3>1, <4>1 DEF EntryBacked
      <4>2. CASE j = i /\ c.votes[j] = d
        BY <1>2, <4>2
      <4> QED BY <2>7, <3>1, <4>1, <4>2 DEF AddedTo
    <3> QED BY <2>8, <2>9, <2>10, <3>1 DEF EntryBacked
  <2>12. Keeps(S, x, z)
    BY <1>0, <2>6, <2>9, <2>10, <2>11, EntryAgrees
  <2>13. ASSUME prepared_complete(x.plog[n])
         PROVE  prepared_complete(p) /\ ~Added(x.plog[n].pc, prepares, i, d)
    <3>1. x.plog[n].pc \in Certificates(Digests) /\ IsComplete(x.plog[n].pc, prepares)
      BY <1>0, <2>13, PlogEntry DEF prepared_complete
    <3>2. /\ ~Added(x.plog[n].pc, prepares, i, d)
          /\ IsComplete(c, prepares) /\ c.c = x.plog[n].pc.c
      BY <1>0, <2>1, <3>1, AddVoteComplete
    <3> QED BY <2>10, <2>13, <3>2 DEF prepared_complete
  <2>14. Good(z) /\ z.id = x.id /\ z.calls = << >> /\ z.clog = x.clog /\ z.plog[n] = p
    <3>1. Same(x, z, {"plog", "sent"}) /\ z.sent = x.sent /\ x.sent \in Messages
      BY <1>0, <2>6 DEF Same, Fields, Typed, DataOK
    <3>2. Good(z)
      BY <2>6, <2>10, <2>13, <3>1, PlogUpdateGood
    <3> QED BY <1>0, <2>6, <3>2 DEF Same, Fields, Typed, LogsOK
  <2>15. CASE Added(x.plog[n].pc, prepares, i, d) /\ prepared_complete(z.plog[n])
    <3>1. Mine(z.clog[n], z.id) = None
      BY <1>0, <2>13, <2>14, <2>15 DEF LocalInv, OwnOK
    <3>2. y = send_commit(z, n)
      BY <2>3, <2>15
    <3> QED BY <2>12, <2>14, <2>15, <3>1, <3>2, SendCommitAgrees, KeepsTrans
  <2> QED BY <2>3, <2>12, <2>15
<1> QED BY <1>1, <1>2

(* A change of keys: the others' messages go, mine stay. *)
LEMMA NewKeyAgrees ==
  ASSUME NEW S, NEW x, Good(x), x.calls = << >>, AgreeOK(S, x), NEW y, y = send_new_key(x)
  PROVE  Keeps(S, x, y)
<1>0. Typed(x) /\ LocalInv(x) /\ x.id \in Replicas /\ LogsOK(x)
  BY DEF Good, Typed
<1> DEFINE min == IF x.last_executed > x.last_stable THEN x.last_executed ELSE x.last_stable
           stale(n) == in_w(x, n) /\ n > min
<1>1. PICK e : e = [n \in Checkpoints |->
                      IF in_w(x, n) THEN MarkStale(x.elog[n], checkpoints, x.id) ELSE x.elog[n]]
  OBVIOUS
<1>2. PICK p : p = [n \in Seqnos |->
                      IF stale(n) THEN prepared_mark_stale(x.plog[n], x.id) ELSE x.plog[n]]
  OBVIOUS
<1>3. PICK c : c = [n \in Seqnos |->
                      IF stale(n) THEN MarkStale(x.clog[n], commits, x.id) ELSE x.clog[n]]
  OBVIOUS
<1>4. y = [x EXCEPT !.elog = e, !.plog = p, !.clog = c]
  BY <1>1, <1>2, <1>3 DEF send_new_key
<1>5. Same(x, y, {"plog", "clog", "elog"}) /\ y.plog = p
  BY <1>0, <1>4 DEF Typed, Shape, Same, Fields
<1>6. /\ y.id = x.id /\ y.state = x.state /\ y.last_stable = x.last_stable /\ y.seqno = x.seqno
      /\ y.sent = x.sent
  BY <1>5 DEF Same, Fields
<1>7. ASSUME NEW n \in Seqnos
      PROVE  EntryBacked(S, x.id, n, p[n]) /\ p[n].pc.votes[x.id] = x.plog[n].pc.votes[x.id]
  <2>1. PICK s : s = prepared_mark_stale(x.plog[n], x.id)
    OBVIOUS
  <2>2. p[n] = s \/ p[n] = x.plog[n]
    BY <1>2, <2>1
  <2>3. EntryBacked(S, x.id, n, x.plog[n]) /\ x.plog[n].pc \in OwnedBy(x.id, Digests)
    BY <1>0, PlogEntry DEF AgreeOK, LogBacked
  <2>4. PICK m : m = MarkStale(x.plog[n].pc, prepares, x.id)
    OBVIOUS
  <2>5. s = x.plog[n] \/ (s.pp \in {None, x.plog[n].pp} /\ s.pc = m)
    BY <2>1, <2>4 DEF prepared_mark_stale
  <2>6. /\ CertOK(x.id, m) /\ m.votes[x.id] = x.plog[n].pc.votes[x.id]
        /\ \A j \in Replicas : m.votes[j] \in {None, x.plog[n].pc.votes[j]}
    <3>1. \A j \in Replicas : m.votes[j] \in {None, x.plog[n].pc.votes[j]}
      BY <1>0, <2>3, <2>4, MarkStaleType
    <3>2. CertOK(x.id, x.plog[n].pc)
      BY <2>3 DEF EntryBacked
    <3> QED BY <1>0, <2>4, <3>1, <3>2, MarkStaleCertOK
  <2>7. CASE s.pp \in {None, x.plog[n].pp} /\ s.pc = m
    <3>1. EntryBacked(S, x.id, n, s)
      BY <2>3, <2>6, <2>7 DEF EntryBacked
    <3> QED BY <2>2, <2>3, <2>6, <2>7, <3>1
  <2> QED BY <2>2, <2>3, <2>5, <2>7
<1>8. AgreeOK(S, y)
  <2>1. LogBacked(S, y)
    BY <1>5, <1>6, <1>7 DEF LogBacked
  <2>2. HistoryBacked(S, y) /\ ProposedOnce(y)
    BY <1>6 DEF AgreeOK, HistoryBacked, Has, ProposedOnce
  <2> QED BY <2>1, <2>2 DEF AgreeOK
<1>9. Steady(x, y)
  BY <1>5, <1>6, <1>7 DEF Steady, Mine
<1> QED BY <1>6, <1>8, <1>9 DEF Keeps, Moves

(* A state transfer: every batch of the new state was prepared. *)
LEMMA FetchDoneAgrees ==
  ASSUME NEW S, NEW x, Good(x), x.calls = << >>, x.fetching,
         NEW c \in Checkpoints, NEW h \in Seq(Digests), Len(h) = c, c >= x.last_executed,
         \A k \in 1..Len(h) : PreparedIn(S, k, h[k]), NEW y \in fetch_done(x, c, h)
  PROVE  Keeps(S, x, y)
<1>0. Typed(x) /\ Typed(y) /\ x.sent \in Messages
  BY FetchDoneGood DEF Good, Typed, DataOK
<1>1. PICK s : s = [x.sent EXCEPT !.md = @ \cup {<<c, h>>}]
  OBVIOUS
<1>2. /\ y.id = x.id /\ y.plog = x.plog /\ y.last_stable = x.last_stable /\ y.seqno = x.seqno
      /\ y.state = h /\ y.sent = s
  <2>1. PICK b : b = (c > x.last_executed)
    OBVIOUS
  <2>2. PICK a : a = [x EXCEPT !.fetching = FALSE, !.state = h, !.lc = c, !.fetched = c,
                               !.sent.md = @ \cup {<<c, h>>},
                               !.last_executed = IF b THEN c ELSE @,
                               !.last_tentative_execute = IF b THEN c ELSE @]
    OBVIOUS
  <2>3. a = [x EXCEPT !.fetching = FALSE, !.state = h, !.lc = c, !.fetched = c, !.sent = s,
                      !.last_executed = IF b THEN c ELSE @,
                      !.last_tentative_execute = IF b THEN c ELSE @]
    BY <1>1, <2>2
  <2>4. /\ a.id = x.id /\ a.plog = x.plog /\ a.last_stable = x.last_stable /\ a.seqno = x.seqno
        /\ a.state = h /\ a.sent = s /\ Shape(a)
    BY <1>0, <2>3 DEF Typed, Shape, Fields
  <2>5. \E q : y = Call(a, q) \/ y = [Call(a, q) EXCEPT !.rqueue = FALSE]
    BY <2>1, <2>2 DEF fetch_done, replies_new_state
  <2> QED BY <2>4, <2>5 DEF Call, Shape, Fields
<1>3. y.sent.pp = x.sent.pp /\ y.sent.p = x.sent.p /\ y.sent.md = x.sent.md \cup {<<c, h>>}
  BY <1>0, <1>1, <1>2 DEF Messages
<1>4. y.seqno >= x.seqno
  BY <1>0, <1>2, SeqnosAreNumbers DEF Typed, NumbersOK
<1>5. \A n \in Seqnos, d \in Digests : Has(y, n, d) => Has(x, n, d) \/ PreparedIn(S, n, d)
  BY <1>2, <1>3 DEF Has
<1> QED BY <1>0, <1>2, <1>3, <1>4, <1>5, KeepsHistory

-----------------------------------------------------------------------------
(* Replica x, becoming y, sends a prepare for batch d as number n.  It logs *)
(* it, unless more than f others sent one for another batch.                *)
Logged(x, y, n, d) == n > y.last_stable => Mine(y.plog[n].pc, x.id) = d
Refused(S, x, n) == \E e \in Digests : Cardinality(PreparedBy(S, n, e) \ {x.id}) > F

Prepares(S, x, y, n, d) ==
  /\ y.id = x.id /\ x.id # Primary /\ y.sent.p = x.sent.p \cup {<<n, d>>}
  /\ n > x.last_stable /\ Mine(x.plog[n].pc, x.id) = None
  /\ \A m \in Seqnos : m > y.last_stable =>
       m > x.last_stable /\ (m # n => Mine(y.plog[m].pc, x.id) = Mine(x.plog[m].pc, x.id))
  /\ Logged(x, y, n, d) \/ Refused(S, x, n)

(* A prepare is followed by steps that send none. *)
LEMMA PreparesTrans ==
  ASSUME NEW S, NEW x, NEW y, NEW z, NEW n \in Seqnos, NEW d, Prepares(S, x, y, n, d), Steady(y, z)
  PROVE  Prepares(S, x, z, n, d)
BY DEF Prepares, Steady, Logged

(* The correct value of a certificate without my message was sent by more   *)
(* than f others.                                                           *)
LEMMA RefusedVote ==
  ASSUME NEW S, NEW x, Typed(x), NEW n \in Seqnos, EntryBacked(S, x.id, n, x.plog[n]),
         Mine(x.plog[n].pc, x.id) = None, x.plog[n].pc.c # None
  PROVE  Refused(S, x, n)
<1>1. PICK c : c = x.plog[n].pc
  OBVIOUS
<1>2. /\ c \in Certificates(Digests) /\ c.c \in Digests /\ c.c \notin {None, Ignored}
      /\ c.votes[x.id] = None
  BY <1>1, PlogEntry, CertFields, ReplicaAssumption DEF Mine
<1>3. Cardinality(Voters(c, c.c)) > F
  BY <1>1, <1>2 DEF EntryBacked, CertOK
<1>4. Voters(c, c.c) \subseteq PreparedBy(S, n, c.c) \ {x.id}
  BY <1>1, <1>2 DEF EntryBacked, Voters, PreparedBy
<1>5. /\ Cardinality(Voters(c, c.c)) <= Cardinality(PreparedBy(S, n, c.c) \ {x.id})
      /\ Cardinality(Voters(c, c.c)) \in Nat /\ F \in Nat
      /\ Cardinality(PreparedBy(S, n, c.c) \ {x.id}) \in Nat
  <2>1. PreparedBy(S, n, c.c) \ {x.id} \subseteq Replicas
    BY DEF PreparedBy
  <2> QED BY <1>4, <2>1, ReplicasAssumption, FS_Subset, FS_CardinalityType
<1>6. Cardinality(PreparedBy(S, n, c.c) \ {x.id}) > F
  BY <1>3, <1>5
<1> QED BY <1>2, <1>6 DEF Refused

(* A pre-prepare of the primary. *)
LEMMA PrePrepareAgrees ==
  ASSUME NEW S, NEW x, Good(x), x.calls = << >>, NEW n \in Seqnos, NEW d \in Digests,
         <<n, d>> \in S[Primary].pp, AgreeOK(S, x), NEW y, y = handle_Pre_prepare(x, n, d)
  PROVE  Moves(S, x, y) /\ (Steady(x, y) \/ Prepares(S, x, y, n, d))
<1>0. /\ Typed(x) /\ LocalInv(x) /\ x.id \in Replicas /\ {None, Ignored} \cap Digests = {}
      /\ x.sent \in Messages /\ EntryBacked(S, x.id, n, x.plog[n])
  BY ReplicaAssumption DEF Good, Typed, DataOK, AgreeOK, LogBacked
<1>1. CASE ~(in_w(x, n) /\ x.id # Primary /\ accepts(x.plog[n], x.id, d))
  BY <1>1, KeepsNothing DEF handle_Pre_prepare, Keeps
<1>2. CASE in_w(x, n) /\ x.id # Primary /\ accepts(x.plog[n], x.id, d)
  <2>1. PICK u : u = [x EXCEPT !.plog[n].pp = d]
    OBVIOUS
  <2>2. PICK z : z = send_prepare(u, n)
    OBVIOUS
  <2>3. y = IF prepared_complete(z.plog[n]) THEN send_commit(z, n) ELSE z
    BY <1>2, <2>1, <2>2 DEF handle_Pre_prepare
  <2>4. PICK q : q = [x.plog[n] EXCEPT !.pp = d]
    OBVIOUS
  <2>5. u = [x EXCEPT !.plog = [x.plog EXCEPT ![n] = q]]
    BY <2>1, <2>4
  <2>6. Shape(u) /\ Same(x, u, {"plog"}) /\ u.plog = [x.plog EXCEPT ![n] = q]
    BY <1>0, <2>5 DEF Typed, Shape, Same, Fields
  <2>7. q.pp = d /\ q.pc = x.plog[n].pc /\ q \in Prepareds(x.id)
    BY <1>0, <2>4, PlogEntry DEF Prepareds
  <2>8. ~prepared_complete(x.plog[n]) /\ Mine(x.clog[n], x.id) = None
    BY <1>0, <1>2 DEF prepared_complete, accepts, LocalInv, OwnOK
  <2>9. u.plog[n] = q /\ u.id = x.id /\ u.sent = x.sent
    BY <1>0, <2>6 DEF Same, Fields, Typed, LogsOK
  <2>10. EntryBacked(S, x.id, n, q)
    BY <1>0, <2>7 DEF EntryBacked
  <2>11. /\ Good(z) /\ Same(x, z, {"plog", "sent"})
         /\ Moves(S, x, z) /\ (Steady(x, z) \/ Prepares(S, x, z, n, d))
    <3>1. CASE Mine(q.pc, x.id) # None
      <4>1. z = u
        BY <2>2, <2>9, <3>1 DEF send_prepare
      <4>2. Same(x, z, {"plog", "sent"}) /\ z.sent = x.sent /\ x.sent \in Messages
        BY <1>0, <2>6, <2>9, <4>1 DEF Same, Fields, Typed, DataOK
      <4>3. Good(z)
        BY <1>2, <2>6, <2>7, <2>8, <4>1, <4>2, PlogUpdateGood
      <4>4. Keeps(S, x, z)
        BY <1>0, <2>6, <2>7, <2>10, <4>1, EntryAgrees
      <4> QED BY <4>2, <4>3, <4>4 DEF Keeps
    <3>2. CASE Mine(q.pc, x.id) = None
      <4>1. PICK c : c = AddMyVote(q.pc, x.id, d)
        OBVIOUS
      <4>2. z = [u EXCEPT !.sent.p = @ \cup {<<n, d>>}, !.plog[n].pc = AddMyVote(@, x.id, d)]
        BY <2>2, <2>7, <2>9, <3>2 DEF send_prepare
      <4>3. PICK p : p = [q EXCEPT !.pc = c]
        OBVIOUS
      <4>4. z = [u EXCEPT !.sent = [x.sent EXCEPT !.p = @ \cup {<<n, d>>}],
                          !.plog = [u.plog EXCEPT ![n] = p]]
        BY <2>9, <4>1, <4>2, <4>3
      <4>5. /\ Shape(z) /\ Same(u, z, {"plog", "sent"})
            /\ z.sent = [x.sent EXCEPT !.p = @ \cup {<<n, d>>}]
            /\ z.plog = [u.plog EXCEPT ![n] = p]
        BY <2>6, <4>4 DEF Shape, Same, Fields
      <4>6. z.plog = [x.plog EXCEPT ![n] = p]
        BY <1>0, <2>6, <4>5 DEF Typed, LogsOK
      <4>7. /\ z.sent \in Messages /\ z.sent.md = x.sent.md /\ z.sent.pp = x.sent.pp
            /\ z.sent.p = x.sent.p \cup {<<n, d>>}
        <5>1. x.sent.p \cup {<<n, d>>} \in SUBSET (Seqnos \X Digests)
          BY <1>0 DEF Messages
        <5> QED BY <1>0, <4>5, <5>1 DEF Messages
      <4>8. c \in OwnedBy(x.id, Digests) /\ \A j \in Replicas \ {x.id} : c.votes[j] = q.pc.votes[j]
        BY <1>0, <2>7, <4>1, AddMyVoteType DEF Prepareds
      <4>9. p \in Prepareds(x.id) /\ p.pp = d /\ p.pc = c
        BY <2>7, <4>3, <4>8 DEF Prepareds
      <4>10. Same(x, z, {"plog", "sent"})
        BY <2>6, <4>5 DEF Same, Fields
      <4>11. Good(z)
        BY <1>2, <2>8, <4>5, <4>6, <4>7, <4>9, <4>10, PlogUpdateGood
      <4>12. /\ z.id = x.id /\ z.last_stable = x.last_stable /\ z.state = x.state
             /\ z.seqno = x.seqno
        BY <4>10 DEF Same, Fields
      <4>13. \A m \in Seqnos : z.plog[m] = IF m = n THEN p ELSE x.plog[m]
        BY <1>0, <4>6 DEF Typed, LogsOK
      <4>14. \/ c = q.pc /\ q.pc.c \notin {None, d}
             \/ c.votes[x.id] = d /\ c.c = d /\ c.forced = q.pc.forced
        BY <1>0, <2>7, <4>1, CertFields DEF AddMyVote, MineFits, Prepareds, OwnedBy, Certificates
      <4>15. CertOK(x.id, c)
        BY <2>10, <4>14 DEF EntryBacked, CertOK
      <4>16. ASSUME Covers(S, z) PROVE AgreeOK(S, z)
        <5>1. <<n, d>> \in S[x.id].p
          BY <4>7, <4>12, <4>16 DEF Covers
        <5>2. EntryBacked(S, x.id, n, p)
          <6>1. ASSUME NEW j \in Replicas, c.votes[j] \notin {None, Ignored}
                PROVE  j # Primary /\ <<n, c.votes[j]>> \in S[j].p
            <7>1. c.votes[j] = q.pc.votes[j] \/ (j = x.id /\ c.votes[j] = d)
              BY <4>8, <4>14
            <7> QED BY <1>2, <2>10, <5>1, <6>1, <7>1 DEF EntryBacked
          <6> QED BY <2>7, <2>10, <4>9, <4>15, <6>1 DEF EntryBacked
        <5>3. LogBacked(S, z)
          BY <4>12, <4>13, <5>2 DEF AgreeOK, LogBacked
        <5>4. HistoryBacked(S, z) /\ ProposedOnce(z)
          BY <4>7, <4>12 DEF AgreeOK, HistoryBacked, Has, ProposedOnce
        <5> QED BY <5>3, <5>4 DEF AgreeOK
      <4>17. Moves(S, x, z)
        BY <4>7, <4>12, <4>16 DEF Moves
      <4>18. Logged(x, z, n, d) \/ Refused(S, x, n)
        <5>1. CASE c = q.pc /\ q.pc.c \notin {None, d}
          BY <1>0, <2>7, <3>2, <5>1, RefusedVote
        <5>2. CASE c.votes[x.id] = d
          BY <4>9, <4>13, <5>2 DEF Logged, Mine
        <5> QED BY <4>14, <5>1, <5>2
      <4>19. Prepares(S, x, z, n, d)
        BY <1>2, <2>7, <3>2, <4>7, <4>12, <4>13, <4>18 DEF Prepares, in_w
      <4> QED BY <4>10, <4>11, <4>17, <4>19
    <3> QED BY <3>1, <3>2
  <2>12. z.id = x.id /\ z.calls = << >> /\ Mine(z.clog[n], z.id) = None
    BY <2>8, <2>11 DEF Same, Fields
  <2>13. CASE prepared_complete(z.plog[n])
    <3>1. Keeps(S, z, y)
      BY <2>3, <2>11, <2>12, <2>13, SendCommitAgrees
    <3> QED BY <2>11, <3>1, MovesTrans, SteadyTrans, PreparesTrans DEF Keeps
  <2> QED BY <2>3, <2>11, <2>13
<1> QED BY <1>1, <1>2

-----------------------------------------------------------------------------
(* Any step of a replica. *)
Step(S, x, y) ==
  Moves(S, x, y) /\ (Steady(x, y) \/ \E n \in Seqnos, d \in Digests : Prepares(S, x, y, n, d))

(* What more than f replicas vouch for has only batches that were prepared. *)
LEMMA VouchedPrepared ==
  ASSUME LInv, AInv, FewFaulty, NEW S, Grows(Said, S), NEW r \in Correct,
         NEW c \in Seqnos, NEW h \in Seq(Digests), Cardinality(Vouch(r, c, h)) > F, Len(h) = c,
         NEW k \in 1..Len(h)
  PROVE  PreparedIn(S, k, h[k])
<1>1. Vouch(r, c, h) \in SUBSET Replicas
  BY DEF Vouch
<1>2. PICK i \in Vouch(r, c, h) : i \in Correct
  BY <1>1, FewFaultyPlausible
<1>3. <<c, h>> \in rep[i].sent.md
  BY <1>2 DEF Vouch, Sent
<1>4. k \in Seqnos /\ h[k] \in Digests
  BY SeqnosAreNumbers
<1>5. Has(rep[i], k, h[k])
  BY <1>3 DEF Has
<1>6. PreparedIn(Said, k, h[k])
  BY <1>2, <1>4, <1>5 DEF AInv, AgreeOK, HistoryBacked
<1> QED BY <1>6, PreparedGrows

(* Every step of the system is one of these of one replica. *)
LEMMA NextAgrees ==
  ASSUME LInv, AInv, FewFaulty, Next
  PROVE  \E r \in Correct :
           /\ rep' = [rep EXCEPT ![r] = rep'[r]]
           /\ \A S : Grows(Said, S) => Step(S, rep[r], rep'[r])
<1>0. PICK r \in Correct : Request(r) \/ Receive(r) \/ NewKey(r) \/ FetchDone(r) \/ Continue(r)
  BY DEF Next
<1>1. PICK x : x = rep[r]
  OBVIOUS
<1>2. Good(x) /\ x.id = r /\ r \in Replicas /\ rep = [q \in Correct |-> rep[q]]
  BY <1>1, ReplicaAssumption DEF LInv, Good
<1>3. ASSUME NEW S, Grows(Said, S) PROVE AgreeOK(S, x)
  BY <1>1, <1>3, AgreeGrows DEF AInv
<1>4. ASSUME NEW y, rep' = [rep EXCEPT ![r] = y],
             ASSUME NEW S, Grows(Said, S) PROVE Step(S, x, y)
      PROVE  /\ rep' = [rep EXCEPT ![r] = rep'[r]]
             /\ \A S : Grows(Said, S) => Step(S, rep[r], rep'[r])
  <2>1. rep'[r] = y
    BY <1>2, <1>4
  <2> QED BY <1>1, <1>4, <2>1
<1>5. ASSUME NEW y, rep' = [rep EXCEPT ![r] = y],
             ASSUME NEW S, Grows(Said, S) PROVE Keeps(S, x, y)
      PROVE  /\ rep' = [rep EXCEPT ![r] = rep'[r]]
             /\ \A S : Grows(Said, S) => Step(S, rep[r], rep'[r])
  <2>1. ASSUME NEW S, Grows(Said, S) PROVE Step(S, x, y)
    BY <1>5, <2>1 DEF Step, Keeps
  <2> QED BY <1>4, <1>5, <2>1
<1>6. CASE Request(r)
  <2>1. PICK y \in send_pre_prepare([x EXCEPT !.rqueue = TRUE]) : Becomes(r, y)
    BY <1>1, <1>6 DEF Request
  <2>2. ASSUME NEW S PROVE Keeps(S, x, y)
    BY <1>2, <2>1, RequestAgrees
  <2> QED BY <1>5, <2>1, <2>2 DEF Becomes
<1>7. CASE Pre_prepare(r)
  <2>1. PICK m \in Sent(Primary).pp : Becomes(r, handle_Pre_prepare(x, m[1], m[2]))
    BY <1>1, <1>7 DEF Pre_prepare
  <2>2. x.calls = << >> /\ m[1] \in Seqnos /\ m[2] \in Digests /\ m = <<m[1], m[2]>>
    <3>1. Sent(Primary) \in Messages
      BY ReplicaAssumption, SentMessages
    <3> QED BY <1>1, <1>7, <2>1, <3>1 DEF Pre_prepare, Idle, Messages
  <2>3. PICK y : y = handle_Pre_prepare(x, m[1], m[2])
    OBVIOUS
  <2>4. ASSUME NEW S, Grows(Said, S) PROVE Step(S, x, y)
    <3>1. <<m[1], m[2]>> \in S[Primary].pp
      BY <2>1, <2>2, <2>4, ReplicaAssumption DEF Grows, Said
    <3>2. Moves(S, x, y) /\ (Steady(x, y) \/ Prepares(S, x, y, m[1], m[2]))
      BY <1>2, <1>3, <2>2, <2>3, <2>4, <3>1, PrePrepareAgrees
    <3> QED BY <2>2, <3>2 DEF Step
  <2> QED BY <1>4, <2>1, <2>3, <2>4 DEF Becomes
<1>8. ASSUME NEW i \in Replicas, Prepare(r, i)
      PROVE  /\ rep' = [rep EXCEPT ![r] = rep'[r]]
             /\ \A S : Grows(Said, S) => Step(S, rep[r], rep'[r])
  <2>1. PICK m \in Sent(i).p : Becomes(r, handle_Prepare(x, i, m[1], m[2]))
    BY <1>1, <1>8 DEF Prepare
  <2>2. /\ x.calls = << >> /\ i \in Replicas \ {x.id} /\ m[1] \in Seqnos /\ m[2] \in Digests
        /\ m = <<m[1], m[2]>>
    <3>1. Sent(i) \in Messages
      BY SentMessages
    <3> QED BY <1>1, <1>2, <1>8, <2>1, <3>1 DEF Prepare, Idle, Messages
  <2>3. PICK y : y = handle_Prepare(x, i, m[1], m[2])
    OBVIOUS
  <2>4. ASSUME NEW S, Grows(Said, S) PROVE Keeps(S, x, y)
    <3>1. <<m[1], m[2]>> \in S[i].p
      BY <2>1, <2>2, <2>4 DEF Grows, Said
    <3> QED BY <1>2, <1>3, <2>2, <2>3, <2>4, <3>1, PrepareAgrees
  <2> QED BY <1>5, <2>1, <2>3, <2>4 DEF Becomes
<1>9. ASSUME NEW i \in Replicas, Commit(r, i)
      PROVE  /\ rep' = [rep EXCEPT ![r] = rep'[r]]
             /\ \A S : Grows(Said, S) => Step(S, rep[r], rep'[r])
  <2>1. PICK n \in Sent(i).c : Becomes(r, handle_Commit(x, i, n))
    BY <1>1, <1>9 DEF Commit
  <2>2. x.calls = << >> /\ i \in Replicas \ {x.id} /\ n \in Seqnos
    BY <1>1, <1>2, <1>9, <2>1, SentMessages DEF Commit, Idle
  <2>3. PICK y : y = handle_Commit(x, i, n)
    OBVIOUS
  <2>4. ASSUME NEW S PROVE Keeps(S, x, y)
    BY <1>2, <2>2, <2>3, CommitAgrees
  <2> QED BY <1>5, <2>1, <2>3, <2>4 DEF Becomes
<1>10. ASSUME NEW i \in Replicas, Checkpoint(r, i)
       PROVE  /\ rep' = [rep EXCEPT ![r] = rep'[r]]
              /\ \A S : Grows(Said, S) => Step(S, rep[r], rep'[r])
  <2>1. PICK m \in Sent(i).k, slow \in BOOLEAN :
          m[1] \in Checkpoints /\ Becomes(r, handle_Checkpoint(x, i, m[1], m[2], m[3], slow))
    BY <1>1, <1>10 DEF Checkpoint
  <2>2. x.calls = << >> /\ i \in Replicas \ {x.id} /\ m[2] \in Seq(Digests)
    BY <1>1, <1>2, <1>10, <2>1, SentMessages DEF Checkpoint, Idle
  <2>3. PICK y : y = handle_Checkpoint(x, i, m[1], m[2], m[3], slow)
    OBVIOUS
  <2>4. ASSUME NEW S PROVE Keeps(S, x, y)
    BY <1>2, <2>1, <2>2, <2>3, CheckpointAgrees
  <2> QED BY <1>5, <2>1, <2>3, <2>4 DEF Becomes
<1>11. CASE NewKey(r)
  <2>1. PICK y : y = send_new_key(x)
    OBVIOUS
  <2>2. x.calls = << >> /\ rep' = [rep EXCEPT ![r] = y]
    BY <1>1, <1>11, <2>1 DEF NewKey, Idle
  <2>3. ASSUME NEW S, Grows(Said, S) PROVE Keeps(S, x, y)
    BY <1>2, <1>3, <2>1, <2>2, <2>3, NewKeyAgrees
  <2> QED BY <1>5, <2>2, <2>3
<1>12. CASE FetchDone(r)
  <2>1. x.calls = << >> /\ x.fetching
    BY <1>1, <1>12 DEF FetchDone, Idle
  <2>2. PICK v \in UNION {Sent(i).md : i \in Replicas} :
          /\ v[1] \in Checkpoints /\ v[1] >= x.last_executed
          /\ Cardinality(Vouch(r, v[1], v[2])) > F
          /\ \E y \in fetch_done(x, v[1], v[2]) : Becomes(r, y)
    BY <1>1, <1>12 DEF FetchDone
  <2>3. v[1] \in Seqnos /\ v[2] \in Seq(Digests)
    BY <2>2, SentMessages
  <2>4. Len(v[2]) = v[1]
    BY <2>2, <2>3, FewFaultyPlausible, VouchedLength
  <2>5. PICK y \in fetch_done(x, v[1], v[2]) : Becomes(r, y)
    BY <2>2
  <2>6. ASSUME NEW S, Grows(Said, S) PROVE Keeps(S, x, y)
    <3>1. \A k \in 1..Len(v[2]) : PreparedIn(S, k, v[2][k])
      BY <2>2, <2>3, <2>4, <2>6, VouchedPrepared
    <3> QED BY <1>2, <2>1, <2>2, <2>3, <2>4, <2>5, <3>1, FetchDoneAgrees
  <2> QED BY <1>5, <2>5, <2>6 DEF Becomes
<1>13. CASE Continue(r)
  <2>1. x.calls # << >>
    BY <1>1, <1>13 DEF Continue
  <2>2. PICK y \in after_call(x) : Becomes(r, y)
    BY <1>1, <1>13 DEF Continue
  <2>3. ASSUME NEW S PROVE Keeps(S, x, y)
    BY <1>2, <2>1, <2>2, AfterCallAgrees
  <2> QED BY <1>5, <2>2, <2>3 DEF Becomes
<1> QED BY <1>0, <1>6, <1>7, <1>8, <1>9, <1>10, <1>11, <1>12, <1>13 DEF Receive

(* The batches stay backed; and with what is sent after the step, it is one *)
(* of these steps, too.                                                     *)
LEMMA StepBacked ==
  ASSUME LInv, AInv, FewFaulty, Next
  PROVE  /\ AInv'
         /\ \E r \in Correct : /\ \A q \in Correct : rep'[q] = IF q = r THEN rep'[r] ELSE rep[q]
                               /\ Step(Said', rep[r], rep'[r])
<1>1. PICK r \in Correct :
        /\ rep' = [rep EXCEPT ![r] = rep'[r]]
        /\ \A S : Grows(Said, S) => Step(S, rep[r], rep'[r])
  BY NextAgrees
<1>2. PICK T : T = Said'
  OBVIOUS
<1>3. PICK x : x = rep[r]
  OBVIOUS
<1>4. PICK y : y = rep'[r]
  OBVIOUS
<1>5. \A q \in Correct : rep'[q] = IF q = r THEN y ELSE rep[q]
  <2>1. rep = [q \in Correct |-> rep[q]]
    BY DEF LInv
  <2> QED BY <1>1, <1>4, <2>1
<1>6. /\ \A i \in Replicas : Said[i] = IF i \in Correct THEN rep[i].sent ELSE Claims[i]
      /\ \A i \in Replicas : T[i] = IF i \in Correct THEN rep'[i].sent ELSE Claims[i]
      /\ Correct \subseteq Replicas /\ Primary \in Replicas
  BY <1>2, ReplicaAssumption DEF Said, Sent
<1>7. Moves(Said, x, y)
  <2>1. Grows(Said, Said)
    BY DEF Grows
  <2> QED BY <1>1, <1>3, <1>4, <2>1 DEF Step
<1>8. Grows(Said, T)
  <2>1. \A q \in Correct : rep[q].sent.pp \subseteq rep'[q].sent.pp /\ rep[q].sent.p \subseteq rep'[q].sent.p
    BY <1>3, <1>5, <1>7 DEF Moves
  <2> QED BY <1>6, <2>1 DEF Grows
<1>9. Step(T, x, y)
  BY <1>1, <1>3, <1>4, <1>8
<1>10. ASSUME NEW q \in Correct PROVE AgreeOK(T, rep'[q])
  <2>1. AgreeOK(T, rep[q])
    BY <1>8, AgreeGrows DEF AInv
  <2>2. CASE q = r
    <3>1. y.id = r
      BY <1>3, <1>7 DEF Moves, LInv
    <3>2. Covers(T, y)
      BY <1>4, <1>6, <3>1 DEF Covers
    <3> QED BY <1>3, <1>4, <1>9, <2>1, <2>2, <3>2 DEF Step, Moves
  <2> QED BY <1>5, <2>1, <2>2
<1>11. AInv'
  BY <1>2, <1>10 DEF AInv
<1> QED BY <1>2, <1>3, <1>4, <1>5, <1>9, <1>11

(* At the start nothing is logged or executed. *)
LEMMA InitBacked == Init => AInv
<1> SUFFICES ASSUME Init, NEW r \in Correct PROVE AgreeOK(Said, rep[r])
  BY DEF AInv
<1>1. PICK x : x = Fresh(r)
  OBVIOUS
<1>2. rep[r] = x
  BY <1>1 DEF Init
<1>3. /\ x.id = r /\ x.state = << >> /\ x.plog = [n \in Seqnos |-> EmptyPrepared]
      /\ x.sent = [pp |-> {}, p |-> {}, c |-> {}, k |-> {}, md |-> {}] /\ r \in Replicas
  BY <1>1, ReplicaAssumption DEF Fresh
<1>4. LogBacked(Said, x)
  <2>1. /\ EmptyPrepared.pp = None /\ EmptyPrepared.pc.c = None /\ ~EmptyPrepared.pc.forced
        /\ \A i \in Replicas : EmptyPrepared.pc.votes[i] = None
    BY DEF EmptyPrepared, EmptyCert
  <2>2. \A n \in Seqnos : EntryBacked(Said, r, n, EmptyPrepared)
    BY <1>3, <2>1 DEF EntryBacked, CertOK
  <2> QED BY <1>3, <2>2 DEF LogBacked
<1>5. HistoryBacked(Said, x)
  BY <1>3 DEF HistoryBacked, Has
<1>6. ProposedOnce(x)
  BY <1>3 DEF ProposedOnce
<1> QED BY <1>2, <1>4, <1>5, <1>6 DEF AgreeOK

(* Every batch that a correct replica executed or keeps a checkpoint of was *)
(* prepared.                                                                *)
THEOREM BackedInvariant ==
  ASSUME FewFaulty
  PROVE  Spec => [](LInv /\ AInv)
<1>0. ClaimsPlausible
  BY FewFaultyPlausible
<1>1. LInv /\ AInv /\ [Next]_vars => AInv'
  <2>1. ASSUME AInv, UNCHANGED vars PROVE AInv'
    BY <2>1 DEF AInv, vars, Said, Sent
  <2> QED BY <2>1, StepBacked
<1>2. Spec => []LInv
  BY <1>0, LocalInvariant
<1> QED BY <1>1, <1>2, InitBacked, PTL DEF Spec
-----------------------------------------------------------------------------
(* Two sets of replicas other than the primary that are large enough have   *)
(* members in common.                                                       *)
LEMMA BackupsMeet ==
  ASSUME NEW A \in SUBSET (Replicas \ {Primary}), NEW B \in SUBSET (Replicas \ {Primary})
  PROVE  /\ Cardinality(A) \in Nat /\ Cardinality(B) \in Nat /\ Cardinality(A \cap B) \in Nat
         /\ Cardinality(A) + Cardinality(B) <= Cardinality(A \cap B) + 3 * F
         /\ Cardinality(A \cap B) > 0 => \E i \in A \cap B : TRUE
<1>1. /\ IsFiniteSet(Replicas \ {Primary}) /\ Cardinality(Replicas \ {Primary}) = 3 * F
      /\ F \in Nat
  <2>1. /\ IsFiniteSet(Replicas) /\ Primary \in Replicas /\ F \in Nat
        /\ Cardinality(Replicas) = 3 * F + 1
    BY ReplicasAssumption, ReplicaAssumption
  <2>2. Cardinality(Replicas \ {Primary}) = Cardinality(Replicas) - 1
    BY <2>1, FS_RemoveElement
  <2> QED BY <2>1, <2>2, FS_RemoveElement
<1>2. IsFiniteSet(A) /\ IsFiniteSet(B) /\ IsFiniteSet(A \cap B) /\ IsFiniteSet(A \cup B)
  BY <1>1, FS_Subset
<1>3. /\ Cardinality(A) \in Nat /\ Cardinality(B) \in Nat /\ Cardinality(A \cap B) \in Nat
      /\ Cardinality(A \cup B) \in Nat
  BY <1>2, FS_CardinalityType
<1>4. Cardinality(A \cup B) = Cardinality(A) + Cardinality(B) - Cardinality(A \cap B)
  BY <1>2, FS_Union
<1>5. Cardinality(A \cup B) <= 3 * F
  BY <1>1, FS_Subset
<1>6. Cardinality(A) + Cardinality(B) <= Cardinality(A \cap B) + 3 * F
  BY <1>1, <1>3, <1>4, <1>5
<1>7. Cardinality(A \cap B) > 0 => \E i \in A \cap B : TRUE
  BY <1>2, FS_EmptySet
<1> QED BY <1>3, <1>6, <1>7

(* What a correct replica executed under a number was prepared. *)
LEMMA ExecutedPrepared ==
  ASSUME LInv, AInv, NEW r \in Correct, NEW n \in DOMAIN rep[r].state
  PROVE  n \in Seqnos /\ rep[r].state[n] \in Digests /\ PreparedIn(Said, n, rep[r].state[n])
<1>1. PICK x : x = rep[r]
  OBVIOUS
<1>2. /\ Typed(x) /\ CountersOK(x) /\ HistoryBacked(Said, x) /\ x.state \in Seq(Digests)
      /\ x.last_tentative_execute \in 0..MaxSeqno
  BY <1>1 DEF LInv, AInv, LocalInv, AgreeOK, Typed, DataOK, NumbersOK
<1>3. n \in 1..Len(x.state) /\ x.state[n] \in Digests
  BY <1>1, <1>2
<1>4. n \in Seqnos
  BY <1>2, <1>3, SeqnosAreNumbers DEF CountersOK
<1>5. Has(x, n, x.state[n])
  BY <1>3 DEF Has
<1> QED BY <1>1, <1>2, <1>3, <1>4, <1>5 DEF HistoryBacked

(* A correct primary proposes only one batch for a number. *)
LEMMA OneProposal ==
  ASSUME LInv, AInv, Primary \in Correct, NEW n, NEW d, NEW e,
         PreparedIn(Said, n, d), PreparedIn(Said, n, e)
  PROVE  d = e
<1>1. <<n, d>> \in rep[Primary].sent.pp /\ <<n, e>> \in rep[Primary].sent.pp
  BY ReplicaAssumption DEF PreparedIn, Said, Sent
<1>2. \A m1, m2 \in rep[Primary].sent.pp : m1[1] = m2[1] => m1 = m2
  BY DEF LInv, AInv, AgreeOK, ProposedOnce
<1>3. <<n, d>> = <<n, e>>
  BY <1>1, <1>2
<1> QED BY <1>3

(* A set of faulty replicas that the primary belongs to leaves fewer than f *)
(* others.                                                                  *)
LEMMA CorrectBackup ==
  ASSUME FewFaulty, Primary \notin Correct, NEW W \in SUBSET (Replicas \ {Primary}),
         Cardinality(W) >= F
  PROVE  \E i \in W : i \in Correct
<1> SUFFICES ASSUME W \cap Correct = {} PROVE FALSE
  OBVIOUS
<1>1. /\ IsFiniteSet(Replicas) /\ F \in Nat /\ IsFiniteSet(Replicas \ Correct) /\ IsFiniteSet(W)
      /\ Primary \in Replicas
  BY ReplicasAssumption, ReplicaAssumption, FS_Subset
<1>2. W \cup {Primary} \subseteq Replicas \ Correct /\ Primary \notin W
  BY <1>1
<1>3. Cardinality(W \cup {Primary}) = Cardinality(W) + 1
  BY <1>1, <1>2, FS_AddElement
<1>4. Cardinality(W \cup {Primary}) <= Cardinality(Replicas \ Correct)
  BY <1>1, <1>2, FS_Subset
<1>5. Cardinality(W) \in Nat /\ Cardinality(Replicas \ Correct) \in Nat
  BY <1>1, FS_CardinalityType
<1> QED BY <1>1, <1>3, <1>4, <1>5 DEF FewFaulty

(* Correct replicas can only come to execute different batches under the    *)
(* same number when one of them prepares two, which send_prepare() does not *)
(* rule out: for any number of faults, any window and any messages.         *)
THEOREM DisagreementNeedsTwoPrepares ==
  ASSUME FewFaulty
  PROVE  Spec => [](PreparesOnce => Agreement)
<1>1. LInv /\ AInv => (PreparesOnce => Agreement)
  <2> SUFFICES ASSUME LInv, AInv, PreparesOnce, NEW r \in Correct, NEW q \in Correct,
                      NEW n \in DOMAIN rep[r].state \cap DOMAIN rep[q].state
               PROVE  rep[r].state[n] = rep[q].state[n]
    BY DEF Agreement
  <2>1. PICK d : d = rep[r].state[n]
    OBVIOUS
  <2>2. PICK e : e = rep[q].state[n]
    OBVIOUS
  <2>3. n \in Seqnos /\ PreparedIn(Said, n, d) /\ PreparedIn(Said, n, e)
    BY <2>1, <2>2, ExecutedPrepared
  <2>4. CASE Primary \in Correct
    BY <2>1, <2>2, <2>3, <2>4, OneProposal
  <2>5. CASE Primary \notin Correct
    <3>1. PICK A : A = PreparedBy(Said, n, d)
      OBVIOUS
    <3>2. PICK B : B = PreparedBy(Said, n, e)
      OBVIOUS
    <3>3. A \in SUBSET (Replicas \ {Primary}) /\ B \in SUBSET (Replicas \ {Primary})
      BY <3>1, <3>2 DEF PreparedBy
    <3>4. Cardinality(A) >= 2 * F /\ Cardinality(B) >= 2 * F /\ F \in Nat
      BY <2>3, <3>1, <3>2, ReplicasAssumption DEF PreparedIn, prepares
    <3>5. Cardinality(A \cap B) >= F
      <4>1. /\ Cardinality(A) \in Nat /\ Cardinality(B) \in Nat /\ Cardinality(A \cap B) \in Nat
            /\ Cardinality(A) + Cardinality(B) <= Cardinality(A \cap B) + 3 * F
        BY <3>3, BackupsMeet
      <4> QED BY <3>4, <4>1
    <3>6. PICK i \in A \cap B : i \in Correct
      BY <2>5, <3>3, <3>5, CorrectBackup
    <3>7. <<n, d>> \in rep[i].sent.p /\ <<n, e>> \in rep[i].sent.p
      BY <3>1, <3>2, <3>6 DEF PreparedBy, Said, Sent
    <3>8. <<n, d>> = <<n, e>>
      BY <3>6, <3>7 DEF PreparesOnce
    <3> QED BY <2>1, <2>2, <3>8
  <2> QED BY <2>4, <2>5
<1> QED BY <1>1, BackedInvariant, PTL
-----------------------------------------------------------------------------
(* A step that sends no prepare for n leaves settled what is settled. *)
LEMMA StaysSettled ==
  ASSUME NEW x, NEW y, NEW n \in Seqnos, Settled(x, n), y.id = x.id,
         \A m \in y.sent.p : m[1] = n => m \in x.sent.p,
         n > y.last_stable =>
           n > x.last_stable /\ Mine(y.plog[n].pc, x.id) = Mine(x.plog[n].pc, x.id)
  PROVE  Settled(y, n)
BY DEF Settled

(* At the start nobody has prepared anything. *)
LEMMA InitSettled == Init => SInv
<1> SUFFICES ASSUME Init, NEW n \in Seqnos, NEW q \in Correct PROVE Settled(rep[q], n)
  BY DEF SInv
<1>1. rep[q].sent.p = {}
  BY DEF Init, Fresh
<1> QED BY <1>1 DEF Settled

(* The first replica to prepare twice leaves the others settled. *)
LEMMA StepSettled ==
  ASSUME LInv, AInv, SInv, Replicas \ Correct \subseteq {Primary},
         NEW r \in Correct, \A q \in Correct : rep'[q] = IF q = r THEN rep'[r] ELSE rep[q],
         Step(Said', rep[r], rep'[r]), NEW n \in Seqnos
  PROVE  \/ \A q \in Correct : Settled(rep'[q], n)
         \/ \E e \in Digests :
              Cardinality({q \in Correct \ {Primary} :
                             Settled(rep'[q], n) /\ <<n, e>> \in rep'[q].sent.p}) > F
<1> DEFINE On(e) == {q \in Correct \ {Primary} :
                       Settled(rep'[q], n) /\ <<n, e>> \in rep'[q].sent.p}
<1>0. /\ Correct \subseteq Replicas /\ IsFiniteSet(Replicas) /\ F \in Nat
      /\ {None, Ignored} \cap Digests = {}
  BY ReplicaAssumption, ReplicasAssumption
<1>1. PICK x : x = rep[r]
  OBVIOUS
<1>2. PICK y : y = rep'[r]
  OBVIOUS
<1>3. PICK T : T = Said'
  OBVIOUS
<1>4. /\ \A q \in Correct : rep'[q] = IF q = r THEN y ELSE rep[q]
      /\ Step(T, x, y) /\ x.id = r /\ y.id = r /\ Typed(x)
  BY <1>1, <1>2, <1>3 DEF Step, Moves, LInv
<1>5. ASSUME NEW W, NEW e \in Digests, W \subseteq On(e), Cardinality(W) > F
      PROVE  Cardinality(On(e)) > F
  <2>1. On(e) \subseteq Replicas
    BY <1>0
  <2> HIDE DEF On
  <2>2. Cardinality(W) <= Cardinality(On(e)) /\ Cardinality(W) \in Nat /\ Cardinality(On(e)) \in Nat
    BY <1>0, <1>5, <2>1, FS_Subset, FS_CardinalityType
  <2> QED BY <1>0, <1>5, <2>2
<1>6. ASSUME Settled(x, n) => Settled(y, n), x.sent.p \subseteq y.sent.p
      PROVE  \/ \A q \in Correct : Settled(rep'[q], n)
             \/ \E e \in Digests : Cardinality(On(e)) > F
  <2>1. CASE \A q \in Correct : Settled(rep[q], n)
    BY <1>1, <1>4, <1>6, <2>1
  <2>2. ASSUME NEW e \in Digests, Cardinality(SettledOn(n, e)) > F
        PROVE  Cardinality(On(e)) > F
    <3>1. SettledOn(n, e) \subseteq On(e)
      BY <1>1, <1>4, <1>6 DEF SettledOn
    <3> QED BY <1>5, <2>2, <3>1
  <2> QED BY <2>1, <2>2 DEF SInv
<1>7. CASE Steady(x, y)
  <2>1. Settled(x, n) => Settled(y, n)
    BY <1>7, StaysSettled DEF Steady
  <2> QED BY <1>6, <1>7, <2>1 DEF Steady
<1>8. ASSUME NEW k \in Seqnos, NEW d \in Digests, Prepares(T, x, y, k, d)
      PROVE  \/ \A q \in Correct : Settled(rep'[q], n)
             \/ \E e \in Digests : Cardinality(On(e)) > F
  <2>1. x.sent.p \subseteq y.sent.p /\ y.sent.p = x.sent.p \cup {<<k, d>>}
    BY <1>8 DEF Prepares
  <2>2. CASE k # n
    <3>1. Settled(x, n) => Settled(y, n)
      BY <1>4, <1>8, <2>1, <2>2, StaysSettled DEF Prepares
    <3> QED BY <1>6, <2>1, <3>1
  <2>3. CASE k = n /\ Settled(x, n)
    <3>1. \A m \in x.sent.p : m[1] # n
      <4>1. \A m \in x.sent.p : m[2] # None
        BY <1>0, <1>4 DEF Typed, DataOK, Messages
      <4> QED BY <1>8, <2>3, <4>1 DEF Settled, Prepares
    <3>2. CASE Logged(x, y, n, d)
      <4>1. Settled(y, n)
        BY <1>4, <2>1, <2>3, <3>1, <3>2 DEF Settled, Logged
      <4> QED BY <1>6, <2>1, <4>1
    <3>3. CASE Refused(T, x, n)
      <4>1. PICK e \in Digests : Cardinality(PreparedBy(T, n, e) \ {r}) > F
        BY <1>4, <3>3 DEF Refused
      <4>2. CASE \A q \in Correct : Settled(rep[q], n)
        <5>1. PreparedBy(T, n, e) \ {r} \subseteq On(e)
          <6>1. ASSUME NEW q \in PreparedBy(T, n, e) \ {r} PROVE q \in On(e)
            <7>1. q \in Correct \ {Primary} /\ <<n, e>> \in T[q].p /\ q # r
              BY DEF PreparedBy
            <7>2. rep'[q] = rep[q] /\ T[q] = rep'[q].sent
              BY <1>0, <1>3, <1>4, <7>1 DEF Said, Sent
            <7> QED BY <4>2, <7>1, <7>2
          <6> QED BY <6>1
        <5> QED BY <1>5, <4>1, <5>1
      <4>3. ASSUME NEW g \in Digests, Cardinality(SettledOn(n, g)) > F
            PROVE  Cardinality(On(g)) > F
        <5>1. r \notin SettledOn(n, g)
          BY <1>1, <3>1 DEF SettledOn
        <5>2. SettledOn(n, g) \subseteq On(g)
          BY <1>4, <5>1 DEF SettledOn
        <5> QED BY <1>5, <4>3, <5>2
      <4> QED BY <4>2, <4>3 DEF SInv
    <3> QED BY <1>8, <2>3, <3>2, <3>3 DEF Prepares
  <2>4. CASE ~Settled(x, n)
    BY <1>6, <2>1, <2>4
  <2> QED BY <2>2, <2>3, <2>4
<1> QED BY <1>4, <1>7, <1>8 DEF Step

(* When the primary is the only faulty replica, all are settled on a number *)
(* or more than f on one batch.                                             *)
THEOREM SettledInvariant ==
  ASSUME FewFaulty, Replicas \ Correct \subseteq {Primary}
  PROVE  Spec => []SInv
<1>1. LInv /\ AInv /\ SInv /\ [Next]_vars => SInv'
  <2>1. ASSUME SInv, UNCHANGED vars PROVE SInv'
    BY <2>1 DEF SInv, SettledOn, vars
  <2>2. ASSUME LInv, AInv, SInv, Next PROVE SInv'
    BY <2>2, StepBacked, StepSettled DEF SInv, SettledOn
  <2> QED BY <2>1, <2>2
<1> QED BY <1>1, BackedInvariant, InitSettled, PTL DEF Spec

(* Then two batches are never both prepared. *)
LEMMA SettledAgree ==
  ASSUME SInv, Replicas \ Correct \subseteq {Primary}, NEW n \in Seqnos, NEW d, NEW g,
         PreparedIn(Said, n, d), PreparedIn(Said, n, g)
  PROVE  d = g
<1>0. Correct \subseteq Replicas /\ F \in Nat /\ F > 0
  BY ReplicaAssumption, ReplicasAssumption
<1>1. ASSUME NEW b, PreparedIn(Said, n, b)
      PROVE  /\ PreparedBy(Said, n, b) \in SUBSET (Replicas \ {Primary})
             /\ Cardinality(PreparedBy(Said, n, b)) >= 2 * F
             /\ \A i \in PreparedBy(Said, n, b) : i \in Correct /\ <<n, b>> \in rep[i].sent.p
  BY <1>0, <1>1 DEF PreparedIn, PreparedBy, prepares, Said, Sent
<1>2. ASSUME NEW A \in SUBSET (Replicas \ {Primary}), NEW B \in SUBSET (Replicas \ {Primary}),
             Cardinality(A) >= 2 * F, Cardinality(B) > F
      PROVE  \E i \in A : i \in B
  <2>1. /\ Cardinality(A) \in Nat /\ Cardinality(B) \in Nat /\ Cardinality(A \cap B) \in Nat
        /\ Cardinality(A) + Cardinality(B) <= Cardinality(A \cap B) + 3 * F
        /\ Cardinality(A \cap B) > 0 => \E i \in A \cap B : TRUE
    BY BackupsMeet
  <2>2. Cardinality(A \cap B) > 0
    BY <1>0, <1>2, <2>1
  <2> QED BY <2>1, <2>2
<1>3. ASSUME NEW i \in Correct, NEW b, NEW c, Settled(rep[i], n),
             <<n, b>> \in rep[i].sent.p, <<n, c>> \in rep[i].sent.p
      PROVE  b = c
  <2>1. <<n, b>> = <<n, c>>
    BY <1>3 DEF Settled
  <2> QED BY <2>1
<1>4. CASE \A q \in Correct : Settled(rep[q], n)
  <2>1. Cardinality(PreparedBy(Said, n, g)) > F
    <3>1. Cardinality(PreparedBy(Said, n, g)) >= 2 * F /\ Cardinality(PreparedBy(Said, n, g)) \in Nat
      BY <1>1, BackupsMeet
    <3> QED BY <1>0, <3>1
  <2>2. PICK i \in PreparedBy(Said, n, d) : i \in PreparedBy(Said, n, g)
    BY <1>1, <1>2, <2>1
  <2> QED BY <1>1, <1>3, <1>4, <2>2
<1>5. ASSUME NEW e \in Digests, Cardinality(SettledOn(n, e)) > F
      PROVE  d = g
  <2>1. SettledOn(n, e) \in SUBSET (Replicas \ {Primary})
    BY <1>0 DEF SettledOn
  <2>2. ASSUME NEW b, PreparedIn(Said, n, b) PROVE b = e
    <3>1. PICK i \in PreparedBy(Said, n, b) : i \in SettledOn(n, e)
      BY <1>1, <1>2, <1>5, <2>1, <2>2
    <3> QED BY <1>1, <1>3, <2>2, <3>1 DEF SettledOn
  <2>3. d = e
    BY <2>2
  <2>4. g = e
    BY <2>2
  <2> QED BY <2>3, <2>4
<1> QED BY <1>4, <1>5 DEF SInv

(* Correct replicas never execute different batches under the same number,  *)
(* whatever the faulty ones send and however key changes and truncation     *)
(* empty the certificates, provided the primary is correct or no replica    *)
(* but the primary is faulty.                                               *)
THEOREM AgreementOfCorrect ==
  ASSUME FewFaulty, Primary \in Correct \/ Replicas \ Correct \subseteq {Primary}
  PROVE  Spec => []Agreement
<1>1. ASSUME LInv, AInv, Primary \in Correct PROVE Agreement
  BY <1>1, ExecutedPrepared, OneProposal DEF Agreement
<1>2. ASSUME LInv, AInv, SInv, Replicas \ Correct \subseteq {Primary} PROVE Agreement
  BY <1>2, ExecutedPrepared, SettledAgree DEF Agreement
<1>3. CASE Primary \in Correct
  <2>1. LInv /\ AInv => Agreement
    BY <1>1, <1>3
  <2> QED BY <2>1, BackedInvariant, PTL
<1>4. CASE Replicas \ Correct \subseteq {Primary}
  <2>1. LInv /\ AInv /\ SInv => Agreement
    BY <1>2, <1>4
  <2>2. Spec => []SInv
    BY <1>4, SettledInvariant
  <2> QED BY <2>1, <2>2, BackedInvariant, PTL
<1> QED BY <1>3, <1>4

(* With four replicas, f = 1, that is always so. *)
THEOREM AgreementOfFour ==
  ASSUME FewFaulty, F = 1
  PROVE  Spec => []Agreement
<1>1. CASE Primary \in Correct
  BY <1>1, AgreementOfCorrect
<1>2. CASE Primary \notin Correct
  <2>1. Replicas \ Correct \subseteq {Primary}
    <3>1. /\ IsFiniteSet(Replicas \ Correct) /\ {Primary} \subseteq Replicas \ Correct
          /\ Cardinality(Replicas \ Correct) \in Nat
      BY <1>2, ReplicasAssumption, ReplicaAssumption, FS_Subset, FS_CardinalityType
    <3>2. Cardinality({Primary}) = 1 /\ Cardinality(Replicas \ Correct) <= 1
      BY FS_Singleton DEF FewFaulty
    <3>3. Cardinality({Primary}) = Cardinality(Replicas \ Correct)
      <4>1. Cardinality({Primary}) <= Cardinality(Replicas \ Correct)
        BY <3>1, FS_Subset
      <4> QED BY <3>1, <3>2, <4>1
    <3> QED BY <3>1, <3>3, FS_Subset
  <2> QED BY <2>1, AgreementOfCorrect
<1> QED BY <1>1, <1>2

-----------------------------------------------------------------------------
(***************************************************************************)
(* A replica discards its log only below a checkpoint that f+1 correct     *)
(* replicas took or passed.                                                *)
(*                                                                         *)
(* It learns that a checkpoint is stable in four ways: from its own        *)
(* certificate in elog, from the certificates that the walk over sset      *)
(* completes, from f+1 messages that say so, and from a state transfer, to *)
(* whose number the window has to reach.  The last two trust another       *)
(* correct replica, so the invariant is about what all of them sent.       *)
(***************************************************************************)

(* More than f correct replicas sent a checkpoint message for n or above, S *)
(* being what each of them sent.                                            *)
Reached(S, n) == {q \in Correct : \E m \in S[q].k : m[1] >= n}
BackedIn(S, n) == Cardinality(Reached(S, n)) > F

(* The messages in a certificate of checkpoint n were sent. *)
Took(S, i, n) == \E m \in S[i].k : m[1] = n

VotesSent(S, n, cert) ==
  \A i \in Correct : cert.votes[i] \notin {None, Ignored} => Took(S, i, n)

WindowBacked(S, x) == x.last_stable > 0 => BackedIn(S, x.last_stable)

(* A checkpoint that is kept is in the window of a stable one. *)
KeptBacked(S, x) == \A v \in x.sent.md : v[1] > max_out => BackedIn(S, v[1] - max_out)

ClaimsBacked(S, x) == \A m \in x.sent.k : m[3] => BackedIn(S, m[1])

ElogBacked(S, x) ==
  \A n \in Checkpoints : VotesSent(S, n, x.elog[n]) /\ (x.elog[n].forced => n <= x.last_stable)

SsetBacked(S, x) ==
  \A i \in Correct : x.sset[i] # None => <<x.sset[i][1], x.sset[i][2], TRUE>> \in S[i].k

(* What mark_stable() is called for, or will be by the walk over sset. *)
Marks(x, f) == f.op = "mark_stable" \/ (f.op = "transfer_sset" /\ f.n > x.last_stable)

MarksBacked(S, x) == \A k \in 1..Len(x.calls) : Marks(x, x.calls[k]) => BackedIn(S, x.calls[k].n)

StableOK(S, x) ==
  /\ WindowBacked(S, x) /\ KeptBacked(S, x) /\ ClaimsBacked(S, x)
  /\ ElogBacked(S, x) /\ SsetBacked(S, x) /\ MarksBacked(S, x)

BInv == \A r \in Correct : StableOK(Said, rep[r])

-----------------------------------------------------------------------------
(* What everybody sent, and more of it. *)
Sayings == [Replicas -> Messages]

Rises(S, T) == \A i \in Replicas : S[i].k \subseteq T[i].k

(* The checkpoint messages in it have sequence numbers. *)
LEMMA SayingsTyped ==
  ASSUME NEW S \in Sayings, NEW i \in Replicas
  PROVE  /\ S[i].k \in SUBSET (Seqnos \X Seq(Digests) \X BOOLEAN)
         /\ \A m \in S[i].k : m[1] \in Nat
<1>1. S[i] \in Messages
  BY DEF Sayings
<1>2. S[i].k \in SUBSET (Seqnos \X Seq(Digests) \X BOOLEAN)
  BY <1>1 DEF Messages
<1>3. \A m \in S[i].k : m[1] \in Seqnos
  BY <1>2
<1> QED BY <1>2, <1>3, SeqnosAreNumbers

(* A checkpoint stays backed when more is sent, and so do earlier ones. *)
LEMMA BackedGrows ==
  ASSUME NEW S \in Sayings, NEW T \in Sayings, Rises(S, T), NEW n \in Int, NEW m \in Int, m <= n,
         BackedIn(S, n)
  PROVE  BackedIn(T, m)
<1>1. Reached(S, n) \subseteq Reached(T, m)
  <2> SUFFICES ASSUME NEW q \in Correct, NEW k \in S[q].k, k[1] >= n
               PROVE  \E j \in T[q].k : j[1] >= m
    BY DEF Reached
  <2>1. q \in Replicas
    BY ReplicaAssumption
  <2>2. k \in T[q].k /\ k[1] \in Nat
    BY <2>1, SayingsTyped DEF Rises
  <2> QED BY <2>2
<1>2. IsFiniteSet(Reached(T, m))
  BY ReplicasAssumption, ReplicaAssumption, FS_Subset DEF Reached
<1>3. /\ Cardinality(Reached(S, n)) <= Cardinality(Reached(T, m))
      /\ Cardinality(Reached(S, n)) \in Nat /\ Cardinality(Reached(T, m)) \in Nat
  BY <1>1, <1>2, FS_Subset, FS_CardinalityType
<1> QED BY <1>3, ReplicasAssumption DEF BackedIn

(* In particular when nothing more is sent. *)
LEMMA BackedBelow ==
  ASSUME NEW S \in Sayings, NEW n \in Int, NEW m \in Int, m <= n, BackedIn(S, n)
  PROVE  BackedIn(S, m)
BY BackedGrows DEF Rises

(* The numbers that the invariant is about are numbers. *)
LEMMA StableNumbers ==
  ASSUME NEW x, Typed(x)
  PROVE  /\ x.last_stable \in Nat /\ x.last_executed \in Nat /\ x.last_tentative_execute \in Nat
         /\ max_out \in Nat /\ Checkpoints \subseteq Nat
         /\ \A v \in x.sent.md : v[1] \in Nat
         /\ \A m \in x.sent.k : m[1] \in Nat
         /\ Len(x.calls) \in Nat /\ \A k \in 1..Len(x.calls) : x.calls[k] \in Frames /\ x.calls[k].n \in Nat
<1>1. /\ x.sent.md \in SUBSET (Seqnos \X Seq(Digests))
      /\ x.sent.k \in SUBSET (Seqnos \X Seq(Digests) \X BOOLEAN)
  BY DEF Typed, DataOK, Messages
<1>2. \A k \in 1..Len(x.calls) : x.calls[k] \in Frames
  BY DEF Typed, DataOK
<1>3. Len(x.calls) \in Nat
  BY LenProperties DEF Typed, DataOK
<1>4. \A k \in 1..Len(x.calls) : x.calls[k].n \in Nat
  BY <1>2 DEF Frames
<1>5. x.last_stable \in Nat /\ x.last_executed \in Nat /\ x.last_tentative_execute \in Nat
  BY SeqnosAreNumbers DEF Typed, NumbersOK
<1> QED BY <1>1, <1>2, <1>3, <1>4, <1>5, SeqnosAreNumbers

(* The invariant of a replica is kept when the others send more. *)
LEMMA StableGrows ==
  ASSUME NEW S \in Sayings, NEW T \in Sayings, Rises(S, T), NEW x, Typed(x), StableOK(S, x)
  PROVE  StableOK(T, x)
<1>0. \A n \in Int : BackedIn(S, n) => BackedIn(T, n)
  BY BackedGrows
<1>1. WindowBacked(T, x)
  BY <1>0, StableNumbers DEF StableOK, WindowBacked
<1>2. KeptBacked(T, x)
  <2> SUFFICES ASSUME NEW v \in x.sent.md, v[1] > max_out PROVE BackedIn(T, v[1] - max_out)
    BY DEF KeptBacked
  <2>1. BackedIn(S, v[1] - max_out) /\ v[1] - max_out \in Int
    BY StableNumbers DEF StableOK, KeptBacked
  <2> QED BY <1>0, <2>1
<1>3. ClaimsBacked(T, x)
  BY <1>0, StableNumbers DEF StableOK, ClaimsBacked
<1>4. ElogBacked(T, x)
  <2>1. \A n \in Checkpoints : VotesSent(S, n, x.elog[n]) => VotesSent(T, n, x.elog[n])
    BY ReplicaAssumption DEF VotesSent, Rises, Took
  <2> QED BY <2>1 DEF StableOK, ElogBacked
<1>5. SsetBacked(T, x)
  BY ReplicaAssumption DEF StableOK, SsetBacked, Rises
<1>6. MarksBacked(T, x)
  BY <1>0, StableNumbers DEF StableOK, MarksBacked
<1> QED BY <1>1, <1>2, <1>3, <1>4, <1>5, <1>6 DEF StableOK

(* A complete certificate whose messages were sent shows that more than f   *)
(* correct replicas have the checkpoint, unless it was made complete.       *)
LEMMA QuorumBacked ==
  ASSUME FewFaulty, NEW S \in Sayings, NEW n \in Checkpoints,
         NEW cert \in Certificates(Seq(Digests)), VotesSent(S, n, cert), ~cert.forced,
         IsComplete(cert, checkpoints)
  PROVE  BackedIn(S, n)
<1> DEFINE V == Voters(cert, cert.c)
<1>1. V \in SUBSET Replicas /\ Cardinality(V) >= 2 * F + 1
  BY DEF IsComplete, checkpoints, Voters
<1>2. cert.c \notin {None, Ignored}
  BY CertFields, ReplicaAssumption DEF IsComplete
<1>3. V \cap Correct \subseteq Reached(S, n)
  <2> SUFFICES ASSUME NEW i \in Correct, i \in V PROVE \E m \in S[i].k : m[1] >= n
    BY DEF Reached
  <2>1. PICK m \in S[i].k : m[1] = n
    BY <1>2 DEF VotesSent, Voters, Took
  <2> QED BY <2>1, SeqnosAreNumbers
<1> HIDE DEF V
<1>4. /\ IsFiniteSet(Replicas) /\ F \in Nat /\ IsFiniteSet(V) /\ IsFiniteSet(Replicas \ Correct)
      /\ IsFiniteSet(V \cap Correct) /\ IsFiniteSet(Reached(S, n)) /\ IsFiniteSet(V \ Correct)
  BY <1>1, ReplicasAssumption, ReplicaAssumption, FS_Subset DEF Reached
<1>5. Cardinality(V \ Correct) <= Cardinality(Replicas \ Correct)
  BY <1>1, <1>4, FS_Subset
<1>6. Cardinality(V \ Correct) = Cardinality(V) - Cardinality(V \cap Correct)
  BY <1>4, FS_Difference
<1>7. Cardinality(V \cap Correct) <= Cardinality(Reached(S, n))
  BY <1>3, <1>4, FS_Subset
<1>8. /\ Cardinality(V) \in Nat /\ Cardinality(V \cap Correct) \in Nat
      /\ Cardinality(Reached(S, n)) \in Nat /\ Cardinality(Replicas \ Correct) \in Nat
  BY <1>4, FS_CardinalityType
<1> QED BY <1>1, <1>4, <1>5, <1>6, <1>7, <1>8 DEF BackedIn, FewFaulty

-----------------------------------------------------------------------------
(* Replica x becomes y, having sent more, and keeps its part of the         *)
(* invariant if what it sent is among S.                                    *)
Advances(S, x, y) ==
  /\ y.id = x.id /\ x.sent.k \subseteq y.sent.k
  /\ y.sent.k \subseteq S[y.id].k /\ StableOK(S, x) => StableOK(S, y)

(* Two such changes make one, and no change is one. *)
LEMMA AdvancesTrans ==
  ASSUME NEW S, NEW x, NEW y, NEW z, Advances(S, x, y), Advances(S, y, z)
  PROVE  Advances(S, x, z)
BY DEF Advances

(* See AdvancesTrans. *)
LEMMA AdvancesNothing ==
  ASSUME NEW S, NEW x
  PROVE  Advances(S, x, x)
BY DEF Advances

(* The window stays, the checkpoints kept are in it, and the rest is as the *)
(* invariant wants it.                                                      *)
InWindow(x, y) ==
  \A v \in y.sent.md : v \in x.sent.md \/ (v[1] \in Nat /\ v[1] <= x.last_stable + max_out)

(* See InWindow: then the invariant is kept. *)
LEMMA AdvancesBy ==
  ASSUME NEW S \in Sayings, NEW x, x.last_stable \in Nat, NEW y, y.id = x.id,
         x.sent.k \subseteq y.sent.k, y.last_stable = x.last_stable, InWindow(x, y),
         y.sent.k \subseteq S[y.id].k /\ StableOK(S, x) =>
           ClaimsBacked(S, y) /\ ElogBacked(S, y) /\ SsetBacked(S, y) /\ MarksBacked(S, y)
  PROVE  Advances(S, x, y)
<1> SUFFICES ASSUME y.sent.k \subseteq S[y.id].k, StableOK(S, x)
             PROVE  WindowBacked(S, y) /\ KeptBacked(S, y)
  BY DEF Advances, StableOK
<1>1. WindowBacked(S, y)
  BY DEF StableOK, WindowBacked
<1>2. KeptBacked(S, y)
  <2> SUFFICES ASSUME NEW v \in y.sent.md, v[1] > max_out PROVE BackedIn(S, v[1] - max_out)
    BY DEF KeptBacked
  <2>1. CASE v \in x.sent.md
    BY <2>1 DEF StableOK, KeptBacked
  <2>2. CASE v[1] \in Nat /\ v[1] <= x.last_stable + max_out
    <3>1. max_out \in Nat
      BY SeqnosAreNumbers
    <3>2. v[1] - max_out \in Int /\ v[1] - max_out <= x.last_stable /\ x.last_stable > 0
      BY <2>2, <3>1
    <3>3. BackedIn(S, x.last_stable)
      BY <3>2 DEF StableOK, WindowBacked
    <3> QED BY <3>1, <3>2, <3>3, BackedBelow
  <2> QED BY <2>1, <2>2 DEF InWindow
<1> QED BY <1>1, <1>2
-----------------------------------------------------------------------------
(* What the operations below need of a replica's state. *)
Framed(x) ==
  /\ Shape(x) /\ x.sent = [f \in MessageKinds |-> x.sent[f]] /\ x.calls \in Seq(Frames)
  /\ x.last_stable \in Nat /\ x.last_executed \in Nat /\ x.lc \in Int

(* No call of mark_stable() or of its walk over sset is added. *)
NoNewWalks(x, y) ==
  \A k \in 1..Len(y.calls) : y.calls[k].op \in Walks =>
    \E j \in 1..Len(x.calls) : y.calls[k] = x.calls[j]

(* Nothing that concerns checkpoint messages changes. *)
Harmless(x, y) ==
  /\ Framed(y) /\ Same(x, y, Fields \ {"id", "last_stable", "elog", "sset"})
  /\ y.sent.k = x.sent.k /\ InWindow(x, y) /\ NoNewWalks(x, y)

(* A correct replica's state is such a state. *)
LEMMA TypedFramed ==
  ASSUME NEW x, Typed(x)
  PROVE  Framed(x)
<1>1. x.sent = [f \in MessageKinds |-> x.sent[f]]
  BY DEF Typed, DataOK, Messages, MessageKinds
<1> QED BY <1>1, SeqnosAreNumbers DEF Typed, DataOK, NumbersOK, Framed

(* Two harmless changes make one, and no change is one. *)
LEMMA HarmlessTrans ==
  ASSUME NEW x, NEW y, NEW z, Harmless(x, y), Harmless(y, z)
  PROVE  Harmless(x, z)
<1>1. Same(x, z, Fields \ {"id", "last_stable", "elog", "sset"}) /\ y.last_stable = x.last_stable
  BY DEF Harmless, Same, Fields
<1>2. InWindow(x, z)
  BY <1>1 DEF Harmless, InWindow
<1>3. NoNewWalks(x, z)
  BY DEF Harmless, NoNewWalks
<1> QED BY <1>1, <1>2, <1>3 DEF Harmless

(* See HarmlessTrans. *)
LEMMA HarmlessNothing ==
  ASSUME NEW x, Framed(x)
  PROVE  Harmless(x, x)
BY DEF Harmless, Same, InWindow, NoNewWalks

(* A harmless change keeps the invariant. *)
LEMMA HarmlessAdvances ==
  ASSUME NEW S \in Sayings, NEW x, Framed(x), NEW y, Harmless(x, y)
  PROVE  Advances(S, x, y)
<1>1. /\ y.id = x.id /\ y.last_stable = x.last_stable /\ y.elog = x.elog /\ y.sset = x.sset
      /\ y.sent.k = x.sent.k /\ x.last_stable \in Nat
  BY DEF Harmless, Framed, Same, Fields
<1>2. ASSUME StableOK(S, x)
      PROVE  ClaimsBacked(S, y) /\ ElogBacked(S, y) /\ SsetBacked(S, y) /\ MarksBacked(S, y)
  <2>1. ClaimsBacked(S, y) /\ ElogBacked(S, y) /\ SsetBacked(S, y)
    BY <1>1, <1>2 DEF StableOK, ClaimsBacked, ElogBacked, SsetBacked
  <2>2. ASSUME NEW k \in 1..Len(y.calls), Marks(y, y.calls[k]) PROVE BackedIn(S, y.calls[k].n)
    <3>1. PICK j \in 1..Len(x.calls) : y.calls[k] = x.calls[j]
      BY <2>2 DEF Marks, Walks, Harmless, NoNewWalks
    <3>2. Marks(x, x.calls[j])
      BY <1>1, <2>2, <3>1 DEF Marks
    <3> QED BY <1>2, <3>1, <3>2 DEF StableOK, MarksBacked
  <2> QED BY <2>1, <2>2 DEF MarksBacked
<1> QED BY <1>1, <1>2, AdvancesBy DEF Harmless

(* Fields that have nothing to do with checkpoint messages. *)
Elsewhere == {"seqno", "plog", "clog", "rqueue", "fetching", "state", "fetched", "relogged",
              "stopped", "last_tentative_execute"}

(* See Elsewhere: they and what else is sent may change. *)
LEMMA ElsewhereHarmless ==
  ASSUME NEW x, Framed(x), NEW y, Shape(y), Same(x, y, Elsewhere \cup {"sent"}),
         y.sent = [f \in MessageKinds |-> y.sent[f]], SentSame(x, y, {"pp", "p", "c"})
  PROVE  Harmless(x, y)
<1>1. /\ y.calls = x.calls /\ y.last_stable = x.last_stable /\ y.last_executed = x.last_executed
      /\ y.lc = x.lc /\ Same(x, y, Fields \ {"id", "last_stable", "elog", "sset"})
  BY DEF Same, Fields, Elsewhere
<1>2. y.sent.k = x.sent.k /\ y.sent.md = x.sent.md
  BY DEF SentSame, MessageKinds
<1> QED BY <1>1, <1>2 DEF Harmless, Framed, InWindow, NoNewWalks

(* A checkpoint within the window may be taken. *)
LEMMA CheckpointHarmless ==
  ASSUME NEW x, Framed(x), NEW n \in Nat, n <= x.last_stable + max_out, NEW y, y = checkpoint(x, n)
  PROVE  Harmless(x, y)
<1>1. PICK md : md = IF n \in Checkpoints THEN x.sent.md \cup {<<n, x.state>>} ELSE x.sent.md
  OBVIOUS
<1>2. PICK s : s = [x.sent EXCEPT !.md = md]
  OBVIOUS
<1>3. y = [x EXCEPT !.lc = n, !.sent = s]
  BY <1>1, <1>2 DEF checkpoint
<1>4. Shape(y) /\ Same(x, y, {"lc", "sent"}) /\ y.lc = n /\ y.sent = s
  BY <1>3 DEF Framed, Shape, Same, Fields
<1>5. s = [f \in MessageKinds |-> s[f]] /\ s.k = x.sent.k /\ s.md = md
  BY <1>2 DEF Framed, MessageKinds
<1>6. /\ y.calls = x.calls /\ y.last_stable = x.last_stable /\ y.last_executed = x.last_executed
      /\ Same(x, y, Fields \ {"id", "last_stable", "elog", "sset"})
  BY <1>4 DEF Same, Fields
<1>7. InWindow(x, y)
  BY <1>1, <1>4, <1>5 DEF InWindow
<1> QED BY <1>4, <1>5, <1>6, <1>7 DEF Harmless, Framed, NoNewWalks

(* Tentative execution stays within the window. *)
LEMMA ExecutePreparedHarmless ==
  ASSUME NEW x, Framed(x), NEW y, y = execute_prepared(x)
  PROVE  Harmless(x, y)
<1>1. PICK n : n = x.last_executed + 1
  OBVIOUS
<1>2. PICK s : s = Append(x.state, x.plog[n].pp)
  OBVIOUS
<1>3. PICK z : z = [x EXCEPT !.last_tentative_execute = n, !.state = s]
  OBVIOUS
<1>4. y = x \/ (executes(x, n) /\ y \in {z, checkpoint(z, n)})
  BY <1>1, <1>2, <1>3 DEF execute_prepared
<1>5. Shape(z) /\ Same(x, z, {"last_tentative_execute", "state"})
  BY <1>3 DEF Framed, Shape, Same, Fields
<1>6. z.sent = x.sent /\ z.last_stable = x.last_stable /\ Same(x, z, Elsewhere \cup {"sent"})
  BY <1>5 DEF Same, Fields, Elsewhere
<1>7. Harmless(x, z)
  BY <1>5, <1>6, ElsewhereHarmless DEF Framed, SentSame
<1>8. executes(x, n) => n \in Nat /\ n <= z.last_stable + max_out
  BY <1>1, <1>6, SeqnosAreNumbers DEF executes, Framed
<1>9. CASE executes(x, n) /\ y = checkpoint(z, n)
  BY <1>7, <1>8, <1>9, CheckpointHarmless, HarmlessTrans DEF Harmless
<1> QED BY <1>4, <1>7, <1>9, HarmlessNothing

(* A rollback and the forgotten checkpoint do no harm. *)
LEMMA RollbackHarmless ==
  ASSUME NEW x, Framed(x), NEW y, y = rollback(x)
  PROVE  Harmless(x, y)
<1>1. CASE x.lc < 0 \/ x.fetching
  <2>1. y = [x EXCEPT !.stopped = TRUE]
    BY <1>1 DEF rollback
  <2>2. Shape(y) /\ Same(x, y, Elsewhere \cup {"sent"}) /\ y.sent = x.sent
    BY <2>1 DEF Framed, Shape, Same, Fields, Elsewhere
  <2> QED BY <2>2, ElsewhereHarmless DEF Framed, SentSame
<1>2. CASE ~(x.lc < 0 \/ x.fetching)
  <2>1. PICK s : s = prefix(x, x.lc)
    OBVIOUS
  <2>2. y = [x EXCEPT !.state = s, !.last_executed = x.lc, !.last_tentative_execute = x.lc]
    BY <1>2, <2>1 DEF rollback
  <2>3. /\ Shape(y) /\ Same(x, y, {"state", "last_executed", "last_tentative_execute"})
        /\ y.last_executed = x.lc
    BY <2>2 DEF Framed, Shape, Same, Fields
  <2>4. /\ y.calls = x.calls /\ y.last_stable = x.last_stable /\ y.lc = x.lc /\ y.sent = x.sent
        /\ Same(x, y, Fields \ {"id", "last_stable", "elog", "sset"})
    BY <2>3 DEF Same, Fields
  <2>5. y.last_executed \in Nat
    BY <1>2, <2>3 DEF Framed
  <2> QED BY <2>3, <2>4, <2>5 DEF Harmless, Framed, InWindow, NoNewWalks
<1> QED BY <1>1, <1>2

(* discard_checkpoint(), which may take one of what was executed. *)
LEMMA DiscardHarmless ==
  ASSUME NEW x, Framed(x), x.last_executed <= x.last_stable + max_out,
         NEW y, y = discard_checkpoint(x)
  PROVE  Harmless(x, y)
<1>1. PICK z : z = checkpoint(x, x.last_executed)
  OBVIOUS
<1>2. Harmless(x, z) /\ Framed(z)
  <2>1. x.last_executed \in Nat
    BY DEF Framed
  <2>2. Harmless(x, z)
    BY <1>1, <2>1, CheckpointHarmless
  <2> QED BY <2>2 DEF Harmless
<1>3. y = x \/ y = [z EXCEPT !.lc = -1]
  BY <1>1 DEF discard_checkpoint
<1>4. CASE y = [z EXCEPT !.lc = -1]
  <2>1. Shape(y) /\ Same(z, y, {"lc"}) /\ y.lc = -1
    BY <1>2, <1>4 DEF Framed, Shape, Same, Fields
  <2>2. /\ y.calls = z.calls /\ y.last_stable = z.last_stable /\ y.sent = z.sent
        /\ y.last_executed = z.last_executed
        /\ Same(z, y, Fields \ {"id", "last_stable", "elog", "sset"})
    BY <2>1 DEF Same, Fields
  <2>3. Harmless(z, y)
    BY <1>2, <2>1, <2>2 DEF Harmless, Framed, InWindow, NoNewWalks
  <2> QED BY <1>2, <2>3, HarmlessTrans
<1> QED BY <1>3, <1>4, HarmlessNothing

(* The same for start_fetch(). *)
LEMMA StartFetchHarmless ==
  ASSUME NEW x, Framed(x), x.last_executed <= x.last_stable + max_out, NEW y, y = start_fetch(x)
  PROVE  Harmless(x, y)
<1>1. PICK z : z = checkpoint(x, x.last_executed)
  OBVIOUS
<1>2. Harmless(x, z) /\ Framed(z)
  <2>1. x.last_executed \in Nat
    BY DEF Framed
  <2>2. Harmless(x, z)
    BY <1>1, <2>1, CheckpointHarmless
  <2> QED BY <2>2 DEF Harmless
<1>3. y = x \/ y = [x EXCEPT !.fetching = TRUE] \/ y = [z EXCEPT !.fetching = TRUE]
  BY <1>1 DEF start_fetch
<1>4. ASSUME NEW w, Framed(w), y = [w EXCEPT !.fetching = TRUE] PROVE Harmless(w, y)
  <2>1. Shape(y) /\ Same(w, y, Elsewhere \cup {"sent"}) /\ y.sent = w.sent
    BY <1>4 DEF Framed, Shape, Same, Fields, Elsewhere
  <2> QED BY <1>4, <2>1, ElsewhereHarmless DEF Framed, SentSame
<1> QED BY <1>2, <1>3, <1>4, HarmlessNothing, HarmlessTrans

(* Another call is made first, which is not one of mark_stable(). *)
LEMMA CallHarmless ==
  ASSUME NEW x, Framed(x), NEW f \in Frames, f.op \notin Walks, NEW y, y = Call(x, <<f>>)
  PROVE  Harmless(x, y)
<1>1. x.calls \in Seq(Frames) /\ <<f>> \in Seq(Frames) /\ Len(<<f>>) = 1 /\ <<f>>[1] = f
  BY DEF Framed
<1>2. PICK q : q = <<f>> \o x.calls
  OBVIOUS
<1>3. /\ q \in Seq(Frames) /\ Len(q) = 1 + Len(x.calls) /\ Len(x.calls) \in Nat
      /\ \A k \in 1..Len(q) : q[k] = IF k <= 1 THEN <<f>>[k] ELSE x.calls[k - 1]
  BY <1>1, <1>2, ConcatProperties, LenProperties
<1>4. Shape(y) /\ Same(x, y, {"calls"}) /\ y.calls = q
  BY <1>2 DEF Call, Framed, Shape, Same, Fields
<1>5. NoNewWalks(x, y)
  <2> SUFFICES ASSUME NEW k \in 1..Len(q), q[k].op \in Walks
               PROVE  \E j \in 1..Len(x.calls) : q[k] = x.calls[j]
    BY <1>4 DEF NoNewWalks
  <2>1. k # 1
    BY <1>1, <1>3
  <2>2. k - 1 \in 1..Len(x.calls) /\ q[k] = x.calls[k - 1]
    BY <1>3, <2>1
  <2> QED BY <2>2
<1>6. /\ y.last_stable = x.last_stable /\ y.sent = x.sent /\ y.lc = x.lc
      /\ y.last_executed = x.last_executed /\ Same(x, y, Fields \ {"id", "last_stable", "elog", "sset"})
  BY <1>4 DEF Same, Fields
<1> QED BY <1>3, <1>4, <1>5, <1>6 DEF Harmless, Framed, InWindow

(* The first call was made. *)
LEMMA ReturnHarmless ==
  ASSUME NEW x, Framed(x), x.calls # << >>, NEW y, y = Return(x)
  PROVE  Harmless(x, y)
<1>1. Shape(y) /\ Same(x, y, {"calls"}) /\ y.calls = Tail(x.calls)
  BY DEF Return, Framed, Shape, Same, Fields
<1>2. /\ y.calls \in Seq(Frames) /\ Len(y.calls) = Len(x.calls) - 1 /\ Len(x.calls) \in Nat
      /\ \A k \in 1..Len(y.calls) : y.calls[k] = x.calls[k + 1]
  BY <1>1, HeadTailProperties, EmptySeq, LenProperties DEF Framed
<1>3. \A k \in 1..Len(y.calls) : k + 1 \in 1..Len(x.calls)
  BY <1>2
<1>4. NoNewWalks(x, y)
  BY <1>2, <1>3 DEF NoNewWalks
<1>5. /\ y.last_stable = x.last_stable /\ y.sent = x.sent /\ y.lc = x.lc
      /\ y.last_executed = x.last_executed /\ Same(x, y, Fields \ {"id", "last_stable", "elog", "sset"})
  BY <1>1 DEF Same, Fields
<1> QED BY <1>1, <1>2, <1>4, <1>5 DEF Harmless, Framed, InWindow

(* send_commit(), which may execute the batch and go on to others. *)
LEMMA SendCommitHarmless ==
  ASSUME NEW x, Framed(x), NEW n, NEW y, y = send_commit(x, n)
  PROVE  Harmless(x, y)
<1>1. PICK e : e = IF n = x.last_executed + 1 THEN execute_prepared(x) ELSE x
  OBVIOUS
<1>2. Harmless(x, e) /\ Framed(e)
  <2>1. Harmless(x, e)
    BY <1>1, ExecutePreparedHarmless, HarmlessNothing
  <2> QED BY <2>1 DEF Harmless
<1>3. PICK z : z = [e EXCEPT !.sent.c = @ \cup {n},
                             !.relogged = @ \/ Mine(e.clog[n], x.id) # None,
                             !.clog[n] = AddMyVote(@, x.id, OK)]
  OBVIOUS
<1>4. y \in {z, Call(z, <<execute_committed>>)}
  BY <1>1, <1>3 DEF send_commit
<1>5. PICK c : c = [e.clog EXCEPT ![n] = AddMyVote(@, x.id, OK)]
  OBVIOUS
<1>6. PICK b : b = (e.relogged \/ Mine(e.clog[n], x.id) # None)
  OBVIOUS
<1>7. PICK s : s = [e.sent EXCEPT !.c = @ \cup {n}]
  OBVIOUS
<1>8. z = [e EXCEPT !.sent = s, !.relogged = b, !.clog = c]
  BY <1>3, <1>5, <1>6, <1>7
<1>9. Shape(z) /\ Same(e, z, Elsewhere \cup {"sent"}) /\ z.sent = s
  BY <1>2, <1>8 DEF Framed, Shape, Same, Fields, Elsewhere
<1>10. z.sent = [f \in MessageKinds |-> z.sent[f]] /\ SentSame(e, z, {"pp", "p", "c"})
  BY <1>2, <1>7, <1>9 DEF SentSame, MessageKinds, Framed
<1>11. Harmless(e, z) /\ Framed(z)
  <2>1. Harmless(e, z)
    BY <1>2, <1>9, <1>10, ElsewhereHarmless
  <2> QED BY <2>1 DEF Harmless
<1>12. execute_committed \in Frames /\ execute_committed.op \notin Walks
  BY DEF execute_committed, Frame, Frames, Walks
<1>13. y = z \/ Harmless(z, y)
  BY <1>4, <1>11, <1>12, CallHarmless
<1> QED BY <1>2, <1>11, <1>13, HarmlessTrans

(* The handlers of the messages that order batches. *)
LEMMA PrePrepareHarmless ==
  ASSUME NEW x, Framed(x), NEW n, NEW d, NEW y, y = handle_Pre_prepare(x, n, d)
  PROVE  Harmless(x, y)
<1>1. PICK p : p = [x.plog EXCEPT ![n].pp = d]
  OBVIOUS
<1>2. PICK u : u = [x EXCEPT !.plog = p]
  OBVIOUS
<1>3. PICK q : q = [u.plog EXCEPT ![n].pc = AddMyVote(@, u.id, u.plog[n].pp)]
  OBVIOUS
<1>4. PICK s : s = [u.sent EXCEPT !.p = @ \cup {<<n, u.plog[n].pp>>}]
  OBVIOUS
<1>5. PICK w : w = send_prepare(u, n)
  OBVIOUS
<1>6. y \in {x, w, send_commit(w, n)}
  BY <1>1, <1>2, <1>5 DEF handle_Pre_prepare
<1>7. w \in {u, [u EXCEPT !.sent = s, !.plog = q]}
  BY <1>3, <1>4, <1>5 DEF send_prepare
<1>8. Shape(u) /\ Same(x, u, {"plog"}) /\ u.sent = x.sent
  BY <1>2 DEF Framed, Shape, Same, Fields
<1>9. Shape(w) /\ Same(u, w, {"plog", "sent"}) /\ w.sent \in {x.sent, s}
  BY <1>7, <1>8 DEF Shape, Same, Fields
<1>10. Same(x, w, Elsewhere \cup {"sent"})
  BY <1>8, <1>9 DEF Same, Fields, Elsewhere
<1>11. w.sent = [f \in MessageKinds |-> w.sent[f]] /\ SentSame(x, w, {"pp", "p", "c"})
  BY <1>4, <1>8, <1>9 DEF SentSame, MessageKinds, Framed
<1>12. Harmless(x, w) /\ Framed(w)
  <2>1. Harmless(x, w)
    BY <1>9, <1>10, <1>11, ElsewhereHarmless
  <2> QED BY <2>1 DEF Harmless
<1>13. CASE y = send_commit(w, n)
  BY <1>12, <1>13, SendCommitHarmless, HarmlessTrans
<1> QED BY <1>6, <1>12, <1>13, HarmlessNothing

(* See PrePrepareHarmless. *)
LEMMA PrepareHarmless ==
  ASSUME NEW x, Framed(x), NEW i, NEW n, NEW d, NEW y, y = handle_Prepare(x, i, n, d)
  PROVE  Harmless(x, y)
<1>1. PICK p : p = [x.plog EXCEPT ![n].pc = AddVote(x.plog[n].pc, prepares, i, d)]
  OBVIOUS
<1>2. PICK u : u = [x EXCEPT !.plog = p]
  OBVIOUS
<1>3. y \in {x, u, send_commit(u, n)}
  BY <1>1, <1>2 DEF handle_Prepare
<1>4. Shape(u) /\ Same(x, u, Elsewhere \cup {"sent"}) /\ u.sent = x.sent
  BY <1>2 DEF Framed, Shape, Same, Fields, Elsewhere
<1>5. Harmless(x, u) /\ Framed(u)
  <2>1. Harmless(x, u)
    BY <1>4, ElsewhereHarmless DEF Framed, SentSame
  <2> QED BY <2>1 DEF Harmless
<1>6. CASE y = send_commit(u, n)
  BY <1>5, <1>6, SendCommitHarmless, HarmlessTrans
<1> QED BY <1>3, <1>5, <1>6, HarmlessNothing

(* See PrePrepareHarmless. *)
LEMMA CommitHarmless ==
  ASSUME NEW x, Framed(x), NEW i, NEW n, NEW y, y = handle_Commit(x, i, n)
  PROVE  Harmless(x, y)
<1>1. PICK c : c = [x.clog EXCEPT ![n] = AddVote(@, commits, i, OK)]
  OBVIOUS
<1>2. PICK u : u = [x EXCEPT !.clog = c]
  OBVIOUS
<1>3. y \in {x, u, Call(u, <<execute_committed>>)}
  BY <1>1, <1>2 DEF handle_Commit
<1>4. Shape(u) /\ Same(x, u, Elsewhere \cup {"sent"}) /\ u.sent = x.sent
  BY <1>2 DEF Framed, Shape, Same, Fields, Elsewhere
<1>5. Harmless(x, u) /\ Framed(u)
  <2>1. Harmless(x, u)
    BY <1>4, ElsewhereHarmless DEF Framed, SentSame
  <2> QED BY <2>1 DEF Harmless
<1>6. execute_committed \in Frames /\ execute_committed.op \notin Walks
  BY DEF execute_committed, Frame, Frames, Walks
<1>7. CASE y = Call(u, <<execute_committed>>)
  BY <1>5, <1>6, <1>7, CallHarmless, HarmlessTrans
<1> QED BY <1>3, <1>5, <1>7, HarmlessNothing

(* The primary may propose the next batch. *)
LEMMA SendPrePrepareHarmless ==
  ASSUME NEW x, Framed(x), NEW y \in send_pre_prepare(x)
  PROVE  Harmless(x, y)
<1>1. CASE y = x
  BY <1>1, HarmlessNothing
<1>2. CASE \E d \in Batches[x.seqno + 1] : y = propose(x, d)
  <2>1. PICK d : y = propose(x, d)
    BY <1>2
  <2>2. PICK n : n = x.seqno + 1
    OBVIOUS
  <2>3. PICK s : s = [x.sent EXCEPT !.pp = @ \cup {<<n, d>>}]
    OBVIOUS
  <2>4. PICK p : p = [x.plog EXCEPT ![n].pp = d]
    OBVIOUS
  <2>5. y = [x EXCEPT !.seqno = n, !.rqueue = FALSE, !.plog = p, !.sent = s]
    BY <2>1, <2>2, <2>3, <2>4 DEF propose
  <2>6. Shape(y) /\ Same(x, y, Elsewhere \cup {"sent"}) /\ y.sent = s
    BY <2>5 DEF Framed, Shape, Same, Fields, Elsewhere
  <2>7. y.sent = [f \in MessageKinds |-> y.sent[f]] /\ SentSame(x, y, {"pp", "p", "c"})
    BY <2>3, <2>6 DEF SentSame, MessageKinds, Framed
  <2> QED BY <2>6, <2>7, ElsewhereHarmless
<1> QED BY <1>1, <1>2 DEF send_pre_prepare

(* A client's request. *)
LEMMA RequestHarmless ==
  ASSUME NEW x, Framed(x), NEW y \in send_pre_prepare([x EXCEPT !.rqueue = TRUE])
  PROVE  Harmless(x, y)
<1>1. PICK z : z = [x EXCEPT !.rqueue = TRUE]
  OBVIOUS
<1>2. Shape(z) /\ Same(x, z, Elsewhere \cup {"sent"}) /\ z.sent = x.sent
  BY <1>1 DEF Framed, Shape, Same, Fields, Elsewhere
<1>3. Harmless(x, z)
  BY <1>2, ElsewhereHarmless DEF Framed, SentSame
<1> QED BY <1>1, <1>3, SendPrePrepareHarmless, HarmlessTrans DEF Harmless

(* The end of new_state(). *)
LEMMA NewStateEndHarmless ==
  ASSUME NEW x, Framed(x), x.calls # << >>, NEW m,
         NEW y, y = [Return(x) EXCEPT !.seqno = IF m > @ THEN m ELSE @]
  PROVE  Harmless(x, y)
<1>1. PICK w : w = Return(x)
  OBVIOUS
<1>2. Harmless(x, w) /\ Framed(w)
  <2>1. Harmless(x, w)
    BY <1>1, ReturnHarmless
  <2> QED BY <2>1 DEF Harmless
<1>3. PICK s : s = IF m > w.seqno THEN m ELSE w.seqno
  OBVIOUS
<1>4. y = [w EXCEPT !.seqno = s]
  BY <1>1, <1>3
<1>5. Shape(y) /\ Same(w, y, Elsewhere \cup {"sent"}) /\ y.sent = w.sent
  BY <1>2, <1>4 DEF Framed, Shape, Same, Fields, Elsewhere
<1>6. Harmless(w, y)
  BY <1>2, <1>5, ElsewhereHarmless DEF Framed, SentSame
<1> QED BY <1>2, <1>6, HarmlessTrans

-----------------------------------------------------------------------------
(* Within its window, or about to move it: see RoomOK. *)
LEMMA InRoom ==
  ASSUME NEW x, Good(x), x.calls = << >> \/ x.calls[1].op # "mark_stable"
  PROVE  x.last_executed <= x.last_stable + max_out
<1>1. /\ x.last_executed <= x.last_tentative_execute
      /\ x.last_tentative_execute <= x.last_stable + max_out
  BY DEF Good, LocalInv, CountersOK, RoomOK
<1>2. Typed(x)
  BY DEF Good
<1> QED BY <1>1, <1>2, StableNumbers

(* Calls are put before the others.  If they mark a checkpoint stable, it   *)
(* is backed.                                                               *)
LEMMA CallsAdvance ==
  ASSUME NEW S \in Sayings, NEW x, Framed(x), NEW q \in Seq(Frames),
         StableOK(S, x) => \A k \in 1..Len(q) : Marks(x, q[k]) => BackedIn(S, q[k].n),
         NEW y, y = Call(x, q)
  PROVE  Advances(S, x, y)
<1>1. PICK p : p = q \o x.calls
  OBVIOUS
<1>2. Shape(y) /\ Same(x, y, {"calls"}) /\ y.calls = p
  BY <1>1 DEF Call, Framed, Shape, Same, Fields
<1>3. /\ Len(p) = Len(q) + Len(x.calls) /\ Len(q) \in Nat /\ Len(x.calls) \in Nat
      /\ \A k \in 1..Len(p) : p[k] = IF k <= Len(q) THEN q[k] ELSE x.calls[k - Len(q)]
  BY <1>1, ConcatFrames, LenProperties DEF Framed
<1>4. /\ y.id = x.id /\ y.last_stable = x.last_stable /\ y.elog = x.elog /\ y.sset = x.sset
      /\ y.sent = x.sent /\ x.last_stable \in Nat
  BY <1>2 DEF Same, Fields, Framed
<1>5. ASSUME StableOK(S, x)
      PROVE  ClaimsBacked(S, y) /\ ElogBacked(S, y) /\ SsetBacked(S, y) /\ MarksBacked(S, y)
  <2>1. ClaimsBacked(S, y) /\ ElogBacked(S, y) /\ SsetBacked(S, y)
    BY <1>4, <1>5 DEF StableOK, ClaimsBacked, ElogBacked, SsetBacked
  <2>2. ASSUME NEW k \in 1..Len(p), Marks(y, p[k]) PROVE BackedIn(S, p[k].n)
    <3>1. Marks(x, p[k])
      BY <1>4, <2>2 DEF Marks
    <3>2. CASE k <= Len(q)
      <4>1. k \in 1..Len(q) /\ p[k] = q[k]
        BY <1>3, <3>2
      <4> QED BY <1>5, <3>1, <4>1
    <3>3. CASE ~(k <= Len(q))
      <4>1. k - Len(q) \in 1..Len(x.calls) /\ p[k] = x.calls[k - Len(q)]
        BY <1>3, <3>3
      <4> QED BY <1>5, <3>1, <4>1 DEF StableOK, MarksBacked
    <3> QED BY <3>2, <3>3
  <2> QED BY <1>2, <2>1, <2>2 DEF MarksBacked
<1>6. InWindow(x, y)
  BY <1>4 DEF InWindow
<1> QED BY <1>4, <1>5, <1>6, AdvancesBy

(* One call is put before the others. *)
LEMMA CallAdvances ==
  ASSUME NEW S \in Sayings, NEW x, Framed(x), NEW f \in Frames,
         StableOK(S, x) /\ Marks(x, f) => BackedIn(S, f.n), NEW y, y = Call(x, <<f>>)
  PROVE  Advances(S, x, y)
<1>1. <<f>> \in Seq(Frames) /\ \A k \in 1..Len(<<f>>) : <<f>>[k] = f
  OBVIOUS
<1> QED BY <1>1, CallsAdvance

(* One certificate of elog changes. *)
LEMMA ElogUpdateBacked ==
  ASSUME NEW S, NEW x, NEW y, NEW n \in Checkpoints, NEW cert, LogsOK(x), y.last_stable = x.last_stable,
         y.elog = [x.elog EXCEPT ![n] = cert], ElogBacked(S, x), VotesSent(S, n, cert),
         cert.forced => n <= x.last_stable
  PROVE  ElogBacked(S, y)
<1>1. \A m \in Checkpoints : y.elog[m] = IF m = n THEN cert ELSE x.elog[m]
  BY DEF LogsOK
<1> QED BY <1>1 DEF ElogBacked

(* add() of a message that was sent. *)
LEMMA AddVoteSent ==
  ASSUME NEW S, NEW n, NEW me \in Replicas, NEW cert \in OwnedBy(me, Seq(Digests)),
         NEW i \in Replicas \ {me}, NEW h \in Seq(Digests), VotesSent(S, n, cert),
         i \in Correct => Took(S, i, n),
         NEW new, new = AddVote(cert, checkpoints, i, h)
  PROVE  new \in Certificates(Seq(Digests)) /\ VotesSent(S, n, new) /\ (new.forced => cert.forced)
<1>1. AddedTo(Seq(Digests), me, cert, i, h, new)
  BY AddVoteType
<1>2. /\ new \in OwnedBy(me, Seq(Digests)) /\ (new.forced => cert.forced)
      /\ \A j \in Replicas : new.votes[j] \notin {None, cert.votes[j]} => j = i
  BY <1>1 DEF AddedTo
<1>3. new \in Certificates(Seq(Digests))
  BY <1>2 DEF OwnedBy
<1>4. VotesSent(S, n, new)
  BY <1>2, ReplicaAssumption DEF VotesSent
<1> QED BY <1>2, <1>3, <1>4

(* add_mine() of a message that was sent. *)
LEMMA AddMyVoteSent ==
  ASSUME NEW S, NEW n, NEW V, NEW me \in Replicas, NEW cert \in Certificates(V), NEW v,
         VotesSent(S, n, cert), NEW new, new = AddMyVote(cert, me, v),
         me \in Correct /\ new.votes[me] # None => Took(S, me, n)
  PROVE  VotesSent(S, n, new) /\ new.forced = cert.forced
<1>1. /\ new.forced = cert.forced
      /\ \A j \in Replicas : j = me \/ new.votes[j] = cert.votes[j]
  BY DEF AddMyVote, Certificates
<1> QED BY <1>1, ReplicaAssumption DEF VotesSent

(* An entry of elog that is complete and above the stable checkpoint. *)
LEMMA CompleteBacked ==
  ASSUME FewFaulty, NEW S \in Sayings, NEW x, Typed(x), StableOK(S, x), NEW n \in Checkpoints,
         n > x.last_stable, IsComplete(x.elog[n], checkpoints)
  PROVE  BackedIn(S, n)
<1>1. VotesSent(S, n, x.elog[n]) /\ (x.elog[n].forced => n <= x.last_stable)
  BY DEF StableOK, ElogBacked
<1>2. ~x.elog[n].forced
  BY <1>1, StableNumbers
<1>3. x.elog[n] \in Certificates(Seq(Digests))
  BY DEF Typed, LogsOK, OwnedBy
<1> QED BY <1>1, <1>2, <1>3, QuorumBacked

(* New keys: certificates only lose messages. *)
LEMMA NewKeyAdvances ==
  ASSUME NEW S \in Sayings, NEW x, Typed(x), NEW y, y = send_new_key(x)
  PROVE  Advances(S, x, y)
<1> DEFINE min == IF x.last_executed > x.last_stable THEN x.last_executed ELSE x.last_stable
           stale(n) == in_w(x, n) /\ n > min
<1>1. PICK e : e = [n \in Checkpoints |->
                      IF in_w(x, n) THEN MarkStale(x.elog[n], checkpoints, x.id) ELSE x.elog[n]]
  OBVIOUS
<1>2. PICK p : p = [n \in Seqnos |->
                      IF stale(n) THEN prepared_mark_stale(x.plog[n], x.id) ELSE x.plog[n]]
  OBVIOUS
<1>3. PICK c : c = [n \in Seqnos |->
                      IF stale(n) THEN MarkStale(x.clog[n], commits, x.id) ELSE x.clog[n]]
  OBVIOUS
<1>4. y = [x EXCEPT !.elog = e, !.plog = p, !.clog = c]
  BY <1>1, <1>2, <1>3 DEF send_new_key
<1>5. Same(x, y, {"plog", "clog", "elog"}) /\ y.elog = e
  BY <1>4 DEF Typed, Shape, Same, Fields
<1>6. /\ y.id = x.id /\ y.sset = x.sset /\ y.last_stable = x.last_stable /\ y.calls = x.calls
      /\ y.sent = x.sent
  BY <1>5 DEF Same, Fields
<1>7. ASSUME StableOK(S, x)
      PROVE  ClaimsBacked(S, y) /\ ElogBacked(S, y) /\ SsetBacked(S, y) /\ MarksBacked(S, y)
  <2>1. ClaimsBacked(S, y) /\ SsetBacked(S, y) /\ MarksBacked(S, y)
    BY <1>6, <1>7 DEF StableOK, ClaimsBacked, SsetBacked, MarksBacked, Marks
  <2>2. ASSUME NEW n \in Checkpoints
        PROVE  VotesSent(S, n, e[n]) /\ (e[n].forced => n <= x.last_stable)
    <3>1. VotesSent(S, n, x.elog[n]) /\ (x.elog[n].forced => n <= x.last_stable)
      BY <1>7 DEF StableOK, ElogBacked
    <3>2. PICK m : m = MarkStale(x.elog[n], checkpoints, x.id)
      OBVIOUS
    <3>3. x.elog[n] \in OwnedBy(x.id, Seq(Digests)) /\ x.id \in Replicas
      BY DEF Typed, LogsOK
    <3>4. (m.forced => x.elog[n].forced) /\ \A j \in Replicas : m.votes[j] \in {None, x.elog[n].votes[j]}
      BY <3>2, <3>3, MarkStaleType
    <3>5. VotesSent(S, n, m)
      BY <3>1, <3>4, ReplicaAssumption DEF VotesSent
    <3>6. e[n] \in {m, x.elog[n]}
      BY <1>1, <3>2
    <3> QED BY <3>1, <3>4, <3>5, <3>6
  <2>3. ElogBacked(S, y)
    BY <1>5, <1>6, <2>2 DEF ElogBacked
  <2> QED BY <2>1, <2>3
<1>8. InWindow(x, y) /\ x.last_stable \in Nat
  BY <1>6, StableNumbers DEF InWindow
<1> QED BY <1>6, <1>7, <1>8, AdvancesBy

(* A checkpoint message in the window. *)
LEMMA LogCheckpointAdvances ==
  ASSUME FewFaulty, NEW S \in Sayings, NEW x, Good(x), x.calls = << >>, NEW i \in Replicas \ {x.id},
         NEW n \in Checkpoints, n > x.last_stable, NEW h \in Seq(Digests),
         i \in Correct => Took(S, i, n), NEW y, y = log_checkpoint(x, i, n, h)
  PROVE  Advances(S, x, y)
<1>0. Typed(x) /\ LogsOK(x) /\ Shape(x) /\ x.id \in Replicas
  BY DEF Good, Typed
<1>1. PICK c : c = AddVote(x.elog[n], checkpoints, i, h)
  OBVIOUS
<1>2. PICK e : e = [x.elog EXCEPT ![n] = c]
  OBVIOUS
<1>3. PICK z : z = [x EXCEPT !.elog = e]
  OBVIOUS
<1>4. y = z \/ (IsComplete(z.elog[n], checkpoints) /\ y = Call(z, <<mark_stable(n, TRUE)>>))
  BY <1>1, <1>2, <1>3 DEF log_checkpoint
<1>5. Shape(z) /\ Same(x, z, {"elog"}) /\ z.elog = e
  BY <1>0, <1>3 DEF Shape, Same, Fields
<1>6. /\ z.id = x.id /\ z.sset = x.sset /\ z.last_stable = x.last_stable /\ z.calls = x.calls
      /\ z.sent = x.sent /\ z.last_executed = x.last_executed /\ z.lc = x.lc
  BY <1>5 DEF Same, Fields
<1>7. Framed(z) /\ InWindow(x, z) /\ x.last_stable \in Nat
  BY <1>0, <1>5, <1>6, TypedFramed DEF Framed, InWindow
<1>8. x.elog[n] \in OwnedBy(x.id, Seq(Digests))
  BY <1>0 DEF LogsOK
<1>9. ASSUME StableOK(S, x)
      PROVE  /\ ElogBacked(S, z) /\ VotesSent(S, n, c) /\ ~c.forced
             /\ c \in Certificates(Seq(Digests))
  <2>1. VotesSent(S, n, x.elog[n]) /\ (x.elog[n].forced => n <= x.last_stable) /\ ElogBacked(S, x)
    BY <1>9 DEF StableOK, ElogBacked
  <2>2. c \in Certificates(Seq(Digests)) /\ VotesSent(S, n, c) /\ (c.forced => x.elog[n].forced)
    <3>1. PICK g : g = x.elog[n]
      OBVIOUS
    <3>2. g \in OwnedBy(x.id, Seq(Digests)) /\ VotesSent(S, n, g)
      BY <1>8, <2>1, <3>1
    <3>3. c = AddVote(g, checkpoints, i, h)
      BY <1>1, <3>1
    <3>4. c \in Certificates(Seq(Digests)) /\ VotesSent(S, n, c) /\ (c.forced => g.forced)
      BY <1>0, <3>2, <3>3, AddVoteSent
    <3> QED BY <3>1, <3>4
  <2>3. ~c.forced
    BY <1>0, <2>1, <2>2, StableNumbers
  <2>4. ElogBacked(S, z)
    BY <1>0, <1>2, <1>5, <1>6, <2>1, <2>2, <2>3, ElogUpdateBacked
  <2> QED BY <2>2, <2>3, <2>4
<1>10. Advances(S, x, z)
  <2>1. StableOK(S, x) => ClaimsBacked(S, z) /\ SsetBacked(S, z) /\ MarksBacked(S, z)
    BY <1>6 DEF StableOK, ClaimsBacked, SsetBacked, MarksBacked, Marks
  <2> QED BY <1>6, <1>7, <1>9, <2>1, AdvancesBy
<1>11. CASE IsComplete(z.elog[n], checkpoints) /\ y = Call(z, <<mark_stable(n, TRUE)>>)
  <2>1. z.elog[n] = c
    BY <1>0, <1>2, <1>5 DEF LogsOK
  <2>2. StableOK(S, x) => BackedIn(S, n)
    BY <1>9, <1>11, <2>1, QuorumBacked
  <2>3. /\ mark_stable(n, TRUE) \in Frames /\ mark_stable(n, TRUE).n = n
    BY SeqnosAreNumbers DEF mark_stable, Frame, Frames
  <2>4. PICK f : f = mark_stable(n, TRUE)
    OBVIOUS
  <2>5. y.sent.k = x.sent.k /\ y.id = x.id
    BY <1>5, <1>6, <1>11 DEF Call, Shape, Fields
  <2>6. ASSUME y.sent.k \subseteq S[y.id].k, StableOK(S, x) PROVE StableOK(S, y)
    <3>1. StableOK(S, z)
      BY <1>6, <1>10, <2>5, <2>6 DEF Advances
    <3>2. Advances(S, z, y)
      BY <1>7, <1>11, <2>2, <2>3, <2>4, <2>6, CallAdvances
    <3> QED BY <2>6, <3>1, <3>2 DEF Advances
  <2> QED BY <2>5, <2>6 DEF Advances
<1> QED BY <1>4, <1>10, <1>11

(* A stable checkpoint beyond the window. *)
LEMMA StoreStableAdvances ==
  ASSUME NEW S \in Sayings, NEW x, Good(x), x.calls = << >>, NEW i \in Replicas \ {x.id},
         NEW n \in Checkpoints, NEW h \in Seq(Digests), i \in Correct => <<n, h, TRUE>> \in S[i].k,
         NEW y, y = store_stable(x, i, n, h)
  PROVE  Advances(S, x, y)
<1>0. Typed(x) /\ LocalInv(x) /\ x.id \in Replicas /\ LogsOK(x)
  BY DEF Good, Typed
<1>1. PICK s : s = store(remove(x.sset, i), i, n, h)
  OBVIOUS
<1>2. PICK u : u = [x EXCEPT !.sset = s]
  OBVIOUS
<1>3. PICK z : z = IF u.last_tentative_execute > u.last_executed THEN rollback(u) ELSE u
  OBVIOUS
<1>4. y \in {x, u, start_fetch(z)}
  BY <1>1, <1>2, <1>3 DEF store_stable
<1>5. s \in [Replicas -> {None} \cup (Checkpoints \X Seq(Digests))] /\ s[x.id] = None
  BY <1>0, <1>1 DEF store, remove, Typed, LogsOK, LocalInv, OwnOK
<1>6. Good(u) /\ Same(x, u, {"sset"}) /\ u.sset = s
  BY <1>2, <1>5, SsetUpdateGood
<1>7. /\ u.calls = x.calls /\ u.sent = x.sent /\ u.id = x.id /\ u.elog = x.elog
      /\ u.last_stable = x.last_stable
  BY <1>6 DEF Same, Fields
<1>8. Advances(S, x, u)
  <2>1. ASSUME StableOK(S, x) PROVE SsetBacked(S, u)
    <3>1. \A j \in Replicas : s[j] = IF j = i THEN <<n, h>> ELSE x.sset[j]
      BY <1>0, <1>1 DEF store, remove, LogsOK
    <3>2. SsetBacked(S, x)
      BY <2>1 DEF StableOK
    <3>3. ASSUME NEW j \in Correct, s[j] # None PROVE <<s[j][1], s[j][2], TRUE>> \in S[j].k
      <4>0. j \in Replicas
        BY ReplicaAssumption
      <4>1. CASE j = i
        <5>1. s[j] = <<n, h>>
          BY <3>1, <4>0, <4>1
        <5>2. s[j][1] = n /\ s[j][2] = h
          BY <5>1
        <5> QED BY <3>3, <4>1, <5>2
      <4>2. CASE j # i
        BY <3>1, <3>2, <3>3, <4>0, <4>2 DEF SsetBacked
      <4> QED BY <4>1, <4>2
    <3> QED BY <1>6, <3>3 DEF SsetBacked
  <2>2. StableOK(S, x) => ClaimsBacked(S, u) /\ ElogBacked(S, u) /\ MarksBacked(S, u)
    BY <1>7 DEF StableOK, ClaimsBacked, ElogBacked, MarksBacked, Marks
  <2>3. InWindow(x, u) /\ x.last_stable \in Nat
    BY <1>0, <1>7, StableNumbers DEF InWindow
  <2> QED BY <1>7, <2>1, <2>2, <2>3, AdvancesBy
<1>9. Good(z) /\ Harmless(u, z) /\ z.calls = << >> /\ Framed(u)
  <2>0. Framed(u)
    BY <1>6, TypedFramed DEF Good
  <2>1. CASE u.last_tentative_execute > u.last_executed
    BY <1>3, <1>6, <1>7, <2>0, <2>1, RollbackGood, RollbackHarmless
  <2>2. CASE ~(u.last_tentative_execute > u.last_executed)
    BY <1>3, <1>6, <1>7, <2>0, <2>2, HarmlessNothing
  <2> QED BY <2>0, <2>1, <2>2
<1>10. CASE y = start_fetch(z)
  <2>1. Framed(z) /\ z.last_executed <= z.last_stable + max_out
    BY <1>9, InRoom DEF Harmless
  <2>2. Harmless(z, y)
    BY <1>10, <2>1, StartFetchHarmless
  <2>3. Advances(S, u, y)
    BY <1>9, <2>2, HarmlessTrans, HarmlessAdvances
  <2> QED BY <1>8, <2>3, AdvancesTrans
<1> QED BY <1>4, <1>8, <1>10, AdvancesNothing

(* A checkpoint message, for which the sender's is among what was sent. *)
LEMMA CheckpointAdvances ==
  ASSUME FewFaulty, NEW S \in Sayings, NEW x, Good(x), x.calls = << >>, NEW i \in Replicas \ {x.id},
         NEW n \in Checkpoints, NEW h \in Seq(Digests), NEW stable \in BOOLEAN, NEW slow,
         <<n, h, stable>> \in S[i].k, NEW y, y = handle_Checkpoint(x, i, n, h, stable, slow)
  PROVE  Advances(S, x, y)
<1>0. Took(S, i, n)
  <2>1. <<n, h, stable>>[1] = n
    OBVIOUS
  <2> QED BY <2>1 DEF Took
<1>1. CASE y = x
  BY <1>1, AdvancesNothing
<1>2. CASE n > x.last_stable /\ y = log_checkpoint(x, i, n, h)
  BY <1>0, <1>2, LogCheckpointAdvances
<1>3. CASE stable /\ y = store_stable(x, i, n, h)
  <2>1. <<n, h, TRUE>> \in S[i].k
    BY <1>3
  <2> QED BY <1>3, <2>1, StoreStableAdvances
<1>4. n <= x.last_stable \/ n > x.last_stable
  BY StableNumbers DEF Good
<1> QED BY <1>1, <1>2, <1>3, <1>4 DEF handle_Checkpoint

(* My checkpoint message is logged and sent. *)
LEMMA SendCheckpointAdvances ==
  ASSUME NEW S \in Sayings, NEW x, Typed(x), NEW n \in Checkpoints, NEW y, y = send_checkpoint(x, n)
  PROVE  Advances(S, x, y) /\ Framed(y) /\ y.last_stable = x.last_stable /\ y.calls = x.calls
<1>0. LogsOK(x) /\ Shape(x) /\ x.id \in Replicas /\ Framed(x)
  BY TypedFramed DEF Typed
<1>1. PICK b : b = (x.relogged \/ Mine(x.elog[n], x.id) # None)
  OBVIOUS
<1>2. PICK c : c = AddMyVote(x.elog[n], x.id, prefix(x, n))
  OBVIOUS
<1>3. PICK e : e = [x.elog EXCEPT ![n] = c]
  OBVIOUS
<1>4. PICK k : k = x.sent.k \cup {<<n, prefix(x, n), FALSE>>}
  OBVIOUS
<1>5. PICK s : s = [x.sent EXCEPT !.k = k]
  OBVIOUS
<1>6. y = [x EXCEPT !.relogged = b, !.elog = e, !.sent = s]
  BY <1>1, <1>2, <1>3, <1>4, <1>5 DEF send_checkpoint
<1>7. Shape(y) /\ Same(x, y, {"relogged", "elog", "sent"}) /\ y.sent = s /\ y.elog = e
  BY <1>0, <1>6 DEF Shape, Same, Fields
<1>8. s = [f \in MessageKinds |-> s[f]] /\ s.k = k /\ s.md = x.sent.md
  BY <1>0, <1>5 DEF Framed, MessageKinds
<1>9. /\ y.id = x.id /\ y.sset = x.sset /\ y.last_stable = x.last_stable /\ y.calls = x.calls
      /\ y.last_executed = x.last_executed /\ y.lc = x.lc
  BY <1>7 DEF Same, Fields
<1>10. Framed(y) /\ InWindow(x, y)
  BY <1>0, <1>7, <1>8, <1>9 DEF Framed, InWindow
<1>11. ASSUME y.sent.k \subseteq S[y.id].k, StableOK(S, x)
       PROVE  ClaimsBacked(S, y) /\ ElogBacked(S, y) /\ SsetBacked(S, y) /\ MarksBacked(S, y)
  <2>1. SsetBacked(S, y) /\ MarksBacked(S, y)
    BY <1>9, <1>11 DEF StableOK, SsetBacked, MarksBacked, Marks
  <2>2. ClaimsBacked(S, y)
    <3>1. ASSUME NEW m \in k, m[3] PROVE m \in x.sent.k
      <4>1. m = <<n, prefix(x, n), FALSE>> => ~m[3]
        OBVIOUS
      <4> QED BY <1>4, <3>1, <4>1
    <3> QED BY <1>7, <1>8, <1>11, <3>1 DEF StableOK, ClaimsBacked
  <2>3. Took(S, x.id, n)
    <3>1. <<n, prefix(x, n), FALSE>> \in S[x.id].k
      BY <1>4, <1>7, <1>8, <1>9, <1>11
    <3>2. <<n, prefix(x, n), FALSE>>[1] = n
      OBVIOUS
    <3> QED BY <3>1, <3>2 DEF Took
  <2>4. /\ VotesSent(S, n, x.elog[n]) /\ (x.elog[n].forced => n <= x.last_stable)
        /\ ElogBacked(S, x) /\ x.elog[n] \in Certificates(Seq(Digests))
    BY <1>0, <1>11 DEF StableOK, ElogBacked, LogsOK, OwnedBy
  <2>5. VotesSent(S, n, c) /\ c.forced = x.elog[n].forced
    BY <1>0, <1>2, <2>3, <2>4, AddMyVoteSent
  <2>6. ElogBacked(S, y)
    BY <1>0, <1>3, <1>7, <1>9, <2>4, <2>5, ElogUpdateBacked
  <2> QED BY <2>1, <2>2, <2>6
<1>12. x.sent.k \subseteq y.sent.k /\ x.last_stable \in Nat
  BY <1>0, <1>4, <1>7, <1>8 DEF Framed
<1> QED BY <1>9, <1>10, <1>11, <1>12, AdvancesBy

(* One round of execute_committed(): the checkpoint it may complete is      *)
(* above the stable one.                                                    *)
LEMMA ExecuteNextAdvances ==
  ASSUME FewFaulty, NEW S \in Sayings, NEW x, Good(x), x.calls # << >>,
         x.calls[1].op = "execute_committed", ~x.fetching,
         x.last_executed < x.last_stable + max_out, x.last_executed >= x.last_stable,
         committed(x, x.last_executed + 1), NEW y, y = execute_next(x)
  PROVE  Advances(S, x, y)
<1>1. PICK n : n = x.last_executed + 1
  OBVIOUS
<1>2. PICK e : e = execute_prepared(x)
  OBVIOUS
<1>3. PICK z : z = [e EXCEPT !.last_executed = n]
  OBVIOUS
<1>4. PICK k : k = send_checkpoint(z, n)
  OBVIOUS
<1>5. \/ y = z
      \/ /\ n % checkpoint_interval = 0
         /\ \/ y = k
            \/ IsComplete(k.elog[n], checkpoints) /\ y = Call(k, <<mark_stable(n, TRUE)>>)
  BY <1>1, <1>2, <1>3, <1>4 DEF execute_next
<1>6. n \in Seqnos /\ n \in 0..MaxSeqno /\ n \in Nat
  BY <1>1, SeqnosAreNumbers DEF committed, prepared, Seqnos
<1>7. Good(e) /\ Typed(e) /\ Harmless(x, e) /\ Typed(x) /\ Framed(x) /\ Framed(e)
  <2>1. Good(e) /\ Typed(e) /\ Typed(x)
    BY <1>2, ExecutePreparedGood DEF Good
  <2>2. Framed(x) /\ Framed(e)
    BY <2>1, TypedFramed
  <2> QED BY <1>2, <2>1, <2>2, ExecutePreparedHarmless
<1>8. Shape(z) /\ Same(e, z, {"last_executed"}) /\ z.last_executed = n
  BY <1>3, <1>7 DEF Typed, Shape, Same, Fields
<1>9. Typed(z)
  <2>1. z.id = e.id /\ FlagsOK(z) /\ LogsOK(z) /\ DataOK(z)
    BY <1>7, <1>8, KeepTypes DEF Avoids
  <2>2. NumbersOK(z)
    BY <1>6, <1>7, <1>8 DEF Typed, NumbersOK, Same, Fields
  <2> QED BY <1>7, <1>8, <2>1, <2>2 DEF Typed
<1>10. Harmless(e, z)
  <2>1. /\ z.calls = e.calls /\ z.last_stable = e.last_stable /\ z.sent = e.sent
        /\ Same(e, z, Fields \ {"id", "last_stable", "elog", "sset"})
    BY <1>8 DEF Same, Fields
  <2> QED BY <1>9, <2>1, TypedFramed DEF Harmless, InWindow, NoNewWalks
<1>11. Advances(S, x, z)
  BY <1>7, <1>10, HarmlessTrans, HarmlessAdvances
<1>12. CASE n % checkpoint_interval = 0 /\ y \in {k, Call(k, <<mark_stable(n, TRUE)>>)}
  <2>1. n \in Checkpoints
    BY <1>6, <1>12, SeqnosAreNumbers
  <2>2. Advances(S, z, k) /\ Framed(k) /\ k.last_stable = z.last_stable
    BY <1>4, <1>9, <2>1, SendCheckpointAdvances
  <2>3. Advances(S, x, k)
    BY <1>11, <2>2, AdvancesTrans
  <2>4. CASE IsComplete(k.elog[n], checkpoints) /\ y = Call(k, <<mark_stable(n, TRUE)>>)
    <3>1. PICK f : f = mark_stable(n, TRUE)
      OBVIOUS
    <3>2. f \in Frames /\ f.n = n
      BY <1>6, <3>1 DEF mark_stable, Frame, Frames
    <3>3. Typed(y)
      BY ExecuteNextGood DEF Good
    <3>4. y.elog = k.elog
      BY <2>2, <2>4 DEF Call, Framed, Shape, Fields
    <3>5. k.elog[n] \in Certificates(Seq(Digests))
      BY <2>1, <3>3, <3>4 DEF Typed, LogsOK, OwnedBy
    <3>6. n > k.last_stable /\ k.last_stable \in Nat
      <4>1. k.last_stable = x.last_stable
        BY <1>7, <1>8, <2>2 DEF Harmless, Same, Fields
      <4> QED BY <1>1, <1>7, <4>1, StableNumbers
    <3>7. ASSUME StableOK(S, k) PROVE BackedIn(S, n)
      <4>1. VotesSent(S, n, k.elog[n]) /\ (k.elog[n].forced => n <= k.last_stable)
        BY <2>1, <3>7 DEF StableOK, ElogBacked
      <4>2. ~k.elog[n].forced
        BY <1>6, <3>6, <4>1
      <4> QED BY <2>1, <2>4, <3>5, <4>1, <4>2, QuorumBacked
    <3>8. Advances(S, k, y)
      BY <2>2, <2>4, <3>1, <3>2, <3>7, CallAdvances
    <3> QED BY <2>3, <3>8, AdvancesTrans
  <2> QED BY <1>5, <1>11, <2>3, <2>4
<1> QED BY <1>5, <1>11, <1>12

(* execute_committed() *)
LEMMA ExecuteCommittedAdvances ==
  ASSUME FewFaulty, NEW S \in Sayings, NEW x, Good(x), x.calls # << >>,
         x.calls[1].op = "execute_committed", NEW y \in after_execute_committed(x)
  PROVE  Advances(S, x, y)
<1>1. PICK z : z = Return(x)
  OBVIOUS
<1>2. Framed(x) /\ Harmless(x, z) /\ Framed(z) /\ Typed(x)
  <2>1. Framed(x) /\ Typed(x)
    BY TypedFramed DEF Good
  <2>2. Harmless(x, z)
    BY <1>1, <2>1, ReturnHarmless
  <2> QED BY <2>1, <2>2 DEF Harmless
<1>3. \/ y = z
      \/ /\ ~x.fetching /\ ~(x.last_executed >= x.last_stable + max_out)
         /\ ~(x.last_executed < x.last_stable)
         /\ committed(x, x.last_executed + 1) /\ y = execute_next(x)
      \/ y \in send_pre_prepare(z)
  BY <1>1 DEF after_execute_committed
<1>4. x.last_executed \in Nat /\ x.last_stable \in Nat /\ max_out \in Nat
  BY <1>2, StableNumbers
<1>5. CASE /\ ~x.fetching /\ ~(x.last_executed >= x.last_stable + max_out)
           /\ ~(x.last_executed < x.last_stable)
           /\ committed(x, x.last_executed + 1) /\ y = execute_next(x)
  BY <1>4, <1>5, ExecuteNextAdvances
<1>6. CASE y \in send_pre_prepare(z)
  BY <1>2, <1>6, SendPrePrepareHarmless, HarmlessTrans, HarmlessAdvances
<1>7. CASE y = z
  BY <1>2, <1>7, HarmlessAdvances
<1> QED BY <1>3, <1>5, <1>6, <1>7

(* The window moves to a backed checkpoint. *)
LEMMA TruncateAdvances ==
  ASSUME NEW S \in Sayings, NEW x, Typed(x), NEW n \in Seqnos, n > x.last_stable,
         StableOK(S, x) => BackedIn(S, n), NEW y, y = truncate(x, n)
  PROVE  Advances(S, x, y)
<1>0. /\ x.id \in Replicas /\ x.last_stable \in Nat /\ n \in Nat /\ Framed(x) /\ LogsOK(x)
      /\ Checkpoints \subseteq Nat
  BY SeqnosAreNumbers, TypedFramed DEF Typed, NumbersOK
<1>1. PICK p : p = [m \in Seqnos |-> IF m <= n THEN EmptyPrepared ELSE x.plog[m]]
  OBVIOUS
<1>2. PICK c : c = [m \in Seqnos |-> IF m <= n THEN EmptyCert ELSE x.clog[m]]
  OBVIOUS
<1>3. PICK e : e = [m \in Checkpoints |-> IF m < n THEN EmptyCert ELSE x.elog[m]]
  OBVIOUS
<1>4. PICK q : q = IF n > x.seqno THEN n ELSE x.seqno
  OBVIOUS
<1>5. PICK md : md = {v \in x.sent.md : v[1] >= n}
  OBVIOUS
<1>6. PICK s : s = [x.sent EXCEPT !.md = md]
  OBVIOUS
<1>7. y = [x EXCEPT !.last_stable = n, !.seqno = q, !.plog = p, !.clog = c, !.elog = e, !.sent = s]
  BY <1>1, <1>2, <1>3, <1>4, <1>5, <1>6 DEF truncate
<1>8. /\ Same(x, y, {"last_stable", "seqno", "plog", "clog", "elog", "sent"})
      /\ y.last_stable = n /\ y.elog = e /\ y.sent = s
  BY <1>7 DEF Typed, Shape, Same, Fields
<1>9. y.sent.k = x.sent.k /\ y.sent.md \subseteq x.sent.md
  <2>1. md \subseteq x.sent.md
    BY <1>5
  <2> QED BY <1>0, <1>6, <1>8, <2>1 DEF Framed, MessageKinds
<1>10. y.id = x.id /\ y.sset = x.sset /\ y.calls = x.calls
  BY <1>8 DEF Same, Fields
<1>11. ASSUME StableOK(S, x) PROVE StableOK(S, y)
  <2>1. WindowBacked(S, y) /\ KeptBacked(S, y) /\ ClaimsBacked(S, y) /\ SsetBacked(S, y)
    BY <1>8, <1>9, <1>10, <1>11
       DEF StableOK, WindowBacked, KeptBacked, ClaimsBacked, SsetBacked
  <2>2. ASSUME NEW m \in Checkpoints PROVE VotesSent(S, m, e[m]) /\ (e[m].forced => m <= n)
    <3>1. CASE m < n
      <4>1. e[m] = EmptyCert
        BY <1>3, <3>1
      <4>2. ~EmptyCert.forced /\ \A i \in Replicas : EmptyCert.votes[i] = None
        BY DEF EmptyCert
      <4> QED BY <4>1, <4>2, ReplicaAssumption DEF VotesSent
    <3>2. CASE ~(m < n)
      <4>1. e[m] = x.elog[m]
        BY <1>3, <3>2
      <4>2. VotesSent(S, m, e[m]) /\ (e[m].forced => m <= x.last_stable)
        BY <1>11, <4>1 DEF StableOK, ElogBacked
      <4> QED BY <1>0, <2>2, <4>2
    <3> QED BY <3>1, <3>2
  <2>3. ElogBacked(S, y)
    BY <1>8, <2>2 DEF ElogBacked
  <2>4. MarksBacked(S, y)
    <3> SUFFICES ASSUME NEW k \in 1..Len(x.calls), Marks(y, x.calls[k])
                 PROVE  BackedIn(S, x.calls[k].n)
      BY <1>10 DEF MarksBacked
    <3>1. x.calls[k].n \in Nat
      BY StableNumbers
    <3>2. Marks(x, x.calls[k])
      BY <1>0, <1>8, <3>1 DEF Marks
    <3> QED BY <1>11, <3>2 DEF StableOK, MarksBacked
  <2> QED BY <2>1, <2>3, <2>4 DEF StableOK
<1> QED BY <1>9, <1>10, <1>11 DEF Advances

(* My checkpoint message for the stable checkpoint says that it is stable. *)
LEMMA OwnStableAdvances ==
  ASSUME NEW S \in Sayings, NEW x, Typed(x), NEW n \in Checkpoints, n = x.last_stable,
         NEW y, y = own_stable(x, n)
  PROVE  Advances(S, x, y) /\ Framed(y) /\ y.last_stable = x.last_stable
<1>0. /\ LogsOK(x) /\ Shape(x) /\ x.id \in Replicas /\ Framed(x)
      /\ x.elog[n] \in Certificates(Seq(Digests)) /\ n \in Nat /\ n > 0
  BY TypedFramed, SeqnosAreNumbers DEF Typed, LogsOK, OwnedBy
<1>1. PICK a : a = AddMyVote(x.elog[n], x.id, prefix(x, n))
  OBVIOUS
<1>2. PICK c : c = IF Mine(x.elog[n], x.id) # None THEN x.elog[n] ELSE MakeComplete(a)
  OBVIOUS
<1>3. PICK e : e = [x.elog EXCEPT ![n] = c]
  OBVIOUS
<1>4. PICK u : u = [x EXCEPT !.elog = e]
  OBVIOUS
<1>5. PICK m : m = <<n, Mine(c, x.id), TRUE>>
  OBVIOUS
<1>6. PICK s : s = [x.sent EXCEPT !.k = @ \cup {m}]
  OBVIOUS
<1>7. Shape(u) /\ Same(x, u, {"elog"}) /\ u.elog = e /\ u.sent = x.sent
  BY <1>0, <1>4 DEF Shape, Same, Fields
<1>8. e[n] = c
  BY <1>0, <1>3 DEF LogsOK
<1>9. u = IF Mine(x.elog[n], x.id) # None THEN x
          ELSE [x EXCEPT !.elog[n] = MakeComplete(AddMyVote(@, x.id, prefix(x, n)))]
  <2>1. CASE Mine(x.elog[n], x.id) # None
    <3>1. e = x.elog
      BY <1>0, <1>2, <1>3, <2>1 DEF LogsOK
    <3> QED BY <1>0, <1>4, <2>1, <3>1 DEF Shape, Fields
  <2>2. CASE Mine(x.elog[n], x.id) = None
    BY <1>1, <1>2, <1>3, <1>4, <2>2
  <2> QED BY <2>1, <2>2
<1>10. \/ Mine(c, x.id) = None /\ y = u
       \/ Mine(c, x.id) # None /\ y = [u EXCEPT !.sent = s]
  <2>1. y = IF Mine(u.elog[n], x.id) = None THEN u
            ELSE [u EXCEPT !.sent.k = @ \cup {<<n, Mine(u.elog[n], x.id), TRUE>>}]
    BY <1>9 DEF own_stable
  <2> QED BY <1>5, <1>6, <1>7, <1>8, <2>1
<1>11. /\ Shape(y) /\ Same(u, y, {"sent"})
       /\ Mine(c, x.id) = None => y.sent = x.sent
       /\ Mine(c, x.id) # None => y.sent = s
  BY <1>7, <1>10 DEF Shape, Same, Fields
<1>12. /\ y.id = x.id /\ y.sset = x.sset /\ y.last_stable = x.last_stable /\ y.calls = x.calls
       /\ y.last_executed = x.last_executed /\ y.lc = x.lc /\ y.elog = e
  BY <1>7, <1>11 DEF Same, Fields
<1>13. /\ y.sent = [f \in MessageKinds |-> y.sent[f]] /\ y.sent.md = x.sent.md
       /\ y.sent.k = IF Mine(c, x.id) = None THEN x.sent.k ELSE x.sent.k \cup {m}
  BY <1>0, <1>6, <1>11 DEF Framed, MessageKinds
<1>14. Framed(y) /\ InWindow(x, y) /\ x.last_stable \in Nat /\ x.sent.k \subseteq y.sent.k
  BY <1>0, <1>11, <1>12, <1>13 DEF Framed, InWindow
<1>15. ASSUME y.sent.k \subseteq S[y.id].k, StableOK(S, x)
       PROVE  ClaimsBacked(S, y) /\ ElogBacked(S, y) /\ SsetBacked(S, y) /\ MarksBacked(S, y)
  <2>1. SsetBacked(S, y) /\ MarksBacked(S, y)
    BY <1>12, <1>15 DEF StableOK, SsetBacked, MarksBacked, Marks
  <2>2. ClaimsBacked(S, y)
    <3>1. BackedIn(S, n)
      BY <1>0, <1>15 DEF StableOK, WindowBacked
    <3>2. m[1] = n
      BY <1>5
    <3> QED BY <1>13, <1>15, <3>1, <3>2 DEF StableOK, ClaimsBacked
  <2>3. Mine(c, x.id) # None => Took(S, x.id, n)
    <3>1. m[1] = n
      BY <1>5
    <3> QED BY <1>12, <1>13, <1>15, <3>1 DEF Took
  <2>4. VotesSent(S, n, x.elog[n]) /\ ElogBacked(S, x)
    BY <1>15 DEF StableOK, ElogBacked
  <2>5. VotesSent(S, n, c)
    <3>1. CASE Mine(x.elog[n], x.id) # None
      BY <1>2, <2>4, <3>1
    <3>2. CASE Mine(x.elog[n], x.id) = None
      <4>1. c.votes = a.votes
        BY <1>2, <3>2 DEF MakeComplete
      <4>2. VotesSent(S, n, a)
        <5>1. a.votes[x.id] # None => Took(S, x.id, n)
          BY <2>3, <4>1 DEF Mine
        <5> QED BY <1>0, <1>1, <2>4, <5>1, AddMyVoteSent
      <4> QED BY <4>1, <4>2 DEF VotesSent
    <3> QED BY <3>1, <3>2
  <2>6. ElogBacked(S, y)
    <3>1. c.forced => n <= x.last_stable
      BY <1>0
    <3> QED BY <1>0, <1>3, <1>12, <2>4, <2>5, <3>1, ElogUpdateBacked
  <2> QED BY <2>1, <2>2, <2>6
<1> QED BY <1>12, <1>14, <1>15, AdvancesBy

(* mark_stable() *)
LEMMA MarkStableAdvances ==
  ASSUME NEW S \in Sayings, NEW x, Good(x), x.calls # << >>, NEW n, NEW b,
         x.calls[1] = mark_stable(n, b), NEW y \in after_mark_stable(x, n, b)
  PROVE  Advances(S, x, y)
<1>0. /\ Typed(x) /\ LocalInv(x) /\ CallsOK(x) /\ RoomOK(x) /\ Framed(x)
      /\ x.calls \in Seq(Frames) /\ Len(x.calls) \in Nat /\ 1 \in 1..Len(x.calls)
  BY LenProperties, EmptySeq, TypedFramed DEF Good, Typed, DataOK, LocalInv
<1>1. /\ x.calls[1].op = "mark_stable" /\ x.calls[1].n = n /\ x.calls[1].flag = b /\ b \in BOOLEAN
  <2>1. x.calls[1] \in Frames
    BY <1>0
  <2> QED BY <2>1 DEF mark_stable, Frame, Frames
<1>2. /\ n \in Seqnos
      /\ b => n \in Checkpoints /\ n <= x.last_executed
  BY <1>0, <1>1 DEF CallsOK, Walks
<1>3. PICK w : w = Return(x)
  OBVIOUS
<1>4. /\ n \in Nat /\ x.last_stable \in Nat /\ x.last_tentative_execute \in Nat /\ x.seqno \in Nat
      /\ x.last_executed \in Nat /\ max_out \in Nat
  BY <1>0, <1>2, SeqnosAreNumbers DEF Typed, NumbersOK
<1>5. /\ Typed(w) /\ Same(x, w, {"calls"}) /\ NoWalks(w)
      /\ CountersOK(w) /\ TakenOK(w) /\ OwnOK(w) /\ CallsOK(w) /\ PendingOK(w)
  BY <1>3, ReturnKeeps
<1>6. Advances(S, x, w)
  BY <1>0, <1>3, ReturnHarmless, HarmlessAdvances
<1>7. CASE n <= x.last_stable
  <2>1. y = w
    BY <1>3, <1>7 DEF after_mark_stable
  <2> QED BY <1>6, <2>1
<1>8. CASE ~(n <= x.last_stable)
  <2>1. PICK t : t = truncate(w, n)
    OBVIOUS
  <2>2. PICK d : d = discard_checkpoint(t)
    OBVIOUS
  <2>3. PICK o : o = IF b THEN own_stable(d, n) ELSE d
    OBVIOUS
  <2>4. /\ w.last_stable = x.last_stable /\ w.last_tentative_execute = x.last_tentative_execute
        /\ w.seqno = x.seqno /\ w.id = x.id /\ w.last_executed = x.last_executed
    BY <1>5 DEF Same, Fields
  <2>5. n > w.last_stable /\ w.last_tentative_execute <= n + max_out /\ w.seqno <= n + max_out
    BY <1>0, <1>1, <1>4, <1>8, <2>4 DEF RoomOK
  <2>6. /\ Good(t) /\ Same(w, t, {"last_stable", "seqno", "plog", "clog", "elog", "sent"})
        /\ t.last_stable = n
    BY <1>2, <1>5, <2>1, <2>5, TruncateGood
  <2>7. t.last_executed = x.last_executed /\ t.last_tentative_execute = x.last_tentative_execute
    BY <2>4, <2>6 DEF Same, Fields
  <2>8. t.last_executed <= t.last_stable + max_out
    <3>1. t.last_executed <= t.last_tentative_execute
      BY <2>6 DEF Good, LocalInv, CountersOK
    <3> QED BY <1>4, <2>4, <2>5, <2>6, <2>7, <3>1
  <2>9. Framed(t) /\ Harmless(t, d) /\ Framed(d) /\ Typed(d) /\ d.last_stable = n
    <3>1. Framed(t)
      BY <2>6, TypedFramed DEF Good
    <3>2. Harmless(t, d)
      BY <2>2, <2>8, <3>1, DiscardHarmless
    <3>3. Typed(d)
      BY <2>2, <2>6, DiscardGood DEF Good
    <3>4. d.last_stable = t.last_stable
      BY <3>2 DEF Harmless, Same, Fields
    <3> QED BY <2>6, <3>1, <3>2, <3>3, <3>4 DEF Harmless
  <2>10. Advances(S, t, d)
    BY <2>9, HarmlessAdvances
  <2>11. ~(b /\ n > t.last_executed)
    BY <1>2, <1>4, <2>7
  <2>12. y = Call(o, <<transfer_sset(n)>>)
    BY <1>3, <1>8, <2>1, <2>2, <2>3, <2>11 DEF after_mark_stable
  <2>13. Advances(S, d, o) /\ Framed(o) /\ o.last_stable = n
    <3>1. CASE b
      BY <1>2, <2>3, <2>9, <3>1, OwnStableAdvances
    <3>2. CASE ~b
      BY <2>3, <2>9, <3>2, AdvancesNothing
    <3> QED BY <1>1, <3>1, <3>2
  <2>14. Advances(S, o, y)
    <3>1. PICK f : f = transfer_sset(n)
      OBVIOUS
    <3>2. f \in Frames /\ f.n = n /\ f.op = "transfer_sset"
      BY <1>4, <3>1 DEF transfer_sset, Frame, Frames
    <3>3. ~Marks(o, f)
      BY <1>4, <2>13, <3>2 DEF Marks
    <3> QED BY <2>12, <2>13, <3>1, <3>2, <3>3, CallAdvances
  <2>15. Advances(S, d, y)
    BY <2>13, <2>14, AdvancesTrans
  <2>16. Advances(S, t, y)
    BY <2>10, <2>15, AdvancesTrans
  <2>17. ASSUME StableOK(S, x) PROVE Advances(S, w, t)
    <3>1. BackedIn(S, n)
      BY <1>0, <1>1, <2>17 DEF StableOK, MarksBacked, Marks
    <3> QED BY <1>2, <1>5, <2>1, <2>5, <3>1, TruncateAdvances
  <2>18. t.sent.k = w.sent.k /\ t.id = w.id
    <3>1. t.sent.k = w.sent.k
      <4>1. PICK s : s = [w.sent EXCEPT !.md = {v \in @ : v[1] >= n}]
        OBVIOUS
      <4>2. t.sent = s
        BY <1>5, <2>1, <4>1 DEF truncate, Typed, Shape, Fields
      <4> QED BY <1>5, <4>1, <4>2, TypedFramed DEF Framed, MessageKinds
    <3> QED BY <2>6, <3>1 DEF Same, Fields
  <2>19. ASSUME y.sent.k \subseteq S[y.id].k, StableOK(S, x) PROVE StableOK(S, y)
    <3>1. Advances(S, x, t)
      BY <1>6, <2>17, <2>19, AdvancesTrans
    <3>2. Advances(S, x, y)
      BY <2>16, <3>1, AdvancesTrans
    <3> QED BY <2>19, <3>2 DEF Advances
  <2> QED BY <1>6, <2>16, <2>18, <2>19 DEF Advances
<1> QED BY <1>7, <1>8

(* A checkpoint moves from sset to elog. *)
LEMMA TransferAdvances ==
  ASSUME FewFaulty, NEW S \in Sayings, NEW x, Good(x), x.calls # << >>,
         x.calls[1].op = "transfer_sset", NEW m, m = x.calls[1].n,
         NEW i \in in_sset(x), NEW y, y = transfer(x, i, m)
  PROVE  Advances(S, x, y)
<1>0. /\ Typed(x) /\ LogsOK(x) /\ Shape(x) /\ x.id \in Replicas /\ x.last_stable \in Nat
      /\ x.calls \in Seq(Frames) /\ Len(x.calls) \in Nat /\ 1 \in 1..Len(x.calls)
  BY LenProperties, EmptySeq, StableNumbers DEF Good, Typed, DataOK
<1>1. PICK n : n = x.sset[i][1]
  OBVIOUS
<1>2. PICK h : h = x.sset[i][2]
  OBVIOUS
<1>3. /\ i \in Replicas /\ x.sset[i] # None /\ i # x.id
      /\ n \in Checkpoints /\ h \in Seq(Digests) /\ n \in Nat
  <2>1. i \in Replicas /\ x.sset[i] # None /\ i # x.id
    BY DEF in_sset, Good, LocalInv, OwnOK
  <2>2. x.sset[i] \in Checkpoints \X Seq(Digests)
    BY <1>0, <2>1 DEF LogsOK
  <2> QED BY <1>1, <1>2, <2>1, <2>2, SeqnosAreNumbers
<1>4. PICK s : s = [x.sset EXCEPT ![i] = None]
  OBVIOUS
<1>5. PICK c : c = AddVote(x.elog[n], checkpoints, i, h)
  OBVIOUS
<1>6. PICK e : e = [x.elog EXCEPT ![n] = c]
  OBVIOUS
<1>7. PICK j : j = IF IsComplete(c, checkpoints) /\ n > m THEN n ELSE m
  OBVIOUS
<1>8. PICK q : q = [x.calls EXCEPT ![1].n = j]
  OBVIOUS
<1>9. /\ n < x.last_stable => y = [x EXCEPT !.sset = s]
      /\ ~(n < x.last_stable) => y = [x EXCEPT !.sset = s, !.elog = e, !.calls = q]
  BY <1>1, <1>2, <1>4, <1>5, <1>6, <1>7, <1>8 DEF transfer, remove
<1>10. /\ Same(x, y, {"sset", "elog", "calls"}) /\ y.sset = s
       /\ n < x.last_stable => y.elog = x.elog /\ y.calls = x.calls
       /\ ~(n < x.last_stable) => y.elog = e /\ y.calls = q
  BY <1>0, <1>9 DEF Shape, Same, Fields
<1>11. y.id = x.id /\ y.last_stable = x.last_stable /\ y.sent = x.sent
  BY <1>10 DEF Same, Fields
<1>12. InWindow(x, y)
  BY <1>11 DEF InWindow
<1>13. ASSUME StableOK(S, x)
       PROVE  ClaimsBacked(S, y) /\ ElogBacked(S, y) /\ SsetBacked(S, y) /\ MarksBacked(S, y)
  <2>1. ClaimsBacked(S, y)
    BY <1>11, <1>13 DEF StableOK, ClaimsBacked
  <2>2. SsetBacked(S, y)
    <3>1. \A k \in Replicas : s[k] = IF k = i THEN None ELSE x.sset[k]
      BY <1>0, <1>4 DEF LogsOK
    <3> QED BY <1>10, <1>13, <3>1, ReplicaAssumption DEF StableOK, SsetBacked
  <2>3. CASE n < x.last_stable
    BY <1>10, <1>11, <1>13, <2>1, <2>2, <2>3 DEF StableOK, ElogBacked, MarksBacked, Marks
  <2>4. CASE ~(n < x.last_stable)
    <3>1. i \in Correct => Took(S, i, n)
      <4>1. i \in Correct => <<x.sset[i][1], x.sset[i][2], TRUE>> \in S[i].k
        BY <1>3, <1>13 DEF StableOK, SsetBacked
      <4>2. <<x.sset[i][1], x.sset[i][2], TRUE>>[1] = n
        BY <1>1
      <4> QED BY <4>1, <4>2 DEF Took
    <3>2. PICK g : g = x.elog[n]
      OBVIOUS
    <3>3. /\ g \in OwnedBy(x.id, Seq(Digests)) /\ VotesSent(S, n, g)
          /\ (g.forced => n <= x.last_stable) /\ ElogBacked(S, x)
      BY <1>0, <1>3, <1>13, <3>2 DEF LogsOK, StableOK, ElogBacked
    <3>4. c = AddVote(g, checkpoints, i, h)
      BY <1>5, <3>2
    <3>5. c \in Certificates(Seq(Digests)) /\ VotesSent(S, n, c) /\ (c.forced => g.forced)
      BY <1>0, <1>3, <3>1, <3>3, <3>4, AddVoteSent
    <3>6. ElogBacked(S, y)
      BY <1>0, <1>3, <1>6, <1>10, <1>11, <2>4, <3>3, <3>5, ElogUpdateBacked
    <3>7. /\ Len(q) = Len(x.calls)
          /\ \A k \in 1..Len(x.calls) : k # 1 => q[k] = x.calls[k]
          /\ q[1].op = "transfer_sset" /\ q[1].n = j
      <4>1. x.calls[1] \in Frames
        BY <1>0
      <4>2. PICK f : f = [x.calls[1] EXCEPT !.n = j]
        OBVIOUS
      <4>3. f.op = "transfer_sset" /\ f.n = j
        BY <4>1, <4>2 DEF Frames
      <4>4. q = [x.calls EXCEPT ![1] = f]
        BY <1>8, <4>2
      <4> QED BY <1>0, <4>3, <4>4
    <3>8. ASSUME NEW k \in 1..Len(q), Marks(y, q[k]) PROVE BackedIn(S, q[k].n)
      <4>1. k \in 1..Len(x.calls)
        BY <3>7
      <4>2. CASE k # 1
        <5>1. q[k] = x.calls[k] /\ Marks(x, x.calls[k])
          BY <1>11, <3>7, <3>8, <4>1, <4>2 DEF Marks
        <5> QED BY <1>13, <4>1, <5>1 DEF StableOK, MarksBacked
      <4>3. CASE k = 1 /\ j = m
        <5>1. Marks(x, x.calls[1])
          BY <1>11, <3>7, <3>8, <4>3 DEF Marks
        <5> QED BY <1>0, <1>13, <3>7, <4>3, <5>1 DEF StableOK, MarksBacked
      <4>4. CASE k = 1 /\ j = n /\ IsComplete(c, checkpoints)
        <5>1. n > x.last_stable
          BY <1>11, <3>7, <3>8, <4>4 DEF Marks
        <5>2. ~c.forced
          BY <1>0, <1>3, <3>3, <3>5, <5>1
        <5>3. BackedIn(S, n)
          BY <1>3, <3>5, <4>4, <5>2, QuorumBacked
        <5> QED BY <3>7, <4>4, <5>3
      <4> QED BY <1>7, <4>2, <4>3, <4>4
    <3>9. MarksBacked(S, y)
      BY <1>10, <2>4, <3>8 DEF MarksBacked
    <3> QED BY <2>1, <2>2, <3>6, <3>9
  <2> QED BY <2>3, <2>4
<1> QED BY <1>0, <1>11, <1>12, <1>13, AdvancesBy

(* The walk over sset, and what it ends with. *)
LEMMA TransferSsetAdvances ==
  ASSUME FewFaulty, NEW S \in Sayings, NEW x, Good(x), x.calls # << >>,
         x.calls[1].op = "transfer_sset", NEW m, m = x.calls[1].n,
         NEW y \in after_transfer_sset(x, m)
  PROVE  Advances(S, x, y)
<1>1. PICK w : w = Return(x)
  OBVIOUS
<1>2. /\ Framed(x) /\ Harmless(x, w) /\ Framed(w) /\ Typed(x) /\ w.last_stable = x.last_stable
      /\ 1 \in 1..Len(x.calls) /\ m \in Nat
  <2>1. Framed(x) /\ Typed(x)
    BY TypedFramed DEF Good
  <2>2. Harmless(x, w)
    BY <1>1, <2>1, ReturnHarmless
  <2>3. 1 \in 1..Len(x.calls)
    BY <2>1, LenProperties, EmptySeq DEF Framed
  <2>4. w.last_stable = x.last_stable
    BY <2>2 DEF Harmless, Same, Fields
  <2> QED BY <2>1, <2>2, <2>3, <2>4, StableNumbers DEF Harmless
<1>3. Advances(S, x, w)
  BY <1>2, HarmlessAdvances
<1>4. PICK b : b = (Mine(x.elog[m], x.id) # None)
  OBVIOUS
<1>5. \/ \E i \in in_sset(x) : y = transfer(x, i, m)
      \/ m > x.last_stable /\ y = Call(w, <<mark_stable(m, b)>>)
      \/ y \in send_pre_prepare(w)
  BY <1>1, <1>4 DEF after_transfer_sset
<1>6. CASE \E i \in in_sset(x) : y = transfer(x, i, m)
  BY <1>6, TransferAdvances
<1>7. CASE m > x.last_stable /\ y = Call(w, <<mark_stable(m, b)>>)
  <2>1. PICK f : f = mark_stable(m, b)
    OBVIOUS
  <2>2. f \in Frames /\ f.n = m
    <3>1. b \in BOOLEAN
      BY <1>4, Zenon
    <3> QED BY <1>2, <2>1, <3>1 DEF mark_stable, Frame, Frames
  <2>3. ASSUME StableOK(S, x) PROVE BackedIn(S, m)
    <3>1. Marks(x, x.calls[1])
      BY <1>7 DEF Marks
    <3> QED BY <1>2, <2>3, <3>1 DEF StableOK, MarksBacked
  <2>4. y.sent = w.sent /\ y.id = w.id
    BY <1>2, <1>7 DEF Call, Framed, Shape, Fields
  <2>5. ASSUME StableOK(S, x) PROVE Advances(S, w, y)
    BY <1>2, <1>7, <2>1, <2>2, <2>3, <2>5, CallAdvances
  <2>6. ASSUME y.sent.k \subseteq S[y.id].k, StableOK(S, x) PROVE StableOK(S, y)
    BY <1>3, <2>5, <2>6, AdvancesTrans DEF Advances
  <2> QED BY <1>3, <2>4, <2>6 DEF Advances
<1>8. CASE y \in send_pre_prepare(w)
  BY <1>2, <1>8, SendPrePrepareHarmless, HarmlessTrans, HarmlessAdvances
<1> QED BY <1>5, <1>6, <1>7, <1>8

(* What correct replicas said of stable checkpoints, and is kept in sset,   *)
(* is backed.                                                               *)
StoredBacked(S, x) == \A i \in Correct : x.sset[i] # None => BackedIn(S, x.sset[i][1])

(* A sequence of one call. *)
LEMMA OneCall ==
  ASSUME NEW f \in Frames
  PROVE  <<f>> \in Seq(Frames) /\ \A k \in 1..Len(<<f>>) : <<f>>[k] = f
OBVIOUS

(* A call of mark_stable() and others that do not move the window. *)
LEMMA MarkFirst ==
  ASSUME NEW S, NEW x, NEW p \in Seq(Frames), NEW r \in Seq(Frames), NEW q, q = p \o r,
         \A k \in 1..Len(p) : BackedIn(S, p[k].n), \A k \in 1..Len(r) : r[k].op \notin Walks
  PROVE  q \in Seq(Frames) /\ \A k \in 1..Len(q) : Marks(x, q[k]) => BackedIn(S, q[k].n)
<1>1. /\ q \in Seq(Frames) /\ Len(q) = Len(p) + Len(r) /\ Len(p) \in Nat /\ Len(r) \in Nat
      /\ \A k \in 1..Len(q) : q[k] = IF k <= Len(p) THEN p[k] ELSE r[k - Len(p)]
  BY ConcatFrames, LenProperties
<1>2. ASSUME NEW k \in 1..Len(q), Marks(x, q[k]) PROVE BackedIn(S, q[k].n)
  <2>1. CASE k <= Len(p)
    <3>1. k \in 1..Len(p) /\ q[k] = p[k]
      BY <1>1, <2>1
    <3> QED BY <3>1
  <2>2. CASE ~(k <= Len(p))
    <3>1. k - Len(p) \in 1..Len(r) /\ q[k] = r[k - Len(p)]
      BY <1>1, <2>2
    <3>2. q[k].op \in Walks
      BY <1>2 DEF Marks, Walks
    <3> QED BY <3>1, <3>2
  <2> QED BY <2>1, <2>2
<1> QED BY <1>1, <1>2

(* new_state(): if more than f replicas have c stable, one of them is       *)
(* correct.                                                                 *)
LEMMA NewStateAdvances ==
  ASSUME FewFaulty, NEW S \in Sayings, NEW x, Good(x), x.calls # << >>, NEW c, NEW b,
         x.calls[1] = new_state(c, b), StoredBacked(S, x), NEW y \in after_new_state(x, c, b)
  PROVE  Advances(S, x, y)
<1>0. /\ Typed(x) /\ LogsOK(x) /\ CallsOK(x) /\ Framed(x)
      /\ x.calls \in Seq(Frames) /\ Len(x.calls) \in Nat /\ 1 \in 1..Len(x.calls)
  BY LenProperties, EmptySeq, TypedFramed DEF Good, Typed, DataOK, LocalInv
<1>1. x.calls[1].op = "new_state" /\ x.calls[1].n = c
  BY DEF new_state, Frame
<1>2. c \in Checkpoints /\ c \in Nat
  BY <1>0, <1>1, SeqnosAreNumbers DEF CallsOK
<1>3. PICK w : w = Return(x)
  OBVIOUS
<1>4. Typed(w) /\ Advances(S, x, w)
  BY <1>0, <1>1, <1>3, ReturnGood, ReturnHarmless, HarmlessAdvances DEF Good
<1>5. PICK u : u = IF b THEN send_checkpoint(w, c) ELSE w
  OBVIOUS
<1>6. Advances(S, w, u) /\ Framed(u)
  BY <1>2, <1>4, <1>5, SendCheckpointAdvances, TypedFramed, AdvancesNothing
<1> DEFINE known == {i \in Replicas : x.sset[i] # None /\ x.sset[i][1] >= c}
<1>7. PICK p : p = IF Cardinality(known) > F THEN <<mark_stable(c, TRUE)>> ELSE << >>
  OBVIOUS
<1>8. PICK r : r = <<new_state_end(c), execute_committed, try_send_pre_prepare>>
  OBVIOUS
<1>9. PICK q : q = p \o r
  OBVIOUS
<1>10. y = Call(u, q)
  BY <1>3, <1>5, <1>7, <1>8, <1>9 DEF after_new_state
<1>11. Cardinality(known) > F => BackedIn(S, c)
  <2> SUFFICES ASSUME Cardinality(known) > F PROVE BackedIn(S, c)
    OBVIOUS
  <2>1. known \in SUBSET Replicas
    OBVIOUS
  <2>2. PICK i \in known : i \in Correct
    BY <2>1, FewFaultyPlausible
  <2>3. x.sset[i] \in Checkpoints \X Seq(Digests) /\ x.sset[i][1] >= c /\ BackedIn(S, x.sset[i][1])
    BY <1>0, <2>2 DEF LogsOK, StoredBacked
  <2>4. x.sset[i][1] \in Nat
    BY <2>3, SeqnosAreNumbers
  <2> QED BY <1>2, <2>3, <2>4, BackedBelow
<1> HIDE DEF known
<1>12. p \in Seq(Frames) /\ \A k \in 1..Len(p) : BackedIn(S, p[k].n)
  <2>1. mark_stable(c, TRUE) \in Frames /\ mark_stable(c, TRUE).n = c
    BY <1>2 DEF mark_stable, Frame, Frames
  <2>2. PICK f : f = mark_stable(c, TRUE)
    OBVIOUS
  <2>3. f \in Frames /\ f.n = c
    BY <2>1, <2>2
  <2>4. CASE Cardinality(known) > F
    <3>1. p = <<f>> /\ BackedIn(S, c)
      BY <1>7, <1>11, <2>2, <2>4
    <3> QED BY <2>3, <3>1, OneCall
  <2>5. CASE ~(Cardinality(known) > F)
    <3>1. p = << >>
      BY <1>7, <2>5
    <3> QED BY <3>1
  <2> QED BY <2>4, <2>5
<1>13. r \in Seq(Frames) /\ \A k \in 1..Len(r) : r[k].op \notin Walks
  <2>1. /\ new_state_end(c) \in Frames /\ execute_committed \in Frames
        /\ try_send_pre_prepare \in Frames
    BY <1>2, FrameTypes
  <2>2. /\ new_state_end(c).op \notin Walks /\ execute_committed.op \notin Walks
        /\ try_send_pre_prepare.op \notin Walks
    BY DEF new_state_end, execute_committed, try_send_pre_prepare, Frame, Walks
  <2>3. PICK f1 : f1 = new_state_end(c)
    OBVIOUS
  <2>4. PICK f2 : f2 = execute_committed
    OBVIOUS
  <2>5. PICK f3 : f3 = try_send_pre_prepare
    OBVIOUS
  <2>6. r = <<f1, f2, f3>> /\ f1 \in Frames /\ f2 \in Frames /\ f3 \in Frames
    BY <1>8, <2>1, <2>3, <2>4, <2>5
  <2>7. r \in Seq(Frames) /\ Len(r) = 3 /\ r[1] = f1 /\ r[2] = f2 /\ r[3] = f3
    BY <2>6
  <2> QED BY <2>2, <2>3, <2>4, <2>5, <2>7
<1>14. q \in Seq(Frames) /\ \A k \in 1..Len(q) : Marks(u, q[k]) => BackedIn(S, q[k].n)
  BY <1>9, <1>12, <1>13, MarkFirst
<1>15. Advances(S, u, y)
  BY <1>6, <1>10, <1>14, CallsAdvance
<1> QED BY <1>4, <1>6, <1>15, AdvancesTrans

(* Any of the calls a handler leaves to be made. *)
LEMMA AfterCallAdvances ==
  ASSUME FewFaulty, NEW S \in Sayings, NEW x, Good(x), x.calls # << >>, StoredBacked(S, x),
         NEW y \in after_call(x)
  PROVE  Advances(S, x, y)
<1>0. Framed(x)
  BY TypedFramed DEF Good
<1>1. PICK f : f = x.calls[1]
  OBVIOUS
<1>2. f \in Frames /\ Head(x.calls) = f
  BY <1>1, HeadTailProperties, LenProperties, EmptySeq DEF Good, Typed, DataOK
<1>3. f.op \in {"execute_committed", "mark_stable", "transfer_sset", "new_state",
                "new_state_end", "send_pre_prepare"} /\ f.flag \in BOOLEAN
  BY <1>2 DEF Frames
<1>4. f = [a \in {"op", "n", "flag"} |-> f[a]]
  BY <1>2 DEF Frames
<1>5. CASE f.op = "execute_committed"
  <2>1. y \in after_execute_committed(x)
    BY <1>2, <1>5 DEF after_call
  <2> QED BY <1>1, <1>5, <2>1, ExecuteCommittedAdvances
<1>6. CASE f.op = "mark_stable"
  <2>1. y \in after_mark_stable(x, f.n, f.flag)
    BY <1>2, <1>6 DEF after_call
  <2>2. f = mark_stable(f.n, f.flag)
    BY <1>4, <1>6 DEF mark_stable, Frame
  <2> QED BY <1>1, <2>1, <2>2, MarkStableAdvances
<1>7. CASE f.op = "transfer_sset"
  <2>1. y \in after_transfer_sset(x, f.n)
    BY <1>2, <1>7 DEF after_call
  <2> QED BY <1>1, <1>7, <2>1, TransferSsetAdvances
<1>8. CASE f.op = "new_state"
  <2>1. y \in after_new_state(x, f.n, f.flag)
    BY <1>2, <1>8 DEF after_call
  <2>2. f = new_state(f.n, f.flag)
    BY <1>4, <1>8 DEF new_state, Frame
  <2> QED BY <1>1, <2>1, <2>2, NewStateAdvances
<1>9. CASE f.op = "new_state_end"
  <2>1. y \in {[Return(x) EXCEPT !.seqno = IF f.n > @ THEN f.n ELSE @]}
    BY <1>2, <1>9 DEF after_call
  <2>2. PICK m : m = f.n
    OBVIOUS
  <2>3. y = [Return(x) EXCEPT !.seqno = IF m > @ THEN m ELSE @]
    BY <2>1, <2>2
  <2> QED BY <1>0, <2>3, NewStateEndHarmless, HarmlessAdvances
<1>10. CASE f.op = "send_pre_prepare"
  <2>1. y \in send_pre_prepare(Return(x))
    BY <1>2, <1>10 DEF after_call
  <2>2. PICK w : w = Return(x)
    OBVIOUS
  <2>3. Harmless(x, w)
    BY <1>0, <2>2, ReturnHarmless
  <2>4. Harmless(w, y)
    BY <2>1, <2>2, <2>3, SendPrePrepareHarmless DEF Harmless
  <2> QED BY <1>0, <2>3, <2>4, HarmlessTrans, HarmlessAdvances
<1> QED BY <1>3, <1>5, <1>6, <1>7, <1>8, <1>9, <1>10

(* A state transfer to a checkpoint in the window of a backed one. *)
LEMMA FetchDoneAdvances ==
  ASSUME NEW S \in Sayings, NEW x, Typed(x), NEW c \in Checkpoints, NEW h,
         c > max_out => BackedIn(S, c - max_out), NEW y \in fetch_done(x, c, h)
  PROVE  Advances(S, x, y)
<1>0. /\ Framed(x) /\ Shape(x) /\ c \in Nat /\ max_out \in Nat /\ x.last_stable \in Nat
      /\ x.last_executed \in Nat
  BY TypedFramed, SeqnosAreNumbers, StableNumbers DEF Typed
<1>1. PICK s : s = [x.sent EXCEPT !.md = @ \cup {<<c, h>>}]
  OBVIOUS
<1>2. PICK b : b = (c > x.last_executed)
  OBVIOUS
<1>3. PICK e : e = IF b THEN c ELSE x.last_executed
  OBVIOUS
<1>4. PICK l : l = IF b THEN c ELSE x.last_tentative_execute
  OBVIOUS
<1>5. PICK a : a = [x EXCEPT !.fetching = FALSE, !.state = h, !.lc = c, !.fetched = c, !.sent = s,
                             !.last_executed = e, !.last_tentative_execute = l]
  OBVIOUS
<1>6. PICK q : q = make_room(x, c) \o <<new_state(c, b)>>
  OBVIOUS
<1>7. PICK z : z = Call(a, q)
  OBVIOUS
<1>8. y = z \/ y = [z EXCEPT !.rqueue = FALSE]
  <2>1. a = [x EXCEPT !.fetching = FALSE, !.state = h, !.lc = c, !.fetched = c,
                      !.sent.md = @ \cup {<<c, h>>},
                      !.last_executed = IF b THEN c ELSE @,
                      !.last_tentative_execute = IF b THEN c ELSE @]
    BY <1>1, <1>3, <1>4, <1>5
  <2> QED BY <1>2, <1>6, <1>7, <2>1 DEF fetch_done, replies_new_state
<1>9. /\ Shape(a) /\ Same(x, a, {"fetching", "state", "lc", "fetched", "sent", "last_executed",
                                 "last_tentative_execute"})
      /\ a.lc = c /\ a.sent = s /\ a.last_executed = e
  BY <1>0, <1>5 DEF Shape, Same, Fields
<1>10. /\ a.id = x.id /\ a.sset = x.sset /\ a.elog = x.elog /\ a.last_stable = x.last_stable
       /\ a.calls = x.calls
  BY <1>9 DEF Same, Fields
<1>11. /\ s = [f \in MessageKinds |-> s[f]] /\ s.k = x.sent.k
       /\ s.md = x.sent.md \cup {<<c, h>>}
  BY <1>0, <1>1 DEF Framed, MessageKinds
<1>12. Framed(a)
  <2>1. e \in Nat
    BY <1>0, <1>3
  <2> QED BY <1>0, <1>9, <1>10, <1>11, <2>1 DEF Framed
<1>13. Advances(S, x, a)
  <2>1. ASSUME StableOK(S, x) PROVE StableOK(S, a)
    <3>1. /\ WindowBacked(S, a) /\ ClaimsBacked(S, a) /\ ElogBacked(S, a) /\ SsetBacked(S, a)
          /\ MarksBacked(S, a)
      BY <1>9, <1>10, <1>11, <2>1
         DEF StableOK, WindowBacked, ClaimsBacked, ElogBacked, SsetBacked, MarksBacked, Marks
    <3>2. KeptBacked(S, a)
      <4>1. <<c, h>>[1] = c
        OBVIOUS
      <4> QED BY <1>9, <1>11, <2>1, <4>1 DEF StableOK, KeptBacked
    <3> QED BY <3>1, <3>2 DEF StableOK
  <2> QED BY <1>9, <1>10, <1>11, <2>1 DEF Advances
<1>14. q \in Seq(Frames) /\ \A k \in 1..Len(q) : Marks(a, q[k]) => BackedIn(S, q[k].n)
  <2>1. make_room(x, c) \in Seq(Frames) /\ \A k \in 1..Len(make_room(x, c)) : BackedIn(S, make_room(x, c)[k].n)
    <3>1. PICK low : low = c - max_out
      OBVIOUS
    <3>2. PICK d : d = (low \in Checkpoints /\ Mine(x.elog[low], x.id) # None)
      OBVIOUS
    <3>3. PICK f : f = mark_stable(low, d)
      OBVIOUS
    <3>4. \/ low > x.last_stable /\ make_room(x, c) = <<f>>
          \/ make_room(x, c) = << >>
      BY <3>1, <3>2, <3>3 DEF make_room
    <3>5. CASE low > x.last_stable /\ make_room(x, c) = <<f>>
      <4>1. low \in Nat /\ c > max_out /\ BackedIn(S, low)
        BY <1>0, <3>1, <3>5
      <4>2. d \in BOOLEAN
        BY <3>2, Zenon
      <4>3. f \in Frames /\ f.n = low
        BY <3>3, <4>1, <4>2 DEF mark_stable, Frame, Frames
      <4>4. <<f>> \in Seq(Frames) /\ \A k \in 1..Len(<<f>>) : <<f>>[k].n = low
        BY <4>3
      <4> QED BY <3>5, <4>1, <4>4
    <3>6. CASE make_room(x, c) = << >>
      BY <3>6
    <3> QED BY <3>4, <3>5, <3>6
  <2>2. PICK r : r = <<new_state(c, b)>>
    OBVIOUS
  <2>3. r \in Seq(Frames) /\ \A k \in 1..Len(r) : r[k].op \notin Walks
    <3>1. b \in BOOLEAN
      <4>1. (c > x.last_executed) \in BOOLEAN
        BY <1>0
      <4> QED BY <1>2, <4>1, Zenon
    <3>2. PICK f : f = new_state(c, b)
      OBVIOUS
    <3>3. f \in Frames /\ f.op \notin Walks
      BY <1>0, <3>1, <3>2 DEF new_state, Frame, Frames, Walks
    <3>4. r = <<f>>
      BY <2>2, <3>2
    <3> QED BY <3>3, <3>4, OneCall
  <2>4. PICK p : p = make_room(x, c)
    OBVIOUS
  <2>5. q = p \o r /\ p \in Seq(Frames) /\ \A k \in 1..Len(p) : BackedIn(S, p[k].n)
    BY <1>6, <2>1, <2>2, <2>4
  <2> QED BY <2>3, <2>5, MarkFirst
<1>15. Advances(S, a, z)
  BY <1>7, <1>12, <1>14, CallsAdvance
<1>16. Framed(z)
  <2>1. PICK p : p = q \o a.calls
    OBVIOUS
  <2>2. Shape(z) /\ Same(a, z, {"calls"}) /\ z.calls = p
    BY <1>7, <1>12, <2>1 DEF Call, Framed, Shape, Same, Fields
  <2>3. p \in Seq(Frames)
    BY <1>12, <1>14, <2>1, ConcatFrames DEF Framed
  <2> QED BY <1>12, <2>2, <2>3 DEF Framed, Same, Fields
<1>17. Advances(S, z, y)
  <2>1. CASE y = z
    BY <1>16, <2>1, AdvancesNothing
  <2>2. CASE y = [z EXCEPT !.rqueue = FALSE]
    <3>1. Shape(y) /\ Same(z, y, {"rqueue"})
      BY <1>16, <2>2 DEF Framed, Shape, Same, Fields
    <3>2. Same(z, y, Elsewhere \cup {"sent"}) /\ y.sent = z.sent
      BY <3>1 DEF Same, Fields, Elsewhere
    <3>3. Harmless(z, y)
      BY <1>16, <3>1, <3>2, ElsewhereHarmless DEF Framed, SentSame
    <3> QED BY <1>16, <3>3, HarmlessAdvances
  <2> QED BY <1>8, <2>1, <2>2
<1> QED BY <1>13, <1>15, <1>17, AdvancesTrans

-----------------------------------------------------------------------------
(* What everybody has sent. *)
LEMMA SaidTyped ==
  ASSUME LInv
  PROVE  /\ Said \in Sayings /\ Correct \subseteq Replicas
         /\ \A i \in Replicas : Said[i] = Sent(i)
         /\ \A i \in Correct : Said[i] = rep[i].sent
BY SentMessages, ReplicaAssumption DEF Said, Sent, Sayings

(* A replica whose checkpoint is in sset knew it to be stable. *)
LEMMA StoredAreBacked ==
  ASSUME LInv, BInv, NEW S \in Sayings, Rises(Said, S), NEW r \in Correct
  PROVE  StoredBacked(S, rep[r])
<1> SUFFICES ASSUME NEW i \in Correct, rep[r].sset[i] # None
             PROVE  BackedIn(S, rep[r].sset[i][1])
  BY DEF StoredBacked
<1>1. PICK n : n = rep[r].sset[i][1]
  OBVIOUS
<1>2. PICK h : h = rep[r].sset[i][2]
  OBVIOUS
<1>3. PICK m : m = <<n, h, TRUE>>
  OBVIOUS
<1>4. m \in Said[i].k /\ Said[i] = rep[i].sent
  BY <1>1, <1>2, <1>3, SaidTyped DEF BInv, StableOK, SsetBacked
<1>5. m[1] = n /\ m[3]
  BY <1>3
<1>6. BackedIn(Said, n)
  BY <1>4, <1>5 DEF BInv, StableOK, ClaimsBacked
<1>7. n \in Nat
  BY <1>4, <1>5, SaidTyped, SayingsTyped
<1> QED BY <1>1, <1>6, <1>7, SaidTyped, BackedGrows

(* What f+1 replicas vouch for is kept by a correct one. *)
LEMMA VouchedBacked ==
  ASSUME LInv, BInv, FewFaulty, NEW S \in Sayings, Rises(Said, S), NEW r \in Correct,
         NEW c \in Nat, NEW h, Cardinality(Vouch(r, c, h)) > F, c > max_out
  PROVE  BackedIn(S, c - max_out)
<1>1. Vouch(r, c, h) \in SUBSET Replicas
  BY DEF Vouch
<1>2. PICK i \in Vouch(r, c, h) : i \in Correct
  BY <1>1, FewFaultyPlausible
<1>3. PICK v : v = <<c, h>>
  OBVIOUS
<1>4. v \in rep[i].sent.md /\ v[1] = c
  BY <1>2, <1>3 DEF Vouch, Sent
<1>5. BackedIn(Said, c - max_out)
  BY <1>2, <1>4 DEF BInv, StableOK, KeptBacked
<1>6. max_out \in Nat
  BY SeqnosAreNumbers
<1> QED BY <1>5, <1>6, SaidTyped, BackedGrows

(* Every step is of one replica, and keeps its part of the invariant. *)
LEMMA NextAdvances ==
  ASSUME LInv, BInv, FewFaulty, Next
  PROVE  \E r \in Correct :
           /\ rep' = [rep EXCEPT ![r] = rep'[r]]
           /\ \A S \in Sayings : Rises(Said, S) => Advances(S, rep[r], rep'[r])
<1>0. PICK r \in Correct : Request(r) \/ Receive(r) \/ NewKey(r) \/ FetchDone(r) \/ Continue(r)
  BY DEF Next
<1>1. PICK x : x = rep[r]
  OBVIOUS
<1>2. Good(x) /\ x.id = r /\ r \in Replicas /\ rep = [q \in Correct |-> rep[q]]
  BY <1>1, ReplicaAssumption DEF LInv, Good
<1>3. Typed(x) /\ Framed(x)
  BY <1>2, TypedFramed DEF Good
<1>4. ASSUME NEW y, rep' = [rep EXCEPT ![r] = y],
             ASSUME NEW S \in Sayings, Rises(Said, S) PROVE Advances(S, x, y)
      PROVE  /\ rep' = [rep EXCEPT ![r] = rep'[r]]
             /\ \A S \in Sayings : Rises(Said, S) => Advances(S, rep[r], rep'[r])
  <2>1. rep'[r] = y
    BY <1>2, <1>4
  <2> QED BY <1>1, <1>4, <2>1
<1>5. ASSUME NEW y, rep' = [rep EXCEPT ![r] = y], Harmless(x, y)
      PROVE  /\ rep' = [rep EXCEPT ![r] = rep'[r]]
             /\ \A S \in Sayings : Rises(Said, S) => Advances(S, rep[r], rep'[r])
  BY <1>3, <1>4, <1>5, HarmlessAdvances
<1>6. CASE Request(r)
  <2>1. PICK y \in send_pre_prepare([x EXCEPT !.rqueue = TRUE]) : Becomes(r, y)
    BY <1>1, <1>6 DEF Request
  <2>2. Harmless(x, y)
    BY <1>3, <2>1, RequestHarmless
  <2> QED BY <1>5, <2>1, <2>2 DEF Becomes
<1>7. CASE Pre_prepare(r)
  <2>1. PICK m \in Sent(Primary).pp : Becomes(r, handle_Pre_prepare(x, m[1], m[2]))
    BY <1>1, <1>7 DEF Pre_prepare
  <2>2. PICK y : y = handle_Pre_prepare(x, m[1], m[2])
    OBVIOUS
  <2>3. Harmless(x, y)
    BY <1>3, <2>2, PrePrepareHarmless
  <2> QED BY <1>5, <2>1, <2>2, <2>3 DEF Becomes
<1>8. ASSUME NEW i \in Replicas, Prepare(r, i)
      PROVE  /\ rep' = [rep EXCEPT ![r] = rep'[r]]
             /\ \A S \in Sayings : Rises(Said, S) => Advances(S, rep[r], rep'[r])
  <2>1. PICK m \in Sent(i).p : Becomes(r, handle_Prepare(x, i, m[1], m[2]))
    BY <1>1, <1>8 DEF Prepare
  <2>2. PICK y : y = handle_Prepare(x, i, m[1], m[2])
    OBVIOUS
  <2>3. Harmless(x, y)
    BY <1>3, <2>2, PrepareHarmless
  <2> QED BY <1>5, <2>1, <2>2, <2>3 DEF Becomes
<1>9. ASSUME NEW i \in Replicas, Commit(r, i)
      PROVE  /\ rep' = [rep EXCEPT ![r] = rep'[r]]
             /\ \A S \in Sayings : Rises(Said, S) => Advances(S, rep[r], rep'[r])
  <2>1. PICK n \in Sent(i).c : Becomes(r, handle_Commit(x, i, n))
    BY <1>1, <1>9 DEF Commit
  <2>2. PICK y : y = handle_Commit(x, i, n)
    OBVIOUS
  <2>3. Harmless(x, y)
    BY <1>3, <2>2, CommitHarmless
  <2> QED BY <1>5, <2>1, <2>2, <2>3 DEF Becomes
<1>10. ASSUME NEW i \in Replicas, Checkpoint(r, i)
       PROVE  /\ rep' = [rep EXCEPT ![r] = rep'[r]]
              /\ \A S \in Sayings : Rises(Said, S) => Advances(S, rep[r], rep'[r])
  <2>1. PICK m \in Sent(i).k, slow \in BOOLEAN :
          m[1] \in Checkpoints /\ Becomes(r, handle_Checkpoint(x, i, m[1], m[2], m[3], slow))
    BY <1>1, <1>10 DEF Checkpoint
  <2>2. /\ x.calls = << >> /\ i \in Replicas \ {x.id} /\ m[2] \in Seq(Digests) /\ m[3] \in BOOLEAN
        /\ m \in Said[i].k
    BY <1>1, <1>2, <1>10, <2>1, SentMessages, SaidTyped DEF Checkpoint, Idle
  <2>3. m = <<m[1], m[2], m[3]>>
    BY <2>2, SaidTyped, SayingsTyped
  <2>4. PICK y : y = handle_Checkpoint(x, i, m[1], m[2], m[3], slow)
    OBVIOUS
  <2>5. ASSUME NEW S \in Sayings, Rises(Said, S) PROVE Advances(S, x, y)
    <3>1. <<m[1], m[2], m[3]>> \in S[i].k
      BY <2>2, <2>3, <2>5 DEF Rises
    <3> QED BY <1>2, <2>1, <2>2, <2>4, <3>1, CheckpointAdvances
  <2> QED BY <1>4, <2>1, <2>4, <2>5 DEF Becomes
<1>11. CASE NewKey(r)
  <2>1. PICK y : y = send_new_key(x)
    OBVIOUS
  <2>2. rep' = [rep EXCEPT ![r] = y]
    BY <1>1, <1>11, <2>1 DEF NewKey
  <2>3. ASSUME NEW S \in Sayings PROVE Advances(S, x, y)
    BY <1>3, <2>1, NewKeyAdvances
  <2> QED BY <1>4, <2>2, <2>3
<1>12. CASE FetchDone(r)
  <2>1. PICK v \in UNION {Sent(i).md : i \in Replicas} :
          /\ v[1] \in Checkpoints /\ Cardinality(Vouch(r, v[1], v[2])) > F
          /\ \E y \in fetch_done(x, v[1], v[2]) : Becomes(r, y)
    BY <1>1, <1>12 DEF FetchDone
  <2>2. PICK y \in fetch_done(x, v[1], v[2]) : Becomes(r, y)
    BY <2>1
  <2>3. v[1] \in Nat
    BY <2>1, SeqnosAreNumbers
  <2>4. ASSUME NEW S \in Sayings, Rises(Said, S) PROVE Advances(S, x, y)
    <3>1. v[1] > max_out => BackedIn(S, v[1] - max_out)
      BY <2>1, <2>3, <2>4, VouchedBacked
    <3> QED BY <1>3, <2>1, <2>2, <3>1, FetchDoneAdvances
  <2> QED BY <1>4, <2>2, <2>4 DEF Becomes
<1>13. CASE Continue(r)
  <2>1. x.calls # << >>
    BY <1>1, <1>13 DEF Continue
  <2>2. PICK y \in after_call(x) : Becomes(r, y)
    BY <1>1, <1>13 DEF Continue
  <2>3. ASSUME NEW S \in Sayings, Rises(Said, S) PROVE Advances(S, x, y)
    <3>1. StoredBacked(S, x)
      BY <1>1, <2>3, StoredAreBacked
    <3> QED BY <1>2, <2>1, <2>2, <3>1, AfterCallAdvances
  <2> QED BY <1>4, <2>2, <2>3 DEF Becomes
<1> QED BY <1>0, <1>6, <1>7, <1>8, <1>9, <1>10, <1>11, <1>12, <1>13 DEF Receive

(* What the replica sends in the step is among what is sent after it. *)
LEMMA StepStable ==
  ASSUME LInv, LInv', BInv, FewFaulty, Next
  PROVE  BInv'
<1>1. PICK r \in Correct :
        /\ rep' = [rep EXCEPT ![r] = rep'[r]]
        /\ \A S \in Sayings : Rises(Said, S) => Advances(S, rep[r], rep'[r])
  BY NextAdvances
<1>2. PICK T : T = Said'
  OBVIOUS
<1>3. PICK y : y = rep'[r]
  OBVIOUS
<1>4. \A q \in Correct : rep'[q] = IF q = r THEN y ELSE rep[q]
  <2>1. rep = [q \in Correct |-> rep[q]]
    BY DEF LInv
  <2> QED BY <1>1, <1>3, <2>1
<1>5. /\ \A i \in Replicas : Said[i] = IF i \in Correct THEN rep[i].sent ELSE Claims[i]
      /\ \A i \in Replicas : T[i] = IF i \in Correct THEN rep'[i].sent ELSE Claims[i]
      /\ Correct \subseteq Replicas
  BY <1>2, ReplicaAssumption DEF Said, Sent
<1>6. Said \in Sayings /\ Said' \in Sayings
  <2>1. Said \in Sayings
    BY SaidTyped
  <2>2. \A i \in Correct : rep'[i].sent \in Messages
    BY DEF LInv, Good, Typed, DataOK
  <2>3. \A i \in Replicas \ Correct : Claims[i] \in Messages
    BY ClaimsAssumption
  <2>4. \A i \in Replicas : T[i] \in Messages
    BY <1>5, <2>2, <2>3
  <2>5. T = [i \in Replicas |-> T[i]]
    BY <1>2 DEF Said
  <2> QED BY <1>2, <2>1, <2>4, <2>5 DEF Sayings
<1>7. Advances(Said, rep[r], y)
  BY <1>1, <1>3, <1>6 DEF Rises
<1>8. Rises(Said, T)
  BY <1>4, <1>5, <1>7 DEF Rises, Advances
<1>9. Advances(T, rep[r], y)
  BY <1>1, <1>2, <1>3, <1>6, <1>8
<1>10. ASSUME NEW q \in Correct PROVE StableOK(T, rep'[q])
  <2>1. Typed(rep[q]) /\ StableOK(Said, rep[q])
    BY DEF LInv, BInv
  <2>2. StableOK(T, rep[q])
    BY <1>2, <1>6, <1>8, <2>1, StableGrows
  <2>3. CASE q = r
    <3>1. y.id = r
      BY <1>7 DEF Advances, LInv
    <3>2. y.sent.k \subseteq T[y.id].k
      BY <1>3, <1>5, <3>1
    <3> QED BY <1>4, <1>9, <2>2, <2>3, <3>2 DEF Advances
  <2> QED BY <1>4, <2>2, <2>3
<1> QED BY <1>2, <1>10 DEF BInv

(* At the start there is nothing to be backed. *)
LEMMA InitStable == Init => BInv
<1> SUFFICES ASSUME Init, NEW r \in Correct PROVE StableOK(Said, rep[r])
  BY DEF BInv
<1>1. PICK x : x = Fresh(r)
  OBVIOUS
<1>2. rep[r] = x
  BY <1>1 DEF Init
<1>3. /\ x.last_stable = 0 /\ x.elog = [n \in Checkpoints |-> EmptyCert]
      /\ x.sset = [i \in Replicas |-> None] /\ x.calls = << >>
      /\ x.sent = [pp |-> {}, p |-> {}, c |-> {}, k |-> {}, md |-> {}] /\ Correct \subseteq Replicas
  BY <1>1, ReplicaAssumption DEF Fresh
<1>4. WindowBacked(Said, x) /\ KeptBacked(Said, x) /\ ClaimsBacked(Said, x)
  BY <1>3 DEF WindowBacked, KeptBacked, ClaimsBacked
<1>5. ElogBacked(Said, x)
  <2>1. ~EmptyCert.forced /\ \A i \in Replicas : EmptyCert.votes[i] = None
    BY DEF EmptyCert
  <2> QED BY <1>3, <2>1 DEF ElogBacked, VotesSent
<1>6. SsetBacked(Said, x) /\ MarksBacked(Said, x)
  <2>1. Len(x.calls) = 0
    BY <1>3
  <2>2. \A i \in Correct : x.sset[i] = None
    BY <1>3
  <2>3. SsetBacked(Said, x)
    BY <2>2 DEF SsetBacked
  <2>4. 1..Len(x.calls) = {}
    BY <2>1
  <2> QED BY <2>3, <2>4, Zenon DEF MarksBacked
<1> QED BY <1>2, <1>4, <1>5, <1>6 DEF StableOK

(* The stable checkpoints, those that are kept, and those that somebody     *)
(* says are stable are all backed by checkpoint messages of f+1 correct     *)
(* replicas, as are the calls of mark_stable() still to be made.            *)
THEOREM CheckpointsBacked ==
  ASSUME FewFaulty
  PROVE  Spec => []BInv
<1>1. LInv /\ LInv' /\ BInv /\ [Next]_vars => BInv'
  <2>1. ASSUME BInv, UNCHANGED vars PROVE BInv'
    BY <2>1 DEF BInv, vars, Said, Sent
  <2> QED BY <2>1, StepStable
<1>2. Spec => []LInv
  BY FewFaultyPlausible, LocalInvariant
<1> QED BY <1>1, <1>2, InitStable, PTL DEF Spec

(* mark_stable() discards the logs below n only when f+1 correct replicas   *)
(* sent a checkpoint message for n or above: whoever is left behind can     *)
(* fetch the state, also when this replica learned of n from the others, by *)
(* their messages or by state transfer.  For every number of replicas.      *)
THEOREM StableIsBackedByCorrect ==
  ASSUME FewFaulty
  PROVE  Spec => []StableIsBacked
<1>1. LInv /\ BInv => StableIsBacked
  <2> SUFFICES ASSUME LInv, BInv, NEW r \in Correct, rep[r].last_stable > 0
               PROVE  Cardinality({q \in Correct : HasCheckpointFrom(q, rep[r].last_stable)}) > F
    BY DEF StableIsBacked
  <2>1. PICK n : n = rep[r].last_stable
    OBVIOUS
  <2>2. {q \in Correct : HasCheckpointFrom(q, n)} = Reached(Said, n)
    BY SaidTyped DEF HasCheckpointFrom, Reached
  <2>3. BackedIn(Said, n)
    BY <2>1 DEF BInv, StableOK, WindowBacked
  <2> QED BY <2>1, <2>2, <2>3 DEF BackedIn
<1>2. Spec => []LInv
  BY FewFaultyPlausible, LocalInvariant
<1> QED BY <1>1, <1>2, CheckpointsBacked, PTL
=============================================================================
