---------------------------- MODULE StateTransfer ----------------------------
(***************************************************************************)
(* A replica that executes, rolls back, falls behind and fetches state,    *)
(* with the State object of module State, among replicas that go on.       *)
(* The agreed history is fixed: batch n writes the value n to Writes[n].   *)
(* The correct other replicas answer from one State object of their own,   *)
(* as it was when the fetch was sent or as it is when the answer arrives.  *)
(***************************************************************************)
EXTENDS State

CONSTANTS Faulty,       \* replicas that may answer anything
          MaxSeqno,     \* bound: length of the history
          Writes,       \* Writes[n]: the blocks that batch n writes
          Repliers,     \* values of the random choice of the first replier
          Tentative,    \* bound: batches that may wait between prepared and committed
          AltSeqnos,    \* where another batch may be executed tentatively
          CheckAt,      \* bound: where a check of the state may start, once
          Corrupted     \* blocks that may be corrupt when a check starts

ASSUME TransferAssumption ==
  /\ MaxSeqno \in Nat
  /\ Writes \in [1..MaxSeqno -> SUBSET Blocks]
  /\ AltSeqnos \subseteq Tentative /\ Tentative \subseteq 1..MaxSeqno
  /\ Repliers \subseteq Replicas
  /\ Faulty \subseteq Replicas \ {me} /\ Cardinality(Faulty) <= f

VARIABLES own,      \* the replica: State, last_executed, last_tentative_execute,
                    \* last_stable, and history variables
          other,    \* the others: State and last_stable
          asked     \* other when own sent its last fetch

vars == <<own, other, asked>>

-----------------------------------------------------------------------------
(* The state and the partition tree that the history determines.           *)

LastWrite(n, i) == Max({0} \cup {j \in 1..n : i \in Writes[j]})

RefMem(n) == [i \in Blocks |-> LastWrite(n, i)]

CheckpointOf(n) ==
  ((n + checkpoint_interval - 1) \div checkpoint_interval) * checkpoint_interval

RefTree(n) ==
  LET blk(i) == LET lm == CheckpointOf(LastWrite(n, i))
                IN  [lm |-> lm, d |-> Digest(i, lm, LastWrite(n, i))]
      tree[l \in Levels] ==
        IF l = Leaf THEN [i \in Blocks |-> blk(i)]
        ELSE [i \in Indices(l) |->
               LET kids == {tree[l + 1][j] : j \in {j \in Indices(l + 1) :
                              /\ ParentOf(<<l + 1, j>>) = <<l, i>>
                              /\ l + 1 = Leaf \/ tree[l + 1][j].d # NoDigest}}
                   lm == Max({0} \cup {p.lm : p \in kids})
               IN  [lm |-> lm, d |-> IF kids = {} THEN NoDigest
                                     ELSE Digest(i, lm, {p.d : p \in kids})]]
  IN  [k \in Nodes |-> tree[k[1]][k[2]]]

-----------------------------------------------------------------------------
Init ==
  /\ own = [st |-> NewState, le |-> 0, lte |-> 0, ls |-> 0,
            alt |-> FALSE, fetched |-> 0, checked |-> FALSE]
  /\ other = [st |-> NewState, ls |-> 0]
  /\ asked = other

Batch(s, n) == Write(s, Writes[n], n)

(* The others execute up to their next checkpoint.                         *)
OtherAdvance ==
  LET n == other.st.lc + checkpoint_interval
  IN  /\ n <= MaxSeqno /\ n <= other.ls + max_out
      /\ other' = [other EXCEPT
           !.st = checkpoint(FoldLeft(Batch, @, [j \in 1..checkpoint_interval |->
                                                   other.st.lc + j]), n)]
      /\ UNCHANGED <<own, asked>>

(* A checkpoint of the others becomes stable.                              *)
OtherStable ==
  \E n \in (other.ls + 1)..other.st.lc :
    /\ n % checkpoint_interval = 0
    /\ other' = [other EXCEPT !.ls = n, !.st = discard_checkpoint(@, n, other.st.lc)]
    /\ UNCHANGED <<own, asked>>

CanExecute(x) == ~x.st.fetching /\ ~x.st.checking

(* execute_prepared(): the batch is executed, and the checkpoint taken,    *)
(* before it has committed.  alt: a batch that another view replaces.      *)
execute_prepared(x, alt) ==
  LET n == x.le + 1
      done == IF alt THEN Write(x.st, Blocks, -n) ELSE Batch(x.st, n)
  IN  [x EXCEPT !.lte = n, !.alt = alt,
                !.st = IF n % checkpoint_interval = 0 THEN checkpoint(done, n) ELSE done]

ExecutePrepared ==
  \E alt \in BOOLEAN :
    /\ CanExecute(own) /\ own.lte < own.le + 1 /\ own.le < own.ls + max_out
    /\ own.le + 1 \in Tentative
    /\ alt => own.le + 1 \in AltSeqnos
    /\ own' = execute_prepared(own, alt)
    /\ UNCHANGED <<other, asked>>

(* execute_committed(), one batch.                                         *)
ExecuteCommitted ==
  /\ CanExecute(own) /\ own.ls <= own.le /\ own.le < own.ls + max_out
  /\ own.le + 1 \in DOMAIN Writes /\ ~own.alt
  /\ LET x == IF own.lte = own.le THEN execute_prepared(own, FALSE) ELSE own
     IN  own' = [x EXCEPT !.le = @ + 1]
  /\ UNCHANGED <<other, asked>>

(* The part of Replica::mark_stable() that reaches the State.              *)
mark_stable(x, n) ==
  IF n <= x.ls THEN x
  ELSE [x EXCEPT !.ls = n, !.st = discard_checkpoint(@, n, x.le)]

(* A checkpoint of the replica's own gets its certificate.                 *)
MarkStable ==
  \E n \in (own.ls + 1)..own.le :
    /\ n % checkpoint_interval = 0
    /\ own' = mark_stable(own, n)
    /\ UNCHANGED <<other, asked>>

RolledBack(x) ==
  IF x.lte <= x.le THEN x
  ELSE LET s == rollback(x.st)
       IN  [x EXCEPT !.st = s, !.le = s.lc, !.lte = s.lc, !.alt = FALSE]

(* send_view_change() with a tentative execution outstanding.              *)
SendViewChange ==
  /\ own.lte > own.le
  /\ own' = RolledBack(own)
  /\ UNCHANGED <<other, asked>>

(* handle(Checkpoint) with more than f stable checkpoints above the window.*)
FetchAny(x, r) == [x EXCEPT !.st = start_fetch(@, x.le, -1, NoDigest, r)]
FallBehind ==
  \E r \in Repliers :
    /\ other.ls > own.ls + max_out /\ ~own.st.fetching
    /\ own' = FetchAny(RolledBack(own), r)
    /\ asked' = other /\ UNCHANGED other

(* process_new_view(): ms is the stable checkpoint of the new view and min *)
(* the checkpoint it starts from.  send_view_change() came before.         *)
ProcessNewView ==
  \E ms \in 0..other.ls, min \in 0..other.st.lc, r \in Repliers :
    /\ ms % checkpoint_interval = 0 /\ min % checkpoint_interval = 0
    /\ ms <= min /\ min <= ms + max_out /\ own.le < min
    /\ own.lte = own.le /\ ~own.st.fetching
    /\ own' = [mark_stable(own, ms) EXCEPT
                 !.st = start_fetch(@, own.le, min, RefTree(min)[<<0, 0>>].d, r)]
    /\ asked' = other /\ UNCHANGED other

(* recover(): the tentative state is undone and the state is checked.      *)
Corrupt(s, B) == [s EXCEPT !.mem = [i \in Blocks |-> IF i \in B THEN -100 ELSE @[i]]]
CheckFrom(x, B, r) ==
  [x EXCEPT !.st = start_check(Corrupt(@, B), x.le, r), !.checked = TRUE]
StartCheck ==
  \E B \in SUBSET Corrupted, r \in Repliers :
    /\ CanExecute(own) /\ own.le \in CheckAt /\ ~own.checked
    /\ own' = CheckFrom(RolledBack(own), B, r)
    /\ asked' = other /\ UNCHANGED other

(* check_state(), called by the main loop before each message.             *)
CheckState ==
  /\ own.st.checking
  /\ own' = [own EXCEPT !.st = check_state(@)]
  /\ UNCHANGED <<other, asked>>

(* new_state(c); stable: more than f of the stored stable checkpoints are  *)
(* at or above c.                                                          *)
new_state(x, c, stable) ==
  LET y == IF c <= x.le THEN x
           ELSE [x EXCEPT !.le = c, !.lte = c]
      z == IF c > x.le /\ c > x.ls + max_out THEN mark_stable(y, c - max_out) ELSE y
  IN  IF stable THEN mark_stable(z, c) ELSE z

(* What arrives about the outstanding fetch: the answers of correct        *)
(* replicas, and values made up by faulty ones.                            *)
Bogus(fe) == Digest(fe.index, -2, IF fe.level = Leaf THEN -2 ELSE {})
FaultyAnswers(fe) ==
  {Meta_data_d(fe.level, fe.index, r, other.ls,
     [n \in {n \in other.ls..other.st.lc : n % checkpoint_interval = 0} |-> Bogus(fe)]) :
     r \in Faulty}
  \cup {Data(fe.index, 0, -2) : r \in IF fe.level = Leaf THEN Faulty ELSE {}}

Answers(fe) ==
  FaultyAnswers(fe) \cup
    UNION {handle_Fetch(o.st, o.ls, r, fe) : o \in {asked, other}, r \in Replicas \ {me}}

(* A handler of Replica passes the message to the State, and a fetch that  *)
(* ends calls new_state().                                                 *)
Handled(s, stable) ==
  /\ own' = IF s.fetching THEN [own EXCEPT !.st = s]
            ELSE [new_state([own EXCEPT !.st = s], s.lc, stable) EXCEPT !.fetched = s.lc]
  /\ stable => ~s.fetching /\ other.ls >= s.lc
  /\ asked' = IF s.asked # own.st.asked THEN other ELSE asked
  /\ UNCHANGED other

HandleAnswer ==
  /\ own.st.fetching
  /\ \E m \in Answers(own.st.asked), stable \in BOOLEAN : Handled(handle(own.st, m), stable)

(* send_status() after the retransmission interval.                        *)
RetransmitFetch ==
  /\ own.st.fetching
  /\ own' = [own EXCEPT !.st = send_fetch(@, TRUE)]
  /\ asked' = other /\ UNCHANGED other

(* send_new_key(): answers authenticated with old keys are dropped.        *)
NewKey ==
  /\ own.st.fetching
  /\ own' = [own EXCEPT !.st = mark_stale(@)]
  /\ UNCHANGED <<other, asked>>

Next ==
  \/ OtherAdvance \/ OtherStable
  \/ ExecutePrepared \/ ExecuteCommitted \/ MarkStable \/ SendViewChange
  \/ FallBehind \/ ProcessNewView \/ StartCheck \/ CheckState
  \/ HandleAnswer \/ RetransmitFetch \/ NewKey

Spec == Init /\ [][Next]_vars

-----------------------------------------------------------------------------
(* Properties                                                              *)

(* The shape of the objects: the fetch is at a level that has a stale      *)
(* partition, and the window and the counters are ordered.                 *)
TypeOK ==
  /\ own.st.flevel \in Levels /\ own.st.cowb \subseteq Blocks
  /\ own.st.fetching => own.st.stalep[own.st.flevel] # <<>>
  /\ own.st.mem \in [Blocks -> Int]
  /\ own.st.lc \in -1..MaxSeqno /\ own.le \in 0..own.lte /\ own.lte \in 0..MaxSeqno

(* The incremental sums: whatever mix of checkpoints and fetched parts     *)
(* updated the tree, stree holds the digests of exactly the children.      *)
SumsConsistent ==
  \A s \in {own.st, other.st}, p \in Inner :
    s.stree[p] = {s.ptree[k].d : k \in {k \in Nodes :
                    /\ k[1] = p[1] + 1 /\ ParentOf(k) = p
                    /\ k[1] = Leaf \/ s.ptree[k].d # NoDigest}}

(* Every block that has not been written since the last checkpoint has the *)
(* digest the tree records for it.                                         *)
TreeMatchesMemory ==
  Corrupted = {} =>
    \A i \in Blocks \ own.st.cowb : check_data(own.st, i)

(* A replica that is not fetching has the state of the history at          *)
(* last_executed, whether it executed, rolled back and executed again, or  *)
(* fetched while the others moved on.                                      *)
StateMatches ==
  (Corrupted = {} /\ ~own.st.fetching /\ own.lte = own.le) =>
    own.st.mem = RefMem(own.le)

(* The digest a replica has for a checkpoint it took or fetched is that of *)
(* the history: all correct replicas announce the same digest.             *)
CheckpointIsReference ==
  ~own.st.fetching =>
    \A n \in own.fetched..own.st.lc :
      n % checkpoint_interval = 0 /\ has_digest(own.st, n) =>
        digest(own.st, n) = RefTree(n)[<<0, 0>>].d

(* What a correct replica serves for a checkpoint it retains is that       *)
(* checkpoint, although it has executed further.                           *)
ServesCheckpoint ==
  \A s \in {own.st, other.st}, n \in 0..MaxSeqno :
    /\ ~s.fetching /\ n <= s.lc /\ n >= own.fetched
    /\ n % checkpoint_interval = 0 /\ has_digest(s, n)
    => /\ \A k \in Nodes : has_meta_data(s, n, k) /\ get_meta_data(s, n, k) = RefTree(n)[k]
       /\ \A i \in Blocks : has_data(s, n, i) /\ get_data(s, n, i) = RefMem(n)[i]

(* The assertions of State and of the checkpoint records hold, apart from  *)
(* two that fail in runs of correct replicas alone: checkpoint_record_log  *)
(* asserts a sequence number set beforehand although discard_checkpoint()  *)
(* checkpoints without setting one ("fetch_seqno"), and get_meta_data()    *)
(* asserts that it finds the partition in some record, which it may not    *)
(* for a checkpoint taken before the last fetch ("own_meta_data").         *)
OtherAssertionsHold ==
  own.st.failed \cup other.st.failed \subseteq {"fetch_seqno", "own_meta_data"}
=============================================================================
