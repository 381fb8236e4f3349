--------------------------- MODULE Requests_proofs ---------------------------
(***************************************************************************)
(* Proofs about module Requests: for every set of clients, every window    *)
(* and every sequence of requests, a replica executes the common order and *)
(* its committed replies are final, the timer watches exactly the pending  *)
(* requests of a backup, and the primary keeps no request it may propose.  *)
(*                                                                         *)
(* The loops over a batch are folds; Foundations says what they compute.   *)
(***************************************************************************)
EXTENDS Requests, SequenceTheorems, TLAPS

Reqs == [c : Clients, rid : Nat]
Reps == [rid : Nat, val : Nat]
Mems == [count : Nat, rep : [Clients -> Reps]]
Timers == {"stopped", "running", "expired"}
Queues == Seq(Clients)
Slots == [Clients -> Reqs]
Outs == [Clients -> [rid : Nat, v : Nat]]
Logs == [1..max_out -> Seq(Reqs)]
Marks == [Clients -> BOOLEAN]
Saids == SUBSET [c : Clients, rep : Reps]
Rows ==
  [v : Nat, nv : BOOLEAN, limbo : BOOLEAN, seqno : 0..max_out, le : Nat, lte : Nat,
   fetching : BOOLEAN, rqueue : Queues, ro : Queues, slot : Slots, out : Outs, vt : Timers,
   plog : Logs, mem : Mems, tent : Marks, said : Saids, lost : Nat]

(* The requests of a batch are of different clients. *)
IsBatch(b) == b \in Seq(Reqs) /\ \A i, j \in 1..Len(b) : b[i].c = b[j].c => i = j

OrderOK(ord) ==
  /\ ord \in Seq(Seq(Reqs)) /\ Len(ord) <= max_out
  /\ \A n \in 1..Len(ord) : IsBatch(ord[n])

Upto(ord, n) == Result(SubSeq(ord, 1, n))

(* What is said to be committed is a reply of the common order. *)
Final(ord, c, rep) == \E n \in 0..Len(ord) : Upto(ord, n).rep[c] = rep

-----------------------------------------------------------------------------
(* The invariant of a replica, in parts.  It holds between two messages,   *)
(* and but for Settled also at the calls inside a handler.                 *)

QueueOK(r) ==
  /\ IsInjective(r.rqueue) /\ IsInjective(r.ro)
  /\ \A c \in Clients : r.slot[c].c = c

Timed(r) ==
  r.nv => /\ r.vt # "expired" /\ ~r.limbo
          /\ r.rqueue = <<>> \/ is_primary(r) => r.vt = "stopped"

(* A primary has proposed what it executed and what it logged. *)
Logged(r) ==
  /\ \A n \in 1..max_out : IsBatch(r.plog[n])
  /\ r.nv /\ is_primary(r) =>
       r.le <= r.seqno /\ \A n \in 1..max_out : r.plog[n] # <<>> => n <= r.seqno

Counted(r, ord) ==
  /\ r.le <= Len(ord) /\ r.lte \in r.le..r.le + 1
  /\ r.lte > r.le => r.lte <= max_out /\ r.plog[r.lte] # <<>> /\ r.nv /\ ~r.fetching

Follows(r, ord) ==
  r.mem = Result(SubSeq(ord, 1, r.le) \o (IF r.lte > r.le THEN <<r.plog[r.lte]>> ELSE <<>>))

Honest(r, ord) ==
  /\ \A c \in Clients : ~r.tent[c] => Final(ord, c, r.mem.rep[c])
  /\ \A a \in r.said : Final(ord, a.c, a.rep)

Row(r, ord) ==
  /\ r \in Rows /\ QueueOK(r) /\ Timed(r) /\ Logged(r)
  /\ Counted(r, ord) /\ Follows(r, ord) /\ Honest(r, ord)

Watches(r) == r.rqueue # <<>> /\ can_execute(r) /\ ~is_primary(r) => r.vt = "running"
Buffers(r) ==
  congestion_window = 1 /\ is_primary(r) /\ r.nv /\ ~r.fetching /\ r.rqueue # <<>> =>
    r.seqno + 1 > r.le + congestion_window \/ r.seqno + 1 > max_out
Settled(r) == Watches(r) /\ Buffers(r)

IInv ==
  /\ Row(rp, order) /\ Settled(rp) /\ rp.said = {}
  /\ rp.v <= MaxView /\ rp.lost <= SLOTS
  /\ OrderOK(order) /\ sent \in [Clients -> Nat]
  /\ answers \subseteq [c : Clients, rep : Reps]
  /\ \A a \in answers : Final(order, a.c, a.rep)

-----------------------------------------------------------------------------
(* The loops. *)

memStep(k, m, q) == IF m.rep[q.c].rid >= q.rid THEN m ELSE execute(m, q)
memInv(k, i, m) == m \in Mems
MemLoop == INSTANCE Foundations WITH op <- memStep, inv <- memInv

flatStep(k, s, b) == s \o b
flatInv(k, i, s) == s \in Seq(Reqs)
FlatLoop == INSTANCE Foundations WITH op <- flatStep, inv <- flatInv

execStep(k, x, q) == execute_request(x, q, k.committed)
(* After i requests of k.b, executed from the state k.r: k.run are the     *)
(* states of the memory.                                                   *)
execInv(k, i, x) ==
  /\ x \in Rows
  /\ x = [k.r EXCEPT !.mem = x.mem, !.tent = x.tent, !.said = x.said]
  /\ x.mem = k.run[i]
  /\ \A c \in Clients : (\A j \in 1..i : k.b[j].c # c) => x.mem.rep[c] = k.r.mem.rep[c]
  /\ \A c \in Clients : ~x.tent[c] =>
       \/ ~k.r.tent[c] /\ x.mem.rep[c] = k.r.mem.rep[c]
       \/ k.committed
  /\ \A a \in x.said :
       \/ a \in k.r.said
       \/ ~k.r.tent[a.c] /\ a.rep = k.r.mem.rep[a.c]
       \/ k.committed /\ a.rep = x.mem.rep[a.c] /\ \E j \in 1..i : k.b[j].c = a.c
ExecLoop == INSTANCE Foundations WITH op <- execStep, inv <- execInv

commitStep(k, x, q) == commit_request(x, q)
(* What a loop of commit_request() leaves of k. *)
commitInv(k, i, x) ==
  /\ x \in Rows
  /\ x = [k EXCEPT !.tent = x.tent, !.rqueue = x.rqueue, !.vt = x.vt]
  /\ IsInjective(x.rqueue)
  /\ k.vt # "expired" => x.vt # "expired"
  /\ k.vt = "stopped" => x.vt = "stopped"
  /\ k.vt # "expired" /\ (k.rqueue = <<>> => k.vt = "stopped") =>
       (x.rqueue = <<>> => x.vt = "stopped")
CommitLoop == INSTANCE Foundations WITH op <- commitStep, inv <- commitInv

staleStep(k, x, c) == commit_request(x, Request(c, req_id(x, c)))
StaleLoop == INSTANCE Foundations WITH op <- staleStep, inv <- commitInv

batchStep(k, x, b) == commit_batch(x, b)
BatchLoop == INSTANCE Foundations WITH op <- batchStep, inv <- commitInv

memRun(m, b) == MemLoop!Fold(0, m, b)

(* What the batches leave in memory is a loop over the requests in them. *)
LEMMA ResultIsLoop ==
  ASSUME NEW bs
  PROVE  Result(bs) = MemLoop!Fold(0, NewMem, FlatLoop!Fold(0, <<>>, bs))
BY DEF Result, MemLoop!Fold, FlatLoop!Fold, memStep, flatStep, FoldLeft, MapThenFoldSet,
       MemLoop!MapThenFoldSet, MemLoop!Greatest,
       FlatLoop!MapThenFoldSet, FlatLoop!Greatest, Max

execAll(r, b, committed) == FoldLeft(LAMBDA x, q : execute_request(x, q, committed), r, b)

(* The execution of a batch is a loop ... *)
LEMMA ExecIsLoop ==
  ASSUME NEW r, NEW b, NEW k, NEW committed, k.committed = committed
  PROVE  execAll(r, b, committed) = ExecLoop!Fold(k, r, b)
BY DEF execAll, ExecLoop!Fold, execStep, FoldLeft, MapThenFoldSet,
       ExecLoop!MapThenFoldSet, ExecLoop!Greatest, Max

(* ... and so are the commitment of its requests ... *)
LEMMA CommitIsLoop ==
  ASSUME NEW r, NEW b, NEW k
  PROVE  FoldLeft(commit_request, r, b) = CommitLoop!Fold(k, r, b)
BY DEF CommitLoop!Fold, commitStep, FoldLeft, MapThenFoldSet,
       CommitLoop!MapThenFoldSet, CommitLoop!Greatest, Max

(* ... the removal of the requests executed elsewhere ... *)
LEMMA StaleIsLoop ==
  ASSUME NEW r, NEW b, NEW k
  PROVE  FoldLeft(LAMBDA x, c : commit_request(x, Request(c, req_id(x, c))), r, b)
           = StaleLoop!Fold(k, r, b)
BY DEF StaleLoop!Fold, staleStep, FoldLeft, MapThenFoldSet,
       StaleLoop!MapThenFoldSet, StaleLoop!Greatest, Max

(* ... and the commitment of batches. *)
LEMMA BatchIsLoop ==
  ASSUME NEW r, NEW bs
  PROVE  FoldLeft(commit_batch, r, bs) = BatchLoop!Fold(0, r, bs)
BY DEF BatchLoop!Fold, batchStep, FoldLeft, MapThenFoldSet,
       BatchLoop!MapThenFoldSet, BatchLoop!Greatest, Max

-----------------------------------------------------------------------------
(* The common order, executed. *)

(* The initial memory is a memory. *)
LEMMA NewMemType == NewMem \in Mems
BY DEF NewMem, Mems, Reps

(* A request leaves a memory. *)
LEMMA MemStepType ==
  ASSUME NEW m \in Mems, NEW q \in Reqs
  PROVE  memStep(0, m, q) \in Mems
BY DEF memStep, execute, Mems, Reps, Reqs

(* The requests of batches are requests. *)
LEMMA FlatType ==
  ASSUME NEW bs \in Seq(Seq(Reqs))
  PROVE  FlatLoop!Fold(0, <<>>, bs) \in Seq(Reqs)
<1>1. flatInv(0, 0, <<>>)
  BY DEF flatInv
<1>2. ASSUME NEW i, NEW s, i \in 1..Len(bs), flatInv(0, i - 1, s)
      PROVE  flatInv(0, i, flatStep(0, s, bs[i]))
  BY <1>2 DEF flatInv, flatStep
<1>3. flatInv(0, Len(bs), FlatLoop!Fold(0, <<>>, bs))
  BY <1>1, <1>2, FlatLoop!FoldKeeps
<1> QED BY <1>3 DEF flatInv

(* A batch leaves a memory. *)
LEMMA MemRunType ==
  ASSUME NEW m \in Mems, NEW b \in Seq(Reqs)
  PROVE  memRun(m, b) \in Mems
<1>1. memInv(0, 0, m)
  BY DEF memInv
<1>2. ASSUME NEW i, NEW s, i \in 1..Len(b), memInv(0, i - 1, s)
      PROVE  memInv(0, i, memStep(0, s, b[i]))
  <2>1. b[i] \in Reqs
    BY <1>2
  <2> QED BY <1>2, <2>1, MemStepType DEF memInv
<1>3. memInv(0, Len(b), MemLoop!Fold(0, m, b))
  BY <1>1, <1>2, MemLoop!FoldKeeps
<1> QED BY <1>3 DEF memInv, memRun

(* So do batches. *)
LEMMA ResultType ==
  ASSUME NEW bs \in Seq(Seq(Reqs))
  PROVE  Result(bs) \in Mems
BY FlatType, NewMemType, MemRunType, ResultIsLoop DEF memRun

(* No batches leave the initial memory. *)
LEMMA ResultEmpty == Result(<<>>) = NewMem
BY ResultIsLoop, FlatLoop!FoldEmpty, MemLoop!FoldEmpty

(* One batch more is executed on top of the others. *)
LEMMA ResultNext ==
  ASSUME NEW bs \in Seq(Seq(Reqs)), NEW b \in Seq(Reqs)
  PROVE  Result(Append(bs, b)) = memRun(Result(bs), b)
<1>1. PICK s : s = FlatLoop!Fold(0, <<>>, bs)
  OBVIOUS
<1>2. s \in Seq(Reqs)
  BY <1>1, FlatType
<1>3. FlatLoop!Fold(0, <<>>, Append(bs, b)) = s \o b
  <2>1. PICK S : S = Seq(Reqs)
    OBVIOUS
  <2>2. bs \in Seq(S) /\ b \in S
    BY <2>1
  <2>3. FlatLoop!Fold(0, <<>>, Append(bs, b)) = flatStep(0, s, b)
    BY <1>1, <2>2, FlatLoop!FoldAppend
  <2> QED BY <2>3 DEF flatStep
<1>4. Result(Append(bs, b)) = MemLoop!Fold(0, NewMem, s \o b)
  BY <1>3, ResultIsLoop, Zenon
<1>5. Result(bs) = MemLoop!Fold(0, NewMem, s)
  BY <1>1, ResultIsLoop
<1>6. MemLoop!Fold(0, NewMem, s \o b) = MemLoop!Fold(0, MemLoop!Fold(0, NewMem, s), b)
  BY <1>2, MemLoop!FoldConcat
<1> QED BY <1>4, <1>5, <1>6 DEF memRun

(* Concatenation with one element or none. *)
LEMMA ConcatLast ==
  ASSUME NEW S, NEW s \in Seq(S), NEW e \in S
  PROVE  s \o <<e>> = Append(s, e) /\ s \o <<>> = s
OBVIOUS

(* The memory after n batches of the order, batch by batch. *)
LEMMA UptoFacts ==
  ASSUME NEW ord, OrderOK(ord)
  PROVE  /\ Upto(ord, 0) = NewMem
         /\ \A n \in 0..Len(ord) : Upto(ord, n) \in Mems /\ SubSeq(ord, 1, n) \in Seq(Seq(Reqs))
         /\ \A n \in 1..Len(ord) :
              /\ Upto(ord, n) = memRun(Upto(ord, n - 1), ord[n])
              /\ SubSeq(ord, 1, n) = Append(SubSeq(ord, 1, n - 1), ord[n])
<1>1. ord \in Seq(Seq(Reqs)) /\ Len(ord) \in Nat
  BY DEF OrderOK
<1>2. SubSeq(ord, 1, 0) = <<>>
  BY <1>1
<1>3. ASSUME NEW n \in 0..Len(ord) PROVE SubSeq(ord, 1, n) \in Seq(Seq(Reqs))
  BY <1>1
<1>4. ASSUME NEW n \in 1..Len(ord)
      PROVE  /\ Upto(ord, n) = memRun(Upto(ord, n - 1), ord[n])
             /\ SubSeq(ord, 1, n) = Append(SubSeq(ord, 1, n - 1), ord[n])
  <2>1. /\ n - 1 \in 0..Len(ord) /\ ord[n] \in Seq(Reqs)
        /\ SubSeq(ord, 1, n) = Append(SubSeq(ord, 1, n - 1), ord[n])
    BY <1>1
  <2> QED BY <1>3, <2>1, ResultNext DEF Upto
<1> QED BY <1>2, <1>3, <1>4, ResultEmpty, ResultType DEF Upto

(* What the order gave it still gives when it has grown. *)
Extends(ord, new) ==
  /\ OrderOK(ord) /\ OrderOK(new) /\ Len(ord) <= Len(new)
  /\ \A n \in 1..Len(ord) : new[n] = ord[n]

(* A longer order leaves what the shorter one did up to its end. *)
LEMMA UptoExtended ==
  ASSUME NEW ord, NEW new, Extends(ord, new)
  PROVE  \A n \in 0..Len(ord) : SubSeq(new, 1, n) = SubSeq(ord, 1, n) /\ Upto(new, n) = Upto(ord, n)
<1>1. ord \in Seq(Seq(Reqs)) /\ new \in Seq(Seq(Reqs)) /\ Len(ord) \in Nat /\ Len(new) \in Nat
  BY DEF OrderOK, Extends
<1>2. ASSUME NEW n \in 0..Len(ord) PROVE SubSeq(new, 1, n) = SubSeq(ord, 1, n)
  BY <1>1 DEF Extends
<1> QED BY <1>2 DEF Upto

(* A final reply stays final when the order grows ... *)
LEMMA FinalExtended ==
  ASSUME NEW ord, NEW new, Extends(ord, new), NEW c, NEW rep, Final(ord, c, rep)
  PROVE  Final(new, c, rep)
<1>1. \A n \in 0..Len(ord) : n \in 0..Len(new)
  BY DEF Extends, OrderOK
<1> QED BY <1>1, UptoExtended DEF Final

(* ... and a replica keeps its invariant. *)
LEMMA RowExtended ==
  ASSUME NEW ord, NEW new, Extends(ord, new), NEW r, Row(r, ord)
  PROVE  Row(r, new)
<1>1. Counted(r, new)
  BY DEF Row, Counted, Extends, OrderOK, Rows, Queues, Slots, Logs, Marks, Saids
<1>2. SubSeq(new, 1, r.le) = SubSeq(ord, 1, r.le)
  BY UptoExtended DEF Row, Counted, Rows, Queues, Slots, Logs, Marks, Saids
<1>3. Follows(r, new)
  BY <1>2 DEF Row, Follows
<1>4. Honest(r, new)
  BY FinalExtended DEF Row, Honest
<1> QED BY <1>1, <1>3, <1>4 DEF Row

-----------------------------------------------------------------------------
(* The queues. *)

Without(p, i) == IF i < p THEN i ELSE i + 1

(* The positions of a sequence without one of them. *)
LEMMA WithoutFacts ==
  ASSUME NEW m \in Nat, NEW p \in 1..m
  PROVE  /\ \A i \in 1..(m - 1) : Without(p, i) \in 1..m /\ Without(p, i) # p
         /\ \A i, j \in 1..(m - 1) : Without(p, i) = Without(p, j) => i = j
         /\ m - 1 = 0 => p = 1
BY DEF Without

(* What is left behind the first p elements. *)
LEMMA RestFacts ==
  ASSUME NEW S, NEW s \in Seq(S), NEW p \in 0..Len(s)
  PROVE  /\ SubSeq(s, p + 1, Len(s)) \in Seq(S)
         /\ Len(SubSeq(s, p + 1, Len(s))) = Len(s) - p
         /\ \A i \in 1..(Len(s) - p) : SubSeq(s, p + 1, Len(s))[i] = s[p + i]
<1>1. PICK n \in Nat : n = Len(s)
  OBVIOUS
<1>2. PICK m \in Nat : m = p + 1 /\ m >= 1 /\ m <= n + 1
  BY <1>1
<1>3. \A i \in m..n : s[i] \in S
  BY <1>1, <1>2
<1>4. PICK u : u = SubSeq(s, m, n)
  OBVIOUS
<1>5. /\ u \in Seq(S) /\ Len(u) = IF m <= n THEN n - m + 1 ELSE 0
      /\ \A i \in 1..n - m + 1 : u[i] = s[m + i - 1]
  BY <1>3, <1>4, SubSeqProperties
<1>6. Len(u) = n - p /\ n - m + 1 = n - p
  BY <1>2, <1>5
<1>7. \A i \in 1..(n - p) : m + i - 1 = p + i
  BY <1>2
<1> QED BY <1>1, <1>2, <1>4, <1>5, <1>6, <1>7

(* Unlinking a client leaves a queue without it. *)
LEMMA UnlinkFacts ==
  ASSUME NEW s \in Seq(Clients), IsInjective(s), NEW c, Contains(s, c)
  PROVE  /\ unlink(s, c) \in Seq(Clients) /\ IsInjective(unlink(s, c))
         /\ ~Contains(unlink(s, c), c)
         /\ s # <<>> /\ (unlink(s, c) = <<>> => Head(s) = c)
<1>1. PICK p \in 1..Len(s) : s[p] = c
  BY DEF Contains
<1>2. DOMAIN s = 1..Len(s) /\ Len(s) \in Nat
  OBVIOUS
<1>3. \A i \in 1..Len(s) : s[i] = c => i = p
  BY <1>1, <1>2 DEF IsInjective
<1> DEFINE I == {i \in 1..Len(s) : s[i] = c}
<1>4. I = {p}
  BY <1>1, <1>3
<1>5. Min({p}) = p
  BY <1>1 DEF Min
<1>6. SelectInSeq(s, LAMBDA v : v = c) = p
  BY <1>4, <1>5, Zenon DEF SelectInSeq
<1>7. PICK u : u = SubSeq(s, 1, p - 1) \o SubSeq(s, p + 1, Len(s))
  OBVIOUS
<1>8. unlink(s, c) = u
  BY <1>6, <1>7, Zenon DEF unlink, RemoveFirst, RemoveAt, Contains
<1>19. PICK a : a = SubSeq(s, 1, p - 1)
  OBVIOUS
<1>20. PICK b : b = SubSeq(s, p + 1, Len(s))
  OBVIOUS
<1>21. p \in Int /\ 1 <= p /\ p <= Len(s)
  BY <1>1, <1>2
<1>22. a \in Seq(Clients) /\ Len(a) = p - 1 /\ \A i \in 1..(p - 1) : a[i] = s[i]
  BY <1>2, <1>19, <1>21
<1>23. b \in Seq(Clients) /\ Len(b) = Len(s) - p /\ \A i \in 1..(Len(s) - p) : b[i] = s[p + i]
  BY <1>20, <1>21, RestFacts
<1>24. u = a \o b
  BY <1>7, <1>19, <1>20
<1>9. u \in Seq(Clients) /\ Len(u) = Len(s) - 1
  <2>1. u \in Seq(Clients) /\ Len(u) = Len(a) + Len(b)
    BY <1>22, <1>23, <1>24, ConcatProperties, Zenon
  <2> QED BY <1>2, <1>21, <1>22, <1>23, <2>1
<1>10. ASSUME NEW i \in 1..Len(u) PROVE u[i] = s[Without(p, i)]
  <2>1. i \in Int /\ 1 <= i /\ i <= Len(s) - 1
    BY <1>2, <1>9
  <2>2. CASE i < p
    <3>1. i \in 1..(p - 1) /\ u[i] = a[i]
      BY <1>21, <1>22, <1>23, <1>24, <2>1, <2>2
    <3> QED BY <1>22, <2>2, <3>1 DEF Without
  <2>3. CASE ~(i < p)
    <3>1. i - (p - 1) \in 1..(Len(s) - p) /\ p + (i - (p - 1)) = i + 1 /\ u[i] = b[i - (p - 1)]
      BY <1>2, <1>21, <1>22, <1>23, <1>24, <2>1, <2>3
    <3> QED BY <1>23, <2>3, <3>1 DEF Without
  <2> QED BY <2>2, <2>3
<1>11. /\ \A i \in 1..Len(u) : Without(p, i) \in 1..Len(s) /\ Without(p, i) # p
       /\ \A i, j \in 1..Len(u) : Without(p, i) = Without(p, j) => i = j
  <2>1. PICK m \in Nat : m = Len(s)
    BY <1>2
  <2>2. p \in 1..m /\ Len(u) = m - 1
    BY <1>9, <2>1
  <2>3. /\ \A i \in 1..(m - 1) : Without(p, i) \in 1..m /\ Without(p, i) # p
        /\ \A i, j \in 1..(m - 1) : Without(p, i) = Without(p, j) => i = j
    BY <2>2, WithoutFacts, Zenon
  <2> QED BY <2>1, <2>2, <2>3, Zenon
<1>14. DOMAIN u = 1..Len(u)
  BY <1>9
<1>15. IsInjective(u)
  BY <1>2, <1>10, <1>11, <1>14 DEF IsInjective
<1>16. ~Contains(u, c)
  BY <1>3, <1>10, <1>11 DEF Contains
<1>17. ASSUME u = <<>> PROVE Head(s) = c
  <2>1. Len(u) = 0
    BY <1>17
  <2>2. p = 1
    BY <1>2, <1>9, <2>1, WithoutFacts
  <2>3. Head(s) = s[1]
    OBVIOUS
  <2> QED BY <1>1, <2>2, <2>3
<1>18. s # <<>>
  BY <1>1, <1>2
<1> QED BY <1>8, <1>9, <1>15, <1>16, <1>17, <1>18

(* remove() of the queue: the client is gone, or the queue is as it was. *)
LEMMA RemoveFacts ==
  ASSUME NEW s \in Seq(Clients), IsInjective(s), NEW slot, NEW c, NEW rid
  PROVE  /\ remove(s, slot, c, rid) \in Seq(Clients) /\ IsInjective(remove(s, slot, c, rid))
         /\ removes(s, slot, c, rid) => ~Contains(remove(s, slot, c, rid), c)
         /\ ~removes(s, slot, c, rid) => remove(s, slot, c, rid) = s
         /\ remove(s, slot, c, rid) = <<>> => s = <<>> \/ removes_first(s, slot, c, rid)
BY UnlinkFacts DEF remove, removes, removes_first, holds

(* append() of the queue: the client is in it once. *)
LEMMA AppendFacts ==
  ASSUME NEW s \in Seq(Clients), IsInjective(s), NEW slot \in [Clients -> Reqs], NEW q \in Reqs,
         appends(s, slot, q)
  PROVE  /\ append(s, slot, q) \in Seq(Clients) /\ IsInjective(append(s, slot, q))
         /\ append(s, slot, q) # <<>>
         /\ s = <<>> => append(s, slot, q) = <<q.c>>
<1>1. PICK u : u = remove(s, slot, q.c, q.rid)
  OBVIOUS
<1>2. q.c \in Clients /\ q.rid \in Nat /\ slot[q.c].rid \in Nat
  BY DEF Reqs
<1>3. u \in Seq(Clients) /\ IsInjective(u)
  BY <1>1, RemoveFacts
<1>4. ~Contains(u, q.c)
  BY <1>1, <1>2, RemoveFacts DEF appends, removes, holds
<1>5. append(s, slot, q) = Append(u, q.c)
  BY <1>1 DEF append
<1>6. \A i \in 1..Len(u) : u[i] # q.c
  BY <1>4 DEF Contains
<1>7. PICK w : w = Append(u, q.c)
  OBVIOUS
<1>8. w \in Seq(Clients) /\ Len(w) = Len(u) + 1 /\ w # <<>> /\ w[Len(u) + 1] = q.c
  BY <1>2, <1>3, <1>7
<1>9. \A i \in 1..Len(u) : w[i] = u[i]
  BY <1>2, <1>3, <1>7
<1>10. IsInjective(w)
  BY <1>3, <1>6, <1>8, <1>9 DEF IsInjective
<1>11. ASSUME s = <<>> PROVE w = <<q.c>>
  <2>1. ~Contains(s, q.c)
    BY <1>11 DEF Contains
  <2>2. u = <<>>
    BY <1>1, <1>11, <2>1 DEF remove, removes, holds
  <2> QED BY <1>7, <2>2
<1> QED BY <1>5, <1>7, <1>8, <1>10, <1>11

(* One committed request keeps the queue and the replies consistent ... *)
LEMMA CommitStep ==
  ASSUME NEW k \in Rows, NEW i, NEW j, NEW x, commitInv(k, i, x), NEW q \in Reqs
  PROVE  commitInv(k, j, commit_request(x, q))
<1>1. x \in Rows /\ q.c \in Clients
  BY DEF commitInv, Reqs
<1>2. PICK u : u = remove(x.rqueue, x.slot, q.c, q.rid)
  OBVIOUS
<1>3. PICK f \in BOOLEAN : f = removes_first(x.rqueue, x.slot, q.c, q.rid)
  BY DEF removes_first, removes
<1>4. /\ u \in Seq(Clients) /\ IsInjective(u)
      /\ u = <<>> => x.rqueue = <<>> \/ f
  BY <1>1, <1>2, <1>3, RemoveFacts DEF commitInv, Rows, Queues, Slots, Logs, Marks, Saids
<1>5. PICK y : y = commit_request(x, q)
  OBVIOUS
<1>6. y = [x EXCEPT !.tent = [x.tent EXCEPT ![q.c] = FALSE], !.rqueue = u,
                    !.vt = IF f THEN stop(x.vt) ELSE x.vt]
  BY <1>1, <1>2, <1>3, <1>5 DEF commit_request, commit_reply, Rows, Queues, Slots, Logs, Marks, Saids
<1>7. PICK t : t = [x.tent EXCEPT ![q.c] = FALSE]
  OBVIOUS
<1>8. PICK vt : vt = IF f THEN stop(x.vt) ELSE x.vt
  OBVIOUS
<1>9. t \in [Clients -> BOOLEAN] /\ x.vt \in Timers
  BY <1>1, <1>7 DEF Rows, Queues, Slots, Logs, Marks, Saids
<1>10. /\ vt \in Timers /\ (x.vt # "expired" => vt # "expired")
       /\ (x.vt = "stopped" => vt = "stopped") /\ (f /\ x.vt # "expired" => vt = "stopped")
  BY <1>8, <1>9 DEF Timers, stop
<1>11. y = [x EXCEPT !.tent = t, !.rqueue = u, !.vt = vt]
  BY <1>6, <1>7, <1>8
<1>12. y \in Rows /\ y.tent = t /\ y.rqueue = u /\ y.vt = vt
  BY <1>1, <1>4, <1>9, <1>10, <1>11 DEF Rows, Queues, Slots, Logs, Marks, Saids
<1>13. y = [k EXCEPT !.tent = y.tent, !.rqueue = y.rqueue, !.vt = y.vt]
  BY <1>11, <1>12 DEF commitInv, Rows, Queues, Slots, Logs, Marks, Saids
<1> QED BY <1>4, <1>5, <1>10, <1>12, <1>13 DEF commitInv

(* ... and so do all of a batch ... *)
LEMMA CommitLoopKeeps ==
  ASSUME NEW k \in Rows, IsInjective(k.rqueue), NEW b \in Seq(Reqs)
  PROVE  commitInv(k, Len(b), FoldLeft(commit_request, k, b))
<1>1. commitInv(k, 0, k)
  BY DEF commitInv, Rows, Queues, Slots, Logs, Marks, Saids
<1>2. ASSUME NEW i, NEW x, i \in 1..Len(b), commitInv(k, i - 1, x)
      PROVE  commitInv(k, i, commitStep(k, x, b[i]))
  <2>1. b[i] \in Reqs
    BY <1>2
  <2> QED BY <1>2, <2>1, CommitStep DEF commitStep
<1>3. commitInv(k, Len(b), CommitLoop!Fold(k, k, b))
  BY <1>1, <1>2, CommitLoop!FoldKeeps
<1> QED BY <1>3, CommitIsLoop

(* ... and the requests that a fetched state has executed. *)
LEMMA StaleLoopKeeps ==
  ASSUME NEW r \in Rows, IsInjective(r.rqueue)
  PROVE  \E k : /\ k = [r EXCEPT !.tent = [c \in Clients |-> FALSE]] /\ k \in Rows
                /\ commitInv(k, Len(r.rqueue), replies_new_state(r))
<1>1. PICK k : k = [r EXCEPT !.tent = [c \in Clients |-> FALSE]]
  OBVIOUS
<1>2. PICK s : s = r.rqueue
  OBVIOUS
<1>3. k \in Rows /\ k.rqueue = s /\ s \in Seq(Clients)
  BY <1>1, <1>2 DEF Rows, Queues, Slots, Logs, Marks, Saids
<1>4. commitInv(k, 0, k)
  BY <1>2, <1>3 DEF commitInv, Rows, Queues, Slots, Logs, Marks, Saids
<1>5. ASSUME NEW i, NEW x, i \in 1..Len(s), commitInv(k, i - 1, x)
      PROVE  commitInv(k, i, staleStep(k, x, s[i]))
  <2>1. s[i] \in Clients /\ x \in Rows
    BY <1>3, <1>5 DEF commitInv
  <2>2. Request(s[i], req_id(x, s[i])) \in Reqs
    BY <2>1 DEF Request, req_id, Rows, Queues, Slots, Logs, Marks, Saids, Mems, Reps, Reqs
  <2> QED BY <1>3, <1>5, <2>2, CommitStep DEF staleStep
<1>6. commitInv(k, Len(s), StaleLoop!Fold(k, k, s))
  BY <1>3, <1>4, <1>5, StaleLoop!FoldKeeps
<1>7. replies_new_state(r) = StaleLoop!Fold(k, k, s)
  BY <1>1, <1>2, StaleIsLoop DEF replies_new_state
<1> QED BY <1>1, <1>2, <1>3, <1>6, <1>7

-----------------------------------------------------------------------------
(* Executing a batch. *)

Replied(x, c, tentative, y) ==
  /\ y \in Rows /\ y = [x EXCEPT !.tent = y.tent, !.said = y.said] /\ y.mem = x.mem
  /\ \A d \in Clients : d # c => y.tent[d] = x.tent[d]
  /\ y.tent[c] <=> (x.tent[c] /\ tentative)
  /\ \A a \in y.said : a \in x.said \/ (a = [c |-> c, rep |-> x.mem.rep[c]] /\ ~y.tent[c])

(* What sending a reply records. *)
LEMMA SendReply ==
  ASSUME NEW x \in Rows, NEW c \in Clients, NEW tentative \in BOOLEAN
  PROVE  Replied(x, c, tentative, send_reply(x, c, tentative))
<1>1. PICK t \in BOOLEAN : t <=> x.tent[c] /\ tentative
  OBVIOUS
<1>2. PICK tt : tt = [x.tent EXCEPT ![c] = t]
  OBVIOUS
<1>3. PICK ss : ss = IF t THEN x.said ELSE x.said \cup {[c |-> c, rep |-> x.mem.rep[c]]}
  OBVIOUS
<1>4. PICK y : y = [x EXCEPT !.tent = tt, !.said = ss]
  OBVIOUS
<1>5. send_reply(x, c, tentative) = y
  <2>1. (x.tent[c] /\ tentative) = t
    BY <1>1
  <2> QED BY <1>2, <1>3, <1>4, <2>1 DEF send_reply, Rows, Queues, Slots, Logs, Marks, Saids
<1>6. /\ x.tent \in [Clients -> BOOLEAN] /\ x.said \subseteq [c : Clients, rep : Reps]
      /\ x.mem.rep[c] \in Reps
  BY DEF Rows, Queues, Slots, Logs, Marks, Saids, Mems
<1>7. tt \in [Clients -> BOOLEAN] /\ (\A d \in Clients : d # c => tt[d] = x.tent[d]) /\ tt[c] = t
  BY <1>2, <1>6
<1>8. [c |-> c, rep |-> x.mem.rep[c]] \in [c : Clients, rep : Reps]
  BY <1>6
<1>9. ss \subseteq [c : Clients, rep : Reps]
  BY <1>3, <1>6, <1>8
<1>10. y \in Rows /\ y.tent = tt /\ y.said = ss /\ y.mem = x.mem
  BY <1>4, <1>7, <1>9 DEF Rows, Queues, Slots, Logs, Marks, Saids
<1>11. y.tent[c] <=> (x.tent[c] /\ tentative)
  BY <1>1, <1>7, <1>10, Zenon
<1>12. \A a \in y.said : a \in x.said \/ (a = [c |-> c, rep |-> x.mem.rep[c]] /\ ~y.tent[c])
  BY <1>3, <1>7, <1>10, Zenon
<1>13. y = [x EXCEPT !.tent = y.tent, !.said = y.said]
  BY <1>4, <1>10
<1> QED BY <1>5, <1>7, <1>10, <1>11, <1>12, <1>13, Zenon DEF Replied

(* One executed request: memory and reply are those of the run of the batch *)
(* ...                                                                     *)
LEMMA ExecStep ==
  ASSUME NEW r \in Rows, NEW b, IsBatch(b), NEW cm \in BOOLEAN, NEW run,
         MemLoop!Run(0, r.mem, b, run), NEW i \in 1..Len(b), NEW x,
         NEW k, k = [r |-> r, b |-> b, committed |-> cm, run |-> run], execInv(k, i - 1, x)
  PROVE  execInv(k, i, execute_request(x, b[i], cm))
<1>1. k.r = r /\ k.b = b /\ k.committed = cm /\ k.run = run
  OBVIOUS
<1>2. PICK q : q = b[i]
  OBVIOUS
<1>3. q \in Reqs /\ q.c \in Clients /\ b \in Seq(Reqs) /\ i \in Nat
  <2>1. b \in Seq(Reqs)
    BY DEF IsBatch
  <2>2. q \in Reqs /\ i \in Nat
    BY <1>2, <2>1
  <2> QED BY <2>1, <2>2 DEF Reqs
<1>4. x \in Rows /\ x = [r EXCEPT !.mem = x.mem, !.tent = x.tent, !.said = x.said] /\ x.mem = run[i - 1]
  BY <1>1 DEF execInv
<1>5. run[i] = memStep(0, x.mem, q)
  BY <1>2, <1>4 DEF MemLoop!Run
<1>6. \A j \in 1..(i - 1) : b[j].c # q.c
  BY <1>2, <1>3 DEF IsBatch
<1>7. (\A j \in 1..(i - 1) : j \in 1..i) /\ i \in 1..i
  BY <1>3
<1>8. \A c \in Clients : (\A j \in 1..(i - 1) : b[j].c # c) => x.mem.rep[c] = r.mem.rep[c]
  BY <1>1 DEF execInv
<1>9. \A c \in Clients : ~x.tent[c] => (~r.tent[c] /\ x.mem.rep[c] = r.mem.rep[c]) \/ cm
  BY <1>1 DEF execInv
<1>10. \A a \in x.said :
         \/ a \in r.said
         \/ ~r.tent[a.c] /\ a.rep = r.mem.rep[a.c]
         \/ cm /\ a.rep = x.mem.rep[a.c] /\ \E j \in 1..(i - 1) : b[j].c = a.c
  BY <1>1 DEF execInv
<1>11. CASE x.mem.rep[q.c].rid >= q.rid
  <2>10. PICK y : y = send_reply(x, q.c, TRUE)
    OBVIOUS
  <2>11. Replied(x, q.c, TRUE, y)
    BY <1>3, <1>4, <2>10, SendReply
  <2>1. /\ y = send_reply(x, q.c, TRUE) /\ y \in Rows
        /\ y = [x EXCEPT !.tent = y.tent, !.said = y.said] /\ y.mem = x.mem
        /\ \A d \in Clients : d # q.c => y.tent[d] = x.tent[d]
        /\ y.tent[q.c] <=> x.tent[q.c]
        /\ \A a \in y.said :
             a \in x.said \/ (a = [c |-> q.c, rep |-> x.mem.rep[q.c]] /\ ~y.tent[q.c])
    BY <2>10, <2>11, Zenon DEF Replied
  <2>2. execute_request(x, q, cm) = y
    BY <1>11, <2>1 DEF execute_request, req_id
  <2>3. run[i] = x.mem
    BY <1>5, <1>11 DEF memStep
  <2>4. y = [r EXCEPT !.mem = y.mem, !.tent = y.tent, !.said = y.said]
    BY <1>4, <2>1 DEF Rows, Queues, Slots, Logs, Marks, Saids
  <2>5. \A c \in Clients : (\A j \in 1..i : b[j].c # c) => y.mem.rep[c] = r.mem.rep[c]
    BY <1>7, <1>8, <2>1
  <2>6. \A c \in Clients : ~y.tent[c] => (~r.tent[c] /\ y.mem.rep[c] = r.mem.rep[c]) \/ cm
    BY <1>9, <2>1
  <2>7. ASSUME NEW a \in y.said
        PROVE  \/ a \in r.said
               \/ ~r.tent[a.c] /\ a.rep = r.mem.rep[a.c]
               \/ cm /\ a.rep = y.mem.rep[a.c] /\ \E j \in 1..i : b[j].c = a.c
    <3>1. CASE a \in x.said
      BY <1>7, <1>10, <2>1, <3>1
    <3>2. CASE a = [c |-> q.c, rep |-> x.mem.rep[q.c]] /\ ~y.tent[q.c]
      <4>1. a.c = q.c /\ a.rep = x.mem.rep[q.c]
        BY <3>2
      <4> QED BY <1>2, <1>3, <1>7, <2>1, <2>6, <3>2, <4>1
    <3> QED BY <2>1, <3>1, <3>2
  <2>12. y.mem = run[i]
    BY <2>1, <2>3, Zenon
  <2>13. execInv(k, i, y)
    <3>1. \A a \in y.said :
            \/ a \in r.said
            \/ ~r.tent[a.c] /\ a.rep = r.mem.rep[a.c]
            \/ cm /\ a.rep = y.mem.rep[a.c] /\ \E j \in 1..i : b[j].c = a.c
      BY <2>7
    <3>2. y \in Rows
      BY <2>1, Zenon
    <3> QED BY <1>1, <2>12, <3>2, <2>4, <2>5, <2>6, <3>1 DEF execInv
  <2> QED BY <1>2, <2>2, <2>13, Zenon
<1>12. CASE ~(x.mem.rep[q.c].rid >= q.rid)
  <2>1. PICK m : m = execute(x.mem, q)
    OBVIOUS
  <2>2. m \in Mems /\ run[i] = m
    BY <1>3, <1>4, <1>5, <1>12, <2>1, MemStepType DEF memStep, Rows, Queues, Slots, Logs, Marks, Saids
  <2>3. \A c \in Clients : c # q.c => m.rep[c] = x.mem.rep[c]
    BY <1>3, <1>4, <2>1 DEF execute, Rows, Queues, Slots, Logs, Marks, Saids, Mems
  <2>4. PICK tt : tt = [x.tent EXCEPT ![q.c] = TRUE]
    OBVIOUS
  <2>5. tt \in [Clients -> BOOLEAN] /\ tt[q.c] = TRUE /\ \A d \in Clients : d # q.c => tt[d] = x.tent[d]
    BY <1>3, <1>4, <2>4 DEF Rows, Queues, Slots, Logs, Marks, Saids
  <2>6. PICK z : z = [x EXCEPT !.tent = tt, !.mem = m]
    OBVIOUS
  <2>7. z \in Rows /\ z.mem = m /\ z.tent = tt /\ z.said = x.said
    BY <1>4, <2>2, <2>5, <2>6 DEF Rows, Queues, Slots, Logs, Marks, Saids
  <2>8. [new_reply(x, q.c) EXCEPT !.mem = execute(@, q)] = z
    BY <1>4, <2>1, <2>4, <2>6 DEF new_reply, Rows, Queues, Slots, Logs, Marks, Saids
  <2>16. PICK y : y = send_reply(z, q.c, ~cm)
    OBVIOUS
  <2>17. Replied(z, q.c, ~cm, y)
    BY <1>3, <2>7, <2>16, SendReply
  <2>9. /\ y = send_reply(z, q.c, ~cm) /\ y \in Rows
        /\ y = [z EXCEPT !.tent = y.tent, !.said = y.said] /\ y.mem = z.mem
        /\ \A d \in Clients : d # q.c => y.tent[d] = z.tent[d]
        /\ y.tent[q.c] <=> (z.tent[q.c] /\ ~cm)
        /\ \A a \in y.said :
             a \in z.said \/ (a = [c |-> q.c, rep |-> z.mem.rep[q.c]] /\ ~y.tent[q.c])
    BY <2>16, <2>17, Zenon DEF Replied
  <2>10. execute_request(x, q, cm) = y
    BY <1>12, <2>8, <2>9 DEF execute_request, req_id
  <2>11. y = [r EXCEPT !.mem = y.mem, !.tent = y.tent, !.said = y.said]
    <3>1. PICK m1, t1, s1 : x = [r EXCEPT !.mem = m1, !.tent = t1, !.said = s1]
      BY <1>4
    <3>2. PICK t2, s2 : y.tent = t2 /\ y.said = s2
      OBVIOUS
    <3>3. y = [z EXCEPT !.tent = t2, !.said = s2] /\ y.mem = m
      BY <2>7, <2>9, <3>2
    <3>4. z = [r EXCEPT !.mem = m, !.tent = tt, !.said = s1]
      BY <2>6, <3>1 DEF Rows, Queues, Slots, Logs, Marks, Saids
    <3>5. y = [r EXCEPT !.mem = m, !.tent = t2, !.said = s2]
      BY <3>3, <3>4 DEF Rows, Queues, Slots, Logs, Marks, Saids
    <3> QED BY <3>2, <3>3, <3>5
  <2>12. \A c \in Clients : (\A j \in 1..i : b[j].c # c) => y.mem.rep[c] = r.mem.rep[c]
    BY <1>2, <1>7, <1>8, <2>3, <2>7, <2>9
  <2>13. y.tent[q.c] <=> ~cm
    BY <2>5, <2>7, <2>9
  <2>14. \A c \in Clients : ~y.tent[c] => (~r.tent[c] /\ y.mem.rep[c] = r.mem.rep[c]) \/ cm
    BY <1>9, <2>3, <2>5, <2>7, <2>9, <2>13
  <2>15. ASSUME NEW a \in y.said
         PROVE  \/ a \in r.said
                \/ ~r.tent[a.c] /\ a.rep = r.mem.rep[a.c]
                \/ cm /\ a.rep = y.mem.rep[a.c] /\ \E j \in 1..i : b[j].c = a.c
    <3>1. CASE a \in x.said
      <4>1. a.c \in Clients
        BY <1>4, <3>1 DEF Rows, Queues, Slots, Logs, Marks, Saids
      <4>2. ASSUME NEW j \in 1..(i - 1), b[j].c = a.c, a.rep = x.mem.rep[a.c]
            PROVE  a.rep = y.mem.rep[a.c]
        BY <1>6, <2>3, <2>7, <2>9, <4>1, <4>2
      <4> QED BY <1>7, <1>10, <3>1, <4>2
    <3>2. CASE a = [c |-> q.c, rep |-> m.rep[q.c]] /\ ~y.tent[q.c]
      <4>1. a.c = q.c /\ a.rep = m.rep[q.c]
        BY <3>2
      <4> QED BY <1>2, <1>7, <2>7, <2>9, <2>13, <3>2, <4>1
    <3> QED BY <2>7, <2>9, <3>1, <3>2
  <2> QED BY <1>1, <1>2, <2>2, <2>7, <2>9, <2>10, <2>11, <2>12, <2>14, <2>15 DEF execInv
<1> QED BY <1>11, <1>12

Executed(r, b, cm, x) ==
  /\ x \in Rows /\ x = [r EXCEPT !.mem = x.mem, !.tent = x.tent, !.said = x.said]
  /\ x.mem = memRun(r.mem, b)
  /\ \A c \in Clients : ~x.tent[c] => (~r.tent[c] /\ x.mem.rep[c] = r.mem.rep[c]) \/ cm
  /\ \A a \in x.said :
       \/ a \in r.said
       \/ ~r.tent[a.c] /\ a.rep = r.mem.rep[a.c]
       \/ cm /\ a.rep = x.mem.rep[a.c]

(* ... and so for all of the batch. *)
LEMMA ExecuteBatch ==
  ASSUME NEW r \in Rows, NEW b, IsBatch(b), NEW cm \in BOOLEAN
  PROVE  Executed(r, b, cm, execAll(r, b, cm))
<1>1. b \in Seq(Reqs) /\ Len(b) \in Nat
  BY DEF IsBatch
<1>2. PICK run : MemLoop!Run(0, r.mem, b, run) /\ MemLoop!Fold(0, r.mem, b) = run[Len(b)]
  BY <1>1, MemLoop!FoldRuns
<1>3. PICK k : k = [r |-> r, b |-> b, committed |-> cm, run |-> run]
  OBVIOUS
<1>4. k.r = r /\ k.b = b /\ k.committed = cm /\ k.run = run
  BY <1>3
<1>5. execInv(k, 0, r)
  <2>1. r = [r EXCEPT !.mem = r.mem, !.tent = r.tent, !.said = r.said]
    BY DEF Rows, Queues, Slots, Logs, Marks, Saids
  <2>2. r.mem = run[0]
    BY <1>2 DEF MemLoop!Run
  <2> QED BY <1>4, <2>1, <2>2 DEF execInv
<1>6. ASSUME NEW i, NEW x, i \in 1..Len(b), execInv(k, i - 1, x)
      PROVE  execInv(k, i, execStep(k, x, b[i]))
  BY <1>2, <1>3, <1>4, <1>6, ExecStep DEF execStep
<1>7. PICK y : y = ExecLoop!Fold(k, r, b)
  OBVIOUS
<1>8. execInv(k, Len(b), y)
  BY <1>1, <1>5, <1>6, <1>7, ExecLoop!FoldKeeps
<1>9. Executed(r, b, cm, y)
  BY <1>2, <1>4, <1>8 DEF execInv, Executed, memRun
<1> QED BY <1>4, <1>7, <1>9, ExecIsLoop

(* The fields that execution and proposals do not touch. *)
Same(r, x) ==
  /\ x \in Rows /\ x.v = r.v /\ x.nv = r.nv /\ x.limbo = r.limbo /\ x.fetching = r.fetching
  /\ x.lost = r.lost

(* The state x of a replica that executed b after le, tentatively or not. *)
Ran(r, ord, b, cm, x) ==
  /\ Same(r, x) /\ x.le = r.le /\ x.lte = r.le + 1 /\ x.seqno = r.seqno
  /\ x.plog = [r.plog EXCEPT ![r.le + 1] = b]
  /\ x.rqueue = r.rqueue /\ x.ro = r.ro /\ x.slot = r.slot /\ x.vt = r.vt
  /\ r.le + 1 \in 1..max_out /\ r.le \in Nat
  /\ x.mem = Result(SubSeq(ord, 1, r.le) \o <<b>>)
  /\ ~cm => Honest(x, ord)
  /\ \A a \in x.said : Final(ord, a.c, a.rep) \/ a.rep = x.mem.rep[a.c]

(* execute_prepared() keeps the invariant of the replica. *)
LEMMA ExecutePrepared ==
  ASSUME NEW r, NEW ord, OrderOK(ord), Row(r, ord), NEW b, IsBatch(b), NEW cm \in BOOLEAN,
         r.lte = r.le, can_execute(r), NEW x, x = execute_prepared(r, b, cm)
  PROVE  Ran(r, ord, b, cm, x)
<1>1. r \in Rows /\ r.le \in Nat /\ r.le <= Len(ord) /\ b \in Seq(Reqs) /\ ~(r.lte > r.le)
  BY DEF Row, Rows, Queues, Slots, Logs, Marks, Saids, Counted, IsBatch
<1>2. r.le + 1 \in 1..max_out
  BY <1>1, SizesAssumption DEF can_execute
<1>3. PICK pl : pl = [r.plog EXCEPT ![r.le + 1] = b]
  OBVIOUS
<1>4. pl \in Logs /\ r \in Rows /\ r.le + 1 \in Nat
  <2>1. r.plog \in Logs
    BY <1>1 DEF Rows
  <2>2. pl \in Logs
    BY <1>1, <1>3, <2>1 DEF Logs
  <2> QED BY <1>1, <2>2
<1>5. PICK y : y = [r EXCEPT !.lte = r.le + 1, !.plog = pl]
  OBVIOUS
<1>6. /\ y \in Rows /\ y.v = r.v /\ y.nv = r.nv /\ y.limbo = r.limbo /\ y.fetching = r.fetching
      /\ y.lost = r.lost /\ y.le = r.le /\ y.lte = r.le + 1 /\ y.seqno = r.seqno /\ y.plog = pl
      /\ y.rqueue = r.rqueue /\ y.ro = r.ro /\ y.slot = r.slot /\ y.vt = r.vt
      /\ y.mem = r.mem /\ y.tent = r.tent /\ y.said = r.said
  BY <1>4, <1>5 DEF Rows
<1>7. x = execAll(y, b, cm)
  <2>1. [r EXCEPT !.lte = r.le + 1, !.plog[r.le + 1] = b] = y
    BY <1>1, <1>3, <1>5 DEF Rows, Queues, Slots, Logs, Marks, Saids
  <2> QED BY <1>1, <2>1 DEF execute_prepared, execAll
<1>8. Executed(y, b, cm, x)
  BY <1>6, <1>7, ExecuteBatch
<1>9. /\ x \in Rows /\ x.v = y.v /\ x.nv = y.nv /\ x.limbo = y.limbo /\ x.fetching = y.fetching
      /\ x.lost = y.lost /\ x.le = y.le /\ x.lte = y.lte /\ x.seqno = y.seqno /\ x.plog = y.plog
      /\ x.rqueue = y.rqueue /\ x.ro = y.ro /\ x.slot = y.slot /\ x.vt = y.vt
  <2>3. x = [y EXCEPT !.mem = x.mem, !.tent = x.tent, !.said = x.said]
    BY <1>8 DEF Executed
  <2>4. PICK m, t, s : m = x.mem /\ t = x.tent /\ s = x.said
    OBVIOUS
  <2>1. x = [y EXCEPT !.mem = m, !.tent = t, !.said = s]
    BY <2>3, <2>4, Zenon
  <2>2. x \in Rows /\ y \in Rows
    BY <1>6, <1>8 DEF Executed
  <2> QED BY <2>1, <2>2 DEF Rows
<1>10. x.mem = Result(SubSeq(ord, 1, r.le) \o <<b>>)
  <2>1. PICK s : s = SubSeq(ord, 1, r.le)
    OBVIOUS
  <2>2. s \in Seq(Seq(Reqs))
    BY <1>1, <2>1, UptoFacts
  <2>3. s \o <<b>> = Append(s, b) /\ s \o <<>> = s
    BY <1>1, <2>2, ConcatLast
  <2>4. r.mem = Result(s)
    BY <1>1, <2>1, <2>3 DEF Row, Follows
  <2>5. x.mem = memRun(r.mem, b)
    BY <1>6, <1>8 DEF Executed
  <2> QED BY <1>1, <2>1, <2>2, <2>3, <2>4, <2>5, ResultNext
<1>11. \A a \in x.said : Final(ord, a.c, a.rep) \/ a.rep = x.mem.rep[a.c]
  <2>1. \A a \in x.said : a.c \in Clients
    BY <1>9 DEF Rows, Queues, Slots, Logs, Marks, Saids
  <2> QED BY <1>6, <1>8, <2>1 DEF Executed, Row, Honest
<1>12. ASSUME ~cm PROVE Honest(x, ord)
  <2>1. \A a \in x.said : a.c \in Clients
    BY <1>9 DEF Rows, Queues, Slots, Logs, Marks, Saids
  <2> QED BY <1>6, <1>8, <1>12, <2>1 DEF Executed, Row, Honest
<1>13. Same(r, x)
  BY <1>6, <1>9 DEF Same
<1> QED BY <1>1, <1>2, <1>3, <1>6, <1>9, <1>10, <1>11, <1>12, <1>13 DEF Ran

(* What committing requests leaves alone. *)
LEMMA CommitFields ==
  ASSUME NEW k \in Rows, NEW i, NEW x, commitInv(k, i, x)
  PROVE  /\ Same(k, x) /\ x.le = k.le /\ x.lte = k.lte /\ x.seqno = k.seqno /\ x.plog = k.plog
         /\ x.ro = k.ro /\ x.slot = k.slot /\ x.mem = k.mem /\ x.said = k.said
<1>1. x \in Rows
  BY DEF commitInv
<1>2. x = [k EXCEPT !.tent = x.tent, !.rqueue = x.rqueue, !.vt = x.vt]
  BY DEF commitInv
<1>3. PICK t, q, vt : t = x.tent /\ q = x.rqueue /\ vt = x.vt
  OBVIOUS
<1>4. x = [k EXCEPT !.tent = t, !.rqueue = q, !.vt = vt]
  BY <1>2, <1>3, Zenon
<1> QED BY <1>1, <1>4 DEF Rows, Same

(* The empty queue has no client twice. *)
LEMMA EmptyInjective == IsInjective(<<>>)
BY DEF IsInjective

(* b, logged or not, may be executed at last_executed + 1. *)
Fits(r, b) ==
  /\ IsBatch(b) /\ b # <<>>
  /\ r.plog[r.le + 1] \in {<<>>, b}
  /\ is_primary(r) => r.plog[r.le + 1] = b

(* x is r with b logged for the next number, and perhaps executed. *)
Takes(r, b, x) ==
  /\ Logged(r) /\ r \in Rows /\ Same(r, x) /\ Fits(r, b) /\ r.le + 1 \in 1..max_out
  /\ x.plog = [r.plog EXCEPT ![r.le + 1] = b] /\ x.seqno = r.seqno
  /\ x.le \in {r.le, r.le + 1}

(* The batch taken for the next sequence number is logged. *)
LEMMA LoggedNext ==
  ASSUME NEW r, NEW b, NEW x, Takes(r, b, x)
  PROVE  Logged(x) /\ x.plog[r.le + 1] = b
<1> USE DEF Takes
<1>1. r.plog \in Logs /\ r.le \in Nat /\ r.seqno \in Nat
  BY SizesAssumption DEF Rows
<1>2. x.plog[r.le + 1] = b /\ \A n \in 1..max_out : n # r.le + 1 => x.plog[n] = r.plog[n]
  BY <1>1 DEF Logs
<1>3. \A n \in 1..max_out : IsBatch(x.plog[n])
  BY <1>2 DEF Fits, Logged
<1>4. x.nv = r.nv /\ (is_primary(x) <=> is_primary(r))
  BY DEF Same, is_primary
<1>5. ASSUME x.nv, is_primary(x)
      PROVE  x.le <= x.seqno /\ \A n \in 1..max_out : x.plog[n] # <<>> => n <= x.seqno
  <2>1. r.plog[r.le + 1] = b /\ b # <<>>
    BY <1>4, <1>5 DEF Fits
  <2>2. r.le + 1 <= r.seqno /\ \A n \in 1..max_out : r.plog[n] # <<>> => n <= r.seqno
    BY <1>4, <1>5, <2>1 DEF Logged
  <2> QED BY <1>1, <1>2, <2>1, <2>2
<1> QED BY <1>2, <1>3, <1>5 DEF Logged

(* execute_prepared(false) *)
LEMMA PreparedKeeps ==
  ASSUME NEW r, NEW ord, OrderOK(ord), Row(r, ord), NEW b, Fits(r, b),
         r.lte = r.le, can_execute(r), Settled(r), NEW x, x = execute_prepared(r, b, FALSE)
  PROVE  Row(x, ord) /\ Settled(x) /\ Same(r, x)
<1>1. /\ Same(r, x) /\ x.le = r.le /\ x.lte = r.le + 1 /\ x.seqno = r.seqno
      /\ x.plog = [r.plog EXCEPT ![r.le + 1] = b]
      /\ x.rqueue = r.rqueue /\ x.ro = r.ro /\ x.slot = r.slot /\ x.vt = r.vt
      /\ r.le + 1 \in 1..max_out /\ r.le \in Nat
      /\ x.mem = Result(SubSeq(ord, 1, r.le) \o <<b>>)
      /\ Honest(x, ord)
  <2>1. IsBatch(b)
    BY DEF Fits
  <2>2. Ran(r, ord, b, FALSE, x)
    BY <2>1, ExecutePrepared
  <2> QED BY <2>2 DEF Ran
<1>2. /\ x \in Rows /\ r \in Rows /\ x.v = r.v /\ x.nv = r.nv /\ x.limbo = r.limbo
      /\ x.fetching = r.fetching
  BY <1>1 DEF Same, Row
<1>3. Logged(x) /\ x.plog[r.le + 1] = b
  <2>1. Logged(r)
    BY DEF Row
  <2>2. Takes(r, b, x)
    BY <1>1, <1>2, <2>1 DEF Takes
  <2> QED BY <2>2, LoggedNext
<1>4. QueueOK(x)
  BY <1>1 DEF Row, QueueOK
<1>5. Timed(x)
  BY <1>1, <1>2 DEF Row, Timed, is_primary
<1>6. r.le <= Len(ord) /\ r.nv /\ ~r.fetching /\ b # <<>>
  BY DEF Row, Counted, can_execute, Fits
<1>10. PICK n \in Nat : n = r.le
  BY <1>1
<1>11. n + 1 <= max_out /\ n + 1 \in n..n + 1 /\ n + 1 > n
  BY <1>1, <1>10, SizesAssumption
<1>7. Counted(x, ord)
  BY <1>1, <1>2, <1>3, <1>6, <1>10, <1>11 DEF Counted
<1>8. Follows(x, ord)
  <2>1. x.lte > x.le /\ x.plog[x.lte] = b
    BY <1>1, <1>3, <1>10, <1>11
  <2> QED BY <1>1, <2>1 DEF Follows
<1>9. Settled(x)
  BY <1>1, <1>2 DEF Settled, Watches, Buffers, can_execute, is_primary
<1> QED BY <1>1, <1>2, <1>3, <1>4, <1>5, <1>7, <1>8, <1>9 DEF Row

(* One iteration of execute_committed(). *)
LEMMA CommitBatch ==
  ASSUME NEW r, NEW ord, OrderOK(ord), Row(r, ord), NEW b, Fits(r, b), can_execute(r),
         r.le + 1 <= Len(ord), ord[r.le + 1] = b, NEW z, z = commit_batch(r, b)
  PROVE  /\ Row(z, ord) /\ Same(r, z) /\ z.le = r.le + 1 /\ z.lte = z.le /\ z.seqno = r.seqno
         /\ z.plog = [r.plog EXCEPT ![r.le + 1] = b]
<1> DEFINE n == r.le + 1
<1>1. r \in Rows /\ r.le \in Nat /\ n \in 1..max_out /\ n \in 1..Len(ord) /\ b \in Seq(Reqs)
  BY SizesAssumption DEF Row, Rows, can_execute, Fits, IsBatch, OrderOK
<1>2. PICK s : s = SubSeq(ord, 1, r.le)
  OBVIOUS
<1>3. s \in Seq(Seq(Reqs)) /\ SubSeq(ord, 1, n) = Append(s, b)
  <2>1. n - 1 = r.le /\ r.le \in 0..Len(ord)
    BY <1>1
  <2> QED BY <1>1, <1>2, <2>1, UptoFacts
<1>4. s \o <<b>> = SubSeq(ord, 1, n)
  BY <1>1, <1>3, ConcatLast
<1>5. PICK x : x = execute_prepared(r, b, TRUE)
  OBVIOUS
<1>6. /\ Same(r, x) /\ x.le = r.le /\ x.lte = n /\ x.seqno = r.seqno
      /\ x.plog = [r.plog EXCEPT ![n] = b]
      /\ x.rqueue = r.rqueue /\ x.ro = r.ro /\ x.slot = r.slot /\ x.vt = r.vt
      /\ x.mem = Upto(ord, n)
      /\ \A a \in x.said : Final(ord, a.c, a.rep) \/ a.rep = x.mem.rep[a.c]
  <2>1. CASE r.lte = r.le
    <3>1. IsBatch(b)
      BY DEF Fits
    <3>2. Ran(r, ord, b, TRUE, x)
      BY <1>5, <2>1, <3>1, ExecutePrepared
    <3> QED BY <1>2, <1>4, <3>2 DEF Ran, Upto
  <2>2. CASE r.lte # r.le
    <3>1. r.lte = n /\ r.lte > r.le /\ r.plog[n] # <<>>
      BY <1>1, <2>2 DEF Row, Counted
    <3>2. r.plog[n] = b
      BY <3>1 DEF Fits
    <3>3. r.plog \in Logs
      BY <1>1 DEF Rows
    <3>4. r.plog = [r.plog EXCEPT ![n] = b]
      BY <1>1, <3>2, <3>3 DEF Logs
    <3>5. x = r
      BY <1>5, <3>1 DEF execute_prepared
    <3>6. r.mem = Result(s \o <<r.plog[r.lte]>>)
      BY <1>2, <3>1 DEF Row, Follows
    <3>7. r.mem = Upto(ord, n)
      BY <1>4, <3>1, <3>2, <3>6 DEF Upto
    <3> QED BY <1>1, <3>1, <3>4, <3>5, <3>7 DEF Same, Row, Honest
  <2> QED BY <2>1, <2>2
<1>7. x \in Rows /\ x.v = r.v /\ x.nv = r.nv /\ x.limbo = r.limbo /\ x.fetching = r.fetching
      /\ x.lost = r.lost
  BY <1>6 DEF Same
<1>8. PICK y : y = [x EXCEPT !.le = n, !.ro = <<>>]
  OBVIOUS
<1>9. y = drain_ro([x EXCEPT !.le = @ + 1])
  BY <1>6, <1>7, <1>8 DEF drain_ro, Rows
<1>10. /\ y \in Rows /\ y.le = n /\ y.ro = <<>> /\ y.v = x.v /\ y.nv = x.nv /\ y.limbo = x.limbo
       /\ y.fetching = x.fetching /\ y.lost = x.lost /\ y.lte = x.lte /\ y.seqno = x.seqno
       /\ y.plog = x.plog /\ y.rqueue = x.rqueue /\ y.slot = x.slot /\ y.vt = x.vt
       /\ y.mem = x.mem /\ y.said = x.said
  <2>1. <<>> \in Queues /\ n \in Nat
    BY <1>1 DEF Queues
  <2> HIDE DEF n
  <2> QED BY <1>7, <1>8, <2>1 DEF Rows
<1>11. commitInv(y, Len(b), z)
  <2>1. IsInjective(y.rqueue)
    BY <1>6, <1>10 DEF Row, QueueOK
  <2> QED BY <1>1, <1>5, <1>9, <1>10, <2>1, CommitLoopKeeps DEF commit_batch
<1>12. /\ Same(y, z) /\ z.le = n /\ z.lte = n /\ z.seqno = r.seqno /\ z.plog = x.plog
       /\ z.ro = <<>> /\ z.slot = r.slot /\ z.mem = x.mem /\ z.said = x.said
  BY <1>6, <1>10, <1>11, CommitFields
<1>13. /\ z \in Rows /\ z.v = r.v /\ z.nv = r.nv /\ z.limbo = r.limbo
       /\ z.fetching = r.fetching /\ z.lost = r.lost
  BY <1>7, <1>10, <1>12 DEF Same
<1>14. Same(r, z)
  BY <1>13 DEF Same
<1>15. Logged(z)
  <2>1. Takes(r, b, z)
    BY <1>1, <1>6, <1>12, <1>14 DEF Takes, Row
  <2> QED BY <2>1, LoggedNext
<1>16. QueueOK(z)
  BY <1>11, <1>12, EmptyInjective DEF Row, QueueOK, commitInv
<1>17. Timed(z)
  BY <1>6, <1>10, <1>11, <1>13 DEF Row, Timed, is_primary, commitInv
<1>18. Counted(z, ord)
  BY <1>1, <1>12 DEF Counted
<1>19. Follows(z, ord)
  <2>1. SubSeq(ord, 1, n) \o <<>> = SubSeq(ord, 1, n)
    BY <1>1, <1>3, ConcatLast
  <2>2. ~(z.lte > z.le)
    BY <1>1, <1>12
  <2> QED BY <1>1, <1>6, <1>12, <2>1, <2>2 DEF Follows, Upto
<1>20. Honest(z, ord)
  BY <1>1, <1>6, <1>12 DEF Honest, Final
<1> QED BY <1>6, <1>12, <1>13, <1>14, <1>15, <1>16, <1>17, <1>18, <1>19, <1>20 DEF Row

-----------------------------------------------------------------------------
(* Proposing. *)

(* What the primary proposes is a batch from the front of the queue. *)
LEMMA FillFacts ==
  ASSUME NEW r \in Rows, QueueOK(r), r.rqueue # <<>>
  PROVE  IsBatch(fill(r)) /\ Len(fill(r)) \in 1..Len(r.rqueue) /\ fill(r) # <<>>
<1>1. PICK s : s = r.rqueue
  OBVIOUS
<1>2. s \in Seq(Clients) /\ r.slot \in [Clients -> Reqs] /\ s # <<>> /\ IsInjective(s)
  BY <1>1 DEF Rows, Queues, Slots, QueueOK
<1>3. Len(s) \in Nat /\ Len(s) >= 1 /\ DOMAIN s = 1..Len(s) /\ \A i \in 1..Len(s) : s[i] \in Clients
  BY <1>2
<1>4. PICK n : n = IF Len(s) < MaxBatch THEN Len(s) ELSE MaxBatch
  OBVIOUS
<1>5. n \in 1..Len(s)
  BY <1>3, <1>4, SizesAssumption
<1>6. PICK q : q = [i \in 1..Len(s) |-> r.slot[s[i]]]
  OBVIOUS
<1>7. \A i \in 1..Len(s) : q[i] = r.slot[s[i]] /\ q[i] \in Reqs /\ q[i].c = s[i]
  BY <1>2, <1>3, <1>6 DEF QueueOK
<1>8. PICK f : f = SubSeq(q, 1, n)
  OBVIOUS
<1>9. fill(r) = f
  BY <1>1, <1>3, <1>4, <1>6, <1>8, Zenon DEF fill, requests
<1>10. \A i \in 1..n : i \in 1..Len(s) /\ q[i] \in Reqs
  BY <1>3, <1>5, <1>7
<1>11. f \in Seq(Reqs) /\ Len(f) = n /\ \A i \in 1..n : f[i] = q[i]
  <2>1. 1 \in Int /\ n \in Int /\ 1 <= n /\ n - 1 + 1 = n /\ \A i \in 1..n : 1 + i - 1 = i
    BY <1>5
  <2>2. /\ f \in Seq(Reqs) /\ Len(f) = IF 1 <= n THEN n - 1 + 1 ELSE 0
        /\ \A i \in 1..n - 1 + 1 : f[i] = q[1 + i - 1]
    BY <1>8, <1>10, <2>1, SubSeqProperties
  <2> QED BY <2>1, <2>2
<1>12. \A i, j \in 1..n : f[i].c = f[j].c => i = j
  <2> SUFFICES ASSUME NEW i \in 1..n, NEW j \in 1..n, f[i].c = f[j].c PROVE i = j
    OBVIOUS
  <2>1. i \in 1..Len(s) /\ j \in 1..Len(s) /\ s[i] = s[j]
    BY <1>7, <1>10, <1>11
  <2> QED BY <1>2, <1>3, <2>1 DEF IsInjective
<1>13. Len(f) >= 1
  BY <1>5, <1>11
<1> QED BY <1>1, <1>5, <1>9, <1>11, <1>12, <1>13 DEF IsBatch

(* The rest of the queue has no client twice. *)
LEMMA RestInjective ==
  ASSUME NEW s \in Seq(Clients), IsInjective(s), NEW p \in 0..Len(s)
  PROVE  SubSeq(s, p + 1, Len(s)) \in Seq(Clients) /\ IsInjective(SubSeq(s, p + 1, Len(s)))
<1>1. PICK u : u = SubSeq(s, p + 1, Len(s))
  OBVIOUS
<1>2. u \in Seq(Clients) /\ Len(u) = Len(s) - p /\ \A i \in 1..(Len(s) - p) : u[i] = s[p + i]
  BY <1>1, RestFacts
<1>3. DOMAIN u = 1..(Len(s) - p) /\ DOMAIN s = 1..Len(s)
  BY <1>2
<1>4. PICK m \in Nat : m = Len(s)
  OBVIOUS
<1>5. \A i \in 1..(m - p) : p + i \in 1..m
  BY <1>4
<1>6. \A i, j \in 1..(m - p) : p + i = p + j => i = j
  BY <1>4
<1>7. IsInjective(u)
  BY <1>2, <1>3, <1>4, <1>5, <1>6 DEF IsInjective
<1> QED BY <1>1, <1>2, <1>7

(* send_pre_prepare() keeps the invariant of the replica. *)
LEMMA Propose ==
  ASSUME NEW r, NEW ord, OrderOK(ord), Row(r, ord), is_primary(r), NEW x, x = send_pre_prepare(r)
  PROVE  Row(x, ord) /\ Settled(x) /\ Same(r, x)
<1>1. r \in Rows /\ r.seqno \in Nat /\ r.le \in Nat /\ r.lte \in Nat
  BY SizesAssumption DEF Row, Rows
<1>2. congestion_window \in Nat /\ max_out \in Nat
  BY SizesAssumption
<1> DEFINE May == /\ r.rqueue # <<>> /\ r.nv
                  /\ r.seqno + 1 <= r.le + congestion_window /\ r.seqno + 1 <= max_out
<1>3. CASE ~May
  <2>1. x = r
    BY <1>3 DEF send_pre_prepare
  <2>2. Settled(r)
    BY <1>1, <1>2, <1>3 DEF Settled, Watches, Buffers
  <2> QED BY <1>1, <2>1, <2>2 DEF Same
<1>4. CASE May
  <2>1. PICK f : f = fill(r)
    OBVIOUS
  <2>2. IsBatch(f) /\ f # <<>> /\ Len(f) \in 1..Len(r.rqueue) /\ f \in Seq(Reqs)
    BY <1>1, <1>4, <2>1, FillFacts DEF Row, IsBatch
  <2>3. PICK n : n = r.seqno + 1
    OBVIOUS
  <2>4. n \in 1..max_out /\ n \in 0..max_out /\ n > r.seqno /\ n \in Nat
    BY <1>1, <1>2, <1>4, <2>3
  <2>5. PICK rest : rest = SubSeq(r.rqueue, Len(f) + 1, Len(r.rqueue))
    OBVIOUS
  <2>6. rest \in Queues /\ IsInjective(rest)
    <3>1. r.rqueue \in Seq(Clients) /\ IsInjective(r.rqueue)
      BY <1>1 DEF Rows, Queues, Row, QueueOK
    <3>2. Len(f) \in 0..Len(r.rqueue)
      BY <2>2, <3>1
    <3> QED BY <2>5, <3>1, <3>2, RestInjective DEF Queues
  <2>7. PICK pl : pl = [r.plog EXCEPT ![n] = f]
    OBVIOUS
  <2>8. r.plog \in Logs
    BY <1>1 DEF Rows
  <2>9. pl \in Logs /\ pl[n] = f /\ \A m \in 1..max_out : m # n => pl[m] = r.plog[m]
    BY <2>2, <2>4, <2>7, <2>8 DEF Logs
  <2>10. x = [r EXCEPT !.seqno = n, !.plog = pl, !.rqueue = rest]
    <3>1. x = [r EXCEPT !.seqno = @ + 1, !.plog[r.seqno + 1] = f,
                        !.rqueue = SubSeq(@, Len(f) + 1, Len(@))]
      BY <1>4, <2>1 DEF send_pre_prepare
    <3> QED BY <1>1, <2>3, <2>5, <2>7, <3>1 DEF Rows
  <2>11. /\ x \in Rows /\ x.seqno = n /\ x.plog = pl /\ x.rqueue = rest /\ x.le = r.le /\ x.lte = r.lte
         /\ x.v = r.v /\ x.nv = r.nv /\ x.limbo = r.limbo /\ x.fetching = r.fetching
         /\ x.lost = r.lost /\ x.ro = r.ro /\ x.slot = r.slot /\ x.vt = r.vt
         /\ x.mem = r.mem /\ x.tent = r.tent /\ x.said = r.said
    BY <1>1, <2>4, <2>6, <2>9, <2>10 DEF Rows
  <2>12. /\ r.le <= r.seqno
         /\ \A m \in 1..max_out : r.plog[m] # <<>> => m <= r.seqno
    BY <1>4 DEF Row, Logged
  <2>13. is_primary(x)
    BY <2>11 DEF is_primary
  <2>14. Logged(x)
    <3>1. \A m \in 1..max_out : IsBatch(pl[m])
      BY <2>2, <2>9 DEF Row, Logged
    <3>2. r.le <= n
      BY <1>1, <2>4, <2>12
    <3>3. \A m \in 1..max_out : pl[m] # <<>> => m <= n
      BY <1>1, <1>2, <2>4, <2>9, <2>12
    <3> QED BY <2>11, <3>1, <3>2, <3>3 DEF Logged
  <2>15. ASSUME r.lte > r.le PROVE pl[r.lte] = r.plog[r.lte]
    <3>1. r.lte \in 1..max_out /\ r.lte <= r.seqno
      BY <1>1, <1>2, <2>12, <2>15 DEF Row, Counted
    <3> QED BY <1>1, <2>4, <2>9, <3>1
  <2>16. Counted(x, ord)
    BY <2>11, <2>15 DEF Row, Counted
  <2>17. Follows(x, ord)
    BY <2>11, <2>15 DEF Row, Follows
  <2>18. Honest(x, ord)
    BY <2>11 DEF Row, Honest
  <2>19. QueueOK(x)
    BY <2>6, <2>11 DEF Row, QueueOK
  <2>20. Timed(x)
    BY <2>11 DEF Row, Timed
  <2>21. Settled(x)
    <3>1. n + 1 > r.le + 1
      BY <1>1, <2>3, <2>12
    <3> QED BY <2>11, <2>13, <3>1 DEF Settled, Watches, Buffers
  <2> QED BY <2>11, <2>14, <2>16, <2>17, <2>18, <2>19, <2>20, <2>21 DEF Row, Same
<1> QED BY <1>3, <1>4

(* A backup (re)starts its timer. *)
LEMMA Watch ==
  ASSUME NEW r, NEW ord, Row(r, ord), ~is_primary(r), r.rqueue # <<>>, NEW x,
         NEW vt, vt \in Timers, r.nv => vt = "running", x = [r EXCEPT !.vt = vt]
  PROVE  Row(x, ord) /\ Settled(x) /\ Same(r, x)
<1>1. r \in Rows
  BY DEF Row
<1>2. /\ x \in Rows /\ x.seqno = r.seqno /\ x.plog = r.plog /\ x.rqueue = r.rqueue /\ x.le = r.le
      /\ x.lte = r.lte /\ x.v = r.v /\ x.nv = r.nv /\ x.limbo = r.limbo /\ x.fetching = r.fetching
      /\ x.lost = r.lost /\ x.ro = r.ro /\ x.slot = r.slot /\ x.vt = vt
      /\ x.mem = r.mem /\ x.tent = r.tent /\ x.said = r.said
  BY <1>1 DEF Rows
<1>3. ~is_primary(x)
  BY <1>2 DEF is_primary
<1>4. Logged(x) /\ QueueOK(x)
  BY <1>2, <1>3 DEF Row, Logged, QueueOK
<1>5. Counted(x, ord) /\ Follows(x, ord)
  BY <1>2 DEF Row, Counted, Follows
<1>6. Honest(x, ord)
  BY <1>2 DEF Row, Honest
<1>7. Timed(x)
  BY <1>2, <1>3 DEF Row, Timed
<1>8. Settled(x)
  BY <1>2, <1>3 DEF Settled, Watches, Buffers, can_execute
<1> QED BY <1>2, <1>4, <1>5, <1>6, <1>7, <1>8 DEF Row, Same

-----------------------------------------------------------------------------
(* execute_committed() *)

After(x) ==
  IF ~can_execute(x) \/ x.rqueue = <<>> THEN x
  ELSE IF is_primary(x) THEN send_pre_prepare(x)
  ELSE [x EXCEPT !.vt = start(@)]

(* execute_committed() is the loop over the batches and what comes after   *)
(* it.                                                                     *)
LEMMA CommittedIs ==
  ASSUME NEW r, NEW bs
  PROVE  execute_committed(r, bs) = After(BatchLoop!Fold(0, r, bs))
BY BatchIsLoop DEF execute_committed, After

(* With no batch ... *)
LEMMA CommittedNone ==
  ASSUME NEW r
  PROVE  execute_committed(r, <<>>) = After(r)
BY CommittedIs, BatchLoop!FoldEmpty

(* ... with one ... *)
LEMMA BatchesOne ==
  ASSUME NEW r, NEW b
  PROVE  BatchLoop!Fold(0, r, <<b>>) = commit_batch(r, b)
<1>1. PICK s : s = <<>>
  OBVIOUS
<1>2. PICK S : S = {b}
  OBVIOUS
<1>3. s \in Seq(S) /\ b \in S
  BY <1>1, <1>2
<1>4. <<b>> = Append(s, b)
  BY <1>1
<1>5. BatchLoop!Fold(0, r, Append(s, b)) = batchStep(0, BatchLoop!Fold(0, r, s), b)
  BY <1>3, BatchLoop!FoldAppend
<1>6. BatchLoop!Fold(0, r, s) = r
  BY <1>1, BatchLoop!FoldEmpty
<1> QED BY <1>4, <1>5, <1>6 DEF batchStep

(* ... as execute_committed() sees it ... *)
LEMMA CommittedOne ==
  ASSUME NEW r, NEW b
  PROVE  execute_committed(r, <<b>>) = After(commit_batch(r, b))
BY CommittedIs, BatchesOne

(* ... and with two. *)
LEMMA CommittedTwo ==
  ASSUME NEW r, NEW b, NEW d
  PROVE  execute_committed(r, <<b, d>>) = After(commit_batch(commit_batch(r, b), d))
<1>1. PICK s : s = <<b>>
  OBVIOUS
<1>2. PICK t : t = <<b, d>>
  OBVIOUS
<1>3. s \in Seq({b, d})
  BY <1>1
<1>4. t = Append(s, d)
  BY <1>1, <1>2
<1>5. BatchLoop!Fold(0, r, Append(s, d)) = batchStep(0, BatchLoop!Fold(0, r, s), d)
  BY <1>3, BatchLoop!FoldAppend
<1>6. BatchLoop!Fold(0, r, s) = commit_batch(r, b)
  BY <1>1, BatchesOne
<1>7. execute_committed(r, t) = After(commit_batch(commit_batch(r, b), d))
  BY <1>4, <1>5, <1>6, CommittedIs DEF batchStep
<1> QED BY <1>2, <1>7

(* What comes after the loop keeps the invariant and settles the timer. *)
LEMMA AfterKeeps ==
  ASSUME NEW r, NEW ord, OrderOK(ord), Row(r, ord)
  PROVE  Row(After(r), ord) /\ Same(r, After(r)) /\ (r.nv /\ ~r.fetching => Settled(After(r)))
<1>1. r \in Rows /\ r.seqno \in Nat /\ r.le \in Nat /\ max_out \in Nat /\ r.vt \in Timers
  BY SizesAssumption DEF Row, Rows
<1>2. CASE ~can_execute(r) \/ r.rqueue = <<>>
  <2>1. After(r) = r
    BY <1>2 DEF After
  <2>2. ASSUME r.nv, ~r.fetching PROVE Settled(r)
    <3>1. r.rqueue # <<>> /\ is_primary(r) => r.le <= r.seqno /\ ~(r.le < max_out)
      BY <1>2, <2>2 DEF Row, Logged, can_execute
    <3>2. r.rqueue # <<>> /\ is_primary(r) => r.seqno + 1 > max_out
      BY <1>1, <3>1
    <3> QED BY <1>2, <3>2 DEF Settled, Watches, Buffers
  <2> QED BY <1>1, <2>1, <2>2 DEF Same
<1>3. CASE can_execute(r) /\ r.rqueue # <<>> /\ is_primary(r)
  <2>1. After(r) = send_pre_prepare(r)
    BY <1>3 DEF After
  <2> QED BY <1>3, <2>1, Propose
<1>4. CASE can_execute(r) /\ r.rqueue # <<>> /\ ~is_primary(r)
  <2>1. PICK vt : vt = start(r.vt)
    OBVIOUS
  <2>2. vt \in Timers /\ (r.nv => vt = "running")
    BY <1>1, <1>4, <2>1 DEF start, Timers, Row, Timed, can_execute
  <2>3. After(r) = [r EXCEPT !.vt = vt]
    BY <1>1, <1>4, <2>1 DEF After, Rows
  <2> QED BY <1>4, <2>2, <2>3, Watch
<1> QED BY <1>2, <1>3, <1>4

(* What two steps leave alone. *)
LEMMA SameTrans ==
  ASSUME NEW x, NEW y, NEW z, Same(x, y), Same(y, z)
  PROVE  Same(x, z)
BY DEF Same

(* The batches that commit next fit. *)
LEMMA CommitOne ==
  ASSUME NEW r, NEW ord, OrderOK(ord), Row(r, ord), can_execute(r), NEW b, Fits(r, b),
         r.le + 1 <= Len(ord), ord[r.le + 1] = b, NEW x, x = execute_committed(r, <<b>>)
  PROVE  Row(x, ord) /\ Settled(x) /\ Same(r, x)
<1>1. PICK z : z = commit_batch(r, b)
  OBVIOUS
<1>2. Row(z, ord) /\ Same(r, z)
  BY <1>1, CommitBatch
<1>3. z.nv /\ ~z.fetching
  BY <1>2 DEF Same, can_execute
<1>4. x = After(z)
  BY <1>1, CommittedOne
<1> QED BY <1>2, <1>3, <1>4, AfterKeeps, SameTrans

(* Two batches committed in one call. *)
LEMMA CommitTwo ==
  ASSUME NEW r, NEW ord, OrderOK(ord), Row(r, ord), can_execute(r), NEW b, Fits(r, b),
         r.le + 1 <= Len(ord), ord[r.le + 1] = b, NEW d,
         r.le + 2 <= Len(ord), ord[r.le + 2] = d, r.le + 2 <= max_out,
         IsBatch(d), d # <<>>, r.plog[r.le + 2] \in {<<>>, d},
         is_primary(r) => r.plog[r.le + 2] = d, NEW x, x = execute_committed(r, <<b, d>>)
  PROVE  Row(x, ord) /\ Settled(x) /\ Same(r, x)
<1>1. PICK y : y = commit_batch(r, b)
  OBVIOUS
<1>2. /\ Row(y, ord) /\ Same(r, y) /\ y.le = r.le + 1 /\ y.lte = y.le
      /\ y.plog = [r.plog EXCEPT ![r.le + 1] = b]
  BY <1>1, CommitBatch
<1>3. r.plog \in Logs /\ r.le \in Nat /\ max_out \in Nat
  BY SizesAssumption DEF Row, Rows
<1>11. PICK n \in Nat : n = r.le
  BY <1>3
<1>12. n + 2 \in 1..max_out /\ n + 2 # n + 1 /\ (n + 1) + 1 = n + 2
  BY <1>3, <1>11
<1>4. y.le + 1 = r.le + 2 /\ y.plog[y.le + 1] = r.plog[r.le + 2]
  <2>1. [r.plog EXCEPT ![n + 1] = b][n + 2] = r.plog[n + 2]
    BY <1>3, <1>12 DEF Logs
  <2> QED BY <1>2, <1>11, <1>12, <2>1
<1>5. Fits(y, d)
  BY <1>2, <1>4 DEF Fits, Same, is_primary
<1>6. can_execute(y)
  BY <1>2, <1>3 DEF Same, can_execute
<1>7. PICK z : z = commit_batch(y, d)
  OBVIOUS
<1>8. Row(z, ord) /\ Same(y, z)
  BY <1>2, <1>4, <1>5, <1>6, <1>7, CommitBatch
<1>9. z.nv /\ ~z.fetching
  BY <1>6, <1>8 DEF Same, can_execute
<1>10. x = After(z)
  <2>1. execute_committed(r, <<b, d>>) = After(commit_batch(commit_batch(r, b), d))
    BY CommittedTwo
  <2> QED BY <1>1, <1>7, <2>1, Zenon
<1> QED BY <1>2, <1>8, <1>9, <1>10, AfterKeeps, SameTrans

-----------------------------------------------------------------------------
(* handle(Request) *)

(* x is r but for the queues, their memory, the timer and what nobody reads. *)
Kept(r, x) ==
  /\ x \in Rows /\ x.v = r.v /\ x.nv = r.nv /\ x.limbo = r.limbo /\ x.fetching = r.fetching
  /\ x.seqno = r.seqno /\ x.plog = r.plog /\ x.le = r.le /\ x.lte = r.lte /\ x.mem = r.mem

(* A step that leaves execution alone keeps the invariant when queue, timer *)
(* and replies stay right.                                                 *)
LEMMA KeptRow ==
  ASSUME NEW r, NEW ord, Row(r, ord), NEW x, Kept(r, x), QueueOK(x), Timed(x), Honest(x, ord)
  PROVE  Row(x, ord)
<1>1. Logged(x)
  BY DEF Row, Logged, Kept, is_primary
<1>2. Counted(x, ord) /\ Follows(x, ord)
  BY DEF Row, Counted, Follows, Kept
<1> QED BY <1>1, <1>2 DEF Row, Kept

(* A persisted request is in the slot of its client. *)
LEMMA PersistKeeps ==
  ASSUME NEW slot \in Slots, \A c \in Clients : slot[c].c = c, NEW q \in Reqs
  PROVE  persist(slot, q) \in Slots /\ \A c \in Clients : persist(slot, q)[c].c = c
BY DEF persist, Slots, Reqs

(* A read-only request keeps the invariant. *)
LEMMA ReadOnlyKeeps ==
  ASSUME NEW r, NEW ord, Row(r, ord), Settled(r), NEW q \in Reqs, NEW x, x = handle_read_only(r, q)
  PROVE  Row(x, ord) /\ Settled(x) /\ x.v = r.v /\ x.lost \in {r.lost, r.lost + 1}
<1>1. r \in Rows /\ r.ro \in Seq(Clients) /\ IsInjective(r.ro) /\ r.slot \in Slots /\ r.lost \in Nat
  BY DEF Row, QueueOK, Rows, Queues
<1>2. CASE can_read(r) \/ ~appends(r.ro, r.slot, q)
  BY <1>2 DEF handle_read_only
<1>3. CASE ~can_read(r) /\ appends(r.ro, r.slot, q)
  <2>1. PICK ro : ro = append(r.ro, r.slot, q)
    OBVIOUS
  <2>2. PICK slot : slot = persist(r.slot, q)
    OBVIOUS
  <2>3. r.slot \in [Clients -> Reqs]
    BY <1>1 DEF Slots
  <2>4. ro \in Queues /\ IsInjective(ro)
    BY <1>1, <1>3, <2>1, <2>3, AppendFacts DEF Queues
  <2>5. slot \in Slots /\ \A c \in Clients : slot[c].c = c
    BY <1>1, <2>2, PersistKeeps DEF Row, QueueOK
  <2>6. PICK lost \in Nat : lost = r.lost + 1
    BY <1>1
  <2>7. x = [r EXCEPT !.ro = ro, !.slot = slot, !.lost = lost]
    <3>1. x = [r EXCEPT !.ro = append(@, r.slot, q), !.slot = persist(@, q), !.lost = @ + 1]
      BY <1>3 DEF handle_read_only
    <3> QED BY <1>1, <2>1, <2>2, <2>6, <3>1 DEF Rows
  <2>8. /\ Kept(r, x) /\ x.rqueue = r.rqueue /\ x.ro = ro /\ x.slot = slot /\ x.vt = r.vt
        /\ x.tent = r.tent /\ x.said = r.said /\ x.lost = lost
    BY <1>1, <2>4, <2>5, <2>6, <2>7 DEF Rows, Kept
  <2>9. QueueOK(x) /\ Honest(x, ord)
    BY <2>4, <2>5, <2>8 DEF Row, QueueOK, Honest, Kept
  <2>10. Timed(x)
    BY <2>8 DEF Row, Timed, Kept, is_primary
  <2>11. Settled(x)
    BY <2>8 DEF Settled, Watches, Buffers, Kept, can_execute, is_primary
  <2> QED BY <2>6, <2>8, <2>9, <2>10, <2>11, KeptRow DEF Kept
<1> QED BY <1>2, <1>3

(* A queued request keeps the invariant. *)
LEMMA EnqueueKeeps ==
  ASSUME NEW r, NEW ord, Row(r, ord), NEW q \in Reqs, appends(r.rqueue, r.slot, q), NEW x, x = enqueue(r, q)
  PROVE  /\ Row(x, ord) /\ Same(r, x) /\ x.rqueue # <<>> /\ x.vt = r.vt
<1>1. r \in Rows /\ r.rqueue \in Seq(Clients) /\ IsInjective(r.rqueue) /\ r.slot \in Slots
  BY DEF Row, QueueOK, Rows, Queues
<1>2. PICK rqueue : rqueue = append(r.rqueue, r.slot, q)
  OBVIOUS
<1>3. PICK slot : slot = persist(r.slot, q)
  OBVIOUS
<1>4. r.slot \in [Clients -> Reqs]
  BY <1>1 DEF Slots
<1>5. rqueue \in Queues /\ IsInjective(rqueue) /\ rqueue # <<>>
  BY <1>1, <1>2, <1>4, AppendFacts DEF Queues
<1>6. slot \in Slots /\ \A c \in Clients : slot[c].c = c
  BY <1>1, <1>3, PersistKeeps DEF Row, QueueOK
<1>7. x = [r EXCEPT !.rqueue = rqueue, !.slot = slot]
  BY <1>1, <1>2, <1>3 DEF enqueue, Rows
<1>8. /\ Kept(r, x) /\ x.rqueue = rqueue /\ x.ro = r.ro /\ x.slot = slot /\ x.vt = r.vt
      /\ x.tent = r.tent /\ x.said = r.said /\ x.lost = r.lost
  BY <1>1, <1>5, <1>6, <1>7 DEF Rows, Kept
<1>9. QueueOK(x) /\ Honest(x, ord)
  BY <1>5, <1>6, <1>8 DEF Row, QueueOK, Honest, Kept
<1>10. Timed(x)
  BY <1>5, <1>8 DEF Row, Timed, Kept, is_primary
<1> QED BY <1>5, <1>8, <1>9, <1>10, KeptRow DEF Same, Kept

(* A backup that queues a request. *)
LEMMA EnqueueTimed ==
  ASSUME NEW r, NEW ord, Row(r, ord), r.nv, ~is_primary(r), NEW q \in Reqs,
         appends(r.rqueue, r.slot, q), NEW x, x = [enqueue(r, q) EXCEPT !.vt = start(@)]
  PROVE  Row(x, ord) /\ Settled(x) /\ Same(r, x)
<1>1. PICK e : e = enqueue(r, q)
  OBVIOUS
<1>2. Row(e, ord) /\ Same(r, e) /\ e.rqueue # <<>> /\ e.vt = r.vt
  BY <1>1, EnqueueKeeps
<1>3. PICK vt : vt = start(e.vt)
  OBVIOUS
<1>4. vt \in Timers /\ vt = "running"
  BY <1>2, <1>3 DEF start, Timers, Row, Rows, Timed
<1>5. x = [e EXCEPT !.vt = vt]
  BY <1>1, <1>2, <1>3 DEF Row, Rows
<1>6. ~is_primary(e)
  BY <1>2 DEF Same, is_primary
<1>7. Row(x, ord) /\ Settled(x) /\ Same(e, x)
  BY <1>2, <1>4, <1>5, <1>6, Watch
<1> QED BY <1>2, <1>7, SameTrans

(* A request not executed yet keeps the invariant. *)
LEMMA NewKeeps ==
  ASSUME NEW r, NEW ord, OrderOK(ord), Row(r, ord), Settled(r), r.nv, NEW q \in Reqs,
         NEW x, x = handle_new(r, q)
  PROVE  Row(x, ord) /\ Settled(x) /\ Same(r, x)
<1>1. r \in Rows /\ Same(r, r)
  BY DEF Row, Same
<1>2. CASE is_primary(r) /\ in_progress(r, q)
  BY <1>1, <1>2 DEF handle_new
<1>3. CASE is_primary(r) /\ ~in_progress(r, q)
  <2>1. PICK out : out = [r.out EXCEPT ![q.c] = [rid |-> q.rid, v |-> r.v]]
    OBVIOUS
  <2>2. out \in Outs
    <3>1. r.out \in Outs /\ r.v \in Nat
      BY <1>1 DEF Rows
    <3> QED BY <2>1, <3>1 DEF Outs, Reqs
  <2>3. PICK y : y = [r EXCEPT !.out = out]
    OBVIOUS
  <2>4. /\ Kept(r, y) /\ y.rqueue = r.rqueue /\ y.ro = r.ro /\ y.slot = r.slot /\ y.vt = r.vt
        /\ y.tent = r.tent /\ y.said = r.said /\ y.lost = r.lost
    BY <1>1, <2>2, <2>3 DEF Rows, Kept
  <2>5. QueueOK(y) /\ Honest(y, ord)
    BY <2>4 DEF Row, QueueOK, Honest, Kept
  <2>6. Timed(y)
    BY <2>4 DEF Row, Timed, Kept, is_primary
  <2>7. Row(y, ord) /\ Same(r, y)
    BY <2>4, <2>5, <2>6, KeptRow DEF Same, Kept
  <2>8. Settled(y) /\ is_primary(y)
    BY <1>3, <2>4 DEF Settled, Watches, Buffers, Kept, can_execute, is_primary
  <2>9. [r EXCEPT !.out[q.c] = [rid |-> q.rid, v |-> r.v]] = y
    BY <1>1, <2>1, <2>3 DEF Rows
  <2>10. CASE ~appends(y.rqueue, y.slot, q)
    <3>1. x = y
      BY <1>3, <2>9, <2>10 DEF handle_new
    <3> QED BY <2>7, <2>8, <3>1
  <2>11. CASE appends(y.rqueue, y.slot, q)
    <3>1. PICK e : e = enqueue(y, q)
      OBVIOUS
    <3>2. x = send_pre_prepare(e)
      BY <1>3, <2>9, <2>11, <3>1 DEF handle_new
    <3>3. Row(e, ord) /\ Same(y, e)
      BY <2>7, <2>11, <3>1, EnqueueKeeps
    <3>4. is_primary(e)
      BY <2>8, <3>3 DEF Same, is_primary
    <3>5. Row(x, ord) /\ Settled(x) /\ Same(e, x)
      BY <3>2, <3>3, <3>4, Propose
    <3> QED BY <2>7, <3>3, <3>5, SameTrans
  <2> QED BY <2>10, <2>11
<1>4. CASE ~is_primary(r) /\ ~appends(r.rqueue, r.slot, q)
  BY <1>1, <1>4 DEF handle_new
<1>5. CASE ~is_primary(r) /\ appends(r.rqueue, r.slot, q)
  <2>1. ~r.limbo
    BY DEF Row, Timed
  <2>2. x = [enqueue(r, q) EXCEPT !.vt = start(@)]
    BY <1>5, <2>1 DEF handle_new
  <2> QED BY <1>5, <2>2, EnqueueTimed
<1> QED BY <1>2, <1>3, <1>4, <1>5

(* A request that was executed keeps the invariant. *)
LEMMA ExecutedKeeps ==
  ASSUME NEW r, NEW ord, OrderOK(ord), Row(r, ord), Settled(r), r.nv, NEW q \in Reqs,
         NEW x, x = handle_executed(r, q)
  PROVE  Row(x, ord) /\ Settled(x) /\ Same(r, x)
<1>1. r \in Rows /\ q.c \in Clients
  BY DEF Row, Reqs
<1>2. PICK y : y = send_reply(r, q.c, TRUE)
  OBVIOUS
<1>3. Replied(r, q.c, TRUE, y)
  BY <1>1, <1>2, SendReply
<1>4. /\ Kept(r, y) /\ y.rqueue = r.rqueue /\ y.ro = r.ro /\ y.slot = r.slot /\ y.vt = r.vt
      /\ y.lost = r.lost
  <2>1. y = [r EXCEPT !.tent = y.tent, !.said = y.said] /\ y \in Rows
    BY <1>3 DEF Replied
  <2>2. PICK t, s : t = y.tent /\ s = y.said
    OBVIOUS
  <2>3. y = [r EXCEPT !.tent = t, !.said = s]
    BY <2>1, <2>2, Zenon
  <2> QED BY <1>1, <2>1, <2>3 DEF Rows, Kept
<1>5. y.tent[q.c] <=> r.tent[q.c]
  BY <1>3 DEF Replied
<1>6. \A c \in Clients : ~y.tent[c] => ~r.tent[c]
  BY <1>3, <1>5 DEF Replied
<1>7. \A a \in y.said : a \in r.said \/ (a.c = q.c /\ a.rep = r.mem.rep[q.c] /\ ~r.tent[q.c])
  BY <1>3, <1>5 DEF Replied
<1>8. Honest(y, ord)
  BY <1>1, <1>4, <1>6, <1>7 DEF Row, Honest, Kept
<1>9. QueueOK(y) /\ Timed(y)
  BY <1>4 DEF Row, QueueOK, Timed, Kept, is_primary
<1>10. Row(y, ord) /\ Same(r, y)
  BY <1>4, <1>8, <1>9, KeptRow DEF Same, Kept
<1>11. Settled(y)
  BY <1>4 DEF Settled, Watches, Buffers, Kept, can_execute, is_primary
<1>12. CASE ~is_primary(y) /\ y.tent[q.c] /\ appends(y.rqueue, y.slot, q)
  <2>1. x = [enqueue(y, q) EXCEPT !.vt = start(@)]
    BY <1>2, <1>12 DEF handle_executed
  <2>2. y.nv
    BY <1>10 DEF Same
  <2> QED BY <1>10, <1>12, <2>1, <2>2, EnqueueTimed, SameTrans
<1>13. CASE ~(~is_primary(y) /\ y.tent[q.c] /\ appends(y.rqueue, y.slot, q))
  <2>1. x = y
    BY <1>2, <1>13 DEF handle_executed
  <2> QED BY <1>10, <1>11, <2>1
<1> QED BY <1>12, <1>13

(* handle(Request) keeps the invariant. *)
LEMMA RequestKeeps ==
  ASSUME NEW r, NEW ord, OrderOK(ord), Row(r, ord), Settled(r), NEW q \in Reqs,
         NEW x, x = handle_Request(r, q)
  PROVE  Row(x, ord) /\ Settled(x) /\ x.v = r.v /\ x.lost \in {r.lost, r.lost + 1}
<1>1. CASE x = r
  BY <1>1
<1>2. CASE x = handle_read_only(r, q)
  BY <1>2, ReadOnlyKeeps
<1>3. CASE r.nv /\ x = handle_new(r, q)
  BY <1>3, NewKeeps DEF Same
<1>4. CASE r.nv /\ x = handle_executed(r, q)
  BY <1>4, ExecutedKeeps DEF Same
<1> QED BY <1>1, <1>2, <1>3, <1>4 DEF handle_Request

-----------------------------------------------------------------------------
(* Views. *)

(* Going back to the stable checkpoint, if something is tentative. *)
LEMMA RollbackFacts ==
  ASSUME NEW r, NEW ord, OrderOK(ord), Row(r, ord), NEW t \in Timers,
         NEW x, x = rollback([r EXCEPT !.vt = t])
  PROVE  /\ Same(r, x) /\ x.vt = t /\ x.rqueue = r.rqueue /\ x.ro = r.ro /\ x.slot = r.slot
         /\ x.seqno = r.seqno /\ x.plog = r.plog /\ x.tent = r.tent /\ x.said = r.said
         /\ x.le \in Nat /\ x.le <= r.le /\ x.lte = x.le /\ Follows(x, ord) /\ Honest(x, ord)
<1>1. r \in Rows
  BY DEF Row
<1>2. PICK y : y = [r EXCEPT !.vt = t]
  OBVIOUS
<1>3. /\ y \in Rows /\ y.vt = t /\ y.le = r.le /\ y.lte = r.lte /\ y.v = r.v /\ y.nv = r.nv
      /\ y.limbo = r.limbo /\ y.fetching = r.fetching /\ y.lost = r.lost
      /\ y.rqueue = r.rqueue /\ y.ro = r.ro /\ y.slot = r.slot /\ y.seqno = r.seqno
      /\ y.plog = r.plog /\ y.tent = r.tent /\ y.said = r.said /\ y.mem = r.mem
  BY <1>1, <1>2 DEF Rows
<1>4. r.le \in Nat /\ r.lte \in Nat
  BY <1>1 DEF Rows
<1>5. CASE r.lte > r.le
  <2>1. x = [y EXCEPT !.mem = NewMem, !.le = 0, !.lte = 0]
    BY <1>2, <1>3, <1>5 DEF rollback
  <2>2. /\ x \in Rows /\ x.vt = y.vt /\ x.le = 0 /\ x.lte = 0 /\ x.v = y.v /\ x.nv = y.nv
        /\ x.limbo = y.limbo /\ x.fetching = y.fetching /\ x.lost = y.lost
        /\ x.rqueue = y.rqueue /\ x.ro = y.ro /\ x.slot = y.slot /\ x.seqno = y.seqno
        /\ x.plog = y.plog /\ x.tent = y.tent /\ x.said = y.said /\ x.mem = NewMem
    <3>1. y \in Rows /\ NewMem \in Mems /\ 0 \in Nat
      BY <1>3, NewMemType
    <3> QED BY <2>1, <3>1 DEF Rows
  <2>7. Len(ord) \in Nat
    BY DEF OrderOK
  <2>3. Upto(ord, 0) = NewMem /\ 0 \in 0..Len(ord)
    BY <2>7, UptoFacts
  <2>4. SubSeq(ord, 1, 0) \o <<>> = SubSeq(ord, 1, 0)
    <3>1. SubSeq(ord, 1, 0) \in Seq(Seq(Reqs)) /\ <<>> \in Seq(Reqs)
      BY <2>3, UptoFacts
    <3> QED BY <3>1, ConcatLast
  <2>8. ~(x.lte > x.le)
    BY <2>2
  <2>5. Follows(x, ord)
    BY <2>2, <2>3, <2>4, <2>8 DEF Follows, Upto
  <2>6. Honest(x, ord)
    BY <1>3, <2>2, <2>3 DEF Row, Honest, Final
  <2> QED BY <1>3, <1>4, <2>2, <2>5, <2>6 DEF Same
<1>6. CASE ~(r.lte > r.le)
  <2>1. x = y
    BY <1>2, <1>3, <1>6 DEF rollback
  <2>2. r.lte = r.le
    BY <1>4, <1>6 DEF Row, Counted
  <2>3. Follows(y, ord) /\ Honest(y, ord)
    BY <1>3 DEF Row, Follows, Honest
  <2> QED BY <1>3, <1>4, <2>1, <2>2, <2>3 DEF Same
<1> QED BY <1>5, <1>6

(* Nothing is a batch: the null request. *)
LEMMA EmptyBatch == IsBatch(<<>>)
<1>1. 1..Len(<<>>) = {}
  OBVIOUS
<1> QED BY <1>1 DEF IsBatch

(* send_view_change() keeps the invariant. *)
LEMMA ViewChangeKeeps ==
  ASSUME NEW r, NEW ord, OrderOK(ord), Row(r, ord), NEW t \in Timers,
         NEW x, x = send_view_change([r EXCEPT !.vt = t])
  PROVE  Row(x, ord) /\ Settled(x) /\ x.v = r.v + 1 /\ x.lost = r.lost
<1>1. PICK y : y = rollback([r EXCEPT !.vt = t])
  OBVIOUS
<1>2. /\ Same(r, y) /\ y.vt = t /\ y.rqueue = r.rqueue /\ y.ro = r.ro /\ y.slot = r.slot
      /\ y.seqno = r.seqno /\ y.plog = r.plog /\ y.tent = r.tent /\ y.said = r.said
      /\ y.le \in Nat /\ y.le <= r.le /\ y.lte = y.le /\ Follows(y, ord) /\ Honest(y, ord)
  BY <1>1, RollbackFacts
<1>3. y \in Rows /\ y.v = r.v /\ y.lost = r.lost /\ y.v \in Nat
  BY <1>2 DEF Same, Rows
<1>4. PICK pl : pl = [n \in 1..max_out |-> <<>>]
  OBVIOUS
<1>5. pl \in Logs /\ \A n \in 1..max_out : pl[n] = <<>>
  BY <1>4 DEF Logs
<1>6. PICK vt : vt = stop(t)
  OBVIOUS
<1>7. vt \in Timers
  BY <1>6 DEF stop, Timers
<1>8. PICK v \in Nat : v = r.v + 1
  BY <1>3
<1>9. x = [y EXCEPT !.v = v, !.nv = FALSE, !.limbo = TRUE, !.vt = vt, !.plog = pl]
  <2>1. x = [y EXCEPT !.v = @ + 1, !.nv = FALSE, !.limbo = TRUE, !.vt = stop(@),
                      !.plog = [n \in 1..max_out |-> <<>>]]
    BY <1>1 DEF send_view_change
  <2> QED BY <1>2, <1>3, <1>4, <1>6, <1>8, <2>1 DEF Rows
<1>10. /\ x \in Rows /\ x.v = v /\ x.nv = FALSE /\ x.plog = pl /\ x.le = y.le /\ x.lte = y.lte
       /\ x.rqueue = y.rqueue /\ x.ro = y.ro /\ x.slot = y.slot /\ x.mem = y.mem
       /\ x.tent = y.tent /\ x.said = y.said /\ x.lost = y.lost
  BY <1>3, <1>5, <1>7, <1>9 DEF Rows
<1>11. QueueOK(x)
  BY <1>2, <1>10 DEF Row, QueueOK
<1>12. Timed(x) /\ Settled(x)
  BY <1>10 DEF Timed, Settled, Watches, Buffers, can_execute
<1>13. Logged(x)
  BY <1>5, <1>10, EmptyBatch DEF Logged
<1>14. ~(x.lte > x.le)
  BY <1>2, <1>10
<1>15. Counted(x, ord)
  <2>1. r.le <= Len(ord) /\ Len(ord) \in Nat /\ r.le \in Nat
    BY DEF Row, Rows, Counted, OrderOK
  <2>2. x.le <= Len(ord) /\ x.lte \in x.le..x.le + 1
    BY <1>2, <1>10, <2>1
  <2> QED BY <1>14, <2>2 DEF Counted
<1>16. Follows(x, ord)
  <2>1. ~(y.lte > y.le)
    BY <1>2
  <2> QED BY <1>2, <1>10, <1>14, <2>1 DEF Follows
<1>17. Honest(x, ord)
  BY <1>2, <1>10 DEF Honest
<1> QED BY <1>3, <1>8, <1>10, <1>11, <1>12, <1>13, <1>15, <1>16, <1>17 DEF Row

(* The timer restarts when a quorum is in the view. *)
LEMMA QuorumKeeps ==
  ASSUME NEW r, NEW ord, Row(r, ord), r.limbo,
         NEW x, x = [r EXCEPT !.vt = restart(@), !.limbo = FALSE]
  PROVE  Row(x, ord) /\ Settled(x) /\ x.v = r.v /\ x.lost = r.lost
<1>1. r \in Rows /\ ~r.nv
  BY DEF Row, Timed
<1>2. PICK vt : vt = restart(r.vt)
  OBVIOUS
<1>3. vt \in Timers
  BY <1>1, <1>2 DEF restart, Timers, Rows
<1>4. x = [r EXCEPT !.vt = vt, !.limbo = FALSE]
  BY <1>1, <1>2 DEF Rows
<1>5. /\ x \in Rows /\ x.seqno = r.seqno /\ x.plog = r.plog /\ x.rqueue = r.rqueue /\ x.le = r.le
      /\ x.lte = r.lte /\ x.v = r.v /\ x.nv = r.nv /\ x.fetching = r.fetching
      /\ x.lost = r.lost /\ x.ro = r.ro /\ x.slot = r.slot
      /\ x.mem = r.mem /\ x.tent = r.tent /\ x.said = r.said
  BY <1>1, <1>3, <1>4 DEF Rows
<1>6. QueueOK(x) /\ Logged(x)
  BY <1>1, <1>5 DEF Row, QueueOK, Logged
<1>7. Timed(x) /\ Settled(x)
  BY <1>1, <1>5 DEF Timed, Settled, Watches, Buffers, can_execute
<1>8. Counted(x, ord) /\ Follows(x, ord)
  BY <1>5 DEF Row, Counted, Follows
<1>9. Honest(x, ord)
  BY <1>5 DEF Row, Honest
<1> QED BY <1>5, <1>6, <1>7, <1>8, <1>9 DEF Row

(* Serving the read-only requests keeps the invariant. *)
LEMMA DrainKeeps ==
  ASSUME NEW r, NEW ord, Row(r, ord)
  PROVE  /\ Row(drain_ro(r), ord) /\ (Settled(r) => Settled(drain_ro(r))) /\ Same(r, drain_ro(r))
         /\ drain_ro(r).rqueue = r.rqueue /\ drain_ro(r).vt = r.vt
<1>1. r \in Rows /\ <<>> \in Queues
  BY DEF Row, Queues
<1>2. PICK x : x = [r EXCEPT !.ro = <<>>]
  OBVIOUS
<1>3. /\ Kept(r, x) /\ x.rqueue = r.rqueue /\ x.ro = <<>> /\ x.slot = r.slot /\ x.vt = r.vt
      /\ x.tent = r.tent /\ x.said = r.said /\ x.lost = r.lost
  BY <1>1, <1>2 DEF Rows, Kept
<1>4. QueueOK(x) /\ Honest(x, ord)
  BY <1>3, EmptyInjective DEF Row, QueueOK, Honest, Kept
<1>5. Timed(x)
  BY <1>3 DEF Row, Timed, Kept, is_primary
<1>6. Settled(r) => Settled(x)
  BY <1>3 DEF Settled, Watches, Buffers, Kept, can_execute, is_primary
<1>7. Row(x, ord) /\ Same(r, x)
  BY <1>3, <1>4, <1>5, KeptRow DEF Same, Kept
<1> QED BY <1>2, <1>3, <1>6, <1>7 DEF drain_ro

(* The batches of a new view extend the order. *)
LEMMA NewViewKeeps ==
  ASSUME NEW r, NEW ord, OrderOK(ord), Row(r, ord), ~r.nv, NEW bs, Extends(ord, bs),
         NEW x, x = process_new_view(r, bs)
  PROVE  Row(x, ord) /\ Settled(x) /\ x.v = r.v /\ x.lost = r.lost
<1>1. r \in Rows /\ r.le \in Nat /\ r.lte \in Nat /\ max_out \in Nat
  BY SizesAssumption DEF Row, Rows
<1>2. bs \in Seq(Seq(Reqs)) /\ Len(bs) \in Nat /\ Len(bs) <= max_out /\ Len(ord) <= Len(bs)
      /\ \A n \in 1..Len(bs) : IsBatch(bs[n]) /\ bs[n] \in Seq(Reqs)
  BY DEF Extends, OrderOK
<1>3. r.lte = r.le /\ r.le <= Len(ord)
  BY <1>1 DEF Row, Counted
<1>4. PICK pl : pl = [n \in 1..max_out |-> IF n <= Len(bs) THEN bs[n] ELSE <<>>]
  OBVIOUS
<1>5. \A n \in 1..max_out : pl[n] = IF n \in 1..Len(bs) THEN bs[n] ELSE <<>>
  BY <1>2, <1>4
<1>6. pl \in Logs
  <2>1. \A n \in 1..max_out : (IF n <= Len(bs) THEN bs[n] ELSE <<>>) \in Seq(Reqs)
    BY <1>2
  <2> QED BY <1>4, <2>1 DEF Logs
<1>7. PICK sn \in 0..max_out : sn = Len(bs)
  BY <1>1, <1>2
<1>8. PICK y : y = [r EXCEPT !.vt = "stopped", !.limbo = FALSE, !.nv = TRUE, !.seqno = sn, !.plog = pl]
  OBVIOUS
<1>9. /\ y \in Rows /\ y.vt = "stopped" /\ y.limbo = FALSE /\ y.nv = TRUE /\ y.seqno = sn
      /\ y.plog = pl /\ y.le = r.le /\ y.lte = r.lte /\ y.v = r.v /\ y.fetching = r.fetching
      /\ y.lost = r.lost /\ y.rqueue = r.rqueue /\ y.ro = r.ro /\ y.slot = r.slot
      /\ y.mem = r.mem /\ y.tent = r.tent /\ y.said = r.said
  <2>1. "stopped" \in Timers
    BY DEF Timers
  <2> QED BY <1>1, <1>6, <1>7, <1>8, <2>1 DEF Rows
<1>10. QueueOK(y)
  BY <1>9 DEF Row, QueueOK
<1>11. Timed(y)
  BY <1>9 DEF Timed
<1>12. Logged(y)
  <2>1. \A n \in 1..max_out : IsBatch(pl[n])
    BY <1>2, <1>5, EmptyBatch
  <2>2. \A n \in 1..max_out : pl[n] # <<>> => n <= sn
    BY <1>5, <1>2, <1>7
  <2>3. r.le <= sn
    BY <1>1, <1>2, <1>3, <1>7 DEF OrderOK
  <2> QED BY <1>9, <2>1, <2>2, <2>3 DEF Logged
<1>13. ~(y.lte > y.le) /\ ~(r.lte > r.le)
  BY <1>1, <1>3, <1>9
<1>14. Counted(y, ord) /\ Follows(y, ord)
  BY <1>9, <1>13 DEF Row, Counted, Follows
<1>15. Honest(y, ord)
  BY <1>9 DEF Row, Honest
<1>16. Row(y, ord)
  BY <1>9, <1>10, <1>11, <1>12, <1>14, <1>15 DEF Row
<1>17. PICK z : z = drain_ro(IF is_primary(y) THEN send_pre_prepare(y) ELSE y)
  OBVIOUS
<1>18. x = [z EXCEPT !.vt = IF ~is_primary(z) /\ z.rqueue # <<>> THEN restart(@) ELSE @]
  <2>1. [r EXCEPT !.vt = restop(@), !.limbo = FALSE, !.nv = TRUE, !.seqno = Len(bs),
                  !.plog = [n \in 1..max_out |-> IF n <= Len(bs) THEN bs[n] ELSE <<>>]] = y
    BY <1>4, <1>7, <1>8 DEF restop
  <2> QED BY <1>17, <2>1 DEF process_new_view
<1>19. CASE is_primary(y)
  <2>1. PICK p : p = send_pre_prepare(y)
    OBVIOUS
  <2>2. Row(p, ord) /\ Settled(p) /\ Same(y, p)
    BY <1>16, <1>19, <2>1, Propose
  <2>3. Row(z, ord) /\ Settled(z) /\ Same(p, z)
    BY <1>17, <1>19, <2>1, <2>2, DrainKeeps
  <2>4. is_primary(z) /\ z \in Rows /\ z.v = r.v /\ z.lost = r.lost
    BY <1>9, <1>19, <2>2, <2>3 DEF Same, is_primary
  <2>5. x = z
    BY <1>18, <2>4 DEF Rows
  <2> QED BY <2>3, <2>4, <2>5
<1>20. CASE ~is_primary(y)
  <2>1. z = drain_ro(y)
    BY <1>17, <1>20
  <2>2. Row(z, ord) /\ Same(y, z) /\ z.rqueue = y.rqueue /\ z.vt = "stopped"
    BY <1>9, <1>16, <2>1, DrainKeeps
  <2>3. ~is_primary(z) /\ z \in Rows /\ z.v = r.v /\ z.lost = r.lost
    BY <1>9, <1>20, <2>2 DEF Same, is_primary
  <2>4. CASE z.rqueue = <<>>
    <3>1. x = z
      BY <1>18, <2>3, <2>4 DEF Rows
    <3> QED BY <2>2, <2>3, <2>4, <3>1 DEF Settled, Watches, Buffers
  <2>5. CASE z.rqueue # <<>>
    <3>1. PICK vt : vt = restart(z.vt)
      OBVIOUS
    <3>2. vt = "running" /\ vt \in Timers
      BY <2>2, <3>1 DEF restart, Timers
    <3>3. x = [z EXCEPT !.vt = vt]
      BY <1>18, <2>3, <2>5, <3>1 DEF Rows
    <3>4. Row(x, ord) /\ Settled(x) /\ Same(z, x)
      BY <2>2, <2>3, <2>5, <3>2, <3>3, Watch
    <3> QED BY <2>3, <3>4 DEF Same
  <2> QED BY <2>4, <2>5
<1> QED BY <1>19, <1>20

-----------------------------------------------------------------------------
(* Fetching the state. *)

(* The start of a fetch keeps the invariant. *)
LEMMA FetchKeeps ==
  ASSUME NEW r, NEW ord, OrderOK(ord), Row(r, ord), ~r.fetching,
         NEW x, x = [rollback(r) EXCEPT !.vt = stop(@), !.fetching = TRUE]
  PROVE  Row(x, ord) /\ Settled(x) /\ x.v = r.v /\ x.lost = r.lost
<1>1. r \in Rows /\ r.vt \in Timers /\ [r EXCEPT !.vt = r.vt] = r
  BY DEF Row, Rows
<1>2. PICK y : y = rollback(r)
  OBVIOUS
<1>3. /\ Same(r, y) /\ y.vt = r.vt /\ y.rqueue = r.rqueue /\ y.ro = r.ro /\ y.slot = r.slot
      /\ y.seqno = r.seqno /\ y.plog = r.plog /\ y.tent = r.tent /\ y.said = r.said
      /\ y.le \in Nat /\ y.le <= r.le /\ y.lte = y.le /\ Follows(y, ord) /\ Honest(y, ord)
  <2>1. y = rollback([r EXCEPT !.vt = r.vt])
    BY <1>1, <1>2
  <2> QED BY <1>1, <2>1, RollbackFacts
<1>4. y \in Rows /\ y.v = r.v /\ y.lost = r.lost /\ y.nv = r.nv /\ y.limbo = r.limbo
  BY <1>3 DEF Same
<1>5. PICK vt : vt = stop(r.vt)
  OBVIOUS
<1>6. /\ vt \in Timers /\ (r.vt # "expired" => vt # "expired")
      /\ (r.vt = "stopped" => vt = "stopped")
  BY <1>1, <1>5 DEF stop, Timers
<1>7. x = [y EXCEPT !.vt = vt, !.fetching = TRUE]
  BY <1>2, <1>3, <1>4, <1>5 DEF Rows
<1>8. /\ x \in Rows /\ x.v = y.v /\ x.nv = y.nv /\ x.limbo = y.limbo /\ x.plog = y.plog
      /\ x.le = y.le /\ x.lte = y.lte /\ x.seqno = y.seqno
      /\ x.rqueue = y.rqueue /\ x.ro = y.ro /\ x.slot = y.slot /\ x.mem = y.mem
      /\ x.tent = y.tent /\ x.said = y.said /\ x.lost = y.lost /\ x.fetching = TRUE /\ x.vt = vt
  BY <1>4, <1>6, <1>7 DEF Rows
<1>9. QueueOK(x)
  BY <1>3, <1>8 DEF Row, QueueOK
<1>10. Timed(x)
  BY <1>3, <1>4, <1>6, <1>8 DEF Row, Timed, is_primary
<1>11. Settled(x)
  BY <1>8 DEF Settled, Watches, Buffers, can_execute
<1>12. r.le \in Nat /\ r.seqno \in Nat /\ r.le <= Len(ord) /\ Len(ord) \in Nat
  BY SizesAssumption DEF Row, Rows, Counted, OrderOK
<1>13. Logged(x)
  <2>1. r.le <= r.seqno => x.le <= x.seqno
    BY <1>3, <1>8, <1>12
  <2> QED BY <1>3, <1>4, <1>8, <2>1 DEF Row, Logged, is_primary
<1>14. ~(x.lte > x.le) /\ ~(y.lte > y.le) /\ x.le <= Len(ord) /\ x.lte \in x.le..x.le + 1
  BY <1>3, <1>8, <1>12
<1>15. Counted(x, ord)
  BY <1>14 DEF Counted
<1>16. Follows(x, ord)
  BY <1>3, <1>8, <1>14 DEF Follows
<1>17. Honest(x, ord)
  BY <1>3, <1>8 DEF Honest
<1> QED BY <1>3, <1>4, <1>8, <1>9, <1>10, <1>11, <1>13, <1>15, <1>16, <1>17 DEF Row

(* The installed state is that of the order at c. *)
LEMMA InstalledKeeps ==
  ASSUME NEW r, OrderOK(order), Row(r, order), r.fetching, NEW c \in r.le..Len(order),
         NEW x, x = installed(r, c)
  PROVE  /\ Row(x, order) /\ x.v = r.v /\ x.nv = r.nv /\ x.lost = r.lost /\ ~x.fetching
         /\ x.plog = r.plog /\ x.le = c
<1>1. r \in Rows /\ r.le \in Nat /\ r.lte \in Nat /\ r.seqno \in 0..max_out /\ max_out \in Nat
      /\ Len(order) \in Nat /\ Len(order) <= max_out
  BY SizesAssumption DEF Row, Rows, OrderOK
<1>2. c \in Nat /\ r.le <= c /\ c <= Len(order) /\ c \in 0..Len(order)
  BY <1>1
<1>3. r.lte = r.le
  BY <1>1 DEF Row, Counted
<1>4. PICK sn : sn = IF c > r.seqno THEN c ELSE r.seqno
  OBVIOUS
<1>5. sn \in 0..max_out /\ c <= sn /\ r.seqno <= sn
  BY <1>1, <1>2, <1>4
<1>6. PICK s : s = [r EXCEPT !.fetching = FALSE, !.seqno = sn]
  OBVIOUS
<1>7. /\ s \in Rows /\ s.seqno = sn /\ s.fetching = FALSE /\ s.v = r.v /\ s.nv = r.nv
      /\ s.limbo = r.limbo /\ s.plog = r.plog /\ s.le = r.le /\ s.lte = r.lte
      /\ s.rqueue = r.rqueue /\ s.ro = r.ro /\ s.slot = r.slot /\ s.mem = r.mem
      /\ s.tent = r.tent /\ s.said = r.said /\ s.lost = r.lost /\ s.vt = r.vt
  BY <1>1, <1>5, <1>6 DEF Rows
<1>8. [r EXCEPT !.fetching = FALSE, !.seqno = IF c > @ THEN c ELSE @] = s
  BY <1>1, <1>4, <1>6 DEF Rows
<1>9. \A n \in 1..max_out : r.plog[n] # <<>> /\ n <= r.seqno => n <= sn
  BY <1>1, <1>5
<1>10. CASE c <= r.le
  <2>1. x = s
    BY <1>7, <1>8, <1>10 DEF installed
  <2>2. c = r.le
    BY <1>1, <1>2, <1>10
  <2>3. QueueOK(s) /\ Honest(s, order)
    BY <1>7 DEF Row, QueueOK, Honest
  <2>4. Timed(s)
    BY <1>7 DEF Row, Timed, is_primary
  <2>5. Logged(s)
    <3>1. r.le <= sn
      BY <1>5, <2>2
    <3> QED BY <1>7, <1>9, <3>1 DEF Row, Logged, is_primary
  <2>6. ~(s.lte > s.le) /\ ~(r.lte > r.le)
    BY <1>1, <1>3, <1>7
  <2>7. Counted(s, order) /\ Follows(s, order)
    BY <1>7, <2>6 DEF Row, Counted, Follows
  <2> QED BY <1>7, <2>1, <2>2, <2>3, <2>4, <2>5, <2>7 DEF Row
<1>11. CASE ~(c <= r.le)
  <2>1. PICK m : m = Result(SubSeq(order, 1, c))
    OBVIOUS
  <2>2. m \in Mems /\ m = Upto(order, c)
    BY <1>2, <2>1, UptoFacts DEF Upto
  <2>3. PICK t : t = [s EXCEPT !.le = c, !.lte = c, !.mem = m]
    OBVIOUS
  <2>4. /\ t \in Rows /\ t.le = c /\ t.lte = c /\ t.mem = m /\ t.seqno = s.seqno
        /\ t.fetching = s.fetching /\ t.v = s.v /\ t.nv = s.nv
        /\ t.limbo = s.limbo /\ t.plog = s.plog /\ t.rqueue = s.rqueue /\ t.ro = s.ro
        /\ t.slot = s.slot /\ t.said = s.said /\ t.lost = s.lost /\ t.vt = s.vt
    <3>1. s \in Rows /\ c \in Nat
      BY <1>2, <1>7
    <3> QED BY <2>2, <2>3, <3>1 DEF Rows
  <2>5. x = replies_new_state(t)
    BY <1>7, <1>8, <1>11, <2>1, <2>3 DEF installed
  <2>6. PICK k : /\ k = [t EXCEPT !.tent = [d \in Clients |-> FALSE]] /\ k \in Rows
                 /\ commitInv(k, Len(t.rqueue), x)
    <3>1. IsInjective(t.rqueue)
      BY <1>7, <2>4 DEF Row, QueueOK
    <3> QED BY <2>4, <2>5, <3>1, StaleLoopKeeps
  <2>7. PICK tent : tent = [d \in Clients |-> FALSE]
    OBVIOUS
  <2>8. /\ k.le = t.le /\ k.lte = t.lte /\ k.mem = t.mem /\ k.seqno = t.seqno
        /\ k.fetching = t.fetching /\ k.v = t.v /\ k.nv = t.nv
        /\ k.limbo = t.limbo /\ k.plog = t.plog /\ k.rqueue = t.rqueue /\ k.ro = t.ro
        /\ k.slot = t.slot /\ k.said = t.said /\ k.lost = t.lost /\ k.vt = t.vt
    <3>1. k = [t EXCEPT !.tent = tent] /\ t \in Rows /\ k \in Rows
      BY <2>4, <2>6, <2>7
    <3> QED BY <3>1 DEF Rows
  <2>9. /\ Same(k, x) /\ x.le = k.le /\ x.lte = k.lte /\ x.seqno = k.seqno /\ x.plog = k.plog
        /\ x.ro = k.ro /\ x.slot = k.slot /\ x.mem = k.mem /\ x.said = k.said
    <3>1. PICK i : k \in Rows /\ commitInv(k, i, x)
      BY <2>6
    <3> QED BY <3>1, CommitFields
  <2>10. /\ x \in Rows /\ x.v = r.v /\ x.nv = r.nv /\ x.limbo = r.limbo /\ x.fetching = FALSE
         /\ x.lost = r.lost /\ x.plog = r.plog /\ x.seqno = sn /\ x.le = c /\ x.lte = c
         /\ x.mem = m /\ x.said = r.said /\ x.ro = r.ro /\ x.slot = r.slot
         /\ k.vt = r.vt /\ k.rqueue = r.rqueue
    BY <1>7, <2>4, <2>8, <2>9 DEF Same
  <2>11. QueueOK(x)
    BY <2>6, <2>10 DEF Row, QueueOK, commitInv
  <2>12. Timed(x)
    BY <2>6, <2>10 DEF Row, Timed, is_primary, commitInv
  <2>13. Logged(x)
    BY <1>5, <1>9, <2>10 DEF Row, Logged, is_primary
  <2>14. ~(x.lte > x.le) /\ x.le <= Len(order) /\ x.lte \in x.le..x.le + 1
    BY <1>2, <2>10
  <2>15. Counted(x, order)
    BY <2>14 DEF Counted
  <2>16. Follows(x, order)
    <3>1. SubSeq(order, 1, c) \in Seq(Seq(Reqs)) /\ <<>> \in Seq(Reqs)
      BY <1>2, UptoFacts
    <3>2. SubSeq(order, 1, c) \o <<>> = SubSeq(order, 1, c)
      BY <3>1, ConcatLast
    <3> QED BY <2>1, <2>10, <2>14, <3>2 DEF Follows
  <2>17. Honest(x, order)
    BY <1>2, <2>2, <2>10 DEF Row, Honest, Final
  <2> QED BY <2>10, <2>11, <2>12, <2>13, <2>15, <2>16, <2>17 DEF Row
<1> QED BY <1>10, <1>11

Resumed(y) ==
  IF y.rqueue = <<>> THEN y
  ELSE IF is_primary(y) THEN send_pre_prepare(y)
  ELSE [y EXCEPT !.vt = restart(@)]

(* Resuming after the fetch keeps the invariant and settles the timer. *)
LEMMA ResumedKeeps ==
  ASSUME NEW y, NEW ord, OrderOK(ord), Row(y, ord)
  PROVE  Row(Resumed(y), ord) /\ Settled(Resumed(y)) /\ Same(y, Resumed(y))
<1>1. y \in Rows /\ y.vt \in Timers
  BY DEF Row, Rows
<1>2. CASE y.rqueue = <<>>
  BY <1>1, <1>2 DEF Resumed, Settled, Watches, Buffers, Same
<1>3. CASE y.rqueue # <<>> /\ is_primary(y)
  <2>1. Resumed(y) = send_pre_prepare(y)
    BY <1>3 DEF Resumed
  <2> QED BY <1>3, <2>1, Propose
<1>4. CASE y.rqueue # <<>> /\ ~is_primary(y)
  <2>1. PICK vt : vt = restart(y.vt)
    OBVIOUS
  <2>2. vt = "running" /\ vt \in Timers
    BY <1>1, <2>1 DEF restart, Timers
  <2>3. Resumed(y) = [y EXCEPT !.vt = vt]
    BY <1>1, <1>4, <2>1 DEF Resumed, Rows
  <2> QED BY <1>4, <2>2, <2>3, Watch
<1> QED BY <1>2, <1>3, <1>4

(* What may be committed behind the fetched state: nothing, or one batch.  *)
Ready(r, c, bs, b) ==
  \/ bs = <<>>
  \/ /\ bs = <<b>> /\ c < Len(order) /\ r.nv /\ b = order[c + 1] /\ b # <<>>
     /\ r.plog[c + 1] \in {<<>>, b} /\ (is_primary(r) => r.plog[c + 1] = b)

(* new_state() keeps the invariant. *)
LEMMA NewStateKeeps ==
  ASSUME NEW r, OrderOK(order), Row(r, order), r.fetching, NEW c \in r.le..Len(order),
         NEW bs, NEW b, Ready(r, c, bs, b), NEW x, x = new_state(r, c, bs)
  PROVE  Row(x, order) /\ Settled(x) /\ x.v = r.v /\ x.lost = r.lost
<1>1. PICK i : i = installed(r, c)
  OBVIOUS
<1>2. /\ Row(i, order) /\ i.v = r.v /\ i.nv = r.nv /\ i.lost = r.lost /\ ~i.fetching
      /\ i.plog = r.plog /\ i.le = c
  BY <1>1, InstalledKeeps
<1>3. PICK z : z = execute_committed(i, bs)
  OBVIOUS
<1>4. Row(z, order) /\ Same(i, z)
  <2>1. CASE bs = <<>>
    BY <1>2, <1>3, <2>1, CommittedNone, AfterKeeps
  <2>2. CASE bs = <<b>> /\ c < Len(order) /\ r.nv /\ b = order[c + 1] /\ b # <<>>
             /\ r.plog[c + 1] \in {<<>>, b} /\ (is_primary(r) => r.plog[c + 1] = b)
    <3>1. c \in Nat /\ Len(order) \in Nat /\ Len(order) <= max_out /\ max_out \in Nat
      BY SizesAssumption DEF Row, Rows, OrderOK
    <3>2. c + 1 \in 1..Len(order) /\ c < max_out /\ c + 1 <= Len(order)
      BY <2>2, <3>1
    <3>3. IsBatch(b)
      BY <2>2, <3>2 DEF OrderOK
    <3>4. Fits(i, b)
      BY <1>2, <2>2, <3>3 DEF Fits, is_primary
    <3>5. can_execute(i)
      BY <1>2, <2>2, <3>2 DEF can_execute
    <3>6. z = execute_committed(i, <<b>>) /\ i.le + 1 <= Len(order) /\ order[i.le + 1] = b
      BY <1>2, <1>3, <2>2, <3>2
    <3> QED BY <1>2, <3>4, <3>5, <3>6, CommitOne
  <2> QED BY <2>1, <2>2 DEF Ready
<1>5. PICK y : y = drain_ro(z)
  OBVIOUS
<1>6. Row(y, order) /\ Same(z, y)
  BY <1>4, <1>5, DrainKeeps
<1>7. x = Resumed(y)
  BY <1>1, <1>3, <1>5 DEF new_state, Resumed
<1>8. Row(x, order) /\ Settled(x) /\ Same(y, x)
  BY <1>6, <1>7, ResumedKeeps
<1> QED BY <1>2, <1>4, <1>6, <1>8 DEF Same

-----------------------------------------------------------------------------
(* The steps. *)

(* What a handler may leave: it has executed and said what the order new   *)
(* gives.                                                                  *)
Left(x, new) ==
  /\ Row(x, new) /\ Settled(x) /\ x.v <= MaxView /\ x.lost <= SLOTS
  /\ Extends(order, new)

(* Forgetting the replies of the last step keeps the invariant. *)
LEMMA UnsaidKeeps ==
  ASSUME NEW x, NEW ord, Row(x, ord), Settled(x), NEW y, y = [x EXCEPT !.said = {}]
  PROVE  Row(y, ord) /\ Settled(y) /\ y.said = {} /\ y.v = x.v /\ y.lost = x.lost
<1>1. PICK none : none = {}
  OBVIOUS
<1>2. none \in Saids /\ y = [x EXCEPT !.said = none]
  BY <1>1 DEF Saids
<1>3. x \in Rows
  BY DEF Row
<1>4. /\ y \in Rows /\ y.v = x.v /\ y.nv = x.nv /\ y.limbo = x.limbo /\ y.fetching = x.fetching
      /\ y.seqno = x.seqno /\ y.plog = x.plog /\ y.le = x.le /\ y.lte = x.lte /\ y.mem = x.mem
      /\ y.rqueue = x.rqueue /\ y.ro = x.ro /\ y.slot = x.slot /\ y.vt = x.vt
      /\ y.tent = x.tent /\ y.lost = x.lost /\ y.said = none
  BY <1>2, <1>3 DEF Rows
<1>5. QueueOK(y) /\ Timed(y) /\ Settled(y)
  BY <1>4 DEF Row, QueueOK, Timed, Settled, Watches, Buffers, can_execute, is_primary
<1>6. Honest(y, ord)
  BY <1>1, <1>4 DEF Row, Honest
<1>7. Kept(x, y)
  BY <1>4 DEF Kept
<1> QED BY <1>1, <1>4, <1>5, <1>6, <1>7, KeptRow

(* A step of one replica keeps the invariant of all. *)
LEMMA BecomesKeeps ==
  ASSUME IInv, NEW x, Left(x, order'), Becomes(x), sent' \in [Clients -> Nat]
  PROVE  IInv'
<1>1. /\ Row(rp', order') /\ Settled(rp') /\ (rp').said = {} /\ (rp').v = x.v /\ (rp').lost = x.lost
  BY UnsaidKeeps DEF Left, Becomes
<1>2. (rp').v <= MaxView /\ (rp').lost <= SLOTS /\ OrderOK(order')
  BY <1>1 DEF Left, Extends
<1>3. x.said \subseteq [c : Clients, rep : Reps] /\ \A a \in x.said : Final(order', a.c, a.rep)
  BY DEF Left, Row, Rows, Saids, Honest
<1>4. answers' \subseteq [c : Clients, rep : Reps]
  BY <1>3 DEF Becomes, IInv
<1>5. \A a \in answers' : Final(order', a.c, a.rep)
  BY <1>3, FinalExtended DEF Becomes, IInv, Left
<1> QED BY <1>1, <1>2, <1>4, <1>5 DEF IInv

(* The order extends itself. *)
LEMMA ExtendsSelf ==
  ASSUME OrderOK(order)
  PROVE  Extends(order, order)
BY DEF Extends, OrderOK

(* What was sent is a request. *)
LEMMA SentIsReqs ==
  ASSUME sent \in [Clients -> Nat]
  PROVE  Sent \subseteq Reqs
BY DEF Sent, Request, Reqs

(* What a primary may propose is a batch. *)
LEMMA BatchesAreBatches ==
  ASSUME sent \in [Clients -> Nat], NEW b \in Batches
  PROVE  IsBatch(b) /\ b # <<>>
<1>1. CASE \E q \in Sent : b = <<q>>
  <2>1. PICK q \in Reqs : b = <<q>>
    BY <1>1, SentIsReqs
  <2> QED BY <2>1 DEF IsBatch
<1>2. CASE b \in Sent \X Sent /\ b[1].c # b[2].c
  <2>1. PICK q \in Reqs, d \in Reqs : b = <<q, d>> /\ q.c # d.c
    BY <1>2, SentIsReqs
  <2> QED BY <2>1 DEF IsBatch
<1> QED BY <1>1, <1>2 DEF Batches

(* A proposal for n fits, and is what is committed for n. *)
LEMMA ProposalFits ==
  ASSUME sent \in [Clients -> Nat], NEW r, Row(r, order), NEW n \in 1..max_out,
         NEW b \in Proposals(r, n)
  PROVE  /\ IsBatch(b) /\ b # <<>> /\ r.plog[n] \in {<<>>, b}
         /\ is_primary(r) => r.plog[n] = b
         /\ n <= Len(order) => order[n] = b
<1>1. IsBatch(r.plog[n])
  BY DEF Row, Logged
<1> QED BY <1>1, BatchesAreBatches DEF Proposals

(* Another batch extends the order. *)
LEMMA AppendExtends ==
  ASSUME NEW ord, OrderOK(ord), Len(ord) < max_out, NEW b, IsBatch(b)
  PROVE  Extends(ord, Append(ord, b))
<1>1. /\ ord \in Seq(Seq(Reqs)) /\ b \in Seq(Reqs) /\ Len(ord) \in Nat /\ max_out \in Nat
  BY SizesAssumption DEF OrderOK, IsBatch
<1>2. PICK S : S = Seq(Reqs)
  OBVIOUS
<1>3. PICK new : new = Append(ord, b)
  OBVIOUS
<1>4. /\ new \in Seq(S) /\ Len(new) = Len(ord) + 1 /\ new[Len(ord) + 1] = b
      /\ \A n \in 1..Len(ord) : new[n] = ord[n]
  BY <1>1, <1>2, <1>3
<1>5. \A n \in 1..Len(new) : n \in 1..Len(ord) \/ n = Len(ord) + 1
  BY <1>1, <1>4
<1>6. OrderOK(new)
  <2>1. \A n \in 1..Len(new) : IsBatch(new[n])
    BY <1>4, <1>5 DEF OrderOK
  <2> QED BY <1>1, <1>2, <1>4, <2>1 DEF OrderOK
<1> QED BY <1>1, <1>3, <1>4, <1>6 DEF Extends

(* The facts every step starts from. *)
LEMMA Start ==
  ASSUME IInv
  PROVE  /\ Row(rp, order) /\ Settled(rp) /\ OrderOK(order) /\ sent \in [Clients -> Nat]
         /\ Extends(order, order) /\ rp.v <= MaxView /\ rp.lost <= SLOTS
         /\ rp.v \in Nat /\ rp.lost \in Nat /\ SLOTS \in Nat /\ MaxView \in Nat
BY ExtendsSelf, SizesAssumption DEF IInv, Row, Rows

(* The request clocks of the clients. *)
LEMMA SendStep ==
  ASSUME IInv, send_request
  PROVE  IInv'
<1>1. sent' \in [Clients -> Nat]
  BY DEF send_request, IInv
<1> QED BY <1>1 DEF send_request, IInv

(* ReceiveRequest keeps the invariant. *)
LEMMA ReceiveStep ==
  ASSUME IInv, ReceiveRequest
  PROVE  IInv'
<1>1. PICK q \in Sent : Up /\ Becomes(handle_Request(rp, q)) /\ sent' = sent /\ order' = order
  BY DEF ReceiveRequest
<1>2. PICK x : x = handle_Request(rp, q)
  OBVIOUS
<1>3. q \in Reqs
  BY Start, SentIsReqs
<1>4. Row(x, order) /\ Settled(x) /\ x.v = rp.v /\ x.lost \in {rp.lost, rp.lost + 1}
  BY <1>2, <1>3, Start, RequestKeeps
<1>5. x.v <= MaxView /\ x.lost <= SLOTS
  BY <1>1, <1>4, Start DEF Up
<1>6. Left(x, order')
  BY <1>1, <1>4, <1>5, Start DEF Left
<1> QED BY <1>1, <1>2, <1>6, Start, BecomesKeeps

(* The next number is in the window. *)
LEMMA NextNumber ==
  ASSUME IInv, can_execute(rp)
  PROVE  rp.le + 1 \in 1..max_out /\ rp.le \in Nat /\ max_out \in Nat
BY SizesAssumption DEF IInv, Row, Rows, can_execute

(* Prepared keeps the invariant. *)
LEMMA PreparedStep ==
  ASSUME IInv, Prepared
  PROVE  IInv'
<1>1. PICK b \in Proposals(rp, rp.le + 1) : Becomes(execute_prepared(rp, b, FALSE))
  BY DEF Prepared
<1>2. can_execute(rp) /\ rp.lte = rp.le /\ sent' = sent /\ order' = order
  BY DEF Prepared
<1>3. PICK x : x = execute_prepared(rp, b, FALSE)
  OBVIOUS
<1>4. Fits(rp, b)
  BY <1>1, <1>2, Start, NextNumber, ProposalFits DEF Fits
<1>5. Row(x, order) /\ Settled(x) /\ Same(rp, x)
  BY <1>2, <1>3, <1>4, Start, PreparedKeeps
<1>6. Left(x, order')
  BY <1>2, <1>5, Start DEF Left, Same
<1> QED BY <1>1, <1>2, <1>3, <1>6, Start, BecomesKeeps

(* b may be committed for n; the order after bs committed behind le. *)
Chosen(n, b) == IsBatch(b) /\ (n <= Len(order) => order[n] = b)
Grown(le, bs) ==
  IF le + Len(bs) <= Len(order) THEN order ELSE SubSeq(order, 1, le) \o bs

(* A sequence with another element. *)
LEMMA AppendLast ==
  ASSUME NEW S, NEW s \in Seq(S), NEW e \in S
  PROVE  /\ Append(s, e) \in Seq(S) /\ Len(Append(s, e)) = Len(s) + 1
         /\ Append(s, e)[Len(s) + 1] = e
OBVIOUS

(* A sequence with two more elements. *)
LEMMA ConcatTwo ==
  ASSUME NEW S, NEW s \in Seq(S), NEW b \in S, NEW d \in S
  PROVE  s \o <<b, d>> = Append(Append(s, b), d)
OBVIOUS

(* The order after one batch has committed ... *)
LEMMA OneOrdered ==
  ASSUME NEW le \in Nat, OrderOK(order), le + 1 <= max_out, le <= Len(order), NEW b, Chosen(le + 1, b)
  PROVE  /\ Extends(order, Grown(le, <<b>>)) /\ Len(Grown(le, <<b>>)) >= le + 1
         /\ Grown(le, <<b>>)[le + 1] = b
         /\ le + 1 > Len(order) => Grown(le, <<b>>) = Append(order, b)
<1>1. Len(order) \in Nat /\ max_out \in Nat /\ order \in Seq(Seq(Reqs)) /\ b \in Seq(Reqs)
  BY SizesAssumption DEF OrderOK, IsBatch, Chosen
<1>2. PICK bs : bs = <<b>>
  OBVIOUS
<1>3. Len(bs) = 1
  BY <1>2
<1>4. CASE le + 1 <= Len(order)
  <2>1. Grown(le, bs) = order
    BY <1>3, <1>4 DEF Grown
  <2> QED BY <1>1, <1>2, <1>4, <2>1, ExtendsSelf DEF Chosen
<1>5. CASE ~(le + 1 <= Len(order))
  <2>1. le = Len(order) /\ Len(order) < max_out
    BY <1>1, <1>5
  <2>2. SubSeq(order, 1, le) = order
    BY <1>1, <2>1
  <2>3. Grown(le, bs) = Append(order, b)
    BY <1>1, <1>2, <1>3, <1>5, <2>2, ConcatLast DEF Grown
  <2>4. Extends(order, Append(order, b))
    BY <2>1, AppendExtends DEF Chosen
  <2>5. Len(Append(order, b)) = le + 1 /\ Append(order, b)[le + 1] = b
    BY <1>1, <2>1, AppendLast
  <2>6. le + 1 >= le + 1
    OBVIOUS
  <2> QED BY <1>2, <2>3, <2>4, <2>5, <2>6
<1> QED BY <1>4, <1>5

(* ... and after two. *)
LEMMA TwoOrdered ==
  ASSUME NEW le \in Nat, OrderOK(order), le + 2 <= max_out, le <= Len(order),
         NEW b, Chosen(le + 1, b), NEW d, Chosen(le + 2, d)
  PROVE  /\ Extends(order, Grown(le, <<b, d>>)) /\ Len(Grown(le, <<b, d>>)) >= le + 2
         /\ Grown(le, <<b, d>>)[le + 1] = b /\ Grown(le, <<b, d>>)[le + 2] = d
<1>1. /\ Len(order) \in Nat /\ max_out \in Nat /\ order \in Seq(Seq(Reqs))
      /\ b \in Seq(Reqs) /\ d \in Seq(Reqs)
  BY SizesAssumption DEF OrderOK, IsBatch, Chosen
<1>2. PICK bs : bs = <<b, d>>
  OBVIOUS
<1>3. Len(bs) = 2
  BY <1>2
<1>4. CASE le + 2 <= Len(order)
  <2>1. Grown(le, bs) = order
    BY <1>3, <1>4 DEF Grown
  <2>2. le + 1 <= Len(order) /\ Len(order) >= le + 2
    BY <1>1, <1>4
  <2> QED BY <1>2, <1>4, <2>1, <2>2, ExtendsSelf DEF Chosen
<1>5. CASE ~(le + 2 <= Len(order))
  <2>1. PICK z : z = Append(SubSeq(order, 1, le), b)
    OBVIOUS
  <2>2. Extends(order, z) /\ Len(z) = le + 1 /\ z[le + 1] = b
    <3>1. CASE le + 1 <= Len(order)
      <4>1. le + 1 = Len(order) /\ le + 1 \in 1..Len(order) /\ (le + 1) - 1 = le
        BY <1>1, <1>5, <3>1
      <4>2. SubSeq(order, 1, le + 1) = Append(SubSeq(order, 1, le), order[le + 1])
        BY <4>1, UptoFacts
      <4>3. SubSeq(order, 1, le + 1) = order
        BY <1>1, <4>1
      <4>4. z = order
        BY <2>1, <4>1, <4>2, <4>3 DEF Chosen
      <4> QED BY <3>1, <4>1, <4>4, ExtendsSelf DEF Chosen
    <3>2. CASE ~(le + 1 <= Len(order))
      <4>1. le = Len(order) /\ Len(order) < max_out
        BY <1>1, <3>2
      <4>2. z = Append(order, b)
        BY <1>1, <2>1, <4>1
      <4> QED BY <1>1, <4>1, <4>2, AppendExtends, AppendLast DEF Chosen
    <3> QED BY <3>1, <3>2
  <2>3. OrderOK(z) /\ Len(z) < max_out /\ z \in Seq(Seq(Reqs))
    BY <1>1, <2>2 DEF Extends, OrderOK
  <2>4. Extends(z, Append(z, d))
    BY <2>3, AppendExtends DEF Chosen
  <2>5. Len(Append(z, d)) = le + 2 /\ Append(z, d)[le + 2] = d
    <3>1. Len(Append(z, d)) = Len(z) + 1 /\ Append(z, d)[Len(z) + 1] = d
      BY <1>1, <2>3, AppendLast
    <3>2. Len(z) + 1 = le + 2
      BY <2>2
    <3> QED BY <3>1, <3>2
  <2>6. Grown(le, bs) = Append(z, d)
    <3>1. SubSeq(order, 1, le) \in Seq(Seq(Reqs))
      BY <1>1
    <3>2. SubSeq(order, 1, le) \o bs = Append(z, d)
      BY <1>1, <1>2, <2>1, <3>1, ConcatTwo
    <3> QED BY <1>3, <1>5, <3>2 DEF Grown
  <2>7. le + 1 \in 1..Len(z) /\ le + 2 >= le + 2
    BY <2>2
  <2>8. Append(z, d)[le + 1] = b
    BY <2>2, <2>4, <2>7 DEF Extends
  <2>9. Extends(order, Append(z, d))
    <3>1. Len(order) <= Len(z) /\ Len(z) <= Len(Append(z, d)) /\ Len(z) \in Nat
          /\ Len(Append(z, d)) \in Nat
      BY <2>2, <2>4, <2>5 DEF Extends
    <3>2. \A n \in 1..Len(order) : n \in 1..Len(z)
      BY <1>1, <3>1
    <3>3. Len(order) <= Len(Append(z, d))
      BY <1>1, <3>1
    <3> QED BY <2>2, <2>4, <3>2, <3>3 DEF Extends
  <2> QED BY <1>2, <2>5, <2>6, <2>7, <2>8, <2>9
<1> QED BY <1>4, <1>5

(* Committed keeps the invariant. *)
LEMMA CommittedStep ==
  ASSUME IInv, Committed
  PROVE  IInv'
<1>1. can_execute(rp) /\ rp.le <= Len(order)
  BY DEF Committed
<1>2. rp.le + 1 \in 1..max_out /\ rp.le \in Nat /\ max_out \in Nat
  BY <1>1, NextNumber
<1>3. ASSUME NEW b \in Proposals(rp, rp.le + 1), Commit(<<b>>)
      PROVE  IInv'
  <2>1. PICK bs : bs = <<b>>
    OBVIOUS
  <2>2. Becomes(execute_committed(rp, bs)) /\ sent' = sent /\ order' = Grown(rp.le, bs)
    BY <1>3, <2>1 DEF Commit, Grown
  <2>3. Fits(rp, b) /\ Chosen(rp.le + 1, b)
    BY <1>2, <1>3, Start, ProposalFits DEF Fits, Chosen
  <2>4. rp.le + 1 <= max_out
    BY <1>2
  <2>5. Extends(order, order') /\ Len(order') >= rp.le + 1 /\ order'[rp.le + 1] = b
    <3>1. /\ Extends(order, Grown(rp.le, <<b>>)) /\ Len(Grown(rp.le, <<b>>)) >= rp.le + 1
          /\ Grown(rp.le, <<b>>)[rp.le + 1] = b
      BY <1>1, <1>2, <2>3, <2>4, Start, OneOrdered
    <3> QED BY <2>1, <2>2, <3>1
  <2>6. OrderOK(order') /\ Row(rp, order')
    BY <2>5, Start, RowExtended DEF Extends
  <2>7. rp.le + 1 <= Len(order')
    <3>1. Len(order') \in Nat
      BY <2>6 DEF OrderOK
    <3> QED BY <1>2, <2>5, <3>1
  <2>8. PICK x : x = execute_committed(rp, bs)
    OBVIOUS
  <2>9. Row(x, order') /\ Settled(x) /\ Same(rp, x)
    BY <1>1, <2>1, <2>3, <2>5, <2>6, <2>7, <2>8, CommitOne
  <2>10. Left(x, order')
    BY <2>5, <2>9, Start DEF Left, Same
  <2> QED BY <2>2, <2>8, <2>10, Start, BecomesKeeps
<1>4. ASSUME rp.le + 2 <= max_out, NEW b \in Proposals(rp, rp.le + 1),
             NEW d \in Proposals(rp, rp.le + 2), Commit(<<b, d>>)
      PROVE  IInv'
  <2>1. PICK bs : bs = <<b, d>>
    OBVIOUS
  <2>2. Becomes(execute_committed(rp, bs)) /\ sent' = sent /\ order' = Grown(rp.le, bs)
    BY <1>4, <2>1 DEF Commit, Grown
  <2>3. Fits(rp, b) /\ Chosen(rp.le + 1, b)
    BY <1>2, <1>4, Start, ProposalFits DEF Fits, Chosen
  <2>4. rp.le + 2 \in 1..max_out
    BY <1>2, <1>4
  <2>5. /\ IsBatch(d) /\ d # <<>> /\ rp.plog[rp.le + 2] \in {<<>>, d}
        /\ is_primary(rp) => rp.plog[rp.le + 2] = d
        /\ rp.le + 2 <= Len(order) => order[rp.le + 2] = d
    BY <1>4, <2>4, Start, ProposalFits
  <2>6. Chosen(rp.le + 2, d)
    BY <2>5 DEF Chosen
  <2>7. /\ Extends(order, order') /\ Len(order') >= rp.le + 2
        /\ order'[rp.le + 1] = b /\ order'[rp.le + 2] = d
    <3>1. /\ Extends(order, Grown(rp.le, <<b, d>>)) /\ Len(Grown(rp.le, <<b, d>>)) >= rp.le + 2
          /\ Grown(rp.le, <<b, d>>)[rp.le + 1] = b /\ Grown(rp.le, <<b, d>>)[rp.le + 2] = d
      BY <1>1, <1>2, <1>4, <2>3, <2>6, Start, TwoOrdered
    <3> QED BY <2>1, <2>2, <3>1
  <2>8. OrderOK(order') /\ Row(rp, order')
    BY <2>7, Start, RowExtended DEF Extends
  <2>9. rp.le + 1 <= Len(order') /\ rp.le + 2 <= Len(order')
    <3>1. Len(order') \in Nat
      BY <2>8 DEF OrderOK
    <3> QED BY <1>2, <2>7, <3>1
  <2>10. PICK x : x = execute_committed(rp, bs)
    OBVIOUS
  <2>11. Row(x, order') /\ Settled(x) /\ Same(rp, x)
    BY <1>1, <1>4, <2>1, <2>3, <2>5, <2>7, <2>8, <2>9, <2>10, CommitTwo
  <2>12. Left(x, order')
    BY <2>7, <2>11, Start DEF Left, Same
  <2> QED BY <2>2, <2>10, <2>12, Start, BecomesKeeps
<1> QED BY <1>3, <1>4 DEF Committed

(* GroupCommits keeps the invariant. *)
LEMMA GroupStep ==
  ASSUME IInv, GroupCommits
  PROVE  IInv'
<1>1. PICK b \in Batches : order' = Append(order, b)
  BY DEF GroupCommits
<1>2. Len(order) < max_out /\ rp' = rp /\ sent' = sent /\ answers' = answers
  BY DEF GroupCommits
<1>3. Extends(order, order')
  BY <1>1, <1>2, Start, BatchesAreBatches, AppendExtends
<1>4. Row(rp, order') /\ OrderOK(order')
  BY <1>3, Start, RowExtended DEF Extends
<1>5. \A a \in answers : Final(order', a.c, a.rep)
  BY <1>3, FinalExtended DEF IInv
<1> QED BY <1>2, <1>4, <1>5 DEF IInv

(* VTimer keeps the invariant. *)
LEMMA TimerStep ==
  ASSUME IInv, VTimer
  PROVE  IInv'
<1>1. sent' = sent /\ order' = order /\ rp.vt = "running" /\ (rp.fetching \/ rp.v < MaxView)
  BY DEF VTimer
<1>2. rp \in Rows /\ "expired" \in Timers /\ "running" \in Timers
  BY Start DEF Row, Timers
<1>3. PICK e : e = [rp EXCEPT !.vt = "expired"]
  OBVIOUS
<1>4. e.fetching = rp.fetching /\ e.vt = "expired"
  BY <1>2, <1>3 DEF Rows
<1>5. Becomes(IF e.fetching THEN [e EXCEPT !.vt = restart(@)] ELSE send_view_change(e))
  BY <1>3 DEF VTimer
<1>6. CASE rp.fetching
  <2>1. restart(e.vt) = "running"
    BY <1>4 DEF restart
  <2>2. [e EXCEPT !.vt = restart(@)] = rp
    BY <1>1, <1>2, <1>3, <2>1 DEF Rows
  <2>3. Becomes(rp)
    BY <1>4, <1>5, <1>6, <2>2
  <2>4. Left(rp, order')
    BY <1>1, Start DEF Left
  <2> QED BY <1>1, <2>3, <2>4, Start, BecomesKeeps
<1>7. CASE ~rp.fetching
  <2>1. PICK x : x = send_view_change(e)
    OBVIOUS
  <2>2. Becomes(x)
    BY <1>4, <1>5, <1>7, <2>1
  <2>3. Row(x, order) /\ Settled(x) /\ x.v = rp.v + 1 /\ x.lost = rp.lost
    BY <1>2, <1>3, <2>1, Start, ViewChangeKeeps
  <2>4. x.v <= MaxView
    BY <1>1, <1>7, <2>3, Start
  <2>5. Left(x, order')
    BY <1>1, <2>3, <2>4, Start DEF Left
  <2> QED BY <1>1, <2>2, <2>5, Start, BecomesKeeps
<1> QED BY <1>6, <1>7

(* FollowViewChange keeps the invariant. *)
LEMMA FollowStep ==
  ASSUME IInv, FollowViewChange
  PROVE  IInv'
<1>1. sent' = sent /\ order' = order /\ rp.v < MaxView /\ Becomes(send_view_change(rp))
  BY DEF FollowViewChange
<1>2. PICK t \in Timers : t = rp.vt
  BY Start DEF Row, Rows
<1>3. [rp EXCEPT !.vt = t] = rp
  BY <1>2, Start DEF Row, Rows
<1>4. PICK x : x = send_view_change([rp EXCEPT !.vt = t])
  OBVIOUS
<1>5. Row(x, order) /\ Settled(x) /\ x.v = rp.v + 1 /\ x.lost = rp.lost
  BY <1>4, Start, ViewChangeKeeps
<1>6. Becomes(x)
  BY <1>1, <1>3, <1>4
<1>7. x.v <= MaxView
  BY <1>1, <1>5, Start
<1>8. Left(x, order')
  BY <1>1, <1>5, <1>7, Start DEF Left
<1> QED BY <1>1, <1>6, <1>8, Start, BecomesKeeps

(* QuorumInView keeps the invariant. *)
LEMMA QuorumStep ==
  ASSUME IInv, QuorumInView
  PROVE  IInv'
<1>1. PICK x : x = [rp EXCEPT !.vt = restart(@), !.limbo = FALSE]
  OBVIOUS
<1>2. sent' = sent /\ order' = order /\ rp.limbo /\ Becomes(x)
  BY <1>1 DEF QuorumInView
<1>3. Row(x, order) /\ Settled(x) /\ x.v = rp.v /\ x.lost = rp.lost
  BY <1>1, <1>2, Start, QuorumKeeps
<1>4. Left(x, order')
  BY <1>2, <1>3, Start DEF Left
<1> QED BY <1>2, <1>4, Start, BecomesKeeps

(* ProcessNewView keeps the invariant. *)
LEMMA NewViewStep ==
  ASSUME IInv, ProcessNewView
  PROVE  IInv'
<1>1. PICK bs \in {order} \cup {Append(order, b) : b \in Batches} :
        Len(bs) <= max_out /\ Becomes(process_new_view(rp, bs))
  BY DEF ProcessNewView
<1>2. sent' = sent /\ order' = order /\ ~rp.nv
  BY DEF ProcessNewView
<1>3. Extends(order, bs)
  <2>1. CASE bs = order
    BY <2>1, Start
  <2>2. CASE bs # order
    <3>1. PICK b \in Batches : bs = Append(order, b)
      BY <1>1, <2>2
    <3>2. IsBatch(b)
      BY Start, BatchesAreBatches
    <3>3. /\ order \in Seq(Seq(Reqs)) /\ b \in Seq(Reqs) /\ Len(order) \in Nat /\ max_out \in Nat
      BY <3>2, Start, SizesAssumption DEF OrderOK, IsBatch
    <3>4. Len(bs) = Len(order) + 1
      BY <3>1, <3>3, AppendLast
    <3>5. Len(order) < max_out
      BY <1>1, <3>3, <3>4
    <3> QED BY <3>1, <3>2, <3>5, Start, AppendExtends
  <2> QED BY <2>1, <2>2
<1>4. PICK x : x = process_new_view(rp, bs)
  OBVIOUS
<1>5. Row(x, order) /\ Settled(x) /\ x.v = rp.v /\ x.lost = rp.lost
  BY <1>2, <1>3, <1>4, Start, NewViewKeeps
<1>6. Left(x, order')
  BY <1>2, <1>5, Start DEF Left
<1> QED BY <1>1, <1>2, <1>4, <1>6, Start, BecomesKeeps

(* StartFetch keeps the invariant. *)
LEMMA FetchStep ==
  ASSUME IInv, StartFetch
  PROVE  IInv'
<1>1. PICK x : x = [rollback(rp) EXCEPT !.vt = stop(@), !.fetching = TRUE]
  OBVIOUS
<1>2. sent' = sent /\ order' = order /\ ~rp.fetching /\ Becomes(x)
  BY <1>1 DEF StartFetch
<1>3. Row(x, order) /\ Settled(x) /\ x.v = rp.v /\ x.lost = rp.lost
  BY <1>1, <1>2, Start, FetchKeeps
<1>4. Left(x, order')
  BY <1>2, <1>3, Start DEF Left
<1> QED BY <1>2, <1>4, Start, BecomesKeeps

(* NewState keeps the invariant. *)
LEMMA NewStateStep ==
  ASSUME IInv, NewState
  PROVE  IInv'
<1>1. rp.fetching /\ sent' = sent /\ order' = order
  BY DEF NewState
<1>2. PICK c \in rp.le..Len(order) :
        \/ Becomes(new_state(rp, c, <<>>))
        \/ /\ c < Len(order) /\ rp.nv
           /\ \E b \in Proposals(rp, c + 1) : Becomes(new_state(rp, c, <<b>>))
  BY DEF NewState
<1>3. ASSUME NEW x, Row(x, order), Settled(x), x.v = rp.v, x.lost = rp.lost, Becomes(x)
      PROVE  IInv'
  <2>1. Left(x, order')
    BY <1>1, <1>3, Start DEF Left
  <2> QED BY <1>1, <1>3, <2>1, Start, BecomesKeeps
<1>4. CASE Becomes(new_state(rp, c, <<>>))
  <2>1. PICK bs : bs = <<>>
    OBVIOUS
  <2>2. PICK x : x = new_state(rp, c, bs)
    OBVIOUS
  <2>3. Ready(rp, c, bs, bs)
    BY <2>1 DEF Ready
  <2>4. Row(x, order) /\ Settled(x) /\ x.v = rp.v /\ x.lost = rp.lost
    BY <1>1, <2>2, <2>3, Start, NewStateKeeps
  <2> QED BY <1>3, <1>4, <2>1, <2>2, <2>4
<1>5. CASE /\ c < Len(order) /\ rp.nv
           /\ \E b \in Proposals(rp, c + 1) : Becomes(new_state(rp, c, <<b>>))
  <2>1. PICK b \in Proposals(rp, c + 1) : Becomes(new_state(rp, c, <<b>>))
    BY <1>5
  <2>2. PICK bs : bs = <<b>>
    OBVIOUS
  <2>3. PICK x : x = new_state(rp, c, bs)
    OBVIOUS
  <2>4. c \in Nat /\ Len(order) \in Nat /\ Len(order) <= max_out /\ max_out \in Nat
    BY <1>2, Start, SizesAssumption DEF Row, Rows, OrderOK
  <2>5. c + 1 \in 1..max_out /\ c + 1 <= Len(order)
    BY <1>5, <2>4
  <2>6. /\ IsBatch(b) /\ b # <<>> /\ rp.plog[c + 1] \in {<<>>, b}
        /\ is_primary(rp) => rp.plog[c + 1] = b
        /\ order[c + 1] = b
    BY <2>1, <2>5, Start, ProposalFits
  <2>7. Ready(rp, c, bs, b)
    BY <1>5, <2>2, <2>6 DEF Ready
  <2>8. Row(x, order) /\ Settled(x) /\ x.v = rp.v /\ x.lost = rp.lost
    BY <1>1, <2>3, <2>7, Start, NewStateKeeps
  <2> QED BY <1>3, <2>1, <2>2, <2>3, <2>8
<1> QED BY <1>2, <1>4, <1>5

(* A step that changes nothing keeps the invariant. *)
LEMMA StutterStep ==
  ASSUME IInv, UNCHANGED vars
  PROVE  IInv'
BY DEF vars, IInv

(* The invariant holds initially. *)
LEMMA InitIInv ==
  ASSUME Init
  PROVE  IInv
<1>1. PICK slot : slot = [c \in Clients |-> Request(c, 0)]
  OBVIOUS
<1>2. PICK out : out = [c \in Clients |-> [rid |-> 0, v |-> 0]]
  OBVIOUS
<1>3. PICK plog : plog = [n \in 1..max_out |-> <<>>]
  OBVIOUS
<1>4. PICK tent : tent = [c \in Clients |-> TRUE]
  OBVIOUS
<1>5. PICK none, empty, mem : none = {} /\ empty = <<>> /\ mem = NewMem
  OBVIOUS
<1>6. /\ slot \in Slots /\ out \in Outs /\ plog \in Logs /\ tent \in Marks /\ none \in Saids
      /\ empty \in Queues /\ mem \in Mems /\ "stopped" \in Timers /\ max_out \in Nat
  BY <1>1, <1>2, <1>3, <1>4, <1>5, NewMemType, SizesAssumption
     DEF Slots, Outs, Logs, Marks, Saids, Queues, Timers, Request, Reqs
<1>7. rp = [v |-> 0, nv |-> TRUE, limbo |-> FALSE, seqno |-> 0, le |-> 0, lte |-> 0,
            fetching |-> FALSE, rqueue |-> empty, ro |-> empty, slot |-> slot, out |-> out,
            vt |-> "stopped", plog |-> plog, mem |-> mem, tent |-> tent, said |-> none, lost |-> 0]
  BY <1>1, <1>2, <1>3, <1>4, <1>5 DEF Init
<1>8. /\ rp \in Rows /\ rp.v = 0 /\ rp.nv = TRUE /\ rp.limbo = FALSE /\ rp.seqno = 0 /\ rp.le = 0
      /\ rp.lte = 0 /\ rp.fetching = FALSE /\ rp.rqueue = empty /\ rp.ro = empty /\ rp.slot = slot
      /\ rp.vt = "stopped" /\ rp.plog = plog /\ rp.mem = mem /\ rp.tent = tent /\ rp.said = none
      /\ rp.lost = 0
  BY <1>6, <1>7 DEF Rows
<1>9. order = <<>> /\ answers = {} /\ sent \in [Clients -> Nat]
  BY DEF Init
<1>10. order \in Seq(Seq(Reqs)) /\ Len(order) = 0 /\ SubSeq(order, 1, 0) = <<>>
  BY <1>9
<1>11. OrderOK(order)
  BY <1>6, <1>10 DEF OrderOK
<1>12. QueueOK(rp)
  BY <1>1, <1>5, <1>8, EmptyInjective DEF QueueOK, Request
<1>13. Timed(rp)
  BY <1>8 DEF Timed
<1>14. Logged(rp)
  BY <1>3, <1>8, EmptyBatch DEF Logged
<1>15. ~(rp.lte > rp.le) /\ rp.lte \in rp.le..rp.le + 1 /\ rp.le <= Len(order)
  BY <1>8, <1>10
<1>16. Counted(rp, order)
  BY <1>15 DEF Counted
<1>17. Follows(rp, order)
  <2>1. SubSeq(order, 1, rp.le) \o <<>> = <<>>
    BY <1>8, <1>10
  <2> QED BY <1>5, <1>8, <1>15, <2>1, ResultEmpty DEF Follows
<1>18. Honest(rp, order)
  BY <1>4, <1>5, <1>8 DEF Honest
<1>19. Settled(rp)
  BY <1>5, <1>8 DEF Settled, Watches, Buffers
<1>20. rp.v <= MaxView /\ rp.lost <= SLOTS /\ rp.said = {}
  BY <1>5, <1>8, SizesAssumption
<1> QED BY <1>8, <1>9, <1>11, <1>12, <1>13, <1>14, <1>16, <1>17, <1>18, <1>19, <1>20 DEF IInv, Row

-----------------------------------------------------------------------------
(* Theorems *)

(* Every step keeps the invariant: the replica's row describes a replica   *)
(* that follows the common order, and nothing it said is taken back.       *)
THEOREM RequestsInvariant == Spec => []IInv
<1>1. Init => IInv
  BY InitIInv
<1>2. IInv /\ [Next]_vars => IInv'
  BY SendStep, ReceiveStep, PreparedStep, CommittedStep, GroupStep, TimerStep, FollowStep,
     QuorumStep, NewViewStep, FetchStep, NewStateStep, StutterStep DEF Next
<1> QED BY <1>1, <1>2, PTL DEF Spec

(* The invariant has the types. *)
LEMMA ImpliesTypeOK ==
  ASSUME IInv
  PROVE  TypeOK
<1>1. /\ rp \in Rows /\ QueueOK(rp) /\ Counted(rp, order) /\ Len(order) \in Nat
  BY DEF IInv, Row, OrderOK
<1>2. /\ rp.le \in Nat /\ rp.lte \in Nat /\ rp.seqno \in 0..max_out /\ rp.vt \in Timers
      /\ rp.v \in Nat /\ rp.lost \in Nat /\ rp.rqueue \in Queues /\ rp.ro \in Queues
  BY <1>1 DEF Rows
<1>3. rp.le \in 0..Len(order) /\ rp.lte \in rp.le..rp.le + 1
  BY <1>1, <1>2 DEF Counted
<1>4. rp.v \in 0..MaxView /\ rp.lost \in 0..SLOTS /\ rp.said = {}
  BY <1>2, SizesAssumption DEF IInv
<1>5. ASSUME NEW s \in Queues PROVE ToSet(s) \subseteq Clients
  BY DEF ToSet, Queues
<1> QED BY <1>1, <1>2, <1>3, <1>4, <1>5 DEF TypeOK, QueueOK, Timers

(* The fields have their types and their bounds, and both queues link a    *)
(* client at most once (Req_queue::append() replaces the request a client  *)
(* has in the queue).                                                      *)
THEOREM RequestsTypeOK == Spec => []TypeOK
BY RequestsInvariant, ImpliesTypeOK, PTL

(* A replica that does not fetch has executed exactly the common order, and*)
(* at most one batch tentatively: a request that is ordered twice, sent    *)
(* again, rolled back in a view change or covered by a transferred state is*)
(* executed once (execute_prepared(), execute_committed(), rollback(),     *)
(* new_state()).                                                           *)
THEOREM ReplicaFollowsOrder == Spec => []StateFollowsOrder
<1>1. IInv => StateFollowsOrder
  BY DEF IInv, Row, Follows, StateFollowsOrder
<1> QED BY <1>1, RequestsInvariant, PTL

(* A reply sent without the tentative mark is the one the common order     *)
(* gives, and stays so, whatever view changes, rollbacks and transfers     *)
(* follow (Rep_info::send_reply(), commit_reply(), new_state()).           *)
THEOREM CommittedRepliesFinal == Spec => []CommittedReplyIsFinal
<1>1. IInv => CommittedReplyIsFinal
  BY DEF IInv, CommittedReplyIsFinal, Final, Upto
<1> QED BY <1>1, RequestsInvariant, PTL

(* A backup with a request pending in an active view has its view-change   *)
(* timer running, after every handler.                                     *)
THEOREM PendingRequestsTimed == Spec => []PendingRequestTimed
<1>1. IInv => PendingRequestTimed
  BY DEF IInv, Settled, Watches, PendingRequestTimed
<1> QED BY <1>1, RequestsInvariant, PTL

(* A replica with an empty queue does not time the primary of its view: the*)
(* timer is stopped by the removal that empties the queue.                 *)
THEOREM IdleReplicasNotTimed == Spec => []IdleReplicaNotTimed
<1>1. IInv => IdleReplicaNotTimed
  BY DEF IInv, Row, Timed, IdleReplicaNotTimed
<1> QED BY <1>1, RequestsInvariant, PTL

(* With the congestion window of the code (Replica.h: congestion_window =  *)
(* 1) no request waits in a primary's queue that the primary may propose.  *)
THEOREM BufferedRequestsProposed ==
  ASSUME congestion_window = 1
  PROVE  Spec => []BufferedIsProposed
<1>1. IInv => BufferedIsProposed
  BY DEF IInv, Settled, Buffers, BufferedIsProposed
<1> QED BY <1>1, RequestsInvariant, PTL
=============================================================================
