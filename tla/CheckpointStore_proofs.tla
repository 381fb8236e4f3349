----------------------- MODULE CheckpointStore_proofs -----------------------
(***************************************************************************)
(* Proofs about CheckpointStore for a window of any size, any checkpoint   *)
(* interval and any number of sequence numbers.                            *)
(***************************************************************************)
EXTENDS CheckpointStore, Foundations

(* The number of checkpoints from p to n. *)
steps(n, p) == (n - p) \div checkpoint_interval

IsCheckpoint(n) == n \in Nat /\ n % checkpoint_interval = 0

Ring == 0..(NUM_CERTS - 1)

(* The two heads move together.  The guard of the region's truncate(),      *)
(* which compares the new head with head_index, never skips a truncation    *)
(* because head_index is at most the number of checkpoints up to head.      *)
HeadsTogether ==
  /\ head_ \in Checkpoints /\ head = head_
  /\ head_index_ \in Ring /\ head_index \in Ring
  /\ head_index <= steps(head, 0)

(* A certificate of the window is empty, or holds messages of its number    *)
(* that were copied where the region looks them up and are still there.     *)
Slot(n) ==
  \/ certs_[log_index(n)] = Empty
  \/ /\ certs_[log_index(n)] = [n |-> n, at |-> certificate_index(n)]
     /\ checkpoint_certs[certificate_index(n)] = n

IInv ==
  /\ HeadsTogether
  /\ certs_ \in [Ring -> [n: Nat, at: Ring]] /\ checkpoint_certs \in [Ring -> Nat]
  /\ \A n \in Checkpoints : log_within_range(n) => Slot(n)

(* The interval is positive and the ring has one element more than there    *)
(* are intervals in the window.                                             *)
LEMMA Sizes ==
  /\ checkpoint_interval \in Nat \ {0}
  /\ NUM_CERTS \in Nat \ {0} /\ max_out = checkpoint_interval * (NUM_CERTS - 1)
<1>0. checkpoint_interval \in Nat \ {0} /\ max_out \in Nat \ {0} /\ max_out % checkpoint_interval = 0
  BY CheckpointStoreAssumption
<1>1. PICK q : q = max_out \div checkpoint_interval
  OBVIOUS
<1>2. max_out = checkpoint_interval * q + 0 /\ q \in Int
  BY <1>0, <1>1, DivMod
<1>3. q >= 0
  <2> SUFFICES ASSUME -q >= 1 PROVE FALSE
    BY <1>2
  <2>1. checkpoint_interval * (-q) >= checkpoint_interval
    BY <1>0, <1>2, PositiveProduct
  <2>2. checkpoint_interval * (-q) = -(checkpoint_interval * q) /\ checkpoint_interval * q \in Int
    BY <1>0, <1>2, Products
  <2> QED BY <1>0, <1>2, <2>1, <2>2
<1>4. NUM_CERTS = q + 1
  BY <1>1 DEF NUM_CERTS
<1>5. checkpoint_interval * q \in Int
  BY <1>0, <1>2, Products
<1> QED BY <1>0, <1>2, <1>3, <1>4, <1>5

(* Checkpoints are whole numbers of intervals apart. *)
LEMMA StepFacts ==
  ASSUME NEW n, NEW p, IsCheckpoint(n), IsCheckpoint(p)
  PROVE  steps(n, p) \in Int /\ n - p = checkpoint_interval * steps(n, p)
<1>0. /\ checkpoint_interval \in Nat \ {0} /\ checkpoint_interval \in Int
      /\ checkpoint_interval > 0
  BY Sizes
<1>1. n \in Int /\ p \in Int /\ n % checkpoint_interval = 0 /\ p % checkpoint_interval = 0
  BY DEF IsCheckpoint
<1>2. PICK a \in Int : n = checkpoint_interval * a + 0
  BY <1>0, <1>1, Rounds
<1>3. PICK b \in Int : p = checkpoint_interval * b + 0
  BY <1>0, <1>1, Rounds
<1>4. PICK x, d \in Int : x = n - p /\ d = a - b
  BY <1>2, <1>3
<1>5. x \in Int /\ x = checkpoint_interval * d + 0
  BY <1>0, <1>1, <1>2, <1>3, <1>4, Products
<1>6. x \div checkpoint_interval = d
  BY <1>0, <1>5, DivModUnique
<1>7. steps(n, p) = d
  BY <1>4, <1>6 DEF steps
<1>8. checkpoint_interval * d \in Int
  BY <1>0, Products
<1> QED BY <1>4, <1>5, <1>7, <1>8

(* The window, counted in checkpoints. *)
LEMMA WindowSteps ==
  ASSUME NEW n, NEW p, IsCheckpoint(n), IsCheckpoint(p)
  PROVE  /\ p <= n <=> 0 <= steps(n, p)
         /\ n <= p + max_out <=> steps(n, p) <= NUM_CERTS - 1
         /\ n = p <=> steps(n, p) = 0
<1>0. /\ checkpoint_interval \in Int /\ checkpoint_interval > 0
      /\ NUM_CERTS - 1 \in Int /\ max_out = checkpoint_interval * (NUM_CERTS - 1)
      /\ n \in Int /\ p \in Int
  BY Sizes DEF IsCheckpoint
<1>1. PICK d \in Int : d = steps(n, p) /\ n - p = checkpoint_interval * d
  BY StepFacts
<1>2. PICK k \in Int : k = NUM_CERTS - 1
  BY <1>0
<1>3. /\ checkpoint_interval * 0 <= checkpoint_interval * d <=> 0 <= d
      /\ checkpoint_interval * d <= checkpoint_interval * k <=> d <= k
      /\ checkpoint_interval * d = checkpoint_interval * 0 <=> d = 0
      /\ checkpoint_interval * 0 = 0 /\ checkpoint_interval * k \in Int
  BY <1>0, ProductOrder, Products
<1> QED BY <1>0, <1>1, <1>2, <1>3

(* Steps add up. *)
LEMMA StepsAdd ==
  ASSUME NEW n, NEW p, NEW q, IsCheckpoint(n), IsCheckpoint(p), IsCheckpoint(q)
  PROVE  steps(n, q) = steps(n, p) + steps(p, q)
<1>0. /\ checkpoint_interval \in Int /\ checkpoint_interval > 0
      /\ n \in Int /\ p \in Int /\ q \in Int
  BY Sizes DEF IsCheckpoint
<1>1. PICK a \in Int : a = steps(n, q) /\ n - q = checkpoint_interval * a
  BY StepFacts
<1>2. PICK b \in Int : b = steps(n, p) /\ n - p = checkpoint_interval * b
  BY StepFacts
<1>3. PICK c \in Int : c = steps(p, q) /\ p - q = checkpoint_interval * c
  BY StepFacts
<1>4. checkpoint_interval * a = checkpoint_interval * (b + c)
  <2>1. checkpoint_interval * (b + c) = checkpoint_interval * b + checkpoint_interval * c
    BY <1>0, Products
  <2> QED BY <1>0, <1>1, <1>2, <1>3, <2>1
<1>5. a = b + c
  BY <1>0, <1>4, ProductOrder
<1> QED BY <1>1, <1>2, <1>3, <1>5

-----------------------------------------------------------------------------
(* The index of n in a ring whose element x is that of p. *)
idx(x, n, p) == (x + steps(n, p)) % NUM_CERTS

(* Both rings are indexed in this way. *)
LEMMA Indexing ==
  ASSUME NEW n
  PROVE  log_index(n) = idx(head_index_, n, head_) /\ certificate_index(n) = idx(head_index, n, head)
BY DEF log_index, certificate_index, idx, steps

(* Checkpoints of a window have indices of their own. *)
LEMMA OwnIndex ==
  ASSUME NEW x \in Ring, NEW n, NEW p, IsCheckpoint(n), IsCheckpoint(p)
  PROVE  /\ idx(x, n, p) \in Ring
         /\ \A m : (/\ IsCheckpoint(m) /\ p <= m /\ m <= p + max_out
                    /\ p <= n /\ n <= p + max_out /\ idx(x, m, p) = idx(x, n, p)) => m = n
<1>0. NUM_CERTS \in Nat \ {0} /\ x \in Int
  BY Sizes DEF Ring
<1>1. PICK a \in Int : a = steps(n, p)
  BY StepFacts
<1>2. PICK y \in Int : y = x + a
  BY <1>0
<1>3. idx(x, n, p) = y % NUM_CERTS
  BY <1>1, <1>2 DEF idx
<1>4. y % NUM_CERTS \in Ring
  BY <1>0, ModRange DEF Ring
<1>5. ASSUME NEW m, IsCheckpoint(m), p <= m, m <= p + max_out, p <= n, n <= p + max_out,
             idx(x, m, p) = idx(x, n, p)
      PROVE  m = n
  <2>1. PICK b \in Int : b = steps(m, p)
    BY <1>5, StepFacts
  <2>2. PICK z \in Int : z = x + b
    BY <1>0
  <2>3. z % NUM_CERTS = y % NUM_CERTS
    <3>1. idx(x, m, p) = z % NUM_CERTS
      BY <2>1, <2>2 DEF idx
    <3> QED BY <1>3, <1>5, <3>1
  <2>4. 0 <= a /\ a <= NUM_CERTS - 1 /\ 0 <= b /\ b <= NUM_CERTS - 1
    BY <1>1, <1>5, <2>1, WindowSteps
  <2>5. z - y < NUM_CERTS /\ y - z < NUM_CERTS
    BY <1>0, <1>2, <2>2, <2>4
  <2>6. z = y
    BY <1>0, <2>3, <2>5, SameIndex
  <2>7. a = b
    BY <1>0, <1>2, <2>2, <2>6
  <2>8. PICK c \in Int : c = steps(m, n)
    BY <1>5, StepFacts
  <2>9. steps(m, p) = steps(m, n) + steps(n, p)
    BY <1>5, StepsAdd
  <2>10. c = 0
    BY <1>1, <2>1, <2>7, <2>8, <2>9
  <2>11. m = n <=> steps(m, n) = 0
    BY <1>5, WindowSteps
  <2>12. steps(m, n) = 0
    BY <2>8, <2>10
  <2> QED BY <2>11, <2>12, Zenon
<1> QED BY <1>3, <1>4, <1>5

(* Sliding the window to h leaves every index as it was. *)
LEMMA SlidIndex ==
  ASSUME NEW x \in Ring, NEW n, NEW h, NEW p, IsCheckpoint(n), IsCheckpoint(h), IsCheckpoint(p)
  PROVE  idx(idx(x, h, p), n, h) = idx(x, n, p)
<1>0. NUM_CERTS \in Nat \ {0} /\ x \in Int
  BY Sizes DEF Ring
<1>1. PICK a \in Int : a = steps(h, p)
  BY StepFacts
<1>2. PICK b \in Int : b = steps(n, h)
  BY StepFacts
<1>3. PICK y \in Int : y = x + a
  BY <1>0
<1>4. steps(n, p) = b + a
  BY <1>1, <1>2, StepsAdd
<1>5. x + (b + a) = y + b
  BY <1>0, <1>3
<1>6. ((y % NUM_CERTS) + b) % NUM_CERTS = (y + b) % NUM_CERTS
  BY <1>0, ReduceSummand
<1>7. idx(x, h, p) = y % NUM_CERTS
  BY <1>1, <1>3 DEF idx
<1>8. idx(idx(x, h, p), n, h) = ((y % NUM_CERTS) + b) % NUM_CERTS
  BY <1>2, <1>7 DEF idx
<1>9. idx(x, n, p) = (y + b) % NUM_CERTS
  BY <1>4, <1>5 DEF idx
<1> QED BY <1>6, <1>8, <1>9

(* The checkpoint one round before n. *)
LEMMA RoundBefore ==
  ASSUME NEW x \in Ring, NEW n, NEW p, IsCheckpoint(n), IsCheckpoint(p), n > p + max_out
  PROVE  \E q \in Nat : /\ IsCheckpoint(q) /\ p <= q /\ q + max_out < n
                        /\ q + max_out + checkpoint_interval = n
                        /\ idx(x, q, p) = idx(x, n, p)
<1>0. /\ NUM_CERTS \in Nat \ {0} /\ x \in Int /\ n \in Nat /\ p \in Nat
      /\ checkpoint_interval \in Nat \ {0} /\ max_out = checkpoint_interval * (NUM_CERTS - 1)
      /\ checkpoint_interval \in Int /\ checkpoint_interval > 0
      /\ n % checkpoint_interval = 0
  BY Sizes DEF Ring, IsCheckpoint
<1>1. PICK a \in Int : a = steps(n, p) /\ n - p = checkpoint_interval * a
  BY StepFacts
<1>2. a >= NUM_CERTS
  <2>1. max_out \in Nat
    BY CheckpointStoreAssumption
  <2>2. ~(n <= p + max_out)
    BY <1>0, <2>1
  <2>3. ~(a <= NUM_CERTS - 1)
    BY <1>1, <2>2, WindowSteps
  <2> QED BY <1>0, <2>3
<1>3. PICK w \in Int : w = checkpoint_interval * NUM_CERTS
  BY <1>0, Products
<1>4. w = max_out + checkpoint_interval
  <2>1. PICK k \in Int : k = NUM_CERTS - 1
    BY <1>0
  <2>2. checkpoint_interval * (k + 1) = checkpoint_interval * k + checkpoint_interval * 1
    BY <1>0, <2>1, Products
  <2>3. checkpoint_interval * 1 = checkpoint_interval /\ k + 1 = NUM_CERTS
    BY <1>0, <2>1, Products
  <2> QED BY <1>0, <1>3, <2>1, <2>2, <2>3
<1>5. checkpoint_interval * NUM_CERTS <= checkpoint_interval * a
  BY <1>0, <1>2, ProductOrder
<1>6. PICK q \in Int : q = n - w
  BY <1>0, <1>3
<1>7. /\ q \in Nat /\ p <= q /\ q + max_out < n
      /\ q + max_out + checkpoint_interval = n
  <2>1. max_out \in Nat /\ checkpoint_interval * a \in Int
    BY <1>0, CheckpointStoreAssumption, Products
  <2> QED BY <1>0, <1>1, <1>3, <1>4, <1>5, <1>6, <2>1
<1>8. IsCheckpoint(q)
  <2>1. n - q = checkpoint_interval * NUM_CERTS /\ NUM_CERTS \in Int /\ n \in Int
    BY <1>0, <1>3, <1>6
  <2>2. n % checkpoint_interval = q % checkpoint_interval
    BY <1>0, <1>6, <2>1, Congruent
  <2> QED BY <1>0, <1>7, <2>2 DEF IsCheckpoint
<1>9. PICK b \in Int : b = steps(q, p) /\ q - p = checkpoint_interval * b
  BY <1>8, StepFacts
<1>10. a = b + NUM_CERTS
  <2>1. checkpoint_interval * (b + NUM_CERTS) = checkpoint_interval * b + checkpoint_interval * NUM_CERTS
    BY <1>0, Products
  <2>2. checkpoint_interval * a = checkpoint_interval * (b + NUM_CERTS)
    BY <1>0, <1>1, <1>3, <1>6, <1>9, <2>1
  <2>3. b + NUM_CERTS \in Int
    BY <1>0
  <2> QED BY <1>0, <2>2, <2>3, ProductOrder
<1>11. PICK y \in Int : y = x + b
  BY <1>0
<1>12. (y + NUM_CERTS) % NUM_CERTS = y % NUM_CERTS
  BY <1>0, NextRound
<1>13. x + a = y + NUM_CERTS
  BY <1>0, <1>10, <1>11
<1>14. idx(x, n, p) = (y + NUM_CERTS) % NUM_CERTS /\ idx(x, q, p) = y % NUM_CERTS
  BY <1>1, <1>9, <1>11, <1>13 DEF idx
<1> QED BY <1>7, <1>8, <1>12, <1>14

-----------------------------------------------------------------------------
(* A new replica has empty rings. *)
LEMMA InitIInv == Init => IInv
<1> SUFFICES ASSUME Init PROVE IInv
  OBVIOUS
<1>0. /\ head_ = 0 /\ head_index_ = 0 /\ head = 0 /\ head_index = 0
      /\ certs_ = [k \in Ring |-> Empty] /\ checkpoint_certs = [k \in Ring |-> 0]
  BY DEF Init, AllEmpty, Ring
<1>1. 0 \in Ring /\ Empty \in [n: Nat, at: Ring]
  BY Sizes DEF Ring, Empty
<1>2. 0 \in Checkpoints /\ IsCheckpoint(0)
  <2>1. /\ checkpoint_interval \in Int /\ checkpoint_interval > 0 /\ MaxSeqno \in Nat
        /\ checkpoint_interval * 0 = 0
    BY Sizes, CheckpointStoreAssumption, Products
  <2>2. 0 = checkpoint_interval * 0 + 0
    BY <2>1
  <2>3. 0 % checkpoint_interval = 0
    BY <2>1, <2>2, DivModUnique
  <2> QED BY <2>1, <2>3 DEF Checkpoints, IsCheckpoint
<1>3. steps(0, 0) = 0
  BY <1>2, WindowSteps
<1>4. HeadsTogether
  BY <1>0, <1>1, <1>2, <1>3 DEF HeadsTogether
<1>5. ASSUME NEW n \in Checkpoints, log_within_range(n) PROVE Slot(n)
  <2>1. IsCheckpoint(n)
    BY DEF Checkpoints, IsCheckpoint
  <2>2. log_index(n) \in Ring
    BY <1>0, <1>1, <1>2, <2>1, Indexing, OwnIndex
  <2> QED BY <1>0, <2>2 DEF Slot
<1> QED BY <1>0, <1>1, <1>4, <1>5 DEF IInv

(* What the invariant says of the heads. *)
LEMMA Heads ==
  ASSUME HeadsTogether
  PROVE  /\ IsCheckpoint(head_) /\ IsCheckpoint(head) /\ head = head_ /\ head_ \in Nat
         /\ head_index_ \in Ring /\ head_index \in Ring
         /\ \A n \in Checkpoints : IsCheckpoint(n) /\ n \in Nat
         /\ \A n \in Checkpoints : log_index(n) \in Ring /\ certificate_index(n) \in Ring
<1>1. \A n \in Checkpoints : IsCheckpoint(n) /\ n \in Nat
  BY DEF Checkpoints, IsCheckpoint
<1>2. /\ IsCheckpoint(head_) /\ IsCheckpoint(head) /\ head = head_ /\ head_ \in Nat
      /\ head_index_ \in Ring /\ head_index \in Ring
  BY <1>1 DEF HeadsTogether
<1>3. ASSUME NEW n \in Checkpoints PROVE log_index(n) \in Ring /\ certificate_index(n) \in Ring
  BY <1>1, <1>2, Indexing, OwnIndex
<1> QED BY <1>1, <1>2, <1>3

(* Two checkpoints of the window share neither a certificate nor the place  *)
(* of their messages.                                                       *)
LEMMA Apart ==
  ASSUME HeadsTogether, NEW m \in Checkpoints, NEW n \in Checkpoints, m # n,
         log_within_range(m), log_within_range(n)
  PROVE  log_index(m) # log_index(n) /\ certificate_index(m) # certificate_index(n)
<1>1. /\ IsCheckpoint(m) /\ IsCheckpoint(n) /\ IsCheckpoint(head_) /\ head = head_
      /\ head_index_ \in Ring /\ head_index \in Ring
  BY Heads
<1>2. head_ <= m /\ m <= head_ + max_out /\ head_ <= n /\ n <= head_ + max_out
  BY DEF log_within_range
<1>3. /\ idx(head_index_, m, head_) # idx(head_index_, n, head_)
      /\ idx(head_index, m, head) # idx(head_index, n, head)
  BY <1>1, <1>2, OwnIndex
<1> QED BY <1>3, Indexing

(* Copying the messages of a checkpoint spoils no other of the window. *)
LEMMA StoreIInv ==
  ASSUME IInv, NEW m \in Checkpoints, store(m)
  PROVE  IInv'
<1>0. /\ HeadsTogether /\ log_within_range(m) /\ m \in Nat
      /\ certs_ \in [Ring -> [n: Nat, at: Ring]] /\ checkpoint_certs \in [Ring -> Nat]
      /\ head_' = head_ /\ head_index_' = head_index_ /\ head' = head /\ head_index' = head_index
  BY DEF IInv, store, Checkpoints
<1>1. PICK i, j, e : i = certificate_index(m) /\ j = log_index(m) /\ e = [n |-> m, at |-> i]
  OBVIOUS
<1>2. i \in Ring /\ j \in Ring
  BY <1>0, <1>1, Heads
<1>3. certs_' = [certs_ EXCEPT ![j] = e] /\ checkpoint_certs' = [checkpoint_certs EXCEPT ![i] = m]
  BY <1>1 DEF store
<1>4. e \in [n: Nat, at: Ring]
  BY <1>0, <1>1, <1>2
<1>5. /\ certs_' \in [Ring -> [n: Nat, at: Ring]] /\ checkpoint_certs' \in [Ring -> Nat]
      /\ certs_'[j] = e /\ checkpoint_certs'[i] = m
      /\ \A k \in Ring : k # j => certs_'[k] = certs_[k]
      /\ \A k \in Ring : k # i => checkpoint_certs'[k] = checkpoint_certs[k]
  BY <1>0, <1>2, <1>3, <1>4
<1>6. \A n : /\ log_index(n)' = log_index(n) /\ certificate_index(n)' = certificate_index(n)
             /\ log_within_range(n)' <=> log_within_range(n)
  BY <1>0 DEF log_index, certificate_index, log_within_range
<1>7. HeadsTogether'
  BY <1>0 DEF HeadsTogether, steps
<1>8. ASSUME NEW n \in Checkpoints, log_within_range(n)' PROVE Slot(n)'
  <2>1. log_within_range(n) /\ log_index(n)' = log_index(n) /\ certificate_index(n)' = certificate_index(n)
    BY <1>6, <1>8
  <2>2. CASE n = m
    BY <1>1, <1>5, <2>1, <2>2 DEF Slot
  <2>3. CASE n # m
    <3>1. log_index(n) # j /\ certificate_index(n) # i
      BY <1>0, <1>1, <2>1, <2>3, Apart
    <3>2. log_index(n) \in Ring /\ certificate_index(n) \in Ring
      BY <1>0, Heads
    <3>3. Slot(n)
      BY <2>1 DEF IInv
    <3> QED BY <1>5, <2>1, <3>1, <3>2, <3>3 DEF Slot
  <2> QED BY <2>2, <2>3
<1> QED BY <1>5, <1>7, <1>8 DEF IInv

(* The region follows the log: the guard of its truncate() does not skip.   *)
LEMMA RegionFollows ==
  ASSUME HeadsTogether, NEW h \in Checkpoints, h > head_, region_truncate(h)
  PROVE  /\ head' = h /\ checkpoint_certs' = checkpoint_certs
         /\ head_index' = IF log_within_range(h) THEN certificate_index(h) ELSE 0
         /\ head_index' \in Ring /\ head_index' <= steps(h, 0)
<1>0. /\ IsCheckpoint(head) /\ head = head_ /\ head \in Nat /\ IsCheckpoint(h) /\ h \in Nat
      /\ head_index \in Ring /\ certificate_index(h) \in Ring /\ head_index <= steps(head, 0)
  BY Heads DEF HeadsTogether
<1>1. IsCheckpoint(0)
  <2>1. checkpoint_interval \in Int /\ checkpoint_interval > 0 /\ checkpoint_interval * 0 = 0
    BY Sizes, Products
  <2>2. 0 = checkpoint_interval * 0 + 0
    BY <2>1
  <2>3. 0 % checkpoint_interval = 0
    BY <2>1, <2>2, DivModUnique
  <2> QED BY <2>3 DEF IsCheckpoint
<1>2. head_index \in Nat /\ NUM_CERTS \in Nat \ {0} /\ 0 \in Ring
  BY <1>0, Sizes DEF Ring
<1>3. head_index <= head
  <2>1. PICK a \in Int : a = steps(head, 0) /\ head - 0 = checkpoint_interval * a
    BY <1>0, <1>1, StepFacts
  <2>2. a >= 0
    BY <1>0, <1>2, <2>1
  <2>3. checkpoint_interval \in Int /\ checkpoint_interval >= 1
    BY Sizes
  <2>4. a <= checkpoint_interval * a
    <3>1. CASE a = 0
      BY <2>3, <3>1, Products
    <3>2. CASE a >= 1
      <4>1. PICK k \in Int : k = checkpoint_interval - 1
        BY <2>3
      <4>2. a * (k + 1) = a * k + a * 1
        BY <4>1, Products
      <4>3. a * 0 <= a * k /\ a * 0 = 0 /\ a * 1 = a /\ a * k \in Int
        BY <2>3, <3>2, <4>1, ProductOrder, Products
      <4>4. a * (k + 1) = checkpoint_interval * a
        BY <2>3, <4>1, Z3
      <4> QED BY <4>2, <4>3, <4>4
    <3> QED BY <2>2, <3>1, <3>2
  <2> QED BY <1>0, <1>2, <2>1, <2>4
<1>4. ~region_skips(h)
  BY <1>0, <1>2, <1>3 DEF region_skips
<1>5. within_range(h) <=> log_within_range(h)
  BY <1>0 DEF within_range, log_within_range
<1>6. /\ head' = h /\ checkpoint_certs' = checkpoint_certs
      /\ head_index' = IF log_within_range(h) THEN certificate_index(h) ELSE 0
  BY <1>4, <1>5 DEF region_truncate
<1>7. PICK c \in Int : c = steps(h, 0)
  BY <1>0, <1>1, StepFacts
<1>8. c >= 0
  BY <1>0, <1>1, <1>7, WindowSteps
<1>9. CASE log_within_range(h)
  <2>1. PICK a \in Int : a = steps(h, head)
    BY <1>0, StepFacts
  <2>2. a >= 0
    BY <1>0, <2>1, WindowSteps
  <2>3. steps(h, 0) = steps(h, head) + steps(head, 0)
    BY <1>0, <1>1, StepsAdd
  <2>4. PICK b \in Int : b = steps(head, 0)
    BY <1>0, <1>1, StepFacts
  <2>5. PICK x \in Nat : x = head_index + a
    BY <1>2, <2>2
  <2>6. x <= c
    <3>1. c = a + b /\ head_index <= b
      BY <1>0, <1>7, <2>1, <2>3, <2>4
    <3> QED BY <1>2, <2>5, <3>1
  <2>7. x % NUM_CERTS <= x /\ x % NUM_CERTS \in Int
    BY <1>2, ModAtMost, ModRange
  <2>8. certificate_index(h) = x % NUM_CERTS
    BY <2>1, <2>5, Indexing DEF idx
  <2>9. PICK y \in Int : y = x % NUM_CERTS
    BY <2>7
  <2>10. y <= c
    BY <2>6, <2>7, <2>9
  <2> QED BY <1>0, <1>6, <1>7, <1>9, <2>8, <2>9, <2>10
<1>10. CASE ~log_within_range(h)
  BY <1>2, <1>6, <1>7, <1>8, <1>10
<1> QED BY <1>6, <1>9, <1>10

(* Truncating inside the window: the indices stay, what falls out of the    *)
(* window is emptied and nothing else, and what enters it is empty.         *)
Slides(h) ==
  /\ \A n \in Checkpoints :
       log_index(n)' = log_index(n) /\ certificate_index(n)' = certificate_index(n)
  /\ \A n \in Checkpoints : h <= n /\ n <= h + max_out =>
       IF n <= head_ + max_out THEN certs_'[log_index(n)] = certs_[log_index(n)]
       ELSE certs_'[log_index(n)] = Empty

(* See Slides. *)
LEMMA TruncateSlides ==
  ASSUME IInv, NEW h \in Checkpoints, truncate(h), log_within_range(h)
  PROVE  Slides(h)
<1>0. /\ HeadsTogether /\ h > head_ /\ log_truncate(h) /\ region_truncate(h)
      /\ certs_ \in [Ring -> [n: Nat, at: Ring]]
  BY DEF IInv, truncate
<1>1. /\ IsCheckpoint(head_) /\ IsCheckpoint(head) /\ head = head_ /\ head_ \in Nat
      /\ head_index_ \in Ring /\ head_index \in Ring /\ IsCheckpoint(h) /\ h \in Nat
      /\ \A n \in Checkpoints : IsCheckpoint(n) /\ n \in Nat /\ log_index(n) \in Ring
  BY <1>0, Heads
<1>2. ~(h <= head_) /\ max_out \in Nat \ {0}
  BY <1>0, <1>1, CheckpointStoreAssumption
<1>3. /\ head_' = h /\ head_index_' = log_index(h)
      /\ certs_' = [k \in DOMAIN certs_ |-> IF k \in cleared(h) THEN Empty ELSE certs_[k]]
  BY <1>0, <1>2 DEF log_truncate
<1>4. head' = h /\ head_index' = certificate_index(h)
  BY <1>0, RegionFollows
<1>5. ASSUME NEW n \in Checkpoints
      PROVE  log_index(n)' = log_index(n) /\ certificate_index(n)' = certificate_index(n)
  <2>1. /\ idx(idx(head_index_, h, head_), n, h) = idx(head_index_, n, head_)
        /\ idx(idx(head_index, h, head), n, h) = idx(head_index, n, head)
    BY <1>1, SlidIndex
  <2>2. log_index(n)' = idx(log_index(h), n, h) /\ certificate_index(n)' = idx(certificate_index(h), n, h)
    BY <1>3, <1>4 DEF log_index, certificate_index, idx, steps, NUM_CERTS
  <2> QED BY <2>1, <2>2, Indexing
<1>6. ASSUME NEW n \in Checkpoints
      PROVE  certs_'[log_index(n)] = IF log_index(n) \in cleared(h) THEN Empty
                                     ELSE certs_[log_index(n)]
  BY <1>0, <1>1, <1>3
<1>7. ASSUME NEW n \in Checkpoints, h <= n, n <= head_ + max_out
      PROVE  log_index(n) \notin cleared(h)
  <2> SUFFICES ASSUME NEW p \in Checkpoints, head_ <= p, p < h, log_index(n) = log_index(p)
               PROVE  FALSE
    BY DEF cleared
  <2>1. n \in Nat /\ p \in Nat
    BY <1>1
  <2>2. log_within_range(n) /\ log_within_range(p) /\ n # p
    BY <1>1, <1>2, <1>7, <2>1 DEF log_within_range
  <2> QED BY <1>0, <2>2, Apart
<1>8. ASSUME NEW n \in Checkpoints, n <= h + max_out, ~(n <= head_ + max_out)
      PROVE  log_index(n) \in cleared(h)
  <2>1. n \in Nat /\ n > head_ + max_out /\ IsCheckpoint(n)
    BY <1>1, <1>2, <1>8
  <2>2. PICK q \in Nat : /\ IsCheckpoint(q) /\ head_ <= q
                         /\ q + max_out + checkpoint_interval = n
                         /\ idx(head_index_, q, head_) = idx(head_index_, n, head_)
    BY <1>1, <2>1, RoundBefore
  <2>3. q < h /\ q <= n
    BY <1>1, <1>2, <1>8, <2>1, <2>2, Sizes
  <2>4. q \in Checkpoints
    BY <2>1, <2>2, <2>3, CheckpointStoreAssumption DEF Checkpoints, IsCheckpoint
  <2>5. log_index(q) = log_index(n)
    BY <2>2, Indexing
  <2> QED BY <2>2, <2>3, <2>4, <2>5 DEF cleared
<1> QED BY <1>5, <1>6, <1>7, <1>8 DEF Slides

(* mark_stable() keeps the invariant. *)
LEMMA TruncateIInv ==
  ASSUME IInv, NEW h \in Checkpoints, truncate(h)
  PROVE  IInv'
<1>0. /\ HeadsTogether /\ h > head_ /\ log_truncate(h) /\ region_truncate(h)
      /\ certs_ \in [Ring -> [n: Nat, at: Ring]] /\ checkpoint_certs \in [Ring -> Nat]
  BY DEF IInv, truncate
<1>1. /\ head = head_ /\ head_ \in Nat /\ head_index_ \in Ring /\ h \in Nat
      /\ \A n \in Checkpoints : IsCheckpoint(n) /\ n \in Nat /\ log_index(n) \in Ring
  BY <1>0, Heads
<1>2. ~(h <= head_) /\ max_out \in Nat \ {0}
  BY <1>0, <1>1, CheckpointStoreAssumption
<1>3. /\ head' = h /\ checkpoint_certs' = checkpoint_certs
      /\ head_index' \in Ring /\ head_index' <= steps(h, 0)
  BY <1>0, RegionFollows
<1>4. 0 \in Ring /\ Empty \in [n: Nat, at: Ring]
  BY Sizes DEF Ring, Empty
<1>5. CASE ~log_within_range(h)
  <2>1. head_' = h /\ certs_' = AllEmpty /\ head_index_' = head_index_
    BY <1>0, <1>2, <1>5 DEF log_truncate
  <2>2. HeadsTogether'
    BY <1>1, <1>3, <2>1 DEF HeadsTogether, Ring, steps, NUM_CERTS
  <2>3. certs_' \in [Ring -> [n: Nat, at: Ring]] /\ \A k \in Ring : certs_'[k] = Empty
    BY <1>4, <2>1 DEF AllEmpty, Ring
  <2>4. ASSUME NEW n \in Checkpoints PROVE Slot(n)'
    <3>1. IsCheckpoint(n) /\ IsCheckpoint(h) /\ head_' = h /\ head_index_' \in Ring
      BY <1>1, <2>1
    <3>2. log_index(n)' = idx(head_index_', n, h)
      BY <2>1 DEF log_index, idx, steps, NUM_CERTS
    <3>3. log_index(n)' \in Ring
      BY <3>1, <3>2, OwnIndex
    <3> QED BY <2>3, <3>3 DEF Slot
  <2> QED BY <1>0, <1>3, <2>2, <2>3, <2>4 DEF IInv, Ring, NUM_CERTS
<1>6. CASE log_within_range(h)
  <2>1. /\ head_' = h /\ head_index_' = log_index(h)
        /\ certs_' = [k \in DOMAIN certs_ |-> IF k \in cleared(h) THEN Empty ELSE certs_[k]]
    BY <1>0, <1>2, <1>6 DEF log_truncate
  <2>2. HeadsTogether'
    BY <1>1, <1>3, <2>1 DEF HeadsTogether, Ring, steps, NUM_CERTS
  <2>3. certs_' \in [Ring -> [n: Nat, at: Ring]]
    BY <1>0, <1>4, <2>1
  <2>4. Slides(h)
    BY <1>6, TruncateSlides
  <2>5. ASSUME NEW n \in Checkpoints, log_within_range(n)' PROVE Slot(n)'
    <3>1. h <= n /\ n <= h + max_out
      BY <2>1, <2>5 DEF log_within_range
    <3>2. log_index(n)' = log_index(n) /\ certificate_index(n)' = certificate_index(n)
      BY <2>4 DEF Slides
    <3>3. CASE n <= head_ + max_out
      <4>1. certs_'[log_index(n)] = certs_[log_index(n)]
        BY <2>4, <3>1, <3>3 DEF Slides
      <4>2. log_within_range(n)
        BY <1>1, <1>2, <3>1, <3>3 DEF log_within_range
      <4>3. Slot(n)
        BY <4>2 DEF IInv
      <4> QED BY <1>3, <3>2, <4>1, <4>3 DEF Slot
    <3>4. CASE ~(n <= head_ + max_out)
      <4>1. certs_'[log_index(n)] = Empty
        BY <2>4, <3>1, <3>4 DEF Slides
      <4> QED BY <3>2, <4>1 DEF Slot
    <3> QED BY <3>3, <3>4
  <2> QED BY <1>0, <1>3, <2>2, <2>3, <2>5 DEF IInv, Ring, NUM_CERTS
<1> QED BY <1>5, <1>6

(* The inductive invariant. *)
THEOREM RingsInvariant == Spec => []IInv
<1>1. IInv /\ [Next]_vars => IInv'
  <2> SUFFICES ASSUME IInv, [Next]_vars PROVE IInv'
    OBVIOUS
  <2>1. ASSUME NEW n \in Checkpoints, store(n) PROVE IInv'
    BY <2>1, StoreIInv
  <2>2. ASSUME NEW n \in Checkpoints, truncate(n) PROVE IInv'
    BY <2>2, TruncateIInv
  <2>3. CASE UNCHANGED vars
    BY <2>3 DEF vars, elog, region, IInv, HeadsTogether, Slot, log_index, certificate_index,
                log_within_range, steps
  <2> QED BY <2>1, <2>2, <2>3 DEF Next
<1> QED BY <1>1, InitIInv, PTL DEF Spec

(* Every certificate of elog's window points to messages of its own number: *)
(* although elog and checkpoint_region keep separate heads, only elog's     *)
(* clear() keeps its index, and the region's truncate() compares the new    *)
(* head with head_index, no checkpoint message is copied over one in use.   *)
THEOREM CheckpointPointersIntact == Spec => []PointersIntact
<1>1. IInv => PointersIntact
  <2> SUFFICES ASSUME IInv, NEW n \in Checkpoints, log_within_range(n),
                      certs_[log_index(n)] # Empty
               PROVE  /\ certs_[log_index(n)].n = n
                      /\ checkpoint_certs[certs_[log_index(n)].at] = n
    BY DEF PointersIntact
  <2>1. Slot(n)
    BY DEF IInv
  <2>2. /\ certs_[log_index(n)] = [n |-> n, at |-> certificate_index(n)]
        /\ checkpoint_certs[certificate_index(n)] = n
    BY <2>1 DEF Slot
  <2>3. [n |-> n, at |-> certificate_index(n)].n = n
        /\ [n |-> n, at |-> certificate_index(n)].at = certificate_index(n)
    OBVIOUS
  <2> QED BY <2>2, <2>3
<1> QED BY <1>1, RingsInvariant, PTL
-----------------------------------------------------------------------------
(* The checkpoints of the window with a certificate that is not empty. *)
Filled == {n \in Checkpoints : log_within_range(n) /\ certs_[log_index(n)] # Empty}

(* elog is a window onto a table indexed by sequence number (the Effects    *)
(* clauses of checkpoint_log.h), for any window and interval: its ring,     *)
(* with an index that clear() does not reset, loses and revives nothing.    *)
THEOREM ElogImplementsWindow == Spec => ElogIsWindow
<1>1. Init => W!WInit
  <2> SUFFICES ASSUME Init PROVE W!WInit
    OBVIOUS
  <2>1. IInv
    BY InitIInv
  <2>2. \A n \in Checkpoints : log_index(n) \in Ring
    BY <2>1, Heads DEF IInv
  <2>3. certs_ = [k \in Ring |-> Empty] /\ head_ = 0
    BY DEF Init, AllEmpty, Ring
  <2>4. {n \in Checkpoints : log_within_range(n) /\ certs_[log_index(n)] # Empty} = {}
    BY <2>2, <2>3
  <2> QED BY <2>3, <2>4 DEF W!WInit
<1>2. IInv /\ IInv' /\ [Next]_vars => [W!WNext]_<<head_, Filled>>
  <2> SUFFICES ASSUME IInv, IInv', [Next]_vars
               PROVE  W!WNext \/ UNCHANGED <<head_, Filled>>
    OBVIOUS
  <2>0. /\ HeadsTogether /\ head_ \in Nat /\ max_out \in Nat \ {0}
        /\ certs_ \in [Ring -> [n: Nat, at: Ring]]
        /\ \A n \in Checkpoints : n \in Nat /\ log_index(n) \in Ring
        /\ Filled \subseteq Checkpoints /\ Filled' \subseteq Checkpoints
    BY Heads, CheckpointStoreAssumption DEF IInv, Filled
  <2>1. ASSUME NEW m \in Checkpoints \ {0}, store(m) PROVE W!WNext
    <3>1. PICK j, e : j = log_index(m) /\ e = [n |-> m, at |-> certificate_index(m)]
      OBVIOUS
    <3>2. /\ log_within_range(m) /\ head_' = head_ /\ head_index_' = head_index_
          /\ certs_' = [certs_ EXCEPT ![j] = e]
      BY <2>1, <3>1 DEF store
    <3>3. e # Empty /\ j \in Ring
      BY <2>0, <3>1 DEF Empty
    <3>4. ASSUME NEW n \in Checkpoints PROVE n \in Filled' <=> n \in Filled \/ n = m
      <4>1. log_index(n)' = log_index(n) /\ (log_within_range(n)' <=> log_within_range(n))
        BY <3>2 DEF log_index, log_within_range
      <4>2. n \in Filled' <=> log_within_range(n) /\ certs_'[log_index(n)] # Empty
        BY <4>1 DEF Filled
      <4>3. n \in Filled <=> log_within_range(n) /\ certs_[log_index(n)] # Empty
        BY DEF Filled
      <4>4. CASE n = m
        BY <2>0, <3>1, <3>2, <3>3, <4>2, <4>4
      <4>5. CASE n # m
        <5>1. log_within_range(n) => log_index(n) # j
          BY <2>0, <3>1, <3>2, <4>5, Apart
        <5>2. log_index(n) # j => certs_'[log_index(n)] = certs_[log_index(n)]
          BY <2>0, <3>2
        <5> QED BY <4>2, <4>3, <4>5, <5>1, <5>2
      <4> QED BY <4>4, <4>5
    <3>5. Filled' = Filled \cup {m}
      BY <2>0, <3>4
    <3>6. head_ <= m /\ m <= head_ + max_out
      BY <3>2 DEF log_within_range
    <3>7. W!WStore(m)
      BY <3>2, <3>5, <3>6 DEF W!WStore, Filled
    <3> QED BY <3>7 DEF W!WNext
  <2>2. ASSUME NEW h \in Checkpoints, truncate(h) PROVE W!WNext
    <3>1. h > head_ /\ log_truncate(h) /\ h \in Nat /\ head_ < h /\ ~(h <= head_)
      BY <2>0, <2>2 DEF truncate
    <3>2. head_' = h
      BY <3>1 DEF log_truncate
    <3>3. ASSUME NEW n \in Checkpoints PROVE n \in Filled' <=> n \in Filled /\ n >= h
      <4>0. n \in Nat /\ log_index(n)' \in Ring
        <5>1. PICK x \in Ring : x = head_index_'
          BY DEF IInv, HeadsTogether, Ring, NUM_CERTS
        <5>2. IsCheckpoint(n) /\ IsCheckpoint(h)
          BY <2>0, Heads
        <5>3. log_index(n)' = idx(x, n, h)
          BY <3>2, <5>1 DEF log_index, idx, steps, NUM_CERTS
        <5> QED BY <2>0, <5>2, <5>3, OwnIndex
      <4>1. n \in Filled' <=> h <= n /\ n <= h + max_out /\ certs_'[log_index(n)'] # Empty
        BY <3>2 DEF Filled, log_within_range
      <4>2. n \in Filled <=> head_ <= n /\ n <= head_ + max_out /\ certs_[log_index(n)] # Empty
        BY DEF Filled, log_within_range
      <4>3. CASE ~log_within_range(h)
        <5>1. certs_' = [k \in Ring |-> Empty]
          BY <3>1, <4>3 DEF log_truncate, AllEmpty, Ring
        <5>2. n \notin Filled'
          BY <4>0, <4>1, <5>1
        <5>3. h > head_ + max_out
          BY <2>0, <3>1, <4>3 DEF log_within_range
        <5> QED BY <2>0, <3>1, <4>0, <4>2, <5>2, <5>3
      <4>4. CASE log_within_range(h)
        <5>1. Slides(h)
          BY <2>2, <4>4, TruncateSlides
        <5>2. log_index(n)' = log_index(n)
          BY <5>1 DEF Slides
        <5>3. h <= n /\ n <= h + max_out =>
                IF n <= head_ + max_out THEN certs_'[log_index(n)] = certs_[log_index(n)]
                ELSE certs_'[log_index(n)] = Empty
          BY <5>1 DEF Slides
        <5> QED BY <2>0, <3>1, <4>0, <4>1, <4>2, <5>2, <5>3
      <4> QED BY <4>3, <4>4
    <3>4. Filled' = {n \in Filled : n >= h}
      BY <2>0, <3>3
    <3>5. W!WTruncate(h)
      BY <3>1, <3>2, <3>4 DEF W!WTruncate, Filled
    <3> QED BY <3>5 DEF W!WNext
  <2>3. ASSUME UNCHANGED vars PROVE UNCHANGED <<head_, Filled>>
    BY <2>3 DEF vars, elog, Filled, log_within_range, log_index
  <2> QED BY <2>1, <2>2, <2>3 DEF Next
<1> QED BY <1>1, <1>2, RingsInvariant, PTL
        DEF Spec, ElogIsWindow, W!WSpec, W!wvars, Filled
=============================================================================
