------------------------ MODULE AgreementStore_proofs ------------------------
(***************************************************************************)
(* Proofs about AgreementStore for a window of any size, any checkpoint    *)
(* interval and any number of sequence numbers.                            *)
(***************************************************************************)
EXTENDS AgreementStore, Foundations

(* The fields have their types and every element of the ring is empty or    *)
(* holds a certificate of a sequence number with its index, none of which   *)
(* is beyond the window.                                                    *)
Element(k) ==
  /\ elems[k].n \in Seqnos /\ mod(elems[k].n) = k /\ elems[k].n < log_head + max_out
  /\ elems[k].at \in Indices /\ elems[k] = [n |-> elems[k].n, at |-> elems[k].at]

RingOK ==
  /\ log_head \in Nat /\ head \in Nat /\ head_index \in Indices
  /\ elems \in [Indices -> [n: Nat, at: Indices]] /\ slices \in [Indices -> Nat]
  /\ \A k \in Indices : elems[k] = Empty \/ Element(k)

(* A certificate in the window of the log is in the window of the region,   *)
(* however far a clear() moved the two apart.  Its message is where the     *)
(* region looks it up, unless the region looks elsewhere, which it does     *)
(* only once head_index is aligned.                                         *)
Kept(n, at) ==
  /\ within_range(n)
  /\ at = cert_index(n) => slices[at] = n
  /\ ~Aligned => at = cert_index(n)

IInv == RingOK /\ \A k \in Indices : elems[k] # Empty /\ elems[k].n >= log_head =>
                                       Kept(elems[k].n, elems[k].at)

(* The size of the arrays. *)
LEMMA Sizes == max_out \in Nat \ {0} /\ max_out \in Int /\ max_out > 0 /\ Indices = 0..(max_out - 1)
BY AgreementStoreAssumption DEF Indices

(* Looking up a message twice: the region maps the numbers of its window to *)
(* different slices.                                                        *)
LEMMA DifferentSlices ==
  ASSUME head \in Nat, head_index \in Indices, NEW m \in Nat, NEW n \in Nat,
         within_range(m), within_range(n), cert_index(m) = cert_index(n)
  PROVE  m = n
<1>1. PICK x, y : x = head_index + (m - head) /\ y = head_index + (n - head)
  OBVIOUS
<1>2. x \in Int /\ y \in Int /\ x - y = m - n /\ m - n < max_out /\ n - m < max_out
  BY <1>1, Sizes DEF within_range
<1>3. x % max_out = y % max_out
  <2>1. cert_index(m) = x % max_out
    BY <1>1 DEF cert_index
  <2>2. cert_index(n) = y % max_out
    BY <1>1 DEF cert_index
  <2> QED BY <2>1, <2>2
<1>4. x - y < max_out /\ y - x < max_out /\ max_out \in Nat \ {0}
  BY <1>2, Sizes
<1>5. x = y
  BY <1>2, <1>3, <1>4, SameIndex
<1> QED BY <1>2, <1>5

(* Indices lie in the arrays. *)
LEMMA IndexTypes ==
  ASSUME head \in Nat, head_index \in Indices, NEW n \in Nat
  PROVE  cert_index(n) \in Indices /\ mod(n) \in Indices
<1>1. PICK x : x = head_index + (n - head)
  OBVIOUS
<1>2. x \in Int
  BY <1>1, Sizes
<1>3. x % max_out \in Indices /\ n % max_out \in Indices
  BY <1>2, Sizes, ModRange
<1> QED BY <1>1, <1>3, Zenon DEF cert_index, mod

(* Once aligned, the region looks a message up at its number modulo the     *)
(* size, wherever head is.                                                  *)
LEMMA AlignedIndex ==
  ASSUME head \in Nat, Aligned, NEW n \in Nat
  PROVE  cert_index(n) = n % max_out
<1>1. PICK d : d = n - head
  OBVIOUS
<1>2. d \in Int /\ head + d = n
  BY <1>1
<1>3. ((head % max_out) + d) % max_out = (head + d) % max_out
  <2>1. max_out \in Nat \ {0} /\ head \in Int
    BY Sizes
  <2> QED BY <1>2, <2>1, ReduceSummand
<1>4. cert_index(n) = ((head % max_out) + d) % max_out
  BY <1>1 DEF cert_index, Aligned
<1> QED BY <1>2, <1>3, <1>4

(* The same after a step. *)
LEMMA AlignedIndexNext ==
  ASSUME head' \in Nat, Aligned', NEW n \in Nat
  PROVE  cert_index(n)' = n % max_out
<1>0. PICK p \in Nat : p = head'
  OBVIOUS
<1>1. PICK d \in Int : d = n - p
  OBVIOUS
<1>2. p \in Int /\ d \in Int /\ p + d = n
  BY <1>1
<1>3. ((p % max_out) + d) % max_out = (p + d) % max_out
  <2>1. max_out \in Nat \ {0}
    BY Sizes
  <2> QED BY <1>2, <2>1, ReduceSummand
<1>4. cert_index(n)' = ((p % max_out) + d) % max_out
  BY <1>0, <1>1 DEF cert_index, Aligned
<1> QED BY <1>2, <1>3, <1>4
-----------------------------------------------------------------------------
(* A new replica has empty logs. *)
LEMMA InitIInv == Init => IInv
<1> SUFFICES ASSUME Init PROVE IInv
  OBVIOUS
<1>1. \A k \in Indices : elems[k] = Empty
  BY DEF Init
<1>2. 0 \in Indices /\ Empty \in [n: Nat, at: Indices]
  BY Sizes DEF Empty
<1>3. RingOK
  BY <1>1, <1>2 DEF Init, RingOK
<1> QED BY <1>1, <1>3 DEF IInv

(* The message of an element is a message of the ring or the element is     *)
(* empty: its fields.                                                       *)
LEMMA ElementFields ==
  ASSUME RingOK, NEW k \in Indices
  PROVE  /\ elems[k] # Empty => Element(k)
         /\ elems[k].n \in Nat /\ elems[k].at \in Indices
         /\ elems[k].n \in Seqnos => elems[k] # Empty /\ Element(k)
<1>1. elems[k] \in [n: Nat, at: Indices] /\ (elems[k] = Empty \/ Element(k))
  BY DEF RingOK
<1>2. Empty.n = 0
  BY DEF Empty
<1> QED BY <1>1, <1>2 DEF Seqnos

(* Copying a message spoils none that the region would still look up. *)
LEMMA StoreIInv ==
  ASSUME IInv, NEW m \in Seqnos, store(m)
  PROVE  IInv'
<1>0. /\ RingOK /\ log_head \in Nat /\ head \in Nat /\ head_index \in Indices
      /\ elems \in [Indices -> [n: Nat, at: Indices]] /\ slices \in [Indices -> Nat]
      /\ log_head' = log_head /\ head' = head /\ head_index' = head_index
      /\ within_range(m) /\ log_within_range(m) /\ m \in Nat /\ m # 0
  BY DEF IInv, RingOK, store, Seqnos
<1>1. PICK i, j, e : i = cert_index(m) /\ j = mod(m) /\ e = [n |-> m, at |-> i]
  OBVIOUS
<1>2. /\ i \in Indices /\ j \in Indices /\ e \in [n: Nat, at: Indices] /\ e.n = m /\ e.at = i
      /\ e = [n |-> e.n, at |-> e.at]
  BY <1>0, <1>1, IndexTypes
<1>3. elems' = [elems EXCEPT ![j] = e] /\ slices' = [slices EXCEPT ![i] = m]
  BY <1>1 DEF store
<1>4. /\ elems' \in [Indices -> [n: Nat, at: Indices]] /\ slices' \in [Indices -> Nat]
      /\ elems'[j] = e /\ slices'[i] = m
      /\ \A k \in Indices : k # j => elems'[k] = elems[k]
      /\ \A k \in Indices : k # i => slices'[k] = slices[k]
  BY <1>0, <1>2, <1>3
<1>5. /\ \A n : cert_index(n)' = cert_index(n) /\ (within_range(n)' <=> within_range(n))
      /\ Aligned' <=> Aligned
  BY <1>0 DEF cert_index, within_range, Aligned
<1>6. ASSUME NEW k \in Indices PROVE elems'[k] = Empty \/ Element(k)'
  <2>1. CASE k = j
    <3>1. m < log_head + max_out
      BY <1>0 DEF log_within_range
    <3> QED BY <1>0, <1>1, <1>2, <1>4, <2>1, <3>1 DEF Element, mod
  <2>2. CASE k # j
    BY <1>0, <1>4, <2>2 DEF RingOK, Element
  <2> QED BY <2>1, <2>2
<1>7. RingOK'
  BY <1>0, <1>4, <1>6 DEF RingOK
<1>8. ASSUME NEW k \in Indices, elems'[k] # Empty, elems'[k].n >= log_head'
      PROVE  Kept(elems[k].n, elems[k].at)'
  <2>1. CASE k = j
    <3>1. elems'[k].n = m /\ elems'[k].at = i
      BY <1>2, <1>4, <2>1
    <3>2. within_range(m)' /\ cert_index(m)' = i
      BY <1>0, <1>1, <1>5
    <3> QED BY <1>4, <3>1, <3>2 DEF Kept, within_range, cert_index
  <2>2. CASE k # j
    <3>1. PICK n, at : n = elems[k].n /\ at = elems[k].at
      OBVIOUS
    <3>2. elems'[k] = elems[k]
      BY <1>4, <2>2
    <3>3. Kept(n, at)
      BY <1>0, <1>8, <3>1, <3>2 DEF IInv
    <3>4. n \in Nat /\ at \in Indices /\ mod(n) = k
      BY <1>0, <1>8, <3>1, <3>2, ElementFields DEF Element
    <3>5. at = cert_index(n) => slices'[at] = n
      <4>1. CASE at = i /\ at = cert_index(n)
        BY <1>0, <1>1, <2>2, <3>3, <3>4, <4>1, DifferentSlices DEF Kept
      <4>2. CASE at # i
        BY <1>4, <3>3, <3>4, <4>2 DEF Kept
      <4> QED BY <4>1, <4>2
    <3>6. /\ within_range(n)' /\ (at = cert_index(n)' => slices'[at] = n)
          /\ ~Aligned' => at = cert_index(n)'
      BY <1>5, <3>3, <3>5 DEF Kept
    <3> QED BY <3>1, <3>2, <3>6 DEF Kept, within_range, cert_index
  <2> QED BY <2>1, <2>2
<1> QED BY <1>7, <1>8 DEF IInv

(* Elements that are emptied and a head that only moves forward keep the    *)
(* ring in order.                                                           *)
LEMMA RingKept ==
  ASSUME RingOK, RingOK', log_head' >= log_head,
         \A k \in Indices : elems'[k] \in {Empty, elems[k]}
  PROVE  \A k \in Indices : elems'[k] # Empty /\ elems'[k].n >= log_head' =>
           /\ elems'[k] = elems[k] /\ elems[k] # Empty /\ elems[k].n >= log_head
           /\ elems[k].n \in Nat /\ elems[k].at \in Indices
<1> SUFFICES ASSUME NEW k \in Indices, elems'[k] # Empty, elems'[k].n >= log_head'
             PROVE  /\ elems'[k] = elems[k] /\ elems[k] # Empty /\ elems[k].n >= log_head
                    /\ elems[k].n \in Nat /\ elems[k].at \in Indices
  OBVIOUS
<1>1. elems'[k] = elems[k] /\ elems[k] # Empty
  OBVIOUS
<1>2. elems[k].n \in Nat /\ elems[k].at \in Indices /\ log_head \in Nat /\ log_head' \in Nat
  BY ElementFields DEF RingOK
<1> QED BY <1>1, <1>2

(* Emptying elements and moving the head forward keep the types. *)
LEMMA RingStep ==
  ASSUME RingOK, log_head' \in Nat, log_head' >= log_head, head' \in Nat, head_index' \in Indices,
         slices' = slices, DOMAIN elems' = Indices, elems' = [k \in Indices |-> elems'[k]],
         \A k \in Indices : elems'[k] \in {Empty, elems[k]}
  PROVE  RingOK'
<1>1. 0 \in Indices /\ Empty \in [n: Nat, at: Indices] /\ max_out \in Nat
  BY Sizes DEF Empty
<1>2. ASSUME NEW k \in Indices
      PROVE  elems'[k] \in [n: Nat, at: Indices] /\ (elems'[k] = Empty \/ Element(k)')
  <2>1. CASE elems'[k] = Empty
    BY <1>1, <2>1
  <2>2. CASE elems'[k] # Empty
    <3>1. elems'[k] = elems[k] /\ Element(k) /\ elems[k] \in [n: Nat, at: Indices]
      BY <2>2 DEF RingOK
    <3>2. elems[k].n < log_head' + max_out
      <4>1. elems[k].n \in Nat /\ elems[k].n < log_head + max_out /\ log_head \in Nat
        BY <3>1 DEF Element, Seqnos, RingOK
      <4> QED BY <1>1, <4>1
    <3>3. Element(k)'
      BY <3>1, <3>2 DEF Element, mod
    <3> QED BY <3>1, <3>3
  <2> QED BY <2>1, <2>2
<1> QED BY <1>2 DEF RingOK

(* An emptied certificate leaves the others as they are. *)
LEMMA DropIInv ==
  ASSUME IInv, NEW m \in Seqnos, drop(m)
  PROVE  IInv'
<1>0. /\ RingOK /\ log_head \in Nat /\ head \in Nat /\ head_index \in Indices
      /\ elems \in [Indices -> [n: Nat, at: Indices]] /\ m \in Nat
      /\ log_head' = log_head /\ head' = head /\ head_index' = head_index /\ slices' = slices
      /\ elems' = [elems EXCEPT ![mod(m)] = Empty]
  BY DEF IInv, RingOK, drop, Seqnos, region
<1>1. /\ \A k \in Indices : elems'[k] \in {Empty, elems[k]}
      /\ DOMAIN elems' = Indices /\ elems' = [k \in Indices |-> elems'[k]]
  BY <1>0
<1>2. RingOK'
  BY <1>0, <1>1, RingStep
<1>3. ASSUME NEW k \in Indices, elems'[k] # Empty, elems'[k].n >= log_head'
      PROVE  Kept(elems[k].n, elems[k].at)'
  <2>1. elems'[k] = elems[k] /\ elems[k] # Empty /\ elems[k].n >= log_head
    BY <1>0, <1>1, <1>2, <1>3, RingKept
  <2>2. Kept(elems[k].n, elems[k].at)
    BY <2>1 DEF IInv
  <2> QED BY <1>0, <2>1, <2>2 DEF Kept, within_range, cert_index, Aligned
<1> QED BY <1>2, <1>3 DEF IInv

(* Starting the log over empties it. *)
LEMMA ClearIInv ==
  ASSUME IInv, NEW h \in Seqnos, clear(h)
  PROVE  IInv'
<1>1. \A k \in Indices : elems'[k] = Empty
  BY DEF clear
<1>2. 0 \in Indices /\ Empty \in [n: Nat, at: Indices]
  BY Sizes DEF Empty
<1>3. RingOK'
  BY <1>1, <1>2 DEF IInv, RingOK, clear, region, Seqnos
<1> QED BY <1>1, <1>3 DEF IInv

(* mark_stable(): the window of the region follows that of the log.  Inside *)
(* the window a message stays where it is looked up or, when head_index     *)
(* becomes aligned, is looked up elsewhere; outside it none is left.        *)
LEMMA TruncateIInv ==
  ASSUME IInv, NEW h \in Seqnos, truncate(h)
  PROVE  IInv'
<1>0. /\ RingOK /\ log_head \in Nat /\ head \in Nat /\ head_index \in Indices
      /\ elems \in [Indices -> [n: Nat, at: Indices]] /\ h \in Nat /\ h > log_head
      /\ log_head' = h /\ region_truncate(h) /\ max_out \in Nat \ {0}
  <2>1. /\ RingOK /\ log_head \in Nat /\ head \in Nat /\ head_index \in Indices
        /\ elems \in [Indices -> [n: Nat, at: Indices]] /\ h \in Nat
    BY DEF IInv, RingOK, Seqnos
  <2>2. h > log_head /\ log_head' = h /\ region_truncate(h)
    BY DEF truncate, log_truncate
  <2> QED BY <2>1, <2>2, Sizes
<1>1. /\ \A k \in Indices : elems'[k] \in {Empty, elems[k]}
      /\ DOMAIN elems' = Indices /\ elems' = [k \in Indices |-> elems'[k]]
  <2>1. elems' = [k \in Indices |->
                    IF \E j \in walked(h) : mod(j) = k THEN Empty ELSE elems[k]]
    BY DEF truncate, log_truncate
  <2> QED BY <2>1
<1>2. /\ slices' = slices
      /\ h <= head => head' = head /\ head_index' = head_index
      /\ h > head => head' = h /\ head_index' = IF within_range(h) THEN h % max_out ELSE 0
  BY <1>0 DEF region_truncate, region
<1>3. h % max_out \in Indices /\ 0 \in Indices
  BY <1>0, Sizes, ModRange
<1>4. head' \in Nat /\ head_index' \in Indices
  BY <1>0, <1>2, <1>3
<1>5. RingOK'
  BY <1>0, <1>1, <1>2, <1>4, RingStep
<1>6. ASSUME NEW k \in Indices, elems'[k] # Empty, elems'[k].n >= log_head'
      PROVE  Kept(elems[k].n, elems[k].at)'
  <2>1. /\ elems'[k] = elems[k] /\ elems[k] # Empty /\ elems[k].n >= log_head
        /\ elems[k].n \in Nat /\ elems[k].at \in Indices
    BY <1>0, <1>1, <1>5, <1>6, RingKept
  <2>2. PICK n, at : n = elems[k].n /\ at = elems[k].at
    OBVIOUS
  <2>3. Kept(n, at) /\ n \in Nat /\ at \in Indices /\ n >= h
    BY <1>0, <1>6, <2>1, <2>2 DEF IInv
  <2>4. ASSUME h <= head PROVE Kept(n, at)'
    BY <1>2, <2>3, <2>4 DEF Kept, within_range, cert_index, Aligned
  <2>5. ASSUME h > head PROVE Kept(n, at)'
    <3>1. within_range(h) /\ within_range(n)'
      BY <1>0, <1>2, <2>3, <2>5 DEF Kept, within_range
    <3>2. head' = h /\ head_index' = h % max_out
      BY <1>2, <2>5, <3>1
    <3>3. Aligned'
      BY <3>2 DEF Aligned
    <3>4. cert_index(n)' = n % max_out
      BY <1>4, <2>3, <3>3, AlignedIndexNext
    <3>5. ASSUME at = n % max_out PROVE slices[at] = n
      <4>1. at = cert_index(n)
        <5>1. CASE Aligned
          BY <1>0, <2>3, <3>5, <5>1, AlignedIndex
        <5>2. CASE ~Aligned
          BY <2>3, <5>2 DEF Kept
        <5> QED BY <5>1, <5>2
      <4> QED BY <2>3, <4>1 DEF Kept
    <3> QED BY <1>2, <3>1, <3>3, <3>4, <3>5 DEF Kept
  <2> QED BY <1>0, <2>1, <2>2, <2>4, <2>5
<1> QED BY <1>5, <1>6 DEF IInv

(* The inductive invariant. *)
THEOREM RingInvariant == Spec => []IInv
<1>1. IInv /\ [Next]_vars => IInv'
  <2> SUFFICES ASSUME IInv, [Next]_vars PROVE IInv'
    OBVIOUS
  <2>1. ASSUME NEW n \in Seqnos, store(n) PROVE IInv'
    BY <2>1, StoreIInv
  <2>2. ASSUME NEW n \in Seqnos, drop(n) PROVE IInv'
    BY <2>2, DropIInv
  <2>3. ASSUME NEW h \in Heads, truncate(h) PROVE IInv'
    BY <2>3, TruncateIInv DEF Heads
  <2>4. ASSUME NEW h \in Heads, clear(h) PROVE IInv'
    BY <2>4, ClearIInv DEF Heads
  <2>5. CASE UNCHANGED vars
    BY <2>5 DEF vars, plog, region, IInv, RingOK, Element, Kept, within_range, cert_index, Aligned
  <2> QED BY <2>1, <2>2, <2>3, <2>4, <2>5 DEF Next
<1> QED BY <1>1, InitIInv, PTL DEF Spec

(* A message that the region would look up where the certificate of the log *)
(* points is intact, for any window: within one way of indexing no other    *)
(* message is copied over it by persist(), however mark_stable() slides the *)
(* window and whenever restart() or enforce_bound() started the log over.   *)
THEOREM MessagesIntact == Spec => []IntactWhereIndexed
<1>1. IInv => IntactWhereIndexed
  <2> SUFFICES ASSUME IInv, NEW n \in Seqnos, Live(n), within_range(n),
                      elems[mod(n)].at = cert_index(n)
               PROVE  slices[cert_index(n)] = n
    BY DEF IntactWhereIndexed
  <2>1. PICK k : k = mod(n)
    OBVIOUS
  <2>2. RingOK /\ k \in Indices /\ n \in Nat
    BY <2>1, IndexTypes DEF IInv, RingOK, Seqnos
  <2>3. elems[k].n = n /\ n >= log_head /\ elems[k].at = cert_index(n) /\ log_head \in Nat
    BY <2>1 DEF Live, log_within_range, IInv, RingOK
  <2>4. elems[k] # Empty
    BY <2>2, <2>3, ElementFields
  <2>5. Kept(n, cert_index(n))
    BY <2>2, <2>3, <2>4 DEF IInv
  <2> QED BY <2>5 DEF Kept
<1> QED BY <1>1, RingInvariant, PTL

(* Once head_index is aligned, truncations inside the window keep it so and *)
(* leave every message of both windows where agreement_region looks it up.  *)
THEOREM AlignmentIsKept == Spec => StaysAligned
<1> DEFINE A == Aligned /\ within_range(head') =>
                  Aligned' /\ \A n \in Seqnos : within_range(n) /\ within_range(n)' =>
                                                  cert_index(n)' = cert_index(n)
<1>1. IInv /\ IInv' /\ [Next]_vars => [A]_vars
  <2> SUFFICES ASSUME IInv, IInv', Next, Aligned, within_range(head')
               PROVE  Aligned' /\ \A n \in Seqnos : cert_index(n)' = cert_index(n)
    OBVIOUS
  <2>1. head \in Nat /\ head' \in Nat
    BY DEF IInv, RingOK
  <2>2. Aligned'
    <3>1. ASSUME head' = head, head_index' = head_index PROVE Aligned'
      BY <3>1 DEF Aligned
    <3>2. ASSUME NEW h \in Heads, truncate(h) PROVE Aligned'
      <4>1. CASE h <= head
        BY <3>1, <3>2, <4>1 DEF truncate, region_truncate, region
      <4>2. CASE ~(h <= head)
        <5>1. head' = h /\ head_index' = IF within_range(h) THEN h % max_out ELSE 0
          BY <3>2, <4>2 DEF truncate, region_truncate
        <5>2. head_index' = h % max_out
          BY <5>1
        <5> QED BY <5>1, <5>2 DEF Aligned
      <4> QED BY <4>1, <4>2
    <3> QED BY <3>1, <3>2 DEF Next, store, drop, clear, region
  <2>3. ASSUME NEW n \in Seqnos PROVE cert_index(n)' = cert_index(n)
    <3>1. n \in Nat
      BY DEF Seqnos
    <3>2. cert_index(n) = n % max_out
      BY <2>1, <3>1, AlignedIndex
    <3>3. cert_index(n)' = n % max_out
      BY <2>1, <2>2, <3>1, AlignedIndexNext
    <3> QED BY <3>2, <3>3
  <2> QED BY <2>2, <2>3
<1> QED BY <1>1, RingInvariant, PTL DEF Spec, StaysAligned

-----------------------------------------------------------------------------
(* The certificates of the window that are not empty. *)
Filled == {s \in Seqnos : log_within_range(s) /\ elems[mod(s)] # Empty}

(* The variables of truncate()'s loop are ints: sequence numbers must fit.  *)
SeqnosFitInt == \A s \in Seqnos : int(s) = s

(* The ring keeps the numbers of a window apart, a round later the index is *)
(* the same, and an index is its own.                                       *)
LEMMA ModFacts ==
  /\ \A a, b \in Nat : mod(a) = mod(b) /\ a - b < max_out /\ b - a < max_out => a = b
  /\ \A a \in Int : mod(a + max_out) = mod(a)
  /\ \A a \in Indices : mod(a) = a
  /\ \A a \in Nat : mod(a) \in Indices
<1>0. max_out \in Nat \ {0}
  BY Sizes
<1>1. ASSUME NEW a \in Nat, NEW b \in Nat, mod(a) = mod(b), a - b < max_out, b - a < max_out
      PROVE  a = b
  <2>1. a % max_out = b % max_out /\ a \in Int /\ b \in Int
    BY <1>1 DEF mod
  <2> QED BY <1>0, <1>1, <2>1, SameIndex
<1>2. ASSUME NEW a \in Int PROVE mod(a + max_out) = mod(a)
  BY <1>0, NextRound DEF mod
<1>3. ASSUME NEW a \in Indices PROVE mod(a) = a
  <2>1. a \in Int /\ 0 <= a /\ a < max_out /\ max_out \in Int /\ max_out > 0
    BY <1>0, Sizes
  <2>2. a = max_out * 0 + a
    BY <2>1, Products
  <2> QED BY <2>1, <2>2, DivModUnique DEF mod
<1>4. ASSUME NEW a \in Nat PROVE mod(a) \in Indices
  BY <1>0, Sizes, ModRange DEF mod
<1> QED BY <1>1, <1>2, <1>3, <1>4

(* A step that changes one element of the window. *)
LEMMA OneElement ==
  ASSUME RingOK, NEW n \in Seqnos, log_within_range(n), log_head' = log_head,
         NEW e, elems' = [elems EXCEPT ![mod(n)] = e]
  PROVE  Filled' = IF e = Empty THEN Filled \ {n} ELSE Filled \cup {n}
<1>0. /\ elems \in [Indices -> [n: Nat, at: Indices]] /\ n \in Nat /\ mod(n) \in Indices
      /\ log_head \in Nat /\ max_out \in Nat
  <2>1. n \in Nat
    BY DEF Seqnos
  <2>2. mod(n) \in Indices
    BY <2>1, ModFacts
  <2> QED BY <2>1, <2>2, Sizes DEF RingOK
<1>1. ASSUME NEW s \in Seqnos
      PROVE  s \in Filled' <=> IF s = n THEN e # Empty ELSE s \in Filled
  <2>1. s \in Nat /\ mod(s) \in Indices
    BY ModFacts DEF Seqnos
  <2>2. log_within_range(s)' <=> log_within_range(s)
    BY DEF log_within_range
  <2>3. s \in Filled' <=> log_within_range(s) /\ elems'[mod(s)] # Empty
    BY <2>2 DEF Filled, mod
  <2>4. s \in Filled <=> log_within_range(s) /\ elems[mod(s)] # Empty
    BY DEF Filled
  <2>5. CASE s = n
    BY <1>0, <2>3, <2>5
  <2>6. CASE s # n
    <3>1. log_within_range(s) => mod(s) # mod(n)
      BY <1>0, <2>1, <2>6, ModFacts DEF log_within_range
    <3>2. mod(s) # mod(n) => elems'[mod(s)] = elems[mod(s)]
      BY <1>0, <2>1
    <3> QED BY <2>3, <2>4, <2>6, <3>1, <3>2
  <2> QED BY <2>5, <2>6
<1>2. Filled \subseteq Seqnos /\ Filled' \subseteq Seqnos
  BY DEF Filled
<1> QED BY <1>1, <1>2

(* truncate() empties what falls out of the window and nothing else, and    *)
(* what enters the window is empty.                                         *)
LEMMA TruncateFilled ==
  ASSUME RingOK, SeqnosFitInt, NEW h \in Seqnos, truncate(h), log_head \in Seqnos
  PROVE  Filled' = {s \in Filled : s >= h}
<1>0. /\ h > log_head /\ log_head' = h /\ h \in Nat /\ log_head \in Nat /\ max_out \in Nat \ {0}
      /\ int(h) = h /\ int(log_head) = log_head
  <2>1. h > log_head /\ log_head' = h /\ int(h) = h /\ int(log_head) = log_head
    BY DEF truncate, log_truncate, SeqnosFitInt
  <2> QED BY <2>1, Sizes DEF Seqnos
<1>1. elems' = [k \in Indices |->
                  IF \E j \in walked(h) : mod(j) = k THEN Empty ELSE elems[k]]
  BY DEF truncate, log_truncate
<1>2. ASSUME NEW s \in Seqnos
      PROVE  s \in Filled' <=> s \in Filled /\ s >= h
  <2>0. s \in Nat /\ mod(s) \in Indices
    BY ModFacts DEF Seqnos
  <2>1. s \in Filled' <=> h <= s /\ s < h + max_out /\ elems'[mod(s)] # Empty
    BY <1>0 DEF Filled, log_within_range, mod
  <2>2. s \in Filled <=> log_head <= s /\ s < log_head + max_out /\ elems[mod(s)] # Empty
    BY DEF Filled, log_within_range
  <2>3. elems'[mod(s)] = IF \E j \in walked(h) : mod(j) = mod(s) THEN Empty ELSE elems[mod(s)]
    BY <1>1, <2>0
  <2>4. CASE h - log_head >= max_out
    <3>1. walked(h) = Indices
      BY <2>4 DEF walked
    <3>2. elems'[mod(s)] = Empty
      BY <2>0, <2>3, <3>1, ModFacts
    <3> QED BY <1>0, <2>0, <2>1, <2>2, <2>4, <3>2
  <2>5. CASE ~(h - log_head >= max_out)
    <3>1. walked(h) = log_head..(h - 1)
      BY <1>0, <2>5 DEF walked
    <3>2. ASSUME s \in Filled, s >= h PROVE s \in Filled'
      <4>1. ~\E j \in walked(h) : mod(j) = mod(s)
        <5> SUFFICES ASSUME NEW j \in log_head..(h - 1), mod(j) = mod(s) PROVE FALSE
          BY <3>1
        <5>1. j \in Nat /\ j - s < max_out /\ s - j < max_out /\ j # s
          BY <1>0, <2>0, <2>2, <3>2
        <5> QED BY <2>0, <5>1, ModFacts
      <4>2. s < h + max_out
        BY <1>0, <2>0, <2>2, <3>2
      <4> QED BY <2>1, <2>2, <2>3, <3>2, <4>1, <4>2
    <3>3. ASSUME s \in Filled' PROVE s \in Filled /\ s >= h
      <4>1. ~\E j \in walked(h) : mod(j) = mod(s)
        BY <2>1, <2>3, <3>3
      <4>2. s < log_head + max_out
        <5> SUFFICES ASSUME s >= log_head + max_out PROVE FALSE
          BY <1>0, <2>0
        <5>1. PICK j \in Int : j = s - max_out
          BY <1>0, <2>0
        <5>2. j \in walked(h) /\ s = j + max_out
          BY <1>0, <2>0, <2>1, <3>1, <3>3, <5>1
        <5>3. mod(j) = mod(s)
          BY <5>2, ModFacts
        <5> QED BY <4>1, <5>2, <5>3
      <4> QED BY <1>0, <2>0, <2>1, <2>2, <2>3, <3>3, <4>1, <4>2
    <3> QED BY <3>2, <3>3
  <2> QED BY <2>4, <2>5
<1>3. Filled \subseteq Seqnos /\ Filled' \subseteq Seqnos
  BY DEF Filled
<1> QED BY <1>2, <1>3

(* The head of the log is a sequence number as soon as there is one. *)
HeadOK == log_head \in Seqnos \cup {1}

(* plog is a window onto a table indexed by sequence number (the Effects    *)
(* clauses of Log.h), for any window and as long as the sequence numbers    *)
(* fit the int variables of truncate(): wrapping around the ring, sliding   *)
(* and starting over lose no certificate of the window and bring none back. *)
THEOREM RingImplementsWindow ==
  ASSUME SeqnosFitInt
  PROVE  Spec => RingIsWindow
<1>1. Init => W!WInit /\ HeadOK
  <2> SUFFICES ASSUME Init PROVE W!WInit /\ HeadOK
    OBVIOUS
  <2>1. \A s \in Seqnos : mod(s) \in Indices
    BY ModFacts DEF Seqnos
  <2>2. \A s \in Seqnos : elems[mod(s)] = Empty
    BY <2>1 DEF Init
  <2>3. {s \in Seqnos : log_within_range(s) /\ elems[mod(s)] # Empty} = {}
    BY <2>2
  <2>4. log_head = 1
    BY DEF Init
  <2> QED BY <2>3, <2>4 DEF W!WInit, HeadOK
<1>2. HeadOK /\ [Next]_vars => HeadOK'
  BY DEF HeadOK, Next, vars, plog, region, store, drop, truncate, log_truncate, clear, Heads
<1>3. IInv /\ HeadOK /\ [Next]_vars => [W!WNext]_<<log_head, Filled>>
  <2> SUFFICES ASSUME IInv, HeadOK, [Next]_vars
               PROVE  W!WNext \/ UNCHANGED <<log_head, Filled>>
    OBVIOUS
  <2>0. RingOK /\ max_out \in Nat /\ log_head \in Nat
    BY Sizes DEF IInv, RingOK
  <2>1. ASSUME NEW n \in Seqnos, store(n) PROVE W!WNext
    <3>1. PICK e : e = [n |-> n, at |-> cert_index(n)]
      OBVIOUS
    <3>2. /\ log_within_range(n) /\ log_head' = log_head
          /\ elems' = [elems EXCEPT ![mod(n)] = e]
      BY <2>1, <3>1 DEF store
    <3>3. e # Empty /\ n \in Nat
      BY <3>1 DEF Empty, Seqnos
    <3>4. Filled' = Filled \cup {n}
      BY <2>0, <3>2, <3>3, OneElement
    <3>5. log_head <= n /\ n <= log_head + (max_out - 1)
      BY <2>0, <3>2, <3>3 DEF log_within_range
    <3>6. W!WStore(n)
      BY <3>2, <3>4, <3>5 DEF W!WStore, Filled
    <3> QED BY <3>6 DEF W!WNext
  <2>2. ASSUME NEW n \in Seqnos, drop(n) PROVE W!WNext
    <3>1. /\ log_within_range(n) /\ log_head' = log_head
          /\ elems' = [elems EXCEPT ![mod(n)] = Empty]
      BY <2>2 DEF drop
    <3>2. Filled' = Filled \ {n}
      BY <2>0, <3>1, OneElement
    <3>3. W!WDrop(n)
      BY <3>1, <3>2 DEF W!WDrop, Filled
    <3> QED BY <3>3 DEF W!WNext
  <2>3. ASSUME NEW h \in Heads, truncate(h) PROVE W!WNext
    <3>1. h \in Seqnos /\ log_head \in Seqnos
      <4>1. MaxSeqno \in Nat
        BY AgreementStoreAssumption
      <4>2. h \in Seqnos
        BY DEF Heads
      <4>3. 1 \in Seqnos
        BY <4>1, <4>2 DEF Seqnos
      <4> QED BY <4>2, <4>3 DEF HeadOK
    <3>2. Filled' = {s \in Filled : s >= h}
      BY <2>0, <2>3, <3>1, TruncateFilled
    <3>3. log_head < h /\ log_head' = h
      <4>1. h > log_head /\ log_head' = h
        BY <2>3 DEF truncate, log_truncate
      <4>2. h \in Nat
        BY <3>1 DEF Seqnos
      <4> QED BY <2>0, <4>1, <4>2
    <3>4. W!WTruncate(h)
      BY <3>2, <3>3 DEF W!WTruncate, Filled
    <3> QED BY <3>4 DEF W!WNext
  <2>4. ASSUME NEW h \in Heads, clear(h) PROVE W!WNext
    <3>1. \A s \in Seqnos : mod(s) \in Indices
      BY ModFacts DEF Seqnos
    <3>2. \A s \in Seqnos : elems'[mod(s)] = Empty
      BY <2>4, <3>1 DEF clear
    <3>3. Filled' = {} /\ log_head' = h
      BY <2>4, <3>2 DEF Filled, clear, mod
    <3>4. W!WClear(h)
      BY <3>3 DEF W!WClear, Filled
    <3> QED BY <3>4 DEF W!WNext
  <2>5. ASSUME UNCHANGED vars PROVE UNCHANGED <<log_head, Filled>>
    BY <2>5 DEF vars, plog, Filled, log_within_range, mod
  <2> QED BY <2>1, <2>2, <2>3, <2>4, <2>5 DEF Next
<1> QED BY <1>1, <1>2, <1>3, RingInvariant, PTL
        DEF Spec, RingIsWindow, W!WSpec, W!wvars, Filled
=============================================================================
