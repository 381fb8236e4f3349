------------------------- MODULE Certificate_proofs -------------------------
(***************************************************************************)
(* Proofs about Certificate for any set of replicas, any f, any number of  *)
(* matching messages and any opinions of the other replicas.               *)
(***************************************************************************)
EXTENDS Certificate, TLAPS, FiniteSetTheorems, SequenceTheorems

(* The counters never run ahead of the messages, however the certificate    *)
(* was marked stale, overwritten by add_mine() or cleared by an overflow.   *)
Counted ==
  ~forced => \A k \in 1..Len(cert.vals) :
               cert.vals[k].count <= Cardinality(Supporters(cert.vals[k].m))

(* bmap and mym record exactly who contributed, so no replica is counted    *)
(* twice.                                                                   *)
HeardOnce ==
  /\ \A i \in Replicas \ {Self} : i \in cert.bmap <=> acc[i] # None
  /\ cert.mym = acc[Self]

(* The inductive invariant. *)
IInv == TypeOK /\ Counted /\ HeardOnce

USE DEF max_size, correct
-----------------------------------------------------------------------------
Slots == Seq([m: Values, count: Nat])

(* slot() returns a slot with the value, or 0.                              *)
LEMMA SlotResult ==
  ASSUME NEW x, x.vals \in Slots, NEW v
  PROVE  /\ slot(x, v) \in 0..Len(x.vals)
         /\ slot(x, v) # 0 => x.vals[slot(x, v)].m = v
<1>1. CASE \E k \in 1..Len(x.vals) : x.vals[k].m = v
  <2>1. /\ slot(x, v) \in 1..Len(x.vals)
        /\ x.vals[slot(x, v)].m = v
    BY <1>1 DEF slot
  <2> QED BY <2>1
<1>2. CASE ~\E k \in 1..Len(x.vals) : x.vals[k].m = v
  BY <1>2 DEF slot, Slots
<1> QED BY <1>1, <1>2

(* A replica that had not contributed adds one to the supporters of its     *)
(* value and takes none from any other.                                     *)
LEMMA OneMoreBacker ==
  ASSUME NEW f \in [Replicas -> Values \cup {None, Ignored}],
         NEW i \in Replicas, NEW v \in Values, f[i] = None
  PROVE  LET g == [f EXCEPT ![i] = v]
         IN  /\ Cardinality(Backers(g, v)) = Cardinality(Backers(f, v)) + 1
             /\ \A w \in Values : /\ Cardinality(Backers(f, w)) \in Nat
                                  /\ Cardinality(Backers(g, w)) \in Nat
                                  /\ Cardinality(Backers(f, w)) <= Cardinality(Backers(g, w))
                                  /\ w # v => Backers(g, w) = Backers(f, w)
<1> DEFINE g == [f EXCEPT ![i] = v]
<1>1. \A w : IsFiniteSet(Backers(f, w))
  BY CertificateAssumption, FS_Subset DEF Backers
<1>2. \A w : Cardinality(Backers(f, w)) \in Nat
  BY <1>1, FS_CardinalityType
<1>3. /\ Backers(g, v) = Backers(f, v) \cup {i}
      /\ i \notin Backers(f, v)
  BY CertificateAssumption DEF Backers
<1>4. Cardinality(Backers(g, v)) = Cardinality(Backers(f, v)) + 1
  BY <1>1, <1>3, FS_AddElement
<1>5. \A w \in Values : w # v => Backers(g, w) = Backers(f, w)
  BY CertificateAssumption DEF Backers
<1> HIDE DEF g
<1>6. \A w \in Values : /\ Cardinality(Backers(g, w)) \in Nat
                        /\ Cardinality(Backers(f, w)) <= Cardinality(Backers(g, w))
  BY <1>2, <1>4, <1>5
<1> QED BY <1>2, <1>4, <1>5, <1>6 DEF g

(* Overwriting or appending a slot gives slots again. *)
LEMMA SlotUpdate ==
  ASSUME NEW s \in Slots, NEW k \in 1..Len(s), NEW e \in [m: Values, count: Nat]
  PROVE  /\ [s EXCEPT ![k] = e] \in Slots
         /\ Len([s EXCEPT ![k] = e]) = Len(s)
         /\ \A j \in 1..Len(s) : [s EXCEPT ![k] = e][j] = IF j = k THEN e ELSE s[j]
BY DEF Slots

(* Appending a slot keeps the others where they are. *)
LEMMA SlotAppend ==
  ASSUME NEW s \in Slots, NEW e \in [m: Values, count: Nat]
  PROVE  /\ Append(s, e) \in Slots
         /\ Len(Append(s, e)) = Len(s) + 1
         /\ \A j \in 1..Len(s) : Append(s, e)[j] = s[j]
         /\ Append(s, e)[Len(s) + 1] = e
BY DEF Slots

(* A single slot. *)
LEMMA OneSlot ==
  ASSUME NEW e \in [m: Values, count: Nat]
  PROVE  /\ <<e>> \in Slots /\ Len(<<e>>) = 1 /\ <<e>>[1] = e
BY DEF Slots

(* What the certificate consists of. *)
LEMMA CertificateFields ==
  ASSUME CertOK
  PROVE  /\ cert = [bmap |-> cert.bmap, vals |-> cert.vals, c |-> cert.c, mym |-> cert.mym]
         /\ cert.vals \in Slots /\ Len(cert.vals) \in Nat
         /\ \A k \in 1..Len(cert.vals) : /\ cert.vals[k] \in [m: Values, count: Nat]
                                         /\ cert.vals[k].m \in Values
                                         /\ cert.vals[k].count \in Nat
         /\ cert.c \in 0..Len(cert.vals)
<1>1. cert \in [bmap: SUBSET Replicas, vals: Seq([m: Values, count: Nat]),
               c: Nat, mym: Values \cup {None}]
  BY DEF CertOK
<1>2. cert.vals \in Seq([m: Values, count: Nat]) /\ cert.c \in Nat
  BY <1>1
<1>3. \A k \in 1..Len(cert.vals) : cert.vals[k] \in [m: Values, count: Nat]
  BY <1>2, ElementOfSeq
<1>4. cert.c \in 0..Len(cert.vals)
  BY <1>2 DEF CertOK
<1> QED BY <1>1, <1>2, <1>3, <1>4 DEF Slots
-----------------------------------------------------------------------------
(* A new certificate satisfies the invariant. *)
THEOREM InitIInv == Init => IInv
<1> SUFFICES ASSUME Init PROVE IInv
  OBVIOUS
<1>1. << >> \in Seq([m: Values, count: Nat]) /\ Len(<< >>) = 0
  OBVIOUS
<1>2. TypeOK
  <2>1. CertOK
    BY <1>1, CertificateAssumption DEF Init, CertOK, EmptyCertificate, NoVotes
  <2> QED BY <2>1, CertificateAssumption DEF TypeOK, Init
<1>3. Counted
  BY <1>1 DEF Init, Counted, EmptyCertificate
<1>4. HeardOnce
  BY CertificateAssumption DEF Init, HeardOnce, EmptyCertificate, NoVotes
<1> QED BY <1>2, <1>3, <1>4 DEF IInv

(* clear(), and the overflow inside add(), start over. *)
LEMMA EmptyIInv ==
  ASSUME IInv, cert' = EmptyCertificate, acc' = NoVotes,
         forced' \in BOOLEAN, opinion' \in [Replicas -> SUBSET Values]
  PROVE  IInv'
<1>1. << >> \in Seq([m: Values, count: Nat]) /\ Len(<< >>) = 0
  OBVIOUS
<1>2. TypeOK'
  <2>1. CertOK'
    BY <1>1, CertificateAssumption DEF CertOK, EmptyCertificate, NoVotes
  <2> QED BY <2>1 DEF TypeOK
<1>3. Counted'
  BY <1>1 DEF Counted, EmptyCertificate
<1>4. HeardOnce'
  BY CertificateAssumption DEF HeardOnce, EmptyCertificate, NoVotes
<1> QED BY <1>2, <1>3, <1>4 DEF IInv

-----------------------------------------------------------------------------
(* add(): a message of another replica. *)
LEMMA AddIInv ==
  ASSUME IInv, NEW i \in Replicas, NEW v \in Values, Add(i, v)
  PROVE  IInv'
<1> DEFINE k == IF cert.c # 0 THEN cert.c ELSE slot(cert, v)
           heard == [cert EXCEPT !.bmap = @ \cup {i}]
<1> USE CertificateFields, CertificateAssumption
<1>0. /\ TypeOK /\ CertOK /\ Counted /\ HeardOnce /\ i # Self
      /\ forced' = forced /\ forced' \in BOOLEAN /\ opinion' \in [Replicas -> SUBSET Values]
  BY DEF IInv, TypeOK, Add
<1>1. CASE i \in cert.bmap
  <2>1. cert' = cert /\ acc' = acc
    BY <1>1 DEF Add, add
  <2> QED BY <2>1, <1>0 DEF IInv, TypeOK, CertOK, Counted, HeardOnce, Supporters
<1>2. CASE i \notin cert.bmap /\ cert.c # 0
           /\ ~(cert.vals[cert.c].count < Complete /\ cert.vals[cert.c].m = v)
  <2>1. cert' = heard /\ acc' = [acc EXCEPT ![i] = Ignored]
    BY <1>2 DEF Add, add, added, overflows
  <2>2. CertOK'
    BY <2>1, <1>0 DEF CertOK
  <2>3. Counted'
    <3>1. \A w \in Values : Supporters(w)' = Supporters(w)
      BY <2>1, <1>0, <1>2 DEF Supporters, Backers, HeardOnce, CertOK
    <3> QED BY <3>1, <2>1, <1>0 DEF Counted
  <2>4. HeardOnce'
    BY <2>1, <1>0 DEF HeardOnce, CertOK
  <2> QED BY <2>2, <2>3, <2>4, <1>0 DEF IInv, TypeOK
<1>3. CASE i \notin cert.bmap /\ k # 0
           /\ (cert.c # 0 => cert.vals[cert.c].count < Complete /\ cert.vals[cert.c].m = v)
  <2> DEFINE e == [m |-> v, count |-> cert.vals[k].count + 1]
  <2>1. /\ k \in 1..Len(cert.vals) /\ cert.vals[k].m = v
        /\ e \in [m: Values, count: Nat] /\ cert.vals[k].count \in Nat
    BY <1>3, <1>0, SlotResult
  <2>2. [cert.vals EXCEPT ![k].count = @ + 1] = [cert.vals EXCEPT ![k] = e]
    <3>1. [cert.vals[k] EXCEPT !.count = @ + 1] = e
      BY <2>1, <1>0
    <3> QED BY <3>1
  <2>3. /\ acc' = [acc EXCEPT ![i] = v]
        /\ \E c \in {0, k} : cert' = [bmap |-> cert.bmap \cup {i},
                                     vals |-> [cert.vals EXCEPT ![k] = e],
                                     c |-> c, mym |-> cert.mym]
    BY <1>3, <1>0, <2>1, <2>2 DEF Add, add, added, overflows
  <2>4. CertOK'
    BY <2>1, <2>3, <1>0, SlotUpdate DEF CertOK, Slots
  <2>5. Counted'
    <3>1. acc[i] = None /\ acc \in [Replicas -> Values \cup {None, Ignored}]
      BY <1>3, <1>0 DEF HeardOnce, CertOK
    <3>2. /\ Cardinality(Supporters(v)') = Cardinality(Supporters(v)) + 1
          /\ \A w \in Values : /\ Cardinality(Supporters(w)) \in Nat
                               /\ Cardinality(Supporters(w)') \in Nat
                               /\ Cardinality(Supporters(w)) <= Cardinality(Supporters(w)')
      BY <3>1, <2>3, OneMoreBacker DEF Supporters
    <3>3. /\ cert'.vals = [cert.vals EXCEPT ![k] = e]
          /\ Len(cert'.vals) = Len(cert.vals)
          /\ \A j \in 1..Len(cert.vals) :
               cert'.vals[j] = IF j = k THEN e ELSE cert.vals[j]
      BY <2>1, <2>3, <1>0, SlotUpdate
    <3> QED BY <3>2, <3>3, <2>1, <1>0 DEF Counted, Supporters
  <2>6. HeardOnce'
    BY <2>3, <1>0 DEF HeardOnce, CertOK
  <2> QED BY <2>4, <2>5, <2>6, <1>0 DEF IInv, TypeOK
<1>4. CASE i \notin cert.bmap /\ cert.c = 0 /\ slot(cert, v) = 0 /\ ~full(cert)
  <2> DEFINE e == [m |-> v, count |-> 1]
  <2>1. /\ acc' = [acc EXCEPT ![i] = v]
        /\ cert' = [bmap |-> cert.bmap \cup {i}, vals |-> Append(cert.vals, e),
                    c |-> cert.c, mym |-> cert.mym]
    BY <1>4, <1>0 DEF Add, add, added, overflows
  <2>2. e \in [m: Values, count: Nat]
    OBVIOUS
  <2>3. CertOK'
    BY <2>1, <2>2, <1>4, <1>0, SlotAppend DEF CertOK, Slots, full
  <2>4. Counted'
    <3>1. acc[i] = None /\ acc \in [Replicas -> Values \cup {None, Ignored}]
      BY <1>4, <1>0 DEF HeardOnce, CertOK
    <3>2. /\ Cardinality(Supporters(v)') = Cardinality(Supporters(v)) + 1
          /\ \A w \in Values : /\ Cardinality(Supporters(w)) \in Nat
                               /\ Cardinality(Supporters(w)') \in Nat
                               /\ Cardinality(Supporters(w)) <= Cardinality(Supporters(w)')
      BY <3>1, <2>1, OneMoreBacker DEF Supporters
    <3>3. /\ Len(cert'.vals) = Len(cert.vals) + 1
          /\ \A j \in 1..Len(cert.vals) : cert'.vals[j] = cert.vals[j]
          /\ cert'.vals[Len(cert.vals) + 1] = e
      BY <2>1, <2>2, <1>0, SlotAppend
    <3> QED BY <3>2, <3>3, <1>0 DEF Counted, Supporters
  <2>5. HeardOnce'
    BY <2>1, <1>0 DEF HeardOnce, CertOK
  <2> QED BY <2>3, <2>4, <2>5, <1>0 DEF IInv, TypeOK
<1>5. CASE i \notin cert.bmap /\ cert.c = 0 /\ slot(cert, v) = 0 /\ full(cert)
  <2>1. cert' = EmptyCertificate /\ acc' = NoVotes
    BY <1>5 DEF Add, add, overflows, clear
  <2> QED BY <2>1, <1>0, EmptyIInv
<1> QED BY <1>1, <1>2, <1>3, <1>4, <1>5

(* What add_mine() leaves behind: my value in slot k, the others as they    *)
(* were.                                                                    *)
LEMMA AddMineResult ==
  ASSUME CertOK, NEW v \in Values, ~(cert.c # 0 /\ cert.vals[cert.c].m # v)
  PROVE  LET x == add_mine(cert, v)
         IN  /\ x.bmap = cert.bmap \cup {Self} /\ x.mym = v
             /\ x = [bmap |-> x.bmap, vals |-> x.vals, c |-> x.c, mym |-> x.mym]
             /\ x.vals \in Slots /\ x.c \in 1..Len(x.vals)
             /\ Len(x.vals) = IF Len(cert.vals) = 0 THEN 1 ELSE Len(cert.vals)
             /\ x.vals[x.c].m = v
             /\ \/ /\ x.vals[x.c].count = 1 /\ cert.c = 0
                   /\ \A j \in 1..Len(cert.vals) : cert.vals[j].m # v
                \/ /\ x.c \in 1..Len(cert.vals) /\ cert.vals[x.c].m = v
                   /\ x.vals[x.c].count = cert.vals[x.c].count + 1
                   /\ cert.c # 0 => x.c = cert.c
             /\ \A j \in 1..Len(x.vals) :
                  j # x.c => j \in 1..Len(cert.vals) /\ x.vals[j] = cert.vals[j]
<1> DEFINE k == IF cert.c # 0 THEN cert.c ELSE IF slot(cert, v) # 0 THEN slot(cert, v) ELSE 1
           old == IF cert.c = 0 /\ slot(cert, v) = 0 THEN 0 ELSE cert.vals[k].count
           e == [m |-> v, count |-> old + 1]
           vals == IF cert.vals = << >> THEN <<e>> ELSE [cert.vals EXCEPT ![k] = e]
<1>1. add_mine(cert, v) = [bmap |-> cert.bmap \cup {Self}, vals |-> vals, c |-> k, mym |-> v]
  BY DEF add_mine
<1>2. /\ slot(cert, v) \in 0..Len(cert.vals)
      /\ slot(cert, v) # 0 => cert.vals[slot(cert, v)].m = v
      /\ slot(cert, v) = 0 => \A j \in 1..Len(cert.vals) : cert.vals[j].m # v
  <2>1. ASSUME NEW j \in 1..Len(cert.vals), cert.vals[j].m = v PROVE slot(cert, v) # 0
    <3>1. slot(cert, v) \in 1..Len(cert.vals)
      BY <2>1 DEF slot
    <3> QED BY <3>1
  <2> QED BY <2>1, SlotResult, CertificateFields
<1>3. /\ k \in 1..(IF Len(cert.vals) = 0 THEN 1 ELSE Len(cert.vals))
      /\ old \in Nat
      /\ \/ /\ old = 0 /\ cert.c = 0
            /\ \A j \in 1..Len(cert.vals) : cert.vals[j].m # v
         \/ /\ k \in 1..Len(cert.vals) /\ cert.vals[k].m = v /\ old = cert.vals[k].count
            /\ cert.c # 0 => k = cert.c
  BY <1>2, CertificateFields
<1>4. e \in [m: Values, count: Nat] /\ e.m = v /\ e.count = old + 1
  BY <1>3
<1>5. cert.vals = << >> <=> Len(cert.vals) = 0
  BY CertificateFields, EmptySeq DEF Slots
<1> HIDE DEF k, old, e
<1>6. CASE cert.vals = << >>
  <2>1. vals = <<e>> /\ k = 1
    BY <1>3, <1>5, <1>6
  <2>2. vals \in Slots /\ Len(vals) = 1 /\ vals[1] = e
    BY <2>1, <1>4, OneSlot
  <2> HIDE DEF vals
  <2> QED BY <2>1, <2>2, <1>1, <1>3, <1>4, <1>5, <1>6
<1>7. CASE cert.vals # << >>
  <2>1. vals = [cert.vals EXCEPT ![k] = e] /\ k \in 1..Len(cert.vals)
    BY <1>3, <1>5, <1>7
  <2>2. /\ vals \in Slots /\ Len(vals) = Len(cert.vals)
        /\ \A j \in 1..Len(cert.vals) : vals[j] = IF j = k THEN e ELSE cert.vals[j]
    BY <2>1, <1>4, SlotUpdate, CertificateFields
  <2> HIDE DEF vals
  <2> QED BY <2>1, <2>2, <1>1, <1>3, <1>4, <1>5, <1>7
<1> QED BY <1>6, <1>7

(* add_mine(): refused, or my value becomes the correct one. *)
LEMMA AddMineIInv ==
  ASSUME IInv, NEW v \in Values, AddMine(v)
  PROVE  IInv'
<1>0. /\ TypeOK /\ CertOK /\ Counted /\ HeardOnce /\ cert.mym = None
      /\ forced' = forced /\ opinion' = opinion
      /\ cert' = add_mine(cert, v)
  BY DEF IInv, TypeOK, AddMine
<1>1. CASE cert.c # 0 /\ cert.vals[cert.c].m # v
  <2>1. cert' = cert /\ acc' = acc
    BY <1>0, <1>1 DEF AddMine, add_mine
  <2> QED BY <2>1, <1>0 DEF IInv, TypeOK, CertOK, Counted, HeardOnce, Supporters
<1>2. CASE ~(cert.c # 0 /\ cert.vals[cert.c].m # v)
  <2>1. /\ cert'.bmap = cert.bmap \cup {Self} /\ cert'.mym = v
        /\ cert' = [bmap |-> cert'.bmap, vals |-> cert'.vals, c |-> cert'.c, mym |-> cert'.mym]
        /\ cert'.vals \in Slots /\ cert'.c \in 1..Len(cert'.vals)
        /\ Len(cert'.vals) = IF Len(cert.vals) = 0 THEN 1 ELSE Len(cert.vals)
        /\ cert'.vals[cert'.c].m = v
        /\ \/ cert'.vals[cert'.c].count = 1
           \/ /\ cert'.c \in 1..Len(cert.vals) /\ cert.vals[cert'.c].m = v
              /\ cert'.vals[cert'.c].count = cert.vals[cert'.c].count + 1
        /\ \A j \in 1..Len(cert'.vals) :
             j # cert'.c => j \in 1..Len(cert.vals) /\ cert'.vals[j] = cert.vals[j]
    BY <1>0, <1>2, AddMineResult
  <2>2. acc' = [acc EXCEPT ![Self] = v] /\ acc[Self] = None
    BY <2>1, <1>0, CertificateAssumption DEF AddMine, HeardOnce
  <2>3. CertOK'
    <3>1. Len(cert.vals) <= F + 1 /\ Len(cert.vals) \in Nat
      BY <1>0, CertificateFields DEF CertOK
    <3>2. cert' \in [bmap: SUBSET Replicas, vals: Seq([m: Values, count: Nat]),
                    c: Nat, mym: Values \cup {None}]
      BY <2>1, <1>0, CertificateAssumption DEF CertOK, Slots
    <3>3. Len(cert'.vals) <= F + 1 /\ cert'.c <= Len(cert'.vals)
      BY <2>1, <3>1, CertificateAssumption
    <3> QED BY <2>2, <3>2, <3>3, <1>0, CertificateAssumption DEF CertOK
  <2>4. Counted'
    <3>1. /\ Cardinality(Backers(acc', v)) = Cardinality(Backers(acc, v)) + 1
          /\ \A w \in Values : /\ Cardinality(Backers(acc, w)) \in Nat
                               /\ Cardinality(Backers(acc', w)) \in Nat
                               /\ Cardinality(Backers(acc, w)) <= Cardinality(Backers(acc', w))
      BY <2>2, <1>0, OneMoreBacker, CertificateAssumption DEF CertOK
    <3>2. \A j \in 1..Len(cert.vals) : cert.vals[j].m \in Values /\ cert.vals[j].count \in Nat
      BY <1>0, CertificateFields
    <3> SUFFICES ASSUME ~forced, NEW j \in 1..Len(cert'.vals)
                 PROVE  cert'.vals[j].count <= Cardinality(Backers(acc', cert'.vals[j].m))
      BY <1>0 DEF Counted, Supporters
    <3>3. \A k \in 1..Len(cert.vals) :
            cert.vals[k].count <= Cardinality(Backers(acc, cert.vals[k].m))
      BY <1>0 DEF Counted, Supporters
    <3>4. CASE j = cert'.c
      BY <3>1, <3>2, <3>3, <3>4, <2>1
    <3>5. CASE j # cert'.c
      BY <3>1, <3>2, <3>3, <3>5, <2>1
    <3> QED BY <3>4, <3>5
  <2>5. HeardOnce'
    BY <2>1, <2>2, <1>0, CertificateAssumption DEF HeardOnce, CertOK
  <2> QED BY <2>3, <2>4, <2>5, <1>0 DEF IInv, TypeOK
<1> QED BY <1>1, <1>2

(* mark_stale(): nothing changes, or only my own message is left. *)
LEMMA MarkStaleIInv ==
  ASSUME IInv, MarkStale
  PROVE  IInv'
<1>0. /\ TypeOK /\ CertOK /\ Counted /\ HeardOnce
      /\ forced' \in BOOLEAN /\ opinion' \in [Replicas -> SUBSET Values]
  BY DEF IInv, TypeOK, MarkStale
<1>1. CASE is_complete(cert)
  <2>1. cert' = cert /\ acc' = acc /\ forced' = forced /\ opinion' = opinion
    BY <1>0, <1>1 DEF MarkStale, mark_stale, TypeOK
  <2> QED BY <2>1, <1>0 DEF IInv, TypeOK, CertOK, Counted, HeardOnce, Supporters
<1>2. CASE ~is_complete(cert) /\ cert.mym = None
  <2>1. cert' = EmptyCertificate /\ acc' = NoVotes
    BY <1>0, <1>2, CertificateAssumption DEF MarkStale, mark_stale, HeardOnce, NoVotes
  <2> QED BY <2>1, <1>0, EmptyIInv
<1>3. CASE ~is_complete(cert) /\ cert.mym # None
  <2> DEFINE e == [m |-> cert.mym, count |-> 1]
  <2>1. /\ cert' = [bmap |-> {}, vals |-> <<e>>, c |-> 1, mym |-> cert.mym]
        /\ acc' = [[i \in Replicas |-> None] EXCEPT ![Self] = cert.mym]
        /\ cert.mym \in Values
    BY <1>0, <1>3 DEF MarkStale, mark_stale, NoVotes, HeardOnce, CertOK
  <2>2. e \in [m: Values, count: Nat] /\ e.m = cert.mym /\ e.count = 1
    BY <2>1
  <2>3. CertOK'
    BY <2>1, <2>2, OneSlot, CertificateAssumption DEF CertOK, Slots
  <2>4. Counted'
    <3> DEFINE f == [i \in Replicas |-> None]
    <3>1. f \in [Replicas -> Values \cup {None, Ignored}] /\ f[Self] = None
      BY CertificateAssumption
    <3>2. acc' = [f EXCEPT ![Self] = cert.mym]
      BY <2>1
    <3> HIDE DEF f
    <3>3. 1 <= Cardinality(Backers(acc', cert.mym))
      <4>1. cert.mym \in Values /\ Self \in Replicas
        BY <2>1, CertificateAssumption
      <4>2. /\ Cardinality(Backers([f EXCEPT ![Self] = cert.mym], cert.mym))
                 = Cardinality(Backers(f, cert.mym)) + 1
            /\ Cardinality(Backers(f, cert.mym)) \in Nat
        BY <4>1, <3>1, OneMoreBacker
      <4> QED BY <4>2, <3>2
    <3>4. Len(cert'.vals) = 1 /\ cert'.vals[1] = e
      BY <2>1, <2>2, OneSlot
    <3> QED BY <3>3, <3>4, <2>2 DEF Counted, Supporters
  <2>5. HeardOnce'
    BY <2>1, CertificateAssumption DEF HeardOnce
  <2> QED BY <2>3, <2>4, <2>5, <1>0 DEF IInv, TypeOK
<1> QED BY <1>1, <1>2, <1>3

(* make_complete(): only the counter of my value changes, and forced says so. *)
LEMMA MakeCompleteIInv ==
  ASSUME IInv, MakeComplete
  PROVE  IInv'
<1>0. /\ TypeOK /\ CertOK /\ HeardOnce /\ acc' = acc
      /\ forced' = TRUE /\ opinion' \in [Replicas -> SUBSET Values]
  BY DEF IInv, TypeOK, MakeComplete
<1>1. CertOK' /\ cert'.bmap = cert.bmap /\ cert'.mym = cert.mym
  <2>1. CASE cert.c = 0
    BY <2>1, <1>0 DEF MakeComplete, make_complete, CertOK
  <2>2. CASE cert.c # 0
    <3> DEFINE e == [m |-> cert.vals[cert.c].m, count |-> Complete]
    <3>1. cert.c \in 1..Len(cert.vals) /\ cert.vals[cert.c] \in [m: Values, count: Nat]
      BY <2>2, <1>0, CertificateFields
    <3>2. e \in [m: Values, count: Nat]
      BY <3>1, CertificateAssumption
    <3>3. [cert.vals[cert.c] EXCEPT !.count = Complete] = e
      BY <3>1
    <3>4. cert' = [bmap |-> cert.bmap, vals |-> [cert.vals EXCEPT ![cert.c] = e],
                   c |-> cert.c, mym |-> cert.mym]
      BY <3>3, <2>2, <1>0, CertificateFields DEF MakeComplete, make_complete
    <3>5. /\ [cert.vals EXCEPT ![cert.c] = e] \in Slots
          /\ Len([cert.vals EXCEPT ![cert.c] = e]) = Len(cert.vals)
      BY <3>1, <3>2, <1>0, SlotUpdate, CertificateFields
    <3> HIDE DEF e
    <3> QED BY <3>4, <3>5, <1>0 DEF CertOK, Slots
  <2> QED BY <2>1, <2>2
<1>2. Counted'
  BY <1>0 DEF Counted
<1>3. HeardOnce'
  BY <1>0, <1>1 DEF HeardOnce
<1> QED BY <1>0, <1>1, <1>2, <1>3 DEF IInv, TypeOK

(* Every opinion is one of the values. *)
LEMMA OpinionIsValue ==
  ASSUME IInv, NEW i \in Replicas, NEW v \in opinion[i]
  PROVE  v \in Values
BY DEF IInv, TypeOK

(* Every step of the certificate preserves the invariant. *)
THEOREM StepIInv == IInv /\ [Next]_vars => IInv'
<1> SUFFICES ASSUME IInv, [Next]_vars PROVE IInv'
  OBVIOUS
<1>1. ASSUME NEW i \in Replicas, NEW v \in opinion[i], Add(i, v) PROVE IInv'
  BY <1>1, OpinionIsValue, AddIInv
<1>2. ASSUME NEW v \in opinion[Self], AddMine(v) PROVE IInv'
  BY <1>2, OpinionIsValue, AddMineIInv, CertificateAssumption
<1>3. CASE MarkStale
  BY <1>3, MarkStaleIInv
<1>4. CASE Clear
  BY <1>4, EmptyIInv DEF Clear, clear, IInv, TypeOK
<1>5. CASE MakeComplete
  BY <1>5, MakeCompleteIInv
<1>6. CASE UNCHANGED vars
  BY <1>6 DEF vars, IInv, TypeOK, CertOK, Counted, HeardOnce, Supporters
<1> QED BY <1>1, <1>2, <1>3, <1>4, <1>5, <1>6 DEF Next

(* The invariant holds in every reachable state of the certificate. *)
THEOREM Invariant == Spec => []IInv
<1>1. Init => IInv
  BY InitIInv
<1>2. IInv /\ [Next]_vars => IInv'
  BY StepIInv
<1> QED BY <1>1, <1>2, PTL DEF Spec
-----------------------------------------------------------------------------
(* For every number of replicas and every opinion the certificate stays     *)
(* within its f+1 slots.                                                    *)
THEOREM TypeCorrect == Spec => []TypeOK
<1>1. IInv => TypeOK
  BY DEF IInv
<1> QED BY <1>1, Invariant, PTL

(* For every number of replicas, is_complete() is only ever true of a value *)
(* that Complete different replicas sent, unless make_complete() was called *)
(* since the last reset.                                                    *)
THEOREM CompleteCertificateIsQuorum == Spec => []CompleteIsQuorum
<1>1. IInv => CompleteIsQuorum
  <2> SUFFICES ASSUME IInv, is_complete(cert), ~forced
               PROVE  Cardinality(Supporters(cvalue(cert))) >= Complete
    BY DEF CompleteIsQuorum
  <2>1. CertOK /\ Counted
    BY DEF IInv, TypeOK
  <2>2. /\ cert.c \in 1..Len(cert.vals)
        /\ cvalue(cert) = cert.vals[cert.c].m
        /\ cert.vals[cert.c].count >= Complete
        /\ cert.vals[cert.c].count \in Nat /\ cert.vals[cert.c].m \in Values
    BY <2>1, CertificateFields, CertificateAssumption DEF is_complete, num_correct, cvalue
  <2>3. cert.vals[cert.c].count <= Cardinality(Supporters(cert.vals[cert.c].m))
    BY <2>1, <2>2 DEF Counted
  <2>4. Cardinality(Supporters(cert.vals[cert.c].m)) \in Nat
    <3>1. IsFiniteSet(Supporters(cert.vals[cert.c].m))
      BY CertificateAssumption, FS_Subset DEF Supporters, Backers
    <3> QED BY <3>1, FS_CardinalityType
  <2> QED BY <2>2, <2>3, <2>4, CertificateAssumption
<1> QED BY <1>1, Invariant, PTL
-----------------------------------------------------------------------------
(* My own message fixes the correct value, so add() cannot run out of slots *)
(* afterwards.                                                              *)
MineIsCorrect == cert.mym # None => cert.c # 0

(* No step but clear() drops my message, and each keeps its value correct. *)
LEMMA MineStep ==
  ASSUME IInv, MineIsCorrect, [Next]_vars
  PROVE  /\ MineIsCorrect'
         /\ cert.mym # None /\ cert'.mym # cert.mym => Clear
<1> USE DEF MineIsCorrect
<1>0. CertOK
  BY DEF IInv, TypeOK
<1>1. ASSUME NEW i \in Replicas, NEW v \in opinion[i], Add(i, v)
      PROVE  MineIsCorrect' /\ (cert.mym # None => cert'.mym = cert.mym)
  BY <1>0, <1>1, CertificateFields DEF Add, add, clear, EmptyCertificate
<1>2. ASSUME NEW v \in opinion[Self], AddMine(v)
      PROVE  MineIsCorrect' /\ cert.mym = None
  <2>1. CASE cert.c # 0 /\ cert.vals[cert.c].m # v
    BY <1>2, <2>1 DEF AddMine, add_mine
  <2>2. CASE ~(cert.c # 0 /\ cert.vals[cert.c].m # v)
    BY <1>0, <1>2, <2>2, OpinionIsValue, AddMineResult, CertificateAssumption DEF AddMine
  <2> QED BY <2>1, <2>2
<1>3. CASE MarkStale
  BY <1>0, <1>3 DEF MarkStale, mark_stale, EmptyCertificate
<1>4. CASE Clear
  BY <1>4 DEF Clear, clear, EmptyCertificate
<1>5. CASE MakeComplete
  BY <1>0, <1>5, CertificateFields DEF MakeComplete, make_complete
<1>6. CASE UNCHANGED vars
  BY <1>6 DEF vars
<1> QED BY <1>1, <1>2, <1>3, <1>4, <1>5, <1>6 DEF Next

(* For every number of replicas, only clear() makes a replica forget the    *)
(* message it sent; an overflow of the slots never does.                    *)
THEOREM MineSurvives == Spec => OnlyClearDropsMine
<1>1. Init => MineIsCorrect
  BY DEF Init, MineIsCorrect, EmptyCertificate
<1>2. IInv /\ MineIsCorrect /\ [Next]_vars => MineIsCorrect'
  BY MineStep
<1>3. IInv /\ MineIsCorrect /\ [Next]_vars
        => [cert.mym # None /\ cert'.mym # cert.mym => Clear]_vars
  BY MineStep
<1> QED BY <1>1, <1>2, <1>3, Invariant, PTL DEF Spec, OnlyClearDropsMine
-----------------------------------------------------------------------------
(* While the correct value is open, every message taken is in some slot.    *)
AllHeld ==
  cert.c = 0 => \A i \in Replicas : acc[i] \in Values =>
                  \E k \in 1..Len(cert.vals) : cert.vals[k].m = acc[i]

Exact == CountersExact /\ AllHeld

(* The empty certificate is exact. *)
LEMMA EmptyExact ==
  ASSUME cert' = EmptyCertificate, acc' = NoVotes
  PROVE  Exact'
<1>1. Len(<< >>) = 0
  OBVIOUS
<1> QED BY <1>1, CertificateAssumption
        DEF Exact, CountersExact, AllHeld, EmptyCertificate, NoVotes

(* add() keeps the counters exact while the correct value is open. *)
LEMMA AddExact ==
  ASSUME IInv, Exact, NEW i \in Replicas, NEW v \in Values, Add(i, v)
  PROVE  Exact'
<1> SUFFICES ASSUME cert'.c = 0 PROVE Exact'
  BY DEF Exact, CountersExact, AllHeld
<1>0. CertOK /\ HeardOnce /\ i # Self
  BY DEF IInv, TypeOK, Add
<1>1. CASE i \in cert.bmap
  <2>1. cert' = cert /\ acc' = acc
    BY <1>1 DEF Add, add
  <2> QED BY <2>1 DEF Exact, CountersExact, AllHeld, Supporters
<1>2. CASE i \notin cert.bmap /\ cert.c # 0
  BY <1>0, <1>2, CertificateFields DEF Add, add
<1>3. ASSUME i \notin cert.bmap, cert.c = 0 PROVE acc[i] = None
  BY <1>0, <1>3 DEF HeardOnce
<1>4. CASE i \notin cert.bmap /\ cert.c = 0 /\ slot(cert, v) # 0
  <2> DEFINE k == slot(cert, v)
             e == [m |-> v, count |-> cert.vals[k].count + 1]
  <2>1. /\ k \in 1..Len(cert.vals) /\ cert.vals[k].m = v
        /\ cert.vals[k] \in [m: Values, count: Nat] /\ e \in [m: Values, count: Nat]
    BY <1>0, <1>4, SlotResult, CertificateFields
  <2>2. [cert.vals[k] EXCEPT !.count = @ + 1] = e
    BY <2>1
  <2>3. /\ cert'.vals = [cert.vals EXCEPT ![k] = e]
        /\ acc' = [acc EXCEPT ![i] = v]
    BY <1>0, <1>4, <2>2, CertificateFields DEF Add, add, added, overflows
  <2> HIDE DEF k
  <2>4. /\ Len(cert'.vals) = Len(cert.vals)
        /\ \A j \in 1..Len(cert.vals) : cert'.vals[j] = IF j = k THEN e ELSE cert.vals[j]
    BY <1>0, <2>1, <2>3, SlotUpdate, CertificateFields
  <2>5. /\ \A j \in 1..Len(cert.vals) : /\ cert'.vals[j].m = cert.vals[j].m
                                        /\ cert.vals[j].m \in Values
        /\ \A j \in 1..Len(cert.vals) : j # k => cert'.vals[j] = cert.vals[j]
        /\ cert'.vals[k].count = cert.vals[k].count + 1
    BY <1>0, <2>1, <2>4, CertificateFields
  <2>6. /\ Cardinality(Backers(acc', v)) = Cardinality(Backers(acc, v)) + 1
        /\ \A w \in Values : w # v => Backers(acc', w) = Backers(acc, w)
    <3>1. acc[i] = None
      BY <1>3, <1>4
    <3>2. acc \in [Replicas -> Values \cup {None, Ignored}]
      BY <1>0 DEF CertOK
    <3>3. acc' = [acc EXCEPT ![i] = v]
      BY <2>3
    <3> QED BY <3>1, <3>2, <3>3, OneMoreBacker
  <2>7. \A j \in 1..Len(cert.vals) : cert.vals[j].m = v => j = k
    BY <1>4, <2>1 DEF Exact, CountersExact
  <2>8. \A j \in 1..Len(cert.vals) :
          cert.vals[j].count = Cardinality(Backers(acc, cert.vals[j].m))
    BY <1>4 DEF Exact, CountersExact, Supporters
  <2>9. \A j \in 1..Len(cert.vals) :
          cert'.vals[j].count = Cardinality(Backers(acc', cert'.vals[j].m))
    BY <2>1, <2>5, <2>6, <2>7, <2>8
  <2>10. CountersExact'
    BY <1>4, <2>4, <2>5, <2>9 DEF Exact, CountersExact, Supporters
  <2>11. AllHeld'
    BY <1>0, <1>4, <2>1, <2>3, <2>4, <2>5 DEF Exact, AllHeld, CertOK
  <2> QED BY <2>10, <2>11 DEF Exact
<1>5. CASE i \notin cert.bmap /\ cert.c = 0 /\ slot(cert, v) = 0 /\ ~full(cert)
  <2> DEFINE e == [m |-> v, count |-> 1]
             n == Len(cert.vals)
  <2>1. /\ acc' = [acc EXCEPT ![i] = v]
        /\ cert'.vals = Append(cert.vals, e)
    BY <1>0, <1>5, CertificateFields DEF Add, add, added, overflows
  <2>2. /\ Len(cert'.vals) = n + 1 /\ n \in Nat
        /\ \A j \in 1..n : cert'.vals[j] = cert.vals[j]
        /\ cert'.vals[n + 1] = e
    BY <1>0, <2>1, SlotAppend, CertificateFields
  <2>3. \A j \in 1..n : cert.vals[j].m # v /\ cert.vals[j].m \in Values
    BY <1>0, <1>5, CertificateFields DEF slot
  <2>4. Backers(acc, v) = {}
    BY <1>5, <2>3 DEF Exact, AllHeld, Backers
  <2>5. /\ Cardinality(Backers(acc', v)) = 1
        /\ \A w \in Values : w # v => Backers(acc', w) = Backers(acc, w)
    <3>1. acc[i] = None
      BY <1>3, <1>5
    <3>2. Cardinality(Backers(acc, v)) = 0
      BY <2>4, FS_EmptySet
    <3>3. acc \in [Replicas -> Values \cup {None, Ignored}]
      BY <1>0 DEF CertOK
    <3>4. acc' = [acc EXCEPT ![i] = v]
      BY <2>1
    <3>5. /\ Cardinality(Backers(acc', v)) = Cardinality(Backers(acc, v)) + 1
          /\ \A w \in Values : w # v => Backers(acc', w) = Backers(acc, w)
      BY <3>1, <3>3, <3>4, OneMoreBacker
    <3> QED BY <3>2, <3>5
  <2>6. \A j \in 1..n : cert.vals[j].count = Cardinality(Backers(acc, cert.vals[j].m))
    BY <1>5 DEF Exact, CountersExact, Supporters
  <2>7. \A j \in 1..(n + 1) : cert'.vals[j].count = Cardinality(Backers(acc', cert'.vals[j].m))
    BY <2>2, <2>3, <2>5, <2>6
  <2>8. \A j, k \in 1..(n + 1) : cert'.vals[j].m = cert'.vals[k].m => j = k
    <3>1. \A j, k \in 1..n : cert.vals[j].m = cert.vals[k].m => j = k
      BY <1>5 DEF Exact, CountersExact
    <3>2. \A j \in 1..(n + 1) : /\ j # n + 1 => j \in 1..n
                               /\ cert'.vals[j].m = v => j = n + 1
      BY <2>2, <2>3
    <3>3. cert'.vals[n + 1].m = v
      BY <2>2
    <3>4. \A j \in 1..n : cert'.vals[j].m = cert.vals[j].m
      BY <2>2
    <3> SUFFICES ASSUME NEW j \in 1..(n + 1), NEW k \in 1..(n + 1),
                        cert'.vals[j].m = cert'.vals[k].m
                 PROVE  j = k
      OBVIOUS
    <3>5. CASE j = n + 1
      BY <3>2, <3>3, <3>5
    <3>6. CASE k = n + 1
      BY <3>2, <3>3, <3>6
    <3>7. CASE j # n + 1 /\ k # n + 1
      <4>1. j \in 1..n /\ k \in 1..n
        BY <3>2, <3>7
      <4>2. cert.vals[j].m = cert.vals[k].m
        BY <3>4, <4>1
      <4> QED BY <3>1, <4>1, <4>2
    <3> QED BY <3>5, <3>6, <3>7
  <2>9. CountersExact'
    BY <2>2, <2>7, <2>8 DEF CountersExact, Supporters
  <2>10. AllHeld'
    <3>1. cert'.vals[n + 1].m = v /\ n + 1 \in 1..Len(cert'.vals)
      BY <2>2
    <3>2. \A q \in Replicas : q # i => acc'[q] = acc[q]
      BY <1>0, <2>1 DEF CertOK
    <3>3. acc'[i] = v
      BY <1>0, <2>1 DEF CertOK
    <3>4. \A q \in Replicas : acc[q] \in Values =>
            \E k \in 1..n : cert.vals[k].m = acc[q]
      BY <1>5 DEF Exact, AllHeld
    <3>5. \A k \in 1..n : k \in 1..Len(cert'.vals) /\ cert'.vals[k].m = cert.vals[k].m
      BY <2>2
    <3> QED BY <3>1, <3>2, <3>3, <3>4, <3>5 DEF AllHeld
  <2> QED BY <2>9, <2>10 DEF Exact
<1>6. CASE i \notin cert.bmap /\ cert.c = 0 /\ slot(cert, v) = 0 /\ full(cert)
  <2>1. cert' = EmptyCertificate /\ acc' = NoVotes
    BY <1>6 DEF Add, add, overflows, clear
  <2> QED BY <2>1, EmptyExact
<1> QED BY <1>1, <1>2, <1>4, <1>5, <1>6

(* The counters stay exact, and every message is in some slot, while the    *)
(* correct value is open.                                                   *)
THEOREM ExactInvariant == Spec => []Exact
<1>1. Init => Exact
  <2>1. Len(<< >>) = 0
    OBVIOUS
  <2> QED BY <2>1, CertificateAssumption
          DEF Init, Exact, CountersExact, AllHeld, EmptyCertificate, NoVotes
<1>2. IInv /\ MineIsCorrect /\ Exact /\ [Next]_vars => Exact'
  <2> SUFFICES ASSUME IInv, MineIsCorrect, Exact, [Next]_vars PROVE Exact'
    OBVIOUS
  <2>0. CertOK /\ HeardOnce
    BY DEF IInv, TypeOK
  <2>1. ASSUME NEW i \in Replicas, NEW v \in opinion[i], Add(i, v) PROVE Exact'
    BY <2>1, OpinionIsValue, AddExact
  <2>2. ASSUME NEW v \in opinion[Self], AddMine(v) PROVE Exact'
    <3>1. CASE cert.c # 0 /\ cert.vals[cert.c].m # v
      BY <2>2, <3>1 DEF AddMine, add_mine, Exact, CountersExact, AllHeld
    <3>2. CASE ~(cert.c # 0 /\ cert.vals[cert.c].m # v)
      <4>1. cert'.c # 0
        BY <2>0, <2>2, <3>2, OpinionIsValue, AddMineResult, CertificateAssumption DEF AddMine
      <4> QED BY <4>1 DEF Exact, CountersExact, AllHeld
    <3> QED BY <3>1, <3>2
  <2>3. CASE MarkStale
    <3>1. CASE is_complete(cert)
      <4>1. cert' = cert /\ acc' = acc
        BY <2>3, <3>1 DEF MarkStale, mark_stale
      <4> QED BY <4>1 DEF Exact, CountersExact, AllHeld, Supporters
    <3>2. CASE ~is_complete(cert) /\ cert.mym = None
      <4>1. cert' = EmptyCertificate /\ acc' = NoVotes
        BY <2>0, <2>3, <3>2, CertificateAssumption DEF MarkStale, mark_stale, HeardOnce, NoVotes
      <4> QED BY <4>1, EmptyExact
    <3>3. CASE ~is_complete(cert) /\ cert.mym # None
      <4>1. cert'.c = 1
        BY <2>3, <3>3 DEF MarkStale, mark_stale
      <4> QED BY <4>1 DEF Exact, CountersExact, AllHeld
    <3> QED BY <3>1, <3>2, <3>3
  <2>4. CASE Clear
    BY <2>4, EmptyExact DEF Clear, clear
  <2>5. CASE MakeComplete
    <3>1. cert'.c = cert.c /\ cert.c # 0
      BY <2>0, <2>5, CertificateFields DEF MakeComplete, make_complete, MineIsCorrect
    <3> QED BY <3>1 DEF Exact, CountersExact, AllHeld
  <2>6. CASE UNCHANGED vars
    BY <2>6 DEF vars, Exact, CountersExact, AllHeld, Supporters
  <2> QED BY <2>1, <2>2, <2>3, <2>4, <2>5, <2>6 DEF Next
<1>3. Init => MineIsCorrect
  BY DEF Init, MineIsCorrect, EmptyCertificate
<1>4. IInv /\ MineIsCorrect /\ [Next]_vars => MineIsCorrect'
  BY MineStep
<1> QED BY <1>1, <1>2, <1>3, <1>4, Invariant, PTL DEF Spec

(* For every number of replicas, no message is lost or counted twice while  *)
(* the correct value is open.                                               *)
THEOREM CountersAreExact == Spec => []CountersExact
<1>1. Exact => CountersExact
  BY DEF Exact
<1> QED BY <1>1, ExactInvariant, PTL

-----------------------------------------------------------------------------
(* The messages taken are what the replicas sent. *)
OpinionsKept == \A i \in Replicas : acc[i] \in opinion[i] \cup {None, Ignored}

(* My message has the correct value. *)
MineFixes == cert.mym # None => cert.c # 0 /\ cert.vals[cert.c].m = cert.mym

(* A value is correct because I sent it or because f+1 replicas did, and    *)
(* none of its messages is missing in its counter.                          *)
CorrectBacked ==
  cert.c # 0 => \/ cert.vals[cert.c].m = cert.mym
                \/ Cardinality(Supporters(cert.vals[cert.c].m)) > F

CorrectExact ==
  cert.c # 0 /\ ~forced =>
    cert.vals[cert.c].count = Cardinality(Supporters(cert.vals[cert.c].m))

(* A certificate that was forced is complete and has my message. *)
ForcedComplete == forced => cert.mym # None /\ is_complete(cert)

(* While the correct value is open every message is taken and every slot    *)
(* has one.                                                                 *)
OpenTaken ==
  cert.c = 0 => /\ \A i \in Replicas : acc[i] # Ignored
                /\ \A k \in 1..Len(cert.vals) : cert.vals[k].count > 0

(* Messages with the correct value are ignored only when it is complete. *)
IgnoredLate ==
  cert.c # 0 => \A i \in Replicas :
    acc[i] = Ignored /\ opinion[i] = {cert.vals[cert.c].m} => is_complete(cert)

JInv == /\ OpinionsKept /\ MineFixes /\ CorrectBacked /\ CorrectExact
        /\ ForcedComplete /\ OpenTaken /\ IgnoredLate

(* is_complete() compares the counter of the correct value. *)
LEMMA CompleteCount ==
  ASSUME CertOK
  PROVE  is_complete(cert) <=> cert.c # 0 /\ cert.vals[cert.c].count >= Complete
BY CertificateAssumption DEF is_complete, num_correct

(* A set of backers is finite. *)
LEMMA BackersCount ==
  ASSUME NEW f, NEW v
  PROVE  IsFiniteSet(Backers(f, v)) /\ Cardinality(Backers(f, v)) \in Nat
<1>1. IsFiniteSet(Backers(f, v))
  BY CertificateAssumption, FS_Subset DEF Backers
<1> QED BY <1>1, FS_CardinalityType

(* The outcomes of add(): the message is known, it comes too late or does   *)
(* not fit, it is counted, it gets a slot of its own, or none is left.      *)
Known(i) == i \in cert.bmap /\ cert' = cert /\ acc' = acc

Passed(i, v) ==
  /\ i \notin cert.bmap /\ cert.c # 0
  /\ cert.vals[cert.c].count >= Complete \/ cert.vals[cert.c].m # v
  /\ cert'.vals = cert.vals /\ cert'.c = cert.c /\ cert'.mym = cert.mym
  /\ acc' = [acc EXCEPT ![i] = Ignored]

CountedIn(i, v, k) ==
  /\ i \notin cert.bmap /\ k \in 1..Len(cert.vals) /\ cert.vals[k].m = v
  /\ cert.c # 0 => k = cert.c /\ cert.vals[k].count < Complete
  /\ cert'.c = IF cert.c # 0 \/ cert.vals[k].count >= F THEN k ELSE 0
  /\ cert'.mym = cert.mym /\ Len(cert'.vals) = Len(cert.vals)
  /\ \A j \in 1..Len(cert.vals) : j # k => cert'.vals[j] = cert.vals[j]
  /\ cert'.vals[k].m = v /\ cert'.vals[k].count = cert.vals[k].count + 1
  /\ acc' = [acc EXCEPT ![i] = v]

Opened(i, v) ==
  /\ i \notin cert.bmap /\ cert.c = 0 /\ cert'.c = 0 /\ Len(cert.vals) <= F
  /\ \A k \in 1..Len(cert.vals) : cert.vals[k].m # v
  /\ cert'.mym = cert.mym /\ Len(cert'.vals) = Len(cert.vals) + 1
  /\ \A j \in 1..Len(cert.vals) : cert'.vals[j] = cert.vals[j]
  /\ cert'.vals[Len(cert.vals) + 1] = [m |-> v, count |-> 1]
  /\ acc' = [acc EXCEPT ![i] = v]

Overflown(i, v) ==
  /\ i \notin cert.bmap /\ cert.c = 0 /\ Len(cert.vals) > F
  /\ \A k \in 1..Len(cert.vals) : cert.vals[k].m # v
  /\ cert' = EmptyCertificate /\ acc' = NoVotes

(* See Known: there are no others. *)
LEMMA AddCases ==
  ASSUME CertOK, NEW i \in Replicas, NEW v \in Values, Add(i, v)
  PROVE  \/ Known(i) \/ Passed(i, v) \/ Opened(i, v) \/ Overflown(i, v)
         \/ \E k \in 1..Len(cert.vals) : CountedIn(i, v, k)
<1>0. /\ cert = [bmap |-> cert.bmap, vals |-> cert.vals, c |-> cert.c, mym |-> cert.mym]
      /\ cert.vals \in Slots /\ Len(cert.vals) \in Nat /\ cert.c \in 0..Len(cert.vals)
      /\ \A k \in 1..Len(cert.vals) : /\ cert.vals[k] \in [m: Values, count: Nat]
                                      /\ cert.vals[k].m \in Values /\ cert.vals[k].count \in Nat
      /\ Complete \in Nat /\ F \in Nat
  BY CertificateFields, CertificateAssumption
<1>1. CASE i \in cert.bmap
  BY <1>1 DEF Add, add, Known
<1>2. CASE /\ i \notin cert.bmap /\ cert.c # 0
           /\ ~(cert.vals[cert.c].count < Complete /\ cert.vals[cert.c].m = v)
  <2>1. cert' = [cert EXCEPT !.bmap = @ \cup {i}] /\ acc' = [acc EXCEPT ![i] = Ignored]
    BY <1>2 DEF Add, add, added, overflows
  <2> QED BY <1>0, <1>2, <2>1 DEF Passed
<1>3. CASE /\ i \notin cert.bmap
           /\ cert.c # 0 => cert.vals[cert.c].count < Complete /\ cert.vals[cert.c].m = v
           /\ cert.c = 0 => slot(cert, v) # 0
  <2>1. PICK k : k = IF cert.c # 0 THEN cert.c ELSE slot(cert, v)
    OBVIOUS
  <2>2. k \in 1..Len(cert.vals) /\ cert.vals[k].m = v /\ k # 0
    BY <1>0, <1>3, <2>1, SlotResult
  <2>3. PICK e : e = [cert.vals[k] EXCEPT !.count = @ + 1]
    OBVIOUS
  <2>4. e \in [m: Values, count: Nat] /\ e.m = v /\ e.count = cert.vals[k].count + 1
    BY <1>0, <2>2, <2>3
  <2>5. PICK s : s = [cert.vals EXCEPT ![k] = e]
    OBVIOUS
  <2>6. s = [cert.vals EXCEPT ![k].count = @ + 1]
    BY <2>3, <2>5
  <2>7. PICK c : c = IF cert.c # 0 \/ cert.vals[k].count + 1 >= F + 1 THEN k ELSE 0
    OBVIOUS
  <2>8. /\ cert' = [bmap |-> cert.bmap \cup {i}, vals |-> s, c |-> c, mym |-> cert.mym]
        /\ acc' = [acc EXCEPT ![i] = v]
    BY <1>0, <1>3, <2>1, <2>2, <2>6, <2>7 DEF Add, add, added, overflows
  <2>9. /\ Len(s) = Len(cert.vals)
        /\ \A j \in 1..Len(cert.vals) : s[j] = IF j = k THEN e ELSE cert.vals[j]
    BY <1>0, <2>2, <2>4, <2>5, SlotUpdate
  <2>10. cert.c # 0 => k = cert.c /\ cert.vals[k].count < Complete
    BY <1>3, <2>1
  <2>11. c = IF cert.c # 0 \/ cert.vals[k].count >= F THEN k ELSE 0
    BY <1>0, <2>2, <2>7
  <2> QED BY <1>3, <2>2, <2>4, <2>8, <2>9, <2>10, <2>11 DEF CountedIn
<1>4. ASSUME cert.c = 0, slot(cert, v) = 0
      PROVE  \A k \in 1..Len(cert.vals) : cert.vals[k].m # v
  BY <1>0, <1>4 DEF slot
<1>5. CASE i \notin cert.bmap /\ cert.c = 0 /\ slot(cert, v) = 0 /\ ~full(cert)
  <2>1. PICK e : e = [m |-> v, count |-> 1]
    OBVIOUS
  <2>2. /\ acc' = [acc EXCEPT ![i] = v]
        /\ cert' = [bmap |-> cert.bmap \cup {i}, vals |-> Append(cert.vals, e),
                    c |-> cert.c, mym |-> cert.mym]
    BY <1>0, <1>5, <2>1 DEF Add, add, added, overflows
  <2>3. e \in [m: Values, count: Nat]
    BY <2>1
  <2>4. /\ Len(cert'.vals) = Len(cert.vals) + 1
        /\ \A j \in 1..Len(cert.vals) : cert'.vals[j] = cert.vals[j]
        /\ cert'.vals[Len(cert.vals) + 1] = e
    BY <1>0, <2>2, <2>3, SlotAppend
  <2>5. Len(cert.vals) <= F
    BY <1>0, <1>5 DEF full
  <2> QED BY <1>4, <1>5, <2>1, <2>2, <2>4, <2>5 DEF Opened
<1>6. CASE i \notin cert.bmap /\ cert.c = 0 /\ slot(cert, v) = 0 /\ full(cert)
  <2>1. cert' = EmptyCertificate /\ acc' = NoVotes
    BY <1>6 DEF Add, add, overflows, clear
  <2>2. Len(cert.vals) > F
    BY <1>0, <1>6 DEF full
  <2> QED BY <1>4, <1>6, <2>1, <2>2 DEF Overflown
<1> QED BY <1>1, <1>2, <1>3, <1>5, <1>6

(* The empty certificate satisfies the invariant. *)
LEMMA EmptyJ ==
  ASSUME cert' = EmptyCertificate, acc' = NoVotes, forced' = FALSE
  PROVE  JInv'
<1>1. /\ cert'.c = 0 /\ cert'.vals = << >> /\ cert'.mym = None /\ Len(<< >>) = 0
      /\ \A i \in Replicas : acc'[i] = None
  BY DEF EmptyCertificate, NoVotes
<1>2. 1..Len(cert'.vals) = {}
  BY <1>1
<1> QED BY <1>1, <1>2, CertificateAssumption
        DEF JInv, OpinionsKept, MineFixes, CorrectBacked, CorrectExact, ForcedComplete,
            OpenTaken, IgnoredLate

(* add() keeps the invariant: each outcome does. *)
LEMMA AddJ ==
  ASSUME IInv, IInv', Exact, JInv, NEW i \in Replicas, NEW v \in Values, v \in opinion[i], Add(i, v)
  PROVE  JInv'
<1>0. /\ CertOK /\ CertOK' /\ HeardOnce /\ forced' = forced /\ opinion' = opinion /\ i # Self
      /\ forced \in BOOLEAN
      /\ acc \in [Replicas -> Values \cup {None, Ignored}]
      /\ cert.c \in 0..Len(cert.vals) /\ Len(cert.vals) \in Nat
      /\ \A k \in 1..Len(cert.vals) : cert.vals[k].m \in Values /\ cert.vals[k].count \in Nat
      /\ None \notin Values /\ Ignored \notin Values /\ Complete \in Nat /\ F \in Nat
  BY CertificateFields, CertificateAssumption DEF IInv, TypeOK, CertOK, Add
<1>1. /\ is_complete(cert) <=> cert.c # 0 /\ cert.vals[cert.c].count >= Complete
      /\ is_complete(cert)' <=> cert'.c # 0 /\ cert'.vals[cert'.c].count >= Complete
  BY <1>0, CompleteCount, CertificateAssumption DEF is_complete, num_correct
<1>2. i \notin cert.bmap => acc[i] = None
  BY <1>0 DEF HeardOnce
<1>3. CASE Known(i)
  BY <1>0, <1>1, <1>3
     DEF Known, JInv, OpinionsKept, MineFixes, CorrectBacked, CorrectExact, ForcedComplete,
         OpenTaken, IgnoredLate, Supporters
<1>4. CASE Passed(i, v)
  <2>1. \A w \in Values : Backers(acc', w) = Backers(acc, w)
    BY <1>0, <1>2, <1>4 DEF Passed, Backers
  <2>2. /\ \A j \in Replicas : acc'[j] = IF j = i THEN Ignored ELSE acc[j]
        /\ cert.c # 0 /\ cert'.c = cert.c /\ cert'.vals = cert.vals /\ cert'.mym = cert.mym
        /\ cert.vals[cert.c].count >= Complete \/ cert.vals[cert.c].m # v
    BY <1>0, <1>4 DEF Passed
  <2>3. OpinionsKept' /\ MineFixes' /\ ForcedComplete' /\ OpenTaken'
    BY <1>0, <1>1, <2>2 DEF JInv, OpinionsKept, MineFixes, ForcedComplete, OpenTaken
  <2>4. CorrectBacked' /\ CorrectExact'
    BY <1>0, <2>1, <2>2 DEF JInv, CorrectBacked, CorrectExact, Supporters
  <2>5. IgnoredLate'
    BY <1>0, <1>1, <2>2 DEF JInv, IgnoredLate
  <2> QED BY <2>3, <2>4, <2>5 DEF JInv
<1>5. ASSUME NEW k \in 1..Len(cert.vals), CountedIn(i, v, k) PROVE JInv'
  <2>1. /\ \A j \in Replicas : acc'[j] = IF j = i THEN v ELSE acc[j]
        /\ acc[i] = None /\ acc' = [acc EXCEPT ![i] = v]
    BY <1>0, <1>2, <1>5 DEF CountedIn
  <2>2. /\ Cardinality(Backers(acc', v)) = Cardinality(Backers(acc, v)) + 1
        /\ Cardinality(Backers(acc, v)) \in Nat
    BY <1>0, <2>1, OneMoreBacker
  <2>3. /\ cert.vals[k].m = v /\ cert'.vals[k].m = v /\ k # 0 /\ cert'.mym = cert.mym
        /\ cert'.vals[k].count = cert.vals[k].count + 1 /\ cert.vals[k].count \in Nat
        /\ cert.c # 0 => k = cert.c /\ cert.vals[k].count < Complete
        /\ cert'.c = IF cert.c # 0 \/ cert.vals[k].count >= F THEN k ELSE 0
    BY <1>0, <1>5 DEF CountedIn
  <2>4. ~is_complete(cert) /\ ~forced
    BY <1>0, <1>1, <2>3 DEF JInv, ForcedComplete
  <2>5. cert.vals[k].count = Cardinality(Backers(acc, v))
    BY <2>3, <2>4 DEF JInv, CorrectExact, Exact, CountersExact, Supporters
  <2>6. OpinionsKept'
    BY <1>0, <2>1 DEF JInv, OpinionsKept
  <2>7. MineFixes'
    BY <2>3 DEF JInv, MineFixes
  <2>8. CorrectBacked'
    <3>1. CASE cert.c # 0
      <4>1. v = cert.mym \/ Cardinality(Backers(acc, v)) > F
        BY <2>3, <3>1 DEF JInv, CorrectBacked, Supporters
      <4> QED BY <1>0, <2>2, <2>3, <3>1, <4>1 DEF CorrectBacked, Supporters
    <3>2. CASE cert.c = 0
      BY <1>0, <2>2, <2>3, <2>5, <3>2 DEF CorrectBacked, Supporters
    <3> QED BY <3>1, <3>2
  <2>9. CorrectExact'
    BY <2>2, <2>3, <2>5 DEF CorrectExact, Supporters
  <2>10. ForcedComplete'
    BY <1>0, <2>4 DEF ForcedComplete
  <2>11. OpenTaken'
    <3> SUFFICES ASSUME cert'.c = 0 PROVE OpenTaken'
      BY DEF OpenTaken
    <3>1. cert.c = 0 /\ \A j \in Replicas : acc[j] # Ignored
      BY <2>3 DEF JInv, OpenTaken
    <3>2. \A j \in 1..Len(cert'.vals) : cert'.vals[j].count > 0
      <4>1. Len(cert'.vals) = Len(cert.vals) /\ \A j \in 1..Len(cert.vals) : j # k => cert'.vals[j] = cert.vals[j]
        BY <1>5 DEF CountedIn
      <4>2. \A j \in 1..Len(cert.vals) : cert.vals[j].count > 0
        BY <3>1 DEF JInv, OpenTaken
      <4> QED BY <2>3, <4>1, <4>2
    <3>3. \A j \in Replicas : acc'[j] # Ignored
      BY <1>0, <2>1, <3>1
    <3> QED BY <3>2, <3>3 DEF OpenTaken
  <2>12. IgnoredLate'
    <3> SUFFICES ASSUME NEW j \in Replicas, acc'[j] = Ignored, opinion'[j] = {cert'.vals[cert'.c].m},
                        cert'.c # 0
                 PROVE  FALSE
      BY DEF IgnoredLate
    <3>1. acc[j] = Ignored /\ opinion[j] = {v}
      BY <1>0, <2>1, <2>3
    <3>2. cert.c # 0 /\ cert.vals[cert.c].m = v
      BY <2>3, <3>1 DEF JInv, OpenTaken
    <3> QED BY <2>4, <3>1, <3>2 DEF JInv, IgnoredLate
  <2> QED BY <2>6, <2>7, <2>8, <2>9, <2>10, <2>11, <2>12 DEF JInv
<1>6. ASSUME cert.c = 0 PROVE forced = FALSE /\ cert.mym = None
  BY <1>0, <1>1, <1>6 DEF JInv, ForcedComplete, MineFixes
<1>7. CASE Opened(i, v)
  <2>1. /\ \A j \in Replicas : acc'[j] = IF j = i THEN v ELSE acc[j]
        /\ cert.c = 0 /\ cert'.c = 0 /\ cert'.mym = cert.mym
        /\ Len(cert'.vals) = Len(cert.vals) + 1
        /\ \A j \in 1..Len(cert.vals) : cert'.vals[j] = cert.vals[j]
        /\ cert'.vals[Len(cert.vals) + 1].count = 1
    BY <1>0, <1>7 DEF Opened
  <2>2. OpinionsKept'
    BY <1>0, <2>1 DEF JInv, OpinionsKept
  <2>3. OpenTaken'
    <3>1. \A j \in 1..Len(cert.vals) : cert.vals[j].count > 0
      BY <2>1 DEF JInv, OpenTaken
    <3>2. \A j \in 1..Len(cert'.vals) : j \in 1..Len(cert.vals) \/ j = Len(cert.vals) + 1
      BY <1>0, <2>1
    <3>3. \A j \in 1..Len(cert'.vals) : cert'.vals[j].count > 0
      BY <2>1, <3>1, <3>2
    <3>4. \A j \in Replicas : acc'[j] # Ignored
      BY <1>0, <2>1 DEF JInv, OpenTaken
    <3> QED BY <3>3, <3>4 DEF OpenTaken
  <2> QED BY <1>0, <1>6, <2>1, <2>2, <2>3
          DEF JInv, MineFixes, CorrectBacked, CorrectExact, ForcedComplete, IgnoredLate
<1>8. CASE Overflown(i, v)
  BY <1>0, <1>6, <1>8, EmptyJ DEF Overflown
<1> QED BY <1>0, <1>3, <1>4, <1>5, <1>7, <1>8, AddCases

(* add_mine() keeps it: my value becomes the correct one, with a counter    *)
(* that is exact because all its messages were in one slot.                 *)
LEMMA AddMineJ ==
  ASSUME IInv, IInv', Exact, JInv, NEW v \in Values, v \in opinion[Self], AddMine(v)
  PROVE  JInv'
<1>0. /\ CertOK /\ CertOK' /\ HeardOnce /\ forced' = forced /\ opinion' = opinion /\ cert.mym = None
      /\ acc \in [Replicas -> Values \cup {None, Ignored}] /\ Self \in Replicas
      /\ cert.c \in 0..Len(cert.vals) /\ Len(cert.vals) \in Nat
      /\ \A k \in 1..Len(cert.vals) : cert.vals[k].m \in Values /\ cert.vals[k].count \in Nat
      /\ None \notin Values /\ Ignored \notin Values /\ None # Ignored /\ Complete \in Nat /\ F \in Nat
      /\ cert' = add_mine(cert, v) /\ forced \in BOOLEAN
  BY CertificateFields, CertificateAssumption DEF IInv, TypeOK, CertOK, AddMine
<1>1. /\ is_complete(cert) <=> cert.c # 0 /\ cert.vals[cert.c].count >= Complete
      /\ is_complete(cert)' <=> cert'.c # 0 /\ cert'.vals[cert'.c].count >= Complete
  BY <1>0, CompleteCount, CertificateAssumption DEF is_complete, num_correct
<1>2. CASE cert.c # 0 /\ cert.vals[cert.c].m # v
  <2>1. cert' = cert /\ acc' = acc
    BY <1>0, <1>2 DEF AddMine, add_mine
  <2> QED BY <1>0, <1>1, <2>1
          DEF JInv, OpinionsKept, MineFixes, CorrectBacked, CorrectExact, ForcedComplete,
              OpenTaken, IgnoredLate, Supporters
<1>3. CASE ~(cert.c # 0 /\ cert.vals[cert.c].m # v)
  <2>1. /\ cert'.mym = v /\ cert'.c \in 1..Len(cert'.vals) /\ cert'.vals[cert'.c].m = v
        /\ \/ /\ cert'.vals[cert'.c].count = 1 /\ cert.c = 0
              /\ \A j \in 1..Len(cert.vals) : cert.vals[j].m # v
           \/ /\ cert'.c \in 1..Len(cert.vals) /\ cert.vals[cert'.c].m = v
              /\ cert'.vals[cert'.c].count = cert.vals[cert'.c].count + 1
              /\ cert.c # 0 => cert'.c = cert.c
    BY <1>0, <1>3, AddMineResult
  <2>2. /\ acc' = [acc EXCEPT ![Self] = v] /\ acc[Self] = None /\ cert'.c # 0
        /\ \A j \in Replicas : acc'[j] = IF j = Self THEN v ELSE acc[j]
    BY <1>0, <2>1 DEF AddMine, HeardOnce
  <2>3. /\ Cardinality(Backers(acc', v)) = Cardinality(Backers(acc, v)) + 1
        /\ Cardinality(Backers(acc, v)) \in Nat
    BY <1>0, <2>2, OneMoreBacker
  <2>4. forced = FALSE
    BY <1>0 DEF JInv, ForcedComplete
  <2>5. cert'.vals[cert'.c].count = Cardinality(Backers(acc', v))
    <3>1. CASE /\ cert'.vals[cert'.c].count = 1 /\ cert.c = 0
               /\ \A j \in 1..Len(cert.vals) : cert.vals[j].m # v
      <4>1. Backers(acc, v) = {}
        BY <3>1 DEF Exact, AllHeld, Backers
      <4>2. Cardinality(Backers(acc, v)) = 0
        BY <4>1, FS_EmptySet
      <4> QED BY <2>3, <3>1, <4>2
    <3>2. CASE /\ cert'.c \in 1..Len(cert.vals) /\ cert.vals[cert'.c].m = v
               /\ cert'.vals[cert'.c].count = cert.vals[cert'.c].count + 1
               /\ cert.c # 0 => cert'.c = cert.c
      <4>1. cert.vals[cert'.c].count = Cardinality(Backers(acc, v))
        BY <2>4, <3>2 DEF JInv, CorrectExact, Exact, CountersExact, Supporters
      <4> QED BY <2>3, <3>2, <4>1
    <3> QED BY <2>1, <3>1, <3>2
  <2>6. OpinionsKept'
    BY <1>0, <2>2 DEF JInv, OpinionsKept
  <2>7. MineFixes' /\ CorrectBacked' /\ ForcedComplete' /\ OpenTaken'
    BY <1>0, <2>1, <2>2, <2>4 DEF MineFixes, CorrectBacked, ForcedComplete, OpenTaken
  <2>8. CorrectExact'
    BY <2>1, <2>5 DEF CorrectExact, Supporters
  <2>9. IgnoredLate'
    <3> SUFFICES ASSUME NEW j \in Replicas, acc'[j] = Ignored, opinion'[j] = {cert'.vals[cert'.c].m}
                 PROVE  is_complete(cert)'
      BY DEF IgnoredLate
    <3>1. acc[j] = Ignored /\ opinion[j] = {v}
      BY <1>0, <2>1, <2>2
    <3>2. cert.c # 0 /\ cert.vals[cert.c].m = v
      BY <1>3, <3>1 DEF JInv, OpenTaken
    <3>3. cert.vals[cert.c].count >= Complete /\ cert.vals[cert.c].count \in Nat
      BY <1>0, <1>1, <3>1, <3>2 DEF JInv, IgnoredLate
    <3>4. cert'.vals[cert'.c].count = cert.vals[cert.c].count + 1
      BY <2>1, <3>2
    <3> QED BY <1>0, <1>1, <2>2, <3>3, <3>4
  <2> QED BY <2>6, <2>7, <2>8, <2>9 DEF JInv
<1> QED BY <1>2, <1>3

(* mark_stale() keeps a complete certificate, or my message alone. *)
LEMMA MarkStaleJ ==
  ASSUME IInv, JInv, MarkStale
  PROVE  JInv'
<1>0. /\ CertOK /\ HeardOnce /\ opinion' = opinion /\ cert.mym \in Values \cup {None}
      /\ acc \in [Replicas -> Values \cup {None, Ignored}] /\ Self \in Replicas
      /\ None \notin Values /\ Ignored \notin Values /\ None # Ignored /\ Complete \in Nat /\ F \in Nat
      /\ forced \in BOOLEAN /\ acc[Self] = cert.mym
  BY CertificateAssumption DEF IInv, TypeOK, CertOK, MarkStale, HeardOnce
<1>1. CASE is_complete(cert)
  <2>1. cert' = cert /\ acc' = acc /\ forced' = forced
    BY <1>0, <1>1 DEF MarkStale, mark_stale
  <2> QED BY <1>0, <2>1
          DEF JInv, OpinionsKept, MineFixes, CorrectBacked, CorrectExact, ForcedComplete,
              OpenTaken, IgnoredLate, Supporters, is_complete, num_correct
<1>2. CASE ~is_complete(cert) /\ cert.mym = None
  <2>1. cert' = EmptyCertificate /\ acc' = NoVotes /\ forced' = FALSE
    BY <1>0, <1>2 DEF MarkStale, mark_stale, NoVotes
  <2> QED BY <2>1, EmptyJ
<1>3. CASE ~is_complete(cert) /\ cert.mym # None
  <2>1. PICK m : m = cert.mym
    OBVIOUS
  <2>2. PICK s : s = <<[m |-> m, count |-> 1]>>
    OBVIOUS
  <2>3. cert' = [bmap |-> {}, vals |-> s, c |-> 1, mym |-> m] /\ forced' = FALSE
    BY <1>3, <2>1, <2>2 DEF MarkStale, mark_stale
  <2>4. acc' = [NoVotes EXCEPT ![Self] = m]
    BY <1>0, <1>3, <2>1 DEF MarkStale
  <2>5. \A j \in Replicas : acc'[j] = IF j = Self THEN m ELSE None
    BY <1>0, <2>4 DEF NoVotes
  <2>6. s[1].m = m /\ s[1].count = 1 /\ m \in Values
    BY <1>0, <1>3, <2>1, <2>2
  <2>7. Backers(acc', m) = {Self}
    BY <1>0, <2>5, <2>6 DEF Backers
  <2>8. Cardinality(Backers(acc', m)) = 1
    BY <2>7, FS_Singleton
  <2>9. cert'.c = 1 /\ cert'.vals[cert'.c].m = m /\ cert'.vals[cert'.c].count = 1 /\ cert'.mym = m
    BY <2>3, <2>6
  <2>10. OpinionsKept'
    BY <1>0, <2>1, <2>5 DEF JInv, OpinionsKept
  <2>11. MineFixes' /\ CorrectBacked' /\ ForcedComplete' /\ OpenTaken'
    BY <2>3, <2>9 DEF MineFixes, CorrectBacked, ForcedComplete, OpenTaken
  <2>12. CorrectExact'
    BY <2>8, <2>9 DEF CorrectExact, Supporters
  <2>13. IgnoredLate'
    BY <1>0, <2>5, <2>6 DEF IgnoredLate
  <2> QED BY <2>10, <2>11, <2>12, <2>13 DEF JInv
<1> QED BY <1>1, <1>2, <1>3

(* make_complete() completes the correct value, which is mine. *)
LEMMA MakeCompleteJ ==
  ASSUME IInv, JInv, MakeComplete
  PROVE  JInv'
<1>0. /\ CertOK /\ opinion' = opinion /\ acc' = acc /\ forced' = TRUE /\ cert.mym # None
      /\ cert = [bmap |-> cert.bmap, vals |-> cert.vals, c |-> cert.c, mym |-> cert.mym]
      /\ cert.vals \in Slots /\ cert.c \in 0..Len(cert.vals) /\ Len(cert.vals) \in Nat
      /\ \A k \in 1..Len(cert.vals) : cert.vals[k] \in [m: Values, count: Nat]
      /\ Complete \in Nat /\ F \in Nat
  BY CertificateFields, CertificateAssumption DEF IInv, TypeOK, CertOK, MakeComplete
<1>1. cert.c # 0 /\ cert.c \in 1..Len(cert.vals) /\ cert.vals[cert.c].m = cert.mym
  BY <1>0 DEF JInv, MineFixes
<1>2. PICK e : e = [cert.vals[cert.c] EXCEPT !.count = Complete]
  OBVIOUS
<1>3. e \in [m: Values, count: Nat] /\ e.m = cert.mym /\ e.count = Complete
  BY <1>0, <1>1, <1>2
<1>4. PICK s : s = [cert.vals EXCEPT ![cert.c] = e]
  OBVIOUS
<1>5. cert' = [bmap |-> cert.bmap, vals |-> s, c |-> cert.c, mym |-> cert.mym]
  <2>1. s = [cert.vals EXCEPT ![cert.c].count = Complete]
    BY <1>2, <1>4
  <2> QED BY <1>0, <1>1, <2>1 DEF MakeComplete, make_complete
<1>6. s[cert.c] = e
  BY <1>0, <1>1, <1>3, <1>4, SlotUpdate
<1>7. /\ cert'.c = cert.c /\ cert'.mym = cert.mym /\ cert'.vals[cert'.c].m = cert.mym
      /\ cert'.vals[cert'.c].count = Complete
  BY <1>3, <1>5, <1>6
<1>8. is_complete(cert)'
  BY <1>0, <1>1, <1>7 DEF is_complete, num_correct
<1> QED BY <1>0, <1>1, <1>7, <1>8
        DEF JInv, OpinionsKept, MineFixes, CorrectBacked, CorrectExact, ForcedComplete,
            OpenTaken, IgnoredLate

(* The invariant about the correct value holds in every reachable state. *)
THEOREM CorrectInvariant == Spec => []JInv
<1>1. Init => JInv
  <2> SUFFICES ASSUME Init PROVE JInv
    OBVIOUS
  <2>1. /\ cert.c = 0 /\ cert.vals = << >> /\ cert.mym = None /\ Len(<< >>) = 0 /\ forced = FALSE
        /\ \A i \in Replicas : acc[i] = None
    BY DEF Init, EmptyCertificate, NoVotes
  <2>2. 1..Len(cert.vals) = {}
    BY <2>1
  <2> QED BY <2>1, <2>2, CertificateAssumption
          DEF JInv, OpinionsKept, MineFixes, CorrectBacked, CorrectExact, ForcedComplete,
              OpenTaken, IgnoredLate
<1>2. IInv /\ IInv' /\ Exact /\ JInv /\ [Next]_vars => JInv'
  <2> SUFFICES ASSUME IInv, IInv', Exact, JInv, [Next]_vars PROVE JInv'
    OBVIOUS
  <2>1. ASSUME NEW i \in Replicas, NEW v \in opinion[i], Add(i, v) PROVE JInv'
    BY <2>1, OpinionIsValue, AddJ
  <2>2. ASSUME NEW v \in opinion[Self], AddMine(v) PROVE JInv'
    BY <2>2, OpinionIsValue, AddMineJ, CertificateAssumption
  <2>3. CASE MarkStale
    BY <2>3, MarkStaleJ
  <2>4. CASE Clear
    BY <2>4, EmptyJ DEF Clear, clear
  <2>5. CASE MakeComplete
    BY <2>5, MakeCompleteJ
  <2>6. CASE UNCHANGED vars
    BY <2>6 DEF vars, JInv, OpinionsKept, MineFixes, CorrectBacked, CorrectExact, ForcedComplete,
                OpenTaken, IgnoredLate, Supporters, is_complete, num_correct
  <2> QED BY <2>1, <2>2, <2>3, <2>4, <2>5, <2>6 DEF Next
<1> QED BY <1>1, <1>2, Invariant, ExactInvariant, PTL DEF Spec
-----------------------------------------------------------------------------
(* When all but f replicas, I among them, send v only, v is the only value  *)
(* that can be taken for the correct one.                                   *)
LEMMA SoundValue ==
  ASSUME IInv, JInv, NEW v \in Values, Cardinality(Dissenters(v)) <= F, opinion[Self] = {v},
         cert.c # 0
  PROVE  cert.vals[cert.c].m = v
<1>0. /\ CertOK /\ HeardOnce /\ F \in Nat /\ None \notin Values /\ Ignored \notin Values
      /\ cert.c \in 1..Len(cert.vals) /\ cert.vals[cert.c].m \in Values /\ Self \in Replicas
      /\ cert.mym = acc[Self]
  BY CertificateFields, CertificateAssumption DEF IInv, TypeOK, HeardOnce
<1>1. PICK w : w = cert.vals[cert.c].m
  OBVIOUS
<1>2. CASE w = cert.mym
  BY <1>0, <1>1, <1>2 DEF JInv, OpinionsKept
<1>3. CASE Cardinality(Supporters(w)) > F
  <2>1. IsFiniteSet(Dissenters(v)) /\ Cardinality(Dissenters(v)) \in Nat
    <3>1. IsFiniteSet(Dissenters(v))
      BY CertificateAssumption, FS_Subset DEF Dissenters
    <3> QED BY <3>1, FS_CardinalityType
  <2>2. Cardinality(Supporters(w)) \in Nat
    BY BackersCount DEF Supporters
  <2>3. ~(Supporters(w) \subseteq Dissenters(v))
    <3> SUFFICES ASSUME Supporters(w) \subseteq Dissenters(v) PROVE FALSE
      OBVIOUS
    <3>1. Cardinality(Supporters(w)) <= Cardinality(Dissenters(v))
      BY <2>1, FS_Subset
    <3> QED BY <1>0, <1>3, <2>1, <2>2, <3>1
  <2>4. PICK i \in Supporters(w) : i \notin Dissenters(v)
    BY <2>3
  <2>5. i \in Replicas /\ acc[i] = w /\ opinion[i] = {v}
    BY <2>4 DEF Supporters, Backers, Dissenters
  <2> QED BY <1>0, <1>1, <2>5 DEF JInv, OpinionsKept
<1> QED BY <1>1, <1>2, <1>3 DEF JInv, CorrectBacked

(* f faulty replicas never get a value of theirs taken for the correct one  *)
(* of a certificate, when the correct replicas are of one opinion.          *)
THEOREM CorrectValueSound == Spec => []CorrectValueIsSound
<1>1. IInv /\ JInv => CorrectValueIsSound
  BY SoundValue DEF CorrectValueIsSound, cvalue
<1> QED BY <1>1, Invariant, CorrectInvariant, PTL

(* I send what the correct replicas send, when they are of one opinion. *)
OfTheirOpinion ==
  \A o \in Opinions, v \in Values :
    Cardinality({i \in Replicas : o[i] # {v}}) <= F => o[Self] = {v}

(* f faulty replicas cannot block a certificate that needs no more messages *)
(* than there are correct replicas.                                         *)
THEOREM FaultyCannotBlock ==
  ASSUME OfTheirOpinion, Cardinality(Replicas) >= Complete + F
  PROVE  Spec => []HeardAllIsComplete
<1>1. Spec => [](opinion \in Opinions)
  <2>1. Init => opinion \in Opinions
    BY DEF Init
  <2>2. opinion \in Opinions /\ [Next]_vars => (opinion \in Opinions)'
    BY DEF Next, Add, AddMine, MarkStale, Clear, MakeComplete, vars
  <2> QED BY <2>1, <2>2, PTL DEF Spec
<1>2. IInv /\ JInv /\ opinion \in Opinions => HeardAllIsComplete
  <2> SUFFICES ASSUME IInv, JInv, opinion \in Opinions, NEW v \in Values,
                      Cardinality(Dissenters(v)) <= F, cert.mym # None,
                      Replicas \ Dissenters(v) \subseteq cert.bmap \cup {Self}
               PROVE  is_complete(cert)
    BY DEF HeardAllIsComplete
  <2>0. /\ CertOK /\ HeardOnce /\ F \in Nat /\ None \notin Values /\ Ignored \notin Values
        /\ Self \in Replicas /\ Complete \in Nat /\ IsFiniteSet(Replicas)
        /\ cert.mym = acc[Self] /\ opinion[Self] = {v} /\ forced \in BOOLEAN
    BY CertificateAssumption DEF IInv, TypeOK, HeardOnce, OfTheirOpinion, Dissenters
  <2>1. cert.c # 0 /\ cert.vals[cert.c].m = v /\ acc[Self] = v
    BY <2>0, SoundValue DEF JInv, MineFixes
  <2>2. CASE \E i \in Replicas \ Dissenters(v) : acc[i] = Ignored
    BY <2>1, <2>2 DEF JInv, IgnoredLate, Dissenters
  <2>3. CASE forced
    BY <2>3 DEF JInv, ForcedComplete
  <2>4. CASE ~forced /\ \A i \in Replicas \ Dissenters(v) : acc[i] # Ignored
    <3>1. Replicas \ Dissenters(v) \subseteq Supporters(v)
      <4> SUFFICES ASSUME NEW i \in Replicas \ Dissenters(v) PROVE acc[i] = v
        BY DEF Supporters, Backers
      <4>1. opinion[i] = {v}
        BY DEF Dissenters
      <4>2. acc[i] \in {v, None, Ignored}
        BY <4>1 DEF JInv, OpinionsKept
      <4>3. i # Self => acc[i] # None
        BY <2>0 DEF HeardOnce
      <4> QED BY <2>1, <2>4, <4>2, <4>3
    <3>2. PICK D : D = Dissenters(v)
      OBVIOUS
    <3>3. D \subseteq Replicas /\ IsFiniteSet(D) /\ IsFiniteSet(Replicas \ D)
      BY <2>0, <3>2, FS_Subset DEF Dissenters
    <3>4. Cardinality(Replicas) = Cardinality(D) + Cardinality(Replicas \ D)
      <4>1. D \cup (Replicas \ D) = Replicas /\ D \cap (Replicas \ D) = {}
        BY <3>3
      <4>2. Cardinality(D \cup (Replicas \ D)) =
              Cardinality(D) + Cardinality(Replicas \ D) - Cardinality(D \cap (Replicas \ D))
        BY <3>3, FS_Union
      <4>3. Cardinality(D) \in Nat /\ Cardinality(Replicas \ D) \in Nat
        BY <3>3, FS_CardinalityType
      <4>4. Cardinality(D \cap (Replicas \ D)) = 0
        BY <4>1, FS_EmptySet
      <4>5. Cardinality(D \cup (Replicas \ D)) = Cardinality(Replicas)
        BY <4>1
      <4> QED BY <4>2, <4>3, <4>4, <4>5
    <3>5. /\ Cardinality(Replicas \ D) <= Cardinality(Supporters(v))
          /\ Cardinality(Supporters(v)) \in Nat
      <4>1. IsFiniteSet(Supporters(v)) /\ Cardinality(Supporters(v)) \in Nat
        BY BackersCount DEF Supporters
      <4> QED BY <3>1, <3>2, <4>1, FS_Subset
    <3>6. Cardinality(D) \in Nat /\ Cardinality(Replicas \ D) \in Nat
      BY <3>3, FS_CardinalityType
    <3>7. Cardinality(Supporters(v)) >= Complete
      BY <2>0, <3>2, <3>4, <3>5, <3>6
    <3>8. cert.vals[cert.c].count >= Complete
      BY <2>1, <2>4, <3>7 DEF JInv, CorrectExact
    <3> QED BY <2>0, <2>1, <3>8, CompleteCount
  <2> QED BY <2>0, <2>2, <2>3, <2>4
<1> QED BY <1>1, <1>2, Invariant, CorrectInvariant, PTL

-----------------------------------------------------------------------------
(* What stands for the certificate in VoteCert. *)
Abstract == [votes |-> acc, c |-> cvalue(cert), forced |-> forced]

(* VoteCert counts with the same Cardinality. *)
LEMMA SameCardinality == \A S : V!Cardinality(S) = Cardinality(S)
BY DEF V!Cardinality, Cardinality

(* While the correct value is open the slots are the values held. *)
LEMMA HeldSlots ==
  ASSUME IInv, Exact, JInv, cert.c = 0
  PROVE  /\ \A v : v \in V!Held(Abstract) <=> \E k \in 1..Len(cert.vals) : cert.vals[k].m = v
         /\ Cardinality(V!Held(Abstract)) = Len(cert.vals)
<1>0. /\ CertOK /\ acc \in [Replicas -> Values \cup {None, Ignored}] /\ Abstract.votes = acc
      /\ None \notin Values /\ Ignored \notin Values /\ Len(cert.vals) \in Nat
      /\ \A k \in 1..Len(cert.vals) : cert.vals[k].m \in Values /\ cert.vals[k].count \in Nat
  BY CertificateFields, CertificateAssumption DEF IInv, TypeOK, CertOK, Abstract
<1>1. PICK H : H = V!Held(Abstract)
  OBVIOUS
<1>2. H = {acc[i] : i \in Replicas} \ {None, Ignored}
  BY <1>0, <1>1 DEF V!Held
<1>3. ASSUME NEW v \in H PROVE \E k \in 1..Len(cert.vals) : cert.vals[k].m = v
  BY <1>0, <1>2, <1>3 DEF Exact, AllHeld
<1>4. ASSUME NEW k \in 1..Len(cert.vals) PROVE cert.vals[k].m \in H
  <2>0. cert.vals[k].count = Cardinality(Supporters(cert.vals[k].m))
    BY DEF Exact, CountersExact
  <2>1. cert.vals[k].count > 0
    BY DEF JInv, OpenTaken
  <2>2. Supporters(cert.vals[k].m) # {}
    <3>1. Cardinality(Supporters(cert.vals[k].m)) # 0
      BY <1>0, <2>0, <2>1
    <3> QED BY <3>1, FS_EmptySet, Zenon
  <2> QED BY <1>0, <1>2, <2>2 DEF Supporters, Backers
<1>5. PICK f : f = [k \in 1..Len(cert.vals) |-> cert.vals[k].m]
  OBVIOUS
<1>6. f \in [1..Len(cert.vals) -> H]
  BY <1>4, <1>5
<1>7. \A j, k \in 1..Len(cert.vals) : f[j] = f[k] => j = k
  BY <1>5 DEF Exact, CountersExact
<1>8. \A v \in H : \E k \in 1..Len(cert.vals) : f[k] = v
  BY <1>3, <1>5
<1>9. f \in Bijection(1..Len(cert.vals), H)
  <2>1. f \in Injection(1..Len(cert.vals), H)
    BY <1>6, <1>7 DEF Injection, IsInjective
  <2>2. f \in Surjection(1..Len(cert.vals), H)
    BY <1>6, <1>8 DEF Surjection
  <2> QED BY <2>1, <2>2 DEF Bijection
<1>10. ExistsBijection(1..Len(cert.vals), H)
  BY <1>9 DEF ExistsBijection
<1>11. IsFiniteSet(1..Len(cert.vals)) /\ Cardinality(1..Len(cert.vals)) = Len(cert.vals)
  BY <1>0, FS_Interval
<1>12. Cardinality(H) = Len(cert.vals)
  BY <1>10, <1>11, FS_Bijection
<1> QED BY <1>1, <1>3, <1>4, <1>12

(* The abstract certificate is complete when the coded one is. *)
LEMMA SameComplete ==
  ASSUME IInv, JInv
  PROVE  /\ V!IsComplete(Abstract, Complete) <=> is_complete(cert)
         /\ \A v : V!Voters(Abstract, v) = Backers(acc, v)
         /\ Abstract.votes = acc /\ Abstract.forced = forced
         /\ Abstract.c = IF cert.c = 0 THEN None ELSE cert.vals[cert.c].m
         /\ cert.c # 0 => cert.vals[cert.c].m # None
<1>0. /\ CertOK /\ forced \in BOOLEAN /\ None \notin Values /\ Complete \in Nat
      /\ cert.c \in 0..Len(cert.vals) /\ Len(cert.vals) \in Nat
      /\ \A k \in 1..Len(cert.vals) : cert.vals[k].m \in Values /\ cert.vals[k].count \in Nat
  BY CertificateFields, CertificateAssumption DEF IInv, TypeOK
<1>1. /\ Abstract.votes = acc /\ Abstract.forced = forced
      /\ Abstract.c = IF cert.c = 0 THEN None ELSE cert.vals[cert.c].m
  BY DEF Abstract, cvalue
<1>2. cert.c # 0 => cert.vals[cert.c].m # None
  BY <1>0
<1>3. \A v : V!Voters(Abstract, v) = Backers(acc, v)
  BY <1>1 DEF V!Voters, Backers
<1>4. V!IsComplete(Abstract, Complete) <=>
        cert.c # 0 /\ (forced \/ Cardinality(Backers(acc, cert.vals[cert.c].m)) >= Complete)
  <2>1. PICK c : c = Abstract.c
    OBVIOUS
  <2>2. V!IsComplete(Abstract, Complete) <=>
          c # None /\ (forced \/ Cardinality(Backers(acc, c)) >= Complete)
    BY <1>1, <1>3, <2>1, SameCardinality, Zenon DEF V!IsComplete
  <2>3. CASE cert.c = 0
    BY <1>1, <2>1, <2>2, <2>3
  <2>4. CASE cert.c # 0
    <3>1. c = cert.vals[cert.c].m
      BY <1>1, <2>1, <2>4
    <3> QED BY <1>2, <2>2, <2>4, <3>1
  <2> QED BY <2>3, <2>4
<1>5. is_complete(cert) <=> cert.c # 0 /\ cert.vals[cert.c].count >= Complete
  BY <1>0, CompleteCount
<1>6. ASSUME forced PROVE V!IsComplete(Abstract, Complete) <=> is_complete(cert)
  BY <1>4, <1>5, <1>6 DEF JInv, ForcedComplete
<1>7. ASSUME ~forced PROVE V!IsComplete(Abstract, Complete) <=> is_complete(cert)
  <2>1. CASE cert.c = 0
    BY <1>4, <1>5, <2>1
  <2>2. CASE cert.c # 0
    <3>1. cert.vals[cert.c].count = Cardinality(Backers(acc, cert.vals[cert.c].m))
      BY <1>7, <2>2 DEF JInv, CorrectExact, Supporters
    <3> QED BY <1>4, <1>5, <1>7, <2>2, <3>1
  <2> QED BY <2>1, <2>2
<1> QED BY <1>1, <1>2, <1>3, <1>6, <1>7

(* What AddVote does, case by case. *)
AddVoteIs(x, k, i, v, y) ==
  /\ x.votes[i] # None => y = x
  /\ x.votes[i] = None /\ ~V!Admits(x, k, i, v) => y = [x EXCEPT !.votes[i] = Ignored]
  /\ V!Admits(x, k, i, v) /\ V!Overflows(x, v) => y = V!EmptyCert
  /\ V!Admits(x, k, i, v) /\ ~V!Overflows(x, v) =>
       y = [x EXCEPT !.votes[i] = v,
                     !.c = IF x.c = None /\ V!Cardinality(V!Voters(x, v)) < F
                           THEN None ELSE v]

(* See AddVoteIs. *)
LEMMA AddVoteCases ==
  ASSUME NEW x, NEW k, NEW i, NEW v
  PROVE  AddVoteIs(x, k, i, v, V!AddVote(x, k, i, v))
<1>1. V!Admits(x, k, i, v) => x.votes[i] = None
  BY Zenon DEF V!Admits
<1>2. V!Added(x, k, i, v) <=> V!Admits(x, k, i, v) /\ ~V!Overflows(x, v)
  BY Zenon DEF V!Added
<1> QED BY <1>1, <1>2 DEF V!AddVote, AddVoteIs

(* The fields of the abstract certificate after a step. *)
LEMMA AbstractNext ==
  Abstract' = [votes |-> acc', c |-> IF cert'.c = 0 THEN None ELSE cert'.vals[cert'.c].m,
               forced |-> forced']
BY DEF Abstract, cvalue

(* add() is AddVote: its slots and counters decide as the votes do.  A slot *)
(* just opened never decides, so F = 0, where one vote would do, differs.   *)
LEMMA AddRefines ==
  ASSUME IInv, Exact, JInv, F # 0, NEW i \in Replicas, NEW v \in Values, Add(i, v)
  PROVE  Abstract' = V!AddVote(Abstract, Complete, i, v)
<1>0. /\ CertOK /\ HeardOnce /\ forced' = forced /\ i # Self
      /\ acc \in [Replicas -> Values \cup {None, Ignored}]
      /\ None \notin Values /\ Complete \in Nat /\ F \in Nat
      /\ cert.c \in 0..Len(cert.vals) /\ Len(cert.vals) \in Nat
      /\ \A k \in 1..Len(cert.vals) : cert.vals[k].m \in Values /\ cert.vals[k].count \in Nat
  BY CertificateFields, CertificateAssumption DEF IInv, TypeOK, CertOK, Add
<1>1. PICK A : A = Abstract
  OBVIOUS
<1>2. /\ A.votes = acc /\ A.forced = forced
      /\ A.c = IF cert.c = 0 THEN None ELSE cert.vals[cert.c].m
      /\ A = [votes |-> A.votes, c |-> A.c, forced |-> A.forced]
  BY <1>1 DEF Abstract, cvalue
<1>3. /\ V!IsComplete(A, Complete) <=> is_complete(cert)
      /\ \A u : V!Voters(A, u) = Backers(acc, u)
      /\ is_complete(cert) <=> cert.c # 0 /\ cert.vals[cert.c].count >= Complete
      /\ A.c = None <=> cert.c = 0
  BY <1>0, <1>1, <1>2, SameComplete, CompleteCount
<1>4. i \in cert.bmap <=> A.votes[i] # None
  BY <1>0, <1>2 DEF HeardOnce
<1>5. V!Admits(A, Complete, i, v) <=>
        /\ i \notin cert.bmap
        /\ cert.c = 0 \/ (cert.vals[cert.c].m = v /\ cert.vals[cert.c].count < Complete)
  <2>1. V!Admits(A, Complete, i, v) <=>
          /\ A.votes[i] = None
          /\ A.c = None \/ (A.c = v /\ ~V!IsComplete(A, Complete))
    BY Zenon DEF V!Admits
  <2>2. CASE cert.c = 0
    BY <1>3, <1>4, <2>1, <2>2
  <2>3. CASE cert.c # 0
    <3>1. A.c = cert.vals[cert.c].m /\ A.c # None
      BY <1>2, <1>3, <2>3
    <3>2. cert.vals[cert.c].count \in Nat
      BY <1>0, <2>3
    <3> QED BY <1>0, <1>3, <1>4, <2>1, <2>3, <3>1, <3>2
  <2> QED BY <2>2, <2>3
<1>6. V!Overflows(A, v) <=>
        cert.c = 0 /\ Len(cert.vals) > F /\ \A k \in 1..Len(cert.vals) : cert.vals[k].m # v
  <2>1. V!Overflows(A, v) <=> A.c = None /\ v \notin V!Held(A) /\ Cardinality(V!Held(A)) > F
    BY SameCardinality, Zenon DEF V!Overflows
  <2>2. CASE cert.c # 0
    BY <1>3, <2>1, <2>2
  <2>3. CASE cert.c = 0
    <3>1. /\ v \in V!Held(A) <=> \E k \in 1..Len(cert.vals) : cert.vals[k].m = v
          /\ Cardinality(V!Held(A)) = Len(cert.vals)
      BY <1>1, <2>3, HeldSlots
    <3> QED BY <1>3, <2>1, <2>3, <3>1
  <2> QED BY <2>2, <2>3
<1>7. PICK B : B = Abstract'
  OBVIOUS
<1>8. B = [votes |-> acc', c |-> IF cert'.c = 0 THEN None ELSE cert'.vals[cert'.c].m,
           forced |-> forced]
  BY <1>0, <1>7, AbstractNext
<1>9. PICK R : R = V!AddVote(A, Complete, i, v) /\ AddVoteIs(A, Complete, i, v, R)
  BY AddVoteCases
<1>10. ASSUME Known(i) PROVE B = R
  <2>1. R = A
    BY <1>4, <1>9, <1>10 DEF Known, AddVoteIs
  <2>2. cert' = cert /\ acc' = acc
    BY <1>10 DEF Known
  <2> QED BY <1>2, <1>8, <2>1, <2>2
<1>11. ASSUME Passed(i, v) PROVE B = R
  <2>1. R = [A EXCEPT !.votes[i] = Ignored]
    <3>1. A.votes[i] = None
      BY <1>4, <1>11 DEF Passed
    <3>2. ~V!Admits(A, Complete, i, v)
      BY <1>0, <1>5, <1>11 DEF Passed
    <3> QED BY <1>9, <3>1, <3>2 DEF AddVoteIs
  <2>2. R = [votes |-> [acc EXCEPT ![i] = Ignored], c |-> A.c, forced |-> forced]
    BY <1>2, <2>1
  <2>3. cert'.vals = cert.vals /\ cert'.c = cert.c /\ acc' = [acc EXCEPT ![i] = Ignored]
    BY <1>11 DEF Passed
  <2> QED BY <1>2, <1>8, <2>2, <2>3
<1>12. ASSUME Overflown(i, v) PROVE B = R
  <2>1. V!Admits(A, Complete, i, v) /\ V!Overflows(A, v)
    BY <1>5, <1>6, <1>12 DEF Overflown
  <2>2. R = V!EmptyCert
    BY <1>9, <2>1 DEF AddVoteIs
  <2>3. cert'.c = 0 /\ acc' = NoVotes
    BY <1>12 DEF Overflown, EmptyCertificate
  <2>4. cert.c = 0
    BY <1>12 DEF Overflown
  <2>5. forced = FALSE
    BY <1>0, <2>4, CompleteCount DEF JInv, ForcedComplete, IInv, TypeOK
  <2> QED BY <1>8, <2>2, <2>3, <2>5 DEF V!EmptyCert, NoVotes
<1>13. ASSUME V!Admits(A, Complete, i, v), ~V!Overflows(A, v)
       PROVE  R = [votes |-> [acc EXCEPT ![i] = v],
                   c |-> IF cert.c = 0 /\ Cardinality(Supporters(v)) < F THEN None ELSE v,
                   forced |-> forced]
  <2>1. PICK c : c = IF A.c = None /\ V!Cardinality(V!Voters(A, v)) < F THEN None ELSE v
    OBVIOUS
  <2>2. R = [A EXCEPT !.votes[i] = v, !.c = c]
    BY <1>9, <1>13, <2>1 DEF AddVoteIs
  <2>3. c = IF cert.c = 0 /\ Cardinality(Supporters(v)) < F THEN None ELSE v
    BY <1>3, <2>1, SameCardinality DEF Supporters
  <2> QED BY <1>2, <2>2, <2>3
<1>14. ASSUME Opened(i, v) PROVE B = R
  <2>1. V!Admits(A, Complete, i, v) /\ ~V!Overflows(A, v)
    BY <1>0, <1>5, <1>6, <1>14 DEF Opened
  <2>2. /\ cert.c = 0 /\ cert'.c = 0 /\ acc' = [acc EXCEPT ![i] = v]
        /\ \A k \in 1..Len(cert.vals) : cert.vals[k].m # v
    BY <1>14 DEF Opened
  <2>3. Supporters(v) = {}
    BY <2>2 DEF Exact, AllHeld, Supporters, Backers
  <2>4. Cardinality(Supporters(v)) < F
    BY <1>0, <2>3, FS_EmptySet
  <2> QED BY <1>8, <1>13, <2>1, <2>2, <2>4
<1>15. ASSUME NEW k \in 1..Len(cert.vals), CountedIn(i, v, k) PROVE B = R
  <2>0. /\ i \notin cert.bmap /\ cert.vals[k].m = v
        /\ cert.c # 0 => k = cert.c /\ cert.vals[k].count < Complete
        /\ cert'.c = IF cert.c # 0 \/ cert.vals[k].count >= F THEN k ELSE 0
        /\ cert'.vals[k].m = v /\ acc' = [acc EXCEPT ![i] = v]
    BY <1>15 DEF CountedIn
  <2>1. V!Admits(A, Complete, i, v)
    BY <1>5, <2>0
  <2>2. ~V!Overflows(A, v)
    BY <1>6, <2>0
  <2>3. cert.c = 0 => cert.vals[k].count = Cardinality(Supporters(v))
    BY <2>0 DEF Exact, CountersExact
  <2>4. (IF cert'.c = 0 THEN None ELSE cert'.vals[cert'.c].m)
          = IF cert.c = 0 /\ Cardinality(Supporters(v)) < F THEN None ELSE v
    <3>1. cert.vals[k].count \in Nat /\ k # 0
      BY <1>0
    <3> QED BY <1>0, <2>0, <2>3, <3>1
  <2> QED BY <1>8, <1>13, <2>0, <2>1, <2>2, <2>4
<1> QED BY <1>0, <1>1, <1>7, <1>9, <1>10, <1>11, <1>12, <1>14, <1>15, AddCases

(* add_mine() is AddMyVote, whichever slot it takes over. *)
LEMMA AddMineRefines ==
  ASSUME IInv, JInv, NEW v \in Values, AddMine(v)
  PROVE  Abstract.votes[Self] = None /\ Abstract' = V!AddMyVote(Abstract, Self, v)
<1>0. /\ CertOK /\ HeardOnce /\ forced' = forced /\ cert.mym = None /\ v # None
      /\ acc \in [Replicas -> Values \cup {None, Ignored}] /\ Self \in Replicas
      /\ cert' = add_mine(cert, v)
      /\ acc' = IF cert'.mym = None THEN acc ELSE [acc EXCEPT ![Self] = v]
      /\ cert.c # 0 => cert.vals[cert.c].m # None
  BY CertificateFields, CertificateAssumption DEF IInv, TypeOK, CertOK, AddMine
<1>1. PICK A : A = Abstract
  OBVIOUS
<1>2. /\ A.votes = acc /\ A.forced = forced
      /\ A.c = IF cert.c = 0 THEN None ELSE cert.vals[cert.c].m
      /\ A = [votes |-> A.votes, c |-> A.c, forced |-> A.forced]
  BY <1>1 DEF Abstract, cvalue
<1>3. PICK B : B = Abstract'
  OBVIOUS
<1>4. B = [votes |-> acc', c |-> IF cert'.c = 0 THEN None ELSE cert'.vals[cert'.c].m,
           forced |-> forced]
  BY <1>0, <1>3, AbstractNext
<1>5. A.votes[Self] = None
  BY <1>0, <1>2 DEF HeardOnce
<1>6. CASE cert.c # 0 /\ cert.vals[cert.c].m # v
  <2>1. cert' = cert
    BY <1>0, <1>6 DEF add_mine
  <2>2. acc' = acc
    BY <1>0, <2>1
  <2>3. ~V!MineFits(A, v)
    BY <1>0, <1>2, <1>6 DEF V!MineFits
  <2>4. V!AddMyVote(A, Self, v) = A
    BY <2>3 DEF V!AddMyVote
  <2> QED BY <1>1, <1>2, <1>3, <1>4, <1>5, <2>1, <2>2, <2>4
<1>7. CASE ~(cert.c # 0 /\ cert.vals[cert.c].m # v)
  <2>1. PICK x : x = add_mine(cert, v)
    OBVIOUS
  <2>2. x.mym = v /\ x.c # 0 /\ x.vals[x.c].m = v
    BY <1>0, <1>7, <2>1, AddMineResult
  <2>3. acc' = [acc EXCEPT ![Self] = v]
    BY <1>0, <2>1, <2>2
  <2>4. B = [votes |-> [acc EXCEPT ![Self] = v], c |-> v, forced |-> forced]
    BY <1>0, <1>4, <2>1, <2>2, <2>3
  <2>5. V!MineFits(A, v)
    BY <1>2, <1>7 DEF V!MineFits
  <2>6. V!AddMyVote(A, Self, v) = [A EXCEPT !.votes[Self] = v, !.c = v]
    BY <2>5 DEF V!AddMyVote
  <2>7. V!AddMyVote(A, Self, v) = B
    BY <1>2, <2>4, <2>6
  <2> QED BY <1>1, <1>3, <1>5, <2>7
<1> QED BY <1>6, <1>7

(* mark_stale() is MarkStale: forgetting the counters forgets the votes. *)
LEMMA MarkStaleRefines ==
  ASSUME IInv, JInv, MarkStale
  PROVE  Abstract' = V!MarkStale(Abstract, Complete, Self)
<1>0. /\ CertOK /\ HeardOnce /\ cert' = mark_stale(cert) /\ forced \in BOOLEAN
      /\ acc' = IF is_complete(cert) THEN acc ELSE [NoVotes EXCEPT ![Self] = acc[Self]]
      /\ forced' = (forced /\ is_complete(cert))
      /\ forced => is_complete(cert)
  BY DEF IInv, TypeOK, MarkStale, JInv, ForcedComplete
<1>1. PICK A : A = Abstract
  OBVIOUS
<1>2. /\ A.votes = acc /\ A.forced = forced
      /\ A.c = IF cert.c = 0 THEN None ELSE cert.vals[cert.c].m
      /\ A = [votes |-> A.votes, c |-> A.c, forced |-> A.forced]
  BY <1>1 DEF Abstract, cvalue
<1>3. V!IsComplete(A, Complete) <=> is_complete(cert)
  BY <1>1, SameComplete
<1>4. PICK B : B = Abstract'
  OBVIOUS
<1>5. B = [votes |-> acc', c |-> IF cert'.c = 0 THEN None ELSE cert'.vals[cert'.c].m,
           forced |-> forced']
  BY <1>4, AbstractNext
<1>6. CASE is_complete(cert)
  <2>1. cert' = cert /\ acc' = acc
    BY <1>0, <1>6 DEF mark_stale
  <2>2. forced' = forced
    BY <1>0, <1>6
  <2>3. V!MarkStale(A, Complete, Self) = A
    BY <1>3, <1>6 DEF V!MarkStale
  <2> QED BY <1>1, <1>2, <1>4, <1>5, <2>1, <2>2, <2>3
<1>7. CASE ~is_complete(cert)
  <2>1. acc' = [NoVotes EXCEPT ![Self] = acc[Self]] /\ cert.mym = acc[Self]
    BY <1>0, <1>7 DEF HeardOnce
  <2>2. forced' = FALSE
    BY <1>0, <1>7
  <2>3. (IF cert'.c = 0 THEN None ELSE cert'.vals[cert'.c].m) = acc[Self]
    <3>1. CASE cert.mym = None
      <4>1. cert'.c = 0
        BY <1>0, <1>7, <3>1 DEF mark_stale, EmptyCertificate
      <4> QED BY <2>1, <3>1, <4>1
    <3>2. CASE cert.mym # None
      <4>1. PICK s : s = <<[m |-> cert.mym, count |-> 1]>>
        OBVIOUS
      <4>2. s[1].m = cert.mym
        BY <4>1
      <4>3. cert' = [bmap |-> {}, vals |-> s, c |-> 1, mym |-> cert.mym]
        BY <1>0, <1>7, <3>2, <4>1 DEF mark_stale
      <4> QED BY <2>1, <4>2, <4>3
    <3> QED BY <3>1, <3>2
  <2>4. B = [votes |-> [NoVotes EXCEPT ![Self] = acc[Self]], c |-> acc[Self], forced |-> FALSE]
    BY <1>5, <2>1, <2>2, <2>3
  <2>5. V!MarkStale(A, Complete, Self)
          = [V!EmptyCert EXCEPT !.votes[Self] = acc[Self], !.c = acc[Self]]
    BY <1>2, <1>3, <1>7 DEF V!MarkStale
  <2>6. V!MarkStale(A, Complete, Self) = B
    BY <2>4, <2>5 DEF V!EmptyCert, NoVotes
  <2> QED BY <1>1, <1>4, <2>6
<1> QED BY <1>6, <1>7

(* make_complete() is MakeComplete: with my message there is a correct      *)
(* value to complete.                                                       *)
LEMMA MakeCompleteRefines ==
  ASSUME IInv, JInv, MakeComplete
  PROVE  Abstract.votes[Self] # None /\ Abstract' = V!MakeComplete(Abstract)
<1>0. /\ CertOK /\ HeardOnce /\ cert.mym # None /\ cert' = make_complete(cert)
      /\ forced' = TRUE /\ acc' = acc /\ cert.c # 0
      /\ cert.c \in 1..Len(cert.vals) /\ cert.vals[cert.c] \in [m: Values, count: Nat]
      /\ cert.vals \in Slots /\ Complete \in Nat /\ None \notin Values
      /\ cert = [bmap |-> cert.bmap, vals |-> cert.vals, c |-> cert.c, mym |-> cert.mym]
  BY CertificateFields, CertificateAssumption DEF IInv, TypeOK, MakeComplete, JInv, MineFixes
<1>1. PICK A : A = Abstract
  OBVIOUS
<1>2. /\ A.votes = acc /\ A.forced = forced /\ A.c = cert.vals[cert.c].m
      /\ A = [votes |-> A.votes, c |-> A.c, forced |-> A.forced]
  BY <1>0, <1>1 DEF Abstract, cvalue
<1>3. PICK e : e = [cert.vals[cert.c] EXCEPT !.count = Complete]
  OBVIOUS
<1>4. e \in [m: Values, count: Nat] /\ e.m = cert.vals[cert.c].m
  BY <1>0, <1>3
<1>5. PICK s : s = [cert.vals EXCEPT ![cert.c] = e]
  OBVIOUS
<1>6. s = [cert.vals EXCEPT ![cert.c].count = Complete]
  BY <1>3, <1>5
<1>7. cert' = [bmap |-> cert.bmap, vals |-> s, c |-> cert.c, mym |-> cert.mym]
  BY <1>0, <1>6 DEF make_complete
<1>8. s[cert.c] = e
  BY <1>0, <1>4, <1>5, SlotUpdate
<1>9. cert'.c = cert.c /\ cert'.vals[cert.c].m = cert.vals[cert.c].m
  BY <1>4, <1>7, <1>8
<1>10. Abstract' = [votes |-> acc, c |-> A.c, forced |-> TRUE]
  <2>1. (IF cert'.c = 0 THEN None ELSE cert'.vals[cert'.c].m) = A.c
    BY <1>0, <1>2, <1>9
  <2> QED BY <1>0, <2>1, AbstractNext
<1>11. V!MakeComplete(A) = [votes |-> acc, c |-> A.c, forced |-> TRUE]
  <2>1. A.c # None
    BY <1>0, <1>2
  <2>2. V!MakeComplete(A) = [A EXCEPT !.forced = TRUE]
    BY <2>1 DEF V!MakeComplete
  <2> QED BY <1>2, <2>2
<1> QED BY <1>0, <1>1, <1>2, <1>10, <1>11 DEF HeardOnce

(* Certificate<T> implements the plain record of votes that the models of   *)
(* the replica use, whatever its messages, their order and the resets are:  *)
(* initial states map to the empty certificate and every operation to the   *)
(* operation of VoteCert of the same name.                                  *)
THEOREM CertificateImplementsVotes ==
  ASSUME F # 0
  PROVE  Spec => ImplementsVotes
<1>1. Init => V!VInit
  <2> SUFFICES ASSUME Init PROVE Abstract = V!EmptyCert
    BY DEF V!VInit, Abstract
  <2>1. cert.c = 0 /\ acc = NoVotes /\ forced = FALSE
    BY DEF Init, EmptyCertificate
  <2> QED BY <2>1 DEF Abstract, cvalue, V!EmptyCert, NoVotes
<1>2. IInv /\ Exact /\ JInv /\ [Next]_vars => [V!VNext]_Abstract
  <2> SUFFICES ASSUME IInv, Exact, JInv, [Next]_vars PROVE [V!VNext]_Abstract
    OBVIOUS
  <2>1. ASSUME NEW i \in Replicas, NEW v \in opinion[i], Add(i, v) PROVE V!VNext
    <3>1. v \in Values
      BY OpinionIsValue
    <3>2. Abstract' = V!AddVote(Abstract, Complete, i, v) /\ i # Self
      BY <2>1, <3>1, AddRefines DEF Add
    <3>3. V!VAdd(i, v)
      BY <3>2 DEF V!VAdd, Abstract
    <3> QED BY <3>1, <3>3 DEF V!VNext
  <2>2. ASSUME NEW v \in opinion[Self], AddMine(v) PROVE V!VNext
    <3>1. v \in Values
      BY OpinionIsValue, CertificateAssumption
    <3>2. Abstract.votes[Self] = None /\ Abstract' = V!AddMyVote(Abstract, Self, v)
      BY <2>2, <3>1, AddMineRefines
    <3>3. V!VAddMine(v)
      BY <3>2 DEF V!VAddMine, Abstract
    <3> QED BY <3>1, <3>3 DEF V!VNext
  <2>3. ASSUME MarkStale PROVE V!VNext
    <3>1. V!VMarkStale
      BY <2>3, MarkStaleRefines DEF V!VMarkStale, Abstract
    <3> QED BY <3>1 DEF V!VNext
  <2>4. ASSUME Clear PROVE V!VNext
    <3>1. cert'.c = 0 /\ acc' = NoVotes /\ forced' = FALSE
      BY <2>4 DEF Clear, clear, EmptyCertificate
    <3>2. Abstract' = V!EmptyCert
      BY <3>1, AbstractNext DEF V!EmptyCert, NoVotes
    <3>3. V!VClear
      BY <3>2 DEF V!VClear, Abstract
    <3> QED BY <3>3 DEF V!VNext
  <2>5. ASSUME MakeComplete PROVE V!VNext
    <3>1. V!VMakeComplete
      BY <2>5, MakeCompleteRefines DEF V!VMakeComplete, Abstract
    <3> QED BY <3>1 DEF V!VNext
  <2>6. ASSUME UNCHANGED vars PROVE Abstract' = Abstract
    BY <2>6 DEF vars, Abstract, cvalue
  <2> QED BY <2>1, <2>2, <2>3, <2>4, <2>5, <2>6 DEF Next
<1> QED BY <1>1, <1>2, Invariant, ExactInvariant, CorrectInvariant, PTL
        DEF Spec, ImplementsVotes, V!VSpec, Abstract
=============================================================================
