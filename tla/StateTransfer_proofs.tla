------------------------ MODULE StateTransfer_proofs ------------------------
(***************************************************************************)
(* Proofs about module StateTransfer: for every number of blocks, every    *)
(* history and every sequence of checkpoints, rollbacks and fetches the    *)
(* sums in the partition tree are those of the digests of the children.    *)
(***************************************************************************)
EXTENDS StateTransfer, SequenceTheorems, TLAPS

IsRec(x, fields) == x = [n \in fields |-> x[n]]
IsSeq(q) == Len(q) \in Nat /\ q = [j \in 1..Len(q) |-> q[j]]

(* The fields of a State and of a stale partition. *)
SFields ==
  {"mem", "cowb", "ptree", "stree", "clog", "lc", "fetching", "flevel", "stalep", "cert",
   "lreplier", "asked", "checking", "check_start", "to_check", "refetch_level", "failed"}
PFields == {"index", "lu", "lm", "c", "d"}

-----------------------------------------------------------------------------
(* The invariant of a State, in parts. *)

(* d may be the digest of node k. *)
Tagged(k, d) == d.i = k[2] /\ d # NoDigest

(* The nodes whose digests are in the sums. *)
Summed(s) == {k \in Nodes : s.ptree[k].d # NoDigest}

Kids(C, p) == {k \in C : k[1] > 0 /\ ParentOf(k) = p}
Sums(s, C) == \A p \in Inner : s.stree[p] = {s.ptree[k].d : k \in Kids(C, p)}

Partial(s) ==
  /\ IsRec(s, SFields) /\ IsRec(s.ptree, Nodes) /\ IsRec(s.stree, Inner)
  /\ s.cowb \subseteq Blocks
  /\ \A k \in Summed(s) : Tagged(k, s.ptree[k].d)
  /\ Sums(s, Summed(s))

Tree(s) == Partial(s) /\ {<<0, 0>>} \cup {k \in Nodes : k[1] = Leaf} \subseteq Summed(s)

(* The stale partitions of each level ... *)
Parts(l, q) ==
  IsSeq(q) /\ \A j \in 1..Len(q) : IsRec(q[j], PFields) /\ q[j].index \in Indices(l)

Stale(s) == IsRec(s.stalep, Levels) /\ \A l \in Levels : Parts(l, s.stalep[l])

(* ... of which the last one above level l has been accepted. *)
Above(s, l) ==
  \A m \in Levels : m < l =>
    s.stalep[m] # << >> /\ Tagged(<<m, High(s.stalep[m]).index>>, High(s.stalep[m]).d)

Walk(s) ==
  s.fetching => /\ s.flevel \in Levels /\ Stale(s) /\ Above(s, s.flevel)
                /\ s.stalep[s.flevel] # << >>

(* The record of the replica. *)
OFields == {"st", "le", "lte", "ls", "alt", "fetched", "checked"}
Good(x) == IsRec(x, OFields) /\ Tree(x.st) /\ Walk(x.st)

(* The inductive invariant.  The others always have a last checkpoint. *)
IInv ==
  /\ Good(own)
  /\ IsRec(other, {"st", "ls"}) /\ Tree(other.st) /\ other.st.lc \in Nat

-----------------------------------------------------------------------------
(* The shape of the tree *)

Shaped(up, i) ==
  /\ IsSeq(up) /\ \A j \in 1..Len(up) : up[j] \in Nat \ {0}
  /\ Len(up) > (IF i > 0 THEN 1 ELSE 0) /\ up[1] = nb

addStep(k, up, j) == AddLevel(up, j)
addInv(k, i, up) == Shaped(up, i)
LevelLoop == INSTANCE Foundations WITH op <- addStep, inv <- addInv

(* The nodes of the levels are computed by a loop. *)
LEMMA NodesAreLoop == num_nodes = LevelLoop!Fold(0, <<nb>>, [k \in 1..nb |-> k])
BY DEF num_nodes, LevelLoop!Fold, addStep, FoldLeft, MapThenFoldSet,
       LevelLoop!MapThenFoldSet, LevelLoop!Greatest, Max

(* A quotient rounded up is positive. *)
LEMMA RoundUp ==
  ASSUME NEW a \in Nat \ {0}, NEW b \in Nat \ {0}
  PROVE  (a + b - 1) \div b \in Nat \ {0}
<1>1. PICK q : q = (a + b - 1) \div b
  OBVIOUS
<1>2. PICK r \in Int : a + b - 1 = b * q + r /\ 0 <= r /\ r < b /\ q \in Int
  BY <1>1, Z3
<1>3. ASSUME q <= 0 PROVE FALSE
  <2>1. b * q <= 0
    BY <1>2, <1>3, Z3
  <2>2. b * q \in Int
    BY <1>2
  <2> QED BY <1>2, <2>1, <2>2
<1> QED BY <1>1, <1>2, <1>3

(* Each level has at least one node, the root level exactly one. *)
LEMMA NodesShaped == Shaped(num_nodes, 1)
<1> DEFINE s == [k \in 1..nb |-> k]
<1>1. s \in Seq(Nat) /\ Len(s) = nb /\ nb > 0 /\ nb # 1 /\ nb \in Nat
  BY PartitionAssumption
<1>2. addInv(0, 0, <<nb>>)
  BY <1>1 DEF addInv, Shaped, IsSeq
<1>3. ASSUME NEW i, NEW up, i \in 1..Len(s), addInv(0, i - 1, up)
      PROVE  addInv(0, i, addStep(0, up, s[i]))
  <2>1. Shaped(up, i - 1) /\ i \in Nat /\ i > 0 /\ i - 1 \in Nat
    BY <1>1, <1>3 DEF addInv
  <2>2. Len(up) \in Nat /\ Len(up) > 0 /\ up \in Seq(Nat \ {0}) /\ up[Len(up)] \in Nat \ {0}
    BY <2>1 DEF Shaped, IsSeq
  <2>3. CASE up[Len(up)] = 1
    <3>1. addStep(0, up, s[i]) = up
      BY <2>3 DEF addStep, AddLevel, Last
    <3>2. Len(up) > 1
      BY <1>1, <2>1, <2>2, <2>3 DEF Shaped
    <3> QED BY <2>1, <3>1, <3>2 DEF addInv, Shaped
  <2>4. CASE up[Len(up)] # 1
    <3>1. PICK e : e = (up[Len(up)] + PChildren - 1) \div PChildren
      OBVIOUS
    <3>2. e \in Nat \ {0}
      BY <2>2, <3>1, RoundUp, PartitionAssumption
    <3>3. addStep(0, up, s[i]) = Append(up, e)
      BY <2>4, <3>1 DEF addStep, AddLevel, Last
    <3>4. PICK t : t = Append(up, e)
      OBVIOUS
    <3>5. t \in Seq(Nat \ {0}) /\ Len(t) = Len(up) + 1 /\ t[1] = up[1]
      BY <2>2, <3>2, <3>4
    <3>6. IsSeq(t) /\ \A j \in 1..Len(t) : t[j] \in Nat \ {0}
      BY <3>5 DEF IsSeq
    <3>7. Len(t) > 1 /\ t[1] = nb /\ i > 0
      BY <2>1, <2>2, <3>5 DEF Shaped
    <3>8. Shaped(t, i)
      BY <3>6, <3>7 DEF Shaped
    <3> QED BY <3>3, <3>4, <3>8 DEF addInv
  <2> QED BY <2>3, <2>4
<1> HIDE DEF s
<1>4. addInv(0, Len(s), LevelLoop!Fold(0, <<nb>>, s))
  BY <1>1, <1>2, <1>3, LevelLoop!FoldKeeps
<1> QED BY <1>1, <1>4, NodesAreLoop DEF addInv, Shaped, s

(* There is a root above the blocks, and a parent has at least one child. *)
LEMMA LevelsShape ==
  /\ PLevels \in Nat /\ PLevels >= 2 /\ Leaf = PLevels - 1 /\ Leaf \in Nat /\ Leaf > 0
  /\ Levels = 0..Leaf /\ 0 \in Levels /\ Leaf \in Levels
  /\ PSize[Leaf] = nb /\ \A l \in Levels : PSize[l] \in Nat \ {0}
<1>1. PICK t : t = num_nodes
  OBVIOUS
<1>2. Len(t) \in Nat /\ Len(t) >= 2 /\ t[1] = nb /\ \A j \in 1..Len(t) : t[j] \in Nat \ {0}
  BY <1>1, NodesShaped DEF Shaped, IsSeq
<1>3. PLevels = Len(t) /\ Levels = 0..(Len(t) - 1) /\ Leaf = Len(t) - 1
  BY <1>1 DEF PLevels, Levels, Leaf
<1>4. \A l \in Levels : PSize[l] = IF l = 0 THEN 1 ELSE t[Len(t) - l]
  BY <1>1, <1>3 DEF PSize
<1>5. \A l \in Levels : PSize[l] \in Nat \ {0}
  <2> SUFFICES ASSUME NEW l \in Levels PROVE PSize[l] \in Nat \ {0}
    OBVIOUS
  <2>1. l # 0 => Len(t) - l \in 1..Len(t)
    BY <1>2, <1>3
  <2> QED BY <1>2, <1>4, <2>1
<1>6. PSize[Leaf] = nb
  BY <1>2, <1>3, <1>4
<1> QED BY <1>2, <1>3, <1>5, <1>6

sizeStep(k, size, j) == size * PSize[j]
sizeInv(k, i, size) == size \in Nat \ {0}
SizeLoop == INSTANCE Foundations WITH op <- sizeStep, inv <- sizeInv

(* The size of a level is computed by a loop. *)
LEMMA SizeIsLoop ==
  ASSUME NEW l \in Levels
  PROVE  PLevelSize[l] = SizeLoop!Fold(0, 1, [j \in 1..l |-> j])
BY DEF PLevelSize, SizeLoop!Fold, sizeStep, FoldLeft, MapThenFoldSet,
       SizeLoop!MapThenFoldSet, SizeLoop!Greatest, Max

(* A level has PSize children for each node of the level above. *)
LEMMA LevelSizes ==
  /\ PLevelSize[0] = 1 /\ \A l \in Levels : PLevelSize[l] \in Nat \ {0}
  /\ \A l \in Levels : l > 0 => PLevelSize[l] = PLevelSize[l - 1] * PSize[l]
<1>1. ASSUME NEW l \in Levels
      PROVE  l \in Nat /\ [j \in 1..l |-> j] \in Seq(Levels) /\ Len([j \in 1..l |-> j]) = l
  BY LevelsShape
<1>2. ASSUME NEW l \in Levels PROVE PLevelSize[l] \in Nat \ {0}
  <2>1. PICK s : s = [j \in 1..l |-> j]
    OBVIOUS
  <2>2. \A i, a : i \in 1..Len(s) /\ sizeInv(0, i - 1, a) => sizeInv(0, i, sizeStep(0, a, s[i]))
    <3> SUFFICES ASSUME NEW i \in 1..Len(s), NEW a \in Nat \ {0}
                 PROVE  a * PSize[s[i]] \in Nat \ {0}
      BY DEF sizeInv, sizeStep
    <3>1. PSize[s[i]] \in Nat \ {0}
      BY <1>1, <2>1, LevelsShape
    <3>2. PICK b : b = PSize[s[i]]
      OBVIOUS
    <3>3. a * b \in Nat \ {0}
      BY <3>1, <3>2, Z3
    <3> QED BY <3>2, <3>3
  <2>3. sizeInv(0, 0, 1)
    BY DEF sizeInv
  <2>4. s \in Seq(Levels)
    BY <1>1, <2>1
  <2>5. sizeInv(0, Len(s), SizeLoop!Fold(0, 1, s))
    BY <2>2, <2>3, <2>4, SizeLoop!FoldKeeps
  <2> QED BY <2>1, <2>5, SizeIsLoop DEF sizeInv
<1>3. PLevelSize[0] = 1
  <2>1. [j \in 1..0 |-> j] = << >>
    OBVIOUS
  <2>2. PLevelSize[0] = SizeLoop!Fold(0, 1, << >>)
    BY <2>1, SizeIsLoop, LevelsShape
  <2> QED BY <2>2, SizeLoop!FoldEmpty
<1>4. ASSUME NEW l \in Levels, l > 0 PROVE PLevelSize[l] = PLevelSize[l - 1] * PSize[l]
  <2>1. l \in Nat /\ l - 1 \in Levels
    BY <1>4, LevelsShape
  <2>2. PICK s : s = [j \in 1..(l - 1) |-> j]
    OBVIOUS
  <2>3. s \in Seq(Levels) /\ Len(s) = l - 1
    BY <1>1, <2>1, <2>2
  <2>4. [j \in 1..l |-> j] = Append(s, l)
    <3>1. PICK t, u : t = [j \in 1..l |-> j] /\ u = Append(s, l)
      OBVIOUS
    <3>2. u \in Seq(Levels) /\ Len(u) = l /\ t \in Seq(Levels) /\ Len(t) = l
      BY <1>1, <2>1, <2>3, <3>1
    <3>3. ASSUME NEW j \in 1..l PROVE t[j] = u[j]
      <4>1. t[j] = j
        BY <3>1
      <4>2. CASE j = l
        BY <2>1, <2>3, <3>1, <4>1, <4>2
      <4>3. CASE j # l
        <5>1. j \in 1..(l - 1)
          BY <2>1, <4>3
        <5>2. u[j] = s[j]
          BY <2>3, <3>1, <5>1
        <5> QED BY <2>2, <4>1, <5>1, <5>2
      <4> QED BY <4>2, <4>3
    <3>4. u = [j \in 1..l |-> u[j]] /\ t = [j \in 1..l |-> t[j]]
      BY <3>2
    <3> QED BY <3>1, <3>3, <3>4, Zenon
  <2>5. PLevelSize[l] = sizeStep(0, SizeLoop!Fold(0, 1, s), l)
    <3>1. SizeLoop!Fold(0, 1, Append(s, l)) = sizeStep(0, SizeLoop!Fold(0, 1, s), l)
      BY <2>3, SizeLoop!FoldAppend
    <3> QED BY <2>4, <3>1, SizeIsLoop
  <2>6. PLevelSize[l - 1] = SizeLoop!Fold(0, 1, s)
    BY <2>1, <2>2, SizeIsLoop
  <2> QED BY <2>5, <2>6 DEF sizeStep
<1> QED BY <1>2, <1>3, <1>4

(* The parent of an index within a level is within the level above. *)
LEMMA Quotient ==
  ASSUME NEW a \in Nat, NEW b \in Nat \ {0}, NEW c \in Nat, a < c * b
  PROVE  a \div b \in 0..(c - 1)
<1>1. PICK q : q = a \div b
  OBVIOUS
<1>2. PICK r \in Int : a = b * q + r /\ 0 <= r /\ r < b /\ q \in Int
  BY <1>1, Z3
<1>3. ASSUME q < 0 PROVE FALSE
  <2>1. b * q <= -b
    BY <1>2, <1>3, Z3
  <2>2. b * q \in Int
    BY <1>2
  <2> QED BY <1>2, <2>1, <2>2
<1>4. ASSUME q >= c PROVE FALSE
  <2>1. b * q >= c * b
    BY <1>2, <1>4, Z3
  <2>2. b * q \in Int /\ c * b \in Int
    BY <1>2
  <2> QED BY <1>2, <2>1, <2>2
<1> QED BY <1>1, <1>2, <1>3, <1>4

(* A node is a level and an index within it. *)
LEMMA NodeIs ==
  /\ \A k \in Nodes : k = <<k[1], k[2]>> /\ k[1] \in Levels /\ k[2] \in Indices(k[1]) /\ k[2] \in Nat
  /\ \A l \in Levels : \A i \in Indices(l) : <<l, i>> \in Nodes
  /\ \A l \in Levels : 0 \in Indices(l) /\ Indices(l) \subseteq Nat
  /\ \A k : k \in Inner <=> k \in Nodes /\ k[1] < Leaf
<1>1. \A l \in Levels : LevelSize(l) \in Nat \ {0}
  BY LevelSizes, PartitionAssumption DEF LevelSize
<1>2. \A l \in Levels : 0 \in Indices(l) /\ Indices(l) \subseteq Nat
  BY <1>1 DEF Indices
<1> QED BY <1>2 DEF Nodes, Inner

(* The parent of a node is a node of the level above. *)
LEMMA Parents ==
  ASSUME NEW k \in Nodes, k[1] > 0
  PROVE  ParentOf(k) \in Inner /\ ParentOf(k)[1] = k[1] - 1
<1>1. PICK l, i : l = k[1] /\ i = k[2]
  OBVIOUS
<1>2. l \in Levels /\ i \in Indices(l) /\ i \in Nat /\ l > 0
  BY <1>1, NodeIs
<1>3. l \in Nat /\ l - 1 \in Levels /\ l - 1 < Leaf /\ PSize[l] \in Nat \ {0}
  BY <1>2, LevelsShape
<1>4. ParentOf(k) = <<l - 1, i \div PSize[l]>>
  BY <1>1 DEF ParentOf
<1>5. i \div PSize[l] \in Indices(l - 1)
  <2>1. PICK c, b : c = PLevelSize[l - 1] /\ b = PSize[l]
    OBVIOUS
  <2>2. c \in Nat \ {0} /\ b \in Nat \ {0}
    BY <1>3, <2>1, LevelSizes
  <2>3. i < LevelSize(l)
    BY <1>2, LevelSizes, PartitionAssumption DEF Indices, LevelSize
  <2>4. i < c * b
    <3>1. CASE l = Leaf
      <4>1. b = nb /\ i < b
        BY <2>1, <2>3, <3>1, LevelsShape DEF LevelSize
      <4>2. c * b >= b
        BY <2>2, Z3
      <4>3. c * b \in Int
        BY <2>2
      <4> QED BY <1>2, <2>2, <4>1, <4>2, <4>3
    <3>2. CASE l # Leaf
      BY <1>2, <2>1, <2>3, <3>2, LevelSizes DEF LevelSize
    <3> QED BY <3>1, <3>2
  <2>5. i \div b \in 0..(c - 1)
    BY <1>2, <2>2, <2>4, Quotient
  <2>6. Indices(l - 1) = 0..(c - 1)
    BY <1>3, <2>1 DEF Indices, LevelSize
  <2> QED BY <2>1, <2>5, <2>6
<1>6. ParentOf(k) \in Nodes
  BY <1>3, <1>4, <1>5, NodeIs
<1> QED BY <1>1, <1>3, <1>4, <1>6, NodeIs

-----------------------------------------------------------------------------
(* Assignments to the fields of a State. *)

Change(s, t, F) == IsRec(t, SFields) /\ \A n \in SFields \ F : t[n] = s[n]

(* Setting a field changes that field ... *)
LEMMA Put ==
  ASSUME NEW s, IsRec(s, SFields), NEW n \in SFields, NEW v, NEW t, t = [s EXCEPT ![n] = v]
  PROVE  Change(s, t, {n}) /\ t[n] = v
BY DEF Change, IsRec

(* ... two changes change the fields of both ... *)
LEMMA ChangeMore ==
  ASSUME NEW s, NEW t, NEW u, NEW F, NEW G, Change(s, t, F), Change(t, u, G)
  PROVE  Change(s, u, F \cup G)
BY DEF Change

(* ... other fields stay as they were ... *)
LEMMA ChangeKeeps ==
  ASSUME NEW s, NEW t, NEW F, Change(s, t, F), NEW n \in SFields, n \notin F
  PROVE  t[n] = s[n]
BY DEF Change

(* ... and no change is a change. *)
LEMMA Unchanged ==
  ASSUME NEW s, IsRec(s, SFields), NEW F
  PROVE  Change(s, s, F)
BY DEF Change

(* An assertion changes failed only. *)
LEMMA AssertedChanges ==
  ASSUME NEW s, IsRec(s, SFields), NEW holds, NEW name
  PROVE  Change(s, Asserted(s, holds, name), {"failed"})
<1>1. "failed" \in SFields
  BY DEF SFields
<1>2. PICK v : v = s.failed \cup {name}
  OBVIOUS
<1>3. PICK t : t = [s EXCEPT !["failed"] = v]
  OBVIOUS
<1>4. Change(s, t, {"failed"})
  BY <1>1, <1>3, Put
<1>5. Asserted(s, holds, name) = s \/ Asserted(s, holds, name) = t
  BY <1>2, <1>3 DEF Asserted
<1> QED BY <1>4, <1>5, Unchanged

(* So do the assertions of fetch(). *)
LEMMA AssertRecordChanges ==
  ASSUME NEW s, IsRec(s, SFields), NEW n
  PROVE  Change(s, AssertRecord(s, n), {"failed"})
<1>1. PICK t : t = Asserted(s, log_within_range(s.clog, n), "within_range")
  OBVIOUS
<1>2. Change(s, t, {"failed"})
  BY <1>1, AssertedChanges
<1>3. AssertRecord(s, n) = Asserted(t, is_fetchable(s.clog, n), "fetch_seqno")
  BY <1>1 DEF AssertRecord
<1>4. Change(t, AssertRecord(s, n), {"failed"})
  BY <1>2, <1>3, AssertedChanges DEF Change
<1>5. Change(s, AssertRecord(s, n), {"failed"} \cup {"failed"})
  BY <1>2, <1>4, ChangeMore
<1> QED BY <1>5 DEF Change

PartsSet(s, t, M, part) ==
  /\ Change(s, t, {"ptree", "stree"})
  /\ IsRec(t.ptree, Nodes) /\ IsRec(t.stree, Inner)
  /\ \A k \in Nodes : t.ptree[k] = IF k \in M THEN part[k] ELSE s.ptree[k]
  /\ \A p \in Inner : t.stree[p] =
       (s.stree[p] \ {s.ptree[k].d : k \in Kids(M, p)}) \cup {part[k].d : k \in Kids(M, p)}

(* SetParts() field by field. *)
LEMMA SetPartsChanges ==
  ASSUME NEW s, IsRec(s, SFields), NEW M, NEW part, NEW t, t = SetParts(s, M, part)
  PROVE  PartsSet(s, t, M, part)
<1>1. PICK a, b :
        /\ a = [k \in Nodes |-> IF k \in M THEN part[k] ELSE s.ptree[k]]
        /\ b = [p \in Inner |->
                 (s.stree[p] \ {s.ptree[k].d : k \in Kids(M, p)}) \cup {part[k].d : k \in Kids(M, p)}]
  OBVIOUS
<1>2. t = [s EXCEPT !.ptree = a, !.stree = b]
  BY <1>1 DEF SetParts, Kids
<1>3. PICK u : u = [s EXCEPT !["ptree"] = a]
  OBVIOUS
<1>4. "ptree" \in SFields /\ "stree" \in SFields
  BY DEF SFields
<1>5. Change(s, u, {"ptree"}) /\ u["ptree"] = a
  <2>1. Change(s, u, {"ptree"})
    BY <1>3, <1>4, Put
  <2>2. u["ptree"] = a
    BY <1>3, <1>4 DEF IsRec
  <2> QED BY <2>1, <2>2
<1>6. t = [u EXCEPT !["stree"] = b]
  BY <1>2, <1>3
<1>7. Change(u, t, {"stree"}) /\ t["stree"] = b
  <2>1. IsRec(u, SFields)
    BY <1>5 DEF Change
  <2>2. Change(u, t, {"stree"})
    BY <1>4, <1>6, <2>1, Put
  <2>3. t["stree"] = b
    BY <1>4, <1>6, <2>1 DEF IsRec
  <2> QED BY <2>2, <2>3
<1>8. Change(s, t, {"ptree"} \cup {"stree"})
  BY <1>5, <1>7, ChangeMore
<1>9. t["ptree"] = a
  BY <1>4, <1>5, <1>7 DEF Change
<1>10. IsRec(a, Nodes) /\ \A k \in Nodes : a[k] = IF k \in M THEN part[k] ELSE s.ptree[k]
  BY <1>1, Zenon DEF IsRec
<1>11. IsRec(b, Inner) /\ \A p \in Inner : b[p] =
         (s.stree[p] \ {s.ptree[k].d : k \in Kids(M, p)}) \cup {part[k].d : k \in Kids(M, p)}
  BY <1>1, Zenon DEF IsRec
<1>12. t.ptree = a /\ t.stree = b /\ Change(s, t, {"ptree", "stree"})
  BY <1>7, <1>8, <1>9 DEF Change
<1> QED BY <1>10, <1>11, <1>12, Zenon DEF PartsSet

(* The sums stay those of the children, when the digests that are replaced *)
(* are told apart from those of other children.                            *)
LEMMA SetPartsSums ==
  ASSUME NEW s, NEW C \in SUBSET Nodes, NEW M \in SUBSET Nodes, NEW part,
         NEW t, PartsSet(s, t, M, part), Sums(s, C),
         \A j \in C \ M : \A k \in M :
           j[1] > 0 /\ k[1] > 0 /\ ParentOf(j) = ParentOf(k) => s.ptree[j].d # s.ptree[k].d
  PROVE  Sums(t, C \cup M)
<1> SUFFICES ASSUME NEW p \in Inner
             PROVE  t.stree[p] = {t.ptree[k].d : k \in Kids(C \cup M, p)}
  BY DEF Sums
<1>2. t.stree[p] = ({s.ptree[k].d : k \in Kids(C, p)} \ {s.ptree[k].d : k \in Kids(M, p)})
                     \cup {part[k].d : k \in Kids(M, p)}
  <2>1. t.stree[p] = (s.stree[p] \ {s.ptree[k].d : k \in Kids(M, p)})
                       \cup {part[k].d : k \in Kids(M, p)}
    BY DEF PartsSet
  <2>2. s.stree[p] = {s.ptree[k].d : k \in Kids(C, p)}
    BY Zenon DEF Sums
  <2> QED BY <2>1, <2>2, Zenon
<1>3. \A k \in Nodes : t.ptree[k] = IF k \in M THEN part[k] ELSE s.ptree[k]
  BY DEF PartsSet
<1>4. ASSUME NEW d, d \in t.stree[p] PROVE d \in {t.ptree[k].d : k \in Kids(C \cup M, p)}
  <2>1. CASE \E k \in Kids(M, p) : d = part[k].d
    BY <1>3, <2>1 DEF Kids
  <2>2. CASE \E k \in Kids(C, p) : d = s.ptree[k].d /\ d \notin {s.ptree[j].d : j \in Kids(M, p)}
    <3>1. PICK k \in Kids(C, p) : d = s.ptree[k].d /\ d \notin {s.ptree[j].d : j \in Kids(M, p)}
      BY <2>2
    <3>2. k \notin M /\ k \in Nodes /\ k \in Kids(C \cup M, p)
      BY <3>1 DEF Kids
    <3> QED BY <1>3, <3>1, <3>2
  <2>3. d \in {s.ptree[k].d : k \in Kids(C, p)} \ {s.ptree[k].d : k \in Kids(M, p)}
          \/ d \in {part[k].d : k \in Kids(M, p)}
    BY <1>2, <1>4, Zenon
  <2> QED BY <2>1, <2>2, <2>3
<1>5. ASSUME NEW k \in Kids(C \cup M, p) PROVE t.ptree[k].d \in t.stree[p]
  <2>1. CASE k \in M
    BY <1>2, <1>3, <2>1 DEF Kids
  <2>2. CASE k \notin M
    <3>1. k \in Kids(C, p) /\ k \in Nodes /\ t.ptree[k] = s.ptree[k]
      BY <1>3, <2>2 DEF Kids
    <3>2. \A j \in Kids(M, p) : s.ptree[j].d # s.ptree[k].d
      BY <2>2, <3>1 DEF Kids
    <3> QED BY <1>2, <3>1, <3>2
  <2> QED BY <2>1, <2>2
<1> QED BY <1>4, <1>5

(* Moving the digests of M in the sums of the parents keeps the sums exact: *)
(* the digest of a node tells which child of its parent it is.             *)
LEMMA SetPartsTree ==
  ASSUME NEW s, Partial(s), NEW M \in SUBSET Nodes, NEW part, \A k \in M : Tagged(k, part[k].d),
         NEW t, t = SetParts(s, M, part)
  PROVE  Partial(t) /\ Summed(t) = Summed(s) \cup M
<1>1. IsRec(s, SFields) /\ Summed(s) \in SUBSET Nodes /\ Sums(s, Summed(s))
  BY DEF Partial, Summed
<1>0. PartsSet(s, t, M, part)
  BY <1>1, SetPartsChanges
<1>2. Change(s, t, {"ptree", "stree"}) /\ IsRec(t.ptree, Nodes) /\ IsRec(t.stree, Inner)
  BY <1>0 DEF PartsSet
<1>3. \A k \in Nodes : t.ptree[k] = IF k \in M THEN part[k] ELSE s.ptree[k]
  BY <1>0 DEF PartsSet
<1>5. Summed(t) = Summed(s) \cup M
  <2>1. \A k \in M : k \in Summed(t)
    BY <1>3, NodeIs, LevelsShape DEF Summed, Tagged
  <2>2. \A k \in Nodes \ M : k \in Summed(t) <=> k \in Summed(s)
    BY <1>3 DEF Summed
  <2> QED BY <1>1, <2>1, <2>2 DEF Summed
<1>6. \A j \in Summed(s) \ M : \A k \in M :
        j[1] > 0 /\ k[1] > 0 /\ ParentOf(j) = ParentOf(k) => s.ptree[j].d # s.ptree[k].d
  <2> SUFFICES ASSUME NEW j \in Summed(s) \ M, NEW k \in M, j[1] > 0, k[1] > 0,
                      ParentOf(j) = ParentOf(k)
               PROVE  s.ptree[j].d # s.ptree[k].d
    OBVIOUS
  <2>1. j \in Nodes /\ k \in Nodes /\ j # k
    BY <1>1
  <2>2. j[1] = k[1] /\ j[1] \in Levels
    BY <2>1, NodeIs, Parents, LevelsShape
  <2>3. j[2] # k[2]
    BY <2>1, <2>2, NodeIs
  <2>4. Tagged(j, s.ptree[j].d)
    BY DEF Partial
  <2>5. CASE k \in Summed(s)
    BY <2>3, <2>4, <2>5 DEF Partial, Tagged
  <2>6. CASE k \notin Summed(s)
    BY <2>1, <2>4, <2>6 DEF Summed, Tagged
  <2> QED BY <2>5, <2>6
<1>7. Sums(t, Summed(t))
  BY <1>0, <1>1, <1>5, <1>6, SetPartsSums
<1>8. \A k \in Summed(t) : Tagged(k, t.ptree[k].d)
  BY <1>1, <1>3, <1>5 DEF Partial
<1>9. t.cowb = s.cowb /\ IsRec(t, SFields)
  BY <1>2 DEF Change, SFields
<1> QED BY <1>2, <1>5, <1>7, <1>8, <1>9 DEF Partial

-----------------------------------------------------------------------------
(* What leaves the tree and the walk down the tree alone. *)

SameTree(s, t) == IsRec(t, SFields) /\ t.ptree = s.ptree /\ t.stree = s.stree
SameWalk(s, t) == t.fetching = s.fetching /\ t.flevel = s.flevel /\ t.stalep = s.stalep
Aside(s, t) == SameTree(s, t) /\ SameWalk(s, t) /\ t.cowb = s.cowb /\ t.lc = s.lc

(* The tree invariant depends on the tree and the copied blocks only. *)
LEMMA SameTreeTree ==
  ASSUME NEW s, NEW t, Tree(s), SameTree(s, t), t.cowb \subseteq Blocks
  PROVE  Tree(t)
BY DEF Tree, Partial, SameTree, Summed, Sums

(* A change aside keeps the tree ... *)
LEMMA AsideTree ==
  ASSUME NEW s, NEW t, Tree(s), Aside(s, t)
  PROVE  Tree(t)
BY SameTreeTree DEF Aside, Tree, Partial

(* ... and the walk ... *)
LEMMA AsideWalk ==
  ASSUME NEW s, NEW t, Walk(s), Aside(s, t)
  PROVE  Walk(t)
BY DEF Aside, SameWalk, Walk, Stale, Above

(* ... and two such changes are one. *)
LEMMA AsideMore ==
  ASSUME NEW s, NEW t, NEW u, Aside(s, t), Aside(t, u)
  PROVE  Aside(s, u)
BY DEF Aside, SameWalk, SameTree

(* A change of other fields is aside. *)
LEMMA ChangeAside ==
  ASSUME NEW s, NEW t, NEW F, Change(s, t, F),
         F \cap {"ptree", "stree", "cowb", "lc", "fetching", "flevel", "stalep"} = {}
  PROVE  Aside(s, t)
BY DEF Change, Aside, SameTree, SameWalk, SFields

(* An assertion is aside ... *)
LEMMA AssertedAside ==
  ASSUME NEW s, IsRec(s, SFields), NEW holds, NEW name
  PROVE  Aside(s, Asserted(s, holds, name))
BY AssertedChanges, ChangeAside

(* ... and so are those of fetch(). *)
LEMMA AssertRecordAside ==
  ASSUME NEW s, IsRec(s, SFields), NEW n
  PROVE  Aside(s, AssertRecord(s, n))
BY AssertRecordChanges, ChangeAside

(* A computed digest has the index of its node and is not zero. *)
LEMMA DigestTagged ==
  ASSUME NEW k, NEW lm, NEW c
  PROVE  Tagged(k, Digest(k[2], lm, c))
<1>1. Digest(k[2], lm, c).i = k[2]
  BY DEF Digest
<1>2. DOMAIN Digest(k[2], lm, c) # DOMAIN NoDigest
  BY DEF Digest, NoDigest
<1> QED BY <1>1, <1>2 DEF Tagged

(* A change of the checkpoint records is aside. *)
LEMMA PutClog ==
  ASSUME NEW s, IsRec(s, SFields), NEW v, NEW t, t = [s EXCEPT !.clog = v]
  PROVE  Aside(s, t)
<1>1. Change(s, t, {"clog"})
  BY DEF Change, IsRec, SFields
<1> QED BY <1>1, ChangeAside

-----------------------------------------------------------------------------
(* Checkpoints *)

(* The tree may change, the walk and the rest do not. *)
Beside(s, t) == Tree(t) /\ SameWalk(s, t) /\ t.cowb = s.cowb /\ t.lc = s.lc

(* A change aside leaves the walk alone. *)
LEMMA AsideBeside ==
  ASSUME NEW s, NEW t, Tree(s), Aside(s, t)
  PROVE  Beside(s, t)
BY AsideTree DEF Aside, Beside

(* Two changes of the tree in a row. *)
LEMMA BesideMore ==
  ASSUME NEW s, NEW t, NEW u, Beside(s, t), Beside(t, u)
  PROVE  Beside(s, u)
BY DEF Beside, SameWalk

(* SetParts() leaves all but the tree alone. *)
LEMMA SetPartsBeside ==
  ASSUME NEW s, Tree(s), NEW M \in SUBSET Nodes, NEW part, \A k \in M : Tagged(k, part[k].d)
  PROVE  Beside(s, SetParts(s, M, part))
<1>1. PICK t : t = SetParts(s, M, part)
  OBVIOUS
<1>2. Tree(t) /\ Summed(t) = Summed(s) \cup M
  BY <1>1, SetPartsTree DEF Tree
<1>3. IsRec(s, SFields)
  BY DEF Tree, Partial
<1>4. PartsSet(s, t, M, part)
  BY <1>1, <1>3, SetPartsChanges
<1>5. SameWalk(s, t) /\ t.cowb = s.cowb /\ t.lc = s.lc
  BY <1>4 DEF PartsSet, Change, SFields, SameWalk
<1> QED BY <1>1, <1>2, <1>5 DEF Beside

(* Appending parts to a record is aside. *)
LEMMA AppendPartsAside ==
  ASSUME NEW s, IsRec(s, SFields), NEW M
  PROVE  Aside(s, AppendParts(s, M))
<1> DEFINE a == Asserted(s, \A k \in M : ~has(RecordAt(s, s.lc), k), "append")
           v == store(a.clog, s.lc, append(RecordAt(s, s.lc), [k \in M |-> s.ptree[k]]))
<1>4. AppendParts(s, M) = [a EXCEPT !.clog = v]
  BY Zenon DEF AppendParts
<1>2. Aside(s, a)
  BY AssertedAside
<1> HIDE DEF a, v
<1>3. IsRec(a, SFields)
  BY <1>2 DEF Aside, SameTree
<1>5. Aside(a, AppendParts(s, M))
  BY <1>3, <1>4, PutClog
<1> QED BY <1>2, <1>5, AsideMore

(* One level of update_ptree() keeps the tree. *)
LEMMA UpdateLevelBeside ==
  ASSUME NEW s, Tree(s), NEW M \in SUBSET Nodes, NEW n
  PROVE  Beside(s, UpdateLevel(s, M, n))
<1>1. PICK u, part :
        /\ u = IF M # {} /\ \A k \in M : k[1] < Leaf THEN AppendParts(s, M) ELSE s
        /\ part = [k \in M |-> [lm |-> n, d |-> Digest(k[2], n, IF k[1] = Leaf THEN s.mem[k[2]]
                                                                 ELSE s.stree[k])]]
  OBVIOUS
<1>2. Beside(s, u)
  <2>1. IsRec(s, SFields)
    BY DEF Tree, Partial
  <2>2. Aside(s, s) /\ Aside(s, AppendParts(s, M))
    BY <2>1, AppendPartsAside DEF Aside, SameTree, SameWalk
  <2> QED BY <1>1, <2>2, AsideBeside
<1>3. UpdateLevel(s, M, n) = SetParts(u, M, part)
  BY <1>1 DEF UpdateLevel
<1>4. \A k \in M : Tagged(k, part[k].d)
  <2> SUFFICES ASSUME NEW k \in M PROVE Tagged(k, part[k].d)
    OBVIOUS
  <2>1. PICK c : c = IF k[1] = Leaf THEN s.mem[k[2]] ELSE s.stree[k]
    OBVIOUS
  <2>2. part[k].d = Digest(k[2], n, c)
    BY <1>1, <2>1
  <2> QED BY <2>2, DigestTagged
<1>5. Tree(u)
  BY <1>2 DEF Beside
<1>6. Beside(u, SetParts(u, M, part))
  BY <1>4, <1>5, SetPartsBeside
<1> QED BY <1>2, <1>3, <1>6, BesideMore

(* update_ptree(): from the blocks up to the root. *)
upStep(k, acc, l) == UpdateStep(k.n, acc, l)
upInv(k, i, acc) ==
  /\ acc = [s |-> acc.s, mods |-> acc.mods] /\ Beside(k.x, acc.s)
  /\ acc.mods \subseteq Nodes /\ \A m \in acc.mods : m[1] = PLevels - 1 - i
UpLoop == INSTANCE Foundations WITH op <- upStep, inv <- upInv

(* update_ptree() is a loop over the levels ... *)
LEMMA UpIsLoop ==
  ASSUME NEW k, NEW n, k.n = n, NEW s
  PROVE  update_ptree(s, n) =
           UpLoop!Fold(k, [s |-> AssertRecord(s, s.lc), mods |-> {<<Leaf, i>> : i \in s.cowb}],
                       Upwards).s
BY DEF update_ptree, UpLoop!Fold, upStep, FoldLeft, MapThenFoldSet,
       UpLoop!MapThenFoldSet, UpLoop!Greatest, Max

(* ... from the blocks to the root ... *)
LEMMA UpwardsIs ==
  /\ Upwards \in Seq(Levels) /\ Len(Upwards) = PLevels
  /\ \A i \in 1..PLevels : Upwards[i] = PLevels - i
BY LevelsShape DEF Upwards

(* ... each step of which keeps the tree ... *)
LEMMA UpdateStepKeeps ==
  ASSUME NEW k, NEW i \in 1..PLevels, NEW acc, upInv(k, i - 1, acc)
  PROVE  upInv(k, i, upStep(k, acc, PLevels - i))
<1>0. PLevels \in Nat /\ i \in Nat /\ i >= 1 /\ i <= PLevels
  BY LevelsShape
<1>1. Beside(k.x, acc.s) /\ acc.mods \in SUBSET Nodes
  BY DEF upInv
<1>2. \A m \in acc.mods : m[1] = PLevels - i
  BY <1>0 DEF upInv
<1>3. PICK t, M : /\ t = UpdateLevel(acc.s, acc.mods, k.n)
                  /\ M = IF PLevels - i = 0 THEN {} ELSE {ParentOf(m) : m \in acc.mods}
  OBVIOUS
<1>4. upStep(k, acc, PLevels - i) = [s |-> t, mods |-> M]
  BY <1>3 DEF upStep, UpdateStep
<1>5. Beside(k.x, t)
  <2>1. Tree(acc.s)
    BY <1>1 DEF Beside
  <2>2. Beside(acc.s, t)
    BY <1>1, <1>3, <2>1, UpdateLevelBeside
  <2> QED BY <1>1, <2>2, BesideMore
<1>6. M \subseteq Nodes /\ \A m \in M : m[1] = PLevels - 1 - i
  <2> SUFFICES ASSUME NEW m \in M PROVE m \in Nodes /\ m[1] = PLevels - 1 - i
    OBVIOUS
  <2>1. PLevels - i # 0
    BY <1>3
  <2>2. PICK j \in acc.mods : m = ParentOf(j)
    BY <1>3, <2>1
  <2>3. j \in Nodes /\ j[1] = PLevels - i /\ j[1] > 0
    BY <1>0, <1>1, <1>2, <2>1
  <2>4. m \in Inner /\ m[1] = PLevels - i - 1
    BY <2>2, <2>3, Parents
  <2> QED BY <1>0, <2>4, NodeIs
<1> QED BY <1>4, <1>5, <1>6 DEF upInv

(* ... and so does the whole. *)
LEMMA UpdateTreeBeside ==
  ASSUME NEW s, Tree(s), NEW n
  PROVE  Beside(s, update_ptree(s, n))
<1>1. PICK k : k = [n |-> n, x |-> s]
  OBVIOUS
<1>2. PICK b : b = [s |-> AssertRecord(s, s.lc), mods |-> {<<Leaf, i>> : i \in s.cowb}]
  OBVIOUS
<1>3. upInv(k, 0, b)
  <2>1. IsRec(s, SFields) /\ s.cowb \subseteq Indices(Leaf)
    BY DEF Tree, Partial, Blocks
  <2>2. Beside(s, AssertRecord(s, s.lc))
    BY <2>1, AssertRecordAside, AsideBeside
  <2>3. \A i \in s.cowb : <<Leaf, i>> \in Nodes
    BY <2>1, NodeIs, LevelsShape
  <2>4. Leaf = PLevels - 1 - 0
    BY LevelsShape
  <2> QED BY <1>1, <1>2, <2>2, <2>3, <2>4 DEF upInv
<1>4. \A i, a : i \in 1..Len(Upwards) /\ upInv(k, i - 1, a) => upInv(k, i, upStep(k, a, Upwards[i]))
  BY UpwardsIs, UpdateStepKeeps
<1>5. upInv(k, Len(Upwards), UpLoop!Fold(k, b, Upwards))
  BY <1>3, <1>4, UpwardsIs, UpLoop!FoldKeeps
<1>6. update_ptree(s, n) = UpLoop!Fold(k, b, Upwards).s
  <2>1. k.n = n
    BY <1>1
  <2> QED BY <1>2, <2>1, UpIsLoop
<1>7. Beside(k.x, UpLoop!Fold(k, b, Upwards).s) /\ k.x = s
  BY <1>1, <1>5 DEF upInv
<1> QED BY <1>6, <1>7

(* A checkpoint keeps the tree and starts copy-on-write over. *)
LEMMA CheckpointTree ==
  ASSUME NEW s, Tree(s), NEW n
  PROVE  LET t == checkpoint(s, n)
         IN  Tree(t) /\ SameWalk(s, t) /\ t.cowb = {} /\ t.lc = n
<1>1. PICK a : a = update_ptree(s, n)
  OBVIOUS
<1>2. Tree(a) /\ SameWalk(s, a) /\ IsRec(a, SFields)
  BY <1>1, UpdateTreeBeside DEF Beside, Tree, Partial
<1>3. PICK b : b = [a EXCEPT !.lc = n]
  OBVIOUS
<1>4. IsRec(b, SFields) /\ SameTree(a, b) /\ SameWalk(a, b) /\ b.cowb = a.cowb /\ b.lc = n
  BY <1>2, <1>3 DEF IsRec, SFields, SameTree, SameWalk
<1>5. PICK c : c = AssertRecord(b, n)
  OBVIOUS
<1>6. Aside(b, c) /\ IsRec(c, SFields)
  BY <1>4, <1>5, AssertRecordAside DEF Aside, SameTree
<1>7. PICK d : d = set_digest(c, n)
  OBVIOUS
<1>8. Aside(c, d) /\ IsRec(d, SFields)
  <2>1. PICK v : d = [c EXCEPT !.clog = v]
    BY <1>7 DEF set_digest
  <2> QED BY <1>6, <2>1, PutClog DEF Aside, SameTree
<1>9. PICK t : t = [d EXCEPT !.cowb = {}]
  OBVIOUS
<1>10. IsRec(t, SFields) /\ SameTree(d, t) /\ SameWalk(d, t) /\ t.cowb = {} /\ t.lc = d.lc
  BY <1>8, <1>9 DEF IsRec, SFields, SameTree, SameWalk
<1>11. checkpoint(s, n) = t
  BY <1>1, <1>3, <1>5, <1>7, <1>9 DEF checkpoint
<1>12. SameTree(a, t) /\ SameWalk(s, t) /\ t.lc = n
  BY <1>2, <1>4, <1>6, <1>8, <1>10 DEF Aside, SameTree, SameWalk
<1>13. Tree(t)
  BY <1>2, <1>10, <1>12, SameTreeTree
<1> QED BY <1>10, <1>11, <1>12, <1>13

-----------------------------------------------------------------------------
(* The first digests *)

newStep(k, acc, l) == DigestLevel(acc, l)
newInv(k, i, acc) ==
  /\ acc = [s |-> acc.s, np |-> acc.np] /\ Partial(acc.s)
  /\ acc.s.fetching = FALSE
  /\ i < PLevels => acc.np \in 1..LevelSize(PLevels - 1 - i)
  /\ i = 0 => acc.np = nb
  /\ i > 0 => {x \in Nodes : x[1] = Leaf} \subseteq Summed(acc.s)
  /\ i = PLevels => <<0, 0>> \in Summed(acc.s)
NewLoop == INSTANCE Foundations WITH op <- newStep, inv <- newInv

(* compute_full_digest() is a loop over the levels ... *)
LEMMA NewIsLoop ==
  ASSUME NEW b
  PROVE  FoldLeft(DigestLevel, b, Upwards) = NewLoop!Fold(0, b, Upwards)
BY DEF NewLoop!Fold, newStep, FoldLeft, MapThenFoldSet,
       NewLoop!MapThenFoldSet, NewLoop!Greatest, Max

(* The partitions of the level above that have blocks. *)
LEMMA RoundedParts ==
  ASSUME NEW l \in Levels, l > 0, NEW np \in 1..LevelSize(l)
  PROVE  (np + PSize[l] - 1) \div PSize[l] \in 1..LevelSize(l - 1)
<1>1. PICK c, b : c = PLevelSize[l - 1] /\ b = PSize[l]
  OBVIOUS
<1>2. l \in Nat /\ l - 1 \in Levels /\ l - 1 # Leaf
  BY LevelsShape
<1>3. c \in Nat \ {0} /\ b \in Nat \ {0}
  BY <1>1, <1>2, LevelSizes, LevelsShape
<1>4. LevelSize(l - 1) = c
  BY <1>1, <1>2 DEF LevelSize
<1>5. np \in Nat \ {0} /\ np <= LevelSize(l)
  BY LevelSizes, PartitionAssumption DEF LevelSize
<1>6. np <= c * b
  <2>1. CASE l = Leaf
    <3>1. np <= b
      BY <1>1, <1>5, <2>1, LevelsShape DEF LevelSize
    <3>2. c * b >= b /\ c * b \in Int
      BY <1>3, Z3
    <3> QED BY <1>3, <1>5, <3>1, <3>2
  <2>2. CASE l # Leaf
    BY <1>1, <1>5, <2>2, LevelSizes DEF LevelSize
  <2> QED BY <2>1, <2>2
<1>7. np + b - 1 < (c + 1) * b
  <2>1. (c + 1) * b = c * b + b /\ c * b \in Int
    BY <1>3, Z3
  <2> QED BY <1>3, <1>5, <1>6, <2>1
<1>8. (np + b - 1) \div b \in 0..c
  <2>1. np + b - 1 \in Nat /\ c + 1 \in Nat /\ (c + 1) - 1 = c
    BY <1>3, <1>5
  <2> QED BY <1>3, <1>7, <2>1, Quotient
<1>9. (np + b - 1) \div b \in Nat \ {0}
  BY <1>3, <1>5, RoundUp
<1> QED BY <1>1, <1>4, <1>8, <1>9

(* ... that puts the digests of one more level in the sums ... *)
LEMMA DigestLevelKeeps ==
  ASSUME NEW i \in 1..PLevels, NEW acc, newInv(0, i - 1, acc)
  PROVE  newInv(0, i, newStep(0, acc, PLevels - i))
<1>1. PICK l : l = PLevels - i
  OBVIOUS
<1>2. l \in Levels /\ l \in Nat /\ i \in Nat /\ i > 0 /\ i - 1 < PLevels /\ PLevels - 1 - (i - 1) = l
  BY <1>1, LevelsShape
<1>3. Partial(acc.s) /\ acc.s.fetching = FALSE /\ acc.np \in 1..LevelSize(l)
  BY <1>2 DEF newInv
<1>4. LevelSize(l) \in Nat
  BY <1>2, LevelSizes, PartitionAssumption DEF LevelSize
<1>5. PICK M, part, t, np :
        /\ M = {<<l, j>> : j \in 0..(acc.np - 1)}
        /\ part = [k \in M |-> [lm |-> 0, d |-> DigestOf(acc.s, k)]]
        /\ t = SetParts(acc.s, M, part)
        /\ np = (acc.np + PSize[l] - 1) \div PSize[l]
  OBVIOUS
<1>6. newStep(0, acc, l) = [s |-> t, np |-> np]
  BY <1>5 DEF newStep, DigestLevel
<1>7. M \in SUBSET Nodes
  <2>1. \A j \in 0..(acc.np - 1) : j \in Indices(l)
    BY <1>3, <1>4 DEF Indices
  <2> QED BY <1>2, <1>5, <2>1, NodeIs
<1>8. \A k \in M : Tagged(k, part[k].d)
  <2> SUFFICES ASSUME NEW k \in M PROVE Tagged(k, part[k].d)
    OBVIOUS
  <2>1. PICK lm, c : DigestOf(acc.s, k) = Digest(k[2], lm, c)
    BY DEF DigestOf
  <2>2. part[k].d = DigestOf(acc.s, k)
    BY <1>5
  <2> QED BY <2>1, <2>2, DigestTagged
<1>9. Partial(t) /\ Summed(t) = Summed(acc.s) \cup M
  BY <1>3, <1>5, <1>7, <1>8, SetPartsTree
<1>10. t.fetching = FALSE
  <2>1. IsRec(acc.s, SFields)
    BY <1>3 DEF Partial
  <2>2. PartsSet(acc.s, t, M, part)
    BY <1>5, <2>1, SetPartsChanges
  <2> QED BY <1>3, <2>2 DEF PartsSet, Change, SFields
<1>11. ASSUME i < PLevels PROVE np \in 1..LevelSize(PLevels - 1 - i)
  <2>1. l > 0 /\ PLevels - 1 - i = l - 1
    BY <1>1, <1>2, <1>11, LevelsShape
  <2> QED BY <1>2, <1>3, <1>5, <2>1, RoundedParts
<1>12. {x \in Nodes : x[1] = Leaf} \subseteq Summed(t)
  <2>1. CASE i = 1
    <3>1. l = Leaf /\ acc.np = nb
      BY <1>1, <2>1, LevelsShape DEF newInv
    <3>2. Indices(Leaf) = 0..(nb - 1)
      BY DEF Indices, LevelSize
    <3>3. \A x \in Nodes : x[1] = Leaf => x \in M
      BY <1>5, <3>1, <3>2, NodeIs
    <3> QED BY <1>9, <3>3
  <2>2. CASE i # 1
    BY <1>2, <1>9, <2>2 DEF newInv
  <2> QED BY <2>1, <2>2
<1>13. i = PLevels => <<0, 0>> \in Summed(t)
  <2>1. i = PLevels => <<0, 0>> \in M
    BY <1>1, <1>3, <1>4, <1>5, LevelsShape
  <2> QED BY <1>9, <2>1
<1> QED BY <1>1, <1>2, <1>6, <1>9, <1>10, <1>11, <1>12, <1>13 DEF newInv

Empty ==
  [mem |-> [i \in Blocks |-> 0], cowb |-> {},
   ptree |-> [k \in Nodes |-> [lm |-> 0, d |-> NoDigest]],
   stree |-> [k \in Inner |-> {}],
   clog |-> NewLog(0), lc |-> 0,
   fetching |-> FALSE, flevel |-> 0, stalep |-> [l \in Levels |-> <<>>],
   cert |-> NewCert, lreplier |-> 0, asked |-> NoFetch,
   checking |-> FALSE, check_start |-> 0, to_check |-> <<>>,
   refetch_level |-> 0, failed |-> {}]

(* ... starting from a tree without digests. *)
LEMMA EmptyPartial == Partial(Empty) /\ Empty.fetching = FALSE
<1>1. IsRec(Empty, SFields) /\ Empty.cowb = {} /\ Empty.fetching = FALSE
  BY DEF Empty, IsRec, SFields
<1>2. /\ Empty.ptree = [k \in Nodes |-> [lm |-> 0, d |-> NoDigest]]
      /\ Empty.stree = [k \in Inner |-> {}]
  BY DEF Empty
<1>3. IsRec(Empty.ptree, Nodes) /\ IsRec(Empty.stree, Inner)
  BY <1>2 DEF IsRec
<1>4. Summed(Empty) = {}
  BY <1>2 DEF Summed
<1>5. Sums(Empty, {})
  <2> SUFFICES ASSUME NEW p \in Inner
               PROVE  Empty.stree[p] = {Empty.ptree[k].d : k \in Kids({}, p)}
    BY DEF Sums
  <2>1. Empty.stree[p] = {} /\ Kids({}, p) = {}
    BY <1>2 DEF Kids
  <2> QED BY <2>1
<1> QED BY <1>1, <1>3, <1>4, <1>5 DEF Partial

(* A new State has exact sums. *)
LEMMA NewStateTree == Tree(NewState) /\ NewState.fetching = FALSE /\ NewState.lc = 0
<1>1. PICK b, r : b = [s |-> Empty, np |-> nb] /\ r = NewLoop!Fold(0, b, Upwards)
  OBVIOUS
<1>2. newInv(0, 0, b)
  <2>1. LevelSize(PLevels - 1 - 0) = nb /\ nb \in Nat /\ nb > 0
    BY LevelsShape, PartitionAssumption DEF LevelSize
  <2>2. 0 # PLevels
    BY LevelsShape
  <2> QED BY <1>1, <2>1, <2>2, EmptyPartial DEF newInv
<1>3. \A i, a : i \in 1..Len(Upwards) /\ newInv(0, i - 1, a) => newInv(0, i, newStep(0, a, Upwards[i]))
  BY UpwardsIs, DigestLevelKeeps
<1>4. newInv(0, PLevels, r)
  BY <1>1, <1>2, <1>3, UpwardsIs, NewLoop!FoldKeeps
<1>5. Tree(r.s) /\ r.s.fetching = FALSE
  BY <1>4, LevelsShape DEF newInv, Tree
<1>6. NewState = checkpoint(r.s, 0)
  <2>1. NewState = checkpoint(FoldLeft(DigestLevel, [s |-> Empty, np |-> nb], Upwards).s, 0)
    BY Zenon DEF NewState, Empty
  <2> QED BY <1>1, <2>1, NewIsLoop
<1> QED BY <1>5, <1>6, CheckpointTree DEF SameWalk

-----------------------------------------------------------------------------
(* Writes, rollback and discarding *)

(* The tree and the walk are as they were, the copied blocks may not be. *)
Level(s, t) == SameTree(s, t) /\ SameWalk(s, t) /\ t.cowb \subseteq Blocks /\ t.lc = s.lc

(* A change of memory and copied blocks keeps the tree. *)
LEMMA LevelTree ==
  ASSUME NEW s, NEW t, Tree(s), Level(s, t)
  PROVE  Tree(t) /\ SameWalk(s, t) /\ t.lc = s.lc
BY SameTreeTree DEF Level

(* cow_single() is such a change ... *)
LEMMA CowSingleLevel ==
  ASSUME NEW s, Tree(s), NEW B \in SUBSET Blocks
  PROVE  Level(s, cow_single(s, B))
<1> DEFINE r == RecordAt(s, s.lc)
           M == {<<Leaf, i>> : i \in B}
           b == AssertRecord(s, s.lc)
           a == Asserted(b, \A k \in M : ~has(r, k), "append")
           v == store(a.clog, s.lc, append(r, [k \in M |-> [lm |-> s.ptree[k].lm, d |-> s.ptree[k].d,
                                                            data |-> s.mem[k[2]]]]))
<1>1. cow_single(s, B) = [a EXCEPT !.clog = v, !.cowb = @ \cup B]
  BY Zenon DEF cow_single
<1>2. IsRec(s, SFields) /\ s.cowb \subseteq Blocks
  BY DEF Tree, Partial
<1>3. Aside(s, b)
  BY <1>2, AssertRecordAside
<1>4. IsRec(b, SFields)
  BY <1>3 DEF Aside, SameTree
<1>5. Aside(b, a)
  BY <1>4, AssertedAside
<1> HIDE DEF v, a, b
<1>6. Aside(s, a) /\ IsRec(a, SFields)
  BY <1>3, <1>5, AsideMore DEF Aside, SameTree
<1>7. PICK w : w = a.cowb \cup B
  OBVIOUS
<1>8. PICK t : t = [a EXCEPT !.clog = v, !.cowb = w]
  OBVIOUS
<1>9. IsRec(t, SFields) /\ SameTree(a, t) /\ SameWalk(a, t) /\ t.cowb = w /\ t.lc = a.lc
  BY <1>6, <1>8 DEF IsRec, SFields, SameTree, SameWalk
<1>10. w \subseteq Blocks
  BY <1>2, <1>6, <1>7 DEF Aside
<1>11. Level(s, t)
  BY <1>6, <1>9, <1>10 DEF Level, Aside, SameTree, SameWalk
<1> QED BY <1>1, <1>7, <1>8, <1>11

(* ... and so is writing to memory. *)
LEMMA MemoryLevel ==
  ASSUME NEW s, Tree(s), NEW v, NEW t, t = [s EXCEPT !.mem = v]
  PROVE  Level(s, t)
BY DEF Tree, Partial, Level, IsRec, SFields, SameTree, SameWalk

(* A batch of writes keeps the tree. *)
LEMMA WriteTree ==
  ASSUME NEW s, Tree(s), NEW B \in SUBSET Blocks, NEW value
  PROVE  LET t == Write(s, B, value) IN Tree(t) /\ SameWalk(s, t) /\ t.lc = s.lc
<1>1. PICK c : c = IF B \subseteq s.cowb THEN s ELSE cow_single(s, B \ s.cowb)
  OBVIOUS
<1>2. Tree(c) /\ SameWalk(s, c) /\ c.lc = s.lc
  <2>1. CASE B \subseteq s.cowb
    BY <1>1, <2>1 DEF SameWalk
  <2>2. CASE ~(B \subseteq s.cowb)
    <3>1. Level(s, c)
      BY <1>1, <2>2, CowSingleLevel
    <3> QED BY <3>1, LevelTree
  <2> QED BY <2>1, <2>2
<1>3. PICK t : t = Write(s, B, value)
  OBVIOUS
<1>4. PICK v : v = [i \in Blocks |-> IF i \in B THEN value ELSE c.mem[i]]
  OBVIOUS
<1>5. t = [c EXCEPT !.mem = v]
  BY <1>1, <1>3, <1>4 DEF Write
<1>6. Level(c, t)
  BY <1>2, <1>5, MemoryLevel
<1> QED BY <1>2, <1>3, <1>6, LevelTree DEF SameWalk

(* rollback() keeps the tree, which is that of the last checkpoint. *)
LEMMA RollbackTree ==
  ASSUME NEW s, Tree(s)
  PROVE  Tree(rollback(s)) /\ SameWalk(s, rollback(s))
<1> DEFINE a == Asserted(s, s.lc >= 0 /\ ~s.fetching, "rollback")
           r == RecordAt(s, s.lc)
           kept == {i \in s.cowb : has(r, <<Leaf, i>>)}
           b == AssertRecord(a, s.lc)
           c == Asserted(b, kept = s.cowb, "rollback_copy")
           v == [i \in Blocks |-> IF i \in kept THEN r.copies[<<Leaf, i>>].data ELSE c.mem[i]]
           w == store(c.clog, s.lc, [clear_record(r) EXCEPT !.sd = s.ptree[<<0, 0>>].d])
<1>1. rollback(s) = [c EXCEPT !.mem = v, !.clog = w, !.cowb = {}]
  BY Zenon DEF rollback
<1>2. IsRec(s, SFields)
  BY DEF Tree, Partial
<1>3. Aside(s, a)
  BY <1>2, AssertedAside
<1>4. IsRec(a, SFields)
  BY <1>3 DEF Aside, SameTree
<1>5. Aside(a, b)
  BY <1>4, AssertRecordAside
<1>6. IsRec(b, SFields)
  BY <1>5 DEF Aside, SameTree
<1>7. Aside(b, c)
  BY <1>6, AssertedAside
<1> HIDE DEF a, b, c, v, w
<1>8. Aside(s, c) /\ IsRec(c, SFields)
  BY <1>3, <1>5, <1>7, AsideMore DEF Aside, SameTree
<1>9. PICK t : t = [c EXCEPT !.mem = v, !.clog = w, !.cowb = {}]
  OBVIOUS
<1>10. IsRec(t, SFields) /\ SameTree(c, t) /\ SameWalk(c, t) /\ t.cowb = {} /\ t.lc = c.lc
  BY <1>8, <1>9 DEF IsRec, SFields, SameTree, SameWalk
<1>11. Level(s, t)
  BY <1>8, <1>10 DEF Level, Aside, SameTree, SameWalk
<1> QED BY <1>1, <1>9, <1>11, LevelTree

(* discard_checkpoint() keeps the tree, and the last checkpoint of a       *)
(* replica whose last execution was checkpointed.                          *)
LEMMA DiscardTree ==
  ASSUME NEW s, Tree(s), NEW n, NEW le
  PROVE  LET t == discard_checkpoint(s, n, le)
         IN  Tree(t) /\ SameWalk(s, t) /\ (s.lc \in Nat /\ le = s.lc => t.lc = s.lc)
<1>1. PICK a, g : g = checkpoint(s, le)
                  /\ a = IF n > s.lc /\ le > s.lc /\ s.lc >= 0 THEN [g EXCEPT !.lc = -1] ELSE s
  OBVIOUS
<1>2. Tree(a) /\ SameWalk(s, a) /\ (s.lc \in Nat /\ le = s.lc => a.lc = s.lc)
  <2>1. CASE a = s
    BY <2>1 DEF SameWalk
  <2>2. CASE a # s
    <3>1. a = [g EXCEPT !.lc = -1] /\ le > s.lc
      BY <1>1, <2>2
    <3>2. Tree(g) /\ SameWalk(s, g) /\ g.cowb = {} /\ IsRec(g, SFields)
      BY <1>1, CheckpointTree DEF Tree, Partial
    <3>3. SameTree(g, a) /\ SameWalk(g, a) /\ a.cowb = g.cowb
      BY <3>1, <3>2 DEF IsRec, SFields, SameTree, SameWalk
    <3>4. Tree(a)
      BY <3>2, <3>3, SameTreeTree
    <3>5. SameWalk(s, a)
      BY <3>2, <3>3 DEF SameWalk
    <3> QED BY <3>1, <3>4, <3>5
  <2> QED BY <2>1, <2>2
<1>3. PICK t : t = discard_checkpoint(s, n, le)
  OBVIOUS
<1>4. PICK v : v = truncate_log(a.clog, n)
  OBVIOUS
<1>5. t = [a EXCEPT !.clog = v]
  BY <1>1, <1>3, <1>4 DEF discard_checkpoint
<1>6. IsRec(a, SFields)
  BY <1>2 DEF Tree, Partial
<1>7. Aside(a, t)
  BY <1>5, <1>6, PutClog
<1>8. Tree(t) /\ SameWalk(a, t) /\ t.lc = a.lc
  BY <1>2, <1>7, AsideTree DEF Aside
<1> QED BY <1>2, <1>3, <1>8 DEF SameWalk

-----------------------------------------------------------------------------
(* Fetching *)

(* Adding the own answer is aside. *)
LEMMA AddOwnAside ==
  ASSUME NEW s, IsRec(s, SFields), NEW k, NEW m
  PROVE  Aside(s, add_own(s, k, m))
<1> DEFINE a == Asserted(s, \A n \in DOMAIN m.digests : has_meta_data(s, n, k), "own_meta_data")
           v == add(a.cert, m, TRUE).cert
<1>1. add_own(s, k, m) = [a EXCEPT !.cert = v]
  BY Zenon DEF add_own
<1>2. Aside(s, a)
  BY AssertedAside
<1> HIDE DEF a, v
<1>3. IsRec(a, SFields)
  BY <1>2 DEF Aside, SameTree
<1>4. Aside(a, add_own(s, k, m))
  BY <1>1, <1>3 DEF Aside, SameTree, SameWalk, IsRec, SFields
<1> QED BY <1>2, <1>4, AsideMore

(* So is send_fetch() ... *)
LEMMA SendFetchAside ==
  ASSUME NEW s, IsRec(s, SFields), NEW change
  PROVE  Aside(s, send_fetch(s, change))
<1> DEFINE p == High(s.stalep[s.flevel])
           k == <<s.flevel, p.index>>
           next == LET r == (s.lreplier + 1) % Cardinality(Replicas)
                   IN  IF r = me THEN (r + 1) % Cardinality(Replicas) ELSE r
           v == IF p.c >= 0 /\ change THEN next ELSE s.lreplier
           w == Fetch(p.lu, s.flevel, p.index, p.c, IF p.c >= 0 THEN v ELSE -1)
           a == Asserted(s, s.stalep[s.flevel] # <<>>, "send_fetch")
           b == [a EXCEPT !.lreplier = v, !.asked = w]
           m == own_answer(s, k)
<1>1. send_fetch(s, change) = b \/ send_fetch(s, change) = add_own(b, k, m)
  BY Zenon DEF send_fetch
<1>2. Aside(s, a)
  BY AssertedAside
<1> HIDE DEF p, k, next, v, w, a, m
<1>3. IsRec(a, SFields)
  BY <1>2 DEF Aside, SameTree
<1>4. Aside(a, b)
  BY <1>3 DEF Aside, SameTree, SameWalk, IsRec, SFields
<1> HIDE DEF b
<1>5. Aside(s, b) /\ IsRec(b, SFields)
  BY <1>2, <1>4, AsideMore DEF Aside, SameTree
<1>6. Aside(b, add_own(b, k, m))
  BY <1>5, AddOwnAside
<1>7. Aside(s, add_own(b, k, m))
  BY <1>5, <1>6, AsideMore
<1> QED BY <1>1, <1>5, <1>7

(* ... which keeps the tree and the walk. *)
LEMMA SendFetchKeeps ==
  ASSUME NEW s, Tree(s), Walk(s), NEW change
  PROVE  Tree(send_fetch(s, change)) /\ Walk(send_fetch(s, change))
<1>1. Aside(s, send_fetch(s, change))
  BY SendFetchAside DEF Tree, Partial
<1> QED BY <1>1, AsideTree, AsideWalk

(* A fetch begins at the root. *)
LEMMA FetchRootKeeps ==
  ASSUME NEW s, Tree(s), NEW c, NEW cd, NEW r
  PROVE  Tree(fetch_root(s, c, cd, r)) /\ Walk(fetch_root(s, c, cd, r))
<1>1. PICK p, z, t :
        /\ p = [index |-> 0, lu |-> IF s.refetch_level = PLevels THEN -1 ELSE s.lc,
                lm |-> s.ptree[<<0, 0>>].lm, c |-> c, d |-> cd]
        /\ z = [l \in Levels |-> IF l = 0 THEN <<p>> ELSE <<>>]
        /\ t = [s EXCEPT !.fetching = TRUE, !.lreplier = r, !.cert = NewCert, !.flevel = 0,
                         !.stalep = z]
  OBVIOUS
<1>2. fetch_root(s, c, cd, r) = send_fetch(t, TRUE)
  BY <1>1 DEF fetch_root
<1>3. IsRec(s, SFields) /\ s.cowb \subseteq Blocks
  BY DEF Tree, Partial
<1>4. SameTree(s, t) /\ t.cowb = s.cowb /\ t.fetching = TRUE /\ t.flevel = 0 /\ t.stalep = z
  BY <1>1, <1>3 DEF SameTree, IsRec, SFields
<1>5. Tree(t)
  BY <1>3, <1>4, SameTreeTree
<1>6. IsRec(p, PFields) /\ p.index \in Indices(0)
  BY <1>1, NodeIs, LevelsShape DEF IsRec, PFields
<1>7. Stale(t)
  <2>1. IsRec(z, Levels)
    BY <1>1 DEF IsRec
  <2>2. ASSUME NEW l \in Levels
        PROVE  Parts(l, z[l])
    <3>1. CASE l = 0
      BY <1>1, <1>6, <3>1 DEF Parts, IsSeq
    <3>2. CASE l # 0
      BY <1>1, <3>2 DEF Parts, IsSeq
    <3> QED BY <3>1, <3>2
  <2> QED BY <1>4, <2>1, <2>2 DEF Stale
<1>8. Walk(t)
  <2>1. 0 \in Levels /\ \A l \in Levels : ~(l < 0)
    BY LevelsShape
  <2>2. z[0] # << >>
    BY <1>1, <2>1
  <2> QED BY <1>4, <1>7, <2>1, <2>2 DEF Walk, Above
<1> QED BY <1>2, <1>5, <1>8, SendFetchKeeps

(* start_fetch() keeps the tree and begins a walk. *)
LEMMA StartFetchKeeps ==
  ASSUME NEW s, Tree(s), Walk(s), NEW le, NEW c, NEW cd, NEW r
  PROVE  Tree(start_fetch(s, le, c, cd, r)) /\ Walk(start_fetch(s, le, c, cd, r))
<1>1. PICK a, v : v = set_fetch_seqno(s.clog, le) /\ a = [s EXCEPT !.clog = v]
  OBVIOUS
<1>2. \/ start_fetch(s, le, c, cd, r) = s
      \/ start_fetch(s, le, c, cd, r) = fetch_root(checkpoint(a, le), c, cd, r)
      \/ start_fetch(s, le, c, cd, r) = fetch_root(s, c, cd, r)
  BY <1>1 DEF start_fetch
<1>3. Tree(a)
  <2>1. Aside(s, a)
    BY <1>1, PutClog DEF Tree, Partial
  <2> QED BY <2>1, AsideTree
<1>4. Tree(checkpoint(a, le))
  BY <1>3, CheckpointTree
<1>5. PICK q : q = checkpoint(a, le)
  OBVIOUS
<1>6. Tree(fetch_root(q, c, cd, r)) /\ Walk(fetch_root(q, c, cd, r))
  BY <1>4, <1>5, FetchRootKeeps
<1>7. Tree(fetch_root(s, c, cd, r)) /\ Walk(fetch_root(s, c, cd, r))
  BY FetchRootKeeps
<1> QED BY <1>2, <1>5, <1>6, <1>7

-----------------------------------------------------------------------------
(* The lists of stale partitions *)

(* The high element of a list of stale partitions. *)
LEMMA SeqLast ==
  ASSUME NEW q, IsSeq(q), q # << >>
  PROVE  Len(q) \in 1..Len(q) /\ High(q) = q[Len(q)]
<1>1. Len(q) # 0
  <2> SUFFICES ASSUME Len(q) = 0 PROVE FALSE
    OBVIOUS
  <2>1. q = [j \in 1..0 |-> q[j]]
    BY DEF IsSeq
  <2>2. [j \in 1..0 |-> q[j]] = << >>
    OBVIOUS
  <2> QED BY <2>1, <2>2
<1> QED BY <1>1 DEF IsSeq, High, Last

(* A list without its high element. *)
LEMMA FrontParts ==
  ASSUME NEW l, NEW q, Parts(l, q), q # << >>
  PROVE  Parts(l, Front(q)) /\ (Len(q) # 1 => Front(q) # << >>)
<1>1. Len(q) \in Nat /\ Len(q) >= 1 /\ q \in Seq({q[j] : j \in 1..Len(q)})
  BY SeqLast DEF Parts, IsSeq
<1>2. PICK r : r = Front(q)
  OBVIOUS
<1>3. /\ r \in Seq({q[j] : j \in 1..Len(q)}) /\ Len(r) = Len(q) - 1
      /\ \A j \in 1..(Len(q) - 1) : r[j] = q[j]
  <2>1. PICK S : S = {q[j] : j \in 1..Len(q)}
    OBVIOUS
  <2>2. q \in Seq(S) /\ r = SubSeq(q, 1, Len(q) - 1) /\ 1 \in 1..(Len(q) + 1)
    BY <1>1, <1>2, <2>1 DEF Front
  <2>3. PICK n \in Nat : n = Len(q) - 1
    BY <1>1
  <2>4. \A j \in 1..n : q[j] \in S
    BY <1>1, <2>1, <2>3
  <2>5. r \in Seq(S) /\ Len(r) = (IF 1 <= n THEN n - 1 + 1 ELSE 0)
        /\ \A i \in 1..(n - 1 + 1) : r[i] = q[1 + i - 1]
    BY <2>2, <2>3, <2>4, SubSeqProperties
  <2>6. r \in Seq(S) /\ Len(r) = n /\ \A j \in 1..n : r[j] = q[j]
    BY <2>3, <2>5
  <2> QED BY <2>1, <2>3, <2>6
<1>4. Len(r) \in Nat /\ r = [j \in 1..Len(r) |-> r[j]]
  BY <1>3
<1>5. \A j \in 1..Len(r) : j \in 1..Len(q) /\ r[j] = q[j]
  BY <1>1, <1>3
<1>6. Len(q) # 1 => r # << >>
  BY <1>1, <1>3
<1> QED BY <1>2, <1>4, <1>5, <1>6 DEF Parts, IsSeq

(* The last partition of the list becomes p. *)
LastSet(q, r, p) == r = [q EXCEPT ![Len(q)] = p]

(* A list with its high element replaced. *)
LEMMA LastParts ==
  ASSUME NEW l, NEW q, Parts(l, q), q # << >>,
         NEW p, IsRec(p, PFields), p.index \in Indices(l), NEW r, LastSet(q, r, p)
  PROVE  Parts(l, r) /\ r # << >> /\ High(r) = p
<1>0. r = [q EXCEPT ![Len(q)] = p]
  BY DEF LastSet
<1>1. Len(q) \in Nat /\ Len(q) \in 1..Len(q) /\ q = [j \in 1..Len(q) |-> q[j]]
  BY SeqLast DEF Parts, IsSeq
<1>2. r = [j \in 1..Len(q) |-> IF j = Len(q) THEN p ELSE q[j]]
  BY <1>0, <1>1
<1>3. Len(r) = Len(q) /\ IsSeq(r) /\ \A j \in 1..Len(r) : r[j] = IF j = Len(q) THEN p ELSE q[j]
  <2>1. PICK S : S = {q[j] : j \in 1..Len(q)} \cup {p}
    OBVIOUS
  <2>2. q \in Seq(S) /\ p \in S
    BY <1>1, <2>1
  <2>3. r \in Seq(S) /\ Len(r) = Len(q)
    BY <1>0, <1>1, <2>2, ExceptSeq
  <2>4. r \in [1..Len(r) -> S] /\ Len(r) \in Nat
    BY <2>3, LenProperties
  <2>5. IsSeq(r)
    BY <2>4 DEF IsSeq
  <2> QED BY <1>2, <2>3, <2>5
<1>4. Parts(l, r)
  BY <1>3 DEF Parts
<1>5. r # << >>
  BY <1>1, <1>3
<1> QED BY <1>1, <1>3, <1>4, <1>5, SeqLast

(* A list with another element. *)
LEMMA AppendedParts ==
  ASSUME NEW l, NEW q, Parts(l, q), NEW p, IsRec(p, PFields), p.index \in Indices(l)
  PROVE  Parts(l, Append(q, p))
<1>1. PICK S : S = {q[j] : j \in 1..Len(q)} \cup {p}
  OBVIOUS
<1>2. q \in Seq(S) /\ p \in S /\ Len(q) \in Nat
  BY <1>1 DEF Parts, IsSeq
<1>3. PICK r : r = Append(q, p)
  OBVIOUS
<1>4. r \in Seq(S) /\ Len(r) = Len(q) + 1 /\ \A j \in 1..Len(r) : r[j] = IF j = Len(r) THEN p ELSE q[j]
  BY <1>2, <1>3
<1>5. IsSeq(r)
  BY <1>4 DEF IsSeq
<1>6. \A j \in 1..Len(r) : j = Len(r) \/ j \in 1..Len(q)
  BY <1>2, <1>4
<1> QED BY <1>3, <1>4, <1>5, <1>6 DEF Parts

(* The high element is a stale partition of the level. *)
LEMMA HighPart ==
  ASSUME NEW l, NEW q, Parts(l, q), q # << >>
  PROVE  IsRec(High(q), PFields) /\ High(q).index \in Indices(l)
BY SeqLast DEF Parts

(* Raising lm keeps what partition it is and the digest accepted for it. *)
LEMMA RaiseParts ==
  ASSUME NEW l, NEW q, Parts(l, q), q # << >>, NEW lm
  PROVE  LET r == Raise(q, lm)
         IN  Parts(l, r) /\ r # << >> /\ High(r).index = High(q).index /\ High(r).d = High(q).d
<1>1. PICK p, v : /\ v = IF lm > q[Len(q)].lm THEN lm ELSE q[Len(q)].lm
                  /\ p = [q[Len(q)] EXCEPT !.lm = v]
  OBVIOUS
<1>2. Raise(q, lm) = [q EXCEPT ![Len(q)] = p]
  BY <1>1 DEF Raise
<1>3. IsRec(q[Len(q)], PFields) /\ High(q) = q[Len(q)] /\ High(q).index \in Indices(l)
  BY HighPart, SeqLast DEF Parts
<1>4. IsRec(p, PFields) /\ p.index = High(q).index /\ p.d = High(q).d
  BY <1>1, <1>3 DEF IsRec, PFields
<1>5. PICK r : r = Raise(q, lm)
  OBVIOUS
<1>6. Parts(l, r) /\ r # << >> /\ High(r) = p
  <2>1. p.index \in Indices(l) /\ IsRec(p, PFields)
    BY <1>3, <1>4
  <2>2. LastSet(q, r, p)
    BY <1>2, <1>5 DEF LastSet
  <2> QED BY <2>1, <2>2, LastParts
<1> QED BY <1>4, <1>5, <1>6

-----------------------------------------------------------------------------
(* Back up the tree *)

(* The stale partitions of level l become q. *)
StaleSet(s, t, l, q) ==
  Stale(t) /\ t.stalep[l] = q /\ \A m \in Levels \ {l} : t.stalep[m] = s.stalep[m]

(* Replacing the list of a level. *)
LEMMA StaleAt ==
  ASSUME NEW s, NEW t, Stale(s), NEW l \in Levels, NEW q, Parts(l, q),
         t.stalep = [s.stalep EXCEPT ![l] = q]
  PROVE  StaleSet(s, t, l, q)
BY DEF Stale, IsRec, StaleSet

(* The parts of the walk depend on its fields only. *)
LEMMA SameWalkClimb ==
  ASSUME NEW s, NEW t, SameWalk(s, t), NEW l
  PROVE  /\ Stale(s) => Stale(t)
         /\ Above(s, l) => Above(t, l)
         /\ Walk(s) => Walk(t)
BY DEF SameWalk, Stale, Above, Walk

(* The last stale partition of level l is done with. *)
Popped(s, t, l, lm) ==
  \E z : /\ z = [s.stalep EXCEPT ![l] = Front(s.stalep[l])]
         /\ t.stalep = [z EXCEPT ![l - 1] = Raise(z[l - 1], lm)]

(* The step from a level to the one above it in done_with_level(). *)
LEMMA PopStale ==
  ASSUME NEW s, NEW t, NEW l \in Levels, l > 0, Stale(s), Above(s, l), s.stalep[l] # << >>, NEW lm,
         Popped(s, t, l, lm)
  PROVE  Stale(t) /\ Above(t, l) /\ t.stalep[l] = Front(s.stalep[l])
<1> PICK z : /\ z = [s.stalep EXCEPT ![l] = Front(s.stalep[l])]
             /\ t.stalep = [z EXCEPT ![l - 1] = Raise(z[l - 1], lm)]
  BY DEF Popped
<1>0. l \in Nat /\ l - 1 \in Levels /\ l - 1 # l /\ l - 1 < l
  BY LevelsShape
<1>1. PICK w : w = s.stalep[l]
  OBVIOUS
<1>2. Parts(l, Front(w))
  BY <1>1, FrontParts DEF Stale
<1>3. PICK c : c = [stalep |-> z]
  OBVIOUS
<1>4. StaleSet(s, c, l, Front(w))
  <2>1. c.stalep = [s.stalep EXCEPT ![l] = Front(w)]
    BY <1>1, <1>3
  <2> QED BY <1>2, <2>1, StaleAt
<1>5. PICK u, r : u = s.stalep[l - 1] /\ r = Raise(u, lm)
  OBVIOUS
<1>6. u # << >> /\ Parts(l - 1, u) /\ Tagged(<<l - 1, High(u).index>>, High(u).d)
  BY <1>0, <1>5 DEF Above, Stale
<1>7. Parts(l - 1, r) /\ r # << >> /\ High(r).index = High(u).index /\ High(r).d = High(u).d
  BY <1>5, <1>6, RaiseParts
<1>8. StaleSet(c, t, l - 1, r)
  <2>1. z[l - 1] = u
    BY <1>0, <1>3, <1>4, <1>5 DEF StaleSet
  <2>2. t.stalep = [c.stalep EXCEPT ![l - 1] = r]
    BY <1>3, <1>5, <2>1
  <2>3. Stale(c)
    BY <1>4 DEF StaleSet
  <2> QED BY <1>0, <1>7, <2>2, <2>3, StaleAt
<1>9. /\ t.stalep[l - 1] = r /\ t.stalep[l] = Front(w) /\ Stale(t)
      /\ \A m \in Levels : m < l /\ m # l - 1 => t.stalep[m] = s.stalep[m]
  <2>1. \A m \in Levels : m < l => m # l
    BY <1>0, LevelsShape
  <2> QED BY <1>0, <1>4, <1>8, <2>1 DEF StaleSet
<1>10. Above(t, l)
  <2> SUFFICES ASSUME NEW m \in Levels, m < l
               PROVE  /\ t.stalep[m] # << >>
                      /\ Tagged(<<m, High(t.stalep[m]).index>>, High(t.stalep[m]).d)
    BY DEF Above
  <2>1. CASE m = l - 1
    BY <1>6, <1>7, <1>9, <2>1
  <2>2. CASE m # l - 1
    BY <1>9, <2>2 DEF Above
  <2> QED BY <2>1, <2>2
<1> QED BY <1>1, <1>9, <1>10

(* Completing the root ends the walk. *)
LEMMA CompletedKeeps ==
  ASSUME NEW s, Tree(s), NEW wp
  PROVE  Tree(Completed(s, wp)) /\ Walk(Completed(s, wp))
<1> DEFINE a == Asserted(s, s.lc <= wp.lu, "lc_after_fetch")
<1>1. IsRec(s, SFields)
  BY DEF Tree, Partial
<1>2. Aside(s, a)
  BY <1>1, AssertedAside
<1>3. PICK v1, v2, v3 :
        Completed(s, wp) = [a EXCEPT !.fetching = FALSE, !.checking = v1, !.lc = wp.lu,
                                     !.clog = v2, !.cowb = {}, !.stalep = v3,
                                     !.cert = NewCert, !.asked = NoFetch, !.refetch_level = 0]
  BY Zenon DEF Completed
<1> HIDE DEF a
<1>4. IsRec(a, SFields)
  BY <1>2 DEF Aside, SameTree
<1>5. PICK t : t = Completed(s, wp)
  OBVIOUS
<1>6. IsRec(t, SFields) /\ t.ptree = a.ptree /\ t.stree = a.stree /\ t.cowb = {} /\ t.fetching = FALSE
  BY <1>3, <1>4, <1>5 DEF IsRec, SFields
<1>7. SameTree(s, t)
  BY <1>2, <1>6 DEF Aside, SameTree
<1>8. Tree(t)
  BY <1>6, <1>7, SameTreeTree
<1> QED BY <1>5, <1>6, <1>8 DEF Walk

DoneInv(acc, l) ==
  /\ acc = [go |-> acc.go, s |-> acc.s] /\ Tree(acc.s)
  /\ acc.go => l > 0 /\ Stale(acc.s) /\ Above(acc.s, l)
  /\ ~acc.go => Walk(acc.s)

(* One call of done_with_level() stores a part whose digest was accepted. *)
LEMMA LevelDoneKeeps ==
  ASSUME NEW l \in Levels, l < Leaf, NEW acc, acc.go, DoneInv(acc, l + 1)
  PROVE  DoneInv(LevelDone(acc, l), l)
<1>0. l \in Nat /\ l + 1 \in Levels /\ l - 1 < l
  BY LevelsShape
<1> DEFINE s == acc.s
           wp == [High(s.stalep[l]) EXCEPT !.lu = High(s.stalep[l]).c]
           a == Asserted(s, s.stalep[l + 1] = <<>> /\ wp.c # -1, "done_with_level")
           at == [a EXCEPT !.flevel = l, !.stalep[l][Len(s.stalep[l])] = wp]
           k == <<l, wp.index>>
           kept == SetParts(at, {k}, [x \in {k} |-> [lm |-> wp.lm, d |-> wp.d]])
           b == Asserted(kept, High(s.stalep[l - 1]).index = ParentOf(k)[2], "parent")
           popped == [b EXCEPT !.stalep[l] = Front(@), !.stalep[l - 1] = Raise(@, wp.lm)]
           back == [at EXCEPT !.refetch_level = IF l < @ THEN l ELSE @]
           next == [popped EXCEPT !.refetch_level = IF l <= @ THEN PLevels ELSE @]
<1>1. LevelDone(acc, l) =
         IF ~acc.go THEN acc
         ELSE IF wp.lu < wp.lm THEN [go |-> FALSE, s |-> back]
         ELSE IF l = 0 THEN [go |-> FALSE, s |-> Completed(kept, wp)]
         ELSE IF popped.stalep[l] = <<>> THEN [go |-> TRUE, s |-> popped]
         ELSE [go |-> FALSE, s |-> next]
  BY Zenon DEF LevelDone
<1> HIDE DEF s, wp, a, at, k, kept, b, popped, back, next
<1>2. Tree(s) /\ Stale(s) /\ Above(s, l + 1) /\ IsRec(s, SFields)
  BY DEF DoneInv, Tree, Partial, s
<1>3. PICK q : q = s.stalep[l]
  OBVIOUS
<1>4. q # << >> /\ Tagged(<<l, High(q).index>>, High(q).d) /\ Parts(l, q)
  BY <1>0, <1>2, <1>3 DEF Above, Stale
<1>5. IsRec(High(q), PFields) /\ High(q).index \in Indices(l) /\ High(q) = q[Len(q)]
  BY <1>4, HighPart, SeqLast DEF Parts
<1>6. wp = [High(q) EXCEPT !.lu = High(q).c]
  BY <1>3 DEF wp
<1>7. IsRec(wp, PFields) /\ wp.index = High(q).index /\ wp.d = High(q).d
  BY <1>5, <1>6 DEF IsRec, PFields
<1>8. PICK w : w = [q EXCEPT ![Len(q)] = wp]
  OBVIOUS
<1>9. Parts(l, w) /\ w # << >> /\ High(w) = wp
  <2>1. wp.index \in Indices(l)
    BY <1>5, <1>7
  <2>2. LastSet(q, w, wp)
    BY <1>8 DEF LastSet
  <2> QED BY <1>4, <1>7, <2>1, <2>2, LastParts
<1>10. Aside(s, a) /\ IsRec(a, SFields)
  BY <1>2, AssertedAside DEF a, Aside, SameTree
<1>11. /\ IsRec(at, SFields) /\ SameTree(s, at) /\ at.cowb = s.cowb /\ at.flevel = l
       /\ at.stalep = [s.stalep EXCEPT ![l] = w]
  <2>1. at = [a EXCEPT !.flevel = l, !.stalep = [a.stalep EXCEPT ![l] = [a.stalep[l] EXCEPT ![Len(s.stalep[l])] = wp]]]
    BY DEF at
  <2>2. a.stalep = s.stalep
    BY <1>10 DEF Aside, SameWalk
  <2>3. at = [a EXCEPT !.flevel = l, !.stalep = [s.stalep EXCEPT ![l] = w]]
    BY <1>3, <1>8, <2>1, <2>2, Zenon
  <2>4. PICK z : z = [s.stalep EXCEPT ![l] = w]
    OBVIOUS
  <2>5. IsRec(at, SFields) /\ SameTree(a, at) /\ at.cowb = a.cowb /\ at.flevel = l /\ at.stalep = z
    BY <1>10, <2>3, <2>4 DEF IsRec, SFields, SameTree
  <2> QED BY <1>10, <2>4, <2>5 DEF Aside, SameTree
<1>12. Tree(at) /\ Stale(at) /\ Above(at, l) /\ at.stalep[l] = w
  <2>1. Tree(at)
    BY <1>2, <1>11, SameTreeTree DEF Tree, Partial
  <2>2. Stale(at) /\ at.stalep[l] = w /\ \A m \in Levels \ {l} : at.stalep[m] = s.stalep[m]
    <3>1. StaleSet(s, at, l, w)
      BY <1>2, <1>9, <1>11, StaleAt
    <3> QED BY <3>1 DEF StaleSet
  <2>3. \A m \in Levels : m < l => m # l /\ m < l + 1
    BY <1>0, LevelsShape
  <2>4. Above(at, l)
    BY <1>2, <2>2, <2>3 DEF Above
  <2> QED BY <2>1, <2>2, <2>4
<1>13. CASE wp.lu < wp.lm
  <2>1. LevelDone(acc, l) = [go |-> FALSE, s |-> back]
    BY <1>1, <1>13
  <2>2. Aside(at, back)
    <3>1. PICK v : back = [at EXCEPT !.refetch_level = v]
      BY DEF back
    <3> QED BY <1>11, <3>1 DEF Aside, SameTree, SameWalk, IsRec, SFields
  <2>3. Walk(at)
    BY <1>9, <1>11, <1>12 DEF Walk
  <2>4. Tree(back) /\ Walk(back)
    BY <1>12, <2>2, <2>3, AsideTree, AsideWalk
  <2> QED BY <2>1, <2>4 DEF DoneInv
<1>14. Beside(at, kept)
  <2>1. k \in Nodes /\ Tagged(k, wp.d)
    BY <1>4, <1>5, <1>7, NodeIs DEF k
  <2>2. PICK part : part = [x \in {k} |-> [lm |-> wp.lm, d |-> wp.d]]
    OBVIOUS
  <2>3. \A x \in {k} : Tagged(x, part[x].d)
    BY <2>1, <2>2
  <2>4. Beside(at, SetParts(at, {k}, part))
    BY <1>12, <2>1, <2>3, SetPartsBeside
  <2> QED BY <2>2, <2>4 DEF kept
<1>15. CASE ~(wp.lu < wp.lm) /\ l = 0
  <2>1. LevelDone(acc, l) = [go |-> FALSE, s |-> Completed(kept, wp)]
    BY <1>1, <1>15
  <2>2. Tree(Completed(kept, wp)) /\ Walk(Completed(kept, wp))
    BY <1>14, CompletedKeeps DEF Beside
  <2> QED BY <2>1, <2>2 DEF DoneInv
<1>16. CASE ~(wp.lu < wp.lm) /\ l # 0
  <2>1. l - 1 \in Levels /\ l > 0 /\ l - 1 # l
    BY <1>0, <1>16, LevelsShape
  <2>2. Tree(kept) /\ IsRec(kept, SFields) /\ SameWalk(at, kept)
    BY <1>14 DEF Beside, Tree, Partial
  <2>3. Aside(kept, b) /\ IsRec(b, SFields)
    BY <2>2, AssertedAside DEF b, Aside, SameTree
  <2>4. Tree(b) /\ SameWalk(at, b)
    BY <2>2, <2>3, AsideTree DEF Aside, SameWalk
  <2>5. Stale(b) /\ Above(b, l) /\ b.flevel = l /\ b.stalep[l] = w
    BY <1>11, <1>12, <2>4, SameWalkClimb DEF SameWalk
  <2>6. PICK z, y : z = [b.stalep EXCEPT ![l] = Front(w)] /\ y = [z EXCEPT ![l - 1] = Raise(z[l - 1], wp.lm)]
    OBVIOUS
  <2>7. popped = [b EXCEPT !.stalep = y]
    BY <2>1, <2>5, <2>6 DEF popped
  <2>8. IsRec(popped, SFields) /\ SameTree(b, popped) /\ popped.cowb = b.cowb /\ popped.flevel = l
        /\ popped.stalep = y
    BY <2>3, <2>5, <2>7 DEF IsRec, SFields, SameTree
  <2>9. Tree(popped)
    BY <2>4, <2>8, SameTreeTree DEF Tree, Partial
  <2>10. Stale(popped) /\ Above(popped, l)
    <3>1. z = [b.stalep EXCEPT ![l] = Front(b.stalep[l])] /\ b.stalep[l] # << >>
      BY <1>9, <2>5, <2>6
    <3>2. popped.stalep = [z EXCEPT ![l - 1] = Raise(z[l - 1], wp.lm)]
      BY <2>6, <2>8
    <3>3. Popped(b, popped, l, wp.lm)
      BY <3>1, <3>2 DEF Popped
    <3> QED BY <2>1, <2>5, <3>1, <3>3, PopStale
  <2>11. CASE popped.stalep[l] = << >>
    <3>1. LevelDone(acc, l) = [go |-> TRUE, s |-> popped]
      BY <1>1, <1>16, <2>11
    <3> QED BY <2>1, <2>9, <2>10, <3>1 DEF DoneInv
  <2>12. CASE popped.stalep[l] # << >>
    <3>1. LevelDone(acc, l) = [go |-> FALSE, s |-> next]
      BY <1>1, <1>16, <2>12
    <3>2. Walk(popped)
      BY <2>8, <2>10, <2>12 DEF Walk
    <3>3. Aside(popped, next)
      <4>1. PICK v : next = [popped EXCEPT !.refetch_level = v]
        BY DEF next
      <4> QED BY <2>8, <4>1 DEF Aside, SameTree, SameWalk, IsRec, SFields
    <3>4. Tree(next) /\ Walk(next)
      BY <2>9, <3>2, <3>3, AsideTree, AsideWalk
    <3> QED BY <3>1, <3>4 DEF DoneInv
  <2> QED BY <2>11, <2>12
<1> QED BY <1>13, <1>15, <1>16

doneStep(k, acc, l) == LevelDone(acc, l)
doneInv(k, i, acc) == DoneInv(acc, k - i)
DoneLoop == INSTANCE Foundations WITH op <- doneStep, inv <- doneInv

(* The calls of done_with_level() by itself are a loop ... *)
LEMMA DoneIsLoop ==
  ASSUME NEW k, NEW b, NEW q
  PROVE  FoldLeft(LevelDone, b, q) = DoneLoop!Fold(k, b, q)
BY DEF DoneLoop!Fold, doneStep, FoldLeft, MapThenFoldSet,
       DoneLoop!MapThenFoldSet, DoneLoop!Greatest, Max

(* ... that keeps the tree and the walk. *)
LEMMA DoneWithLevelKeeps ==
  ASSUME NEW s, Tree(s), s.flevel \in Levels, s.flevel > 0, Stale(s), Above(s, s.flevel)
  PROVE  Tree(done_with_level(s)) /\ Walk(done_with_level(s))
<1>1. PICK n, q, b : n = s.flevel /\ q = [j \in 1..n |-> n - j] /\ b = [go |-> TRUE, s |-> s]
  OBVIOUS
<1>2. n \in Nat /\ n > 0 /\ n <= Leaf /\ Leaf \in Nat
  BY <1>1, LevelsShape
<1>3. q \in Seq(Levels) /\ Len(q) = n /\ \A j \in 1..n : q[j] = n - j /\ n - j \in Levels /\ n - j < Leaf
  <2>1. \A j \in 1..n : n - j \in Levels /\ n - j < Leaf
    BY <1>2, LevelsShape
  <2> QED BY <1>1, <1>2, <2>1
<1>4. doneInv(n, 0, b)
  <2>1. DoneInv(b, n)
    BY <1>1 DEF DoneInv
  <2>2. n - 0 = n
    BY <1>2
  <2> QED BY <2>1, <2>2 DEF doneInv
<1>5. ASSUME NEW i \in 1..n, NEW acc, doneInv(n, i - 1, acc)
      PROVE  doneInv(n, i, doneStep(n, acc, q[i]))
  <2>1. PICK l \in Levels : l = n - i /\ l < Leaf
    BY <1>3
  <2>2. DoneInv(acc, l + 1)
    <3>1. n - (i - 1) = l + 1
      BY <1>2, <2>1
    <3> QED BY <1>5, <3>1 DEF doneInv
  <2>3. q[i] = l
    BY <1>3, <2>1
  <2>4. CASE acc.go
    BY <2>1, <2>2, <2>3, <2>4, LevelDoneKeeps DEF doneInv, doneStep
  <2>5. CASE ~acc.go
    <3>1. LevelDone(acc, l) = acc
      BY <2>5 DEF LevelDone
    <3> QED BY <2>1, <2>2, <2>3, <2>5, <3>1 DEF doneInv, doneStep, DoneInv
  <2> QED BY <2>4, <2>5
<1>6. PICK r : r = DoneLoop!Fold(n, b, q)
  OBVIOUS
<1>7. doneInv(n, n, r)
  BY <1>3, <1>4, <1>5, <1>6, DoneLoop!FoldKeeps
<1>8. Tree(r.s) /\ Walk(r.s)
  <2>1. n - n = 0
    BY <1>2
  <2> QED BY <1>7, <2>1 DEF doneInv, DoneInv
<1>9. done_with_level(s) = fetch_on(r.s)
  BY <1>1, <1>6, DoneIsLoop DEF done_with_level
<1> QED BY <1>8, <1>9, SendFetchKeeps DEF fetch_on

(* The next stale partition keeps the tree and the walk. *)
LEMMA ProceedKeeps ==
  ASSUME NEW s, Tree(s), s.flevel \in Levels, s.flevel > 0, Stale(s), Above(s, s.flevel)
  PROVE  Tree(proceed(s)) /\ Walk(proceed(s))
<1>1. CASE s.stalep[s.flevel] = << >>
  BY <1>1, DoneWithLevelKeeps DEF proceed
<1>2. CASE s.stalep[s.flevel] # << >>
  <2>1. Walk(s)
    BY <1>2 DEF Walk
  <2> QED BY <1>2, <2>1, SendFetchKeeps DEF proceed
<1> QED BY <1>1, <1>2

-----------------------------------------------------------------------------
(* The handlers *)

(* handle(Data) keeps the tree and the walk: the block has the digest      *)
(* accepted for it.                                                        *)
LEMMA HandleDataKeeps ==
  ASSUME NEW s, Tree(s), Walk(s), NEW m
  PROVE  Tree(handle_Data(s, m)) /\ Walk(handle_Data(s, m))
<1> DEFINE wp == High(s.stalep[Leaf])
           k == <<Leaf, wp.index>>
           put == SetParts(s, {k}, [x \in {k} |-> [lm |-> m.lm, d |-> wp.d]])
           up == Asserted(put, High(s.stalep[Leaf - 1]).index = ParentOf(k)[2], "parent")
           next == [up EXCEPT !.cowb = @ \cup {wp.index}, !.mem[wp.index] = m.data,
                              !.stalep[Leaf] = Front(@), !.stalep[Leaf - 1] = Raise(@, m.lm),
                              !.cert = NewCert]
<1>1. handle_Data(s, m) =
        IF ~(s.fetching /\ s.flevel = Leaf) THEN s
        ELSE IF m.index # wp.index THEN s
        ELSE IF wp.c < 0 \/ wp.d # Digest(wp.index, m.lm, m.data) THEN send_fetch(s, FALSE)
        ELSE proceed(next)
  BY Zenon DEF handle_Data
<1>2. Tree(send_fetch(s, FALSE)) /\ Walk(send_fetch(s, FALSE))
  BY SendFetchKeeps
<1> SUFFICES ASSUME s.fetching, s.flevel = Leaf, wp.d = Digest(wp.index, m.lm, m.data)
             PROVE  Tree(proceed(next)) /\ Walk(proceed(next))
  BY <1>1, <1>2
<1> HIDE DEF wp, k, put, up, next
<1>3. /\ Leaf \in Levels /\ Leaf > 0 /\ Stale(s) /\ Above(s, Leaf) /\ s.stalep[Leaf] # << >>
      /\ IsRec(s, SFields) /\ s.cowb \subseteq Blocks /\ Leaf - 1 # Leaf
  BY LevelsShape DEF Walk, Tree, Partial
<1>4. wp.index \in Indices(Leaf)
  BY <1>3, HighPart DEF wp, Stale
<1>5. k \in Nodes /\ Tagged(k, wp.d)
  <2>1. k \in Nodes /\ k[2] = wp.index
    BY <1>3, <1>4, NodeIs DEF k
  <2> QED BY <2>1, DigestTagged
<1>6. Beside(s, put)
  <2>1. PICK part : part = [x \in {k} |-> [lm |-> m.lm, d |-> wp.d]]
    OBVIOUS
  <2>2. \A x \in {k} : Tagged(x, part[x].d)
    BY <1>5, <2>1
  <2>3. Beside(s, SetParts(s, {k}, part))
    BY <1>5, <2>2, SetPartsBeside
  <2> QED BY <2>1, <2>3 DEF put
<1>7. Aside(put, up)
  BY <1>6, AssertedAside DEF up, Beside, Tree, Partial
<1>8. Tree(up) /\ SameWalk(s, up) /\ IsRec(up, SFields) /\ up.cowb \subseteq Blocks
  BY <1>6, <1>7, AsideTree DEF Aside, Beside, SameWalk, Tree, Partial
<1>9. PICK v, z, y, c :
        /\ v = [up.mem EXCEPT ![wp.index] = m.data]
        /\ z = [up.stalep EXCEPT ![Leaf] = Front(up.stalep[Leaf])]
        /\ y = [z EXCEPT ![Leaf - 1] = Raise(z[Leaf - 1], m.lm)]
        /\ c = up.cowb \cup {wp.index}
  OBVIOUS
<1>10. next.stalep = y
  BY <1>3, <1>8, <1>9 DEF next, IsRec, SFields
<1>11. IsRec(next, SFields) /\ SameTree(up, next) /\ next.cowb = c /\ next.flevel = up.flevel
  <2>1. IsRec(next, SFields)
    BY <1>8 DEF next, IsRec, SFields
  <2>2. next.cowb = c /\ next.flevel = up.flevel
    BY <1>8, <1>9 DEF next, IsRec, SFields
  <2>3. next.ptree = up.ptree /\ next.stree = up.stree
    BY <1>8 DEF next, IsRec, SFields
  <2> QED BY <2>1, <2>2, <2>3 DEF SameTree
<1>12. Tree(next)
  <2>1. c \subseteq Blocks
    BY <1>4, <1>8, <1>9 DEF Blocks
  <2> QED BY <1>8, <1>11, <2>1, SameTreeTree
<1>13. Stale(next) /\ Above(next, Leaf)
  <2>1. Popped(up, next, Leaf, m.lm)
    BY <1>9, <1>10 DEF Popped
  <2>2. Stale(up) /\ Above(up, Leaf) /\ up.stalep[Leaf] # << >>
    BY <1>3, <1>8, SameWalkClimb DEF SameWalk
  <2> QED BY <1>3, <2>1, <2>2, PopStale
<1>14. next.flevel = Leaf
  BY <1>8, <1>11 DEF SameWalk
<1> QED BY <1>3, <1>12, <1>13, <1>14, ProceedKeeps

(* Queueing a partition for the check is aside. *)
LEMMA ToCheckAside ==
  ASSUME NEW s, IsRec(s, SFields), NEW k
  PROVE  Aside(s, ToCheck(s, k))
<1>1. PICK v : ToCheck(s, k) = s \/ ToCheck(s, k) = [s EXCEPT !.to_check = v]
  BY DEF ToCheck
<1>2. Aside(s, s)
  BY DEF Aside, SameTree, SameWalk
<1>3. Aside(s, [s EXCEPT !.to_check = v])
  BY DEF Aside, SameTree, SameWalk, IsRec, SFields
<1> QED BY <1>1, <1>2, <1>3

(* The loop over the sub-parts of an answer. *)
subStep(k, t, i) == SubPart(t, k.wp, k.m, i)
subInv(k, i, t) ==
  /\ SameTree(k.a, t) /\ t.cowb = k.a.cowb /\ t.flevel = k.a.flevel /\ Stale(t)
  /\ \A j \in Levels : j <= k.m.level => t.stalep[j] = k.a.stalep[j]
SubLoop == INSTANCE Foundations WITH op <- subStep, inv <- subInv

subAll(wp, m, a) == FoldLeft(LAMBDA t, i : SubPart(t, wp, m, i), a, SubParts(m))

(* The sub-parts of an answer are handled by a loop ... *)
LEMMA SubIsLoop ==
  ASSUME NEW k, NEW wp, NEW m, NEW a, k.wp = wp, k.m = m
  PROVE  subAll(wp, m, a) = SubLoop!Fold(k, a, SubParts(m))
BY DEF subAll, SubLoop!Fold, subStep, FoldLeft, MapThenFoldSet,
       SubLoop!MapThenFoldSet, SubLoop!Greatest, Max

(* ... that adds stale partitions of the next level ... *)
LEMMA SubPartKeeps ==
  ASSUME NEW k, NEW j, NEW t, subInv(k, j, t), k.m.level \in Levels, k.m.level < Leaf,
         NEW i \in Indices(k.m.level + 1)
  PROVE  subInv(k, j + 1, subStep(k, t, i))
<1>0. PICK l \in Levels : l = k.m.level + 1 /\ l - 1 = k.m.level /\ \A n \in Levels : n <= k.m.level => n # l
  BY LevelsShape
<1>1. SameTree(k.a, t) /\ t.cowb = k.a.cowb /\ t.flevel = k.a.flevel /\ Stale(t) /\ IsRec(t, SFields)
  BY DEF subInv, SameTree
<1>2. PICK p : p = [index |-> i, lu |-> k.wp.lu, lm |-> t.ptree[<<l, i>>].lm, c |-> k.wp.c, d |-> k.m.parts[i]]
  OBVIOUS
<1>3. PICK q, u : q = Append(t.stalep[l], p) /\ u = [t EXCEPT !.stalep = [t.stalep EXCEPT ![l] = q]]
  OBVIOUS
<1>4. subStep(k, t, i) = ToCheck(t, <<l, i>>) \/ subStep(k, t, i) = u
  BY <1>0, <1>2, <1>3 DEF subStep, SubPart
<1>5. subInv(k, j + 1, ToCheck(t, <<l, i>>))
  <2>1. Aside(t, ToCheck(t, <<l, i>>))
    BY <1>1, ToCheckAside
  <2> QED BY <2>1, SameWalkClimb DEF Aside, SameTree, SameWalk, subInv
<1>6. subInv(k, j + 1, u)
  <2>1. IsRec(p, PFields) /\ p.index \in Indices(l)
    BY <1>0, <1>2 DEF IsRec, PFields
  <2>2. Parts(l, q)
    BY <1>1, <1>3, <2>1, AppendedParts DEF Stale
  <2>3. PICK z : z = [t.stalep EXCEPT ![l] = q]
    OBVIOUS
  <2>4. SameTree(t, u) /\ u.cowb = t.cowb /\ u.flevel = t.flevel /\ u.stalep = z
    BY <1>1, <1>3, <2>3 DEF SameTree, IsRec, SFields
  <2>5. StaleSet(t, u, l, q)
    BY <1>1, <2>2, <2>3, <2>4, StaleAt
  <2> QED BY <1>0, <1>1, <2>4, <2>5 DEF subInv, StaleSet, SameTree
<1> QED BY <1>4, <1>5, <1>6

(* ... within that level. *)
LEMMA SubPartsIs ==
  ASSUME NEW m, m.level \in Levels, m.level < Leaf, m.index \in Indices(m.level)
  PROVE  SubParts(m) \in Seq(Indices(m.level + 1))
<1>1. PICK l \in Levels : l = m.level + 1
  BY LevelsShape
<1>2. PICK n, first, size :
        n = PSize[l] /\ first = m.index * n /\ size = LevelSize(l) - first
  OBVIOUS
<1>3. PICK c : c = IF size < n THEN size ELSE n
  OBVIOUS
<1>4. n \in Nat /\ LevelSize(l) \in Nat /\ m.index \in Nat
  BY <1>2, LevelsShape, LevelSizes, PartitionAssumption, NodeIs DEF LevelSize
<1>5. first \in Nat
  BY <1>2, <1>4, Z3
<1>6. c \in Int /\ c <= LevelSize(l) - first
  BY <1>2, <1>3, <1>4, <1>5
<1>7. SubParts(m) = [j \in 1..c |-> first + j - 1]
  BY <1>1, <1>2, <1>3 DEF SubParts
<1>8. \A j \in 1..c : first + j - 1 \in Indices(l)
  BY <1>4, <1>5, <1>6 DEF Indices
<1>9. CASE c >= 0
  BY <1>1, <1>6, <1>7, <1>8, <1>9
<1>10. CASE c < 0
  <2>1. 1..c = 1..0
    BY <1>6, <1>10
  <2>2. SubParts(m) = << >>
    BY <1>7, <2>1
  <2> QED BY <2>2
<1> QED BY <1>6, <1>9, <1>10

(* handle(Meta_data) keeps the tree and the walk: the partition it steps   *)
(* into has an accepted digest.                                            *)
LEMMA HandleMetaDataKeeps ==
  ASSUME NEW s, Tree(s), Walk(s), NEW m
  PROVE  Tree(handle_Meta_data(s, m)) /\ Walk(handle_Meta_data(s, m))
<1> DEFINE l == m.level
           wp == High(s.stalep[l])
           top == [s EXCEPT !.stalep[l] = [@ EXCEPT ![Len(@)].lm = m.lm], !.flevel = l + 1]
           a == Asserted(top, s.stalep[l + 1] = <<>>, "handle_Meta_data")
           sub == subAll(wp, m, a)
           all == [sub EXCEPT !.cert = NewCert]
<1>1. handle_Meta_data(s, m) =
        IF ~(s.fetching /\ s.flevel < Leaf /\ s.flevel = l) THEN s
        ELSE IF ~(wp.index = m.index /\ wp.c >= 0 /\ m.d = wp.d) THEN s
        ELSE IF ~(m.lm <= m.lu /\ check_digest(s, wp.d, m)) THEN s
        ELSE proceed(all)
  BY Zenon DEF handle_Meta_data, subAll
<1> SUFFICES ASSUME s.fetching, s.flevel < Leaf, s.flevel = l, wp.index = m.index, check_digest(s, wp.d, m)
             PROVE  Tree(proceed(all)) /\ Walk(proceed(all))
  BY <1>1
<1> HIDE DEF wp, top, a, sub, all, l
<1>2. /\ l \in Levels /\ l < Leaf /\ Stale(s) /\ Above(s, l) /\ s.stalep[l] # << >>
      /\ IsRec(s, SFields) /\ s.cowb \subseteq Blocks
  BY DEF Walk, Tree, Partial
<1>3. l \in Nat /\ l + 1 \in Levels /\ l + 1 > 0 /\ \A j \in Levels : j < l + 1 <=> j <= l
  BY <1>2, LevelsShape
<1>4. PICK q : q = s.stalep[l]
  OBVIOUS
<1>5. Parts(l, q) /\ q # << >> /\ High(q) = wp /\ IsRec(wp, PFields) /\ wp.index \in Indices(l) /\ wp = q[Len(q)]
  BY <1>2, <1>4, HighPart, SeqLast DEF Stale, wp, Parts
<1>6. Tagged(<<l, wp.index>>, wp.d)
  <2>1. PICK x : wp.d = Digest(m.index, m.lm, x)
    BY DEF check_digest
  <2>2. <<l, wp.index>>[2] = m.index
    OBVIOUS
  <2> QED BY <2>1, <2>2, DigestTagged
<1>7. PICK p, r : p = [q[Len(q)] EXCEPT !.lm = m.lm] /\ r = [q EXCEPT ![Len(q)] = p]
  OBVIOUS
<1>8. IsRec(p, PFields) /\ p.index = wp.index /\ p.d = wp.d
  BY <1>5, <1>7 DEF IsRec, PFields
<1>9. Parts(l, r) /\ r # << >> /\ High(r) = p
  <2>1. p.index \in Indices(l)
    BY <1>5, <1>8
  <2>2. LastSet(q, r, p)
    BY <1>7 DEF LastSet
  <2>3. Parts(l, q) /\ q # << >> /\ IsRec(p, PFields)
    BY <1>5, <1>8
  <2> QED BY <2>1, <2>2, <2>3, LastParts
<1>10. IsRec(top, SFields) /\ SameTree(s, top) /\ top.cowb = s.cowb /\ top.flevel = l + 1
  BY <1>2 DEF top, IsRec, SFields, SameTree
<1>11. top.stalep = [s.stalep EXCEPT ![l] = r]
  <2>1. r = [q EXCEPT ![Len(q)].lm = m.lm]
    BY <1>7
  <2>2. top = [s EXCEPT !.stalep = [s.stalep EXCEPT ![l] = [s.stalep[l] EXCEPT ![Len(s.stalep[l])].lm = m.lm]],
                        !.flevel = l + 1]
    BY DEF top
  <2>3. PICK z : z = [s.stalep EXCEPT ![l] = [s.stalep[l] EXCEPT ![Len(s.stalep[l])].lm = m.lm]]
    OBVIOUS
  <2>4. top.stalep = z
    BY <1>2, <2>2, <2>3 DEF IsRec, SFields
  <2> QED BY <1>4, <2>1, <2>3, <2>4, Zenon
<1>12. StaleSet(s, top, l, r)
  BY <1>2, <1>9, <1>11, StaleAt
<1>13. Aside(top, a)
  BY <1>10, AssertedAside DEF a
<1>14. Tree(a) /\ Stale(a) /\ a.flevel = l + 1 /\ Above(a, l + 1) /\ IsRec(a, SFields)
  <2>1. Tree(top)
    BY <1>2, <1>10, SameTreeTree
  <2>2. Above(top, l + 1)
    <3> SUFFICES ASSUME NEW j \in Levels, j < l + 1
                 PROVE  /\ top.stalep[j] # << >>
                        /\ Tagged(<<j, High(top.stalep[j]).index>>, High(top.stalep[j]).d)
      BY DEF Above
    <3>1. CASE j = l
      BY <1>6, <1>8, <1>9, <1>12, <3>1 DEF StaleSet
    <3>2. CASE j # l
      <4>1. j < l
        BY <1>3, <3>2, LevelsShape
      <4> QED BY <1>2, <1>12, <3>2, <4>1 DEF StaleSet, Above
    <3> QED BY <3>1, <3>2
  <2>3. Stale(top)
    BY <1>12 DEF StaleSet
  <2>4. SameWalk(top, a)
    BY <1>13 DEF Aside
  <2> QED BY <1>10, <1>13, <2>1, <2>2, <2>3, <2>4, AsideTree, SameWalkClimb DEF SameWalk, Tree, Partial
<1>15. PICK k : k = [wp |-> wp, m |-> m, a |-> a]
  OBVIOUS
<1>16. k.wp = wp /\ k.m = m /\ k.a = a /\ k.m.level = l
  BY <1>15 DEF l
<1>17. subInv(k, 0, a)
  BY <1>14, <1>16 DEF subInv, SameTree
<1>18. SubParts(m) \in Seq(Indices(l + 1))
  BY <1>2, <1>5, SubPartsIs DEF l
<1>19. ASSUME NEW i \in 1..Len(SubParts(m)), NEW t, subInv(k, i - 1, t)
       PROVE  subInv(k, i, subStep(k, t, SubParts(m)[i]))
  <2>1. SubParts(m)[i] \in Indices(l + 1) /\ i \in Int
    BY <1>18, <1>19, ElementOfSeq
  <2>2. PICK e \in Indices(k.m.level + 1) : e = SubParts(m)[i]
    BY <1>16, <2>1
  <2>3. subInv(k, (i - 1) + 1, subStep(k, t, e))
    BY <1>2, <1>16, <1>19, SubPartKeeps
  <2>4. (i - 1) + 1 = i
    BY <2>1
  <2> QED BY <2>2, <2>3, <2>4
<1>20. subInv(k, Len(SubParts(m)), sub)
  <2>1. sub = SubLoop!Fold(k, a, SubParts(m))
    BY <1>16, SubIsLoop DEF sub
  <2> QED BY <1>17, <1>18, <1>19, <2>1, SubLoop!FoldKeeps
<1>21. /\ SameTree(a, sub) /\ sub.cowb = a.cowb /\ sub.flevel = l + 1 /\ Stale(sub)
       /\ \A j \in Levels : j <= l => sub.stalep[j] = a.stalep[j]
  BY <1>14, <1>16, <1>20 DEF subInv
<1>22. Tree(sub) /\ IsRec(sub, SFields) /\ Above(sub, l + 1)
  <2>1. Tree(sub)
    BY <1>14, <1>21, SameTreeTree DEF Tree, Partial
  <2>2. Above(sub, l + 1)
    BY <1>3, <1>14, <1>21 DEF Above
  <2> QED BY <2>1, <2>2 DEF Tree, Partial
<1>23. Aside(sub, all)
  BY <1>22 DEF all, Aside, SameTree, SameWalk, IsRec, SFields
<1>24. Tree(all) /\ Stale(all) /\ Above(all, l + 1) /\ all.flevel = l + 1
  <2>1. SameWalk(sub, all)
    BY <1>23 DEF Aside
  <2> QED BY <1>21, <1>22, <1>23, <2>1, AsideTree, SameWalkClimb DEF SameWalk
<1> QED BY <1>3, <1>24, ProceedKeeps

Valued(s, t, d) ==
  /\ Tree(t) /\ Walk(t) /\ t.fetching = s.fetching /\ t.flevel = s.flevel
  /\ High(t.stalep[t.flevel]).index = High(s.stalep[s.flevel]).index
  /\ High(t.stalep[t.flevel]).d = d /\ t.ptree = s.ptree

(* The value of the certificate is put in the stale partition. *)
LEMMA WithValueKeeps ==
  ASSUME NEW s, Tree(s), Walk(s), s.fetching, NEW v
  PROVE  Valued(s, with_value(s, v), v.d)
<1>1. PICK l, t : l = s.flevel /\ t = with_value(s, v)
  OBVIOUS
<1>2. PICK q : q = s.stalep[l]
  OBVIOUS
<1>3. /\ l \in Levels /\ Stale(s) /\ Above(s, l) /\ q # << >> /\ Parts(l, q)
      /\ IsRec(s, SFields) /\ s.cowb \subseteq Blocks
  BY <1>1, <1>2 DEF Walk, Stale, Tree, Partial
<1>4. IsRec(q[Len(q)], PFields) /\ q[Len(q)].index \in Indices(l) /\ High(q) = q[Len(q)]
  BY <1>3, HighPart, SeqLast DEF Parts
<1>5. PICK p, r : p = [High(q) EXCEPT !.c = v.c, !.d = v.d] /\ r = [q EXCEPT ![Len(q)] = p]
  OBVIOUS
<1>6. IsRec(p, PFields) /\ p.index = High(q).index /\ p.d = v.d
  BY <1>4, <1>5 DEF IsRec, PFields
<1>7. Parts(l, r) /\ r # << >> /\ High(r) = p
  <2>1. p.index \in Indices(l)
    BY <1>4, <1>6
  <2>2. LastSet(q, r, p)
    BY <1>5 DEF LastSet
  <2>3. Parts(l, q) /\ q # << >> /\ IsRec(p, PFields)
    BY <1>3, <1>6
  <2> QED BY <2>1, <2>2, <2>3, LastParts
<1>8. PICK z : z = [s.stalep EXCEPT ![l] = r]
  OBVIOUS
<1>9. t.stalep = z
  <2>1. t = [s EXCEPT !.cert = NewCert, !.stalep[l] = r]
    BY <1>1, <1>2, <1>5, Zenon DEF with_value
  <2>2. [s EXCEPT !.cert = NewCert, !.stalep[l] = r].stalep = [s.stalep EXCEPT ![l] = r]
    BY <1>3 DEF IsRec, SFields
  <2> QED BY <1>8, <2>1, <2>2
<1>10. /\ IsRec(t, SFields) /\ SameTree(s, t) /\ t.cowb = s.cowb /\ t.stalep = z
       /\ t.fetching = s.fetching /\ t.flevel = l
  <2>1. IsRec(t, SFields)
    BY <1>1, <1>3 DEF with_value, IsRec, SFields
  <2>2. t.ptree = s.ptree /\ t.stree = s.stree /\ t.cowb = s.cowb
    BY <1>1, <1>3 DEF with_value, IsRec, SFields
  <2>3. t.fetching = s.fetching /\ t.flevel = l
    BY <1>1, <1>3 DEF with_value, IsRec, SFields
  <2> QED BY <1>9, <2>1, <2>2, <2>3 DEF SameTree
<1>11. Tree(t)
  BY <1>3, <1>10, SameTreeTree
<1>12. StaleSet(s, t, l, r)
  BY <1>3, <1>7, <1>8, <1>10, StaleAt
<1>13. Above(t, l)
  <2>1. \A j \in Levels : j < l => j # l
    BY <1>3, LevelsShape
  <2> QED BY <1>3, <1>12, <2>1 DEF StaleSet, Above
<1>14. Walk(t)
  BY <1>3, <1>7, <1>10, <1>12, <1>13 DEF Walk, StaleSet
<1>15. t.stalep[t.flevel] = r /\ t.ptree = s.ptree
  BY <1>10, <1>12 DEF StaleSet, SameTree
<1> QED BY <1>1, <1>2, <1>6, <1>7, <1>10, <1>11, <1>14, <1>15 DEF Valued

(* A partition that turns out to be up to date has its own digest. *)
LEMMA UpToDateKeeps ==
  ASSUME NEW s, Tree(s), Walk(s), s.fetching,
         High(s.stalep[s.flevel]).d = s.ptree[<<s.flevel, High(s.stalep[s.flevel]).index>>].d
  PROVE  Tree(UpToDate(s)) /\ Walk(UpToDate(s))
<1> DEFINE l == s.flevel
           t == ToCheck(s, <<l, High(s.stalep[l]).index>>)
           next == IF l = 0 THEN [t EXCEPT !.flevel = 1] ELSE [t EXCEPT !.stalep[l] = Front(@)]
<1>1. UpToDate(s) = IF l = 0 \/ Len(s.stalep[l]) = 1 THEN done_with_level(next) ELSE next
  BY Zenon DEF UpToDate
<1>2. /\ l \in Levels /\ Stale(s) /\ Above(s, l) /\ s.stalep[l] # << >> /\ Parts(l, s.stalep[l])
      /\ IsRec(s, SFields) /\ s.cowb \subseteq Blocks
  BY DEF Walk, Stale, Tree, Partial
<1>3. Aside(s, t)
  BY <1>2, ToCheckAside
<1> HIDE DEF t, next
<1>4. Tree(t) /\ SameWalk(s, t) /\ IsRec(t, SFields) /\ t.cowb \subseteq Blocks
  BY <1>3, AsideTree DEF Aside, Tree, Partial
<1>5. /\ Stale(t) /\ Above(t, l) /\ t.flevel = l /\ t.stalep = s.stalep
  BY <1>2, <1>4, SameWalkClimb DEF SameWalk
<1>6. CASE l = 0
  <2>1. next = [t EXCEPT !.flevel = 1]
    BY <1>6 DEF next
  <2>2. SameTree(t, next) /\ next.cowb = t.cowb /\ next.flevel = 1 /\ next.stalep = t.stalep
    BY <1>4, <2>1 DEF SameTree, IsRec, SFields
  <2>3. Tree(next) /\ Stale(next)
    BY <1>4, <1>5, <2>2, SameTreeTree DEF Stale
  <2>4. PICK q : q = s.stalep[0]
    OBVIOUS
  <2>5. High(q).index = 0 /\ High(q).d = s.ptree[<<0, 0>>].d
    <3>1. High(q).index \in Indices(0)
      BY <1>2, <1>6, <2>4, HighPart
    <3>2. Indices(0) = 0..0
      BY LevelsShape, LevelSizes DEF Indices, LevelSize
    <3>3. High(q).index = 0
      BY <3>1, <3>2
    <3> QED BY <1>6, <2>4, <3>3
  <2>6. Tagged(<<0, 0>>, s.ptree[<<0, 0>>].d)
    BY DEF Tree, Partial
  <2>7. Above(next, 1)
    <3>1. \A j \in Levels : j < 1 => j = 0
      BY LevelsShape
    <3> QED BY <1>2, <1>5, <1>6, <2>2, <2>4, <2>5, <2>6, <3>1 DEF Above
  <2>8. 1 \in Levels /\ 1 > 0
    BY LevelsShape
  <2>9. Tree(done_with_level(next)) /\ Walk(done_with_level(next))
    BY <2>2, <2>3, <2>7, <2>8, DoneWithLevelKeeps
  <2> QED BY <1>1, <1>6, <2>9
<1>7. CASE l # 0
  <2>1. l > 0
    BY <1>2, <1>7, LevelsShape
  <2>2. PICK q, z : q = Front(s.stalep[l]) /\ z = [t.stalep EXCEPT ![l] = q]
    OBVIOUS
  <2>3. next = [t EXCEPT !.stalep = z]
    BY <1>5, <1>7, <2>2 DEF next
  <2>4. /\ SameTree(t, next) /\ next.cowb = t.cowb /\ next.flevel = l /\ next.stalep = z
        /\ next.fetching = t.fetching
    BY <1>4, <1>5, <2>3 DEF SameTree, IsRec, SFields
  <2>5. Tree(next)
    BY <1>4, <2>4, SameTreeTree
  <2>6. StaleSet(t, next, l, q)
    <3>1. Parts(l, q)
      BY <1>2, <2>2, FrontParts
    <3> QED BY <1>2, <1>5, <2>2, <2>4, <3>1, StaleAt
  <2>7. Stale(next) /\ Above(next, l)
    <3>1. \A j \in Levels : j < l => j # l
      BY <1>2, LevelsShape
    <3> QED BY <1>5, <2>6, <3>1 DEF StaleSet, Above
  <2>8. CASE Len(s.stalep[l]) = 1
    <3>1. Tree(done_with_level(next)) /\ Walk(done_with_level(next))
      BY <1>2, <2>1, <2>4, <2>5, <2>7, DoneWithLevelKeeps
    <3> QED BY <1>1, <2>8, <3>1
  <2>9. CASE Len(s.stalep[l]) # 1
    <3>1. q # << >>
      BY <1>2, <2>2, <2>9, FrontParts
    <3>2. Walk(next)
      BY <1>2, <2>4, <2>6, <2>7, <3>1 DEF Walk, StaleSet
    <3> QED BY <1>1, <1>7, <2>5, <2>9, <3>2
  <2> QED BY <2>8, <2>9
<1> QED BY <1>6, <1>7

(* handle(Meta_data_d) keeps the tree and the walk. *)
LEMMA HandleDigestsKeeps ==
  ASSUME NEW s, Tree(s), Walk(s), NEW m
  PROVE  Tree(handle_Meta_data_d(s, m)) /\ Walk(handle_Meta_data_d(s, m))
<1>1. PICK r : r = add(s.cert, [id |-> m.id, ls |-> m.ls, digests |-> m.digests], FALSE)
  OBVIOUS
<1>2. /\ handle_Meta_data_d(s, m) = s \/ handle_Meta_data_d(s, m) = after_answer(s, r)
      /\ handle_Meta_data_d(s, m) = after_answer(s, r) => handle_Meta_data_d(s, m) = s \/ s.fetching
  BY <1>1 DEF handle_Meta_data_d
<1> SUFFICES ASSUME s.fetching
             PROVE  Tree(after_answer(s, r)) /\ Walk(after_answer(s, r))
  BY <1>2
<1>3. PICK v, c : v = cvalue(r.cert) /\ c = r.cert
  OBVIOUS
<1>4. PICK w : w = with_value(s, v)
  OBVIOUS
<1>5. /\ Tree(w) /\ Walk(w) /\ w.fetching /\ w.flevel = s.flevel /\ w.ptree = s.ptree
      /\ High(w.stalep[w.flevel]).index = High(s.stalep[s.flevel]).index
      /\ High(w.stalep[w.flevel]).d = v.d
  <2>1. Valued(s, w, v.d)
    BY <1>4, WithValueKeeps
  <2> QED BY <2>1 DEF Valued
<1>6. CASE ~r.added \/ v = NoValue
  <2>1. PICK t : t = [s EXCEPT !.cert = c]
    OBVIOUS
  <2>2. after_answer(s, r) = t
    BY <1>3, <1>6, <2>1 DEF after_answer
  <2>3. Aside(s, t)
    BY <2>1 DEF Tree, Partial, Aside, SameTree, SameWalk, IsRec, SFields
  <2> QED BY <2>2, <2>3, AsideTree, AsideWalk
<1>7. CASE ~(~r.added \/ v = NoValue) /\ v.d = s.ptree[<<s.flevel, High(s.stalep[s.flevel]).index>>].d
  <2>1. after_answer(s, r) = UpToDate(w)
    BY <1>3, <1>4, <1>7 DEF after_answer
  <2>2. High(w.stalep[w.flevel]).d = w.ptree[<<w.flevel, High(w.stalep[w.flevel]).index>>].d
    BY <1>5, <1>7
  <2> QED BY <1>5, <2>1, <2>2, UpToDateKeeps
<1>8. CASE ~(~r.added \/ v = NoValue) /\ v.d # s.ptree[<<s.flevel, High(s.stalep[s.flevel]).index>>].d
  <2>1. after_answer(s, r) = send_fetch(w, TRUE)
    BY <1>3, <1>4, <1>8 DEF after_answer
  <2> QED BY <1>5, <2>1, SendFetchKeeps
<1> QED BY <1>6, <1>7, <1>8

-----------------------------------------------------------------------------
(* Answers and the check of the state *)

(* The walk depends on its fields only. *)
LEMMA SameWalkWalk ==
  ASSUME NEW s, NEW t, Walk(s), SameWalk(s, t)
  PROVE  Walk(t)
BY DEF Walk, Stale, Above, SameWalk

(* The answers are of three kinds. *)
LEMMA AnswerTags ==
  ASSUME NEW fe, NEW m \in Answers(fe)
  PROVE  m.tag \in {"Data", "Meta_data", "Meta_data_d"}
<1>1. /\ \A i, lm, v : Data(i, lm, v).tag = "Data"
      /\ \A l, i, id, ls, ds : Meta_data_d(l, i, id, ls, ds).tag = "Meta_data_d"
      /\ \A l, i, lu, lm, d, ps : Meta_data(l, i, lu, lm, d, ps).tag = "Meta_data"
  BY DEF Data, Meta_data, Meta_data_d
<1>2. CASE m \in FaultyAnswers(fe)
  <2>1. \/ \E i, lm, v : m = Data(i, lm, v)
        \/ \E l, i, id, ls, ds : m = Meta_data_d(l, i, id, ls, ds)
    BY <1>2, Zenon DEF FaultyAnswers
  <2> QED BY <1>1, <2>1
<1>3. CASE m \notin FaultyAnswers(fe)
  <2>1. PICK s, ls, r : m \in handle_Fetch(s, ls, r, fe)
    BY <1>3 DEF Answers
  <2>2. \/ \E i, lm, v : m = Data(i, lm, v)
        \/ \E l, i, lu, lm, d, ps : m = Meta_data(l, i, lu, lm, d, ps)
        \/ \E l, i, id, ls0, ds : m = Meta_data_d(l, i, id, ls0, ds)
    BY <2>1, Zenon DEF handle_Fetch
  <2> QED BY <1>1, <2>2
<1> QED BY <1>2, <1>3

(* Every answer, of a correct or a faulty replica, keeps the tree and the  *)
(* walk.                                                                   *)
LEMMA HandleKeeps ==
  ASSUME NEW s, Tree(s), Walk(s), NEW fe, NEW m \in Answers(fe)
  PROVE  Tree(handle(s, m)) /\ Walk(handle(s, m))
<1>1. \/ handle(s, m) = handle_Data(s, m)
      \/ handle(s, m) = handle_Meta_data(s, m)
      \/ handle(s, m) = handle_Meta_data_d(s, m)
  BY AnswerTags DEF handle
<1> QED BY <1>1, HandleDataKeeps, HandleMetaDataKeeps, HandleDigestsKeeps

(* mark_stale() keeps them. *)
LEMMA MarkStaleKeeps ==
  ASSUME NEW s, Tree(s), Walk(s)
  PROVE  Tree(mark_stale(s)) /\ Walk(mark_stale(s))
<1>1. IsRec(s, SFields)
  BY DEF Tree, Partial
<1>2. Aside(s, mark_stale(s))
  BY <1>1 DEF mark_stale, Aside, SameTree, SameWalk, IsRec, SFields
<1> QED BY <1>2, AsideTree, AsideWalk

(* check_state() keeps them. *)
LEMMA CheckStateKeeps ==
  ASSUME NEW s, Tree(s), Walk(s)
  PROVE  Tree(check_state(s)) /\ Walk(check_state(s))
<1>1. IsRec(s, SFields)
  BY DEF Tree, Partial
<1>2. PICK b, v, w : check_state(s) = [Asserted(s, b, "corrupt") EXCEPT
                       !.to_check = <<>>, !.checking = v, !.refetch_level = w]
  BY Zenon DEF check_state
<1>3. PICK a : a = Asserted(s, b, "corrupt")
  OBVIOUS
<1>4. Aside(s, a) /\ IsRec(a, SFields)
  BY <1>1, <1>3, AssertedAside DEF Aside, SameTree
<1>5. PICK t : t = [a EXCEPT !.to_check = <<>>, !.checking = v, !.refetch_level = w]
  OBVIOUS
<1>6. Aside(a, t)
  BY <1>4, <1>5 DEF Aside, SameTree, SameWalk, IsRec, SFields
<1>7. Aside(s, t) /\ check_state(s) = t
  BY <1>2, <1>3, <1>4, <1>5, <1>6, AsideMore
<1> QED BY <1>7, AsideTree, AsideWalk

(* start_check() keeps them, whatever the memory holds. *)
LEMMA StartCheckKeeps ==
  ASSUME NEW s, Tree(s), Walk(s), NEW B, NEW le, NEW r
  PROVE  LET t == start_check(Corrupt(s, B), le, r) IN Tree(t) /\ Walk(t)
<1>1. PICK v, a : a = [s EXCEPT !.mem = v] /\ Corrupt(s, B) = a
  BY DEF Corrupt
<1>2. Tree(a) /\ SameWalk(s, a) /\ IsRec(a, SFields)
  BY <1>1, MemoryLevel, LevelTree DEF Tree, Partial
<1>3. Walk(a)
  BY <1>2, SameWalkWalk
<1>4. PICK t : t = [a EXCEPT !.checking = TRUE, !.refetch_level = PLevels, !.check_start = a.lc]
  OBVIOUS
<1>5. Aside(a, t)
  BY <1>2, <1>4 DEF Aside, SameTree, SameWalk, IsRec, SFields
<1>6. Tree(t) /\ Walk(t)
  BY <1>2, <1>3, <1>5, AsideTree, AsideWalk
<1>7. start_check(a, le, r) = start_fetch(t, le, -1, NoDigest, r)
  BY <1>4 DEF start_check
<1> QED BY <1>1, <1>6, <1>7, StartFetchKeeps

-----------------------------------------------------------------------------
(* The operations of the replica *)

(* The execution of a batch keeps the tree. *)
LEMMA BatchTree ==
  ASSUME NEW s, Tree(s), NEW n \in 1..MaxSeqno
  PROVE  LET t == Batch(s, n) IN Tree(t) /\ SameWalk(s, t) /\ t.lc = s.lc
<1>1. Writes[n] \in SUBSET Blocks
  BY TransferAssumption
<1> QED BY <1>1, WriteTree DEF Batch

(* execute_prepared() keeps the invariant of the replica. *)
LEMMA ExecuteGood ==
  ASSUME NEW x, Good(x), NEW alt, x.le + 1 \in 1..MaxSeqno
  PROVE  Good(execute_prepared(x, alt))
<1>1. PICK n, d : n = x.le + 1 /\ d = IF alt THEN Write(x.st, Blocks, -n) ELSE Batch(x.st, n)
  OBVIOUS
<1>2. IsRec(x, OFields) /\ Tree(x.st) /\ Walk(x.st) /\ n \in 1..MaxSeqno
  BY <1>1 DEF Good
<1>3. Tree(d) /\ SameWalk(x.st, d)
  <2>1. Blocks \in SUBSET Blocks
    OBVIOUS
  <2> QED BY <1>1, <1>2, <2>1, BatchTree, WriteTree
<1>4. PICK s : s = IF n % checkpoint_interval = 0 THEN checkpoint(d, n) ELSE d
  OBVIOUS
<1>5. Tree(s) /\ SameWalk(d, s)
  BY <1>3, <1>4, CheckpointTree DEF SameWalk
<1>6. Walk(s)
  BY <1>2, <1>3, <1>5, SameWalkWalk
<1>7. PICK y : y = [x EXCEPT !.lte = n, !.alt = alt, !.st = s]
  OBVIOUS
<1>8. execute_prepared(x, alt) = y
  BY <1>1, <1>4, <1>7, Zenon DEF execute_prepared
<1>9. IsRec(y, OFields) /\ y.st = s
  BY <1>2, <1>7 DEF IsRec, OFields
<1> QED BY <1>5, <1>6, <1>8, <1>9 DEF Good

(* So does mark_stable(). *)
LEMMA MarkStableGood ==
  ASSUME NEW x, Good(x), NEW n
  PROVE  Good(mark_stable(x, n))
<1>1. PICK s, y : s = discard_checkpoint(x.st, n, x.le) /\ y = [x EXCEPT !.ls = n, !.st = s]
  OBVIOUS
<1>2. mark_stable(x, n) = x \/ mark_stable(x, n) = y
  BY <1>1 DEF mark_stable
<1>3. IsRec(x, OFields) /\ Tree(x.st) /\ Walk(x.st)
  BY DEF Good
<1>4. Tree(s) /\ Walk(s)
  BY <1>1, <1>3, DiscardTree, SameWalkWalk
<1>5. IsRec(y, OFields) /\ y.st = s
  BY <1>1, <1>3 DEF IsRec, OFields
<1> QED BY <1>2, <1>4, <1>5 DEF Good

(* So does a rollback. *)
LEMMA RolledBackGood ==
  ASSUME NEW x, Good(x)
  PROVE  Good(RolledBack(x))
<1>1. PICK s, y : s = rollback(x.st) /\ y = [x EXCEPT !.st = s, !.le = s.lc, !.lte = s.lc, !.alt = FALSE]
  OBVIOUS
<1>2. RolledBack(x) = x \/ RolledBack(x) = y
  BY <1>1 DEF RolledBack
<1>3. IsRec(x, OFields) /\ Tree(x.st) /\ Walk(x.st)
  BY DEF Good
<1>4. Tree(s) /\ Walk(s)
  BY <1>1, <1>3, RollbackTree, SameWalkWalk
<1>5. IsRec(y, OFields) /\ y.st = s
  BY <1>1, <1>3 DEF IsRec, OFields
<1> QED BY <1>2, <1>4, <1>5 DEF Good

(* Another State in the record. *)
LEMMA PutState ==
  ASSUME NEW x, Good(x), NEW s, Tree(s), Walk(s), NEW y, y = [x EXCEPT !.st = s]
  PROVE  Good(y)
<1>1. IsRec(y, OFields) /\ y.st = s
  BY DEF Good, IsRec, OFields
<1> QED BY <1>1 DEF Good

(* So does the start of a fetch. *)
LEMMA FetchAnyGood ==
  ASSUME NEW x, Good(x), NEW r
  PROVE  Good(FetchAny(x, r))
<1>1. PICK s : s = start_fetch(x.st, x.le, -1, NoDigest, r)
  OBVIOUS
<1>2. Tree(s) /\ Walk(s)
  BY <1>1, StartFetchKeeps DEF Good
<1>3. FetchAny(x, r) = [x EXCEPT !.st = s]
  BY <1>1, Zenon DEF FetchAny
<1> QED BY <1>2, <1>3, PutState

(* So does the start of a check. *)
LEMMA CheckFromGood ==
  ASSUME NEW x, Good(x), NEW B, NEW r
  PROVE  Good(CheckFrom(x, B, r))
<1>1. PICK s, y : s = start_check(Corrupt(x.st, B), x.le, r) /\ y = [x EXCEPT !.st = s, !.checked = TRUE]
  OBVIOUS
<1>2. Tree(s) /\ Walk(s)
  BY <1>1, StartCheckKeeps DEF Good
<1>3. CheckFrom(x, B, r) = y
  BY <1>1, Zenon DEF CheckFrom
<1>4. IsRec(y, OFields) /\ y.st = s
  BY <1>1 DEF Good, IsRec, OFields
<1> QED BY <1>2, <1>3, <1>4 DEF Good

(* So does new_state(). *)
LEMMA NewStateGood ==
  ASSUME NEW x, Good(x), NEW c, NEW stable
  PROVE  Good(new_state(x, c, stable))
<1>1. PICK w, y, z : /\ w = [x EXCEPT !.le = c, !.lte = c]
                     /\ y = IF c <= x.le THEN x ELSE w
                     /\ z = IF c > x.le /\ c > x.ls + max_out THEN mark_stable(y, c - max_out) ELSE y
  OBVIOUS
<1>2. Good(w)
  <2>1. IsRec(w, OFields) /\ w.st = x.st
    BY <1>1 DEF Good, IsRec, OFields
  <2> QED BY <2>1 DEF Good
<1>3. Good(y)
  BY <1>1, <1>2
<1>4. Good(z)
  BY <1>1, <1>3, MarkStableGood
<1>5. new_state(x, c, stable) = IF stable THEN mark_stable(z, c) ELSE z
  BY <1>1, Zenon DEF new_state
<1> QED BY <1>4, <1>5, MarkStableGood

-----------------------------------------------------------------------------
(* The others *)

(* The loop over the batches up to the next checkpoint; k is the State     *)
(* before it.                                                              *)
batchStep(k, s, n) == Batch(s, n)
batchInv(k, i, s) == Tree(s) /\ s.lc = k.lc
BatchLoop == INSTANCE Foundations WITH op <- batchStep, inv <- batchInv

(* The batches up to a checkpoint are executed in a loop ... *)
LEMMA BatchIsLoop ==
  ASSUME NEW s, NEW q
  PROVE  FoldLeft(Batch, s, q) = BatchLoop!Fold(s, s, q)
BY DEF BatchLoop!Fold, batchStep, FoldLeft, MapThenFoldSet,
       BatchLoop!MapThenFoldSet, BatchLoop!Greatest, Max

(* ... that keeps the tree and the last checkpoint. *)
LEMMA BatchesTree ==
  ASSUME NEW s, Tree(s), NEW q \in Seq(1..MaxSeqno)
  PROVE  Tree(FoldLeft(Batch, s, q)) /\ FoldLeft(Batch, s, q).lc = s.lc
<1>1. batchInv(s, 0, s)
  BY DEF batchInv
<1>2. \A i, a : i \in 1..Len(q) /\ batchInv(s, i - 1, a) => batchInv(s, i, batchStep(s, a, q[i]))
  <2> SUFFICES ASSUME NEW i \in 1..Len(q), NEW a, batchInv(s, i - 1, a)
               PROVE  batchInv(s, i, batchStep(s, a, q[i]))
    OBVIOUS
  <2>1. q[i] \in 1..MaxSeqno
    BY ElementOfSeq
  <2>2. Tree(a) /\ a.lc = s.lc
    BY DEF batchInv
  <2> QED BY <2>1, <2>2, BatchTree DEF batchInv, batchStep
<1>3. batchInv(s, Len(q), BatchLoop!Fold(s, s, q))
  BY <1>1, <1>2, BatchLoop!FoldKeeps
<1> QED BY <1>3, BatchIsLoop DEF batchInv

(* What the others do. *)
LEMMA OthersStep ==
  ASSUME IInv, OtherAdvance \/ OtherStable
  PROVE  IInv'
<1>1. IsRec(other, {"st", "ls"}) /\ Tree(other.st) /\ other.st.lc \in Nat /\ Good(own)
  BY DEF IInv
<1>2. PICK s : /\ other' = [[other EXCEPT !.ls = other'.ls] EXCEPT !.st = s] /\ Tree(s) /\ s.lc \in Nat
               /\ UNCHANGED own
  <2>1. CASE OtherAdvance
    <3>1. PICK c, n, q, a :
            /\ c = other.st.lc /\ n = c + checkpoint_interval
            /\ q = [j \in 1..checkpoint_interval |-> other.st.lc + j]
            /\ a = FoldLeft(Batch, other.st, q)
      OBVIOUS
    <3>2. n <= MaxSeqno /\ other' = [other EXCEPT !.st = checkpoint(a, n)] /\ UNCHANGED own
      BY <2>1, <3>1 DEF OtherAdvance
    <3>3. c \in Nat /\ checkpoint_interval \in Nat /\ MaxSeqno \in Nat
      BY <1>1, <3>1, RecordsAssumption, TransferAssumption
    <3>4. q \in Seq(1..MaxSeqno)
      <4>1. \A j \in 1..checkpoint_interval : other.st.lc + j \in 1..MaxSeqno
        BY <3>1, <3>2, <3>3
      <4>2. q \in [1..checkpoint_interval -> 1..MaxSeqno]
        BY <3>1, <4>1
      <4> QED BY <3>3, <4>2
    <3>5. Tree(a)
      BY <1>1, <3>1, <3>4, BatchesTree
    <3>6. Tree(checkpoint(a, n)) /\ checkpoint(a, n).lc = n
      BY <3>5, CheckpointTree
    <3>7. n \in Nat
      BY <3>1, <3>3
    <3>8. PICK v : v = checkpoint(a, n)
      OBVIOUS
    <3>9. other' = [[other EXCEPT !.ls = other'.ls] EXCEPT !.st = v]
      BY <1>1, <3>2, <3>8 DEF IsRec
    <3> QED BY <3>2, <3>6, <3>7, <3>8, <3>9
  <2>2. CASE OtherStable
    <3>1. PICK n, v : v = discard_checkpoint(other.st, n, other.st.lc)
                      /\ other' = [other EXCEPT !.ls = n, !.st = v] /\ UNCHANGED own
      BY <2>2 DEF OtherStable
    <3>2. Tree(v) /\ v.lc = other.st.lc
      BY <1>1, <3>1, DiscardTree
    <3>3. other' = [[other EXCEPT !.ls = other'.ls] EXCEPT !.st = v]
      BY <1>1, <3>1 DEF IsRec
    <3> QED BY <1>1, <3>1, <3>2, <3>3
  <2> QED BY <2>1, <2>2
<1>3. IsRec(other', {"st", "ls"}) /\ other'.st = s
  BY <1>1, <1>2 DEF IsRec
<1> QED BY <1>1, <1>2, <1>3 DEF IInv

-----------------------------------------------------------------------------
(* The invariant and the theorem *)

(* The invariant holds initially. *)
LEMMA InitIInv == Init => IInv
<1> SUFFICES ASSUME Init PROVE IInv
  OBVIOUS
<1>1. PICK s : s = NewState
  OBVIOUS
<1>2. Tree(s) /\ Walk(s) /\ s.lc = 0
  BY <1>1, NewStateTree DEF Walk
<1>3. IsRec(own, OFields) /\ own.st = s
  BY <1>1 DEF Init, IsRec, OFields
<1>4. IsRec(other, {"st", "ls"}) /\ other.st = s
  BY <1>1 DEF Init, IsRec
<1> QED BY <1>2, <1>3, <1>4 DEF IInv, Good

(* A handled answer keeps the invariant of the replica. *)
LEMMA HandledGood ==
  ASSUME Good(own), NEW s, Tree(s), Walk(s), NEW stable, Handled(s, stable)
  PROVE  Good(own')
<1>1. PICK x, y, z : /\ x = [own EXCEPT !.st = s] /\ y = new_state(x, s.lc, stable)
                     /\ z = [y EXCEPT !.fetched = s.lc]
  OBVIOUS
<1>2. own' = x \/ own' = z
  BY <1>1 DEF Handled
<1>3. Good(x)
  BY <1>1, PutState
<1>4. Good(y)
  BY <1>1, <1>3, NewStateGood
<1>5. IsRec(z, OFields) /\ z.st = y.st
  BY <1>1, <1>4 DEF Good, IsRec, OFields
<1> QED BY <1>2, <1>3, <1>4, <1>5 DEF Good

(* Every action of the replica keeps its invariant. *)
LEMMA OwnStep ==
  ASSUME Good(own), Next, ~OtherAdvance, ~OtherStable
  PROVE  Good(own')
<1>1. IsRec(own, OFields) /\ Tree(own.st) /\ Walk(own.st)
  BY DEF Good
<1>2. CASE ExecutePrepared
  <2>1. PICK alt : own' = execute_prepared(own, alt) /\ own.le + 1 \in Tentative
    BY <1>2 DEF ExecutePrepared
  <2>2. own.le + 1 \in 1..MaxSeqno
    BY <2>1, TransferAssumption
  <2> QED BY <2>1, <2>2, ExecuteGood
<1>3. CASE ExecuteCommitted
  <2>1. PICK x : /\ x = IF own.lte = own.le THEN execute_prepared(own, FALSE) ELSE own
                 /\ own' = [x EXCEPT !.le = @ + 1] /\ own.le + 1 \in DOMAIN Writes
    BY <1>3 DEF ExecuteCommitted
  <2>2. own.le + 1 \in 1..MaxSeqno
    BY <2>1, TransferAssumption
  <2>3. Good(x)
    BY <2>1, <2>2, ExecuteGood
  <2>4. IsRec(own', OFields) /\ own'.st = x.st
    BY <2>1, <2>3 DEF Good, IsRec, OFields
  <2> QED BY <2>3, <2>4 DEF Good
<1>4. CASE MarkStable
  BY <1>4, MarkStableGood DEF MarkStable
<1>5. CASE SendViewChange
  BY <1>5, RolledBackGood DEF SendViewChange
<1>6. CASE FallBehind
  <2>1. PICK r : own' = FetchAny(RolledBack(own), r)
    BY <1>6 DEF FallBehind
  <2> QED BY <2>1, RolledBackGood, FetchAnyGood
<1>7. CASE ProcessNewView
  <2>1. PICK ms, min, r :
          own' = [mark_stable(own, ms) EXCEPT
                    !.st = start_fetch(@, own.le, min, RefTree(min)[<<0, 0>>].d, r)]
    BY <1>7, Zenon DEF ProcessNewView
  <2>2. PICK x, s : x = mark_stable(own, ms)
                    /\ s = start_fetch(x.st, own.le, min, RefTree(min)[<<0, 0>>].d, r)
    OBVIOUS
  <2>3. Good(x)
    BY <2>2, MarkStableGood
  <2>4. Tree(s) /\ Walk(s)
    BY <2>2, <2>3, StartFetchKeeps DEF Good
  <2>5. own' = [x EXCEPT !.st = s]
    BY <2>1, <2>2, Zenon
  <2> QED BY <2>3, <2>4, <2>5, PutState
<1>8. CASE StartCheck
  <2>1. PICK B, r : own' = CheckFrom(RolledBack(own), B, r)
    BY <1>8 DEF StartCheck
  <2> QED BY <2>1, RolledBackGood, CheckFromGood
<1>9. CASE CheckState
  <2>1. PICK s : s = check_state(own.st) /\ own' = [own EXCEPT !.st = s]
    BY <1>9 DEF CheckState
  <2>2. Tree(s) /\ Walk(s)
    BY <1>1, <2>1, CheckStateKeeps
  <2> QED BY <2>1, <2>2, PutState
<1>10. CASE HandleAnswer
  <2>1. PICK m \in Answers(own.st.asked), stable \in BOOLEAN : Handled(handle(own.st, m), stable)
    BY <1>10 DEF HandleAnswer
  <2>2. Tree(handle(own.st, m)) /\ Walk(handle(own.st, m))
    BY <1>1, HandleKeeps
  <2> QED BY <2>1, <2>2, HandledGood
<1>11. CASE RetransmitFetch
  <2>1. PICK s : s = send_fetch(own.st, TRUE) /\ own' = [own EXCEPT !.st = s]
    BY <1>11 DEF RetransmitFetch
  <2>2. Tree(s) /\ Walk(s)
    BY <1>1, <2>1, SendFetchKeeps
  <2> QED BY <2>1, <2>2, PutState
<1>12. CASE NewKey
  <2>1. PICK s : s = mark_stale(own.st) /\ own' = [own EXCEPT !.st = s]
    BY <1>12 DEF NewKey
  <2>2. Tree(s) /\ Walk(s)
    BY <1>1, <2>1, MarkStaleKeeps
  <2> QED BY <2>1, <2>2, PutState
<1> QED BY <1>2, <1>3, <1>4, <1>5, <1>6, <1>7, <1>8, <1>9, <1>10, <1>11, <1>12 DEF Next

(* A step of the replica leaves the others alone. *)
LEMMA OwnStepOnly ==
  ASSUME Next, ~OtherAdvance, ~OtherStable
  PROVE  other' = other
BY DEF Next, ExecutePrepared, ExecuteCommitted, MarkStable, SendViewChange, FallBehind,
       ProcessNewView, StartCheck, CheckState, HandleAnswer, Handled, RetransmitFetch, NewKey

(* The invariant is inductive. *)
LEMMA NextIInv == IInv /\ [Next]_vars => IInv'
<1> SUFFICES ASSUME IInv, [Next]_vars PROVE IInv'
  OBVIOUS
<1>1. CASE UNCHANGED vars
  BY <1>1 DEF vars, IInv
<1>2. CASE OtherAdvance \/ OtherStable
  BY <1>2, OthersStep
<1>3. CASE Next /\ ~OtherAdvance /\ ~OtherStable
  <2>1. Good(own) /\ IsRec(other, {"st", "ls"}) /\ Tree(other.st) /\ other.st.lc \in Nat
    BY DEF IInv
  <2>2. Good(own') /\ other' = other
    BY <1>3, <2>1, OwnStep, OwnStepOnly
  <2> QED BY <2>1, <2>2 DEF IInv
<1> QED BY <1>1, <1>2, <1>3

(* The sums over Summed are those of SumsConsistent. *)
LEMMA TreeSums ==
  ASSUME NEW s, Tree(s), NEW p \in Inner
  PROVE  s.stree[p] = {s.ptree[k].d : k \in {k \in Nodes :
                         /\ k[1] = p[1] + 1 /\ ParentOf(k) = p
                         /\ k[1] = Leaf \/ s.ptree[k].d # NoDigest}}
<1>1. s.stree[p] = {s.ptree[k].d : k \in Kids(Summed(s), p)}
  BY DEF Tree, Partial, Sums
<1>2. Kids(Summed(s), p) = {k \in Nodes : /\ k[1] = p[1] + 1 /\ ParentOf(k) = p
                                          /\ k[1] = Leaf \/ s.ptree[k].d # NoDigest}
  <2> SUFFICES ASSUME NEW k \in Nodes, ParentOf(k) = p
               PROVE  k \in Summed(s) /\ k[1] > 0
                        <=> k[1] = p[1] + 1 /\ (k[1] = Leaf \/ s.ptree[k].d # NoDigest)
    BY DEF Kids, Summed
  <2>1. k[1] \in Levels /\ p[1] \in Levels
    BY NodeIs DEF Inner
  <2>2. k[1] > 0 <=> k[1] = p[1] + 1
    <3>1. p[1] = k[1] - 1
      BY DEF ParentOf
    <3> QED BY <2>1, <3>1, LevelsShape
  <2>3. k[1] = Leaf => k \in Summed(s)
    BY DEF Tree
  <2> QED BY <2>2, <2>3 DEF Summed
<1> QED BY <1>1, <1>2

(* The invariant says what SumsConsistent says. *)
LEMMA IInvSums == IInv => SumsConsistent
BY TreeSums DEF IInv, Good, SumsConsistent

(* The incremental sums of State::update_ptree(), done_with_level() and    *)
(* handle(Data): for every number of blocks, every history, every choice   *)
(* of faulty answers and every sequence of executions, checkpoints,        *)
(* rollbacks and fetches, stree holds the digests of exactly the children. *)
THEOREM SumsAreConsistent == Spec => []SumsConsistent
<1>1. Init => IInv
  BY InitIInv
<1>2. IInv /\ [Next]_vars => IInv'
  BY NextIInv
<1>3. IInv => SumsConsistent
  BY IInvSums
<1> QED BY <1>1, <1>2, <1>3, PTL DEF Spec
=============================================================================
