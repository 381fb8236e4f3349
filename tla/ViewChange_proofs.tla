-------------------------- MODULE ViewChange_proofs --------------------------
(***************************************************************************)
(* Proofs about module ViewChange: whatever the others send, a replica     *)
(* enters no view it has not moved to, and its View_changes report exactly *)
(* what prepared, as long as the bitmap is no longer than an int.          *)
(***************************************************************************)
EXTENDS ViewChange, FiniteSetTheorems, SequenceTheorems, TLAPS

IsRec(x, fields) == x = [f \in fields |-> x[f]]
IsSeq(s) == Len(s) \in Nat /\ s = [k \in 1..Len(s) |-> s[k]]

(* The fields of a replica, of an NV_info, of its entries, and of messages. *)
XFields ==
  {"id", "v", "limbo", "vtimer", "rqueue", "last_stable", "last_executed", "tentative", "lc",
   "low_bound", "seqno", "has_nv_state", "ckpts", "plog", "oplog", "last_views", "last_vcs",
   "vacks", "nvs", "nv", "slot", "sent"}
NFields ==
  {"v", "msg", "vcs", "ckpts", "chosen", "min", "max", "base", "reqs", "comp", "n_complete",
   "complete", "sent", "faulty", "calls", "broken"}
SFields == {"vc", "ack", "nv", "pp", "p"}
IFields == {"vc", "acks", "req_sum"}
CFields == {"n", "d", "id", "n_le", "n_proofs", "max_seqno"}
MFields == {"v", "min", "max", "vcs", "picked"}

(* A View_change of i, and a New_view for view v. *)
VcOK(m, i) ==
  /\ m.id = i /\ m.v \in Nat /\ m.ls \in Int
  /\ IsFiniteSet(DOMAIN m.ckpts) /\ DOMAIN m.ckpts \subseteq Int
  /\ IsFiniteSet(DOMAIN m.reqs) /\ DOMAIN m.reqs \subseteq Int
MsgOK(m, v) == IsRec(m, MFields) /\ m.v = v /\ m.min \in Int /\ m.max \in Int

CkptsOK(c) ==
  IsSeq(c) /\ \A k \in 1..Len(c) : IsRec(c[k], CFields) /\ c[k].n \in Int /\ c[k].max_seqno \in Int
ReqsOK(q) == IsRec(q, Seqnos) /\ \A n \in Seqnos : IsSeq(q[n])
CallsOK(c) == IsSeq(c) /\ \A k \in 1..Len(c) : c[k].ms \in Int

(* An NV_info that is used has a New_view. *)
Live(nv) == nv.chosen > 0 \/ (nv.v > 0 /\ ~nv.complete) \/ nv.calls # << >>

NvShape(nv) ==
  /\ IsRec(nv, NFields) /\ nv.v \in Nat /\ nv.min \in Int /\ nv.max \in Int /\ nv.chosen \in Nat
  /\ IsRec(nv.vcs, Replicas) /\ \A i \in Replicas : IsRec(nv.vcs[i], IFields)
  /\ CkptsOK(nv.ckpts) /\ CallsOK(nv.calls) /\ ReqsOK(nv.reqs)

NvOK(nv, p) ==
  /\ NvShape(nv)
  /\ nv.v > 0 => primary(nv.v) = p
  /\ Live(nv) => nv.v > 0 /\ MsgOK(nv.msg, nv.v)

(* The New_view that a primary makes refers to View_changes it has. *)
Refers(nv) ==
  IsRec(nv.msg.vcs, Replicas) /\ \A i \in Replicas : has_vc(nv.msg, i) => nv.vcs[i].vc

Holders(nv) == {i \in Replicas : nv.vcs[i].vc}
Quorum(nv) == Cardinality(Holders(nv)) >= n_f

(* The replica x, where L[i] is a view that i is known to have reached: at *)
(* rest L is x.last_views.                                                 *)
Shaped(x) ==
  /\ IsRec(x, XFields) /\ IsRec(x.sent, SFields)
  /\ x.id \in Replicas /\ x.v \in Nat /\ x.last_stable \in Int
  /\ IsFiniteSet(x.ckpts) /\ x.ckpts \subseteq Int
  /\ x.last_views \in [Replicas -> Nat] /\ x.last_vcs \in [Replicas -> BOOLEAN]
  /\ IsRec(x.slot, Replicas) /\ IsRec(x.nvs, Replicas)

Sends(s, i) ==
  /\ \A m \in s.vc : VcOK(m, i)
  /\ \A m \in s.nv : m.v \in Nat /\ primary(m.v) = i /\ MsgOK(m, m.v)
  /\ \A a \in s.ack : a.v \in Nat

Acked(vacks) ==
  /\ IsRec(vacks, Replicas)
  /\ \A i \in Replicas :
       /\ IsRec(vacks[i], {"v", "vacks"}) /\ IsRec(vacks[i].vacks, Replicas)
       /\ \A j \in Replicas : vacks[i].vacks[j] # None => vacks[i].vacks[j].vcid \in Replicas

Base(x, L) ==
  /\ Shaped(x) /\ Sends(x.sent, x.id) /\ Acked(x.vacks)
  /\ L \in [Replicas -> Nat] /\ L[x.id] <= x.v
  /\ \A i \in Replicas : x.last_vcs[i] => VcOK(x.slot[i], i) /\ x.slot[i].v <= L[i]

(* Its NV_info nv in last_nvs[p].  A backup that has chosen, or that went   *)
(* through a view above its own, has the View_changes of a quorum.          *)
Info(x, nv, p, L) ==
  /\ NvOK(nv, p)
  /\ \A i \in Replicas : nv.vcs[i].vc => VcOK(x.slot[i], i) /\ nv.v <= L[i]
  /\ Live(nv) /\ p = x.id => Refers(nv)
  /\ p = x.id => nv.v <= x.v
  /\ p # x.id => /\ nv.chosen > 0 => Quorum(nv)
                 /\ nv.complete => nv.v <= x.v \/ Quorum(nv)

Row(x, L) == Base(x, L) /\ \A p \in Replicas : Info(x, x.nvs[p], p, L)

(* What it reported of its log. *)
Reports(x) ==
  \A m \in x.sent.vc :
    /\ m.v <= x.v /\ m.ls <= x.last_stable
    /\ m.v = x.v /\ m.ls = x.last_stable => \A n \in DOMAIN m.reqs : test(m, n) <=> x.oplog[n].m

(* Who was heard to be in view w or above, by messages that are kept. *)
Heard(x, w) ==
  {i \in Replicas : \/ x.nvs[primary(w)].v = w /\ x.nvs[primary(w)].vcs[i].vc
                    \/ x.last_vcs[i] /\ x.slot[i].v >= w}
Few(x, v) == \A w \in Nat : w > v => Cardinality(Heard(x, w)) <= F

Own(x) == x.last_views[x.id] = x.v

IInv ==
  /\ IsRec(rep, DOMAIN rep) /\ DOMAIN rep \subseteq Replicas
  /\ \A r \in DOMAIN rep :
       rep[r].id = r /\ Row(rep[r], rep[r].last_views) /\ Few(rep[r], rep[r].v) /\ Own(rep[r])
  /\ \A i \in Replicas \ DOMAIN rep : Sends(claim[i], i)

Reported == \A r \in DOMAIN rep : Reports(rep[r])

-----------------------------------------------------------------------------
(* Loops. *)
takeAll(k, i, a) == TRUE
keepStep(k, a, e) == a
Loops == INSTANCE Foundations WITH op <- keepStep, inv <- takeAll

-----------------------------------------------------------------------------
(* The greatest of some numbers. *)

(* The maximum of a finite set of integers. *)
LEMMA MaxIn ==
  ASSUME NEW S \in SUBSET Int, IsFiniteSet(S), S # {}
  PROVE  Max(S) \in S /\ Max(S) \in Int /\ \A y \in S : Max(S) >= y
<1> DEFINE Has(U) == \E m \in U : \A y \in U : m >= y
           N == {n \in Nat : \A U \in SUBSET Int :
                   IsFiniteSet(U) /\ Cardinality(U) = n /\ U # {} => Has(U)}
<1>1. 0 \in N
  BY FS_EmptySet
<1>2. ASSUME NEW n \in Nat, n \in N PROVE n + 1 \in N
  <2> SUFFICES ASSUME NEW U \in SUBSET Int, IsFiniteSet(U), Cardinality(U) = n + 1, U # {}
               PROVE  Has(U)
    OBVIOUS
  <2>1. PICK e \in U : TRUE
    OBVIOUS
  <2>2. IsFiniteSet(U \ {e}) /\ Cardinality(U \ {e}) = n
    <3>1. PICK W : W = U \ {e}
      OBVIOUS
    <3>2. IsFiniteSet(W) /\ Cardinality(W) = Cardinality(U) - 1
      BY <2>1, <3>1, FS_RemoveElement, Zenon
    <3>3. (n + 1) - 1 = n
      BY <1>2
    <3> QED BY <3>1, <3>2, <3>3
  <2>3. CASE U \ {e} = {}
    <3>1. \A y \in U : y = e
      BY <2>3
    <3>2. e >= e
      OBVIOUS
    <3> QED BY <3>1, <3>2
  <2>4. CASE U \ {e} # {}
    <3>1. PICK m \in U \ {e} : \A y \in U \ {e} : m >= y
      BY <1>2, <2>2, <2>4
    <3>2. CASE m >= e
      BY <3>1, <3>2
    <3>3. CASE ~(m >= e)
      <4>1. \A y \in U : e >= y
        BY <3>1, <3>3
      <4> QED BY <4>1
    <3> QED BY <3>2, <3>3
  <2> QED BY <2>3, <2>4
<1> HIDE DEF N
<1>3. \A n \in Nat : n \in N
  BY <1>1, <1>2, Loops!NatSet
<1>4. Cardinality(S) \in N
  BY <1>3, FS_CardinalityType
<1>5. Has(S)
  BY <1>4 DEF N
<1> QED BY <1>5 DEF Max

(* There are 3F + 1 replicas. *)
LEMMA ReplicasFinite ==
  /\ IsFiniteSet(Replicas) /\ Cardinality(Replicas) = 3 * F + 1 /\ F \in Nat /\ F > 0
  /\ \A S \in SUBSET Replicas : IsFiniteSet(S) /\ Cardinality(S) \in Nat /\ Cardinality(S) <= 3 * F + 1
<1>1. F \in Nat /\ F > 0 /\ 3 * F \in Int
  BY ViewChangeAssumption
<1>2. IsFiniteSet(Replicas) /\ Cardinality(Replicas) = 3 * F + 1
  BY <1>1, FS_Interval DEF Replicas
<1> QED BY <1>1, <1>2, FS_Subset, FS_CardinalityType

(* K_max(k, f): k of the values reach it, and no higher one. *)
LEMMA KmaxFacts ==
  ASSUME NEW f \in [Replicas -> Int], NEW k \in Nat, k <= 3 * F + 1
  PROVE  /\ \E i \in Replicas : K_max(k, f) = f[i]
         /\ \A w \in Int : k <= Cardinality({i \in Replicas : f[i] >= w}) /\ k > 0 => K_max(k, f) >= w
<1> DEFINE Above(w) == {i \in Replicas : f[i] >= w}
           Vs == {f[i] : i \in {j \in Replicas : Cardinality({l \in Replicas : f[l] >= f[j]}) >= k}}
<1>1. K_max(k, f) = Max(Vs)
  BY DEF K_max
<1>2. Vs \in SUBSET Int /\ IsFiniteSet(Vs)
  <2>1. IsFiniteSet({f[i] : i \in Replicas})
    <3>1. PICK g : g = [i \in Replicas |-> f[i]]
      OBVIOUS
    <3>2. g \in Surjection(Replicas, {f[i] : i \in Replicas})
      BY <3>1 DEF Surjection
    <3> QED BY <3>2, ReplicasFinite, FS_Surjection
  <2>2. Vs \subseteq {f[i] : i \in Replicas}
    OBVIOUS
  <2> QED BY <2>1, <2>2, FS_Subset
<1>3. ASSUME NEW S \in SUBSET Replicas, S # {}
      PROVE  \E j \in S : \A i \in S : f[i] >= f[j]
  <2> DEFINE T == {-f[i] : i \in S}
  <2>1. IsFiniteSet(T) /\ T # {} /\ T \in SUBSET Int
    <3>1. PICK g : g = [i \in S |-> -f[i]]
      OBVIOUS
    <3>2. g \in Surjection(S, T)
      BY <3>1 DEF Surjection
    <3>3. IsFiniteSet(S)
      BY ReplicasFinite
    <3> QED BY <1>3, <3>2, <3>3, FS_Surjection
  <2>2. Max(T) \in T /\ \A y \in T : Max(T) >= y
    BY <2>1, MaxIn
  <2>3. PICK j \in S : Max(T) = -f[j]
    BY <2>2
  <2>4. ASSUME NEW i \in S PROVE f[i] >= f[j]
    <3>1. PICK a \in Int, b \in Int : a = f[i] /\ b = f[j]
      OBVIOUS
    <3>2. -a \in T
      BY <3>1
    <3>3. -b >= -a
      BY <2>2, <2>3, <3>1, <3>2
    <3> QED BY <3>1, <3>3
  <2> QED BY <2>4
<1>4. ASSUME NEW S \in SUBSET Replicas, S # {}, Cardinality(S) >= k
      PROVE  \E j \in S : f[j] \in Vs
  <2>1. PICK j \in S : \A i \in S : f[i] >= f[j]
    BY <1>3, <1>4
  <2>2. S \subseteq Above(f[j]) /\ IsFiniteSet(Above(f[j])) /\ Cardinality(Above(f[j])) \in Nat
    BY <2>1, ReplicasFinite
  <2>3. Cardinality(S) <= Cardinality(Above(f[j])) /\ Cardinality(S) \in Nat
    BY <2>2, FS_Subset, ReplicasFinite
  <2>4. Cardinality(Above(f[j])) >= k
    BY <1>4, <2>2, <2>3
  <2> QED BY <2>4
<1>5. Vs # {}
  <2>1. Replicas # {} /\ Cardinality(Replicas) >= k
    BY ReplicasFinite, FS_EmptySet
  <2> QED BY <1>4, <2>1
<1>6. Max(Vs) \in Vs /\ \A y \in Vs : Max(Vs) >= y
  BY <1>2, <1>5, MaxIn
<1>7. ASSUME NEW w \in Int, k <= Cardinality(Above(w)), k > 0
      PROVE  K_max(k, f) >= w
  <2>1. Above(w) # {} /\ Cardinality(Above(w)) >= k
    BY <1>7, FS_EmptySet, ReplicasFinite
  <2>2. PICK j \in Above(w) : f[j] \in Vs
    BY <1>4, <2>1
  <2>3. Max(Vs) >= f[j] /\ Max(Vs) \in Int /\ f[j] \in Int /\ f[j] >= w
    BY <1>2, <1>6, <2>2
  <2> QED BY <1>1, <2>3
<1> QED BY <1>1, <1>6, <1>7

-----------------------------------------------------------------------------
(* NewView's operators work on the NV_info x.nv.  While they do, x is      *)
(* Ready; they change nothing else, forget no View_change, and in a backup *)
(* they do not choose.                                                     *)
Ready(x) ==
  /\ IsRec(x, XFields) /\ NvShape(x.nv) /\ MsgOK(x.nv.msg, x.nv.v)
  /\ \A i \in Replicas : x.nv.vcs[i].vc => VcOK(x.slot[i], i)
  /\ leads(x) => Refers(x.nv)

Rest(x, y) == \A f \in XFields \ {"nv"} : y[f] = x[f]

Framed(x, y) ==
  /\ Ready(y) /\ Rest(x, y)
  /\ y.nv.v = x.nv.v /\ \A i \in Replicas : y.nv.vcs[i].vc = x.nv.vcs[i].vc
  /\ Len(y.nv.ckpts) >= Len(x.nv.ckpts)
  /\ ~leads(x) => y.nv.chosen = x.nv.chosen

(* y differs from x only in the fields S of its NV_info. *)
Touch(x, y, S) ==
  /\ IsRec(y, XFields) /\ IsRec(y.nv, NFields) /\ Rest(x, y)
  /\ \A f \in NFields \ S : y.nv[f] = x.nv[f]

Free == {"base", "comp", "n_complete", "complete", "sent", "faulty", "broken"}

(* What a change inside one NV_info leaves alone, field by field. *)
LEMMA RestFields ==
  ASSUME NEW x, NEW y, Rest(x, y)
  PROVE  /\ y.id = x.id /\ y.slot = x.slot /\ y.nvs = x.nvs /\ y.v = x.v /\ y.last_vcs = x.last_vcs
         /\ y.last_views = x.last_views /\ y.vacks = x.vacks /\ y.sent = x.sent
         /\ y.oplog = x.oplog /\ y.last_stable = x.last_stable /\ y.plog = x.plog /\ y.ckpts = x.ckpts
BY DEF Rest, XFields

(* A change of fields nothing depends on is framed. *)
LEMMA TouchFramed ==
  ASSUME NEW x, NEW y, Ready(x), Touch(x, y, Free)
  PROVE  Framed(x, y)
<1>1. /\ y.nv.v = x.nv.v /\ y.nv.msg = x.nv.msg /\ y.nv.vcs = x.nv.vcs /\ y.nv.ckpts = x.nv.ckpts
      /\ y.nv.chosen = x.nv.chosen /\ y.nv.min = x.nv.min /\ y.nv.max = x.nv.max
      /\ y.nv.calls = x.nv.calls /\ y.nv.reqs = x.nv.reqs
  BY DEF Touch, Free, NFields
<1>2. y.slot = x.slot /\ y.id = x.id
  BY RestFields DEF Touch
<1>3. NvShape(y.nv)
  BY <1>1 DEF Ready, NvShape, Touch
<1>4. Ready(y)
  BY <1>1, <1>2, <1>3 DEF Ready, Touch, leads, Refers, has_vc
<1>5. Len(x.nv.ckpts) \in Nat
  BY DEF Ready, NvShape, CkptsOK, IsSeq
<1> QED BY <1>1, <1>4, <1>5 DEF Framed, Touch

(* Framed changes compose: none ... *)
LEMMA FramedReflexive ==
  ASSUME NEW x, Ready(x)
  PROVE  Framed(x, x)
BY DEF Framed, Rest, Ready, NvShape, CkptsOK, IsSeq

(* ... the result is ready for the next ... *)
LEMMA FramedReady ==
  ASSUME NEW x, NEW y, Framed(x, y)
  PROVE  Ready(y)
BY DEF Framed

(* ... it leaves the role of the replica alone ... *)
LEMMA FramedLeads ==
  ASSUME NEW x, NEW y, Framed(x, y)
  PROVE  leads(y) = leads(x) /\ y.slot = x.slot /\ y.id = x.id
BY RestFields DEF Framed, leads

(* ... and two are one. *)
LEMMA FramedTransitive ==
  ASSUME NEW x, NEW y, NEW z, Ready(x), Framed(x, y), Framed(y, z)
  PROVE  Framed(x, z)
<1>1. Rest(x, z)
  BY DEF Framed, Rest
<1>2. Len(x.nv.ckpts) \in Nat /\ Len(y.nv.ckpts) \in Nat /\ Len(z.nv.ckpts) \in Nat
  BY DEF Framed, Ready, NvShape, CkptsOK, IsSeq
<1> QED BY <1>1, <1>2, FramedLeads DEF Framed

(* An assignment to one field. *)
LEMMA PutField ==
  ASSUME NEW x, NEW f \in NFields, NEW val, IsRec(x, XFields), IsRec(x.nv, NFields)
  PROVE  /\ Touch(x, [x EXCEPT !.nv = [@ EXCEPT ![f] = val]], {f})
         /\ [x EXCEPT !.nv = [@ EXCEPT ![f] = val]].nv[f] = val
<1>1. PICK n : n = [x.nv EXCEPT ![f] = val]
  OBVIOUS
<1>2. IsRec(n, NFields) /\ n[f] = val /\ \A g \in NFields \ {f} : n[g] = x.nv[g]
  BY <1>1 DEF IsRec
<1>3. PICK y : y = [x EXCEPT !.nv = n]
  OBVIOUS
<1>4. IsRec(y, XFields) /\ y.nv = n /\ \A g \in XFields \ {"nv"} : y[g] = x[g]
  BY <1>3 DEF IsRec, XFields
<1> QED BY <1>1, <1>2, <1>3, <1>4 DEF Touch, Rest

(* The fields of an NV_info that the code changes. *)
LEMMA Names ==
  {"v", "msg", "vcs", "ckpts", "chosen", "min", "max", "base", "reqs", "comp", "n_complete",
   "complete", "sent", "faulty", "calls", "broken"} \subseteq NFields
BY DEF NFields

(* The shape of a replica with one NV_info loaded. *)
LEMMA ReadyHas ==
  ASSUME NEW x, Ready(x)
  PROVE  IsRec(x, XFields) /\ IsRec(x.nv, NFields)
BY DEF Ready, NvShape

(* A failed assertion is framed. *)
LEMMA BreakFramed ==
  ASSUME NEW x, NEW what, Ready(x)
  PROVE  Framed(x, Break(x, what))
<1>1. Touch(x, Break(x, what), {"broken"})
  BY PutField, ReadyHas, Names DEF Break
<1> QED BY <1>1, TouchFramed DEF Touch, Free

(* Several assignments, one after the other. *)
LEMMA TouchAgain ==
  ASSUME NEW x, NEW y, NEW z, NEW S, NEW T, Touch(x, y, S), Touch(y, z, T)
  PROVE  Touch(x, z, S \cup T)
BY DEF Touch, Rest

(* A change of some fields is a change of more. *)
LEMMA TouchMore ==
  ASSUME NEW x, NEW y, NEW S, NEW T, Touch(x, y, S), S \subseteq T
  PROVE  Touch(x, y, T)
BY DEF Touch

(* A change keeps the shape. *)
LEMMA TouchHas ==
  ASSUME NEW x, NEW y, NEW S, Touch(x, y, S)
  PROVE  IsRec(y, XFields) /\ IsRec(y.nv, NFields)
BY DEF Touch

(* The last checkpoint of a View_change is a sequence number ... *)
LEMMA LastCkpt ==
  ASSUME NEW m, NEW i, VcOK(m, i)
  PROVE  last_ckpt(m) \in Int /\ m.ls \in Int
<1>1. CASE DOMAIN m.ckpts = {}
  BY <1>1 DEF last_ckpt, VcOK
<1>2. CASE DOMAIN m.ckpts # {}
  <2>1. PICK S : S = DOMAIN m.ckpts
    OBVIOUS
  <2>2. Max(S) \in Int
    BY <1>2, <2>1, MaxIn DEF VcOK
  <2> QED BY <1>2, <2>1, <2>2 DEF last_ckpt, VcOK
<1> QED BY <1>1, <1>2

(* ... and so is the highest stable one known. *)
LEMMA KnownStable ==
  ASSUME NEW x, Ready(x)
  PROVE  known_stable(x) \in Int
<1>1. PICK f : f = [i \in Replicas |-> IF x.nv.vcs[i].vc THEN x.slot[i].ls ELSE 0]
  OBVIOUS
<1>2. PICK g : g = [i \in Replicas |-> IF x.nv.vcs[i].vc THEN last_ckpt(x.slot[i]) ELSE 0]
  OBVIOUS
<1>3. f \in [Replicas -> Int] /\ g \in [Replicas -> Int]
  <2>1. \A i \in Replicas : x.nv.vcs[i].vc => last_ckpt(x.slot[i]) \in Int /\ x.slot[i].ls \in Int
    BY LastCkpt DEF Ready
  <2> QED BY <1>1, <1>2, <2>1
<1>4. F + 1 \in Nat /\ F + 1 <= 3 * F + 1 /\ n_f \in Nat /\ n_f <= 3 * F + 1
  BY ReplicasFinite DEF n_f
<1>5. K_max(F + 1, f) \in Int
  <2>1. PICK i \in Replicas : K_max(F + 1, f) = f[i]
    BY <1>3, <1>4, KmaxFacts
  <2> QED BY <1>3, <2>1
<1>6. K_max(n_f, g) \in Int
  <2>1. PICK i \in Replicas : K_max(n_f, g) = g[i]
    BY <1>3, <1>4, KmaxFacts
  <2> QED BY <1>3, <2>1
<1>7. x.nv.min \in Int
  BY DEF Ready, NvShape
<1>8. PICK a, b : a = K_max(F + 1, f) /\ b = K_max(n_f, g)
  OBVIOUS
<1>9. known_stable(x) = LET s == IF b > x.nv.min THEN x.nv.min ELSE b IN IF a > s THEN a ELSE s
  BY <1>1, <1>2, <1>8 DEF known_stable
<1> QED BY <1>5, <1>6, <1>7, <1>8, <1>9

(* Recording a call of process_new_view() is framed ... *)
LEMMA PutCalls ==
  ASSUME NEW x, NEW c, Ready(x), CallsOK(c)
  PROVE  /\ Framed(x, [x EXCEPT !.nv = [x.nv EXCEPT !.calls = c]])
         /\ [x EXCEPT !.nv = [x.nv EXCEPT !.calls = c]].nv.calls = c
<1>1. PICK y : y = [x EXCEPT !.nv = [x.nv EXCEPT !.calls = c]]
  OBVIOUS
<1>2. Touch(x, y, {"calls"}) /\ y.nv.calls = c
  BY <1>1, PutField, ReadyHas, Names
<1>3. /\ y.nv.v = x.nv.v /\ y.nv.msg = x.nv.msg /\ y.nv.vcs = x.nv.vcs /\ y.nv.ckpts = x.nv.ckpts
      /\ y.nv.chosen = x.nv.chosen /\ y.nv.min = x.nv.min /\ y.nv.max = x.nv.max
      /\ y.nv.reqs = x.nv.reqs
  BY <1>2 DEF Touch, NFields
<1>4. NvShape(y.nv)
  BY <1>2, <1>3 DEF Ready, NvShape, Touch
<1>5. y.slot = x.slot /\ y.id = x.id
  BY <1>2, RestFields DEF Touch
<1>6. Ready(y)
  BY <1>2, <1>3, <1>4, <1>5 DEF Ready, Touch, leads, Refers, has_vc
<1>7. Framed(x, y)
  BY <1>2, <1>3, <1>6 DEF Framed, Touch, Ready, NvShape, CkptsOK, IsSeq
<1> QED BY <1>1, <1>2, <1>7

(* ... and so is calling it. *)
LEMMA ProcessFramed ==
  ASSUME NEW x, NEW min, NEW d, NEW max, Ready(x)
  PROVE  Framed(x, Process(x, min, d, max))
<1>1. PICK ks : ks = known_stable(x) /\ ks \in Int
  BY KnownStable
<1>2. CASE ks > min
  BY <1>1, <1>2, BreakFramed DEF Process
<1>3. CASE ~(ks > min)
  <2>1. PICK e : e = process_new_view(min, d, max, ks)
    OBVIOUS
  <2>2. e.ms \in Int
    BY <1>1, <2>1 DEF process_new_view
  <2>3. PICK c : c = Append(x.nv.calls, e)
    OBVIOUS
  <2>4. CallsOK(c)
    <3>1. PICK s : s = x.nv.calls
      OBVIOUS
    <3>2. Len(s) \in Nat /\ s = [k \in 1..Len(s) |-> s[k]] /\ \A k \in 1..Len(s) : s[k].ms \in Int
      BY <3>1 DEF Ready, NvShape, CallsOK, IsSeq
    <3>3. PICK S : S = {s[k] : k \in 1..Len(s)} \cup {e}
      OBVIOUS
    <3>4. s \in Seq(S) /\ e \in S
      BY <3>2, <3>3
    <3>5. c \in Seq(S) /\ Len(c) = Len(s) + 1 /\ \A k \in 1..Len(c) : c[k] = IF k <= Len(s) THEN s[k] ELSE e
      BY <2>3, <3>1, <3>4
    <3>6. Len(c) \in Nat /\ c = [k \in 1..Len(c) |-> c[k]]
      BY <3>5
    <3>7. \A k \in 1..Len(c) : c[k].ms \in Int
      BY <2>2, <3>2, <3>5
    <3> QED BY <3>6, <3>7 DEF CallsOK, IsSeq
  <2>5. PICK y : y = [x EXCEPT !.nv = [x.nv EXCEPT !.calls = c]]
    OBVIOUS
  <2>6. Process(x, min, d, max) = y
    BY <1>1, <1>3, <2>1, <2>3, <2>5 DEF Process
  <2>7. Framed(x, y)
    BY <2>4, <2>5, PutCalls
  <2> QED BY <2>6, <2>7
<1> QED BY <1>2, <1>3

(* Assignments to the fields that Ready speaks of. *)
Chosen == Free \cup {"msg", "min", "max", "chosen", "ckpts", "reqs"}
(* What choosing the bounds of a new view may change. *)
LEMMA ChosenFramed ==
  ASSUME NEW x, NEW y, Ready(x), Touch(x, y, Chosen),
         MsgOK(y.nv.msg, x.nv.v), y.nv.msg.vcs = x.nv.msg.vcs, ReqsOK(y.nv.reqs), y.nv.min \in Int, y.nv.max \in Int, y.nv.chosen \in Nat, CkptsOK(y.nv.ckpts),
         Len(y.nv.ckpts) >= Len(x.nv.ckpts), leads(x) \/ y.nv.chosen = x.nv.chosen
  PROVE  Framed(x, y)
<1>1. y.nv.v = x.nv.v /\ y.nv.vcs = x.nv.vcs /\ y.nv.calls = x.nv.calls
  BY DEF Touch, Chosen, Free, NFields
<1>2. y.slot = x.slot /\ y.id = x.id
  BY RestFields DEF Touch
<1>3. NvShape(y.nv)
  BY <1>1 DEF Ready, NvShape, Touch
<1>4. Ready(y)
  BY <1>1, <1>2, <1>3 DEF Ready, Touch, leads, Refers, has_vc
<1> QED BY <1>1, <1>4 DEF Framed, Touch

(* make_new_view() is framed. *)
LEMMA MakeNewViewFramed ==
  ASSUME NEW x, Ready(x)
  PROVE  Framed(x, make_new_view(x))
<1>1. PICK picked : picked = [n \in x.nv.min..(x.nv.max - 1) |->
                   IF n = x.nv.min THEN x.nv.ckpts[x.nv.chosen].id ELSE x.nv.reqs[n][x.nv.comp[n]].id]
  OBVIOUS
<1>2. PICK a, b : a = x.nv.min /\ b = x.nv.max
  OBVIOUS
<1>3. PICK y1 : y1 = [x EXCEPT !.nv = [@ EXCEPT !.sent = TRUE]]
  OBVIOUS
<1>4. Touch(x, y1, {"sent"})
  BY <1>3, PutField, ReadyHas, Names
<1>5. ASSUME NEW z, NEW f \in {"min", "max", "picked"}, NEW val, Touch(x, z, {"sent", "msg"}),
             MsgOK(z.nv.msg, x.nv.v), z.nv.msg.vcs = x.nv.msg.vcs, f = "picked" \/ val \in Int
      PROVE  \A w : w = [z EXCEPT !.nv = [z.nv EXCEPT !.msg = [z.nv.msg EXCEPT ![f] = val]]] =>
                     /\ Touch(x, w, {"sent", "msg"}) /\ MsgOK(w.nv.msg, x.nv.v)
                     /\ w.nv.msg.vcs = x.nv.msg.vcs
  <2>1. PICK m : m = [z.nv.msg EXCEPT ![f] = val]
    OBVIOUS
  <2>2. IsRec(m, MFields) /\ m.v = z.nv.msg.v /\ m.vcs = z.nv.msg.vcs /\ m.min \in Int /\ m.max \in Int
    <3>1. PICK q : q = z.nv.msg
      OBVIOUS
    <3>2. IsRec(q, MFields) /\ q.min \in Int /\ q.max \in Int
      BY <1>5, <3>1 DEF MsgOK
    <3>3. IsRec(m, MFields) /\ m[f] = val /\ \A g \in MFields \ {f} : m[g] = q[g]
      BY <2>1, <3>1, <3>2 DEF IsRec, MFields
    <3>4. m.v = q.v /\ m.vcs = q.vcs
      BY <1>5, <3>3 DEF MFields
    <3>5. m.min \in Int
      <4>1. CASE f = "min"
        BY <1>5, <3>3, <4>1
      <4>2. CASE f # "min"
        BY <3>2, <3>3, <4>2 DEF MFields
      <4> QED BY <4>1, <4>2
    <3>6. m.max \in Int
      <4>1. CASE f = "max"
        BY <1>5, <3>3, <4>1
      <4>2. CASE f # "max"
        BY <3>2, <3>3, <4>2 DEF MFields
      <4> QED BY <4>1, <4>2
    <3> QED BY <3>1, <3>3, <3>4, <3>5, <3>6
  <2>3. PICK w : w = [z EXCEPT !.nv = [@ EXCEPT !.msg = m]]
    OBVIOUS
  <2>4. Touch(z, w, {"msg"}) /\ w.nv.msg = m
    BY <1>5, <2>3, PutField, TouchHas, Names
  <2>5. Touch(x, w, {"sent", "msg"} \cup {"msg"})
    BY <1>5, <2>4, TouchAgain
  <2>6. Touch(x, w, {"sent", "msg"})
    BY <2>5 DEF Touch
  <2> QED BY <1>5, <2>1, <2>2, <2>3, <2>4, <2>6 DEF MsgOK
<1>6. Touch(x, y1, {"sent", "msg"}) /\ y1.nv.msg = x.nv.msg
  BY <1>4 DEF Touch, NFields
<1>7. PICK y2 : y2 = [y1 EXCEPT !.nv = [y1.nv EXCEPT !.msg = [y1.nv.msg EXCEPT !.min = a]]]
  OBVIOUS
<1>8. PICK y3 : y3 = [y2 EXCEPT !.nv = [y2.nv EXCEPT !.msg = [y2.nv.msg EXCEPT !.max = b]]]
  OBVIOUS
<1>9. PICK y : y = [y3 EXCEPT !.nv = [y3.nv EXCEPT !.msg = [y3.nv.msg EXCEPT !.picked = picked]]]
  OBVIOUS
<1>17. a \in Int /\ b \in Int
  BY <1>2 DEF Ready, NvShape
<1>18. MsgOK(y1.nv.msg, x.nv.v) /\ y1.nv.msg.vcs = x.nv.msg.vcs
  BY <1>6 DEF Ready
<1>10. Touch(x, y2, {"sent", "msg"}) /\ MsgOK(y2.nv.msg, x.nv.v) /\ y2.nv.msg.vcs = x.nv.msg.vcs
  BY <1>5, <1>6, <1>7, <1>17, <1>18, Zenon
<1>11. Touch(x, y3, {"sent", "msg"}) /\ MsgOK(y3.nv.msg, x.nv.v) /\ y3.nv.msg.vcs = x.nv.msg.vcs
  BY <1>5, <1>8, <1>10, <1>17, Zenon
<1>16. Touch(x, y, {"sent", "msg"}) /\ MsgOK(y.nv.msg, x.nv.v) /\ y.nv.msg.vcs = x.nv.msg.vcs
  BY <1>5, <1>9, <1>11, Zenon
<1>12. Framed(x, y)
  <2>1. /\ y.nv.min = x.nv.min /\ y.nv.max = x.nv.max /\ y.nv.chosen = x.nv.chosen
        /\ y.nv.ckpts = x.nv.ckpts /\ y.nv.reqs = x.nv.reqs
    BY <1>16 DEF Touch, NFields
  <2>2. Touch(x, y, Chosen)
    BY <1>16, TouchMore DEF Chosen, Free
  <2> QED BY <1>16, <2>1, <2>2, ChosenFramed DEF Ready, NvShape, CkptsOK, IsSeq
<1>13. Framed(y, Process(y, a, x.nv.ckpts[x.nv.chosen].d, b))
  BY <1>12, ProcessFramed DEF Framed
<1>14. y = [x EXCEPT !.nv.sent = TRUE, !.nv.msg.min = a, !.nv.msg.max = b, !.nv.msg.picked = picked]
  BY <1>3, <1>7, <1>8, <1>9
<1>15. \/ \E what : make_new_view(x) = Break(x, what)
       \/ make_new_view(x) = Process(y, a, x.nv.ckpts[x.nv.chosen].d, b)
  BY <1>1, <1>2, <1>14 DEF make_new_view
<1> QED BY <1>12, <1>13, <1>15, BreakFramed, FramedTransitive

(* Setting a field nothing depends on is framed. *)
LEMMA PutFree ==
  ASSUME NEW x, NEW f \in Free, NEW val, Ready(x)
  PROVE  Framed(x, [x EXCEPT !.nv = [@ EXCEPT ![f] = val]])
<1>1. f \in NFields
  BY DEF Free, NFields
<1>2. Touch(x, [x EXCEPT !.nv = [@ EXCEPT ![f] = val]], {f})
  BY <1>1, PutField, ReadyHas
<1>3. Touch(x, [x EXCEPT !.nv = [@ EXCEPT ![f] = val]], Free)
  BY <1>2, TouchMore
<1> QED BY <1>3, TouchFramed

(* Those fields. *)
LEMMA FreeNames ==
  {"base", "comp", "n_complete", "complete", "sent", "faulty", "broken"} \subseteq Free
BY DEF Free

(* A sequence is one over some set ... *)
LEMMA SeqIn ==
  ASSUME NEW s, IsSeq(s)
  PROVE  Len(s) \in Nat /\ \E S : s \in Seq(S)
<1>1. PICK S : S = {s[k] : k \in 1..Len(s)}
  OBVIOUS
<1>2. s \in Seq(S)
  BY <1>1 DEF IsSeq
<1> QED BY <1>2 DEF IsSeq

(* ... and the other way round. *)
LEMMA SeqIs ==
  ASSUME NEW S, NEW s \in Seq(S)
  PROVE  IsSeq(s)
BY DEF IsSeq

(* A sequence with an element replaced ... *)
LEMMA SeqPut ==
  ASSUME NEW s, IsSeq(s), NEW j, NEW e
  PROVE  IsSeq([s EXCEPT ![j] = e])
<1>1. PICK S : s \in Seq(S)
  BY SeqIn
<1>2. PICK T : T = S \cup {e}
  OBVIOUS
<1>3. PICK t : t = [s EXCEPT ![j] = e]
  OBVIOUS
<1>4. t = [k \in 1..Len(s) |-> IF k = j THEN e ELSE s[k]] /\ Len(s) \in Nat
  <2>1. PICK D : D = 1..Len(s)
    OBVIOUS
  <2>2. s = [k \in D |-> s[k]] /\ Len(s) \in Nat
    BY <2>1 DEF IsSeq
  <2>3. t = [k \in D |-> IF k = j THEN e ELSE s[k]]
    BY <1>3, <2>2
  <2> QED BY <2>1, <2>2, <2>3
<1>5. t \in Seq(T)
  <2>1. \A k \in 1..Len(s) : s[k] \in T
    BY <1>1, <1>2
  <2> QED BY <1>2, <1>4, <2>1
<1> QED BY <1>3, <1>5, SeqIs

(* ... or added. *)
LEMMA SeqAppend ==
  ASSUME NEW s, IsSeq(s), NEW e
  PROVE  /\ IsSeq(Append(s, e)) /\ Len(Append(s, e)) = Len(s) + 1
         /\ \A k \in 1..Len(s) : Append(s, e)[k] = s[k]
         /\ Append(s, e)[Len(s) + 1] = e
<1>1. PICK S : s \in Seq(S)
  BY SeqIn
<1>2. PICK T : T = S \cup {e}
  OBVIOUS
<1>3. PICK t : t = Append(s, e)
  OBVIOUS
<1>4. s \in Seq(T) /\ e \in T
  BY <1>1, <1>2
<1>5. t \in Seq(T) /\ Len(t) = Len(s) + 1 /\ (\A k \in 1..Len(s) : t[k] = s[k]) /\ t[Len(s) + 1] = e
  BY <1>3, <1>4
<1>6. IsSeq(t)
  BY <1>5, SeqIs
<1> QED BY <1>3, <1>5, <1>6

(* The requests of sequence number n. *)
LEMMA PutReqs ==
  ASSUME NEW x, NEW n, NEW q, Ready(x), n \in Seqnos => IsSeq(q)
  PROVE  Framed(x, [x EXCEPT !.nv = [x.nv EXCEPT !.reqs = [x.nv.reqs EXCEPT ![n] = q]]])
<1>1. PICK r : r = [x.nv.reqs EXCEPT ![n] = q]
  OBVIOUS
<1>2. PICK y : y = [x EXCEPT !.nv = [@ EXCEPT !.reqs = r]]
  OBVIOUS
<1>3. Touch(x, y, {"reqs"}) /\ y.nv.reqs = r
  BY <1>2, PutField, ReadyHas, Names
<1>4. ReqsOK(r)
  <2>1. PICK s : s = x.nv.reqs
    OBVIOUS
  <2>2. s = [k \in Seqnos |-> s[k]] /\ \A k \in Seqnos : IsSeq(s[k])
    BY <2>1 DEF Ready, NvShape, ReqsOK, IsRec
  <2>3. \A k \in Seqnos : IsSeq(r[k])
    BY <1>1, <2>1, <2>2
  <2>4. r = [k \in Seqnos |-> r[k]]
    BY <1>1, <2>1, <2>2
  <2> QED BY <2>3, <2>4 DEF ReqsOK, IsRec
<1>5. /\ y.nv.min = x.nv.min /\ y.nv.max = x.nv.max /\ y.nv.chosen = x.nv.chosen
      /\ y.nv.ckpts = x.nv.ckpts /\ y.nv.msg = x.nv.msg
  BY <1>3 DEF Touch, NFields
<1>6. Touch(x, y, Chosen)
  BY <1>3, TouchMore DEF Chosen
<1>7. Framed(x, y)
  BY <1>3, <1>4, <1>5, <1>6, ChosenFramed DEF Ready, NvShape, CkptsOK, IsSeq
<1> QED BY <1>1, <1>2, <1>7

(* Replacing an entry for a sequence number is framed ... *)
LEMMA PutReq ==
  ASSUME NEW x, NEW n, NEW j, NEW e, Ready(x)
  PROVE  Framed(x, [x EXCEPT !.nv.reqs[n][j] = e])
<1>1. PICK q : q = [x.nv.reqs[n] EXCEPT ![j] = e]
  OBVIOUS
<1>2. n \in Seqnos => IsSeq(q)
  BY <1>1, SeqPut DEF Ready, NvShape, ReqsOK
<1>3. Framed(x, [x EXCEPT !.nv = [x.nv EXCEPT !.reqs = [x.nv.reqs EXCEPT ![n] = q]]])
  BY <1>2, PutReqs
<1> QED BY <1>1, <1>3

(* ... and so is adding one. *)
LEMMA AppendReq ==
  ASSUME NEW x, NEW n, NEW e, Ready(x)
  PROVE  Framed(x, [x EXCEPT !.nv.reqs[n] = Append(@, e)])
<1>1. PICK q : q = Append(x.nv.reqs[n], e)
  OBVIOUS
<1>2. n \in Seqnos => IsSeq(q)
  BY <1>1, SeqAppend DEF Ready, NvShape, ReqsOK
<1>3. Framed(x, [x EXCEPT !.nv = [x.nv EXCEPT !.reqs = [x.nv.reqs EXCEPT ![n] = q]]])
  BY <1>2, PutReqs
<1> QED BY <1>1, <1>3

(* Finishing a new view is framed. *)
LEMMA FinishFramed ==
  ASSUME NEW x, Ready(x)
  PROVE  Framed(x, finish(x))
<1>1. PICK y : y = [x EXCEPT !.nv = [@ EXCEPT !.complete = TRUE]]
  OBVIOUS
<1>2. Framed(x, y)
  BY <1>1, PutFree, FreeNames
<1>3. Ready(y)
  BY <1>2 DEF Framed
<1>4. Framed(x, x)
  BY FramedReflexive
<1>5. Framed(x, make_new_view(y))
  BY <1>2, <1>3, MakeNewViewFramed, FramedTransitive
<1>6. \A a, b, c : Framed(x, Process(y, a, b, c))
  BY <1>2, <1>3, ProcessFramed, FramedTransitive
<1> QED BY <1>1, <1>4, <1>5, <1>6 DEF finish

(* Completing an entry is framed ... *)
LEMMA CompleteEntryFramed ==
  ASSUME NEW x, NEW n, NEW j, Ready(x)
  PROVE  Framed(x, complete_entry(x, n, j))
<1>1. PICK c : c = [x.nv.comp EXCEPT ![n] = j]
  OBVIOUS
<1>2. PICK y : y = [x EXCEPT !.nv = [@ EXCEPT !.comp = c]]
  OBVIOUS
<1>3. PICK k : k = y.nv.n_complete + 1
  OBVIOUS
<1>4. PICK z : z = [y EXCEPT !.nv = [@ EXCEPT !.n_complete = k]]
  OBVIOUS
<1>5. Framed(x, y) /\ Ready(y)
  BY <1>2, PutFree, FreeNames, FramedReady
<1>6. Framed(y, z)
  BY <1>4, <1>5, PutFree, FreeNames
<1>7. Framed(x, z) /\ Ready(z)
  BY <1>5, <1>6, FramedTransitive, FramedReady
<1>8. Framed(x, finish(z)) /\ Framed(x, finish(x)) /\ Framed(x, x)
  BY <1>7, FinishFramed, FramedTransitive, FramedReflexive
<1>9. z = [x EXCEPT !.nv.comp[n] = j, !.nv.n_complete = @ + 1]
  BY <1>1, <1>2, <1>3, <1>4
<1> QED BY <1>8, <1>9 DEF complete_entry

(* ... and so is check_comp(). *)
LEMMA CheckCompFramed ==
  ASSUME NEW x, NEW n, NEW j, Ready(x)
  PROVE  Framed(x, check_comp(x, n, j))
<1>1. PICK e : e = IF x.nv.comp[n] = 0 /\ proven(x.nv.reqs[n][j])
                   THEN recognise(x.nv.reqs[n][j], x.oplog[n]) ELSE x.nv.reqs[n][j]
  OBVIOUS
<1>2. PICK y : y = [x EXCEPT !.nv.reqs[n][j] = e]
  OBVIOUS
<1>3. Framed(x, y) /\ Ready(y)
  BY <1>2, PutReq, FramedReady
<1>4. Framed(x, complete_entry(y, n, j))
  BY <1>3, CompleteEntryFramed, FramedTransitive
<1>5. check_comp(x, n, j) = IF x.nv.complete THEN Break(x, "check_comp") ELSE complete_entry(y, n, j)
  BY <1>1, <1>2 DEF check_comp
<1> QED BY <1>4, <1>5, BreakFramed

-----------------------------------------------------------------------------
(* The loops of NV_info: k.x is the state before the loop. *)
accInv(k, i, a) == Framed(k.x, a.x)
nvInv(k, i, y) == Framed(k.x, y)

entryStep(k, a, j) ==
  IF a.return THEN a
  ELSE in_loop(check_comp([a.x EXCEPT !.nv.reqs[k.n][j] = count_in(@, k.vc, k.n)], k.n, j))
EntryLoop == INSTANCE Foundations WITH op <- entryStep, inv <- accInv

sumReqStep(k, a, n) == summarize_req(a, k.i, n)
SumReqLoop == INSTANCE Foundations WITH op <- sumReqStep, inv <- accInv

sumStep(k, z, i) ==
  IF has_vc(k.msg, i) /\ ~z.nv.complete /\ ~Stopped(z) THEN summarize_reqs(z, i) ELSE z
SumLoop == INSTANCE Foundations WITH op <- sumStep, inv <- nvInv

ckptStep(k, y, j) == choose_eligible([y EXCEPT !.nv.ckpts[j] = count_ckpt(@, k.vc)], j)
CkptLoop == INSTANCE Foundations WITH op <- ckptStep, inv <- nvInv

requestStep(k, a, n) == check_request(a, n)
requestInv(k, i, a) == IsRec(a, {"x", "return"}) /\ Framed(k.x, a.x)
RequestLoop == INSTANCE Foundations WITH op <- requestStep, inv <- requestInv

(* The loops of NV_info are folds: over the entries of a sequence number   *)
(* ...                                                                     *)
LEMMA EntryIsLoop ==
  ASSUME NEW k, NEW acc, NEW vc, NEW n, k.n = n, k.vc = vc
  PROVE  count_entries(acc, vc, n)
           = EntryLoop!Fold(k, acc, [i \in DOMAIN acc.x.nv.reqs[n] |-> i])
BY DEF count_entries, FoldLeftDomain, EntryLoop!Fold, entryStep, FoldLeft, MapThenFoldSet,
       EntryLoop!MapThenFoldSet, EntryLoop!Greatest, Max

sumReqs(i, start, s) == FoldLeft(LAMBDA acc, n : summarize_req(acc, i, n), start, s)

(* ... over the sequence numbers ... *)
LEMMA SumReqIsLoop ==
  ASSUME NEW k, NEW start, NEW s, NEW i, k.i = i
  PROVE  sumReqs(i, start, s) = SumReqLoop!Fold(k, start, s)
BY DEF sumReqs, SumReqLoop!Fold, sumReqStep, FoldLeft, MapThenFoldSet,
       SumReqLoop!MapThenFoldSet, SumReqLoop!Greatest, Max

(* ... over the checkpoints ... *)
LEMMA CkptIsLoop ==
  ASSUME NEW k, NEW x, NEW vc, k.vc = vc
  PROVE  count_ckpts(x, vc) = CkptLoop!Fold(k, x, [i \in DOMAIN x.nv.ckpts |-> i])
BY DEF count_ckpts, FoldLeftDomain, CkptLoop!Fold, ckptStep, FoldLeft, MapThenFoldSet,
       CkptLoop!MapThenFoldSet, CkptLoop!Greatest, Max

(* ... and over the requests of a new view. *)
LEMMA RequestIsLoop ==
  ASSUME NEW k, NEW start, NEW s
  PROVE  FoldLeft(check_request, start, s) = RequestLoop!Fold(k, start, s)
BY DEF RequestLoop!Fold, requestStep, FoldLeft, MapThenFoldSet,
       RequestLoop!MapThenFoldSet, RequestLoop!Greatest, Max

(* A range of numbers as a sequence ... *)
LEMMA UpToSeq ==
  ASSUME NEW lo \in Int, NEW hi \in Int
  PROVE  UpTo(lo, hi) \in Seq(Int)
<1>1. PICK n \in Int : n = hi - lo + 1
  OBVIOUS
<1>2. PICK m \in Nat : 1..n = 1..m
  <2>1. CASE n >= 0
    BY <2>1
  <2>2. CASE n < 0
    <3>1. 1..n = 1..0
      BY <2>2
    <3> QED BY <3>1
  <2> QED BY <2>1, <2>2
<1>3. UpTo(lo, hi) = [k \in 1..m |-> lo + k - 1]
  BY <1>1, <1>2 DEF UpTo
<1> QED BY <1>3

(* ... of all replicas ... *)
LEMMA ReplicaUpTo ==
  /\ UpTo(0, 3 * F) \in Seq(Replicas) /\ Len(UpTo(0, 3 * F)) = 3 * F + 1
  /\ \A k \in 1..(3 * F + 1) : UpTo(0, 3 * F)[k] = k - 1
<1>1. PICK n \in Nat : n = 3 * F + 1
  BY ReplicasFinite
<1>2. 3 * F - 0 + 1 = n /\ Replicas = 0..(n - 1)
  BY <1>1, ReplicasFinite DEF Replicas
<1>3. UpTo(0, 3 * F) = [k \in 1..n |-> 0 + k - 1]
  BY <1>2 DEF UpTo
<1>4. \A k \in 1..n : 0 + k - 1 = k - 1 /\ k - 1 \in Replicas
  BY <1>2
<1> QED BY <1>1, <1>3, <1>4

(* ... and of the indices of a sequence. *)
LEMMA IndexSeq ==
  ASSUME NEW s, IsSeq(s)
  PROVE  [i \in DOMAIN s |-> i] \in Seq(1..Len(s)) /\ Len([i \in DOMAIN s |-> i]) = Len(s)
<1>1. DOMAIN s = 1..Len(s) /\ Len(s) \in Nat
  BY SeqIn
<1> QED BY <1>1

(* The result of a loop with a return in it. *)
LEMMA ResultFields ==
  ASSUME NEW y, NEW b
  PROVE  Result(y, b).x = y /\ in_loop(y).x = y
BY DEF Result, in_loop

(* Counting a View_change for the entries is framed ... *)
LEMMA CountEntriesFramed ==
  ASSUME NEW acc, NEW vc, NEW n \in Seqnos, Ready(acc.x)
  PROVE  Framed(acc.x, count_entries(acc, vc, n).x)
<1>1. PICK k : k = [x |-> acc.x, n |-> n, vc |-> vc]
  OBVIOUS
<1>2. k.x = acc.x /\ k.n = n /\ k.vc = vc
  BY <1>1
<1>3. PICK s : s = [i \in DOMAIN acc.x.nv.reqs[n] |-> i]
  OBVIOUS
<1>4. \E S : s \in Seq(S)
  BY <1>3, IndexSeq DEF Ready, NvShape, ReqsOK
<1>5. accInv(k, 0, acc)
  BY <1>2, FramedReflexive DEF accInv
<1>6. ASSUME NEW i, NEW a, accInv(k, i - 1, a)
      PROVE  accInv(k, i, entryStep(k, a, s[i]))
  <2>1. Framed(k.x, a.x) /\ Ready(a.x) /\ Ready(k.x)
    BY <1>2, <1>6, FramedReady DEF accInv
  <2>2. PICK j : j = s[i]
    OBVIOUS
  <2>3. PICK e : e = count_in(a.x.nv.reqs[n][j], vc, n)
    OBVIOUS
  <2>4. PICK y : y = [a.x EXCEPT !.nv.reqs[n][j] = e]
    OBVIOUS
  <2>5. Framed(a.x, y) /\ Ready(y)
    BY <2>1, <2>4, PutReq, FramedReady
  <2>6. Framed(k.x, check_comp(y, n, j))
    BY <2>1, <2>5, CheckCompFramed, FramedTransitive
  <2>7. entryStep(k, a, j) = IF a.return THEN a ELSE in_loop(check_comp(y, n, j))
    BY <1>2, <2>3, <2>4 DEF entryStep
  <2> QED BY <2>1, <2>2, <2>6, <2>7, ResultFields DEF accInv
<1>7. accInv(k, Len(s), EntryLoop!Fold(k, acc, s))
  BY <1>4, <1>5, <1>6, EntryLoop!FoldKeeps
<1>8. count_entries(acc, vc, n) = EntryLoop!Fold(k, acc, s)
  BY <1>2, <1>3, EntryIsLoop
<1> QED BY <1>2, <1>7, <1>8 DEF accInv

(* ... so is summarizing one sequence number ... *)
LEMMA SummarizeReqFramed ==
  ASSUME NEW acc, NEW i, NEW n, Ready(acc.x)
  PROVE  Framed(acc.x, summarize_req(acc, i, n).x)
<1>1. PICK old : old = count_entries(acc, acc.x.slot[i], n)
  OBVIOUS
<1>2. CASE acc.return \/ n \notin Seqnos
  BY <1>2, FramedReflexive DEF summarize_req
<1>3. CASE ~(acc.return \/ n \notin Seqnos)
  <2>1. Framed(acc.x, old.x) /\ Ready(old.x)
    BY <1>1, <1>3, CountEntriesFramed, FramedReady
  <2>2. PICK e : e = new_entry(acc.x, i, n)
    OBVIOUS
  <2>3. PICK y : y = [old.x EXCEPT !.nv.reqs[n] = Append(@, e)]
    OBVIOUS
  <2>4. Framed(old.x, y) /\ Ready(y)
    BY <2>1, <2>3, AppendReq, FramedReady
  <2>5. \A j : Framed(old.x, check_comp(y, n, j))
    BY <2>1, <2>4, CheckCompFramed, FramedTransitive
  <2>6. Framed(acc.x, add_entry(old.x, e, n))
    BY <2>1, <2>3, <2>5, FramedTransitive DEF add_entry
  <2>7. \/ summarize_req(acc, i, n) = old
        \/ summarize_req(acc, i, n) = Result(add_entry(old.x, e, n), FALSE)
    BY <1>1, <1>3, <2>2 DEF summarize_req
  <2>8. Result(add_entry(old.x, e, n), FALSE).x = add_entry(old.x, e, n)
    BY ResultFields
  <2> QED BY <2>1, <2>6, <2>7, <2>8
<1> QED BY <1>2, <1>3

(* ... so is updating what is known of a View_change ... *)
LEMMA PutVcs ==
  ASSUME NEW x, NEW i \in Replicas, NEW c, Ready(x), IsRec(c, IFields), c.vc = x.nv.vcs[i].vc
  PROVE  Framed(x, [x EXCEPT !.nv = [x.nv EXCEPT !.vcs = [x.nv.vcs EXCEPT ![i] = c]]])
<1>1. PICK w : w = [x.nv.vcs EXCEPT ![i] = c]
  OBVIOUS
<1>2. PICK y : y = [x EXCEPT !.nv = [x.nv EXCEPT !.vcs = w]]
  OBVIOUS
<1>3. Touch(x, y, {"vcs"}) /\ y.nv.vcs = w
  BY <1>2, PutField, ReadyHas, Names
<1>4. IsRec(w, Replicas) /\ \A j \in Replicas : IsRec(w[j], IFields) /\ w[j].vc = x.nv.vcs[j].vc
  <2>1. PICK s : s = x.nv.vcs
    OBVIOUS
  <2>2. s = [j \in Replicas |-> s[j]] /\ \A j \in Replicas : IsRec(s[j], IFields)
    BY <2>1 DEF Ready, NvShape, IsRec
  <2>3. w = [j \in Replicas |-> w[j]] /\ \A j \in Replicas : w[j] = IF j = i THEN c ELSE s[j]
    BY <1>1, <2>1, <2>2
  <2>4. IsRec(w, Replicas)
    BY <2>3 DEF IsRec
  <2> QED BY <2>1, <2>2, <2>3, <2>4
<1>5. /\ y.nv.min = x.nv.min /\ y.nv.max = x.nv.max /\ y.nv.chosen = x.nv.chosen
      /\ y.nv.ckpts = x.nv.ckpts /\ y.nv.msg = x.nv.msg /\ y.nv.v = x.nv.v
      /\ y.nv.calls = x.nv.calls /\ y.nv.reqs = x.nv.reqs
  BY <1>3 DEF Touch, NFields
<1>6. y.slot = x.slot /\ y.id = x.id
  BY <1>3, RestFields DEF Touch
<1>7. NvShape(y.nv)
  BY <1>3, <1>4, <1>5 DEF Ready, NvShape, Touch
<1>8. Ready(y)
  BY <1>3, <1>4, <1>5, <1>6, <1>7 DEF Ready, Touch, leads, Refers, has_vc
<1>9. Framed(x, y)
  BY <1>3, <1>4, <1>5, <1>8 DEF Framed, Touch, Ready, NvShape, CkptsOK, IsSeq
<1> QED BY <1>1, <1>2, <1>9

(* ... and so is summarizing all of them. *)
LEMMA SummarizeReqsFramed ==
  ASSUME NEW x, NEW i \in Replicas, Ready(x), x.nv.vcs[i].vc
  PROVE  Framed(x, summarize_reqs(x, i))
<1>1. PICK c : c = [x.nv.vcs[i] EXCEPT !.req_sum = TRUE]
  OBVIOUS
<1>2. IsRec(c, IFields) /\ c.vc = x.nv.vcs[i].vc
  BY <1>1 DEF Ready, NvShape, IsRec, IFields
<1>3. PICK y : y = [x EXCEPT !.nv = [x.nv EXCEPT !.vcs = [x.nv.vcs EXCEPT ![i] = c]]]
  OBVIOUS
<1>4. Framed(x, y) /\ Ready(y)
  BY <1>2, <1>3, PutVcs, FramedReady
<1>5. PICK start : start = [x |-> y, return |-> FALSE]
  OBVIOUS
<1>6. PICK k : k = [x |-> y, i |-> i]
  OBVIOUS
<1>7. k.x = y /\ k.i = i /\ start.x = y
  BY <1>5, <1>6
<1>8. PICK from : from = IF x.nv.min > x.slot[i].ls THEN x.nv.min ELSE x.slot[i].ls
  OBVIOUS
<1>9. from \in Int /\ x.nv.max \in Int
  <2>1. x.nv.min \in Int /\ x.nv.max \in Int /\ x.slot[i].ls \in Int
    BY DEF Ready, NvShape, VcOK
  <2> QED BY <1>8, <2>1
<1>10. PICK s : s = UpTo(from + 1, x.nv.max - 1)
  OBVIOUS
<1>11. s \in Seq(Int)
  <2>1. from + 1 \in Int /\ x.nv.max - 1 \in Int
    BY <1>9
  <2> QED BY <1>10, <2>1, UpToSeq
<1>12. accInv(k, 0, start)
  BY <1>4, <1>7, FramedReflexive DEF accInv
<1>13. ASSUME NEW j, NEW a, accInv(k, j - 1, a)
       PROVE  accInv(k, j, sumReqStep(k, a, s[j]))
  <2>1. Framed(k.x, a.x) /\ Ready(a.x) /\ Ready(k.x)
    BY <1>4, <1>7, <1>13, FramedReady DEF accInv
  <2>2. Framed(a.x, summarize_req(a, i, s[j]).x)
    BY <2>1, SummarizeReqFramed
  <2>3. Framed(k.x, summarize_req(a, i, s[j]).x)
    BY <2>1, <2>2, FramedTransitive
  <2> QED BY <1>7, <2>3 DEF accInv, sumReqStep
<1>14. accInv(k, Len(s), SumReqLoop!Fold(k, start, s))
  BY <1>11, <1>12, <1>13, SumReqLoop!FoldKeeps
<1>15. summarize_reqs(x, i) = SumReqLoop!Fold(k, start, s).x
  <2>1. [x EXCEPT !.nv.vcs[i].req_sum = TRUE] = y
    BY <1>1, <1>3
  <2>2. summarize_reqs(x, i) = sumReqs(i, start, s).x
    BY <1>5, <1>8, <1>10, <2>1 DEF summarize_reqs, sumReqs
  <2>3. sumReqs(i, start, s) = SumReqLoop!Fold(k, start, s)
    BY <1>7, SumReqIsLoop
  <2> QED BY <2>2, <2>3
<1>16. Framed(y, summarize_reqs(x, i))
  BY <1>7, <1>14, <1>15 DEF accInv
<1> QED BY <1>4, <1>16, FramedTransitive

(* The checkpoints considered have sequence numbers. *)
LEMMA CkptType ==
  ASSUME NEW x, Ready(x), NEW k \in 1..Len(x.nv.ckpts)
  PROVE  /\ x.nv.ckpts[k].n \in Int /\ x.nv.ckpts[k].max_seqno \in Int /\ IsRec(x.nv.ckpts[k], CFields)
         /\ x.nv.min \in Int /\ x.nv.max \in Int /\ k \in Nat /\ k > 0
BY DEF Ready, NvShape, CkptsOK, IsSeq

(* Assignments of choose_ckpt() to the bounds of the new view. *)
LEMMA ChoiceFramed ==
  ASSUME NEW x, NEW y, Ready(x), leads(x), Touch(x, y, Free \cup {"chosen", "min", "max"}),
         y.nv.chosen \in Nat, y.nv.min \in Int, y.nv.max \in Int
  PROVE  Framed(x, y) /\ y.nv.msg = x.nv.msg
<1>1. y.nv.ckpts = x.nv.ckpts /\ y.nv.msg = x.nv.msg /\ y.nv.reqs = x.nv.reqs
  BY DEF Touch, NFields, Free
<1>2. Touch(x, y, Chosen)
  BY TouchMore DEF Chosen
<1> QED BY <1>1, <1>2, ChosenFramed DEF Ready, NvShape, CkptsOK, IsSeq

started(x, k, a, b, c) == [x EXCEPT !.nv.chosen = k, !.nv.min = a, !.nv.base = b, !.nv.max = c]
raised(x, k, a, b, c) == [x EXCEPT !.nv.chosen = k, !.nv.min = a, !.nv.n_complete = b, !.nv.max = c]
(* Starting a new view from chosen bounds is framed. *)
LEMMA SetBounds ==
  ASSUME NEW x, Ready(x), leads(x), NEW k \in Nat, NEW a \in Int, NEW b, NEW c \in Int
  PROVE  /\ Framed(x, started(x, k, a, b, c)) /\ started(x, k, a, b, c).nv.msg = x.nv.msg
         /\ Framed(x, raised(x, k, a, b, c))
<1>1. PICK y1 : y1 = [x EXCEPT !.nv = [x.nv EXCEPT !.chosen = k]]
  OBVIOUS
<1>2. PICK y2 : y2 = [y1 EXCEPT !.nv = [y1.nv EXCEPT !.min = a]]
  OBVIOUS
<1>3. PICK y3 : y3 = [y2 EXCEPT !.nv = [y2.nv EXCEPT !.base = b]]
  OBVIOUS
<1>4. PICK y4 : y4 = [y3 EXCEPT !.nv = [y3.nv EXCEPT !.max = c]]
  OBVIOUS
<1>5. PICK z3 : z3 = [y2 EXCEPT !.nv = [y2.nv EXCEPT !.n_complete = b]]
  OBVIOUS
<1>6. PICK z4 : z4 = [z3 EXCEPT !.nv = [z3.nv EXCEPT !.max = c]]
  OBVIOUS
<1>7. Touch(x, y1, {"chosen"}) /\ y1.nv.chosen = k
  BY <1>1, PutField, ReadyHas, Names
<1>8. Touch(y1, y2, {"min"}) /\ y2.nv.min = a
  BY <1>2, <1>7, PutField, TouchHas, Names
<1>9. Touch(y2, y3, {"base"}) /\ Touch(y2, z3, {"n_complete"})
  BY <1>3, <1>5, <1>8, PutField, TouchHas, Names
<1>10. Touch(y3, y4, {"max"}) /\ y4.nv.max = c
  BY <1>4, <1>9, PutField, TouchHas, Names
<1>11. Touch(z3, z4, {"max"}) /\ z4.nv.max = c
  BY <1>6, <1>9, PutField, TouchHas, Names
<1>12. y4.nv.chosen = k /\ y4.nv.min = a /\ z4.nv.chosen = k /\ z4.nv.min = a
  BY <1>7, <1>8, <1>9, <1>10, <1>11 DEF Touch, NFields
<1>13. Touch(x, y2, {"chosen"} \cup {"min"})
  BY <1>7, <1>8, TouchAgain
<1>14. Touch(x, y3, ({"chosen"} \cup {"min"}) \cup {"base"}) /\ Touch(x, z3, ({"chosen"} \cup {"min"}) \cup {"n_complete"})
  BY <1>9, <1>13, TouchAgain
<1>15. Touch(x, y4, Free \cup {"chosen", "min", "max"})
  <2>1. Touch(x, y4, (({"chosen"} \cup {"min"}) \cup {"base"}) \cup {"max"})
    BY <1>10, <1>14, TouchAgain
  <2> QED BY <2>1, TouchMore, FreeNames
<1>16. Touch(x, z4, Free \cup {"chosen", "min", "max"})
  <2>1. Touch(x, z4, (({"chosen"} \cup {"min"}) \cup {"n_complete"}) \cup {"max"})
    BY <1>11, <1>14, TouchAgain
  <2> QED BY <2>1, TouchMore, FreeNames
<1>17. Framed(x, y4) /\ y4.nv.msg = x.nv.msg /\ Framed(x, z4)
  BY <1>10, <1>11, <1>12, <1>15, <1>16, ChoiceFramed
<1>18. y4 = started(x, k, a, b, c)
  BY <1>1, <1>2, <1>3, <1>4 DEF started
<1>19. z4 = raised(x, k, a, b, c)
  BY <1>1, <1>2, <1>5, <1>6 DEF raised
<1> QED BY <1>17, <1>18, <1>19

sumAll(msg, y) ==
  FoldLeft(LAMBDA z, i : IF has_vc(msg, i) /\ ~z.nv.complete /\ ~Stopped(z)
                         THEN summarize_reqs(z, i) ELSE z, y, UpTo(0, 3 * F))
(* Summarizing what the new view contains is a loop. *)
LEMMA SumIsLoop ==
  ASSUME NEW k, NEW msg, NEW y, k.msg = msg
  PROVE  sumAll(msg, y) = SumLoop!Fold(k, y, UpTo(0, 3 * F))
BY DEF sumAll, SumLoop!Fold, sumStep, FoldLeft, MapThenFoldSet,
       SumLoop!MapThenFoldSet, SumLoop!Greatest, Max

(* The first choice of a checkpoint is framed ... *)
LEMMA FirstChoiceFramed ==
  ASSUME NEW x, Ready(x), leads(x), NEW j \in 1..Len(x.nv.ckpts)
  PROVE  Framed(x, first_choice(x, j))
<1>1. PICK c : c = x.nv.ckpts[j]
  OBVIOUS
<1>2. PICK a \in Int, b \in Int, m \in Int : a = c.n /\ b = c.n + 1 /\ m = c.max_seqno + 1
  <2>1. c.n \in Int /\ c.max_seqno \in Int
    BY <1>1, CkptType
  <2> QED BY <2>1
<1>15. j \in Nat
  OBVIOUS
<1>3. PICK y : y = started(x, j, a, b, m)
  OBVIOUS
<1>4. Framed(x, y) /\ y.nv.msg = x.nv.msg
  BY <1>3, <1>15, SetBounds
<1>5. Ready(y) /\ leads(y)
  BY <1>4, FramedReady, FramedLeads
<1>6. PICK k : k = [x |-> y, msg |-> x.nv.msg]
  OBVIOUS
<1>7. k.x = y /\ k.msg = x.nv.msg
  BY <1>6
<1>8. nvInv(k, 0, y)
  BY <1>5, <1>7, FramedReflexive DEF nvInv
<1>9. PICK s : s = UpTo(0, 3 * F)
  OBVIOUS
<1>10. s \in Seq(Replicas)
  BY <1>9, ReplicaUpTo
<1>11. ASSUME NEW i, NEW z, i \in 1..Len(s), nvInv(k, i - 1, z)
       PROVE  nvInv(k, i, sumStep(k, z, s[i]))
  <2>1. PICK r \in Replicas : r = s[i]
    BY <1>10, <1>11
  <2>2. Framed(y, z) /\ Ready(z)
    BY <1>7, <1>11, FramedReady DEF nvInv
  <2>3. CASE has_vc(k.msg, r)
    <3>1. y.nv.vcs[r].vc
      BY <1>4, <1>5, <1>7, <2>3 DEF Ready, Refers
    <3>2. z.nv.vcs[r].vc
      BY <2>2, <3>1 DEF Framed
    <3>3. Framed(y, summarize_reqs(z, r))
      BY <1>5, <2>2, <3>2, SummarizeReqsFramed, FramedTransitive
    <3> QED BY <1>7, <2>1, <2>2, <3>3 DEF sumStep, nvInv
  <2>4. CASE ~has_vc(k.msg, r)
    BY <1>7, <2>1, <2>2, <2>4 DEF sumStep, nvInv
  <2> QED BY <2>3, <2>4
<1>12. nvInv(k, Len(s), SumLoop!Fold(k, y, s))
  BY <1>8, <1>10, <1>11, SumLoop!FoldKeeps
<1>13. first_choice(x, j) = sumAll(x.nv.msg, y)
  BY <1>1, <1>2, <1>3 DEF first_choice, sumAll, started
<1>14. Framed(y, first_choice(x, j))
  BY <1>7, <1>9, <1>12, <1>13, SumIsLoop DEF nvInv
<1> QED BY <1>4, <1>14, FramedTransitive

(* ... so is a higher one ... *)
LEMMA HigherChoiceFramed ==
  ASSUME NEW x, Ready(x), leads(x), NEW j \in 1..Len(x.nv.ckpts)
  PROVE  Framed(x, higher_choice(x, j))
<1>1. PICK c : c = x.nv.ckpts[j]
  OBVIOUS
<1>2. c.n \in Int /\ c.max_seqno + 1 \in Int /\ j \in Nat /\ x.nv.max \in Int
  BY <1>1, CkptType
<1>3. PICK b : b = x.nv.n_complete - Cardinality({n \in (x.nv.min + 1)..c.n : n \in Seqnos /\ x.nv.comp[n] > 0})
  OBVIOUS
<1>4. PICK m : m = IF c.max_seqno + 1 < x.nv.max THEN c.max_seqno + 1 ELSE x.nv.max
  OBVIOUS
<1>5. m \in Int
  BY <1>2, <1>4
<1>6. higher_choice(x, j) = raised(x, j, c.n, b, m)
  <2>1. IsRec(x, XFields) /\ IsRec(x.nv, NFields)
    BY ReadyHas
  <2>2. PICK y1 : y1 = [x EXCEPT !.nv = [x.nv EXCEPT !.chosen = j]]
    OBVIOUS
  <2>3. PICK y2 : y2 = [y1 EXCEPT !.nv = [y1.nv EXCEPT !.min = c.n]]
    OBVIOUS
  <2>4. PICK y3 : y3 = [y2 EXCEPT !.nv = [y2.nv EXCEPT !.n_complete = b]]
    OBVIOUS
  <2>5. Touch(x, y1, {"chosen"})
    BY <2>1, <2>2, PutField, Names
  <2>6. Touch(y1, y2, {"min"})
    BY <2>3, <2>5, PutField, TouchHas, Names
  <2>7. Touch(y2, y3, {"n_complete"})
    BY <2>4, <2>6, PutField, TouchHas, Names
  <2>8. y2.nv.n_complete = x.nv.n_complete /\ y3.nv.max = x.nv.max
    BY <2>5, <2>6, <2>7 DEF Touch, NFields
  <2>9. raised(x, j, c.n, b, m) = [y3 EXCEPT !.nv.max = m]
    BY <2>2, <2>3, <2>4 DEF raised
  <2>10. higher_choice(x, j) = [y3 EXCEPT !.nv.max = m]
    BY <1>1, <1>3, <1>4, <2>2, <2>3, <2>4, <2>8 DEF higher_choice
  <2> QED BY <2>9, <2>10
<1> QED BY <1>2, <1>5, <1>6, SetBounds

(* ... what comes after it ... *)
LEMMA AfterChoiceFramed ==
  ASSUME NEW x, NEW first, Ready(x)
  PROVE  Framed(x, after_choice(x, first))
<1>1. PICK y : y = [x EXCEPT !.nv = [@ EXCEPT !.complete = TRUE]]
  OBVIOUS
<1>2. Framed(x, y) /\ Ready(y)
  BY <1>1, PutFree, FreeNames, FramedReady
<1>3. Framed(x, make_new_view(y)) /\ Framed(x, x)
  BY <1>2, MakeNewViewFramed, FramedTransitive, FramedReflexive
<1> QED BY <1>1, <1>3 DEF after_choice

(* ... choose_ckpt() as a whole ... *)
LEMMA ChooseCkptFramed ==
  ASSUME NEW x, Ready(x), leads(x), NEW j \in 1..Len(x.nv.ckpts)
  PROVE  Framed(x, choose_ckpt(x, j))
<1>1. PICK y : y = IF x.nv.chosen = 0 THEN first_choice(x, j)
                   ELSE IF x.nv.ckpts[x.nv.chosen].n < x.nv.ckpts[j].n THEN higher_choice(x, j) ELSE x
  OBVIOUS
<1>2. Framed(x, y) /\ Ready(y)
  BY <1>1, FirstChoiceFramed, HigherChoiceFramed, FramedReflexive, FramedReady
<1>3. Framed(y, after_choice(y, x.nv.chosen = 0))
  BY <1>2, AfterChoiceFramed
<1>4. choose_ckpt(x, j) = after_choice(y, x.nv.chosen = 0)
  BY <1>1 DEF choose_ckpt
<1> QED BY <1>2, <1>3, <1>4, FramedTransitive

(* ... and the choice of an eligible checkpoint. *)
LEMMA ChooseEligibleFramed ==
  ASSUME NEW x, Ready(x), leads(x), NEW j \in 1..Len(x.nv.ckpts)
  PROVE  Framed(x, choose_eligible(x, j))
BY ChooseCkptFramed, FramedReflexive DEF choose_eligible

(* Extending the checkpoints considered is framed. *)
LEMMA PutCkpts ==
  ASSUME NEW x, Ready(x), NEW c, CkptsOK(c), Len(c) >= Len(x.nv.ckpts)
  PROVE  /\ Framed(x, [x EXCEPT !.nv = [x.nv EXCEPT !.ckpts = c]])
         /\ [x EXCEPT !.nv = [x.nv EXCEPT !.ckpts = c]].nv.ckpts = c
<1>1. PICK y : y = [x EXCEPT !.nv = [x.nv EXCEPT !.ckpts = c]]
  OBVIOUS
<1>2. Touch(x, y, {"ckpts"}) /\ y.nv.ckpts = c
  BY <1>1, PutField, ReadyHas, Names
<1>3. /\ y.nv.min = x.nv.min /\ y.nv.max = x.nv.max /\ y.nv.chosen = x.nv.chosen
      /\ y.nv.msg = x.nv.msg /\ y.nv.reqs = x.nv.reqs
  BY <1>2 DEF Touch, NFields
<1>4. Touch(x, y, Chosen)
  BY <1>2, TouchMore DEF Chosen
<1>5. Framed(x, y)
  BY <1>2, <1>3, <1>4, ChosenFramed DEF Ready, NvShape
<1> QED BY <1>1, <1>2, <1>5

(* The highest sequence number of a View_change. *)
LEMMA MaxSeqno ==
  ASSUME NEW m, NEW i, VcOK(m, i)
  PROVE  max_seqno(m) \in Int
<1>1. CASE DOMAIN m.reqs = {}
  BY <1>1 DEF max_seqno, VcOK
<1>2. CASE DOMAIN m.reqs # {}
  <2>1. PICK S : S = DOMAIN m.reqs
    OBVIOUS
  <2>2. Max(S) \in Int
    BY <1>2, <2>1, MaxIn DEF VcOK
  <2> QED BY <1>2, <2>1, <2>2 DEF max_seqno
<1> QED BY <1>1, <1>2

(* Counting a View_change for a checkpoint keeps its shape ... *)
LEMMA CountCkptType ==
  ASSUME NEW c, IsRec(c, CFields), c.n \in Int, c.max_seqno \in Int, NEW vc, NEW i, VcOK(vc, i)
  PROVE  /\ IsRec(count_ckpt(c, vc), CFields) /\ count_ckpt(c, vc).n \in Int
         /\ count_ckpt(c, vc).max_seqno \in Int
<1>1. PICK le : le = ((c.n = vc.ls /\ c.d = ckpt(vc, vc.ls)) \/ c.n > vc.ls)
  OBVIOUS
<1>2. PICK m : m = IF le THEN greater(c.max_seqno, max_seqno(vc)) ELSE c.max_seqno
  OBVIOUS
<1>3. m \in Int
  BY <1>2, MaxSeqno DEF greater
<1>4. \E p, l : count_ckpt(c, vc) = [[[c EXCEPT !.n_proofs = p] EXCEPT !.n_le = l] EXCEPT !.max_seqno = m]
  <2>1. PICK p : p = IF (c.n = vc.ls /\ c.d = ckpt(vc, vc.ls)) \/ (ckpt(vc, c.n) # None /\ ckpt(vc, c.n) = c.d)
                     THEN c.n_proofs + 1 ELSE c.n_proofs
    OBVIOUS
  <2>2. PICK c1 : c1 = [c EXCEPT !.n_proofs = p]
    OBVIOUS
  <2>3. IsRec(c1, CFields) /\ c1.n_le = c.n_le /\ c1.max_seqno = c.max_seqno
    BY <2>2 DEF IsRec, CFields
  <2>4. PICK l : l = IF le THEN c.n_le + 1 ELSE c.n_le
    OBVIOUS
  <2>5. PICK c2 : c2 = [c1 EXCEPT !.n_le = l]
    OBVIOUS
  <2>6. c2.max_seqno = c.max_seqno
    BY <2>3, <2>5 DEF IsRec, CFields
  <2>7. count_ckpt(c, vc) = [c2 EXCEPT !.max_seqno = m]
    BY <1>1, <1>2, <2>1, <2>2, <2>3, <2>4, <2>5, <2>6 DEF count_ckpt
  <2> QED BY <2>2, <2>5, <2>7
<1>5. PICK p, l : count_ckpt(c, vc) = [[[c EXCEPT !.n_proofs = p] EXCEPT !.n_le = l] EXCEPT !.max_seqno = m]
  BY <1>4
<1>6. PICK c1 : c1 = [c EXCEPT !.n_proofs = p]
  OBVIOUS
<1>7. IsRec(c1, CFields) /\ c1.n = c.n
  BY <1>6 DEF IsRec, CFields
<1>8. PICK c2 : c2 = [c1 EXCEPT !.n_le = l]
  OBVIOUS
<1>9. IsRec(c2, CFields) /\ c2.n = c.n
  BY <1>7, <1>8 DEF IsRec, CFields
<1>10. PICK c3 : c3 = [c2 EXCEPT !.max_seqno = m]
  OBVIOUS
<1>11. IsRec(c3, CFields) /\ c3.n = c.n /\ c3.max_seqno = m
  BY <1>9, <1>10 DEF IsRec, CFields
<1> QED BY <1>3, <1>5, <1>6, <1>8, <1>10, <1>11

(* ... and is framed for all checkpoints. *)
LEMMA CountCkptsFramed ==
  ASSUME NEW x, Ready(x), leads(x), NEW vc, NEW i, VcOK(vc, i)
  PROVE  Framed(x, count_ckpts(x, vc))
<1>1. PICK k : k = [x |-> x, vc |-> vc]
  OBVIOUS
<1>2. k.x = x /\ k.vc = vc
  BY <1>1
<1>3. PICK s : s = [j \in DOMAIN x.nv.ckpts |-> j]
  OBVIOUS
<1>4. IsSeq(x.nv.ckpts) /\ Len(x.nv.ckpts) \in Nat
  BY DEF Ready, NvShape, CkptsOK, IsSeq
<1>5. s \in Seq(1..Len(x.nv.ckpts))
  BY <1>3, <1>4, IndexSeq
<1>6. nvInv(k, 0, x)
  BY <1>2, FramedReflexive DEF nvInv
<1>7. ASSUME NEW n, NEW y, n \in 1..Len(s), nvInv(k, n - 1, y)
      PROVE  nvInv(k, n, ckptStep(k, y, s[n]))
  <2>1. PICK j \in 1..Len(x.nv.ckpts) : j = s[n]
    BY <1>5, <1>7
  <2>2. Framed(x, y) /\ Ready(y) /\ leads(y)
    BY <1>2, <1>7, FramedReady, FramedLeads DEF nvInv
  <2>3. PICK cs : cs = y.nv.ckpts
    OBVIOUS
  <2>4. CkptsOK(cs) /\ Len(cs) >= Len(x.nv.ckpts) /\ Len(cs) \in Nat
    BY <2>2, <2>3 DEF Framed, Ready, NvShape, CkptsOK, IsSeq
  <2>5. j \in 1..Len(cs)
    BY <1>4, <2>4
  <2>6. PICK e : e = count_ckpt(cs[j], vc)
    OBVIOUS
  <2>7. IsRec(e, CFields) /\ e.n \in Int /\ e.max_seqno \in Int
    BY <2>4, <2>5, <2>6, CountCkptType DEF CkptsOK
  <2>8. PICK ds : ds = [cs EXCEPT ![j] = e]
    OBVIOUS
  <2>9. CkptsOK(ds) /\ Len(ds) = Len(cs)
    <3>1. cs = [l \in 1..Len(cs) |-> cs[l]]
      BY <2>4 DEF CkptsOK, IsSeq
    <3>2. ds = [l \in 1..Len(cs) |-> ds[l]] /\ \A l \in 1..Len(cs) : ds[l] = IF l = j THEN e ELSE cs[l]
      BY <2>5, <2>8, <3>1
    <3>3. IsSeq(ds)
      BY <2>4, <2>8, SeqPut DEF CkptsOK
    <3>4. DOMAIN ds = 1..Len(cs) /\ DOMAIN ds = 1..Len(ds) /\ Len(ds) \in Nat
      BY <3>2, <3>3, SeqIn
    <3>5. Len(ds) = Len(cs)
      BY <2>4, <3>4
    <3> QED BY <2>4, <2>7, <3>2, <3>3, <3>5 DEF CkptsOK
  <2>10. PICK z : z = [y EXCEPT !.nv = [y.nv EXCEPT !.ckpts = ds]]
    OBVIOUS
  <2>11. Len(ds) >= Len(y.nv.ckpts)
    BY <2>3, <2>4, <2>9
  <2>12. Framed(y, z) /\ z.nv.ckpts = ds
    BY <2>2, <2>9, <2>10, <2>11, PutCkpts
  <2>13. Ready(z) /\ leads(z)
    BY <2>2, <2>12, FramedReady, FramedLeads
  <2>14. Framed(z, choose_eligible(z, j))
    BY <2>5, <2>9, <2>12, <2>13, ChooseEligibleFramed
  <2>15. Framed(x, choose_eligible(z, j))
    BY <2>2, <2>12, <2>14, FramedTransitive
  <2>16. ckptStep(k, y, j) = choose_eligible(z, j)
    BY <1>2, <2>3, <2>6, <2>8, <2>10 DEF ckptStep
  <2> QED BY <1>2, <2>1, <2>15, <2>16 DEF nvInv
<1>8. nvInv(k, Len(s), CkptLoop!Fold(k, x, s))
  BY <1>5, <1>6, <1>7, CkptLoop!FoldKeeps
<1> QED BY <1>2, <1>3, <1>8, CkptIsLoop DEF nvInv

(* A checkpoint not considered before ... *)
LEMMA NewCkptType ==
  ASSUME NEW x, Ready(x), NEW i \in Replicas, x.nv.vcs[i].vc
  PROVE  /\ IsRec(new_ckpt(x, i), CFields) /\ new_ckpt(x, i).n \in Int
         /\ new_ckpt(x, i).max_seqno \in Int
<1>1. PICK vc : vc = x.slot[i]
  OBVIOUS
<1>2. vc.ls \in Int /\ max_seqno(vc) \in Int
  BY <1>1, LastCkpt, MaxSeqno DEF Ready
<1>3. PICK lower : lower = {k \in DOMAIN x.nv.ckpts : x.nv.ckpts[k].n < vc.ls}
  OBVIOUS
<1>4. IsFiniteSet(lower) /\ lower \subseteq 1..Len(x.nv.ckpts)
  <2>1. DOMAIN x.nv.ckpts = 1..Len(x.nv.ckpts) /\ Len(x.nv.ckpts) \in Nat
    BY SeqIn DEF Ready, NvShape, CkptsOK
  <2>2. IsFiniteSet(1..Len(x.nv.ckpts))
    BY <2>1, FS_Interval
  <2> QED BY <1>3, <2>1, <2>2, FS_Subset
<1>5. PICK T : T = {x.nv.ckpts[k].max_seqno : k \in lower}
  OBVIOUS
<1>6. IsFiniteSet(T) /\ T \subseteq Int
  <2>1. PICK g : g = [k \in lower |-> x.nv.ckpts[k].max_seqno]
    OBVIOUS
  <2>2. g \in Surjection(lower, T)
    BY <1>5, <2>1 DEF Surjection
  <2>3. IsFiniteSet(T)
    BY <1>4, <2>2, FS_Surjection
  <2>4. \A k \in lower : x.nv.ckpts[k].max_seqno \in Int
    BY <1>4, CkptType
  <2> QED BY <1>5, <2>3, <2>4
<1>7. PICK U : U = {max_seqno(vc)} \cup T
  OBVIOUS
<1>8. IsFiniteSet(U) /\ U \in SUBSET Int /\ U # {}
  <2>1. IsFiniteSet({max_seqno(vc)})
    BY FS_Singleton
  <2> QED BY <1>2, <1>6, <1>7, <2>1, FS_Union
<1>9. Max(U) \in Int
  BY <1>8, MaxIn
<1>10. PICK d, l, p : new_ckpt(x, i) = [n |-> vc.ls, d |-> d, id |-> i, n_le |-> l, n_proofs |-> p, max_seqno |-> Max(U)]
  BY <1>1, <1>3, <1>5, <1>7 DEF new_ckpt
<1> QED BY <1>2, <1>9, <1>10 DEF IsRec, CFields

(* ... is added by a framed step. *)
LEMMA AddCkptFramed ==
  ASSUME NEW x, Ready(x), leads(x), NEW c, IsRec(c, CFields), c.n \in Int, c.max_seqno \in Int
  PROVE  Framed(x, add_ckpt(x, c))
<1>1. PICK cs : cs = x.nv.ckpts
  OBVIOUS
<1>2. CkptsOK(cs) /\ Len(cs) \in Nat
  BY <1>1 DEF Ready, NvShape, CkptsOK, IsSeq
<1>3. PICK ds : ds = Append(cs, c)
  OBVIOUS
<1>4. /\ IsSeq(ds) /\ Len(ds) = Len(cs) + 1 /\ ds[Len(cs) + 1] = c
      /\ \A k \in 1..Len(cs) : ds[k] = cs[k]
  BY <1>2, <1>3, SeqAppend DEF CkptsOK
<1>5. CkptsOK(ds)
  <2>1. \A k \in 1..Len(ds) : k \in 1..Len(cs) \/ k = Len(cs) + 1
    BY <1>2, <1>4
  <2> QED BY <1>2, <1>4, <2>1 DEF CkptsOK
<1>6. PICK y : y = [x EXCEPT !.nv = [x.nv EXCEPT !.ckpts = ds]]
  OBVIOUS
<1>7. Len(ds) >= Len(x.nv.ckpts) /\ Len(cs) + 1 \in 1..Len(ds)
  BY <1>1, <1>2, <1>4
<1>8. Framed(x, y) /\ y.nv.ckpts = ds
  BY <1>5, <1>6, <1>7, PutCkpts
<1>9. Ready(y) /\ leads(y)
  BY <1>8, FramedReady, FramedLeads
<1>10. Framed(x, choose_eligible(y, Len(cs) + 1))
  BY <1>7, <1>8, <1>9, ChooseEligibleFramed, FramedTransitive
<1> QED BY <1>1, <1>3, <1>6, <1>10, FramedReflexive DEF add_ckpt

(* summarize() is framed. *)
LEMMA SummarizeFramed ==
  ASSUME NEW x, Ready(x), leads(x), NEW i \in Replicas, x.nv.vcs[i].vc
  PROVE  Framed(x, summarize(x, i))
<1>1. PICK y : y = count_ckpts(x, x.slot[i])
  OBVIOUS
<1>2. Framed(x, y) /\ Ready(y) /\ leads(y)
  BY <1>1, CountCkptsFramed, FramedReady, FramedLeads DEF Ready
<1>3. PICK c : c = new_ckpt(x, i)
  OBVIOUS
<1>4. Framed(y, add_ckpt(y, c))
  BY <1>2, <1>3, NewCkptType, AddCkptFramed
<1>5. ASSUME NEW z, z \in {y, add_ckpt(y, c)}
      PROVE  Framed(x, z) /\ Framed(x, summarize_reqs(z, i))
  <2>1. Framed(x, z) /\ Ready(z)
    BY <1>2, <1>4, <1>5, FramedTransitive, FramedReady
  <2>2. z.nv.vcs[i].vc
    BY <2>1 DEF Framed
  <2> QED BY <2>1, <2>2, SummarizeReqsFramed, FramedTransitive
<1>6. \E z \in {y, add_ckpt(y, c)} : summarize(x, i) = z \/ summarize(x, i) = summarize_reqs(z, i)
  BY <1>1, <1>3 DEF summarize
<1> QED BY <1>5, <1>6

pickedEntry(x, n) ==
  LET vc == x.slot[x.nv.msg.picked[n]]
  IN  FoldLeft(LAMBDA c, j : get_proofs(c, x.slot[j], n),
               Req_sum(req(vc, n), vc.id,
                       Cardinality({j \in Held(x) : req(x.slot[j], n).v <= req(vc, n).v})),
               SetToSortSeq(Held(x), <))

(* One request of a received new view is checked by a framed step. *)
LEMMA CheckRequestFramed ==
  ASSUME NEW acc, NEW n, IsRec(acc, {"x", "return"}), Ready(acc.x)
  PROVE  IsRec(check_request(acc, n), {"x", "return"}) /\ Framed(acc.x, check_request(acc, n).x)
<1>1. PICK x : x = acc.x
  OBVIOUS
<1>2. PICK f : f = [x EXCEPT !.nv = [@ EXCEPT !.faulty = TRUE]]
  OBVIOUS
<1>3. Framed(x, f) /\ Framed(x, x) /\ Framed(x, Break(x, "req"))
  BY <1>1, <1>2, PutFree, FreeNames, BreakFramed, FramedReflexive
<1>4. ASSUME NEW cur
      PROVE  Framed(x, check_comp([x EXCEPT !.nv.reqs[n] = Append(@, cur)], n, 1))
  <2>1. PICK y : y = [x EXCEPT !.nv.reqs[n] = Append(@, cur)]
    OBVIOUS
  <2>2. Framed(x, y) /\ Ready(y)
    BY <1>1, <2>1, AppendReq, FramedReady
  <2>3. Framed(x, check_comp(y, n, 1))
    BY <1>1, <2>2, CheckCompFramed, FramedTransitive
  <2> QED BY <2>1, <2>3
<1>5. PICK a1 : a1 = [acc EXCEPT !.return = TRUE]
  OBVIOUS
<1>6. IsRec(a1, {"x", "return"}) /\ a1.x = x
  BY <1>1, <1>5 DEF IsRec
<1>7. PICK a2 : a2 = [a1 EXCEPT !.x = f]
  OBVIOUS
<1>8. PICK a3 : a3 = [a1 EXCEPT !.x = Break(x, "req")]
  OBVIOUS
<1>9. IsRec(a2, {"x", "return"}) /\ a2.x = f /\ IsRec(a3, {"x", "return"}) /\ a3.x = Break(x, "req")
  BY <1>6, <1>7, <1>8 DEF IsRec
<1>10. ASSUME NEW z, NEW b
       PROVE  IsRec(Result(z, b), {"x", "return"}) /\ Result(z, b).x = z
  BY DEF Result, IsRec
<1>11. [acc EXCEPT !.return = TRUE, !.x.nv.faulty = TRUE] = a2
  BY <1>2, <1>5, <1>6, <1>7
<1>12. [acc EXCEPT !.return = TRUE, !.x = Break(x, "req")] = a3
  BY <1>5, <1>8
<1>13. PICK cur : \/ check_request(acc, n) \in {acc, a2, a3}
                  \/ check_request(acc, n)
                       = Result(check_comp([x EXCEPT !.nv.reqs[n] = Append(@, cur)], n, 1), FALSE)
  <2>1. PICK cur : cur = pickedEntry(acc.x, n)
    OBVIOUS
  <2>2. check_request(acc, n) =
          IF acc.return THEN acc
          ELSE IF n <= acc.x.slot[acc.x.nv.msg.picked[n]].ls
          THEN [acc EXCEPT !.return = TRUE, !.x.nv.faulty = TRUE]
          ELSE IF \E j \in Held(acc.x) : n <= acc.x.slot[j].ls
          THEN [acc EXCEPT !.return = TRUE, !.x = Break(acc.x, "req")]
          ELSE IF ~proven(cur) THEN [acc EXCEPT !.return = TRUE, !.x.nv.faulty = TRUE]
          ELSE Result(check_comp([acc.x EXCEPT !.nv.reqs[n] = Append(@, cur)], n, 1), FALSE)
    BY <2>1 DEF check_request, pickedEntry
  <2> QED BY <1>1, <1>11, <1>12, <2>2
<1>14. CASE check_request(acc, n) \in {acc, a2, a3}
  BY <1>1, <1>3, <1>9, <1>14
<1>15. CASE check_request(acc, n)
              = Result(check_comp([x EXCEPT !.nv.reqs[n] = Append(@, cur)], n, 1), FALSE)
  <2>1. PICK z : z = check_comp([x EXCEPT !.nv.reqs[n] = Append(@, cur)], n, 1)
    OBVIOUS
  <2>2. Framed(x, z)
    BY <1>4, <2>1
  <2>3. check_request(acc, n) = Result(z, FALSE)
    BY <1>15, <2>1
  <2> QED BY <1>1, <1>10, <2>2, <2>3
<1> QED BY <1>13, <1>14, <1>15

(* What a backup does when it has all the View_changes. *)
Checked(x, y) ==
  /\ Ready(y) /\ Rest(x, y) /\ y.nv.v = x.nv.v
  /\ \A i \in Replicas : y.nv.vcs[i].vc = x.nv.vcs[i].vc
  /\ (y.nv.chosen = x.nv.chosen /\ y.nv.complete = x.nv.complete) \/ Quorum(x.nv)

(* Correct bounds need the View_changes of a quorum. *)
LEMMA HeldQuorum ==
  ASSUME NEW x, max_is_correct(x)
  PROVE  Quorum(x.nv)
<1>1. PICK S : S = {i \in Held(x) : max_seqno(x.slot[i]) < x.nv.msg.max}
  OBVIOUS
<1>2. Held(x) = Holders(x.nv) /\ S \subseteq Held(x) /\ Held(x) \subseteq Replicas
  BY <1>1 DEF Held, Holders
<1>3. IsFiniteSet(Held(x)) /\ Cardinality(Held(x)) \in Nat
  BY <1>2, ReplicasFinite
<1>4. Cardinality(S) \in Nat /\ Cardinality(S) <= Cardinality(Held(x))
  BY <1>2, <1>3, FS_Subset, FS_CardinalityType
<1>5. Cardinality(S) >= n_f /\ n_f \in Nat
  BY <1>1, ReplicasFinite DEF max_is_correct, n_f
<1> QED BY <1>2, <1>3, <1>4, <1>5 DEF Quorum

(* check_new_view() completes a received new view only with the            *)
(* View_changes of a quorum.                                               *)
LEMMA CheckNewView ==
  ASSUME NEW x, Ready(x), ~leads(x)
  PROVE  Checked(x, check_new_view(x))
<1>1. ASSUME NEW f \in {"broken", "faulty"}, NEW val, NEW y, y = [x EXCEPT !.nv = [x.nv EXCEPT ![f] = val]]
      PROVE  Checked(x, y)
  <2>1. Touch(x, y, {f})
    BY <1>1, PutField, ReadyHas, Names
  <2>2. y.nv.chosen = x.nv.chosen /\ y.nv.complete = x.nv.complete
    BY <1>1, <2>1 DEF Touch, NFields
  <2>3. f \in Free
    BY <1>1 DEF Free
  <2>4. Framed(x, y)
    BY <1>1, <2>3, PutFree
  <2> QED BY <2>2, <2>4 DEF Checked, Framed
<1>2. PICK msg : msg = x.nv.msg
  OBVIOUS
<1>3. PICK a \in Int, b \in Int, c \in Int : a = msg.min /\ b = msg.min + 1 /\ c = msg.max
  <2>1. msg.min \in Int /\ msg.max \in Int
    BY <1>2 DEF Ready, MsgOK
  <2> QED BY <2>1
<1>4. PICK y1 : y1 = [x EXCEPT !.nv = [x.nv EXCEPT !.min = a]]
  OBVIOUS
<1>5. PICK y2 : y2 = [y1 EXCEPT !.nv = [y1.nv EXCEPT !.base = b]]
  OBVIOUS
<1>6. PICK y3 : y3 = [y2 EXCEPT !.nv = [y2.nv EXCEPT !.chosen = 1]]
  OBVIOUS
<1>7. PICK y : y = [y3 EXCEPT !.nv = [y3.nv EXCEPT !.max = c]]
  OBVIOUS
<1>8. Touch(x, y1, {"min"}) /\ y1.nv.min = a
  BY <1>4, PutField, ReadyHas, Names
<1>9. Touch(y1, y2, {"base"})
  BY <1>5, <1>8, PutField, TouchHas, Names
<1>10. Touch(y2, y3, {"chosen"}) /\ y3.nv.chosen = 1
  BY <1>6, <1>9, PutField, TouchHas, Names
<1>11. Touch(y3, y, {"max"}) /\ y.nv.max = c
  BY <1>7, <1>10, PutField, TouchHas, Names
<1>12. Touch(x, y, {"min", "base", "chosen", "max"})
  BY <1>8, <1>9, <1>10, <1>11 DEF Touch, Rest
<1>13. /\ y.nv.min = a /\ y.nv.chosen = 1 /\ y.nv.v = x.nv.v /\ y.nv.msg = x.nv.msg /\ y.nv.vcs = x.nv.vcs
       /\ y.nv.ckpts = x.nv.ckpts /\ y.nv.calls = x.nv.calls /\ y.nv.reqs = x.nv.reqs
  BY <1>8, <1>9, <1>10, <1>11 DEF Touch, NFields
<1>14. Ready(y) /\ Rest(x, y)
  <2>1. NvShape(y.nv)
    BY <1>3, <1>11, <1>12, <1>13 DEF Ready, NvShape, Touch
  <2>2. y.slot = x.slot /\ y.id = x.id
    BY <1>12, RestFields DEF Touch
  <2> QED BY <1>12, <1>13, <2>1, <2>2 DEF Ready, Touch, leads
<1>15. ASSUME NEW z, Framed(y, z), Quorum(x.nv)
       PROVE  Checked(x, z)
  BY <1>13, <1>14, <1>15 DEF Checked, Framed, Rest
<1>16. \A u, v, w : Framed(y, Process([y EXCEPT !.nv = [@ EXCEPT !.complete = TRUE]], u, v, w))
  <2>1. PICK z : z = [y EXCEPT !.nv = [@ EXCEPT !.complete = TRUE]]
    OBVIOUS
  <2>2. Framed(y, z) /\ Ready(z)
    BY <1>14, <2>1, PutFree, FreeNames, FramedReady
  <2>3. \A u, v, w : Framed(y, Process(z, u, v, w))
    BY <1>14, <2>2, ProcessFramed, FramedTransitive
  <2> QED BY <2>1, <2>3
<1>17. PICK start : start = [x |-> y, return |-> FALSE]
  OBVIOUS
<1>18. PICK s : s = UpTo(msg.min + 1, msg.max - 1)
  OBVIOUS
<1>19. Framed(y, FoldLeft(check_request, start, s).x)
  <2>1. s \in Seq(Int)
    <3>1. msg.min + 1 \in Int /\ msg.max - 1 \in Int
      BY <1>3
    <3> QED BY <1>18, <3>1, UpToSeq
  <2>2. PICK k : k = [x |-> y]
    OBVIOUS
  <2>3. k.x = y
    BY <2>2
  <2>4. requestInv(k, 0, start)
    BY <1>14, <1>17, <2>3, FramedReflexive DEF requestInv, IsRec
  <2>5. ASSUME NEW j, NEW acc, requestInv(k, j - 1, acc)
        PROVE  requestInv(k, j, requestStep(k, acc, s[j]))
    <3>1. IsRec(acc, {"x", "return"}) /\ Framed(y, acc.x) /\ Ready(acc.x)
      BY <2>3, <2>5, FramedReady DEF requestInv
    <3>2. IsRec(check_request(acc, s[j]), {"x", "return"}) /\ Framed(acc.x, check_request(acc, s[j]).x)
      BY <3>1, CheckRequestFramed
    <3>3. Framed(y, check_request(acc, s[j]).x)
      BY <1>14, <3>1, <3>2, FramedTransitive
    <3> QED BY <2>3, <3>2, <3>3 DEF requestInv, requestStep
  <2>6. requestInv(k, Len(s), RequestLoop!Fold(k, start, s))
    BY <2>1, <2>4, <2>5, RequestLoop!FoldKeeps
  <2>7. FoldLeft(check_request, start, s) = RequestLoop!Fold(k, start, s)
    BY RequestIsLoop
  <2> QED BY <2>3, <2>6, <2>7 DEF requestInv
<1>20. y = [x EXCEPT !.nv.min = msg.min, !.nv.base = msg.min + 1, !.nv.chosen = 1, !.nv.max = msg.max]
  BY <1>3, <1>4, <1>5, <1>6, <1>7
<1>21. Checked(x, Break(x, "which_picked"))
  BY <1>1 DEF Break
<1>22. Checked(x, [x EXCEPT !.nv.faulty = TRUE])
  BY <1>1
<1>23. CASE checkpoint_is_correct(x) /\ max_is_correct(x)
  <2>1. Quorum(x.nv)
    BY <1>23, HeldQuorum
  <2>2. \/ check_new_view(x) = Break(x, "which_picked")
        \/ \E u, v, w : check_new_view(x) = Process([y EXCEPT !.nv = [@ EXCEPT !.complete = TRUE]], u, v, w)
        \/ check_new_view(x) = FoldLeft(check_request, start, s).x
    BY <1>2, <1>17, <1>18, <1>20, <1>23 DEF check_new_view
  <2> QED BY <1>15, <1>16, <1>19, <1>21, <2>1, <2>2
<1>24. CASE ~(checkpoint_is_correct(x) /\ max_is_correct(x))
  BY <1>21, <1>22, <1>24 DEF check_new_view
<1> QED BY <1>23, <1>24

-----------------------------------------------------------------------------
(* The operations of NV_info. *)
PutVc(x, i, vc) == [x EXCEPT !.slot[i] = vc, !.nv.vcs[i].vc = TRUE]

VcAdded(x, y, vc) ==
  /\ Ready(y) /\ \A f \in XFields \ {"nv", "slot"} : y[f] = x[f]
  /\ IsRec(y.slot, Replicas) /\ y.slot[vc.id] = vc
  /\ \A j \in Replicas \ {vc.id} : y.slot[j] = x.slot[j]
  /\ y.nv.v = x.nv.v
  /\ y.nv.vcs[vc.id].vc = TRUE /\ \A j \in Replicas \ {vc.id} : y.nv.vcs[j].vc = x.nv.vcs[j].vc
  /\ ~leads(x) =>
       \/ y.nv.chosen = x.nv.chosen /\ y.nv.complete = x.nv.complete
       \/ Quorum(y.nv)

(* Storing a View_change ... *)
LEMMA PutVcAdded ==
  ASSUME NEW x, Ready(x), IsRec(x.slot, Replicas), NEW i \in Replicas, NEW vc, VcOK(vc, i)
  PROVE  VcAdded(x, PutVc(x, i, vc), vc) /\ PutVc(x, i, vc).nv.msg = x.nv.msg
<1>1. PICK s : s = [x.slot EXCEPT ![i] = vc]
  OBVIOUS
<1>2. PICK w : w = [x EXCEPT !.slot = s]
  OBVIOUS
<1>3. IsRec(w, XFields) /\ w.slot = s /\ \A f \in XFields \ {"slot"} : w[f] = x[f]
  BY <1>2, ReadyHas DEF IsRec, XFields
<1>4. w.nv = x.nv
  BY <1>3 DEF XFields
<1>5. PICK c : c = [x.nv.vcs[i] EXCEPT !.vc = TRUE]
  OBVIOUS
<1>6. IsRec(c, IFields) /\ c.vc = TRUE
  BY <1>5 DEF Ready, NvShape, IsRec, IFields
<1>7. PICK u : u = [x.nv.vcs EXCEPT ![i] = c]
  OBVIOUS
<1>8. PICK y : y = [w EXCEPT !.nv = [w.nv EXCEPT !.vcs = u]]
  OBVIOUS
<1>9. y = PutVc(x, i, vc)
  BY <1>1, <1>2, <1>4, <1>5, <1>7, <1>8 DEF PutVc
<1>10. Touch(w, y, {"vcs"}) /\ y.nv.vcs = u
  BY <1>3, <1>4, <1>8, PutField, ReadyHas, Names
<1>11. IsRec(s, Replicas) /\ s[i] = vc /\ \A j \in Replicas \ {i} : s[j] = x.slot[j]
  BY <1>1 DEF IsRec
<1>12. /\ IsRec(u, Replicas) /\ u[i] = c /\ \A j \in Replicas \ {i} : u[j] = x.nv.vcs[j]
       /\ \A j \in Replicas : IsRec(u[j], IFields)
  <2>1. PICK t : t = x.nv.vcs
    OBVIOUS
  <2>2. t = [j \in Replicas |-> t[j]] /\ \A j \in Replicas : IsRec(t[j], IFields)
    BY <2>1 DEF Ready, NvShape, IsRec
  <2>3. u = [j \in Replicas |-> u[j]] /\ \A j \in Replicas : u[j] = IF j = i THEN c ELSE t[j]
    BY <1>7, <2>1, <2>2
  <2>4. IsRec(u, Replicas)
    BY <2>3 DEF IsRec
  <2> QED BY <1>6, <2>1, <2>2, <2>3, <2>4
<1>13. /\ y.nv.min = x.nv.min /\ y.nv.max = x.nv.max /\ y.nv.chosen = x.nv.chosen
       /\ y.nv.ckpts = x.nv.ckpts /\ y.nv.msg = x.nv.msg /\ y.nv.v = x.nv.v
       /\ y.nv.calls = x.nv.calls /\ y.nv.reqs = x.nv.reqs /\ y.nv.complete = x.nv.complete
  BY <1>4, <1>10 DEF Touch, NFields
<1>14. \A f \in XFields \ {"nv", "slot"} : y[f] = x[f]
  BY <1>3, <1>10 DEF Touch, Rest
<1>15. y.slot = s /\ y.id = x.id
  BY <1>3, <1>10, <1>14 DEF Touch, Rest, XFields
<1>16. NvShape(y.nv)
  BY <1>10, <1>12, <1>13 DEF Ready, NvShape, Touch
<1>17. \A j \in Replicas : y.nv.vcs[j].vc => VcOK(y.slot[j], j)
  BY <1>10, <1>11, <1>12, <1>15 DEF Ready
<1>18. leads(y) => Refers(y.nv)
  <2>1. leads(y) => leads(x)
    BY <1>13, <1>15 DEF leads
  <2>2. \A j \in Replicas : x.nv.vcs[j].vc => y.nv.vcs[j].vc
    BY <1>6, <1>10, <1>12
  <2> QED BY <1>13, <2>1, <2>2 DEF Ready, Refers, has_vc
<1>19. Ready(y)
  BY <1>10, <1>13, <1>16, <1>17, <1>18 DEF Ready, Touch
<1>20. vc.id = i
  BY DEF VcOK
<1> QED BY <1>6, <1>9, <1>10, <1>11, <1>12, <1>13, <1>14, <1>15, <1>19, <1>20 DEF VcAdded

(* ... marking it in the own New_view ... *)
LEMMA PutMsgVc ==
  ASSUME NEW x, Ready(x), leads(x), NEW i \in Replicas, x.nv.vcs[i].vc, NEW m
  PROVE  Framed(x, [x EXCEPT !.nv.msg.vcs[i] = m])
<1>1. PICK q : q = x.nv.msg
  OBVIOUS
<1>2. PICK t : t = [q.vcs EXCEPT ![i] = m]
  OBVIOUS
<1>3. PICK n : n = [q EXCEPT !.vcs = t]
  OBVIOUS
<1>4. PICK y : y = [x EXCEPT !.nv = [x.nv EXCEPT !.msg = n]]
  OBVIOUS
<1>5. Touch(x, y, {"msg"}) /\ y.nv.msg = n
  <2>1. IsRec(x, XFields) /\ IsRec(x.nv, NFields)
    BY ReadyHas
  <2>2. "msg" \in NFields
    BY Names
  <2> QED BY <1>4, <2>1, <2>2, PutField
<1>6. IsRec(q, MFields) /\ IsRec(q.vcs, Replicas)
  BY <1>1 DEF Ready, MsgOK, Refers
<1>7. IsRec(n, MFields) /\ n.vcs = t /\ n.v = q.v /\ n.min = q.min /\ n.max = q.max
  BY <1>3, <1>6 DEF IsRec, MFields
<1>8. IsRec(t, Replicas) /\ \A j \in Replicas \ {i} : t[j] = q.vcs[j]
  BY <1>2, <1>6 DEF IsRec
<1>9. /\ y.nv.min = x.nv.min /\ y.nv.max = x.nv.max /\ y.nv.chosen = x.nv.chosen
      /\ y.nv.ckpts = x.nv.ckpts /\ y.nv.vcs = x.nv.vcs /\ y.nv.v = x.nv.v
      /\ y.nv.calls = x.nv.calls /\ y.nv.reqs = x.nv.reqs
  BY <1>5 DEF Touch, NFields
<1>10. y.slot = x.slot /\ y.id = x.id
  BY <1>5, RestFields DEF Touch
<1>11. NvShape(y.nv)
  BY <1>5, <1>9 DEF Ready, NvShape, Touch
<1>12. MsgOK(y.nv.msg, y.nv.v)
  BY <1>1, <1>5, <1>7, <1>9 DEF Ready, MsgOK
<1>13. Refers(y.nv)
  <2>1. \A j \in Replicas \ {i} : has_vc(n, j) => has_vc(q, j)
    BY <1>7, <1>8 DEF has_vc
  <2> QED BY <1>1, <1>5, <1>7, <1>8, <1>9, <2>1 DEF Ready, Refers
<1>14. Ready(y)
  BY <1>5, <1>9, <1>10, <1>11, <1>12, <1>13 DEF Ready, Touch
<1>15. Framed(x, y)
  BY <1>5, <1>9, <1>14 DEF Framed, Touch, Ready, NvShape, CkptsOK, IsSeq
<1> QED BY <1>1, <1>2, <1>3, <1>4, <1>15

(* ... and nv_add_vc() as a whole. *)
LEMMA AddVc ==
  ASSUME NEW x, Ready(x), IsRec(x.slot, Replicas), NEW i \in Replicas, NEW vc, VcOK(vc, i)
  PROVE  VcAdded(x, nv_add_vc(x, vc), vc)
<1>1. PICK y : y = PutVc(x, i, vc)
  OBVIOUS
<1>2. vc.id = i
  BY DEF VcOK
<1>3. VcAdded(x, y, vc)
  BY <1>1, PutVcAdded
<1>4. Ready(y) /\ y.nv.vcs[i].vc /\ leads(y) = leads(x) /\ y.id = x.id
  BY <1>2, <1>3 DEF VcAdded, leads, XFields
<1>5. CASE leads(x)
  <2>1. PICK z : z = [y EXCEPT !.nv.msg.vcs[i] = vc]
    OBVIOUS
  <2>2. Framed(y, z) /\ Ready(z)
    BY <1>4, <1>5, <2>1, PutMsgVc, FramedReady
  <2>3. leads(z) /\ z.nv.vcs[i].vc
    BY <1>4, <1>5, <2>2, FramedLeads DEF Framed
  <2>4. Framed(y, summarize(z, i))
    BY <1>4, <2>2, <2>3, SummarizeFramed, FramedTransitive
  <2>5. nv_add_vc(x, vc) \in {y, summarize(z, i)}
    BY <1>1, <1>2, <1>5, <2>1 DEF nv_add_vc, PutVc
  <2>6. ASSUME NEW u, Framed(y, u) PROVE VcAdded(x, u, vc)
    <3>1. u.slot = y.slot /\ \A f \in XFields \ {"nv", "slot"} : u[f] = x[f]
      BY <1>3, <2>6 DEF VcAdded, Framed, Rest, XFields
    <3> QED BY <1>2, <1>3, <1>5, <2>6, <3>1 DEF VcAdded, Framed
  <2> QED BY <1>3, <2>4, <2>5, <2>6
<1>6. CASE ~leads(x)
  <2>1. Checked(y, check_new_view(y))
    BY <1>4, <1>6, CheckNewView
  <2>2. nv_add_vc(x, vc) \in {y, check_new_view(y)}
    BY <1>1, <1>2, <1>6 DEF nv_add_vc, PutVc
  <2>3. PICK u : u = check_new_view(y)
    OBVIOUS
  <2>4. Checked(y, u)
    BY <2>1, <2>3
  <2>5. u.slot = y.slot /\ \A f \in XFields \ {"nv", "slot"} : u[f] = x[f]
    BY <1>3, <2>4 DEF VcAdded, Checked, Rest, XFields
  <2>6. Quorum(y.nv) => Quorum(u.nv)
    <3>1. Holders(u.nv) = Holders(y.nv)
      BY <2>4 DEF Checked, Holders
    <3> QED BY <3>1 DEF Quorum
  <2>7. VcAdded(x, u, vc)
    BY <1>2, <1>3, <2>4, <2>5, <2>6 DEF VcAdded, Checked
  <2> QED BY <1>3, <2>2, <2>3, <2>7
<1> QED BY <1>5, <1>6

(* An acknowledgement is added by a framed step. *)
LEMMA AddAck ==
  ASSUME NEW x, Ready(x), NEW a, a.vcid \in Replicas, nv_takes_ack(x, a)
  PROVE  Framed(x, nv_add_ack(x, a))
<1>1. PICK i \in Replicas : i = a.vcid
  OBVIOUS
<1>2. PICK c : c = [x.nv.vcs[i] EXCEPT !.acks = @ \cup {a.id}]
  OBVIOUS
<1>3. IsRec(c, IFields) /\ c.vc = x.nv.vcs[i].vc
  BY <1>2 DEF Ready, NvShape, IsRec, IFields
<1>4. PICK y : y = [x EXCEPT !.nv = [x.nv EXCEPT !.vcs = [x.nv.vcs EXCEPT ![i] = c]]]
  OBVIOUS
<1>5. Framed(x, y) /\ Ready(y)
  BY <1>3, <1>4, PutVcs, FramedReady
<1>6. y = [x EXCEPT !.nv.vcs[i].acks = @ \cup {a.id}]
  BY <1>2, <1>4
<1>7. PICK z : z = [y EXCEPT !.nv.msg.vcs[i] = x.slot[i]]
  OBVIOUS
<1>8. leads(x) => Framed(x, summarize(z, i))
  <2> SUFFICES ASSUME leads(x) PROVE Framed(x, summarize(z, i))
    OBVIOUS
  <2>1. leads(y) /\ y.nv.vcs[i].vc
    BY <1>1, <1>5, FramedLeads DEF Framed, nv_takes_ack
  <2>2. Framed(y, z) /\ Ready(z)
    BY <1>5, <1>7, <2>1, PutMsgVc, FramedReady
  <2>3. leads(z) /\ z.nv.vcs[i].vc
    BY <2>1, <2>2, FramedLeads DEF Framed
  <2>4. Framed(z, summarize(z, i))
    BY <2>2, <2>3, SummarizeFramed
  <2> QED BY <1>5, <2>2, <2>4, FramedTransitive
<1>9. \/ nv_add_ack(x, a) \in {x, y}
      \/ leads(x) /\ nv_add_ack(x, a) = summarize(z, i)
  BY <1>1, <1>6, <1>7 DEF nv_add_ack
<1> QED BY <1>5, <1>8, <1>9, FramedReflexive

(* So are missing pre-prepares and proofs. *)
LEMMA AddMissingFramed ==
  ASSUME NEW x, Ready(x), NEW i, NEW n, NEW d
  PROVE  Framed(x, nv_add_missing_pp(x, n, d)) /\ Framed(x, nv_add_missing_p(x, i, n, d))
<1>1. PICK j : j = nv_entry(x, n, d)
  OBVIOUS
<1>2. PICK e : e = [x.nv.reqs[n][j] EXCEPT !.pi = TRUE]
  OBVIOUS
<1>3. PICK y : y = [x EXCEPT !.nv.reqs[n][j] = e]
  OBVIOUS
<1>4. Framed(x, check_comp(y, n, j))
  <2>1. Framed(x, y) /\ Ready(y)
    BY <1>3, PutReq, FramedReady
  <2> QED BY <2>1, CheckCompFramed, FramedTransitive
<1>5. PICK g : g = [x.nv.reqs[n][j] EXCEPT !.pproofs = @ \cup {i}]
  OBVIOUS
<1>6. PICK z : z = [x EXCEPT !.nv.reqs[n][j] = g]
  OBVIOUS
<1>7. Framed(x, check_comp(z, n, j))
  <2>1. Framed(x, z) /\ Ready(z)
    BY <1>6, PutReq, FramedReady
  <2> QED BY <2>1, CheckCompFramed, FramedTransitive
<1>8. y = [x EXCEPT !.nv.reqs[n][j].pi = TRUE] /\ z = [x EXCEPT !.nv.reqs[n][j].pproofs = @ \cup {i}]
  BY <1>2, <1>3, <1>5, <1>6
<1>9. nv_add_missing_pp(x, n, d) \in {x, check_comp(y, n, j)}
  BY <1>1, <1>8 DEF nv_add_missing_pp
<1>10. nv_add_missing_p(x, i, n, d) \in {x, check_comp(z, n, j)}
  BY <1>1, <1>8 DEF nv_add_missing_p
<1> QED BY <1>4, <1>7, <1>9, <1>10, FramedReflexive

-----------------------------------------------------------------------------
(* A replica x that uses the NV_info of last_nvs[p] in x.nv. *)
In(x, p, L) ==
  /\ Base(x, L) /\ Ready(x) /\ x.nv.v > 0 /\ p \in Replicas
  /\ Info(x, x.nv, p, L) /\ \A q \in Replicas \ {p} : Info(x, x.nvs[q], q, L)

(* The shape of a replica. *)
LEMMA BaseFields ==
  ASSUME NEW x, NEW L, Base(x, L)
  PROVE  /\ IsRec(x, XFields) /\ x.id \in Replicas /\ x.v \in Nat /\ IsRec(x.nvs, Replicas)
         /\ IsRec(x.slot, Replicas) /\ L \in [Replicas -> Nat]
BY DEF Base, Shaped

(* The NV_info of the replica itself is that of a primary. *)
LEMMA InLeads ==
  ASSUME NEW x, NEW p, NEW L, In(x, p, L)
  PROVE  leads(x) <=> p = x.id
BY DEF In, Info, NvOK, leads

Stored(x, y, p) ==
  /\ IsRec(y, XFields) /\ y.nvs = [x.nvs EXCEPT ![p] = x.nv]
  /\ \A f \in XFields \ {"nv", "nvs"} : y[f] = x[f]

(* Storing an NV_info ... *)
LEMMA StoreFields ==
  ASSUME NEW x, NEW p, IsRec(x, XFields)
  PROVE  Stored(x, Store(x, p), p)
<1>1. PICK n : n = [x.nvs EXCEPT ![p] = x.nv]
  OBVIOUS
<1>2. PICK y : y = [x EXCEPT !.nvs = n, !.nv = Empty_NV_info]
  OBVIOUS
<1>3. y = Store(x, p)
  BY <1>1, <1>2 DEF Store
<1>4. IsRec(y, XFields) /\ y.nvs = n /\ \A f \in XFields \ {"nv", "nvs"} : y[f] = x[f]
  BY <1>2 DEF IsRec, XFields
<1> QED BY <1>1, <1>3, <1>4 DEF Stored

(* ... and loading it. *)
LEMMA LoadFields ==
  ASSUME NEW x, NEW p, IsRec(x, XFields)
  PROVE  /\ IsRec(Load(x, p), XFields) /\ Load(x, p).nv = x.nvs[p]
         /\ \A f \in XFields \ {"nv"} : Load(x, p)[f] = x[f]
<1>1. PICK n : n = x.nvs[p]
  OBVIOUS
<1>2. PICK y : y = [x EXCEPT !.nv = n]
  OBVIOUS
<1>3. IsRec(y, XFields) /\ y.nv = n /\ \A f \in XFields \ {"nv"} : y[f] = x[f]
  BY <1>2 DEF IsRec, XFields
<1> QED BY <1>1, <1>2, <1>3 DEF Load

(* Base and Info do not look at the NV_infos' place. *)
LEMMA BaseSame ==
  ASSUME NEW x, NEW y, NEW L, Base(x, L), IsRec(y, XFields), IsRec(y.nvs, Replicas),
         \A f \in XFields \ {"nv", "nvs"} : y[f] = x[f]
  PROVE  Base(y, L) /\ \A nv, p : Info(x, nv, p, L) => Info(y, nv, p, L)
<1>1. /\ y.id = x.id /\ y.v = x.v /\ y.last_stable = x.last_stable /\ y.ckpts = x.ckpts
      /\ y.last_views = x.last_views /\ y.last_vcs = x.last_vcs /\ y.slot = x.slot
      /\ y.sent = x.sent /\ y.vacks = x.vacks
  BY DEF XFields
<1>2. Base(y, L)
  BY <1>1 DEF Base, Shaped
<1>3. ASSUME NEW nv, NEW p, Info(x, nv, p, L) PROVE Info(y, nv, p, L)
  BY <1>1, <1>3 DEF Info
<1> QED BY <1>2, <1>3

(* A replica whose loaded NV_info is right is right once it is stored ... *)
LEMMA StoreRow ==
  ASSUME NEW x, NEW p, NEW L, In(x, p, L)
  PROVE  Row(Store(x, p), L)
<1>1. PICK y : y = Store(x, p)
  OBVIOUS
<1>2. /\ IsRec(y, XFields) /\ y.nvs = [x.nvs EXCEPT ![p] = x.nv]
      /\ \A f \in XFields \ {"nv", "nvs"} : y[f] = x[f]
  <2>1. IsRec(x, XFields)
    BY BaseFields DEF In
  <2>2. Stored(x, y, p)
    BY <1>1, <2>1, StoreFields
  <2> QED BY <2>2 DEF Stored
<1>3. IsRec(y.nvs, Replicas) /\ y.nvs[p] = x.nv /\ \A q \in Replicas \ {p} : y.nvs[q] = x.nvs[q]
  <2>1. IsRec(x.nvs, Replicas) /\ p \in Replicas
    BY BaseFields DEF In
  <2> QED BY <1>2, <2>1 DEF IsRec
<1>4. Base(y, L) /\ \A nv, q : Info(x, nv, q, L) => Info(y, nv, q, L)
  <2>1. Base(x, L)
    BY DEF In
  <2> QED BY <1>2, <1>3, <2>1, BaseSame
<1>5. ASSUME NEW q \in Replicas PROVE Info(y, y.nvs[q], q, L)
  <2>1. CASE q = p
    BY <1>3, <1>4, <2>1 DEF In
  <2>2. CASE q # p
    BY <1>3, <1>4, <2>2 DEF In
  <2> QED BY <2>1, <2>2
<1> QED BY <1>1, <1>4, <1>5 DEF Row

(* ... and the other way round. *)
LEMMA LoadIn ==
  ASSUME NEW x, NEW p \in Replicas, NEW L, Row(x, L), Live(x.nvs[p])
  PROVE  In(Load(x, p), p, L)
<1>1. PICK y : y = Load(x, p)
  OBVIOUS
<1>2. Base(x, L) /\ Info(x, x.nvs[p], p, L)
  BY DEF Row
<1>3. IsRec(y, XFields) /\ y.nv = x.nvs[p] /\ \A f \in XFields \ {"nv"} : y[f] = x[f]
  BY <1>1, <1>2, LoadFields, BaseFields
<1>4. y.nvs = x.nvs /\ y.slot = x.slot /\ y.id = x.id
  BY <1>3 DEF XFields
<1>5. Base(y, L) /\ \A nv, q : Info(x, nv, q, L) => Info(y, nv, q, L)
  <2>1. IsRec(y.nvs, Replicas)
    BY <1>2, <1>4, BaseFields
  <2> QED BY <1>2, <1>3, <2>1, BaseSame
<1>6. Info(y, y.nv, p, L) /\ \A q \in Replicas \ {p} : Info(y, y.nvs[q], q, L)
  BY <1>2, <1>3, <1>4, <1>5 DEF Row
<1>7. y.nv.v > 0 /\ Ready(y)
  BY <1>3, <1>6 DEF Info, NvOK, Ready, leads
<1> QED BY <1>1, <1>5, <1>6, <1>7 DEF In

(* As long as the NV_info keeps its view and its View_changes. *)
LEMMA InFramed ==
  ASSUME NEW x, NEW y, NEW p, NEW L, In(x, p, L), Framed(x, y),
         p = x.id \/ Quorum(x.nv) \/ y.nv.complete = x.nv.complete
  PROVE  In(y, p, L)
<1>1. /\ y.nv.v = x.nv.v /\ Ready(y) /\ y.nvs = x.nvs /\ y.slot = x.slot /\ y.id = x.id
      /\ y.v = x.v /\ \A i \in Replicas : y.nv.vcs[i].vc = x.nv.vcs[i].vc
  BY RestFields DEF Framed
<1>2. \A f \in XFields \ {"nv", "nvs"} : y[f] = x[f]
  BY DEF Framed, Rest
<1>3. Base(x, L)
  BY DEF In
<1>4. Base(y, L) /\ \A nv, q : Info(x, nv, q, L) => Info(y, nv, q, L)
  <2>1. IsRec(y.nvs, Replicas) /\ IsRec(y, XFields)
    BY <1>1, <1>3, BaseFields, ReadyHas
  <2> QED BY <1>2, <1>3, <2>1, BaseSame
<1>5. \A q \in Replicas \ {p} : Info(y, y.nvs[q], q, L)
  BY <1>1, <1>4 DEF In
<1>6. Info(y, y.nv, p, L)
  <2>1. Quorum(y.nv) <=> Quorum(x.nv)
    <3>1. Holders(y.nv) = Holders(x.nv)
      BY <1>1 DEF Holders
    <3> QED BY <3>1 DEF Quorum
  <2>2. p # x.id => y.nv.chosen = x.nv.chosen
    BY InLeads DEF Framed
  <2>3. NvOK(y.nv, p)
    BY <1>1 DEF In, Info, NvOK, Ready
  <2>4. p = x.id => Refers(y.nv)
    <3>1. leads(y) <=> leads(x)
      BY FramedLeads
    <3> QED BY <1>1, <3>1, InLeads DEF Ready
  <2>5. Info(x, x.nv, p, L)
    BY DEF In
  <2> QED BY <1>1, <2>1, <2>2, <2>3, <2>4, <2>5 DEF Info
<1> QED BY <1>1, <1>4, <1>5, <1>6 DEF In

(* A larger set of replicas. *)
LEMMA Wider ==
  ASSUME NEW S \in SUBSET Replicas, NEW T \in SUBSET Replicas, S \subseteq T
  PROVE  Cardinality(S) \in Nat /\ Cardinality(T) \in Nat /\ Cardinality(S) <= Cardinality(T)
<1>1. IsFiniteSet(T) /\ Cardinality(S) \in Nat /\ Cardinality(T) \in Nat
  BY ReplicasFinite
<1> QED BY <1>1, FS_Subset

(* A quorum with more View_changes is a quorum. *)
LEMMA WiderQuorum ==
  ASSUME NEW m, NEW n, Quorum(m), \A i \in Replicas : m.vcs[i].vc => n.vcs[i].vc
  PROVE  Quorum(n)
<1>1. Holders(m) \subseteq Holders(n) /\ Holders(m) \in SUBSET Replicas /\ Holders(n) \in SUBSET Replicas
  BY DEF Holders
<1>2. PICK a, b : a = Cardinality(Holders(m)) /\ b = Cardinality(Holders(n))
  OBVIOUS
<1>3. a \in Nat /\ b \in Nat /\ a <= b
  BY <1>1, <1>2, Wider
<1>4. n_f \in Nat
  BY ReplicasFinite DEF n_f
<1> QED BY <1>2, <1>3, <1>4 DEF Quorum

(* A View_change of i that the NV_info takes. *)
LEMMA InVc ==
  ASSUME NEW x, NEW y, NEW p, NEW L, NEW vc, NEW i \in Replicas, In(x, p, L), VcOK(vc, i),
         VcAdded(x, y, vc), x.nv.v <= L[i], x.last_vcs[i] => vc.v <= L[i]
  PROVE  In(y, p, L)
<1>1. vc.id = i
  BY DEF VcOK
<1>2. /\ y.nv.v = x.nv.v /\ Ready(y) /\ IsRec(y.slot, Replicas) /\ y.slot[i] = vc
      /\ y.nv.vcs[i].vc = TRUE
      /\ \A j \in Replicas \ {i} : y.slot[j] = x.slot[j] /\ y.nv.vcs[j].vc = x.nv.vcs[j].vc
  BY <1>1 DEF VcAdded
<1>3. /\ y.id = x.id /\ y.v = x.v /\ y.last_stable = x.last_stable /\ y.ckpts = x.ckpts
      /\ y.last_views = x.last_views /\ y.last_vcs = x.last_vcs /\ y.nvs = x.nvs
      /\ y.sent = x.sent /\ y.vacks = x.vacks
  BY DEF VcAdded, XFields
<1>4. Base(x, L) /\ IsRec(y, XFields)
  BY <1>2, ReadyHas DEF In
<1>5. \A j \in Replicas : VcOK(x.slot[j], j) => VcOK(y.slot[j], j)
  BY <1>2
<1>6. Base(y, L)
  <2>1. Shaped(y) /\ Sends(y.sent, y.id) /\ Acked(y.vacks) /\ L \in [Replicas -> Nat] /\ L[y.id] <= y.v
    BY <1>2, <1>3, <1>4 DEF Base, Shaped
  <2>2. \A j \in Replicas : y.last_vcs[j] => VcOK(y.slot[j], j) /\ y.slot[j].v <= L[j]
    BY <1>2, <1>3, <1>4 DEF Base
  <2> QED BY <2>1, <2>2 DEF Base
<1>7. \A q \in Replicas \ {p} : Info(y, y.nvs[q], q, L)
  <2>1. ASSUME NEW q \in Replicas \ {p} PROVE Info(y, y.nvs[q], q, L)
    <3>1. Info(x, x.nvs[q], q, L)
      BY DEF In
    <3> QED BY <1>3, <1>5, <3>1 DEF Info
  <2> QED BY <2>1
<1>8. Info(y, y.nv, p, L)
  <2>1. Info(x, x.nv, p, L) /\ p \in Replicas
    BY DEF In
  <2>2. NvOK(y.nv, p)
    BY <1>2, <2>1 DEF In, Info, NvOK, Ready
  <2>3. \A j \in Replicas : y.nv.vcs[j].vc => VcOK(y.slot[j], j) /\ y.nv.v <= L[j]
    BY <1>2, <1>5, <2>1 DEF Info
  <2>4. p = x.id => Refers(y.nv)
    <3>1. leads(y) <=> leads(x)
      BY <1>2, <1>3 DEF leads
    <3> QED BY <1>2, <3>1, InLeads DEF Ready
  <2>5. Quorum(x.nv) => Quorum(y.nv)
    BY <1>2, WiderQuorum
  <2>6. p # x.id => \/ y.nv.chosen = x.nv.chosen /\ y.nv.complete = x.nv.complete
                    \/ Quorum(y.nv)
    BY InLeads DEF VcAdded
  <2> QED BY <1>2, <1>3, <2>1, <2>2, <2>3, <2>4, <2>5, <2>6 DEF Info
<1> QED BY <1>2, <1>6, <1>7, <1>8 DEF In

-----------------------------------------------------------------------------
(* Who is heard, while the NV_info of last_nvs[p] is used. *)
At(x, p, w) == IF primary(w) = p THEN x.nv ELSE x.nvs[primary(w)]
HeardIn(x, p, w) ==
  {i \in Replicas : \/ At(x, p, w).v = w /\ At(x, p, w).vcs[i].vc
                    \/ x.last_vcs[i] /\ x.slot[i].v >= w}
QuietIn(x, y, p) == \A w \in Nat : HeardIn(y, p, w) \subseteq HeardIn(x, p, w)
Quieter(x, y) == \A w \in Nat : Heard(y, w) \subseteq Heard(x, w)

(* The primary of a view is a replica. *)
LEMMA PrimaryIn ==
  ASSUME NEW w \in Nat
  PROVE  primary(w) \in Replicas
<1>1. PICK n \in Nat : n = 3 * F + 1 /\ n > 0
  BY ReplicasFinite
<1>2. w % n \in 0..(n - 1)
  BY <1>1
<1>3. 0..(n - 1) = Replicas
  BY <1>1, ReplicasFinite DEF Replicas
<1> QED BY <1>1, <1>2, <1>3 DEF primary

(* Storing does not change what was heard of a view ... *)
LEMMA StoreHeard ==
  ASSUME NEW x, NEW p \in Replicas, NEW w \in Nat, IsRec(x, XFields), IsRec(x.nvs, Replicas)
  PROVE  Heard(Store(x, p), w) = HeardIn(x, p, w)
<1>1. PICK y : y = Store(x, p)
  OBVIOUS
<1>2. /\ y.nvs = [x.nvs EXCEPT ![p] = x.nv] /\ y.last_vcs = x.last_vcs /\ y.slot = x.slot
  <2>1. Stored(x, y, p)
    BY <1>1, StoreFields
  <2> QED BY <2>1 DEF Stored, XFields
<1>3. y.nvs[primary(w)] = At(x, p, w)
  BY <1>2, PrimaryIn DEF At, IsRec
<1> QED BY <1>1, <1>2, <1>3 DEF Heard, HeardIn

(* ... and loading does not. *)
LEMMA LoadHeard ==
  ASSUME NEW x, NEW p, NEW w, IsRec(x, XFields)
  PROVE  HeardIn(Load(x, p), p, w) = Heard(x, w)
<1>1. PICK y : y = Load(x, p)
  OBVIOUS
<1>2. y.nvs = x.nvs /\ y.nv = x.nvs[p] /\ y.last_vcs = x.last_vcs /\ y.slot = x.slot
  BY <1>1, LoadFields DEF XFields
<1>3. At(y, p, w) = x.nvs[primary(w)]
  BY <1>2 DEF At
<1> QED BY <1>1, <1>2, <1>3 DEF Heard, HeardIn

(* A framed change hears of no new view. *)
LEMMA FramedQuiet ==
  ASSUME NEW x, NEW y, NEW p, Framed(x, y)
  PROVE  QuietIn(x, y, p)
<1>1. /\ y.nv.v = x.nv.v /\ \A i \in Replicas : y.nv.vcs[i].vc = x.nv.vcs[i].vc
      /\ y.nvs = x.nvs /\ y.slot = x.slot /\ y.last_vcs = x.last_vcs
  BY RestFields DEF Framed
<1>2. ASSUME NEW w \in Nat PROVE HeardIn(y, p, w) = HeardIn(x, p, w)
  <2>1. At(y, p, w).v = At(x, p, w).v
    BY <1>1 DEF At
  <2>2. \A i \in Replicas : At(y, p, w).vcs[i].vc = At(x, p, w).vcs[i].vc
    BY <1>1 DEF At
  <2> QED BY <1>1, <2>1, <2>2 DEF HeardIn
<1> QED BY <1>2 DEF QuietIn

(* Quiet changes of one NV_info are quiet for the replica. *)
LEMMA QuietStore ==
  ASSUME NEW x, NEW y, NEW p \in Replicas, NEW L, Base(x, L), Base(y, L), QuietIn(Load(x, p), y, p)
  PROVE  Quieter(x, Store(y, p))
<1>1. ASSUME NEW w \in Nat PROVE Heard(Store(y, p), w) \subseteq Heard(x, w)
  <2>1. Heard(Store(y, p), w) = HeardIn(y, p, w)
    BY BaseFields, StoreHeard
  <2>2. HeardIn(Load(x, p), p, w) = Heard(x, w)
    BY BaseFields, LoadHeard
  <2> QED BY <2>1, <2>2 DEF QuietIn
<1> QED BY <1>1 DEF Quieter

(* A quieter replica has heard from as few. *)
LEMMA QuieterFew ==
  ASSUME NEW x, NEW y, NEW v, Few(x, v), Quieter(x, y)
  PROVE  Few(y, v)
<1> SUFFICES ASSUME NEW w \in Nat, w > v PROVE Cardinality(Heard(y, w)) <= F
  BY DEF Few
<1>1. Heard(y, w) \subseteq Heard(x, w) /\ Heard(y, w) \in SUBSET Replicas /\ Heard(x, w) \in SUBSET Replicas
  BY DEF Quieter, Heard
<1>2. PICK a, b : a = Cardinality(Heard(y, w)) /\ b = Cardinality(Heard(x, w))
  OBVIOUS
<1>3. a \in Nat /\ b \in Nat /\ a <= b
  BY <1>1, <1>2, Wider
<1>4. b <= F /\ F \in Nat
  BY <1>2, ReplicasFinite DEF Few
<1> QED BY <1>2, <1>3, <1>4

-----------------------------------------------------------------------------
(* The View_changes and acknowledgements that were buffered are moved to    *)
(* the NV_info: nobody more is heard, and the rest stays.                   *)
Kin(x, y) == \A f \in XFields \ {"nv", "nvs", "slot", "last_vcs", "vacks"} : y[f] = x[f]

Moved(x, y, p, L) == In(y, p, L) /\ QuietIn(x, y, p) /\ Kin(x, y) /\ y.nv.v = x.nv.v

(* What a change of the messages of a view leaves alone, field by field. *)
LEMMA KinFields ==
  ASSUME NEW x, NEW y, Kin(x, y)
  PROVE  /\ y.id = x.id /\ y.v = x.v /\ y.last_views = x.last_views /\ y.sent = x.sent
         /\ y.oplog = x.oplog /\ y.last_stable = x.last_stable /\ y.ckpts = x.ckpts
BY DEF Kin, XFields

(* Moving messages into an NV_info composes: none ... *)
LEMMA MovedReflexive ==
  ASSUME NEW x, NEW p, NEW L, In(x, p, L)
  PROVE  Moved(x, x, p, L)
BY DEF Moved, QuietIn, Kin

(* ... and two are one. *)
LEMMA MovedTransitive ==
  ASSUME NEW x, NEW y, NEW z, NEW p, NEW L, Moved(x, y, p, L), Moved(y, z, p, L)
  PROVE  Moved(x, z, p, L)
BY DEF Moved, QuietIn, Kin

(* A framed change moves nothing. *)
LEMMA MovedFramed ==
  ASSUME NEW x, NEW y, NEW p, NEW L, In(x, p, L), Framed(x, y),
         p = x.id \/ Quorum(x.nv) \/ y.nv.complete = x.nv.complete
  PROVE  Moved(x, y, p, L)
<1>1. In(y, p, L) /\ QuietIn(x, y, p)
  BY InFramed, FramedQuiet
<1> QED BY <1>1 DEF Moved, Framed, Rest, Kin

(* Base and Info when little changes. *)
LEMMA InSame ==
  ASSUME NEW x, NEW y, NEW p, NEW L, In(x, p, L), Base(y, L), y.id = x.id, y.v = x.v,
         y.slot = x.slot, y.nv = x.nv, y.nvs = x.nvs
  PROVE  In(y, p, L)
<1>1. Ready(y)
  <2>1. Ready(x) /\ IsRec(y, XFields)
    BY BaseFields DEF In
  <2> QED BY <2>1 DEF Ready, leads
<1>2. \A nv, q : Info(x, nv, q, L) => Info(y, nv, q, L)
  BY DEF Info
<1> QED BY <1>1, <1>2 DEF In

(* What the invariant of a replica depends on. *)
LEMMA RowSame ==
  ASSUME NEW x, NEW y, NEW L, Row(x, L), Base(y, L), y.id = x.id, y.v = x.v, y.slot = x.slot,
         y.nvs = x.nvs
  PROVE  Row(y, L)
<1>1. \A nv, q : Info(x, nv, q, L) => Info(y, nv, q, L)
  BY DEF Info
<1> QED BY <1>1 DEF Row

setLast(x, i, b) == [x EXCEPT !.last_vcs[i] = b]
LastSet(x, y, i, b) ==
  /\ IsRec(y, XFields) /\ y.last_vcs = [x.last_vcs EXCEPT ![i] = b]
  /\ \A f \in XFields \ {"last_vcs"} : y[f] = x[f]
(* Forgetting or keeping the last View_change of a replica ... *)
LEMMA SetLast ==
  ASSUME NEW x, NEW i, NEW b, IsRec(x, XFields)
  PROVE  LastSet(x, setLast(x, i, b), i, b)
<1>1. PICK l : l = [x.last_vcs EXCEPT ![i] = b]
  OBVIOUS
<1>2. PICK y : y = [x EXCEPT !.last_vcs = l]
  OBVIOUS
<1>3. IsRec(y, XFields) /\ y.last_vcs = l /\ \A f \in XFields \ {"last_vcs"} : y[f] = x[f]
  BY <1>2 DEF IsRec, XFields
<1> QED BY <1>1, <1>2, <1>3 DEF setLast, LastSet

(* ... of which forgetting keeps the invariant. *)
LEMMA DropLast ==
  ASSUME NEW x, NEW p, NEW L, NEW i, In(x, p, L)
  PROVE  /\ In(setLast(x, i, FALSE), p, L) /\ Kin(x, setLast(x, i, FALSE))
         /\ setLast(x, i, FALSE).nv = x.nv
<1>1. PICK y : y = setLast(x, i, FALSE)
  OBVIOUS
<1>2. PICK l : l = [x.last_vcs EXCEPT ![i] = FALSE]
  OBVIOUS
<1>3. Base(x, L)
  BY DEF In
<1>4. IsRec(y, XFields) /\ y.last_vcs = l /\ \A f \in XFields \ {"last_vcs"} : y[f] = x[f]
  <2>1. LastSet(x, y, i, FALSE)
    BY <1>1, <1>3, SetLast, BaseFields
  <2> QED BY <1>2, <2>1 DEF LastSet
<1>5. l \in [Replicas -> BOOLEAN] /\ \A j \in Replicas : l[j] => x.last_vcs[j]
  BY <1>2, <1>3 DEF Base, Shaped
<1>6. /\ y.id = x.id /\ y.v = x.v /\ y.last_stable = x.last_stable /\ y.ckpts = x.ckpts
      /\ y.last_views = x.last_views /\ y.nvs = x.nvs /\ y.nv = x.nv /\ y.slot = x.slot
      /\ y.sent = x.sent /\ y.vacks = x.vacks
  BY <1>4 DEF XFields
<1>7. Base(y, L)
  BY <1>3, <1>4, <1>5, <1>6 DEF Base, Shaped
<1>8. In(y, p, L)
  BY <1>6, <1>7, InSame
<1> QED BY <1>1, <1>4, <1>6, <1>8 DEF Kin

(* Adding a View_change leaves the rest of the replica alone. *)
LEMMA VcKin ==
  ASSUME NEW x, NEW y, NEW vc, VcAdded(x, y, vc)
  PROVE  Kin(x, y) /\ y.nvs = x.nvs /\ y.last_vcs = x.last_vcs
BY DEF VcAdded, Kin, XFields

moveVc(y, i, v) ==
  IF y.last_vcs[i] /\ y.slot[i].v = v /\ nv_takes_vc(y, y.slot[i], TRUE)
  THEN [nv_add_vc(y, y.slot[i]) EXCEPT !.last_vcs[i] = FALSE] ELSE y

(* Moving one View_change into the NV_info of the view ... *)
LEMMA MoveVc ==
  ASSUME NEW x, NEW p, NEW L, NEW i \in Replicas, In(x, p, L)
  PROVE  Moved(x, moveVc(x, i, x.nv.v), p, L)
<1>1. CASE ~(x.last_vcs[i] /\ x.slot[i].v = x.nv.v /\ nv_takes_vc(x, x.slot[i], TRUE))
  BY <1>1, MovedReflexive DEF moveVc
<1>2. CASE x.last_vcs[i] /\ x.slot[i].v = x.nv.v /\ nv_takes_vc(x, x.slot[i], TRUE)
  <2>1. PICK vc : vc = x.slot[i]
    OBVIOUS
  <2>2. PICK z : z = nv_add_vc(x, vc)
    OBVIOUS
  <2>3. Base(x, L) /\ Ready(x) /\ p \in Replicas /\ x.nv.v > 0
    BY DEF In
  <2>4. VcOK(vc, i) /\ vc.v <= L[i] /\ vc.v = x.nv.v /\ IsRec(x.slot, Replicas)
    BY <1>2, <2>1, <2>3, BaseFields DEF Base
  <2>5. VcAdded(x, z, vc)
    BY <2>2, <2>3, <2>4, AddVc
  <2>6. In(z, p, L)
    BY <2>4, <2>5, InVc
  <2>7. PICK u : u = setLast(z, i, FALSE)
    OBVIOUS
  <2>8. In(u, p, L) /\ Kin(z, u) /\ u.nv = z.nv
    BY <2>6, <2>7, DropLast
  <2>9. u.nvs = z.nvs /\ u.slot = z.slot /\ u.last_vcs = [z.last_vcs EXCEPT ![i] = FALSE]
    <3>1. IsRec(z, XFields)
      BY <2>6, BaseFields DEF In
    <3>2. LastSet(z, u, i, FALSE)
      BY <2>7, <3>1, SetLast
    <3> QED BY <3>2 DEF LastSet, XFields
  <2>10. /\ z.nv.v = x.nv.v /\ z.slot[i] = vc /\ z.nvs = x.nvs /\ z.last_vcs = x.last_vcs
         /\ \A j \in Replicas \ {i} : z.slot[j] = x.slot[j] /\ z.nv.vcs[j].vc = x.nv.vcs[j].vc
    <3>1. vc.id = i
      BY <2>4 DEF VcOK
    <3>2. z.nvs = x.nvs /\ z.last_vcs = x.last_vcs
      BY <2>5, VcKin
    <3> QED BY <2>5, <3>1, <3>2 DEF VcAdded
  <2>11. x.last_vcs \in [Replicas -> BOOLEAN]
    BY <2>3 DEF Base, Shaped
  <2>12. QuietIn(x, u, p)
    <3> SUFFICES ASSUME NEW w \in Nat, NEW j \in HeardIn(u, p, w) PROVE j \in HeardIn(x, p, w)
      BY DEF QuietIn
    <3>1. j \in Replicas
      BY DEF HeardIn
    <3>2. CASE j # i
      <4>1. u.slot[j] = x.slot[j] /\ u.last_vcs[j] = x.last_vcs[j]
        BY <2>9, <2>10, <2>11, <3>1, <3>2
      <4>2. At(u, p, w).v = At(x, p, w).v /\ At(u, p, w).vcs[j].vc = At(x, p, w).vcs[j].vc
        BY <2>8, <2>9, <2>10, <3>1, <3>2 DEF At
      <4> QED BY <3>1, <4>1, <4>2 DEF HeardIn
    <3>3. CASE j = i
      <4>1. ~u.last_vcs[i]
        BY <2>9, <2>10, <2>11
      <4>2. At(u, p, w).v = w /\ At(u, p, w).vcs[i].vc
        BY <3>3, <4>1 DEF HeardIn
      <4>3. CASE primary(w) = p
        <5>1. w = vc.v
          BY <2>4, <2>8, <2>10, <4>2, <4>3 DEF At
        <5> QED BY <1>2, <2>1, <3>1, <3>3, <5>1 DEF HeardIn
      <4>4. CASE primary(w) # p
        <5>1. At(x, p, w) = At(u, p, w)
          BY <2>9, <2>10, <4>4 DEF At
        <5> QED BY <3>1, <3>3, <4>2, <5>1 DEF HeardIn
      <4> QED BY <4>3, <4>4
    <3> QED BY <3>2, <3>3
  <2>13. Kin(x, u)
    BY <2>5, <2>8, VcKin DEF Kin
  <2>14. moveVc(x, i, x.nv.v) = u
    BY <1>2, <2>1, <2>2, <2>7 DEF moveVc, setLast
  <2> QED BY <2>8, <2>10, <2>12, <2>13, <2>14 DEF Moved
<1> QED BY <1>1, <1>2

movedInv(k, i, y) == Moved(k.x, y, k.p, k.L)

vcStep(k, y, i) == moveVc(y, i, k.v)
VcLoop == INSTANCE Foundations WITH op <- vcStep, inv <- movedInv

(* ... is done in a loop ... *)
LEMMA VcIsLoop ==
  ASSUME NEW k, NEW x, NEW v, k.v = v
  PROVE  move_vcs(x, v) = VcLoop!Fold(k, x, UpTo(0, 3 * F))
BY DEF move_vcs, ReplicaSeq, VcLoop!Fold, vcStep, moveVc, FoldLeft, MapThenFoldSet,
       VcLoop!MapThenFoldSet, VcLoop!Greatest, Max

(* ... for all of them. *)
LEMMA MoveVcs ==
  ASSUME NEW x, NEW p, NEW L, In(x, p, L)
  PROVE  Moved(x, move_vcs(x, x.nv.v), p, L)
<1>1. PICK k : k = [x |-> x, p |-> p, L |-> L, v |-> x.nv.v]
  OBVIOUS
<1>2. k.x = x /\ k.p = p /\ k.L = L /\ k.v = x.nv.v
  BY <1>1
<1>3. movedInv(k, 0, x)
  BY <1>2, MovedReflexive DEF movedInv
<1>4. PICK s : s = UpTo(0, 3 * F)
  OBVIOUS
<1>5. s \in Seq(Replicas)
  BY <1>4, ReplicaUpTo
<1>6. ASSUME NEW i, NEW y, i \in 1..Len(s), movedInv(k, i - 1, y)
      PROVE  movedInv(k, i, vcStep(k, y, s[i]))
  <2>1. PICK r \in Replicas : r = s[i]
    BY <1>5, <1>6
  <2>2. Moved(x, y, p, L)
    BY <1>2, <1>6 DEF movedInv
  <2>3. In(y, p, L) /\ y.nv.v = k.v
    BY <1>2, <2>2 DEF Moved
  <2>4. Moved(y, moveVc(y, r, k.v), p, L)
    BY <2>3, MoveVc
  <2> QED BY <1>2, <2>1, <2>2, <2>4, MovedTransitive DEF vcStep, movedInv
<1>7. movedInv(k, Len(s), VcLoop!Fold(k, x, s))
  BY <1>3, <1>5, <1>6, VcLoop!FoldKeeps
<1>8. move_vcs(x, x.nv.v) = VcLoop!Fold(k, x, s)
  BY <1>2, <1>4, VcIsLoop
<1> QED BY <1>2, <1>7, <1>8 DEF movedInv

(* Acknowledgements. *)
AcksSet(x, y, a) ==
  /\ IsRec(y, XFields) /\ y.vacks = a /\ \A f \in XFields \ {"vacks"} : y[f] = x[f]
setAcks(x, a) == [x EXCEPT !.vacks = a]

(* Setting the stored acknowledgements ... *)
LEMMA SetAcks ==
  ASSUME NEW x, NEW a, IsRec(x, XFields)
  PROVE  AcksSet(x, setAcks(x, a), a)
<1>1. PICK y : y = [x EXCEPT !.vacks = a]
  OBVIOUS
<1>2. IsRec(y, XFields) /\ y.vacks = a /\ \A f \in XFields \ {"vacks"} : y[f] = x[f]
  BY <1>1 DEF IsRec, XFields
<1> QED BY <1>1, <1>2 DEF setAcks, AcksSet

(* ... keeps the shape ... *)
LEMMA AcksBase ==
  ASSUME NEW x, NEW y, NEW a, NEW L, Base(x, L), Acked(a), AcksSet(x, y, a)
  PROVE  /\ Base(y, L) /\ Kin(x, y) /\ y.nvs = x.nvs /\ y.nv = x.nv /\ y.slot = x.slot
         /\ y.last_vcs = x.last_vcs
<1>1. IsRec(y, XFields) /\ y.vacks = a /\ \A f \in XFields \ {"vacks"} : y[f] = x[f]
  BY DEF AcksSet
<1>2. /\ y.id = x.id /\ y.v = x.v /\ y.last_stable = x.last_stable /\ y.ckpts = x.ckpts
      /\ y.last_views = x.last_views /\ y.nvs = x.nvs /\ y.nv = x.nv /\ y.slot = x.slot
      /\ y.sent = x.sent /\ y.last_vcs = x.last_vcs
  BY <1>1 DEF XFields
<1>3. Base(y, L)
  BY <1>1, <1>2 DEF Base, Shaped
<1> QED BY <1>1, <1>2, <1>3 DEF Kin

(* ... when they are acknowledgements of replicas. *)
LEMMA PutAck ==
  ASSUME NEW a, Acked(a), NEW i, NEW e, i \in Replicas => /\ IsRec(e, {"v", "vacks"}) /\ IsRec(e.vacks, Replicas) /\ \A j \in Replicas : e.vacks[j] # None => e.vacks[j].vcid \in Replicas
  PROVE  Acked([a EXCEPT ![i] = e])
<1>1. PICK b : b = [a EXCEPT ![i] = e]
  OBVIOUS
<1>2. IsRec(a, Replicas)
  BY DEF Acked
<1>3. IsRec(b, Replicas) /\ \A j \in Replicas : b[j] = IF j = i THEN e ELSE a[j]
  BY <1>1, <1>2 DEF IsRec
<1>4. \A j \in Replicas :
        /\ IsRec(b[j], {"v", "vacks"}) /\ IsRec(b[j].vacks, Replicas)
        /\ \A l \in Replicas : b[j].vacks[l] # None => b[j].vacks[l].vcid \in Replicas
  <2>1. ASSUME NEW j \in Replicas
        PROVE  /\ IsRec(b[j], {"v", "vacks"}) /\ IsRec(b[j].vacks, Replicas)
               /\ \A l \in Replicas : b[j].vacks[l] # None => b[j].vacks[l].vcid \in Replicas
    <3>1. CASE j = i
      BY <1>3, <3>1
    <3>2. CASE j # i
      BY <1>3, <3>2 DEF Acked
    <3> QED BY <3>1, <3>2
  <2> QED BY <2>1
<1> QED BY <1>1, <1>3, <1>4 DEF Acked

(* Moving one acknowledgement ... *)
LEMMA MoveAck ==
  ASSUME NEW x, NEW p, NEW L, NEW i \in Replicas, NEW j \in Replicas, In(x, p, L), p = x.id
  PROVE  Moved(x, move_ack(x, i, j), p, L)
<1>1. PICK ack : ack = x.vacks[i].vacks[j]
  OBVIOUS
<1>2. CASE ~(x.vacks[i].v = x.v /\ ack # None /\ nv_takes_ack(x, ack))
  BY <1>1, <1>2, MovedReflexive DEF move_ack
<1>3. CASE x.vacks[i].v = x.v /\ ack # None /\ nv_takes_ack(x, ack)
  <2>1. Base(x, L) /\ Ready(x) /\ Acked(x.vacks)
    BY DEF In, Base
  <2>2. ack.vcid \in Replicas
    BY <1>1, <1>3, <2>1 DEF Acked
  <2>3. PICK z : z = nv_add_ack(x, ack)
    OBVIOUS
  <2>4. Framed(x, z)
    BY <1>3, <2>1, <2>2, <2>3, AddAck
  <2>5. Moved(x, z, p, L) /\ In(z, p, L) /\ z.vacks = x.vacks
    <3>1. Moved(x, z, p, L)
      BY <2>4, MovedFramed
    <3>2. z.vacks = x.vacks
      BY <2>4, RestFields DEF Framed
    <3> QED BY <3>1, <3>2 DEF Moved
  <2>6. PICK e : e = [z.vacks[i] EXCEPT !.vacks = [z.vacks[i].vacks EXCEPT ![j] = None]]
    OBVIOUS
  <2>7. PICK b : b = [z.vacks EXCEPT ![i] = e]
    OBVIOUS
  <2>8. Acked(b)
    <3>1. IsRec(z.vacks[i], {"v", "vacks"}) /\ IsRec(z.vacks[i].vacks, Replicas) /\ Acked(z.vacks)
      BY <2>1, <2>5 DEF Acked
    <3>2. PICK t : t = [z.vacks[i].vacks EXCEPT ![j] = None]
      OBVIOUS
    <3>3. IsRec(t, Replicas) /\ \A l \in Replicas : t[l] # None => t[l] = z.vacks[i].vacks[l]
      BY <3>1, <3>2 DEF IsRec
    <3>4. IsRec(e, {"v", "vacks"}) /\ e.vacks = t
      BY <2>6, <3>1, <3>2 DEF IsRec
    <3>5. \A l \in Replicas : e.vacks[l] # None => e.vacks[l].vcid \in Replicas
      BY <3>1, <3>3, <3>4 DEF Acked
    <3> QED BY <2>7, <3>1, <3>3, <3>4, <3>5, PutAck
  <2>9. PICK u : u = setAcks(z, b)
    OBVIOUS
  <2>10. Base(z, L) /\ AcksSet(z, u, b)
    <3>1. Base(z, L)
      BY <2>5 DEF In
    <3> QED BY <2>9, <3>1, SetAcks, BaseFields
  <2>11. /\ Base(u, L) /\ Kin(z, u) /\ u.nvs = z.nvs /\ u.nv = z.nv /\ u.slot = z.slot
         /\ u.last_vcs = z.last_vcs
    BY <2>8, <2>10, AcksBase
  <2>12. Moved(z, u, p, L)
    <3>1. In(u, p, L)
      BY <2>5, <2>11, KinFields, InSame
    <3>2. \A w : At(u, p, w) = At(z, p, w)
      BY <2>11 DEF At
    <3>3. QuietIn(z, u, p)
      BY <2>11, <3>2 DEF QuietIn, HeardIn
    <3> QED BY <2>11, <3>1, <3>3 DEF Moved
  <2>13. move_ack(x, i, j) = u
    BY <1>1, <1>3, <2>3, <2>6, <2>7, <2>9 DEF move_ack, setAcks
  <2> QED BY <2>5, <2>12, <2>13, MovedTransitive
<1> QED BY <1>2, <1>3

acksTo(y, i) == FoldLeft(LAMBDA z, j : move_ack(z, i, j), y, ReplicaSeq)

ackForStep(k, y, i) == move_ack(y, i, k.j)
AckForLoop == INSTANCE Foundations WITH op <- ackForStep, inv <- movedInv

ackToStep(k, y, j) == move_ack(y, k.i, j)
AckToLoop == INSTANCE Foundations WITH op <- ackToStep, inv <- movedInv

acksStep(k, y, i) == acksTo(y, i)
AcksLoop == INSTANCE Foundations WITH op <- acksStep, inv <- movedInv

(* ... in a loop over those for one View_change ... *)
LEMMA AckForIsLoop ==
  ASSUME NEW k, NEW x, NEW j, k.j = j
  PROVE  move_acks_for(x, j) = AckForLoop!Fold(k, x, UpTo(0, 3 * F))
BY DEF move_acks_for, ReplicaSeq, AckForLoop!Fold, ackForStep, FoldLeft, MapThenFoldSet,
       AckForLoop!MapThenFoldSet, AckForLoop!Greatest, Max

(* ... over those of one replica ... *)
LEMMA AckToIsLoop ==
  ASSUME NEW k, NEW x, NEW i, k.i = i
  PROVE  acksTo(x, i) = AckToLoop!Fold(k, x, UpTo(0, 3 * F))
BY DEF acksTo, ReplicaSeq, AckToLoop!Fold, ackToStep, FoldLeft, MapThenFoldSet,
       AckToLoop!MapThenFoldSet, AckToLoop!Greatest, Max

(* ... and over all replicas. *)
LEMMA AcksIsLoop ==
  ASSUME NEW k, NEW x
  PROVE  move_acks(x) = AcksLoop!Fold(k, x, UpTo(0, 3 * F))
BY DEF move_acks, acksTo, ReplicaSeq, AcksLoop!Fold, acksStep, FoldLeft, MapThenFoldSet,
       AcksLoop!MapThenFoldSet, AcksLoop!Greatest, Max

(* The loop over those for one View_change keeps the invariant ... *)
LEMMA MoveAcksFor ==
  ASSUME NEW x, NEW p, NEW L, NEW j \in Replicas, In(x, p, L), p = x.id
  PROVE  Moved(x, move_acks_for(x, j), p, L)
<1>1. PICK k : k = [x |-> x, p |-> p, L |-> L, j |-> j]
  OBVIOUS
<1>2. k.x = x /\ k.p = p /\ k.L = L /\ k.j = j
  BY <1>1
<1>3. movedInv(k, 0, x)
  BY <1>2, MovedReflexive DEF movedInv
<1>4. PICK s : s = UpTo(0, 3 * F)
  OBVIOUS
<1>5. s \in Seq(Replicas)
  BY <1>4, ReplicaUpTo
<1>6. ASSUME NEW l, NEW y, l \in 1..Len(s), movedInv(k, l - 1, y)
      PROVE  movedInv(k, l, ackForStep(k, y, s[l]))
  <2>1. PICK r \in Replicas : r = s[l]
    BY <1>5, <1>6
  <2>2. Moved(x, y, p, L)
    BY <1>2, <1>6 DEF movedInv
  <2>3. In(y, p, L) /\ Kin(x, y)
    BY <2>2 DEF Moved
  <2>4. p = y.id
    BY <2>3, KinFields
  <2>5. Moved(y, move_ack(y, r, j), p, L)
    BY <2>3, <2>4, MoveAck
  <2> QED BY <1>2, <2>1, <2>2, <2>5, MovedTransitive DEF ackForStep, movedInv
<1>7. movedInv(k, Len(s), AckForLoop!Fold(k, x, s))
  BY <1>3, <1>5, <1>6, AckForLoop!FoldKeeps
<1>8. move_acks_for(x, j) = AckForLoop!Fold(k, x, s)
  BY <1>2, <1>4, AckForIsLoop
<1> QED BY <1>2, <1>7, <1>8 DEF movedInv

(* ... so does the one over those of one replica ... *)
LEMMA MoveAcksTo ==
  ASSUME NEW x, NEW p, NEW L, NEW i \in Replicas, In(x, p, L), p = x.id
  PROVE  Moved(x, acksTo(x, i), p, L)
<1>1. PICK k : k = [x |-> x, p |-> p, L |-> L, i |-> i]
  OBVIOUS
<1>2. k.x = x /\ k.p = p /\ k.L = L /\ k.i = i
  BY <1>1
<1>3. movedInv(k, 0, x)
  BY <1>2, MovedReflexive DEF movedInv
<1>4. PICK s : s = UpTo(0, 3 * F)
  OBVIOUS
<1>5. s \in Seq(Replicas)
  BY <1>4, ReplicaUpTo
<1>6. ASSUME NEW l, NEW y, l \in 1..Len(s), movedInv(k, l - 1, y)
      PROVE  movedInv(k, l, ackToStep(k, y, s[l]))
  <2>1. PICK r \in Replicas : r = s[l]
    BY <1>5, <1>6
  <2>2. Moved(x, y, p, L)
    BY <1>2, <1>6 DEF movedInv
  <2>3. In(y, p, L) /\ Kin(x, y)
    BY <2>2 DEF Moved
  <2>4. p = y.id
    BY <2>3, KinFields
  <2>5. Moved(y, move_ack(y, i, r), p, L)
    BY <2>3, <2>4, MoveAck
  <2> QED BY <1>2, <2>1, <2>2, <2>5, MovedTransitive DEF ackToStep, movedInv
<1>7. movedInv(k, Len(s), AckToLoop!Fold(k, x, s))
  BY <1>3, <1>5, <1>6, AckToLoop!FoldKeeps
<1>8. acksTo(x, i) = AckToLoop!Fold(k, x, s)
  BY <1>2, <1>4, AckToIsLoop
<1> QED BY <1>2, <1>7, <1>8 DEF movedInv

(* ... and so does the one over all. *)
LEMMA MoveAcks ==
  ASSUME NEW x, NEW p, NEW L, In(x, p, L), p = x.id
  PROVE  Moved(x, move_acks(x), p, L)
<1>1. PICK k : k = [x |-> x, p |-> p, L |-> L]
  OBVIOUS
<1>2. k.x = x /\ k.p = p /\ k.L = L
  BY <1>1
<1>3. movedInv(k, 0, x)
  BY <1>2, MovedReflexive DEF movedInv
<1>4. PICK s : s = UpTo(0, 3 * F)
  OBVIOUS
<1>5. s \in Seq(Replicas)
  BY <1>4, ReplicaUpTo
<1>6. ASSUME NEW l, NEW y, l \in 1..Len(s), movedInv(k, l - 1, y)
      PROVE  movedInv(k, l, acksStep(k, y, s[l]))
  <2>1. PICK r \in Replicas : r = s[l]
    BY <1>5, <1>6
  <2>2. Moved(x, y, p, L)
    BY <1>2, <1>6 DEF movedInv
  <2>3. In(y, p, L) /\ Kin(x, y)
    BY <2>2 DEF Moved
  <2>4. p = y.id
    BY <2>3, KinFields
  <2>5. Moved(y, acksTo(y, r), p, L)
    BY <2>3, <2>4, MoveAcksTo
  <2> QED BY <1>2, <2>1, <2>2, <2>5, MovedTransitive DEF acksStep, movedInv
<1>7. movedInv(k, Len(s), AcksLoop!Fold(k, x, s))
  BY <1>3, <1>5, <1>6, AcksLoop!FoldKeeps
<1>8. move_acks(x) = AcksLoop!Fold(k, x, s)
  BY <1>2, <1>4, AcksIsLoop
<1> QED BY <1>2, <1>7, <1>8 DEF movedInv

(* A stable checkpoint moves nothing. *)
LEMMA MarkStableMoved ==
  ASSUME NEW x, NEW p, NEW L, NEW ls \in Int, In(x, p, L)
  PROVE  Moved(x, nv_mark_stable(x, ls), p, L)
<1>1. CASE ~(x.nv.v > 0 /\ ~x.nv.complete /\ x.nv.chosen > 0 /\ ls >= x.nv.max /\ ~leads(x))
  BY <1>1, MovedReflexive DEF nv_mark_stable
<1>2. CASE x.nv.v > 0 /\ ~x.nv.complete /\ x.nv.chosen > 0 /\ ls >= x.nv.max /\ ~leads(x)
  <2>1. Ready(x) /\ Quorum(x.nv)
    BY <1>2, InLeads DEF In, Info
  <2>2. PICK c : c = Append(x.nv.calls, process_new_view(ls, None, ls, ls))
    OBVIOUS
  <2>3. PICK y : y = [x EXCEPT !.nv = [x.nv EXCEPT !.complete = TRUE]]
    OBVIOUS
  <2>4. Framed(x, y) /\ Ready(y)
    BY <2>1, <2>3, PutFree, FreeNames, FramedReady
  <2>5. y.nv.calls = x.nv.calls
    BY <2>1, <2>3 DEF Ready, NvShape, IsRec, XFields, NFields
  <2>6. PICK z : z = [y EXCEPT !.nv = [y.nv EXCEPT !.calls = c]]
    OBVIOUS
  <2>7. CallsOK(c)
    <3>1. process_new_view(ls, None, ls, ls).ms = ls
      BY DEF process_new_view
    <3>2. IsSeq(x.nv.calls) /\ \A k \in 1..Len(x.nv.calls) : x.nv.calls[k].ms \in Int
      BY <2>1 DEF Ready, NvShape, CallsOK
    <3> QED BY <2>2, <3>1, <3>2, SeqAppend DEF CallsOK, IsSeq
  <2>8. Framed(y, z)
    BY <2>4, <2>6, <2>7, PutCalls
  <2>9. Framed(x, z)
    BY <2>1, <2>4, <2>8, FramedTransitive
  <2>10. nv_mark_stable(x, ls) = z
    BY <1>2, <2>2, <2>3, <2>5, <2>6 DEF nv_mark_stable
  <2> QED BY <2>1, <2>9, <2>10, MovedFramed
<1> QED BY <1>1, <1>2

-----------------------------------------------------------------------------
(* Handlers that do not change the view. *)
Still(x, y) ==
  /\ y.id = x.id /\ y.v = x.v /\ y.last_views[x.id] = x.last_views[x.id]
  /\ y.sent.vc = x.sent.vc
  /\ (y.oplog = x.oplog /\ y.last_stable = x.last_stable) \/ y.last_stable > x.last_stable

Good(x) == Row(x, x.last_views)

Calm(x, y) == Good(y) /\ Quieter(x, y) /\ Still(x, y)

(* Steps within a view compose: none ... *)
LEMMA CalmReflexive ==
  ASSUME NEW x, Good(x)
  PROVE  Calm(x, x)
BY DEF Calm, Quieter, Still

(* ... the invariant holds after one ... *)
LEMMA CalmFew ==
  ASSUME NEW x, NEW y, Calm(x, y), Few(x, x.v), Own(x)
  PROVE  Good(y) /\ Few(y, y.v) /\ Own(y) /\ y.id = x.id
<1>1. Few(y, x.v)
  BY QuieterFew DEF Calm
<1> QED BY <1>1 DEF Calm, Still, Own

(* ... what they leave alone ... *)
LEMMA StillTransitive ==
  ASSUME NEW x, NEW y, NEW z, NEW L, NEW M, NEW N, Row(x, L), Row(y, M), Row(z, N),
         Still(x, y), Still(y, z)
  PROVE  Still(x, z)
<1>1. x.last_stable \in Int /\ y.last_stable \in Int /\ z.last_stable \in Int
  BY DEF Row, Base, Shaped
<1> QED BY <1>1 DEF Still

(* ... and two are one. *)
LEMMA CalmTransitive ==
  ASSUME NEW x, NEW y, NEW z, Good(x), Calm(x, y), Calm(y, z)
  PROVE  Calm(x, z)
<1>1. Still(x, z)
  BY StillTransitive DEF Calm, Good
<1> QED BY <1>1 DEF Calm, Quieter

(* A replica that prepared nothing more still reports what it prepared. *)
LEMMA StillReports ==
  ASSUME NEW x, NEW y, NEW L, NEW M, Row(x, L), Row(y, M), Still(x, y), Reports(x)
  PROVE  Reports(y)
<1> SUFFICES ASSUME NEW m \in x.sent.vc
             PROVE  /\ m.v <= y.v /\ m.ls <= y.last_stable
                    /\ m.v = y.v /\ m.ls = y.last_stable =>
                         \A n \in DOMAIN m.reqs : test(m, n) <=> y.oplog[n].m
  BY DEF Reports, Still
<1>1. x.last_stable \in Int /\ y.last_stable \in Int /\ m.ls \in Int
  BY DEF Row, Base, Shaped, Sends, VcOK
<1>2. /\ m.v <= x.v /\ m.ls <= x.last_stable
      /\ m.v = x.v /\ m.ls = x.last_stable =>
           \A n \in DOMAIN m.reqs : test(m, n) <=> x.oplog[n].m
  BY DEF Reports
<1>3. CASE y.oplog = x.oplog /\ y.last_stable = x.last_stable
  BY <1>2, <1>3 DEF Still
<1>4. CASE y.last_stable > x.last_stable
  <2>1. m.ls < y.last_stable /\ y.v = x.v
    BY <1>1, <1>2, <1>4 DEF Still
  <2> QED BY <1>1, <1>2, <2>1
<1> QED BY <1>3, <1>4 DEF Still

Came(x, y, p, L) == In(y, p, L) /\ QuietIn(x, y, p) /\ Kin(x, y)

(* Messages that came and are moved on. *)
LEMMA CameMoved ==
  ASSUME NEW x, NEW y, NEW z, NEW p, NEW L, Came(x, y, p, L), Moved(y, z, p, L)
  PROVE  Came(x, z, p, L)
BY DEF Came, Moved, QuietIn, Kin

(* Storing the NV_info they came to ... *)
LEMMA StoreCame ==
  ASSUME NEW x, NEW y, NEW p \in Replicas, NEW L, Row(x, L), Came(Load(x, p), y, p, L)
  PROVE  /\ Row(Store(y, p), L) /\ Quieter(x, Store(y, p)) /\ Still(x, Store(y, p))
         /\ Store(y, p).last_views = x.last_views
<1>1. In(y, p, L) /\ QuietIn(Load(x, p), y, p) /\ Kin(Load(x, p), y)
  BY DEF Came
<1>2. Base(x, L) /\ Base(y, L)
  BY <1>1 DEF In, Row
<1>3. Row(Store(y, p), L) /\ Quieter(x, Store(y, p))
  BY <1>1, <1>2, StoreRow, QuietStore
<1>4. PICK z : z = Store(y, p)
  OBVIOUS
<1>5. Stored(y, z, p)
  BY <1>2, <1>4, BaseFields, StoreFields
<1>6. PICK u : u = Load(x, p)
  OBVIOUS
<1>7. \A f \in XFields \ {"nv"} : u[f] = x[f]
  BY <1>2, <1>6, BaseFields, LoadFields
<1>8. /\ z.id = x.id /\ z.v = x.v /\ z.last_views = x.last_views /\ z.sent = x.sent
      /\ z.oplog = x.oplog /\ z.last_stable = x.last_stable
  <2>1. /\ y.id = u.id /\ y.v = u.v /\ y.last_views = u.last_views /\ y.sent = u.sent
        /\ y.oplog = u.oplog /\ y.last_stable = u.last_stable
    BY <1>1, <1>6, KinFields
  <2>2. /\ u.id = x.id /\ u.v = x.v /\ u.last_views = x.last_views /\ u.sent = x.sent
        /\ u.oplog = x.oplog /\ u.last_stable = x.last_stable
    BY <1>7 DEF XFields
  <2>3. /\ z.id = y.id /\ z.v = y.v /\ z.last_views = y.last_views /\ z.sent = y.sent
        /\ z.oplog = y.oplog /\ z.last_stable = y.last_stable
    BY <1>5 DEF Stored, XFields
  <2> QED BY <2>1, <2>2, <2>3
<1>9. Still(x, z)
  BY <1>8 DEF Still
<1> QED BY <1>3, <1>4, <1>8, <1>9

(* ... is a step within a view. *)
LEMMA StoreCalm ==
  ASSUME NEW x, NEW y, NEW p \in Replicas, Good(x), Came(Load(x, p), y, p, x.last_views)
  PROVE  Calm(x, Store(y, p))
<1>1. PICK z, L : z = Store(y, p) /\ L = x.last_views
  OBVIOUS
<1>2. Row(z, L) /\ Quieter(x, z) /\ Still(x, z) /\ z.last_views = L
  BY <1>1, StoreCame DEF Good
<1> QED BY <1>1, <1>2 DEF Calm, Good

(* An NV_info that is put back as it was. *)
LEMMA PutBack ==
  ASSUME NEW x, NEW p \in Replicas, Good(x)
  PROVE  Calm(x, Store(Load(x, p), p))
<1>1. PICK u : u = Load(x, p)
  OBVIOUS
<1>2. PICK z : z = Store(u, p)
  OBVIOUS
<1>3. PICK L : L = x.last_views
  OBVIOUS
<1>4. Base(x, L) /\ IsRec(x, XFields) /\ IsRec(x.nvs, Replicas)
  BY <1>3, BaseFields DEF Good, Row
<1>5. IsRec(u, XFields) /\ u.nv = x.nvs[p] /\ \A f \in XFields \ {"nv"} : u[f] = x[f]
  BY <1>1, <1>4, LoadFields
<1>6. Stored(u, z, p)
  BY <1>2, <1>5, StoreFields
<1>7. z.nvs = x.nvs
  <2>1. u.nvs = x.nvs
    BY <1>5 DEF XFields
  <2>2. z.nvs = [x.nvs EXCEPT ![p] = x.nvs[p]]
    BY <1>5, <1>6, <2>1 DEF Stored
  <2> QED BY <1>4, <2>2 DEF IsRec
<1>8. IsRec(z, XFields) /\ \A f \in XFields \ {"nv", "nvs"} : z[f] = x[f]
  BY <1>5, <1>6 DEF Stored
<1>9. Base(z, L)
  BY <1>4, <1>7, <1>8, BaseSame
<1>10. /\ z.id = x.id /\ z.v = x.v /\ z.last_views = x.last_views /\ z.sent = x.sent
       /\ z.oplog = x.oplog /\ z.last_stable = x.last_stable /\ z.slot = x.slot
       /\ z.last_vcs = x.last_vcs
  BY <1>8 DEF XFields
<1>11. Row(z, L)
  BY <1>3, <1>7, <1>9, <1>10, RowSame DEF Good
<1>12. Quieter(x, z)
  BY <1>7, <1>10 DEF Quieter, Heard
<1> QED BY <1>1, <1>2, <1>3, <1>10, <1>11, <1>12 DEF Calm, Good, Still

(* An empty NV_info, and one that only has its New_view. *)
fresh(m) == [Empty_NV_info EXCEPT !.v = m.v, !.msg = m]

(* The empty NV_info ... *)
LEMMA EmptyShape ==
  /\ NvShape(Empty_NV_info) /\ Empty_NV_info.v = 0 /\ ~Empty_NV_info.complete
  /\ Empty_NV_info.chosen = 0 /\ Empty_NV_info.calls = << >>
  /\ \A i \in Replicas : Empty_NV_info.vcs[i] = Empty_VC_info
<1>1. PICK e : e = Empty_NV_info
  OBVIOUS
<1>2. /\ IsRec(e, NFields) /\ e.v = 0 /\ e.min = -1 /\ e.max = -1 /\ e.chosen = 0
      /\ e.vcs = [i \in Replicas |-> Empty_VC_info]
      /\ e.ckpts = << >> /\ e.calls = << >> /\ e.reqs = [n \in Seqnos |-> << >>]
  BY <1>1 DEF Empty_NV_info, IsRec, NFields
<1>3. ~e.complete
  BY <1>1 DEF Empty_NV_info
<1>4. IsSeq(<< >>) /\ Len(<< >>) = 0
  BY DEF IsSeq
<1>5. IsRec(e.vcs, Replicas) /\ \A i \in Replicas : e.vcs[i] = Empty_VC_info
  BY <1>2 DEF IsRec
<1>6. IsRec(Empty_VC_info, IFields)
  BY DEF Empty_VC_info, IsRec, IFields
<1>7. ReqsOK(e.reqs)
  BY <1>2, <1>4 DEF ReqsOK, IsRec
<1>8. CkptsOK(e.ckpts) /\ CallsOK(e.calls)
  BY <1>2, <1>4 DEF CkptsOK, CallsOK
<1>9. NvShape(e)
  BY <1>2, <1>5, <1>6, <1>7, <1>8 DEF NvShape
<1> QED BY <1>1, <1>2, <1>3, <1>5, <1>9

(* ... is right for every replica. *)
LEMMA EmptyInfo ==
  ASSUME NEW x, NEW p, NEW L, x.v \in Nat
  PROVE  Info(x, Empty_NV_info, p, L)
<1>1. PICK e : e = Empty_NV_info
  OBVIOUS
<1>2. /\ NvShape(e) /\ e.v = 0 /\ ~e.complete /\ e.chosen = 0 /\ e.calls = << >>
      /\ \A i \in Replicas : e.vcs[i] = Empty_VC_info
  BY <1>1, EmptyShape
<1>3. \A i \in Replicas : ~e.vcs[i].vc
  BY <1>2 DEF Empty_VC_info
<1>4. ~Live(e)
  BY <1>2 DEF Live
<1>5. NvOK(e, p)
  BY <1>2, <1>4 DEF NvOK
<1>6. e.v <= x.v /\ ~(e.chosen > 0)
  BY <1>2
<1> QED BY <1>1, <1>2, <1>3, <1>4, <1>5, <1>6 DEF Info

(* The NV_info of a received New_view. *)
LEMMA FreshShape ==
  ASSUME NEW m, m.v \in Nat, MsgOK(m, m.v)
  PROVE  /\ NvShape(fresh(m)) /\ fresh(m).v = m.v /\ fresh(m).msg = m /\ ~fresh(m).complete
         /\ fresh(m).chosen = 0 /\ \A i \in Replicas : ~fresh(m).vcs[i].vc
<1>1. PICK e : e = Empty_NV_info
  OBVIOUS
<1>2. /\ NvShape(e) /\ e.v = 0 /\ ~e.complete /\ e.chosen = 0 /\ e.calls = << >>
      /\ \A i \in Replicas : e.vcs[i] = Empty_VC_info
  BY <1>1, EmptyShape
<1>3. \A i \in Replicas : ~e.vcs[i].vc
  BY <1>2 DEF Empty_VC_info
<1>4. PICK n : n = [e EXCEPT !.v = m.v, !.msg = m]
  OBVIOUS
<1>5. IsRec(e, NFields)
  BY <1>2 DEF NvShape
<1>6. /\ IsRec(n, NFields) /\ n.v = m.v /\ n.msg = m /\ n.chosen = e.chosen
      /\ n.vcs = e.vcs /\ n.ckpts = e.ckpts /\ n.min = e.min /\ n.max = e.max
      /\ n.reqs = e.reqs /\ n.calls = e.calls /\ n.complete = e.complete
  BY <1>4, <1>5 DEF IsRec, NFields
<1>7. NvShape(n)
  BY <1>2, <1>6 DEF NvShape
<1> QED BY <1>1, <1>2, <1>3, <1>4, <1>6, <1>7 DEF fresh

setNv(x, n) == [x EXCEPT !.nv = n]
NvSet(x, y, n) == IsRec(y, XFields) /\ y.nv = n /\ \A f \in XFields \ {"nv"} : y[f] = x[f]
(* Loading another NV_info. *)
LEMMA SetNv ==
  ASSUME NEW x, NEW n, IsRec(x, XFields)
  PROVE  NvSet(x, setNv(x, n), n)
<1>1. PICK y : y = [x EXCEPT !.nv = n]
  OBVIOUS
<1>2. IsRec(y, XFields) /\ y.nv = n /\ \A f \in XFields \ {"nv"} : y[f] = x[f]
  BY <1>1 DEF IsRec, XFields
<1> QED BY <1>1, <1>2 DEF setNv, NvSet

(* The New_view m of p's view replaces what last_nvs[p] had. *)
LEMMA FreshIn ==
  ASSUME NEW x, NEW y, NEW p \in Replicas, NEW L, Row(x, L), NEW m, m.v \in Nat, m.v > 0,
         MsgOK(m, m.v), primary(m.v) = p, p = x.id => m.v <= x.v /\ Refers(fresh(m)),
         NvSet(Load(x, p), y, fresh(m))
  PROVE  Came(Load(x, p), y, p, L)
<1>1. Base(x, L)
  BY DEF Row
<1>2. PICK u : u = Load(x, p)
  OBVIOUS
<1>3. IsRec(u, XFields) /\ \A f \in XFields \ {"nv"} : u[f] = x[f]
  BY <1>1, <1>2, LoadFields, BaseFields
<1>4. IsRec(y, XFields) /\ y.nv = fresh(m) /\ \A f \in XFields \ {"nv"} : y[f] = u[f]
  BY <1>2 DEF NvSet
<1>5. /\ y.nvs = x.nvs /\ y.slot = x.slot /\ y.id = x.id /\ y.v = x.v /\ y.last_vcs = x.last_vcs
      /\ u.nvs = x.nvs /\ u.slot = x.slot /\ u.last_vcs = x.last_vcs
  BY <1>3, <1>4 DEF XFields
<1>6. Base(y, L) /\ \A nv, q : Info(x, nv, q, L) => Info(y, nv, q, L)
  <2>1. IsRec(y.nvs, Replicas)
    BY <1>1, <1>5, BaseFields
  <2>2. \A f \in XFields \ {"nv", "nvs"} : y[f] = x[f]
    BY <1>3, <1>4
  <2> QED BY <1>1, <1>4, <2>1, <2>2, BaseSame
<1>7. PICK n : n = fresh(m)
  OBVIOUS
<1>8. /\ NvShape(n) /\ n.v = m.v /\ n.msg = m /\ ~n.complete
      /\ n.chosen = 0 /\ \A i \in Replicas : ~n.vcs[i].vc
  BY <1>7, FreshShape
<1>9. NvOK(n, p)
  BY <1>8 DEF NvOK
<1>10. Info(y, n, p, L)
  <2>1. ~(n.chosen > 0)
    BY <1>8
  <2> QED BY <1>5, <1>7, <1>8, <1>9, <2>1 DEF Info
<1>11. Ready(y)
  <2>1. leads(y) => p = x.id
    BY <1>4, <1>5, <1>7, <1>8 DEF leads
  <2> QED BY <1>4, <1>7, <1>8, <2>1 DEF Ready
<1>12. In(y, p, L)
  BY <1>4, <1>5, <1>6, <1>7, <1>8, <1>10, <1>11 DEF In, Row
<1>13. QuietIn(u, y, p)
  <2> SUFFICES ASSUME NEW w \in Nat, NEW j \in HeardIn(y, p, w) PROVE j \in HeardIn(u, p, w)
    BY DEF QuietIn
  <2>1. primary(w) # p => At(y, p, w) = At(u, p, w)
    BY <1>5 DEF At
  <2>2. primary(w) = p => ~At(y, p, w).vcs[j].vc
    BY <1>4, <1>7, <1>8 DEF At, HeardIn
  <2> QED BY <1>5, <2>1, <2>2 DEF HeardIn
<1>14. Kin(u, y)
  BY <1>4 DEF Kin
<1> QED BY <1>2, <1>12, <1>13, <1>14 DEF Came

(* A received New_view stays within the view. *)
LEMMA AddNvCalm ==
  ASSUME NEW x, Good(x), NEW m, m.v \in Nat, MsgOK(m, m.v), primary(m.v) # x.id
  PROVE  Calm(x, vi_add_nv(x, m))
<1>1. PICK p \in Replicas : p = primary(m.v)
  BY PrimaryIn
<1>2. CASE m.v < x.v \/ ~New_view_verify(m) \/ m.v <= x.nvs[p].v
  BY <1>1, <1>2, CalmReflexive DEF vi_add_nv
<1>3. CASE ~(m.v < x.v \/ ~New_view_verify(m) \/ m.v <= x.nvs[p].v)
  <2>1. PICK L : L = x.last_views
    OBVIOUS
  <2>2. Row(x, L) /\ Base(x, L)
    BY <2>1 DEF Good, Row
  <2>3. PICK u : u = Load(x, p)
    OBVIOUS
  <2>4. IsRec(u, XFields) /\ u.nv = x.nvs[p]
    BY <2>2, <2>3, LoadFields, BaseFields
  <2>5. PICK y : y = setNv(u, fresh(m))
    OBVIOUS
  <2>6. NvSet(u, y, fresh(m))
    BY <2>4, <2>5, SetNv
  <2>7. m.v > 0
    BY <1>3 DEF New_view_verify
  <2>8. Came(u, y, p, L) /\ In(y, p, L)
    BY <1>1, <2>2, <2>3, <2>6, <2>7, FreshIn DEF Came
  <2>9. nv_add_nv(u, m) = y
    BY <1>3, <2>4, <2>5 DEF nv_add_nv, setNv, fresh
  <2>10. y.nv.v = m.v
    BY <2>6, FreshShape DEF NvSet
  <2>11. PICK z : z = move_vcs(y, m.v)
    OBVIOUS
  <2>12. Moved(y, z, p, L)
    BY <2>8, <2>10, <2>11, MoveVcs
  <2>13. Calm(x, Store(z, p))
    BY <2>1, <2>3, <2>8, <2>12, CameMoved, StoreCalm
  <2>14. vi_add_nv(x, m) = Store(z, p)
    BY <1>1, <1>3, <2>3, <2>9, <2>11 DEF vi_add_nv
  <2> QED BY <2>13, <2>14
<1> QED BY <1>2, <1>3

(* So does moving messages into the NV_info of the view. *)
LEMMA MovedCalm ==
  ASSUME NEW x, NEW y, NEW p \in Replicas, Good(x), Live(x.nvs[p]),
         In(Load(x, p), p, x.last_views) => Moved(Load(x, p), y, p, x.last_views)
  PROVE  Calm(x, Store(y, p))
<1>1. PICK L : L = x.last_views
  OBVIOUS
<1>2. Moved(Load(x, p), y, p, L)
  BY <1>1, LoadIn DEF Good
<1>3. Came(Load(x, p), y, p, L)
  BY <1>2 DEF Came, Moved
<1> QED BY <1>1, <1>3, StoreCalm

(* The loaded NV_info is that of the replica. *)
LEMMA GoodLoad ==
  ASSUME NEW x, NEW p, Good(x)
  PROVE  Load(x, p).nv = x.nvs[p] /\ Load(x, p).id = x.id
<1>1. IsRec(x, XFields)
  BY BaseFields DEF Good, Row
<1>2. PICK u : u = Load(x, p)
  OBVIOUS
<1>3. u.nv = x.nvs[p] /\ \A f \in XFields \ {"nv"} : u[f] = x[f]
  BY <1>1, <1>2, LoadFields
<1>4. "id" \in XFields \ {"nv"}
  BY DEF XFields
<1> QED BY <1>2, <1>3, <1>4

(* An acknowledgement stays within the view. *)
LEMMA AddAckCalm ==
  ASSUME NEW x, Good(x), NEW a, a.v \in Nat
  PROVE  Calm(x, vi_add_ack(x, a))
<1>1. PICK p \in Replicas : p = primary(a.v)
  BY PrimaryIn
<1>2. PICK u : u = Load(x, p)
  OBVIOUS
<1>3. u.nv = x.nvs[p] /\ u.id = x.id
  BY <1>2, GoodLoad
<1>4. CASE ~View_change_ack_verify(a, x.id)
  BY <1>4, CalmReflexive DEF vi_add_ack
<1>5. CASE View_change_ack_verify(a, x.id) /\ x.nvs[p].v = a.v /\ nv_takes_ack(u, a)
  <2>1. a.v > 0 /\ a.vcid \in Replicas
    BY <1>5 DEF View_change_ack_verify
  <2>2. Live(x.nvs[p])
    BY <1>3, <1>5, <2>1 DEF Live, nv_takes_ack
  <2>3. PICK z : z = nv_add_ack(u, a)
    OBVIOUS
  <2>4. ASSUME In(u, p, x.last_views) PROVE Moved(u, z, p, x.last_views)
    <3>1. Ready(u)
      BY <2>4 DEF In
    <3>2. Framed(u, z)
      BY <1>5, <2>1, <2>3, <3>1, AddAck
    <3>3. p = u.id \/ z = u
      <4>1. leads(u) <=> p = u.id
        BY <2>4, InLeads
      <4> QED BY <2>3, <4>1 DEF nv_add_ack, ack_matches
    <3> QED BY <2>4, <3>2, <3>3, MovedFramed
  <2>5. Calm(x, Store(z, p))
    BY <1>2, <2>2, <2>4, MovedCalm
  <2>6. vi_add_ack(x, a) = Store(z, p)
    BY <1>1, <1>2, <1>5, <2>3 DEF vi_add_ack
  <2> QED BY <2>5, <2>6
<1>6. CASE View_change_ack_verify(a, x.id) /\ ~(x.nvs[p].v = a.v /\ nv_takes_ack(u, a))
  <2>1. a.id \in Replicas /\ a.vcid \in Replicas
    BY <1>6 DEF View_change_ack_verify
  <2>2. PICK old : old = x.vacks[a.id]
    OBVIOUS
  <2>3. PICK kept : kept = IF old.v < a.v THEN EmptyVacks.vacks ELSE old.vacks
    OBVIOUS
  <2>4. PICK t : t = [kept EXCEPT ![a.vcid] = a]
    OBVIOUS
  <2>5. PICK e : e = [v |-> x.v, vacks |-> t]
    OBVIOUS
  <2>6. PICK b : b = [x.vacks EXCEPT ![a.id] = e]
    OBVIOUS
  <2>7. PICK L : L = x.last_views
    OBVIOUS
  <2>8. Base(x, L) /\ Row(x, L) /\ Acked(x.vacks)
    BY <2>7 DEF Good, Row, Base
  <2>9. IsRec(kept, Replicas) /\ \A j \in Replicas : kept[j] # None => kept[j].vcid \in Replicas
    <3>1. EmptyVacks.vacks = [j \in Replicas |-> None]
      BY DEF EmptyVacks
    <3>2. IsRec(EmptyVacks.vacks, Replicas) /\ \A j \in Replicas : EmptyVacks.vacks[j] = None
      BY <3>1 DEF IsRec
    <3>3. IsRec(old.vacks, Replicas) /\ \A j \in Replicas : old.vacks[j] # None => old.vacks[j].vcid \in Replicas
      BY <2>1, <2>2, <2>8 DEF Acked
    <3> QED BY <2>3, <3>2, <3>3
  <2>10. IsRec(t, Replicas) /\ \A j \in Replicas : t[j] # None => t[j].vcid \in Replicas
    BY <2>1, <2>4, <2>9 DEF IsRec
  <2>11. IsRec(e, {"v", "vacks"}) /\ e.vacks = t
    BY <2>5 DEF IsRec
  <2>12. Acked(b)
    BY <2>6, <2>8, <2>10, <2>11, PutAck
  <2>13. PICK y : y = setAcks(x, b)
    OBVIOUS
  <2>14. AcksSet(x, y, b)
    BY <2>8, <2>13, BaseFields, SetAcks
  <2>15. /\ Base(y, L) /\ Kin(x, y) /\ y.nvs = x.nvs /\ y.slot = x.slot /\ y.last_vcs = x.last_vcs
    BY <2>8, <2>12, <2>14, AcksBase
  <2>16. /\ y.id = x.id /\ y.v = x.v /\ y.last_views = x.last_views /\ y.sent = x.sent
         /\ y.oplog = x.oplog /\ y.last_stable = x.last_stable
    BY <2>15, KinFields
  <2>17. Row(y, L)
    BY <2>8, <2>15, <2>16, RowSame
  <2>18. Quieter(x, y)
    BY <2>15 DEF Quieter, Heard
  <2>19. Calm(x, y)
    BY <2>7, <2>16, <2>17, <2>18 DEF Calm, Good, Still
  <2>20. vi_add_ack(x, a) \in {x, y}
    BY <1>1, <1>2, <1>6, <2>2, <2>3, <2>4, <2>5, <2>6, <2>13 DEF vi_add_ack, setAcks
  <2> QED BY <2>19, <2>20, CalmReflexive
<1> QED BY <1>4, <1>5, <1>6

(* So do missing pre-prepares and proofs. *)
LEMMA MissingCalm ==
  ASSUME NEW x, Good(x), NEW p \in Replicas, NEW i, NEW n, NEW d
  PROVE  /\ Calm(x, Store(nv_add_missing_pp(Load(x, p), n, d), p))
         /\ Calm(x, Store(nv_add_missing_p(Load(x, p), i, n, d), p))
<1>1. PICK u : u = Load(x, p)
  OBVIOUS
<1>2. PICK y, z : y = nv_add_missing_pp(u, n, d) /\ z = nv_add_missing_p(u, i, n, d)
  OBVIOUS
<1>3. u.nv = x.nvs[p] /\ u.id = x.id
  BY <1>1, GoodLoad
<1>4. CASE ~nv_wants(u, n)
  <2>1. y = u /\ z = u
    BY <1>2, <1>4 DEF nv_add_missing_pp, nv_add_missing_p
  <2> QED BY <1>1, <1>2, <2>1, PutBack
<1>5. CASE nv_wants(u, n)
  <2>1. u.nv.chosen > 0
    BY <1>5 DEF nv_wants
  <2>2. Live(x.nvs[p])
    BY <1>3, <2>1 DEF Live
  <2>3. ASSUME In(u, p, x.last_views)
        PROVE  Moved(u, y, p, x.last_views) /\ Moved(u, z, p, x.last_views)
    <3>1. Ready(u) /\ (p = u.id \/ Quorum(u.nv))
      BY <2>1, <2>3 DEF In, Info
    <3>2. Framed(u, y) /\ Framed(u, z)
      BY <1>2, <3>1, AddMissingFramed
    <3> QED BY <2>3, <3>1, <3>2, MovedFramed
  <2> QED BY <1>1, <1>2, <2>2, <2>3, MovedCalm
<1> QED BY <1>4, <1>5

-----------------------------------------------------------------------------
(* A stable checkpoint, and the entry into a view. *)
Aside(x, y, L) ==
  /\ Base(y, L) /\ y.id = x.id /\ y.v = x.v /\ y.slot = x.slot /\ y.nv = x.nv /\ y.nvs = x.nvs
  /\ y.last_vcs = x.last_vcs /\ y.last_views = x.last_views /\ y.sent.vc = x.sent.vc
  /\ (y.oplog = x.oplog /\ y.last_stable = x.last_stable) \/ y.last_stable > x.last_stable

(* Changes beside the view change compose: none ... *)
LEMMA AsideReflexive ==
  ASSUME NEW x, NEW L, Base(x, L)
  PROVE  Aside(x, x, L)
BY DEF Aside

(* ... and two are one ... *)
LEMMA AsideTransitive ==
  ASSUME NEW x, NEW y, NEW z, NEW L, Base(x, L), Aside(x, y, L), Aside(y, z, L)
  PROVE  Aside(x, z, L)
<1>1. x.last_stable \in Int /\ y.last_stable \in Int /\ z.last_stable \in Int
  BY DEF Aside, Base, Shaped
<1> QED BY <1>1 DEF Aside

(* ... with an NV_info loaded ... *)
LEMMA AsideIn ==
  ASSUME NEW x, NEW y, NEW p, NEW L, In(x, p, L), Aside(x, y, L)
  PROVE  In(y, p, L) /\ QuietIn(x, y, p) /\ Still(x, y) /\ y.last_views = x.last_views /\ y.nv = x.nv
<1>1. In(y, p, L)
  BY InSame DEF Aside
<1>2. \A w : At(y, p, w) = At(x, p, w)
  BY DEF At, Aside
<1>3. QuietIn(x, y, p)
  BY <1>2 DEF QuietIn, HeardIn, Aside
<1> QED BY <1>1, <1>3 DEF Aside, Still

(* ... or stored. *)
LEMMA AsideGood ==
  ASSUME NEW x, NEW y, Good(x), Aside(x, y, x.last_views)
  PROVE  Calm(x, y)
<1>1. PICK L : L = x.last_views
  OBVIOUS
<1>2. Row(y, L)
  BY <1>1, RowSame DEF Aside, Good
<1>3. Quieter(x, y)
  BY DEF Quieter, Heard, Aside
<1> QED BY <1>1, <1>2, <1>3 DEF Calm, Good, Aside, Still

(* A higher stable checkpoint is such a change. *)
LEMMA SetStable ==
  ASSUME NEW x, NEW L, Base(x, L), NEW n \in Int, n > x.last_stable
  PROVE  Aside(x, set_stable(x, n), L)
<1>1. PICK l, s, o, g, c :
        /\ l = greater(x.low_bound, n) /\ s = greater(x.seqno, n)
        /\ o = [m \in Seqnos |-> IF m <= n THEN OReq_clear(x.oplog[m]) ELSE x.oplog[m]]
        /\ g = [m \in Seqnos |-> IF m <= n THEN EmptyPlog[m] ELSE x.plog[m]]
        /\ c = {k \in x.ckpts : k >= n}
  OBVIOUS
<1>2. PICK y : y = [x EXCEPT !.last_stable = n, !.low_bound = l, !.seqno = s, !.oplog = o, !.plog = g,
                             !.ckpts = c]
  OBVIOUS
<1>3. IsRec(x, XFields)
  BY BaseFields
<1>4. /\ IsRec(y, XFields) /\ y.last_stable = n /\ y.ckpts = c
      /\ y.id = x.id /\ y.v = x.v /\ y.slot = x.slot /\ y.nv = x.nv /\ y.nvs = x.nvs
      /\ y.last_vcs = x.last_vcs /\ y.last_views = x.last_views /\ y.sent = x.sent
      /\ y.vacks = x.vacks
  BY <1>2, <1>3 DEF IsRec, XFields
<1>5. IsFiniteSet(c) /\ c \subseteq Int
  <2>1. IsFiniteSet(x.ckpts) /\ x.ckpts \subseteq Int /\ c \subseteq x.ckpts
    BY <1>1 DEF Base, Shaped
  <2> QED BY <2>1, FS_Subset
<1>6. Base(y, L)
  BY <1>4, <1>5 DEF Base, Shaped
<1>7. set_stable(x, n) = y
  BY <1>1, <1>2 DEF set_stable
<1> QED BY <1>4, <1>6, <1>7 DEF Aside

(* Storing after it. *)
LEMMA StoreStill ==
  ASSUME NEW x, NEW y, NEW p \in Replicas, Good(x), In(y, p, x.last_views),
         QuietIn(Load(x, p), y, p), Still(x, y), y.last_views = x.last_views
  PROVE  Calm(x, Store(y, p))
<1>1. PICK L : L = x.last_views
  OBVIOUS
<1>2. PICK z : z = Store(y, p)
  OBVIOUS
<1>3. Base(x, L) /\ Base(y, L)
  BY <1>1 DEF Good, Row, In
<1>4. Row(z, L) /\ Quieter(x, z)
  BY <1>1, <1>2, <1>3, StoreRow, QuietStore
<1>5. Stored(y, z, p)
  BY <1>2, <1>3, BaseFields, StoreFields
<1>6. /\ z.id = y.id /\ z.v = y.v /\ z.last_views = y.last_views /\ z.sent = y.sent
      /\ z.oplog = y.oplog /\ z.last_stable = y.last_stable
  BY <1>5 DEF Stored, XFields
<1> QED BY <1>1, <1>2, <1>4, <1>6 DEF Calm, Good, Still

(* vi_mark_stable() stays within the view. *)
LEMMA MarkStableCalm ==
  ASSUME NEW x, Good(x), NEW n \in Int, n > x.last_stable
  PROVE  Calm(x, vi_mark_stable(x, n))
<1>1. PICK p \in Replicas : p = primary(x.v)
  BY PrimaryIn, BaseFields DEF Good, Row
<1>2. PICK y : y = set_stable(x, n)
  OBVIOUS
<1>3. Calm(x, y)
  BY <1>2, SetStable, AsideGood DEF Good, Row
<1>4. Good(y)
  BY <1>3 DEF Calm
<1>5. PICK u : u = Load(y, p)
  OBVIOUS
<1>6. PICK z : z = nv_mark_stable(u, n)
  OBVIOUS
<1>7. Calm(y, Store(z, p))
  <2>1. CASE Live(y.nvs[p])
    BY <1>4, <1>5, <1>6, <2>1, MarkStableMoved, MovedCalm
  <2>2. CASE ~Live(y.nvs[p])
    <3>1. u.nv = y.nvs[p]
      BY <1>4, <1>5, GoodLoad
    <3>2. z = u
      BY <1>6, <2>2, <3>1 DEF nv_mark_stable, Live
    <3> QED BY <1>4, <1>5, <3>2, PutBack
  <2> QED BY <2>1, <2>2
<1>8. vi_mark_stable(x, n) = Store(z, p)
  BY <1>1, <1>2, <1>5, <1>6 DEF vi_mark_stable
<1> QED BY <1>3, <1>7, <1>8, CalmTransitive

(* A New_view sent by the primary of its view ... *)
LEMMA SendsNv ==
  ASSUME NEW s, NEW t, NEW i, NEW N, Sends(s, i), IsRec(s, SFields), t = [s EXCEPT !.nv = N],
         \A m \in N : m \in s.nv \/ (m.v \in Nat /\ primary(m.v) = i /\ MsgOK(m, m.v))
  PROVE  Sends(t, i) /\ IsRec(t, SFields) /\ t.vc = s.vc
<1>1. IsRec(t, SFields) /\ t.vc = s.vc /\ t.nv = N /\ t.ack = s.ack
  BY DEF IsRec, SFields
<1>2. Sends(t, i)
  BY <1>1 DEF Sends
<1> QED BY <1>1, <1>2

(* ... and proofs sent keep what a replica sends right. *)
LEMMA SendsP ==
  ASSUME NEW s, NEW t, NEW i, NEW P, Sends(s, i), IsRec(s, SFields), t = [s EXCEPT !.p = P]
  PROVE  Sends(t, i) /\ IsRec(t, SFields) /\ t.vc = s.vc
<1>1. IsRec(t, SFields) /\ t.vc = s.vc /\ t.nv = s.nv /\ t.ack = s.ack
  BY DEF IsRec, SFields
<1>2. Sends(t, i)
  BY <1>1 DEF Sends
<1> QED BY <1>1, <1>2

starts(x, q, l, t) == [x EXCEPT !.vtimer = FALSE, !.limbo = FALSE, !.seqno = q, !.low_bound = l, !.sent = t]
logs(x, g, t, b, d) == [x EXCEPT !.plog = g, !.sent = t, !.has_nv_state = b, !.vtimer = d]
(* Starting in a view is beside the view change. *)
LEMMA StartsAside ==
  ASSUME NEW x, NEW L, NEW q, NEW l, NEW t, NEW g, NEW b, NEW d, Base(x, L), Sends(t, x.id),
         IsRec(t, SFields), t.vc = x.sent.vc
  PROVE  Aside(x, starts(x, q, l, t), L) /\ Aside(x, logs(x, g, t, b, d), L)
<1>1. IsRec(x, XFields)
  BY BaseFields
<1>2. ASSUME NEW y, y = starts(x, q, l, t) \/ y = logs(x, g, t, b, d)
      PROVE  Aside(x, y, L)
  <2>1. /\ IsRec(y, XFields) /\ y.last_stable = x.last_stable /\ y.ckpts = x.ckpts
        /\ y.id = x.id /\ y.v = x.v /\ y.slot = x.slot /\ y.nv = x.nv /\ y.nvs = x.nvs
        /\ y.last_vcs = x.last_vcs /\ y.last_views = x.last_views /\ y.sent = t
        /\ y.vacks = x.vacks /\ y.oplog = x.oplog
    <3>1. CASE y = starts(x, q, l, t)
      BY <1>1, <3>1 DEF IsRec, XFields, starts
    <3>2. CASE y = logs(x, g, t, b, d)
      BY <1>1, <3>2 DEF IsRec, XFields, logs
    <3> QED BY <1>2, <3>1, <3>2
  <2>2. Base(y, L)
    BY <2>1 DEF Base, Shaped
  <2> QED BY <2>1, <2>2 DEF Aside
<1> QED BY <1>2

eLow(x, c) == greater(c.min, x.last_stable)
eStart(x, c) ==
  [x EXCEPT !.vtimer = FALSE, !.limbo = FALSE, !.seqno = c.max - 1, !.low_bound = eLow(x, c),
            !.sent.nv = IF leads(x) THEN @ \cup {x.nv.msg} ELSE @]
eStable(x, c) == IF c.ms > x.last_stable THEN set_stable(eStart(x, c), c.ms) ELSE eStart(x, c)
eProposed(x, c) == {n \in Seqnos : eLow(x, c) < n /\ n < c.max}
eLogged(x, c) ==
  [n \in Seqnos |-> IF n \in eProposed(x, c) THEN [d |-> fetch_request(x, n), prepared |-> FALSE]
                    ELSE eStable(x, c).plog[n]]
eEnd(x, c) ==
  [eStable(x, c) EXCEPT
     !.plog = eLogged(x, c),
     !.sent.p = IF leads(x) THEN @ ELSE @ \cup {<<x.v, n, eLogged(x, c)[n].d>> : n \in eProposed(x, c)},
     !.has_nv_state = x.last_executed >= eLow(x, c),
     !.vtimer = x.rqueue /\ ~leads(x)]

(* process_new_view() enters the view or fails an assertion. *)
LEMMA EnterView ==
  ASSUME NEW x, NEW p, NEW L, In(x, p, L), NEW c, c.ms \in Int
  PROVE  enter_view(x, c) = Break(x, "process_new_view") \/ Aside(x, enter_view(x, c), L)
<1>1. Base(x, L) /\ Sends(x.sent, x.id) /\ IsRec(x.sent, SFields)
  BY DEF In, Base, Shaped
<1>2. PICK low, N : low = greater(c.min, x.last_stable) /\ N = IF leads(x) THEN x.sent.nv \cup {x.nv.msg} ELSE x.sent.nv
  OBVIOUS
<1>3. PICK q, t : q = c.max - 1 /\ t = [x.sent EXCEPT !.nv = N]
  OBVIOUS
<1>4. PICK y : y = starts(x, q, low, t)
  OBVIOUS
<1>5. Sends(t, x.id) /\ IsRec(t, SFields) /\ t.vc = x.sent.vc
  <2>1. \A m \in N : m \in x.sent.nv \/ (m.v \in Nat /\ primary(m.v) = x.id /\ MsgOK(m, m.v))
    <3>1. x.nv.v \in Nat /\ MsgOK(x.nv.msg, x.nv.v)
      BY DEF In, Ready, NvShape
    <3>2. leads(x) => /\ x.nv.msg.v \in Nat /\ primary(x.nv.msg.v) = x.id
                      /\ MsgOK(x.nv.msg, x.nv.msg.v)
      BY <3>1 DEF leads, MsgOK
    <3> QED BY <1>2, <3>2
  <2> QED BY <1>1, <1>3, <2>1, SendsNv
<1>6. Aside(x, y, L)
  BY <1>1, <1>4, <1>5, StartsAside
<1>7. PICK s : s = IF c.ms > x.last_stable THEN set_stable(y, c.ms) ELSE y
  OBVIOUS
<1>8. Aside(y, s, L)
  <2>1. Base(y, L) /\ y.last_stable = x.last_stable
    BY <1>1, <1>4, <1>6, BaseFields DEF Aside, starts, IsRec, XFields
  <2> QED BY <1>7, <2>1, SetStable, AsideReflexive
<1>9. PICK o : o = {n \in Seqnos : low < n /\ n < c.max}
  OBVIOUS
<1>10. PICK g : g = [n \in Seqnos |-> IF n \in o THEN [d |-> fetch_request(x, n), prepared |-> FALSE]
                                      ELSE s.plog[n]]
  OBVIOUS
<1>11. PICK P : P = IF leads(x) THEN s.sent.p ELSE s.sent.p \cup {<<x.v, n, g[n].d>> : n \in o}
  OBVIOUS
<1>12. PICK h : h = [s.sent EXCEPT !.p = P]
  OBVIOUS
<1>17. PICK e : e = [s EXCEPT !.plog = g, !.sent = h, !.has_nv_state = x.last_executed >= low,
                              !.vtimer = x.rqueue /\ ~leads(x)]
  OBVIOUS
<1>18. PICK b, d : b = e.has_nv_state /\ d = e.vtimer
  OBVIOUS
<1>13. PICK z : z = logs(s, g, h, b, d)
  OBVIOUS
<1>14. Aside(s, z, L)
  <2>1. Base(s, L)
    BY <1>8 DEF Aside
  <2>2. Sends(s.sent, s.id) /\ IsRec(s.sent, SFields)
    BY <2>1 DEF Base, Shaped
  <2>3. Sends(h, s.id) /\ IsRec(h, SFields) /\ h.vc = s.sent.vc
    BY <1>12, <2>2, SendsP
  <2> QED BY <1>13, <2>1, <2>3, StartsAside
<1>15. Aside(x, z, L)
  <2>1. Aside(x, s, L)
    BY <1>1, <1>6, <1>8, AsideTransitive
  <2> QED BY <1>1, <1>14, <2>1, AsideTransitive
<1>19. z = e
  <2>1. IsRec(s, XFields)
    BY <1>8, BaseFields DEF Aside
  <2> QED BY <1>13, <1>17, <1>18, <2>1 DEF logs, IsRec, XFields
<1>20. low = eLow(x, c) /\ y = eStart(x, c)
  BY <1>2, <1>3, <1>4 DEF eLow, eStart, starts
<1>21. s = eStable(x, c) /\ o = eProposed(x, c)
  BY <1>7, <1>9, <1>20 DEF eStable, eProposed
<1>22. g = eLogged(x, c)
  BY <1>10, <1>21 DEF eLogged
<1>23. e = eEnd(x, c)
  BY <1>11, <1>12, <1>17, <1>20, <1>21, <1>22 DEF eEnd
<1>24. enter_view(x, c) \in {Break(x, "process_new_view"), eEnd(x, c)}
  BY DEF enter_view, eEnd, eLogged, eProposed, eStable, eStart, eLow
<1>16. enter_view(x, c) \in {Break(x, "process_new_view"), z}
  BY <1>19, <1>23, <1>24
<1> QED BY <1>15, <1>16

(* The calls made by the new views stay within the view. *)
LEMMA RunCallsCalm ==
  ASSUME NEW x, Good(x)
  PROVE  Calm(x, run_calls(x))
<1>1. PICK p \in Replicas : p = primary(x.v)
  BY PrimaryIn, BaseFields DEF Good, Row
<1>2. PICK u : u = Load(x, p)
  OBVIOUS
<1>3. u.nv = x.nvs[p]
  BY <1>2, GoodLoad
<1>4. CASE u.nv.calls = << >> \/ Stopped(u)
  BY <1>1, <1>2, <1>4, CalmReflexive DEF run_calls
<1>5. CASE ~(u.nv.calls = << >> \/ Stopped(u))
  <2>1. PICK L : L = x.last_views
    OBVIOUS
  <2>2. In(u, p, L)
    BY <1>2, <1>3, <1>5, <2>1, LoadIn DEF Live, Good
  <2>3. PICK c : c = Head(u.nv.calls)
    OBVIOUS
  <2>4. c.ms \in Int
    <3>1. CallsOK(u.nv.calls)
      BY <2>2 DEF In, Ready, NvShape
    <3>2. Len(u.nv.calls) # 0
      BY <1>5, <3>1 DEF CallsOK, IsSeq
    <3>3. 1 \in 1..Len(u.nv.calls) /\ c = u.nv.calls[1]
      <4>1. \E S : u.nv.calls \in Seq(S)
        BY <3>1, SeqIn DEF CallsOK
      <4> QED BY <2>3, <3>2, <4>1
    <3> QED BY <3>1, <3>3 DEF CallsOK
  <2>5. PICK z : z = enter_view(u, c)
    OBVIOUS
  <2>6. /\ In(z, p, L) /\ QuietIn(u, z, p) /\ Still(u, z) /\ z.last_views = u.last_views
    <3>1. CASE Aside(u, z, L)
      BY <2>2, <3>1, AsideIn
    <3>2. CASE z = Break(u, "process_new_view")
      <4>1. Ready(u) /\ IsRec(u, XFields) /\ IsRec(u.nv, NFields)
        BY <2>2, ReadyHas DEF In
      <4>2. Framed(u, z)
        BY <3>2, <4>1, BreakFramed
      <4>3. z.nv.complete = u.nv.complete
        BY <3>2, <4>1 DEF Break, IsRec, XFields, NFields
      <4>4. Moved(u, z, p, L)
        BY <2>2, <4>2, <4>3, MovedFramed
      <4> QED BY <4>4, KinFields DEF Moved, Still
    <3> QED BY <2>2, <2>4, <2>5, <3>1, <3>2, EnterView
  <2>7. PICK y : y = [z EXCEPT !.nv = [z.nv EXCEPT !.calls = << >>]]
    OBVIOUS
  <2>8. Moved(z, y, p, L)
    <3>1. Ready(z) /\ IsRec(z, XFields) /\ IsRec(z.nv, NFields)
      BY <2>6, ReadyHas DEF In
    <3>2. CallsOK(<< >>)
      BY DEF CallsOK, IsSeq
    <3>3. Framed(z, y)
      BY <2>7, <3>1, <3>2, PutCalls
    <3>4. y.nv.complete = z.nv.complete
      BY <2>7, <3>1 DEF IsRec, XFields, NFields
    <3> QED BY <2>6, <3>3, <3>4, MovedFramed
  <2>9. In(y, p, L) /\ QuietIn(u, y, p) /\ Still(u, y) /\ y.last_views = u.last_views
    <3>1. In(y, p, L) /\ QuietIn(z, y, p) /\ Kin(z, y)
      BY <2>8 DEF Moved
    <3>2. /\ y.id = z.id /\ y.v = z.v /\ y.last_views = z.last_views /\ y.sent = z.sent
          /\ y.oplog = z.oplog /\ y.last_stable = z.last_stable
      BY <3>1, KinFields
    <3> QED BY <2>6, <3>1, <3>2 DEF QuietIn, Still
  <2>10. Still(x, y) /\ y.last_views = x.last_views
    <3>1. \A f \in XFields \ {"nv"} : u[f] = x[f]
      BY <1>2, BaseFields, LoadFields DEF Good, Row
    <3>2. /\ u.id = x.id /\ u.v = x.v /\ u.last_views = x.last_views /\ u.sent = x.sent
          /\ u.oplog = x.oplog /\ u.last_stable = x.last_stable
      BY <3>1 DEF XFields
    <3> QED BY <2>9, <3>2 DEF Still
  <2>11. Calm(x, Store(y, p))
    BY <1>2, <2>1, <2>9, <2>10, StoreStill
  <2>12. run_calls(x) = Store(y, p)
    BY <1>1, <1>2, <1>5, <2>3, <2>5, <2>7 DEF run_calls
  <2> QED BY <2>11, <2>12
<1> QED BY <1>4, <1>5

-----------------------------------------------------------------------------
(* A View_change of another replica. *)
LEMMA RowRaise ==
  ASSUME NEW x, NEW L, NEW M \in [Replicas -> Nat], Row(x, L), \A i \in Replicas : L[i] <= M[i],
         M[x.id] <= x.v
  PROVE  Row(x, M)
<1>1. L \in [Replicas -> Nat]
  BY DEF Row, Base
<1>2. \A i \in Replicas, n \in Nat : n <= L[i] => n <= M[i]
  <2>1. ASSUME NEW i \in Replicas, NEW n \in Nat, n <= L[i] PROVE n <= M[i]
    <3>1. L[i] \in Nat /\ M[i] \in Nat /\ L[i] <= M[i]
      BY <1>1
    <3> QED BY <2>1, <3>1
  <2> QED BY <2>1
<1>3. Base(x, M)
  <2>1. \A i \in Replicas : x.last_vcs[i] => VcOK(x.slot[i], i) /\ x.slot[i].v <= M[i]
    BY <1>2 DEF Row, Base, VcOK
  <2> QED BY <2>1 DEF Row, Base
<1>4. ASSUME NEW p \in Replicas PROVE Info(x, x.nvs[p], p, M)
  <2>1. Info(x, x.nvs[p], p, L) /\ x.nvs[p].v \in Nat
    BY DEF Row, Info, NvOK, NvShape
  <2> QED BY <1>2, <2>1 DEF Info
<1> QED BY <1>3, <1>4 DEF Row

setViews(x, M) == [x EXCEPT !.last_views = M]
(* Hearing of later views. *)
LEMMA SetViews ==
  ASSUME NEW x, NEW M, Row(x, M)
  PROVE  /\ Good(setViews(x, M)) /\ Quieter(x, setViews(x, M))
         /\ \A f \in XFields \ {"last_views"} : setViews(x, M)[f] = x[f]
         /\ setViews(x, M).last_views = M
<1>1. PICK y : y = [x EXCEPT !.last_views = M]
  OBVIOUS
<1>2. Base(x, M) /\ IsRec(x, XFields) /\ M \in [Replicas -> Nat]
  BY BaseFields DEF Row
<1>3. IsRec(y, XFields) /\ y.last_views = M /\ \A f \in XFields \ {"last_views"} : y[f] = x[f]
  BY <1>1, <1>2 DEF IsRec, XFields
<1>4. /\ y.last_stable = x.last_stable /\ y.ckpts = x.ckpts
      /\ y.id = x.id /\ y.v = x.v /\ y.slot = x.slot /\ y.nvs = x.nvs
      /\ y.last_vcs = x.last_vcs /\ y.sent = x.sent /\ y.vacks = x.vacks
  BY <1>3 DEF XFields
<1>5. Base(y, M)
  BY <1>2, <1>3, <1>4 DEF Base, Shaped
<1>6. Row(y, M)
  BY <1>4, <1>5, RowSame
<1>7. Quieter(x, y)
  BY <1>4 DEF Quieter, Heard
<1> QED BY <1>1, <1>3, <1>6, <1>7 DEF setViews, Good

Added(x, r) == Good(r.x) /\ Still(x, r.x) /\ (r.stored \/ Quieter(x, r.x))

vcAcks(x, y, vc) == IF x.id = primary(x.v) /\ vc.v = x.v THEN move_acks_for(y, vc.id) ELSE y
vcTaken(x, vc) == nv_takes_vc(Load(x, primary(vc.v)), vc, TRUE)
vcPut(x, vc) ==
  IF vcTaken(x, vc)
  THEN Store(vcAcks(x, nv_add_vc(Load(x, primary(vc.v)), vc), vc), primary(vc.v)) ELSE x

(* A View_change for a view with a New_view ... *)
LEMMA AddVcToNv ==
  ASSUME NEW x, Good(x), NEW i \in Replicas \ {x.id}, NEW vc, VcOK(vc, i), vc.v > 0,
         x.nvs[primary(vc.v)].v = vc.v
  PROVE  Added(x, vi_add_vc_to_nv(x, vc))
<1>1. vc.id = i /\ vc.v \in Nat
  BY DEF VcOK
<1>2. PICK p \in Replicas : p = primary(vc.v)
  BY <1>1, PrimaryIn
<1>3. PICK L : L = x.last_views
  OBVIOUS
<1>4. Row(x, L) /\ Base(x, L) /\ L \in [Replicas -> Nat] /\ IsRec(x, XFields) /\ x.id \in Replicas
  BY <1>3, BaseFields DEF Good, Row
<1>5. PICK M : M = [L EXCEPT ![i] = greater(L[i], vc.v)]
  OBVIOUS
<1>6. /\ M \in [Replicas -> Nat] /\ \A j \in Replicas : L[j] <= M[j]
      /\ vc.v <= M[i] /\ M[x.id] = L[x.id] /\ L[x.id] <= x.v
  <2>1. greater(L[i], vc.v) \in Nat /\ L[i] <= greater(L[i], vc.v) /\ vc.v <= greater(L[i], vc.v)
    BY <1>1, <1>4 DEF greater
  <2>2. M \in [Replicas -> Nat] /\ M[i] = greater(L[i], vc.v) /\ \A j \in Replicas \ {i} : M[j] = L[j]
    BY <1>4, <1>5, <2>1
  <2>3. \A j \in Replicas : L[j] <= M[j]
    BY <1>4, <2>1, <2>2
  <2> QED BY <1>4, <2>1, <2>2, <2>3 DEF Base
<1>7. Row(x, M)
  BY <1>4, <1>6, RowRaise
<1>8. PICK y : y = vcPut(x, vc)
  OBVIOUS
<1>9. /\ Row(y, M) /\ y.id = x.id /\ y.v = x.v /\ y.last_views = L /\ y.sent = x.sent
      /\ y.oplog = x.oplog /\ y.last_stable = x.last_stable
      /\ ~vcTaken(x, vc) => y = x
  <2>1. CASE ~vcTaken(x, vc)
    BY <1>3, <1>7, <1>8, <2>1 DEF vcPut
  <2>2. CASE vcTaken(x, vc)
    <3>1. PICK u : u = Load(x, p)
      OBVIOUS
    <3>2. IsRec(u, XFields) /\ u.nv = x.nvs[p] /\ \A f \in XFields \ {"nv"} : u[f] = x[f]
      BY <1>4, <3>1, LoadFields
    <3>3. nv_takes_vc(u, vc, TRUE)
      BY <1>2, <2>2, <3>1 DEF vcTaken
    <3>4. Live(x.nvs[p])
      BY <1>2, <3>2, <3>3 DEF nv_takes_vc, Live
    <3>5. In(u, p, M)
      BY <1>7, <3>1, <3>4, LoadIn
    <3>6. PICK z : z = nv_add_vc(u, vc)
      OBVIOUS
    <3>7. Ready(u) /\ IsRec(u.slot, Replicas)
      BY <3>5, BaseFields DEF In
    <3>8. VcAdded(u, z, vc)
      BY <3>6, <3>7, AddVc
    <3>9. u.nv.v <= M[i]
      BY <1>2, <1>6, <3>2
    <3>10. In(z, p, M)
      BY <1>6, <3>5, <3>8, <3>9, InVc
    <3>11. PICK a : a = vcAcks(x, z, vc)
      OBVIOUS
    <3>12. Kin(u, z)
      BY <3>8, VcKin
    <3>13. u.id = x.id /\ z.id = u.id
      <4>1. "id" \in XFields \ {"nv"}
        BY DEF XFields
      <4> QED BY <3>2, <3>12, <4>1, KinFields
    <3>14. Moved(z, a, p, M)
      <4>1. CASE x.id = primary(x.v) /\ vc.v = x.v
        <5>1. p = z.id
          BY <1>2, <3>13, <4>1
        <5>2. a = move_acks_for(z, i)
          BY <1>1, <3>11, <4>1 DEF vcAcks
        <5> QED BY <3>10, <5>1, <5>2, MoveAcksFor
      <4>2. CASE ~(x.id = primary(x.v) /\ vc.v = x.v)
        <5>1. a = z
          BY <3>11, <4>2 DEF vcAcks
        <5> QED BY <3>10, <5>1, MovedReflexive
      <4> QED BY <4>1, <4>2
    <3>15. In(a, p, M) /\ Kin(z, a)
      BY <3>14 DEF Moved
    <3>16. y = Store(a, p)
      BY <1>2, <1>8, <2>2, <3>1, <3>6, <3>11 DEF vcPut
    <3>17. Row(y, M)
      BY <3>15, <3>16, StoreRow
    <3>18. Stored(a, y, p)
      <4>1. IsRec(a, XFields)
        BY <3>15, BaseFields DEF In
      <4> QED BY <3>16, <4>1, StoreFields
    <3>19. \A f \in XFields \ {"nv", "nvs", "slot", "last_vcs", "vacks"} : y[f] = x[f]
      BY <3>2, <3>12, <3>15, <3>18 DEF Kin, Stored
    <3>20. Kin(x, y)
      BY <3>19 DEF Kin
    <3> QED BY <1>3, <2>2, <3>17, <3>20, KinFields
  <2> QED BY <2>1, <2>2
<1>10. PICK z : z = setViews(y, M)
  OBVIOUS
<1>11. Good(z) /\ Quieter(y, z) /\ z.last_views = M /\ \A f \in XFields \ {"last_views"} : z[f] = y[f]
  BY <1>9, <1>10, SetViews
<1>12. /\ z.id = y.id /\ z.v = y.v /\ z.sent = y.sent /\ z.oplog = y.oplog
       /\ z.last_stable = y.last_stable
  BY <1>11 DEF XFields
<1>13. Still(x, z)
  BY <1>3, <1>6, <1>9, <1>11, <1>12 DEF Still
<1>14. vcTaken(x, vc) \/ Quieter(x, z)
  BY <1>9, <1>11
<1>15. vi_add_vc_to_nv(x, vc) = [x |-> z, stored |-> vcTaken(x, vc)]
  <2>1. vi_add_vc_to_nv(x, vc)
          = [x |-> [vcPut(x, vc) EXCEPT !.last_views[vc.id] = greater(@, vc.v)], stored |-> vcTaken(x, vc)]
    BY DEF vi_add_vc_to_nv, vcPut, vcTaken, vcAcks
  <2>2. z = [vcPut(x, vc) EXCEPT !.last_views[vc.id] = greater(@, vc.v)]
    BY <1>1, <1>5, <1>8, <1>9, <1>10 DEF setViews
  <2> QED BY <2>1, <2>2
<1>16. vi_add_vc_to_nv(x, vc).x = z /\ (vi_add_vc_to_nv(x, vc).stored <=> vcTaken(x, vc))
  BY <1>15
<1> QED BY <1>11, <1>13, <1>14, <1>16 DEF Added

(* ... and one kept for later ... *)
LEMMA AddVcToLast ==
  ASSUME NEW x, Good(x), NEW i \in Replicas \ {x.id}, NEW vc, VcOK(vc, i)
  PROVE  Added(x, vi_add_vc_to_last(x, vc))
<1>1. vc.id = i /\ vc.v \in Nat
  BY DEF VcOK
<1>2. CASE ~(vc.v > x.last_views[i])
  <2>1. vi_add_vc_to_last(x, vc) = [x |-> x, stored |-> FALSE]
    BY <1>1, <1>2 DEF vi_add_vc_to_last
  <2>2. vi_add_vc_to_last(x, vc).x = x
    BY <2>1
  <2>3. Calm(x, x)
    BY CalmReflexive
  <2> QED BY <2>2, <2>3 DEF Added, Calm
<1>3. CASE vc.v > x.last_views[i]
  <2>1. PICK L : L = x.last_views
    OBVIOUS
  <2>2. Row(x, L) /\ Base(x, L) /\ L \in [Replicas -> Nat] /\ IsRec(x, XFields) /\ x.id \in Replicas
    BY <2>1, BaseFields DEF Good, Row
  <2>3. PICK M : M = [L EXCEPT ![i] = vc.v]
    OBVIOUS
  <2>4. /\ M \in [Replicas -> Nat] /\ M[i] = vc.v /\ \A j \in Replicas \ {i} : M[j] = L[j]
    BY <1>1, <2>2, <2>3
  <2>5. (\A j \in Replicas : L[j] <= M[j]) /\ M[x.id] = L[x.id] /\ L[x.id] <= x.v
    <3>1. L[i] \in Nat /\ L[i] <= M[i]
      BY <1>1, <1>3, <2>1, <2>2, <2>4
    <3>2. \A j \in Replicas \ {i} : L[j] <= M[j]
      BY <2>2, <2>4
    <3> QED BY <2>2, <2>4, <3>1, <3>2 DEF Base
  <2>6. Row(x, M)
    BY <2>2, <2>4, <2>5, RowRaise
  <2>7. PICK A : A = IF x.id # primary(x.v) /\ vc.id # primary(x.v) /\ vc.v = x.v
                     THEN x.sent.ack \cup {View_change_ack(x.v, x.id, vc.id, vc)} ELSE x.sent.ack
    OBVIOUS
  <2>8. PICK t : t = [x.sent EXCEPT !.ack = A]
    OBVIOUS
  <2>9. Sends(t, x.id) /\ IsRec(t, SFields) /\ t.vc = x.sent.vc
    <3>1. Sends(x.sent, x.id) /\ IsRec(x.sent, SFields) /\ x.v \in Nat
      BY <2>2 DEF Base, Shaped
    <3>2. \A a \in A : a.v \in Nat
      BY <2>7, <3>1 DEF Sends, View_change_ack
    <3>3. IsRec(t, SFields) /\ t.vc = x.sent.vc /\ t.nv = x.sent.nv /\ t.ack = A
      BY <2>8, <3>1 DEF IsRec, SFields
    <3> QED BY <3>1, <3>2, <3>3 DEF Sends
  <2>10. PICK s, l : s = [x.slot EXCEPT ![i] = vc] /\ l = [x.last_vcs EXCEPT ![i] = TRUE]
    OBVIOUS
  <2>11. PICK y : y = [x EXCEPT !.slot = s, !.last_vcs = l, !.last_views = M, !.sent = t]
    OBVIOUS
  <2>12. /\ IsRec(y, XFields) /\ y.last_stable = x.last_stable /\ y.ckpts = x.ckpts
         /\ y.id = x.id /\ y.v = x.v /\ y.nvs = x.nvs /\ y.vacks = x.vacks /\ y.oplog = x.oplog
         /\ y.slot = s /\ y.last_vcs = l /\ y.last_views = M /\ y.sent = t
    BY <2>2, <2>11 DEF IsRec, XFields
  <2>13. /\ IsRec(s, Replicas) /\ s[i] = vc /\ \A j \in Replicas \ {i} : s[j] = x.slot[j]
         /\ l \in [Replicas -> BOOLEAN] /\ \A j \in Replicas \ {i} : l[j] = x.last_vcs[j]
    BY <2>2, <2>10 DEF IsRec, Base, Shaped
  <2>14. \A j \in Replicas : VcOK(x.slot[j], j) => VcOK(s[j], j)
    BY <2>13
  <2>15. Base(y, M)
    <3>1. Base(x, M)
      BY <2>6 DEF Row
    <3>2. Shaped(y) /\ Sends(y.sent, y.id) /\ Acked(y.vacks) /\ M[y.id] <= y.v
      BY <2>4, <2>9, <2>12, <2>13, <3>1 DEF Base, Shaped
    <3>3. \A j \in Replicas : y.last_vcs[j] => VcOK(y.slot[j], j) /\ y.slot[j].v <= M[j]
      <4>1. y.slot[i].v <= M[i] /\ VcOK(y.slot[i], i)
        BY <1>1, <2>4, <2>12, <2>13
      <4>2. \A j \in Replicas \ {i} : y.last_vcs[j] => VcOK(y.slot[j], j) /\ y.slot[j].v <= M[j]
        BY <2>12, <2>13, <3>1 DEF Base
      <4> QED BY <4>1, <4>2
    <3> QED BY <2>4, <3>2, <3>3 DEF Base
  <2>16. ASSUME NEW q \in Replicas PROVE Info(y, y.nvs[q], q, M)
    <3>1. Info(x, x.nvs[q], q, M)
      BY <2>6 DEF Row
    <3> QED BY <2>12, <2>14, <3>1 DEF Info
  <2>17. Good(y)
    BY <2>12, <2>15, <2>16 DEF Good, Row
  <2>18. Still(x, y)
    BY <2>1, <2>5, <2>9, <2>12 DEF Still
  <2>19. vi_add_vc_to_last(x, vc) = [x |-> y, stored |-> TRUE]
    BY <1>1, <1>3, <2>1, <2>3, <2>7, <2>8, <2>10, <2>11 DEF vi_add_vc_to_last
  <2>20. vi_add_vc_to_last(x, vc).x = y /\ vi_add_vc_to_last(x, vc).stored
    BY <2>19
  <2> QED BY <2>17, <2>18, <2>20 DEF Added
<1> QED BY <1>2, <1>3

(* ... vi_add_vc() as a whole. *)
LEMMA AddViewChange ==
  ASSUME NEW x, Good(x), NEW i \in Replicas \ {x.id}, NEW vc, VcOK(vc, i)
  PROVE  Added(x, vi_add_vc(x, vc))
<1>1. CASE vc.v < x.v \/ ~View_change_verify(vc)
  <2>1. vi_add_vc(x, vc) = [x |-> x, stored |-> FALSE]
    BY <1>1 DEF vi_add_vc
  <2>2. vi_add_vc(x, vc).x = x
    BY <2>1
  <2>3. Calm(x, x)
    BY CalmReflexive
  <2> QED BY <2>2, <2>3 DEF Added, Calm
<1>2. CASE ~(vc.v < x.v \/ ~View_change_verify(vc)) /\ x.nvs[primary(vc.v)].v = vc.v
  <2>1. vc.v > 0
    BY <1>2 DEF View_change_verify
  <2>2. vi_add_vc(x, vc) = vi_add_vc_to_nv(x, vc)
    BY <1>2 DEF vi_add_vc
  <2> QED BY <1>2, <2>1, <2>2, AddVcToNv
<1>3. CASE ~(vc.v < x.v \/ ~View_change_verify(vc)) /\ x.nvs[primary(vc.v)].v # vc.v
  <2>1. vi_add_vc(x, vc) = vi_add_vc_to_last(x, vc)
    BY <1>3 DEF vi_add_vc
  <2> QED BY <2>1, AddVcToLast
<1> QED BY <1>1, <1>2, <1>3

-----------------------------------------------------------------------------
(* The move to another view. *)
LEMMA RowRise ==
  ASSUME NEW x, NEW y, NEW L, Row(x, L), IsRec(y, XFields), y.v \in Nat, y.v >= x.v,
         y.id = x.id, y.slot = x.slot, y.nvs = x.nvs, y.last_vcs = x.last_vcs,
         y.last_views = x.last_views, y.sent = x.sent, y.vacks = x.vacks,
         y.last_stable = x.last_stable, y.ckpts = x.ckpts
  PROVE  Row(y, L) /\ Quieter(x, y)
<1>1. Base(x, L) /\ x.v \in Nat /\ L[x.id] \in Nat
  BY BaseFields DEF Row
<1>2. L[x.id] <= y.v
  BY <1>1 DEF Base
<1>3. Base(y, L)
  BY <1>1, <1>2 DEF Base, Shaped
<1>4. ASSUME NEW p \in Replicas PROVE Info(y, y.nvs[p], p, L)
  <2>1. Info(x, x.nvs[p], p, L) /\ x.nvs[p].v \in Nat
    BY DEF Row, Info, NvOK, NvShape
  <2>2. x.nvs[p].v <= x.v => x.nvs[p].v <= y.v
    BY <1>1, <2>1
  <2> QED BY <2>1, <2>2 DEF Info
<1>5. Quieter(x, y)
  BY DEF Quieter, Heard
<1> QED BY <1>3, <1>4, <1>5 DEF Row

(* Discarding what is older than the view keeps the invariant. *)
LEMMA DiscardOld ==
  ASSUME NEW x, NEW L, Row(x, L)
  PROVE  /\ Row(discard_old(x), L) /\ Quieter(x, discard_old(x))
         /\ \A f \in XFields \ {"last_vcs", "vacks", "nvs"} : discard_old(x)[f] = x[f]
         /\ \A p \in Replicas : x.nvs[p].v < x.v => discard_old(x).nvs[p] = Empty_NV_info
<1>1. PICK l, a, n :
        /\ l = [i \in Replicas |-> x.last_vcs[i] /\ x.slot[i].v >= x.v]
        /\ a = [i \in Replicas |-> IF x.vacks[i].v < x.v THEN [EmptyVacks EXCEPT !.v = x.v]
                                   ELSE x.vacks[i]]
        /\ n = [i \in Replicas |-> IF x.nvs[i].v < x.v THEN Empty_NV_info ELSE x.nvs[i]]
  OBVIOUS
<1>2. PICK y : y = [x EXCEPT !.last_vcs = l, !.vacks = a, !.nvs = n]
  OBVIOUS
<1>3. Base(x, L) /\ IsRec(x, XFields) /\ x.v \in Nat
  BY BaseFields DEF Row
<1>4. /\ IsRec(y, XFields) /\ y.last_vcs = l /\ y.vacks = a /\ y.nvs = n
      /\ \A f \in XFields \ {"last_vcs", "vacks", "nvs"} : y[f] = x[f]
  BY <1>2, <1>3 DEF IsRec, XFields
<1>5. /\ y.id = x.id /\ y.v = x.v /\ y.slot = x.slot /\ y.last_views = x.last_views
      /\ y.sent = x.sent /\ y.last_stable = x.last_stable /\ y.ckpts = x.ckpts
  BY <1>4 DEF XFields
<1>6. l \in [Replicas -> BOOLEAN] /\ \A i \in Replicas : l[i] => x.last_vcs[i]
  BY <1>1
<1>7. Acked(a)
  <2>1. PICK e : e = [EmptyVacks EXCEPT !.v = x.v]
    OBVIOUS
  <2>2. /\ IsRec(e, {"v", "vacks"}) /\ e.vacks = [j \in Replicas |-> None]
    BY <2>1 DEF EmptyVacks, IsRec
  <2>3. IsRec(e.vacks, Replicas) /\ \A j \in Replicas : e.vacks[j] = None
    BY <2>2 DEF IsRec
  <2>4. Acked(x.vacks)
    BY <1>3 DEF Base
  <2>5. IsRec(a, Replicas) /\ \A i \in Replicas : a[i] = e \/ a[i] = x.vacks[i]
    BY <1>1, <2>1 DEF IsRec
  <2>6. ASSUME NEW i \in Replicas
        PROVE  /\ IsRec(a[i], {"v", "vacks"}) /\ IsRec(a[i].vacks, Replicas)
               /\ \A j \in Replicas : a[i].vacks[j] # None => a[i].vacks[j].vcid \in Replicas
    <3>1. CASE a[i] = e
      BY <2>2, <2>3, <3>1
    <3>2. CASE a[i] = x.vacks[i]
      BY <2>4, <3>2 DEF Acked
    <3> QED BY <2>5, <3>1, <3>2
  <2> QED BY <2>5, <2>6 DEF Acked
<1>8. /\ IsRec(n, Replicas) /\ \A i \in Replicas : n[i] = Empty_NV_info \/ n[i] = x.nvs[i]
      /\ \A i \in Replicas : x.nvs[i].v < x.v => n[i] = Empty_NV_info
  BY <1>1 DEF IsRec
<1>9. Base(y, L)
  BY <1>3, <1>4, <1>5, <1>6, <1>7, <1>8 DEF Base, Shaped
<1>10. ASSUME NEW p \in Replicas PROVE Info(y, y.nvs[p], p, L)
  <2>1. CASE n[p] = Empty_NV_info
    BY <1>3, <1>4, <1>5, <2>1, EmptyInfo
  <2>2. CASE n[p] = x.nvs[p]
    <3>1. Info(x, x.nvs[p], p, L)
      BY DEF Row
    <3> QED BY <1>4, <1>5, <2>2, <3>1 DEF Info
  <2> QED BY <1>8, <2>1, <2>2
<1>11. Quieter(x, y)
  <2> SUFFICES ASSUME NEW w \in Nat, NEW j \in Heard(y, w) PROVE j \in Heard(x, w)
    BY DEF Quieter
  <2>1. PICK q \in Replicas : q = primary(w)
    BY PrimaryIn
  <2>2. j \in Replicas /\ \A i \in Replicas : ~Empty_NV_info.vcs[i].vc
    BY EmptyShape DEF Heard, Empty_VC_info
  <2>3. \/ n[q].v = w /\ n[q].vcs[j].vc
        \/ l[j] /\ x.slot[j].v >= w
    BY <1>4, <1>5, <2>1 DEF Heard
  <2>4. \/ x.nvs[q].v = w /\ x.nvs[q].vcs[j].vc
        \/ x.last_vcs[j] /\ x.slot[j].v >= w
    BY <1>6, <1>8, <2>2, <2>3
  <2> QED BY <2>1, <2>2, <2>4 DEF Heard
<1>12. discard_old(x) = y
  BY <1>1, <1>2 DEF discard_old
<1> QED BY <1>4, <1>8, <1>9, <1>10, <1>11, <1>12 DEF Row

(* The View_change it sends. *)
ownVc(x) == View_change(x.id, x.v, x.last_stable, [n \in reported(x) |-> n], x.oplog)

(* The own View_change is well formed ... *)
LEMMA OwnVcOK ==
  ASSUME NEW x, NEW L, Base(x, L)
  PROVE  /\ VcOK(ownVc(x), x.id) /\ ownVc(x).v = x.v /\ ownVc(x).ls = x.last_stable
<1>1. PICK ls \in Int : ls = x.last_stable
  BY DEF Base, Shaped
<1>2. PICK K : K = {n \in (ls + 1)..(ls + max_out) : n \in DOMAIN x.oplog /\ x.oplog[n].v >= 0}
  OBVIOUS
<1>3. PICK c : c = [n \in reported(x) |-> n]
  OBVIOUS
<1>4. /\ ownVc(x).id = x.id /\ ownVc(x).v = x.v /\ ownVc(x).ls = ls /\ ownVc(x).ckpts = c
      /\ DOMAIN ownVc(x).reqs = K
  BY <1>1, <1>2, <1>3 DEF ownVc, View_change
<1>5. IsFiniteSet(DOMAIN c) /\ DOMAIN c \subseteq Int
  <2>1. DOMAIN c = reported(x) /\ reported(x) \subseteq x.ckpts
    BY <1>3 DEF reported
  <2>2. IsFiniteSet(x.ckpts) /\ x.ckpts \subseteq Int
    BY DEF Base, Shaped
  <2> QED BY <2>1, <2>2, FS_Subset
<1>6. IsFiniteSet(K) /\ K \subseteq Int
  <2>1. PICK k \in Int, m \in Int : k = ls + 1 /\ m = ls + max_out
    BY <1>1, ViewChangeAssumption
  <2>2. IsFiniteSet(k..m)
    BY <2>1, FS_Interval
  <2>3. K \subseteq k..m
    BY <1>2, <2>1
  <2>4. k..m \subseteq Int
    OBVIOUS
  <2> QED BY <2>2, <2>3, <2>4, FS_Subset
<1>7. x.v \in Nat
  BY BaseFields
<1> QED BY <1>1, <1>4, <1>5, <1>6, <1>7 DEF VcOK

(* ... the bit of an entry is its own while it fits an int ... *)
LEMMA MaskOf ==
  ASSUME max_out <= IntBits, NEW k \in Nat, k < max_out
  PROVE  mask(k) = IF k = IntBits - 1 THEN k..(WordBits - 1) ELSE {k}
<1>1. /\ max_out \in Nat /\ IntBits \in Nat /\ IntBits > 0 /\ WordBits \in Nat
      /\ IntBits <= WordBits /\ WordBits > 0
  BY ViewChangeAssumption
<1>2. k < IntBits /\ k < WordBits
  BY <1>1
<1>3. k \div WordBits = 0 /\ k % WordBits = k /\ k % IntBits = k
  BY <1>1, <1>2
<1>4. 0 * WordBits = 0
  BY <1>1
<1>5. mask(k) = {0 + b : b \in IF k = IntBits - 1 THEN k..(WordBits - 1) ELSE {k}}
  BY <1>3, <1>4 DEF mask
<1>6. (IF k = IntBits - 1 THEN k..(WordBits - 1) ELSE {k}) \subseteq Int
  BY <1>1
<1>7. ASSUME NEW S \in SUBSET Int PROVE {0 + b : b \in S} = S
  <2>1. \A b \in S : 0 + b = b
    OBVIOUS
  <2> QED BY <2>1
<1> QED BY <1>5, <1>6, <1>7

(* The bits of different sequence numbers do not overlap: the bit for the   *)
(* last one is extended beyond the others.                                  *)
LEMMA MasksApart ==
  ASSUME max_out <= IntBits, NEW j \in Nat, j < max_out, NEW k \in Nat, k < max_out
  PROVE  (mask(j) \cap mask(k) # {}) <=> j = k
<1>1. /\ max_out \in Nat /\ IntBits \in Nat /\ IntBits > 0 /\ WordBits \in Nat
      /\ IntBits <= WordBits /\ j < IntBits /\ k < IntBits
  BY ViewChangeAssumption
<1>2. \A n \in Nat : n < max_out => n \in mask(n) /\ \A b \in mask(n) : b \in Int /\ (b = n \/ (n = IntBits - 1 /\ b >= n))
  <2>1. ASSUME NEW n \in Nat, n < max_out
        PROVE  n \in mask(n) /\ \A b \in mask(n) : b \in Int /\ (b = n \/ (n = IntBits - 1 /\ b >= n))
    <3>1. mask(n) = IF n = IntBits - 1 THEN n..(WordBits - 1) ELSE {n}
      BY <2>1, MaskOf
    <3>2. n <= WordBits - 1
      BY <1>1, <2>1
    <3> QED BY <1>1, <3>1, <3>2
  <2> QED BY <2>1
<1>3. ASSUME NEW b, b \in mask(j), b \in mask(k) PROVE j = k
  <2>1. b \in Int /\ (b = j \/ (j = IntBits - 1 /\ b >= j)) /\ (b = k \/ (k = IntBits - 1 /\ b >= k))
    BY <1>2, <1>3
  <2> QED BY <1>1, <2>1
<1>4. j \in mask(j)
  BY <1>2
<1> QED BY <1>3, <1>4

(* ... and so it marks exactly what was prepared. *)
LEMMA OwnVcReports ==
  ASSUME max_out <= IntBits, NEW x, NEW L, Base(x, L)
  PROVE  \A n \in DOMAIN ownVc(x).reqs : test(ownVc(x), n) <=> x.oplog[n].m
<1>1. PICK ls \in Int : ls = x.last_stable
  BY DEF Base, Shaped
<1>2. PICK K : K = {n \in (ls + 1)..(ls + max_out) : n \in DOMAIN x.oplog /\ x.oplog[n].v >= 0}
  OBVIOUS
<1>3. PICK vc : vc = ownVc(x)
  OBVIOUS
<1>4. /\ vc.ls = ls /\ DOMAIN vc.reqs = K
      /\ vc.bits = UNION {mask(k - ls - 1) : k \in {m \in K : x.oplog[m].m}}
  BY <1>1, <1>2, <1>3 DEF ownVc, View_change
<1>5. \A n \in K : n \in Int /\ n - ls - 1 \in Nat /\ n - ls - 1 < max_out
  BY <1>1, <1>2, ViewChangeAssumption
<1>6. ASSUME NEW n \in K, NEW k \in K PROVE (mask(n - ls - 1) \cap mask(k - ls - 1) # {}) <=> n = k
  <2>1. PICK a \in Nat, b \in Nat : a = n - ls - 1 /\ b = k - ls - 1 /\ a < max_out /\ b < max_out
    BY <1>5
  <2>2. (mask(a) \cap mask(b) # {}) <=> a = b
    BY <2>1, MasksApart
  <2>3. a = b <=> n = k
    BY <1>5, <2>1
  <2> QED BY <2>1, <2>2, <2>3
<1>7. ASSUME NEW n \in K PROVE test(vc, n) <=> x.oplog[n].m
  <2>1. test(vc, n) <=> \E k \in K : x.oplog[k].m /\ mask(n - ls - 1) \cap mask(k - ls - 1) # {}
    BY <1>4 DEF test
  <2> QED BY <1>6, <2>1
<1> QED BY <1>3, <1>4, <1>7

putOwn(x, vc) ==
  [x EXCEPT !.slot[x.id] = vc, !.last_vcs[x.id] = TRUE, !.last_views[x.id] = x.v,
            !.sent.vc = @ \cup {vc}]
OwnPut(x, z, vc) ==
  /\ z.id = x.id /\ z.v = x.v /\ z.nvs = x.nvs /\ z.oplog = x.oplog /\ z.last_stable = x.last_stable
  /\ z.sent.vc = x.sent.vc \cup {vc}

(* Storing the own View_change. *)
LEMMA PutOwn ==
  ASSUME NEW x, Good(x), Few(x, x.v), NEW vc, VcOK(vc, x.id), vc.v = x.v
  PROVE  /\ Good(putOwn(x, vc)) /\ Own(putOwn(x, vc)) /\ Few(putOwn(x, vc), x.v)
         /\ OwnPut(x, putOwn(x, vc), vc)
<1>1. PICK L, i : L = x.last_views /\ i = x.id
  OBVIOUS
<1>2. /\ Row(x, L) /\ Base(x, L) /\ L \in [Replicas -> Nat] /\ IsRec(x, XFields) /\ i \in Replicas
      /\ x.v \in Nat
  BY <1>1, BaseFields DEF Good, Row
<1>3. PICK M : M = [L EXCEPT ![i] = x.v]
  OBVIOUS
<1>4. M \in [Replicas -> Nat] /\ M[i] = x.v /\ \A j \in Replicas \ {i} : M[j] = L[j]
  BY <1>2, <1>3
<1>5. (\A j \in Replicas : L[j] <= M[j]) /\ M[x.id] <= x.v
  <2>1. L[i] \in Nat /\ L[i] <= M[i]
    BY <1>1, <1>2, <1>4 DEF Base
  <2>2. \A j \in Replicas \ {i} : L[j] <= M[j]
    BY <1>2, <1>4
  <2>3. M[x.id] <= x.v
    BY <1>1, <1>2, <1>4
  <2> QED BY <2>1, <2>2, <2>3
<1>6. Row(x, M)
  BY <1>2, <1>4, <1>5, RowRaise
<1>7. PICK t : t = [x.sent EXCEPT !.vc = @ \cup {vc}]
  OBVIOUS
<1>8. Sends(t, x.id) /\ IsRec(t, SFields) /\ t.vc = x.sent.vc \cup {vc}
  <2>1. Sends(x.sent, x.id) /\ IsRec(x.sent, SFields)
    BY <1>2 DEF Base, Shaped
  <2>2. IsRec(t, SFields) /\ t.vc = x.sent.vc \cup {vc} /\ t.nv = x.sent.nv /\ t.ack = x.sent.ack
    BY <1>7, <2>1 DEF IsRec, SFields
  <2> QED BY <2>1, <2>2 DEF Sends
<1>9. PICK s, l : s = [x.slot EXCEPT ![i] = vc] /\ l = [x.last_vcs EXCEPT ![i] = TRUE]
  OBVIOUS
<1>10. PICK y : y = [x EXCEPT !.slot = s, !.last_vcs = l, !.last_views = M, !.sent = t]
  OBVIOUS
<1>11. /\ IsRec(y, XFields) /\ y.last_stable = x.last_stable /\ y.ckpts = x.ckpts
       /\ y.id = x.id /\ y.v = x.v /\ y.nvs = x.nvs /\ y.vacks = x.vacks /\ y.oplog = x.oplog
       /\ y.slot = s /\ y.last_vcs = l /\ y.last_views = M /\ y.sent = t
  BY <1>2, <1>10 DEF IsRec, XFields
<1>12. /\ IsRec(s, Replicas) /\ s[i] = vc /\ \A j \in Replicas \ {i} : s[j] = x.slot[j]
       /\ l \in [Replicas -> BOOLEAN] /\ \A j \in Replicas \ {i} : l[j] = x.last_vcs[j]
  BY <1>2, <1>9 DEF IsRec, Base, Shaped
<1>13. \A j \in Replicas : VcOK(x.slot[j], j) => VcOK(s[j], j)
  BY <1>1, <1>12
<1>14. Base(y, M)
  <2>1. Base(x, M)
    BY <1>6 DEF Row
  <2>2. Shaped(y) /\ Sends(y.sent, y.id) /\ Acked(y.vacks) /\ M[y.id] <= y.v
    BY <1>4, <1>8, <1>11, <1>12, <2>1 DEF Base, Shaped
  <2>3. \A j \in Replicas : y.last_vcs[j] => VcOK(y.slot[j], j) /\ y.slot[j].v <= M[j]
    <3>1. y.slot[i].v <= M[i] /\ VcOK(y.slot[i], i)
      BY <1>1, <1>2, <1>4, <1>11, <1>12
    <3>2. \A j \in Replicas \ {i} : y.last_vcs[j] => VcOK(y.slot[j], j) /\ y.slot[j].v <= M[j]
      BY <1>11, <1>12, <2>1 DEF Base
    <3> QED BY <3>1, <3>2
  <2> QED BY <1>4, <2>2, <2>3 DEF Base
<1>15. ASSUME NEW q \in Replicas PROVE Info(y, y.nvs[q], q, M)
  <2>1. Info(x, x.nvs[q], q, M)
    BY <1>6 DEF Row
  <2> QED BY <1>11, <1>13, <2>1 DEF Info
<1>16. Good(y)
  BY <1>11, <1>14, <1>15 DEF Good, Row
<1>17. Few(y, x.v)
  <2> SUFFICES ASSUME NEW w \in Nat, w > x.v PROVE Cardinality(Heard(y, w)) <= F
    BY DEF Few
  <2>1. Heard(y, w) \subseteq Heard(x, w)
    <3>1. ASSUME NEW j \in Heard(y, w) PROVE j \in Heard(x, w)
      <4>1. j \in Replicas /\ \/ x.nvs[primary(w)].v = w /\ x.nvs[primary(w)].vcs[j].vc
                              \/ l[j] /\ s[j].v >= w
        BY <1>11 DEF Heard
      <4>2. j = i => ~(s[j].v >= w)
        BY <1>2, <1>12
      <4>3. j # i => l[j] = x.last_vcs[j] /\ s[j] = x.slot[j]
        BY <1>12, <4>1
      <4> QED BY <4>1, <4>2, <4>3 DEF Heard
    <3> QED BY <3>1
  <2>2. Heard(y, w) \in SUBSET Replicas /\ Heard(x, w) \in SUBSET Replicas
    BY DEF Heard
  <2>3. PICK a, b : a = Cardinality(Heard(y, w)) /\ b = Cardinality(Heard(x, w))
    OBVIOUS
  <2>4. a \in Nat /\ b \in Nat /\ a <= b
    BY <2>1, <2>2, <2>3, Wider
  <2>5. b <= F /\ F \in Nat
    BY <2>3, ReplicasFinite DEF Few
  <2> QED BY <2>3, <2>4, <2>5
<1>18. putOwn(x, vc) = y
  BY <1>1, <1>3, <1>7, <1>9, <1>10 DEF putOwn
<1>19. Own(y) /\ OwnPut(x, y, vc)
  BY <1>1, <1>4, <1>8, <1>11 DEF Own, OwnPut
<1> QED BY <1>16, <1>17, <1>18, <1>19

(* As primary of the new view it starts its New_view. *)
LEMMA NewViewCalm ==
  ASSUME NEW z, Good(z), z.v > 0, primary(z.v) = z.id, z.nvs[z.id] = Empty_NV_info
  PROVE  Calm(z, Store(move_acks(move_vcs(nv_add_nv(Load(z, z.id), New_view(z.v)), z.v)), z.id))
<1>1. PICK L, p, m, u : L = z.last_views /\ p = z.id /\ m = New_view(z.v) /\ u = Load(z, p)
  OBVIOUS
<1>2. Row(z, L) /\ Base(z, L) /\ IsRec(z, XFields) /\ p \in Replicas /\ z.v \in Nat
  BY <1>1, BaseFields DEF Good, Row
<1>3. m.v = z.v /\ m.vcs = [i \in Replicas |-> None] /\ MsgOK(m, m.v)
  BY <1>1 DEF New_view, MsgOK, IsRec, MFields
<1>4. Refers(fresh(m))
  <2>1. PICK n : n = fresh(m)
    OBVIOUS
  <2>2. n.msg = m
    BY <1>2, <1>3, <2>1, FreshShape
  <2>3. IsRec(m.vcs, Replicas) /\ \A i \in Replicas : m.vcs[i] = None
    BY <1>3 DEF IsRec
  <2> QED BY <2>1, <2>2, <2>3 DEF Refers, has_vc
<1>5. PICK y : y = setNv(u, fresh(m))
  OBVIOUS
<1>6. IsRec(u, XFields) /\ u.nv = Empty_NV_info
  BY <1>1, <1>2, LoadFields
<1>7. NvSet(u, y, fresh(m))
  BY <1>5, <1>6, SetNv
<1>8. Came(u, y, p, L) /\ In(y, p, L)
  <2>1. m.v \in Nat /\ m.v > 0 /\ primary(m.v) = p /\ m.v <= z.v
    BY <1>1, <1>2, <1>3
  <2>2. NvSet(Load(z, p), y, fresh(m))
    BY <1>1, <1>7
  <2>3. Came(Load(z, p), y, p, L)
    BY <1>2, <1>3, <1>4, <2>1, <2>2, FreshIn
  <2> QED BY <1>1, <2>3 DEF Came
<1>9. nv_add_nv(u, m) = y
  <2>1. ~(m.v <= u.nv.v)
    BY <1>2, <1>3, <1>6, EmptyShape
  <2> QED BY <1>5, <2>1 DEF nv_add_nv, setNv, fresh
<1>10. y.nv.v = z.v
  BY <1>2, <1>3, <1>7, FreshShape DEF NvSet
<1>11. PICK a : a = move_vcs(y, z.v)
  OBVIOUS
<1>12. Moved(y, a, p, L)
  BY <1>8, <1>10, <1>11, MoveVcs
<1>13. PICK b : b = move_acks(a)
  OBVIOUS
<1>14. Moved(a, b, p, L)
  <2>1. In(a, p, L) /\ a.id = y.id /\ y.id = u.id /\ u.id = z.id
    <3>1. a.id = y.id
      BY <1>12, KinFields DEF Moved
    <3>2. y.id = u.id
      BY <1>8, KinFields DEF Came
    <3> QED BY <1>1, <1>12, <3>1, <3>2, GoodLoad DEF Moved
  <2> QED BY <1>1, <1>13, <2>1, MoveAcks
<1>15. Came(u, b, p, L)
  BY <1>8, <1>12, <1>14, CameMoved
<1>16. Calm(z, Store(b, p))
  BY <1>1, <1>2, <1>15, StoreCalm
<1> QED BY <1>1, <1>9, <1>11, <1>13, <1>16

sendAcks(z, A) == [z EXCEPT !.sent.ack = @ \cup A]
(* Sending acknowledgements stays within the view. *)
LEMMA SendAcksCalm ==
  ASSUME NEW z, Good(z), NEW A, \A a \in A : a.v \in Nat
  PROVE  Calm(z, sendAcks(z, A))
<1>1. PICK L : L = z.last_views
  OBVIOUS
<1>2. Base(z, L) /\ IsRec(z, XFields)
  BY <1>1, BaseFields DEF Good, Row
<1>3. PICK t : t = [z.sent EXCEPT !.ack = @ \cup A]
  OBVIOUS
<1>4. Sends(t, z.id) /\ IsRec(t, SFields) /\ t.vc = z.sent.vc
  <2>1. Sends(z.sent, z.id) /\ IsRec(z.sent, SFields)
    BY <1>2 DEF Base, Shaped
  <2>2. IsRec(t, SFields) /\ t.vc = z.sent.vc /\ t.nv = z.sent.nv /\ t.ack = z.sent.ack \cup A
    BY <1>3, <2>1 DEF IsRec, SFields
  <2> QED BY <2>1, <2>2 DEF Sends
<1>5. PICK y : y = [z EXCEPT !.sent = t]
  OBVIOUS
<1>6. /\ IsRec(y, XFields) /\ y.last_stable = z.last_stable /\ y.ckpts = z.ckpts
      /\ y.id = z.id /\ y.v = z.v /\ y.slot = z.slot /\ y.nv = z.nv /\ y.nvs = z.nvs
      /\ y.last_vcs = z.last_vcs /\ y.last_views = z.last_views /\ y.sent = t
      /\ y.vacks = z.vacks /\ y.oplog = z.oplog
  BY <1>2, <1>5 DEF IsRec, XFields
<1>7. Base(y, L)
  BY <1>2, <1>4, <1>6 DEF Base, Shaped
<1>8. Aside(z, y, L)
  BY <1>4, <1>6, <1>7 DEF Aside
<1>9. sendAcks(z, A) = y
  BY <1>3, <1>5 DEF sendAcks
<1> QED BY <1>1, <1>8, <1>9, AsideGood

(* Where a replica is when it has sent its View_change. *)
Landed(x, y) ==
  /\ Good(y) /\ Few(y, y.v) /\ Own(y) /\ y.id = x.id
  /\ (max_out <= IntBits /\ \A m \in x.sent.vc : m.v < x.v /\ m.ls <= x.last_stable) => Reports(y)

oldAcks(x) ==
  {View_change_ack(x.v, x.id, i, ownVc(x)) :
     i \in {j \in Replicas \ {x.id, primary(x.v)} :
              discard_old(x).last_vcs[j] /\ discard_old(x).slot[j].v = x.v}}
ownPlaced(x) ==
  [discard_old(x) EXCEPT !.slot[x.id] = ownVc(x), !.last_vcs[x.id] = TRUE,
                         !.last_views[x.id] = x.v, !.sent.vc = @ \cup {ownVc(x)}]

(* view_change() in stages ... *)
LEMMA ViewChangeStages ==
  ASSUME NEW x
  PROVE  view_change(x) =
           IF primary(x.v) # x.id THEN sendAcks(ownPlaced(x), oldAcks(x))
           ELSE Store(move_acks(move_vcs(nv_add_nv(Load(ownPlaced(x), x.id), New_view(x.v)), x.v)),
                      x.id)
BY DEF view_change, sendAcks, ownPlaced, oldAcks, ownVc

(* ... which lead into the new view with the invariant. *)
LEMMA ViewChangeLands ==
  ASSUME NEW x, Good(x), Few(x, x.v), x.v > 0, x.nvs[x.id].v < x.v
  PROVE  Landed(x, view_change(x))
<1>1. PICK L, y, vc : L = x.last_views /\ y = discard_old(x) /\ vc = ownVc(x)
  OBVIOUS
<1>2. Row(x, L) /\ Base(x, L) /\ x.v \in Nat /\ x.id \in Replicas
  BY <1>1, BaseFields DEF Good, Row
<1>3. /\ Row(y, L) /\ Quieter(x, y) /\ y.nvs[x.id] = Empty_NV_info
      /\ \A f \in XFields \ {"last_vcs", "vacks", "nvs"} : y[f] = x[f]
  BY <1>1, <1>2, DiscardOld
<1>4. /\ y.id = x.id /\ y.v = x.v /\ y.last_views = x.last_views /\ y.oplog = x.oplog
      /\ y.last_stable = x.last_stable /\ y.sent = x.sent
  BY <1>3 DEF XFields
<1>5. Good(y) /\ Few(y, y.v)
  BY <1>1, <1>3, <1>4, QuieterFew DEF Good
<1>6. VcOK(vc, x.id) /\ vc.v = x.v /\ vc.ls = x.last_stable
  BY <1>1, <1>2, OwnVcOK
<1>7. PICK z : z = putOwn(y, vc)
  OBVIOUS
<1>8. Good(z) /\ Own(z) /\ Few(z, x.v) /\ OwnPut(y, z, vc)
  BY <1>4, <1>5, <1>6, <1>7, PutOwn
<1>9. /\ z.id = x.id /\ z.v = x.v /\ z.nvs = y.nvs /\ z.oplog = x.oplog
      /\ z.last_stable = x.last_stable /\ z.sent.vc = x.sent.vc \cup {vc}
  BY <1>4, <1>8 DEF OwnPut
<1>10. z = ownPlaced(x)
  BY <1>1, <1>4, <1>7 DEF putOwn, ownPlaced
<1>11. ASSUME max_out <= IntBits, \A m \in x.sent.vc : m.v < x.v /\ m.ls <= x.last_stable
       PROVE  Reports(z)
  <2>1. x.last_stable \in Int /\ \A m \in x.sent.vc : m.v \in Nat /\ m.ls \in Int
    BY <1>2 DEF Base, Shaped, Sends, VcOK
  <2>2. \A m \in x.sent.vc : m.v <= x.v /\ m.v # x.v
    BY <1>2, <1>11, <2>1
  <2>3. \A n \in DOMAIN vc.reqs : test(vc, n) <=> x.oplog[n].m
    BY <1>1, <1>2, <1>11, OwnVcReports
  <2>4. vc.v <= x.v /\ vc.ls <= x.last_stable
    BY <1>2, <1>6, <2>1
  <2>5. ASSUME NEW m \in z.sent.vc
        PROVE  /\ m.v <= z.v /\ m.ls <= z.last_stable
               /\ m.v = z.v /\ m.ls = z.last_stable =>
                    \A n \in DOMAIN m.reqs : test(m, n) <=> z.oplog[n].m
    <3>1. CASE m = vc
      BY <1>9, <2>3, <2>4, <3>1
    <3>2. CASE m \in x.sent.vc
      BY <1>9, <1>11, <2>2, <3>2
    <3> QED BY <1>9, <3>1, <3>2
  <2> QED BY <2>5 DEF Reports
<1>12. Calm(z, view_change(x))
  <2>1. CASE primary(x.v) # x.id
    <3>1. \A a \in oldAcks(x) : a.v \in Nat
      BY <1>2 DEF oldAcks, View_change_ack
    <3> QED BY <1>8, <1>10, <2>1, <3>1, SendAcksCalm, ViewChangeStages
  <2>2. CASE primary(x.v) = x.id
    <3>1. z.v > 0 /\ primary(z.v) = z.id /\ z.nvs[z.id] = Empty_NV_info
      BY <1>3, <1>9, <2>2
    <3>2. Calm(z, Store(move_acks(move_vcs(nv_add_nv(Load(z, z.id), New_view(z.v)), z.v)), z.id))
      BY <1>8, <3>1, NewViewCalm
    <3> QED BY <1>9, <1>10, <2>2, <3>2, ViewChangeStages
  <2> QED BY <2>1, <2>2
<1>13. PICK e : e = view_change(x)
  OBVIOUS
<1>14. Good(e) /\ Few(e, e.v) /\ Own(e) /\ e.id = z.id
  BY <1>8, <1>9, <1>12, <1>13, CalmFew
<1>15. Reports(z) => Reports(e)
  BY <1>8, <1>12, <1>13, StillReports DEF Calm, Good
<1> QED BY <1>9, <1>11, <1>13, <1>14, <1>15 DEF Landed

-----------------------------------------------------------------------------
(* Replica::send_view_change() and the handlers that call it. *)
Arrived(x, y) ==
  /\ Good(y) /\ Few(y, y.v) /\ Own(y) /\ y.id = x.id
  /\ max_out <= IntBits /\ Reports(x) => Reports(y)

leaves(x, e, o, g) ==
  [x EXCEPT !.v = @ + 1, !.limbo = TRUE, !.vtimer = FALSE, !.last_executed = e, !.tentative = FALSE,
            !.oplog = o, !.plog = g]

(* send_view_change() arrives in the next view. *)
LEMMA SendViewChange ==
  ASSUME NEW x, Good(x), Few(x, x.v + 1)
  PROVE  Arrived(x, send_view_change(x))
<1>1. PICK L : L = x.last_views
  OBVIOUS
<1>2. Row(x, L) /\ Base(x, L) /\ IsRec(x, XFields) /\ x.v \in Nat /\ x.id \in Replicas
  BY <1>1, BaseFields DEF Good, Row
<1>3. PICK e, o, g :
        /\ e = IF x.tentative THEN x.lc ELSE x.last_executed
        /\ o = [n \in Seqnos |-> IF in_window(x, n) THEN move_to_oplog(x, n) ELSE x.oplog[n]]
        /\ g = [n \in Seqnos |-> IF in_window(x, n) THEN EmptyPlog[n] ELSE x.plog[n]]
  OBVIOUS
<1>4. PICK y : y = leaves(x, e, o, g)
  OBVIOUS
<1>5. /\ IsRec(y, XFields) /\ y.v = x.v + 1 /\ y.id = x.id /\ y.slot = x.slot /\ y.nvs = x.nvs
      /\ y.last_vcs = x.last_vcs /\ y.last_views = x.last_views /\ y.sent = x.sent
      /\ y.vacks = x.vacks /\ y.last_stable = x.last_stable /\ y.ckpts = x.ckpts
  BY <1>2, <1>4 DEF IsRec, XFields, leaves
<1>6. y.v \in Nat /\ y.v >= x.v /\ y.v > 0
  BY <1>2, <1>5
<1>7. Row(y, L) /\ Quieter(x, y)
  BY <1>2, <1>5, <1>6, RowRise
<1>8. Good(y) /\ Few(y, y.v)
  BY <1>1, <1>5, <1>7, QuieterFew DEF Good
<1>9. y.nvs[y.id].v < y.v
  <2>1. x.nvs[x.id].v \in Nat /\ x.nvs[x.id].v <= x.v
    BY <1>2 DEF Row, Info, NvOK, NvShape
  <2> QED BY <1>2, <1>5, <2>1
<1>10. Landed(y, view_change(y))
  BY <1>6, <1>8, <1>9, ViewChangeLands
<1>11. Reports(x) => \A m \in y.sent.vc : m.v < y.v /\ m.ls <= y.last_stable
  <2>1. \A m \in x.sent.vc : m.v \in Nat
    BY <1>2 DEF Base, Sends, VcOK
  <2>2. Reports(x) => \A m \in x.sent.vc : m.v <= x.v /\ m.ls <= x.last_stable
    BY DEF Reports
  <2> QED BY <1>2, <1>5, <2>1, <2>2
<1>12. send_view_change(x) = view_change(y)
  BY <1>3, <1>4 DEF send_view_change, leaves
<1> QED BY <1>5, <1>10, <1>11, <1>12 DEF Arrived, Landed

(* A step within a view arrives where it was ... *)
LEMMA CalmArrived ==
  ASSUME NEW x, NEW y, Good(x), Few(x, x.v), Own(x), Calm(x, y)
  PROVE  Arrived(x, y)
<1>1. Good(y) /\ Few(y, y.v) /\ Own(y) /\ y.id = x.id
  BY CalmFew
<1>2. Reports(x) => Reports(y)
  BY StillReports DEF Calm, Good
<1> QED BY <1>1, <1>2 DEF Arrived

(* ... and may follow an arrival. *)
LEMMA ArrivedCalm ==
  ASSUME NEW x, NEW y, NEW z, Arrived(x, y), Calm(y, z)
  PROVE  Arrived(x, z)
<1>1. Arrived(y, z)
  BY CalmArrived DEF Arrived
<1> QED BY <1>1 DEF Arrived

(* Views that f+1 replicas do not reach are heard of from f at most. *)
LEMMA FewAbove ==
  ASSUME NEW x, Good(x)
  PROVE  max_view(x) \in Nat /\ Few(x, max_view(x))
<1>1. PICK L, k : L = x.last_views /\ k = F + 1
  OBVIOUS
<1>2. Row(x, L) /\ Base(x, L) /\ L \in [Replicas -> Nat] /\ L \in [Replicas -> Int]
  BY <1>1, BaseFields DEF Good, Row
<1>3. k \in Nat /\ k <= 3 * F + 1 /\ k > 0 /\ F \in Nat
  BY <1>1, ReplicasFinite
<1>4. PICK mv : mv = K_max(k, L)
  OBVIOUS
<1>5. /\ \E i \in Replicas : mv = L[i]
      /\ \A w \in Int : k <= Cardinality({i \in Replicas : L[i] >= w}) /\ k > 0 => mv >= w
  BY <1>2, <1>3, <1>4, KmaxFacts
<1>6. mv \in Nat
  BY <1>2, <1>5
<1>7. ASSUME NEW w \in Nat, w > mv PROVE Cardinality(Heard(x, w)) <= F
  <2>1. PICK T : T = {i \in Replicas : L[i] >= w}
    OBVIOUS
  <2>2. ASSUME NEW i \in Heard(x, w) PROVE i \in T
    <3>1. i \in Replicas /\ L[i] \in Nat
      BY <1>2 DEF Heard
    <3>2. CASE x.nvs[primary(w)].v = w /\ x.nvs[primary(w)].vcs[i].vc
      <4>1. Info(x, x.nvs[primary(w)], primary(w), L)
        BY <1>2, PrimaryIn DEF Row
      <4>2. w <= L[i]
        BY <3>1, <3>2, <4>1 DEF Info
      <4> QED BY <2>1, <3>1, <4>2
    <3>3. CASE x.last_vcs[i] /\ x.slot[i].v >= w
      <4>1. x.slot[i].v \in Nat /\ x.slot[i].v <= L[i]
        BY <1>2, <3>1, <3>3 DEF Base, VcOK
      <4> QED BY <2>1, <3>1, <3>3, <4>1
    <3> QED BY <3>2, <3>3 DEF Heard
  <2>3. Heard(x, w) \in SUBSET Replicas /\ T \in SUBSET Replicas /\ Heard(x, w) \subseteq T
    BY <2>1, <2>2 DEF Heard
  <2>4. PICK a, b : a = Cardinality(Heard(x, w)) /\ b = Cardinality(T)
    OBVIOUS
  <2>5. a \in Nat /\ b \in Nat /\ a <= b
    BY <2>3, <2>4, Wider
  <2>6. ~(k <= b)
    BY <1>3, <1>5, <1>6, <1>7, <2>1, <2>4
  <2> QED BY <1>1, <1>3, <2>4, <2>5, <2>6
<1>8. max_view(x) = mv
  BY <1>1, <1>4 DEF max_view
<1> QED BY <1>6, <1>7, <1>8 DEF Few

(* Fewer replicas are in later views. *)
LEMMA FewerAbove ==
  ASSUME NEW x, NEW v \in Nat, NEW w \in Nat, v <= w, Few(x, v)
  PROVE  Few(x, w)
BY DEF Few

jumps(x, w) == [x EXCEPT !.v = w]
(* Following f + 1 others into a view. *)
LEMMA Follows ==
  ASSUME NEW x, Good(x), Own(x)
  PROVE  Arrived(x, follow(x))
<1>1. PICK L, mv : L = x.last_views /\ mv = max_view(x)
  OBVIOUS
<1>2. Row(x, L) /\ Base(x, L) /\ IsRec(x, XFields) /\ x.v \in Nat /\ x.id \in Replicas
  BY <1>1, BaseFields DEF Good, Row
<1>3. mv \in Nat /\ Few(x, mv)
  BY <1>1, FewAbove
<1>4. CASE mv > x.v
  <2>1. PICK w \in Nat : w = mv - 1 /\ w >= x.v /\ w + 1 = mv
    BY <1>2, <1>3, <1>4
  <2>2. PICK y : y = jumps(x, w)
    OBVIOUS
  <2>3. /\ IsRec(y, XFields) /\ y.v = w /\ y.id = x.id /\ y.slot = x.slot /\ y.nvs = x.nvs
        /\ y.last_vcs = x.last_vcs /\ y.last_views = x.last_views /\ y.sent = x.sent
        /\ y.vacks = x.vacks /\ y.last_stable = x.last_stable /\ y.ckpts = x.ckpts
        /\ y.oplog = x.oplog
    BY <1>2, <2>2 DEF IsRec, XFields, jumps
  <2>4. Row(y, L) /\ Quieter(x, y)
    BY <1>2, <2>1, <2>3, RowRise
  <2>5. Good(y) /\ Few(y, y.v + 1)
    BY <1>1, <1>3, <2>1, <2>3, <2>4, QuieterFew DEF Good
  <2>6. Arrived(y, send_view_change(y))
    BY <2>5, SendViewChange
  <2>7. Reports(x) => Reports(y)
    <3> SUFFICES ASSUME Reports(x), NEW m \in x.sent.vc
                 PROVE  /\ m.v <= w /\ m.ls <= x.last_stable
                        /\ m.v = w /\ m.ls = x.last_stable =>
                             \A n \in DOMAIN m.reqs : test(m, n) <=> x.oplog[n].m
      BY <2>3 DEF Reports
    <3>1. m.v \in Nat
      BY <1>2 DEF Base, Sends, VcOK
    <3>2. /\ m.v <= x.v /\ m.ls <= x.last_stable
          /\ m.v = x.v /\ m.ls = x.last_stable =>
               \A n \in DOMAIN m.reqs : test(m, n) <=> x.oplog[n].m
      BY DEF Reports
    <3>3. m.v <= w /\ (m.v = w => m.v = x.v)
      BY <1>2, <2>1, <3>1, <3>2
    <3> QED BY <3>2, <3>3
  <2>8. follow(x) = send_view_change(y)
    BY <1>1, <1>4, <2>1, <2>2 DEF follow, jumps
  <2> QED BY <2>3, <2>6, <2>7, <2>8 DEF Arrived
<1>5. CASE ~(mv > x.v)
  <2>1. Few(x, x.v)
    BY <1>2, <1>3, <1>5, FewerAbove
  <2>2. PICK y : y = [x EXCEPT !.vtimer = TRUE, !.limbo = FALSE]
    OBVIOUS
  <2>3. /\ IsRec(y, XFields) /\ y.last_stable = x.last_stable /\ y.ckpts = x.ckpts
        /\ y.id = x.id /\ y.v = x.v /\ y.slot = x.slot /\ y.nv = x.nv /\ y.nvs = x.nvs
        /\ y.last_vcs = x.last_vcs /\ y.last_views = x.last_views /\ y.sent = x.sent
        /\ y.vacks = x.vacks /\ y.oplog = x.oplog
    BY <1>2, <2>2 DEF IsRec, XFields
  <2>4. Base(y, L)
    BY <1>2, <2>3 DEF Base, Shaped
  <2>5. Calm(x, y)
    BY <1>1, <2>3, <2>4, AsideGood DEF Aside
  <2>6. follow(x) \in {x, y}
    BY <1>1, <1>5, <2>2 DEF follow
  <2>7. Calm(x, follow(x))
    BY <2>5, <2>6, CalmReflexive
  <2> QED BY <2>1, <2>7, CalmArrived
<1> QED BY <1>4, <1>5

(* Leaving the view when its primary has left it. *)
LEMMA LeavesWithPrimary ==
  ASSUME NEW x, Good(x), Few(x, x.v), Own(x), NEW m
  PROVE  Arrived(x, leave_with_primary(x, m))
<1>1. x.v \in Nat
  BY BaseFields DEF Good, Row
<1>2. Few(x, x.v + 1)
  BY <1>1, FewerAbove
<1>3. Arrived(x, send_view_change(x))
  BY <1>2, SendViewChange
<1>4. Arrived(x, x)
  BY CalmReflexive, CalmArrived
<1> QED BY <1>3, <1>4 DEF leave_with_primary

(* handle(View_change) arrives in a view with the invariant. *)
LEMMA HandleViewChange ==
  ASSUME NEW x, Good(x), Few(x, x.v), Own(x), NEW i \in Replicas \ {x.id}, NEW m, VcOK(m, i)
  PROVE  Arrived(x, handle_View_change(x, m))
<1>1. PICK y : y = leave_with_primary(x, m)
  OBVIOUS
<1>2. Arrived(x, y)
  BY <1>1, LeavesWithPrimary
<1>3. Good(y) /\ Few(y, y.v) /\ Own(y) /\ y.id = x.id
  BY <1>2 DEF Arrived
<1>4. PICK r : r = vi_add_vc(y, m)
  OBVIOUS
<1>5. Good(r.x) /\ Still(y, r.x) /\ (r.stored \/ Quieter(y, r.x))
  BY <1>3, <1>4, AddViewChange DEF Added
<1>6. Reports(y) => Reports(r.x)
  BY <1>3, <1>5, StillReports DEF Good
<1>7. Own(r.x)
  BY <1>3, <1>5 DEF Own, Still
<1>8. Arrived(y, after_add(r))
  <2>1. CASE r.stored
    <3>1. Arrived(r.x, follow(r.x)) /\ after_add(r) = follow(r.x) /\ r.x.id = y.id
      BY <1>5, <1>7, <2>1, Follows DEF after_add, Still
    <3> QED BY <1>6, <3>1 DEF Arrived
  <2>2. CASE ~r.stored
    <3>1. Calm(y, r.x) /\ after_add(r) = r.x
      BY <1>5, <2>2 DEF Calm, after_add
    <3> QED BY <1>3, <3>1, CalmArrived
  <2> QED BY <2>1, <2>2
<1>9. handle_View_change(x, m) = after_add(r)
  BY <1>1, <1>4 DEF handle_View_change
<1> QED BY <1>2, <1>8, <1>9 DEF Arrived

-----------------------------------------------------------------------------
(* A New_view is only completed by View_changes that have moved the replica *)
(* to its view, so that those for a later view are too few.                 *)
LEMMA CompleteBelow ==
  ASSUME NEW x, Good(x), Few(x, x.v), NEW p \in Replicas, x.nvs[p].complete
  PROVE  x.nvs[p].v <= x.v
<1>1. PICK nv, L : nv = x.nvs[p] /\ L = x.last_views
  OBVIOUS
<1>2. Info(x, nv, p, L) /\ x.v \in Nat /\ nv.v \in Nat
  BY <1>1, BaseFields DEF Good, Row, Info, NvOK, NvShape
<1>3. CASE p = x.id
  BY <1>1, <1>2, <1>3 DEF Info
<1>4. CASE p # x.id
  <2> SUFFICES ASSUME ~(nv.v <= x.v) PROVE FALSE
    BY <1>1
  <2>1. Quorum(nv) /\ nv.v > x.v /\ nv.v > 0 /\ primary(nv.v) = p
    BY <1>1, <1>2, <1>4 DEF Info, NvOK
  <2>2. PICK w \in Nat : w = nv.v
    BY <1>2
  <2>3. Holders(nv) \subseteq Heard(x, w)
    BY <1>1, <2>1, <2>2 DEF Holders, Heard
  <2>4. Holders(nv) \in SUBSET Replicas /\ Heard(x, w) \in SUBSET Replicas
    BY DEF Holders, Heard
  <2>5. PICK a, b : a = Cardinality(Holders(nv)) /\ b = Cardinality(Heard(x, w))
    OBVIOUS
  <2>6. a \in Nat /\ b \in Nat /\ a <= b
    BY <2>3, <2>4, <2>5, Wider
  <2>7. b <= F /\ a >= n_f /\ F \in Nat
    BY <2>1, <2>2, <2>5, ReplicasFinite DEF Few, Quorum
  <2> QED BY <2>6, <2>7 DEF n_f
<1> QED BY <1>3, <1>4

(* Fresh keys: what was authenticated with the old ones is dropped. *)
Like(x, y) ==
  /\ y.id = x.id /\ y.v = x.v /\ y.last_views = x.last_views /\ y.sent = x.sent
  /\ y.oplog = x.oplog /\ y.last_stable = x.last_stable

Settled(x, p) == x.nvs[p].v <= x.v \/ \A i \in Replicas \ {x.id} : ~x.nvs[p].vcs[i].vc

Stales(x, y, p, L) ==
  /\ Row(y, L) /\ Like(x, y)
  /\ \A i \in Replicas \ {x.id} : y.last_vcs[i] => x.last_vcs[i]
  /\ \A q \in Replicas \ {p} : y.nvs[q] = x.nvs[q]
  /\ Settled(y, p)

(* Storing the NV_info that lost its stale messages. *)
LEMMA StoreStales ==
  ASSUME NEW x, NEW y, NEW p \in Replicas, NEW L, Row(x, L), In(y, p, L), p = x.id,
         \A f \in XFields \ {"nv", "slot"} : y[f] = x[f]
  PROVE  Stales(x, Store(y, p), p, L)
<1>1. PICK z : z = Store(y, p)
  OBVIOUS
<1>2. Row(z, L)
  BY <1>1, StoreRow
<1>3. Base(x, L) /\ Base(y, L)
  BY DEF Row, In
<1>4. Stored(y, z, p)
  BY <1>1, <1>3, BaseFields, StoreFields
<1>5. /\ z.id = y.id /\ z.v = y.v /\ z.last_views = y.last_views /\ z.sent = y.sent
      /\ z.oplog = y.oplog /\ z.last_stable = y.last_stable /\ z.last_vcs = y.last_vcs
      /\ z.nvs = [y.nvs EXCEPT ![p] = y.nv]
  BY <1>4 DEF Stored, XFields
<1>6. /\ y.id = x.id /\ y.v = x.v /\ y.last_views = x.last_views /\ y.sent = x.sent
      /\ y.oplog = x.oplog /\ y.last_stable = x.last_stable /\ y.last_vcs = x.last_vcs
      /\ y.nvs = x.nvs
  BY DEF XFields
<1>7. \A q \in Replicas \ {p} : z.nvs[q] = x.nvs[q]
  BY <1>3, <1>5, <1>6, BaseFields DEF IsRec
<1>8. Settled(z, p)
  <2>1. z.nvs[p].v <= z.v
    BY <1>2, <1>5, <1>6 DEF Row, Info
  <2> QED BY <2>1 DEF Settled
<1> QED BY <1>1, <1>2, <1>5, <1>6, <1>7, <1>8 DEF Stales, Like

clears(x, p) ==
  [x EXCEPT !.nvs[p] = Empty_NV_info, !.nv = Empty_NV_info,
            !.last_vcs[x.id] = @ \/ (x.nvs[p].vcs[x.id].vc /\ x.slot[x.id].v = x.v)]

(* Clearing an NV_info that is not complete ... *)
LEMMA ClearStales ==
  ASSUME NEW x, NEW p \in Replicas, NEW L, Row(x, L), L[x.id] = x.v
  PROVE  Stales(x, clears(x, p), p, L)
<1>1. PICK i : i = x.id
  OBVIOUS
<1>2. /\ Base(x, L) /\ IsRec(x, XFields) /\ i \in Replicas /\ x.v \in Nat
      /\ IsRec(x.nvs, Replicas) /\ x.last_vcs \in [Replicas -> BOOLEAN]
  BY <1>1, BaseFields DEF Row, Base, Shaped
<1>3. PICK n : n = [x.nvs EXCEPT ![p] = Empty_NV_info]
  OBVIOUS
<1>4. PICK l : l = [x.last_vcs EXCEPT ![i] = @ \/ (x.nvs[p].vcs[i].vc /\ x.slot[i].v = x.v)]
  OBVIOUS
<1>5. PICK y : y = [x EXCEPT !.nvs = n, !.nv = Empty_NV_info, !.last_vcs = l]
  OBVIOUS
<1>6. /\ IsRec(y, XFields) /\ y.last_stable = x.last_stable /\ y.ckpts = x.ckpts
      /\ y.id = x.id /\ y.v = x.v /\ y.slot = x.slot /\ y.last_views = x.last_views
      /\ y.sent = x.sent /\ y.vacks = x.vacks /\ y.oplog = x.oplog
      /\ y.nvs = n /\ y.last_vcs = l
  BY <1>2, <1>5 DEF IsRec, XFields
<1>7. /\ IsRec(n, Replicas) /\ n[p] = Empty_NV_info
      /\ \A q \in Replicas \ {p} : n[q] = x.nvs[q]
  BY <1>2, <1>3 DEF IsRec
<1>8. /\ l \in [Replicas -> BOOLEAN]
      /\ \A j \in Replicas \ {i} : l[j] = x.last_vcs[j]
      /\ l[i] => x.last_vcs[i] \/ (x.nvs[p].vcs[i].vc /\ x.slot[i].v = x.v)
  <2>1. (x.last_vcs[i] \/ (x.nvs[p].vcs[i].vc /\ x.slot[i].v = x.v)) \in BOOLEAN
    OBVIOUS
  <2> QED BY <1>2, <1>4, <2>1, Zenon
<1>9. \A j \in Replicas : l[j] => VcOK(x.slot[j], j) /\ x.slot[j].v <= L[j]
  <2>1. \A j \in Replicas : x.last_vcs[j] => VcOK(x.slot[j], j) /\ x.slot[j].v <= L[j]
    BY <1>2 DEF Base
  <2>2. x.nvs[p].vcs[i].vc => VcOK(x.slot[i], i)
    BY <1>2 DEF Row, Info
  <2>3. x.slot[i].v = x.v => x.slot[i].v <= L[i]
    BY <1>1, <1>2
  <2> QED BY <1>2, <1>8, <2>1, <2>2, <2>3
<1>10. Base(y, L)
  BY <1>2, <1>6, <1>7, <1>8, <1>9 DEF Base, Shaped
<1>11. ASSUME NEW q \in Replicas PROVE Info(y, y.nvs[q], q, L)
  <2>1. CASE q = p
    BY <1>2, <1>6, <1>7, <2>1, EmptyInfo
  <2>2. CASE q # p
    <3>1. Info(x, x.nvs[q], q, L)
      BY DEF Row
    <3> QED BY <1>6, <1>7, <2>2, <3>1 DEF Info
  <2> QED BY <2>1, <2>2
<1>12. Settled(y, p)
  <2>1. y.nvs[p].v <= y.v
    BY <1>2, <1>6, <1>7, EmptyShape
  <2> QED BY <2>1 DEF Settled
<1>13. clears(x, p) = y
  BY <1>1, <1>3, <1>4, <1>5 DEF clears
<1> QED BY <1>1, <1>6, <1>7, <1>8, <1>10, <1>11, <1>12, <1>13 DEF Stales, Like, Row

(* ... or dropping its unauthenticated messages ... *)
LEMMA StaleStep ==
  ASSUME NEW x, NEW p \in Replicas, NEW L, Row(x, L), L[x.id] = x.v,
         x.nvs[p].complete => x.nvs[p].v <= x.v
  PROVE  Stales(x, nv_mark_stale(x, p), p, L)
<1>1. PICK u : u = Load(x, p)
  OBVIOUS
<1>2. /\ Base(x, L) /\ IsRec(x, XFields) /\ x.id \in Replicas /\ x.v \in Nat
      /\ Info(x, x.nvs[p], p, L) /\ NvOK(x.nvs[p], p) /\ x.nvs[p].v \in Nat
  BY BaseFields DEF Row, Info, NvOK, NvShape
<1>3. IsRec(u, XFields) /\ u.nv = x.nvs[p] /\ \A f \in XFields \ {"nv"} : u[f] = x[f]
  BY <1>1, <1>2, LoadFields
<1>4. CASE u.nv.complete
  <2>1. nv_mark_stale(x, p) = x
    BY <1>1, <1>4 DEF nv_mark_stale
  <2>2. Settled(x, p)
    BY <1>3, <1>4 DEF Settled
  <2> QED BY <2>1, <2>2 DEF Stales, Like
<1>5. CASE ~u.nv.complete /\ u.nv.v > 0 /\ primary(u.nv.v) = x.id
  <2>1. p = x.id /\ Live(x.nvs[p]) /\ x.nvs[p].v <= x.v
    BY <1>2, <1>3, <1>5 DEF NvOK, Live, Info
  <2>2. In(u, p, L)
    BY <1>1, <2>1, LoadIn
  <2>3. CASE ~u.nv.vcs[x.id].vc
    <3>1. PICK y : y = Break(u, "mark_stale")
      OBVIOUS
    <3>2. Ready(u) /\ IsRec(u.nv, NFields) /\ p = u.id
      BY <1>3, <2>1, <2>2, ReadyHas DEF In, XFields
    <3>3. Framed(u, y)
      BY <3>1, <3>2, BreakFramed
    <3>4. In(y, p, L)
      BY <2>2, <3>2, <3>3, InFramed
    <3>5. \A f \in XFields \ {"nv", "slot"} : y[f] = x[f]
      BY <1>3, <3>3 DEF Framed, Rest
    <3>6. nv_mark_stale(x, p) = Store(y, p)
      BY <1>1, <1>5, <2>3, <3>1 DEF nv_mark_stale
    <3> QED BY <2>1, <3>4, <3>5, <3>6, StoreStales
  <2>4. CASE u.nv.vcs[x.id].vc
    <3>1. PICK m, vc, i : m = New_view(u.nv.v) /\ vc = x.slot[x.id] /\ i = x.id
      OBVIOUS
    <3>2. m.v = x.nvs[p].v /\ m.vcs = [j \in Replicas |-> None] /\ MsgOK(m, m.v)
      BY <1>3, <3>1 DEF New_view, MsgOK, IsRec, MFields
    <3>3. m.v \in Nat /\ m.v > 0 /\ primary(m.v) = p /\ m.v <= x.v
      BY <1>2, <1>3, <1>5, <2>1, <3>2
    <3>4. Refers(fresh(m))
      <4>1. PICK n : n = fresh(m)
        OBVIOUS
      <4>2. n.msg = m
        BY <3>2, <3>3, <4>1, FreshShape
      <4>3. IsRec(m.vcs, Replicas) /\ \A j \in Replicas : m.vcs[j] = None
        BY <3>2 DEF IsRec
      <4> QED BY <4>1, <4>2, <4>3 DEF Refers, has_vc
    <3>5. PICK y : y = setNv(u, fresh(m))
      OBVIOUS
    <3>6. NvSet(u, y, fresh(m))
      BY <1>3, <3>5, SetNv
    <3>7. Came(u, y, p, L) /\ In(y, p, L)
      <4>1. NvSet(Load(x, p), y, fresh(m))
        BY <1>1, <3>6
      <4>2. Came(Load(x, p), y, p, L)
        BY <3>2, <3>3, <3>4, <4>1, FreshIn
      <4> QED BY <1>1, <4>2 DEF Came
    <3>8. PICK c : c = [u EXCEPT !.nv = Empty_NV_info]
      OBVIOUS
    <3>9. nv_add_nv(c, m) = y
      <4>1. IsRec(c, XFields) /\ c.nv = Empty_NV_info /\ \A f \in XFields \ {"nv"} : c[f] = u[f]
        BY <1>3, <3>8 DEF IsRec, XFields
      <4>2. ~(m.v <= c.nv.v)
        BY <3>3, <4>1, EmptyShape
      <4>3. nv_add_nv(c, m) = [c EXCEPT !.nv = fresh(m)]
        BY <4>2 DEF nv_add_nv, fresh
      <4>4. [c EXCEPT !.nv = fresh(m)] = [u EXCEPT !.nv = fresh(m)]
        BY <3>8
      <4> QED BY <3>5, <4>3, <4>4 DEF setNv
    <3>10. PICK e : e = nv_add_vc(y, vc)
      OBVIOUS
    <3>11. /\ y.nv.v = m.v /\ y.slot = x.slot /\ y.last_vcs = x.last_vcs
           /\ \A f \in XFields \ {"nv"} : y[f] = x[f]
      <4>1. y.nv = fresh(m) /\ \A f \in XFields \ {"nv"} : y[f] = u[f]
        BY <3>6 DEF NvSet
      <4>2. \A f \in XFields \ {"nv"} : y[f] = x[f]
        BY <1>3, <4>1
      <4>3. y.nv.v = m.v
        BY <3>2, <3>3, <4>1, FreshShape
      <4> QED BY <4>2, <4>3 DEF XFields
    <3>12. VcOK(vc, i) /\ x.nvs[p].v <= L[i] /\ (x.last_vcs[i] => vc.v <= L[i])
      BY <1>2, <1>3, <2>4, <3>1 DEF Info, Base
    <3>13. Ready(y) /\ IsRec(y.slot, Replicas)
      BY <1>2, <3>7, <3>11, BaseFields DEF In
    <3>14. VcAdded(y, e, vc)
      BY <1>2, <3>1, <3>10, <3>12, <3>13, AddVc
    <3>15. In(e, p, L)
      BY <1>2, <3>1, <3>2, <3>7, <3>11, <3>12, <3>14, InVc
    <3>16. \A f \in XFields \ {"nv", "slot"} : e[f] = x[f]
      BY <3>11, <3>14 DEF VcAdded
    <3>17. nv_mark_stale(x, p) = Store(e, p)
      BY <1>1, <1>5, <2>4, <3>1, <3>8, <3>9, <3>10 DEF nv_mark_stale
    <3> QED BY <2>1, <3>15, <3>16, <3>17, StoreStales
  <2> QED BY <2>3, <2>4
<1>6. CASE ~u.nv.complete /\ ~(u.nv.v > 0 /\ primary(u.nv.v) = x.id)
  <2>1. PICK c : c = [u EXCEPT !.nv = Empty_NV_info]
    OBVIOUS
  <2>2. PICK l : l = [c.last_vcs EXCEPT ![x.id] = @ \/ (u.nv.vcs[x.id].vc /\ x.slot[x.id].v = x.v)]
    OBVIOUS
  <2>3. PICK d : d = [c EXCEPT !.last_vcs = l]
    OBVIOUS
  <2>4. nv_mark_stale(x, p) = Store(d, p)
    BY <1>1, <1>6, <2>1, <2>2, <2>3 DEF nv_mark_stale
  <2>5. /\ IsRec(d, XFields) /\ d.nv = Empty_NV_info /\ d.last_vcs = l
        /\ c.last_vcs = x.last_vcs
        /\ \A f \in XFields \ {"nv", "last_vcs"} : d[f] = x[f]
    <3>1. IsRec(c, XFields) /\ c.nv = Empty_NV_info /\ \A f \in XFields \ {"nv"} : c[f] = u[f]
      BY <1>3, <2>1 DEF IsRec, XFields
    <3>2. /\ IsRec(d, XFields) /\ d.last_vcs = l /\ d.nv = c.nv
          /\ \A f \in XFields \ {"nv", "last_vcs"} : d[f] = c[f]
      BY <2>3, <3>1 DEF IsRec, XFields
    <3> QED BY <1>3, <3>1, <3>2 DEF XFields
  <2>6. Store(d, p) = clears(x, p)
    <3>1. PICK n : n = [x.nvs EXCEPT ![p] = Empty_NV_info]
      OBVIOUS
    <3>2. d.nvs = x.nvs
      BY <2>5 DEF XFields
    <3>3. Store(d, p) = [d EXCEPT !.nvs = n, !.nv = Empty_NV_info]
      BY <2>5, <3>1, <3>2 DEF Store
    <3>4. clears(x, p) = [x EXCEPT !.nvs = n, !.nv = Empty_NV_info, !.last_vcs = l]
      BY <1>3, <2>2, <2>5, <3>1 DEF clears
    <3>5. [d EXCEPT !.nvs = n, !.nv = Empty_NV_info]
            = [x EXCEPT !.nvs = n, !.nv = Empty_NV_info, !.last_vcs = l]
      BY <1>2, <2>5 DEF IsRec, XFields
    <3> QED BY <3>3, <3>4, <3>5
  <2> QED BY <2>4, <2>6, ClearStales
<1> QED BY <1>4, <1>5, <1>6

staleStep(k, y, p) == nv_mark_stale(y, p)
staleInv(k, n, y) ==
  /\ Row(y, k.L) /\ Like(k.x, y)
  /\ \A i \in Replicas \ {y.id} : ~y.last_vcs[i]
  /\ \A p \in Replicas : p >= n => y.nvs[p] = k.x.nvs[p]
  /\ \A p \in Replicas : p < n => Settled(y, p)
StaleLoop == INSTANCE Foundations WITH op <- staleStep, inv <- staleInv

dropped(x) ==
  [x EXCEPT !.last_vcs = [i \in Replicas |-> i = x.id /\ @[i]],
            !.last_views = [i \in Replicas |-> IF i # x.id /\ @[i] >= x.v THEN x.v ELSE @[i]],
            !.vacks = [i \in Replicas |-> EmptyVacks]]

(* ... in a loop ... *)
LEMMA StaleIsLoop ==
  ASSUME NEW k, NEW x
  PROVE  vi_mark_stale(x) = StaleLoop!Fold(k, dropped(x), UpTo(0, 3 * F))
BY DEF vi_mark_stale, dropped, ReplicaSeq, StaleLoop!Fold, staleStep, FoldLeft, MapThenFoldSet,
       StaleLoop!MapThenFoldSet, StaleLoop!Greatest, Max

(* ... after those kept for later were dropped ... *)
LEMMA Dropped ==
  ASSUME NEW x, Good(x)
  PROVE  /\ Row(dropped(x), x.last_views) /\ dropped(x).nvs = x.nvs
         /\ dropped(x).id = x.id /\ dropped(x).v = x.v /\ dropped(x).sent = x.sent
         /\ dropped(x).oplog = x.oplog /\ dropped(x).last_stable = x.last_stable
         /\ \A i \in Replicas \ {x.id} : ~dropped(x).last_vcs[i]
         /\ dropped(x).last_views \in [Replicas -> Nat]
         /\ dropped(x).last_views[x.id] = x.last_views[x.id]
         /\ \A i \in Replicas, n \in Nat :
              n <= x.last_views[i] /\ n <= x.v => n <= dropped(x).last_views[i]
<1>1. PICK L : L = x.last_views
  OBVIOUS
<1>2. /\ Row(x, L) /\ Base(x, L) /\ IsRec(x, XFields) /\ x.v \in Nat /\ x.id \in Replicas
      /\ L \in [Replicas -> Nat] /\ x.last_vcs \in [Replicas -> BOOLEAN]
  BY <1>1, BaseFields DEF Good, Row, Base, Shaped
<1>3. PICK l : l = [i \in Replicas |-> i = x.id /\ x.last_vcs[i]]
  OBVIOUS
<1>4. PICK N : N = [i \in Replicas |-> IF i # x.id /\ L[i] >= x.v THEN x.v ELSE L[i]]
  OBVIOUS
<1>5. PICK a : a = [i \in Replicas |-> EmptyVacks]
  OBVIOUS
<1>6. PICK y : y = [x EXCEPT !.last_vcs = l, !.last_views = N, !.vacks = a]
  OBVIOUS
<1>7. /\ IsRec(y, XFields) /\ y.last_stable = x.last_stable /\ y.ckpts = x.ckpts
      /\ y.id = x.id /\ y.v = x.v /\ y.slot = x.slot /\ y.sent = x.sent /\ y.oplog = x.oplog
      /\ y.nvs = x.nvs /\ y.last_vcs = l /\ y.last_views = N /\ y.vacks = a
  BY <1>2, <1>6 DEF IsRec, XFields
<1>8. /\ l \in [Replicas -> BOOLEAN] /\ \A i \in Replicas : l[i] => x.last_vcs[i]
      /\ \A i \in Replicas \ {x.id} : ~l[i]
  BY <1>3, Zenon
<1>9. N \in [Replicas -> Nat] /\ N[x.id] = L[x.id]
  BY <1>2, <1>4
<1>10. ASSUME NEW i \in Replicas, NEW n \in Nat, n <= L[i], n <= x.v PROVE n <= N[i]
  <2>1. N[i] = IF i # x.id /\ L[i] >= x.v THEN x.v ELSE L[i]
    BY <1>4
  <2> QED BY <1>10, <2>1
<1>11. Acked(a)
  <2>1. EmptyVacks.vacks = [j \in Replicas |-> None] /\ IsRec(EmptyVacks, {"v", "vacks"})
    BY DEF EmptyVacks, IsRec
  <2>2. IsRec(EmptyVacks.vacks, Replicas) /\ \A j \in Replicas : EmptyVacks.vacks[j] = None
    BY <2>1 DEF IsRec
  <2>3. IsRec(a, Replicas) /\ \A i \in Replicas : a[i] = EmptyVacks
    BY <1>5 DEF IsRec
  <2> QED BY <2>1, <2>2, <2>3 DEF Acked
<1>12. Base(y, L)
  BY <1>2, <1>7, <1>8, <1>9, <1>11 DEF Base, Shaped
<1>13. Row(y, L)
  BY <1>2, <1>7, <1>12, RowSame
<1>14. dropped(x) = y
  BY <1>1, <1>3, <1>4, <1>5, <1>6 DEF dropped
<1> QED BY <1>1, <1>7, <1>8, <1>9, <1>10, <1>13, <1>14

(* ... keeps the invariant ... *)
LEMMA StaleLoops ==
  ASSUME NEW x, NEW y, NEW k, Good(x), Few(x, x.v), Own(x), y = dropped(x),
         k = [x |-> y, L |-> x.last_views]
  PROVE  staleInv(k, 3 * F + 1, vi_mark_stale(x))
<1>1. PICK L : L = x.last_views
  OBVIOUS
<1>2. k.x = y /\ k.L = L
  BY <1>1
<1>3. /\ Row(y, L) /\ y.nvs = x.nvs /\ y.id = x.id /\ y.v = x.v
      /\ \A i \in Replicas \ {x.id} : ~y.last_vcs[i]
  BY <1>1, Dropped
<1>4. \A p \in Replicas : p \in Int /\ ~(p < 0)
  BY ReplicasFinite DEF Replicas
<1>5. staleInv(k, 0, y)
  BY <1>2, <1>3, <1>4 DEF staleInv, Like
<1>6. PICK s : s = UpTo(0, 3 * F)
  OBVIOUS
<1>7. s \in Seq(Replicas) /\ Len(s) = 3 * F + 1 /\ \A j \in 1..(3 * F + 1) : s[j] = j - 1
  BY <1>6, ReplicaUpTo
<1>8. ASSUME NEW n, NEW z, n \in 1..Len(s), staleInv(k, n - 1, z)
      PROVE  staleInv(k, n, staleStep(k, z, s[n]))
  <2>1. PICK p \in Replicas : p = s[n]
    BY <1>7, <1>8
  <2>2. p = n - 1 /\ n \in Int /\ p \in Int
    BY <1>4, <1>7, <1>8, <2>1, ReplicasFinite
  <2>3. /\ Row(z, L) /\ Like(y, z) /\ (\A i \in Replicas \ {z.id} : ~z.last_vcs[i])
        /\ (\A q \in Replicas : q >= p => z.nvs[q] = y.nvs[q])
        /\ (\A q \in Replicas : q < p => Settled(z, q))
    BY <1>2, <1>8, <2>2 DEF staleInv
  <2>4. z.id = x.id /\ z.v = x.v
    BY <1>3, <2>3 DEF Like
  <2>5. z.nvs[p] = x.nvs[p]
    BY <1>3, <2>2, <2>3
  <2>6. L[z.id] = z.v
    BY <1>1, <2>4 DEF Own
  <2>7. z.nvs[p].complete => z.nvs[p].v <= z.v
    BY <2>4, <2>5, CompleteBelow
  <2>8. PICK e : e = nv_mark_stale(z, p)
    OBVIOUS
  <2>9. /\ Row(e, L) /\ Like(z, e)
        /\ (\A i \in Replicas \ {z.id} : e.last_vcs[i] => z.last_vcs[i])
        /\ (\A q \in Replicas \ {p} : e.nvs[q] = z.nvs[q])
        /\ Settled(e, p)
    BY <2>3, <2>6, <2>7, <2>8, StaleStep DEF Stales
  <2>10. Like(y, e) /\ e.id = z.id /\ e.v = z.v
    BY <2>3, <2>9 DEF Like
  <2>11. ASSUME NEW q \in Replicas, q >= n PROVE e.nvs[q] = y.nvs[q]
    <3>1. q \in Int /\ q # p /\ q >= p
      BY <1>4, <2>2, <2>11
    <3> QED BY <2>3, <2>9, <3>1
  <2>12. ASSUME NEW q \in Replicas, q < n PROVE Settled(e, q)
    <3>1. CASE q = p
      BY <2>9, <3>1
    <3>2. CASE q # p
      <4>1. q \in Int /\ q < p
        BY <1>4, <2>2, <2>12, <3>2
      <4>2. Settled(z, q) /\ e.nvs[q] = z.nvs[q]
        BY <2>3, <2>9, <3>2, <4>1
      <4> QED BY <2>10, <4>2 DEF Settled
    <3> QED BY <3>1, <3>2
  <2>13. \A i \in Replicas \ {e.id} : ~e.last_vcs[i]
    BY <2>3, <2>9, <2>10
  <2>14. staleInv(k, n, e)
    BY <1>2, <2>9, <2>10, <2>11, <2>12, <2>13 DEF staleInv
  <2> QED BY <2>1, <2>8, <2>14 DEF staleStep
<1>9. staleInv(k, Len(s), StaleLoop!Fold(k, y, s))
  BY <1>5, <1>7, <1>8, StaleLoop!FoldKeeps
<1>10. vi_mark_stale(x) = StaleLoop!Fold(k, y, s)
  BY <1>6, StaleIsLoop
<1> QED BY <1>7, <1>9, <1>10

(* ... as vi_mark_stale() does. *)
LEMMA MarkStaleArrives ==
  ASSUME NEW x, Good(x), Few(x, x.v), Own(x)
  PROVE  Arrived(x, vi_mark_stale(x))
<1>1. PICK L, d, y : L = x.last_views /\ d = dropped(x) /\ y = vi_mark_stale(x)
  OBVIOUS
<1>2. PICK N, k : N = d.last_views /\ k = [x |-> d, L |-> L]
  OBVIOUS
<1>3. /\ d.id = x.id /\ d.v = x.v /\ d.sent = x.sent /\ d.oplog = x.oplog
      /\ d.last_stable = x.last_stable /\ N \in [Replicas -> Nat] /\ N[x.id] = L[x.id]
      /\ \A i \in Replicas, n \in Nat : n <= L[i] /\ n <= x.v => n <= N[i]
  BY <1>1, <1>2, Dropped
<1>4. staleInv(k, 3 * F + 1, y)
  BY <1>1, <1>2, StaleLoops
<1>5. k.x = d /\ k.L = L
  BY <1>2
<1>6. /\ Row(y, L) /\ Like(d, y) /\ (\A i \in Replicas \ {y.id} : ~y.last_vcs[i])
      /\ \A p \in Replicas : Settled(y, p)
  <2>1. \A p \in Replicas : p < 3 * F + 1
    BY ReplicasFinite DEF Replicas
  <2> QED BY <1>4, <1>5, <2>1 DEF staleInv
<1>7. /\ y.id = x.id /\ y.v = x.v /\ y.sent = x.sent /\ y.oplog = x.oplog
      /\ y.last_stable = x.last_stable /\ y.last_views = N
  BY <1>2, <1>3, <1>6 DEF Like
<1>8. Base(y, L) /\ y.id \in Replicas /\ y.v \in Nat /\ L[y.id] = y.v
  BY <1>1, <1>6, <1>7, BaseFields DEF Row, Own
<1>9. Base(y, N)
  <2>1. \A i \in Replicas : y.last_vcs[i] => VcOK(y.slot[i], i) /\ y.slot[i].v <= N[i]
    <3>1. ASSUME NEW i \in Replicas, y.last_vcs[i] PROVE VcOK(y.slot[i], i) /\ y.slot[i].v <= N[i]
      <4>1. i = y.id
        BY <1>6, <3>1
      <4>2. VcOK(y.slot[i], i) /\ y.slot[i].v <= L[i]
        BY <1>8, <3>1 DEF Base
      <4> QED BY <1>3, <1>7, <4>1, <4>2
    <3> QED BY <3>1
  <2>2. N[y.id] <= y.v
    BY <1>3, <1>7, <1>8
  <2> QED BY <1>3, <1>8, <2>1, <2>2 DEF Base
<1>10. ASSUME NEW p \in Replicas PROVE Info(y, y.nvs[p], p, N)
  <2>1. Info(y, y.nvs[p], p, L) /\ Settled(y, p) /\ y.nvs[p].v \in Nat
    BY <1>6 DEF Row, Info, NvOK, NvShape
  <2>2. ASSUME NEW i \in Replicas, y.nvs[p].vcs[i].vc PROVE y.nvs[p].v <= N[i]
    <3>1. y.nvs[p].v <= L[i]
      BY <2>1, <2>2 DEF Info
    <3>2. CASE i = y.id
      BY <1>3, <1>7, <3>1, <3>2
    <3>3. CASE i # y.id
      <4>1. y.nvs[p].v <= x.v
        BY <1>7, <2>1, <2>2, <3>3 DEF Settled
      <4> QED BY <1>3, <2>1, <3>1, <4>1
    <3> QED BY <3>2, <3>3
  <2> QED BY <2>1, <2>2 DEF Info
<1>11. Good(y)
  BY <1>7, <1>9, <1>10 DEF Good, Row
<1>12. Few(y, y.v)
  <2> SUFFICES ASSUME NEW w \in Nat, w > y.v PROVE Cardinality(Heard(y, w)) <= F
    BY DEF Few
  <2>1. ASSUME NEW i \in Heard(y, w) PROVE i = y.id
    <3> SUFFICES ASSUME i # y.id PROVE FALSE
      OBVIOUS
    <3>1. i \in Replicas /\ y.nvs[primary(w)].v = w /\ y.nvs[primary(w)].vcs[i].vc
      BY <1>6 DEF Heard
    <3>2. w <= y.v
      BY <1>6, <3>1, PrimaryIn DEF Settled
    <3> QED BY <1>8, <3>2
  <2>2. PICK a, b : a = Cardinality(Heard(y, w)) /\ b = Cardinality({y.id})
    OBVIOUS
  <2>3. a \in Nat /\ b \in Nat /\ a <= b
    <3>1. Heard(y, w) \in SUBSET Replicas /\ {y.id} \in SUBSET Replicas /\ Heard(y, w) \subseteq {y.id}
      BY <1>8, <2>1 DEF Heard
    <3> QED BY <2>2, <3>1, Wider
  <2>4. b = 1
    BY <2>2, FS_Singleton
  <2> QED BY <2>2, <2>3, <2>4, ReplicasFinite
<1>13. Own(y)
  BY <1>3, <1>7, <1>8 DEF Own
<1>14. Still(x, y)
  BY <1>1, <1>3, <1>7 DEF Still
<1>15. Reports(x) => Reports(y)
  BY <1>6, <1>14, StillReports DEF Good
<1> QED BY <1>1, <1>7, <1>11, <1>12, <1>13, <1>15 DEF Arrived

-----------------------------------------------------------------------------
(* The initial states. *)
LEMMA CompleteInfo ==
  ASSUME NEW x, x.v \in Nat, x.v > 0, NEW L
  PROVE  /\ Info(x, make_complete(x.v), primary(x.v), L)
         /\ \A i \in Replicas : ~make_complete(x.v).vcs[i].vc
<1>1. PICK e : e = Empty_NV_info
  OBVIOUS
<1>2. /\ NvShape(e) /\ e.v = 0 /\ ~e.complete /\ e.chosen = 0 /\ e.calls = << >>
      /\ \A i \in Replicas : e.vcs[i] = Empty_VC_info
  BY <1>1, EmptyShape
<1>3. \A i \in Replicas : ~e.vcs[i].vc
  BY <1>2 DEF Empty_VC_info
<1>4. PICK n : n = [e EXCEPT !.v = x.v, !.complete = TRUE]
  OBVIOUS
<1>5. IsRec(e, NFields)
  BY <1>2 DEF NvShape
<1>6. /\ IsRec(n, NFields) /\ n.v = x.v /\ n.complete = TRUE /\ n.chosen = e.chosen
      /\ n.vcs = e.vcs /\ n.ckpts = e.ckpts /\ n.min = e.min /\ n.max = e.max
      /\ n.reqs = e.reqs /\ n.calls = e.calls
  BY <1>4, <1>5 DEF IsRec, NFields
<1>7. NvShape(n)
  BY <1>2, <1>6 DEF NvShape
<1>8. ~Live(n)
  BY <1>2, <1>6 DEF Live
<1>9. ~(n.chosen > 0) /\ n.v <= x.v
  BY <1>2, <1>6
<1>10. NvOK(n, primary(x.v))
  BY <1>6, <1>7, <1>8 DEF NvOK
<1>11. Info(x, n, primary(x.v), L)
  BY <1>3, <1>6, <1>8, <1>9, <1>10 DEF Info
<1> QED BY <1>1, <1>3, <1>4, <1>6, <1>11 DEF make_complete

(* A replica that starts satisfies the invariant. *)
LEMMA StartedArrived ==
  ASSUME NEW r \in Replicas, NEW x, StartsIn(x, r)
  PROVE  x.id = r /\ Good(x) /\ Few(x, x.v) /\ Own(x) /\ Reports(x)
<1>1. PICK v \in Nat : v = x.v
  BY DEF StartsIn
<1>2. /\ IsRec(x, XFields) /\ x.id = r /\ x.sent = Nothing
      /\ x.last_views = [i \in Replicas |-> v] /\ x.last_vcs = [i \in Replicas |-> FALSE]
      /\ x.vacks = [i \in Replicas |-> EmptyVacks] /\ x.slot = [i \in Replicas |-> None]
      /\ x.nvs = [i \in Replicas |-> IF v > 0 /\ i = primary(v) THEN make_complete(v)
                                     ELSE Empty_NV_info]
  <2>1. PICK o, g, c, ls, le : o = x.oplog /\ g = x.plog /\ c = x.ckpts /\ ls = x.last_stable
                               /\ le = x.last_executed
    OBVIOUS
  <2>2. x = Started(r, v, o, g, c, ls, le)
    BY <1>1, <2>1 DEF StartsIn
  <2> QED BY <2>2 DEF Started, IsRec, XFields
<1>3. PICK L : L = x.last_views
  OBVIOUS
<1>4. L \in [Replicas -> Nat] /\ \A i \in Replicas : L[i] = v
  BY <1>2, <1>3
<1>5. /\ x.last_vcs \in [Replicas -> BOOLEAN] /\ \A i \in Replicas : ~x.last_vcs[i]
  BY <1>2
<1>6. /\ IsRec(x.slot, Replicas) /\ IsRec(x.nvs, Replicas) /\ IsRec(x.vacks, Replicas)
      /\ \A i \in Replicas : x.vacks[i] = EmptyVacks
  BY <1>2 DEF IsRec
<1>7. Acked(x.vacks)
  <2>1. EmptyVacks.vacks = [j \in Replicas |-> None] /\ IsRec(EmptyVacks, {"v", "vacks"})
    BY DEF EmptyVacks, IsRec
  <2>2. IsRec(EmptyVacks.vacks, Replicas) /\ \A j \in Replicas : EmptyVacks.vacks[j] = None
    BY <2>1 DEF IsRec
  <2> QED BY <1>6, <2>1, <2>2 DEF Acked
<1>8. x.sent.vc = {} /\ Sends(x.sent, r) /\ IsRec(x.sent, SFields)
  BY <1>2 DEF Nothing, Sends, IsRec, SFields
<1>9. Base(x, L)
  <2>1. Shaped(x)
    BY <1>1, <1>2, <1>3, <1>4, <1>5, <1>6, <1>8 DEF Shaped, StartsIn
  <2>2. L[x.id] <= x.v
    BY <1>1, <1>2, <1>4
  <2> QED BY <1>2, <1>4, <1>5, <1>7, <1>8, <2>1, <2>2 DEF Base
<1>10. ASSUME NEW p \in Replicas
       PROVE  Info(x, x.nvs[p], p, L) /\ \A i \in Replicas : ~x.nvs[p].vcs[i].vc
  <2>1. CASE v > 0 /\ p = primary(v)
    <3>1. x.nvs[p] = make_complete(v)
      BY <1>2, <2>1
    <3> QED BY <1>1, <2>1, <3>1, CompleteInfo
  <2>2. CASE ~(v > 0 /\ p = primary(v))
    <3>1. x.nvs[p] = Empty_NV_info
      BY <1>2, <2>2
    <3>2. \A i \in Replicas : ~Empty_NV_info.vcs[i].vc
      BY EmptyShape DEF Empty_VC_info
    <3> QED BY <1>1, <3>1, <3>2, EmptyInfo
  <2> QED BY <2>1, <2>2
<1>11. Good(x)
  BY <1>3, <1>9, <1>10 DEF Good, Row
<1>12. Few(x, x.v)
  <2>1. \A w \in Nat : Heard(x, w) = {}
    BY <1>5, <1>10, PrimaryIn DEF Heard
  <2> QED BY <2>1, FS_EmptySet, ReplicasFinite DEF Few
<1>13. Own(x)
  BY <1>1, <1>2, <1>3, <1>4 DEF Own
<1>14. Reports(x)
  BY <1>8 DEF Reports
<1> QED BY <1>2, <1>11, <1>12, <1>13, <1>14

(* The invariant holds initially. *)
LEMMA InitKeeps == Init => IInv /\ Reported
<1> SUFFICES ASSUME Init PROVE IInv /\ Reported
  OBVIOUS
<1>1. PICK s \in Starts : rep = s[1] /\ claim = s[2]
  BY DEF Init
<1>2. /\ rep = [r \in DOMAIN rep |-> rep[r]] /\ DOMAIN rep \subseteq Replicas
      /\ \A r \in DOMAIN rep : StartsIn(rep[r], r)
      /\ \A i \in Replicas \ DOMAIN rep : AuthenticFrom(claim[i], i)
  BY <1>1, StartsAssumption
<1>3. \A r \in DOMAIN rep :
        rep[r].id = r /\ Good(rep[r]) /\ Few(rep[r], rep[r].v) /\ Own(rep[r]) /\ Reports(rep[r])
  BY <1>2, StartedArrived
<1>4. ASSUME NEW i \in Replicas \ DOMAIN rep PROVE Sends(claim[i], i)
  <2>1. AuthenticFrom(claim[i], i)
    BY <1>2
  <2>2. \A m \in claim[i].vc : VcOK(m, i)
    BY <2>1 DEF AuthenticFrom, VcOK
  <2>3. \A m \in claim[i].nv : m.v \in Nat /\ primary(m.v) = i /\ MsgOK(m, m.v)
    BY <2>1 DEF AuthenticFrom, MsgOK, IsRec, MFields
  <2>4. \A a \in claim[i].ack : a.v \in Nat
    BY <2>1 DEF AuthenticFrom
  <2> QED BY <2>2, <2>3, <2>4 DEF Sends
<1> QED BY <1>2, <1>3, <1>4 DEF IInv, Reported, IsRec, Good

-----------------------------------------------------------------------------
(* The steps. *)
Kept == IInv' /\ (max_out <= IntBits /\ Reported => Reported')

(* What the invariant says of one replica. *)
LEMMA ActiveRow ==
  ASSUME IInv, NEW r \in Active
  PROVE  /\ r \in Replicas /\ rep[r].id = r /\ Good(rep[r]) /\ Few(rep[r], rep[r].v) /\ Own(rep[r])
         /\ rep[r].v \in Nat
<1>1. r \in Replicas /\ rep[r].id = r /\ Good(rep[r]) /\ Few(rep[r], rep[r].v) /\ Own(rep[r])
  BY DEF IInv, Active, Good
<1> QED BY <1>1, BaseFields DEF Good, Row

(* A step of one replica that arrives keeps the invariant. *)
LEMMA StepKeeps ==
  ASSUME IInv, NEW r \in Active, NEW x, Arrived(rep[r], x),
         rep' = [rep EXCEPT ![r] = run_calls(x)], claim' = claim
  PROVE  Kept
<1>1. PICK y : y = run_calls(x)
  OBVIOUS
<1>2. Calm(x, y)
  BY <1>1, RunCallsCalm DEF Arrived
<1>3. Arrived(rep[r], y)
  BY <1>2, ArrivedCalm
<1>4. y.id = r /\ Row(y, y.last_views) /\ Few(y, y.v) /\ Own(y)
  BY <1>3, ActiveRow DEF Arrived, Good
<1>5. /\ DOMAIN rep' = DOMAIN rep /\ rep'[r] = y
      /\ \A q \in DOMAIN rep : q # r => rep'[q] = rep[q]
      /\ rep' = [q \in DOMAIN rep' |-> rep'[q]]
  <2>1. rep = [q \in DOMAIN rep |-> rep[q]]
    BY DEF IInv, IsRec
  <2>2. rep' = [q \in DOMAIN rep |-> IF q = r THEN y ELSE rep[q]]
    BY <1>1, <2>1
  <2> QED BY <2>2 DEF Active
<1>6. ASSUME NEW q \in DOMAIN rep'
      PROVE  rep'[q].id = q /\ Row(rep'[q], rep'[q].last_views) /\ Few(rep'[q], rep'[q].v) /\ Own(rep'[q])
  <2>1. CASE q = r
    BY <1>4, <1>5, <2>1
  <2>2. CASE q # r
    BY <1>5, <2>2 DEF IInv
  <2> QED BY <2>1, <2>2
<1>7. IInv'
  BY <1>5, <1>6 DEF IInv, IsRec
<1>8. ASSUME max_out <= IntBits, Reported PROVE Reported'
  <2>1. Reports(y)
    BY <1>3, <1>8 DEF Reported, Arrived, Active
  <2> QED BY <1>5, <1>8, <2>1 DEF Reported
<1> QED BY <1>7, <1>8 DEF Kept

(* The messages sent are well formed. *)
LEMMA SentOK ==
  ASSUME IInv, NEW i \in Replicas
  PROVE  Sends(Sent(i), i)
<1>1. CASE i \in Active
  <2>1. rep[i].id = i /\ Base(rep[i], rep[i].last_views)
    BY <1>1, ActiveRow DEF Good, Row
  <2> QED BY <1>1, <2>1 DEF Base, Sent
<1>2. CASE i \notin Active
  BY <1>2 DEF IInv, Sent, Active
<1> QED BY <1>1, <1>2

(* VTimer keeps the invariant. *)
LEMMA VTimerKeeps ==
  ASSUME IInv, NEW r \in Active, VTimer(r)
  PROVE  Kept
<1>1. PICK x : x = rep[r]
  OBVIOUS
<1>2. Good(x) /\ Few(x, x.v) /\ x.v \in Nat
  BY <1>1, ActiveRow
<1>3. Few(x, x.v + 1)
  BY <1>2, FewerAbove
<1>4. Arrived(x, send_view_change(x))
  BY <1>2, <1>3, SendViewChange
<1> QED BY <1>1, <1>4, StepKeeps DEF VTimer, Step

(* Receive keeps the invariant. *)
LEMMA ReceiveKeeps ==
  ASSUME IInv, NEW r \in Active, Receive(r)
  PROVE  Kept
<1>1. PICK i \in Replicas \ {r} :
        ReceiveViewChange(r, i) \/ ReceiveNewView(r, i) \/ ReceiveAck(r, i) \/ ReceiveMissing(r, i)
  BY DEF Receive
<1>2. PICK x, s : x = rep[r] /\ s = Sent(i)
  OBVIOUS
<1>3. x.id = r /\ Good(x) /\ Few(x, x.v) /\ Own(x) /\ x.v \in Nat
  BY <1>2, ActiveRow
<1>4. Sends(s, i)
  BY <1>2, SentOK
<1>5. CASE ReceiveViewChange(r, i)
  <2>1. PICK m \in s.vc : Step(r, handle_View_change(x, m))
    BY <1>2, <1>5 DEF ReceiveViewChange
  <2>2. VcOK(m, i)
    BY <1>4, <2>1 DEF Sends
  <2>3. Arrived(x, handle_View_change(x, m))
    BY <1>1, <1>3, <2>2, HandleViewChange
  <2> QED BY <1>2, <2>1, <2>3, StepKeeps DEF Step
<1>6. CASE ReceiveNewView(r, i)
  <2>1. PICK m \in s.nv : Step(r, vi_add_nv(x, m))
    BY <1>2, <1>6 DEF ReceiveNewView
  <2>2. m.v \in Nat /\ MsgOK(m, m.v) /\ primary(m.v) # x.id
    BY <1>1, <1>3, <1>4, <2>1 DEF Sends
  <2>3. Arrived(x, vi_add_nv(x, m))
    BY <1>3, <2>2, AddNvCalm, CalmArrived
  <2> QED BY <1>2, <2>1, <2>3, StepKeeps DEF Step
<1>7. CASE ReceiveAck(r, i)
  <2>1. PICK a \in s.ack : Step(r, vi_add_ack(x, a))
    BY <1>2, <1>7 DEF ReceiveAck
  <2>2. a.v \in Nat
    BY <1>4, <2>1 DEF Sends
  <2>3. Arrived(x, vi_add_ack(x, a))
    BY <1>3, <2>2, AddAckCalm, CalmArrived
  <2> QED BY <1>2, <2>1, <2>3, StepKeeps DEF Step
<1>8. CASE ReceiveMissing(r, i)
  <2>1. PICK p \in Replicas : p = primary(x.v)
    BY <1>3, PrimaryIn
  <2>2. PICK u : u = Load(x, p)
    OBVIOUS
  <2>3. \E n, d : AddMissing(r, nv_add_missing_pp(u, n, d)) \/ AddMissing(r, nv_add_missing_p(u, i, n, d))
    BY <1>2, <1>8, <2>1, <2>2 DEF ReceiveMissing
  <2>4. PICK n, d : AddMissing(r, nv_add_missing_pp(u, n, d)) \/ AddMissing(r, nv_add_missing_p(u, i, n, d))
    BY <2>3
  <2>5. PICK y : y \in {nv_add_missing_pp(u, n, d), nv_add_missing_p(u, i, n, d)} /\ AddMissing(r, y)
    BY <2>4
  <2>6. Calm(x, Store(y, p))
    BY <1>3, <2>2, <2>5, MissingCalm
  <2>7. Arrived(x, Store(y, p))
    BY <1>3, <2>6, CalmArrived
  <2> QED BY <1>2, <2>1, <2>5, <2>7, StepKeeps DEF AddMissing, Step
<1> QED BY <1>1, <1>5, <1>6, <1>7, <1>8

(* MarkStable keeps the invariant. *)
LEMMA MarkStableKeeps ==
  ASSUME IInv, NEW r \in Active, NEW n \in LaterStable, MarkStable(r, n)
  PROVE  Kept
<1>1. PICK x : x = rep[r]
  OBVIOUS
<1>2. Good(x) /\ Few(x, x.v) /\ Own(x)
  BY <1>1, ActiveRow
<1>3. n \in Int /\ n > x.last_stable
  BY <1>1, StartsAssumption DEF MarkStable
<1>4. Arrived(x, vi_mark_stable(x, n))
  BY <1>2, <1>3, MarkStableCalm, CalmArrived
<1> QED BY <1>1, <1>4, StepKeeps DEF MarkStable, Step

(* NewKey keeps the invariant. *)
LEMMA NewKeyKeeps ==
  ASSUME IInv, NEW r \in Active, NewKey(r)
  PROVE  Kept
<1>1. Arrived(rep[r], vi_mark_stale(rep[r]))
  BY ActiveRow, MarkStaleArrives
<1> QED BY <1>1, StepKeeps DEF NewKey

(* The invariant is inductive. *)
LEMMA NextKeeps == IInv /\ [Next]_vars => Kept
<1> SUFFICES ASSUME IInv, [Next]_vars PROVE Kept
  OBVIOUS
<1>1. CASE UNCHANGED vars
  BY <1>1 DEF vars, Kept, IInv, Reported
<1>2. CASE Next
  <2>1. PICK r \in Active :
          VTimer(r) \/ Receive(r) \/ NewKey(r) \/ \E n \in LaterStable : MarkStable(r, n)
    BY <1>2 DEF Next
  <2> QED BY <2>1, VTimerKeeps, ReceiveKeeps, NewKeyKeeps, MarkStableKeeps
<1> QED BY <1>1, <1>2

-----------------------------------------------------------------------------
(* The rows of all modelled replicas stay well formed: every View_change   *)
(* and New_view they keep is one that was sent, an NV_info of a backup that *)
(* has chosen has the View_changes of a quorum, the View_changes of more    *)
(* than f replicas for views above its own would have moved it there        *)
(* (View_info::add() and max_view(), and what Replica does with them).      *)
THEOREM ViewChangeInvariant == Spec => []IInv
<1>1. Init => IInv
  BY InitKeeps
<1>2. IInv /\ [Next]_vars => IInv'
  BY NextKeeps DEF Kept
<1> QED BY <1>1, <1>2, PTL DEF Spec

(* process_new_view() runs in the view of the New_view: the View_changes    *)
(* that complete it have moved the replica to that view before.             *)
THEOREM ViewEnteredIsCurrent == Spec => []EntersCurrentView
<1>1. IInv => EntersCurrentView
  <2> SUFFICES ASSUME IInv, NEW r \in Active, NEW p \in Replicas, rep[r].nvs[p].complete
               PROVE  rep[r].nvs[p].v <= rep[r].v
    BY DEF EntersCurrentView
  <2> QED BY ActiveRow, CompleteBelow
<1> QED BY <1>1, ViewChangeInvariant, PTL

(* A View_change reports a request as prepared if and only if it is, as     *)
(* long as the window is no longer than an int has bits: then the bits that *)
(* View_change::mark() sets for different sequence numbers do not overlap.  *)
THEOREM PreparedReported ==
  ASSUME max_out <= IntBits
  PROVE  Spec => []ReportsPrepared
<1>1. Init => IInv /\ Reported
  BY InitKeeps
<1>2. (IInv /\ Reported) /\ [Next]_vars => (IInv /\ Reported)'
  BY NextKeeps DEF Kept
<1>3. Reported => ReportsPrepared
  BY DEF Reported, Reports, ReportsPrepared, Active
<1> QED BY <1>1, <1>2, <1>3, PTL DEF Spec
=============================================================================
