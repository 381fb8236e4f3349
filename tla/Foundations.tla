----------------------------- MODULE Foundations -----------------------------
(***************************************************************************)
(* What the proofs of several modules need.                                *)
(*                                                                         *)
(* 1. The arithmetic of a ring of m elements: the logs and the message     *)
(* regions of a replica index their arrays modulo their size, with a head  *)
(* that moves.                                                             *)
(*                                                                         *)
(* 2. What FoldLeft computes, for the loops of the code that are folds     *)
(* over a sequence.  op is the body of the loop: op(k, a, e) is the state  *)
(* after the element e when a is the state before it and k is what stays   *)
(* the same during the loop.  inv(k, i, a) is an invariant of the loop,    *)
(* true of the state a after i elements.  A module that has such a loop    *)
(* instantiates this one with both; one that needs only the arithmetic     *)
(* extends it and leaves them open.                                        *)
(*                                                                         *)
(* Induction over the natural numbers is stated with a set, and proved     *)
(* from the least element of the numbers outside it.                       *)
(***************************************************************************)
EXTENDS Integers, Sequences, Folds, WellFoundedInduction, TLAPS

CONSTANTS op(_, _, _), inv(_, _, _)

-----------------------------------------------------------------------------
(* 1. Rings *)

(* Division with remainder ... *)
LEMMA DivMod ==
  ASSUME NEW m \in Int, m > 0, NEW a \in Int, NEW q, q = a \div m, NEW r, r = a % m
  PROVE  a = m * q + r /\ q \in Int /\ r \in Int /\ 0 <= r /\ r < m
BY Z3

(* ... is unique. *)
LEMMA DivModUnique ==
  ASSUME NEW m \in Int, m > 0, NEW a \in Int, NEW q \in Int, NEW r \in Int,
         a = m * q + r, 0 <= r, r < m
  PROVE  a % m = r /\ a \div m = q
BY Z3

(* Products of integers, for provers that know only linear arithmetic. *)
LEMMA Products ==
  ASSUME NEW m \in Int, NEW d \in Int, NEW e \in Int
  PROVE  /\ m * d \in Int
         /\ m * (d - e) = m * d - m * e
         /\ m * (d + e) = m * d + m * e
         /\ m * (-d) = -(m * d)
         /\ m * 0 = 0 /\ m * 1 = m
BY Z3

(* A positive number of steps of a positive length. *)
LEMMA PositiveProduct ==
  ASSUME NEW m \in Int, NEW d \in Int, m > 0, d >= 1
  PROVE  m * d >= m
BY Z3

(* An index is within the ring. *)
LEMMA ModRange ==
  ASSUME NEW m \in Nat \ {0}, NEW a \in Int
  PROVE  a % m \in 0..(m - 1)
OBVIOUS

(* A position is a number of rounds and an index. *)
LEMMA Rounds ==
  ASSUME NEW m \in Nat \ {0}, NEW a \in Int, NEW r, r = a % m
  PROVE  \E q \in Int : a = m * q + r
<1>1. PICK q : q = a \div m
  OBVIOUS
<1>2. a = m * q + r /\ q \in Int
  BY <1>1, DivMod
<1> QED BY <1>2

(* Positions share an index when they are whole rounds apart. *)
LEMMA Congruent ==
  ASSUME NEW m \in Nat \ {0}, NEW a \in Int, NEW b \in Int
  PROVE  a % m = b % m <=> \E d \in Int : a - b = m * d
<1>1. PICK r, s : r = a % m /\ s = b % m
  OBVIOUS
<1>2. PICK q \in Int : a = m * q + r
  BY <1>1, Rounds
<1>3. PICK p \in Int : b = m * p + s
  BY <1>1, Rounds
<1>4. r \in 0..(m - 1) /\ s \in 0..(m - 1)
  BY <1>1
<1>5. ASSUME r = s PROVE \E d \in Int : a - b = m * d
  <2>1. a - b = m * q - m * p
    BY <1>2, <1>3, <1>4, <1>5, Products
  <2>2. a - b = m * (q - p)
    BY <2>1, Products
  <2> QED BY <2>2
<1>6. ASSUME NEW d \in Int, a - b = m * d PROVE r = s
  <2>1. a = m * p + m * d + s
    BY <1>3, <1>4, <1>6, Products
  <2>2. a = m * (p + d) + s
    BY <1>4, <2>1, Products
  <2>3. p + d \in Int /\ 0 <= s /\ s < m /\ s \in Int /\ m \in Int /\ m > 0
    BY <1>4
  <2> QED BY <1>1, <2>2, <2>3, DivModUnique
<1> QED BY <1>1, <1>5, <1>6, Zenon

(* Positions less than a round apart have different indices. *)
LEMMA SameIndex ==
  ASSUME NEW m \in Nat \ {0}, NEW a \in Int, NEW b \in Int,
         a % m = b % m, a - b < m, b - a < m
  PROVE  a = b
<1>1. PICK d \in Int : a - b = m * d
  BY Congruent
<1>2. d < 1
  BY <1>1, PositiveProduct, Products
<1>3. CASE d <= -1
  <2>1. m * (-d) >= m
    BY <1>3, PositiveProduct
  <2>2. m * (-d) = -(m * d)
    BY Products
  <2> QED BY <1>1, <2>1, <2>2, Products
<1>4. CASE d = 0
  BY <1>1, <1>4, Products
<1> QED BY <1>2, <1>3, <1>4

(* Reducing one summand does not change the index. *)
LEMMA ReduceSummand ==
  ASSUME NEW m \in Nat \ {0}, NEW a \in Int, NEW b \in Int
  PROVE  ((a % m) + b) % m = (a + b) % m
<1>1. PICK r : r = a % m
  OBVIOUS
<1>2. r \in 0..(m - 1)
  BY <1>1
<1>3. PICK q \in Int : a = m * q + r
  BY <1>1, Rounds
<1>4. PICK x, y : x = a + b /\ y = r + b
  OBVIOUS
<1>5. x \in Int /\ y \in Int /\ x - y = m * q
  BY <1>2, <1>3, <1>4, Products
<1>6. x % m = y % m
  BY <1>5, Congruent
<1> QED BY <1>1, <1>4, <1>6, Zenon

(* One round further the index is the same. *)
LEMMA NextRound ==
  ASSUME NEW m \in Nat \ {0}, NEW a \in Int
  PROVE  (a + m) % m = a % m
<1>1. (a + m) - a = m * 1
  BY Products
<1>2. a + m \in Int /\ 1 \in Int
  OBVIOUS
<1> QED BY <1>1, <1>2, Congruent

(* Products with a positive number are ordered as the numbers are. *)
LEMMA ProductOrder ==
  ASSUME NEW m \in Int, m > 0, NEW d \in Int, NEW e \in Int
  PROVE  (m * d <= m * e <=> d <= e) /\ (m * d = m * e <=> d = e)
<1>1. ASSUME NEW x \in Int, NEW y \in Int, x < y PROVE m * x < m * y
  <2>1. m * (y - x) >= m
    BY <1>1, PositiveProduct
  <2>2. m * (y - x) = m * y - m * x /\ m * x \in Int /\ m * y \in Int
    BY Products
  <2> QED BY <2>1, <2>2
<1>2. m * d \in Int /\ m * e \in Int
  BY Products
<1>3. d < e => m * d < m * e
  BY <1>1
<1>4. e < d => m * e < m * d
  BY <1>1
<1>5. d = e => m * d = m * e
  OBVIOUS
<1> QED BY <1>2, <1>3, <1>4, <1>5

(* An index is at most the position. *)
LEMMA ModAtMost ==
  ASSUME NEW m \in Nat \ {0}, NEW a \in Nat
  PROVE  a % m <= a
<1>1. PICK r : r = a % m
  OBVIOUS
<1>2. r \in 0..(m - 1)
  BY <1>1
<1>3. PICK q \in Int : a = m * q + r
  <2>1. a \in Int
    OBVIOUS
  <2> QED BY <1>1, <2>1, Rounds
<1>4. q >= 0
  <2> SUFFICES ASSUME -q >= 1 PROVE FALSE
    OBVIOUS
  <2>1. m * (-q) >= m
    BY PositiveProduct
  <2>2. m * (-q) = -(m * q) /\ m * q \in Int
    BY Products
  <2> QED BY <1>2, <1>3, <2>1, <2>2
<1>5. m * q >= 0
  BY <1>4, ProductOrder, Products
<1>6. r <= a
  BY <1>2, <1>3, <1>5, Products
<1> QED BY <1>1, <1>6

-----------------------------------------------------------------------------
(* 2. Loops *)

Greatest(S) == CHOOSE x \in S : \A y \in S : x >= y

(* FoldLeft(LAMBDA a, e : op(k, a, e), base, s) of SequencesExt.  That      *)
(* module is not extended here, to keep the instances small.                *)
Fold(k, base, s) ==
  MapThenFoldSet(LAMBDA e, a : op(k, a, e), base, LAMBDA i : s[i],
                 LAMBDA S : Greatest(S), DOMAIN s)

(* A set of numbers with 0 and the successor of each of its members has     *)
(* them all.                                                                *)
LEMMA NatSet ==
  ASSUME NEW S, 0 \in S, \A n \in Nat : n \in S => n + 1 \in S
  PROVE  \A n \in Nat : n \in S
<1> DEFINE T == {n \in Nat : n \notin S}
<1> SUFFICES ASSUME T # {} PROVE FALSE
  OBVIOUS
<1>1. PICK x \in T : \A y \in T : <<y, x>> \notin OpToRel(<, Nat)
  BY NatLessThanWellFounded, WFMin
<1>2. x \in Nat /\ x \notin S /\ x # 0
  OBVIOUS
<1>3. x - 1 \in Nat /\ x = (x - 1) + 1 /\ x - 1 < x
  BY <1>2
<1>4. x - 1 \in T
  BY <1>2, <1>3
<1>5. <<x - 1, x>> \in OpToRel(<, Nat)
  BY <1>2, <1>3 DEF OpToRel
<1> QED BY <1>1, <1>4, <1>5
-----------------------------------------------------------------------------
(* f is what the fold computes for the sets of the first n indices of s. *)
Iterates(k, base, s, D, f) ==
  f = [t \in SUBSET D |-> IF t = {} THEN base ELSE op(k, f[t \ {Greatest(t)}], s[Greatest(t)])]

(* The greatest of the first n indices. *)
LEMMA MaxOfUpTo ==
  ASSUME NEW n \in Nat, NEW t \in SUBSET (1..n), n \in t
  PROVE  Greatest(t) = n
<1>1. \A x \in t : (\A y \in t : x >= y) => x = n
  OBVIOUS
<1>2. \A y \in t : n >= y
  OBVIOUS
<1> QED BY <1>1, <1>2 DEF Greatest

(* The recursion that defines the fold has a solution for one index more   *)
(* ...                                                                     *)
LEMMA IteratesNext ==
  ASSUME NEW k, NEW base, NEW s, NEW n \in Nat, NEW f, Iterates(k, base, s, 1..n, f)
  PROVE  \E g : Iterates(k, base, s, 1..(n + 1), g)
<1> DEFINE m == n + 1
           g == [t \in SUBSET (1..m) |-> IF m \in t THEN op(k, f[t \ {m}], s[m]) ELSE f[t]]
<1> SUFFICES ASSUME NEW t \in SUBSET (1..m)
             PROVE  g[t] = IF t = {} THEN base ELSE op(k, g[t \ {Greatest(t)}], s[Greatest(t)])
  <2> DEFINE G(t) == IF t = {} THEN base ELSE op(k, g[t \ {Greatest(t)}], s[Greatest(t)])
  <2>1. \A t \in SUBSET (1..m) : g[t] = G(t)
    OBVIOUS
  <2>2. g = [t \in SUBSET (1..m) |-> g[t]]
    OBVIOUS
  <2> HIDE DEF g
  <2>3. g = [t \in SUBSET (1..m) |-> G(t)]
    BY <2>1, <2>2, Zenon
  <2>4. Iterates(k, base, s, 1..m, g)
    BY <2>3 DEF Iterates
  <2> QED BY <2>4
<1>1. m \in Nat /\ 1..n \subseteq 1..m /\ m \notin 1..n /\ \A i \in 1..m : i = m \/ i \in 1..n
  OBVIOUS
<1>2. CASE m \in t
  <2>1. Greatest(t) = m
    BY <1>1, <1>2, MaxOfUpTo
  <2>2. g[t \ {m}] = f[t \ {m}]
    BY <1>1
  <2> QED BY <1>2, <2>1, <2>2
<1>3. CASE m \notin t
  <2>1. t \in SUBSET (1..n) /\ \A x : t \ {x} \in SUBSET (1..n)
    BY <1>1, <1>3
  <2>2. f[t] = IF t = {} THEN base ELSE op(k, f[t \ {Greatest(t)}], s[Greatest(t)])
    BY <2>1 DEF Iterates
  <2>3. g[t] = f[t] /\ \A x : g[t \ {x}] = f[t \ {x}]
    BY <1>1, <1>3, <2>1
  <2> QED BY <2>2, <2>3
<1> QED BY <1>2, <1>3

(* ... and so for any number of them. *)
LEMMA IteratesExists ==
  ASSUME NEW k, NEW base, NEW s, NEW n \in Nat
  PROVE  \E f : Iterates(k, base, s, 1..n, f)
<1> DEFINE S == {m \in Nat : \E f : Iterates(k, base, s, 1..m, f)}
<1>1. 0 \in S
  <2> DEFINE f == [t \in {{}} |-> base]
  <2>1. SUBSET (1..0) = {{}}
    OBVIOUS
  <2>2. f = [t \in SUBSET (1..0) |-> IF t = {} THEN base ELSE op(k, f[t \ {Greatest(t)}], s[Greatest(t)])]
    BY <2>1
  <2>3. Iterates(k, base, s, 1..0, f)
    BY <2>2 DEF Iterates
  <2> QED BY <2>3
<1>2. \A m \in Nat : m \in S => m + 1 \in S
  BY IteratesNext
<1> HIDE DEF S
<1>3. n \in S
  BY <1>1, <1>2, NatSet
<1> QED BY <1>3 DEF S

(* The fold goes through the states h[0], h[1], ... of the loop. *)
Run(k, base, s, h) ==
  /\ h[0] = base
  /\ \A i \in 1..Len(s) : h[i] = op(k, h[i - 1], s[i])

(* The fold is the last state of a run of the loop. *)
LEMMA FoldRuns ==
  ASSUME NEW k, NEW base, NEW S, NEW s \in Seq(S)
  PROVE  \E h : Run(k, base, s, h) /\ Fold(k, base, s) = h[Len(s)]
<1>1. DOMAIN s = 1..Len(s) /\ Len(s) \in Nat
  OBVIOUS
<1>2. PICK f : Iterates(k, base, s, DOMAIN s, f)
  BY <1>1, IteratesExists
<1>3. PICK g : Iterates(k, base, s, DOMAIN s, g) /\ Fold(k, base, s) = g[DOMAIN s]
  BY <1>2 DEF Iterates, Fold, MapThenFoldSet
<1> DEFINE h == [i \in 0..Len(s) |-> g[1..i]]
<1>4. h[Len(s)] = Fold(k, base, s)
  BY <1>1, <1>3
<1>5. h[0] = base
  <2>1. 1..0 = {} /\ {} \in SUBSET DOMAIN s
    OBVIOUS
  <2>2. g[{}] = base
    BY <1>3, <2>1, Zenon DEF Iterates
  <2>3. 0 \in 0..Len(s)
    BY <1>1
  <2> QED BY <2>1, <2>2, <2>3
<1>6. ASSUME NEW i \in 1..Len(s) PROVE h[i] = op(k, h[i - 1], s[i])
  <2>1. i \in Nat /\ i \in 1..i /\ i >= 1 /\ i <= Len(s) /\ 1..i \in SUBSET (1..i)
    BY <1>1
  <2>5. 1..i # {} /\ 1..i \subseteq 1..Len(s)
    <3>1. \A j \in 1..i : j \in 1..Len(s)
      BY <1>1, <2>1
    <3> QED BY <2>1, <3>1, Zenon
  <2>2. Greatest(1..i) = i
    BY <2>1, MaxOfUpTo
  <2>3. g[1..i] = op(k, g[(1..i) \ {i}], s[i])
    BY <1>1, <1>3, <2>5, <2>2 DEF Iterates
  <2>4. (1..i) \ {i} = 1..(i - 1) /\ i - 1 \in 0..Len(s) /\ i \in 0..Len(s)
    BY <1>1
  <2> QED BY <2>3, <2>4
<1> QED BY <1>4, <1>5, <1>6 DEF Run

(* Two runs agree as far as their sequences do. *)
LEMMA RunsAgree ==
  ASSUME NEW k, NEW base, NEW s, NEW t, NEW g, NEW h, Len(s) \in Nat, Len(t) \in Nat,
         Run(k, base, s, g), Run(k, base, t, h),
         Len(s) <= Len(t), \A i \in 1..Len(s) : s[i] = t[i]
  PROVE  \A i \in 0..Len(s) : g[i] = h[i]
<1> DEFINE S == {i \in Nat : i <= Len(s) => g[i] = h[i]}
<1>1. 0 \in S
  BY DEF Run
<1>2. ASSUME NEW i \in Nat, i \in S PROVE i + 1 \in S
  <2> SUFFICES ASSUME i + 1 <= Len(s) PROVE g[i + 1] = h[i + 1]
    OBVIOUS
  <2>1. i + 1 \in 1..Len(s) /\ i + 1 \in 1..Len(t) /\ (i + 1) - 1 = i /\ g[i] = h[i]
    BY <1>2
  <2> QED BY <2>1 DEF Run
<1> HIDE DEF S
<1>3. \A i \in Nat : i \in S
  BY <1>1, <1>2, NatSet
<1> QED BY <1>3 DEF S
-----------------------------------------------------------------------------
(* A loop over nothing does nothing. *)
THEOREM FoldEmpty ==
  ASSUME NEW k, NEW base
  PROVE  Fold(k, base, << >>) = base
<1>1. << >> \in Seq({}) /\ Len(<< >>) = 0
  OBVIOUS
<1>2. PICK h : Run(k, base, << >>, h) /\ Fold(k, base, << >>) = h[Len(<< >>)]
  BY <1>1, FoldRuns
<1> QED BY <1>1, <1>2 DEF Run

(* A loop with one element more makes one step more. *)
THEOREM FoldAppend ==
  ASSUME NEW k, NEW base, NEW S, NEW s \in Seq(S), NEW e \in S
  PROVE  Fold(k, base, Append(s, e)) = op(k, Fold(k, base, s), e)
<1>1. PICK t : t = Append(s, e)
  OBVIOUS
<1>2. /\ t \in Seq(S) /\ Len(s) \in Nat /\ Len(t) = Len(s) + 1 /\ t[Len(s) + 1] = e
      /\ \A i \in 1..Len(s) : s[i] = t[i]
  BY <1>1
<1>3. PICK g : Run(k, base, s, g) /\ Fold(k, base, s) = g[Len(s)]
  BY FoldRuns
<1>4. PICK h : Run(k, base, t, h) /\ Fold(k, base, t) = h[Len(t)]
  BY <1>2, FoldRuns
<1>5. g[Len(s)] = h[Len(s)]
  BY <1>2, <1>3, <1>4, RunsAgree
<1>6. h[Len(s) + 1] = op(k, h[(Len(s) + 1) - 1], e)
  BY <1>2, <1>4 DEF Run
<1> QED BY <1>1, <1>2, <1>3, <1>4, <1>5, <1>6

(* A loop over two sequences, one after the other. *)
THEOREM FoldConcat ==
  ASSUME NEW k, NEW base, NEW S, NEW s \in Seq(S), NEW t \in Seq(S)
  PROVE  Fold(k, base, s \o t) = Fold(k, Fold(k, base, s), t)
<1>1. PICK u : u = s \o t
  OBVIOUS
<1>2. /\ u \in Seq(S) /\ Len(s) \in Nat /\ Len(t) \in Nat /\ Len(u) = Len(s) + Len(t)
      /\ \A i \in 1..Len(s) : s[i] = u[i]
      /\ \A i \in 1..Len(t) : u[Len(s) + i] = t[i]
  BY <1>1
<1>3. PICK g : Run(k, base, s, g) /\ Fold(k, base, s) = g[Len(s)]
  BY FoldRuns
<1>4. PICK h : Run(k, base, u, h) /\ Fold(k, base, u) = h[Len(u)]
  BY <1>2, FoldRuns
<1>5. g[Len(s)] = h[Len(s)]
  BY <1>2, <1>3, <1>4, RunsAgree
<1>6. PICK f : Run(k, g[Len(s)], t, f) /\ Fold(k, g[Len(s)], t) = f[Len(t)]
  BY FoldRuns
<1> DEFINE T == {i \in Nat : i <= Len(t) => h[Len(s) + i] = f[i]}
<1>7. 0 \in T
  BY <1>2, <1>5, <1>6 DEF Run
<1>8. ASSUME NEW i \in Nat, i \in T PROVE i + 1 \in T
  <2> SUFFICES ASSUME i + 1 <= Len(t) PROVE h[Len(s) + (i + 1)] = f[i + 1]
    OBVIOUS
  <2>1. /\ i + 1 \in 1..Len(t) /\ (i + 1) - 1 = i /\ h[Len(s) + i] = f[i]
        /\ Len(s) + (i + 1) \in 1..Len(u) /\ (Len(s) + (i + 1)) - 1 = Len(s) + i
    BY <1>2, <1>8
  <2>2. u[Len(s) + (i + 1)] = t[i + 1]
    BY <1>2, <2>1
  <2>3. h[Len(s) + (i + 1)] = op(k, h[Len(s) + i], t[i + 1])
    BY <1>4, <2>1, <2>2 DEF Run
  <2>4. f[i + 1] = op(k, f[i], t[i + 1])
    BY <1>6, <2>1 DEF Run
  <2> QED BY <2>1, <2>3, <2>4
<1> HIDE DEF T
<1>9. Len(t) \in T
  BY <1>2, <1>7, <1>8, NatSet
<1> QED BY <1>1, <1>2, <1>3, <1>4, <1>6, <1>9 DEF T

(* What every step of the loop keeps, the loop keeps. *)
THEOREM FoldKeeps ==
  ASSUME NEW k, NEW base, NEW S, NEW s \in Seq(S), inv(k, 0, base),
         \A i, a : i \in 1..Len(s) /\ inv(k, i - 1, a) => inv(k, i, op(k, a, s[i]))
  PROVE  inv(k, Len(s), Fold(k, base, s))
<1>1. PICK h : Run(k, base, s, h) /\ Fold(k, base, s) = h[Len(s)]
  BY FoldRuns
<1> DEFINE T == {i \in Nat : i <= Len(s) => inv(k, i, h[i])}
<1>2. 0 \in T
  BY <1>1 DEF Run
<1>3. ASSUME NEW i \in Nat, i \in T PROVE i + 1 \in T
  <2> SUFFICES ASSUME i + 1 <= Len(s) PROVE inv(k, i + 1, h[i + 1])
    OBVIOUS
  <2>1. i + 1 \in 1..Len(s) /\ (i + 1) - 1 = i /\ inv(k, i, h[i])
    BY <1>3
  <2>2. h[i + 1] = op(k, h[i], s[i + 1])
    BY <1>1, <2>1 DEF Run
  <2>3. inv(k, i + 1, op(k, h[i], s[i + 1]))
    BY <2>1
  <2> QED BY <2>2, <2>3
<1> HIDE DEF T
<1>4. Len(s) \in T
  BY <1>2, <1>3, NatSet
<1> QED BY <1>1, <1>4 DEF T
=============================================================================
