-------------------------- MODULE UpstreamsProofs --------------------------
(***************************************************************************)
(* Lemmas about the operators the components share.                        *)
(*                                                                         *)
(* RotatorOps: each critical section of rotator.go maps a well-formed      *)
(* [pool, index] to a well-formed one, and acts on the cyclic view of the  *)
(* pool the way a queue would.                                             *)
(*                                                                         *)
(* Upstreams and PoolOps: the blacklist and the router's choice,           *)
(* snapshots, health checks and the pool's Add.  A fact about every length *)
(* of a sequence is proved from a least counterexample (LeastNat).         *)
(***************************************************************************)
EXTENDS PoolOps, TLAPS, WellFoundedInduction, SequenceTheorems, FiniteSetTheorems

(* Every non-empty set of naturals has a least element.                    *)
LEMMA LeastNat ==
    ASSUME NEW T \in SUBSET Nat, T # {}
    PROVE  \E m \in T : \A k \in T : m <= k
<1>1. PICK m \in T : \A k \in T : ~(<<k, m>> \in OpToRel(<, Nat))
  BY WFMin, NatLessThanWellFounded
<1>2. \A k \in T : m <= k
  <2> SUFFICES ASSUME NEW k \in T, k < m PROVE FALSE
    OBVIOUS
  <2>1. <<k, m>> \in OpToRel(<, Nat)
    BY DEF OpToRel
  <2> QED BY <2>1, <1>1
<1> QED BY <1>2

(* The loop of Remove stops at a position of the pool that holds addr.     *)
LEMMA FirstIndexIsIndex ==
    ASSUME NEW A, NEW p \in Seq(A), NEW a, \E i \in DOMAIN p : p[i] = a
    PROVE  FirstIndex(p, a) \in DOMAIN p /\ IsFirst(p, a, FirstIndex(p, a))
<1> DEFINE T == {i \in DOMAIN p : p[i] = a}
<1>1. T \in SUBSET Nat /\ T # {}
  OBVIOUS
<1>2. PICK m \in T : \A k \in T : m <= k
  BY <1>1, LeastNat
<1>3. IsFirst(p, a, m)
  BY <1>2 DEF IsFirst
<1>4. \E i \in DOMAIN p : IsFirst(p, a, i)
  BY <1>3
<1> QED BY <1>4 DEF FirstIndex

(* Taking out a position of the pool leaves a pool one shorter.            *)
LEMMA RemoveAtType ==
    ASSUME NEW A, NEW p \in Seq(A), NEW i \in DOMAIN p
    PROVE  /\ RemoveAt(p, i) \in Seq(A)
           /\ Len(RemoveAt(p, i)) = Len(p) - 1
           /\ \A k \in 1 .. (Len(p) - 1) :
                 RemoveAt(p, i)[k] = IF k < i THEN p[k] ELSE p[k + 1]
<1> DEFINE f == SubSeq(p, 1, i - 1)
           g == SubSeq(p, i + 1, Len(p))
<1>1. /\ f \in Seq(A) /\ Len(f) = i - 1
      /\ \A k \in 1 .. (i - 1) : f[k] = p[k]
  OBVIOUS
<1>2. /\ g \in Seq(A) /\ Len(g) = Len(p) - i
      /\ \A k \in 1 .. (Len(p) - i) : g[k] = p[k + i]
  OBVIOUS
<1> HIDE DEF f, g
<1>3. /\ f \o g \in Seq(A) /\ Len(f \o g) = Len(p) - 1
      /\ \A k \in 1 .. (Len(p) - 1) :
           (f \o g)[k] = IF k < i THEN p[k] ELSE p[k + 1]
  BY <1>1, <1>2
<1> QED BY <1>3 DEF RemoveAt, f, g

-----------------------------------------------------------------------------
(* A rotation keeps the pool and lands on a position of it.                *)
LEMMA AdvancedType ==
    ASSUME NEW A, NEW r \in RotatorState(A), InRange(r)
    PROVE  Advanced(r) \in RotatorState(A) /\ InRange(Advanced(r))
BY DEF Advanced, InRange, Empty, RotatorState

(* The index correction of Remove keeps the index in the shorter pool.     *)
LEMMA RemovedAtType ==
    ASSUME NEW A, NEW r \in RotatorState(A), InRange(r), NEW i \in DOMAIN r.pool
    PROVE  RemovedAt(r, i) \in RotatorState(A) /\ InRange(RemovedAt(r, i))
<1> DEFINE p == RemoveAt(r.pool, i)
<1>1. r.pool \in Seq(A) /\ r.index \in Nat
  BY DEF RotatorState
<1>2. p \in Seq(A) /\ Len(p) = Len(r.pool) - 1
  BY <1>1, RemoveAtType
<1>3. r.index < Len(r.pool)
  BY <1>1 DEF InRange, Empty
<1> HIDE DEF p
<1>4. RemovedAt(r, i) =
        [ pool  |-> p,
          index |-> IF p = << >> THEN 0
                    ELSE IF i - 1 < r.index THEN r.index - 1
                    ELSE IF i - 1 = r.index /\ r.index >= Len(p) THEN 0
                    ELSE r.index ]
  BY DEF RemovedAt, p
<1> QED BY <1>1, <1>2, <1>3, <1>4 DEF InRange, Empty, RotatorState

(* Remove of any address, in the pool or not, repeated or not.             *)
LEMMA RemovedType ==
    ASSUME NEW A, NEW r \in RotatorState(A), InRange(r), NEW a
    PROVE  Removed(r, a) \in RotatorState(A) /\ InRange(Removed(r, a))
<1>1. CASE \E i \in DOMAIN r.pool : r.pool[i] = a
  <2>1. FirstIndex(r.pool, a) \in DOMAIN r.pool
    BY <1>1, FirstIndexIsIndex DEF RotatorState
  <2> QED BY <2>1, <1>1, RemovedAtType DEF Removed
<1>2. CASE ~ \E i \in DOMAIN r.pool : r.pool[i] = a
  BY <1>2 DEF Removed
<1> QED BY <1>1, <1>2

(* RemoveCurrent wraps an index that fell off the end.                     *)
LEMMA RemovedCurrentType ==
    ASSUME NEW A, NEW r \in RotatorState(A), InRange(r)
    PROVE  RemovedCurrent(r) \in RotatorState(A) /\ InRange(RemovedCurrent(r))
<1>1. CASE Empty(r)
  BY <1>1 DEF RemovedCurrent
<1>2. CASE ~Empty(r)
  <2> DEFINE p == RemoveAt(r.pool, r.index + 1)
  <2>1. r.pool \in Seq(A) /\ r.index \in Nat /\ r.index + 1 \in DOMAIN r.pool
    BY <1>2 DEF RotatorState, InRange, Empty
  <2>2. p \in Seq(A) /\ Len(p) = Len(r.pool) - 1
    BY <2>1, RemoveAtType
  <2> HIDE DEF p
  <2>3. RemovedCurrent(r) =
          [pool |-> p, index |-> IF r.index >= Len(p) THEN 0 ELSE r.index]
    BY <1>2 DEF RemovedCurrent, p
  <2> QED BY <2>1, <2>2, <2>3 DEF InRange, Empty, RotatorState
<1> QED BY <1>1, <1>2

(* A new or updated rotator starts at 0.                                   *)
LEMMA NewRotatorType ==
    ASSUME NEW A, NEW p \in Seq(A)
    PROVE  NewRotator(p) \in RotatorState(A) /\ InRange(NewRotator(p))
BY DEF NewRotator, RotatorState, InRange, Empty

(* Current is an address of the pool, or the empty string.                 *)
LEMMA CurrentOfType ==
    ASSUME NEW A, NEW r \in RotatorState(A), InRange(r)
    PROVE  /\ CurrentOf(r) \in A \cup {NoAddr}
           /\ ~Empty(r) => CurrentOf(r) \in A
BY DEF CurrentOf, RotatorState, InRange, Empty

-----------------------------------------------------------------------------
(* The cyclic view, element by element.                                    *)
LEMMA CyclicViewType ==
    ASSUME NEW A, NEW r \in RotatorState(A), InRange(r)
    PROVE  /\ CyclicView(r) \in Seq(A)
           /\ Len(CyclicView(r)) = Len(r.pool)
           /\ \A k \in 1 .. Len(r.pool) :
                 CyclicView(r)[k] = IF r.index + k <= Len(r.pool)
                                    THEN r.pool[r.index + k]
                                    ELSE r.pool[r.index + k - Len(r.pool)]
<1> DEFINE n == Len(r.pool)
           x == r.index
           f == SubSeq(r.pool, x + 1, n)
           g == SubSeq(r.pool, 1, x)
<1>1. r.pool \in Seq(A) /\ x \in Nat /\ n \in Nat /\ x <= n
  BY DEF RotatorState, InRange, Empty
<1>2. /\ f \in Seq(A) /\ Len(f) = n - x
      /\ \A k \in 1 .. (n - x) : f[k] = r.pool[x + k]
  BY <1>1
<1>3. /\ g \in Seq(A) /\ Len(g) = x
      /\ \A k \in 1 .. x : g[k] = r.pool[k]
  BY <1>1
<1> HIDE DEF f, g, n, x
<1>4. /\ f \o g \in Seq(A) /\ Len(f \o g) = n
      /\ \A k \in 1 .. n : (f \o g)[k] = IF k <= n - x THEN f[k] ELSE g[k - (n - x)]
  <2>1. Len(f) + Len(g) = n
    BY <1>1, <1>2, <1>3
  <2>2. /\ f \o g \in Seq(A) /\ Len(f \o g) = Len(f) + Len(g)
        /\ \A k \in 1 .. Len(f) + Len(g) :
             (f \o g)[k] = IF k <= Len(f) THEN f[k] ELSE g[k - Len(f)]
    BY <1>2, <1>3, ConcatProperties
  <2> QED BY <1>2, <2>1, <2>2
<1>5. \A k \in 1 .. n :
         (f \o g)[k] = IF x + k <= n THEN r.pool[x + k] ELSE r.pool[x + k - n]
  BY <1>1, <1>2, <1>3, <1>4
<1> QED BY <1>4, <1>5 DEF CyclicView, f, g, n, x

(* A fresh pool is its own view.                                           *)
LEMMA CyclicViewOfNew ==
    ASSUME NEW A, NEW p \in Seq(A)
    PROVE  CyclicView(NewRotator(p)) = p
<1> DEFINE r == NewRotator(p)
           v == CyclicView(r)
<1>1. r.pool = p /\ r.index = 0
  BY DEF NewRotator
<1>2. r \in RotatorState(A) /\ InRange(r)
  BY NewRotatorType
<1> HIDE DEF r
<1>3. v \in Seq(A) /\ Len(v) = Len(p) /\ \A k \in 1 .. Len(p) : v[k] = p[k]
  BY <1>1, <1>2, CyclicViewType
<1> QED BY <1>3 DEF r

(* A rotation sends the head of the view to its back.                      *)
LEMMA CyclicViewOfAdvanced ==
    ASSUME NEW A, NEW r \in RotatorState(A), InRange(r), ~Empty(r)
    PROVE  CyclicView(Advanced(r)) = Append(Tail(CyclicView(r)), Head(CyclicView(r)))
<1> DEFINE n == Len(r.pool)
           v == CyclicView(r)
           w == CyclicView(Advanced(r))
           u == Append(Tail(v), Head(v))
<1>1. r.pool \in Seq(A) /\ r.index \in Nat /\ n \in Nat /\ r.index < n
  BY DEF RotatorState, InRange, Empty
<1>2. /\ Advanced(r).pool = r.pool
      /\ Advanced(r).index = IF r.index + 1 = n THEN 0 ELSE r.index + 1
  BY <1>1 DEF Advanced, RotatorState
<1>3. /\ v \in Seq(A) /\ Len(v) = n
      /\ \A k \in 1 .. n : v[k] = IF r.index + k <= n THEN r.pool[r.index + k]
                                  ELSE r.pool[r.index + k - n]
  BY CyclicViewType
<1>4. /\ w \in Seq(A) /\ Len(w) = n
      /\ \A k \in 1 .. n :
           w[k] = IF Advanced(r).index + k <= n THEN r.pool[Advanced(r).index + k]
                  ELSE r.pool[Advanced(r).index + k - n]
  BY <1>2, AdvancedType, CyclicViewType
<1> HIDE DEF v, w
<1>5. /\ u \in Seq(A) /\ Len(u) = n
      /\ \A k \in 1 .. n : u[k] = IF k = n THEN v[1] ELSE v[k + 1]
  BY <1>1, <1>3
<1> HIDE DEF u, n
<1>6. ASSUME NEW k \in 1 .. n PROVE w[k] = u[k]
  <2>1. CASE k = n
    <3>1. u[k] = r.pool[r.index + 1]
      BY <2>1, <1>1, <1>3, <1>5
    <3>2. CASE r.index + 1 = n
      BY <2>1, <3>1, <3>2, <1>1, <1>2, <1>4
    <3>3. CASE r.index + 1 # n
      BY <2>1, <3>1, <3>3, <1>1, <1>2, <1>4
    <3> QED BY <3>2, <3>3
  <2>2. CASE k # n
    <3>1. k + 1 \in 1 .. n /\ u[k] = v[k + 1]
      BY <2>2, <1>1, <1>5
    <3>2. v[k + 1] = IF r.index + (k + 1) <= n THEN r.pool[r.index + (k + 1)]
                     ELSE r.pool[r.index + (k + 1) - n]
      BY <3>1, <1>3
    <3>3. CASE r.index + 1 = n
      <4>1. w[k] = r.pool[k]
        BY <3>3, <1>1, <1>2, <1>4
      <4>2. r.index + (k + 1) - n = k /\ ~(r.index + (k + 1) <= n)
        BY <3>3, <1>1
      <4> QED BY <3>1, <3>2, <4>1, <4>2
    <3>4. CASE r.index + 1 # n
      <4>1. w[k] = IF (r.index + 1) + k <= n THEN r.pool[(r.index + 1) + k]
                   ELSE r.pool[(r.index + 1) + k - n]
        BY <3>4, <1>1, <1>2, <1>4
      <4>2. (r.index + 1) + k = r.index + (k + 1)
        BY <1>1
      <4> QED BY <3>1, <3>2, <4>1, <4>2, <1>1
    <3> QED BY <3>3, <3>4
  <2> QED BY <2>1, <2>2
<1>7. w = u
  BY <1>4, <1>5, <1>6
<1> QED BY <1>7 DEF u, v, w

(* Taking out position i of the pool takes one element out of the view and *)
(* keeps the order of the rest.                                            *)
LEMMA CyclicViewOfRemovedAt ==
    ASSUME NEW A, NEW r \in RotatorState(A), InRange(r), NEW i \in DOMAIN r.pool
    PROVE  \E k \in DOMAIN CyclicView(r) :
              CyclicView(RemovedAt(r, i)) = RemoveAt(CyclicView(r), k)
<1> DEFINE n == Len(r.pool)
           x == r.index
           v == CyclicView(r)
           s == RemovedAt(r, i)
           w == CyclicView(s)
           k == IF i > x THEN i - x ELSE i + n - x
           u == RemoveAt(v, k)
<1>1. /\ r.pool \in Seq(A) /\ x \in Nat /\ n \in Nat /\ x < n
      /\ i \in 1 .. n /\ k \in 1 .. n
  BY DEF RotatorState, InRange, Empty
<1>2. /\ v \in Seq(A) /\ Len(v) = n
      /\ \A j \in 1 .. n : v[j] = IF x + j <= n THEN r.pool[x + j]
                                  ELSE r.pool[x + j - n]
  BY CyclicViewType
<1>3. /\ s.pool = RemoveAt(r.pool, i)
      /\ s.pool \in Seq(A) /\ Len(s.pool) = n - 1
      /\ \A j \in 1 .. (n - 1) :
           s.pool[j] = IF j < i THEN r.pool[j] ELSE r.pool[j + 1]
  BY <1>1, RemoveAtType DEF RemovedAt
<1>4. s.index = IF n = 1 THEN 0
                ELSE IF i - 1 < x THEN x - 1
                ELSE IF i - 1 = x /\ x >= n - 1 THEN 0
                ELSE x
  <2> DEFINE q == RemoveAt(r.pool, i)
  <2>1. q \in Seq(A) /\ Len(q) = n - 1
    BY <1>3
  <2> HIDE DEF q
  <2>2. q = << >> <=> n = 1
    <3> HIDE DEF n
    <3> QED BY <1>1, <2>1, EmptySeq
  <2>3. s.index = IF q = << >> THEN 0
                  ELSE IF i - 1 < r.index THEN r.index - 1
                  ELSE IF i - 1 = r.index /\ r.index >= Len(q) THEN 0
                  ELSE r.index
    BY DEF RemovedAt, q
  <2> QED BY <1>1, <2>1, <2>2, <2>3
<1>5. s \in RotatorState(A) /\ InRange(s)
  BY RemovedAtType
<1> HIDE DEF s
<1>6. /\ w \in Seq(A) /\ Len(w) = n - 1
      /\ \A j \in 1 .. (n - 1) :
           w[j] = IF s.index + j <= n - 1 THEN s.pool[s.index + j]
                  ELSE s.pool[s.index + j - (n - 1)]
  BY <1>3, <1>5, CyclicViewType
<1>7. /\ u \in Seq(A) /\ Len(u) = n - 1
      /\ \A j \in 1 .. (n - 1) : u[j] = IF j < k THEN v[j] ELSE v[j + 1]
  <2>1. k \in DOMAIN v
    BY <1>1, <1>2
  <2>2. v \in Seq(A) /\ Len(v) = n
    BY <1>2
  <2> HIDE DEF v, k, n
  <2> QED BY <2>1, <2>2, RemoveAtType
<1> HIDE DEF v, w, u, n, x
<1>8. ASSUME NEW j \in 1 .. (n - 1) PROVE w[j] = u[j]
  <2>0. /\ j \in 1 .. n /\ j + 1 \in 1 .. n
        /\ u[j] = IF j < k THEN v[j] ELSE v[j + 1]
    BY <1>1, <1>7
  <2>a. v[j] = IF x + j <= n THEN r.pool[x + j] ELSE r.pool[x + j - n]
    BY <2>0, <1>2
  <2>b. v[j + 1] = IF x + (j + 1) <= n THEN r.pool[x + (j + 1)]
                   ELSE r.pool[x + (j + 1) - n]
    BY <2>0, <1>2
  <2>c. w[j] = IF s.index + j <= n - 1 THEN s.pool[s.index + j]
               ELSE s.pool[s.index + j - (n - 1)]
    BY <1>6
  <2>1. CASE i <= x
    <3>1. s.index = x - 1 /\ k = i + n - x
      BY <2>1, <1>1, <1>4
    <3> HIDE DEF k
    <3>2. CASE x + j <= n
      <4>1. (x - 1) + j \in 1 .. (n - 1) /\ ~((x - 1) + j < i) /\ j < k
        BY <2>0, <2>1, <3>1, <3>2, <1>1
      <4>2. ((x - 1) + j) + 1 = x + j
        BY <1>1, <2>0
      <4>3. w[j] = r.pool[x + j]
        BY <2>c, <3>1, <4>1, <4>2, <1>3
      <4> QED BY <2>0, <2>a, <3>2, <4>1, <4>3
    <3>3. CASE ~(x + j <= n)
      <4> DEFINE m == x + j - n
      <4>1. /\ m \in 1 .. (n - 1) /\ (x - 1) + j - (n - 1) = m
            /\ ~((x - 1) + j <= n - 1) /\ (m < i <=> j < k)
            /\ x + (j + 1) - n = m + 1 /\ ~(x + (j + 1) <= n)
        BY <2>0, <2>1, <3>1, <3>3, <1>1
      <4>2. w[j] = IF m < i THEN r.pool[m] ELSE r.pool[m + 1]
        BY <2>c, <3>1, <4>1, <1>3
      <4> HIDE DEF m
      <4> QED BY <2>0, <2>a, <2>b, <3>3, <4>1, <4>2 DEF m
    <3> QED BY <3>2, <3>3
  <2>2. CASE i = x + 1
    <3>1. s.index = (IF x = n - 1 THEN 0 ELSE x) /\ k = 1
      BY <2>2, <1>1, <1>4
    <3> HIDE DEF k
    <3>2. u[j] = v[j + 1]
      BY <2>0, <3>1
    <3>3. CASE x = n - 1
      <4>1. /\ s.index + j = j /\ j <= n - 1 /\ j < i
            /\ x + (j + 1) - n = j /\ ~(x + (j + 1) <= n)
        BY <2>0, <2>2, <3>1, <3>3, <1>1
      <4>2. w[j] = r.pool[j]
        BY <2>c, <4>1, <1>3
      <4> QED BY <2>b, <3>2, <4>1, <4>2
    <3>4. CASE x # n - 1 /\ x + j <= n - 1
      <4>1. /\ s.index + j = x + j /\ x + j \in 1 .. (n - 1) /\ ~(x + j < i)
            /\ x + (j + 1) = (x + j) + 1 /\ x + (j + 1) <= n
        BY <2>0, <2>2, <3>1, <3>4, <1>1
      <4>2. w[j] = r.pool[(x + j) + 1]
        BY <2>c, <3>4, <4>1, <1>3
      <4> QED BY <2>b, <3>2, <4>1, <4>2
    <3>5. CASE x # n - 1 /\ ~(x + j <= n - 1)
      <4> DEFINE m == x + j - (n - 1)
      <4>1. /\ s.index = x /\ m \in 1 .. (n - 1) /\ m < i
            /\ x + (j + 1) - n = m /\ ~(x + (j + 1) <= n)
        BY <2>0, <2>2, <3>1, <3>5, <1>1
      <4>2. w[j] = r.pool[m]
        BY <2>c, <3>5, <4>1, <1>3
      <4> QED BY <2>b, <3>2, <4>1, <4>2
    <3> QED BY <3>3, <3>4, <3>5
  <2>3. CASE i > x + 1
    <3>1. s.index = x /\ k = i - x
      BY <2>3, <1>1, <1>4
    <3> HIDE DEF k
    <3>2. CASE x + j <= n - 1
      <4>1. /\ x + j \in 1 .. (n - 1) /\ (x + j < i <=> j < k)
            /\ x + (j + 1) = (x + j) + 1 /\ x + (j + 1) <= n /\ x + j <= n
        BY <2>0, <2>3, <3>1, <3>2, <1>1
      <4>2. w[j] = IF x + j < i THEN r.pool[x + j] ELSE r.pool[(x + j) + 1]
        BY <2>c, <3>1, <3>2, <4>1, <1>3
      <4> QED BY <2>0, <2>a, <2>b, <4>1, <4>2
    <3>3. CASE ~(x + j <= n - 1)
      <4> DEFINE m == x + j - (n - 1)
      <4>1. /\ m \in 1 .. (n - 1) /\ m < i /\ ~(j < k)
            /\ x + (j + 1) - n = m /\ ~(x + (j + 1) <= n)
        BY <2>0, <2>3, <3>1, <3>3, <1>1
      <4>2. w[j] = r.pool[m]
        BY <2>c, <3>1, <3>3, <4>1, <1>3
      <4> QED BY <2>0, <2>b, <4>1, <4>2
    <3> QED BY <3>2, <3>3
  <2> QED BY <2>1, <2>2, <2>3, <1>1
<1>9. w = u
  BY <1>6, <1>7, <1>8
<1>10. k \in DOMAIN v
  BY <1>1, <1>2
<1> QED BY <1>9, <1>10 DEF u, v, w, s

(* RemoveCurrent is Remove at the current position.                        *)
LEMMA RemovedCurrentIsRemovedAt ==
    ASSUME NEW A, NEW r \in RotatorState(A), InRange(r), ~Empty(r)
    PROVE  /\ r.index + 1 \in DOMAIN r.pool
           /\ RemovedCurrent(r) = RemovedAt(r, r.index + 1)
<1> DEFINE p == RemoveAt(r.pool, r.index + 1)
<1>1. r.pool \in Seq(A) /\ r.index \in Nat /\ r.index + 1 \in DOMAIN r.pool
  BY DEF RotatorState, InRange, Empty
<1>2. p \in Seq(A) /\ Len(p) = Len(r.pool) - 1
  BY <1>1, RemoveAtType
<1>3. r.index < Len(r.pool)
  BY <1>1
<1> HIDE DEF p
<1>4. /\ RemovedCurrent(r) =
           [pool |-> p, index |-> IF r.index >= Len(p) THEN 0 ELSE r.index]
      /\ RemovedAt(r, r.index + 1) =
           [ pool  |-> p,
             index |-> IF p = << >> THEN 0
                       ELSE IF (r.index + 1) - 1 < r.index THEN r.index - 1
                       ELSE IF (r.index + 1) - 1 = r.index /\ r.index >= Len(p)
                            THEN 0
                       ELSE r.index ]
  BY DEF RemovedCurrent, RemovedAt, p
<1>5. p = << >> => Len(p) = 0
  OBVIOUS
<1> QED BY <1>1, <1>2, <1>3, <1>4, <1>5

(* No operation but Update brings an address into the rotator.             *)
LEMMA RotatorShrinks ==
    ASSUME NEW A, NEW r \in RotatorState(A), InRange(r),
           NEW t, t = Advanced(r) \/ t = RemovedCurrent(r) \/ \E a : t = Removed(r, a)
    PROVE  \A i \in DOMAIN t.pool : \E j \in DOMAIN r.pool : t.pool[i] = r.pool[j]
<1>0. r.pool \in Seq(A)
  BY DEF RotatorState
<1>1. ASSUME NEW k \in DOMAIN r.pool, t = RemovedAt(r, k)
      PROVE  \A i \in DOMAIN t.pool : \E j \in DOMAIN r.pool : t.pool[i] = r.pool[j]
  <2> DEFINE p == RemoveAt(r.pool, k)
  <2>1. t.pool = p
    BY <1>1 DEF RemovedAt
  <2>2. /\ p \in Seq(A) /\ Len(p) = Len(r.pool) - 1
        /\ \A i \in 1 .. (Len(r.pool) - 1) : p[i] = IF i < k THEN r.pool[i] ELSE r.pool[i + 1]
    BY <1>0, RemoveAtType
  <2> HIDE DEF p
  <2>3. ASSUME NEW i \in DOMAIN p PROVE \E j \in DOMAIN r.pool : p[i] = r.pool[j]
    <3>1. i \in 1 .. (Len(r.pool) - 1) /\ i \in DOMAIN r.pool /\ i + 1 \in DOMAIN r.pool
      BY <1>0, <2>2
    <3> QED BY <2>2, <3>1
  <2> QED BY <2>1, <2>3
<1>2. CASE t = Advanced(r)
  <2>1. t.pool = r.pool
    BY <1>2 DEF Advanced, RotatorState
  <2> QED BY <2>1
<1>3. CASE t = RemovedCurrent(r)
  <2>1. CASE Empty(r)
    BY <1>3, <2>1 DEF RemovedCurrent
  <2>2. CASE ~Empty(r)
    BY <1>1, <1>3, <2>2, RemovedCurrentIsRemovedAt
  <2> QED BY <2>1, <2>2
<1>4. ASSUME NEW a, t = Removed(r, a)
      PROVE  \A i \in DOMAIN t.pool : \E j \in DOMAIN r.pool : t.pool[i] = r.pool[j]
  <2>1. CASE \E i \in DOMAIN r.pool : r.pool[i] = a
    <3>1. FirstIndex(r.pool, a) \in DOMAIN r.pool
      BY <1>0, <2>1, FirstIndexIsIndex
    <3> QED BY <1>1, <1>4, <2>1, <3>1 DEF Removed
  <2>2. CASE ~ \E i \in DOMAIN r.pool : r.pool[i] = a
    BY <1>4, <2>2 DEF Removed
  <2> QED BY <2>1, <2>2
<1> QED BY <1>2, <1>3, <1>4

-----------------------------------------------------------------------------
(* g satisfies the recursion of Kept up to n.                              *)
KeptEq(s, S, n, g) ==
    g = [i \in 0 .. n |-> IF i = 0 THEN << >>
            ELSE IF s[i] \in S THEN Append(g[i - 1], s[i]) ELSE g[i - 1]]

(* The recursion of Kept has a solution for every length.                  *)
LEMMA KeptExists ==
    ASSUME NEW s, NEW S, NEW n \in Nat
    PROVE  \E g : KeptEq(s, S, n, g)
<1> DEFINE T == {k \in Nat : ~ \E g : KeptEq(s, S, k, g)}
<1> SUFFICES ASSUME T # {} PROVE FALSE
  OBVIOUS
<1>1. PICK m \in T : \A k \in T : m <= k
  BY LeastNat
<1>2. m # 0
  <2> DEFINE g == [i \in 0 .. 0 |-> << >>]
  <2>1. KeptEq(s, S, 0, g)
    BY DEF KeptEq
  <2> QED BY <2>1
<1>3. m - 1 \in Nat /\ m - 1 \notin T
  BY <1>1, <1>2
<1>4. PICK h : KeptEq(s, S, m - 1, h)
  BY <1>3
<1> DEFINE g == [i \in 0 .. m |-> IF i < m THEN h[i]
                   ELSE IF s[i] \in S THEN Append(h[i - 1], s[i]) ELSE h[i - 1]]
<1>5. KeptEq(s, S, m, g)
  <2> DEFINE e(i) == IF i = 0 THEN << >>
                     ELSE IF s[i] \in S THEN Append(g[i - 1], s[i]) ELSE g[i - 1]
             d(i) == IF i = 0 THEN << >>
                     ELSE IF s[i] \in S THEN Append(h[i - 1], s[i]) ELSE h[i - 1]
  <2>0. \A i \in 0 .. (m - 1) : h[i] = d(i)
    BY <1>4 DEF KeptEq
  <2>1. ASSUME NEW i \in 0 .. m PROVE g[i] = e(i)
    <3>1. CASE i < m
      <4>1. g[i] = h[i]
        BY <3>1
      <4>2. h[i] = d(i)
        BY <2>0, <3>1
      <4>3. i # 0 => g[i - 1] = h[i - 1]
        BY <3>1
      <4> QED BY <4>1, <4>2, <4>3
    <3>2. CASE i = m
      BY <3>2, <1>2
    <3> QED BY <3>1, <3>2
  <2>2. g = [i \in 0 .. m |-> e(i)]
    BY <2>1
  <2> QED BY <2>2 DEF KeptEq
<1> QED BY <1>1, <1>5

(* What is kept is in the sequence and in the set.                         *)
LEMMA KeptType ==
    ASSUME NEW A, NEW s \in Seq(A), NEW S
    PROVE  Kept(s, S) \in Seq({s[i] : i \in DOMAIN s} \cap S)
<1> DEFINE f == CHOOSE g : KeptEq(s, S, Len(s), g)
           B == {s[i] : i \in DOMAIN s} \cap S
<1>1. KeptEq(s, S, Len(s), f)
  BY KeptExists
<1>2. Kept(s, S) = f[Len(s)]
  BY DEF Kept, KeptEq
<1> HIDE DEF f
<1>3. \A i \in 0 .. Len(s) :
        f[i] = IF i = 0 THEN << >>
               ELSE IF s[i] \in S THEN Append(f[i - 1], s[i]) ELSE f[i - 1]
  BY <1>1 DEF KeptEq
<1> DEFINE T == {k \in 0 .. Len(s) : f[k] \notin Seq(B)}
<1>4. T = {}
  <2> SUFFICES ASSUME T # {} PROVE FALSE
    OBVIOUS
  <2>0. T \in SUBSET Nat
    OBVIOUS
  <2>1. PICK m \in T : \A k \in T : m <= k
    <3> HIDE DEF T
    <3> QED BY <2>0, LeastNat
  <2>2. m # 0
    <3>1. f[0] = << >>
      BY <1>3
    <3>2. << >> \in Seq(B)
      BY EmptySeq
    <3> QED BY <3>1, <3>2
  <2>3. m - 1 \in 0 .. Len(s) /\ f[m - 1] \in Seq(B)
    BY <2>1, <2>2
  <2>4. s[m] \in S => s[m] \in B
    BY <2>2
  <2>5. f[m] = IF s[m] \in S THEN Append(f[m - 1], s[m]) ELSE f[m - 1]
    BY <1>3, <2>2
  <2>6. f[m] \in Seq(B)
    <3> HIDE DEF B
    <3> QED BY <2>3, <2>4, <2>5
  <2> QED BY <2>6
<1> QED BY <1>2, <1>4

(* Snapshots and health checks return servers of the pool; a snapshot has  *)
(* none with a dead address.                                               *)
LEMMA SnapshotAliveType ==
    ASSUME NEW s \in Seq(Server), NEW d
    PROVE  /\ SnapshotAlive(s, d) \in Seq(Server)
           /\ \A i \in DOMAIN SnapshotAlive(s, d) :
                 /\ AddrOf[SnapshotAlive(s, d)[i]] \notin d
                 /\ Contains(s, SnapshotAlive(s, d)[i])
<1> DEFINE S == {x \in Server : AddrOf[x] \notin d}
           t == SnapshotAlive(s, d)
<1>1. t \in Seq({s[i] : i \in DOMAIN s} \cap S)
  BY KeptType DEF SnapshotAlive
<1> HIDE DEF t
<1>2. t \in Seq(Server) /\ \A i \in DOMAIN t : AddrOf[t[i]] \notin d
  BY <1>1
<1>3. \A i \in DOMAIN t : \E j \in DOMAIN s : s[j] = t[i]
  BY <1>1
<1> QED BY <1>2, <1>3 DEF Contains, t

LEMMA ReachableType ==
    ASSUME NEW s \in Seq(Server), NEW up
    PROVE  Reachable(s, up) \in Seq(Server)
<1> DEFINE t == Reachable(s, up)
<1>1. t \in Seq({s[i] : i \in DOMAIN s} \cap up)
  BY KeptType DEF Reachable
<1> HIDE DEF t
<1>2. t \in Seq(Server)
  BY <1>1
<1> QED BY <1>2 DEF t

(* Add keeps what was there.                                               *)
LEMMA PoolAddType ==
    ASSUME NEW s \in Seq(Server), NEW bl, NEW a \in Server
    PROVE  /\ PoolAdd(s, bl, a) \in Seq(Server)
           /\ \A x : Contains(s, x) => Contains(PoolAdd(s, bl, a), x)
           /\ \A x : HasAddr(s, x) => HasAddr(PoolAdd(s, bl, a), x)
BY DEF PoolAdd, Contains, HasAddr

(* The addresses of the servers of a pool, one for each.                   *)
LEMMA SSAddressesType ==
    ASSUME NEW s \in Seq(Server)
    PROVE  /\ SSAddresses(s) \in Seq(Addr)
           /\ DOMAIN SSAddresses(s) = DOMAIN s
           /\ \A i \in DOMAIN s : SSAddresses(s)[i] = AddrOf[s[i]]
           /\ \A i \in DOMAIN s : HasAddr(s, SSAddresses(s)[i])
<1>1. AddrOf \in [Server -> Addr]
  BY PoolAssumption
<1>2. /\ DOMAIN SSAddresses(s) = 1 .. Len(s)
      /\ \A i \in 1 .. Len(s) : SSAddresses(s)[i] = AddrOf[s[i]] /\ s[i] \in Server
  BY DEF SSAddresses
<1>3. SSAddresses(s) \in [1 .. Len(s) -> Addr]
  BY <1>1, <1>2 DEF SSAddresses
<1>4. SSAddresses(s) \in Seq(Addr)
  BY <1>3
<1> QED BY <1>2, <1>4 DEF HasAddr

(* The router picks one of its proxies, or none.                           *)
LEMMA SelectBestType ==
    ASSUME NEW p \in Seq(Addr), NEW alive, NEW bl
    PROVE  SelectBest(p, alive, bl) \in Addr \cup {NoAddr}
<1> DEFINE I == {i \in DOMAIN p : p[i] \in alive /\ ~IsBlacklisted(bl, p[i])}
           m == CHOOSE i \in I : \A j \in I : i <= j
<1>1. CASE I = {}
  BY <1>1 DEF SelectBest
<1>2. CASE I # {}
  <2>1. I \in SUBSET Nat
    OBVIOUS
  <2>2. \E i \in I : \A j \in I : i <= j
    <3> HIDE DEF I
    <3> QED BY <1>2, <2>1, LeastNat
  <2>3. m \in I
    <3> HIDE DEF I
    <3> QED BY <2>2
  <2>4. p[m] \in Addr
    <3> HIDE DEF m
    <3> QED BY <2>3
  <2> QED BY <1>2, <2>4 DEF SelectBest
<1> QED BY <1>1, <1>2

(* Blacklisting adds an IP, or nothing for a host name.                    *)
LEMMA BlacklistingType ==
    ASSUME IPOf \in [Addr -> IP \cup {NoIP}], NEW bl \in SUBSET IP, NEW a \in Addr
    PROVE  Blacklisting(bl, a) \in SUBSET IP
BY DEF Blacklisting

NoDuplicates(s) == \A i, j \in DOMAIN s : s[i] = s[j] => i = j

(* A sequence without duplicates has none after a part of it is kept or a  *)
(* server is added: a pool holds every server once.                        *)
LEMMA AppendNoDuplicates ==
    ASSUME NEW A, NEW s \in Seq(A), NEW a \in A, NoDuplicates(s), \A i \in 1 .. Len(s) : s[i] # a
    PROVE  NoDuplicates(Append(s, a))
<1> DEFINE q == Append(s, a)
<1>1. /\ DOMAIN q = 1 .. (Len(s) + 1) /\ q[Len(s) + 1] = a
      /\ \A i \in 1 .. Len(s) : q[i] = s[i]
      /\ Len(s) \in Nat
  OBVIOUS
<1> HIDE DEF q
<1>2. ASSUME NEW i \in DOMAIN q, NEW j \in DOMAIN q, q[i] = q[j]
      PROVE  i = j
  <2>1. CASE i \in 1 .. Len(s) /\ j \in 1 .. Len(s)
    BY <1>1, <1>2, <2>1 DEF NoDuplicates
  <2>2. CASE i = Len(s) + 1 \/ j = Len(s) + 1
    BY <1>1, <1>2, <2>2
  <2> QED BY <1>1, <2>1, <2>2
<1>3. NoDuplicates(q)
  BY <1>2 DEF NoDuplicates
<1> QED BY <1>3 DEF q

LEMMA KeptNoDuplicates ==
    ASSUME NEW A, NEW s \in Seq(A), NEW S, NoDuplicates(s)
    PROVE  NoDuplicates(Kept(s, S))
<1> DEFINE f == CHOOSE g : KeptEq(s, S, Len(s), g)
<1>0. Len(s) \in Nat
  OBVIOUS
<1>1. KeptEq(s, S, Len(s), f)
  BY <1>0, KeptExists
<1>2. Kept(s, S) = f[Len(s)]
  BY DEF Kept, KeptEq
<1> HIDE DEF f
<1>3. \A i \in 0 .. Len(s) :
        f[i] = IF i = 0 THEN << >>
               ELSE IF s[i] \in S THEN Append(f[i - 1], s[i]) ELSE f[i - 1]
  BY <1>1 DEF KeptEq
<1> DEFINE Good(k) == /\ f[k] \in Seq(A) /\ NoDuplicates(f[k])
                      /\ \A i \in 1 .. Len(f[k]) : \E j \in 1 .. k : f[k][i] = s[j]
           T == {k \in 0 .. Len(s) : ~Good(k)}
<1>4. T = {}
  <2> SUFFICES ASSUME T # {} PROVE FALSE
    OBVIOUS
  <2>0. T \in SUBSET Nat
    OBVIOUS
  <2>1. PICK m \in T : \A k \in T : m <= k
    <3> HIDE DEF T
    <3> QED BY <2>0, LeastNat
  <2>2. m # 0
    <3>1. f[0] = << >>
      BY <1>3
    <3>2. << >> \in Seq(A) /\ NoDuplicates(<< >>) /\ Len(<< >>) = 0
      BY EmptySeq DEF NoDuplicates
    <3>3. Good(0)
      BY <3>1, <3>2
    <3> QED BY <3>3
  <2>3. m \in 1 .. Len(s) /\ m - 1 \in 0 .. Len(s) /\ Good(m - 1)
    BY <2>1, <2>2
  <2>4. f[m] = IF s[m] \in S THEN Append(f[m - 1], s[m]) ELSE f[m - 1]
    BY <1>3, <2>2
  <2> DEFINE t == f[m - 1]
  <2>5. /\ t \in Seq(A) /\ NoDuplicates(t)
        /\ \A i \in 1 .. Len(t) : \E j \in 1 .. (m - 1) : t[i] = s[j]
    BY <2>3
  <2>6. s[m] \in A /\ \A j \in 1 .. (m - 1) : s[j] # s[m]
    BY <2>3 DEF NoDuplicates
  <2> HIDE DEF t
  <2>7. CASE f[m] = t
    <3>1. \A i \in 1 .. Len(t) : \E j \in 1 .. m : t[i] = s[j]
      BY <2>3, <2>5
    <3>2. Good(m)
      BY <2>5, <2>7, <3>1
    <3> QED BY <3>2
  <2>8. CASE f[m] = Append(t, s[m])
    <3> DEFINE q == Append(t, s[m])
    <3>1. q \in Seq(A) /\ Len(q) = Len(t) + 1 /\ q[Len(t) + 1] = s[m]
            /\ \A i \in 1 .. Len(t) : q[i] = t[i]
      BY <2>5, <2>6
    <3>2. \A i \in 1 .. Len(t) : t[i] # s[m]
      BY <2>5, <2>6
    <3>3. NoDuplicates(q)
      BY <2>5, <2>6, <3>2, AppendNoDuplicates
    <3> HIDE DEF q
    <3>4. \A i \in 1 .. Len(q) : \E j \in 1 .. m : q[i] = s[j]
      BY <2>3, <2>5, <3>1
    <3>5. f[m] = q
      BY <2>8 DEF q
    <3>6. Good(m)
      BY <3>1, <3>3, <3>4, <3>5
    <3> QED BY <3>6
  <2> QED BY <2>4, <2>7, <2>8 DEF t
<1>5. Len(s) \in 0 .. Len(s)
  OBVIOUS
<1>6. Good(Len(s))
  BY <1>4, <1>5
<1> QED BY <1>2, <1>6

LEMMA PoolAddNoDuplicates ==
    ASSUME NEW s \in Seq(Server), NEW bl, NEW a \in Server, NoDuplicates(s)
    PROVE  NoDuplicates(PoolAdd(s, bl, a))
<1>1. CASE PoolAdd(s, bl, a) = s
  BY <1>1
<1>2. CASE PoolAdd(s, bl, a) = Append(s, a) /\ ~Contains(s, a)
  <2>1. \A i \in 1 .. Len(s) : s[i] # a
    BY <1>2 DEF Contains
  <2>2. NoDuplicates(Append(s, a))
    BY <2>1, AppendNoDuplicates
  <2> QED BY <1>2, <2>2
<1> QED BY <1>1, <1>2 DEF PoolAdd

=============================================================================
