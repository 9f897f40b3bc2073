--------------------------- MODULE StructMetaProofs ---------------------------
(***************************************************************************)
(* Proofs about StructMeta: what every class that a statement makes has,   *)
(* from the fields, settings and layouts of its bases.                     *)
(***************************************************************************)
EXTENDS StructMeta, FiniteSetTheorems, SequenceTheorems, TLAPS

-----------------------------------------------------------------------------
(* Picking the items of a sequence.                                         *)

UpTo(P, i) == {j \in P : j <= i}
Nth(P, k) == CHOOSE i \in P : Cardinality(UpTo(P, i)) = k

(* e lists P in ascending order.                                            *)
Lists(e, m, P) ==
    /\ m \in Nat
    /\ e \in [1..m -> P]
    /\ \A j, k \in 1..m : j < k => e[j] < e[k]
    /\ \A i \in P : \E k \in 1..m : e[k] = i

LEMMA UpToGrows ==
    ASSUME NEW P, P \subseteq Int, IsFiniteSet(P), NEW i \in P
    PROVE  /\ Cardinality(UpTo(P, i)) \in 1..Cardinality(P)
           /\ \A j \in P : i < j => Cardinality(UpTo(P, i)) < Cardinality(UpTo(P, j))
<1>1. \A j \in P : /\ IsFiniteSet(UpTo(P, j))
                   /\ Cardinality(UpTo(P, j)) \in Nat
                   /\ Cardinality(UpTo(P, j)) <= Cardinality(P)
  <2> TAKE j \in P
  <2>1. UpTo(P, j) \in SUBSET P
    BY DEF UpTo
  <2>2. IsFiniteSet(UpTo(P, j)) /\ Cardinality(UpTo(P, j)) <= Cardinality(P)
    BY <2>1, FS_Subset
  <2> QED BY <2>2, FS_CardinalityType
<1>2. UpTo(P, i) # {}
  BY DEF UpTo
<1>3. Cardinality(UpTo(P, i)) # 0
  BY <1>1, <1>2, FS_EmptySet
<1>4. ASSUME NEW j \in P, i < j
      PROVE  Cardinality(UpTo(P, i)) < Cardinality(UpTo(P, j))
  <2>1. j <= j /\ ~(j <= i) /\ \A k \in P : k <= i => k <= j
    BY <1>4
  <2>2. UpTo(P, i) \subseteq UpTo(P, j)
    BY <2>1 DEF UpTo
  <2>3. j \in UpTo(P, j) /\ j \notin UpTo(P, i)
    BY <2>1 DEF UpTo
  <2>4. /\ Cardinality(UpTo(P, i)) <= Cardinality(UpTo(P, j))
        /\ Cardinality(UpTo(P, j)) = Cardinality(UpTo(P, i)) => UpTo(P, j) = UpTo(P, i)
    BY <1>1, <2>2, FS_Subset
  <2> QED BY <1>1, <2>3, <2>4
<1>5. Cardinality(P) \in Nat
  BY FS_CardinalityType
<1> QED BY <1>1, <1>3, <1>4, <1>5

(* Every rank is taken.                                                     *)
LEMMA NthIs ==
    ASSUME NEW P, P \subseteq Int, IsFiniteSet(P)
    PROVE  /\ Cardinality(P) \in Nat
           /\ \A k \in 1..Cardinality(P) :
                 Nth(P, k) \in P /\ Cardinality(UpTo(P, Nth(P, k))) = k
           /\ \A i \in P : \A k : Cardinality(UpTo(P, i)) = k => Nth(P, k) = i
<1>1. Cardinality(P) \in Nat
  BY FS_CardinalityType
<1> DEFINE n == Cardinality(P)
           rank == [i \in P |-> Cardinality(UpTo(P, i))]
<1>2. \A i, j \in P : rank[i] = rank[j] => i = j
  <2> SUFFICES ASSUME NEW i \in P, NEW j \in P, i # j PROVE rank[i] # rank[j]
    OBVIOUS
  <2>1. i < j \/ j < i
    OBVIOUS
  <2>2. rank[i] \in 1..n /\ rank[j] \in 1..n
    BY UpToGrows
  <2>3. rank[i] < rank[j] \/ rank[j] < rank[i]
    BY <2>1, UpToGrows
  <2> QED BY <1>1, <2>2, <2>3
<1>3. rank \in [P -> 1..n]
  BY UpToGrows
<1>4. rank \in Injection(P, 1..n)
  BY <1>2, <1>3 DEF Injection, IsInjective
<1>5. IsFiniteSet(1..n) /\ Cardinality(1..n) = n
  BY <1>1, FS_Interval
<1>6. rank \in Surjection(P, 1..n)
  BY <1>4, <1>5, FS_Injection
<1>7. \A k \in 1..n : \E i \in P : rank[i] = k
  BY <1>6 DEF Surjection
<1>8. \A k \in 1..n : \E i \in P : Cardinality(UpTo(P, i)) = k
  BY <1>7
<1>9. \A k \in 1..n : Nth(P, k) \in P /\ Cardinality(UpTo(P, Nth(P, k))) = k
  BY <1>8 DEF Nth
<1>10. ASSUME NEW i \in P, NEW k, Cardinality(UpTo(P, i)) = k PROVE Nth(P, k) = i
  <2>1. Nth(P, k) \in P /\ Cardinality(UpTo(P, Nth(P, k))) = k
    BY <1>10 DEF Nth
  <2> QED BY <1>2, <1>10, <2>1
<1> QED BY <1>1, <1>9, <1>10

LEMMA NthLists ==
    ASSUME NEW P, P \subseteq Int, IsFiniteSet(P)
    PROVE  Lists([k \in 1..Cardinality(P) |-> Nth(P, k)], Cardinality(P), P)
<1> DEFINE n == Cardinality(P)
<1>1. n \in Nat /\ \A k \in 1..n : Nth(P, k) \in P /\ Cardinality(UpTo(P, Nth(P, k))) = k
  BY NthIs
<1>2. ASSUME NEW j \in 1..n, NEW k \in 1..n, j < k PROVE Nth(P, j) < Nth(P, k)
  <2>1. Nth(P, k) < Nth(P, j) => k < j
    BY <1>1, UpToGrows
  <2>2. Nth(P, k) # Nth(P, j)
    BY <1>1, <1>2
  <2>3. Nth(P, k) \in Int /\ Nth(P, j) \in Int
    BY <1>1
  <2> QED BY <1>2, <2>1, <2>2, <2>3
<1>3. ASSUME NEW i \in P PROVE \E k \in 1..n : Nth(P, k) = i
  BY NthIs, UpToGrows
<1> DEFINE e == [k \in 1..n |-> Nth(P, k)]
<1>4. e \in [1..n -> P]
  BY <1>1
<1>5. \A j, k \in 1..n : j < k => e[j] < e[k]
  BY <1>2
<1>6. \A i \in P : \E k \in 1..n : e[k] = i
  BY <1>3
<1> QED BY <1>1, <1>4, <1>5, <1>6 DEF Lists

(* There is one ascending list of a set.                                    *)
LEMMA ListsAlike ==
    ASSUME NEW P, P \subseteq Int, NEW e, NEW m, Lists(e, m, P)
    PROVE  /\ IsFiniteSet(P) /\ Cardinality(P) = m
           /\ \A k \in 1..m : e[k] = Nth(P, k)
<1>1. m \in Nat /\ e \in [1..m -> P]
  BY DEF Lists
<1>2. ASSUME NEW k \in 0..m, NEW Q, Q \subseteq P,
             \A j \in 1..m : e[j] \in Q <=> j <= k
      PROVE  IsFiniteSet(Q) /\ Cardinality(Q) = k
  <2> DEFINE f == [j \in 1..k |-> e[j]]
  <2>1. f \in [1..k -> Q]
    BY <1>1, <1>2
  <2>2. \A i, j \in 1..k : f[i] = f[j] => i = j
    <3> SUFFICES ASSUME NEW i \in 1..k, NEW j \in 1..k, i # j PROVE e[i] # e[j]
      OBVIOUS
    <3>1. i \in 1..m /\ j \in 1..m /\ (i < j \/ j < i)
      BY <1>1
    <3>2. e[i] < e[j] \/ e[j] < e[i]
      BY <3>1 DEF Lists
    <3>3. e[i] \in Int /\ e[j] \in Int
      BY <1>1, <3>1
    <3> QED BY <3>2, <3>3
  <2>3. \A q \in Q : \E j \in 1..k : f[j] = q
    <3> TAKE q \in Q
    <3>1. PICK j \in 1..m : e[j] = q
      BY <1>2 DEF Lists
    <3>2. j <= k
      BY <1>2, <3>1
    <3> QED BY <3>1, <3>2
  <2>4. f \in Bijection(1..k, Q)
    BY <2>1, <2>2, <2>3 DEF Bijection, Injection, Surjection, IsInjective
  <2>5. ExistsBijection(1..k, Q)
    BY <2>4 DEF ExistsBijection
  <2>6. IsFiniteSet(1..k) /\ Cardinality(1..k) = k
    BY <1>1, FS_Interval
  <2> QED BY <2>5, <2>6, FS_Bijection
<1>3. IsFiniteSet(P) /\ Cardinality(P) = m
  BY <1>1, <1>2
<1>4. ASSUME NEW k \in 1..m PROVE e[k] = Nth(P, k)
  <2>1. \A j \in 1..m : e[j] \in UpTo(P, e[k]) <=> j <= k
    <3> TAKE j \in 1..m
    <3>1. e[j] \in P /\ e[k] \in P /\ e[j] \in Int /\ e[k] \in Int
      BY <1>1
    <3>2. (j < k => e[j] < e[k]) /\ (k < j => e[k] < e[j])
      BY DEF Lists
    <3> QED BY <1>1, <3>1, <3>2 DEF UpTo
  <2>2. UpTo(P, e[k]) \subseteq P /\ k \in 0..m
    BY <1>1 DEF UpTo
  <2>3. Cardinality(UpTo(P, e[k])) = k
    BY <1>2, <2>1, <2>2
  <2> QED BY <1>1, <1>3, <2>3, NthIs
<1> QED BY <1>3, <1>4

-----------------------------------------------------------------------------
(* Sequences that are picked from others.                                   *)

Places(seq, S) == {i \in DOMAIN seq : seq[i] \in S}

IsSeq(seq) == Len(seq) \in Nat /\ seq = [i \in 1..Len(seq) |-> seq[i]]

LEMMA PlacesAre ==
    ASSUME NEW seq, IsSeq(seq), NEW S
    PROVE  /\ Places(seq, S) \subseteq 1..Len(seq)
           /\ Places(seq, S) \subseteq Int
           /\ IsFiniteSet(Places(seq, S))
<1>1. DOMAIN seq = 1..Len(seq)
  BY DEF IsSeq
<1>2. Places(seq, S) \in SUBSET (1..Len(seq))
  BY <1>1 DEF Places
<1>3. IsFiniteSet(1..Len(seq))
  <2>1. Len(seq) \in Int /\ 1 \in Int
    BY DEF IsSeq
  <2> QED BY <2>1, FS_Interval
<1> QED BY <1>2, <1>3, FS_Subset

(* What is picked comes from ascending places, all of those there are.      *)
LEMMA PickedLists ==
    ASSUME NEW seq, IsSeq(seq), NEW S
    PROVE  /\ IsSeq(Picked(seq, S))
           /\ \E e : /\ Lists(e, Len(Picked(seq, S)), Places(seq, S))
                     /\ \A k \in 1..Len(Picked(seq, S)) : Picked(seq, S)[k] = seq[e[k]]
<1> DEFINE P == Places(seq, S)
           n == Cardinality(P)
           e == [k \in 1..n |-> Nth(P, k)]
<1>1. Lists(e, n, P)
  BY PlacesAre, NthLists
<1>2. Picked(seq, S) = [k \in 1..n |-> seq[Nth(P, k)]]
  BY DEF Picked, Nth, UpTo, Places
<1>3. n \in Nat
  BY <1>1 DEF Lists
<1> HIDE DEF n, P
<1>4. Len(Picked(seq, S)) = n
  BY <1>2, <1>3
<1>5. \A k \in 1..n : Picked(seq, S)[k] = seq[e[k]]
  BY <1>2
<1>6. IsSeq(Picked(seq, S))
  BY <1>2, <1>3, <1>4 DEF IsSeq
<1> HIDE DEF e
<1> QED BY <1>1, <1>4, <1>5, <1>6 DEF P

(* And that is all there is to it.                                          *)
LEMMA PickedIs ==
    ASSUME NEW seq, IsSeq(seq), NEW S, NEW t, IsSeq(t),
           NEW e, Lists(e, Len(t), Places(seq, S)), \A k \in 1..Len(t) : t[k] = seq[e[k]]
    PROVE  Picked(seq, S) = t
<1> DEFINE P == Places(seq, S)
           n == Cardinality(P)
<1>1. n = Len(t) /\ \A k \in 1..Len(t) : e[k] = Nth(P, k)
  BY PlacesAre, ListsAlike
<1>2. Picked(seq, S) = [k \in 1..n |-> seq[Nth(P, k)]]
  BY DEF Picked, Nth, UpTo, Places
<1> HIDE DEF n, P
<1>3. t = [k \in 1..n |-> t[k]]
  BY <1>1 DEF IsSeq
<1>4. \A k \in 1..n : t[k] = seq[Nth(P, k)]
  BY <1>1
<1> QED BY <1>2, <1>3, <1>4

(* For sequences over some set.                                             *)
LEMMA SeqIs ==
    ASSUME NEW X, NEW seq \in Seq(X)
    PROVE  /\ IsSeq(seq) /\ DOMAIN seq = 1..Len(seq) /\ Len(seq) \in Nat
           /\ \A i \in 1..Len(seq) : seq[i] \in X
BY LenProperties DEF IsSeq

LEMMA PickedHas ==
    ASSUME NEW X, NEW seq \in Seq(X), NEW S
    PROVE  /\ Picked(seq, S) \in Seq(X)
           /\ ToSet(Picked(seq, S)) = ToSet(seq) \cap S
           /\ Len(Picked(seq, S)) = Cardinality(Places(seq, S))
<1> DEFINE t == Picked(seq, S)
<1>1. IsSeq(seq) /\ DOMAIN seq = 1..Len(seq) /\ Len(seq) \in Nat
      /\ \A i \in 1..Len(seq) : seq[i] \in X
  BY SeqIs
<1>2. PICK e : /\ Lists(e, Len(t), Places(seq, S))
               /\ \A k \in 1..Len(t) : t[k] = seq[e[k]]
  BY <1>1, PickedLists
<1>3. IsSeq(t)
  BY <1>1, PickedLists
<1>4. \A i : i \in Places(seq, S) <=> i \in 1..Len(seq) /\ seq[i] \in S
  BY <1>1 DEF Places
<1>5. \A k \in 1..Len(t) : e[k] \in Places(seq, S)
  BY <1>2 DEF Lists
<1> HIDE DEF t
<1>6. DOMAIN t = 1..Len(t) /\ Len(t) \in Nat /\ t = [k \in 1..Len(t) |-> t[k]]
  BY <1>3 DEF IsSeq
<1>7. \A k \in 1..Len(t) : t[k] \in X /\ t[k] \in S
  BY <1>1, <1>2, <1>4, <1>5
<1>8. t \in Seq(X)
  BY <1>6, <1>7
<1>9. ToSet(t) \subseteq ToSet(seq) \cap S
  BY <1>1, <1>2, <1>4, <1>5, <1>6, <1>7 DEF ToSet
<1>10. ASSUME NEW x \in ToSet(seq) \cap S PROVE x \in ToSet(t)
  <2>1. PICK i \in 1..Len(seq) : seq[i] = x
    BY <1>1 DEF ToSet
  <2>2. i \in Places(seq, S)
    BY <1>4, <2>1
  <2>3. PICK k \in 1..Len(t) : e[k] = i
    BY <1>2, <2>2 DEF Lists
  <2>4. t[k] = x
    BY <1>2, <2>1, <2>3
  <2> QED BY <1>6, <2>3, <2>4 DEF ToSet
<1>11. Len(t) = Cardinality(Places(seq, S))
  BY <1>1, <1>2, PlacesAre, ListsAlike
<1> QED BY <1>8, <1>9, <1>10, <1>11 DEF t

(* No item occurs twice.                                                    *)
Distinct(seq) == \A i, j \in 1..Len(seq) : seq[i] = seq[j] => i = j

LEMMA DistinctIsInjective ==
    ASSUME NEW X, NEW seq \in Seq(X), Distinct(seq)
    PROVE  Injective(seq) /\ IsFiniteSet(ToSet(seq))
<1>1. DOMAIN seq = 1..Len(seq) /\ Len(seq) \in Nat
  BY SeqIs
<1>2. seq \in [1..Len(seq) -> ToSet(seq)]
  BY <1>1, SeqIs DEF ToSet, IsSeq
<1>3. seq \in Injection(1..Len(seq), ToSet(seq))
  BY <1>1, <1>2 DEF Injection, IsInjective, Distinct
<1>4. seq \in Surjection(1..Len(seq), ToSet(seq))
  BY <1>1, <1>2 DEF Surjection, ToSet
<1>5. ExistsBijection(1..Len(seq), ToSet(seq))
  BY <1>3, <1>4 DEF Bijection, ExistsBijection
<1>6. IsFiniteSet(1..Len(seq)) /\ Cardinality(1..Len(seq)) = Len(seq)
  BY <1>1, FS_Interval, SMTT(60)
<1> QED BY <1>5, <1>6, FS_Bijection DEF Injective

LEMMA PickedDistinct ==
    ASSUME NEW X, NEW seq \in Seq(X), NEW S, Distinct(seq)
    PROVE  Distinct(Picked(seq, S))
<1> DEFINE t == Picked(seq, S)
<1>1. PICK e : /\ Lists(e, Len(t), Places(seq, S))
               /\ \A k \in 1..Len(t) : t[k] = seq[e[k]]
  BY SeqIs, PickedLists
<1>2. \A i \in Places(seq, S) : i \in 1..Len(seq)
  BY SeqIs DEF Places
<1> HIDE DEF t
<1>3. ASSUME NEW j \in 1..Len(t), NEW k \in 1..Len(t), t[j] = t[k] PROVE j = k
  <2>1. e[j] \in 1..Len(seq) /\ e[k] \in 1..Len(seq)
    BY <1>1, <1>2 DEF Lists
  <2>2. e[j] = e[k]
    BY <1>1, <1>3, <2>1 DEF Distinct
  <2>3. ~(e[j] < e[k]) /\ ~(e[k] < e[j])
    BY <2>1, <2>2, SeqIs
  <2>4. ~(j < k) /\ ~(k < j)
    BY <1>1, <2>3 DEF Lists
  <2>5. Len(t) \in Nat
    BY <1>1 DEF Lists
  <2> QED BY <2>4, <2>5
<1> QED BY <1>3 DEF Distinct, t

LEMMA PickedAlike ==
    ASSUME NEW X, NEW seq \in Seq(X), NEW S, NEW T,
           \A x \in ToSet(seq) : x \in S <=> x \in T
    PROVE  Picked(seq, S) = Picked(seq, T)
<1>1. Places(seq, S) = Places(seq, T)
  BY DEF Places, ToSet
<1>2. \A U : Picked(seq, U) = [k \in 1..Cardinality(Places(seq, U)) |->
                                  seq[Nth(Places(seq, U), k)]]
  BY DEF Picked, Nth, UpTo, Places
<1> QED BY <1>1, <1>2

LEMMA PickedAll ==
    ASSUME NEW X, NEW seq \in Seq(X), NEW S, ToSet(seq) \subseteq S
    PROVE  Picked(seq, S) = seq
<1> DEFINE e == [k \in 1..Len(seq) |-> k]
<1>1. IsSeq(seq) /\ DOMAIN seq = 1..Len(seq) /\ Len(seq) \in Nat
  BY SeqIs
<1>2. Places(seq, S) = 1..Len(seq)
  BY <1>1 DEF Places, ToSet
<1>3. Lists(e, Len(seq), Places(seq, S))
  BY <1>1, <1>2 DEF Lists
<1>4. \A k \in 1..Len(seq) : seq[k] = seq[e[k]]
  OBVIOUS
<1> HIDE DEF e
<1> QED BY <1>1, <1>3, <1>4, PickedIs

LEMMA PickedNone ==
    ASSUME NEW X, NEW seq \in Seq(X), NEW S, ToSet(seq) \cap S = {}
    PROVE  Picked(seq, S) = <<>>
<1>1. Places(seq, S) = {}
  BY DEF Places, ToSet
<1>2. Cardinality(Places(seq, S)) = 0
  BY <1>1, FS_EmptySet
<1>3. Len(Picked(seq, S)) = 0 /\ Picked(seq, S) \in Seq(X)
  BY <1>2, PickedHas
<1> QED BY <1>3, EmptySeq

LEMMA PickedTwice ==
    ASSUME NEW X, NEW seq \in Seq(X), NEW S, NEW T
    PROVE  Picked(Picked(seq, S), T) = Picked(seq, S \cap T)
<1> DEFINE t == Picked(seq, S)
           u == Picked(t, T)
<1>1. t \in Seq(X) /\ u \in Seq(X)
  BY PickedHas
<1>2. PICK e : /\ Lists(e, Len(t), Places(seq, S))
               /\ \A k \in 1..Len(t) : t[k] = seq[e[k]]
  BY SeqIs, PickedLists
<1>3. PICK d : /\ Lists(d, Len(u), Places(t, T))
               /\ \A k \in 1..Len(u) : u[k] = t[d[k]]
  BY <1>1, SeqIs, PickedLists
<1> HIDE DEF t, u
<1> DEFINE m == Len(u)
           c == [k \in 1..m |-> e[d[k]]]
<1>4. \A i : i \in Places(t, T) <=> i \in 1..Len(t) /\ t[i] \in T
  BY <1>1, SeqIs DEF Places
<1>5. \A i : i \in Places(seq, S) <=> i \in 1..Len(seq) /\ seq[i] \in S
  BY SeqIs DEF Places
<1>6. \A i : i \in Places(seq, S \cap T) <=> i \in Places(seq, S) /\ seq[i] \in T
  BY DEF Places
<1>7. ASSUME NEW k \in 1..m
      PROVE  d[k] \in 1..Len(t) /\ c[k] \in Places(seq, S \cap T) /\ u[k] = seq[c[k]]
  <2>1. d[k] \in 1..Len(t) /\ t[d[k]] \in T /\ u[k] = t[d[k]]
    BY <1>3, <1>4 DEF Lists
  <2>2. e[d[k]] \in Places(seq, S) /\ t[d[k]] = seq[e[d[k]]]
    BY <1>2, <2>1 DEF Lists
  <2> QED BY <1>6, <2>1, <2>2
<1>8. ASSUME NEW j \in 1..m, NEW k \in 1..m, j < k PROVE c[j] < c[k]
  <2>1. d[j] < d[k]
    BY <1>3, <1>8 DEF Lists
  <2> QED BY <1>2, <1>7, <2>1 DEF Lists
<1>9. ASSUME NEW i \in Places(seq, S \cap T) PROVE \E k \in 1..m : c[k] = i
  <2>1. PICK j \in 1..Len(t) : e[j] = i
    BY <1>2, <1>6 DEF Lists
  <2>2. j \in Places(t, T)
    BY <1>2, <1>4, <1>6, <2>1
  <2>3. PICK k \in 1..m : d[k] = j
    BY <1>3, <2>2 DEF Lists
  <2> QED BY <2>1, <2>3
<1>10. m \in Nat /\ c \in [1..m -> Places(seq, S \cap T)]
  BY <1>3, <1>7 DEF Lists
<1>11. Lists(c, m, Places(seq, S \cap T))
  BY <1>8, <1>9, <1>10 DEF Lists
<1>12. \A k \in 1..m : u[k] = seq[c[k]]
  BY <1>7
<1> HIDE DEF c
<1>13. Picked(seq, S \cap T) = u
  BY <1>1, <1>11, <1>12, SeqIs, PickedIs
<1> QED BY <1>13 DEF t, u

LEMMA PickedConcat ==
    ASSUME NEW X, NEW s \in Seq(X), NEW t \in Seq(X), NEW S
    PROVE  Picked(s \o t, S) = Picked(s, S) \o Picked(t, S)
<1> DEFINE a == Picked(s, S)
           b == Picked(t, S)
           w == s \o t
           u == a \o b
<1>1. a \in Seq(X) /\ b \in Seq(X)
  BY PickedHas
<1>2. PICK d : Lists(d, Len(a), Places(s, S)) /\ \A k \in 1..Len(a) : a[k] = s[d[k]]
  BY SeqIs, PickedLists
<1>3. PICK e : Lists(e, Len(b), Places(t, S)) /\ \A k \in 1..Len(b) : b[k] = t[e[k]]
  BY SeqIs, PickedLists
<1> HIDE DEF a, b
<1>4. /\ w \in Seq(X) /\ Len(w) = Len(s) + Len(t)
      /\ \A i \in 1..Len(s) + Len(t) : w[i] = IF i <= Len(s) THEN s[i] ELSE t[i - Len(s)]
  BY ConcatProperties
<1>5. /\ u \in Seq(X) /\ Len(u) = Len(a) + Len(b)
      /\ \A i \in 1..Len(a) + Len(b) : u[i] = IF i <= Len(a) THEN a[i] ELSE b[i - Len(a)]
  BY <1>1, ConcatProperties
<1> HIDE DEF w, u
<1> DEFINE m == Len(a) + Len(b)
           c == [k \in 1..m |-> IF k <= Len(a) THEN d[k] ELSE Len(s) + e[k - Len(a)]]
<1>6. Len(a) \in Nat /\ Len(b) \in Nat /\ Len(s) \in Nat /\ Len(t) \in Nat
  BY <1>1, SeqIs
<1>7. /\ \A i : i \in Places(s, S) <=> i \in 1..Len(s) /\ s[i] \in S
      /\ \A i : i \in Places(t, S) <=> i \in 1..Len(t) /\ t[i] \in S
      /\ \A i : i \in Places(w, S) <=> i \in 1..Len(w) /\ w[i] \in S
  BY <1>4, SeqIs DEF Places
<1>8. \A k \in 1..Len(a) : d[k] \in 1..Len(s) /\ s[d[k]] \in S /\ a[k] = s[d[k]]
  BY <1>2, <1>7 DEF Lists
<1>9. \A k \in 1..Len(b) : e[k] \in 1..Len(t) /\ t[e[k]] \in S /\ b[k] = t[e[k]]
  BY <1>3, <1>7 DEF Lists
<1>10. ASSUME NEW k \in 1..m PROVE c[k] \in 1..Len(w) /\ w[c[k]] \in S /\ u[k] = w[c[k]]
  <2>1. CASE k <= Len(a)
    <3>1. k \in 1..Len(a) /\ c[k] = d[k]
      BY <1>6, <2>1
    <3>2. d[k] \in 1..Len(s) + Len(t) /\ d[k] <= Len(s) /\ w[d[k]] = s[d[k]] /\ u[k] = a[k]
      BY <1>4, <1>5, <1>6, <1>8, <2>1, <3>1
    <3> QED BY <1>4, <1>8, <3>1, <3>2
  <2>2. CASE ~(k <= Len(a))
    <3> DEFINE l == k - Len(a)
    <3>1. l \in 1..Len(b) /\ c[k] = Len(s) + e[l] /\ u[k] = b[l]
      BY <1>5, <1>6, <2>2
    <3> HIDE DEF l
    <3>2. e[l] \in 1..Len(t) /\ t[e[l]] \in S /\ b[l] = t[e[l]]
      BY <1>9, <3>1
    <3>3. /\ Len(s) + e[l] \in 1..Len(s) + Len(t) /\ ~(Len(s) + e[l] <= Len(s))
          /\ (Len(s) + e[l]) - Len(s) = e[l]
      BY <1>6, <3>2
    <3>4. w[Len(s) + e[l]] = t[e[l]]
      BY <1>4, <3>3
    <3> QED BY <1>4, <3>1, <3>2, <3>3, <3>4
  <2> QED BY <2>1, <2>2
<1>11. ASSUME NEW j \in 1..m, NEW k \in 1..m, j < k PROVE c[j] < c[k]
  <2>1. CASE k <= Len(a)
    <3>1. j \in 1..Len(a) /\ k \in 1..Len(a)
      BY <1>6, <1>11, <2>1
    <3> QED BY <1>2, <1>11, <2>1, <3>1 DEF Lists
  <2>2. CASE ~(k <= Len(a)) /\ j <= Len(a)
    <3>1. k - Len(a) \in 1..Len(b) /\ j \in 1..Len(a)
      BY <1>6, <2>2
    <3>2. d[j] \in 1..Len(s) /\ e[k - Len(a)] \in 1..Len(t)
      BY <1>8, <1>9, <3>1
    <3> QED BY <1>6, <2>2, <3>2
  <2>3. CASE ~(k <= Len(a)) /\ ~(j <= Len(a))
    <3>1. k - Len(a) \in 1..Len(b) /\ j - Len(a) \in 1..Len(b) /\ j - Len(a) < k - Len(a)
      BY <1>6, <1>11, <2>3
    <3>2. e[j - Len(a)] < e[k - Len(a)]
      BY <1>3, <3>1 DEF Lists
    <3>3. e[j - Len(a)] \in 1..Len(t) /\ e[k - Len(a)] \in 1..Len(t)
      BY <1>9, <3>1
    <3> QED BY <1>6, <2>3, <3>2, <3>3
  <2> QED BY <2>1, <2>2, <2>3
<1>12. ASSUME NEW i \in Places(w, S) PROVE \E k \in 1..m : c[k] = i
  <2>1. i \in 1..Len(s) + Len(t) /\ w[i] \in S
    BY <1>4, <1>7
  <2>2. CASE i <= Len(s)
    <3>1. i \in Places(s, S)
      BY <1>4, <1>6, <1>7, <2>1, <2>2
    <3>2. PICK k \in 1..Len(a) : d[k] = i
      BY <1>2, <3>1 DEF Lists
    <3> QED BY <1>6, <3>2
  <2>3. CASE ~(i <= Len(s))
    <3>1. i - Len(s) \in 1..Len(t) /\ w[i] = t[i - Len(s)]
      BY <1>4, <1>6, <2>1, <2>3
    <3>2. PICK l \in 1..Len(b) : e[l] = i - Len(s)
      BY <1>3, <1>7, <2>1, <3>1 DEF Lists
    <3>3. /\ Len(a) + l \in 1..m /\ ~(Len(a) + l <= Len(a)) /\ (Len(a) + l) - Len(a) = l
          /\ Len(s) + (i - Len(s)) = i
      BY <1>6, <2>1
    <3>4. c[Len(a) + l] = i
      BY <3>2, <3>3
    <3> QED BY <3>3, <3>4
  <2> QED BY <2>2, <2>3
<1>13. c \in [1..m -> Places(w, S)]
  BY <1>7, <1>10
<1>14. m \in Nat
  BY <1>6
<1>15. Lists(c, m, Places(w, S))
  BY <1>11, <1>12, <1>13, <1>14 DEF Lists
<1>16. \A k \in 1..m : u[k] = w[c[k]]
  BY <1>10
<1> HIDE DEF c, m
<1>17. Len(u) = m
  BY <1>5 DEF m
<1>18. Picked(w, S) = u
  BY <1>4, <1>5, <1>15, <1>16, <1>17, SeqIs, PickedIs
<1> QED BY <1>18 DEF a, b, w, u

-----------------------------------------------------------------------------
(* What the actions do, part by part.                                       *)

Parts == {"at", "bases", "rest", "spec", "body", "defaults_lk", "default", "kwonly", "slots",
          "renamed", "offsets_lk", "option", "tag", "tag_field", "rename", "hash_offset",
          "has_weakref", "has_dict", "fields", "defaults", "nkwonly", "n_trailing_defaults",
          "codecs", "alias_fields", "layout"}

(* The parts of the StructMetaInfo other than those of S stay.              *)
Keeps(S) == \A part \in Parts \ S : info'[part] = info[part]

LEMMA FreshIs ==
    ASSUME NEW bases
    PROVE  /\ DOMAIN Fresh(bases) = Parts
           /\ Fresh(bases).at = "bases" /\ Fresh(bases).bases = bases
           /\ Fresh(bases).rest = bases /\ Fresh(bases).spec = <<>> /\ Fresh(bases).body = <<>>
           /\ Fresh(bases).defaults_lk = <<>> /\ Fresh(bases).kwonly = {}
           /\ Fresh(bases).slots = {} /\ Fresh(bases).renamed = [f \in Name |-> f]
           /\ Fresh(bases).option = [o \in Option |-> "unset"] /\ Fresh(bases).tag = Null
           /\ Fresh(bases).tag_field = Null /\ Fresh(bases).rename = Null
           /\ Fresh(bases).hash_offset = 0 /\ Fresh(bases).has_weakref = FALSE
           /\ Fresh(bases).has_dict = FALSE
           /\ Fresh(bases).default = [f \in Name |-> NODEFAULT]
           /\ Fresh(bases).offsets_lk = [f \in Name |-> 0]
BY DEF Fresh, Parts

LEMMA NoneIs ==
    /\ None.at = "none" /\ DOMAIN None = Parts
    /\ None.slots = {} /\ None.kwonly = {} /\ None.defaults_lk = <<>>
<1>1. /\ DOMAIN Fresh(<<>>) = Parts /\ Fresh(<<>>).slots = {} /\ Fresh(<<>>).kwonly = {}
      /\ Fresh(<<>>).defaults_lk = <<>>
  BY FreshIs
<1> HIDE DEF Fresh
<1> QED BY <1>1 DEF None, Parts

LEMMA BeginDoes ==
    ASSUME Begin
    PROVE  /\ Len(classes) < Len(Menu) /\ classes' = classes
           /\ \E bases \in Menu[This].bases : info' = Fresh(bases)
BY DEF Begin, At, Continue

LEMMA CollectMixinDoes ==
    ASSUME DOMAIN info = Parts, CollectMixin
    PROVE  /\ classes' = classes
           /\ info.at = "bases" /\ info.rest # <<>> /\ Last(info.rest) \in Mixin
           /\ \/ info' = None
              \/ /\ DOMAIN info' = Parts /\ Keeps({"rest", "has_weakref", "has_dict"})
                 /\ info'.rest = Front(info.rest)
                 /\ info'.has_weakref = (info.has_weakref \/ Last(info.rest) \in WithWeakref)
                 /\ info'.has_dict = (info.has_dict \/ Last(info.rest) \in WithDict)
<1> DEFINE b == Last(info.rest)
           next == [info EXCEPT !.rest = Front(@),
                                !.has_weakref = @ \/ b \in WithWeakref,
                                !.has_dict = @ \/ b \in WithDict]
<1>1. /\ info.at = "bases" /\ info.rest # <<>> /\ Last(info.rest) \in Mixin
      /\ classes' = classes /\ (info' = None \/ info' = next)
  BY DEF CollectMixin, At, Continue, Refuse
<1>2. DOMAIN next = Parts
  OBVIOUS
<1>3. info' = next => Keeps({"rest", "has_weakref", "has_dict"})
  BY DEF Keeps, Parts
<1>4. next.rest = Front(info.rest)
  BY DEF Parts
<1>5. next.has_weakref = (info.has_weakref \/ Last(info.rest) \in WithWeakref)
  BY DEF Parts
<1>6. next.has_dict = (info.has_dict \/ Last(info.rest) \in WithDict)
  BY DEF Parts
<1> HIDE DEF next
<1> QED BY <1>1, <1>2, <1>3, <1>4, <1>5, <1>6

LEMMA CollectBaseDoes ==
    ASSUME DOMAIN info = Parts, CollectBase
    PROVE  LET c == classes[Last(info.rest)]  fields == ToSet(c.fields) IN
           /\ info.at = "bases" /\ info.rest # <<>> /\ Last(info.rest) \notin Mixin
           /\ classes' = classes /\ DOMAIN info' = Parts
           /\ Keeps({"rest", "has_weakref", "has_dict", "hash_offset", "tag_field", "tag",
                     "rename", "option", "defaults_lk", "default", "kwonly", "renamed",
                     "offsets_lk"})
           /\ info'.rest = Front(info.rest)
           /\ info'.defaults_lk =
                info.defaults_lk \o Picked(c.fields, Name \ ToSet(info.defaults_lk))
           /\ info'.kwonly = (info.kwonly \ fields) \cup KwOnly(c)
           /\ info'.default = [f \in Name |-> IF f \in fields THEN DefaultOf(c, f)
                                              ELSE info.default[f]]
           /\ info'.renamed = [f \in Name |-> IF f \in fields /\ AliasOf(c, f) # f
                                              THEN AliasOf(c, f) ELSE info.renamed[f]]
           /\ info'.offsets_lk = [f \in Name |-> IF f \in fields THEN OffsetOf(c, f)
                                                 ELSE info.offsets_lk[f]]
           /\ info'.option = [o \in Option |->
                                 IF o \in Inherited /\ c.option[o] # "unset"
                                 THEN c.option[o] ELSE info.option[o]]
           /\ info'.tag_field = Given(c.tag_field, info.tag_field)
           /\ info'.tag = Given(c.tag, info.tag)
           /\ info'.rename = Given(c.rename, info.rename)
           /\ info'.hash_offset = IF c.hash_offset # 0 THEN c.hash_offset
                                  ELSE info.hash_offset
           /\ info'.has_weakref = (info.has_weakref \/ c.has_weakref)
           /\ info'.has_dict = (info.has_dict \/ c.has_dict)
<1> DEFINE c == classes[Last(info.rest)]
           fields == ToSet(c.fields)
<1>1. info.at = "bases" /\ info.rest # <<>> /\ Last(info.rest) \notin Mixin
      /\ info' = Merge(c) /\ classes' = classes
  BY DEF CollectBase, At, Continue
<1>2. DOMAIN Merge(c) = Parts
  BY DEF Merge
<1>3. Keeps({"rest", "has_weakref", "has_dict", "hash_offset", "tag_field", "tag",
             "rename", "option", "defaults_lk", "default", "kwonly", "renamed", "offsets_lk"})
  BY <1>1 DEF Merge, Keeps, Parts
<1>4. Merge(c).rest = Front(info.rest)
  BY DEF Merge, Parts
<1>5. Merge(c).kwonly = (info.kwonly \ fields) \cup KwOnly(c)
  BY DEF Merge, Parts
<1>6. Merge(c).defaults_lk =
                info.defaults_lk \o Picked(c.fields, Name \ ToSet(info.defaults_lk))
  BY DEF Merge, Parts
<1>7. Merge(c).default = [f \in Name |-> IF f \in fields THEN DefaultOf(c, f)
                                         ELSE info.default[f]]
  BY DEF Merge, Parts
<1>8. Merge(c).renamed = [f \in Name |-> IF f \in fields /\ AliasOf(c, f) # f
                                         THEN AliasOf(c, f) ELSE info.renamed[f]]
  BY DEF Merge, Parts
<1>9. Merge(c).offsets_lk = [f \in Name |-> IF f \in fields THEN OffsetOf(c, f)
                                            ELSE info.offsets_lk[f]]
  BY DEF Merge, Parts
<1>10. Merge(c).option = [o \in Option |->
                             IF o \in Inherited /\ c.option[o] # "unset"
                             THEN c.option[o] ELSE info.option[o]]
  BY DEF Merge, Parts
<1>11. /\ Merge(c).tag_field = Given(c.tag_field, info.tag_field)
       /\ Merge(c).tag = Given(c.tag, info.tag)
       /\ Merge(c).rename = Given(c.rename, info.rename)
  BY DEF Merge, Parts
<1>12. Merge(c).hash_offset = IF c.hash_offset # 0 THEN c.hash_offset
                              ELSE info.hash_offset
  BY DEF Merge, Parts
<1>13. Merge(c).has_weakref = (info.has_weakref \/ c.has_weakref)
  BY DEF Merge, Parts
<1>14. Merge(c).has_dict = (info.has_dict \/ c.has_dict)
  BY DEF Merge, Parts
<1> HIDE DEF c, fields
<1>15. /\ info'.rest = Front(info.rest)
       /\ info'.kwonly = (info.kwonly \ fields) \cup KwOnly(c)
       /\ info'.defaults_lk =
                info.defaults_lk \o Picked(c.fields, Name \ ToSet(info.defaults_lk))
  BY <1>1, <1>4, <1>5, <1>6
<1>16. /\ info'.default = [f \in Name |-> IF f \in fields THEN DefaultOf(c, f)
                                          ELSE info.default[f]]
       /\ info'.renamed = [f \in Name |-> IF f \in fields /\ AliasOf(c, f) # f
                                          THEN AliasOf(c, f) ELSE info.renamed[f]]
       /\ info'.offsets_lk = [f \in Name |-> IF f \in fields THEN OffsetOf(c, f)
                                             ELSE info.offsets_lk[f]]
       /\ info'.option = [o \in Option |->
                             IF o \in Inherited /\ c.option[o] # "unset"
                             THEN c.option[o] ELSE info.option[o]]
  BY <1>1, <1>7, <1>8, <1>9, <1>10
<1>17. /\ info'.tag_field = Given(c.tag_field, info.tag_field)
       /\ info'.tag = Given(c.tag, info.tag)
       /\ info'.rename = Given(c.rename, info.rename)
       /\ info'.hash_offset = IF c.hash_offset # 0 THEN c.hash_offset
                              ELSE info.hash_offset
       /\ info'.has_weakref = (info.has_weakref \/ c.has_weakref)
       /\ info'.has_dict = (info.has_dict \/ c.has_dict)
  BY <1>1, <1>11, <1>12, <1>13, <1>14
<1> QED BY <1>1, <1>2, <1>3, <1>15, <1>16, <1>17 DEF c, fields

LEMMA ApplySpecDoes ==
    ASSUME DOMAIN info = Parts, ApplySpec
    PROVE  /\ classes' = classes /\ info.at = "bases" /\ info.rest = <<>>
           /\ \/ info' = None
              \/ \E spec \in Menu[This].specs :
                 /\ DOMAIN info' = Parts
                 /\ Keeps({"at", "spec", "option", "tag", "tag_field", "rename"})
                 /\ info'.at = "fields" /\ info'.spec = spec
                 /\ info'.option = [o \in Option |-> Of(spec, o, info.option[o])]
                 /\ info'.tag = Of(spec, "tag", info.tag)
                 /\ info'.tag_field = Of(spec, "tag_field", info.tag_field)
                 /\ info'.rename = Of(spec, "rename", info.rename)
<1>1. /\ info.at = "bases" /\ info.rest = <<>> /\ classes' = classes
      /\ (info' = None \/ \E spec \in Menu[This].specs : info' = Configured(spec))
  BY DEF ApplySpec, At, Continue, Refuse
<1>2. ASSUME NEW spec \in Menu[This].specs, info' = Configured(spec)
      PROVE  /\ DOMAIN info' = Parts
             /\ Keeps({"at", "spec", "option", "tag", "tag_field", "rename"})
             /\ info'.at = "fields" /\ info'.spec = spec
             /\ info'.option = [o \in Option |-> Of(spec, o, info.option[o])]
             /\ info'.tag = Of(spec, "tag", info.tag)
             /\ info'.tag_field = Of(spec, "tag_field", info.tag_field)
             /\ info'.rename = Of(spec, "rename", info.rename)
  <2>1. DOMAIN Configured(spec) = Parts
    BY DEF Configured
  <2>2. Keeps({"at", "spec", "option", "tag", "tag_field", "rename"})
    BY <1>2 DEF Configured, Keeps, Parts
  <2>3. Configured(spec).at = "fields" /\ Configured(spec).spec = spec
    BY DEF Configured, Parts
  <2>4. Configured(spec).option = [o \in Option |-> Of(spec, o, info.option[o])]
    BY DEF Configured, Parts
  <2>5. /\ Configured(spec).tag = Of(spec, "tag", info.tag)
        /\ Configured(spec).tag_field = Of(spec, "tag_field", info.tag_field)
        /\ Configured(spec).rename = Of(spec, "rename", info.rename)
    BY DEF Configured, Parts
  <2> QED BY <1>2, <2>1, <2>2, <2>3, <2>4, <2>5
<1> QED BY <1>1, <1>2

(* The item of the body that is read next is a ClassVar, or a field.        *)
ReadsClassVar(item) ==
    /\ item.classvar
    /\ Keeps({"body"})
    /\ info'.body = Append(info.body, item)

ReadsField(item) ==
    LET f == item.name IN
    /\ ~item.classvar /\ Acceptable(item)
    /\ Keeps({"body", "defaults_lk", "slots", "kwonly", "renamed", "default"})
    /\ info'.body = Append(info.body, item)
    /\ info'.defaults_lk = IF f \in ToSet(info.defaults_lk) THEN info.defaults_lk
                           ELSE Append(info.defaults_lk, f)
    /\ info'.slots = IF f \in ToSet(info.defaults_lk) THEN info.slots ELSE info.slots \cup {f}
    /\ info'.kwonly = IF info.option["kw_only"] = "true" THEN info.kwonly \cup {f}
                      ELSE info.kwonly \ {f}
    /\ info'.renamed = [info.renamed EXCEPT ![f] = Renamed(item)]
    /\ info'.default = [info.default EXCEPT ![f] = StoredDefault(item.default)]

LEMMA CollectFieldDoes ==
    ASSUME DOMAIN info = Parts, CollectField
    PROVE  /\ classes' = classes /\ info.at = "fields"
           /\ \/ info' = None
              \/ \E item \in Menu[This].items :
                 /\ \A j \in DOMAIN info.body : info.body[j].name # item.name
                 /\ DOMAIN info' = Parts
                 /\ ReadsClassVar(item) \/ ReadsField(item)
<1> DEFINE plain(item) == [info EXCEPT !.body = Append(info.body, item)]
           next(item) == [info EXCEPT
              !.body = Append(info.body, item),
              !.defaults_lk = IF item.name \in ToSet(@) THEN @ ELSE Append(@, item.name),
              !.slots = IF item.name \in ToSet(info.defaults_lk) THEN @ ELSE @ \cup {item.name},
              !.kwonly = IF info.option["kw_only"] = "true" THEN @ \cup {item.name}
                         ELSE @ \ {item.name},
              !.renamed[item.name] = Renamed(item),
              !.default[item.name] = StoredDefault(item.default)]
<1>1. /\ info.at = "fields" /\ classes' = classes
      /\ \/ info' = None
         \/ \E item \in Menu[This].items :
               /\ \A j \in DOMAIN info.body : info.body[j].name # item.name
               /\ \/ item.classvar /\ info' = plain(item)
                  \/ ~item.classvar /\ Acceptable(item) /\ info' = next(item)
  BY DEF CollectField, At, Continue, Refuse
<1>2. ASSUME NEW item \in Menu[This].items, item.classvar, info' = plain(item)
      PROVE  DOMAIN info' = Parts /\ ReadsClassVar(item)
  <2>1. DOMAIN plain(item) = Parts
    OBVIOUS
  <2>2. Keeps({"body"})
    BY <1>2 DEF Keeps, Parts
  <2>3. plain(item).body = Append(info.body, item)
    BY DEF Parts
  <2> HIDE DEF plain
  <2> QED BY <1>2, <2>1, <2>2, <2>3 DEF ReadsClassVar
<1>3. ASSUME NEW item \in Menu[This].items, ~item.classvar, Acceptable(item),
             info' = next(item)
      PROVE  DOMAIN info' = Parts /\ ReadsField(item)
  <2>1. DOMAIN next(item) = Parts
    OBVIOUS
  <2>2. Keeps({"body", "defaults_lk", "slots", "kwonly", "renamed", "default"})
    BY <1>3 DEF Keeps, Parts
  <2>3. /\ next(item).body = Append(info.body, item)
        /\ next(item).defaults_lk = IF item.name \in ToSet(info.defaults_lk)
                                    THEN info.defaults_lk
                                    ELSE Append(info.defaults_lk, item.name)
    BY DEF Parts
  <2>4. /\ next(item).slots = IF item.name \in ToSet(info.defaults_lk) THEN info.slots
                              ELSE info.slots \cup {item.name}
        /\ next(item).kwonly = IF info.option["kw_only"] = "true"
                               THEN info.kwonly \cup {item.name}
                               ELSE info.kwonly \ {item.name}
    BY DEF Parts
  <2>5. /\ next(item).renamed = [info.renamed EXCEPT ![item.name] = Renamed(item)]
        /\ next(item).default =
              [info.default EXCEPT ![item.name] = StoredDefault(item.default)]
    BY DEF Parts
  <2> HIDE DEF next
  <2> QED BY <1>3, <2>1, <2>2, <2>3, <2>4, <2>5 DEF ReadsField
<1> HIDE DEF plain, next
<1> QED BY <1>1, <1>2, <1>3

LEMMA ConstructFieldsDoes ==
    ASSUME DOMAIN info = Parts, ConstructFields
    PROVE  /\ classes' = classes /\ info.at = "fields"
           /\ \/ info' = None
              \/ /\ ~OutOfOrder /\ DOMAIN info' = Parts
                 /\ Keeps({"at", "fields", "defaults", "nkwonly", "n_trailing_defaults",
                           "slots"})
                 /\ info'.at = "codecs" /\ info'.fields = Ordered /\ info'.defaults = Defaults
                 /\ info'.nkwonly = Len(Ordered) - NPositional
                 /\ info'.n_trailing_defaults = NTrailing
                 /\ info'.slots = IF NeedsHashSlot THEN info.slots \cup {CachedHash}
                                  ELSE info.slots
<1> DEFINE next == [info EXCEPT
                !.at = "codecs", !.fields = Ordered, !.defaults = Defaults,
                !.nkwonly = Len(Ordered) - NPositional, !.n_trailing_defaults = NTrailing,
                !.slots = IF NeedsHashSlot THEN @ \cup {CachedHash} ELSE @]
<1>1. /\ classes' = classes /\ info.at = "fields"
      /\ info' = None \/ (~OutOfOrder /\ info' = next)
  BY DEF ConstructFields, At, Continue, Refuse
<1>2. DOMAIN next = Parts
  OBVIOUS
<1>3. info' = next => Keeps({"at", "fields", "defaults", "nkwonly", "n_trailing_defaults",
                             "slots"})
  BY DEF Keeps, Parts
<1>4. next.at = "codecs" /\ next.fields = Ordered /\ next.defaults = Defaults
  BY DEF Parts
<1>5. next.nkwonly = Len(Ordered) - NPositional /\ next.n_trailing_defaults = NTrailing
  BY DEF Parts
<1>6. next.slots = IF NeedsHashSlot THEN info.slots \cup {CachedHash} ELSE info.slots
  BY DEF Parts
<1> HIDE DEF next
<1> QED BY <1>1, <1>2, <1>3, <1>4, <1>5, <1>6

CodecsMapped == [i \in DOMAIN info.fields |->
                    IF Declares(info.body, info.fields[i])
                    THEN CodecMap(PositionsOf(info.body, info.fields[i]))
                    ELSE InheritedCodecs(info.bases, info.fields[i])]

LEMMA CollectCodecsDoes ==
    ASSUME DOMAIN info = Parts, CollectCodecs
    PROVE  /\ classes' = classes /\ info.at = "codecs"
           /\ \/ info' = None
              \/ /\ DOMAIN info' = Parts /\ Keeps({"at", "codecs"})
                 /\ info'.at = "aliases" /\ info'.codecs = CodecsMapped
<1> DEFINE next == [info EXCEPT !.at = "aliases", !.codecs = CodecsMapped]
<1>1. classes' = classes /\ info.at = "codecs" /\ (info' = None \/ info' = next)
  BY DEF CollectCodecs, At, Continue, Refuse, CodecsMapped
<1>2. DOMAIN next = Parts /\ next.at = "aliases" /\ next.codecs = CodecsMapped
  BY DEF Parts
<1>3. info' = next => Keeps({"at", "codecs"})
  BY DEF Keeps, Parts
<1> HIDE DEF next
<1> QED BY <1>1, <1>2, <1>3

LEMMA ConstructAliasFieldsDoes ==
    ASSUME DOMAIN info = Parts, ConstructAliasFields
    PROVE  /\ classes' = classes /\ info.at = "aliases"
           /\ \/ info' = None
              \/ /\ DOMAIN info' = Parts /\ Keeps({"at", "alias_fields"})
                 /\ info'.at = "type" /\ info'.alias_fields = Aliases /\ Injective(Aliases)
<1> DEFINE next == [info EXCEPT !.at = "type", !.alias_fields = Aliases]
<1>1. /\ classes' = classes /\ info.at = "aliases"
      /\ info' = None \/ (Cardinality(ToSet(Aliases)) = Len(Aliases) /\ info' = next)
  BY DEF ConstructAliasFields, At, Continue, Refuse
<1>2. DOMAIN next = Parts /\ next.at = "type" /\ next.alias_fields = Aliases
  BY DEF Parts
<1>3. info' = next => Keeps({"at", "alias_fields"})
  BY DEF Keeps, Parts
<1> HIDE DEF next
<1> QED BY <1>1, <1>2, <1>3 DEF Injective

LEMMA TypeNewDoes ==
    ASSUME DOMAIN info = Parts, TypeNew
    PROVE  /\ classes' = classes /\ info.at = "type"
           /\ DOMAIN info' = Parts /\ Keeps({"at", "layout"})
           /\ info'.at = "tag"
           /\ info'.layout = Widest(LayoutsOf(info.bases))
                             \o SetToSeq({<<This, s>> : s \in info.slots})
           /\ \A l \in LayoutsOf(info.bases) : IsPrefix(l, Widest(LayoutsOf(info.bases)))
<1> DEFINE layout == Widest(LayoutsOf(info.bases)) \o SetToSeq({<<This, s>> : s \in info.slots})
           next == [info EXCEPT !.at = "tag", !.layout = layout]
<1>1. /\ classes' = classes /\ info.at = "type" /\ info' = next
      /\ \A l \in LayoutsOf(info.bases) : IsPrefix(l, Widest(LayoutsOf(info.bases)))
  BY DEF TypeNew, At, Continue
<1> HIDE DEF layout
<1>2. DOMAIN next = Parts /\ next.at = "tag" /\ next.layout = layout
  BY DEF Parts
<1>3. Keeps({"at", "layout"})
  BY <1>1 DEF Keeps, Parts
<1> HIDE DEF next
<1> QED BY <1>1, <1>2, <1>3 DEF layout

(* The class that Finish makes.                                             *)
Finished ==
    [bases |-> info.bases, spec |-> info.spec, body |-> info.body,
     ancestors |-> UNION {{b} \cup classes[b].ancestors : b \in StructBases(info.bases)},
     fields |-> info.fields, defaults |-> info.defaults, nkwonly |-> info.nkwonly,
     n_trailing_defaults |-> info.n_trailing_defaults, codecs |-> info.codecs,
     alias_fields |-> info.alias_fields, layout |-> info.layout,
     offsets |-> [i \in DOMAIN info.fields |->
                     OwnOffset(info.fields[i], info.offsets_lk[info.fields[i]])],
     hash_offset |-> OwnOffset(CachedHash, info.hash_offset),
     has_weakref |-> info.has_weakref \/ info.option["weakref"] = "true",
     has_dict |-> info.has_dict \/ info.option["dict"] = "true",
     option |-> info.option, rename |-> info.rename,
     tag |-> IF Tagged THEN info.tag ELSE Null,
     tag_field |-> IF Tagged THEN TagField ELSE Null,
     tag_value |-> IF Tagged THEN TagValue ELSE Null]

LEMMA FinishDoes ==
    ASSUME Finish
    PROVE  /\ info.at = "tag" /\ info' = None
           /\ \/ classes' = classes
              \/ /\ classes' = Append(classes, Finished)
                 /\ Tagged => info.tag \notin Unusable /\ TagField \in Key /\ ~TagConflicts
<1>1. \/ classes' = classes
      \/ /\ classes' = Append(classes, Finished)
         /\ Tagged => info.tag \notin Unusable /\ TagField \in Key /\ ~TagConflicts
  BY DEF Finish, Finished, Refuse
<1> QED BY <1>1 DEF Finish, At, Refuse

LEMMA TypeRefusesDoes ==
    ASSUME TypeRefuses PROVE info' = None /\ classes' = classes
BY DEF TypeRefuses, Refuse

-----------------------------------------------------------------------------
(* Types.                                                                   *)

Settings == {"unset", "true", "false"}

(* The class number n has its types.                                        *)
ClassTyped(n) ==
    LET c == classes[n] IN
    /\ c.bases \in Seq(1..n - 1 \cup Mixin) /\ c.ancestors \subseteq 1..n - 1
    /\ c.fields \in Seq(Name) /\ Distinct(c.fields)
    /\ c.alias_fields \in Seq(Key) /\ Len(c.alias_fields) = Len(c.fields)
    /\ Len(c.codecs) = Len(c.fields) /\ Len(c.offsets) = Len(c.fields)
    /\ c.option \in [Option -> Settings]
    /\ c.rename \in Rename \cup {Null} /\ c.tag_field \in Key \cup {Null}

ClassesTyped ==
    /\ \E S : classes \in Seq(S)
    /\ Len(classes) <= Len(Menu)
    /\ \A n \in 1..Len(classes) : ClassTyped(n) /\ n \notin Mixin

Stages == {"bases", "fields", "codecs", "aliases", "type", "tag"}
Constructed == {"codecs", "aliases", "type", "tag"}

(* The bases that are still to be read are the first ones of the statement. *)
Reading ==
    /\ Len(classes) < Len(Menu)
    /\ info.bases \in Seq(1..Len(classes) \cup Mixin)
    /\ info.rest \in Seq(1..Len(classes) \cup Mixin) /\ Len(info.rest) <= Len(info.bases)
    /\ \A i \in 1..Len(info.rest) : info.rest[i] = info.bases[i]
    /\ info.at # "bases" => info.rest = <<>>

(* What is collected has its types.                                         *)
Collected ==
    /\ info.defaults_lk \in Seq(Name) /\ Distinct(info.defaults_lk)
    /\ info.kwonly \subseteq ToSet(info.defaults_lk)
    /\ info.slots \ {CachedHash} \subseteq ToSet(info.defaults_lk)
    /\ info.renamed \in [Name -> Key]
    /\ DOMAIN info.default = Name /\ DOMAIN info.offsets_lk = Name
    /\ info.default = [f \in Name |-> info.default[f]]
    /\ info.option \in [Option -> Settings]
    /\ info.rename \in Rename \cup {Null}

(* What is constructed is as long as it must be.                            *)
Arranged ==
    /\ info.at \in Constructed => info.fields = Ordered
    /\ info.at \in Constructed \ {"codecs"} => Len(info.codecs) = Len(info.fields)
    /\ info.at \in {"type", "tag"} => info.alias_fields = Aliases /\ Injective(Aliases)

Typed ==
    /\ ClassesTyped
    /\ \/ info = None
       \/ info.at \in Stages /\ DOMAIN info = Parts /\ Reading /\ Collected /\ Arranged

LEMMA IndexIs ==
    ASSUME NEW c, c.fields \in Seq(Name), Distinct(c.fields), NEW f \in ToSet(c.fields)
    PROVE  /\ IndexOf(c, f) \in 1..Len(c.fields) /\ c.fields[IndexOf(c, f)] = f
           /\ \A i \in 1..Len(c.fields) : c.fields[i] = f => i = IndexOf(c, f)
<1>1. DOMAIN c.fields = 1..Len(c.fields)
  BY SeqIs
<1>2. PICK i \in DOMAIN c.fields : c.fields[i] = f
  BY DEF ToSet
<1>3. IndexOf(c, f) \in DOMAIN c.fields /\ c.fields[IndexOf(c, f)] = f
  BY <1>2 DEF IndexOf
<1> QED BY <1>1, <1>3 DEF Distinct

LEMMA ToSetOf ==
    ASSUME NEW X, NEW s \in Seq(X)
    PROVE  /\ ToSet(s) \subseteq X
           /\ \A x : x \in ToSet(s) <=> \E i \in 1..Len(s) : s[i] = x
BY SeqIs DEF ToSet

LEMMA ToSetConcat ==
    ASSUME NEW X, NEW s \in Seq(X), NEW t \in Seq(X)
    PROVE  s \o t \in Seq(X) /\ ToSet(s \o t) = ToSet(s) \cup ToSet(t)
<1> DEFINE w == s \o t
<1>1. /\ w \in Seq(X) /\ Len(w) = Len(s) + Len(t)
      /\ \A i \in 1..Len(s) + Len(t) : w[i] = IF i <= Len(s) THEN s[i] ELSE t[i - Len(s)]
  BY ConcatProperties
<1>2. Len(s) \in Nat /\ Len(t) \in Nat
  BY SeqIs
<1>3. /\ \A x : x \in ToSet(s) <=> \E i \in 1..Len(s) : s[i] = x
      /\ \A x : x \in ToSet(t) <=> \E i \in 1..Len(t) : t[i] = x
      /\ \A x : x \in ToSet(w) <=> \E i \in 1..Len(w) : w[i] = x
  <2> HIDE DEF w
  <2> QED BY <1>1, ToSetOf
<1> HIDE DEF w
<1>4. ASSUME NEW x \in ToSet(w) PROVE x \in ToSet(s) \cup ToSet(t)
  <2>1. PICK i \in 1..Len(s) + Len(t) : w[i] = x
    BY <1>1, <1>3
  <2>2. CASE i <= Len(s)
    <3>1. i \in 1..Len(s) /\ s[i] = x
      BY <1>1, <2>1, <2>2
    <3> QED BY <1>3, <3>1
  <2>3. CASE ~(i <= Len(s))
    <3>1. i - Len(s) \in 1..Len(t) /\ t[i - Len(s)] = x
      BY <1>1, <1>2, <2>1, <2>3
    <3> QED BY <1>3, <3>1
  <2> QED BY <2>2, <2>3
<1>5. ASSUME NEW x \in ToSet(s) PROVE x \in ToSet(w)
  <2>1. PICK i \in 1..Len(s) : s[i] = x
    BY <1>3
  <2>2. i \in 1..Len(s) + Len(t) /\ w[i] = x
    BY <1>1, <1>2, <2>1
  <2> QED BY <1>1, <1>3, <2>2
<1>6. ASSUME NEW x \in ToSet(t) PROVE x \in ToSet(w)
  <2>1. PICK i \in 1..Len(t) : t[i] = x
    BY <1>3
  <2>2. /\ Len(s) + i \in 1..Len(s) + Len(t) /\ ~(Len(s) + i <= Len(s))
        /\ (Len(s) + i) - Len(s) = i
    BY <1>2
  <2>3. w[Len(s) + i] = x
    BY <1>1, <2>1, <2>2
  <2> QED BY <1>1, <1>3, <2>2, <2>3
<1> QED BY <1>1, <1>4, <1>5, <1>6 DEF w

LEMMA DistinctConcat ==
    ASSUME NEW X, NEW s \in Seq(X), NEW t \in Seq(X), Distinct(s), Distinct(t),
           ToSet(s) \cap ToSet(t) = {}
    PROVE  Distinct(s \o t)
<1> DEFINE w == s \o t
<1>1. /\ w \in Seq(X) /\ Len(w) = Len(s) + Len(t)
      /\ \A i \in 1..Len(s) + Len(t) : w[i] = IF i <= Len(s) THEN s[i] ELSE t[i - Len(s)]
  BY ConcatProperties
<1>2. Len(s) \in Nat /\ Len(t) \in Nat
  BY SeqIs
<1> HIDE DEF w
<1>3. \A i \in 1..Len(w) : \/ i \in 1..Len(s) /\ w[i] = s[i]
                           \/ ~(i <= Len(s)) /\ i - Len(s) \in 1..Len(t)
                              /\ w[i] = t[i - Len(s)]
  BY <1>1, <1>2
<1>4. \A i \in 1..Len(s), j \in 1..Len(t) : s[i] # t[j]
  BY ToSetOf
<1>5. ASSUME NEW i \in 1..Len(w), NEW j \in 1..Len(w), w[i] = w[j] PROVE i = j
  <2>1. CASE i \in 1..Len(s) /\ j \in 1..Len(s)
    BY <1>1, <1>2, <1>5, <2>1 DEF Distinct
  <2>2. CASE ~(i <= Len(s)) /\ ~(j <= Len(s))
    <3>1. i - Len(s) \in 1..Len(t) /\ j - Len(s) \in 1..Len(t)
          /\ t[i - Len(s)] = t[j - Len(s)]
      BY <1>3, <1>5, <2>2
    <3>2. i - Len(s) = j - Len(s)
      BY <3>1 DEF Distinct
    <3> QED BY <1>1, <1>2, <3>2
  <2> QED BY <1>2, <1>3, <1>4, <1>5, <2>1, <2>2
<1> QED BY <1>5 DEF Distinct, w

LEMMA AppendIs ==
    ASSUME NEW X, NEW s \in Seq(X), NEW x \in X
    PROVE  /\ Append(s, x) \in Seq(X) /\ Len(Append(s, x)) = Len(s) + 1
           /\ Append(s, x)[Len(s) + 1] = x
           /\ \A i \in 1..Len(s) : Append(s, x)[i] = s[i]
           /\ ToSet(Append(s, x)) = ToSet(s) \cup {x}
           /\ Distinct(s) /\ x \notin ToSet(s) => Distinct(Append(s, x))
<1> DEFINE w == Append(s, x)
<1>1. /\ w \in Seq(X) /\ Len(w) = Len(s) + 1 /\ w[Len(s) + 1] = x
      /\ \A i \in 1..Len(s) : w[i] = s[i]
  BY AppendProperties
<1>2. Len(s) \in Nat
  BY SeqIs
<1> HIDE DEF w
<1>3. \A i : i \in 1..Len(w) <=> i \in 1..Len(s) \/ i = Len(s) + 1
  BY <1>1, <1>2
<1>4. /\ \A y : y \in ToSet(s) <=> \E i \in 1..Len(s) : s[i] = y
      /\ \A y : y \in ToSet(w) <=> \E i \in 1..Len(w) : w[i] = y
  BY <1>1, ToSetOf
<1>5. \A y : y \in ToSet(w) <=> y \in ToSet(s) \/ y = x
  BY <1>1, <1>3, <1>4
<1>6. ToSet(w) = ToSet(s) \cup {x}
  BY <1>5
<1>7. Distinct(s) /\ x \notin ToSet(s) => Distinct(w)
  BY <1>1, <1>3, <1>4 DEF Distinct
<1> QED BY <1>1, <1>6, <1>7 DEF w

(* structmeta_construct_fields loses no field.                              *)
LEMMA OrderedHas ==
    ASSUME info.defaults_lk \in Seq(Name), Distinct(info.defaults_lk),
           info.kwonly \subseteq ToSet(info.defaults_lk)
    PROVE  /\ Ordered \in Seq(Name) /\ Distinct(Ordered)
           /\ ToSet(Ordered) = ToSet(info.defaults_lk)
           /\ NPositional \in 0..Len(Ordered)
           /\ \A i \in 1..Len(Ordered) : Ordered[i] \in info.kwonly <=> i > NPositional
<1> DEFINE lk == info.defaults_lk
           a == Picked(lk, Name \ info.kwonly)
           b == Picked(lk, info.kwonly)
<1>1. /\ a \in Seq(Name) /\ ToSet(a) = ToSet(lk) \cap (Name \ info.kwonly)
      /\ b \in Seq(Name) /\ ToSet(b) = ToSet(lk) \cap info.kwonly
  BY PickedHas
<1>2. Distinct(a) /\ Distinct(b)
  BY PickedDistinct
<1>3. Injective(a) /\ ToSet(a) = ToSet(lk) \ info.kwonly
  BY <1>1, <1>2, DistinctIsInjective, ToSetOf
<1>4. NPositional = Len(a)
  BY <1>3 DEF NPositional, Injective
<1> HIDE DEF a, b
<1>5. ToSet(a) \cap ToSet(b) = {}
  BY <1>1
<1>6. Ordered = a \o b
  BY DEF Ordered, a, b
<1>7. Ordered \in Seq(Name) /\ Distinct(Ordered) /\ ToSet(Ordered) = ToSet(a) \cup ToSet(b)
  BY <1>1, <1>2, <1>5, <1>6, ToSetConcat, DistinctConcat
<1>8. ToSet(Ordered) = ToSet(lk)
  BY <1>1, <1>7, ToSetOf
<1>9. /\ Len(Ordered) = Len(a) + Len(b)
      /\ \A i \in 1..Len(a) + Len(b) :
            Ordered[i] = IF i <= Len(a) THEN a[i] ELSE b[i - Len(a)]
  BY <1>1, <1>6, ConcatProperties
<1>10. /\ Len(a) \in Nat /\ Len(b) \in Nat
       /\ \A i \in 1..Len(a) : a[i] \in ToSet(a)
       /\ \A i \in 1..Len(b) : b[i] \in ToSet(b)
  BY <1>1, SeqIs, ToSetOf
<1>11. ASSUME NEW i \in 1..Len(Ordered)
       PROVE  Ordered[i] \in info.kwonly <=> i > NPositional
  <2>1. CASE i <= Len(a)
    <3>1. i \in 1..Len(a) /\ Ordered[i] = a[i]
      BY <1>9, <1>10, <2>1
    <3> QED BY <1>1, <1>4, <1>10, <2>1, <3>1
  <2>2. CASE ~(i <= Len(a))
    <3>1. i - Len(a) \in 1..Len(b) /\ Ordered[i] = b[i - Len(a)]
      BY <1>9, <1>10, <2>2
    <3> QED BY <1>1, <1>4, <1>10, <2>2, <3>1
  <2> QED BY <2>1, <2>2
<1> QED BY <1>4, <1>7, <1>8, <1>9, <1>10, <1>11

LEMMA ClassesListed ==
    ASSUME ClassesTyped
    PROVE  /\ Len(classes) \in Nat /\ DOMAIN classes = 1..Len(classes)
           /\ \A c : /\ Len(Append(classes, c)) = Len(classes) + 1
                     /\ \A n \in 1..Len(classes) : Append(classes, c)[n] = classes[n]
                     /\ Append(classes, c)[Len(classes) + 1] = c
                     /\ \E S : Append(classes, c) \in Seq(S)
<1>1. PICK S : classes \in Seq(S)
  BY DEF ClassesTyped
<1>2. ASSUME NEW c
      PROVE  /\ Len(Append(classes, c)) = Len(classes) + 1
             /\ \A n \in 1..Len(classes) : Append(classes, c)[n] = classes[n]
             /\ Append(classes, c)[Len(classes) + 1] = c
             /\ Append(classes, c) \in Seq(S \cup {c})
  <2>1. classes \in Seq(S \cup {c}) /\ c \in S \cup {c}
    <3>1. DOMAIN classes = 1..Len(classes) /\ Len(classes) \in Nat /\ IsSeq(classes)
          /\ \A i \in 1..Len(classes) : classes[i] \in S
      BY <1>1, SeqIs
    <3> QED BY <3>1 DEF IsSeq
  <2> QED BY <2>1, AppendIs
<1> QED BY <1>1, <1>2, SeqIs

LEMMA ThisInMenu ==
    ASSUME ClassesTyped, Len(classes) < Len(Menu)
    PROVE  This \in 1..Len(Menu)
BY ClassesListed, ConstantsOK DEF This

LEMMA FrontIs ==
    ASSUME NEW X, NEW s \in Seq(X), s # <<>>
    PROVE  /\ Front(s) \in Seq(X) /\ Len(Front(s)) = Len(s) - 1 /\ Len(s) \in Nat \ {0}
           /\ \A i \in 1..Len(s) - 1 : Front(s)[i] = s[i]
           /\ Last(s) = s[Len(s)] /\ Last(s) \in X
<1>1. Len(s) \in Nat /\ Len(s) # 0
  BY SeqIs, EmptySeq
<1>2. Front(s) = SubSeq(s, 1, Len(s) - 1)
  BY DEF Front
<1>3. 1 \in 1..Len(s) + 1 /\ Len(s) - 1 \in 1 - 1..Len(s)
  BY <1>1
<1> DEFINE m == Len(s) - 1
<1>4. m \in 1 - 1..Len(s)
  BY <1>3
<1> HIDE DEF m
<1>5. /\ SubSeq(s, 1, m) \in Seq(X)
      /\ Len(SubSeq(s, 1, m)) = IF m < 1 THEN 0 ELSE m - 1 + 1
      /\ \A i \in 1..m - 1 + 1 : SubSeq(s, 1, m)[i] = s[1 + i - 1]
  BY <1>3, <1>4, SubSeqProperties
<1>6. \A i \in 1..m : 1 + i - 1 = i
  BY <1>1, <1>4
<1>7. m - 1 + 1 = m /\ m \in Nat
  BY <1>1, <1>4
<1>8. \A i \in 1..m : SubSeq(s, 1, m)[i] = s[i]
  BY <1>5, <1>6, <1>7
<1>9. Len(SubSeq(s, 1, m)) = m
  BY <1>5, <1>7
<1>10. Last(s) = s[Len(s)]
  BY DEF Last
<1>11. Last(s) \in X
  BY <1>1, <1>10, SeqIs
<1> QED BY <1>1, <1>2, <1>5, <1>8, <1>9, <1>10, <1>11 DEF m

LEMMA AliasIs ==
    ASSUME NEW n, ClassTyped(n), NEW f \in ToSet(classes[n].fields)
    PROVE  AliasOf(classes[n], f) \in Key
<1>1. IndexOf(classes[n], f) \in 1..Len(classes[n].alias_fields)
  BY IndexIs DEF ClassTyped
<1>2. classes[n].alias_fields \in Seq(Key)
  BY DEF ClassTyped
<1> QED BY <1>1, <1>2, SeqIs DEF AliasOf

LEMMA ReadingKept ==
    ASSUME Reading, classes' = classes, info'.bases = info.bases, info'.rest = info.rest,
           info'.at # "bases"  => info.at # "bases" \/ info.rest = <<>>
    PROVE  Reading'
BY DEF Reading

LEMMA ReadingNext ==
    ASSUME Reading, classes' = classes, info'.bases = info.bases, info'.at = info.at,
           info.at = "bases", info.rest # <<>>, info'.rest = Front(info.rest)
    PROVE  Reading'
<1>1. /\ info.rest \in Seq(1..Len(classes) \cup Mixin) /\ Len(info.rest) <= Len(info.bases)
      /\ info.bases \in Seq(1..Len(classes) \cup Mixin)
      /\ \A i \in 1..Len(info.rest) : info.rest[i] = info.bases[i]
  BY DEF Reading
<1>2. /\ Front(info.rest) \in Seq(1..Len(classes) \cup Mixin)
      /\ Len(Front(info.rest)) = Len(info.rest) - 1 /\ Len(info.rest) \in Nat \ {0}
      /\ \A i \in 1..Len(info.rest) - 1 : Front(info.rest)[i] = info.rest[i]
  BY <1>1, FrontIs
<1>3. Len(info.bases) \in Nat
  BY <1>1, SeqIs
<1>4. Len(info'.rest) <= Len(info'.bases)
  BY <1>1, <1>2, <1>3
<1>5. \A i \in 1..Len(info'.rest) : info'.rest[i] = info'.bases[i]
  BY <1>1, <1>2
<1> QED BY <1>1, <1>2, <1>4, <1>5 DEF Reading

(* The base that is read next.                                              *)
LEMMA NextBase ==
    ASSUME Reading, info.rest # <<>>
    PROVE  /\ Last(info.rest) = info.bases[Len(info.rest)]
           /\ Len(info.rest) \in 1..Len(info.bases)
           /\ Last(info.rest) \notin Mixin => Last(info.rest) \in 1..Len(classes)
<1>1. /\ Last(info.rest) = info.rest[Len(info.rest)] /\ Len(info.rest) \in Nat \ {0}
      /\ Last(info.rest) \in 1..Len(classes) \cup Mixin
  BY FrontIs DEF Reading
<1>2. Len(info.rest) <= Len(info.bases) /\ Len(info.bases) \in Nat
  BY SeqIs DEF Reading
<1> QED BY <1>1, <1>2 DEF Reading

LEMMA CollectedKept ==
    ASSUME Collected, info'.defaults_lk = info.defaults_lk, info'.kwonly = info.kwonly,
           info'.slots \ {CachedHash} \subseteq info.slots \ {CachedHash},
           info'.renamed = info.renamed, info'.default = info.default,
           info'.offsets_lk = info.offsets_lk, info'.option = info.option,
           info'.rename = info.rename
    PROVE  Collected'
BY DEF Collected

LEMMA CollectedBase ==
    ASSUME ClassesTyped, CollectBase, Reading, Collected, DOMAIN info = Parts
    PROVE  Collected'
<1> DEFINE c == classes[Last(info.rest)]
           new == Picked(c.fields, Name \ ToSet(info.defaults_lk))
<1>1. /\ info.rest # <<>> /\ Last(info.rest) \notin Mixin
      /\ classes' = classes /\ DOMAIN info' = Parts
      /\ Keeps({"rest", "has_weakref", "has_dict", "hash_offset", "tag_field", "tag",
                "rename", "option", "defaults_lk", "default", "kwonly", "renamed",
                "offsets_lk"})
      /\ info'.defaults_lk = info.defaults_lk \o new
      /\ info'.kwonly = (info.kwonly \ ToSet(c.fields)) \cup KwOnly(c)
  BY CollectBaseDoes
<1>2. /\ info'.default = [f \in Name |-> IF f \in ToSet(c.fields) THEN DefaultOf(c, f)
                                         ELSE info.default[f]]
      /\ info'.renamed = [f \in Name |-> IF f \in ToSet(c.fields) /\ AliasOf(c, f) # f
                                         THEN AliasOf(c, f) ELSE info.renamed[f]]
      /\ info'.offsets_lk = [f \in Name |-> IF f \in ToSet(c.fields) THEN OffsetOf(c, f)
                                            ELSE info.offsets_lk[f]]
      /\ info'.option = [o \in Option |->
                            IF o \in Inherited /\ c.option[o] # "unset"
                            THEN c.option[o] ELSE info.option[o]]
      /\ info'.rename = Given(c.rename, info.rename)
  BY CollectBaseDoes
<1>3. Last(info.rest) \in 1..Len(classes)
  BY <1>1, NextBase
<1>4. ClassTyped(Last(info.rest))
  BY <1>3 DEF ClassesTyped
<1>5. c.fields \in Seq(Name) /\ Distinct(c.fields) /\ c.option \in [Option -> Settings]
      /\ c.rename \in Rename \cup {Null}
  BY <1>4 DEF ClassTyped
<1>6. \A f \in ToSet(c.fields) : AliasOf(c, f) \in Key
  BY <1>4, AliasIs
<1> HIDE DEF c
<1>7. /\ new \in Seq(Name) /\ Distinct(new)
      /\ ToSet(new) = ToSet(c.fields) \cap (Name \ ToSet(info.defaults_lk))
  BY <1>5, PickedHas, PickedDistinct
<1> HIDE DEF new
<1>8. /\ info'.defaults_lk \in Seq(Name) /\ Distinct(info'.defaults_lk)
      /\ ToSet(info'.defaults_lk) = ToSet(info.defaults_lk) \cup ToSet(new)
  <2>1. ToSet(info.defaults_lk) \cap ToSet(new) = {}
    BY <1>7
  <2> QED BY <1>1, <1>7, <2>1, ToSetConcat, DistinctConcat DEF Collected
<1>9. ToSet(c.fields) \subseteq ToSet(info'.defaults_lk)
  BY <1>5, <1>7, <1>8, ToSetOf
<1>10. info'.kwonly \subseteq ToSet(info'.defaults_lk)
  BY <1>1, <1>8, <1>9 DEF Collected, KwOnly
<1>11. info'.slots \ {CachedHash} \subseteq ToSet(info'.defaults_lk)
  BY <1>1, <1>8 DEF Collected, Keeps, Parts
<1>12. info'.renamed \in [Name -> Key]
  BY <1>2, <1>6 DEF Collected
<1>13. /\ DOMAIN info'.default = Name /\ DOMAIN info'.offsets_lk = Name
       /\ info'.default = [f \in Name |-> info'.default[f]]
  BY <1>2
<1>14. info'.option \in [Option -> Settings]
  BY <1>2, <1>5 DEF Collected
<1>15. info'.rename \in Rename \cup {Null}
  BY <1>2, <1>5 DEF Collected, Given
<1> QED BY <1>8, <1>10, <1>11, <1>12, <1>13, <1>14, <1>15 DEF Collected

LEMMA CollectedSpec ==
    ASSUME ClassesTyped, Reading, Collected, DOMAIN info = Parts, ApplySpec
    PROVE  info' = None \/ Collected'
<1>1. \/ info' = None
      \/ \E spec \in Menu[This].specs :
            /\ Keeps({"at", "spec", "option", "tag", "tag_field", "rename"})
            /\ info'.option = [o \in Option |-> Of(spec, o, info.option[o])]
            /\ info'.rename = Of(spec, "rename", info.rename)
  BY ApplySpecDoes
<1> SUFFICES ASSUME NEW spec \in Menu[This].specs,
                    Keeps({"at", "spec", "option", "tag", "tag_field", "rename"}),
                    info'.option = [o \in Option |-> Of(spec, o, info.option[o])],
                    info'.rename = Of(spec, "rename", info.rename)
             PROVE  Collected'
  BY <1>1
<1>2. This \in 1..Len(Menu)
  BY ThisInMenu DEF Reading
<1>3. /\ \A o \in Option \cap DOMAIN spec : spec[o] \in {"true", "false"}
      /\ "rename" \in DOMAIN spec => spec.rename \in Rename \cup {Null}
  BY <1>2, ConstantsOK
<1>4. info'.option \in [Option -> Settings]
  BY <1>3 DEF Collected, Of, Settings
<1>5. info'.rename \in Rename \cup {Null}
  BY <1>3 DEF Collected, Of
<1> QED BY <1>4, <1>5 DEF Collected, Keeps, Parts

LEMMA CollectedField ==
    ASSUME ClassesTyped, Reading, Collected, DOMAIN info = Parts, CollectField
    PROVE  info' = None \/ Collected'
<1>1. \/ info' = None
      \/ \E item \in Menu[This].items : ReadsClassVar(item) \/ ReadsField(item)
  BY CollectFieldDoes
<1>2. ASSUME NEW item \in Menu[This].items, ReadsClassVar(item) PROVE Collected'
  BY <1>2, CollectedKept DEF ReadsClassVar, Keeps, Parts
<1>3. ASSUME NEW item \in Menu[This].items, ReadsField(item) PROVE Collected'
  <2> DEFINE f == item.name
             lk == info.defaults_lk
  <2>1. item.name \in Name /\ item.alias \in Key \cup {Null}
    BY ThisInMenu, ConstantsOK DEF Reading
  <2>2. /\ lk \in Seq(Name) /\ Distinct(lk) /\ info.kwonly \subseteq ToSet(lk)
        /\ info.slots \ {CachedHash} \subseteq ToSet(lk)
        /\ info.renamed \in [Name -> Key] /\ info.option \in [Option -> Settings]
        /\ info.rename \in Rename \cup {Null}
        /\ DOMAIN info.default = Name /\ DOMAIN info.offsets_lk = Name
    BY DEF Collected
  <2>3. info'.defaults_lk = IF f \in ToSet(lk) THEN lk ELSE Append(lk, f)
    BY <1>3 DEF ReadsField
  <2>4. /\ Append(lk, f) \in Seq(Name) /\ ToSet(Append(lk, f)) = ToSet(lk) \cup {f}
        /\ f \notin ToSet(lk) => Distinct(Append(lk, f))
    BY <2>1, <2>2, AppendIs
  <2>5. /\ info'.defaults_lk \in Seq(Name) /\ Distinct(info'.defaults_lk)
        /\ ToSet(info'.defaults_lk) = ToSet(lk) \cup {f}
    BY <2>2, <2>3, <2>4
  <2>6. info'.kwonly \subseteq info.kwonly \cup {f}
    BY <1>3 DEF ReadsField
  <2>7. info'.slots \subseteq info.slots \cup {f}
    BY <1>3 DEF ReadsField
  <2>8. Renamed(item) \in Key
    <3>1. info.rename # Null /\ item.alias = Null => info.rename[f] \in Key
      BY <1>3, <2>2, ConstantsOK DEF ReadsField, Acceptable
    <3> QED BY <2>1, <2>2, <3>1 DEF Renamed
  <2>9. info'.renamed \in [Name -> Key]
    BY <1>3, <2>1, <2>2, <2>8 DEF ReadsField
  <2>10. /\ DOMAIN info'.default = Name
         /\ info'.default = [g \in Name |-> info'.default[g]]
    BY <1>3, <2>2 DEF ReadsField
  <2>11. info'.option = info.option /\ info'.rename = info.rename
         /\ info'.offsets_lk = info.offsets_lk
    BY <1>3 DEF ReadsField, Keeps, Parts
  <2> HIDE DEF lk, f
  <2>12. info'.kwonly \subseteq ToSet(info'.defaults_lk)
         /\ info'.slots \ {CachedHash} \subseteq ToSet(info'.defaults_lk)
    BY <2>2, <2>5, <2>6, <2>7
  <2> QED BY <2>2, <2>5, <2>9, <2>10, <2>11, <2>12 DEF Collected
<1> QED BY <1>1, <1>2, <1>3

LEMMA CollectedFresh ==
    ASSUME NEW bases, info' = Fresh(bases)
    PROVE  Collected'
<1>1. /\ info'.defaults_lk = <<>> /\ info'.kwonly = {}
      /\ info'.slots = {} /\ info'.renamed = [f \in Name |-> f]
      /\ info'.option = [o \in Option |-> "unset"] /\ info'.rename = Null
      /\ info'.default = [f \in Name |-> NODEFAULT]
      /\ info'.offsets_lk = [f \in Name |-> 0]
  BY FreshIs
<1>2. info'.defaults_lk \in Seq(Name) /\ Distinct(info'.defaults_lk)
  <2>1. <<>> \in Seq(Name) /\ Len(<<>>) = 0
    BY EmptySeq
  <2> QED BY <1>1, <2>1 DEF Distinct
<1>3. info'.renamed \in [Name -> Key]
  BY <1>1, ConstantsOK
<1>4. info'.option \in [Option -> Settings]
  BY <1>1 DEF Settings
<1>5. info'.default = [f \in Name |-> info'.default[f]]
      /\ DOMAIN info'.default = Name /\ DOMAIN info'.offsets_lk = Name
  BY <1>1
<1> QED BY <1>1, <1>2, <1>3, <1>4, <1>5 DEF Collected

LEMMA OrderedKept ==
    ASSUME info'.defaults_lk = info.defaults_lk, info'.kwonly = info.kwonly
    PROVE  Ordered' = Ordered
BY DEF Ordered

LEMMA AliasesKept ==
    ASSUME info'.fields = info.fields, info'.renamed = info.renamed
    PROVE  Aliases' = Aliases
BY DEF Aliases

(* What the class is made from stays once it is constructed.                *)
LEMMA ArrangedStep ==
    ASSUME Collected, Arranged, info.at \in Stages, DOMAIN info = Parts,
           ConstructFields \/ CollectCodecs \/ ConstructAliasFields \/ TypeNew
    PROVE  info' = None \/ (Arranged' /\ info'.at \in Stages)
<1>1. /\ Ordered \in Seq(Name)
  BY OrderedHas DEF Collected
<1>2. CASE ConstructFields
  <2>1. \/ info' = None
        \/ /\ info'.at = "codecs" /\ info'.fields = Ordered
           /\ info'.defaults_lk = info.defaults_lk /\ info'.kwonly = info.kwonly
    BY <1>2, ConstructFieldsDoes DEF Keeps, Parts
  <2> QED BY <2>1, OrderedKept DEF Arranged, Stages, Constructed
<1>3. CASE CollectCodecs
  <2>1. \/ info' = None
        \/ /\ info'.at = "aliases" /\ info'.codecs = CodecsMapped
           /\ info'.fields = info.fields
           /\ info'.defaults_lk = info.defaults_lk /\ info'.kwonly = info.kwonly
    BY <1>3, CollectCodecsDoes DEF Keeps, Parts
  <2>2. info.fields = Ordered
    BY <1>3, CollectCodecsDoes DEF Arranged, Constructed
  <2>3. DOMAIN info.fields = 1..Len(info.fields) /\ Len(info.fields) \in Nat
    BY <1>1, <2>2, SeqIs
  <2>4. Len(CodecsMapped) = Len(info.fields)
    BY <2>3 DEF CodecsMapped
  <2> QED BY <2>1, <2>2, <2>4, OrderedKept DEF Arranged, Stages, Constructed
<1>4. CASE ConstructAliasFields
  <2>1. \/ info' = None
        \/ /\ info'.at = "type" /\ info'.alias_fields = Aliases /\ Injective(Aliases)
           /\ info'.fields = info.fields /\ info'.codecs = info.codecs
           /\ info'.renamed = info.renamed
           /\ info'.defaults_lk = info.defaults_lk /\ info'.kwonly = info.kwonly
    BY <1>4, ConstructAliasFieldsDoes DEF Keeps, Parts
  <2>2. info.fields = Ordered /\ Len(info.codecs) = Len(info.fields)
    BY <1>4, ConstructAliasFieldsDoes DEF Arranged, Constructed
  <2> QED BY <2>1, <2>2, OrderedKept, AliasesKept DEF Arranged, Stages, Constructed
<1>5. CASE TypeNew
  <2>1. /\ info'.at = "tag" /\ info'.alias_fields = info.alias_fields
        /\ info'.fields = info.fields /\ info'.codecs = info.codecs
        /\ info'.renamed = info.renamed
        /\ info'.defaults_lk = info.defaults_lk /\ info'.kwonly = info.kwonly
    BY <1>5, TypeNewDoes DEF Keeps, Parts
  <2>2. /\ info.fields = Ordered /\ Len(info.codecs) = Len(info.fields)
        /\ info.alias_fields = Aliases /\ Injective(Aliases)
    BY <1>5, TypeNewDoes DEF Arranged, Constructed
  <2> QED BY <2>1, <2>2, OrderedKept, AliasesKept DEF Arranged, Stages, Constructed
<1> QED BY <1>2, <1>3, <1>4, <1>5

LEMMA ArrangedStart ==
    ASSUME info'.at \in {"bases", "fields"}
    PROVE  Arranged'
BY DEF Arranged, Constructed

(* What is in the class that Finish makes.                                  *)
LEMMA FinishedTyped ==
    ASSUME ClassesTyped, Reading, Collected, Arranged, info.at = "tag",
           classes' = Append(classes, Finished), Tagged => TagField \in Key
    PROVE  ClassesTyped' /\ Len(classes') = This /\ classes'[This] = Finished
           /\ \A n \in 1..Len(classes) : classes'[n] = classes[n]
<1>1. /\ Len(classes') = Len(classes) + 1 /\ Len(classes) \in Nat
      /\ \A n \in 1..Len(classes) : classes'[n] = classes[n]
      /\ classes'[This] = Finished
      /\ \E S : classes' \in Seq(S)
  BY ClassesListed DEF This
<1>2. This \in 1..Len(Menu) /\ This \notin Mixin
  BY ThisInMenu, ConstantsOK DEF Reading
<1>3. /\ info.fields \in Seq(Name) /\ Distinct(info.fields)
  BY OrderedHas DEF Collected, Arranged, Constructed
<1>4. DOMAIN info.fields = 1..Len(info.fields) /\ Len(info.fields) \in Nat
      /\ \A i \in 1..Len(info.fields) : info.fields[i] \in Name
  BY <1>3, SeqIs
<1>5. ASSUME NEW n, n = This PROVE ClassTyped(n)'
  <2> DEFINE c == Finished
  <2>1. /\ c.bases = info.bases /\ c.fields = info.fields /\ c.codecs = info.codecs
        /\ c.alias_fields = info.alias_fields /\ c.option = info.option
        /\ c.rename = info.rename
        /\ c.offsets = [i \in DOMAIN info.fields |->
                     OwnOffset(info.fields[i], info.offsets_lk[info.fields[i]])]
        /\ c.tag_field = IF Tagged THEN TagField ELSE Null
    BY DEF Finished
  <2>2. c.ancestors = UNION {{b} \cup classes[b].ancestors : b \in StructBases(info.bases)}
    BY DEF Finished
  <2> HIDE DEF c
  <2>3. Len(c.offsets) = Len(info.fields)
    BY <1>4, <2>1
  <2>4. info.alias_fields \in Seq(Key) /\ Len(info.alias_fields) = Len(info.fields)
    <3>1. info.alias_fields = [i \in 1..Len(info.fields) |-> info.renamed[info.fields[i]]]
      BY <1>4 DEF Arranged, Aliases
    <3>2. \A i \in 1..Len(info.fields) : info.renamed[info.fields[i]] \in Key
      BY <1>4 DEF Collected
    <3> QED BY <1>4, <3>1, <3>2
  <2>5. Len(info.codecs) = Len(info.fields)
    BY DEF Arranged, Constructed
  <2>6. c.ancestors \subseteq 1..This - 1
    <3>1. \A b \in StructBases(info.bases) :
             b \in 1..Len(classes) /\ classes[b].ancestors \subseteq 1..b - 1
      <4>1. \A b \in StructBases(info.bases) : b \in 1..Len(classes)
        BY ToSetOf DEF StructBases, Reading
      <4> QED BY <4>1 DEF ClassesTyped, ClassTyped
    <3>2. \A b \in 1..Len(classes) : 1..b - 1 \subseteq 1..Len(classes)
      BY <1>1
    <3>3. This - 1 = Len(classes)
      BY <1>1 DEF This
    <3>4. \A b \in StructBases(info.bases) :
             b \in 1..Len(classes) /\ classes[b].ancestors \subseteq 1..Len(classes)
      BY <3>1, <3>2
    <3> QED BY <2>2, <3>3, <3>4
  <2>7. info.bases \in Seq(1..This - 1 \cup Mixin)
    <3>1. This - 1 = Len(classes)
      BY <1>1 DEF This
    <3> QED BY <3>1 DEF Reading
  <2>8. info.option \in [Option -> Settings] /\ info.rename \in Rename \cup {Null}
    BY DEF Collected
  <2>9. c.tag_field \in Key \cup {Null}
    BY <2>1
  <2>10. classes'[This] = c
    BY <1>1 DEF c
  <2> HIDE DEF This
  <2> SUFFICES /\ c.bases \in Seq(1..This - 1 \cup Mixin) /\ c.ancestors \subseteq 1..This - 1
               /\ c.fields \in Seq(Name) /\ Distinct(c.fields)
               /\ c.alias_fields \in Seq(Key) /\ Len(c.alias_fields) = Len(c.fields)
               /\ Len(c.codecs) = Len(c.fields) /\ Len(c.offsets) = Len(c.fields)
               /\ c.option \in [Option -> Settings]
               /\ c.rename \in Rename \cup {Null} /\ c.tag_field \in Key \cup {Null}
    BY <1>5, <2>10 DEF ClassTyped
  <2> QED BY <1>3, <2>1, <2>3, <2>4, <2>5, <2>6, <2>7, <2>8, <2>9
<1>6. \A n \in 1..Len(classes) : ClassTyped(n)' /\ n \notin Mixin
  BY <1>1 DEF ClassesTyped, ClassTyped
<1>7. \A n \in 1..Len(classes') : n \in 1..Len(classes) \/ n = This
  BY <1>1 DEF This
<1>8. Len(classes') <= Len(Menu) /\ Len(classes') = This /\ classes'[This] = Finished
  BY <1>1, <1>2 DEF This
<1> HIDE DEF This
<1> QED BY <1>1, <1>2, <1>5, <1>6, <1>7, <1>8 DEF ClassesTyped

LEMMA TypedInit == Init => Typed
<1> SUFFICES ASSUME Init PROVE Typed
  OBVIOUS
<1>1. classes \in Seq({}) /\ Len(classes) = 0
  BY EmptySeq DEF Init
<1>2. Len(Menu) \in Nat
  BY ConstantsOK
<1> QED BY <1>1, <1>2 DEF Init, Typed, ClassesTyped

InProgress ==
    info.at \in Stages /\ DOMAIN info = Parts /\ Reading /\ Collected /\ Arranged

LEMMA ClassesKept ==
    ASSUME ClassesTyped, classes' = classes
    PROVE  ClassesTyped'
BY DEF ClassesTyped, ClassTyped

LEMMA TypedStep == Typed /\ [Next]_vars => Typed'
<1> SUFFICES ASSUME Typed, [Next]_vars PROVE Typed'
  OBVIOUS
<1> USE DEF InProgress
<1>1. ClassesTyped /\ (info = None \/ InProgress)
  BY DEF Typed
<1>2. info = None => info.at = "none"
  BY NoneIs
<1>3. info.at # "none" => InProgress
  BY <1>1, <1>2
<1>4. classes' = classes => ClassesTyped'
  BY <1>1, ClassesKept
<1>5. CASE Begin
  <2>1. /\ Len(classes) < Len(Menu) /\ classes' = classes
        /\ \E bases \in Menu[This].bases : info' = Fresh(bases)
    BY <1>5, BeginDoes
  <2>2. PICK bases \in Menu[This].bases : info' = Fresh(bases)
    BY <2>1
  <2>3. This \in 1..Len(Menu) /\ This - 1 = Len(classes)
    BY <1>1, <2>1, ThisInMenu, ClassesListed DEF This
  <2>4. bases \in Seq(1..Len(classes) \cup Mixin)
    BY <2>3, ConstantsOK
  <2>5. /\ info'.at = "bases" /\ DOMAIN info' = Parts
        /\ info'.bases = bases /\ info'.rest = bases
    BY <2>2, FreshIs
  <2>6. Reading'
    BY <2>1, <2>4, <2>5, SeqIs DEF Reading
  <2>7. Collected' /\ Arranged'
    BY <2>2, <2>5, CollectedFresh, ArrangedStart
  <2> QED BY <1>4, <2>1, <2>5, <2>6, <2>7 DEF Typed, Stages
<1>6. CASE CollectMixin
  <2>1. InProgress /\ classes' = classes
    BY <1>1, <1>3, <1>6 DEF CollectMixin, At, Continue, Refuse
  <2>2. SUFFICES ASSUME info' # None PROVE InProgress'
    BY <1>4, <2>1 DEF Typed
  <2>3. /\ info.at = "bases" /\ info.rest # <<>>
        /\ DOMAIN info' = Parts /\ Keeps({"rest", "has_weakref", "has_dict"})
        /\ info'.rest = Front(info.rest)
    BY <1>6, <2>1, <2>2, CollectMixinDoes
  <2>4. Reading'
    BY <2>1, <2>3, ReadingNext DEF Keeps, Parts
  <2>5. Collected'
    BY <2>1, <2>3, CollectedKept DEF Keeps, Parts
  <2>6. info'.at = "bases"
    BY <2>3 DEF Keeps, Parts
  <2> QED BY <2>3, <2>4, <2>5, <2>6, ArrangedStart DEF Stages
<1>7. CASE CollectBase
  <2>1. InProgress /\ classes' = classes
    BY <1>1, <1>3, <1>7 DEF CollectBase, At, Continue
  <2>2. /\ info.at = "bases" /\ info.rest # <<>> /\ DOMAIN info' = Parts
        /\ info'.rest = Front(info.rest) /\ info'.at = info.at /\ info'.bases = info.bases
    BY <1>7, <2>1, CollectBaseDoes DEF Keeps, Parts
  <2>3. Collected'
    BY <1>1, <1>7, <2>1, CollectedBase
  <2>4. Reading'
    BY <2>1, <2>2, ReadingNext
  <2>5. InProgress'
    BY <2>2, <2>3, <2>4, ArrangedStart DEF Stages
  <2> QED BY <1>4, <2>1, <2>5 DEF Typed
<1>8. CASE ApplySpec
  <2>1. InProgress /\ classes' = classes
    BY <1>1, <1>3, <1>8 DEF ApplySpec, At, Continue, Refuse
  <2>2. SUFFICES ASSUME info' # None PROVE InProgress'
    BY <1>4, <2>1 DEF Typed
  <2>3. /\ info.at = "bases" /\ info.rest = <<>> /\ DOMAIN info' = Parts
        /\ info'.at = "fields" /\ info'.bases = info.bases /\ info'.rest = info.rest
    BY <1>8, <2>1, <2>2, ApplySpecDoes DEF Keeps, Parts
  <2>4. Collected'
    BY <1>1, <1>8, <2>1, <2>2, CollectedSpec
  <2>5. Reading'
    BY <2>1, <2>3, ReadingKept
  <2> QED BY <2>3, <2>4, <2>5, ArrangedStart DEF Stages
<1>9. CASE CollectField
  <2>1. InProgress /\ classes' = classes
    BY <1>1, <1>3, <1>9 DEF CollectField, At, Continue, Refuse
  <2>2. SUFFICES ASSUME info' # None PROVE InProgress'
    BY <1>4, <2>1 DEF Typed
  <2>3. info.at = "fields" /\ DOMAIN info' = Parts
        /\ \E item \in Menu[This].items : ReadsClassVar(item) \/ ReadsField(item)
    BY <1>9, <2>1, <2>2, CollectFieldDoes
  <2>4. info'.at = "fields" /\ info'.bases = info.bases /\ info'.rest = info.rest
    BY <2>3 DEF ReadsClassVar, ReadsField, Keeps, Parts
  <2>5. Collected'
    BY <1>1, <1>9, <2>1, <2>2, CollectedField
  <2>6. Reading'
    BY <2>1, <2>3, <2>4, ReadingKept
  <2> QED BY <2>3, <2>4, <2>5, <2>6, ArrangedStart DEF Stages
<1>10. CASE ConstructFields \/ CollectCodecs \/ ConstructAliasFields \/ TypeNew
  <2>1. InProgress /\ classes' = classes
    BY <1>1, <1>3, <1>10 DEF ConstructFields, CollectCodecs, ConstructAliasFields, TypeNew,
                             At, Continue, Refuse
  <2>2. SUFFICES ASSUME info' # None PROVE InProgress'
    BY <1>4, <2>1 DEF Typed
  <2>3. Arranged' /\ info'.at \in Stages
    BY <1>10, <2>1, <2>2, ArrangedStep
  <2>4. DOMAIN info' = Parts /\ info.at # "bases"
        /\ Keeps({"at", "fields", "defaults", "nkwonly", "n_trailing_defaults", "slots",
                  "codecs", "alias_fields", "layout"})
    BY <1>10, <2>1, <2>2, ConstructFieldsDoes, CollectCodecsDoes, ConstructAliasFieldsDoes,
       TypeNewDoes DEF Keeps
  <2>5. info'.slots \ {CachedHash} = info.slots \ {CachedHash}
    <3>1. \/ info'.slots = info.slots
          \/ info'.slots = info.slots \cup {CachedHash}
      BY <1>10, <2>1, <2>2, ConstructFieldsDoes, CollectCodecsDoes, ConstructAliasFieldsDoes,
         TypeNewDoes DEF Keeps, Parts
    <3> QED BY <3>1
  <2>6. Collected'
    BY <2>1, <2>4, <2>5, CollectedKept DEF Keeps, Parts
  <2>7. info'.bases = info.bases /\ info'.rest = info.rest
    BY <2>4 DEF Keeps, Parts
  <2>8. Reading'
    BY <2>1, <2>4, <2>7, ReadingKept
  <2> QED BY <2>3, <2>4, <2>6, <2>8
<1>11. CASE TypeRefuses
  BY <1>4, <1>11, TypeRefusesDoes DEF Typed
<1>12. CASE Finish
  <2>1. info.at = "tag" /\ info' = None
        /\ \/ classes' = classes
           \/ classes' = Append(classes, Finished) /\ (Tagged => TagField \in Key)
    BY <1>12, FinishDoes
  <2>2. InProgress
    BY <1>3, <2>1
  <2> QED BY <1>1, <1>4, <2>1, <2>2, FinishedTyped DEF Typed
<1>13. CASE UNCHANGED vars
  <2>1. classes' = classes /\ info' = info
    BY <1>13 DEF vars
  <2>2. Ordered' = Ordered /\ Aliases' = Aliases
    BY <2>1, OrderedKept, AliasesKept
  <2>3. InProgress => InProgress'
    BY <2>1, <2>2 DEF Reading, Collected, Arranged
  <2> QED BY <1>1, <1>4, <2>1, <2>3 DEF Typed
<1> QED BY <1>5, <1>6, <1>7, <1>8, <1>9, <1>10, <1>11, <1>12, <1>13 DEF Next

LEMMA TypedAlways == Spec => []Typed
BY TypedInit, TypedStep, PTL DEF Spec

(* The classes have their types, and what is collected knows its fields.    *)
THEOREM TypeCorrect == Spec => []TypeOK
<1>1. Typed => TypeOK
  <2> SUFFICES ASSUME Typed PROVE TypeOK
    OBVIOUS
  <2>1. \A n \in DOMAIN classes : ClassTyped(n)
    BY ClassesListed DEF Typed, ClassesTyped
  <2>2. \A n \in DOMAIN classes : Injective(classes[n].fields)
    BY <2>1, DistinctIsInjective DEF ClassTyped
  <2>3. info.slots \ {CachedHash} \subseteq ToSet(info.defaults_lk)
        /\ info.kwonly \subseteq ToSet(info.defaults_lk)
    BY NoneIs DEF Typed, Collected
  <2> QED BY <2>1, <2>2, <2>3 DEF TypeOK, ClassTyped, Settings
<1> QED BY <1>1, TypedAlways, PTL

-----------------------------------------------------------------------------
(* Defaults.                                                                *)

LEMMA MinIs ==
    ASSUME NEW m \in Nat, NEW P, P \subseteq 1..m
    PROVE  /\ P # {} => Min(P) \in P /\ \A j \in P : Min(P) <= j
           /\ \A i \in P : (\A j \in P : i <= j) => Min(P) = i
<1>1. P \in SUBSET (1..m) /\ P \subseteq Int
  OBVIOUS
<1>2. IsFiniteSet(P)
  <2>1. IsFiniteSet(1..m)
    BY FS_Interval
  <2> QED BY <1>1, <2>1, FS_Subset
<1>3. ASSUME P # {} PROVE \E i \in P : \A j \in P : i <= j
  <2> DEFINE n == Cardinality(P)
             e == [k \in 1..n |-> Nth(P, k)]
  <2>1. Lists(e, n, P)
    BY <1>1, <1>2, NthLists
  <2>2. n # 0 /\ n \in Nat
    BY <1>2, <1>3, FS_EmptySet, FS_CardinalityType
  <2> HIDE DEF e, n
  <2>3. 1 \in 1..n /\ \A k \in 1..n : k = 1 \/ 1 < k
    BY <2>2
  <2>4. \A k \in 1..n : e[k] \in P /\ e[k] \in Int
    BY <1>1, <2>1 DEF Lists
  <2>5. \A k \in 1..n : k = 1 \/ e[1] < e[k]
    BY <2>1, <2>3 DEF Lists
  <2>6. \A k \in 1..n : e[1] <= e[k]
    BY <2>3, <2>4, <2>5
  <2> QED BY <2>1, <2>3, <2>4, <2>6 DEF Lists
<1>4. P # {} => Min(P) \in P /\ \A j \in P : Min(P) <= j
  BY <1>3 DEF Min
<1>5. ASSUME NEW i \in P, \A j \in P : i <= j PROVE Min(P) = i
  <2>1. Min(P) \in P /\ Min(P) <= i /\ i <= Min(P)
    BY <1>4, <1>5
  <2>2. Min(P) \in Int /\ i \in Int
    BY <1>1, <2>1
  <2> HIDE DEF Min
  <2> QED BY <2>1, <2>2
<1> QED BY <1>4, <1>5

(* How far the members of S reach from the first number.                    *)
LEMMA RunOf ==
    ASSUME NEW m \in Nat, NEW S
    PROVE  \E n \in 0..m : (\A i \in 1..n : i \in S) /\ (n < m => n + 1 \notin S)
<1> DEFINE P == 1..m \ S
<1>1. CASE P = {}
  <2>1. m \in 0..m /\ \A i \in 1..m : i \in S
    BY <1>1
  <2> QED BY <2>1
<1>2. CASE P # {}
  <2>1. Min(P) \in P /\ \A j \in P : Min(P) <= j
    BY <1>2, MinIs
  <2> DEFINE n == Min(P) - 1
  <2>2. n \in 0..m /\ n + 1 = Min(P)
    BY <2>1
  <2>3. \A i \in 1..n : i \in 1..m /\ ~(Min(P) <= i)
    BY <2>1
  <2>4. \A i \in 1..n : i \in S
    BY <2>1, <2>3
  <2> QED BY <2>1, <2>2, <2>4
<1> QED BY <1>1, <1>2

LEMMA RequiredFirstIs ==
    ASSUME Ordered \in Seq(Name)
    PROVE  /\ NRequiredFirst \in 0..Len(Ordered)
           /\ \A i \in 1..NRequiredFirst : DefaultAt(i) = NODEFAULT
           /\ NRequiredFirst < Len(Ordered) => DefaultAt(NRequiredFirst + 1) # NODEFAULT
           /\ Len(Defaults) = Len(Ordered) - NRequiredFirst
           /\ \A j \in 1..Len(Defaults) : Defaults[j] = DefaultAt(NRequiredFirst + j)
<1>1. Len(Ordered) \in Nat
  BY SeqIs
<1> DEFINE S == {i \in 1..Len(Ordered) : DefaultAt(i) = NODEFAULT}
<1>2. PICK n \in 0..Len(Ordered) :
          (\A i \in 1..n : i \in S) /\ (n < Len(Ordered) => n + 1 \notin S)
  BY <1>1, RunOf
<1>3. /\ \A i \in 1..n : DefaultAt(i) = NODEFAULT
      /\ n < Len(Ordered) => DefaultAt(n + 1) # NODEFAULT
  BY <1>1, <1>2
<1>4. /\ NRequiredFirst \in 0..Len(Ordered)
      /\ \A i \in 1..NRequiredFirst : DefaultAt(i) = NODEFAULT
      /\ NRequiredFirst < Len(Ordered) => DefaultAt(NRequiredFirst + 1) # NODEFAULT
  BY <1>3 DEF NRequiredFirst
<1>5. Len(Ordered) - NRequiredFirst \in Nat
  BY <1>1, <1>4
<1>6. Len(Defaults) = Len(Ordered) - NRequiredFirst
      /\ \A j \in 1..Len(Defaults) : Defaults[j] = DefaultAt(NRequiredFirst + j)
  BY <1>5 DEF Defaults
<1> QED BY <1>4, <1>6

LEMMA TrailingIs ==
    ASSUME Len(Defaults) \in Nat
    PROVE  /\ NTrailing \in 0..Len(Defaults)
           /\ \A j \in 1..NTrailing : Defaults[Len(Defaults) + 1 - j] # NODEFAULT
           /\ NTrailing < Len(Defaults) => Defaults[Len(Defaults) - NTrailing] = NODEFAULT
<1> DEFINE d == Defaults
           S == {j \in 1..Len(d) : d[Len(d) + 1 - j] # NODEFAULT}
<1>1. PICK n \in 0..Len(d) : (\A i \in 1..n : i \in S) /\ (n < Len(d) => n + 1 \notin S)
  BY RunOf
<1>2. n < Len(d) => n + 1 \in 1..Len(d) /\ Len(d) + 1 - (n + 1) = Len(d) - n
  BY <1>1
<1>3. /\ \A j \in 1..n : d[Len(d) + 1 - j] # NODEFAULT
      /\ n < Len(d) => d[Len(d) - n] = NODEFAULT
  BY <1>1, <1>2
<1> QED BY <1>3 DEF NTrailing

Fits(c) ==
    LET d == c.defaults  last == Len(d) - c.n_trailing_defaults IN
    /\ Len(d) <= Len(c.fields) /\ c.nkwonly \in 0..Len(c.fields)
    /\ c.n_trailing_defaults \in 0..Len(d)
    /\ \A j \in DOMAIN d : d[j] = NODEFAULT =>
          j > 1 /\ j > Len(d) - c.nkwonly /\ j <= last
    /\ last > 0 => d[last] = NODEFAULT

LEMMA PositionalIs ==
    ASSUME NEW c, c.fields \in Seq(Name), Distinct(c.fields), c.nkwonly \in 0..Len(c.fields)
    PROVE  /\ Positional(c) \in Seq(Name) /\ Len(Positional(c)) = Len(c.fields) - c.nkwonly
           /\ \A i \in 1..Len(c.fields) - c.nkwonly : Positional(c)[i] = c.fields[i]
           /\ \A i \in 1..Len(c.fields) :
                 c.fields[i] \in KwOnly(c) <=> i > Len(c.fields) - c.nkwonly
<1> DEFINE m == Len(c.fields) - c.nkwonly
           p == Positional(c)
<1>1. Len(c.fields) \in Nat /\ m \in 0..Len(c.fields)
  BY SeqIs
<1>2. 1 \in 1..Len(c.fields) + 1 /\ m \in 1 - 1..Len(c.fields)
  BY <1>1
<1>3. p = SubSeq(c.fields, 1, m)
  BY DEF Positional
<1> HIDE DEF m, p
<1>4. /\ p \in Seq(Name) /\ Len(p) = IF m < 1 THEN 0 ELSE m - 1 + 1
      /\ \A i \in 1..m - 1 + 1 : p[i] = c.fields[1 + i - 1]
  BY <1>2, <1>3, SubSeqProperties
<1>5. m - 1 + 1 = m /\ \A i \in 1..m : 1 + i - 1 = i
  BY <1>1
<1>6. Len(p) = m /\ \A i \in 1..m : p[i] = c.fields[i]
  BY <1>1, <1>4, <1>5
<1>7. \A f : f \in ToSet(p) <=> \E k \in 1..m : c.fields[k] = f
  <2>1. \A f : f \in ToSet(p) <=> \E k \in 1..Len(p) : p[k] = f
    BY <1>4, ToSetOf
  <2> QED BY <1>6, <2>1
<1>8. ASSUME NEW i \in 1..Len(c.fields) PROVE c.fields[i] \in ToSet(p) <=> i <= m
  <2>1. \A k \in 1..m : k \in 1..Len(c.fields) /\ (c.fields[k] = c.fields[i] => k = i)
    BY <1>1 DEF Distinct
  <2>2. i <= m => i \in 1..m
    BY <1>1
  <2>3. i \in 1..m => i <= m
    BY <1>1
  <2> QED BY <1>7, <2>1, <2>2, <2>3
<1>9. \A i \in 1..Len(c.fields) : c.fields[i] \in ToSet(c.fields)
  BY ToSetOf
<1>10. \A i \in 1..Len(c.fields) : i > m <=> ~(i <= m)
  BY <1>1
<1>11. \A i \in 1..Len(c.fields) : c.fields[i] \in KwOnly(c) <=> i > m
  BY <1>8, <1>9, <1>10 DEF KwOnly, p
<1> QED BY <1>4, <1>6, <1>11 DEF m, p

(* A record with the parts that structmeta_construct_fields makes.          *)
LEMMA ConstructedFits ==
    ASSUME Collected, ~OutOfOrder,
           NEW c, c.fields = Ordered, c.defaults = Defaults,
           c.nkwonly = Len(Ordered) - NPositional, c.n_trailing_defaults = NTrailing
    PROVE  /\ Fits(c)
           /\ \A f \in ToSet(c.fields) : /\ DefaultOf(c, f) = info.default[f]
                                         /\ f \in KwOnly(c) <=> f \in info.kwonly
<1> DEFINE L == Len(Ordered)
           n == NRequiredFirst
           d == Defaults
           t == NTrailing
<1>1. /\ Ordered \in Seq(Name) /\ Distinct(Ordered)
      /\ NPositional \in 0..L
      /\ \A i \in 1..L : Ordered[i] \in info.kwonly <=> i > NPositional
  BY OrderedHas DEF Collected
<1>2. L \in Nat
  BY <1>1, SeqIs
<1>3. /\ n \in 0..L
      /\ \A i \in 1..n : DefaultAt(i) = NODEFAULT
      /\ n < L => DefaultAt(n + 1) # NODEFAULT
      /\ Len(d) = L - n
      /\ \A j \in 1..Len(d) : d[j] = DefaultAt(n + j)
  BY <1>1, RequiredFirstIs
<1>4. Len(d) \in Nat
  BY <1>2, <1>3
<1>5. /\ t \in 0..Len(d)
      /\ \A j \in 1..t : d[Len(d) + 1 - j] # NODEFAULT
      /\ t < Len(d) => d[Len(d) - t] = NODEFAULT
  BY <1>4, TrailingIs
<1>6. DOMAIN d = 1..Len(d)
  BY <1>2, <1>3 DEF Defaults
<1>7. \A i \in n + 1..NPositional : DefaultAt(i) # NODEFAULT
  BY DEF OutOfOrder
<1>8. /\ c.fields = Ordered /\ c.defaults = d /\ c.nkwonly = L - NPositional
      /\ c.n_trailing_defaults = t
  OBVIOUS
<1> HIDE DEF n, d, t
<1>9. ASSUME NEW j \in DOMAIN d, d[j] = NODEFAULT
      PROVE  j > 1 /\ j > Len(d) - c.nkwonly /\ j <= Len(d) - t
  <2>1. j \in 1..Len(d) /\ DefaultAt(n + j) = NODEFAULT
    BY <1>3, <1>6, <1>9
  <2>2. j # 1
    BY <1>2, <1>3, <1>4, <2>1
  <2>3. ~(n + j <= NPositional)
    <3>1. n + j \in Int /\ n + 1 <= n + j
      BY <1>3, <2>1
    <3> QED BY <1>1, <1>3, <1>7, <2>1, <3>1
  <2>4. j > Len(d) - c.nkwonly
    BY <1>1, <1>2, <1>3, <1>8, <2>1, <2>3
  <2>5. j <= Len(d) - t
    <3> SUFFICES ASSUME ~(j <= Len(d) - t) PROVE FALSE
      OBVIOUS
    <3>1. Len(d) + 1 - j \in 1..t /\ Len(d) + 1 - (Len(d) + 1 - j) = j
      BY <1>4, <1>5, <2>1
    <3> QED BY <1>5, <1>9, <3>1
  <2> QED BY <1>4, <2>1, <2>2, <2>4, <2>5
<1>10. Len(d) <= L /\ c.nkwonly \in 0..L
  BY <1>1, <1>2, <1>3, <1>8
<1>11. Len(d) - t > 0 => d[Len(d) - t] = NODEFAULT
  <2>1. Len(d) - t > 0 => t < Len(d)
    BY <1>4, <1>5
  <2> QED BY <1>5, <2>1
<1>12. Fits(c)
  BY <1>5, <1>8, <1>9, <1>10, <1>11 DEF Fits
<1>13. ASSUME NEW f \in ToSet(c.fields) PROVE DefaultOf(c, f) = info.default[f]
  <2> DEFINE i == IndexOf(c, f)
  <2>1. i \in 1..L /\ Ordered[i] = f
    BY <1>1, <1>8, IndexIs
  <2>2. DefaultAt(i) = info.default[f]
    BY <2>1 DEF DefaultAt
  <2>3. DefaultOf(c, f) = IF i > L - Len(d) THEN d[i - (L - Len(d))] ELSE NODEFAULT
    BY <1>8 DEF DefaultOf
  <2>4. L - Len(d) = n
    BY <1>2, <1>3
  <2> HIDE DEF i
  <2>5. CASE i > n
    <3>1. i - n \in 1..Len(d) /\ n + (i - n) = i
      BY <1>2, <1>3, <2>1, <2>5
    <3>2. d[i - n] = DefaultAt(i)
      BY <1>3, <3>1
    <3> QED BY <2>2, <2>3, <2>4, <2>5, <3>2
  <2>6. CASE ~(i > n)
    <3>1. i \in 1..n
      BY <1>3, <2>1, <2>6
    <3> QED BY <1>3, <2>2, <2>3, <2>4, <2>6, <3>1
  <2> QED BY <2>5, <2>6
<1>14. ASSUME NEW f \in ToSet(c.fields) PROVE f \in KwOnly(c) <=> f \in info.kwonly
  <2>1. PICK i \in 1..L : Ordered[i] = f
    BY <1>1, <1>8, ToSetOf
  <2>2. Ordered[i] \in KwOnly(c) <=> i > L - c.nkwonly
    BY <1>1, <1>8, <1>10, PositionalIs
  <2>3. L - c.nkwonly = NPositional
    BY <1>1, <1>2, <1>8
  <2> QED BY <1>1, <2>1, <2>2, <2>3
<1> QED BY <1>12, <1>13, <1>14

Advances ==
    \/ CollectMixin \/ CollectBase \/ ApplySpec \/ CollectField \/ ConstructFields
    \/ CollectCodecs \/ ConstructAliasFields \/ TypeNew

Makes ==
    /\ info.at = "tag" /\ info' = None
    /\ Tagged => info.tag \notin Unusable /\ TagField \in Key /\ ~TagConflicts
    /\ Len(classes') = This /\ classes'[This] = Finished
    /\ \A n \in 1..Len(classes) : classes'[n] = classes[n]

(* A step refuses the statement, begins one, goes on with it or makes the   *)
(* class.                                                                   *)
LEMMA Steps ==
    ASSUME Typed, [Next]_vars
    PROVE  \/ classes' = classes /\ (info' = None \/ info' = info)
           \/ classes' = classes /\ Begin
           \/ InProgress /\ classes' = classes /\ info' # None /\ Advances
           \/ InProgress /\ Makes
<1>1. ClassesTyped /\ (info = None \/ InProgress)
  BY DEF Typed, InProgress
<1>2. info = None => info.at = "none"
  BY NoneIs
<1>3. CASE Begin
  BY <1>3, BeginDoes
<1>4. CASE Advances
  <2>1. info.at # "none" /\ classes' = classes
    BY <1>4 DEF Advances, CollectMixin, CollectBase, ApplySpec, CollectField, ConstructFields,
                CollectCodecs, ConstructAliasFields, TypeNew, At, Continue, Refuse
  <2> QED BY <1>1, <1>2, <1>4, <2>1
<1>5. CASE TypeRefuses
  BY <1>5, TypeRefusesDoes
<1>6. CASE Finish
  <2>1. info.at = "tag" /\ info' = None
        /\ \/ classes' = classes
           \/ /\ classes' = Append(classes, Finished)
              /\ Tagged => info.tag \notin Unusable /\ TagField \in Key /\ ~TagConflicts
    BY <1>6, FinishDoes
  <2>2. InProgress
    BY <1>1, <1>2, <2>1
  <2>3. classes' = Append(classes, Finished) /\ (Tagged => TagField \in Key) =>
           /\ Len(classes') = This /\ classes'[This] = Finished
           /\ \A n \in 1..Len(classes) : classes'[n] = classes[n]
    BY <1>1, <2>1, <2>2, FinishedTyped DEF InProgress
  <2> QED BY <2>1, <2>2, <2>3 DEF Makes
<1>7. CASE UNCHANGED vars
  BY <1>7 DEF vars
<1> QED BY <1>3, <1>4, <1>5, <1>6, <1>7 DEF Next, Advances

(* What info says of its fields is what was collected.                      *)
KnowsFields ==
    \A f \in ToSet(info.fields) : /\ DefaultOf(info, f) = info.default[f]
                                  /\ f \in KwOnly(info) <=> f \in info.kwonly

Fitting ==
    /\ \A n \in 1..Len(classes) : Fits(classes[n])
    /\ info.at \in Constructed => Fits(info) /\ KnowsFields

(* Records with the same fields and defaults have the same defaults.        *)
LEMMA SameFields ==
    ASSUME NEW c, NEW d, c.fields = d.fields, c.defaults = d.defaults, c.nkwonly = d.nkwonly,
           c.n_trailing_defaults = d.n_trailing_defaults
    PROVE  /\ Fits(c) <=> Fits(d)
           /\ KwOnly(c) = KwOnly(d) /\ Positional(c) = Positional(d)
           /\ \A f : IndexOf(c, f) = IndexOf(d, f) /\ DefaultOf(c, f) = DefaultOf(d, f)
<1>1. \A f : IndexOf(c, f) = IndexOf(d, f)
  BY DEF IndexOf
<1>2. ASSUME NEW f PROVE DefaultOf(c, f) = DefaultOf(d, f)
  <2>1. IndexOf(c, f) = IndexOf(d, f)
    BY <1>1
  <2>2. Len(c.fields) - Len(c.defaults) = Len(d.fields) - Len(d.defaults)
    OBVIOUS
  <2> QED BY <2>1, <2>2, Zenon DEF DefaultOf
<1> QED BY <1>1, <1>2 DEF Fits, KwOnly, Positional

LEMMA FittingStep == Typed /\ Fitting /\ [Next]_vars => Fitting'
<1> SUFFICES ASSUME Typed, Fitting, [Next]_vars PROVE Fitting'
  OBVIOUS
<1>1. CASE classes' = classes /\ info' = None
  BY <1>1, NoneIs DEF Fitting, Constructed
<1>2. CASE classes' = classes /\ info' = info
  BY <1>2 DEF Fitting, KnowsFields
<1>3. CASE classes' = classes /\ Begin
  <2>1. PICK bases \in Menu[This].bases : info' = Fresh(bases)
    BY <1>3, BeginDoes
  <2>2. info'.at = "bases"
    BY <2>1, FreshIs
  <2> QED BY <1>3, <2>2 DEF Fitting, Constructed
<1>4. CASE InProgress /\ classes' = classes /\ info' # None /\ Advances
  <2>1. DOMAIN info = Parts /\ Collected
    BY <1>4 DEF InProgress
  <2>2. CASE CollectMixin \/ CollectBase \/ ApplySpec \/ CollectField
    <3>1. info'.at \in {"bases", "fields"}
      BY <1>4, <2>1, <2>2, CollectMixinDoes, CollectBaseDoes, ApplySpecDoes, CollectFieldDoes
         DEF ReadsClassVar, ReadsField, Keeps, Parts
    <3> QED BY <1>4, <3>1 DEF Fitting, Constructed
  <2>3. CASE ConstructFields
    <3>1. /\ ~OutOfOrder /\ info'.at = "codecs"
          /\ info'.fields = Ordered /\ info'.defaults = Defaults
          /\ info'.nkwonly = Len(Ordered) - NPositional
          /\ info'.n_trailing_defaults = NTrailing
          /\ info'.default = info.default /\ info'.kwonly = info.kwonly
      BY <1>4, <2>1, <2>3, ConstructFieldsDoes DEF Keeps, Parts
    <3> QED BY <1>4, <2>1, <3>1, ConstructedFits DEF Fitting, KnowsFields
  <2>4. CASE CollectCodecs \/ ConstructAliasFields \/ TypeNew
    <3>1. /\ info.at \in Constructed
          /\ info'.fields = info.fields /\ info'.defaults = info.defaults
          /\ info'.nkwonly = info.nkwonly
          /\ info'.n_trailing_defaults = info.n_trailing_defaults
          /\ info'.default = info.default /\ info'.kwonly = info.kwonly
      BY <1>4, <2>1, <2>4, CollectCodecsDoes, ConstructAliasFieldsDoes, TypeNewDoes
         DEF Keeps, Parts, Constructed
    <3>2. /\ Fits(info') <=> Fits(info)
          /\ KwOnly(info') = KwOnly(info)
          /\ \A f : DefaultOf(info', f) = DefaultOf(info, f)
      BY <3>1, SameFields
    <3> QED BY <1>4, <3>1, <3>2 DEF Fitting, KnowsFields
  <2> QED BY <1>4, <2>2, <2>3, <2>4 DEF Advances
<1>5. CASE InProgress /\ Makes
  <2>1. Fits(info)
    BY <1>5 DEF Fitting, Makes, Constructed
  <2>2. /\ Finished.fields = info.fields /\ Finished.defaults = info.defaults
        /\ Finished.nkwonly = info.nkwonly
        /\ Finished.n_trailing_defaults = info.n_trailing_defaults
    BY DEF Finished
  <2>3. Fits(Finished)
    <3> HIDE DEF Finished
    <3> QED BY <2>1, <2>2, SameFields
  <2>4. \A n \in 1..Len(classes') : n \in 1..Len(classes) \/ n = This
    BY <1>5, ClassesListed DEF Makes, This, Typed
  <2>5. \A n \in 1..Len(classes') : Fits(classes'[n])
    BY <1>5, <2>3, <2>4 DEF Makes, Fitting
  <2> QED BY <1>5, <2>5, NoneIs DEF Makes, Fitting, Constructed
<1> QED BY <1>1, <1>2, <1>3, <1>4, <1>5, Steps

LEMMA FittingInit == Init => Fitting
<1> SUFFICES ASSUME Init PROVE Fitting
  OBVIOUS
<1>1. Len(classes) = 0 /\ info.at = "none"
  BY EmptySeq, NoneIs DEF Init
<1> QED BY <1>1 DEF Fitting, Constructed

(* Every class is what the calls that make instances take for granted.      *)
THEOREM ClassesFitInstances == Spec => []FitsInstances
<1>1. Typed /\ Fitting => FitsInstances
  <2> SUFFICES ASSUME Typed, Fitting PROVE FitsInstances
    OBVIOUS
  <2>1. DOMAIN classes = 1..Len(classes)
    BY ClassesListed DEF Typed
  <2> QED BY <2>1 DEF Fitting, Fits, FitsInstances
<1> QED BY <1>1, TypedAlways, FittingInit, FittingStep, PTL DEF Spec

-----------------------------------------------------------------------------
(* The bases that have been read.                                           *)

BasesAt(bases) == {i \in DOMAIN bases : bases[i] \notin Mixin}
Read == {i \in BasesAt(info.bases) : i > Len(info.rest)}
Base(i) == classes[info.bases[i]]

LEMMA ReadAre ==
    ASSUME ClassesTyped, Reading
    PROVE  /\ DOMAIN info.bases = 1..Len(info.bases) /\ Len(info.bases) \in Nat
           /\ Len(info.rest) \in Nat
           /\ Read \subseteq 1..Len(info.bases)
           /\ \A i \in BasesAt(info.bases) : /\ info.bases[i] \in 1..Len(classes)
                                             /\ ClassTyped(info.bases[i])
           /\ \A i \in Read : info.bases[i] \in 1..Len(classes) /\ ClassTyped(info.bases[i])
           /\ info.rest = <<>> => Read = BasesAt(info.bases)
<1>1. /\ DOMAIN info.bases = 1..Len(info.bases) /\ Len(info.bases) \in Nat
      /\ Len(info.rest) \in Nat
      /\ \A i \in 1..Len(info.bases) : info.bases[i] \in 1..Len(classes) \cup Mixin
  BY SeqIs DEF Reading
<1>2. info.rest = <<>> => Len(info.rest) = 0
  OBVIOUS
<1>3. info.rest = <<>> => Read = BasesAt(info.bases)
  BY <1>1, <1>2 DEF Read, BasesAt
<1> QED BY <1>1, <1>3 DEF Read, BasesAt, ClassesTyped

LEMMA ReadBase ==
    ASSUME ClassesTyped, InProgress, CollectBase
    PROVE  /\ Len(info.rest) \in BasesAt(info.bases) \ Read
           /\ Base(Len(info.rest)) = classes[Last(info.rest)]
           /\ Read' = Read \cup {Len(info.rest)}
           /\ \A i \in Read : Len(info.rest) < i
           /\ \A i : Base(i)' = Base(i)
           /\ info'.bases = info.bases
<1> DEFINE k == Len(info.rest)
<1>1. /\ info.rest # <<>> /\ Last(info.rest) \notin Mixin /\ classes' = classes
      /\ info'.bases = info.bases /\ info'.rest = Front(info.rest)
  BY CollectBaseDoes DEF InProgress, Keeps, Parts
<1>2. /\ Last(info.rest) = info.bases[k] /\ k \in 1..Len(info.bases)
  BY <1>1, NextBase DEF InProgress
<1>3. Len(info'.rest) = k - 1
  BY <1>1, FrontIs DEF InProgress, Reading
<1>4. DOMAIN info.bases = 1..Len(info.bases) /\ Len(info.bases) \in Nat
  BY ReadAre DEF InProgress
<1>5. k \in BasesAt(info.bases)
  BY <1>1, <1>2, <1>4 DEF BasesAt
<1>6. \A i \in BasesAt(info.bases) : i > k - 1 <=> i > k \/ i = k
  BY <1>2, <1>4 DEF BasesAt
<1>7. Read' = Read \cup {k}
  BY <1>1, <1>3, <1>5, <1>6 DEF Read, BasesAt
<1>8. \A i \in BasesAt(info.bases) : i > k => k < i /\ i # k
  BY <1>2, <1>4 DEF BasesAt
<1>9. \A i : Base(i)' = Base(i)
  BY <1>1 DEF Base
<1>10. k \notin Read /\ \A i \in Read : k < i
  BY <1>8 DEF Read
<1> QED BY <1>1, <1>2, <1>5, <1>7, <1>9, <1>10 DEF Base

LEMMA ReadMixin ==
    ASSUME ClassesTyped, InProgress, CollectMixin, info' # None
    PROVE  /\ Read' = Read /\ \A i : Base(i)' = Base(i)
           /\ info'.bases = info.bases
<1> DEFINE k == Len(info.rest)
<1>1. /\ info.rest # <<>> /\ Last(info.rest) \in Mixin /\ classes' = classes
      /\ info'.bases = info.bases /\ info'.rest = Front(info.rest)
  BY CollectMixinDoes DEF InProgress, Keeps, Parts
<1>2. /\ Last(info.rest) = info.bases[k] /\ k \in 1..Len(info.bases)
  BY <1>1, NextBase DEF InProgress
<1>3. Len(info'.rest) = k - 1
  BY <1>1, FrontIs DEF InProgress, Reading
<1>4. DOMAIN info.bases = 1..Len(info.bases) /\ Len(info.bases) \in Nat
  BY ReadAre DEF InProgress
<1>5. k \notin BasesAt(info.bases)
  BY <1>1, <1>2, <1>4 DEF BasesAt
<1>6. \A i \in BasesAt(info.bases) : i > k - 1 <=> i > k \/ i = k
  BY <1>2, <1>4 DEF BasesAt
<1>7. Read' = Read
  BY <1>1, <1>3, <1>5, <1>6 DEF Read, BasesAt
<1> QED BY <1>1, <1>7 DEF Base

LEMMA ReadKept ==
    ASSUME classes' = classes, info'.bases = info.bases, info'.rest = info.rest
    PROVE  Read' = Read /\ \A i : Base(i)' = Base(i)
BY DEF Read, BasesAt, Base

LEMMA ReadFresh ==
    ASSUME ClassesTyped, Begin
    PROVE  Read' = {}
<1>1. /\ Len(classes) < Len(Menu) /\ \E bases \in Menu[This].bases : info' = Fresh(bases)
  BY BeginDoes
<1>2. PICK bases \in Menu[This].bases : info' = Fresh(bases)
  BY <1>1
<1>3. This \in 1..Len(Menu)
  BY <1>1, ThisInMenu
<1>4. bases \in Seq(1..This - 1 \cup Mixin)
  BY <1>3, ConstantsOK
<1>5. DOMAIN bases = 1..Len(bases) /\ Len(bases) \in Nat
  BY <1>4, SeqIs
<1>6. info'.bases = bases /\ info'.rest = bases
  BY <1>2, FreshIs
<1>7. \A i \in 1..Len(bases) : ~(i > Len(bases))
  BY <1>5
<1> QED BY <1>5, <1>6, <1>7 DEF Read, BasesAt

-----------------------------------------------------------------------------
(* Slots.                                                                   *)

Slot == Nat \X (Name \cup {CachedHash})

Reaches(layout, name) == \E i \in 1..Len(layout) : layout[i][2] = name

(* One layout begins with another.                                          *)
Begins(l, m) == Len(l) <= Len(m) /\ \A i \in 1..Len(l) : l[i] = m[i]

LayoutOK(l) == l \in Seq(Slot) /\ \A i, j \in 1..Len(l) : l[i][2] = l[j][2] => i = j

LEMMA BeginsIs ==
    ASSUME NEW X, NEW l \in Seq(X), NEW m \in Seq(X)
    PROVE  IsPrefix(l, m) <=> Begins(l, m)
<1>1. Len(l) \in Nat /\ Len(m) \in Nat
  BY SeqIs
<1>2. ASSUME Len(l) <= Len(m)
      PROVE  SubSeq(l, 1, Len(l)) = SubSeq(m, 1, Len(l)) <=> \A i \in 1..Len(l) : l[i] = m[i]
  <2> DEFINE n == Len(l)
  <2>1. 1 \in 1..Len(l) + 1 /\ n \in 1 - 1..Len(l) /\ 1 \in 1..Len(m) + 1
        /\ n \in 1 - 1..Len(m)
    BY <1>1, <1>2
  <2> DEFINE a == SubSeq(l, 1, n)
             b == SubSeq(m, 1, n)
  <2>2. /\ a \in Seq(X) /\ Len(a) = IF n < 1 THEN 0 ELSE n - 1 + 1
        /\ \A i \in 1..n - 1 + 1 : a[i] = l[1 + i - 1]
    BY <2>1, SubSeqProperties
  <2>3. /\ b \in Seq(X) /\ Len(b) = IF n < 1 THEN 0 ELSE n - 1 + 1
        /\ \A i \in 1..n - 1 + 1 : b[i] = m[1 + i - 1]
    BY <2>1, SubSeqProperties
  <2> HIDE DEF a, b
  <2>4. n - 1 + 1 = n /\ \A i \in 1..n : 1 + i - 1 = i
    BY <1>1
  <2>5. Len(a) = n /\ Len(b) = n /\ \A i \in 1..n : a[i] = l[i] /\ b[i] = m[i]
    BY <1>1, <2>2, <2>3, <2>4
  <2>6. IsSeq(a) /\ IsSeq(b)
    BY <2>2, <2>3, SeqIs
  <2>7. (\A i \in 1..n : l[i] = m[i]) => a = b
    BY <2>5, <2>6 DEF IsSeq
  <2> QED BY <2>5, <2>7 DEF a, b
<1> QED BY <1>2 DEF IsPrefix, Begins

(* The layout of class n has its slots, once each, and those of its bases   *)
(* where they have them.                                                    *)
LaidOut(n) ==
    LET c == classes[n] IN
    /\ LayoutOK(c.layout)
    /\ \A f \in Name : f \in ToSet(c.fields) <=> Reaches(c.layout, f)
    /\ \A i \in 1..Len(c.fields) : /\ c.offsets[i] \in 1..Len(c.layout)
                                   /\ c.layout[c.offsets[i]][2] = c.fields[i]
    /\ IF c.hash_offset = 0 THEN ~Reaches(c.layout, CachedHash)
       ELSE c.hash_offset \in 1..Len(c.layout) /\ c.layout[c.hash_offset][2] = CachedHash
    /\ \A i \in BasesAt(c.bases) : Begins(classes[c.bases[i]].layout, c.layout)

(* Of the bases read, the first one that has the field.                     *)
First(i, f) ==
    /\ i \in Read /\ f \in ToSet(Base(i).fields)
    /\ \A j \in Read : f \in ToSet(Base(j).fields) => i <= j

(* The slots so far are for what no base has; the rest is where it is in    *)
(* a base.                                                                  *)
Placed ==
    /\ \A i \in Read : /\ ToSet(Base(i).fields) \subseteq ToSet(info.defaults_lk)
                       /\ ToSet(Base(i).fields) \cap info.slots = {}
    /\ \A f \in ToSet(info.defaults_lk) \ info.slots :
          \E i \in Read : First(i, f) /\ info.offsets_lk[f] = OffsetOf(Base(i), f)
    /\ \/ info.hash_offset = 0 /\ \A i \in Read : Base(i).hash_offset = 0
       \/ \E i \in Read : info.hash_offset = Base(i).hash_offset /\ info.hash_offset # 0
    /\ info.slots \subseteq Name \cup {CachedHash}
    /\ CachedHash \in info.slots => info.hash_offset = 0
    /\ info.at = "bases" => info.slots = {}

(* The layout that type.__new__ has made.                                   *)
Laid ==
    /\ LayoutOK(info.layout)
    /\ \A name \in Name \cup {CachedHash} :
          Reaches(info.layout, name) <=>
              name \in info.slots \/ \E i \in Read : Reaches(Base(i).layout, name)
    /\ \A s \in info.slots : \E i \in 1..Len(info.layout) : info.layout[i] = <<This, s>>
    /\ \A i \in Read : Begins(Base(i).layout, info.layout)

Slotted ==
    /\ \A n \in 1..Len(classes) : LaidOut(n)
    /\ info # None => Placed /\ (info.at = "tag" => Laid)

LEMMA MaxIs ==
    ASSUME NEW P, P \subseteq Int, IsFiniteSet(P), P # {}
    PROVE  \E i \in P : \A j \in P : j <= i
<1> DEFINE n == Cardinality(P)
           e == [k \in 1..n |-> Nth(P, k)]
<1>1. Lists(e, n, P)
  BY NthLists
<1>2. n # 0 /\ n \in Nat
  BY FS_EmptySet, FS_CardinalityType
<1> HIDE DEF e, n
<1>3. n \in 1..n /\ \A k \in 1..n : k = n \/ k < n
  BY <1>2
<1>4. \A k \in 1..n : e[k] \in P /\ e[k] \in Int
  BY <1>1 DEF Lists
<1>5. \A k \in 1..n : k = n \/ e[k] < e[n]
  BY <1>1, <1>3 DEF Lists
<1>6. \A k \in 1..n : e[k] <= e[n]
  BY <1>3, <1>4, <1>5
<1> QED BY <1>1, <1>3, <1>4, <1>6 DEF Lists

LEMMA SetToSeqIs ==
    ASSUME NEW S, IsFiniteSet(S)
    PROVE  SetToSeq(S) \in Seq(S) /\ Distinct(SetToSeq(S)) /\ ToSet(SetToSeq(S)) = S
<1> DEFINE n == Cardinality(S)
           t == SetToSeq(S)
<1>1. n \in Nat
  BY FS_CardinalityType
<1>2. IsFiniteSet(1..n) /\ Cardinality(1..n) = n
  BY <1>1, FS_Interval
<1>3. ExistsBijection(1..n, S)
  BY <1>2, FS_SameCardinalityBij
<1>4. \E f \in [1..n -> S] : IsInjective(f)
  BY <1>3 DEF ExistsBijection, Bijection, Injection
<1>5. t \in [1..n -> S] /\ IsInjective(t)
  BY <1>4 DEF SetToSeq
<1> HIDE DEF t, n
<1>6. t \in Injection(1..n, S)
  BY <1>5 DEF Injection
<1>7. t \in Surjection(1..n, S)
  BY <1>2, <1>6, FS_Injection DEF n
<1>8. t \in Seq(S) /\ Len(t) = n
  BY <1>1, <1>5
<1>9. Distinct(t)
  BY <1>5, <1>8 DEF IsInjective, Distinct
<1>10. ToSet(t) = S
  BY <1>5, <1>7 DEF Surjection, ToSet
<1> QED BY <1>8, <1>9, <1>10 DEF t

LEMMA WidestIs ==
    ASSUME Typed, InProgress, \A n \in 1..Len(classes) : LaidOut(n)
    PROVE  LET layouts == LayoutsOf(info.bases) IN
           /\ \A l \in layouts : l = <<>> \/ \E i \in BasesAt(info.bases) : l = Base(i).layout
           /\ \A i \in BasesAt(info.bases) : Base(i).layout \in layouts
           /\ \A l \in layouts : LayoutOK(l)
           /\ Widest(layouts) \in layouts
<1> DEFINE layouts == LayoutsOf(info.bases)
           m == Len(info.bases)
           P == BasesAt(info.bases)
<1>1. /\ DOMAIN info.bases = 1..m /\ m \in Nat
      /\ \A i \in P : info.bases[i] \in 1..Len(classes)
  BY ReadAre DEF Typed, InProgress
<1>2. \A b : b \in StructBases(info.bases) <=> \E i \in P : info.bases[i] = b
  BY DEF StructBases, BasesAt, ToSet
<1>3. \A l : l \in layouts <=> l = <<>> \/ \E i \in P : l = Base(i).layout
  BY <1>2 DEF LayoutsOf, Base
<1>4. LayoutOK(<<>>)
  BY EmptySeq DEF LayoutOK
<1>5. \A l \in layouts : LayoutOK(l)
  BY <1>1, <1>3, <1>4 DEF LaidOut, Base
<1> HIDE DEF layouts
<1> DEFINE N == {Len(l) : l \in layouts}
<1>6. \A l \in layouts : Len(l) \in Nat
  BY <1>5, SeqIs DEF LayoutOK
<1>7. IsFiniteSet(N)
  <2> DEFINE f == [i \in P \cup {0} |-> IF i = 0 THEN Len(<<>>) ELSE Len(Base(i).layout)]
  <2>1. P \in SUBSET (1..m)
    BY <1>1 DEF BasesAt
  <2>2. IsFiniteSet(1..m)
    BY <1>1, FS_Interval
  <2>3. IsFiniteSet(P \cup {0})
    BY <2>1, <2>2, FS_Subset, FS_AddElement
  <2>4. 0 \notin P
    BY <2>1
  <2>5. f \in [P \cup {0} -> N]
    <3>1. Len(<<>>) \in N /\ \A i \in P : Len(Base(i).layout) \in N
      BY <1>3
    <3> HIDE DEF N, P
    <3> QED BY <2>4, <3>1
  <2>6. \A x \in N : \E i \in P \cup {0} : f[i] = x
    <3> TAKE x \in N
    <3>1. PICK l \in layouts : x = Len(l)
      OBVIOUS
    <3> HIDE DEF N
    <3>2. CASE l = <<>>
      <4>1. f[0] = x
        BY <3>1, <3>2
      <4> QED BY <4>1
    <3>3. CASE \E i \in P : l = Base(i).layout
      <4>1. PICK i \in P : l = Base(i).layout
        BY <3>3
      <4>2. f[i] = x
        BY <2>4, <3>1, <4>1
      <4> QED BY <4>2
    <3> QED BY <1>3, <3>2, <3>3
  <2>7. f \in Surjection(P \cup {0}, N)
    BY <2>5, <2>6 DEF Surjection
  <2> QED BY <2>3, <2>7, FS_Surjection
<1>8. N \subseteq Int /\ N # {}
  BY <1>3, <1>6
<1>9. PICK k \in N : \A j \in N : j <= k
  BY <1>7, <1>8, MaxIs
<1>10. \E l \in layouts : \A j \in layouts : Len(j) <= Len(l)
  BY <1>9
<1>11. Widest(layouts) \in layouts
  BY <1>10 DEF Widest
<1> QED BY <1>3, <1>5, <1>11 DEF layouts

(* type.__new__ lays out what the bases have and then the slots.            *)
LEMMA TypeNewLays ==
    ASSUME Typed, InProgress, Placed, \A n \in 1..Len(classes) : LaidOut(n), TypeNew
    PROVE  Laid'
<1> DEFINE W == Widest(LayoutsOf(info.bases))
           S == {<<This, s>> : s \in info.slots}
           own == SetToSeq(S)
           w == W \o own
<1>1. /\ info'.layout = w /\ classes' = classes /\ info'.slots = info.slots
      /\ info'.bases = info.bases /\ info'.rest = info.rest
      /\ \A l \in LayoutsOf(info.bases) : IsPrefix(l, W) /\ info.rest = <<>>
  <2>1. info.rest = <<>>
    BY TypeNewDoes DEF InProgress, Reading
  <2> QED BY <2>1, TypeNewDoes DEF InProgress, Keeps, Parts
<1>2. /\ \A i : Base(i)' = Base(i) /\ This' = This
      /\ Read' = Read /\ Read = BasesAt(info.bases)
  <2>1. info.rest = <<>>
    BY TypeNewDoes DEF InProgress, Reading
  <2> QED BY <1>1, <2>1, ReadKept, ReadAre DEF Typed, InProgress, This
<1>3. \A i \in Read : info.bases[i] \in 1..Len(classes)
  BY ReadAre DEF Typed, InProgress
<1>4. \A i \in Read : LayoutOK(Base(i).layout)
  BY <1>3 DEF LaidOut, Base
<1>5. /\ W = <<>> \/ \E i \in Read : W = Base(i).layout
      /\ LayoutOK(W) /\ \A i \in Read : Base(i).layout \in LayoutsOf(info.bases)
  BY <1>2, WidestIs
<1>6. \A i \in Read : Begins(Base(i).layout, W)
  <2>1. \A i \in Read : IsPrefix(Base(i).layout, W)
    BY <1>1, <1>5, TypeNewDoes DEF InProgress
  <2> QED BY <1>4, <1>5, <2>1, BeginsIs DEF LayoutOK
<1>7. This \in Nat
  BY ThisInMenu DEF Typed, InProgress, Reading
<1>8. S \subseteq Slot /\ IsFiniteSet(S)
  <2>1. IsFiniteSet(info.slots)
    <3>1. IsFiniteSet(ToSet(info.defaults_lk) \cup {CachedHash})
      BY DistinctIsInjective, FS_AddElement DEF InProgress, Collected
    <3>2. info.slots \in SUBSET (ToSet(info.defaults_lk) \cup {CachedHash})
      BY DEF InProgress, Collected
    <3> QED BY <3>1, <3>2, FS_Subset
  <2> DEFINE f == [s \in info.slots |-> <<This, s>>]
  <2>2. f \in Surjection(info.slots, S)
    BY DEF Surjection
  <2>3. IsFiniteSet(S)
    BY <2>1, <2>2, FS_Surjection
  <2> QED BY <1>7, <2>3 DEF Placed, Slot
<1>9. own \in Seq(S) /\ Distinct(own) /\ ToSet(own) = S
  BY <1>8, SetToSeqIs
<1> HIDE DEF W, own
<1>10. own \in Seq(Slot) /\ Len(own) \in Nat
       /\ \A j \in 1..Len(own) : \E s \in info.slots : own[j] = <<This, s>>
  <2>1. \A j \in 1..Len(own) : own[j] \in S
    BY <1>9, SeqIs
  <2>2. IsSeq(own)
    BY <1>9, SeqIs
  <2>3. \A j \in 1..Len(own) : own[j] \in Slot
    BY <1>8, <2>1
  <2>4. own \in Seq(Slot)
    BY <2>2, <2>3 DEF IsSeq
  <2> QED BY <2>1, <2>4, SeqIs
<1>11. \A s \in info.slots : \E j \in 1..Len(own) : own[j] = <<This, s>>
  BY <1>9, ToSetOf
<1>12. W \in Seq(Slot) /\ Len(W) \in Nat
  BY <1>5, SeqIs DEF LayoutOK
<1>13. /\ w \in Seq(Slot) /\ Len(w) = Len(W) + Len(own)
       /\ \A i \in 1..Len(W) + Len(own) : w[i] = IF i <= Len(W) THEN W[i] ELSE own[i - Len(W)]
  BY <1>10, <1>12, ConcatProperties
<1> HIDE DEF w, S
<1>14. /\ \A i \in 1..Len(W) : i \in 1..Len(w) /\ w[i] = W[i]
       /\ \A j \in 1..Len(own) : Len(W) + j \in 1..Len(w) /\ w[Len(W) + j] = own[j]
  <2>1. \A i \in 1..Len(W) : i \in 1..Len(W) + Len(own) /\ i <= Len(W)
    BY <1>10, <1>12
  <2>2. \A j \in 1..Len(own) : /\ Len(W) + j \in 1..Len(W) + Len(own)
                               /\ ~(Len(W) + j <= Len(W)) /\ (Len(W) + j) - Len(W) = j
    BY <1>10, <1>12
  <2> QED BY <1>13, <2>1, <2>2
<1>15. \A i \in 1..Len(w) : \/ i \in 1..Len(W) /\ w[i] = W[i]
                            \/ \E j \in 1..Len(own) : i = Len(W) + j /\ w[i] = own[j]
  <2> TAKE i \in 1..Len(w)
  <2>1. CASE i <= Len(W)
    BY <1>10, <1>12, <1>13, <2>1
  <2>2. CASE ~(i <= Len(W))
    <3>1. i - Len(W) \in 1..Len(own) /\ i = Len(W) + (i - Len(W))
      BY <1>10, <1>12, <1>13, <2>2
    <3> QED BY <1>13, <2>2, <3>1
  <2> QED BY <2>1, <2>2
<1>16. \A s \in info.slots : \A i \in Read : ~Reaches(Base(i).layout, s)
  <2> TAKE s \in info.slots
  <2> TAKE i \in Read
  <2>1. LaidOut(info.bases[i])
    BY <1>3
  <2>2. CASE s \in Name
    <3>1. s \notin ToSet(Base(i).fields)
      BY DEF Placed
    <3> QED BY <2>1, <2>2, <3>1 DEF LaidOut, Base
  <2>3. CASE s = CachedHash
    <3>1. Base(i).hash_offset = 0
      BY <2>3 DEF Placed
    <3> QED BY <2>1, <2>3, <3>1 DEF LaidOut, Base
  <2> QED BY <2>2, <2>3 DEF Placed
<1>17. \A s \in info.slots : \A i \in 1..Len(W) : W[i][2] # s
  <2>1. Len(<<>>) = 0
    OBVIOUS
  <2>2. ~(1 <= 0)
    OBVIOUS
  <2>3. \A i \in Read : \A s \in info.slots : \A j \in 1..Len(Base(i).layout) :
            Base(i).layout[j][2] # s
    BY <1>16 DEF Reaches
  <2>4. CASE W = <<>>
    BY <2>4
  <2> QED BY <1>5, <2>3, <2>4
<1>18. \A i, j \in 1..Len(w) : w[i][2] = w[j][2] => i = j
  <2> SUFFICES ASSUME NEW i \in 1..Len(w), NEW j \in 1..Len(w), w[i][2] = w[j][2]
               PROVE  i = j
    OBVIOUS
  <2>1. CASE i \in 1..Len(W) /\ j \in 1..Len(W) /\ w[i] = W[i] /\ w[j] = W[j]
    BY <1>5, <2>1 DEF LayoutOK
  <2>2. CASE /\ \E k \in 1..Len(own) : i = Len(W) + k /\ w[i] = own[k]
             /\ \E k \in 1..Len(own) : j = Len(W) + k /\ w[j] = own[k]
    <3>1. PICK k \in 1..Len(own) : i = Len(W) + k /\ w[i] = own[k]
      BY <2>2
    <3>2. PICK l \in 1..Len(own) : j = Len(W) + l /\ w[j] = own[l]
      BY <2>2
    <3>3. PICK s \in info.slots : own[k] = <<This, s>>
      BY <1>10
    <3>4. PICK t \in info.slots : own[l] = <<This, t>>
      BY <1>10
    <3>5. own[k] = own[l]
      BY <3>1, <3>2, <3>3, <3>4
    <3>6. k = l
      BY <1>9, <3>5 DEF Distinct
    <3> QED BY <3>1, <3>2, <3>6
  <2>3. ASSUME NEW k \in 1..Len(own), NEW l \in 1..Len(W)
        PROVE  own[k][2] # W[l][2]
    <3>1. PICK s \in info.slots : own[k] = <<This, s>>
      BY <1>10
    <3> QED BY <1>17, <3>1
  <2> QED BY <1>15, <2>1, <2>2, <2>3, ZenonT(60)
<1>19. LayoutOK(w)
  BY <1>13, <1>18 DEF LayoutOK
<1>20. \A s \in info.slots : \E i \in 1..Len(w) : w[i] = <<This, s>>
  BY <1>11, <1>14
<1>21. \A i \in Read : Begins(Base(i).layout, w)
  <2> TAKE i \in Read
  <2>1. Len(Base(i).layout) \in Nat
    BY <1>4, SeqIs DEF LayoutOK
  <2>2. Len(Base(i).layout) <= Len(W) /\ \A k \in 1..Len(Base(i).layout) :
            Base(i).layout[k] = W[k]
    BY <1>6 DEF Begins
  <2>3. \A k \in 1..Len(Base(i).layout) : k \in 1..Len(W)
    BY <1>12, <2>1, <2>2
  <2>4. Len(Base(i).layout) <= Len(w)
    BY <1>10, <1>12, <1>13, <2>1, <2>2
  <2>5. \A k \in 1..Len(Base(i).layout) : Base(i).layout[k] = w[k]
    BY <1>14, <2>2, <2>3
  <2> QED BY <2>4, <2>5 DEF Begins
<1>22. ASSUME NEW name \in Name \cup {CachedHash}
       PROVE  Reaches(w, name) <=>
                  name \in info.slots \/ \E i \in Read : Reaches(Base(i).layout, name)
  <2>1. ASSUME Reaches(w, name)
        PROVE  name \in info.slots \/ \E i \in Read : Reaches(Base(i).layout, name)
    <3>1. PICK i \in 1..Len(w) : w[i][2] = name
      BY <2>1 DEF Reaches
    <3>2. CASE i \in 1..Len(W) /\ w[i] = W[i]
      <4>1. W # <<>>
        BY <3>2
      <4> QED BY <1>5, <3>1, <3>2, <4>1 DEF Reaches
    <3>3. CASE \E j \in 1..Len(own) : i = Len(W) + j /\ w[i] = own[j]
      BY <1>10, <3>1, <3>3
    <3> QED BY <1>15, <3>2, <3>3
  <2>2. ASSUME name \in info.slots PROVE Reaches(w, name)
    <3>1. PICK i \in 1..Len(w) : w[i] = <<This, name>>
      BY <1>20, <2>2
    <3>2. w[i][2] = name
      BY <3>1
    <3> QED BY <3>2 DEF Reaches
  <2>3. ASSUME NEW i \in Read, Reaches(Base(i).layout, name) PROVE Reaches(w, name)
    <3>1. PICK k \in 1..Len(Base(i).layout) : Base(i).layout[k][2] = name
      BY <2>3 DEF Reaches
    <3>2. Len(Base(i).layout) <= Len(w) /\ Base(i).layout[k] = w[k]
      BY <1>21 DEF Begins
    <3>3. Len(Base(i).layout) \in Nat /\ Len(w) \in Nat
      BY <1>4, <1>13, SeqIs DEF LayoutOK
    <3>4. k \in 1..Len(w)
      BY <3>2, <3>3
    <3> QED BY <3>1, <3>2, <3>4 DEF Reaches
  <2> QED BY <2>1, <2>2, <2>3
<1> HIDE DEF Reaches, Begins, LayoutOK
<1> QED BY <1>1, <1>2, <1>19, <1>20, <1>21, <1>22 DEF Laid

LEMMA FirstKept ==
    ASSUME Read' = Read, \A i : Base(i)' = Base(i)
    PROVE  \A i, f : First(i, f)' <=> First(i, f)
BY DEF First

LEMMA PlacedKept ==
    ASSUME Placed, Read' = Read, \A i : Base(i)' = Base(i),
           info'.defaults_lk = info.defaults_lk, info'.slots = info.slots,
           info'.offsets_lk = info.offsets_lk, info'.hash_offset = info.hash_offset,
           info'.at = "bases" => info.at = "bases"
    PROVE  Placed'
BY FirstKept DEF Placed

(* The base that is read becomes the first one of all its fields.           *)
LEMMA FirstBase ==
    ASSUME ClassesTyped, InProgress, CollectBase
    PROVE  \A k : k = Len(info.rest) =>
           /\ \A f \in ToSet(Base(k).fields) : First(k, f)'
           /\ \A f : f \notin ToSet(Base(k).fields) =>
                 \A i \in Read : First(i, f) => First(i, f)'
<1> TAKE k
<1> HAVE k = Len(info.rest)
<1>1. /\ Read' = Read \cup {k} /\ \A i \in Read : k < i
      /\ \A i : Base(i)' = Base(i)
  BY ReadBase
<1>2. k <= k
  BY ReadAre DEF InProgress
<1>3. \A i \in Read : k <= i
  BY <1>1, ReadAre DEF InProgress
<1>4. \A f \in ToSet(Base(k).fields) : First(k, f)'
  BY <1>1, <1>2, <1>3 DEF First
<1>5. ASSUME NEW f, f \notin ToSet(Base(k).fields), NEW i \in Read, First(i, f)
      PROVE  First(i, f)'
  BY <1>1, <1>5 DEF First
<1> QED BY <1>4, <1>5

LEMMA PlacedBase ==
    ASSUME ClassesTyped, InProgress, Placed, CollectBase
    PROVE  Placed'
<1> PICK k : k = Len(info.rest)
  OBVIOUS
<1> DEFINE c == Base(k)
           F == ToSet(c.fields)
           lk == info.defaults_lk
           new == Picked(c.fields, Name \ ToSet(lk))
<1>1. /\ k \in BasesAt(info.bases) /\ Read' = Read \cup {k}
      /\ c = classes[Last(info.rest)]
      /\ \A i : Base(i)' = Base(i)
  BY ReadBase
<1>2. /\ info'.defaults_lk = lk \o new
      /\ info'.slots = info.slots /\ info.slots = {}
      /\ info'.offsets_lk = [f \in Name |-> IF f \in F THEN OffsetOf(c, f)
                                            ELSE info.offsets_lk[f]]
      /\ info'.hash_offset = IF c.hash_offset # 0 THEN c.hash_offset ELSE info.hash_offset
  BY <1>1, CollectBaseDoes, ZenonT(60) DEF InProgress, Placed, Keeps, Parts
<1>3. info.bases[k] \in 1..Len(classes) /\ ClassTyped(info.bases[k])
  BY <1>1, ReadAre DEF InProgress
<1>4. c.fields \in Seq(Name) /\ F \subseteq Name
  BY <1>3, ToSetOf, SMTT(60) DEF ClassTyped, Base
<1>5. lk \in Seq(Name) /\ ToSet(lk) \subseteq Name
  BY ToSetOf DEF InProgress, Collected
<1>6. /\ \A f \in F : First(k, f)'
      /\ \A f : f \notin F => \A i \in Read : First(i, f) => First(i, f)'
  BY FirstBase
<1> HIDE DEF c
<1>7. ToSet(info'.defaults_lk) = ToSet(lk) \cup F
  <2>1. new \in Seq(Name) /\ ToSet(new) = F \cap (Name \ ToSet(lk))
    BY <1>4, PickedHas
  <2> HIDE DEF new
  <2>2. ToSet(info'.defaults_lk) = ToSet(lk) \cup ToSet(new)
    BY <1>2, <1>5, <2>1, ToSetConcat
  <2> QED BY <1>4, <2>1, <2>2
<1>8. \A i \in Read' : /\ ToSet(Base(i).fields) \subseteq ToSet(info'.defaults_lk)
                       /\ ToSet(Base(i).fields) \cap info'.slots = {}
  <2>1. \A i \in Read : ToSet(Base(i).fields) \subseteq ToSet(lk)
    BY DEF Placed
  <2>2. \A i \in Read' : i \in Read \/ i = k
    BY <1>1
  <2>3. ToSet(Base(k).fields) = F
    BY DEF c
  <2> QED BY <1>2, <1>7, <2>1, <2>2, <2>3
<1>9. ASSUME NEW f \in ToSet(info'.defaults_lk) \ info'.slots
      PROVE  \E i \in Read' : First(i, f)' /\ info'.offsets_lk[f] = OffsetOf(Base(i), f)
  <2>1. CASE f \in F
    <3>1. info'.offsets_lk[f] = OffsetOf(c, f)
      BY <1>2, <1>4, <2>1
    <3> QED BY <1>1, <1>6, <2>1, <3>1 DEF c
  <2>2. CASE f \notin F
    <3>1. f \in ToSet(lk) \ info.slots /\ f \in Name
      BY <1>2, <1>5, <1>7, <1>9, <2>2
    <3>2. PICK i \in Read : First(i, f) /\ info.offsets_lk[f] = OffsetOf(Base(i), f)
      BY <3>1 DEF Placed
    <3>3. First(i, f)'
      BY <1>6, <2>2, <3>2
    <3>4. info'.offsets_lk[f] = info.offsets_lk[f]
      BY <1>2, <2>2, <3>1
    <3> QED BY <1>1, <3>2, <3>3, <3>4
  <2> QED BY <2>1, <2>2
<1>10. \/ info'.hash_offset = 0 /\ \A i \in Read' : Base(i).hash_offset = 0
       \/ \E i \in Read' : info'.hash_offset = Base(i).hash_offset /\ info'.hash_offset # 0
  <2>1. CASE c.hash_offset # 0
    BY <1>1, <1>2, <2>1 DEF c
  <2>2. CASE c.hash_offset = 0
    <3>1. info'.hash_offset = info.hash_offset
      BY <1>2, <2>2
    <3>2. \A i \in Read' : i \in Read \/ i = k
      BY <1>1
    <3>3. \A i \in Read : i \in Read'
      BY <1>1
    <3> QED BY <2>2, <3>1, <3>2, <3>3 DEF Placed, c
  <2> QED BY <2>1, <2>2
<1> HIDE DEF F, lk
<1> QED BY <1>1, <1>2, <1>8, <1>9, <1>10 DEF Placed

LEMMA PlacedField ==
    ASSUME ClassesTyped, InProgress, Placed, NEW item \in Menu[This].items, ReadsField(item),
           classes' = classes, info.at = "fields"
    PROVE  Placed'
<1> DEFINE f == item.name
           lk == info.defaults_lk
<1>1. /\ info'.at = "fields" /\ info'.offsets_lk = info.offsets_lk
      /\ info'.hash_offset = info.hash_offset
      /\ info'.bases = info.bases /\ info'.rest = info.rest
  BY DEF ReadsField, Keeps, Parts
<1>2. Read' = Read /\ \A i : Base(i)' = Base(i)
  BY <1>1, ReadKept
<1>3. f \in Name
  <2>1. This \in 1..Len(Menu)
    BY ThisInMenu DEF InProgress, Reading
  <2>2. \A j \in Menu[This].items : j.name \in Name
    BY <2>1, ConstantsOK
  <2> QED BY <2>2
<1>4. CASE f \in ToSet(lk)
  <2>1. info'.defaults_lk = lk /\ info'.slots = info.slots
    BY <1>4 DEF ReadsField
  <2> QED BY <1>1, <1>2, <2>1, PlacedKept
<1>5. CASE f \notin ToSet(lk)
  <2>1. info'.defaults_lk = Append(lk, f) /\ info'.slots = info.slots \cup {f}
    BY <1>5 DEF ReadsField
  <2>2. ToSet(info'.defaults_lk) = ToSet(lk) \cup {f}
    BY <1>3, <2>1, AppendIs DEF InProgress, Collected
  <2>3. \A i \in Read : /\ ToSet(Base(i).fields) \subseteq ToSet(info'.defaults_lk)
                        /\ ToSet(Base(i).fields) \cap info'.slots = {}
    BY <1>5, <2>1, <2>2 DEF Placed
  <2>4. \A g \in ToSet(info'.defaults_lk) \ info'.slots :
            g \in ToSet(lk) \ info.slots
    BY <2>1, <2>2
  <2>5. \A g \in ToSet(info'.defaults_lk) \ info'.slots :
            \E i \in Read' : First(i, g)' /\ info'.offsets_lk[g] = OffsetOf(Base(i), g)
    BY <1>1, <1>2, <2>4, FirstKept DEF Placed
  <2>6. /\ info'.slots \subseteq Name \cup {CachedHash}
        /\ CachedHash \in info'.slots => info'.hash_offset = 0
    BY <1>1, <1>3, <2>1, ConstantsOK DEF Placed
  <2>7. \/ info'.hash_offset = 0 /\ \A i \in Read : Base(i).hash_offset = 0
        \/ \E i \in Read : info'.hash_offset = Base(i).hash_offset /\ info'.hash_offset # 0
    BY <1>1 DEF Placed
  <2> HIDE DEF f, lk
  <2> QED BY <1>1, <1>2, <2>3, <2>5, <2>6, <2>7 DEF Placed
<1> QED BY <1>4, <1>5

LEMMA PlacedConstruct ==
    ASSUME ClassesTyped, InProgress, Placed, ConstructFields, info' # None
    PROVE  Placed'
<1>1. /\ info'.at = "codecs" /\ info'.offsets_lk = info.offsets_lk /\ classes' = classes
      /\ info'.hash_offset = info.hash_offset /\ info'.defaults_lk = info.defaults_lk
      /\ info'.bases = info.bases /\ info'.rest = info.rest
      /\ info'.slots = IF NeedsHashSlot THEN info.slots \cup {CachedHash} ELSE info.slots
  BY ConstructFieldsDoes DEF InProgress, Keeps, Parts
<1>2. Read' = Read /\ \A i : Base(i)' = Base(i)
  BY <1>1, ReadKept
<1>3. \A i \in Read : ToSet(Base(i).fields) \subseteq Name
  BY ReadAre, ToSetOf, ZenonT(60) DEF InProgress, ClassTyped, Base
<1>4. CachedHash \notin Name
  BY ConstantsOK
<1>5. \A i \in Read : ToSet(Base(i).fields) \cap info'.slots = {}
  BY <1>1, <1>3, <1>4 DEF Placed
<1>6. \A g \in ToSet(info'.defaults_lk) \ info'.slots :
          \E i \in Read' : First(i, g)' /\ info'.offsets_lk[g] = OffsetOf(Base(i), g)
  <2>1. info.slots \subseteq info'.slots
    BY <1>1
  <2> QED BY <1>1, <1>2, <2>1, FirstKept DEF Placed
<1>7. /\ info'.slots \subseteq Name \cup {CachedHash}
      /\ CachedHash \in info'.slots => info'.hash_offset = 0
  BY <1>1 DEF Placed, NeedsHashSlot
<1>8. \/ info'.hash_offset = 0 /\ \A i \in Read : Base(i).hash_offset = 0
      \/ \E i \in Read : info'.hash_offset = Base(i).hash_offset /\ info'.hash_offset # 0
  BY <1>1 DEF Placed
<1>9. \A i \in Read : ToSet(Base(i).fields) \subseteq ToSet(info'.defaults_lk)
  BY <1>1 DEF Placed
<1> QED BY <1>1, <1>2, <1>5, <1>6, <1>7, <1>8, <1>9 DEF Placed

(* The class that Finish makes has the layout it was given.                 *)
LEMMA FinishedLaid ==
    ASSUME Typed, InProgress, Placed, Laid, \A n \in 1..Len(classes) : LaidOut(n), Makes
    PROVE  \A n \in 1..Len(classes') : LaidOut(n)'
<1> DEFINE c == Finished
           l == info.layout
<1>1. /\ Len(classes') = This /\ classes'[This] = c
      /\ \A n \in 1..Len(classes) : classes'[n] = classes[n]
  BY DEF Makes
<1>2. \A n \in 1..Len(classes') : n \in 1..Len(classes) \/ n = This
  BY <1>1, ClassesListed DEF This, Typed
<1>3. ASSUME NEW n \in 1..Len(classes) PROVE LaidOut(n)'
  <2>1. ClassTyped(n) /\ LaidOut(n) /\ classes'[n] = classes[n]
    BY <1>1 DEF Typed, ClassesTyped
  <2>2. \A i \in BasesAt(classes[n].bases) : classes[n].bases[i] \in 1..Len(classes)
    <3>1. \A i \in BasesAt(classes[n].bases) : classes[n].bases[i] \in 1..n - 1
      BY <2>1, SeqIs DEF ClassTyped, BasesAt
    <3>2. Len(classes) \in Nat
      BY ClassesListed DEF Typed
    <3> QED BY <3>1, <3>2
  <2>3. \A i \in BasesAt(classes[n].bases) :
            classes'[classes[n].bases[i]] = classes[classes[n].bases[i]]
    BY <1>1, <2>2
  <2> QED BY <2>1, <2>3 DEF LaidOut
<1>4. /\ c.layout = l /\ c.fields = info.fields /\ c.bases = info.bases
      /\ c.offsets = [i \in DOMAIN info.fields |->
                        OwnOffset(info.fields[i], info.offsets_lk[info.fields[i]])]
      /\ c.hash_offset = OwnOffset(CachedHash, info.hash_offset)
  BY DEF Finished
<1> HIDE DEF c
<1>5. /\ info.fields \in Seq(Name) /\ DOMAIN info.fields = 1..Len(info.fields)
      /\ ToSet(info.fields) = ToSet(info.defaults_lk) /\ info.rest = <<>>
      /\ \A i \in 1..Len(info.fields) : info.fields[i] \in Name
  <2>1. info.fields = Ordered /\ info.rest = <<>>
    BY DEF Makes, InProgress, Arranged, Constructed, Reading
  <2> QED BY <2>1, OrderedHas, SeqIs DEF InProgress, Collected
<1>6. /\ Read = BasesAt(info.bases)
      /\ \A i \in Read : info.bases[i] \in 1..Len(classes) /\ ClassTyped(info.bases[i])
  BY <1>5, ReadAre DEF Typed, InProgress
<1>7. \A i \in Read : LaidOut(info.bases[i])
  BY <1>6
<1>8. l \in Seq(Slot) /\ DOMAIN l = 1..Len(l) /\ Len(l) \in Nat
  BY SeqIs DEF Laid, LayoutOK
<1>9. \A i \in Read : /\ Len(Base(i).layout) \in Nat /\ Len(Base(i).layout) <= Len(l)
                      /\ \A k \in 1..Len(Base(i).layout) :
                            k \in 1..Len(l) /\ l[k] = Base(i).layout[k]
  <2>1. \A i \in Read : Len(Base(i).layout) \in Nat
    BY <1>7, SeqIs DEF LaidOut, LayoutOK, Base
  <2>2. \A i \in Read : /\ Len(Base(i).layout) <= Len(l)
                        /\ \A k \in 1..Len(Base(i).layout) : l[k] = Base(i).layout[k]
    BY DEF Laid, Begins
  <2> QED BY <1>8, <2>1, <2>2
<1>10. \A s \in info.slots : /\ OffsetIn(l, s) \in 1..Len(l) /\ l[OffsetIn(l, s)] = <<This, s>>
                             /\ l[OffsetIn(l, s)][2] = s
  <2> TAKE s \in info.slots
  <2>1. PICK i \in DOMAIN l : l[i] = <<This, s>>
    BY <1>8 DEF Laid
  <2>2. OffsetIn(l, s) \in DOMAIN l /\ l[OffsetIn(l, s)] = <<This, s>>
    BY <2>1 DEF OffsetIn
  <2> HIDE DEF l
  <2> QED BY <1>8, <2>2
<1>11. ASSUME NEW f \in Name
       PROVE  f \in ToSet(info.fields) <=> Reaches(l, f)
  <2>1. Reaches(l, f) <=> f \in info.slots \/ \E i \in Read : Reaches(Base(i).layout, f)
    BY DEF Laid
  <2>2. \A i \in Read : f \in ToSet(Base(i).fields) <=> Reaches(Base(i).layout, f)
    BY <1>7 DEF LaidOut, Base
  <2>3. f \in ToSet(info.defaults_lk) => f \in info.slots
                                         \/ \E i \in Read : f \in ToSet(Base(i).fields)
    BY DEF Placed, First
  <2>4. \A i \in Read : ToSet(Base(i).fields) \subseteq ToSet(info.defaults_lk)
    BY DEF Placed
  <2>5. f # CachedHash
    BY ConstantsOK
  <2>6. f \in info.slots => f \in ToSet(info.defaults_lk)
    BY <2>5 DEF InProgress, Collected
  <2> QED BY <1>5, <2>1, <2>2, <2>3, <2>4, <2>6
<1>12. ASSUME NEW i \in 1..Len(info.fields)
       PROVE  c.offsets[i] \in 1..Len(l) /\ l[c.offsets[i]][2] = info.fields[i]
  <2> DEFINE f == info.fields[i]
  <2>1. c.offsets[i] = OwnOffset(f, info.offsets_lk[f])
    BY <1>4, <1>5
  <2>2. CASE f \in info.slots
    <3>1. c.offsets[i] = OffsetIn(l, f)
      BY <2>1, <2>2 DEF OwnOffset
    <3> QED BY <1>10, <2>2, <3>1
  <2>3. CASE f \notin info.slots
    <3>1. f \in ToSet(info.defaults_lk)
      BY <1>5, ToSetOf
    <3>2. PICK j \in Read : First(j, f) /\ info.offsets_lk[f] = OffsetOf(Base(j), f)
      BY <2>3, <3>1 DEF Placed
    <3> DEFINE b == Base(j)
               k == IndexOf(b, f)
    <3>3. LaidOut(info.bases[j]) /\ ClassTyped(info.bases[j]) /\ f \in ToSet(b.fields)
      BY <1>6, <1>7, <3>2 DEF First
    <3>4. k \in 1..Len(b.fields) /\ b.fields[k] = f
      BY <3>3, IndexIs DEF ClassTyped, Base
    <3>5. b.offsets[k] \in 1..Len(b.layout) /\ b.layout[b.offsets[k]][2] = f
      BY <3>3, <3>4 DEF LaidOut, Base
    <3>6. c.offsets[i] = b.offsets[k]
      BY <2>1, <2>3, <3>2 DEF OwnOffset, OffsetOf
    <3> HIDE DEF b, k
    <3>7. \A m \in 1..Len(b.layout) : m \in 1..Len(l) /\ l[m] = b.layout[m]
      BY <1>9 DEF b
    <3> QED BY <3>5, <3>6, <3>7
  <2> QED BY <2>2, <2>3
<1>13. IF c.hash_offset = 0 THEN ~Reaches(l, CachedHash)
       ELSE c.hash_offset \in 1..Len(l) /\ l[c.hash_offset][2] = CachedHash
  <2>1. Reaches(l, CachedHash) <=>
            CachedHash \in info.slots \/ \E i \in Read : Reaches(Base(i).layout, CachedHash)
    BY DEF Laid
  <2>2. CASE CachedHash \in info.slots
    <3>1. c.hash_offset = OffsetIn(l, CachedHash)
      BY <1>4, <2>2 DEF OwnOffset
    <3>2. c.hash_offset \in 1..Len(l) /\ l[c.hash_offset][2] = CachedHash
      BY <1>10, <2>2, <3>1
    <3>3. c.hash_offset # 0
      BY <3>2
    <3> QED BY <3>2, <3>3
  <2>3. CASE CachedHash \notin info.slots
    <3>1. c.hash_offset = info.hash_offset
      BY <1>4, <2>3 DEF OwnOffset
    <3>2. CASE info.hash_offset = 0 /\ \A i \in Read : Base(i).hash_offset = 0
      <4>1. \A i \in Read : ~Reaches(Base(i).layout, CachedHash)
        BY <1>7, <3>2 DEF LaidOut, Base
      <4> QED BY <2>1, <2>3, <3>1, <3>2, <4>1
    <3>3. CASE \E i \in Read : info.hash_offset = Base(i).hash_offset /\ info.hash_offset # 0
      <4>1. PICK i \in Read : info.hash_offset = Base(i).hash_offset /\ info.hash_offset # 0
        BY <3>3
      <4>2. /\ Base(i).hash_offset \in 1..Len(Base(i).layout)
            /\ Base(i).layout[Base(i).hash_offset][2] = CachedHash
        BY <1>7, <4>1 DEF LaidOut, Base
      <4> QED BY <1>9, <3>1, <4>1, <4>2
    <3> QED BY <3>2, <3>3 DEF Placed
  <2> QED BY <2>2, <2>3
<1>14. \A i \in BasesAt(c.bases) : Begins(classes'[c.bases[i]].layout, l)
  <2>1. \A i \in Read : classes'[info.bases[i]] = Base(i)
    BY <1>1, <1>6 DEF Base
  <2> QED BY <1>4, <1>6, <2>1 DEF Laid
<1>15. ASSUME NEW n, n = This PROVE LaidOut(n)'
  <2>1. classes'[n] = c
    BY <1>1, <1>15
  <2>2. LayoutOK(l)
    BY DEF Laid
  <2> HIDE DEF l, LayoutOK, Reaches, Begins
  <2> QED BY <1>4, <1>11, <1>12, <1>13, <1>14, <2>1, <2>2 DEF LaidOut
<1> QED BY <1>2, <1>3, <1>15

LEMMA SlottedInit == Init => Slotted
<1> SUFFICES ASSUME Init PROVE Slotted
  OBVIOUS
<1>1. Len(classes) = 0 /\ info = None
  BY EmptySeq DEF Init
<1> QED BY <1>1 DEF Slotted

LEMMA PlacedFresh ==
    ASSUME ClassesTyped, Begin
    PROVE  Placed' /\ info'.at = "bases"
<1>1. PICK bases \in Menu[This].bases : info' = Fresh(bases)
  BY BeginDoes
<1>2. /\ info'.at = "bases" /\ info'.defaults_lk = <<>> /\ info'.slots = {}
      /\ info'.hash_offset = 0
  BY <1>1, FreshIs
<1>3. ToSet(info'.defaults_lk) = {}
  BY <1>2, EmptySeq DEF ToSet
<1>4. Read' = {}
  BY ReadFresh
<1> QED BY <1>2, <1>3, <1>4 DEF Placed

LEMMA PlacedStep ==
    ASSUME Typed, InProgress, Placed, info' # None, classes' = classes, Advances
    PROVE  Placed'
<1>1. DOMAIN info = Parts /\ ClassesTyped
  BY DEF InProgress, Typed
<1>2. CASE CollectMixin
  <2>1. /\ Read' = Read /\ \A i : Base(i)' = Base(i)
    BY <1>1, <1>2, ReadMixin
  <2>2. /\ info'.defaults_lk = info.defaults_lk /\ info'.slots = info.slots
        /\ info'.offsets_lk = info.offsets_lk /\ info'.hash_offset = info.hash_offset
        /\ info'.at = info.at
    BY <1>1, <1>2, CollectMixinDoes DEF Keeps, Parts
  <2> QED BY <2>1, <2>2, PlacedKept
<1>3. CASE CollectBase
  BY <1>1, <1>3, PlacedBase
<1>4. CASE ApplySpec
  <2>1. /\ info'.defaults_lk = info.defaults_lk /\ info'.slots = info.slots
        /\ info'.offsets_lk = info.offsets_lk /\ info'.hash_offset = info.hash_offset
        /\ info'.at = "fields" /\ info'.bases = info.bases /\ info'.rest = info.rest
    BY <1>1, <1>4, ApplySpecDoes DEF Keeps, Parts
  <2> QED BY <2>1, ReadKept, PlacedKept
<1>5. CASE CollectField
  <2>1. /\ info.at = "fields"
        /\ \E item \in Menu[This].items : ReadsClassVar(item) \/ ReadsField(item)
    BY <1>1, <1>5, CollectFieldDoes
  <2>2. ASSUME NEW item \in Menu[This].items, ReadsClassVar(item) PROVE Placed'
    <3>1. /\ info'.defaults_lk = info.defaults_lk /\ info'.slots = info.slots
          /\ info'.offsets_lk = info.offsets_lk /\ info'.hash_offset = info.hash_offset
          /\ info'.at = info.at /\ info'.bases = info.bases /\ info'.rest = info.rest
      BY <2>2 DEF ReadsClassVar, Keeps, Parts
    <3> QED BY <3>1, ReadKept, PlacedKept
  <2> QED BY <1>1, <2>1, <2>2, PlacedField
<1>6. CASE ConstructFields
  BY <1>1, <1>6, PlacedConstruct
<1>7. CASE CollectCodecs \/ ConstructAliasFields \/ TypeNew
  <2>1. /\ info'.defaults_lk = info.defaults_lk /\ info'.slots = info.slots
        /\ info'.offsets_lk = info.offsets_lk /\ info'.hash_offset = info.hash_offset
        /\ info'.at # "bases" /\ info'.bases = info.bases /\ info'.rest = info.rest
    BY <1>1, <1>7, CollectCodecsDoes, ConstructAliasFieldsDoes, TypeNewDoes DEF Keeps, Parts
  <2> QED BY <2>1, ReadKept, PlacedKept
<1> QED BY <1>2, <1>3, <1>4, <1>5, <1>6, <1>7 DEF Advances

LEMMA TagNext ==
    ASSUME InProgress, Advances, info' # None, info'.at = "tag"
    PROVE  TypeNew
<1>1. DOMAIN info = Parts
  BY DEF InProgress
<1>2. CASE CollectMixin \/ CollectBase \/ ApplySpec \/ CollectField
  BY <1>1, <1>2, CollectMixinDoes, CollectBaseDoes, ApplySpecDoes, CollectFieldDoes
     DEF ReadsClassVar, ReadsField, Keeps, Parts
<1>3. CASE ConstructFields \/ CollectCodecs \/ ConstructAliasFields
  BY <1>1, <1>3, ConstructFieldsDoes, CollectCodecsDoes, ConstructAliasFieldsDoes
<1> QED BY <1>2, <1>3 DEF Advances

LEMMA SlottedStep == Typed /\ Slotted /\ [Next]_vars => Slotted'
<1> SUFFICES ASSUME Typed, Slotted, [Next]_vars PROVE Slotted'
  OBVIOUS
<1>1. classes' = classes => \A n \in 1..Len(classes') : LaidOut(n)'
  BY DEF Slotted, LaidOut
<1>2. CASE classes' = classes /\ info' = None
  BY <1>1, <1>2 DEF Slotted
<1>3. CASE classes' = classes /\ info' = info
  <2>1. Read' = Read /\ \A i : Base(i)' = Base(i)
    BY <1>3, ReadKept
  <2>2. Placed => Placed'
    BY <1>3, <2>1, PlacedKept
  <2>3. Laid => Laid'
    BY <1>3, <2>1 DEF Laid, This
  <2> QED BY <1>1, <1>3, <2>2, <2>3 DEF Slotted
<1>4. CASE classes' = classes /\ Begin
  BY <1>1, <1>4, PlacedFresh DEF Slotted, Typed
<1>5. CASE InProgress /\ classes' = classes /\ info' # None /\ Advances
  <2>1. info # None
    BY <1>5, NoneIs DEF InProgress, Stages
  <2>2. Placed /\ \A n \in 1..Len(classes) : LaidOut(n)
    BY <2>1 DEF Slotted
  <2>3. Placed'
    BY <1>5, <2>2, PlacedStep
  <2>4. info'.at = "tag" => Laid'
    BY <1>5, <2>2, TagNext, TypeNewLays
  <2> QED BY <1>1, <1>5, <2>3, <2>4 DEF Slotted
<1>6. CASE InProgress /\ Makes
  <2>1. info # None /\ info.at = "tag" /\ info' = None
    BY <1>6, NoneIs DEF InProgress, Stages, Makes
  <2>2. Placed /\ Laid /\ \A n \in 1..Len(classes) : LaidOut(n)
    BY <2>1 DEF Slotted
  <2> QED BY <1>6, <2>1, <2>2, FinishedLaid DEF Slotted
<1> QED BY <1>2, <1>3, <1>4, <1>5, <1>6, Steps

LEMMA SlottedAlways == Spec => []Slotted
BY TypedAlways, SlottedInit, SlottedStep, PTL DEF Spec

LEMMA LaidOutAgrees ==
    ASSUME Typed, NEW n \in 1..Len(classes), \A k \in 1..Len(classes) : LaidOut(k)
    PROVE  LET c == classes[n]  names == Seconds(c.layout) IN
           /\ Injective(names)
           /\ ToSet(names) \ {CachedHash} = ToSet(c.fields)
           /\ \A i \in DOMAIN c.fields : names[c.offsets[i]] = c.fields[i]
           /\ IF CachedHash \in ToSet(names) THEN names[c.hash_offset] = CachedHash
              ELSE c.hash_offset = 0
           /\ \A b \in StructBases(c.bases) : IsPrefix(classes[b].layout, c.layout)
<1> DEFINE c == classes[n]
           l == c.layout
           names == Seconds(l)
<1>1. LaidOut(n) /\ ClassTyped(n)
  BY DEF Typed, ClassesTyped
<1>2. l \in Seq(Slot) /\ DOMAIN l = 1..Len(l) /\ Len(l) \in Nat
      /\ \A i \in 1..Len(l) : l[i] \in Slot
  BY <1>1, SeqIs DEF LaidOut, LayoutOK
<1>3. c.fields \in Seq(Name) /\ DOMAIN c.fields = 1..Len(c.fields) /\ ToSet(c.fields) \subseteq Name
  BY <1>1, SeqIs, ToSetOf DEF ClassTyped
<1>4. CachedHash \notin Name
  BY ConstantsOK
<1>5. \A i \in 1..Len(l) : l[i][2] \in Name \cup {CachedHash}
  BY <1>2 DEF Slot
<1>6. names \in Seq(Name \cup {CachedHash}) /\ Len(names) = Len(l)
      /\ \A i \in 1..Len(l) : names[i] = l[i][2]
  <2>1. names = [i \in 1..Len(l) |-> l[i][2]]
    BY <1>2 DEF Seconds
  <2> HIDE DEF names
  <2> QED BY <1>2, <1>5, <2>1
<1> HIDE DEF names
<1>7. Distinct(names)
  BY <1>1, <1>6 DEF LaidOut, LayoutOK, Distinct
<1>8. \A x : x \in ToSet(names) <=> Reaches(l, x)
  <2>1. \A x : x \in ToSet(names) <=> \E i \in 1..Len(names) : names[i] = x
    BY <1>6, ToSetOf
  <2> QED BY <1>6, <2>1 DEF Reaches
<1>9. Injective(names)
  BY <1>6, <1>7, DistinctIsInjective
<1>10. ToSet(names) \ {CachedHash} = ToSet(c.fields)
  <2>1. \A f \in Name : f \in ToSet(c.fields) <=> f \in ToSet(names)
    BY <1>1, <1>8 DEF LaidOut
  <2>2. ToSet(names) \subseteq Name \cup {CachedHash}
    BY <1>6, ToSetOf
  <2> QED BY <1>3, <1>4, <2>1, <2>2
<1>11. \A i \in DOMAIN c.fields : names[c.offsets[i]] = c.fields[i]
  BY <1>1, <1>3, <1>6 DEF LaidOut
<1>12. IF CachedHash \in ToSet(names) THEN names[c.hash_offset] = CachedHash
       ELSE c.hash_offset = 0
  BY <1>1, <1>6, <1>8 DEF LaidOut, Reaches
<1>13. \A b \in StructBases(c.bases) : IsPrefix(classes[b].layout, l)
  <2> TAKE b \in StructBases(c.bases)
  <2>1. PICK i \in BasesAt(c.bases) : c.bases[i] = b
    BY DEF StructBases, BasesAt, ToSet
  <2>2. b \in 1..Len(classes)
    <3>1. b \in 1..n - 1
      BY <1>1, <2>1, SeqIs DEF ClassTyped, BasesAt
    <3>2. Len(classes) \in Nat
      BY ClassesListed DEF Typed
    <3> QED BY <3>1, <3>2
  <2>3. classes[b].layout \in Seq(Slot) /\ Begins(classes[b].layout, l)
    BY <1>1, <2>1, <2>2 DEF LaidOut, LayoutOK
  <2> QED BY <1>2, <2>3, BeginsIs
<1> QED BY <1>9, <1>10, <1>11, <1>12, <1>13 DEF names

(* Every field, and the cached hash, has one slot and is found there in the *)
(* class and in all its subclasses.                                         *)
THEOREM OffsetsHold == Spec => []SlotsAgree
<1>1. Typed /\ Slotted => SlotsAgree
  <2> SUFFICES ASSUME Typed, Slotted, NEW n \in DOMAIN classes
               PROVE  LET c == classes[n]  names == Seconds(c.layout) IN
                      /\ Injective(names)
                      /\ ToSet(names) \ {CachedHash} = ToSet(c.fields)
                      /\ \A i \in DOMAIN c.fields : names[c.offsets[i]] = c.fields[i]
                      /\ IF CachedHash \in ToSet(names) THEN names[c.hash_offset] = CachedHash
                         ELSE c.hash_offset = 0
                      /\ \A b \in StructBases(c.bases) : IsPrefix(classes[b].layout, c.layout)
    BY DEF SlotsAgree
  <2>1. n \in 1..Len(classes) /\ \A k \in 1..Len(classes) : LaidOut(k)
    BY ClassesListed DEF Typed, Slotted
  <2> QED BY <2>1, LaidOutAgrees
<1> QED BY <1>1, TypedAlways, SlottedAlways, PTL

-----------------------------------------------------------------------------
(* Keys and tags.                                                           *)

Keyed(n) ==
    LET c == classes[n] IN
    /\ Injective(c.alias_fields)
    /\ c.tag_field \notin ToSet(c.alias_fields)
    /\ c.tag_field = Null <=> c.tag_value = Null
    /\ c.tag \in {Null, "yes"} /\ c.tag_field # Null => c.tag_value = <<"class", n>>

ClassesKeyed == \A n \in 1..Len(classes) : Keyed(n)

LEMMA FinishedKeyed ==
    ASSUME Typed, InProgress, Makes, ClassesTyped'
    PROVE  \A n : n = This => Keyed(n)'
<1> DEFINE c == Finished
<1>1. /\ c.alias_fields = info.alias_fields
      /\ c.tag = IF Tagged THEN info.tag ELSE Null
      /\ c.tag_field = IF Tagged THEN TagField ELSE Null
      /\ c.tag_value = IF Tagged THEN TagValue ELSE Null
  BY DEF Finished
<1> HIDE DEF c
<1>2. classes'[This] = c
  BY DEF Makes, c
<1>3. This \in 1..Len(Menu)
  BY ThisInMenu DEF Typed, InProgress, Reading
<1>4. /\ info.alias_fields = Aliases /\ Injective(Aliases)
  BY DEF InProgress, Arranged, Makes
<1>5. ToSet(info.alias_fields) \subseteq Key
  <2>1. PICK t : t = This
    OBVIOUS
  <2>2. t \in 1..Len(classes')
    BY <2>1, ClassesListed DEF Makes, Typed, This
  <2>3. classes'[t].alias_fields \in Seq(Key)
    BY <2>2 DEF ClassesTyped, ClassTyped
  <2>4. info.alias_fields \in Seq(Key)
    BY <1>1, <1>2, <2>1, <2>3
  <2> QED BY <2>4, ToSetOf
<1>6. Null \notin Key /\ <<"class", This>> # Null
      /\ \A t \in Callable : <<t, This>> # Null
  BY <1>3, ConstantsOK, TagsOK
<1>7. CASE ~Tagged
  BY <1>1, <1>2, <1>4, <1>5, <1>6, <1>7 DEF Keyed
<1>8. CASE Tagged
  <2>1. c.tag = info.tag /\ c.tag_field = TagField /\ c.tag_value = TagValue
    BY <1>1, <1>8
  <2>2. TagField \in Key /\ TagField \notin ToSet(info.alias_fields)
    BY <1>8 DEF Makes, TagConflicts
  <2>3. TagValue # Null /\ (info.tag \in {Null, "yes"} => TagValue = <<"class", This>>)
    BY <1>6 DEF TagValue
  <2> QED BY <1>1, <1>2, <1>4, <1>6, <2>1, <2>2, <2>3 DEF Keyed
<1> QED BY <1>7, <1>8

LEMMA KeyedStep == Typed /\ ClassesKeyed /\ [Next]_vars => ClassesKeyed'
<1> SUFFICES ASSUME Typed, ClassesKeyed, [Next]_vars PROVE ClassesKeyed'
  OBVIOUS
<1>1. CASE classes' = classes
  BY <1>1 DEF ClassesKeyed, Keyed
<1>2. CASE InProgress /\ Makes
  <2>1. \A n \in 1..Len(classes') : n \in 1..Len(classes) \/ n = This
    BY <1>2, ClassesListed DEF Makes, This, Typed
  <2>2. \A n \in 1..Len(classes) : Keyed(n)'
    BY <1>2 DEF Makes, ClassesKeyed, Keyed
  <2>3. ClassesTyped'
    BY TypedStep DEF Typed
  <2> QED BY <1>2, <2>1, <2>2, <2>3, FinishedKeyed DEF ClassesKeyed
<1> QED BY <1>1, <1>2, Steps

(* The keys of an instance, and of its tag, differ; its tag is its own.     *)
THEOREM KeysDiffer == Spec => []KeysUnique
<1>1. Init => ClassesKeyed
  <2> SUFFICES ASSUME Init PROVE ClassesKeyed
    OBVIOUS
  <2>1. Len(classes) = 0
    BY EmptySeq DEF Init
  <2> QED BY <2>1 DEF ClassesKeyed
<1>2. Typed /\ ClassesKeyed => KeysUnique
  <2> SUFFICES ASSUME Typed, ClassesKeyed PROVE KeysUnique
    OBVIOUS
  <2>1. DOMAIN classes = 1..Len(classes)
    BY ClassesListed DEF Typed
  <2> QED BY <2>1 DEF ClassesKeyed, Keyed, KeysUnique
<1> QED BY <1>1, <1>2, TypedAlways, KeyedStep, PTL DEF Spec

-----------------------------------------------------------------------------
(* Settings.                                                                *)

(* The value is that of the first member of P that sets one.                *)
Settled(P, v, unset, value) ==
    \/ value = unset /\ \A i \in P : v[i] = unset
    \/ \E i \in P : /\ value = v[i] /\ v[i] # unset
                    /\ \A j \in P : j < i => v[j] = unset

OptionsOf(bases, o) == [i \in BasesAt(bases) |-> classes[bases[i]].option[o]]
RenamesOf(bases) == [i \in BasesAt(bases) |-> classes[bases[i]].rename]
TagsOf(bases) == [i \in BasesAt(bases) |-> classes[bases[i]].tag]

LEMMA SettledNext ==
    ASSUME NEW P, P \subseteq Int, NEW k \in Int, \A i \in P : k < i,
           NEW v, NEW unset, NEW value, Settled(P, v, unset, value)
    PROVE  Settled(P \cup {k}, v, unset, IF v[k] # unset THEN v[k] ELSE value)
<1>1. CASE v[k] # unset
  <2>1. \A j \in P \cup {k} : ~(j < k)
    OBVIOUS
  <2> QED BY <1>1, <2>1 DEF Settled
<1>2. CASE v[k] = unset
  BY <1>2 DEF Settled
<1> QED BY <1>1, <1>2

LEMMA SettingsKept ==
    ASSUME NEW bases, \A i \in BasesAt(bases) : classes'[bases[i]] = classes[bases[i]]
    PROVE  /\ \A o : OptionsOf(bases, o)' = OptionsOf(bases, o)
           /\ RenamesOf(bases)' = RenamesOf(bases) /\ TagsOf(bases)' = TagsOf(bases)
BY DEF OptionsOf, RenamesOf, TagsOf

(* The settings of c are those of its struct_config, or else of the bases   *)
(* of c at the places in P.                                                 *)
ConfiguredBy(c, P) ==
    /\ \A o \in Inherited :
          IF o \in DOMAIN c.spec THEN c.option[o] = c.spec[o]
          ELSE Settled(P, OptionsOf(c.bases, o), "unset", c.option[o])
    /\ IF "rename" \in DOMAIN c.spec THEN c.rename = c.spec["rename"]
       ELSE Settled(P, RenamesOf(c.bases), Null, c.rename)

TaggedBy(c, P, tag) ==
    IF "tag" \in DOMAIN c.spec THEN tag = c.spec["tag"]
    ELSE Settled(P, TagsOf(c.bases), Null, tag)

(* What weakref and dict say of the bases at the places in P.               *)
AddsUp(c, P) ==
    \A i \in P : /\ classes[c.bases[i]].has_weakref => c.has_weakref
                 /\ classes[c.bases[i]].has_dict => c.has_dict

ClassConfigured(n) ==
    LET c == classes[n] IN
    /\ ConfiguredBy(c, BasesAt(c.bases)) /\ AddsUp(c, BasesAt(c.bases))
    /\ \E tag \in {c.tag, "no"} : /\ TaggedBy(c, BasesAt(c.bases), tag)
                                  /\ c.tag = IF tag = "no" THEN Null ELSE tag

Configuring ==
    /\ \A n \in 1..Len(classes) : ClassConfigured(n)
    /\ info # None => /\ ConfiguredBy(info, Read) /\ TaggedBy(info, Read, info.tag)
                      /\ AddsUp(info, Read)
                      /\ info.at = "bases" => info.spec = <<>>

LEMMA ClassConfiguredKept ==
    ASSUME NEW n, classes'[n] = classes[n], ClassConfigured(n),
           \A i \in BasesAt(classes[n].bases) :
               classes'[classes[n].bases[i]] = classes[classes[n].bases[i]]
    PROVE  ClassConfigured(n)'
<1>1. PICK c : c = classes[n]
  OBVIOUS
<1>2. PICK bases : bases = c.bases
  OBVIOUS
<1>3. \A i \in BasesAt(bases) : classes'[bases[i]] = classes[bases[i]]
  BY <1>1, <1>2
<1>4. /\ \A o : OptionsOf(bases, o)' = OptionsOf(bases, o)
      /\ RenamesOf(bases)' = RenamesOf(bases) /\ TagsOf(bases)' = TagsOf(bases)
  BY <1>3, SettingsKept
<1>5. ConfiguredBy(c, BasesAt(bases)) => ConfiguredBy(c, BasesAt(bases))'
  BY <1>2, <1>4 DEF ConfiguredBy, BasesAt
<1>6. \A tag : TaggedBy(c, BasesAt(bases), tag) => TaggedBy(c, BasesAt(bases), tag)'
  BY <1>2, <1>4 DEF TaggedBy, BasesAt
<1>7. AddsUp(c, BasesAt(bases)) => AddsUp(c, BasesAt(bases))'
  BY <1>2, <1>3 DEF AddsUp, BasesAt
<1> QED BY <1>1, <1>2, <1>5, <1>6, <1>7 DEF ClassConfigured

(* A record with the same settings is configured likewise.                  *)
LEMMA ConfiguredStays ==
    ASSUME classes' = classes, Read' = Read, info'.spec = info.spec,
           info'.option = info.option, info'.rename = info.rename, info'.tag = info.tag,
           info'.bases = info.bases, info'.at = "bases" => info.at = "bases",
           info.has_weakref => info'.has_weakref, info.has_dict => info'.has_dict,
           ConfiguredBy(info, Read), TaggedBy(info, Read, info.tag), AddsUp(info, Read),
           info.at = "bases" => info.spec = <<>>
    PROVE  /\ ConfiguredBy(info, Read)' /\ TaggedBy(info, Read, info.tag)'
           /\ AddsUp(info, Read)'
           /\ info'.at = "bases" => info'.spec = <<>>
<1>1. PICK bases : bases = info.bases
  OBVIOUS
<1>2. /\ \A o : OptionsOf(bases, o)' = OptionsOf(bases, o)
      /\ RenamesOf(bases)' = RenamesOf(bases) /\ TagsOf(bases)' = TagsOf(bases)
  BY SettingsKept
<1>3. ConfiguredBy(info, Read)'
  BY <1>1, <1>2 DEF ConfiguredBy
<1>4. TaggedBy(info, Read, info.tag)'
  BY <1>1, <1>2 DEF TaggedBy
<1>5. AddsUp(info, Read)'
  BY Zenon DEF AddsUp
<1> QED BY <1>3, <1>4, <1>5

LEMMA ConfiguredBase ==
    ASSUME ClassesTyped, InProgress, CollectBase, info.spec = <<>>,
           ConfiguredBy(info, Read), TaggedBy(info, Read, info.tag), AddsUp(info, Read)
    PROVE  /\ ConfiguredBy(info, Read)' /\ TaggedBy(info, Read, info.tag)'
           /\ AddsUp(info, Read)' /\ info'.spec = <<>>
<1> PICK k : k = Len(info.rest)
  OBVIOUS
<1> PICK bases : bases = info.bases
  OBVIOUS
<1> DEFINE c == Base(k)
<1>1. /\ k \in BasesAt(bases) /\ Read' = Read \cup {k}
      /\ \A i \in Read : k < i
      /\ c = classes[Last(info.rest)] /\ info'.bases = info.bases
      /\ classes' = classes
  BY ReadBase, CollectBaseDoes DEF InProgress
<1>2. /\ Read \subseteq Int /\ k \in Int
  BY <1>1, ReadAre DEF InProgress, BasesAt
<1>3. /\ info'.option = [o \in Option |-> IF o \in Inherited /\ c.option[o] # "unset"
                                          THEN c.option[o] ELSE info.option[o]]
      /\ info'.tag = Given(c.tag, info.tag)
      /\ info'.rename = Given(c.rename, info.rename)
      /\ info'.spec = info.spec
  BY <1>1, CollectBaseDoes, SMTT(60) DEF InProgress, Keeps, Parts
<1>4. /\ info'.has_weakref = (info.has_weakref \/ c.has_weakref)
      /\ info'.has_dict = (info.has_dict \/ c.has_dict)
  BY <1>1, CollectBaseDoes DEF InProgress
<1>5. /\ \A o : OptionsOf(bases, o)' = OptionsOf(bases, o)
      /\ RenamesOf(bases)' = RenamesOf(bases) /\ TagsOf(bases)' = TagsOf(bases)
  BY <1>1, SettingsKept
<1>6. /\ \A o : OptionsOf(bases, o)[k] = c.option[o]
      /\ RenamesOf(bases)[k] = c.rename /\ TagsOf(bases)[k] = c.tag
  BY <1>1 DEF OptionsOf, RenamesOf, TagsOf, Base
<1>7. DOMAIN info.spec = {}
  BY EmptySeq
<1> HIDE DEF c
<1>8. ASSUME NEW o \in Inherited
      PROVE  Settled(Read \cup {k}, OptionsOf(bases, o), "unset", info'.option[o])
  <2>1. Settled(Read, OptionsOf(bases, o), "unset", info.option[o])
    BY <1>7 DEF ConfiguredBy
  <2>2. Settled(Read \cup {k}, OptionsOf(bases, o), "unset",
                IF OptionsOf(bases, o)[k] # "unset" THEN OptionsOf(bases, o)[k]
                ELSE info.option[o])
    BY <1>1, <1>2, <2>1, SettledNext, ZenonT(60)
  <2>3. info'.option[o] = IF c.option[o] # "unset" THEN c.option[o] ELSE info.option[o]
    BY <1>3 DEF Option
  <2> QED BY <1>6, <2>2, <2>3
<1>9. Settled(Read \cup {k}, RenamesOf(bases), Null, info'.rename)
  <2>1. Settled(Read, RenamesOf(bases), Null, info.rename)
    BY <1>7 DEF ConfiguredBy
  <2>2. Settled(Read \cup {k}, RenamesOf(bases), Null,
                IF RenamesOf(bases)[k] # Null THEN RenamesOf(bases)[k] ELSE info.rename)
    BY <1>1, <1>2, <2>1, SettledNext
  <2> QED BY <1>3, <1>6, <2>2 DEF Given
<1>10. Settled(Read \cup {k}, TagsOf(bases), Null, info'.tag)
  <2>1. Settled(Read, TagsOf(bases), Null, info.tag)
    BY <1>7 DEF TaggedBy
  <2>2. Settled(Read \cup {k}, TagsOf(bases), Null,
                IF TagsOf(bases)[k] # Null THEN TagsOf(bases)[k] ELSE info.tag)
    BY <1>1, <1>2, <2>1, SettledNext
  <2> QED BY <1>3, <1>6, <2>2 DEF Given
<1>11. ConfiguredBy(info, Read)'
  <2>1. PICK P : P = Read \cup {k}
    OBVIOUS
  <2>2. /\ Read' = P /\ info'.bases = bases /\ info'.spec = info.spec
    BY <1>1, <1>3, <2>1
  <2>3. \A o \in Inherited : Settled(P, OptionsOf(bases, o), "unset", info'.option[o])
    BY <1>8, <2>1
  <2>4. Settled(P, RenamesOf(bases), Null, info'.rename)
    BY <1>9, <2>1
  <2> QED BY <1>5, <1>7, <2>2, <2>3, <2>4 DEF ConfiguredBy
<1>12. TaggedBy(info, Read, info.tag)'
  BY <1>1, <1>3, <1>5, <1>7, <1>10 DEF TaggedBy
<1>13. AddsUp(info, Read)'
  <2>1. \A i \in Read' : i \in Read \/ i = k
    BY <1>1
  <2>2. classes'[info'.bases[k]] = c
    BY <1>1 DEF c, Base
  <2> QED BY <1>1, <1>4, <2>1, <2>2, Zenon DEF AddsUp
<1> QED BY <1>3, <1>11, <1>12, <1>13

LEMMA ConfiguredSpec ==
    ASSUME ClassesTyped, InProgress, ApplySpec, info' # None, info.spec = <<>>,
           ConfiguredBy(info, Read), TaggedBy(info, Read, info.tag), AddsUp(info, Read)
    PROVE  /\ ConfiguredBy(info, Read)' /\ TaggedBy(info, Read, info.tag)'
           /\ AddsUp(info, Read)' /\ info'.at # "bases"
<1>1. PICK spec \in Menu[This].specs :
         /\ Keeps({"at", "spec", "option", "tag", "tag_field", "rename"})
         /\ info'.at = "fields" /\ info'.spec = spec
         /\ info'.option = [o \in Option |-> Of(spec, o, info.option[o])]
         /\ info'.tag = Of(spec, "tag", info.tag)
         /\ info'.rename = Of(spec, "rename", info.rename)
  BY ApplySpecDoes DEF InProgress
<1>2. /\ classes' = classes /\ info'.bases = info.bases /\ info'.rest = info.rest
      /\ info'.has_weakref = info.has_weakref /\ info'.has_dict = info.has_dict
  BY <1>1, ApplySpecDoes DEF InProgress, Keeps, Parts
<1>3. PICK bases : bases = info.bases
  OBVIOUS
<1>4. Read' = Read
  BY <1>2, ReadKept
<1>5. /\ \A o : OptionsOf(bases, o)' = OptionsOf(bases, o)
      /\ RenamesOf(bases)' = RenamesOf(bases) /\ TagsOf(bases)' = TagsOf(bases)
  BY <1>2, SettingsKept
<1>6. DOMAIN info.spec = {}
  BY EmptySeq
<1>7. \A o \in Inherited : Settled(Read, OptionsOf(bases, o), "unset", info.option[o])
  BY <1>3, <1>6 DEF ConfiguredBy
<1>8. Settled(Read, RenamesOf(bases), Null, info.rename)
      /\ Settled(Read, TagsOf(bases), Null, info.tag)
  BY <1>3, <1>6 DEF ConfiguredBy, TaggedBy
<1>9. \A o \in Inherited : info'.option[o] = IF o \in DOMAIN spec THEN spec[o]
                                             ELSE info.option[o]
  BY <1>1 DEF Of, Option
<1>10. ConfiguredBy(info, Read)'
  BY <1>1, <1>2, <1>3, <1>4, <1>5, <1>7, <1>8, <1>9 DEF ConfiguredBy, Of
<1>11. TaggedBy(info, Read, info.tag)'
  BY <1>1, <1>2, <1>3, <1>4, <1>5, <1>8 DEF TaggedBy, Of
<1>12. AddsUp(info, Read)'
  BY <1>2, <1>4, Zenon DEF AddsUp
<1> QED BY <1>1, <1>10, <1>11, <1>12

(* A class that is there when another is made stays as it is, and so do its *)
(* bases.                                                                   *)
LEMMA BasesStay ==
    ASSUME Typed, Makes, NEW n \in 1..Len(classes)
    PROVE  /\ classes'[n] = classes[n]
           /\ \A i \in BasesAt(classes[n].bases) :
                 /\ classes[n].bases[i] \in 1..Len(classes)
                 /\ classes'[classes[n].bases[i]] = classes[classes[n].bases[i]]
<1>1. ClassTyped(n) /\ classes'[n] = classes[n]
  BY DEF Typed, ClassesTyped, Makes
<1>2. \A i \in BasesAt(classes[n].bases) : classes[n].bases[i] \in 1..n - 1
  BY <1>1, SeqIs DEF ClassTyped, BasesAt
<1>3. Len(classes) \in Nat
  BY ClassesListed DEF Typed
<1>4. \A i \in BasesAt(classes[n].bases) : classes[n].bases[i] \in 1..Len(classes)
  BY <1>2, <1>3
<1> QED BY <1>1, <1>4 DEF Makes

LEMMA ConfiguredFinish ==
    ASSUME Typed, InProgress, Makes,
           ConfiguredBy(info, Read), TaggedBy(info, Read, info.tag), AddsUp(info, Read)
    PROVE  \A n : n = This => ClassConfigured(n)'
<1> DEFINE c == Finished
<1>1. /\ c.bases = info.bases /\ c.spec = info.spec /\ c.option = info.option
      /\ c.rename = info.rename
      /\ c.tag = IF Tagged THEN info.tag ELSE Null
  BY DEF Finished
<1>2. /\ c.has_weakref = (info.has_weakref \/ info.option["weakref"] = "true")
      /\ c.has_dict = (info.has_dict \/ info.option["dict"] = "true")
  BY DEF Finished
<1>3. classes'[This] = c
  BY DEF Makes
<1> HIDE DEF c
<1>4. PICK d : d = c
  OBVIOUS
<1>5. PICK bases : bases = info.bases
  OBVIOUS
<1>6. PICK P : P = Read
  OBVIOUS
<1>7. P = BasesAt(bases) /\ \A i \in P : bases[i] \in 1..Len(classes)
  <2>1. info.rest = <<>>
    BY DEF Makes, InProgress, Reading
  <2> QED BY <1>5, <1>6, <2>1, ReadAre DEF Typed, InProgress
<1>8. \A i \in BasesAt(bases) : classes'[bases[i]] = classes[bases[i]]
  BY <1>7 DEF Makes
<1>9. /\ \A o : OptionsOf(bases, o)' = OptionsOf(bases, o)
      /\ RenamesOf(bases)' = RenamesOf(bases) /\ TagsOf(bases)' = TagsOf(bases)
  BY <1>8, SettingsKept
<1>10. ConfiguredBy(d, P)'
  BY <1>1, <1>4, <1>5, <1>6, <1>9 DEF ConfiguredBy
<1>11. PICK tag : tag = info.tag
  OBVIOUS
<1>12. TaggedBy(d, P, tag)'
  BY <1>1, <1>4, <1>5, <1>6, <1>9, <1>11 DEF TaggedBy
<1>13. AddsUp(d, P)'
  <2>1. d.bases = bases
    BY <1>1, <1>4, <1>5
  <2>2. \A i \in P : /\ classes[bases[i]].has_weakref => info.has_weakref
                     /\ classes[bases[i]].has_dict => info.has_dict
    BY <1>5, <1>6, Zenon DEF AddsUp
  <2>3. (info.has_weakref => d.has_weakref) /\ (info.has_dict => d.has_dict)
    BY <1>2, <1>4, Zenon
  <2> QED BY <1>7, <1>8, <2>1, <2>2, <2>3, Zenon DEF AddsUp
<1>14. tag \in {d.tag, "no"} /\ d.tag = IF tag = "no" THEN Null ELSE tag
  <2>1. CASE Tagged
    BY <1>1, <1>4, <1>11, <2>1 DEF Tagged
  <2>2. CASE ~Tagged
    BY <1>1, <1>4, <1>11, <2>2 DEF Tagged
  <2> QED BY <2>1, <2>2
<1>15. ASSUME NEW n, n = This PROVE ClassConfigured(n)'
  <2>1. classes'[n] = d /\ d.bases = bases /\ P = BasesAt(bases)
    BY <1>1, <1>3, <1>4, <1>5, <1>7, <1>15
  <2>2. \E t \in {d.tag, "no"} : /\ TaggedBy(d, P, t)'
                                 /\ d.tag = IF t = "no" THEN Null ELSE t
    BY <1>12, <1>14
  <2> QED BY <1>10, <1>13, <2>1, <2>2 DEF ClassConfigured, BasesAt
<1> QED BY <1>15

LEMMA ConfiguringStep == Typed /\ Configuring /\ [Next]_vars => Configuring'
<1> SUFFICES ASSUME Typed, Configuring, [Next]_vars PROVE Configuring'
  OBVIOUS
<1>1. classes' = classes => \A n \in 1..Len(classes') : ClassConfigured(n)'
  <2> HAVE classes' = classes
  <2> TAKE n \in 1..Len(classes')
  <2> QED BY ClassConfiguredKept DEF Configuring
<1>2. CASE classes' = classes /\ info' = None
  BY <1>1, <1>2 DEF Configuring
<1>3. CASE classes' = classes /\ info' = info
  <2>1. Read' = Read
    BY <1>3, ReadKept
  <2> QED BY <1>1, <1>3, <2>1, ConfiguredStays DEF Configuring
<1>4. CASE classes' = classes /\ Begin
  <2>1. PICK bases \in Menu[This].bases : info' = Fresh(bases)
    BY <1>4, BeginDoes
  <2>2. /\ info'.spec = <<>> /\ info'.option = [o \in Option |-> "unset"]
        /\ info'.tag = Null /\ info'.rename = Null
    BY <2>1, FreshIs
  <2>3. Read' = {} /\ DOMAIN info'.spec = {}
    BY <1>4, <2>2, ReadFresh, EmptySeq DEF Typed
  <2>4. ConfiguredBy(info, Read)'
    BY <2>2, <2>3 DEF ConfiguredBy, Settled, Option
  <2>5. TaggedBy(info, Read, info.tag)' /\ AddsUp(info, Read)'
    BY <2>2, <2>3 DEF TaggedBy, AddsUp, Settled
  <2> QED BY <1>1, <1>4, <2>2, <2>4, <2>5 DEF Configuring
<1>5. CASE InProgress /\ classes' = classes /\ info' # None /\ Advances
  <2>1. info # None /\ DOMAIN info = Parts /\ ClassesTyped
    BY <1>5, NoneIs DEF InProgress, Stages, Typed
  <2>2. /\ ConfiguredBy(info, Read) /\ TaggedBy(info, Read, info.tag)
        /\ AddsUp(info, Read) /\ (info.at = "bases" => info.spec = <<>>)
    BY <2>1 DEF Configuring
  <2>3. SUFFICES /\ ConfiguredBy(info, Read)' /\ TaggedBy(info, Read, info.tag)'
                 /\ AddsUp(info, Read)'
                 /\ info'.at = "bases" => info'.spec = <<>>
    BY <1>1, <1>5 DEF Configuring
  <2>4. CASE CollectMixin
    <3>1. /\ info'.spec = info.spec /\ info'.option = info.option
          /\ info'.rename = info.rename /\ info'.tag = info.tag /\ info'.at = info.at
      BY <1>5, <2>1, <2>4, CollectMixinDoes DEF Keeps, Parts
    <3>2. /\ info'.has_weakref = (info.has_weakref \/ Last(info.rest) \in WithWeakref)
          /\ info'.has_dict = (info.has_dict \/ Last(info.rest) \in WithDict)
      BY <1>5, <2>1, <2>4, CollectMixinDoes
    <3>3. (info.has_weakref => info'.has_weakref) /\ (info.has_dict => info'.has_dict)
      BY <3>2, Zenon
    <3> QED BY <1>5, <2>1, <2>2, <2>4, <3>1, <3>3, ReadMixin, ConfiguredStays
  <2>5. CASE CollectBase
    <3>1. info.spec = <<>>
      BY <2>1, <2>2, <2>5, CollectBaseDoes
    <3> QED BY <1>5, <2>1, <2>2, <2>5, <3>1, ConfiguredBase
  <2>6. CASE ApplySpec
    <3>1. info.spec = <<>>
      BY <2>1, <2>2, <2>6, ApplySpecDoes
    <3> QED BY <1>5, <2>1, <2>2, <2>6, <3>1, ConfiguredSpec
  <2>7. CASE CollectField \/ ConstructFields \/ CollectCodecs \/ ConstructAliasFields \/ TypeNew
    <3>1. Keeps({"at", "body", "defaults_lk", "slots", "kwonly", "renamed", "default",
                 "fields", "defaults", "nkwonly", "n_trailing_defaults", "codecs",
                 "alias_fields", "layout"})
          /\ info.at # "bases" /\ info'.at # "bases"
      BY <1>5, <2>1, <2>7, CollectFieldDoes, ConstructFieldsDoes, CollectCodecsDoes,
         ConstructAliasFieldsDoes, TypeNewDoes DEF Keeps, ReadsClassVar, ReadsField, Parts
    <3>2. /\ info'.spec = info.spec /\ info'.option = info.option
          /\ info'.rename = info.rename /\ info'.tag = info.tag
          /\ info'.bases = info.bases /\ info'.rest = info.rest
          /\ info'.has_weakref = info.has_weakref /\ info'.has_dict = info.has_dict
      BY <3>1 DEF Keeps, Parts
    <3> QED BY <1>5, <2>2, <3>1, <3>2, ReadKept, ConfiguredStays
  <2> QED BY <1>5, <2>4, <2>5, <2>6, <2>7 DEF Advances
<1>6. CASE InProgress /\ Makes
  <2>1. info # None /\ info' = None
    BY <1>6, NoneIs DEF InProgress, Stages, Makes
  <2>2. ConfiguredBy(info, Read) /\ TaggedBy(info, Read, info.tag) /\ AddsUp(info, Read)
    BY <2>1 DEF Configuring
  <2>3. \A n \in 1..Len(classes') : n \in 1..Len(classes) \/ n = This
    BY <1>6, ClassesListed DEF Makes, This, Typed
  <2>4. \A n \in 1..Len(classes) : ClassConfigured(n)'
    BY <1>6, BasesStay, ClassConfiguredKept DEF Configuring
  <2>5. \A n : n = This => ClassConfigured(n)'
    BY <1>6, <2>2, ConfiguredFinish
  <2> QED BY <2>1, <2>3, <2>4, <2>5 DEF Configuring
<1> QED BY <1>2, <1>3, <1>4, <1>5, <1>6, Steps

LEMMA ConfiguringInit == Init => Configuring
<1> SUFFICES ASSUME Init PROVE Configuring
  OBVIOUS
<1>1. Len(classes) = 0 /\ info = None
  BY EmptySeq DEF Init
<1> QED BY <1>1 DEF Configuring

(* The slot of a name is in a subclass where it is in the base.             *)
LEMMA SlotStays ==
    ASSUME Typed, Slotted, NEW n \in 1..Len(classes), NEW i \in BasesAt(classes[n].bases)
    PROVE  LET c == classes[n]  b == classes[c.bases[i]] IN
           /\ b.hash_offset # 0 => c.hash_offset = b.hash_offset
           /\ \A f \in ToSet(b.fields) :
                 f \in ToSet(c.fields) /\ OffsetOf(c, f) = OffsetOf(b, f)
<1> DEFINE c == classes[n]
           b == classes[c.bases[i]]
<1>1. ClassTyped(n) /\ LaidOut(n) /\ c.bases[i] \in 1..n - 1
  <2>1. ClassTyped(n) /\ LaidOut(n)
    BY DEF Typed, ClassesTyped, Slotted
  <2>2. c.bases \in Seq(1..n - 1 \cup Mixin)
    BY <2>1 DEF ClassTyped
  <2> QED BY <2>1, <2>2, SeqIs DEF BasesAt
<1>2. Len(classes) \in Nat
  BY ClassesListed DEF Typed
<1>3. c.bases[i] \in 1..Len(classes)
  BY <1>1, <1>2
<1>4. ClassTyped(c.bases[i]) /\ LaidOut(c.bases[i])
  BY <1>3 DEF Typed, ClassesTyped, Slotted
<1>5. Begins(b.layout, c.layout) /\ LayoutOK(c.layout) /\ LayoutOK(b.layout)
  BY <1>1, <1>4 DEF LaidOut
<1>6. Len(b.layout) \in Nat /\ Len(c.layout) \in Nat /\ Len(b.layout) <= Len(c.layout)
  BY <1>5, SeqIs DEF LayoutOK, Begins
<1>7. \A k \in 1..Len(b.layout) : k \in 1..Len(c.layout) /\ c.layout[k] = b.layout[k]
  BY <1>5, <1>6, SMTT(60) DEF Begins
<1>8. ASSUME b.hash_offset # 0 PROVE c.hash_offset = b.hash_offset
  <2> DEFINE k == b.hash_offset
  <2>1. k \in 1..Len(b.layout) /\ b.layout[k][2] = CachedHash
    BY <1>4, <1>8 DEF LaidOut
  <2>2. k \in 1..Len(c.layout) /\ c.layout[k][2] = CachedHash
    BY <1>7, <2>1
  <2>3. c.hash_offset \in 1..Len(c.layout) /\ c.layout[c.hash_offset][2] = CachedHash
    BY <1>1, <2>2 DEF LaidOut, Reaches
  <2> QED BY <1>5, <2>2, <2>3 DEF LayoutOK
<1>9. ASSUME NEW f \in ToSet(b.fields)
      PROVE  f \in ToSet(c.fields) /\ OffsetOf(c, f) = OffsetOf(b, f)
  <2> DEFINE j == IndexOf(b, f)
             k == OffsetOf(b, f)
             m == IndexOf(c, f)
             o == OffsetOf(c, f)
  <2>1. f \in Name /\ j \in 1..Len(b.fields) /\ b.fields[j] = f
    BY <1>4, IndexIs, ToSetOf, SMTT(60) DEF ClassTyped
  <2>2. k \in 1..Len(b.layout) /\ b.layout[k][2] = f
    BY <1>4, <2>1 DEF LaidOut, OffsetOf
  <2> HIDE DEF k
  <2>3. k \in 1..Len(c.layout) /\ c.layout[k][2] = f
    BY <1>7, <2>2
  <2>4. f \in ToSet(c.fields)
    BY <1>1, <2>1, <2>3 DEF LaidOut, Reaches
  <2>5. m \in 1..Len(c.fields) /\ c.fields[m] = f
    BY <1>1, <2>4, IndexIs DEF ClassTyped
  <2>6. o \in 1..Len(c.layout) /\ c.layout[o][2] = f
    BY <1>1, <2>5 DEF LaidOut, OffsetOf
  <2> HIDE DEF o
  <2>7. o = k
    BY <1>5, <2>3, <2>6 DEF LayoutOK
  <2> QED BY <2>4, <2>7 DEF o, k
<1> QED BY <1>8, <1>9

LEMMA ConfiguredIs ==
    ASSUME Typed, Slotted, Configuring, NEW n \in DOMAIN classes
    PROVE
        LET c == classes[n]
            inherited(get(_), unset) ==
                LET setting == {i \in DOMAIN c.bases : /\ c.bases[i] \notin Mixin
                                                      /\ get(classes[c.bases[i]]) # unset}
                IN  IF setting = {} THEN unset ELSE get(classes[c.bases[Min(setting)]])
            tag == Of(c.spec, "tag", inherited(LAMBDA b : b.tag, Null))
        IN  /\ \A o \in Inherited \ {"kw_only"} :
                  c.option[o] = Of(c.spec, o, inherited(LAMBDA b : b.option[o], "unset"))
            /\ c.rename = Of(c.spec, "rename", inherited(LAMBDA b : b.rename, Null))
            /\ c.tag = IF tag = "no" THEN Null ELSE tag
            /\ \A b \in StructBases(c.bases) :
                  /\ classes[b].has_weakref => c.has_weakref
                  /\ classes[b].has_dict => c.has_dict
                  /\ classes[b].hash_offset # 0 => c.hash_offset = classes[b].hash_offset
<1> DEFINE c == classes[n]
           P == BasesAt(c.bases)
           at(i) == classes[c.bases[i]]
           inherited(get(_), unset) ==
               LET setting == {i \in DOMAIN c.bases : /\ c.bases[i] \notin Mixin
                                                     /\ get(classes[c.bases[i]]) # unset}
               IN  IF setting = {} THEN unset ELSE get(classes[c.bases[Min(setting)]])
<1>1. n \in 1..Len(classes) /\ ClassTyped(n) /\ ClassConfigured(n)
  BY ClassesListed DEF Typed, ClassesTyped, Configuring
<1>2. Len(c.bases) \in Nat /\ DOMAIN c.bases = 1..Len(c.bases) /\ P \subseteq 1..Len(c.bases)
  BY <1>1, SeqIs DEF ClassTyped, BasesAt
<1>3. ASSUME NEW v, DOMAIN v = P, NEW unset, NEW value, Settled(P, v, unset, value),
             NEW S, S = {i \in DOMAIN c.bases : c.bases[i] \notin Mixin /\ v[i] # unset}
      PROVE  value = (IF S = {} THEN unset ELSE v[Min(S)]) /\ (S # {} => Min(S) \in P)
  <2>1. S = {i \in P : v[i] # unset} /\ S \subseteq 1..Len(c.bases)
    BY <1>2, <1>3 DEF BasesAt
  <2>2. S # {} => Min(S) \in S /\ \A j \in S : Min(S) <= j
    BY <1>2, <2>1, MinIs
  <2>3. S # {} => Min(S) \in P
    BY <2>1, <2>2
  <2> HIDE DEF P
  <2>4. S \subseteq P /\ S \subseteq Int /\ \A i \in P : i \in S <=> v[i] # unset
    BY <2>1
  <2>5. value = IF S = {} THEN unset ELSE v[Min(S)]
    <3>1. CASE value = unset /\ \A i \in P : v[i] = unset
      BY <2>4, <3>1
    <3>2. CASE \E i \in P : /\ value = v[i] /\ v[i] # unset
                            /\ \A j \in P : j < i => v[j] = unset
      <4>1. PICK i \in P : /\ value = v[i] /\ v[i] # unset
                           /\ \A j \in P : j < i => v[j] = unset
        BY <3>2
      <4>2. i \in S /\ \A j \in S : ~(j < i)
        BY <2>4, <4>1
      <4>3. Min(S) \in Int /\ i \in Int /\ Min(S) <= i /\ ~(Min(S) < i)
        BY <2>2, <2>4, <4>2
      <4>4. Min(S) = i
        BY <4>3
      <4> QED BY <4>1, <4>2, <4>4
    <3> QED BY <1>3, <3>1, <3>2 DEF Settled
  <2> QED BY <2>3, <2>5
<1>4. ASSUME NEW o \in Inherited, o \notin DOMAIN c.spec
      PROVE  c.option[o] = inherited(LAMBDA b : b.option[o], "unset")
  <2> DEFINE v == OptionsOf(c.bases, o)
             S == {i \in DOMAIN c.bases : c.bases[i] \notin Mixin /\ at(i).option[o] # "unset"}
  <2>1. DOMAIN v = P /\ \A i \in P : v[i] = at(i).option[o]
    BY DEF OptionsOf
  <2>2. Settled(P, v, "unset", c.option[o])
    BY <1>1, <1>4 DEF ClassConfigured, ConfiguredBy
  <2>3. S = {i \in DOMAIN c.bases : c.bases[i] \notin Mixin /\ v[i] # "unset"}
    BY <2>1 DEF BasesAt
  <2> HIDE DEF v, S, P
  <2>4. c.option[o] = (IF S = {} THEN "unset" ELSE v[Min(S)]) /\ (S # {} => Min(S) \in P)
    BY <1>3, <2>1, <2>2, <2>3
  <2>5. c.option[o] = IF S = {} THEN "unset" ELSE at(Min(S)).option[o]
    BY <2>1, <2>4
  <2> QED BY <2>5 DEF S
<1>5. ASSUME "rename" \notin DOMAIN c.spec
      PROVE  c.rename = inherited(LAMBDA b : b.rename, Null)
  <2> DEFINE v == RenamesOf(c.bases)
             S == {i \in DOMAIN c.bases : c.bases[i] \notin Mixin /\ at(i).rename # Null}
  <2>1. DOMAIN v = P /\ \A i \in P : v[i] = at(i).rename
    BY DEF RenamesOf
  <2>2. Settled(P, v, Null, c.rename)
    BY <1>1, <1>5 DEF ClassConfigured, ConfiguredBy
  <2>3. S = {i \in DOMAIN c.bases : c.bases[i] \notin Mixin /\ v[i] # Null}
    BY <2>1 DEF BasesAt
  <2> HIDE DEF v, S, P
  <2>4. c.rename = (IF S = {} THEN Null ELSE v[Min(S)]) /\ (S # {} => Min(S) \in P)
    BY <1>3, <2>1, <2>2, <2>3
  <2>5. c.rename = IF S = {} THEN Null ELSE at(Min(S)).rename
    BY <2>1, <2>4
  <2> QED BY <2>5 DEF S
<1>6. PICK tag : /\ TaggedBy(c, P, tag) /\ tag \in {c.tag, "no"}
                 /\ c.tag = IF tag = "no" THEN Null ELSE tag
  BY <1>1 DEF ClassConfigured
<1>7. ASSUME "tag" \notin DOMAIN c.spec
      PROVE  tag = inherited(LAMBDA b : b.tag, Null)
  <2> DEFINE v == TagsOf(c.bases)
             S == {i \in DOMAIN c.bases : c.bases[i] \notin Mixin /\ at(i).tag # Null}
  <2>1. DOMAIN v = P /\ \A i \in P : v[i] = at(i).tag
    BY DEF TagsOf
  <2>2. Settled(P, v, Null, tag)
    BY <1>6, <1>7 DEF TaggedBy
  <2>3. S = {i \in DOMAIN c.bases : c.bases[i] \notin Mixin /\ v[i] # Null}
    BY <2>1 DEF BasesAt
  <2> HIDE DEF v, S, P
  <2>4. tag = (IF S = {} THEN Null ELSE v[Min(S)]) /\ (S # {} => Min(S) \in P)
    BY <1>3, <2>1, <2>2, <2>3
  <2>5. tag = IF S = {} THEN Null ELSE at(Min(S)).tag
    BY <2>1, <2>4
  <2> QED BY <2>5 DEF S
<1>8. \A o \in Inherited : o \in DOMAIN c.spec => c.option[o] = c.spec[o]
  BY <1>1 DEF ClassConfigured, ConfiguredBy
<1>9. /\ "rename" \in DOMAIN c.spec => c.rename = c.spec["rename"]
      /\ "tag" \in DOMAIN c.spec => tag = c.spec["tag"]
  BY <1>1, <1>6 DEF ClassConfigured, ConfiguredBy, TaggedBy
<1>10. ASSUME NEW b \in StructBases(c.bases)
       PROVE  /\ classes[b].has_weakref => c.has_weakref
              /\ classes[b].has_dict => c.has_dict
              /\ classes[b].hash_offset # 0 => c.hash_offset = classes[b].hash_offset
  <2>1. PICK i \in P : c.bases[i] = b
    BY DEF StructBases, BasesAt, ToSet
  <2>2. /\ classes[b].has_weakref => c.has_weakref
        /\ classes[b].has_dict => c.has_dict
    BY <1>1, <2>1, Zenon DEF ClassConfigured, AddsUp
  <2>3. classes[b].hash_offset # 0 => c.hash_offset = classes[b].hash_offset
    BY <1>1, <2>1, SlotStays
  <2> QED BY <2>2, <2>3, Zenon
<1> HIDE DEF inherited
<1>11. \A o \in Inherited \ {"kw_only"} :
           c.option[o] = Of(c.spec, o, inherited(LAMBDA b : b.option[o], "unset"))
  BY <1>4, <1>8 DEF Of
<1>12. c.rename = Of(c.spec, "rename", inherited(LAMBDA b : b.rename, Null))
  BY <1>5, <1>9 DEF Of
<1>13. tag = Of(c.spec, "tag", inherited(LAMBDA b : b.tag, Null))
  BY <1>7, <1>9 DEF Of
<1>14. c.tag = IF Of(c.spec, "tag", inherited(LAMBDA b : b.tag, Null)) = "no" THEN Null
               ELSE Of(c.spec, "tag", inherited(LAMBDA b : b.tag, Null))
  BY <1>6, <1>13
<1> QED BY <1>10, <1>11, <1>12, <1>14, Zenon DEF inherited

(* Every class has the settings that its struct_config and its bases give   *)
(* it, whatever the order in which these classes were made.                 *)
THEOREM SettingsInherited == Spec => []ConfigInherited
<1>1. Typed /\ Slotted /\ Configuring => ConfigInherited
  BY ConfiguredIs, Zenon DEF ConfigInherited
<1> QED BY <1>1, TypedAlways, SlottedAlways, ConfiguringInit, ConfiguringStep, PTL DEF Spec

-----------------------------------------------------------------------------
(* Fields.                                                                  *)

Declared(f) == \E j \in DOMAIN info.body : info.body[j].name = f /\ ~info.body[j].classvar

(* The key of f is its own name, or of the first base that has another one. *)
KeepsName(i, f) == f \in ToSet(Base(i).fields) => AliasOf(Base(i), f) = f
KeptKey(f) ==
    \/ (\A i \in Read : KeepsName(i, f)) /\ info.renamed[f] = f
    \/ \E i \in Read : /\ ~KeepsName(i, f) /\ info.renamed[f] = AliasOf(Base(i), f)
                       /\ \A j \in Read : j < i => KeepsName(j, f)

(* What the body does not declare is as in the first base that has it.      *)
FromBases ==
    \A f \in Name : ~Declared(f) =>
       /\ KeptKey(f) /\ f \notin info.slots
       /\ f \in ToSet(info.defaults_lk) =>
             \E i \in Read : /\ First(i, f) /\ info.default[f] = DefaultOf(Base(i), f)
                             /\ f \in info.kwonly <=> f \in KwOnly(Base(i))

AsItem(item) ==
    LET f == item.name IN
    /\ f \in ToSet(info.defaults_lk)
    /\ info.default[f] = StoredDefault(item.default)
    /\ f \in info.kwonly <=> info.option["kw_only"] = "true"
    /\ item.alias # Null => info.renamed[f] = item.alias
    /\ item.alias = Null /\ info.rename # Null => info.renamed[f] = info.rename[f]
    /\ item.alias = Null /\ info.rename = Null => KeptKey(f)

(* What the body declares is as it says.                                    *)
AsDeclared ==
    /\ \E X : info.body \in Seq(X)
    /\ \A j \in 1..Len(info.body) : info.body[j].name \in Name
    /\ \A i, j \in 1..Len(info.body) : info.body[i].name = info.body[j].name => i = j
    /\ info.at = "bases" => info.body = <<>>
    /\ \A j \in 1..Len(info.body) : ~info.body[j].classvar => AsItem(info.body[j])

LEMMA KeptKeyKept ==
    ASSUME Read' = Read, \A i : Base(i)' = Base(i)
    PROVE  \A f : info'.renamed[f] = info.renamed[f] => (KeptKey(f) => KeptKey(f)')
<1>1. \A i, f : KeepsName(i, f)' <=> KeepsName(i, f)
  BY DEF KeepsName, AliasOf, IndexOf
<1>2. \A i, f : AliasOf(Base(i), f)' = AliasOf(Base(i), f)
  BY DEF AliasOf, IndexOf
<1> HIDE DEF KeepsName
<1> QED BY <1>1, <1>2 DEF KeptKey

LEMMA BodyIs ==
    ASSUME AsDeclared
    PROVE  DOMAIN info.body = 1..Len(info.body) /\ Len(info.body) \in Nat
BY SeqIs DEF AsDeclared

(* A step that reads nothing of the body.                                   *)
LEMMA FieldsKept ==
    ASSUME FromBases, AsDeclared, Read' = Read, \A i : Base(i)' = Base(i),
           info'.body = info.body, info'.defaults_lk = info.defaults_lk,
           info'.default = info.default, info'.kwonly = info.kwonly,
           info'.renamed = info.renamed,
           info'.slots \ {CachedHash} = info.slots \ {CachedHash},
           info'.at = "bases" => info.at = "bases",
           info.at = "bases" \/ (info'.option = info.option /\ info'.rename = info.rename)
    PROVE  FromBases' /\ AsDeclared'
<1>1. \A f : KeptKey(f) => KeptKey(f)'
  BY KeptKeyKept
<1>2. \A f \in Name : f \in info'.slots => f \in info.slots
  <2>1. CachedHash \notin Name
    BY ConstantsOK
  <2> QED BY <2>1
<1>3. FromBases'
  <2>1. \A f : Declared(f)' <=> Declared(f)
    BY DEF Declared
  <2> QED BY <1>1, <1>2, <2>1, FirstKept DEF FromBases
<1>4. info.at = "bases" => Len(info.body) = 0
  BY EmptySeq DEF AsDeclared
<1>5. \A j \in 1..Len(info.body) : info.at # "bases"
  BY <1>4
<1>6. ASSUME NEW item, AsItem(item), info.at # "bases" PROVE AsItem(item)'
  BY <1>1, <1>6 DEF AsItem, StoredDefault
<1> QED BY <1>3, <1>5, <1>6 DEF AsDeclared

LEMMA FieldsFresh ==
    ASSUME ClassesTyped, Begin
    PROVE  FromBases' /\ AsDeclared'
<1>1. PICK bases \in Menu[This].bases : info' = Fresh(bases)
  BY BeginDoes
<1>2. /\ info'.at = "bases" /\ info'.body = <<>> /\ info'.defaults_lk = <<>>
      /\ info'.slots = {} /\ info'.renamed = [f \in Name |-> f]
  BY <1>1, FreshIs
<1>3. Read' = {} /\ ToSet(info'.defaults_lk) = {} /\ Len(info'.body) = 0
      /\ info'.body \in Seq({})
  BY <1>2, ReadFresh, EmptySeq DEF ToSet
<1>4. FromBases'
  BY <1>2, <1>3 DEF FromBases, KeptKey, KeepsName
<1>5. AsDeclared'
  BY <1>2, <1>3 DEF AsDeclared
<1> QED BY <1>4, <1>5

LEMMA FieldsBase ==
    ASSUME ClassesTyped, InProgress, FromBases, AsDeclared, CollectBase
    PROVE  FromBases' /\ AsDeclared'
<1> PICK k : k = Len(info.rest)
  OBVIOUS
<1> DEFINE c == Base(k)
           F == ToSet(c.fields)
           lk == info.defaults_lk
           new == Picked(c.fields, Name \ ToSet(lk))
<1>1. /\ k \in BasesAt(info.bases) /\ Read' = Read \cup {k}
      /\ c = classes[Last(info.rest)]
      /\ \A i : Base(i)' = Base(i)
  BY ReadBase
<1>2. /\ info.at = "bases" /\ info'.at = "bases" /\ info'.body = info.body
      /\ info'.slots = info.slots
      /\ info'.defaults_lk = lk \o new
      /\ info'.kwonly = (info.kwonly \ F) \cup KwOnly(c)
      /\ info'.default = [f \in Name |-> IF f \in F THEN DefaultOf(c, f) ELSE info.default[f]]
      /\ info'.renamed = [f \in Name |-> IF f \in F /\ AliasOf(c, f) # f
                                         THEN AliasOf(c, f) ELSE info.renamed[f]]
  <2>1. DOMAIN info = Parts
    BY DEF InProgress
  <2>2. /\ info.at = "bases" /\ info'.at = "bases" /\ info'.body = info.body
        /\ info'.slots = info.slots
    BY <2>1, CollectBaseDoes DEF Keeps, Parts
  <2> HIDE DEF c
  <2>3. /\ info'.defaults_lk = lk \o Picked(c.fields, Name \ ToSet(lk))
        /\ info'.kwonly = (info.kwonly \ ToSet(c.fields)) \cup KwOnly(c)
    BY <1>1, <2>1, CollectBaseDoes
  <2>4. info'.default = [f \in Name |-> IF f \in ToSet(c.fields) THEN DefaultOf(c, f)
                                        ELSE info.default[f]]
    BY <1>1, <2>1, CollectBaseDoes
  <2>5. info'.renamed = [f \in Name |-> IF f \in ToSet(c.fields) /\ AliasOf(c, f) # f
                                        THEN AliasOf(c, f) ELSE info.renamed[f]]
    BY <1>1, <2>1, CollectBaseDoes
  <2> QED BY <2>2, <2>3, <2>4, <2>5
<1>3. info.bases[k] \in 1..Len(classes) /\ ClassTyped(info.bases[k])
  BY <1>1, ReadAre DEF InProgress
<1>4. c.fields \in Seq(Name) /\ F \subseteq Name /\ KwOnly(c) \subseteq F
  BY <1>3, ToSetOf, SMTT(60) DEF ClassTyped, Base, KwOnly
<1>5. lk \in Seq(Name) /\ ToSet(lk) \subseteq Name
  BY ToSetOf DEF InProgress, Collected
<1>6. /\ \A f \in F : First(k, f)'
      /\ \A f : f \notin F => \A i \in Read : First(i, f) => First(i, f)'
  BY FirstBase
<1>7. info.body = <<>> /\ Len(info.body) = 0 /\ info.body \in Seq({})
      /\ DOMAIN info.body = {}
  BY <1>2, EmptySeq DEF AsDeclared
<1>8. ToSet(info'.defaults_lk) = ToSet(lk) \cup F
  <2>1. new \in Seq(Name) /\ ToSet(new) = F \cap (Name \ ToSet(lk))
    BY <1>4, PickedHas
  <2> HIDE DEF new
  <2>2. ToSet(info'.defaults_lk) = ToSet(lk) \cup ToSet(new)
    BY <1>2, <1>5, <2>1, ToSetConcat
  <2> QED BY <1>4, <2>1, <2>2
<1> HIDE DEF c
<1>9. ASSUME NEW f \in Name PROVE KeptKey(f)'
  <2>1. KeptKey(f)
    BY <1>7 DEF FromBases, Declared
  <2>2. info'.renamed[f] = IF f \in F /\ AliasOf(c, f) # f THEN AliasOf(c, f)
                           ELSE info.renamed[f]
    BY <1>2
  <2>3. /\ \A i : KeepsName(i, f)' <=> KeepsName(i, f)
        /\ \A i : AliasOf(Base(i), f)' = AliasOf(Base(i), f)
    BY <1>1 DEF KeepsName, AliasOf, IndexOf
  <2>4. KeepsName(k, f) <=> ~(f \in F /\ AliasOf(c, f) # f)
    BY DEF KeepsName, F, c
  <2>5. k \in Read' /\ \A j \in Read' : j \in Read \/ j = k
    BY <1>1
  <2>6. k \in Int /\ Read \subseteq Int /\ \A j \in Read : k < j
    BY ReadBase, ReadAre DEF InProgress
  <2>7. CASE ~KeepsName(k, f)
    <3>1. info'.renamed[f] = AliasOf(Base(k), f)
      BY <2>2, <2>4, <2>7 DEF c
    <3>2. \A j \in Read' : ~(j < k)
      BY <2>5, <2>6
    <3> HIDE DEF KeepsName
    <3> QED BY <2>3, <2>5, <2>7, <3>1, <3>2 DEF KeptKey
  <2>8. CASE KeepsName(k, f)
    <3>1. info'.renamed[f] = info.renamed[f]
      BY <2>2, <2>4, <2>8
    <3> HIDE DEF KeepsName
    <3>2. CASE (\A i \in Read : KeepsName(i, f)) /\ info.renamed[f] = f
      BY <2>3, <2>5, <2>8, <3>1, <3>2 DEF KeptKey
    <3>3. CASE \E i \in Read : /\ ~KeepsName(i, f) /\ info.renamed[f] = AliasOf(Base(i), f)
                                /\ \A j \in Read : j < i => KeepsName(j, f)
      <4>1. PICK i \in Read : /\ ~KeepsName(i, f) /\ info.renamed[f] = AliasOf(Base(i), f)
                              /\ \A j \in Read : j < i => KeepsName(j, f)
        BY <3>3
      <4>2. i \in Read' /\ \A j \in Read' : j < i => KeepsName(j, f)
        BY <1>1, <2>5, <2>8, <4>1
      <4> QED BY <2>3, <3>1, <4>1, <4>2 DEF KeptKey
    <3> QED BY <2>1, <3>2, <3>3 DEF KeptKey
  <2> QED BY <2>7, <2>8
<1>10. ASSUME NEW f \in Name PROVE f \notin info'.slots
  BY <1>2, <1>7 DEF FromBases, Declared
<1>11. ASSUME NEW f \in ToSet(info'.defaults_lk)
       PROVE  \E i \in Read' : /\ First(i, f)' /\ info'.default[f] = DefaultOf(Base(i), f)
                               /\ f \in info'.kwonly <=> f \in KwOnly(Base(i))
  <2>1. CASE f \in F
    <3>1. info'.default[f] = DefaultOf(c, f) /\ (f \in info'.kwonly <=> f \in KwOnly(c))
      BY <1>2, <1>4, <2>1
    <3> QED BY <1>1, <1>6, <2>1, <3>1 DEF c
  <2>2. CASE f \notin F
    <3>1. f \in ToSet(lk) /\ f \in Name
      BY <1>5, <1>8, <1>11, <2>2
    <3>2. PICK i \in Read : /\ First(i, f) /\ info.default[f] = DefaultOf(Base(i), f)
                            /\ f \in info.kwonly <=> f \in KwOnly(Base(i))
      BY <1>7, <3>1 DEF FromBases, Declared
    <3>3. info'.default[f] = info.default[f] /\ (f \in info'.kwonly <=> f \in info.kwonly)
      BY <1>2, <1>4, <2>2, <3>1
    <3> QED BY <1>1, <1>6, <2>2, <3>2, <3>3
  <2> QED BY <2>1, <2>2
<1> HIDE DEF F, lk
<1>12. FromBases'
  BY <1>1, <1>9, <1>10, <1>11 DEF FromBases
<1>13. AsDeclared'
  BY <1>2, <1>7 DEF AsDeclared
<1> QED BY <1>12, <1>13

(* What the body declares grows with each item.                             *)
LEMMA BodyGrows ==
    ASSUME AsDeclared, NEW item, item.name \in Name,
           \A j \in DOMAIN info.body : info.body[j].name # item.name,
           info'.body = Append(info.body, item)
    PROVE  /\ \E X : info'.body \in Seq(X)
           /\ Len(info'.body) = Len(info.body) + 1 /\ info'.body[Len(info.body) + 1] = item
           /\ \A j \in 1..Len(info.body) : info'.body[j] = info.body[j]
           /\ \A j \in 1..Len(info'.body) : j \in 1..Len(info.body) \/ j = Len(info.body) + 1
           /\ \A j \in 1..Len(info'.body) : info'.body[j].name \in Name
           /\ \A i, j \in 1..Len(info'.body) : info'.body[i].name = info'.body[j].name => i = j
           /\ \A f : Declared(f)' <=> Declared(f) \/ (f = item.name /\ ~item.classvar)
           /\ ~Declared(item.name)
<1> DEFINE w == Append(info.body, item)
           m == Len(info.body)
<1>1. PICK X : info.body \in Seq(X)
  BY DEF AsDeclared
<1>2. info.body \in Seq(X \cup {item}) /\ item \in X \cup {item}
  <2>1. DOMAIN info.body = 1..Len(info.body) /\ Len(info.body) \in Nat /\ IsSeq(info.body)
        /\ \A i \in 1..Len(info.body) : info.body[i] \in X
    BY <1>1, SeqIs
  <2> QED BY <2>1 DEF IsSeq
<1>3. /\ w \in Seq(X \cup {item}) /\ Len(w) = m + 1 /\ w[m + 1] = item
      /\ \A j \in 1..m : w[j] = info.body[j]
  BY <1>2, AppendIs
<1>4. m \in Nat /\ DOMAIN info.body = 1..m
  BY BodyIs
<1>5. DOMAIN w = 1..m + 1
  BY <1>3, SeqIs
<1> HIDE DEF w, m
<1>6. /\ \A j \in 1..m + 1 : j \in 1..m \/ j = m + 1
      /\ \A j \in 1..m : j \in 1..m + 1
      /\ m + 1 \in 1..m + 1
  BY <1>4
<1>7. \A j \in 1..m : info.body[j].name # item.name /\ info.body[j].name \in Name
  BY <1>4 DEF AsDeclared, m
<1>8. \A j \in 1..m + 1 : w[j].name \in Name
  BY <1>3, <1>6, <1>7
<1>9. \A i, j \in 1..m + 1 : w[i].name = w[j].name => i = j
  BY <1>3, <1>6, <1>7, SMTT(60) DEF AsDeclared, m
<1>10. ~Declared(item.name)
  BY <1>4, <1>7 DEF Declared
<1>11. info'.body = w
  BY DEF w
<1>12. \A f : Declared(f)' <=> Declared(f) \/ (f = item.name /\ ~item.classvar)
  BY <1>3, <1>4, <1>5, <1>6, <1>11 DEF Declared
<1>13. \E Y : w \in Seq(Y)
  BY <1>3
<1> QED BY <1>3, <1>6, <1>8, <1>9, <1>10, <1>11, <1>12, <1>13 DEF m

LEMMA FieldsClassVar ==
    ASSUME FromBases, AsDeclared, classes' = classes, info.at = "fields",
           NEW item, item.name \in Name, ReadsClassVar(item),
           \A j \in DOMAIN info.body : info.body[j].name # item.name
    PROVE  FromBases' /\ AsDeclared'
<1>1. /\ info'.defaults_lk = info.defaults_lk /\ info'.slots = info.slots
      /\ info'.default = info.default /\ info'.kwonly = info.kwonly
      /\ info'.renamed = info.renamed /\ info'.option = info.option
      /\ info'.rename = info.rename /\ info'.at = "fields"
      /\ info'.bases = info.bases /\ info'.rest = info.rest
      /\ info'.body = Append(info.body, item) /\ item.classvar
  BY DEF ReadsClassVar, Keeps, Parts
<1>2. Read' = Read /\ \A i : Base(i)' = Base(i)
  BY <1>1, ReadKept
<1>3. /\ \E X : info'.body \in Seq(X)
      /\ Len(info'.body) = Len(info.body) + 1 /\ info'.body[Len(info.body) + 1] = item
      /\ \A j \in 1..Len(info.body) : info'.body[j] = info.body[j]
      /\ \A j \in 1..Len(info'.body) : j \in 1..Len(info.body) \/ j = Len(info.body) + 1
      /\ \A j \in 1..Len(info'.body) : info'.body[j].name \in Name
      /\ \A i, j \in 1..Len(info'.body) : info'.body[i].name = info'.body[j].name => i = j
      /\ \A f : Declared(f)' <=> Declared(f) \/ (f = item.name /\ ~item.classvar)
  BY <1>1, BodyGrows
<1>4. \A f : KeptKey(f) => KeptKey(f)'
  BY <1>1, <1>2, KeptKeyKept
<1>5. FromBases'
  <2>1. \A f : Declared(f)' <=> Declared(f)
    BY <1>1, <1>3
  <2> QED BY <1>1, <1>2, <1>4, <2>1, FirstKept DEF FromBases
<1>6. \A i : AsItem(i) => AsItem(i)'
  BY <1>1, <1>4 DEF AsItem, StoredDefault
<1> QED BY <1>1, <1>3, <1>5, <1>6 DEF AsDeclared

LEMMA FieldsField ==
    ASSUME InProgress, FromBases, AsDeclared, classes' = classes, info.at = "fields",
           NEW item, item.name \in Name, ReadsField(item),
           \A j \in DOMAIN info.body : info.body[j].name # item.name
    PROVE  FromBases' /\ AsDeclared'
<1> DEFINE f == item.name
<1>1. /\ info'.option = info.option
      /\ info'.rename = info.rename /\ info'.at = "fields"
      /\ info'.bases = info.bases /\ info'.rest = info.rest
      /\ info'.body = Append(info.body, item) /\ ~item.classvar
  BY DEF ReadsField, Keeps, Parts
<1>2. /\ info'.defaults_lk = IF f \in ToSet(info.defaults_lk) THEN info.defaults_lk
                             ELSE Append(info.defaults_lk, f)
      /\ info'.slots = IF f \in ToSet(info.defaults_lk) THEN info.slots ELSE info.slots \cup {f}
      /\ info'.kwonly = IF info.option["kw_only"] = "true" THEN info.kwonly \cup {f}
                        ELSE info.kwonly \ {f}
      /\ info'.renamed = [info.renamed EXCEPT ![f] = Renamed(item)]
      /\ info'.default = [info.default EXCEPT ![f] = StoredDefault(item.default)]
  BY DEF ReadsField
<1>3. Read' = Read /\ \A i : Base(i)' = Base(i)
  BY <1>1, ReadKept
<1>4. /\ \E X : info'.body \in Seq(X)
      /\ Len(info'.body) = Len(info.body) + 1 /\ info'.body[Len(info.body) + 1] = item
      /\ \A j \in 1..Len(info.body) : info'.body[j] = info.body[j]
      /\ \A j \in 1..Len(info'.body) : j \in 1..Len(info.body) \/ j = Len(info.body) + 1
      /\ \A j \in 1..Len(info'.body) : info'.body[j].name \in Name
      /\ \A i, j \in 1..Len(info'.body) : info'.body[i].name = info'.body[j].name => i = j
      /\ \A g : Declared(g)' <=> Declared(g) \/ (g = item.name /\ ~item.classvar)
      /\ ~Declared(item.name)
  BY <1>1, BodyGrows
<1>5. /\ DOMAIN info.renamed = Name /\ DOMAIN info.default = Name
      /\ info.defaults_lk \in Seq(Name)
  BY DEF InProgress, Collected
<1>6. ToSet(info'.defaults_lk) = ToSet(info.defaults_lk) \cup {f}
  <2>1. CASE f \in ToSet(info.defaults_lk)
    BY <1>2, <2>1
  <2>2. CASE f \notin ToSet(info.defaults_lk)
    BY <1>2, <1>5, <2>2, AppendIs
  <2> QED BY <2>1, <2>2
<1>7. /\ info'.renamed[f] = Renamed(item) /\ info'.default[f] = StoredDefault(item.default)
      /\ f \in info'.kwonly <=> info.option["kw_only"] = "true"
  BY <1>2, <1>5
<1> HIDE DEF f
<1>8. \A g \in Name : g # f =>
         /\ info'.renamed[g] = info.renamed[g] /\ info'.default[g] = info.default[g]
         /\ g \in info'.kwonly <=> g \in info.kwonly
         /\ g \in info'.slots <=> g \in info.slots
  BY <1>2, <1>5
<1>9. \A g \in Name : g # f => (KeptKey(g) => KeptKey(g)')
  BY <1>3, <1>8, KeptKeyKept
<1>10. FromBases'
  <2>1. ASSUME NEW g \in Name, ~Declared(g)' PROVE g # f /\ ~Declared(g)
    BY <1>1, <1>4, <2>1 DEF f
  <2> QED BY <1>3, <1>6, <1>8, <1>9, <2>1, FirstKept DEF FromBases
<1>11. AsItem(item)'
  <2>1. item.alias # Null => info'.renamed[f] = item.alias
    BY <1>7 DEF Renamed
  <2>2. item.alias = Null /\ info.rename # Null => info'.renamed[f] = info.rename[f]
    BY <1>7 DEF Renamed, f
  <2>3. item.alias = Null /\ info.rename = Null => info'.renamed[f] = info.renamed[f]
    BY <1>7 DEF Renamed, f
  <2>4. KeptKey(f)
    BY <1>4 DEF FromBases, f
  <2>5. item.alias = Null /\ info.rename = Null => KeptKey(f)'
    BY <1>3, <2>3, <2>4, KeptKeyKept
  <2> QED BY <1>1, <1>6, <1>7, <2>1, <2>2, <2>5 DEF AsItem, f, StoredDefault
<1>12. ASSUME NEW j \in 1..Len(info.body), AsItem(info.body[j]) PROVE AsItem(info.body[j])'
  <2>1. PICK old : old = info.body[j]
    OBVIOUS
  <2>2. old.name # f /\ old.name \in Name /\ info'.body[j] = old
    BY <1>4, <2>1, BodyIs DEF AsDeclared, f
  <2>3. AsItem(old)
    BY <1>12, <2>1
  <2>4. AsItem(old)'
    BY <1>1, <1>6, <1>8, <1>9, <2>2, <2>3 DEF AsItem, StoredDefault
  <2> QED BY <2>2, <2>4
<1>13. ASSUME NEW j \in 1..Len(info'.body), ~info'.body[j].classvar
       PROVE  AsItem(info.body[j])'
  <2>1. CASE j \in 1..Len(info.body)
    BY <1>4, <1>12, <1>13, <2>1 DEF AsDeclared
  <2>2. CASE j = Len(info.body) + 1
    BY <1>4, <1>11, <2>2
  <2> QED BY <1>4, <2>1, <2>2
<1> QED BY <1>1, <1>4, <1>10, <1>13 DEF AsDeclared

CodecsRight(c) ==
    \A i \in 1..Len(c.fields) :
        c.codecs[i] = IF Declares(c.body, c.fields[i])
                      THEN CodecMap(PositionsOf(c.body, c.fields[i]))
                      ELSE InheritedCodecs(c.bases, c.fields[i])

(* The bases that have f.                                                   *)
BasesWith(bases, f) == [i \in Having(bases, f) |-> classes[bases[i]]]

(* Where the field f of c comes from, when b are the bases that have it.    *)
Comes(c, f, b) ==
    LET item == c.body[CHOOSE j \in DOMAIN c.body : c.body[j].name = f]
        key == \/ (\A i \in DOMAIN b : AliasOf(b[i], f) = f) /\ AliasOf(c, f) = f
               \/ \E i \in DOMAIN b :
                     /\ AliasOf(c, f) = AliasOf(b[i], f) /\ AliasOf(c, f) # f
                     /\ \A j \in DOMAIN b : j < i => AliasOf(b[j], f) = f
    IN  IF Declares(c.body, f) /\ ~item.classvar
        THEN /\ DefaultOf(c, f) = StoredDefault(item.default)
             /\ f \in KwOnly(c) <=> c.option["kw_only"] = "true"
             /\ CodecsOf(c, f) = CodecMap(item.positions)
             /\ item.alias # Null => AliasOf(c, f) = item.alias
             /\ item.alias = Null /\ c.rename # Null => AliasOf(c, f) = c.rename[f]
             /\ item.alias = Null /\ c.rename = Null => key
        ELSE /\ \E i \in DOMAIN b : /\ \A j \in DOMAIN b : i <= j
                                    /\ DefaultOf(c, f) = DefaultOf(b[i], f)
                                    /\ f \in KwOnly(c) <=> f \in KwOnly(b[i])
             /\ key
             /\ \/ Declares(c.body, f)
                \/ \A i \in DOMAIN b : CodecsOf(b[i], f) = {} /\ CodecsOf(c, f) = {}
                \/ \E i \in DOMAIN b :
                      /\ CodecsOf(c, f) = CodecsOf(b[i], f) /\ CodecsOf(c, f) # {}
                      /\ \A j \in DOMAIN b : j < i => CodecsOf(b[j], f) = {}

ClassComes(n) ==
    \A f \in ToSet(classes[n].fields) : Comes(classes[n], f, BasesWith(classes[n].bases, f))

Coming ==
    /\ \A n \in 1..Len(classes) : ClassComes(n)
    /\ info # None => /\ FromBases /\ AsDeclared
                      /\ info.at \in Constructed \ {"codecs"} => CodecsRight(info)

LEMMA BasesWithKept ==
    ASSUME NEW bases, \A i \in BasesAt(bases) : classes'[bases[i]] = classes[bases[i]]
    PROVE  \A f : BasesWith(bases, f)' = BasesWith(bases, f)
<1> TAKE f
<1>1. \A i \in DOMAIN bases : bases[i] \notin Mixin => classes'[bases[i]] = classes[bases[i]]
  BY DEF BasesAt
<1>2. Having(bases, f)' = Having(bases, f)
  BY <1>1 DEF Having
<1>3. \A i \in Having(bases, f) : classes'[bases[i]] = classes[bases[i]]
  BY <1>1 DEF Having
<1> QED BY <1>2, <1>3 DEF BasesWith

LEMMA ClassComesKept ==
    ASSUME NEW n, classes'[n] = classes[n], ClassComes(n),
           \A i \in BasesAt(classes[n].bases) :
               classes'[classes[n].bases[i]] = classes[classes[n].bases[i]]
    PROVE  ClassComes(n)'
<1>1. PICK c : c = classes[n]
  OBVIOUS
<1>2. PICK bases : bases = c.bases
  OBVIOUS
<1>3. \A f : BasesWith(bases, f)' = BasesWith(bases, f)
  BY <1>1, <1>2, BasesWithKept
<1>4. \A f, b : Comes(c, f, b)' <=> Comes(c, f, b)
  BY DEF Comes, DefaultOf, KwOnly, Positional, IndexOf, AliasOf, CodecsOf, Declares,
         StoredDefault, CodecMap
<1> QED BY <1>1, <1>2, <1>3, <1>4 DEF ClassComes

LEMMA InheritedIs ==
    ASSUME NEW m \in Nat, NEW bases, DOMAIN bases = 1..m, NEW f
    PROVE  LET b == BasesWith(bases, f)  all == InheritedCodecs(bases, f) IN
           \/ (\A i \in DOMAIN b : CodecsOf(b[i], f) = {}) /\ all = {}
           \/ \E i \in DOMAIN b : /\ all = CodecsOf(b[i], f) /\ all # {}
                                  /\ \A j \in DOMAIN b : j < i => CodecsOf(b[j], f) = {}
<1> DEFINE H == Having(bases, f)
           S == {i \in H : CodecsOf(classes[bases[i]], f) # {}}
           b == BasesWith(bases, f)
<1>1. InheritedCodecs(bases, f) = IF S = {} THEN {} ELSE CodecsOf(classes[bases[Min(S)]], f)
  BY DEF InheritedCodecs
<1>2. DOMAIN b = H /\ \A i \in H : b[i] = classes[bases[i]]
  BY DEF BasesWith
<1>3. H \subseteq 1..m /\ S \subseteq 1..m
  BY DEF Having
<1>4. S # {} => Min(S) \in S /\ \A j \in S : Min(S) <= j
  BY <1>3, MinIs
<1>5. CASE S = {}
  BY <1>1, <1>2, <1>5
<1>6. CASE S # {}
  <2>1. PICK i : i = Min(S)
    OBVIOUS
  <2>2. i \in S /\ \A j \in S : i <= j
    BY <1>4, <1>6, <2>1
  <2>3. InheritedCodecs(bases, f) = CodecsOf(classes[bases[i]], f)
    BY <1>1, <1>6, <2>1
  <2>4. i \in H /\ CodecsOf(classes[bases[i]], f) # {}
    BY <2>2
  <2>5. \A j \in H : j < i => CodecsOf(classes[bases[j]], f) = {}
    <3>1. \A j \in H : j < i => j \notin S
      BY <1>3, <2>2, SMTT(60)
    <3> QED BY <3>1
  <2> HIDE DEF H, S, b
  <2>6. /\ i \in DOMAIN b /\ InheritedCodecs(bases, f) = CodecsOf(b[i], f)
        /\ InheritedCodecs(bases, f) # {}
        /\ \A j \in DOMAIN b : j < i => CodecsOf(b[j], f) = {}
    BY <1>2, <2>3, <2>4, <2>5
  <2> QED BY <2>6 DEF b
<1> QED BY <1>5, <1>6

(* The class that Finish makes has its fields from where they should come.  *)
LEMMA FinishedComes ==
    ASSUME Typed, InProgress, Makes, Fitting, FromBases, AsDeclared, CodecsRight(info),
           NEW c, c = Finished, NEW f \in ToSet(c.fields),
           NEW b, b = BasesWith(info.bases, f)
    PROVE  Comes(c, f, b)
<1> DEFINE p == IndexOf(c, f)
           item == c.body[CHOOSE j \in DOMAIN c.body : c.body[j].name = f]
<1>1. /\ c.fields = info.fields /\ c.defaults = info.defaults /\ c.nkwonly = info.nkwonly
      /\ c.n_trailing_defaults = info.n_trailing_defaults
      /\ c.body = info.body /\ c.codecs = info.codecs /\ c.alias_fields = info.alias_fields
      /\ c.option = info.option /\ c.rename = info.rename /\ c.bases = info.bases
  BY DEF Finished
<1> HIDE DEF item
<1>2. /\ info.rest = <<>> /\ info.fields = Ordered /\ info.alias_fields = Aliases
  BY DEF Makes, InProgress, Reading, Arranged, Constructed
<1>3. /\ info.fields \in Seq(Name) /\ Distinct(info.fields)
      /\ ToSet(info.fields) = ToSet(info.defaults_lk) /\ ToSet(info.fields) \subseteq Name
  BY <1>2, OrderedHas, ToSetOf DEF InProgress, Collected
<1>4. f \in ToSet(info.fields) /\ f \in Name /\ f \in ToSet(info.defaults_lk)
  BY <1>1, <1>3
<1>5. p \in 1..Len(info.fields) /\ info.fields[p] = f
  BY <1>1, <1>3, <1>4, IndexIs
<1>6. /\ DefaultOf(c, f) = info.default[f]
      /\ f \in KwOnly(c) <=> f \in info.kwonly
  <2>1. KnowsFields
    BY DEF Fitting, Makes, Constructed
  <2>2. KwOnly(c) = KwOnly(info) /\ DefaultOf(c, f) = DefaultOf(info, f)
    BY <1>1, SameFields
  <2> QED BY <1>4, <2>1, <2>2 DEF KnowsFields
<1>7. AliasOf(c, f) = info.renamed[f]
  <2>1. DOMAIN info.fields = 1..Len(info.fields)
    BY <1>3, SeqIs
  <2>2. Aliases[p] = info.renamed[f]
    BY <1>5, <2>1 DEF Aliases
  <2> QED BY <1>1, <1>2, <2>2 DEF AliasOf
<1>8. CodecsOf(c, f) = IF Declares(c.body, f) THEN CodecMap(PositionsOf(c.body, f))
                       ELSE InheritedCodecs(info.bases, f)
  BY <1>1, <1>5 DEF CodecsOf, CodecsRight
<1>9. /\ Read = BasesAt(info.bases) /\ Read \subseteq 1..Len(info.bases)
      /\ DOMAIN info.bases = 1..Len(info.bases) /\ Len(info.bases) \in Nat
  BY <1>2, ReadAre DEF Typed, InProgress
<1>10. /\ \A i : i \in DOMAIN b <=> i \in Read /\ f \in ToSet(Base(i).fields)
       /\ \A i \in DOMAIN b : b[i] = Base(i)
  BY <1>9 DEF BasesWith, Having, BasesAt, Base
<1>11. DOMAIN info.body = 1..Len(info.body)
  BY BodyIs
<1>12. Declares(c.body, f) => \E j \in 1..Len(info.body) : info.body[j] = item /\ item.name = f
  BY <1>1, <1>11 DEF Declares, item
<1> DEFINE key == \/ (\A i \in DOMAIN b : AliasOf(b[i], f) = f) /\ AliasOf(c, f) = f
                  \/ \E i \in DOMAIN b :
                        /\ AliasOf(c, f) = AliasOf(b[i], f) /\ AliasOf(c, f) # f
                        /\ \A j \in DOMAIN b : j < i => AliasOf(b[j], f) = f
<1>13. KeptKey(f) => key
  <2>1. /\ \A i \in DOMAIN b : i \in Read /\ (KeepsName(i, f) <=> AliasOf(b[i], f) = f)
        /\ \A i \in Read : ~KeepsName(i, f) => i \in DOMAIN b
    BY <1>10 DEF KeepsName
  <2> HIDE DEF KeepsName
  <2>2. CASE (\A i \in Read : KeepsName(i, f)) /\ info.renamed[f] = f
    BY <1>7, <2>1, <2>2
  <2>3. ASSUME NEW i \in Read, ~KeepsName(i, f), info.renamed[f] = AliasOf(Base(i), f),
               \A j \in Read : j < i => KeepsName(j, f)
        PROVE  key
    <3>1. i \in DOMAIN b /\ AliasOf(c, f) = AliasOf(b[i], f) /\ AliasOf(b[i], f) # f
      BY <1>7, <1>10, <2>1, <2>3
    <3>2. \A j \in DOMAIN b : j < i => AliasOf(b[j], f) = f
      BY <2>1, <2>3
    <3> QED BY <3>1, <3>2
  <2> QED BY <2>2, <2>3 DEF KeptKey
<1> HIDE DEF p
<1>14. CASE Declares(c.body, f) /\ ~item.classvar
  <2>1. PICK j \in 1..Len(info.body) : info.body[j] = item /\ item.name = f
    BY <1>12, <1>14
  <2>2. AsItem(item)
    BY <1>14, <2>1 DEF AsDeclared
  <2>3. PositionsOf(c.body, f) = item.positions
    BY DEF PositionsOf, item
  <2>4. /\ DefaultOf(c, f) = StoredDefault(item.default)
        /\ f \in KwOnly(c) <=> c.option["kw_only"] = "true"
    BY <1>1, <1>6, <2>1, <2>2 DEF AsItem
  <2>5. CodecsOf(c, f) = CodecMap(item.positions)
    BY <1>8, <1>14, <2>3
  <2>6. /\ item.alias # Null => AliasOf(c, f) = item.alias
        /\ item.alias = Null /\ c.rename # Null => AliasOf(c, f) = c.rename[f]
    BY <1>1, <1>7, <2>1, <2>2 DEF AsItem
  <2>7. item.alias = Null /\ c.rename = Null => key
    BY <1>1, <1>13, <2>1, <2>2 DEF AsItem
  <2> HIDE DEF key
  <2> QED BY <1>14, <2>4, <2>5, <2>6, <2>7 DEF Comes, item, key
<1>15. CASE ~(Declares(c.body, f) /\ ~item.classvar)
  <2>1. ~Declared(f)
    <3>1. ASSUME NEW j \in DOMAIN info.body, info.body[j].name = f, ~info.body[j].classvar
          PROVE  FALSE
      <4>1. Declares(c.body, f)
        BY <1>1, <3>1 DEF Declares
      <4>2. PICK i \in 1..Len(info.body) : info.body[i] = item /\ item.name = f
        BY <1>12, <4>1
      <4>3. i = j
        BY <1>11, <3>1, <4>2 DEF AsDeclared
      <4> QED BY <1>15, <3>1, <4>1, <4>2, <4>3
    <3> QED BY <3>1 DEF Declared
  <2>2. PICK i \in Read : /\ First(i, f) /\ info.default[f] = DefaultOf(Base(i), f)
                          /\ f \in info.kwonly <=> f \in KwOnly(Base(i))
    BY <1>4, <2>1 DEF FromBases
  <2>3. /\ i \in DOMAIN b /\ \A j \in DOMAIN b : i <= j
        /\ DefaultOf(c, f) = DefaultOf(b[i], f)
        /\ f \in KwOnly(c) <=> f \in KwOnly(b[i])
    BY <1>6, <1>10, <2>2 DEF First
  <2>4. key
    BY <1>4, <1>13, <2>1 DEF FromBases
  <2>5. \/ Declares(c.body, f)
        \/ \A j \in DOMAIN b : CodecsOf(b[j], f) = {} /\ CodecsOf(c, f) = {}
        \/ \E j \in DOMAIN b :
              /\ CodecsOf(c, f) = CodecsOf(b[j], f) /\ CodecsOf(c, f) # {}
              /\ \A k \in DOMAIN b : k < j => CodecsOf(b[k], f) = {}
    <3>1. CASE ~Declares(c.body, f)
      <4>1. CodecsOf(c, f) = InheritedCodecs(info.bases, f)
        BY <1>8, <3>1
      <4>2. \/ (\A j \in DOMAIN b : CodecsOf(b[j], f) = {})
               /\ InheritedCodecs(info.bases, f) = {}
            \/ \E j \in DOMAIN b :
                  /\ InheritedCodecs(info.bases, f) = CodecsOf(b[j], f)
                  /\ InheritedCodecs(info.bases, f) # {}
                  /\ \A k \in DOMAIN b : k < j => CodecsOf(b[k], f) = {}
        BY <1>9, InheritedIs
      <4> QED BY <4>1, <4>2
    <3> QED BY <3>1
  <2> HIDE DEF key
  <2>6. \E k \in DOMAIN b : /\ \A j \in DOMAIN b : k <= j
                            /\ DefaultOf(c, f) = DefaultOf(b[k], f)
                            /\ f \in KwOnly(c) <=> f \in KwOnly(b[k])
    BY <2>3
  <2> QED BY <1>15, <2>4, <2>5, <2>6 DEF Comes, item, key
<1> QED BY <1>14, <1>15

LEMMA ComingInit == Init => Coming
<1> SUFFICES ASSUME Init PROVE Coming
  OBVIOUS
<1>1. Len(classes) = 0 /\ info = None
  BY EmptySeq DEF Init
<1> QED BY <1>1 DEF Coming

LEMMA CodecsStay ==
    ASSUME classes' = classes, info'.bases = info.bases, info'.body = info.body,
           info'.fields = info.fields, info'.codecs = info.codecs, CodecsRight(info)
    PROVE  CodecsRight(info)'
<1>1. \A f, bases : InheritedCodecs(bases, f)' = InheritedCodecs(bases, f)
  BY DEF InheritedCodecs, Having, CodecsOf, IndexOf
<1>2. PICK bases, body, fields, codecs : /\ bases = info.bases /\ body = info.body
                                         /\ fields = info.fields /\ codecs = info.codecs
  OBVIOUS
<1>3. \A i \in 1..Len(fields) : codecs[i] = IF Declares(body, fields[i])
                                            THEN CodecMap(PositionsOf(body, fields[i]))
                                            ELSE InheritedCodecs(bases, fields[i])
  BY <1>2 DEF CodecsRight
<1>4. \A i \in 1..Len(fields) : codecs[i] = IF Declares(body, fields[i])
                                            THEN CodecMap(PositionsOf(body, fields[i]))
                                            ELSE InheritedCodecs(bases, fields[i])'
  BY <1>1, <1>3
<1> QED BY <1>2, <1>4 DEF CodecsRight

LEMMA CodecsMade ==
    ASSUME InProgress, CollectCodecs, info' # None
    PROVE  CodecsRight(info)'
<1>1. /\ info'.codecs = CodecsMapped /\ info'.fields = info.fields
      /\ info'.body = info.body /\ info'.bases = info.bases /\ classes' = classes
  BY CollectCodecsDoes DEF InProgress, Keeps, Parts
<1>2. DOMAIN info.fields = 1..Len(info.fields)
  <2>1. info.fields \in Seq(Name)
    BY CollectCodecsDoes, OrderedHas DEF InProgress, Arranged, Constructed, Collected
  <2> QED BY <2>1, SeqIs
<1>3. \A f, bases : InheritedCodecs(bases, f)' = InheritedCodecs(bases, f)
  BY <1>1 DEF InheritedCodecs, Having, CodecsOf, IndexOf
<1>4. PICK bases : bases = info.bases
  OBVIOUS
<1> QED BY <1>1, <1>2, <1>3, <1>4, SMTT(60)
       DEF CodecsRight, CodecsMapped, Declares, PositionsOf, CodecMap

LEMMA FieldsStep ==
    ASSUME ClassesTyped, InProgress, FromBases, AsDeclared,
           classes' = classes, info' # None, Advances
    PROVE  FromBases' /\ AsDeclared'
<1>1. DOMAIN info = Parts
  BY DEF InProgress
<1>2. CASE CollectMixin
  <2>1. /\ info'.body = info.body /\ info'.defaults_lk = info.defaults_lk
        /\ info'.default = info.default /\ info'.kwonly = info.kwonly
        /\ info'.renamed = info.renamed /\ info'.slots = info.slots /\ info.at = "bases"
    BY <1>1, <1>2, CollectMixinDoes DEF Keeps, Parts
  <2> QED BY <1>2, <2>1, ReadMixin, FieldsKept
<1>3. CASE CollectBase
  BY <1>3, FieldsBase
<1>4. CASE ApplySpec
  <2>1. /\ info'.body = info.body /\ info'.defaults_lk = info.defaults_lk
        /\ info'.default = info.default /\ info'.kwonly = info.kwonly
        /\ info'.renamed = info.renamed /\ info'.slots = info.slots /\ info.at = "bases"
        /\ info'.bases = info.bases /\ info'.rest = info.rest
    BY <1>1, <1>4, ApplySpecDoes DEF Keeps, Parts
  <2> QED BY <2>1, ReadKept, FieldsKept
<1>5. CASE CollectField
  <2>1. info.at = "fields" /\ \E item \in Menu[This].items :
           /\ \A j \in DOMAIN info.body : info.body[j].name # item.name
           /\ ReadsClassVar(item) \/ ReadsField(item)
    BY <1>1, <1>5, CollectFieldDoes
  <2>2. PICK item \in Menu[This].items :
           /\ \A j \in DOMAIN info.body : info.body[j].name # item.name
           /\ ReadsClassVar(item) \/ ReadsField(item)
    BY <2>1
  <2>3. item.name \in Name
    <3>1. This \in 1..Len(Menu)
      BY ThisInMenu DEF InProgress, Reading
    <3>2. \A j \in Menu[This].items : j.name \in Name
      BY <3>1, ConstantsOK
    <3> QED BY <3>2
  <2> QED BY <2>1, <2>2, <2>3, FieldsClassVar, FieldsField
<1>6. CASE ConstructFields \/ CollectCodecs \/ ConstructAliasFields \/ TypeNew
  <2>1. Keeps({"at", "fields", "defaults", "nkwonly", "n_trailing_defaults", "slots",
               "codecs", "alias_fields", "layout"}) /\ info'.at # "bases"
    BY <1>1, <1>6, ConstructFieldsDoes, CollectCodecsDoes, ConstructAliasFieldsDoes,
       TypeNewDoes DEF Keeps
  <2>2. info'.slots \ {CachedHash} = info.slots \ {CachedHash}
    <3>1. \/ info'.slots = info.slots
          \/ info'.slots = info.slots \cup {CachedHash}
      BY <1>1, <1>6, ConstructFieldsDoes, CollectCodecsDoes, ConstructAliasFieldsDoes,
         TypeNewDoes DEF Keeps, Parts
    <3> QED BY <3>1
  <2>3. /\ info'.body = info.body /\ info'.defaults_lk = info.defaults_lk
        /\ info'.default = info.default /\ info'.kwonly = info.kwonly
        /\ info'.renamed = info.renamed /\ info'.bases = info.bases
        /\ info'.rest = info.rest /\ info'.option = info.option /\ info'.rename = info.rename
    BY <2>1 DEF Keeps, Parts
  <2> QED BY <2>1, <2>2, <2>3, ReadKept, FieldsKept
<1> QED BY <1>2, <1>3, <1>4, <1>5, <1>6 DEF Advances

LEMMA CodecsStep ==
    ASSUME InProgress, classes' = classes, info' # None, Advances,
           info.at \in Constructed \ {"codecs"} => CodecsRight(info),
           info'.at \in Constructed \ {"codecs"}
    PROVE  CodecsRight(info)'
<1>1. DOMAIN info = Parts
  BY DEF InProgress
<1>2. CASE CollectMixin \/ CollectBase \/ ApplySpec \/ CollectField
  BY <1>1, <1>2, CollectMixinDoes, CollectBaseDoes, ApplySpecDoes, CollectFieldDoes
     DEF ReadsClassVar, ReadsField, Keeps, Parts, Constructed
<1>3. CASE ConstructFields
  BY <1>1, <1>3, ConstructFieldsDoes DEF Constructed
<1>4. CASE CollectCodecs
  BY <1>4, CodecsMade
<1>5. CASE ConstructAliasFields \/ TypeNew
  <2>1. /\ info.at \in Constructed \ {"codecs"}
        /\ info'.bases = info.bases /\ info'.body = info.body
        /\ info'.fields = info.fields /\ info'.codecs = info.codecs
    BY <1>1, <1>5, ConstructAliasFieldsDoes, TypeNewDoes DEF Keeps, Parts, Constructed
  <2> QED BY <2>1, CodecsStay
<1> QED BY <1>2, <1>3, <1>4, <1>5 DEF Advances

LEMMA ComingStep == Typed /\ Fitting /\ Coming /\ [Next]_vars => Coming'
<1> SUFFICES ASSUME Typed, Fitting, Coming, [Next]_vars PROVE Coming'
  OBVIOUS
<1>1. classes' = classes => \A n \in 1..Len(classes') : ClassComes(n)'
  <2> HAVE classes' = classes
  <2> TAKE n \in 1..Len(classes')
  <2> QED BY ClassComesKept DEF Coming
<1>2. CASE classes' = classes /\ info' = None
  BY <1>1, <1>2 DEF Coming
<1>3. CASE classes' = classes /\ info' = info
  <2>1. Read' = Read /\ \A i : Base(i)' = Base(i)
    BY <1>3, ReadKept
  <2>2. FromBases /\ AsDeclared => FromBases' /\ AsDeclared'
    BY <1>3, <2>1, FieldsKept
  <2>3. CodecsRight(info) => CodecsRight(info)'
    BY <1>3, CodecsStay
  <2> QED BY <1>1, <1>3, <2>2, <2>3 DEF Coming
<1>4. CASE classes' = classes /\ Begin
  <2>1. PICK bases \in Menu[This].bases : info' = Fresh(bases)
    BY <1>4, BeginDoes
  <2>2. info'.at = "bases"
    BY <2>1, FreshIs
  <2> QED BY <1>1, <1>4, <2>2, FieldsFresh DEF Coming, Constructed, Typed
<1>5. CASE InProgress /\ classes' = classes /\ info' # None /\ Advances
  <2>1. info # None
    BY <1>5, NoneIs DEF InProgress, Stages
  <2>2. /\ FromBases /\ AsDeclared
        /\ info.at \in Constructed \ {"codecs"} => CodecsRight(info)
    BY <2>1 DEF Coming
  <2>3. FromBases' /\ AsDeclared'
    BY <1>5, <2>2, FieldsStep DEF Typed
  <2>4. info'.at \in Constructed \ {"codecs"} => CodecsRight(info)'
    BY <1>5, <2>2, CodecsStep
  <2> QED BY <1>1, <1>5, <2>3, <2>4 DEF Coming
<1>6. CASE InProgress /\ Makes
  <2>1. info # None /\ info' = None /\ info.at = "tag"
    BY <1>6, NoneIs DEF InProgress, Stages, Makes
  <2>2. FromBases /\ AsDeclared /\ CodecsRight(info)
    BY <2>1 DEF Coming, Constructed
  <2>3. \A n \in 1..Len(classes') : n \in 1..Len(classes) \/ n = This
    BY <1>6, ClassesListed DEF Makes, This, Typed
  <2>4. \A n \in 1..Len(classes) : ClassComes(n)'
    BY <1>6, BasesStay, ClassComesKept DEF Coming
  <2>5. ASSUME NEW n, n = This PROVE ClassComes(n)'
    <3>1. PICK c : c = Finished
      OBVIOUS
    <3>2. PICK bases : bases = info.bases
      OBVIOUS
    <3>3. classes'[n] = c /\ c.bases = bases
      BY <1>6, <2>5, <3>1, <3>2 DEF Makes, Finished
    <3>4. \A i \in BasesAt(bases) : classes'[bases[i]] = classes[bases[i]]
      <4>1. info.rest = <<>>
        BY <1>6, <2>1 DEF InProgress, Reading
      <4>2. \A i \in BasesAt(bases) : bases[i] \in 1..Len(classes)
        BY <1>6, <3>2, <4>1, ReadAre DEF Typed, InProgress
      <4> QED BY <1>6, <4>2 DEF Makes
    <3>5. \A f : BasesWith(bases, f)' = BasesWith(bases, f)
      BY <3>4, BasesWithKept
    <3>6. \A f, b : Comes(c, f, b)' <=> Comes(c, f, b)
      BY DEF Comes, DefaultOf, KwOnly, Positional, IndexOf, AliasOf, CodecsOf, Declares,
             StoredDefault, CodecMap
    <3>7. \A f \in ToSet(c.fields) : Comes(c, f, BasesWith(bases, f))
      BY <1>6, <2>2, <3>1, <3>2, FinishedComes
    <3> QED BY <3>3, <3>5, <3>6, <3>7 DEF ClassComes
  <2> QED BY <2>1, <2>3, <2>4, <2>5 DEF Coming
<1> QED BY <1>2, <1>3, <1>4, <1>5, <1>6, Steps

(* What holds of the first base with something to say holds of the first    *)
(* base, when it decides.                                                   *)
LEMMA DecidedFirst ==
    ASSUME NEW m \in Nat, NEW v, DOMAIN v # {}, DOMAIN v \subseteq 1..m, NEW none, NEW value,
           Settled(DOMAIN v, v, none, value), Decided(v, none)
    PROVE  value = v[Min(DOMAIN v)]
<1> DEFINE P == DOMAIN v
           a == Min(P)
<1>1. a \in P /\ \A j \in P : a <= j
  BY MinIs
<1>2. P \subseteq Int
  OBVIOUS
<1>3. v[a] # none \/ \A i \in P : v[i] = v[a]
  BY DEF Decided
<1>4. Settled(P, v, none, value)
  OBVIOUS
<1> HIDE DEF P, a
<1>5. value = none /\ (\A i \in P : v[i] = none) => value = v[a]
  BY <1>1
<1>6. ASSUME NEW i \in P, value = v[i], v[i] # none, \A j \in P : j < i => v[j] = none
      PROVE  value = v[a]
  <2>1. CASE a = i
    BY <1>6, <2>1
  <2>2. CASE a < i
    BY <1>1, <1>3, <1>6, <2>2
  <2> QED BY <1>1, <1>2, <2>1, <2>2
<1>7. value = v[a]
  BY <1>4, <1>5, <1>6 DEF Settled
<1> QED BY <1>7 DEF P, a

LEMMA ComesIs ==
    ASSUME Typed, Slotted, Configuring, Coming, NEW n \in DOMAIN classes,
           NEW f \in ToSet(classes[n].fields)
    PROVE
        LET c == classes[n]
            having == Having(c.bases, f)
            base(i) == classes[c.bases[i]]
            first == base(Min(having))
            item == c.body[CHOOSE j \in DOMAIN c.body : c.body[j].name = f]
            keys == [i \in having |-> AliasOf(base(i), f)]
            codecs == [i \in having |-> CodecsOf(base(i), f)]
            keyOfBases == IF having = {} THEN AliasOf(c, f) = f
                          ELSE Decided(keys, f) => AliasOf(c, f) = AliasOf(first, f)
        IN  IF Declares(c.body, f) /\ ~item.classvar
            THEN /\ DefaultOf(c, f) = StoredDefault(item.default)
                 /\ "kw_only" \in DOMAIN c.spec =>
                        (f \in KwOnly(c) <=> c.spec["kw_only"] = "true")
                 /\ CodecsOf(c, f) = CodecMap(item.positions)
                 /\ item.alias # Null => AliasOf(c, f) = item.alias
                 /\ item.alias = Null /\ c.rename # Null => AliasOf(c, f) = c.rename[f]
                 /\ item.alias = Null /\ c.rename = Null => keyOfBases
            ELSE /\ having # {}
                 /\ DefaultOf(c, f) = DefaultOf(first, f)
                 /\ f \in KwOnly(c) <=> f \in KwOnly(first)
                 /\ OffsetOf(c, f) = OffsetOf(first, f)
                 /\ keyOfBases
                 /\ ~Declares(c.body, f) /\ Decided(codecs, {}) =>
                        CodecsOf(c, f) = CodecsOf(first, f)
<1> DEFINE c == classes[n]
           H == Having(c.bases, f)
           base(i) == classes[c.bases[i]]
           b == BasesWith(c.bases, f)
           item == c.body[CHOOSE j \in DOMAIN c.body : c.body[j].name = f]
           keys == [i \in H |-> AliasOf(base(i), f)]
           codecs == [i \in H |-> CodecsOf(base(i), f)]
           key == \/ (\A i \in DOMAIN b : AliasOf(b[i], f) = f) /\ AliasOf(c, f) = f
                  \/ \E i \in DOMAIN b :
                        /\ AliasOf(c, f) = AliasOf(b[i], f) /\ AliasOf(c, f) # f
                        /\ \A j \in DOMAIN b : j < i => AliasOf(b[j], f) = f
           keyOfBases == IF H = {} THEN AliasOf(c, f) = f
                         ELSE Decided(keys, f) => AliasOf(c, f) = AliasOf(base(Min(H)), f)
<1>1. n \in 1..Len(classes) /\ ClassTyped(n) /\ Comes(c, f, b) /\ ClassConfigured(n)
  BY ClassesListed DEF Typed, ClassesTyped, Coming, ClassComes, Configuring
<1>2. DOMAIN b = H /\ \A i \in H : b[i] = base(i)
  BY DEF BasesWith
<1>3. Len(c.bases) \in Nat /\ H \subseteq 1..Len(c.bases)
  BY <1>1, SeqIs DEF ClassTyped, Having
<1>4. \A i \in H : i \in BasesAt(c.bases) /\ f \in ToSet(base(i).fields)
  BY DEF Having, BasesAt
<1>5. \A i \in H : OffsetOf(c, f) = OffsetOf(base(i), f)
  BY <1>1, <1>4, SlotStays
<1>6. \A i \in H : (\A j \in H : i <= j) => i = Min(H)
  BY <1>3, MinIs
<1>7. H # {} => Min(H) \in H
  BY <1>3, MinIs
<1>8. ASSUME key PROVE keyOfBases
  <2>1. DOMAIN keys = H /\ \A i \in H : keys[i] = AliasOf(b[i], f)
    BY <1>2
  <2>2. H # {} => keys[Min(H)] = AliasOf(base(Min(H)), f)
    BY <1>7
  <2> HIDE DEF b, H, keys, c, base
  <2>3. H = {} => AliasOf(c, f) = f
    BY <1>2, <1>8
  <2>4. Settled(DOMAIN keys, keys, f, AliasOf(c, f))
    BY <1>2, <1>8, <2>1 DEF Settled
  <2>5. H # {} /\ Decided(keys, f) => AliasOf(c, f) = keys[Min(H)]
    BY <1>3, <2>1, <2>4, DecidedFirst
  <2> QED BY <2>2, <2>3, <2>5
<1>9. CASE Declares(c.body, f) /\ ~item.classvar
  <2>1. /\ DefaultOf(c, f) = StoredDefault(item.default)
        /\ f \in KwOnly(c) <=> c.option["kw_only"] = "true"
        /\ CodecsOf(c, f) = CodecMap(item.positions)
        /\ item.alias # Null => AliasOf(c, f) = item.alias
        /\ item.alias = Null /\ c.rename # Null => AliasOf(c, f) = c.rename[f]
        /\ item.alias = Null /\ c.rename = Null => key
    <3> HIDE DEF c, b
    <3> QED BY <1>1, <1>9 DEF Comes
  <2>2. "kw_only" \in DOMAIN c.spec => c.option["kw_only"] = c.spec["kw_only"]
    BY <1>1 DEF ClassConfigured, ConfiguredBy, Inherited
  <2> HIDE DEF b, H, key, keyOfBases
  <2>3. /\ "kw_only" \in DOMAIN c.spec => (f \in KwOnly(c) <=> c.spec["kw_only"] = "true")
        /\ item.alias = Null /\ c.rename = Null => keyOfBases
    BY <1>8, <2>1, <2>2
  <2> QED BY <1>9, <2>1, <2>3 DEF keyOfBases, H
<1>10. CASE ~(Declares(c.body, f) /\ ~item.classvar)
  <2>1. /\ \E i \in DOMAIN b : /\ \A j \in DOMAIN b : i <= j
                               /\ DefaultOf(c, f) = DefaultOf(b[i], f)
                               /\ f \in KwOnly(c) <=> f \in KwOnly(b[i])
        /\ key
        /\ \/ Declares(c.body, f)
           \/ \A i \in DOMAIN b : CodecsOf(b[i], f) = {} /\ CodecsOf(c, f) = {}
           \/ \E i \in DOMAIN b :
                 /\ CodecsOf(c, f) = CodecsOf(b[i], f) /\ CodecsOf(c, f) # {}
                 /\ \A j \in DOMAIN b : j < i => CodecsOf(b[j], f) = {}
    <3> HIDE DEF c, b
    <3> QED BY <1>1, <1>10 DEF Comes
  <2>2. PICK i \in H : /\ \A j \in H : i <= j
                       /\ DefaultOf(c, f) = DefaultOf(base(i), f)
                       /\ f \in KwOnly(c) <=> f \in KwOnly(base(i))
    <3> HIDE DEF c, b, H, base
    <3> QED BY <1>2, <2>1
  <2>3. i = Min(H) /\ H # {} /\ OffsetOf(c, f) = OffsetOf(base(i), f)
    BY <1>5, <1>6, <2>2
  <2>4. /\ H # {}
        /\ DefaultOf(c, f) = DefaultOf(base(Min(H)), f)
        /\ f \in KwOnly(c) <=> f \in KwOnly(base(Min(H)))
        /\ OffsetOf(c, f) = OffsetOf(base(Min(H)), f)
    BY <2>2, <2>3
  <2>5. ASSUME ~Declares(c.body, f), Decided(codecs, {})
        PROVE  CodecsOf(c, f) = CodecsOf(base(Min(H)), f)
    <3>1. DOMAIN codecs = H /\ \A j \in H : codecs[j] = CodecsOf(b[j], f)
      BY <1>2
    <3>2. codecs[Min(H)] = CodecsOf(base(Min(H)), f)
      BY <1>7, <2>4
    <3> HIDE DEF b, H, codecs, c, base
    <3>3. Settled(DOMAIN codecs, codecs, {}, CodecsOf(c, f))
      <4>1. CASE \A j \in DOMAIN b : CodecsOf(b[j], f) = {} /\ CodecsOf(c, f) = {}
        BY <1>2, <2>4, <3>1, <4>1 DEF Settled
      <4>2. CASE \E j \in DOMAIN b :
                    /\ CodecsOf(c, f) = CodecsOf(b[j], f) /\ CodecsOf(c, f) # {}
                    /\ \A k \in DOMAIN b : k < j => CodecsOf(b[k], f) = {}
        BY <1>2, <3>1, <4>2 DEF Settled
      <4> QED BY <2>1, <2>5, <4>1, <4>2
    <3> QED BY <1>3, <2>4, <2>5, <3>1, <3>2, <3>3, DecidedFirst
  <2>6. keyOfBases
    BY <1>8, <2>1
  <2> HIDE DEF b, keyOfBases, codecs
  <2> QED BY <1>10, <2>4, <2>5, <2>6 DEF keyOfBases, codecs
<1> QED BY <1>9, <1>10

(* Whatever the order of the bases and of the statements that made them, a  *)
(* field has its default, key, place and codecs from where it should.       *)
THEOREM FieldsInherited == Spec => []FieldsComeFromWhereTheyShould
<1>1. Typed /\ Slotted /\ Configuring /\ Coming => FieldsComeFromWhereTheyShould
  BY ComesIs, Zenon DEF FieldsComeFromWhereTheyShould
<1> QED BY <1>1, TypedAlways, SlottedAlways, ConfiguringInit, ConfiguringStep,
           FittingInit, FittingStep, ComingInit, ComingStep, PTL DEF Spec

-----------------------------------------------------------------------------
(* Positions.                                                               *)

(* The positional fields are the fields that are not keyword-only.          *)
LEMMA PositionalPicked ==
    ASSUME NEW c, c.fields \in Seq(Name), Distinct(c.fields), c.nkwonly \in 0..Len(c.fields)
    PROVE  Positional(c) = Picked(c.fields, Name \ KwOnly(c))
<1> DEFINE m == Len(c.fields) - c.nkwonly
           p == Positional(c)
           kw == KwOnly(c)
           e == [k \in 1..m |-> k]
<1>1. /\ p \in Seq(Name) /\ Len(p) = m /\ \A i \in 1..m : p[i] = c.fields[i]
      /\ \A i \in 1..Len(c.fields) : c.fields[i] \in kw <=> i > m
  BY PositionalIs
<1>2. /\ Len(c.fields) \in Nat /\ m \in Nat /\ m <= Len(c.fields)
      /\ IsSeq(c.fields) /\ DOMAIN c.fields = 1..Len(c.fields)
      /\ \A i \in 1..Len(c.fields) : c.fields[i] \in Name
  BY SeqIs
<1>3. IsSeq(p)
  BY <1>1, SeqIs
<1> HIDE DEF m, p, kw
<1>4. Places(c.fields, Name \ kw) = 1..m
  <2>1. \A i \in 1..Len(c.fields) : c.fields[i] \in Name \ kw <=> i <= m
    BY <1>1, <1>2
  <2>2. \A i : i \in Places(c.fields, Name \ kw) <=> i \in 1..Len(c.fields) /\ i <= m
    BY <1>2, <2>1 DEF Places
  <2>3. \A i : i \in 1..m <=> i \in 1..Len(c.fields) /\ i <= m
    BY <1>2
  <2> QED BY <2>2, <2>3
<1>5. Lists(e, Len(p), Places(c.fields, Name \ kw))
  BY <1>1, <1>2, <1>4 DEF Lists
<1>6. \A k \in 1..Len(p) : p[k] = c.fields[e[k]]
  BY <1>1
<1> HIDE DEF e
<1>7. Picked(c.fields, Name \ kw) = p
  BY <1>2, <1>3, <1>5, <1>6, PickedIs
<1> QED BY <1>7 DEF p, kw

(* What begins with l goes on with something.                               *)
LEMMA BeginsGoesOn ==
    ASSUME NEW X, NEW l \in Seq(X), NEW m \in Seq(X), Begins(l, m)
    PROVE  \E r \in Seq(X) : /\ \A S : Picked(m, S) = Picked(l, S) \o Picked(r, S)
                             /\ Distinct(m) => ToSet(r) \cap ToSet(l) = {}
<1> DEFINE a == Len(l)
           n == Len(m) - a
           r == [i \in 1..n |-> m[a + i]]
<1>1. /\ a \in Nat /\ Len(m) \in Nat /\ a <= Len(m) /\ n \in Nat /\ Len(m) = a + n
      /\ IsSeq(m) /\ \A i \in 1..Len(m) : m[i] \in X
      /\ \A i \in 1..a : l[i] = m[i]
  BY SeqIs DEF Begins
<1> HIDE DEF a, n
<1>2. \A i \in 1..n : a + i \in 1..Len(m) /\ ~(a + i <= a)
  BY <1>1
<1>3. r \in Seq(X) /\ Len(r) = n /\ \A i \in 1..n : r[i] = m[a + i]
  BY <1>1, <1>2
<1> HIDE DEF r
<1> DEFINE w == l \o r
<1>4. /\ w \in Seq(X) /\ Len(w) = a + n
      /\ \A i \in 1..a + n : w[i] = IF i <= a THEN l[i] ELSE r[i - a]
  BY <1>3, ConcatProperties DEF a
<1>5. IsSeq(w)
  BY <1>4, SeqIs
<1> HIDE DEF w
<1>6. ASSUME NEW i \in 1..a + n PROVE w[i] = m[i]
  <2>1. CASE i <= a
    BY <1>1, <1>4, <2>1
  <2>2. CASE ~(i <= a)
    <3>1. i - a \in 1..n /\ a + (i - a) = i
      BY <1>1, <2>2
    <3> QED BY <1>3, <1>4, <2>2, <3>1
  <2> QED BY <2>1, <2>2
<1>7. w = m
  BY <1>1, <1>4, <1>5, <1>6 DEF IsSeq
<1>8. ASSUME Distinct(m) PROVE ToSet(r) \cap ToSet(l) = {}
  <2>1. ASSUME NEW i \in 1..n, NEW j \in 1..a, r[i] = l[j] PROVE FALSE
    <3>1. j \in 1..Len(m) /\ a + i \in 1..Len(m) /\ a + i # j /\ m[a + i] = m[j]
      BY <1>1, <1>2, <1>3, <2>1
    <3> QED BY <1>8, <3>1 DEF Distinct
  <2> QED BY <1>3, <2>1, ToSetOf DEF a
<1>9. \A S : Picked(l \o r, S) = Picked(l, S) \o Picked(r, S)
  BY <1>3, PickedConcat
<1> QED BY <1>3, <1>7, <1>8, <1>9 DEF w

LEMMA BeginsConcat ==
    ASSUME NEW X, NEW l \in Seq(X), NEW r \in Seq(X)
    PROVE  l \o r \in Seq(X) /\ Begins(l, l \o r)
<1> DEFINE w == l \o r
<1>1. /\ w \in Seq(X) /\ Len(w) = Len(l) + Len(r)
      /\ \A i \in 1..Len(l) + Len(r) : w[i] = IF i <= Len(l) THEN l[i] ELSE r[i - Len(l)]
  BY ConcatProperties
<1>2. Len(l) \in Nat /\ Len(r) \in Nat
  BY SeqIs
<1> HIDE DEF w
<1>3. Begins(l, w)
  BY <1>1, <1>2 DEF Begins
<1> QED BY <1>1, <1>3 DEF w

LEMMA BeginsOn ==
    ASSUME NEW X, NEW l \in Seq(X), NEW m \in Seq(X), NEW n \in Seq(X),
           Begins(l, m), Begins(m, n)
    PROVE  Begins(l, n)
<1>1. Len(l) \in Nat /\ Len(m) \in Nat /\ Len(n) \in Nat
  BY SeqIs
<1> QED BY <1>1 DEF Begins

(* What a class c says of positions, against its only base b.               *)
KeptPositions(c, b) ==
    LET kept(seq) == Picked(seq, {f \in Name : ~Declares(c.body, f)}) IN
    /\ Picked(kept(Positional(c)), ToSet(b.fields)) = kept(Positional(b))
    /\ kept(b.fields) = b.fields => IsPrefix(Positional(b), Positional(c))

(* A class whose fields were collected after those of its base keeps their  *)
(* positions.                                                               *)
LEMMA PositionsSame ==
    ASSUME NEW c, NEW b, b.fields \in Seq(Name), Distinct(b.fields),
           b.nkwonly \in 0..Len(b.fields),
           NEW lk \in Seq(Name), Distinct(lk), Begins(b.fields, lk),
           NEW kw, Positional(c) = Picked(lk, Name \ kw),
           \A f \in ToSet(b.fields) : ~Declares(c.body, f) => (f \in kw <=> f \in KwOnly(b))
    PROVE  KeptPositions(c, b)
<1> DEFINE F == ToSet(b.fields)
           U == {f \in Name : ~Declares(c.body, f)}
           B == Name \ KwOnly(b)
           K == Name \ kw
<1>1. PICK r \in Seq(Name) : /\ \A S : Picked(lk, S) = Picked(b.fields, S) \o Picked(r, S)
                          /\ ToSet(r) \cap F = {}
  BY BeginsGoesOn
<1>2. F \subseteq Name
  BY ToSetOf
<1>3. Positional(b) = Picked(b.fields, B)
  BY PositionalPicked
<1>4. \A f \in F : f \in U => (f \in K <=> f \in B)
  BY <1>2
<1>5. Picked(Picked(Positional(c), U), F) = Picked(Positional(b), U)
  <2>1. Picked(lk, K) \in Seq(Name)
    BY PickedHas
  <2>2. Picked(Picked(Positional(c), U), F) = Picked(Picked(lk, K), U \cap F)
    BY <2>1, PickedTwice
  <2>3. Picked(Picked(lk, K), U \cap F) = Picked(lk, K \cap (U \cap F))
    BY PickedTwice
  <2> DEFINE T == K \cap (U \cap F)
  <2>4. Picked(lk, T) = Picked(b.fields, T) \o Picked(r, T)
    BY <1>1
  <2>5. Picked(r, T) = <<>>
    <3>1. ToSet(r) \cap T = {}
      BY <1>1
    <3> QED BY <3>1, PickedNone
  <2>6. Picked(b.fields, T) \o <<>> = Picked(b.fields, T)
    <3>1. Picked(b.fields, T) \in Seq(Name)
      BY PickedHas
    <3> QED BY <3>1, ConcatEmptySeq
  <2>7. Picked(b.fields, T) = Picked(b.fields, B \cap U)
    <3>1. \A x \in F : x \in T <=> x \in B \cap U
      BY <1>4
    <3> HIDE DEF T, B, U
    <3> QED BY <3>1, PickedAlike
  <2>8. Picked(Positional(b), U) = Picked(b.fields, B \cap U)
    BY <1>3, PickedTwice
  <2> HIDE DEF T
  <2> QED BY <2>2, <2>3, <2>4, <2>5, <2>6, <2>7, <2>8 DEF T
<1>6. ASSUME Picked(b.fields, U) = b.fields PROVE IsPrefix(Positional(b), Positional(c))
  <2>1. F \subseteq U
    <3>1. ToSet(Picked(b.fields, U)) = F \cap U
      BY PickedHas
    <3> QED BY <1>6, <3>1
  <2>2. Positional(c) = Picked(b.fields, K) \o Picked(r, K)
    BY <1>1
  <2>3. Picked(b.fields, K) = Picked(b.fields, B)
    <3>1. \A x \in F : x \in K <=> x \in B
      BY <1>4, <2>1
    <3> HIDE DEF K, B
    <3> QED BY <3>1, PickedAlike
  <2>4. Positional(b) \in Seq(Name) /\ Picked(r, K) \in Seq(Name)
    BY PositionalIs, PickedHas
  <2>5. Positional(c) = Positional(b) \o Picked(r, K)
    BY <1>3, <2>2, <2>3
  <2> HIDE DEF K
  <2> QED BY <2>4, <2>5, BeginsConcat, BeginsIs
<1> QED BY <1>5, <1>6 DEF KeptPositions

(* While the bases read are one and the same, its fields come first.        *)
ListsBase ==
    /\ \A i \in Read : (\A j \in Read : info.bases[j] = info.bases[i]) =>
                           Begins(Base(i).fields, info.defaults_lk)
    /\ Read = {} /\ info.at = "bases" => info.defaults_lk = <<>>

LEMMA ListsStay ==
    ASSUME ListsBase, Read' = Read, \A i : Base(i)' = Base(i), info'.bases = info.bases,
           info'.defaults_lk = info.defaults_lk, info'.at = "bases" => info.at = "bases"
    PROVE  ListsBase'
BY DEF ListsBase, Begins

LEMMA ListsFresh ==
    ASSUME ClassesTyped, Begin
    PROVE  ListsBase'
<1>1. PICK bases \in Menu[This].bases : info' = Fresh(bases)
  BY BeginDoes
<1>2. info'.defaults_lk = <<>>
  BY <1>1, FreshIs
<1>3. Read' = {}
  BY ReadFresh
<1> QED BY <1>2, <1>3 DEF ListsBase

LEMMA ListsRead ==
    ASSUME ClassesTyped, InProgress, ListsBase, CollectBase
    PROVE  ListsBase'
<1> PICK k : k = Len(info.rest)
  OBVIOUS
<1> PICK lk, new, c : /\ lk = info.defaults_lk /\ c = Base(k)
                      /\ new = Picked(c.fields, Name \ ToSet(lk))
  OBVIOUS
<1>1. /\ k \in BasesAt(info.bases) /\ Read' = Read \cup {k}
      /\ c = classes[Last(info.rest)]
      /\ \A i : Base(i)' = Base(i)
      /\ info'.bases = info.bases
  BY ReadBase
<1>2. info.at = "bases" /\ info'.defaults_lk = lk \o new
  BY <1>1, CollectBaseDoes DEF InProgress
<1>3. info.bases[k] \in 1..Len(classes) /\ ClassTyped(info.bases[k])
  BY <1>1, ReadAre DEF InProgress
<1>4. c.fields \in Seq(Name) /\ ToSet(c.fields) \subseteq Name
  BY <1>3, ToSetOf DEF ClassTyped, Base
<1>5. lk \in Seq(Name) /\ new \in Seq(Name)
  BY <1>4, PickedHas DEF InProgress, Collected
<1>6. lk \o new \in Seq(Name) /\ Begins(lk, lk \o new)
  BY <1>5, BeginsConcat
<1>7. ASSUME NEW i \in Read', \A j \in Read' : info.bases[j] = info.bases[i]
      PROVE  Begins(Base(i).fields, lk \o new)
  <2>1. Base(i) = c
    BY <1>1, <1>7 DEF Base
  <2>2. CASE Read = {}
    <3>1. lk = <<>>
      BY <1>2, <2>2 DEF ListsBase
    <3>2. new = c.fields
      <4>1. ToSet(lk) = {}
        BY <3>1 DEF ToSet
      <4>2. ToSet(c.fields) \subseteq Name \ ToSet(lk)
        BY <1>4, <4>1
      <4> QED BY <1>4, <4>2, PickedAll
    <3>3. lk \o new = c.fields
      BY <1>4, <3>1, <3>2, ConcatEmptySeq
    <3>4. Len(c.fields) \in Nat
      BY <1>4, SeqIs
    <3>5. Begins(c.fields, c.fields)
      BY <3>4 DEF Begins
    <3> QED BY <2>1, <3>3, <3>5
  <2>3. CASE Read # {}
    <3>1. PICK j \in Read : TRUE
      BY <2>3
    <3>2. Base(j) = c /\ \A l \in Read : info.bases[l] = info.bases[j]
      BY <1>1, <1>7, <2>1 DEF Base
    <3>3. Begins(c.fields, lk)
      BY <3>1, <3>2 DEF ListsBase
    <3> QED BY <1>4, <1>5, <1>6, <2>1, <3>3, BeginsOn
  <2> QED BY <2>2, <2>3
<1>8. Read' # {}
  BY <1>1
<1>9. ASSUME NEW i \in Read', \A j \in Read' : info'.bases[j] = info'.bases[i]
      PROVE  Begins(Base(i).fields, info.defaults_lk)'
  <2>1. Begins(Base(i).fields, lk \o new) /\ Base(i)' = Base(i)
    BY <1>1, <1>7, <1>9
  <2> QED BY <1>2, <2>1 DEF Begins
<1> QED BY <1>8, <1>9 DEF ListsBase

LEMMA ListsStep ==
    ASSUME ClassesTyped, InProgress, ListsBase, classes' = classes, info' # None, Advances
    PROVE  ListsBase'
<1>1. DOMAIN info = Parts
  BY DEF InProgress
<1>2. CASE CollectMixin
  <2>1. info'.defaults_lk = info.defaults_lk /\ info.at = "bases"
    BY <1>1, <1>2, CollectMixinDoes DEF Keeps, Parts
  <2> QED BY <1>2, <2>1, ReadMixin, ListsStay
<1>3. CASE CollectBase
  BY <1>3, ListsRead
<1>4. CASE CollectField
  <2>1. info.at = "fields" /\ \E item \in Menu[This].items : ReadsClassVar(item) \/ ReadsField(item)
    BY <1>1, <1>4, CollectFieldDoes
  <2>2. PICK item \in Menu[This].items : ReadsClassVar(item) \/ ReadsField(item)
    BY <2>1
  <2>3. item.name \in Name
    <3>1. This \in 1..Len(Menu)
      BY ThisInMenu DEF InProgress, Reading
    <3>2. \A j \in Menu[This].items : j.name \in Name
      BY <3>1, ConstantsOK
    <3> QED BY <3>2
  <2>4. /\ info'.bases = info.bases /\ info'.rest = info.rest /\ info'.at = "fields"
        /\ \/ info'.defaults_lk = info.defaults_lk
           \/ info'.defaults_lk = Append(info.defaults_lk, item.name)
    BY <2>1, <2>2 DEF ReadsClassVar, ReadsField, Keeps, Parts
  <2>5. info.defaults_lk \in Seq(Name)
    BY DEF InProgress, Collected
  <2>6. /\ Len(info.defaults_lk) \in Nat
        /\ Len(Append(info.defaults_lk, item.name)) = Len(info.defaults_lk) + 1
        /\ \A i \in 1..Len(info.defaults_lk) :
              Append(info.defaults_lk, item.name)[i] = info.defaults_lk[i]
    BY <2>3, <2>5, AppendIs, SeqIs
  <2>7. \A i \in Read : Begins(Base(i).fields, info.defaults_lk) =>
                            Begins(Base(i).fields, info'.defaults_lk)
    <3>1. \A i \in Read : Len(Base(i).fields) \in Nat
      BY ReadAre, SeqIs DEF InProgress, ClassTyped, Base
    <3> QED BY <2>4, <2>6, <3>1 DEF Begins
  <2>8. Read' = Read /\ \A i : Base(i)' = Base(i)
    BY <2>4, ReadKept
  <2> QED BY <2>4, <2>7, <2>8 DEF ListsBase, Begins
<1>5. CASE ApplySpec \/ ConstructFields \/ CollectCodecs \/ ConstructAliasFields \/ TypeNew
  <2>1. /\ info'.defaults_lk = info.defaults_lk /\ info'.at # "bases"
        /\ info'.bases = info.bases /\ info'.rest = info.rest
    BY <1>1, <1>5, ApplySpecDoes, ConstructFieldsDoes, CollectCodecsDoes,
       ConstructAliasFieldsDoes, TypeNewDoes DEF Keeps, Parts
  <2> QED BY <2>1, ReadKept, ListsStay
<1> QED BY <1>2, <1>3, <1>4, <1>5 DEF Advances

ClassPositions(n) ==
    \A b \in StructBases(classes[n].bases) :
        StructBases(classes[n].bases) = {b} => KeptPositions(classes[n], classes[b])

Positioning ==
    /\ \A n \in 1..Len(classes) : ClassPositions(n)
    /\ info # None => ListsBase

(* The bases as positions of the statement, and as classes.                 *)
LEMMA BasesAre ==
    ASSUME NEW bases
    PROVE  StructBases(bases) = {bases[i] : i \in BasesAt(bases)}
BY DEF StructBases, BasesAt, ToSet

LEMMA ClassPositionsKept ==
    ASSUME NEW n, classes'[n] = classes[n], ClassPositions(n),
           \A i \in BasesAt(classes[n].bases) :
               classes'[classes[n].bases[i]] = classes[classes[n].bases[i]]
    PROVE  ClassPositions(n)'
<1>1. PICK c : c = classes[n]
  OBVIOUS
<1>2. PICK bases : bases = c.bases
  OBVIOUS
<1>3. \A b \in StructBases(bases) : classes'[b] = classes[b]
  BY <1>1, <1>2, BasesAre
<1>4. \A b \in StructBases(bases) : StructBases(bases) = {b} => KeptPositions(c, classes[b])
  BY <1>1, <1>2 DEF ClassPositions
<1>5. \A b \in StructBases(bases) : StructBases(bases) = {b} => KeptPositions(c, classes'[b])
  BY <1>3, <1>4
<1> QED BY <1>1, <1>2, <1>5 DEF ClassPositions

(* The class that Finish makes.                                             *)
LEMMA FinishedPositions ==
    ASSUME Typed, Fitting, InProgress, Makes, FromBases, ListsBase,
           NEW n, StructBases(info.bases) = {n}
    PROVE  KeptPositions(Finished, classes[n])
<1> PICK c : c = Finished
  OBVIOUS
<1> PICK b : b = classes[n]
  OBVIOUS
<1> PICK lk, kw : lk = info.defaults_lk /\ kw = info.kwonly
  OBVIOUS
<1>1. /\ c.fields = info.fields /\ c.defaults = info.defaults /\ c.nkwonly = info.nkwonly
      /\ c.n_trailing_defaults = info.n_trailing_defaults
      /\ c.body = info.body
  BY DEF Finished
<1>2. info.rest = <<>> /\ info.fields = Ordered
  BY DEF Makes, InProgress, Reading, Arranged, Constructed
<1>3. /\ info.fields \in Seq(Name) /\ Distinct(info.fields)
      /\ ToSet(info.fields) = ToSet(lk) /\ lk \in Seq(Name) /\ Distinct(lk)
      /\ kw \subseteq ToSet(lk) /\ ToSet(lk) \subseteq Name
  BY <1>2, OrderedHas, ToSetOf DEF InProgress, Collected
<1>4. /\ Read = BasesAt(info.bases)
      /\ \A i \in Read : info.bases[i] \in 1..Len(classes) /\ ClassTyped(info.bases[i])
  BY <1>2, ReadAre DEF Typed, InProgress
<1>5. /\ \E i \in Read : info.bases[i] = n
      /\ \A i \in Read : info.bases[i] = n /\ Base(i) = b
  <2>1. {n} = {info.bases[i] : i \in BasesAt(info.bases)}
    BY BasesAre
  <2> QED BY <1>4, <2>1 DEF Base
<1>6. n \in 1..Len(classes) /\ ClassTyped(n) /\ Fits(b)
  BY <1>4, <1>5 DEF Fitting
<1>7. /\ b.fields \in Seq(Name) /\ Distinct(b.fields) /\ b.nkwonly \in 0..Len(b.fields)
  BY <1>6 DEF ClassTyped, Fits
<1>8. Begins(b.fields, lk)
  BY <1>5 DEF ListsBase
<1>9. /\ KnowsFields /\ Fits(info)
      /\ KwOnly(c) = KwOnly(info) /\ Positional(c) = Positional(info)
  BY <1>1, SameFields DEF Fitting, Makes, Constructed
<1>10. Positional(c) = Picked(lk, Name \ kw)
  <2>1. info.nkwonly \in 0..Len(info.fields)
    BY <1>9 DEF Fits
  <2>2. Positional(info) = Picked(info.fields, Name \ KwOnly(info))
    BY <1>3, <2>1, PositionalPicked
  <2>3. \A f \in ToSet(info.fields) : f \in Name \ KwOnly(info) <=> f \in Name \ kw
    BY <1>9 DEF KnowsFields
  <2>4. Picked(info.fields, Name \ KwOnly(info)) = Picked(info.fields, Name \ kw)
    BY <1>3, <2>3, PickedAlike
  <2> DEFINE K == Name \ kw
             a == Picked(lk, K)
             d == Picked(lk, kw)
  <2>5. info.fields = a \o d /\ a \in Seq(Name) /\ d \in Seq(Name)
        /\ ToSet(a) = ToSet(lk) \cap K /\ ToSet(d) = ToSet(lk) \cap kw
    BY <1>2, <1>3, PickedHas DEF Ordered
  <2>6. Picked(a, K) = a /\ Picked(d, K) = <<>>
    <3>1. ToSet(a) \subseteq K /\ ToSet(d) \cap K = {}
      BY <2>5
    <3> HIDE DEF a, d, K
    <3> QED BY <2>5, <3>1, PickedAll, PickedNone
  <2> HIDE DEF a, d, K
  <2>7. Picked(a \o d, K) = a
    <3>1. Picked(a \o d, K) = Picked(a, K) \o Picked(d, K)
      BY <2>5, PickedConcat
    <3> QED BY <2>5, <2>6, <3>1, ConcatEmptySeq
  <2> QED BY <1>9, <2>2, <2>4, <2>5, <2>7 DEF a, K
<1>11. ASSUME NEW f \in ToSet(b.fields), ~Declares(c.body, f)
       PROVE  f \in kw <=> f \in KwOnly(b)
  <2>1. ~Declared(f)
    BY <1>1, <1>11 DEF Declared, Declares
  <2>2. f \in Name /\ f \in ToSet(lk)
    <3>1. f \in Name /\ \E i \in 1..Len(b.fields) : b.fields[i] = f
      BY <1>7, ToSetOf
    <3>2. \E i \in 1..Len(lk) : lk[i] = f
      <4>1. Len(b.fields) \in Nat /\ Len(lk) \in Nat
        BY <1>3, <1>7, SeqIs
      <4> QED BY <1>8, <3>1, <4>1 DEF Begins
    <3> QED BY <1>3, <3>1, <3>2, ToSetOf
  <2>3. \E i \in Read : f \in kw <=> f \in KwOnly(Base(i))
    BY <2>1, <2>2 DEF FromBases
  <2> QED BY <1>5, <2>3
<1>12. KeptPositions(c, b)
  BY <1>3, <1>7, <1>8, <1>10, <1>11, PositionsSame
<1> QED BY <1>12

LEMMA PositioningInit == Init => Positioning
<1> SUFFICES ASSUME Init PROVE Positioning
  OBVIOUS
<1>1. Len(classes) = 0 /\ info = None
  BY EmptySeq DEF Init
<1> QED BY <1>1 DEF Positioning

LEMMA PositioningStep ==
    Typed /\ Fitting /\ Coming /\ Positioning /\ [Next]_vars => Positioning'
<1> SUFFICES ASSUME Typed, Fitting, Coming, Positioning, [Next]_vars PROVE Positioning'
  OBVIOUS
<1>1. classes' = classes => \A n \in 1..Len(classes') : ClassPositions(n)'
  <2> HAVE classes' = classes
  <2> TAKE n \in 1..Len(classes')
  <2> QED BY ClassPositionsKept DEF Positioning
<1>2. CASE classes' = classes /\ info' = None
  BY <1>1, <1>2 DEF Positioning
<1>3. CASE classes' = classes /\ info' = info
  <2>1. ListsBase => ListsBase'
    BY <1>3, ReadKept, ListsStay
  <2> QED BY <1>1, <1>3, <2>1 DEF Positioning
<1>4. CASE classes' = classes /\ Begin
  BY <1>1, <1>4, ListsFresh DEF Positioning, Typed
<1>5. CASE InProgress /\ classes' = classes /\ info' # None /\ Advances
  <2>1. info # None
    BY <1>5, NoneIs DEF InProgress, Stages
  <2>2. ListsBase'
    BY <1>5, <2>1, ListsStep DEF Positioning, Typed
  <2> QED BY <1>1, <1>5, <2>2 DEF Positioning
<1>6. CASE InProgress /\ Makes
  <2>1. info # None /\ info' = None /\ info.at = "tag"
    BY <1>6, NoneIs DEF InProgress, Stages, Makes
  <2>2. FromBases /\ ListsBase
    BY <2>1 DEF Coming, Positioning
  <2>3. \A n \in 1..Len(classes') : n \in 1..Len(classes) \/ n = This
    BY <1>6, ClassesListed DEF Makes, This, Typed
  <2>4. \A n \in 1..Len(classes) : ClassPositions(n)'
    BY <1>6, BasesStay, ClassPositionsKept DEF Positioning
  <2>5. ASSUME NEW n, n = This PROVE ClassPositions(n)'
    <3>1. PICK c, bases : c = Finished /\ bases = info.bases
      OBVIOUS
    <3>2. classes'[n] = c /\ c.bases = bases
      BY <1>6, <2>5, <3>1 DEF Makes, Finished
    <3>3. \A b \in StructBases(bases) : classes'[b] = classes[b]
      <4>1. info.rest = <<>>
        BY <1>6, <2>1 DEF InProgress, Reading
      <4>2. \A i \in BasesAt(bases) : bases[i] \in 1..Len(classes)
        BY <1>6, <3>1, <4>1, ReadAre DEF Typed, InProgress
      <4> QED BY <1>6, <4>2, BasesAre DEF Makes
    <3>4. \A b : StructBases(bases) = {b} => KeptPositions(c, classes[b])
      BY <1>6, <2>2, <3>1, FinishedPositions
    <3>5. \A b \in StructBases(bases) :
             StructBases(bases) = {b} => KeptPositions(c, classes'[b])
      BY <3>3, <3>4
    <3> QED BY <3>2, <3>5 DEF ClassPositions
  <2> QED BY <2>1, <2>3, <2>4, <2>5 DEF Positioning
<1> QED BY <1>2, <1>3, <1>4, <1>5, <1>6, Steps

(* A subclass of one Struct class takes the positional arguments its base   *)
(* takes, in the same order, but for the fields that it redeclares.         *)
THEOREM PositionsInherited == Spec => []PositionsKept
<1>1. Typed /\ Positioning => PositionsKept
  <2> SUFFICES ASSUME Typed, Positioning PROVE PositionsKept
    OBVIOUS
  <2>1. DOMAIN classes = 1..Len(classes)
    BY ClassesListed DEF Typed
  <2> QED BY <2>1, Zenon DEF Positioning, ClassPositions, KeptPositions, PositionsKept
<1> QED BY <1>1, TypedAlways, FittingInit, FittingStep, ComingInit, ComingStep,
           PositioningInit, PositioningStep, PTL DEF Spec
===============================================================================
