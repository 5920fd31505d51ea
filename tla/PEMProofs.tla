------------------------------ MODULE PEMProofs ------------------------------
(***************************************************************************)
(* What the functions on PEM texts preserve, for every set of certificates *)
(* and keys and for texts of any length: no lemma here is about a          *)
(* controller.  A selection keeps order, plainness and distinctness;       *)
(* NormalizePEM, CompleteChain and SplitLeafAndChain lose no certificate;  *)
(* a signing path stays one when repetitions are dropped and when a root   *)
(* is appended.                                                            *)
(***************************************************************************)
EXTENDS PEM, FiniteSetTheorems, FunctionTheorems, NaturalsInduction,
        SequenceTheorems, TLAPS

----------------------------------------------------------------------------
(* Selections. *)

Rank(I, i) == Cardinality({j \in I : j <= i})

(* The rank of an element is its number in the order of the set.           *)
LEMMA RankIsBijection ==
    ASSUME NEW I \in SUBSET Nat, IsFiniteSet(I)
    PROVE  /\ Cardinality(I) \in Nat
           /\ \A i \in I : Rank(I, i) \in 1 .. Cardinality(I)
           /\ \A i, j \in I : i < j => Rank(I, i) < Rank(I, j)
           /\ \A k \in 1 .. Cardinality(I) : \E i \in I : Rank(I, i) = k
<1> DEFINE n == Cardinality(I)
           Upto(i) == {j \in I : j <= i}
<1>1. n \in Nat
  BY FS_CardinalityType
<1>2. \A i \in I : IsFiniteSet(Upto(i)) /\ Cardinality(Upto(i)) \in 1 .. n
  <2> TAKE i \in I
  <2>1. Upto(i) \in SUBSET I
    OBVIOUS
  <2>2. IsFiniteSet(Upto(i)) /\ Cardinality(Upto(i)) <= n
    BY <2>1, FS_Subset
  <2>3. Cardinality(Upto(i)) \in Nat
    BY <2>2, FS_CardinalityType
  <2>4. i \in Upto(i)
    OBVIOUS
  <2>5. Cardinality(Upto(i)) # 0
    BY <2>2, <2>4, FS_EmptySet
  <2>6. QED
    BY <1>1, <2>2, <2>3, <2>5
<1>3. \A i, j \in I : i < j => Rank(I, i) < Rank(I, j)
  <2> SUFFICES ASSUME NEW i \in I, NEW j \in I, i < j
               PROVE  Rank(I, i) < Rank(I, j)
    OBVIOUS
  <2>1. Upto(i) \subseteq Upto(j) /\ j \in Upto(j) /\ j \notin Upto(i)
    <3>1. \A x \in I : x \in Nat
      OBVIOUS
    <3>2. \A x \in I : x <= i => x <= j
      BY <3>1
    <3>3. Upto(i) \subseteq Upto(j)
      BY <3>2
    <3>4. i \in Nat /\ j \in Nat
      BY <3>1
    <3>5. j <= j /\ ~(j <= i)
      BY <3>4
    <3>6. j \in Upto(j) /\ j \notin Upto(i)
      BY <3>5
    <3>7. QED
      BY <3>3, <3>6
  <2>2. /\ Cardinality(Upto(i)) <= Cardinality(Upto(j))
        /\ Cardinality(Upto(i)) # Cardinality(Upto(j))
    <3>1. IsFiniteSet(Upto(j))
      BY <1>2
    <3> HIDE DEF Upto
    <3>2. QED
      BY <2>1, <3>1, FS_Subset
  <2>3. Cardinality(Upto(i)) \in Nat /\ Cardinality(Upto(j)) \in Nat
    BY <1>1, <1>2
  <2>4. QED
    BY <2>2, <2>3 DEF Rank
<1>4. \A i \in I : Rank(I, i) \in 1 .. n
  BY <1>2 DEF Rank
<1> DEFINE rank == [i \in I |-> Rank(I, i)]
<1>5. rank \in Injection(I, 1 .. n)
  <2>1. rank \in [I -> 1 .. n]
    BY <1>4
  <2>2. \A i, j \in I : rank[i] = rank[j] => i = j
    <3> SUFFICES ASSUME NEW i \in I, NEW j \in I, Rank(I, i) = Rank(I, j), i # j
                 PROVE  FALSE
      OBVIOUS
    <3>1. i < j \/ j < i
      OBVIOUS
    <3>2. Rank(I, i) \in Nat /\ Rank(I, j) \in Nat
      BY <1>1, <1>4
    <3>3. QED
      BY <1>3, <3>1, <3>2
  <2> HIDE DEF rank
  <2>3. QED
    BY <2>1, <2>2, Fun_IsInj
<1>6. rank \in Surjection(I, 1 .. n)
  <2>1. IsFiniteSet(1 .. n) /\ Cardinality(1 .. n) = n
    BY <1>1, FS_Interval
  <2> HIDE DEF rank
  <2>2. QED
    BY <1>5, <2>1, FS_Injection
<1>7. \A k \in 1 .. n : \E i \in I : Rank(I, i) = k
  <2>1. \A k \in 1 .. n : \E i \in I : rank[i] = k
    <3> HIDE DEF rank, n
    <3>1. QED
      BY <1>6, Fun_SurjectionProperties
  <2>2. QED
    BY <2>1
<1>8. QED
  BY <1>1, <1>3, <1>4, <1>7

(* Ascending lists the numbers of a set, each once and in ascending order. *)
LEMMA AscendingLists ==
    ASSUME NEW I \in SUBSET Nat, IsFiniteSet(I)
    PROVE  /\ Cardinality(I) \in Nat
           /\ Ascending(I) \in [1 .. Cardinality(I) -> I]
           /\ \A k, l \in 1 .. Cardinality(I) : k < l => Ascending(I)[k] < Ascending(I)[l]
           /\ \A i \in I : \E k \in 1 .. Cardinality(I) : Ascending(I)[k] = i
<1> DEFINE n == Cardinality(I)
           At(k) == CHOOSE i \in I : Rank(I, i) = k
<1>1. Ascending(I) = [k \in 1 .. n |-> At(k)]
  BY DEF Ascending, Rank
<1>2. \A k \in 1 .. n : At(k) \in I /\ Rank(I, At(k)) = k
  BY RankIsBijection
<1>3. \A i \in I : \E k \in 1 .. n : At(k) = i
  <2> SUFFICES ASSUME NEW i \in I PROVE At(Rank(I, i)) = i /\ Rank(I, i) \in 1 .. n
    OBVIOUS
  <2>1. Rank(I, i) \in 1 .. n
    BY RankIsBijection
  <2> DEFINE j == At(Rank(I, i))
  <2>2. j \in I /\ Rank(I, j) = Rank(I, i)
    BY <1>2, <2>1
  <2> HIDE DEF j
  <2>3. ~(i < j) /\ ~(j < i)
    <3>1. n \in Nat
      BY RankIsBijection
    <3>2. QED
      BY <2>1, <2>2, <3>1, RankIsBijection
  <2>4. j = i
    BY <2>2, <2>3
  <2>5. QED
    BY <2>1, <2>4 DEF j
<1>4. \A k, l \in 1 .. n : k < l => At(k) < At(l)
  <2> SUFFICES ASSUME NEW k \in 1 .. n, NEW l \in 1 .. n, k < l
               PROVE  At(k) < At(l)
    OBVIOUS
  <2> DEFINE i == At(k)
             j == At(l)
  <2>1. i \in I /\ j \in I /\ Rank(I, i) = k /\ Rank(I, j) = l
    BY <1>2
  <2> HIDE DEF i, j, At, n
  <2>2. ~(j < i) /\ i # j
    BY <2>1, RankIsBijection DEF n
  <2>3. i < j
    BY <2>1, <2>2
  <2>4. QED
    BY <2>3 DEF i, j
<1>5. n \in Nat
  BY RankIsBijection
<1> HIDE DEF At, n
<1>6. /\ Ascending(I) \in [1 .. n -> I]
      /\ \A k, l \in 1 .. n : k < l => Ascending(I)[k] < Ascending(I)[l]
      /\ \A i \in I : \E k \in 1 .. n : Ascending(I)[k] = i
  BY <1>1, <1>2, <1>3, <1>4
<1>7. QED
  BY <1>5, <1>6 DEF n

\* at lists the numbers in I, in ascending order.
Lists(at, n, I) ==
    /\ n \in Nat
    /\ at \in [1 .. n -> I]
    /\ \A k, l \in 1 .. n : k < l => at[k] < at[l]
    /\ \A i \in I : \E k \in 1 .. n : at[k] = i

(* The k-th number in such a list has rank k.                              *)
LEMMA ListedByRank ==
    ASSUME NEW I \in SUBSET Nat, NEW n, NEW at, Lists(at, n, I)
    PROVE  /\ IsFiniteSet(I) /\ Cardinality(I) = n
           /\ \A k \in 1 .. n : Rank(I, at[k]) = k
<1>1. n \in Nat /\ at \in [1 .. n -> I] /\ \A k \in 1 .. n : at[k] \in I /\ at[k] \in Nat
  BY DEF Lists
<1>2. \A k, l \in 1 .. n : at[k] = at[l] => k = l
  <2> SUFFICES ASSUME NEW k \in 1 .. n, NEW l \in 1 .. n, at[k] = at[l], k # l
               PROVE  FALSE
    OBVIOUS
  <2>1. k < l \/ l < k
    BY <1>1
  <2>2. at[k] < at[l] \/ at[l] < at[k]
    BY <2>1 DEF Lists
  <2>3. QED
    BY <1>1, <2>2
<1>3. at \in Bijection(1 .. n, I)
  <2>1. \A i \in I : \E k \in 1 .. n : at[k] = i
    BY DEF Lists
  <2>2. QED
    BY <1>1, <1>2, <2>1, Fun_IsBij
<1>4. IsFiniteSet(I) /\ Cardinality(I) = n
  <2>1. IsFiniteSet(1 .. n) /\ Cardinality(1 .. n) = n
    BY <1>1, FS_Interval
  <2>2. ExistsBijection(1 .. n, I)
    BY <1>3 DEF ExistsBijection
  <2>3. QED
    BY <2>1, <2>2, FS_Bijection
<1>5. ASSUME NEW k \in 1 .. n PROVE Rank(I, at[k]) = k
  <2> DEFINE T == {j \in I : j <= at[k]}
             g == [l \in 1 .. k |-> at[l]]
  <2>1. k \in Nat /\ 1 .. k \subseteq 1 .. n
    BY <1>1
  <2>2. g \in [1 .. k -> T]
    <3> SUFFICES ASSUME NEW l \in 1 .. k PROVE at[l] \in I /\ at[l] <= at[k]
      OBVIOUS
    <3>1. l \in 1 .. n /\ (l < k \/ l = k)
      BY <2>1
    <3>2. l < k => at[l] < at[k]
      BY <3>1 DEF Lists
    <3>3. QED
      BY <1>1, <3>1, <3>2
  <2>3. \A a, b \in 1 .. k : g[a] = g[b] => a = b
    BY <1>2, <2>1
  <2>4. \A j \in T : \E l \in 1 .. k : g[l] = j
    <3> SUFFICES ASSUME NEW j \in I, j <= at[k]
                 PROVE  \E l \in 1 .. k : at[l] = j
      OBVIOUS
    <3>1. PICK l \in 1 .. n : at[l] = j
      BY DEF Lists
    <3>2. k < l => at[k] < at[l]
      BY DEF Lists
    <3>3. ~(k < l)
      BY <1>1, <3>1, <3>2
    <3>4. l \in 1 .. k
      BY <2>1, <3>3
    <3>5. QED
      BY <3>1, <3>4
  <2> HIDE DEF T, g
  <2>5. g \in Bijection(1 .. k, T)
    BY <2>2, <2>3, <2>4, Fun_IsBij
  <2>6. IsFiniteSet(1 .. k) /\ Cardinality(1 .. k) = k
    BY <2>1, FS_Interval
  <2>7. Cardinality(T) = k
    BY <2>5, <2>6, FS_Bijection DEF ExistsBijection
  <2>8. QED
    BY <2>7 DEF T, Rank
<1>6. QED
  BY <1>4, <1>5

(* There is one such list.                                                 *)
LEMMA ListedOnce ==
    ASSUME NEW I \in SUBSET Nat, NEW n, NEW at, Lists(at, n, I)
    PROVE  /\ IsFiniteSet(I) /\ Cardinality(I) = n /\ n \in Nat
           /\ \A k \in 1 .. n : at[k] \in I /\ Ascending(I)[k] = at[k]
<1>1. IsFiniteSet(I) /\ Cardinality(I) = n /\ n \in Nat
  BY ListedByRank DEF Lists
<1>2. Lists(Ascending(I), n, I)
  BY <1>1, AscendingLists DEF Lists
<1>3. ASSUME NEW k \in 1 .. n PROVE at[k] \in I /\ Ascending(I)[k] = at[k]
  <2> DEFINE i == at[k]
             j == Ascending(I)[k]
  <2>1. i \in I /\ j \in I
    BY <1>2 DEF Lists
  <2>2. Rank(I, i) = k /\ Rank(I, j) = k
    BY <1>2, ListedByRank
  <2> HIDE DEF i, j
  <2>3. ~(i < j) /\ ~(j < i)
    BY <1>1, <2>1, <2>2, RankIsBijection
  <2>4. i = j
    BY <2>1, <2>3
  <2>5. QED
    BY <2>1, <2>4 DEF i, j
<1>4. QED
  BY <1>1, <1>3

(* What Pick returns.                                                      *)
LEMMA PickFacts ==
    ASSUME NEW S, NEW s \in Seq(S), NEW I \in SUBSET (DOMAIN s)
    PROVE  /\ Lists(Ascending(I), Cardinality(I), I)
           /\ Pick(s, I) \in Seq(S)
           /\ Len(Pick(s, I)) = Cardinality(I)
           /\ \A k \in 1 .. Cardinality(I) : Pick(s, I)[k] = s[Ascending(I)[k]]
<1>1. DOMAIN s = 1 .. Len(s) /\ Len(s) \in Nat
  OBVIOUS
<1>2. IsFiniteSet(1 .. Len(s))
  BY <1>1, FS_Interval
<1>3. I \in SUBSET Nat /\ IsFiniteSet(I)
  <2>1. I \in SUBSET (1 .. Len(s))
    BY <1>1
  <2>2. IsFiniteSet(I)
    BY <1>2, <2>1, FS_Subset
  <2>3. QED
    BY <1>1, <2>1, <2>2
<1>4. Lists(Ascending(I), Cardinality(I), I)
  BY <1>3, AscendingLists DEF Lists
<1>5. Pick(s, I) = [k \in 1 .. Cardinality(I) |-> s[Ascending(I)[k]]]
  BY DEF Pick
<1>6. \A k \in 1 .. Cardinality(I) : s[Ascending(I)[k]] \in S
  BY <1>1, <1>4 DEF Lists
<1>7. Cardinality(I) \in Nat
  BY <1>4 DEF Lists
<1>8. QED
  BY <1>4, <1>5, <1>6, <1>7

(* Whoever knows an ascending list of the positions knows what is picked.  *)
LEMMA PickByList ==
    ASSUME NEW S, NEW s \in Seq(S), NEW I \in SUBSET (DOMAIN s),
           NEW n, NEW at, Lists(at, n, I)
    PROVE  /\ Pick(s, I) \in Seq(S)
           /\ Len(Pick(s, I)) = n
           /\ \A k \in 1 .. n : Pick(s, I)[k] = s[at[k]]
<1>1. I \in SUBSET Nat
  OBVIOUS
<1>2. Cardinality(I) = n /\ \A k \in 1 .. n : Ascending(I)[k] = at[k]
  BY <1>1, ListedOnce
<1>3. QED
  BY <1>2, PickFacts

LEMMA PickEmpty ==
    ASSUME NEW S, NEW s \in Seq(S), NEW I \in SUBSET (DOMAIN s)
    PROVE  Pick(s, I) = <<>> <=> I = {}
<1>1. I = {} => Cardinality(I) = 0
  BY FS_EmptySet
<1>2. I # {} => Cardinality(I) # 0
  BY PickFacts DEF Lists
<1>3. QED
  BY <1>1, <1>2, PickFacts

(* The elements that are picked.                                           *)
LEMMA PickRange ==
    ASSUME NEW S, NEW s \in Seq(S), NEW I \in SUBSET (DOMAIN s)
    PROVE  /\ \A k \in DOMAIN Pick(s, I) : \E i \in I : Pick(s, I)[k] = s[i]
           /\ \A i \in I : \E k \in DOMAIN Pick(s, I) : Pick(s, I)[k] = s[i]
<1> DEFINE at == Ascending(I)
           n == Cardinality(I)
<1>1. /\ \A k \in 1 .. n : at[k] \in I
      /\ \A i \in I : \E k \in 1 .. n : at[k] = i
  BY PickFacts DEF Lists
<1>2. DOMAIN Pick(s, I) = 1 .. n /\ \A k \in 1 .. n : Pick(s, I)[k] = s[at[k]]
  BY PickFacts
<1> HIDE DEF at, n
<1>3. QED
  BY <1>1, <1>2

LEMMA PickPrefix ==
    ASSUME NEW S, NEW s \in Seq(S), NEW m \in 0 .. Len(s)
    PROVE  Pick(s, 1 .. m) = SubSeq(s, 1, m)
<1> DEFINE at == [k \in 1 .. m |-> k]
<1>1. m \in Nat /\ 1 .. m \in SUBSET (DOMAIN s)
  OBVIOUS
<1>2. Lists(at, m, 1 .. m)
  BY <1>1 DEF Lists
<1>3. /\ Pick(s, 1 .. m) \in Seq(S) /\ Len(Pick(s, 1 .. m)) = m
      /\ \A k \in 1 .. m : Pick(s, 1 .. m)[k] = s[k]
  BY <1>1, <1>2, PickByList
<1>4. /\ SubSeq(s, 1, m) \in Seq(S) /\ Len(SubSeq(s, 1, m)) = m
      /\ \A k \in 1 .. m : SubSeq(s, 1, m)[k] = s[k]
  BY SubSeqProperties
<1>5. QED
  BY <1>3, <1>4, SeqEqual

LEMMA PickAll ==
    ASSUME NEW S, NEW s \in Seq(S)
    PROVE  Pick(s, DOMAIN s) = s
BY PickPrefix, SubSeqFull

(* The first position comes first, and the tail is picked from the tail.   *)
LEMMA PickFirst ==
    ASSUME NEW S, NEW s \in Seq(S), NEW I \in SUBSET (DOMAIN s), 1 \in I
    PROVE  /\ Pick(s, I) # <<>> /\ Pick(s, I)[1] = s[1]
           /\ s # <<>>
           /\ {i \in DOMAIN Tail(s) : i + 1 \in I} \in SUBSET (DOMAIN Tail(s))
           /\ Tail(Pick(s, I)) = Pick(Tail(s), {i \in DOMAIN Tail(s) : i + 1 \in I})
<1> DEFINE n == Cardinality(I)
           at == Ascending(I)
           p == Pick(s, I)
           J == {i \in DOMAIN Tail(s) : i + 1 \in I}
<1>1. Lists(at, n, I) /\ p \in Seq(S) /\ Len(p) = n /\ \A k \in 1 .. n : p[k] = s[at[k]]
  BY PickFacts
<1>2. n \in Nat /\ \A k \in 1 .. n : at[k] \in I /\ at[k] \in 1 .. Len(s)
  BY <1>1 DEF Lists
<1> HIDE DEF n, at, p
<1>3. n >= 1 /\ at[1] = 1
  <2>1. PICK k \in 1 .. n : at[k] = 1
    BY <1>1 DEF Lists
  <2>2. 1 < k => at[1] < at[k]
    BY <1>2, <2>1, <1>1 DEF Lists
  <2>3. n >= 1 /\ 1 \in 1 .. n
    BY <1>2, <2>1
  <2>4. ~(1 < k)
    BY <1>2, <2>1, <2>2, <2>3
  <2>5. QED
    BY <1>2, <2>1, <2>3, <2>4
<1>4. s # <<>> /\ p # <<>> /\ p[1] = s[1]
  BY <1>1, <1>2, <1>3
<1>5. /\ Tail(s) \in Seq(S) /\ Len(Tail(s)) = Len(s) - 1
      /\ \A i \in 1 .. Len(Tail(s)) : Tail(s)[i] = s[i + 1]
  BY <1>4, HeadTailProperties
<1>6. J \in SUBSET (DOMAIN Tail(s))
  OBVIOUS
<1> DEFINE bt == [k \in 1 .. n - 1 |-> at[k + 1] - 1]
<1>7. Lists(bt, n - 1, J)
  <2>1. n - 1 \in Nat
    BY <1>2, <1>3
  <2>2. \A k \in 1 .. n - 1 : /\ k + 1 \in 1 .. n /\ at[k + 1] \in I
                              /\ at[k + 1] > 1 /\ at[k + 1] \in 1 .. Len(s)
    <3> SUFFICES ASSUME NEW k \in 1 .. n - 1
                 PROVE  /\ k + 1 \in 1 .. n /\ at[k + 1] \in I
                        /\ at[k + 1] > 1 /\ at[k + 1] \in 1 .. Len(s)
      OBVIOUS
    <3>1. k + 1 \in 1 .. n /\ 1 \in 1 .. n /\ 1 < k + 1
      BY <1>2, <1>3
    <3>2. at[1] < at[k + 1]
      BY <3>1, <1>1 DEF Lists
    <3>3. QED
      BY <1>2, <1>3, <3>1, <3>2
  <2>3. DOMAIN Tail(s) = 1 .. Len(s) - 1
    BY <1>5
  <2>4. \A k \in 1 .. n - 1 : at[k + 1] - 1 \in J
    <3> SUFFICES ASSUME NEW k \in 1 .. n - 1
                 PROVE  at[k + 1] - 1 \in DOMAIN Tail(s) /\ (at[k + 1] - 1) + 1 \in I
      OBVIOUS
    <3>1. at[k + 1] \in I /\ at[k + 1] > 1 /\ at[k + 1] \in 1 .. Len(s)
      BY <2>2
    <3>2. QED
      BY <2>3, <3>1
  <2>5. \A k, l \in 1 .. n - 1 : k < l => bt[k] < bt[l]
    <3> SUFFICES ASSUME NEW k \in 1 .. n - 1, NEW l \in 1 .. n - 1, k < l
                 PROVE  at[k + 1] - 1 < at[l + 1] - 1
      OBVIOUS
    <3>1. k + 1 \in 1 .. n /\ l + 1 \in 1 .. n /\ k + 1 < l + 1
      BY <1>2
    <3>2. at[k + 1] < at[l + 1]
      BY <3>1, <1>1 DEF Lists
    <3>3. QED
      BY <1>2, <3>1, <3>2
  <2>6. \A i \in J : \E k \in 1 .. n - 1 : bt[k] = i
    <3> SUFFICES ASSUME NEW i \in DOMAIN Tail(s), i + 1 \in I
                 PROVE  \E k \in 1 .. n - 1 : bt[k] = i
      OBVIOUS
    <3>1. i \in 1 .. Len(s) - 1
      BY <2>3
    <3>2. PICK l \in 1 .. n : at[l] = i + 1
      BY <1>1 DEF Lists
    <3>3. l # 1
      BY <1>3, <3>1, <3>2
    <3>4. l - 1 \in 1 .. n - 1 /\ bt[l - 1] = i
      BY <1>2, <3>1, <3>2, <3>3
    <3>5. QED
      BY <3>4
  <2>7. bt \in [1 .. n - 1 -> J]
    BY <2>4
  <2>8. \A k, l \in 1 .. n - 1 : k < l => bt[k] < bt[l]
    BY <2>5
  <2> HIDE DEF bt, J
  <2>9. QED
    BY <2>1, <2>6, <2>7, <2>8 DEF Lists
<1>8. /\ Pick(Tail(s), J) \in Seq(S) /\ Len(Pick(Tail(s), J)) = n - 1
      /\ \A k \in 1 .. n - 1 : Pick(Tail(s), J)[k] = Tail(s)[bt[k]]
  <2> DEFINE u == Tail(s)
             m == n - 1
  <2>1. u \in Seq(S) /\ J \in SUBSET (DOMAIN u) /\ Lists(bt, m, J)
    BY <1>5, <1>6, <1>7
  <2> HIDE DEF bt, J, u, m
  <2>2. /\ Pick(u, J) \in Seq(S) /\ Len(Pick(u, J)) = m
        /\ \A k \in 1 .. m : Pick(u, J)[k] = u[bt[k]]
    BY <2>1, PickByList
  <2>3. QED
    BY <2>2 DEF u, m
<1>9. /\ Tail(p) \in Seq(S) /\ Len(Tail(p)) = n - 1
      /\ \A k \in 1 .. n - 1 : Tail(p)[k] = p[k + 1]
  BY <1>1, <1>4, HeadTailProperties
<1>10. \A k \in 1 .. n - 1 : Tail(p)[k] = Pick(Tail(s), J)[k]
  <2> SUFFICES ASSUME NEW k \in 1 .. n - 1 PROVE p[k + 1] = Tail(s)[bt[k]]
    BY <1>8, <1>9
  <2>1. k + 1 \in 1 .. n /\ at[k + 1] \in 1 .. Len(s) /\ bt[k] = at[k + 1] - 1
    BY <1>2
  <2>2. bt[k] \in 1 .. Len(Tail(s))
    BY <1>7, <1>5 DEF Lists
  <2>3. Tail(s)[bt[k]] = s[bt[k] + 1]
    BY <1>5, <2>2
  <2>4. bt[k] + 1 = at[k + 1]
    BY <2>1
  <2>5. QED
    BY <1>1, <2>1, <2>3, <2>4
<1>11. Tail(p) = Pick(Tail(s), J)
  BY <1>8, <1>9, <1>10, SeqEqual
<1>12. QED
  BY <1>4, <1>6, <1>11 DEF p

LEMMA LeastExists ==
    ASSUME NEW T \in SUBSET Nat, T # {}
    PROVE  \E m \in T : \A j \in T : m <= j
<1>1. PICK m \in T : \A j \in T : ~(<<j, m>> \in OpToRel(<, Nat))
  BY NatLessThanWellFounded, WFMin
<1>2. \A j \in T : m <= j
  <2> SUFFICES ASSUME NEW j \in T, ~(m <= j) PROVE FALSE
    OBVIOUS
  <2>1. j \in Nat /\ m \in Nat /\ j < m
    OBVIOUS
  <2>2. <<j, m>> \in OpToRel(<, Nat)
    BY <2>1 DEF OpToRel
  <2>3. QED
    BY <1>1, <2>2
<1>3. QED
  BY <1>2

----------------------------------------------------------------------------
(* Blocks and texts. *)

Plain(bs)    == \A i \in DOMAIN bs : ~bs[i].glued /\ IsBlock(bs[i])
Distinct(bs) == \A i, j \in DOMAIN bs : bs[i].der = bs[j].der => i = j
Unglued(t)   == \A i \in DOMAIN t.blocks : ~t.blocks[i].glued

\* What NormalizePEM makes of a text that has a block in it.
Clean(t) == t \in Text /\ ~t.open /\ Plain(t.blocks) /\ Distinct(t.blocks)

LEMMA TextFacts ==
    ASSUME NEW t \in Text
    PROVE  /\ t.blocks \in Seq(Block) /\ t.open \in BOOLEAN
           /\ t = [blocks |-> t.blocks, open |-> t.open]
           /\ t = Empty <=> t.blocks = <<>>
BY DEF Text, Empty

LEMMA BlockFacts ==
    ASSUME NEW b \in Block
    PROVE  /\ b = [der |-> b.der, glued |-> b.glued] /\ b.glued \in BOOLEAN
           /\ b.der \in Cert \cup Malformed \cup Key \cup {Binary}
           /\ [b EXCEPT !.glued = FALSE] \in Block
           /\ [b EXCEPT !.glued = FALSE].der = b.der
           /\ ~[b EXCEPT !.glued = FALSE].glued
           /\ ~b.glued => [b EXCEPT !.glued = FALSE] = b
BY DEF Block

LEMMA DersEmpty ==
    ASSUME NEW bs \in Seq(Block)
    PROVE  Ders(bs) = {} <=> bs = <<>>
<1>1. CASE bs = <<>>
  BY <1>1 DEF Ders
<1>2. CASE bs # <<>>
  <2>1. 1 \in DOMAIN bs
    BY <1>2
  <2>2. bs[1].der \in Ders(bs)
    BY <2>1 DEF Ders
  <2>3. QED
    BY <1>2, <2>2
<1>3. QED
  BY <1>1, <1>2

LEMMA DersOfConcat ==
    ASSUME NEW bs \in Seq(Block), NEW cs \in Seq(Block)
    PROVE  Ders(bs \o cs) = Ders(bs) \cup Ders(cs)
<1>1. \A i \in DOMAIN (bs \o cs) : (bs \o cs)[i].der \in Ders(bs) \cup Ders(cs)
  <2> SUFFICES ASSUME NEW i \in 1 .. Len(bs) + Len(cs)
               PROVE  (bs \o cs)[i].der \in Ders(bs) \cup Ders(cs)
    BY ConcatProperties
  <2>1. CASE i <= Len(bs)
    BY <2>1, ConcatProperties DEF Ders
  <2>2. CASE ~(i <= Len(bs))
    <3>1. i - Len(bs) \in DOMAIN cs
      BY <2>2
    <3>2. QED
      BY <2>2, <3>1, ConcatProperties DEF Ders
  <2>3. QED
    BY <2>1, <2>2
<1>2. \A i \in DOMAIN bs : bs[i].der \in Ders(bs \o cs)
  <2> TAKE i \in DOMAIN bs
  <2>1. i \in DOMAIN (bs \o cs) /\ (bs \o cs)[i] = bs[i]
    BY ConcatProperties
  <2>2. QED
    BY <2>1 DEF Ders
<1>3. \A i \in DOMAIN cs : cs[i].der \in Ders(bs \o cs)
  <2> TAKE i \in DOMAIN cs
  <2>1. i + Len(bs) \in DOMAIN (bs \o cs) /\ (bs \o cs)[i + Len(bs)] = cs[i]
    BY ConcatProperties
  <2>2. QED
    BY <2>1 DEF Ders
<1>4. QED
  BY <1>1, <1>2, <1>3 DEF Ders

LEMMA DersOfPick ==
    ASSUME NEW bs \in Seq(Block), NEW I \in SUBSET (DOMAIN bs)
    PROVE  Ders(Pick(bs, I)) = {bs[i].der : i \in I}
<1>1. \A k \in DOMAIN Pick(bs, I) : \E i \in I : Pick(bs, I)[k] = bs[i]
  BY PickRange
<1>2. \A i \in I : \E k \in DOMAIN Pick(bs, I) : Pick(bs, I)[k] = bs[i]
  BY PickRange
<1>3. QED
  BY <1>1, <1>2 DEF Ders

(* Without a mash every block is decoded, and what is decoded has none.    *)
LEMMA DecodeFacts ==
    ASSUME NEW t \in Text
    PROVE  /\ Decode(t) \in Seq(Block) /\ Plain(Decode(t))
           /\ Ders(Decode(t)) \subseteq Ders(t.blocks) \ {Binary}
           /\ Unglued(t) => Ders(Decode(t)) = Ders(t.blocks) \ {Binary}
           /\ Plain(t.blocks) => Decode(t) = t.blocks
<1> DEFINE bs == t.blocks
           I == {i \in DOMAIN bs : /\ IsBlock(bs[i])
                                   /\ \A j \in DOMAIN bs : j \in {i, i + 1} => ~bs[j].glued}
<1>1. bs \in Seq(Block) /\ I \in SUBSET (DOMAIN bs) /\ Decode(t) = Pick(bs, I)
  BY TextFacts DEF Decode
<1>2. \A i \in I : IsBlock(bs[i]) /\ ~bs[i].glued
  OBVIOUS
<1>3. Unglued(t) => \A i \in DOMAIN bs : i \in I <=> IsBlock(bs[i])
  BY DEF Unglued
<1>4. Plain(bs) => I = DOMAIN bs
  BY DEF Plain
<1> HIDE DEF I, bs
<1>5. Decode(t) \in Seq(Block) /\ Plain(Decode(t))
  <2>1. Pick(bs, I) \in Seq(Block)
    BY <1>1, PickFacts
  <2>2. \A k \in DOMAIN Pick(bs, I) : \E i \in I : Pick(bs, I)[k] = bs[i]
    BY <1>1, PickRange
  <2>3. QED
    BY <1>1, <1>2, <2>1, <2>2 DEF Plain
<1>6. Ders(Decode(t)) = {bs[i].der : i \in I}
  BY <1>1, DersOfPick
<1>7. Ders(Decode(t)) \subseteq Ders(bs) \ {Binary}
  BY <1>1, <1>2, <1>6 DEF Ders, IsBlock
<1>8. Unglued(t) => Ders(Decode(t)) = Ders(bs) \ {Binary}
  BY <1>3, <1>6, <1>7 DEF Ders, IsBlock
<1>9. Plain(bs) => Decode(t) = bs
  BY <1>1, <1>4, PickAll
<1>10. QED
  BY <1>5, <1>7, <1>8, <1>9 DEF bs

LEMMA EncodeFacts ==
    ASSUME NEW bs \in Seq(Block)
    PROVE  /\ Encode(bs) \in Text /\ ~Encode(bs).open /\ Unglued(Encode(bs))
           /\ Encode(bs).blocks \in Seq(Block) /\ Len(Encode(bs).blocks) = Len(bs)
           /\ Ders(Encode(bs).blocks) = Ders(bs)
           /\ \A i \in DOMAIN bs : Encode(bs).blocks[i].der = bs[i].der
           /\ Encode(bs) = Empty <=> bs = <<>>
           /\ Plain(bs) => Encode(bs).blocks = bs
<1> DEFINE cs == [i \in DOMAIN bs |-> [bs[i] EXCEPT !.glued = FALSE]]
<1>1. \A i \in DOMAIN bs : bs[i] \in Block
  OBVIOUS
<1>2. \A i \in DOMAIN bs : cs[i] \in Block /\ cs[i].der = bs[i].der /\ ~cs[i].glued
  BY <1>1, BlockFacts
<1>3. DOMAIN cs = DOMAIN bs
  OBVIOUS
<1>4. cs \in Seq(Block) /\ Len(cs) = Len(bs) /\ (cs = <<>> <=> bs = <<>>)
  <2>1. DOMAIN bs = 1 .. Len(bs) /\ Len(bs) \in Nat
    OBVIOUS
  <2>2. cs \in [1 .. Len(bs) -> Block]
    BY <1>2, <2>1
  <2> HIDE DEF cs
  <2>3. QED
    BY <2>1, <2>2
<1>5. Plain(bs) => cs = bs
  <2>1. Plain(bs) => \A i \in DOMAIN bs : cs[i] = bs[i]
    BY <1>1, BlockFacts DEF Plain
  <2> HIDE DEF cs
  <2>2. QED
    BY <2>1, <1>3, <1>4, SeqEqual
<1>6. Encode(bs) = [blocks |-> cs, open |-> FALSE]
  BY DEF Encode
<1> HIDE DEF cs
<1>7. Ders(cs) = Ders(bs)
  BY <1>2, <1>3 DEF Ders
<1>8. Encode(bs).blocks = cs /\ ~Encode(bs).open
  BY <1>6
<1>9. Encode(bs) \in Text
  BY <1>4, <1>6 DEF Text
<1>10. Unglued(Encode(bs))
  BY <1>2, <1>3, <1>8 DEF Unglued
<1>11. Encode(bs) = Empty <=> bs = <<>>
  BY <1>4, <1>8, <1>9, TextFacts
<1>12. QED
  BY <1>2, <1>4, <1>5, <1>7, <1>8, <1>9, <1>10, <1>11

LEMMA UnglueFacts ==
    ASSUME NEW t \in Text
    PROVE  /\ Unglue(t) \in Text /\ Unglued(Unglue(t))
           /\ Ders(Unglue(t).blocks) = Ders(t.blocks)
           /\ \A i \in DOMAIN t.blocks : Unglue(t).blocks[i].der = t.blocks[i].der
           /\ Unglue(t) = Empty <=> t = Empty
           /\ Unglued(t) => Unglue(t) = t
<1> DEFINE bs == t.blocks
           cs == [i \in DOMAIN bs |-> [bs[i] EXCEPT !.glued = FALSE]]
<1>1. bs \in Seq(Block) /\ \A i \in DOMAIN bs : bs[i] \in Block
  BY TextFacts
<1>2. \A i \in DOMAIN bs : cs[i] \in Block /\ cs[i].der = bs[i].der /\ ~cs[i].glued
  BY <1>1, BlockFacts
<1>3. DOMAIN cs = DOMAIN bs
  OBVIOUS
<1>4. cs \in Seq(Block) /\ Len(cs) = Len(bs) /\ (cs = <<>> <=> bs = <<>>)
  <2>1. DOMAIN bs = 1 .. Len(bs) /\ Len(bs) \in Nat
    BY <1>1
  <2>2. cs \in [1 .. Len(bs) -> Block]
    BY <1>2, <2>1
  <2> HIDE DEF cs
  <2>3. QED
    BY <1>1, <2>1, <2>2
<1>5. Unglued(t) => cs = bs
  <2>1. Unglued(t) => \A i \in DOMAIN bs : cs[i] = bs[i]
    BY <1>1, BlockFacts DEF Unglued
  <2> HIDE DEF cs
  <2>2. QED
    BY <2>1, <1>1, <1>3, <1>4, SeqEqual
<1>6. Unglue(t) = [blocks |-> cs, open |-> t.open]
  <2>1. t \in [blocks : Seq(Block), open : BOOLEAN]
    BY DEF Text
  <2>2. Unglue(t) = [t EXCEPT !.blocks = cs]
    BY DEF Unglue
  <2> HIDE DEF cs
  <2>3. QED
    BY <2>1, <2>2
<1> HIDE DEF cs
<1>7. Ders(cs) = Ders(bs)
  BY <1>2, <1>3 DEF Ders
<1>8. Unglue(t).blocks = cs
  BY <1>6
<1>9. Unglue(t) \in Text
  BY <1>4, <1>6, TextFacts DEF Text
<1>10. Unglued(Unglue(t))
  BY <1>2, <1>3, <1>8 DEF Unglued
<1>11. Unglue(t) = Empty <=> t = Empty
  BY <1>4, <1>8, <1>9, TextFacts
<1>12. Unglued(t) => Unglue(t) = t
  BY <1>5, <1>6, TextFacts
<1>13. QED
  BY <1>2, <1>7, <1>8, <1>9, <1>10, <1>11, <1>12

(* Dedup keeps the first block of each kind, and only that.                *)
LEMMA DedupFacts ==
    ASSUME NEW bs \in Seq(Block)
    PROVE  /\ Dedup(bs) \in Seq(Block) /\ Distinct(Dedup(bs))
           /\ Ders(Dedup(bs)) = Ders(bs)
           /\ Dedup(bs) = <<>> <=> bs = <<>>
           /\ bs # <<>> => Dedup(bs)[1] = bs[1]
           /\ Plain(bs) => Plain(Dedup(bs))
           /\ Distinct(bs) => Dedup(bs) = bs
<1> DEFINE I == {i \in DOMAIN bs : \A j \in DOMAIN bs : j < i => bs[j].der # bs[i].der}
<1>1. I \in SUBSET (DOMAIN bs) /\ Dedup(bs) = Pick(bs, I)
  BY DEF Dedup
<1>2. \A i, j \in I : bs[i].der = bs[j].der => i = j
  <2> SUFFICES ASSUME NEW i \in I, NEW j \in I, bs[i].der = bs[j].der, i # j PROVE FALSE
    OBVIOUS
  <2>1. i < j \/ j < i
    OBVIOUS
  <2>2. QED
    BY <2>1
<1>3. \A i \in DOMAIN bs : \E j \in I : bs[j].der = bs[i].der
  <2> SUFFICES ASSUME NEW i \in DOMAIN bs PROVE \E j \in I : bs[j].der = bs[i].der
    OBVIOUS
  <2> DEFINE T == {j \in DOMAIN bs : bs[j].der = bs[i].der}
  <2>1. i \in T /\ T \in SUBSET Nat
    OBVIOUS
  <2>2. PICK m \in T : \A j \in T : m <= j
    <3> HIDE DEF T
    <3>1. QED
      BY <2>1, LeastExists
  <2>3. m \in I
    <3> SUFFICES ASSUME NEW j \in DOMAIN bs, j < m PROVE bs[j].der # bs[m].der
      OBVIOUS
    <3>1. j \notin T
      <4>1. j \in Nat /\ m \in Nat
        OBVIOUS
      <4>2. ~(m <= j)
        BY <4>1
      <4>3. QED
        BY <2>2, <4>2
    <3>2. QED
      BY <3>1
  <2>4. QED
    BY <2>3
<1>4. Distinct(bs) => I = DOMAIN bs
  <2> SUFFICES ASSUME Distinct(bs), NEW i \in DOMAIN bs, NEW j \in DOMAIN bs, j < i
               PROVE  bs[j].der # bs[i].der
    OBVIOUS
  <2>1. i # j
    OBVIOUS
  <2>2. QED
    BY <2>1 DEF Distinct
<1>5. bs # <<>> => 1 \in I
  OBVIOUS
<1>6. I = {} <=> bs = <<>>
  BY <1>1, <1>5
<1> HIDE DEF I
<1> DEFINE at == Ascending(I)
           n == Cardinality(I)
<1>7. /\ Lists(at, n, I) /\ Pick(bs, I) \in Seq(Block) /\ Len(Pick(bs, I)) = n
      /\ \A k \in 1 .. n : Pick(bs, I)[k] = bs[at[k]]
  BY <1>1, PickFacts
<1>8. Distinct(Pick(bs, I))
  <2> HIDE DEF at, n
  <2> SUFFICES ASSUME NEW k \in 1 .. n, NEW l \in 1 .. n, bs[at[k]].der = bs[at[l]].der, k # l
               PROVE  FALSE
    BY <1>7 DEF Distinct
  <2>1. at[k] \in I /\ at[l] \in I
    BY <1>7 DEF Lists
  <2>2. at[k] = at[l]
    BY <1>2, <2>1
  <2>3. k < l \/ l < k
    BY <1>7 DEF Lists
  <2>4. at[k] < at[l] \/ at[l] < at[k]
    BY <1>7, <2>3 DEF Lists
  <2>5. at[k] \in Nat
    BY <1>1, <2>1
  <2>6. QED
    BY <2>2, <2>4, <2>5
<1>9. Ders(Pick(bs, I)) = Ders(bs)
  <2>1. Ders(Pick(bs, I)) = {bs[i].der : i \in I}
    BY <1>1, DersOfPick
  <2>2. QED
    BY <1>1, <1>3, <2>1 DEF Ders
<1>10. Plain(bs) => Plain(Pick(bs, I))
  <2>1. \A k \in DOMAIN Pick(bs, I) : \E i \in I : Pick(bs, I)[k] = bs[i]
    BY <1>1, PickRange
  <2>2. QED
    BY <1>1, <2>1 DEF Plain
<1>11. Distinct(bs) => Pick(bs, I) = bs
  BY <1>1, <1>4, PickAll
<1>12. Pick(bs, I) = <<>> <=> bs = <<>>
  BY <1>1, <1>6, PickEmpty
<1>13. bs # <<>> => Pick(bs, I)[1] = bs[1]
  BY <1>1, <1>5, PickFirst
<1>14. QED
  BY <1>1, <1>7, <1>8, <1>9, <1>10, <1>11, <1>12, <1>13

LEMMA ConcatFacts ==
    ASSUME NEW t \in Text, NEW u \in Text
    PROVE  /\ Concat(t, u) \in Text
           /\ Ders(Concat(t, u).blocks) = Ders(t.blocks) \cup Ders(u.blocks)
           /\ ~t.open /\ Unglued(t) /\ Unglued(u) =>
                  /\ Unglued(Concat(t, u))
                  /\ Concat(t, u).blocks = t.blocks \o u.blocks
<1>1. /\ t.blocks \in Seq(Block) /\ u.blocks \in Seq(Block)
      /\ t = Empty <=> t.blocks = <<>>
      /\ u = Empty <=> u.blocks = <<>>
      /\ t.open \in BOOLEAN /\ u.open \in BOOLEAN
  BY TextFacts
<1>2. Empty.blocks = <<>> /\ Ders(<<>>) = {}
  BY DEF Empty, Ders
<1>3. CASE t = Empty
  <2>1. Concat(t, u) = u /\ t.blocks = <<>>
    BY <1>3, <1>1 DEF Concat
  <2>2. t.blocks \o u.blocks = u.blocks
    BY <1>1, <2>1, ConcatEmptySeq
  <2>3. QED
    BY <1>2, <2>1, <2>2
<1>4. CASE t # Empty /\ u = Empty
  <2>1. Concat(t, u) = t /\ u.blocks = <<>>
    BY <1>4, <1>1 DEF Concat
  <2>2. t.blocks \o u.blocks = t.blocks
    BY <1>1, <2>1, ConcatEmptySeq
  <2>3. QED
    BY <1>2, <2>1, <2>2
<1>5. CASE t # Empty /\ u # Empty
  <2> DEFINE h == [Head(u.blocks) EXCEPT !.glued = t.open]
             cs == <<h>> \o Tail(u.blocks)
  <2>1. u.blocks # <<>> /\ Head(u.blocks) \in Block /\ Head(u.blocks) = u.blocks[1]
    BY <1>1, <1>5, HeadTailProperties
  <2>2. h \in Block /\ h.der = u.blocks[1].der /\ h.glued = t.open
    BY <1>1, <2>1 DEF Block
  <2>3. /\ Tail(u.blocks) \in Seq(Block) /\ Len(Tail(u.blocks)) = Len(u.blocks) - 1
        /\ \A i \in 1 .. Len(Tail(u.blocks)) : Tail(u.blocks)[i] = u.blocks[i + 1]
    BY <1>1, <2>1, HeadTailProperties
  <2> HIDE DEF h
  <2>4. /\ <<h>> \in Seq(Block) /\ Len(<<h>>) = 1 /\ <<h>>[1] = h
    BY <2>2
  <2>5. /\ cs \in Seq(Block) /\ Len(cs) = Len(u.blocks) /\ cs[1] = h
        /\ \A i \in 2 .. Len(u.blocks) : cs[i] = u.blocks[i]
    <3>1. /\ cs \in Seq(Block) /\ Len(cs) = 1 + Len(Tail(u.blocks))
          /\ \A i \in 1 .. 1 + Len(Tail(u.blocks)) :
                 cs[i] = IF i <= 1 THEN h ELSE Tail(u.blocks)[i - 1]
      <4>1. \A i \in 1 .. 1 : <<h>>[i] = h
        BY <2>4
      <4>2. QED
        BY <2>3, <2>4, <4>1, ConcatProperties
    <3>2. Len(u.blocks) \in Nat /\ Len(u.blocks) >= 1
      BY <1>1, <2>1
    <3> HIDE DEF cs
    <3>3. QED
      BY <2>3, <3>1, <3>2
  <2>6. Len(u.blocks) \in Nat /\ Len(u.blocks) >= 1
    BY <1>1, <2>1
  <2> HIDE DEF cs
  <2>7. Ders(cs) = Ders(u.blocks)
    <3>1. \A i \in 1 .. Len(u.blocks) : cs[i].der = u.blocks[i].der
      BY <2>2, <2>5, <2>6
    <3>2. DOMAIN cs = 1 .. Len(u.blocks) /\ DOMAIN u.blocks = 1 .. Len(u.blocks)
      BY <1>1, <2>5
    <3>3. QED
      BY <3>1, <3>2 DEF Ders
  <2>8. Concat(t, u) = [blocks |-> t.blocks \o cs, open |-> u.open]
    <3>1. Concat(t, u) = [blocks |-> t.blocks \o <<h>> \o Tail(u.blocks), open |-> u.open]
      BY <1>5 DEF Concat, h
    <3>2. (t.blocks \o <<h>>) \o Tail(u.blocks) = t.blocks \o cs
      <4> DEFINE a == t.blocks
                 b == <<h>>
                 d == Tail(u.blocks)
      <4>1. a \in Seq(Block) /\ b \in Seq(Block) /\ d \in Seq(Block) /\ cs = b \o d
        BY <1>1, <2>3, <2>4 DEF cs
      <4> HIDE DEF a, b, d
      <4>2. (a \o b) \o d = a \o (b \o d)
        BY <4>1, ConcatAssociative
      <4>3. (a \o b) \o d = a \o cs
        BY <4>1, <4>2
      <4>4. QED
        BY <4>3 DEF a, b, d
    <3>3. QED
      BY <3>1, <3>2
  <2>9. t.blocks \o cs \in Seq(Block) /\ t.blocks \o cs # <<>>
    BY <1>1, <2>5, <2>6, ConcatProperties
  <2>10. Concat(t, u) \in Text
    BY <1>1, <2>8, <2>9 DEF Text
  <2>11. Ders(Concat(t, u).blocks) = Ders(t.blocks) \cup Ders(u.blocks)
    BY <1>1, <2>5, <2>7, <2>8, DersOfConcat
  <2>12. ASSUME ~t.open, Unglued(t), Unglued(u)
         PROVE  /\ Unglued(Concat(t, u))
                /\ Concat(t, u).blocks = t.blocks \o u.blocks
    <3>1. h = u.blocks[1]
      <4>1. ~u.blocks[1].glued /\ u.blocks[1] \in Block
        BY <1>1, <2>6, <2>12 DEF Unglued
      <4>2. h = [u.blocks[1] EXCEPT !.glued = FALSE]
        BY <2>1, <2>12, <1>1 DEF h
      <4>3. QED
        BY <4>1, <4>2, BlockFacts
    <3>2. \A i \in 1 .. Len(u.blocks) : cs[i] = u.blocks[i]
      BY <2>5, <2>6, <3>1
    <3>3. cs = u.blocks
      <4> DEFINE v == u.blocks
      <4>1. /\ cs \in Seq(Block) /\ v \in Seq(Block) /\ Len(cs) = Len(v)
            /\ \A i \in 1 .. Len(cs) : cs[i] = v[i]
        BY <1>1, <2>5, <3>2
      <4> HIDE DEF v
      <4>2. cs = v
        BY <4>1, SeqEqual
      <4>3. QED
        BY <4>2 DEF v
    <3>4. Concat(t, u).blocks = t.blocks \o u.blocks
      <4> DEFINE c == Concat(t, u)
                 a == t.blocks \o cs
      <4>1. c = [blocks |-> a, open |-> u.open]
        BY <2>8
      <4>2. a = t.blocks \o u.blocks
        BY <3>3
      <4> HIDE DEF c, a
      <4>3. c.blocks = a
        BY <4>1
      <4>4. QED
        BY <4>2, <4>3 DEF c
    <3>5. \A i \in DOMAIN (t.blocks \o u.blocks) : ~(t.blocks \o u.blocks)[i].glued
      <4> DEFINE n == Len(t.blocks)
                 m == Len(u.blocks)
                 p == t.blocks \o u.blocks
      <4>1. n \in Nat /\ m \in Nat /\ DOMAIN p = 1 .. n + m
        BY <1>1, ConcatProperties
      <4>2. \A i \in 1 .. n + m : p[i] = IF i <= n THEN t.blocks[i] ELSE u.blocks[i - n]
        BY <1>1, ConcatProperties
      <4>3. (\A i \in 1 .. n : ~t.blocks[i].glued) /\ (\A i \in 1 .. m : ~u.blocks[i].glued)
        BY <1>1, <2>12 DEF Unglued
      <4> HIDE DEF n, m, p
      <4>4. \A i \in 1 .. n + m : ~p[i].glued
        BY <4>1, <4>2, <4>3
      <4>5. QED
        BY <4>1, <4>4 DEF p
    <3>6. QED
      BY <3>4, <3>5 DEF Unglued
  <2>13. QED
    BY <2>10, <2>11, <2>12
<1>6. QED
  BY <1>3, <1>4, <1>5

(* A text that is normalised has lost no block and no mash is left in it.  *)
LEMMA NormalizeFacts ==
    ASSUME NEW t \in Text
    PROVE  /\ NormalizePEM(t) \in Text /\ Unglued(NormalizePEM(t))
           /\ Ders(NormalizePEM(t).blocks) \ {Binary} = Ders(t.blocks) \ {Binary}
           /\ Decode(NormalizePEM(t)) # <<>> =>
                  /\ Clean(NormalizePEM(t))
                  /\ NormalizePEM(t).blocks = Dedup(Decode(Unglue(t)))
           /\ Ders(t.blocks) \ {Binary} # {} => Decode(NormalizePEM(t)) # <<>>
           /\ NormalizePEM(t) = Empty <=> t = Empty
<1> DEFINE u == Unglue(t)
           kept == Dedup(Decode(u))
           n == NormalizePEM(t)
<1>1. u \in Text /\ Unglued(u) /\ Ders(u.blocks) = Ders(t.blocks) /\ (u = Empty <=> t = Empty)
  BY UnglueFacts
<1>2. n = IF kept = <<>> THEN u ELSE Encode(kept)
  BY DEF NormalizePEM
<1> HIDE DEF u, n
<1>3. /\ Decode(u) \in Seq(Block) /\ Plain(Decode(u))
      /\ Ders(Decode(u)) = Ders(t.blocks) \ {Binary}
  BY <1>1, DecodeFacts
<1>4. /\ kept \in Seq(Block) /\ Distinct(kept) /\ Plain(kept)
      /\ Ders(kept) = Ders(t.blocks) \ {Binary}
      /\ kept = <<>> <=> Decode(u) = <<>>
  BY <1>3, DedupFacts
<1> HIDE DEF kept
<1>5. \A bs \in Seq(Block) : Ders(bs) = {} <=> bs = <<>>
  BY DersEmpty
<1>6. CASE kept = <<>>
  <2>1. n = u /\ Decode(n) = <<>>
    BY <1>2, <1>4, <1>6
  <2>2. Ders(t.blocks) \ {Binary} = {}
    BY <1>4, <1>5, <1>6
  <2>3. QED
    BY <1>1, <2>1, <2>2 DEF n
<1>7. CASE kept # <<>>
  <2>1. n = Encode(kept)
    BY <1>2, <1>7
  <2>2. /\ n \in Text /\ ~n.open /\ Unglued(n) /\ n.blocks = kept /\ n # Empty
    BY <1>4, <1>7, <2>1, EncodeFacts
  <2>3. Clean(n)
    BY <1>4, <2>2 DEF Clean
  <2>4. Decode(n) = kept
    BY <1>4, <2>2, DecodeFacts
  <2>5. Binary \notin Ders(kept)
    BY <1>4
  <2>6. t # Empty
    <3>1. Decode(u) # <<>>
      BY <1>4, <1>7
    <3>2. Ders(t.blocks) # {}
      BY <1>3, <1>5, <3>1
    <3>3. QED
      BY <3>2, TextFacts DEF Ders, Empty
  <2>7. QED
    BY <1>4, <1>7, <2>2, <2>3, <2>4, <2>5, <2>6 DEF n, kept, u
<1>8. QED
  BY <1>6, <1>7

(* What is picked is as plain as the blocks it is picked from.             *)
LEMMA PickKeeps ==
    ASSUME NEW bs \in Seq(Block), NEW I \in SUBSET (DOMAIN bs)
    PROVE  /\ Pick(bs, I) \in Seq(Block)
           /\ Plain(bs) => Plain(Pick(bs, I))
           /\ Distinct(bs) => Distinct(Pick(bs, I))
<1> DEFINE at == Ascending(I)
           n == Cardinality(I)
<1>1. /\ Lists(at, n, I) /\ Pick(bs, I) \in Seq(Block) /\ Len(Pick(bs, I)) = n
      /\ \A k \in 1 .. n : Pick(bs, I)[k] = bs[at[k]]
  BY PickFacts
<1> HIDE DEF at, n
<1>2. n \in Nat /\ DOMAIN Pick(bs, I) = 1 .. n /\ DOMAIN bs = 1 .. Len(bs) /\ Len(bs) \in Nat
  BY <1>1 DEF Lists
<1>3. \A k \in 1 .. n : at[k] \in DOMAIN bs
  BY <1>1 DEF Lists
<1>4. Plain(bs) => Plain(Pick(bs, I))
  BY <1>1, <1>2, <1>3 DEF Plain
<1>5. ASSUME Distinct(bs) PROVE Distinct(Pick(bs, I))
  <2> SUFFICES ASSUME NEW k \in 1 .. n, NEW l \in 1 .. n, bs[at[k]].der = bs[at[l]].der, k # l
               PROVE  FALSE
    BY <1>1, <1>2 DEF Distinct
  <2>1. at[k] = at[l] /\ at[k] \in Nat
    BY <1>2, <1>3, <1>5 DEF Distinct
  <2>2. k < l \/ l < k
    BY <1>2
  <2>3. at[k] < at[l] \/ at[l] < at[k]
    BY <1>1, <2>2 DEF Lists
  <2>4. QED
    BY <2>1, <2>3
<1>6. QED
  BY <1>1, <1>4, <1>5

(* A list without its first.                                               *)
LEMMA TailFacts ==
    ASSUME NEW bs \in Seq(Block), bs # <<>>
    PROVE  /\ Len(bs) \in Nat /\ Len(bs) >= 1 /\ bs[1] \in Block /\ Head(bs) = bs[1]
           /\ Tail(bs) \in Seq(Block) /\ Len(Tail(bs)) = Len(bs) - 1
           /\ \A i \in 1 .. Len(bs) - 1 : Tail(bs)[i] = bs[i + 1]
           /\ Ders(bs) = {bs[1].der} \cup Ders(Tail(bs))
           /\ Plain(bs) => Plain(Tail(bs))
           /\ Distinct(bs) => Distinct(Tail(bs)) /\ bs[1].der \notin Ders(Tail(bs))
<1> DEFINE rest == Tail(bs)
           n == Len(bs)
<1>1. /\ n \in Nat /\ n >= 1 /\ bs[1] \in Block /\ Head(bs) = bs[1]
      /\ rest \in Seq(Block) /\ Len(rest) = n - 1
      /\ \A i \in 1 .. n - 1 : rest[i] = bs[i + 1]
  BY HeadTailProperties
<1>2. DOMAIN bs = 1 .. n /\ DOMAIN rest = 1 .. n - 1
  BY <1>1
<1> HIDE DEF rest, n
<1>3. Ders(bs) = {bs[1].der} \cup Ders(rest)
  <2>1. \A i \in 1 .. n : i = 1 \/ (i - 1 \in 1 .. n - 1 /\ bs[i] = rest[i - 1])
    BY <1>1
  <2>2. \A i \in 1 .. n - 1 : i + 1 \in 1 .. n /\ bs[i + 1] = rest[i]
    BY <1>1
  <2>3. 1 \in 1 .. n
    BY <1>1
  <2>4. QED
    BY <1>2, <2>1, <2>2, <2>3 DEF Ders
<1>4. \A i \in 1 .. n - 1 : i + 1 \in 1 .. n
  BY <1>1
<1>5. Plain(bs) => Plain(rest)
  BY <1>1, <1>2, <1>4 DEF Plain
<1>6. ASSUME Distinct(bs) PROVE Distinct(rest) /\ bs[1].der \notin Ders(rest)
  <2>1. \A i, j \in 1 .. n : bs[i].der = bs[j].der => i = j
    BY <1>2, <1>6 DEF Distinct
  <2>2. \A i, j \in 1 .. n - 1 : rest[i].der = rest[j].der => i = j
    BY <1>1, <1>4, <2>1
  <2>3. \A i \in 1 .. n - 1 : rest[i].der # bs[1].der
    BY <1>1, <1>4, <2>1
  <2>4. QED
    BY <1>2, <2>2, <2>3 DEF Distinct, Ders
<1>7. QED
  BY <1>1, <1>3, <1>5, <1>6 DEF rest, n

(* The certificates among some blocks, and those of them that parse.       *)
LEMMA CertSelection ==
    ASSUME NEW bs \in Seq(Block)
    PROVE  LET cs == Select(bs, IsCert)
           IN  /\ cs \in Seq(Block) /\ \A i \in DOMAIN cs : IsCert(cs[i])
               /\ Ders(cs) = Ders(bs) \cap (Cert \cup Malformed)
               /\ Plain(bs) => Plain(cs)
               /\ Distinct(bs) => Distinct(cs)
               /\ bs # <<>> /\ IsCert(bs[1]) => cs # <<>> /\ cs[1] = bs[1]
               /\ (\A i \in DOMAIN bs : IsCert(bs[i])) => cs = bs
<1> DEFINE I == {i \in DOMAIN bs : IsCert(bs[i])}
           cs == Select(bs, IsCert)
<1>1. cs = Pick(bs, I) /\ I \in SUBSET (DOMAIN bs)
  BY DEF Select
<1> HIDE DEF cs
<1>2. /\ cs \in Seq(Block)
      /\ Plain(bs) => Plain(cs)
      /\ Distinct(bs) => Distinct(cs)
  BY <1>1, PickKeeps
<1>3. Ders(cs) = {bs[i].der : i \in I}
  BY <1>1, DersOfPick
<1>4. {bs[i].der : i \in I} = Ders(bs) \cap (Cert \cup Malformed)
  BY DEF Ders, IsCert
<1>5. \A i \in DOMAIN cs : IsCert(cs[i])
  <2>1. \A k \in DOMAIN cs : \E i \in I : cs[k] = bs[i]
    BY <1>1, PickRange
  <2>2. QED
    BY <2>1
<1>6. bs # <<>> /\ IsCert(bs[1]) => cs # <<>> /\ cs[1] = bs[1]
  <2>1. bs # <<>> /\ IsCert(bs[1]) => 1 \in I
    OBVIOUS
  <2>2. QED
    BY <1>1, <2>1, PickFirst
<1>7. (\A i \in DOMAIN bs : IsCert(bs[i])) => cs = bs
  <2>1. (\A i \in DOMAIN bs : IsCert(bs[i])) => I = DOMAIN bs
    OBVIOUS
  <2>2. QED
    BY <1>1, <2>1, PickAll
<1>8. QED
  BY <1>2, <1>3, <1>4, <1>5, <1>6, <1>7 DEF cs

LEMMA ParseSelection ==
    ASSUME NEW bs \in Seq(Block)
    PROVE  LET cs == Select(bs, Parses)
           IN  /\ cs \in Seq(Block) /\ \A i \in DOMAIN cs : Parses(cs[i])
               /\ Ders(cs) = Ders(bs) \cap Cert
               /\ Plain(bs) => Plain(cs)
               /\ Distinct(bs) => Distinct(cs)
               /\ bs # <<>> /\ Parses(bs[1]) => cs # <<>> /\ cs[1] = bs[1]
               /\ (\A i \in DOMAIN bs : Parses(bs[i])) => cs = bs
               /\ bs # <<>> /\ Parses(bs[1]) => Tail(cs) = Select(Tail(bs), Parses)
<1> DEFINE I == {i \in DOMAIN bs : Parses(bs[i])}
           cs == Select(bs, Parses)
<1>1. cs = Pick(bs, I) /\ I \in SUBSET (DOMAIN bs)
  BY DEF Select
<1> HIDE DEF cs
<1>2. /\ cs \in Seq(Block)
      /\ Plain(bs) => Plain(cs)
      /\ Distinct(bs) => Distinct(cs)
  BY <1>1, PickKeeps
<1>3. Ders(cs) = {bs[i].der : i \in I}
  BY <1>1, DersOfPick
<1>4. {bs[i].der : i \in I} = Ders(bs) \cap Cert
  BY DEF Ders, Parses
<1>5. \A i \in DOMAIN cs : Parses(cs[i])
  <2>1. \A k \in DOMAIN cs : \E i \in I : cs[k] = bs[i]
    BY <1>1, PickRange
  <2>2. QED
    BY <2>1
<1>6. bs # <<>> /\ Parses(bs[1]) => cs # <<>> /\ cs[1] = bs[1]
  <2>1. bs # <<>> /\ Parses(bs[1]) => 1 \in I
    OBVIOUS
  <2>2. QED
    BY <1>1, <2>1, PickFirst
<1>7. (\A i \in DOMAIN bs : Parses(bs[i])) => cs = bs
  <2>1. (\A i \in DOMAIN bs : Parses(bs[i])) => I = DOMAIN bs
    OBVIOUS
  <2>2. QED
    BY <1>1, <2>1, PickAll
<1>8. ASSUME bs # <<>>, Parses(bs[1])
      PROVE  Tail(cs) = Select(Tail(bs), Parses)
  <2> DEFINE rest == Tail(bs)
             J == {i \in DOMAIN rest : i + 1 \in I}
             K == {i \in DOMAIN rest : Parses(rest[i])}
  <2>1. 1 \in I
    BY <1>8
  <2>2. Tail(cs) = Pick(rest, J)
    BY <1>1, <2>1, PickFirst
  <2>3. /\ Len(bs) \in Nat /\ Len(rest) = Len(bs) - 1 /\ rest \in Seq(Block)
        /\ \A i \in 1 .. Len(bs) - 1 : rest[i] = bs[i + 1]
    BY <1>8, TailFacts
  <2> HIDE DEF rest
  <2>4. DOMAIN rest = 1 .. Len(bs) - 1 /\ DOMAIN bs = 1 .. Len(bs)
    BY <2>3
  <2>5. \A i \in DOMAIN rest : i + 1 \in DOMAIN bs /\ rest[i] = bs[i + 1]
    BY <2>3, <2>4
  <2>6. J = K
    BY <2>5
  <2>7. QED
    BY <2>2, <2>6 DEF Select, rest
<1>9. QED
  BY <1>2, <1>3, <1>4, <1>5, <1>6, <1>7, <1>8 DEF cs

\* What every text is once a provider or a controller has normalised it.
Normal(t) == t \in Text /\ Unglued(t) /\ (Decode(t) # <<>> => Clean(t))

LEMMA CleanFacts ==
    ASSUME NEW t, Clean(t)
    PROVE  /\ t \in Text /\ t.blocks \in Seq(Block) /\ Decode(t) = t.blocks
           /\ Unglued(t) /\ Normal(t)
           /\ CertsOf(t) = Ders(t.blocks) \cap (Cert \cup Malformed)
<1>1. t \in Text /\ Plain(t.blocks) /\ t.blocks \in Seq(Block)
  BY TextFacts DEF Clean
<1>2. Unglued(t)
  BY <1>1 DEF Plain, Unglued
<1>3. QED
  BY <1>1, <1>2, DecodeFacts DEF Normal, CertsOf

LEMMA NormalizedIsNormal ==
    ASSUME NEW t \in Text
    PROVE  /\ Normal(NormalizePEM(t))
           /\ CertsOf(NormalizePEM(t)) = CertsOf(t)
<1>1. Binary \notin Cert \cup Malformed
  BY PEMConstants DEF Binary
<1>2. QED
  BY <1>1, NormalizeFacts DEF Normal, CertsOf

LEMMA CertsFacts ==
    ASSUME NEW t \in Text
    PROVE  /\ Certs(t) \in Seq(Block) /\ Plain(Certs(t))
           /\ \A i \in DOMAIN Certs(t) : IsCert(Certs(t)[i])
           /\ Unglued(t) => Ders(Certs(t)) = CertsOf(t)
           /\ Clean(t) => Distinct(Certs(t))
           /\ Decode(t) # <<>> /\ IsCert(Decode(t)[1]) =>
                  Certs(t) # <<>> /\ Certs(t)[1] = Decode(t)[1]
<1> DEFINE bs == Decode(t)
<1>1. /\ bs \in Seq(Block) /\ Plain(bs)
      /\ Unglued(t) => Ders(bs) = Ders(t.blocks) \ {Binary}
  BY DecodeFacts
<1>2. Clean(t) => Distinct(bs)
  BY CleanFacts DEF Clean
<1>3. Binary \notin Cert \cup Malformed
  BY PEMConstants DEF Binary
<1>4. Certs(t) = Select(bs, IsCert)
  BY DEF Certs
<1> HIDE DEF bs
<1>5. /\ Certs(t) \in Seq(Block) /\ \A i \in DOMAIN Certs(t) : IsCert(Certs(t)[i])
      /\ Ders(Certs(t)) = Ders(bs) \cap (Cert \cup Malformed)
      /\ Plain(Certs(t)) /\ (Distinct(bs) => Distinct(Certs(t)))
      /\ bs # <<>> /\ IsCert(bs[1]) => Certs(t) # <<>> /\ Certs(t)[1] = bs[1]
  BY <1>1, <1>4, CertSelection
<1>6. Unglued(t) => Ders(Certs(t)) = CertsOf(t)
  BY <1>1, <1>3, <1>5 DEF CertsOf
<1>7. QED
  BY <1>2, <1>5, <1>6 DEF bs

LEMMA ParsedFacts ==
    ASSUME NEW t \in Text
    PROVE  /\ Parsed(t) \in Seq(Block) /\ Plain(Parsed(t))
           /\ \A i \in DOMAIN Parsed(t) : Parses(Parsed(t)[i])
           /\ Ders(Parsed(t)) = Ders(Decode(t)) \cap Cert
<1> DEFINE bs == Decode(t)
<1>1. bs \in Seq(Block) /\ Plain(bs)
  BY DecodeFacts
<1>2. Parsed(t) = Select(bs, Parses)
  BY DEF Parsed
<1> HIDE DEF bs
<1>3. /\ Parsed(t) \in Seq(Block) /\ \A i \in DOMAIN Parsed(t) : Parses(Parsed(t)[i])
      /\ Ders(Parsed(t)) = Ders(bs) \cap Cert /\ Plain(Parsed(t))
  BY <1>1, <1>2, ParseSelection
<1>4. QED
  BY <1>3 DEF bs

(* The first certificate is the leaf, the others are the chain.            *)
LEMMA SplitFacts ==
    ASSUME NEW t \in Text
    PROVE  LET split == SplitLeafAndChain(t)
           IN  /\ split.leaf \in Text /\ split.chain \in Text
               /\ ~split.leaf.open /\ Plain(split.leaf.blocks)
               /\ ~split.chain.open /\ Plain(split.chain.blocks)
               /\ Certs(t) = <<>> => split.leaf = Empty /\ split.chain = Empty
               /\ Certs(t) # <<>> => /\ split.leaf.blocks = <<Certs(t)[1]>>
                                     /\ split.chain.blocks = Tail(Certs(t))
<1> DEFINE cs == Certs(t)
           split == SplitLeafAndChain(t)
<1>1. cs \in Seq(Block) /\ Plain(cs)
  BY CertsFacts
<1>2. split = IF cs = <<>> THEN [leaf |-> Empty, chain |-> Empty]
              ELSE [leaf |-> Encode(<<Head(cs)>>), chain |-> Encode(Tail(cs))]
  BY DEF SplitLeafAndChain
<1> HIDE DEF cs, split
<1>3. CASE cs = <<>>
  <2>1. split.leaf = Empty /\ split.chain = Empty
    BY <1>2, <1>3
  <2>2. Empty \in Text /\ ~Empty.open /\ Plain(Empty.blocks)
    <3>1. <<>> \in Seq(Block)
      OBVIOUS
    <3>2. Empty \in Text
      BY <3>1 DEF Empty, Text
    <3>3. QED
      BY <3>2 DEF Empty, Plain
  <2>3. QED
    BY <1>3, <2>1, <2>2 DEF cs, split
<1>4. CASE cs # <<>>
  <2> DEFINE b == cs[1]
             rest == Tail(cs)
  <2>1. b \in Block /\ Head(cs) = b /\ rest \in Seq(Block) /\ Plain(rest)
    BY <1>1, <1>4, TailFacts
  <2>2. ~b.glued /\ IsBlock(b)
    BY <1>1, <1>4 DEF Plain
  <2> HIDE DEF b, rest
  <2>3. <<b>> \in Seq(Block) /\ Plain(<<b>>)
    BY <2>1, <2>2 DEF Plain
  <2>4. split.leaf = Encode(<<b>>) /\ split.chain = Encode(rest)
    BY <1>2, <1>4, <2>1 DEF rest
  <2>5. Encode(<<b>>) \in Text /\ ~Encode(<<b>>).open /\ Encode(<<b>>).blocks = <<b>>
    BY <2>3, EncodeFacts
  <2>6. Encode(rest) \in Text /\ ~Encode(rest).open /\ Encode(rest).blocks = rest
    BY <2>1, EncodeFacts
  <2>7. QED
    BY <1>4, <2>1, <2>3, <2>4, <2>5, <2>6 DEF cs, split, b, rest
<1>5. QED
  BY <1>3, <1>4

(* What goes into a keystore, and what a chain is told to consist of.      *)
LEMMA ParseChainFacts ==
    ASSUME NEW t \in Text
    PROVE  /\ ParseChainDER(t) \in Seq({b \in Block : Parses(b)})
           /\ Ders(ParseChainDER(t)) = Ders(Decode(t)) \cap Cert
           /\ Distinct(Parsed(t)) => ParseChainDER(t) = Parsed(t)
<1> DEFINE bs == Parsed(t)
           ds == Dedup(bs)
<1>1. /\ bs \in Seq(Block) /\ \A i \in DOMAIN bs : Parses(bs[i])
      /\ Ders(bs) = Ders(Decode(t)) \cap Cert
  BY ParsedFacts
<1>2. ParseChainDER(t) = ds
  BY DEF ParseChainDER
<1> HIDE DEF bs, ds
<1>3. ds \in Seq(Block) /\ Ders(ds) = Ders(bs) /\ (Distinct(bs) => ds = bs)
  BY <1>1, DedupFacts DEF ds
<1>4. Len(ds) \in Nat /\ \A i \in 1 .. Len(ds) : ds[i] \in Block /\ Parses(ds[i])
  <2>1. Len(ds) \in Nat /\ DOMAIN ds = 1 .. Len(ds) /\ \A i \in 1 .. Len(ds) : ds[i] \in Block
    BY <1>3
  <2>2. \A i \in DOMAIN bs : bs[i].der \in Cert
    BY <1>1 DEF Parses
  <2>3. Ders(bs) \subseteq Cert
    BY <2>2 DEF Ders
  <2>4. \A i \in DOMAIN ds : ds[i].der \in Ders(ds)
    BY DEF Ders
  <2>5. QED
    BY <1>3, <2>1, <2>3, <2>4 DEF Parses
<1>5. ds \in Seq({b \in Block : Parses(b)})
  <2> DEFINE S == {b \in Block : Parses(b)}
  <2>1. \A i \in 1 .. Len(ds) : ds[i] \in S
    BY <1>4
  <2> HIDE DEF S
  <2>2. ds \in Seq(S)
    BY <1>3, <2>1
  <2>3. QED
    BY <2>2 DEF S
<1>6. QED
  BY <1>1, <1>2, <1>3, <1>5 DEF bs

(* What SplitPEM makes of the text of ACM.                                 *)
LEMMA SplitPEMFacts ==
    ASSUME NEW t \in Text
    PROVE  /\ SplitPEM(t).cert \in Text
           /\ Unglued(t) => CertsOf(SplitPEM(t).cert) = CertsOf(t)
           /\ Normal(SplitPEM(t).key)
           /\ SplitPEM(t).key # Empty =>
                  Encode(<<Decode(SplitPEM(t).key)[1]>>) = SplitPEM(t).key
<1> DEFINE cs == Certs(t)
           ks == Select(Decode(t), IsKey)
<1>1. /\ cs \in Seq(Block) /\ Plain(cs)
      /\ Unglued(t) => Ders(cs) = CertsOf(t)
  BY CertsFacts
<1>2. /\ SplitPEM(t).cert = Encode(cs)
      /\ SplitPEM(t).key = IF ks = <<>> THEN Empty ELSE Encode(<<Last(ks)>>)
  BY DEF SplitPEM
<1> HIDE DEF cs
<1>3. /\ Encode(cs) \in Text /\ Ders(Encode(cs).blocks) = Ders(cs)
  BY <1>1, EncodeFacts
<1>4. Unglued(t) => CertsOf(Encode(cs)) = CertsOf(t)
  BY <1>1, <1>3 DEF CertsOf
<1>5. ks \in Seq(Block) /\ Plain(ks)
  <2> DEFINE bs == Decode(t)
             I == {i \in DOMAIN bs : IsKey(bs[i])}
  <2>1. bs \in Seq(Block) /\ Plain(bs)
    BY DecodeFacts
  <2>2. ks = Pick(bs, I)
    BY DEF Select
  <2>3. I \in SUBSET (DOMAIN bs)
    OBVIOUS
  <2> HIDE DEF bs, I, ks
  <2>4. QED
    BY <2>1, <2>2, <2>3, PickKeeps
<1> HIDE DEF ks
<1>6. CASE ks = <<>>
  <2>1. Empty \in Text /\ Unglued(Empty) /\ Decode(Empty) = <<>>
    <3>1. <<>> \in Seq(Block)
      OBVIOUS
    <3>2. Empty \in Text /\ Plain(Empty.blocks) /\ Empty.blocks = <<>>
      BY <3>1 DEF Empty, Text, Plain
    <3>3. QED
      BY <3>2, DecodeFacts DEF Unglued
  <2>2. QED
    BY <1>2, <1>3, <1>4, <1>6, <2>1 DEF Normal
<1>7. CASE ks # <<>>
  <2> DEFINE b == Last(ks)
  <2>1. b \in Block /\ ~b.glued /\ IsBlock(b)
    <3>1. Len(ks) \in DOMAIN ks
      BY <1>5, <1>7
    <3>2. QED
      BY <1>5, <3>1 DEF Plain, Last
  <2> HIDE DEF b
  <2>2. <<b>> \in Seq(Block) /\ Plain(<<b>>) /\ Distinct(<<b>>)
    BY <2>1 DEF Plain, Distinct
  <2>3. Clean(Encode(<<b>>))
    BY <2>2, EncodeFacts DEF Clean
  <2>4. Normal(Encode(<<b>>))
    BY <2>3, CleanFacts
  <2>5. Decode(Encode(<<b>>)) = <<b>>
    <3>1. Encode(<<b>>) \in Text /\ Encode(<<b>>).blocks = <<b>>
      BY <2>2, EncodeFacts
    <3>2. QED
      BY <2>2, <3>1, DecodeFacts
  <2>6. Encode(<<Decode(Encode(<<b>>))[1]>>) = Encode(<<b>>)
    BY <2>5
  <2>7. QED
    BY <1>2, <1>3, <1>4, <1>7, <2>4, <2>6 DEF b
<1>8. QED
  BY <1>6, <1>7

(* Plain blocks behind plain blocks.                                       *)
LEMMA ConcatPlain ==
    ASSUME NEW bs \in Seq(Block), NEW cs \in Seq(Block), Plain(bs), Plain(cs)
    PROVE  /\ bs \o cs \in Seq(Block) /\ Plain(bs \o cs)
           /\ Ders(bs \o cs) = Ders(bs) \cup Ders(cs)
           /\ bs # <<>> => bs \o cs # <<>> /\ (bs \o cs)[1] = bs[1]
<1> DEFINE ds == bs \o cs
           n == Len(bs)
           m == Len(cs)
<1>1. /\ ds \in Seq(Block) /\ Len(ds) = n + m /\ n \in Nat /\ m \in Nat
      /\ \A i \in 1 .. n + m : ds[i] = IF i <= n THEN bs[i] ELSE cs[i - n]
  BY ConcatProperties
<1>2. DOMAIN ds = 1 .. n + m /\ DOMAIN bs = 1 .. n /\ DOMAIN cs = 1 .. m
  BY <1>1
<1>3. /\ \A i \in 1 .. n : ~bs[i].glued /\ IsBlock(bs[i])
      /\ \A i \in 1 .. m : ~cs[i].glued /\ IsBlock(cs[i])
  BY <1>2 DEF Plain
<1>4. bs # <<>> => n # 0
  OBVIOUS
<1> HIDE DEF ds, n, m
<1>5. \A i \in 1 .. n + m : i <= n => i \in 1 .. n
  BY <1>1
<1>6. \A i \in 1 .. n + m : ~(i <= n) => i - n \in 1 .. m
  BY <1>1
<1>7. \A i \in 1 .. n + m : ~ds[i].glued /\ IsBlock(ds[i])
  BY <1>1, <1>3, <1>5, <1>6
<1>8. bs # <<>> => ds # <<>> /\ ds[1] = bs[1]
  <2>1. bs # <<>> => 1 \in 1 .. n + m /\ 1 <= n
    BY <1>1, <1>4
  <2>2. QED
    BY <1>1, <1>2, <2>1
<1>9. Ders(ds) = Ders(bs) \cup Ders(cs)
  BY DersOfConcat DEF ds
<1>10. QED
  BY <1>1, <1>2, <1>7, <1>8, <1>9 DEF Plain, ds

\* A text of whole lines, in which every block can be decoded.
Closed(t) == t \in Text /\ ~t.open /\ Plain(t.blocks)

LEMMA ClosedFacts ==
    ASSUME NEW t, Closed(t)
    PROVE  /\ t \in Text /\ t.blocks \in Seq(Block) /\ Unglued(t)
           /\ Decode(t) = t.blocks
           /\ CertsOf(t) = Ders(Certs(t))
<1>1. t \in Text /\ Plain(t.blocks) /\ t.blocks \in Seq(Block)
  BY TextFacts DEF Closed
<1>2. Unglued(t)
  BY <1>1 DEF Plain, Unglued
<1>3. QED
  BY <1>1, <1>2, DecodeFacts, CertsFacts

(* Such texts are joined block by block.                                   *)
LEMMA ConcatClosed ==
    ASSUME NEW t, NEW u, Closed(t), Closed(u)
    PROVE  /\ Closed(Concat(t, u))
           /\ Concat(t, u).blocks = t.blocks \o u.blocks
           /\ CertsOf(Concat(t, u)) = CertsOf(t) \cup CertsOf(u)
<1>1. /\ t \in Text /\ t.blocks \in Seq(Block) /\ Unglued(t) /\ ~t.open /\ Plain(t.blocks)
      /\ u \in Text /\ u.blocks \in Seq(Block) /\ Unglued(u) /\ ~u.open /\ Plain(u.blocks)
  BY ClosedFacts DEF Closed
<1>2. /\ Concat(t, u) \in Text /\ Concat(t, u).blocks = t.blocks \o u.blocks
      /\ Ders(Concat(t, u).blocks) = Ders(t.blocks) \cup Ders(u.blocks)
  BY <1>1, ConcatFacts
<1>3. ~Concat(t, u).open
  BY <1>1 DEF Concat
<1>4. Plain(t.blocks \o u.blocks)
  BY <1>1, ConcatPlain
<1>5. QED
  BY <1>2, <1>3, <1>4 DEF Closed, CertsOf

(* A path ends in the signer of its last certificate when nobody knows it. *)
Top(t)      == Last(Parsed(t)).der
RootText(t) == Encode(<<[der |-> Signer[Top(t)], glued |-> FALSE]>>)
Rootless(t) == Parsed(t) # <<>> /\ ~SelfSigned(Top(t)) /\ Signer[Top(t)] \in KnownRoots

LEMMA RootFacts ==
    ASSUME NEW t \in Text
    PROVE  /\ Parsed(t) # <<>> => Top(t) \in Cert
           /\ Rootless(t) => /\ Clean(RootText(t))
                             /\ RootText(t).blocks =
                                    <<[der |-> Signer[Top(t)], glued |-> FALSE]>>
                             /\ CertsOf(RootText(t)) = {Signer[Top(t)]}
           /\ CompleteChain(t) = IF Rootless(t) THEN NormalizePEM(Concat(t, RootText(t)))
                                 ELSE t
<1> DEFINE b == [der |-> Signer[Top(t)], glued |-> FALSE]
<1>1. Parsed(t) \in Seq(Block) /\ \A i \in DOMAIN Parsed(t) : Parses(Parsed(t)[i])
  BY ParsedFacts
<1>2. Parsed(t) # <<>> => Top(t) \in Cert
  <2>1. Parsed(t) # <<>> => Len(Parsed(t)) \in DOMAIN Parsed(t)
    BY <1>1
  <2>2. QED
    BY <1>1, <2>1 DEF Top, Last, Parses
<1>3. ASSUME Rootless(t)
      PROVE  /\ Clean(RootText(t)) /\ RootText(t).blocks = <<b>>
             /\ CertsOf(RootText(t)) = {Signer[Top(t)]}
  <2>1. Signer[Top(t)] \in Cert
    BY <1>3, PEMConstants DEF Rootless
  <2>2. b \in Block /\ ~b.glued /\ IsBlock(b) /\ b.der = Signer[Top(t)]
    BY <2>1, PEMConstants DEF Block, IsBlock, Binary
  <2>3. RootText(t) = Encode(<<b>>)
    BY DEF RootText
  <2> HIDE DEF b
  <2>4. <<b>> \in Seq(Block) /\ Plain(<<b>>) /\ Distinct(<<b>>)
    BY <2>2 DEF Plain, Distinct
  <2>5. Clean(RootText(t)) /\ RootText(t).blocks = <<b>>
    BY <2>3, <2>4, EncodeFacts DEF Clean
  <2>6. Ders(<<b>>) = {b.der}
    BY DEF Ders
  <2>7. QED
    BY <2>1, <2>2, <2>5, <2>6 DEF CertsOf
<1>4. CompleteChain(t) = IF Rootless(t) THEN NormalizePEM(Concat(t, RootText(t))) ELSE t
  BY DEF CompleteChain, Rootless, RootText, Top
<1>5. QED
  BY <1>2, <1>3, <1>4

(* Completing a chain loses nothing and adds no more than a known root.    *)
LEMMA CompleteFacts ==
    ASSUME NEW t \in Text
    PROVE  /\ CompleteChain(t) \in Text
           /\ Unglued(t) => Unglued(CompleteChain(t))
           /\ Normal(t) => Normal(CompleteChain(t))
           /\ CertsOf(t) \subseteq CertsOf(CompleteChain(t))
           /\ CertsOf(CompleteChain(t)) \ CertsOf(t) \subseteq KnownRoots
<1>1. CASE ~Rootless(t)
  <2>1. CompleteChain(t) = t
    BY <1>1, RootFacts
  <2>2. QED
    BY <2>1
<1>2. CASE Rootless(t)
  <2> DEFINE r == RootText(t)
             c == Concat(t, r)
  <2>1. /\ Clean(r) /\ CertsOf(r) = {Signer[Top(t)]} /\ Signer[Top(t)] \in KnownRoots
        /\ CompleteChain(t) = NormalizePEM(c)
    BY <1>2, RootFacts DEF Rootless
  <2>2. r \in Text
    BY <2>1, CleanFacts
  <2> HIDE DEF r
  <2>3. c \in Text /\ Ders(c.blocks) = Ders(t.blocks) \cup Ders(r.blocks)
    BY <2>2, ConcatFacts
  <2>4. CertsOf(c) = CertsOf(t) \cup {Signer[Top(t)]}
    BY <2>1, <2>3 DEF CertsOf
  <2> HIDE DEF c
  <2>5. Normal(NormalizePEM(c)) /\ CertsOf(NormalizePEM(c)) = CertsOf(c)
    BY <2>3, NormalizedIsNormal
  <2>6. QED
    BY <2>1, <2>4, <2>5 DEF Normal
<1>3. QED
  BY <1>1, <1>2

(* The blocks of the two follow one another.                               *)
LEMMA ConcatInOrder ==
    ASSUME NEW t \in Text, NEW u \in Text
    PROVE  LET n == Len(t.blocks)
               m == Len(u.blocks)
               bs == Concat(t, u).blocks
           IN  /\ n \in Nat /\ m \in Nat /\ DOMAIN bs = 1 .. n + m
               /\ \A i \in 1 .. n : bs[i].der = t.blocks[i].der
               /\ \A i \in 1 .. m : bs[n + i].der = u.blocks[i].der
<1> DEFINE as == t.blocks
           cs == u.blocks
           n == Len(as)
           m == Len(cs)
           bs == Concat(t, u).blocks
<1>1. /\ as \in Seq(Block) /\ cs \in Seq(Block) /\ n \in Nat /\ m \in Nat
      /\ t = Empty <=> as = <<>>
      /\ u = Empty <=> cs = <<>>
      /\ DOMAIN as = 1 .. n /\ DOMAIN cs = 1 .. m
  BY TextFacts
<1>2. CASE t = Empty
  <2>1. bs = cs /\ as = <<>>
    BY <1>1, <1>2 DEF Concat
  <2>2. n = 0
    BY <2>1
  <2> HIDE DEF as, cs, n, m, bs
  <2>3. /\ DOMAIN bs = 1 .. n + m
        /\ \A i \in 1 .. n : bs[i].der = as[i].der
        /\ \A i \in 1 .. m : bs[n + i].der = cs[i].der
    BY <1>1, <2>1, <2>2
  <2>4. QED
    BY <1>1, <2>3 DEF as, cs, n, m, bs
<1>3. CASE t # Empty /\ u = Empty
  <2>1. bs = as /\ cs = <<>>
    BY <1>1, <1>3 DEF Concat
  <2>2. m = 0
    BY <2>1
  <2> HIDE DEF as, cs, n, m, bs
  <2>3. /\ DOMAIN bs = 1 .. n + m
        /\ \A i \in 1 .. n : bs[i].der = as[i].der
        /\ \A i \in 1 .. m : bs[n + i].der = cs[i].der
    BY <1>1, <2>1, <2>2
  <2>4. QED
    BY <1>1, <2>3 DEF as, cs, n, m, bs
<1>4. CASE t # Empty /\ u # Empty
  <2> DEFINE h == [Head(cs) EXCEPT !.glued = t.open]
             one == <<h>>
             ds == as \o one
             rest == Tail(cs)
  <2>1. bs = ds \o rest
    BY <1>4 DEF Concat
  <2>2. cs # <<>>
    BY <1>1, <1>4
  <2>3. h \in Block /\ h.der = cs[1].der /\ m >= 1
    <3>1. Head(cs) \in Block /\ Head(cs) = cs[1]
      BY <1>1, <2>2
    <3>2. t.open \in BOOLEAN
      BY TextFacts
    <3>3. m >= 1
      BY <1>1, <2>2
    <3>4. QED
      BY <3>1, <3>2, <3>3 DEF Block
  <2>4. /\ rest \in Seq(Block) /\ Len(rest) = m - 1
        /\ \A i \in 1 .. m - 1 : rest[i] = cs[i + 1]
    BY <1>1, <2>2, TailFacts
  <2> HIDE DEF h, rest, cs, as, bs
  <2>5. one \in Seq(Block) /\ Len(one) = 1 /\ one[1] = h
    BY <2>3
  <2> HIDE DEF one
  <2>6. /\ ds \in Seq(Block) /\ Len(ds) = Len(as) + Len(one)
        /\ \A i \in 1 .. Len(as) + Len(one) :
               ds[i] = IF i <= Len(as) THEN as[i] ELSE one[i - Len(as)]
    <3>1. as \in Seq(Block) /\ one \in Seq(Block)
      BY <1>1, <2>5
    <3>2. QED
      BY <3>1, ConcatProperties
  <2> HIDE DEF ds
  <2>7. /\ ds \o rest \in Seq(Block) /\ Len(ds \o rest) = Len(ds) + Len(rest)
        /\ \A i \in 1 .. Len(ds) + Len(rest) :
               (ds \o rest)[i] = IF i <= Len(ds) THEN ds[i] ELSE rest[i - Len(ds)]
    <3>1. ds \in Seq(Block) /\ rest \in Seq(Block)
      BY <2>4, <2>6
    <3>2. QED
      BY <3>1, ConcatProperties
  <2> HIDE DEF n, m
  <2>12. /\ Len(ds) = n + 1 /\ Len(ds \o rest) = n + m
         /\ \A i \in 1 .. n + 1 : ds[i] = IF i <= n THEN as[i] ELSE one[i - n]
         /\ \A i \in 1 .. n + m : (ds \o rest)[i] = IF i <= n + 1 THEN ds[i] ELSE rest[i - (n + 1)]
    <3>1. Len(as) = n /\ n \in Nat /\ m \in Nat /\ m >= 1
      BY <1>1, <2>3 DEF n, m
    <3>2. Len(one) = 1 /\ Len(rest) = m - 1
      BY <2>4, <2>5
    <3>3. Len(ds) = n + 1
      BY <2>6, <3>1, <3>2
    <3>4. Len(ds \o rest) = n + m /\ Len(ds) + Len(rest) = n + m
      BY <2>7, <3>1, <3>2, <3>3
    <3>5. \A i \in 1 .. n + 1 : ds[i] = IF i <= n THEN as[i] ELSE one[i - n]
      BY <2>6, <3>1, <3>2
    <3>6. \A i \in 1 .. n + m : (ds \o rest)[i] = IF i <= n + 1 THEN ds[i] ELSE rest[i - (n + 1)]
      BY <2>7, <3>3, <3>4
    <3>7. QED
      BY <3>3, <3>4, <3>5, <3>6
  <2>8. DOMAIN bs = 1 .. n + m
    BY <2>1, <2>7, <2>12
  <2>9. ASSUME NEW i \in 1 .. n PROVE bs[i].der = as[i].der
    <3>1. i \in 1 .. n + 1 /\ i \in 1 .. n + m /\ i <= n /\ i <= n + 1
      BY <1>1, <2>3
    <3>2. bs[i] = ds[i] /\ ds[i] = as[i]
      BY <2>1, <2>12, <3>1
    <3>3. QED
      BY <3>2
  <2>10. ASSUME NEW i \in 1 .. m PROVE bs[n + i].der = cs[i].der
    <3>1. CASE i = 1
      <4>1. n + 1 \in 1 .. n + 1 /\ n + 1 \in 1 .. n + m /\ ~(n + 1 <= n)
            /\ n + 1 <= n + 1 /\ (n + 1) - n = 1
        BY <1>1, <2>3
      <4>2. bs[n + 1] = ds[n + 1] /\ ds[n + 1] = h
        BY <2>1, <2>5, <2>12, <4>1
      <4>3. QED
        BY <2>3, <3>1, <4>2
    <3>2. CASE i # 1
      <4>1. /\ n + i \in 1 .. n + m /\ ~(n + i <= n + 1)
            /\ (n + i) - (n + 1) = i - 1 /\ i - 1 \in 1 .. m - 1 /\ (i - 1) + 1 = i
        BY <1>1, <2>3, <3>2
      <4>2. bs[n + i] = rest[i - 1] /\ rest[i - 1] = cs[i]
        BY <2>1, <2>4, <2>12, <4>1
      <4>3. QED
        BY <4>2
    <3>3. QED
      BY <3>1, <3>2
  <2>11. QED
    BY <1>1, <2>8, <2>9, <2>10 DEF as, cs, n, m, bs
<1>5. QED
  BY <1>2, <1>3, <1>4

(* What has been normalised is not changed by normalising it again.        *)
LEMMA NormalAgain ==
    ASSUME NEW t, Normal(t)
    PROVE  NormalizePEM(t) = t
<1>1. t \in Text /\ Unglued(t) /\ Unglue(t) = t
  BY UnglueFacts DEF Normal
<1>2. CASE Decode(t) = <<>>
  <2>1. <<>> \in Seq(Block)
    OBVIOUS
  <2>2. Dedup(Decode(Unglue(t))) = <<>>
    BY <1>1, <1>2, <2>1, DedupFacts
  <2>3. QED
    BY <1>1, <2>2 DEF NormalizePEM
<1>3. CASE Decode(t) # <<>>
  <2>1. /\ Clean(t) /\ Decode(t) = t.blocks /\ t.blocks \in Seq(Block)
        /\ ~t.open /\ Plain(t.blocks) /\ Distinct(t.blocks)
    BY <1>3, CleanFacts DEF Normal, Clean
  <2>2. Dedup(Decode(Unglue(t))) = t.blocks
    BY <1>1, <2>1, DedupFacts
  <2>3. Encode(t.blocks).blocks = t.blocks /\ ~Encode(t.blocks).open
        /\ Encode(t.blocks) \in Text
    BY <2>1, EncodeFacts
  <2>4. Encode(t.blocks) = t
    <3> DEFINE e == Encode(t.blocks)
    <3>1. e = [blocks |-> e.blocks, open |-> e.open] /\ e.open \in BOOLEAN
      BY <2>3, TextFacts
    <3>2. t = [blocks |-> t.blocks, open |-> t.open] /\ t.open \in BOOLEAN
      BY <1>1, TextFacts
    <3> HIDE DEF e
    <3>3. e.blocks = t.blocks /\ e.open = t.open
      BY <2>1, <2>3, <3>1, <3>2 DEF e
    <3>4. e = t
      BY <3>1, <3>2, <3>3
    <3>5. QED
      BY <3>4 DEF e
  <2>5. QED
    BY <1>1, <1>3, <2>1, <2>2, <2>4 DEF NormalizePEM
<1>4. QED
  BY <1>2, <1>3

(* The first block of a text is decoded first, and stays first.            *)
LEMMA DecodeFirst ==
    ASSUME NEW t \in Text, Unglued(t), t.blocks # <<>>, IsBlock(t.blocks[1])
    PROVE  Decode(t) # <<>> /\ Decode(t)[1] = t.blocks[1]
<1> DEFINE I == {i \in DOMAIN t.blocks :
                       /\ IsBlock(t.blocks[i])
                       /\ \A j \in DOMAIN t.blocks : j \in {i, i + 1} => ~t.blocks[j].glued}
<1>1. t.blocks \in Seq(Block)
  BY TextFacts
<1>2. 1 \in I
  BY <1>1 DEF Unglued
<1>3. Decode(t) = Pick(t.blocks, I) /\ I \in SUBSET (DOMAIN t.blocks)
  BY DEF Decode
<1> HIDE DEF I
<1>4. QED
  BY <1>1, <1>2, <1>3, PickFirst

LEMMA NormalizePlain ==
    ASSUME NEW t \in Text, Plain(t.blocks), t.blocks # <<>>
    PROVE  /\ Clean(NormalizePEM(t))
           /\ NormalizePEM(t).blocks = Dedup(t.blocks)
           /\ Dedup(t.blocks) # <<>> /\ Dedup(t.blocks)[1] = t.blocks[1]
           /\ Distinct(Dedup(t.blocks)) /\ Plain(Dedup(t.blocks))
           /\ Dedup(t.blocks) \in Seq(Block)
<1>1. t.blocks \in Seq(Block) /\ Unglued(t)
  BY TextFacts DEF Plain, Unglued
<1>2. Unglue(t) = t /\ Decode(t) = t.blocks
  BY <1>1, UnglueFacts, DecodeFacts
<1>3. Ders(t.blocks) \ {Binary} # {}
  <2>1. 1 \in DOMAIN t.blocks
    BY <1>1
  <2>2. t.blocks[1].der \in Ders(t.blocks) /\ t.blocks[1].der # Binary
    BY <2>1 DEF Ders, Plain, IsBlock
  <2>3. QED
    BY <2>2
<1>4. Decode(NormalizePEM(t)) # <<>>
  BY <1>3, NormalizeFacts
<1>5. Clean(NormalizePEM(t)) /\ NormalizePEM(t).blocks = Dedup(t.blocks)
  BY <1>2, <1>4, NormalizeFacts
<1>6. QED
  BY <1>1, <1>5, DedupFacts

(* The first block stays the first when a chain is completed.              *)
LEMMA CompleteClosed ==
    ASSUME NEW t, Closed(t), t.blocks # <<>>
    PROVE  /\ Closed(CompleteChain(t))
           /\ CompleteChain(t).blocks # <<>>
           /\ CompleteChain(t).blocks[1] = t.blocks[1]
           /\ ~Rootless(t) => CompleteChain(t) = t
           /\ Rootless(t) => /\ Clean(CompleteChain(t))
                             /\ CompleteChain(t).blocks =
                                    Dedup(t.blocks \o RootText(t).blocks)
<1>1. t \in Text /\ t.blocks \in Seq(Block) /\ Plain(t.blocks)
  BY ClosedFacts DEF Closed
<1>2. CASE ~Rootless(t)
  BY <1>1, <1>2, RootFacts
<1>3. CASE Rootless(t)
  <2> DEFINE r == RootText(t)
             c == Concat(t, r)
  <2>1. Clean(r) /\ CompleteChain(t) = NormalizePEM(c)
    BY <1>1, <1>3, RootFacts
  <2>2. Closed(r)
    BY <2>1 DEF Clean, Closed
  <2> HIDE DEF r
  <2>3. Closed(c) /\ c.blocks = t.blocks \o r.blocks
    BY <2>2, ConcatClosed
  <2>4. r.blocks \in Seq(Block) /\ Plain(r.blocks)
    BY <2>2, ClosedFacts DEF Closed
  <2>5. c.blocks # <<>> /\ c.blocks[1] = t.blocks[1]
    BY <1>1, <2>3, <2>4, ConcatPlain
  <2> HIDE DEF c
  <2>6. c \in Text /\ Plain(c.blocks)
    BY <2>3 DEF Closed
  <2>7. /\ Clean(NormalizePEM(c)) /\ NormalizePEM(c).blocks = Dedup(c.blocks)
        /\ Dedup(c.blocks) # <<>> /\ Dedup(c.blocks)[1] = c.blocks[1]
    BY <2>5, <2>6, NormalizePlain
  <2>8. QED
    BY <1>3, <2>1, <2>3, <2>5, <2>7 DEF Clean, Closed, r
<1>4. QED
  BY <1>2, <1>3

-----------------------------------------------------------------------------
(* Signing paths. *)

\* A path that VerifyChain accepts: the chain has been normalised, the leaf may be
\* in it once more.
Path(bs) ==
    /\ bs \in Seq(Block) /\ bs # <<>> /\ Plain(bs)
    /\ \A i \in DOMAIN bs : Parses(bs[i])
    /\ IsPath(bs)
    /\ \A i, j \in 2 .. Len(bs) : bs[i].der = bs[j].der => i = j

(* What only repeats its beginning is cut off after it.                    *)
LEMMA DedupPrefix ==
    ASSUME NEW bs \in Seq(Block), NEW m \in 0 .. Len(bs),
           \A i, j \in 1 .. m : bs[i].der = bs[j].der => i = j,
           \A i \in m + 1 .. Len(bs) : \E j \in 1 .. m : bs[j].der = bs[i].der
    PROVE  Dedup(bs) = SubSeq(bs, 1, m)
<1> DEFINE I == {i \in DOMAIN bs : \A j \in DOMAIN bs : j < i => bs[j].der # bs[i].der}
<1>1. Dedup(bs) = Pick(bs, I)
  BY DEF Dedup
<1>2. DOMAIN bs = 1 .. Len(bs) /\ Len(bs) \in Nat
  OBVIOUS
<1>3. ASSUME NEW i \in 1 .. m PROVE i \in I
  <2>1. i \in DOMAIN bs /\ \A j \in DOMAIN bs : j < i => j \in 1 .. m /\ j # i
    BY <1>2
  <2>2. QED
    BY <2>1
<1>4. ASSUME NEW i \in I PROVE i \in 1 .. m
  <2> SUFFICES ASSUME i \notin 1 .. m PROVE FALSE
    OBVIOUS
  <2>1. i \in m + 1 .. Len(bs)
    BY <1>2
  <2>2. PICK j \in 1 .. m : bs[j].der = bs[i].der
    BY <2>1
  <2>3. j \in DOMAIN bs /\ j < i
    BY <1>2, <2>1
  <2>4. QED
    BY <2>2, <2>3
<1>5. I = 1 .. m
  BY <1>3, <1>4
<1>6. QED
  BY <1>1, <1>5, PickPrefix

(* Of a path, only the last certificate can be there twice, as the first.  *)
LEMMA PathRepeats ==
    ASSUME NEW bs, Path(bs),
           NEW i \in 1 .. Len(bs), NEW j \in 1 .. Len(bs),
           bs[i].der = bs[j].der, i < j
    PROVE  i = 1 /\ j = Len(bs)
<1> DEFINE n == Len(bs)
<1>1. /\ n \in Nat /\ DOMAIN bs = 1 .. n
      /\ \A k, l \in 2 .. n : bs[k].der = bs[l].der => k = l
      /\ \A k \in 1 .. n - 1 : Signer[bs[k].der] = bs[k + 1].der
  BY DEF Path, IsPath
<1> HIDE DEF n
<1>2. i \in 1 .. n /\ j \in 1 .. n
  BY DEF n
<1>3. i = 1
  <2> SUFFICES ASSUME i # 1 PROVE FALSE
    OBVIOUS
  <2>1. i \in 2 .. n /\ j \in 2 .. n /\ i # j
    BY <1>1, <1>2
  <2>2. QED
    BY <1>1, <2>1
<1>4. j = n
  <2> SUFFICES ASSUME j # n PROVE FALSE
    OBVIOUS
  <2>1. j \in 1 .. n - 1 /\ 1 \in 1 .. n - 1 /\ j + 1 \in 2 .. n /\ 2 \in 2 .. n /\ j + 1 # 2
    BY <1>1, <1>2, <1>3
  <2>2. Signer[bs[j].der] = bs[j + 1].der /\ Signer[bs[1].der] = bs[2].der
    BY <1>1, <2>1
  <2>3. bs[j + 1].der = bs[2].der
    BY <1>3, <2>2
  <2>4. QED
    BY <1>1, <2>1, <2>3
<1>5. QED
  BY <1>3, <1>4 DEF n

(* Of a path, Dedup leaves a path.                                         *)
LEMMA DedupPath ==
    ASSUME NEW bs, Path(bs)
    PROVE  Path(Dedup(bs)) /\ Distinct(Dedup(bs)) /\ Dedup(bs)[1] = bs[1]
<1> DEFINE n == Len(bs)
<1>1. /\ bs \in Seq(Block) /\ bs # <<>> /\ n \in Nat /\ n >= 1 /\ DOMAIN bs = 1 .. n
      /\ Plain(bs)
      /\ \A i \in 1 .. n : Parses(bs[i])
      /\ \A k, l \in 2 .. n : bs[k].der = bs[l].der => k = l
      /\ \A k \in 1 .. n - 1 : Signer[bs[k].der] = bs[k + 1].der
  BY DEF Path, IsPath
<1>2. \A i, j \in 1 .. n : bs[i].der = bs[j].der /\ i < j => i = 1 /\ j = n
  BY PathRepeats
<1>3. CASE Distinct(bs)
  BY <1>1, <1>3, DedupFacts
<1>4. CASE ~Distinct(bs)
  <2> DEFINE m == n - 1
             ds == SubSeq(bs, 1, m)
  <2> HIDE DEF n
  <2>1. PICK i \in 1 .. n, j \in 1 .. n : bs[i].der = bs[j].der /\ i # j
    BY <1>1, <1>4 DEF Distinct
  <2>2. i < j \/ j < i
    BY <1>1, <2>1
  <2>3. bs[1].der = bs[n].der /\ n # 1
    BY <1>1, <1>2, <2>1, <2>2
  <2>4. m \in 0 .. n /\ m >= 1 /\ m \in Nat
    BY <1>1, <2>3
  <2>5. \A k, l \in 1 .. m : bs[k].der = bs[l].der => k = l
    <3> SUFFICES ASSUME NEW k \in 1 .. m, NEW l \in 1 .. m, bs[k].der = bs[l].der, k # l
                 PROVE  FALSE
      OBVIOUS
    <3>1. k \in 1 .. n /\ l \in 1 .. n /\ k # n /\ l # n /\ (k < l \/ l < k)
      BY <1>1, <2>4
    <3>2. QED
      BY <1>2, <3>1
  <2>6. \A k \in m + 1 .. n : \E l \in 1 .. m : bs[l].der = bs[k].der
    <3> SUFFICES ASSUME NEW k \in m + 1 .. n PROVE \E l \in 1 .. m : bs[l].der = bs[k].der
      OBVIOUS
    <3>1. k = n /\ 1 \in 1 .. m
      BY <1>1, <2>4
    <3>2. QED
      BY <2>3, <3>1
  <2>7. Dedup(bs) = ds
    <3> HIDE DEF m, ds
    <3>1. Dedup(bs) = SubSeq(bs, 1, m)
      BY <1>1, <2>4, <2>5, <2>6, DedupPrefix DEF n, m
    <3>2. QED
      BY <3>1 DEF ds
  <2>8. ds \in Seq(Block) /\ Len(ds) = m /\ \A k \in 1 .. m : ds[k] = bs[k]
    <3>1. \A k \in 1 .. m : bs[k] \in Block
      BY <1>1, <2>4
    <3>2. QED
      BY <1>1, <2>4, <3>1, SubSeqProperties DEF n
  <2> HIDE DEF m, ds
  <2>9. DOMAIN ds = 1 .. m /\ \A k \in 1 .. m : k \in 1 .. n
    BY <1>1, <2>4, <2>8
  <2>10. ds # <<>> /\ ds[1] = bs[1]
    BY <2>4, <2>8, <2>9
  <2>11. Plain(ds) /\ \A k \in DOMAIN ds : Parses(ds[k])
    BY <1>1, <2>8, <2>9 DEF Plain
  <2>12. Distinct(ds)
    BY <2>5, <2>8, <2>9 DEF Distinct
  <2>13. IsPath(ds)
    <3>1. \A k \in 1 .. m - 1 : k \in 1 .. m /\ k + 1 \in 1 .. m /\ k \in 1 .. n - 1
      BY <1>1, <2>4, <2>9 DEF m
    <3>2. \A k \in 1 .. m - 1 : Signer[ds[k].der] = ds[k + 1].der
      BY <1>1, <2>8, <3>1
    <3>3. QED
      BY <2>8, <3>2 DEF IsPath
  <2>14. \A k, l \in 2 .. Len(ds) : ds[k].der = ds[l].der => k = l
    <3>1. \A k \in 2 .. Len(ds) : k \in DOMAIN ds
      BY <2>4, <2>8, <2>9
    <3>2. QED
      BY <2>12, <3>1 DEF Distinct
  <2>15. QED
    BY <2>7, <2>8, <2>10, <2>11, <2>12, <2>13, <2>14 DEF Path
<1>5. QED
  BY <1>3, <1>4

(* One block more is kept unless it is there already.                      *)
LEMMA DedupOneMore ==
    ASSUME NEW bs \in Seq(Block), Distinct(bs), NEW b \in Block
    PROVE  Dedup(bs \o <<b>>) = IF b.der \in Ders(bs) THEN bs ELSE bs \o <<b>>
<1> DEFINE n == Len(bs)
           ds == bs \o <<b>>
<1>1. /\ ds \in Seq(Block) /\ Len(ds) = n + 1 /\ n \in Nat
      /\ \A i \in 1 .. n : ds[i] = bs[i]
      /\ ds[n + 1] = b
  BY ConcatProperties
<1>2. DOMAIN bs = 1 .. n /\ DOMAIN ds = 1 .. n + 1
  BY <1>1
<1> HIDE DEF n, ds
<1>3. \A i, j \in 1 .. n : ds[i].der = ds[j].der => i = j
  BY <1>1, <1>2 DEF Distinct
<1>4. CASE b.der \in Ders(bs)
  <2>1. PICK j \in 1 .. n : ds[j].der = b.der
    BY <1>1, <1>2, <1>4 DEF Ders
  <2>2. \A i \in n + 1 .. Len(ds) : \E k \in 1 .. n : ds[k].der = ds[i].der
    BY <1>1, <2>1
  <2>3. n \in 0 .. Len(ds)
    BY <1>1
  <2>4. Dedup(ds) = SubSeq(ds, 1, n)
    BY <1>1, <1>3, <2>2, <2>3, DedupPrefix
  <2>5. SubSeq(ds, 1, n) = bs
    <3>1. /\ SubSeq(ds, 1, n) \in Seq(Block) /\ Len(SubSeq(ds, 1, n)) = n
          /\ \A i \in 1 .. n : SubSeq(ds, 1, n)[i] = bs[i]
      <4>1. \A i \in 1 .. n : ds[i] \in Block
        BY <1>1, <1>2
      <4>2. QED
        BY <1>1, <4>1, SubSeqProperties
    <3> DEFINE s == SubSeq(ds, 1, n)
    <3>2. s \in Seq(Block) /\ Len(s) = Len(bs) /\ \A i \in 1 .. Len(s) : s[i] = bs[i]
      BY <3>1 DEF n
    <3> HIDE DEF s
    <3>3. s = bs
      BY <3>2, SeqEqual
    <3>4. QED
      BY <3>3 DEF s
  <2>6. QED
    BY <1>4, <2>4, <2>5 DEF ds
<1>5. CASE b.der \notin Ders(bs)
  <2>1. \A i \in 1 .. n : ds[i].der # b.der
    BY <1>1, <1>2, <1>5 DEF Ders
  <2>2. \A i, j \in 1 .. n + 1 : ds[i].der = ds[j].der => i = j
    <3> SUFFICES ASSUME NEW i \in 1 .. n + 1, NEW j \in 1 .. n + 1,
                        ds[i].der = ds[j].der, i # j
                 PROVE  FALSE
      OBVIOUS
    <3>1. (i \in 1 .. n \/ i = n + 1) /\ (j \in 1 .. n \/ j = n + 1)
      BY <1>1
    <3>2. QED
      BY <1>1, <1>3, <2>1, <3>1
  <2>3. Distinct(ds)
    BY <1>2, <2>2 DEF Distinct
  <2>4. QED
    BY <1>1, <1>5, <2>3, DedupFacts DEF ds
<1>6. QED
  BY <1>4, <1>5

(* Where every block parses, nothing is passed over.                       *)
LEMMA PathSelects ==
    ASSUME NEW bs, Path(bs)
    PROVE  /\ Select(bs, Parses) = bs /\ Select(bs, IsCert) = bs
           /\ Len(bs) \in Nat /\ Len(bs) >= 1 /\ DOMAIN bs = 1 .. Len(bs)
           /\ \A t \in Text : Closed(t) /\ t.blocks = bs =>
                  Certs(t) = bs /\ Parsed(t) = bs
<1>1. bs \in Seq(Block) /\ bs # <<>> /\ \A i \in DOMAIN bs : Parses(bs[i])
  BY DEF Path
<1>2. \A i \in DOMAIN bs : IsCert(bs[i])
  BY <1>1 DEF IsCert, Parses
<1>3. Select(bs, Parses) = bs /\ Select(bs, IsCert) = bs
  BY <1>1, <1>2, ParseSelection, CertSelection
<1>4. ASSUME NEW t \in Text, Closed(t), t.blocks = bs
      PROVE  Certs(t) = bs /\ Parsed(t) = bs
  <2>1. Decode(t) = bs
    BY <1>4, ClosedFacts
  <2>2. QED
    BY <1>3, <2>1 DEF Certs, Parsed
<1>5. QED
  BY <1>1, <1>3, <1>4

(* A root behind the last makes a longer path.                             *)
LEMMA LongerPath ==
    ASSUME NEW bs, Path(bs), Distinct(bs),
           NEW b \in Block, ~b.glued, Parses(b), b.der \notin Ders(bs),
           Signer[bs[Len(bs)].der] = b.der
    PROVE  Path(bs \o <<b>>)
<1> DEFINE n == Len(bs)
           ds == bs \o <<b>>
<1>1. /\ bs \in Seq(Block) /\ bs # <<>> /\ n \in Nat /\ n >= 1 /\ DOMAIN bs = 1 .. n
      /\ Plain(bs)
      /\ \A i \in 1 .. n : Parses(bs[i])
      /\ \A k \in 1 .. n - 1 : Signer[bs[k].der] = bs[k + 1].der
      /\ Signer[bs[n].der] = b.der
  BY DEF Path, IsPath
<1>2. /\ ds \in Seq(Block) /\ Len(ds) = n + 1
      /\ \A i \in 1 .. n : ds[i] = bs[i]
      /\ ds[n + 1] = b
  BY <1>1, ConcatProperties
<1>3. Dedup(ds) = ds
  <2>1. bs \in Seq(Block)
    BY <1>1
  <2>2. Dedup(bs \o <<b>>) = IF b.der \in Ders(bs) THEN bs ELSE bs \o <<b>>
    BY <2>1, DedupOneMore
  <2> HIDE DEF ds
  <2>3. QED
    BY <2>2 DEF ds
<1>4. Distinct(ds)
  BY <1>2, <1>3, DedupFacts
<1> HIDE DEF n, ds
<1>5. DOMAIN ds = 1 .. n + 1 /\ ds # <<>>
  BY <1>1, <1>2
<1>6. \A i \in 1 .. n + 1 : i \in 1 .. n \/ i = n + 1
  BY <1>1
<1>7. IsBlock(b)
  BY PEMConstants DEF Parses, IsBlock, Binary
<1>8. Plain(ds)
  <2>1. \A i \in 1 .. n : ~bs[i].glued /\ IsBlock(bs[i])
    BY <1>1 DEF Plain
  <2>2. \A i \in 1 .. n + 1 : ~ds[i].glued /\ IsBlock(ds[i])
    BY <1>2, <1>6, <1>7, <2>1
  <2>3. QED
    BY <1>5, <2>2 DEF Plain
<1>9. \A i \in DOMAIN ds : Parses(ds[i])
  <2>1. \A i \in 1 .. n : Parses(ds[i])
    BY <1>1, <1>2
  <2>2. Parses(ds[n + 1])
    BY <1>2
  <2>3. QED
    BY <1>5, <1>6, <2>1, <2>2
<1>10. IsPath(ds)
  <2>1. \A k \in 1 .. n : Signer[ds[k].der] = ds[k + 1].der
    <3> SUFFICES ASSUME NEW k \in 1 .. n PROVE Signer[ds[k].der] = ds[k + 1].der
      OBVIOUS
    <3>1. CASE k = n
      BY <1>1, <1>2, <3>1
    <3>2. CASE k # n
      <4>1. k \in 1 .. n - 1 /\ k + 1 \in 1 .. n
        BY <1>1, <3>2
      <4>2. QED
        BY <1>1, <1>2, <4>1
    <3>3. QED
      BY <3>1, <3>2
  <2>2. Len(ds) - 1 = n
    BY <1>1, <1>2
  <2>3. QED
    BY <2>1, <2>2 DEF IsPath
<1>11. \A i, j \in 2 .. Len(ds) : ds[i].der = ds[j].der => i = j
  <2>1. \A i \in 2 .. Len(ds) : i \in DOMAIN ds
    BY <1>1, <1>2, <1>5
  <2>2. QED
    BY <1>4, <2>1 DEF Distinct
<1>12. QED
  BY <1>2, <1>5, <1>8, <1>9, <1>10, <1>11 DEF Path, ds

(* A completed path is a path, from the same leaf.                         *)
LEMMA CompletePath ==
    ASSUME NEW t, Closed(t), Path(t.blocks)
    PROVE  LET done == CompleteChain(t)
           IN  /\ Closed(done) /\ Path(done.blocks)
               /\ done.blocks[1] = t.blocks[1]
               /\ Distinct(t.blocks) => Distinct(done.blocks)
<1> DEFINE bs == t.blocks
           n == Len(bs)
           r == Signer[Top(t)]
           b == [der |-> r, glued |-> FALSE]
           done == CompleteChain(t)
<1>1. /\ t \in Text /\ bs # <<>> /\ bs \in Seq(Block)
      /\ Parsed(t) = bs /\ n \in Nat /\ n >= 1 /\ DOMAIN bs = 1 .. n
  BY ClosedFacts, PathSelects DEF Path
<1>2. /\ Closed(done) /\ done.blocks # <<>> /\ done.blocks[1] = bs[1]
      /\ ~Rootless(t) => done = t
      /\ Rootless(t) => Clean(done) /\ done.blocks = Dedup(bs \o RootText(t).blocks)
  BY <1>1, CompleteClosed
<1>3. CASE ~Rootless(t)
  BY <1>2, <1>3
<1>4. CASE Rootless(t)
  <2>1. /\ r \in KnownRoots /\ r \in Cert /\ Signer[r] = r
        /\ Top(t) = bs[n].der /\ r # Top(t)
        /\ RootText(t).blocks = <<b>>
    <3>1. r \in KnownRoots /\ r # Top(t)
      BY <1>4 DEF Rootless, SelfSigned
    <3>2. r \in Cert /\ Signer[r] = r
      BY <3>1, PEMConstants
    <3>3. Top(t) = bs[n].der
      BY <1>1 DEF Top, Last
    <3>4. RootText(t).blocks = <<b>>
      BY <1>1, <1>4, RootFacts
    <3>5. QED
      BY <3>1, <3>2, <3>3, <3>4
  <2> HIDE DEF r
  <2>2. b \in Block /\ ~b.glued /\ Parses(b) /\ b.der = r
    BY <2>1 DEF Block, Parses
  <2> HIDE DEF b, n, done
  <2>3. /\ \A k, l \in 2 .. n : bs[k].der = bs[l].der => k = l
        /\ \A k \in 1 .. n - 1 : Signer[bs[k].der] = bs[k + 1].der
    BY DEF Path, IsPath, n
  <2>4. Signer[bs[n].der] = r
    BY <2>1 DEF r
  <2>5. Distinct(bs)
    <3> SUFFICES ASSUME ~Distinct(bs) PROVE FALSE
      OBVIOUS
    <3>1. PICK i \in 1 .. n, j \in 1 .. n : bs[i].der = bs[j].der /\ i # j
      BY <1>1 DEF Distinct
    <3>2. i < j \/ j < i
      BY <1>1, <3>1
    <3>3. bs[1].der = bs[n].der /\ n >= 2
      <4>1. \A k, l \in 1 .. n : bs[k].der = bs[l].der /\ k < l => k = 1 /\ l = n
        BY PathRepeats DEF n
      <4>2. QED
        BY <1>1, <3>1, <3>2, <4>1
    <3>4. bs[2].der = r
      <4>1. 1 \in 1 .. n - 1
        BY <1>1, <3>3
      <4>2. QED
        BY <2>3, <2>4, <3>3, <4>1
    <3>5. CASE n = 2
      BY <2>1, <3>4, <3>5
    <3>6. CASE n # 2
      <4>1. 2 \in 1 .. n - 1 /\ 2 \in 2 .. n /\ 3 \in 2 .. n
        BY <1>1, <3>3, <3>6
      <4>2. bs[3].der = r
        BY <2>1, <2>3, <3>4, <4>1
      <4>3. QED
        BY <2>3, <3>4, <4>1, <4>2
    <3>7. QED
      BY <3>5, <3>6
  <2>6. done.blocks = IF r \in Ders(bs) THEN bs ELSE bs \o <<b>>
    BY <1>1, <1>2, <1>4, <2>1, <2>2, <2>5, DedupOneMore
  <2>7. Path(done.blocks)
    <3>1. CASE r \in Ders(bs)
      BY <2>6, <3>1
    <3>2. CASE r \notin Ders(bs)
      BY <2>2, <2>4, <2>5, <2>6, <3>2, LongerPath DEF n
    <3>3. QED
      BY <3>1, <3>2
  <2>8. QED
    BY <1>2, <1>4, <2>7 DEF Clean, done
<1>5. QED
  BY <1>3, <1>4

=============================================================================
