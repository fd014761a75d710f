---------------------------- MODULE PositionsProof ----------------------------
(***************************************************************************)
(* What is picked from a sequence by a set of positions.                      *)
(***************************************************************************)
EXTENDS Positions, Sequences, FiniteSetTheorems, TLAPS

\* The ranks of a set of positions are its initial numbers, each once.
LEMMA RankIsBijective ==
  ASSUME NEW n \in Nat, NEW ps \in SUBSET (1..n)
  PROVE  /\ IsFiniteSet(ps) /\ Cardinality(ps) \in Nat
         /\ \A i \in ps : Rank(ps, i) \in 1..Cardinality(ps)
         /\ \A i, j \in ps : Rank(ps, i) = Rank(ps, j) => i = j
         /\ \A k \in 1..Cardinality(ps) : \E i \in ps : Rank(ps, i) = k
<1> DEFINE upTo(i) == {j \in ps : j <= i}
           rank == [i \in ps |-> Rank(ps, i)]
           m == Cardinality(ps)
<1>1. IsFiniteSet(ps) /\ m \in Nat
  <2>1. IsFiniteSet(1..n)
    BY FS_Interval
  <2>2. IsFiniteSet(ps)
    BY <2>1, FS_Subset
  <2> QED
    BY <2>2, FS_CardinalityType
<1>2. \A i \in ps : IsFiniteSet(upTo(i)) /\ Cardinality(upTo(i)) \in 1..m
  <2> TAKE i \in ps
  <2>1. upTo(i) \in SUBSET ps
    OBVIOUS
  <2>2. IsFiniteSet(upTo(i)) /\ Cardinality(upTo(i)) <= m
    BY <1>1, <2>1, FS_Subset
  <2>3. i \in upTo(i)
    OBVIOUS
  <2>4. Cardinality(upTo(i)) \in Nat /\ Cardinality(upTo(i)) # 0
    BY <2>2, <2>3, FS_CardinalityType, FS_EmptySet
  <2> HIDE DEF upTo, m
  <2> QED
    BY <1>1, <2>2, <2>4
<1>3. \A i, j \in ps : i < j => Cardinality(upTo(i)) # Cardinality(upTo(j))
  <2> SUFFICES ASSUME NEW i \in ps, NEW j \in ps, i < j,
                      Cardinality(upTo(i)) = Cardinality(upTo(j))
               PROVE  FALSE
    OBVIOUS
  <2>1. upTo(i) \in SUBSET upTo(j)
    <3>1. \A x \in ps : x <= i => x <= j
      BY i \in 1..n, j \in 1..n
    <3> QED
      BY <3>1, Zenon
  <2>2. upTo(i) = upTo(j)
    BY <1>2, <2>1, FS_Subset
  <2>3. j \in upTo(j) /\ j \notin upTo(i)
    OBVIOUS
  <2> QED
    BY <2>2, <2>3
<1>4. \A i, j \in ps : Rank(ps, i) = Rank(ps, j) => i = j
  <2> TAKE i, j \in ps
  <2> HAVE Rank(ps, i) = Rank(ps, j)
  <2>1. ~(i < j) /\ ~(j < i)
    BY <1>3 DEF Rank
  <2> QED
    BY <2>1
<1>5. \A i \in ps : Rank(ps, i) \in 1..m
  BY <1>2 DEF Rank
<1>6. rank \in Injection(ps, 1..m)
  <2>1. rank \in [ps -> 1..m]
    BY <1>5, Zenon
  <2>2. \A i, j \in ps : rank[i] = rank[j] => i = j
    BY <1>4, Zenon
  <2> QED
    BY <2>1, <2>2, Zenon DEF Injection, IsInjective
<1>7. rank \in Surjection(ps, 1..m)
  <2>1. IsFiniteSet(1..m) /\ Cardinality(1..m) = m
    BY <1>1, FS_Interval
  <2> QED
    BY <1>6, <2>1, FS_Injection
<1>8. \A k \in 1..m : \E i \in ps : Rank(ps, i) = k
  <2>1. \A k \in 1..m : \E i \in ps : rank[i] = k
    BY <1>7, Zenon DEF Surjection
  <2> QED
    BY <2>1
<1> QED
  BY <1>1, <1>4, <1>5, <1>8

\* The places of the elements of a total order are its initial numbers, each once.
LEMMA PlaceIsBijective ==
  ASSUME NEW n \in Nat, NEW below, \A k \in 1..n : below[k] \in SUBSET (1..n) /\ k \notin below[k],
         \A j, k \in 1..n : j # k => j \in below[k] \/ k \in below[j],
         \A j, k \in 1..n : j \in below[k] => below[j] \subseteq below[k]
  PROVE  /\ \A k \in 1..n : Cardinality(below[k]) + 1 \in 1..n
         /\ \A j, k \in 1..n : Cardinality(below[j]) = Cardinality(below[k]) => j = k
         /\ \A i \in 1..n : \E k \in 1..n : Cardinality(below[k]) + 1 = i
<1> DEFINE S == 1..n
           place == [k \in S |-> Cardinality(below[k]) + 1]
<1>1. IsFiniteSet(S) /\ Cardinality(S) = n
  BY FS_Interval
<1>2. \A k \in S : IsFiniteSet(below[k]) /\ Cardinality(below[k]) \in Nat
  BY <1>1, FS_Subset, FS_CardinalityType
<1> HIDE DEF S
<1>3. \A k \in S : Cardinality(below[k]) + 1 \in S
  <2> TAKE k \in S
  <2>1. Cardinality(below[k] \cup {k}) = Cardinality(below[k]) + 1
    BY <1>2, FS_AddElement DEF S
  <2>2. below[k] \cup {k} \in SUBSET S
    BY DEF S
  <2>3. Cardinality(below[k] \cup {k}) <= n
    BY <1>1, <2>2, FS_Subset
  <2> QED
    BY <1>2, <2>1, <2>3 DEF S
<1>4. \A j, k \in S : j \in below[k] => Cardinality(below[j]) # Cardinality(below[k])
  <2> SUFFICES ASSUME NEW j \in S, NEW k \in S, j \in below[k],
                      Cardinality(below[j]) = Cardinality(below[k])
               PROVE  FALSE
    OBVIOUS
  <2>1. below[j] \in SUBSET below[k]
    BY DEF S
  <2>2. below[j] = below[k]
    BY <1>2, <2>1, FS_Subset
  <2> QED
    BY <2>2 DEF S
<1>5. \A j, k \in S : Cardinality(below[j]) = Cardinality(below[k]) => j = k
  BY <1>4 DEF S
<1>6. place \in Injection(S, S)
  <2>1. place \in [S -> S]
    BY <1>3
  <2>2. \A j, k \in S : place[j] = place[k] => j = k
    BY <1>2, <1>5
  <2> QED
    BY <2>1, <2>2, Zenon DEF Injection, IsInjective
<1>7. place \in Surjection(S, S)
  BY <1>1, <1>6, FS_Injection
<1>8. \A i \in S : \E k \in S : Cardinality(below[k]) + 1 = i
  <2>1. \A i \in S : \E k \in S : place[k] = i
    BY <1>7, Zenon DEF Surjection
  <2> QED
    BY <2>1
<1> QED
  BY <1>3, <1>5, <1>8 DEF S

\* The k-th position is one of them, every one is the k-th for some k, and no
\* two have the same k.
LEMMA NthIsBijective ==
  ASSUME NEW n \in Nat, NEW ps \in SUBSET (1..n)
  PROVE  /\ Cardinality(ps) \in Nat
         /\ \A k \in 1..Cardinality(ps) : Nth(ps, k) \in ps
         /\ \A k, l \in 1..Cardinality(ps) : Nth(ps, k) = Nth(ps, l) => k = l
         /\ \A i \in ps : \E k \in 1..Cardinality(ps) : Nth(ps, k) = i
<1>1. /\ Cardinality(ps) \in Nat
      /\ \A i \in ps : Rank(ps, i) \in 1..Cardinality(ps)
      /\ \A i, j \in ps : Rank(ps, i) = Rank(ps, j) => i = j
      /\ \A k \in 1..Cardinality(ps) : \E i \in ps : Rank(ps, i) = k
  BY RankIsBijective
<1>2. \A k \in 1..Cardinality(ps) : Nth(ps, k) \in ps /\ Rank(ps, Nth(ps, k)) = k
  BY <1>1, Zenon DEF Nth
<1>3. \A i \in ps : Nth(ps, Rank(ps, i)) = i
  <2> TAKE i \in ps
  <2>1. Rank(ps, i) \in 1..Cardinality(ps)
    BY <1>1, Zenon
  <2>2. Nth(ps, Rank(ps, i)) \in ps /\ Rank(ps, Nth(ps, Rank(ps, i))) = Rank(ps, i)
    BY <1>2, <2>1, Zenon
  <2> QED
    BY <1>1, <2>2, Zenon
<1> QED
  BY <1>1, <1>2, <1>3, Zenon

\* What a sequence has at a set of its positions.
LEMMA PickedIsSubsequence ==
  ASSUME NEW S, NEW seq \in Seq(S), NEW ps \in SUBSET DOMAIN seq
  PROVE  /\ Picked(seq, ps) \in Seq(S)
         /\ \A k \in 1..Len(Picked(seq, ps)) : \E i \in ps : Picked(seq, ps)[k] = seq[i]
         /\ \A i \in ps : \E k \in 1..Len(Picked(seq, ps)) : Picked(seq, ps)[k] = seq[i]
         /\ \A k, l \in 1..Len(Picked(seq, ps)) : k # l =>
              \E i, j \in ps : i # j /\ Picked(seq, ps)[k] = seq[i] /\ Picked(seq, ps)[l] = seq[j]
<1>1. Len(seq) \in Nat /\ ps \subseteq 1..Len(seq)
  <2>1. Len(seq) \in Nat /\ DOMAIN seq = 1..Len(seq)
    OBVIOUS
  <2> QED
    BY <2>1
<1>2. /\ Cardinality(ps) \in Nat
      /\ \A k \in 1..Cardinality(ps) : Nth(ps, k) \in ps
      /\ \A k, l \in 1..Cardinality(ps) : Nth(ps, k) = Nth(ps, l) => k = l
      /\ \A i \in ps : \E k \in 1..Cardinality(ps) : Nth(ps, k) = i
  BY <1>1, NthIsBijective
<1>3. Picked(seq, ps) \in Seq(S) /\ Len(Picked(seq, ps)) = Cardinality(ps)
  BY <1>1, <1>2 DEF Picked
<1>4. \A k \in 1..Cardinality(ps) : Picked(seq, ps)[k] = seq[Nth(ps, k)]
  BY DEF Picked
<1> QED
  BY <1>2, <1>3, <1>4

=============================================================================
