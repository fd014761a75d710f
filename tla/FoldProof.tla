------------------------------ MODULE FoldProof ------------------------------
(***************************************************************************)
(* What a fold over a list makes, for a step and an invariant given where     *)
(* the module is instantiated; `context` is what the step depends on besides.   *)
(***************************************************************************)
EXTENDS Naturals, Sequences, SequencesExt, WellFoundedInduction, TLAPS

CONSTANTS
  Op(_, _, _),    \* the step: context, what there is, the next element
  Inv(_, _, _)    \* the invariant: context, the elements gone past, what there is

Folded(context, base, list) == FoldLeft(LAMBDA x, y : Op(context, x, y), base, list)

Iterates(context, base, list, n, iter) ==
  iter = [d \in SUBSET (1..n) |->
            IF d = {} THEN base ELSE Op(context, iter[d \ {Max(d)}], list[Max(d)])]

LEMMA GreatestIs ==
  ASSUME NEW m \in Nat, NEW d \in SUBSET (1..m), m \in d
  PROVE  Max(d) = m
<1>1. \A y \in d : m >= y
  OBVIOUS
<1>2. \A x \in d : (\A y \in d : x >= y) => x = m
  BY <1>1
<1> QED
  BY <1>1, <1>2 DEF Max

\* The recursion over the sets of positions has a solution.
LEMMA IterateExists ==
  ASSUME NEW context, NEW base, NEW list
  PROVE  \A n \in Nat : \E iter : Iterates(context, base, list, n, iter)
<1> DEFINE none == {n \in Nat : ~\E iter : Iterates(context, base, list, n, iter)}
<1> SUFFICES ASSUME none # {} PROVE FALSE
  OBVIOUS
<1>1. PICK n \in none : \A m \in none : ~(m < n)
  <2>1. none \in SUBSET Nat
    OBVIOUS
  <2> HIDE DEF none
  <2>2. PICK n \in none : \A m \in none : ~(<<m, n>> \in OpToRel(<, Nat))
    BY <2>1, NatLessThanWellFounded, WFMin
  <2> QED
    BY <2>1, <2>2 DEF OpToRel
<1>2. n # 0
  <2> SUFFICES ASSUME n = 0 PROVE FALSE
    OBVIOUS
  <2> DEFINE iter == [d \in SUBSET (1..0) |-> base]
  <2>1. SUBSET (1..0) = {{}}
    OBVIOUS
  <2>2. Iterates(context, base, list, 0, iter)
    BY <2>1 DEF Iterates
  <2> QED
    BY <2>2
<1>3. n - 1 \in Nat /\ n - 1 \notin none
  <2>1. n \in Nat
    OBVIOUS
  <2> HIDE DEF none
  <2> QED
    BY <1>1, <1>2, <2>1
<1>4. PICK f : Iterates(context, base, list, n - 1, f)
  BY <1>3
<1> DEFINE g == [d \in SUBSET (1..n) |->
                   IF n \in d THEN Op(context, f[d \ {n}], list[n]) ELSE f[d]]
<1>5. \A d \in SUBSET (1..n) :
        g[d] = IF d = {} THEN base ELSE Op(context, g[d \ {Max(d)}], list[Max(d)])
  <2> TAKE d \in SUBSET (1..n)
  <2>1. CASE n \in d
    <3>1. Max(d) = n
      BY <2>1, GreatestIs
    <3>2. d \ {n} \in SUBSET (1..n) /\ n \notin d \ {n} /\ d # {}
      BY <2>1
    <3>3. g[d \ {n}] = f[d \ {n}]
      BY <3>2
    <3>4. g[d] = Op(context, f[d \ {n}], list[n])
      BY <2>1
    <3> HIDE DEF g
    <3> QED
      BY <3>1, <3>2, <3>3, <3>4
  <2>2. CASE n \notin d
    <3>1. d \in SUBSET (1..(n - 1))
      BY <2>2
    <3>2. g[d] = f[d]
      BY <2>2
    <3>3. f[d] = IF d = {} THEN base ELSE Op(context, f[d \ {Max(d)}], list[Max(d)])
      BY <1>4, <3>1, Zenon DEF Iterates
    <3>4. d \ {Max(d)} \in SUBSET (1..n) /\ n \notin d \ {Max(d)}
      BY <2>2
    <3>5. g[d \ {Max(d)}] = f[d \ {Max(d)}]
      BY <3>4
    <3> HIDE DEF g
    <3> QED
      BY <3>2, <3>3, <3>5
  <2> QED
    BY <2>1, <2>2
<1>6. Iterates(context, base, list, n, g)
  <2>1. g = [d \in SUBSET (1..n) |-> g[d]]
    OBVIOUS
  <2> HIDE DEF g
  <2> QED
    BY <1>5, <2>1, Zenon DEF Iterates
<1> QED
  BY <1>6

\* The fold goes from element to element.
LEMMA FoldGoesOn ==
  ASSUME NEW context, NEW base, NEW list, Len(list) \in Nat, DOMAIN list = 1..Len(list)
  PROVE  \E told : /\ told[0] = base
                   /\ \A k \in 1..Len(list) : told[k] = Op(context, told[k - 1], list[k])
                   /\ Folded(context, base, list) = told[Len(list)]
<1> DEFINE n == Len(list)
           iter == CHOOSE f : f = [d \in SUBSET (DOMAIN list) |->
                                     IF d = {} THEN base ELSE Op(context, f[d \ {Max(d)}], list[Max(d)])]
           told == [k \in 0..n |-> iter[1..k]]
<1>1. Folded(context, base, list) = iter[DOMAIN list]
  BY Zenon DEF Folded, FoldLeft, MapThenFoldSet
<1>2. \A d \in SUBSET (1..n) :
        iter[d] = IF d = {} THEN base ELSE Op(context, iter[d \ {Max(d)}], list[Max(d)])
  <2>1. \E f : f = [d \in SUBSET (DOMAIN list) |->
                      IF d = {} THEN base ELSE Op(context, f[d \ {Max(d)}], list[Max(d)])]
    <3>1. \E f : Iterates(context, base, list, Len(list), f)
      BY IterateExists
    <3> QED
      BY <3>1, Zenon DEF Iterates
  <2>2. iter = [d \in SUBSET (DOMAIN list) |->
                  IF d = {} THEN base ELSE Op(context, iter[d \ {Max(d)}], list[Max(d)])]
    BY <2>1, Zenon
  <2> HIDE DEF iter
  <2> QED
    BY <2>2, Zenon
<1> HIDE DEF iter
<1>3. told[0] = base
  <2>1. 1..0 = {} /\ 0 \in 0..n
    OBVIOUS
  <2>2. iter[{}] = base
    BY <1>2
  <2> HIDE DEF n
  <2> QED
    BY <2>1, <2>2
<1>4. \A k \in 1..n : told[k] = Op(context, told[k - 1], list[k])
  <2> TAKE k \in 1..n
  <2> HIDE DEF n, told
  <2>1. /\ 1..k \in SUBSET (1..n) /\ k \in 1..k /\ (1..k) \ {k} = 1..(k - 1)
        /\ k \in 0..n /\ k - 1 \in 0..n
    BY DEF n
  <2>2. Max(1..k) = k
    BY <2>1, GreatestIs
  <2>3. iter[1..k] = Op(context, iter[1..(k - 1)], list[k])
    BY <1>2, <2>1, <2>2
  <2> QED
    BY <2>1, <2>3 DEF told
<1>5. Folded(context, base, list) = told[n]
  BY <1>1
<1> QED
  BY <1>3, <1>4, <1>5

\* What every step keeps, the fold keeps.
LEMMA FoldKeeps ==
  ASSUME NEW context, NEW base, NEW list, Len(list) \in Nat, DOMAIN list = 1..Len(list),
         Inv(context, 0, base),
         \A k \in 1..Len(list) : \A x : Inv(context, k - 1, x) => Inv(context, k, Op(context, x, list[k]))
  PROVE  Inv(context, Len(list), Folded(context, base, list))
<1>1. PICK told : /\ told[0] = base
                  /\ \A k \in 1..Len(list) : told[k] = Op(context, told[k - 1], list[k])
                  /\ Folded(context, base, list) = told[Len(list)]
  BY FoldGoesOn
<1> DEFINE lost == {k \in 0..Len(list) : ~Inv(context, k, told[k])}
<1>2. lost = {}
  <2> SUFFICES ASSUME lost # {} PROVE FALSE
    OBVIOUS
  <2>1. PICK k \in lost : \A m \in lost : ~(m < k)
    <3>1. lost \in SUBSET Nat
      OBVIOUS
    <3> HIDE DEF lost
    <3>2. PICK k \in lost : \A m \in lost : ~(<<m, k>> \in OpToRel(<, Nat))
      BY <3>1, NatLessThanWellFounded, WFMin
    <3> QED
      BY <3>1, <3>2 DEF OpToRel
  <2>2. k # 0
    BY <1>1
  <2>3. k \in 1..Len(list) /\ k - 1 \in 0..Len(list) /\ k - 1 < k
    BY <2>2
  <2>4. k - 1 \notin lost
    BY <2>1, <2>3
  <2>5. Inv(context, k - 1, told[k - 1])
    BY <2>3, <2>4
  <2> QED
    BY <1>1, <2>3, <2>5
<1>3. Inv(context, Len(list), told[Len(list)])
  BY <1>2
<1> QED
  BY <1>1, <1>3

-----------------------------------------------------------------------------
(* Lists that are laid end to end *)

\* The recursion over the lists has a solution.
LEMMA FlattenExists ==
  ASSUME NEW lists
  PROVE  \A n \in Nat : \E flat : flat = [k \in 1..n |-> IF k = 1 THEN lists[k] ELSE flat[k - 1] \o lists[k]]
<1> DEFINE is(n, flat) == flat = [k \in 1..n |-> IF k = 1 THEN lists[k] ELSE flat[k - 1] \o lists[k]]
           none == {n \in Nat : ~\E flat : is(n, flat)}
<1> SUFFICES ASSUME none # {} PROVE FALSE
  OBVIOUS
<1>1. PICK n \in none : \A m \in none : ~(m < n)
  <2>1. none \in SUBSET Nat
    OBVIOUS
  <2> HIDE DEF none
  <2>2. PICK n \in none : \A m \in none : ~(<<m, n>> \in OpToRel(<, Nat))
    BY <2>1, NatLessThanWellFounded, WFMin
  <2> QED
    BY <2>1, <2>2 DEF OpToRel
<1>2. n # 0
  <2> DEFINE flat == [k \in 1..0 |-> <<>>]
  <2>1. flat = [k \in 1..0 |-> IF k = 1 THEN lists[k] ELSE flat[k - 1] \o lists[k]]
    OBVIOUS
  <2>2. is(0, flat)
    BY <2>1
  <2> QED
    BY <2>2
<1>3. n - 1 \in Nat /\ n - 1 \notin none
  <2>1. n \in Nat
    OBVIOUS
  <2> HIDE DEF none
  <2> QED
    BY <1>1, <1>2, <2>1
<1>4. PICK f : is(n - 1, f)
  BY <1>3
<1> DEFINE last == IF n = 1 THEN lists[n] ELSE f[n - 1] \o lists[n]
           g == [k \in 1..n |-> IF k = n THEN last ELSE f[k]]
<1>5. \A k \in 1..n : g[k] = IF k = 1 THEN lists[k] ELSE g[k - 1] \o lists[k]
  <2> TAKE k \in 1..n
  <2> HIDE DEF last
  <2>1. CASE k = n
    <3>1. g[k] = last
      BY <2>1
    <3>2. k # 1 => g[k - 1] = f[k - 1]
      BY <2>1
    <3> QED
      BY <2>1, <3>1, <3>2 DEF last
  <2>2. CASE k # n
    <3>1. k \in 1..(n - 1)
      BY <2>2
    <3>2. g[k] = f[k] /\ (k # 1 => g[k - 1] = f[k - 1])
      BY <3>1
    <3>3. f[k] = IF k = 1 THEN lists[k] ELSE f[k - 1] \o lists[k]
      BY <1>4, <3>1, Zenon
    <3> HIDE DEF g
    <3> QED
      BY <3>2, <3>3
  <2> QED
    BY <2>1, <2>2
<1>6. is(n, g)
  <2>1. g = [k \in 1..n |-> g[k]]
    OBVIOUS
  <2> HIDE DEF g
  <2> QED
    BY <1>5, <2>1, Zenon
<1> QED
  BY <1>6

\* What every list that is added keeps, the whole keeps.
LEMMA FlattenKeeps ==
  ASSUME NEW context, NEW S, NEW lists \in Seq(Seq(S)),
         Inv(context, 0, <<>>),
         \A k \in 1..Len(lists) : \A x \in Seq(S) :
           Inv(context, k - 1, x) => Inv(context, k, x \o lists[k])
  PROVE  FlattenSeq(lists) \in Seq(S) /\ Inv(context, Len(lists), FlattenSeq(lists))
<1>1. CASE Len(lists) = 0
  <2>1. FlattenSeq(lists) = <<>>
    BY <1>1 DEF FlattenSeq
  <2> QED
    BY <1>1, <2>1
<1>2. CASE Len(lists) # 0
  <2> DEFINE n == Len(lists)
             flat == CHOOSE f : f = [k \in 1..n |-> IF k = 1 THEN lists[k] ELSE f[k - 1] \o lists[k]]
  <2>1. FlattenSeq(lists) = flat[n]
    BY <1>2, Zenon DEF FlattenSeq
  <2>2. \A k \in 1..n : flat[k] = IF k = 1 THEN lists[k] ELSE flat[k - 1] \o lists[k]
    <3> DEFINE is(m) == \E f : f = [k \in 1..m |-> IF k = 1 THEN lists[k] ELSE f[k - 1] \o lists[k]]
    <3>1. is(n)
      <4>1. \A m \in Nat : is(m)
        BY FlattenExists, Zenon
      <4>2. n \in Nat
        OBVIOUS
      <4> HIDE DEF is
      <4> QED
        BY <4>1, <4>2
    <3>2. flat = [k \in 1..n |-> IF k = 1 THEN lists[k] ELSE flat[k - 1] \o lists[k]]
      BY <3>1, Zenon
    <3> HIDE DEF flat
    <3> QED
      BY <3>2, Zenon
  <2> HIDE DEF flat
  <2> DEFINE holds(k) == flat[k] \in Seq(S) /\ Inv(context, k, flat[k])
             lost == {k \in 1..n : ~holds(k)}
  <2>3. lost = {}
    <3> SUFFICES ASSUME lost # {} PROVE FALSE
      OBVIOUS
    <3>1. PICK k \in lost : \A m \in lost : ~(m < k)
      <4>1. lost \in SUBSET Nat
        OBVIOUS
      <4> HIDE DEF lost
      <4>2. PICK k \in lost : \A m \in lost : ~(<<m, k>> \in OpToRel(<, Nat))
        BY <4>1, NatLessThanWellFounded, WFMin
      <4> QED
        BY <4>1, <4>2 DEF OpToRel
    <3>2. k \in 1..n /\ ~holds(k)
      OBVIOUS
    <3>3. k # 1
      <4> SUFFICES ASSUME k = 1 PROVE FALSE
        OBVIOUS
      <4>1. flat[1] = lists[1] /\ lists[1] \in Seq(S)
        BY <2>2, <3>2
      <4>2. <<>> \in Seq(S) /\ <<>> \o lists[1] = lists[1]
        BY <4>1
      <4>3. 1 - 1 = 0 /\ 1 \in 1..n
        BY <3>2
      <4>4. Inv(context, 1, <<>> \o lists[1])
        BY <4>2, <4>3
      <4> QED
        BY <3>2, <4>1, <4>2, <4>4
    <3>4. k - 1 \in 1..n /\ k - 1 < k
      BY <3>2, <3>3
    <3>5. holds(k - 1)
      BY <3>1, <3>4
    <3>6. flat[k] = flat[k - 1] \o lists[k]
      BY <2>2, <3>2, <3>3
    <3>7. flat[k] \in Seq(S)
      BY <3>2, <3>5, <3>6
    <3> QED
      BY <3>2, <3>5, <3>6, <3>7
  <2>4. n \in 1..n
    BY <1>2
  <2> QED
    BY <2>1, <2>3, <2>4
<1> QED
  BY <1>1, <1>2

=============================================================================
