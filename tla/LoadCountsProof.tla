-------------------------- MODULE LoadCountsProof --------------------------
(***************************************************************************)
(* What the counters of a push and of its verification are worth, what a    *)
(* finished run leaves on disk, and what its status is worth, for any       *)
(* loaders, trees, projections and bounds.                                  *)
(***************************************************************************)
EXTENDS LoadProof

USE DEF envVars, esVars, diskVars, runVars

-----------------------------------------------------------------------------
(***************************************************************************)
(* The invariant                                                           *)
(***************************************************************************)
\* How many documents of the stream in hand the requests have gone past.
Sent(l) == IF pc[l] = "push" THEN next[l] - 1 ELSE Len(List(l))

Answers(t) == t.created + t.already + t.failed

Searchable(k) == Ids(store[k]) \ hidden[k]

\* Before it projects the tree a run has nothing, and has counted nothing.
Blank(l) ==
  pc[l] \in {"idle", "check"} =>
    docs[l] = NoDocs /\ next[l] = 1 /\ tally[l] = [f \in Stream |-> NoTally]

\* A push goes through populated streams; of the one in hand it has an answer
\* for every document it sent, of the others none.
Tallied(l) ==
  pc[l] \in {"push", "verify"} =>
    /\ todo[l] \subseteq Populated(docs[l])
    /\ pc[l] = "push" => next[l] <= Len(List(l))
    /\ \A f \in todo[l] :
         Answers(tally[l][f]) = IF f = First(todo[l]) THEN Sent(l) ELSE 0

\* When all that was sent of a stream was created, its ids differ and a search
\* finds them.
Visible(l) ==
  pc[l] \in {"push", "verify"} /\ tally[l][First(todo[l])].created = Sent(l) =>
    \A i \in 1..Sent(l) :
      /\ List(l)[i].id \in Searchable(Key(l))
      /\ \A j \in 1..(i - 1) : List(l)[j].id # List(l)[i].id

\* Of a stream in verification that was created in full every query counts all
\* it asks for.
AllCounted(l) ==
  pc[l] = "verify" =>
    (tally[l][First(todo[l])].created = Len(List(l)) => total[l] = next[l] - 1)

\* The documents that are lost: not stored, and no request will send them.
Lost(l, f) == Missing(l, f) \ Unsent(l, f)

LostCounted(l) ==
  opt[l].mode = "push" =>
    \A f \in Stream : Cardinality(Lost(l, f)) <= tally[l][f].failed

HiddenStored == \A k \in Index : hidden[k] \subseteq Ids(store[k])

Counts(l) == Blank(l) /\ Tallied(l) /\ Visible(l) /\ AllCounted(l) /\ LostCounted(l)

CountsInv ==
  /\ SafetyInv
  /\ HiddenStored
  /\ \A l \in Loader : Counts(l)

-----------------------------------------------------------------------------
(***************************************************************************)
(* Operators                                                               *)
(***************************************************************************)
\* Of any positions some one comes first.
LEMMA SmallestPosition ==
  ASSUME NEW S \in SUBSET Nat, NEW n \in S
  PROVE  \E m \in S : \A x \in S : ~(x < m)
<1>1. IsWellFoundedOn(OpToRel(<, Nat), Nat)
  BY NatLessThanWellFounded
<1>2. PICK m \in S : \A x \in S : <<x, m>> \notin OpToRel(<, Nat)
  BY <1>1, WFMin
<1>3. ASSUME NEW x \in S, x < m PROVE FALSE
  BY <1>2, <1>3 DEF OpToRel
<1> QED
  BY <1>3

\* The list a loader has in hand, by its positions.
LEMMA ListType ==
  ASSUME TypeOK, NEW l \in Loader, NEW f \in Stream
  PROVE  /\ docs[l][f] \in Seq(Doc)
         /\ Len(docs[l][f]) \in Nat
         /\ DOMAIN docs[l][f] = 1..Len(docs[l][f])
         /\ <<opt[l].ns, f>> \in Index
<1>1. docs[l][f] \in Seq(Doc)
  BY DEF TypeOK
<1>2. opt[l].ns \in Namespace
  BY OptionsAssumption DEF TypeOK
<1> QED
  BY <1>1, <1>2 DEF Index

LEMMA LostFinite ==
  ASSUME TypeOK, NEW l \in Loader, NEW f \in Stream
  PROVE  IsFiniteSet(Lost(l, f)) /\ Cardinality(Lost(l, f)) \in Nat
<1>1. Lost(l, f) \subseteq 1..Len(docs[l][f]) /\ Len(docs[l][f]) \in Nat
  BY ListType DEF Lost, Missing
<1> QED
  BY <1>1, PositionsFinite

\* The sum of what a request adds to the three counters.
LEMMA AnswersAdd ==
  ASSUME NEW t \in Tallies, NEW p \in Nat, NEW q \in Nat, NEW r \in Nat
  PROVE  /\ Answers(Answered(t, p, q, r)) = Answers(t) + p + q + r
         /\ Answered(t, p, q, r).created = t.created + p
         /\ Answered(t, p, q, r).failed = t.failed + r
         /\ Answers(Unanswered(t, p)) = Answers(t) + p
         /\ Unanswered(t, p).created = t.created
         /\ Unanswered(t, p).failed = t.failed + p
         /\ Answers(t) \in Nat /\ t.created \in Nat /\ t.failed \in Nat
         /\ t.created <= Answers(t)
<1>1. t.created \in Nat /\ t.already \in Nat /\ t.failed \in Nat
  BY DEF Tallies
<1>2. /\ Unanswered(t, p).failed = t.failed + p
      /\ Unanswered(t, p).created = t.created
      /\ Unanswered(t, p).already = t.already
  BY DEF Tallies, Unanswered
<1> QED
  BY <1>1, <1>2 DEF Answered, Answers

\* A lost document more is a failure more.
LEMMA MoreLost ==
  ASSUME NEW A, IsFiniteSet(A), NEW B, IsFiniteSet(B), NEW C, C \subseteq A \cup B,
         NEW n \in Nat, Cardinality(A) <= n, NEW m \in Nat, n + Cardinality(B) <= m
  PROVE  Cardinality(C) <= m
<1>1. IsFiniteSet(A \cup B) /\ Cardinality(A \cup B) <= Cardinality(A) + Cardinality(B)
  <2>1. Cardinality(A \cup B) = Cardinality(A) + Cardinality(B) - Cardinality(A \cap B)
    BY FS_Union
  <2>2. Cardinality(A) \in Nat /\ Cardinality(B) \in Nat /\ Cardinality(A \cap B) \in Nat
    BY FS_Intersection, FS_CardinalityType
  <2> QED
    BY <2>1, <2>2, FS_Union
<1>2. IsFiniteSet(C) /\ Cardinality(C) <= Cardinality(A \cup B)
  BY <1>1, FS_Subset
<1>3. /\ Cardinality(A) \in Nat /\ Cardinality(B) \in Nat /\ Cardinality(C) \in Nat
      /\ Cardinality(A \cup B) \in Nat
  BY <1>1, <1>2, FS_CardinalityType
<1> QED
  BY <1>1, <1>2, <1>3

\* What is accepted of a request is stored after it.
LEMMA AcceptedAreStored ==
  ASSUME NEW d, NEW accepted \in SUBSET Nat, NEW stored, NEW i \in accepted
  PROVE  d[i].id \in Ids(stored \cup {d[x] : x \in Fresh(d, accepted, stored)})
<1> DEFINE alike == {x \in accepted : d[x].id = d[i].id}
<1>1. alike \in SUBSET Nat /\ i \in alike
  OBVIOUS
<1>2. PICK m \in alike : \A x \in alike : ~(x < m)
  <2> HIDE DEF alike
  <2> QED
    BY <1>1, SmallestPosition
<1>3. CASE d[m].id \in Ids(stored)
  BY <1>2, <1>3 DEF Ids
<1>4. CASE d[m].id \notin Ids(stored)
  <2>1. m \in Fresh(d, accepted, stored)
    BY <1>2, <1>4 DEF Fresh
  <2> QED
    BY <1>2, <2>1 DEF Ids
<1> QED
  BY <1>3, <1>4

\* As many positions of a request as it has are all of them.
LEMMA WholeChunk ==
  ASSUME NEW p \in Nat, NEW q \in Nat, p <= q, NEW S \in SUBSET (p..q),
         Cardinality(S) = q - p + 1
  PROVE  \A x \in p..q : x \in S
<1>1. IsFiniteSet(p..q) /\ Cardinality(p..q) = q - p + 1
  BY FS_Interval
<1>2. S = p..q
  BY <1>1, FS_Subset
<1> QED
  BY <1>2

\* The three counters share a request out.
LEMMA ChunkIsSharedOut ==
  ASSUME NEW p \in Nat, NEW q \in Nat, p <= q, NEW refused \in SUBSET (p..q),
         NEW new \in SUBSET ((p..q) \ refused)
  PROVE  /\ Cardinality(new) \in Nat /\ Cardinality(refused) \in Nat
         /\ Cardinality(((p..q) \ refused) \ new) \in Nat
         /\ Cardinality(new) + Cardinality(((p..q) \ refused) \ new)
              + Cardinality(refused) = q - p + 1
         /\ Cardinality(new) <= q - p + 1
         /\ IsFiniteSet(refused)
<1>1. IsFiniteSet(p..q) /\ Cardinality(p..q) = q - p + 1
  BY FS_Interval
<1> DEFINE all == p..q
           taken == all \ refused
<1>2. /\ IsFiniteSet(refused) /\ IsFiniteSet(taken) /\ IsFiniteSet(new)
      /\ IsFiniteSet(taken \ new)
  BY <1>1, FS_Subset
<1>3. /\ Cardinality(new) \in Nat /\ Cardinality(refused) \in Nat
      /\ Cardinality(taken \ new) \in Nat /\ Cardinality(taken) \in Nat
  BY <1>2, FS_CardinalityType
<1>4. Cardinality(taken) = Cardinality(all) - Cardinality(all \cap refused)
  BY <1>1, <1>2, FS_Difference
<1>5. Cardinality(taken \ new) = Cardinality(taken) - Cardinality(taken \cap new)
  BY <1>2, FS_Difference
<1>6. all \cap refused = refused /\ taken \cap new = new
  OBVIOUS
<1>7. new \subseteq all
  OBVIOUS
<1> HIDE DEF all, taken
<1>9. /\ Cardinality(new) + Cardinality(taken \ new) + Cardinality(refused) = Cardinality(all)
      /\ Cardinality(new) <= Cardinality(all)
  <2>1. Cardinality(all) \in Nat
    BY <1>1, FS_CardinalityType DEF all
  <2>2. Cardinality(taken) = Cardinality(all) - Cardinality(refused)
    BY <1>4, <1>6, Zenon
  <2>3. Cardinality(taken \ new) = Cardinality(taken) - Cardinality(new)
    BY <1>5, <1>6, Zenon
  <2>4. /\ Cardinality(new) \in Nat /\ Cardinality(refused) \in Nat
        /\ Cardinality(taken \ new) \in Nat /\ Cardinality(taken) \in Nat
    BY <1>3
  <2> QED
    BY <2>1, <2>2, <2>3, <2>4
<1> QED
  BY <1>1, <1>2, <1>3, <1>9 DEF all, taken

-----------------------------------------------------------------------------
(***************************************************************************)
(* What other loaders and Elasticsearch do meanwhile                       *)
(***************************************************************************)
\* What Counts(l) depends on, besides the store and what is hidden in it, is
\* left alone.
Rests(l) == Idles(l) /\ tally'[l] = tally[l]

\* What a search finds it goes on finding.
StaysSearchable == \A k \in Index : Searchable(k) \subseteq Searchable(k)'

\* A loader's step leaves the counters of the others alone.
LEMMA OthersRest ==
  ASSUME TypeOK, NEW l \in Loader, Start(l) \/ Run(l) \/ Crash(l),
         NEW m \in Loader \ {l}
  PROVE  Rests(m)
<1>1. tally \in [Loader -> [Stream -> Tallies]]
  BY DEF TypeOK
<1>2. tally' = tally \/ \E x : tally' = [tally EXCEPT ![l] = x]
  BY DEF Run, Start, Skip, Render, PushAnswered, PushUnanswered, VerifyBatch, VerifyError,
         OpenBundle, FillBundle, OpenManifest, FillManifest, Return, Crash, Forget
<1>3. tally'[m] = tally[m]
  BY <1>1, <1>2
<1> QED
  BY <1>3, OthersIdle DEF Rests

\* Only a document that lands late is hidden, and it was not stored before.
LEMMA SearchSteps ==
  ASSUME TypeInv, HiddenStored, [Next]_vars
  PROVE  HiddenStored' /\ StaysSearchable
<1>1. StoreGrew /\ TypeOK
  BY StoreOnlyGrows DEF TypeInv
<1>2. store \in [Index -> SUBSET Doc] /\ hidden \in [Index -> SUBSET Ids(Doc)]
  BY <1>1 DEF TypeOK
<1>3. ASSUME \A k \in Index : hidden'[k] \subseteq hidden[k]
      PROVE  HiddenStored' /\ StaysSearchable
  BY <1>1, <1>3 DEF HiddenStored, StaysSearchable, Searchable, StoreGrew
<1>4. ASSUME NEW l \in Loader, PushAnswered(l)
      PROVE  \A k \in Index : hidden'[k] \subseteq hidden[k]
  <2>1. \E q : hidden' = [hidden EXCEPT ![q] = @]
    BY <1>4 DEF PushAnswered, AfterBulk
  <2> QED
    BY <1>2, <2>1
<1>5. ASSUME NEW q \in Index, Refresh(q)
      PROVE  \A k \in Index : hidden'[k] \subseteq hidden[k]
  BY <1>2, <1>5 DEF Refresh
<1>6. ASSUME NEW q \in Index, Land(q), hidden' # hidden
      PROVE  HiddenStored' /\ StaysSearchable
  <2>1. PICK d : /\ d.id \notin Ids(store[q])
                 /\ store' = [store EXCEPT ![q] = @ \cup {d}]
                 /\ hidden' = [hidden EXCEPT ![q] = @ \cup {d.id}]
    BY <1>6 DEF Land
  <2> SUFFICES ASSUME NEW k \in Index
               PROVE  /\ hidden'[k] \subseteq Ids(store'[k])
                      /\ Ids(store[k]) \ hidden[k] \subseteq Ids(store'[k]) \ hidden'[k]
    BY DEF HiddenStored, StaysSearchable, Searchable
  <2>2. CASE k = q
    <3>1. store'[k] = store[k] \cup {d} /\ hidden'[k] = hidden[k] \cup {d.id}
      BY <1>2, <2>1, <2>2
    <3>2. Ids(store'[k]) = Ids(store[k]) \cup {d.id}
      BY <3>1 DEF Ids
    <3> HIDE DEF Ids
    <3> QED
      BY <2>1, <2>2, <3>1, <3>2 DEF HiddenStored
  <2>3. CASE k # q
    BY <1>2, <2>1, <2>3 DEF HiddenStored
  <2> QED
    BY <2>2, <2>3
<1>7. \/ hidden' = hidden
      \/ \E l \in Loader : PushAnswered(l)
      \/ \E q \in Index : Refresh(q)
      \/ \E q \in Index : Land(q)
  BY DEF Next, Run, vars, Start, Skip, Render, PushUnanswered, VerifyBatch, VerifyError,
         OpenBundle, FillBundle, OpenManifest, FillManifest, Return, Crash, Rebuild
<1> QED
  BY <1>3, <1>4, <1>5, <1>6, <1>7

\* What is not lost does not get lost by what others do.
LEMMA LostStays ==
  ASSUME TypeOK, StoreGrew, NEW l \in Loader, NEW f \in Stream,
         opt'[l] = opt[l], docs'[l] = docs[l], Unsent(l, f) \subseteq Unsent(l, f)'
  PROVE  Lost(l, f)' \subseteq Lost(l, f)
<1>1. <<opt[l].ns, f>> \in Index
  BY ListType
<1>2. Missing(l, f)' \subseteq Missing(l, f)
  BY <1>1 DEF Missing, StoreGrew
<1> QED
  BY <1>2 DEF Lost

\* A lost document counted before the step is counted after it.
LEMMA LostStaysCounted ==
  ASSUME TypeOK, TypeOK', StoreGrew, NEW l \in Loader, NEW f \in Stream,
         opt'[l] = opt[l], docs'[l] = docs[l], Unsent(l, f) \subseteq Unsent(l, f)',
         Cardinality(Lost(l, f)) <= tally[l][f].failed,
         tally[l][f].failed <= tally'[l][f].failed
  PROVE  Cardinality(Lost(l, f)') <= tally'[l][f].failed
<1>1. tally[l][f].failed \in Nat /\ tally'[l][f].failed \in Nat
  BY DEF TypeOK, Tallies
<1>2. Lost(l, f)' \subseteq Lost(l, f) \cup {}
  BY LostStays
<1>3. IsFiniteSet({}) /\ Cardinality({}) = 0
  BY FS_EmptySet
<1> QED
  BY <1>1, <1>2, <1>3, LostFinite, MoreLost

LEMMA RestCounts ==
  ASSUME CountsInv, TypeInv', StoreGrew, StaysSearchable, NEW l \in Loader, Rests(l)
  PROVE  Counts(l)'
<1>1. /\ TypeOK /\ TypeOK' /\ InHand
      /\ Blank(l) /\ Tallied(l) /\ Visible(l) /\ AllCounted(l) /\ LostCounted(l)
  BY DEF CountsInv, SafetyInv, TypeInv, Counts
<1>2. /\ pc'[l] = pc[l] /\ opt'[l] = opt[l] /\ docs'[l] = docs[l] /\ todo'[l] = todo[l]
      /\ next'[l] = next[l] /\ total'[l] = total[l] /\ tally'[l] = tally[l]
  BY DEF Rests, Idles
<1>3. List(l)' = List(l) /\ Key(l)' = Key(l) /\ Sent(l)' = Sent(l)
  BY <1>2 DEF List, Key, Sent
<1>4. Blank(l)' /\ Tallied(l)' /\ AllCounted(l)'
  BY <1>1, <1>2, <1>3 DEF Blank, Tallied, AllCounted
<1>5. Visible(l)'
  <2>1. CASE pc[l] \in {"push", "verify"}
    <3>1. Key(l) \in Index
      BY <1>1, <2>1, InHandType DEF InHand
    <3>2. Searchable(Key(l)) \subseteq Searchable(Key(l))'
      BY <1>3, <3>1 DEF StaysSearchable, Searchable
    <3> HIDE DEF Searchable
    <3> QED
      BY <1>1, <1>2, <1>3, <3>2 DEF Visible
  <2>2. CASE pc[l] \notin {"push", "verify"}
    BY <1>2, <2>2 DEF Visible
  <2> QED
    BY <2>1, <2>2
<1>6. LostCounted(l)'
  <2> SUFFICES ASSUME opt[l].mode = "push", NEW f \in Stream
               PROVE  Cardinality(Lost(l, f)') <= tally'[l][f].failed
    BY <1>2 DEF LostCounted
  <2>1. Unsent(l, f)' = Unsent(l, f)
    BY <1>2 DEF Unsent
  <2>2. tally[l][f].failed \in Nat
    BY <1>1 DEF TypeOK, Tallies
  <2>3. Cardinality(Lost(l, f)) <= tally[l][f].failed
    BY <1>1 DEF LostCounted
  <2> QED
    BY <1>1, <1>2, <2>1, <2>2, <2>3, LostStaysCounted
<1> QED
  BY <1>4, <1>5, <1>6 DEF Counts

-----------------------------------------------------------------------------
(***************************************************************************)
(* What the loader does itself                                             *)
(***************************************************************************)
\* A run that has just started, or has just ended, has lost nothing.
LEMMA StartCounts ==
  ASSUME CountsInv, TypeInv', NEW l \in Loader,
         Start(l) \/ Skip(l) \/ Render(l) \/ Return(l) \/ Crash(l)
  PROVE  Counts(l)'
<1>1. /\ TypeOK /\ TypeOK' /\ Blank(l)
      /\ pc \in [Loader -> Locations] /\ docs \in [Loader -> [Stream -> Seq(Doc)]]
      /\ next \in [Loader -> Nat \ {0}] /\ tally \in [Loader -> [Stream -> Tallies]]
      /\ todo \in [Loader -> SUBSET Stream]
  BY DEF CountsInv, SafetyInv, TypeInv, Counts, TypeOK
<1>2. CASE Start(l) \/ Skip(l) \/ Return(l) \/ Crash(l)
  <2>1. /\ pc'[l] \in {"idle", "check", "done"} /\ docs'[l] = NoDocs
        /\ next'[l] = 1 /\ tally'[l] = [f \in Stream |-> NoTally]
    <3>1. CASE Start(l) \/ Skip(l)
      BY <1>1, <3>1 DEF Start, Skip, Blank
    <3>2. CASE Return(l) \/ Crash(l)
      BY <1>1, <3>2 DEF Return, Crash, Forget
    <3> QED
      BY <1>2, <3>1, <3>2
  <2>2. \A f \in Stream : Cardinality(Lost(l, f)') <= tally'[l][f].failed
    <3> TAKE f \in Stream
    <3>1. docs'[l][f] = <<>> /\ tally'[l][f].failed = 0
      BY <2>1 DEF NoDocs, NoTally
    <3>2. Missing(l, f)' = {}
      BY <3>1 DEF Missing
    <3>3. Lost(l, f)' = {}
      BY <3>2 DEF Lost
    <3> QED
      BY <3>1, <3>3, FS_EmptySet
  <2> QED
    BY <2>1, <2>2 DEF Counts, Blank, Tallied, Visible, AllCounted, LostCounted
<1>3. CASE Render(l)
  <2> DEFINE projected == Project(Restrict(tree, sources[l] \cap DOMAIN tree))
  <2>1. projected \in [Stream -> Seq(Doc)]
    BY <1>1, ProjectType
  <2> HIDE DEF projected
  <2>2. /\ pc[l] = "check"
        /\ docs' = [docs EXCEPT ![l] = projected]
        /\ todo' = [todo EXCEPT ![l] = Populated(projected)]
        /\ pc' = [pc EXCEPT ![l] =
             IF opt[l].mode = "push" /\ Populated(projected) # {}
             THEN "push" ELSE "bundle"]
        /\ UNCHANGED <<opt, next, tally>>
    BY <1>3 DEF Render, projected
  <2>3. /\ docs'[l] = projected /\ todo'[l] = Populated(docs'[l]) /\ opt'[l] = opt[l]
        /\ next'[l] = 1 /\ tally'[l] = [f \in Stream |-> NoTally]
        /\ pc'[l] \in {"push", "bundle"}
        /\ pc'[l] = "bundle" /\ opt[l].mode = "push" => Populated(projected) = {}
    BY <1>1, <2>2 DEF Blank
  <2>4. \A f \in Stream : tally'[l][f] = NoTally
    BY <2>3
  <2>5. ASSUME pc'[l] = "push"
        PROVE  /\ First(todo'[l]) \in Populated(projected)
               /\ Sent(l)' = 0 /\ next'[l] <= Len(List(l)')
    <3>1. todo'[l] # {} /\ First(todo'[l]) \in todo'[l]
      <4>1. todo'[l] # {}
        BY <2>5, <1>1 DEF TypeInv, InHand
      <4> QED
        BY <4>1, FirstIsMember
    <3>2. First(todo'[l]) \in Stream /\ projected[First(todo'[l])] # <<>>
      BY <2>3, <3>1 DEF Populated
    <3>3. List(l)' = projected[First(todo'[l])]
      BY <2>3 DEF List
    <3>4. List(l)' \in Seq(Doc) /\ List(l)' # <<>>
      BY <2>1, <3>2, <3>3
    <3>5. Len(List(l)') \in Nat /\ Len(List(l)') # 0
      BY <3>4
    <3> QED
      BY <2>3, <2>5, <3>1, <3>5 DEF Sent
  <2>6. Blank(l)' /\ AllCounted(l)'
    BY <2>3 DEF Blank, AllCounted
  <2>7. Tallied(l)'
    <3>1. \A f \in Stream : Answers(tally'[l][f]) = 0
      BY <2>4 DEF Answers, NoTally
    <3>2. todo'[l] \subseteq Stream
      BY <2>3 DEF Populated
    <3>3. CASE pc'[l] = "push"
      BY <2>3, <2>5, <3>1, <3>2, <3>3 DEF Tallied
    <3>4. CASE pc'[l] = "bundle"
      BY <3>4 DEF Tallied
    <3> QED
      BY <2>3, <3>3, <3>4
  <2>8. Visible(l)'
    BY <2>3, <2>5 DEF Visible
  <2>9. LostCounted(l)'
    <3> SUFFICES ASSUME opt[l].mode = "push", NEW f \in Stream
                 PROVE  Cardinality(Lost(l, f)') <= tally'[l][f].failed
      BY <2>3 DEF LostCounted
    <3>1. tally'[l][f].failed = 0
      BY <2>4 DEF NoTally
    <3>2. Missing(l, f)' \subseteq DOMAIN projected[f]
      BY <2>3 DEF Missing
    <3>3. Lost(l, f)' = {}
      <4>1. CASE pc'[l] = "bundle"
        <5>1. projected[f] = <<>>
          BY <2>3, <4>1 DEF Populated
        <5>2. DOMAIN projected[f] = {}
          BY <5>1
        <5> QED
          BY <3>2, <5>2 DEF Lost
      <4>2. CASE pc'[l] = "push"
        <5>1. CASE f \in todo'[l]
          <6>1. \A i \in DOMAIN projected[f] : i >= next'[l]
            BY <2>1, <2>3
          <6>2. Unsent(l, f)' = DOMAIN projected[f]
            BY <2>3, <4>2, <5>1, <6>1 DEF Unsent
          <6> QED
            BY <3>2, <6>2 DEF Lost
        <5>2. CASE f \notin todo'[l]
          <6>1. projected[f] = <<>>
            BY <2>3, <5>2 DEF Populated
          <6>2. DOMAIN projected[f] = {}
            BY <6>1
          <6> QED
            BY <3>2, <6>2 DEF Lost
        <5> QED
          BY <5>1, <5>2
      <4> QED
        BY <2>3, <4>1, <4>2
    <3> QED
      BY <3>1, <3>3, FS_EmptySet
  <2> QED
    BY <2>6, <2>7, <2>8, <2>9 DEF Counts
<1> QED
  BY <1>2, <1>3

\* A request takes the loader past its chunk, to a later position of the
\* stream or to its verification.
LEMMA ChunkIsPassed ==
  ASSUME TypeInv, NEW l \in Loader, pc[l] = "push", Tallied(l),
         UNCHANGED <<opt, docs, todo>>,
         NEW j \in next[l]..Len(List(l)), AfterChunk(l, j)
  PROVE  /\ List(l)' = List(l) /\ Key(l)' = Key(l) /\ Sent(l)' = j
         /\ First(todo'[l]) = First(todo[l]) /\ First(todo[l]) \in todo[l]
         /\ First(todo[l]) \in Stream /\ Key(l) \in Index
         /\ List(l) \in Seq(Doc) /\ Len(List(l)) \in Nat
         /\ j \in Nat /\ next[l] \in Nat /\ 1 <= next[l] /\ next[l] <= j
         /\ j <= Len(List(l))
         /\ pc'[l] = "push" => next'[l] = j + 1 /\ j + 1 <= Len(List(l))
         /\ pc'[l] = "verify" => next'[l] = 1 /\ j = Len(List(l))
         /\ pc'[l] \in {"push", "verify"}
         /\ Sent(l) = next[l] - 1
         /\ \A f \in Stream \ {First(todo[l])} : Unsent(l, f)' = Unsent(l, f)
         /\ Unsent(l, First(todo[l])) \subseteq Unsent(l, First(todo[l]))' \cup (next[l]..j)
<1>1. TypeOK /\ todo[l] # {} /\ next[l] \in Nat \ {0}
  BY DEF TypeInv, InHand, TypeOK
<1>2. /\ First(todo[l]) \in todo[l] /\ First(todo[l]) \in Stream /\ Key(l) \in Index
      /\ List(l) \in Seq(Doc)
  BY <1>1, InHandType
<1>3. Len(List(l)) \in Nat
  BY <1>2
<1>4. List(l)' = List(l) /\ Key(l)' = Key(l) /\ First(todo'[l]) = First(todo[l])
  BY DEF List, Key
<1>5. j \in Nat /\ next[l] <= j /\ j <= Len(List(l)) /\ 1 <= next[l]
  BY <1>1, <1>3
<1>6. pc \in [Loader -> Locations] /\ next \in [Loader -> Nat \ {0}]
  BY <1>1 DEF TypeOK
<1>7. \/ pc'[l] = "push" /\ next'[l] = j + 1 /\ j # Len(List(l))
      \/ pc'[l] = "verify" /\ next'[l] = 1 /\ j = Len(List(l))
  BY <1>6 DEF AfterChunk
<1>8. Sent(l)' = j /\ Sent(l) = next[l] - 1
  BY <1>4, <1>5, <1>7 DEF Sent
<1>9. \A f \in Stream \ {First(todo[l])} : Unsent(l, f)' = Unsent(l, f)
  BY <1>4, <1>7 DEF Unsent
<1>10. Unsent(l, First(todo[l])) \subseteq Unsent(l, First(todo[l]))' \cup (next[l]..j)
  <2> SUFFICES ASSUME NEW i \in Unsent(l, First(todo[l])), i \notin next[l]..j
               PROVE  i \in Unsent(l, First(todo[l]))'
    OBVIOUS
  <2>1. /\ i \in DOMAIN docs[l][First(todo[l])] /\ i >= next[l] /\ i \in 1..Len(List(l))
    BY <1>1, <1>2, ListType DEF Unsent, List
  <2>2. i > j /\ i <= Len(List(l)) /\ i \in Nat
    BY <1>3, <1>5, <2>1
  <2>3. pc'[l] = "push" /\ next'[l] = j + 1 /\ i >= next'[l]
    BY <1>3, <1>5, <1>7, <2>2
  <2> QED
    BY <1>2, <1>4, <2>1, <2>3 DEF Unsent
<1> QED
  BY <1>1, <1>2, <1>3, <1>4, <1>5, <1>7, <1>8, <1>9, <1>10

\* What was lost or is lost in a chunk of the stream in hand is counted, when
\* the failures grow by as many documents as the chunk lost.
LEMMA ChunkCounted ==
  ASSUME TypeInv, TypeInv', StoreGrew, NEW l \in Loader, pc[l] = "push",
         Tallied(l), LostCounted(l), UNCHANGED <<opt, docs, todo>>,
         NEW j \in next[l]..Len(List(l)), AfterChunk(l, j),
         NEW failing \in SUBSET (next[l]..j),
         \A i \in (next[l]..j) \ failing : List(l)[i].id \in Ids(store'[Key(l)]),
         \A f \in Stream \ {First(todo[l])} : tally'[l][f] = tally[l][f],
         tally'[l][First(todo[l])].failed
           = tally[l][First(todo[l])].failed + Cardinality(failing)
  PROVE  LostCounted(l)'
<1> DEFINE g == First(todo[l])
<1>1. TypeOK /\ TypeOK'
  BY DEF TypeInv
<1>2. /\ g \in Stream /\ j \in Nat /\ next[l] \in Nat
      /\ \A f \in Stream \ {g} : Unsent(l, f)' = Unsent(l, f)
      /\ Unsent(l, g) \subseteq Unsent(l, g)' \cup (next[l]..j)
  BY ChunkIsPassed
<1> SUFFICES ASSUME opt[l].mode = "push", NEW f \in Stream
             PROVE  Cardinality(Lost(l, f)') <= tally'[l][f].failed
  BY DEF LostCounted
<1>3. Cardinality(Lost(l, f)) <= tally[l][f].failed
  BY DEF LostCounted
<1>4. tally[l][f].failed \in Nat /\ tally'[l][f].failed \in Nat
  BY <1>1 DEF TypeOK, Tallies
<1>5. CASE f # g
  BY <1>1, <1>2, <1>3, <1>4, <1>5, LostStaysCounted
<1>6. CASE f = g
  <2>1. <<opt[l].ns, f>> \in Index /\ <<opt[l].ns, f>> = Key(l) /\ docs[l][f] = List(l)
    BY <1>1, <1>6, ListType DEF Key, List
  <2>2. Lost(l, f)' \subseteq Lost(l, f) \cup failing
    <3> SUFFICES ASSUME NEW i \in Lost(l, f)', i \notin failing
                 PROVE  i \in Lost(l, f)
      OBVIOUS
    <3>1. /\ i \in DOMAIN docs[l][f] /\ docs[l][f][i].id \notin Ids(store'[<<opt[l].ns, f>>])
          /\ i \notin Unsent(l, f)'
      BY DEF Lost, Missing
    <3>2. docs[l][f][i].id \notin Ids(store[<<opt[l].ns, f>>])
      BY <2>1, <3>1 DEF StoreGrew
    <3>3. i \notin next[l]..j
      BY <2>1, <3>1
    <3> QED
      BY <1>2, <1>6, <3>1, <3>2, <3>3 DEF Lost, Missing
  <2>3. IsFiniteSet(failing) /\ Cardinality(failing) \in Nat
    BY <1>2, PositionsFinite
  <2>4. tally[l][f].failed + Cardinality(failing) <= tally'[l][f].failed
    BY <1>4, <1>6, <2>3
  <2> QED
    BY <1>1, <1>3, <1>4, <2>2, <2>3, <2>4, LostFinite, MoreLost
<1> QED
  BY <1>5, <1>6

LEMMA PushAnsweredCounts ==
  ASSUME CountsInv, TypeInv', StoreGrew, StaysSearchable,
         NEW l \in Loader, PushAnswered(l)
  PROVE  Counts(l)'
<1>1. /\ TypeInv /\ TypeOK /\ TypeOK' /\ pc[l] = "push"
      /\ Tallied(l) /\ Visible(l) /\ LostCounted(l) /\ HiddenStored
      /\ UNCHANGED <<opt, docs, todo>>
  BY DEF CountsInv, SafetyInv, TypeInv, Counts, PushAnswered
<1>j. PICK j \in next[l]..Len(List(l)) :
        /\ AfterChunk(l, j)
        /\ \E rejected \in SUBSET (next[l]..j) :
             LET accepted == (next[l]..j) \ rejected
                 fresh == Fresh(List(l), accepted, store[Key(l)])
             IN  /\ store' = [store EXCEPT ![Key(l)] =
                                @ \cup {List(l)[i] : i \in fresh}]
                 /\ hidden' = [hidden EXCEPT ![Key(l)] =
                                 AfterBulk(@, {List(l)[i].id : i \in fresh})]
                 /\ tally' = [tally EXCEPT ![l][First(todo[l])] =
                      Answered(@, Cardinality(fresh),
                               Cardinality(accepted \ fresh), Cardinality(rejected))]
  BY DEF PushAnswered
<1>2. PICK rejected \in SUBSET (next[l]..j) :
        LET accepted == (next[l]..j) \ rejected
            fresh == Fresh(List(l), accepted, store[Key(l)])
        IN  /\ store' = [store EXCEPT ![Key(l)] =
                           @ \cup {List(l)[i] : i \in fresh}]
            /\ hidden' = [hidden EXCEPT ![Key(l)] =
                            AfterBulk(@, {List(l)[i].id : i \in fresh})]
            /\ tally' = [tally EXCEPT ![l][First(todo[l])] =
                 Answered(@, Cardinality(fresh),
                          Cardinality(accepted \ fresh), Cardinality(rejected))]
  BY <1>j
<1> DEFINE d == List(l)
           g == First(todo[l])
           k == Key(l)
           accepted == (next[l]..j) \ rejected
           fresh == Fresh(d, accepted, store[k])
           t == tally[l][g]
<1>3. /\ List(l)' = d /\ Key(l)' = k /\ Sent(l)' = j /\ Sent(l) = next[l] - 1
      /\ First(todo'[l]) = g /\ g \in todo[l] /\ g \in Stream /\ k \in Index
      /\ j \in Nat /\ next[l] \in Nat /\ 1 <= next[l] /\ next[l] <= j /\ j <= Len(d)
      /\ Len(d) \in Nat
      /\ pc'[l] = "push" => next'[l] = j + 1 /\ j + 1 <= Len(d)
      /\ pc'[l] = "verify" => next'[l] = 1 /\ j = Len(d)
      /\ pc'[l] \in {"push", "verify"}
  BY <1>1, <1>j, ChunkIsPassed
<1>4. fresh \subseteq accepted /\ accepted \subseteq next[l]..j /\ accepted \subseteq Nat
  BY <1>3 DEF Fresh
<1>5. /\ Cardinality(fresh) \in Nat /\ Cardinality(rejected) \in Nat
      /\ Cardinality(accepted \ fresh) \in Nat
      /\ Cardinality(fresh) + Cardinality(accepted \ fresh) + Cardinality(rejected)
           = j - next[l] + 1
      /\ Cardinality(fresh) <= j - next[l] + 1
      /\ Cardinality(fresh) = j - next[l] + 1 => fresh = next[l]..j
  <2>1. fresh \in SUBSET ((next[l]..j) \ rejected)
    BY <1>4
  <2>2. next[l] \in Nat /\ j \in Nat /\ next[l] <= j
    BY <1>3
  <2> DEFINE i == next[l]
  <2>3. i \in Nat /\ j \in Nat /\ i <= j /\ rejected \in SUBSET (i..j)
        /\ fresh \in SUBSET ((i..j) \ rejected)
    BY <2>1, <2>2
  <2> HIDE DEF fresh, i
  <2>4. /\ Cardinality(fresh) \in Nat /\ Cardinality(rejected) \in Nat
        /\ Cardinality(((i..j) \ rejected) \ fresh) \in Nat
        /\ Cardinality(fresh) + Cardinality(((i..j) \ rejected) \ fresh)
              + Cardinality(rejected) = j - i + 1
        /\ Cardinality(fresh) <= j - i + 1
        /\ Cardinality(fresh) = j - i + 1 => fresh = i..j
    <3>1. Cardinality(fresh) \in Nat /\ Cardinality(rejected) \in Nat
      BY <2>3, ChunkIsSharedOut
    <3>2. Cardinality(((i..j) \ rejected) \ fresh) \in Nat
      BY <2>3, ChunkIsSharedOut
    <3>3. Cardinality(fresh) + Cardinality(((i..j) \ rejected) \ fresh)
              + Cardinality(rejected) = j - i + 1
      BY <2>3, ChunkIsSharedOut
    <3>4. Cardinality(fresh) <= j - i + 1
      BY <2>3, ChunkIsSharedOut
    <3>5. ASSUME Cardinality(fresh) = j - i + 1 PROVE fresh = i..j
      <4>1. fresh \in SUBSET (i..j)
        BY <2>3
      <4>2. \A x \in i..j : x \in fresh
        BY <2>3, <3>5, <4>1, WholeChunk
      <4> QED
        BY <4>1, <4>2
    <3> QED
      BY <3>1, <3>2, <3>3, <3>4, <3>5, Zenon
  <2> QED
    BY <2>4 DEF i
<1>6. /\ store'[k] = store[k] \cup {d[i] : i \in fresh}
      /\ hidden' = hidden
      /\ tally'[l][g] = Answered(t, Cardinality(fresh), Cardinality(accepted \ fresh),
                                 Cardinality(rejected))
      /\ \A f \in Stream \ {g} : tally'[l][f] = tally[l][f]
  <2>1. /\ store \in [Index -> SUBSET Doc] /\ hidden \in [Index -> SUBSET Ids(Doc)]
        /\ tally \in [Loader -> [Stream -> Tallies]]
    BY <1>1 DEF TypeOK
  <2> HIDE DEF fresh, accepted
  <2> QED
    BY <1>2, <1>3, <2>1 DEF AfterBulk, fresh, accepted
<1>7. t \in Tallies
  BY <1>1, <1>3 DEF TypeOK
<1>8. /\ Answers(tally'[l][g]) = Answers(t) + (j - next[l] + 1)
      /\ tally'[l][g].created = t.created + Cardinality(fresh)
      /\ tally'[l][g].failed = t.failed + Cardinality(rejected)
      /\ Answers(t) \in Nat /\ t.created \in Nat /\ t.created <= Answers(t)
  <2> DEFINE a == Cardinality(fresh)
             b == Cardinality(accepted \ fresh)
             c == Cardinality(rejected)
  <2>1. a \in Nat /\ b \in Nat /\ c \in Nat /\ a + b + c = j - next[l] + 1
    BY <1>5
  <2>2. tally'[l][g] = Answered(t, a, b, c)
    BY <1>6
  <2> HIDE DEF a, b, c
  <2>3. /\ Answers(Answered(t, a, b, c)) = Answers(t) + a + b + c
        /\ Answered(t, a, b, c).created = t.created + a
        /\ Answered(t, a, b, c).failed = t.failed + c
        /\ Answers(t) \in Nat /\ t.created \in Nat /\ t.created <= Answers(t)
    <3>1. a \in Nat /\ b \in Nat /\ c \in Nat
      BY <2>1
    <3> HIDE DEF t
    <3>2. Answers(Answered(t, a, b, c)) = Answers(t) + a + b + c
      BY <1>7, <3>1, AnswersAdd
    <3>3. Answered(t, a, b, c).created = t.created + a
      BY <1>7, <3>1, AnswersAdd
    <3>4. Answered(t, a, b, c).failed = t.failed + c
      BY <1>7, <3>1, AnswersAdd
    <3>5. Answers(t) \in Nat /\ t.created \in Nat /\ t.created <= Answers(t)
      BY <1>7, <3>1, AnswersAdd
    <3> QED
      BY <3>2, <3>3, <3>4, <3>5, Zenon
  <2>4. Answers(t) + a + b + c = Answers(t) + (j - next[l] + 1)
    <3>1. j \in Nat /\ next[l] \in Nat /\ Answers(t) \in Nat
      BY <1>3, <2>3
    <3> QED
      BY <2>1, <3>1
  <2>5. /\ Answers(tally'[l][g]) = Answers(t) + (j - next[l] + 1)
        /\ tally'[l][g].created = t.created + a
        /\ tally'[l][g].failed = t.failed + c
    BY <2>2, <2>3, <2>4, Zenon
  <2> QED
    BY <2>3, <2>5 DEF a, c
<1>9. Answers(t) = next[l] - 1
  BY <1>1, <1>3 DEF Tallied
<1>10. \A i \in accepted : d[i].id \in Ids(store'[k])
  BY <1>4, <1>6, AcceptedAreStored
<1> HIDE DEF t, fresh, g
<1>11. Blank(l)'
  BY <1>3 DEF Blank
<1>12. Tallied(l)'
  <2>1. Answers(tally'[l][g]) = j
    BY <1>3, <1>8, <1>9
  <2>2. /\ todo' = todo /\ docs' = docs /\ todo[l] \subseteq Populated(docs[l])
        /\ \A f \in todo[l] : f # g => Answers(tally[l][f]) = 0
    BY <1>1 DEF Tallied, g
  <2>3. \A f \in todo[l] : Answers(tally'[l][f]) = IF f = g THEN j ELSE 0
    <3> TAKE f \in todo[l]
    <3>1. f \in Stream
      BY <1>1 DEF TypeOK
    <3>2. CASE f = g
      BY <2>1, <3>2
    <3>3. CASE f # g
      BY <1>6, <2>2, <3>1, <3>3
    <3> QED
      BY <3>2, <3>3
  <2>4. pc'[l] = "push" => next'[l] <= Len(List(l)')
    BY <1>3
  <2> QED
    BY <1>3, <2>2, <2>3, <2>4 DEF Tallied
<1>13. Visible(l)'
  <2> SUFFICES ASSUME tally'[l][g].created = j, NEW i \in 1..j
               PROVE  /\ d[i].id \in Searchable(k)'
                      /\ \A x \in 1..(i - 1) : d[x].id # d[i].id
    BY <1>3 DEF Visible
  <2>1. t.created = next[l] - 1 /\ fresh = next[l]..j
    <3>1. /\ t.created \in Nat /\ t.created <= next[l] - 1
          /\ t.created + Cardinality(fresh) = j
      BY <1>8, <1>9
    <3>2. /\ Cardinality(fresh) \in Nat /\ Cardinality(fresh) <= j - next[l] + 1
          /\ j \in Nat /\ next[l] \in Nat
      BY <1>3, <1>5
    <3>3. t.created = next[l] - 1 /\ Cardinality(fresh) = j - next[l] + 1
      BY <3>1, <3>2
    <3> QED
      BY <1>5, <3>3
  <2>2. \A x \in 1..(next[l] - 1) : /\ d[x].id \in Searchable(k)
                                    /\ \A y \in 1..(x - 1) : d[y].id # d[x].id
    BY <1>1, <1>3, <2>1 DEF Visible, t, g
  <2>3. CASE i \in 1..(next[l] - 1)
    BY <1>3, <2>2, <2>3 DEF StaysSearchable
  <2>4. CASE i \notin 1..(next[l] - 1)
    <3>1. i \in fresh /\ i \in accepted
      BY <1>3, <1>4, <2>1, <2>4
    <3>2. /\ d[i].id \notin Ids(store[k])
          /\ \A x \in accepted : x < i => d[x].id # d[i].id
      BY <3>1 DEF fresh, Fresh
    <3>3. d[i].id \in Searchable(k)'
      <4>1. d[i].id \notin hidden[k]
        BY <1>1, <1>3, <3>2 DEF HiddenStored
      <4>2. d[i].id \in Ids(store'[k])
        BY <1>10, <3>1
      <4> QED
        BY <1>3, <1>6, <4>1, <4>2 DEF Searchable
    <3>4. ASSUME NEW x \in 1..(i - 1) PROVE d[x].id # d[i].id
      <4>1. CASE x \in 1..(next[l] - 1)
        BY <2>2, <3>2, <4>1 DEF Searchable
      <4>2. CASE x \notin 1..(next[l] - 1)
        <5>1. x \in next[l]..j /\ x < i
          BY <1>3, <4>2
        <5>2. x \in accepted
          BY <1>4, <2>1, <5>1
        <5> QED
          BY <3>2, <5>1, <5>2
      <4> QED
        BY <4>1, <4>2
    <3> QED
      BY <3>3, <3>4
  <2> QED
    BY <2>3, <2>4
<1>14. AllCounted(l)'
  <2>1. SafetyInv /\ Knows(l)
    BY DEF CountsInv, SafetyInv
  <2>2. total' = total /\ total[l] = 0
    BY <1>1, <2>1 DEF PushAnswered, Knows
  <2> QED
    BY <1>3, <2>2 DEF AllCounted
<1>15. LostCounted(l)'
  <2>1. \A i \in (next[l]..j) \ rejected : d[i].id \in Ids(store'[k])
    BY <1>10
  <2>2. tally'[l][g].failed = tally[l][g].failed + Cardinality(rejected)
    BY <1>8 DEF t
  <2> QED
    BY <1>1, <1>j, <1>6, <2>1, <2>2, ChunkCounted DEF g
<1> QED
  BY <1>11, <1>12, <1>13, <1>14, <1>15 DEF Counts

LEMMA PushUnansweredCounts ==
  ASSUME CountsInv, TypeInv', StoreGrew, StaysSearchable,
         NEW l \in Loader, PushUnanswered(l)
  PROVE  Counts(l)'
<1>1. /\ TypeInv /\ TypeOK /\ TypeOK' /\ pc[l] = "push"
      /\ Tallied(l) /\ LostCounted(l)
      /\ UNCHANGED <<opt, docs, todo, store, total>>
  BY DEF CountsInv, SafetyInv, TypeInv, Counts, PushUnanswered
<1>2. PICK j \in next[l]..Len(List(l)) :
        /\ AfterChunk(l, j)
        /\ tally' = [tally EXCEPT ![l][First(todo[l])] = Unanswered(@, j - next[l] + 1)]
  BY DEF PushUnanswered
<1> DEFINE d == List(l)
           g == First(todo[l])
           t == tally[l][g]
<1>3. /\ List(l)' = d /\ Sent(l)' = j /\ Sent(l) = next[l] - 1
      /\ First(todo'[l]) = g /\ g \in todo[l] /\ g \in Stream
      /\ j \in Nat /\ next[l] \in Nat /\ 1 <= next[l] /\ next[l] <= j /\ j <= Len(d)
      /\ Len(d) \in Nat
      /\ pc'[l] = "push" => next'[l] = j + 1 /\ j + 1 <= Len(d)
      /\ pc'[l] = "verify" => next'[l] = 1 /\ j = Len(d)
      /\ pc'[l] \in {"push", "verify"}
  BY <1>1, <1>2, ChunkIsPassed
<1>4. /\ tally'[l][g] = Unanswered(t, j - next[l] + 1)
      /\ \A f \in Stream \ {g} : tally'[l][f] = tally[l][f]
  <2>1. tally \in [Loader -> [Stream -> Tallies]]
    BY <1>1 DEF TypeOK
  <2> QED
    BY <1>2, <1>3, <2>1
<1>5. t \in Tallies /\ j - next[l] + 1 \in Nat
  BY <1>1, <1>3 DEF TypeOK
<1>6. /\ Answers(tally'[l][g]) = Answers(t) + (j - next[l] + 1)
      /\ tally'[l][g].created = t.created
      /\ tally'[l][g].failed = t.failed + (j - next[l] + 1)
      /\ Answers(t) \in Nat /\ t.created \in Nat /\ t.created <= Answers(t)
  <2> DEFINE n == j - next[l] + 1
  <2>1. n \in Nat /\ tally'[l][g] = Unanswered(t, n)
    BY <1>4, <1>5
  <2> HIDE DEF n, t
  <2>2. /\ Answers(Unanswered(t, n)) = Answers(t) + n
        /\ Unanswered(t, n).created = t.created
        /\ Unanswered(t, n).failed = t.failed + n
        /\ Answers(t) \in Nat /\ t.created \in Nat /\ t.created <= Answers(t)
    BY <1>5, <2>1, AnswersAdd
  <2>3. /\ Answers(tally'[l][g]) = Answers(t) + n
        /\ tally'[l][g].created = t.created
        /\ tally'[l][g].failed = t.failed + n
    BY <2>1, <2>2, Zenon
  <2> QED
    BY <2>2, <2>3 DEF n
<1>7. Answers(t) = next[l] - 1
  BY <1>1, <1>3 DEF Tallied
<1> HIDE DEF t, g
<1>8. Blank(l)'
  BY <1>3 DEF Blank
<1>9. Tallied(l)'
  <2>1. Answers(tally'[l][g]) = j
    BY <1>3, <1>6, <1>7
  <2>2. /\ todo' = todo /\ docs' = docs /\ todo[l] \subseteq Populated(docs[l])
        /\ \A f \in todo[l] : f # g => Answers(tally[l][f]) = 0
    BY <1>1 DEF Tallied, g
  <2>3. \A f \in todo[l] : Answers(tally'[l][f]) = IF f = g THEN j ELSE 0
    <3> TAKE f \in todo[l]
    <3>1. f \in Stream
      BY <1>1 DEF TypeOK
    <3>2. CASE f = g
      BY <2>1, <3>2
    <3>3. CASE f # g
      BY <1>4, <2>2, <3>1, <3>3
    <3> QED
      BY <3>2, <3>3
  <2>4. pc'[l] = "push" => next'[l] <= Len(List(l)')
    BY <1>3
  <2> QED
    BY <1>3, <2>2, <2>3, <2>4 DEF Tallied
<1>10. tally'[l][g].created # j
  BY <1>3, <1>6, <1>7
<1>11. Visible(l)'
  BY <1>3, <1>10 DEF Visible
<1>12. AllCounted(l)'
  <2>1. Knows(l)
    BY DEF CountsInv, SafetyInv
  <2>2. total' = total /\ total[l] = 0
    BY <1>1, <2>1 DEF Knows
  <2> QED
    BY <1>3, <2>2 DEF AllCounted
<1>13. LostCounted(l)'
  <2>1. Cardinality(next[l]..j) = j - next[l] + 1
    <3>1. next[l] \in Int /\ j \in Int /\ ~(next[l] > j)
      BY <1>3
    <3> QED
      BY <3>1, FS_Interval
  <2>2. tally'[l][g].failed = tally[l][g].failed + Cardinality(next[l]..j)
    BY <1>6, <2>1 DEF t
  <2>3. \A i \in (next[l]..j) \ (next[l]..j) : List(l)[i].id \in Ids(store'[Key(l)])
    OBVIOUS
  <2> QED
    BY <1>1, <1>2, <1>4, <2>2, <2>3, ChunkCounted DEF g
<1> QED
  BY <1>8, <1>9, <1>11, <1>12, <1>13 DEF Counts

\* An ids query counts every position it asks for, when their ids differ and a
\* search finds them.
LEMMA FoundIsAll ==
  ASSUME NEW d, NEW k, NEW i \in Nat, NEW j \in Nat, i <= j,
         \A x \in i..j : d[x].id \in Searchable(k),
         \A x, y \in i..j : x < y => d[x].id # d[y].id
  PROVE  Cardinality(Found(d, i, j, k)) = j - i + 1
<1> DEFINE asked == {d[x].id : x \in i..j}
           id == [x \in i..j |-> d[x].id]
<1>1. Found(d, i, j, k) = asked
  BY DEF Found, Searchable
<1>2. id \in Bijection(i..j, asked)
  <2>1. \A x, y \in i..j : id[x] = id[y] => x = y
    <3> TAKE x, y \in i..j
    <3>1. x < y \/ y < x \/ x = y
      OBVIOUS
    <3> QED
      BY <3>1
  <2>2. id \in Surjection(i..j, asked)
    BY DEF Surjection
  <2>3. id \in [i..j -> asked] /\ DOMAIN id = i..j
    OBVIOUS
  <2> HIDE DEF id, asked
  <2>4. id \in Injection(i..j, asked)
    BY <2>1, <2>3 DEF Injection, IsInjective
  <2> QED
    BY <2>2, <2>4 DEF Bijection
<1>3. IsFiniteSet(i..j) /\ Cardinality(i..j) = j - i + 1
  BY FS_Interval
<1> HIDE DEF asked, id
<1>4. Cardinality(asked) = Cardinality(i..j)
  BY <1>2, <1>3, FS_Bijection DEF ExistsBijection
<1> QED
  BY <1>1, <1>3, <1>4

\* When the stream in hand is done, no document of the others was sent, and
\* none of its own is left.
LEMMA NextStreamCounts ==
  ASSUME CountsInv, TypeInv', StoreGrew, NEW l \in Loader, pc[l] = "verify",
         NextStream(l), UNCHANGED <<opt, docs>>,
         \A f \in Stream \ {First(todo[l])} : tally'[l][f] = tally[l][f],
         \A f \in Stream : tally[l][f].failed <= tally'[l][f].failed
  PROVE  Counts(l)'
<1> DEFINE g == First(todo[l])
           rest == todo[l] \ {g}
<1>1. /\ TypeOK /\ TypeOK' /\ todo[l] # {} /\ Tallied(l) /\ LostCounted(l)
      /\ pc \in [Loader -> Locations] /\ todo \in [Loader -> SUBSET Stream]
      /\ next \in [Loader -> Nat \ {0}]
  BY DEF CountsInv, SafetyInv, TypeInv, InHand, Counts, TypeOK
<1>2. /\ next'[l] = 1
      /\ rest = {} => pc'[l] = "bundle"
      /\ rest # {} => pc'[l] = "push" /\ todo'[l] = rest
  BY <1>1 DEF NextStream
<1>3. rest \subseteq Stream /\ rest \subseteq Populated(docs[l])
  BY <1>1 DEF Tallied
<1>4. \A f \in rest : Answers(tally'[l][f]) = 0
  BY <1>1, <1>3 DEF Tallied
<1>5. ASSUME rest # {}
      PROVE  /\ First(todo'[l]) \in rest /\ Sent(l)' = 0 /\ next'[l] <= Len(List(l)')
  <2>1. First(todo'[l]) \in rest
    BY <1>2, <1>5, FirstIsMember
  <2>2. List(l)' \in Seq(Doc) /\ List(l)' # <<>>
    BY <1>1, <1>3, <2>1, ListType DEF List, Populated
  <2>3. Len(List(l)') \in Nat /\ Len(List(l)') # 0
    BY <2>2
  <2> QED
    BY <1>2, <1>5, <2>1, <2>3 DEF Sent
<1>6. Blank(l)' /\ AllCounted(l)'
  BY <1>2 DEF Blank, AllCounted
<1>7. Tallied(l)'
  <2>1. CASE rest = {}
    BY <1>2, <2>1 DEF Tallied
  <2>2. CASE rest # {}
    <3> HIDE DEF rest
    <3> QED
      BY <1>2, <1>3, <1>4, <1>5, <2>2 DEF Tallied
  <2> QED
    BY <2>1, <2>2
<1>8. Visible(l)'
  <2>1. CASE rest = {}
    BY <1>2, <2>1 DEF Visible
  <2>2. CASE rest # {}
    <3> HIDE DEF rest
    <3> QED
      BY <1>2, <1>5, <2>2 DEF Visible
  <2> QED
    BY <2>1, <2>2
<1>9. LostCounted(l)'
  <2> SUFFICES ASSUME opt[l].mode = "push", NEW f \in Stream
               PROVE  Cardinality(Lost(l, f)') <= tally'[l][f].failed
    BY DEF LostCounted
  <2>1. Unsent(l, f) \subseteq Unsent(l, f)'
    <3> SUFFICES ASSUME NEW i \in Unsent(l, f) PROVE i \in Unsent(l, f)'
      OBVIOUS
    <3>1. f \in rest /\ i \in DOMAIN docs[l][f]
      BY DEF Unsent
    <3>2. i >= 1
      <4>1. DOMAIN docs[l][f] = 1..Len(docs[l][f])
        BY <1>1, ListType
      <4> QED
        BY <3>1, <4>1
    <3>3. pc'[l] = "push" /\ todo'[l] = rest /\ next'[l] = 1
      BY <1>2, <3>1
    <3> HIDE DEF rest
    <3> QED
      BY <3>1, <3>2, <3>3 DEF Unsent
  <2>2. Cardinality(Lost(l, f)) <= tally[l][f].failed
    BY <1>1 DEF LostCounted
  <2> QED
    BY <1>1, <2>1, <2>2, LostStaysCounted
<1> QED
  BY <1>6, <1>7, <1>8, <1>9 DEF Counts

LEMMA VerifyCounts ==
  ASSUME CountsInv, TypeInv', StoreGrew, NEW l \in Loader, VerifyBatch(l)
  PROVE  Counts(l)'
<1> DEFINE f == First(todo[l])
           size == Len(List(l))
           j == IF next[l] + BatchSize - 1 < size THEN next[l] + BatchSize - 1 ELSE size
           found == Found(List(l), next[l], j, Key(l))
           count == total[l] + Cardinality(found)
<1>1. /\ SafetyInv /\ TypeOK /\ TypeOK' /\ pc[l] = "verify" /\ todo[l] # {}
      /\ Blank(l) /\ Tallied(l) /\ Visible(l) /\ AllCounted(l) /\ LostCounted(l)
      /\ UNCHANGED <<opt, docs, store, hidden>>
  BY DEF CountsInv, SafetyInv, TypeInv, InHand, Counts, VerifyBatch
<1>2. f \in Stream /\ List(l) \in Seq(Doc)
  BY <1>1, InHandType
<1>3. /\ size \in Nat /\ next[l] \in Nat \ {0} /\ total[l] \in Nat /\ BatchSize \in Nat \ {0}
  BY <1>1, <1>2, BoundsAssumption DEF TypeOK
<1>4. CASE j < size
  <2>1. /\ total' = [total EXCEPT ![l] = count]
        /\ next' = [next EXCEPT ![l] = j + 1]
        /\ UNCHANGED <<pc, todo, tally>>
    BY <1>4 DEF VerifyBatch
  <2>2. /\ List(l)' = List(l) /\ Key(l)' = Key(l) /\ Sent(l)' = Sent(l) /\ Sent(l) = size
        /\ tally'[l] = tally[l] /\ pc'[l] = "verify" /\ todo'[l] = todo[l]
        /\ docs'[l] = docs[l]
    BY <1>1, <2>1 DEF List, Key, Sent
  <2>3. total'[l] = count /\ next'[l] = j + 1
    <3>1. total \in [Loader -> Nat] /\ next \in [Loader -> Nat \ {0}]
      BY <1>1 DEF TypeOK
    <3> HIDE DEF count, j
    <3> QED
      BY <2>1, <3>1
  <2>4. j \in Nat /\ next[l] <= j /\ j <= size
    BY <1>3, <1>4
  <2> HIDE DEF j
  <2>5. Blank(l)' /\ Tallied(l)'
    BY <1>1, <2>2 DEF Blank, Tallied
  <2>6. Visible(l)'
    BY <1>1, <2>2 DEF Visible, Searchable
  <2>7. AllCounted(l)'
    <3> SUFFICES ASSUME tally[l][f].created = size PROVE count = j
      <4>1. count = j => total'[l] = next'[l] - 1
        BY <2>3, <2>4
      <4> HIDE DEF count
      <4> QED
        BY <2>2, <4>1 DEF AllCounted
    <3>1. total[l] = next[l] - 1
      BY <1>1 DEF AllCounted
    <3>2. \A i \in 1..size : /\ List(l)[i].id \in Searchable(Key(l))
                             /\ \A x \in 1..(i - 1) : List(l)[x].id # List(l)[i].id
      BY <1>1, <2>2 DEF Visible
    <3>3. \A x \in next[l]..j : x \in 1..size
      BY <1>3, <2>4
    <3>4. \A x, y \in next[l]..j : x < y => List(l)[x].id # List(l)[y].id
      <4> TAKE x, y \in next[l]..j
      <4>1. x < y => x \in 1..(y - 1)
        BY <1>3, <2>4
      <4> QED
        BY <3>2, <3>3, <4>1
    <3>5. \A x \in next[l]..j : List(l)[x].id \in Searchable(Key(l))
      BY <3>2, <3>3
    <3>6. Cardinality(found) = j - next[l] + 1
      <4> DEFINE d == List(l)
                 i == next[l]
                 k == Key(l)
      <4>1. i \in Nat /\ j \in Nat /\ i <= j
        BY <1>3, <2>4
      <4>2. \A x \in i..j : d[x].id \in Searchable(k)
        BY <3>5
      <4>3. \A x, y \in i..j : x < y => d[x].id # d[y].id
        BY <3>4
      <4>4. Cardinality(Found(d, i, j, k)) = j - i + 1
        <5> HIDE DEF d, i, k
        <5> QED
          BY <4>1, <4>2, <4>3, FoundIsAll
      <4> QED
        BY <4>4
    <3> HIDE DEF found
    <3> QED
      BY <1>3, <2>4, <3>1, <3>6
  <2>8. LostCounted(l)'
    <3> SUFFICES ASSUME opt[l].mode = "push", NEW h \in Stream
                 PROVE  Cardinality(Lost(l, h)') <= tally'[l][h].failed
      BY <1>1 DEF LostCounted
    <3>1. Unsent(l, h) \subseteq Unsent(l, h)'
      BY <1>1, <2>2 DEF Unsent
    <3>2. tally[l][h].failed \in Nat
      BY <1>1 DEF TypeOK, Tallies
    <3>3. Cardinality(Lost(l, h)) <= tally[l][h].failed
      BY <1>1 DEF LostCounted
    <3> QED
      BY <1>1, <2>2, <3>1, <3>2, <3>3, LostStaysCounted
  <2> QED
    BY <2>5, <2>6, <2>7, <2>8 DEF Counts
<1>5. CASE ~(j < size)
  <2>1. /\ tally' = [tally EXCEPT ![l][f] = Short(@, size, count)]
        /\ NextStream(l)
    BY <1>5 DEF VerifyBatch
  <2>2. count \in Nat
    <3>1. j \in Nat
      BY <1>3
    <3>2. Cardinality(found) \in Nat
      BY <1>3, <3>1, FoundIsBounded
    <3> QED
      BY <1>3, <3>2
  <2>3. tally \in [Loader -> [Stream -> Tallies]]
    BY <1>1 DEF TypeOK
  <2> HIDE DEF count, size, f, j
  <2>4. \A h \in Stream \ {f} : tally'[l][h] = tally[l][h]
    BY <1>2, <2>1, <2>3
  <2>5. ASSUME NEW h \in Stream PROVE tally[l][h].failed <= tally'[l][h].failed
    <3>1. tally[l][h] \in Tallies /\ tally[l][h].failed \in Nat
      BY <2>3 DEF Tallies
    <3>2. CASE h = f
      <4>1. tally'[l][h] = Short(tally[l][h], size, count)
        BY <1>2, <2>1, <2>3, <3>2
      <4>2. Short(tally[l][h], size, count).failed
              = tally[l][h].failed + (IF count < size THEN size - count ELSE 0)
        BY <3>1 DEF Short, Tallies
      <4> QED
        BY <1>3, <2>2, <3>1, <4>1, <4>2
    <3>3. CASE h # f
      BY <2>4, <3>1, <3>3
    <3> QED
      BY <3>2, <3>3
  <2> QED
    BY <1>1, <2>1, <2>4, <2>5, NextStreamCounts DEF f
<1> QED
  BY <1>4, <1>5

\* The steps that neither push nor count.
LEMMA WriteCounts ==
  ASSUME CountsInv, TypeInv', StoreGrew, NEW l \in Loader,
         \/ VerifyError(l)
         \/ OpenBundle(l) \/ FillBundle(l) \/ OpenManifest(l) \/ FillManifest(l)
  PROVE  Counts(l)'
<1>1. /\ TypeOK /\ TypeOK' /\ LostCounted(l) /\ pc \in [Loader -> Locations]
      /\ UNCHANGED <<opt, docs, tally>>
      /\ \A f \in Stream : tally[l][f].failed \in Nat
  <2>1. TypeOK /\ TypeOK' /\ LostCounted(l)
    BY DEF CountsInv, SafetyInv, TypeInv, Counts
  <2>2. pc \in [Loader -> Locations] /\ \A f \in Stream : tally[l][f].failed \in Nat
    BY <2>1 DEF TypeOK, Tallies
  <2>3. UNCHANGED <<opt, docs, tally>>
    BY DEF VerifyError, OpenBundle, FillBundle, OpenManifest, FillManifest
  <2> QED
    BY <2>1, <2>2, <2>3
<1>2. CASE VerifyError(l)
  <2>1. pc[l] = "verify" /\ NextStream(l)
    BY <1>2 DEF VerifyError
  <2> QED
    BY <1>1, <2>1, NextStreamCounts
<1>3. CASE OpenBundle(l) \/ FillBundle(l) \/ OpenManifest(l) \/ FillManifest(l)
  <2>1. /\ pc[l] \in {"bundle", "fill", "manifest"}
        /\ pc'[l] \in {"bundle", "fill", "manifest", "done"}
    BY <1>1, <1>3 DEF OpenBundle, FillBundle, OpenManifest, FillManifest
  <2>2. LostCounted(l)'
    <3> SUFFICES ASSUME opt[l].mode = "push", NEW f \in Stream
                 PROVE  Cardinality(Lost(l, f)') <= tally'[l][f].failed
      BY <1>1 DEF LostCounted
    <3>1. Unsent(l, f) \subseteq Unsent(l, f)'
      BY <2>1 DEF Unsent
    <3>2. Cardinality(Lost(l, f)) <= tally[l][f].failed
      BY <1>1 DEF LostCounted
    <3> QED
      BY <1>1, <3>1, <3>2, LostStaysCounted
  <2> QED
    BY <2>1, <2>2 DEF Counts, Blank, Tallied, Visible, AllCounted
<1> QED
  BY <1>2, <1>3

-----------------------------------------------------------------------------
(***************************************************************************)
(* Theorems                                                                *)
(***************************************************************************)
LEMMA InitCounts == Init => CountsInv
<1> SUFFICES ASSUME Init PROVE CountsInv
  OBVIOUS
<1>1. SafetyInv
  BY InitSafety
<1>2. HiddenStored
  BY DEF Init, HiddenStored
<1>3. ASSUME NEW l \in Loader PROVE Counts(l)
  <2>1. /\ pc[l] = "idle" /\ docs[l] = NoDocs /\ next[l] = 1
        /\ tally[l] = [f \in Stream |-> NoTally]
    BY DEF Init
  <2>2. \A f \in Stream : Cardinality(Lost(l, f)) <= tally[l][f].failed
    <3> TAKE f \in Stream
    <3>1. docs[l][f] = <<>> /\ tally[l][f].failed = 0
      BY <2>1 DEF NoDocs, NoTally
    <3>2. Missing(l, f) = {}
      BY <3>1 DEF Missing
    <3>3. Lost(l, f) = {}
      BY <3>2 DEF Lost
    <3> QED
      BY <3>1, <3>3, FS_EmptySet
  <2> QED
    BY <2>1, <2>2 DEF Counts, Blank, Tallied, Visible, AllCounted, LostCounted
<1> QED
  BY <1>1, <1>2, <1>3 DEF CountsInv

LEMMA NextCounts ==
  ASSUME CountsInv, [Next]_vars
  PROVE  CountsInv'
<1>1. SafetyInv /\ TypeInv /\ TypeOK /\ HiddenStored
  BY DEF CountsInv, SafetyInv, TypeInv
<1>2. SafetyInv' /\ TypeInv' /\ StoreGrew
  BY <1>1, NextSafety, NextTypes, StoreOnlyGrows
<1>3. HiddenStored' /\ StaysSearchable
  BY <1>1, SearchSteps
<1>4. ASSUME NEW l \in Loader PROVE Counts(l)'
  <2>1. CASE Rests(l)
    BY <1>2, <1>3, <2>1, RestCounts
  <2>2. CASE Start(l) \/ Run(l) \/ Crash(l)
    BY <1>2, <1>3, <2>2, StartCounts, PushAnsweredCounts, PushUnansweredCounts,
       VerifyCounts, WriteCounts DEF Run
  <2>3. ASSUME NEW m \in Loader, m # l, Start(m) \/ Run(m) \/ Crash(m)
        PROVE  Rests(l)
    BY <1>1, <2>3, OthersRest
  <2>4. ASSUME UNCHANGED vars \/ Rebuild \/ \E k \in Index : Land(k) \/ Refresh(k)
        PROVE  Rests(l)
    BY <2>4 DEF vars, Rebuild, Land, Refresh, Idles, Rests
  <2> QED
    BY <2>1, <2>2, <2>3, <2>4 DEF Next
<1> QED
  BY <1>2, <1>3, <1>4 DEF CountsInv

LEMMA CountsHold == Spec => []CountsInv
<1>1. Init => CountsInv
  BY InitCounts
<1>2. CountsInv /\ [Next]_vars => CountsInv'
  BY NextCounts
<1> QED
  BY <1>1, <1>2, PTL DEF Spec

\* A document that is not in Elasticsearch after its request is counted as
\* failed, however the request went (load.py push_stream).
THEOREM NoneIsLostSilently == Spec => []MissingIsCounted
<1>1. CountsInv => MissingIsCounted
  BY DEF CountsInv, Counts, LostCounted, Lost, MissingIsCounted
<1> QED
  BY <1>1, CountsHold, PTL

\* Every document of the requests sent so far is in exactly one of the three
\* counters of its stream (load.py push_stream).
THEOREM TalliesAddUp == Spec => []EachDocumentTalliedOnce
<1>1. CountsInv => EachDocumentTalliedOnce
  <2> SUFFICES ASSUME CountsInv, NEW l \in Loader, NEW f \in Stream,
                      pc[l] \in {"push", "verify"}, f \in todo[l]
               PROVE  Answers(tally[l][f]) = Cardinality(DOMAIN docs[l][f] \ Unsent(l, f))
    BY DEF EachDocumentTalliedOnce, Answers
  <2>1. TypeOK /\ Tallied(l) /\ next[l] \in Nat \ {0}
    BY DEF CountsInv, SafetyInv, TypeInv, Counts, TypeOK
  <2>2. DOMAIN docs[l][f] = 1..Len(docs[l][f]) /\ Len(docs[l][f]) \in Nat
    BY <2>1, ListType
  <2>3. CASE f # First(todo[l])
    <3>1. DOMAIN docs[l][f] \ Unsent(l, f) = {}
      BY <2>3 DEF Unsent
    <3> QED
      BY <2>1, <2>3, <3>1, FS_EmptySet DEF Tallied
  <2>4. CASE f = First(todo[l])
    <3>1. Answers(tally[l][f]) = Sent(l) /\ docs[l][f] = List(l)
      BY <2>1, <2>4 DEF Tallied, List
    <3>2. Sent(l) \in Nat /\ Sent(l) <= Len(docs[l][f])
      BY <2>1, <2>2, <2>4, <3>1 DEF Tallied, Sent
    <3>3. DOMAIN docs[l][f] \ Unsent(l, f) = 1..Sent(l)
      <4>1. CASE pc[l] = "verify"
        BY <2>2, <2>4, <3>1, <4>1 DEF Unsent, Sent
      <4>2. CASE pc[l] = "push"
        <5>1. \A i \in DOMAIN docs[l][f] : i \in Unsent(l, f) <=> i >= next[l]
          BY <2>4, <4>2 DEF Unsent
        <5>2. Sent(l) = next[l] - 1
          BY <4>2 DEF Sent
        <5>3. Unsent(l, f) \subseteq DOMAIN docs[l][f]
          BY DEF Unsent
        <5> QED
          BY <2>1, <2>2, <3>2, <5>1, <5>2, <5>3
      <4> QED
        BY <4>1, <4>2
    <3>4. Cardinality(1..Sent(l)) = Sent(l)
      BY <3>2, FS_Interval
    <3> QED
      BY <3>1, <3>3, <3>4
  <2> QED
    BY <2>3, <2>4
<1> QED
  BY <1>1, CountsHold, PTL

\* A stream this run created in full is counted in full by every query of its
\* verification (load.py push_stream, the comment on refresh).
THEOREM CreatedIsCounted == Spec => []CreatedIsVerified
<1>1. CountsInv => CreatedIsVerified
  BY DEF CountsInv, Counts, AllCounted, CreatedIsVerified
<1> QED
  BY <1>1, CountsHold, PTL

-----------------------------------------------------------------------------
(***************************************************************************)
(* Bundles and manifest                                                    *)
(***************************************************************************)
\* Nobody else is given the output directory of l.
Exclusive(l) == \A other \in Loader \ {l} : OutDirOf[other] # OutDirOf[l]

\* The bundles of the streams fs hold the documents of the run.
Filled(l, fs) ==
  \A f \in fs : bundle[OutDirOf[l]][<<opt[l].ns, f>>] = [docs |-> docs[l][f]]

Finished(l) == pc[l] = "done" /\ ~outcome[l].skipped

\* While it writes, the bundles that are no longer to do are filled; then come
\* the manifest, torn while it is open, and the end of the run.
Bundled(l) ==
  Exclusive(l) =>
    /\ pc[l] \in {"bundle", "fill"} => Filled(l, Populated(docs[l]) \ todo[l])
    /\ pc[l] = "fill" => bundle[OutDirOf[l]][Key(l)] = Torn
    /\ pc[l] = "manifest" \/ Finished(l) => Filled(l, Populated(docs[l]))
    /\ pc[l] = "manifest" => manifest[OutDirOf[l]] = Torn
    /\ Finished(l) => manifest[OutDirOf[l]] = ManifestOf(l)

BundlesInv == TypeInv /\ \A l \in Loader : Bundled(l)

\* Everything of a run is left alone.
Sleeps(l) ==
  Rests(l) /\ sources'[l] = sources[l] /\ outcome'[l] = outcome[l]

LEMMA OthersSleep ==
  ASSUME TypeOK, NEW l \in Loader, Start(l) \/ Run(l) \/ Crash(l),
         NEW m \in Loader \ {l}
  PROVE  Sleeps(m)
<1>1. /\ sources \in [Loader -> SUBSET Source]
      /\ outcome \in [Loader -> [status : {"none", "ok", "partial", "failed"},
                                 skipped : BOOLEAN]]
  BY DEF TypeOK
<1>2. /\ sources' = sources \/ \E x : sources' = [sources EXCEPT ![l] = x]
      /\ outcome' = outcome \/ \E x : outcome' = [outcome EXCEPT ![l] = x]
  BY DEF Run, Start, Skip, Render, PushAnswered, PushUnanswered, VerifyBatch, VerifyError,
         OpenBundle, FillBundle, OpenManifest, FillManifest, Return, Crash, Forget
<1>3. sources'[m] = sources[m]
  BY <1>1, <1>2
<1>4. outcome'[m] = outcome[m]
  <2> DEFINE old == outcome[m]
  <2>1. CASE outcome' = outcome
    BY <2>1
  <2>2. CASE \E x : outcome' = [outcome EXCEPT ![l] = x]
    BY <1>1, <2>2
  <2> QED
    BY <1>2, <2>1, <2>2
<1> QED
  BY <1>3, <1>4, OthersRest DEF Sleeps

\* Who writes to an output directory was given it.
LEMMA DiskSteps ==
  ASSUME TypeOK, NEW l \in Loader, Start(l) \/ Run(l) \/ Crash(l),
         NEW o \in OutDir, o # OutDirOf[l]
  PROVE  bundle'[o] = bundle[o] /\ manifest'[o] = manifest[o]
<1>1. /\ bundle \in [OutDir -> [Index -> {Torn} \cup [docs : Seq(Doc)]]]
      /\ manifest \in [OutDir -> {Torn} \cup Manifests]
  BY DEF TypeOK
<1>2. /\ bundle' = bundle \/ \E k, x : bundle' = [bundle EXCEPT ![OutDirOf[l]][k] = x]
      /\ manifest' = manifest \/ \E x : manifest' = [manifest EXCEPT ![OutDirOf[l]] = x]
  BY DEF Run, Start, Skip, Render, PushAnswered, PushUnanswered, VerifyBatch, VerifyError,
         OpenBundle, FillBundle, OpenManifest, FillManifest, Return, Crash
<1>3. bundle'[o] = bundle[o]
  BY <1>1, <1>2
<1>4. manifest'[o] = manifest[o]
  BY <1>1, <1>2
<1> QED
  BY <1>3, <1>4

LEMMA SleepBundled ==
  ASSUME NEW l \in Loader, Bundled(l), Sleeps(l),
         Exclusive(l) => /\ bundle'[OutDirOf[l]] = bundle[OutDirOf[l]]
                         /\ manifest'[OutDirOf[l]] = manifest[OutDirOf[l]]
  PROVE  Bundled(l)'
<1>1. /\ pc'[l] = pc[l] /\ opt'[l] = opt[l] /\ docs'[l] = docs[l] /\ todo'[l] = todo[l]
      /\ tally'[l] = tally[l] /\ verified'[l] = verified[l]
      /\ sources'[l] = sources[l] /\ outcome'[l] = outcome[l]
  BY DEF Sleeps, Rests, Idles
<1>2. Key(l)' = Key(l) /\ (Finished(l)' <=> Finished(l))
  BY <1>1 DEF Key, Finished
<1>3. ManifestOf(l)' = ManifestOf(l)
  BY <1>1 DEF ManifestOf, PushOk
<1> SUFFICES ASSUME Exclusive(l)
             PROVE  /\ pc'[l] \in {"bundle", "fill"} => Filled(l, Populated(docs[l]) \ todo[l])'
                    /\ pc'[l] = "fill" => bundle'[OutDirOf[l]][Key(l)'] = Torn
                    /\ pc'[l] = "manifest" \/ Finished(l)' => Filled(l, Populated(docs[l]))'
                    /\ pc'[l] = "manifest" => manifest'[OutDirOf[l]] = Torn
                    /\ Finished(l)' => manifest'[OutDirOf[l]] = ManifestOf(l)'
  BY DEF Bundled, Exclusive
<1>4. \A fs : Filled(l, fs)' <=> Filled(l, fs)
  BY <1>1 DEF Filled
<1> QED
  BY <1>1, <1>2, <1>3, <1>4 DEF Bundled

LEMMA StartBundled ==
  ASSUME BundlesInv, NEW l \in Loader,
         \/ Start(l) \/ Skip(l) \/ Render(l) \/ Return(l) \/ Crash(l)
         \/ PushAnswered(l) \/ PushUnanswered(l)
  PROVE  Bundled(l)'
<1>1. /\ TypeOK /\ pc \in [Loader -> Locations] /\ docs \in [Loader -> [Stream -> Seq(Doc)]]
      /\ todo \in [Loader -> SUBSET Stream]
      /\ outcome \in [Loader -> [status : {"none", "ok", "partial", "failed"},
                                 skipped : BOOLEAN]]
  BY DEF BundlesInv, TypeInv, TypeOK
<1>2. CASE Start(l) \/ Return(l) \/ Crash(l)
  <2>1. pc'[l] \in {"idle", "check"}
    BY <1>1, <1>2 DEF Start, Return, Crash
  <2> QED
    BY <2>1 DEF Bundled, Finished
<1>3. CASE Skip(l)
  <2>1. pc'[l] = "done" /\ outcome'[l].skipped
    BY <1>1, <1>3 DEF Skip
  <2> QED
    BY <2>1 DEF Bundled, Finished
<1>4. CASE Render(l)
  <2>1. pc'[l] \in {"push", "bundle"} /\ todo'[l] = Populated(docs'[l])
    BY <1>1, <1>4 DEF Render
  <2>2. Filled(l, Populated(docs[l]) \ todo[l])'
    BY <2>1 DEF Filled
  <2> QED
    BY <2>1, <2>2 DEF Bundled, Finished
<1>5. CASE PushAnswered(l) \/ PushUnanswered(l)
  <2>1. pc'[l] \in {"push", "verify"}
    BY <1>1, <1>5 DEF PushAnswered, PushUnanswered, AfterChunk
  <2> QED
    BY <2>1 DEF Bundled, Finished
<1> QED
  BY <1>2, <1>3, <1>4, <1>5

LEMMA VerifyBundled ==
  ASSUME BundlesInv, NEW l \in Loader, VerifyBatch(l) \/ VerifyError(l)
  PROVE  Bundled(l)'
<1>1. /\ pc[l] = "verify" /\ pc \in [Loader -> Locations] /\ todo \in [Loader -> SUBSET Stream]
      /\ docs' = docs
  BY DEF BundlesInv, TypeInv, TypeOK, VerifyBatch, VerifyError
<1>2. NextStream(l) \/ pc' = pc
  BY DEF VerifyBatch, VerifyError
<1>3. CASE pc' = pc
  BY <1>1, <1>3 DEF Bundled, Finished
<1>4. CASE NextStream(l)
  <2>1. \/ pc'[l] = "push"
        \/ pc'[l] = "bundle" /\ todo'[l] = Populated(docs'[l])
    BY <1>1, <1>4 DEF NextStream
  <2>2. CASE pc'[l] = "push"
    BY <2>2 DEF Bundled, Finished
  <2>3. CASE pc'[l] = "bundle" /\ todo'[l] = Populated(docs'[l])
    <3>1. Filled(l, Populated(docs[l]) \ todo[l])'
      BY <2>3 DEF Filled
    <3> QED
      BY <2>3, <3>1 DEF Bundled, Finished
  <2> QED
    BY <2>1, <2>2, <2>3
<1> QED
  BY <1>2, <1>3, <1>4

LEMMA WriteBundled ==
  ASSUME BundlesInv, NEW l \in Loader,
         OpenBundle(l) \/ FillBundle(l) \/ OpenManifest(l) \/ FillManifest(l)
  PROVE  Bundled(l)'
<1>1. /\ TypeInv /\ TypeOK /\ Bundled(l) /\ InHand /\ OutDirOf[l] \in OutDir
      /\ pc \in [Loader -> Locations] /\ todo \in [Loader -> SUBSET Stream]
      /\ bundle \in [OutDir -> [Index -> {Torn} \cup [docs : Seq(Doc)]]]
      /\ manifest \in [OutDir -> {Torn} \cup Manifests]
      /\ outcome \in [Loader -> [status : {"none", "ok", "partial", "failed"},
                                 skipped : BOOLEAN]]
  BY OutDirAssumption DEF BundlesInv, TypeInv, TypeOK
<1>2. UNCHANGED <<opt, sources, docs, tally, verified>>
  BY DEF OpenBundle, FillBundle, OpenManifest, FillManifest
<1> SUFFICES ASSUME Exclusive(l)
             PROVE  /\ pc'[l] \in {"bundle", "fill"} => Filled(l, Populated(docs[l]) \ todo[l])'
                    /\ pc'[l] = "fill" => bundle'[OutDirOf[l]][Key(l)'] = Torn
                    /\ pc'[l] = "manifest" \/ Finished(l)' => Filled(l, Populated(docs[l]))'
                    /\ pc'[l] = "manifest" => manifest'[OutDirOf[l]] = Torn
                    /\ Finished(l)' => manifest'[OutDirOf[l]] = ManifestOf(l)'
  BY DEF Bundled, Exclusive
<1>3. ASSUME NEW fs \in SUBSET Stream, Filled(l, fs), NEW k, NEW x,
             bundle' = [bundle EXCEPT ![OutDirOf[l]][k] = x],
             \A f \in fs : <<opt[l].ns, f>> # k \/ [docs |-> docs[l][f]] = x
      PROVE  Filled(l, fs)'
  <2> SUFFICES ASSUME NEW f \in fs
               PROVE  bundle'[OutDirOf[l]][<<opt[l].ns, f>>] = [docs |-> docs[l][f]]
    BY <1>2 DEF Filled
  <2>1. /\ <<opt[l].ns, f>> \in Index
        /\ bundle[OutDirOf[l]][<<opt[l].ns, f>>] = [docs |-> docs[l][f]]
    BY <1>1, <1>3, ListType DEF Filled
  <2>2. bundle'[OutDirOf[l]] = [bundle[OutDirOf[l]] EXCEPT ![k] = x]
    BY <1>1, <1>3
  <2>3. bundle[OutDirOf[l]] \in [Index -> {Torn} \cup [docs : Seq(Doc)]]
    BY <1>1
  <2>4. CASE <<opt[l].ns, f>> # k
    BY <2>1, <2>2, <2>3, <2>4
  <2>5. CASE <<opt[l].ns, f>> = k
    BY <1>3, <2>1, <2>2, <2>3, <2>5
  <2> QED
    BY <2>4, <2>5
<1>4. CASE OpenBundle(l)
  <2>1. /\ pc[l] = "bundle" /\ pc'[l] = "fill" /\ todo' = todo /\ todo[l] # {}
        /\ bundle' = [bundle EXCEPT ![OutDirOf[l]][Key(l)] = Torn]
    BY <1>1, <1>4 DEF OpenBundle
  <2>2. First(todo[l]) \in todo[l] /\ Key(l) \in Index /\ Key(l)' = Key(l)
    BY <1>1, <1>2, <2>1, InHandType DEF Key
  <2>3. Filled(l, Populated(docs[l]) \ todo[l])
    BY <1>1, <2>1 DEF Bundled
  <2>4. \A f \in Populated(docs[l]) \ todo[l] : <<opt[l].ns, f>> # Key(l)
    BY <2>2 DEF Key
  <2>5. Populated(docs[l]) \ todo[l] \in SUBSET Stream
    BY DEF Populated
  <2>6. Filled(l, Populated(docs[l]) \ todo[l])'
    <3> DEFINE fs == Populated(docs[l]) \ todo[l]
    <3>1. fs' = fs /\ fs \in SUBSET Stream
      BY <1>2, <2>1, <2>5
    <3> HIDE DEF fs
    <3>2. Filled(l, fs)'
      BY <1>3, <2>1, <2>3, <2>4, <3>1 DEF fs
    <3> QED
      BY <1>2, <2>1, <3>2 DEF fs, Filled
  <2>7. bundle'[OutDirOf[l]][Key(l)] = Torn
    BY <1>1, <2>1, <2>2
  <2> QED
    BY <2>1, <2>2, <2>6, <2>7 DEF Finished
<1>5. CASE FillBundle(l)
  <2>1. /\ pc[l] = "fill" /\ pc'[l] = "bundle" /\ todo[l] # {}
        /\ todo'[l] = todo[l] \ {First(todo[l])}
    BY <1>1, <1>5 DEF FillBundle, InHand
  <2>2. First(todo[l]) \in todo[l] /\ Key(l) \in Index
    BY <1>1, <2>1, InHandType
  <2>3. /\ Filled(l, Populated(docs[l]) \ todo[l])
        /\ bundle[OutDirOf[l]][Key(l)] = Torn
    BY <1>1, <2>1 DEF Bundled
  <2>4. bundle' = [bundle EXCEPT ![OutDirOf[l]][Key(l)] = [docs |-> List(l)]]
    BY <1>5, <2>3 DEF FillBundle, Written
  <2> DEFINE fs == Populated(docs[l]) \ (todo[l] \ {First(todo[l])})
  <2>5. fs \in SUBSET Stream
    BY DEF Populated
  <2>6. \A f \in fs : bundle'[OutDirOf[l]][<<opt[l].ns, f>>] = [docs |-> docs[l][f]]
    <3> TAKE f \in fs
    <3>1. CASE f = First(todo[l])
      <4>1. bundle'[OutDirOf[l]][Key(l)] = [docs |-> List(l)]
        BY <1>1, <2>2, <2>4
      <4> QED
        BY <3>1, <4>1 DEF Key, List
    <3>2. CASE f # First(todo[l])
      <4>1. /\ <<opt[l].ns, f>> # Key(l) /\ <<opt[l].ns, f>> \in Index
            /\ bundle[OutDirOf[l]][<<opt[l].ns, f>>] = [docs |-> docs[l][f]]
        BY <1>1, <2>3, <2>5, <3>2, ListType DEF Filled, Key
      <4> QED
        BY <1>1, <2>2, <2>4, <4>1
    <3> QED
      BY <3>1, <3>2
  <2>7. Filled(l, Populated(docs[l]) \ todo[l])'
    BY <1>2, <2>1, <2>6 DEF Filled
  <2> QED
    BY <2>1, <2>7 DEF Finished
<1>6. CASE OpenManifest(l)
  <2>1. /\ pc[l] = "bundle" /\ pc'[l] = "manifest" /\ todo[l] = {} /\ bundle' = bundle
        /\ manifest'[OutDirOf[l]] = Torn
    BY <1>1, <1>6 DEF OpenManifest
  <2>2. Filled(l, Populated(docs[l]))
    BY <1>1, <2>1 DEF Bundled, Filled
  <2>3. Filled(l, Populated(docs[l]))'
    BY <1>2, <2>1, <2>2 DEF Filled
  <2> QED
    BY <2>1, <2>3 DEF Finished
<1>7. CASE FillManifest(l)
  <2>1. pc[l] = "manifest" /\ pc'[l] = "done" /\ bundle' = bundle
    BY <1>1, <1>7 DEF FillManifest
  <2>2. Filled(l, Populated(docs[l])) /\ manifest[OutDirOf[l]] = Torn
    BY <1>1, <2>1 DEF Bundled
  <2>3. Filled(l, Populated(docs[l]))'
    BY <1>2, <2>1, <2>2 DEF Filled
  <2>4. manifest' = [manifest EXCEPT ![OutDirOf[l]] = ManifestOf(l)]
    BY <1>7, <2>2 DEF FillManifest, Written
  <2>5. ManifestOf(l)' = ManifestOf(l)
    BY <1>2 DEF ManifestOf, PushOk
  <2>6. manifest'[OutDirOf[l]] = ManifestOf(l)'
    BY <1>1, <2>4, <2>5
  <2> QED
    BY <2>1, <2>3, <2>6
<1> QED
  BY <1>4, <1>5, <1>6, <1>7

LEMMA NextBundled ==
  ASSUME BundlesInv, [Next]_vars
  PROVE  BundlesInv'
<1>1. TypeInv /\ TypeOK
  BY DEF BundlesInv, TypeInv
<1>2. ASSUME NEW l \in Loader PROVE Bundled(l)'
  <2>1. Bundled(l) /\ OutDirOf[l] \in OutDir
    BY OutDirAssumption DEF BundlesInv
  <2>2. CASE Start(l) \/ Run(l) \/ Crash(l)
    BY <2>2, StartBundled, VerifyBundled, WriteBundled DEF Run
  <2>3. ASSUME NEW m \in Loader, m # l, Start(m) \/ Run(m) \/ Crash(m)
        PROVE  Bundled(l)'
    <3>1. Sleeps(l)
      BY <1>1, <2>3, OthersSleep
    <3>2. Exclusive(l) => /\ bundle'[OutDirOf[l]] = bundle[OutDirOf[l]]
                          /\ manifest'[OutDirOf[l]] = manifest[OutDirOf[l]]
      BY <1>1, <2>1, <2>3, DiskSteps DEF Exclusive
    <3> QED
      BY <2>1, <3>1, <3>2, SleepBundled
  <2>4. CASE UNCHANGED vars \/ Rebuild \/ \E k \in Index : Land(k) \/ Refresh(k)
    <3>1. Sleeps(l) /\ bundle' = bundle /\ manifest' = manifest
      BY <2>4 DEF vars, Rebuild, Land, Refresh, Idles, Rests, Sleeps
    <3> QED
      BY <2>1, <3>1, SleepBundled
  <2> QED
    BY <2>2, <2>3, <2>4 DEF Next
<1> QED
  BY <1>1, <1>2, NextTypes DEF BundlesInv

\* A run that is not skipped leaves a bundle with the very documents of every
\* populated stream, and the manifest that describes them (load.py
\* write_bundles).
THEOREM BundlesAreLeft == Spec => []RunLeavesItsBundles
<1>1. Init => BundlesInv
  <2>1. Init => \A l \in Loader : Bundled(l)
    BY DEF Init, Bundled, Finished
  <2> QED
    BY <2>1, InitTypes DEF BundlesInv
<1>2. BundlesInv /\ [Next]_vars => BundlesInv'
  BY NextBundled
<1>3. BundlesInv => RunLeavesItsBundles
  BY DEF BundlesInv, Bundled, Finished, Exclusive, Filled, RunLeavesItsBundles
<1> QED
  BY <1>1, <1>2, <1>3, PTL DEF Spec

-----------------------------------------------------------------------------
(***************************************************************************)
(* The status                                                              *)
(***************************************************************************)
\* As long as nobody has rebuilt the tree, a run works with its sources and
\* its documents.
OfTree(l) ==
  rebuilds = 0 =>
    /\ pc[l] # "idle" => sources[l] = DOMAIN tree
    /\ pc[l] \in {"push", "verify", "bundle", "fill", "manifest"} \/ Finished(l) =>
         docs[l] = Project(tree)

\* ... and every manifest is of this tree.
ManifestsOfTree ==
  rebuilds = 0 =>
    \A o \in OutDir :
      manifest[o] # Torn =>
        manifest[o].sources = DOMAIN tree /\ manifest[o].docs = Project(tree)

StatusInv ==
  /\ CountsInv
  /\ \A l \in Loader : OfTree(l)
  /\ ManifestsOfTree
  /\ OkMeansPresent

\* Only a rebuild touches the tree, and it counts.
LEMMA TreeSteps ==
  ASSUME TypeOK, [Next]_vars
  PROVE  rebuilds' = 0 => rebuilds = 0 /\ tree' = tree
<1>1. ASSUME NEW l \in Loader, Start(l) \/ Run(l) \/ Crash(l)
      PROVE  UNCHANGED <<tree, rebuilds>>
  BY <1>1 DEF Run, Start, Skip, Render, PushAnswered, PushUnanswered, VerifyBatch,
              VerifyError, OpenBundle, FillBundle, OpenManifest, FillManifest, Return,
              Crash
<1>2. ASSUME UNCHANGED vars \/ \E k \in Index : Land(k) \/ Refresh(k)
      PROVE  UNCHANGED <<tree, rebuilds>>
  BY <1>2 DEF vars, Land, Refresh
<1>3. ASSUME Rebuild PROVE rebuilds' # 0
  BY <1>3, BoundsAssumption DEF TypeOK, Rebuild
<1> QED
  BY <1>1, <1>2, <1>3 DEF Next

\* Discovery finds the tree it projects.
LEMMA ProjectedTree ==
  ASSUME TypeOK
  PROVE  Project(Restrict(tree, DOMAIN tree \cap DOMAIN tree)) = Project(tree)
<1>1. tree = [s \in DOMAIN tree |-> tree[s]]
  BY TreesAssumption DEF TypeOK
<1>2. Restrict(tree, DOMAIN tree \cap DOMAIN tree) = tree
  BY <1>1 DEF Restrict
<1> QED
  BY <1>2

\* Another loader, or Elasticsearch, moved.
LEMMA SleepStatus ==
  ASSUME StatusInv, StoreGrew, NEW l \in Loader, Sleeps(l),
         rebuilds' = 0 => rebuilds = 0 /\ tree' = tree
  PROVE  OfTree(l)'
BY DEF StatusInv, Sleeps, Rests, Idles, OfTree, Finished

LEMMA OwnStatus ==
  ASSUME StatusInv, NEW l \in Loader, Start(l) \/ Run(l) \/ Crash(l)
  PROVE  OfTree(l)'
<1>1. /\ TypeOK /\ OfTree(l) /\ UNCHANGED <<tree, rebuilds>>
      /\ pc \in [Loader -> Locations] /\ sources \in [Loader -> SUBSET Source]
      /\ docs \in [Loader -> [Stream -> Seq(Doc)]]
      /\ outcome \in [Loader -> [status : {"none", "ok", "partial", "failed"},
                                 skipped : BOOLEAN]]
  BY DEF StatusInv, CountsInv, SafetyInv, TypeInv, TypeOK, Run, Start, Skip, Render,
         PushAnswered, PushUnanswered, VerifyBatch, VerifyError, OpenBundle, FillBundle,
         OpenManifest, FillManifest, Return, Crash
<1> SUFFICES ASSUME rebuilds = 0
             PROVE  /\ pc'[l] # "idle" => sources'[l] = DOMAIN tree
                    /\ \/ pc'[l] \in {"push", "verify", "bundle", "fill", "manifest"}
                       \/ Finished(l)'
                       => docs'[l] = Project(tree)
  BY <1>1 DEF OfTree
<1>2. CASE Start(l)
  BY <1>1, <1>2 DEF Start, Finished
<1>3. CASE Skip(l)
  BY <1>1, <1>3 DEF Skip, Finished, OfTree
<1>4. CASE Render(l)
  <2>1. /\ pc[l] = "check" /\ sources[l] = DOMAIN tree /\ sources' = sources
        /\ docs' = [docs EXCEPT ![l] = Project(Restrict(tree, sources[l] \cap DOMAIN tree))]
    BY <1>1, <1>4 DEF Render, OfTree
  <2>2. docs'[l] = Project(Restrict(tree, DOMAIN tree \cap DOMAIN tree))
    BY <1>1, <2>1
  <2> QED
    BY <1>1, <2>1, <2>2, ProjectedTree
<1>5. CASE Return(l) \/ Crash(l)
  BY <1>1, <1>5 DEF Return, Crash, Finished
<1>6. CASE \/ PushAnswered(l) \/ PushUnanswered(l) \/ VerifyBatch(l) \/ VerifyError(l)
           \/ OpenBundle(l) \/ FillBundle(l) \/ OpenManifest(l) \/ FillManifest(l)
  <2>1. /\ pc[l] \in {"push", "verify", "bundle", "fill", "manifest"}
        /\ UNCHANGED <<sources, docs>>
    BY <1>6 DEF PushAnswered, PushUnanswered, VerifyBatch, VerifyError, OpenBundle,
                FillBundle, OpenManifest, FillManifest
  <2> QED
    BY <1>1, <2>1 DEF OfTree
<1> QED
  BY <1>2, <1>3, <1>4, <1>5, <1>6 DEF Run

\* The manifest that is written is that of the run.
LEMMA ManifestsStatus ==
  ASSUME StatusInv, [Next]_vars
  PROVE  ManifestsOfTree'
<1>1. TypeOK /\ manifest \in [OutDir -> {Torn} \cup Manifests]
  BY DEF StatusInv, CountsInv, SafetyInv, TypeInv, TypeOK
<1>2. rebuilds' = 0 => rebuilds = 0 /\ tree' = tree
  BY <1>1, TreeSteps
<1> SUFFICES ASSUME rebuilds = 0, tree' = tree, NEW o \in OutDir, manifest'[o] # Torn
             PROVE  /\ manifest'[o].sources = DOMAIN tree
                    /\ manifest'[o].docs = Project(tree)
  BY <1>2 DEF ManifestsOfTree
<1>3. CASE manifest'[o] = manifest[o]
  BY <1>3 DEF StatusInv, ManifestsOfTree
<1>4. ASSUME NEW l \in Loader, OpenManifest(l) \/ FillManifest(l),
             manifest'[o] # manifest[o]
      PROVE  /\ manifest'[o].sources = DOMAIN tree
             /\ manifest'[o].docs = Project(tree)
  <2>1. PICK m \in {Torn, ManifestOf(l)} : manifest' = [manifest EXCEPT ![OutDirOf[l]] = m]
    BY <1>4 DEF OpenManifest, FillManifest, Written
  <2>2. manifest'[o] = m
    BY <1>1, <1>4, <2>1
  <2>3. m = ManifestOf(l)
    BY <2>1, <2>2
  <2>4. CASE OpenManifest(l)
    <3>1. manifest' = [manifest EXCEPT ![OutDirOf[l]] = Torn]
      BY <2>4 DEF OpenManifest
    <3>2. manifest'[o] = Torn
      BY <1>1, <1>4, <3>1
    <3> QED
      BY <3>2
  <2>5. CASE FillManifest(l)
    <3>1. pc[l] = "manifest"
      BY <2>5 DEF FillManifest
    <3>2. sources[l] = DOMAIN tree /\ docs[l] = Project(tree)
      BY <3>1 DEF StatusInv, OfTree
    <3> QED
      BY <2>2, <2>3, <3>2 DEF ManifestOf
  <2> QED
    BY <1>4, <2>4, <2>5
<1>5. \/ manifest' = manifest
      \/ \E l \in Loader : OpenManifest(l) \/ FillManifest(l)
  BY DEF Next, Run, vars, Start, Skip, Render, PushAnswered, PushUnanswered, VerifyBatch,
         VerifyError, OpenBundle, FillBundle, Return, Crash, Land, Refresh, Rebuild
<1> QED
  BY <1>3, <1>4, <1>5

\* With one namespace, a manifest that allows a push to be skipped vouches for
\* the documents of this tree in the data streams of this push; and a push
\* without a failure has lost none of them.
LEMMA OkStatus ==
  ASSUME NEW n, Namespace = {n}, StatusInv, [Next]_vars
  PROVE  OkMeansPresent'
<1>1. /\ TypeOK /\ SafetyInv /\ CountsInv /\ StoreGrew /\ PushOkMeansPresent
      /\ pc \in [Loader -> Locations]
      /\ manifest \in [OutDir -> {Torn} \cup Manifests]
      /\ outcome \in [Loader -> [status : {"none", "ok", "partial", "failed"},
                                 skipped : BOOLEAN]]
  BY StoreOnlyGrows DEF StatusInv, CountsInv, SafetyInv, TypeInv, TypeOK
<1>2. CountsInv'
  BY <1>1, NextCounts
<1>3. rebuilds' = 0 => rebuilds = 0 /\ tree' = tree
  BY <1>1, TreeSteps
<1>4. \A l \in Loader : opt[l].ns = n
  BY <1>1, OptionsAssumption DEF TypeOK
<1> SUFFICES ASSUME NEW l \in Loader, rebuilds = 0, tree' = tree, pc'[l] = "done",
                    opt'[l].mode = "push", outcome'[l].status = "ok", NEW f \in Stream,
                    NEW i \in DOMAIN (Project(tree)[f])
             PROVE  Project(tree)[f][i].id \in Ids(store'[<<opt'[l].ns, f>>])
  BY <1>3, Zenon DEF OkMeansPresent, Present, Ids
<1> DEFINE id == Project(tree)[f][i].id
<1>5. CASE Sleeps(l)
  <2>1. pc[l] = "done" /\ outcome[l].status = "ok" /\ opt'[l] = opt[l] /\ opt[l].mode = "push"
    BY <1>5 DEF Sleeps, Rests, Idles
  <2>2. Present(<<opt[l].ns, f>>, Project(tree)[f])
    BY <2>1 DEF StatusInv, OkMeansPresent
  <2>3. id \in Ids(store[<<opt[l].ns, f>>])
    BY <2>2 DEF Present
  <2>4. <<opt[l].ns, f>> \in Index
    BY <1>1, ListType
  <2> QED
    BY <1>1, <2>1, <2>3, <2>4 DEF StoreGrew
<1>6. CASE Skip(l)
  <2> DEFINE m == manifest[OutDirOf[l]]
  <2>1. opt' = opt /\ store' = store /\ Reusable(m, sources[l], opt[l].mode)
    BY <1>6 DEF Skip
  <2>2. m # Torn /\ m.pushOk /\ OutDirOf[l] \in OutDir
    BY <2>1, OutDirAssumption DEF Reusable
  <2>3. m.docs = Project(tree)
    BY <2>2 DEF StatusInv, ManifestsOfTree
  <2>4. m.ns = opt[l].ns
    BY <1>1, <1>4, <2>2 DEF Manifests
  <2>5. Present(<<m.ns, f>>, m.docs[f])
    BY <1>1, <2>2 DEF PushOkMeansPresent
  <2>6. Present(<<opt[l].ns, f>>, Project(tree)[f])
    BY <2>3, <2>4, <2>5
  <2>7. id \in Ids(store[<<opt[l].ns, f>>])
    BY <2>6 DEF Present
  <2> QED
    BY <2>1, <2>7
<1>7. CASE FillManifest(l)
  <2>1. /\ pc[l] = "manifest" /\ opt' = opt /\ store' = store
        /\ outcome' = [outcome EXCEPT ![l] = [status |-> Status(l), skipped |-> FALSE]]
    BY <1>7 DEF FillManifest
  <2>2. Status(l) = "ok" /\ opt[l].mode = "push"
    BY <1>1, <2>1
  <2>3. tally[l][f].failed = 0
    BY <2>2 DEF Status, NoneFailed
  <2>4. docs[l] = Project(tree)
    BY <2>1 DEF StatusInv, OfTree
  <2>5. Cardinality(Lost(l, f)) <= 0
    BY <1>1, <2>2, <2>3 DEF CountsInv, Counts, LostCounted
  <2>6. Lost(l, f) = {}
    <3>1. IsFiniteSet(Lost(l, f)) /\ Cardinality(Lost(l, f)) \in Nat
      BY <1>1, LostFinite
    <3>2. Cardinality(Lost(l, f)) = 0
      BY <2>5, <3>1
    <3> QED
      BY <3>1, <3>2, FS_EmptySet
  <2>7. Missing(l, f) = {}
    BY <2>1, <2>6 DEF Lost, Unsent
  <2>8. i \in DOMAIN docs[l][f] /\ id = docs[l][f][i].id
    BY <2>4
  <2>9. id \in Ids(store[<<opt[l].ns, f>>])
    BY <2>7, <2>8 DEF Missing
  <2> QED
    BY <2>1, <2>9
<1>8. Sleeps(l) \/ Skip(l) \/ FillManifest(l)
  <2>1. ASSUME Start(l) \/ Render(l) \/ PushAnswered(l) \/ PushUnanswered(l)
               \/ VerifyBatch(l) \/ VerifyError(l) \/ OpenBundle(l) \/ FillBundle(l)
               \/ OpenManifest(l) \/ Return(l) \/ Crash(l)
        PROVE  FALSE
    BY <1>1, <2>1 DEF Start, Render, PushAnswered, PushUnanswered, AfterChunk, VerifyBatch,
       VerifyError, NextStream, OpenBundle, FillBundle, OpenManifest, Return, Crash
  <2>2. ASSUME NEW m \in Loader, m # l, Start(m) \/ Run(m) \/ Crash(m)
        PROVE  Sleeps(l)
    BY <1>1, <2>2, OthersSleep
  <2>3. ASSUME UNCHANGED vars \/ Rebuild \/ \E k \in Index : Land(k) \/ Refresh(k)
        PROVE  Sleeps(l)
    BY <2>3 DEF vars, Rebuild, Land, Refresh, Idles, Rests, Sleeps
  <2> QED
    BY <2>1, <2>2, <2>3 DEF Next, Run
<1> QED
  BY <1>5, <1>6, <1>7, <1>8

LEMMA NextStatus ==
  ASSUME NEW n, Namespace = {n}, StatusInv, [Next]_vars
  PROVE  StatusInv'
<1>1. TypeOK /\ CountsInv /\ StoreGrew
  BY StoreOnlyGrows DEF StatusInv, CountsInv, SafetyInv, TypeInv
<1>2. CountsInv' /\ ManifestsOfTree' /\ OkMeansPresent'
  BY <1>1, NextCounts, ManifestsStatus, OkStatus
<1>3. rebuilds' = 0 => rebuilds = 0 /\ tree' = tree
  BY <1>1, TreeSteps
<1>4. ASSUME NEW l \in Loader PROVE OfTree(l)'
  <2>1. CASE Sleeps(l)
    BY <1>1, <1>3, <2>1, SleepStatus
  <2>2. CASE Start(l) \/ Run(l) \/ Crash(l)
    BY <2>2, OwnStatus
  <2>3. ASSUME NEW m \in Loader, m # l, Start(m) \/ Run(m) \/ Crash(m)
        PROVE  Sleeps(l)
    BY <1>1, <2>3, OthersSleep
  <2>4. ASSUME UNCHANGED vars \/ Rebuild \/ \E k \in Index : Land(k) \/ Refresh(k)
        PROVE  Sleeps(l)
    BY <2>4 DEF vars, Rebuild, Land, Refresh, Idles, Rests, Sleeps
  <2> QED
    BY <2>1, <2>2, <2>3, <2>4 DEF Next
<1> QED
  BY <1>2, <1>4 DEF StatusInv

\* A push that ends with status ok, by pushing or by skipping, has every
\* document of the tree in Elasticsearch, as long as nobody has rebuilt the
\* tree and every push goes to the same namespace (cli.py exit code 0).
THEOREM OkIsSound ==
  ASSUME NEW n, Namespace = {n}
  PROVE  Spec => []OkMeansPresent
<1>1. Init => StatusInv
  <2>1. Init => ManifestsOfTree /\ OkMeansPresent /\ \A l \in Loader : OfTree(l)
    BY DEF Init, ManifestsOfTree, OkMeansPresent, OfTree, Finished
  <2> QED
    BY <2>1, InitCounts DEF StatusInv
<1>2. StatusInv /\ [Next]_vars => StatusInv'
  BY NextStatus
<1>3. StatusInv => OkMeansPresent
  BY DEF StatusInv
<1> QED
  BY <1>1, <1>2, <1>3, PTL DEF Spec
=============================================================================
