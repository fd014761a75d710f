----------------------------- MODULE LoadProof -----------------------------
(***************************************************************************)
(* What holds of Load for any loaders, trees, projections and bounds.       *)
(***************************************************************************)
EXTENDS Load, FiniteSetTheorems, TLAPS

\* A loader that pushes, verifies or fills has a stream in hand.
InHand ==
  \A l \in Loader : pc[l] \in {"push", "verify", "fill"} => todo[l] # {}

TypeInv == TypeOK /\ InHand

USE DEF envVars, esVars, diskVars, runVars

-----------------------------------------------------------------------------
(***************************************************************************)
(* The operators                                                           *)
(***************************************************************************)
\* The stream taken next is one of those left.
LEMMA FirstIsMember ==
  ASSUME NEW fs, fs # {}
  PROVE  First(fs) \in fs
BY DEF First

\* What a loader has in hand: a stream, its data stream and its documents.
LEMMA InHandType ==
  ASSUME TypeOK, NEW l \in Loader, todo[l] # {}
  PROVE  /\ First(todo[l]) \in Stream
         /\ First(todo[l]) \in todo[l]
         /\ opt[l].ns \in Namespace
         /\ Key(l) \in Index
         /\ List(l) \in Seq(Doc)
<1>1. First(todo[l]) \in todo[l]
  BY FirstIsMember
<1>2. todo[l] \subseteq Stream
  BY DEF TypeOK
<1>3. opt[l].ns \in Namespace
  BY OptionsAssumption DEF TypeOK
<1>4. docs[l] \in [Stream -> Seq(Doc)]
  BY DEF TypeOK
<1> QED
  BY <1>1, <1>2, <1>3, <1>4 DEF Key, List, Index

\* Sets of positions of a list are finite.
LEMMA PositionsFinite ==
  ASSUME NEW i \in Nat, NEW j \in Nat, NEW S \in SUBSET (i..j)
  PROVE  IsFiniteSet(S) /\ Cardinality(S) \in Nat
<1>1. IsFiniteSet(i..j)
  BY FS_Interval
<1>2. IsFiniteSet(S)
  BY <1>1, FS_Subset
<1> QED
  BY <1>2, FS_CardinalityType

\* An ids query counts at most the positions it asks for; when it counts as
\* many, each of them is stored.
LEMMA FoundIsBounded ==
  ASSUME NEW d, NEW k, NEW i \in Nat, NEW j \in Nat
  PROVE  /\ Cardinality(Found(d, i, j, k)) \in Nat
         /\ Cardinality(Found(d, i, j, k)) <= IF i > j THEN 0 ELSE j - i + 1
         /\ i <= j /\ Cardinality(Found(d, i, j, k)) = j - i + 1
              => \A x \in i..j : d[x].id \in Ids(store[k])
<1> DEFINE found == Found(d, i, j, k)
           asked == {d[x].id : x \in i..j}
           id == [x \in i..j |-> d[x].id]
<1>1. /\ IsFiniteSet(i..j) /\ Cardinality(i..j) = IF i > j THEN 0 ELSE j - i + 1
  BY FS_Interval
<1>2. id \in Surjection(i..j, asked)
  BY DEF Surjection
<1>3. IsFiniteSet(asked) /\ Cardinality(asked) <= Cardinality(i..j)
  BY <1>1, <1>2, FS_Surjection
<1>4. found \subseteq asked /\ found \subseteq Ids(store[k])
  BY DEF Found
<1>5. /\ IsFiniteSet(found) /\ Cardinality(found) <= Cardinality(asked)
      /\ Cardinality(asked) = Cardinality(found) => asked = found
  BY <1>3, <1>4, FS_Subset
<1>6. Cardinality(found) \in Nat /\ Cardinality(asked) \in Nat
  BY <1>3, <1>5, FS_CardinalityType
<1>7. Cardinality(found) <= IF i > j THEN 0 ELSE j - i + 1
  BY <1>1, <1>3, <1>5, <1>6
<1>8. ASSUME i <= j, Cardinality(found) = j - i + 1
      PROVE  \A x \in i..j : d[x].id \in Ids(store[k])
  <2>1. asked = found
    BY <1>1, <1>3, <1>5, <1>6, <1>8
  <2> QED
    BY <1>4, <2>1
<1> QED
  BY <1>6, <1>7, <1>8

\* The projection of a part of a tree is one list of documents per stream.
LEMMA ProjectType ==
  ASSUME TypeOK, NEW s
  PROVE  Project(Restrict(tree, s \cap DOMAIN tree)) \in [Stream -> Seq(Doc)]
BY ProjectAssumption DEF TypeOK

\* The counters stay counters.
LEMMA CountersType ==
  ASSUME NEW t \in Tallies, NEW i \in Nat, NEW j \in Nat, NEW k \in Nat
  PROVE  Answered(t, i, j, k) \in Tallies
BY DEF Tallies, Answered

LEMMA UnansweredType ==
  ASSUME NEW t \in Tallies, NEW n \in Nat
  PROVE  Unanswered(t, n) \in Tallies
BY DEF Tallies, Unanswered

LEMMA ShortType ==
  ASSUME NEW t \in Tallies, NEW i \in Nat, NEW j \in Nat
  PROVE  Short(t, i, j) \in Tallies
BY DEF Tallies, Short

LEMMA AnyOptionType == AnyOption \in Options
BY OptionsAssumption DEF AnyOption

-----------------------------------------------------------------------------
(***************************************************************************)
(* Types                                                                   *)
(***************************************************************************)
LEMMA InitTypes == Init => TypeInv
<1> SUFFICES ASSUME Init PROVE TypeInv
  OBVIOUS
<1>1. TypeOK
  BY AnyOptionType, BoundsAssumption
     DEF Init, TypeOK, Torn, NoDocs, NoTally, Tallies, NoOutcome, Locations
<1>2. InHand
  BY DEF Init, InHand
<1> QED
  BY <1>1, <1>2 DEF TypeInv

\* Forgetting a run keeps the types of what it touches.
LEMMA ForgetTypes ==
  ASSUME TypeOK, NEW l \in Loader, Forget(l)
  PROVE  /\ opt' \in [Loader -> Options]
         /\ docs' \in [Loader -> [Stream -> Seq(Doc)]]
         /\ sources' \in [Loader -> SUBSET Source]
         /\ todo' \in [Loader -> SUBSET Stream]
         /\ next' \in [Loader -> Nat \ {0}]
         /\ total' \in [Loader -> Nat]
         /\ tally' \in [Loader -> [Stream -> Tallies]]
         /\ verified' \in [Loader -> [Stream -> BOOLEAN]]
         /\ outcome' \in [Loader -> [status : {"none", "ok", "partial", "failed"},
                                     skipped : BOOLEAN]]
         /\ \A m \in Loader \ {l} : todo'[m] = todo[m]
BY AnyOptionType DEF TypeOK, Forget, NoDocs, NoTally, Tallies, NoOutcome

\* Going on with the next stream keeps the types of what it touches.
LEMMA NextStreamTypes ==
  ASSUME TypeOK, NEW l \in Loader, NextStream(l)
  PROVE  /\ todo' \in [Loader -> SUBSET Stream]
         /\ pc' \in [Loader -> Locations]
         /\ next' \in [Loader -> Nat \ {0}]
         /\ total' \in [Loader -> Nat]
         /\ pc'[l] = "bundle" \/ (pc'[l] = "push" /\ todo'[l] # {})
         /\ \A m \in Loader \ {l} : todo'[m] = todo[m] /\ pc'[m] = pc[m]
<1> DEFINE rest == todo[l] \ {First(todo[l])}
<1>1. Populated(docs[l]) \subseteq Stream /\ rest \subseteq Stream
  BY DEF TypeOK, Populated
<1>2. /\ next' = [next EXCEPT ![l] = 1] /\ total' = [total EXCEPT ![l] = 0]
      /\ todo' = [todo EXCEPT ![l] = IF rest = {} THEN Populated(docs[l]) ELSE rest]
      /\ pc' = [pc EXCEPT ![l] = IF rest = {} THEN "bundle" ELSE "push"]
  BY DEF NextStream
<1>3. /\ pc \in [Loader -> Locations] /\ todo \in [Loader -> SUBSET Stream]
      /\ next \in [Loader -> Nat \ {0}] /\ total \in [Loader -> Nat]
  BY DEF TypeOK
<1> HIDE DEF rest
<1>4. next' \in [Loader -> Nat \ {0}] /\ total' \in [Loader -> Nat]
  BY <1>2, <1>3
<1>5. CASE rest = {}
  BY <1>1, <1>2, <1>3, <1>4, <1>5 DEF Locations
<1>6. CASE rest # {}
  BY <1>1, <1>2, <1>3, <1>4, <1>6 DEF Locations
<1> QED
  BY <1>5, <1>6

\* A chunk starts where the loader is and ends inside the list; after it the
\* loader is in a later position of the same stream, or verifies it.
LEMMA AfterChunkTypes ==
  ASSUME TypeOK, NEW l \in Loader, pc[l] = "push",
         NEW j \in next[l]..Len(List(l)), AfterChunk(l, j)
  PROVE  /\ j \in Nat \ {0} /\ next[l] \in Nat \ {0} /\ next[l] <= j
         /\ pc' \in [Loader -> Locations]
         /\ next' \in [Loader -> Nat \ {0}]
         /\ \A m \in Loader \ {l} : pc'[m] = pc[m]
         /\ pc'[l] \in {"push", "verify"}
<1>1. /\ next \in [Loader -> Nat \ {0}] /\ pc \in [Loader -> Locations]
  BY DEF TypeOK
<1>2. j \in Nat \ {0} /\ next[l] \in Nat \ {0} /\ next[l] <= j
  BY <1>1
<1>3. CASE j = Len(List(l))
  BY <1>1, <1>2, <1>3 DEF AfterChunk, Locations
<1>4. CASE j # Len(List(l))
  BY <1>1, <1>2, <1>4 DEF AfterChunk
<1> QED
  BY <1>2, <1>3, <1>4

LEMMA PushAnsweredTypes ==
  ASSUME TypeInv, NEW l \in Loader, PushAnswered(l)
  PROVE  TypeInv'
<1> USE DEF TypeInv
<1>1. todo[l] # {}
  BY DEF PushAnswered, InHand
<1>2. PICK j \in next[l]..Len(List(l)) :
        /\ \E rejected \in SUBSET (next[l]..j) :
             LET accepted == (next[l]..j) \ rejected
                 fresh == Fresh(List(l), accepted, store[Key(l)])
             IN  /\ rejected # {} => faults < MaxFaults
                 /\ faults' = IF rejected = {} THEN faults ELSE faults + 1
                 /\ store' = [store EXCEPT ![Key(l)] =
                                @ \cup {List(l)[i] : i \in fresh}]
                 /\ hidden' = [hidden EXCEPT ![Key(l)] =
                                 AfterBulk(@, {List(l)[i].id : i \in fresh})]
                 /\ tally' = [tally EXCEPT ![l][First(todo[l])] =
                      Answered(@, Cardinality(fresh),
                               Cardinality(accepted \ fresh), Cardinality(rejected))]
        /\ AfterChunk(l, j)
  BY DEF PushAnswered
<1>3. PICK rejected \in SUBSET (next[l]..j) :
        LET accepted == (next[l]..j) \ rejected
            fresh == Fresh(List(l), accepted, store[Key(l)])
        IN  /\ rejected # {} => faults < MaxFaults
            /\ faults' = IF rejected = {} THEN faults ELSE faults + 1
            /\ store' = [store EXCEPT ![Key(l)] =
                           @ \cup {List(l)[i] : i \in fresh}]
            /\ hidden' = [hidden EXCEPT ![Key(l)] =
                            AfterBulk(@, {List(l)[i].id : i \in fresh})]
            /\ tally' = [tally EXCEPT ![l][First(todo[l])] =
                 Answered(@, Cardinality(fresh),
                          Cardinality(accepted \ fresh), Cardinality(rejected))]
  BY <1>2
<1> DEFINE accepted == (next[l]..j) \ rejected
           fresh == Fresh(List(l), accepted, store[Key(l)])
<1>4. /\ First(todo[l]) \in Stream /\ Key(l) \in Index /\ List(l) \in Seq(Doc)
  BY <1>1, InHandType
<1>5. AfterChunk(l, j) /\ pc[l] = "push"
  BY <1>2 DEF PushAnswered
<1>6. /\ j \in Nat \ {0} /\ next[l] \in Nat \ {0} /\ next[l] <= j
      /\ pc' \in [Loader -> Locations]
      /\ next' \in [Loader -> Nat \ {0}]
      /\ \A m \in Loader \ {l} : pc'[m] = pc[m]
      /\ pc'[l] \in {"push", "verify"}
  BY <1>5, AfterChunkTypes
<1>7. fresh \subseteq next[l]..j /\ accepted \ fresh \subseteq next[l]..j
  BY DEF Fresh
<1>8. /\ Cardinality(fresh) \in Nat /\ Cardinality(accepted \ fresh) \in Nat
      /\ Cardinality(rejected) \in Nat
  BY <1>6, <1>7, PositionsFinite
<1>9. {List(l)[i] : i \in fresh} \subseteq Doc
  <2>1. j \in 1..Len(List(l)) /\ Len(List(l)) \in Nat
    BY <1>4, <1>6
  <2>2. \A i \in next[l]..j : List(l)[i] \in Doc
    BY <1>4, <1>6, <2>1
  <2> HIDE DEF fresh
  <2> QED
    BY <1>7, <2>2
<1>10. store' \in [Index -> SUBSET Doc]
  BY <1>3, <1>4, <1>9 DEF TypeOK
<1>11. hidden' \in [Index -> SUBSET Ids(Doc)]
  BY <1>3, <1>4 DEF TypeOK, AfterBulk
<1>12. tally' \in [Loader -> [Stream -> Tallies]]
  <2>1. tally[l][First(todo[l])] \in Tallies
    BY <1>4 DEF TypeOK
  <2>2. Answered(tally[l][First(todo[l])], Cardinality(fresh),
                 Cardinality(accepted \ fresh), Cardinality(rejected)) \in Tallies
    BY <1>8, <2>1, CountersType
  <2> QED
    BY <1>3, <1>4, <2>2 DEF TypeOK
<1>13. faults' \in 0..MaxFaults
  BY <1>3, BoundsAssumption DEF TypeOK
<1>14. UNCHANGED <<envVars, pending, diskVars, runVars, todo, total, verified, outcome>>
  BY DEF PushAnswered
<1>15. TypeOK'
  BY <1>6, <1>10, <1>11, <1>12, <1>13, <1>14 DEF TypeOK
<1>16. InHand'
  BY <1>1, <1>6, <1>14 DEF InHand
<1> QED
  BY <1>15, <1>16

LEMMA PushUnansweredTypes ==
  ASSUME TypeInv, NEW l \in Loader, PushUnanswered(l)
  PROVE  TypeInv'
<1> USE DEF TypeInv
<1>1. todo[l] # {}
  BY DEF PushUnanswered, InHand
<1>2. PICK j \in next[l]..Len(List(l)) :
        /\ \E sent \in SUBSET (next[l]..j) :
             pending' = [pending EXCEPT ![Key(l)] = @ \cup {List(l)[i] : i \in sent}]
        /\ tally' = [tally EXCEPT ![l][First(todo[l])] = Unanswered(@, j - next[l] + 1)]
        /\ AfterChunk(l, j)
  BY DEF PushUnanswered
<1>3. PICK sent \in SUBSET (next[l]..j) :
        pending' = [pending EXCEPT ![Key(l)] = @ \cup {List(l)[i] : i \in sent}]
  BY <1>2
<1>4. /\ First(todo[l]) \in Stream /\ Key(l) \in Index /\ List(l) \in Seq(Doc)
  BY <1>1, InHandType
<1>5. AfterChunk(l, j) /\ pc[l] = "push"
  BY <1>2 DEF PushUnanswered
<1>6. /\ j \in Nat \ {0} /\ next[l] \in Nat \ {0} /\ next[l] <= j
      /\ pc' \in [Loader -> Locations]
      /\ next' \in [Loader -> Nat \ {0}]
      /\ \A m \in Loader \ {l} : pc'[m] = pc[m]
      /\ pc'[l] \in {"push", "verify"}
  BY <1>5, AfterChunkTypes
<1>7. {List(l)[i] : i \in sent} \subseteq Doc
  BY <1>4, <1>6
<1>8. pending' \in [Index -> SUBSET Doc]
  BY <1>3, <1>4, <1>7 DEF TypeOK
<1>9. tally' \in [Loader -> [Stream -> Tallies]]
  <2>1. tally[l][First(todo[l])] \in Tallies
    BY <1>4 DEF TypeOK
  <2>2. Unanswered(tally[l][First(todo[l])], j - next[l] + 1) \in Tallies
    BY <1>6, <2>1, UnansweredType
  <2> QED
    BY <1>2, <1>4, <2>2 DEF TypeOK
<1>10. faults' \in 0..MaxFaults
  BY BoundsAssumption DEF TypeOK, PushUnanswered
<1>11. UNCHANGED <<envVars, store, hidden, diskVars, runVars, todo, total, verified, outcome>>
  BY DEF PushUnanswered
<1>12. TypeOK'
  BY <1>6, <1>8, <1>9, <1>10, <1>11 DEF TypeOK
<1>13. InHand'
  BY <1>1, <1>6, <1>11 DEF InHand
<1> QED
  BY <1>12, <1>13

LEMMA VerifyBatchTypes ==
  ASSUME TypeInv, NEW l \in Loader, VerifyBatch(l)
  PROVE  TypeInv'
<1> USE DEF TypeInv
<1>1. todo[l] # {} /\ pc[l] = "verify"
  BY DEF VerifyBatch, InHand
<1> DEFINE f == First(todo[l])
           size == Len(List(l))
           j == IF next[l] + BatchSize - 1 < size THEN next[l] + BatchSize - 1 ELSE size
           found == Found(List(l), next[l], j, Key(l))
           count == total[l] + Cardinality(found)
<1>2. /\ f \in Stream /\ Key(l) \in Index /\ List(l) \in Seq(Doc)
  BY <1>1, InHandType
<1>3. /\ size \in Nat /\ next[l] \in Nat \ {0} /\ total[l] \in Nat /\ j \in Nat
  BY <1>2, BoundsAssumption DEF TypeOK
<1>4. count \in Nat
  <2>1. Cardinality(found) \in Nat
    BY <1>3, FoundIsBounded
  <2> QED
    BY <1>3, <2>1
<1>5. UNCHANGED <<envVars, faults, esVars, diskVars, runVars, outcome>>
  BY DEF VerifyBatch
<1>6. CASE j < size
  <2>1. /\ total' = [total EXCEPT ![l] = count]
        /\ next' = [next EXCEPT ![l] = j + 1]
        /\ UNCHANGED <<pc, todo, tally, verified>>
    BY <1>6 DEF VerifyBatch
  <2> HIDE DEF count, j
  <2>2. TypeOK'
    BY <1>3, <1>4, <1>5, <2>1 DEF TypeOK
  <2> QED
    BY <1>5, <2>1, <2>2 DEF InHand
<1>7. CASE ~(j < size)
  <2>1. /\ verified' = [verified EXCEPT ![l][f] = (count = size)]
        /\ tally' = [tally EXCEPT ![l][f] = Short(@, size, count)]
        /\ NextStream(l)
    BY <1>7 DEF VerifyBatch
  <2>2. Short(tally[l][f], size, count) \in Tallies
    BY <1>2, <1>3, <1>4, ShortType DEF TypeOK
  <2> HIDE DEF count, size, f
  <2>3. tally' \in [Loader -> [Stream -> Tallies]]
    BY <1>2, <2>1, <2>2 DEF TypeOK
  <2>4. verified' \in [Loader -> [Stream -> BOOLEAN]]
    BY <1>2, <2>1 DEF TypeOK
  <2>5. /\ todo' \in [Loader -> SUBSET Stream]
        /\ pc' \in [Loader -> Locations]
        /\ next' \in [Loader -> Nat \ {0}]
        /\ total' \in [Loader -> Nat]
        /\ pc'[l] = "bundle" \/ (pc'[l] = "push" /\ todo'[l] # {})
        /\ \A m \in Loader \ {l} : todo'[m] = todo[m] /\ pc'[m] = pc[m]
    BY <2>1, NextStreamTypes
  <2>6. TypeOK'
    BY <1>5, <2>3, <2>4, <2>5 DEF TypeOK
  <2>7. InHand'
    BY <2>5 DEF InHand
  <2> QED
    BY <2>6, <2>7
<1> QED
  BY <1>6, <1>7

LEMMA VerifyErrorTypes ==
  ASSUME TypeInv, NEW l \in Loader, VerifyError(l)
  PROVE  TypeInv'
<1> USE DEF TypeInv
<1>1. /\ todo' \in [Loader -> SUBSET Stream]
      /\ pc' \in [Loader -> Locations]
      /\ next' \in [Loader -> Nat \ {0}]
      /\ total' \in [Loader -> Nat]
      /\ pc'[l] = "bundle" \/ (pc'[l] = "push" /\ todo'[l] # {})
      /\ \A m \in Loader \ {l} : todo'[m] = todo[m] /\ pc'[m] = pc[m]
  BY NextStreamTypes DEF VerifyError
<1>2. /\ faults < MaxFaults /\ faults' = faults + 1
      /\ UNCHANGED <<envVars, esVars, diskVars, runVars, tally, verified, outcome>>
  BY DEF VerifyError
<1>3. TypeOK'
  BY <1>1, <1>2, BoundsAssumption DEF TypeOK
<1>4. InHand'
  BY <1>1 DEF InHand
<1> QED
  BY <1>3, <1>4

\* The steps at the start of a run.
LEMMA CheckTypes ==
  ASSUME TypeInv, NEW l \in Loader, Start(l) \/ Skip(l) \/ Render(l)
  PROVE  TypeInv'
<1> USE DEF TypeInv
<1>1. CASE Start(l)
  <2>1. opt' \in [Loader -> Options]
    BY <1>1 DEF TypeOK, Start
  <2>2. sources' \in [Loader -> SUBSET Source]
    BY <1>1, TreesAssumption DEF TypeOK, Start
  <2>3. pc' \in [Loader -> Locations]
    BY <1>1 DEF TypeOK, Start, Locations
  <2>4. TypeOK'
    BY <1>1, <2>1, <2>2, <2>3 DEF TypeOK, Start
  <2>5. InHand'
    BY <1>1 DEF TypeOK, Start, InHand
  <2> QED
    BY <2>4, <2>5
<1>2. CASE Skip(l)
  <2>1. TypeOK'
    BY <1>2 DEF TypeOK, Skip, Locations
  <2>2. InHand'
    BY <1>2 DEF TypeOK, Skip, InHand
  <2> QED
    BY <2>1, <2>2
<1>3. CASE Render(l)
  <2> DEFINE projected == Project(Restrict(tree, sources[l] \cap DOMAIN tree))
  <2>1. projected \in [Stream -> Seq(Doc)]
    BY ProjectType
  <2> HIDE DEF projected
  <2>2. /\ docs' = [docs EXCEPT ![l] = projected]
        /\ todo' = [todo EXCEPT ![l] = Populated(projected)]
        /\ pc' = [pc EXCEPT ![l] =
             IF opt[l].mode = "push" /\ Populated(projected) # {}
             THEN "push" ELSE "bundle"]
        /\ UNCHANGED <<envVars, faults, esVars, diskVars, opt, sources, next, total,
                       tally, verified, outcome>>
    BY <1>3 DEF Render, projected
  <2>3. Populated(projected) \subseteq Stream
    BY DEF Populated
  <2>4. TypeOK'
    BY <2>1, <2>2, <2>3 DEF TypeOK, Locations
  <2>5. InHand'
    BY <2>2 DEF TypeOK, InHand
  <2> QED
    BY <2>4, <2>5
<1> QED
  BY <1>1, <1>2, <1>3

\* The steps that write the bundles and the manifest.
LEMMA WriteTypes ==
  ASSUME TypeInv, NEW l \in Loader,
         OpenBundle(l) \/ FillBundle(l) \/ OpenManifest(l) \/ FillManifest(l)
  PROVE  TypeInv'
<1> USE DEF TypeInv
<1>1. OutDirOf[l] \in OutDir
  BY OutDirAssumption
<1>2. CASE OpenBundle(l)
  <2>1. Key(l) \in Index
    BY <1>2, InHandType DEF OpenBundle
  <2>2. bundle' \in [OutDir -> [Index -> {Torn} \cup [docs : Seq(Doc)]]]
    BY <1>1, <1>2, <2>1 DEF TypeOK, OpenBundle
  <2>3. TypeOK'
    BY <1>2, <2>2 DEF TypeOK, OpenBundle, Locations
  <2>4. InHand'
    BY <1>2 DEF TypeOK, OpenBundle, InHand
  <2> QED
    BY <2>3, <2>4
<1>3. CASE FillBundle(l)
  <2>1. Key(l) \in Index /\ List(l) \in Seq(Doc)
    BY <1>3, InHandType DEF FillBundle, InHand
  <2>2. bundle' \in [OutDir -> [Index -> {Torn} \cup [docs : Seq(Doc)]]]
    BY <1>1, <1>3, <2>1 DEF TypeOK, FillBundle, Written
  <2>3. TypeOK'
    BY <1>3, <2>2 DEF TypeOK, FillBundle, Locations
  <2>4. InHand'
    BY <1>3 DEF TypeOK, FillBundle, InHand
  <2> QED
    BY <2>3, <2>4
<1>4. CASE OpenManifest(l)
  <2>1. manifest' \in [OutDir -> {Torn} \cup Manifests]
    BY <1>1, <1>4 DEF TypeOK, OpenManifest
  <2>2. TypeOK'
    BY <1>4, <2>1 DEF TypeOK, OpenManifest, Locations
  <2>3. InHand'
    BY <1>4 DEF TypeOK, OpenManifest, InHand
  <2> QED
    BY <2>2, <2>3
<1>5. CASE FillManifest(l)
  <2>1. ManifestOf(l) \in Manifests
    BY OptionsAssumption DEF TypeOK, ManifestOf, Manifests, PushOk
  <2>2. manifest' \in [OutDir -> {Torn} \cup Manifests]
    <3> HIDE DEF TypeOK
    <3>1. PICK m \in Written(ManifestOf(l), manifest[OutDirOf[l]]) :
            manifest' = [manifest EXCEPT ![OutDirOf[l]] = m]
      BY <1>5 DEF FillManifest
    <3>2. m \in {Torn} \cup Manifests
      BY <2>1 DEF Written
    <3> QED
      BY <1>1, <3>1, <3>2 DEF TypeOK
  <2>3. Status(l) \in {"none", "ok", "partial", "failed"}
    BY DEF Status
  <2>4. outcome' \in [Loader -> [status : {"none", "ok", "partial", "failed"},
                                 skipped : BOOLEAN]]
    BY <1>5, <2>3 DEF TypeOK, FillManifest
  <2>5. TypeOK'
    BY <1>5, <2>2, <2>4 DEF TypeOK, FillManifest, Locations
  <2>6. InHand'
    BY <1>5 DEF TypeOK, FillManifest, InHand
  <2> QED
    BY <2>5, <2>6
<1> QED
  BY <1>2, <1>3, <1>4, <1>5

\* The ends of a run, and the environment's steps.
LEMMA EndTypes ==
  ASSUME TypeInv, NEW l \in Loader, Return(l) \/ Crash(l)
  PROVE  TypeInv'
<1> USE DEF TypeInv
<1>1. Forget(l) /\ pc' = [pc EXCEPT ![l] = "idle"]
  BY DEF Return, Crash
<1>2. /\ faults' \in 0..MaxFaults
      /\ UNCHANGED <<envVars, esVars, diskVars>>
  BY BoundsAssumption DEF TypeOK, Return, Crash
<1>3. /\ opt' \in [Loader -> Options]
      /\ docs' \in [Loader -> [Stream -> Seq(Doc)]]
      /\ sources' \in [Loader -> SUBSET Source]
      /\ todo' \in [Loader -> SUBSET Stream]
      /\ next' \in [Loader -> Nat \ {0}]
      /\ total' \in [Loader -> Nat]
      /\ tally' \in [Loader -> [Stream -> Tallies]]
      /\ verified' \in [Loader -> [Stream -> BOOLEAN]]
      /\ outcome' \in [Loader -> [status : {"none", "ok", "partial", "failed"},
                                  skipped : BOOLEAN]]
      /\ \A m \in Loader \ {l} : todo'[m] = todo[m]
  BY <1>1, ForgetTypes
<1>4. TypeOK'
  BY <1>1, <1>2, <1>3 DEF TypeOK, Locations
<1>5. InHand'
  BY <1>1, <1>3 DEF TypeOK, InHand
<1> QED
  BY <1>4, <1>5

LEMMA EnvironmentTypes ==
  ASSUME TypeInv, Rebuild \/ \E k \in Index : Land(k) \/ Refresh(k)
  PROVE  TypeInv'
<1> USE DEF TypeInv
<1>1. CASE Rebuild
  <2>1. TypeOK'
    BY <1>1, BoundsAssumption DEF TypeOK, Rebuild
  <2> QED
    BY <1>1, <2>1 DEF Rebuild, InHand
<1>2. ASSUME NEW k \in Index, Land(k) PROVE TypeInv'
  <2>1. PICK d \in pending[k] :
          /\ pending' = [pending EXCEPT ![k] = @ \ {d}]
          /\ IF d.id \in Ids(store[k])
             THEN UNCHANGED <<store, hidden>>
             ELSE /\ store' = [store EXCEPT ![k] = @ \cup {d}]
                  /\ hidden' = [hidden EXCEPT ![k] = @ \cup {d.id}]
          /\ UNCHANGED <<envVars, faults, diskVars, pc, runVars, todo, next, total,
                         tally, verified, outcome>>
    BY <1>2 DEF Land
  <2>2. d \in Doc /\ d.id \in Ids(Doc)
    BY DEF TypeOK, Ids
  <2>3. /\ store' \in [Index -> SUBSET Doc]
        /\ hidden' \in [Index -> SUBSET Ids(Doc)]
        /\ pending' \in [Index -> SUBSET Doc]
    <3> HIDE DEF Ids
    <3>1. /\ store \in [Index -> SUBSET Doc] /\ pending \in [Index -> SUBSET Doc]
          /\ hidden \in [Index -> SUBSET Ids(Doc)]
      BY DEF TypeOK
    <3>2. pending' \in [Index -> SUBSET Doc]
      BY <2>1, <3>1
    <3>3. CASE d.id \in Ids(store[k])
      BY <2>1, <3>1, <3>2, <3>3
    <3>4. CASE d.id \notin Ids(store[k])
      BY <2>1, <2>2, <3>1, <3>2, <3>4
    <3> QED
      BY <3>3, <3>4
  <2>4. TypeOK'
    BY <2>1, <2>3 DEF TypeOK
  <2> QED
    BY <2>1, <2>4 DEF InHand
<1>3. ASSUME NEW k \in Index, Refresh(k) PROVE TypeInv'
  <2>1. TypeOK'
    BY <1>3 DEF TypeOK, Refresh
  <2> QED
    BY <1>3, <2>1 DEF Refresh, InHand
<1> QED
  BY <1>1, <1>2, <1>3

LEMMA NextTypes ==
  ASSUME TypeInv, [Next]_vars
  PROVE  TypeInv'
<1>1. CASE UNCHANGED vars
  BY <1>1 DEF TypeInv, TypeOK, InHand, vars
<1>2. CASE Next
  <2>1. ASSUME NEW l \in Loader, Start(l) \/ Run(l) \/ Crash(l)
        PROVE  TypeInv'
    BY <2>1, CheckTypes, PushAnsweredTypes, PushUnansweredTypes, VerifyBatchTypes,
       VerifyErrorTypes, WriteTypes, EndTypes DEF Run
  <2> QED
    BY <1>2, <2>1, EnvironmentTypes DEF Next
<1> QED
  BY <1>1, <1>2

\* Every variable has its type in every state of Load, whatever the trees, the
\* projection and the bounds are (load.py run).
THEOREM TypeCorrect == Spec => []TypeOK
<1>1. Init => TypeInv
  BY InitTypes
<1>2. TypeInv /\ [Next]_vars => TypeInv'
  BY NextTypes
<1>3. TypeInv => TypeOK
  BY DEF TypeInv
<1> QED
  BY <1>1, <1>2, <1>3, PTL DEF Spec

-----------------------------------------------------------------------------
(***************************************************************************)
(* What verified and push_ok stand for                                     *)
(***************************************************************************)
\* What a loader knows of Elasticsearch: while it verifies, a total as large as
\* the number of positions it has asked for means that each of them is stored;
\* it starts with nothing counted and nothing verified.
Knows(l) ==
  /\ pc[l] = "verify" =>
       /\ next[l] <= Len(List(l)) + 1
       /\ total[l] <= next[l] - 1
       /\ total[l] = next[l] - 1 =>
            \A i \in 1..(next[l] - 1) : List(l)[i].id \in Ids(store[Key(l)])
  /\ pc[l] \in {"idle", "check", "push"} => total[l] = 0
  /\ pc[l] \in {"idle", "check"} => \A f \in Stream : ~verified[l][f]
  /\ \A f \in Stream : verified[l][f] => Present(<<opt[l].ns, f>>, docs[l][f])

SafetyInv ==
  /\ TypeInv
  /\ \A l \in Loader : Knows(l)
  /\ PushOkMeansPresent

StoreGrew == \A k \in Index : Ids(store[k]) \subseteq Ids(store'[k])

\* What Knows(l) depends on, besides the store, is left alone.
Idles(l) ==
  /\ pc'[l] = pc[l] /\ opt'[l] = opt[l] /\ docs'[l] = docs[l] /\ todo'[l] = todo[l]
  /\ next'[l] = next[l] /\ total'[l] = total[l] /\ verified'[l] = verified[l]

\* No step removes a document.
LEMMA StoreOnlyGrows ==
  ASSUME TypeInv, [Next]_vars
  PROVE  StoreGrew
<1> USE DEF TypeInv, Ids, StoreGrew
<1>1. store \in [Index -> SUBSET Doc]
  BY DEF TypeOK
<1>2. ASSUME NEW l \in Loader, PushAnswered(l) PROVE StoreGrew
  <2>1. \E k, new : store' = [store EXCEPT ![k] = @ \cup new]
    BY <1>2 DEF PushAnswered
  <2> QED
    BY <1>1, <2>1
<1>3. ASSUME NEW k \in Index, Land(k) PROVE StoreGrew
  <2>1. store' = store \/ \E d : store' = [store EXCEPT ![k] = @ \cup {d}]
    BY <1>3 DEF Land
  <2> QED
    BY <1>1, <2>1
<1>4. CASE store' = store
  BY <1>4
<1> QED
  BY <1>2, <1>3, <1>4
     DEF Next, Run, vars, Start, Skip, Render, PushUnanswered, VerifyBatch, VerifyError,
         OpenBundle, FillBundle, OpenManifest, FillManifest, Return, Crash, Refresh,
         Rebuild

\* What is present stays present.
LEMMA PresentStays ==
  ASSUME TypeOK, StoreGrew, NEW k \in Index, NEW d, Present(k, d)
  PROVE  Present(k, d)'
BY DEF Present, StoreGrew

\* A loader that does nothing keeps what it knows.
LEMMA IdleKnows ==
  ASSUME SafetyInv, StoreGrew, NEW l \in Loader, Idles(l)
  PROVE  Knows(l)'
<1> USE DEF Idles
<1>1. Knows(l) /\ TypeOK /\ InHand
  BY DEF SafetyInv, TypeInv
<1>2. opt[l].ns \in Namespace
  BY <1>1, OptionsAssumption DEF TypeOK
<1>3. \A f \in Stream : verified[l][f]' => Present(<<opt[l].ns, f>>, docs[l][f])'
  BY <1>1, <1>2, PresentStays DEF Knows, Index
<1>4. CASE pc[l] = "verify"
  <2>1. Key(l) \in Index
    BY <1>1, <1>4, InHandType DEF InHand
  <2>2. List(l)' = List(l) /\ Key(l)' = Key(l)
    BY DEF List, Key
  <2> QED
    BY <1>1, <1>3, <1>4, <2>1, <2>2 DEF Knows, StoreGrew
<1>5. CASE pc[l] # "verify"
  BY <1>1, <1>3, <1>5 DEF Knows
<1> QED
  BY <1>4, <1>5

\* A loader's step leaves the others alone.
LEMMA OthersIdle ==
  ASSUME TypeOK, NEW l \in Loader, Start(l) \/ Run(l) \/ Crash(l),
         NEW m \in Loader \ {l}
  PROVE  Idles(m)
<1>1. /\ pc \in [Loader -> Locations] /\ opt \in [Loader -> Options]
      /\ docs \in [Loader -> [Stream -> Seq(Doc)]] /\ todo \in [Loader -> SUBSET Stream]
      /\ next \in [Loader -> Nat \ {0}] /\ total \in [Loader -> Nat]
      /\ verified \in [Loader -> [Stream -> BOOLEAN]]
  BY DEF TypeOK
<1> USE DEF Idles
<1>2. CASE Start(l) \/ Skip(l) \/ Render(l)
  BY <1>1, <1>2 DEF Start, Skip, Render
<1>3. CASE PushAnswered(l) \/ PushUnanswered(l)
  BY <1>1, <1>3 DEF PushAnswered, PushUnanswered, AfterChunk
<1>4. CASE VerifyBatch(l)
  <2>1. \/ /\ \E x : total' = [total EXCEPT ![l] = x]
           /\ \E x : next' = [next EXCEPT ![l] = x]
           /\ UNCHANGED <<pc, todo, verified>>
        \/ /\ \E x : verified' = [verified EXCEPT ![l] = x]
           /\ NextStream(l)
    BY <1>4 DEF VerifyBatch
  <2>2. UNCHANGED <<opt, docs>>
    BY <1>4 DEF VerifyBatch
  <2> QED
    BY <1>1, <2>1, <2>2 DEF NextStream
<1>5. CASE VerifyError(l)
  BY <1>1, <1>5 DEF VerifyError, NextStream
<1>6. CASE OpenBundle(l) \/ FillBundle(l) \/ OpenManifest(l) \/ FillManifest(l)
  BY <1>1, <1>6 DEF OpenBundle, FillBundle, OpenManifest, FillManifest
<1>7. CASE Return(l) \/ Crash(l)
  BY <1>1, <1>7 DEF Return, Crash, Forget
<1> QED
  BY <1>2, <1>3, <1>4, <1>5, <1>6, <1>7 DEF Run

\* A run that has just started, or has just ended, knows nothing wrong.
LEMMA StartKnows ==
  ASSUME SafetyInv, StoreGrew, NEW l \in Loader,
         Start(l) \/ Skip(l) \/ Render(l) \/ Return(l) \/ Crash(l)
  PROVE  Knows(l)'
<1>1. TypeOK /\ Knows(l)
  BY DEF SafetyInv, TypeInv
<1>2. CASE Start(l) \/ Skip(l) \/ Render(l)
  <2>1. /\ pc[l] \in {"idle", "check"} /\ total' = total /\ verified' = verified
        /\ pc'[l] # "verify"
    BY <1>1, <1>2 DEF Start, Skip, Render, TypeOK
  <2> QED
    BY <1>1, <2>1 DEF Knows
<1>3. CASE Return(l) \/ Crash(l)
  <2>1. /\ pc'[l] = "idle" /\ total'[l] = 0
        /\ verified'[l] = [f \in Stream |-> FALSE]
    BY <1>1, <1>3 DEF Return, Crash, Forget, TypeOK
  <2> QED
    BY <2>1 DEF Knows
<1> QED
  BY <1>2, <1>3

\* What a loader verified stays present while it works on.
LEMMA VerifiedStays ==
  ASSUME SafetyInv, StoreGrew, NEW l \in Loader, UNCHANGED <<opt, docs>>,
         NEW f \in Stream, verified[l][f]
  PROVE  Present(<<opt[l].ns, f>>, docs[l][f])'
<1>1. TypeOK /\ Knows(l)
  BY DEF SafetyInv, TypeInv
<1>2. <<opt[l].ns, f>> \in Index
  BY <1>1, OptionsAssumption DEF TypeOK, Index
<1> QED
  BY <1>1, <1>2, PresentStays DEF Knows

LEMMA PushKnows ==
  ASSUME SafetyInv, StoreGrew, NEW l \in Loader,
         PushAnswered(l) \/ PushUnanswered(l)
  PROVE  Knows(l)'
<1>1. TypeOK /\ Knows(l) /\ pc[l] = "push" /\ todo[l] # {}
  BY DEF SafetyInv, TypeInv, InHand, PushAnswered, PushUnanswered
<1>2. UNCHANGED <<opt, docs, todo, total, verified>>
  BY DEF PushAnswered, PushUnanswered
<1>3. PICK j \in next[l]..Len(List(l)) : AfterChunk(l, j)
  BY DEF PushAnswered, PushUnanswered
<1>4. pc'[l] = "push" \/ (pc'[l] = "verify" /\ next'[l] = 1)
  BY <1>1, <1>3 DEF AfterChunk, TypeOK
<1>5. total'[l] = 0
  BY <1>1, <1>2 DEF Knows
<1>6. Len(List(l)') \in Nat
  BY <1>1, <1>2, InHandType DEF List
<1>7. \A f \in Stream : verified'[l][f] => Present(<<opt[l].ns, f>>, docs[l][f])'
  BY <1>2, VerifiedStays
<1> QED
  BY <1>4, <1>5, <1>6, <1>7 DEF Knows

LEMMA VerifyKnows ==
  ASSUME SafetyInv, StoreGrew, NEW l \in Loader, VerifyBatch(l)
  PROVE  Knows(l)'
<1> DEFINE f == First(todo[l])
           size == Len(List(l))
           j == IF next[l] + BatchSize - 1 < size THEN next[l] + BatchSize - 1 ELSE size
           found == Found(List(l), next[l], j, Key(l))
           count == total[l] + Cardinality(found)
<1>1. TypeOK /\ Knows(l) /\ pc[l] = "verify" /\ todo[l] # {}
  BY DEF SafetyInv, TypeInv, InHand, VerifyBatch
<1>2. /\ f \in Stream /\ Key(l) \in Index /\ List(l) \in Seq(Doc)
      /\ Key(l) = <<opt[l].ns, f>> /\ List(l) = docs[l][f]
  BY <1>1, InHandType DEF Key, List
<1>3. /\ size \in Nat /\ next[l] \in Nat \ {0} /\ total[l] \in Nat /\ j \in Nat
      /\ BatchSize \in Nat \ {0}
  BY <1>1, <1>2, BoundsAssumption DEF TypeOK
<1>4. /\ next[l] <= size + 1 /\ total[l] <= next[l] - 1
      /\ total[l] = next[l] - 1 =>
           \A i \in 1..(next[l] - 1) : List(l)[i].id \in Ids(store[Key(l)])
  BY <1>1 DEF Knows
<1>5. /\ Cardinality(found) \in Nat
      /\ Cardinality(found) <= IF next[l] > j THEN 0 ELSE j - next[l] + 1
      /\ next[l] <= j /\ Cardinality(found) = j - next[l] + 1
           => \A x \in next[l]..j : List(l)[x].id \in Ids(store[Key(l)])
  BY <1>3, FoundIsBounded
<1>6. next[l] - 1 <= j /\ j <= size
  BY <1>3, <1>4
<1>7. /\ count \in Nat /\ count <= j
      /\ count = j => \A i \in 1..j : List(l)[i].id \in Ids(store[Key(l)])
  <2> HIDE DEF found, j, size
  <2>1. count \in Nat /\ count <= j
    BY <1>3, <1>4, <1>5, <1>6
  <2>2. ASSUME count = j, NEW i \in 1..j
        PROVE  List(l)[i].id \in Ids(store[Key(l)])
    <3>1. total[l] = next[l] - 1
      BY <1>3, <1>4, <1>5, <1>6, <2>2
    <3>2. CASE i <= next[l] - 1
      BY <1>3, <1>4, <3>1, <3>2
    <3>3. CASE i > next[l] - 1
      BY <1>3, <1>5, <2>2, <3>1, <3>3
    <3> QED
      BY <1>3, <3>2, <3>3
  <2> QED
    BY <2>1, <2>2
<1>8. UNCHANGED <<opt, docs>> /\ UNCHANGED store
  BY DEF VerifyBatch
<1>9. \A g \in Stream : verified[l][g] => Present(<<opt[l].ns, g>>, docs[l][g])'
  BY <1>8, VerifiedStays
<1>10. CASE j < size
  <2>1. /\ total' = [total EXCEPT ![l] = count]
        /\ next' = [next EXCEPT ![l] = j + 1]
        /\ UNCHANGED <<pc, todo, tally, verified>>
    BY <1>10 DEF VerifyBatch
  <2>2. List(l)' = List(l) /\ Key(l)' = Key(l)
    BY <1>8, <2>1 DEF List, Key
  <2>3. total'[l] = count /\ next'[l] = j + 1 /\ pc'[l] = "verify"
    BY <1>1, <2>1 DEF TypeOK
  <2>4. /\ next'[l] <= Len(List(l)') + 1
        /\ total'[l] <= next'[l] - 1
        /\ total'[l] = next'[l] - 1 =>
             \A i \in 1..(next'[l] - 1) : List(l)'[i].id \in Ids(store'[Key(l)'])
    <3> HIDE DEF count, j
    <3> QED
      BY <1>3, <1>6, <1>7, <1>8, <2>2, <2>3
  <2> QED
    BY <1>9, <2>1, <2>3, <2>4 DEF Knows
<1>11. CASE ~(j < size)
  <2>1. verified' = [verified EXCEPT ![l][f] = (count = size)] /\ NextStream(l)
    BY <1>11 DEF VerifyBatch
  <2>2. total'[l] = 0 /\ pc'[l] \in {"push", "bundle"}
    BY <1>1, <2>1 DEF NextStream, TypeOK
  <2>3. j = size
    BY <1>3, <1>6, <1>11
  <2>4. ASSUME NEW g \in Stream, verified'[l][g]
        PROVE  Present(<<opt[l].ns, g>>, docs[l][g])'
    <3>1. CASE g = f
      <4>1. count = size
        <5> HIDE DEF f, count, size
        <5> QED
          BY <1>1, <2>1, <2>4, <3>1 DEF TypeOK
      <4>2. \A i \in 1..size : List(l)[i].id \in Ids(store[Key(l)])
        BY <1>7, <2>3, <4>1
      <4>3. DOMAIN docs[l][f] = 1..size
        BY <1>2
      <4>4. Present(<<opt[l].ns, f>>, docs[l][f])
        BY <1>2, <4>2, <4>3 DEF Present
      <4> QED
        BY <1>8, <3>1, <4>4 DEF Present
    <3>2. CASE g # f
      <4>1. verified[l][g]
        <5> HIDE DEF f, count, size
        <5> QED
          BY <1>1, <2>1, <2>4, <3>2 DEF TypeOK
      <4> QED
        BY <1>9, <4>1
    <3> QED
      BY <3>1, <3>2
  <2> QED
    BY <2>2, <2>4 DEF Knows
<1> QED
  BY <1>10, <1>11

\* The steps that neither push nor count.
LEMMA RestKnows ==
  ASSUME SafetyInv, StoreGrew, NEW l \in Loader,
         \/ VerifyError(l)
         \/ OpenBundle(l) \/ FillBundle(l) \/ OpenManifest(l) \/ FillManifest(l)
  PROVE  Knows(l)'
<1>1. TypeOK
  BY DEF SafetyInv, TypeInv
<1>2. UNCHANGED <<opt, docs, verified>>
  BY DEF VerifyError, OpenBundle, FillBundle, OpenManifest, FillManifest
<1>3. pc'[l] \in {"fill", "bundle", "manifest", "done"} \/ (pc'[l] = "push" /\ total'[l] = 0)
  BY <1>1 DEF TypeOK, VerifyError, NextStream, OpenBundle, FillBundle, OpenManifest,
              FillManifest
<1>4. \A f \in Stream : verified'[l][f] => Present(<<opt[l].ns, f>>, docs[l][f])'
  BY <1>2, VerifiedStays
<1> QED
  BY <1>3, <1>4 DEF Knows

\* A manifest on disk keeps standing for what is there.
LEMMA PushOkStays ==
  ASSUME SafetyInv, StoreGrew, manifest' = manifest
  PROVE  PushOkMeansPresent'
<1>1. TypeOK /\ PushOkMeansPresent
  BY DEF SafetyInv, TypeInv
<1> SUFFICES ASSUME NEW o \in OutDir, manifest[o] # Torn, manifest[o].pushOk,
                    NEW f \in Stream
             PROVE  Present(<<manifest[o].ns, f>>, manifest[o].docs[f])'
  BY DEF PushOkMeansPresent
<1>2. manifest[o].ns \in Namespace
  BY <1>1 DEF TypeOK, Manifests
<1>3. Present(<<manifest[o].ns, f>>, manifest[o].docs[f])
  BY <1>1 DEF PushOkMeansPresent
<1> QED
  BY <1>1, <1>2, <1>3, PresentStays DEF Index

\* A manifest is only written with push_ok when every stream was verified.
LEMMA WrittenPushOk ==
  ASSUME SafetyInv, NEW l \in Loader, OpenManifest(l) \/ FillManifest(l)
  PROVE  PushOkMeansPresent'
<1>1. /\ TypeOK /\ PushOkMeansPresent /\ Knows(l) /\ OutDirOf[l] \in OutDir
      /\ manifest \in [OutDir -> {Torn} \cup Manifests]
  BY OutDirAssumption DEF SafetyInv, TypeInv, TypeOK
<1>2. UNCHANGED store
  BY DEF OpenManifest, FillManifest
<1>3. PICK m : /\ manifest' = [manifest EXCEPT ![OutDirOf[l]] = m]
               /\ m \in {Torn, ManifestOf(l)}
  BY DEF OpenManifest, FillManifest, Written
<1>4. ASSUME PushOk(l), NEW f \in Stream
      PROVE  Present(<<opt[l].ns, f>>, docs[l][f])
  <2>1. CASE f \in Populated(docs[l])
    BY <1>1, <1>4, <2>1 DEF PushOk, Knows
  <2>2. CASE f \notin Populated(docs[l])
    BY <2>2 DEF Populated, Present
  <2> QED
    BY <2>1, <2>2
<1>5. ASSUME NEW o \in OutDir, manifest'[o] # Torn, manifest'[o].pushOk, NEW f \in Stream
      PROVE  Present(<<manifest[o].ns, f>>, manifest[o].docs[f])'
  <2>1. CASE o = OutDirOf[l]
    <3>1. manifest'[o] = m
      BY <1>1, <1>3, <2>1
    <3>2. m = ManifestOf(l) /\ PushOk(l)
      <4>1. m = ManifestOf(l)
        BY <1>3, <1>5, <3>1
      <4>2. m.pushOk = (opt[l].mode = "push" /\ PushOk(l))
        BY <4>1 DEF ManifestOf
      <4>3. m.pushOk
        BY <1>5, <3>1
      <4> QED
        BY <4>1, <4>2, <4>3
    <3>3. manifest'[o].ns = opt[l].ns /\ manifest'[o].docs = docs[l]
      BY <3>1, <3>2 DEF ManifestOf
    <3> QED
      BY <1>2, <1>4, <3>2, <3>3 DEF Present
  <2>2. CASE o # OutDirOf[l]
    <3>1. manifest'[o] = manifest[o]
      BY <1>1, <1>3, <2>2
    <3> QED
      BY <1>1, <1>2, <1>5, <3>1 DEF Present, PushOkMeansPresent
  <2> QED
    BY <2>1, <2>2
<1> QED
  BY <1>5 DEF PushOkMeansPresent

LEMMA InitSafety == Init => SafetyInv
<1> SUFFICES ASSUME Init PROVE SafetyInv
  OBVIOUS
<1>1. \A l \in Loader : Knows(l)
  BY DEF Init, Knows
<1>2. PushOkMeansPresent
  BY DEF Init, PushOkMeansPresent
<1> QED
  BY <1>1, <1>2, InitTypes DEF SafetyInv

LEMMA NextSafety ==
  ASSUME SafetyInv, [Next]_vars
  PROVE  SafetyInv'
<1>1. TypeInv /\ TypeOK
  BY DEF SafetyInv, TypeInv
<1>2. TypeInv' /\ StoreGrew
  BY <1>1, NextTypes, StoreOnlyGrows
<1>3. ASSUME NEW l \in Loader PROVE Knows(l)'
  <2>1. CASE Idles(l)
    BY <1>2, <2>1, IdleKnows
  <2>2. CASE Start(l) \/ Run(l) \/ Crash(l)
    BY <1>2, <2>2, StartKnows, PushKnows, VerifyKnows, RestKnows DEF Run
  <2>3. ASSUME NEW m \in Loader, m # l, Start(m) \/ Run(m) \/ Crash(m)
        PROVE  Idles(l)
    BY <1>1, <2>3, OthersIdle
  <2>4. ASSUME UNCHANGED vars \/ Rebuild \/ \E k \in Index : Land(k) \/ Refresh(k)
        PROVE  Idles(l)
    BY <2>4 DEF vars, Rebuild, Land, Refresh, Idles
  <2> QED
    BY <2>1, <2>2, <2>3, <2>4 DEF Next
<1>4. PushOkMeansPresent'
  <2>1. CASE manifest' = manifest
    BY <1>2, <2>1, PushOkStays
  <2>2. CASE \E l \in Loader : OpenManifest(l) \/ FillManifest(l)
    BY <2>2, WrittenPushOk
  <2> QED
    BY <2>1, <2>2
       DEF Next, Run, vars, Start, Skip, Render, PushAnswered, PushUnanswered,
           VerifyBatch, VerifyError, OpenBundle, FillBundle, Return, Crash, Land,
           Refresh, Rebuild
<1> QED
  BY <1>2, <1>3, <1>4 DEF SafetyInv

\* In every state, a stream push_all reports as verified is all in
\* Elasticsearch (load.py push_all, verify_stream).
THEOREM VerifiedIsSound == Spec => []VerifiedMeansPresent
<1>1. Init => SafetyInv
  BY InitSafety
<1>2. SafetyInv /\ [Next]_vars => SafetyInv'
  BY NextSafety
<1>3. SafetyInv => VerifiedMeansPresent
  BY DEF SafetyInv, Knows, VerifiedMeansPresent
<1> QED
  BY <1>1, <1>2, <1>3, PTL DEF Spec

\* In every state, a manifest with push_ok stands for documents that are all
\* in Elasticsearch, so that the skip it licenses loses nothing (load.py
\* _manifest_is_reusable).
THEOREM PushOkIsSound == Spec => []PushOkMeansPresent
<1>1. Init => SafetyInv
  BY InitSafety
<1>2. SafetyInv /\ [Next]_vars => SafetyInv'
  BY NextSafety
<1>3. SafetyInv => PushOkMeansPresent
  BY DEF SafetyInv
<1> QED
  BY <1>1, <1>2, <1>3, PTL DEF Spec

-----------------------------------------------------------------------------
(***************************************************************************)
(* Loading implements the evidence store                                   *)
(***************************************************************************)
\* What manifests vouch for is there.
LEMMA VouchedIsThere ==
  ASSUME SafetyInv
  PROVE  /\ Vouched \subseteq Index \X Ids(Doc)
         /\ \A c \in Vouched : c[2] \in Ids(store[c[1]])
<1>1. TypeOK /\ PushOkMeansPresent
  BY DEF SafetyInv, TypeInv
<1> SUFFICES ASSUME NEW c \in Vouched
             PROVE  /\ c \in Index \X Ids(Doc)
                    /\ c[2] \in Ids(store[c[1]])
  OBVIOUS
<1>2. PICK o \in OutDir :
        /\ manifest[o] # Torn /\ manifest[o].pushOk
        /\ c \in UNION {{<<<<manifest[o].ns, f>>, manifest[o].docs[f][i].id>> :
                           i \in DOMAIN manifest[o].docs[f]} : f \in Stream}
  BY DEF Vouched
<1>f. PICK f \in Stream :
        c \in {<<<<manifest[o].ns, f>>, manifest[o].docs[f][i].id>> :
                 i \in DOMAIN manifest[o].docs[f]}
  BY <1>2
<1>3. PICK i \in DOMAIN manifest[o].docs[f] :
        c = <<<<manifest[o].ns, f>>, manifest[o].docs[f][i].id>>
  BY <1>f
<1>4. manifest[o].ns \in Namespace /\ manifest[o].docs[f] \in Seq(Doc)
  BY <1>1, <1>2 DEF TypeOK, Manifests
<1>5. manifest[o].docs[f][i].id \in Ids(Doc)
  BY <1>4 DEF Ids
<1>6. c[2] \in Ids(store[c[1]])
  BY <1>1, <1>2, <1>3 DEF PushOkMeansPresent, Present
<1> QED
  BY <1>3, <1>4, <1>5, <1>6 DEF Index

\* What a bulk request creates has new and distinct ids.
LEMMA FreshIsNew ==
  ASSUME NEW d, NEW accepted \in SUBSET Nat, NEW stored
  PROVE  LET added == {d[i] : i \in Fresh(d, accepted, stored)}
         IN  /\ Ids(added) \cap Ids(stored) = {}
             /\ \A x, y \in added : x.id = y.id => x = y
<1> DEFINE added == {d[i] : i \in Fresh(d, accepted, stored)}
<1>1. Ids(added) \cap Ids(stored) = {}
  BY DEF Fresh, Ids
<1>2. ASSUME NEW x \in added, NEW y \in added, x.id = y.id
      PROVE  x = y
  <2>1. PICK i \in Fresh(d, accepted, stored) : x = d[i]
    OBVIOUS
  <2>2. PICK j \in Fresh(d, accepted, stored) : y = d[j]
    OBVIOUS
  <2>3. ~(i < j) /\ ~(j < i)
    BY <1>2, <2>1, <2>2 DEF Fresh
  <2>4. i \in Nat /\ j \in Nat
    BY DEF Fresh
  <2>5. i = j
    BY <2>3, <2>4
  <2> QED
    BY <2>1, <2>2, <2>5
<1> QED
  BY <1>1, <1>2

\* A step that changes the store adds documents with new and distinct ids to
\* one data stream, and leaves the manifests alone.
LEMMA StoreStep ==
  ASSUME TypeInv, Next, store' # store
  PROVE  /\ manifest' = manifest
         /\ \E k \in Index, added \in SUBSET Doc :
              /\ Ids(added) \cap Ids(store[k]) = {}
              /\ \A d, e \in added : d.id = e.id => d = e
              /\ store' = [store EXCEPT ![k] = @ \cup added]
<1> USE DEF TypeInv
<1>1. ASSUME NEW l \in Loader, PushAnswered(l)
      PROVE  \E k \in Index, added \in SUBSET Doc :
               /\ Ids(added) \cap Ids(store[k]) = {}
               /\ \A d, e \in added : d.id = e.id => d = e
               /\ store' = [store EXCEPT ![k] = @ \cup added]
  <2>j. PICK j \in next[l]..Len(List(l)) :
          \E rejected \in SUBSET (next[l]..j) :
            store' = [store EXCEPT ![Key(l)] =
              @ \cup {List(l)[i] :
                       i \in Fresh(List(l), (next[l]..j) \ rejected, store[Key(l)])}]
    BY <1>1 DEF PushAnswered
  <2>1. PICK rejected \in SUBSET (next[l]..j) :
          store' = [store EXCEPT ![Key(l)] =
            @ \cup {List(l)[i] :
                     i \in Fresh(List(l), (next[l]..j) \ rejected, store[Key(l)])}]
    BY <2>j
  <2> DEFINE accepted == (next[l]..j) \ rejected
             fresh == Fresh(List(l), accepted, store[Key(l)])
             added == {List(l)[i] : i \in fresh}
  <2>2. Key(l) \in Index /\ List(l) \in Seq(Doc) /\ next[l] \in Nat \ {0}
    BY <1>1, InHandType DEF PushAnswered, InHand, TypeOK
  <2>3. accepted \subseteq Nat /\ accepted \subseteq 1..Len(List(l))
    BY <2>2
  <2>4. /\ Ids(added) \cap Ids(store[Key(l)]) = {}
        /\ \A d, e \in added : d.id = e.id => d = e
    BY <2>3, FreshIsNew
  <2>5. added \subseteq Doc
    <3>1. fresh \subseteq 1..Len(List(l))
      BY <2>3 DEF Fresh
    <3> HIDE DEF fresh
    <3> QED
      BY <2>2, <3>1
  <2>6. store' = [store EXCEPT ![Key(l)] = @ \cup added]
    BY <2>1
  <2> HIDE DEF added
  <2> QED
    BY <2>2, <2>4, <2>5, <2>6
<1>2. ASSUME NEW k \in Index, Land(k)
      PROVE  \E added \in SUBSET Doc :
               /\ Ids(added) \cap Ids(store[k]) = {}
               /\ \A d, e \in added : d.id = e.id => d = e
               /\ store' = [store EXCEPT ![k] = @ \cup added]
  <2>1. PICK d \in pending[k] : /\ d.id \notin Ids(store[k])
                                /\ store' = [store EXCEPT ![k] = @ \cup {d}]
    BY <1>2 DEF Land
  <2>2. {d} \in SUBSET Doc
    BY DEF TypeOK
  <2>3. Ids({d}) \cap Ids(store[k]) = {}
    BY <2>1 DEF Ids
  <2> QED
    BY <2>1, <2>2, <2>3
<1>3. \/ \E l \in Loader : PushAnswered(l)
      \/ \E k \in Index : Land(k)
  BY DEF Next, Run, Start, Skip, Render, PushUnanswered, VerifyBatch, VerifyError,
         OpenBundle, FillBundle, OpenManifest, FillManifest, Return, Crash, Refresh,
         Rebuild
<1>4. manifest' = manifest
  BY <1>3 DEF PushAnswered, Land
<1> QED
  BY <1>1, <1>2, <1>3, <1>4

\* Loading implements the evidence store, for any loaders, faults and trees
\* (load.py run).
THEOREM LoadImplementsEvidenceStore == Spec => ImplementsEvidenceStore
<1>1. Init => SafetyInv
  BY InitSafety
<1>2. SafetyInv /\ [Next]_vars => SafetyInv'
  BY NextSafety
<1>3. Init => Sink!Init
  BY DEF Init, Sink!Init, Vouched
<1>4. SafetyInv => /\ Vouched \subseteq Index \X Ids(Doc)
                   /\ \A c \in Vouched : c[2] \in Ids(store[c[1]])
  BY VouchedIsThere
<1>5. SafetyInv' => (/\ Vouched \subseteq Index \X Ids(Doc)
                     /\ \A c \in Vouched : c[2] \in Ids(store[c[1]]))'
  BY <1>4, PTL
<1>6. SafetyInv /\ SafetyInv' /\ [Next]_vars => [Sink!Next]_Sink!vars
  <2> SUFFICES ASSUME SafetyInv, SafetyInv', [Next]_vars
               PROVE  Sink!Next \/ UNCHANGED Sink!vars
    OBVIOUS
  <2>1. CASE store' # store
    <3>1. Next /\ TypeInv
      BY <2>1 DEF vars, SafetyInv
    <3>2. manifest' = manifest
      BY <2>1, <3>1, StoreStep
    <3>3. Vouched' = Vouched
      BY <3>2 DEF Vouched
    <3>4. Sink!Create
      BY <2>1, <3>1, <3>3, StoreStep DEF Sink!Create, Sink!Ids, Ids
    <3> QED
      BY <3>4 DEF Sink!Next
  <2>2. CASE store' = store
    <3>1. /\ Vouched' \subseteq Index \X Ids(Doc)
          /\ \A c \in Vouched' : c[2] \in Ids(store'[c[1]])
      BY <1>5
    <3>2. Sink!Vouch
      BY <2>2, <3>1 DEF Sink!Vouch, Sink!Ids, Ids
    <3> QED
      BY <3>2 DEF Sink!Next
  <2> QED
    BY <2>1, <2>2
<1> QED
  BY <1>1, <1>2, <1>3, <1>6, PTL DEF Spec, ImplementsEvidenceStore, Sink!Spec
=============================================================================
