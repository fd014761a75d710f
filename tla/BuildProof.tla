----------------------------- MODULE BuildProof -----------------------------
(***************************************************************************)
(* What holds of the batch for any number of sources, files, objects,       *)
(* faults, kills and changes of the evidence.                               *)
(***************************************************************************)
EXTENDS Build, PositionsProof, FiniteSetTheorems, SequenceTheorems, TLAPS

-----------------------------------------------------------------------------
(***************************************************************************)
(* What is discovered and planned                                          *)
(***************************************************************************)
\* discover_sources yields sources, no two of one name.
LEMMA DiscoveredFacts ==
  /\ Discovered(Walked) \in Seq([name : Source, path : Path])
  /\ \A k, l \in 1..Len(Discovered(Walked)) :
       Discovered(Walked)[k].name = Discovered(Walked)[l].name => k = l
<1> DEFINE firsts == FirstOfItsName(Walked)
<1>1. firsts \in SUBSET DOMAIN Walked
  BY DEF FirstOfItsName
<1>2. Len(Walked) \in Nat /\ DOMAIN Walked = 1..Len(Walked)
  BY WalkedAssumption
<1>3. \A i, j \in firsts : i < j => Walked[i].name # Walked[j].name
  BY <1>2 DEF FirstOfItsName
<1>4. \A i, j \in firsts : i # j => Walked[i].name # Walked[j].name
  <2> TAKE i, j \in firsts
  <2> HAVE i # j
  <2>1. i < j \/ j < i
    BY <1>1, <1>2
  <2> QED
    BY <1>3, <2>1
<1>5. Discovered(Walked) = Picked(Walked, firsts)
  BY DEF Discovered
<1> HIDE DEF firsts
<1>6. /\ Picked(Walked, firsts) \in Seq([name : Source, path : Path])
      /\ \A k, l \in 1..Len(Picked(Walked, firsts)) : k # l =>
           \E i, j \in firsts : /\ i # j
                              /\ Picked(Walked, firsts)[k] = Walked[i]
                              /\ Picked(Walked, firsts)[l] = Walked[j]
  BY <1>1, WalkedAssumption, PickedIsSubsequence
<1>7. \A k, l \in 1..Len(Picked(Walked, firsts)) :
        Picked(Walked, firsts)[k].name = Picked(Walked, firsts)[l].name => k = l
  <2> SUFFICES ASSUME NEW k \in 1..Len(Picked(Walked, firsts)),
                      NEW l \in 1..Len(Picked(Walked, firsts)), k # l
               PROVE  Picked(Walked, firsts)[k].name # Picked(Walked, firsts)[l].name
    OBVIOUS
  <2>1. PICK i \in firsts, j \in firsts :
          i # j /\ Picked(Walked, firsts)[k] = Walked[i] /\ Picked(Walked, firsts)[l] = Walked[j]
    BY <1>6
  <2> QED
    BY <1>4, <2>1
<1> QED
  BY <1>5, <1>6, <1>7, Zenon

\* CarStore.counts lists exactly the populated objects, each once.
LEMMA InOrderFacts ==
  ASSUME NEW objects \in SUBSET Object
  PROVE  /\ InOrder(objects) \in Seq(Object)
         /\ Len(InOrder(objects)) \in Nat
         /\ \A k \in 1..Len(InOrder(objects)) : InOrder(objects)[k] \in objects
         /\ \A o \in objects : \E k \in 1..Len(InOrder(objects)) : InOrder(objects)[k] = o
         /\ \A k, l \in 1..Len(InOrder(objects)) :
              InOrder(objects)[k] = InOrder(objects)[l] => k = l
<1> DEFINE ps == {i \in DOMAIN ObjectOrder : ObjectOrder[i] \in objects}
<1>1. InOrder(objects) = Picked(ObjectOrder, ps)
  BY DEF InOrder
<1>2. ps \in SUBSET DOMAIN ObjectOrder /\ ObjectOrder \in Seq(Object)
  BY ObjectOrderAssumption
<1>3. \A i \in ps : ObjectOrder[i] \in objects
  OBVIOUS
<1>4. \A o \in objects : \E i \in ps : ObjectOrder[i] = o
  <2> TAKE o \in objects
  <2>1. PICK i \in DOMAIN ObjectOrder : o = ObjectOrder[i]
    BY DEF Object, Range
  <2> QED
    BY <2>1
<1>5. \A i, j \in ps : ObjectOrder[i] = ObjectOrder[j] => i = j
  BY ObjectOrderAssumption DEF IsInjective
<1> HIDE DEF ps
<1>6. /\ Picked(ObjectOrder, ps) \in Seq(Object)
      /\ \A k \in 1..Len(Picked(ObjectOrder, ps)) :
           \E i \in ps : Picked(ObjectOrder, ps)[k] = ObjectOrder[i]
      /\ \A i \in ps :
           \E k \in 1..Len(Picked(ObjectOrder, ps)) : Picked(ObjectOrder, ps)[k] = ObjectOrder[i]
      /\ \A k, l \in 1..Len(Picked(ObjectOrder, ps)) : k # l =>
           \E i, j \in ps : /\ i # j
                          /\ Picked(ObjectOrder, ps)[k] = ObjectOrder[i]
                          /\ Picked(ObjectOrder, ps)[l] = ObjectOrder[j]
  BY <1>2, PickedIsSubsequence
<1>7. /\ \A k \in 1..Len(InOrder(objects)) : InOrder(objects)[k] \in objects
      /\ \A o \in objects : \E k \in 1..Len(InOrder(objects)) : InOrder(objects)[k] = o
  <2>1. \A k \in 1..Len(Picked(ObjectOrder, ps)) : Picked(ObjectOrder, ps)[k] \in objects
    BY <1>3, <1>6
  <2>2. ASSUME NEW o \in objects
        PROVE  \E k \in 1..Len(Picked(ObjectOrder, ps)) : Picked(ObjectOrder, ps)[k] = o
    <3>1. PICK i \in ps : ObjectOrder[i] = o
      BY <1>4
    <3> QED
      BY <1>6, <3>1
  <2> QED
    BY <1>1, <2>1, <2>2
<1>8. \A k, l \in 1..Len(InOrder(objects)) :
        InOrder(objects)[k] = InOrder(objects)[l] => k = l
  <2> SUFFICES ASSUME NEW k \in 1..Len(Picked(ObjectOrder, ps)),
                      NEW l \in 1..Len(Picked(ObjectOrder, ps)), k # l
               PROVE  Picked(ObjectOrder, ps)[k] # Picked(ObjectOrder, ps)[l]
    BY <1>1
  <2>1. PICK i \in ps, j \in ps :
          /\ i # j
          /\ Picked(ObjectOrder, ps)[k] = ObjectOrder[i]
          /\ Picked(ObjectOrder, ps)[l] = ObjectOrder[j]
    BY <1>6
  <2> QED
    BY <1>5, <2>1
<1>9. InOrder(objects) \in Seq(Object) /\ Len(InOrder(objects)) \in Nat
  BY <1>1, <1>6
<1> QED
  BY <1>7, <1>8, <1>9

\* What follows the objects in a plan.
LEMMA AfterwardsFacts ==
  ASSUME NEW o \in Options
  PROVE  LET A == Afterwards(o)  m == Len(Afterwards(o))
         IN  /\ A \in Seq([file : File, derived : BOOLEAN])
             /\ m \in Nat /\ m >= 2
             /\ A[1] = Entry("sources", FALSE) /\ A[2] = Entry("relationships", FALSE)
             /\ \A k \in 1..m : A[k].file \in Derivatives
             /\ \A f \in Asked(o) : \E k \in 1..m :
                  /\ A[k].file = f
                  /\ \A j \in (k + 1)..m : A[j].file # f
                  /\ o.derive /\ f = "relationships" => A[k].derived
<1> DEFINE A == Afterwards(o)
           m == Len(A)
           E == [file : File, derived : BOOLEAN]
           a == Entry("sources", FALSE)
           b == Entry("relationships", FALSE)
           c == Entry("relationships", TRUE)
           d == Entry("inferred", TRUE)
           e == Entry("content", TRUE)
           g == Entry("stix", o.derive)
<1>1. o.derive \in BOOLEAN /\ o.stix \in BOOLEAN
  BY OptionsAssumption
<1>2. a \in E /\ b \in E /\ c \in E /\ d \in E /\ e \in E /\ g \in E
  BY <1>1 DEF Entry, File, Derivatives
<1>3. A = <<a, b>> \o (IF o.derive THEN <<c, d, e>> ELSE <<>>)
            \o (IF o.stix THEN <<g>> ELSE <<>>)
  BY DEF Afterwards
<1>7. /\ A \in Seq(E) /\ A[1] = a /\ A[2] = b
      /\ \/ /\ o.derive /\ o.stix /\ m = 6
            /\ A[3] = c /\ A[4] = d /\ A[5] = e /\ A[6] = g
         \/ o.derive /\ ~o.stix /\ m = 5 /\ A[3] = c /\ A[4] = d /\ A[5] = e
         \/ ~o.derive /\ o.stix /\ m = 3 /\ A[3] = g
         \/ ~o.derive /\ ~o.stix /\ m = 2
  <2> HIDE DEF A, E, a, b, c, d, e, g
  <2>1. CASE o.derive /\ o.stix
    <3>1. A = <<a, b>> \o <<c, d, e>> \o <<g>>
      BY <1>3, <2>1, Zenon
    <3> QED
      BY <1>2, <2>1, <3>1
  <2>2. CASE o.derive /\ ~o.stix
    <3>1. A = <<a, b>> \o <<c, d, e>> \o <<>>
      BY <1>3, <2>2, Zenon
    <3> QED
      BY <1>2, <2>2, <3>1
  <2>3. CASE ~o.derive /\ o.stix
    <3>1. A = <<a, b>> \o <<>> \o <<g>>
      BY <1>3, <2>3, Zenon
    <3> QED
      BY <1>2, <2>3, <3>1
  <2>4. CASE ~o.derive /\ ~o.stix
    <3>1. A = <<a, b>> \o <<>> \o <<>>
      BY <1>3, <2>4, Zenon
    <3> QED
      BY <1>2, <2>4, <3>1
  <2> QED
    BY <1>1, <2>1, <2>2, <2>3, <2>4, Zenon
<1> HIDE DEF A, m
<1>8. \A k \in 1..m : A[k].file \in Derivatives
  <2>1. CASE m = 6
    BY <1>7, <2>1 DEF Entry, Derivatives
  <2>2. CASE m = 5
    BY <1>7, <2>2 DEF Entry, Derivatives
  <2>3. CASE m = 3
    BY <1>7, <2>3 DEF Entry, Derivatives
  <2>4. CASE m = 2
    BY <1>7, <2>4 DEF Entry, Derivatives
  <2> QED
    BY <1>7, <2>1, <2>2, <2>3, <2>4
<1>9. ASSUME NEW f \in Asked(o)
       PROVE  \E k \in 1..m : /\ A[k].file = f
                              /\ \A j \in (k + 1)..m : A[j].file # f
                              /\ o.derive /\ f = "relationships" => A[k].derived
  <2>1. CASE o.derive /\ o.stix
    <3>1. m = 6 /\ A[1].file = "sources" /\ A[3].file = "relationships" /\ A[3].derived
          /\ A[4].file = "inferred" /\ A[5].file = "content" /\ A[6].file = "stix"
          /\ A[2].file = "relationships"
      BY <1>7, <2>1 DEF Entry
    <3>2. f \in {"sources", "relationships", "inferred", "content", "stix"}
      BY DEF Asked
    <3> QED
      BY <3>1, <3>2
  <2>2. CASE o.derive /\ ~o.stix
    <3>1. m = 5 /\ A[1].file = "sources" /\ A[3].file = "relationships" /\ A[3].derived
          /\ A[4].file = "inferred" /\ A[5].file = "content"
          /\ A[2].file = "relationships"
      BY <1>7, <2>2 DEF Entry
    <3>2. f \in {"sources", "relationships", "inferred", "content"}
      BY <2>2 DEF Asked
    <3> QED
      BY <3>1, <3>2
  <2>3. CASE ~o.derive /\ o.stix
    <3>1. m = 3 /\ A[1].file = "sources" /\ A[2].file = "relationships" /\ A[3].file = "stix"
      BY <1>7, <2>3 DEF Entry
    <3>2. f \in {"sources", "relationships", "stix"}
      BY <2>3 DEF Asked
    <3> QED
      BY <2>3, <3>1, <3>2
  <2>4. CASE ~o.derive /\ ~o.stix
    <3>1. m = 2 /\ A[1].file = "sources" /\ A[2].file = "relationships"
      BY <1>7, <2>4 DEF Entry
    <3>2. f \in {"sources", "relationships"}
      BY <2>4 DEF Asked
    <3> QED
      BY <2>4, <3>1, <3>2
  <2> QED
    BY <1>1, <2>1, <2>2, <2>3, <2>4, Zenon
<1>10. m \in Nat /\ m >= 2
  <2>1. m = 6 \/ m = 5 \/ m = 3 \/ m = 2
    BY <1>7, Zenon
  <2> QED
    BY <2>1
<1> QED
  BY <1>7, <1>8, <1>9, <1>10 DEF A, m, E

\* The plan of a source: first its object files, each once, then the others;
\* the done-marker is never before the last object, and every file that is
\* asked for has a last entry, for the relationships the derived one.
LEMMA PlanFacts ==
  ASSUME NEW objects \in Seq(Object), NEW o \in Options
  PROVE  LET P == Plan(objects, o)  n == Len(objects)
         IN  /\ P \in Seq([file : File, derived : BOOLEAN])
             /\ Len(P) \in Nat /\ n \in Nat /\ n <= Len(P)
             /\ \A k \in 1..n : P[k] = Entry(objects[k], FALSE)
             /\ \A k \in (n + 1)..Len(P) : P[k].file \notin Object
             /\ \A k \in 1..Len(P) : P[k].file = "relationships" => k > n + 1
             /\ \A f \in Asked(o) : \E k \in 1..Len(P) :
                  /\ P[k].file = f
                  /\ \A j \in (k + 1)..Len(P) : P[j].file # f
                  /\ o.derive /\ f = "relationships" => P[k].derived
<1> DEFINE n == Len(objects)
           first == [i \in 1..n |-> Entry(objects[i], FALSE)]
           A == Afterwards(o)
           m == Len(A)
           P == Plan(objects, o)
           E == [file : File, derived : BOOLEAN]
<1>1. P = first \o A
  BY DEF Plan
<1>2. n \in Nat /\ \A k \in 1..n : objects[k] \in Object
  OBVIOUS
<1>3. \A k \in 1..n : Entry(objects[k], FALSE) \in E
  BY <1>2 DEF Entry, File
<1> HIDE DEF E
<1>4. first \in Seq(E) /\ Len(first) = n /\ \A k \in 1..n : first[k] = Entry(objects[k], FALSE)
  <2>1. first \in [1..n -> E]
    BY <1>3
  <2>2. \A k \in 1..n : first[k] = Entry(objects[k], FALSE)
    OBVIOUS
  <2> HIDE DEF first, n
  <2> QED
    <3>1. n \in Nat
      BY <1>2
    <3>2. first \in Seq(E) /\ Len(first) = n
      BY <2>1, <3>1
    <3> QED
      BY <2>2, <3>2
<1>5. /\ A \in Seq(E) /\ m \in Nat /\ m >= 2
      /\ A[1] = Entry("sources", FALSE) /\ A[2] = Entry("relationships", FALSE)
      /\ \A k \in 1..m : A[k].file \in Derivatives
      /\ \A f \in Asked(o) : \E k \in 1..m :
           /\ A[k].file = f
           /\ \A j \in (k + 1)..m : A[j].file # f
           /\ o.derive /\ f = "relationships" => A[k].derived
  BY AfterwardsFacts, Zenon DEF E
<1> HIDE DEF first, A, P, n
<1>typed. m \in Nat /\ A \in Seq(E) /\ Len(first) = n /\ first \in Seq(E)
  BY <1>4, <1>5, Zenon
<1>6. /\ P \in Seq(E) /\ Len(P) = n + m
      /\ \A i \in 1..n + m : P[i] = IF i <= n THEN first[i] ELSE A[i - n]
  BY <1>1, <1>typed, ConcatProperties
<1>7. \A k \in 1..n : P[k] = Entry(objects[k], FALSE)
  <2>1. ASSUME NEW k \in 1..n PROVE P[k] = first[k]
    BY <1>2, <1>typed, <1>6
  <2> QED
    BY <1>4, <2>1, Zenon
<1>8. \A k \in 1..n : P[k].file \in Object
  <2>1. \A k \in 1..n : P[k].file = objects[k]
    <3> TAKE k \in 1..n
    <3>1. P[k] = [file |-> objects[k], derived |-> FALSE]
      BY <1>7, Zenon DEF Entry
    <3> QED
      BY <3>1
  <2> QED
    BY <1>2, <2>1
<1>9. \A k \in (n + 1)..(n + m) : k - n \in 1..m /\ P[k] = A[k - n]
  BY <1>2, <1>5, <1>6
<1>10. \A k \in (n + 1)..(n + m) : P[k].file \in Derivatives
  BY <1>5, <1>9
<1>11. Derivatives \cap Object = {}
  BY ObjectOrderAssumption DEF Derivatives
<1>12. ASSUME NEW k \in 1..Len(P), P[k].file = "relationships"
       PROVE  k > n + 1
  <2>1. "relationships" \in Derivatives
    BY DEF Derivatives
  <2>2. k \notin 1..n
    BY <1>8, <1>11, <1>12, <2>1
  <2>3. P[n + 1].file = "sources"
    BY <1>2, <1>5, <1>9 DEF Entry
  <2> QED
    BY <1>2, <1>5, <1>6, <1>12, <2>2, <2>3
<1>13. ASSUME NEW f \in Asked(o)
       PROVE  \E k \in 1..Len(P) : /\ P[k].file = f
                                   /\ \A j \in (k + 1)..Len(P) : P[j].file # f
                                   /\ o.derive /\ f = "relationships" => P[k].derived
  <2>1. PICK k \in 1..m : /\ A[k].file = f
                          /\ \A j \in (k + 1)..m : A[j].file # f
                          /\ o.derive /\ f = "relationships" => A[k].derived
    BY <1>5
  <2>2. n + k \in 1..Len(P) /\ P[n + k] = A[k]
    BY <1>2, <1>5, <1>6
  <2>3. \A j \in (n + k + 1)..Len(P) : j - n \in (k + 1)..m /\ P[j] = A[j - n]
    BY <1>2, <1>5, <1>6
  <2> QED
    BY <2>1, <2>2, <2>3
<1>14. Len(P) \in Nat /\ n <= Len(P)
  BY <1>2, <1>5, <1>6
<1>15. \A k \in (n + 1)..Len(P) : P[k].file \notin Object
  BY <1>6, <1>10, <1>11
<1> QED
  BY <1>2, <1>6, <1>7, <1>12, <1>13, <1>14, <1>15 DEF P, E, n

-----------------------------------------------------------------------------
(***************************************************************************)
(* The inductive invariant                                                 *)
(***************************************************************************)
Working == pc \in {"parse", "tables", "open", "fill"}

\* The plan of the source in hand, how many of its files are closed, and how
\* many have been opened.
Planned == Plan(InOrder(events), opt)
Closed == Len(Planned) - Len(plan)
Opened == IF pc = "fill" THEN Closed + 1 ELSE Closed

\* What is reported and what is left are the discovered sources, in order.
Turns ==
  /\ pc = "idle" => results = <<>>
  /\ pc # "idle" =>
       /\ Len(results) + Len(queue) = Len(Discovered(Walked))
       /\ \A k \in 1..Len(results) : results[k].name = Discovered(Walked)[k].name
       /\ \A k \in 1..Len(queue) : queue[k] = Discovered(Walked)[Len(results) + k]

\* While a source is parsed, the events are those of the files before the next
\* one; a split that is under way has its directory, an open file its entry.
Parsing ==
  /\ ~Working => file = 1 /\ events = {}
  /\ pc \in {"parse", "tables"} =>
       /\ file <= Len(Input) + 1
       /\ events = UNION {Input[i].objects : i \in 1..(file - 1)}
  /\ pc = "tables" => file <= Len(Input) /\ scratch[InHand] > 0
  /\ pc = "fill" => plan # <<>>

\* While it is written, the plan is what is left of the plan for all its
\* events, the file that is open is torn, and a closed file nothing has opened
\* again holds what its entry says.
Writing ==
  pc \in {"open", "fill"} =>
    /\ events = Populated(Input)
    /\ Len(plan) <= Len(Planned)
    /\ \A k \in 1..Len(plan) : plan[k] = Planned[Closed + k]
    /\ pc = "fill" => disk[InHand][Head(plan).file] = Torn
    /\ \A k \in 1..Closed :
         (\A j \in (k + 1)..Opened : Planned[j].file # Planned[k].file) =>
           LET f == Planned[k].file  c == disk[InHand][f]
           IN  /\ c \in Contents
               /\ c.derived = Planned[k].derived
               /\ f \in Object => c.from = {Input}

\* Without force a source that is being worked on has its marker only once
\* every object file is opened for the last time.
Unmarked ==
  Working /\ ~opt.force /\ IsMarked(disk[InHand]) =>
    pc \in {"open", "fill"} /\ Opened > Len(InOrder(events))

\* There are finitely many temporary directories, and no more than kills and
\* the split that is under way account for.
Scratch ==
  /\ IsFiniteSet(Directories)
  /\ ScratchOnlyFromCrashes

TypeInv == TypeOK /\ Turns /\ Parsing
WriteInv == TypeInv /\ Writing /\ Unmarked
BuildInv == WriteInv /\ BuiltIsComplete

-----------------------------------------------------------------------------
(***************************************************************************)
(* Types                                                                   *)
(***************************************************************************)
\* The source in hand and its evidence.
LEMMA HandType ==
  ASSUME TypeOK, queue # <<>>
  PROVE  /\ Head(queue) \in [name : Source, path : Path]
         /\ Head(queue) = queue[1] /\ Len(queue) >= 1
         /\ InHand \in Source /\ Head(queue).path \in Path
         /\ Input \in Evidence /\ Input \in Seq([kind : Kind, objects : SUBSET Object])
<1>1. queue \in Seq([name : Source, path : Path])
  BY DEF TypeOK
<1>2. /\ Head(queue) \in [name : Source, path : Path]
      /\ Head(queue) = queue[1] /\ Len(queue) >= 1
  <2> DEFINE D == [name : Source, path : Path]
  <2>1. queue \in Seq(D)
    BY <1>1
  <2> HIDE DEF D
  <2>2. Head(queue) \in D /\ Head(queue) = queue[1] /\ Len(queue) >= 1
    BY <2>1
  <2> QED
    BY <2>2 DEF D
<1>3. InHand \in Source /\ Head(queue).path \in Path
  BY <1>2 DEF InHand
<1>4. Input \in Evidence
  BY <1>3 DEF Input, TypeOK
<1>5. Input \in Seq([kind : Kind, objects : SUBSET Object])
  BY <1>4, EvidenceAssumption
<1> QED
  BY <1>2, <1>3, <1>4, <1>5

\* Parsing adds objects of the model.
LEMMA InputObjects ==
  ASSUME NEW e \in Seq([kind : Kind, objects : SUBSET Object])
  PROVE  /\ \A i \in 1..Len(e) : e[i].objects \subseteq Object
         /\ Populated(e) = UNION {e[i].objects : i \in 1..Len(e)}
         /\ Populated(e) \subseteq Object
<1>1. DOMAIN e = 1..Len(e)
  OBVIOUS
<1>2. \A i \in 1..Len(e) : e[i].objects \subseteq Object
  <2> TAKE i \in 1..Len(e)
  <2>1. e[i] \in [kind : Kind, objects : SUBSET Object]
    BY ElementOfSeq, Zenon
  <2> QED
    BY <2>1
<1>3. Populated(e) = UNION {e[i].objects : i \in 1..Len(e)}
  BY <1>1, Zenon DEF Populated
<1>4. Populated(e) \subseteq Object
  BY <1>2, <1>3, Zenon
<1> QED
  BY <1>2, <1>3, <1>4, Zenon

\* One file further, its objects are among the events.
LEMMA OneFileMore ==
  ASSUME TypeInv, pc \in {"parse", "tables"}, file <= Len(Input),
         events' = events \cup Input[file].objects, file' = file + 1,
         UNCHANGED <<evidence, queue>>
  PROVE  /\ events' \subseteq Object /\ file' \in Nat \ {0}
         /\ Input' = Input /\ InHand' = InHand
         /\ file' <= Len(Input) + 1
         /\ events' = UNION {Input[i].objects : i \in 1..(file' - 1)}
<1>1. TypeOK /\ queue # <<>> /\ file \in Nat \ {0} /\ events \subseteq Object
  BY DEF TypeInv, TypeOK
<1>2. Input' = Input /\ InHand' = InHand
  BY DEF Input, InHand
<1>3. Len(Input) \in Nat /\ \A i \in 1..Len(Input) : Input[i].objects \subseteq Object
  <2>1. Input \in Seq([kind : Kind, objects : SUBSET Object])
    BY <1>1, HandType
  <2>2. Len(Input) \in Nat
    BY <2>1
  <2> QED
    BY <2>1, <2>2, InputObjects
<1>4. file' \in Nat \ {0} /\ file' <= Len(Input) + 1
  BY <1>1, <1>3
<1>5. Input[file].objects \subseteq Object
  BY <1>1, <1>3
<1>6. events = UNION {Input[i].objects : i \in 1..(file - 1)}
  BY DEF TypeInv, Parsing, Working
<1>7. 1..(file' - 1) = 1..(file - 1) \cup {file}
  BY <1>1
<1>8. events' = UNION {Input[i].objects : i \in 1..(file' - 1)}
  BY <1>6, <1>7, Zenon
<1> QED
  BY <1>1, <1>2, <1>4, <1>5, <1>8

\* What a file is filled with has the type of contents.
LEMMA ContentType ==
  ASSUME NEW tree \in [File -> {Absent, Torn} \cup Contents], NEW input \in Evidence,
         NEW e \in [file : File, derived : BOOLEAN]
  PROVE  /\ ContentOf(e, tree, input) \in Contents
         /\ ContentOf(e, tree, input).derived = e.derived
         /\ e.file \in Object => ContentOf(e, tree, input).from = {input}
<1>1. \A o \in {x \in Object : tree[x] \notin {Absent, Torn}} : tree[o].from \subseteq Evidence
  BY DEF File, Contents
<1>2. Origins(tree) \in SUBSET Evidence
  BY <1>1, Zenon DEF Origins
<1>3. "stix" \notin Object
  BY ObjectOrderAssumption
<1> QED
  BY <1>2, <1>3 DEF ContentOf, Contents

\* A torn or missing file is no contents, and a torn one is there.
LEMMA Marks ==
  /\ Absent # Torn
  /\ Absent \notin Contents /\ Torn \notin Contents
<1>1. Absent # Torn
  <2>1. "absent" \in DOMAIN Absent /\ "absent" \notin DOMAIN Torn
    BY DEF Absent, Torn
  <2> QED
    BY <2>1
<1>2. \A c \in Contents : "from" \in DOMAIN c
  BY DEF Contents
<1>3. "from" \notin DOMAIN Absent /\ "from" \notin DOMAIN Torn
  BY DEF Absent, Torn
<1> QED
  BY <1>1, <1>2, <1>3

\* The finally clause removes only a directory that is there.
LEMMA ScratchRemovedType ==
  ASSUME TypeInv, Working
  PROVE  ScratchRemoved \in [Source -> Nat]
<1>1. scratch \in [Source -> Nat] /\ InHand \in Source
  BY HandType DEF TypeInv, TypeOK, Working
<1>2. CASE pc = "tables"
  BY <1>1, <1>2 DEF TypeInv, Parsing, Working, ScratchRemoved
<1>3. CASE pc # "tables"
  BY <1>1, <1>3 DEF ScratchRemoved
<1> QED
  BY <1>2, <1>3

LEMMA AnyOptionType == (CHOOSE o \in Options : TRUE) \in Options
BY OptionsAssumption

LEMMA InitTypes == Init => TypeInv
<1> SUFFICES ASSUME Init PROVE TypeInv
  OBVIOUS
<1>1. TypeOK
  BY AnyOptionType, BoundsAssumption DEF Init, TypeOK
<1>2. Turns /\ Parsing
  BY DEF Init, Turns, Parsing, Working
<1> QED
  BY <1>1, <1>2 DEF TypeInv

\* Forgetting a batch keeps the types.
LEMMA ForgetTypes ==
  ASSUME TypeInv, Forget, UNCHANGED <<evidence, disk>>, scratch' \in [Source -> Nat],
         faults' \in 0..MaxFaults, crashes' \in 0..MaxCrashes, changes' \in 0..MaxChanges
  PROVE  TypeInv'
<1>1. TypeOK'
  BY AnyOptionType DEF TypeInv, TypeOK, Forget
<1>2. Turns' /\ Parsing'
  BY DEF Forget, Turns, Parsing, Working
<1> QED
  BY <1>1, <1>2 DEF TypeInv

\* Finishing the source in hand keeps them, and moves it to the results.
LEMMA FinishTypes ==
  ASSUME TypeInv, queue # <<>>, pc # "idle",
         NEW status \in {"built", "skipped", "error"}, FinishSource(status)
  PROVE  /\ queue' \in Seq([name : Source, path : Path])
         /\ results' \in Seq([name : Source, status : {"built", "skipped", "error"},
                              from : Evidence])
         /\ file' \in Nat \ {0} /\ events' \subseteq Object
         /\ plan' \in Seq([file : File, derived : BOOLEAN])
         /\ Turns' /\ Parsing'
         /\ Len(results') = Len(results) + 1
         /\ \A k \in 1..Len(results) : results'[k] = results[k]
         /\ results'[Len(results) + 1] = Result(status)
<1> DEFINE R == [name : Source, status : {"built", "skipped", "error"}, from : Evidence]
           D == [name : Source, path : Path]
           W == Discovered(Walked)
<1>1. InHand \in Source /\ Input \in Evidence
  BY HandType DEF TypeInv
<1>2. Result(status) \in R
  BY <1>1 DEF Result
<1>3. results \in Seq(R) /\ queue \in Seq(D)
  BY DEF TypeInv, TypeOK
<1>4. results' = Append(results, Result(status)) /\ queue' = Tail(queue)
      /\ pc' = "next" /\ file' = 1 /\ events' = {} /\ plan' = <<>>
  BY DEF FinishSource
<1> HIDE DEF R, D, W
<1>5. /\ results' \in Seq(R) /\ Len(results') = Len(results) + 1
      /\ \A k \in 1..Len(results) : results'[k] = results[k]
      /\ results'[Len(results) + 1] = Result(status)
  BY <1>2, <1>3, <1>4
<1>6. /\ queue' \in Seq(D) /\ Len(queue') = Len(queue) - 1
      /\ \A k \in 1..Len(queue') : queue'[k] = queue[k + 1]
      /\ Len(queue) \in Nat /\ Len(queue) >= 1 /\ Head(queue) = queue[1]
  BY <1>3, <1>4
<1>7. /\ Len(results) + Len(queue) = Len(W) /\ Len(results) \in Nat
      /\ \A k \in 1..Len(results) : results[k].name = W[k].name
      /\ \A k \in 1..Len(queue) : queue[k] = W[Len(results) + k]
  BY <1>3 DEF TypeInv, Turns, W
<1>8. results'[Len(results) + 1].name = W[Len(results) + 1].name
  <2>1. Head(queue) = W[Len(results) + 1]
    BY <1>6, <1>7
  <2>2. results'[Len(results) + 1].name = Head(queue).name
    BY <1>5 DEF Result, InHand
  <2> QED
    BY <2>1, <2>2
<1>9. Len(results') + Len(queue') = Len(W)
  <2>1. Len(results') = Len(results) + 1
    BY <1>5
  <2>2. Len(queue') = Len(queue) - 1
    BY <1>6
  <2>3. Len(results') + Len(queue') = (Len(results) + 1) + (Len(queue) - 1)
    BY <2>1, <2>2, Zenon
  <2>4. (Len(results) + 1) + (Len(queue) - 1) = Len(results) + Len(queue)
    BY <1>6, <1>7
  <2> QED
    BY <1>7, <2>3, <2>4, Zenon
<1>10. \A k \in 1..Len(results') : results'[k].name = W[k].name
  <2> TAKE k \in 1..Len(results')
  <2>1. CASE k = Len(results) + 1
    BY <1>8, <2>1
  <2>2. CASE k \in 1..Len(results)
    BY <1>5, <1>7, <2>2
  <2> QED
    BY <1>5, <1>7, <2>1, <2>2
<1>11. \A k \in 1..Len(queue') : queue'[k] = W[Len(results') + k]
  <2> TAKE k \in 1..Len(queue')
  <2>1. k + 1 \in 1..Len(queue) /\ queue'[k] = queue[k + 1]
    BY <1>6
  <2>2. queue[k + 1] = W[Len(results) + (k + 1)]
    BY <1>7, <2>1
  <2>3. Len(results) + (k + 1) = Len(results') + k
    BY <1>5, <1>6, <1>7
  <2> QED
    BY <2>1, <2>2, <2>3
<1>12. Turns'
  BY <1>4, <1>9, <1>10, <1>11 DEF Turns, W
<1>13. Parsing'
  BY <1>4 DEF Parsing, Working
<1> QED
  BY <1>4, <1>5, <1>6, <1>12, <1>13 DEF R, D

\* Every step keeps the types, the turns and what is parsed.
LEMMA NextTypes == TypeInv /\ [Next]_vars => TypeInv'
<1> SUFFICES ASSUME TypeInv, [Next]_vars PROVE TypeInv'
  OBVIOUS
<1> USE DEF countVars, sourceVars
<1>1. CASE StartBatch
  <2>1. TypeOK'
    BY <1>1, DiscoveredFacts DEF StartBatch, TypeInv, TypeOK
  <2>2. Len(results) = 0 /\ results' = <<>> /\ queue' = Discovered(Walked) /\ pc' = "next"
    BY <1>1 DEF StartBatch, TypeInv, Turns
  <2>3. Turns'
    <3>1. Len(queue') \in Nat
      BY <2>2, DiscoveredFacts
    <3> QED
      BY <2>2, <3>1 DEF Turns
  <2>4. Parsing'
    BY <1>1, <2>2 DEF StartBatch, TypeInv, Parsing, Working
  <2> QED
    BY <2>1, <2>3, <2>4 DEF TypeInv
<1>2. CASE SkipSource
  <2>1. FinishSource("skipped") /\ queue # <<>> /\ pc # "idle"
    BY <1>2 DEF SkipSource
  <2>2. TypeOK'
    BY <1>2, <2>1, FinishTypes DEF SkipSource, FinishSource, TypeInv, TypeOK
  <2> QED
    BY <2>1, <2>2, FinishTypes DEF TypeInv
<1>3. CASE TakeSource
  <2>1. TypeOK'
    BY <1>3 DEF TakeSource, TypeInv, TypeOK
  <2>2. Turns'
    BY <1>3 DEF TakeSource, TypeInv, Turns
  <2>3. Parsing'
    <3>1. Len(Input) \in Nat /\ Input' = Input /\ queue # <<>>
      BY <1>3, HandType DEF TakeSource, TypeInv, TypeOK, Input
    <3>2. file = 1 /\ events = {}
      BY <1>3 DEF TakeSource, TypeInv, Parsing, Working
    <3> QED
      BY <1>3, <3>1, <3>2 DEF TakeSource, Parsing, Working
  <2> QED
    BY <2>1, <2>2, <2>3 DEF TypeInv
<1>4. CASE ParseFile
  <2>1. TypeOK'
    <3>1. events' \subseteq Object /\ file' \in Nat \ {0}
      BY <1>4, OneFileMore DEF ParseFile
    <3> QED
      BY <1>4, <3>1 DEF ParseFile, TypeInv, TypeOK
  <2>2. Turns'
    BY <1>4 DEF ParseFile, TypeInv, Turns
  <2>3. Parsing'
    BY <1>4, OneFileMore DEF ParseFile, Parsing, Working
  <2> QED
    BY <2>1, <2>2, <2>3 DEF TypeInv
<1>5. CASE SplitFile
  <2>1. TypeOK'
    <3>1. InHand \in Source /\ queue # <<>>
      BY <1>5, HandType DEF SplitFile, TypeInv, TypeOK
    <3>2. scratch' \in [Source -> Nat]
      BY <1>5, <3>1 DEF SplitFile, TypeInv, TypeOK
    <3> QED
      BY <1>5, <3>1, <3>2 DEF SplitFile, TypeInv, TypeOK
  <2>2. Turns'
    BY <1>5 DEF SplitFile, TypeInv, Turns
  <2>3. Parsing'
    <3>1. InHand \in Source /\ Input' = Input /\ InHand' = InHand
      BY <1>5, HandType DEF SplitFile, TypeInv, TypeOK, Input, InHand
    <3>2. scratch'[InHand] > 0
      BY <1>5, <3>1 DEF SplitFile, TypeInv, TypeOK
    <3> QED
      BY <1>5, <3>1, <3>2 DEF SplitFile, TypeInv, Parsing, Working
  <2> QED
    BY <2>1, <2>2, <2>3 DEF TypeInv
<1>6. CASE ParseTables
  <2>1. TypeOK'
    <3>1. file <= Len(Input) /\ scratch[InHand] > 0 /\ InHand \in Source
      BY <1>6, HandType DEF ParseTables, TypeInv, TypeOK, Parsing, Working
    <3>2. events' \subseteq Object /\ file' \in Nat \ {0}
      BY <1>6, <3>1, OneFileMore DEF ParseTables
    <3>3. scratch' \in [Source -> Nat]
      BY <1>6, <3>1 DEF ParseTables, TypeInv, TypeOK
    <3> QED
      BY <1>6, <3>2, <3>3 DEF ParseTables, TypeInv, TypeOK
  <2>2. Turns'
    BY <1>6 DEF ParseTables, TypeInv, Turns
  <2>3. Parsing'
    <3>1. file <= Len(Input)
      BY <1>6 DEF ParseTables, TypeInv, Parsing, Working
    <3> QED
      BY <1>6, <3>1, OneFileMore DEF ParseTables, Parsing, Working
  <2> QED
    BY <2>1, <2>2, <2>3 DEF TypeInv
<1>7. CASE Enrich
  <2>1. TypeOK'
    <3>1. opt \in Options /\ events \in SUBSET Object
      BY DEF TypeInv, TypeOK
    <3>2. InOrder(events) \in Seq(Object)
      BY <3>1, InOrderFacts
    <3>3. plan' \in Seq([file : File, derived : BOOLEAN])
      BY <1>7, <3>1, <3>2, PlanFacts DEF Enrich
    <3> QED
      BY <1>7, <3>3 DEF Enrich, TypeInv, TypeOK
  <2>2. Turns'
    BY <1>7 DEF Enrich, TypeInv, Turns
  <2>3. Parsing'
    BY <1>7 DEF Enrich, TypeInv, Parsing, Working
  <2> QED
    BY <2>1, <2>2, <2>3 DEF TypeInv
<1>8. CASE Open
  <2>1. TypeOK'
    BY <1>8 DEF Open, TypeInv, TypeOK
  <2>2. Turns'
    BY <1>8 DEF Open, TypeInv, Turns
  <2>3. Parsing'
    BY <1>8 DEF Open, TypeInv, Parsing, Working
  <2> QED
    BY <2>1, <2>2, <2>3 DEF TypeInv
<1>9. CASE Fill
  <2>1. TypeOK'
    <3> DEFINE c == ContentOf(Head(plan), disk[InHand], Input)
               E == [file : File, derived : BOOLEAN]
    <3>1. TypeOK /\ queue # <<>> /\ pc = "fill"
      BY <1>9 DEF Fill, TypeInv, TypeOK
    <3>2. InHand \in Source /\ Input \in Evidence
      BY <3>1, HandType
    <3>3. disk[InHand] \in [File -> {Absent, Torn} \cup Contents]
      BY <3>1, <3>2 DEF TypeOK
    <3>4. plan \in Seq(E) /\ plan # <<>>
      BY <3>1 DEF TypeOK, TypeInv, Parsing
    <3>5. Head(plan) \in E /\ Tail(plan) \in Seq(E)
      <4> HIDE DEF E
      <4> QED
        BY <3>4
    <3>6. c \in Contents
      BY <3>2, <3>3, <3>5, ContentType
    <3> HIDE DEF c
    <3>7. disk' \in [Source -> [File -> {Absent, Torn} \cup Contents]]
      BY <1>9, <3>1, <3>2, <3>3, <3>6 DEF Fill, TypeOK, c
    <3> QED
      BY <1>9, <3>1, <3>5, <3>7 DEF Fill, TypeOK
  <2>2. Turns'
    BY <1>9 DEF Fill, TypeInv, Turns
  <2>3. Parsing'
    BY <1>9 DEF Fill, TypeInv, Parsing, Working
  <2> QED
    BY <2>1, <2>2, <2>3 DEF TypeInv
<1>10. CASE SourceBuilt
  <2>1. FinishSource("built") /\ queue # <<>> /\ pc # "idle"
    BY <1>10 DEF SourceBuilt, TypeInv, TypeOK
  <2>2. TypeOK'
    BY <1>10, <2>1, FinishTypes DEF SourceBuilt, FinishSource, TypeInv, TypeOK
  <2> QED
    BY <2>1, <2>2, FinishTypes DEF TypeInv
<1>11. CASE Raise
  <2>1. FinishSource("error") /\ queue # <<>> /\ pc # "idle" /\ Working
    BY <1>11 DEF Raise, TypeInv, TypeOK, Working
  <2>2. scratch' \in [Source -> Nat]
    BY <1>11, <2>1, ScratchRemovedType DEF Raise
  <2>3. faults' \in 0..MaxFaults
    BY <1>11, BoundsAssumption DEF Raise, TypeInv, TypeOK
  <2>4. TypeOK'
    BY <1>11, <2>1, <2>2, <2>3, FinishTypes DEF Raise, FinishSource, TypeInv, TypeOK
  <2> QED
    BY <2>1, <2>4, FinishTypes DEF TypeInv
<1>12. CASE EngineMissing
  <2>1. TypeOK'
    <3>1. scratch' \in [Source -> Nat]
      BY <1>12, ScratchRemovedType DEF EngineMissing, Working
    <3>2. faults' \in 0..MaxFaults
      BY <1>12, BoundsAssumption DEF EngineMissing, TypeInv, TypeOK
    <3> QED
      BY <1>12, <3>1, <3>2 DEF EngineMissing, TypeInv, TypeOK
  <2>2. Turns'
    BY <1>12 DEF EngineMissing, TypeInv, Turns
  <2>3. Parsing'
    BY <1>12 DEF EngineMissing, TypeInv, Parsing, Working
  <2> QED
    BY <2>1, <2>2, <2>3 DEF TypeInv
<1>13. CASE EndBatch
  <2>1. TypeOK'
    BY <1>13 DEF EndBatch, TypeInv, TypeOK
  <2>2. Turns'
    BY <1>13 DEF EndBatch, TypeInv, Turns
  <2>3. Parsing'
    BY <1>13 DEF EndBatch, TypeInv, Parsing, Working
  <2> QED
    BY <2>1, <2>2, <2>3 DEF TypeInv
<1>14. CASE Return
  BY <1>14, ForgetTypes DEF Return, TypeInv, TypeOK
<1>15. CASE Crash
  <2>1. crashes' \in 0..MaxCrashes
    BY <1>15, BoundsAssumption DEF Crash, TypeInv, TypeOK
  <2> QED
    BY <1>15, <2>1, ForgetTypes DEF Crash, TypeInv, TypeOK
<1>16. ASSUME NEW p \in Path, Collect(p) PROVE TypeInv'
  <2>1. TypeOK'
    <3>1. evidence' \in [Path -> Evidence]
      BY <1>16 DEF Collect, TypeInv, TypeOK
    <3>2. changes' \in 0..MaxChanges
      BY <1>16, BoundsAssumption DEF Collect, TypeInv, TypeOK
    <3> QED
      BY <1>16, <3>1, <3>2 DEF Collect, TypeInv, TypeOK
  <2>2. Turns'
    BY <1>16 DEF Collect, TypeInv, Turns
  <2>3. Parsing'
    <3>1. pc \in {"parse", "tables"} => Input' = Input
      BY <1>16 DEF Collect, Input, TypeInv, TypeOK
    <3>2. InHand' = InHand
      BY <1>16 DEF Collect, InHand
    <3> QED
      BY <1>16, <3>1, <3>2 DEF Collect, TypeInv, Parsing, Working
  <2> QED
    BY <2>1, <2>2, <2>3 DEF TypeInv
<1>17. CASE UNCHANGED vars
  <2>1. TypeOK'
    BY <1>17 DEF vars, TypeInv, TypeOK
  <2>2. Turns'
    BY <1>17 DEF vars, TypeInv, Turns
  <2>3. Parsing'
    <3>1. InHand' = InHand /\ Input' = Input
      BY <1>17 DEF vars, InHand, Input
    <3> QED
      BY <1>17, <3>1 DEF vars, TypeInv, Parsing, Working
  <2> QED
    BY <2>1, <2>2, <2>3 DEF TypeInv
<1> QED
  BY <1>1, <1>2, <1>3, <1>4, <1>5, <1>6, <1>7, <1>8, <1>9, <1>10, <1>11, <1>12,
     <1>13, <1>14, <1>15, <1>16, <1>17 DEF Next, Run

-----------------------------------------------------------------------------
(***************************************************************************)
(* Files are written in the order of the plan                              *)
(***************************************************************************)
\* The plan of the source in hand.
LEMMA PlannedFacts ==
  ASSUME TypeInv
  PROVE  LET n == Len(InOrder(events))
         IN  /\ Planned \in Seq([file : File, derived : BOOLEAN])
             /\ Len(Planned) \in Nat /\ n \in Nat /\ n <= Len(Planned)
             /\ \A k \in 1..n : Planned[k] = Entry(InOrder(events)[k], FALSE)
             /\ \A k \in (n + 1)..Len(Planned) : Planned[k].file \notin Object
             /\ \A k \in 1..Len(Planned) : Planned[k].file = "relationships" => k > n + 1
             /\ \A f \in Asked(opt) : \E k \in 1..Len(Planned) :
                  /\ Planned[k].file = f
                  /\ \A j \in (k + 1)..Len(Planned) : Planned[j].file # f
                  /\ opt.derive /\ f = "relationships" => Planned[k].derived
<1>1. opt \in Options /\ events \in SUBSET Object
  BY DEF TypeInv, TypeOK
<1>2. InOrder(events) \in Seq(Object)
  BY <1>1, InOrderFacts
<1> QED
  BY <1>1, <1>2, PlanFacts, Zenon DEF Planned

\* What is left of it.
LEMMA LeftToWrite ==
  ASSUME TypeInv, Writing, pc \in {"open", "fill"}
  PROVE  /\ Closed \in Nat /\ Closed + Len(plan) = Len(Planned) /\ Len(plan) \in Nat
         /\ plan # <<>> =>
              /\ Closed + 1 \in 1..Len(Planned)
              /\ Head(plan) = Planned[Closed + 1]
              /\ Head(plan) \in [file : File, derived : BOOLEAN]
              /\ Len(Tail(plan)) = Len(plan) - 1
              /\ \A k \in 1..Len(Tail(plan)) : Tail(plan)[k] = Planned[Closed + 1 + k]
<1> DEFINE E == [file : File, derived : BOOLEAN]
<1>1. plan \in Seq(E)
  BY DEF TypeInv, TypeOK
<1>2. Len(Planned) \in Nat
  BY PlannedFacts
<1>3. Len(plan) <= Len(Planned) /\ \A k \in 1..Len(plan) : plan[k] = Planned[Closed + k]
  BY DEF Writing
<1> HIDE DEF E
<1>4. Len(plan) \in Nat
  BY <1>1
<1>5. Closed \in Nat /\ Closed + Len(plan) = Len(Planned)
  BY <1>2, <1>3, <1>4 DEF Closed
<1>6. ASSUME plan # <<>>
      PROVE  /\ Closed + 1 \in 1..Len(Planned)
             /\ Head(plan) = Planned[Closed + 1]
             /\ Head(plan) \in E
             /\ Len(Tail(plan)) = Len(plan) - 1
             /\ \A k \in 1..Len(Tail(plan)) : Tail(plan)[k] = Planned[Closed + 1 + k]
  <2>1. /\ Len(plan) >= 1 /\ Head(plan) = plan[1] /\ Head(plan) \in E
        /\ Len(Tail(plan)) = Len(plan) - 1
        /\ \A k \in 1..Len(Tail(plan)) : Tail(plan)[k] = plan[k + 1]
    BY <1>1, <1>6
  <2>2. Closed + 1 \in 1..Len(Planned)
    BY <1>2, <1>4, <1>5, <2>1
  <2>3. Head(plan) = Planned[Closed + 1]
    BY <1>3, <1>4, <2>1
  <2>4. ASSUME NEW k \in 1..Len(Tail(plan))
        PROVE  Tail(plan)[k] = Planned[Closed + 1 + k]
    <3>1. k + 1 \in 1..Len(plan)
      BY <1>4, <2>1
    <3>2. plan[k + 1] = Planned[Closed + (k + 1)]
      BY <1>3, <3>1
    <3>3. Closed + (k + 1) = Closed + 1 + k
      BY <1>5, <2>1
    <3> QED
      BY <2>1, <3>2, <3>3
  <2> QED
    BY <2>1, <2>2, <2>3, <2>4
<1> QED
  BY <1>4, <1>5, <1>6 DEF E

\* Opening the next file of the plan.
LEMMA OpenKeepsOrder ==
  ASSUME WriteInv, Open
  PROVE  Writing' /\ Unmarked'
<1> DEFINE n == Len(InOrder(events))
           s == InHand
           g == Head(plan).file
<1>1. /\ TypeInv /\ Writing /\ Unmarked
      /\ pc = "open" /\ plan # <<>> /\ pc' = "fill"
      /\ UNCHANGED <<evidence, scratch, opt, queue, file, events, plan, results>>
      /\ disk' = [disk EXCEPT ![s][g] = Torn]
  BY DEF WriteInv, Open, sourceVars
<1>2. /\ Closed \in Nat /\ Closed + Len(plan) = Len(Planned)
      /\ Closed + 1 \in 1..Len(Planned) /\ Head(plan) = Planned[Closed + 1]
      /\ Head(plan) \in [file : File, derived : BOOLEAN]
  BY <1>1, LeftToWrite
<1>3. s \in Source /\ disk \in [Source -> [File -> {Absent, Torn} \cup Contents]]
  BY <1>1, HandType DEF TypeInv, TypeOK
<1>4. /\ Input' = Input /\ InHand' = InHand /\ Planned' = Planned
      /\ Closed' = Closed /\ Opened = Closed /\ Opened' = Closed + 1
      /\ InOrder(events)' = InOrder(events)
  BY <1>1 DEF Input, InHand, Planned, Closed, Opened
<1>5. /\ g \in File /\ disk'[s][g] = Torn
      /\ \A f \in File : f # g => disk'[s][f] = disk[s][f]
  BY <1>1, <1>2, <1>3
<1>6. Writing'
  <2>1. ASSUME NEW k \in 1..Closed,
               \A j \in (k + 1)..(Closed + 1) : Planned[j].file # Planned[k].file
        PROVE  /\ disk'[s][Planned[k].file] \in Contents
               /\ disk'[s][Planned[k].file].derived = Planned[k].derived
               /\ Planned[k].file \in Object => disk'[s][Planned[k].file].from = {Input}
    <3>1. Planned[Closed + 1].file # Planned[k].file
      BY <1>2, <2>1
    <3>2. Planned[k].file \in File
      <4>1. k \in 1..Len(Planned)
        BY <1>2
      <4>2. Planned[k] \in [file : File, derived : BOOLEAN]
        BY <1>1, <4>1, PlannedFacts, ElementOfSeq, Zenon
      <4> QED
        BY <4>2
    <3>3. disk'[s][Planned[k].file] = disk[s][Planned[k].file]
      BY <1>2, <1>5, <3>1, <3>2
    <3>4. \A j \in (k + 1)..Opened : Planned[j].file # Planned[k].file
      BY <1>2, <1>4, <2>1
    <3> QED
      BY <1>1, <3>3, <3>4 DEF Writing
  <2> QED
    BY <1>1, <1>4, <1>5, <2>1 DEF Writing
<1>7. Unmarked'
  <2> SUFFICES ASSUME ~opt.force, IsMarked(disk'[s]) PROVE Closed + 1 > n
    BY <1>1, <1>4 DEF Unmarked
  <2>1. CASE g = "relationships"
    <3>1. Closed + 1 > n + 1 /\ n \in Nat
      BY <1>1, <1>2, <2>1, PlannedFacts
    <3> QED
      BY <1>2, <3>1
  <2>2. CASE g # "relationships"
    <3>1. IsMarked(disk[s])
      BY <1>5, <2>2 DEF IsMarked, File, Derivatives
    <3>2. Opened > n
      BY <1>1, <3>1 DEF Unmarked, Working
    <3>3. n \in Nat
      BY <1>1, PlannedFacts
    <3> QED
      BY <1>2, <1>4, <3>2, <3>3
  <2> QED
    BY <2>1, <2>2
<1> QED
  BY <1>6, <1>7

\* Closing it.
LEMMA FillKeepsOrder ==
  ASSUME WriteInv, Fill
  PROVE  Writing' /\ Unmarked'
<1> DEFINE n == Len(InOrder(events))
           s == InHand
           g == Head(plan).file
           c == ContentOf(Head(plan), disk[s], Input)
<1>1. /\ TypeInv /\ Writing /\ Unmarked
      /\ pc = "fill" /\ plan # <<>> /\ pc' = "open" /\ plan' = Tail(plan)
      /\ UNCHANGED <<evidence, scratch, opt, queue, file, events, results>>
      /\ disk' = [disk EXCEPT ![s][g] = c]
  BY DEF WriteInv, Fill, TypeInv, Parsing
<1>2. /\ Closed \in Nat /\ Closed + Len(plan) = Len(Planned) /\ Len(plan) \in Nat
      /\ Closed + 1 \in 1..Len(Planned) /\ Head(plan) = Planned[Closed + 1]
      /\ Head(plan) \in [file : File, derived : BOOLEAN]
      /\ Len(plan') = Len(plan) - 1
      /\ \A k \in 1..Len(plan') : plan'[k] = Planned[Closed + 1 + k]
  BY <1>1, LeftToWrite
<1>3. /\ s \in Source /\ disk \in [Source -> [File -> {Absent, Torn} \cup Contents]]
      /\ Input \in Evidence
  BY <1>1, HandType DEF TypeInv, TypeOK
<1>4. /\ Input' = Input /\ InHand' = InHand /\ Planned' = Planned
      /\ InOrder(events)' = InOrder(events)
  BY <1>1 DEF Input, InHand, Planned
<1>5. Closed' = Closed + 1 /\ Opened = Closed + 1 /\ Opened' = Closed + 1
  BY <1>1, <1>2, <1>4 DEF Closed, Opened
<1>6. /\ g \in File /\ disk'[s][g] = c
      /\ \A f \in File : f # g => disk'[s][f] = disk[s][f]
  BY <1>1, <1>2, <1>3
<1>7. c \in Contents /\ c.derived = Head(plan).derived /\ (g \in Object => c.from = {Input})
  <2>1. disk[s] \in [File -> {Absent, Torn} \cup Contents]
    BY <1>3
  <2> QED
    BY <1>2, <1>3, <2>1, ContentType
<1> HIDE DEF c
<1>8. Writing'
  <2>1. ASSUME NEW k \in 1..(Closed + 1),
               \A j \in (k + 1)..(Closed + 1) : Planned[j].file # Planned[k].file
        PROVE  /\ disk'[s][Planned[k].file] \in Contents
               /\ disk'[s][Planned[k].file].derived = Planned[k].derived
               /\ Planned[k].file \in Object => disk'[s][Planned[k].file].from = {Input}
    <3>1. CASE k = Closed + 1
      BY <1>2, <1>6, <1>7, <3>1
    <3>2. CASE k # Closed + 1
      <4>1. k \in 1..Closed /\ Closed + 1 \in (k + 1)..(Closed + 1)
        BY <1>2, <3>2
      <4>2. Planned[Closed + 1].file # Planned[k].file
        BY <2>1, <4>1
      <4>3. Planned[k].file \in File
        <5>1. k \in 1..Len(Planned)
          BY <1>2, <4>1
        <5>2. Planned[k] \in [file : File, derived : BOOLEAN]
          BY <1>1, <5>1, PlannedFacts, ElementOfSeq, Zenon
        <5> QED
          BY <5>2
      <4>4. disk'[s][Planned[k].file] = disk[s][Planned[k].file]
        BY <1>2, <1>6, <4>2, <4>3
      <4>5. \A j \in (k + 1)..Opened : Planned[j].file # Planned[k].file
        BY <1>5, <2>1
      <4> QED
        BY <1>1, <4>1, <4>4, <4>5 DEF Writing
    <3> QED
      BY <3>1, <3>2
  <2>2. /\ events' = Populated(Input')
        /\ Len(plan') <= Len(Planned')
        /\ \A k \in 1..Len(plan') : plan'[k] = Planned'[Closed' + k]
    BY <1>1, <1>2, <1>4, <1>5 DEF Writing
  <2>3. ASSUME NEW k \in 1..Closed',
               \A j \in (k + 1)..Opened' : Planned'[j].file # Planned'[k].file
        PROVE  /\ disk'[InHand'][Planned'[k].file] \in Contents
               /\ disk'[InHand'][Planned'[k].file].derived = Planned'[k].derived
               /\ Planned'[k].file \in Object =>
                    disk'[InHand'][Planned'[k].file].from = {Input'}
    BY <1>4, <1>5, <2>1, <2>3
  <2> QED
    BY <1>1, <2>2, <2>3 DEF Writing
<1>9. Unmarked'
  <2> SUFFICES ASSUME ~opt.force, IsMarked(disk'[s]) PROVE Closed + 1 > n
    BY <1>1, <1>4, <1>5 DEF Unmarked
  <2>1. IsMarked(disk[s])
    <3>1. disk[s][g] = Torn
      BY <1>1 DEF Writing
    <3> QED
      BY <1>6, <3>1, Marks DEF IsMarked, File, Derivatives
  <2>2. Opened > n
    BY <1>1, <2>1 DEF Unmarked, Working
  <2> QED
    BY <1>5, <2>2
<1> QED
  BY <1>8, <1>9

\* All files are parsed: the plan is made of all the source's objects.
LEMMA EnrichPlans ==
  ASSUME WriteInv, Enrich
  PROVE  Writing' /\ Unmarked'
<1>1. /\ TypeInv /\ Unmarked /\ pc = "parse" /\ file > Len(Input) /\ pc' = "open"
      /\ plan' = Planned
      /\ UNCHANGED <<evidence, disk, opt, queue, file, events>>
  BY DEF WriteInv, Enrich, Planned
<1>2. /\ Input' = Input /\ InHand' = InHand /\ Planned' = Planned
  BY <1>1 DEF Input, InHand, Planned
<1>3. events = Populated(Input)
  <2>1. Input \in Seq([kind : Kind, objects : SUBSET Object])
    BY <1>1, HandType DEF TypeInv, TypeOK
  <2>2. Len(Input) \in Nat /\ file \in Nat /\ file <= Len(Input) + 1
    BY <1>1, <2>1 DEF TypeInv, TypeOK, Parsing
  <2>3. file - 1 = Len(Input)
    BY <1>1, <2>2
  <2>4. events = UNION {Input[i].objects : i \in 1..(file - 1)}
    BY <1>1 DEF TypeInv, Parsing
  <2>5. Populated(Input) = UNION {Input[i].objects : i \in 1..Len(Input)}
    BY <2>1, InputObjects, Zenon
  <2> QED
    BY <2>3, <2>4, <2>5, Zenon
<1>4. Len(Planned) \in Nat
  BY <1>1, PlannedFacts
<1>5. Closed' = 0 /\ Opened' = 0
  BY <1>1, <1>2, <1>4 DEF Closed, Opened
<1>6. Writing'
  BY <1>1, <1>2, <1>3, <1>4, <1>5 DEF Writing
<1>7. Unmarked'
  BY <1>1, <1>2 DEF Unmarked, Working
<1> QED
  BY <1>6, <1>7

LEMMA InitInv == Init => BuildInv
<1> SUFFICES ASSUME Init PROVE BuildInv
  OBVIOUS
<1>1. Writing /\ Unmarked /\ BuiltIsComplete
  BY DEF Init, Writing, Unmarked, Working, BuiltIsComplete
<1> QED
  BY <1>1, InitTypes DEF BuildInv, WriteInv

\* Every step keeps the files of the plan in their order.
LEMMA NextWrites == WriteInv /\ [Next]_vars => WriteInv'
<1> SUFFICES ASSUME WriteInv, [Next]_vars PROVE Writing' /\ Unmarked'
  BY NextTypes DEF WriteInv
<1> USE DEF countVars, sourceVars
<1>1. TypeInv /\ Writing /\ Unmarked
  BY DEF WriteInv
<1>2. CASE StartBatch \/ SkipSource \/ SourceBuilt \/ Raise \/ EngineMissing \/ EndBatch
           \/ Return \/ Crash
  <2>1. pc' \in {"idle", "next", "done"}
    BY <1>2 DEF StartBatch, SkipSource, SourceBuilt, Raise, EngineMissing, EndBatch,
                Return, Crash, FinishSource, Forget
  <2> QED
    BY <2>1 DEF Writing, Unmarked, Working
<1>3. CASE TakeSource
  <2>1. InHand' = InHand /\ pc' = "parse"
    BY <1>3 DEF TakeSource, InHand
  <2>2. ~(~opt.force /\ IsMarked(disk[InHand]))
    BY <1>3 DEF TakeSource, Skippable
  <2> QED
    BY <1>3, <2>1, <2>2 DEF TakeSource, Writing, Unmarked
<1>4. CASE ParseFile \/ SplitFile \/ ParseTables
  <2>1. /\ InHand' = InHand /\ pc \in {"parse", "tables"} /\ pc' \in {"parse", "tables"}
        /\ UNCHANGED <<disk, opt>>
    BY <1>4 DEF ParseFile, SplitFile, ParseTables, InHand
  <2>2. ~(~opt.force /\ IsMarked(disk[InHand]))
    BY <1>1, <2>1 DEF Unmarked, Working
  <2> QED
    BY <2>1, <2>2 DEF Writing, Unmarked
<1>5. CASE Enrich
  BY <1>5, EnrichPlans
<1>6. CASE Open
  BY <1>6, OpenKeepsOrder
<1>7. CASE Fill
  BY <1>7, FillKeepsOrder
<1>8. CASE (\E p \in Path : Collect(p)) \/ UNCHANGED vars
  <2>1. UNCHANGED <<disk, pc, opt, queue, file, events, plan>>
    BY <1>8 DEF Collect, vars
  <2>2. pc \in {"open", "fill"} => Input' = Input
    <3>1. CASE UNCHANGED vars
      BY <3>1 DEF vars, Input
    <3>2. ASSUME NEW p \in Path, Collect(p), pc \in {"open", "fill"} PROVE Input' = Input
      BY <1>1, <3>2 DEF Collect, Input, TypeInv, TypeOK
    <3> QED
      BY <1>8, <3>1, <3>2
  <2>3. /\ InHand' = InHand /\ Planned' = Planned /\ Closed' = Closed /\ Opened' = Opened
        /\ InOrder(events)' = InOrder(events) /\ Working' = Working
    BY <2>1 DEF InHand, Planned, Closed, Opened, Working
  <2>4. Writing'
    BY <1>1, <2>1, <2>2, <2>3 DEF Writing
  <2>5. Unmarked'
    BY <1>1, <2>1, <2>3 DEF Unmarked
  <2> QED
    BY <2>4, <2>5
<1> QED
  BY <1>2, <1>3, <1>4, <1>5, <1>6, <1>7, <1>8 DEF Next, Run

\* Once every object file of the plan is closed, those of the evidence are
\* complete.
LEMMA ObjectsWritten ==
  ASSUME WriteInv, pc \in {"open", "fill"}, Closed >= Len(InOrder(events))
  PROVE  ObjectsComplete(disk[InHand], Input)
<1> DEFINE n == Len(InOrder(events))
           tree == disk[InHand]
<1>1. TypeInv /\ Writing /\ events = Populated(Input) /\ events \in SUBSET Object
  BY DEF WriteInv, Writing, TypeInv, TypeOK
<1>2. /\ Closed \in Nat /\ Closed + Len(plan) = Len(Planned) /\ Len(plan) \in Nat
      /\ plan # <<>> => Closed + 1 \in 1..Len(Planned)
  BY <1>1, LeftToWrite
<1>3. Opened \in Nat /\ Opened <= Len(Planned) /\ Closed <= Opened
  <2>1. pc = "fill" => plan # <<>>
    BY <1>1 DEF TypeInv, Parsing
  <2>2. Len(Planned) \in Nat
    BY <1>1, PlannedFacts
  <2> QED
    BY <1>2, <2>1, <2>2 DEF Opened
<1>4. /\ n \in Nat /\ n <= Len(Planned)
      /\ \A k \in 1..n : Planned[k] = Entry(InOrder(events)[k], FALSE)
      /\ \A k \in (n + 1)..Len(Planned) : Planned[k].file \notin Object
  BY <1>1, PlannedFacts
<1>5. /\ \A o \in events : \E k \in 1..n : InOrder(events)[k] = o
      /\ \A k, l \in 1..n : InOrder(events)[k] = InOrder(events)[l] => k = l
  BY <1>1, InOrderFacts
<1>6. ASSUME NEW o \in events
      PROVE  tree[o] = [from |-> {Input}, derived |-> FALSE]
  <2>1. PICK k \in 1..n : InOrder(events)[k] = o
    BY <1>5
  <2>2. Planned[k].file = o /\ Planned[k].derived = FALSE
    <3>1. Planned[k] = Entry(o, FALSE)
      BY <1>4, <2>1, Zenon
    <3> QED
      BY <3>1 DEF Entry
  <2>3. o \in Object
    BY <1>1
  <2>4. ASSUME NEW j \in (k + 1)..Opened PROVE Planned[j].file # o
    <3>1. CASE j \in 1..n
      <4>1. Planned[j].file = InOrder(events)[j]
        <5>1. Planned[j] = Entry(InOrder(events)[j], FALSE)
          BY <1>4, <3>1, Zenon
        <5> QED
          BY <5>1 DEF Entry
      <4>2. j # k
        BY <1>4, <2>1
      <4> QED
        BY <1>5, <2>1, <3>1, <4>1, <4>2
    <3>2. CASE j \notin 1..n
      <4>1. j \in (n + 1)..Len(Planned)
        BY <1>3, <1>4, <3>2
      <4> QED
        BY <1>4, <2>3, <4>1
    <3> QED
      BY <3>1, <3>2
  <2>5. k \in 1..Closed
    BY <1>2, <1>4
  <2>6. tree[o] \in Contents /\ tree[o].derived = FALSE /\ tree[o].from = {Input}
    BY <1>1, <2>2, <2>3, <2>4, <2>5 DEF Writing
  <2> HIDE DEF tree
  <2> QED
    BY <2>6 DEF Contents
<1> QED
  BY <1>1, <1>6 DEF ObjectsComplete

\* A finished source is not the one in hand, nor another finished one.
LEMMA NamesDiffer ==
  ASSUME TypeInv, pc # "idle"
  PROVE  /\ \A i, j \in 1..Len(results) : results[i].name = results[j].name => i = j
         /\ queue # <<>> => \A i \in 1..Len(results) : results[i].name # InHand
<1> DEFINE W == Discovered(Walked)
           R == [name : Source, status : {"built", "skipped", "error"}, from : Evidence]
           D == [name : Source, path : Path]
<1>1. results \in Seq(R) /\ queue \in Seq(D)
  BY DEF TypeInv, TypeOK
<1> HIDE DEF R, D
<1>2. Len(results) \in Nat /\ Len(queue) \in Nat /\ (queue # <<>> => Len(queue) >= 1)
  BY <1>1
<1>3. /\ Len(results) + Len(queue) = Len(W)
      /\ \A k \in 1..Len(results) : results[k].name = W[k].name
      /\ \A k \in 1..Len(queue) : queue[k] = W[Len(results) + k]
  BY DEF TypeInv, Turns
<1>4. \A k, l \in 1..Len(W) : W[k].name = W[l].name => k = l
  BY DiscoveredFacts
<1> HIDE DEF W
<1>5. \A i \in 1..Len(results) : i \in 1..Len(W)
  BY <1>2, <1>3
<1>6. \A i, j \in 1..Len(results) : results[i].name = results[j].name => i = j
  <2> TAKE i, j \in 1..Len(results)
  <2>1. results[i].name = W[i].name /\ results[j].name = W[j].name
    BY <1>3
  <2> QED
    BY <1>4, <1>5, <2>1
<1>7. ASSUME queue # <<>>, NEW i \in 1..Len(results)
      PROVE  results[i].name # InHand
  <2>1. Head(queue) = queue[1]
    BY <1>1
  <2>2. InHand = W[Len(results) + 1].name
    BY <1>2, <1>3, <1>7, <2>1 DEF InHand
  <2>3. Len(results) + 1 \in 1..Len(W) /\ Len(results) + 1 # i
    BY <1>2, <1>3, <1>7
  <2>4. results[i].name = W[i].name
    BY <1>3
  <2> QED
    BY <1>4, <1>5, <2>2, <2>3, <2>4
<1> QED
  BY <1>6, <1>7

\* The tree of a source whose plan is written is complete.
LEMMA WrittenIsComplete ==
  ASSUME WriteInv, pc = "open", plan = <<>>
  PROVE  Complete(disk[InHand], Input, opt)
<1> DEFINE tree == disk[InHand]
<1>1. TypeInv /\ Writing
  BY DEF WriteInv
<1>2. /\ Closed = Len(Planned) /\ Opened = Len(Planned) /\ Len(Planned) \in Nat
      /\ Len(InOrder(events)) <= Len(Planned)
  <2>1. Len(plan) = 0
    OBVIOUS
  <2>2. Len(Planned) \in Nat /\ Len(InOrder(events)) <= Len(Planned)
    BY <1>1, PlannedFacts
  <2> QED
    BY <2>1, <2>2 DEF Closed, Opened
<1>3. ObjectsComplete(tree, Input)
  BY <1>2, ObjectsWritten
<1>4. ASSUME NEW f \in Asked(opt)
      PROVE  /\ tree[f] \in Contents
             /\ opt.derive /\ f = "relationships" => tree[f].derived
  <2>1. PICK k \in 1..Len(Planned) :
          /\ Planned[k].file = f
          /\ \A j \in (k + 1)..Len(Planned) : Planned[j].file # f
          /\ opt.derive /\ f = "relationships" => Planned[k].derived
    BY <1>1, PlannedFacts
  <2>2. k \in 1..Closed /\ \A j \in (k + 1)..Opened : Planned[j].file # Planned[k].file
    BY <1>2, <2>1
  <2>3. tree[f] \in Contents /\ tree[f].derived = Planned[k].derived
    BY <1>1, <2>1, <2>2 DEF Writing
  <2> QED
    BY <2>1, <2>3
<1>5. \A f \in Asked(opt) : tree[f] \notin {Absent, Torn}
  BY <1>4, Marks
<1>6. opt.derive => tree["relationships"].derived
  BY <1>4 DEF Asked
<1> QED
  BY <1>3, <1>5, <1>6 DEF Complete

\* Every step keeps what is reported as built.
LEMMA NextBuilt == BuildInv /\ [Next]_vars => BuiltIsComplete'
<1> SUFFICES ASSUME BuildInv, [Next]_vars PROVE BuiltIsComplete'
  OBVIOUS
<1> USE DEF countVars, sourceVars
<1> DEFINE R == [name : Source, status : {"built", "skipped", "error"}, from : Evidence]
<1>1. TypeInv /\ WriteInv /\ BuiltIsComplete /\ TypeOK
  BY DEF BuildInv, WriteInv, TypeInv
<1>2. DOMAIN results = 1..Len(results) /\ Len(results) \in Nat
  <2>1. results \in Seq(R)
    BY <1>1 DEF TypeOK
  <2> HIDE DEF R
  <2> QED
    BY <2>1
<1>3. ASSUME NEW status \in {"built", "skipped", "error"}, FinishSource(status),
             queue # <<>>, pc # "idle", UNCHANGED <<disk, opt>>,
             status = "built" => Complete(disk[InHand], Input, opt)
      PROVE  BuiltIsComplete'
  <2>1. /\ results' \in Seq(R) /\ Len(results') = Len(results) + 1
        /\ \A k \in 1..Len(results) : results'[k] = results[k]
        /\ results'[Len(results) + 1] = Result(status)
    BY <1>1, <1>3, FinishTypes
  <2>2. DOMAIN results' = 1..(Len(results) + 1)
    <3> HIDE DEF R
    <3> QED
      BY <2>1
  <2>3. ASSUME NEW i \in 1..(Len(results) + 1), results'[i].status = "built"
        PROVE  Complete(disk[results'[i].name], results'[i].from, opt)
    <3>1. CASE i \in 1..Len(results)
      BY <1>1, <1>2, <2>1, <2>3, <3>1 DEF BuiltIsComplete
    <3>2. CASE i = Len(results) + 1
      BY <1>3, <2>1, <2>3, <3>2 DEF Result
    <3> QED
      BY <1>2, <3>1, <3>2
  <2> QED
    BY <1>3, <2>2, <2>3 DEF BuiltIsComplete
<1>4. ASSUME queue # <<>>, pc # "idle", UNCHANGED <<results, opt>>,
             \A s \in Source \ {InHand} : disk'[s] = disk[s]
      PROVE  BuiltIsComplete'
  <2>1. ASSUME NEW i \in DOMAIN results
        PROVE  disk'[results[i].name] = disk[results[i].name]
    <3>1. results[i].name # InHand
      BY <1>1, <1>2, <1>4, NamesDiffer
    <3>2. results[i].name \in Source
      <4>1. results[i] \in R
        <5>1. results \in Seq(R)
          BY <1>1 DEF TypeOK
        <5> QED
          BY <1>2, <5>1, ElementOfSeq, Zenon
      <4> QED
        BY <4>1
    <3> QED
      BY <1>4, <3>1, <3>2
  <2> QED
    BY <1>1, <1>4, <2>1 DEF BuiltIsComplete
<1>5. ASSUME UNCHANGED <<disk, results, opt>> PROVE BuiltIsComplete'
  BY <1>1, <1>5 DEF BuiltIsComplete
<1>6. ASSUME results' = <<>> PROVE BuiltIsComplete'
  BY <1>6 DEF BuiltIsComplete
<1>7. CASE StartBatch
  BY <1>1, <1>6, <1>7 DEF StartBatch, TypeInv, Turns
<1>8. CASE SkipSource
  BY <1>3, <1>8 DEF SkipSource
<1>9. CASE SourceBuilt
  BY <1>1, <1>3, <1>9, WrittenIsComplete DEF SourceBuilt, TypeOK
<1>10. CASE Raise
  BY <1>1, <1>3, <1>10 DEF Raise, TypeOK
<1>11. CASE Open \/ Fill
  <2>1. queue # <<>> /\ pc # "idle" /\ UNCHANGED <<results, opt>>
    BY <1>1, <1>11 DEF Open, Fill, TypeOK
  <2>2. \A s \in Source \ {InHand} : disk'[s] = disk[s]
    BY <1>1, <1>11 DEF Open, Fill, TypeOK
  <2> QED
    BY <1>4, <2>1, <2>2
<1>12. CASE Return \/ Crash
  BY <1>6, <1>12 DEF Return, Crash, Forget
<1>13. CASE \/ TakeSource \/ ParseFile \/ SplitFile \/ ParseTables \/ Enrich
           \/ EngineMissing \/ EndBatch \/ (\E p \in Path : Collect(p)) \/ UNCHANGED vars
  <2>1. UNCHANGED <<disk, results, opt>>
    BY <1>13 DEF TakeSource, ParseFile, SplitFile, ParseTables, Enrich, EngineMissing,
                 EndBatch, Collect, vars
  <2> QED
    BY <1>5, <2>1
<1> QED
  BY <1>7, <1>8, <1>9, <1>10, <1>11, <1>12, <1>13 DEF Next, Run

-----------------------------------------------------------------------------
(***************************************************************************)
(* Temporary directories                                                   *)
(***************************************************************************)
\* A directory is there when its number is one of its tree's.
LEMMA DirectoriesAre ==
  ASSUME NEW s \in Source, NEW k
  PROVE  <<s, k>> \in Directories <=> k \in 1..scratch[s]
BY DEF Directories

LEMMA DirectoryAdded ==
  ASSUME TypeOK, NEW s \in Source, scratch' = [scratch EXCEPT ![s] = @ + 1],
         IsFiniteSet(Directories)
  PROVE  /\ IsFiniteSet(Directories')
         /\ Cardinality(Directories') = Cardinality(Directories) + 1
<1> DEFINE d == <<s, scratch[s] + 1>>
<1>1. scratch \in [Source -> Nat]
  BY DEF TypeOK
<1>2. \A r \in Source : 1..scratch'[r] =
        IF r = s THEN 1..scratch[r] \cup {scratch[r] + 1} ELSE 1..scratch[r]
  <2> TAKE r \in Source
  <2>1. scratch[r] \in Nat
    BY <1>1
  <2>2. CASE r = s
    BY <1>1, <2>1, <2>2
  <2>3. CASE r # s
    BY <1>1, <2>3
  <2> QED
    BY <2>2, <2>3
<1>3. /\ \A x : x \in Directories <=> \E r \in Source : \E k \in 1..scratch[r] : x = <<r, k>>
      /\ \A x : x \in Directories' <=> \E r \in Source : \E k \in 1..scratch'[r] : x = <<r, k>>
  <2>1. ASSUME NEW x, NEW r, NEW T
        PROVE  x \in {r} \X T <=> \E k \in T : x = <<r, k>>
    BY SMT
  <2>2. /\ \A x : x \in Directories <=> \E r \in Source : x \in {r} \X (1..scratch[r])
        /\ \A x : x \in Directories' <=> \E r \in Source : x \in {r} \X (1..scratch'[r])
    BY DEF Directories
  <2>3. /\ \A x, r : x \in {r} \X (1..scratch[r]) <=> \E k \in 1..scratch[r] : x = <<r, k>>
        /\ \A x, r : x \in {r} \X (1..scratch'[r]) <=> \E k \in 1..scratch'[r] : x = <<r, k>>
    BY <2>1
  <2>4. ASSUME NEW x
        PROVE  x \in Directories <=> \E r \in Source : \E k \in 1..scratch[r] : x = <<r, k>>
    BY <2>2, <2>3
  <2>5. ASSUME NEW x
        PROVE  x \in Directories' <=> \E r \in Source : \E k \in 1..scratch'[r] : x = <<r, k>>
    BY <2>2, <2>3
  <2> QED
    BY <2>4, <2>5
<1>4. Directories' = Directories \cup {d}
  <2>1. ASSUME NEW x \in Directories' PROVE x \in Directories \cup {d}
    <3>0. PICK r \in Source : \E k \in 1..scratch'[r] : x = <<r, k>>
      BY <1>3, Zenon
    <3>1. PICK k \in 1..scratch'[r] : x = <<r, k>>
      BY <3>0
    <3>2. CASE r = s
      <4>1. k \in 1..scratch[s] \/ k = scratch[s] + 1
        BY <1>2, <3>1, <3>2
      <4>2. CASE k \in 1..scratch[s]
        BY <1>3, <3>1, <3>2, <4>2, Zenon
      <4>3. CASE k = scratch[s] + 1
        BY <3>1, <3>2, <4>3
      <4> QED
        BY <4>1, <4>2, <4>3
    <3>3. CASE r # s
      BY <1>2, <1>3, <3>1, <3>3
    <3> QED
      BY <3>2, <3>3
  <2>2. ASSUME NEW x \in Directories PROVE x \in Directories'
    <3>0. PICK r \in Source : \E k \in 1..scratch[r] : x = <<r, k>>
      BY <1>3, Zenon
    <3>1. PICK k \in 1..scratch[r] : x = <<r, k>>
      BY <3>0
    <3>2. k \in 1..scratch'[r]
      BY <1>2, <3>1
    <3> QED
      BY <1>3, <3>1, <3>2, Zenon
  <2>3. d \in Directories'
    BY <1>2, <1>3
  <2> HIDE DEF d
  <2> QED
    BY <2>1, <2>2, <2>3
<1>5. d \notin Directories
  <2>1. scratch[s] + 1 \notin 1..scratch[s]
    BY <1>1
  <2> QED
    BY <2>1, DirectoriesAre
<1> HIDE DEF d
<1> QED
  BY <1>4, <1>5, FS_AddElement

LEMMA DirectoryRemoved ==
  ASSUME TypeOK, NEW s \in Source, scratch' = [scratch EXCEPT ![s] = @ - 1],
         scratch[s] > 0, IsFiniteSet(Directories)
  PROVE  /\ IsFiniteSet(Directories')
         /\ Cardinality(Directories') = Cardinality(Directories) - 1
<1> DEFINE d == <<s, scratch[s]>>
<1>1. scratch \in [Source -> Nat]
  BY DEF TypeOK
<1>2. \A r \in Source : 1..scratch'[r] =
        IF r = s THEN 1..scratch[r] \ {scratch[r]} ELSE 1..scratch[r]
  <2> TAKE r \in Source
  <2>1. scratch[r] \in Nat
    BY <1>1
  <2>2. CASE r = s
    BY <1>1, <2>1, <2>2
  <2>3. CASE r # s
    BY <1>1, <2>3
  <2> QED
    BY <2>2, <2>3
<1>3. /\ \A x : x \in Directories <=> \E r \in Source : \E k \in 1..scratch[r] : x = <<r, k>>
      /\ \A x : x \in Directories' <=> \E r \in Source : \E k \in 1..scratch'[r] : x = <<r, k>>
  <2>1. ASSUME NEW x, NEW r, NEW T
        PROVE  x \in {r} \X T <=> \E k \in T : x = <<r, k>>
    BY SMT
  <2>2. /\ \A x : x \in Directories <=> \E r \in Source : x \in {r} \X (1..scratch[r])
        /\ \A x : x \in Directories' <=> \E r \in Source : x \in {r} \X (1..scratch'[r])
    BY DEF Directories
  <2>3. /\ \A x, r : x \in {r} \X (1..scratch[r]) <=> \E k \in 1..scratch[r] : x = <<r, k>>
        /\ \A x, r : x \in {r} \X (1..scratch'[r]) <=> \E k \in 1..scratch'[r] : x = <<r, k>>
    BY <2>1
  <2>4. ASSUME NEW x
        PROVE  x \in Directories <=> \E r \in Source : \E k \in 1..scratch[r] : x = <<r, k>>
    BY <2>2, <2>3
  <2>5. ASSUME NEW x
        PROVE  x \in Directories' <=> \E r \in Source : \E k \in 1..scratch'[r] : x = <<r, k>>
    BY <2>2, <2>3
  <2> QED
    BY <2>4, <2>5
<1>4. Directories' = Directories \ {d}
  <2>1. ASSUME NEW x \in Directories' PROVE x \in Directories /\ x # d
    <3>0. PICK r \in Source : \E k \in 1..scratch'[r] : x = <<r, k>>
      BY <1>3, Zenon
    <3>1. PICK k \in 1..scratch'[r] : x = <<r, k>>
      BY <3>0
    <3>2. CASE r = s
      BY <1>2, <1>3, <3>1, <3>2
    <3>3. CASE r # s
      BY <1>2, <1>3, <3>1, <3>3
    <3> QED
      BY <3>2, <3>3
  <2>2. ASSUME NEW x \in Directories, x # d PROVE x \in Directories'
    <3>0. PICK r \in Source : \E k \in 1..scratch[r] : x = <<r, k>>
      BY <1>3, Zenon
    <3>1. PICK k \in 1..scratch[r] : x = <<r, k>>
      BY <3>0
    <3>2. k \in 1..scratch'[r]
      BY <1>2, <3>1, <2>2
    <3> QED
      BY <1>3, <3>1, <3>2, Zenon
  <2> HIDE DEF d
  <2> QED
    BY <2>1, <2>2
<1>5. d \in Directories
  <2>1. scratch[s] \in 1..scratch[s]
    BY <1>1
  <2> QED
    BY <2>1, DirectoriesAre
<1> HIDE DEF d
<1> QED
  BY <1>4, <1>5, FS_RemoveElement

\* What raises removes the directory of the split that is under way.
LEMMA ScratchAfterRaise ==
  ASSUME TypeInv, Scratch, Working, scratch' = ScratchRemoved,
         pc' # "tables", crashes' = crashes
  PROVE  Scratch'
<1>1. /\ TypeOK /\ InHand \in Source /\ crashes \in Nat
      /\ Cardinality(Directories) <= crashes + (IF pc = "tables" THEN 1 ELSE 0)
      /\ IsFiniteSet(Directories) /\ Cardinality(Directories) \in Nat
  BY HandType, BoundsAssumption, FS_CardinalityType
     DEF TypeInv, TypeOK, Working, Scratch, ScratchOnlyFromCrashes
<1>2. CASE pc = "tables"
  <2>1. scratch[InHand] > 0 /\ scratch' = [scratch EXCEPT ![InHand] = @ - 1]
    BY <1>2 DEF TypeInv, Parsing, ScratchRemoved
  <2>2. /\ IsFiniteSet(Directories')
        /\ Cardinality(Directories') = Cardinality(Directories) - 1
    BY <1>1, <2>1, DirectoryRemoved
  <2>3. Cardinality(Directories) - 1 <= crashes
    BY <1>1, <1>2
  <2> QED
    BY <1>1, <2>2, <2>3 DEF Scratch, ScratchOnlyFromCrashes
<1>3. CASE pc # "tables"
  <2>1. Directories' = Directories
    BY <1>3 DEF Directories, ScratchRemoved
  <2> QED
    BY <1>1, <1>3, <2>1 DEF Scratch, ScratchOnlyFromCrashes
<1> QED
  BY <1>2, <1>3

LEMMA InitScratch == Init => Scratch
<1> SUFFICES ASSUME Init PROVE Scratch
  OBVIOUS
<1>1. \A s \in Source : 1..scratch[s] = {}
  BY DEF Init
<1>2. Directories = {}
  BY <1>1, Zenon DEF Directories
<1>3. crashes = 0 /\ pc = "idle"
  BY DEF Init
<1> QED
  BY <1>2, <1>3, FS_EmptySet DEF Scratch, ScratchOnlyFromCrashes

LEMMA NextScratch == TypeInv /\ Scratch /\ [Next]_vars => Scratch'
<1> SUFFICES ASSUME TypeInv, Scratch, [Next]_vars PROVE Scratch'
  OBVIOUS
<1> USE DEF countVars, sourceVars
<1>1. /\ TypeOK /\ crashes \in Nat
      /\ Cardinality(Directories) <= crashes + (IF pc = "tables" THEN 1 ELSE 0)
      /\ IsFiniteSet(Directories) /\ Cardinality(Directories) \in Nat
  BY BoundsAssumption, FS_CardinalityType DEF TypeInv, TypeOK, Scratch, ScratchOnlyFromCrashes
<1>2. CASE SplitFile
  <2>1. InHand \in Source /\ pc # "tables" /\ pc' = "tables" /\ crashes' = crashes
    BY <1>1, <1>2, HandType DEF SplitFile, TypeOK
  <2>2. /\ IsFiniteSet(Directories')
        /\ Cardinality(Directories') = Cardinality(Directories) + 1
    BY <1>1, <1>2, <2>1, DirectoryAdded DEF SplitFile
  <2>3. Cardinality(Directories) + 1 <= crashes + 1
    BY <1>1, <2>1
  <2> QED
    BY <2>1, <2>2, <2>3 DEF Scratch, ScratchOnlyFromCrashes
<1>3. CASE ParseTables
  <2>1. scratch' = ScratchRemoved /\ Working /\ pc' # "tables" /\ crashes' = crashes
    BY <1>3 DEF ParseTables, ScratchRemoved, Working
  <2> QED
    BY <2>1, ScratchAfterRaise
<1>4. CASE Raise \/ EngineMissing
  <2>1. scratch' = ScratchRemoved /\ Working /\ pc' # "tables" /\ crashes' = crashes
    BY <1>4 DEF Raise, EngineMissing, FinishSource, Working
  <2> QED
    BY <2>1, ScratchAfterRaise
<1>5. ASSUME scratch' = scratch
      PROVE  Directories' = Directories
  BY <1>5 DEF Directories
<1>6. CASE Crash
  <2>1. Directories' = Directories /\ crashes' = crashes + 1 /\ pc' = "idle"
    BY <1>5, <1>6 DEF Crash, Forget
  <2>2. Cardinality(Directories) <= crashes + 1
    BY <1>1
  <2> QED
    BY <1>1, <2>1, <2>2 DEF Scratch, ScratchOnlyFromCrashes
<1>7. CASE StartBatch \/ SkipSource \/ TakeSource \/ ParseFile \/ Enrich \/ Open \/ Fill
           \/ SourceBuilt \/ EndBatch \/ Return
           \/ (\E p \in Path : Collect(p)) \/ UNCHANGED vars
  <2>1. scratch' = scratch /\ crashes' = crashes
    BY <1>7 DEF StartBatch, SkipSource, TakeSource, ParseFile, Enrich, Open, Fill,
                SourceBuilt, EndBatch, Return, Collect, vars
  <2>2. pc = "tables" => pc' = "tables"
    BY <1>7 DEF StartBatch, SkipSource, TakeSource, ParseFile, Enrich, Open, Fill,
                SourceBuilt, EndBatch, Return, Collect, vars
  <2>3. Directories' = Directories
    BY <1>5, <2>1
  <2>4. Cardinality(Directories) <= crashes + (IF pc' = "tables" THEN 1 ELSE 0)
    BY <1>1, <2>2
  <2> QED
    BY <1>1, <2>1, <2>3, <2>4 DEF Scratch, ScratchOnlyFromCrashes
<1> QED
  BY <1>2, <1>3, <1>4, <1>6, <1>7 DEF Next, Run

-----------------------------------------------------------------------------
(***************************************************************************)
(* Theorems                                                                *)
(***************************************************************************)
\* The parts of the invariant, in every state of every behaviour.
LEMMA Invariants == Spec => [](BuildInv /\ Scratch)
<1>1. Init => BuildInv /\ Scratch
  BY InitInv, InitScratch
<1>2. BuildInv /\ Scratch /\ [Next]_vars => BuildInv' /\ Scratch'
  BY NextWrites, NextBuilt, NextScratch DEF BuildInv, WriteInv
<1> QED
  BY <1>1, <1>2, PTL DEF Spec

\* The variables of the batch keep their types, and a batch at work has a
\* source in hand (pipeline.py run_batch).
THEOREM TypeCorrect == Spec => []TypeOK
<1>1. BuildInv => TypeOK
  BY DEF BuildInv, WriteInv, TypeInv
<1> QED
  BY <1>1, Invariants, PTL

\* No failing source stops the rest: reported and left are the discovered
\* sources, each once and in their order (pipeline.py run_batch).
THEOREM SourcesInTurn == Spec => []EachSourceInItsTurn
<1>1. BuildInv => EachSourceInItsTurn
  <2> SUFFICES ASSUME BuildInv, pc # "idle"
               PROVE  Names(results) \o Names(queue) = Names(Discovered(Walked))
    BY DEF EachSourceInItsTurn
  <2> DEFINE W == Discovered(Walked)
             R == [name : Source, status : {"built", "skipped", "error"}, from : Evidence]
             D == [name : Source, path : Path]
  <2>1. results \in Seq(R) /\ queue \in Seq(D) /\ W \in Seq(D)
    BY DiscoveredFacts DEF BuildInv, WriteInv, TypeInv, TypeOK
  <2>2. /\ Len(results) + Len(queue) = Len(W)
        /\ \A k \in 1..Len(results) : results[k].name = W[k].name
        /\ \A k \in 1..Len(queue) : queue[k] = W[Len(results) + k]
    BY DEF BuildInv, WriteInv, TypeInv, Turns
  <2>3. ASSUME NEW E, NEW s \in Seq(E), \A e \in E : e.name \in Source
        PROVE  Names(s) \in Seq(Source) /\ Len(Names(s)) = Len(s)
    <3>1. \A k \in 1..Len(s) : s[k].name \in Source
      BY <2>3
    <3> QED
      BY <2>3, <3>1 DEF Names
  <2>4. /\ Names(results) \in Seq(Source) /\ Len(Names(results)) = Len(results)
        /\ Names(queue) \in Seq(Source) /\ Len(Names(queue)) = Len(queue)
        /\ Names(W) \in Seq(Source) /\ Len(Names(W)) = Len(W)
    <3>1. (\A e \in R : e.name \in Source) /\ (\A e \in D : e.name \in Source)
      OBVIOUS
    <3> HIDE DEF R, D, W
    <3> QED
      BY <2>1, <2>3, <3>1
  <2> HIDE DEF R, D, W
  <2>5. Len(results) \in Nat /\ Len(queue) \in Nat
    BY <2>1
  <2>6. ASSUME NEW k \in 1..Len(W)
        PROVE  (Names(results) \o Names(queue))[k] = Names(W)[k]
    <3>1. CASE k \in 1..Len(results)
      <4>1. (Names(results) \o Names(queue))[k] = Names(results)[k]
        BY <2>4, <3>1
      <4> QED
        BY <2>2, <2>6, <3>1, <4>1 DEF Names
    <3>2. CASE k \notin 1..Len(results)
      <4>1. k - Len(results) \in 1..Len(queue)
        BY <2>2, <2>5, <3>2
      <4>2. (Names(results) \o Names(queue))[k] = Names(queue)[k - Len(results)]
        BY <2>2, <2>4, <2>5, <3>2
      <4>3. queue[k - Len(results)] = W[Len(results) + (k - Len(results))]
        BY <2>2, <4>1
      <4>4. Len(results) + (k - Len(results)) = k
        BY <2>5
      <4> QED
        BY <2>6, <4>1, <4>2, <4>3, <4>4 DEF Names
    <3> QED
      BY <3>1, <3>2
  <2>7. /\ Names(results) \o Names(queue) \in Seq(Source)
        /\ Len(Names(results) \o Names(queue)) = Len(Names(W))
    <3> DEFINE nr == Names(results)
               nq == Names(queue)
    <3>1. nr \in Seq(Source) /\ nq \in Seq(Source)
          /\ Len(nr) = Len(results) /\ Len(nq) = Len(queue)
      BY <2>4
    <3> HIDE DEF nr, nq
    <3>2. nr \o nq \in Seq(Source) /\ Len(nr \o nq) = Len(nr) + Len(nq)
      BY <3>1
    <3> QED
      BY <2>2, <2>4, <3>1, <3>2, Zenon DEF nr, nq
  <2> DEFINE both == Names(results) \o Names(queue)
             nw == Names(W)
  <2>8. /\ both \in Seq(Source) /\ nw \in Seq(Source) /\ Len(both) = Len(nw)
        /\ \A k \in 1..Len(both) : both[k] = nw[k]
    BY <2>4, <2>6, <2>7, Zenon
  <2> HIDE DEF both, nw
  <2>9. both = nw
    BY <2>8, SeqEqual
  <2> QED
    BY <2>9 DEF both, nw, W
<1> QED
  BY <1>1, Invariants, PTL

\* No tree is built from two sources of one batch (pipeline.py
\* discover_sources).
THEOREM NamesAreUnique == Spec => []OneNameOneSource
<1>1. BuildInv => OneNameOneSource
  <2> SUFFICES ASSUME BuildInv PROVE OneNameOneSource
    OBVIOUS
  <2> DEFINE R == [name : Source, status : {"built", "skipped", "error"}, from : Evidence]
  <2>1. TypeInv /\ (pc = "idle" => results = <<>>)
    BY DEF BuildInv, WriteInv, TypeInv, Turns
  <2>2. DOMAIN results = 1..Len(results)
    <3>1. results \in Seq(R)
      BY <2>1 DEF TypeInv, TypeOK
    <3> HIDE DEF R
    <3> QED
      BY <3>1
  <2>3. CASE pc = "idle"
    BY <2>1, <2>3 DEF OneNameOneSource
  <2>4. CASE pc # "idle"
    BY <2>1, <2>2, <2>4, NamesDiffer DEF OneNameOneSource
  <2> QED
    BY <2>3, <2>4
<1> QED
  BY <1>1, Invariants, PTL

\* What a running batch reports as built is the whole tree it was asked for
\* (pipeline.py process_file, run_batch).
THEOREM BuiltTreesAreComplete == Spec => []BuiltIsComplete
<1>1. BuildInv => BuiltIsComplete
  BY DEF BuildInv
<1> QED
  BY <1>1, Invariants, PTL

\* Only a kill leaves a temporary directory behind (pipeline.py process_file,
\* the finally clause).
THEOREM ScratchIsCleared == Spec => []ScratchOnlyFromCrashes
<1>1. Scratch => ScratchOnlyFromCrashes
  BY DEF Scratch
<1> QED
  BY <1>1, Invariants, PTL

\* A marker never appears before the object files it stands for are complete
\* (pipeline.py process_file, superset.build_from_events).
THEOREM MarkersComeLast == Spec => MarkerComesLast
<1>1. ASSUME BuildInv, [Next]_vars
      PROVE  [\A s \in Source : ~IsMarked(disk[s]) /\ IsMarked(disk'[s]) =>
                s = InHand /\ ObjectsComplete(disk[s], Input)]_vars
  <2> SUFFICES ASSUME Next, NEW s \in Source, ~IsMarked(disk[s]), IsMarked(disk'[s])
               PROVE  s = InHand /\ ObjectsComplete(disk[s], Input)
    BY <1>1
  <2>1. TypeInv /\ WriteInv /\ Writing /\ TypeOK
    BY <1>1 DEF BuildInv, WriteInv, TypeInv
  <2>2. disk' # disk
    OBVIOUS
  <2>3. Open \/ Fill
    BY <2>2 DEF Next, Run, StartBatch, SkipSource, TakeSource, ParseFile, SplitFile,
                ParseTables, Enrich, SourceBuilt, Raise, EngineMissing, EndBatch, Return,
                Crash, Collect
  <2>4. /\ InHand \in Source /\ disk \in [Source -> [File -> {Absent, Torn} \cup Contents]]
        /\ pc \in {"open", "fill"} /\ plan # <<>>
    BY <2>1, <2>3, HandType DEF Open, Fill, TypeOK, TypeInv, Parsing
  <2>5. s = InHand
    BY <2>3, <2>4 DEF Open, Fill
  <2>6. Head(plan).file = "relationships"
    BY <2>3, <2>4, <2>5 DEF Open, Fill, IsMarked, File, Derivatives
  <2>7. CASE Open
    <3>1. Head(plan) = Planned[Closed + 1] /\ Closed + 1 \in 1..Len(Planned) /\ Closed \in Nat
      BY <2>1, <2>4, LeftToWrite
    <3>2. Closed + 1 > Len(InOrder(events)) + 1 /\ Len(InOrder(events)) \in Nat
      BY <2>1, <2>6, <3>1, PlannedFacts
    <3>3. Closed >= Len(InOrder(events))
      BY <3>1, <3>2
    <3> QED
      BY <2>1, <2>4, <2>5, <3>3, ObjectsWritten
  <2>8. CASE Fill
    <3>1. disk[InHand]["relationships"] = Torn
      BY <2>1, <2>6, <2>8 DEF Fill, Writing
    <3> QED
      BY <2>5, <3>1, Marks DEF IsMarked
  <2> QED
    BY <2>3, <2>7, <2>8
<1> QED
  BY <1>1, Invariants, PTL DEF Spec, MarkerComesLast

\* Without force no step changes an object file of a source that is marked
\* (pipeline.py run_batch, the idempotency skip).
THEOREM MarkedObjectsStay == Spec => MarkedObjectsKept
<1>1. ASSUME BuildInv, [Next]_vars
      PROVE  [~opt.force => \A s \in Source, o \in Object :
                IsMarked(disk[s]) => disk'[s][o] = disk[s][o]]_vars
  <2> SUFFICES ASSUME Next, ~opt.force, NEW s \in Source, NEW o \in Object, IsMarked(disk[s]),
                      disk'[s][o] # disk[s][o]
               PROVE  FALSE
    BY <1>1
  <2>1. TypeInv /\ WriteInv /\ Writing /\ TypeOK /\ Unmarked
    BY <1>1 DEF BuildInv, WriteInv, TypeInv
  <2>2. disk' # disk
    OBVIOUS
  <2>3. Open \/ Fill
    BY <2>2 DEF Next, Run, StartBatch, SkipSource, TakeSource, ParseFile, SplitFile,
                ParseTables, Enrich, SourceBuilt, Raise, EngineMissing, EndBatch, Return,
                Crash, Collect
  <2>4. /\ InHand \in Source /\ disk \in [Source -> [File -> {Absent, Torn} \cup Contents]]
        /\ pc \in {"open", "fill"} /\ plan # <<>>
    BY <2>1, <2>3, HandType DEF Open, Fill, TypeOK, TypeInv, Parsing
  <2>5. s = InHand /\ Head(plan).file = o
    BY <2>3, <2>4 DEF Open, Fill, File
  <2>6. Opened > Len(InOrder(events))
    BY <2>1, <2>4, <2>5 DEF Unmarked, Working
  <2>7. /\ Closed \in Nat /\ Closed + 1 \in 1..Len(Planned) /\ Head(plan) = Planned[Closed + 1]
        /\ Len(InOrder(events)) \in Nat
        /\ \A k \in (Len(InOrder(events)) + 1)..Len(Planned) : Planned[k].file \notin Object
    BY <2>1, <2>4, LeftToWrite, PlannedFacts
  <2>8. Closed + 1 \in (Len(InOrder(events)) + 1)..Len(Planned)
    BY <2>4, <2>6, <2>7 DEF Opened
  <2> QED
    BY <2>5, <2>7, <2>8
<1> QED
  BY <1>1, Invariants, PTL DEF Spec, MarkedObjectsKept
=============================================================================
