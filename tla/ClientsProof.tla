----------------------------- MODULE ClientsProof -----------------------------
(***************************************************************************)
(* What Clients promises of the setup, the pull and the verbs, for every        *)
(* number of loaders, templates, spaces, indicators and pages.                     *)
(***************************************************************************)
EXTENDS Clients, FiniteSetTheorems, SequenceTheorems, WellFoundedInduction, TLAPS

(***************************************************************************)
(* The setup                                                               *)
(***************************************************************************)
SetupType ==
  /\ stored \in [Items -> {"missing", "other", "rendered"}]
  /\ setup \in [Loaders -> [at : Nat \ {0}, phase : {"get", "put", "post", "import"},
                            ok : BOOLEAN]]
  /\ touched \in [Loaders -> SUBSET Items]

\* The item is what the tree says, unless the operator came after the loader.
Holds(l, i) == i \in touched[l] \/ stored[i] = "rendered"

\* The step is done: the item, and the saved objects of a space.
Handled(l, item) ==
  /\ Holds(l, item)
  /\ IsSpace(item) => SavedObjects[item] = "" \/ Holds(l, SavedObjects[item])

\* As long as nothing has failed, all the steps the loader has gone past are done, and
\* objects are imported into a space that it has seen or made.
Progress(l) ==
  setup[l].ok =>
    /\ \A k \in DOMAIN Steps : k < setup[l].at => Handled(l, Steps[k])
    /\ setup[l].phase = "import" => Holds(l, Item(l))

\* A loader that imports has a space with saved objects in hand.
Importing(l) == setup[l].phase = "import" => ~Done(l) /\ SavedObjects[Item(l)] # ""

SetupInv == SetupType /\ \A l \in Loaders : Progress(l) /\ Importing(l)

LEMMA StepsType == Steps \in Seq(STRING) /\ DOMAIN Steps = 1..Len(Steps)
BY SetupAssumption DEF Steps

LEMMA ItemInHand ==
  ASSUME SetupType, NEW l \in Loaders, ~Done(l)
  PROVE  /\ setup[l].at \in DOMAIN Steps /\ Item(l) \in Items
         /\ IsSpace(Item(l)) => SavedObjects[Item(l)] = "" \/ SavedObjects[Item(l)] \in Items
<1>1. setup[l].at \in DOMAIN Steps
  BY StepsType DEF SetupType, Done
<1>2. Item(l) \in Items
  BY <1>1 DEF Item, Items
<1>3. IsSpace(Item(l)) => SavedObjects[Item(l)] \in {SavedObjects[s] : s \in DOMAIN SavedObjects}
  BY SetupAssumption DEF IsSpace
<1> QED
  BY <1>1, <1>2, <1>3 DEF Items

\* When the loader is done, every item has had its step.
LEMMA EveryItemHasAStep ==
  ASSUME NEW l \in Loaders, SetupType, Progress(l), Done(l), setup[l].ok, NEW i \in Items
  PROVE  Holds(l, i)
<1>1. \A k \in DOMAIN Steps : Handled(l, Steps[k])
  BY StepsType DEF Progress, Done, SetupType
<1>2. CASE i \in {Steps[k] : k \in DOMAIN Steps}
  BY <1>1, <1>2 DEF Handled
<1>3. CASE i \in {SavedObjects[s] : s \in DOMAIN SavedObjects} /\ i # ""
  <2>1. PICK k \in DOMAIN Spaces : i = SavedObjects[Spaces[k]]
    BY <1>3, SetupAssumption
  <2>2. IsSpace(Spaces[k])
    BY DEF IsSpace
  <2>3. Len(Templates) + k \in DOMAIN Steps /\ Steps[Len(Templates) + k] = Spaces[k]
    BY <2>1, SetupAssumption DEF Steps
  <2> QED
    BY <1>1, <1>3, <2>1, <2>2, <2>3 DEF Handled
<1> QED
  BY <1>2, <1>3 DEF Items

\* What is as the tree says stays so for a loader, but for what the operator touches.
HoldingStays == \A l \in Loaders : \A i \in Items : Holds(l, i) => Holds(l, i)'

LEMMA SettledHolds ==
  ASSUME SetupType, NEW l \in Loaders, NEW item \in Items,
         Settled(l, item), stored' = stored, stored[item] = "rendered"
  PROVE  HoldingStays /\ Holds(l, item)'
BY DEF SetupType, Settled, HoldingStays, Holds

LEMMA RenderHolds ==
  ASSUME SetupType, NEW l \in Loaders, NEW item \in Items, Render(l, item)
  PROVE  HoldingStays /\ Holds(l, item)'
BY DEF SetupType, Render, Settled, HoldingStays, Holds

LEMMA EditHolds ==
  ASSUME SetupType, NEW item \in Items, NEW v \in {"missing", "other"}, Edit(item, v)
  PROVE  HoldingStays
BY DEF SetupType, Edit, HoldingStays, Holds

LEMMA HandledStays ==
  ASSUME HoldingStays, NEW l \in Loaders, NEW k \in DOMAIN Steps, Handled(l, Steps[k])
  PROVE  Handled(l, Steps[k])'
<1>1. Steps[k] \in Items
  BY DEF Items
<1>2. IsSpace(Steps[k]) => SavedObjects[Steps[k]] = "" \/ SavedObjects[Steps[k]] \in Items
  BY SetupAssumption DEF IsSpace, Items
<1> QED
  BY <1>1, <1>2 DEF Handled, HoldingStays

\* A loader that does not move keeps its progress.
LEMMA RestingProgress ==
  ASSUME SetupType, HoldingStays, NEW l \in Loaders, Progress(l), Importing(l),
         setup'[l] = setup[l]
  PROVE  Progress(l)' /\ Importing(l)'
<1>1. Item(l)' = Item(l) /\ Done(l)' = Done(l)
  BY DEF Item, Done
<1>2. setup[l].phase = "import" => Item(l) \in Items
  BY ItemInHand DEF Importing
<1> QED
  BY <1>1, <1>2, HandledStays DEF Progress, Importing, HoldingStays

\* A loader goes on to the next step when this one is done, or has failed.
LEMMA NextStepProgress ==
  ASSUME SetupType, HoldingStays, NEW l \in Loaders, Progress(l),
         NEW ok \in BOOLEAN, NextStep(l, ok), NEW item, item = Item(l),
         ok /\ setup[l].ok => Handled(l, item)'
  PROVE  Progress(l)' /\ Importing(l)'
<1>1. /\ setup' = [setup EXCEPT ![l] = [at |-> setup[l].at + 1, phase |-> "get",
                                        ok |-> setup[l].ok /\ ok]]
      /\ setup[l].at \in Nat \ {0} /\ setup[l].ok \in BOOLEAN
  BY DEF NextStep, SetupType
<1>2. /\ setup'[l].at = setup[l].at + 1 /\ setup'[l].phase = "get"
      /\ setup'[l].ok = (setup[l].ok /\ ok)
  BY <1>1 DEF SetupType
<1>3. ASSUME setup'[l].ok, NEW k \in DOMAIN Steps, k < setup'[l].at
      PROVE  Handled(l, Steps[k])'
  <2>1. CASE k < setup[l].at
    BY <1>2, <1>3, <2>1, HandledStays DEF Progress
  <2>2. CASE k = setup[l].at
    BY <1>2, <1>3, <2>2 DEF Item
  <2> QED
    BY <1>1, <1>2, <1>3, <2>1, <2>2, StepsType
<1> QED
  BY <1>2, <1>3 DEF Progress, Importing

\* The next request of the same step; objects are imported when the space is settled.
LEMMA PhaseProgress ==
  ASSUME SetupType, HoldingStays, NEW l \in Loaders, Progress(l), ~Done(l),
         NEW phase, Phase(l, phase), NEW item, item = Item(l),
         phase = "import" => Holds(l, item)' /\ SavedObjects[item] # ""
  PROVE  Progress(l)' /\ Importing(l)'
<1>1. setup'[l].at = setup[l].at /\ setup'[l].phase = phase /\ setup'[l].ok = setup[l].ok
  BY DEF Phase, SetupType
<1>2. Item(l)' = item /\ Done(l)' = Done(l)
  BY <1>1 DEF Item, Done
<1> QED
  BY <1>1, <1>2, HandledStays DEF Progress, Importing

LEMMA NextStepType ==
  ASSUME SetupType, NEW l \in Loaders, NEW ok \in BOOLEAN, NextStep(l, ok)
  PROVE  /\ setup' \in [Loaders -> [at : Nat \ {0}, phase : {"get", "put", "post", "import"},
                                    ok : BOOLEAN]]
         /\ \A m \in Loaders \ {l} : setup'[m] = setup[m]
<1>1. [at |-> setup[l].at + 1, phase |-> "get", ok |-> setup[l].ok /\ ok] \in
        [at : Nat \ {0}, phase : {"get", "put", "post", "import"}, ok : BOOLEAN]
  BY DEF SetupType
<1> QED
  BY <1>1 DEF SetupType, NextStep

LEMMA PhaseType ==
  ASSUME SetupType, NEW l \in Loaders, NEW phase \in {"put", "post", "import"}, Phase(l, phase)
  PROVE  /\ setup' \in [Loaders -> [at : Nat \ {0}, phase : {"get", "put", "post", "import"},
                                    ok : BOOLEAN]]
         /\ \A m \in Loaders \ {l} : setup'[m] = setup[m]
BY DEF SetupType, Phase

\* What a loader does with its step: it renders something, or sees it rendered, or leaves
\* everything as it is; and it goes on to the next step or to the next request of this one.
Effect(l, item) ==
  \/ Render(l, item)
  \/ Settled(l, item) /\ stored[item] = "rendered" /\ stored' = stored

LEMMA EffectHolds ==
  ASSUME SetupType, NEW l \in Loaders, NEW item \in Items, Effect(l, item)
  PROVE  HoldingStays /\ Holds(l, item)'
BY SettledHolds, RenderHolds DEF Effect

LEMMA EffectType ==
  ASSUME SetupType, NEW l \in Loaders,
         UNCHANGED <<stored, touched>> \/ \E item \in Items : Effect(l, item)
  PROVE  /\ stored' \in [Items -> {"missing", "other", "rendered"}]
         /\ touched' \in [Loaders -> SUBSET Items]
BY DEF SetupType, Effect, Render, Settled

LEMMA QuietHolds ==
  ASSUME UNCHANGED <<stored, touched>>
  PROVE  HoldingStays
BY DEF HoldingStays, Holds

\* Every request of a loader.
LEMMA RequestProgress ==
  ASSUME SetupInv, NEW l \in Loaders,
         \/ GetTemplate(l) \/ PutTemplate(l) \/ GetSpace(l) \/ PostSpace(l) \/ PutSpace(l)
         \/ Import(l) \/ RequestFails(l)
  PROVE  SetupInv'
<1>0. PICK item : item = Item(l)
  OBVIOUS
<1> DEFINE objects == SavedObjects[item]
<1>1. /\ SetupType /\ Progress(l) /\ Importing(l) /\ ~Done(l) /\ item \in Items
      /\ IsSpace(item) => objects = "" \/ objects \in Items
  <2>1. ~Done(l)
    BY DEF GetTemplate, PutTemplate, GetSpace, PostSpace, PutSpace, Import, RequestFails
  <2> QED
    BY <1>0, <2>1, ItemInHand DEF SetupInv
<1> HIDE DEF objects
<1>2. /\ SetupType' /\ HoldingStays /\ Progress(l)' /\ Importing(l)'
      /\ \A m \in Loaders \ {l} : setup'[m] = setup[m]
  <2>1. CASE Refused(l)
    <3>1. NextStep(l, FALSE) /\ UNCHANGED <<stored, touched>>
      BY <2>1 DEF Refused
    <3>2. HoldingStays
      BY <3>1, QuietHolds
    <3>3. Progress(l)' /\ Importing(l)'
      BY <1>1, <3>1, <3>2, NextStepProgress
    <3> QED
      BY <1>1, <3>1, <3>2, <3>3, NextStepType, EffectType DEF SetupType
  <2>2. CASE NextStep(l, TRUE) /\ Effect(l, item) /\ (IsSpace(item) => objects = "")
    <3>1. HoldingStays /\ Holds(l, item)'
      BY <1>1, <2>2, EffectHolds
    <3>2. Handled(l, item)'
      BY <2>2, <3>1 DEF Handled, objects
    <3>3. Progress(l)' /\ Importing(l)'
      BY <1>0, <1>1, <2>2, <3>1, <3>2, NextStepProgress
    <3> QED
      BY <1>1, <2>2, <3>1, <3>3, NextStepType, EffectType DEF SetupType
  <2>3. CASE NextStep(l, TRUE) /\ Effect(l, objects) /\ setup[l].phase = "import" /\ IsSpace(item)
             /\ objects # ""
    <3>1. HoldingStays /\ Holds(l, objects)'
      BY <1>1, <2>3, EffectHolds
    <3>2. setup[l].ok => Handled(l, item)'
      BY <1>0, <1>1, <2>3, <3>1 DEF Handled, objects, Progress, HoldingStays
    <3>3. Progress(l)' /\ Importing(l)'
      BY <1>0, <1>1, <2>3, <3>1, <3>2, NextStepProgress
    <3> QED
      BY <1>1, <2>3, <3>1, <3>3, NextStepType, EffectType DEF SetupType
  <2>4. CASE /\ UNCHANGED <<stored, touched>>
             /\ Phase(l, "put") \/ Phase(l, "post")
    <3>1. HoldingStays
      BY <2>4, QuietHolds
    <3>2. Progress(l)' /\ Importing(l)'
      <4>1. ASSUME NEW phase \in {"put", "post"}, Phase(l, phase)
            PROVE  Progress(l)' /\ Importing(l)'
        BY <1>0, <1>1, <3>1, <4>1, PhaseProgress
      <4> QED
        BY <2>4, <4>1
    <3> QED
      BY <1>1, <2>4, <3>1, <3>2, PhaseType, EffectType DEF SetupType
  <2>5. CASE Phase(l, "import") /\ Effect(l, item) /\ objects # ""
    <3>1. HoldingStays /\ Holds(l, item)'
      BY <1>1, <2>5, EffectHolds
    <3>2. Progress(l)' /\ Importing(l)'
      BY <1>0, <1>1, <2>5, <3>1, PhaseProgress DEF objects
    <3> QED
      BY <1>1, <2>5, <3>1, <3>2, PhaseType, EffectType DEF SetupType
  <2>6. CASE GetTemplate(l)
    BY <2>2, <2>4, <2>6, <1>0 DEF GetTemplate, Effect
  <2>7. CASE PutTemplate(l)
    BY <2>1, <2>2, <2>7, <1>0 DEF PutTemplate, Effect
  <2>8. CASE GetSpace(l)
    <3>1. stored[item] \in {"missing", "other", "rendered"}
      BY <1>1 DEF SetupType
    <3> QED
      BY <2>2, <2>4, <2>5, <2>8, <3>1, <1>0 DEF GetSpace, AfterSpace, Effect, objects
  <2>9. CASE PostSpace(l) \/ PutSpace(l)
    BY <2>1, <2>2, <2>5, <2>9, <1>0 DEF PostSpace, PutSpace, AfterSpace, Effect, objects
  <2>10. CASE Import(l)
    BY <1>0, <1>1, <2>1, <2>3, <2>10 DEF Import, Importing, Effect, objects
  <2> QED
    BY <2>1, <2>6, <2>7, <2>8, <2>9, <2>10, <1>0 DEF RequestFails
<1>3. ASSUME NEW m \in Loaders, m # l PROVE Progress(m)' /\ Importing(m)'
  BY <1>2, <1>3, RestingProgress DEF SetupInv
<1> QED
  BY <1>2, <1>3 DEF SetupInv

LEMMA EditProgress ==
  ASSUME SetupInv, NEW item \in Items, NEW v \in {"missing", "other"}, Edit(item, v)
  PROVE  SetupInv'
<1>1. SetupType /\ SetupType' /\ HoldingStays /\ setup' = setup
  <2>1. {item} \cup (IF IsSpace(item) /\ v = "missing" THEN {SavedObjects[item]} \ {""} ELSE {})
          \subseteq Items
    BY SetupAssumption DEF IsSpace, Items
  <2> QED
    BY <2>1, EditHolds DEF SetupInv, SetupType, Edit
<1> QED
  BY <1>1, RestingProgress DEF SetupInv

LEMMA SetupStep ==
  ASSUME SetupInv, SetupNext \/ UNCHANGED setupVars
  PROVE  SetupInv'
<1>1. CASE UNCHANGED setupVars
  BY <1>1 DEF setupVars, SetupInv, SetupType, Progress, Importing, Done, Item, Handled, Holds
<1> QED
  BY <1>1, RequestProgress, EditProgress DEF SetupNext

\* A setup that ends well leaves every template, space and saved object as the tree says,
\* but for what the operator touched after it was seen or put (load.py run_setup,
\* run_kibana_setup).
THEOREM SetupIsRendered == Spec => []SetupOkMeansRendered
<1>1. Init => SetupInv
  <2>1. SetupInit => SetupType
    BY DEF SetupInit, SetupType
  <2>2. ASSUME SetupInit, NEW l \in Loaders PROVE Progress(l) /\ Importing(l)
    <3>1. setup[l].at = 1 /\ setup[l].phase = "get"
      BY <2>2 DEF SetupInit
    <3>2. \A k \in DOMAIN Steps : ~(k < 1)
      BY StepsType
    <3> QED
      BY <3>1, <3>2 DEF Progress, Importing
  <2> QED
    BY <2>1, <2>2 DEF Init, SetupInv
<1>2. SetupInv /\ [Next]_vars => SetupInv'
  BY SetupStep DEF Next, vars
<1>3. SetupInv => SetupOkMeansRendered
  BY EveryItemHasAStep DEF SetupInv, SetupOkMeansRendered, Holds
<1> QED
  BY <1>1, <1>2, <1>3, PTL DEF Spec

-----------------------------------------------------------------------------
(***************************************************************************)
(* The pull                                                                *)
(***************************************************************************)
\* What is pulled is of indicators that are newer than the watermark, as they were at some
\* time up to the cursor; and no newer than they are, but for those that were overtaken.
CtiType ==
  /\ since \in 0..MaxModified
  /\ pull.after \in (0..MaxModified) \X Nat
  /\ DOMAIN platform = Indicators
  /\ \A i \in Indicators : platform[i].modified \in 1..MaxModified
  /\ DOMAIN pull = {"pc", "after", "pages", "objects"}
  /\ \A i \in DOMAIN pull.objects :
       /\ i \in Indicators
       /\ pull.objects[i].modified \in (since + 1)..pull.after[1]
       /\ i \in overtaken \/ pull.objects[i].modified <= platform[i].modified

\* The copy has what is not newer than the watermark and was not overtaken.
Copied ==
  \A i \in Indicators \ overtaken :
    /\ platform[i].modified <= since
    /\ HasIndicator(platform[i])
    /\ SkipReason(platform[i]) = ""
    => i \in DOMAIN copy /\ copy[i] = ToCtiDoc(platform[i])

\* The pull has what is newer than the watermark and not behind its cursor, and was not
\* overtaken.
Pulled ==
  \A i \in Indicators \ overtaken :
    since < platform[i].modified /\ ~Before(pull.after, Place(i)) /\ HasIndicator(platform[i]) =>
      i \in DOMAIN pull.objects /\ pull.objects[i] = platform[i]

CtiInv == CtiType /\ Copied /\ Pulled

\* Times up to a bound have a newest.
LEMMA NewestTime ==
  ASSUME NEW n \in Nat, NEW S \in SUBSET (0..n), S # {}
  PROVE  Max(S) \in S /\ \A t \in S : t <= Max(S)
<1> DEFINE Bounds == {b \in Nat : \A t \in S : t <= b}
<1>1. PICK b \in Bounds : \A c \in Bounds : b <= c
  <2>1. n \in Bounds /\ Bounds \subseteq Nat
    OBVIOUS
  <2> HIDE DEF Bounds
  <2>2. PICK b \in Bounds : \A c \in Bounds : ~(<<c, b>> \in OpToRel(<, Nat))
    BY <2>1, NatLessThanWellFounded, WFMin
  <2>3. \A c \in Bounds : ~(c < b)
    BY <2>1, <2>2 DEF OpToRel
  <2> QED
    BY <2>1, <2>3
<1>2. b \in S
  <2> SUFFICES ASSUME b \notin S PROVE FALSE
    OBVIOUS
  <2>1. PICK t \in S : TRUE
    OBVIOUS
  <2>2. b - 1 \in Bounds
    <3>1. \A u \in S : u \in Nat /\ u <= b /\ u # b
      BY <1>1
    <3>2. b \in Nat
      BY <1>1
    <3> QED
      BY <2>1, <3>1, <3>2
  <2> QED
    BY <1>1, <2>2
<1>3. \A t \in S : t <= b
  BY <1>1
<1>4. \E x \in S : \A y \in S : x >= y
  BY <1>2, <1>3
<1> QED
  BY <1>4 DEF Max

\* Places are in a total order.
LEMMA BeforeIsOrder ==
  ASSUME NEW p \in Nat \X Nat, NEW q \in Nat \X Nat, NEW r \in Nat \X Nat
  PROVE  /\ ~Before(p, p)
         /\ Before(p, q) /\ Before(q, r) => Before(p, r)
         /\ ~Before(p, q) /\ ~Before(q, r) => ~Before(p, r)
BY DEF Before

LEMMA PlaceType ==
  ASSUME CtiType, NEW i \in Indicators
  PROVE  Place(i) \in Nat \X Nat /\ Place(i)[1] = platform[i].modified
<1>1. platform[i].modified \in Nat /\ i \in Nat
  BY CtiAssumption DEF CtiType
<1> QED
  BY <1>1 DEF Place

\* A page has all that comes no later than anything in it.
LEMMA PageIsFirst ==
  ASSUME CtiType, NEW some \in SUBSET Indicators,
         NEW i \in FirstModified(PullPageSize, some), NEW j \in some,
         ~Before(Place(i), Place(j))
  PROVE  j \in FirstModified(PullPageSize, some)
<1> DEFINE older(k) == {h \in some : Before(Place(h), Place(k))}
<1>1. i \in some /\ Cardinality(older(i)) < PullPageSize
  BY DEF FirstModified
<1>2. IsFiniteSet(older(i)) /\ older(j) \subseteq older(i)
  <2>1. IsFiniteSet(older(i))
    BY CtiAssumption, FS_Subset
  <2>2. ASSUME NEW h \in some, Before(Place(h), Place(j)) PROVE Before(Place(h), Place(i))
    BY <1>1, <2>2, PlaceType, BeforeIsOrder
  <2> QED
    BY <2>1, <2>2
<1>3. /\ Cardinality(older(j)) <= Cardinality(older(i))
      /\ Cardinality(older(j)) \in Nat /\ Cardinality(older(i)) \in Nat
  BY <1>2, FS_Subset, FS_CardinalityType
<1> QED
  BY <1>1, <1>3, CtiAssumption DEF FirstModified

\* The cursor after a page is the place of one of it, and no other comes later.
LEMMA EndCursorIsLast ==
  ASSUME CtiType, NEW some \in SUBSET Indicators, some # {}
  PROVE  \E i \in some : EndCursor(some) = Place(i) /\ \A j \in some : ~Before(Place(i), Place(j))
<1> DEFINE older(k) == {h \in some : Before(Place(h), Place(k))}
           counts == {Cardinality(older(k)) : k \in some}
<1>1. IsFiniteSet(some) /\ Cardinality(some) \in Nat
  BY CtiAssumption, FS_Subset, FS_CardinalityType
<1>2. ASSUME NEW k \in some
      PROVE  IsFiniteSet(older(k)) /\ Cardinality(older(k)) \in 0..Cardinality(some)
  <2>1. older(k) \in SUBSET some
    OBVIOUS
  <2>2. IsFiniteSet(older(k)) /\ Cardinality(older(k)) <= Cardinality(some)
    BY <1>1, <2>1, FS_Subset
  <2> QED
    BY <1>1, <2>2, FS_CardinalityType
<1>3. counts \in SUBSET (0..Cardinality(some)) /\ counts # {}
  BY <1>2
<1>4. Max(counts) \in counts /\ \A c \in counts : c <= Max(counts)
  BY <1>1, <1>3, NewestTime
<1>5. PICK i \in some : Cardinality(older(i)) = Max(counts)
  BY <1>4
<1>6. ASSUME NEW j \in some, Before(Place(i), Place(j)) PROVE FALSE
  <2>1. i \notin older(i)
    BY PlaceType, BeforeIsOrder
  <2>2. older(i) \cup {i} \in SUBSET older(j)
    <3>1. ASSUME NEW h \in some, Before(Place(h), Place(i)) PROVE Before(Place(h), Place(j))
      BY <1>6, <3>1, PlaceType, BeforeIsOrder
    <3> QED
      BY <1>6, <3>1
  <2>3. Cardinality(older(i) \cup {i}) = Cardinality(older(i)) + 1
    BY <1>2, <2>1, FS_AddElement
  <2>4. Cardinality(older(i) \cup {i}) <= Cardinality(older(j))
    BY <1>2, <2>2, FS_Subset
  <2>5. Cardinality(older(j)) <= Cardinality(older(i))
    BY <1>4, <1>5
  <2>6. Cardinality(older(i)) \in Nat /\ Cardinality(older(j)) \in Nat
    BY <1>1, <1>2
  <2> QED
    BY <2>3, <2>4, <2>5, <2>6
<1> DEFINE places == {Place(k) : k \in some}
<1>7. \E p \in places : \A j \in some : ~Before(p, Place(j))
  BY <1>6
<1>8. EndCursor(some) \in places /\ \A j \in some : ~Before(EndCursor(some), Place(j))
  BY <1>7 DEF EndCursor
<1> QED
  BY <1>8

LEMMA Modified1 ==
  ASSUME NEW m, NEW node
  PROVE  Over([modified |-> m], node).modified = m
BY DEF Over

\* Nothing comes before the first cursor.
LEMMA IdleType == Idle.after \in (0..MaxModified) \X Nat /\ Idle.after[1] = 0 /\ Idle.after[2] = 0
BY CtiAssumption DEF Idle

LEMMA CtiInitial ==
  ASSUME CtiInit
  PROVE  CtiInv
<1>1. since = 0 /\ pull = Idle /\ MaxModified \in Nat
  BY CtiAssumption DEF CtiInit
<1>2. DOMAIN platform = Indicators /\ \A i \in Indicators : platform[i].modified \in 1..MaxModified
  <2>1. PICK at \in [Indicators -> 1..MaxModified], node \in FirstNodes :
          platform = [i \in Indicators |-> Over([modified |-> at[i]], node)]
    BY DEF CtiInit, FirstPlatforms
  <2> QED
    BY <2>1, Modified1
<1>3. DOMAIN pull.objects = {} /\ DOMAIN pull = {"pc", "after", "pages", "objects"}
  BY <1>1 DEF Idle
<1>4. CtiType
  BY <1>1, <1>2, <1>3, IdleType DEF CtiType
<1>5. Copied
  <2>1. \A i \in Indicators : ~(platform[i].modified <= since)
    BY <1>1, <1>2
  <2> QED
    BY <2>1 DEF Copied
<1>6. Pulled
  <2>1. \A i \in Indicators : Before(pull.after, Place(i))
    BY <1>1, <1>2, IdleType DEF Before, Place
  <2> QED
    BY <2>1 DEF Pulled
<1> QED
  BY <1>4, <1>5, <1>6 DEF CtiInv

\* What an analyst modifies is newer than the watermark and the cursor, or overtaken.
LEMMA ModifyStep ==
  ASSUME CtiInv, NEW i \in Indicators, Modify(i)
  PROVE  CtiInv'
<1>1. PICK node \in Nodes, t \in 1..MaxModified :
        /\ platform' = [platform EXCEPT ![i] = Over([modified |-> t], node)]
        /\ overtaken' = IF t <= since \/ t <= pull.after[1] THEN overtaken \cup {i} ELSE overtaken \ {i}
  BY DEF Modify
<1>2. /\ pull' = pull /\ since' = since /\ copy' = copy
      /\ MaxModified \in Nat /\ since \in 0..MaxModified
      /\ pull.after \in (0..MaxModified) \X Nat
      /\ DOMAIN pull = {"pc", "after", "pages", "objects"}
  BY CtiAssumption DEF Modify, CtiInv, CtiType
<1>3. /\ DOMAIN platform' = Indicators
      /\ platform'[i].modified = t
      /\ \A j \in Indicators \ {i} : platform'[j] = platform[j]
  BY <1>1, Modified1 DEF CtiInv, CtiType
<1>4. /\ \A j \in Indicators \ {i} : j \in overtaken' <=> j \in overtaken
      /\ i \in overtaken' \/ (t > since /\ t > pull.after[1])
  BY <1>1, <1>2
<1>5. CtiType'
  <2>1. \A j \in Indicators : platform'[j].modified \in 1..MaxModified
    BY <1>1, <1>3 DEF CtiInv, CtiType
  <2>2. ASSUME NEW j \in DOMAIN pull.objects
        PROVE  /\ j \in Indicators
               /\ pull.objects[j].modified \in (since + 1)..pull.after[1]
               /\ j \in overtaken' \/ pull.objects[j].modified <= platform'[j].modified
    <3>1. /\ j \in Indicators
          /\ pull.objects[j].modified \in (since + 1)..pull.after[1]
          /\ j \in overtaken \/ pull.objects[j].modified <= platform[j].modified
      BY DEF CtiInv, CtiType
    <3>2. CASE j = i
      BY <1>1, <1>2, <1>3, <1>4, <3>1, <3>2
    <3>3. CASE j # i
      BY <1>3, <1>4, <3>1, <3>3
    <3> QED
      BY <3>1, <3>2, <3>3
  <2> QED
    BY <1>2, <1>3, <2>1, <2>2 DEF CtiType
<1>6. Copied'
  <2>1. i \in overtaken' \/ ~(platform'[i].modified <= since)
    BY <1>1, <1>2, <1>3, <1>4
  <2> QED
    BY <1>2, <1>3, <1>4, <2>1 DEF Copied, CtiInv
<1>7. Pulled'
  <2>1. i \in overtaken' \/ Before(pull.after, Place(i)')
    BY <1>1, <1>2, <1>3, <1>4 DEF Before, Place
  <2>2. \A j \in Indicators \ {i} : Place(j)' = Place(j)
    BY <1>3 DEF Place
  <2> QED
    BY <1>2, <1>3, <1>4, <2>1, <2>2 DEF Pulled, CtiInv
<1> QED
  BY <1>5, <1>6, <1>7 DEF CtiInv

\* A pull that starts, or that ends, has no objects.
LEMMA EmptyPull ==
  ASSUME CtiInv, pull'.after = Idle.after, DOMAIN pull'.objects = {},
         DOMAIN pull' = {"pc", "after", "pages", "objects"},
         platform' = platform, since' \in 0..MaxModified, Copied'
  PROVE  CtiInv'
<1>1. /\ DOMAIN platform = Indicators
      /\ \A i \in Indicators : platform[i].modified \in 1..MaxModified
  BY DEF CtiInv, CtiType
<1>2. CtiType'
  BY <1>1, IdleType DEF CtiType
<1>3. Pulled'
  <2>1. \A i \in Indicators : Before(pull'.after, Place(i)')
    BY <1>1, IdleType, CtiAssumption DEF Before, Place
  <2> QED
    BY <2>1 DEF Pulled
<1> QED
  BY <1>2, <1>3 DEF CtiInv

LEMMA EmptyPullStep ==
  ASSUME CtiInv, StartPull \/ PullFails
  PROVE  CtiInv'
<1>1. pull' = [Idle EXCEPT !.pc = "page"] \/ pull' = Idle
  BY DEF StartPull, PullFails
<1>2. /\ DOMAIN pull'.objects = {} /\ pull'.after = Idle.after
      /\ DOMAIN pull' = {"pc", "after", "pages", "objects"}
  BY <1>1 DEF Idle
<1>3. /\ platform' = platform /\ since' = since /\ copy' = copy
      /\ \A i \in Indicators : platform[i].modified <= since /\ i \in overtaken => i \in overtaken'
  BY DEF StartPull, PullFails
<1>4. since' \in 0..MaxModified
  BY <1>3 DEF CtiInv, CtiType
<1>5. Copied'
  BY <1>3 DEF CtiInv, Copied
<1> QED
  BY <1>2, <1>3, <1>4, <1>5, EmptyPull

\* A page moves the cursor to the last it has; what is not behind it has been pulled.
LEMMA PageStep ==
  ASSUME CtiInv, PullPage
  PROVE  CtiInv'
<1> DEFINE remaining == Remaining(pull.after)
           page == FirstModified(PullPageSize, remaining)
           taken == {i \in page : HasIndicator(platform[i])}
<1>1. /\ pull'.after = IF page = {} THEN pull.after ELSE EndCursor(page)
      /\ pull'.objects = Over([i \in taken |-> platform[i]], pull.objects)
      /\ DOMAIN pull' = {"pc", "after", "pages", "objects"}
      /\ overtaken' = overtaken \ page
      /\ platform' = platform /\ since' = since /\ copy' = copy
  BY DEF PullPage
<1>2. /\ MaxModified \in Nat /\ since \in 0..MaxModified
      /\ pull.after \in (0..MaxModified) \X Nat
      /\ DOMAIN platform = Indicators
      /\ \A i \in Indicators : platform[i].modified \in 1..MaxModified
      /\ \A i \in Indicators : Place(i) \in (0..MaxModified) \X Nat /\ Place(i)[1] = platform[i].modified
  BY CtiAssumption DEF CtiInv, CtiType, Place
<1>3. /\ page \subseteq remaining /\ remaining \subseteq Indicators
      /\ \A i \in Indicators :
           i \in remaining <=> platform[i].modified > since /\ Before(pull.after, Place(i))
      /\ \A i \in page, j \in remaining : ~Before(Place(i), Place(j)) => j \in page
  BY PageIsFirst DEF FirstModified, Remaining, CtiInv
<1>4. /\ DOMAIN pull'.objects = taken \cup DOMAIN pull.objects
      /\ \A i \in taken : pull'.objects[i] = platform[i]
      /\ \A i \in DOMAIN pull.objects \ taken : pull'.objects[i] = pull.objects[i]
  BY <1>1 DEF Over
<1>5. page # {} =>
        \E i \in page : EndCursor(page) = Place(i) /\ \A j \in page : ~Before(Place(i), Place(j))
  BY <1>3, EndCursorIsLast DEF CtiInv
<1> HIDE DEF remaining, page
<1>6. /\ pull'.after \in (0..MaxModified) \X Nat
      /\ pull'.after[1] >= pull.after[1]
      /\ \A i \in page : platform[i].modified <= pull'.after[1]
      /\ \A i \in remaining : ~Before(pull'.after, Place(i)) => i \in page
  <2>1. CASE page = {}
    BY <1>1, <1>2, <1>3, <2>1
  <2>2. CASE page # {}
    <3>1. PICK i \in page : EndCursor(page) = Place(i) /\ \A j \in page : ~Before(Place(i), Place(j))
      BY <1>5, <2>2
    <3>2. pull'.after = Place(i) /\ i \in Indicators
      BY <1>1, <1>3, <2>2, <3>1
    <3>3. Place(i) \in (0..MaxModified) \X Nat /\ Before(pull.after, Place(i))
      BY <1>2, <1>3, <3>2
    <3>4. pull'.after[1] >= pull.after[1]
      BY <1>2, <3>2, <3>3 DEF Before
    <3>5. ASSUME NEW j \in page PROVE platform[j].modified <= pull'.after[1]
      <4>1. ~Before(Place(i), Place(j)) /\ j \in Indicators
        BY <1>3, <3>1
      <4>2. Place(j) \in (0..MaxModified) \X Nat /\ Place(j)[1] = platform[j].modified
        BY <1>2, <4>1
      <4> QED
        BY <1>2, <3>2, <3>3, <4>1, <4>2 DEF Before
    <3>6. ASSUME NEW j \in remaining, ~Before(pull'.after, Place(j)) PROVE j \in page
      BY <1>3, <3>2, <3>6
    <3> QED
      BY <3>2, <3>3, <3>4, <3>5, <3>6
  <2> QED
    BY <2>1, <2>2
<1>7. CtiType'
  <2>1. ASSUME NEW i \in DOMAIN pull'.objects
        PROVE  /\ i \in Indicators
               /\ pull'.objects[i].modified \in (since + 1)..pull'.after[1]
               /\ i \in overtaken' \/ pull'.objects[i].modified <= platform[i].modified
    <3>1. CASE i \in taken
      <4>1. i \in page /\ i \in Indicators /\ pull'.objects[i] = platform[i]
        BY <1>3, <1>4, <3>1
      <4>2. platform[i].modified > since /\ platform[i].modified <= pull'.after[1]
        BY <1>3, <1>6, <4>1
      <4>3. platform[i].modified \in Nat /\ since \in Nat /\ pull'.after[1] \in Nat
        BY <1>2, <1>6, <4>1
      <4> QED
        BY <4>1, <4>2, <4>3
    <3>2. CASE i \notin taken
      <4>1. i \in DOMAIN pull.objects /\ pull'.objects[i] = pull.objects[i]
        BY <1>4, <3>2
      <4>2. /\ i \in Indicators
            /\ pull.objects[i].modified \in (since + 1)..pull.after[1]
            /\ i \in overtaken \/ pull.objects[i].modified <= platform[i].modified
        BY <4>1 DEF CtiInv, CtiType
      <4>3. pull.after[1] \in Nat /\ pull'.after[1] \in Nat /\ since \in Nat
        BY <1>2, <1>6
      <4>4. pull.objects[i].modified \in (since + 1)..pull'.after[1]
        BY <1>6, <4>2, <4>3
      <4>5. CASE i \in page
        <5>1. Before(pull.after, Place(i)) /\ Place(i)[1] = platform[i].modified
          BY <1>2, <1>3, <4>2, <4>5
        <5>2. pull.after[1] <= platform[i].modified /\ platform[i].modified \in Nat
          BY <1>2, <4>2, <4>3, <5>1 DEF Before
        <5> QED
          BY <4>1, <4>2, <4>3, <4>4, <5>2
      <4>6. CASE i \notin page
        BY <1>1, <4>1, <4>2, <4>4, <4>6
      <4> QED
        BY <4>5, <4>6
    <3> QED
      BY <3>1, <3>2
  <2> QED
    BY <1>1, <1>2, <1>6, <2>1 DEF CtiType
<1>8. Copied'
  <2>1. \A i \in page : ~(platform[i].modified <= since)
    BY <1>2, <1>3
  <2> QED
    BY <1>1, <2>1 DEF Copied, CtiInv
<1>9. Pulled'
  <2>1. ASSUME NEW i \in Indicators, i \notin overtaken', since < platform[i].modified,
               ~Before(pull'.after, Place(i)), HasIndicator(platform[i])
        PROVE  i \in DOMAIN pull'.objects /\ pull'.objects[i] = platform[i]
    <3>1. CASE i \in taken
      BY <1>4, <3>1
    <3>2. CASE i \notin taken
      <4>1. i \notin page /\ i \notin remaining
        BY <1>6, <2>1, <3>2
      <4>2. ~Before(pull.after, Place(i)) /\ i \notin overtaken
        BY <1>1, <1>2, <1>3, <2>1, <4>1
      <4>3. i \in DOMAIN pull.objects /\ pull.objects[i] = platform[i]
        BY <2>1, <4>2 DEF Pulled, CtiInv
      <4> QED
        BY <1>4, <3>2, <4>3
    <3> QED
      BY <3>1, <3>2
  <2>2. \A i \in Indicators : Place(i)' = Place(i)
    BY <1>1 DEF Place
  <2> QED
    BY <1>1, <2>1, <2>2 DEF Pulled
<1> QED
  BY <1>7, <1>8, <1>9 DEF CtiInv

\* The watermark that a pull leaves is not newer than its cursor, so that the pull has all
\* that is between the two watermarks, but for what is behind the cursor at its time.
LEMMA WriteStep ==
  ASSUME CtiInv, Write
  PROVE  CtiInv'
<1>1. pull' = Idle /\ platform' = platform
  BY DEF Write
<1>2. /\ DOMAIN pull'.objects = {} /\ pull'.after = Idle.after
      /\ DOMAIN pull' = {"pc", "after", "pages", "objects"}
  BY <1>1 DEF Idle
<1>3. /\ MaxModified \in Nat /\ since \in 0..MaxModified
      /\ pull.after \in (0..MaxModified) \X Nat
      /\ \A i \in Indicators : platform[i].modified \in 1..MaxModified
      /\ \A i \in DOMAIN pull.objects :
           /\ i \in Indicators
           /\ pull.objects[i].modified \in (since + 1)..pull.after[1]
           /\ i \in overtaken \/ pull.objects[i].modified <= platform[i].modified
  BY CtiAssumption DEF CtiInv, CtiType
<1>4. CASE since' = since /\ copy' = copy /\ overtaken' = overtaken
  <2>1. Copied'
    BY <1>1, <1>4 DEF CtiInv, Copied
  <2> QED
    BY <1>1, <1>2, <1>3, <1>4, <2>1, EmptyPull
<1>5. CASE /\ copy' = Bulk(copy, pull.objects) /\ since' = NewestOf(pull.objects)
           /\ overtaken' = overtaken \cup {i \in Remaining(pull.after) : platform[i].modified = pull.after[1]}
  <2>1. since' = since \/ since' \in (since + 1)..pull.after[1]
    <3> DEFINE times == {pull.objects[i].modified : i \in DOMAIN pull.objects}
    <3>1. CASE times = {}
      BY <1>5, <3>1 DEF NewestOf
    <3>2. CASE times # {}
      <4>1. times \in SUBSET (0..MaxModified)
        BY <1>3
      <4>2. Max(times) \in times
        BY <1>3, <3>2, <4>1, NewestTime
      <4> QED
        BY <1>3, <1>5, <3>2, <4>2 DEF NewestOf
    <3> QED
      BY <3>1, <3>2
  <2>2. since' \in 0..MaxModified
    BY <1>3, <2>1
  <2>3. ASSUME NEW i \in Indicators, i \notin overtaken', platform[i].modified <= since',
               HasIndicator(platform[i]), SkipReason(platform[i]) = ""
        PROVE  i \in DOMAIN copy' /\ copy'[i] = ToCtiDoc(platform[i])
    <3>1. platform[i].modified \in Nat /\ since \in Nat /\ pull.after[1] \in Nat /\ i \notin overtaken
      <4>1. i \notin overtaken
        BY <1>5, <2>3
      <4>2. pull.after[1] \in 0..MaxModified
        BY <1>3
      <4> QED
        BY <1>3, <4>1, <4>2
    <3>4. since' \in Nat
      BY <1>3, <2>2
    <3>2. CASE since < platform[i].modified
      <4>1. platform[i].modified <= pull.after[1]
        <5>1. platform[i].modified <= since'
          BY <2>3
        <5>2. since' <= pull.after[1]
          BY <2>1, <3>1, <3>2, <3>4, <5>1
        <5> QED
          BY <3>1, <3>4, <5>1, <5>2
      <4>2. ~Before(pull.after, Place(i))
        <5>1. CASE platform[i].modified = pull.after[1]
          <6>1. i \notin Remaining(pull.after)
            BY <1>5, <2>3, <5>1
          <6> QED
            BY <3>1, <3>2, <6>1 DEF Remaining
        <5>2. CASE platform[i].modified < pull.after[1]
          BY <3>1, <5>2 DEF Before, Place
        <5> QED
          BY <3>1, <4>1, <5>1, <5>2
      <4>3. i \in DOMAIN pull.objects /\ pull.objects[i] = platform[i]
        BY <2>3, <3>1, <3>2, <4>2 DEF CtiInv, Pulled
      <4> QED
        BY <1>5, <2>3, <4>3 DEF Bulk, Over
    <3>3. CASE platform[i].modified <= since
      <4>1. i \notin DOMAIN pull.objects
        BY <1>3, <3>1, <3>3
      <4>2. i \in DOMAIN copy /\ copy[i] = ToCtiDoc(platform[i])
        BY <2>3, <3>1, <3>3 DEF CtiInv, Copied
      <4> QED
        BY <1>5, <4>1, <4>2 DEF Bulk, Over
    <3> QED
      BY <3>1, <3>2, <3>3
  <2>4. Copied'
    BY <1>1, <2>3 DEF Copied
  <2> QED
    BY <1>1, <1>2, <2>2, <2>4, EmptyPull
<1> QED
  BY <1>4, <1>5 DEF Write

LEMMA CtiStep ==
  ASSUME CtiInv, CtiNext \/ UNCHANGED ctiVars
  PROVE  CtiInv'
<1>1. CASE UNCHANGED ctiVars
  BY <1>1 DEF ctiVars, CtiInv, CtiType, Copied, Pulled, Place
<1> QED
  BY <1>1, ModifyStep, EmptyPullStep, PageStep, WriteStep DEF CtiNext

\* After a pull the copy has the present version of all that is not newer than the
\* watermark, whatever was modified between two pages and two pulls and whichever times are
\* equal, but for what came with a time already passed or was cut at its time (opencti.py
\* pull_indicators, indicators.py run_pull).
THEOREM CopyIsUpToDate == Spec => []CopyIsCurrent
<1>1. Init => CtiInv
  BY CtiInitial DEF Init
<1>2. CtiInv /\ [Next]_vars => CtiInv'
  BY CtiStep DEF Next, vars
<1>3. CtiInv => CopyIsCurrent
  BY DEF CtiInv, Copied, CopyIsCurrent
<1> QED
  BY <1>1, <1>2, <1>3, PTL DEF Spec

-----------------------------------------------------------------------------
(***************************************************************************)
(* The verbs                                                               *)
(***************************************************************************)
\* What is written, pushed or being so is valid; what is to be pushed has been written.
VerbInv ==
  /\ DOMAIN work = {"pc", "objs", "sightings", "skipped"}
  /\ Errors(file) = {} /\ Errors(ingested) = {}
  /\ work.pc \in {"write", "push"} => Errors(work.objs) = {}
  /\ work.pc \in {"push", "ok"} => (verb.out => file = work.objs)
  /\ work.pc = "push" => verb.push
  /\ work.pc = "ok" /\ verb.push =>
       \A id \in DOMAIN work.objs : id \in DOMAIN ingested /\ ingested[id] = work.objs[id]

\* Objects that are valid stay so beside others.
LEMMA ValidTogether ==
  ASSUME NEW some, NEW others, Errors(some) = {}, Errors(others) = {}
  PROVE  Errors(Over(some, others)) = {}
<1>1. \A id \in DOMAIN Over(some, others) :
        \/ id \in DOMAIN some /\ Over(some, others)[id] = some[id]
        \/ id \in DOMAIN others /\ Over(some, others)[id] = others[id]
  BY DEF Over
<1> QED
  BY <1>1 DEF Errors

LEMMA NothingIsValid == Errors(<<>>) = {}
BY DEF Errors

LEMMA JudgedIs ==
  ASSUME NEW made, NEW nothing
  PROVE  /\ DOMAIN Judged(made, nothing) = {"pc", "objs", "sightings", "skipped"}
         /\ Judged(made, nothing).pc \in {"nothing", "invalid", "write"}
         /\ Judged(made, nothing).pc = "write" => Errors(Judged(made, nothing).objs) = {}
BY DEF Judged

\* What is assembled is judged, whatever the verb.
LEMMA AssemblingStep ==
  ASSUME VerbInv, Assembling,
         verb.name \in {"stix-export", "cti-sightings", "stix-behaviour"}
  PROVE  VerbInv'
<1>1. PICK made, nothing : work' = Judged(made, nothing)
  BY DEF Assembling, RunExport, RunSightings, RunBehaviour
<1>2. /\ DOMAIN work' = {"pc", "objs", "sightings", "skipped"}
      /\ work'.pc \in {"nothing", "invalid", "write"}
      /\ work'.pc = "write" => Errors(work'.objs) = {}
  BY <1>1, JudgedIs
<1>3. file' = file /\ ingested' = ingested /\ verb' = verb
  BY DEF Assembling
<1> QED
  BY <1>2, <1>3 DEF VerbInv

LEMMA WritingStep ==
  ASSUME VerbInv, WriteBundle
  PROVE  VerbInv'
<1>1. /\ work'.pc = (IF verb.push THEN "push" ELSE "ok") /\ work'.objs = work.objs
      /\ DOMAIN work' = {"pc", "objs", "sightings", "skipped"}
      /\ Errors(work.objs) = {}
  BY DEF VerbInv, WriteBundle
<1>2. /\ file' = IF verb.out THEN work.objs ELSE file
      /\ verb' = verb /\ ingested' = ingested
  BY DEF WriteBundle
<1> QED
  BY <1>1, <1>2 DEF VerbInv

LEMMA PushingStep ==
  ASSUME VerbInv, PushBundle
  PROVE  VerbInv'
<1>1. PICK answer \in Answers :
        /\ ingested' = IF answer \in {"acknowledged", "lost"} THEN Over(work.objs, ingested) ELSE ingested
        /\ work' = [work EXCEPT !.pc = IF Accepted(answer) THEN "ok" ELSE "failed"]
  BY DEF PushBundle
<1>2. /\ work'.pc = (IF Accepted(answer) THEN "ok" ELSE "failed") /\ work'.objs = work.objs
      /\ DOMAIN work' = {"pc", "objs", "sightings", "skipped"}
      /\ Errors(work.objs) = {} /\ Errors(file) = {}
      /\ verb.out => file = work.objs
  BY <1>1 DEF VerbInv, PushBundle
<1>3. Errors(ingested') = {}
  BY <1>1, <1>2, ValidTogether DEF VerbInv
<1>4. Accepted(answer) => \A id \in DOMAIN work.objs : id \in DOMAIN ingested' /\ ingested'[id] = work.objs[id]
  BY <1>1 DEF Accepted, Over
<1>5. file' = file /\ verb' = verb
  BY DEF PushBundle
<1> QED
  BY <1>2, <1>3, <1>4, <1>5 DEF VerbInv

LEMMA RunAgainStep ==
  ASSUME VerbInv, RunAgain
  PROVE  VerbInv'
<1>1. work' = NoWork /\ file' = file /\ ingested' = ingested
  BY DEF RunAgain
<1> QED
  BY <1>1 DEF VerbInv, NoWork

\* A verb keeps its name and what it was asked to do.
VerbType ==
  /\ DOMAIN verb = {"name", "out", "push", "input"}
  /\ verb.name \in {"stix-export", "cti-sightings", "stix-behaviour"}

LEMMA VerbStep ==
  ASSUME VerbType, VerbInv, VerbNext \/ UNCHANGED verbVars
  PROVE  VerbType' /\ VerbInv'
<1>1. CASE UNCHANGED verbVars
  BY <1>1 DEF verbVars, VerbType, VerbInv
<1>2. CASE VerbNext
  <2>1. VerbInv'
    BY <1>2, AssemblingStep, WritingStep, PushingStep, RunAgainStep DEF VerbNext, VerbType
  <2>2. VerbType'
    BY <1>2 DEF VerbType, VerbNext, Assembling, WriteBundle, PushBundle, RunAgain
  <2> QED
    BY <2>1, <2>2
<1> QED
  BY <1>1, <1>2

\* What ends well has written and pushed what it was asked to, and only what is valid, whatever
\* the platform answered before and however often the verb was run (run_export, run_sightings,
\* run_behaviour).
THEOREM OkIsSent == Spec => []OkMeansSent
<1>1. Init => VerbType /\ VerbInv
  <2>1. VerbInit => VerbType
    BY DEF VerbInit, VerbType
  <2>2. VerbInit => VerbInv
    BY NothingIsValid DEF VerbInit, VerbInv, NoWork
  <2> QED
    BY <2>1, <2>2 DEF Init
<1>2. VerbType /\ VerbInv /\ [Next]_vars => VerbType' /\ VerbInv'
  BY VerbStep DEF Next, vars
<1>3. VerbInv => OkMeansSent
  BY DEF VerbInv, OkMeansSent
<1> QED
  BY <1>1, <1>2, <1>3, PTL DEF Spec

-----------------------------------------------------------------------------
(***************************************************************************)
(* The newest object                                                       *)
(***************************************************************************)
\* What is passed through can be compared, and there is finitely much of it.
LEMMA IncomingType ==
  ASSUME NEW input \in Exports
  PROVE  /\ IsFiniteSet(Incoming(input.bundles))
         /\ \A p \in Incoming(input.bundles) :
              /\ p = <<p[1], p[2]>> /\ p[1] \in Nat /\ p[2] \in Nat
              /\ Modified(Passed(input.bundles, p)) \in Nat
<1> DEFINE bundles == input.bundles
           places(b) == {<<b, k>> : k \in DOMAIN bundles[b]}
<1>1. /\ DOMAIN bundles = 1..Len(bundles) /\ Len(bundles) \in Nat
      /\ \A b \in DOMAIN bundles : IsBundle(bundles[b])
  <2> DEFINE all == {bundles[b] : b \in DOMAIN bundles}
  <2>1. bundles \in Seq(all) /\ \A b \in DOMAIN bundles : IsBundle(bundles[b])
    BY ExportsAssumption
  <2> HIDE DEF all
  <2> QED
    BY <2>1
<1>2. \A b \in DOMAIN bundles : DOMAIN bundles[b] = 1..Len(bundles[b]) /\ Len(bundles[b]) \in Nat
  <2> TAKE b \in DOMAIN bundles
  <2> DEFINE all == {bundles[b][k] : k \in DOMAIN bundles[b]}
  <2>1. bundles[b] \in Seq(all)
    BY <1>1 DEF IsBundle
  <2> HIDE DEF all
  <2> QED
    BY <2>1
<1>3. \A b \in DOMAIN bundles : IsFiniteSet(places(b))
  <2> TAKE b \in DOMAIN bundles
  <2> DEFINE place == [k \in DOMAIN bundles[b] |-> <<b, k>>]
  <2>1. IsFiniteSet(DOMAIN bundles[b])
    <3>1. DOMAIN bundles[b] = 1..Len(bundles[b]) /\ Len(bundles[b]) \in Nat
      BY <1>2
    <3>2. IsFiniteSet(1..Len(bundles[b]))
      BY <3>1, FS_Interval
    <3> QED
      BY <3>1, <3>2
  <2>2. place \in Surjection(DOMAIN bundles[b], places(b))
    BY DEF Surjection
  <2> HIDE DEF place, places
  <2> QED
    BY <2>1, <2>2, FS_Surjection
<1>4. IsFiniteSet({places(b) : b \in DOMAIN bundles})
  <2> DEFINE all == {places(b) : b \in DOMAIN bundles}
             place == [b \in DOMAIN bundles |-> places(b)]
  <2>1. IsFiniteSet(DOMAIN bundles)
    <3>1. DOMAIN bundles = 1..Len(bundles) /\ Len(bundles) \in Nat
      BY <1>1
    <3>2. IsFiniteSet(1..Len(bundles))
      BY <3>1, FS_Interval
    <3> QED
      BY <3>1, <3>2
  <2>2. place \in Surjection(DOMAIN bundles, all)
    BY Zenon DEF Surjection
  <2> HIDE DEF all, place
  <2>3. IsFiniteSet(all)
    BY <2>1, <2>2, FS_Surjection
  <2> QED
    BY <2>3 DEF all
<1>5. IsFiniteSet(Incoming(bundles))
  BY <1>3, <1>4, FS_UNION DEF Incoming
<1>6. ASSUME NEW p \in Incoming(bundles)
      PROVE  p = <<p[1], p[2]>> /\ p[1] \in DOMAIN bundles /\ p[2] \in DOMAIN bundles[p[1]]
  BY DEF Incoming
<1>7. \A p \in Incoming(bundles) : Modified(Passed(bundles, p)) \in Nat
  BY <1>1, <1>6 DEF Passed, IsBundle
<1> QED
  BY <1>1, <1>2, <1>5, <1>6, <1>7

\* Of the objects with one id there is one that supersedes the others.
LEMMA NewestExists ==
  ASSUME NEW input \in Exports, NEW some \in SUBSET Incoming(input.bundles), some # {}
  PROVE  \E p \in some : \A q \in some \ {p} : Supersedes(input.bundles, p, q)
<1> DEFINE above(p) == {q \in some : Supersedes(input.bundles, q, p)}
           heights == {Cardinality(above(p)) : p \in some}
           less(p, q) == Supersedes(input.bundles, p, q)
<1>1. \A p \in some : IsFiniteSet(above(p)) /\ Cardinality(above(p)) \in Nat
  <2> TAKE p \in some
  <2>1. above(p) \in SUBSET Incoming(input.bundles)
    OBVIOUS
  <2> QED
    BY <2>1, IncomingType, FS_Subset, FS_CardinalityType
<1>2. PICK n \in heights : \A m \in heights : ~(m < n)
  <2>1. heights \subseteq Nat /\ heights # {}
    BY <1>1
  <2> HIDE DEF heights
  <2>2. PICK n \in heights : \A m \in heights : ~(<<m, n>> \in OpToRel(<, Nat))
    BY <2>1, NatLessThanWellFounded, WFMin
  <2> QED
    BY <2>1, <2>2 DEF OpToRel
<1>3. PICK p \in some : Cardinality(above(p)) = n
  OBVIOUS
<1>4. \A q \in some : ~(q \in above(p))
  <2> SUFFICES ASSUME NEW q \in some, q \in above(p) PROVE FALSE
    OBVIOUS
  <2>1. above(q) \in SUBSET above(p) /\ q \notin above(q)
    <3>1. \A r \in some : less(r, q) /\ less(q, p) => less(r, p)
      BY IncomingType DEF Supersedes, ComesBefore
    <3>2. ~less(q, q)
      BY IncomingType DEF Supersedes, ComesBefore
    <3> QED
      BY <3>1, <3>2
  <2>2. Cardinality(above(q)) < Cardinality(above(p))
    <3> HIDE DEF above
    <3> QED
      BY <1>1, <2>1, FS_Subset
  <2>3. Cardinality(above(q)) \in heights
    OBVIOUS
  <2> QED
    BY <1>2, <1>3, <2>2, <2>3
<1>5. \A q \in some \ {p} : less(p, q)
  <2> TAKE q \in some \ {p}
  <2>1. less(p, q) \/ less(q, p)
    BY IncomingType DEF Supersedes, ComesBefore
  <2> QED
    BY <1>4, <2>1
<1> QED
  BY <1>5

\* A merge has every id that is passed through, in a version at least as new.
LEMMA MergeKeepsTheNewest ==
  ASSUME NEW input \in Exports, NEW objs, NEW p \in Incoming(input.bundles)
  PROVE  LET obj == Passed(input.bundles, p)
             merged == Merge(objs, input.bundles)
         IN  obj.id \in DOMAIN merged /\ Modified(merged[obj.id]) >= Modified(obj)
<1> DEFINE bundles == input.bundles
           obj == Passed(bundles, p)
           merged == Merge(objs, bundles)
           versions == {q \in Incoming(bundles) : Passed(bundles, q).id = obj.id}
           stays == /\ obj.id \in DOMAIN objs
                    /\ \A q \in versions : Modified(objs[obj.id]) >= Modified(Passed(bundles, q))
           newest == CHOOSE q \in versions : \A r \in versions \ {q} : Supersedes(bundles, q, r)
<1>1. obj.id \in DOMAIN merged
  BY DEF Merge
<1>2. merged[obj.id] = IF stays THEN objs[obj.id] ELSE Passed(bundles, newest)
  BY <1>1 DEF Merge
<1>3. newest \in versions /\ \A r \in versions \ {newest} : Supersedes(bundles, newest, r)
  <2>1. versions # {} /\ versions \in SUBSET Incoming(bundles)
    OBVIOUS
  <2>2. \E q \in versions : \A r \in versions \ {q} : Supersedes(bundles, q, r)
    BY <2>1, NewestExists
  <2> HIDE DEF versions
  <2> QED
    BY <2>2
<1>4. Modified(merged[obj.id]) >= Modified(obj)
  <2>1. CASE stays
    BY <1>2, <2>1
  <2>2. CASE ~stays
    <3>1. merged[obj.id] = Passed(bundles, newest) /\ newest \in Incoming(bundles)
      BY <1>2, <1>3, <2>2
    <3>2. Modified(obj) \in Nat /\ Modified(Passed(bundles, newest)) \in Nat
      BY <3>1, IncomingType
    <3>3. newest = p \/ Supersedes(bundles, newest, p)
      BY <1>3
    <3> HIDE DEF newest
    <3>4. Modified(Passed(bundles, newest)) >= Modified(obj)
      BY <3>2, <3>3 DEF Supersedes
    <3> QED
      BY <3>1, <3>4
  <2> QED
    BY <2>1, <2>2
<1> HIDE DEF merged, obj
<1> QED
  BY <1>1, <1>4 DEF obj, merged

\* An export has in hand what it has assembled from its input.
NewestInv ==
  verb.name = "stix-export" =>
    /\ verb.input \in Exports
    /\ work.pc # "read" => \E objs : work.objs = Merge(objs, verb.input.bundles)

LEMMA NewestStep ==
  ASSUME VerbType, VerbInv, NewestInv, VerbNext \/ UNCHANGED verbVars
  PROVE  NewestInv'
<1>1. CASE UNCHANGED verbVars
  BY <1>1 DEF verbVars, NewestInv
<1>2. CASE Assembling
  <2> SUFFICES ASSUME verb.name = "stix-export"
               PROVE  /\ verb.input \in Exports
                      /\ \E objs : work'.objs = Merge(objs, verb.input.bundles)
    BY <1>2 DEF Assembling, NewestInv
  <2>1. work' = RunExport(verb.input)
    BY <1>2 DEF Assembling
  <2>2. \E objs : work'.objs = Merge(objs, verb.input.bundles)
    BY <2>1 DEF RunExport, Judged, Assemble
  <2> QED
    BY <2>2 DEF NewestInv
<1>3. CASE WriteBundle \/ PushBundle
  <2>1. verb' = verb /\ work'.objs = work.objs /\ work.pc # "read"
    BY <1>3 DEF WriteBundle, PushBundle, VerbInv
  <2> QED
    BY <2>1 DEF NewestInv
<1>4. CASE RunAgain
  <2>1. verb'.name = verb.name /\ verb'.input \in Inputs(verb.name) /\ work'.pc = "read"
    BY <1>4 DEF RunAgain, VerbType, NoWork
  <2> QED
    BY <2>1 DEF NewestInv, Inputs
<1> QED
  BY <1>1, <1>2, <1>3, <1>4 DEF VerbNext

\* No object that stix-export sends is older than one that a bundle passed through has for its
\* id, in whichever order the bundles and their objects come (export.py merge_objects).
THEOREM NewestIsSent == Spec => []NewestSurvives
<1> DEFINE Inv == VerbType /\ VerbInv /\ NewestInv
<1>1. Init => Inv
  <2>1. VerbInit => VerbType
    BY DEF VerbInit, VerbType
  <2>2. VerbInit => VerbInv
    BY NothingIsValid DEF VerbInit, VerbInv, NoWork
  <2>3. VerbInit => NewestInv
    BY DEF VerbInit, NewestInv, NoWork, Inputs
  <2> QED
    BY <2>1, <2>2, <2>3 DEF Init
<1>2. Inv /\ [Next]_vars => Inv'
  BY VerbStep, NewestStep DEF Next, vars
<1>3. Inv => NewestSurvives
  <2> SUFFICES ASSUME Inv, verb.name = "stix-export", work.pc # "read",
                      NEW b \in DOMAIN verb.input.bundles, NEW k \in DOMAIN verb.input.bundles[b]
               PROVE  LET obj == verb.input.bundles[b][k]
                      IN  obj.id \in DOMAIN work.objs /\ Modified(work.objs[obj.id]) >= Modified(obj)
    BY DEF NewestSurvives
  <2>1. PICK objs : work.objs = Merge(objs, verb.input.bundles)
    BY DEF NewestInv
  <2>2. <<b, k>> \in Incoming(verb.input.bundles)
        /\ Passed(verb.input.bundles, <<b, k>>) = verb.input.bundles[b][k]
    BY DEF Incoming, Passed
  <2> QED
    BY <2>1, <2>2, MergeKeepsTheNewest DEF NewestInv
<1> QED
  BY <1>1, <1>2, <1>3, PTL DEF Spec

-----------------------------------------------------------------------------
(***************************************************************************)
(* The sightings                                                           *)
(***************************************************************************)
\* What objects a list adds: an id that is there keeps its object.
PutStep(context, objs, obj) == PutObject(objs, obj)
PutSo(context, k, objs) ==
  /\ DOMAIN objs = DOMAIN context[1] \cup {context[2][j].id : j \in 1..k}
  /\ \A id \in DOMAIN context[1] : objs[id] = context[1][id]
  /\ \A id \in DOMAIN objs \ DOMAIN context[1] :
       \E j \in 1..k : context[2][j].id = id /\ objs[id] = context[2][j]

PutFold == INSTANCE FoldProof WITH Op <- PutStep, Inv <- PutSo

LEMMA PutObjectIs ==
  ASSUME NEW objs, NEW obj
  PROVE  /\ DOMAIN PutObject(objs, obj) = DOMAIN objs \cup {obj.id}
         /\ \A id \in DOMAIN objs : PutObject(objs, obj)[id] = objs[id]
         /\ obj.id \notin DOMAIN objs => PutObject(objs, obj)[obj.id] = obj
BY DEF PutObject, Over

LEMMA PutObjectsIs ==
  ASSUME NEW objs, NEW list, Len(list) \in Nat, DOMAIN list = 1..Len(list)
  PROVE  PutSo(<<objs, list>>, Len(list), PutObjects(objs, list))
<1> DEFINE c == <<objs, list>>
<1>c. c[1] = objs /\ c[2] = list
  OBVIOUS
<1> HIDE DEF c
<1>1. PutSo(c, 0, objs)
  <2>1. 1..0 = {} /\ {list[j].id : j \in 1..0} = {}
    OBVIOUS
  <2> QED
    BY <1>c, <2>1 DEF PutSo
<1>2. ASSUME NEW k \in 1..Len(list), NEW x, PutSo(c, k - 1, x)
      PROVE  PutSo(c, k, PutStep(c, x, list[k]))
  <2> DEFINE y == PutObject(x, list[k])
  <2>1. 1..k = 1..(k - 1) \cup {k}
    OBVIOUS
  <2>2. /\ DOMAIN x = DOMAIN objs \cup {list[j].id : j \in 1..(k - 1)}
        /\ \A id \in DOMAIN objs : x[id] = objs[id]
        /\ \A id \in DOMAIN x \ DOMAIN objs : \E j \in 1..(k - 1) : list[j].id = id /\ x[id] = list[j]
    BY <1>2, <1>c DEF PutSo
  <2>3. /\ DOMAIN y = DOMAIN x \cup {list[k].id}
        /\ \A id \in DOMAIN x : y[id] = x[id]
        /\ list[k].id \notin DOMAIN x => y[list[k].id] = list[k]
    BY PutObjectIs
  <2> HIDE DEF y
  <2>4. DOMAIN y = DOMAIN objs \cup {list[j].id : j \in 1..k}
    BY <2>1, <2>2, <2>3
  <2>5. ASSUME NEW id \in DOMAIN y \ DOMAIN objs
        PROVE  \E j \in 1..k : list[j].id = id /\ y[id] = list[j]
    <3>1. CASE id \in DOMAIN x
      BY <2>1, <2>2, <2>3, <3>1
    <3>2. CASE id \notin DOMAIN x
      BY <2>1, <2>3, <3>2
    <3> QED
      BY <3>1, <3>2
  <2>6. PutSo(c, k, y)
    BY <1>c, <2>2, <2>3, <2>4, <2>5 DEF PutSo
  <2> QED
    BY <2>6 DEF PutStep, y
<1>3. PutSo(c, Len(list), PutFold!Folded(c, objs, list))
  BY <1>1, <1>2, PutFold!FoldKeeps
<1>4. PutFold!Folded(c, objs, list) = PutObjects(objs, list)
  BY Zenon DEF PutObjects, PutStep, FoldLeft, MapThenFoldSet, Max, PutFold!Folded,
               PutFold!FoldLeft, PutFold!MapThenFoldSet, PutFold!Max
<1> QED
  BY <1>3, <1>4 DEF c

\* A list without its repetitions.
NoRepetition(x) == \A i, j \in 1..Len(x) : x[i] = x[j] => i = j
Elements(x) == {x[i] : i \in 1..Len(x)}
DistinctSo(list, k, x) == NoRepetition(x) /\ Elements(x) = {list[j] : j \in 1..k}

DistinctFold == INSTANCE FoldProof WITH Op <- PutStep, Inv <- DistinctSo

LEMMA DistinctIs ==
  ASSUME NEW S, NEW list \in Seq(S)
  PROVE  Distinct(list) \in Seq(S) /\ NoRepetition(Distinct(list)) /\ Elements(Distinct(list)) = Elements(list)
<1> DEFINE part(k) == IF \E j \in 1..(k - 1) : list[j] = list[k] THEN <<>> ELSE <<list[k]>>
           parts == [k \in DOMAIN list |-> part(k)]
<1>1. DOMAIN list = 1..Len(list) /\ Len(list) \in Nat
  OBVIOUS
<1>2. \A k \in 1..Len(list) : part(k) \in Seq(S)
  OBVIOUS
<1>3. parts \in Seq(Seq(S)) /\ Len(parts) = Len(list) /\ \A k \in 1..Len(list) : parts[k] = part(k)
  BY <1>1, <1>2
<1>4. DistinctSo(list, 0, <<>>)
  BY DEF DistinctSo, NoRepetition, Elements
<1>5. ASSUME NEW k \in 1..Len(list), NEW x \in Seq(S), DistinctSo(list, k - 1, x)
      PROVE  DistinctSo(list, k, x \o part(k))
  <2>1. 1..k = 1..(k - 1) \cup {k}
    OBVIOUS
  <2>2. CASE \E j \in 1..(k - 1) : list[j] = list[k]
    <3>1. part(k) = <<>> /\ x \o <<>> = x
      BY <2>2
    <3>2. {list[j] : j \in 1..k} = {list[j] : j \in 1..(k - 1)}
      BY <2>1, <2>2
    <3> HIDE DEF part
    <3>3. DistinctSo(list, k, x)
      BY <1>5, <3>2 DEF DistinctSo
    <3> QED
      BY <3>1, <3>3
  <2>3. CASE ~\E j \in 1..(k - 1) : list[j] = list[k]
    <3> DEFINE y == x \o <<list[k]>>
    <3>1. /\ y \in Seq(S) /\ Len(y) = Len(x) + 1 /\ y[Len(x) + 1] = list[k]
          /\ \A i \in 1..Len(x) : y[i] = x[i]
      BY <1>1
    <3>2. list[k] \notin Elements(x)
      BY <1>5, <2>3 DEF DistinctSo
    <3>3. \A i \in 1..(Len(x) + 1) : i \in 1..Len(x) \/ i = Len(x) + 1
      OBVIOUS
    <3> HIDE DEF y
    <3>4. NoRepetition(y)
      BY <1>5, <3>1, <3>2, <3>3 DEF DistinctSo, NoRepetition, Elements
    <3>5. Elements(y) = Elements(x) \cup {list[k]}
      BY <3>1, <3>3 DEF Elements
    <3>6. DistinctSo(list, k, y)
      BY <1>5, <2>1, <3>4, <3>5 DEF DistinctSo
    <3> QED
      BY <2>3, <3>6 DEF y
  <2> QED
    BY <2>2, <2>3
<1> HIDE DEF parts, part
<1>6. /\ DistinctFold!FlattenSeq(parts) \in Seq(S)
      /\ DistinctSo(list, Len(parts), DistinctFold!FlattenSeq(parts))
  BY <1>3, <1>4, <1>5, DistinctFold!FlattenKeeps
<1>7. DistinctFold!FlattenSeq(parts) = FlattenSeq(parts)
  BY Zenon DEF FlattenSeq, DistinctFold!FlattenSeq
<1>8. FlattenSeq(parts) = Distinct(list)
  BY Zenon DEF Distinct, parts, part
<1> QED
  BY <1>1, <1>3, <1>6, <1>7, <1>8 DEF DistinctSo, Elements


-----------------------------------------------------------------------------
\* The alerts of a key that were gone past, up to the j-th enrichment of the i-th alert.
Told(alerts, key, i, j) == {a \in AlertsOf(alerts, key) : a[1] < i \/ (a[1] = i /\ a[2] <= j)}

Enrichment(alerts, a) == alerts[a[1]].enrichments[a[2]]

Times(alerts, told) == {SeenAt(alerts[a[1]]) : a \in told}
Changes(alerts, told) == {Later(DetectedAt(alerts[a[1]]), SeenAt(alerts[a[1]])) : a \in told}

IsLeast(x, set) == x \in set /\ \A y \in set : x <= y
IsGreatest(x, set) == x \in set /\ \A y \in set : y <= x

ObservationAt(key, t) == <<"observed-data", Case, <<key, t>>, "match">>

\* A matched value that is an observable is observed at each of the times.
Observes(alerts, key, told, objs, refs) ==
  \/ refs = <<>> /\ \A a \in told : MatchedObservable(Enrichment(alerts, a)) = <<>>
  \/ /\ \A a \in told : MatchedObservable(Enrichment(alerts, a)) # <<>>
     /\ refs \in Seq({ObservationAt(key, t) : t \in Times(alerts, told)})
     /\ NoRepetition(refs)
     /\ Elements(refs) = {ObservationAt(key, t) : t \in Times(alerts, told)}
     /\ Elements(refs) \subseteq DOMAIN objs

SightingFields == {"type", "id", "created", "modified", "sighting_of_ref", "first_seen", "last_seen", "count",
                   "observed_data_refs", "where_sighted_refs", "alert_ids"}

\* The sighting tells of these alerts.
Sums(alerts, key, told, objs, s) ==
  /\ s = [f \in SightingFields |-> s[f]] /\ s.type = "sighting"
  /\ IsFiniteSet(told) /\ s.count = Cardinality(told)
  /\ IsLeast(s.first_seen, Times(alerts, told)) /\ IsGreatest(s.last_seen, Times(alerts, told))
  /\ IsLeast(s.created, Times(alerts, told)) /\ IsGreatest(s.modified, Changes(alerts, told))
  /\ Observes(alerts, key, told, objs, s.observed_data_refs)

SightingsSo(alerts, i, j, state) ==
  /\ DOMAIN state = {"objs", "sightings", "skipped"}
  /\ \A id \in DOMAIN state.objs :
       /\ state.objs[id].type = id[1]
       /\ id[1] = "sighting" => id = SightingId(id[3])
  /\ \A key : LET told == Told(alerts, key, i, j)
              IN  IF told = {} THEN SightingId(key) \notin DOMAIN state.objs
                  ELSE /\ SightingId(key) \in DOMAIN state.objs
                       /\ Sums(alerts, key, told, state.objs, state.objs[SightingId(key)])

LEMMA AlertsType ==
  ASSUME NEW alerts \in AlertLists, NEW k \in DOMAIN alerts
  PROVE  /\ Len(alerts) \in Nat /\ DOMAIN alerts = 1..Len(alerts)
         /\ Len(alerts[k].enrichments) \in Nat
         /\ DOMAIN alerts[k].enrichments = 1..Len(alerts[k].enrichments)
         /\ SeenAt(alerts[k]) \in Nat /\ Later(DetectedAt(alerts[k]), SeenAt(alerts[k])) \in Nat
<1> DEFINE list == alerts[k].enrichments
           A == {alerts[n] : n \in DOMAIN alerts}
           B == {list[j] : j \in DOMAIN list}
<1>1. alerts \in Seq(A) /\ list \in Seq(B) /\ SeenAt(alerts[k]) \in Nat /\ DetectedAt(alerts[k]) \in Nat
  BY AlertsAssumption
<1> HIDE DEF A, B
<1> QED
  BY <1>1 DEF Later

LEMMA AlertsOfType ==
  ASSUME NEW alerts \in AlertLists, NEW key, NEW a \in AlertsOf(alerts, key)
  PROVE  /\ a = <<a[1], a[2]>> /\ a[1] \in DOMAIN alerts /\ a[2] \in DOMAIN alerts[a[1]].enrichments
         /\ SeenAt(alerts[a[1]]) # 0
         /\ SightedIndicator(Enrichment(alerts, a)) \in IndicatorIds
         /\ AlertKey(alerts[a[1]], Enrichment(alerts, a)) = key
BY DEF AlertsOf, Enrichment

\* The observable is told by what is in the key.
LEMMA SameObservable ==
  ASSUME NEW alerts, NEW d, NEW alert, NEW e, AlertKey(alerts[d[1]], Enrichment(alerts, d)) = AlertKey(alert, e)
  PROVE  MatchedObservable(Enrichment(alerts, d)) = MatchedObservable(e)
<1>1. /\ Get(Enrichment(alerts, d), "matched.field") = Get(e, "matched.field")
      /\ Get(Enrichment(alerts, d), "matched.atomic") = Get(e, "matched.atomic")
  BY DEF AlertKey
<1> QED
  BY <1>1, Zenon DEF MatchedObservable

LEMMA ObservableIs ==
  ASSUME NEW e
  PROVE  \/ MatchedObservable(e) = <<>>
         \/ \E sco : /\ MatchedObservable(e) = <<sco>> /\ sco.type = sco.id[1] /\ sco.id[1] # "sighting"
<1> DEFINE is(sco) == sco.type = sco.id[1] /\ sco.id[1] # "sighting"
           v == Get(e, "matched.atomic")
<1>1. is(IpAddress(v)) /\ is(FileObservable("", v)) /\ is(DomainName(Lower(v), "")) /\ is(Url(v))
  BY DEF IpAddress, FileObservable, DomainName, Url
<1>2. \/ MatchedObservable(e) = <<>>
      \/ \E sco \in {IpAddress(v), FileObservable("", v), DomainName(Lower(v), ""), Url(v)} :
           MatchedObservable(e) = <<sco>>
  BY DEF MatchedObservable
<1> QED
  BY <1>1, <1>2

LEMMA ObservationIs ==
  ASSUME NEW alert, NEW e
  PROVE  /\ MatchedObservable(e) = <<>> => AlertObservation(alert, e) = <<>>
         /\ MatchedObservable(e) # <<>> =>
              \E o : /\ AlertObservation(alert, e) = <<o>>
                     /\ o.id = ObservationAt(AlertKey(alert, e), SeenAt(alert)) /\ o.type = "observed-data"
<1>1. CASE MatchedObservable(e) = <<>>
  <2>1. DOMAIN MatchedObservable(e) = {}
    BY <1>1
  <2>2. AlertObservation(alert, e) = <<>>
    BY <2>1 DEF AlertObservation
  <2> QED
    BY <1>1, <2>2
<1>2. CASE MatchedObservable(e) # <<>>
  <2>1. PICK sco : MatchedObservable(e) = <<sco>>
    BY <1>2, ObservableIs
  <2> DEFINE o == ObservedData(<<AlertKey(alert, e), SeenAt(alert)>>, "match", <<sco.id>>, SeenAt(alert))
  <2>2. AlertObservation(alert, e) = <<o>>
    BY <2>1 DEF AlertObservation
  <2>3. o.id = ObservationAt(AlertKey(alert, e), SeenAt(alert)) /\ o.type = "observed-data"
    BY DEF ObservedData, Sdo, Over, ObservationAt
  <2> QED
    BY <1>2, <2>2, <2>3
<1> QED
  BY <1>1, <1>2


\* The sighting of one alert.
LEMMA NewSightingIs ==
  ASSUME NEW alerts \in AlertLists, NEW key, NEW a \in AlertsOf(alerts, key), NEW objs,
         MatchedObservable(Enrichment(alerts, a)) # <<>> =>
           ObservationAt(key, SeenAt(alerts[a[1]])) \in DOMAIN objs
  PROVE  LET new == AlertSighting(alerts[a[1]], Enrichment(alerts, a))
         IN  new.id = SightingId(key) /\ Sums(alerts, key, {a}, objs, new)
<1> DEFINE alert == alerts[a[1]]
           e == Enrichment(alerts, a)
           new == AlertSighting(alert, e)
           observed == AlertObservation(alert, e)
           refs == [k \in DOMAIN observed |-> observed[k].id]
           t == SeenAt(alert)
           changed == Later(DetectedAt(alert), t)
<1>1. AlertKey(alert, e) = key /\ t \in Nat /\ changed \in Nat
  BY AlertsOfType, AlertsType
<1>2. /\ new = [f \in SightingFields |-> new[f]]
      /\ new.type = "sighting" /\ new.id = SightingId(key) /\ new.count = 1
      /\ new.first_seen = t /\ new.last_seen = t /\ new.created = t /\ new.modified = changed
      /\ new.observed_data_refs = refs
  <2>1. PICK of, where, ids : new = Over(SightingObject(key, of, t, changed, t, t, refs, where),
                                         [alert_ids |-> ids])
    BY <1>1, Zenon DEF AlertSighting
  <2> HIDE DEF t, changed, refs, e, alert, new
  <2> QED
    BY <2>1 DEF SightingObject, Over, Sdo, SightingFields, SightingId
<1>3. Times(alerts, {a}) = {t} /\ Changes(alerts, {a}) = {changed}
  BY DEF Times, Changes
<1>4. Observes(alerts, key, {a}, objs, refs)
  <2>1. CASE MatchedObservable(e) = <<>>
    <3>1. refs = <<>>
      BY <2>1, ObservationIs
    <3> QED
      BY <2>1, <3>1 DEF Observes
  <2>2. CASE MatchedObservable(e) # <<>>
    <3>1. refs = <<ObservationAt(key, t)>>
      BY <1>1, <2>2, ObservationIs
    <3> DEFINE o == ObservationAt(key, t)
    <3>2. {ObservationAt(key, x) : x \in Times(alerts, {a})} = {o}
      BY <1>3
    <3>3. o \in DOMAIN objs
      BY <2>2
    <3> HIDE DEF o, refs, e
    <3>4. <<o>> \in Seq({o}) /\ Len(<<o>>) = 1 /\ <<o>>[1] = o
      OBVIOUS
    <3>5. NoRepetition(<<o>>) /\ Elements(<<o>>) = {o}
      BY <3>4 DEF NoRepetition, Elements
    <3>6. refs = <<o>>
      BY <3>1 DEF o
    <3> QED
      BY <2>2, <3>2, <3>3, <3>4, <3>5, <3>6 DEF Observes, o, e
  <2> QED
    BY <2>1, <2>2
<1>5. IsFiniteSet({a}) /\ Cardinality({a}) = 1
  BY FS_Singleton
<1>6. IsLeast(t, {t}) /\ IsGreatest(t, {t}) /\ IsGreatest(changed, {changed})
  BY <1>1 DEF IsLeast, IsGreatest
<1> HIDE DEF new, t, changed, refs
<1>7. Sums(alerts, key, {a}, objs, new)
  BY <1>2, <1>3, <1>4, <1>5, <1>6 DEF Sums
<1> QED
  BY <1>2, <1>7 DEF new

LEMMA LeastOfBoth ==
  ASSUME NEW A \in SUBSET Nat, NEW B \in SUBSET Nat, NEW x, NEW y, IsLeast(x, A), IsLeast(y, B)
  PROVE  IsLeast(Earlier(x, y), A \cup B)
BY DEF IsLeast, Earlier

LEMMA GreatestOfBoth ==
  ASSUME NEW A \in SUBSET Nat, NEW B \in SUBSET Nat, NEW x, NEW y, IsGreatest(x, A), IsGreatest(y, B)
  PROVE  IsGreatest(Later(x, y), A \cup B)
BY DEF IsGreatest, Later

\* One that is widened by one more alert.
LEMMA WidenedIs ==
  ASSUME NEW alerts \in AlertLists, NEW key, NEW told \in SUBSET AlertsOf(alerts, key), told # {},
         NEW a \in AlertsOf(alerts, key) \ told, NEW objs, NEW s, NEW new,
         Sums(alerts, key, told, objs, s), Sums(alerts, key, {a}, objs, new)
  PROVE  Sums(alerts, key, told \cup {a}, objs, Widened(s, new))
<1> DEFINE all == told \cup {a}
           w == Widened(s, new)
           refs == Distinct(s.observed_data_refs \o new.observed_data_refs)
<1>1. \A d \in all : SeenAt(alerts[d[1]]) \in Nat /\ Later(DetectedAt(alerts[d[1]]), SeenAt(alerts[d[1]])) \in Nat
  BY AlertsOfType, AlertsType
<1>2. /\ Times(alerts, all) = Times(alerts, told) \cup Times(alerts, {a}) /\ Times(alerts, all) \subseteq Nat
      /\ Changes(alerts, all) = Changes(alerts, told) \cup Changes(alerts, {a}) /\ Changes(alerts, all) \subseteq Nat
  BY <1>1 DEF Times, Changes
<1>3. /\ w = [f \in SightingFields |-> w[f]] /\ w.type = "sighting"
      /\ w.count = s.count + 1 /\ w.observed_data_refs = refs
      /\ w.first_seen = Earlier(s.first_seen, new.first_seen) /\ w.created = Earlier(s.created, new.created)
      /\ w.last_seen = Later(s.last_seen, new.last_seen) /\ w.modified = Later(s.modified, new.modified)
  <2>1. s = [f \in SightingFields |-> s[f]] /\ s.type = "sighting"
    BY DEF Sums
  <2> HIDE DEF refs
  <2> QED
    BY <2>1 DEF Widened, SightingFields, refs
<1>4. IsFiniteSet(all) /\ Cardinality(all) = Cardinality(told) + 1
  BY FS_AddElement DEF Sums
<1>7. /\ IsLeast(w.first_seen, Times(alerts, all)) /\ IsGreatest(w.last_seen, Times(alerts, all))
      /\ IsLeast(w.created, Times(alerts, all)) /\ IsGreatest(w.modified, Changes(alerts, all))
  <2>1. /\ Times(alerts, told) \in SUBSET Nat /\ Times(alerts, {a}) \in SUBSET Nat
        /\ Changes(alerts, told) \in SUBSET Nat /\ Changes(alerts, {a}) \in SUBSET Nat
    BY <1>2
  <2>2. /\ IsLeast(s.first_seen, Times(alerts, told)) /\ IsLeast(new.first_seen, Times(alerts, {a}))
        /\ IsLeast(s.created, Times(alerts, told)) /\ IsLeast(new.created, Times(alerts, {a}))
        /\ IsGreatest(s.last_seen, Times(alerts, told)) /\ IsGreatest(new.last_seen, Times(alerts, {a}))
        /\ IsGreatest(s.modified, Changes(alerts, told)) /\ IsGreatest(new.modified, Changes(alerts, {a}))
    BY DEF Sums
  <2> HIDE DEF w, all
  <2>3. IsLeast(w.first_seen, Times(alerts, all)) /\ IsLeast(w.created, Times(alerts, all))
    <3>1. /\ IsLeast(Earlier(s.first_seen, new.first_seen), Times(alerts, told) \cup Times(alerts, {a}))
          /\ IsLeast(Earlier(s.created, new.created), Times(alerts, told) \cup Times(alerts, {a}))
      BY <2>1, <2>2, LeastOfBoth
    <3> QED
      BY <1>2, <1>3, <3>1
  <2>4. IsGreatest(w.last_seen, Times(alerts, all)) /\ IsGreatest(w.modified, Changes(alerts, all))
    <3>1. IsGreatest(Later(s.last_seen, new.last_seen), Times(alerts, told) \cup Times(alerts, {a}))
      BY <2>1, <2>2, GreatestOfBoth
    <3>2. IsGreatest(Later(s.modified, new.modified), Changes(alerts, told) \cup Changes(alerts, {a}))
      BY <2>1, <2>2, GreatestOfBoth
    <3> QED
      BY <1>2, <1>3, <3>1, <3>2
  <2> QED
    BY <2>3, <2>4
<1>8. Observes(alerts, key, all, objs, refs)
  <2> DEFINE r == s.observed_data_refs
             q == new.observed_data_refs
             at(T) == {ObservationAt(key, t) : t \in Times(alerts, T)}
  <2>1. \A d \in told : MatchedObservable(Enrichment(alerts, d)) = MatchedObservable(Enrichment(alerts, a))
    <3> TAKE d \in told
    <3>1. AlertKey(alerts[d[1]], Enrichment(alerts, d)) = AlertKey(alerts[a[1]], Enrichment(alerts, a))
      BY AlertsOfType
    <3> QED
      BY <3>1, SameObservable
  <2>2. Observes(alerts, key, told, objs, r) /\ Observes(alerts, key, {a}, objs, q)
    BY DEF Sums
  <2>3. CASE MatchedObservable(Enrichment(alerts, a)) = <<>>
    <3>1. r = <<>> /\ q = <<>>
      BY <2>1, <2>2, <2>3 DEF Observes
    <3>2. r \o q \in Seq({})
      BY <3>1
    <3>3. refs \in Seq({})
      BY <3>2, DistinctIs
    <3>4. refs = <<>>
      BY <3>3
    <3> QED
      BY <2>1, <2>3, <3>4 DEF Observes
  <2>4. CASE MatchedObservable(Enrichment(alerts, a)) # <<>>
    <3>1. /\ r \in Seq(at(told)) /\ Elements(r) = at(told) /\ Elements(r) \subseteq DOMAIN objs
          /\ q \in Seq(at({a})) /\ Elements(q) = at({a}) /\ Elements(q) \subseteq DOMAIN objs
      BY <2>1, <2>2, <2>4 DEF Observes
    <3>2. at(all) = at(told) \cup at({a})
      BY <1>2
    <3> DEFINE S == at(all)
               list == r \o q
    <3> HIDE DEF at, r, q, refs, all
    <3>3. r \in Seq(S) /\ q \in Seq(S)
      <4>1. at(told) \subseteq S /\ at({a}) \subseteq S
        BY <3>2
      <4> HIDE DEF S
      <4>2. (\A i \in 1..Len(r) : r[i] \in S) /\ (\A i \in 1..Len(q) : q[i] \in S)
        BY <3>1, <4>1 DEF Elements
      <4>3. Len(r) \in Nat /\ Len(q) \in Nat /\ r = [i \in 1..Len(r) |-> r[i]] /\ q = [i \in 1..Len(q) |-> q[i]]
        BY <3>1
      <4> QED
        BY <4>2, <4>3
    <3>4. list \in Seq(S) /\ Elements(list) = Elements(r) \cup Elements(q)
      <4>1. /\ Len(list) = Len(r) + Len(q)
            /\ \A i \in 1..Len(r) : list[i] = r[i]
            /\ \A i \in 1..Len(q) : list[Len(r) + i] = q[i]
            /\ list \in Seq(S)
        BY <3>3
      <4>2. Len(r) \in Nat /\ Len(q) \in Nat
        BY <3>3
      <4> HIDE DEF list
      <4>3. Elements(r) \cup Elements(q) \subseteq Elements(list)
        BY <4>1, <4>2 DEF Elements
      <4>4. ASSUME NEW i \in 1..Len(list) PROVE list[i] \in Elements(r) \cup Elements(q)
        <5>1. i \in 1..Len(r) \/ (i - Len(r) \in 1..Len(q) /\ i = Len(r) + (i - Len(r)))
          BY <4>1, <4>2
        <5> QED
          BY <4>1, <5>1 DEF Elements
      <4> QED
        BY <4>1, <4>3, <4>4 DEF Elements
    <3>5. Distinct(list) \in Seq(S) /\ NoRepetition(Distinct(list)) /\ Elements(Distinct(list)) = S
      BY <3>1, <3>2, <3>4, DistinctIs
    <3>6. S \subseteq DOMAIN objs
      BY <3>1, <3>2
    <3>7. refs = Distinct(list)
      BY DEF refs, r, q
    <3>8. \A d \in all : MatchedObservable(Enrichment(alerts, d)) # <<>>
      BY <2>1, <2>4 DEF all
    <3> HIDE DEF list
    <3>9. S = {ObservationAt(key, t) : t \in Times(alerts, all)}
      BY DEF at
    <3> QED
      BY <3>5, <3>6, <3>7, <3>8, <3>9 DEF Observes
  <2> QED
    BY <2>3, <2>4
<1>9. w.count = Cardinality(all)
  BY <1>3, <1>4 DEF Sums
<1> HIDE DEF w, all, refs
<1>10. Sums(alerts, key, all, objs, w)
  BY <1>3, <1>4, <1>7, <1>8, <1>9 DEF Sums
<1> QED
  BY <1>10 DEF w, all


LEMMA SumsStay ==
  ASSUME NEW alerts, NEW key, NEW told, NEW objs, NEW more, NEW s,
         Sums(alerts, key, told, objs, s), DOMAIN objs \subseteq DOMAIN more
  PROVE  Sums(alerts, key, told, more, s)
<1>1. Observes(alerts, key, told, more, s.observed_data_refs)
  BY DEF Sums, Observes
<1> QED
  BY <1>1 DEF Sums

\* What is put beside the sightings: objects of other types.
Beside(objs, more) ==
  /\ DOMAIN objs \subseteq DOMAIN more
  /\ \A id \in DOMAIN objs : more[id] = objs[id]
  /\ \A id \in DOMAIN more \ DOMAIN objs : more[id].type = id[1] /\ id[1] # "sighting"

LEMMA BesideStays ==
  ASSUME NEW alerts, NEW i, NEW j, NEW state, NEW more,
         SightingsSo(alerts, i, j, state), Beside(state.objs, more)
  PROVE  SightingsSo(alerts, i, j, [state EXCEPT !.objs = more])
<1> DEFINE next == [state EXCEPT !.objs = more]
           objs == state.objs
<1>1. DOMAIN next = {"objs", "sightings", "skipped"} /\ next.objs = more
  BY DEF SightingsSo
<1>2. \A id \in DOMAIN more : more[id].type = id[1] /\ (id[1] = "sighting" => id = SightingId(id[3]))
  BY DEF SightingsSo, Beside
<1>3. ASSUME NEW key
      PROVE  LET told == Told(alerts, key, i, j)
             IN  IF told = {} THEN SightingId(key) \notin DOMAIN more
                 ELSE SightingId(key) \in DOMAIN more /\ Sums(alerts, key, told, more, more[SightingId(key)])
  <2> DEFINE told == Told(alerts, key, i, j)
             id == SightingId(key)
  <2>1. id[1] = "sighting"
    BY DEF SightingId
  <2>2. /\ told = {} => id \notin DOMAIN objs
        /\ told # {} => id \in DOMAIN objs /\ Sums(alerts, key, told, objs, objs[id])
    BY DEF SightingsSo
  <2> HIDE DEF told, id
  <2>3. CASE told = {}
    BY <2>1, <2>2, <2>3 DEF Beside, told, id
  <2>4. CASE told # {}
    <3>1. Sums(alerts, key, told, more, objs[id]) /\ more[id] = objs[id] /\ id \in DOMAIN more
      BY <2>2, <2>4, SumsStay DEF Beside
    <3> QED
      BY <2>4, <3>1 DEF told, id
  <2> QED
    BY <2>3, <2>4
<1> HIDE DEF next
<1>4. SightingsSo(alerts, i, j, next)
  BY <1>1, <1>2, <1>3 DEF SightingsSo
<1> QED
  BY <1>4 DEF next

LEMMA BesideBy ==
  ASSUME NEW objs, NEW list, Len(list) \in Nat, DOMAIN list = 1..Len(list),
         \A k \in 1..Len(list) : list[k].type = list[k].id[1] /\ list[k].id[1] # "sighting"
  PROVE  Beside(objs, PutObjects(objs, list)) /\ \A k \in 1..Len(list) : list[k].id \in DOMAIN PutObjects(objs, list)
<1> DEFINE more == PutObjects(objs, list)
           c == <<objs, list>>
<1>1. PutSo(c, Len(list), more) /\ c[1] = objs /\ c[2] = list
  BY PutObjectsIs
<1> HIDE DEF more, c
<1> QED
  BY <1>1 DEF PutSo, Beside, more

\* What is laid end to end.
LEMMA PairIs ==
  ASSUME NEW x, NEW y
  PROVE  <<x>> \o <<y>> = <<x, y>> /\ <<>> \o <<y>> = <<y>>
<1> DEFINE S == {x, y}
<1>1. <<x>> \in Seq(S) /\ <<y>> \in Seq(S) /\ <<>> \in Seq(S)
  OBVIOUS
<1> HIDE DEF S
<1>2. /\ <<x>> \o <<y>> \in Seq(S) /\ Len(<<x>> \o <<y>>) = 2
      /\ (<<x>> \o <<y>>)[1] = x /\ (<<x>> \o <<y>>)[2] = y
  <2>1. Len(<<x>>) = 1 /\ Len(<<y>>) = 1 /\ <<x>>[1] = x /\ <<y>>[1] = y
    OBVIOUS
  <2> QED
    BY <1>1, <2>1, ConcatProperties
<1>3. <<>> \o <<y>> = <<y>>
  BY <1>1, ConcatEmptySeq
<1>4. <<x, y>> \in Seq(S) /\ Len(<<x, y>>) = 2 /\ <<x, y>>[1] = x /\ <<x, y>>[2] = y
  BY DEF S
<1>5. <<x>> \o <<y>> = <<x, y>>
  <2> DEFINE s == <<x>> \o <<y>>
             u == <<x, y>>
  <2> HIDE DEF s, u
  <2>1. s \in Seq(S) /\ u \in Seq(S) /\ Len(s) = Len(u) /\ \A i \in 1..Len(s) : s[i] = u[i]
    BY <1>2, <1>4 DEF s, u
  <2> QED
    BY <2>1, SeqEqual DEF s, u
<1> QED
  BY <1>3, <1>5

LEMMA ObservedBeside ==
  ASSUME NEW alert, NEW e, NEW objs
  PROVE  LET more == PutObjects(objs, MatchedObservable(e) \o AlertObservation(alert, e))
         IN  /\ Beside(objs, more)
             /\ MatchedObservable(e) # <<>> =>
                  ObservationAt(AlertKey(alert, e), SeenAt(alert)) \in DOMAIN more
<1> DEFINE list == MatchedObservable(e) \o AlertObservation(alert, e)
<1>1. CASE MatchedObservable(e) = <<>>
  <2>1. AlertObservation(alert, e) = <<>>
    BY <1>1, ObservationIs
  <2>2. list = <<>>
    BY <1>1, <2>1
  <2> HIDE DEF list
  <2>3. Beside(objs, PutObjects(objs, list))
    BY <2>2, BesideBy
  <2> QED
    BY <1>1, <2>3 DEF list
<1>2. CASE MatchedObservable(e) # <<>>
  <2>1. PICK sco : MatchedObservable(e) = <<sco>> /\ sco.type = sco.id[1] /\ sco.id[1] # "sighting"
    BY <1>2, ObservableIs
  <2>2. PICK o : /\ AlertObservation(alert, e) = <<o>> /\ o.type = "observed-data"
                 /\ o.id = ObservationAt(AlertKey(alert, e), SeenAt(alert))
    BY <1>2, ObservationIs
  <2>3. list = <<sco, o>>
    <3>1. list = <<sco>> \o <<o>>
      BY <2>1, <2>2
    <3>2. <<sco>> \o <<o>> = <<sco, o>>
      BY PairIs
    <3> QED
      BY <3>1, <3>2
  <2>4. o.id[1] = "observed-data"
    BY <2>2 DEF ObservationAt
  <2> HIDE DEF list
  <2>5. Len(list) = 2 /\ DOMAIN list = 1..2 /\ list[1] = sco /\ list[2] = o
    BY <2>3
  <2>6. Beside(objs, PutObjects(objs, list)) /\ \A k \in 1..2 : list[k].id \in DOMAIN PutObjects(objs, list)
    BY <2>1, <2>2, <2>4, <2>5, BesideBy
  <2> QED
    BY <2>2, <2>5, <2>6 DEF list
<1> QED
  BY <1>1, <1>2


\* Going past one enrichment tells one more alert of its key, if it is told at all.
LEMMA ToldGrows ==
  ASSUME NEW alerts \in AlertLists, NEW i \in DOMAIN alerts, SeenAt(alerts[i]) # 0,
         NEW j \in 1..Len(alerts[i].enrichments), NEW key
  PROVE  LET e == alerts[i].enrichments[j]
             telling == SightedIndicator(e) \in IndicatorIds /\ AlertKey(alerts[i], e) = key
         IN  /\ <<i, j>> \notin Told(alerts, key, i, j - 1)
             /\ telling => <<i, j>> \in AlertsOf(alerts, key)
             /\ Told(alerts, key, i, j) = IF telling THEN Told(alerts, key, i, j - 1) \cup {<<i, j>>}
                                          ELSE Told(alerts, key, i, j - 1)
<1> DEFINE e == alerts[i].enrichments[j]
           telling == SightedIndicator(e) \in IndicatorIds /\ AlertKey(alerts[i], e) = key
           p == <<i, j>>
           all == AlertsOf(alerts, key)
<1>1. p \in all <=> telling
  <2>1. j \in DOMAIN alerts[i].enrichments
    BY AlertsType
  <2>2. p \in UNION {{<<k, m>> : m \in DOMAIN alerts[k].enrichments} : k \in DOMAIN alerts}
    BY <2>1
  <2> QED
    BY <2>2 DEF AlertsOf
<1>2. \A a \in all : a = <<a[1], a[2]>> /\ a[1] \in Nat /\ a[2] \in Nat
  <2> TAKE a \in all
  <2>1. a = <<a[1], a[2]>> /\ a[1] \in DOMAIN alerts /\ a[2] \in DOMAIN alerts[a[1]].enrichments
    BY AlertsOfType
  <2>2. a[1] \in 1..Len(alerts) /\ a[2] \in 1..Len(alerts[a[1]].enrichments)
    BY <2>1, AlertsType
  <2> QED
    BY <2>1, <2>2, AlertsType
<1>3. i \in Nat /\ j \in Nat /\ p[1] = i /\ p[2] = j
  BY AlertsType
<1> HIDE DEF telling, all
<1>4. \A a \in all : a[1] < i \/ (a[1] = i /\ a[2] <= j) <=> (a[1] < i \/ (a[1] = i /\ a[2] <= j - 1)) \/ a = p
  <2> TAKE a \in all
  <2>1. a = p <=> a[1] = i /\ a[2] = j
    BY <1>2
  <2> QED
    BY <1>2, <1>3, <2>1
<1> HIDE DEF p
<1>5. p \notin Told(alerts, key, i, j - 1)
  BY <1>3 DEF Told
<1>6. Told(alerts, key, i, j) = IF telling THEN Told(alerts, key, i, j - 1) \cup {p} ELSE Told(alerts, key, i, j - 1)
  BY <1>1, <1>4 DEF Told, all
<1> QED
  BY <1>1, <1>5, <1>6 DEF telling, p, all

LEMMA EnrichmentStep ==
  ASSUME NEW alerts \in AlertLists, NEW i \in DOMAIN alerts, SeenAt(alerts[i]) # 0,
         NEW j \in 1..Len(alerts[i].enrichments), NEW state, SightingsSo(alerts, i, j - 1, state)
  PROVE  SightingsSo(alerts, i, j, EnrichmentObjects(state, alerts[i], alerts[i].enrichments[j]))
<1> DEFINE alert == alerts[i]
           e == alert.enrichments[j]
           p == <<i, j>>
           mine == AlertKey(alert, e)
           new == AlertSighting(alert, e)
           objs == PutObjects(state.objs, MatchedObservable(e) \o AlertObservation(alert, e))
           step == EnrichmentObjects(state, alert, e)
           before(key) == Told(alerts, key, i, j - 1)
           after(key) == Told(alerts, key, i, j)
<1>1. \A key : /\ p \notin before(key)
               /\ after(key) = IF SightedIndicator(e) \in IndicatorIds /\ mine = key THEN before(key) \cup {p}
                               ELSE before(key)
  BY ToldGrows
<1>2. CASE SightedIndicator(e) \notin IndicatorIds
  <2>1. step = Skipped(state, "no_indicator_ref")
    BY <1>2 DEF EnrichmentObjects
  <2>2. DOMAIN step = {"objs", "sightings", "skipped"} /\ step.objs = state.objs
    BY <2>1 DEF Skipped, SightingsSo
  <2>3. \A key : after(key) = before(key)
    BY <1>1, <1>2
  <2> HIDE DEF step
  <2> QED
    BY <2>2, <2>3 DEF SightingsSo, step
<1>3. CASE SightedIndicator(e) \in IndicatorIds
  <2>1. p \in AlertsOf(alerts, mine) /\ before(mine) \subseteq AlertsOf(alerts, mine)
    BY <1>3, ToldGrows DEF Told
  <2>2. p[1] = i /\ Enrichment(alerts, p) = e
    BY DEF Enrichment
  <2>3. /\ Beside(state.objs, objs)
        /\ MatchedObservable(e) # <<>> => ObservationAt(mine, SeenAt(alert)) \in DOMAIN objs
    BY ObservedBeside
  <2>4. new.id = SightingId(mine) /\ Sums(alerts, mine, {p}, objs, new)
    BY <2>1, <2>2, <2>3, NewSightingIs
  <2> DEFINE now == [state EXCEPT !.objs = objs]
  <2>5. SightingsSo(alerts, i, j - 1, now) /\ now.objs = objs
    <3>1. SightingsSo(alerts, i, j - 1, now)
      BY <2>3, BesideStays
    <3>2. "objs" \in DOMAIN state
      BY DEF SightingsSo
    <3> HIDE DEF objs
    <3> QED
      BY <3>1, <3>2
  <2> DEFINE id == SightingId(mine)
  <2>6. id[1] = "sighting" /\ id[3] = mine /\ \A key : SightingId(key) = id => key = mine
    BY DEF SightingId
  <2>7. \A key : after(key) = IF key = mine THEN before(key) \cup {p} ELSE before(key)
    BY <1>1, <1>3
  <2>8. CASE id \in DOMAIN objs
    <3> DEFINE w == Widened(objs[id], new)
               put == [objs EXCEPT ![id] = w]
    <3>1. before(mine) # {} /\ Sums(alerts, mine, before(mine), objs, objs[id])
      BY <2>5, <2>8 DEF SightingsSo
    <3>2. Sums(alerts, mine, before(mine) \cup {p}, objs, w)
      <4>1. p \notin before(mine)
        BY <1>1
      <4>2. p \in AlertsOf(alerts, mine) \ before(mine) /\ before(mine) \in SUBSET AlertsOf(alerts, mine)
        BY <2>1, <4>1
      <4> HIDE DEF before, p, new, objs, id, mine, now
      <4> QED
        BY <2>4, <3>1, <4>2, WidenedIs
    <3>3. step = [state EXCEPT !.objs = put]
      BY <1>3, <2>4, <2>8 DEF EnrichmentObjects
    <3>4. DOMAIN step = {"objs", "sightings", "skipped"} /\ step.objs = put
      BY <3>3 DEF SightingsSo
    <3>5. DOMAIN put = DOMAIN objs /\ put[id] = w /\ \A d \in DOMAIN objs : d # id => put[d] = objs[d]
      BY <2>8
    <3>6. w.type = "sighting"
      BY <3>2 DEF Sums
    <3>7. \A d \in DOMAIN put : put[d].type = d[1] /\ (d[1] = "sighting" => d = SightingId(d[3]))
      <4>1. \A d \in DOMAIN objs : objs[d].type = d[1] /\ (d[1] = "sighting" => d = SightingId(d[3]))
        BY <2>5 DEF SightingsSo
      <4> HIDE DEF objs, w, put, id, now
      <4> QED
        BY <2>6, <3>5, <3>6, <4>1
    <3>8. ASSUME NEW key
          PROVE  IF after(key) = {} THEN SightingId(key) \notin DOMAIN put
                 ELSE /\ SightingId(key) \in DOMAIN put
                      /\ Sums(alerts, key, after(key), put, put[SightingId(key)])
      <4>1. CASE key = mine
        <5>1. Sums(alerts, key, after(key), put, put[id]) /\ after(key) # {}
          <6>1. after(key) = before(mine) \cup {p}
            BY <2>7, <4>1
          <6>2. Sums(alerts, key, after(key), objs, w)
            BY <3>2, <4>1, <6>1
          <6> HIDE DEF objs, w, put, id, before, after, p, mine
          <6>3. Sums(alerts, key, after(key), put, w)
            BY <3>5, <6>2, SumsStay
          <6> QED
            BY <2>8, <3>5, <6>1, <6>3
        <5> QED
          BY <2>8, <3>5, <4>1, <5>1
      <4>2. CASE key # mine
        <5>1. SightingId(key) # id /\ after(key) = before(key)
          BY <2>6, <2>7, <4>2
        <5>2. IF before(key) = {} THEN SightingId(key) \notin DOMAIN objs
              ELSE /\ SightingId(key) \in DOMAIN objs
                   /\ Sums(alerts, key, before(key), objs, objs[SightingId(key)])
          BY <2>5 DEF SightingsSo
        <5> HIDE DEF objs, w, put, id, before, after
        <5> QED
          BY <3>5, <5>1, <5>2, SumsStay
      <4> QED
        BY <4>1, <4>2
    <3> HIDE DEF step, put
    <3>9. SightingsSo(alerts, i, j, step)
      BY <3>4, <3>7, <3>8 DEF SightingsSo
    <3> QED
      BY <3>9 DEF step
  <2>9. CASE id \notin DOMAIN objs
    <3> DEFINE host == IF new.where_sighted_refs[1] = Producer THEN <<>>
                       ELSE <<HostIdentity(FirstOf(alert.fields, <<"host.name", "host.hostname">>))>>
               list == host \o <<new>>
               put == PutObjects(objs, list)
    <3>1. step = [state EXCEPT !.objs = put, !.sightings = @ + 1]
      BY <1>3, <2>4, <2>9, Zenon DEF EnrichmentObjects
    <3>2. DOMAIN step = {"objs", "sightings", "skipped"} /\ step.objs = put
      BY <3>1 DEF SightingsSo
    <3>3. /\ Len(list) \in Nat /\ DOMAIN list = 1..Len(list) /\ Len(list) # 0 /\ list[Len(list)] = new
          /\ \A k \in 1..Len(list) : list[k] = new \/ (list[k].type = list[k].id[1] /\ list[k].id[1] # "sighting")
      <4> DEFINE h == HostIdentity(FirstOf(alert.fields, <<"host.name", "host.hostname">>))
      <4>1. h.type = h.id[1] /\ h.id[1] = "identity"
        BY DEF HostIdentity, Sdo
      <4>2. list = <<new>> \/ list = <<h, new>>
        <5>1. <<>> \o <<new>> = <<new>> /\ <<h>> \o <<new>> = <<h, new>>
          BY PairIs
        <5>2. host = <<>> \/ host = <<h>>
          OBVIOUS
        <5> HIDE DEF host, new, h
        <5> QED
          BY <5>1, <5>2
      <4> HIDE DEF list, h, new
      <4>3. CASE list = <<new>>
        <5>1. Len(list) = 1 /\ DOMAIN list = 1..1 /\ list[1] = new
          BY <4>3
        <5> QED
          BY <5>1
      <4>4. CASE list = <<h, new>>
        <5>1. Len(list) = 2 /\ DOMAIN list = 1..2 /\ list[1] = h /\ list[2] = new
          BY <4>4
        <5>2. h.id[1] # "sighting"
          BY <4>1
        <5>3. \A k \in 1..2 : k = 1 \/ k = 2
          OBVIOUS
        <5>4. \A k \in 1..Len(list) : list[k] = new \/ list[k] = h
          BY <5>1, <5>3
        <5> QED
          BY <4>1, <5>1, <5>2, <5>4
      <4> QED
        BY <4>2, <4>3, <4>4
    <3>4. PutSo(<<objs, list>>, Len(list), put)
      BY <3>3, PutObjectsIs
    <3> HIDE DEF list, new, objs, put, id, step, before, after
    <3>5. /\ DOMAIN put = DOMAIN objs \cup {list[k].id : k \in 1..Len(list)}
          /\ \A d \in DOMAIN objs : put[d] = objs[d]
          /\ \A d \in DOMAIN put \ DOMAIN objs : \E k \in 1..Len(list) : list[k].id = d /\ put[d] = list[k]
      BY <3>4 DEF PutSo
    <3>6. new.id = id /\ new.type = "sighting"
      BY <2>4 DEF Sums, id
    <3>7. id \in DOMAIN put /\ put[id] = new
      <4>1. Len(list) \in 1..Len(list) /\ list[Len(list)].id = id
        BY <3>3, <3>6
      <4>2. id \in DOMAIN put
        BY <3>5, <4>1
      <4>3. PICK k \in 1..Len(list) : list[k].id = id /\ put[id] = list[k]
        BY <2>9, <3>5, <4>2
      <4>4. list[k] = new
        BY <2>6, <3>3, <4>3
      <4> QED
        BY <4>2, <4>3, <4>4
    <3>8. \A d \in DOMAIN put \ DOMAIN objs : d = id \/ (put[d].type = d[1] /\ d[1] # "sighting")
      <4> TAKE d \in DOMAIN put \ DOMAIN objs
      <4>1. PICK k \in 1..Len(list) : list[k].id = d /\ put[d] = list[k]
        BY <3>5
      <4>2. list[k] = new \/ (list[k].type = list[k].id[1] /\ list[k].id[1] # "sighting")
        BY <3>3
      <4> QED
        BY <3>6, <4>1, <4>2
    <3>9. \A d \in DOMAIN put : put[d].type = d[1] /\ (d[1] = "sighting" => d = SightingId(d[3]))
      <4>1. \A d \in DOMAIN objs : objs[d].type = d[1] /\ (d[1] = "sighting" => d = SightingId(d[3]))
        BY <2>5 DEF SightingsSo
      <4>2. id = SightingId(id[3])
        BY <2>6 DEF id
      <4> QED
        BY <2>6, <3>5, <3>6, <3>7, <3>8, <4>1, <4>2
    <3>10. before(mine) = {}
      BY <2>5, <2>9 DEF SightingsSo, id, before
    <3>11. ASSUME NEW key
           PROVE  IF after(key) = {} THEN SightingId(key) \notin DOMAIN put
                  ELSE /\ SightingId(key) \in DOMAIN put
                       /\ Sums(alerts, key, after(key), put, put[SightingId(key)])
      <4>1. CASE key = mine
        <5>1. after(key) = {p}
          BY <2>7, <3>10, <4>1
        <5>2. Sums(alerts, mine, {p}, put, new)
          BY <2>4, <3>5, SumsStay
        <5> QED
          BY <3>7, <4>1, <5>1, <5>2 DEF id
      <4>2. CASE key # mine
        <5>1. SightingId(key) # id /\ after(key) = before(key) /\ SightingId(key)[1] = "sighting"
          BY <2>6, <2>7, <4>2 DEF SightingId
        <5>2. IF before(key) = {} THEN SightingId(key) \notin DOMAIN objs
              ELSE /\ SightingId(key) \in DOMAIN objs
                   /\ Sums(alerts, key, before(key), objs, objs[SightingId(key)])
          BY <2>5 DEF SightingsSo, before
        <5>3. SightingId(key) \in DOMAIN put <=> SightingId(key) \in DOMAIN objs
          BY <3>5, <3>8, <5>1
        <5> QED
          BY <3>5, <5>1, <5>2, <5>3, SumsStay
      <4> QED
        BY <4>1, <4>2
    <3>12. SightingsSo(alerts, i, j, step)
      BY <3>2, <3>9, <3>11 DEF SightingsSo, after
    <3> QED
      BY <3>12 DEF step
  <2> QED
    BY <2>8, <2>9
<1> QED
  BY <1>2, <1>3


\* One step of the fold over the enrichments of an alert.
EnrichStep(c, state, e) == EnrichmentObjects(state, c[1][c[2]], e)

EnrichSo(c, j, state) == SightingsSo(c[1], c[2], j, state)

Enriching == INSTANCE FoldProof WITH Op <- EnrichStep, Inv <- EnrichSo

AlertStep(c, state, alert) == AlertObjects(state, alert)

AlertSo(c, k, state) == SightingsSo(c, k + 1, 0, state)

Alerting == INSTANCE FoldProof WITH Op <- AlertStep, Inv <- AlertSo

LEMMA EnrichmentsIs ==
  ASSUME NEW state, NEW c, SeenAt(c[1][c[2]]) # 0, c[1][c[2]].enrichments # <<>>
  PROVE  AlertObjects(state, c[1][c[2]]) = Enriching!Folded(c, state, c[1][c[2]].enrichments)
<1>1. AlertObjects(state, c[1][c[2]])
      = FoldLeft(LAMBDA s, e : EnrichmentObjects(s, c[1][c[2]], e), state, c[1][c[2]].enrichments)
  BY Zenon DEF AlertObjects
<1>2. FoldLeft(LAMBDA s, e : EnrichmentObjects(s, c[1][c[2]], e), state, c[1][c[2]].enrichments)
      = Enriching!Folded(c, state, c[1][c[2]].enrichments)
  BY Zenon DEF FoldLeft, MapThenFoldSet, Max, Enriching!Folded, Enriching!FoldLeft,
               Enriching!MapThenFoldSet, Enriching!Max, EnrichStep
<1> QED
  BY <1>1, <1>2

LEMMA SightingsIs ==
  ASSUME NEW alerts
  PROVE  AlertSightings(alerts) = Alerting!Folded(alerts, NoObjects, alerts)
BY Zenon DEF AlertSightings, FoldLeft, MapThenFoldSet, Max, Alerting!Folded, Alerting!FoldLeft,
             Alerting!MapThenFoldSet, Alerting!Max, AlertStep

\* What an alert makes of the sightings.
LEMMA AlertGoesOn ==
  ASSUME NEW alerts \in AlertLists, NEW i \in DOMAIN alerts, NEW state, SightingsSo(alerts, i, 0, state)
  PROVE  SightingsSo(alerts, i + 1, 0, AlertObjects(state, alerts[i]))
<1> DEFINE alert == alerts[i]
           list == alert.enrichments
           last == Len(list)
           step == AlertObjects(state, alert)
<1>1. /\ i \in Nat /\ last \in Nat /\ DOMAIN list = 1..last
      /\ \A k \in DOMAIN alerts : k \in Nat /\ DOMAIN alerts[k].enrichments = 1..Len(alerts[k].enrichments)
                               /\ Len(alerts[k].enrichments) \in Nat
  BY AlertsType
<1>2. \A key : SeenAt(alert) # 0 => Told(alerts, key, i + 1, 0) = Told(alerts, key, i, last)
  <2> SUFFICES ASSUME NEW key PROVE Told(alerts, key, i + 1, 0) = Told(alerts, key, i, last)
    OBVIOUS
  <2>1. \A a \in AlertsOf(alerts, key) : (a[1] < i + 1 \/ (a[1] = i + 1 /\ a[2] <= 0))
                                         <=> (a[1] < i \/ (a[1] = i /\ a[2] <= last))
    <3> TAKE a \in AlertsOf(alerts, key)
    <3>1. a[1] \in DOMAIN alerts /\ a[2] \in DOMAIN alerts[a[1]].enrichments
      BY AlertsOfType
    <3>2. a[1] \in Nat /\ a[2] \in 1..Len(alerts[a[1]].enrichments) /\ Len(alerts[a[1]].enrichments) \in Nat
      BY <1>1, <3>1
    <3>3. a[2] \in Nat /\ a[2] >= 1 /\ a[2] <= Len(alerts[a[1]].enrichments)
      BY <3>2
    <3>4. CASE a[1] = i
      BY <1>1, <3>3, <3>4
    <3>5. CASE a[1] # i
      <4> HIDE DEF last, list
      <4> QED
        BY <1>1, <3>2, <3>3, <3>5
    <3> QED
      BY <3>4, <3>5
  <2> HIDE DEF last
  <2> QED
    BY <2>1 DEF Told
<1>3. SeenAt(alert) = 0 \/ list = <<>> => \A key : Told(alerts, key, i + 1, 0) = Told(alerts, key, i, 0)
  <2> SUFFICES ASSUME SeenAt(alert) = 0 \/ list = <<>>, NEW key
               PROVE  Told(alerts, key, i + 1, 0) = Told(alerts, key, i, 0)
    OBVIOUS
  <2>1. \A a \in AlertsOf(alerts, key) : (a[1] < i + 1 \/ (a[1] = i + 1 /\ a[2] <= 0))
                                         <=> (a[1] < i \/ (a[1] = i /\ a[2] <= 0))
    <3> TAKE a \in AlertsOf(alerts, key)
    <3>1. a[1] \in DOMAIN alerts /\ a[2] \in DOMAIN alerts[a[1]].enrichments /\ SeenAt(alerts[a[1]]) # 0
      BY AlertsOfType
    <3>2. a[1] # i
      <4> SUFFICES ASSUME a[1] = i PROVE FALSE
        OBVIOUS
      <4>1. list = <<>> /\ a[2] \in DOMAIN list
        BY <3>1
      <4> QED
        BY <4>1
    <3>3. a[1] \in Nat /\ a[2] \in 1..Len(alerts[a[1]].enrichments) /\ Len(alerts[a[1]].enrichments) \in Nat
      BY <1>1, <3>1
    <3>4. a[2] \in Nat /\ a[2] >= 1
      BY <3>3
    <3> HIDE DEF list, alert
    <3> QED
      BY <1>1, <3>2, <3>3, <3>4
  <2> QED
    BY <2>1 DEF Told
<1>4. CASE SeenAt(alert) = 0 \/ list = <<>>
  <2>1. \E why : step = Skipped(state, why)
    BY <1>4 DEF AlertObjects
  <2>2. DOMAIN step = {"objs", "sightings", "skipped"} /\ step.objs = state.objs
    BY <2>1 DEF Skipped, SightingsSo
  <2> HIDE DEF step, list, alert
  <2>3. \A key : Told(alerts, key, i + 1, 0) = Told(alerts, key, i, 0)
    BY <1>3, <1>4
  <2>4. SightingsSo(alerts, i + 1, 0, step)
    BY <2>2, <2>3 DEF SightingsSo
  <2> QED
    BY <2>4 DEF step, alert
<1>5. CASE SeenAt(alert) # 0 /\ list # <<>>
  <2> DEFINE c == <<alerts, i>>
  <2>1. step = Enriching!Folded(c, state, list)
    <3>1. c[1][c[2]] = alert
      OBVIOUS
    <3> HIDE DEF c, alert
    <3> QED
      BY <1>5, <3>1, EnrichmentsIs
  <2>2. EnrichSo(c, 0, state)
    BY DEF EnrichSo
  <2>3. \A k \in 1..Len(list) : \A x : EnrichSo(c, k - 1, x) => EnrichSo(c, k, EnrichStep(c, x, list[k]))
    <3> SUFFICES ASSUME NEW k \in 1..Len(list), NEW x, EnrichSo(c, k - 1, x)
                 PROVE  EnrichSo(c, k, EnrichStep(c, x, list[k]))
      OBVIOUS
    <3>1. SightingsSo(alerts, i, k - 1, x)
      BY DEF EnrichSo
    <3>2. SightingsSo(alerts, i, k, EnrichmentObjects(x, alerts[i], alerts[i].enrichments[k]))
      BY <1>5, <3>1, EnrichmentStep
    <3> QED
      BY <3>2 DEF EnrichSo, EnrichStep
  <2> HIDE DEF c, list
  <2>4. EnrichSo(c, Len(list), Enriching!Folded(c, state, list))
    BY <1>1, <2>2, <2>3, Enriching!FoldKeeps
  <2>5. SightingsSo(alerts, i, last, step)
    BY <2>1, <2>4 DEF EnrichSo, c
  <2> HIDE DEF step, alert, last
  <2>6. SightingsSo(alerts, i + 1, 0, step)
    BY <1>2, <1>5, <2>5 DEF SightingsSo
  <2> QED
    BY <2>6 DEF step, alert
<1> QED
  BY <1>4, <1>5

LEMMA SightingsMade ==
  ASSUME NEW alerts \in AlertLists
  PROVE  SightingsSo(alerts, Len(alerts) + 1, 0, AlertSightings(alerts))
<1>1. Len(alerts) \in Nat /\ DOMAIN alerts = 1..Len(alerts)
  BY AlertsType
<1>2. AlertSo(alerts, 0, NoObjects)
  <2>1. \A key : Told(alerts, key, 1, 0) = {}
    <3> TAKE key
    <3>1. \A a \in AlertsOf(alerts, key) : ~(a[1] < 1 \/ (a[1] = 1 /\ a[2] <= 0))
      <4> TAKE a \in AlertsOf(alerts, key)
      <4>1. a[1] \in DOMAIN alerts /\ a[2] \in DOMAIN alerts[a[1]].enrichments
        BY AlertsOfType
      <4> QED
        BY <4>1, AlertsType
    <3> QED
      BY <3>1 DEF Told
  <2>2. \A id \in DOMAIN Frame : Frame[id].type = id[1] /\ id[1] # "sighting"
    BY DEF Frame, Producer, Definition, Sdo
  <2>3. \A key : SightingId(key) \notin DOMAIN Frame
    BY <2>2 DEF SightingId
  <2>4. DOMAIN NoObjects = {"objs", "sightings", "skipped"} /\ NoObjects.objs = Frame
    BY DEF NoObjects
  <2>5. SightingsSo(alerts, 1, 0, NoObjects)
    BY <2>1, <2>2, <2>3, <2>4 DEF SightingsSo
  <2>6. 0 + 1 = 1
    OBVIOUS
  <2> QED
    BY <2>5, <2>6 DEF AlertSo
<1>3. \A k \in 1..Len(alerts) : \A x : AlertSo(alerts, k - 1, x) => AlertSo(alerts, k, AlertStep(alerts, x, alerts[k]))
  <2> SUFFICES ASSUME NEW k \in 1..Len(alerts), NEW x, AlertSo(alerts, k - 1, x)
               PROVE  AlertSo(alerts, k, AlertStep(alerts, x, alerts[k]))
    OBVIOUS
  <2>1. k \in DOMAIN alerts /\ k - 1 + 1 = k
    BY <1>1
  <2>2. SightingsSo(alerts, k, 0, x)
    BY <2>1 DEF AlertSo
  <2>3. SightingsSo(alerts, k + 1, 0, AlertObjects(x, alerts[k]))
    BY <2>1, <2>2, AlertGoesOn
  <2> QED
    BY <2>3 DEF AlertSo, AlertStep
<1>4. AlertSo(alerts, Len(alerts), Alerting!Folded(alerts, NoObjects, alerts))
  BY <1>1, <1>2, <1>3, Alerting!FoldKeeps
<1> QED
  BY <1>4, SightingsIs DEF AlertSo

LEMMA LeastIsMin ==
  ASSUME NEW set \in SUBSET Nat, NEW x, IsLeast(x, set)
  PROVE  x = Min(set)
<1>1. \A y \in set : (\A z \in set : y <= z) => y = x
  BY DEF IsLeast
<1> QED
  BY <1>1 DEF Min, IsLeast

LEMMA GreatestIsMax ==
  ASSUME NEW set \in SUBSET Nat, NEW x, IsGreatest(x, set)
  PROVE  x = Max(set)
<1>1. \A y \in set : (\A z \in set : y >= z) => y = x
  BY DEF IsGreatest
<1>2. \A y \in set : x >= y
  BY DEF IsGreatest
<1> QED
  BY <1>1, <1>2 DEF Max, IsGreatest

\* There is one observation for each of the times.
LEMMA ObservationsCount ==
  ASSUME NEW key, NEW times, NEW refs \in Seq({ObservationAt(key, t) : t \in times}), NoRepetition(refs),
         Elements(refs) = {ObservationAt(key, t) : t \in times}
  PROVE  Len(refs) = Cardinality(times)
<1> DEFINE n == Len(refs)
           time == [k \in 1..n |-> refs[k][3][2]]
<1>1. n \in Nat
  OBVIOUS
<1>2. \A t \in times : ObservationAt(key, t)[3][2] = t
  BY DEF ObservationAt
<1>3. \A k \in 1..n : time[k] \in times /\ refs[k] = ObservationAt(key, time[k])
  <2> TAKE k \in 1..n
  <2>1. PICK t \in times : refs[k] = ObservationAt(key, t)
    OBVIOUS
  <2>2. time[k] = t
    BY <1>2, <2>1
  <2> QED
    BY <2>1, <2>2
<1>4. \A t \in times : \E k \in 1..n : time[k] = t
  <2> TAKE t \in times
  <2>1. PICK k \in 1..n : refs[k] = ObservationAt(key, t)
    BY DEF Elements
  <2> QED
    BY <1>2, <2>1
<1>5. \A k, m \in 1..n : time[k] = time[m] => k = m
  <2> TAKE k, m \in 1..n
  <2> HIDE DEF time
  <2> QED
    BY <1>3 DEF NoRepetition
<1> HIDE DEF time
<1>6. time \in [1..n -> times]
  BY <1>3 DEF time
<1>7. time \in Bijection(1..n, times)
  BY <1>4, <1>5, <1>6 DEF Bijection, Injection, IsInjective, Surjection
<1>8. IsFiniteSet(1..n) /\ Cardinality(1..n) = n
  BY <1>1, FS_Interval
<1> QED
  BY <1>7, <1>8, FS_Bijection DEF ExistsBijection

SightedInv ==
  verb.name = "cti-sightings" =>
    /\ verb.input \in AlertLists
    /\ work.pc # "read" => work.objs = AlertSightings(verb.input).objs

LEMMA SightedStep ==
  ASSUME VerbType, VerbInv, SightedInv, VerbNext \/ UNCHANGED verbVars
  PROVE  SightedInv'
<1>1. CASE UNCHANGED verbVars
  BY <1>1 DEF verbVars, SightedInv
<1>2. CASE Assembling
  <2> SUFFICES ASSUME verb.name = "cti-sightings"
               PROVE  /\ verb.input \in AlertLists
                      /\ work'.objs = AlertSightings(verb.input).objs
    BY <1>2 DEF Assembling, SightedInv
  <2>1. work' = RunSightings(verb.input)
    BY <1>2 DEF Assembling
  <2>2. work'.objs = AlertSightings(verb.input).objs
    BY <2>1 DEF RunSightings, Judged
  <2> QED
    BY <2>2 DEF SightedInv
<1>3. CASE WriteBundle \/ PushBundle
  <2>1. verb' = verb /\ work'.objs = work.objs /\ work.pc # "read"
    BY <1>3 DEF WriteBundle, PushBundle, VerbInv
  <2> QED
    BY <2>1 DEF SightedInv
<1>4. CASE RunAgain
  <2>1. verb'.name = verb.name /\ verb'.input \in Inputs(verb.name) /\ work'.pc = "read"
    BY <1>4 DEF RunAgain, VerbType, NoWork
  <2> QED
    BY <2>1 DEF SightedInv, Inputs
<1> QED
  BY <1>1, <1>2, <1>3, <1>4 DEF VerbNext

\* A sighting that cti-sightings sends counts the alerts of its indicator, host and matched value,
\* spans their times in whichever order they are read, and has one observation for each of the
\* times (sightings.py alert_sightings).
THEOREM SightingsAreSpans == Spec => []SightingsSpanTheirAlerts
<1> DEFINE Inv == VerbType /\ VerbInv /\ SightedInv
<1>1. Init => Inv
  <2>1. VerbInit => VerbType
    BY DEF VerbInit, VerbType
  <2>2. VerbInit => VerbInv
    BY NothingIsValid DEF VerbInit, VerbInv, NoWork
  <2>3. VerbInit => SightedInv
    BY DEF VerbInit, SightedInv, NoWork, Inputs
  <2> QED
    BY <2>1, <2>2, <2>3 DEF Init
<1>2. Inv /\ [Next]_vars => Inv'
  BY VerbStep, SightedStep DEF Next, vars
<1>3. Inv => SightingsSpanTheirAlerts
  <2> DEFINE objs == work.objs
             input == verb.input
  <2> SUFFICES ASSUME Inv, verb.name = "cti-sightings", work.pc # "read",
                      NEW id \in DOMAIN objs, objs[id].type = "sighting"
               PROVE  LET s == objs[id]
                          alerts == AlertsOf(input, id[3])
                          times == {SeenAt(input[a[1]]) : a \in alerts}
                      IN  /\ s.count = Cardinality(alerts)
                          /\ s.first_seen = Min(times) /\ s.last_seen = Max(times) /\ s.created = Min(times)
                          /\ s.modified = Max({Later(DetectedAt(input[a[1]]), SeenAt(input[a[1]])) : a \in alerts})
                          /\ s.observed_data_refs # <<>> =>
                               /\ Len(s.observed_data_refs) = Cardinality(times)
                               /\ \A k \in DOMAIN s.observed_data_refs : s.observed_data_refs[k] \in DOMAIN objs
    BY DEF SightingsSpanTheirAlerts
  <2> DEFINE key == id[3]
             s == objs[id]
             alerts == AlertsOf(input, key)
             times == Times(input, alerts)
             changes == Changes(input, alerts)
  <2>1. input \in AlertLists /\ objs = AlertSightings(input).objs
    BY DEF SightedInv
  <2>2. SightingsSo(input, Len(input) + 1, 0, AlertSightings(input))
    BY <2>1, SightingsMade
  <2>3. Told(input, key, Len(input) + 1, 0) = alerts
    <3>1. \A a \in alerts : a[1] \in Nat /\ Len(input) \in Nat /\ a[1] < Len(input) + 1
      <4> TAKE a \in alerts
      <4>1. a[1] \in DOMAIN input
        BY <2>1, AlertsOfType
      <4> QED
        BY <2>1, <4>1, AlertsType
    <3> QED
      BY <3>1 DEF Told
  <2>4. Sums(input, key, alerts, objs, s)
    <3>1. id = SightingId(key)
      BY <2>1, <2>2 DEF SightingsSo
    <3> HIDE DEF alerts, key
    <3> QED
      BY <2>1, <2>2, <2>3, <3>1 DEF SightingsSo
  <2>5. times \in SUBSET Nat /\ changes \in SUBSET Nat
    <3>1. \A a \in alerts : a[1] \in DOMAIN input
      BY <2>1, AlertsOfType
    <3> QED
      BY <2>1, <3>1, AlertsType DEF Times, Changes
  <2> HIDE DEF key, alerts, times, changes, s, objs, input
  <2>6. IsLeast(s.first_seen, times) /\ IsLeast(s.created, times) /\ IsGreatest(s.last_seen, times)
        /\ IsGreatest(s.modified, changes)
    BY <2>4 DEF Sums, times, changes
  <2>7. s.first_seen = Min(times) /\ s.created = Min(times) /\ s.last_seen = Max(times) /\ s.modified = Max(changes)
    BY <2>5, <2>6, LeastIsMin, GreatestIsMax
  <2> DEFINE refs == s.observed_data_refs
  <2>8. Observes(input, key, alerts, objs, refs)
    BY <2>4 DEF Sums
  <2> HIDE DEF refs
  <2>9. refs # <<>> => /\ Len(refs) = Cardinality(times)
                       /\ \A k \in DOMAIN refs : refs[k] \in DOMAIN objs
    <3> SUFFICES ASSUME refs # <<>> PROVE Len(refs) = Cardinality(times) /\ \A k \in DOMAIN refs : refs[k] \in DOMAIN objs
      OBVIOUS
    <3>1. /\ refs \in Seq({ObservationAt(key, t) : t \in times}) /\ NoRepetition(refs)
          /\ Elements(refs) = {ObservationAt(key, t) : t \in times} /\ Elements(refs) \subseteq DOMAIN objs
      BY <2>8 DEF Observes, times
    <3>2. Len(refs) = Cardinality(times)
      BY <3>1, ObservationsCount
    <3>3. \A k \in DOMAIN refs : refs[k] \in DOMAIN objs
      BY <3>1 DEF Elements
    <3> QED
      BY <3>2, <3>3
  <2>10. s.count = Cardinality(alerts)
    BY <2>4 DEF Sums
  <2> QED
    BY <2>7, <2>9, <2>10 DEF times, changes, refs, Times, Changes, s, alerts, key
<1> QED
  BY <1>1, <1>2, <1>3, PTL DEF Spec

=============================================================================
