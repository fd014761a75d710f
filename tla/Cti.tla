-------------------------------- MODULE Cti ---------------------------------
(***************************************************************************)
(* byakugan cti-pull (exchange.opencti, exchange.cti.indicators): the           *)
(* indicators of an OpenCTI platform are pulled page by page, in the order they   *)
(* were modified, while analysts go on modifying them, and kept as documents of    *)
(* a cti-* index.  An incremental pull asks for what was modified after the         *)
(* newest indicator of the last one (--since).                                        *)
(***************************************************************************)
EXTENDS Row

CONSTANTS
  Indicators,     \* the indicators of the platform, numbered in the order it pages equal times
  FirstNodes,     \* what the platform says of them at first
  Nodes,          \* and may say of one: [pattern, type, comparisons, revoked, broken]
  EcsOf,          \* pattern-mapping.yml: the object paths it knows, to their ECS field
  Unindexable,    \* the values that their field cannot hold
  MaxModified,    \* bound on the times of the platform
  MaxChanges,     \* bound on the number of modifications
  MaxPulls,       \* bound on the number of pulls
  PullPageSize,   \* --page-size
  MaxPages        \* --max-pages

ASSUME CtiAssumption ==
  /\ IsFiniteSet(Indicators) /\ Indicators \subseteq Nat
  /\ MaxModified \in Nat /\ PullPageSize \in Nat \ {0}

VARIABLES
  platform,       \* by indicator, the node that the platform has and when it was modified
  revisions,      \* how often an indicator was modified
  pull,           \* the pull: where it is, its cursor, its pages and what it has pulled
  pulls,          \* how many pulls were started
  since,          \* the watermark the next pull is given
  copy,           \* the documents of the cti-* index, by indicator
  overtaken       \* history: the indicators whose present version no pull can come to

ctiVars == <<platform, revisions, pull, pulls, since, copy, overtaken>>

-----------------------------------------------------------------------------
(* A node, and the document it gives *)

\* A node without a STIX id or a pattern gives no indicator.
HasIndicator(node) == node.pattern # ""

NewestOf(objects) ==
  LET times == {objects[i].modified : i \in DOMAIN objects}
  IN  IF times = {} THEN since ELSE Max(times)

\* The values of a pattern by their ECS field, those that the field can hold.
Atomics(node) ==
  LET known == {c \in node.comparisons : c.path \in DOMAIN EcsOf /\ c.value \notin Unindexable}
  IN  [f \in {EcsOf[c.path] : c \in known} |-> {c.value : c \in {d \in known : EcsOf[d.path] = f}}]

\* Why an indicator has no document.
SkipReason(node) ==
  IF node.type # "stix" THEN "pattern_type"
  ELSE IF node.comparisons = {} THEN "no_comparison"
  ELSE IF \A c \in node.comparisons : c.path \notin DOMAIN EcsOf THEN "unmapped"
  ELSE IF DOMAIN Atomics(node) = {} THEN "bad_value" ELSE ""

ToCtiDoc(node) == [atomics |-> Atomics(node), revoked |-> node.revoked, modified |-> node.modified]

\* The _bulk lines index a document under the id of its indicator, over the one it had.
Bulk(docs, objects) ==
  Over([i \in {j \in DOMAIN objects : SkipReason(objects[j]) = ""} |-> ToCtiDoc(objects[i])], docs)

-----------------------------------------------------------------------------
\* Where an indicator stands among the others: by the time it was modified, and among
\* equal times by its number.
Place(i) == <<platform[i].modified, i>>

Before(p, q) == p[1] < q[1] \/ (p[1] = q[1] /\ p[2] < q[2])

Idle == [pc |-> "idle", after |-> <<0, 0>>, pages |-> 0, objects |-> <<>>]

\* The platform has its indicators, several of which may have been modified at one time.
FirstPlatforms ==
  {[i \in Indicators |-> Over([modified |-> at[i]], node)] :
     at \in [Indicators -> 1..MaxModified], node \in FirstNodes}

CtiInit ==
  /\ platform \in FirstPlatforms
  /\ revisions = 0 /\ pulls = 0 /\ since = 0
  /\ pull = Idle /\ copy = <<>> /\ overtaken = {}

(* The platform (external) *)

\* A version may come with any time, one that a pull has already passed too.
Modify(i) ==
  /\ revisions < MaxChanges
  /\ revisions' = revisions + 1
  /\ \E node \in Nodes, t \in 1..MaxModified :
       /\ platform' = [platform EXCEPT ![i] = Over([modified |-> t], node)]
       /\ overtaken' = IF t <= since \/ t <= pull.after[1] THEN overtaken \cup {i} ELSE overtaken \ {i}
  /\ UNCHANGED <<pull, pulls, since, copy>>

\* The n of some indicators that come first, in the order they were modified.
FirstModified(n, some) ==
  {i \in some : Cardinality({j \in some : Before(Place(j), Place(i))}) < n}

\* MUTANT of Remaining: the platform is paged by offset.
RemainingByOffset(after) ==
  LET all == {i \in Indicators : platform[i].modified > since}
  IN  all \ FirstModified(pull.pages * PullPageSize, all)

\* What is still to come for a cursor.
Remaining(after) == {i \in Indicators : platform[i].modified > since /\ Before(after, Place(i))}

\* The cursor after a page: the place of the last of it.
EndCursor(page) == CHOOSE p \in {Place(i) : i \in page} : \A i \in page : ~Before(p, Place(i))

-----------------------------------------------------------------------------
(* The pull *)

\* A new pull comes to all that is newer than the watermark it is given.
StartPull ==
  /\ pull.pc = "idle"
  /\ pulls < MaxPulls
  /\ pulls' = pulls + 1
  /\ pull' = [Idle EXCEPT !.pc = "page"]
  /\ overtaken' = {i \in overtaken : platform[i].modified <= since}
  /\ UNCHANGED <<platform, revisions, since, copy>>

\* An indicator that a later page has again is the later one.  The last page, or the
\* last one allowed, ends the paging.
PullPage ==
  /\ pull.pc = "page"
  /\ LET remaining == Remaining(pull.after)
         page == FirstModified(PullPageSize, remaining)
         taken == {i \in page : HasIndicator(platform[i])}
         more == page # remaining /\ pull.pages + 1 < MaxPages
     IN  /\ pull' = [pc |-> IF more THEN "page" ELSE "write",
                     after |-> IF page = {} THEN pull.after ELSE EndCursor(page),
                     pages |-> pull.pages + 1,
                     objects |-> Over([i \in taken |-> platform[i]], pull.objects)]
         /\ overtaken' = overtaken \ page
  /\ UNCHANGED <<platform, revisions, pulls, since, copy>>

\* The platform is unreachable, refuses or answers something else: nothing is written.
PullFails ==
  /\ pull.pc = "page"
  /\ pull' = Idle
  /\ UNCHANGED <<platform, revisions, pulls, since, copy, overtaken>>

\* One indicator that is not valid STIX fails the bundle; otherwise the bulk lines are
\* written, and the next pull asks for what is newer than the newest of this one: no pull
\* comes to what shares the time at which --max-pages cut this one.
Write ==
  /\ pull.pc = "write"
  /\ pull' = Idle
  /\ IF \E i \in DOMAIN pull.objects : pull.objects[i].broken THEN UNCHANGED <<since, copy, overtaken>>
     ELSE /\ copy' = Bulk(copy, pull.objects)
          /\ since' = NewestOf(pull.objects)
          /\ overtaken' =
               overtaken \cup {i \in Remaining(pull.after) : platform[i].modified = pull.after[1]}
  /\ UNCHANGED <<platform, revisions, pulls>>

CtiNext == (\E i \in Indicators : Modify(i)) \/ StartPull \/ PullPage \/ PullFails \/ Write

=============================================================================
