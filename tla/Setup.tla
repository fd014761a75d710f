------------------------------- MODULE Setup --------------------------------
(***************************************************************************)
(* byakugan load --setup (elastic.load.run_setup, run_kibana_setup): loaders   *)
(* that put the rendered tree of templates into Elasticsearch and its spaces     *)
(* and saved objects into Kibana, each item read first and left alone when it is   *)
(* what the tree says, while an operator may edit or remove items.                   *)
(***************************************************************************)
EXTENDS Naturals, Sequences, FiniteSets

CONSTANTS
  Loaders,      \* the loaders that set up at once
  Templates,    \* the component, index and lookup templates, in the order they are put
  Composes,     \* by index template, the component templates it composes
  Spaces,       \* the spaces of dashboards/, in their order
  SavedObjects,     \* by space, its saved objects: one payload, "" for a space without one
  MaxEdits      \* bound on what the operator does

ASSUME SetupAssumption ==
  /\ Templates \in Seq(STRING) /\ Spaces \in Seq(STRING)
  /\ SavedObjects \in [{Spaces[k] : k \in DOMAIN Spaces} -> STRING]

VARIABLES
  stored,       \* by item, what the stack has: "missing", "other" or "rendered"
  setup,        \* by loader, where it is and what failed
  touched,      \* by loader, what the operator touched since it saw or wrote it as rendered
  edits         \* how often the operator did

setupVars == <<stored, setup, touched, edits>>

Steps == Templates \o Spaces

IsSpace(item) == \E k \in DOMAIN Spaces : Spaces[k] = item

Items ==
  {Steps[k] : k \in DOMAIN Steps} \cup ({SavedObjects[s] : s \in DOMAIN SavedObjects} \ {""})

\* A template is not there without the components it composes, nor a saved object
\* without its space.
Possible(has) ==
  /\ \A t \in DOMAIN Composes : has[t] # "missing" => \A c \in Composes[t] : has[c] # "missing"
  /\ \A s \in DOMAIN SavedObjects : SavedObjects[s] # "" /\ has[s] = "missing" => has[SavedObjects[s]] = "missing"

SetupInit ==
  /\ stored \in {has \in [Items -> {"missing", "other"}] : Possible(has)}
  /\ setup = [l \in Loaders |-> [at |-> 1, phase |-> "get", ok |-> TRUE]]
  /\ touched = [l \in Loaders |-> {}]
  /\ edits = 0

Done(l) == setup[l].at > Len(Steps)

Item(l) == Steps[setup[l].at]

\* MUTANT of NextStep: what failed is forgotten.
NextStepForgets(l, ok) ==
  setup' = [setup EXCEPT ![l] = [at |-> @.at + 1, phase |-> "get", ok |-> ok]]

NextStep(l, ok) ==
  setup' = [setup EXCEPT ![l] = [at |-> @.at + 1, phase |-> "get", ok |-> @.ok /\ ok]]

Phase(l, phase) == setup' = [setup EXCEPT ![l].phase = phase]

\* The loader has seen or made the item what the tree says.
Settled(l, item) == touched' = [touched EXCEPT ![l] = @ \ {item}]

Render(l, item) == stored' = [stored EXCEPT ![item] = "rendered"] /\ Settled(l, item)

Refused(l) == NextStep(l, FALSE) /\ UNCHANGED <<stored, touched>>

-----------------------------------------------------------------------------
(* _apply_template *)

\* What is not read as the rendered one is put, an answer other than 200 too.
GetTemplate(l) ==
  /\ ~Done(l) /\ ~IsSpace(Item(l)) /\ setup[l].phase = "get"
  /\ IF stored[Item(l)] = "rendered" THEN NextStep(l, TRUE) /\ Settled(l, Item(l))
     ELSE Phase(l, "put") /\ UNCHANGED touched
  /\ UNCHANGED <<stored, edits>>

\* Elasticsearch refuses an index template whose components it does not have.
PutTemplate(l) ==
  /\ ~Done(l) /\ ~IsSpace(Item(l)) /\ setup[l].phase = "put"
  /\ IF \A c \in Composes[Item(l)] : stored[c] # "missing"
     THEN Render(l, Item(l)) /\ NextStep(l, TRUE)
     ELSE Refused(l)
  /\ UNCHANGED edits

-----------------------------------------------------------------------------
(* _ensure_space and _import_kibana *)

AfterSpace(l) == IF SavedObjects[Item(l)] = "" THEN NextStep(l, TRUE) ELSE Phase(l, "import")

GetSpace(l) ==
  /\ ~Done(l) /\ IsSpace(Item(l)) /\ setup[l].phase = "get"
  /\ CASE stored[Item(l)] = "missing"  -> Phase(l, "post") /\ UNCHANGED touched
       [] stored[Item(l)] = "other"    -> Phase(l, "put") /\ UNCHANGED touched
       [] stored[Item(l)] = "rendered" -> AfterSpace(l) /\ Settled(l, Item(l))
  /\ UNCHANGED <<stored, edits>>

\* A space that is there by now is a conflict: its objects are not imported.
PostSpace(l) ==
  /\ ~Done(l) /\ IsSpace(Item(l)) /\ setup[l].phase = "post"
  /\ IF stored[Item(l)] = "missing" THEN Render(l, Item(l)) /\ AfterSpace(l)
     ELSE Refused(l)
  /\ UNCHANGED edits

\* A space that has gone cannot be updated.
PutSpace(l) ==
  /\ ~Done(l) /\ IsSpace(Item(l)) /\ setup[l].phase = "put"
  /\ IF stored[Item(l)] # "missing" THEN Render(l, Item(l)) /\ AfterSpace(l)
     ELSE Refused(l)
  /\ UNCHANGED edits

\* All of its saved objects, over those that are there.
Import(l) ==
  /\ ~Done(l) /\ IsSpace(Item(l)) /\ setup[l].phase = "import"
  /\ IF stored[Item(l)] # "missing" THEN Render(l, SavedObjects[Item(l)]) /\ NextStep(l, TRUE)
     ELSE Refused(l)
  /\ UNCHANGED edits

\* No connection, or an answer that is an error: the other items are still set up.
RequestFails(l) ==
  /\ ~Done(l)
  /\ Refused(l)
  /\ UNCHANGED edits

-----------------------------------------------------------------------------
(* The operator (external): the objects of a space go with it, and Elasticsearch keeps
   a component that an index template composes *)

Edit(item, value) ==
  LET with == {item} \cup IF IsSpace(item) /\ value = "missing" THEN {SavedObjects[item]} \ {""} ELSE {}
  IN  /\ edits < MaxEdits
      /\ stored[item] # "missing" /\ stored[item] # value
      /\ Possible([stored EXCEPT ![item] = value]) \/ IsSpace(item)
      /\ edits' = edits + 1
      /\ stored' = [i \in Items |-> IF i \in with THEN value ELSE stored[i]]
      /\ touched' = [l \in Loaders |-> touched[l] \cup with]
      /\ UNCHANGED setup

SetupNext ==
  \/ \E l \in Loaders :
       \/ GetTemplate(l) \/ PutTemplate(l)
       \/ GetSpace(l) \/ PostSpace(l) \/ PutSpace(l) \/ Import(l)
       \/ RequestFails(l)
  \/ \E i \in Items, v \in {"missing", "other"} : Edit(i, v)

=============================================================================
