--------------------------- MODULE EvidenceStore ---------------------------
(***************************************************************************)
(* What a Byakugan load promises about the Elastic data streams it feeds,   *)
(* with no loader, request, manifest or crash in sight: evidence is only    *)
(* ever added, an id once stored keeps its body, and a load that is         *)
(* remembered as complete stands for documents that are really there.       *)
(***************************************************************************)
CONSTANTS
  Index,    \* the data streams, one per namespace and stream family
  Doc,      \* the documents, records with an id and a body
  Claimed   \* the pairs of a data stream and an id a load may vouch for

VARIABLES
  store,    \* the documents of each data stream
  claims    \* the <<index, id>> pairs vouched for

Ids(docs) == {d.id : d \in docs}

Init ==
  /\ store = [k \in Index |-> {}]
  /\ claims = {}

\* Documents with new and distinct ids become part of one data stream.
Create ==
  \E k \in Index, added \in SUBSET Doc :
    /\ Ids(added) \cap Ids(store[k]) = {}
    /\ \A d, e \in added : d.id = e.id => d = e
    /\ store' = [store EXCEPT ![k] = @ \cup added]
    /\ UNCHANGED claims

\* The set of documents vouched for changes to one that is present.
Vouch ==
  /\ claims' \in SUBSET Claimed
  /\ \A c \in claims' : c[2] \in Ids(store[c[1]])
  /\ UNCHANGED store

Next == Create \/ Vouch

vars == <<store, claims>>

Spec == Init /\ [][Next]_vars
=============================================================================
