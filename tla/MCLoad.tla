------------------------------- MODULE MCLoad -------------------------------
(***************************************************************************)
(* Load on small trees, with the projection of ProjectTree.                 *)
(***************************************************************************)
EXTENDS Load, TLC

P == INSTANCE ProjectTree WITH SourceOrder <- <<"s1", "s2">>

MCSource == {"s1", "s2"}
MCStream == {"process", "content"}
MCProject(t) == P!ProjectTree(t)

Document(id, body) == [id |-> id, body |-> body]
MCDoc == {Document(id, 1) : id \in {"p1", "p2", "big", "c", "d"}} \cup {Document("c", 2)}

\* "big" is larger than a request may be: MaxBytes is 2.
MCSize(d) == IF d.id = "big" THEN 3 ELSE 1

Row(stream, doc) ==
  [raises |-> FALSE, items |-> <<<<stream, doc>>>>, lookup |-> <<>>]
Timeless == [raises |-> FALSE, items |-> <<>>, lookup |-> <<>>]
Broken == [raises |-> TRUE, items |-> <<>>, lookup |-> <<>>]

\* One source, no id twice.
OneSource == [s \in {"s1"} |->
  <<Row("process", Document("p1", 1)), Broken,
    Row("process", Document("big", 1)), Timeless, Row("process", Document("p2", 1))>>]

\* Two sources that carry the same content node with another body.
TwoSources == [s \in {"s1", "s2"} |->
  IF s = "s1"
  THEN <<Row("process", Document("p1", 1)), Row("content", Document("c", 1))>>
  ELSE <<Row("process", Document("p2", 1)), Row("content", Document("c", 2))>>]

\* The first source again, and another one with a content node.
GrownTree == [s \in {"s1", "s2"} |->
  IF s = "s1" THEN OneSource["s1"] ELSE <<Row("content", Document("d", 1))>>]

AnyTree == {OneSource, TwoSources}
DistinctIds == {OneSource, GrownTree}

MCOutDirOf == [l \in Loader |-> l]

Opt(mode, ns, force) == [mode |-> mode, ns |-> ns, force |-> force]
PushOnly == {Opt("push", ns, FALSE) : ns \in Namespace}
MostOptions == PushOnly \cup
  {Opt("bundle", ns, FALSE) : ns \in Namespace} \cup {Opt("push", ns, TRUE) : ns \in Namespace}

Symmetry == Permutations(Loader)
=============================================================================
