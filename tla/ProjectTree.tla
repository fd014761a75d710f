----------------------------- MODULE ProjectTree -----------------------------
(***************************************************************************)
(* project_tree of byakugan/elastic/load.py: every row of every source of a *)
(* CAR tree becomes documents of the data streams.                          *)
(*                                                                         *)
(* A tree maps each built source to its rows, in the order project_tree     *)
(* reads its files: the object files, the relationships, the inferred and   *)
(* the content nodes.  Of a row the model keeps what decides its documents: *)
(*   raises    whether parsing or projecting it raises                      *)
(*   items     the <<stream, doc>> pairs it projects to; none: no timestamp *)
(*   lookup    the car-relationships pairs the second pass over             *)
(*             car_relationships.jsonl adds; <<>> for any other row         *)
(***************************************************************************)
EXTENDS Naturals, Sequences, SequencesExt

CONSTANTS
  Stream,       \* stream families
  SourceOrder   \* the sources, sorted by name

\* _consume in the primary pass, and in the derived pass over the edges.
Projected(rows) == FlattenSeq([i \in 1..Len(rows) |->
                     IF rows[i].raises THEN <<>> ELSE rows[i].items])

LookedUp(rows) == FlattenSeq([i \in 1..Len(rows) |->
                    IF rows[i].raises THEN <<>> ELSE rows[i].lookup])

\* All documents of one source: the primary passes, then the lookup pass.
Contribution(rows) == Projected(rows) \o LookedUp(rows)

\* The streams, in first-contributing-source order.
ProjectTree(t) ==
  LET pairs == FlattenSeq([i \in 1..Len(SourceOrder) |->
                 IF SourceOrder[i] \in DOMAIN t
                 THEN Contribution(t[SourceOrder[i]]) ELSE <<>>])
      Of(f) == SelectSeq(pairs, LAMBDA p : p[1] = f)
  IN  [f \in Stream |-> [i \in 1..Len(Of(f)) |-> Of(f)[i][2]]]
=============================================================================
