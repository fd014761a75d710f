------------------------------ MODULE Timeline ------------------------------
(***************************************************************************)
(* byakugan.timeline: the time-ordered timeline of a case, from the tree or    *)
(* (--elastic) from the documents that byakugan load has pushed, page by page    *)
(* over a point in time, while loaders go on pushing.                              *)
(***************************************************************************)
EXTENDS Inverse, Bags

CONSTANTS
  Loads,        \* the loads considered: sequences of [file, row], a row may be loaded again
  Requests,     \* the requests considered: [host, after, before, only]
  PageSize      \* timeline.PAGE_SIZE

VARIABLES
  load,         \* the rows that the loaders push, in this order
  loaded,       \* how many of them they have pushed
  documents,    \* the documents of the namespace, in the order they were created
  request,      \* what the timeline is asked for
  reader,       \* where the command is
  seen,         \* how many rows had been pushed when it opened its point in time
  snapshot,     \* its point in time: the documents as they were, in the order of the search
  cursor,       \* the sort values of the last hit: how far into the snapshot it is
  entries,      \* the entries it has
  timeline      \* timeline.jsonl, once it is written

timelineVars ==
  <<load, loaded, documents, request, reader, seen, snapshot, cursor, entries, timeline>>

-----------------------------------------------------------------------------
(* The entries, from the tree and from the documents *)

ObjectEntry(row) ==
  [kind |-> "object", object |-> row["car_object"], fields |-> Without(row, {"car_object"})]

EdgeEntry(row) ==
  [kind |-> "relationship", object |-> "",
   fields |-> [f \in DOMAIN row \cap RelationshipEntryFields |-> row[f]]]

\* Rows without a time have no place; nodes are not events.
LocalEntry(item) ==
  IF ~Has(item.row, "timestamp") \/ item.file = "inferred" THEN <<>>
  ELSE IF item.file = "relationships" THEN <<EdgeEntry(item.row)>>
  ELSE <<ObjectEntry(item.row)>>

InvertHit(hit) ==
  IF hit.doc[<<"event.dataset">>] = "rel" THEN InvertRelationship(hit.doc) ELSE InvertObject(hit.doc)

Wanted(entry, r) == r.only \in {"", entry.kind}

InWindow(entry, r) ==
  LET at == entry.fields["timestamp"]
      bounded == r.after # "" \/ r.before # ""
  IN  /\ r.host # "" => Get(entry.fields, "source_host") = r.host
      /\ bounded => /\ at \in DOMAIN Instant
                    /\ r.after # "" => Instant[at] >= Instant[r.after]
                    /\ r.before # "" => Instant[at] <= Instant[r.before]

BadBound(r) == \E b \in {r.after, r.before} : b # "" /\ b \notin DOMAIN Instant

\* The instant, those without one last by their text; an object before its edges.
PrimaryKey(entry) ==
  LET at == entry.fields["timestamp"]
  IN  IF at \in DOMAIN Instant THEN <<0, Instant[at], "", entry.kind>> ELSE <<1, 0, at, entry.kind>>

\* Entries with one key are ordered by their text: a bag of them is a sequence.
SortRows(list) ==
  LET keys == {PrimaryKey(list[k]) : k \in DOMAIN list}
      Tied(key) == SelectSeq(list, LAMBDA e : PrimaryKey(e) = key)
  IN  [key \in keys |-> FoldLeft(LAMBDA b, e : b (+) SetToBag({e}), EmptyBag, Tied(key))]

FilterAndSort(list, r) == SortRows(SelectSeq(list, LAMBDA e : InWindow(e, r)))

BuildTimeline(items, r) ==
  FilterAndSort(SelectSeq(FlattenSeq([k \in DOMAIN items |-> LocalEntry(items[k])]),
                          LAMBDA e : Wanted(e, r)), r)

-----------------------------------------------------------------------------
TimelineInit ==
  /\ load \in Loads /\ request \in Requests
  /\ loaded = 0 /\ documents = <<>>
  /\ reader = "open"
  /\ seen = 0 /\ snapshot = <<>> /\ cursor = 0 /\ entries = <<>>
  /\ timeline = <<>>

(* The loaders *)

Documents(item) ==
  CASE item.file = "relationships" -> ProjectRelationship(item.row) \cup ProjectLookup(item.row)
    [] item.file \in {"inferred", "content"} -> ProjectNode(item.row, item.file)
    [] OTHER -> ProjectEvent(item.row)

SameDocument(a, b) == a.stream = b.stream /\ a.id = b.id

\* Documents are created: one whose id is there already keeps what is there.
Push ==
  /\ loaded < Len(load)
  /\ loaded' = loaded + 1
  /\ documents' = documents \o SetToSeq({n \in Documents(load[loaded + 1]) :
                                            \A k \in DOMAIN documents : ~SameDocument(documents[k], n)})
  /\ UNCHANGED <<load, request, reader, seen, snapshot, cursor, entries, timeline>>

-----------------------------------------------------------------------------
(* timeline --elastic *)

\* The documents the search is about, by time, those of one instant in a fixed order.
SearchHits(docs) ==
  SortSeq(SelectSeq(docs, LAMBDA d : d.stream \notin {"inferred", "content", "lookup"}),
          LAMBDA a, b : a.doc[<<"@timestamp">>] < b.doc[<<"@timestamp">>])

OpenPit ==
  /\ reader = "open"
  /\ reader' = "search"
  /\ snapshot' = SearchHits(documents)
  /\ seen' = loaded
  /\ UNCHANGED <<load, loaded, documents, request, cursor, entries, timeline>>

\* MUTANT of Searched: the search is not bound to the point in time.
SearchedLive == SearchHits(documents)

\* What a page is taken from.
Searched == snapshot

Page ==
  /\ reader = "search"
  /\ LET hits == Upto(SubSeq(Searched, cursor + 1, Len(Searched)), PageSize)
         page == [k \in DOMAIN hits |-> InvertHit(hits[k])]
     IN  /\ cursor' = cursor + Len(hits)
         /\ entries' = entries \o SelectSeq(page, LAMBDA e : Wanted(e, request))
         /\ reader' = IF hits = <<>> THEN "close" ELSE "search"
  /\ UNCHANGED <<load, loaded, documents, request, seen, snapshot, timeline>>

\* The platform does not answer, or says no: the command ends without a timeline.
SearchFails ==
  /\ reader \in {"open", "search"}
  /\ reader' = "failed"
  /\ UNCHANGED <<load, loaded, documents, request, seen, snapshot, cursor, entries, timeline>>

\* The point in time is closed, or expires by itself; then the filters are looked at.
Close ==
  /\ reader = "close"
  /\ IF BadBound(request) THEN reader' = "failed" /\ UNCHANGED timeline
     ELSE /\ timeline' = FilterAndSort(entries, request)
          /\ reader' = IF DOMAIN timeline' = {} THEN "empty" ELSE "ok"
  /\ UNCHANGED <<load, loaded, documents, request, seen, snapshot, cursor, entries>>

TimelineNext == Push \/ OpenPit \/ Page \/ SearchFails \/ Close

=============================================================================
