----------------------------- MODULE Projection -----------------------------
(***************************************************************************)
(* byakugan.elastic.projection: a row of the tree to its Elasticsearch        *)
(* documents.  A document is a function from paths to values.  A path is a     *)
(* one-element tuple (an ECS or car.* path of the contract) or                   *)
(* <<"car", object, field>>, where a value of a CAR field is kept verbatim.       *)
(***************************************************************************)
EXTENDS Row

CONSTANTS
  Contract,     \* model/projection/objects: by object, [groups, natives, category, types,
                \* outcomes, outcomeField]; a group is [target, type, primary, fallbacks]
  Edges,        \* relationships, inferred and content: sequences of [car, ecs, type, also, alsoType]
  HeaderPath,   \* the plain copies of the header: field to path
  Confidence,   \* the words of link_confidence that have a number
  Coerced,      \* <<type, value>> to what it is coerced to, where that is not the value itself
  Transformed,  \* <<object, field, value>> to its ECS spelling, where that differs
  Instant       \* the timestamps that parse, to the instant they stand for

Failed == "failed"

\* The primary of a group without one, and the outcome field of an object without one.
Nothing == [car |-> "", also |-> <<>>]

\* A value that does not parse as the type of its target fails.
Coerce(value, type) == IF <<type, value>> \in DOMAIN Coerced THEN Coerced[<<type, value>>] ELSE value

Transform(name, field, value) ==
  IF <<name, field, value>> \in DOMAIN Transformed THEN Transformed[<<name, field, value>>] ELSE value

Verbatim(name, field) == <<"car", name, field>>

Related == {"related.hosts", "related.user", "related.ip", "related.hash"}

Parses(row, f) == Has(row, f) /\ row[f] \in DOMAIN Instant

-----------------------------------------------------------------------------
(* Documents *)

Set(doc, path, value) == (path :> value) @@ doc

SetIf(doc, known, path, value) == IF known THEN Set(doc, path, value) ELSE doc

\* A pivot collects the values of the fields that feed it, any other path has the last one.
Also(doc, paths, value) ==
  FoldLeft(LAMBDA d, p :
             Set(d, <<p>>, IF p \notin Related THEN value
                           ELSE {value} \cup (IF <<p>> \in DOMAIN d THEN d[<<p>>] ELSE {})),
           doc, paths)

Header(doc, row, name) ==
  LET simple == {f \in DOMAIN HeaderPath : Has(row, f)}
      copied == [p \in {<<HeaderPath[f]>> : f \in simple} |->
                   row[CHOOSE f \in simple : <<HeaderPath[f]>> = p]] @@ doc
      id     == SetIf(copied, Has(row, "guid"), <<"event.id">>, Get(row, "guid"))
      entity == OrElse(row, "owning_guid", IF name = "process" THEN Get(row, "guid") ELSE "")
      owned  == SetIf(id, entity # "", <<"process.entity_id">>, entity)
      word   == Get(row, "link_confidence")
      label  == SetIf(owned, word # "", <<"labels.link_confidence">>, word)
      number == SetIf(label, word \in DOMAIN Confidence, <<"car.link_confidence">>, Confidence[word])
      native == DOMAIN row \cap Native
  IN  SetIf(number, native # {}, <<"car.native">>, [f \in native |-> row[f]])

\* The entries of a group that the row has, the primary first.
Entries(group, row) ==
  SelectSeq(<<group.primary>> \o group.fallbacks, LAMBDA e : Has(row, e.car))

\* MUTANT of Group: only a fallback that loses the target is kept verbatim.
GroupWithoutWinner(doc, row, name, group) ==
  LET Raw(e)     == Transform(name, e.car, row[e.car])
      Value(e)   == Coerce(Raw(e), group.type)
      entries    == Entries(group, row)
      fit        == SelectSeq(entries, LAMBDA e : Value(e) # Failed)
      kept       == SelectSeq(entries, LAMBDA e : ~(fit # <<>> /\ e = fit[1]))
      target     == SetIf(doc, fit # <<>>, <<group.target>>, Value(fit[1]))
      captured   == FoldLeft(LAMBDA d, e : Set(d, Verbatim(name, e.car), Raw(e)), target, kept)
  IN  FoldLeft(LAMBDA d, e : Also(d, e.also, Value(e)), captured, fit)

\* A value that does not get the target, or gets it in the place of the primary, is
\* kept verbatim too.
Group(doc, row, name, group) ==
  LET Raw(e)     == Transform(name, e.car, row[e.car])
      Value(e)   == Coerce(Raw(e), group.type)
      entries    == Entries(group, row)
      fit        == SelectSeq(entries, LAMBDA e : Value(e) # Failed)
      Plain(e)   == fit # <<>> /\ e = fit[1] /\ e = group.primary
      kept       == SelectSeq(entries, LAMBDA e : ~Plain(e))
      target     == SetIf(doc, fit # <<>>, <<group.target>>, Value(fit[1]))
      captured   == FoldLeft(LAMBDA d, e : Set(d, Verbatim(name, e.car), Raw(e)), target, kept)
  IN  FoldLeft(LAMBDA d, e : Also(d, e.also, Value(e)), captured, fit)

ObjectFields(doc, row, name) ==
  LET grouped == FoldLeft(LAMBDA d, g : Group(d, row, name, g), doc, Contract[name].groups)
      natives == {f \in Contract[name].natives : Has(row, f)}
  IN  [p \in {Verbatim(name, f) : f \in natives} |-> row[p[3]]] @@ grouped

\* http.request.method: the one ECS field that is built from the action.
Derived(doc, row, name) ==
  SetIf(doc, name = "http" /\ Has(row, "car_action"), <<"http.request.method">>,
        IF Get(row, "car_action") = "tunnel" THEN "CONNECT" ELSE Get(row, "car_action"))

EventDefaults(doc, row, name) ==
  LET plan    == Contract[name]
      action  == Get(row, "car_action")
      typed   == SetIf(Set(doc, <<"event.category">>, plan.category),
                       action \in DOMAIN plan.types, <<"event.type">>, plan.types[action])
      raw     == Get(row, plan.outcomeField)
      kept    == SetIf(typed, raw # "", Verbatim(name, plan.outcomeField), raw)
      boolean == Coerce(raw, "boolean")
  IN  IF action \in DOMAIN plan.outcomes THEN Set(typed, <<"event.outcome">>, plan.outcomes[action])
      ELSE SetIf(kept, raw # "" /\ boolean # Failed, <<"event.outcome">>,
                 IF boolean = "true" THEN "success" ELSE "failure")

-----------------------------------------------------------------------------
(* The documents of a row, each with its stream and its id: none without a time *)

Document(stream, id, doc) == [stream |-> stream, id |-> id, doc |-> doc]

ObjectId(row, name) ==
  <<Get(row, "source_host"), name, Get(row, "guid"), Get(row, "car_action"),
    Get(row, "timestamp"), Get(row, "target_guid"), Get(row, "access_level")>>

ProjectEvent(row) ==
  LET name  == row["car_object"]
      base  == (<<"car.object">> :> name) @@ (<<"event.dataset">> :> "object")
               @@ (<<"@timestamp">> :> Instant[row["timestamp"]])
               @@ (<<"car.timestamp">> :> row["timestamp"])
      doc   == EventDefaults(Derived(ObjectFields(Header(base, row, name), row, name), row, name),
                             row, name)
  IN  IF ~Parses(row, "timestamp") THEN {}
      ELSE {Document(name, ObjectId(row, name), doc)}

\* The fields of an edge that coerce; where the copy has another type it is verbatim.
EdgeFields(row, kind) ==
  FoldLeft(LAMBDA d, f :
             LET raw   == Get(row, f.car)
                 dated == f.type = "date"
                 known == IF dated THEN raw \in DOMAIN Instant ELSE raw # "" /\ Coerce(raw, f.type) # Failed
                 value == IF dated THEN Instant[raw] ELSE Coerce(raw, f.type)
             IN  IF ~known THEN d
                 ELSE SetIf(Set(d, <<f.ecs>>, value), f.also # "", <<f.also>>,
                            IF f.alsoType # f.type THEN raw ELSE value),
           <<"event.dataset">> :> kind, Edges[kind])

ProjectEdgeRow(row, kind, id) ==
  LET doc == EdgeFields(row, kind)
  IN  IF <<"@timestamp">> \in DOMAIN doc THEN {Document(kind, id, doc)} ELSE {}

RelationshipId(row) ==
  <<Get(row, "source_host"), Get(row, "source_guid"), Get(row, "relationship"),
    Get(row, "target_guid"), Get(row, "timestamp"), Get(row, "class"), Get(row, "identity_key")>>

ProjectRelationship(row) == ProjectEdgeRow(row, "rel", RelationshipId(row))

\* Inferred and content nodes: their id is the document's.
ProjectNode(row, kind) == ProjectEdgeRow(row, kind, <<row["node_id"]>>)

\* One document per end of the edge that has a guid, each pointing to the other end.
ProjectLookup(row) ==
  LET End(direction, local, localObject, related, relatedObject, inferred) ==
        IF local = "" THEN {}
        ELSE LET entity == IF localObject = "process" THEN local ELSE ""
                 all == (<<"event.id">> :> local) @@ (<<"process.entity_id">> :> entity)
                   @@ (<<"car.related.relationship">> :> Get(row, "relationship"))
                   @@ (<<"car.related.direction">> :> direction)
                   @@ (<<"car.related.object">> :> relatedObject)
                   @@ (<<"car.related.guid">> :> related)
                   @@ (<<"car.related.class">> :> Get(row, "class"))
                   @@ (<<"car.related.inferred">> :> inferred)
                   @@ (<<"car.related.timestamp">> :> Get(row, "timestamp"))
                 id == <<local, direction, Get(row, "relationship"), related,
                         Get(row, "timestamp"), Get(row, "class"), Get(row, "identity_key")>>
             IN  {Document("lookup", id, [p \in {q \in DOMAIN all : all[q] # ""} |-> all[p]])}
      out == End("out", Get(row, "source_guid"), Get(row, "source_object"), Get(row, "target_guid"),
                 Get(row, "target_object"), IF Get(row, "inferred_end") = "target" THEN "yes" ELSE "no")
      in  == End("in", Get(row, "target_guid"), Get(row, "target_object"), Get(row, "source_guid"),
                 Get(row, "source_object"), IF Get(row, "inferred_end") = "source" THEN "yes" ELSE "no")
  IN  IF ~Parses(row, "timestamp") THEN {} ELSE out \cup in

=============================================================================
