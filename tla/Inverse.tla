------------------------------ MODULE Inverse -------------------------------
(***************************************************************************)
(* byakugan.elastic.inverse_projection: a document of Elasticsearch back to    *)
(* the entry that the timeline makes of the row itself.  An entry is            *)
(* [kind, object, fields].                                                        *)
(***************************************************************************)
EXTENDS Projection

At(doc, path) == IF path \in DOMAIN doc THEN doc[path] ELSE ""

\* Only the lines of env_vars have an inverse.
Untransform(name, field, value) ==
  LET sources == {v \in DOMAIN Transformed : v[1] = name /\ v[2] = field /\ Transformed[v] = value}
  IN  IF name = "process" /\ field = "env_vars" /\ sources # {} THEN (CHOOSE v \in sources : TRUE)[3]
      ELSE value

\* A function without its blank values.
NonBlank(f) == [k \in {j \in DOMAIN f : f[j] # ""} |-> f[k]]

\* On a process the entity that is the event itself is not an owner.
InvertHeader(doc, name) ==
  LET entity == At(doc, <<"process.entity_id">>)
      simple == [f \in DOMAIN HeaderPath |-> At(doc, <<HeaderPath[f]>>)]
  IN  NonBlank(simple
        @@ ("guid" :> At(doc, <<"event.id">>))
        @@ ("owning_guid" :> IF name = "process" /\ entity = At(doc, <<"event.id">>) THEN "" ELSE entity)
        @@ ("link_confidence" :> At(doc, <<"labels.link_confidence">>)))

\* A fallback has its own capture; the primary has the target, unless it was kept
\* verbatim or a fallback accounts for the target.
InvertGroup(doc, name, group) ==
  LET Kept(e)   == At(doc, Verbatim(name, e.car))
      fallbacks == {group.fallbacks[k] : k \in DOMAIN group.fallbacks}
      target    == At(doc, <<group.target>>)
      primary   == IF group.primary = Nothing THEN ""
                   ELSE IF Kept(group.primary) # "" THEN Kept(group.primary)
                   ELSE IF \E e \in fallbacks : Kept(e) = target THEN "" ELSE target
  IN  [f \in {e.car : e \in fallbacks} |-> Untransform(name, f, At(doc, Verbatim(name, f)))]
      @@ (group.primary.car :> Untransform(name, group.primary.car, primary))

InvertFields(doc, name) ==
  LET plan    == Contract[name]
      grouped == FoldLeft(LAMBDA r, g : InvertGroup(doc, name, g) @@ r, <<>>, plan.groups)
      kept    == plan.natives \cup {plan.outcomeField}
  IN  NonBlank([f \in kept |-> At(doc, Verbatim(name, f))] @@ grouped)

InvertObject(doc) ==
  LET name   == doc[<<"car.object">>]
      native == IF <<"car.native">> \in DOMAIN doc THEN doc[<<"car.native">>] ELSE <<>>
  IN  [kind |-> "object", object |-> name,
       fields |-> ("timestamp" :> doc[<<"car.timestamp">>]) @@ InvertHeader(doc, name)
                  @@ InvertFields(doc, name) @@ native]

-----------------------------------------------------------------------------
RelationshipEntryFields ==
  {"timestamp", "source_host", "relationship", "source_object", "source_guid", "target_object",
   "target_guid", "confidence", "method"}

\* The verbatim copy where its type differs, the target otherwise.
InvertEdgeFields(doc) ==
  LET fields == Edges["rel"]
      Value(f) == IF f.also # "" /\ f.alsoType # f.type /\ At(doc, <<f.also>>) # "" THEN At(doc, <<f.also>>)
                  ELSE At(doc, <<f.ecs>>)
  IN  [c \in {fields[k].car : k \in DOMAIN fields} |->
         Value(fields[CHOOSE k \in DOMAIN fields : fields[k].car = c])]

InvertRelationship(doc) ==
  LET row == InvertEdgeFields(doc)
  IN  [kind |-> "relationship", object |-> "",
       fields |-> NonBlank([f \in RelationshipEntryFields |-> row[f]])]

=============================================================================
