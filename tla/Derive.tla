------------------------------- MODULE Derive -------------------------------
(***************************************************************************)
(* The relationships of one source (byakugan/superset.py, derive.py).          *)
(* DECLARED edges are read off the links the cascade left on the rows.          *)
(* DERIVED ones join rows that share a strong identity; they may end at a node   *)
(* that no row is about, an inferred node.  Content nodes stand for bytes and     *)
(* accounts.  A list of edges is a set here.                                       *)
(***************************************************************************)
EXTENDS Row

CONSTANTS
  SpokeVerb,         \* spoke_owner of cascade_relationships.yml, by <<object, action>>
  DefaultSpokeVerb,
  EdgeVerb,          \* edges of cascade_relationships.yml
  AssociationProps,  \* association_properties: by edge, the fields each property may come from
  Accepted,          \* by identity, the values its accept patterns match
  Normalized,        \* the identities whose values are compared without their case
  GuidForm,          \* by identity with a guid_form, the guids of the values that have one
  Prefix,            \* the node id prefix of a content field
  Content,           \* the content identities: [name, fields, properties]
  Links, Actors, Reconstructs,   \* the rules of relationships.yml `derived`
  ListFields,        \* the fields whose values are lists
  PropCap

Guid(row) == Get(row, "guid")
End(row) == <<row["car_object"], Guid(row)>>

-----------------------------------------------------------------------------
(* Declared edges *)

\* The first source of a property that the row has supplies it.
EdgeProperties(edge, row) ==
  LET spec == IF edge \in DOMAIN AssociationProps THEN AssociationProps[edge] ELSE <<>>
      there(name) == SelectInSeq(spec[name], LAMBDA f : Has(row, f))
  IN  [name \in {n \in DOMAIN spec : there(n) # 0} |-> row[spec[name][there(name)]]]

\* MUTANT of Declared: an edge whose other end is not known.
DeclaredDangling(row, verb, source, target, confidence, method, properties) ==
  IF source[2] = target[2] THEN {}
  ELSE {[timestamp |-> Time(row), source_host |-> Get(row, "source_host"), relationship |-> verb,
         source |-> source, target |-> target, confidence |-> confidence, method |-> method,
         class |-> "declared", identity_key |-> "", inferred_end |-> "", properties |-> properties]}

Declared(row, verb, source, target, confidence, method, properties) ==
  IF source[2] = "" \/ target[2] = "" \/ source[2] = target[2] THEN {}
  ELSE {[timestamp |-> Time(row), source_host |-> Get(row, "source_host"), relationship |-> verb,
         source |-> source, target |-> target, confidence |-> confidence, method |-> method,
         class |-> "declared", identity_key |-> "", inferred_end |-> "", properties |-> properties]}

LinkMethod(row) == CASE Get(row, "link_confidence") = "definitive" -> "native_guid"
                     [] Get(row, "link_confidence") = "heuristic" -> "pid_window"
                     [] OTHER -> ""

VerbOf(row) == LET step == <<row["car_object"], Get(row, "car_action")>>
               IN  IF step \in DOMAIN SpokeVerb THEN SpokeVerb[step] ELSE DefaultSpokeVerb

Process(guid) == <<"process", guid>>

DeclaredEdges(row) ==
  LET obj == row["car_object"]
      is(o, a) == obj = o /\ Get(row, "car_action") = a
      process(field) == Process(Get(row, field))
      linked == Get(row, "link_confidence")
      native(field) == Get(row, "native." \o field)
      session(field, link) ==
        Declared(row, EdgeVerb["auth_session"], End(row), <<"user_session", native(field)>>,
                 native(link), "luid", <<>>)
  IN  (IF obj = "process" THEN {}
       ELSE Declared(row, VerbOf(row), process("owning_guid"), End(row), linked, LinkMethod(row),
                     EdgeProperties(<<obj, Get(row, "car_action")>>, row)))
      \cup (IF ~is("process", "create") THEN {}
            ELSE Declared(row, EdgeVerb["parent_process"], process("parent_guid"), End(row),
                          linked, LinkMethod(row), <<>>))
      \cup (IF ~is("process", "access") THEN {}
            ELSE Declared(row, EdgeVerb["process_access"], process("owning_guid"),
                          process("target_guid"), linked, LinkMethod(row),
                          EdgeProperties(<<"edge", "process_access">>, row)))
      \cup (IF ~is("process", "modify") THEN {}
            ELSE Declared(row, EdgeVerb["process_modify"], process("native.modifier_process_guid"),
                          End(row), native("modifier_process_link"), "native_guid", <<>>))
      \cup (IF obj = "flow" THEN {}
            ELSE Declared(row, EdgeVerb["flow_contains"], <<"flow", native("flow_guid")>>,
                          End(row), native("flow_link"), "capture_uid", <<>>))
      \cup Declared(row, EdgeVerb["file_executed"], process("native.executed_as_process_guid"),
                    <<"file", Guid(row)>>, native("executed_as_process_link"), "image_path", <<>>)
      \cup Declared(row, EdgeVerb["thread_injection"], process("owning_guid"),
                    process("native.target_process_guid"), native("target_process_link"),
                    "native_guid", EdgeProperties(<<"edge", "thread_injection">>, row))
      \cup session("target_session_guid", "target_session_link")
      \cup session("subject_session_guid", "subject_session_link")

EdgesFromEvents(rows) == UNION {DeclaredEdges(rows[k]) : k \in DOMAIN rows}

-----------------------------------------------------------------------------
(* Derived edges between rows *)

Accepts(identity, v) == identity \notin DOMAIN Accepted \/ v \in Accepted[identity]

Normalize(identity, v) == IF identity \in Normalized THEN Lower(v) ELSE v

DerivedEdge(rule, row, source, target, key, inferredEnd) ==
  [timestamp |-> Time(row), source_host |-> Get(row, "source_host"),
   relationship |-> rule.relationship, source |-> source, target |-> target,
   confidence |-> rule.confidence, method |-> rule.method, class |-> "derived",
   identity_key |-> key, inferred_end |-> inferredEnd, properties |-> <<>>]

\* A field that holds a list joins by each of its values.
Values(row, f) == IF ~Has(row, f) THEN <<>>
                  ELSE IF f \in ListFields THEN row[f] ELSE <<row[f]>>

Candidates(rows, rule, pair, s, v) ==
  {t \in DOMAIN rows : /\ rows[t]["car_object"] = rule.target /\ Has(rows[t], "guid")
                       /\ SameHost(rows[t], s)
                       /\ \E w \in ToSet(Values(rows[t], pair.target)) :
                            /\ Accepts(rule.identity, w)
                            /\ Normalize(rule.identity, w) = Normalize(rule.identity, v)
                       /\ Guid(rows[t]) # Guid(s)}

\* One candidate is it; several are narrowed by the preferred pair of fields.
Disambiguate(rows, rule, s, candidates) ==
  LET preferred == {t \in candidates : Lower(Get(rows[t], rule.prefer.target)) =
                                       Lower(Get(s, rule.prefer.source))}
  IN  IF Cardinality(candidates) = 1 THEN candidates
      ELSE IF Has(s, rule.prefer.source) /\ Cardinality(preferred) = 1 THEN preferred
      ELSE {}

\* The ways in which rows may find their other end: the rule, the pair of fields (the
\* strongest hash first), the row and its value.
LinkAttempts(rows) ==
  LET sources(r) == {k \in DOMAIN rows : rows[k]["car_object"] = Links[r].source /\ Has(rows[k], "guid")}
  IN  UNION {UNION {UNION {{<<r, p, k, i>> : i \in DOMAIN Values(rows[k], Links[r].pairs[p].source)} :
                      k \in sources(r)} : p \in DOMAIN Links[r].pairs} : r \in DOMAIN Links}

\* The edge that an attempt makes, if the other end is told by it.
LinksBy(rows, a) ==
  LET rule == Links[a[1]]
      pair == rule.pairs[a[2]]
      s == rows[a[3]]
      v == Values(s, pair.source)[a[4]]
      ends == IF Accepts(rule.identity, v)
              THEN Disambiguate(rows, rule, s, Candidates(rows, rule, pair, s, v)) ELSE {}
      at(t) == IF Has(s, "timestamp") \/ ~Has(rows[t], "timestamp") THEN s
               ELSE With(s, "timestamp", Time(rows[t]))
  IN  {DerivedEdge(rule, at(t), End(s), End(rows[t]), pair.source, "") : t \in ends}

\* Of the attempts of one rule the first one to join two rows makes their edge.
LinkEdges(rows) ==
  LET made == [a \in LinkAttempts(rows) |-> LinksBy(rows, a)]
      before(b, a) == /\ b[1] = a[1]
                      /\ \E n \in 2..4 : b[n] < a[n] /\ \A m \in 2..(n - 1) : b[m] = a[m]
      linked(a, e) == \E b \in DOMAIN made : /\ before(b, a)
                                             /\ \E d \in made[b] : d.source = e.source /\ d.target = e.target
  IN  UNION {{e \in made[a] : ~linked(a, e)} : a \in DOMAIN made}

InScope(on, row) ==
  CASE on[1] = "*" -> TRUE
    [] on[1] = "spokes" -> row["car_object"] # "process"
    [] OTHER -> /\ row["car_object"] = on[1]
                /\ Len(on) > 1 => Get(row, "car_action") = on[2]

\* The account the first of the fields with a real SID names.
Account(row, fields) ==
  LET k == SelectInSeq(fields, LAMBDA f : Has(row, f) /\ Accepts("sid", row[f]))
  IN  IF k = 0 THEN <<>> ELSE <<fields[k], Prefix[fields[k]] \o Normalize("sid", row[fields[k]])>>

\* What the account did that the row is about, by a rule.
ActedOn(rule, row) ==
  LET source == Account(row, rule.fields)
      target == Account(row, rule.target_fields)
      edge(end) == {DerivedEdge(rule, row, <<"user_account", source[2]>>, end, source[1], "")}
  IN  IF ~Has(row, "guid") \/ ~InScope(rule.on, row) \/ source = <<>> THEN {}
      ELSE IF rule.target_fields = <<>> THEN edge(End(row))
      ELSE IF target = <<>> THEN {}
      ELSE IF target[2] = source[2] THEN {}
      ELSE edge(<<"user_account", target[2]>>)

ActorEdges(rows) == UNION {ActedOn(Actors[r], rows[k]) : r \in DOMAIN Actors, k \in DOMAIN rows}

-----------------------------------------------------------------------------
(* Reconstruction of what the rows refer to and no row is about *)

Observed(rows) == {<<Get(rows[k], "source_host"), rows[k]["car_object"], Guid(rows[k])>> :
                     k \in {j \in DOMAIN rows : Has(rows[j], "guid")}}

\* The guid that the missing node would carry, "" if the value has none.
AsGuid(identity, v) ==
  IF identity \notin DOMAIN GuidForm THEN v
  ELSE IF v \in DOMAIN GuidForm[identity] THEN GuidForm[identity][v] ELSE ""

\* MUTANT of Inference: without asking whether a row is about the node.
InferenceAlways(rows, rule, row) ==
  IF InScope(rule.on, row) /\ Has(row, rule.reference) /\ Has(row, "guid") /\ ~Has(row, rule.unless_linked)
  THEN <<[node |-> <<rule.node, AsGuid(rule.identity, row[rule.reference])>>,
          observed |-> IF rule.observed = <<>> THEN End(row)
                       ELSE <<rule.observed.object, Get(row, rule.observed.field)>>]>>
  ELSE <<>>

\* What the rule infers from the row, <<>> if nothing.
Inference(rows, rule, row) ==
  LET missing == AsGuid(rule.identity, row[rule.reference])
      end == IF rule.observed = <<>> THEN End(row)
             ELSE <<rule.observed.object, Get(row, rule.observed.field)>>
  IN  IF /\ InScope(rule.on, row) /\ Has(row, rule.reference) /\ Has(row, "guid")
         /\ Accepts(rule.identity, row[rule.reference])
         /\ ~Has(row, rule.unless_linked)
         /\ missing \notin {"", Guid(row)}
         /\ <<Get(row, "source_host"), rule.node, missing>> \notin Observed(rows)
         /\ end[2] # ""
      THEN <<[node |-> <<rule.node, missing>>, observed |-> end]>> ELSE <<>>

NewNode(rule, row, id) ==
  [node_id |-> id, source_host |-> Get(row, "source_host"), object |-> rule.node,
   identity_key |-> rule.identity, method |-> rule.method, reason |-> {}, corroborated_by |-> {},
   properties |-> <<>>, conflicts |-> {}, first_seen |-> 0, last_seen |-> 0]

Seen(node, ts) ==
  IF ts = 0 THEN node
  ELSE [node EXCEPT !.first_seen = IF @ = 0 \/ ts < @ THEN ts ELSE @,
                    !.last_seen = IF ts > @ THEN ts ELSE @]

\* A value that the node already has otherwise is kept beside it.
Corroborate(node, rule, row, by) ==
  LET given == {p \in DOMAIN rule.properties : Has(row, rule.properties[p])}
      value(p) == row[rule.properties[p]]
  IN  Seen([node EXCEPT !.reason = @ \cup {rule.name},
                        !.corroborated_by = @ \cup {by},
                        !.properties = @ @@ [p \in given |-> value(p)],
                        !.conflicts = @ \cup {<<p, value(p)>> : p \in
                          {q \in given : Has(node.properties, q) /\ node.properties[q] # value(q)}}],
           Time(row))

Verb(rule, row) == IF rule.relationship = "spoke_owner" THEN VerbOf(row) ELSE rule.relationship

\* All that the rules infer, rule by rule and row by row.
Inferences(rows) ==
  FlattenSeq([r \in DOMAIN Reconstructs |->
    FlattenSeq([k \in DOMAIN rows |->
      LET found == Inference(rows, Reconstructs[r], rows[k])
      IN  IF found = <<>> THEN <<>>
          ELSE <<[rule |-> Reconstructs[r], row |-> rows[k],
                  node |-> found[1].node, observed |-> found[1].observed]>>])])

\* Where the node is that an inference is of, 0 if it is not known yet.
NodeAt(nodes, t) ==
  SelectInSeq(nodes, LAMBDA n : n.node_id = t.node[2] /\ n.source_host = Get(t.row, "source_host"))

KnownNodes(nodes, t) ==
  IF NodeAt(nodes, t) # 0 THEN nodes ELSE Append(nodes, NewNode(t.rule, t.row, t.node[2]))

Referred(nodes, t) ==
  LET known == KnownNodes(nodes, t)
  IN  [known EXCEPT ![NodeAt(known, t)] = Corroborate(@, t.rule, t.row, t.observed[2])]

InferredEdge(t) ==
  LET rule == [relationship |-> Verb(t.rule, t.row), confidence |-> "inferred", method |-> t.rule.method]
  IN  IF t.rule.end = "source"
      THEN DerivedEdge(rule, t.row, t.node, t.observed, t.rule.identity, "source")
      ELSE DerivedEdge(rule, t.row, t.observed, t.node, t.rule.identity, "target")

\* The nodes in the order they were first referred to.
Reconstruct(rows) ==
  LET turns == Inferences(rows)
  IN  [nodes |-> FoldLeft(Referred, <<>>, turns), edges |-> {InferredEdge(turns[i]) : i \in DOMAIN turns}]

-----------------------------------------------------------------------------
(* Content nodes: the same bytes, the same account *)

\* What a row says of a content identity by its field number j.
Mention(identity, row, j) ==
  LET f == identity.fields[j]
  IN  IF ~Has(row, f) \/ ~Accepts(identity.name, row[f]) THEN <<>>
      ELSE <<[node |-> Prefix[f] \o Normalize(identity.name, row[f]), field |-> f,
              row |-> row, properties |-> identity.properties]>>

\* The mentions of content, by identity, then row, then field.
Mentions(rows) ==
  FlattenSeq([i \in DOMAIN Content |->
    FlattenSeq([k \in DOMAIN rows |->
      FlattenSeq([j \in DOMAIN Content[i].fields |-> Mention(Content[i], rows[k], j)])])])

ContentNodes(rows) ==
  LET mentions == Mentions(rows)
      of(id) == SelectSeq(mentions, LAMBDA m : m.node = id)
      node(id) ==
        LET values(p) == Distinct(FlattenSeq([i \in DOMAIN of(id) |->
                           IF p \in of(id)[i].properties /\ Has(of(id)[i].row, p)
                           THEN <<of(id)[i].row[p]>> ELSE <<>>]))
            times == {Time(of(id)[i].row) : i \in DOMAIN of(id)} \ {0}
        IN  [identity_key |-> of(id)[1].field, ref_count |-> Len(of(id)),
             properties |-> [p \in {q \in of(id)[1].properties : values(q) # <<>>} |->
                               ToSet(Upto(values(p), PropCap))],
             first_seen |-> IF times = {} THEN 0 ELSE Min(times),
             last_seen |-> IF times = {} THEN 0 ELSE Max(times)]
  IN  [id \in {mentions[i].node : i \in DOMAIN mentions} |-> node(id)]

EntityRefs(rows) ==
  {<<Get(m.row, "source_host"), End(m.row), m.node, m.field>> :
     m \in {n \in ToSet(Mentions(rows)) : Has(n.row, "guid")}}

-----------------------------------------------------------------------------
(* The store of one source *)

EmptyStore == [relationships |-> {}, inferred |-> <<>>, content |-> <<>>, refs |-> {}]

InsertEdges(store, edges) == [store EXCEPT !.relationships = @ \cup edges]

\* Inferred nodes are kept by their id: the last node with an id replaces the others.
InsertInferred(store, nodes) ==
  LET ids == {nodes[k].node_id : k \in DOMAIN nodes}
  IN  [store EXCEPT !.inferred =
         Over([id \in ids |-> nodes[SelectLastInSeq(nodes, LAMBDA n : n.node_id = id)]], @)]

DeriveInto(store, rows) ==
  LET inferred == Reconstruct(rows)
      joined == InsertEdges(store, LinkEdges(rows) \cup ActorEdges(rows) \cup inferred.edges)
  IN  [InsertInferred(joined, inferred.nodes)
         EXCEPT !.content = Over(ContentNodes(rows), @), !.refs = @ \cup EntityRefs(rows)]
=============================================================================
