------------------------------ MODULE Cascade ------------------------------
(***************************************************************************)
(* What byakugan makes of the evidence of a case, row by row: each source is   *)
(* parsed, folded, enriched and exported by itself (pipeline.process_file),     *)
(* then its relationships are derived.  When the sources are built, a derived     *)
(* pass may be run again over a tree (derive.run) and the rows of all sources       *)
(* converge (crosssource.converge).                                                   *)
(***************************************************************************)
EXTENDS Enrich, Stix, Converge, Gate

CONSTANTS
  Header,        \* store.HEADER
  UserCanon,     \* normalize.user_canon, where it changes a name
  Cases          \* the cases considered: sequences of sources

\* A case lists sources and a source lists rows; every row is of an object of the model and
\* of a host, and a thread if it names the target of an injection.
IsList(l) == l \in Seq({l[k] : k \in DOMAIN l})
IsRow(row) ==
  /\ {"car_object", "source_host"} \subseteq DOMAIN row /\ Time(row) \in Nat
  /\ \E o \in DOMAIN Objects : row["car_object"] = Objects[o]
  /\ Has(row, "native.target_process_guid") => row["car_object"] = "thread"
ASSUME CasesAssumption ==
  \A c \in Cases : IsList(c) /\ \A s \in DOMAIN c :
    IsList(c[s].rows) /\ \A k \in DOMAIN c[s].rows : IsRow(c[s].rows[k])

VARIABLES
  case,          \* the evidence: each source is [passthrough, rows]
  at,            \* the source in hand, past the last one when all are built
  step,          \* where process_file is with it
  raw,           \* its rows as the indexes of the cascade see them
  rows,          \* its rows now
  turn,          \* the row whose turn it is
  trees,         \* by source, what is on disk: its rows and its relationships
  groups         \* crosssource.jsonl

vars == <<case, at, step, raw, rows, turn, trees, groups>>

Built == at > Len(case)

-----------------------------------------------------------------------------
(* The rows of a source before the cascade *)

\* An Anamnesis row: a link it is sure of is handed on as a native guid.
Passthrough(row) ==
  LET sure == Get(row, "link_confidence") = "definitive"
      named == IF Get(row, "user") \in DOMAIN UserCanon
               THEN Put(row, "user", UserCanon[row["user"]]) ELSE row
      parent == IF sure /\ row["car_object"] = "process"
                THEN Fill(named, "native.ParentProcessGuid", Get(row, "parent_guid")) ELSE named
  IN  IF sure THEN Put(parent, "owning_guid_native", Get(row, "owning_guid"))
      ELSE Without(parent, {"owning_guid_native"})

Parsed(source) == IF source.passthrough THEN [k \in DOMAIN source.rows |-> Passthrough(source.rows[k])]
                  ELSE source.rows

\* The id that a row names by a rule, if no row is about it.
NamedBy(rule, row) == AsGuid(rule.identity, row[rule.reference])

\* An id that is referred to is of one kind of node.
OneKind(list) ==
  \A j, k \in DOMAIN list : \A a, b \in ToSet(Reconstructs) :
    /\ Has(list[j], a.reference) /\ Has(list[k], b.reference)
    /\ NamedBy(a, list[j]) = NamedBy(b, list[k]) /\ NamedBy(a, list[j]) # ""
    => a.node = b.node

\* A source whose parser names targets does not name owners: the one is Sysmon's, the
\* other Anamnesis's.
TargetsOrOwners(list) ==
  \A j, k \in DOMAIN list : \A rule \in ToSet(Reconstructs) :
    rule.observed # <<>> /\ Has(list[j], rule.reference) => ~Has(list[k], "owning_guid")

ASSUME ReferencesAssumption ==
  \A c \in Cases : \A s \in DOMAIN c : OneKind(Parsed(c[s])) /\ TargetsOrOwners(Parsed(c[s]))

\* The rules refer by what no turn of the cascade sets, a rule that is about another end than
\* the row is about its owner, and accounts act by the fields that they are known by.
ASSUME RulesAssumption ==
  /\ IsList(Reconstructs) /\ IsList(Content) /\ \A i \in DOMAIN Content : IsList(Content[i].fields)
  /\ \A rule \in ToSet(Reconstructs) :
       /\ rule.reference \in ReferenceColumns
       /\ rule.observed \in {<<>>, [field |-> "owning_guid", object |-> "process"]}
  /\ \A rule \in ToSet(Actors) : \A fields \in {rule.fields, rule.target_fields} :
       /\ IsList(fields)
       /\ \E i \in DOMAIN Content : Content[i].name = "sid" /\ ToSet(fields) \subseteq ToSet(Content[i].fields)

-----------------------------------------------------------------------------
(* The tree of a source *)

\* MUTANT of Exported: the native fields are left out.
ExportedColumns(row) == [f \in DOMAIN row \cap (Header \cup Fields(row) \cup {"car_object"}) |-> row[f]]

\* Only the columns of the object are stored.
ColumnsOf(o) == Header \cup ObjFields[o] \cup Native \cup {"car_object"}

Exported(row) == [f \in DOMAIN row \cap ColumnsOf(row["car_object"]) |-> row[f]]

\* What the declared relationships are read off is stored, and so is what their properties
\* may come from, of the rows that such an edge is of.
EdgeObject(edge) == CASE edge = <<"edge", "process_access">> -> "process"
                      [] edge = <<"edge", "thread_injection">> -> "thread"
                      [] OTHER -> edge[1]

ASSUME StoredAssumption ==
  /\ {"timestamp", "car_action", "guid", "owning_guid", "link_confidence", "source_host"} \subseteq Header
  /\ {"parent_guid", "target_guid"} \subseteq ObjFields["process"]
  /\ {"native.modifier_process_guid", "native.executed_as_process_guid",
      "native.target_process_guid"} \subseteq Native
  /\ \A k \in {"modifier_process_link", "executed_as_process_link", "target_process_link",
               "flow_guid", "flow_link", "target_session_guid", "target_session_link",
               "subject_session_guid", "subject_session_link"} : "native." \o k \in Native
  /\ \A edge \in DOMAIN AssociationProps : \A name \in DOMAIN AssociationProps[edge] :
       LET fields == AssociationProps[edge][name]
       IN  IsList(fields) /\ \A k \in DOMAIN fields : fields[k] \in ColumnsOf(EdgeObject(edge))

\* Where a row is stored: one file per object, the rows in their order.
StoredBefore(list, j, k) ==
  \E o, p \in DOMAIN Objects : /\ list[j]["car_object"] = Objects[o] /\ list[k]["car_object"] = Objects[p]
                               /\ o < p \/ (o = p /\ j < k)

Files(list) ==
  LET place(k) == Cardinality({j \in DOMAIN list : StoredBefore(list, j, k)}) + 1
  IN  [i \in DOMAIN list |-> Exported(list[CHOOSE k \in DOMAIN list : place(k) = i])]

Tree(list, store) ==
  [rows |-> list, relationships |-> store.relationships,
   inferred |-> store.inferred, content |-> store.content, bundle |-> <<>>]

NoTree == Tree(<<>>, EmptyStore)

\* stix.export: the bundle of the tree as it is on disk.
WithBundle(tree) ==
  [tree EXCEPT !.bundle = Bundle(tree.rows, tree.relationships,
                                 {tree.inferred[id] : id \in DOMAIN tree.inferred})]

-----------------------------------------------------------------------------
Init ==
  /\ case \in Cases
  /\ at = 1
  /\ step = "fold"
  /\ raw = <<>> /\ rows = <<>> /\ turn = 1
  /\ trees = [s \in DOMAIN case |-> NoTree]
  /\ groups = {}

Fold ==
  /\ ~Built /\ step = "fold"
  /\ raw' = FoldEvents(Parsed(case[at]), "additive")
  /\ rows' = raw'
  /\ turn' = 1
  /\ step' = "enrich"
  /\ UNCHANGED <<case, at, trees, groups>>

EnrichNext ==
  /\ step = "enrich" /\ turn <= Len(rows)
  /\ rows' = EnrichRow(raw, rows, turn)
  /\ turn' = turn + 1
  /\ UNCHANGED <<case, at, step, raw, trees, groups>>

\* The object files and the declared relationships are on disk before anything is derived.
Export ==
  /\ step = "enrich" /\ turn > Len(rows)
  /\ trees' = [trees EXCEPT ![at] = Tree(Files(rows), InsertEdges(EmptyStore, EdgesFromEvents(rows)))]
  /\ step' = "derive"
  /\ UNCHANGED <<case, at, raw, rows, turn, groups>>

\* The pass sees the rows in memory, with the fields that are not stored.
DerivePass ==
  /\ step = "derive"
  /\ LET store == DeriveInto(InsertEdges(EmptyStore, EdgesFromEvents(rows)), rows)
     IN  trees' = [trees EXCEPT ![at] = Tree(trees[at].rows, store)]
  /\ step' = "stix"
  /\ UNCHANGED <<case, at, raw, rows, turn, groups>>

\* Without the option --derive.
NoDerivePass ==
  /\ step = "derive"
  /\ step' = "stix"
  /\ UNCHANGED <<case, at, raw, rows, turn, trees, groups>>

StixPass ==
  /\ step = "stix"
  /\ trees' = [trees EXCEPT ![at] = WithBundle(@)]
  /\ step' = "built"
  /\ UNCHANGED <<case, at, raw, rows, turn, groups>>

\* MUTANT of NextSource: the loop goes on where it was.
NextSourceSameTurn ==
  /\ step = "built"
  /\ at' = at + 1
  /\ step' = "fold"
  /\ raw' = <<>> /\ rows' = <<>>
  /\ UNCHANGED <<case, turn, trees, groups>>

NextSource ==
  /\ step = "built"
  /\ at' = at + 1
  /\ step' = "fold"
  /\ raw' = <<>> /\ rows' = <<>> /\ turn' = 1
  /\ UNCHANGED <<case, trees, groups>>

\* derive.run: both classes anew, from what is on disk.
Rederive(s) ==
  /\ Built
  /\ trees[s].rows # <<>>
  /\ LET list == trees[s].rows
         store == DeriveInto(InsertEdges(EmptyStore, EdgesFromEvents(list)), list)
     IN  trees' = [trees EXCEPT ![s] = [Tree(list, store) EXCEPT !.bundle = trees[s].bundle]]
  /\ UNCHANGED <<case, at, step, raw, rows, turn, groups>>

ConvergeCase ==
  /\ Built
  /\ groups' = Groups([s \in DOMAIN trees |-> trees[s].rows])
  /\ UNCHANGED <<case, at, step, raw, rows, turn, trees>>

Next ==
  \/ Fold \/ EnrichNext \/ Export \/ DerivePass \/ NoDerivePass \/ StixPass \/ NextSource
  \/ \E s \in DOMAIN case : Rederive(s)
  \/ ConvergeCase

Spec == Init /\ [][Next]_vars

-----------------------------------------------------------------------------
(* What is promised of a source *)

Enriched == step = "derive"

\* The whole cascade over a list of folded rows.
Cascaded(folded) ==
  FoldLeft(LAMBDA now, k : EnrichRow(folded, now, k), folded, [k \in DOMAIN folded |-> k])

\* The places of the rows of a source and of its one list of fields stay together.
TypeOK ==
  /\ at \in 1..(Len(case) + 1)
  /\ step \in {"fold", "enrich", "derive", "stix", "built"}
  /\ Len(rows) = Len(raw) /\ turn \in 1..(Len(rows) + 1)
  /\ \A k \in DOMAIN rows : \A f \in {"car_object", "source_host"} : rows[k][f] = raw[k][f]
  /\ DOMAIN trees = DOMAIN case
  /\ \A s \in DOMAIN trees : trees[s] # NoTree => s <= at

Opened(k) == IsCreate(raw[k]) /\ Get(raw[k], "pid") \in DOMAIN PidOf

\* The ends of the process that row c creates.
Ends(c) == {e \in DOMAIN raw : /\ raw[e]["car_object"] = "process"
                               /\ Get(raw[e], "car_action") \in {"terminate", "exit"}
                               /\ Has(raw[e], "guid") /\ Has(raw[c], "guid")
                               /\ raw[e]["guid"] = raw[c]["guid"] /\ SameHost(raw[e], raw[c])}

EndedBefore(c, t) == \E e \in Ends(c) : Time(raw[e]) \in 1..(t - 1)

\* The process that row c creates held the pid at a time: it was there, it had not ended
\* (of one with an end of unknown time that is not known), and no younger one of
\* the host with that pid was there.
Held(c, host, pid, now) ==
  /\ Get(raw[c], "source_host") = host /\ Time(raw[c]) <= now
  /\ (\A e \in Ends(c) : Time(raw[e]) # 0) => ~EndedBefore(c, now)
  /\ \A d \in DOMAIN raw :
       /\ Opened(d) /\ Get(raw[d], "source_host") = host /\ PidOf[raw[d]["pid"]] = pid
       /\ Time(raw[c]) < Time(raw[d]) /\ Time(raw[d]) <= now
       => EndedBefore(d, now)

\* The rows to which the cascade gave a process by its process id, in the field and by
\* the column.
ByWindow(field, column) ==
  {k \in DOMAIN rows : /\ Has(rows[k], field) /\ ~Has(raw[k], field)
                       /\ Get(rows[k], "link_confidence") = "heuristic"
                       /\ Time(rows[k]) # 0 /\ Get(raw[k], column) \in DOMAIN PidOf}

\* A row that is given to a process by its pid, as to its owner or its parent, falls in
\* the lifetime of the process, and no younger process of that pid was alive then,
\* whatever the order of the records and wherever the end of a process is recorded
\* (enrich.py _by_pid, _match, _alive_at: reuse of a process id).
OwnerHeldThePid ==
  Enriched => \A link \in {<<"owning_guid", "owning_pid">>, <<"parent_guid", "parent_pid">>} :
    \A k \in ByWindow(link[1], link[2]) : \E c \in DOMAIN raw :
      /\ Opened(c) /\ Get(raw[c], "guid") = rows[k][link[1]]
      /\ Held(c, Get(raw[k], "source_host"), PidOf[raw[k][link[2]]], Time(raw[k]))

\* Following the parents that were found by process id never leads back to a process,
\* unless all on the way were created at the same instant: such a way is a least set
\* of processes that has a parent of each of its members. A parent counts if its guid
\* tells it apart (enrich.py enrich: parents by window).
AncestryHasNoCycle ==
  LET linked == {k \in ByWindow("parent_guid", "parent_pid") : IsCreate(rows[k])}
      creates(g, host) == {d \in DOMAIN rows : IsCreate(rows[d]) /\ Get(rows[d], "source_host") = host
                                               /\ Get(rows[d], "guid") = g}
      parents(k) == {c \in linked : creates(rows[k]["parent_guid"], Get(rows[k], "source_host")) = {c}}
      closed(set) == set # {} /\ \A k \in set : parents(k) \cap set # {}
  IN  Enriched => \A way \in SUBSET linked :
        closed(way) /\ (\A less \in SUBSET way : closed(less) => less = way)
          => \A j, k \in way : Time(rows[j]) = Time(rows[k])

LinkFields == {"owning_guid", "parent_guid", "link_confidence", "native.target_process_guid",
               "native.session_login_guid", "native.flow_guid"}

\* The evidence does not say which process a row means by a process id: two of the host
\* began at the same instant, or the end of one is recorded with a time and without.
PidUndecided(k, guidField, pidField) ==
  LET host == Get(raw[k], "source_host")
      holders == ByPid(raw, host, PidOf[raw[k][pidField]])
  IN  /\ ~Has(raw[k], guidField) \/ ByGuid(raw, host, raw[k][guidField]) = 0
      /\ Get(raw[k], pidField) \in DOMAIN PidOf
      /\ \/ \E c, d \in holders : c # d /\ Time(raw[c]) = Time(raw[d])
         \/ \E c \in holders : \E e, f \in Ends(c) : Time(raw[e]) = 0 /\ Time(raw[f]) # 0

\* Nor which login a logout closes, if two go by its LUID, or else by its session id.
LoginUndecided(k) ==
  LET logins(f) == {j \in DOMAIN raw : /\ raw[j]["car_object"] = "user_session"
                                      /\ Get(raw[j], "car_action") \in {"login", "reconnect", "unlock"}
                                      /\ SameHost(raw[j], raw[k]) /\ Has(raw[j], f) /\ Has(raw[k], f)
                                      /\ \/ raw[j][f] = raw[k][f]
                                         \/ f = "login_id" /\ Lower(raw[j][f]) = Lower(raw[k][f])}
  IN  Cardinality(IF logins("login_id") # {} THEN logins("login_id") ELSE logins("native.SessionID")) > 1

\* Nor which connection a row is of, if two go by its uid.
FlowUndecided(k) ==
  Cardinality({j \in DOMAIN raw : /\ raw[j]["car_object"] = "flow" /\ SameHost(raw[j], raw[k])
                                  /\ Uid(raw[j]) = Get(raw[k], "native.uid")}) > 1

Undecided(k) ==
  (IF PidUndecided(k, "owning_guid_native", "owning_pid")
   THEN {"owning_guid", "link_confidence", "native.target_process_guid"} ELSE {})
  \cup (IF PidUndecided(k, "native.ParentProcessGuid", "parent_pid")
        THEN {"parent_guid", "link_confidence"} ELSE {})
  \cup (IF LoginUndecided(k) THEN {"native.session_login_guid"} ELSE {})
  \cup (IF FlowUndecided(k) THEN {"native.flow_guid"} ELSE {})

\* Which process and connection each row belongs to, and which login a logout closes, does
\* not depend on the order of the rows, but where the evidence leaves it open; that may
\* touch the row it is about and no other (enrich.py: indexes built before the loop, the
\* processes of a pid sorted by time).
LinksIgnoreOrder ==
  Enriched => \A order \in Permutations(DOMAIN raw) :
    LET other == Cascaded([n \in DOMAIN raw |-> raw[order[n]]])
    IN  \A n \in DOMAIN raw : \A f \in LinkFields \ Undecided(order[n]) :
          OrElse(other[n], f, "") = OrElse(rows[order[n]], f, "")

\* What the records of an event say is in the row they fold into, as its value or as a
\* conflict under the name of the artefact, and a record without an identity is a row
\* of its own; what a row says is then never changed by what is inferred: only links
\* are set anew, and a rendering of a well-known account gets its one name
\* (enrich.py fold, _merge_into: nothing is lost; inheritance fills only nulls).
EvidenceStays ==
  LET list == Parsed(case[at])
      kept(q, r) ==
        /\ \A f \in Evidence(r) :
             \/ Has(q, f) /\ q[f] = r[f]
             \/ <<f, Get(r, "source_artefact"), r[f]>> \in OrElse(q, "native.coalesced_conflicts", {})
        /\ Get(r, "source_artefact") \in
             {Get(q, "source_artefact")} \cup OrElse(q, "native.coalesced_sources", {})
  IN  /\ step = "enrich" => \A k \in DOMAIN list : \E q \in DOMAIN raw :
           IF Has(list[k], "guid") THEN SameEvent(raw[q], list[k]) /\ kept(raw[q], list[k])
           ELSE raw[q] = list[k]
      /\ \A p, q \in DOMAIN raw : SameEvent(raw[p], raw[q]) => p = q
      /\ \A k \in DOMAIN rows : \A f \in DOMAIN raw[k] \ LinkColumns :
           /\ Has(rows[k], f)
           /\ rows[k][f] = raw[k][f] \/ (f = "user" /\ raw[k][f] \in Aliases)

\* The rows count every record, and a Sigma rule without a negation that flags what a
\* row says still flags the row that is stored (enrich.py _additive; sigma.py run_rule reads the tree).
RecordsStillCount ==
  LET said == SigmaHits([k \in DOMAIN raw |-> Exported(raw[k])])
      positive(id) == \A rule \in ToSet(SigmaRules) : rule.id = id => ~Contains(rule.condition, <<"not">>)
  IN  /\ step = "enrich" =>
           Contributions(raw) = Len(case[at].rows)
      /\ Enriched => {h \in said : positive(h.analytic)} \subseteq SigmaHits(trees[at].rows)

\* A session whose end is known names the logout that ended it, and that logout names
\* the session; the end is not taken from another logout (enrich.py
\* _pair_session_lifecycle, on two rows at once).
SessionsAgree ==
  LET closed == {k \in DOMAIN rows : /\ Has(rows[k], "native.session_logout_guid")
                                     /\ ~Has(raw[k], "native.session_logout_guid")}
  IN  \A k \in closed : \E j \in DOMAIN rows :
        /\ SameHost(rows[j], rows[k]) /\ Get(rows[j], "guid") = rows[k]["native.session_logout_guid"]
        /\ Get(rows[j], "native.session_login_guid") = Get(rows[k], "guid")
        /\ OrElse(rows[k], "native.session_end", 0) = Time(rows[j])

\* A success names the session it opened: if the source has the login with its LUID,
\* that is the row it is linked to.
AuthOpensALogin ==
  LET logins(k) == {j \in DOMAIN raw : /\ raw[j]["car_object"] = "user_session"
                                      /\ Get(raw[j], "car_action") \in {"login", "reconnect", "unlock"}
                                      /\ SameHost(raw[j], raw[k]) /\ Has(raw[j], "login_id")
                                      /\ Lower(raw[j]["login_id"]) = Lower(Get(raw[k], "native.TargetLogonId"))}
      opened == {k \in DOMAIN rows : Has(rows[k], "native.target_session_guid")}
  IN  Enriched => \A k \in opened : logins(k) # {} =>
        rows[k]["native.target_session_guid"] \in {Get(raw[j], "guid") : j \in logins(k)}

-----------------------------------------------------------------------------
(* What is promised of a tree *)

OfClass(tree, class) == {e \in tree.relationships : e.class = class}

RowEnds(tree) == {<<Get(tree.rows[k], "source_host"), End(tree.rows[k])>> : k \in DOMAIN tree.rows}

\* Both ends of a derived relationship are there: a row of the host, an account in the
\* content nodes, or an inferred node; and a node is inferred only if no row of its
\* host is about it (derive.py; superset.py insert_inferred_nodes).
DerivedEndsExist ==
  step = "stix" => LET tree == trees[at] IN
    /\ \A e \in OfClass(tree, "derived") : \A end \in {e.source, e.target} :
         \/ <<e.source_host, end>> \in RowEnds(tree)
         \/ end[1] = "user_account" /\ end[2] \in DOMAIN tree.content
         \/ end[2] \in DOMAIN tree.inferred /\ tree.inferred[end[2]].object = end[1]
    /\ \A id \in DOMAIN tree.inferred :
         LET n == tree.inferred[id]
         IN  <<n.source_host, <<n.object, id>>>> \notin RowEnds(tree)

\* A case fails a check of the run-through gate only if its evidence does: the gate knows
\* nothing of the rules that the rows were enriched and the relationships made by (verify.py).
GateAccepts ==
  LET evidence == [s \in DOMAIN case |-> [rows |-> Parsed(case[s]), relationships |-> {}]]
  IN  Built => GateFailures(trees) \subseteq GateFailures(evidence)

\* Deriving again from disk makes the declared relationships that the build made from
\* the rows in memory: the export keeps all they are read off (derive.py run,
\* store.py HEADER).
DeclaredSurviveRederive ==
  [][Built => \A s \in DOMAIN trees : OfClass(trees'[s], "declared") = OfClass(trees[s], "declared")]_vars

-----------------------------------------------------------------------------
(* What is promised of a bundle *)

Bundled == step = "built"

RefProps == {"object_refs", "source_ref", "target_ref", "parent_ref", "creator_user_ref", "image_ref",
             "parent_directory_ref", "x_car_content_ref", "src_ref", "dst_ref", "x_car_url_ref", "to_refs",
             "from_ref", "sender_ref", "x_car_attachment_ref", "x_car_link_refs", "start_module_ref",
             "x_car_corroborating_refs", "sighting_of_ref", "observed_data_refs", "where_sighted_refs"}

\* Whatever an object of a bundle refers to is in the bundle, or is one of MITRE's
\* techniques: content files by any of their hashes, the ends of relationships, the
\* observations of sightings and of inferred nodes (stix.py content_ref, _end, _indicates).
BundleIsClosed ==
  Bundled => LET objs == trees[at].bundle IN
    \A id \in DOMAIN objs : \A f \in RefProps \cap DOMAIN objs[id] : \A r \in ToSet(objs[id][f]) :
      r \in DOMAIN objs \/ r[1] = "mitre"

Observable == {k \in DOMAIN trees[at].rows : Has(trees[at].rows[k], "guid") /\ Has(trees[at].rows[k], "timestamp")}

\* A column is with the observation, or an object the observation refers to has its value.
Homed(objs, row, f) ==
  LET obs == objs[ObservationId(row)]
      about == {objs[id] : id \in {i \in ToSet(obs.object_refs) : i[2] # "relationship"}}
      numbers == UNION {UNION {ToSet(o[g]) : g \in DOMAIN o \cap (Numbers \cup {"x_car_ppid"})} : o \in about}
      texts == UNION {UNION {ToSet(o[g]) : g \in DOMAIN o \ (Numbers \cup RefProps \cup {"x_car_ppid"})} : o \in about}
      values == IF Address(row, f) = <<>> THEN Taken(row, f) ELSE <<AddressOf[row[f]][2]>>
  IN  \/ f \in DOMAIN obs /\ Contains(obs[f], row[f])
      \/ f \in Numbers /\ ToSet(values) # {} /\ ToSet(values) \subseteq numbers
      \/ f \notin Numbers /\ ToSet(values) \subseteq texts

\* The name of an account beside the SID that identifies it: of several names of one SID,
\* the bundle has one.
AccountName(row, f) == \E pair \in {<<"sid", "user">>, <<"uid", "user">>, <<"owner_uid", "owner">>,
                                    <<"target_uid", "target_user">>} :
                         f = pair[2] /\ Has(row, pair[1]) /\ Accepts("sid", row[pair[1]])

\* A column that its builder takes off the row and then has no use for.
Dropped(row, f) ==
  \/ row["car_object"] = "http" /\ f = "url_scheme" /\ Lower(row[f]) \notin WebSchemes
  \/ row["car_object"] = "process" /\ f \in Signed
     /\ ~Has(row, "image_path") /\ ~Has(row, "exe") /\ HashesOf(row) = <<>>

\* Every column of an observed row is in the bundle, at an object that the observation
\* refers to or else with the observation itself: a number that does not parse, an address
\* that is none, the parent that was not found, fields of a request that is not known.
\* "Nothing homeless is dropped" (stix.py _Row) but for two, which are then nowhere: the
\* scheme of a request that is not of the web, and the signer of a process without an image.
NothingHomeless ==
  Bundled => \A k \in Observable : LET row == trees[at].rows[k] IN
    \A f \in DOMAIN row \ (StixHeader \cup Native) :
      AccountName(row, f) \/ (Homed(trees[at].bundle, row, f) <=> ~Dropped(row, f))

\* A relationship of the tree is in the bundle if both its ends were observed; an event
\* ends at its observation, a thing at an object its observation refers to
\* (stix.py _end, edge).
EdgesReachTheBundle ==
  Bundled => LET tree == trees[at]
                 objs == tree.bundle
                 rowsOf(e, end) == {k \in Observable : Host(tree.rows[k]) = e.source_host /\ End(tree.rows[k]) = end}
                 there(e, end, side) == \/ e.inferred_end = side \/ end[1] = "user_account"
                                        \/ rowsOf(e, end) # {}
                 is(e, end, side, ref) ==
                   IF e.inferred_end = side THEN ref = NodeId(e.source_host, end[2])
                   ELSE CASE end[1] = "user_account" -> ref[2] = "user-account" /\ ref[1] = "global"
                          [] end[1] \in {"authentication", "user_session"} ->
                               ref[2] = "observed-data" /\ ref[4][2] = end[2]
                          [] OTHER -> \E k \in rowsOf(e, end) :
                                        Contains(objs[ObservationId(tree.rows[k])].object_refs, ref)
             IN  \A e \in tree.relationships :
                   there(e, e.source, "source") /\ there(e, e.target, "target") =>
                     \E id \in DOMAIN objs : /\ id[1] = "case" /\ id[2] = "relationship"
                                             /\ id[3] = <<e.class, e.relationship, e.method>>
                                             /\ id[6] = e.timestamp
                                             /\ is(e, e.source, "source", id[4])
                                             /\ is(e, e.target, "target", id[5])

\* An account that a row names beside its SID goes by such a name.
AccountKeepsItsName ==
  Bundled => LET list == trees[at].rows
                 objs == trees[at].bundle
                 names(sid) == UNION {{list[k][pair[2]] : pair \in
                                 {q \in {<<"sid", "user">>, <<"uid", "user">>, <<"owner_uid", "owner">>,
                                         <<"target_uid", "target_user">>} :
                                    Get(list[k], q[1]) = sid /\ Has(list[k], q[2])}} : k \in DOMAIN list}
             IN  \A id \in {i \in DOMAIN objs : i[1] = "global" /\ i[2] = "user-account"} :
                   names(id[3][1]) # {} => objs[id].display_name[1] \in names(id[3][1])

-----------------------------------------------------------------------------
(* What is promised of a case *)

RowAt(m) == trees[m[1]].rows[m[2]]

Everyone == UNION {{<<s, k>> : k \in DOMAIN trees[s].rows} : s \in DOMAIN trees}

SameRecord(m, n) == m[1] # n[1] /\ RecordKey(RowAt(m)) \cap RecordKey(RowAt(n)) # {}

\* Two rows of different sources with one intrinsic identity end up in a group together,
\* a group of records never holds a row with a positional id, and the view of a group
\* has every property of every member with its source (crosssource.py converge).
ConvergeIsComplete ==
  [][ConvergeCase =>
       /\ \A m, n \in Everyone : SameRecord(m, n) => \E g \in groups' : {m, n} \subseteq g.members
       /\ \A g \in groups' : \A m \in g.members :
            /\ g.tier = "definitive_record" => Get(RowAt(m), "native.spindle_scope") # "positional"
            /\ \A p \in DOMAIN RowAt(m) \ Meta :
                 \E v \in g.view[p] : v[1] = RowAt(m)[p] /\ m[1] \in v[2]]_vars
=============================================================================
