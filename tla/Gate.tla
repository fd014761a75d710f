-------------------------------- MODULE Gate --------------------------------
(***************************************************************************)
(* The run-through gate (byakugan/verify.py) over the trees of a case: a       *)
(* check passes, fails, or is not exercised because no row is of its object.    *)
(***************************************************************************)
EXTENDS Row

CONSTANTS
  Actions,       \* the car_action vocabulary of each object of the model
  Verbs,         \* the verbs the rules can give a relationship
  PropertyNames, \* the association properties the rules can give one
  SidForms, IpForms, PidForms,   \* the values that parse as what they should be
  PortForms      \* the values that are no number out of the range of ports

RowsOf(trees, obj) ==
  UNION {{trees[s].rows[k] : k \in {j \in DOMAIN trees[s].rows :
                                      trees[s].rows[j]["car_object"] = obj}} : s \in DOMAIN trees}

Edges(trees) == UNION {trees[s].relationships : s \in DOMAIN trees}

Tally(obj, name, ok) == {[object |-> obj, check |-> name, passed |-> ok]}

Blank(row, f) == ~Has(row, f)
OrBlank(row, f, values) == Has(row, f) => row[f] \in values

\* Every row of an object names its artefact and an action of the vocabulary.
Traceable(obj, rows) ==
  Tally(obj, "source_artefact", \A r \in rows : ~Blank(r, "source_artefact"))
  \cup Tally(obj, "car_action", \A r \in rows : ~Blank(r, "car_action"))
  \cup Tally(obj, "vocabulary", \A r \in rows : OrBlank(r, "car_action", Actions[obj]))

\* The values that an object must have somewhere, or may nowhere have.
Sane(obj, rows) ==
  CASE obj = "process" ->
         Tally(obj, "command_line", \E r \in rows : IsCreate(r) /\ ~Blank(r, "command_line"))
         \cup Tally(obj, "sid", \A r \in rows : OrBlank(r, "sid", SidForms))
         \cup Tally(obj, "pid", \A r \in rows : OrBlank(r, "pid", PidForms))
    [] obj = "flow" ->
         Tally(obj, "src_ip", \A r \in rows : OrBlank(r, "src_ip", IpForms))
         \cup Tally(obj, "dest_ip", \A r \in rows : OrBlank(r, "dest_ip", IpForms))
         \cup Tally(obj, "dest_port", \A r \in rows : OrBlank(r, "dest_port", PortForms))
    [] obj = "registry" -> Tally(obj, "key", \E r \in rows : ~Blank(r, "key"))
    [] obj = "user_session" -> Tally(obj, "user", \E r \in rows : ~Blank(r, "user"))
    [] obj = "file" -> Tally(obj, "file_path", \E r \in rows : ~Blank(r, "file_path"))
    [] OTHER -> {}

RelationshipChecks(edges) ==
  LET check(name, ok) == Tally("relationships", name, ok)
  IN  check("ends", \A e \in edges : e.source[2] # "" /\ e.target[2] # "")
      \cup check("verb", \A e \in edges : e.relationship # "")
      \cup check("class", \A e \in edges : e.class \in {"declared", "derived"})
      \cup check("confidence", \A e \in edges : e.class = "declared" =>
                   e.confidence \in {"definitive", "heuristic", ""})
      \cup check("derived confidence", \A e \in edges : e.class = "derived" => e.confidence # "")
      \cup check("vocabulary", \A e \in edges : e.relationship \in Verbs)
      \cup check("properties", \A e \in edges : DOMAIN e.properties \subseteq PropertyNames)

Exercised(trees) == {o \in ToSet(Objects) : RowsOf(trees, o) # {}}

GateChecks(trees) ==
  Tally("*", "rows", Exercised(trees) # {})
  \cup (UNION {Traceable(o, RowsOf(trees, o)) \cup Sane(o, RowsOf(trees, o)) : o \in Exercised(trees)})
  \cup (IF Edges(trees) = {} THEN {} ELSE RelationshipChecks(Edges(trees)))

GateFailures(trees) == {c \in GateChecks(trees) : ~c.passed}
=============================================================================
