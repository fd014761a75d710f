------------------------------ MODULE Converge ------------------------------
(***************************************************************************)
(* Cross-source convergence (byakugan/crosssource.py): the rows of every       *)
(* source of a case are bucketed by the keys they carry, strongest tier first;  *)
(* a bucket that rows of two sources share is a group, with a view of all         *)
(* their properties.  The trees of the sources are only read.                      *)
(***************************************************************************)
EXTENDS NativeIds

CONSTANTS
  RecordKeys,    \* the <<object, version>> of the registry entries of kind record or entity
  Hashed, Imaged,
  ContentBucket, \* the object whose content the hashes of an object are
  Meta           \* the columns that are not properties

Tiers == <<"definitive_record", "definitive_content", "definitive_native_id", "heuristic_image">>
HashFields == <<"sha256_hash", "sha1_hash", "md5_hash">>

\* The rows of a case, each with its source and its place among the rows of its object.
CaseRows(trees) ==
  UNION {{[source |-> s, index |-> k, row |-> trees[s][k]] : k \in DOMAIN trees[s]} : s \in DOMAIN trees}

\* MUTANT of Equatable: any id will do.
AnyGuid(row) == Has(row, "guid")

\* An id that a sensor gave, or one minted from the record itself; never a positional one.
Equatable(row) ==
  /\ Has(row, "guid")
  /\ \/ ~Has(row, "native.spindle_key") /\ ~Has(row, "native.spindle_scope")
     \/ /\ Get(row, "native.spindle_scope") = "intrinsic"
        /\ <<row["car_object"], Get(row, "native.spindle_key")>> \in RecordKeys

RecordKey(row) ==
  IF ~Equatable(row) THEN {}
  ELSE {<<Get(row, "source_host"), row["car_object"], row["guid"], Get(row, "native.spindle_key")>>}

HashOf(row, f) == IF Has(row, f) THEN row[f] ELSE Get(row, "native." \o f)

\* The strongest hash of the row.
ContentKey(row) ==
  LET f == SelectInSeq(HashFields, LAMBDA h : HashOf(row, h) # "")
      obj == row["car_object"]
  IN  IF obj \notin Hashed \/ f = 0 THEN {}
      ELSE {<<IF obj \in DOMAIN ContentBucket THEN ContentBucket[obj] ELSE obj,
              HashFields[f], Lower(HashOf(row, HashFields[f]))>>}

NativeKey(row) == UNION {{<<c, id>> : id \in ToSet(Identifiers(row, c))} : c \in DOMAIN IdentifierText}

ImageKey(row) ==
  LET image == IF Has(row, "image_path") THEN row["image_path"] ELSE Get(row, "exe")
  IN  IF row["car_object"] \notin Imaged \/ image = "" THEN {}
      ELSE {<<Get(row, "source_host"), row["car_object"], Lower(BaseName(image))>>}

KeysOf(row, tier) == CASE tier = "definitive_record" -> RecordKey(row)
                       [] tier = "definitive_content" -> ContentKey(row)
                       [] tier = "definitive_native_id" -> NativeKey(row)
                       [] tier = "heuristic_image" -> ImageKey(row)

\* The buckets that rows of two sources share, as [tier, key, rows].
Shared(rows, tier) ==
  LET bucket(key) == {r \in rows : key \in KeysOf(r.row, tier)}
  IN  {b \in {[tier |-> tier, key |-> key, rows |-> bucket(key)] :
                key \in UNION {KeysOf(r.row, tier) : r \in rows}} :
         Cardinality({r.source : r \in b.rows}) > 1}

\* By property, each value and the sources that say it.
MergedView(rows) ==
  LET says(p) == {r \in rows : Has(r.row, p)}
  IN  [p \in (UNION {DOMAIN r.row : r \in rows}) \ Meta |->
         {<<r.row[p], {q.source : q \in {x \in says(p) : x.row[p] = r.row[p]}}>> : r \in says(p)}]

\* The object a group is named after.
GroupObject(b) == CASE b.tier = "definitive_content" -> b.key[1]
                    [] b.tier = "definitive_native_id" ->
                         Objects[Min({k \in DOMAIN Objects :
                                        \E r \in b.rows : r.row["car_object"] = Objects[k]})]
                    [] OTHER -> b.key[2]

Members(rows) == {<<r.source, r.index>> : r \in rows}

Converged(b) == [tier |-> b.tier, object |-> GroupObject(b), members |-> Members(b.rows),
                 view |-> MergedView(b.rows)]

\* A set of rows is one group, of the strongest tier that joins it.
Groups(trees) ==
  LET rows == CaseRows(trees)
      shared == [k \in DOMAIN Tiers |-> Shared(rows, Tiers[k])]
      joined == [k \in DOMAIN Tiers |-> {b.rows : b \in shared[k]}]
      strongest(set) == Min({k \in DOMAIN Tiers : set \in joined[k]})
  IN  {Converged(CHOOSE b \in shared[strongest(set)] : b.rows = set) :
         set \in UNION {joined[k] : k \in DOMAIN Tiers}}
=============================================================================
