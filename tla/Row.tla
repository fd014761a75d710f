-------------------------------- MODULE Row --------------------------------
(***************************************************************************)
(* The rows that byakugan's passes hand to each other: Python dicts of       *)
(* event fields.  A row is a function from field names to values; a field    *)
(* that is None or "" is not in its domain.  The keys of the `_native` dict   *)
(* are the fields "native.<key>", as in the paths of relationships.yml.       *)
(***************************************************************************)
EXTENDS Naturals, Sequences, FiniteSets, SequencesExt

CONSTANTS
  PidOf,   \* the renderings of a process id that parse, to the number they stand for
  CaseOf,  \* renderings to their lower-case form, where it differs
  Basename,\* the last component of a path, where it is not all of it
  Native   \* the fields that are kept in `_native`

\* The CAR objects, in their alphabetical order.
Objects == <<"authentication", "driver", "email", "file", "flow", "http", "module", "process",
             "registry", "service", "socket", "thread", "user_session">>

Has(row, f) == f \in DOMAIN row

OrElse(row, f, default) == IF Has(row, f) THEN row[f] ELSE default

Get(row, f) == OrElse(row, f, "")

\* 0 stands for a missing timestamp; the others are greater.
Time(row) == OrElse(row, "timestamp", 0)

Without(row, fields) == [f \in DOMAIN row \ fields |-> row[f]]

\* A dict over another: what f has, and what only g has.
Over(f, g) == [x \in DOMAIN f \cup DOMAIN g |-> IF x \in DOMAIN f THEN f[x] ELSE g[x]]

With(row, f, v) == Over([g \in {f} |-> v], row)

Put(row, f, v) == IF v = "" THEN Without(row, {f}) ELSE With(row, f, v)

\* A field that is already there keeps its value.
Fill(row, f, v) == IF v = "" THEN row ELSE Over(row, [g \in {f} |-> v])

\* The first and the last of a set of positions, 0 if there is none.
FirstAt(positions) == IF positions = {} THEN 0 ELSE Min(positions)
LastAt(positions) == IF positions = {} THEN 0 ELSE Max(positions)

Lower(v) == IF v \in DOMAIN CaseOf THEN CaseOf[v] ELSE v

BaseName(path) == IF path \in DOMAIN Basename THEN Basename[path] ELSE path

SameHost(a, b) == Get(a, "source_host") = Get(b, "source_host")

IsCreate(row) == row["car_object"] = "process" /\ Get(row, "car_action") = "create"

\* A list without its repetitions, and its first n elements.
Distinct(s) ==
  FlattenSeq([k \in DOMAIN s |-> IF \E j \in 1..(k - 1) : s[j] = s[k] THEN <<>> ELSE <<s[k]>>])

Upto(s, n) == SubSeq(s, 1, IF n < Len(s) THEN n ELSE Len(s))

=============================================================================
