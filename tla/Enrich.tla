------------------------------- MODULE Enrich -------------------------------
(***************************************************************************)
(* The enrichment cascade over the events of one source                     *)
(* (byakugan/enrich.py): rows of the same event fold into one; every row     *)
(* then resolves the process, session, flow or name it belongs to by joins    *)
(* within its host, and inherits what it lacks.  The rows are changed in       *)
(* place, one after the other, so that a row sees what the cascade has done    *)
(* to the rows before it.  The indexes are built once, before that loop.        *)
(***************************************************************************)
EXTENDS NativeIds, Positions

CONSTANTS
  ObjFields,         \* the fields of each object of the model
  DedupeKey,         \* dedupe.key without the guid
  OwnerFields,       \* inheritance.from_owning_process
  ParentFields,      \* inheritance.from_parent_process: to field, from field
  FlowFields,        \* inheritance.from_owning_flow: to field, from field
  CanonicalUser,     \* identity.well_known_sids
  Aliases,           \* renderings of identity.canonical_aliases
  WellKnownLuids,    \* joins.auth_session_luid, both lists
  NullLuids,
  ContributorsCap

Fields(row) == ObjFields[row["car_object"]]

\* What the joins go by, and what the cascade sets anew.
ReferenceColumns == {"owning_guid_native", "owning_offset", "native.ParentProcessGuid", "native.TargetProcessGuid",
                     "native.TargetLogonId"}
JoinColumns == ReferenceColumns \cup
  {"guid", "source_host", "car_object", "car_action", "timestamp", "owning_pid", "parent_pid"}
SessionColumns == {"native.session_login_guid", "native.session_logout_guid", "native.session_end"}
LineageColumns == {"owning_guid", "parent_guid", "link_confidence",
                   "native.target_process_guid", "native.target_process_link"}
LinkColumns == SessionColumns \cup LineageColumns \cup
  {"native.target_session_guid", "native.target_session_link",
   "native.subject_session_guid", "native.subject_session_link", "native.flow_guid", "native.flow_link",
   "native.server_cert_subject", "native.executed_as_process_guid", "native.executed_as_process_link",
   "native.executed_as_process_count"}

\* An id that is missing does not parse.
ASSUME PidAssumption == "" \notin DOMAIN PidOf

\* Neither is inherited; an account has a name.
ASSUME ColumnsAssumption ==
  /\ (JoinColumns \cup LinkColumns) \cap (OwnerFields \cup DOMAIN ParentFields \cup DOMAIN FlowFields) = {}
  /\ \A sid \in DOMAIN CanonicalUser : CanonicalUser[sid] # ""

-----------------------------------------------------------------------------
(* The fold *)

FoldNative == {"native.coalesced_sources", "native.coalesced_conflicts",
               "native.contributions", "native.contributed_by", "native.spindle_ref"}

ASSUME KeyAssumption ==
  DedupeKey \cap (FoldNative \cup {"source_artefact"}) = {} /\ "car_object" \in DedupeKey

\* Without a guid a row has no identity.
SameEvent(a, b) ==
  /\ Has(a, "guid") /\ Has(b, "guid")
  /\ \A f \in DedupeKey \cup {"guid"} : Get(a, f) = Get(b, f)

Contributor(row) == <<Get(row, "source_artefact"), Get(row, "native.spindle_ref")>>

Evidence(row) == DOMAIN row \ (FoldNative \cup {"source_artefact"})

\* What the rows of one event have: all of the first one, the evidence of the others.
Supplied(group, k) == IF k = 1 THEN DOMAIN group[1] ELSE Evidence(group[k])

FirstWith(group, f) ==
  CHOOSE k \in DOMAIN group : /\ f \in Supplied(group, k)
                              /\ \A j \in 1..(k - 1) : f \notin Supplied(group, j)

\* A column has the value of the first row that has it.
Coalesced(group) ==
  [f \in UNION {Supplied(group, k) : k \in DOMAIN group} |-> group[FirstWith(group, f)][f]]

\* MUTANT of Conflicts: what a later row says otherwise is dropped.
EarlierConflicts(group) == OrElse(group[1], "native.coalesced_conflicts", {})

\* What a row says otherwise is kept beside it.
Conflicts(group) ==
  OrElse(group[1], "native.coalesced_conflicts", {}) \cup
  UNION {{<<f, Get(group[k], "source_artefact"), group[k][f]>> :
            f \in {g \in Evidence(group[k]) : group[k][g] # Coalesced(group)[g]}} : k \in DOMAIN group}

Artefacts(group) ==
  OrElse(group[1], "native.coalesced_sources", {Get(group[1], "source_artefact")})
  \cup {Get(group[k], "source_artefact") : k \in 2..Len(group)}

\* MUTANT of Contributions: the row that the others are merged into is not counted.
ContributionsAfter(group) ==
  FoldLeft(LAMBDA n, r : n + OrElse(r, "native.contributions", 1),
           OrElse(group[1], "native.contributions", 0), Tail(group))

Contributions(group) == FoldLeft(LAMBDA n, r : n + OrElse(r, "native.contributions", 1), 0, group)

\* fold, additive: _merge_into row after row.
Additive(group) ==
  LET sourced == With(Coalesced(group), "native.coalesced_sources", Artefacts(group))
      merged  == IF Conflicts(group) = {} THEN sourced
                 ELSE With(sourced, "native.coalesced_conflicts", Conflicts(group))
      counted == With(merged, "native.contributions", Contributions(group))
  IN  With(counted, "native.contributed_by",
           Upto(FlattenSeq([k \in DOMAIN group |->
                    OrElse(group[k], "native.contributed_by", <<Contributor(group[k])>>)]),
                ContributorsCap))

Populated(row) == Cardinality(DOMAIN row \ Native)

\* The first of the rows that have the most fields.
MostPopulated(rows) ==
  rows[CHOOSE k \in DOMAIN rows : \A j \in DOMAIN rows :
         \/ Populated(rows[j]) < Populated(rows[k])
         \/ Populated(rows[j]) = Populated(rows[k]) /\ k <= j]

\* The rows of the event that row k is of.
Group(rows, k) == Picked(rows, {j \in DOMAIN rows : SameEvent(rows[j], rows[k])})

IsFirst(rows, k) == \A j \in 1..(k - 1) : ~SameEvent(rows[j], rows[k])

Folded(rows, k, mode) ==
  IF ~Has(rows[k], "guid") \/ Len(Group(rows, k)) = 1 THEN rows[k]
  ELSE IF mode = "most_populated" THEN MostPopulated(Group(rows, k))
  ELSE Additive(Group(rows, k))

\* Every event once, where its first row is.
FoldEvents(rows, mode) ==
  LET firsts == {k \in DOMAIN rows : IsFirst(rows, k)}
  IN  [n \in 1..Cardinality(firsts) |-> Folded(rows, Nth(firsts, n), mode)]

-----------------------------------------------------------------------------
(* Processes: 0 is no row, otherwise the position of one *)

ByGuid(rows, host, g) ==
  LastAt({k \in DOMAIN rows : /\ IsCreate(rows[k]) /\ Get(rows[k], "guid") = g
                              /\ Get(rows[k], "source_host") = host})

ByPid(rows, host, pid) ==
  {k \in DOMAIN rows : /\ IsCreate(rows[k])
                       /\ Get(rows[k], "source_host") = host
                       /\ Get(rows[k], "pid") \in DOMAIN PidOf
                       /\ PidOf[rows[k]["pid"]] = pid}

\* The earliest end of the process, 0 if none is known; a first end without a
\* time hides the later ones.
ExitTime(rows, process) ==
  LET ends == {k \in DOMAIN rows : /\ rows[k]["car_object"] = "process"
                                   /\ Get(rows[k], "car_action") \in {"terminate", "exit"}
                                   /\ Has(rows[k], "guid") /\ Has(process, "guid")
                                   /\ rows[k]["guid"] = process["guid"]
                                   /\ SameHost(rows[k], process)}
      times == {Time(rows[k]) : k \in ends} \ {0}
  IN  IF ends = {} \/ Time(rows[Min(ends)]) = 0 THEN 0 ELSE Min(times)

AliveAt(rows, process, ts) == ExitTime(rows, process) = 0 \/ ts <= ExitTime(rows, process)

\* MUTANT of MatchAt: the last record of the pid, the records not sorted by time.
MatchLastRecord(rows, candidates, ts) ==
  LET eligible == {k \in candidates : Time(rows[k]) <= ts /\ AliveAt(rows, rows[k], ts)}
  IN  IF eligible = {} THEN 0 ELSE Max(eligible)

\* MUTANT of MatchAt: the latest process of the pid, whenever it was created.
MatchLatest(rows, candidates, ts) ==
  LET alive == {k \in candidates : AliveAt(rows, rows[k], ts)}
  IN  IF alive = {} THEN 0 ELSE CHOOSE k \in alive : \A j \in alive : Time(rows[j]) <= Time(rows[k])

\* The process a pid means at a time: the latest one created by then and not ended.
MatchAt(rows, candidates, ts) ==
  LET eligible == {k \in candidates : Time(rows[k]) <= ts /\ AliveAt(rows, rows[k], ts)}
      later(j, k) == \/ Time(rows[j]) < Time(rows[k])
                     \/ Time(rows[j]) = Time(rows[k]) /\ j <= k
  IN  IF ts = 0 /\ Cardinality(candidates) = 1 THEN CHOOSE k \in candidates : TRUE
      ELSE IF ts = 0 \/ eligible = {} THEN 0
      ELSE CHOOSE k \in eligible : \A j \in eligible : later(j, k)

\* Two tiers: the guid the row itself names, else the process its pid means.
Resolve(rows, row, guidField, pidField) ==
  LET host == Get(row, "source_host")
      native == IF Has(row, guidField) THEN ByGuid(rows, host, row[guidField]) ELSE 0
      window == IF Get(row, pidField) \in DOMAIN PidOf
                THEN MatchAt(rows, ByPid(rows, host, PidOf[row[pidField]]), Time(row)) ELSE 0
  IN  IF native # 0 THEN [at |-> native, by |-> "definitive"]
      ELSE [at |-> window, by |-> "heuristic"]

OwnerOf(rows, row) == Resolve(rows, row, "owning_guid_native", "owning_pid")
ParentOf(rows, row) == Resolve(rows, row, "native.ParentProcessGuid", "parent_pid")

\* A row lacks what it inherits: its columns, by those of the other row.
Filled(row, other, columns) ==
  Over(row, [f \in {g \in DOMAIN columns \cap Fields(row) : Has(other, columns[g])} |-> other[columns[f]]])

FromParent(row, p, by) ==
  Filled(Put(Put(row, "parent_guid", Get(p, "guid")), "link_confidence", by), p, ParentFields)

WithParent(raw, rows, k) ==
  LET parent == ParentOf(raw, rows[k])
  IN  IF parent.at \in {0, k} THEN rows[k] ELSE FromParent(rows[k], rows[parent.at], parent.by)

Inherit(row, owner) == Filled(row, owner, [f \in OwnerFields |-> f])

WithOwner(raw, rows, k) ==
  LET owner == OwnerOf(raw, rows[k])
      o == rows[owner.at]
  IN  IF owner.at = 0 THEN rows[k]
      ELSE Inherit(Put(Put(rows[k], "owning_guid", Get(o, "guid")),
                       "link_confidence", owner.by), o)

\* A remote thread names the process it starts in beside the one that starts it.
WithTarget(raw, rows, k) ==
  LET row == rows[k]
      target == IF Has(row, "native.TargetProcessGuid")
                THEN ByGuid(raw, Get(row, "source_host"), row["native.TargetProcessGuid"]) ELSE 0
  IN  IF row["car_object"] # "thread" \/ target \in {0, OwnerOf(raw, row).at} THEN row
      ELSE Put(Put(row, "native.target_process_guid", Get(rows[target], "guid")),
               "native.target_process_link", "definitive")

WithIdentifiers(row) ==
  Over(row, [c \in {d \in DOMAIN IdentifierText : Mined(row, d) # <<>>} |-> Mined(row, c)[1]])

-----------------------------------------------------------------------------
(* Sessions *)

SessionByLuid(rows, host, luid) ==
  LastAt({k \in DOMAIN rows : /\ rows[k]["car_object"] = "user_session"
                              /\ Get(rows[k], "source_host") = host
                              /\ Has(rows[k], "login_id") /\ Lower(rows[k]["login_id"]) = luid})

LinkSession(rows, row, luidField, guidField, linkField) ==
  LET luid == Lower(Get(row, luidField))
      s == SessionByLuid(rows, Get(row, "source_host"), luid)
  IN  IF luid = "" \/ luid \in NullLuids \/ s = 0 THEN row
      ELSE Put(Put(row, guidField, Get(rows[s], "guid")), linkField,
               IF luid \in WellKnownLuids THEN "heuristic" ELSE "definitive")

WithSessions(rows, row) ==
  LET opened == IF Get(row, "car_action") = "success"
                THEN LinkSession(rows, row, "native.TargetLogonId",
                                 "native.target_session_guid", "native.target_session_link")
                ELSE row
  IN  IF row["car_object"] # "authentication" THEN row
      ELSE LinkSession(rows, opened, "native.SubjectLogonId",
                       "native.subject_session_guid", "native.subject_session_link")

Login(rows, row, f) ==
  LET Opens(r) == r["car_object"] = "user_session" /\ Get(r, "car_action") \in {"login", "reconnect", "unlock"}
      Names(r) == /\ SameHost(r, row) /\ Has(r, f) /\ Has(row, f)
                  /\ r[f] = row[f] \/ (f = "login_id" /\ Lower(r[f]) = Lower(row[f]))
  IN  FirstAt({k \in DOMAIN rows : Opens(rows[k]) /\ Names(rows[k])})

\* The login a logout closes: by its LUID, else by its session id.
LoginOf(rows, row) ==
  LET byLuid == Login(rows, row, "login_id")
  IN  IF byLuid # 0 THEN byLuid ELSE Login(rows, row, "native.SessionID")

\* MUTANT of PairSession: the session keeps the end of its first logout.
PairFirstEnd(raw, rows, k) ==
  LET row == rows[k]
      login == LoginOf(raw, row)
      named == Put(rows[login], "native.session_logout_guid", Get(row, "guid"))
  IN  IF row["car_object"] # "user_session" \/ login = 0
         \/ Get(row, "car_action") \notin {"logout", "disconnect"} THEN rows
      ELSE [rows EXCEPT ![login] = Over(named, [f \in {"native.session_end"} |-> Time(row)]),
                        ![k] = Put(row, "native.session_login_guid", Get(rows[login], "guid"))]

PairSession(raw, rows, k) ==
  LET row == rows[k]
      login == LoginOf(raw, row)
      named == Put(rows[login], "native.session_logout_guid", Get(row, "guid"))
      closed == IF Time(row) = 0 THEN Without(named, {"native.session_end"})
                ELSE With(named, "native.session_end", Time(row))
  IN  IF row["car_object"] # "user_session" \/ login = 0
         \/ Get(row, "car_action") \notin {"logout", "disconnect"} THEN rows
      ELSE [rows EXCEPT ![login] = closed,
                        ![k] = Put(row, "native.session_login_guid", Get(rows[login], "guid"))]

-----------------------------------------------------------------------------
(* Connections *)

Uid(row) == IF Has(row, "guid") THEN row["guid"] ELSE Get(row, "native.uid")

FlowByUid(rows, host, uid) ==
  FirstAt({k \in DOMAIN rows : /\ rows[k]["car_object"] = "flow"
                               /\ Get(rows[k], "source_host") = host /\ Uid(rows[k]) = uid})

WithFlow(raw, rows, k) ==
  LET row == rows[k]
      uid == Get(row, "native.uid")
      f == FlowByUid(raw, Get(row, "source_host"), uid)
  IN  IF row["car_object"] \notin {"http", "file"} \/ uid = "" \/ f = 0 THEN row
      ELSE Filled(Put(Put(row, "native.flow_guid", Get(rows[f], "guid")), "native.flow_link", "definitive"),
                  rows[f], FlowFields)

\* The name that DNS resolved to an address, "" if none; the first resolution wins.
Resolved(rows, host, ip) ==
  LET Answers(r) == /\ Get(r, "source_artefact") = "zeek_dns"
                    /\ Get(r, "source_host") = host /\ Has(r, "fqdn")
                    /\ Has(r, "native.answers") /\ Contains(r["native.answers"], ip)
      d == FirstAt({k \in DOMAIN rows : Answers(rows[k])})
  IN  IF d = 0 THEN "" ELSE rows[d]["fqdn"]

Sni(rows, host, uid) ==
  LET s == FirstAt({k \in DOMAIN rows : /\ Get(rows[k], "source_artefact") = "zeek_ssl"
                                        /\ Get(rows[k], "source_host") = host /\ Has(rows[k], "dest_fqdn")
                                        /\ Uid(rows[k]) = uid})
  IN  IF s = 0 \/ uid = "" THEN "" ELSE rows[s]["dest_fqdn"]

CertSubject(rows, fingerprint) ==
  LET Certifies(r) == /\ Get(r, "source_artefact") = "zeek_x509" /\ Has(r, "native.certificate.subject")
                      /\ (IF Has(r, "guid") THEN r["guid"] ELSE Get(r, "sha256_hash")) = fingerprint
      c == FirstAt({k \in DOMAIN rows : Certifies(rows[k])})
  IN  IF c = 0 THEN "" ELSE rows[c]["native.certificate.subject"]

WithNames(raw, row) ==
  LET host == Get(row, "source_host")
      dns(r, ip, name) == IF Has(r, ip) THEN Fill(r, name, Resolved(raw, host, r[ip])) ELSE r
      named == dns(dns(row, "dest_ip", "dest_fqdn"), "src_ip", "src_fqdn")
      sni == Fill(named, "dest_fqdn", Sni(raw, host, Uid(row)))
      chain == IF Has(row, "native.cert_chain_fps") THEN row["native.cert_chain_fps"] ELSE <<>>
      leaf == FirstAt({n \in DOMAIN chain : CertSubject(raw, chain[n]) # ""})
  IN  IF row["car_object"] # "flow" THEN row
      ELSE IF Get(row, "application_protocol") = "tls" /\ leaf # 0
      THEN Put(sni, "native.server_cert_subject", CertSubject(raw, chain[leaf]))
      ELSE sni

Image(row) == IF Has(row, "image_path") THEN row["image_path"] ELSE Get(row, "exe")

WithExecution(raw, rows, k) ==
  LET row == rows[k]
      path == Lower(Get(row, "file_path"))
      runs == {j \in DOMAIN raw : IsCreate(raw[j]) /\ SameHost(raw[j], row) /\ Lower(Image(raw[j])) = path}
      linked == Put(Put(row, "native.executed_as_process_guid", Get(rows[Min(runs)], "guid")),
                    "native.executed_as_process_link", "heuristic")
  IN  IF row["car_object"] # "file" \/ path = "" \/ runs = {} THEN row
      ELSE IF Cardinality(runs) = 1 THEN linked
      ELSE With(linked, "native.executed_as_process_count", Cardinality(runs))

-----------------------------------------------------------------------------
(* Accounts *)

WithCanonicalUser(row) ==
  LET sid == IF Has(row, "sid") THEN row["sid"] ELSE Get(row, "uid")
  IN  IF /\ sid \in DOMAIN CanonicalUser /\ "user" \in Fields(row)
         /\ Has(row, "user") => row["user"] \in Aliases
      THEN Put(row, "user", CanonicalUser[sid]) ELSE row

-----------------------------------------------------------------------------
(* One turn of the loop: the rows after row k is enriched *)

EnrichSelf(raw, rows, k) == [rows EXCEPT ![k] = WithSessions(raw, WithIdentifiers(@))]

EnrichNames(raw, rows, k) == [rows EXCEPT ![k] = WithNames(raw, WithFlow(raw, rows, k))]

EnrichImage(raw, rows, k) == [rows EXCEPT ![k] = WithExecution(raw, rows, k)]

EnrichOwner(raw, rows, k) == [rows EXCEPT ![k] = WithOwner(raw, rows, k)]

\* A created process has a parent, any other row an owner.
EnrichLineage(raw, rows, k) ==
  IF IsCreate(rows[k]) THEN [rows EXCEPT ![k] = WithParent(raw, rows, k)]
  ELSE [rows EXCEPT ![k] = WithTarget(raw, EnrichOwner(raw, rows, k), k)]

EnrichRow(raw, rows, k) ==
  LET paired == PairSession(raw, EnrichImage(raw, EnrichNames(raw, EnrichSelf(raw, rows, k), k), k), k)
  IN  EnrichLineage(raw, [paired EXCEPT ![k] = WithCanonicalUser(@)], k)
=============================================================================
