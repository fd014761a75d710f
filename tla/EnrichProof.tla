----------------------------- MODULE EnrichProof -----------------------------
(***************************************************************************)
(* What the operators of the cascade keep of a row, which of two candidates    *)
(* a join takes, and what the fold makes of the records of one event.            *)
(***************************************************************************)
EXTENDS Enrich, PositionsProof, SequenceTheorems, WellFoundedInduction

(***************************************************************************)
(* What a step of the cascade keeps of a row                               *)
(***************************************************************************)
Same(a, b, f) ==
  /\ f \in DOMAIN a <=> f \in DOMAIN b
  /\ f \in DOMAIN a => b[f] = a[f]

\* b says what a says, with the one name of a well-known account for a rendering of it.
Says(a, b) ==
  \A f \in DOMAIN a \ LinkColumns :
    /\ f \in DOMAIN b
    /\ b[f] = a[f] \/ (f = "user" /\ a[f] \in Aliases)

\* From a to b only these links were set.
OnlySets(a, b, columns) ==
  /\ Says(a, b)
  /\ \A f \in (JoinColumns \cup LinkColumns) \ columns : Same(a, b, f)

LEMMA NoLinks ==
  ASSUME NEW a, NEW columns
  PROVE  OnlySets(a, a, columns)
BY DEF OnlySets, Says, Same

LEMMA LinksAddUp ==
  ASSUME NEW a, NEW b, NEW c, NEW columns, OnlySets(a, b, columns), OnlySets(b, c, columns)
  PROVE  OnlySets(a, c, columns)
<1>1. Says(a, c)
  BY DEF OnlySets, Says
<1>2. \A f \in (JoinColumns \cup LinkColumns) \ columns : Same(a, c, f)
  BY DEF OnlySets, Same
<1> QED
  BY <1>1, <1>2 DEF OnlySets

LEMMA MoreLinks ==
  ASSUME NEW a, NEW b, NEW some, NEW columns, some \subseteq columns, OnlySets(a, b, some)
  PROVE  OnlySets(a, b, columns)
BY DEF OnlySets

LEMMA OverIs ==
  ASSUME NEW f, NEW g
  PROVE  /\ DOMAIN Over(f, g) = DOMAIN f \cup DOMAIN g
         /\ \A x \in DOMAIN f : Over(f, g)[x] = f[x]
         /\ \A x \in DOMAIN g \ DOMAIN f : Over(f, g)[x] = g[x]
BY DEF Over

LEMMA WithIs ==
  ASSUME NEW row, NEW f, NEW v
  PROVE  /\ f \in DOMAIN With(row, f, v) /\ With(row, f, v)[f] = v
         /\ \A x : x # f => Same(row, With(row, f, v), x)
<1>1. f \in DOMAIN With(row, f, v) /\ With(row, f, v)[f] = v
  BY DEF With, Over
<1>2. ASSUME NEW x, x # f
      PROVE  Same(row, With(row, f, v), x)
  BY <1>2 DEF With, Over, Same
<1> QED
  BY <1>1, <1>2

LEMMA WithoutIs ==
  ASSUME NEW row, NEW f
  PROVE  /\ f \notin DOMAIN Without(row, {f})
         /\ \A x : x # f => Same(row, Without(row, {f}), x)
BY DEF Without, Same

LEMMA PutIs ==
  ASSUME NEW row, NEW f, NEW v
  PROVE  /\ v = "" => f \notin DOMAIN Put(row, f, v)
         /\ v # "" => f \in DOMAIN Put(row, f, v) /\ Put(row, f, v)[f] = v
         /\ \A x : x # f => Same(row, Put(row, f, v), x)
<1>1. CASE v = ""
  BY <1>1, WithoutIs, Zenon DEF Put
<1>2. CASE v # ""
  <2>1. Put(row, f, v) = With(row, f, v)
    BY <1>2 DEF Put
  <2>2. /\ f \in DOMAIN With(row, f, v) /\ With(row, f, v)[f] = v
        /\ \A x : x # f => Same(row, With(row, f, v), x)
    BY WithIs
  <2> QED
    BY <1>2, <2>1, <2>2, Zenon
<1> QED
  BY <1>1, <1>2

LEMMA PutGets ==
  ASSUME NEW row, NEW f, NEW v
  PROVE  Get(Put(row, f, v), f) = v
<1>1. CASE v = ""
  <2>1. Put(row, f, v) = Without(row, {f})
    BY <1>1 DEF Put
  <2>2. f \notin DOMAIN Without(row, {f})
    BY WithoutIs
  <2> QED
    BY <1>1, <2>1, <2>2 DEF Get, OrElse, Has
<1>2. CASE v # ""
  <2>1. Put(row, f, v) = With(row, f, v)
    BY <1>2 DEF Put
  <2>2. f \in DOMAIN With(row, f, v) /\ With(row, f, v)[f] = v
    BY WithIs
  <2> QED
    BY <2>1, <2>2 DEF Get, OrElse, Has
<1> QED
  BY <1>1, <1>2

LEMMA PutLinks ==
  ASSUME NEW row, NEW columns \in SUBSET LinkColumns, NEW f \in columns, NEW v
  PROVE  OnlySets(row, Put(row, f, v), columns)
<1>1. \A x : x # f => Same(row, Put(row, f, v), x)
  BY PutIs
<1>2. Says(row, Put(row, f, v))
  BY <1>1 DEF Says, Same
<1> QED
  BY <1>1, <1>2 DEF OnlySets

LEMMA WithLinks ==
  ASSUME NEW row, NEW columns \in SUBSET LinkColumns, NEW f \in columns, NEW v
  PROVE  OnlySets(row, With(row, f, v), columns)
<1>1. \A x : x # f => Same(row, With(row, f, v), x)
  BY WithIs
<1>2. Says(row, With(row, f, v))
  BY <1>1 DEF Says, Same
<1> QED
  BY <1>1, <1>2 DEF OnlySets

LEMMA WithoutLinks ==
  ASSUME NEW row, NEW columns \in SUBSET LinkColumns, NEW f \in columns
  PROVE  OnlySets(row, Without(row, {f}), columns)
<1>1. \A x : x # f => Same(row, Without(row, {f}), x)
  BY WithoutIs
<1>2. Says(row, Without(row, {f}))
  BY <1>1 DEF Says, Same
<1> QED
  BY <1>1, <1>2 DEF OnlySets

\* Two links at once: a guid and how it was found.
LEMMA PutTwoLinks ==
  ASSUME NEW row, NEW columns \in SUBSET LinkColumns, NEW f \in columns, NEW g \in columns,
         NEW v, NEW w
  PROVE  OnlySets(row, Put(Put(row, f, v), g, w), columns)
<1>1. OnlySets(row, Put(row, f, v), columns)
  BY PutLinks
<1>2. OnlySets(Put(row, f, v), Put(Put(row, f, v), g, w), columns)
  BY PutLinks
<1> QED
  BY <1>1, <1>2, LinksAddUp

\* What a row lacks may come from anywhere, if it is not a link.
LEMMA OverLinks ==
  ASSUME NEW row, NEW g, DOMAIN g \cap (JoinColumns \cup LinkColumns) = {}, NEW columns
  PROVE  OnlySets(row, Over(row, g), columns)
<1>1. Says(row, Over(row, g))
  <2>1. /\ DOMAIN row \subseteq DOMAIN Over(row, g)
        /\ \A x \in DOMAIN row : Over(row, g)[x] = row[x]
    BY OverIs
  <2> QED
    BY <2>1 DEF Says
<1>2. \A f \in JoinColumns \cup LinkColumns : Same(row, Over(row, g), f)
  BY OverIs DEF Same
<1> QED
  BY <1>1, <1>2 DEF OnlySets

LEMMA FillLinks ==
  ASSUME NEW row, NEW f, f \notin JoinColumns \cup LinkColumns, NEW v, NEW columns
  PROVE  OnlySets(row, Fill(row, f, v), columns)
<1>1. CASE v = ""
  BY <1>1, NoLinks DEF Fill
<1>2. CASE v # ""
  <2>1. DOMAIN [g \in {f} |-> v] \cap (JoinColumns \cup LinkColumns) = {}
    OBVIOUS
  <2> QED
    BY <1>2, <2>1, OverLinks DEF Fill
<1> QED
  BY <1>1, <1>2

LEMMA FilledLinks ==
  ASSUME NEW row, NEW other, NEW fields, DOMAIN fields \cap (JoinColumns \cup LinkColumns) = {},
         NEW columns
  PROVE  OnlySets(row, Filled(row, other, fields), columns)
<1> DEFINE more == [f \in {g \in DOMAIN fields \cap Fields(row) : Has(other, fields[g])} |-> other[fields[f]]]
<1>1. DOMAIN more \cap (JoinColumns \cup LinkColumns) = {}
  OBVIOUS
<1>2. Filled(row, other, fields) = Over(row, more)
  BY DEF Filled
<1> HIDE DEF more
<1> QED
  BY <1>1, <1>2, OverLinks

\* Columns that are inherited are not links.
LEMMA InheritedColumns ==
  /\ DOMAIN ParentFields \cap (JoinColumns \cup LinkColumns) = {}
  /\ DOMAIN FlowFields \cap (JoinColumns \cup LinkColumns) = {}
  /\ DOMAIN [f \in OwnerFields |-> f] \cap (JoinColumns \cup LinkColumns) = {}
BY ColumnsAssumption

-----------------------------------------------------------------------------
(* The steps of a turn, one by one *)

\* The links beside those of sessions and of lineage.
SideColumns == LinkColumns \ (SessionColumns \cup LineageColumns)

LEMMA SideColumnsAre ==
  /\ SideColumns \in SUBSET LinkColumns
  /\ {"native.target_session_guid", "native.target_session_link", "native.subject_session_guid",
      "native.subject_session_link", "native.flow_guid", "native.flow_link", "native.server_cert_subject",
      "native.executed_as_process_guid", "native.executed_as_process_link",
      "native.executed_as_process_count"} \subseteq SideColumns
BY DEF SideColumns, LinkColumns, SessionColumns, LineageColumns

LEMMA IdentifiersLink ==
  ASSUME NEW row
  PROVE  OnlySets(row, WithIdentifiers(row), SideColumns)
<1> DEFINE found == [c \in {d \in DOMAIN IdentifierText : Mined(row, d) # <<>>} |-> Mined(row, c)[1]]
<1>1. DOMAIN found \cap (JoinColumns \cup LinkColumns) = {}
  <2>1. DOMAIN IdentifierText = {"volume_guid", "mac_address", "device_serial"}
    BY DEF IdentifierText
  <2> QED
    BY <2>1 DEF JoinColumns, ReferenceColumns, LinkColumns, SessionColumns, LineageColumns
<1>2. WithIdentifiers(row) = Over(row, found)
  BY DEF WithIdentifiers
<1> HIDE DEF found
<1> QED
  BY <1>1, <1>2, OverLinks

LEMMA SessionsLink ==
  ASSUME NEW list, NEW row
  PROVE  OnlySets(row, WithSessions(list, row), SideColumns)
<1>1. ASSUME NEW r, NEW luidField, NEW f \in SideColumns, NEW g \in SideColumns
      PROVE  OnlySets(r, LinkSession(list, r, luidField, f, g), SideColumns)
  <2> DEFINE luid == Lower(Get(r, luidField))
             s == SessionByLuid(list, Get(r, "source_host"), luid)
             nothing == luid = "" \/ luid \in NullLuids \/ s = 0
  <2>1. CASE nothing
    BY <2>1, NoLinks DEF LinkSession
  <2>2. CASE ~nothing
    <3>1. PICK v, w : LinkSession(list, r, luidField, f, g) = Put(Put(r, f, v), g, w)
      BY <2>2 DEF LinkSession
    <3> QED
      BY <3>1, PutTwoLinks, SideColumnsAre
  <2> QED
    BY <2>1, <2>2
<1> DEFINE opened == IF Get(row, "car_action") = "success"
                     THEN LinkSession(list, row, "native.TargetLogonId",
                                      "native.target_session_guid", "native.target_session_link")
                     ELSE row
<1>2. OnlySets(row, opened, SideColumns)
  BY <1>1, SideColumnsAre, NoLinks
<1>3. OnlySets(opened, LinkSession(list, opened, "native.SubjectLogonId",
                                "native.subject_session_guid", "native.subject_session_link"), SideColumns)
  BY <1>1, SideColumnsAre
<1>4. WithSessions(list, row) \in
        {row, LinkSession(list, opened, "native.SubjectLogonId",
                          "native.subject_session_guid", "native.subject_session_link")}
  BY DEF WithSessions
<1> HIDE DEF opened
<1> QED
  BY <1>2, <1>3, <1>4, LinksAddUp, NoLinks

LEMMA FlowLinks ==
  ASSUME NEW raw, NEW list, NEW k
  PROVE  OnlySets(list[k], WithFlow(raw, list, k), SideColumns)
<1> DEFINE row == list[k]
           f == FlowByUid(raw, Get(row, "source_host"), Get(row, "native.uid"))
           put == Put(Put(row, "native.flow_guid", Get(list[f], "guid")), "native.flow_link", "definitive")
<1>1. WithFlow(raw, list, k) \in {row, Filled(put, list[f], FlowFields)}
  BY DEF WithFlow
<1>2. OnlySets(row, put, SideColumns)
  BY PutTwoLinks, SideColumnsAre
<1>3. OnlySets(put, Filled(put, list[f], FlowFields), SideColumns)
  BY FilledLinks, InheritedColumns
<1> HIDE DEF row, f, put
<1>4. OnlySets(row, row, SideColumns)
  BY NoLinks
<1> QED
  BY <1>1, <1>2, <1>3, <1>4, LinksAddUp DEF row

LEMMA NamesLink ==
  ASSUME NEW raw, NEW row
  PROVE  OnlySets(row, WithNames(raw, row), SideColumns)
<1> DEFINE host == Get(row, "source_host")
           dns(r, ip, name) == IF Has(r, ip) THEN Fill(r, name, Resolved(raw, host, r[ip])) ELSE r
           dest == dns(row, "dest_ip", "dest_fqdn")
           named == dns(dest, "src_ip", "src_fqdn")
           sni == Fill(named, "dest_fqdn", Sni(raw, host, Uid(row)))
<1>1. {"dest_fqdn", "src_fqdn"} \cap (JoinColumns \cup LinkColumns) = {}
  BY DEF JoinColumns, ReferenceColumns, LinkColumns, SessionColumns, LineageColumns
<1>2. ASSUME NEW r, NEW ip, NEW name \in {"dest_fqdn", "src_fqdn"}
      PROVE  OnlySets(r, dns(r, ip, name), SideColumns)
  BY <1>1, FillLinks, NoLinks
<1>3. OnlySets(row, dest, SideColumns) /\ OnlySets(dest, named, SideColumns)
  BY <1>2
<1>4. OnlySets(named, sni, SideColumns)
  BY <1>1, FillLinks
<1>5. PICK v : WithNames(raw, row) \in {row, sni, Put(sni, "native.server_cert_subject", v)}
  BY DEF WithNames
<1> HIDE DEF dest, named, sni
<1>6. OnlySets(row, sni, SideColumns)
  BY <1>3, <1>4, LinksAddUp
<1>7. OnlySets(sni, Put(sni, "native.server_cert_subject", v), SideColumns)
  BY PutLinks, SideColumnsAre
<1> QED
  BY <1>5, <1>6, <1>7, LinksAddUp, NoLinks

LEMMA ExecutionLinks ==
  ASSUME NEW raw, NEW list, NEW k
  PROVE  OnlySets(list[k], WithExecution(raw, list, k), SideColumns)
<1>1. PICK v, w, n : WithExecution(raw, list, k) \in
        {list[k], Put(Put(list[k], "native.executed_as_process_guid", v),
                      "native.executed_as_process_link", w),
         With(Put(Put(list[k], "native.executed_as_process_guid", v),
                  "native.executed_as_process_link", w), "native.executed_as_process_count", n)}
  BY DEF WithExecution
<1> DEFINE linked == Put(Put(list[k], "native.executed_as_process_guid", v),
                         "native.executed_as_process_link", w)
<1>2. OnlySets(list[k], linked, SideColumns)
  BY PutTwoLinks, SideColumnsAre
<1>3. OnlySets(linked, With(linked, "native.executed_as_process_count", n), SideColumns)
  BY WithLinks, SideColumnsAre
<1>4. OnlySets(list[k], list[k], SideColumns)
  BY NoLinks
<1> HIDE DEF linked
<1> QED
  BY <1>1, <1>2, <1>3, <1>4, LinksAddUp DEF linked

LEMMA CanonicalUserLinks ==
  ASSUME NEW row
  PROVE  OnlySets(row, WithCanonicalUser(row), SideColumns)
<1> DEFINE sid == IF Has(row, "sid") THEN row["sid"] ELSE Get(row, "uid")
           known == /\ sid \in DOMAIN CanonicalUser /\ "user" \in Fields(row)
                    /\ Has(row, "user") => row["user"] \in Aliases
<1>1. CASE ~known
  BY <1>1, NoLinks DEF WithCanonicalUser
<1>2. CASE known
  <2>1. WithCanonicalUser(row) = Put(row, "user", CanonicalUser[sid])
    BY <1>2 DEF WithCanonicalUser
  <2>2. CanonicalUser[sid] # ""
    BY <1>2, ColumnsAssumption
  <2>3. "user" \notin JoinColumns \cup LinkColumns
    BY DEF JoinColumns, ReferenceColumns, LinkColumns, SessionColumns, LineageColumns
  <2>4. Has(row, "user") => row["user"] \in Aliases
    BY <1>2
  <2>5. PICK name : name # "" /\ WithCanonicalUser(row) = Put(row, "user", name)
    BY <2>1, <2>2
  <2> HIDE DEF sid, known
  <2>6. /\ "user" \in DOMAIN Put(row, "user", name)
        /\ \A x : x # "user" => Same(row, Put(row, "user", name), x)
    BY <2>5, PutIs
  <2>7. Says(row, Put(row, "user", name))
    BY <2>4, <2>6 DEF Says, Same, Has
  <2> QED
    BY <2>3, <2>5, <2>6, <2>7 DEF OnlySets
<1> QED
  BY <1>1, <1>2

-----------------------------------------------------------------------------
(* Owners and parents *)

\* From row to after, the field was set to a guid that was found in one of two ways.
Linked(row, after, field, guid, by) ==
  /\ OnlySets(row, after, {field, "link_confidence"})
  /\ Get(after, field) = guid
  /\ Get(after, "link_confidence") = by

\* A link and its confidence.
LEMMA LinkIsSet ==
  ASSUME NEW row, NEW field \in {"owning_guid", "parent_guid"}, NEW g, NEW by
  PROVE  Linked(row, Put(Put(row, field, g), "link_confidence", by), field, g, by)
<1> DEFINE first == Put(row, field, g)
           linked == Put(first, "link_confidence", by)
<1>1. {field, "link_confidence"} \subseteq LinkColumns
  BY DEF LinkColumns, LineageColumns
<1>2. OnlySets(row, linked, {field, "link_confidence"})
  BY <1>1, PutTwoLinks
<1>3. Get(first, field) = g
  BY PutGets
<1> HIDE DEF first
<1>4. \A x : x # "link_confidence" => Same(first, linked, x)
  BY PutIs
<1>5. Get(linked, "link_confidence") = by
  BY PutGets
<1>6. Same(first, linked, field)
  BY <1>4
<1> HIDE DEF linked
<1>7. Linked(row, linked, field, g, by)
  BY <1>2, <1>3, <1>5, <1>6 DEF Linked, Same, Has, Get, OrElse
<1> QED
  BY <1>7 DEF linked, first

\* The link stays when columns are inherited.
LEMMA InheritKeepsTheLink ==
  ASSUME NEW row, NEW linked, NEW field \in {"owning_guid", "parent_guid"}, NEW g, NEW by,
         Linked(row, linked, field, g, by), NEW after, OnlySets(linked, after, {})
  PROVE  Linked(row, after, field, g, by)
<1>1. OnlySets(linked, after, {field, "link_confidence"})
  BY MoreLinks
<1>2. Same(linked, after, field) /\ Same(linked, after, "link_confidence")
  BY DEF OnlySets, LinkColumns, LineageColumns
<1>3. OnlySets(row, after, {field, "link_confidence"})
  BY <1>1, LinksAddUp DEF Linked
<1> QED
  BY <1>2, <1>3 DEF Linked, Same, Has, Get, OrElse

\* What the row has after its owner is resolved.
OwnerSet(raw, list, k, after) ==
  LET owner == OwnerOf(raw, list[k])
  IN  IF owner.at = 0 THEN after = list[k]
      ELSE Linked(list[k], after, "owning_guid", Get(list[owner.at], "guid"), owner.by)

LEMMA OwnerIsSet ==
  ASSUME NEW raw, NEW list, NEW k
  PROVE  OwnerSet(raw, list, k, WithOwner(raw, list, k))
<1> DEFINE owner == OwnerOf(raw, list[k])
           o == list[owner.at]
           linked == Put(Put(list[k], "owning_guid", Get(o, "guid")), "link_confidence", owner.by)
           after == WithOwner(raw, list, k)
<1>1. CASE owner.at = 0
  BY <1>1 DEF WithOwner, OwnerSet
<1>2. CASE owner.at # 0
  <2>1. after = Filled(linked, o, [f \in OwnerFields |-> f])
    BY <1>2 DEF WithOwner, Inherit
  <2>2. OnlySets(linked, after, {})
    BY <2>1, FilledLinks, InheritedColumns
  <2>4. Linked(list[k], linked, "owning_guid", Get(o, "guid"), owner.by)
    BY LinkIsSet
  <2> HIDE DEF linked, after
  <2>5. Linked(list[k], after, "owning_guid", Get(o, "guid"), owner.by)
    BY <2>2, <2>4, InheritKeepsTheLink
  <2> QED
    BY <1>2, <2>5 DEF OwnerSet, after
<1> QED
  BY <1>1, <1>2

ParentSet(raw, list, k, after) ==
  LET parent == ParentOf(raw, list[k])
  IN  IF parent.at \in {0, k} THEN after = list[k]
      ELSE Linked(list[k], after, "parent_guid", Get(list[parent.at], "guid"), parent.by)

LEMMA ParentIsSet ==
  ASSUME NEW raw, NEW list, NEW k
  PROVE  ParentSet(raw, list, k, WithParent(raw, list, k))
<1> DEFINE parent == ParentOf(raw, list[k])
           p == list[parent.at]
           linked == Put(Put(list[k], "parent_guid", Get(p, "guid")), "link_confidence", parent.by)
           after == WithParent(raw, list, k)
<1>1. CASE parent.at \in {0, k}
  BY <1>1 DEF WithParent, ParentSet
<1>2. CASE parent.at \notin {0, k}
  <2>1. after = Filled(linked, p, ParentFields)
    BY <1>2 DEF WithParent, FromParent
  <2>2. OnlySets(linked, after, {})
    BY <2>1, FilledLinks, InheritedColumns
  <2>4. Linked(list[k], linked, "parent_guid", Get(p, "guid"), parent.by)
    BY LinkIsSet
  <2> HIDE DEF linked, after
  <2>5. Linked(list[k], after, "parent_guid", Get(p, "guid"), parent.by)
    BY <2>2, <2>4, InheritKeepsTheLink
  <2> QED
    BY <1>2, <2>5 DEF ParentSet, after
<1> QED
  BY <1>1, <1>2

LEMMA TargetLinks ==
  ASSUME NEW raw, NEW list, NEW k
  PROVE  OnlySets(list[k], WithTarget(raw, list, k), {"native.target_process_guid", "native.target_process_link"})
<1>1. PICK v, w : WithTarget(raw, list, k) \in
        {list[k], Put(Put(list[k], "native.target_process_guid", v), "native.target_process_link", w)}
  BY DEF WithTarget
<1>2. {"native.target_process_guid", "native.target_process_link"} \subseteq LinkColumns
  BY DEF LinkColumns, LineageColumns
<1> QED
  BY <1>1, <1>2, PutTwoLinks, NoLinks

(***************************************************************************)
(* Which candidate a join takes                                            *)
(***************************************************************************)
LEMMA LeastIsThere ==
  ASSUME NEW S \in SUBSET Nat, S # {}
  PROVE  Min(S) \in S /\ \A x \in S : Min(S) <= x
<1>1. PICK b \in S : \A c \in S : ~(<<c, b>> \in OpToRel(<, Nat))
  BY NatLessThanWellFounded, WFMin
<1>2. \A c \in S : ~(c < b)
  BY <1>1 DEF OpToRel
<1>3. \A c \in S : b <= c
  BY <1>2
<1> QED
  BY <1>3 DEF Min

LEMMA GreatestIsThere ==
  ASSUME NEW n \in Nat, NEW S \in SUBSET (0..n), S # {}
  PROVE  Max(S) \in S /\ \A x \in S : x <= Max(S)
<1> DEFINE Bounds == {b \in Nat : \A x \in S : x <= b}
<1>1. Bounds \in SUBSET Nat /\ n \in Bounds
  OBVIOUS
<1>2. Min(Bounds) \in Bounds /\ \A c \in Bounds : Min(Bounds) <= c
  <2> HIDE DEF Bounds
  <2> QED
    BY <1>1, LeastIsThere
<1>3. PICK b \in Bounds : \A c \in Bounds : b <= c
  BY <1>2
<1>4. b \in S
  <2> SUFFICES ASSUME b \notin S PROVE FALSE
    OBVIOUS
  <2>1. PICK x \in S : TRUE
    OBVIOUS
  <2>2. \A y \in S : y <= b - 1 /\ b > 0
    BY <1>3
  <2>3. b - 1 \in Bounds
    BY <1>3, <2>1, <2>2
  <2> QED
    BY <1>3, <2>3
<1>5. \A x \in S : x <= b
  BY <1>3
<1> QED
  BY <1>4, <1>5 DEF Max

LEMMA FirstAtIs ==
  ASSUME NEW n \in Nat, NEW S \in SUBSET (1..n)
  PROVE  FirstAt(S) = 0 \/ FirstAt(S) \in S
<1>1. CASE S = {}
  BY <1>1 DEF FirstAt
<1>2. CASE S # {}
  BY <1>2, LeastIsThere DEF FirstAt
<1> QED
  BY <1>1, <1>2

LEMMA LastAtIs ==
  ASSUME NEW n \in Nat, NEW S \in SUBSET (1..n)
  PROVE  LastAt(S) = 0 \/ LastAt(S) \in S
<1>1. CASE S = {}
  BY <1>1 DEF LastAt
<1>2. CASE S # {}
  <2>1. S \in SUBSET (0..n)
    OBVIOUS
  <2> QED
    BY <1>2, <2>1, GreatestIsThere DEF LastAt
<1> QED
  BY <1>1, <1>2

-----------------------------------------------------------------------------
(* Processes *)

\* A list of rows with their times, as the cascade has them.
Rows(list, n) ==
  /\ n \in Nat /\ DOMAIN list = 1..n
  /\ \A k \in 1..n : Time(list[k]) \in Nat

EndsOf(list, process) ==
  {k \in DOMAIN list : /\ list[k]["car_object"] = "process"
                       /\ Get(list[k], "car_action") \in {"terminate", "exit"}
                       /\ Has(list[k], "guid") /\ Has(process, "guid")
                       /\ list[k]["guid"] = process["guid"]
                       /\ SameHost(list[k], process)}

\* As far as the ends of a process have times, it is alive until the first of them.
LEMMA AliveUntil ==
  ASSUME NEW n, NEW list, Rows(list, n), NEW process, NEW t \in Nat
  PROVE  /\ AliveAt(list, process, t) /\ (\A e \in EndsOf(list, process) : Time(list[e]) # 0)
              => \A e \in EndsOf(list, process) : Time(list[e]) \notin 1..(t - 1)
         /\ ~AliveAt(list, process, t) => \E e \in EndsOf(list, process) : Time(list[e]) \in 1..(t - 1)
<1> DEFINE ends == EndsOf(list, process)
           times == {Time(list[k]) : k \in ends} \ {0}
           none == ends = {} \/ Time(list[Min(ends)]) = 0
<1>1. ExitTime(list, process) = IF none THEN 0 ELSE Min(times)
  BY DEF ExitTime, EndsOf
<1>2. ends \in SUBSET (1..n) /\ \A e \in ends : Time(list[e]) \in Nat
  BY DEF Rows, EndsOf
<1>3. CASE none
  <2>1. AliveAt(list, process, t)
    BY <1>1, <1>3 DEF AliveAt
  <2>2. ends = {} \/ \E e \in ends : Time(list[e]) = 0
    <3>1. ends # {} => Min(ends) \in ends
      <4> HIDE DEF ends
      <4> QED
        BY <1>2, LeastIsThere DEF Rows
    <3> QED
      BY <1>3, <3>1
  <2> QED
    BY <2>1, <2>2
<1>4. CASE ~none
  <2>1. Min(ends) \in ends /\ Time(list[Min(ends)]) # 0
    <3> HIDE DEF ends
    <3> QED
      BY <1>2, <1>4, LeastIsThere
  <2>2. times \in SUBSET Nat /\ times # {}
    BY <1>2, <2>1
  <2>3. Min(times) \in times /\ \A x \in times : Min(times) <= x
    <3> HIDE DEF times
    <3> QED
      BY <2>2, LeastIsThere
  <2>4. PICK m : m = Min(times) /\ m \in Nat /\ m # 0
    BY <2>2, <2>3
  <2>5. AliveAt(list, process, t) <=> t <= m
    BY <1>1, <1>4, <2>4 DEF AliveAt
  <2>6. \A e \in ends : Time(list[e]) # 0 => m <= Time(list[e])
    BY <2>3, <2>4
  <2>7. \E e \in ends : Time(list[e]) = m
    BY <2>3, <2>4
  <2> HIDE DEF ends, times, none
  <2> QED
    BY <1>2, <2>4, <2>5, <2>6, <2>7 DEF ends
<1> QED
  BY <1>3, <1>4

\* At a time a pid means the process that was created last by then and is alive.
LEMMA MatchIs ==
  ASSUME NEW n, NEW list, Rows(list, n), NEW candidates \in SUBSET (1..n), NEW t \in Nat, t # 0,
         MatchAt(list, candidates, t) # 0
  PROVE  \E m \in candidates :
           /\ m = MatchAt(list, candidates, t)
           /\ Time(list[m]) <= t /\ AliveAt(list, list[m], t)
           /\ \A d \in candidates : Time(list[m]) < Time(list[d]) /\ Time(list[d]) <= t
                                    => ~AliveAt(list, list[d], t)
<1> DEFINE eligible == {k \in candidates : Time(list[k]) <= t /\ AliveAt(list, list[k], t)}
           later(j, k) == \/ Time(list[j]) < Time(list[k])
                          \/ Time(list[j]) = Time(list[k]) /\ j <= k
           chosen(k) == k \in eligible /\ \A j \in eligible : later(j, k)
<1>1. \A k \in candidates : Time(list[k]) \in Nat
  BY DEF Rows
<1>2. eligible # {} /\ MatchAt(list, candidates, t) = CHOOSE k \in eligible : \A j \in eligible : later(j, k)
  BY DEF MatchAt
<1>3. \E k \in eligible : \A j \in eligible : later(j, k)
  <2> DEFINE times == {Time(list[k]) : k \in eligible}
  <2>1. times \in SUBSET (0..t) /\ times # {}
    <3>1. eligible # {}
      BY <1>2
    <3>2. \A k \in eligible : Time(list[k]) \in 0..t
      BY <1>1
    <3> HIDE DEF eligible
    <3> QED
      BY <3>1, <3>2
  <2>2. PICK last \in times : \A x \in times : x <= last
    <3> HIDE DEF times
    <3> QED
      BY <2>1, GreatestIsThere
  <2> DEFINE best == {k \in eligible : Time(list[k]) = last}
  <2>3. best \in SUBSET (0..n) /\ best # {} /\ n \in Nat
    BY <2>2 DEF Rows
  <2>4. PICK k \in best : \A j \in best : j <= k
    <3> HIDE DEF best
    <3> QED
      BY <2>3, GreatestIsThere
  <2>5. \A j \in eligible : Time(list[j]) <= last
    BY <2>2
  <2>6. \A j \in eligible : later(j, k)
    BY <1>1, <2>1, <2>2, <2>4, <2>5
  <2> QED
    BY <2>4, <2>6
<1>4. PICK m : m = MatchAt(list, candidates, t) /\ m \in eligible /\ \A j \in eligible : later(j, m)
  <2> HIDE DEF eligible, later
  <2> QED
    BY <1>2, <1>3
<1>5. \A d \in candidates : Time(list[m]) < Time(list[d]) /\ Time(list[d]) <= t => ~AliveAt(list, list[d], t)
  BY <1>1, <1>4
<1> QED
  BY <1>4, <1>5

(***************************************************************************)
(* A whole turn of the loop                                                *)
(***************************************************************************)
List(list, n) == n \in Nat /\ list = [j \in 1..n |-> list[j]]

LEMMA ExceptOnce ==
  ASSUME NEW list, NEW n, List(list, n), NEW k \in 1..n, NEW a
  PROVE  /\ [list EXCEPT ![k] = a][k] = a
         /\ List([list EXCEPT ![k] = a], n)
         /\ \A j \in (1..n) \ {k} : [list EXCEPT ![k] = a][j] = list[j]
<1>1. DOMAIN list = 1..n
  BY DEF List
<1>2. /\ [list EXCEPT ![k] = a][k] = a
      /\ \A j \in (1..n) \ {k} : [list EXCEPT ![k] = a][j] = list[j]
  BY <1>1
<1>3. [list EXCEPT ![k] = a] = [j \in 1..n |-> [list EXCEPT ![k] = a][j]]
  BY <1>1
<1> QED
  BY <1>2, <1>3 DEF List

LEMMA ExceptTwice ==
  ASSUME NEW list, NEW n, List(list, n), NEW k \in 1..n, NEW a, NEW b
  PROVE  [[list EXCEPT ![k] = a] EXCEPT ![k] = b] = [list EXCEPT ![k] = b]
BY DEF List

\* Up to the pairing of sessions only the row in hand changes.
LEMMA BeforePairing ==
  ASSUME NEW raw, NEW list, NEW n, List(list, n), NEW k \in 1..n
  PROVE  \E row : /\ EnrichImage(raw, EnrichNames(raw, EnrichSelf(raw, list, k), k), k)
                        = [list EXCEPT ![k] = row]
                  /\ OnlySets(list[k], row, SideColumns)
<1> DEFINE a == WithSessions(raw, WithIdentifiers(list[k]))
           one == [list EXCEPT ![k] = a]
           b == WithNames(raw, WithFlow(raw, one, k))
           two == [list EXCEPT ![k] = b]
           c == WithExecution(raw, two, k)
<1>1. EnrichSelf(raw, list, k) = one
  BY DEF EnrichSelf
<1>2. OnlySets(list[k], a, SideColumns)
  BY IdentifiersLink, SessionsLink, LinksAddUp
<1>3. one[k] = a /\ List(one, n)
  BY ExceptOnce
<1>4. EnrichNames(raw, one, k) = two
  <2>1. EnrichNames(raw, one, k) = [one EXCEPT ![k] = b]
    BY DEF EnrichNames
  <2> HIDE DEF a, b
  <2> QED
    BY <2>1, ExceptTwice
<1>5. OnlySets(list[k], b, SideColumns)
  <2>1. OnlySets(one[k], WithFlow(raw, one, k), SideColumns)
    BY FlowLinks
  <2>2. OnlySets(WithFlow(raw, one, k), b, SideColumns)
    BY NamesLink
  <2> HIDE DEF a, b, one
  <2> QED
    BY <1>2, <1>3, <2>1, <2>2, LinksAddUp
<1> HIDE DEF a, b, one
<1>6. two[k] = b
  <2>1. DOMAIN list = 1..n
    BY DEF List
  <2> QED
    BY <2>1
<1>7. EnrichImage(raw, two, k) = [list EXCEPT ![k] = c]
  <2>1. EnrichImage(raw, two, k) = [two EXCEPT ![k] = c]
    BY DEF EnrichImage
  <2> HIDE DEF c
  <2> QED
    BY <2>1, ExceptTwice
<1>8. OnlySets(list[k], c, SideColumns)
  <2>1. OnlySets(two[k], c, SideColumns)
    BY ExecutionLinks
  <2> HIDE DEF c, two
  <2> QED
    BY <1>5, <1>6, <2>1, LinksAddUp
<1> QED
  BY <1>1, <1>4, <1>7, <1>8

LEMMA LoginIs ==
  ASSUME NEW raw, NEW n, Rows(raw, n), NEW row, LoginOf(raw, row) # 0
  PROVE  /\ LoginOf(raw, row) \in 1..n
         /\ Get(raw[LoginOf(raw, row)], "car_action") \in {"login", "reconnect", "unlock"}
         /\ SameHost(raw[LoginOf(raw, row)], row)
<1>1. ASSUME NEW f, Login(raw, row, f) # 0
      PROVE  /\ Login(raw, row, f) \in 1..n
             /\ Get(raw[Login(raw, row, f)], "car_action") \in {"login", "reconnect", "unlock"}
             /\ SameHost(raw[Login(raw, row, f)], row)
  <2> DEFINE logins == {k \in DOMAIN raw :
               /\ raw[k]["car_object"] = "user_session"
               /\ Get(raw[k], "car_action") \in {"login", "reconnect", "unlock"}
               /\ SameHost(raw[k], row) /\ Has(raw[k], f) /\ Has(row, f)
               /\ raw[k][f] = row[f] \/ (f = "login_id" /\ Lower(raw[k][f]) = Lower(row[f]))}
  <2>1. Login(raw, row, f) = FirstAt(logins)
    BY DEF Login
  <2>2. logins \in SUBSET (1..n) /\ n \in Nat
    BY DEF Rows
  <2>3. \A k \in logins : Get(raw[k], "car_action") \in {"login", "reconnect", "unlock"} /\ SameHost(raw[k], row)
    OBVIOUS
  <2> HIDE DEF logins
  <2>4. Login(raw, row, f) \in logins
    BY <1>1, <2>1, <2>2, FirstAtIs
  <2> QED
    BY <2>2, <2>3, <2>4
<1>2. PICK f : LoginOf(raw, row) = Login(raw, row, f)
  BY DEF LoginOf
<1> QED
  BY <1>1, <1>2

\* Of a logout and the login it closes.
Closes(logout, login, closed, ended) ==
  /\ OnlySets(login, closed, {"native.session_logout_guid", "native.session_end"})
  /\ OnlySets(logout, ended, {"native.session_login_guid"})
  /\ Get(closed, "native.session_logout_guid") = Get(logout, "guid")
  /\ OrElse(closed, "native.session_end", 0) = Time(logout)
  /\ Get(ended, "native.session_login_guid") = Get(login, "guid")

LEMMA PairingIs ==
  ASSUME NEW raw, NEW list, NEW k
  PROVE  \/ PairSession(raw, list, k) = list
         \/ LET login == LoginOf(raw, list[k])
            IN  /\ login # 0 /\ Get(list[k], "car_action") \in {"logout", "disconnect"}
                /\ \E closed, ended :
                     /\ PairSession(raw, list, k) = [list EXCEPT ![login] = closed, ![k] = ended]
                     /\ Closes(list[k], list[login], closed, ended)
<1> DEFINE row == list[k]
           login == LoginOf(raw, row)
           named == Put(list[login], "native.session_logout_guid", Get(row, "guid"))
           closed == IF Time(row) = 0 THEN Without(named, {"native.session_end"})
                     ELSE With(named, "native.session_end", Time(row))
           ended == Put(row, "native.session_login_guid", Get(list[login], "guid"))
           ends == {"native.session_logout_guid", "native.session_end"}
           unpaired == \/ row["car_object"] # "user_session" \/ login = 0
                       \/ Get(row, "car_action") \notin {"logout", "disconnect"}
<1>1. CASE unpaired
  BY <1>1 DEF PairSession
<1>2. CASE ~unpaired
  <2>1. PairSession(raw, list, k) = [list EXCEPT ![login] = closed, ![k] = ended]
    BY <1>2 DEF PairSession
  <2>2. ends \in SUBSET LinkColumns /\ {"native.session_login_guid"} \in SUBSET LinkColumns
    BY DEF LinkColumns, SessionColumns
  <2>3. OnlySets(list[login], named, ends)
    BY <2>2, PutLinks
  <2>4. OnlySets(named, closed, ends)
    BY <2>2, WithoutLinks, WithLinks
  <2>5. OnlySets(list[login], closed, ends)
    <3> HIDE DEF named, closed, login, row
    <3> QED
      BY <2>3, <2>4, LinksAddUp
  <2>6. OnlySets(row, ended, {"native.session_login_guid"})
    BY <2>2, PutLinks
  <2>7. Get(named, "native.session_logout_guid") = Get(row, "guid")
    BY PutGets
  <2>8. Same(named, closed, "native.session_logout_guid")
    <3> HIDE DEF named
    <3>1. \A x : x # "native.session_end" => Same(named, Without(named, {"native.session_end"}), x)
      BY WithoutIs
    <3>2. \A x : x # "native.session_end" => Same(named, With(named, "native.session_end", Time(row)), x)
      BY WithIs
    <3> QED
      BY <3>1, <3>2
  <2>9. Get(closed, "native.session_logout_guid") = Get(row, "guid")
    <3> HIDE DEF named, closed
    <3> QED
      BY <2>7, <2>8 DEF Same, Get, OrElse, Has
  <2>10. OrElse(closed, "native.session_end", 0) = Time(row)
    <3>1. CASE Time(row) = 0
      BY <3>1, WithoutIs DEF OrElse, Has
    <3>2. CASE Time(row) # 0
      BY <3>2, WithIs DEF OrElse, Has
    <3> QED
      BY <3>1, <3>2
  <2>11. Get(ended, "native.session_login_guid") = Get(list[login], "guid")
    BY PutGets
  <2>12. Closes(row, list[login], closed, ended)
    <3> HIDE DEF closed, ended, named, row, login
    <3> QED
      BY <2>5, <2>6, <2>9, <2>10, <2>11 DEF Closes
  <2> HIDE DEF closed, ended
  <2> QED
    BY <1>2, <2>1, <2>12
<1> QED
  BY <1>1, <1>2

\* Whatever a row gets before its lineage, it is none of the lineage.
LEMMA ColumnsAreApart ==
  /\ LinkColumns = SideColumns \cup SessionColumns \cup LineageColumns
  /\ SideColumns \cap SessionColumns = {} /\ SideColumns \cap LineageColumns = {}
  /\ SessionColumns \cap LineageColumns = {} /\ JoinColumns \cap LinkColumns = {}
<1>1. SessionColumns \cap LineageColumns = {} /\ SessionColumns \cup LineageColumns \subseteq LinkColumns
  BY DEF SessionColumns, LineageColumns, LinkColumns
<1>2. JoinColumns \cap LinkColumns = {}
  BY DEF JoinColumns, ReferenceColumns, SessionColumns, LineageColumns, LinkColumns
<1> QED
  BY <1>1, <1>2 DEF SideColumns

TargetColumns == {"native.target_process_guid", "native.target_process_link"}

\* Each row of a list as it is once the sessions are paired: no lineage yet.
Midway(list, middle, n) ==
  /\ List(middle, n)
  /\ \A j \in 1..n : OnlySets(list[j], middle[j], SideColumns \cup SessionColumns)

\* What the turn of row k does to the lineage: of this row, and of no other.
LineageSet(raw, middle, n, k, after) ==
  /\ List(after, n)
  /\ \A j \in (1..n) \ {k} : after[j] = middle[j]
  /\ IF IsCreate(middle[k]) THEN ParentSet(raw, middle, k, after[k])
     ELSE \E owned : /\ OwnerSet(raw, middle, k, owned) /\ OnlySets(owned, after[k], TargetColumns)
                     /\ owned["car_object"] # "thread" => after[k] = owned

LEMMA LineageIsSet ==
  ASSUME NEW raw, NEW middle, NEW n, List(middle, n), NEW k \in 1..n
  PROVE  LineageSet(raw, middle, n, k, EnrichLineage(raw, middle, k))
<1>1. CASE IsCreate(middle[k])
  <2> DEFINE row == WithParent(raw, middle, k)
             after == [middle EXCEPT ![k] = row]
  <2>1. EnrichLineage(raw, middle, k) = after
    BY <1>1 DEF EnrichLineage
  <2>2. ParentSet(raw, middle, k, row)
    BY ParentIsSet
  <2> HIDE DEF row
  <2>3. after[k] = row /\ List(after, n) /\ \A j \in (1..n) \ {k} : after[j] = middle[j]
    BY ExceptOnce
  <2> HIDE DEF after
  <2> QED
    BY <1>1, <2>1, <2>2, <2>3 DEF LineageSet
<1>2. CASE ~IsCreate(middle[k])
  <2> DEFINE owned == WithOwner(raw, middle, k)
             one == [middle EXCEPT ![k] = owned]
             row == WithTarget(raw, one, k)
             after == [middle EXCEPT ![k] = row]
  <2>1. OwnerSet(raw, middle, k, owned)
    BY OwnerIsSet
  <2>2. EnrichLineage(raw, middle, k) = [one EXCEPT ![k] = row]
    BY <1>2 DEF EnrichLineage, EnrichOwner
  <2> HIDE DEF owned
  <2>3. one[k] = owned
    BY DEF List
  <2>4. OnlySets(owned, row, TargetColumns)
    <3>1. OnlySets(one[k], row, TargetColumns)
      BY TargetLinks DEF TargetColumns
    <3> HIDE DEF one, row
    <3> QED
      BY <2>3, <3>1
  <2>8. owned["car_object"] # "thread" => row = owned
    <3> HIDE DEF one
    <3> QED
      BY <2>3 DEF WithTarget
  <2> HIDE DEF row
  <2>5. [one EXCEPT ![k] = row] = after
    BY ExceptTwice
  <2>6. after[k] = row /\ List(after, n) /\ \A j \in (1..n) \ {k} : after[j] = middle[j]
    BY ExceptOnce
  <2> HIDE DEF after, one
  <2>7. EnrichLineage(raw, middle, k) = after
    BY <2>2, <2>5
  <2> QED
    BY <1>2, <2>1, <2>4, <2>6, <2>7, <2>8 DEF LineageSet
<1> QED
  BY <1>1, <1>2

\* What the turn of row k does to the sessions: nothing, or it closes one.
SessionsSet(raw, list, n, k, middle) ==
  \/ \A j \in 1..n : \A f \in SessionColumns : Same(list[j], middle[j], f)
  \/ \E login \in (1..n) \ {k} :
       /\ SameHost(raw[login], list[k])
       /\ \A j \in (1..n) \ {k, login} : \A f \in SessionColumns : Same(list[j], middle[j], f)
       /\ Same(list[login], middle[login], "native.session_login_guid")
       /\ Get(middle[login], "native.session_logout_guid") = Get(list[k], "guid")
       /\ OrElse(middle[login], "native.session_end", 0) = Time(list[k])
       /\ \A f \in SessionColumns \ {"native.session_login_guid"} : Same(list[k], middle[k], f)
       /\ Get(middle[k], "native.session_login_guid") = Get(list[login], "guid")

\* A turn sets the sessions, then the lineage of the row in hand.
LEMMA TurnIs ==
  ASSUME NEW n, NEW raw, Rows(raw, n), NEW list, List(list, n), NEW k \in 1..n,
         \A j \in 1..n : \A f \in JoinColumns : Same(raw[j], list[j], f)
  PROVE  \E middle : /\ Midway(list, middle, n)
                     /\ SessionsSet(raw, list, n, k, middle)
                     /\ LineageSet(raw, middle, n, k, EnrichRow(raw, list, k))
<1>1. PICK row : /\ EnrichImage(raw, EnrichNames(raw, EnrichSelf(raw, list, k), k), k)
                        = [list EXCEPT ![k] = row]
                 /\ OnlySets(list[k], row, SideColumns)
  BY BeforePairing
<1> DEFINE before == [list EXCEPT ![k] = row]
           paired == PairSession(raw, before, k)
           middle == [paired EXCEPT ![k] = WithCanonicalUser(paired[k])]
<1>2. before[k] = row /\ List(before, n) /\ \A j \in (1..n) \ {k} : before[j] = list[j]
  BY ExceptOnce
<1>3. \A j \in 1..n : OnlySets(list[j], before[j], SideColumns)
  <2> HIDE DEF before
  <2> QED
    BY <1>1, <1>2, NoLinks
<1>4. EnrichRow(raw, list, k) = EnrichLineage(raw, middle, k)
  BY <1>1 DEF EnrichRow
<1> HIDE DEF before
<1> SUFFICES /\ Midway(list, middle, n) /\ SessionsSet(raw, list, n, k, middle)
  <2>1. List(middle, n) => LineageSet(raw, middle, n, k, EnrichLineage(raw, middle, k))
    <3> HIDE DEF middle
    <3> QED
      BY LineageIsSet
  <2> HIDE DEF middle
  <2> QED
    BY <1>4, <2>1 DEF Midway
<1>5. CASE paired = before
  <2> DEFINE named == WithCanonicalUser(before[k])
  <2>1. middle = [before EXCEPT ![k] = named]
    BY <1>5
  <2>2. OnlySets(before[k], named, SideColumns)
    BY CanonicalUserLinks
  <2> HIDE DEF named
  <2>3. /\ [before EXCEPT ![k] = named][k] = named /\ List([before EXCEPT ![k] = named], n)
        /\ \A j \in (1..n) \ {k} : [before EXCEPT ![k] = named][j] = before[j]
    BY <1>2, ExceptOnce
  <2> HIDE DEF middle, paired
  <2>4. \A j \in 1..n : OnlySets(before[j], middle[j], SideColumns)
    BY <2>1, <2>2, <2>3, NoLinks
  <2>5. \A j \in 1..n : OnlySets(list[j], middle[j], SideColumns)
    BY <1>3, <2>4, LinksAddUp
  <2>6. \A j \in 1..n : OnlySets(list[j], middle[j], SideColumns \cup SessionColumns)
    BY <2>5, MoreLinks
  <2>7. \A j \in 1..n : \A f \in SessionColumns : Same(list[j], middle[j], f)
    BY <2>5, ColumnsAreApart DEF OnlySets
  <2> QED
    BY <2>1, <2>3, <2>6, <2>7 DEF Midway, SessionsSet
<1>6. CASE paired # before
  <2> DEFINE login == LoginOf(raw, before[k])
  <2>1. /\ login # 0 /\ Get(before[k], "car_action") \in {"logout", "disconnect"}
        /\ \E closed, ended : /\ paired = [before EXCEPT ![login] = closed, ![k] = ended]
                              /\ Closes(before[k], before[login], closed, ended)
    BY <1>6, PairingIs
  <2>2. PICK closed, ended : /\ paired = [before EXCEPT ![login] = closed, ![k] = ended]
                             /\ Closes(before[k], before[login], closed, ended)
    BY <2>1
  <2>3. /\ login \in 1..n /\ Get(raw[login], "car_action") \in {"login", "reconnect", "unlock"}
        /\ SameHost(raw[login], before[k])
    BY <2>1, LoginIs
  <2> HIDE DEF login, paired
  <2>4. \A f \in JoinColumns : Same(list[k], before[k], f) /\ Same(raw[k], list[k], f)
    BY <1>3, ColumnsAreApart, SideColumnsAre DEF OnlySets
  <2>5. login # k
    <3>1. Get(raw[k], "car_action") = Get(before[k], "car_action")
      BY <2>4 DEF JoinColumns, ReferenceColumns, Same, Get, OrElse, Has
    <3> QED
      BY <2>1, <2>3, <3>1
  <2>6. SameHost(raw[login], list[k]) /\ Get(list[k], "guid") = Get(before[k], "guid")
        /\ Time(list[k]) = Time(before[k])
    BY <2>3, <2>4 DEF JoinColumns, ReferenceColumns, SameHost, Same, Get, OrElse, Has, Time
  <2> DEFINE named == WithCanonicalUser(ended)
  <2>7. OnlySets(ended, named, SideColumns)
    BY CanonicalUserLinks
  <2>8. DOMAIN before = 1..n /\ List(before, n)
    BY <1>2 DEF List
  <2>9. paired[k] = ended /\ DOMAIN paired = 1..n
    BY <2>2, <2>8
  <2>10. middle = [paired EXCEPT ![k] = named]
    BY <2>9
  <2> HIDE DEF named, middle
  <2>11. /\ middle[k] = named /\ middle[login] = closed
         /\ \A j \in (1..n) \ {k, login} : middle[j] = before[j]
         /\ List(middle, n)
    <3>1. /\ middle[k] = named /\ middle[login] = closed
          /\ \A j \in (1..n) \ {k, login} : middle[j] = before[j]
      BY <2>2, <2>3, <2>5, <2>8, <2>10
    <3>2. DOMAIN middle = 1..n /\ middle = [j \in 1..n |-> middle[j]]
      BY <2>9, <2>10
    <3> QED
      BY <3>1, <3>2 DEF List
  <2>12. /\ before[login] = list[login]
         /\ \A j \in (1..n) \ {k, login} : middle[j] = list[j]
    BY <1>2, <2>3, <2>5, <2>11
  <2>13. OnlySets(list[login], middle[login], {"native.session_logout_guid", "native.session_end"})
    BY <2>2, <2>11, <2>12 DEF Closes
  <2>14. OnlySets(list[k], middle[k], SideColumns \cup {"native.session_login_guid"})
    <3>1. OnlySets(list[k], before[k], SideColumns \cup {"native.session_login_guid"})
      BY <1>3, MoreLinks
    <3>2. OnlySets(before[k], ended, SideColumns \cup {"native.session_login_guid"})
      BY <2>2, MoreLinks DEF Closes
    <3>3. OnlySets(ended, named, SideColumns \cup {"native.session_login_guid"})
      BY <2>7, MoreLinks
    <3> QED
      BY <2>11, <3>1, <3>2, <3>3, LinksAddUp
  <2>15. \A j \in 1..n : OnlySets(list[j], middle[j], SideColumns \cup SessionColumns)
    <3>1. OnlySets(list[login], middle[login], SideColumns \cup SessionColumns)
      BY <2>13, MoreLinks DEF SessionColumns
    <3>2. OnlySets(list[k], middle[k], SideColumns \cup SessionColumns)
      BY <2>14, MoreLinks DEF SessionColumns
    <3>3. \A j \in (1..n) \ {k, login} : OnlySets(list[j], middle[j], SideColumns \cup SessionColumns)
      BY <2>12, NoLinks
    <3> QED
      BY <3>1, <3>2, <3>3
  <2>16. /\ \A j \in (1..n) \ {k, login} : \A f \in SessionColumns : Same(list[j], middle[j], f)
         /\ Same(list[login], middle[login], "native.session_login_guid")
         /\ \A f \in SessionColumns \ {"native.session_login_guid"} : Same(list[k], middle[k], f)
    <3>1. \A j \in (1..n) \ {k, login} : \A f \in SessionColumns : Same(list[j], middle[j], f)
      BY <2>12 DEF Same
    <3>2. Same(list[login], middle[login], "native.session_login_guid")
      BY <2>13 DEF OnlySets, LinkColumns, SessionColumns
    <3>3. \A f \in SessionColumns \ {"native.session_login_guid"} : Same(list[k], middle[k], f)
      BY <2>14, ColumnsAreApart DEF OnlySets
    <3> QED
      BY <3>1, <3>2, <3>3
  <2>17. /\ Get(middle[login], "native.session_logout_guid") = Get(list[k], "guid")
         /\ OrElse(middle[login], "native.session_end", 0) = Time(list[k])
    BY <2>2, <2>6, <2>11 DEF Closes
  <2>18. Get(middle[k], "native.session_login_guid") = Get(list[login], "guid")
    <3>1. Same(ended, named, "native.session_login_guid")
      BY <2>7, ColumnsAreApart DEF OnlySets, SessionColumns
    <3>2. Get(ended, "native.session_login_guid") = Get(list[login], "guid")
      BY <2>2, <2>12 DEF Closes
    <3> QED
      BY <2>11, <3>1, <3>2 DEF Same, Get, OrElse, Has
  <2> QED
    BY <2>3, <2>5, <2>6, <2>11, <2>15, <2>16, <2>17, <2>18 DEF Midway, SessionsSet
<1> QED
  BY <1>5, <1>6

(***************************************************************************)
(* The fold                                                                *)
(***************************************************************************)
LEMMA LenIs ==
  ASSUME NEW s, NEW n, List(s, n)
  PROVE  Len(s) = n /\ s \in Seq({s[k] : k \in DOMAIN s})
<1> DEFINE S == {s[k] : k \in 1..n}
<1>1. n \in Nat /\ DOMAIN s = 1..n
  BY DEF List
<1>2. s \in [1..n -> S]
  <2>1. \A k \in 1..n : s[k] \in S
    OBVIOUS
  <2> HIDE DEF S
  <2> QED
    BY <2>1 DEF List
<1> HIDE DEF S
<1>3. s \in Seq(S)
  BY <1>1, <1>2
<1>4. Len(s) \in Nat /\ DOMAIN s = 1..Len(s)
  BY <1>3
<1>5. Len(s) = n
  BY <1>1, <1>4
<1> QED
  BY <1>1, <1>3, <1>5 DEF S

LEMMA SameEventIsEquivalence ==
  ASSUME NEW a, NEW b, NEW c
  PROVE  /\ Has(a, "guid") => SameEvent(a, a)
         /\ SameEvent(a, b) => SameEvent(b, a)
         /\ SameEvent(a, b) /\ SameEvent(b, c) => SameEvent(a, c)
BY DEF SameEvent

Together(list, k) == {j \in DOMAIN list : SameEvent(list[j], list[k])}

LEMMA GroupIs ==
  ASSUME NEW list, NEW n, List(list, n), NEW k \in 1..n
  PROVE  \E m \in Nat :
           /\ List(Group(list, k), m)
           /\ \A i \in 1..m : \E j \in Together(list, k) : Group(list, k)[i] = list[j]
           /\ \A j \in Together(list, k) : \E i \in 1..m : Group(list, k)[i] = list[j]
           /\ m = 1 => \A i, j \in Together(list, k) : i = j
<1> DEFINE ps == Together(list, k)
           m == Cardinality(ps)
<1>1. n \in Nat /\ ps \in SUBSET (1..n)
  BY DEF List, Together
<1>2. Group(list, k) = [i \in 1..m |-> list[Nth(ps, i)]]
  BY DEF Group, Picked, Together
<1> HIDE DEF ps
<1>3. /\ m \in Nat
      /\ \A i \in 1..m : Nth(ps, i) \in ps
      /\ \A j \in ps : \E i \in 1..m : Nth(ps, i) = j
  BY <1>1, NthIsBijective
<1> HIDE DEF m
<1>4. List(Group(list, k), m)
  BY <1>2, <1>3 DEF List
<1>5. \A i \in 1..m : Group(list, k)[i] = list[Nth(ps, i)]
  BY <1>2
<1>6. \A i \in 1..m : \E j \in ps : Group(list, k)[i] = list[j]
  BY <1>3, <1>5
<1>7. \A j \in ps : \E i \in 1..m : Group(list, k)[i] = list[j]
  BY <1>3, <1>5
<1>8. m = 1 => \A i, j \in ps : i = j
  <2> SUFFICES ASSUME m = 1, NEW i \in ps, NEW j \in ps PROVE i = j
    OBVIOUS
  <2>1. \A p \in 1..m : p = 1
    OBVIOUS
  <2> QED
    BY <1>3, <2>1
<1> QED
  BY <1>3, <1>4, <1>6, <1>7, <1>8 DEF ps

-----------------------------------------------------------------------------
(* The row that a group folds into *)

LEMMA CoalescedIs ==
  ASSUME NEW group, NEW m, List(group, m), m # 0
  PROVE  /\ \A k \in 1..m : Supplied(group, k) \subseteq DOMAIN Coalesced(group)
         /\ \A f \in DOMAIN Coalesced(group) : \E k \in 1..m : /\ f \in Supplied(group, k)
                                                             /\ Coalesced(group)[f] = group[k][f]
         /\ \A f \in DOMAIN group[1] : Coalesced(group)[f] = group[1][f]
<1>1. DOMAIN group = 1..m /\ m \in Nat /\ 1 \in 1..m
  BY DEF List
<1>2. DOMAIN Coalesced(group) = UNION {Supplied(group, k) : k \in 1..m}
  BY <1>1 DEF Coalesced
<1>3. \A f \in DOMAIN Coalesced(group) : Coalesced(group)[f] = group[FirstWith(group, f)][f]
  BY DEF Coalesced
<1>4. ASSUME NEW f \in DOMAIN Coalesced(group)
      PROVE  /\ FirstWith(group, f) \in 1..m /\ f \in Supplied(group, FirstWith(group, f))
             /\ f \in Supplied(group, 1) => FirstWith(group, f) = 1
  <2> DEFINE ks == {k \in 1..m : f \in Supplied(group, k)}
             first(k) == f \in Supplied(group, k) /\ \A j \in 1..(k - 1) : f \notin Supplied(group, j)
  <2>1. ks \in SUBSET Nat /\ ks # {}
    BY <1>1, <1>2
  <2>2. PICK k \in ks : \A j \in ks : k <= j
    <3> HIDE DEF ks
    <3> QED
      BY <2>1, LeastIsThere
  <2>3. first(k)
    BY <1>1, <2>2
  <2>4. FirstWith(group, f) \in 1..m /\ first(FirstWith(group, f))
    <3>1. FirstWith(group, f) = CHOOSE i \in 1..m : first(i)
      BY <1>1 DEF FirstWith
    <3>2. k \in 1..m
      BY <2>2
    <3> HIDE DEF first
    <3> QED
      BY <2>3, <3>1, <3>2
  <2>5. f \in Supplied(group, 1) => FirstWith(group, f) = 1
    BY <1>1, <2>4
  <2> QED
    BY <2>4, <2>5
<1>5. \A k \in 1..m : Supplied(group, k) \subseteq DOMAIN Coalesced(group)
  BY <1>2
<1>6. \A f \in DOMAIN group[1] : f \in Supplied(group, 1)
  BY DEF Supplied
<1>7. \A f \in DOMAIN group[1] : Coalesced(group)[f] = group[1][f]
  BY <1>1, <1>3, <1>4, <1>5, <1>6
<1>8. \A f \in DOMAIN Coalesced(group) : \E k \in 1..m : /\ f \in Supplied(group, k)
                                                       /\ Coalesced(group)[f] = group[k][f]
  BY <1>3, <1>4
<1> QED
  BY <1>5, <1>7, <1>8

\* The fold adds its own native fields to what the rows supply.
LEMMA AdditiveAdds ==
  ASSUME NEW group
  PROVE  /\ \A f : f \notin FoldNative => Same(Coalesced(group), Additive(group), f)
         /\ OrElse(Additive(group), "native.coalesced_sources", {}) = Artefacts(group)
         /\ Conflicts(group) # {} =>
              OrElse(Additive(group), "native.coalesced_conflicts", {}) = Conflicts(group)
<1> DEFINE sourced == With(Coalesced(group), "native.coalesced_sources", Artefacts(group))
           merged == IF Conflicts(group) = {} THEN sourced
                     ELSE With(sourced, "native.coalesced_conflicts", Conflicts(group))
<1>1. PICK n, by : Additive(group) =
        With(With(merged, "native.contributions", n), "native.contributed_by", by)
  BY DEF Additive
<1> DEFINE counted == With(merged, "native.contributions", n)
<1>2. \A f : f # "native.coalesced_sources" => Same(Coalesced(group), sourced, f)
  BY WithIs
<1>3. "native.coalesced_sources" \in DOMAIN sourced /\ sourced["native.coalesced_sources"] = Artefacts(group)
  BY WithIs
<1> HIDE DEF sourced
<1>4. \A f : f # "native.coalesced_conflicts" => Same(sourced, merged, f)
  <2>1. CASE Conflicts(group) = {}
    BY <2>1 DEF Same
  <2>2. CASE Conflicts(group) # {}
    BY <2>2, WithIs
  <2> QED
    BY <2>1, <2>2
<1>5. Conflicts(group) # {} =>
        "native.coalesced_conflicts" \in DOMAIN merged /\ merged["native.coalesced_conflicts"] = Conflicts(group)
  <2> SUFFICES ASSUME Conflicts(group) # {}
               PROVE  "native.coalesced_conflicts" \in DOMAIN merged
                      /\ merged["native.coalesced_conflicts"] = Conflicts(group)
    OBVIOUS
  <2>1. merged = With(sourced, "native.coalesced_conflicts", Conflicts(group))
    OBVIOUS
  <2> HIDE DEF merged
  <2> QED
    BY <2>1, WithIs
<1> HIDE DEF merged
<1>6. \A f : f # "native.contributions" => Same(merged, counted, f)
  BY WithIs
<1> HIDE DEF counted
<1>7. \A f : f # "native.contributed_by" => Same(counted, Additive(group), f)
  BY <1>1, WithIs DEF counted
<1>8. \A f : f \notin {"native.contributions", "native.contributed_by"} => Same(merged, Additive(group), f)
  BY <1>6, <1>7 DEF Same
<1>9. \A f : f \notin FoldNative => Same(Coalesced(group), Additive(group), f)
  BY <1>2, <1>4, <1>8 DEF Same, FoldNative
<1>10. OrElse(Additive(group), "native.coalesced_sources", {}) = Artefacts(group)
  <2>1. Same(sourced, Additive(group), "native.coalesced_sources")
    BY <1>4, <1>8 DEF Same
  <2> QED
    BY <1>3, <2>1 DEF Same, OrElse, Has
<1>11. Conflicts(group) # {} =>
         OrElse(Additive(group), "native.coalesced_conflicts", {}) = Conflicts(group)
  <2>1. Same(merged, Additive(group), "native.coalesced_conflicts")
    BY <1>8
  <2> QED
    BY <1>5, <2>1 DEF Same, OrElse, Has
<1> QED
  BY <1>9, <1>10, <1>11

\* What a record says is in a row, as its value or as a conflict with its artefact.
KeptBy(q, r) ==
  /\ \A f \in Evidence(r) :
       \/ Has(q, f) /\ q[f] = r[f]
       \/ <<f, Get(r, "source_artefact"), r[f]>> \in OrElse(q, "native.coalesced_conflicts", {})
  /\ Get(r, "source_artefact") \in {Get(q, "source_artefact")} \cup OrElse(q, "native.coalesced_sources", {})

LEMMA AdditiveKeeps ==
  ASSUME NEW group, NEW m, List(group, m), m # 0,
         \A i, j \in 1..m : SameEvent(group[i], group[j]), NEW i \in 1..m
  PROVE  SameEvent(Additive(group), group[i]) /\ KeptBy(Additive(group), group[i])
<1> DEFINE q == Additive(group)
           C == Coalesced(group)
           r == group[i]
<1>1. m \in Nat /\ 1 \in 1..m /\ DOMAIN group = 1..m /\ Len(group) = m
  BY LenIs DEF List
<1>2. \A f : f \notin FoldNative => Same(C, q, f)
  BY AdditiveAdds
<1>3. \A j \in 1..m : Supplied(group, j) \subseteq DOMAIN C
  BY CoalescedIs
<1>4. \A f \in DOMAIN C : \E j \in 1..m : f \in Supplied(group, j) /\ C[f] = group[j][f]
  BY CoalescedIs
<1>5. \A f \in DOMAIN group[1] : C[f] = group[1][f]
  BY CoalescedIs
<1>6. OrElse(q, "native.coalesced_sources", {}) = Artefacts(group)
  BY AdditiveAdds
<1>7. Conflicts(group) # {} => OrElse(q, "native.coalesced_conflicts", {}) = Conflicts(group)
  BY AdditiveAdds
<1> HIDE DEF q
<1>8. Evidence(r) \subseteq Supplied(group, i)
  BY DEF Supplied, Evidence
<1>9. ASSUME NEW f \in Evidence(r)
      PROVE  \/ Has(q, f) /\ q[f] = r[f]
             \/ <<f, Get(r, "source_artefact"), r[f]>> \in OrElse(q, "native.coalesced_conflicts", {})
  <2>1. f \in DOMAIN C /\ Same(C, q, f)
    BY <1>2, <1>3, <1>8 DEF Evidence
  <2>2. CASE r[f] = C[f]
    BY <2>1, <2>2 DEF Same, Has
  <2>3. CASE r[f] # C[f]
    <3> DEFINE differs(k) == {g \in Evidence(group[k]) : group[k][g] # Coalesced(group)[g]}
               conflicts(k) == {<<g, Get(group[k], "source_artefact"), group[k][g]>> : g \in differs(k)}
               all == {conflicts(k) : k \in DOMAIN group}
    <3>1. <<f, Get(r, "source_artefact"), r[f]>> \in conflicts(i)
      BY <2>3
    <3>2. Conflicts(group) = OrElse(group[1], "native.coalesced_conflicts", {}) \cup UNION all
      BY DEF Conflicts
    <3>3. conflicts(i) \in all
      BY <1>1
    <3> HIDE DEF all, conflicts
    <3>4. <<f, Get(r, "source_artefact"), r[f]>> \in UNION all
      BY <3>1, <3>3
    <3>5. <<f, Get(r, "source_artefact"), r[f]>> \in Conflicts(group)
      BY <3>2, <3>4
    <3> QED
      BY <1>7, <3>5
  <2> QED
    BY <2>2, <2>3
<1>10. Get(r, "source_artefact") \in {Get(q, "source_artefact")} \cup OrElse(q, "native.coalesced_sources", {})
  <2>1. CASE i # 1
    BY <1>1, <1>6, <2>1 DEF Artefacts
  <2>2. CASE i = 1
    <3>1. Same(C, q, "source_artefact")
      BY <1>2 DEF FoldNative
    <3>2. "source_artefact" \in DOMAIN C <=> "source_artefact" \in DOMAIN group[1]
      <4>1. \A j \in 1..m : "source_artefact" \in Supplied(group, j) => j = 1
        BY DEF Supplied, Evidence
      <4>2. Supplied(group, 1) = DOMAIN group[1]
        BY DEF Supplied
      <4> QED
        BY <1>1, <1>3, <1>4, <4>1, <4>2
    <3>3. Get(group[1], "source_artefact") = Get(q, "source_artefact")
      BY <1>5, <3>1, <3>2 DEF Same, Get, OrElse, Has
    <3> QED
      BY <2>2, <3>3
  <2> QED
    BY <2>1, <2>2
<1>11. SameEvent(q, r)
  <2>1. Has(q, "guid") /\ Has(r, "guid")
    <3>1. Has(group[1], "guid") /\ Has(r, "guid")
      BY <1>1 DEF SameEvent
    <3>2. "guid" \in DOMAIN C
      BY <1>1, <1>3, <3>1 DEF Supplied, Has
    <3> QED
      BY <1>2, <3>1, <3>2 DEF Same, Has, FoldNative
  <2>2. ASSUME NEW f \in DedupeKey \cup {"guid"}
        PROVE  Get(q, f) = Get(r, f)
    <3>1. f \notin FoldNative \cup {"source_artefact"}
      BY KeyAssumption DEF FoldNative
    <3>2. Same(C, q, f)
      BY <1>2, <3>1
    <3>3. CASE f \in DOMAIN C
      <4>1. PICK j \in 1..m : f \in Supplied(group, j) /\ C[f] = group[j][f]
        BY <1>4, <3>3
      <4>2. Get(group[j], f) = Get(r, f)
        BY DEF SameEvent
      <4>3. f \in DOMAIN group[j]
        BY <4>1 DEF Supplied, Evidence
      <4> QED
        BY <3>2, <3>3, <4>1, <4>2, <4>3 DEF Same, Get, OrElse, Has
    <3>4. CASE f \notin DOMAIN C
      <4>1. f \notin DOMAIN r
        BY <1>3, <1>8, <3>1, <3>4 DEF Evidence
      <4> QED
        BY <3>2, <3>4, <4>1 DEF Same, Get, OrElse, Has
    <3> QED
      BY <3>3, <3>4
  <2> QED
    BY <2>1, <2>2 DEF SameEvent
<1> QED
  BY <1>9, <1>10, <1>11 DEF KeptBy, q

\* Only a thread names the target of an injection.
TargetOfThread(row) == Has(row, "native.target_process_guid") => row["car_object"] = "thread"

Complete(row) ==
  /\ {"car_object", "source_host"} \subseteq DOMAIN row /\ Time(row) \in Nat
  /\ \E o \in DOMAIN Objects : row["car_object"] = Objects[o]
  /\ TargetOfThread(row)

LEMMA AdditiveIsComplete ==
  ASSUME NEW group, NEW m, List(group, m), m # 0, \A i \in 1..m : Complete(group[i]),
         \A i, j \in 1..m : SameEvent(group[i], group[j])
  PROVE  Complete(Additive(group))
<1> DEFINE q == Additive(group)
           C == Coalesced(group)
<1>1. m \in Nat /\ 1 \in 1..m
  BY DEF List
<1>2. \A f : f \notin FoldNative => Same(C, q, f)
  BY AdditiveAdds
<1>3. \A j \in 1..m : Supplied(group, j) \subseteq DOMAIN C
  BY CoalescedIs
<1>4. \A f \in DOMAIN C : \E j \in 1..m : f \in Supplied(group, j) /\ C[f] = group[j][f]
  BY CoalescedIs
<1> HIDE DEF q, C
<1>5. {"car_object", "source_host"} \subseteq DOMAIN q
  <2>1. {"car_object", "source_host"} \subseteq DOMAIN C
    BY <1>1, <1>3 DEF Complete, Supplied
  <2>2. Same(C, q, "car_object") /\ Same(C, q, "source_host")
    BY <1>2 DEF FoldNative
  <2> QED
    BY <2>1, <2>2 DEF Same
<1>6. Time(q) \in Nat
  <2>1. Same(C, q, "timestamp")
    BY <1>2 DEF FoldNative
  <2>2. CASE "timestamp" \in DOMAIN C
    <3>1. PICK j \in 1..m : "timestamp" \in Supplied(group, j) /\ C["timestamp"] = group[j]["timestamp"]
      BY <1>4, <2>2
    <3>2. "timestamp" \in DOMAIN group[j]
      BY <3>1 DEF Supplied, Evidence
    <3>3. Time(group[j]) \in Nat
      BY DEF Complete
    <3> QED
      BY <2>1, <2>2, <3>1, <3>2, <3>3 DEF Same, Time, OrElse, Has
  <2>3. CASE "timestamp" \notin DOMAIN C
    BY <2>1, <2>3 DEF Same, Time, OrElse, Has
  <2> QED
    BY <2>2, <2>3
<1>7. q["car_object"] = group[1]["car_object"]
  <2>1. "car_object" \in DOMAIN group[1]
    BY <1>1 DEF Complete
  <2>2. C["car_object"] = group[1]["car_object"]
    BY <2>1, CoalescedIs DEF C
  <2>3. Same(C, q, "car_object")
    BY <1>2 DEF FoldNative
  <2> QED
    BY <1>5, <2>2, <2>3 DEF Same
<1>8. TargetOfThread(q)
  <2> SUFFICES ASSUME Has(q, "native.target_process_guid") PROVE q["car_object"] = "thread"
    BY DEF TargetOfThread
  <2>1. "native.target_process_guid" \in DOMAIN C
    BY <1>2 DEF FoldNative, Same, Has
  <2>2. PICK j \in 1..m : "native.target_process_guid" \in Supplied(group, j)
    BY <1>4, <2>1
  <2>3. Has(group[j], "native.target_process_guid")
    BY <2>2 DEF Supplied, Evidence, Has
  <2>4. group[j]["car_object"] = "thread" /\ "car_object" \in DOMAIN group[j] /\ "car_object" \in DOMAIN group[1]
    BY <1>1, <2>3 DEF Complete, TargetOfThread
  <2>5. Get(group[j], "car_object") = Get(group[1], "car_object")
    BY <1>1, KeyAssumption DEF SameEvent
  <2> QED
    BY <1>7, <2>4, <2>5 DEF Get, OrElse, Has
<1>9. \E o \in DOMAIN Objects : q["car_object"] = Objects[o]
  BY <1>1, <1>7 DEF Complete
<1> QED
  BY <1>5, <1>6, <1>8, <1>9 DEF Complete, q

\* The row that the group of row k folds into.
LEMMA FoldedIs ==
  ASSUME NEW list, NEW n, List(list, n), NEW k \in 1..n
  PROVE  LET q == Folded(list, k, "additive")
         IN  /\ ~Has(list[k], "guid") => q = list[k]
             /\ Has(list[k], "guid") => \A j \in Together(list, k) : SameEvent(q, list[j]) /\ KeptBy(q, list[j])
             /\ (\A j \in 1..n : Complete(list[j])) => Complete(q)
<1> DEFINE q == Folded(list, k, "additive")
           group == Group(list, k)
<1>1. DOMAIN list = 1..n /\ n \in Nat
  BY DEF List
<1>2. CASE ~Has(list[k], "guid")
  BY <1>2, <1>1 DEF Folded
<1>3. CASE Has(list[k], "guid")
  <2>1. PICK m \in Nat : /\ List(group, m)
                         /\ \A i \in 1..m : \E j \in Together(list, k) : group[i] = list[j]
                         /\ \A j \in Together(list, k) : \E i \in 1..m : group[i] = list[j]
                         /\ m = 1 => \A i, j \in Together(list, k) : i = j
    BY GroupIs
  <2>2. Len(group) = m
    BY <2>1, LenIs
  <2>3. k \in Together(list, k) /\ m # 0
    <3>1. k \in Together(list, k)
      BY <1>1, <1>3, SameEventIsEquivalence DEF Together
    <3>2. PICK i \in 1..m : group[i] = list[k]
      BY <2>1, <3>1
    <3> QED
      BY <3>1, <3>2
  <2>4. CASE m = 1
    <3>1. q = list[k]
      BY <2>2, <2>4 DEF Folded
    <3>2. KeptBy(list[k], list[k])
      BY DEF KeptBy, Evidence, Has
    <3>3. \A j \in Together(list, k) : j = k
      BY <2>1, <2>3, <2>4
    <3>4. SameEvent(list[k], list[k])
      BY <1>3, SameEventIsEquivalence
    <3> HIDE DEF q
    <3>5. \A j \in Together(list, k) : SameEvent(q, list[j]) /\ KeptBy(q, list[j])
      BY <3>1, <3>2, <3>3, <3>4
    <3> QED
      BY <1>3, <3>1, <3>5 DEF q
  <2>5. CASE m # 1
    <3>1. q = Additive(group)
      BY <1>3, <2>2, <2>5 DEF Folded
    <3>2. \A i, j \in 1..m : SameEvent(group[i], group[j])
      <4>1. \A i, j \in Together(list, k) : SameEvent(list[i], list[j])
        <5> TAKE i, j \in Together(list, k)
        <5>1. SameEvent(list[i], list[k]) /\ SameEvent(list[j], list[k])
          BY DEF Together
        <5> QED
          BY <5>1, SameEventIsEquivalence
      <4> HIDE DEF group
      <4> QED
        BY <2>1, <4>1
    <3> HIDE DEF q, group
    <3>3. \A i \in 1..m : SameEvent(q, group[i]) /\ KeptBy(q, group[i])
      BY <2>1, <2>3, <3>1, <3>2, AdditiveKeeps
    <3>4. \A j \in Together(list, k) : SameEvent(q, list[j]) /\ KeptBy(q, list[j])
      BY <2>1, <3>3
    <3>5. (\A j \in 1..n : Complete(list[j])) => Complete(q)
      <4> HAVE \A j \in 1..n : Complete(list[j])
      <4>1. \A i \in 1..m : Complete(group[i])
        BY <1>1, <2>1 DEF Together
      <4> QED
        BY <2>1, <2>3, <3>1, <3>2, <4>1, AdditiveIsComplete
    <3> QED
      BY <1>3, <3>4, <3>5 DEF q
  <2> QED
    BY <2>4, <2>5
<1> QED
  BY <1>2, <1>3

\* The fold keeps every record, and makes one row of each event.
LEMMA FoldIs ==
  ASSUME NEW list, NEW n, List(list, n)
  PROVE  LET folded == FoldEvents(list, "additive")
         IN  \E m \in Nat :
               /\ List(folded, m)
               /\ \A k \in 1..n : \E q \in 1..m :
                    IF Has(list[k], "guid") THEN SameEvent(folded[q], list[k]) /\ KeptBy(folded[q], list[k])
                    ELSE folded[q] = list[k]
               /\ \A p, q \in 1..m : SameEvent(folded[p], folded[q]) => p = q
               /\ (\A k \in 1..n : Complete(list[k])) => \A q \in 1..m : Complete(folded[q])
<1> DEFINE firsts == {k \in DOMAIN list : IsFirst(list, k)}
           m == Cardinality(firsts)
           folded == FoldEvents(list, "additive")
           row(k) == Folded(list, k, "additive")
<1>1. n \in Nat /\ DOMAIN list = 1..n /\ firsts \in SUBSET (1..n)
  BY DEF List
<1>2. folded = [q \in 1..m |-> row(Nth(firsts, q))]
  BY DEF FoldEvents
<1>3. \A k \in firsts : k \in 1..n /\ IsFirst(list, k)
  BY <1>1
<1>4. \A k \in 1..n : IsFirst(list, k) => k \in firsts
  BY <1>1
<1> HIDE DEF firsts
<1>5. /\ m \in Nat
      /\ \A q \in 1..m : Nth(firsts, q) \in firsts
      /\ \A p, q \in 1..m : Nth(firsts, p) = Nth(firsts, q) => p = q
      /\ \A k \in firsts : \E q \in 1..m : Nth(firsts, q) = k
  BY <1>1, NthIsBijective
<1>6. /\ \A k \in 1..n : ~Has(list[k], "guid") => row(k) = list[k]
      /\ \A k \in 1..n : Has(list[k], "guid") =>
           \A j \in Together(list, k) : SameEvent(row(k), list[j]) /\ KeptBy(row(k), list[j])
      /\ \A k \in 1..n : (\A j \in 1..n : Complete(list[j])) => Complete(row(k))
  BY FoldedIs
<1> HIDE DEF m, row
<1>7. List(folded, m)
  BY <1>2, <1>5 DEF List
<1>8. \A q \in 1..m : folded[q] = row(Nth(firsts, q))
  BY <1>2
<1> HIDE DEF folded
<1>9. ASSUME NEW k \in 1..n
      PROVE  \E q \in 1..m :
               IF Has(list[k], "guid") THEN SameEvent(folded[q], list[k]) /\ KeptBy(folded[q], list[k])
               ELSE folded[q] = list[k]
  <2>1. CASE ~Has(list[k], "guid")
    <3>1. IsFirst(list, k)
      BY <2>1 DEF IsFirst, SameEvent
    <3>2. PICK q \in 1..m : Nth(firsts, q) = k
      BY <1>4, <1>5, <3>1
    <3> QED
      BY <1>6, <1>8, <2>1, <3>2
  <2>2. CASE Has(list[k], "guid")
    <3> DEFINE same == {j \in 1..n : SameEvent(list[j], list[k])}
    <3>1. same \in SUBSET Nat /\ k \in same
      BY <2>2, SameEventIsEquivalence
    <3>2. PICK first \in same : \A j \in same : first <= j
      <4> HIDE DEF same
      <4> QED
        BY <3>1, LeastIsThere
    <3>3. first \in 1..n /\ SameEvent(list[first], list[k])
      OBVIOUS
    <3>4. IsFirst(list, first)
      <4> SUFFICES ASSUME NEW j \in 1..(first - 1), SameEvent(list[j], list[first]) PROVE FALSE
        BY DEF IsFirst
      <4>1. j \in 1..n /\ j < first
        BY <1>1, <3>3
      <4>2. SameEvent(list[j], list[k])
        BY <3>3, SameEventIsEquivalence
      <4> QED
        BY <3>2, <4>1, <4>2
    <3>5. PICK q \in 1..m : Nth(firsts, q) = first
      BY <1>4, <1>5, <3>3, <3>4
    <3>6. Has(list[first], "guid") /\ k \in Together(list, first)
      BY <1>1, <3>3, SameEventIsEquivalence DEF SameEvent, Together
    <3> QED
      BY <1>6, <1>8, <2>2, <3>3, <3>5, <3>6
  <2> QED
    BY <2>1, <2>2
<1>10. ASSUME NEW p \in 1..m, NEW q \in 1..m, SameEvent(folded[p], folded[q])
       PROVE  p = q
  <2> DEFINE i == Nth(firsts, p)
             j == Nth(firsts, q)
  <2>1. i \in 1..n /\ IsFirst(list, i) /\ j \in 1..n /\ IsFirst(list, j)
    BY <1>3, <1>5
  <2>2. folded[p] = row(i) /\ folded[q] = row(j)
    BY <1>8
  <2> HIDE DEF i, j
  <2>3. Has(row(i), "guid") /\ Has(row(j), "guid")
    BY <1>10, <2>2 DEF SameEvent
  <2>4. Has(list[i], "guid") /\ Has(list[j], "guid")
    BY <1>6, <2>1, <2>3
  <2>5. i \in Together(list, i) /\ j \in Together(list, j)
    BY <1>1, <2>1, <2>4, SameEventIsEquivalence DEF Together
  <2>6. SameEvent(row(i), list[i]) /\ SameEvent(row(j), list[j])
    BY <1>6, <2>1, <2>4, <2>5
  <2>7. SameEvent(list[i], list[j]) /\ SameEvent(list[j], list[i])
    BY <1>10, <2>2, <2>6, SameEventIsEquivalence
  <2>8. i = j
    <3>1. ~(i < j) /\ ~(j < i)
      BY <2>1, <2>7 DEF IsFirst
    <3> QED
      BY <2>1, <3>1
  <2> QED
    BY <1>5, <2>8 DEF i, j
<1>11. (\A k \in 1..n : Complete(list[k])) => \A q \in 1..m : Complete(folded[q])
  BY <1>3, <1>5, <1>6, <1>8
<1> QED
  BY <1>5, <1>7, <1>9, <1>10, <1>11 DEF folded

\* What a row of the fold has, some record has.
LEMMA FoldedFrom ==
  ASSUME NEW list, NEW n, List(list, n), NEW q \in DOMAIN FoldEvents(list, "additive"),
         NEW f, f \notin FoldNative, Has(FoldEvents(list, "additive")[q], f)
  PROVE  \E j \in 1..n : Has(list[j], f) /\ list[j][f] = FoldEvents(list, "additive")[q][f]
<1> DEFINE firsts == {k \in DOMAIN list : IsFirst(list, k)}
           m == Cardinality(firsts)
           row == FoldEvents(list, "additive")[q]
<1>1. DOMAIN list = 1..n /\ n \in Nat /\ firsts \in SUBSET (1..n)
  BY DEF List
<1>2. FoldEvents(list, "additive") = [p \in 1..m |-> Folded(list, Nth(firsts, p), "additive")]
  BY DEF FoldEvents
<1> HIDE DEF firsts
<1>3. \A p \in 1..m : Nth(firsts, p) \in firsts
  BY <1>1, NthIsBijective
<1>4. PICK k \in 1..n : row = Folded(list, k, "additive")
  BY <1>1, <1>2, <1>3
<1> HIDE DEF row
<1> SUFFICES \E j \in 1..n : Has(list[j], f) /\ list[j][f] = row[f]
  BY DEF row
<1>5. Has(row, f)
  BY DEF row
<1> DEFINE group == Group(list, k)
<1>6. CASE ~Has(list[k], "guid")
  BY <1>4, <1>5, <1>6 DEF Folded
<1>7. CASE Has(list[k], "guid")
  <2>1. PICK c \in Nat : List(group, c) /\ \A i \in 1..c : \E j \in Together(list, k) : group[i] = list[j]
    BY GroupIs
  <2>2. \A i \in 1..c : \E j \in 1..n : group[i] = list[j]
    BY <1>1, <2>1 DEF Together
  <2>3. CASE Len(group) = 1
    BY <1>4, <1>5, <2>3 DEF Folded
  <2>4. CASE Len(group) # 1
    <3>1. row = Additive(group)
      BY <1>4, <1>7, <2>4 DEF Folded
    <3>2. c # 0
      <4>1. k \in Together(list, k)
        BY <1>1, <1>7, SameEventIsEquivalence DEF Together
      <4>2. PICK d \in Nat : List(group, d) /\ \E i \in 1..d : group[i] = list[k]
        BY <4>1, GroupIs
      <4>3. d = c
        <5> HIDE DEF group
        <5>1. Len(group) = c
          BY <2>1, LenIs
        <5>2. Len(group) = d
          BY <4>2, LenIs
        <5> QED
          BY <5>1, <5>2
      <4> QED
        BY <4>2, <4>3
    <3> HIDE DEF group
    <3>3. Same(Coalesced(group), row, f)
      BY <3>1, AdditiveAdds
    <3>4. PICK i \in 1..c : f \in Supplied(group, i) /\ Coalesced(group)[f] = group[i][f]
      BY <1>5, <2>1, <3>2, <3>3, CoalescedIs DEF Same, Has
    <3>5. Has(group[i], f) /\ group[i][f] = row[f]
      BY <1>5, <3>3, <3>4 DEF Supplied, Evidence, Same, Has
    <3> QED
      BY <2>2, <3>5
  <2> QED
    BY <2>3, <2>4
<1> QED
  BY <1>6, <1>7

(***************************************************************************)
(* What every turn of the loop keeps                                       *)
(***************************************************************************)
Ended(raw, c, now) == \E e \in EndsOf(raw, raw[c]) : Time(raw[e]) \in 1..(now - 1)

Opens(raw, c, host, pid) ==
  /\ IsCreate(raw[c]) /\ Get(raw[c], "source_host") = host
  /\ Get(raw[c], "pid") \in DOMAIN PidOf /\ PidOf[raw[c]["pid"]] = pid

\* The process that row c creates is the one that the pid meant.
HeldBy(raw, c, host, pid, now) ==
  /\ Opens(raw, c, host, pid) /\ Time(raw[c]) <= now
  /\ (\A e \in EndsOf(raw, raw[c]) : Time(raw[e]) # 0) => ~Ended(raw, c, now)
  /\ \A d \in DOMAIN raw : Opens(raw, d, host, pid) /\ Time(raw[c]) < Time(raw[d]) /\ Time(raw[d]) <= now
                          => Ended(raw, d, now)

\* A process that is found by its pid held it.
LEMMA WindowHolds ==
  ASSUME NEW raw, NEW n, Rows(raw, n), NEW row, NEW guidField, NEW pidField,
         Time(row) \in Nat, Time(row) # 0, Has(row, pidField),
         Resolve(raw, row, guidField, pidField).at # 0,
         Resolve(raw, row, guidField, pidField).by = "heuristic"
  PROVE  /\ Resolve(raw, row, guidField, pidField).at \in 1..n
         /\ HeldBy(raw, Resolve(raw, row, guidField, pidField).at,
                   Get(row, "source_host"), PidOf[row[pidField]], Time(row))
<1> DEFINE host == Get(row, "source_host")
           pid == PidOf[row[pidField]]
           t == Time(row)
           candidates == ByPid(raw, host, pid)
           m == Resolve(raw, row, guidField, pidField).at
<1>1. m # 0 /\ m = MatchAt(raw, candidates, t)
  <2>1. Get(row, pidField) \in DOMAIN PidOf
    BY DEF Resolve
  <2> QED
    BY <2>1 DEF Resolve
<1> HIDE DEF m, t
<1>2. t \in Nat /\ t # 0
  BY DEF t
<1>3. n \in Nat /\ DOMAIN raw = 1..n
  BY DEF Rows
<1>4. candidates \in SUBSET (1..n) /\ \A d \in 1..n : d \in candidates <=> Opens(raw, d, host, pid)
  BY <1>3 DEF ByPid, Opens
<1> HIDE DEF candidates, host, pid
<1>5. /\ m \in candidates /\ Time(raw[m]) <= t /\ AliveAt(raw, raw[m], t)
      /\ \A d \in candidates : Time(raw[m]) < Time(raw[d]) /\ Time(raw[d]) <= t => ~AliveAt(raw, raw[d], t)
  BY <1>1, <1>2, <1>4, MatchIs
<1>6. (\A e \in EndsOf(raw, raw[m]) : Time(raw[e]) # 0) => ~Ended(raw, m, t)
  BY <1>2, <1>5, AliveUntil DEF Ended
<1>7. \A d \in DOMAIN raw : Opens(raw, d, host, pid) /\ Time(raw[m]) < Time(raw[d]) /\ Time(raw[d]) <= t
                           => Ended(raw, d, t)
  <2> SUFFICES ASSUME NEW d \in 1..n, Opens(raw, d, host, pid), Time(raw[m]) < Time(raw[d]), Time(raw[d]) <= t
               PROVE  Ended(raw, d, t)
    BY <1>3
  <2>1. ~AliveAt(raw, raw[d], t)
    BY <1>4, <1>5
  <2> QED
    BY <1>2, <2>1, AliveUntil DEF Ended
<1>8. HeldBy(raw, m, host, pid, t)
  BY <1>4, <1>5, <1>6, <1>7 DEF HeldBy
<1> QED
  BY <1>4, <1>5, <1>8 DEF m, host, pid, t

\* A process that is found is created by a row of the host.
LEMMA FoundIsCreate ==
  ASSUME NEW raw, NEW n, Rows(raw, n), NEW row, NEW guidField, NEW pidField, Time(row) \in Nat,
         Resolve(raw, row, guidField, pidField).at # 0
  PROVE  LET c == Resolve(raw, row, guidField, pidField).at
         IN  c \in 1..n /\ IsCreate(raw[c]) /\ SameHost(raw[c], row)
<1> DEFINE c == Resolve(raw, row, guidField, pidField).at
           host == Get(row, "source_host")
           t == Time(row)
           creates == {k \in 1..n : IsCreate(raw[k]) /\ Get(raw[k], "source_host") = host}
<1>1. n \in Nat /\ DOMAIN raw = 1..n
  BY DEF Rows
<1>2. \A g : ByGuid(raw, host, g) # 0 => ByGuid(raw, host, g) \in creates
  <2> TAKE g
  <2> DEFINE S == {k \in 1..n : /\ IsCreate(raw[k]) /\ Get(raw[k], "guid") = g
                                /\ Get(raw[k], "source_host") = host}
  <2>1. S \in SUBSET (1..n) /\ S \subseteq creates
    OBVIOUS
  <2>2. ByGuid(raw, host, g) = LastAt(S)
    BY <1>1 DEF ByGuid
  <2> HIDE DEF S, creates
  <2> QED
    BY <1>1, <2>1, <2>2, LastAtIs
<1>3. \A pid : MatchAt(raw, ByPid(raw, host, pid), t) # 0 => MatchAt(raw, ByPid(raw, host, pid), t) \in creates
  <2> SUFFICES ASSUME NEW pid, MatchAt(raw, ByPid(raw, host, pid), t) # 0
               PROVE  MatchAt(raw, ByPid(raw, host, pid), t) \in creates
    OBVIOUS
  <2> DEFINE candidates == ByPid(raw, host, pid)
  <2>1. candidates \in SUBSET (1..n) /\ candidates \subseteq creates
    BY <1>1 DEF ByPid
  <2> HIDE DEF candidates, creates
  <2>2. CASE t # 0
    BY <1>1, <2>1, <2>2, MatchIs DEF candidates
  <2>3. CASE t = 0
    <3>1. Cardinality(candidates) = 1 /\ MatchAt(raw, candidates, t) = CHOOSE k \in candidates : TRUE
      BY <2>3 DEF MatchAt, candidates
    <3>2. candidates # {}
      BY <3>1, FS_EmptySet
    <3> QED
      BY <2>1, <3>1, <3>2 DEF candidates
  <2> QED
    BY <2>2, <2>3
<1>4. c \in {ByGuid(raw, host, row[guidField]), MatchAt(raw, ByPid(raw, host, PidOf[row[pidField]]), t)}
  BY DEF Resolve
<1> HIDE DEF t, host
<1>5. c \in creates
  BY <1>2, <1>3, <1>4
<1> QED
  BY <1>5 DEF SameHost, host

LineageLinks == {<<"owning_guid", "owning_pid">>, <<"parent_guid", "parent_pid">>}

\* The cascade gave row j a process by its pid.
Given(raw, list, j, link) ==
  /\ Has(list[j], link[1]) /\ ~Has(raw[j], link[1])
  /\ Get(list[j], "link_confidence") = "heuristic"
  /\ Time(list[j]) # 0 /\ Get(raw[j], link[2]) \in DOMAIN PidOf

HasHolder(raw, list, n, j, link) ==
  \E c \in 1..n : /\ Get(raw[c], "guid") = Get(list[j], link[1])
                  /\ HeldBy(raw, c, Get(raw[j], "source_host"), PidOf[raw[j][link[2]]], Time(raw[j]))

\* Before its turn a row has the lineage it came with, afterwards that of a holder of its pid.
LineageHolds(raw, list, n, t) ==
  \A j \in 1..n :
    /\ j >= t => \A f \in LineageColumns : Same(raw[j], list[j], f)
    /\ j < t => \A link \in LineageLinks : Given(raw, list, j, link) => HasHolder(raw, list, n, j, link)

\* The end of row k is that of an earlier logout, which names the session.
Agreed(list, k, t) ==
  \E j \in 1..(t - 1) :
    /\ SameHost(list[j], list[k])
    /\ Get(list[j], "guid") = Get(list[k], "native.session_logout_guid")
    /\ Get(list[j], "native.session_login_guid") = Get(list[k], "guid")
    /\ OrElse(list[k], "native.session_end", 0) = Time(list[j])

Closed(raw, list, k) ==
  Has(list[k], "native.session_logout_guid") /\ ~Has(raw[k], "native.session_logout_guid")

\* An owner that the row did not come with is a process that a row of its host creates.
OwnerIsThere(raw, row, j) ==
  Has(row, "owning_guid") =>
    \/ Same(raw[j], row, "owning_guid")
    \/ \E c \in DOMAIN raw : /\ IsCreate(raw[c]) /\ SameHost(raw[c], raw[j])
                             /\ Get(raw[c], "guid") = row["owning_guid"]

Cascading(raw, list, n, t) ==
  /\ Rows(raw, n) /\ List(list, n) /\ t \in 1..(n + 1)
  /\ \A j \in 1..n : Complete(raw[j]) /\ OnlySets(raw[j], list[j], LinkColumns)
  /\ LineageHolds(raw, list, n, t)
  /\ \A k \in 1..n : Closed(raw, list, k) => Agreed(list, k, t)
  /\ \A j \in 1..n : TargetOfThread(list[j]) /\ OwnerIsThere(raw, list[j], j)

LEMMA CascadeBegins ==
  ASSUME NEW raw, NEW n, List(raw, n), \A j \in 1..n : Complete(raw[j])
  PROVE  Cascading(raw, raw, n, 1)
<1>1. n \in Nat /\ DOMAIN raw = 1..n
  BY DEF List
<1>2. Rows(raw, n)
  BY <1>1 DEF Rows, Complete
<1>3. \A j \in 1..n : OnlySets(raw[j], raw[j], LinkColumns)
  BY NoLinks
<1>4. LineageHolds(raw, raw, n, 1)
  BY <1>1 DEF LineageHolds, Same
<1>5. \A k \in 1..n : ~Closed(raw, raw, k)
  BY DEF Closed
<1>6. \A j \in 1..n : TargetOfThread(raw[j]) /\ OwnerIsThere(raw, raw[j], j)
  BY DEF Complete, OwnerIsThere, Same
<1> QED
  BY <1>1, <1>2, <1>3, <1>4, <1>5, <1>6 DEF Cascading

\* What is the same of two rows for the joins.
LEMMA SameJoins ==
  ASSUME NEW a, NEW b, \A f \in JoinColumns : Same(a, b, f)
  PROVE  /\ Get(a, "guid") = Get(b, "guid") /\ Time(a) = Time(b)
         /\ Get(a, "source_host") = Get(b, "source_host") /\ Get(a, "car_action") = Get(b, "car_action")
         /\ Get(a, "owning_pid") = Get(b, "owning_pid") /\ Get(a, "parent_pid") = Get(b, "parent_pid")
         /\ Has(a, "owning_pid") => Has(b, "owning_pid") /\ a["owning_pid"] = b["owning_pid"]
         /\ Has(a, "parent_pid") => Has(b, "parent_pid") /\ a["parent_pid"] = b["parent_pid"]
BY DEF JoinColumns, ReferenceColumns, Same, Get, OrElse, Has, Time

LEMMA JoinsStay ==
  ASSUME NEW a, NEW b, NEW columns \in SUBSET LinkColumns, OnlySets(a, b, columns)
  PROVE  \A f \in JoinColumns : Same(a, b, f)
BY ColumnsAreApart DEF OnlySets

LEMMA LineageLinksAre ==
  ASSUME NEW link \in LineageLinks
  PROVE  /\ link[1] \in {"owning_guid", "parent_guid"} /\ link[2] \in JoinColumns
         /\ link[1] \in LineageColumns /\ "link_confidence" \in LineageColumns
         /\ link[1] \in LinkColumns \ TargetColumns /\ "link_confidence" \in LinkColumns \ TargetColumns
         /\ {link[1], "link_confidence"} \in SUBSET LinkColumns
<1>1. link[1] \in {"owning_guid", "parent_guid"} /\ link[2] \in {"owning_pid", "parent_pid"}
  BY DEF LineageLinks
<1>2. {"owning_guid", "parent_guid", "link_confidence"} \subseteq LineageColumns
  BY DEF LineageColumns
<1>3. {"owning_guid", "parent_guid", "link_confidence"} \cap TargetColumns = {}
  BY DEF TargetColumns
<1>4. LineageColumns \subseteq LinkColumns
  BY ColumnsAreApart
<1>5. {"owning_pid", "parent_pid"} \subseteq JoinColumns
  BY DEF JoinColumns, ReferenceColumns
<1> QED
  BY <1>1, <1>2, <1>3, <1>4, <1>5

LEMMA TargetColumnsAre == TargetColumns \in SUBSET LinkColumns /\ TargetColumns \in SUBSET LineageColumns
BY ColumnsAreApart DEF TargetColumns, LineageColumns

\* A row is given the guid of a process that held the pid.
LEMMA GivenToHolder ==
  ASSUME NEW raw, NEW n, Rows(raw, n), NEW k \in 1..n, NEW middle,
         \A j \in 1..n : \A f \in JoinColumns : Same(raw[j], middle[j], f),
         NEW link \in LineageLinks, NEW guidField,
         Resolve(raw, middle[k], guidField, link[2]).at # 0,
         NEW own, Linked(middle[k], own, link[1],
                         Get(middle[Resolve(raw, middle[k], guidField, link[2]).at], "guid"),
                         Resolve(raw, middle[k], guidField, link[2]).by),
         NEW after, OnlySets(own, after[k], TargetColumns), Given(raw, after, k, link)
  PROVE  HasHolder(raw, after, n, k, link)
<1> DEFINE c == Resolve(raw, middle[k], guidField, link[2]).at
           by == Resolve(raw, middle[k], guidField, link[2]).by
           last == after[k]
<1>1. Same(own, last, link[1]) /\ Same(own, last, "link_confidence")
  BY LineageLinksAre DEF OnlySets
<1>2. /\ Get(own, link[1]) = Get(middle[c], "guid") /\ Get(own, "link_confidence") = by
      /\ OnlySets(middle[k], own, {link[1], "link_confidence"})
  BY DEF Linked
<1>3. Get(last, link[1]) = Get(own, link[1]) /\ Get(last, "link_confidence") = Get(own, "link_confidence")
  BY <1>1 DEF Same, Get, OrElse, Has
<1>4. by = "heuristic"
  BY <1>2, <1>3 DEF Given
<1>5. Time(last) = Time(middle[k])
  <2>1. \A f \in JoinColumns : Same(middle[k], own, f)
    BY <1>2, JoinsStay, LineageLinksAre
  <2>2. \A f \in JoinColumns : Same(own, last, f)
    BY JoinsStay, TargetColumnsAre
  <2>3. Time(middle[k]) = Time(own)
    BY <2>1, SameJoins
  <2>4. Time(own) = Time(last)
    BY <2>2, SameJoins
  <2> QED
    BY <2>3, <2>4
<1>6. Has(middle[k], link[2]) /\ raw[k][link[2]] = middle[k][link[2]]
  <2>1. Get(raw[k], link[2]) \in DOMAIN PidOf
    BY DEF Given
  <2>2. Has(raw[k], link[2])
    BY <2>1, PidAssumption DEF Get, OrElse
  <2>3. Same(raw[k], middle[k], link[2])
    BY LineageLinksAre
  <2> QED
    BY <2>2, <2>3 DEF Same, Has
<1>7. /\ Time(raw[k]) = Time(middle[k]) /\ Time(raw[k]) \in Nat
      /\ Get(raw[k], "source_host") = Get(middle[k], "source_host")
  BY SameJoins DEF Rows
<1>8. Time(middle[k]) # 0
  BY <1>5 DEF Given
<1>9. c \in 1..n /\ HeldBy(raw, c, Get(middle[k], "source_host"), PidOf[middle[k][link[2]]], Time(middle[k]))
  BY <1>4, <1>6, <1>7, <1>8, WindowHolds
<1> HIDE DEF c, by, last
<1>10. Get(raw[c], "guid") = Get(after[k], link[1])
  <2>1. Get(raw[c], "guid") = Get(middle[c], "guid")
    BY <1>9, SameJoins
  <2> QED
    BY <1>2, <1>3, <2>1 DEF last
<1>11. HeldBy(raw, c, Get(raw[k], "source_host"), PidOf[raw[k][link[2]]], Time(raw[k]))
  BY <1>6, <1>7, <1>9
<1> QED
  BY <1>9, <1>10, <1>11 DEF HasHolder

\* Of the row in hand: it gets a lineage of one kind only.
LEMMA InHandHolds ==
  ASSUME NEW raw, NEW n, Rows(raw, n), NEW k \in 1..n, NEW middle,
         \A j \in 1..n : \A f \in JoinColumns : Same(raw[j], middle[j], f),
         \A f \in LineageColumns : Same(raw[k], middle[k], f),
         NEW after, LineageSet(raw, middle, n, k, after),
         NEW link \in LineageLinks, Given(raw, after, k, link)
  PROVE  HasHolder(raw, after, n, k, link)
<1>1. ~Has(middle[k], link[1])
  BY LineageLinksAre DEF Given, Same, Has
<1>2. ~Same(middle[k], after[k], link[1])
  BY <1>1 DEF Given, Same, Has
<1>3. CASE IsCreate(middle[k])
  <2> DEFINE parent == ParentOf(raw, middle[k])
  <2>1. ParentSet(raw, middle, k, after[k])
    BY <1>3 DEF LineageSet
  <2>2. parent.at # 0 /\ Linked(middle[k], after[k], "parent_guid", Get(middle[parent.at], "guid"), parent.by)
    <3>1. parent.at \notin {0, k}
      BY <1>2, <2>1 DEF ParentSet, Same
    <3> QED
      BY <2>1, <3>1 DEF ParentSet
  <2>3. link = <<"parent_guid", "parent_pid">>
    <3>1. CASE link[1] = "owning_guid"
      <4>1. OnlySets(middle[k], after[k], {"parent_guid", "link_confidence"})
        BY <2>2 DEF Linked
      <4>2. Same(middle[k], after[k], "owning_guid")
        BY <3>1, <4>1, LineageLinksAre DEF OnlySets
      <4> QED
        BY <1>2, <3>1, <4>2
    <3> QED
      BY <3>1 DEF LineageLinks
  <2>4. OnlySets(after[k], after[k], TargetColumns)
    BY NoLinks
  <2>5. parent = Resolve(raw, middle[k], "native.ParentProcessGuid", link[2])
        /\ link[1] = "parent_guid"
    BY <2>3 DEF ParentOf
  <2> HIDE DEF parent
  <2> QED
    BY <2>2, <2>4, <2>5, GivenToHolder
<1>4. CASE ~IsCreate(middle[k])
  <2> DEFINE owner == OwnerOf(raw, middle[k])
  <2>1. PICK owned : OwnerSet(raw, middle, k, owned) /\ OnlySets(owned, after[k], TargetColumns)
    BY <1>4 DEF LineageSet
  <2>2. Same(owned, after[k], link[1])
    BY <2>1, LineageLinksAre DEF OnlySets
  <2>3. ~Same(middle[k], owned, link[1])
    BY <1>2, <2>2 DEF Same
  <2>4. owner.at # 0 /\ Linked(middle[k], owned, "owning_guid", Get(middle[owner.at], "guid"), owner.by)
    <3>1. owner.at # 0
      BY <2>1, <2>3 DEF OwnerSet, Same
    <3> QED
      BY <2>1, <3>1 DEF OwnerSet
  <2>5. link = <<"owning_guid", "owning_pid">>
    <3>1. CASE link[1] = "parent_guid"
      <4>1. OnlySets(middle[k], owned, {"owning_guid", "link_confidence"})
        BY <2>4 DEF Linked
      <4>2. Same(middle[k], owned, "parent_guid")
        BY <3>1, <4>1, LineageLinksAre DEF OnlySets
      <4> QED
        BY <2>3, <3>1, <4>2
    <3> QED
      BY <3>1 DEF LineageLinks
  <2>6. owner = Resolve(raw, middle[k], "owning_guid_native", link[2]) /\ link[1] = "owning_guid"
    BY <2>5 DEF OwnerOf
  <2> HIDE DEF owner
  <2> QED
    BY <2>1, <2>4, <2>6, GivenToHolder
<1> QED
  BY <1>3, <1>4

\* Only the row in hand gets a lineage, and that of a holder of its pid.
LEMMA LineageStays ==
  ASSUME NEW raw, NEW list, NEW n, NEW k \in 1..n, Cascading(raw, list, n, k),
         NEW middle, Midway(list, middle, n), NEW after, LineageSet(raw, middle, n, k, after)
  PROVE  LineageHolds(raw, after, n, k + 1)
<1>1. n \in Nat /\ k \in Nat /\ Rows(raw, n) /\ LineageHolds(raw, list, n, k)
  BY DEF Cascading, Rows
<1>2. \A j \in 1..n : \A f \in JoinColumns \cup LineageColumns : Same(list[j], middle[j], f)
  BY ColumnsAreApart DEF Midway, OnlySets
<1>3. \A j \in 1..n : \A f \in JoinColumns : Same(raw[j], list[j], f)
  BY ColumnsAreApart DEF Cascading, OnlySets
<1>4. ASSUME NEW j \in (1..n) \ {k}
      PROVE  /\ j >= k + 1 => \A f \in LineageColumns : Same(raw[j], after[j], f)
             /\ j < k + 1 => \A link \in LineageLinks :
                               Given(raw, after, j, link) => HasHolder(raw, after, n, j, link)
  <2>1. after[j] = middle[j]
    BY DEF LineageSet
  <2>2. \A f \in JoinColumns \cup LineageColumns : Same(list[j], after[j], f)
    BY <1>2, <2>1
  <2>3. CASE j >= k + 1
    <3>1. \A f \in LineageColumns : Same(raw[j], list[j], f)
      BY <1>1, <2>3 DEF LineageHolds
    <3> QED
      BY <1>1, <2>2, <2>3, <3>1 DEF Same
  <2>4. CASE j < k + 1
    <3> SUFFICES ASSUME NEW link \in LineageLinks, Given(raw, after, j, link)
                 PROVE  HasHolder(raw, after, n, j, link)
      BY <1>1, <2>4
    <3>1. Same(list[j], after[j], link[1]) /\ Same(list[j], after[j], "link_confidence")
      BY <2>2 DEF LineageLinks, LineageColumns
    <3>2. Time(list[j]) = Time(after[j])
      BY <2>2, SameJoins
    <3>3. Given(raw, list, j, link)
      BY <3>1, <3>2 DEF Given, Same, Get, OrElse, Has
    <3>4. HasHolder(raw, list, n, j, link)
      BY <1>1, <2>4, <3>3 DEF LineageHolds
    <3>5. Get(list[j], link[1]) = Get(after[j], link[1])
      BY <3>1 DEF Same, Get, OrElse, Has
    <3> QED
      BY <3>4, <3>5 DEF HasHolder
  <2> QED
    BY <2>3, <2>4
<1>5. \A f \in JoinColumns \cup LineageColumns : Same(raw[k], middle[k], f)
  <2>1. \A f \in LineageColumns : Same(raw[k], list[k], f)
    BY <1>1 DEF LineageHolds
  <2> QED
    BY <1>2, <1>3, <2>1 DEF Same
<1>6. ASSUME NEW link \in LineageLinks, Given(raw, after, k, link)
      PROVE  HasHolder(raw, after, n, k, link)
  <2>1. \A j \in 1..n : \A f \in JoinColumns : Same(raw[j], middle[j], f)
    BY <1>2, <1>3 DEF Same
  <2>2. \A f \in LineageColumns : Same(raw[k], middle[k], f)
    BY <1>5
  <2> QED
    BY <1>1, <1>6, <2>1, <2>2, InHandHolds
<1> QED
  BY <1>1, <1>4, <1>6 DEF LineageHolds

\* A lineage is no session and no column of a join.
LEMMA LineageIsApart ==
  ASSUME NEW raw, NEW middle, NEW n, NEW k \in 1..n, NEW after, LineageSet(raw, middle, n, k, after)
  PROVE  \A j \in 1..n : OnlySets(middle[j], after[j], LineageColumns)
<1>1. \A j \in (1..n) \ {k} : OnlySets(middle[j], after[j], LineageColumns)
  BY NoLinks DEF LineageSet
<1>2. {"parent_guid", "link_confidence"} \in SUBSET LineageColumns
      /\ {"owning_guid", "link_confidence"} \in SUBSET LineageColumns
  BY DEF LineageColumns
<1>3. CASE IsCreate(middle[k])
  <2> DEFINE parent == ParentOf(raw, middle[k])
  <2>1. ParentSet(raw, middle, k, after[k])
    BY <1>3 DEF LineageSet
  <2>2. after[k] = middle[k] \/ OnlySets(middle[k], after[k], {"parent_guid", "link_confidence"})
    BY <2>1 DEF ParentSet, Linked
  <2>3. OnlySets(middle[k], after[k], LineageColumns)
    BY <1>2, <2>2, NoLinks, MoreLinks
  <2> QED
    BY <1>1, <2>3
<1>4. CASE ~IsCreate(middle[k])
  <2>1. PICK owned : OwnerSet(raw, middle, k, owned) /\ OnlySets(owned, after[k], TargetColumns)
    BY <1>4 DEF LineageSet
  <2>2. owned = middle[k] \/ OnlySets(middle[k], owned, {"owning_guid", "link_confidence"})
    BY <2>1 DEF OwnerSet, Linked
  <2>3. OnlySets(middle[k], owned, LineageColumns)
    BY <1>2, <2>2, NoLinks, MoreLinks
  <2>4. OnlySets(owned, after[k], LineageColumns)
    BY <2>1, TargetColumnsAre, MoreLinks
  <2>5. OnlySets(middle[k], after[k], LineageColumns)
    BY <2>3, <2>4, LinksAddUp
  <2> QED
    BY <1>1, <2>5
<1> QED
  BY <1>3, <1>4

\* A session that was closed before stays so.
LEMMA AgreedStays ==
  ASSUME NEW list, NEW after, NEW n \in Nat, NEW k \in 1..n, NEW s \in 1..n, Agreed(list, s, k),
         \A j \in 1..n : \A f \in JoinColumns : Same(list[j], after[j], f),
         \A j \in 1..(k - 1) : Same(list[j], after[j], "native.session_login_guid"),
         Same(list[s], after[s], "native.session_logout_guid"), Same(list[s], after[s], "native.session_end")
  PROVE  Agreed(after, s, k + 1)
<1>1. PICK j \in 1..(k - 1) :
        /\ SameHost(list[j], list[s])
        /\ Get(list[j], "guid") = Get(list[s], "native.session_logout_guid")
        /\ Get(list[j], "native.session_login_guid") = Get(list[s], "guid")
        /\ OrElse(list[s], "native.session_end", 0) = Time(list[j])
  BY DEF Agreed
<1>2. j \in 1..n /\ j \in 1..((k + 1) - 1)
  OBVIOUS
<1>3. /\ Get(list[j], "guid") = Get(after[j], "guid") /\ Time(list[j]) = Time(after[j])
      /\ Get(list[j], "source_host") = Get(after[j], "source_host")
  BY <1>2, SameJoins
<1>4. Get(list[s], "guid") = Get(after[s], "guid") /\ Get(list[s], "source_host") = Get(after[s], "source_host")
  BY SameJoins
<1>5. Get(list[j], "native.session_login_guid") = Get(after[j], "native.session_login_guid")
  BY DEF Same, Get, OrElse, Has
<1>6. /\ Get(list[s], "native.session_logout_guid") = Get(after[s], "native.session_logout_guid")
      /\ OrElse(list[s], "native.session_end", 0) = OrElse(after[s], "native.session_end", 0)
  BY DEF Same, Get, OrElse, Has
<1>7. SameHost(after[j], after[s])
  BY <1>1, <1>3, <1>4 DEF SameHost
<1> QED
  BY <1>1, <1>2, <1>3, <1>4, <1>5, <1>6, <1>7 DEF Agreed

\* A session that is closed names the logout that closed it last.
LEMMA SessionsStay ==
  ASSUME NEW raw, NEW list, NEW n, NEW k \in 1..n, Cascading(raw, list, n, k),
         NEW middle, Midway(list, middle, n), SessionsSet(raw, list, n, k, middle),
         NEW after, LineageSet(raw, middle, n, k, after), NEW s \in 1..n, Closed(raw, after, s)
  PROVE  Agreed(after, s, k + 1)
<1>1. n \in Nat
  BY DEF Cascading, Rows
<1>2. \A j \in 1..n : \A f \in JoinColumns \cup SessionColumns : Same(middle[j], after[j], f)
  BY LineageIsApart, ColumnsAreApart DEF OnlySets
<1>3. \A j \in 1..n : \A f \in JoinColumns : Same(list[j], middle[j], f)
  BY ColumnsAreApart DEF Midway, OnlySets
<1>4. \A j \in 1..n : \A f \in JoinColumns : Same(list[j], after[j], f) /\ Same(raw[j], list[j], f)
  <2>1. \A j \in 1..n : \A f \in JoinColumns : Same(raw[j], list[j], f)
    BY ColumnsAreApart DEF Cascading, OnlySets
  <2> QED
    BY <1>2, <1>3, <2>1 DEF Same
<1>5. /\ "native.session_login_guid" \in SessionColumns /\ "native.session_logout_guid" \in SessionColumns
      /\ "native.session_end" \in SessionColumns
  BY DEF SessionColumns
<1>6. \A j \in 1..n : \A f \in SessionColumns : Same(list[j], middle[j], f) => Same(list[j], after[j], f)
  BY <1>2 DEF Same
<1>7. Closed(raw, list, s) => Agreed(list, s, k)
  BY DEF Cascading
<1>8. ASSUME \A j \in 1..(k - 1) : Same(list[j], middle[j], "native.session_login_guid"),
             \A f \in SessionColumns \ {"native.session_login_guid"} : Same(list[s], middle[s], f)
      PROVE  Agreed(after, s, k + 1)
  <2>1. /\ Same(list[s], after[s], "native.session_logout_guid")
        /\ Same(list[s], after[s], "native.session_end")
    BY <1>5, <1>6, <1>8
  <2>2. \A j \in 1..(k - 1) : Same(list[j], after[j], "native.session_login_guid")
    <3> TAKE j \in 1..(k - 1)
    <3>1. j \in 1..n
      BY <1>1
    <3> QED
      BY <1>5, <1>6, <1>8, <3>1
  <2>3. Closed(raw, list, s)
    BY <2>1 DEF Closed, Same, Has
  <2> QED
    BY <1>1, <1>4, <1>7, <2>1, <2>2, <2>3, AgreedStays
<1>9. CASE \A j \in 1..n : \A f \in SessionColumns : Same(list[j], middle[j], f)
  <2>1. \A j \in 1..(k - 1) : j \in 1..n
    BY <1>1
  <2> QED
    BY <1>5, <1>8, <1>9, <2>1
<1>10. CASE ~\A j \in 1..n : \A f \in SessionColumns : Same(list[j], middle[j], f)
  <2>1. PICK login \in (1..n) \ {k} :
          /\ SameHost(raw[login], list[k])
          /\ \A j \in (1..n) \ {k, login} : \A f \in SessionColumns : Same(list[j], middle[j], f)
          /\ Same(list[login], middle[login], "native.session_login_guid")
          /\ Get(middle[login], "native.session_logout_guid") = Get(list[k], "guid")
          /\ OrElse(middle[login], "native.session_end", 0) = Time(list[k])
          /\ \A f \in SessionColumns \ {"native.session_login_guid"} : Same(list[k], middle[k], f)
          /\ Get(middle[k], "native.session_login_guid") = Get(list[login], "guid")
    BY <1>10 DEF SessionsSet
  <2>2. \A j \in 1..(k - 1) : Same(list[j], middle[j], "native.session_login_guid")
    <3> TAKE j \in 1..(k - 1)
    <3>1. j \in (1..n) \ {k}
      BY <1>1
    <3> QED
      BY <1>5, <2>1, <3>1
  <2>3. CASE s # login
    <3>1. \A f \in SessionColumns \ {"native.session_login_guid"} : Same(list[s], middle[s], f)
      BY <2>1, <2>3
    <3> QED
      BY <1>8, <2>2, <3>1
  <2>4. CASE s = login
    <3>1. /\ Get(after[s], "native.session_logout_guid") = Get(middle[s], "native.session_logout_guid")
          /\ OrElse(after[s], "native.session_end", 0) = OrElse(middle[s], "native.session_end", 0)
          /\ Get(after[k], "native.session_login_guid") = Get(middle[k], "native.session_login_guid")
      BY <1>2, <1>5 DEF Same, Get, OrElse, Has
    <3>2. /\ Get(list[k], "guid") = Get(after[k], "guid") /\ Time(list[k]) = Time(after[k])
          /\ Get(list[k], "source_host") = Get(after[k], "source_host")
      BY <1>4, SameJoins
    <3>3. /\ Get(list[s], "guid") = Get(after[s], "guid")
          /\ Get(list[s], "source_host") = Get(after[s], "source_host")
      BY <1>4, SameJoins
    <3>4. Get(raw[s], "source_host") = Get(list[s], "source_host")
      BY <1>4, SameJoins
    <3>5. SameHost(after[k], after[s])
      BY <2>1, <2>4, <3>2, <3>3, <3>4 DEF SameHost
    <3>6. k \in 1..((k + 1) - 1)
      BY <1>1
    <3> QED
      BY <2>1, <2>4, <3>1, <3>2, <3>3, <3>5, <3>6 DEF Agreed
  <2> QED
    BY <2>3, <2>4
<1> QED
  BY <1>9, <1>10

\* A turn gives no target to a row that is not a thread.
LEMMA TargetsStay ==
  ASSUME NEW raw, NEW list, NEW n, NEW k \in 1..n, Cascading(raw, list, n, k),
         NEW middle, Midway(list, middle, n), NEW after, LineageSet(raw, middle, n, k, after)
  PROVE  \A j \in 1..n : TargetOfThread(after[j])
<1> DEFINE target == "native.target_process_guid"
<1>1. \A j \in 1..n : Same(list[j], middle[j], "car_object") /\ Same(list[j], middle[j], target)
  <2>1. "car_object" \in (JoinColumns \cup LinkColumns) \ (SideColumns \cup SessionColumns)
    BY ColumnsAreApart DEF JoinColumns, ReferenceColumns
  <2>2. target \in (JoinColumns \cup LinkColumns) \ (SideColumns \cup SessionColumns)
    BY ColumnsAreApart DEF LineageColumns
  <2> QED
    BY <2>1, <2>2 DEF Midway, OnlySets
<1>2. \A j \in 1..n : "car_object" \in DOMAIN list[j]
  <2>1. \A j \in 1..n : "car_object" \in DOMAIN raw[j] /\ Same(raw[j], list[j], "car_object")
    BY ColumnsAreApart DEF Cascading, Complete, OnlySets, JoinColumns, ReferenceColumns
  <2> QED
    BY <2>1 DEF Same
<1>3. \A j \in 1..n : TargetOfThread(middle[j])
  BY <1>1, <1>2 DEF Cascading, TargetOfThread, Same, Has
<1>4. \A j \in (1..n) \ {k} : TargetOfThread(after[j])
  BY <1>3 DEF LineageSet
<1>5. "car_object" \in (JoinColumns \cup LinkColumns) \ LineageColumns
      /\ target \in (JoinColumns \cup LinkColumns) \ {"parent_guid", "owning_guid", "link_confidence"}
      /\ {"parent_guid", "owning_guid", "link_confidence"} \subseteq LineageColumns
  BY ColumnsAreApart DEF JoinColumns, ReferenceColumns, LineageColumns
<1>6. Same(middle[k], after[k], "car_object")
  BY <1>5, LineageIsApart DEF OnlySets
<1>7. CASE IsCreate(middle[k])
  <2>1. ParentSet(raw, middle, k, after[k])
    BY <1>7 DEF LineageSet
  <2>2. Same(middle[k], after[k], target)
    BY <1>5, <2>1 DEF ParentSet, Linked, OnlySets, Same
  <2> QED
    BY <1>1, <1>2, <1>3, <1>4, <1>6, <2>2 DEF TargetOfThread, Same, Has
<1>8. CASE ~IsCreate(middle[k])
  <2>1. PICK owned : OwnerSet(raw, middle, k, owned) /\ (owned["car_object"] # "thread" => after[k] = owned)
    BY <1>8 DEF LineageSet
  <2>2. Same(middle[k], owned, target) /\ Same(middle[k], owned, "car_object")
    BY <1>5, <2>1 DEF OwnerSet, Linked, OnlySets, Same
  <2>3. owned["car_object"] = middle[k]["car_object"] /\ after[k]["car_object"] = middle[k]["car_object"]
    BY <1>1, <1>2, <1>6, <2>2 DEF Same
  <2> QED
    BY <1>3, <1>4, <2>1, <2>2, <2>3 DEF TargetOfThread, Same, Has
<1> QED
  BY <1>7, <1>8

\* Only the row in hand is given an owner, and that is a process that was found.
LEMMA OwnersStay ==
  ASSUME NEW raw, NEW list, NEW n, NEW k \in 1..n, Cascading(raw, list, n, k),
         NEW middle, Midway(list, middle, n), NEW after, LineageSet(raw, middle, n, k, after)
  PROVE  \A j \in 1..n : OwnerIsThere(raw, after[j], j)
<1>1. Rows(raw, n) /\ DOMAIN raw = 1..n
  BY DEF Cascading, Rows
<1>2. \A j \in 1..n : \A f \in JoinColumns : Same(raw[j], middle[j], f)
  <2>1. \A j \in 1..n : \A f \in JoinColumns : Same(raw[j], list[j], f) /\ Same(list[j], middle[j], f)
    BY ColumnsAreApart DEF Cascading, Midway, OnlySets
  <2> QED
    BY <2>1 DEF Same
<1>3. "owning_guid" \in (JoinColumns \cup LinkColumns) \ (SideColumns \cup SessionColumns)
      /\ "owning_guid" \in (JoinColumns \cup LinkColumns) \ {"parent_guid", "link_confidence"}
      /\ "owning_guid" \in (JoinColumns \cup LinkColumns) \ TargetColumns
  BY ColumnsAreApart DEF LineageColumns, TargetColumns
<1>4. \A j \in 1..n : OwnerIsThere(raw, middle[j], j)
  <2> TAKE j \in 1..n
  <2>1. Same(list[j], middle[j], "owning_guid")
    BY <1>3 DEF Midway, OnlySets
  <2>2. OwnerIsThere(raw, list[j], j)
    BY DEF Cascading
  <2> QED
    BY <2>1, <2>2 DEF OwnerIsThere, Same, Has
<1>5. \A j \in (1..n) \ {k} : OwnerIsThere(raw, after[j], j)
  BY <1>4 DEF LineageSet
<1>6. CASE IsCreate(middle[k])
  <2>1. ParentSet(raw, middle, k, after[k])
    BY <1>6 DEF LineageSet
  <2>2. Same(middle[k], after[k], "owning_guid")
    BY <1>3, <2>1 DEF ParentSet, Linked, OnlySets, Same
  <2> QED
    BY <1>4, <1>5, <2>2 DEF OwnerIsThere, Same, Has
<1>7. CASE ~IsCreate(middle[k])
  <2> DEFINE c == OwnerOf(raw, middle[k]).at
  <2>1. PICK owned : OwnerSet(raw, middle, k, owned) /\ OnlySets(owned, after[k], TargetColumns)
    BY <1>7 DEF LineageSet
  <2>2. Same(owned, after[k], "owning_guid")
    BY <1>3, <2>1 DEF OnlySets
  <2>3. CASE c = 0
    <3>1. owned = middle[k]
      BY <2>1, <2>3 DEF OwnerSet
    <3> QED
      BY <1>4, <1>5, <2>2, <3>1 DEF OwnerIsThere, Same, Has
  <2>4. CASE c # 0
    <3>1. Time(middle[k]) \in Nat /\ SameHost(middle[k], raw[k])
      BY <1>1, <1>2, SameJoins DEF Rows, SameHost
    <3>2. c \in 1..n /\ IsCreate(raw[c]) /\ SameHost(raw[c], middle[k])
      BY <1>1, <2>4, <3>1, FoundIsCreate DEF OwnerOf
    <3>3. Get(owned, "owning_guid") = Get(middle[c], "guid")
      BY <2>1, <2>4 DEF OwnerSet, Linked
    <3> HIDE DEF c
    <3>4. Get(raw[c], "guid") = Get(middle[c], "guid")
      BY <1>2, <3>2, SameJoins
    <3>5. Has(after[k], "owning_guid") => after[k]["owning_guid"] = Get(raw[c], "guid")
      BY <2>2, <3>3, <3>4 DEF Same, Get, OrElse, Has
    <3>6. SameHost(raw[c], raw[k])
      BY <3>1, <3>2 DEF SameHost
    <3>7. OwnerIsThere(raw, after[k], k)
      BY <1>1, <3>2, <3>5, <3>6 DEF OwnerIsThere
    <3> QED
      BY <1>5, <3>7
  <2> QED
    BY <2>3, <2>4
<1> QED
  BY <1>6, <1>7

\* A turn of the loop keeps what the turns before it did.
LEMMA TurnKeeps ==
  ASSUME NEW raw, NEW list, NEW n, NEW k \in 1..n, Cascading(raw, list, n, k)
  PROVE  Cascading(raw, EnrichRow(raw, list, k), n, k + 1)
<1> DEFINE after == EnrichRow(raw, list, k)
<1>1. Rows(raw, n) /\ List(list, n) /\ n \in Nat
  BY DEF Cascading, Rows
<1>2. \A j \in 1..n : \A f \in JoinColumns : Same(raw[j], list[j], f)
  BY ColumnsAreApart DEF Cascading, OnlySets
<1>3. PICK middle : Midway(list, middle, n) /\ SessionsSet(raw, list, n, k, middle)
                    /\ LineageSet(raw, middle, n, k, after)
  BY <1>1, <1>2, TurnIs
<1> HIDE DEF after
<1>4. List(after, n)
  BY <1>3 DEF LineageSet
<1>5. \A j \in 1..n : Complete(raw[j]) /\ OnlySets(raw[j], after[j], LinkColumns)
  <2> TAKE j \in 1..n
  <2>1. Complete(raw[j]) /\ OnlySets(raw[j], list[j], LinkColumns)
    BY DEF Cascading
  <2>2. OnlySets(list[j], middle[j], SideColumns \cup SessionColumns)
    BY <1>3 DEF Midway
  <2>3. OnlySets(middle[j], after[j], LineageColumns)
    BY <1>3, LineageIsApart
  <2>4. OnlySets(list[j], middle[j], LinkColumns) /\ OnlySets(middle[j], after[j], LinkColumns)
    BY <2>2, <2>3, ColumnsAreApart, MoreLinks
  <2> QED
    BY <2>1, <2>4, LinksAddUp
<1>6. LineageHolds(raw, after, n, k + 1)
  BY <1>3, LineageStays
<1>7. \A s \in 1..n : Closed(raw, after, s) => Agreed(after, s, k + 1)
  BY <1>3, SessionsStay
<1>8. k + 1 \in 1..(n + 1)
  BY <1>1
<1>9. \A j \in 1..n : TargetOfThread(after[j]) /\ OwnerIsThere(raw, after[j], j)
  BY <1>3, TargetsStay, OwnersStay
<1> QED
  BY <1>1, <1>4, <1>5, <1>6, <1>7, <1>8, <1>9 DEF Cascading, after

=============================================================================
