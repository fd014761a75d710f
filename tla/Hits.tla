-------------------------------- MODULE Hits --------------------------------
(***************************************************************************)
(* byakugan stix-export: documents of the detection lanes and of Elastic to     *)
(* hits (exchange.hits), and hits to sightings of the indicators that their       *)
(* rules are (exchange.export).  A document is a row of flattened keys.            *)
(***************************************************************************)
EXTENDS Exchange

CONSTANTS
  Rules,        \* the rules directory: by detection, [created, modified, attack]
  NoIndicator,  \* the detections whose rule gives no indicator, and why
  Bookkeeping,  \* the fields of the alerting engine, which are not evidence
  Arrow,        \* the entities "A -> B:port" of two addresses: [src, dst, port]
  Technique     \* the texts that hold technique ids, to the list of them

\* The first of the fields that the document has.
FirstOf(doc, fields) ==
  LET have == SelectSeq(fields, LAMBDA f : Has(doc, f)) IN IF have = <<>> THEN "" ELSE doc[have[1]]

\* The same, for a time.
FirstTime(doc, fields) ==
  LET have == SelectSeq(fields, LAMBDA f : Has(doc, f)) IN IF have = <<>> THEN 0 ELSE doc[have[1]]

TechniqueIds(text) == IF text \in DOMAIN Technique THEN Technique[text] ELSE <<>>

AddressOr(v) == IF v \in IsAddress THEN v ELSE ""

NoArrow == [src |-> "", dst |-> "", port |-> ""]

\* The two shapes of a hit; a document that names no detection is not one.  The
\* entity of a connection is its source here, the details have both ends.
FromEnvelope(doc) ==
  LET entity == Get(doc, "Entity")
      ends == IF entity \in DOMAIN Arrow THEN Arrow[entity] ELSE NoArrow
  IN  [run |-> Get(doc, "RunId"), detection |-> Get(doc, "DetectionId"),
       timestamp |-> FirstTime(doc, <<"Timestamp">>), detected |-> FirstTime(doc, <<"DetectedAt">>),
       entity |-> entity, attack |-> TechniqueIds(Get(doc, "AttackIds")),
       host |-> FirstOf(doc, <<"Computer", "host.name">>), src |-> ends.src, dst |-> ends.dst,
       port |-> ends.port, file |-> "", hash |-> "", guid |-> "",
       details |-> Without(doc, {"RunId", "Timestamp", "DetectedAt", "AttackIds"})]

FromElastic(doc) ==
  LET src == AddressOr(Get(doc, "source.ip"))
      dst == AddressOr(Get(doc, "destination.ip"))
      host == FirstOf(doc, <<"host.name", "host.hostname">>)
      file == FirstOf(doc, <<"file.name", "file.path">>)
      named == SelectSeq(<<host, IF dst # "" THEN src ELSE "", file,
                           Get(doc, "process.name"), Get(doc, "event.id")>>, LAMBDA v : v # "")
  IN  [run |-> FirstOf(doc, <<"detection.run_id", "kibana.alert.rule.execution.uuid">>),
       detection |-> FirstOf(doc, <<"detection.id", "rule.id", "kibana.alert.rule.rule_id">>),
       timestamp |-> FirstTime(doc, <<"kibana.alert.original_time", "@timestamp">>),
       detected |-> FirstTime(doc, <<"detection.detected_at", "kibana.alert.last_detected">>),
       entity |-> IF named = <<>> THEN "" ELSE named[1],
       attack |-> TechniqueIds(Get(doc, "threat.technique.id")),
       host |-> host, src |-> src, dst |-> dst, port |-> Get(doc, "destination.port"),
       file |-> file, hash |-> Get(doc, "file.hash.md5"), guid |-> Get(doc, "event.id"),
       details |-> Without(doc, Bookkeeping)]

HitsOf(doc) ==
  LET hit == IF Has(doc, "DetectionId") THEN FromEnvelope(doc) ELSE FromElastic(doc)
  IN  IF hit.detection = "" THEN <<>> ELSE <<hit>>

ReadHits(docs) == FlattenSeq([k \in DOMAIN docs |-> HitsOf(docs[k])])

\* What makes two hits one observation.
HitKey(hit) == <<hit.run, hit.detection, hit.timestamp, hit.entity, hit.details>>

-----------------------------------------------------------------------------
(* The objects of a hit *)

\* One observation for a connection or a lone address, and one for a file.
Observations(hit) ==
  LET when    == IF hit.timestamp # 0 THEN hit.timestamp ELSE hit.detected
      src     == IpAddress(hit.src)
      dst     == IpAddress(hit.dst)
      traffic == NetworkTraffic(src.id, dst.id, hit.port, <<"ipv4">>)
      lone    == IF hit.src # "" THEN src ELSE dst
      file    == FileObservable(hit.file, hit.hash)
      network ==
        IF hit.src # "" /\ hit.dst # ""
        THEN <<src, dst, traffic,
               ObservedData(HitKey(hit), "network", <<traffic.id, src.id, dst.id>>, when)>>
        ELSE IF hit.src # "" \/ hit.dst # ""
        THEN <<lone, ObservedData(HitKey(hit), "address", <<lone.id>>, when)>>
        ELSE <<>>
  IN  IF when = 0 THEN <<>>
      ELSE network \o IF hit.file = "" /\ hit.hash = "" THEN <<>>
                      ELSE <<file, ObservedData(HitKey(hit), "file", <<file.id>>, when)>>

\* The techniques of the rule are declared, those that only the hit names are derived.
TechniqueEdges(hit, rule) ==
  LET all == SelectSeq(Distinct(rule.attack \o hit.attack), Resolves)
  IN  [k \in DOMAIN all |->
         Relationship("indicates", IndicatorOf(hit.detection), PatternOf(all[k]), rule.created, rule.modified,
                      IF \E j \in DOMAIN rule.attack : rule.attack[j] = all[k] THEN "declared" ELSE "derived")]

HitSighting(hit, created) ==
  LET seen == SelectSeq(Observations(hit), LAMBDA obj : obj.type = "observed-data")
  IN  SightingObject(HitKey(hit), IndicatorOf(hit.detection), created, created, hit.timestamp, hit.timestamp,
                     [k \in DOMAIN seen |-> seen[k].id],
                     IF hit.host = "" THEN <<>> ELSE <<HostIdentity(hit.host).id>>)

Skipped(state, reason) == [state EXCEPT !.skipped = Append(@, reason)]

\* A second hit with the key of one that is there adds to its count.
HitObjects(state, hit) ==
  LET rule      == Rules[hit.detection]
      created   == IF hit.detected # 0 THEN hit.detected ELSE hit.timestamp
      indicator == Sdo(IndicatorOf(hit.detection), rule.created, rule.modified)
      host      == IF hit.host = "" THEN <<>> ELSE <<HostIdentity(hit.host)>>
      objs      == PutObjects(PutObject(state.objs, indicator), TechniqueEdges(hit, rule) \o host)
      id        == SightingId(HitKey(hit))
  IN  IF hit.detection \in DOMAIN NoIndicator THEN Skipped(state, NoIndicator[hit.detection])
      ELSE IF hit.detection \notin DOMAIN Rules THEN Skipped(state, "no_rule")
      ELSE IF created = 0 THEN Skipped(state, "undated_hit")
      ELSE IF id \in DOMAIN objs THEN [state EXCEPT !.objs = [objs EXCEPT ![id].count = @ + 1]]
      ELSE [state EXCEPT !.objs = PutObjects(objs, Observations(hit) \o <<HitSighting(hit, created)>>),
                         !.sightings = @ + 1]

NoObjects == [objs |-> Frame, sightings |-> 0, skipped |-> <<>>]

\* The hits, then the bundles that are passed through.
Assemble(docs, bundles) ==
  LET state == FoldLeft(HitObjects, NoObjects, ReadHits(docs))
  IN  [objs |-> Merge(state.objs, bundles), sightings |-> state.sightings, skipped |-> state.skipped]

=============================================================================
