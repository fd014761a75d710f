------------------------------ MODULE MCClients ------------------------------
(***************************************************************************)
(* Clients on a few rows, templates, indicators, hits, alerts and firings.      *)
(***************************************************************************)
EXTENDS Clients

MCPidOf == [v \in {"4", "8"} |-> IF v = "8" THEN 8 ELSE 4]
MCCaseOf == [v \in {"H1", "EVIL.example"} |-> IF v = "H1" THEN "h1" ELSE "evil.example"]
MCBasename == [p \in {"/bin/a"} |-> "a"]
MCNative == {"native.extra"}

-----------------------------------------------------------------------------
(* The timeline: the streams that the contract treats differently *)

Entry(car, also) == [car |-> car, also |-> also]

Plan(groups, natives) ==
  [groups |-> groups, natives |-> natives, category |-> "any", types |-> [a \in {"create"} |-> "start"],
   outcomes |-> <<>>, outcomeField |-> ""]

MCContract ==
  [process |-> Plan(<<[target |-> "process.pid", type |-> "long", primary |-> Entry("pid", <<>>), fallbacks |-> <<>>],
                      [target |-> "user.id", type |-> "keyword", primary |-> Entry("sid", <<>>),
                       fallbacks |-> <<Entry("uid", <<>>)>>],
                      [target |-> "process.env_vars", type |-> "keyword", primary |-> Entry("env_vars", <<>>),
                       fallbacks |-> <<>>]>>, {"access_level"}),
   flow |-> Plan(<<[target |-> "source.ip", type |-> "ip", primary |-> Entry("src_ip", <<"related.ip">>),
                    fallbacks |-> <<>>],
                   [target |-> "destination.ip", type |-> "ip", primary |-> Entry("dest_ip", <<"related.ip">>),
                    fallbacks |-> <<>>]>>, {}),
   http |-> Plan(<<[target |-> "host.hostname", type |-> "keyword", primary |-> Nothing,
                    fallbacks |-> <<Entry("hostname", <<"related.hosts">>)>>]>>, {}),
   authentication |-> [Plan(<<>>, {}) EXCEPT !.outcomes = [a \in {"failure"} |-> "failure"]],
   user_session |-> [Plan(<<>>, {"login_id"}) EXCEPT !.outcomeField = "login_successful"]]

EdgeField(car, ecs, type, also, alsoType) ==
  [car |-> car, ecs |-> ecs, type |-> type, also |-> also, alsoType |-> alsoType]

Dated(car) == EdgeField(car, "@timestamp", "date", "car.timestamp", "keyword")

Plain(car) == EdgeField(car, "car." \o car, "keyword", "", "")

MCEdges ==
  [rel |-> <<Dated("timestamp")>> \o
           [k \in 1..8 |-> Plain(<<"source_host", "relationship", "source_object", "source_guid", "target_object",
                                   "target_guid", "confidence", "method">>[k])],
   inferred |-> <<Plain("node_id"), EdgeField("first_seen", "@timestamp", "date", "car.first_seen", "date")>>,
   content |-> <<Plain("node_id"), EdgeField("first_seen", "@timestamp", "date", "", "")>>]

MCHeaderPath == [f \in {"source_host", "car_action"} |-> IF f = "source_host" THEN "host.name" ELSE "event.action"]
MCConfidence == [w \in {"definitive"} |-> "1.0"]
MCCoerced ==
  (<<"long", "many">> :> Failed) @@ (<<"ip", "name">> :> Failed) @@ (<<"boolean", "maybe">> :> Failed)
MCTransformed == <<"process", "env_vars", "A\nB">> :> "A,B"
MCInstant == [t \in {"t1", "t2", "t2Z", "t3"} |-> CASE t = "t1" -> 1 [] t = "t3" -> 3 [] OTHER -> 2]

Event(object, id, t) ==
  [car_object |-> object, guid |-> id, timestamp |-> t, source_host |-> "h1", car_action |-> "create"]

In(stream, line) == [file |-> stream, row |-> line]

aProcess ==
  In("process", [pid |-> "many", sid |-> "S", uid |-> "1000", env_vars |-> "A\nB", access_level |-> "0x10",
                 owning_guid |-> "owner", link_confidence |-> "definitive"] @@ ("native.extra" :> "x")
                @@ Event("process", "p", "t2"))
aForeign == In("process", [uid |-> "1000", pid |-> "4"] @@ [Event("process", "q", "t1") EXCEPT !.source_host = "h2"])
aFlow == In("flow", [src_ip |-> "10.0.0.1", dest_ip |-> "name"] @@ Event("flow", "f", "t1"))
aRequest == In("http", [hostname |-> "site"] @@ Event("http", "w", "t3"))
aTunnel == In("http", [Event("http", "x", "t2Z") EXCEPT !.car_action = "tunnel"])
aLogin == In("user_session", [login_id |-> "0xA", login_successful |-> "maybe"] @@ Event("user_session", "s", "t2"))
aFailure == In("authentication", [Event("authentication", "a", "t1") EXCEPT !.car_action = "failure"])
undated == In("flow", [src_ip |-> "10.0.0.1"] @@ Event("flow", "g", "soon"))
anEdge == In("relationships", [timestamp |-> "t2Z", source_host |-> "h1", relationship |-> "created",
                               source_object |-> "process", source_guid |-> "p", target_object |-> "flow",
                               target_guid |-> "f", confidence |-> "definitive", class |-> "declared"])
aNode == In("inferred", [node_id |-> "n", first_seen |-> "t1"])
aContent == In("content", [node_id |-> "sha", first_seen |-> "t2"])

MCLoads ==
  {<<>>, <<aFlow, anEdge, aFlow, aTunnel>>}
  \cup UNION {SetToSeqs(s) : s \in {{aProcess, aFlow, anEdge, aContent}, {aRequest, aLogin, aForeign, undated},
                                   {aFailure, aNode, aTunnel}}}

Ask(host, after, before, only) == [host |-> host, after |-> after, before |-> before, only |-> only]

MCRequests ==
  {Ask("", "", "", ""), Ask("h1", "", "t2", ""), Ask("", "t2", "", "object"), Ask("", "", "", "relationship"),
   Ask("", "soon", "", "")}

-----------------------------------------------------------------------------
(* Setup *)

MCTemplates == <<"component", "index">>
MCComposes == [t \in {"component", "index"} |-> IF t = "index" THEN {"component"} ELSE {}]
MCSpaces == <<"space", "bare">>
MCSavedObjects == [s \in {"space", "bare"} |-> IF s = "space" THEN "objects" ELSE ""]

-----------------------------------------------------------------------------
(* The pull *)

MCNode == [pattern |-> "p", type |-> "stix", comparisons |-> {[path |-> "ipv4-addr:value", value |-> "10.0.0.1"]},
           revoked |-> FALSE, broken |-> FALSE]
MCFirstNodes == {MCNode}
MCNodes ==
  {[MCNode EXCEPT !.revoked = TRUE], [MCNode EXCEPT !.pattern = ""], [MCNode EXCEPT !.broken = TRUE],
   [MCNode EXCEPT !.comparisons = {[path |-> "x:y", value |-> "1"]}]}
MCEcsOf == [p \in {"ipv4-addr:value"} |-> "threat.indicator.ip"]

-----------------------------------------------------------------------------
(* The exchange *)

MCTechniques ==
  [t \in {"T1", "T2", "T3"} |-> [id |-> t, revoked |-> t = "T2", by |-> IF t = "T2" THEN "T3" ELSE ""]]
MCIsAddress == {"10.0.0.1", "10.0.0.2"}
MCIsDomain == {"EVIL.example"}
MCRules == [d \in {"rule"} |-> [created |-> 1, modified |-> 3, attack |-> <<"T1">>]]
MCNoIndicator == [d \in {"lane"} |-> "no_pattern"]
MCBookkeeping == {"@timestamp", "detection.run_id"}
MCArrow == [e \in {"10.0.0.1 -> 10.0.0.2:80"} |-> [src |-> "10.0.0.1", dst |-> "10.0.0.2", port |-> "80"]]
MCTechnique == [t \in {"T1", "T2,T9"} |-> IF t = "T1" THEN <<"T1">> ELSE <<"T2", "T9">>]

lane == [DetectionId |-> "rule", RunId |-> "run", Timestamp |-> 2, Entity |-> "10.0.0.1 -> 10.0.0.2:80",
         AttackIds |-> "T2,T9", Computer |-> "h1"]
elastic == ("rule.id" :> "rule") @@ ("@timestamp" :> 3) @@ ("host.name" :> "h1") @@ ("file.name" :> "a")
           @@ ("source.ip" :> "10.0.0.1")
unruled == [DetectionId |-> "other", Timestamp |-> 2]
patternless == [DetectionId |-> "lane", Timestamp |-> 2]
undatedHit == [DetectionId |-> "rule"]
noHit == "host.name" :> "h1"

Indicator(modified) == Sdo(IndicatorOf("rule"), 1, modified)

edge(source) == Relationship("indicates", source, <<"attack-pattern", "T1">>, 1, 2, "declared")

MCExports ==
  {[docs |-> d, bundles |-> b] :
     d \in {<<>>, <<lane, elastic, lane>>, <<unruled, patternless, undatedHit, noHit>>},
     b \in {<<>>, << <<Indicator(5), Indicator(2)>> >>, << <<Indicator(2)>>, <<Indicator(4), edge(IndicatorOf("rule"))>> >>,
            << <<edge(<<"sighting", "x">>)>> >>, << <<Indicator(0)>> >>}}

MCIndicatorIds == {"i1", "i2"}
MCFieldKind == [f \in {"source.ip", "dns.name", "file.hash", "url"} |->
                  CASE f = "source.ip" -> "ip" [] f = "dns.name" -> "domain" [] f = "file.hash" -> "hash" [] OTHER -> "url"]

Enrichment(id, field, value) == ("indicator.id" :> id) @@ ("matched.field" :> field) @@ ("matched.atomic" :> value)

onAddress == Enrichment("i1", "source.ip", "10.0.0.1")

Alert(at, original, host, enrichments) ==
  [fields |-> ("@timestamp" :> at) @@ (IF original = 0 THEN <<>> ELSE "kibana.alert.original_time" :> original)
              @@ (IF host = "" THEN <<>> ELSE "host.name" :> host) @@ ("kibana.alert.uuid" :> "alert"),
   enrichments |-> enrichments]

MCAlerts ==
  {Alert(4, 1, "h1", <<onAddress>>), Alert(3, 2, "h1", <<onAddress>>), Alert(5, 0, "h1", <<onAddress>>),
   Alert(3, 2, "", <<Enrichment("i2", "dns.name", "EVIL.example"), Enrichment("x", "url", "u")>>),
   [fields |-> <<>>, enrichments |-> <<Enrichment("i2", "url", "u")>>],
   Alert(2, 0, "h1", <<>>), Alert(2, 0, "h1", <<Enrichment("i2", "url", "u"), Enrichment("i2", "file.hash", "h")>>)}

MCAlertLists ==
  {<<>>} \cup [1..2 -> MCAlerts]
  \cup SetToSeqs({Alert(4, 1, "h1", <<onAddress>>), Alert(3, 2, "h1", <<onAddress>>), Alert(5, 0, "h1", <<onAddress>>)})

MCIntOf == [v \in {"4", "8"} |-> IF v = "8" THEN 8 ELSE 4]

alice ==
  <<[car_object |-> "flow", guid |-> "f", timestamp |-> 2, hostname |-> "H1", src_ip |-> "10.0.0.1",
     dest_ip |-> "10.0.0.2", dest_fqdn |-> "EVIL.example", dest_port |-> "80"],
    [car_object |-> "process", guid |-> "p", timestamp |-> 1, hostname |-> "H1", pid |-> "0x4", exe |-> "a"],
    [car_object |-> "process", guid |-> "q", timestamp |-> 3, hostname |-> "H1", pid |-> "4", md5_hash |-> "h"],
    [car_object |-> "file", guid |-> "x", timestamp |-> 2, md5_hash |-> "h", file_path |-> "/bin/a"]>>

bob ==
  <<[car_object |-> "process", guid |-> "r", timestamp |-> 4, hostname |-> "h2", pid |-> "8", exe |-> "/bin/a"],
    [car_object |-> "process", guid |-> "s", timestamp |-> 4, hostname |-> "h2", pid |-> "8"]>>

Source(path, marked, rows) == [path |-> path, above |-> {"car"}, marked |-> marked, rows |-> rows]

MCTree == <<Source("alice", TRUE, alice), Source("bob", TRUE, bob), Source("half", FALSE, bob)>>

LaneFile(of, ending, staged, records) ==
  [lane |-> of, ending |-> ending, staged |-> staged, records |-> records]

fired ==
  <<[event_type |-> "alert", timestamp |-> 5, src_ip |-> "10.0.0.2", dest_ip |-> "10.0.0.1"]
      @@ ("alert.metadata" :> "T1"),
    [event_type |-> "alert", timestamp |-> 6, src_ip |-> "10.0.0.2", dest_ip |-> "10.0.0.1"]
      @@ ("alert.metadata.mitre_technique_id" :> "T2,T9"),
    [event_type |-> "alert", src_ip |-> "10.0.0.1"], [event_type |-> "flow", src_ip |-> "10.0.0.1"]>>

logged ==
  <<[MitreTags |-> "T1", Timestamp |-> 7, Computer |-> "h1"] @@ ("Details.PGUID" :> "q"),
    [OtherTags |-> "T1", Computer |-> "h1"] @@ ("Details.PID" :> "4") @@ ("Details.Hashes" :> <<"h">>),
    [OtherTags |-> "T1", Computer |-> "h1"] @@ ("Details.PID" :> "8")>>

matched ==
  <<[tool |-> "yara", rule |-> "T1", pid |-> "4"], [tool |-> "yara", rule |-> "T1", pid |-> "8", host |-> "h2"],
    [tool |-> "yara", rule |-> "T2,T9", pid |-> "8", host |-> "h1"], [tool |-> "yara", rule |-> "plain", pid |-> "4"],
    [tool |-> "other", rule |-> "T1", pid |-> "4"]>>

MCLanes ==
  {<<>>, <<LaneFile("hayabusa", "timeline.jsonl", FALSE, logged), LaneFile("suricata", "eve.json", FALSE, fired)>>,
   <<LaneFile("yara", "memory.jsonl", FALSE, matched), LaneFile("yara", "scan.jsonl", TRUE, matched),
     LaneFile("suricata", "timeline.jsonl", FALSE, fired)>>}

MCFirings ==
  {[tree |-> MCTree, paths |-> p, lanes |-> l] : p \in {{"car"}, {"alice"}, {"bob", "half"}}, l \in MCLanes}

=============================================================================
