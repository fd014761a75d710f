------------------------------- MODULE Alerts -------------------------------
(***************************************************************************)
(* byakugan cti-sightings (exchange.cti.sightings): the indicator-match alerts  *)
(* of Elastic Security to sightings of the indicators they matched.  An alert is  *)
(* [fields, enrichments]: a row, and the rows of threat.enrichments.                *)
(***************************************************************************)
EXTENDS Hits

CONSTANTS
  IndicatorIds,  \* the texts that are an indicator id
  FieldKind      \* the matched fields that are an observable: "ip", "hash", "domain", "url"

SightedIndicator(e) == FirstOf(e, <<"indicator.id", "matched.id">>)

\* The matched value as an observable, for the fields that are one.
MatchedObservable(e) ==
  LET field == Get(e, "matched.field")
      v     == Get(e, "matched.atomic")
      kind  == IF field \in DOMAIN FieldKind /\ v # "" THEN FieldKind[field] ELSE ""
  IN  CASE kind = "ip" /\ v \in IsAddress     -> <<IpAddress(v)>>
        [] kind = "hash"                      -> <<FileObservable("", v)>>
        [] kind = "domain" /\ v \in IsDomain  -> <<DomainName(Lower(v), "")>>
        [] kind = "url"                       -> <<Url(v)>>
        [] OTHER                              -> <<>>

\* One sighting for an indicator, a host and a matched value.
AlertKey(alert, e) ==
  <<SightedIndicator(e), FirstOf(alert.fields, <<"host.name", "host.hostname">>),
    Get(e, "matched.field"), Get(e, "matched.atomic")>>

DetectedAt(alert) == FirstTime(alert.fields, <<"@timestamp">>)

SeenAt(alert) == FirstTime(alert.fields, <<"kibana.alert.original_time", "@timestamp">>)

Later(a, b) == IF a > b THEN a ELSE b

Earlier(a, b) == IF a < b THEN a ELSE b

AlertObservation(alert, e) ==
  LET sco == MatchedObservable(e)
  IN  [k \in DOMAIN sco |->
         ObservedData(<<AlertKey(alert, e), SeenAt(alert)>>, "match", <<sco[k].id>>, SeenAt(alert))]

AlertSighting(alert, e) ==
  LET observed == AlertObservation(alert, e)
      host     == FirstOf(alert.fields, <<"host.name", "host.hostname">>)
      id       == FirstOf(alert.fields, <<"kibana.alert.uuid", "_id">>)
      sighting == SightingObject(AlertKey(alert, e), IndicatorOf(SightedIndicator(e)), SeenAt(alert),
                                 Later(DetectedAt(alert), SeenAt(alert)), SeenAt(alert), SeenAt(alert),
                                 [k \in DOMAIN observed |-> observed[k].id],
                                 <<IF host = "" THEN Producer ELSE HostIdentity(host).id>>)
  IN  Over(sighting, [alert_ids |-> IF id = "" THEN <<>> ELSE <<id>>])

\* MUTANT of Widened: the alerts are taken to come in the order of their times.
WidenedInOrder(s, new) ==
  [s EXCEPT !.count = @ + 1,
            !.last_seen = new.last_seen, !.modified = Later(@, new.modified),
            !.observed_data_refs = Distinct(@ \o new.observed_data_refs),
            !.alert_ids = Distinct(@ \o new.alert_ids)]

\* An alert of what is sighted already: one more, over a longer time.
Widened(s, new) ==
  [s EXCEPT !.count = @ + 1,
            !.first_seen = Earlier(@, new.first_seen), !.last_seen = Later(@, new.last_seen),
            !.created = Earlier(@, new.created), !.modified = Later(@, new.modified),
            !.observed_data_refs = Distinct(@ \o new.observed_data_refs),
            !.alert_ids = Distinct(@ \o new.alert_ids)]

EnrichmentObjects(state, alert, e) ==
  LET new  == AlertSighting(alert, e)
      objs == PutObjects(state.objs, MatchedObservable(e) \o AlertObservation(alert, e))
      host == IF new.where_sighted_refs[1] = Producer THEN <<>>
              ELSE <<HostIdentity(FirstOf(alert.fields, <<"host.name", "host.hostname">>))>>
  IN  IF SightedIndicator(e) \notin IndicatorIds THEN Skipped(state, "no_indicator_ref")
      ELSE IF new.id \in DOMAIN objs THEN [state EXCEPT !.objs = [objs EXCEPT ![new.id] = Widened(@, new)]]
      ELSE [state EXCEPT !.objs = PutObjects(objs, host \o <<new>>), !.sightings = @ + 1]

AlertObjects(state, alert) ==
  IF alert.enrichments = <<>> THEN Skipped(state, "no_enrichment")
  ELSE IF SeenAt(alert) = 0 THEN Skipped(state, "undated_alert")
  ELSE FoldLeft(LAMBDA s, e : EnrichmentObjects(s, alert, e), state, alert.enrichments)

AlertSightings(alerts) == FoldLeft(AlertObjects, NoObjects, alerts)

=============================================================================
